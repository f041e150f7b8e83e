------------------------------ MODULE MCDomains ------------------------------
(* Instances of Domains for TLC. *)
EXTENDS Domains, TLC

CONSTANTS ours1, ours2, theirs, us, them, home, away, near

\* Two keys of one organisation and one of another.
MCOrgOf == ours1 :> us @@ ours2 :> us @@ theirs :> them

\* Twelve primitives, as in the extractor's lists.
MCPrims == 1..12
MCDefaults == [i \in 1..12 |-> i]

\* Similarities on both sides of the limits of the severities and of the
\* thresholds, and of the point where they are rounded across them.
MCSim ==
  home :> [p \in MCPrims |-> One - 137 * p]
  @@ away :> [p \in MCPrims |-> <<49994, 49996, 50004, 64994, 64996, 65003,
                                  69994, 69996, 70004, 90000, 12345, 0>>[p]]
  @@ near :> [p \in MCPrims |-> <<99998, 99000, 70006, 69999, 98000, 98000,
                                  70003, 99000, 64999, 98000, 97000, 0>>[p]]
MCBcm == home :> One @@ away :> 47000

\* Requests are interchangeable, and so are the keys of one organisation.
Symmetry == Permutations(Requests) \cup Permutations({ours1, ours2})
=============================================================================
