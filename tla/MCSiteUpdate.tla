----------------------------- MODULE MCSiteUpdate -----------------------------
(* The instance of SiteUpdate that TLC checks.                             *)
EXTENDS SiteUpdate

CONSTANTS kept, altered, created, n1

\* The neighbour is in the bench that the site first enters and later leaves.
NeighbourBench == [n \in {n1} |-> 2]

\* The first update alters a table and creates one, the second changes none.
UpdateChanges == <<{kept, altered}, {altered, created}, {}>>
=============================================================================
