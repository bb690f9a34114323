------------------------------ MODULE MCRouting ------------------------------
(***************************************************************************)
(* Small clusters for Routing: which nodes, actors and threads there are,  *)
(* and what goes wrong between them.                                       *)
(***************************************************************************)
EXTENDS Routing, TLC

CONSTANTS n1, n2, n3, a1, s1, s2, s3, r1, r2, r3, w1, w2, w3, none

AllRoutes == Nodes \X Nodes

\* One actor, on n1.
HomeOne == a1 :> n1

\* Two threads of n2 send to it, and one of n3.
Work == r1 :> n1 @@ w1 :> n1 @@ s1 :> n2 @@ s2 :> n2 @@ r2 :> n2 @@ w2 :> n2
            @@ s3 :> n3 @@ r3 :> n3 @@ w3 :> n3
WorkPlace == [t \in Threads |-> Work[t]]

BoundOne == a1 :> 1
BoundTwo == a1 :> 2

\* n2 may hear that n1 has left.
LeavesN2 == {<<n2, n1>>}
Pairs == Permutations({s1, s2})
==============================================================================
