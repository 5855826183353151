------------------------ MODULE MCCollectionManager -------------------------
(***************************************************************************)
(* Sets of requests for the runs of CollectionManager.                     *)
(***************************************************************************)
EXTENDS CollectionManager, TLC

CONSTANTS c1, c2, docs, none

ChangingRequests == OpNames \ {"list"}
WaitingRequests == OpNames \ {"create", "delete"}
InsertsOnly == {"insert"}

\* Clients are interchangeable in a run that checks no liveness.
ClientSymmetry == Permutations(Clients)
=============================================================================
