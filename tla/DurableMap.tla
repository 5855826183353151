----------------------------- MODULE DurableMap -----------------------------
(***************************************************************************)
(* What a piramid collection promises to the clients that write to it: a   *)
(* map from document ids to documents that changes only by the writes they *)
(* request, in their order, one at a time.  When the process dies, what is *)
(* left of a batch is forgotten and what is committed stays.  No step of a *)
(* checkpoint, of compaction, of a restart or of recovery is visible here: *)
(* each of them must be a stuttering step.                                 *)
(***************************************************************************)
EXTENDS Integers, Sequences

CONSTANTS Ids,      \* document ids
          Batches,  \* the sequences of writes a client may request
          None      \* "no document under this id"

VARIABLES kv,       \* the contents
          todo,     \* the writes of the request in progress, <<>> if there is none
          next      \* the position in todo of the next one to commit

vars == <<kv, todo, next>>

Init == kv = [id \in Ids |-> None] /\ todo = <<>> /\ next = 1

Request ==
  /\ todo = <<>> /\ todo' \in Batches
  /\ UNCHANGED <<kv, next>>

\* The document under an id is replaced, or removed if the write has none.
Commit ==
  /\ todo # <<>>
  /\ kv' = [kv EXCEPT ![todo[next].id] = todo[next].doc]
  /\ IF next = Len(todo) THEN todo' = <<>> /\ next' = 1
                         ELSE todo' = todo /\ next' = next + 1

Die ==
  /\ todo' = <<>> /\ next' = 1
  /\ UNCHANGED kv

Next == Request \/ Commit \/ Die

Spec == Init /\ [][Next]_vars
=============================================================================
