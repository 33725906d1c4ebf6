---------------------------- MODULE Checkpoints ----------------------------
(***************************************************************************)
(* What the seeding tasks promise, without locks, processes or coroutines: *)
(* the pages of a task are committed in order and without a gap, the saved *)
(* checkpoint never runs ahead of the committed pages, and a task is       *)
(* reported complete only when all its pages are committed.                *)
(***************************************************************************)
EXTENDS Naturals

CONSTANTS Tasks, NPages

VARIABLES
    committed,      \* the pages committed for each task
    checkpoint,     \* chunks_completed of its row
    complete        \* its row says COMPLETED

Init ==
    /\ committed = [t \in Tasks |-> {}]
    /\ checkpoint = [t \in Tasks |-> 0]
    /\ complete = [t \in Tasks |-> FALSE]

(* Some run commits a page of which all predecessors are committed. *)
Commit(t) ==
    /\ \E page \in 1..NPages :
          /\ 1..(page - 1) \subseteq committed[t]
          /\ committed' = [committed EXCEPT ![t] = @ \cup {page}]
    /\ UNCHANGED <<checkpoint, complete>>

(* The row is written.  The checkpoint may fall back, never run ahead. *)
Save(t) ==
    /\ \E c \in 0..NPages :
          /\ 1..c \subseteq committed[t]
          /\ checkpoint' = [checkpoint EXCEPT ![t] = c]
    /\ \E done \in BOOLEAN :
          /\ done => committed[t] = 1..NPages
          /\ complete' = [complete EXCEPT ![t] = done]
    /\ UNCHANGED committed

Next == \E t \in Tasks : Commit(t) \/ Save(t)

Spec == Init /\ [][Next]_<<committed, checkpoint, complete>>
=============================================================================
