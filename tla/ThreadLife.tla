----------------------------- MODULE ThreadLife -----------------------------
(***************************************************************************)
(* An NQThread of ThreadPosix.c (ThreadWin.c does the same with flags): the *)
(* object is shared by the thread that created it, its owner, and by the    *)
(* thread that runs, and freed by whichever comes last. The owner may       *)
(* detach or join the thread and then destroy it, or leave that to the      *)
(* callback, in which case it calls nothing more. What is between a lock    *)
(* and its unlock is one step. pthread_create and pthread_join are external.*)
(***************************************************************************)
EXTENDS FiniteSets, Naturals

VARIABLES flags,   \* of the object: a set of DESTROY, EXITED, JOINED and DETACHED
          memory,  \* "none", "allocated" or "freed"
          owner,   \* where the owner is
          thread,  \* where the thread is
          frees,   \* how often the object was freed
          stray    \* the object was used when it was not allocated
threadVars == <<flags, memory, owner, thread, frees, stray>>

ThreadInit ==
  /\ flags = {} /\ memory = "none"
  /\ owner = "idle" /\ thread = "none"
  /\ frees = 0 /\ stray = FALSE

Uses == stray' = (stray \/ memory # "allocated")
Frees ==
  /\ memory' = "freed" /\ frees' = frees + 1
  /\ stray' = (stray \/ memory # "allocated")

State(f) == f \cap {"JOINED", "DETACHED"}
(* NQThread_setState clears all but the state, and never the state itself. *)
SetState(f, state) == State(f) \cup {state}
UnlessExited(f, state) == IF "EXITED" \in f THEN f ELSE SetState(f, state)

(* A slip the code could have made: destroy frees, whether the thread runs or not. *)
FreesAnyway(f) == [flags |-> f \cup {"DESTROY"}, last |-> TRUE]

(* What the owner, or the callback, finds in NQThread_destroy, and what the
   thread finds at the end of NQThreadEntry: whether to go on to free. *)
Destroyed(f) == [flags |-> f \cup {"DESTROY"}, last |-> "EXITED" \in f]
Exited(f) == [flags |-> f \cup {"EXITED"}, last |-> "DESTROY" \in f]

-----------------------------------------------------------------------------

(* NQThread_create, which frees the object if there will be no thread. *)
Create(starts) ==
  /\ owner = "idle"
  /\ flags' = {} /\ memory' = "allocated"
  /\ owner' = IF starts THEN "owns" ELSE "freeing"
  /\ thread' = IF starts THEN "started" ELSE "none"
  /\ UNCHANGED <<frees, stray>>

(* The callback is not one that destroys the thread, or the owner lets go. *)
LetGo ==
  /\ owner \in {"owns", "detached"}
  /\ owner' = "left"
  /\ UNCHANGED <<flags, memory, thread, frees, stray>>

Detach ==
  /\ owner = "owns"
  /\ flags' = UnlessExited(flags, "DETACHED")
  /\ owner' = "detached"
  /\ Uses
  /\ UNCHANGED <<memory, thread, frees>>

(* NQThread_join: the handle, the wait, the state. *)
Join ==
  /\ owner = "owns"
  /\ owner' = "joining"
  /\ Uses
  /\ UNCHANGED <<flags, memory, thread, frees>>

Joined ==
  /\ owner = "joining" /\ thread = "over"
  /\ flags' = UnlessExited(flags, "JOINED")
  /\ owner' = "joined"
  /\ Uses
  /\ UNCHANGED <<memory, thread, frees>>

Destroy ==
  /\ owner \in {"owns", "detached", "joined"}
  /\ flags' = Destroyed(flags).flags
  /\ owner' = IF Destroyed(flags).last THEN "freeing" ELSE "done"
  /\ Uses
  /\ UNCHANGED <<memory, thread, frees>>

OwnerFrees ==
  /\ owner = "freeing"
  /\ owner' = "done"
  /\ Frees
  /\ UNCHANGED <<flags, thread>>

-----------------------------------------------------------------------------

(* NQThreadEntry: the name, the callback, what is left to do. *)
Start ==
  /\ thread = "started"
  /\ thread' = "running"
  /\ Uses
  /\ UNCHANGED <<flags, memory, owner, frees>>

(* NQThread_destroy from the callback. *)
DestroySelf ==
  /\ thread = "running" /\ owner = "left" /\ "DESTROY" \notin flags
  /\ flags' = Destroyed(flags).flags
  /\ thread' = IF Destroyed(flags).last THEN "freeing" ELSE "running"
  /\ Uses
  /\ UNCHANGED <<memory, owner, frees>>

Exit ==
  /\ thread = "running"
  /\ flags' = Exited(flags).flags
  /\ thread' = IF Exited(flags).last THEN "destroying" ELSE "over"
  /\ Uses
  /\ UNCHANGED <<memory, owner, frees>>

DestroyAtExit ==
  /\ thread = "destroying"
  /\ flags' = Destroyed(flags).flags
  /\ thread' = IF Destroyed(flags).last THEN "freeing" ELSE "over"
  /\ Uses
  /\ UNCHANGED <<memory, owner, frees>>

ThreadFrees ==
  /\ thread = "freeing"
  /\ thread' = "over"
  /\ Frees
  /\ UNCHANGED <<flags, owner>>

EntryStep == Start \/ Exit \/ DestroyAtExit \/ ThreadFrees
ThreadNext ==
  \/ \E starts \in BOOLEAN : Create(starts)
  \/ LetGo \/ Detach \/ Join \/ Joined \/ Destroy \/ OwnerFrees
  \/ DestroySelf \/ EntryStep

(* Threads run, and callbacks return. *)
ThreadFairness == WF_threadVars(EntryStep) /\ WF_threadVars(OwnerFrees) /\ WF_threadVars(Joined)
ThreadSpec == ThreadInit /\ [][ThreadNext]_threadVars /\ ThreadFairness

-----------------------------------------------------------------------------

(* The object is freed once, by the last of its two users, and nobody uses it
   after that; NQThread_join finds the thread joinable, as it asserts. *)
ThreadFreedOnce ==
  /\ ~stray /\ frees <= 1
  /\ owner = "joining" => State(flags) = {}

(* Whoever destroys it, and whenever: in the end it is freed. *)
Freed == "DESTROY" \in flags => memory = "freed"
ThreadIsFreed == []<>Freed
=============================================================================
