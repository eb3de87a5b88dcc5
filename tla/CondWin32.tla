------------------------------ MODULE CondWin32 ------------------------------
(***************************************************************************)
(* NQCond for Windows without condition variables: two semaphores and a     *)
(* mutex, of Windows, around three counters. The clients are what every     *)
(* user of a condition variable is: takers that wait, some only for a time, *)
(* until there is a token, and givers that put tokens down under the mutex  *)
(* and signal, or broadcast, before they let it go or after.                *)
(***************************************************************************)
EXTENDS Integers, Sequences, FiniteSets

CONSTANTS Takers, Givers,
          Timed,         \* the takers that wait with a timeout
          MaxTimeouts,   \* how many waits time out
          MaxGone        \* INT_MAX / 2 in the code: when waitersGone is settled

VARIABLES waitersGone, waitersBlocked, waitersToUnblock,
          blockLock,     \* the gate: a semaphore of one
          blockQueue,    \* the semaphore waited on
          unblockLock,   \* its owner, or NoOne
          mutex,         \* the client's mutex: its owner, or NoOne
          tokens, timeouts,
          process        \* by client: where it is, and its locals
condVars == <<waitersGone, waitersBlocked, waitersToUnblock, blockLock, blockQueue, unblockLock, mutex, tokens, timeouts, process>>
counters == <<waitersGone, waitersBlocked, waitersToUnblock>>

NoOne == "nobody"
CondInit ==
  /\ waitersGone = 0 /\ waitersBlocked = 0 /\ waitersToUnblock = 0
  /\ blockLock = 1 /\ blockQueue = 0
  /\ unblockLock = NoOne /\ mutex = NoOne
  /\ tokens = 0 /\ timeouts = 0
  /\ process = [p \in Takers \cup Givers |-> [at |-> "lock", left |-> 0, all |-> FALSE, late |-> FALSE]]

At(p, place) == process[p].at = place
Go(p, place) == process' = [process EXCEPT ![p].at = place]

-----------------------------------------------------------------------------

Lock(p) ==
  /\ At(p, "lock") /\ mutex = NoOne
  /\ mutex' = p
  /\ Go(p, IF p \in Takers THEN "test" ELSE "give")
  /\ UNCHANGED <<counters, blockLock, blockQueue, unblockLock, tokens, timeouts>>

(* A taker waits while there is no token, and then lets others go on. *)
Test(t) ==
  /\ At(t, "test")
  /\ IF tokens = 0 THEN Go(t, "gate") /\ UNCHANGED <<tokens, mutex>>
     ELSE Go(t, "done") /\ tokens' = tokens - 1 /\ mutex' = NoOne
  /\ UNCHANGED <<counters, blockLock, blockQueue, unblockLock, timeouts>>

EnterGate(t) ==
  /\ At(t, "gate") /\ blockLock > 0
  /\ blockLock' = blockLock - 1
  /\ waitersBlocked' = waitersBlocked + 1
  /\ Go(t, "leaveGate")
  /\ UNCHANGED <<waitersGone, waitersToUnblock, blockQueue, unblockLock, mutex, tokens, timeouts>>
LeaveGate(t) ==
  /\ At(t, "leaveGate")
  /\ blockLock' = blockLock + 1
  /\ Go(t, "leaveMutex")
  /\ UNCHANGED <<counters, blockQueue, unblockLock, mutex, tokens, timeouts>>
LeaveMutex(t) ==
  /\ At(t, "leaveMutex")
  /\ mutex' = NoOne
  /\ Go(t, "wait")
  /\ UNCHANGED <<counters, blockLock, blockQueue, unblockLock, tokens, timeouts>>

Woken(t) ==
  /\ At(t, "wait") /\ blockQueue > 0
  /\ blockQueue' = blockQueue - 1
  /\ Go(t, "woken")
  /\ UNCHANGED <<counters, blockLock, unblockLock, mutex, tokens, timeouts>>
TimesOut(t) ==
  /\ At(t, "wait") /\ t \in Timed /\ timeouts < MaxTimeouts
  /\ timeouts' = timeouts + 1
  /\ Go(t, "woken")
  /\ UNCHANGED <<counters, blockLock, blockQueue, unblockLock, mutex, tokens>>

Leave(t) ==
  /\ At(t, "woken") /\ unblockLock = NoOne
  /\ unblockLock' = t
  /\ LET settles == waitersToUnblock = 0 /\ waitersGone + 1 = MaxGone
     IN /\ process' = [process EXCEPT ![t].left = waitersToUnblock, ![t].at = IF settles THEN "settle" ELSE "left"]
        /\ waitersToUnblock' = IF waitersToUnblock # 0 THEN waitersToUnblock - 1 ELSE 0
        /\ waitersGone' = IF waitersToUnblock # 0 THEN waitersGone ELSE waitersGone + 1
  /\ UNCHANGED <<waitersBlocked, blockLock, blockQueue, mutex, tokens, timeouts>>
Settle(t) ==
  /\ At(t, "settle") /\ blockLock > 0   \* taken and given back
  /\ waitersBlocked' = waitersBlocked - waitersGone
  /\ waitersGone' = 0
  /\ Go(t, "left")
  /\ UNCHANGED <<waitersToUnblock, blockLock, blockQueue, unblockLock, mutex, tokens, timeouts>>
Left(t) ==
  /\ At(t, "left")
  /\ unblockLock' = NoOne
  /\ Go(t, IF process[t].left = 1 THEN "openGate" ELSE "lock")
  /\ UNCHANGED <<counters, blockLock, blockQueue, mutex, tokens, timeouts>>
OpenGate(t) ==
  /\ At(t, "openGate")
  /\ blockLock' = blockLock + 1
  /\ Go(t, "lock")
  /\ UNCHANGED <<counters, blockQueue, unblockLock, mutex, tokens, timeouts>>

-----------------------------------------------------------------------------

(* A giver: as many tokens as it wakes takers, at most; late gives up the mutex
   before it signals. *)
Give(g, all, late) ==
  /\ At(g, "give")
  /\ tokens' = tokens + (IF all THEN 2 ELSE 1)
  /\ mutex' = IF late THEN NoOne ELSE mutex
  /\ process' = [process EXCEPT ![g] = [at |-> "signal", left |-> 0, all |-> all, late |-> late]]
  /\ UNCHANGED <<counters, blockLock, blockQueue, unblockLock, timeouts>>

Signal(g) ==
  /\ At(g, "signal") /\ unblockLock = NoOne
  /\ unblockLock' = g
  /\ Go(g, IF waitersToUnblock # 0 THEN (IF waitersBlocked = 0 THEN "nothing" ELSE "more")
           ELSE IF waitersBlocked > waitersGone THEN "closeGate" ELSE "nothing")
  /\ UNCHANGED <<counters, blockLock, blockQueue, mutex, tokens, timeouts>>
Nothing(g) ==
  /\ At(g, "nothing")
  /\ unblockLock' = NoOne
  /\ Go(g, "unlock")
  /\ UNCHANGED <<counters, blockLock, blockQueue, mutex, tokens, timeouts>>

(* A slip the code could have made: a broadcast wakes one. *)
OnlyOne(g, blocked) == 1
Issued(g, blocked) == IF process[g].all THEN blocked ELSE 1
More(g) ==
  /\ At(g, "more")
  /\ waitersToUnblock' = waitersToUnblock + Issued(g, waitersBlocked)
  /\ waitersBlocked' = waitersBlocked - Issued(g, waitersBlocked)
  /\ process' = [process EXCEPT ![g].at = "issue", ![g].left = Issued(g, waitersBlocked)]
  /\ UNCHANGED <<waitersGone, blockLock, blockQueue, unblockLock, mutex, tokens, timeouts>>
CloseGate(g) ==
  /\ At(g, "closeGate") /\ blockLock > 0
  /\ blockLock' = blockLock - 1
  /\ LET blocked == waitersBlocked - waitersGone
     IN /\ waitersGone' = 0
        /\ waitersToUnblock' = Issued(g, blocked)
        /\ waitersBlocked' = blocked - Issued(g, blocked)
        /\ process' = [process EXCEPT ![g].at = "issue", ![g].left = Issued(g, blocked)]
  /\ UNCHANGED <<blockQueue, unblockLock, mutex, tokens, timeouts>>
Issue(g) ==
  /\ At(g, "issue")
  /\ unblockLock' = NoOne
  /\ Go(g, "release")
  /\ UNCHANGED <<counters, blockLock, blockQueue, mutex, tokens, timeouts>>
Release(g) ==
  /\ At(g, "release")
  /\ blockQueue' = blockQueue + process[g].left
  /\ Go(g, "unlock")
  /\ UNCHANGED <<counters, blockLock, unblockLock, mutex, tokens, timeouts>>
Unlock(g) ==
  /\ At(g, "unlock")
  /\ mutex' = IF process[g].late THEN mutex ELSE NoOne
  /\ Go(g, "done")
  /\ UNCHANGED <<counters, blockLock, blockQueue, unblockLock, tokens, timeouts>>

TakerStep(t) ==
  \/ Lock(t) \/ Test(t) \/ EnterGate(t) \/ LeaveGate(t) \/ LeaveMutex(t) \/ Woken(t)
  \/ Leave(t) \/ Settle(t) \/ Left(t) \/ OpenGate(t)
(* A giver that has begun goes on; whether it ever comes is nobody's promise. *)
GiverGoesOn(g) ==
  \/ (\E all, late \in BOOLEAN : Give(g, all, late))
  \/ Signal(g) \/ Nothing(g) \/ More(g) \/ CloseGate(g) \/ Issue(g) \/ Release(g) \/ Unlock(g)
GiverStep(g) == Lock(g) \/ GiverGoesOn(g)
CondNext ==
  \/ \E t \in Takers : TakerStep(t) \/ TimesOut(t)
  \/ \E g \in Givers : GiverStep(g)
CondFairness == \A p \in Takers \cup Givers : WF_condVars(IF p \in Takers THEN TakerStep(p) ELSE GiverGoesOn(p))
CondSpec == CondInit /\ [][CondNext]_condVars /\ CondFairness

-----------------------------------------------------------------------------

(* The gate is opened once for each time it was closed, the counts are never taken
   below zero, and a gate left closed has somebody to open it: the ones still to be
   unblocked, or the last of them on its way. (NQCond_waitImpl, NQCond_signalImpl.) *)
GateIsSound ==
  /\ blockLock \in {0, 1}
  /\ waitersBlocked >= 0
  /\ waitersToUnblock > 0 => blockLock = 0
  /\ blockLock = 0 => \/ waitersToUnblock > 0
                      \/ \E t \in Takers : At(t, "leaveGate") \/ At(t, "openGate") \/ (At(t, "left") /\ process[t].left = 1)
  /\ unblockLock = NoOne => waitersGone < MaxGone

(* Nobody waits on for ever beside a token: no signal is lost, with takers that time
   out between being counted and being woken too. *)
NobodyStarves == tokens = 0 \/ \A t \in Takers : At(t, "done")
TokensAreTaken == <>[]NobodyStarves
=============================================================================
