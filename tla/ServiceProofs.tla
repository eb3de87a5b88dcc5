--------------------------- MODULE ServiceProofs ---------------------------
(***************************************************************************)
(* What is proved of four protocols of the library, each in a part of its   *)
(* own: the condition variable made of semaphores, for any number of        *)
(* clients, the end of a thread object, a web socket's output, and what the *)
(* spying proxy passes on.                                                 *)
(***************************************************************************)
EXTENDS CondWin32, ThreadLife, WebSocketSession, SpyServer,
        ListLemmas, SequenceTheorems, FiniteSetTheorems, TLAPS

(* Clients are threads, finitely many, that take or give. *)
ClientsAreThreads ==
  /\ IsFiniteSet(Takers) /\ Takers \cap Givers = {} /\ NoOne \notin Takers \cup Givers
  /\ MaxGone \in Nat \ {0}
Clients == Takers \cup Givers

TakerPlaces ==
  {"lock", "test", "gate", "leaveGate", "leaveMutex", "wait", "woken", "settle", "left", "openGate", "done"}
GiverPlaces == {"lock", "give", "signal", "nothing", "more", "closeGate", "issue", "release", "unlock", "done"}
CondTypeOK ==
  /\ waitersGone \in Nat /\ waitersBlocked \in Nat /\ waitersToUnblock \in Nat
  /\ process \in [Clients -> [at : TakerPlaces \cup GiverPlaces, left : Int, all : BOOLEAN, late : BOOLEAN]]
  /\ \A t \in Takers : process[t].at \in TakerPlaces
  /\ \A g \in Givers : process[g].at \in GiverPlaces

(* Who works with the counters holds unblockLock. *)
Inside == {"settle", "left", "nothing", "more", "closeGate", "issue"}
HoldsLock == \A p \in Clients : process[p].at \in Inside => unblockLock = p

(* Who is to open the gate: one taker, or the ones not unblocked yet. *)
Opens(x) == x.at \in {"leaveGate", "openGate"} \/ (x.at = "left" /\ x.left = 1)
OneOpens ==
  /\ blockLock \in {0, 1}
  /\ blockLock = 0 <=> waitersToUnblock > 0 \/ \E t \in Takers : Opens(process[t])
  /\ waitersToUnblock > 0 => \A t \in Takers : ~Opens(process[t])
  /\ \A t, u \in Takers : Opens(process[t]) /\ Opens(process[u]) => t = u

(* The counters count who has come in and not left. *)
Counted == {"leaveGate", "leaveMutex", "wait", "woken"}
Waiting == { t \in Takers : process[t].at \in Counted }
AllCounted == Cardinality(Waiting) = waitersBlocked - waitersGone + waitersToUnblock

(* What was read of the counters is still true while the lock is held. *)
ReadIsTrue ==
  /\ \A t \in Takers : process[t].at = "settle" => waitersToUnblock = 0 /\ process[t].left = 0
  /\ \A g \in Givers : /\ process[g].at = "more" => waitersToUnblock > 0 /\ waitersBlocked > 0
                       /\ process[g].at = "closeGate" => waitersToUnblock = 0 /\ waitersBlocked > waitersGone
GoneIsSettled == waitersGone < MaxGone \/ \E t \in Takers : process[t].at = "settle"

CondInv == CondTypeOK /\ HoldsLock /\ OneOpens /\ AllCounted /\ ReadIsTrue /\ GoneIsSettled

-----------------------------------------------------------------------------

(* A client's record, as a step leaves it. *)
Record == [at : TakerPlaces \cup GiverPlaces, left : Int, all : BOOLEAN, late : BOOLEAN]

LEMMA Others ==
  ASSUME CondTypeOK, NEW p \in Clients, NEW x \in Record, process' = [process EXCEPT ![p] = x],
         p \in Takers => x.at \in TakerPlaces, p \in Givers => x.at \in GiverPlaces
  PROVE  /\ process' \in [Clients -> Record]
         /\ \A t \in Takers : process'[t].at \in TakerPlaces
         /\ \A g \in Givers : process'[g].at \in GiverPlaces
         /\ process'[p] = x /\ \A q \in Clients : q # p => process'[q] = process[q]
BY DEF CondTypeOK, Record, Clients

LEMMA WentTo ==
  ASSUME CondTypeOK, NEW p \in Clients, NEW place \in TakerPlaces \cup GiverPlaces
  PROVE  LET x == [process[p] EXCEPT !.at = place]
         IN x \in Record /\ x.at = place /\ x.left = process[p].left /\ x.all = process[p].all
<1>1. process[p] \in Record
  BY DEF CondTypeOK, Record
<1> QED BY <1>1 DEF Record

(* Who waits, after p came in, left, or did neither. *)
LEMMA WaitingKept ==
  ASSUME NEW p \in Clients, \A q \in Clients : q # p => process'[q] = process[q],
         p \in Takers => (process'[p].at \in Counted <=> process[p].at \in Counted)
  PROVE  Waiting' = Waiting
BY DEF Waiting, Clients

LEMMA WaitingFinite ==
  ASSUME ClientsAreThreads
  PROVE  IsFiniteSet(Waiting) /\ Cardinality(Waiting) \in Nat
<1>1. IsFiniteSet(Waiting)
  BY FS_Subset DEF ClientsAreThreads, Waiting
<1> QED BY <1>1, FS_CardinalityType

LEMMA WaitingGrows ==
  ASSUME ClientsAreThreads, NEW t \in Takers, \A q \in Clients : q # t => process'[q] = process[q],
         process'[t].at \in Counted, process[t].at \notin Counted
  PROVE  Cardinality(Waiting') = Cardinality(Waiting) + 1
<1>1. Waiting' = Waiting \cup {t} /\ t \notin Waiting
  BY DEF Waiting, Clients
<1> QED BY <1>1, WaitingFinite, FS_AddElement

LEMMA WaitingShrinks ==
  ASSUME ClientsAreThreads, NEW t \in Takers, \A q \in Clients : q # t => process'[q] = process[q],
         process'[t].at \notin Counted, process[t].at \in Counted
  PROVE  Cardinality(Waiting') = Cardinality(Waiting) - 1 /\ Cardinality(Waiting) > 0
<1>1. Waiting' = Waiting \ {t} /\ t \in Waiting
  BY DEF Waiting, Clients
<1>2. IsFiniteSet(Waiting) /\ Cardinality(Waiting) \in Nat
  BY WaitingFinite
<1>3. Cardinality(Waiting') = Cardinality(Waiting) - 1
  BY <1>1, <1>2, FS_RemoveElement
<1>4. Cardinality(Waiting) # 0
  BY <1>1, <1>2, FS_EmptySet
<1> QED BY <1>2, <1>3, <1>4

(* Steps that touch neither counters nor gate nor the lock on the counters. *)
LEMMA QuietStep ==
  ASSUME ClientsAreThreads, CondInv, NEW p \in Clients, NEW x \in Record,
         process' = [process EXCEPT ![p] = x], UNCHANGED <<counters, blockLock, unblockLock>>,
         p \in Takers => x.at \in TakerPlaces, p \in Givers => x.at \in GiverPlaces,
         process[p].at \notin Inside, x.at \notin Inside,
         ~Opens(process[p]), ~Opens(x),
         p \in Takers => (x.at \in Counted <=> process[p].at \in Counted)
  PROVE  CondInv'
<1>1. /\ process' \in [Clients -> Record]
      /\ \A t \in Takers : process'[t].at \in TakerPlaces
      /\ \A g \in Givers : process'[g].at \in GiverPlaces
      /\ process'[p] = x /\ \A q \in Clients : q # p => process'[q] = process[q]
  BY Others DEF CondInv
<1>2. CondTypeOK'
  BY <1>1 DEF CondInv, CondTypeOK, counters, Record
<1>3. HoldsLock'
  BY <1>1 DEF CondInv, HoldsLock
<1>4. OneOpens'
  <2>1. \A t \in Takers : Opens(process[t])' <=> Opens(process[t])
    BY <1>1 DEF Clients, Opens
  <2> QED BY <2>1 DEF CondInv, OneOpens, counters
<1>5. AllCounted'
  BY <1>1, WaitingKept DEF CondInv, AllCounted, counters
<1>6. ReadIsTrue' /\ GoneIsSettled'
  BY <1>1 DEF CondInv, ReadIsTrue, GoneIsSettled, counters, Clients, Inside
<1> QED BY <1>2, <1>3, <1>4, <1>5, <1>6 DEF CondInv

LEMMA QuietGo ==
  ASSUME ClientsAreThreads, CondInv, NEW p \in Clients, NEW place, process' = [process EXCEPT ![p].at = place],
         UNCHANGED <<counters, blockLock, unblockLock>>,
         p \in Takers => place \in TakerPlaces, p \in Givers => place \in GiverPlaces,
         process[p].at \notin Inside \cup {"leaveGate", "openGate"},
         place \notin Inside \cup {"leaveGate", "openGate"},
         p \in Takers => (place \in Counted <=> process[p].at \in Counted)
  PROVE  CondInv'
<1> DEFINE x == [process[p] EXCEPT !.at = place]
<1>1. place \in TakerPlaces \cup GiverPlaces /\ CondTypeOK
  BY DEF Clients, CondInv
<1>2. x \in Record /\ x.at = place /\ process' = [process EXCEPT ![p] = x]
  BY <1>1, WentTo
<1> HIDE DEF x
<1>3. ~Opens(process[p]) /\ ~Opens(x)
  BY <1>2 DEF Opens, Inside
<1> QED BY <1>2, <1>3, QuietStep

LEMMA QuietSteps ==
  ASSUME ClientsAreThreads, CondInv,
         \/ \E p \in Clients : Lock(p)
         \/ \E t \in Takers : Test(t) \/ LeaveMutex(t) \/ Woken(t) \/ TimesOut(t)
         \/ \E g \in Givers : (\E all, late \in BOOLEAN : Give(g, all, late)) \/ Release(g) \/ Unlock(g)
  PROVE  CondInv'
<1>0. \A p \in Clients : p \in Takers <=> p \notin Givers
  BY DEF ClientsAreThreads, Clients
<1>1. ASSUME NEW p \in Clients, Lock(p) PROVE CondInv'
  <2>1. process' = [process EXCEPT ![p].at = IF p \in Takers THEN "test" ELSE "give"] /\ process[p].at = "lock"
        /\ UNCHANGED <<counters, blockLock, unblockLock>>
    BY <1>1 DEF Lock, At, Go
  <2> QED BY <1>0, <2>1, QuietGo DEF TakerPlaces, GiverPlaces, Inside, Counted
<1>2. ASSUME NEW t \in Takers, Test(t) \/ LeaveMutex(t) \/ Woken(t) \/ TimesOut(t) PROVE CondInv'
  <2>1. UNCHANGED <<counters, blockLock, unblockLock>> /\ t \in Clients /\ t \notin Givers
    BY <1>0, <1>2 DEF Test, LeaveMutex, Woken, TimesOut, Clients
  <2>2. \/ process[t].at = "test" /\ (process' = [process EXCEPT ![t].at = "gate"] \/ process' = [process EXCEPT ![t].at = "done"])
        \/ process[t].at = "leaveMutex" /\ process' = [process EXCEPT ![t].at = "wait"]
        \/ process[t].at = "wait" /\ process' = [process EXCEPT ![t].at = "woken"]
    BY <1>2 DEF Test, LeaveMutex, Woken, TimesOut, At, Go
  <2> QED BY <2>1, <2>2, QuietGo DEF TakerPlaces, Inside, Counted
<1>3. ASSUME NEW g \in Givers, Release(g) \/ Unlock(g) PROVE CondInv'
  <2>1. UNCHANGED <<counters, blockLock, unblockLock>> /\ g \in Clients /\ g \notin Takers
    BY <1>0, <1>3 DEF Release, Unlock, Clients
  <2>2. \/ process[g].at = "release" /\ process' = [process EXCEPT ![g].at = "unlock"]
        \/ process[g].at = "unlock" /\ process' = [process EXCEPT ![g].at = "done"]
    BY <1>3 DEF Release, Unlock, At, Go
  <2> QED BY <2>1, <2>2, QuietGo DEF GiverPlaces, Inside
<1>4. ASSUME NEW g \in Givers, NEW all \in BOOLEAN, NEW late \in BOOLEAN, Give(g, all, late) PROVE CondInv'
  <2> DEFINE x == [at |-> "signal", left |-> 0, all |-> all, late |-> late]
  <2>1. UNCHANGED <<counters, blockLock, unblockLock>> /\ g \in Clients /\ g \notin Takers
    BY <1>0, <1>4 DEF Give, Clients
  <2>2. x \in Record /\ x.at = "signal" /\ process' = [process EXCEPT ![g] = x] /\ process[g].at = "give"
    BY <1>4 DEF Give, At, Record, GiverPlaces
  <2> HIDE DEF x
  <2> QED BY <2>1, <2>2, QuietStep DEF GiverPlaces, Inside, Opens
<1> QED BY <1>1, <1>2, <1>3, <1>4

-----------------------------------------------------------------------------
(* The steps of a taker at the gate and among the counters. *)

LEMMA StepEnterGate ==
  ASSUME ClientsAreThreads, CondInv, NEW t \in Takers, EnterGate(t)
  PROVE  CondInv'
<1>0. t \in Clients /\ t \notin Givers
  BY DEF ClientsAreThreads, Clients
<1>1. process' = [process EXCEPT ![t].at = "leaveGate"] /\ process[t].at = "gate" /\ blockLock = 1 /\ blockLock' = 0
      /\ waitersBlocked' = waitersBlocked + 1 /\ UNCHANGED <<waitersGone, waitersToUnblock, unblockLock>>
  <2>1. blockLock \in {0, 1}
    BY DEF CondInv, OneOpens
  <2> QED BY <2>1 DEF EnterGate, At, Go
<1> DEFINE x == [process[t] EXCEPT !.at = "leaveGate"]
<1>2. x \in Record /\ x.at = "leaveGate" /\ process' = [process EXCEPT ![t] = x]
  BY <1>0, <1>1, WentTo DEF CondInv, TakerPlaces
<1> HIDE DEF x
<1>3. /\ process' \in [Clients -> Record]
      /\ \A u \in Takers : process'[u].at \in TakerPlaces
      /\ \A g \in Givers : process'[g].at \in GiverPlaces
      /\ process'[t] = x /\ \A q \in Clients : q # t => process'[q] = process[q]
  BY <1>0, <1>2, Others DEF CondInv, TakerPlaces
<1>4. CondTypeOK'
  BY <1>1, <1>3 DEF CondInv, CondTypeOK, Record
<1>5. HoldsLock'
  BY <1>1, <1>2, <1>3 DEF CondInv, HoldsLock, Inside
<1>6. OneOpens'
  <2>1. Opens(x) /\ ~(waitersToUnblock > 0) /\ \A u \in Takers : ~Opens(process[u])
    BY <1>1, <1>2 DEF CondInv, OneOpens, Opens
  <2>2. \A u \in Takers : Opens(process'[u]) <=> u = t
    BY <1>3, <2>1 DEF Clients
  <2> QED BY <1>1, <2>1, <2>2 DEF OneOpens
<1>7. AllCounted'
  <2>1. Cardinality(Waiting') = Cardinality(Waiting) + 1
    BY <1>0, <1>1, <1>2, <1>3, WaitingGrows DEF Counted
  <2> QED BY <1>1, <2>1 DEF CondInv, CondTypeOK, AllCounted
<1>8. ReadIsTrue' /\ GoneIsSettled'
  BY <1>0, <1>1, <1>2, <1>3 DEF CondInv, CondTypeOK, ReadIsTrue, GoneIsSettled, Clients
<1> QED BY <1>4, <1>5, <1>6, <1>7, <1>8 DEF CondInv

(* The one that was to open the gate opens it. *)
LEMMA StepOpens ==
  ASSUME ClientsAreThreads, CondInv, NEW t \in Takers, LeaveGate(t) \/ OpenGate(t)
  PROVE  CondInv'
<1>0. t \in Clients /\ t \notin Givers
  BY DEF ClientsAreThreads, Clients
<1> DEFINE from == process[t].at
           place == IF from = "leaveGate" THEN "leaveMutex" ELSE "lock"
           x == [process[t] EXCEPT !.at = place]
<1>1. /\ blockLock' = blockLock + 1 /\ UNCHANGED <<counters, unblockLock>>
      /\ from \in {"leaveGate", "openGate"} /\ process' = [process EXCEPT ![t] = x]
  BY DEF LeaveGate, OpenGate, At, Go
<1>2. x \in Record /\ x.at = place /\ place \in {"leaveMutex", "lock"} /\ (place = "leaveMutex" <=> from = "leaveGate")
  BY <1>0, <1>1, WentTo DEF CondInv, TakerPlaces
<1> HIDE DEF place, x
<1>3. /\ process' \in [Clients -> Record]
      /\ \A u \in Takers : process'[u].at \in TakerPlaces
      /\ \A g \in Givers : process'[g].at \in GiverPlaces
      /\ process'[t] = x /\ \A q \in Clients : q # t => process'[q] = process[q]
  BY <1>0, <1>1, <1>2, Others DEF CondInv, TakerPlaces
<1>4. CondTypeOK'
  BY <1>1, <1>3 DEF CondInv, CondTypeOK, Record, counters
<1>5. HoldsLock'
  BY <1>1, <1>2, <1>3 DEF CondInv, HoldsLock, Inside
<1>6. OneOpens'
  <2>1. Opens(process[t]) /\ ~Opens(x)
    BY <1>1, <1>2 DEF Opens
  <2>2. blockLock = 0 /\ ~(waitersToUnblock > 0) /\ \A u \in Takers : u # t => ~Opens(process[u])
    BY <2>1 DEF CondInv, OneOpens
  <2>3. \A u \in Takers : ~Opens(process'[u])
    BY <1>3, <2>1, <2>2 DEF Clients
  <2> QED BY <1>1, <2>2, <2>3 DEF OneOpens, counters
<1>7. AllCounted'
  BY <1>0, <1>1, <1>2, <1>3, WaitingKept DEF CondInv, AllCounted, counters, Counted
<1>8. ReadIsTrue' /\ GoneIsSettled'
  BY <1>0, <1>1, <1>2, <1>3 DEF CondInv, ReadIsTrue, GoneIsSettled, Clients, counters
<1> QED BY <1>4, <1>5, <1>6, <1>7, <1>8 DEF CondInv

(* A taker that has come back takes itself from the counters. *)
LEMMA StepLeave ==
  ASSUME ClientsAreThreads, CondInv, NEW t \in Takers, Leave(t)
  PROVE  CondInv'
<1> DEFINE settles == waitersToUnblock = 0 /\ waitersGone + 1 = MaxGone
           x == [process[t] EXCEPT !.left = waitersToUnblock, !.at = IF settles THEN "settle" ELSE "left"]
<1>0. /\ t \in Clients /\ t \notin Givers /\ MaxGone \in Nat \ {0} /\ NoOne \notin Clients
      /\ waitersGone \in Nat /\ waitersBlocked \in Nat /\ waitersToUnblock \in Nat
  BY DEF ClientsAreThreads, Clients, CondInv, CondTypeOK
<1>1. /\ process[t].at = "woken" /\ unblockLock = NoOne /\ unblockLock' = t
      /\ process' = [process EXCEPT ![t] = x] /\ UNCHANGED <<waitersBlocked, blockLock>>
      /\ waitersToUnblock' = (IF waitersToUnblock # 0 THEN waitersToUnblock - 1 ELSE 0)
      /\ waitersGone' = (IF waitersToUnblock # 0 THEN waitersGone ELSE waitersGone + 1)
  <2>1. process \in [Clients -> Record]
    BY DEF CondInv, CondTypeOK, Record
  <2> QED BY <1>0, <2>1 DEF Leave, At, Record
<1>2. x \in Record /\ x.at = (IF settles THEN "settle" ELSE "left") /\ x.left = waitersToUnblock
  <2>1. process[t] \in Record
    BY <1>0 DEF CondInv, CondTypeOK, Record
  <2> DEFINE place == IF settles THEN "settle" ELSE "left"
  <2>2. place \in TakerPlaces \cup GiverPlaces /\ waitersToUnblock \in Int
    BY <1>0 DEF TakerPlaces
  <2> HIDE DEF place
  <2>3. LET y == [process[t] EXCEPT !.left = waitersToUnblock, !.at = place]
        IN y \in Record /\ y.at = place /\ y.left = waitersToUnblock
    BY <2>1, <2>2 DEF Record
  <2> QED BY <2>3 DEF place
<1> HIDE DEF x
<1>3. /\ process' \in [Clients -> Record]
      /\ \A u \in Takers : process'[u].at \in TakerPlaces
      /\ \A g \in Givers : process'[g].at \in GiverPlaces
      /\ process'[t] = x /\ \A q \in Clients : q # t => process'[q] = process[q]
  BY <1>0, <1>1, <1>2, Others DEF CondInv, TakerPlaces
<1>4. waitersGone' \in Nat /\ waitersBlocked' \in Nat /\ waitersToUnblock' \in Nat
  BY <1>0, <1>1
<1>5. CondTypeOK'
  BY <1>3, <1>4 DEF CondTypeOK, Record
<1>6. \A q \in Clients : process[q].at \notin Inside
  BY <1>0, <1>1 DEF CondInv, HoldsLock
<1>7. HoldsLock'
  BY <1>1, <1>3, <1>6 DEF HoldsLock
<1>8. OneOpens'
  <2>1. ~Opens(process[t])
    BY <1>1 DEF Opens
  <2>2. \A u \in Takers : u # t => process'[u] = process[u]
    BY <1>3 DEF Clients
  <2>3. CASE waitersToUnblock > 0
    <3>1. \A u \in Takers : ~Opens(process[u])
      BY <2>3 DEF CondInv, OneOpens
    <3>2. Opens(x) <=> waitersToUnblock = 1
      BY <1>2, <2>3 DEF Opens
    <3>3. \A u \in Takers : Opens(process'[u]) <=> u = t /\ waitersToUnblock = 1
      BY <1>3, <2>2, <3>1, <3>2
    <3>4. blockLock = 0 /\ blockLock' = 0
      BY <1>1, <2>3 DEF CondInv, OneOpens
    <3>5. waitersToUnblock' > 0 <=> waitersToUnblock # 1
      BY <1>0, <1>1, <2>3
    <3> QED BY <3>3, <3>4, <3>5 DEF OneOpens
  <2>4. CASE waitersToUnblock = 0
    <3>1. ~Opens(x)
      BY <1>2, <2>4 DEF Opens
    <3>2. \A u \in Takers : Opens(process'[u]) <=> Opens(process[u])
      BY <1>3, <2>1, <2>2, <3>1
    <3>3. UNCHANGED <<blockLock, waitersToUnblock>>
      BY <1>1, <2>4
    <3> QED BY <3>2, <3>3 DEF CondInv, OneOpens
  <2> QED BY <1>0, <2>3, <2>4
<1>9. AllCounted' /\ waitersBlocked - waitersGone + waitersToUnblock > 0
  <2>1. Cardinality(Waiting') = Cardinality(Waiting) - 1 /\ Cardinality(Waiting) > 0
    BY <1>1, <1>2, <1>3, WaitingShrinks DEF Counted
  <2>2. Cardinality(Waiting) = waitersBlocked - waitersGone + waitersToUnblock
    BY DEF CondInv, AllCounted
  <2>3. Cardinality(Waiting') = waitersBlocked' - waitersGone' + waitersToUnblock'
    BY <1>0, <1>1, <2>1, <2>2
  <2> QED BY <2>1, <2>2, <2>3 DEF AllCounted
<1>10. ReadIsTrue'
  <2>1. \A u \in Takers : process'[u].at = "settle" => u = t /\ settles
    BY <1>2, <1>3, <1>6 DEF Clients, Inside
  <2>2. settles => waitersToUnblock' = 0 /\ x.left = 0
    BY <1>0, <1>1, <1>2
  <2>3. \A g \in Givers : process'[g].at \notin {"more", "closeGate"}
    BY <1>0, <1>3, <1>6 DEF Clients, Inside
  <2> QED BY <1>3, <2>1, <2>2, <2>3 DEF ReadIsTrue
<1>11. GoneIsSettled'
  <2>1. waitersGone < MaxGone
    BY <1>6 DEF CondInv, GoneIsSettled, Clients, Inside
  <2>2. settles => process'[t].at = "settle"
    BY <1>2, <1>3
  <2>3. ~settles => waitersGone' < MaxGone
    BY <1>0, <1>1, <2>1
  <2> QED BY <2>2, <2>3 DEF GoneIsSettled
<1> QED BY <1>5, <1>7, <1>8, <1>9, <1>10, <1>11 DEF CondInv

(* The lock on the counters is held: what else was in the way is out of it. *)
LEMMA HolderAlone ==
  ASSUME ClientsAreThreads, CondInv, NEW p \in Clients, process[p].at \in Inside
  PROVE  unblockLock = p /\ \A q \in Clients : q # p => process[q].at \notin Inside
BY DEF CondInv, HoldsLock

LEMMA StepSettle ==
  ASSUME ClientsAreThreads, CondInv, NEW t \in Takers, Settle(t)
  PROVE  CondInv'
<1>0. /\ t \in Clients /\ t \notin Givers /\ MaxGone \in Nat \ {0}
      /\ waitersGone \in Nat /\ waitersBlocked \in Nat /\ waitersToUnblock \in Nat
  BY DEF ClientsAreThreads, Clients, CondInv, CondTypeOK
<1>1. /\ process[t].at = "settle" /\ process' = [process EXCEPT ![t].at = "left"]
      /\ waitersBlocked' = waitersBlocked - waitersGone /\ waitersGone' = 0
      /\ UNCHANGED <<waitersToUnblock, blockLock, unblockLock>>
  BY DEF Settle, At, Go
<1> DEFINE x == [process[t] EXCEPT !.at = "left"]
<1>2. x \in Record /\ x.at = "left" /\ x.left = process[t].left /\ process' = [process EXCEPT ![t] = x]
  BY <1>0, <1>1, WentTo DEF CondInv, TakerPlaces
<1> HIDE DEF x
<1>3. /\ process' \in [Clients -> Record]
      /\ \A u \in Takers : process'[u].at \in TakerPlaces
      /\ \A g \in Givers : process'[g].at \in GiverPlaces
      /\ process'[t] = x /\ \A q \in Clients : q # t => process'[q] = process[q]
  BY <1>0, <1>2, Others DEF CondInv, TakerPlaces
<1>4. waitersToUnblock = 0 /\ process[t].left = 0
  BY <1>1 DEF CondInv, ReadIsTrue
<1>5. unblockLock = t /\ \A q \in Clients : q # t => process[q].at \notin Inside
  BY <1>0, <1>1, HolderAlone DEF Inside
<1>6. waitersBlocked - waitersGone >= 0
  <2>1. Cardinality(Waiting) \in Nat /\ Cardinality(Waiting) = waitersBlocked - waitersGone + waitersToUnblock
    BY WaitingFinite DEF CondInv, AllCounted
  <2> QED BY <1>0, <1>4, <2>1
<1>7. CondTypeOK'
  <2>1. waitersBlocked' \in Nat /\ waitersGone' \in Nat /\ waitersToUnblock' \in Nat
    BY <1>0, <1>1, <1>6
  <2> QED BY <1>3, <2>1 DEF CondTypeOK, Record
<1>8. HoldsLock'
  BY <1>1, <1>3, <1>5 DEF HoldsLock
<1>9. OneOpens'
  <2>1. ~Opens(process[t]) /\ ~Opens(x)
    BY <1>1, <1>2, <1>4 DEF Opens
  <2>2. \A u \in Takers : Opens(process'[u]) <=> Opens(process[u])
    BY <1>3, <2>1 DEF Clients
  <2> QED BY <1>1, <2>2 DEF CondInv, OneOpens
<1>10. AllCounted'
  <2>1. Waiting' = Waiting
    BY <1>0, <1>1, <1>2, <1>3, WaitingKept DEF Counted
  <2> QED BY <1>0, <1>1, <2>1 DEF CondInv, AllCounted
<1>11. ReadIsTrue'
  <2>1. \A u \in Takers : process'[u].at # "settle"
    BY <1>2, <1>3, <1>5 DEF Clients, Inside
  <2>2. \A g \in Givers : process'[g].at \notin {"more", "closeGate"}
    BY <1>0, <1>3, <1>5 DEF Clients, Inside
  <2> QED BY <2>1, <2>2 DEF ReadIsTrue
<1>12. GoneIsSettled'
  BY <1>0, <1>1 DEF GoneIsSettled
<1> QED BY <1>7, <1>8, <1>9, <1>10, <1>11, <1>12 DEF CondInv

LEMMA StepLeft ==
  ASSUME ClientsAreThreads, CondInv, NEW t \in Takers, Left(t)
  PROVE  CondInv'
<1> DEFINE place == IF process[t].left = 1 THEN "openGate" ELSE "lock"
<1>0. t \in Clients /\ t \notin Givers
  BY DEF ClientsAreThreads, Clients
<1>1. /\ process[t].at = "left" /\ process' = [process EXCEPT ![t].at = place]
      /\ UNCHANGED <<counters, blockLock>>
  BY DEF Left, At, Go
<1>2. place \in TakerPlaces /\ place \in {"openGate", "lock"} /\ (place = "openGate" <=> process[t].left = 1)
  BY DEF TakerPlaces
<1> HIDE DEF place
<1> DEFINE x == [process[t] EXCEPT !.at = place]
<1>3. x \in Record /\ x.at = place /\ process' = [process EXCEPT ![t] = x]
  BY <1>0, <1>1, <1>2, WentTo DEF CondInv
<1> HIDE DEF x
<1>4. /\ process' \in [Clients -> Record]
      /\ \A u \in Takers : process'[u].at \in TakerPlaces
      /\ \A g \in Givers : process'[g].at \in GiverPlaces
      /\ process'[t] = x /\ \A q \in Clients : q # t => process'[q] = process[q]
  BY <1>0, <1>2, <1>3, Others DEF CondInv
<1>5. \A q \in Clients : q # t => process[q].at \notin Inside
  BY <1>0, <1>1, HolderAlone DEF Inside
<1>6. CondTypeOK'
  BY <1>1, <1>4 DEF CondInv, CondTypeOK, Record, counters
<1>7. HoldsLock'
  BY <1>2, <1>3, <1>4, <1>5 DEF HoldsLock, Inside
<1>8. OneOpens'
  <2>1. Opens(process[t]) <=> Opens(x)
    BY <1>1, <1>2, <1>3 DEF Opens
  <2>2. \A u \in Takers : Opens(process'[u]) <=> Opens(process[u])
    BY <1>4, <2>1 DEF Clients
  <2> QED BY <1>1, <2>2 DEF CondInv, OneOpens, counters
<1>9. AllCounted'
  BY <1>0, <1>1, <1>2, <1>3, <1>4, WaitingKept DEF CondInv, AllCounted, counters, Counted
<1>10. ReadIsTrue' /\ GoneIsSettled'
  <2>1. /\ \A u \in Takers : process'[u].at = "settle" <=> process[u].at = "settle"
        /\ \A u \in Takers : process'[u].at = "settle" => process'[u] = process[u]
        /\ \A g \in Givers : process'[g] = process[g]
    BY <1>0, <1>1, <1>2, <1>3, <1>4 DEF Clients
  <2> QED BY <1>1, <2>1 DEF CondInv, ReadIsTrue, GoneIsSettled, counters
<1> QED BY <1>6, <1>7, <1>8, <1>9, <1>10 DEF CondInv

-----------------------------------------------------------------------------
(* The steps of a giver that holds the lock on the counters, or takes it. *)

(* A giver never opens the gate, nor is it counted: what a step of it has to show. *)
LEMMA GiverStepKeeps ==
  ASSUME ClientsAreThreads, CondInv, NEW g \in Givers, NEW x \in Record,
         process' = [process EXCEPT ![g] = x], x.at \in GiverPlaces
  PROVE  /\ process' \in [Clients -> Record]
         /\ \A u \in Takers : process'[u].at \in TakerPlaces
         /\ \A h \in Givers : process'[h].at \in GiverPlaces
         /\ process'[g] = x /\ \A q \in Clients : q # g => process'[q] = process[q]
         /\ \A u \in Takers : process'[u] = process[u]
         /\ Waiting' = Waiting
<1>1. g \in Clients /\ g \notin Takers
  BY DEF ClientsAreThreads, Clients
<1>2. /\ process' \in [Clients -> Record]
      /\ \A u \in Takers : process'[u].at \in TakerPlaces
      /\ \A h \in Givers : process'[h].at \in GiverPlaces
      /\ process'[g] = x /\ \A q \in Clients : q # g => process'[q] = process[q]
  BY <1>1, Others DEF CondInv
<1>3. Waiting' = Waiting
  BY <1>1, <1>2, WaitingKept
<1> QED BY <1>1, <1>2, <1>3 DEF Clients

LEMMA StepSignal ==
  ASSUME ClientsAreThreads, CondInv, NEW g \in Givers, Signal(g)
  PROVE  CondInv'
<1> DEFINE place == IF waitersToUnblock # 0 THEN (IF waitersBlocked = 0 THEN "nothing" ELSE "more")
                    ELSE IF waitersBlocked > waitersGone THEN "closeGate" ELSE "nothing"
           x == [process[g] EXCEPT !.at = place]
<1>0. /\ g \in Clients /\ g \notin Takers /\ NoOne \notin Clients
      /\ waitersGone \in Nat /\ waitersBlocked \in Nat /\ waitersToUnblock \in Nat
  BY DEF ClientsAreThreads, Clients, CondInv, CondTypeOK
<1>1. /\ unblockLock = NoOne /\ unblockLock' = g /\ UNCHANGED <<counters, blockLock>>
      /\ process' = [process EXCEPT ![g] = x]
  BY DEF Signal, Go
<1>2. /\ place \in {"nothing", "more", "closeGate"}
      /\ place = "more" => waitersToUnblock > 0 /\ waitersBlocked > 0
      /\ place = "closeGate" => waitersToUnblock = 0 /\ waitersBlocked > waitersGone
  BY <1>0
<1> HIDE DEF place
<1>3. x \in Record /\ x.at = place /\ x.at \in GiverPlaces
  BY <1>0, <1>2, WentTo DEF CondInv, GiverPlaces
<1> HIDE DEF x
<1>4. /\ process' \in [Clients -> Record]
      /\ \A u \in Takers : process'[u].at \in TakerPlaces
      /\ \A h \in Givers : process'[h].at \in GiverPlaces
      /\ process'[g] = x /\ \A q \in Clients : q # g => process'[q] = process[q]
      /\ \A u \in Takers : process'[u] = process[u]
      /\ Waiting' = Waiting
  BY <1>1, <1>3, GiverStepKeeps
<1>5. \A q \in Clients : process[q].at \notin Inside
  BY <1>0, <1>1 DEF CondInv, HoldsLock
<1>6. CondTypeOK'
  BY <1>1, <1>4 DEF CondInv, CondTypeOK, Record, counters
<1>7. HoldsLock'
  BY <1>1, <1>4, <1>5 DEF HoldsLock
<1>8. OneOpens' /\ AllCounted' /\ GoneIsSettled'
  BY <1>1, <1>4 DEF CondInv, OneOpens, AllCounted, GoneIsSettled, counters
<1>9. ReadIsTrue'
  <2>1. \A u \in Takers : process'[u].at # "settle"
    BY <1>4, <1>5 DEF Clients, Inside
  <2>2. \A h \in Givers : process'[h].at \in {"more", "closeGate"} => h = g
    BY <1>4, <1>5 DEF Clients, Inside
  <2> QED BY <1>1, <1>2, <1>3, <1>4, <2>1, <2>2 DEF ReadIsTrue, counters
<1> QED BY <1>6, <1>7, <1>8, <1>9 DEF CondInv

(* It gives the lock back. *)
LEMMA StepGivesLockBack ==
  ASSUME ClientsAreThreads, CondInv, NEW g \in Givers, Nothing(g) \/ Issue(g)
  PROVE  CondInv'
<1> DEFINE place == IF process[g].at = "nothing" THEN "unlock" ELSE "release"
           x == [process[g] EXCEPT !.at = place]
<1>0. g \in Clients /\ g \notin Takers
  BY DEF ClientsAreThreads, Clients
<1>1. /\ process[g].at \in {"nothing", "issue"} /\ UNCHANGED <<counters, blockLock>>
      /\ process' = [process EXCEPT ![g] = x]
  BY DEF Nothing, Issue, At, Go
<1>2. place \in {"unlock", "release"}
  OBVIOUS
<1> HIDE DEF place
<1>3. x \in Record /\ x.at = place /\ x.at \in GiverPlaces
  BY <1>0, <1>2, WentTo DEF CondInv, GiverPlaces
<1> HIDE DEF x
<1>4. /\ process' \in [Clients -> Record]
      /\ \A u \in Takers : process'[u].at \in TakerPlaces
      /\ \A h \in Givers : process'[h].at \in GiverPlaces
      /\ process'[g] = x /\ \A q \in Clients : q # g => process'[q] = process[q]
      /\ \A u \in Takers : process'[u] = process[u]
      /\ Waiting' = Waiting
  BY <1>1, <1>3, GiverStepKeeps
<1>5. \A q \in Clients : q # g => process[q].at \notin Inside
  BY <1>0, <1>1, HolderAlone DEF Inside
<1>6. CondTypeOK'
  BY <1>1, <1>4 DEF CondInv, CondTypeOK, Record, counters
<1>7. HoldsLock'
  BY <1>2, <1>3, <1>4, <1>5 DEF HoldsLock, Inside
<1>8. OneOpens' /\ AllCounted' /\ GoneIsSettled'
  BY <1>1, <1>4 DEF CondInv, OneOpens, AllCounted, GoneIsSettled, counters
<1>9. ReadIsTrue'
  <2>1. \A h \in Givers : process'[h].at \notin {"more", "closeGate"}
    BY <1>2, <1>3, <1>4, <1>5 DEF Clients, Inside
  <2> QED BY <1>1, <1>4, <2>1 DEF CondInv, ReadIsTrue, counters
<1> QED BY <1>6, <1>7, <1>8, <1>9 DEF CondInv

(* It counts takers among the ones to unblock, and closes the gate for it.     *)
LEMMA StepCounts ==
  ASSUME ClientsAreThreads, CondInv, NEW g \in Givers, More(g) \/ CloseGate(g)
  PROVE  CondInv'
<1> DEFINE closes == process[g].at = "closeGate"
           blocked == IF closes THEN waitersBlocked - waitersGone ELSE waitersBlocked
           issued == IF process[g].all THEN blocked ELSE 1
           x == [process[g] EXCEPT !.at = "issue", !.left = issued]
<1>0. /\ g \in Clients /\ g \notin Takers /\ MaxGone \in Nat \ {0}
      /\ waitersGone \in Nat /\ waitersBlocked \in Nat /\ waitersToUnblock \in Nat
  BY DEF ClientsAreThreads, Clients, CondInv, CondTypeOK
<1>1. process[g].at \in {"more", "closeGate"} /\ process' = [process EXCEPT ![g] = x] /\ UNCHANGED unblockLock
  BY DEF More, CloseGate, At, Issued
<1>2. /\ closes => blockLock > 0 /\ blockLock' = blockLock - 1 /\ waitersGone' = 0 /\ waitersToUnblock' = issued
      /\ ~closes => UNCHANGED <<blockLock, waitersGone>> /\ waitersToUnblock' = waitersToUnblock + issued
      /\ waitersBlocked' = blocked - issued
  BY DEF More, CloseGate, At, Issued
<1>3. /\ closes => waitersToUnblock = 0 /\ waitersBlocked > waitersGone
      /\ ~closes => waitersToUnblock > 0 /\ waitersBlocked > 0
  BY <1>1 DEF CondInv, ReadIsTrue
<1>4. blocked \in Nat \ {0} /\ issued \in Nat \ {0} /\ issued <= blocked
  BY <1>0, <1>3
<1>5. x \in Record /\ x.at = "issue" /\ x.at \in GiverPlaces
  <2>1. process[g] \in Record
    BY <1>0 DEF CondInv, CondTypeOK, Record
  <2>2. issued \in Int
    BY <1>4
  <2> HIDE DEF issued
  <2>3. \A r \in Record, n \in Int : [r EXCEPT !.left = n] \in Record
    BY DEF Record
  <2>4. [process[g] EXCEPT !.left = issued] \in Record
    BY <2>1, <2>2, <2>3
  <2> DEFINE y == [process[g] EXCEPT !.left = issued]
  <2>5. x = [y EXCEPT !.at = "issue"]
    BY <2>1 DEF Record
  <2>6. "issue" \in TakerPlaces \cup GiverPlaces /\ "issue" \in GiverPlaces
    BY DEF GiverPlaces
  <2>7. \A r \in Record, place \in TakerPlaces \cup GiverPlaces :
           LET moved == [r EXCEPT !.at = place] IN moved \in Record /\ moved.at = place
    BY DEF Record
  <2> HIDE DEF x
  <2>8. y \in Record
    BY <2>4
  <2> HIDE DEF y
  <2> QED BY <2>5, <2>6, <2>7, <2>8
<1> HIDE DEF x, issued, blocked
<1>6. /\ process' \in [Clients -> Record]
      /\ \A u \in Takers : process'[u].at \in TakerPlaces
      /\ \A h \in Givers : process'[h].at \in GiverPlaces
      /\ process'[g] = x /\ \A q \in Clients : q # g => process'[q] = process[q]
      /\ \A u \in Takers : process'[u] = process[u]
      /\ Waiting' = Waiting
  BY <1>1, <1>5, GiverStepKeeps
<1>7. unblockLock = g /\ \A q \in Clients : q # g => process[q].at \notin Inside
  BY <1>0, <1>1, HolderAlone DEF Inside
<1>8. CondTypeOK'
  <2>1. waitersGone' \in Nat /\ waitersBlocked' \in Nat /\ waitersToUnblock' \in Nat
    BY <1>0, <1>2, <1>4
  <2> QED BY <1>6, <2>1 DEF CondTypeOK, Record
<1>9. HoldsLock'
  BY <1>1, <1>6, <1>7 DEF HoldsLock
<1>10. OneOpens'
  <2>1. waitersToUnblock' > 0
    BY <1>0, <1>2, <1>4
  <2>2. blockLock' = 0 /\ \A u \in Takers : ~Opens(process[u])
    BY <1>2, <1>3 DEF CondInv, OneOpens
  <2> QED BY <1>6, <2>1, <2>2 DEF OneOpens
<1>11. AllCounted'
  <2>1. waitersBlocked' - waitersGone' + waitersToUnblock' = waitersBlocked - waitersGone + waitersToUnblock
    BY <1>0, <1>2, <1>3, <1>4 DEF blocked
  <2> QED BY <1>6, <2>1 DEF CondInv, AllCounted
<1>12. ReadIsTrue'
  <2>1. \A u \in Takers : process'[u].at # "settle"
    BY <1>0, <1>6, <1>7 DEF Clients, Inside
  <2>2. \A h \in Givers : process'[h].at \notin {"more", "closeGate"}
    BY <1>5, <1>6, <1>7 DEF Clients, Inside
  <2> QED BY <2>1, <2>2 DEF ReadIsTrue
<1>13. GoneIsSettled'
  BY <1>0, <1>2, <1>6 DEF CondInv, GoneIsSettled
<1> QED BY <1>8, <1>9, <1>10, <1>11, <1>12, <1>13 DEF CondInv

-----------------------------------------------------------------------------
(* Nobody waits at first. *)
LEMMA CondStarts ==
  ASSUME ClientsAreThreads, CondInit
  PROVE  CondInv
<1>1. \A p \in Clients : process[p] = [at |-> "lock", left |-> 0, all |-> FALSE, late |-> FALSE]
  BY DEF CondInit, Clients
<1>2. CondTypeOK
  BY DEF CondInit, CondTypeOK, Clients, TakerPlaces, GiverPlaces
<1>3. HoldsLock /\ OneOpens /\ ReadIsTrue /\ GoneIsSettled
  BY <1>1 DEF CondInit, HoldsLock, OneOpens, Opens, ReadIsTrue, GoneIsSettled, ClientsAreThreads,
     Clients, Inside
<1>4. Waiting = {}
  BY <1>1 DEF Waiting, Counted, Clients
<1>5. AllCounted
  BY <1>4, FS_EmptySet DEF CondInit, AllCounted
<1> QED BY <1>2, <1>3, <1>5 DEF CondInv

(* Every step keeps the invariant. *)
LEMMA CondSteps ==
  ASSUME ClientsAreThreads, CondInv, [CondNext]_condVars
  PROVE  CondInv'
<1>1. CASE UNCHANGED condVars
  BY <1>1 DEF condVars, CondInv, CondTypeOK, HoldsLock, OneOpens, AllCounted, Waiting, ReadIsTrue,
     GoneIsSettled
<1>2. ASSUME NEW t \in Takers, TakerStep(t) \/ TimesOut(t) PROVE CondInv'
  <2>1. t \in Clients
    BY DEF Clients
  <2> QED BY <1>2, <2>1, QuietSteps, StepEnterGate, StepOpens, StepLeave, StepSettle, StepLeft DEF TakerStep
<1>3. ASSUME NEW g \in Givers, GiverStep(g) PROVE CondInv'
  <2>1. g \in Clients
    BY DEF Clients
  <2> QED BY <1>3, <2>1, QuietSteps, StepSignal, StepGivesLockBack, StepCounts DEF GiverStep, GiverGoesOn
<1> QED BY <1>1, <1>2, <1>3 DEF CondNext

(* What the invariant says of the gate. *)
LEMMA InvOpensGate ==
  ASSUME ClientsAreThreads, CondInv
  PROVE  GateIsSound
<1>1. unblockLock = NoOne => waitersGone < MaxGone
  BY DEF CondInv, HoldsLock, GoneIsSettled, Inside, Clients, ClientsAreThreads
<1>2. waitersBlocked >= 0
  BY DEF CondInv, CondTypeOK
<1>3. blockLock = 0 => \/ waitersToUnblock > 0
                       \/ \E t \in Takers : At(t, "leaveGate") \/ At(t, "openGate") \/ (At(t, "left") /\ process[t].left = 1)
  BY DEF CondInv, OneOpens, Opens, At
<1> QED BY <1>1, <1>2, <1>3 DEF CondInv, OneOpens, GateIsSound

(* The gate opens as often as it closes, the counts of who waits are never     *)
(* below zero, and a gate left closed has somebody to open it, for any number  *)
(* of takers and givers, timeouts and broadcasts: sync/win32/Cond.c.           *)
THEOREM GateOpensOnce ==
  ASSUME ClientsAreThreads
  PROVE  CondSpec => []GateIsSound
<1>1. CondInit => CondInv
  BY CondStarts
<1>2. CondInv /\ [CondNext]_condVars => CondInv'
  BY CondSteps
<1>3. CondInv => GateIsSound
  BY InvOpensGate
<1> QED BY <1>1, <1>2, <1>3, PTL DEF CondSpec

-----------------------------------------------------------------------------
(* The object a thread and its owner share, of ThreadLife. What each of the    *)
(* two may rely on: an owner that may still call holds an object that nobody   *)
(* destroyed, a thread that has not exited holds one, too, and only the later  *)
(* of the two sees both DESTROY and EXITED.                                    *)
Flags == {"DESTROY", "EXITED", "JOINED", "DETACHED"}

ThreadTypeOK ==
  /\ flags \subseteq Flags
  /\ memory \in {"none", "allocated", "freed"}
  /\ owner \in {"idle", "owns", "left", "detached", "joining", "joined", "freeing", "done"}
  /\ thread \in {"none", "started", "running", "destroying", "freeing", "over"}

FreesCounted == frees = IF memory = "freed" THEN 1 ELSE 0

OwnerMayUse ==
  /\ owner = "idle" => memory = "none" /\ thread = "none" /\ flags = {}
  /\ owner \in {"owns", "detached", "joining", "joined"} =>
       memory = "allocated" /\ thread # "none" /\ "DESTROY" \notin flags
  /\ owner = "freeing" => memory = "allocated" /\ thread \in {"none", "over"}

ThreadMayUse ==
  /\ thread \in {"started", "running"} => memory = "allocated" /\ "EXITED" \notin flags
  /\ thread \in {"destroying", "freeing"} =>
       memory = "allocated" /\ {"EXITED", "DESTROY"} \subseteq flags /\ owner \in {"done", "left"}
  /\ thread = "over" => "EXITED" \in flags

Joinable == owner \in {"owns", "joining"} => State(flags) = {}

ThreadInv ==
  /\ ThreadTypeOK /\ FreesCounted /\ OwnerMayUse /\ ThreadMayUse /\ Joinable
  /\ stray = FALSE

(* What is left to do is left to the one who comes last.                       *)
LEMMA OwnerKeepsThreadInv ==
  ASSUME ThreadInv, LetGo \/ Detach \/ Join \/ Joined \/ Destroy \/ OwnerFrees
  PROVE  ThreadInv'
<1> USE DEF ThreadInv, ThreadTypeOK, Flags, FreesCounted, OwnerMayUse, ThreadMayUse, Joinable
<1>1. CASE LetGo
  BY <1>1 DEF LetGo
<1>2. CASE Detach
  BY <1>2 DEF Detach, Uses, UnlessExited, SetState, State
<1>3. CASE Join
  BY <1>3 DEF Join, Uses
<1>4. CASE Joined
  BY <1>4 DEF Joined, Uses, UnlessExited, SetState, State
<1>5. CASE Destroy
  BY <1>5 DEF Destroy, Uses, Destroyed
<1>6. CASE OwnerFrees
  <2>1. stray' = FALSE
    BY <1>6, Zenon DEF OwnerFrees, Frees
  <2>2. frees' = 1 /\ memory' = "freed"
    BY <1>6 DEF OwnerFrees, Frees
  <2>3. Joinable'
    BY <1>6 DEF OwnerFrees
  <2> QED BY <1>6, <2>1, <2>2, <2>3 DEF OwnerFrees
<1> QED BY <1>1, <1>2, <1>3, <1>4, <1>5, <1>6

LEMMA ThreadKeepsThreadInv ==
  ASSUME ThreadInv, DestroySelf \/ EntryStep
  PROVE  ThreadInv'
<1> USE DEF ThreadInv, ThreadTypeOK, Flags, FreesCounted, OwnerMayUse, ThreadMayUse, Joinable
<1>1. CASE DestroySelf
  BY <1>1 DEF DestroySelf, Uses, Destroyed
<1>2. CASE Start
  BY <1>2 DEF Start, Uses
<1>3. CASE Exit
  BY <1>3 DEF Exit, Uses, Exited, State
<1>4. CASE DestroyAtExit
  BY <1>4 DEF DestroyAtExit, Uses, Destroyed
<1>5. CASE ThreadFrees
  <2>1. stray' = FALSE
    BY <1>5, Zenon DEF ThreadFrees, Frees
  <2>2. frees' = 1 /\ memory' = "freed"
    BY <1>5 DEF ThreadFrees, Frees
  <2>3. Joinable'
    BY <1>5 DEF ThreadFrees
  <2> QED BY <1>5, <2>1, <2>2, <2>3 DEF ThreadFrees
<1> QED BY <1>1, <1>2, <1>3, <1>4, <1>5 DEF EntryStep

(* A thread is made, or not, and every step keeps the invariant. *)
LEMMA ThreadStarts == ASSUME ThreadInit PROVE ThreadInv
  BY DEF ThreadInit, ThreadInv, ThreadTypeOK, Flags, FreesCounted, OwnerMayUse, ThreadMayUse, Joinable

LEMMA ThreadSteps == ASSUME ThreadInv, [ThreadNext]_threadVars PROVE ThreadInv'
<1> USE DEF ThreadTypeOK, Flags, FreesCounted, OwnerMayUse, ThreadMayUse, Joinable
<1>1. CASE UNCHANGED threadVars
  BY <1>1 DEF threadVars, ThreadInv, State
<1>2. ASSUME NEW starts \in BOOLEAN, Create(starts) PROVE ThreadInv'
  BY <1>2 DEF Create, State, ThreadInv
<1> QED BY <1>1, <1>2, OwnerKeepsThreadInv, ThreadKeepsThreadInv DEF ThreadNext

(* What the invariant says of the object. *)
LEMMA InvFreesOnce == ASSUME ThreadInv PROVE ThreadFreedOnce
  BY DEF ThreadInv, FreesCounted, Joinable, ThreadFreedOnce

(* An NQThread is freed at most once and never used after that, however its    *)
(* owner and its callback detach, join, destroy and exit, and NQThread_join    *)
(* finds it neither joined nor detached: ThreadPosix.c.                        *)
THEOREM ThreadIsFreedOnce == ThreadSpec => []ThreadFreedOnce
<1>1. ThreadInit => ThreadInv
  BY ThreadStarts
<1>2. ThreadInv /\ [ThreadNext]_threadVars => ThreadInv'
  BY ThreadSteps
<1>3. ThreadInv => ThreadFreedOnce
  BY InvFreesOnce
<1> QED BY <1>1, <1>2, <1>3, PTL DEF ThreadSpec

-----------------------------------------------------------------------------
(* A web socket, of WebSocketSession: from here on the variables are those of  *)
(* a session.                                                                  *)
Frame == [id : Nat, close : BOOLEAN]

SessionTypeOK ==
  /\ session \in {"request", "opened", "added", "over"}
  /\ outputList \in Seq(Frame) /\ frames \in Nat
  /\ sending \subseteq Threads /\ wakeup \in BOOLEAN
  /\ events \subseteq {"in", "out"}
  /\ action \in [at : {"polling", "checking", "writing"}, entry : Frame, more : BOOLEAN]
  /\ handle \in {"open", "closed", "hungUp"}
  /\ sent \in Seq(Nat)
  /\ calls \in [open : Nat, receive : Nat, release : Nat]

(* The frame that is being written counts as neither sent nor queued. *)
Writing == action.at = "writing"
Pending == IF Writing THEN 1 ELSE 0

(* Frames are numbered through: those sent, the one that is written, the queue. *)
FramesInOrder ==
  /\ \A i \in 1 .. Len(sent) : sent[i] = i
  /\ session # "over" =>
       /\ Len(sent) + Pending + Len(outputList) = frames
       /\ Writing => action.entry.id = Len(sent) + 1
       /\ \A i \in 1 .. Len(outputList) : outputList[i].id = Len(sent) + Pending + i

(* Output is asked for when there is some, and more is said of a frame that has a
   successor in the queue. *)
AskedFor ==
  /\ "out" \in events /\ ~Writing => outputList # << >>
  /\ action.more => Writing /\ outputList # << >>

(* What came into the queue while the last frame was written is announced; that
   output is asked for does not count then, for it will not be any more. *)
Announced ==
  session = "added" /\ outputList # << >> =>
    \/ wakeup \/ sending # {} \/ action.at = "checking" \/ action.more
    \/ "out" \in events /\ ~Writing

(* Where the session is, and what was called. *)
CallsMade ==
  /\ session # "added" => action = Polling /\ events = {}
  /\ session = "request" => calls.open = 0 /\ calls.receive = 0 /\ calls.release = 0 /\ handle = "open"
  /\ session \in {"opened", "added"} => calls.open = 1 /\ calls.release = 0
  /\ session = "over" => calls.open = 1 /\ calls.release <= 1 /\ (handle # "hungUp" => calls.release = 1)

SessionInv == SessionTypeOK /\ FramesInOrder /\ AskedFor /\ Announced /\ CallsMade

(* The application and the peer, before the looper has the session and beside it. *)
LEMMA Begins ==
  ASSUME SessionInv, Open \/ AddSocket \/ AddSocketFails \/ HangUp
  PROVE  SessionInv'
<1> USE DEF SessionInv
<1>1. CASE Open
  <2>1. SessionTypeOK' /\ CallsMade'
    BY <1>1 DEF SessionTypeOK, CallsMade, Open
  <2> QED BY <1>1, <2>1 DEF FramesInOrder, AskedFor, Announced, Open, Pending, Writing
<1>2. CASE AddSocket
  <2>1. SessionTypeOK' /\ CallsMade'
    BY <1>2 DEF SessionTypeOK, CallsMade, AddSocket
  <2> QED BY <1>2, <2>1 DEF FramesInOrder, AskedFor, Announced, AddSocket, Pending, Writing
<1>3. CASE AddSocketFails
  <2>1. SessionTypeOK' /\ CallsMade'
    BY <1>3 DEF SessionTypeOK, CallsMade, AddSocketFails
  <2>2. AskedFor'
    BY <1>3 DEF AskedFor, CallsMade, AddSocketFails, Polling, Writing
  <2> QED BY <1>3, <2>1, <2>2 DEF FramesInOrder, Announced, AddSocketFails
<1>4. CASE HangUp
  BY <1>4 DEF SessionTypeOK, CallsMade, FramesInOrder, AskedFor, Announced, HangUp, Pending, Writing
<1> QED BY <1>1, <1>2, <1>3, <1>4

(* A frame joins the queue; who queued it has to wake the looper, or is the looper. *)
LEMMA Queues ==
  ASSUME SessionInv, NEW close \in BOOLEAN, Queued(close),
         session \in {"opened", "added"},
         UNCHANGED <<session, events, action, handle, sent, calls>>,
         sending' \subseteq Threads, wakeup' \in BOOLEAN,
         wakeup' \/ sending' # {}
  PROVE  SessionInv'
<1> USE DEF SessionInv, Pending, Writing
<1>1. SessionTypeOK'
  BY DEF SessionTypeOK, Queued, Frame
<1>2. FramesInOrder'
  <2> DEFINE e == [id |-> frames + 1, close |-> close]
             n == Len(outputList)
  <2>1. outputList \in Seq(Frame) /\ n \in Nat /\ e \in Frame /\ Len(sent) \in Nat /\ frames \in Nat
    BY DEF SessionTypeOK, Frame
  <2>2. outputList' = Append(outputList, e) /\ frames' = frames + 1 /\ e.id = frames + 1
    BY DEF Queued
  <2> HIDE DEF e
  <2>3. /\ Len(outputList') = n + 1 /\ outputList'[n + 1] = e
        /\ \A i \in 1 .. n : outputList'[i] = outputList[i]
    BY <2>1, <2>2
  <2>4. Pending' = Pending /\ Pending \in {0, 1} /\ Writing' = Writing
    OBVIOUS
  <2> HIDE DEF n, Pending, Writing
  <2>5. Len(sent) + Pending + n = frames
    BY DEF FramesInOrder, n
  <2>6. \A i \in 1 .. n + 1 : outputList'[i].id = Len(sent) + Pending + i
    <3> TAKE i \in 1 .. n + 1
    <3>1. CASE i = n + 1
      BY <2>1, <2>2, <2>3, <2>4, <2>5, <3>1
    <3>2. CASE i \in 1 .. n
      BY <2>3, <3>2 DEF FramesInOrder, n
    <3> QED BY <2>1, <3>1, <3>2
  <2> QED BY <2>1, <2>2, <2>3, <2>4, <2>5, <2>6 DEF FramesInOrder
<1>3. outputList' # << >>
  BY DEF SessionTypeOK, Queued
<1>4. AskedFor' /\ Announced' /\ CallsMade'
  BY <1>3 DEF AskedFor, Announced, CallsMade
<1> QED BY <1>1, <1>2, <1>4

LEMMA Sends ==
  ASSUME SessionInv, NEW t \in Threads, NEW close \in BOOLEAN, Send(t, close)
  PROVE  SessionInv'
  BY Queues DEF Send, SessionInv, SessionTypeOK

LEMMA Answers ==
  ASSUME SessionInv, Answer
  PROVE  SessionInv'
<1>1. session = "added"
  BY DEF Answer, SessionInv, SessionTypeOK, CallsMade, Polling
<1>2. Queued(FALSE) /\ wakeup' = TRUE /\ UNCHANGED <<session, sending, events, action, handle, sent, calls>>
  BY DEF Answer
<1> QED BY <1>1, <1>2, Queues DEF SessionInv, SessionTypeOK

LEMMA Wakes ==
  ASSUME SessionInv, NEW t \in Threads, Wake(t)
  PROVE  SessionInv'
  BY DEF Wake, SessionInv, SessionTypeOK, FramesInOrder, AskedFor, Announced, CallsMade, Pending, Writing

-----------------------------------------------------------------------------
(* The looper's rounds. One that ends the session, one that goes on to look.   *)
LEMMA Ends ==
  ASSUME SessionInv, Failed \/ ReceiveFails \/ WriteFails
  PROVE  SessionInv'
<1> USE DEF SessionInv
<1>0. session = "added"
  BY DEF Failed, ReceiveFails, WriteFails, Round, SessionTypeOK, CallsMade, Polling
<1>1. /\ session' = "over" /\ events' = {} /\ action' = Polling
      /\ wakeup' \in BOOLEAN
      /\ UNCHANGED <<outputList, frames, sending, handle, sent>>
  BY DEF Failed, ReceiveFails, WriteFails, Round, EndSession, SessionTypeOK
<1>2. \/ calls' = [calls EXCEPT !.release = @ + 1]
      \/ calls' = calls /\ handle = "hungUp"
  BY DEF Failed, ReceiveFails, WriteFails, EndSession
<1>3. SessionTypeOK'
  <2>1. calls' \in [open : Nat, receive : Nat, release : Nat]
    BY <1>2 DEF SessionTypeOK
  <2>2. Polling \in [at : {"polling", "checking", "writing"}, entry : Frame, more : BOOLEAN]
    BY DEF Polling, NoEntry, Frame
  <2> QED BY <1>1, <2>1, <2>2 DEF SessionTypeOK
<1>4. CallsMade'
  BY <1>0, <1>1, <1>2 DEF CallsMade, SessionTypeOK
<1>5. AskedFor'
  BY <1>1 DEF AskedFor, Polling
<1> QED BY <1>1, <1>3, <1>4, <1>5 DEF FramesInOrder, Announced

LEMMA Rounds ==
  ASSUME SessionInv, NothingCame \/ Receive
  PROVE  SessionInv'
<1> USE DEF SessionInv
<1>1. /\ session = "added" /\ action = Polling /\ action' = [Polling EXCEPT !.at = "checking"]
      /\ wakeup' = FALSE
      /\ UNCHANGED <<session, outputList, frames, sending, events, handle, sent>>
  BY DEF NothingCame, Receive, Round
<1>2. /\ calls' \in [open : Nat, receive : Nat, release : Nat]
      /\ calls'.open = calls.open /\ calls'.release = calls.release
  BY DEF NothingCame, Receive, SessionTypeOK
<1>3. SessionTypeOK'
  BY <1>1, <1>2 DEF SessionTypeOK, Polling
<1>4. CallsMade'
  BY <1>1, <1>2 DEF CallsMade
<1>5. ~Writing /\ ~Writing' /\ ~action.more /\ ~action'.more /\ action'.at = "checking"
  BY <1>1 DEF Polling, Writing
<1> QED BY <1>1, <1>3, <1>4, <1>5 DEF FramesInOrder, AskedFor, Announced, Pending

(* After websocketAction looked, output is asked for if there was some. *)
LEMMA Checks ==
  ASSUME SessionInv, Check
  PROVE  SessionInv'
<1> USE DEF SessionInv
<1>1. /\ session = "added" /\ action.at = "checking" /\ action' = Polling
      /\ events' = (IF outputList = << >> THEN {"in"} ELSE {"in", "out"})
      /\ UNCHANGED <<session, outputList, frames, sending, wakeup, handle, sent, calls>>
  BY DEF Check, Requested, CallsMade, SessionTypeOK, Polling
<1>2. SessionTypeOK' /\ CallsMade'
  BY <1>1 DEF SessionTypeOK, CallsMade, Polling, NoEntry, Frame
<1>3. ~Writing /\ ~Writing' /\ ~action.more /\ ~action'.more
  BY <1>1 DEF Polling, Writing, AskedFor
<1> QED BY <1>1, <1>2, <1>3 DEF FramesInOrder, AskedFor, Announced, Pending

(* The first of the queue is what is written next, and there is one. *)
LEMMA TakesOutput ==
  ASSUME SessionInv, TakeOutput
  PROVE  SessionInv'
<1> USE DEF SessionInv
<1>1. /\ session = "added" /\ action = Polling /\ "out" \in events
      /\ wakeup' = FALSE
      /\ UNCHANGED <<session, frames, sending, events, handle, sent, calls>>
  BY DEF TakeOutput, Round
<1>2. ~Writing /\ outputList # << >>
  BY <1>1 DEF Polling, Writing, AskedFor
<1>3. /\ action' = [at |-> "writing", entry |-> Head(outputList), more |-> Len(outputList) > 1]
      /\ outputList' = Tail(outputList)
  BY <1>2 DEF TakeOutput
<1> DEFINE n == Len(outputList)
<1>4. /\ n \in Nat \ {0} /\ Head(outputList) = outputList[1] /\ outputList[1] \in Frame
      /\ outputList' \in Seq(Frame) /\ Len(outputList') = n - 1
      /\ \A i \in 1 .. n - 1 : outputList'[i] = outputList[i + 1]
      /\ outputList' # << >> <=> n > 1
  <2>1. \A q \in Seq(Frame) : q # << >> =>
           /\ Len(q) \in Nat \ {0} /\ Head(q) = q[1] /\ q[1] \in Frame
           /\ Tail(q) \in Seq(Frame) /\ Len(Tail(q)) = Len(q) - 1
           /\ \A i \in 1 .. Len(q) - 1 : Tail(q)[i] = q[i + 1]
    OBVIOUS
  <2>2. \A q \in Seq(Frame) : q # << >> <=> Len(q) > 0
    OBVIOUS
  <2>3. outputList \in Seq(Frame)
    BY DEF SessionTypeOK
  <2>4. /\ n \in Nat \ {0} /\ Head(outputList) = outputList[1] /\ outputList[1] \in Frame
        /\ outputList' \in Seq(Frame) /\ Len(outputList') = n - 1
        /\ \A i \in 1 .. n - 1 : outputList'[i] = outputList[i + 1]
    BY <1>2, <1>3, <2>1, <2>3
  <2>5. outputList' # << >> <=> n > 1
    BY <2>2, <2>4
  <2> QED BY <2>4, <2>5
<1>5. Writing' /\ action'.entry = outputList[1] /\ action'.more = (n > 1)
  BY <1>3, <1>4 DEF Writing
<1>6. SessionTypeOK'
  <2>1. action' \in [at : {"polling", "checking", "writing"}, entry : Frame, more : BOOLEAN]
    BY <1>3, <1>4
  <2> QED BY <1>1, <1>4, <2>1 DEF SessionTypeOK
<1>7. CallsMade'
  BY <1>1 DEF CallsMade
<1>8. AskedFor' /\ Announced'
  BY <1>4, <1>5 DEF AskedFor, Announced
<1>9. FramesInOrder'
  <2> DEFINE m == Len(sent)
  <2>1. m \in Nat /\ frames \in Nat
    BY DEF SessionTypeOK
  <2>2. /\ m + n = frames
        /\ \A i \in 1 .. n : outputList[i].id = m + i
    BY <1>1, <1>2, <1>4, <2>1 DEF FramesInOrder, Pending
  <2> HIDE DEF m, n
  <2>3. \A i \in 1 .. n - 1 : outputList'[i].id = m + 1 + i
    <3> TAKE i \in 1 .. n - 1
    <3>1. i + 1 \in 1 .. n
      BY <1>4
    <3>2. outputList[i + 1].id = m + (i + 1)
      BY <2>2, <3>1
    <3>3. outputList'[i] = outputList[i + 1]
      BY <1>4
    <3> QED BY <2>1, <3>1, <3>2, <3>3
  <2>4. outputList[1].id = m + 1
    BY <1>4, <2>2
  <2>5. Len(sent') = m /\ Len(outputList') = n - 1 /\ Pending' = 1
    BY <1>1, <1>4, <1>5 DEF Pending, m
  <2>6. m + 1 + (n - 1) = frames'
    BY <1>1, <1>4, <2>1, <2>2
  <2>7. \A i \in 1 .. m : sent'[i] = i
    BY <1>1 DEF FramesInOrder, m
  <2> QED BY <1>5, <2>3, <2>4, <2>5, <2>6, <2>7 DEF FramesInOrder
<1> QED BY <1>6, <1>7, <1>8, <1>9

(* Once it is written the next is asked for, if there was one when this was taken. *)
LEMMA Writes ==
  ASSUME SessionInv, NEW closes \in BOOLEAN, Write(closes)
  PROVE  SessionInv'
<1> USE DEF SessionInv
<1>1. /\ session = "added" /\ Writing /\ action' = Polling
      /\ events' = (IF action.more THEN {"in", "out"} ELSE {"in"})
      /\ sent' = Append(sent, action.entry.id)
      /\ handle' \in {"open", "closed", "hungUp"}
      /\ UNCHANGED <<session, outputList, frames, sending, wakeup, calls>>
  BY DEF Write, Requested, CallsMade, SessionTypeOK, Polling, Writing
<1>2. /\ sent' \in Seq(Nat) /\ Len(sent) \in Nat /\ Len(sent') = Len(sent) + 1
      /\ sent'[Len(sent) + 1] = action.entry.id
      /\ \A i \in 1 .. Len(sent) : sent'[i] = sent[i]
  BY <1>1 DEF SessionTypeOK, Frame
<1>3. ~Writing' /\ ~action'.more
  BY <1>1 DEF Polling, Writing
<1>4. SessionTypeOK'
  BY <1>1, <1>2 DEF SessionTypeOK, Polling, NoEntry, Frame
<1>5. CallsMade'
  BY <1>1 DEF CallsMade
<1>6. AskedFor' /\ Announced'
  BY <1>1, <1>3 DEF AskedFor, Announced, Writing
<1>7. FramesInOrder'
  <2>1. action.entry.id = Len(sent) + 1
    BY <1>1 DEF FramesInOrder
  <2>2. \A i \in 1 .. Len(sent') : sent'[i] = i
    BY <1>2, <2>1 DEF FramesInOrder
  <2> QED BY <1>1, <1>2, <1>3, <2>2 DEF FramesInOrder, Pending
<1> QED BY <1>4, <1>5, <1>6, <1>7

-----------------------------------------------------------------------------
(* The queue behind the frame that is written: what OutputInOrder speaks of.   *)
LEMMA InvIsSound == ASSUME SessionInv PROVE OutputInOrder /\ OutputIsSeen /\ CallbackOrder
<1> USE DEF SessionInv
<1> DEFINE head == IF Writing THEN <<action.entry>> ELSE << >>
           waiting == head \o outputList
<1>1. /\ outputList \in Seq(Frame) /\ Len(outputList) \in Nat /\ action.entry \in Frame
      /\ sent \in Seq(Nat) /\ Len(sent) \in Nat
  BY DEF SessionTypeOK
<1>2. head \in Seq(Frame) /\ Len(head) = Pending /\ Pending \in {0, 1} /\ (Pending = 1 => head[1] = action.entry)
  BY <1>1 DEF Pending
<1> HIDE DEF head
<1>3. /\ Len(waiting) = Pending + Len(outputList)
      /\ \A i \in 1 .. Len(waiting) : waiting[i] = IF i <= Pending THEN head[i] ELSE outputList[i - Pending]
      /\ DOMAIN waiting = 1 .. Len(waiting)
  BY <1>1, <1>2
<1> HIDE DEF waiting
<1>4. ASSUME session # "over"
      PROVE  /\ Len(sent) + Len(waiting) = frames
             /\ \A i \in DOMAIN waiting : waiting[i].id = Len(sent) + i
  <2>1. Len(sent) + Pending + Len(outputList) = frames
    BY <1>4 DEF FramesInOrder
  <2>2. ASSUME NEW i \in 1 .. Len(waiting) PROVE waiting[i].id = Len(sent) + i
    <3>1. CASE i <= Pending
      <4>1. i = 1 /\ Pending = 1 /\ Writing
        BY <1>2, <3>1 DEF Pending
      <4> QED BY <1>2, <1>3, <1>4, <3>1, <4>1 DEF FramesInOrder
    <3>2. CASE ~(i <= Pending)
      <4>1. i - Pending \in 1 .. Len(outputList) /\ waiting[i] = outputList[i - Pending]
        BY <1>1, <1>2, <1>3, <3>2
      <4>2. outputList[i - Pending].id = Len(sent) + Pending + (i - Pending)
        BY <1>4, <4>1 DEF FramesInOrder
      <4> QED BY <1>1, <1>2, <4>1, <4>2
    <3> QED BY <3>1, <3>2
  <2> QED BY <1>1, <1>2, <1>3, <2>1, <2>2
<1>5. Writing => action.entry # NoEntry
  BY <1>1 DEF Writing, FramesInOrder, CallsMade, Polling, NoEntry
<1>6. \A i \in DOMAIN sent : sent[i] = i
  BY <1>1 DEF FramesInOrder
<1>7. OutputInOrder
  BY <1>4, <1>5, <1>6 DEF OutputInOrder, AskedFor, Writing, waiting, head
<1>8. OutputIsSeen
  BY DEF OutputIsSeen, Announced
<1>9. CallbackOrder
  BY DEF CallbackOrder, CallsMade, SessionTypeOK
<1> QED BY <1>7, <1>8, <1>9

LEMMA SessionStarts == ASSUME SessionInit PROVE SessionInv
<1>1. SessionTypeOK
  <2>1. action \in [at : {"polling", "checking", "writing"}, entry : Frame, more : BOOLEAN]
    BY DEF SessionInit, Polling, NoEntry, Frame
  <2>2. calls \in [open : Nat, receive : Nat, release : Nat]
    BY DEF SessionInit
  <2>3. outputList \in Seq(Frame) /\ sent \in Seq(Nat)
    BY DEF SessionInit
  <2>4. wakeup \in BOOLEAN /\ events \subseteq {"in", "out"} /\ sending \subseteq Threads
    BY DEF SessionInit
  <2>5. /\ session \in {"request", "opened", "added", "over"} /\ handle \in {"open", "closed", "hungUp"}
        /\ frames \in Nat
    BY DEF SessionInit
  <2> QED BY <2>1, <2>2, <2>3, <2>4, <2>5 DEF SessionTypeOK
<1>2. ~Writing /\ ~action.more
  BY DEF SessionInit, Writing, Polling
<1> QED BY <1>1, <1>2 DEF SessionInit, SessionInv, FramesInOrder, AskedFor, Announced, CallsMade, Pending

LEMMA SessionSteps == ASSUME SessionInv, [SessionNext]_sessionVars PROVE SessionInv'
<1>1. CASE UNCHANGED sessionVars
  BY <1>1 DEF sessionVars, SessionInv, SessionTypeOK, FramesInOrder, AskedFor, Announced, CallsMade,
     Writing, Pending
<1>2. CASE \E t \in Threads, close \in BOOLEAN : Send(t, close)
  BY <1>2, Sends
<1>3. CASE \E t \in Threads : Wake(t)
  BY <1>3, Wakes
<1>4. CASE Answer
  BY <1>4, Answers
<1>5. CASE \E closes \in BOOLEAN : Write(closes)
  BY <1>5, Writes
<1> QED BY <1>1, <1>2, <1>3, <1>4, <1>5, Begins, Ends, Rounds, Checks, TakesOutput DEF SessionNext

(* What a web socket sends goes out once and in order and is never left with   *)
(* nobody to see it, and its callbacks come in order, for any threads and      *)
(* frames: web/mhd/WebServerOperations.c.                                      *)
THEOREM OutputIsSound == SessionSpec => [](OutputInOrder /\ OutputIsSeen /\ CallbackOrder)
<1>1. SessionInit => SessionInv
  BY SessionStarts
<1>2. SessionInv /\ [SessionNext]_sessionVars => SessionInv'
  BY SessionSteps
<1>3. SessionInv => OutputInOrder /\ OutputIsSeen /\ CallbackOrder
  BY InvIsSound
<1> QED BY <1>1, <1>2, <1>3, PTL DEF SessionSpec

-----------------------------------------------------------------------------

(***************************************************************************)
(* The proxy.                                                              *)
(***************************************************************************)

PollType == [node : Nodes, events : SUBSET {"in", "out"}]

(* What is polled for output has output, or is not open yet. *)
HasOutput(p) == "out" \in p.events => state[p.node] # "open" \/ queue[p.node] # << >>
PolledSound(polled, nodes) ==
  /\ polled \in Seq(PollType)
  /\ \A i, j \in 1 .. Len(polled) : polled[i].node = polled[j].node => i = j
  /\ \A i \in 1 .. Len(polled) : polled[i].node \in nodes /\ HasOutput(polled[i])
NodesOf(conns) == {n \in Nodes : n[1] \in ToSet(conns)}

(* The walk over the connections exists: each place follows from the one before. *)
LEMMA VisitedGoesOn ==
  ASSUME active \in Seq(Conns)
  PROVE  /\ Visited[0] = [active |-> << >>, free |-> free, polled |-> << >>]
         /\ \A k \in 1 .. Len(active) : Visited[k] = Visit(Visited[k - 1], active[k])
<1> DEFINE Begin == [active |-> << >>, free |-> free, polled |-> << >>]
           Is(f, m) == f = [k \in 0 .. m |-> IF k = 0 THEN Begin ELSE Visit(f[k - 1], active[k])]
           Missing == {m \in Nat : ~ \E f : Is(f, m)}
<1>1. Len(active) \in Nat
  OBVIOUS
<1>2. \E f : Is(f, 0)
  <2> DEFINE g == [k \in {0} |-> Begin]
  <2>1. Is(g, 0)
    OBVIOUS
  <2> QED BY <2>1
<1>3. ASSUME NEW m \in Nat, NEW f, Is(f, m) PROVE \E g : Is(g, m + 1)
  <2> DEFINE g == [k \in 0 .. m + 1 |-> IF k = m + 1 THEN Visit(f[m], active[m + 1]) ELSE f[k]]
  <2>1. ASSUME NEW k \in 0 .. m + 1
        PROVE  g[k] = IF k = 0 THEN Begin ELSE Visit(g[k - 1], active[k])
    <3>1. CASE k = m + 1
      <4>1. g[k] = Visit(f[m], active[m + 1]) /\ g[k - 1] = f[m] /\ k # 0
        BY <3>1
      <4> QED BY <4>1, <3>1
    <3>2. CASE k # m + 1
      <4>1. k \in 0 .. m /\ g[k] = f[k] /\ (k # 0 => k - 1 \in 0 .. m /\ g[k - 1] = f[k - 1])
        BY <3>2
      <4>2. f[k] = IF k = 0 THEN Begin ELSE Visit(f[k - 1], active[k])
        BY <4>1, <1>3
      <4> QED BY <4>1, <4>2
    <3> QED BY <3>1, <3>2
  <2>2. g = [k \in 0 .. m + 1 |-> g[k]]
    OBVIOUS
  <2> HIDE DEF g
  <2>3. Is(g, m + 1)
    BY <2>1, <2>2
  <2> QED BY <2>3
<1> HIDE DEF Is
<1>4. Missing = {}
  <2> SUFFICES ASSUME Missing # {} PROVE FALSE
    OBVIOUS
  <2>1. PICK m \in Missing : \A k \in Missing : m <= k
    BY LeastMember
  <2>2. m # 0
    BY <2>1, <1>2
  <2>3. m - 1 \in Nat /\ m - 1 \notin Missing
    BY <2>1, <2>2
  <2>4. PICK f : Is(f, m - 1)
    BY <2>3
  <2>5. \E g : Is(g, m - 1 + 1)
    BY <2>3, <2>4, <1>3
  <2> QED BY <2>1, <2>3, <2>5
<1>5. \E f : Is(f, Len(active))
  BY <1>1, <1>4
<1>6. Visited = CHOOSE f : Is(f, Len(active))
  BY DEF Visited, Is
<1>7. Is(Visited, Len(active))
  BY <1>5, <1>6
<1>8. Visited = [k \in 0 .. Len(active) |-> IF k = 0 THEN Begin ELSE Visit(Visited[k - 1], active[k])]
  BY <1>7 DEF Is
<1>9. ASSUME NEW k \in 0 .. Len(active) PROVE Visited[k] = IF k = 0 THEN Begin ELSE Visit(Visited[k - 1], active[k])
  BY <1>8
<1>10. Visited[0] = Begin
  BY <1>1, <1>9
<1> QED BY <1>1, <1>9, <1>10

(* One more node is polled, unless it is closed. *)
LEMMA PolledGrows ==
  ASSUME NEW polled, NEW nodes, PolledSound(polled, nodes), NEW n \in Nodes, n \notin nodes,
         state[n] \in {"close", "init", "open"}
  PROVE  PolledSound(polled \o PolledNode(n), nodes \cup {n})
<1>1. CASE state[n] = "close"
  <2>1. polled \o PolledNode(n) = polled
    BY <1>1 DEF PolledNode, PolledSound
  <2> QED BY <2>1 DEF PolledSound
<1>2. CASE state[n] # "close"
  <2> DEFINE p == [node |-> n, events |-> Asked(n)]
             more == polled \o <<p>>
  <2>1. p \in PollType /\ HasOutput(p) /\ p.node = n
    BY <1>2 DEF PollType, HasOutput, Asked, NQNetBufferQueue_isEmpty
  <2> HIDE DEF p
  <2>2. polled \in Seq(PollType) /\ Len(polled) \in Nat
    BY DEF PolledSound
  <2>3. /\ more \in Seq(PollType) /\ Len(more) = Len(polled) + 1
        /\ more[Len(polled) + 1] = p
        /\ \A i \in 1 .. Len(polled) : more[i] = polled[i]
    BY <2>1, <2>2
  <2>4. PolledNode(n) = <<p>>
    BY <1>2 DEF PolledNode, p
  <2> HIDE DEF more
  <2>5. ASSUME NEW i \in 1 .. Len(more) PROVE more[i].node \in nodes \cup {n} /\ HasOutput(more[i])
    BY <2>1, <2>2, <2>3 DEF PolledSound
  <2>6. ASSUME NEW i \in 1 .. Len(more), NEW j \in 1 .. Len(more), more[i].node = more[j].node PROVE i = j
    BY <2>1, <2>2, <2>3, <2>6 DEF PolledSound
  <2>7. PolledSound(more, nodes \cup {n})
    BY <2>3, <2>5, <2>6 DEF PolledSound
  <2> QED BY <2>4, <2>7 DEF more
<1> QED BY <1>1, <1>2

(* A connection goes to the head of a list. *)
LEMMA PrependList ==
  ASSUME NEW S, NEW s \in Seq(S), NEW x \in S
  PROVE  /\ <<x>> \o s \in Seq(S) /\ Len(<<x>> \o s) = Len(s) + 1
         /\ ToSet(<<x>> \o s) = ToSet(s) \cup {x}
         /\ IsInjective(s) /\ x \notin ToSet(s) => IsInjective(<<x>> \o s)
<1> DEFINE t == <<x>> \o s
<1>1. Len(s) \in Nat /\ t \in Seq(S) /\ Len(t) = Len(s) + 1 /\ t[1] = x /\ \A k \in 2 .. Len(s) + 1 : t[k] = s[k - 1]
  OBVIOUS
<1> HIDE DEF t
<1>2. \A y : y \in ToSet(t) <=> \E k \in 1 .. Len(t) : t[k] = y
  BY <1>1, MemberOf
<1>3. \A y : y \in ToSet(s) <=> \E k \in 1 .. Len(s) : s[k] = y
  BY MemberOf
<1>4. ASSUME NEW y \in ToSet(t) PROVE y \in ToSet(s) \cup {x}
  BY <1>1, <1>2, <1>3
<1>5. ASSUME NEW y \in ToSet(s) PROVE y \in ToSet(t)
  <2>1. PICK k \in 1 .. Len(s) : s[k] = y
    BY <1>3
  <2>2. k + 1 \in 2 .. Len(s) + 1 /\ k + 1 \in 1 .. Len(t) /\ t[k + 1] = s[k]
    BY <1>1
  <2> QED BY <1>2, <2>1, <2>2
<1>6. x \in ToSet(t)
  BY <1>1, <1>2
<1>7. ASSUME IsInjective(s), x \notin ToSet(s) PROVE IsInjective(t)
  <2>1. \A k \in 1 .. Len(s) : s[k] # x
    BY <1>7, <1>3
  <2>2. DOMAIN t = 1 .. Len(t) /\ DOMAIN s = 1 .. Len(s)
    BY <1>1
  <2>3. ASSUME NEW i \in 1 .. Len(t), NEW j \in 1 .. Len(t), t[i] = t[j] PROVE i = j
    <3>1. CASE i = 1 \/ j = 1
      BY <1>1, <2>1, <2>3, <3>1
    <3>2. CASE i # 1 /\ j # 1
      <4>1. i - 1 \in 1 .. Len(s) /\ j - 1 \in 1 .. Len(s) /\ s[i - 1] = s[j - 1]
        BY <1>1, <2>3, <3>2
      <4>2. i - 1 = j - 1
        BY <4>1, <1>7, <2>2 DEF IsInjective
      <4> QED BY <4>2
    <3> QED BY <3>1, <3>2
  <2> QED BY <2>2, <2>3 DEF IsInjective
<1> QED BY <1>1, <1>4, <1>5, <1>6, <1>7 DEF t

(* Each connection is in one of the lists, in the free one only if it is closed. *)
ListsSound ==
  /\ active \in Seq(Conns) /\ free \in Seq(Conns)
  /\ IsInjective(active) /\ IsInjective(free)
  /\ ToSet(active) \cap ToSet(free) = {} /\ ToSet(active) \cup ToSet(free) = Conns
  /\ Len(active) + Len(free) = MaxConn
  /\ \A c \in ToSet(free) : Closed(c)
NodeStates == \A n \in Nodes : state[n] \in {"close", "init", "open"}

(* After k connections were visited: those that are closed went to the free list. *)
Seen(k) == {active[i] : i \in 1 .. k}
VisitedSound(seen, k) ==
  /\ DOMAIN seen = {"active", "free", "polled"}
  /\ seen.active \in Seq(Conns) /\ seen.free \in Seq(Conns)
  /\ IsInjective(seen.active) /\ IsInjective(seen.free)
  /\ ToSet(seen.active) = {c \in Seen(k) : ~Closed(c)}
  /\ ToSet(seen.free) = ToSet(free) \cup {c \in Seen(k) : Closed(c)}
  /\ Len(seen.active) + Len(seen.free) = k + Len(free)
  /\ PolledSound(seen.polled, NodesOf(seen.active))

(* The next connection of the list is visited. *)
LEMMA VisitKeeps ==
  ASSUME ListsSound, NodeStates, NEW k \in 1 .. Len(active), NEW seen, VisitedSound(seen, k - 1)
  PROVE  VisitedSound(Visit(seen, active[k]), k)
<1> DEFINE c == active[k]
           next == Visit(seen, c)
<1>1. /\ DOMAIN seen = {"active", "free", "polled"}
      /\ seen.active \in Seq(Conns) /\ seen.free \in Seq(Conns)
      /\ IsInjective(seen.active) /\ IsInjective(seen.free)
      /\ ToSet(seen.active) = {d \in Seen(k - 1) : ~Closed(d)}
      /\ ToSet(seen.free) = ToSet(free) \cup {d \in Seen(k - 1) : Closed(d)}
      /\ Len(seen.active) + Len(seen.free) = k - 1 + Len(free)
      /\ PolledSound(seen.polled, NodesOf(seen.active))
  BY DEF VisitedSound
<1>2. Len(active) \in Nat /\ Len(free) \in Nat /\ Len(seen.active) \in Nat /\ Len(seen.free) \in Nat
  BY <1>1 DEF ListsSound
<1>3. c \in Conns /\ c \in ToSet(active) /\ c \notin ToSet(free)
  <2>1. c \in ToSet(active)
    BY MemberOf DEF ListsSound
  <2> QED BY <2>1 DEF ListsSound
<1>4. Seen(k) = Seen(k - 1) \cup {c}
  <2>1. 1 .. k = (1 .. k - 1) \cup {k}
    BY <1>2
  <2> QED BY <2>1 DEF Seen
<1>5. c \notin Seen(k - 1)
  <2>1. \A i \in 1 .. k - 1 : active[i] # active[k]
    BY <1>2 DEF ListsSound, IsInjective
  <2> QED BY <2>1 DEF Seen
<1> HIDE DEF c
<1>6. c \notin ToSet(seen.active) /\ c \notin ToSet(seen.free)
  BY <1>1, <1>3, <1>5
<1>7. CASE Closed(c)
  <2>1. next = [seen EXCEPT !.free = <<c>> \o seen.free]
    BY <1>7 DEF Visit
  <2>2. DOMAIN next = {"active", "free", "polled"} /\ next.active = seen.active /\ next.polled = seen.polled /\ next.free = <<c>> \o seen.free
    BY <2>1, <1>1
  <2> HIDE DEF next
  <2>3. /\ next.free \in Seq(Conns) /\ Len(next.free) = Len(seen.free) + 1
        /\ ToSet(next.free) = ToSet(seen.free) \cup {c} /\ IsInjective(next.free)
    BY <1>1, <1>3, <1>6, <2>2, PrependList
  <2>4. ToSet(next.free) = ToSet(free) \cup {d \in Seen(k) : Closed(d)}
    BY <1>1, <1>4, <1>7, <2>3
  <2>5. ToSet(next.active) = {d \in Seen(k) : ~Closed(d)}
    BY <1>1, <1>4, <1>7, <2>2
  <2>6. Len(next.active) + Len(next.free) = k + Len(free)
    BY <1>1, <1>2, <2>2, <2>3
  <2>7. PolledSound(next.polled, NodesOf(next.active))
    BY <1>1, <2>2
  <2>8. next.active \in Seq(Conns) /\ IsInjective(next.active)
    BY <1>1, <2>2
  <2> QED BY <2>2, <2>3, <2>4, <2>5, <2>6, <2>7, <2>8 DEF VisitedSound, next, c
<1>8. CASE ~Closed(c)
  <2> DEFINE one == <<c, "client">>
             two == <<c, "remote">>
             nodes == NodesOf(seen.active)
             polled == seen.polled \o PolledNode(one) \o PolledNode(two)
  <2>1. next = [[seen EXCEPT !.active = Append(seen.active, c)] EXCEPT !.polled = polled]
    BY <1>8 DEF Visit
  <2>2. DOMAIN next = {"active", "free", "polled"} /\ next.active = Append(seen.active, c) /\ next.polled = polled /\ next.free = seen.free
    BY <2>1, <1>1
  <2>3. one \in Nodes /\ two \in Nodes /\ one # two /\ one \notin nodes /\ two \notin nodes
    BY <1>3, <1>6 DEF Nodes, Sides, NodesOf
  <2> HIDE DEF next, nodes
  <2>4. PolledSound(seen.polled \o PolledNode(one), nodes \cup {one})
    BY <1>1, <2>3, PolledGrows DEF nodes, NodeStates
  <2>5. two \notin nodes \cup {one} /\ two \in Nodes /\ state[two] \in {"close", "init", "open"}
    BY <2>3 DEF NodeStates
  <2>6. PolledSound(polled, (nodes \cup {one}) \cup {two})
    BY <2>4, <2>5, PolledGrows
  <2> HIDE DEF polled
  <2>7. /\ next.active \in Seq(Conns) /\ IsInjective(next.active) /\ ToSet(next.active) = ToSet(seen.active) \cup {c}
    BY <1>1, <1>3, <1>6, <2>2, AppendList
  <2>8. Len(next.active) = Len(seen.active) + 1
    BY <1>1, <1>3, <2>2
  <2>9. (nodes \cup {one}) \cup {two} \subseteq NodesOf(next.active)
    BY <2>3, <2>7 DEF nodes, NodesOf
  <2>10. PolledSound(next.polled, NodesOf(next.active))
    BY <2>2, <2>6, <2>9 DEF PolledSound
  <2>11. ToSet(next.active) = {d \in Seen(k) : ~Closed(d)}
    BY <1>1, <1>4, <1>8, <2>7
  <2>12. ToSet(next.free) = ToSet(free) \cup {d \in Seen(k) : Closed(d)}
    BY <1>1, <1>4, <1>8, <2>2
  <2>13. Len(next.active) + Len(next.free) = k + Len(free)
    BY <1>1, <1>2, <2>2, <2>8
  <2>14. next.free \in Seq(Conns) /\ IsInjective(next.free)
    BY <1>1, <2>2
  <2> QED BY <2>2, <2>7, <2>10, <2>11, <2>12, <2>13, <2>14 DEF VisitedSound, next, c
<1> QED BY <1>7, <1>8

(* The walk ends with all of them in one list or the other. *)
LEMMA AllVisited ==
  ASSUME ListsSound, NodeStates
  PROVE  VisitedSound(Visited[Len(active)], Len(active))
<1> DEFINE Wrong == {k \in Nat : k <= Len(active) /\ ~VisitedSound(Visited[k], k)}
<1>1. active \in Seq(Conns) /\ free \in Seq(Conns) /\ Len(active) \in Nat
  BY DEF ListsSound
<1>2. VisitedSound(Visited[0], 0)
  <2> DEFINE start == [active |-> << >>, free |-> free, polled |-> << >>]
  <2>1. Visited[0] = start
    BY <1>1, VisitedGoesOn
  <2>2. DOMAIN start = {"active", "free", "polled"} /\ start.active = << >> /\ start.free = free /\ start.polled = << >>
    OBVIOUS
  <2> HIDE DEF start
  <2>3. Seen(0) = {}
    BY DEF Seen
  <2>4. << >> \in Seq(Conns) /\ << >> \in Seq(PollType) /\ Len(<< >>) = 0 /\ DOMAIN << >> = {}
    OBVIOUS
  <2>5. ToSet(<< >>) = {} /\ IsInjective(<< >>)
    BY DEF ToSet, IsInjective
  <2>6. PolledSound(<< >>, NodesOf(<< >>))
    BY <2>4 DEF PolledSound
  <2>7. Len(start.active) + Len(start.free) = 0 + Len(free)
    BY <1>1, <2>2, <2>4
  <2> QED BY <1>1, <2>1, <2>2, <2>3, <2>4, <2>5, <2>6, <2>7 DEF VisitedSound, ListsSound
<1>3. Wrong = {}
  <2> SUFFICES ASSUME Wrong # {} PROVE FALSE
    OBVIOUS
  <2>1. PICK k \in Wrong : \A j \in Wrong : k <= j
    BY LeastMember
  <2>2. k \in 1 .. Len(active) /\ k - 1 \in Nat /\ k - 1 \notin Wrong
    BY <1>1, <1>2, <2>1
  <2>3. VisitedSound(Visited[k - 1], k - 1)
    BY <1>1, <2>2
  <2>4. Visited[k] = Visit(Visited[k - 1], active[k])
    BY <1>1, <2>2, VisitedGoesOn
  <2>5. VisitedSound(Visited[k], k)
    BY <2>2, <2>3, <2>4, VisitKeeps
  <2> QED BY <2>1, <2>5
<1> QED BY <1>1, <1>3

(* What the modules of a proxy were told of a node, by its state. *)
ToldSound(s, n) ==
  /\ s.state[n] = "open" => s.told[n] = <<"connect">>
  /\ s.state[n] = "init" => s.told[n] = << >> /\ n[2] = "remote"
  /\ s.state[n] = "close" => \/ s.told[n] \in {<< >>, <<"connect", "close">>}
                             \/ n[2] = "remote" /\ s.told[n] = <<"close">>

(* What came from the partner was taken, or is queued, in its order. *)
PassedOn(s, n) ==
  /\ \A i \in 1 .. Len(s.taken[n]) : s.taken[n][i] = i
  /\ s.state[n] # "close" =>
       /\ Len(s.taken[n]) + Len(s.queue[n]) = s.received[PartnerOf(n)]
       /\ \A i \in 1 .. Len(s.queue[n]) : s.queue[n][i] = Len(s.taken[n]) + i

OpenNodes(s) == {n \in Nodes : s.state[n] # "close"}
ServerSound(s) ==
  /\ s.state \in [Nodes -> {"close", "init", "open"}]
  /\ s.queue \in [Nodes -> Seq(Nat)] /\ s.taken \in [Nodes -> Seq(Nat)] /\ s.received \in [Nodes -> Nat]
  /\ s.told \in [Nodes -> Seq({"connect", "close"})]
  /\ s.sockets = Cardinality(OpenNodes(s))
  /\ s.failed = FALSE
  /\ \A n \in Nodes : ToldSound(s, n) /\ PassedOn(s, n)
Fields == {"state", "queue", "received", "taken", "told", "sockets", "failed"}
IsServer(s) == DOMAIN s = Fields /\ ServerSound(s)

(* The rest of the batch is left as it was: of other nodes no more than the close is
   told, and what they have to send stays. *)
OthersKept(s, t, n) ==
  /\ \A m \in Nodes : s.state[m] = "close" => t.state[m] = "close"
  /\ \A m \in Nodes \ {n} : t.state[m] \in {s.state[m], "close"} /\ (s.queue[m] # << >> => t.queue[m] # << >>)

(* A node has one partner, in its own connection. *)
LEMMA Partners ==
  ASSUME NEW n \in Nodes
  PROVE  PartnerOf(n) \in Nodes /\ PartnerOf(n) # n /\ PartnerOf(PartnerOf(n)) = n
         /\ <<n[1], "client">> \in Nodes /\ <<n[1], "remote">> \in Nodes
         /\ (n = <<n[1], "client">> \/ n = <<n[1], "remote">>)
  BY DEF Nodes, PartnerOf, Partner, Sides

(* There are finitely many nodes. *)
LEMMA NodesFinite == ASSUME MaxConn \in Nat PROVE IsFiniteSet(Nodes)
<1>1. IsFiniteSet(Conns)
  BY FS_Interval DEF Conns
<1>2. IsFiniteSet({"client"} \cup {"remote"})
  BY FS_Singleton, FS_Union
<1>3. {"client"} \cup {"remote"} = Sides
  BY DEF Sides
<1> QED BY <1>1, <1>2, <1>3, FS_Product DEF Nodes

(* What is told is told after what was told before. *)
LEMMA AppendTold ==
  /\ \A x, y : Append(<<x>>, y) = <<x, y>>
  /\ \A x : Append(<< >>, x) = <<x>>
<1>1. ASSUME NEW x, NEW y PROVE Append(<<x>>, y) = <<x, y>>
  <2> DEFINE s == Append(<<x>>, y)
             t == <<x, y>>
  <2>1. <<x>> \in Seq({x, y})
    OBVIOUS
  <2>2. s \in Seq({x, y}) /\ Len(s) = 2 /\ s[1] = x /\ s[2] = y
    BY <2>1
  <2>3. t \in Seq({x, y}) /\ Len(t) = 2 /\ t[1] = x /\ t[2] = y
    OBVIOUS
  <2> HIDE DEF s, t
  <2>4. \A i \in 1 .. Len(s) : s[i] = t[i]
    <3>1. 1 .. Len(s) = {1, 2}
      BY <2>2
    <3> QED BY <2>2, <2>3, <3>1
  <2>5. s = t
    BY <2>2, <2>3, <2>4, SeqEqual
  <2> QED BY <2>5 DEF s, t
<1>2. ASSUME NEW x PROVE Append(<< >>, x) = <<x>>
  <2> DEFINE s == Append(<< >>, x)
             t == <<x>>
  <2>1. s \in Seq({x}) /\ Len(s) = 1 /\ s[1] = x
    OBVIOUS
  <2>2. t \in Seq({x}) /\ Len(t) = 1 /\ t[1] = x
    OBVIOUS
  <2> HIDE DEF s, t
  <2>3. s = t
    BY <2>1, <2>2, SeqEqual
  <2> QED BY <2>3 DEF s, t
<1> QED BY <1>1, <1>2

(* A node is closed, and its modules are told. *)
LEMMA NodeCloses ==
  ASSUME MaxConn \in Nat, NEW s, IsServer(s), NEW n \in Nodes
  PROVE  LET t == CloseNode(s, n)
         IN IsServer(t) /\ t.state = [s.state EXCEPT ![n] = "close"] /\ t.queue = s.queue
<1>1. ServerSound(s) /\ DOMAIN s = Fields
  BY DEF IsServer
<1>2. CASE s.state[n] = "close"
  <2>1. CloseNode(s, n) = s
    BY <1>2 DEF CloseNode
  <2>2. s.state = [s.state EXCEPT ![n] = "close"]
    BY <1>1, <1>2 DEF ServerSound
  <2> QED BY <2>1, <2>2
<1>3. CASE s.state[n] # "close"
  <2> DEFINE t == CloseNode(s, n)
  <2>1. t = [[[s EXCEPT !.state = [s.state EXCEPT ![n] = "close"]] EXCEPT !.sockets = s.sockets - 1] EXCEPT !.told = [s.told EXCEPT ![n] = Append(s.told[n], "close")]]
    BY <1>1, <1>3 DEF CloseNode, Fields
  <2>2. /\ DOMAIN t = Fields
        /\ t.state = [s.state EXCEPT ![n] = "close"] /\ t.told = [s.told EXCEPT ![n] = Append(s.told[n], "close")]
        /\ t.sockets = s.sockets - 1
        /\ t.queue = s.queue /\ t.received = s.received /\ t.taken = s.taken /\ t.failed = s.failed
    BY <2>1, <1>1 DEF Fields
  <2> HIDE DEF t
  <2>3. /\ t.state \in [Nodes -> {"close", "init", "open"}] /\ t.told \in [Nodes -> Seq({"connect", "close"})]
        /\ t.state[n] = "close" /\ t.told[n] = Append(s.told[n], "close")
        /\ \A m \in Nodes : m # n => t.state[m] = s.state[m] /\ t.told[m] = s.told[m]
    <3>1. s.state \in [Nodes -> {"close", "init", "open"}] /\ s.told \in [Nodes -> Seq({"connect", "close"})]
      BY <1>1 DEF ServerSound
    <3>2. Append(s.told[n], "close") \in Seq({"connect", "close"})
      BY <3>1
    <3> QED BY <2>2, <3>1, <3>2
  <2>4. t.sockets = Cardinality(OpenNodes(t))
    <3>1. IsFiniteSet(OpenNodes(s))
      BY NodesFinite, FS_Subset DEF OpenNodes
    <3>2. n \in OpenNodes(s) /\ OpenNodes(t) = OpenNodes(s) \ {n}
      BY <1>3, <2>3 DEF OpenNodes
    <3>3. Cardinality(OpenNodes(s) \ {n}) = Cardinality(OpenNodes(s)) - 1
      BY <3>1, <3>2, FS_RemoveElement
    <3> QED BY <1>1, <2>2, <3>2, <3>3 DEF ServerSound
  <2>5. ASSUME NEW m \in Nodes PROVE PassedOn(t, m)
    <3>1. PassedOn(s, m) /\ (t.state[m] # "close" => s.state[m] # "close")
      BY <1>1, <2>3 DEF ServerSound
    <3> QED BY <3>1, <2>2 DEF PassedOn
  <2>6. ASSUME NEW m \in Nodes PROVE ToldSound(t, m)
    <3>1. ToldSound(s, m)
      BY <1>1 DEF ServerSound
    <3>2. CASE m # n
      BY <3>1, <3>2, <2>3 DEF ToldSound
    <3>3. CASE m = n
      <4>1. s.state[n] \in {"init", "open"}
        BY <1>1, <1>3 DEF ServerSound
      <4>2. Append(<<"connect">>, "close") = <<"connect", "close">> /\ Append(<< >>, "close") = <<"close">>
        BY AppendTold
      <4>3. CASE s.state[n] = "open"
        <5>1. t.told[n] = <<"connect", "close">>
          BY <3>1, <3>3, <2>3, <4>2, <4>3 DEF ToldSound
        <5> QED BY <3>3, <2>3, <5>1 DEF ToldSound
      <4>4. CASE s.state[n] = "init"
        <5>1. t.told[n] = <<"close">> /\ n[2] = "remote"
          BY <3>1, <3>3, <2>3, <4>2, <4>4 DEF ToldSound
        <5> QED BY <3>3, <2>3, <5>1 DEF ToldSound
      <4> QED BY <4>1, <4>3, <4>4
    <3> QED BY <3>2, <3>3
  <2>7. ServerSound(t)
    BY <1>1, <2>2, <2>3, <2>4, <2>5, <2>6 DEF ServerSound
  <2> QED BY <2>2, <2>7 DEF IsServer, t
<1> QED BY <1>2, <1>3

(* Both nodes of a connection are closed. *)
LEMMA ConnectionCloses ==
  ASSUME MaxConn \in Nat, NEW s, IsServer(s), NEW n \in Nodes
  PROVE  LET t == CloseConnection(s, n)
         IN IsServer(t) /\ OthersKept(s, t, n) /\ t.state[n] = "close" /\ t.queue = s.queue
<1> DEFINE one == <<n[1], "client">>
           two == <<n[1], "remote">>
           r == CloseNode(s, one)
           t == CloseNode(r, two)
<1>1. one \in Nodes /\ two \in Nodes /\ (n = one \/ n = two)
  BY Partners
<1>2. IsServer(r) /\ r.state = [s.state EXCEPT ![one] = "close"] /\ r.queue = s.queue
  BY <1>1, NodeCloses
<1> HIDE DEF r
<1>3. IsServer(t) /\ t.state = [r.state EXCEPT ![two] = "close"] /\ t.queue = r.queue
  BY <1>1, <1>2, NodeCloses
<1>4. CloseConnection(s, n) = t
  BY DEF CloseConnection, r
<1> HIDE DEF t
<1>5. s.state \in [Nodes -> {"close", "init", "open"}]
  BY DEF IsServer, ServerSound
<1>6. \A m \in Nodes : t.state[m] = IF m = one \/ m = two THEN "close" ELSE s.state[m]
  BY <1>1, <1>2, <1>3, <1>5
<1>7. OthersKept(s, t, n) /\ t.state[n] = "close"
  BY <1>1, <1>2, <1>3, <1>6 DEF OthersKept
<1> QED BY <1>2, <1>3, <1>4, <1>7

(* Two steps that leave the others alone are one that does. *)
LEMMA KeptIsKept ==
  ASSUME NEW r, NEW s, NEW t, NEW n, OthersKept(r, s, n), OthersKept(s, t, n)
  PROVE  OthersKept(r, t, n)
  BY DEF OthersKept

(* An error closes an open connection. *)
LEMMA ErrorCloses ==
  ASSUME MaxConn \in Nat, NEW s, IsServer(s), NEW n \in Nodes
  PROVE  LET t == OnError(s, n)
         IN IsServer(t) /\ OthersKept(s, t, n) /\ t.state[n] \in {s.state[n], "close"} /\ t.queue = s.queue
<1>1. CASE s.state[n] = "open"
  BY <1>1, ConnectionCloses DEF OnError
<1>2. CASE s.state[n] # "open"
  BY <1>2 DEF OnError, OthersKept
<1> QED BY <1>1, <1>2

(* Closing does not look at what is queued. *)
LEMMA QueueAside ==
  ASSUME NEW s, DOMAIN s = Fields, NEW q, NEW n
  PROVE  CloseNode([s EXCEPT !.queue = q], n) = [CloseNode(s, n) EXCEPT !.queue = q]
<1> DEFINE r == [s EXCEPT !.queue = q]
<1>1. DOMAIN r = Fields /\ r.queue = q /\ r.state = s.state /\ r.sockets = s.sockets /\ r.told = s.told
      /\ \A f \in Fields : f # "queue" => r[f] = s[f]
  BY DEF Fields
<1>2. CASE s.state[n] = "close"
  BY <1>1, <1>2 DEF CloseNode
<1>3. CASE s.state[n] # "close"
  <2> DEFINE u == [[[s EXCEPT !.state = [s.state EXCEPT ![n] = "close"]] EXCEPT !.sockets = s.sockets - 1] EXCEPT !.told = [s.told EXCEPT ![n] = Append(s.told[n], "close")]]
             t == [[[r EXCEPT !.state = [r.state EXCEPT ![n] = "close"]] EXCEPT !.sockets = r.sockets - 1] EXCEPT !.told = [r.told EXCEPT ![n] = Append(r.told[n], "close")]]
             v == [u EXCEPT !.queue = q]
  <2>1. CloseNode(s, n) = u
    BY <1>3 DEF CloseNode, Fields
  <2> HIDE DEF r
  <2>2. CloseNode(r, n) = t
    BY <1>1, <1>3 DEF CloseNode, Fields
  <2>3. DOMAIN t = Fields /\ DOMAIN v = Fields /\ t = [f \in DOMAIN t |-> t[f]] /\ v = [f \in DOMAIN v |-> v[f]]
    BY <1>1 DEF Fields
  <2>4. \A f \in Fields : t[f] = v[f]
    BY <1>1 DEF Fields
  <2> HIDE DEF u, t, v
  <2>5. t = v
    BY <2>3, <2>4
  <2> QED BY <2>1, <2>2, <2>5 DEF v, r
<1> QED BY <1>2, <1>3

(* What a closed node has in its queue is of no matter. *)
LEMMA ClosedQueue ==
  ASSUME NEW s, IsServer(s), NEW n \in Nodes, s.state[n] = "close", NEW q \in Seq(Nat)
  PROVE  LET t == [s EXCEPT !.queue = [s.queue EXCEPT ![n] = q]]
         IN IsServer(t) /\ t.state = s.state /\ \A m \in Nodes : m # n => t.queue[m] = s.queue[m]
<1> DEFINE t == [s EXCEPT !.queue = [s.queue EXCEPT ![n] = q]]
<1>1. ServerSound(s) /\ DOMAIN s = Fields
  BY DEF IsServer
<1>2. /\ DOMAIN t = Fields /\ t.queue = [s.queue EXCEPT ![n] = q]
      /\ t.state = s.state /\ t.received = s.received /\ t.taken = s.taken /\ t.told = s.told /\ t.sockets = s.sockets /\ t.failed = s.failed
  BY <1>1 DEF Fields
<1> HIDE DEF t
<1>3. t.queue \in [Nodes -> Seq(Nat)] /\ \A m \in Nodes : m # n => t.queue[m] = s.queue[m]
  BY <1>1, <1>2 DEF ServerSound
<1>4. ASSUME NEW m \in Nodes PROVE ToldSound(t, m) /\ PassedOn(t, m)
  <2>1. ToldSound(s, m) /\ PassedOn(s, m)
    BY <1>1 DEF ServerSound
  <2>2. ToldSound(t, m)
    BY <2>1, <1>2 DEF ToldSound
  <2>3. PassedOn(t, m)
    BY <2>1, <1>2, <1>3 DEF PassedOn
  <2> QED BY <2>2, <2>3
<1>5. OpenNodes(t) = OpenNodes(s)
  BY <1>2 DEF OpenNodes
<1>6. ServerSound(t)
  BY <1>1, <1>2, <1>3, <1>4, <1>5 DEF ServerSound
<1> QED BY <1>2, <1>3, <1>6 DEF IsServer, t

(* Output: a connect comes to something, or the first buffer is taken. *)
LEMMA SendPasses ==
  ASSUME MaxConn \in Nat, NEW s, IsServer(s), NEW n \in Nodes, s.state[n] = "open" => s.queue[n] # << >>,
         NEW connects, NEW takes
  PROVE  LET t == OnSend(s, n, connects, takes)
         IN IsServer(t) /\ OthersKept(s, t, n)
<1> DEFINE t == OnSend(s, n, connects, takes)
<1>1. ServerSound(s) /\ DOMAIN s = Fields
  BY DEF IsServer
<1>2. /\ s.state \in [Nodes -> {"close", "init", "open"}] /\ s.queue \in [Nodes -> Seq(Nat)]
      /\ s.taken \in [Nodes -> Seq(Nat)] /\ s.told \in [Nodes -> Seq({"connect", "close"})]
  BY <1>1 DEF ServerSound
<1>3. ASSUME NEW m \in Nodes PROVE ToldSound(s, m) /\ PassedOn(s, m)
  BY <1>1 DEF ServerSound
<1>4. CASE s.state[n] = "init" /\ connects
  <2>1. t = [[s EXCEPT !.state = [s.state EXCEPT ![n] = "open"]] EXCEPT !.told = [s.told EXCEPT ![n] = Append(s.told[n], "connect")]]
    BY <1>1, <1>4 DEF OnSend, Fields
  <2>2. /\ DOMAIN t = Fields
        /\ t.state = [s.state EXCEPT ![n] = "open"] /\ t.told = [s.told EXCEPT ![n] = Append(s.told[n], "connect")]
        /\ t.sockets = s.sockets /\ t.queue = s.queue /\ t.received = s.received /\ t.taken = s.taken /\ t.failed = s.failed
    BY <2>1, <1>1 DEF Fields
  <2> HIDE DEF t
  <2>3. s.told[n] = << >>
    BY <1>3, <1>4 DEF ToldSound
  <2>4. Append(s.told[n], "connect") = <<"connect">> /\ <<"connect">> \in Seq({"connect", "close"})
    BY <2>3, AppendTold
  <2>5. /\ t.state \in [Nodes -> {"close", "init", "open"}] /\ t.told \in [Nodes -> Seq({"connect", "close"})]
        /\ t.state[n] = "open" /\ t.told[n] = <<"connect">>
        /\ \A m \in Nodes : m # n => t.state[m] = s.state[m] /\ t.told[m] = s.told[m]
    <3>1. /\ t.state \in [Nodes -> {"close", "init", "open"}] /\ t.state[n] = "open"
          /\ \A m \in Nodes : m # n => t.state[m] = s.state[m]
      BY <1>2, <2>2
    <3>2. t.told = [s.told EXCEPT ![n] = <<"connect">>]
      BY <2>2, <2>4
    <3>3. /\ t.told \in [Nodes -> Seq({"connect", "close"})] /\ t.told[n] = <<"connect">>
          /\ \A m \in Nodes : m # n => t.told[m] = s.told[m]
      BY <1>2, <2>4, <3>2
    <3> QED BY <3>1, <3>3
  <2>6. OpenNodes(t) = OpenNodes(s)
    BY <1>4, <2>5 DEF OpenNodes
  <2>7. ASSUME NEW m \in Nodes PROVE PassedOn(t, m)
    <3>1. t.state[m] # "close" => s.state[m] # "close"
      BY <1>4, <2>5
    <3>2. PassedOn(s, m)
      BY <1>3
    <3>3. t.queue = s.queue /\ t.taken = s.taken /\ t.received = s.received
      BY <2>2
    <3> QED BY <3>1, <3>2, <3>3 DEF PassedOn
  <2>8. ASSUME NEW m \in Nodes PROVE ToldSound(t, m)
    BY <1>3, <2>5 DEF ToldSound
  <2>9. ServerSound(t)
    BY <1>1, <2>2, <2>5, <2>6, <2>7, <2>8 DEF ServerSound
  <2>10. OthersKept(s, t, n)
    BY <1>4, <2>2, <2>5 DEF OthersKept
  <2> QED BY <2>2, <2>9, <2>10 DEF IsServer, t
<1>5. CASE s.state[n] = "init" /\ ~connects
  BY <1>5, ConnectionCloses DEF OnSend
<1>6. CASE s.state[n] = "close"
  BY <1>6 DEF OnSend, OthersKept
<1>7. CASE s.state[n] = "open"
  <2> DEFINE r == [s EXCEPT !.queue = [s.queue EXCEPT ![n] = Tail(s.queue[n])]]
  <2>1. s.queue[n] # << >> /\ s.queue[n] \in Seq(Nat) /\ s.taken[n] \in Seq(Nat)
    BY <1>2, <1>7
  <2>2. /\ Tail(s.queue[n]) \in Seq(Nat) /\ Len(Tail(s.queue[n])) = Len(s.queue[n]) - 1 /\ Len(s.queue[n]) \in Nat
        /\ Len(s.taken[n]) \in Nat /\ Head(s.queue[n]) = s.queue[n][1] /\ Len(s.queue[n]) > 0 /\ s.queue[n][1] \in Nat
        /\ \A i \in 1 .. Len(s.queue[n]) - 1 : Tail(s.queue[n])[i] = s.queue[n][i + 1]
    <3>1. \A q \in Seq(Nat) : q # << >> =>
            /\ Tail(q) \in Seq(Nat) /\ Len(Tail(q)) = Len(q) - 1 /\ Len(q) \in Nat
            /\ Head(q) = q[1] /\ Len(q) > 0 /\ q[1] \in Nat
            /\ \A i \in 1 .. Len(q) - 1 : Tail(q)[i] = q[i + 1]
      OBVIOUS
    <3>2. Len(s.taken[n]) \in Nat
      BY <2>1
    <3> QED BY <2>1, <3>1, <3>2
  <2>3. CASE takes
    <3>1. t = [[s EXCEPT !.queue = [s.queue EXCEPT ![n] = Tail(s.queue[n])]]
                 EXCEPT !.taken = [s.taken EXCEPT ![n] = Append(s.taken[n], Head(s.queue[n]))]]
      BY <1>1, <1>7, <2>1, <2>3 DEF OnSend, Fields, NQNetBufferQueue_isEmpty, NQNetBufferQueue_shift
    <3>2. /\ DOMAIN t = Fields
          /\ t.queue = [s.queue EXCEPT ![n] = Tail(s.queue[n])] /\ t.taken = [s.taken EXCEPT ![n] = Append(s.taken[n], Head(s.queue[n]))]
          /\ t.sockets = s.sockets /\ t.state = s.state /\ t.received = s.received /\ t.told = s.told /\ t.failed = s.failed
      BY <3>1, <1>1 DEF Fields
    <3> HIDE DEF t
    <3>3. /\ Append(s.taken[n], Head(s.queue[n])) \in Seq(Nat)
          /\ Len(Append(s.taken[n], Head(s.queue[n]))) = Len(s.taken[n]) + 1
          /\ Append(s.taken[n], Head(s.queue[n]))[Len(s.taken[n]) + 1] = s.queue[n][1]
          /\ \A i \in 1 .. Len(s.taken[n]) : Append(s.taken[n], Head(s.queue[n]))[i] = s.taken[n][i]
      BY <2>1, <2>2
    <3>4. /\ t.queue \in [Nodes -> Seq(Nat)] /\ t.taken \in [Nodes -> Seq(Nat)]
          /\ t.queue[n] = Tail(s.queue[n]) /\ t.taken[n] = Append(s.taken[n], Head(s.queue[n]))
          /\ \A m \in Nodes : m # n => t.queue[m] = s.queue[m] /\ t.taken[m] = s.taken[m]
      <4>1. /\ t.queue \in [Nodes -> Seq(Nat)] /\ t.queue[n] = Tail(s.queue[n])
            /\ \A m \in Nodes : m # n => t.queue[m] = s.queue[m]
        BY <1>2, <2>2, <3>2
      <4> DEFINE more == Append(s.taken[n], Head(s.queue[n]))
      <4>2. t.taken = [s.taken EXCEPT ![n] = more] /\ more \in Seq(Nat)
        BY <3>2, <3>3
      <4> HIDE DEF more
      <4>3. /\ t.taken \in [Nodes -> Seq(Nat)] /\ t.taken[n] = more
            /\ \A m \in Nodes : m # n => t.taken[m] = s.taken[m]
        BY <1>2, <4>2
      <4> QED BY <4>1, <4>3 DEF more
    <3>5. PassedOn(t, n)
      <4>1. /\ \A i \in 1 .. Len(s.taken[n]) : s.taken[n][i] = i
            /\ Len(s.taken[n]) + Len(s.queue[n]) = s.received[PartnerOf(n)]
            /\ \A i \in 1 .. Len(s.queue[n]) : s.queue[n][i] = Len(s.taken[n]) + i
        BY <1>3, <1>7 DEF PassedOn
      <4>2. s.queue[n][1] = Len(s.taken[n]) + 1
        BY <2>2, <4>1
      <4> DEFINE L == Len(s.taken[n])
                 new == t.taken[n]
                 rest == t.queue[n]
      <4>6. L \in Nat /\ Len(new) = L + 1 /\ new[L + 1] = L + 1 /\ Len(rest) = Len(s.queue[n]) - 1
            /\ \A i \in 1 .. L : new[i] = i
        BY <2>2, <3>3, <3>4, <4>1, <4>2
      <4>7. t.received = s.received
        BY <3>2
      <4> HIDE DEF new, rest
      <4>3. \A i \in 1 .. Len(new) : new[i] = i
        BY <4>6
      <4>4. Len(new) + Len(rest) = t.received[PartnerOf(n)]
        <5>1. Len(new) + Len(rest) = L + Len(s.queue[n])
          <6> DEFINE M == Len(s.queue[n])
          <6>1. L \in Nat /\ M \in Nat /\ Len(new) = L + 1 /\ Len(rest) = M - 1
            BY <2>2, <4>6
          <6> HIDE DEF L, M
          <6>2. Len(new) + Len(rest) = L + M
            BY <6>1
          <6> QED BY <6>2 DEF M
        <5> QED BY <4>1, <4>7, <5>1
      <4>5. ASSUME NEW i \in 1 .. Len(rest) PROVE rest[i] = Len(new) + i
        <5>1. i \in 1 .. Len(s.queue[n]) - 1 /\ i + 1 \in 1 .. Len(s.queue[n])
          BY <2>2, <4>6
        <5>2. rest = Tail(s.queue[n])
          BY <3>4 DEF rest
        <5>3. rest[i] = s.queue[n][i + 1] /\ s.queue[n][i + 1] = L + (i + 1)
          BY <2>2, <4>1, <5>1, <5>2
        <5>4. i \in Int /\ Len(new) = L + 1 /\ L \in Int
          BY <4>6, <5>1
        <5> HIDE DEF L
        <5> QED BY <5>3, <5>4
      <4> QED BY <4>3, <4>4, <4>5 DEF PassedOn, new, rest
    <3>6. ASSUME NEW m \in Nodes PROVE PassedOn(t, m)
      <4>1. CASE m # n
        <5>1. PassedOn(s, m)
          BY <1>3
        <5>2. t.queue[m] = s.queue[m] /\ t.taken[m] = s.taken[m] /\ t.state = s.state /\ t.received = s.received
          BY <3>2, <3>4, <4>1
        <5> QED BY <5>1, <5>2 DEF PassedOn
      <4> QED BY <3>5, <4>1
    <3>7. ASSUME NEW m \in Nodes PROVE ToldSound(t, m)
      BY <1>3, <3>2 DEF ToldSound
    <3>8. ServerSound(t)
      <4>1. OpenNodes(t) = OpenNodes(s)
        BY <3>2 DEF OpenNodes
      <4> QED BY <1>1, <3>2, <3>4, <3>6, <3>7, <4>1 DEF ServerSound
    <3>9. OthersKept(s, t, n)
      BY <3>2, <3>4 DEF OthersKept
    <3> QED BY <3>2, <3>8, <3>9 DEF IsServer, t
  <2>4. CASE ~takes
    <3> DEFINE q == [s.queue EXCEPT ![n] = Tail(s.queue[n])]
               one == <<n[1], "client">>
               two == <<n[1], "remote">>
               u == CloseConnection(s, n)
    <3>1. t = CloseConnection([s EXCEPT !.queue = q], n)
      BY <1>1, <1>7, <2>1, <2>4 DEF OnSend, Fields, NQNetBufferQueue_isEmpty, NQNetBufferQueue_shift
    <3> HIDE DEF q, t
    <3>2. CloseNode([s EXCEPT !.queue = q], one) = [CloseNode(s, one) EXCEPT !.queue = q]
      BY <1>1, QueueAside
    <3>3. DOMAIN CloseNode(s, one) = Fields
      BY NodeCloses, Partners DEF IsServer
    <3>4. CloseNode([CloseNode(s, one) EXCEPT !.queue = q], two) = [CloseNode(CloseNode(s, one), two) EXCEPT !.queue = q]
      BY <3>3, QueueAside
    <3>5. t = [u EXCEPT !.queue = q]
      BY <3>1, <3>2, <3>4 DEF CloseConnection
    <3>6. IsServer(u) /\ OthersKept(s, u, n) /\ u.state[n] = "close" /\ u.queue = s.queue
      BY ConnectionCloses
    <3> HIDE DEF u
    <3>7. t = [u EXCEPT !.queue = [u.queue EXCEPT ![n] = Tail(s.queue[n])]]
      BY <3>5, <3>6 DEF q
    <3>8. IsServer(t) /\ t.state = u.state /\ \A m \in Nodes : m # n => t.queue[m] = s.queue[m]
      <4>1. Tail(s.queue[n]) \in Seq(Nat)
        BY <2>2
      <4> DEFINE x == Tail(s.queue[n])
                 v == [u EXCEPT !.queue = [u.queue EXCEPT ![n] = x]]
      <4>2. IsServer(u) /\ u.state[n] = "close" /\ u.queue = s.queue
        BY <3>6
      <4> HIDE DEF x
      <4>3. IsServer(v) /\ v.state = u.state /\ \A m \in Nodes : m # n => v.queue[m] = u.queue[m]
        BY <4>1, <4>2, ClosedQueue DEF x
      <4>4. v = t
        BY <3>7 DEF x
      <4> QED BY <4>2, <4>3, <4>4
    <3>9. OthersKept(s, t, n)
      BY <3>6, <3>8 DEF OthersKept
    <3> QED BY <3>8, <3>9 DEF t
  <2> QED BY <2>3, <2>4
<1> QED BY <1>2, <1>4, <1>5, <1>6, <1>7

(* Input: a buffer of the partner's is filled, unless all are used. *)
LEMMA RecvPasses ==
  ASSUME MaxConn \in Nat, NEW s, IsServer(s), NEW n \in Nodes, NEW brings
  PROVE  LET t == OnRecv(s, n, brings)
         IN IsServer(t) /\ OthersKept(s, t, n)
<1> DEFINE t == OnRecv(s, n, brings)
           p == PartnerOf(n)
           new == s.received[n] + 1
<1>1. ServerSound(s) /\ DOMAIN s = Fields
  BY DEF IsServer
<1>2. s.queue \in [Nodes -> Seq(Nat)] /\ s.taken \in [Nodes -> Seq(Nat)] /\ s.received \in [Nodes -> Nat]
  BY <1>1 DEF ServerSound
<1>3. ASSUME NEW m \in Nodes PROVE ToldSound(s, m) /\ PassedOn(s, m)
  BY <1>1 DEF ServerSound
<1>4. CASE s.state[n] # "open"
  BY <1>4 DEF OnRecv, OthersKept
<1>5. CASE s.state[n] = "open" /\ (AllUsed(s.queue[p]) \/ ~brings)
  BY <1>5, ConnectionCloses DEF OnRecv
<1>6. CASE s.state[n] = "open" /\ ~(AllUsed(s.queue[p]) \/ ~brings)
  <2>1. t = [[s EXCEPT !.received = [s.received EXCEPT ![n] = new]] EXCEPT !.queue = [s.queue EXCEPT ![p] = Append(s.queue[p], new)]]
    BY <1>1, <1>6 DEF OnRecv, Fields, NQNetBufferQueue_alloc
  <2>2. /\ DOMAIN t = Fields
        /\ t.received = [s.received EXCEPT ![n] = new] /\ t.queue = [s.queue EXCEPT ![p] = Append(s.queue[p], new)]
        /\ t.sockets = s.sockets /\ t.state = s.state /\ t.taken = s.taken /\ t.told = s.told /\ t.failed = s.failed
    BY <2>1, <1>1 DEF Fields
  <2> HIDE DEF t
  <2>3. p \in Nodes /\ p # n /\ PartnerOf(p) = n
    BY Partners
  <2> HIDE DEF p
  <2>4. new \in Nat /\ s.queue[p] \in Seq(Nat)
    BY <1>2, <2>3
  <2> DEFINE longer == Append(s.queue[p], new)
  <2>5. /\ longer \in Seq(Nat) /\ Len(longer) = Len(s.queue[p]) + 1 /\ Len(s.queue[p]) \in Nat
        /\ longer[Len(s.queue[p]) + 1] = new /\ \A i \in 1 .. Len(s.queue[p]) : longer[i] = s.queue[p][i]
    <3> HIDE DEF new
    <3> QED BY <2>4
  <2>6. t.queue = [s.queue EXCEPT ![p] = longer]
    BY <2>2
  <2> HIDE DEF longer
  <2>7. /\ t.received \in [Nodes -> Nat] /\ t.queue \in [Nodes -> Seq(Nat)]
        /\ t.received[n] = new /\ t.queue[p] = longer
        /\ \A m \in Nodes : (m # n => t.received[m] = s.received[m]) /\ (m # p => t.queue[m] = s.queue[m])
    <3>1. t.received \in [Nodes -> Nat] /\ t.received[n] = new /\ \A m \in Nodes : m # n => t.received[m] = s.received[m]
      BY <1>2, <2>2, <2>4
    <3>2. t.queue \in [Nodes -> Seq(Nat)] /\ t.queue[p] = longer /\ \A m \in Nodes : m # p => t.queue[m] = s.queue[m]
      BY <1>2, <2>3, <2>5, <2>6
    <3> QED BY <3>1, <3>2
  <2>8. longer # << >>
    BY <2>5
  <2>9. ASSUME NEW m \in Nodes PROVE ToldSound(t, m)
    BY <1>3, <2>2 DEF ToldSound
  <2>10. ASSUME NEW m \in Nodes PROVE PassedOn(t, m)
    <3>1. PassedOn(s, m) /\ t.state = s.state /\ t.taken = s.taken
      BY <1>3, <2>2
    <3>2. CASE m # p
      <4>1. PartnerOf(m) \in Nodes /\ PartnerOf(PartnerOf(m)) = m
        BY Partners
      <4>2. PartnerOf(m) # n
        BY <3>2, <4>1 DEF p
      <4>3. t.received[PartnerOf(m)] = s.received[PartnerOf(m)] /\ t.queue[m] = s.queue[m]
        BY <2>7, <3>2, <4>1, <4>2
      <4> QED BY <3>1, <4>3 DEF PassedOn
    <3>3. CASE m = p /\ s.state[p] # "close"
      <4> DEFINE L == Len(s.taken[p])
                 M == Len(s.queue[p])
      <4>1. L \in Nat /\ M \in Nat /\ L + M = s.received[n] /\ \A i \in 1 .. M : s.queue[p][i] = L + i
        <5>1. L \in Nat /\ M \in Nat
          <6>1. s.taken[p] \in Seq(Nat)
            BY <1>2, <2>3
          <6> QED BY <6>1, <2>5
        <5>2. PassedOn(s, p)
          BY <3>1, <3>3
        <5>3. L + M = s.received[PartnerOf(p)] /\ \A i \in 1 .. M : s.queue[p][i] = L + i
          BY <3>3, <5>2 DEF PassedOn
        <5> QED BY <2>3, <5>1, <5>3
      <4>2. Len(longer) = M + 1 /\ longer[M + 1] = new /\ \A i \in 1 .. M : longer[i] = s.queue[p][i]
        BY <2>5
      <4>3. new = L + (M + 1)
        <5>1. L \in Nat /\ M \in Nat /\ s.received[n] = L + M
          BY <4>1
        <5> HIDE DEF L, M
        <5> QED BY <5>1
      <4>4. \A i \in 1 .. Len(s.taken[p]) : s.taken[p][i] = i
        BY <3>1, <3>3 DEF PassedOn
      <4> HIDE DEF L, M
      <4>5. ASSUME NEW i \in 1 .. Len(longer) PROVE longer[i] = L + i
        <5>1. CASE i = M + 1
          BY <4>2, <4>3, <5>1
        <5>2. CASE i # M + 1
          <6>1. i \in 1 .. M
            BY <4>1, <4>2, <5>2
          <6> QED BY <4>1, <4>2, <6>1
        <5> QED BY <5>1, <5>2
      <4>6. L + Len(longer) = new
        BY <4>1, <4>2, <4>3
      <4>7. t.received[PartnerOf(m)] = new /\ t.queue[m] = longer /\ t.taken[m] = s.taken[p]
        BY <2>3, <2>7, <3>1, <3>3
      <4> HIDE DEF new
      <4> QED BY <3>3, <4>4, <4>5, <4>6, <4>7 DEF PassedOn, L
    <3>4. CASE m = p /\ s.state[p] = "close"
      BY <3>1, <3>4 DEF PassedOn
    <3> QED BY <3>2, <3>3, <3>4
  <2>11. OpenNodes(t) = OpenNodes(s)
    BY <2>2 DEF OpenNodes
  <2>12. ServerSound(t)
    BY <1>1, <2>2, <2>7, <2>9, <2>10, <2>11 DEF ServerSound
  <2>13. OthersKept(s, t, n)
    <3>1. ASSUME NEW m \in Nodes \ {n}, s.queue[m] # << >> PROVE t.queue[m] # << >>
      BY <2>7, <2>8, <3>1
    <3> QED BY <2>2, <3>1 DEF OthersKept
  <2> QED BY <2>2, <2>12, <2>13 DEF IsServer, t
<1> QED BY <1>4, <1>5, <1>6

(* All that a node's came do, one after the other. *)
LEMMA WorkKeeps ==
  ASSUME MaxConn \in Nat, NEW s, IsServer(s), NEW n \in Nodes, NEW came,
         "out" \in came => s.state[n] # "open" \/ s.queue[n] # << >>,
         NEW connects, NEW takes, NEW brings
  PROVE  LET s1 == IF "err" \in came THEN OnError(s, n) ELSE s
             s2 == IF "hup" \in came THEN OnClose(s1, n) ELSE s1
             s3 == IF "out" \in came THEN OnSend(s2, n, connects, takes) ELSE s2
             s4 == IF "in" \in came THEN OnRecv(s3, n, brings) ELSE s3
         IN IsServer(s4) /\ OthersKept(s, s4, n)
<1> DEFINE s1 == IF "err" \in came THEN OnError(s, n) ELSE s
           s2 == IF "hup" \in came THEN OnClose(s1, n) ELSE s1
           s3 == IF "out" \in came THEN OnSend(s2, n, connects, takes) ELSE s2
           s4 == IF "in" \in came THEN OnRecv(s3, n, brings) ELSE s3
<1>1. \A r : OthersKept(r, r, n)
  BY DEF OthersKept
<1>2. IsServer(s1) /\ OthersKept(s, s1, n) /\ s1.state[n] \in {s.state[n], "close"} /\ s1.queue = s.queue
  BY <1>1, ErrorCloses
<1> HIDE DEF s1
<1>3. IsServer(s2) /\ OthersKept(s1, s2, n) /\ s2.state[n] \in {s1.state[n], "close"} /\ s2.queue = s1.queue
  BY <1>1, <1>2, ErrorCloses DEF OnClose
<1> HIDE DEF s2
<1>4. "out" \in came => (s2.state[n] = "open" => s2.queue[n] # << >>)
  BY <1>2, <1>3
<1>5. IsServer(s3) /\ OthersKept(s2, s3, n)
  BY <1>1, <1>3, <1>4, SendPasses
<1> HIDE DEF s3
<1>6. IsServer(s4) /\ OthersKept(s3, s4, n)
  BY <1>1, <1>5, RecvPasses
<1> HIDE DEF s4
<1>7. OthersKept(s, s2, n)
  BY <1>2, <1>3, KeptIsKept
<1>8. OthersKept(s, s3, n)
  BY <1>5, <1>7, KeptIsKept
<1>9. OthersKept(s, s4, n)
  BY <1>6, <1>8, KeptIsKept
<1> QED BY <1>6, <1>9 DEF s1, s2, s3, s4

(* The lists, the nodes, and what is left of the batch. *)
SpyInv == ListsSound /\ ServerSound(Server) /\ PolledSound(batch, NodesOf(active))

(* The record of the server has the variables. *)
LEMMA ServerFields ==
  /\ DOMAIN Server = Fields
  /\ Server.state = state /\ Server.queue = queue /\ Server.received = received /\ Server.taken = taken
  /\ Server.told = told /\ Server.sockets = sockets /\ Server.failed = failed
  BY DEF Server, Fields

(* The server is as the record that a step computes. *)
LEMMA ServerMoves ==
  ASSUME NEW t, ServerSound(t),
         state' = t.state, queue' = t.queue, received' = t.received, taken' = t.taken,
         told' = t.told, sockets' = t.sockets, failed' = t.failed
  PROVE  ServerSound(Server)'
<1> DEFINE s == Server'
<1>1. /\ s.state = t.state /\ s.queue = t.queue /\ s.received = t.received /\ s.taken = t.taken
      /\ s.told = t.told /\ s.sockets = t.sockets /\ s.failed = t.failed
  BY DEF Server
<1> HIDE DEF s
<1>2. ASSUME NEW m \in Nodes PROVE ToldSound(s, m) /\ PassedOn(s, m)
  <2>1. ToldSound(t, m) /\ PassedOn(t, m)
    BY DEF ServerSound
  <2> QED BY <2>1, <1>1 DEF ToldSound, PassedOn
<1>3. OpenNodes(s) = OpenNodes(t)
  BY <1>1 DEF OpenNodes
<1>4. ServerSound(s)
  BY <1>1, <1>2, <1>3 DEF ServerSound
<1> QED BY <1>4 DEF s

(* The polled have their output, and stay in the list. *)
LEMMA PolledMoves ==
  ASSUME NEW polled, NEW nodes, PolledSound(polled, nodes), batch' = polled, nodes \subseteq NodesOf(active)',
         \A i \in 1 .. Len(polled) :
           "out" \in polled[i].events => state'[polled[i].node] # "open" \/ queue'[polled[i].node] # << >>
  PROVE  PolledSound(batch, NodesOf(active))'
<1>1. /\ polled \in Seq(PollType)
      /\ \A i, j \in 1 .. Len(polled) : polled[i].node = polled[j].node => i = j
      /\ \A i \in 1 .. Len(polled) : polled[i].node \in NodesOf(active)'
  BY DEF PolledSound
<1> QED BY <1>1 DEF PolledSound, HasOutput, PollType, Nodes, Conns, Sides

(* Steps of the phase and of the counters move nothing else. *)
LEMMA NothingMoves ==
  ASSUME SpyInv, UNCHANGED <<active, free, state, queue, batch, received, taken, told, sockets, failed>>
  PROVE  SpyInv'
<1>1. ListsSound'
  BY DEF SpyInv, ListsSound, Closed, Conns, Sides
<1>2. ServerSound(Server)'
  BY ServerMoves, ServerFields DEF SpyInv
<1>3. PolledSound(batch, NodesOf(active))'
  <2>1. NodesOf(active)' = NodesOf(active)
    BY DEF NodesOf, Nodes, Conns, Sides
  <2>2. \A i \in 1 .. Len(batch) : "out" \in batch[i].events => state'[batch[i].node] # "open" \/ queue'[batch[i].node] # << >>
    BY DEF SpyInv, PolledSound, HasOutput
  <2> QED BY <2>1, <2>2, PolledMoves DEF SpyInv
<1> QED BY <1>1, <1>2, <1>3 DEF SpyInv

(* At first all connections are free and closed. *)
LEMMA SpyStarts ==
  ASSUME MaxConn \in Nat, SpyInit
  PROVE  SpyInv
<1> USE DEF SpyInit
<1>1. active \in Seq(Conns) /\ Len(active) = 0 /\ DOMAIN active = {} /\ ToSet(active) = {} /\ IsInjective(active)
  <2>1. active \in Seq(Conns) /\ Len(active) = 0 /\ DOMAIN active = {}
    OBVIOUS
  <2> QED BY <2>1 DEF ToSet, IsInjective
<1>2. free \in Seq(Conns) /\ Len(free) = MaxConn /\ DOMAIN free = 1 .. MaxConn /\ \A k \in 1 .. MaxConn : free[k] = MaxConn + 1 - k
  BY DEF Conns
<1>3. IsInjective(free)
  BY <1>2 DEF IsInjective
<1>4. ToSet(free) = Conns
  <2>1. ASSUME NEW c \in Conns PROVE c \in ToSet(free)
    <3>1. MaxConn + 1 - c \in 1 .. MaxConn /\ free[MaxConn + 1 - c] = c
      BY <1>2 DEF Conns
    <3> QED BY <3>1, <1>2, MemberOf
  <2>2. ToSet(free) \subseteq Conns
    BY <1>2, MemberOf
  <2> QED BY <2>1, <2>2
<1>5. \A n \in Nodes : state[n] = "close" /\ queue[n] = << >> /\ received[n] = 0 /\ taken[n] = << >> /\ told[n] = << >>
  BY DEF NQNetBufferQueue_init
<1>6. ListsSound
  <2>1. \A c \in Conns : Closed(c)
    BY <1>5 DEF Closed, Nodes
  <2> HIDE DEF SpyInit
  <2>2. ToSet(active) \cap ToSet(free) = {} /\ ToSet(active) \cup ToSet(free) = Conns /\ Len(active) + Len(free) = MaxConn
    BY <1>1, <1>2, <1>4
  <2> QED BY <1>1, <1>2, <1>3, <1>4, <2>1, <2>2 DEF ListsSound
<1>7. ServerSound(Server)
  <2>1. OpenNodes(Server) = {}
    BY <1>5, ServerFields DEF OpenNodes
  <2>2. sockets = Cardinality(OpenNodes(Server))
    BY <2>1, FS_EmptySet
  <2>3. /\ state \in [Nodes -> {"close", "init", "open"}]
        /\ queue \in [Nodes -> Seq(Nat)] /\ taken \in [Nodes -> Seq(Nat)] /\ received \in [Nodes -> Nat]
        /\ told \in [Nodes -> Seq({"connect", "close"})]
    BY DEF NQNetBufferQueue_init
  <2>4. Len(<< >>) = 0
    OBVIOUS
  <2>5. ASSUME NEW n \in Nodes PROVE ToldSound(Server, n) /\ PassedOn(Server, n)
    BY <1>5, <2>4, ServerFields DEF ToldSound, PassedOn
  <2> QED BY <2>2, <2>3, <2>5, ServerFields DEF ServerSound
<1>8. PolledSound(batch, NodesOf(active))
  <2>1. batch \in Seq(PollType) /\ Len(batch) = 0
    OBVIOUS
  <2> QED BY <2>1 DEF PolledSound
<1> QED BY <1>6, <1>7, <1>8 DEF SpyInv

(* A round begins: what was closed is free. *)
LEMMA PollKeeps ==
  ASSUME MaxConn \in Nat, SpyInv, PollAll
  PROVE  SpyInv'
<1> DEFINE k == Len(active)
           seen == Visited[k]
<1>1. ListsSound /\ ServerSound(Server)
  BY DEF SpyInv
<1>2. NodeStates
  BY <1>1, ServerFields DEF NodeStates, ServerSound
<1>3. VisitedSound(seen, k)
  BY <1>1, <1>2, AllVisited
<1>4. /\ active' = seen.active /\ free' = seen.free /\ batch' = seen.polled
      /\ state' = state /\ queue' = queue /\ received' = received /\ taken' = taken /\ told' = told
      /\ sockets' = sockets /\ failed' = failed
  BY DEF PollAll
<1> HIDE DEF seen
<1>5. /\ seen.active \in Seq(Conns) /\ seen.free \in Seq(Conns)
      /\ IsInjective(seen.active) /\ IsInjective(seen.free)
      /\ ToSet(seen.active) = {c \in ToSet(active) : ~Closed(c)}
      /\ ToSet(seen.free) = ToSet(free) \cup {c \in ToSet(active) : Closed(c)}
      /\ Len(seen.active) + Len(seen.free) = Len(active) + Len(free)
      /\ PolledSound(seen.polled, NodesOf(seen.active))
  <2>1. active \in Seq(Conns) /\ Len(active) \in Nat
    BY <1>1 DEF ListsSound
  <2>2. Seen(k) = ToSet(active)
    BY <2>1, MemberOf DEF Seen
  <2> QED BY <1>3, <2>2 DEF VisitedSound
<1>6. \A c : Closed(c)' <=> Closed(c)
  BY <1>4 DEF Closed, Sides
<1>7. ListsSound'
  <2>1. active' \in Seq(Conns) /\ free' \in Seq(Conns) /\ IsInjective(active') /\ IsInjective(free')
    BY <1>4, <1>5
  <2>2. ToSet(active') \cap ToSet(free') = {} /\ ToSet(active') \cup ToSet(free') = Conns
    BY <1>1, <1>4, <1>5 DEF ListsSound
  <2>3. Len(active') + Len(free') = MaxConn
    BY <1>1, <1>4, <1>5 DEF ListsSound
  <2>4. \A c \in ToSet(free') : Closed(c)'
    BY <1>1, <1>4, <1>5, <1>6 DEF ListsSound
  <2> QED BY <2>1, <2>2, <2>3, <2>4 DEF ListsSound, Conns
<1>8. ServerSound(Server)'
  BY <1>1, <1>4, ServerMoves, ServerFields
<1>9. PolledSound(batch, NodesOf(active))'
  <2>1. NodesOf(seen.active) = NodesOf(active)'
    BY <1>4 DEF NodesOf, Nodes, Conns, Sides
  <2>2. \A i \in 1 .. Len(seen.polled) : "out" \in seen.polled[i].events => state'[seen.polled[i].node] # "open" \/ queue'[seen.polled[i].node] # << >>
    BY <1>4, <1>5 DEF PolledSound, HasOutput
  <2> QED BY <1>4, <1>5, <2>1, <2>2, PolledMoves
<1> QED BY <1>7, <1>8, <1>9 DEF SpyInv

(* The next of the batch. *)
LEMMA WorkStep ==
  ASSUME MaxConn \in Nat, SpyInv, NEW came, NEW connects, NEW takes, NEW brings, Work(came, connects, takes, brings)
  PROVE  SpyInv'
<1> DEFINE p == Head(batch)
           n == p.node
           s1 == IF "err" \in came THEN OnError(Server, n) ELSE Server
           s2 == IF "hup" \in came THEN OnClose(s1, n) ELSE s1
           s3 == IF "out" \in came THEN OnSend(s2, n, connects, takes) ELSE s2
           s4 == IF "in" \in came THEN OnRecv(s3, n, brings) ELSE s3
<1>1. ListsSound /\ ServerSound(Server) /\ PolledSound(batch, NodesOf(active))
  BY DEF SpyInv
<1>2. /\ batch # << >> /\ came \cap {"in", "out"} \subseteq p.events
      /\ state' = s4.state /\ queue' = s4.queue /\ received' = s4.received /\ taken' = s4.taken
      /\ told' = s4.told /\ sockets' = s4.sockets /\ failed' = s4.failed
      /\ batch' = Tail(batch) /\ active' = active /\ free' = free
  BY DEF Work
<1>3. /\ batch \in Seq(PollType) /\ Len(batch) \in Nat /\ Len(batch) > 0 /\ p = batch[1]
      /\ Tail(batch) \in Seq(PollType) /\ Len(Tail(batch)) = Len(batch) - 1
      /\ \A i \in 1 .. Len(batch) - 1 : Tail(batch)[i] = batch[i + 1]
  <2>1. batch \in Seq(PollType)
    BY <1>1 DEF PolledSound
  <2> QED BY <2>1, <1>2
<1>4. p \in PollType /\ HasOutput(p) /\ n \in Nodes
  <2>1. 1 \in 1 .. Len(batch)
    BY <1>3
  <2>2. batch[1] \in PollType /\ HasOutput(batch[1])
    BY <1>1, <1>3, <2>1 DEF PolledSound
  <2>3. p \in PollType /\ HasOutput(p)
    BY <1>3, <2>2
  <2> QED BY <2>3 DEF PollType
<1> HIDE DEF p
<1>5. "out" \in came => Server.state[n] # "open" \/ Server.queue[n] # << >>
  BY <1>2, <1>4, ServerFields DEF HasOutput
<1>6. IsServer(Server)
  BY <1>1, ServerFields DEF IsServer
<1>7. IsServer(s4) /\ OthersKept(Server, s4, n)
  BY <1>4, <1>5, <1>6, WorkKeeps
<1> HIDE DEF s4
<1>8. ServerSound(Server)'
  BY <1>2, <1>7, ServerMoves DEF IsServer
<1>9. /\ \A m \in Nodes : state[m] = "close" => state'[m] = "close"
      /\ \A m \in Nodes \ {n} : state'[m] \in {state[m], "close"} /\ (queue[m] # << >> => queue'[m] # << >>)
  BY <1>2, <1>7, ServerFields DEF OthersKept
<1>10. ListsSound'
  <2>1. ASSUME NEW c \in ToSet(free) PROVE Closed(c)'
    <3>1. c \in Conns /\ Closed(c)
      BY <1>1 DEF ListsSound
    <3> QED BY <3>1, <1>9 DEF Closed, Nodes
  <2> QED BY <1>1, <1>2, <2>1 DEF ListsSound, Conns
<1>11. PolledSound(batch, NodesOf(active))'
  <2> DEFINE rest == Tail(batch)
             nodes == NodesOf(active)
  <2>1. rest \in Seq(PollType) /\ Len(rest) = Len(batch) - 1 /\ \A i \in 1 .. Len(rest) : rest[i] = batch[i + 1]
    BY <1>3
  <2> HIDE DEF rest, nodes
  <2>2. PolledSound(batch, nodes)
    BY <1>1 DEF nodes
  <2>3. \A i \in 1 .. Len(rest) : i + 1 \in 1 .. Len(batch) /\ i + 1 # 1
    BY <1>3, <2>1
  <2>4. \A i, j \in 1 .. Len(rest) : rest[i].node = rest[j].node => i = j
    <3>1. ASSUME NEW i \in 1 .. Len(rest), NEW j \in 1 .. Len(rest), rest[i].node = rest[j].node PROVE i = j
      <4>1. batch[i + 1].node = batch[j + 1].node /\ i + 1 \in 1 .. Len(batch) /\ j + 1 \in 1 .. Len(batch)
        BY <2>1, <2>3, <3>1
      <4>2. i + 1 = j + 1
        BY <4>1, <2>2 DEF PolledSound
      <4> QED BY <4>2, <2>1
    <3> QED BY <3>1
  <2>5. ASSUME NEW i \in 1 .. Len(rest)
        PROVE  rest[i].node \in nodes /\ rest[i].node # n /\ HasOutput(rest[i]) /\ rest[i].node \in Nodes
    <3>1. i + 1 \in 1 .. Len(batch) /\ rest[i] = batch[i + 1] /\ 1 \in 1 .. Len(batch) /\ i + 1 # 1
      BY <1>3, <2>1, <2>3
    <3>2. batch[i + 1].node # batch[1].node
      BY <2>2, <3>1 DEF PolledSound
    <3>3. batch[i + 1] \in PollType
      BY <1>3, <3>1
    <3>4. batch[i + 1].node \in nodes /\ HasOutput(batch[i + 1])
      BY <2>2, <3>1 DEF PolledSound
    <3> QED BY <1>3, <3>1, <3>2, <3>3, <3>4 DEF PollType
  <2>6. PolledSound(rest, nodes)
    BY <2>1, <2>4, <2>5 DEF PolledSound
  <2>7. \A i \in 1 .. Len(rest) : "out" \in rest[i].events => state'[rest[i].node] # "open" \/ queue'[rest[i].node] # << >>
    BY <1>9, <2>5 DEF HasOutput
  <2>8. nodes = NodesOf(active)'
    BY <1>2 DEF nodes, NodesOf, Nodes, Conns, Sides
  <2>9. batch' = rest
    BY <1>2 DEF rest
  <2> QED BY <2>6, <2>7, <2>8, <2>9, PolledMoves
<1> QED BY <1>8, <1>10, <1>11 DEF SpyInv

(* A connection takes the first of the free ones: nothing is left of what it was. *)
LEMMA AcceptKeeps ==
  ASSUME MaxConn \in Nat, SpyInv, NEW how \in {"open", "init"}, Accept(how)
  PROVE  SpyInv'
<1> DEFINE c == Head(free)
           one == <<c, "client">>
           two == <<c, "remote">>
<1>1. ListsSound /\ ServerSound(Server) /\ PolledSound(batch, NodesOf(active))
  BY DEF SpyInv
<1>2. /\ free # << >> /\ active' = <<c>> \o active /\ free' = Tail(free)
      /\ sockets' = sockets + 2 /\ batch' = batch /\ failed' = failed
  BY DEF Accept
<1>3. /\ c \in Conns /\ c \in ToSet(free) /\ c \notin ToSet(active) /\ Closed(c)
      /\ free' \in Seq(Conns) /\ IsInjective(free') /\ c \notin ToSet(free') /\ ToSet(free) = ToSet(free') \cup {c}
      /\ Len(free') = Len(free) - 1 /\ Len(free) \in Nat
  <2>1. free \in Seq(Conns) /\ IsInjective(free)
    BY <1>1 DEF ListsSound
  <2>2. c \in Conns /\ c \in ToSet(free) /\ free' \in Seq(Conns) /\ IsInjective(free') /\ c \notin ToSet(free') /\ ToSet(free) = ToSet(free') \cup {c}
    BY <1>2, <2>1, TailList
  <2>3. Len(free') = Len(free) - 1 /\ Len(free) \in Nat
    BY <1>2, <2>1
  <2>4. c \notin ToSet(active) /\ Closed(c)
    BY <1>1, <2>2 DEF ListsSound
  <2> QED BY <2>2, <2>3, <2>4
<1>4. /\ state' = [n \in Nodes |-> IF n[1] # c THEN state[n] ELSE IF n[2] = "client" THEN "open" ELSE how]
      /\ queue' = [n \in Nodes |-> IF n[1] = c THEN << >> ELSE queue[n]]
      /\ received' = [n \in Nodes |-> IF n[1] = c THEN 0 ELSE received[n]]
      /\ taken' = [n \in Nodes |-> IF n[1] = c THEN << >> ELSE taken[n]]
      /\ told' = [n \in Nodes |-> IF n[1] # c THEN told[n] ELSE IF state'[n] = "open" THEN <<"connect">> ELSE << >>]
  BY DEF Accept, NQNetBufferQueue_init
<1> HIDE DEF c
<1>5. /\ state \in [Nodes -> {"close", "init", "open"}]
      /\ queue \in [Nodes -> Seq(Nat)] /\ taken \in [Nodes -> Seq(Nat)] /\ received \in [Nodes -> Nat]
      /\ told \in [Nodes -> Seq({"connect", "close"})] /\ sockets = Cardinality(OpenNodes(Server)) /\ failed = FALSE
  BY <1>1, ServerFields DEF ServerSound
<1>6. ASSUME NEW n \in Nodes, n[1] # c
      PROVE  /\ state'[n] = state[n] /\ queue'[n] = queue[n] /\ received'[n] = received[n]
             /\ taken'[n] = taken[n] /\ told'[n] = told[n]
  BY <1>4, <1>6
<1>7. ASSUME NEW n \in Nodes, n[1] = c
      PROVE  /\ state'[n] = IF n[2] = "client" THEN "open" ELSE how
             /\ queue'[n] = << >> /\ received'[n] = 0 /\ taken'[n] = << >>
             /\ told'[n] = IF state'[n] = "open" THEN <<"connect">> ELSE << >>
  BY <1>4, <1>7
<1>8. ListsSound'
  <2>1. active \in Seq(Conns) /\ IsInjective(active)
    BY <1>1 DEF ListsSound
  <2>2. /\ active' \in Seq(Conns) /\ IsInjective(active') /\ ToSet(active') = ToSet(active) \cup {c}
        /\ Len(active') = Len(active) + 1 /\ Len(active) \in Nat
    BY <1>2, <1>3, <2>1, PrependList
  <2>3. ASSUME NEW d \in ToSet(free') PROVE Closed(d)'
    <3>1. d \in Conns /\ d # c /\ Closed(d)
      BY <1>1, <1>3 DEF ListsSound
    <3>2. \A side \in Sides : <<d, side>> \in Nodes /\ <<d, side>>[1] # c
      BY <3>1 DEF Nodes
    <3> QED BY <1>6, <3>1, <3>2 DEF Closed
  <2>4. Len(active') + Len(free') = MaxConn
    <3> DEFINE A == Len(active)
               F == Len(free)
    <3>1. A + F = MaxConn /\ A \in Nat /\ F \in Nat /\ Len(active') = A + 1 /\ Len(free') = F - 1
      BY <1>1, <1>3, <2>2 DEF ListsSound
    <3> HIDE DEF A, F
    <3> QED BY <3>1
  <2>5. ToSet(active') \cap ToSet(free') = {} /\ ToSet(active') \cup ToSet(free') = Conns
    BY <1>1, <1>3, <2>2 DEF ListsSound
  <2> QED BY <1>3, <2>2, <2>3, <2>4, <2>5 DEF ListsSound, Conns
<1>9. ServerSound(Server)'
  <2> DEFINE t == Server'
  <2>1. /\ t.state = state' /\ t.queue = queue' /\ t.received = received' /\ t.taken = taken'
        /\ t.told = told' /\ t.sockets = sockets' /\ t.failed = failed'
    BY DEF Server
  <2> HIDE DEF t
  <2>2. state' \in [Nodes -> {"close", "init", "open"}]
    BY <1>4, <1>5
  <2>3. queue' \in [Nodes -> Seq(Nat)]
    BY <1>4, <1>5
  <2>4. received' \in [Nodes -> Nat] /\ taken' \in [Nodes -> Seq(Nat)]
    BY <1>4, <1>5
  <2>5. told' \in [Nodes -> Seq({"connect", "close"})]
    <3>1. << >> \in Seq({"connect", "close"}) /\ <<"connect">> \in Seq({"connect", "close"})
      OBVIOUS
    <3> QED BY <3>1, <1>4, <1>5
  <2>6. sockets' = Cardinality(OpenNodes(t))
    <3> DEFINE open == OpenNodes(Server)
    <3>1. IsFiniteSet(open)
      BY NodesFinite, FS_Subset DEF OpenNodes
    <3>2. one \in Nodes /\ two \in Nodes /\ one # two /\ one \notin open /\ two \notin open
      BY <1>3, ServerFields DEF Nodes, Sides, OpenNodes, Closed
    <3>3. ASSUME NEW n \in Nodes PROVE n[1] = c <=> n = one \/ n = two
      BY <3>3 DEF Nodes, Sides
    <3>4. \A n \in Nodes : t.state[n] # "close" <=> n \in open \/ n = one \/ n = two
      <4>1. ASSUME NEW n \in Nodes, n[1] = c PROVE t.state[n] # "close"
        BY <1>7, <2>1, <4>1
      <4>2. ASSUME NEW n \in Nodes, n[1] # c PROVE t.state[n] # "close" <=> n \in open
        BY <1>6, <2>1, <4>2, ServerFields DEF OpenNodes
      <4> QED BY <3>3, <4>1, <4>2
    <3>5. OpenNodes(t) = (open \cup {one}) \cup {two}
      BY <3>2, <3>4 DEF OpenNodes
    <3> HIDE DEF open
    <3>6. IsFiniteSet(open \cup {one}) /\ Cardinality(open \cup {one}) = Cardinality(open) + 1
      BY <3>1, <3>2, FS_AddElement
    <3>7. Cardinality((open \cup {one}) \cup {two}) = Cardinality(open \cup {one}) + 1
      BY <3>2, <3>6, FS_AddElement
    <3>8. Cardinality(open) \in Nat
      BY <3>1, FS_CardinalityType
    <3> QED BY <1>2, <1>5, <3>5, <3>6, <3>7, <3>8 DEF open
  <2>7. ASSUME NEW n \in Nodes PROVE ToldSound(t, n) /\ PassedOn(t, n)
    <3>1. PartnerOf(n) \in Nodes /\ PartnerOf(n)[1] = n[1]
      BY Partners DEF PartnerOf
    <3>2. CASE n[1] # c
      <4>1. ToldSound(Server, n) /\ PassedOn(Server, n)
        BY <1>1 DEF ServerSound
      <4>2. /\ t.state[n] = Server.state[n] /\ t.queue[n] = Server.queue[n] /\ t.told[n] = Server.told[n]
            /\ t.taken[n] = Server.taken[n] /\ t.received[PartnerOf(n)] = Server.received[PartnerOf(n)]
        BY <1>6, <2>1, <3>1, <3>2, ServerFields
      <4>3. ToldSound(t, n)
        BY <4>1, <4>2 DEF ToldSound
      <4>4. PassedOn(t, n)
        BY <4>1, <4>2 DEF PassedOn
      <4> QED BY <4>3, <4>4
    <3>3. CASE n[1] = c
      <4>1. /\ t.state[n] = (IF n[2] = "client" THEN "open" ELSE how) /\ t.queue[n] = << >> /\ t.taken[n] = << >>
            /\ t.told[n] = (IF t.state[n] = "open" THEN <<"connect">> ELSE << >>)
            /\ t.received[PartnerOf(n)] = 0
        BY <1>7, <2>1, <3>1, <3>3
      <4>2. n[2] = "client" \/ n[2] = "remote"
        BY DEF Nodes, Sides
      <4>3. Len(<< >>) = 0
        OBVIOUS
      <4>4. PassedOn(t, n)
        BY <4>1, <4>3 DEF PassedOn
      <4>5. ToldSound(t, n)
        BY <4>1, <4>2 DEF ToldSound
      <4> QED BY <4>4, <4>5
    <3> QED BY <3>2, <3>3
  <2>8. ServerSound(t)
    BY <1>2, <1>5, <2>1, <2>2, <2>3, <2>4, <2>5, <2>6, <2>7 DEF ServerSound
  <2> QED BY <2>8 DEF t
<1>10. PolledSound(batch, NodesOf(active))'
  <2> DEFINE nodes == NodesOf(active)
  <2>1. ToSet(active) \subseteq ToSet(active')
    <3>1. active \in Seq(Conns)
      BY <1>1 DEF ListsSound
    <3> QED BY <1>2, <1>3, <3>1, PrependList
  <2>2. nodes \subseteq NodesOf(active)'
    BY <2>1 DEF NodesOf, Nodes, Conns, Sides
  <2>3. ASSUME NEW n \in nodes PROVE state'[n] = state[n] /\ queue'[n] = queue[n]
    <3>1. n \in Nodes /\ n[1] # c
      BY <1>3, <2>3 DEF NodesOf
    <3> QED BY <1>6, <3>1
  <2>4. PolledSound(batch, nodes)
    BY <1>1
  <2> HIDE DEF nodes
  <2>5. \A i \in 1 .. Len(batch) : "out" \in batch[i].events => state'[batch[i].node] # "open" \/ queue'[batch[i].node] # << >>
    BY <2>3, <2>4 DEF PolledSound, HasOutput
  <2> QED BY <1>2, <2>2, <2>4, <2>5, PolledMoves
<1> QED BY <1>8, <1>9, <1>10 DEF SpyInv

(* The invariant says of every place what the properties say of the whole. *)
LEMMA InvAccounts ==
  ASSUME MaxConn \in Nat, SpyInv
  PROVE  ConnectionsAccounted /\ SpyForwards
<1>1. ListsSound /\ ServerSound(Server)
  BY DEF SpyInv
<1>2. Range(active) = ToSet(active) /\ Range(free) = ToSet(free)
  BY DEF Range, ToSet
<1>3. Cardinality(Conns) = MaxConn
  BY FS_Interval DEF Conns
<1>4. OpenNodes(Server) = {n \in Nodes : state[n] # "close"}
  BY ServerFields DEF OpenNodes
<1>5. ConnectionsAccounted
  <2>1. sockets = Cardinality({n \in Nodes : state[n] # "close"}) /\ ~failed
    BY <1>1, <1>4, ServerFields DEF ServerSound
  <2> QED BY <1>1, <1>2, <1>3, <2>1 DEF ListsSound, ConnectionsAccounted
<1>6. ASSUME NEW n \in Nodes
      PROVE  /\ \A i \in DOMAIN taken[n] : taken[n][i] = i
             /\ state[n] # "close" => taken[n] \o queue[n] = [i \in 1 .. received[PartnerOf(n)] |-> i]
             /\ \/ told[n] \in {<< >>, <<"connect">>, <<"connect", "close">>}
                \/ n[2] = "remote" /\ told[n] = <<"close">>
             /\ (state[n] = "open") = (told[n] = <<"connect">>)
  <2>1. ToldSound(Server, n) /\ PassedOn(Server, n)
    BY <1>1 DEF ServerSound
  <2>2. /\ taken[n] \in Seq(Nat) /\ queue[n] \in Seq(Nat) /\ received[PartnerOf(n)] \in Nat
        /\ state[n] \in {"close", "init", "open"}
    BY <1>1, Partners, ServerFields DEF ServerSound
  <2>3. \A i \in DOMAIN taken[n] : taken[n][i] = i
    BY <2>1, <2>2, ServerFields DEF PassedOn
  <2>4. ASSUME state[n] # "close" PROVE taken[n] \o queue[n] = [i \in 1 .. received[PartnerOf(n)] |-> i]
    <3> DEFINE s == taken[n] \o queue[n]
               r == received[PartnerOf(n)]
               t == [i \in 1 .. r |-> i]
               L == Len(taken[n])
               M == Len(queue[n])
    <3>1. L + M = r /\ \A i \in 1 .. M : queue[n][i] = L + i
      BY <2>1, <2>4, ServerFields DEF PassedOn
    <3>2. /\ s \in Seq(Nat) /\ Len(s) = L + M /\ L \in Nat /\ M \in Nat
          /\ \A i \in 1 .. L : s[i] = taken[n][i]
          /\ \A j \in 1 .. M : s[L + j] = queue[n][j]
      <4> DEFINE a == taken[n]
                 b == queue[n]
      <4>1. a \in Seq(Nat) /\ b \in Seq(Nat)
        BY <2>2
      <4> HIDE DEF a, b
      <4>2. /\ a \o b \in Seq(Nat) /\ Len(a \o b) = Len(a) + Len(b) /\ Len(a) \in Nat /\ Len(b) \in Nat
            /\ \A i \in 1 .. Len(a) : (a \o b)[i] = a[i]
            /\ \A j \in 1 .. Len(b) : (a \o b)[Len(a) + j] = b[j]
        BY <4>1
      <4> QED BY <4>2 DEF a, b
    <3>3. t \in Seq(Nat) /\ Len(t) = r
      BY <2>2
    <3>4. \A i \in 1 .. L : taken[n][i] = i
      BY <2>1, ServerFields DEF PassedOn
    <3>5. ASSUME NEW i \in 1 .. L + M PROVE s[i] = i
      <4> HIDE DEF s, L, M
      <4>1. CASE i <= L
        BY <3>2, <3>4, <4>1
      <4>2. CASE i > L
        <5> DEFINE j == i - L
        <5>1. j \in 1 .. M /\ L + j = i
          BY <3>2, <4>2
        <5> QED BY <3>1, <3>2, <5>1
      <4> QED BY <3>2, <4>1, <4>2
    <3>6. \A i \in 1 .. r : t[i] = i
      OBVIOUS
    <3> HIDE DEF s, t
    <3>7. s = t
      BY <3>1, <3>2, <3>3, <3>5, <3>6, SeqEqual
    <3> QED BY <3>7 DEF s, t
  <2>5. << >> # <<"connect">> /\ <<"connect", "close">> # <<"connect">> /\ <<"close">> # <<"connect">>
    OBVIOUS
  <2>6. (state[n] = "open") = (told[n] = <<"connect">>)
    BY <2>1, <2>2, <2>5, ServerFields DEF ToldSound
  <2>7. \/ told[n] \in {<< >>, <<"connect">>, <<"connect", "close">>}
        \/ n[2] = "remote" /\ told[n] = <<"close">>
    BY <2>1, <2>2, ServerFields DEF ToldSound
  <2> QED BY <2>3, <2>4, <2>6, <2>7
<1>7. SpyForwards
  BY <1>6 DEF SpyForwards
<1> QED BY <1>5, <1>7

(* Whatever the sockets do, a step keeps the invariant. *)
LEMMA SpySteps ==
  ASSUME MaxConn \in Nat, SpyInv, [SpyNext]_spyVars
  PROVE  SpyInv'
<1>1. CASE PollAll
  BY <1>1, PollKeeps
<1>2. CASE Stop \/ NobodyComes \/ Refuse \/ NextRound
  BY <1>2, NothingMoves DEF Stop, NobodyComes, Refuse, NextRound
<1>3. ASSUME NEW how \in {"open", "init"}, Accept(how) PROVE SpyInv'
  BY <1>3, AcceptKeeps
<1>4. ASSUME NEW came, NEW connects, NEW takes, NEW brings, Work(came, connects, takes, brings) PROVE SpyInv'
  BY <1>4, WorkStep
<1>5. CASE UNCHANGED spyVars
  BY <1>5, NothingMoves DEF spyVars
<1> QED BY <1>1, <1>2, <1>3, <1>4, <1>5 DEF SpyNext

(* For any number of connections, buffers and data: what a side sent reaches the other
   in order until a close cuts it off, no connection is lost or in two places, no socket
   is leaked, an output event finds output. (SpyServer.c: NQSpyServer_perform.) *)
THEOREM SpyServerIsSound ==
  ASSUME MaxConn \in Nat
  PROVE  SpySpec => [](ConnectionsAccounted /\ SpyForwards)
<1>1. SpyInit => SpyInv
  BY SpyStarts
<1>2. SpyInv /\ [SpyNext]_spyVars => SpyInv'
  BY SpySteps
<1>3. SpyInv => ConnectionsAccounted /\ SpyForwards
  BY InvAccounts
<1> QED BY <1>1, <1>2, <1>3, PTL DEF SpySpec
=============================================================================
