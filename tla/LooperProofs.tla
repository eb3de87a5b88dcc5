---------------------------- MODULE LooperProofs ----------------------------
(***************************************************************************)
(* What the main loop promises, for any number of threads, sources, timers *)
(* and pieces of work, any timing and any order of calls: it is not put to *)
(* sleep with work it has not been told of or past its first timer, its    *)
(* table of sources is sound, and everything given to it runs and is       *)
(* released as often as was promised.                                      *)
(***************************************************************************)
EXTENDS Looper, TimerQueueProofs

-----------------------------------------------------------------------------
(* Where the loop is, and what is left in its hands there. *)
InCallback == pc \in {"handle", "destroy"}
WhereInv ==
  /\ NothingLeftOver
  /\ ~InCallback => cur = Nothing
  /\ pc \in {"timers", "message"} => batch = 0
  /\ InCallback => /\ cur.kind # "none"
                   /\ ~IsWork(cur) => batch = 0
  /\ pc = "destroy" => cur.destroy

Registration ==
  [kind : {"timer", "inline", "call", "callAndWait", "stop"}, id : Identifiers,
   due : Int, every : Int, destroy : BOOLEAN, ran : 0 .. 3, freed : 0 .. 3,
   finished : BOOLEAN, stopped : {"no", "refused", "loop", "thread"}]
BookOK == book \in Seq(Registration) /\ Len(book) <= MaxReg

LoopInv == LooperTypeOK /\ BookOK /\ TimerInv /\ SizeCounts /\ WhereInv

-----------------------------------------------------------------------------
(* Who is to run and to release each registration. *)

\* An active entry is the timer its registration knows it as.
EntryOwner ==
  \A i \in Positions : entry[i].active =>
    LET u == entry[i].data.u IN
    /\ u \in DOMAIN book
    /\ book[u].kind = "timer" /\ book[u].id = IdOf(i)
    /\ book[u].stopped = "no" /\ book[u].freed = 0
    /\ book[u].destroy = entry[i].data.destroy
    /\ book[u].every = IF entry[i].isInterval THEN entry[i].timeout ELSE 0
    /\ ~entry[i].isInterval => book[u].ran = 0

\* A timer's identifier is that of its entry, or of an earlier use of it.
IdentifierKnown ==
  \A u \in DOMAIN book : book[u].kind = "timer" =>
    LET i == book[u].id[2] IN
    \/ book[u].stopped = "refused" /\ book[u].id = Invalid
    \/ book[u].id[1] < entry[i].gen
    \/ entry[i].active /\ entry[i].data.u = u
GenerationsUsed ==
  \A i \in Positions : entry[i].gen + (IF entry[i].active THEN 1 ELSE 0) <= Len(book)

WorkOwner ==
  /\ \A k \in DOMAIN workList :
       LET u == workList[k].u IN
       /\ u \in DOMAIN book
       /\ book[u].kind = workList[k].kind /\ book[u].destroy = workList[k].destroy
       /\ book[u].stopped = "no" /\ book[u].ran = 0 /\ book[u].freed = 0
       /\ ~book[u].finished
  /\ \A j, k \in DOMAIN workList : workList[j].u = workList[k].u => j = k

\* The callback in hand has run once, and is released where it says so.
CurOwner ==
  InCallback /\ (IsWork(cur) \/ cur.destroy) =>
    /\ cur.u \in DOMAIN book
    /\ book[cur.u].kind = cur.kind /\ book[cur.u].destroy = cur.destroy
    /\ book[cur.u].stopped = "no" /\ book[cur.u].ran = 1
    /\ book[cur.u].freed = IF pc = "destroy" THEN 1 ELSE 0
    /\ cur.kind = "timer" => book[cur.u].every = 0
    /\ IsWork(cur) => ~book[cur.u].finished

\* A thread that has stopped a timer is to release it; one that waits has pushed.
OpOwner ==
  /\ \A a \in Actors : op[a].k = "destroy" =>
       LET u == op[a].u IN
       /\ u \in DOMAIN book
       /\ book[u].kind = "timer" /\ book[u].stopped \in {"loop", "thread"}
       /\ book[u].freed = 0 /\ book[u].destroy
  /\ \A a, b \in Actors :
       op[a].k = "destroy" /\ op[b].k = "destroy" /\ op[a].u = op[b].u => a = b
  /\ \A a \in Actors : op[a].k = "wait" \/ (op[a].k = "wake" /\ op[a].u # 0) =>
       op[a].u \in DOMAIN book /\ book[op[a].u].kind = "callAndWait"

FinishedLast ==
  \A u \in DOMAIN book : book[u].kind = "callAndWait" /\ book[u].finished =>
    book[u].ran = 1 /\ book[u].freed = IF book[u].destroy THEN 1 ELSE 0

OwnInv == /\ EntryOwner /\ IdentifierKnown /\ GenerationsUsed /\ WorkOwner
          /\ CurOwner /\ OpOwner /\ FinishedLast /\ ReleasedOnce

\* Whoever holds u is to release it.
Holds(u) ==
  \/ \E i \in Positions : entry[i].active /\ entry[i].data.u = u
  \/ \E k \in DOMAIN workList : workList[k].u = u
  \/ \E a \in Actors : op[a].k = "destroy" /\ op[a].u = u
  \/ pc = "handle" /\ cur.kind # "source" /\ cur.destroy /\ cur.u = u
HeldOrFreed ==
  pc # "crashed" => \A u \in DOMAIN book :
    book[u].destroy /\ ~(book[u].kind = "timer" /\ book[u].stopped = "refused")
      => book[u].freed = 1 \/ Holds(u)
LoopIsOver ==
  /\ pc \in {"final", "gone", "crashed"} => \A a \in Actors : op[a].k \in {"idle", "wait"}
  /\ pc = "gone" => activeList = <<>> /\ workList = <<>>
ReleaseInv == HeldOrFreed /\ LoopIsOver

\* A timer is due one period after it was, as long as the book counts.
DueInv ==
  /\ poolTime <= clock
  /\ \A i \in Positions : entry[i].active =>
       LET b == book[entry[i].data.u] IN
       b.ran < 3 => entry[i].timePoint = b.due + b.ran * b.every

-----------------------------------------------------------------------------
(* The steps of Next, one by one. *)
WorkKinds == {"call", "callAndWait", "stop"}
Enqueues == \E a \in Actors, kind \in WorkKinds, d \in BOOLEAN :
  CanCall(a, kind) /\ Enqueue(a, kind, d) /\ (kind = "callAndWait" => a # Loop)
Inline == \E d \in BOOLEAN : CallAndWaitInline(d)
StartsTimer == \E a \in Actors, delay \in Delays, isInterval \in BOOLEAN, d \in BOOLEAN :
  CallTimer(a, delay, isInterval, d)
StopsTimer == \E a \in Actors, u \in DOMAIN book : ClearTimer(a, u)
Attaches == \E a \in Actors, s \in Sources : Attach(a, s)
Detaches == \E a \in Actors, s \in Sources : Detach(a, s)
Continues == \E a \in Actors : Continue(a)
Inputs == \E s \in Sources : Input(s)

LEMMA NextSteps ==
  ASSUME [Next]_vars
  PROVE  \/ LoopStep \/ Finalizing \/ Tick \/ Signal \/ SelectError \/ Inputs
         \/ Enqueues \/ Inline \/ StartsTimer \/ StopsTimer \/ Attaches \/ Detaches
         \/ Continues \/ UNCHANGED vars
<1>0. Destroys \subseteq BOOLEAN /\ IntervalsToo \subseteq BOOLEAN
  BY LooperAssumption
<1>1. CASE UNCHANGED vars
  BY <1>1
<1>2. CASE LoopStep \/ Finalizing \/ Environment
  BY <1>2 DEF Environment, Inputs
<1>3. ASSUME NEW a \in Actors, CallOf(a)
      PROVE  Enqueues \/ StartsTimer \/ StopsTimer \/ Attaches \/ Detaches
  <2>1. ASSUME NEW d \in Destroys, Call(a, d) \/ CallAndWait(a, d) PROVE Enqueues
    BY <2>1, <1>0 DEF Enqueues, Call, CallAndWait, WorkKinds
  <2>2. CASE Stop(a)
    BY <2>2 DEF Enqueues, Stop, WorkKinds
  <2>3. ASSUME NEW delay \in Delays, NEW isInterval \in IntervalsToo, NEW d \in Destroys,
               CallTimer(a, delay, isInterval, d)
        PROVE  StartsTimer
    BY <2>3, <1>0 DEF StartsTimer
  <2>4. ASSUME NEW u \in DOMAIN book, ClearTimer(a, u) PROVE StopsTimer
    BY <2>4 DEF StopsTimer
  <2>5. ASSUME NEW s \in Sources, Attach(a, s) \/ Detach(a, s) PROVE Attaches \/ Detaches
    BY <2>5 DEF Attaches, Detaches
  <2> QED BY <1>3, <2>1, <2>2, <2>3, <2>4, <2>5 DEF CallOf
<1>4. ASSUME NEW a \in Actors, Continue(a) PROVE Continues
  BY <1>4 DEF Continues
<1>5. ASSUME NEW d \in Destroys, CallAndWaitInline(d) PROVE Inline
  BY <1>5, <1>0 DEF Inline
<1> QED BY <1>1, <1>2, <1>3, <1>4, <1>5 DEF Next

(* Which steps change the timers. *)
LEMMA NextTimersMove ==
  ASSUME [Next]_vars
  PROVE  FireTimer \/ FinalizeTimer \/ StartsTimer \/ StopsTimer \/ UNCHANGED timerVars
<1>1. CASE LoopStep
  BY <1>1 DEF LoopStep, Check, FillFDSet, SelectReady, SelectTimeout, ReadEvents, NoTimerDue,
     TakeWakeup, NextWork, WorkDone, CallSource, NoMessage, HandlerReturns, DestroyReturns
<1>2. CASE Finalizing
  BY <1>2 DEF Finalizing, Finalize, FinalizeWork, Finalized
<1>3. CASE Tick \/ Signal \/ SelectError \/ Inputs
  BY <1>3 DEF Tick, Signal, SelectError, Inputs, Input
<1>4. CASE Enqueues \/ Inline \/ Attaches \/ Detaches \/ Continues
  BY <1>4 DEF Enqueues, Enqueue, Inline, CallAndWaitInline, Attaches, Attach, Detaches, Detach,
     Continues, Continue, Wake, WaitReturns, DestroyStopped
<1> QED BY <1>1, <1>2, <1>3, <1>4, NextSteps DEF vars

(* Which steps change the queue of work. *)
LEMMA NextWorkMoves ==
  ASSUME [Next]_vars
  PROVE  Enqueues \/ TakeWakeup \/ NextWork \/ FinalizeWork \/ UNCHANGED dispatchVars
<1>1. CASE LoopStep
  BY <1>1 DEF LoopStep, Check, FillFDSet, SelectReady, SelectTimeout, ReadEvents, NoTimerDue,
     FireTimer, WorkDone, CallSource, NoMessage, HandlerReturns, DestroyReturns
<1>2. CASE Finalizing
  BY <1>2 DEF Finalizing, Finalize, FinalizeTimer, Finalized
<1>3. CASE Tick \/ Signal \/ SelectError \/ Inputs
  BY <1>3 DEF Tick, Signal, SelectError, Inputs, Input
<1>4. CASE StartsTimer \/ StopsTimer \/ Inline \/ Attaches \/ Detaches \/ Continues
  BY <1>4 DEF StartsTimer, CallTimer, StopsTimer, ClearTimer, Inline, CallAndWaitInline, Attaches,
     Attach, Detaches, Detach, Continues, Continue, Wake, WaitReturns, DestroyStopped
<1> QED BY <1>1, <1>2, <1>3, <1>4, NextSteps DEF vars

(* Callers and the environment leave the loop where it is. *)
Outside == \/ Tick \/ Signal \/ Inputs \/ Enqueues \/ Inline \/ StartsTimer \/ StopsTimer
           \/ Attaches \/ Detaches \/ Continues \/ UNCHANGED vars
LEMMA OutsideKeeps ==
  ASSUME Outside
  PROVE  UNCHANGED loopVars
<1>1. CASE Tick \/ Signal \/ Inputs \/ UNCHANGED vars
  BY <1>1 DEF Tick, Signal, Inputs, Input, vars
<1>2. CASE StartsTimer \/ StopsTimer \/ Inline \/ Attaches \/ Detaches \/ Continues
  BY <1>2 DEF StartsTimer, CallTimer, StopsTimer, ClearTimer, Inline, CallAndWaitInline, Attaches,
     Attach, Detaches, Detach, Continues, Continue, Wake, WaitReturns, DestroyStopped
<1>3. CASE Enqueues
  BY <1>3 DEF Enqueues, Enqueue
<1> QED BY <1>1, <1>2, <1>3 DEF Outside

-----------------------------------------------------------------------------
(* What the steps do to the book. *)
LEMMA BookDomain ==
  ASSUME BookOK
  PROVE  /\ DOMAIN book = 1 .. Len(book) /\ Len(book) \in Nat /\ Len(book) <= MaxReg
         /\ \A u \in DOMAIN book : book[u] \in Registration
BY DEF BookOK

\* The fields that never change.
Fixed(r, s) == /\ r.kind = s.kind /\ r.id = s.id /\ r.due = s.due
               /\ r.every = s.every /\ r.destroy = s.destroy

LEMMA RanField ==
  ASSUME NEW r \in Registration, NEW x \in 0 .. 3
  PROVE  LET q == [r EXCEPT !.ran = x] IN
         /\ q \in Registration /\ Fixed(q, r) /\ q.ran = x /\ q.freed = r.freed
         /\ q.finished = r.finished /\ q.stopped = r.stopped
BY Zenon DEF Registration, Fixed

LEMMA FreedField ==
  ASSUME NEW r \in Registration, NEW x \in 0 .. 3
  PROVE  LET q == [r EXCEPT !.freed = x] IN
         /\ q \in Registration /\ Fixed(q, r) /\ q.ran = r.ran /\ q.freed = x
         /\ q.finished = r.finished /\ q.stopped = r.stopped
BY Zenon DEF Registration, Fixed

LEMMA FinishedField ==
  ASSUME NEW r \in Registration
  PROVE  LET q == [r EXCEPT !.finished = TRUE] IN
         /\ q \in Registration /\ Fixed(q, r) /\ q.ran = r.ran /\ q.freed = r.freed
         /\ q.finished /\ q.stopped = r.stopped
BY Zenon DEF Registration, Fixed

LEMMA StoppedField ==
  ASSUME NEW r \in Registration, NEW s \in {"no", "refused", "loop", "thread"}
  PROVE  LET q == [r EXCEPT !.stopped = s] IN
         /\ q \in Registration /\ Fixed(q, r) /\ q.ran = r.ran /\ q.freed = r.freed
         /\ q.finished = r.finished /\ q.stopped = s
BY Zenon DEF Registration, Fixed

LEMMA BumpCounts ==
  ASSUME NEW n \in 0 .. 3
  PROVE  Bump(n) \in 0 .. 3 /\ (n < 3 => Bump(n) = n + 1) /\ (n = 3 => Bump(n) = n)
BY DEF Bump

LEMMA BookSet ==
  ASSUME BookOK, NEW u \in DOMAIN book, NEW r \in Registration,
         book' = [book EXCEPT ![u] = r]
  PROVE  /\ BookOK' /\ DOMAIN book' = DOMAIN book /\ Len(book') = Len(book)
         /\ \A v \in DOMAIN book : book'[v] = IF v = u THEN r ELSE book[v]
BY DEF BookOK

LEMMA BookRan ==
  ASSUME BookOK, NEW u \in DOMAIN book, book' = Ran(u)
  PROVE  /\ BookOK' /\ DOMAIN book' = DOMAIN book /\ Len(book') = Len(book)
         /\ \A v \in DOMAIN book :
              /\ Fixed(book'[v], book[v]) /\ book'[v].freed = book[v].freed
              /\ book'[v].finished = book[v].finished /\ book'[v].stopped = book[v].stopped
              /\ book'[v].ran = IF v = u THEN Bump(book[v].ran) ELSE book[v].ran
              /\ v # u => book'[v] = book[v]
<1> DEFINE x == Bump(book[u].ran)
           r == [book[u] EXCEPT !.ran = x]
<1>1. book' = [book EXCEPT ![u] = r]
  BY DEF Ran
<1>2. book[u] \in Registration /\ x \in 0 .. 3
  <2> HIDE DEF r
  <2>1. book[u] \in Registration
    BY BookDomain
  <2>2. book[u].ran \in 0 .. 3
    BY <2>1 DEF Registration
  <2> QED BY <2>1, <2>2, BumpCounts
<1> HIDE DEF x
<1>3. /\ r \in Registration /\ Fixed(r, book[u]) /\ r.freed = book[u].freed
      /\ r.finished = book[u].finished /\ r.stopped = book[u].stopped /\ r.ran = x
  BY <1>2, RanField
<1> HIDE DEF r
<1>4. /\ BookOK' /\ DOMAIN book' = DOMAIN book /\ Len(book') = Len(book)
      /\ \A v \in DOMAIN book : book'[v] = IF v = u THEN r ELSE book[v]
  BY <1>1, <1>3, BookSet
<1>5. \A v : Fixed(book[v], book[v])
  BY DEF Fixed
<1> QED BY <1>3, <1>4, <1>5 DEF x

LEMMA BookFreed ==
  ASSUME BookOK, NEW u \in DOMAIN book, book' = Freed(u)
  PROVE  /\ BookOK' /\ DOMAIN book' = DOMAIN book /\ Len(book') = Len(book)
         /\ \A v \in DOMAIN book :
              /\ Fixed(book'[v], book[v]) /\ book'[v].ran = book[v].ran
              /\ book'[v].finished = book[v].finished /\ book'[v].stopped = book[v].stopped
              /\ book'[v].freed = IF v = u THEN Bump(book[v].freed) ELSE book[v].freed
              /\ v # u => book'[v] = book[v]
<1> DEFINE x == Bump(book[u].freed)
           r == [book[u] EXCEPT !.freed = x]
<1>1. book' = [book EXCEPT ![u] = r]
  BY DEF Freed
<1>2. book[u] \in Registration /\ x \in 0 .. 3
  <2> HIDE DEF r
  <2>1. book[u] \in Registration
    BY BookDomain
  <2>2. book[u].freed \in 0 .. 3
    BY <2>1 DEF Registration
  <2> QED BY <2>1, <2>2, BumpCounts
<1> HIDE DEF x
<1>3. /\ r \in Registration /\ Fixed(r, book[u]) /\ r.ran = book[u].ran
      /\ r.finished = book[u].finished /\ r.stopped = book[u].stopped /\ r.freed = x
  BY <1>2, FreedField
<1> HIDE DEF r
<1>4. /\ BookOK' /\ DOMAIN book' = DOMAIN book /\ Len(book') = Len(book)
      /\ \A v \in DOMAIN book : book'[v] = IF v = u THEN r ELSE book[v]
  BY <1>1, <1>3, BookSet
<1>5. \A v : Fixed(book[v], book[v])
  BY DEF Fixed
<1> QED BY <1>3, <1>4, <1>5 DEF x

LEMMA BookFinished ==
  ASSUME BookOK, NEW u \in DOMAIN book, book' = [book EXCEPT ![u].finished = TRUE]
  PROVE  /\ BookOK' /\ DOMAIN book' = DOMAIN book /\ Len(book') = Len(book)
         /\ \A v \in DOMAIN book :
              /\ Fixed(book'[v], book[v]) /\ book'[v].ran = book[v].ran
              /\ book'[v].freed = book[v].freed /\ book'[v].stopped = book[v].stopped
              /\ v = u => book'[v].finished
              /\ v # u => book'[v] = book[v]
<1> DEFINE r == [book[u] EXCEPT !.finished = TRUE]
<1>1. book' = [book EXCEPT ![u] = r]
  OBVIOUS
<1>2. /\ r \in Registration /\ Fixed(r, book[u]) /\ r.ran = book[u].ran
      /\ r.freed = book[u].freed /\ r.stopped = book[u].stopped /\ r.finished
  <2>1. book[u] \in Registration
    BY BookDomain
  <2> QED BY <2>1, FinishedField
<1> HIDE DEF r
<1>3. /\ BookOK' /\ DOMAIN book' = DOMAIN book /\ Len(book') = Len(book)
      /\ \A v \in DOMAIN book : book'[v] = IF v = u THEN r ELSE book[v]
  BY <1>1, <1>2, BookSet
<1>4. \A v : Fixed(book[v], book[v])
  BY DEF Fixed
<1> QED BY <1>2, <1>3, <1>4

LEMMA BookStopped ==
  ASSUME BookOK, NEW u \in DOMAIN book, NEW s \in {"loop", "thread"}, book' = [book EXCEPT ![u].stopped = s]
  PROVE  /\ BookOK' /\ DOMAIN book' = DOMAIN book /\ Len(book') = Len(book)
         /\ \A v \in DOMAIN book :
              /\ Fixed(book'[v], book[v]) /\ book'[v].ran = book[v].ran
              /\ book'[v].freed = book[v].freed /\ book'[v].finished = book[v].finished
              /\ v = u => book'[v].stopped = s
              /\ v # u => book'[v] = book[v]
<1> DEFINE r == [book[u] EXCEPT !.stopped = s]
<1>1. book' = [book EXCEPT ![u] = r]
  OBVIOUS
<1>2. /\ r \in Registration /\ Fixed(r, book[u]) /\ r.ran = book[u].ran
      /\ r.freed = book[u].freed /\ r.finished = book[u].finished /\ r.stopped = s
  <2>1. book[u] \in Registration
    BY BookDomain
  <2>2. s \in {"no", "refused", "loop", "thread"}
    OBVIOUS
  <2> QED BY <2>1, <2>2, StoppedField
<1> HIDE DEF r
<1>3. /\ BookOK' /\ DOMAIN book' = DOMAIN book /\ Len(book') = Len(book)
      /\ \A v \in DOMAIN book : book'[v] = IF v = u THEN r ELSE book[v]
  BY <1>1, <1>2, BookSet
<1>4. \A v : Fixed(book[v], book[v])
  BY DEF Fixed
<1> QED BY <1>2, <1>3, <1>4

LEMMA BookGrown ==
  ASSUME BookOK, CanRegister, NEW r \in Registration, book' = Append(book, r)
  PROVE  /\ BookOK' /\ DOMAIN book' = DOMAIN book \cup {Len(book) + 1}
         /\ Len(book) + 1 \notin DOMAIN book /\ Len(book') = Len(book) + 1
         /\ book'[Len(book) + 1] = r
         /\ \A u \in DOMAIN book : book'[u] = book[u]
<1>1. book \in Seq(Registration) /\ Len(book) < MaxReg /\ Len(book) \in Nat
      /\ DOMAIN book = 1 .. Len(book) /\ MaxReg \in Nat
  BY BookDomain, LooperAssumption DEF BookOK, CanRegister
<1> QED BY <1>1 DEF BookOK

-----------------------------------------------------------------------------
(* Timers. *)
LEMMA TimerInvKept ==
  ASSUME TimerInv, UNCHANGED timerVars
  PROVE  TimerInv'
BY DEF TimerInv, TimerTypeOK, EachInOneList, Ordered, PeriodsPositive, timerVars

\* A timer is started, for the time that was read before the mutex was taken.
DataOf(d) == [u |-> Len(book) + 1, destroy |-> d]
NewTimer(delay, isInterval, d, now) ==
  [[New("timer", d) EXCEPT !.every = IF isInterval THEN delay ELSE 0]
     EXCEPT !.id = IdOf(Head(freeList)), !.due = now + delay]
Started(a, delay, isInterval, d, now) ==
  /\ StartTimer(isInterval, now, delay, DataOf(d))
  /\ op' = [op EXCEPT ![a] =
       IF SleepChanged(Timeout(now), Timeout(now)') THEN ToWake ELSE Idle]
  /\ book' = Append(book, NewTimer(delay, isInterval, d, now))

LEMMA TimerStarts ==
  ASSUME LoopInv, NEW a, NEW delay \in Delays, NEW isInterval \in BOOLEAN, NEW d \in BOOLEAN,
         CallTimer(a, delay, isInterval, d), ~UNCHANGED timerVars
  PROVE  /\ DataOf(d) \in Data /\ delay \in Int
         /\ \E now \in Nat : /\ now \in {clock - 1, clock}
                            /\ Started(a, delay, isInterval, d, now)
<1>1. Len(book) < MaxReg /\ Len(book) \in Nat
  BY DEF CallTimer, CanRegister, LoopInv, BookOK
<1>2. DataOf(d) \in Data
  BY <1>1, LooperAssumption DEF DataOf
<1>3. delay \in Int
  BY TimesAssumption
<1>4. PICK now \in {clock - 1, clock} \cap Nat :
        Started(a, delay, isInterval, d, now) \/ UNCHANGED <<timerVars, op>>
  BY DEF CallTimer, Started, DataOf, NewTimer
<1> QED BY <1>2, <1>3, <1>4

LEMMA NextTimers ==
  ASSUME LoopInv, [Next]_vars
  PROVE  TimerInv'
<1>0. TimerInv
  BY DEF LoopInv
<1>1. CASE UNCHANGED timerVars
  BY <1>0, <1>1, TimerInvKept
<1>2. CASE FireTimer
  <2>1. ShiftTimer(poolTime) /\ poolTime \in Int
    BY <1>2 DEF FireTimer, LoopInv, LooperTypeOK
  <2> QED BY <2>1, <1>0, ShiftInv
<1>3. CASE FinalizeTimer
  BY <1>0, <1>3, DrainInv DEF FinalizeTimer
<1>4. CASE StartsTimer /\ ~UNCHANGED timerVars
  <2>1. PICK a \in Actors, delay \in Delays, isInterval \in BOOLEAN, d \in BOOLEAN :
          CallTimer(a, delay, isInterval, d)
    BY <1>4 DEF StartsTimer
  <2>2. DataOf(d) \in Data /\ delay \in Int
    BY <1>4, <2>1, TimerStarts
  <2>3. PICK now \in Nat : Started(a, delay, isInterval, d, now)
    BY <1>4, <2>1, TimerStarts
  <2>4. StartTimer(isInterval, now, delay, DataOf(d))
    BY <2>3 DEF Started
  <2> QED BY <2>2, <2>4, <1>0, StartInv
<1>5. CASE StopsTimer
  <2>1. PICK a \in Actors, u \in DOMAIN book : ClearTimer(a, u)
    BY <1>5 DEF StopsTimer
  <2>2. book[u].id \in Identifiers
    BY BookDomain DEF LoopInv, Registration
  <2>3. StopTimer(book[u].id)
    BY <2>1 DEF ClearTimer
  <2> QED BY <2>2, <2>3, <1>0, StopInv
<1> QED BY <1>1, <1>2, <1>3, <1>4, <1>5, NextTimersMove

-----------------------------------------------------------------------------
(* The queue of work, and types. *)
WorkItem == [kind : WorkKinds, u : 1 .. MaxReg, destroy : BOOLEAN]
Callback == [kind : {"none", "timer", "source", "call", "callAndWait", "stop"},
             u : 0 .. MaxReg, destroy : BOOLEAN]
Loops == {"check", "fill", "select", "events", "timers", "message", "work",
          "handle", "destroy", "left", "final", "gone", "crashed"}
Pending == [k : {"idle", "wake", "wait", "destroy"}, u : 0 .. MaxReg]

WorkTypes == /\ workList \in Seq(WorkItem) /\ size = Len(workList)
             /\ total \in Nat /\ freeCount \in Nat
WhereTypes == pc \in Loops /\ cur \in Callback /\ batch \in Nat
OpTypes == wakes \in 0 .. WakeMax /\ op \in [Actors -> Pending]
TimeTypes == /\ clock \in Nat /\ poolTime \in Nat /\ deadline \in Nat \cup {-1}
             /\ stopLoop \in BOOLEAN /\ s_stopLoop \in BOOLEAN /\ hasWakeup \in BOOLEAN
SourceTypes == /\ sources \in Seq(Sources) /\ performSources \in Seq(Sources)
               /\ wanted \subseteq Sources /\ readable \subseteq Sources
               /\ fdSet \subseteq Sources \cup {WakeupFd}

LEMMA Types ==
  LooperTypeOK /\ SizeCounts <=>
    TimerTypeOK /\ WorkTypes /\ WhereTypes /\ OpTypes /\ TimeTypes /\ SourceTypes
<1>1. \A w \in Seq(WorkItem) : Len(w) \in Nat
  OBVIOUS
<1>2. WorkItem = [kind : {"call", "callAndWait", "stop"}, u : 1 .. MaxReg, destroy : BOOLEAN]
  BY DEF WorkItem, WorkKinds
<1> HIDE DEF WorkItem
<1>3. {stopLoop, s_stopLoop, hasWakeup} \subseteq BOOLEAN <=>
        stopLoop \in BOOLEAN /\ s_stopLoop \in BOOLEAN /\ hasWakeup \in BOOLEAN
  BY Zenon
<1> QED BY <1>1, <1>2, <1>3 DEF LooperTypeOK, SizeCounts, WorkTypes, WhereTypes, OpTypes, TimeTypes,
        SourceTypes, Callback, Loops, Pending

\* What taking the first piece of work off the queue leaves.
LEMMA Shifted ==
  ASSUME WorkTypes, Shift
  PROVE  /\ WorkTypes' /\ workList # <<>> /\ Head(workList) \in WorkItem
         /\ Len(workList) > 0 /\ Len(workList') = Len(workList) - 1
         /\ DOMAIN workList = 1 .. Len(workList) /\ DOMAIN workList' = 1 .. Len(workList) - 1
         /\ Head(workList) = workList[1]
         /\ \A k \in 1 .. Len(workList) - 1 : workList'[k] = workList[k + 1]
<1>1. workList # <<>> /\ workList' = Tail(workList) /\ size' = size - 1
      /\ UNCHANGED <<freeCount, total>>
  BY DEF Shift, Rest
<1> HIDE DEF WorkItem
<1> QED BY <1>1 DEF WorkTypes

LEMMA Pushed ==
  ASSUME WorkTypes, NEW w \in WorkItem, Push(w)
  PROVE  /\ WorkTypes' /\ Len(workList') = Len(workList) + 1
         /\ DOMAIN workList = 1 .. Len(workList) /\ DOMAIN workList' = 1 .. Len(workList) + 1
         /\ workList'[Len(workList) + 1] = w
         /\ \A k \in 1 .. Len(workList) : workList'[k] = workList[k]
<1>1. /\ workList' = Append(workList, w) /\ size' = size + 1
      /\ IF freeCount = 0 THEN total' = total + 1 /\ UNCHANGED freeCount
                          ELSE freeCount' = freeCount - 1 /\ UNCHANGED total
  BY DEF Push, Queued
<1> HIDE DEF WorkItem
<1>2. workList' \in Seq(WorkItem) /\ Len(workList') = Len(workList) + 1 /\ Len(workList) \in Nat
  BY <1>1 DEF WorkTypes
<1>3. total' \in Nat /\ freeCount' \in Nat
  BY <1>1 DEF WorkTypes
<1> QED BY <1>1, <1>2, <1>3 DEF WorkTypes

\* What is pushed is a piece of work of the next registration.
LEMMA PushedItem ==
  ASSUME BookOK, CanRegister, NEW kind \in WorkKinds, NEW d \in BOOLEAN
  PROVE  Item(kind, Len(book) + 1, d) \in WorkItem
BY BookDomain, LooperAssumption DEF CanRegister, Item, WorkItem

LEMMA NextWorkTypes ==
  ASSUME LoopInv, [Next]_vars
  PROVE  WorkTypes'
<1>0. WorkTypes /\ BookOK
  BY Types DEF LoopInv
<1>1. CASE UNCHANGED dispatchVars
  BY <1>0, <1>1 DEF WorkTypes, dispatchVars
<1>2. CASE TakeWakeup \/ NextWork \/ FinalizeWork
  <2>1. UNCHANGED dispatchVars \/ Shift
    BY <1>2 DEF TakeWakeup, NextWork, FinalizeWork, Begin
  <2> QED BY <2>1, <1>0, <1>1, Shifted
<1>3. CASE Enqueues
  <2>1. PICK a \in Actors, kind \in WorkKinds, d \in BOOLEAN : Enqueue(a, kind, d)
    BY <1>3 DEF Enqueues
  <2>2. CanRegister /\ (UNCHANGED dispatchVars \/ Push(Item(kind, Len(book) + 1, d)))
    BY <2>1 DEF Enqueue
  <2> QED BY <2>2, <1>0, <1>1, Pushed, PushedItem
<1> QED BY <1>1, <1>2, <1>3, NextWorkMoves

LEMMA WorkItemFields ==
  ASSUME NEW w \in WorkItem
  PROVE  w \in Callback /\ IsWork(w) /\ w.kind # "none" /\ w.u \in 1 .. MaxReg
BY DEF WorkItem, WorkKinds, Callback, IsWork

\* What the timer that fires leaves in the loop's hands.
LEMMA FiredItem ==
  ASSUME LoopInv, FireTimer
  PROVE  /\ Head(activeList) \in Positions /\ entry[Head(activeList)].active
         /\ activeList # <<>> /\ entry[Head(activeList)] \in Entries
         /\ entry[Head(activeList)].data.u \in 1 .. MaxReg
         /\ entry[Head(activeList)].data.destroy \in BOOLEAN
         /\ cur' = Item("timer", entry[Head(activeList)].data.u,
                        ReleasedAfter(entry[Head(activeList)]))
         /\ cur' \in Callback /\ cur'.kind = "timer"
<1> DEFINE i == Head(activeList)
<1>1. TimerInv /\ activeList # <<>>
  BY DEF LoopInv, FireTimer, ShiftTimer, Due
<1>2. i \in ToSet(activeList) /\ i \in Positions
  BY <1>1, FirstTaken
<1>3. entry[i] \in Entries /\ entry[i].active
  BY <1>1, <1>2 DEF TimerInv, TimerTypeOK, EachInOneList
<1>4. entry[i].data \in [u : 1 .. MaxReg, destroy : BOOLEAN] /\ entry[i].isInterval \in BOOLEAN
  BY <1>3, LooperAssumption DEF Entries
<1>5. entry[i].data.u \in 1 .. MaxReg /\ entry[i].data.destroy \in BOOLEAN
  BY <1>4
<1> DEFINE d == ReleasedAfter(entry[i])
<1>6. d \in BOOLEAN
  BY <1>4, <1>5 DEF ReleasedAfter
<1>7. cur' = Item("timer", entry[i].data.u, d)
  BY DEF FireTimer
<1> HIDE DEF i, d
<1>8. cur' \in Callback /\ cur'.kind = "timer"
  BY <1>5, <1>6, <1>7, LooperAssumption DEF Item, Callback
<1> QED BY <1>1, <1>2, <1>3, <1>5, <1>7, <1>8 DEF i, d

LEMMA NextWhere ==
  ASSUME LoopInv, [Next]_vars
  PROVE  WhereTypes' /\ WhereInv'
<1>0. WhereTypes /\ WhereInv /\ WorkTypes /\ size \in Nat
  BY Types DEF LoopInv, LooperTypeOK
<1>1. CASE UNCHANGED <<pc, cur, batch, hasWakeup, performSources>>
  BY <1>0, <1>1 DEF WhereTypes, WhereInv, NothingLeftOver, InCallback, Nothing, IsWork
<1>2. CASE Outside
  BY <1>1, <1>2, OutsideKeeps DEF loopVars, runVars, selectVars
<1>3. CASE Check \/ FillFDSet \/ SelectReady \/ SelectTimeout \/ SelectError \/ NoMessage
           \/ NoTimerDue
  BY <1>0, <1>3 DEF Check, FillFDSet, SelectReady, SelectTimeout, SelectError, NoMessage, AllHandled,
     NoTimerDue, runVars, selectVars, WhereTypes, Loops, WhereInv, NothingLeftOver, InCallback, IsWork
<1>4. CASE ReadEvents
  BY <1>0, <1>4 DEF ReadEvents, runVars, WhereTypes, Loops, WhereInv, NothingLeftOver, InCallback, IsWork
<1>5. CASE FireTimer
  <2>1. cur' \in Callback /\ cur'.kind = "timer"
    BY <1>5, FiredItem
  <2>2. pc = "timers" /\ pc' = "handle" /\ UNCHANGED batch
    BY <1>5 DEF FireTimer
  <2> QED BY <1>0, <2>1, <2>2 DEF WhereTypes, Loops, WhereInv, NothingLeftOver, InCallback, IsWork
<1>6. CASE (TakeWakeup /\ size # 0) \/ NextWork
  <2>1. /\ Shift /\ cur' = Head(workList) /\ pc' = "handle"
        /\ \/ batch' = size - 1 /\ size # 0
           \/ batch' = batch - 1 /\ batch > 0
    BY <1>6 DEF TakeWakeup, NextWork, Begin, BatchSize
  <2>2. Head(workList) \in WorkItem
    BY <2>1, <1>0, Shifted
  <2>3. cur' \in Callback /\ IsWork(cur)' /\ cur'.kind # "none"
    BY <2>1, <2>2, WorkItemFields DEF IsWork
  <2>4. batch' \in Nat
    BY <2>1, <1>0 DEF WhereTypes
  <2> QED BY <2>1, <2>3, <2>4 DEF WhereTypes, Loops, WhereInv, NothingLeftOver, InCallback
<1>7. CASE TakeWakeup /\ size = 0
  BY <1>0, <1>7 DEF TakeWakeup, WhereTypes, WhereInv, NothingLeftOver, InCallback, Nothing, IsWork
<1>8. CASE WorkDone
  BY <1>0, <1>8 DEF WorkDone, WhereTypes, Loops, WhereInv, NothingLeftOver, InCallback, Nothing, IsWork
<1>9. CASE CallSource
  <2>1. cur' = Item("source", 0, FALSE) /\ pc = "message" /\ pc' = "handle" /\ UNCHANGED batch
    BY <1>9 DEF CallSource
  <2>2. cur' \in Callback
    BY <2>1, LooperAssumption DEF Callback, Item
  <2> QED BY <1>0, <2>1, <2>2 DEF WhereTypes, Loops, WhereInv, NothingLeftOver, InCallback, Item, IsWork
<1>10. CASE HandlerReturns \/ DestroyReturns
  <2>1. UNCHANGED batch /\ pc \in {"handle", "destroy"}
        /\ \/ pc' = "destroy" /\ UNCHANGED cur /\ cur.destroy
           \/ pc' = After(cur) /\ cur' = Nothing
    BY <1>10 DEF HandlerReturns, DestroyReturns, Return
  <2>2. Nothing \in Callback
    BY LooperAssumption DEF Nothing, Callback
  <2>3. /\ After(cur) \in {"timers", "work", "message"}
        /\ After(cur) \in {"timers", "message"} => batch = 0
    <3>1. cur.kind \in {"timer", "source", "call", "callAndWait", "stop"}
      BY <2>1, <1>0 DEF WhereTypes, WhereInv, InCallback, Callback
    <3> QED BY <3>1, <2>1, <1>0 DEF After, IsWork, WhereInv, InCallback
  <2> QED BY <1>0, <2>1, <2>2, <2>3 DEF WhereTypes, Loops, WhereInv, NothingLeftOver, InCallback, IsWork
<1>11. CASE Finalizing
  <2>1. /\ UNCHANGED <<cur, batch>> /\ pc \in {"left", "final"}
        /\ pc' \in {"left", "final", "crashed", "gone"}
    BY <1>11 DEF Finalizing, Finalize, FinalizeTimer, FinalizeWork, Finalized, NothingToRelease,
       loopVars, runVars
  <2> QED BY <1>0, <2>1 DEF WhereTypes, Loops, WhereInv, NothingLeftOver, InCallback
<1> QED BY <1>2, <1>3, <1>4, <1>5, <1>6, <1>7, <1>8, <1>9, <1>10, <1>11, NextSteps
        DEF LoopStep, Outside

-----------------------------------------------------------------------------
(* The sources that are ready are some of those attached.  Selected goes       *)
(* through the table: there is one function that does, and its values are      *)
(* lists of sources.                                                           *)
SelectedUpTo(f, k) ==
  IF k = 0 THEN <<>>
  ELSE IF sources[k] \in fdSet THEN Append(f[k - 1], sources[k]) ELSE f[k - 1]

LEMMA SelectedSources ==
  ASSUME sources \in Seq(Sources)
  PROVE  Selected \in Seq(Sources)
<1> DEFINE N == Len(sources)
           S == Seq(Sources)
           Good(n, g) == g \in [0 .. n -> S] /\ \A k \in 0 .. n : g[k] = SelectedUpTo(g, k)
<1>0. N \in Nat /\ \A k \in 1 .. N : sources[k] \in Sources
  OBVIOUS
<1>1. ASSUME NEW g, NEW k \in 1 .. N, g[k - 1] \in S PROVE SelectedUpTo(g, k) \in S
  BY <1>0, <1>1 DEF SelectedUpTo
<1>2. \A n \in 0 .. N : \E g : Good(n, g)
  <2> DEFINE T == {n \in 0 .. N : ~\E g : Good(n, g)}
  <2>1. SUFFICES ASSUME T # {} PROVE FALSE
    OBVIOUS
  <2>2. PICK m \in T : \A n \in T : m <= n
    <3>1. T \subseteq Nat
      BY <1>0
    <3> HIDE DEF T
    <3> QED BY <2>1, <3>1, LeastMember
  <2>5. T \subseteq 0 .. N /\ m \in 0 .. N
    OBVIOUS
  <2>3. CASE m = 0
    <3> DEFINE g == [k \in 0 .. 0 |-> <<>>]
    <3>1. Good(0, g)
      BY DEF SelectedUpTo
    <3> QED BY <3>1, <2>3
  <2>4. CASE m # 0
    <3>1. m \in 1 .. N /\ m - 1 \in 0 .. N /\ m - 1 \notin T
      <4> HIDE DEF T
      <4>1. m \in 1 .. N /\ m - 1 \in 0 .. N /\ ~(m <= m - 1)
        BY <2>4, <2>5, <1>0
      <4> QED BY <4>1, <2>2
    <3>2. PICK g : Good(m - 1, g)
      BY <3>1
    <3> DEFINE h == [k \in 0 .. m |-> IF k = m THEN SelectedUpTo(g, m) ELSE g[k]]
    <3>3. g[m - 1] \in S /\ SelectedUpTo(g, m) \in S
      <4>1. g[m - 1] \in S
        BY <3>1, <3>2
      <4> QED BY <4>1, <3>1, <1>1
    <3>4. h \in [0 .. m -> S]
      BY <3>1, <3>2, <3>3
    <3>5. ASSUME NEW k \in 0 .. m PROVE h[k] = SelectedUpTo(h, k)
      <4>1. k = 0 \/ (k - 1 \in 0 .. m - 1 /\ k - 1 \in 0 .. m /\ k - 1 # m /\ h[k - 1] = g[k - 1])
        BY <3>1
      <4>2. SelectedUpTo(h, k) = SelectedUpTo(g, k)
        BY <4>1 DEF SelectedUpTo
      <4>3. CASE k = m
        BY <4>2, <4>3
      <4>4. CASE k # m
        <5>1. k \in 0 .. m - 1 /\ h[k] = g[k]
          BY <4>4, <3>1
        <5> QED BY <5>1, <4>2, <3>2
      <4> QED BY <4>3, <4>4
    <3>6. Good(m, h)
      BY <3>4, <3>5
    <3> HIDE DEF h, Good
    <3> QED BY <3>6
  <2> QED BY <2>3, <2>4
<1> DEFINE F(f) == [k \in 0 .. N |-> SelectedUpTo(f, k)]
           upTo == CHOOSE f : f = F(f)
<1>3. upTo = F(upTo)
  <2>1. PICK g : Good(N, g)
    <3> HIDE DEF Good
    <3>1. N \in 0 .. N
      BY <1>0
    <3> QED BY <3>1, <1>2
  <2>2. g = F(g)
    BY <2>1
  <2> HIDE DEF F
  <2> QED BY <2>2
<1>4. Selected = upTo[N]
  BY DEF Selected, SelectedUpTo
<1> HIDE DEF upTo
<1>5. \A k \in 0 .. N : upTo[k] = SelectedUpTo(upTo, k)
  BY <1>3
<1>6. \A k \in 0 .. N : upTo[k] \in S
  <2> DEFINE T == {k \in 0 .. N : upTo[k] \notin S}
  <2>1. SUFFICES ASSUME T # {} PROVE FALSE
    OBVIOUS
  <2>2. PICK m \in T : \A n \in T : m <= n
    <3>1. T \subseteq Nat
      BY <1>0
    <3> HIDE DEF T
    <3> QED BY <2>1, <3>1, LeastMember
  <2>3. m # 0
    <3>1. upTo[0] = <<>> /\ <<>> \in S
      BY <1>0, <1>5 DEF SelectedUpTo
    <3> QED BY <3>1
  <2>4. m \in 1 .. N /\ upTo[m - 1] \in S
    BY <2>2, <2>3, <1>0
  <2> QED BY <2>4, <1>1, <1>5
<1> QED BY <1>0, <1>4, <1>6

-----------------------------------------------------------------------------
(* What a caller does next, and the counter of the wakeup event. *)
LEMMA Least ==
  ASSUME NEW m \in Nat, NEW n \in Nat
  PROVE  Min({m, n}) = IF m <= n THEN m ELSE n
BY DEF Min

LEMMA WakeSets ==
  ASSUME wakes \in 0 .. WakeMax, wakes' = Min({wakes + 1, WakeMax})
  PROVE  wakes' \in 0 .. WakeMax /\ wakes' > 0
<1>1. wakes \in Nat /\ wakes + 1 \in Nat /\ WakeMax \in Nat /\ WakeMax > 0 /\ wakes <= WakeMax
  BY LooperAssumption
<1>2. wakes' = IF wakes + 1 <= WakeMax THEN wakes + 1 ELSE WakeMax
  BY <1>1, Least
<1> QED BY <1>1, <1>2

LEMMA NextOpTypes ==
  ASSUME LoopInv, [Next]_vars
  PROVE  OpTypes'
<1>0. OpTypes /\ BookOK /\ MaxReg \in Nat /\ 0 \in 0 .. WakeMax
  BY Types, LooperAssumption DEF LoopInv
<1>1. ASSUME NEW a \in Actors, NEW p \in Pending, op' = [op EXCEPT ![a] = p]
      PROVE  op' \in [Actors -> Pending]
  BY <1>0, <1>1 DEF OpTypes
<1>2. Idle \in Pending /\ ToWake \in Pending
  BY <1>0 DEF Idle, ToWake, Pending
<1>3. CASE LoopStep \/ Finalizing \/ Tick \/ Signal \/ SelectError \/ Inputs
           \/ Inline \/ UNCHANGED vars
  <2>1. UNCHANGED op /\ (UNCHANGED wakes \/ wakes' = 0)
    <3>1. CASE LoopStep
      BY <3>1 DEF LoopStep, Check, FillFDSet, SelectReady, SelectTimeout, ReadEvents, NoTimerDue,
         FireTimer, TakeWakeup, NextWork, WorkDone, CallSource, NoMessage, HandlerReturns,
         DestroyReturns, callVars
    <3>2. CASE Finalizing
      BY <3>2 DEF Finalizing, Finalize, FinalizeTimer, FinalizeWork, Finalized, callVars
    <3>3. CASE Tick \/ Signal \/ SelectError \/ Inputs \/ Inline \/ UNCHANGED vars
      BY <3>3 DEF Tick, Signal, SelectError, Inputs, Input, Inline, CallAndWaitInline, callVars, vars
    <3> QED BY <1>3, <3>1, <3>2, <3>3
  <2> QED BY <2>1, <1>0 DEF OpTypes
<1>4. CASE Enqueues
  <2>1. PICK a \in Actors, kind \in WorkKinds, d \in BOOLEAN : Enqueue(a, kind, d)
    BY <1>4 DEF Enqueues
  <2>2. /\ UNCHANGED wakes
        /\ op' = [op EXCEPT ![a] = AfterPush(kind, Len(book) + 1)] \/ UNCHANGED op
    BY <2>1 DEF Enqueue
  <2>3. AfterPush(kind, Len(book) + 1) \in Pending
    BY <2>1, <1>0, BookDomain DEF Enqueue, CanRegister, AfterPush, Pending
  <2> QED BY <2>2, <2>3, <1>0, <1>1 DEF OpTypes
<1>5. CASE StartsTimer
  <2>1. PICK a \in Actors, delay \in Delays, isInterval \in BOOLEAN, d \in BOOLEAN :
          CallTimer(a, delay, isInterval, d)
    BY <1>5 DEF StartsTimer
  <2>2. UNCHANGED wakes /\ (\/ op' = [op EXCEPT ![a] = ToWake] \/ op' = [op EXCEPT ![a] = Idle]
                            \/ UNCHANGED op)
    BY <2>1 DEF CallTimer
  <2> QED BY <2>2, <1>0, <1>1, <1>2 DEF OpTypes
<1>6. CASE StopsTimer
  <2>1. PICK a \in Actors, u \in DOMAIN book : ClearTimer(a, u)
    BY <1>6 DEF StopsTimer
  <2> DEFINE data == entry[book[u].id[2]].data
  <2>2. data.u \in 1 .. MaxReg
    <3>1. book[u].id[2] \in Positions
      <4>1. book[u].id \in Identifiers
        BY <1>0, BookDomain DEF Registration
      <4> QED BY <4>1 DEF Identifiers
    <3>2. entry[book[u].id[2]] \in Entries
      BY <3>1 DEF LoopInv, TimerInv, TimerTypeOK
    <3>3. data \in [u : 1 .. MaxReg, destroy : BOOLEAN]
      BY <3>2, LooperAssumption DEF Entries
    <3> QED BY <3>3
  <2>3. UNCHANGED wakes /\ (\/ op' = [op EXCEPT ![a] = [k |-> "destroy", u |-> data.u]]
                            \/ op' = [op EXCEPT ![a] = Idle])
    BY <2>1 DEF ClearTimer
  <2>4. [k |-> "destroy", u |-> data.u] \in Pending
    BY <2>2, <1>0 DEF Pending
  <2> HIDE DEF data
  <2> QED BY <2>3, <2>4, <1>0, <1>1, <1>2 DEF OpTypes
<1>7. CASE Attaches \/ Detaches
  <2>1. PICK a \in Actors : op' = [op EXCEPT ![a] = ToWake] /\ UNCHANGED wakes
    BY <1>7 DEF Attaches, Attach, Detaches, Detach
  <2> QED BY <2>1, <1>0, <1>1, <1>2 DEF OpTypes
<1>8. CASE Continues
  <2>1. PICK a \in Actors : Wake(a) \/ WaitReturns(a) \/ DestroyStopped(a)
    BY <1>8 DEF Continues, Continue
  <2>2. CASE Wake(a)
    <3>1. wakes' \in 0 .. WakeMax /\ op' = [op EXCEPT ![a] = AfterWake(op[a].u)]
      BY <2>2, <1>0, WakeSets DEF Wake, OpTypes
    <3>2. op[a] \in Pending
      BY <1>0 DEF OpTypes
    <3>3. AfterWake(op[a].u) \in Pending
      BY <3>2, <1>2 DEF AfterWake, Pending
    <3> QED BY <3>1, <3>3, <1>1 DEF OpTypes
  <2>3. CASE WaitReturns(a) \/ DestroyStopped(a)
    BY <2>3, <1>0, <1>1, <1>2 DEF WaitReturns, DestroyStopped, OpTypes
  <2> QED BY <2>1, <2>2, <2>3
<1> QED BY <1>3, <1>4, <1>5, <1>6, <1>7, <1>8, NextSteps

LEMMA NextTimeTypes ==
  ASSUME LoopInv, [Next]_vars
  PROVE  TimeTypes'
<1>0. TimeTypes /\ TimerInv
  BY Types DEF LoopInv
<1>1. CASE UNCHANGED <<clock, poolTime, deadline, stopLoop, s_stopLoop, hasWakeup>>
  BY <1>0, <1>1 DEF TimeTypes
<1>2. CASE Check
  <2>1. deadline' \in Nat \cup {-1}
    <3>1. Timeout(clock) = -1 \/ Timeout(clock) \in Nat
      <4>1. CASE activeList = <<>>
        BY <4>1 DEF Timeout
      <4>2. CASE activeList # <<>>
        <5>1. Head(activeList) \in Positions
          BY <1>0, <4>2, FirstTaken
        <5>2. entry[Head(activeList)].timePoint \in Int
          BY <5>1, <1>0 DEF TimerInv, TimerTypeOK, Entries
        <5> QED BY <5>2, <4>2, <1>0 DEF Timeout, TimeTypes
      <4> QED BY <4>1, <4>2
    <3> QED BY <3>1, <1>0, <1>2 DEF Check, TimeTypes
  <2> QED BY <2>1, <1>0, <1>2 DEF Check, TimeTypes, runVars, worldVars
<1>3. CASE FillFDSet \/ SelectReady \/ SelectTimeout \/ SelectError \/ ReadEvents \/ NoMessage
           \/ NoTimerDue \/ FireTimer \/ CallSource \/ WorkDone \/ HandlerReturns \/ DestroyReturns
  BY <1>0, <1>3 DEF FillFDSet, SelectReady, SelectTimeout, SelectError, ReadEvents, NoMessage,
     NoTimerDue, FireTimer, CallSource, WorkDone, HandlerReturns, DestroyReturns,
     runVars, worldVars, selectVars, TimeTypes
<1>4. CASE TakeWakeup \/ NextWork
  <2>1. /\ UNCHANGED <<clock, poolTime, deadline, s_stopLoop>>
        /\ UNCHANGED stopLoop \/ stopLoop' = (stopLoop \/ Head(workList).kind = "stop")
        /\ UNCHANGED hasWakeup \/ hasWakeup' = FALSE
    BY <1>4 DEF TakeWakeup, NextWork, Begin, worldVars, selectVars
  <2>2. stopLoop' \in BOOLEAN /\ hasWakeup' \in BOOLEAN
    BY Zenon, <2>1, <1>0 DEF TimeTypes
  <2> QED BY <2>1, <2>2, <1>0 DEF TimeTypes
<1>5. CASE Finalizing
  BY <1>1, <1>5 DEF Finalizing, Finalize, FinalizeTimer, FinalizeWork, Finalized, loopVars, runVars,
     worldVars, selectVars
<1>6. CASE Tick \/ Signal \/ Inputs
  <2>1. /\ UNCHANGED <<poolTime, deadline, stopLoop, hasWakeup>>
        /\ UNCHANGED clock \/ clock' = clock + 1
        /\ UNCHANGED s_stopLoop \/ s_stopLoop' = TRUE
    BY <1>6 DEF Tick, Signal, Inputs, Input, loopVars, runVars, selectVars
  <2>2. s_stopLoop' \in BOOLEAN
    BY Zenon, <2>1, <1>0 DEF TimeTypes
  <2> QED BY <2>1, <2>2, <1>0 DEF TimeTypes
<1>7. CASE Enqueues \/ Inline \/ StartsTimer \/ StopsTimer \/ Attaches \/ Detaches \/ Continues
           \/ UNCHANGED vars
  <2>1. UNCHANGED loopVars
    BY <1>7, OutsideKeeps DEF Outside
  <2>2. UNCHANGED worldVars
    <3>1. CASE Enqueues \/ Inline \/ UNCHANGED vars
      BY <3>1 DEF Enqueues, Enqueue, Inline, CallAndWaitInline, vars
    <3>2. CASE StartsTimer \/ StopsTimer \/ Attaches \/ Detaches \/ Continues
      BY <3>2 DEF StartsTimer, CallTimer, StopsTimer, ClearTimer, Attaches, Attach, Detaches, Detach,
         Continues, Continue, Wake, WaitReturns, DestroyStopped
    <3> QED BY <1>7, <3>1, <3>2
  <2> QED BY <2>1, <2>2, <1>1 DEF loopVars, runVars, selectVars, worldVars
<1> QED BY <1>2, <1>3, <1>4, <1>5, <1>6, <1>7, NextSteps DEF LoopStep

-----------------------------------------------------------------------------
(* The table of sources. *)
LEMMA Swapped ==
  ASSUME NEW S, NEW s \in Seq(S), NEW k \in DOMAIN s
  PROVE  /\ SwapWithLast(s, k) \in Seq(S)
         /\ IsInjective(s) => /\ IsInjective(SwapWithLast(s, k))
                              /\ ToSet(SwapWithLast(s, k)) = ToSet(s) \ {s[k]}
<1> DEFINE n == Len(s)
           t == SwapWithLast(s, k)
<1>1. n \in Nat /\ DOMAIN s = 1 .. n /\ k \in 1 .. n /\ n > 0 /\ n - 1 \in Nat
      /\ \A j \in 1 .. n : s[j] \in S
  OBVIOUS
<1>2. /\ t \in Seq(S) /\ Len(t) = n - 1 /\ DOMAIN t = 1 .. n - 1
      /\ \A j \in 1 .. n - 1 : t[j] = IF j = k THEN s[n] ELSE s[j]
  <2>1. CASE k = n
    <3>1. t = SubSeq(s, 1, n - 1)
      BY <2>1 DEF SwapWithLast, Front
    <3> HIDE DEF t
    <3> QED BY <3>1, <2>1, <1>1
  <2>2. CASE k # n
    <3> DEFINE r == [s EXCEPT ![k] = s[n]]
    <3>1. r \in Seq(S) /\ Len(r) = n /\ \A j \in 1 .. n : r[j] = IF j = k THEN s[n] ELSE s[j]
      BY <1>1
    <3>2. t = SubSeq(r, 1, n - 1)
      <4>1. t = Front(r)
        BY <2>2 DEF SwapWithLast, Last
      <4> HIDE DEF r, t
      <4> QED BY <4>1, <3>1 DEF Front
    <3> HIDE DEF r, t
    <3> QED BY <3>1, <3>2, <1>1
  <2> QED BY <2>1, <2>2
<1> HIDE DEF t
<1>3. ASSUME IsInjective(s) PROVE IsInjective(t) /\ ToSet(t) = ToSet(s) \ {s[k]}
  <2>1. \A i, j \in 1 .. n : s[i] = s[j] => i = j
    BY <1>1, <1>3 DEF IsInjective
  <2>2. IsInjective(t)
    <3> SUFFICES ASSUME NEW i \in 1 .. n - 1, NEW j \in 1 .. n - 1, t[i] = t[j] PROVE i = j
      BY <1>2 DEF IsInjective
    <3> QED BY <1>1, <1>2, <2>1
  <2>3. ASSUME NEW x \in ToSet(t) PROVE x \in ToSet(s) /\ x # s[k]
    <3>1. PICK j \in 1 .. n - 1 : x = t[j]
      BY <2>3, <1>2 DEF ToSet
    <3>2. CASE j = k
      BY <3>1, <3>2, <1>1, <1>2, <2>1 DEF ToSet
    <3>3. CASE j # k
      BY <3>1, <3>3, <1>1, <1>2, <2>1 DEF ToSet
    <3> QED BY <3>2, <3>3
  <2>4. ASSUME NEW x \in ToSet(s), x # s[k] PROVE x \in ToSet(t)
    <3>1. PICK j \in 1 .. n : x = s[j]
      BY <1>1 DEF ToSet
    <3>2. PICK i \in 1 .. n - 1 : t[i] = x
      <4>1. CASE j = n
        <5>1. k \in 1 .. n - 1 /\ t[k] = s[n]
          BY <4>1, <3>1, <2>4, <1>1, <1>2
        <5> QED BY <5>1, <4>1, <3>1
      <4>2. CASE j # n
        <5>0. j # k
          BY <3>1, <2>4
        <5>1. j \in 1 .. n - 1
          <6>1. n \in Nat /\ j \in 1 .. n
            BY <1>1
          <6> HIDE DEF n
          <6> QED BY <6>1, <4>2
        <5>2. t[j] = s[j]
          BY <5>0, <5>1, <1>2
        <5> QED BY <5>1, <5>2, <3>1
      <4> QED BY <4>1, <4>2
    <3> QED BY <3>2, <1>2 DEF ToSet
  <2> QED BY <2>2, <2>3, <2>4
<1> QED BY <1>2, <1>3 DEF t

(* Which steps change the table. *)
LEMMA NextSourcesMove ==
  ASSUME [Next]_vars
  PROVE  Attaches \/ Detaches \/ UNCHANGED <<sources, wanted>>
<1>1. CASE LoopStep
  BY <1>1 DEF LoopStep, Check, FillFDSet, SelectReady, SelectTimeout, ReadEvents, NoTimerDue,
     FireTimer, TakeWakeup, NextWork, WorkDone, CallSource, NoMessage, HandlerReturns,
     DestroyReturns, callVars
<1>2. CASE Finalizing
  BY <1>2 DEF Finalizing, Finalize, FinalizeTimer, FinalizeWork, Finalized, callVars
<1>3. CASE Tick \/ Signal \/ SelectError \/ Inputs \/ Inline \/ UNCHANGED vars
  BY <1>3 DEF Tick, Signal, SelectError, Inputs, Input, Inline, CallAndWaitInline, callVars, vars
<1>4. CASE Enqueues \/ StartsTimer \/ StopsTimer \/ Continues
  BY <1>4 DEF Enqueues, Enqueue, StartsTimer, CallTimer, StopsTimer, ClearTimer,
     Continues, Continue, Wake, WaitReturns, DestroyStopped
<1> QED BY <1>1, <1>2, <1>3, <1>4, NextSteps

LEMMA NextSourceTable ==
  ASSUME LoopInv, SourceTable, [Next]_vars
  PROVE  SourceTable' /\ sources' \in Seq(Sources) /\ wanted' \subseteq Sources
<1>0. sources \in Seq(Sources) /\ wanted \subseteq Sources
  BY Types DEF LoopInv, SourceTypes
<1>1. CASE UNCHANGED <<sources, wanted>>
  BY <1>0, <1>1 DEF SourceTable
<1>2. CASE Attaches
  <2>1. PICK s \in Sources : /\ s \notin wanted /\ sources' = Append(sources, s)
                            /\ wanted' = wanted \cup {s}
    BY <1>2 DEF Attaches, Attach
  <2> QED BY <2>1, <1>0, AppendList DEF SourceTable
<1>3. CASE Detaches
  <2>1. PICK s \in Sources, k \in DOMAIN sources :
          sources[k] = s /\ sources' = SwapWithLast(sources, k) /\ wanted' = wanted \ {s}
    BY <1>3 DEF Detaches, Detach
  <2>2. /\ SwapWithLast(sources, k) \in Seq(Sources)
        /\ IsInjective(SwapWithLast(sources, k))
        /\ ToSet(SwapWithLast(sources, k)) = ToSet(sources) \ {s}
    BY <2>1, <1>0, Swapped DEF SourceTable
  <2> QED BY <2>1, <2>2, <1>0 DEF SourceTable
<1> QED BY <1>1, <1>2, <1>3, NextSourcesMove

LEMMA NextSourceTypes ==
  ASSUME LoopInv, SourceTable, [Next]_vars
  PROVE  SourceTypes'
<1>0. SourceTypes
  BY Types DEF LoopInv
<1>1. sources' \in Seq(Sources) /\ wanted' \subseteq Sources
  BY NextSourceTable
<1>2. performSources' \in Seq(Sources) /\ readable' \subseteq Sources
      /\ fdSet' \subseteq Sources \cup {WakeupFd}
  <2>1. CASE UNCHANGED <<performSources, readable, fdSet>>
    BY <2>1, <1>0 DEF SourceTypes
  <2>2. CASE Check \/ SelectTimeout \/ SelectError \/ NoMessage \/ NoTimerDue \/ FireTimer
             \/ TakeWakeup \/ NextWork \/ WorkDone \/ HandlerReturns \/ DestroyReturns
    BY <2>2, <1>0 DEF Check, SelectTimeout, SelectError, NoMessage, NoTimerDue, FireTimer,
       TakeWakeup, NextWork, WorkDone, HandlerReturns, DestroyReturns, selectVars, worldVars, SourceTypes
  <2>3. CASE FillFDSet
    <3>1. ToSet(sources) \subseteq Sources
      BY <1>0, MemberOf DEF SourceTypes
    <3> QED BY <3>1, <2>3, <1>0 DEF FillFDSet, worldVars, SourceTypes
  <2>4. CASE SelectReady
    BY <2>4, <1>0 DEF SelectReady, Ready, worldVars, SourceTypes
  <2>5. CASE ReadEvents
    <3>1. performSources' \in Seq(Sources)
      BY <2>5, <1>0, SelectedSources DEF ReadEvents, SourceTypes
    <3> QED BY <3>1, <2>5, <1>0 DEF ReadEvents, worldVars, SourceTypes
  <2>6. CASE CallSource
    BY <2>6, <1>0 DEF CallSource, SourceTypes
  <2>7. CASE Finalizing
    BY <2>1, <2>7 DEF Finalizing, Finalize, FinalizeTimer, FinalizeWork, Finalized, loopVars,
       selectVars, worldVars
  <2>8. CASE Inputs
    BY <2>8, <1>0 DEF Inputs, Input, loopVars, selectVars, SourceTypes
  <2>9. CASE Tick \/ Signal \/ Enqueues \/ Inline \/ StartsTimer \/ StopsTimer \/ Attaches
             \/ Detaches \/ Continues \/ UNCHANGED vars
    <3>1. UNCHANGED loopVars
      BY <2>9, OutsideKeeps DEF Outside
    <3>2. UNCHANGED readable
      <4>1. CASE Tick \/ Signal \/ Enqueues \/ Inline \/ UNCHANGED vars
        BY <4>1 DEF Tick, Signal, Enqueues, Enqueue, Inline, CallAndWaitInline, vars, worldVars
      <4>2. CASE StartsTimer \/ StopsTimer \/ Attaches \/ Detaches \/ Continues
        BY <4>2 DEF StartsTimer, CallTimer, StopsTimer, ClearTimer, Attaches, Attach, Detaches, Detach,
           Continues, Continue, Wake, WaitReturns, DestroyStopped, worldVars
      <4> QED BY <2>9, <4>1, <4>2
    <3> QED BY <3>1, <3>2, <2>1 DEF loopVars, selectVars
  <2> QED BY <2>2, <2>3, <2>4, <2>5, <2>6, <2>7, <2>8, <2>9, NextSteps DEF LoopStep
<1> QED BY <1>1, <1>2 DEF SourceTypes

-----------------------------------------------------------------------------
(* The wakeup, once announced, stays so until the loop reads it. *)
LEMMA WakeStays ==
  ASSUME LoopInv, WakePending, [Next]_vars
  PROVE  WakePending' \/ (ReadEvents /\ hasWakeup')
<1>0. OpTypes
  BY Types DEF LoopInv
<1>1. ASSUME NEW a \in Actors, op[a].k # "wake", UNCHANGED wakes,
             NEW p, op' = [op EXCEPT ![a] = p]
      PROVE  WakePending'
  <2>1. \A b \in Actors : b # a => op'[b] = op[b]
    BY <1>0, <1>1 DEF OpTypes
  <2> QED BY <2>1, <1>1 DEF WakePending
<1>2. CASE UNCHANGED <<wakes, op>>
  BY <1>2 DEF WakePending
<1>3. CASE ReadEvents
  BY <1>3, <1>2 DEF ReadEvents, WakePending
<1>4. CASE LoopStep /\ ~ReadEvents
  BY <1>2, <1>4 DEF LoopStep, Check, FillFDSet, SelectReady, SelectTimeout, NoTimerDue,
     FireTimer, TakeWakeup, NextWork, WorkDone, CallSource, NoMessage, HandlerReturns,
     DestroyReturns, callVars
<1>5. CASE Finalizing
  BY <1>2, <1>5 DEF Finalizing, Finalize, FinalizeTimer, FinalizeWork, Finalized, callVars
<1>6. CASE Tick \/ Signal \/ SelectError \/ Inputs \/ Inline \/ UNCHANGED vars
  BY <1>2, <1>6 DEF Tick, Signal, SelectError, Inputs, Input, Inline, CallAndWaitInline, callVars, vars
<1>7. Idle.k # "wake"
  BY DEF Idle
<1>8. CASE Enqueues
  <2>1. PICK a \in Actors, kind \in WorkKinds :
          /\ op[a] = Idle /\ UNCHANGED wakes
          /\ UNCHANGED op \/ op' = [op EXCEPT ![a] = AfterPush(kind, Len(book) + 1)]
    BY <1>8 DEF Enqueues, Enqueue, CanCall
  <2> QED BY <2>1, <1>1, <1>2, <1>7
<1>9. CASE StartsTimer
  <2>1. PICK a \in Actors :
          /\ op[a] = Idle /\ UNCHANGED wakes
          /\ \/ UNCHANGED op \/ op' = [op EXCEPT ![a] = ToWake] \/ op' = [op EXCEPT ![a] = Idle]
    BY <1>9 DEF StartsTimer, CallTimer, CanCall
  <2> QED BY <2>1, <1>1, <1>2, <1>7
<1>10. CASE StopsTimer
  <2>1. PICK a \in Actors, u \in DOMAIN book : ClearTimer(a, u)
    BY <1>10 DEF StopsTimer
  <2> DEFINE data == entry[book[u].id[2]].data
             p == IF data.destroy THEN [k |-> "destroy", u |-> data.u] ELSE Idle
  <2>2. op[a] = Idle /\ UNCHANGED wakes /\ op' = [op EXCEPT ![a] = p]
    BY <2>1 DEF ClearTimer, CanCall
  <2> HIDE DEF p
  <2>3. op[a].k # "wake"
    BY <2>2, <1>7
  <2>4. \A b \in Actors : b # a => op'[b] = op[b]
    BY <2>2, <1>0 DEF OpTypes
  <2> QED BY <2>2, <2>3, <2>4 DEF WakePending
<1>11. CASE Attaches \/ Detaches
  <2>1. PICK a \in Actors : op[a] = Idle /\ UNCHANGED wakes /\ op' = [op EXCEPT ![a] = ToWake]
    BY <1>11 DEF Attaches, Attach, Detaches, Detach, CanCall
  <2> QED BY <2>1, <1>1, <1>7
<1>12. CASE Continues
  <2>1. PICK a \in Actors : Wake(a) \/ WaitReturns(a) \/ DestroyStopped(a)
    BY <1>12 DEF Continues, Continue
  <2>2. CASE Wake(a)
    BY <2>2, <1>0, WakeSets DEF Wake, OpTypes, WakePending
  <2>3. CASE WaitReturns(a) \/ DestroyStopped(a)
    <3>1. op[a].k # "wake" /\ UNCHANGED wakes /\ op' = [op EXCEPT ![a] = Idle]
      BY <2>3 DEF WaitReturns, DestroyStopped
    <3> QED BY <3>1, <1>1
  <2> QED BY <2>1, <2>2, <2>3
<1> QED BY <1>3, <1>4, <1>5, <1>6, <1>8, <1>9, <1>10, <1>11, <1>12, NextSteps

LEMMA NextNoLostWork ==
  ASSUME LoopInv, NoLostWork, [Next]_vars
  PROVE  NoLostWork'
<1>0. WorkTypes /\ WhereTypes /\ Len(workList) \in Nat /\ OpTypes
  BY Types DEF LoopInv, WorkTypes
<1>1. ASSUME Len(workList') - batch' <= Len(workList) - batch, batch' \in Nat, Len(workList') \in Nat,
             hasWakeup => hasWakeup'
      PROVE  NoLostWork'
  <2>1. Len(workList') > batch' => Len(workList) > batch
    BY <1>0, <1>1 DEF WhereTypes
  <2> QED BY <2>1, <1>1, WakeStays DEF NoLostWork
<1>2. WorkTypes' /\ WhereTypes' /\ Len(workList') \in Nat
  BY NextWorkTypes, NextWhere DEF WorkTypes
<1>3. CASE Enqueues
  <2>1. PICK a \in Actors, kind \in WorkKinds, d \in BOOLEAN : Enqueue(a, kind, d)
    BY <1>3 DEF Enqueues
  <2>2. UNCHANGED <<batch, hasWakeup>>
    BY <2>1 DEF Enqueue, loopVars, runVars, selectVars
  <2>3. CASE UNCHANGED dispatchVars
    BY <2>2, <2>3, <1>1, <1>2, <1>0 DEF dispatchVars, WhereTypes
  <2>4. CASE op' = [op EXCEPT ![a] = AfterPush(kind, Len(book) + 1)]
    <3>1. op'[a].k = "wake"
      BY <2>4, <1>0 DEF OpTypes, AfterPush
    <3> QED BY <3>1 DEF NoLostWork, WakePending
  <2> QED BY <2>1, <2>3, <2>4 DEF Enqueue
<1>4. CASE TakeWakeup
  <2>1. CASE size = 0
    BY <2>1, <1>4, <1>0, <1>2 DEF TakeWakeup, dispatchVars, NoLostWork, WorkTypes, WhereTypes
  <2>2. CASE size # 0
    <3>1. Shift /\ batch' = size - 1
      BY <2>2, <1>4 DEF TakeWakeup, Begin, BatchSize
    <3>2. Len(workList') = Len(workList) - 1
      BY <3>1, <1>0, Shifted
    <3> QED BY <3>1, <3>2, <1>0 DEF NoLostWork, WorkTypes
  <2> QED BY <2>1, <2>2
<1>5. CASE NextWork
  <2>1. Shift /\ batch' = batch - 1 /\ UNCHANGED hasWakeup
    BY <1>5 DEF NextWork, Begin, selectVars
  <2>2. Len(workList') = Len(workList) - 1
    BY <2>1, <1>0, Shifted
  <2> QED BY <2>1, <2>2, <1>0, <1>1, <1>2 DEF WhereTypes
<1>6. CASE FinalizeWork
  <2>1. Shift /\ UNCHANGED <<batch, hasWakeup>>
    BY <1>6 DEF FinalizeWork, runVars, selectVars
  <2>2. Len(workList') = Len(workList) - 1
    BY <2>1, <1>0, Shifted
  <2> QED BY <2>1, <2>2, <1>0, <1>1, <1>2 DEF WhereTypes
<1>7. CASE WorkDone
  <2>1. UNCHANGED <<workList, hasWakeup>> /\ batch' = 0 /\ (batch = 0 \/ Len(workList) = 0)
    BY <1>7 DEF WorkDone, dispatchVars, selectVars
  <2> QED BY <2>1, <1>0, <1>1, <1>2 DEF WhereTypes, NoLostWork
<1>8. CASE UNCHANGED dispatchVars /\ ~TakeWakeup /\ ~WorkDone /\ ~NextWork
  <2>1. UNCHANGED <<workList, batch>> /\ (hasWakeup => hasWakeup')
    <3>0. workList' = workList
      BY <1>8 DEF dispatchVars
    <3>1. CASE LoopStep
      <4>1. CASE Check \/ FillFDSet \/ SelectReady \/ SelectTimeout \/ NoTimerDue \/ NoMessage
        BY <3>0, <4>1 DEF Check, FillFDSet, SelectReady, SelectTimeout, NoTimerDue, NoMessage,
           runVars, selectVars
      <4>2. CASE ReadEvents
        <5>1. hasWakeup => hasWakeup'
          BY Zenon, <4>2 DEF ReadEvents
        <5> QED BY <3>0, <4>2, <5>1 DEF ReadEvents, runVars
      <4>3. CASE FireTimer \/ HandlerReturns \/ DestroyReturns
        <5>1. UNCHANGED <<batch, hasWakeup>>
          BY <4>3 DEF FireTimer, HandlerReturns, DestroyReturns, selectVars
        <5> QED BY <3>0, <5>1
      <4>4. CASE CallSource
        BY <3>0, <4>4 DEF CallSource
      <4> QED BY <1>8, <3>1, <4>1, <4>2, <4>3, <4>4 DEF LoopStep
    <3>2. CASE Finalizing \/ SelectError
      BY <3>0, <3>2 DEF Finalizing, Finalize, FinalizeTimer, FinalizeWork, Finalized, SelectError,
         loopVars, runVars, selectVars
    <3>3. CASE Outside
      BY <3>0, <3>3, OutsideKeeps DEF loopVars, runVars, selectVars
    <3> QED BY <3>1, <3>2, <3>3, NextSteps DEF Outside
  <2> QED BY <2>1, <1>0, <1>1, <1>2 DEF WhereTypes
<1> QED BY <1>3, <1>4, <1>5, <1>6, <1>7, <1>8, NextWorkMoves

-----------------------------------------------------------------------------
(* The first timer, and how long the loop sleeps. *)
LEMMA FirstIsEarliest ==
  ASSUME NEW order \in Seq(Positions), NEW es, order # <<>>, InOrder(order, es)
  PROVE  /\ Head(order) \in ToSet(order) /\ Head(order) \in Positions
         /\ \A j \in ToSet(order) : es[Head(order)].timePoint <= es[j].timePoint
<1>1. 1 \in DOMAIN order /\ Head(order) = order[1] /\ Head(order) \in Positions
      /\ DOMAIN order = 1 .. Len(order)
  OBVIOUS
<1>2. ASSUME NEW j \in ToSet(order) PROVE es[Head(order)].timePoint <= es[j].timePoint
  <2>1. PICK k \in 1 .. Len(order) : j = order[k]
    BY <1>1 DEF ToSet
  <2> QED BY <2>1, <1>1 DEF InOrder
<1> QED BY <1>1, <1>2 DEF ToSet

\* The entry that a start takes, and one that is released; the others stay.
LEMMA StartedEntry ==
  ASSUME TimerInv, NEW isInterval \in BOOLEAN, NEW now \in Int, NEW timeout \in Int,
         NEW data \in Data, StartTimer(isInterval, now, timeout, data)
  PROVE  LET i == Head(freeList) IN
         /\ i \in Positions /\ ~entry[i].active /\ timeout > 0
         /\ entry'[i].active /\ entry'[i].gen = entry[i].gen /\ entry'[i].data = data
         /\ entry'[i].isInterval = isInterval /\ entry'[i].timeout = timeout
         /\ entry'[i].timePoint = timeout + now
         /\ \A j \in Positions : j # i => entry'[j] = entry[j]
<1> DEFINE i == Head(freeList)
           new == [gen |-> entry[i].gen, active |-> TRUE, isInterval |-> isInterval,
                   timeout |-> timeout, timePoint |-> timeout + now, data |-> data]
<1>1. freeList # <<>> /\ timeout > 0 /\ entry' = [entry EXCEPT ![i] = new]
  BY DEF StartTimer, StartRefused
<1>2. freeList \in Seq(Positions) /\ entry \in [Positions -> Entries]
  BY DEF TimerInv, TimerTypeOK
<1>3. i \in Positions /\ i \in ToSet(freeList)
  BY <1>1, <1>2, TailList
<1>4. ~entry[i].active
  BY <1>3 DEF TimerInv, EachInOneList
<1>5. entry'[i] = new /\ \A j \in Positions : j # i => entry'[j] = entry[j]
  BY <1>1, <1>2, <1>3
<1>6. /\ new.active /\ new.gen = entry[i].gen /\ new.data = data /\ new.isInterval = isInterval
      /\ new.timeout = timeout /\ new.timePoint = timeout + now
  OBVIOUS
<1> HIDE DEF new, i
<1>7. /\ entry'[i].active /\ entry'[i].gen = entry[i].gen /\ entry'[i].data = data
      /\ entry'[i].isInterval = isInterval /\ entry'[i].timeout = timeout
      /\ entry'[i].timePoint = timeout + now
  BY <1>5, <1>6
<1> QED BY <1>1, <1>3, <1>4, <1>5, <1>7 DEF i

LEMMA ReleasedFields ==
  ASSUME TimerInv, NEW i \in Positions, entry' = [entry EXCEPT ![i] = Released(@)]
  PROVE  /\ entry'[i].gen = (entry[i].gen + 1) % Generations /\ ~entry'[i].active
         /\ entry'[i].data = entry[i].data /\ entry'[i].timePoint = entry[i].timePoint
         /\ \A j \in Positions : j # i => entry'[j] = entry[j]
<1>1. entry \in [Positions -> Entries] /\ entry[i] \in Entries
  BY DEF TimerInv, TimerTypeOK
<1> DEFINE g == (entry[i].gen + 1) % Generations
<1>2. Released(entry[i]) = [entry[i] EXCEPT !.gen = g, !.active = FALSE]
  BY DEF Released
<1> HIDE DEF g
<1>3. /\ Released(entry[i]).gen = g /\ ~Released(entry[i]).active
      /\ Released(entry[i]).data = entry[i].data
      /\ Released(entry[i]).timePoint = entry[i].timePoint
  BY <1>1, <1>2 DEF Entries
<1>4. entry'[i] = Released(entry[i]) /\ \A j \in Positions : j # i => entry'[j] = entry[j]
  BY <1>1
<1> QED BY <1>3, <1>4 DEF g

LEMMA FirstAfterStart ==
  ASSUME TimerInv, NEW isInterval \in BOOLEAN, NEW now \in Int, NEW timeout \in Int,
         NEW data \in Data, StartTimer(isInterval, now, timeout, data)
  PROVE  /\ activeList' # <<>>
         /\ entry'[Head(activeList')].timePoint = timeout + now
            \/ (/\ activeList # <<>>
               /\ entry'[Head(activeList')].timePoint = entry[Head(activeList)].timePoint)
<1> DEFINE i == Head(freeList)
           h == Head(activeList')
<1>1. /\ i \in Positions /\ ~entry[i].active /\ entry'[i].active
      /\ entry'[i].timePoint = timeout + now
      /\ \A j \in Positions : j # i => entry'[j] = entry[j]
  BY StartedEntry
<1>2. TimerInv'
  BY StartInv
<1>3. activeList' \in Seq(Positions) /\ InOrder(activeList', entry')
      /\ activeList \in Seq(Positions) /\ InOrder(activeList, entry)
      /\ \A j \in Positions : entry[j].timePoint \in Int
  BY <1>2 DEF TimerInv, TimerTypeOK, Ordered, Entries
<1>4. /\ \A j \in Positions : j \in ToSet(activeList) <=> entry[j].active
      /\ \A j \in Positions : j \in ToSet(activeList') <=> entry'[j].active
  BY <1>2 DEF TimerInv, EachInOneList
<1> HIDE DEF i
<1>5. activeList' # <<>>
  BY <1>1, <1>4 DEF ToSet
<1>6. /\ h \in ToSet(activeList') /\ h \in Positions
      /\ \A j \in ToSet(activeList') : entry'[h].timePoint <= entry'[j].timePoint
  BY <1>3, <1>5, FirstIsEarliest
<1> HIDE DEF h
<1>7. CASE h # i
  <2>1. h \in ToSet(activeList) /\ entry'[h] = entry[h]
    BY <1>1, <1>4, <1>6, <1>7
  <2>2. activeList # <<>>
    BY <2>1 DEF ToSet
  <2> DEFINE f == Head(activeList)
  <2>3. f \in Positions /\ f \in ToSet(activeList) /\ entry[f].timePoint <= entry[h].timePoint
    BY <2>1, <2>2, <1>3, FirstIsEarliest
  <2>4. f # i /\ f \in ToSet(activeList') /\ entry'[f] = entry[f]
    BY <2>3, <1>1, <1>4
  <2>5. entry'[h].timePoint <= entry[f].timePoint
    BY <2>4, <1>6
  <2> HIDE DEF f
  <2>6. entry'[h].timePoint = entry[f].timePoint
    BY <2>1, <2>3, <2>5, <1>3, <1>6
  <2> QED BY <2>2, <2>6, <1>5 DEF f, h
<1>8. CASE h = i
  BY <1>1, <1>5, <1>8 DEF h
<1> QED BY <1>7, <1>8

LEMMA FirstAfterStop ==
  ASSUME TimerInv, NEW id \in Identifiers, StopTimer(id), activeList' # <<>>
  PROVE  /\ activeList # <<>>
         /\ entry[Head(activeList)].timePoint <= entry'[Head(activeList')].timePoint
<1> DEFINE i == id[2]
           h == Head(activeList')
<1>1. i \in Positions /\ entry' = [entry EXCEPT ![i] = Released(@)]
  BY DEF StopTimer, Identifiers
<1>2. TimerInv'
  BY StopInv
<1>3. activeList' \in Seq(Positions) /\ InOrder(activeList', entry')
      /\ activeList \in Seq(Positions) /\ InOrder(activeList, entry)
  BY <1>2 DEF TimerInv, TimerTypeOK, Ordered
<1>4. /\ \A j \in Positions : j \in ToSet(activeList) <=> entry[j].active
      /\ \A j \in Positions : j \in ToSet(activeList') <=> entry'[j].active
  BY <1>2 DEF TimerInv, EachInOneList
<1>5. h \in ToSet(activeList') /\ h \in Positions
  BY <1>3, FirstIsEarliest
<1> HIDE DEF h, i
<1>6. ~entry'[i].active /\ \A j \in Positions : j # i => entry'[j] = entry[j]
  BY <1>1, ReleasedFields
<1>7. h \in ToSet(activeList) /\ entry'[h] = entry[h]
  BY <1>4, <1>5, <1>6
<1>8. activeList # <<>>
  BY <1>7 DEF ToSet
<1>9. entry[Head(activeList)].timePoint <= entry[h].timePoint
  BY <1>3, <1>7, <1>8, FirstIsEarliest
<1> QED BY <1>7, <1>8, <1>9 DEF h

\* Where the loop may sleep, and what leads there.
ToSleep == {"fill", "select"}
LEMMA NextToSleep ==
  ASSUME LoopInv, [Next]_vars, pc' \in ToSleep
  PROVE  \/ Check /\ UNCHANGED timerVars
         \/ pc \in ToSleep /\ UNCHANGED deadline
<1>0. WhereTypes /\ WhereInv
  BY Types DEF LoopInv
<1>1. CASE Check
  BY <1>1 DEF Check
<1>2. CASE FillFDSet
  BY <1>2 DEF FillFDSet, ToSleep
<1>3. CASE SelectReady \/ SelectTimeout \/ SelectError \/ ReadEvents \/ NoTimerDue \/ FireTimer
           \/ CallSource \/ NoMessage \/ WorkDone \/ Finalizing
  BY <1>3 DEF SelectReady, SelectTimeout, SelectError, ReadEvents, NoTimerDue, FireTimer,
     CallSource, NoMessage, WorkDone, Finalizing, Finalize, FinalizeTimer, FinalizeWork, Finalized,
     NothingToRelease, loopVars, ToSleep
<1>4. CASE TakeWakeup \/ NextWork
  BY <1>4 DEF TakeWakeup, NextWork, Begin, ToSleep
<1>5. CASE HandlerReturns \/ DestroyReturns
  <2>1. cur.kind \in {"timer", "source", "call", "callAndWait", "stop"}
    BY <1>0, <1>5 DEF HandlerReturns, DestroyReturns, WhereTypes, WhereInv, InCallback, Callback
  <2>2. After(cur) \in {"timers", "work", "message"}
    BY <2>1 DEF After, IsWork
  <2> QED BY <1>5, <2>2 DEF HandlerReturns, DestroyReturns, Return, ToSleep
<1>6. CASE Outside
  BY <1>6, OutsideKeeps DEF loopVars, selectVars
<1> QED BY <1>1, <1>2, <1>3, <1>4, <1>5, <1>6, NextSteps DEF LoopStep, Outside

\* Time does not go back.
LEMMA NextClock ==
  ASSUME LoopInv, [Next]_vars
  PROVE  clock' = clock \/ (clock' = clock + 1 /\ UNCHANGED <<timerVars, loopVars, book>>)
<1>1. CASE LoopStep
  BY <1>1 DEF LoopStep, Check, FillFDSet, SelectReady, SelectTimeout, ReadEvents, NoTimerDue,
     FireTimer, TakeWakeup, NextWork, WorkDone, CallSource, NoMessage, HandlerReturns,
     DestroyReturns, worldVars
<1>2. CASE Finalizing
  BY <1>2 DEF Finalizing, Finalize, FinalizeTimer, FinalizeWork, Finalized, worldVars
<1>3. CASE Tick \/ Signal \/ SelectError \/ Inputs \/ Inline \/ UNCHANGED vars
  BY <1>3 DEF Tick, Signal, SelectError, Inputs, Input, Inline, CallAndWaitInline, worldVars, vars
<1>4. CASE Enqueues \/ StartsTimer \/ StopsTimer \/ Attaches \/ Detaches \/ Continues
  BY <1>4 DEF Enqueues, Enqueue, StartsTimer, CallTimer, StopsTimer, ClearTimer, Attaches, Attach,
     Detaches, Detach, Continues, Continue, Wake, WaitReturns, DestroyStopped, worldVars
<1> QED BY <1>1, <1>2, <1>3, <1>4, NextSteps

\* A timer whose start leaves the time to sleep as it was is not the first.
LEMMA StartKeepsFirst ==
  ASSUME TimerInv, NEW isInterval \in BOOLEAN, NEW now \in Int, NEW timeout \in Int,
         NEW data \in Data, StartTimer(isInterval, now, timeout, data),
         Timeout(now)' = Timeout(now)
  PROVE  /\ activeList # <<>>
         /\ entry'[Head(activeList')].timePoint = entry[Head(activeList)].timePoint
<1>1. CASE entry'[Head(activeList')].timePoint = timeout + now
  <2>1. activeList' # <<>> /\ timeout > 0
    BY FirstAfterStart, StartedEntry
  <2>2. Timeout(now)' = timeout
    BY <1>1, <2>1 DEF Timeout
  <2>3. activeList # <<>>
    BY <2>1, <2>2 DEF Timeout
  <2>4. entry[Head(activeList)].timePoint \in Int
    BY <2>3, FirstTaken DEF TimerInv, TimerTypeOK, Entries
  <2> QED BY <1>1, <2>1, <2>2, <2>3, <2>4 DEF Timeout
<1> QED BY <1>1, FirstAfterStart

LEMMA NextSleep ==
  ASSUME LoopInv, SleepCoversTimers, [Next]_vars
  PROVE  SleepCoversTimers'
<1>0. TimerInv /\ OpTypes /\ TimeTypes
  BY Types DEF LoopInv
<1> SUFFICES ASSUME pc' \in ToSleep, activeList' # <<>>
             PROVE  \/ WakePending'
                    \/ /\ deadline' # -1
                       /\ \/ deadline' <= clock'
                          \/ deadline' <= entry'[Head(activeList')].timePoint
  BY DEF SleepCoversTimers, ToSleep
<1>1. CASE Check /\ UNCHANGED timerVars
  <2>1. activeList # <<>> /\ UNCHANGED <<entry, activeList, clock>>
    BY <1>1 DEF timerVars, Check, worldVars
  <2>2. entry[Head(activeList)].timePoint \in Int
    BY <1>0, <2>1, FirstTaken DEF TimerInv, TimerTypeOK, Entries
  <2>3. Timeout(clock) # -1 /\ deadline' = clock + Timeout(clock)
    <3>1. Timeout(clock) # -1
      BY <1>0, <2>1, <2>2 DEF Timeout, TimeTypes
    <3>2. pc' # "left"
      BY DEF ToSleep
    <3> QED BY <1>1, <3>1, <3>2 DEF Check
  <2> QED BY <1>0, <2>1, <2>2, <2>3 DEF Timeout, TimeTypes
<1>2. CASE pc \in ToSleep /\ UNCHANGED deadline
  <2>1. ~ReadEvents
    BY <1>2 DEF ReadEvents, ToSleep
  <2>2. WakePending => WakePending'
    BY <2>1, WakeStays
  <2>3. clock \in Nat /\ clock' \in Nat /\ clock <= clock'
    BY <1>0, NextClock DEF TimeTypes
  <2>4. deadline \in Int
    BY <1>0 DEF TimeTypes
  <2>5. ASSUME activeList # <<>>, entry[Head(activeList)].timePoint \in Int,
               entry'[Head(activeList')].timePoint \in Int,
               entry[Head(activeList)].timePoint <= entry'[Head(activeList')].timePoint
        PROVE  \/ WakePending'
               \/ /\ deadline' # -1
                  /\ \/ deadline' <= clock'
                     \/ deadline' <= entry'[Head(activeList')].timePoint
    BY <1>2, <2>2, <2>3, <2>4, <2>5 DEF SleepCoversTimers, ToSleep
  <2>6. entry'[Head(activeList')].timePoint \in Int
    <3>1. TimerInv'
      BY NextTimers
    <3>2. activeList' \in Seq(Positions) /\ entry' \in [Positions -> Entries]
      BY <3>1 DEF TimerInv, TimerTypeOK
    <3>3. Head(activeList') \in Positions
      BY <3>2
    <3> QED BY <3>2, <3>3 DEF Entries
  <2>7. activeList # <<>> => entry[Head(activeList)].timePoint \in Int
    BY <1>0, FirstTaken DEF TimerInv, TimerTypeOK, Entries
  <2>8. CASE UNCHANGED timerVars
    BY <2>5, <2>6, <2>7, <2>8 DEF timerVars
  <2>9. CASE FireTimer \/ FinalizeTimer
    BY <2>9, <1>2 DEF FireTimer, FinalizeTimer, ToSleep
  <2>10. CASE StopsTimer
    <3>1. PICK a \in Actors, u \in DOMAIN book : ClearTimer(a, u)
      BY <2>10 DEF StopsTimer
    <3>2. book[u].id \in Identifiers
      BY BookDomain DEF LoopInv, Registration
    <3>3. StopTimer(book[u].id)
      BY <3>1 DEF ClearTimer
    <3>4. activeList # <<>>
          /\ entry[Head(activeList)].timePoint <= entry'[Head(activeList')].timePoint
      BY <1>0, <3>2, <3>3, FirstAfterStop
    <3> QED BY <3>4, <2>5, <2>6, <2>7
  <2>11. CASE StartsTimer /\ ~UNCHANGED timerVars
    <3>1. PICK a \in Actors, delay \in Delays, isInterval \in BOOLEAN, d \in BOOLEAN :
            CallTimer(a, delay, isInterval, d)
      BY <2>11 DEF StartsTimer
    <3>2. DataOf(d) \in Data /\ delay \in Int
      BY <2>11, <3>1, TimerStarts
    <3>3. PICK now \in Nat : Started(a, delay, isInterval, d, now)
      BY <2>11, <3>1, TimerStarts
    <3>4. StartTimer(isInterval, now, delay, DataOf(d))
      BY <3>3 DEF Started
    <3>5. CASE Timeout(now)' = Timeout(now)
      <4>1. activeList # <<>>
            /\ entry'[Head(activeList')].timePoint = entry[Head(activeList)].timePoint
        BY <1>0, <3>2, <3>4, <3>5, StartKeepsFirst
      <4> QED BY <4>1, <2>5, <2>6, <2>7
    <3>6. CASE Timeout(now)' # Timeout(now)
      <4>1. op' = [op EXCEPT ![a] = ToWake]
        BY <3>3, <3>6 DEF Started, SleepChanged
      <4>2. op'[a].k = "wake"
        BY <4>1, <1>0 DEF OpTypes, ToWake
      <4> QED BY <4>2 DEF WakePending
    <3> QED BY <3>5, <3>6
  <2> QED BY <2>8, <2>9, <2>10, <2>11, NextTimersMove
<1> QED BY <1>1, <1>2, NextToSleep

-----------------------------------------------------------------------------
(* The records of the book. *)
LEMMA NewRecord ==
  ASSUME NEW kind \in {"timer", "inline", "call", "callAndWait", "stop"}, NEW d \in BOOLEAN
  PROVE  LET r == New(kind, d) IN
         /\ r \in Registration /\ r.kind = kind /\ r.id = Invalid /\ r.every = 0
         /\ r.destroy = d /\ r.ran = 0 /\ r.freed = 0 /\ r.finished = FALSE /\ r.stopped = "no"
<1>1. Invalid \in Identifiers /\ 0 \in 0 .. 3 /\ 0 \in Int
  BY TableAssumption DEF Invalid, Identifiers, Positions
<1> QED BY <1>1, Zenon DEF New, Registration

\* One more wants no place: it is refused, or its handlers were called at once.
LEMMA RefusedRecord ==
  ASSUME NEW r \in Registration, NEW x \in 0 .. 3
  PROVE  LET q == [r EXCEPT !.stopped = "refused", !.freed = x] IN
         /\ q \in Registration /\ Fixed(q, r) /\ q.ran = r.ran /\ q.freed = x
         /\ q.finished = r.finished /\ q.stopped = "refused"
<1> DEFINE q == [r EXCEPT !.stopped = "refused"]
<1>1. q \in Registration /\ Fixed(q, r) /\ q.ran = r.ran /\ q.finished = r.finished
      /\ q.stopped = "refused"
  BY StoppedField
<1> HIDE DEF q
<1>2. [r EXCEPT !.stopped = "refused", !.freed = x] = [q EXCEPT !.freed = x]
  BY DEF q
<1> DEFINE p == [q EXCEPT !.freed = x]
<1>3. p \in Registration /\ Fixed(p, q) /\ p.ran = q.ran /\ p.freed = x
      /\ p.finished = q.finished /\ p.stopped = q.stopped
  BY <1>1, FreedField
<1> HIDE DEF p
<1>4. Fixed(p, r)
  BY <1>1, <1>3, Zenon DEF Fixed
<1> QED BY <1>1, <1>2, <1>3, <1>4 DEF p

InlineNew(d, x) == [New("inline", d) EXCEPT !.ran = 1, !.finished = TRUE, !.freed = x]
LEMMA InlineRecord ==
  ASSUME NEW d \in BOOLEAN, NEW x \in 0 .. 3
  PROVE  LET q == InlineNew(d, x) IN
         /\ q \in Registration /\ q.kind = "inline" /\ q.destroy = d
         /\ q.ran = 1 /\ q.freed = x /\ q.stopped = "no"
<1> DEFINE r == New("inline", d)
           q == [r EXCEPT !.ran = 1, !.finished = TRUE, !.freed = x]
<1>0. 1 \in 0 .. 3
  OBVIOUS
<1>1. r \in Registration /\ r.kind = "inline" /\ r.destroy = d /\ r.stopped = "no"
  BY NewRecord
<1> HIDE DEF r
<1>2. q \in Registration /\ q.kind = "inline" /\ q.destroy = d /\ q.ran = 1 /\ q.freed = x
      /\ q.stopped = "no"
  BY <1>0, <1>1, Zenon DEF Registration
<1>3. InlineNew(d, x) = q
  BY DEF q, r, InlineNew
<1> HIDE DEF q
<1> QED BY <1>2, <1>3

RefusedTimer(delay, isInterval, d) ==
  [[New("timer", d) EXCEPT !.every = IF isInterval THEN delay ELSE 0] EXCEPT !.stopped = "refused"]
LEMMA TimerRecord ==
  ASSUME LoopInv, NEW delay \in Int, NEW isInterval \in BOOLEAN, NEW d \in BOOLEAN, NEW now \in Nat
  PROVE  /\ LET z == RefusedTimer(delay, isInterval, d) IN
            /\ z \in Registration /\ z.kind = "timer" /\ z.id = Invalid
            /\ z.destroy = d /\ z.ran = 0 /\ z.freed = 0 /\ z.stopped = "refused"
         /\ freeList # <<>> =>
              LET q == NewTimer(delay, isInterval, d, now) IN
              /\ q \in Registration /\ q.kind = "timer" /\ q.id = IdOf(Head(freeList))
              /\ q.due = now + delay /\ q.every = IF isInterval THEN delay ELSE 0
              /\ q.destroy = d /\ q.ran = 0 /\ q.freed = 0 /\ q.stopped = "no"
<1> DEFINE n == New("timer", d)
           every == IF isInterval THEN delay ELSE 0
           r == [n EXCEPT !.every = every]
           id == IdOf(Head(freeList))
           due == now + delay
           q == [r EXCEPT !.id = id, !.due = due]
           z == [r EXCEPT !.stopped = "refused"]
<1>0. every \in Int /\ due \in Int
  OBVIOUS
<1>1. n \in Registration /\ n.kind = "timer" /\ n.id = Invalid /\ n.destroy = d
      /\ n.ran = 0 /\ n.freed = 0 /\ n.stopped = "no"
  BY NewRecord, ZenonT(60)
<1>2. NewTimer(delay, isInterval, d, now) = q /\ RefusedTimer(delay, isInterval, d) = z
  BY DEF NewTimer, RefusedTimer
<1>3. freeList # <<>> => id \in Identifiers
  <2> SUFFICES ASSUME freeList # <<>> PROVE id \in Identifiers
    OBVIOUS
  <2>1. freeList \in Seq(Positions) /\ entry \in [Positions -> Entries]
    BY DEF LoopInv, TimerInv, TimerTypeOK
  <2>2. Head(freeList) \in Positions
    BY <2>1
  <2> QED BY <2>1, <2>2 DEF IdOf, Identifiers, Entries
<1> HIDE DEF n, every, id, due
<1>4. r \in Registration /\ r.kind = "timer" /\ r.id = Invalid /\ r.destroy = d /\ r.every = every
      /\ r.ran = 0 /\ r.freed = 0 /\ r.stopped = "no"
  BY <1>0, <1>1, Zenon DEF Registration
<1> HIDE DEF r
<1>5. freeList # <<>> =>
        /\ q \in Registration /\ q.kind = "timer" /\ q.id = id /\ q.due = due /\ q.every = every
        /\ q.destroy = d /\ q.ran = 0 /\ q.freed = 0 /\ q.stopped = "no"
  BY <1>0, <1>3, <1>4, Zenon DEF Registration
<1>6. z \in Registration /\ z.kind = "timer" /\ z.id = Invalid
      /\ z.destroy = d /\ z.ran = 0 /\ z.freed = 0 /\ z.stopped = "refused"
  <2>1. z \in Registration /\ Fixed(z, r) /\ z.ran = r.ran /\ z.freed = r.freed
        /\ z.stopped = "refused"
    BY <1>4, StoppedField
  <2> HIDE DEF z
  <2> QED BY <1>4, <2>1, Zenon DEF Fixed
<1> HIDE DEF q, z
<1> QED BY <1>2, <1>5, <1>6 DEF id, due, every

\* The book as a step leaves it: one record more, or one record moved on.
Moved(u) ==
  \/ book' = Ran(u) \/ book' = Freed(u)
  \/ book' = [book EXCEPT ![u].finished = TRUE]
  \/ \E s \in {"loop", "thread"} : book' = [book EXCEPT ![u].stopped = s]
Grown == CanRegister /\ \E r \in Registration : book' = Append(book, r)

LEMMA RegisterGrows ==
  ASSUME LoopInv, Enqueues \/ Inline \/ StartsTimer
  PROVE  Grown
<1>0. 0 \in 0 .. 3 /\ 1 \in 0 .. 3
  OBVIOUS
<1>2. ASSUME Enqueues PROVE Grown
  <2>1. PICK a \in Actors, kind \in WorkKinds, d \in BOOLEAN : Enqueue(a, kind, d)
    BY <1>2 DEF Enqueues
  <2>2. kind \in {"timer", "inline", "call", "callAndWait", "stop"}
    BY DEF WorkKinds
  <2>3. New(kind, d) \in Registration
    BY <2>2, NewRecord, ZenonT(60)
  <2> DEFINE x == IF d THEN 1 ELSE 0
  <2>4. [New(kind, d) EXCEPT !.stopped = "refused", !.freed = x] \in Registration
    <3>1. x \in 0 .. 3
      BY <1>0
    <3> HIDE DEF x
    <3> QED BY <2>3, <3>1, RefusedRecord
  <2> QED BY <2>1, <2>3, <2>4 DEF Enqueue, Grown
<1>3. ASSUME Inline PROVE Grown
  <2>1. PICK d \in BOOLEAN : CallAndWaitInline(d)
    BY <1>3 DEF Inline
  <2> DEFINE x == IF d THEN 1 ELSE 0
  <2>2. [New("inline", d) EXCEPT !.ran = 1, !.finished = TRUE, !.freed = x] \in Registration
    <3>1. x \in 0 .. 3
      BY <1>0
    <3> HIDE DEF x
    <3> QED BY <3>1, InlineRecord DEF InlineNew
  <2> QED BY <2>1, <2>2 DEF CallAndWaitInline, Grown
<1>4. ASSUME StartsTimer PROVE Grown
  <2>1. PICK a \in Actors, delay \in Delays, isInterval \in BOOLEAN, d \in BOOLEAN :
          CallTimer(a, delay, isInterval, d)
    BY <1>4 DEF StartsTimer
  <2>2. delay \in Int /\ CanRegister
    BY <2>1, TimesAssumption DEF CallTimer
  <2>3. PICK now \in Nat :
          \/ freeList # <<>> /\ book' = Append(book, NewTimer(delay, isInterval, d, now))
          \/ book' = Append(book, RefusedTimer(delay, isInterval, d))
    BY <2>1 DEF CallTimer, StartTimer, StartRefused, NewTimer, RefusedTimer
  <2>4. freeList # <<>> => NewTimer(delay, isInterval, d, now) \in Registration
    BY <2>2, TimerRecord, ZenonT(60)
  <2>5. RefusedTimer(delay, isInterval, d) \in Registration
    BY <2>2, TimerRecord, ZenonT(60)
  <2> QED BY <2>2, <2>3, <2>4, <2>5 DEF Grown
<1> QED BY <1>2, <1>3, <1>4

LEMMA NextBookMoves ==
  ASSUME LoopInv, [Next]_vars
  PROVE  Grown \/ UNCHANGED book \/ \E u \in DOMAIN book : Moved(u)
<1>0. BookOK
  BY DEF LoopInv
<1>1. ASSUME NEW u, book' = Ran(u) \/ book' = Freed(u) \/ book' = [book EXCEPT ![u].finished = TRUE]
      PROVE  UNCHANGED book \/ \E v \in DOMAIN book : Moved(v)
  <2>1. CASE u \in DOMAIN book
    BY <1>1, <2>1 DEF Moved
  <2>2. CASE u \notin DOMAIN book
    <3>1. book = [v \in DOMAIN book |-> book[v]]
      BY <1>0 DEF BookOK
    <3> QED BY <1>1, <2>2, <3>1, Zenon DEF Ran, Freed
  <2> QED BY <2>1, <2>2
<1>2. CASE Enqueues \/ Inline \/ StartsTimer
  BY <1>2, RegisterGrows
<1>5. ASSUME StopsTimer PROVE \E u \in DOMAIN book : Moved(u)
  BY <1>5 DEF StopsTimer, ClearTimer, Moved
<1>6. CASE Continues
  BY <1>1, <1>6 DEF Continues, Continue, Wake, WaitReturns, DestroyStopped
<1>7. CASE Attaches \/ Detaches \/ Tick \/ Signal \/ SelectError \/ Inputs \/ UNCHANGED vars
  BY <1>7 DEF Attaches, Attach, Detaches, Detach, Tick, Signal, SelectError, Inputs, Input, vars
<1>8. CASE Finalizing
  BY <1>1, <1>8 DEF Finalizing, Finalize, FinalizeTimer, FinalizeWork, Finalized
<1>9. CASE HandlerReturns \/ DestroyReturns
  BY <1>1, <1>9 DEF HandlerReturns, DestroyReturns, Return, TellWaiter
<1>10. CASE LoopStep /\ ~HandlerReturns /\ ~DestroyReturns
  BY <1>1, <1>10 DEF LoopStep, Check, FillFDSet, SelectReady, SelectTimeout, ReadEvents, NoTimerDue,
     FireTimer, TakeWakeup, NextWork, Begin, WorkDone, CallSource, NoMessage
<1> QED BY <1>2, <1>5, <1>6, <1>7, <1>8, <1>9, <1>10, NextSteps

\* What registered stays registered, as what it was.
LEMMA NextBook ==
  ASSUME LoopInv, [Next]_vars
  PROVE  /\ BookOK' /\ Len(book') \in Nat /\ Len(book) <= Len(book')
         /\ DOMAIN book \subseteq DOMAIN book'
         /\ \A u \in DOMAIN book : Fixed(book'[u], book[u])
<1>0. BookOK
  BY DEF LoopInv
<1>1. \A u : Fixed(book[u], book[u])
  BY DEF Fixed
<1>2. CASE UNCHANGED book
  BY <1>0, <1>1, <1>2, BookDomain DEF BookOK
<1>3. CASE Grown
  BY <1>0, <1>1, <1>3, BookGrown, BookDomain DEF Grown
<1>4. ASSUME NEW u \in DOMAIN book, Moved(u)
      PROVE  /\ BookOK' /\ DOMAIN book' = DOMAIN book /\ Len(book') = Len(book)
             /\ \A v \in DOMAIN book : Fixed(book'[v], book[v])
  BY <1>0, <1>4, BookRan, BookFreed, BookFinished, BookStopped DEF Moved
<1> QED BY <1>0, <1>2, <1>3, <1>4, BookDomain, NextBookMoves

LEMMA NextLoopInv ==
  ASSUME LoopInv, SourceTable, [Next]_vars
  PROVE  LoopInv'
<1>1. WorkTypes' /\ WhereTypes' /\ WhereInv' /\ OpTypes' /\ TimeTypes' /\ SourceTypes'
  BY NextWorkTypes, NextWhere, NextOpTypes, NextTimeTypes, NextSourceTypes
<1>2. TimerInv' /\ TimerTypeOK'
  BY NextTimers DEF TimerInv
<1>3. BookOK'
  BY NextBook
<1>4. (LooperTypeOK /\ SizeCounts)'
  BY <1>1, <1>2, Types, PTL
<1> QED BY <1>1, <1>2, <1>3, <1>4 DEF LoopInv

-----------------------------------------------------------------------------
(* Each registration is in one hand only. *)
InHand == InCallback /\ (IsWork(cur) \/ cur.destroy)
LEMMA OneHolder ==
  ASSUME LoopInv, OwnInv
  PROVE  /\ \A i \in Positions : entry[i].active =>
              LET u == entry[i].data.u IN
              /\ u \in DOMAIN book
              /\ book[u].every = 0 => ~entry[i].isInterval /\ book[u].ran = 0
              /\ \A j \in Positions : entry[j].active /\ entry[j].data.u = u => j = i
              /\ \A k \in DOMAIN workList : workList[k].u # u
              /\ \A a \in Actors : op[a].k = "destroy" => op[a].u # u
              /\ InHand => cur.u # u
         /\ \A k \in DOMAIN workList :
              /\ \A a \in Actors : op[a].k = "destroy" => op[a].u # workList[k].u
              /\ InHand => cur.u # workList[k].u
         /\ InHand => \A a \in Actors : op[a].k = "destroy" => op[a].u # cur.u
<1>1. \A k \in DOMAIN workList : workList[k].kind \in {"call", "callAndWait", "stop"}
  <2>1. workList \in Seq(WorkItem)
    BY Types DEF LoopInv, WorkTypes
  <2> HIDE DEF WorkItem
  <2>2. \A k \in DOMAIN workList : workList[k] \in WorkItem
    BY <2>1
  <2> QED BY <2>2 DEF WorkItem, WorkKinds
<1>2. \A i \in Positions : entry[i].active => entry[i].timeout > 0
  BY DEF LoopInv, TimerInv, PeriodsPositive
<1>3. cur.kind = "timer" => ~IsWork(cur)
  BY DEF IsWork
<1>4. ASSUME NEW i \in Positions, entry[i].active
      PROVE  LET u == entry[i].data.u IN
             /\ u \in DOMAIN book
             /\ book[u].every = 0 => ~entry[i].isInterval /\ book[u].ran = 0
             /\ \A j \in Positions : entry[j].active /\ entry[j].data.u = u => j = i
             /\ \A k \in DOMAIN workList : workList[k].u # u
             /\ \A a \in Actors : op[a].k = "destroy" => op[a].u # u
             /\ InHand => cur.u # u
  <2> DEFINE u == entry[i].data.u
  <2>1. /\ u \in DOMAIN book /\ book[u].kind = "timer" /\ book[u].id = IdOf(i)
        /\ book[u].stopped = "no" /\ book[u].freed = 0
        /\ book[u].every = (IF entry[i].isInterval THEN entry[i].timeout ELSE 0)
        /\ ~entry[i].isInterval => book[u].ran = 0
    BY <1>4 DEF OwnInv, EntryOwner
  <2>2. book[u].every = 0 => ~entry[i].isInterval /\ book[u].ran = 0
    BY <1>2, <1>4, <2>1
  <2>3. ASSUME NEW j \in Positions, entry[j].active, entry[j].data.u = u PROVE j = i
    <3>1. book[u].id = IdOf(j)
      BY <2>3 DEF OwnInv, EntryOwner
    <3> QED BY <2>1, <3>1 DEF IdOf
  <2>4. \A k \in DOMAIN workList : workList[k].u # u
    BY <1>1, <2>1 DEF OwnInv, WorkOwner
  <2>5. \A a \in Actors : op[a].k = "destroy" => op[a].u # u
    BY <2>1 DEF OwnInv, OpOwner
  <2>6. InHand => cur.u # u
    <3> SUFFICES ASSUME InHand, cur.u = u PROVE FALSE
      OBVIOUS
    <3>1. book[u].kind = cur.kind /\ book[u].ran = 1 /\ (cur.kind = "timer" => book[u].every = 0)
      BY DEF OwnInv, CurOwner, InHand
    <3> QED BY <2>1, <2>2, <3>1
  <2> QED BY <2>1, <2>2, <2>3, <2>4, <2>5, <2>6
<1>5. ASSUME NEW k \in DOMAIN workList
      PROVE  /\ \A a \in Actors : op[a].k = "destroy" => op[a].u # workList[k].u
             /\ InHand => cur.u # workList[k].u
  <2>1. book[workList[k].u].stopped = "no" /\ book[workList[k].u].ran = 0
    BY DEF OwnInv, WorkOwner
  <2> QED BY <2>1 DEF OwnInv, OpOwner, CurOwner, InHand
<1>6. InHand => \A a \in Actors : op[a].k = "destroy" => op[a].u # cur.u
  BY DEF OwnInv, OpOwner, CurOwner, InHand
<1> QED BY <1>4, <1>5, <1>6

\* Conjuncts of OwnInv that a step leaves as they are.
LEMMA EntriesKept ==
  ASSUME EntryOwner, IdentifierKnown, GenerationsUsed, UNCHANGED entry,
         Len(book) \in Nat, Len(book') \in Nat, Len(book) <= Len(book'),
         \A i \in Positions : entry[i].gen \in Int,
         DOMAIN book \subseteq DOMAIN book',
         \A v \in DOMAIN book : Fixed(book'[v], book[v])
             /\ (book[v].stopped = "refused" => book'[v].stopped = "refused"),
         \A i \in Positions : entry[i].active =>
           book'[entry[i].data.u] = book[entry[i].data.u],
         \A v \in DOMAIN book' \ DOMAIN book : book'[v].kind = "timer" =>
           book'[v].stopped = "refused" /\ book'[v].id = Invalid
  PROVE  EntryOwner' /\ IdentifierKnown' /\ GenerationsUsed'
<1>1. EntryOwner'
  BY DEF EntryOwner, IdOf
<1>2. IdentifierKnown'
  <2> SUFFICES ASSUME NEW v \in DOMAIN book', book'[v].kind = "timer"
               PROVE  LET i == book'[v].id[2] IN
                      \/ book'[v].stopped = "refused" /\ book'[v].id = Invalid
                      \/ book'[v].id[1] < entry[i].gen
                      \/ entry[i].active /\ entry[i].data.u = v
    BY DEF IdentifierKnown, Invalid
  <2>1. CASE v \in DOMAIN book
    BY <2>1 DEF IdentifierKnown, Fixed
  <2> QED BY <2>1
<1>3. GenerationsUsed'
  <2> SUFFICES ASSUME NEW i \in Positions
               PROVE  entry[i].gen + (IF entry[i].active THEN 1 ELSE 0) <= Len(book')
    BY DEF GenerationsUsed
  <2>1. entry[i].gen + (IF entry[i].active THEN 1 ELSE 0) <= Len(book)
    BY DEF GenerationsUsed
  <2> QED BY <2>1
<1> QED BY <1>1, <1>2, <1>3

LEMMA WorkKept ==
  ASSUME WorkOwner, UNCHANGED workList, DOMAIN book \subseteq DOMAIN book',
         \A k \in DOMAIN workList : book'[workList[k].u] = book[workList[k].u]
  PROVE  WorkOwner'
BY DEF WorkOwner

LEMMA OpsKept ==
  ASSUME OpTypes, OpOwner, DOMAIN book \subseteq DOMAIN book',
         \A v \in DOMAIN book : Fixed(book'[v], book[v]),
         \A a \in Actors : op'[a].k = "destroy" =>
           op'[a] = op[a] /\ book'[op[a].u] = book[op[a].u],
         \A a \in Actors : op'[a].k = "wait" \/ (op'[a].k = "wake" /\ op'[a].u # 0) =>
           \/ op[a].k \in {"wait", "wake"} /\ op'[a].u = op[a].u /\ op[a].u # 0
           \/ op'[a].u \in DOMAIN book' /\ book'[op'[a].u].kind = "callAndWait"
           \/ op'[a] = op[a]
  PROVE  OpOwner'
<1>1. ASSUME NEW a \in Actors, op'[a].k = "destroy"
      PROVE  LET u == op'[a].u IN
             /\ u \in DOMAIN book'
             /\ book'[u].kind = "timer" /\ book'[u].stopped \in {"loop", "thread"}
             /\ book'[u].freed = 0 /\ book'[u].destroy
  BY <1>1 DEF OpOwner
<1>2. ASSUME NEW a \in Actors, NEW b \in Actors, op'[a].k = "destroy", op'[b].k = "destroy",
             op'[a].u = op'[b].u
      PROVE  a = b
  BY <1>2 DEF OpOwner
<1>3. ASSUME NEW a \in Actors, op'[a].k = "wait" \/ (op'[a].k = "wake" /\ op'[a].u # 0)
      PROVE  op'[a].u \in DOMAIN book' /\ book'[op'[a].u].kind = "callAndWait"
  <2>1. CASE op'[a].u \in DOMAIN book' /\ book'[op'[a].u].kind = "callAndWait"
    BY <2>1
  <2>2. CASE op[a].k \in {"wait", "wake"} /\ op'[a].u = op[a].u /\ op[a].u # 0
    <3>1. op[a].u \in DOMAIN book /\ book[op[a].u].kind = "callAndWait"
      BY <2>2 DEF OpOwner
    <3> QED BY <2>2, <3>1 DEF Fixed
  <2>3. CASE op'[a] = op[a]
    <3>1. op[a].u \in DOMAIN book /\ book[op[a].u].kind = "callAndWait"
      BY <1>3, <2>3 DEF OpOwner
    <3> QED BY <2>3, <3>1 DEF Fixed
  <2> QED BY <1>3, <2>1, <2>2, <2>3
<1> QED BY <1>1, <1>2, <1>3 DEF OpOwner

\* Steps that leave the book alone, and what it tells about.
LEMMA QuietOwn ==
  ASSUME LoopInv, OwnInv, UNCHANGED <<entry, workList, op, book>>,
         UNCHANGED <<pc, cur>> \/ ~InCallback' \/ cur' = Item("source", 0, FALSE)
  PROVE  OwnInv'
<1>1. EntryOwner' /\ IdentifierKnown' /\ GenerationsUsed' /\ WorkOwner' /\ OpOwner'
      /\ FinishedLast' /\ ReleasedOnce'
  BY DEF OwnInv, EntryOwner, IdentifierKnown, GenerationsUsed, WorkOwner, OpOwner,
     FinishedLast, ReleasedOnce, IdOf, Invalid
<1>2. CurOwner'
  BY DEF OwnInv, CurOwner, InCallback, IsWork, Item
<1> QED BY <1>1, <1>2 DEF OwnInv

\* Steps that register something.
LEMMA GrownOwn ==
  ASSUME LoopInv, OwnInv, CanRegister, NEW r \in Registration, book' = Append(book, r),
         UNCHANGED <<pc, cur>>,
         r.freed <= 1, r.ran <= 1, r.stopped # "no" => r.ran = 0,
         r.kind = "callAndWait" => ~r.finished
  PROVE  /\ CurOwner' /\ FinishedLast' /\ ReleasedOnce'
         /\ UNCHANGED workList => WorkOwner'
         /\ UNCHANGED entry /\ (r.kind = "timer" => r.stopped = "refused" /\ r.id = Invalid) =>
              EntryOwner' /\ IdentifierKnown' /\ GenerationsUsed'
         /\ UNCHANGED op => OpOwner'
<1> DEFINE u == Len(book) + 1
<1>0. /\ DOMAIN book' = DOMAIN book \cup {u} /\ u \notin DOMAIN book /\ Len(book') = u
      /\ book'[u] = r /\ Len(book) \in Nat /\ OpTypes
      /\ \A v \in DOMAIN book : book'[v] = book[v]
  BY BookGrown, BookDomain, Types DEF LoopInv
<1>1. \A v : Fixed(book[v], book[v])
  BY DEF Fixed
<1>2. CurOwner'
  BY <1>0 DEF OwnInv, CurOwner, InCallback, IsWork
<1>3. FinishedLast'
  BY <1>0 DEF OwnInv, FinishedLast
<1>4. ReleasedOnce'
  BY <1>0 DEF OwnInv, ReleasedOnce
<1>5. ASSUME UNCHANGED workList PROVE WorkOwner'
  <2>1. \A k \in DOMAIN workList : workList[k].u \in DOMAIN book
    BY DEF OwnInv, WorkOwner
  <2> QED BY <1>0, <1>5, <2>1, WorkKept DEF OwnInv
<1>6. ASSUME UNCHANGED entry, r.kind = "timer" => r.stopped = "refused" /\ r.id = Invalid
      PROVE  EntryOwner' /\ IdentifierKnown' /\ GenerationsUsed'
  <2>1. \A i \in Positions : entry[i].gen \in Int
    BY DEF LoopInv, TimerInv, TimerTypeOK, Entries
  <2>2. \A i \in Positions : entry[i].active => entry[i].data.u \in DOMAIN book
    BY DEF OwnInv, EntryOwner
  <2>3. \A v \in DOMAIN book' \ DOMAIN book : book'[v].kind = "timer" =>
          book'[v].stopped = "refused" /\ book'[v].id = Invalid
    BY <1>0, <1>6
  <2>4. Len(book) \in Nat /\ Len(book') \in Nat /\ Len(book) <= Len(book')
        /\ DOMAIN book \subseteq DOMAIN book'
    BY <1>0
  <2>5. EntryOwner /\ IdentifierKnown /\ GenerationsUsed
    BY DEF OwnInv
  <2> HIDE DEF u
  <2> QED BY <1>0, <1>1, <1>6, <2>1, <2>2, <2>3, <2>4, <2>5, EntriesKept
<1>7. \A a \in Actors : op[a].k = "destroy" => op[a].u \in DOMAIN book
  BY DEF OwnInv, OpOwner
<1>8. OpOwner /\ DOMAIN book \subseteq DOMAIN book'
  BY <1>0 DEF OwnInv
<1>9. ASSUME UNCHANGED op PROVE OpOwner'
  BY <1>0, <1>1, <1>7, <1>8, <1>9, OpsKept
<1> QED BY <1>2, <1>3, <1>4, <1>5, <1>6, <1>9

LEMMA GrownOps ==
  ASSUME LoopInv, OwnInv, CanRegister, NEW r \in Registration, book' = Append(book, r),
         NEW a \in Actors, NEW p \in Pending, op' = [op EXCEPT ![a] = p],
         p.k \notin {"destroy", "wait"},
         p.u # 0 => p.u = Len(book) + 1 /\ r.kind = "callAndWait"
  PROVE  OpOwner'
<1> DEFINE u == Len(book) + 1
<1>0. /\ DOMAIN book' = DOMAIN book \cup {u} /\ u \notin DOMAIN book /\ book'[u] = r /\ OpTypes
      /\ \A v \in DOMAIN book : book'[v] = book[v]
  BY BookGrown, BookDomain, Types DEF LoopInv
<1>1. \A v : Fixed(book[v], book[v])
  BY DEF Fixed
<1>2. OpOwner /\ DOMAIN book \subseteq DOMAIN book'
  BY <1>0 DEF OwnInv
<1>3. op'[a] = p /\ \A b \in Actors : b # a => op'[b] = op[b]
  BY <1>0 DEF OpTypes
<1>4. \A b \in Actors : op[b].k = "destroy" => op[b].u \in DOMAIN book
  BY <1>2 DEF OpOwner
<1>5. \A b \in Actors : op'[b].k = "destroy" => op'[b] = op[b] /\ book'[op[b].u] = book[op[b].u]
  BY <1>0, <1>3, <1>4
<1>6. \A b \in Actors : op'[b].k = "wait" \/ (op'[b].k = "wake" /\ op'[b].u # 0) =>
        \/ op'[b].u \in DOMAIN book' /\ book'[op'[b].u].kind = "callAndWait"
        \/ op'[b] = op[b]
  BY <1>0, <1>3
<1> QED BY <1>0, <1>1, <1>2, <1>5, <1>6, OpsKept

LEMMA InlineOwn ==
  ASSUME LoopInv, OwnInv, Inline
  PROVE  OwnInv'
<1>1. PICK d \in BOOLEAN : CallAndWaitInline(d)
  BY DEF Inline
<1> DEFINE x == IF d THEN 1 ELSE 0
           r == [New("inline", d) EXCEPT !.ran = 1, !.finished = TRUE, !.freed = x]
<1>2. x \in 0 .. 3 /\ x <= 1
  OBVIOUS
<1>3. book' = Append(book, r) /\ CanRegister /\ UNCHANGED <<entry, workList, op, pc, cur>>
  BY <1>1 DEF CallAndWaitInline, timerVars, dispatchVars, loopVars, runVars, callVars
<1> HIDE DEF x
<1>4. r \in Registration /\ r.kind = "inline" /\ r.ran = 1 /\ r.freed = x /\ r.stopped = "no"
  <2> HIDE DEF r
  <2>1. r = InlineNew(d, x)
    BY DEF r, InlineNew
  <2> QED BY <1>2, <2>1, InlineRecord
<1> HIDE DEF r
<1> QED BY <1>2, <1>3, <1>4, GrownOwn DEF OwnInv

LEMMA EnqueueOwn ==
  ASSUME LoopInv, OwnInv, Enqueues
  PROVE  OwnInv'
<1>1. PICK a \in Actors, kind \in WorkKinds, d \in BOOLEAN : Enqueue(a, kind, d)
  BY DEF Enqueues
<1>2. CanRegister /\ UNCHANGED <<entry, pc, cur>>
  BY <1>1 DEF Enqueue, timerVars, loopVars, runVars
<1>3. kind \in {"timer", "inline", "call", "callAndWait", "stop"} /\ kind # "timer"
  BY DEF WorkKinds
<1> DEFINE u == Len(book) + 1
           r == New(kind, d)
           w == Item(kind, u, d)
<1>4. /\ r \in Registration /\ r.kind = kind /\ r.destroy = d /\ r.ran = 0 /\ r.freed = 0
      /\ r.finished = FALSE /\ r.stopped = "no"
  BY <1>3, NewRecord, ZenonT(60)
<1> HIDE DEF r
<1>5. CASE Push(w) /\ op' = [op EXCEPT ![a] = AfterPush(kind, u)] /\ book' = Append(book, r)
  <2>1. /\ CurOwner' /\ FinishedLast' /\ ReleasedOnce'
        /\ EntryOwner' /\ IdentifierKnown' /\ GenerationsUsed'
    BY <1>2, <1>3, <1>4, <1>5, GrownOwn
  <2>2. OpOwner'
    <3> DEFINE p == AfterPush(kind, u)
    <3>1. /\ p \in Pending /\ p.k # "destroy" /\ p.k # "wait"
          /\ p.u # 0 => p.u = Len(book) + 1 /\ kind = "callAndWait"
      BY <1>2, BookDomain, LooperAssumption DEF LoopInv, CanRegister, AfterPush, Pending
    <3>2. op' = [op EXCEPT ![a] = p]
      BY <1>5
    <3> HIDE DEF p
    <3> QED BY <1>2, <1>4, <1>5, <3>1, <3>2, GrownOps, ZenonT(60)
  <2>3. WorkOwner'
    <3>1. w \in WorkItem /\ WorkTypes
      BY <1>2, PushedItem, Types DEF LoopInv
    <3>2. /\ DOMAIN workList = 1 .. Len(workList) /\ DOMAIN workList' = 1 .. Len(workList) + 1
          /\ workList'[Len(workList) + 1] = w
          /\ \A k \in 1 .. Len(workList) : workList'[k] = workList[k]
      BY <1>5, <3>1, Pushed
    <3>3. Len(workList) \in Nat
      BY <3>1 DEF WorkTypes
    <3>4. w.kind = kind /\ w.u = u /\ w.destroy = d
      BY DEF Item
    <3>5. /\ DOMAIN book' = DOMAIN book \cup {u} /\ u \notin DOMAIN book /\ book'[u] = r
          /\ \A v \in DOMAIN book : book'[v] = book[v]
      BY <1>2, <1>4, <1>5, BookGrown DEF LoopInv
    <3>6. \A k \in 1 .. Len(workList) : workList[k].u \in DOMAIN book
      BY <3>2 DEF OwnInv, WorkOwner
    <3> HIDE DEF u, w
    <3>7. ASSUME NEW k \in DOMAIN workList'
          PROVE  LET v == workList'[k].u IN
                 /\ v \in DOMAIN book'
                 /\ book'[v].kind = workList'[k].kind /\ book'[v].destroy = workList'[k].destroy
                 /\ book'[v].stopped = "no" /\ book'[v].ran = 0 /\ book'[v].freed = 0
                 /\ ~book'[v].finished
      <4>1. CASE k = Len(workList) + 1
        BY <1>4, <3>2, <3>4, <3>5, <4>1
      <4>2. CASE k # Len(workList) + 1
        <5>1. k \in 1 .. Len(workList)
          BY <3>2, <3>3, <4>2
        <5> QED BY <3>2, <3>5, <3>6, <5>1 DEF OwnInv, WorkOwner
      <4> QED BY <4>1, <4>2
    <3>8. ASSUME NEW j \in DOMAIN workList', NEW k \in DOMAIN workList',
                 workList'[j].u = workList'[k].u
          PROVE  j = k
      <4>1. \A i \in DOMAIN workList' : i # Len(workList) + 1 =>
              i \in DOMAIN workList /\ workList'[i] = workList[i] /\ workList'[i].u # u
        BY <3>2, <3>3, <3>5, <3>6
      <4> QED BY <3>2, <3>4, <3>8, <4>1 DEF OwnInv, WorkOwner
    <3> QED BY <3>7, <3>8 DEF WorkOwner
  <2> QED BY <2>1, <2>2, <2>3 DEF OwnInv
<1>6. CASE /\ book' = Append(book, [r EXCEPT !.stopped = "refused", !.freed = IF d THEN 1 ELSE 0])
           /\ UNCHANGED <<dispatchVars, op>>
  <2> DEFINE x == IF d THEN 1 ELSE 0
             q == [r EXCEPT !.stopped = "refused", !.freed = x]
  <2>1. x \in 0 .. 3 /\ x <= 1
    OBVIOUS
  <2>2. book' = Append(book, q) /\ UNCHANGED <<workList, op>>
    BY <1>6, SMTT(60) DEF dispatchVars
  <2> HIDE DEF x
  <2>3. /\ q \in Registration /\ q.kind = kind /\ q.freed = x /\ q.ran = 0 /\ q.finished = FALSE
    BY <1>4, <2>1, RefusedRecord DEF Fixed
  <2> HIDE DEF q
  <2> QED BY <1>2, <1>3, <2>1, <2>2, <2>3, GrownOwn DEF OwnInv
<1> QED BY <1>1, <1>5, <1>6 DEF Enqueue, r

LEMMA StartOwn ==
  ASSUME LoopInv, OwnInv, StartsTimer
  PROVE  OwnInv'
<1>1. PICK a \in Actors, delay \in Delays, isInterval \in BOOLEAN, d \in BOOLEAN :
        CallTimer(a, delay, isInterval, d)
  BY DEF StartsTimer
<1>2. delay \in Int /\ CanRegister /\ UNCHANGED <<workList, pc, cur>>
  BY <1>1, TimesAssumption DEF CallTimer, dispatchVars, loopVars, runVars
<1>3. CASE book' = Append(book, RefusedTimer(delay, isInterval, d)) /\ UNCHANGED <<timerVars, op>>
  <2> DEFINE r == RefusedTimer(delay, isInterval, d)
  <2>1. /\ r \in Registration /\ r.kind = "timer" /\ r.id = Invalid
        /\ r.ran = 0 /\ r.freed = 0 /\ r.stopped = "refused"
    BY <1>2, TimerRecord
  <2>2. UNCHANGED entry /\ book' = Append(book, r)
    BY <1>3 DEF timerVars
  <2> HIDE DEF r
  <2> QED BY <1>2, <1>3, <2>1, <2>2, GrownOwn DEF OwnInv
<1>4. ASSUME NEW now \in Nat, Started(a, delay, isInterval, d, now)
      PROVE  OwnInv'
  <2> DEFINE r == NewTimer(delay, isInterval, d, now)
             data == DataOf(d)
             u == Len(book) + 1
             p == IF SleepChanged(Timeout(now), Timeout(now)') THEN ToWake ELSE Idle
  <2>1. /\ StartTimer(isInterval, now, delay, data) /\ freeList # <<>>
        /\ op' = [op EXCEPT ![a] = p] /\ book' = Append(book, r)
    BY <1>4 DEF Started, StartTimer, StartRefused
  <2>2. data \in Data /\ data.u = u /\ data.destroy = d
    BY <1>2, BookDomain, LooperAssumption DEF DataOf, CanRegister, LoopInv
  <2>3. TimerInv
    BY DEF LoopInv
  <2>4. PICK i \in Positions :
          /\ i = Head(freeList) /\ ~entry[i].active
          /\ entry'[i].active /\ entry'[i].gen = entry[i].gen /\ entry'[i].data = data
          /\ entry'[i].isInterval = isInterval /\ entry'[i].timeout = delay
          /\ \A j \in Positions : j # i => entry'[j] = entry[j]
    <3> HIDE DEF data
    <3>1. now \in Int
      OBVIOUS
    <3> QED BY <1>2, <2>1, <2>2, <2>3, <3>1, StartedEntry
  <2>5. /\ r \in Registration /\ r.kind = "timer" /\ r.id = IdOf(i)
        /\ r.every = (IF isInterval THEN delay ELSE 0)
        /\ r.destroy = d /\ r.ran = 0 /\ r.freed = 0 /\ r.stopped = "no"
    <3> HIDE DEF data, p
    <3>1. freeList # <<>> =>
            /\ r \in Registration /\ r.kind = "timer" /\ r.id = IdOf(Head(freeList))
            /\ r.every = (IF isInterval THEN delay ELSE 0)
            /\ r.destroy = d /\ r.ran = 0 /\ r.freed = 0 /\ r.stopped = "no"
      BY <1>2, TimerRecord
    <3> HIDE DEF r
    <3> QED BY <2>1, <2>4, <3>1
  <2>6. p \in Pending /\ p.k \notin {"destroy", "wait"} /\ p.u = 0
    BY LooperAssumption DEF ToWake, Idle, Pending
  <2> HIDE DEF data, r, p
  <2>7. /\ DOMAIN book' = DOMAIN book \cup {u} /\ u \notin DOMAIN book /\ Len(book') = u
        /\ book'[u] = r /\ Len(book) \in Nat
        /\ \A v \in DOMAIN book : book'[v] = book[v]
    BY <1>2, <2>1, <2>5, BookGrown, BookDomain DEF LoopInv
  <2>8. CurOwner' /\ FinishedLast' /\ ReleasedOnce' /\ WorkOwner'
    BY <1>2, <2>1, <2>5, GrownOwn
  <2>9. OpOwner'
    BY <1>2, <2>1, <2>5, <2>6, GrownOps
  <2>10. IdOf(i)' = IdOf(i)
    BY <2>4 DEF IdOf
  <2> HIDE DEF u
  <2>11. EntryOwner'
    <3> SUFFICES ASSUME NEW j \in Positions, entry'[j].active
                 PROVE  LET v == entry'[j].data.u IN
                        /\ v \in DOMAIN book'
                        /\ book'[v].kind = "timer" /\ book'[v].id = IdOf(j)'
                        /\ book'[v].stopped = "no" /\ book'[v].freed = 0
                        /\ book'[v].destroy = entry'[j].data.destroy
                        /\ book'[v].every = IF entry'[j].isInterval THEN entry'[j].timeout ELSE 0
                        /\ ~entry'[j].isInterval => book'[v].ran = 0
      BY DEF EntryOwner
    <3>1. CASE j = i
      BY <2>2, <2>4, <2>5, <2>7, <2>10, <3>1
    <3>2. CASE j # i
      <4>1. entry'[j] = entry[j] /\ IdOf(j)' = IdOf(j)
        BY <2>4, <3>2 DEF IdOf
      <4> QED BY <2>7, <4>1 DEF OwnInv, EntryOwner
    <3> QED BY <3>1, <3>2
  <2>12. IdentifierKnown'
    <3> SUFFICES ASSUME NEW v \in DOMAIN book', book'[v].kind = "timer"
                 PROVE  LET j == book'[v].id[2] IN
                        \/ book'[v].stopped = "refused" /\ book'[v].id = Invalid
                        \/ book'[v].id[1] < entry'[j].gen
                        \/ entry'[j].active /\ entry'[j].data.u = v
      BY DEF IdentifierKnown, Invalid
    <3>1. CASE v = u
      <4>1. book'[v].id[2] = i
        BY <2>5, <2>7, <3>1 DEF IdOf
      <4> QED BY <2>2, <2>4, <3>1, <4>1
    <3>2. CASE v \in DOMAIN book
      <4>1. book'[v] = book[v]
        BY <2>7, <3>2
      <4>2. book[v].id[2] \in Positions
        BY <3>2, BookDomain DEF LoopInv, Registration, Identifiers
      <4>3. CASE book[v].id[2] = i
        BY <2>4, <3>2, <4>1, <4>3 DEF OwnInv, IdentifierKnown
      <4>4. CASE book[v].id[2] # i
        BY <2>4, <3>2, <4>1, <4>2, <4>4 DEF OwnInv, IdentifierKnown
      <4> QED BY <4>3, <4>4
    <3> QED BY <2>7, <3>1, <3>2
  <2>13. GenerationsUsed'
    <3> SUFFICES ASSUME NEW j \in Positions
                 PROVE  entry'[j].gen + (IF entry'[j].active THEN 1 ELSE 0) <= Len(book')
      BY DEF GenerationsUsed
    <3>1. entry[j].gen + (IF entry[j].active THEN 1 ELSE 0) <= Len(book)
      BY DEF OwnInv, GenerationsUsed
    <3>2. entry[j].gen \in Int
      BY <2>3 DEF TimerInv, TimerTypeOK, Entries
    <3>3. CASE j = i
      BY <2>4, <2>7, <3>1, <3>2, <3>3 DEF u
    <3>4. CASE j # i
      BY <2>4, <2>7, <3>1, <3>2, <3>4 DEF u
    <3> QED BY <3>3, <3>4
  <2> QED BY <2>8, <2>9, <2>11, <2>12, <2>13 DEF OwnInv
<1>5. \/ book' = Append(book, RefusedTimer(delay, isInterval, d)) /\ UNCHANGED <<timerVars, op>>
      \/ \E now \in Nat : Started(a, delay, isInterval, d, now)
  BY <1>1 DEF CallTimer, Started, NewTimer, RefusedTimer, DataOf
<1> QED BY <1>3, <1>4, <1>5

\* As long as an identifier is not used twice.
IdentifiersLast == MaxReg < Generations

\* Steps that release an entry.
LEMMA ReleaseOwn ==
  ASSUME LoopInv, OwnInv, IdentifiersLast, NEW i \in Positions, entry[i].active,
         entry' = [entry EXCEPT ![i] = Released(@)],
         DOMAIN book' = DOMAIN book, Len(book') = Len(book),
         \A v \in DOMAIN book : /\ Fixed(book'[v], book[v])
                                /\ v # entry[i].data.u => book'[v] = book[v]
  PROVE  EntryOwner' /\ IdentifierKnown' /\ GenerationsUsed'
<1> DEFINE u == entry[i].data.u
<1>0. TimerInv /\ MaxReg \in Nat /\ Generations \in Nat /\ Len(book) \in Nat /\ Len(book) <= MaxReg
  BY LooperAssumption, TableAssumption, BookDomain DEF LoopInv
<1>1. \A j \in Positions : entry[j].gen \in Nat
  BY <1>0 DEF TimerInv, TimerTypeOK, Entries
<1>2. entry[i].gen + 1 <= Len(book)
  BY DEF OwnInv, GenerationsUsed
<1>3. /\ entry'[i].gen = entry[i].gen + 1 /\ ~entry'[i].active
      /\ \A j \in Positions : j # i => entry'[j] = entry[j]
  <2>1. (entry[i].gen + 1) % Generations = entry[i].gen + 1
    <3>1. entry[i].gen + 1 \in Nat /\ entry[i].gen + 1 < Generations
      BY <1>0, <1>1, <1>2 DEF IdentifiersLast
    <3>2. \A g \in Nat : g < Generations => g % Generations = g
      BY <1>0
    <3> QED BY <3>1, <3>2
  <2> QED BY <1>0, <2>1, ReleasedFields
<1>4. EntryOwner'
  <2> SUFFICES ASSUME NEW j \in Positions, entry'[j].active
               PROVE  LET v == entry'[j].data.u IN
                      /\ v \in DOMAIN book'
                      /\ book'[v].kind = "timer" /\ book'[v].id = IdOf(j)'
                      /\ book'[v].stopped = "no" /\ book'[v].freed = 0
                      /\ book'[v].destroy = entry'[j].data.destroy
                      /\ book'[v].every = IF entry'[j].isInterval THEN entry'[j].timeout ELSE 0
                      /\ ~entry'[j].isInterval => book'[v].ran = 0
    BY DEF EntryOwner
  <2>1. j # i /\ entry'[j] = entry[j] /\ IdOf(j)' = IdOf(j)
    BY <1>3 DEF IdOf
  <2>2. entry[j].data.u # u
    BY <2>1, OneHolder
  <2>3. entry[j].data.u \in DOMAIN book
    BY <2>1, OneHolder
  <2>4. book'[entry[j].data.u] = book[entry[j].data.u]
    BY <2>2, <2>3
  <2> QED BY <2>1, <2>3, <2>4 DEF OwnInv, EntryOwner
<1>5. IdentifierKnown'
  <2> SUFFICES ASSUME NEW v \in DOMAIN book, book'[v].kind = "timer"
               PROVE  LET j == book'[v].id[2] IN
                      \/ book'[v].stopped = "refused" /\ book'[v].id = Invalid
                      \/ book'[v].id[1] < entry'[j].gen
                      \/ entry'[j].active /\ entry'[j].data.u = v
    BY DEF IdentifierKnown, Invalid
  <2>1. book'[v].id = book[v].id /\ book[v].kind = "timer"
    BY DEF Fixed
  <2>2. book[v].id \in Identifiers
    BY BookDomain DEF LoopInv, Registration
  <2>3. book[v].id[1] \in Nat /\ book[v].id[2] \in Positions
    BY <2>2, <1>0 DEF Identifiers
  <2>4. v = u => book[v].id = IdOf(i)
    BY DEF OwnInv, EntryOwner
  <2>5. CASE book[v].id[2] = i
    <3>1. \/ book[v].stopped = "refused" /\ book[v].id = Invalid /\ v # u
          \/ book[v].id[1] < entry[i].gen
          \/ v = u
      BY <2>1, <2>5 DEF OwnInv, IdentifierKnown, EntryOwner
    <3>2. CASE v = u
      <4>1. book[v].id[1] = entry[i].gen
        BY <2>4, <3>2 DEF IdOf
      <4> QED BY <4>1, <1>1, <1>3, <2>1, <2>5
    <3>3. CASE v # u
      <4>1. book'[v] = book[v]
        BY <3>3
      <4> QED BY <3>1, <3>3, <4>1, <1>1, <1>3, <2>3, <2>5
    <3> QED BY <3>2, <3>3
  <2>6. CASE book[v].id[2] # i
    <3>1. v # u
      BY <2>4, <2>6 DEF IdOf
    <3>2. book'[v] = book[v] /\ entry'[book[v].id[2]] = entry[book[v].id[2]]
      BY <1>3, <2>3, <2>6, <3>1
    <3> QED BY <2>1, <3>2 DEF OwnInv, IdentifierKnown
  <2> QED BY <2>5, <2>6
<1>6. GenerationsUsed'
  <2> SUFFICES ASSUME NEW j \in Positions
               PROVE  entry'[j].gen + (IF entry'[j].active THEN 1 ELSE 0) <= Len(book')
    BY DEF GenerationsUsed
  <2>1. CASE j = i
    BY <1>0, <1>1, <1>2, <1>3, <2>1
  <2>2. CASE j # i
    BY <1>3, <2>2 DEF OwnInv, GenerationsUsed
  <2> QED BY <2>1, <2>2
<1> QED BY <1>4, <1>5, <1>6

\* The timer that is stopped runs, and it is the one that was meant.
LEMMA StoppedRuns ==
  ASSUME LoopInv, OwnInv, NEW a \in Actors, NEW u \in DOMAIN book, ClearTimer(a, u)
  PROVE  LET i == book[u].id[2] IN
         /\ i \in Positions /\ entry[i].active /\ entry[i].data.u = u
         /\ entry' = [entry EXCEPT ![i] = Released(@)]
         /\ book[u].kind = "timer" /\ book[u].stopped = "no" /\ book[u].freed = 0
         /\ book[u].destroy = entry[i].data.destroy
<1> DEFINE i == book[u].id[2]
<1>1. book[u] \in Registration
  BY BookDomain DEF LoopInv
<1>2. i \in Positions
  BY <1>1 DEF Registration, Identifiers
<1>3. /\ book[u].id # Invalid /\ entry[i].gen = book[u].id[1] /\ entry[i].active
      /\ entry' = [entry EXCEPT ![i] = Released(@)] /\ book[u].kind = "timer"
  BY DEF ClearTimer, StopTimer, Runs
<1>4. entry[i].data.u = u
  <2>1. entry[i].gen \in Nat
    BY <1>2 DEF LoopInv, TimerInv, TimerTypeOK, Entries
  <2> QED BY <1>3, <2>1 DEF OwnInv, IdentifierKnown
<1> HIDE DEF i
<1>5. book[u].stopped = "no" /\ book[u].freed = 0 /\ book[u].destroy = entry[i].data.destroy
  BY <1>2, <1>3, <1>4 DEF OwnInv, EntryOwner
<1> QED BY <1>2, <1>3, <1>4, <1>5 DEF i

LEMMA StopOwn ==
  ASSUME LoopInv, OwnInv, IdentifiersLast, StopsTimer
  PROVE  OwnInv'
<1>1. PICK a \in Actors, u \in DOMAIN book : ClearTimer(a, u)
  BY DEF StopsTimer
<1> DEFINE i == book[u].id[2]
           p == IF entry[i].data.destroy THEN [k |-> "destroy", u |-> entry[i].data.u] ELSE Idle
           s == IF a = Loop THEN "loop" ELSE "thread"
<1>2. book[u] \in Registration /\ BookOK /\ OpTypes
  BY BookDomain, Types DEF LoopInv
<1>4. /\ book[u].kind = "timer" /\ StopTimer(book[u].id) /\ op[a] = Idle
      /\ op' = [op EXCEPT ![a] = p] /\ book' = [book EXCEPT ![u].stopped = s]
      /\ UNCHANGED <<workList, pc, cur>>
  BY <1>1 DEF ClearTimer, CanCall, dispatchVars, loopVars, runVars
<1>5. s \in {"loop", "thread"}
  OBVIOUS
<1>6. /\ i \in Positions /\ entry[i].active /\ entry[i].data.u = u
      /\ entry' = [entry EXCEPT ![i] = Released(@)]
      /\ book[u].stopped = "no" /\ book[u].freed = 0 /\ book[u].destroy = entry[i].data.destroy
  BY <1>1, StoppedRuns
<1> HIDE DEF s
<1>8. /\ BookOK' /\ DOMAIN book' = DOMAIN book /\ Len(book') = Len(book)
      /\ \A v \in DOMAIN book :
           /\ Fixed(book'[v], book[v]) /\ book'[v].ran = book[v].ran
           /\ book'[v].freed = book[v].freed /\ book'[v].finished = book[v].finished
           /\ v = u => book'[v].stopped = s
           /\ v # u => book'[v] = book[v]
  BY <1>2, <1>4, <1>5, BookStopped
<1>9. /\ book[u].stopped = "no" /\ book[u].freed = 0 /\ book[u].destroy = entry[i].data.destroy
      /\ book[u].every = 0 => book[u].ran = 0
      /\ \A k \in DOMAIN workList : workList[k].u # u
      /\ \A b \in Actors : op[b].k = "destroy" => op[b].u # u
      /\ InHand => cur.u # u
  <2> HIDE DEF i
  <2> QED BY <1>6, OneHolder
<1>10. p = (IF book[u].destroy THEN [k |-> "destroy", u |-> u] ELSE Idle)
  BY <1>6, <1>9
<1> HIDE DEF i, p
<1>11. EntryOwner' /\ IdentifierKnown' /\ GenerationsUsed'
  BY <1>6, <1>8, ReleaseOwn
<1>12. WorkOwner'
  <2>1. \A k \in DOMAIN workList : workList[k].u \in DOMAIN book
    BY DEF OwnInv, WorkOwner
  <2> QED BY <1>4, <1>8, <1>9, <2>1, WorkKept DEF OwnInv
<1>13. CurOwner'
  BY <1>4, <1>8, <1>9 DEF OwnInv, CurOwner, InHand, InCallback, IsWork
<1>14. OpOwner'
  <2>1. op'[a] = p /\ \A b \in Actors : b # a => op'[b] = op[b]
    BY <1>2, <1>4 DEF OpTypes
  <2>2. \A b \in Actors : b # a /\ op[b].k = "destroy" =>
          op[b].u \in DOMAIN book /\ op[b].u # u /\ book'[op[b].u] = book[op[b].u]
    BY <1>8, <1>9 DEF OwnInv, OpOwner
  <2>3. ASSUME NEW b \in Actors, op'[b].k = "destroy"
        PROVE  LET v == op'[b].u IN
               /\ v \in DOMAIN book'
               /\ book'[v].kind = "timer" /\ book'[v].stopped \in {"loop", "thread"}
               /\ book'[v].freed = 0 /\ book'[v].destroy
    <3>1. CASE b = a
      <4>1. op'[b].u = u /\ book[u].destroy
        BY <1>10, <2>1, <2>3, <3>1 DEF Idle
      <4> QED BY <1>4, <1>5, <1>8, <1>9, <4>1 DEF Fixed
    <3>2. CASE b # a
      BY <1>8, <2>1, <2>2, <2>3, <3>2 DEF OwnInv, OpOwner
    <3> QED BY <3>1, <3>2
  <2>4. \A b, c \in Actors :
          op'[b].k = "destroy" /\ op'[c].k = "destroy" /\ op'[b].u = op'[c].u => b = c
    <3>1. op'[a].k = "destroy" => op'[a].u = u
      BY <1>10, <2>1 DEF Idle
    <3> QED BY <2>1, <2>2, <3>1 DEF OwnInv, OpOwner
  <2>5. ASSUME NEW b \in Actors, op'[b].k = "wait" \/ (op'[b].k = "wake" /\ op'[b].u # 0)
        PROVE  op'[b].u \in DOMAIN book' /\ book'[op'[b].u].kind = "callAndWait"
    <3>1. b # a
      BY <1>10, <2>1, <2>5 DEF Idle
    <3> QED BY <1>8, <2>1, <2>5, <3>1 DEF OwnInv, OpOwner, Fixed
  <2> QED BY <2>3, <2>4, <2>5 DEF OpOwner
<1>15. FinishedLast'
  BY <1>8 DEF OwnInv, FinishedLast, Fixed
<1>16. ReleasedOnce'
  BY <1>4, <1>8, <1>9 DEF OwnInv, ReleasedOnce, Fixed
<1> QED BY <1>11, <1>12, <1>13, <1>14, <1>15, <1>16 DEF OwnInv

\* What an active entry's registration says, and what BookRan and BookFreed make of it.
LEMMA EntryRegistered ==
  ASSUME LoopInv, OwnInv, NEW i \in Positions, entry[i].active
  PROVE  LET u == entry[i].data.u IN
         /\ u \in DOMAIN book /\ book[u].kind = "timer" /\ book[u].stopped = "no"
         /\ book[u].freed = 0 /\ book[u].destroy = entry[i].data.destroy
         /\ book[u].every = 0 <=> ~entry[i].isInterval
         /\ ~entry[i].isInterval => book[u].ran = 0
         /\ book[u] \in Registration
<1>1. entry[i].timeout > 0
  BY DEF LoopInv, TimerInv, PeriodsPositive
<1> QED BY <1>1, BookDomain DEF LoopInv, OwnInv, EntryOwner

LEMMA CountsFromZero == Bump(0) = 1
BY DEF Bump

LEMMA FireOwn ==
  ASSUME LoopInv, OwnInv, IdentifiersLast, FireTimer
  PROVE  OwnInv'
<1>1. PICK i \in Positions :
        /\ i = Head(activeList) /\ entry[i].active /\ entry[i] \in Entries
        /\ cur' = Item("timer", entry[i].data.u, ReleasedAfter(entry[i]))
  BY FiredItem
<1> DEFINE u == entry[i].data.u
<1>2. /\ book' = Ran(u) /\ pc' = "handle" /\ UNCHANGED <<workList, op>>
      /\ ShiftTimer(poolTime)
  BY <1>1 DEF FireTimer, dispatchVars, callVars
<1>3. /\ u \in DOMAIN book /\ book[u].kind = "timer" /\ book[u].stopped = "no"
      /\ book[u].freed = 0 /\ book[u].destroy = entry[i].data.destroy
      /\ book[u].every = 0 <=> ~entry[i].isInterval
      /\ ~entry[i].isInterval => book[u].ran = 0
  BY <1>1, EntryRegistered
<1>4. /\ \A k \in DOMAIN workList : workList[k].u # u
      /\ \A b \in Actors : op[b].k = "destroy" => op[b].u # u
  BY <1>1, OneHolder
<1> HIDE DEF u
<1>5. /\ BookOK' /\ DOMAIN book' = DOMAIN book /\ Len(book') = Len(book)
      /\ \A v \in DOMAIN book :
           /\ Fixed(book'[v], book[v]) /\ book'[v].freed = book[v].freed
           /\ book'[v].finished = book[v].finished /\ book'[v].stopped = book[v].stopped
           /\ book'[v].ran = (IF v = u THEN Bump(book[v].ran) ELSE book[v].ran)
           /\ v # u => book'[v] = book[v]
  BY <1>2, <1>3, BookRan DEF LoopInv
<1>6. ~entry[i].isInterval => book'[u].ran = 1
  BY <1>3, <1>5, CountsFromZero
<1>7. EntryOwner' /\ IdentifierKnown' /\ GenerationsUsed'
  <2>1. CASE ~entry[i].isInterval
    <3>1. entry' = [entry EXCEPT ![i] = Released(@)]
      BY <1>1, <1>2, <2>1 DEF ShiftTimer, KeepsRunning
    <3> QED BY <1>1, <1>5, <3>1, ReleaseOwn DEF u
  <2>2. CASE entry[i].isInterval
    <3>1. entry' = [entry EXCEPT ![i] = Rearmed(@, poolTime)]
      BY <1>1, <1>2, <2>2 DEF ShiftTimer, KeepsRunning
    <3>2. entry \in [Positions -> Entries]
      BY DEF LoopInv, TimerInv, TimerTypeOK
    <3>3. \A j \in Positions :
            /\ entry'[j].gen = entry[j].gen /\ entry'[j].active = entry[j].active
            /\ entry'[j].isInterval = entry[j].isInterval
            /\ entry'[j].timeout = entry[j].timeout /\ entry'[j].data = entry[j].data
      <4>1. \A j \in Positions : j # i => entry'[j] = entry[j]
        BY <3>1, <3>2
      <4>2. entry'[i] = Rearmed(entry[i], poolTime)
        BY <3>1, <3>2
      <4>3. /\ Rearmed(entry[i], poolTime).gen = entry[i].gen
            /\ Rearmed(entry[i], poolTime).active = entry[i].active
            /\ Rearmed(entry[i], poolTime).isInterval = entry[i].isInterval
            /\ Rearmed(entry[i], poolTime).timeout = entry[i].timeout
            /\ Rearmed(entry[i], poolTime).data = entry[i].data
        BY <1>1, Zenon DEF Rearmed, Entries
      <4> QED BY <4>1, <4>2, <4>3
    <3>4. \A j : IdOf(j)' = <<entry'[j].gen, j>> /\ IdOf(j) = <<entry[j].gen, j>>
      BY DEF IdOf
    <3>5. EntryOwner'
      <4> SUFFICES ASSUME NEW j \in Positions, entry'[j].active
                   PROVE  LET v == entry'[j].data.u IN
                          /\ v \in DOMAIN book'
                          /\ book'[v].kind = "timer" /\ book'[v].id = IdOf(j)'
                          /\ book'[v].stopped = "no" /\ book'[v].freed = 0
                          /\ book'[v].destroy = entry'[j].data.destroy
                          /\ book'[v].every = IF entry'[j].isInterval THEN entry'[j].timeout ELSE 0
                          /\ ~entry'[j].isInterval => book'[v].ran = 0
        BY DEF EntryOwner
      <4> DEFINE v == entry[j].data.u
      <4>1. entry[j].active /\ v \in DOMAIN book /\ IdOf(j)' = IdOf(j) /\ (v = u => j = i)
        BY <1>1, <3>3, <3>4, OneHolder DEF u
      <4>2. /\ book[v].kind = "timer" /\ book[v].id = IdOf(j)
            /\ book[v].stopped = "no" /\ book[v].freed = 0
            /\ book[v].destroy = entry[j].data.destroy
            /\ book[v].every = (IF entry[j].isInterval THEN entry[j].timeout ELSE 0)
            /\ ~entry[j].isInterval => book[v].ran = 0
        BY <4>1 DEF OwnInv, EntryOwner
      <4>3. /\ Fixed(book'[v], book[v]) /\ book'[v].freed = book[v].freed
            /\ book'[v].stopped = book[v].stopped
            /\ ~entry[j].isInterval => book'[v].ran = book[v].ran
        BY <1>5, <2>2, <4>1
      <4>4. entry'[j].data.u = v
        BY <3>3
      <4> HIDE DEF v
      <4> QED BY <1>5, <3>3, <4>1, <4>2, <4>3, <4>4 DEF Fixed
    <3>6. IdentifierKnown'
      <4>1. \A v \in DOMAIN book : book[v].id[2] \in Positions
        BY BookDomain DEF LoopInv, Registration, Identifiers
      <4> QED BY <1>5, <3>3, <4>1 DEF OwnInv, IdentifierKnown, Fixed, Invalid
    <3>7. GenerationsUsed'
      BY <1>5, <3>3 DEF OwnInv, GenerationsUsed
    <3> QED BY <3>5, <3>6, <3>7
  <2> QED BY <2>1, <2>2
<1>8. WorkOwner'
  <2>1. \A k \in DOMAIN workList : workList[k].u \in DOMAIN book
    BY DEF OwnInv, WorkOwner
  <2> QED BY <1>2, <1>4, <1>5, <2>1, WorkKept DEF OwnInv
<1>9. CurOwner'
  <2>1. cur'.kind = "timer" /\ cur'.u = u /\ cur'.destroy = ReleasedAfter(entry[i]) /\ ~IsWork(cur)'
    BY <1>1 DEF Item, IsWork, u
  <2>2. cur'.destroy => ~entry[i].isInterval /\ entry[i].data.destroy
    BY <2>1 DEF ReleasedAfter
  <2>3. cur'.destroy = entry[i].data.destroy \/ ~cur'.destroy
    <3>1. CASE entry[i].isInterval
      BY <2>2, <3>1
    <3>2. CASE ~entry[i].isInterval
      <4>1. entry[i].data.destroy \in BOOLEAN
        <5>1. entry[i].data \in [u : 1 .. MaxReg, destroy : BOOLEAN]
          BY <1>1, LooperAssumption DEF Entries
        <5> QED BY <5>1
      <4> QED BY <2>1, <3>2, <4>1 DEF ReleasedAfter
    <3> QED BY <3>1, <3>2
  <2> QED BY <1>2, <1>3, <1>5, <1>6, <2>1, <2>2, <2>3 DEF CurOwner, InCallback, Fixed
<1>10. OpOwner'
  <2>1. \A b \in Actors : op[b].k = "destroy" => op[b].u \in DOMAIN book
    BY DEF OwnInv, OpOwner
  <2>2. OpTypes /\ OpOwner
    BY Types DEF LoopInv, OwnInv
  <2> QED BY <1>2, <1>4, <1>5, <2>1, <2>2, OpsKept
<1>11. FinishedLast'
  BY <1>3, <1>5 DEF OwnInv, FinishedLast, Fixed
<1>12. ReleasedOnce'
  BY <1>3, <1>5, <1>6 DEF OwnInv, ReleasedOnce, Fixed
<1> QED BY <1>7, <1>8, <1>9, <1>10, <1>11, <1>12 DEF OwnInv

LEMMA DrainOwn ==
  ASSUME LoopInv, OwnInv, IdentifiersLast, FinalizeTimer
  PROVE  OwnInv'
<1> DEFINE i == Head(activeList)
           u == entry[i].data.u
<1>1. /\ pc = "final" /\ DrainTimer /\ UNCHANGED <<workList, op, pc, cur>>
      /\ book' = IF entry[i].data.destroy THEN Freed(u) ELSE book
  BY DEF FinalizeTimer, dispatchVars, loopVars, runVars, callVars
<1>2. i \in Positions /\ entry[i].active /\ entry' = [entry EXCEPT ![i] = Released(@)]
  <2>1. TimerInv /\ activeList # <<>>
    BY <1>1 DEF LoopInv, DrainTimer
  <2> HIDE DEF i
  <2>2. i \in ToSet(activeList) /\ i \in Positions
    BY <2>1, FirstTaken DEF i
  <2> QED BY <1>1, <2>1, <2>2 DEF TimerInv, EachInOneList, DrainTimer, i
<1> HIDE DEF i
<1>3. /\ u \in DOMAIN book /\ book[u].kind = "timer" /\ book[u].stopped = "no"
      /\ book[u].freed = 0
  BY <1>2, EntryRegistered
<1>4. /\ \A k \in DOMAIN workList : workList[k].u # u
      /\ \A b \in Actors : op[b].k = "destroy" => op[b].u # u
  BY <1>2, OneHolder
<1> HIDE DEF u
<1>5. /\ DOMAIN book' = DOMAIN book /\ Len(book') = Len(book)
      /\ \A v \in DOMAIN book :
           /\ Fixed(book'[v], book[v]) /\ book'[v].ran = book[v].ran
           /\ book'[v].finished = book[v].finished /\ book'[v].stopped = book[v].stopped
           /\ book'[v].freed \in {book[v].freed, IF v = u THEN 1 ELSE book[v].freed}
           /\ v # u => book'[v] = book[v]
  <2>1. CASE book' = book
    <3>1. \A v : Fixed(book[v], book[v])
      BY DEF Fixed
    <3> QED BY <2>1, <3>1
  <2>2. CASE book' = Freed(u)
    BY <1>3, <2>2, BookFreed, CountsFromZero DEF LoopInv
  <2> QED BY <1>1, <2>1, <2>2
<1>6. EntryOwner' /\ IdentifierKnown' /\ GenerationsUsed'
  BY <1>2, <1>5, ReleaseOwn DEF u
<1>7. WorkOwner'
  <2>1. \A k \in DOMAIN workList : workList[k].u \in DOMAIN book
    BY DEF OwnInv, WorkOwner
  <2> QED BY <1>1, <1>4, <1>5, <2>1, WorkKept DEF OwnInv
<1>8. CurOwner'
  BY <1>1 DEF CurOwner, InCallback
<1>9. OpOwner'
  <2>1. \A b \in Actors : op[b].k = "destroy" => op[b].u \in DOMAIN book
    BY DEF OwnInv, OpOwner
  <2>2. OpTypes /\ OpOwner
    BY Types DEF LoopInv, OwnInv
  <2> QED BY <1>1, <1>4, <1>5, <2>1, <2>2, OpsKept
<1>10. FinishedLast'
  BY <1>3, <1>5 DEF OwnInv, FinishedLast, Fixed
<1>11. ReleasedOnce'
  BY <1>3, <1>5 DEF OwnInv, ReleasedOnce, Fixed
<1> QED BY <1>6, <1>7, <1>8, <1>9, <1>10, <1>11 DEF OwnInv

\* A record of kinds other than "timer" moves on: no entry is concerned.
LEMMA EntriesApart ==
  ASSUME LoopInv, OwnInv, UNCHANGED entry, NEW u \in DOMAIN book,
         \A i \in Positions : entry[i].active => entry[i].data.u # u,
         DOMAIN book' = DOMAIN book, Len(book') = Len(book),
         \A v \in DOMAIN book : /\ Fixed(book'[v], book[v]) /\ book'[v].stopped = book[v].stopped
                                /\ v # u => book'[v] = book[v]
  PROVE  EntryOwner' /\ IdentifierKnown' /\ GenerationsUsed'
<1>1. \A i \in Positions : entry[i].gen \in Int
  BY DEF LoopInv, TimerInv, TimerTypeOK, Entries
<1>2. \A i \in Positions : entry[i].active => entry[i].data.u \in DOMAIN book
  BY DEF OwnInv, EntryOwner
<1>3. Len(book) \in Nat
  BY BookDomain DEF LoopInv
<1> QED BY <1>1, <1>2, <1>3, EntriesKept DEF OwnInv

LEMMA OpsApart ==
  ASSUME LoopInv, OwnInv, UNCHANGED op, NEW u \in DOMAIN book,
         \A a \in Actors : op[a].k = "destroy" => op[a].u # u,
         DOMAIN book' = DOMAIN book,
         \A v \in DOMAIN book : /\ Fixed(book'[v], book[v])
                                /\ v # u => book'[v] = book[v]
  PROVE  OpOwner'
<1>1. \A b \in Actors : op[b].k = "destroy" => op[b].u \in DOMAIN book
  BY DEF OwnInv, OpOwner
<1>2. OpTypes /\ OpOwner
  BY Types DEF LoopInv, OwnInv
<1> QED BY <1>1, <1>2, OpsKept

\* What the first piece of work is, and the queue that is left.
LEMMA FirstWork ==
  ASSUME LoopInv, OwnInv, Shift
  PROVE  LET w == Head(workList) IN
         /\ w \in WorkItem /\ IsWork(w) /\ w.u \in DOMAIN book
         /\ book[w.u].kind = w.kind /\ book[w.u].destroy = w.destroy
         /\ book[w.u].stopped = "no" /\ book[w.u].ran = 0 /\ book[w.u].freed = 0
         /\ ~book[w.u].finished
         /\ \A i \in Positions : entry[i].active => entry[i].data.u # w.u
         /\ \A a \in Actors : op[a].k = "destroy" => op[a].u # w.u
         /\ \A k \in DOMAIN workList' : /\ k + 1 \in DOMAIN workList
                                        /\ workList'[k] = workList[k + 1]
                                        /\ workList[k + 1].u # w.u
<1>1. WorkTypes
  BY Types DEF LoopInv
<1>2. /\ Head(workList) \in WorkItem /\ Head(workList) = workList[1] /\ Len(workList) > 0
      /\ DOMAIN workList = 1 .. Len(workList) /\ DOMAIN workList' = 1 .. Len(workList) - 1
      /\ \A k \in 1 .. Len(workList) - 1 : workList'[k] = workList[k + 1]
  BY <1>1, Shifted
<1>3. Len(workList) \in Nat /\ 1 \in DOMAIN workList
  BY <1>1, <1>2 DEF WorkTypes
<1> DEFINE w == workList[1]
<1>4. /\ w.u \in DOMAIN book
      /\ book[w.u].kind = w.kind /\ book[w.u].destroy = w.destroy
      /\ book[w.u].stopped = "no" /\ book[w.u].ran = 0 /\ book[w.u].freed = 0
      /\ ~book[w.u].finished
  BY <1>3 DEF OwnInv, WorkOwner
<1>5. /\ \A i \in Positions : entry[i].active => entry[i].data.u # w.u
      /\ \A a \in Actors : op[a].k = "destroy" => op[a].u # w.u
  BY <1>3, OneHolder
<1>6. ASSUME NEW k \in DOMAIN workList'
      PROVE  /\ k + 1 \in DOMAIN workList /\ workList'[k] = workList[k + 1]
             /\ workList[k + 1].u # w.u
  <2>1. k + 1 \in DOMAIN workList /\ k + 1 # 1 /\ workList'[k] = workList[k + 1]
    BY <1>2, <1>3
  <2> QED BY <1>3, <2>1 DEF OwnInv, WorkOwner
<1>7. IsWork(w)
  BY <1>2, WorkItemFields
<1> HIDE DEF w
<1>8. Head(workList) = w
  BY <1>2 DEF w
<1> QED BY <1>2, <1>4, <1>5, <1>6, <1>7, <1>8

LEMMA WorkShifts ==
  ASSUME LoopInv, OwnInv, Shift, DOMAIN book' = DOMAIN book,
         \A v \in DOMAIN book : v # Head(workList).u => book'[v] = book[v]
  PROVE  WorkOwner'
<1>1. \A k \in DOMAIN workList' : /\ k + 1 \in DOMAIN workList
                                  /\ workList'[k] = workList[k + 1]
                                  /\ workList[k + 1].u # Head(workList).u
  BY FirstWork
<1>2. DOMAIN workList' \subseteq Int
  <2>1. WorkTypes
    BY Types DEF LoopInv
  <2> QED BY <2>1, Shifted DEF WorkTypes
<1>3. ASSUME NEW k \in DOMAIN workList'
      PROVE  LET u == workList'[k].u IN
             /\ u \in DOMAIN book'
             /\ book'[u].kind = workList'[k].kind /\ book'[u].destroy = workList'[k].destroy
             /\ book'[u].stopped = "no" /\ book'[u].ran = 0 /\ book'[u].freed = 0
             /\ ~book'[u].finished
  <2>1. workList'[k].u \in DOMAIN book /\ book'[workList'[k].u] = book[workList'[k].u]
    BY <1>1 DEF OwnInv, WorkOwner
  <2> QED BY <1>1, <2>1 DEF OwnInv, WorkOwner
<1>4. ASSUME NEW j \in DOMAIN workList', NEW k \in DOMAIN workList',
             workList'[j].u = workList'[k].u
      PROVE  j = k
  <2>1. j + 1 = k + 1
    BY <1>1, <1>4 DEF OwnInv, WorkOwner
  <2> QED BY <1>2, <2>1
<1> QED BY <1>3, <1>4 DEF WorkOwner

LEMMA BeginOwn ==
  ASSUME LoopInv, OwnInv, Begin, UNCHANGED <<entry, op>>
  PROVE  OwnInv'
<1> DEFINE w == Head(workList)
           u == w.u
<1>1. Shift /\ cur' = w /\ book' = Ran(u) /\ pc' = "handle"
  BY DEF Begin
<1>2. /\ IsWork(w) /\ u \in DOMAIN book
      /\ book[u].kind = w.kind /\ book[u].destroy = w.destroy
      /\ book[u].stopped = "no" /\ book[u].ran = 0 /\ book[u].freed = 0 /\ ~book[u].finished
      /\ \A i \in Positions : entry[i].active => entry[i].data.u # u
      /\ \A a \in Actors : op[a].k = "destroy" => op[a].u # u
  BY <1>1, FirstWork
<1>3. w.kind # "timer"
  BY <1>2 DEF IsWork
<1> HIDE DEF w
<1>4. /\ DOMAIN book' = DOMAIN book /\ Len(book') = Len(book)
      /\ \A v \in DOMAIN book :
           /\ Fixed(book'[v], book[v]) /\ book'[v].freed = book[v].freed
           /\ book'[v].finished = book[v].finished /\ book'[v].stopped = book[v].stopped
           /\ v = u => book'[v].ran = 1
           /\ v # u => book'[v] = book[v]
  BY <1>1, <1>2, BookRan, CountsFromZero DEF LoopInv
<1>5. EntryOwner' /\ IdentifierKnown' /\ GenerationsUsed'
  BY <1>2, <1>4, EntriesApart
<1>6. WorkOwner'
  BY <1>1, <1>4, WorkShifts DEF w
<1>7. CurOwner'
  <2>1. IsWork(cur)' /\ cur' = w
    BY <1>1, <1>2 DEF IsWork
  <2> QED BY <1>1, <1>2, <1>3, <1>4, <2>1 DEF CurOwner, Fixed
<1>8. OpOwner'
  BY <1>2, <1>4, OpsApart
<1>9. FinishedLast'
  BY <1>2, <1>4 DEF OwnInv, FinishedLast, Fixed
<1>10. ReleasedOnce'
  BY <1>2, <1>4 DEF OwnInv, ReleasedOnce, Fixed
<1> QED BY <1>5, <1>6, <1>7, <1>8, <1>9, <1>10 DEF OwnInv

LEMMA FinalizeWorkOwn ==
  ASSUME LoopInv, OwnInv, FinalizeWork
  PROVE  OwnInv'
<1> DEFINE w == Head(workList)
           u == w.u
<1>1. /\ Shift /\ pc' \in {"final", "crashed"} /\ UNCHANGED <<entry, op>>
      /\ \/ book' = Freed(u) /\ w.kind = "call"
         \/ book' = book
  BY DEF FinalizeWork, timerVars, callVars
<1>2. /\ u \in DOMAIN book /\ book[u].kind = w.kind
      /\ book[u].stopped = "no" /\ book[u].ran = 0 /\ book[u].freed = 0 /\ ~book[u].finished
      /\ \A i \in Positions : entry[i].active => entry[i].data.u # u
      /\ \A a \in Actors : op[a].k = "destroy" => op[a].u # u
  BY <1>1, FirstWork
<1> HIDE DEF w
<1>4. /\ DOMAIN book' = DOMAIN book /\ Len(book') = Len(book)
      /\ \A v \in DOMAIN book :
           /\ Fixed(book'[v], book[v]) /\ book'[v].ran = book[v].ran
           /\ book'[v].finished = book[v].finished /\ book'[v].stopped = book[v].stopped
           /\ v = u => book'[v].freed \in {0, 1}
           /\ v # u => book'[v] = book[v]
  <2>1. CASE book' = Freed(u)
    BY <1>2, <2>1, BookFreed, CountsFromZero DEF LoopInv
  <2>2. CASE book' = book
    <3>1. \A v : Fixed(book[v], book[v])
      BY DEF Fixed
    <3> QED BY <1>2, <2>2, <3>1
  <2> QED BY <1>1, <2>1, <2>2
<1>5. EntryOwner' /\ IdentifierKnown' /\ GenerationsUsed'
  BY <1>1, <1>2, <1>4, EntriesApart
<1>6. WorkOwner'
  BY <1>1, <1>4, WorkShifts DEF w
<1>7. CurOwner'
  BY <1>1 DEF CurOwner, InCallback
<1>8. OpOwner'
  BY <1>1, <1>2, <1>4, OpsApart
<1>9. FinishedLast'
  BY <1>2, <1>4 DEF OwnInv, FinishedLast, Fixed
<1>10. ReleasedOnce'
  BY <1>2, <1>4 DEF OwnInv, ReleasedOnce, Fixed
<1> QED BY <1>5, <1>6, <1>7, <1>8, <1>9, <1>10 DEF OwnInv

\* A callback returns: what was in the loop's hands is released, or it is over.
LEMMA ReturnOwn ==
  ASSUME LoopInv, OwnInv, HandlerReturns \/ DestroyReturns
  PROVE  OwnInv'
<1> DEFINE u == cur.u
<1>1. InCallback /\ UNCHANGED <<entry, workList, op>> /\ WhereInv /\ cur \in Callback
  BY Types DEF LoopInv, WhereTypes, HandlerReturns, DestroyReturns, InCallback, timerVars,
     dispatchVars, callVars
<1>2. InHand => /\ u \in DOMAIN book
                /\ book[u].kind = cur.kind /\ book[u].destroy = cur.destroy
                /\ book[u].stopped = "no" /\ book[u].ran = 1
                /\ book[u].freed = (IF pc = "destroy" THEN 1 ELSE 0)
                /\ IsWork(cur) => ~book[u].finished
                /\ \A i \in Positions : entry[i].active => entry[i].data.u # u
                /\ \A k \in DOMAIN workList : workList[k].u # u
                /\ \A a \in Actors : op[a].k = "destroy" => op[a].u # u
  <2>1. InHand => /\ u \in DOMAIN book
                  /\ book[u].kind = cur.kind /\ book[u].destroy = cur.destroy
                  /\ book[u].stopped = "no" /\ book[u].ran = 1
                  /\ book[u].freed = (IF pc = "destroy" THEN 1 ELSE 0)
                  /\ IsWork(cur) => ~book[u].finished
    BY DEF OwnInv, CurOwner, InHand
  <2> QED BY <2>1, OneHolder
<1>3. \A k \in DOMAIN workList : workList[k].u \in DOMAIN book
  BY DEF OwnInv, WorkOwner
<1>4. CASE pc = "handle" /\ cur.destroy /\ pc' = "destroy" /\ UNCHANGED cur /\ book' = Freed(u)
  <2>1. InHand
    BY <1>1, <1>4 DEF InHand
  <2>2. /\ DOMAIN book' = DOMAIN book /\ Len(book') = Len(book)
        /\ \A v \in DOMAIN book :
             /\ Fixed(book'[v], book[v]) /\ book'[v].ran = book[v].ran
             /\ book'[v].finished = book[v].finished /\ book'[v].stopped = book[v].stopped
             /\ v = u => book'[v].freed = 1
             /\ v # u => book'[v] = book[v]
    BY <1>2, <1>4, <2>1, BookFreed, CountsFromZero DEF LoopInv
  <2>3. EntryOwner' /\ IdentifierKnown' /\ GenerationsUsed'
    BY <1>1, <1>2, <2>1, <2>2, EntriesApart
  <2>4. WorkOwner'
    BY <1>1, <1>2, <1>3, <2>1, <2>2, WorkKept DEF OwnInv
  <2>5. CurOwner'
    BY <1>2, <1>4, <2>1, <2>2 DEF OwnInv, CurOwner, InHand, InCallback, IsWork, Fixed
  <2>6. OpOwner'
    BY <1>1, <1>2, <2>1, <2>2, OpsApart
  <2>7. FinishedLast'
    <3>1. book[u].kind = "callAndWait" => ~book[u].finished
      BY <1>2, <2>1 DEF IsWork
    <3> QED BY <2>2, <3>1 DEF OwnInv, FinishedLast, Fixed
  <2>8. ReleasedOnce'
    BY <1>2, <2>1, <2>2 DEF OwnInv, ReleasedOnce, Fixed
  <2> QED BY <2>3, <2>4, <2>5, <2>6, <2>7, <2>8 DEF OwnInv
<1>5. CASE Return /\ (pc = "destroy" \/ ~cur.destroy)
  <2>1. pc' \in {"timers", "work", "message"}
    <3>1. cur.kind \in {"timer", "source", "call", "callAndWait", "stop"}
      BY <1>1 DEF WhereInv, InCallback, Callback
    <3> QED BY <1>5, <3>1 DEF Return, After, IsWork
  <2>2. ~InCallback'
    BY <2>1 DEF InCallback
  <2>3. CASE book' = book
    BY <1>1, <2>2, <2>3, QuietOwn
  <2>4. CASE cur.kind = "callAndWait" /\ book' = [book EXCEPT ![u].finished = TRUE]
    <3>1. InHand
      BY <1>1, <2>4 DEF InHand, IsWork
    <3>2. /\ DOMAIN book' = DOMAIN book /\ Len(book') = Len(book)
          /\ \A v \in DOMAIN book :
               /\ Fixed(book'[v], book[v]) /\ book'[v].ran = book[v].ran
               /\ book'[v].freed = book[v].freed /\ book'[v].stopped = book[v].stopped
               /\ v # u => book'[v] = book[v]
      BY <1>2, <2>4, <3>1, BookFinished DEF LoopInv
    <3>3. EntryOwner' /\ IdentifierKnown' /\ GenerationsUsed'
      BY <1>1, <1>2, <3>1, <3>2, EntriesApart
    <3>4. WorkOwner'
      BY <1>1, <1>2, <1>3, <3>1, <3>2, WorkKept DEF OwnInv
    <3>5. CurOwner'
      BY <2>2 DEF CurOwner
    <3>6. OpOwner'
      BY <1>1, <1>2, <3>1, <3>2, OpsApart
    <3>7. FinishedLast'
      <4>1. book[u].ran = 1 /\ book[u].freed = (IF book[u].destroy THEN 1 ELSE 0)
        <5>1. pc = "destroy" => cur.destroy
          BY <1>1 DEF WhereInv
        <5> QED BY <1>2, <1>5, <3>1, <5>1
      <4> QED BY <3>2, <4>1 DEF OwnInv, FinishedLast, Fixed
    <3>8. ReleasedOnce'
      BY <3>2 DEF OwnInv, ReleasedOnce, Fixed
    <3> QED BY <3>3, <3>4, <3>5, <3>6, <3>7, <3>8 DEF OwnInv
  <2> QED BY <1>5, <2>3, <2>4 DEF Return, TellWaiter
<1>6. \/ pc = "handle" /\ cur.destroy /\ pc' = "destroy" /\ UNCHANGED cur /\ book' = Freed(u)
      \/ Return /\ (pc = "destroy" \/ ~cur.destroy)
  BY DEF HandlerReturns, DestroyReturns, TellWaiter
<1> QED BY <1>4, <1>5, <1>6

\* A caller goes on: it wakes the loop, waits, comes back, or releases its timer.
LEMMA ContinueOwn ==
  ASSUME LoopInv, OwnInv, Continues
  PROVE  OwnInv'
<1>1. PICK a \in Actors : Wake(a) \/ WaitReturns(a) \/ DestroyStopped(a)
  BY DEF Continues, Continue
<1>2. UNCHANGED <<entry, workList, pc, cur>> /\ OpTypes /\ op[a] \in Pending
  <2>1. OpTypes
    BY Types DEF LoopInv
  <2> QED BY <1>1, <2>1 DEF Wake, WaitReturns, DestroyStopped, timerVars, dispatchVars, loopVars,
          runVars, OpTypes
<1>3. \A v : Fixed(book[v], book[v])
  BY DEF Fixed
<1>4. CASE Wake(a) \/ WaitReturns(a)
  <2>1. book' = book
    BY <1>4 DEF Wake, WaitReturns
  <2>2. /\ EntryOwner' /\ IdentifierKnown' /\ GenerationsUsed' /\ WorkOwner' /\ CurOwner'
        /\ FinishedLast' /\ ReleasedOnce'
    BY <1>2, <2>1 DEF OwnInv, EntryOwner, IdentifierKnown, GenerationsUsed, WorkOwner, CurOwner,
       InCallback, IsWork, FinishedLast, ReleasedOnce, IdOf, Invalid
  <2>3. /\ \A b \in Actors : b # a => op'[b] = op[b]
        /\ \/ op'[a] = Idle
           \/ op'[a].k = "wait" /\ op[a].k = "wake" /\ op'[a].u = op[a].u /\ op[a].u # 0
    <3>1. \/ op' = [op EXCEPT ![a] = AfterWake(op[a].u)] /\ op[a].k = "wake"
          \/ op' = [op EXCEPT ![a] = Idle]
      BY <1>4 DEF Wake, WaitReturns
    <3> QED BY <1>2, <3>1 DEF OpTypes, AfterWake
  <2>4. \A b \in Actors : op'[b].k = "destroy" => op'[b] = op[b]
    BY <2>3 DEF Idle
  <2>5. \A b \in Actors : op'[b].k = "wait" \/ (op'[b].k = "wake" /\ op'[b].u # 0) =>
          \/ op[b].k \in {"wait", "wake"} /\ op'[b].u = op[b].u /\ op[b].u # 0
          \/ op'[b] = op[b]
    BY <2>3 DEF Idle
  <2>6. OpOwner
    BY DEF OwnInv
  <2>7. OpOwner'
    BY <1>2, <1>3, <2>1, <2>4, <2>5, <2>6, OpsKept
  <2> QED BY <2>2, <2>7 DEF OwnInv
<1>5. CASE DestroyStopped(a)
  <2> DEFINE u == op[a].u
  <2>1. op[a].k = "destroy" /\ op' = [op EXCEPT ![a] = Idle] /\ book' = Freed(u)
    BY <1>5 DEF DestroyStopped
  <2>2. u \in DOMAIN book /\ book[u].kind = "timer" /\ book[u].stopped \in {"loop", "thread"}
        /\ book[u].freed = 0
    BY <2>1 DEF OwnInv, OpOwner
  <2>3. /\ \A i \in Positions : entry[i].active => entry[i].data.u # u
        /\ \A k \in DOMAIN workList : workList[k].u # u
        /\ InHand => cur.u # u
    BY <2>1, OneHolder
  <2> HIDE DEF u
  <2>4. /\ DOMAIN book' = DOMAIN book /\ Len(book') = Len(book)
        /\ \A v \in DOMAIN book :
             /\ Fixed(book'[v], book[v]) /\ book'[v].ran = book[v].ran
             /\ book'[v].finished = book[v].finished /\ book'[v].stopped = book[v].stopped
             /\ v = u => book'[v].freed = 1
             /\ v # u => book'[v] = book[v]
    BY <2>1, <2>2, BookFreed, CountsFromZero DEF LoopInv
  <2>5. EntryOwner' /\ IdentifierKnown' /\ GenerationsUsed'
    BY <1>2, <2>2, <2>3, <2>4, EntriesApart
  <2>6. WorkOwner'
    <3>1. \A k \in DOMAIN workList : workList[k].u \in DOMAIN book
      BY DEF OwnInv, WorkOwner
    <3> QED BY <1>2, <2>3, <2>4, <3>1, WorkKept DEF OwnInv
  <2>7. CurOwner'
    BY <1>2, <2>3, <2>4 DEF OwnInv, CurOwner, InHand, InCallback, IsWork
  <2>8. OpOwner'
    <3>1. \A b \in Actors : b # a => op'[b] = op[b]
      BY <1>2, <2>1 DEF OpTypes
    <3>2. op'[a] = Idle
      BY <1>2, <2>1 DEF OpTypes
    <3>3. \A b \in Actors : op'[b].k = "destroy" => op'[b] = op[b] /\ book'[op[b].u] = book[op[b].u]
      <4>1. \A b \in Actors : op[b].k = "destroy" => op[b].u \in DOMAIN book
        BY DEF OwnInv, OpOwner
      <4>2. \A b \in Actors : b # a /\ op[b].k = "destroy" => op[b].u # u
        BY <2>1 DEF OwnInv, OpOwner, u
      <4> QED BY <2>4, <3>1, <3>2, <4>1, <4>2 DEF Idle
    <3>4. \A b \in Actors : op'[b].k = "wait" \/ (op'[b].k = "wake" /\ op'[b].u # 0) => op'[b] = op[b]
      BY <3>1, <3>2 DEF Idle
    <3>5. OpOwner
      BY DEF OwnInv
    <3> QED BY <1>2, <2>4, <3>3, <3>4, <3>5, OpsKept
  <2>9. FinishedLast'
    BY <2>2, <2>4 DEF OwnInv, FinishedLast, Fixed
  <2>10. ReleasedOnce'
    BY <2>2, <2>4 DEF OwnInv, ReleasedOnce, Fixed
  <2> QED BY <2>5, <2>6, <2>7, <2>8, <2>9, <2>10 DEF OwnInv
<1> QED BY <1>1, <1>4, <1>5

LEMMA AttachOwn ==
  ASSUME LoopInv, OwnInv, Attaches \/ Detaches
  PROVE  OwnInv'
<1>1. PICK a \in Actors : op[a] = Idle /\ op' = [op EXCEPT ![a] = ToWake]
  BY DEF Attaches, Attach, Detaches, Detach, CanCall
<1>2. UNCHANGED <<entry, workList, pc, cur, book>>
  BY DEF Attaches, Attach, Detaches, Detach, timerVars, dispatchVars, loopVars, runVars
<1>3. \A v : Fixed(book[v], book[v])
  BY DEF Fixed
<1>4. /\ EntryOwner' /\ IdentifierKnown' /\ GenerationsUsed' /\ WorkOwner' /\ CurOwner'
      /\ FinishedLast' /\ ReleasedOnce'
  BY <1>2 DEF OwnInv, EntryOwner, IdentifierKnown, GenerationsUsed, WorkOwner, CurOwner,
     InCallback, IsWork, FinishedLast, ReleasedOnce, IdOf, Invalid
<1>5. OpTypes /\ OpOwner
  BY Types DEF LoopInv, OwnInv
<1>6. op'[a] = ToWake /\ \A b \in Actors : b # a => op'[b] = op[b]
  BY <1>1, <1>5 DEF OpTypes
<1>7. \A b \in Actors : op'[b].k = "destroy" => op'[b] = op[b]
  BY <1>6 DEF ToWake
<1>8. \A b \in Actors : op'[b].k = "wait" \/ (op'[b].k = "wake" /\ op'[b].u # 0) => op'[b] = op[b]
  BY <1>6 DEF ToWake
<1>9. OpOwner'
  BY <1>2, <1>3, <1>5, <1>7, <1>8, OpsKept
<1> QED BY <1>4, <1>9 DEF OwnInv

LEMMA NextOwn ==
  ASSUME LoopInv, OwnInv, IdentifiersLast, [Next]_vars
  PROVE  OwnInv'
<1>1. CASE FireTimer \/ FinalizeTimer \/ StartsTimer \/ StopsTimer
  BY <1>1, FireOwn, DrainOwn, StartOwn, StopOwn
<1>2. CASE Enqueues \/ Inline \/ FinalizeWork
  BY <1>2, EnqueueOwn, InlineOwn, FinalizeWorkOwn
<1>3. CASE (TakeWakeup /\ size # 0) \/ NextWork
  <2>1. Begin /\ UNCHANGED <<entry, op>>
    BY <1>3 DEF TakeWakeup, NextWork, timerVars, callVars
  <2> QED BY <2>1, BeginOwn
<1>4. CASE HandlerReturns \/ DestroyReturns \/ Continues \/ Attaches \/ Detaches
  BY <1>4, ReturnOwn, ContinueOwn, AttachOwn
<1>5. CASE Check \/ FillFDSet \/ SelectReady \/ SelectTimeout \/ SelectError \/ ReadEvents
           \/ NoTimerDue \/ WorkDone \/ NoMessage \/ Finalize \/ Finalized
  <2>1. UNCHANGED <<entry, workList, op, book>> /\ ~InCallback'
    BY <1>5 DEF Check, FillFDSet, SelectReady, SelectTimeout, SelectError, ReadEvents, NoTimerDue,
       WorkDone, NoMessage, Finalize, Finalized, timerVars, dispatchVars, callVars, InCallback
  <2> QED BY <2>1, QuietOwn
<1>6. CASE (TakeWakeup /\ size = 0) \/ Tick \/ Signal \/ Inputs \/ UNCHANGED vars
  <2>1. UNCHANGED <<entry, workList, op, book, pc, cur>>
    BY <1>6 DEF TakeWakeup, Tick, Signal, Inputs, Input, vars, timerVars, dispatchVars, loopVars,
       runVars, callVars
  <2> QED BY <2>1, QuietOwn
<1>7. CASE CallSource
  <2>1. UNCHANGED <<entry, workList, op, book>> /\ cur' = Item("source", 0, FALSE)
    BY <1>7 DEF CallSource, timerVars, dispatchVars, callVars
  <2> QED BY <2>1, QuietOwn
<1> QED BY <1>1, <1>2, <1>3, <1>4, <1>5, <1>6, <1>7, NextSteps DEF LoopStep, Finalizing

-----------------------------------------------------------------------------
(* What has run, and who let it. *)
Runs1(v) == \/ FireTimer /\ v = entry[Head(activeList)].data.u
            \/ Begin /\ v = Head(workList).u

LEMMA NextRan ==
  ASSUME LoopInv, OwnInv, [Next]_vars, NEW v \in DOMAIN book
  PROVE  /\ v \in DOMAIN book' /\ Fixed(book'[v], book[v])
         /\ book'[v].ran = book[v].ran \/ (Runs1(v) /\ book'[v].ran = Bump(book[v].ran))
<1>0. v \in DOMAIN book' /\ Fixed(book'[v], book[v]) /\ BookOK
  BY NextBook DEF LoopInv
<1>1. ASSUME NEW u \in DOMAIN book, book' = Freed(u) \/ book' = [book EXCEPT ![u].finished = TRUE]
             \/ \E s \in {"loop", "thread"} : book' = [book EXCEPT ![u].stopped = s]
      PROVE  book'[v].ran = book[v].ran
  BY <1>0, <1>1, BookFreed, BookFinished, BookStopped
<1>2. ASSUME NEW r \in Registration, CanRegister, book' = Append(book, r)
      PROVE  book'[v].ran = book[v].ran
  BY <1>0, <1>2, BookGrown
<1>3. CASE FireTimer
  <2> DEFINE u == entry[Head(activeList)].data.u
  <2>1. Head(activeList) \in Positions /\ entry[Head(activeList)].active
    BY <1>3, FiredItem
  <2>2. u \in DOMAIN book /\ book' = Ran(u)
    BY <1>3, <2>1, EntryRegistered DEF FireTimer
  <2> HIDE DEF u
  <2>3. book'[v].ran = IF v = u THEN Bump(book[v].ran) ELSE book[v].ran
    BY <1>0, <2>2, BookRan
  <2> QED BY <1>0, <1>3, <2>3 DEF Runs1, u
<1>4. CASE Begin
  <2> DEFINE u == Head(workList).u
  <2>2. u \in DOMAIN book /\ book' = Ran(u)
    BY <1>4, FirstWork DEF Begin
  <2> HIDE DEF u
  <2>3. book'[v].ran = IF v = u THEN Bump(book[v].ran) ELSE book[v].ran
    BY <1>0, <2>2, BookRan
  <2> QED BY <1>0, <1>4, <2>3 DEF Runs1, u
<1>5. CASE UNCHANGED book
  BY <1>0, <1>5
<1>6. CASE Grown
  BY <1>0, <1>2, <1>6 DEF Grown
<1>7. CASE TakeWakeup \/ NextWork
  BY <1>4, <1>5, <1>7 DEF TakeWakeup, NextWork
<1>8. ASSUME NEW u, u \in DOMAIN book => book'[v].ran = book[v].ran, book' = Freed(u)
                        \/ book' = [book EXCEPT ![u].finished = TRUE]
      PROVE  book'[v].ran = book[v].ran
  <2>1. CASE u \in DOMAIN book
    BY <1>8, <2>1
  <2>2. CASE u \notin DOMAIN book
    <3>1. book = [w \in DOMAIN book |-> book[w]]
      BY <1>0 DEF BookOK
    <3>2. book' = book
      BY <1>8, <2>2, <3>1, Zenon DEF Freed
    <3> QED BY <3>2
  <2> QED BY <2>1, <2>2
<1>9. ASSUME NEW u, book' = Freed(u) \/ book' = [book EXCEPT ![u].finished = TRUE]
      PROVE  book'[v].ran = book[v].ran
  BY <1>1, <1>8, <1>9
<1>10. CASE HandlerReturns \/ DestroyReturns
  <2>1. UNCHANGED book \/ book' = Freed(cur.u) \/ book' = [book EXCEPT ![cur.u].finished = TRUE]
    BY <1>10 DEF HandlerReturns, DestroyReturns, Return, TellWaiter
  <2> QED BY <1>0, <1>5, <1>9, <2>1
<1>11. CASE Finalizing
  <2>1. UNCHANGED book \/ \E u : book' = Freed(u)
    BY <1>11 DEF Finalizing, Finalize, FinalizeTimer, FinalizeWork, Finalized
  <2> QED BY <1>0, <1>5, <1>9, <2>1
<1>12. CASE Continues
  <2>1. UNCHANGED book \/ \E u : book' = Freed(u)
    BY <1>12 DEF Continues, Continue, Wake, WaitReturns, DestroyStopped
  <2> QED BY <1>0, <1>5, <1>9, <2>1
<1>13. CASE StopsTimer
  <2>1. \E u \in DOMAIN book, s \in {"loop", "thread"} : book' = [book EXCEPT ![u].stopped = s]
    BY <1>13 DEF StopsTimer, ClearTimer
  <2> QED BY <1>0, <1>1, <2>1
<1>14. CASE Enqueues \/ Inline \/ StartsTimer
  BY <1>6, <1>14, RegisterGrows
<1>15. CASE Attaches \/ Detaches \/ Tick \/ Signal \/ SelectError \/ Inputs \/ UNCHANGED vars
  BY <1>5, <1>15 DEF Attaches, Attach, Detaches, Detach, Tick, Signal, SelectError, Inputs, Input, vars
<1>16. CASE Check \/ FillFDSet \/ SelectReady \/ SelectTimeout \/ ReadEvents \/ NoTimerDue
            \/ WorkDone \/ CallSource \/ NoMessage
  BY <1>5, <1>16 DEF Check, FillFDSet, SelectReady, SelectTimeout, ReadEvents, NoTimerDue,
     WorkDone, CallSource, NoMessage
<1> QED BY <1>3, <1>7, <1>10, <1>11, <1>12, <1>13, <1>14, <1>15, <1>16, NextSteps DEF LoopStep

LEMMA NextSilent ==
  ASSUME LoopInv, OwnInv, [Next]_vars, NEW v \in DOMAIN book, book'[v].ran > book[v].ran
  PROVE  book[v].stopped = "no"
<1>1. CASE FireTimer /\ v = entry[Head(activeList)].data.u
  <2>1. Head(activeList) \in Positions /\ entry[Head(activeList)].active
    BY <1>1, FiredItem
  <2> QED BY <1>1, <2>1, EntryRegistered
<1>2. CASE Begin /\ v = Head(workList).u
  BY <1>2, FirstWork DEF Begin
<1>3. book[v].ran \in 0 .. 3
  BY BookDomain DEF LoopInv, Registration
<1> QED BY <1>1, <1>2, <1>3, NextRan DEF Runs1

LEMMA NextWaits ==
  ASSUME LoopInv, OwnInv, [Next]_vars, NEW t \in Threads, op[t].k = "wait", op'[t] = Idle
  PROVE  LET b == book[op[t].u] IN
         /\ b.ran = 1 /\ b.freed = (IF b.destroy THEN 1 ELSE 0)
         /\ ~(IsWork(cur) /\ cur.u = op[t].u)
<1>0. OpTypes /\ t \in Actors /\ op'[t] # op[t] /\ op[t] # Idle
  BY Types DEF LoopInv, Actors, Idle
<1>1. WaitReturns(t)
  <2>1. ASSUME NEW a \in Actors, op[a] = Idle, NEW p, op' = [op EXCEPT ![a] = p] PROVE FALSE
    BY <1>0, <2>1 DEF OpTypes
  <2>2. op' # op
    BY <1>0
  <2>3. CASE Enqueues
    BY <2>1, <2>2, <2>3 DEF Enqueues, Enqueue, CanCall
  <2>4. CASE StartsTimer
    BY <2>1, <2>2, <2>4 DEF StartsTimer, CallTimer, CanCall
  <2>5. CASE StopsTimer
    <3>1. PICK a \in Actors, u \in DOMAIN book : ClearTimer(a, u)
      BY <2>5 DEF StopsTimer
    <3>2. op[a] = Idle /\ \E p : op' = [op EXCEPT ![a] = p]
      BY <3>1 DEF ClearTimer, CanCall
    <3> QED BY <2>1, <3>2
  <2>6. CASE Attaches \/ Detaches
    BY <2>1, <2>6 DEF Attaches, Attach, Detaches, Detach, CanCall
  <2>7. CASE Continues
    <3>1. PICK a \in Actors : Wake(a) \/ WaitReturns(a) \/ DestroyStopped(a)
      BY <2>7 DEF Continues, Continue
    <3>2. \E p : op' = [op EXCEPT ![a] = p]
      BY <3>1 DEF Wake, WaitReturns, DestroyStopped
    <3>3. a = t
      BY <1>0, <3>2 DEF OpTypes
    <3> QED BY <3>1, <3>3 DEF Wake, DestroyStopped
  <2>8. CASE LoopStep
    BY <2>2, <2>8 DEF LoopStep, Check, FillFDSet, SelectReady, SelectTimeout, ReadEvents, NoTimerDue,
       FireTimer, TakeWakeup, NextWork, WorkDone, CallSource, NoMessage, HandlerReturns,
       DestroyReturns, callVars
  <2>9. CASE Finalizing
    BY <2>2, <2>9 DEF Finalizing, Finalize, FinalizeTimer, FinalizeWork, Finalized, callVars
  <2>10. CASE Tick \/ Signal \/ SelectError \/ Inputs \/ Inline \/ UNCHANGED vars
    BY <2>2, <2>10 DEF Tick, Signal, SelectError, Inputs, Input, Inline, CallAndWaitInline, callVars, vars
  <2> QED BY <2>3, <2>4, <2>5, <2>6, <2>7, <2>8, <2>9, <2>10, NextSteps
<1> DEFINE u == op[t].u
<1>2. u \in DOMAIN book /\ book[u].kind = "callAndWait" /\ book[u].finished
  BY <1>0, <1>1 DEF OwnInv, OpOwner, WaitReturns
<1>3. book[u].ran = 1 /\ book[u].freed = IF book[u].destroy THEN 1 ELSE 0
  BY <1>2 DEF OwnInv, FinishedLast
<1>4. ~(IsWork(cur) /\ cur.u = u)
  <2>1. CASE InCallback
    BY <1>2, <2>1 DEF OwnInv, CurOwner
  <2>2. CASE ~InCallback
    <3>1. cur = Nothing
      BY <2>2 DEF LoopInv, WhereInv
    <3> QED BY <3>1 DEF IsWork, Nothing
  <2> QED BY <2>1, <2>2
<1> QED BY <1>3, <1>4

-----------------------------------------------------------------------------
(* When a timer is due. *)
LEMMA Periods ==
  ASSUME NEW r \in {0, 1, 2}, NEW every \in Int
  PROVE  (r + 1) * every = r * every + every
OBVIOUS

LEMMA NextPollTime ==
  ASSUME LoopInv, poolTime <= clock, [Next]_vars
  PROVE  poolTime' <= clock'
<1>0. poolTime \in Nat /\ clock \in Nat /\ TimeTypes
  BY Types DEF LoopInv, TimeTypes
<1>1. clock' = clock \/ clock' = clock + 1
  BY NextClock
<1>2. poolTime' = poolTime \/ (poolTime' = clock /\ clock' = clock)
  <2>1. CASE SelectTimeout \/ SelectError \/ ReadEvents
    BY <2>1 DEF SelectTimeout, SelectError, ReadEvents, worldVars
  <2>2. CASE Check \/ FillFDSet \/ SelectReady \/ NoTimerDue \/ FireTimer \/ TakeWakeup \/ NextWork
             \/ WorkDone \/ CallSource \/ NoMessage \/ HandlerReturns \/ DestroyReturns
    BY <2>2 DEF Check, FillFDSet, SelectReady, NoTimerDue, FireTimer, TakeWakeup, NextWork, WorkDone,
       CallSource, NoMessage, HandlerReturns, DestroyReturns, selectVars
  <2>3. CASE Finalizing
    BY <2>3 DEF Finalizing, Finalize, FinalizeTimer, FinalizeWork, Finalized, loopVars, selectVars
  <2>4. CASE Outside
    BY <2>4, OutsideKeeps DEF loopVars, selectVars
  <2> QED BY <2>1, <2>2, <2>3, <2>4, NextSteps DEF LoopStep, Outside
<1> QED BY <1>0, <1>1, <1>2

LEMMA NextDue ==
  ASSUME LoopInv, OwnInv, DueInv, [Next]_vars
  PROVE  DueInv'
<1> DEFINE OnTime(e, b) == b.ran < 3 => e.timePoint = b.due + b.ran * b.every
<1>0. TimerInv /\ BookOK /\ \A i \in Positions : entry[i].active => OnTime(entry[i], book[entry[i].data.u])
  BY DEF LoopInv, DueInv
<1>1. poolTime' <= clock'
  BY NextPollTime DEF DueInv
<1>2. SUFFICES ASSUME NEW i \in Positions, entry'[i].active
               PROVE  OnTime(entry'[i], book'[entry'[i].data.u])
  BY <1>1 DEF DueInv
\* An entry that stays as it was, of a timer that does not run.
<1>3. ASSUME entry'[i] = entry[i], ~Runs1(entry[i].data.u)
      PROVE  OnTime(entry'[i], book'[entry'[i].data.u])
  <2>1. entry[i].data.u \in DOMAIN book
    BY <1>2, <1>3, EntryRegistered
  <2>2. /\ Fixed(book'[entry[i].data.u], book[entry[i].data.u])
        /\ book'[entry[i].data.u].ran = book[entry[i].data.u].ran
    BY <1>3, <2>1, NextRan
  <2> QED BY <1>0, <1>2, <1>3, <2>2 DEF Fixed
<1>4. ASSUME entry'[i] = entry[i], ~FireTimer PROVE ~Runs1(entry[i].data.u)
  <2>1. Begin => Head(workList).u # entry[i].data.u
    BY <1>2, <1>4, FirstWork DEF Begin
  <2> QED BY <1>4, <2>1 DEF Runs1
<1>5. CASE UNCHANGED timerVars /\ ~FireTimer
  BY <1>3, <1>4, <1>5 DEF timerVars
<1>6. CASE FireTimer
  <2>1. PICK j \in Positions : j = Head(activeList) /\ entry[j].active /\ entry[j] \in Entries
    BY <1>6, FiredItem
  <2>2. ShiftTimer(poolTime) /\ pc = "timers"
    BY <1>6 DEF FireTimer
  <2>3. CASE i # j
    <3>1. entry'[i] = entry[i]
      <4>1. entry \in [Positions -> Entries]
        BY <1>0 DEF TimerInv, TimerTypeOK
      <4>2. \E e : entry' = [entry EXCEPT ![j] = e]
        BY <2>1, <2>2 DEF ShiftTimer
      <4> QED BY <2>3, <4>1, <4>2
    <3>2. entry[i].data.u # entry[j].data.u
      BY <1>2, <2>1, <2>3, <3>1, OneHolder
    <3>3. Begin => Head(workList).u # entry[i].data.u
      BY <1>2, <3>1, FirstWork DEF Begin
    <3> QED BY <1>3, <2>1, <3>1, <3>2, <3>3 DEF Runs1
  <2>4. CASE i = j
    <3>1. TimerInv /\ entry \in [Positions -> Entries]
      BY <1>0 DEF TimerInv, TimerTypeOK
    <3>2. entry[i].isInterval /\ entry' = [entry EXCEPT ![i] = Rearmed(@, poolTime)]
      <4>1. CASE entry[i].isInterval
        BY <2>1, <2>2, <2>4, <4>1 DEF ShiftTimer, KeepsRunning
      <4>2. CASE ~entry[i].isInterval
        <5>1. entry' = [entry EXCEPT ![i] = Released(@)]
          BY <2>1, <2>2, <2>4, <4>2 DEF ShiftTimer, KeepsRunning
        <5> QED BY <1>2, <3>1, <5>1, ReleasedFields
      <4> QED BY <4>1, <4>2
    <3>3. entry'[i].data = entry[i].data /\ entry'[i].timePoint = entry[i].timePoint + entry[i].timeout
      <4>1. entry'[i] = Rearmed(entry[i], poolTime)
        BY <3>1, <3>2
      <4>2. /\ Rearmed(entry[i], poolTime).data = entry[i].data
            /\ Rearmed(entry[i], poolTime).timePoint = entry[i].timePoint + entry[i].timeout
        BY <2>1, <2>4, Zenon DEF Rearmed, Entries
      <4> QED BY <4>1, <4>2
    <3> DEFINE b == book[entry[i].data.u]
               c == book'[entry[i].data.u]
    <3>4. entry[i].data.u \in DOMAIN book /\ b.every = entry[i].timeout
      BY <2>1, <2>4, <3>2 DEF OwnInv, EntryOwner
    <3>5. b \in Registration /\ OnTime(entry[i], b)
      BY <1>0, <2>1, <2>4, <3>4, BookDomain
    <3>6. b.ran \in 0 .. 3 /\ b.due \in Int /\ b.every \in Int
      BY <3>5 DEF Registration
    <3>7. c.due = b.due /\ c.every = b.every /\ (c.ran = b.ran \/ c.ran = Bump(b.ran))
      BY <3>4, NextRan DEF Fixed
    <3>8. c.ran = Bump(b.ran)
      <4>1. book' = Ran(entry[i].data.u)
        BY <1>6, <2>1, <2>4 DEF FireTimer
      <4> QED BY <1>0, <3>4, <4>1, BookRan
    <3> HIDE DEF b, c
    <3>9. ASSUME c.ran < 3 PROVE entry'[i].timePoint = c.due + c.ran * c.every
      <4>1. b.ran \in {0, 1, 2} /\ c.ran = b.ran + 1
        BY <3>6, <3>8, <3>9, BumpCounts
      <4>2. entry[i].timePoint = b.due + b.ran * b.every
        BY <3>5, <4>1
      <4>3. (b.ran + 1) * b.every = b.ran * b.every + b.every
        BY <3>6, <4>1, Periods
      <4>4. b.ran * b.every \in Int
        BY <3>6
      <4> DEFINE x == b.ran * b.every
                 y == (b.ran + 1) * b.every
      <4>5. y = x + b.every /\ x \in Int /\ entry[i].timePoint = b.due + x
            /\ c.ran * c.every = y
        BY <3>7, <4>1, <4>2, <4>3, <4>4
      <4> HIDE DEF x, y
      <4> QED BY <3>3, <3>4, <3>6, <3>7, <4>5
    <3> QED BY <3>3, <3>9 DEF c
  <2> QED BY <2>3, <2>4
<1>7. CASE FinalizeTimer
  <2>1. Head(activeList) \in Positions /\ TimerInv /\ entry \in [Positions -> Entries]
        /\ entry' = [entry EXCEPT ![Head(activeList)] = Released(@)]
    BY <1>0, <1>7, FirstTaken DEF FinalizeTimer, DrainTimer, TimerInv, TimerTypeOK
  <2>2. i # Head(activeList)
    BY <1>2, <2>1, ReleasedFields
  <2>3. entry'[i] = entry[i] /\ ~FireTimer
    BY <1>7, <2>1, <2>2 DEF FinalizeTimer, FireTimer
  <2> QED BY <1>3, <1>4, <2>3
<1>8. CASE StopsTimer
  <2>1. PICK a \in Actors, u \in DOMAIN book : ClearTimer(a, u)
    BY <1>8 DEF StopsTimer
  <2>2. book[u].id \in Identifiers /\ StopTimer(book[u].id)
    BY <1>0, <2>1, BookDomain DEF ClearTimer, Registration
  <2> DEFINE j == book[u].id[2]
  <2>3. j \in Positions /\ entry' = [entry EXCEPT ![j] = Released(@)]
    BY <2>2 DEF StopTimer, Identifiers
  <2> HIDE DEF j
  <2>4. i # j
    BY <1>0, <1>2, <2>3, ReleasedFields
  <2>5. entry'[i] = entry[i]
    BY <1>0, <2>3, <2>4 DEF TimerInv, TimerTypeOK
  <2>6. ~Runs1(entry[i].data.u)
    <3>1. ~FireTimer
      <4>1. UNCHANGED pc
        BY <2>1 DEF ClearTimer, loopVars
      <4> QED BY <4>1 DEF FireTimer
    <3> QED BY <1>4, <2>5, <3>1
  <2> QED BY <1>3, <2>5, <2>6
<1>9. CASE StartsTimer /\ ~UNCHANGED timerVars
  <2>1. PICK a \in Actors, delay \in Delays, isInterval \in BOOLEAN, d \in BOOLEAN :
          CallTimer(a, delay, isInterval, d)
    BY <1>9 DEF StartsTimer
  <2>2. DataOf(d) \in Data /\ delay \in Int /\ CanRegister /\ UNCHANGED pc
    BY <1>9, <2>1, TimerStarts, ZenonT(60) DEF CallTimer, loopVars
  <2>3. PICK now \in Nat : Started(a, delay, isInterval, d, now)
    BY <1>9, <2>1, TimerStarts
  <2>4. StartTimer(isInterval, now, delay, DataOf(d)) /\ freeList # <<>>
        /\ book' = Append(book, NewTimer(delay, isInterval, d, now))
    BY <2>3 DEF Started, StartTimer, StartRefused
  <2>5. PICK j \in Positions :
          /\ j = Head(freeList)
          /\ entry'[j].data = DataOf(d) /\ entry'[j].timePoint = delay + now
          /\ \A k \in Positions : k # j => entry'[k] = entry[k]
    <3>1. now \in Int
      OBVIOUS
    <3> QED BY <1>0, <2>2, <2>4, <3>1, StartedEntry
  <2>6. CASE i = j
    <3> DEFINE r == NewTimer(delay, isInterval, d, now)
               u == Len(book) + 1
    <3>1. r \in Registration /\ r.due = now + delay /\ r.ran = 0
      BY <2>2, <2>4, TimerRecord
    <3> HIDE DEF r
    <3>2. book'[u] = r
      BY <1>0, <2>2, <2>4, <3>1, BookGrown DEF r
    <3>3. entry'[i].data.u = u
      BY <2>5, <2>6 DEF DataOf
    <3>4. 0 * r.every = 0
      BY <3>1 DEF Registration
    <3> QED BY <2>2, <2>5, <2>6, <3>1, <3>2, <3>3, <3>4
  <2>7. CASE i # j
    <3>1. entry'[i] = entry[i] /\ ~FireTimer
      BY <2>2, <2>5, <2>7 DEF FireTimer
    <3> QED BY <1>3, <1>4, <3>1
  <2> QED BY <2>6, <2>7
<1> QED BY <1>5, <1>6, <1>7, <1>8, <1>9, NextTimersMove

LEMMA NextNotEarly ==
  ASSUME LoopInv, OwnInv, DueInv, [Next]_vars, NEW v \in DOMAIN book,
         book[v].kind = "timer", book'[v].ran > book[v].ran
  PROVE  clock >= book[v].due + book[v].ran * book[v].every
<1> DEFINE i == Head(activeList)
<1>1. book[v] \in Registration
  BY BookDomain DEF LoopInv
<1>2. book[v].ran \in 0 .. 3 /\ book[v].due \in Int /\ book[v].every \in Int
  BY <1>1 DEF Registration
<1>3. Runs1(v) /\ book'[v].ran = Bump(book[v].ran)
  BY <1>2, NextRan
<1>4. book[v].ran < 3
  BY <1>2, <1>3, BumpCounts
<1>5. FireTimer /\ v = entry[i].data.u
  <2>1. ~(Begin /\ v = Head(workList).u)
    BY FirstWork DEF Begin, IsWork
  <2> QED BY <1>3, <2>1 DEF Runs1
<1>6. i \in Positions /\ entry[i].active /\ entry[i] \in Entries
  BY <1>5, FiredItem
<1>7. entry[i].timePoint <= poolTime /\ poolTime <= clock
  BY <1>5 DEF FireTimer, ShiftTimer, Due, DueInv
<1> HIDE DEF i
<1>8. entry[i].timePoint = book[v].due + book[v].ran * book[v].every
  BY <1>4, <1>5, <1>6 DEF DueInv
<1>9. poolTime \in Int /\ clock \in Int /\ entry[i].timePoint \in Int
  BY <1>6 DEF LoopInv, LooperTypeOK, Entries
<1> DEFINE x == book[v].due + book[v].ran * book[v].every
<1>10. entry[i].timePoint = x
  BY <1>8
<1> HIDE DEF x
<1>11. clock >= x
  BY <1>7, <1>9, <1>10
<1> QED BY <1>11 DEF x

-----------------------------------------------------------------------------
(* Whatever is to be released is in somebody's hands until it is. *)
MustRelease(b) == b.destroy /\ ~(b.kind = "timer" /\ b.stopped = "refused")

\* What is released or refused stays so.
LEMMA NextFreed ==
  ASSUME LoopInv, OwnInv, IdentifiersLast, [Next]_vars, NEW v \in DOMAIN book
  PROVE  /\ v \in DOMAIN book' /\ (MustRelease(book'[v]) => MustRelease(book[v]))
         /\ book[v].freed = 1 => book'[v].freed = 1
<1>0. BookOK /\ v \in DOMAIN book' /\ Fixed(book'[v], book[v]) /\ book'[v].freed <= 1
  <2>1. ReleasedOnce'
    BY NextOwn DEF OwnInv
  <2>2. v \in DOMAIN book' /\ Fixed(book'[v], book[v])
    BY NextBook
  <2> QED BY <2>1, <2>2 DEF LoopInv, ReleasedOnce
<1>1. book[v].freed \in 0 .. 3
  BY <1>0, BookDomain DEF Registration
<1>2. CASE UNCHANGED book
  BY <1>0, <1>2
<1>3. CASE Grown
  BY <1>0, <1>3, BookGrown DEF Grown
<1>4. ASSUME NEW u \in DOMAIN book, Moved(u) PROVE book[v].freed = 1 => book'[v].freed = 1
  <2>1. CASE book' = Freed(u)
    <3>1. book'[v].freed = (IF v = u THEN Bump(book[v].freed) ELSE book[v].freed)
      BY <1>0, <2>1, BookFreed
    <3> QED BY <1>0, <1>1, <3>1, BumpCounts
  <2>2. CASE book' # Freed(u)
    BY <1>0, <1>4, <2>2, BookRan, BookFinished, BookStopped DEF Moved
  <2> QED BY <2>1, <2>2
<1>5. book[v].freed = 1 => book'[v].freed = 1
  BY <1>2, <1>3, <1>4, NextBookMoves
<1>6. book[v].stopped = "refused" /\ book[v].kind = "timer" => book'[v].stopped = "refused"
  <2>1. CASE StopsTimer
    <3>1. PICK a \in Actors, u \in DOMAIN book : ClearTimer(a, u)
      BY <2>1 DEF StopsTimer
    <3>2. v # u => book'[v] = book[v]
      <4> DEFINE s == IF a = Loop THEN "loop" ELSE "thread"
      <4>1. s \in {"loop", "thread"} /\ book' = [book EXCEPT ![u].stopped = s]
        BY <3>1 DEF ClearTimer
      <4> HIDE DEF s
      <4> QED BY <1>0, <4>1, BookStopped
    <3>3. book[u].stopped # "refused"
      BY <3>1, StoppedRuns
    <3> QED BY <3>2, <3>3
  <2>2. CASE Grown \/ UNCHANGED book
    BY <1>0, <2>2, BookGrown DEF Grown
  <2>3. CASE ~StopsTimer /\ ~Grown /\ ~UNCHANGED book
    <3>1. PICK u \in DOMAIN book : Moved(u)
      BY <2>3, NextBookMoves
    <3>2. CASE book' = Ran(u) \/ book' = Freed(u) \/ book' = [book EXCEPT ![u].finished = TRUE]
      BY <1>0, <3>2, BookRan, BookFreed, BookFinished
    <3>3. ASSUME NEW s \in {"loop", "thread"}, book' = [book EXCEPT ![u].stopped = s],
                 book[v].stopped = "refused", book'[v].stopped # "refused"
          PROVE  FALSE
      <4>1. v = u /\ book'[v].ran = book[v].ran /\ book'[v].freed = book[v].freed
            /\ book'[v].stopped = s
        BY <1>0, <3>3, BookStopped
      <4>2. \A w : book' # Ran(w) /\ book' # Freed(w) /\ book' # [book EXCEPT ![w].finished = TRUE]
        <5> SUFFICES ASSUME NEW w, book' = Ran(w) \/ book' = Freed(w)
                              \/ book' = [book EXCEPT ![w].finished = TRUE]
                     PROVE  FALSE
          OBVIOUS
        <5>1. w \in DOMAIN book => book'[v].stopped = book[v].stopped
          BY <1>0, BookRan, BookFreed, BookFinished
        <5>2. w \notin DOMAIN book => book' = book
          <6>1. book = [x \in DOMAIN book |-> book[x]]
            BY <1>0 DEF BookOK
          <6> QED BY <6>1, Zenon DEF Ran, Freed
        <5> QED BY <3>3, <5>1, <5>2
      <4>3. CASE LoopStep
        BY <2>3, <4>2, <4>3 DEF LoopStep, Check, FillFDSet, SelectReady, SelectTimeout, ReadEvents,
           NoTimerDue, FireTimer, TakeWakeup, NextWork, Begin, WorkDone, CallSource, NoMessage,
           HandlerReturns, DestroyReturns, Return, TellWaiter
      <4>4. CASE Finalizing
        BY <2>3, <4>2, <4>4 DEF Finalizing, Finalize, FinalizeTimer, FinalizeWork, Finalized
      <4>5. CASE Continues
        BY <2>3, <4>2, <4>5 DEF Continues, Continue, Wake, WaitReturns, DestroyStopped
      <4>6. CASE Attaches \/ Detaches \/ Tick \/ Signal \/ SelectError \/ Inputs \/ UNCHANGED vars
        BY <2>3, <4>6 DEF Attaches, Attach, Detaches, Detach, Tick, Signal, SelectError, Inputs, Input, vars
      <4> QED BY <2>3, <4>3, <4>4, <4>5, <4>6, RegisterGrows, NextSteps
    <3> QED BY <3>1, <3>2, <3>3 DEF Moved
  <2> QED BY <2>1, <2>2, <2>3
<1> QED BY <1>0, <1>5, <1>6 DEF MustRelease, Fixed

InEntry(u) == \E i \in Positions : entry[i].active /\ entry[i].data.u = u
InWork(u) == \E k \in DOMAIN workList : workList[k].u = u
InOp(u) == \E a \in Actors : op[a].k = "destroy" /\ op[a].u = u
InCur(u) == pc = "handle" /\ cur.kind # "source" /\ cur.destroy /\ cur.u = u

\* What a timer that goes away becomes, unless it is an interval that fires.
LEMMA EntryHeld ==
  ASSUME LoopInv, OwnInv, [Next]_vars, NEW v \in DOMAIN book, InEntry(v), book[v].destroy
  PROVE  InEntry(v)' \/ InOp(v)' \/ InCur(v)' \/ book'[v].freed = 1
<1>1. PICK i \in Positions : entry[i].active /\ entry[i].data.u = v
  BY DEF InEntry
<1>2. book[v].freed = 0 /\ entry[i].data.destroy
  BY <1>1, EntryRegistered
<1>3. entry \in [Positions -> Entries] /\ TimerInv /\ LooperTypeOK
  BY DEF LoopInv, TimerInv, TimerTypeOK
<1>4. CASE UNCHANGED timerVars
  BY <1>1, <1>4 DEF InEntry, timerVars
<1>5. CASE StartsTimer /\ ~UNCHANGED timerVars
  <2>1. PICK a \in Actors, delay \in Delays, isInterval \in BOOLEAN, d \in BOOLEAN :
          CallTimer(a, delay, isInterval, d)
    BY <1>5 DEF StartsTimer
  <2>2. PICK now \in Nat : DataOf(d) \in Data /\ delay \in Int /\ Started(a, delay, isInterval, d, now)
    BY <1>5, <2>1, TimerStarts
  <2>3. StartTimer(isInterval, now, delay, DataOf(d)) /\ now \in Int
    BY <2>2 DEF Started
  <2>4. entry'[i] = entry[i]
    BY <1>1, <1>3, <2>2, <2>3, StartedEntry
  <2> QED BY <1>1, <2>4 DEF InEntry
<1>6. CASE StopsTimer
  <2>1. PICK a \in Actors, u \in DOMAIN book : ClearTimer(a, u)
    BY <1>6 DEF StopsTimer
  <2> DEFINE j == book[u].id[2]
  <2>2. /\ j \in Positions /\ entry[j].data.u = u
        /\ entry' = [entry EXCEPT ![j] = Released(@)]
    BY <2>1, StoppedRuns
  <2>3. op' = [op EXCEPT ![a] = IF entry[j].data.destroy THEN [k |-> "destroy", u |-> entry[j].data.u]
                                                         ELSE Idle]
    BY <2>1 DEF ClearTimer
  <2> HIDE DEF j
  <2>4. CASE i = j
    <3>1. op'[a] = [k |-> "destroy", u |-> v]
      BY <1>1, <1>2, <1>3, <2>3, <2>4 DEF LooperTypeOK
    <3> QED BY <3>1 DEF InOp
  <2>5. CASE i # j
    BY <1>1, <1>3, <2>2, <2>5 DEF InEntry
  <2> QED BY <2>4, <2>5
<1>7. CASE FireTimer
  <2>1. PICK j \in Positions : j = Head(activeList) /\ entry[j].active
                               /\ cur' = Item("timer", entry[j].data.u, ReleasedAfter(entry[j]))
    BY <1>7, FiredItem
  <2>2. ShiftTimer(poolTime) /\ pc' = "handle"
    BY <1>7 DEF FireTimer
  <2>3. CASE i # j
    <3>1. entry'[i] = entry[i]
      BY <1>3, <2>1, <2>2, <2>3 DEF ShiftTimer
    <3> QED BY <1>1, <3>1 DEF InEntry
  <2>4. CASE i = j /\ entry[i].isInterval
    <3>1. entry' = [entry EXCEPT ![i] = Rearmed(@, poolTime)]
      BY <2>1, <2>2, <2>4 DEF ShiftTimer, KeepsRunning
    <3>2. entry'[i] = Rearmed(entry[i], poolTime)
      BY <1>3, <3>1
    <3>3. Rearmed(entry[i], poolTime).active /\ Rearmed(entry[i], poolTime).data = entry[i].data
      BY <1>1, <1>3 DEF Rearmed, Entries
    <3> QED BY <1>1, <3>2, <3>3 DEF InEntry
  <2>5. CASE i = j /\ ~entry[i].isInterval
    <3>1. ReleasedAfter(entry[j])
      BY <1>2, <2>5 DEF ReleasedAfter
    <3> QED BY <1>1, <2>1, <2>2, <2>5, <3>1 DEF InCur, Item
  <2> QED BY <2>3, <2>4, <2>5
<1>8. CASE FinalizeTimer
  <2> DEFINE j == Head(activeList)
  <2>1. /\ entry' = [entry EXCEPT ![j] = Released(@)]
        /\ book' = IF entry[j].data.destroy THEN Freed(entry[j].data.u) ELSE book
    BY <1>8 DEF FinalizeTimer, DrainTimer
  <2> HIDE DEF j
  <2>2. CASE i # j
    BY <1>1, <1>3, <2>1, <2>2 DEF InEntry
  <2>3. CASE i = j
    <3>1. book' = Freed(v)
      BY <1>1, <1>2, <2>1, <2>3
    <3> QED BY <1>2, <3>1, BookFreed, CountsFromZero DEF LoopInv
  <2> QED BY <2>2, <2>3
<1> QED BY <1>4, <1>5, <1>6, <1>7, <1>8, NextTimersMove

\* Work is run, or released without; or the program ends.
LEMMA WorkHeld ==
  ASSUME LoopInv, OwnInv, [Next]_vars, NEW v \in DOMAIN book, InWork(v), book[v].destroy
  PROVE  InWork(v)' \/ InCur(v)' \/ book'[v].freed = 1 \/ pc' = "crashed"
<1>1. PICK k \in DOMAIN workList : workList[k].u = v
  BY DEF InWork
<1>2. workList[k].destroy /\ book[v].freed = 0
  BY <1>1 DEF OwnInv, WorkOwner
<1>3. WorkTypes
  BY Types DEF LoopInv
<1>4. CASE UNCHANGED dispatchVars
  BY <1>1, <1>4 DEF InWork, dispatchVars
<1>5. CASE Enqueues
  <2>1. PICK a \in Actors, kind \in WorkKinds, d \in BOOLEAN : Enqueue(a, kind, d)
    BY <1>5 DEF Enqueues
  <2> DEFINE w == Item(kind, Len(book) + 1, d)
  <2>2. CASE Push(w)
    <3>1. w \in WorkItem
      BY <2>1, PushedItem DEF LoopInv, Enqueue
    <3>2. workList'[k] = workList[k] /\ k \in DOMAIN workList'
      BY <1>3, <2>2, <3>1, Pushed DEF WorkTypes
    <3> QED BY <1>1, <3>2 DEF InWork
  <2>3. CASE UNCHANGED dispatchVars
    BY <1>4, <2>3
  <2> QED BY <2>1, <2>2, <2>3 DEF Enqueue
<1>6. ASSUME Shift, k # 1 PROVE InWork(v)'
  <2>1. /\ DOMAIN workList = 1 .. Len(workList) /\ DOMAIN workList' = 1 .. Len(workList) - 1
        /\ \A j \in 1 .. Len(workList) - 1 : workList'[j] = workList[j + 1]
        /\ Len(workList) \in Nat
    BY <1>3, <1>6, Shifted DEF WorkTypes
  <2>2. k - 1 \in DOMAIN workList' /\ (k - 1) + 1 = k
    BY <1>6, <2>1
  <2>3. workList'[k - 1].u = v
    BY <1>1, <2>1, <2>2
  <2> QED BY <2>2, <2>3 DEF InWork
<1>7. ASSUME Shift, k = 1
      PROVE  Head(workList).u = v /\ Head(workList).destroy /\ Head(workList) \in WorkItem
  BY <1>1, <1>2, <1>3, <1>7, Shifted
<1>8. CASE Begin
  <2>1. CASE k = 1
    <3>1. cur' = Head(workList) /\ pc' = "handle" /\ Shift
      BY <1>8 DEF Begin
    <3> QED BY <1>7, <2>1, <3>1 DEF InCur, WorkItem, WorkKinds
  <2> QED BY <1>6, <1>8, <2>1 DEF Begin
<1>9. CASE FinalizeWork
  <2>1. CASE k = 1
    <3>1. Head(workList).u = v
      BY <1>7, <1>9, <2>1 DEF FinalizeWork
    <3>2. book' = Freed(v) \/ pc' = "crashed"
      BY <1>9, <3>1 DEF FinalizeWork
    <3> QED BY <1>2, <3>2, BookFreed, CountsFromZero DEF LoopInv
  <2> QED BY <1>6, <1>9, <2>1 DEF FinalizeWork
<1> QED BY <1>4, <1>5, <1>8, <1>9, NextWorkMoves DEF TakeWakeup, NextWork

\* A thread that owes a release does nothing else before.
LEMMA OpHeld ==
  ASSUME LoopInv, OwnInv, [Next]_vars, NEW v \in DOMAIN book, InOp(v)
  PROVE  InOp(v)' \/ book'[v].freed = 1
<1>1. PICK a \in Actors : op[a].k = "destroy" /\ op[a].u = v
  BY DEF InOp
<1>2. OpTypes /\ book[v].freed = 0
  BY <1>1, Types DEF LoopInv, OwnInv, OpOwner
<1>3. ASSUME NEW b \in Actors, op[b] = Idle, NEW p, op' = [op EXCEPT ![b] = p] PROVE op'[a] = op[a]
  BY <1>1, <1>2, <1>3 DEF OpTypes, Idle
<1>4. CASE op' = op
  BY <1>1, <1>4 DEF InOp
<1>5. CASE op'[a] = op[a]
  BY <1>1, <1>5 DEF InOp
<1>6. CASE Enqueues \/ StartsTimer \/ Attaches \/ Detaches
  BY <1>3, <1>4, <1>5, <1>6, ZenonT(60) DEF Enqueues, Enqueue, CanCall, StartsTimer, CallTimer, Attaches, Attach,
     Detaches, Detach
<1>7. CASE StopsTimer
  <2>1. PICK b \in Actors, u \in DOMAIN book : ClearTimer(b, u)
    BY <1>7 DEF StopsTimer
  <2>2. op[b] = Idle /\ \E p : op' = [op EXCEPT ![b] = p]
    BY <2>1 DEF ClearTimer, CanCall
  <2> QED BY <1>3, <1>5, <2>2
<1>8. CASE Continues
  <2>1. PICK b \in Actors : Wake(b) \/ WaitReturns(b) \/ DestroyStopped(b)
    BY <1>8 DEF Continues, Continue
  <2>2. CASE b = a
    <3>1. book' = Freed(v)
      BY <1>1, <2>1, <2>2 DEF Wake, WaitReturns, DestroyStopped
    <3> QED BY <1>2, <3>1, BookFreed, CountsFromZero DEF LoopInv
  <2>3. CASE b # a
    <3>1. \E p : op' = [op EXCEPT ![b] = p]
      BY <2>1 DEF Wake, WaitReturns, DestroyStopped
    <3> QED BY <1>2, <1>5, <2>3, <3>1 DEF OpTypes
  <2> QED BY <2>2, <2>3
<1>9. CASE LoopStep
  BY <1>4, <1>9 DEF LoopStep, Check, FillFDSet, SelectReady, SelectTimeout, ReadEvents, NoTimerDue,
     FireTimer, TakeWakeup, NextWork, WorkDone, CallSource, NoMessage, HandlerReturns,
     DestroyReturns, callVars
<1>10. CASE Finalizing
  BY <1>4, <1>10 DEF Finalizing, Finalize, FinalizeTimer, FinalizeWork, Finalized, callVars
<1>11. CASE Tick \/ Signal \/ SelectError \/ Inputs \/ Inline \/ UNCHANGED vars
  BY <1>4, <1>11 DEF Tick, Signal, SelectError, Inputs, Input, Inline, CallAndWaitInline, callVars, vars
<1> QED BY <1>6, <1>7, <1>8, <1>9, <1>10, <1>11, NextSteps

\* The callback in hand is released when its handler returns.
LEMMA CurHeld ==
  ASSUME LoopInv, OwnInv, [Next]_vars, NEW v \in DOMAIN book, InCur(v)
  PROVE  InCur(v)' \/ book'[v].freed = 1
<1>1. pc = "handle" /\ cur.kind # "source" /\ cur.destroy /\ cur.u = v
  BY DEF InCur
<1>2. book[v].freed = 0
  BY <1>1 DEF OwnInv, CurOwner, InCallback
<1>3. CASE UNCHANGED loopVars
  BY <1>1, <1>3 DEF InCur, loopVars, runVars
<1>4. CASE HandlerReturns
  <2>1. cur.kind # "callAndWait" \/ cur.kind = "callAndWait"
    OBVIOUS
  <2>2. book' = Freed(v)
    BY <1>1, <1>4 DEF HandlerReturns, TellWaiter
  <2> QED BY <1>2, <2>2, BookFreed, CountsFromZero DEF LoopInv
<1>5. CASE LoopStep /\ ~HandlerReturns
  BY <1>1, <1>5 DEF LoopStep, Check, FillFDSet, SelectReady, SelectTimeout, ReadEvents, NoTimerDue,
     FireTimer, TakeWakeup, NextWork, WorkDone, CallSource, NoMessage, AllHandled, DestroyReturns
<1>6. CASE Finalizing \/ SelectError
  BY <1>1, <1>6 DEF Finalizing, Finalize, FinalizeTimer, FinalizeWork, Finalized, NothingToRelease, SelectError
<1> QED BY <1>3, <1>4, <1>5, <1>6, NextSteps, OutsideKeeps DEF Outside

\* What is registered is in somebody's hands at once, or released, or refused.
LEMMA NewHeld ==
  ASSUME LoopInv, OwnInv, Enqueues \/ Inline \/ StartsTimer,
         NEW v \in DOMAIN book' \ DOMAIN book, MustRelease(book'[v])
  PROVE  InEntry(v)' \/ InWork(v)' \/ book'[v].freed = 1
<1>1. CASE Enqueues
  <2>1. PICK a \in Actors, kind \in WorkKinds, d \in BOOLEAN : Enqueue(a, kind, d)
    BY <1>1 DEF Enqueues
  <2> DEFINE u == Len(book) + 1
             r == New(kind, d)
             w == Item(kind, u, d)
  <2>2. CanRegister /\ BookOK /\ WorkTypes /\ Len(book) \in Nat
    BY <2>1, Types, BookDomain DEF Enqueue, LoopInv
  <2>3. r \in Registration /\ r.destroy = d
    BY NewRecord, ZenonT(60) DEF WorkKinds
  <2>4. CASE Push(w) /\ book' = Append(book, r)
    <3>1. v = u
      <4> HIDE DEF r
      <4> QED BY <2>2, <2>3, <2>4, BookGrown
    <3>2. w \in WorkItem
      BY <2>2, PushedItem
    <3>3. Len(workList) + 1 \in DOMAIN workList' /\ workList'[Len(workList) + 1] = w
      <4> HIDE DEF w
      <4>1. Len(workList) \in Nat
        BY <2>2 DEF WorkTypes
      <4> QED BY <2>2, <2>4, <3>2, <4>1, Pushed
    <3>4. w.u = u
      BY DEF Item
    <3> QED BY <3>1, <3>3, <3>4 DEF InWork
  <2>5. CASE book' = Append(book, [r EXCEPT !.stopped = "refused", !.freed = IF d THEN 1 ELSE 0])
    <3> DEFINE x == IF d THEN 1 ELSE 0
               q == [r EXCEPT !.stopped = "refused", !.freed = x]
    <3>1. x \in 0 .. 3 /\ book' = Append(book, q)
      BY <2>5, SMTT(60)
    <3> HIDE DEF r, x
    <3>2. q \in Registration /\ q.freed = x /\ q.destroy = d
      BY <2>3, <3>1, RefusedRecord DEF Fixed
    <3> HIDE DEF q
    <3>3. book'[v] = q
      BY <2>2, <3>1, <3>2, BookGrown
    <3> QED BY <3>2, <3>3 DEF MustRelease, x
  <2> QED BY <2>1, <2>4, <2>5 DEF Enqueue
<1>2. CASE Inline
  <2>1. PICK d \in BOOLEAN : CallAndWaitInline(d)
    BY <1>2 DEF Inline
  <2> DEFINE x == IF d THEN 1 ELSE 0
             r == InlineNew(d, x)
  <2>2. book' = Append(book, r) /\ CanRegister /\ BookOK
    BY <2>1 DEF CallAndWaitInline, InlineNew, LoopInv
  <2>3. x \in 0 .. 3
    OBVIOUS
  <2> HIDE DEF x
  <2>4. r \in Registration /\ r.freed = x /\ r.destroy = d
    BY <2>3, InlineRecord
  <2> HIDE DEF r
  <2>5. book'[v] = r
    BY <2>2, <2>4, BookGrown
  <2> QED BY <2>4, <2>5 DEF MustRelease, x
<1>3. CASE StartsTimer
  <2>1. PICK a \in Actors, delay \in Delays, isInterval \in BOOLEAN, d \in BOOLEAN :
          CallTimer(a, delay, isInterval, d)
    BY <1>3 DEF StartsTimer
  <2>2. delay \in Int /\ CanRegister /\ BookOK
    BY <2>1, TimesAssumption DEF CallTimer, LoopInv
  <2>3. CASE book' = Append(book, RefusedTimer(delay, isInterval, d))
    <3> DEFINE r == RefusedTimer(delay, isInterval, d)
    <3>1. r \in Registration /\ r.kind = "timer" /\ r.stopped = "refused"
      BY <2>2, TimerRecord
    <3>2. book' = Append(book, r)
      BY <2>3
    <3> HIDE DEF r
    <3>3. book'[v] = r
      BY <2>2, <3>1, <3>2, BookGrown
    <3> QED BY <3>1, <3>3 DEF MustRelease
  <2>4. ASSUME NEW now \in Nat, Started(a, delay, isInterval, d, now) PROVE InEntry(v)'
    <3> DEFINE r == NewTimer(delay, isInterval, d, now)
               data == DataOf(d)
    <3>1. /\ StartTimer(isInterval, now, delay, data) /\ freeList # <<>>
          /\ book' = Append(book, r)
      BY <2>4 DEF Started, StartTimer, StartRefused
    <3>2. data \in Data /\ data.u = Len(book) + 1
      BY <2>2, BookDomain, LooperAssumption DEF DataOf, CanRegister, LoopInv
    <3>3. TimerInv /\ now \in Int
      BY DEF LoopInv
    <3>4. r \in Registration
      BY <2>2, <3>1, TimerRecord
    <3> HIDE DEF data, r
    <3>5. Head(freeList) \in Positions /\ entry'[Head(freeList)].active
          /\ entry'[Head(freeList)].data = data
      BY <2>2, <3>1, <3>2, <3>3, StartedEntry
    <3>6. v = Len(book) + 1
      BY <2>2, <3>1, <3>4, BookGrown
    <3> QED BY <3>2, <3>5, <3>6 DEF InEntry
  <2>5. CASE UNCHANGED book
    BY <2>5
  <2> QED BY <2>1, <2>3, <2>4 DEF CallTimer, RefusedTimer, NewTimer, Started, DataOf
<1> QED BY <1>1, <1>2, <1>3

LEMMA NextHeld ==
  ASSUME LoopInv, OwnInv, IdentifiersLast, HeldOrFreed, [Next]_vars
  PROVE  HeldOrFreed'
<1> SUFFICES ASSUME pc' # "crashed", NEW v \in DOMAIN book', MustRelease(book'[v])
             PROVE  book'[v].freed = 1 \/ Holds(v)'
  BY DEF HeldOrFreed, MustRelease
<1>1. Holds(v)' <=> InEntry(v)' \/ InWork(v)' \/ InOp(v)' \/ InCur(v)'
  BY DEF Holds, InEntry, InWork, InOp, InCur
<1>2. pc # "crashed"
  <2> SUFFICES ASSUME pc = "crashed" PROVE FALSE
    OBVIOUS
  <2>1. ~LoopStep /\ ~Finalizing /\ ~SelectError
    BY DEF LoopStep, Check, FillFDSet, SelectReady, SelectTimeout, ReadEvents, FireTimer, NoTimerDue,
       TakeWakeup, NextWork, WorkDone, CallSource, NoMessage, AllHandled, HandlerReturns,
       DestroyReturns, Finalizing, Finalize, FinalizeTimer, FinalizeWork, Finalized,
       NothingToRelease, SelectError
  <2> QED BY <2>1, NextSteps, OutsideKeeps DEF Outside, loopVars
<1>3. CASE v \in DOMAIN book
  <2>1. MustRelease(book[v]) /\ (book[v].freed = 1 => book'[v].freed = 1)
    BY <1>3, NextFreed
  <2>2. book[v].destroy
    BY <2>1 DEF MustRelease
  <2>3. book[v].freed = 1 \/ InEntry(v) \/ InWork(v) \/ InOp(v) \/ InCur(v)
    BY <1>2, <1>3, <2>1 DEF HeldOrFreed, MustRelease, Holds, InEntry, InWork, InOp, InCur
  <2> QED BY <1>1, <1>3, <2>1, <2>2, <2>3, EntryHeld, WorkHeld, OpHeld, CurHeld
<1>4. CASE v \notin DOMAIN book
  <2>1. CASE Enqueues \/ Inline \/ StartsTimer
    BY <1>1, <1>4, <2>1, NewHeld
  <2>2. DOMAIN book' # DOMAIN book
    BY <1>4
  <2>3. ASSUME NEW u \in DOMAIN book, Moved(u) PROVE FALSE
    BY <2>2, <2>3, BookRan, BookFreed, BookFinished, BookStopped DEF Moved, LoopInv
  <2>4. CASE Grown /\ ~(Enqueues \/ Inline \/ StartsTimer)
    <3>1. book' # book
      BY <2>2
    <3>2. ~LoopStep /\ ~Finalizing /\ ~Tick /\ ~Signal /\ ~SelectError /\ ~Inputs
          /\ ~Attaches /\ ~Detaches /\ ~UNCHANGED vars
      <4>1. ASSUME NEW u PROVE book' # Ran(u) /\ book' # Freed(u) /\ book' # [book EXCEPT ![u].finished = TRUE]
        BY <2>2 DEF Ran, Freed
      <4>2. ~LoopStep
        BY <3>1, <4>1 DEF LoopStep, Check, FillFDSet, SelectReady, SelectTimeout, ReadEvents,
           NoTimerDue, FireTimer, TakeWakeup, NextWork, Begin, WorkDone, CallSource, NoMessage,
           HandlerReturns, DestroyReturns, Return, TellWaiter
      <4>3. ~Finalizing
        BY <3>1, <4>1 DEF Finalizing, Finalize, FinalizeTimer, FinalizeWork, Finalized
      <4>4. ~Tick /\ ~Signal /\ ~SelectError /\ ~Inputs /\ ~Attaches /\ ~Detaches /\ ~UNCHANGED vars
        BY <3>1 DEF Tick, Signal, SelectError, Inputs, Input, Attaches, Attach, Detaches, Detach, vars
      <4> QED BY <4>2, <4>3, <4>4
    <3>3. ~Continues
      BY <3>1, <2>2 DEF Continues, Continue, Wake, WaitReturns, DestroyStopped, Freed
    <3>4. ~StopsTimer
      BY <3>1, <2>2 DEF StopsTimer, ClearTimer
    <3> QED BY <2>4, <3>2, <3>3, <3>4, NextSteps
  <2> QED BY <2>1, <2>2, <2>3, <2>4, NextBookMoves
<1> QED BY <1>3, <1>4

\* Once the loop is being finalized nobody calls it, and nothing is left at the end.
LEMMA NextOver ==
  ASSUME LoopInv, LoopIsOver, [Next]_vars
  PROVE  LoopIsOver'
<1>0. OpTypes
  BY Types DEF LoopInv
<1>1. CASE LoopStep
  <2>1. pc' \notin {"final", "gone", "crashed"}
    <3>1. CASE HandlerReturns \/ DestroyReturns
      <4>1. pc' = "destroy" \/ pc' = After(cur)
        BY <3>1 DEF HandlerReturns, DestroyReturns, Return
      <4>2. InCallback /\ cur \in Callback /\ cur.kind # "none"
        BY <3>1, Types DEF LoopInv, WhereInv, WhereTypes, HandlerReturns, DestroyReturns, InCallback
      <4>3. After(cur) \in {"timers", "work", "message"}
        <5>1. cur.kind \in {"timer", "source", "call", "callAndWait", "stop"}
          BY <4>2 DEF Callback
        <5> QED BY <5>1 DEF After, IsWork
      <4> QED BY <4>1, <4>3
    <3>2. CASE ~(HandlerReturns \/ DestroyReturns)
      BY <1>1, <3>2 DEF LoopStep, Check, FillFDSet, SelectReady, SelectTimeout, ReadEvents,
         NoTimerDue, FireTimer, TakeWakeup, NextWork, Begin, WorkDone, CallSource, NoMessage,
         AllHandled
    <3> QED BY <3>1, <3>2
  <2> QED BY <2>1 DEF LoopIsOver
<1>2. CASE Finalize
  BY <1>2 DEF Finalize, LoopIsOver, callVars
<1>3. CASE FinalizeTimer \/ FinalizeWork
  BY <1>3 DEF FinalizeTimer, FinalizeWork, LoopIsOver, loopVars, callVars
<1>4. CASE Finalized
  BY <1>4 DEF Finalized, NothingToRelease, LoopIsOver, timerVars, dispatchVars, callVars
<1>5. CASE SelectError
  BY <1>5 DEF SelectError, LoopIsOver
<1>6. CASE Tick \/ Signal \/ Inputs \/ UNCHANGED vars
  BY <1>6 DEF Tick, Signal, Inputs, Input, vars, loopVars, timerVars, dispatchVars, callVars, LoopIsOver
<1>7. ASSUME NEW a \in Actors, NEW call, CanCall(a, call)
      PROVE  pc \notin {"final", "gone", "crashed"}
  BY <1>7 DEF CanCall, UserCode
<1>8. CASE Enqueues \/ Inline \/ StartsTimer \/ StopsTimer \/ Attaches \/ Detaches
  <2>1. pc \notin {"final", "gone", "crashed"}
    BY <1>7, <1>8 DEF Enqueues, Inline, CallAndWaitInline, StartsTimer, CallTimer, StopsTimer,
       ClearTimer, Attaches, Attach, Detaches, Detach, Actors
  <2>2. UNCHANGED pc
    BY <1>8, OutsideKeeps DEF Outside, loopVars
  <2> QED BY <2>1, <2>2 DEF LoopIsOver
<1>9. CASE Continues
  <2>1. PICK a \in Actors : Wake(a) \/ WaitReturns(a) \/ DestroyStopped(a)
    BY <1>9 DEF Continues, Continue
  <2>2. UNCHANGED <<pc, activeList, workList>>
    BY <2>1 DEF Wake, WaitReturns, DestroyStopped, loopVars, timerVars, dispatchVars
  <2>3. CASE pc \in {"final", "gone", "crashed"}
    <3>1. WaitReturns(a)
      BY <2>1, <2>3 DEF Wake, DestroyStopped, LoopIsOver
    <3> QED BY <1>0, <2>2, <3>1 DEF WaitReturns, LoopIsOver, Idle, OpTypes
  <2> QED BY <2>2, <2>3 DEF LoopIsOver
<1> QED BY <1>1, <1>2, <1>3, <1>4, <1>5, <1>6, <1>8, <1>9, NextSteps DEF Finalizing

\* When the loop is gone nobody holds anything.
LEMMA NobodyHolds ==
  ASSUME LoopInv, ReleaseInv
  PROVE  FinalizeReleases
<1> SUFFICES ASSUME pc = "gone", NEW u \in DOMAIN book, MustRelease(book[u])
             PROVE  book[u].freed = 1
  BY DEF FinalizeReleases, MustRelease
<1>1. book[u].freed = 1 \/ Holds(u)
  BY DEF ReleaseInv, HeldOrFreed, MustRelease
<1>2. \A i \in Positions : ~entry[i].active
  BY DEF LoopInv, TimerInv, EachInOneList, ReleaseInv, LoopIsOver, ToSet
<1>3. ~Holds(u)
  BY <1>2 DEF Holds, ReleaseInv, LoopIsOver
<1> QED BY <1>1, <1>3

-----------------------------------------------------------------------------
(* The initial states. *)
LEMMA InitLoop == Init => LoopInv /\ SourceTable
<1> SUFFICES ASSUME Init PROVE LoopInv /\ SourceTable
  OBVIOUS
<1>1. TimerInv
  BY InitInv DEF Init
<1>2. TimerTypeOK
  BY <1>1 DEF TimerInv
<1>3. WorkTypes /\ SizeCounts
  BY QueueAssumption DEF Init, DispatchInit, WorkTypes, SizeCounts
<1>4. WhereTypes /\ WhereInv
  BY LooperAssumption DEF Init, WhereTypes, WhereInv, NothingLeftOver, InCallback, Callback, Nothing, Loops
<1>5. OpTypes
  BY LooperAssumption DEF Init, OpTypes, Pending, Idle
<1>6. TimeTypes /\ SourceTypes
  <2>1. stopLoop = FALSE /\ s_stopLoop = FALSE /\ hasWakeup = FALSE
    BY Zenon DEF Init
  <2>2. clock = 0 /\ poolTime = 0 /\ deadline = -1 /\ sources = <<>> /\ performSources = <<>>
        /\ fdSet = {} /\ readable = {} /\ wanted = {}
    BY DEF Init
  <2>3. <<>> \in Seq(Sources)
    OBVIOUS
  <2> QED BY <2>1, <2>2, <2>3 DEF TimeTypes, SourceTypes
<1>7. BookOK
  BY LooperAssumption DEF Init, BookOK
<1>8. SourceTable
  BY DEF Init, SourceTable, IsInjective, ToSet
<1>9. LooperTypeOK /\ SizeCounts
  BY <1>2, <1>3, <1>4, <1>5, <1>6, Types
<1> QED BY <1>1, <1>4, <1>7, <1>8, <1>9 DEF LoopInv

LEMMA InitOwn == Init => OwnInv /\ DueInv /\ ReleaseInv
<1> SUFFICES ASSUME Init PROVE OwnInv /\ DueInv /\ ReleaseInv
  OBVIOUS
<1>1. /\ \A i \in Positions : ~entry[i].active /\ entry[i].gen = 0
      /\ workList = <<>> /\ book = <<>> /\ pc = "check" /\ poolTime = 0 /\ clock = 0
      /\ \A a \in Actors : op[a] = Idle
  BY DEF Init, TimerInit, DispatchInit
<1>2. DOMAIN book = {} /\ DOMAIN workList = {} /\ Len(book) = 0
  BY <1>1
<1>3. EntryOwner /\ IdentifierKnown /\ GenerationsUsed /\ WorkOwner
  BY <1>1, <1>2 DEF EntryOwner, IdentifierKnown, GenerationsUsed, WorkOwner
<1>4. CurOwner /\ OpOwner /\ FinishedLast /\ ReleasedOnce
  BY <1>1, <1>2 DEF CurOwner, OpOwner, FinishedLast, ReleasedOnce, InCallback, Idle
<1>5. DueInv
  BY <1>1 DEF DueInv
<1>6. ReleaseInv
  BY <1>1, <1>2 DEF ReleaseInv, HeldOrFreed, LoopIsOver
<1> QED BY <1>3, <1>4, <1>5, <1>6 DEF OwnInv

LEMMA InitSleep == Init => NoLostWork /\ SleepCoversTimers
BY DEF Init, DispatchInit, NoLostWork, SleepCoversTimers

-----------------------------------------------------------------------------
(* What the main loop promises. *)

(* Attached sources are in the table once each, and no others: detaching one, *)
(* which moves the last, loses none and leaves no ghost.                      *)
THEOREM SourcesAreThoseAttached == Spec => []SourceTable
<1>1. LoopInv /\ SourceTable /\ [Next]_vars => (LoopInv /\ SourceTable)'
  BY NextLoopInv, NextSourceTable
<1> QED BY <1>1, InitLoop, PTL DEF Spec

LEMMA Reachable == Spec => [](LoopInv /\ SourceTable)
<1>1. LoopInv /\ SourceTable /\ [Next]_vars => (LoopInv /\ SourceTable)'
  BY NextLoopInv, NextSourceTable
<1> QED BY <1>1, InitLoop, PTL DEF Spec

(* Types, the length of the queue, and that poll() is called with nothing of  *)
(* the last round left over.                                                  *)
THEOREM LoopIsSound ==
  Spec => [](LooperTypeOK /\ SizeCounts /\ NothingLeftOver)
<1>1. LoopInv => LooperTypeOK /\ SizeCounts /\ NothingLeftOver
  BY DEF LoopInv, WhereInv
<1> QED BY <1>1, Reachable, PTL

(* The loop never sleeps on work nobody announces: every push sets the wakeup *)
(* event's counter, and reading it is followed by running what was there.     *)
THEOREM WorkIsNeverLost == Spec => []NoLostWork
<1>1. LoopInv /\ NoLostWork /\ [Next]_vars => NoLostWork'
  BY NextNoLostWork
<1> QED BY <1>1, InitSleep, Reachable, PTL DEF Spec

(* select() is never left to sleep past the first timer, though timers start  *)
(* while the loop computes how long to sleep.                                 *)
THEOREM NoTimerIsSleptThrough == Spec => []SleepCoversTimers
<1>1. LoopInv /\ SleepCoversTimers /\ [Next]_vars => SleepCoversTimers'
  BY NextSleep
<1> QED BY <1>1, InitSleep, Reachable, PTL DEF Spec

\* What is said of registrations holds while no entry has used up its identifiers.
LEMMA OwnersReachable ==
  ASSUME IdentifiersLast
  PROVE  Spec => [](OwnInv /\ DueInv)
<1>1. LoopInv /\ OwnInv /\ DueInv /\ [Next]_vars => (OwnInv /\ DueInv)'
  BY NextOwn, NextDue
<1> QED BY <1>1, InitOwn, Reachable, PTL DEF Spec

(* A destroy handler is called at most once, and a timer that is not an       *)
(* interval runs once or is stopped, never both, whoever stops it and when.   *)
THEOREM LooperIsSound ==
  ASSUME IdentifiersLast
  PROVE  Spec => []LooperInv
<1>1. OwnInv => ReleasedOnce
  BY DEF OwnInv
<1> QED BY <1>1, LoopIsSound, OwnersReachable, PTL DEF LooperInv

(* A timer that stopTimer has stopped, or startTimer refused, never runs, not *)
(* even when another timer has its entry.                                     *)
THEOREM StoppedTimersAreSilent ==
  ASSUME IdentifiersLast
  PROVE  Spec => StoppedIsSilent
<1>1. LoopInv /\ OwnInv /\ [Next]_vars =>
        [\A u \in DOMAIN book : book'[u].ran > book[u].ran => book[u].stopped = "no"]_vars
  BY NextSilent
<1> QED BY <1>1, Reachable, OwnersReachable, PTL DEF Spec, StoppedIsSilent

(* No timer fires before its time, and no interval before its next, whichever *)
(* times poll and startTimer read.                                            *)
THEOREM TimersAreNotEarly ==
  ASSUME IdentifiersLast
  PROVE  Spec => TimerNotEarly
<1>1. LoopInv /\ OwnInv /\ DueInv /\ [Next]_vars =>
        [\A u \in DOMAIN book :
           book[u].kind = "timer" /\ book'[u].ran > book[u].ran =>
             clock >= book[u].due + book[u].ran * book[u].every]_vars
  BY NextNotEarly
<1> QED BY <1>1, Reachable, OwnersReachable, PTL DEF Spec, TimerNotEarly

(* callAndWait does not return before both handlers have, and leaves nothing  *)
(* of its caller's stack in the loop's hands.                                 *)
THEOREM WaitersReturnLast ==
  ASSUME IdentifiersLast
  PROVE  Spec => WaitEndsLast
<1>1. LoopInv /\ OwnInv /\ [Next]_vars =>
        [\A t \in Threads : op[t].k = "wait" /\ op'[t] = Idle =>
           LET b == book[op[t].u] IN
           /\ b.ran = 1 /\ b.freed = (IF b.destroy THEN 1 ELSE 0)
           /\ ~(IsWork(cur) /\ cur.u = op[t].u)]_vars
  BY NextWaits
<1> QED BY <1>1, Reachable, OwnersReachable, PTL DEF Spec, WaitEndsLast

(* Finalizing a loop releases, once, everything it was given with a destroy   *)
(* handler: nothing taken is forgotten on any way through the loop.           *)
THEOREM FinalizeReleasesAll ==
  ASSUME IdentifiersLast
  PROVE  Spec => []FinalizeReleases
<1>1. LoopInv /\ OwnInv /\ ReleaseInv /\ [Next]_vars => ReleaseInv'
  BY NextHeld, NextOver DEF ReleaseInv
<1>2. Init => ReleaseInv
  BY InitOwn
<1>3. LoopInv /\ ReleaseInv => FinalizeReleases
  BY NobodyHolds
<1> QED BY <1>1, <1>2, <1>3, Reachable, OwnersReachable, PTL DEF Spec

-----------------------------------------------------------------------------
(* The loop as the executor FifoExecutor promises, when it is not finalized:  *)
(* finalizing takes work away without running it.                             *)
AsWork(w) == [u |-> w.u, destroy |-> w.destroy]
InExecution == IF IsWork(cur) /\ pc = "handle" THEN AsWork(cur) ELSE Fifo!Idle
Owed == IF IsWork(cur) /\ pc = "destroy" THEN <<[u |-> cur.u, destroy |-> TRUE]>> ELSE <<>>
WorkNumbered == IsWork(cur) => cur.u # 0

LEMMA FifoState ==
  WorkTypes =>
    /\ Waiting \in Seq(Fifo!Items) /\ Len(Waiting) = Len(workList)
    /\ Waiting = [k \in 1 .. Len(workList) |-> AsWork(workList[k])]
<1> SUFFICES ASSUME WorkTypes
             PROVE  /\ Waiting \in Seq(Fifo!Items) /\ Len(Waiting) = Len(workList)
                    /\ Waiting = [k \in 1 .. Len(workList) |-> AsWork(workList[k])]
  OBVIOUS
<1>1. DOMAIN workList = 1 .. Len(workList) /\ Len(workList) \in Nat
  BY DEF WorkTypes
<1>2. Waiting = [k \in 1 .. Len(workList) |-> AsWork(workList[k])]
  BY <1>1 DEF Waiting, AsWork
<1>3. \A k \in 1 .. Len(workList) : AsWork(workList[k]) \in Fifo!Items
  <2> SUFFICES ASSUME NEW k \in 1 .. Len(workList) PROVE AsWork(workList[k]) \in Fifo!Items
    OBVIOUS
  <2>1. workList[k] \in WorkItem
    BY <1>1 DEF WorkTypes
  <2> QED BY <2>1 DEF AsWork, Fifo!Items, WorkItem
<1> HIDE DEF AsWork
<1> QED BY <1>1, <1>2, <1>3

\* Nothing runs between callbacks, and what is released has run.
LEMMA FifoIdle ==
  LoopInv /\ WorkNumbered =>
    /\ ~InCallback \/ ~IsWork(cur) => InExecution = Fifo!Idle /\ Owed = <<>>
    /\ pc = "handle" => Owed = <<>>
    /\ pc = "destroy" => InExecution = Fifo!Idle
    /\ IsWork(cur) /\ pc = "handle" => InExecution = AsWork(cur) /\ InExecution # Fifo!Idle
BY DEF LoopInv, InCallback, InExecution, Owed, WorkNumbered, Fifo!Idle, AsWork

LEMMA NextNumbered ==
  ASSUME LoopInv, WorkNumbered, [Next]_vars
  PROVE  WorkNumbered'
<1>1. ASSUME Begin PROVE WorkNumbered'
  <2>1. cur' = Head(workList) /\ Head(workList) \in WorkItem
    BY <1>1, Types, Shifted DEF Begin, LoopInv
  <2> QED BY <2>1, WorkItemFields DEF WorkNumbered
<1>2. CASE FireTimer
  BY <1>2 DEF FireTimer, WorkNumbered, IsWork, Item
<1>3. CASE TakeWakeup \/ NextWork
  BY <1>1, <1>3 DEF TakeWakeup, NextWork, WorkNumbered, IsWork
<1>4. CASE HandlerReturns \/ DestroyReturns
  <2>1. cur' = cur \/ cur' = Nothing
    BY <1>4, Zenon DEF HandlerReturns, DestroyReturns, Return
  <2> QED BY <2>1 DEF WorkNumbered, IsWork, Nothing
<1>5. CASE CallSource
  BY <1>5 DEF CallSource, WorkNumbered, IsWork, Item
<1>6. CASE UNCHANGED cur
  BY <1>6 DEF WorkNumbered, IsWork
<1>7. CASE Outside
  BY <1>6, <1>7, OutsideKeeps DEF loopVars, runVars
<1>8. CASE Check \/ FillFDSet \/ SelectReady \/ SelectTimeout \/ ReadEvents \/ NoTimerDue \/ WorkDone
           \/ NoMessage
  BY <1>6, <1>8 DEF Check, FillFDSet, SelectReady, SelectTimeout, ReadEvents, NoTimerDue, WorkDone,
     NoMessage, runVars
<1>9. CASE Finalizing \/ SelectError
  BY <1>6, <1>9 DEF Finalizing, Finalize, FinalizeTimer, FinalizeWork, Finalized, SelectError, loopVars, runVars
<1> QED BY <1>2, <1>3, <1>4, <1>5, <1>7, <1>8, <1>9, NextSteps DEF LoopStep, Outside

\* The steps of the executor, in the loop's terms.
LEMMA ExecutorSteps ==
  /\ (\E w \in Fifo!Items : Waiting' = Append(Waiting, w)) /\ UNCHANGED <<InExecution, Owed>>
       => Fifo!Next
  /\ InExecution = Fifo!Idle /\ Waiting # <<>> /\ InExecution' = Head(Waiting) /\ Waiting' = Tail(Waiting)
       /\ UNCHANGED Owed
       => Fifo!Next
  /\ InExecution # Fifo!Idle /\ InExecution' = Fifo!Idle /\ UNCHANGED Waiting
       /\ Owed' = (IF InExecution.destroy THEN Append(Owed, InExecution) ELSE Owed)
       => Fifo!Next
  /\ InExecution = Fifo!Idle /\ Owed # <<>> /\ Owed' = Tail(Owed) /\ UNCHANGED <<Waiting, InExecution>>
       => Fifo!Next
  /\ UNCHANGED <<Waiting, InExecution, Owed>> => UNCHANGED Fifo!vars
BY DEF Fifo!Next, Fifo!Submit, Fifo!Start, Fifo!Finish, Fifo!Release, Fifo!vars, InExecution, Owed,
   AsWork, Fifo!Idle

LEMMA WorkSubmitted ==
  ASSUME LoopInv, [Next]_vars, Enqueues
  PROVE  [Fifo!Next]_(Fifo!vars)
<1>1. PICK a \in Actors, kind \in WorkKinds, d \in BOOLEAN : Enqueue(a, kind, d)
  BY DEF Enqueues
<1> DEFINE w == Item(kind, Len(book) + 1, d)
<1>2. UNCHANGED <<pc, cur>> /\ WorkTypes /\ w \in WorkItem
  BY <1>1, Types, PushedItem DEF Enqueue, loopVars, runVars, LoopInv
<1>3. UNCHANGED <<InExecution, Owed>>
  BY <1>2 DEF InExecution, Owed, IsWork, AsWork
<1>4. CASE Push(w)
  <2> HIDE DEF w
  <2>1. /\ WorkTypes' /\ Len(workList') = Len(workList) + 1 /\ workList'[Len(workList) + 1] = w
        /\ \A k \in 1 .. Len(workList) : workList'[k] = workList[k]
    BY <1>2, <1>4, Pushed
  <2>2. Len(workList) \in Nat /\ AsWork(w) \in Fifo!Items
    BY <1>2 DEF WorkTypes, WorkItem, AsWork, Fifo!Items
  <2>3. /\ Waiting \in Seq(Fifo!Items) /\ Len(Waiting) = Len(workList)
        /\ Waiting = [k \in 1 .. Len(workList) |-> AsWork(workList[k])]
    BY <1>2, FifoState
  <2>4. Waiting' = [k \in 1 .. Len(workList) + 1 |-> AsWork(workList'[k])]
    <3>1. Waiting' = [k \in 1 .. Len(workList') |-> AsWork(workList'[k])]
      <4>1. (WorkTypes => Waiting = [k \in 1 .. Len(workList) |-> AsWork(workList[k])])'
        BY FifoState, PTL
      <4> QED BY <2>1, <4>1 DEF AsWork
    <3> QED BY <2>1, <3>1
  <2>5. Append(Waiting, AsWork(w)) = [k \in 1 .. Len(workList) + 1 |-> AsWork(workList'[k])]
    <3> HIDE DEF AsWork
    <3> DEFINE N == Len(workList)
    <3>1. Append(Waiting, AsWork(w)) = [k \in 1 .. N + 1 |-> IF k = N + 1 THEN AsWork(w) ELSE Waiting[k]]
      BY <2>2, <2>3
    <3>2. \A k \in 1 .. N + 1 : k # N + 1 => k \in 1 .. N /\ Waiting[k] = AsWork(workList'[k])
      BY <2>1, <2>2, <2>3
    <3> QED BY <2>1, <3>1, <3>2
  <2>6. Waiting' = Append(Waiting, AsWork(w))
    BY <2>4, <2>5
  <2> QED BY <1>3, <2>2, <2>6, ExecutorSteps
<1>5. CASE UNCHANGED dispatchVars
  <2>1. UNCHANGED Waiting
    BY <1>5 DEF dispatchVars, Waiting
  <2> QED BY <1>3, <2>1, ExecutorSteps
<1> QED BY <1>1, <1>4, <1>5 DEF Enqueue

LEMMA WorkStarted ==
  ASSUME LoopInv, WorkNumbered, Begin, ~InCallback
  PROVE  [Fifo!Next]_(Fifo!vars)
<1>1. /\ Shift /\ WorkTypes /\ cur' = Head(workList) /\ pc' = "handle"
  BY Types DEF Begin, LoopInv
<1>2. /\ WorkTypes' /\ workList # <<>> /\ Head(workList) \in WorkItem
      /\ Len(workList) > 0 /\ Len(workList') = Len(workList) - 1
      /\ Head(workList) = workList[1]
      /\ \A k \in 1 .. Len(workList) - 1 : workList'[k] = workList[k + 1]
  BY <1>1, Shifted
<1>3. Len(workList) \in Nat
  BY <1>1 DEF WorkTypes
<1>4. /\ Waiting \in Seq(Fifo!Items) /\ Len(Waiting) = Len(workList)
      /\ Waiting = [k \in 1 .. Len(workList) |-> AsWork(workList[k])]
  BY <1>1, FifoState
<1>5. InExecution = Fifo!Idle /\ Owed = <<>>
  BY FifoIdle
<1>6. IsWork(cur') /\ InExecution' = AsWork(Head(workList)) /\ Owed' = <<>>
  <2>1. IsWork(Head(workList))
    BY <1>2, WorkItemFields
  <2> QED BY <1>1, <2>1 DEF InExecution, Owed, IsWork, AsWork
<1>7. Waiting # <<>> /\ Head(Waiting) = AsWork(Head(workList))
  BY <1>2, <1>3, <1>4
<1>8. Waiting' = [k \in 1 .. Len(workList) - 1 |-> AsWork(workList'[k])]
  <2>1. (WorkTypes => Waiting = [k \in 1 .. Len(workList) |-> AsWork(workList[k])])'
    BY FifoState, PTL
  <2> QED BY <1>2, <2>1 DEF AsWork
<1>9. Tail(Waiting) = [k \in 1 .. Len(workList) - 1 |-> AsWork(workList'[k])]
  <2> HIDE DEF AsWork
  <2>1. Tail(Waiting) = [k \in 1 .. Len(workList) - 1 |-> Waiting[k + 1]]
    BY <1>2, <1>3, <1>4
  <2>2. \A k \in 1 .. Len(workList) - 1 : Waiting[k + 1] = AsWork(workList'[k])
    BY <1>2, <1>3, <1>4
  <2> QED BY <2>1, <2>2
<1> QED BY <1>5, <1>6, <1>7, <1>8, <1>9, ExecutorSteps

LEMMA WorkFinished ==
  ASSUME LoopInv, WorkNumbered, HandlerReturns \/ DestroyReturns
  PROVE  [Fifo!Next]_(Fifo!vars)
<1>1. InCallback /\ UNCHANGED Waiting /\ cur \in Callback /\ WhereInv
  BY Types DEF HandlerReturns, DestroyReturns, InCallback, dispatchVars, Waiting, LoopInv, WhereTypes
<1>2. /\ ~IsWork(cur) => InExecution = Fifo!Idle /\ Owed = <<>>
      /\ pc = "handle" => Owed = <<>>
      /\ pc = "destroy" => InExecution = Fifo!Idle
      /\ IsWork(cur) /\ pc = "handle" => InExecution = AsWork(cur) /\ InExecution # Fifo!Idle
  BY FifoIdle
<1>3. CASE Return /\ (pc = "destroy" \/ ~cur.destroy)
  <2>1. ~IsWork(cur')
    BY <1>3 DEF Return, Nothing, IsWork
  <2>2. InExecution' = Fifo!Idle /\ Owed' = <<>>
    BY <2>1 DEF InExecution, Owed, IsWork
  <2>3. CASE ~IsWork(cur)
    BY <1>1, <1>2, <2>2, <2>3, ExecutorSteps
  <2>4. CASE IsWork(cur) /\ pc = "handle"
    <3>1. ~InExecution.destroy
      BY <1>2, <1>3, <2>4 DEF AsWork
    <3> QED BY <1>1, <1>2, <2>2, <2>4, <3>1, ExecutorSteps
  <2>5. CASE IsWork(cur) /\ pc = "destroy"
    <3>1. Owed = <<[u |-> cur.u, destroy |-> TRUE]>>
      BY <2>5 DEF Owed
    <3>2. Owed # <<>> /\ Tail(Owed) = <<>>
      BY <3>1
    <3> QED BY <1>1, <1>2, <2>2, <2>5, <3>2, ExecutorSteps
  <2> QED BY <1>1, <2>3, <2>4, <2>5 DEF InCallback
<1>4. CASE pc = "handle" /\ cur.destroy /\ pc' = "destroy" /\ UNCHANGED cur
  <2>1. InExecution' = Fifo!Idle
    BY <1>4 DEF InExecution
  <2>2. CASE ~IsWork(cur)
    <3>1. Owed' = <<>>
      BY <1>4, <2>2 DEF Owed, IsWork
    <3> QED BY <1>1, <1>2, <2>1, <2>2, <3>1, ExecutorSteps
  <2>3. CASE IsWork(cur)
    <3>1. Owed' = <<[u |-> cur.u, destroy |-> TRUE]>>
      BY <1>4, <2>3 DEF Owed, IsWork
    <3>2. InExecution = [u |-> cur.u, destroy |-> TRUE] /\ InExecution.destroy
      <4>1. cur.destroy = TRUE
        BY <1>1, <1>4 DEF Callback
      <4> QED BY <1>2, <1>4, <2>3, <4>1 DEF AsWork
    <3>3. Append(Owed, InExecution) = <<InExecution>>
      BY <1>2, <1>4
    <3> QED BY <1>1, <1>2, <1>4, <2>1, <2>3, <3>1, <3>2, <3>3, ExecutorSteps
  <2> QED BY <2>2, <2>3
<1> QED BY <1>3, <1>4 DEF HandlerReturns, DestroyReturns

\* Without NQLooper_finalize every step is one of the executor's.
NotFinalized == pc \notin {"final", "gone", "crashed"}
LEMMA NextNotFinalized ==
  ASSUME ~Finalizes, LoopInv, NotFinalized, [Next]_vars
  PROVE  NotFinalized'
<1>1. CASE HandlerReturns \/ DestroyReturns
  <2>1. pc' = "destroy" \/ pc' = After(cur)
    BY <1>1 DEF HandlerReturns, DestroyReturns, Return
  <2>2. cur \in Callback /\ cur.kind # "none"
    BY <1>1, Types DEF LoopInv, WhereInv, WhereTypes, HandlerReturns, DestroyReturns, InCallback
  <2>3. After(cur) \in {"timers", "work", "message"}
    <3>1. cur.kind \in {"timer", "source", "call", "callAndWait", "stop"}
      BY <2>2 DEF Callback
    <3> QED BY <3>1 DEF After, IsWork
  <2> QED BY <2>1, <2>3 DEF NotFinalized
<1>2. CASE LoopStep /\ ~(HandlerReturns \/ DestroyReturns)
  BY <1>2 DEF LoopStep, Check, FillFDSet, SelectReady, SelectTimeout, ReadEvents, NoTimerDue,
     FireTimer, TakeWakeup, NextWork, Begin, WorkDone, CallSource, NoMessage, AllHandled, NotFinalized
<1>3. CASE Finalizing \/ SelectError
  BY <1>3 DEF Finalizing, Finalize, FinalizeTimer, FinalizeWork, Finalized, NothingToRelease,
     SelectError, NotFinalized
<1>4. CASE Outside
  BY <1>4, OutsideKeeps DEF loopVars, NotFinalized
<1> QED BY <1>1, <1>2, <1>3, <1>4, NextSteps DEF Outside

LEMMA NextExecutes ==
  ASSUME ~Finalizes, LoopInv, WorkNumbered, NotFinalized, [Next]_vars
  PROVE  [Fifo!Next]_(Fifo!vars)
<1>1. ASSUME UNCHANGED workList, UNCHANGED <<pc, cur>> PROVE [Fifo!Next]_(Fifo!vars)
  BY <1>1, ExecutorSteps DEF Waiting, InExecution, Owed, IsWork, AsWork
<1>2. ASSUME UNCHANGED workList, ~InCallback, ~InCallback' \/ ~IsWork(cur')
      PROVE  [Fifo!Next]_(Fifo!vars)
  <2>1. InExecution = Fifo!Idle /\ Owed = <<>>
    BY <1>2, FifoIdle
  <2>2. InExecution' = Fifo!Idle /\ Owed' = <<>>
    BY <1>2 DEF InExecution, Owed, InCallback, IsWork
  <2> QED BY <1>2, <2>1, <2>2, ExecutorSteps DEF Waiting
<1>3. CASE Enqueues
  BY <1>3, WorkSubmitted
<1>4. CASE Outside /\ ~Enqueues
  <2>1. UNCHANGED workList /\ UNCHANGED <<pc, cur>>
    <3>1. UNCHANGED dispatchVars
      <4>1. CASE Tick \/ Signal \/ Inputs \/ UNCHANGED vars
        BY <4>1 DEF Tick, Signal, Inputs, Input, vars
      <4>2. CASE StartsTimer \/ StopsTimer \/ Inline \/ Attaches \/ Detaches \/ Continues
        BY <4>2 DEF StartsTimer, CallTimer, StopsTimer, ClearTimer, Inline, CallAndWaitInline, Attaches,
           Attach, Detaches, Detach, Continues, Continue, Wake, WaitReturns, DestroyStopped
      <4> QED BY <1>4, <4>1, <4>2 DEF Outside
    <3> QED BY <1>4, <3>1, OutsideKeeps DEF dispatchVars, loopVars, runVars
  <2> QED BY <1>1, <2>1
<1>5. CASE HandlerReturns \/ DestroyReturns
  BY <1>5, WorkFinished
<1>6. CASE TakeWakeup \/ NextWork
  <2>1. ~InCallback
    BY <1>6 DEF TakeWakeup, NextWork, InCallback
  <2>2. CASE Begin
    BY <2>1, <2>2, WorkStarted
  <2>3. CASE UNCHANGED <<dispatchVars, cur, pc>>
    BY <1>1, <2>3 DEF dispatchVars
  <2> QED BY <1>6, <2>2, <2>3 DEF TakeWakeup, NextWork
<1>7. CASE Check \/ FillFDSet \/ SelectReady \/ SelectTimeout \/ ReadEvents \/ NoTimerDue \/ WorkDone
           \/ NoMessage \/ SelectError
  BY <1>2, <1>7 DEF Check, FillFDSet, SelectReady, SelectTimeout, ReadEvents, NoTimerDue, WorkDone,
     NoMessage, AllHandled, SelectError, InCallback, dispatchVars
<1>8. CASE FireTimer \/ CallSource
  BY <1>2, <1>8 DEF FireTimer, CallSource, InCallback, IsWork, Item, dispatchVars
<1>9. CASE Finalizing
  BY <1>9 DEF Finalizing, Finalize, FinalizeTimer, FinalizeWork, Finalized, NothingToRelease, NotFinalized
<1> QED BY <1>3, <1>4, <1>5, <1>6, <1>7, <1>8, <1>9, NextSteps DEF LoopStep, Outside

(* Work runs in the order it was pushed, one piece at a time, once each, and  *)
(* is released right after it ran, however calls, timers and events mix: the  *)
(* loop implements FifoExecutor, as long as NQLooper_finalize takes no work   *)
(* away.                                                                      *)
THEOREM WorkRunsInOrder ==
  ASSUME ~Finalizes
  PROVE  Spec => WorkIsFifo
<1>1. Init => Fifo!Init
  <2> SUFFICES ASSUME Init PROVE Fifo!Init
    OBVIOUS
  <2>1. workList = <<>> /\ pc = "check"
    BY DEF Init, DispatchInit
  <2>2. Waiting = <<>>
    BY <2>1 DEF Waiting
  <2> QED BY <2>1, <2>2 DEF Fifo!Init, Fifo!Idle
<1>2. Init => WorkNumbered /\ NotFinalized
  BY DEF Init, WorkNumbered, NotFinalized, IsWork, Nothing
<1>3. LoopInv /\ WorkNumbered /\ NotFinalized /\ [Next]_vars => (WorkNumbered /\ NotFinalized)'
  BY NextNumbered, NextNotFinalized
<1>4. LoopInv /\ WorkNumbered /\ NotFinalized /\ [Next]_vars => [Fifo!Next]_(Fifo!vars)
  BY NextExecutes
<1> QED BY <1>1, <1>2, <1>3, <1>4, Reachable, PTL DEF Spec, WorkIsFifo, Fifo!Spec

=============================================================================
