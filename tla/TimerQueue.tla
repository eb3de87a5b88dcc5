----------------------------- MODULE TimerQueue -----------------------------
(***************************************************************************)
(* libnetq/TimerQueue.c: the timers of a Looper.  A fixed table of entries *)
(* that are in the list of active timers, kept in the order they are due,  *)
(* or in the list of free ones.  An entry's identifier is its position     *)
(* plus one, and allocCount more each time it is freed, in 32 bits: it is  *)
(* written here as the pair of the generation and the position.            *)
(***************************************************************************)
EXTENDS Integers, Sequences, SequencesExt

CONSTANTS
  Alloc,        \* allocCount, a power of two in the code
  Generations,  \* 2^32 / allocCount: how often an identifier changes
  Data          \* what callers pass to be handed back: NQTimerData

ASSUME TableAssumption == /\ Alloc \in Nat \ {0}
                          /\ Generations \in Nat \ {0}
                          /\ Data # {}

VARIABLES
  entry,       \* allocTimer
  activeList,
  freeList

timerVars == <<entry, activeList, freeList>>

-----------------------------------------------------------------------------
Positions == 0 .. Alloc - 1
Identifiers == (0 .. Generations - 1) \X Positions
Entries == [gen : 0 .. Generations - 1, active : BOOLEAN, isInterval : BOOLEAN,
            timeout : Nat, timePoint : Int, data : Data]

\* The identifier whose 32 bits are all 0.
Invalid == <<Generations - 1, Alloc - 1>>

IdOf(i) == <<entry[i].gen, i>>

\* Wrong variants of the operators below, slips the code could have made, to
\* show which property notices.
InFront(order, es, at) == 1
StaysLinked(s, i) == s
SleepsForever(now) == -1
DueAtOnce(e, now) == [e EXCEPT !.timePoint = now]

\* NQTimerList_insert: in front of the first timer that is due strictly later.
\* The scan also looks at the list's head as if it were an entry; whatever it
\* reads there, the place is the end of the list.
InsertPosition(order, es, at) ==
  CHOOSE p \in 1 .. Len(order) + 1 :
    /\ \A k \in 1 .. p - 1 : es[order[k]].timePoint <= at
    /\ p <= Len(order) => at < es[order[p]].timePoint

\* What every removal does to the entry before it joins the free list.
Released(e) ==
  [e EXCEPT !.gen = (@ + 1) % Generations, !.active = FALSE]

Unlinked(s, i) == RemoveAt(s, CHOOSE k \in DOMAIN s : s[k] = i)

TimerInit ==
  /\ entry = [i \in Positions |-> [gen |-> 0, active |-> FALSE, isInterval |-> FALSE,
                timeout |-> 0, timePoint |-> 0, data |-> CHOOSE d \in Data : TRUE]]
  /\ activeList = <<>>
  /\ freeList = [k \in 1 .. Alloc |-> k - 1]

\* NQTimerQueue_timeout, for delays under 2^31 milliseconds.
Timeout(now) ==
  IF activeList = <<>> THEN -1
  ELSE IF now < entry[Head(activeList)].timePoint
       THEN entry[Head(activeList)].timePoint - now ELSE 0

\* NQTimerQueue_startTimer refuses; it returns NQ_TIMER_INVALID.
StartRefused(timeout) == timeout <= 0 \/ freeList = <<>>

(* NQTimerQueue_startTimer; the identifier it returns is IdOf(Head(freeList)). *)
StartTimer(isInterval, now, timeout, data) ==
  /\ ~StartRefused(timeout)
  /\ LET i == Head(freeList) IN
     /\ entry' = [entry EXCEPT ![i] =
          [gen |-> @.gen, active |-> TRUE, isInterval |-> isInterval,
           timeout |-> timeout, timePoint |-> timeout + now, data |-> data]]
     /\ freeList' = Tail(freeList)
     /\ activeList' = InsertAt(activeList,
                        InsertPosition(activeList, entry, timeout + now), i)

\* The first timer is due: NQTimerQueue_shiftTimer returns 0.
Due(now) == activeList # <<>> /\ entry[Head(activeList)].timePoint <= now

KeepsRunning(e) == e.isInterval
Rearmed(e, now) == [e EXCEPT !.timePoint = @ + e.timeout]

(* NQTimerQueue_shiftTimer: an interval is inserted again, one period after    *)
(* it was due; any other timer is released.                                    *)
ShiftTimer(now) ==
  /\ Due(now)
  /\ LET i == Head(activeList)
         rest == Tail(activeList)
     IN IF KeepsRunning(entry[i])
        THEN /\ entry' = [entry EXCEPT ![i] = Rearmed(@, now)]
             /\ activeList' = InsertAt(rest,
                  InsertPosition(rest, entry, Rearmed(entry[i], now).timePoint), i)
             /\ UNCHANGED freeList
        ELSE /\ entry' = [entry EXCEPT ![i] = Released(@)]
             /\ activeList' = rest
             /\ freeList' = Append(freeList, i)

(* NQTimerQueue_shiftTimer with now = -1, which NQLooper_finalize passes.      *)
DrainTimer ==
  /\ activeList # <<>>
  /\ entry' = [entry EXCEPT ![Head(activeList)] = Released(@)]
  /\ freeList' = Append(freeList, Head(activeList))
  /\ activeList' = Tail(activeList)

\* NQTimerQueue_findEntryById finds an entry, and it is active.
Runs(id) ==
  /\ id # Invalid
  /\ entry[id[2]].gen = id[1] /\ entry[id[2]].active

(* NQTimerQueue_stopTimer; it returns false, and does nothing, unless the      *)
(* identifier is that of a running timer.                                      *)
StopTimer(id) ==
  /\ Runs(id)
  /\ entry' = [entry EXCEPT ![id[2]] = Released(@)]
  /\ activeList' = Unlinked(activeList, id[2])
  /\ freeList' = Append(freeList, id[2])

-----------------------------------------------------------------------------
(* The queue by itself, used in any order.  Callers pass times that need not   *)
(* grow: a loop shifts with the time of its last poll, others start timers     *)
(* with the time they read before they took the mutex.                         *)
CONSTANTS Times, Delays

ASSUME TimesAssumption == Times \subseteq Int /\ Delays \subseteq Int

TimerNext ==
  \/ \E isInterval \in BOOLEAN, now \in Times, timeout \in Delays, data \in Data :
       StartTimer(isInterval, now, timeout, data)
  \/ \E now \in Times : ShiftTimer(now)
  \/ DrainTimer
  \/ \E id \in Identifiers : StopTimer(id)

TimerSpec == TimerInit /\ [][TimerNext]_timerVars

-----------------------------------------------------------------------------
(* Types. *)
TimerTypeOK ==
  /\ entry \in [Positions -> Entries]
  /\ activeList \in Seq(Positions)
  /\ freeList \in Seq(Positions)

(* Every entry is in exactly one of the two lists, once, the one its flag says: *)
(* shiftTimer, stopTimer and startTimer hand entries around without losing one. *)
EachInOneList ==
  /\ IsInjective(activeList) /\ IsInjective(freeList)
  /\ \A i \in Positions : /\ i \in ToSet(activeList) <=> entry[i].active
                          /\ i \in ToSet(freeList) <=> ~entry[i].active

(* The active list is in the order timers are due, so that timeout and          *)
(* shiftTimer need only look at its first member.                               *)
InOrder(order, es) ==
  \A j, k \in DOMAIN order : j <= k => es[order[j]].timePoint <= es[order[k]].timePoint
Ordered == InOrder(activeList, entry)

\* An interval's period is positive: it cannot be due again at once forever.
PeriodsPositive == \A i \in Positions : entry[i].active => entry[i].timeout > 0

TimerInv == TimerTypeOK /\ EachInOneList /\ Ordered /\ PeriodsPositive

(* The queue implements the abstract set of timers. *)
Active == {IdOf(i) : i \in ToSet(activeList)}
AsRunning(e) == [due |-> e.timePoint,
                 every |-> IF e.isInterval THEN e.timeout ELSE 0, data |-> e.data]
Abstract == INSTANCE TimerSet
  WITH Id <- Identifiers, Times <- Times,
       Starts <- [due : {now + d : now \in Times, d \in Delays},
                  every : Delays \cup {0}, data : Data],
       timers <- [id \in Active |-> AsRunning(entry[id[2]])]

(* Every operation of the queue is one of TimerSet's, and a shift is an expiry: *)
(* identifiers of running timers are distinct, timers expire when due and in    *)
(* the order they are due, and stopping one timer leaves the others alone.      *)
ShiftsAreExpiries ==
  [][\A now \in Times :
       ShiftTimer(now) => \E id \in Active : Abstract!Expire(id, now)]_timerVars
ImplementsTimerSet == Abstract!Spec /\ ShiftsAreExpiries

=============================================================================
