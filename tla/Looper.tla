------------------------------- MODULE Looper -------------------------------
(***************************************************************************)
(* libnetq/Looper.c with LooperSelect.c: the main loop of a program.  The  *)
(* thread that made it runs poolAll: it computes how long it may sleep,    *)
(* selects on the wakeup event and the attached sources, fires timers,     *)
(* runs the work other threads pushed and hands events to the sources.     *)
(* Callers push work, start and stop timers, and attach and detach         *)
(* sources, in one critical section each; they wake the loop afterwards,   *)
(* in a step of its own.                                                   *)
(*                                                                         *)
(* Handlers run with no mutex held and may call everything too.  Builds    *)
(* without assertions are modelled, and one select() at a time: a handler  *)
(* does not call NQLooper_dispatch.                                        *)
(***************************************************************************)
EXTENDS TimerQueue, DispatchQueue, FiniteSets, FiniteSetsExt

CONSTANTS
  Threads,      \* the threads beside the loop's
  Sources,      \* event sources, each with a descriptor of its own
  SourceMax,    \* FD_SETSIZE
  WakeMax,      \* how many wakeups the event's counter holds
  LoopCalls, ThreadCalls,  \* what handlers, and what other threads, call
  IntervalsToo, \* whether callers start intervals
  Destroys,     \* whether callers pass a destroy handler: subset of BOOLEAN
  SelectFails, Signals, Finalizes,  \* whether these may happen
  MaxTime,      \* bound on the clock, for those who start something
  MaxReg        \* bound on registrations: work and timers

Calls == {"call", "callAndWait", "stop", "startTimer", "stopTimer",
          "attach", "detach"}

ASSUME LooperAssumption ==
  /\ "loop" \notin Threads
  /\ SourceMax \in Nat \ {0} /\ WakeMax \in Nat \ {0}
  /\ LoopCalls \subseteq Calls /\ ThreadCalls \subseteq Calls
  /\ IntervalsToo \subseteq BOOLEAN /\ Destroys \subseteq BOOLEAN
  /\ SelectFails \in BOOLEAN /\ Signals \in BOOLEAN /\ Finalizes \in BOOLEAN
  /\ MaxTime \in Nat /\ MaxReg \in Nat
  /\ Data = [u : 1 .. MaxReg, destroy : BOOLEAN]  \* what timers are given

VARIABLES
  pc, cur, batch,       \* the loop: where it is, the callback it runs, the
                        \*   work left in this call of performWork
  stopLoop, s_stopLoop,
  clock, poolTime,
  wakes, hasWakeup,     \* the counter of the wakeup event; it was read
  sources,              \* sources[0 .. sourcesCount - 1]
  performSources,       \* those still to be called in this round
  fdSet, deadline,      \* the arguments, then the result, of select()
  readable,             \* sources with input: the environment's
  wanted,               \* history: attached and not detached
  op,                   \* what each thread does after its critical section
  book                  \* history: one record per registration

runVars == <<cur, batch, stopLoop>>
selectVars == <<hasWakeup, performSources, fdSet, deadline, poolTime>>
loopVars == <<pc, runVars, selectVars>>
callVars == <<wakes, sources, wanted, op>>
worldVars == <<s_stopLoop, clock, readable>>
vars == <<timerVars, dispatchVars, loopVars, callVars, worldVars, book>>

-----------------------------------------------------------------------------
Loop == "loop"
Actors == Threads \cup {Loop}
WakeupFd == "wakeup"

Idle == [k |-> "idle", u |-> 0]
\* Work, timers and sources as callbacks of the loop.
Nothing == [kind |-> "none", u |-> 0, destroy |-> FALSE]
Item(kind, u, d) == [kind |-> kind, u |-> u, destroy |-> d]
IsWork(c) == c.kind \in {"call", "callAndWait", "stop"}

\* Wrong variants of definitions below, slips the code could have made, to show
\* which property notices.
ForgetsToWake(kind, u) == IF kind = "callAndWait" THEN [k |-> "wait", u |-> u] ELSE Idle
TellsTooSoon(b, over) ==
  IF cur.kind = "callAndWait" THEN [b EXCEPT ![cur.u].finished = TRUE] ELSE b
TellsNobody(b, over) == b
OnlyIfEmpty(before, after) == before = -1
LastGoes(list, k) == Front(list)
OneAtATime == 0
FirstSelected == SelectSeq(sources, LAMBDA s : s \in fdSet /\ s = Head(sources))
LeavesWork == pc = "final" /\ activeList = <<>>

\* A thread that has changed what select() should watch wakes the loop next.
ToWake == [k |-> "wake", u |-> 0]

\* When a round of performWork starts, so many are left after the first.
BatchSize == size - 1

\* Detaching: the last source takes the place of the one that goes.
SwapWithLast(list, k) ==
  IF k = Len(list) THEN Front(list) ELSE Front([list EXCEPT ![k] = Last(list)])

\* startTimer wakes the loop if the time it may sleep has changed.
SleepChanged(before, after) == before # after

\* What shiftTimer hands out: an interval keeps its userdata.
ReleasedAfter(e) == ~e.isInterval /\ e.data.destroy

\* callAndWaitHandleCallback sets isFinished when it has called both handlers.
TellWaiter(b, over) ==
  IF over /\ cur.kind = "callAndWait" THEN [b EXCEPT ![cur.u].finished = TRUE] ELSE b

\* Getting back the sources whose descriptor is in the set.
Selected ==
  LET upTo[k \in 0 .. Len(sources)] ==
        IF k = 0 THEN <<>>
        ELSE IF sources[k] \in fdSet THEN Append(upTo[k - 1], sources[k]) ELSE upTo[k - 1]
  IN upTo[Len(sources)]

\* Whoever pushed wakes the loop next, and callAndWait then waits.
AfterPush(kind, u) == [k |-> "wake", u |-> IF kind = "callAndWait" THEN u ELSE 0]
AfterWake(u) == IF u = 0 THEN Idle ELSE [k |-> "wait", u |-> u]

New(kind, d) == [kind |-> kind, id |-> Invalid, due |-> 0, every |-> 0,
                 destroy |-> d, ran |-> 0, freed |-> 0, finished |-> FALSE,
                 stopped |-> "no"]
Bump(n) == IF n < 3 THEN n + 1 ELSE 3
Ran(u) == [book EXCEPT ![u].ran = Bump(@)]
Freed(u) == [book EXCEPT ![u].freed = Bump(@)]

Init ==
  /\ TimerInit /\ DispatchInit
  /\ pc = "check" /\ cur = Nothing /\ batch = 0
  /\ stopLoop = FALSE /\ s_stopLoop = FALSE
  /\ clock = 0 /\ poolTime = 0
  /\ wakes = 0 /\ hasWakeup = FALSE
  /\ sources = <<>> /\ performSources = <<>>
  /\ fdSet = {} /\ deadline = -1
  /\ readable = {} /\ wanted = {}
  /\ op = [a \in Actors |-> Idle]
  /\ book = <<>>

-----------------------------------------------------------------------------
(* Calls.  A thread makes one at a time; the loop's thread, from user code.    *)
UserCode == pc \in {"handle", "destroy"} /\ cur.kind # "stop"
CanCall(a, call) ==
  /\ op[a] = Idle
  /\ IF a = Loop THEN UserCode /\ call \in LoopCalls
                 ELSE pc \notin {"final", "gone", "crashed"} /\ call \in ThreadCalls
CanRegister == Len(book) < MaxReg /\ clock <= MaxTime

(* The critical section of NQLooper_call and callAndWait.  If the queue takes  *)
(* no more the destroy handler is called and the caller goes on.               *)
Enqueue(a, kind, d) ==
  LET u == Len(book) + 1 IN
  /\ CanRegister
  /\ \/ /\ Push(Item(kind, u, d))
        /\ op' = [op EXCEPT ![a] = AfterPush(kind, u)]
        /\ book' = Append(book, New(kind, d))
     \/ /\ PushRefused
        /\ book' = Append(book, [New(kind, d) EXCEPT !.stopped = "refused",
                                                     !.freed = IF d THEN 1 ELSE 0])
        /\ UNCHANGED <<dispatchVars, op>>
  /\ UNCHANGED <<timerVars, loopVars, worldVars, wakes, sources, wanted>>

Call(a, d) == CanCall(a, "call") /\ Enqueue(a, "call", d)

CallAndWait(t, d) ==
  /\ t # Loop /\ CanCall(t, "callAndWait")
  /\ Enqueue(t, "callAndWait", d)

\* On the loop's own thread the handlers are called at once.
CallAndWaitInline(d) ==
  /\ CanCall(Loop, "callAndWait") /\ CanRegister
  /\ book' = Append(book, [New("inline", d) EXCEPT !.ran = 1, !.finished = TRUE,
                                                   !.freed = IF d THEN 1 ELSE 0])
  /\ UNCHANGED <<timerVars, dispatchVars, loopVars, callVars, worldVars>>

Stop(a) == CanCall(a, "stop") /\ Enqueue(a, "stop", FALSE)

(* NQLooper_startTimer.  The time is read before the mutex is taken, so the     *)
(* clock may have moved on by then: by one at most here.                        *)
CallTimer(a, delay, isInterval, d) ==
  LET u == Len(book) + 1
      new == [New("timer", d) EXCEPT !.every = IF isInterval THEN delay ELSE 0]
  IN
  /\ CanCall(a, "startTimer") /\ CanRegister
  /\ \E now \in {clock - 1, clock} \cap Nat :
     \/ /\ StartTimer(isInterval, now, delay, [u |-> u, destroy |-> d])
        /\ op' = [op EXCEPT ![a] =
             IF SleepChanged(Timeout(now), Timeout(now)') THEN ToWake ELSE Idle]
        /\ book' = Append(book, [new EXCEPT !.id = IdOf(Head(freeList)),
                                            !.due = now + delay])
     \/ /\ StartRefused(delay)
        /\ book' = Append(book, [new EXCEPT !.stopped = "refused"])
        /\ UNCHANGED <<timerVars, op>>
  /\ UNCHANGED <<dispatchVars, loopVars, worldVars, wakes, sources, wanted>>

(* NQLooper_stopTimer, with an identifier the caller was once given.  The       *)
(* destroy handler is called after the mutex is released.                       *)
ClearTimer(a, u) ==
  /\ CanCall(a, "stopTimer")
  /\ u \in DOMAIN book /\ book[u].kind = "timer"
  /\ StopTimer(book[u].id)
  /\ LET data == entry[book[u].id[2]].data IN
     /\ op' = [op EXCEPT ![a] = IF data.destroy THEN [k |-> "destroy", u |-> data.u]
                                                ELSE Idle]
     /\ book' = [book EXCEPT ![u].stopped = IF a = Loop THEN "loop" ELSE "thread"]
  /\ UNCHANGED <<dispatchVars, loopVars, worldVars, wakes, sources, wanted>>

DestroyStopped(a) ==
  /\ op[a].k = "destroy"
  /\ op' = [op EXCEPT ![a] = Idle]
  /\ book' = Freed(op[a].u)
  /\ UNCHANGED <<timerVars, dispatchVars, loopVars, worldVars, wakes, sources,
                 wanted>>

\* A caller attaches a source it has not attached, and detaches one it has.
Attach(a, s) ==
  /\ CanCall(a, "attach")
  /\ s \notin wanted /\ Len(sources) < SourceMax
  /\ sources' = Append(sources, s) /\ wanted' = wanted \cup {s}
  /\ op' = [op EXCEPT ![a] = ToWake]
  /\ UNCHANGED <<timerVars, dispatchVars, loopVars, worldVars, wakes, book>>

Detach(a, s) ==
  /\ CanCall(a, "detach")
  /\ s \in wanted
  /\ \E k \in DOMAIN sources :
       sources[k] = s /\ sources' = SwapWithLast(sources, k)
  /\ wanted' = wanted \ {s}
  /\ op' = [op EXCEPT ![a] = ToWake]
  /\ UNCHANGED <<timerVars, dispatchVars, loopVars, worldVars, wakes, book>>

\* Looper_wake: one more on the counter, unless it is full: then the write
\* fails.  A caller of callAndWait waits next.
Wake(a) ==
  /\ op[a].k = "wake"
  /\ wakes' = Min({wakes + 1, WakeMax})
  /\ op' = [op EXCEPT ![a] = AfterWake(op[a].u)]
  /\ UNCHANGED <<timerVars, dispatchVars, loopVars, worldVars, sources, wanted,
                 book>>

WaitReturns(t) ==
  /\ op[t].k = "wait" /\ book[op[t].u].finished
  /\ op' = [op EXCEPT ![t] = Idle]
  /\ UNCHANGED <<timerVars, dispatchVars, loopVars, worldVars, wakes, sources,
                 wanted, book>>

-----------------------------------------------------------------------------
(* The loop, NQLooper_poolAll.                                                 *)
MustStop == stopLoop \/ s_stopLoop

Check ==
  /\ pc = "check"
  /\ \/ /\ MustStop
        /\ pc' = "left"
        /\ UNCHANGED deadline
     \/ /\ ~MustStop
        /\ deadline' = IF Timeout(clock) = -1 THEN -1 ELSE clock + Timeout(clock)
        /\ pc' = "fill"
  /\ UNCHANGED <<timerVars, dispatchVars, runVars, callVars, worldVars,
                 hasWakeup, performSources, fdSet, poolTime, book>>

\* Looper_fillFDSet, under the mutex of the sources.
FillFDSet ==
  /\ pc = "fill"
  /\ fdSet' = ToSet(sources) \cup {WakeupFd}
  /\ pc' = "select"
  /\ UNCHANGED <<timerVars, dispatchVars, runVars, callVars, worldVars,
                 hasWakeup, performSources, deadline, poolTime, book>>

Ready == {f \in fdSet : IF f = WakeupFd THEN wakes > 0 ELSE f \in readable}

\* select() returns with descriptors, with none, or with an error (a signal or
\* a closed descriptor), which ends the loop.
SelectReady ==
  /\ pc = "select" /\ Ready # {}
  /\ fdSet' = Ready
  /\ pc' = "events"
  /\ UNCHANGED <<timerVars, dispatchVars, runVars, callVars, worldVars,
                 hasWakeup, performSources, deadline, poolTime, book>>

SelectTimeout ==
  /\ pc = "select" /\ Ready = {}
  /\ deadline # -1 /\ deadline <= clock
  /\ fdSet' = {} /\ poolTime' = clock
  /\ pc' = "timers"
  /\ UNCHANGED <<timerVars, dispatchVars, runVars, callVars, worldVars,
                 hasWakeup, performSources, deadline, book>>

SelectError ==
  /\ pc = "select" /\ SelectFails
  /\ poolTime' = clock
  /\ pc' = "left"
  /\ UNCHANGED <<timerVars, dispatchVars, runVars, callVars, worldVars,
                 hasWakeup, performSources, fdSet, deadline, book>>

\* The rest of Looper_poll: read the wakeup event, which resets its counter, and
\* copy the sources that are ready.
ReadEvents ==
  /\ pc = "events"
  /\ IF WakeupFd \in fdSet THEN wakes' = 0 /\ hasWakeup' = TRUE
                           ELSE UNCHANGED <<wakes, hasWakeup>>
  /\ performSources' = Selected
  /\ fdSet' = {} /\ poolTime' = clock
  /\ pc' = "timers"
  /\ UNCHANGED <<timerVars, dispatchVars, runVars, worldVars, deadline, sources,
                 wanted, op, book>>

(* NQLooper_performTimer: one due timer per step, then on.  After a timeout     *)
(* there is no message, so poolAll's "continue" and an empty getMessage are     *)
(* the same step.                                                               *)
FireTimer ==
  /\ pc = "timers"
  /\ ShiftTimer(poolTime)
  /\ LET e == entry[Head(activeList)] IN
     /\ cur' = Item("timer", e.data.u, ReleasedAfter(e))
     /\ book' = Ran(e.data.u)
  /\ pc' = "handle"
  /\ UNCHANGED <<dispatchVars, selectVars, callVars, worldVars, batch,
                 stopLoop>>

NoTimerDue ==
  /\ pc = "timers" /\ ~Due(poolTime)
  /\ pc' = "message"
  /\ UNCHANGED <<timerVars, dispatchVars, runVars, selectVars, callVars,
                 worldVars, book>>

\* performWork: take the first piece of work off the queue and call its handler;
\* looperStop is the handler of a stop.
Begin ==
  /\ Shift
  /\ cur' = Head(workList)
  /\ book' = Ran(Head(workList).u)
  /\ stopLoop' = (stopLoop \/ Head(workList).kind = "stop")
  /\ pc' = "handle"

(* Looper_getMessage answers with the wakeup once; performWork then runs as     *)
(* many pieces of work as the queue holds now.                                  *)
TakeWakeup ==
  /\ pc = "message" /\ hasWakeup
  /\ hasWakeup' = FALSE
  /\ \/ /\ size = 0
        /\ UNCHANGED <<dispatchVars, cur, book, stopLoop, pc, batch>>
     \/ /\ size # 0
        /\ Begin
        /\ batch' = BatchSize
  /\ UNCHANGED <<timerVars, callVars, worldVars, performSources, fdSet,
                 deadline, poolTime>>

NextWork ==
  /\ pc = "work" /\ batch > 0
  /\ Begin
  /\ batch' = batch - 1
  /\ UNCHANGED <<timerVars, selectVars, callVars, worldVars>>

WorkDone ==
  /\ pc = "work" /\ (batch = 0 \/ workList = <<>>)
  /\ pc' = "message" /\ batch' = 0
  /\ UNCHANGED <<timerVars, dispatchVars, selectVars, callVars, worldVars, cur,
                 stopLoop, book>>

\* Looper_getMessage, the rest: each source's handler reads what there is.
CallSource ==
  /\ pc = "message" /\ ~hasWakeup /\ performSources # <<>>
  /\ cur' = Item("source", 0, FALSE)
  /\ readable' = readable \ {Head(performSources)}
  /\ performSources' = Tail(performSources)
  /\ pc' = "handle"
  /\ UNCHANGED <<timerVars, dispatchVars, callVars, batch, stopLoop, hasWakeup,
                 fdSet, deadline, poolTime, s_stopLoop, clock, book>>

AllHandled == pc = "message" /\ ~hasWakeup /\ performSources = <<>>
NoMessage ==
  /\ AllHandled
  /\ pc' = "check"
  /\ UNCHANGED <<timerVars, dispatchVars, runVars, selectVars, callVars,
                 worldVars, book>>

\* Where the loop goes on when a callback is over.
After(c) == CASE c.kind = "timer" -> "timers"
              [] IsWork(c) -> "work"
              [] c.kind = "source" -> "message"

(* A handler returns.  Its destroy handler is called next, if there is one;     *)
(* callAndWaitHandleCallback calls both and then tells the waiter.              *)
Return ==
  /\ pc' = After(cur) /\ cur' = Nothing
  /\ book' = TellWaiter(book, TRUE)

HandlerReturns ==
  /\ pc = "handle" /\ op[Loop] = Idle
  /\ \/ /\ cur.destroy
        /\ pc' = "destroy" /\ book' = TellWaiter(Freed(cur.u), FALSE)
        /\ UNCHANGED cur
     \/ /\ ~cur.destroy
        /\ Return
  /\ UNCHANGED <<timerVars, dispatchVars, selectVars, callVars, worldVars,
                 batch, stopLoop>>

DestroyReturns ==
  /\ pc = "destroy" /\ op[Loop] = Idle
  /\ Return
  /\ UNCHANGED <<timerVars, dispatchVars, selectVars, callVars, worldVars,
                 batch, stopLoop>>

-----------------------------------------------------------------------------
(* NQLooper_finalize, once nobody calls any more.  Timers are drained and their *)
(* destroy handlers called; so are those of the work left, without a check that *)
(* there is one: the program ends there if there is none.                       *)
Finalize ==
  /\ pc = "left" /\ Finalizes
  /\ \A a \in Actors : op[a].k \in {"idle", "wait"}
  /\ pc' = "final"
  /\ UNCHANGED <<timerVars, dispatchVars, runVars, selectVars, callVars,
                 worldVars, book>>

FinalizeTimer ==
  /\ pc = "final"
  /\ DrainTimer
  /\ LET data == entry[Head(activeList)].data IN
     book' = IF data.destroy THEN Freed(data.u) ELSE book
  /\ UNCHANGED <<dispatchVars, loopVars, callVars, worldVars>>

FinalizeWork ==
  /\ pc = "final" /\ activeList = <<>>
  /\ Shift
  /\ LET item == Head(workList) IN
     \/ /\ item.kind = "call" /\ item.destroy
        /\ book' = Freed(item.u)
        /\ UNCHANGED pc
     \/ /\ item.kind # "call" \/ ~item.destroy
        /\ pc' = "crashed"
        /\ UNCHANGED book
  /\ UNCHANGED <<timerVars, runVars, selectVars, callVars, worldVars>>

NothingToRelease == pc = "final" /\ activeList = <<>> /\ workList = <<>>
Finalized ==
  /\ NothingToRelease
  /\ pc' = "gone"
  /\ UNCHANGED <<timerVars, dispatchVars, runVars, selectVars, callVars,
                 worldVars, book>>

-----------------------------------------------------------------------------
(* The environment.  Time stands still between computing how long to sleep and  *)
(* sleeping.  Past MaxTime the clock goes on as long as a select() may still    *)
(* time out; no timer is due later than Horizon.                                *)
Horizon == MaxTime + Max(Delays \cup {0})
Tick ==
  /\ pc # "fill" /\ clock < Horizon
  /\ clock' = clock + 1
  /\ UNCHANGED <<timerVars, dispatchVars, loopVars, callVars, s_stopLoop,
                 readable, book>>

Input(s) ==
  /\ s \in ToSet(sources) /\ s \notin readable
  /\ readable' = readable \cup {s}
  /\ UNCHANGED <<timerVars, dispatchVars, loopVars, callVars, s_stopLoop, clock,
                 book>>

\* onSignalHandler.
Signal ==
  /\ Signals /\ ~s_stopLoop
  /\ s_stopLoop' = TRUE
  /\ UNCHANGED <<timerVars, dispatchVars, loopVars, callVars, clock, readable,
                 book>>

LoopStep ==
  \/ Check \/ FillFDSet \/ SelectReady \/ SelectTimeout \/ ReadEvents
  \/ FireTimer \/ NoTimerDue \/ TakeWakeup \/ NextWork \/ WorkDone
  \/ CallSource \/ NoMessage \/ HandlerReturns \/ DestroyReturns

Finalizing == Finalize \/ FinalizeTimer \/ FinalizeWork \/ Finalized

\* What a thread does after its critical section.
Continue(a) == Wake(a) \/ WaitReturns(a) \/ DestroyStopped(a)

CallOf(a) ==
  \/ \E d \in Destroys : Call(a, d) \/ CallAndWait(a, d)
  \/ Stop(a)
  \/ \E delay \in Delays, isInterval \in IntervalsToo, d \in Destroys :
       CallTimer(a, delay, isInterval, d)
  \/ \E u \in DOMAIN book : ClearTimer(a, u)
  \/ \E s \in Sources : Attach(a, s) \/ Detach(a, s)

Environment == Tick \/ Signal \/ SelectError \/ \E s \in Sources : Input(s)

Next ==
  \/ LoopStep \/ Finalizing \/ Environment
  \/ \E a \in Actors : CallOf(a) \/ Continue(a)
  \/ \E d \in Destroys : CallAndWaitInline(d)

Spec == Init /\ [][Next]_vars

(* Threads go on with what they are doing, handlers return, and time passes.    *)
Fairness ==
  /\ WF_vars(LoopStep) /\ SF_vars(HandlerReturns \/ DestroyReturns)
  /\ WF_vars(Finalizing) /\ SF_vars(Tick)
  /\ \A a \in Actors : WF_vars(Continue(a))
FairSpec == Spec /\ Fairness

-----------------------------------------------------------------------------
(* Properties.                                                                 *)
LooperTypeOK ==
  /\ TimerTypeOK
  /\ workList \in Seq([kind : {"call", "callAndWait", "stop"}, u : 1 .. MaxReg,
                       destroy : BOOLEAN])
  /\ size \in Nat /\ total \in Nat /\ freeCount \in Nat
  /\ pc \in {"check", "fill", "select", "events", "timers", "message", "work",
             "handle", "destroy", "left", "final", "gone", "crashed"}
  /\ cur \in [kind : {"none", "timer", "source", "call", "callAndWait", "stop"},
              u : 0 .. MaxReg, destroy : BOOLEAN]
  /\ batch \in Nat /\ wakes \in 0 .. WakeMax
  /\ {stopLoop, s_stopLoop, hasWakeup} \subseteq BOOLEAN
  /\ clock \in Nat /\ poolTime \in Nat /\ deadline \in Nat \cup {-1}
  /\ sources \in Seq(Sources) /\ performSources \in Seq(Sources)
  /\ wanted \subseteq Sources /\ readable \subseteq Sources
  /\ fdSet \subseteq Sources \cup {WakeupFd}
  /\ op \in [Actors -> [k : {"idle", "wake", "wait", "destroy"}, u : 0 .. MaxReg]]

WakePending == wakes > 0 \/ \E a \in Actors : op[a].k = "wake"

(* Work the loop does not already count on is announced: the counter of the    *)
(* wakeup event is set, or was just read, or whoever pushed is about to set    *)
(* it.  Otherwise select() could sleep on a call, and its callAndWait hang.    *)
NoLostWork == Len(workList) > batch => hasWakeup \/ WakePending

(* select() does not sleep past the first timer, although timers are started   *)
(* while the loop computes how long to sleep, or sleeps.                       *)
SleepCoversTimers ==
  pc \in {"fill", "select"} /\ activeList # <<>> =>
    \/ WakePending
    \/ deadline # -1 /\ (deadline <= clock \/ deadline <= entry[Head(activeList)].timePoint)

(* Detaching, which moves the last source, removes one source and no other.    *)
SourceTable == IsInjective(sources) /\ ToSet(sources) = wanted

(* When poolAll comes round to select(), nothing it was told is left over, so  *)
(* the shortcut at the top of Looper_poll is never needed.                     *)
NothingLeftOver ==
  pc \in {"check", "fill", "select", "events"} =>
    ~hasWakeup /\ performSources = <<>> /\ batch = 0 /\ cur = Nothing

(* A destroy handler is called once, and only for work that ran or was refused *)
(* or stopped; a timer that is not an interval runs once, or is stopped, but   *)
(* never both.                                                                 *)
ReleasedOnce ==
  \A u \in DOMAIN book :
    LET b == book[u] IN
    /\ b.freed <= 1
    /\ b.kind # "timer" \/ b.every = 0 =>
         b.ran <= 1 /\ (b.stopped # "no" => b.ran = 0)

(* What holds of the loop in every state: types, the size of the queue (see     *)
(* SizeCounts), and the two above.                                             *)
LooperInv == LooperTypeOK /\ SizeCounts /\ NothingLeftOver /\ ReleasedOnce

(* A stopped timer stays silent, whoever has its entry now, and a timer is     *)
(* never early, whichever time poll and startTimer read.                       *)
StoppedIsSilent ==
  [][\A u \in DOMAIN book : book'[u].ran > book[u].ran => book[u].stopped = "no"]_vars
TimerNotEarly ==
  [][\A u \in DOMAIN book :
       book[u].kind = "timer" /\ book'[u].ran > book[u].ran =>
         clock >= book[u].due + book[u].ran * book[u].every]_vars

(* callAndWait returns when both handlers have returned, and the loop no       *)
(* longer uses what is on the waiter's stack.                                  *)
WaitEndsLast ==
  [][\A t \in Threads : op[t].k = "wait" /\ op'[t] = Idle =>
       LET b == book[op[t].u] IN
       /\ b.ran = 1 /\ b.freed = (IF b.destroy THEN 1 ELSE 0)
       /\ ~(IsWork(cur) /\ cur.u = op[t].u)]_vars

(* Work runs in the order it was pushed, once each, one at a time, and is      *)
(* released right after it ran.                                                *)
Waiting == [k \in DOMAIN workList |-> [u |-> workList[k].u, destroy |-> workList[k].destroy]]
Fifo == INSTANCE FifoExecutor WITH
  Work <- 1 .. MaxReg,
  waiting <- Waiting,
  running <- IF IsWork(cur) /\ pc = "handle" THEN [u |-> cur.u, destroy |-> cur.destroy]
                                             ELSE [u |-> 0, destroy |-> FALSE],
  owed <- IF IsWork(cur) /\ pc = "destroy" THEN <<[u |-> cur.u, destroy |-> TRUE]>>
                                           ELSE <<>>
WorkIsFifo == Fifo!Spec

(* Finalizing a loop that was left releases every timer and all work given to  *)
(* it; what stopTimer and startTimer refused was not taken.                    *)
FinalizeReleases ==
  pc = "gone" => \A u \in DOMAIN book :
    book[u].destroy /\ ~(book[u].kind = "timer" /\ book[u].stopped = "refused")
      => book[u].freed = 1

\* The loop is over.
Over == pc \in {"left", "final", "gone", "crashed"}

\* u was taken, and has been run.
Taken(u, kinds) == u \in DOMAIN book /\ book[u].kind \in kinds /\ book[u].stopped = "no"
HasRun(u) == u \in DOMAIN book /\ book[u].ran > 0
WasStopped(u) == u \in DOMAIN book /\ book[u].stopped # "no"

(* Work that was taken runs, or the loop ends; NQLooper_stop does end it,      *)
(* whatever else the loop is given.                                            *)
WorkRuns ==
  \A u \in 1 .. MaxReg :
    /\ Taken(u, {"call", "callAndWait"}) ~> (HasRun(u) \/ Over)
    /\ Taken(u, {"stop"}) ~> Over

(* callAndWait returns, or the loop ends.                                      *)
WaitEnds == \A t \in Threads : op[t].k = "wait" ~> op[t] = Idle \/ Over

(* A timer that nobody stops fires, or the loop ends.                          *)
TimerFires ==
  \A u \in 1 .. MaxReg :
    Taken(u, {"timer"}) ~> (HasRun(u) \/ WasStopped(u) \/ Over)

(* A source with input is called, unless it is detached or the loop ends.      *)
SourceCalled ==
  \A s \in Sources : (s \in wanted /\ s \in readable)
    ~> (s \notin readable \/ s \notin wanted \/ Over)

(* NQ_ASSERT_NOT_REACHED in NQLooper_call and callAndWait: the queue takes     *)
(* everything, as long as few pieces of work wait.                             *)
PushTaken ==
  [][\A u \in DOMAIN book' \ DOMAIN book :
       book'[u].kind # "timer" /\ book'[u].stopped = "refused" => size > 0]_vars

=============================================================================
