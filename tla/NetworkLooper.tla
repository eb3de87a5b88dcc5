--------------------------- MODULE NetworkLooper ---------------------------
(***************************************************************************)
(* libnetq/NetworkLooper.c: the event loop under the web server.  One      *)
(* worker thread drives it (NQNetworkLooper_runOnce, or performOnce and    *)
(* poll from WebServer.c's doWork); handlers and other threads set and     *)
(* clear timers, add and remove sockets and dispatch work under its mutex. *)
(*                                                                         *)
(* nextEvent is one critical section.  Its two loops are taken apart, one  *)
(* action per iteration, and nobody else acts while pc is "drain" or       *)
(* "collect".  The fields of the entry it returns are read after the       *)
(* mutex is released (action Call), so another thread's step may come      *)
(* between.  Builds without assertions are modelled; the assertions appear *)
(* as properties.                                                          *)
(***************************************************************************)
EXTENDS Integers, Sequences, FiniteSets, SequencesExt

CONSTANTS
  TimerLimit, SocketLimit, DispatchLimit,  \* the arguments of create
  NonceMod,     \* number of values of the nonce bit field (2^16 in the code)
  Fds,          \* socket handles the callers use
  WakeupFd,     \* the handle of the wakeup event
  Delays,       \* delays callers pass, relative to the clock the worker reads
  Intervals,    \* 0 for setTimeout, the period for setInterval
  PollCap,      \* the argument of NQNetworkLooper_poll, -1 for "forever"
  ZeroAfterPoll,\* TRUE: performOnce and poll; FALSE: runOnce
  Foreign,      \* operations other threads call; handlers may call them all
  Destroys,     \* whether callers pass a destroy handler: subset of BOOLEAN
  MayStop,      \* whether the driver may leave its loop and destroy the looper
  MaxTime,      \* bound on the clock
  MaxReg        \* bound on registrations (timers, sockets and dispatches)

Operations == {"setTimer", "clearTimer", "addSocket", "removeSocket",
               "dispatch", "wakeup"}

ASSUME LimitsAssumption == /\ TimerLimit \in Nat
                           /\ SocketLimit \in Nat \ {0}
                           /\ DispatchLimit \in Nat
ASSUME NonceAssumption == NonceMod \in Nat /\ NonceMod > 1
ASSUME FdAssumption == WakeupFd \notin Fds
ASSUME TimeAssumption == /\ Delays \subseteq Int
                         /\ Intervals \subseteq Nat
                         /\ PollCap \in Nat \cup {-1}
                         /\ MaxTime \in Nat
ASSUME CallerAssumption == /\ Foreign \subseteq Operations
                           /\ Destroys \subseteq BOOLEAN
                           /\ ZeroAfterPoll \in BOOLEAN
                           /\ MayStop \in BOOLEAN
                           /\ MaxReg \in Nat

VARIABLES
  timer, socket, dispatched,   \* timerEntries, socketEntries, dispatchEntries
  pollfd, pollSize,            \* what is handed to poll()
  pending,                     \* penndingList, entries of the three kinds
  usedTimer, usedSocket, freeTimer, freeSocket, freeDispatch,
  pollTimeout,
  wakeup,                      \* the counter of the wakeup event is not zero
  pc, cur,                     \* the worker: where it is, the event it holds
  polled, deadline,            \* the arguments of the poll() in progress
  now, sampled,                \* the clock; currentTimeMs of the last nextEvent
  book                         \* history: one record per registration

lists == <<pending, usedTimer, usedSocket, freeTimer, freeSocket, freeDispatch>>
entries == <<timer, socket, dispatched>>
worker == <<pc, cur, polled, deadline>>
vars == <<timer, socket, dispatched, pollfd, pollSize, pending, usedTimer,
          usedSocket, freeTimer, freeSocket, freeDispatch, pollTimeout, wakeup,
          pc, cur, polled, deadline, now, sampled, book>>

-----------------------------------------------------------------------------
Timers == 0 .. TimerLimit - 1
Sockets == 0 .. SocketLimit - 1
Dispatches == 0 .. DispatchLimit - 1

\* The list heads embedded in the entries, as members of penndingList.
TimerNode(i) == [kind |-> "timer", i |-> i]
SocketNode(i) == [kind |-> "socket", i |-> i]
DispatchNode(i) == [kind |-> "dispatch", i |-> i]
Nodes == [kind : {"timer"}, i : Timers]
           \cup [kind : {"socket"}, i : Sockets]
           \cup [kind : {"dispatch"}, i : Dispatches]

\* Wrong variants of the operators below, each one a slip the code could have
\* made.  Nothing uses them: put in the place of the right operator they show
\* which property notices.
NotUnlinked(s, x) == s
StaysUsed(es, i) == es
ToTheBack(free, i) == Append(free, i)

\* NQListHead_remove: unlink x from the list that holds it.
Without(s, x) ==
  IF x \in ToSet(s) THEN RemoveAt(s, CHOOSE k \in DOMAIN s : s[k] = x) ELSE s

\* reinitBaseEntry: the next nonce; never 0, so an identifier is never 0.
NextNonce(n) == IF (n + 1) % NonceMod = 0 THEN 1 ELSE (n + 1) % NonceMod

\* insertTimer: before the first timer that is due strictly later.
InsertPosition(order, tm, at) ==
  CHOOSE p \in 1 .. Len(order) + 1 :
    /\ \A k \in 1 .. p - 1 : tm[order[k]].time <= at
    /\ p <= Len(order) => at < tm[order[p]].time

\* nextEvent hands an entry out: it is in its action from here on.
EnterAction(es, i) == [es EXCEPT ![i].state = "Action"]

\* A socket entry compaction gave up is the first one addSocket takes.
Reclaim(free, i) == <<i>> \o free

\* What handlers did with a registration, counted up to 3.
Bump(n) == IF n < 3 THEN n + 1 ELSE 3
Ran(u) == [book EXCEPT ![u].ran = Bump(@)]
Freed(u) == [book EXCEPT ![u].freed = Bump(@)]

NoEvent == [event |-> "none", i |-> 0, u |-> 0]
Event(e, i) == [event |-> e, i |-> i, u |-> 0]

Init ==
  /\ timer = [i \in Timers |-> [nonce |-> 1, state |-> "Free", interval |-> 0,
                                time |-> 0, destroy |-> FALSE, u |-> 0]]
  /\ socket = [i \in Sockets |->
       IF i = 0 THEN [nonce |-> NextNonce(1), state |-> "Used", destroy |-> FALSE, u |-> 0]
                ELSE [nonce |-> 1, state |-> "Free", destroy |-> FALSE, u |-> 0]]
  /\ dispatched = [i \in Dispatches |->
       [nonce |-> 1, state |-> "Free", destroy |-> FALSE, u |-> 0]]
  /\ pollfd = [i \in Sockets |-> [fd |-> WakeupFd, events |-> FALSE, revents |-> FALSE]]
  /\ pollSize = 1
  /\ pending = <<SocketNode(0)>>
  /\ usedTimer = <<>> /\ usedSocket = <<>>
  /\ freeTimer = [k \in 1 .. TimerLimit |-> k - 1]
  /\ freeSocket = [k \in 1 .. SocketLimit - 1 |-> k]
  /\ freeDispatch = [k \in 1 .. DispatchLimit |-> k - 1]
  /\ pollTimeout = 0 /\ wakeup = FALSE
  /\ pc = "idle" /\ cur = NoEvent /\ polled = 0 /\ deadline = 0
  /\ now = 0 /\ sampled = 0
  /\ book = <<>>

-----------------------------------------------------------------------------
DueSoon(i) == timer[i].time <= now + 1
Due(i) == timer[i].time <= now

(* nextEvent, first part: a due timer is the next event whatever is pending. *)
FireTimer ==
  /\ pc = "idle" /\ usedTimer # <<>>
  /\ LET i == Head(usedTimer) IN
     /\ Due(i)
     /\ timer' = EnterAction(timer, i)
     /\ pending' = Append(pending, TimerNode(i))
     /\ cur' = Event("timerAction", i)
     /\ usedTimer' = Without(usedTimer, i)
  /\ pollTimeout' = 0 /\ sampled' = now /\ pc' = "event"
  /\ UNCHANGED <<socket, dispatched, pollfd, pollSize, usedSocket, freeTimer,
                 freeSocket, freeDispatch, wakeup, polled, deadline, now, book>>

StartDrain ==
  /\ pc = "idle"
  /\ \/ usedTimer = <<>> /\ pollTimeout' = -1
     \/ /\ usedTimer # <<>> /\ ~Due(Head(usedTimer))
        /\ pollTimeout' = timer[Head(usedTimer)].time - now
  /\ sampled' = now /\ pc' = "drain"
  /\ UNCHANGED <<entries, pollfd, pollSize, lists, wakeup, cur, polled, deadline,
                 now, book>>

(* nextEvent, the loop that empties penndingList: one iteration each. *)
Draining(kind, state) ==
  /\ pc = "drain" /\ pending # <<>> /\ Head(pending).kind = kind
  /\ CASE kind = "timer" -> timer[Head(pending).i].state = state
       [] kind = "socket" -> socket[Head(pending).i].state = state
       [] kind = "dispatch" -> dispatched[Head(pending).i].state = state

\* The entry goes back to the end of the list and the event is returned.
Requeue(event) ==
  /\ pending' = Append(Tail(pending), Head(pending))
  /\ cur' = Event(event, Head(pending).i)
  /\ pollTimeout' = 0 /\ pc' = "event"

DrainTimerAction ==
  /\ Draining("timer", "Action")
  /\ LET i == Head(pending).i
         e == timer[i]
     IN \/ /\ e.interval # 0
           /\ timer' = [timer EXCEPT ![i].state = "Used", ![i].time = @ + e.interval]
           /\ usedTimer' = InsertAt(usedTimer,
                             InsertPosition(usedTimer, timer, e.time + e.interval), i)
           /\ pending' = Tail(pending)
           /\ UNCHANGED <<freeTimer, cur, pollTimeout, pc>>
        \/ /\ e.interval = 0 /\ ~e.destroy
           /\ timer' = [timer EXCEPT ![i].state = "Free"]
           /\ freeTimer' = Append(freeTimer, i)
           /\ pending' = Tail(pending)
           /\ UNCHANGED <<usedTimer, cur, pollTimeout, pc>>
        \/ /\ e.interval = 0 /\ e.destroy
           /\ timer' = [timer EXCEPT ![i].state = "Destroy"]
           /\ Requeue("timerDestroy")
           /\ UNCHANGED <<usedTimer, freeTimer>>
  /\ UNCHANGED <<socket, dispatched, pollfd, pollSize, usedSocket, freeSocket,
                 freeDispatch, wakeup, polled, deadline, now, sampled, book>>

DrainTimerDestroy ==
  /\ Draining("timer", "Destroy")
  /\ timer' = [timer EXCEPT ![Head(pending).i].state = "Free"]
  /\ freeTimer' = Append(freeTimer, Head(pending).i)
  /\ pending' = Tail(pending)
  /\ UNCHANGED <<socket, dispatched, pollfd, pollSize, usedTimer, usedSocket,
                 freeSocket, freeDispatch, pollTimeout, wakeup, worker, now,
                 sampled, book>>

DrainSocketUsed ==
  /\ Draining("socket", "Used")
  /\ socket' = EnterAction(socket, Head(pending).i)
  /\ Requeue("socketAction")
  /\ UNCHANGED <<timer, dispatched, pollfd, pollSize, usedTimer, usedSocket,
                 freeTimer, freeSocket, freeDispatch, wakeup, polled, deadline,
                 now, sampled, book>>

DrainSocketAction ==
  /\ Draining("socket", "Action")
  /\ LET i == Head(pending).i IN
     \/ /\ \/ /\ pollfd[i].events
              /\ socket' = [socket EXCEPT ![i].state = "Used"]
           \/ /\ ~pollfd[i].events /\ ~socket[i].destroy
              /\ socket' = [socket EXCEPT ![i].state = "Free"]
        /\ usedSocket' = Append(usedSocket, i)
        /\ pending' = Tail(pending)
     \/ /\ ~pollfd[i].events /\ socket[i].destroy
        /\ socket' = [socket EXCEPT ![i].state = "Destroy"]
        /\ pending' = Append(Tail(pending), Head(pending))
        /\ UNCHANGED usedSocket
  /\ UNCHANGED <<timer, dispatched, pollfd, pollSize, usedTimer, freeTimer,
                 freeSocket, freeDispatch, pollTimeout, wakeup, worker, now,
                 sampled, book>>

DrainSocketDestroy ==
  /\ Draining("socket", "Destroy")
  /\ socket' = [socket EXCEPT ![Head(pending).i].state = "Free"]
  /\ usedSocket' = Append(usedSocket, Head(pending).i)
  /\ pending' = Tail(pending)
  /\ cur' = Event("socketDestroy", Head(pending).i)
  /\ pollTimeout' = 0 /\ pc' = "event"
  /\ UNCHANGED <<timer, dispatched, pollfd, pollSize, usedTimer, freeTimer,
                 freeSocket, freeDispatch, wakeup, polled, deadline, now,
                 sampled, book>>

DrainDispatchUsed ==
  /\ Draining("dispatch", "Used")
  /\ dispatched' = EnterAction(dispatched, Head(pending).i)
  /\ Requeue("dispatchAction")
  /\ UNCHANGED <<timer, socket, pollfd, pollSize, usedTimer, usedSocket, freeTimer,
                 freeSocket, freeDispatch, wakeup, polled, deadline, now,
                 sampled, book>>

DrainDispatchAction ==
  /\ Draining("dispatch", "Action")
  /\ dispatched[Head(pending).i].destroy
  /\ dispatched' = [dispatched EXCEPT ![Head(pending).i].state = "Destroy"]
  /\ Requeue("dispatchDestroy")
  /\ UNCHANGED <<timer, socket, pollfd, pollSize, usedTimer, usedSocket, freeTimer,
                 freeSocket, freeDispatch, wakeup, polled, deadline, now,
                 sampled, book>>

DrainDispatchDone ==
  /\ \/ Draining("dispatch", "Action") /\ ~dispatched[Head(pending).i].destroy
     \/ Draining("dispatch", "Destroy")
  /\ dispatched' = [dispatched EXCEPT ![Head(pending).i].state = "Free"]
  /\ freeDispatch' = Append(freeDispatch, Head(pending).i)
  /\ pending' = Tail(pending)
  /\ UNCHANGED <<timer, socket, pollfd, pollSize, usedTimer, usedSocket, freeTimer,
                 freeSocket, pollTimeout, wakeup, worker, now, sampled, book>>

(* nextEvent, the loop over usedSocketList.  Every iteration takes the head  *)
(* off the list, so the iterator is always the head.                         *)
StartCollect ==
  /\ pc = "drain" /\ pending = <<>>
  /\ pc' = "collect"
  /\ UNCHANGED <<entries, pollfd, pollSize, lists, pollTimeout, wakeup, cur,
                 polled, deadline, now, sampled, book>>

CollectUsed ==
  /\ pc = "collect" /\ usedSocket # <<>>
  /\ socket[Head(usedSocket)].state = "Used"
  /\ pollfd' = [pollfd EXCEPT ![Head(usedSocket)].revents = FALSE]
  /\ pending' = Append(pending, SocketNode(Head(usedSocket)))
  /\ usedSocket' = Tail(usedSocket)
  /\ UNCHANGED <<entries, pollSize, usedTimer, freeTimer, freeSocket,
                 freeDispatch, pollTimeout, wakeup, worker, now, sampled, book>>

\* What compaction copies.  The entry keeps its own identifier.
UserdataForgotten(i, last) == [socket[last] EXCEPT !.nonce = socket[i].nonce,
                                                   !.u = socket[i].u]
HandleForgotten(last, i) == [pollfd[last] EXCEPT !.fd = pollfd[i].fd]
MovedEntry(i, last) == [socket[last] EXCEPT !.nonce = socket[i].nonce]
MovedFd(last, i) == pollfd[last]

\* A removed socket gives its place in pollfd, and in the lists, to the last
\* one: NQListHead_swap, then the last entry goes to the free list.
CollectFree ==
  /\ pc = "collect" /\ usedSocket # <<>>
  /\ socket[Head(usedSocket)].state # "Used"
  /\ LET i == Head(usedSocket)
         last == pollSize - 1
     IN /\ IF i = last
           THEN /\ usedSocket' = Tail(usedSocket)
                /\ UNCHANGED <<pending, pollfd, socket>>
           ELSE /\ usedSocket' = ReplaceAll(Tail(usedSocket), last, i)
                /\ pending' = ReplaceAll(pending, SocketNode(last), SocketNode(i))
                /\ pollfd' = [pollfd EXCEPT ![i] = MovedFd(last, i)]
                /\ socket' = [socket EXCEPT
                     ![i] = MovedEntry(i, last),
                     ![last].state = "Free"]
        /\ freeSocket' = Reclaim(freeSocket, last)
        /\ pollSize' = last
  /\ UNCHANGED <<timer, dispatched, usedTimer, freeTimer, freeDispatch,
                 pollTimeout, wakeup, worker, now, sampled, book>>

NoEventLeft ==
  /\ pc = "collect" /\ usedSocket = <<>>
  /\ pc' = "sleep"
  /\ UNCHANGED <<entries, pollfd, pollSize, lists, pollTimeout, wakeup, cur,
                 polled, deadline, now, sampled, book>>

-----------------------------------------------------------------------------
(* performOnce2 after the mutex is released: the entry's userdata (and        *)
(* handler) is read and the handler entered.                                  *)
UserdataOf(ev) ==
  CASE ev.event \in {"timerAction", "timerDestroy"} -> timer[ev.i].u
    [] ev.event \in {"socketAction", "socketDestroy"} -> socket[ev.i].u
    [] ev.event \in {"dispatchAction", "dispatchDestroy"} -> dispatched[ev.i].u

IsAction(ev) == ev.event \in {"timerAction", "socketAction", "dispatchAction"}
IsWakeup(ev) == ev.event = "socketAction" /\ ev.i = 0

Call ==
  /\ pc = "event"
  /\ LET u == UserdataOf(cur) IN
     /\ cur' = [cur EXCEPT !.u = u]
     /\ book' = IF u = 0 THEN book ELSE IF IsAction(cur) THEN Ran(u) ELSE Freed(u)
  /\ pc' = "callback"
  /\ UNCHANGED <<entries, pollfd, pollSize, lists, pollTimeout, wakeup, polled,
                 deadline, now, sampled>>

\* The events a socket's handler may ask for; wakeupAction asks for POLLIN.
EventsReceived(i) == IF i = 0 THEN {pollfd[0].revents} ELSE BOOLEAN
EventsAsked(i) == IF i = 0 THEN {TRUE} ELSE BOOLEAN

\* A handler returns.  The events a socket's handler returns are stored under
\* the index read before the call; wakeupAction reads the wakeup event.
Return ==
  /\ pc = "callback"
  /\ IF cur.event = "socketAction"
     THEN \E events \in EventsAsked(cur.i) :
            pollfd' = [pollfd EXCEPT ![cur.i].events = events]
     ELSE UNCHANGED pollfd
  /\ wakeup' = (wakeup /\ ~(IsWakeup(cur) /\ pollfd[0].revents))
  /\ pc' = "idle" /\ cur' = NoEvent
  /\ UNCHANGED <<entries, pollSize, lists, pollTimeout, polled, deadline, now,
                 sampled, book>>

(* poll and runOnce: the call of NQPlatformPoll and its return. *)
PollEnter ==
  /\ pc = "sleep"
  /\ polled' = pollSize
  /\ deadline' = CASE pollTimeout = -1 /\ PollCap = -1 -> -1
                   [] pollTimeout = -1 /\ PollCap # -1 -> now + PollCap
                   [] pollTimeout # -1 /\ PollCap = -1 -> now + pollTimeout
                   [] OTHER -> now + (IF PollCap < pollTimeout THEN PollCap ELSE pollTimeout)
  /\ pc' = "polling"
  /\ UNCHANGED <<entries, pollfd, pollSize, lists, pollTimeout, wakeup, cur, now,
                 sampled, book>>

WakeupSeen == wakeup /\ pollfd[0].events

PollReturn(ready) ==
  /\ pollfd' = [i \in Sockets |->
       IF i >= polled THEN pollfd[i]
       ELSE [pollfd[i] EXCEPT !.revents = (i \in ready \/ (i = 0 /\ WakeupSeen))]]
  /\ pollTimeout' = IF ZeroAfterPoll THEN 0 ELSE pollTimeout
  /\ pc' = "idle" /\ polled' = 0 /\ deadline' = 0
  /\ UNCHANGED <<entries, pollSize, lists, wakeup, cur, now, sampled, book>>

\* The wakeup event or the timeout ends the poll ...
PollWoken ==
  /\ pc = "polling"
  /\ WakeupSeen \/ (deadline # -1 /\ deadline <= now)
  /\ \E ready \in SUBSET (1 .. polled - 1) : PollReturn(ready)

\* ... or a socket becomes ready (POLLHUP and the like need no event mask).
PollReady ==
  /\ pc = "polling"
  /\ \E ready \in SUBSET (1 .. polled - 1) : ready # {} /\ PollReturn(ready)

-----------------------------------------------------------------------------
(* The operations, each one critical section.  A handler may call any of     *)
(* them; other threads the Foreign ones, whenever the mutex is free.  An     *)
(* operation that finds no free entry or no such timer changes nothing.      *)
MutexFree == pc \notin {"drain", "collect", "destroyed"}
InHandler == pc = "callback" /\ ~IsWakeup(cur)
MayCall(op) == MutexFree /\ (InHandler \/ op \in Foreign)
MayRegister == Len(book) < MaxReg

\* WakeIfAsleep(TRUE): if (thiz->pollTimeout) NQNetworkLooper_wakeup(thiz).
WakeIfTimed(cond) == wakeup' = (wakeup \/ (cond /\ pollTimeout > 0))
WakeIfAsleep(cond) == wakeup' = (wakeup \/ (cond /\ pollTimeout # 0))

\* setTimer.  The clock is read before the mutex is taken, so a delay is
\* relative to a possibly older time than the worker's.
SetTimer(delay, interval, destroy) ==
  /\ MayCall("setTimer") /\ MayRegister /\ freeTimer # <<>>
  /\ LET i == Head(freeTimer)
         n == NextNonce(timer[i].nonce)
         p == InsertPosition(usedTimer, timer, now + delay)
         u == Len(book) + 1
     IN /\ timer' = [timer EXCEPT ![i] =
             [nonce |-> n, state |-> "Used", interval |-> interval,
              time |-> now + delay, destroy |-> destroy, u |-> u]]
        /\ usedTimer' = InsertAt(usedTimer, p, i)
        /\ WakeIfAsleep(p = 1)
        /\ book' = Append(book,
             [kind |-> "timer", i |-> i, nonce |-> n, fd |-> WakeupFd,
              due |-> now + delay, interval |-> interval, destroy |-> destroy,
              cancelled |-> FALSE, ran |-> 0, freed |-> 0])
  /\ freeTimer' = Tail(freeTimer)
  /\ UNCHANGED <<socket, dispatched, pollfd, pollSize, pending, usedSocket,
                 freeSocket, freeDispatch, pollTimeout, worker, now, sampled>>

\* clearTimer(id) succeeds if the entry still carries that identifier.
IndexMatches(u, isInterval) ==
  book[u].kind = "timer" /\ (timer[book[u].i].interval # 0) = isInterval
TimerMatches(u, isInterval) ==
  /\ book[u].kind = "timer"
  /\ timer[book[u].i].nonce = book[u].nonce
  /\ (timer[book[u].i].interval # 0) = isInterval

ClearTimer(u, isInterval) ==
  /\ MayCall("clearTimer") /\ TimerMatches(u, isInterval)
  /\ book' = [book EXCEPT ![u].cancelled = TRUE]
  /\ LET i == book[u].i
         e == timer[i]
     IN \/ /\ e.state = "Destroy"
           /\ UNCHANGED <<timer, usedTimer, freeTimer, pending, wakeup>>
        \/ /\ e.state # "Destroy" /\ ~e.destroy
           /\ timer' = [timer EXCEPT ![i].state = "Free"]
           /\ usedTimer' = Without(usedTimer, i)
           /\ freeTimer' = Append(Without(freeTimer, i), i)
           /\ pending' = Without(pending, TimerNode(i))
           /\ UNCHANGED wakeup
        \/ /\ e.state # "Destroy" /\ e.destroy
           /\ timer' = [timer EXCEPT ![i].state = "Destroy"]
           /\ usedTimer' = Without(usedTimer, i)
           /\ freeTimer' = Without(freeTimer, i)
           /\ pending' = Append(Without(pending, TimerNode(i)), TimerNode(i))
           /\ WakeIfAsleep(TRUE)
  /\ UNCHANGED <<socket, dispatched, pollfd, pollSize, usedSocket, freeSocket,
                 freeDispatch, pollTimeout, worker, now, sampled>>

\* Callers register a handle once at a time: one whose entry is still there
\* is one they removed, closed and got again from the system.
AddSocket(fd, destroy) ==
  /\ MayCall("addSocket") /\ MayRegister /\ freeSocket # <<>>
  /\ \A i \in 0 .. pollSize - 1 : pollfd[i].fd = fd => socket[i].state = "Free"
  /\ LET i == Head(freeSocket)
         n == NextNonce(socket[i].nonce)
         u == Len(book) + 1
     IN /\ socket' = [socket EXCEPT ![i] =
             [nonce |-> n, state |-> "Used", destroy |-> destroy, u |-> u]]
        /\ pollfd' = [pollfd EXCEPT ![pollSize] =
             [fd |-> fd, events |-> FALSE, revents |-> FALSE]]
        /\ pending' = Append(pending, SocketNode(i))
        /\ book' = Append(book,
             [kind |-> "socket", i |-> i, nonce |-> n, fd |-> fd, due |-> 0,
              interval |-> 0, destroy |-> destroy, cancelled |-> FALSE,
              ran |-> 0, freed |-> 0])
  /\ pollSize' = pollSize + 1
  /\ freeSocket' = Tail(freeSocket)
  /\ WakeIfAsleep(TRUE)
  /\ UNCHANGED <<timer, dispatched, usedTimer, usedSocket, freeTimer,
                 freeDispatch, pollTimeout, worker, now, sampled>>

\* removeSocket acts on the first entry that holds the handle.
FirstWith(fd, i) ==
  /\ i < pollSize /\ pollfd[i].fd = fd
  /\ \A j \in 0 .. i - 1 : pollfd[j].fd # fd

RemoveSocket(fd) ==
  /\ MayCall("removeSocket")
  /\ \E i \in Sockets :
     /\ FirstWith(fd, i) /\ socket[i].state \notin {"Destroy", "Free"}
     /\ \/ /\ ~socket[i].destroy
           /\ socket' = [socket EXCEPT ![i].state = "Free"]
           /\ usedSocket' = Append(Without(usedSocket, i), i)
           /\ pending' = Without(pending, SocketNode(i))
           /\ UNCHANGED wakeup
        \/ /\ socket[i].destroy
           /\ socket' = [socket EXCEPT ![i].state = "Destroy"]
           /\ usedSocket' = Without(usedSocket, i)
           /\ pending' = Append(Without(pending, SocketNode(i)), SocketNode(i))
           /\ WakeIfAsleep(TRUE)
     /\ book' = IF socket[i].u = 0 THEN book
                ELSE [book EXCEPT ![socket[i].u].cancelled = TRUE]
  /\ UNCHANGED <<timer, dispatched, pollfd, pollSize, usedTimer, freeTimer,
                 freeSocket, freeDispatch, pollTimeout, worker, now, sampled>>

Dispatch(destroy) ==
  /\ MayCall("dispatch") /\ MayRegister /\ freeDispatch # <<>>
  /\ LET i == Head(freeDispatch)
         n == NextNonce(dispatched[i].nonce)
         u == Len(book) + 1
     IN /\ dispatched' = [dispatched EXCEPT ![i] =
             [nonce |-> n, state |-> "Used", destroy |-> destroy, u |-> u]]
        /\ pending' = Append(pending, DispatchNode(i))
        /\ book' = Append(book,
             [kind |-> "dispatch", i |-> i, nonce |-> n, fd |-> WakeupFd, due |-> 0,
              interval |-> 0, destroy |-> destroy, cancelled |-> FALSE,
              ran |-> 0, freed |-> 0])
  /\ freeDispatch' = Tail(freeDispatch)
  /\ WakeIfAsleep(TRUE)
  /\ UNCHANGED <<timer, socket, pollfd, pollSize, usedTimer, usedSocket,
                 freeTimer, freeSocket, pollTimeout, worker, now, sampled>>

\* NQNetworkLooper_wakeup, which takes no mutex.
Wakeup ==
  /\ pc # "destroyed" /\ (InHandler \/ "wakeup" \in Foreign)
  /\ wakeup' = TRUE
  /\ UNCHANGED <<entries, pollfd, pollSize, lists, pollTimeout, worker, now,
                 sampled, book>>

-----------------------------------------------------------------------------
(* The driver leaves its loop (doWork's isLooperRunning, a poll that fails).  *)
Stop ==
  /\ MayStop /\ pc = "idle"
  /\ pc' = "stopped"
  /\ UNCHANGED <<entries, pollfd, pollSize, lists, pollTimeout, wakeup, cur,
                 polled, deadline, now, sampled, book>>

(* NQNetworkLooper_destroy.  Its first loop runs once per pending entry and  *)
(* looks at the first of them every time.                                    *)
EntryOf(node) == CASE node.kind = "timer" -> timer[node.i]
                   [] node.kind = "socket" -> socket[node.i]
                   [] node.kind = "dispatch" -> dispatched[node.i]

TimersForgotten(u) ==
  IF \E i \in ToSet(usedSocket) : socket[i].u = u /\ socket[i].destroy
                                  /\ socket[i].state = "Used" THEN 1 ELSE 0

DestroyCalls(u) ==
  LET first == Head(pending)
      mine(e) == e.u = u /\ e.destroy
  IN IF pending # <<>> /\ mine(EntryOf(first)) THEN Len(pending)
     ELSE IF \/ \E i \in ToSet(usedTimer) : mine(timer[i])
             \/ \E i \in ToSet(usedSocket) : mine(socket[i]) /\ socket[i].state = "Used"
     THEN 1 ELSE 0

Destroy ==
  /\ pc = "stopped"
  /\ pc' = "destroyed"
  /\ book' = [u \in DOMAIN book |-> [book[u] EXCEPT !.freed =
       IF @ + DestroyCalls(u) < 3 THEN @ + DestroyCalls(u) ELSE 3]]
  /\ UNCHANGED <<entries, pollfd, pollSize, lists, pollTimeout, wakeup, cur,
                 polled, deadline, now, sampled>>

\* The clock.  It may stand still while the worker holds the mutex: nobody
\* reads it then.  A poll in progress reaches its deadline although that may
\* lie a little behind MaxTime.
Tick ==
  /\ MutexFree
  /\ now < MaxTime \/ (pc = "polling" /\ now < deadline /\ deadline <= 2 * MaxTime)
  /\ now' = now + 1
  /\ UNCHANGED <<entries, pollfd, pollSize, lists, pollTimeout, wakeup, worker,
                 sampled, book>>

-----------------------------------------------------------------------------
NextEvent ==
  \/ FireTimer \/ StartDrain
  \/ DrainTimerAction \/ DrainTimerDestroy
  \/ DrainSocketUsed \/ DrainSocketAction \/ DrainSocketDestroy
  \/ DrainDispatchUsed \/ DrainDispatchAction \/ DrainDispatchDone
  \/ StartCollect \/ CollectUsed \/ CollectFree \/ NoEventLeft

Callers ==
  \/ \E d \in Delays, v \in Intervals, h \in Destroys :
       now + d <= MaxTime /\ SetTimer(d, v, h)
  \/ \E u \in DOMAIN book, b \in BOOLEAN : ClearTimer(u, b)
  \/ \E fd \in Fds, h \in Destroys : AddSocket(fd, h)
  \/ \E fd \in Fds : RemoveSocket(fd)
  \/ \E h \in Destroys : Dispatch(h)
  \/ Wakeup

Worker == NextEvent \/ Call \/ Return \/ PollEnter \/ PollWoken

Next == Worker \/ PollReady \/ Callers \/ Stop \/ Destroy \/ Tick

Spec == Init /\ [][Next]_vars

\* The worker thread keeps running (a handler returns, a poll that can end
\* ends) and time goes on whatever it does.  Nothing makes a socket ready.
Fairness == WF_vars(Worker) /\ SF_vars(Tick)
FairSpec == Spec /\ Fairness

-----------------------------------------------------------------------------
States == {"Free", "Used", "Action", "Destroy"}
Nonces == 1 .. NonceMod - 1
Tokens == 0 .. MaxReg
EventNames == {"none", "timerAction", "timerDestroy", "socketAction",
               "socketDestroy", "dispatchAction", "dispatchDestroy"}

TimerEntry == [nonce : Nonces, state : States, interval : Nat, time : Int,
               destroy : BOOLEAN, u : Tokens]
SocketEntry == [nonce : Nonces, state : States, destroy : BOOLEAN, u : Tokens]
DispatchEntry == SocketEntry
Pollfd == [fd : Fds \cup {WakeupFd}, events : BOOLEAN, revents : BOOLEAN]
Registration == [kind : {"timer", "socket", "dispatch"}, i : Nat, nonce : Nonces,
                 fd : Fds \cup {WakeupFd}, due : Int, interval : Nat,
                 destroy : BOOLEAN, cancelled : BOOLEAN, ran : 0 .. 3, freed : 0 .. 3]

\* The variables stay in their types: identifiers are never 0, list members
\* are entries, the worker is at a place the code has.
TypeOK ==
  /\ timer \in [Timers -> TimerEntry]
  /\ socket \in [Sockets -> SocketEntry]
  /\ dispatched \in [Dispatches -> DispatchEntry]
  /\ pollfd \in [Sockets -> Pollfd]
  /\ pollSize \in 1 .. SocketLimit
  /\ pending \in Seq(Nodes)
  /\ usedTimer \in Seq(Timers) /\ freeTimer \in Seq(Timers)
  /\ usedSocket \in Seq(Sockets) /\ freeSocket \in Seq(Sockets)
  /\ freeDispatch \in Seq(Dispatches)
  /\ pollTimeout \in Int /\ wakeup \in BOOLEAN
  /\ pc \in {"idle", "drain", "collect", "event", "callback", "sleep",
             "polling", "stopped", "destroyed"}
  /\ cur \in [event : EventNames, i : Nat, u : Tokens]
  /\ polled \in 0 .. SocketLimit /\ deadline \in Int
  /\ now \in Nat /\ sampled \in Nat
  /\ book \in Seq(Registration) /\ Len(book) <= MaxReg

\* The entries of a kind among list nodes; those in penndingList.
OfKind(nodes, kind) == {node.i : node \in {n \in nodes : n.kind = kind}}
Pending(kind) == OfKind(ToSet(pending), kind)

\* The entries in use are the first pollSize ones, the part of pollfd that
\* poll() looks at, and the free list starts with the entry that follows
\* them: what addSocket and prePollCheck assert, kept through the compaction
\* of removed sockets.
SocketTable ==
  /\ freeSocket = [k \in 1 .. SocketLimit - pollSize |-> pollSize + k - 1]
  /\ ToSet(usedSocket) \cup Pending("socket") = 0 .. pollSize - 1
  /\ ToSet(usedSocket) \cap Pending("socket") = {}

TimerLists ==
  /\ ToSet(freeTimer) = {i \in Timers : timer[i].state = "Free"}
  /\ ToSet(usedTimer) = {i \in Timers : timer[i].state = "Used"}
  /\ Pending("timer") = {i \in Timers : timer[i].state \in {"Action", "Destroy"}}

DispatchLists ==
  /\ ToSet(freeDispatch) = {i \in Dispatches : dispatched[i].state = "Free"}
  /\ Pending("dispatch") = {i \in Dispatches : dispatched[i].state # "Free"}

SocketLists ==
  /\ \A i \in ToSet(usedSocket) : socket[i].state \in {"Used", "Free"}
  /\ \A i \in Pending("socket") : socket[i].state # "Free"
  /\ \A i \in ToSet(freeSocket) : socket[i].state = "Free"

\* An entry is in the list its state says, and in no other: the list heads are
\* embedded in the entries, so a second insertion would corrupt both lists.
ListsMatchStates == TimerLists /\ DispatchLists /\ SocketLists

\* No entry is twice in a list.
NoDuplicates ==
  /\ IsInjective(pending) /\ IsInjective(usedTimer) /\ IsInjective(freeTimer)
  /\ IsInjective(usedSocket) /\ IsInjective(freeDispatch)

\* While the worker is about to poll or polls, whatever it has not been told
\* of has signalled the wakeup event: work dispatched, a timer or socket whose
\* removal needs its destroy handler, a socket whose handler was never asked
\* for its events.
NoLostWakeup ==
  pc \in {"sleep", "polling"} =>
    \/ wakeup
    \/ \A node \in ToSet(pending) :
         /\ node.kind = "socket"
         /\ socket[node.i].state = "Used" /\ pollfd[node.i].events

\* The event the worker holds is about an entry that exists.
EventOK ==
  pc \in {"event", "callback"} =>
    \/ cur.event \in {"timerAction", "timerDestroy"} /\ cur.i \in Timers
    \/ cur.event \in {"socketAction", "socketDestroy"} /\ cur.i \in Sockets
    \/ cur.event \in {"dispatchAction", "dispatchDestroy"} /\ cur.i \in Dispatches

\* Entry 0 is the wakeup event's for good.  Its events are set unless the
\* handler that sets them is still to run.
WakeupEntry ==
  /\ pollfd[0].fd = WakeupFd /\ socket[0].u = 0
  /\ socket[0].state \in {"Used", "Action"}
  /\ \/ pollfd[0].events
     \/ /\ socket[0].state = "Used" /\ 0 \in Pending("socket")
        /\ pc \notin {"collect", "sleep", "polling"}
     \/ pc \in {"event", "callback"} /\ IsWakeup(cur)
  /\ pc \in {"sleep", "polling"} => 0 \in Pending("socket")
  /\ pc = "polling" => polled > 0

\* Only timers have intervals to clear, and their entries exist.
BookOK == \A u \in DOMAIN book : book[u].kind = "timer" => book[u].i \in Timers

\* What every step of the looper preserves, for any number of entries: lists
\* and states agree, the socket table is compact, entry 0 stays where it is.
Inv == TypeOK /\ SocketTable /\ ListsMatchStates /\ NoDuplicates /\ EventOK
LooperInv == Inv /\ WakeupEntry /\ BookOK

\* The wakeup event is always among the descriptors polled, with its events
\* set: compaction never moves it and no handler disarms it.
WakeupPolled ==
  /\ pollfd[0].fd = WakeupFd /\ socket[0].u = 0
  /\ pc \in {"sleep", "polling"} =>
       pollfd[0].events /\ SocketNode(0) \in ToSet(pending)
  /\ pc = "polling" => polled > 0

\* Unless it has been woken, the worker sleeps no longer than the first timer
\* allows.  (Only without interval timers: re-arming happens after pollTimeout
\* is computed.)
SleepCoversTimers ==
  pc \in {"sleep", "polling"} /\ usedTimer # <<>> /\ ~wakeup =>
    /\ pollTimeout # -1
    /\ sampled + pollTimeout <= timer[Head(usedTimer)].time

\* A one-shot timer and a dispatch run at most once; a destroy handler runs at
\* most once, and only where one was given.
OnceOnly ==
  pc # "destroyed" => \A u \in DOMAIN book :
    /\ book[u].kind # "socket" /\ book[u].interval = 0 => book[u].ran <= 1
    /\ book[u].freed <= (IF book[u].destroy THEN 1 ELSE 0)

\* Teardown calls the destroy handler of every timer and socket still in use,
\* once; nothing had called it before.
TeardownReleasesUsed ==
  pc = "destroyed" =>
    /\ \A i \in ToSet(usedTimer) : timer[i].destroy => book[timer[i].u].freed = 1
    /\ \A i \in ToSet(usedSocket) :
         socket[i].state = "Used" /\ socket[i].destroy => book[socket[i].u].freed = 1

-----------------------------------------------------------------------------
(* What strengthens the properties of this module to inductive invariants.    *)

\* nextEvent returned the event and its handler has not been entered.
HandedOut(event, i) == pc = "event" /\ cur.event = event /\ cur.i = i
InHand(event, i) == pc \in {"event", "callback"} /\ cur.event = event /\ cur.i = i
Awaits == {"drain", "collect", "sleep", "polling"}
Armed == {"Used", "Action"}

\* A socket waits in the used list with its events asked for, and the one
\* whose handler runs is not in use until the handler's answer is stored.
EventsKnown ==
  /\ \A i \in ToSet(usedSocket) : socket[i].state = "Used" => pollfd[i].events
  /\ \A i \in Sockets : InHand("socketAction", i) => socket[i].state # "Used" /\ i < pollSize

\* After a pass over penndingList only sockets to poll are in it.
OnlySocketsToPoll ==
  \A node \in ToSet(pending) :
    node.kind = "socket" /\ socket[node.i].state = "Used" /\ pollfd[node.i].events

\* On its way to a poll, the worker may block in it.
MayBlock == pc \in Awaits => pollTimeout # 0

WakeInv ==
  /\ MayBlock
  /\ EventsKnown
  /\ pc = "collect" => OnlySocketsToPoll
  /\ NoLostWakeup

\* The timers in use are in the order they are due in.
InOrder(order, tm) ==
  \A j, k \in DOMAIN order : j <= k => tm[order[j]].time <= tm[order[k]].time

AwaitsFirst ==
  pc \in Awaits /\ usedTimer # <<>> /\ ~wakeup =>
    pollTimeout # -1 /\ sampled + pollTimeout <= timer[Head(usedTimer)].time

SleepInv ==
  /\ InOrder(usedTimer, timer)
  /\ \A i \in Timers : timer[i].interval = 0
  /\ MayBlock
  /\ AwaitsFirst

\* The registration an entry was given to.
TimerOwner ==
  \A i \in Timers :
    /\ timer[i].state # "Free" => timer[i].u # 0
    /\ timer[i].state = "Destroy" => timer[i].destroy
    /\ timer[i].destroy => timer[i].u # 0
    /\ timer[i].u # 0 =>
         /\ timer[i].u \in DOMAIN book
         /\ book[timer[i].u].kind = "timer" /\ book[timer[i].u].i = i
         /\ book[timer[i].u].interval = timer[i].interval
         /\ book[timer[i].u].destroy = timer[i].destroy

DispatchOwner ==
  \A i \in Dispatches :
    /\ dispatched[i].state # "Free" => dispatched[i].u # 0
    /\ dispatched[i].state = "Destroy" => dispatched[i].destroy
    /\ dispatched[i].u # 0 =>
         /\ dispatched[i].u \in DOMAIN book
         /\ book[dispatched[i].u].kind = "dispatch" /\ book[dispatched[i].u].i = i
         /\ book[dispatched[i].u].destroy = dispatched[i].destroy

\* Compaction leaves a copy behind, a free one: live entries have owners of
\* their own.
LiveSocket(i) == socket[i].state # "Free" \/ HandedOut("socketDestroy", i)
SocketOwner ==
  /\ \A i \in Sockets :
       /\ i # 0 /\ i < pollSize => socket[i].u # 0
       /\ socket[i].state = "Destroy" => socket[i].destroy
       /\ socket[i].destroy => socket[i].u # 0
       /\ HandedOut("socketDestroy", i) =>
            i # 0 /\ i < pollSize /\ socket[i].destroy /\ socket[i].state = "Free"
       /\ HandedOut("socketAction", i) => i < pollSize
       /\ socket[i].u # 0 =>
            /\ socket[i].u \in DOMAIN book /\ book[socket[i].u].kind = "socket"
            /\ book[socket[i].u].destroy = socket[i].destroy
       /\ socket[i].u # 0 /\ i < pollSize => book[socket[i].u].fd = pollfd[i].fd
  /\ \A i, j \in Sockets :
       i # j /\ LiveSocket(i) /\ LiveSocket(j) /\ socket[i].u # 0 => socket[i].u # socket[j].u

Owners == TimerOwner /\ DispatchOwner /\ SocketOwner

\* The destroy handler of what is armed has not run; when it is handed out it
\* is the first time.
FreedOnce ==
  \A u \in DOMAIN book : book[u].freed <= (IF book[u].destroy THEN 1 ELSE 0)
TimerNotFreed ==
  \A i \in Timers :
    /\ timer[i].state \in Armed => book[timer[i].u].freed = 0
    /\ HandedOut("timerDestroy", i) => timer[i].state = "Destroy" /\ book[timer[i].u].freed = 0
    /\ HandedOut("timerAction", i) => timer[i].u # 0 /\ book[timer[i].u].freed = 0
DispatchNotFreed ==
  \A i \in Dispatches :
    /\ dispatched[i].state \in Armed => book[dispatched[i].u].freed = 0
    /\ HandedOut("dispatchDestroy", i) =>
         dispatched[i].state = "Destroy" /\ book[dispatched[i].u].freed = 0
    /\ HandedOut("dispatchAction", i) => dispatched[i].state = "Action"
SocketNotFreed ==
  \A i \in Sockets :
    socket[i].u # 0 /\ (LiveSocket(i) \/ HandedOut("socketAction", i))
      => book[socket[i].u].freed = 0
NotFreed == FreedOnce /\ TimerNotFreed /\ DispatchNotFreed /\ SocketNotFreed

HistoryInv == (pc # "destroyed" => Owners /\ NotFreed) /\ TeardownReleasesUsed

\* Without another thread that clears timers, a timer handed out is the one
\* whose handler is entered.
OneShot(u) == book[u].kind # "socket" /\ book[u].interval = 0
RanInv ==
  /\ \A u \in DOMAIN book : OneShot(u) => book[u].ran <= 1
  /\ \A i \in Timers :
       /\ HandedOut("timerAction", i) => timer[i].state = "Action"
       /\ timer[i].state = "Used" \/ HandedOut("timerAction", i) =>
            timer[i].interval # 0 \/ book[timer[i].u].ran = 0
  /\ \A i \in Dispatches :
       dispatched[i].state = "Used" \/ HandedOut("dispatchAction", i) =>
         book[dispatched[i].u].ran = 0
DueInv ==
  \A i \in Timers :
    /\ timer[i].u # 0 => book[timer[i].u].due <= timer[i].time
    /\ HandedOut("timerAction", i) => timer[i].state = "Action" /\ book[timer[i].u].due <= now

\* Nor one that removes sockets: nothing cancelled is armed or handed out.
CancelInv ==
  /\ \A i \in Timers :
       /\ timer[i].state \in Armed => ~book[timer[i].u].cancelled
       /\ HandedOut("timerAction", i) => timer[i].state = "Action"
  /\ \A i \in Sockets :
       /\ socket[i].state \in Armed /\ socket[i].u # 0 => ~book[socket[i].u].cancelled
       /\ HandedOut("socketAction", i) => socket[i].state = "Action"
  /\ \A u \in DOMAIN book : book[u].kind = "dispatch" => ~book[u].cancelled

\* While the nonce has not come round, every identifier of an entry is older
\* than its present one.
NonceInv ==
  /\ \A i \in Timers : timer[i].nonce <= Len(book) + 1
  /\ \A u \in DOMAIN book : book[u].kind = "timer" =>
       /\ book[u].nonce <= timer[book[u].i].nonce
       /\ book[u].nonce = timer[book[u].i].nonce => timer[book[u].i].u = u

\* Dispatches wait in penndingList in the order they came in, first for their
\* call and then for their release; the entry's phase says which.
ToRun(i) == dispatched[i].state = "Used" \/ HandedOut("dispatchAction", i)
ToRelease(i) == dispatched[i].state \in Armed \/ HandedOut("dispatchDestroy", i)
Waits(k, phase) ==
  /\ k \in DOMAIN pending /\ pending[k].kind = "dispatch"
  /\ dispatched[pending[k].i].state = phase
DispatchesQueued ==
  \A k, l \in DOMAIN pending, phase \in Armed :
    k < l /\ Waits(k, phase) /\ Waits(l, phase)
      => dispatched[pending[k].i].u < dispatched[pending[l].i].u

\* What was called or is being released came before all that waits for it.
PhasesInTurn ==
  \A i, j \in Dispatches :
    /\ dispatched[i].state = "Action" /\ dispatched[j].state = "Used"
         => dispatched[i].u < dispatched[j].u
    /\ HandedOut("dispatchDestroy", i) /\ dispatched[j].state \in Armed
         => dispatched[i].u < dispatched[j].u

RunsInTurn ==
  \A u \in DOMAIN book : book[u].kind = "dispatch" =>
    /\ book[u].ran = 0 => \E i \in Dispatches : dispatched[i].u = u /\ ToRun(i)
    /\ book[u].ran > 0 => \A i \in Dispatches : ToRun(i) => u < dispatched[i].u

ReleasesInTurn ==
  \A u \in DOMAIN book : book[u].kind = "dispatch" =>
    /\ book[u].destroy /\ book[u].freed = 0 =>
         \E i \in Dispatches : dispatched[i].u = u /\ ToRelease(i)
    /\ book[u].freed > 0 => \A i \in Dispatches : ToRelease(i) => u < dispatched[i].u

\* Work dispatched earlier is called earlier and, when both have a destroy
\* handler, released earlier.  (Teardown has an order of its own.)
DispatchOrder ==
  \A u, v \in DOMAIN book :
    u < v /\ book[u].kind = "dispatch" /\ book[v].kind = "dispatch" =>
      /\ book[v].ran > 0 => book[u].ran > 0
      /\ pc # "destroyed" /\ book[v].freed > 0 /\ book[u].destroy => book[u].freed > 0

TurnInv == DispatchesQueued /\ PhasesInTurn /\ RunsInTurn /\ ReleasesInTurn
OrderInv == IF pc = "destroyed" THEN DispatchOrder ELSE TurnInv

\* A handler never runs after its destroy handler did: userdata is released.
NoCallAfterRelease ==
  [][\A u \in DOMAIN book : book'[u].ran # book[u].ran => book[u].freed = 0]_vars

\* A socket's handlers are called with the handle the caller registered,
\* however often compaction moved the entry.
OwnHandle ==
  [][Call /\ cur.event \in {"socketAction", "socketDestroy"} /\ cur'.u # 0
       => book[cur'.u].kind = "socket" /\ book[cur'.u].fd = pollfd[cur.i].fd]_vars

\* A timer's action never runs before it is due.
TimerNotEarly ==
  [][Call /\ cur.event = "timerAction" => book[cur'.u].due <= now]_vars

\* An identifier clears the timer it was given for, never a later one that
\* reuses the entry (as long as the nonce has not come round).
StaleIdHarmless ==
  [][\A u \in DOMAIN book, b \in BOOLEAN :
       ClearTimer(u, b) => timer[book[u].i].u = u]_vars

\* clearTimer asserts that the timer is armed, firing or being destroyed.
ClearTimerAsserts ==
  [][\A u \in DOMAIN book, b \in BOOLEAN :
       ClearTimer(u, b) => timer[book[u].i].state # "Free"]_vars

\* Once a timer's clearTimeout or a socket's removal returned true, the action
\* handler is not entered again for it.
CancelledNeverRuns ==
  [][\A u \in DOMAIN book : book[u].cancelled => book'[u].ran = book[u].ran]_vars

\* A timer that nobody clears fires.
TimerFires ==
  \A u \in 1 .. MaxReg :
    (u \in DOMAIN book /\ book[u].kind = "timer")
      ~> (u \in DOMAIN book /\ (book[u].ran > 0 \/ book[u].cancelled))

\* A removed socket with a destroy handler gets it called.
RemovedIsReleased ==
  \A u \in 1 .. MaxReg :
    (u \in DOMAIN book /\ book[u].kind = "socket" /\ book[u].cancelled /\ book[u].destroy)
      ~> (u \in DOMAIN book /\ book[u].freed = 1)

=============================================================================
