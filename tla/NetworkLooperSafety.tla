------------------------ MODULE NetworkLooperSafety ------------------------
(***************************************************************************)
(* What callers of NetworkLooper rely on, for every number of timers,      *)
(* sockets and dispatches, any number of callers and any timing: the       *)
(* worker is not put to sleep with work it has not been told of and does   *)
(* not sleep past a timer; and, in the second half, what it does with a    *)
(* registration over its life: its handlers are called with what it was    *)
(* registered with, as often as was promised, not after it was released or *)
(* cancelled, and dispatches in the order they came in.                    *)
(***************************************************************************)
EXTENDS NetworkLooperProofs

-----------------------------------------------------------------------------
\* The steps that leave lists, entries and the socket table alone.
LEMMA ElsewhereKeeps ==
  ASSUME Elsewhere
  PROVE  UNCHANGED <<entries, pollSize, lists>>
BY DEF Elsewhere, StartDrain, StartCollect, NoEventLeft, Call, Return, PollEnter,
       PollWoken, PollReady, PollReturn, Wakeup, Stop, Destroy, Tick

\* The callers' steps leave the worker where it is.
LEMMA CallersKeep ==
  ASSUME Callers
  PROVE  UNCHANGED <<pollTimeout, worker, now, sampled>> /\ (MutexFree \/ Wakeup)
<1>1. ASSUME NEW d, NEW v, NEW h, SetTimer(d, v, h)
      PROVE  UNCHANGED <<pollTimeout, worker, now, sampled>> /\ MutexFree
  BY <1>1 DEF SetTimer, MayCall
<1>2. ASSUME NEW u, NEW b, ClearTimer(u, b)
      PROVE  UNCHANGED <<pollTimeout, worker, now, sampled>> /\ MutexFree
  BY <1>2 DEF ClearTimer, MayCall
<1>3. ASSUME NEW fd, NEW h, AddSocket(fd, h)
      PROVE  UNCHANGED <<pollTimeout, worker, now, sampled>> /\ MutexFree
  BY <1>3 DEF AddSocket, MayCall
<1>4. ASSUME NEW fd, RemoveSocket(fd)
      PROVE  UNCHANGED <<pollTimeout, worker, now, sampled>> /\ MutexFree
  BY <1>4 DEF RemoveSocket, MayCall
<1>5. ASSUME NEW h, Dispatch(h)
      PROVE  UNCHANGED <<pollTimeout, worker, now, sampled>> /\ MutexFree
  BY <1>5 DEF Dispatch, MayCall
<1>6. CASE Wakeup
  BY <1>6 DEF Wakeup
<1> QED BY <1>1, <1>2, <1>3, <1>4, <1>5, <1>6 DEF Callers

(* StartDrain computes how long the worker may sleep: for ever, or until the   *)
(* first timer is due.                                                         *)
LEMMA TimeoutComputed ==
  ASSUME Inv, StartDrain
  PROVE  /\ pollTimeout' # 0 /\ sampled' = now
         /\ usedTimer # <<>> =>
              /\ pollTimeout' # -1
              /\ sampled' + pollTimeout' <= timer[Head(usedTimer)].time
<1>1. CASE usedTimer = <<>> /\ pollTimeout' = -1
  BY <1>1 DEF StartDrain
<1>2. CASE usedTimer # <<>> /\ ~Due(Head(usedTimer))
           /\ pollTimeout' = timer[Head(usedTimer)].time - now
  <2>1. Head(usedTimer) \in Timers /\ now \in Nat /\ timer \in [Timers -> TimerEntry]
    BY <1>2 DEF Inv, TypeOK
  <2>2. timer[Head(usedTimer)].time \in Int
    BY <2>1 DEF TimerEntry
  <2>3. ~(timer[Head(usedTimer)].time <= now)
    BY <1>2 DEF Due
  <2>4. sampled' = now
    BY DEF StartDrain
  <2> QED BY <1>2, <2>1, <2>2, <2>3, <2>4
<1> QED BY <1>1, <1>2 DEF StartDrain

LEMMA NextMayBlock == Inv /\ MayBlock /\ [Next]_vars => MayBlock'
<1> SUFFICES ASSUME Inv, MayBlock, [Next]_vars PROVE MayBlock'
  OBVIOUS
<1>1. CASE StartDrain
  BY <1>1, TimeoutComputed DEF MayBlock
<1>2. CASE DrainTimerAction \/ DrainTimerDestroy \/ DrainSocketUsed \/ DrainSocketAction
           \/ DrainSocketDestroy \/ DrainDispatchUsed \/ DrainDispatchAction
           \/ DrainDispatchDone
  BY <1>2 DEF MayBlock, Awaits, worker, Requeue, Draining, DrainTimerAction, DrainTimerDestroy,
         DrainSocketUsed, DrainSocketAction, DrainSocketDestroy, DrainDispatchUsed,
         DrainDispatchAction, DrainDispatchDone
<1>3. CASE FireTimer \/ StartCollect \/ CollectUsed \/ CollectFree \/ NoEventLeft
  BY <1>3 DEF MayBlock, Awaits, worker, FireTimer, StartCollect, CollectUsed, CollectFree,
         NoEventLeft
<1>4. CASE Callers
  BY <1>4, CallersKeep DEF MayBlock, worker
<1>5. CASE Call \/ Return \/ PollEnter \/ PollWoken \/ PollReady
  BY <1>5 DEF MayBlock, Awaits, Call, Return, PollEnter, PollWoken, PollReady, PollReturn
<1>6. CASE Stop \/ Destroy \/ Tick \/ UNCHANGED vars
  BY <1>6 DEF MayBlock, Awaits, Stop, Destroy, Tick, worker, vars
<1> QED BY <1>1, <1>2, <1>3, <1>4, <1>5, <1>6 DEF Next, Worker, NextEvent

-----------------------------------------------------------------------------
(* What the steps do to one entry, field by field. *)
LEMMA TimerOnlyState ==
  ASSUME Inv, NEW i \in Timers, NEW st \in States, timer' = [timer EXCEPT ![i].state = st]
  PROVE  \A j \in Timers :
           /\ timer'[j].state = IF j = i THEN st ELSE timer[j].state
           /\ timer'[j].u = timer[j].u /\ timer'[j].destroy = timer[j].destroy
           /\ timer'[j].interval = timer[j].interval /\ timer'[j].time = timer[j].time
           /\ timer'[j].nonce = timer[j].nonce
BY DEF Inv, TypeOK, TimerEntry

LEMMA SocketOnlyState ==
  ASSUME Inv, NEW i \in Sockets, NEW st \in States, socket' = [socket EXCEPT ![i].state = st]
  PROVE  \A j \in Sockets :
           /\ socket'[j].state = IF j = i THEN st ELSE socket[j].state
           /\ socket'[j].u = socket[j].u /\ socket'[j].destroy = socket[j].destroy
BY DEF Inv, TypeOK, SocketEntry

LEMMA DispatchOnlyState ==
  ASSUME Inv, NEW i \in Dispatches, NEW st \in States,
         dispatched' = [dispatched EXCEPT ![i].state = st]
  PROVE  \A j \in Dispatches :
           /\ dispatched'[j].state = IF j = i THEN st ELSE dispatched[j].state
           /\ dispatched'[j].u = dispatched[j].u /\ dispatched'[j].destroy = dispatched[j].destroy
BY DEF Inv, TypeOK, DispatchEntry, SocketEntry

LEMMA PollfdReceived ==
  ASSUME Inv, NEW j, NEW b, pollfd' = [pollfd EXCEPT ![j].revents = b]
  PROVE  \A k \in Sockets : pollfd'[k].events = pollfd[k].events /\ pollfd'[k].fd = pollfd[k].fd
BY DEF Inv, TypeOK, Pollfd

LEMMA PollfdAsked ==
  ASSUME Inv, NEW j, NEW b, pollfd' = [pollfd EXCEPT ![j].events = b]
  PROVE  \A k \in Sockets : /\ k # j => pollfd'[k].events = pollfd[k].events
                            /\ pollfd'[k].fd = pollfd[k].fd
BY DEF Inv, TypeOK, Pollfd

LEMMA PollReturned ==
  ASSUME Inv, NEW ready, PollReturn(ready)
  PROVE  \A k \in Sockets : pollfd'[k].events = pollfd[k].events /\ pollfd'[k].fd = pollfd[k].fd
<1>1. \A k \in Sockets : pollfd[k] \in Pollfd
  BY DEF Inv, TypeOK
<1>2. ASSUME NEW r \in Pollfd, NEW b
      PROVE  [r EXCEPT !.revents = b].events = r.events /\ [r EXCEPT !.revents = b].fd = r.fd
  BY Zenon DEF Pollfd
<1> DEFINE b(k) == k \in ready \/ (k = 0 /\ WakeupSeen)
<1>3. \A k \in Sockets :
        pollfd'[k] = IF k >= polled THEN pollfd[k] ELSE [pollfd[k] EXCEPT !.revents = b(k)]
  BY DEF PollReturn
<1>4. ASSUME NEW k \in Sockets
      PROVE  pollfd'[k].events = pollfd[k].events /\ pollfd'[k].fd = pollfd[k].fd
  <2> HIDE DEF b
  <2>1. /\ [pollfd[k] EXCEPT !.revents = b(k)].events = pollfd[k].events
        /\ [pollfd[k] EXCEPT !.revents = b(k)].fd = pollfd[k].fd
    BY <1>1, <1>2
  <2> QED BY <2>1, <1>3
<1> QED BY <1>4

(* A socket entry addSocket takes is the one that follows those in use. *)
LEMMA SocketAdded ==
  ASSUME Inv, NEW fd, NEW h, AddSocket(fd, h)
  PROVE  /\ pollSize \in Sockets /\ pollSize' = pollSize + 1
         /\ pending' = Append(pending, SocketNode(pollSize))
         /\ \A j \in Sockets : j # pollSize => socket'[j] = socket[j] /\ pollfd'[j] = pollfd[j]
         /\ socket'[pollSize].state = "Used" /\ socket'[pollSize].destroy = h
         /\ socket'[pollSize].u = Len(book) + 1
         /\ pollfd'[pollSize].fd = fd
<1>1. /\ freeSocket # <<>> /\ pollSize \in 1 .. SocketLimit /\ SocketLimit \in Nat
      /\ freeSocket = [k \in 1 .. SocketLimit - pollSize |-> pollSize + k - 1]
  BY LimitsAssumption DEF Inv, TypeOK, SocketTable, AddSocket
<1>2. 1 <= SocketLimit - pollSize
  BY <1>1
<1>3. Head(freeSocket) = pollSize /\ pollSize \in Sockets
  BY <1>1, <1>2 DEF Sockets
<1>4. socket \in [Sockets -> SocketEntry] /\ pollfd \in [Sockets -> Pollfd]
  BY DEF Inv, TypeOK
<1> DEFINE e == [nonce |-> NextNonce(socket[pollSize].nonce), state |-> "Used", destroy |-> h,
                 u |-> Len(book) + 1]
           f == [fd |-> fd, events |-> FALSE, revents |-> FALSE]
<1>5. /\ socket' = [socket EXCEPT ![pollSize] = e] /\ pollfd' = [pollfd EXCEPT ![pollSize] = f]
      /\ pending' = Append(pending, SocketNode(pollSize)) /\ pollSize' = pollSize + 1
  BY <1>3 DEF AddSocket
<1>6. e.state = "Used" /\ e.destroy = h /\ e.u = Len(book) + 1 /\ f.fd = fd
  OBVIOUS
<1> HIDE DEF e, f
<1> QED BY <1>3, <1>4, <1>5, <1>6

(* What compaction does to the socket table. *)
LEMMA SocketMoved ==
  ASSUME Inv, WakeupEntry, CollectFree,
         NEW i, NEW last, i = Head(usedSocket), last = pollSize - 1
  PROVE  /\ i \in Sockets /\ i \in 1 .. last /\ last \in Sockets
         /\ socket[i].state = "Free" /\ pollSize' = last
         /\ \A j \in Sockets \ {i, last} : socket'[j] = socket[j]
         /\ \A j \in Sockets \ {i} : pollfd'[j] = pollfd[j]
         /\ socket'[last].state = "Free" /\ socket'[last].u = socket[last].u
         /\ socket'[last].destroy = socket[last].destroy
         /\ pollfd'[i] = pollfd[last]
         /\ i # last => socket'[i].state = socket[last].state /\ socket'[i].u = socket[last].u
                        /\ socket'[i].destroy = socket[last].destroy
         /\ \A j \in ToSet(usedSocket') :
              /\ j \in ToSet(usedSocket) \/ (j = i /\ last \in ToSet(usedSocket))
              /\ j = i => last \in ToSet(usedSocket) /\ i # last
         /\ \A n \in ToSet(pending') :
              \/ n \in ToSet(pending) /\ (i # last => n # SocketNode(last))
              \/ i # last /\ n = SocketNode(i) /\ SocketNode(last) \in ToSet(pending)
<1>1. /\ usedSocket \in Seq(Sockets) /\ usedSocket # <<>> /\ IsInjective(usedSocket)
      /\ pending \in Seq(Nodes) /\ IsInjective(pending)
      /\ SocketLimit \in Nat /\ pollSize \in 1 .. SocketLimit /\ socket[i].state # "Used"
      /\ socket \in [Sockets -> SocketEntry] /\ pollfd \in [Sockets -> Pollfd]
  BY LimitsAssumption DEF Inv, TypeOK, NoDuplicates, CollectFree
<1> DEFINE t == Tail(usedSocket)
<1>2. /\ i \in Sockets /\ i \in ToSet(usedSocket) /\ t \in Seq(Sockets) /\ IsInjective(t)
      /\ ToSet(usedSocket) = ToSet(t) \cup {i} /\ i \notin ToSet(t)
  BY <1>1, TailList
<1>3. socket[i].state = "Free" /\ i # 0
  BY <1>1, <1>2 DEF Inv, ListsMatchStates, SocketLists, WakeupEntry
<1>4. i \in 0 .. pollSize - 1 /\ i \notin Pending("socket")
  BY <1>2 DEF Inv, SocketTable
<1>5. i \in 1 .. last /\ last \in Sockets
  BY <1>1, <1>3, <1>4 DEF Sockets
<1>6. SocketNode(i) \in Nodes /\ SocketNode(last) \in Nodes /\ SocketNode(i) \notin ToSet(pending)
  BY <1>2, <1>4, <1>5, PendingKinds DEF Inv, Nodes, SocketNode
<1>7. pollSize' = last
  BY DEF CollectFree
<1>8. CASE i = last
  <2>1. usedSocket' = t /\ UNCHANGED <<pending, pollfd, socket>>
    BY <1>8 DEF CollectFree
  <2> HIDE DEF t
  <2> QED BY <2>1, <1>2, <1>3, <1>5, <1>7, <1>8
<1>9. CASE i # last
  <2>1. /\ usedSocket' = ReplaceAll(t, last, i)
        /\ pending' = ReplaceAll(pending, SocketNode(last), SocketNode(i))
        /\ pollfd' = [pollfd EXCEPT ![i] = pollfd[last]]
        /\ socket' = [socket EXCEPT ![i] = MovedEntry(i, last), ![last].state = "Free"]
    BY <1>9 DEF CollectFree, MovedFd
  <2> HIDE DEF t
  <2>2. ToSet(usedSocket') = IF last \in ToSet(t) THEN (ToSet(t) \ {last}) \cup {i} ELSE ToSet(t)
    BY ONLY <2>1, <1>2, <1>5, ReplaceAllList
  <2>3. ToSet(pending') = IF SocketNode(last) \in ToSet(pending)
                          THEN (ToSet(pending) \ {SocketNode(last)}) \cup {SocketNode(i)}
                          ELSE ToSet(pending)
    <3> DEFINE a == SocketNode(last)
               b == SocketNode(i)
    <3>1. /\ a \in Nodes /\ b \in Nodes /\ b \notin ToSet(pending)
          /\ pending' = ReplaceAll(pending, a, b) /\ pending \in Seq(Nodes) /\ IsInjective(pending)
      BY <1>1, <1>6, <2>1
    <3> HIDE DEF a, b
    <3>2. ToSet(pending') = IF a \in ToSet(pending)
                            THEN (ToSet(pending) \ {a}) \cup {b} ELSE ToSet(pending)
      BY ONLY <3>1, ReplaceAllList
    <3> QED BY <3>2 DEF a, b
  <2>4. /\ MovedEntry(i, last).state = socket[last].state
        /\ MovedEntry(i, last).u = socket[last].u
        /\ MovedEntry(i, last).destroy = socket[last].destroy
    BY <1>1, <1>5 DEF MovedEntry, SocketEntry
  <2> DEFINE l == [socket[last] EXCEPT !.state = "Free"]
  <2>5. l.state = "Free" /\ l.u = socket[last].u /\ l.destroy = socket[last].destroy
    BY <1>1, <1>5 DEF SocketEntry
  <2>6. socket' = [socket EXCEPT ![i] = MovedEntry(i, last), ![last] = l]
    BY <2>1, <1>9
  <2> HIDE DEF l, MovedEntry
  <2>7. /\ \A j \in Sockets \ {i, last} : socket'[j] = socket[j]
        /\ socket'[last] = l /\ socket'[i] = MovedEntry(i, last)
    <3>1. DOMAIN socket = Sockets /\ i \in Sockets /\ last \in Sockets /\ i # last
      BY <1>1, <1>2, <1>5, <1>9
    <3> QED BY ONLY <3>1, <2>6
  <2>8. pollfd'[i] = pollfd[last] /\ \A j \in Sockets \ {i} : pollfd'[j] = pollfd[j]
    BY <2>1, <1>1, <1>2
  <2>9. \A j \in ToSet(usedSocket') :
          /\ j \in ToSet(usedSocket) \/ (j = i /\ last \in ToSet(usedSocket))
          /\ j = i => last \in ToSet(usedSocket) /\ i # last
    BY ONLY <2>2, <1>2, <1>9
  <2>10. \A n \in ToSet(pending') :
           \/ n \in ToSet(pending) /\ (i # last => n # SocketNode(last))
           \/ i # last /\ n = SocketNode(i) /\ SocketNode(last) \in ToSet(pending)
    BY <2>3, <1>9
  <2> QED BY <2>4, <2>5, <2>7, <2>8, <2>9, <2>10, <1>2, <1>3, <1>5, <1>7
<1> QED BY <1>8, <1>9

-----------------------------------------------------------------------------
(* A socket in the used list has told which events it wants. *)
UsedKnown == \A i \in ToSet(usedSocket) : socket[i].state = "Used" => pollfd[i].events
HandKnown ==
  \A i \in Sockets : InHand("socketAction", i) => socket[i].state # "Used" /\ i < pollSize

LEMMA EventsBoolean ==
  ASSUME Inv, Inv'
  PROVE  \A i \in Sockets : pollfd[i].events \in BOOLEAN /\ pollfd'[i].events \in BOOLEAN
<1>1. ASSUME NEW r \in Pollfd PROVE r.events \in BOOLEAN
  BY DEF Pollfd
<1> QED BY <1>1 DEF Inv, TypeOK

LEMMA EventsKept ==
  ASSUME Inv, Inv', UsedKnown,
         UNCHANGED <<socket, usedSocket>>,
         \A i \in Sockets : pollfd'[i].events = pollfd[i].events
  PROVE  UsedKnown'
<1>1. ToSet(usedSocket) \subseteq Sockets
  BY SocketSets
<1> QED BY <1>1, EventsBoolean DEF UsedKnown

LEMMA NextUsedKnown ==
  ASSUME Inv, Inv', WakeupEntry, UsedKnown, HandKnown, [Next]_vars
  PROVE  UsedKnown'
<1>0. /\ ToSet(usedSocket) \subseteq Sockets /\ usedSocket \in Seq(Sockets)
      /\ IsInjective(usedSocket)
      /\ \A i \in ToSet(usedSocket) : i < pollSize
      /\ "Action" \in States /\ "Free" \in States /\ "Destroy" \in States /\ "Used" \in States
      /\ \A i \in Sockets : pollfd[i].events \in BOOLEAN /\ pollfd'[i].events \in BOOLEAN
  <2>1. ToSet(usedSocket) \subseteq Sockets /\ usedSocket \in Seq(Sockets) /\ IsInjective(usedSocket)
    BY SocketSets
  <2>2. \A i \in ToSet(usedSocket) : i < pollSize
    <3>1. ToSet(usedSocket) \subseteq 0 .. pollSize - 1 /\ pollSize \in Int
      BY DEF Inv, TypeOK, SocketTable
    <3> QED BY <3>1
  <2> QED BY <2>1, <2>2, EventsBoolean DEF States
<1>1. CASE UNCHANGED <<socket, usedSocket, pollfd>>
  BY <1>1, <1>0 DEF UsedKnown
<1>2. CASE DrainSocketUsed
  <2> DEFINE n == Head(pending).i
  <2>1. n \in Sockets /\ n \in Pending("socket")
    BY <1>2, DrainingSocket DEF DrainSocketUsed
  <2>2. socket' = [socket EXCEPT ![n].state = "Action"] /\ UNCHANGED <<pollfd, usedSocket>>
    BY <1>2 DEF DrainSocketUsed, EnterAction
  <2> HIDE DEF n
  <2>3. \A j \in Sockets : socket'[j].state = IF j = n THEN "Action" ELSE socket[j].state
    <3>1. "Action" \in States
      BY DEF States
    <3> QED BY <2>1, <2>2, <3>1, SocketOnlyState
  <2> QED BY <2>2, <2>3, <1>0 DEF UsedKnown
<1>3. CASE DrainSocketAction
  <2> DEFINE n == Head(pending).i
  <2>1. n \in Sockets /\ n \in Pending("socket") /\ socket[n].state = "Action"
    BY <1>3, DrainingSocket DEF DrainSocketAction
  <2>2. PICK st \in States :
          /\ socket' = [socket EXCEPT ![n].state = st] /\ UNCHANGED pollfd
          /\ st = "Used" => pollfd[n].events
          /\ usedSocket' = usedSocket \/ usedSocket' = Append(usedSocket, n)
    <3>1. CASE /\ pollfd[n].events /\ socket' = [socket EXCEPT ![n].state = "Used"]
               /\ usedSocket' = Append(usedSocket, n) /\ UNCHANGED pollfd
      BY <3>1, <1>0
    <3>2. CASE /\ socket' = [socket EXCEPT ![n].state = "Free"]
               /\ usedSocket' = Append(usedSocket, n) /\ UNCHANGED pollfd
      BY <3>2, <1>0
    <3>3. CASE /\ socket' = [socket EXCEPT ![n].state = "Destroy"]
               /\ usedSocket' = usedSocket /\ UNCHANGED pollfd
      BY <3>3, <1>0
    <3> QED BY <1>3, <3>1, <3>2, <3>3 DEF DrainSocketAction
  <2> HIDE DEF n
  <2>3. \A j \in Sockets : socket'[j].state = IF j = n THEN st ELSE socket[j].state
    BY <2>1, <2>2, SocketOnlyState
  <2>4. \A j \in ToSet(usedSocket') : j \in ToSet(usedSocket) \/ j = n
    <3>1. ToSet(Append(usedSocket, n)) = ToSet(usedSocket) \cup {n}
      BY <2>1, <1>0, AppendList
    <3> QED BY <2>2, <3>1
  <2> QED BY <2>1, <2>2, <2>3, <2>4, <1>0 DEF UsedKnown
<1>4. CASE DrainSocketDestroy
  <2> DEFINE n == Head(pending).i
  <2>1. n \in Sockets
    BY <1>4, DrainingSocket DEF DrainSocketDestroy
  <2>2. socket' = [socket EXCEPT ![n].state = "Free"] /\ UNCHANGED pollfd
        /\ usedSocket' = Append(usedSocket, n)
    BY <1>4 DEF DrainSocketDestroy
  <2> HIDE DEF n
  <2>3. \A j \in Sockets : socket'[j].state = IF j = n THEN "Free" ELSE socket[j].state
    <3>1. "Free" \in States
      BY DEF States
    <3> QED BY <2>1, <2>2, <3>1, SocketOnlyState
  <2>4. \A j \in ToSet(usedSocket') : j \in ToSet(usedSocket) \/ j = n
    BY <2>1, <2>2, <1>0, AppendList
  <2> QED BY <2>1, <2>2, <2>3, <2>4, <1>0 DEF UsedKnown
<1>5. CASE CollectUsed
  <2>1. usedSocket # <<>> /\ usedSocket' = Tail(usedSocket) /\ UNCHANGED socket
        /\ pollfd' = [pollfd EXCEPT ![Head(usedSocket)].revents = FALSE]
    BY <1>5 DEF CollectUsed, entries
  <2>2. \A j \in ToSet(usedSocket') : j \in ToSet(usedSocket)
    BY <2>1, <1>0, TailList
  <2>3. \A j \in Sockets : pollfd'[j].events = pollfd[j].events
    BY <2>1, PollfdReceived
  <2> QED BY <2>1, <2>2, <2>3, <1>0 DEF UsedKnown
<1>6. CASE CollectFree
  <2> DEFINE i == Head(usedSocket)
             last == pollSize - 1
  <2>1. /\ i \in Sockets /\ last \in Sockets
        /\ \A j \in Sockets \ {i, last} : socket'[j] = socket[j]
        /\ \A j \in Sockets \ {i} : pollfd'[j] = pollfd[j]
        /\ socket'[last].state = "Free" /\ pollfd'[i] = pollfd[last]
        /\ i # last => socket'[i].state = socket[last].state
        /\ \A j \in ToSet(usedSocket') :
             /\ j \in ToSet(usedSocket) \/ (j = i /\ last \in ToSet(usedSocket))
             /\ j = i => last \in ToSet(usedSocket) /\ i # last
    BY <1>6, SocketMoved
  <2> HIDE DEF i, last
  <2> QED BY <2>1, <1>0 DEF UsedKnown
<1>7. CASE Return
  <2>1. UNCHANGED <<socket, usedSocket>>
    BY <1>7 DEF Return, entries, lists
  <2>2. CASE cur.event = "socketAction"
    <3>1. PICK b : pollfd' = [pollfd EXCEPT ![cur.i].events = b]
      BY <1>7, <2>2 DEF Return
    <3>2. \A k \in Sockets : k # cur.i => pollfd'[k].events = pollfd[k].events
      BY <3>1, PollfdAsked
    <3>3. cur.i \in Sockets => socket[cur.i].state # "Used"
      BY <1>7, <2>2 DEF HandKnown, InHand, Return
    <3> QED BY <2>1, <3>2, <3>3, <1>0 DEF UsedKnown
  <2>3. CASE cur.event # "socketAction"
    BY <1>1, <1>7, <2>1, <2>3 DEF Return
  <2> QED BY <2>2, <2>3
<1>8. CASE PollWoken \/ PollReady
  <2>1. PICK ready : PollReturn(ready)
    BY <1>8 DEF PollWoken, PollReady
  <2>2. UNCHANGED <<socket, usedSocket>>
    BY <2>1 DEF PollReturn, entries, lists
  <2> QED BY <2>1, <2>2, PollReturned, EventsKept
<1>9. ASSUME NEW fd, NEW h, AddSocket(fd, h) PROVE UsedKnown'
  <2>1. UNCHANGED usedSocket
    BY <1>9 DEF AddSocket
  <2>2. \A j \in Sockets : j # pollSize => socket'[j] = socket[j] /\ pollfd'[j] = pollfd[j]
    BY <1>9, SocketAdded
  <2>3. \A j \in ToSet(usedSocket) : j # pollSize
    <3>1. pollSize \in Int
      BY DEF Inv, TypeOK
    <3> QED BY <3>1, <1>0
  <2> QED BY <2>1, <2>2, <2>3, <1>0 DEF UsedKnown
<1>10. ASSUME NEW fd, RemoveSocket(fd) PROVE UsedKnown'
  <2>1. PICK i \in Sockets, st \in {"Free", "Destroy"} :
          /\ socket' = [socket EXCEPT ![i].state = st] /\ UNCHANGED pollfd
          /\ usedSocket' = Append(Without(usedSocket, i), i) \/ usedSocket' = Without(usedSocket, i)
    BY <1>10 DEF RemoveSocket
  <2>2. \A j \in Sockets : socket'[j].state = IF j = i THEN st ELSE socket[j].state
    <3>1. st \in States
      BY DEF States
    <3> QED BY <2>1, <3>1, SocketOnlyState
  <2> DEFINE w == Without(usedSocket, i)
  <2>3. w \in Seq(Sockets) /\ ToSet(w) = ToSet(usedSocket) \ {i}
    BY <1>0, WithoutList
  <2>4. \A j \in ToSet(usedSocket') : j \in ToSet(usedSocket) \/ j = i
    <3>1. usedSocket' = w \/ usedSocket' = Append(w, i)
      BY <2>1
    <3> HIDE DEF w
    <3>2. ToSet(Append(w, i)) = ToSet(w) \cup {i}
      BY <2>3, AppendList
    <3> QED BY <2>3, <3>1, <3>2
  <2> QED BY <2>1, <2>2, <2>4, <1>0 DEF UsedKnown
<1>11. CASE NextEvent
  BY <1>1, <1>2, <1>3, <1>4, <1>5, <1>6, <1>11 DEF NextEvent, FireTimer, StartDrain,
     DrainTimerAction, DrainTimerDestroy, DrainDispatchUsed, DrainDispatchAction,
     DrainDispatchDone, StartCollect, NoEventLeft, entries, lists
<1>12. CASE Callers
  <2>1. ASSUME NEW d, NEW v, NEW h, SetTimer(d, v, h) PROVE UNCHANGED <<socket, usedSocket, pollfd>>
    BY <2>1 DEF SetTimer
  <2>2. ASSUME NEW u, NEW b, ClearTimer(u, b) PROVE UNCHANGED <<socket, usedSocket, pollfd>>
    BY <2>2 DEF ClearTimer
  <2>3. ASSUME NEW h, Dispatch(h) PROVE UNCHANGED <<socket, usedSocket, pollfd>>
    BY <2>3 DEF Dispatch
  <2>4. CASE Wakeup
    BY <2>4, <1>1 DEF Wakeup, entries, lists
  <2> QED BY <2>1, <2>2, <2>3, <2>4, <1>1, <1>9, <1>10, <1>12 DEF Callers
<1>13. CASE Call \/ PollEnter \/ Stop \/ Destroy \/ Tick \/ UNCHANGED vars
  BY <1>1, <1>13 DEF Call, PollEnter, Stop, Destroy, Tick, entries, lists, vars
<1> QED BY <1>7, <1>8, <1>11, <1>12, <1>13 DEF Next, Worker

(* While a socket's handler runs, nobody puts its entry back in use. *)
LEMMA NextHandKnown ==
  ASSUME Inv, WakeupEntry, HandKnown, [Next]_vars
  PROVE  HandKnown'
<1>0. /\ "Free" \in States /\ "Destroy" \in States /\ "Action" \in States
      /\ pollSize \in Nat /\ Sockets \subseteq Int
  BY DEF Inv, TypeOK, States, Sockets
<1>1. CASE UNCHANGED <<socket, pollSize>> /\ (pc' \notin {"event", "callback"}
             \/ cur'.event # "socketAction" \/ UNCHANGED <<pc, cur>>)
  BY <1>1 DEF HandKnown, InHand
<1>2. CASE DrainSocketUsed
  <2> DEFINE n == Head(pending).i
  <2>1. n \in Sockets /\ n \in Pending("socket")
    BY <1>2, DrainingSocket DEF DrainSocketUsed
  <2>2. socket' = [socket EXCEPT ![n].state = "Action"] /\ pollSize' = pollSize
        /\ cur' = Event("socketAction", n)
    BY <1>2 DEF DrainSocketUsed, EnterAction, Requeue
  <2> HIDE DEF n
  <2>3. \A j \in Sockets : socket'[j].state = IF j = n THEN "Action" ELSE socket[j].state
    <3>1. "Action" \in States
      BY DEF States
    <3> QED BY <2>1, <2>2, <3>1, SocketOnlyState
  <2>4. n < pollSize
    <3>1. n \in 0 .. pollSize - 1
      BY <2>1 DEF Inv, SocketTable
    <3> QED BY <3>1, <1>0
  <2> QED BY <2>1, <2>2, <2>3, <2>4 DEF HandKnown, InHand, Event
<1>3. CASE DrainSocketAction \/ DrainSocketDestroy \/ CollectUsed \/ CollectFree
  <2>1. pc' \notin {"event", "callback"} \/ cur'.event # "socketAction"
    BY <1>3 DEF DrainSocketAction, DrainSocketDestroy, Draining, Event, CollectUsed, CollectFree,
         worker
  <2> QED BY <2>1 DEF HandKnown, InHand
<1>4. CASE NextEvent
  <2>1. CASE \/ FireTimer \/ StartDrain \/ DrainTimerDestroy \/ DrainDispatchUsed
             \/ DrainDispatchAction \/ DrainDispatchDone \/ StartCollect \/ NoEventLeft
    BY <1>1, <2>1 DEF FireTimer, StartDrain, DrainTimerDestroy, DrainDispatchUsed,
       DrainDispatchAction, DrainDispatchDone, StartCollect, NoEventLeft, Requeue, Event,
       entries, worker
  <2>2. CASE DrainTimerAction
    BY <1>1, <2>2 DEF DrainTimerAction, Draining, Requeue, Event
  <2> QED BY <1>2, <1>3, <1>4, <2>1, <2>2 DEF NextEvent
<1>5. CASE Call
  <2>1. \A e, i : InHand(e, i)' => InHand(e, i)
    <3>1. cur'.event = cur.event /\ cur'.i = cur.i /\ pc = "event"
      BY <1>5 DEF Call, Inv, TypeOK
    <3> QED BY <3>1 DEF InHand
  <2>2. UNCHANGED <<socket, pollSize>>
    BY <1>5 DEF Call, entries
  <2> QED BY <2>1, <2>2 DEF HandKnown
<1>6. CASE Return \/ PollEnter \/ PollWoken \/ PollReady \/ Stop \/ Destroy
  BY <1>1, <1>6 DEF Return, PollEnter, PollWoken, PollReady, PollReturn, Stop, Destroy, entries
<1>7. CASE Tick \/ UNCHANGED vars \/ Wakeup
  BY <1>1, <1>7 DEF Tick, Wakeup, entries, worker, vars
<1>8. ASSUME NEW fd, NEW h, AddSocket(fd, h) PROVE HandKnown'
  <2>1. UNCHANGED <<pc, cur>>
    BY <1>8 DEF AddSocket, worker
  <2>2. pollSize' = pollSize + 1 /\ \A j \in Sockets : j # pollSize => socket'[j] = socket[j]
    BY <1>8, SocketAdded
  <2>3. ASSUME NEW i \in Sockets, InHand("socketAction", i)
        PROVE  socket'[i].state # "Used" /\ i < pollSize'
    <3>1. socket[i].state # "Used" /\ i < pollSize /\ i \in Int
      BY <2>3, <1>0 DEF HandKnown
    <3>2. i # pollSize /\ i < pollSize + 1
      BY ONLY <3>1, <1>0
    <3> QED BY <2>2, <3>1, <3>2
  <2> QED BY <2>1, <2>3 DEF HandKnown, InHand
<1>9. ASSUME NEW fd, RemoveSocket(fd) PROVE HandKnown'
  <2>1. PICK i \in Sockets, st \in {"Free", "Destroy"} :
          socket' = [socket EXCEPT ![i].state = st]
    BY <1>9 DEF RemoveSocket
  <2>2. \A j \in Sockets : socket'[j].state = IF j = i THEN st ELSE socket[j].state
    <3>1. st \in States
      BY DEF States
    <3> QED BY <2>1, <3>1, SocketOnlyState
  <2>3. UNCHANGED <<pc, cur, pollSize>>
    BY <1>9 DEF RemoveSocket, worker
  <2> QED BY <2>1, <2>2, <2>3 DEF HandKnown, InHand
<1>10. CASE Callers
  <2>1. ASSUME NEW d, NEW v, NEW h, SetTimer(d, v, h) PROVE HandKnown'
    BY <1>1, <2>1 DEF SetTimer, worker
  <2>2. ASSUME NEW u, NEW b, ClearTimer(u, b) PROVE HandKnown'
    BY <1>1, <2>2 DEF ClearTimer, worker
  <2>3. ASSUME NEW h, Dispatch(h) PROVE HandKnown'
    BY <1>1, <2>3 DEF Dispatch, worker
  <2> QED BY <2>1, <2>2, <2>3, <1>7, <1>8, <1>9, <1>10 DEF Callers
<1> QED BY <1>4, <1>5, <1>6, <1>7, <1>10 DEF Next, Worker

-----------------------------------------------------------------------------
\* A node of penndingList the worker need not be told of.
Polled(node) ==
  node.kind = "socket" /\ socket[node.i].state = "Used" /\ pollfd[node.i].events

LEMMA PolledKept ==
  ASSUME Inv, Inv', UNCHANGED socket, \A k \in Sockets : pollfd'[k].events = pollfd[k].events,
         NEW node \in Nodes, Polled(node)
  PROVE  Polled(node)'
<1>1. node.i \in Sockets
  BY DEF Polled, Nodes
<1> QED BY <1>1, EventsBoolean DEF Polled

(* The second loop of nextEvent puts back only sockets to poll. *)
LEMMA NextCollected ==
  ASSUME Inv, Inv', WakeupEntry, UsedKnown, pc = "collect" => OnlySocketsToPoll, [Next]_vars,
         pc' = "collect"
  PROVE  OnlySocketsToPoll'
<1>0. /\ pending \in Seq(Nodes) /\ ToSet(pending) \subseteq Nodes
      /\ \A n \in ToSet(pending) : pc = "collect" => Polled(n)
  BY PendingKinds DEF Inv, TypeOK, OnlySocketsToPoll, Polled
<1> SUFFICES ASSUME NEW n \in ToSet(pending') PROVE Polled(n)'
  BY DEF OnlySocketsToPoll, Polled
<1>1. CASE StartCollect
  <2>1. pending' = <<>>
    BY <1>1 DEF StartCollect, lists
  <2> QED BY <2>1 DEF ToSet
<1>2. CASE CollectUsed
  <2> DEFINE i == Head(usedSocket)
  <2>1. /\ usedSocket # <<>> /\ socket[i].state = "Used" /\ pc = "collect" /\ UNCHANGED socket
        /\ pollfd' = [pollfd EXCEPT ![i].revents = FALSE]
        /\ pending' = Append(pending, SocketNode(i))
    BY <1>2 DEF CollectUsed, entries
  <2>2. i \in Sockets /\ i \in ToSet(usedSocket)
    BY <2>1, SocketSets, TailList
  <2>3. SocketNode(i) \in Nodes /\ Polled(SocketNode(i))
    BY <2>1, <2>2 DEF Nodes, SocketNode, Polled, UsedKnown
  <2>4. \A k \in Sockets : pollfd'[k].events = pollfd[k].events
    BY <2>1, PollfdReceived
  <2> HIDE DEF i
  <2>5. ToSet(pending') = ToSet(pending) \cup {SocketNode(i)}
    BY <2>1, <2>3, <1>0, AppendList
  <2>6. n \in Nodes /\ Polled(n)
    BY <2>1, <2>3, <2>5, <1>0
  <2> QED BY <2>1, <2>4, <2>6, PolledKept
<1>3. CASE CollectFree
  <2> DEFINE i == Head(usedSocket)
             last == pollSize - 1
  <2>1. /\ i \in Sockets /\ last \in Sockets /\ socket[i].state = "Free"
        /\ \A j \in Sockets \ {i, last} : socket'[j] = socket[j]
        /\ \A j \in Sockets \ {i} : pollfd'[j] = pollfd[j]
        /\ pollfd'[i] = pollfd[last]
        /\ i # last => socket'[i].state = socket[last].state
        /\ \A m \in ToSet(pending') :
             \/ m \in ToSet(pending) /\ (i # last => m # SocketNode(last))
             \/ i # last /\ m = SocketNode(i) /\ SocketNode(last) \in ToSet(pending)
    BY <1>3, SocketMoved
  <2>2. pc = "collect"
    BY <1>3 DEF CollectFree
  <2> HIDE DEF i, last
  <2>3. CASE n \in ToSet(pending) /\ (i # last => n # SocketNode(last))
    <3>1. n \in Nodes /\ Polled(n)
      BY <2>2, <2>3, <1>0
    <3>2. n = SocketNode(n.i) /\ n.i \in Sockets
      BY <3>1 DEF Polled, Nodes, SocketNode
    <3>3. n.i # i
      BY <3>1, <2>1 DEF Polled
    <3>4. n.i # last
      BY <2>3, <3>2, <3>3
    <3>5. socket'[n.i] = socket[n.i] /\ pollfd'[n.i] = pollfd[n.i]
      BY <2>1, <3>2, <3>3, <3>4
    <3> QED BY <3>1, <3>5 DEF Polled
  <2>4. CASE i # last /\ n = SocketNode(i) /\ SocketNode(last) \in ToSet(pending)
    <3>1. Polled(SocketNode(last))
      BY <2>2, <2>4, <1>0
    <3>2. n.kind = "socket" /\ n.i = i
      BY <2>4 DEF SocketNode
    <3>3. socket[last].state = "Used" /\ pollfd[last].events
      BY <3>1 DEF Polled, SocketNode
    <3> QED BY <2>1, <2>4, <3>2, <3>3 DEF Polled
  <2> QED BY <2>1, <2>3, <2>4
<1>4. CASE Wakeup \/ UNCHANGED vars
  <2>1. UNCHANGED <<socket, pollfd, pending, pc>>
    BY <1>4 DEF Wakeup, entries, lists, worker, vars
  <2> QED BY <2>1, <1>0 DEF Polled
<1>5. CASE Callers
  <2>1. pc' # "collect"  \/ Wakeup
    BY <1>5, CallersKeep DEF MutexFree, worker
  <2> QED BY <2>1, <1>4
<1> QED
  <2>1. CASE NextEvent
    <3>1. pc' # "collect" \/ StartCollect \/ CollectUsed \/ CollectFree
      BY <2>1 DEF NextEvent, FireTimer, StartDrain, DrainTimerAction, DrainTimerDestroy,
         DrainSocketUsed, DrainSocketAction, DrainSocketDestroy, DrainDispatchUsed,
         DrainDispatchAction, DrainDispatchDone, NoEventLeft, Draining, Requeue, worker
    <3> QED BY <3>1, <1>1, <1>2, <1>3
  <2>2. pc' # "collect" \/ NextEvent \/ Callers \/ UNCHANGED vars
    BY DEF Next, Worker, Call, Return, PollEnter, PollWoken, PollReady, PollReturn, Stop,
       Destroy, Tick, MutexFree, worker
  <2> QED BY <2>1, <2>2, <1>4, <1>5

(* Who gives the worker something to do while it sleeps wakes it. *)
LEMMA NextNoLostWakeup ==
  ASSUME Inv, Inv', WakeupEntry, MayBlock, NoLostWakeup,
         pc = "collect" => OnlySocketsToPoll, [Next]_vars
  PROVE  NoLostWakeup'
<1>0. /\ pending \in Seq(Nodes) /\ ToSet(pending) \subseteq Nodes /\ IsInjective(pending)
      /\ wakeup \in BOOLEAN
  BY PendingKinds DEF Inv, TypeOK, NoDuplicates
<1> SUFFICES ASSUME pc' \in {"sleep", "polling"}, ~wakeup', NEW n \in ToSet(pending')
             PROVE  Polled(n)'
  BY DEF NoLostWakeup, Polled
<1>1. CASE NoEventLeft
  BY <1>1 DEF NoEventLeft, OnlySocketsToPoll, Polled, entries, lists
<1>2. CASE PollEnter \/ Tick \/ UNCHANGED vars
  BY <1>2 DEF PollEnter, Tick, NoLostWakeup, Polled, entries, lists, worker, vars
<1>3. CASE Callers
  <2>1. pc' = pc /\ pc \in {"sleep", "polling"} /\ pollTimeout # 0
    BY <1>3, CallersKeep DEF worker, MayBlock, Awaits
  <2>2. ~wakeup => \A m \in ToSet(pending) : Polled(m)
    BY <2>1 DEF NoLostWakeup, Polled
  <2>3. ASSUME NEW d, NEW v, NEW h, SetTimer(d, v, h) PROVE Polled(n)'
    <3>1. UNCHANGED <<socket, pollfd, pending>> /\ (wakeup => wakeup')
      BY <2>3 DEF SetTimer, WakeIfAsleep
    <3> QED BY <3>1, <2>2 DEF Polled
  <2>4. ASSUME NEW u, NEW b, ClearTimer(u, b) PROVE Polled(n)'
    <3> DEFINE m == TimerNode(book[u].i)
    <3>1. /\ UNCHANGED <<socket, pollfd>>
          /\ \/ UNCHANGED <<pending, wakeup>>
             \/ pending' = Without(pending, m) /\ UNCHANGED wakeup
             \/ WakeIfAsleep(TRUE)
      BY <2>4 DEF ClearTimer
    <3>2. UNCHANGED wakeup /\ (UNCHANGED pending \/ pending' = Without(pending, m))
      BY <3>1, <2>1 DEF WakeIfAsleep
    <3> HIDE DEF m
    <3>3. ToSet(Without(pending, m)) = ToSet(pending) \ {m}
      BY <1>0, WithoutList
    <3>4. n \in ToSet(pending)
      BY <3>2, <3>3
    <3> QED BY <3>1, <3>2, <3>4, <2>2 DEF Polled
  <2>5. ASSUME NEW fd, RemoveSocket(fd) PROVE Polled(n)'
    <3>1. PICK i \in Sockets, st \in {"Free", "Destroy"} :
            /\ socket' = [socket EXCEPT ![i].state = st] /\ UNCHANGED pollfd
            /\ \/ pending' = Without(pending, SocketNode(i)) /\ UNCHANGED wakeup
               \/ WakeIfAsleep(TRUE)
      BY <2>5 DEF RemoveSocket
    <3>2. \A j \in Sockets : j # i => socket'[j].state = socket[j].state
      <4>1. st \in States
        BY DEF States
      <4> QED BY <3>1, <4>1, SocketOnlyState
    <3>3. UNCHANGED wakeup /\ pending' = Without(pending, SocketNode(i))
      BY <3>1, <2>1 DEF WakeIfAsleep
    <3>4. ToSet(Without(pending, SocketNode(i))) = ToSet(pending) \ {SocketNode(i)}
      BY <1>0, WithoutList
    <3>5. n \in ToSet(pending) /\ n # SocketNode(i)
      BY <3>3, <3>4
    <3>6. n \in Nodes /\ Polled(n)
      BY <3>3, <3>5, <1>0, <2>2
    <3>7. n.i \in Sockets /\ n.i # i
      BY <3>5, <3>6 DEF Polled, Nodes, SocketNode
    <3> QED BY <3>1, <3>2, <3>6, <3>7 DEF Polled
  <2>6. ASSUME WakeIfAsleep(TRUE) \/ Wakeup PROVE FALSE
    BY <2>6, <2>1 DEF WakeIfAsleep, Wakeup
  <2> QED BY <2>3, <2>4, <2>5, <2>6, <1>3 DEF Callers, AddSocket, Dispatch, ClearTimer
<1> QED
  <2>1. CASE NextEvent
    <3>1. pc' \in {"sleep", "polling"} => NoEventLeft
      BY <2>1 DEF NextEvent, FireTimer, StartDrain, DrainTimerAction, DrainTimerDestroy,
         DrainSocketUsed, DrainSocketAction, DrainSocketDestroy, DrainDispatchUsed,
         DrainDispatchAction, DrainDispatchDone, StartCollect, CollectUsed, CollectFree,
         Draining, Requeue, worker
    <3> QED BY <3>1, <1>1
  <2>2. pc' \in {"sleep", "polling"} => NextEvent \/ PollEnter \/ Tick \/ Callers \/ UNCHANGED vars
    BY DEF Next, Worker, Call, Return, PollWoken, PollReady, PollReturn, Stop, Destroy
  <2> QED BY <2>1, <2>2, <1>2, <1>3

LEMMA NextWake == LooperInv /\ LooperInv' /\ WakeInv /\ [Next]_vars => WakeInv'
<1> SUFFICES ASSUME LooperInv, LooperInv', WakeInv, [Next]_vars PROVE WakeInv'
  OBVIOUS
<1>1. Inv /\ Inv' /\ WakeupEntry /\ BookOK
  BY DEF LooperInv
<1>2. MayBlock /\ UsedKnown /\ HandKnown /\ NoLostWakeup /\ (pc = "collect" => OnlySocketsToPoll)
  BY DEF WakeInv, EventsKnown, UsedKnown, HandKnown
<1>3. MayBlock'
  BY <1>1, <1>2, NextMayBlock
<1>4. UsedKnown'
  BY <1>1, <1>2, NextUsedKnown
<1>5. HandKnown'
  BY <1>1, <1>2, NextHandKnown
<1>6. pc' = "collect" => OnlySocketsToPoll'
  BY <1>1, <1>2, NextCollected
<1>7. NoLostWakeup'
  BY <1>1, <1>2, NextNoLostWakeup
<1> QED BY <1>3, <1>4, <1>5, <1>6, <1>7 DEF WakeInv, EventsKnown, UsedKnown, HandKnown

LEMMA InitWake == Init => WakeInv
<1> SUFFICES ASSUME Init PROVE WakeInv
  OBVIOUS
<1>1. ToSet(usedSocket) = {} /\ pc = "idle"
  BY DEF Init, ToSet
<1> QED BY <1>1 DEF WakeInv, MayBlock, Awaits, EventsKnown, InHand, NoLostWakeup

(* A caller that dispatches work, or whose removal needs a destroy handler    *)
(* called, never leaves the worker asleep with it: the worker polls only      *)
(* sockets whose handlers have said what they wait for, or has been woken.    *)
THEOREM WakeupNeverLost == Spec => []NoLostWakeup
<1>1. LooperInv /\ LooperInv' /\ WakeInv /\ [Next]_vars => WakeInv'
  BY NextWake
<1>2. Init => WakeInv
  BY InitWake
<1>3. WakeInv => NoLostWakeup
  BY DEF WakeInv
<1>4. Spec => []LooperInv
  BY LooperInvariant
<1> QED BY <1>1, <1>2, <1>3, <1>4, PTL DEF Spec

-----------------------------------------------------------------------------
(* Unlinking a timer keeps the order; the first timer is due no earlier. *)
LEMMA WithoutInOrder ==
  ASSUME NEW s \in Seq(Timers), IsInjective(s), NEW x, NEW tm, InOrder(s, tm),
         \A i \in Timers : tm[i].time \in Int
  PROVE  /\ InOrder(Without(s, x), tm)
         /\ Without(s, x) # <<>> => s # <<>> /\ tm[Head(s)].time <= tm[Head(Without(s, x))].time
<1> DEFINE w == Without(s, x)
<1>0. Len(s) \in Nat /\ DOMAIN s = 1 .. Len(s) /\ \A k \in 1 .. Len(s) : s[k] \in Timers
  OBVIOUS
<1>1. CASE x \in ToSet(s)
  <2> DEFINE p == CHOOSE k \in DOMAIN s : s[k] = x
  <2>1. p \in 1 .. Len(s) /\ s[p] = x
    BY <1>1, MemberOf
  <2>2. w = RemoveAt(s, p)
    BY <1>1 DEF Without
  <2> HIDE DEF p, w
  <2>3. /\ w \in Seq(Timers) /\ Len(w) = Len(s) - 1
        /\ \A k \in 1 .. Len(s) - 1 : w[k] = IF k < p THEN s[k] ELSE s[k + 1]
    BY <2>1, <2>2, RemoveAtList
  <2>4. DOMAIN w = 1 .. Len(s) - 1
    BY <2>3
  <2>5. InOrder(w, tm)
    <3> SUFFICES ASSUME NEW j \in 1 .. Len(s) - 1, NEW k \in 1 .. Len(s) - 1, j <= k
                 PROVE  tm[w[j]].time <= tm[w[k]].time
      BY <2>4 DEF InOrder
    <3>1. PICK a \in 1 .. Len(s), b \in 1 .. Len(s) : a <= b /\ w[j] = s[a] /\ w[k] = s[b]
      <4>1. CASE j < p /\ k < p
        <5>1. j \in 1 .. Len(s) /\ k \in 1 .. Len(s)
          BY <1>0
        <5>2. w[j] = s[j] /\ w[k] = s[k]
          BY <4>1, <2>3
        <5> QED BY <5>1, <5>2
      <4>2. CASE j < p /\ ~(k < p)
        <5>1. w[j] = s[j] /\ w[k] = s[k + 1] /\ j <= k + 1 /\ k + 1 \in 1 .. Len(s)
          BY <4>2, <2>3, <1>0
        <5> QED BY <5>1, <1>0
      <4>3. CASE ~(j < p)
        <5>1. w[j] = s[j + 1] /\ w[k] = s[k + 1] /\ j + 1 <= k + 1
              /\ k + 1 \in 1 .. Len(s) /\ j + 1 \in 1 .. Len(s)
          BY <4>3, <2>1, <2>3, <1>0
        <5> QED BY <5>1
      <4> QED BY <4>1, <4>2, <4>3
    <3> QED BY <3>1, <1>0 DEF InOrder
  <2>6. ASSUME w # <<>> PROVE s # <<>> /\ tm[Head(s)].time <= tm[Head(w)].time
    <3>1. Len(s) - 1 >= 1 /\ Head(w) = w[1] /\ Head(s) = s[1] /\ s # <<>>
      BY <2>3, <2>6, <1>0
    <3>2. w[1] = s[1] \/ w[1] = s[2]
      BY <3>1, <2>3, <1>0
    <3>3. 1 \in DOMAIN s /\ 2 \in DOMAIN s /\ 1 <= 2 /\ s[1] \in Timers
      BY <3>1, <1>0
    <3>4. tm[s[1]].time <= tm[s[2]].time /\ tm[s[1]].time <= tm[s[1]].time
      BY <3>3 DEF InOrder
    <3> QED BY <3>1, <3>2, <3>4
  <2> QED BY <2>5, <2>6 DEF w
<1>2. CASE x \notin ToSet(s)
  <2>1. w = s
    BY <1>2 DEF Without
  <2>2. s # <<>> => tm[Head(s)].time \in Int
    BY <1>0
  <2> QED BY <2>1, <2>2
<1> QED BY <1>1, <1>2

(* insertTimer keeps the order; the first timer stays first unless the new one *)
(* takes its place.                                                            *)
LEMMA InsertInOrder ==
  ASSUME NEW s \in Seq(Timers), IsInjective(s), NEW tm, InOrder(s, tm),
         NEW i \in Timers, i \notin ToSet(s), NEW t2, NEW at \in Int, t2[i].time = at,
         \A j \in Timers : tm[j].time \in Int /\ (j # i => t2[j].time = tm[j].time),
         NEW p, p = InsertPosition(s, tm, at)
  PROVE  /\ InOrder(InsertAt(s, p, i), t2)
         /\ p # 1 => s # <<>> /\ Head(InsertAt(s, p, i)) = Head(s)
<1> DEFINE w == InsertAt(s, p, i)
<1>0. /\ Len(s) \in Nat /\ DOMAIN s = 1 .. Len(s)
      /\ \A k \in 1 .. Len(s) : s[k] \in Timers /\ s[k] \in ToSet(s)
  BY MemberOf
<1>1. /\ p \in 1 .. Len(s) + 1
      /\ \A k \in 1 .. p - 1 : tm[s[k]].time <= at
      /\ p <= Len(s) => at < tm[s[p]].time
  BY InsertPositionType
<1>2. /\ w \in Seq(Timers) /\ Len(w) = Len(s) + 1
      /\ \A k \in 1 .. Len(s) + 1 :
           w[k] = IF k < p THEN s[k] ELSE IF k = p THEN i ELSE s[k - 1]
  BY <1>1, InsertAtList
<1> HIDE DEF w
<1>3. DOMAIN w = 1 .. Len(s) + 1
  BY <1>2
<1>4. \A k \in 1 .. Len(s) : t2[s[k]].time = tm[s[k]].time /\ tm[s[k]].time \in Int
  BY <1>0
<1>5. \A k \in p .. Len(s) : at <= tm[s[k]].time
  <2> SUFFICES ASSUME NEW k \in p .. Len(s) PROVE at <= tm[s[k]].time
    OBVIOUS
  <2>1. p \in DOMAIN s /\ k \in DOMAIN s /\ p <= k /\ p <= Len(s)
    BY <1>0, <1>1
  <2>2. tm[s[p]].time <= tm[s[k]].time
    BY <2>1 DEF InOrder
  <2> QED BY <2>1, <2>2, <1>1, <1>4, <1>0
<1>6. InOrder(w, t2)
  <2> SUFFICES ASSUME NEW j \in 1 .. Len(s) + 1, NEW k \in 1 .. Len(s) + 1, j <= k
               PROVE  t2[w[j]].time <= t2[w[k]].time
    BY <1>3 DEF InOrder
  <2>1. \A a, b \in 1 .. Len(s) : a <= b => t2[s[a]].time <= t2[s[b]].time
    BY <1>0, <1>4 DEF InOrder
  <2>2. CASE j < p /\ k < p
    <3>1. w[j] = s[j] /\ w[k] = s[k] /\ j \in 1 .. Len(s) /\ k \in 1 .. Len(s)
      BY <2>2, <1>0, <1>1, <1>2
    <3> QED BY <3>1, <2>1
  <2>3. CASE j < p /\ k = p
    <3>1. w[j] = s[j] /\ w[k] = i /\ j \in 1 .. p - 1 /\ j \in 1 .. Len(s)
      BY <2>3, <1>0, <1>1, <1>2
    <3> QED BY <3>1, <1>1, <1>4
  <2>4. CASE j < p /\ k > p
    <3>1. w[j] = s[j] /\ w[k] = s[k - 1] /\ j <= k - 1
          /\ j \in 1 .. Len(s) /\ k - 1 \in 1 .. Len(s)
      BY <2>4, <1>0, <1>1, <1>2
    <3> QED BY <3>1, <2>1
  <2>5. CASE j = p /\ k = p
    BY <2>5, <1>2
  <2>6. CASE j = p /\ k > p
    <3>1. w[j] = i /\ w[k] = s[k - 1] /\ k - 1 \in p .. Len(s) /\ k - 1 \in 1 .. Len(s)
      BY <2>6, <1>0, <1>1, <1>2
    <3> QED BY <3>1, <1>4, <1>5
  <2>7. CASE j > p
    <3>1. w[j] = s[j - 1] /\ w[k] = s[k - 1] /\ j - 1 <= k - 1
          /\ j - 1 \in 1 .. Len(s) /\ k - 1 \in 1 .. Len(s)
      BY <2>7, <1>0, <1>1, <1>2
    <3> QED BY <3>1, <2>1
  <2> QED BY <2>2, <2>3, <2>4, <2>5, <2>6, <2>7, <1>0, <1>1
<1>7. ASSUME p # 1 PROVE s # <<>> /\ Head(w) = Head(s)
  <2>1. 1 < p /\ Len(s) >= 1
    BY <1>0, <1>1, <1>7
  <2>2. w[1] = s[1]
    BY <2>1, <1>0, <1>2
  <2> QED BY <2>1, <2>2, <1>0, <1>2
<1> QED BY <1>6, <1>7 DEF w

NoIntervals == \A i \in Timers : timer[i].interval = 0
TimesInOrder == InOrder(usedTimer, timer) /\ NoIntervals /\ AwaitsFirst

LEMMA TimerTypes ==
  ASSUME Inv
  PROVE  /\ \A i \in Timers : timer[i].time \in Int /\ timer[i].interval \in Nat
         /\ usedTimer \in Seq(Timers) /\ IsInjective(usedTimer)
         /\ ToSet(usedTimer) = {i \in Timers : timer[i].state = "Used"}
         /\ usedTimer # <<>> => Head(usedTimer) \in Timers
         /\ \A k \in DOMAIN usedTimer : usedTimer[k] \in Timers
<1>1. \A e \in TimerEntry : e.time \in Int /\ e.interval \in Nat
  BY DEF TimerEntry
<1> QED BY <1>1 DEF Inv, TypeOK, NoDuplicates, ListsMatchStates, TimerLists

\* Steps that leave the timers' times and their order alone: on the way to a
\* poll with the timeout already computed, and elsewhere.
LEMMA OrderKept ==
  ASSUME Inv, InOrder(usedTimer, timer), NoIntervals, UNCHANGED usedTimer,
         \A i \in Timers : timer'[i].time = timer[i].time /\ timer'[i].interval = timer[i].interval
  PROVE  InOrder(usedTimer', timer') /\ NoIntervals'
BY TimerTypes DEF InOrder, NoIntervals

LEMMA AwaitsFirstKept ==
  ASSUME Inv, AwaitsFirst, UNCHANGED <<usedTimer, pollTimeout, sampled>>,
         pc' \in Awaits => pc \in Awaits, wakeup => wakeup',
         \A i \in Timers : timer'[i].time = timer[i].time
  PROVE  AwaitsFirst'
BY TimerTypes DEF AwaitsFirst

LEMMA TimesKept ==
  ASSUME Inv, TimesInOrder, UNCHANGED usedTimer,
         \A i \in Timers : timer'[i].time = timer[i].time /\ timer'[i].interval = timer[i].interval,
         \/ pc' \notin Awaits
         \/ /\ UNCHANGED <<pollTimeout, sampled>> /\ (wakeup => wakeup')
            /\ pc' \in Awaits => pc \in Awaits
  PROVE  TimesInOrder'
<1>1. InOrder(usedTimer', timer') /\ NoIntervals'
  BY OrderKept DEF TimesInOrder
<1>2. CASE pc' \notin Awaits
  BY <1>1, <1>2 DEF TimesInOrder, AwaitsFirst
<1>3. CASE /\ UNCHANGED <<pollTimeout, sampled>> /\ (wakeup => wakeup')
           /\ pc' \in Awaits => pc \in Awaits
  <2>1. AwaitsFirst'
    BY <1>3, AwaitsFirstKept DEF TimesInOrder
  <2> QED BY <1>1, <2>1 DEF TimesInOrder
<1> QED BY <1>2, <1>3

LEMMA NextTimes ==
  ASSUME Inv, Inv', BookOK, TimesInOrder, MayBlock, Intervals \subseteq {0}, [Next]_vars
  PROVE  TimesInOrder'
<1>0. InOrder(usedTimer, timer) /\ NoIntervals /\ AwaitsFirst /\ MayBlock
  BY DEF TimesInOrder
<1>a. /\ \A i \in Timers : timer[i].time \in Int /\ timer[i].interval \in Nat
      /\ usedTimer \in Seq(Timers) /\ IsInjective(usedTimer)
      /\ ToSet(usedTimer) = {i \in Timers : timer[i].state = "Used"}
      /\ usedTimer # <<>> => Head(usedTimer) \in Timers
      /\ now \in Nat
      /\ "Free" \in States /\ "Destroy" \in States /\ "Action" \in States
  BY TimerTypes DEF States, Inv, TypeOK
<1>1. ASSUME UNCHANGED <<usedTimer, pollTimeout, sampled, timer>>, wakeup => wakeup',
             pc' \in Awaits => pc \in Awaits
      PROVE  TimesInOrder'
  BY <1>1, TimesKept
<1>2. ASSUME pc' \notin Awaits, UNCHANGED <<usedTimer, timer>>
      PROVE  TimesInOrder'
  BY <1>2, TimesKept
<1>3. CASE FireTimer
  <2> DEFINE i == Head(usedTimer)
  <2>1. /\ usedTimer # <<>> /\ timer' = [timer EXCEPT ![i].state = "Action"]
        /\ usedTimer' = Without(usedTimer, i) /\ pc' = "event"
    BY <1>3 DEF FireTimer, EnterAction
  <2>2. i \in Timers
    BY <2>1, <1>a
  <2> HIDE DEF i
  <2>3. \A j \in Timers : timer'[j].time = timer[j].time /\ timer'[j].interval = timer[j].interval
    BY <2>1, <2>2, <1>a, TimerOnlyState
  <2>4. InOrder(usedTimer', timer) /\ usedTimer' \in Seq(Timers)
    BY <2>1, <1>0, <1>a, WithoutInOrder, WithoutList
  <2>5. InOrder(usedTimer', timer')
    BY <2>3, <2>4 DEF InOrder
  <2> QED BY <2>1, <2>3, <2>5, <1>0 DEF TimesInOrder, NoIntervals, AwaitsFirst, Awaits
<1>4. CASE StartDrain
  <2>1. UNCHANGED <<usedTimer, timer>>
    BY <1>4 DEF StartDrain, entries, lists
  <2>2. AwaitsFirst'
    BY <1>4, <2>1, TimeoutComputed DEF AwaitsFirst
  <2> QED BY <2>1, <2>2, <1>0, OrderKept DEF TimesInOrder
<1>5. CASE DrainTimerAction
  <2> DEFINE i == Head(pending).i
  <2>1. i \in Timers
    BY <1>5, DrainingTimer DEF DrainTimerAction
  <2>2. PICK st \in {"Free", "Destroy"} : timer' = [timer EXCEPT ![i].state = st]
    BY <1>5, <2>1, <1>0 DEF DrainTimerAction, NoIntervals
  <2>3. UNCHANGED <<usedTimer, wakeup, sampled>> /\ (pc' \in Awaits => UNCHANGED pollTimeout)
        /\ pc \in Awaits
    BY <1>5, <2>1, <1>0 DEF DrainTimerAction, NoIntervals, Requeue, Awaits, Draining
  <2> HIDE DEF i
  <2>4. \A j \in Timers : timer'[j].time = timer[j].time /\ timer'[j].interval = timer[j].interval
    <3>1. st \in States
      BY <1>a
    <3> QED BY <3>1, <2>1, <2>2, TimerOnlyState
  <2>5. InOrder(usedTimer, timer)' /\ NoIntervals'
    BY <2>3, <2>4, <1>0, OrderKept
  <2>6. AwaitsFirst'
    <3>1. CASE pc' \in Awaits
      BY <3>1, <2>3, <2>4, <1>0, AwaitsFirstKept
    <3>2. CASE pc' \notin Awaits
      BY <3>2 DEF AwaitsFirst
    <3> QED BY <3>1, <3>2
  <2> QED BY <2>5, <2>6 DEF TimesInOrder
<1>6. CASE DrainTimerDestroy
  <2> DEFINE i == Head(pending).i
  <2>1. i \in Timers
    BY <1>6, DrainingTimer DEF DrainTimerDestroy
  <2>2. timer' = [timer EXCEPT ![i].state = "Free"]
        /\ UNCHANGED <<usedTimer, pollTimeout, sampled, wakeup, pc>>
    BY <1>6 DEF DrainTimerDestroy, worker
  <2> HIDE DEF i
  <2>3. \A j \in Timers : timer'[j].time = timer[j].time /\ timer'[j].interval = timer[j].interval
    BY <2>1, <2>2, <1>a, TimerOnlyState
  <2> QED BY <2>2, <2>3, TimesKept
<1>7. CASE NextEvent
  <2>1. CASE DrainSocketUsed \/ DrainSocketDestroy \/ DrainDispatchUsed \/ DrainDispatchAction
    <3>1. pc' = "event" /\ UNCHANGED <<usedTimer, timer>>
      BY <2>1 DEF DrainSocketUsed, DrainSocketDestroy, DrainDispatchUsed,
         DrainDispatchAction, Requeue, entries, lists
    <3> QED BY <3>1, <1>2 DEF Awaits
  <2>2. CASE DrainSocketAction \/ DrainDispatchDone \/ StartCollect \/ CollectUsed \/ CollectFree
             \/ NoEventLeft
    BY <2>2, <1>1 DEF DrainSocketAction, DrainDispatchDone, StartCollect, CollectUsed, CollectFree,
       NoEventLeft, entries, lists, worker, Awaits
  <2> QED BY <2>1, <2>2, <1>3, <1>4, <1>5, <1>6, <1>7 DEF NextEvent
<1>8. ASSUME NEW d \in Delays, NEW v \in Intervals, NEW h, SetTimer(d, v, h) PROVE TimesInOrder'
  <2> DEFINE i == Head(freeTimer)
             p == InsertPosition(usedTimer, timer, now + d)
  <2>1. /\ freeTimer # <<>> /\ usedTimer' = InsertAt(usedTimer, p, i)
        /\ timer' = [timer EXCEPT ![i] =
             [nonce |-> NextNonce(timer[i].nonce), state |-> "Used", interval |-> v,
              time |-> now + d, destroy |-> h, u |-> Len(book) + 1]]
        /\ WakeIfAsleep(p = 1) /\ UNCHANGED <<pollTimeout, sampled, pc>>
    BY <1>8 DEF SetTimer, worker
  <2>2. i \in Timers /\ i \notin ToSet(usedTimer) /\ now + d \in Int /\ v = 0
    <3>1. freeTimer \in Seq(Timers) /\ ToSet(freeTimer) = {j \in Timers : timer[j].state = "Free"}
      BY DEF Inv, TypeOK, ListsMatchStates, TimerLists
    <3>2. i \in ToSet(freeTimer)
      BY <3>1, <2>1, TailList
    <3>3. d \in Int
      BY TimeAssumption
    <3> QED BY <3>1, <3>2, <3>3, <1>a
  <2>3. /\ timer'[i].time = now + d /\ timer'[i].interval = 0
        /\ \A j \in Timers : j # i => timer'[j] = timer[j]
    BY <2>1, <2>2 DEF Inv, TypeOK
  <2> HIDE DEF i
  <2>4. /\ InOrder(InsertAt(usedTimer, p, i), timer')
        /\ p # 1 => usedTimer # <<>> /\ Head(InsertAt(usedTimer, p, i)) = Head(usedTimer)
    <3> DEFINE at == now + d
    <3>1. /\ usedTimer \in Seq(Timers) /\ IsInjective(usedTimer) /\ InOrder(usedTimer, timer)
          /\ i \in Timers /\ i \notin ToSet(usedTimer) /\ at \in Int /\ timer'[i].time = at
          /\ \A j \in Timers : timer[j].time \in Int /\ (j # i => timer'[j].time = timer[j].time)
          /\ p = InsertPosition(usedTimer, timer, at)
      BY <2>2, <2>3, <1>0, <1>a
    <3> HIDE DEF p, at
    <3> QED BY ONLY <3>1, InsertInOrder
  <2> HIDE DEF p
  <2>5. NoIntervals'
    BY <2>3, <1>0 DEF NoIntervals
  <2>6. AwaitsFirst'
    <3> SUFFICES ASSUME pc' \in Awaits, ~wakeup'
                 PROVE  pollTimeout' # -1
                        /\ sampled' + pollTimeout' <= timer'[Head(usedTimer')].time
      BY DEF AwaitsFirst
    <3>1. pollTimeout # 0 /\ pc \in Awaits
      BY <2>1, <1>0 DEF MayBlock
    <3>2. p # 1 /\ ~wakeup
      BY <3>1, <2>1 DEF WakeIfAsleep
    <3>3. usedTimer # <<>> /\ Head(usedTimer') = Head(usedTimer) /\ Head(usedTimer) \in Timers
      BY <3>2, <2>1, <2>4, <1>a
    <3>4. Head(usedTimer) # i
      <4>1. Head(usedTimer) \in ToSet(usedTimer)
        BY <3>3, <1>a, TailList
      <4> QED BY <4>1, <2>2
    <3> QED BY <3>1, <3>2, <3>3, <3>4, <2>1, <2>3, <1>0 DEF AwaitsFirst
  <2> QED BY <2>1, <2>4, <2>5, <2>6 DEF TimesInOrder
<1>9. ASSUME NEW u \in DOMAIN book, NEW b, ClearTimer(u, b) PROVE TimesInOrder'
  <2> DEFINE i == book[u].i
             w == Without(usedTimer, i)
  <2>1. i \in Timers
    BY <1>9 DEF BookOK, ClearTimer, TimerMatches
  <2>2. UNCHANGED <<pollTimeout, sampled, pc>>
    BY <1>9 DEF ClearTimer, worker
  <2>3. CASE UNCHANGED <<timer, usedTimer, wakeup>>
    BY <2>2, <2>3, <1>1
  <2>4. CASE \E st \in {"Free", "Destroy"} :
               /\ timer' = [timer EXCEPT ![i].state = st] /\ usedTimer' = w
               /\ wakeup => wakeup'
    <3>1. PICK st \in {"Free", "Destroy"} : timer' = [timer EXCEPT ![i].state = st]
      BY <2>4
    <3>2. \A j \in Timers : timer'[j].time = timer[j].time /\ timer'[j].interval = timer[j].interval
      <4>1. st \in States
        BY <1>a
      <4> QED BY <3>1, <4>1, <2>1, TimerOnlyState
    <3>3. /\ usedTimer' \in Seq(Timers) /\ InOrder(usedTimer', timer)
          /\ usedTimer' # <<>> => /\ usedTimer # <<>>
                                  /\ timer[Head(usedTimer)].time <= timer[Head(usedTimer')].time
      <4>1. /\ IsInjective(usedTimer) /\ usedTimer \in Seq(Timers) /\ InOrder(usedTimer, timer)
            /\ \A j \in Timers : timer[j].time \in Int
        BY <1>0, <1>a
      <4>2. w \in Seq(Timers)
        BY <4>1, WithoutList
      <4>3. InOrder(w, timer)
        BY <4>1, WithoutInOrder
      <4>4. w # <<>> => /\ usedTimer # <<>>
                        /\ timer[Head(usedTimer)].time <= timer[Head(w)].time
        BY <4>1, WithoutInOrder
      <4>5. usedTimer' = w
        BY <2>4
      <4> HIDE DEF w
      <4> QED BY <4>2, <4>3, <4>4, <4>5
    <3>4. InOrder(usedTimer', timer') /\ NoIntervals'
      BY <3>2, <3>3, <1>0 DEF InOrder, NoIntervals
    <3>5. AwaitsFirst'
      <4> SUFFICES ASSUME pc' \in Awaits, ~wakeup', usedTimer' # <<>>
                   PROVE  pollTimeout' # -1
                          /\ sampled' + pollTimeout' <= timer'[Head(usedTimer')].time
        BY DEF AwaitsFirst
      <4>1. pollTimeout # -1 /\ sampled + pollTimeout <= timer[Head(usedTimer)].time
        BY <3>3, <2>2, <2>4, <1>0 DEF AwaitsFirst
      <4>2. Head(usedTimer) \in Timers /\ Head(usedTimer') \in Timers
        BY <3>3, <1>a
      <4>3. pollTimeout \in Int /\ sampled \in Int
        BY DEF Inv, TypeOK
      <4> QED BY <4>1, <4>2, <4>3, <3>2, <3>3, <2>2, <1>a
    <3> QED BY <3>4, <3>5 DEF TimesInOrder
  <2>5. \/ UNCHANGED <<timer, usedTimer, wakeup>>
        \/ \E st \in {"Free", "Destroy"} :
             /\ timer' = [timer EXCEPT ![i].state = st] /\ usedTimer' = w
             /\ wakeup => wakeup'
    <3> HIDE DEF w
    <3>1. CASE timer' = [timer EXCEPT ![i].state = "Free"] /\ usedTimer' = w /\ UNCHANGED wakeup
      BY <3>1
    <3>2. CASE timer' = [timer EXCEPT ![i].state = "Destroy"] /\ usedTimer' = w
               /\ WakeIfAsleep(TRUE)
      BY <3>2 DEF WakeIfAsleep
    <3> QED BY <3>1, <3>2, <1>9 DEF ClearTimer, w
  <2> QED BY <2>3, <2>4, <2>5
<1>10. CASE Callers
  <2>1. ASSUME NEW fd, NEW h, AddSocket(fd, h) PROVE TimesInOrder'
    BY <2>1, <1>1 DEF AddSocket, worker, WakeIfAsleep
  <2>2. ASSUME NEW fd, RemoveSocket(fd) PROVE TimesInOrder'
    <3>1. UNCHANGED <<usedTimer, pollTimeout, sampled, timer, pc>>
      BY <2>2 DEF RemoveSocket, worker
    <3>2. wakeup' = wakeup \/ WakeIfAsleep(TRUE)
      BY <2>2 DEF RemoveSocket
    <3>3. wakeup => wakeup'
      BY <3>2, Zenon DEF WakeIfAsleep
    <3> QED BY <3>1, <3>3, <1>1
  <2>3. ASSUME NEW h, Dispatch(h) PROVE TimesInOrder'
    BY <2>3, <1>1 DEF Dispatch, worker, WakeIfAsleep
  <2>4. CASE Wakeup
    BY <2>4, <1>1 DEF Wakeup, entries, lists, worker
  <2> QED BY <2>1, <2>2, <2>3, <2>4, <1>8, <1>9, <1>10 DEF Callers
<1>11. CASE Call \/ Return \/ PollWoken \/ PollReady \/ Stop \/ Destroy
  BY <1>2, <1>11 DEF Call, Return, PollWoken, PollReady, PollReturn, Stop, Destroy, entries, lists,
     Awaits
<1>12. CASE PollEnter \/ Tick \/ UNCHANGED vars
  BY <1>1, <1>12 DEF PollEnter, Tick, entries, lists, worker, vars, Awaits
<1> QED BY <1>7, <1>10, <1>11, <1>12 DEF Next, Worker

LEMMA NextSleep ==
  ASSUME Inv, Inv', BookOK, SleepInv, Intervals \subseteq {0}, [Next]_vars
  PROVE  SleepInv'
BY NextTimes, NextMayBlock DEF SleepInv, TimesInOrder, NoIntervals

LEMMA InitSleep == Init => SleepInv
BY DEF Init, SleepInv, InOrder, MayBlock, AwaitsFirst, Awaits

(* Without interval timers, which are re-armed after the timeout is computed, *)
(* the worker never sleeps past the first timer unless it has been woken,     *)
(* whoever sets and clears timers meanwhile.                                  *)
THEOREM SleepEndsInTime ==
  ASSUME Intervals \subseteq {0}
  PROVE  Spec => []SleepCoversTimers
<1>1. LooperInv /\ LooperInv' /\ SleepInv /\ [Next]_vars => SleepInv'
  BY NextSleep DEF LooperInv
<1>2. Init => SleepInv
  BY InitSleep
<1>3. SleepInv => SleepCoversTimers
  BY DEF SleepInv, AwaitsFirst, SleepCoversTimers, Awaits
<1>4. Spec => []LooperInv
  BY LooperInvariant
<1> QED BY <1>1, <1>2, <1>3, <1>4, PTL DEF Spec

-----------------------------------------------------------------------------
(* What a step does to the records of the registrations. *)
Fixed(r, s) == /\ r.kind = s.kind /\ r.i = s.i /\ r.nonce = s.nonce /\ r.fd = s.fd
               /\ r.due = s.due /\ r.interval = s.interval /\ r.destroy = s.destroy

LEMMA BookDomain ==
  ASSUME TypeOK
  PROVE  /\ DOMAIN book = 1 .. Len(book) /\ Len(book) \in Nat
         /\ \A u \in DOMAIN book : book[u] \in Registration
BY DEF TypeOK

LEMMA RegistrationFields ==
  ASSUME NEW r \in Registration, NEW x
  PROVE  /\ Fixed([r EXCEPT !.ran = x], r) /\ [r EXCEPT !.ran = x].ran = x
         /\ [r EXCEPT !.ran = x].freed = r.freed /\ [r EXCEPT !.ran = x].cancelled = r.cancelled
         /\ Fixed([r EXCEPT !.freed = x], r) /\ [r EXCEPT !.freed = x].freed = x
         /\ [r EXCEPT !.freed = x].ran = r.ran /\ [r EXCEPT !.freed = x].cancelled = r.cancelled
         /\ Fixed([r EXCEPT !.cancelled = x], r) /\ [r EXCEPT !.cancelled = x].cancelled = x
         /\ [r EXCEPT !.cancelled = x].ran = r.ran /\ [r EXCEPT !.cancelled = x].freed = r.freed
         /\ Fixed(r, r)
BY Zenon DEF Registration, Fixed

LEMMA BookRan ==
  ASSUME TypeOK, NEW v, book' = Ran(v)
  PROVE  /\ DOMAIN book' = DOMAIN book
         /\ \A u \in DOMAIN book :
              /\ Fixed(book'[u], book[u])
              /\ book'[u].freed = book[u].freed /\ book'[u].cancelled = book[u].cancelled
              /\ book'[u].ran = IF u = v THEN Bump(book[u].ran) ELSE book[u].ran
<1> DEFINE r == [book[v] EXCEPT !.ran = Bump(@)]
<1>0. r = [book[v] EXCEPT !.ran = Bump(book[v].ran)]
  OBVIOUS
<1>1. book' = [book EXCEPT ![v] = r]
  <2>1. Ran(v) = [book EXCEPT ![v] = r]
    BY DEF Ran
  <2> QED BY <2>1
<1> HIDE DEF r
<1>2. v \in DOMAIN book => /\ Fixed(r, book[v]) /\ r.ran = Bump(book[v].ran)
                           /\ r.freed = book[v].freed /\ r.cancelled = book[v].cancelled
  <2> SUFFICES ASSUME book[v] \in Registration
               PROVE  /\ Fixed(r, book[v]) /\ r.ran = Bump(book[v].ran)
                      /\ r.freed = book[v].freed /\ r.cancelled = book[v].cancelled
    BY BookDomain
  <2> HIDE DEF Bump, Registration, Fixed
  <2> QED BY <1>0, RegistrationFields
<1>3. \A u \in DOMAIN book : Fixed(book[u], book[u])
  BY DEF Fixed
<1> QED BY <1>1, <1>2, <1>3, BookDomain

LEMMA BookFreed ==
  ASSUME TypeOK, NEW v, book' = Freed(v)
  PROVE  /\ DOMAIN book' = DOMAIN book
         /\ \A u \in DOMAIN book :
              /\ Fixed(book'[u], book[u])
              /\ book'[u].ran = book[u].ran /\ book'[u].cancelled = book[u].cancelled
              /\ book'[u].freed = IF u = v THEN Bump(book[u].freed) ELSE book[u].freed
<1> DEFINE r == [book[v] EXCEPT !.freed = Bump(@)]
<1>0. r = [book[v] EXCEPT !.freed = Bump(book[v].freed)]
  OBVIOUS
<1>1. book' = [book EXCEPT ![v] = r]
  <2>1. Freed(v) = [book EXCEPT ![v] = r]
    BY DEF Freed
  <2> QED BY <2>1
<1> HIDE DEF r
<1>2. v \in DOMAIN book => /\ Fixed(r, book[v]) /\ r.freed = Bump(book[v].freed)
                           /\ r.ran = book[v].ran /\ r.cancelled = book[v].cancelled
  <2> SUFFICES ASSUME book[v] \in Registration
               PROVE  /\ Fixed(r, book[v]) /\ r.freed = Bump(book[v].freed)
                      /\ r.ran = book[v].ran /\ r.cancelled = book[v].cancelled
    BY BookDomain
  <2> HIDE DEF Bump, Registration, Fixed
  <2> QED BY <1>0, RegistrationFields
<1>3. \A u \in DOMAIN book : Fixed(book[u], book[u])
  BY DEF Fixed
<1> QED BY <1>1, <1>2, <1>3, BookDomain

LEMMA BookCancelled ==
  ASSUME TypeOK, NEW v, book' = [book EXCEPT ![v].cancelled = TRUE]
  PROVE  /\ DOMAIN book' = DOMAIN book
         /\ \A u \in DOMAIN book :
              /\ Fixed(book'[u], book[u])
              /\ book'[u].ran = book[u].ran /\ book'[u].freed = book[u].freed
              /\ u = v => book'[u].cancelled
              /\ u # v => book'[u].cancelled = book[u].cancelled
<1> DEFINE r == [book[v] EXCEPT !.cancelled = TRUE]
<1>1. book' = [book EXCEPT ![v] = r]
  OBVIOUS
<1>2. v \in DOMAIN book => /\ Fixed(r, book[v]) /\ r.cancelled
                           /\ r.ran = book[v].ran /\ r.freed = book[v].freed
  BY BookDomain, RegistrationFields
<1> HIDE DEF r
<1>3. \A u \in DOMAIN book : Fixed(book[u], book[u])
  BY DEF Fixed
<1> QED BY <1>1, <1>2, <1>3, BookDomain

LEMMA BookGrown ==
  ASSUME TypeOK, NEW r, book' = Append(book, r)
  PROVE  /\ DOMAIN book' = DOMAIN book \cup {Len(book) + 1} /\ Len(book) + 1 \notin DOMAIN book
         /\ Len(book') = Len(book) + 1
         /\ book'[Len(book) + 1] = r
         /\ \A u \in DOMAIN book : book'[u] = book[u]
<1>1. book \in Seq(Registration) /\ Len(book) \in Nat /\ DOMAIN book = 1 .. Len(book)
  BY BookDomain DEF TypeOK
<1>2. /\ Len(book') = Len(book) + 1 /\ DOMAIN book' = 1 .. Len(book) + 1
      /\ book'[Len(book) + 1] = r
  BY <1>1
<1>3. ASSUME NEW u \in DOMAIN book PROVE book'[u] = book[u]
  BY <1>1
<1> QED BY <1>1, <1>2, <1>3

(* A new registration has been neither called, released nor cancelled. *)
Fresh(r) == r.ran = 0 /\ r.freed = 0 /\ ~r.cancelled

LEMMA SetTimerBook ==
  ASSUME NEW d, NEW v, NEW h, SetTimer(d, v, h)
  PROVE  \E r : /\ book' = Append(book, r) /\ Fresh(r)
                /\ r.kind = "timer" /\ r.i = Head(freeTimer) /\ r.due = now + d
                /\ r.interval = v /\ r.destroy = h
                /\ r.nonce = NextNonce(timer[Head(freeTimer)].nonce)
<1> DEFINE i == Head(freeTimer)
           n == NextNonce(timer[i].nonce)
           r == [kind |-> "timer", i |-> i, nonce |-> n, fd |-> WakeupFd, due |-> now + d,
                 interval |-> v, destroy |-> h, cancelled |-> FALSE, ran |-> 0, freed |-> 0]
<1>1. book' = Append(book, r)
  BY DEF SetTimer
<1>2. /\ r.ran = 0 /\ r.freed = 0 /\ ~r.cancelled /\ r.kind = "timer" /\ r.i = i
      /\ r.due = now + d /\ r.interval = v /\ r.destroy = h /\ r.nonce = n
  OBVIOUS
<1> HIDE DEF r, n
<1> WITNESS r
<1> QED BY <1>1, <1>2 DEF Fresh, n

LEMMA AddSocketBook ==
  ASSUME NEW fd, NEW h, AddSocket(fd, h)
  PROVE  \E r : /\ book' = Append(book, r) /\ Fresh(r)
                /\ r.kind = "socket" /\ r.fd = fd /\ r.destroy = h
<1> DEFINE i == Head(freeSocket)
           n == NextNonce(socket[i].nonce)
           r == [kind |-> "socket", i |-> i, nonce |-> n, fd |-> fd, due |-> 0,
                 interval |-> 0, destroy |-> h, cancelled |-> FALSE, ran |-> 0, freed |-> 0]
<1>1. book' = Append(book, r)
  BY DEF AddSocket
<1>2. /\ r.ran = 0 /\ r.freed = 0 /\ ~r.cancelled /\ r.kind = "socket" /\ r.fd = fd
      /\ r.destroy = h
  OBVIOUS
<1> HIDE DEF r
<1> QED BY <1>1, <1>2 DEF Fresh

LEMMA DispatchBook ==
  ASSUME NEW h, Dispatch(h)
  PROVE  \E r : /\ book' = Append(book, r) /\ Fresh(r) /\ r.kind = "dispatch"
                /\ r.i = Head(freeDispatch) /\ r.destroy = h
<1> DEFINE i == Head(freeDispatch)
           n == NextNonce(dispatched[i].nonce)
           r == [kind |-> "dispatch", i |-> i, nonce |-> n, fd |-> WakeupFd, due |-> 0,
                 interval |-> 0, destroy |-> h, cancelled |-> FALSE, ran |-> 0, freed |-> 0]
<1>1. book' = Append(book, r)
  BY DEF Dispatch
<1>2. /\ r.ran = 0 /\ r.freed = 0 /\ ~r.cancelled /\ r.kind = "dispatch" /\ r.i = i
      /\ r.destroy = h
  OBVIOUS
<1> HIDE DEF r
<1> QED BY <1>1, <1>2 DEF Fresh

BookMoves ==
  /\ \A u \in DOMAIN book : u \in DOMAIN book' /\ Fixed(book'[u], book[u])
  /\ \A u \in DOMAIN book' : u \notin DOMAIN book => Fresh(book'[u])
  /\ ~Call => \A u \in DOMAIN book : book'[u].ran = book[u].ran
  /\ ~Call /\ ~Destroy => \A u \in DOMAIN book : book'[u].freed = book[u].freed
  /\ ~Callers => \A u \in DOMAIN book : book'[u].cancelled = book[u].cancelled

LEMMA BookUnchanged ==
  ASSUME UNCHANGED book
  PROVE  BookMoves
BY DEF BookMoves, Fixed

LEMMA BookGrows ==
  ASSUME TypeOK, Callers, NEW r, book' = Append(book, r), Fresh(r)
  PROVE  BookMoves
<1>1. /\ DOMAIN book' = DOMAIN book \cup {Len(book) + 1}
      /\ book'[Len(book) + 1] = r /\ \A u \in DOMAIN book : book'[u] = book[u]
  BY BookGrown
<1> QED BY <1>1 DEF BookMoves, Fixed

LEMMA NextBookMoves ==
  ASSUME Inv, [Next]_vars
  PROVE  BookMoves
<1>0. TypeOK
  BY DEF Inv
<1>1. CASE Callers
  <2>1. ASSUME NEW d, NEW v, NEW h, SetTimer(d, v, h) PROVE BookMoves
    BY <1>0, <1>1, <2>1, SetTimerBook, BookGrows
  <2>2. ASSUME NEW fd, NEW h, AddSocket(fd, h) PROVE BookMoves
    BY <1>0, <1>1, <2>2, AddSocketBook, BookGrows
  <2>3. ASSUME NEW h, Dispatch(h) PROVE BookMoves
    BY <1>0, <1>1, <2>3, DispatchBook, BookGrows
  <2>4. ASSUME NEW v, book' = [book EXCEPT ![v].cancelled = TRUE] PROVE BookMoves
    BY <1>0, <1>1, <2>4, BookCancelled DEF BookMoves
  <2>5. ASSUME NEW u, NEW b, ClearTimer(u, b) PROVE BookMoves
    BY <2>4, <2>5 DEF ClearTimer
  <2>6. ASSUME NEW fd, RemoveSocket(fd) PROVE BookMoves
    BY <2>4, <2>6, BookUnchanged DEF RemoveSocket
  <2>7. CASE Wakeup
    BY <2>7, BookUnchanged DEF Wakeup
  <2> QED BY <1>1, <2>1, <2>2, <2>3, <2>5, <2>6, <2>7 DEF Callers
<1>2. CASE Call
  <2>1. PICK u : book' = book \/ book' = Ran(u) \/ book' = Freed(u)
    BY <1>2 DEF Call
  <2>2. CASE book' = Ran(u)
    BY <1>0, <1>2, <2>2, BookRan DEF BookMoves
  <2>3. CASE book' = Freed(u)
    BY <1>0, <1>2, <2>3, BookFreed DEF BookMoves
  <2> QED BY <2>1, <2>2, <2>3, BookUnchanged
<1>3. CASE Destroy
  <2> DEFINE n(u) == IF book[u].freed + DestroyCalls(u) < 3 THEN book[u].freed + DestroyCalls(u) ELSE 3
  <2>1. book' = [u \in DOMAIN book |-> [book[u] EXCEPT !.freed = n(u)]]
    BY <1>3 DEF Destroy
  <2> HIDE DEF n
  <2>2. DOMAIN book' = DOMAIN book
    BY <2>1
  <2>3. ASSUME NEW u \in DOMAIN book
        PROVE  /\ Fixed(book'[u], book[u])
               /\ book'[u].ran = book[u].ran /\ book'[u].cancelled = book[u].cancelled
    <3>1. book'[u] = [book[u] EXCEPT !.freed = n(u)] /\ book[u] \in Registration
      BY <1>0, <2>1, BookDomain
    <3> HIDE DEF Registration, Fixed
    <3>2. LET r == [book[u] EXCEPT !.freed = n(u)] IN
          Fixed(r, book[u]) /\ r.ran = book[u].ran /\ r.cancelled = book[u].cancelled
      BY <3>1, RegistrationFields
    <3> QED BY <3>1, <3>2
  <2> QED BY <1>3, <2>2, <2>3 DEF BookMoves
<1>4. CASE ~Callers /\ ~Call /\ ~Destroy
  <2>1. UNCHANGED book
    <3>1. CASE NextEvent
      BY <3>1 DEF NextEvent, FireTimer, StartDrain, DrainTimerAction, DrainTimerDestroy,
         DrainSocketUsed, DrainSocketAction, DrainSocketDestroy, DrainDispatchUsed,
         DrainDispatchAction, DrainDispatchDone, StartCollect, CollectUsed,
         CollectFree, NoEventLeft
    <3>2. CASE Return \/ PollEnter \/ PollWoken \/ PollReady \/ Stop \/ Tick \/ UNCHANGED vars
      BY <3>2 DEF Return, PollEnter, PollWoken, PollReady, PollReturn, Stop, Tick, vars
    <3> QED BY <1>4, <3>1, <3>2 DEF Next, Worker
  <2> QED BY <2>1, BookUnchanged
<1> QED BY <1>1, <1>2, <1>3, <1>4

(* What performOnce2 does with the event it was handed: the record the entry   *)
(* belongs to by then is called or released.                                   *)
LEMMA CallEffects ==
  ASSUME Inv, Call
  PROVE  /\ pc = "event" /\ pc' = "callback"
         /\ \A u \in DOMAIN book :
              /\ book'[u].freed # book[u].freed =>
                   /\ book'[u].freed = Bump(book[u].freed)
                   /\ \/ \E i \in Timers : HandedOut("timerDestroy", i) /\ timer[i].u = u
                      \/ \E i \in Sockets : HandedOut("socketDestroy", i) /\ socket[i].u = u
                      \/ \E i \in Dispatches : HandedOut("dispatchDestroy", i) /\ dispatched[i].u = u
              /\ book'[u].ran # book[u].ran =>
                   /\ book'[u].ran = Bump(book[u].ran)
                   /\ \/ \E i \in Timers : HandedOut("timerAction", i) /\ timer[i].u = u
                      \/ \E i \in Sockets : HandedOut("socketAction", i) /\ socket[i].u = u
                      \/ \E i \in Dispatches : HandedOut("dispatchAction", i) /\ dispatched[i].u = u
<1> DEFINE v == UserdataOf(cur)
<1>0. TypeOK /\ pc = "event" /\ pc' = "callback"
  BY DEF Inv, Call
<1>1. \/ v = 0 /\ UNCHANGED book
      \/ IsAction(cur) /\ book' = Ran(v)
      \/ ~IsAction(cur) /\ book' = Freed(v)
  BY DEF Call
<1>2. \/ /\ cur.event \in {"timerAction", "timerDestroy"} /\ cur.i \in Timers
         /\ v = timer[cur.i].u
      \/ /\ cur.event \in {"socketAction", "socketDestroy"} /\ cur.i \in Sockets
         /\ v = socket[cur.i].u
      \/ /\ cur.event \in {"dispatchAction", "dispatchDestroy"} /\ cur.i \in Dispatches
         /\ v = dispatched[cur.i].u
  BY <1>0 DEF Inv, EventOK, UserdataOf
<1> HIDE DEF v
<1>3. SUFFICES ASSUME NEW u \in DOMAIN book
      PROVE   /\ book'[u].freed # book[u].freed =>
                   /\ book'[u].freed = Bump(book[u].freed)
                   /\ \/ \E i \in Timers : HandedOut("timerDestroy", i) /\ timer[i].u = u
                      \/ \E i \in Sockets : HandedOut("socketDestroy", i) /\ socket[i].u = u
                      \/ \E i \in Dispatches : HandedOut("dispatchDestroy", i) /\ dispatched[i].u = u
              /\ book'[u].ran # book[u].ran =>
                   /\ book'[u].ran = Bump(book[u].ran)
                   /\ \/ \E i \in Timers : HandedOut("timerAction", i) /\ timer[i].u = u
                      \/ \E i \in Sockets : HandedOut("socketAction", i) /\ socket[i].u = u
                      \/ \E i \in Dispatches : HandedOut("dispatchAction", i) /\ dispatched[i].u = u
  BY <1>0
<1>4. CASE UNCHANGED book
  BY <1>4
<1>5. CASE IsAction(cur) /\ book' = Ran(v)
  <2>1. /\ book'[u].freed = book[u].freed
        /\ book'[u].ran = IF u = v THEN Bump(book[u].ran) ELSE book[u].ran
    BY <1>0, <1>5, BookRan
  <2> QED BY <2>1, <1>0, <1>2, <1>5 DEF IsAction, HandedOut
<1>6. CASE ~IsAction(cur) /\ book' = Freed(v)
  <2>1. /\ book'[u].ran = book[u].ran
        /\ book'[u].freed = IF u = v THEN Bump(book[u].freed) ELSE book[u].freed
    BY <1>0, <1>6, BookFreed
  <2> QED BY <2>1, <1>0, <1>2, <1>6 DEF IsAction, HandedOut
<1> QED BY <1>1, <1>4, <1>5, <1>6

-----------------------------------------------------------------------------
(* Timers and their registrations. *)
TimerHist == TimerOwner /\ TimerNotFreed
TimerEvents == {"timerAction", "timerDestroy"}

TimerStep ==
  \/ FireTimer \/ DrainTimerAction \/ DrainTimerDestroy
  \/ \E d \in Delays, v \in Intervals, h \in Destroys : SetTimer(d, v, h)
  \/ \E u \in DOMAIN book, b \in BOOLEAN : ClearTimer(u, b)

\* A step that leaves worker where it is hands no event out.
LEMMA SameEvent ==
  ASSUME UNCHANGED worker
  PROVE  \A e, i : HandedOut(e, i)' <=> HandedOut(e, i)
BY DEF HandedOut, worker

LEMMA NoTimerStep ==
  ASSUME [Next]_vars, ~TimerStep
  PROVE  /\ UNCHANGED timer
         /\ \A e \in TimerEvents, i \in Timers : HandedOut(e, i)' => HandedOut(e, i)
<1>1. CASE NextEvent
  <2>1. UNCHANGED timer
    BY <1>1 DEF NextEvent, TimerStep, StartDrain,
       DrainSocketUsed, DrainSocketAction, DrainSocketDestroy, DrainDispatchUsed,
       DrainDispatchAction, DrainDispatchDone, StartCollect, CollectUsed,
       CollectFree, NoEventLeft, entries
  <2>2. pc' # "event" \/ cur'.event \notin TimerEvents
    <3>1. CASE StartDrain \/ StartCollect \/ CollectUsed \/ CollectFree \/ NoEventLeft
      BY <3>1 DEF StartDrain, StartCollect, CollectUsed, CollectFree, NoEventLeft, Draining, worker
    <3>2. CASE DrainSocketUsed
      <4>1. Requeue("socketAction")
        BY <3>2, Zenon DEF DrainSocketUsed
      <4> QED BY <4>1 DEF Requeue, Event, TimerEvents
    <3>3. CASE DrainSocketAction
      BY <3>3 DEF DrainSocketAction, Draining, worker
    <3>4. CASE DrainSocketDestroy
      BY <3>4 DEF DrainSocketDestroy, Event, worker, TimerEvents
    <3>5. CASE DrainDispatchUsed
      <4>1. Requeue("dispatchAction")
        BY <3>5, Zenon DEF DrainDispatchUsed
      <4> QED BY <4>1 DEF Requeue, Event, TimerEvents
    <3>6. CASE DrainDispatchAction
      <4>1. Requeue("dispatchDestroy")
        BY <3>6, Zenon DEF DrainDispatchAction
      <4> QED BY <4>1 DEF Requeue, Event, TimerEvents
    <3>7. CASE DrainDispatchDone
      BY <3>7 DEF DrainDispatchDone, Draining, worker
    <3> QED
      BY <1>1, <3>1, <3>2, <3>3, <3>4, <3>5, <3>6, <3>7
         DEF NextEvent, TimerStep
  <2> QED BY <2>1, <2>2 DEF HandedOut
<1>2. CASE Callers
  <2>1. UNCHANGED timer
    BY <1>2 DEF Callers, TimerStep, AddSocket, RemoveSocket, Dispatch, Wakeup, entries
  <2> QED BY <2>1, <1>2, CallersKeep, SameEvent
<1>3. CASE Tick \/ UNCHANGED vars
  BY <1>3, SameEvent DEF Tick, entries, worker, vars
<1>4. CASE Call \/ Return \/ PollEnter \/ PollWoken \/ PollReady \/ Stop \/ Destroy
  BY <1>4 DEF Call, Return, PollEnter, PollWoken, PollReady, PollReturn, Stop, Destroy,
     entries, HandedOut
<1> QED BY <1>1, <1>2, <1>3, <1>4 DEF Next, Worker

(* Entries keep what they were given, nothing is armed again, and nothing is  *)
(* handed out but what was armed.                                              *)
LEMMA TimerHistKept ==
  ASSUME Inv, Inv', BookMoves, TimerHist,
         \A i \in Timers :
           /\ timer'[i].u = timer[i].u /\ timer'[i].destroy = timer[i].destroy
           /\ timer'[i].interval = timer[i].interval
           /\ timer'[i].state # timer[i].state =>
                /\ timer'[i].state \in Armed => timer[i].state \in Armed
                /\ timer'[i].state = "Destroy" => timer[i].destroy
           /\ timer'[i].state \in Armed \/ HandedOut("timerDestroy", i)' \/ HandedOut("timerAction", i)'
                => book'[timer[i].u].freed = book[timer[i].u].freed
           /\ HandedOut("timerDestroy", i)' =>
                /\ timer'[i].state = "Destroy"
                /\ HandedOut("timerDestroy", i) \/ timer[i].state \in Armed
           /\ HandedOut("timerAction", i)' =>
                HandedOut("timerAction", i) \/ timer[i].state \in Armed
  PROVE  TimerHist'
<1>0. \A i \in Timers : timer'[i].state \in States
  BY DEF Inv, TypeOK, TimerEntry
<1>1. TimerOwner'
  <2> SUFFICES ASSUME NEW i \in Timers
               PROVE  /\ timer'[i].state # "Free" => timer'[i].u # 0
                      /\ timer'[i].state = "Destroy" => timer'[i].destroy
                      /\ timer'[i].destroy => timer'[i].u # 0
                      /\ timer'[i].u # 0 =>
                           /\ timer'[i].u \in DOMAIN book'
                           /\ book'[timer'[i].u].kind = "timer" /\ book'[timer'[i].u].i = i
                           /\ book'[timer'[i].u].interval = timer'[i].interval
                           /\ book'[timer'[i].u].destroy = timer'[i].destroy
    BY DEF TimerOwner
  <2>1. timer'[i].u # 0 =>
          /\ timer'[i].u \in DOMAIN book'
          /\ book'[timer'[i].u].kind = "timer" /\ book'[timer'[i].u].i = i
          /\ book'[timer'[i].u].interval = timer'[i].interval
          /\ book'[timer'[i].u].destroy = timer'[i].destroy
    BY DEF TimerHist, TimerOwner, BookMoves, Fixed
  <2>2. timer'[i].state = "Destroy" => timer'[i].destroy
    BY DEF TimerHist, TimerOwner
  <2>3. timer'[i].destroy => timer'[i].u # 0
    BY DEF TimerHist, TimerOwner
  <2>4. timer'[i].state # "Free" => timer'[i].u # 0
    BY <1>0, <2>2, <2>3 DEF TimerHist, TimerOwner, Armed, States
  <2> QED BY <2>1, <2>2, <2>3, <2>4
<1>2. TimerNotFreed'
  <2> SUFFICES ASSUME NEW i \in Timers
               PROVE  /\ timer'[i].state \in Armed => book'[timer'[i].u].freed = 0
                      /\ HandedOut("timerDestroy", i)' =>
                           timer'[i].state = "Destroy" /\ book'[timer'[i].u].freed = 0
                      /\ HandedOut("timerAction", i)' =>
                           timer'[i].u # 0 /\ book'[timer'[i].u].freed = 0
    BY DEF TimerNotFreed, Armed
  <2>1. timer[i].state \in Armed => timer[i].u # 0 /\ book[timer[i].u].freed = 0
    BY DEF TimerHist, TimerNotFreed, TimerOwner, Armed
  <2>2. timer'[i].state \in Armed => timer[i].state \in Armed
    OBVIOUS
  <2> QED BY <2>1, <2>2 DEF TimerHist, TimerNotFreed
<1> QED BY <1>1, <1>2 DEF TimerHist

(* What the actions on a timer's entry do to it. *)
TimerKeptBut(i) ==
  /\ i \in Timers
  /\ \A j \in Timers :
       /\ timer'[j].u = timer[j].u /\ timer'[j].destroy = timer[j].destroy
       /\ timer'[j].interval = timer[j].interval /\ timer'[j].nonce = timer[j].nonce
       /\ timer[j].time <= timer'[j].time
       /\ j # i => timer'[j].state = timer[j].state

\* The first loop of nextEvent, with a timer whose action was called.
TimerDrainedAt(i) ==
  /\ TimerKeptBut(i) /\ timer[i].state = "Action"
  /\ \/ timer'[i].state = "Used" /\ timer[i].interval # 0 /\ pc' # "event"
     \/ timer'[i].state = "Free" /\ pc' # "event"
     \/ timer'[i].state = "Destroy" /\ timer[i].destroy /\ cur' = Event("timerDestroy", i)

\* clearTimer, whose identifier may be a stale one.
TimerClearedAt(i) ==
  /\ TimerKeptBut(i)
  /\ timer[i].state = "Destroy" => timer'[i].state = "Destroy"
  /\ \/ timer'[i].state = "Free"
     \/ timer'[i].state = "Destroy" /\ (timer[i].destroy \/ timer[i].state = "Destroy")

\* setTimer, with the first free entry.
TimerSetAt(i, d, v, h) ==
  /\ i \in Timers /\ timer[i].state = "Free"
  /\ \A j \in Timers : j # i => timer'[j] = timer[j]
  /\ timer'[i].state = "Used" /\ timer'[i].u = Len(book) + 1 /\ timer'[i].destroy = h
  /\ timer'[i].interval = v /\ timer'[i].time = now + d
  /\ timer'[i].nonce = NextNonce(timer[i].nonce)

LEMMA TimerKept ==
  ASSUME Inv, NEW i \in Timers, NEW st \in States, timer' = [timer EXCEPT ![i].state = st]
  PROVE  TimerKeptBut(i) /\ timer'[i].state = st
<1>1. \A j \in Timers : timer[j].time \in Int
  BY TimerTypes
<1>2. timer \in [Timers -> TimerEntry]
  BY DEF Inv, TypeOK
<1>3. \A j \in Timers : j # i => timer'[j] = timer[j]
  BY <1>2
<1>4. timer'[i] = [timer[i] EXCEPT !.state = st]
  BY <1>2
<1>5. timer[i] \in TimerEntry
  BY <1>2
<1> QED BY <1>1, <1>3, <1>4, <1>5 DEF TimerKeptBut, TimerEntry

LEMMA TimerDrained ==
  ASSUME Inv, DrainTimerAction
  PROVE  TimerDrainedAt(Head(pending).i)
<1> DEFINE i == Head(pending).i
<1>1. i \in Timers /\ timer[i].state = "Action" /\ pc = "drain"
  BY DrainingTimer DEF DrainTimerAction, Draining
<1>2. \/ /\ timer[i].interval # 0 /\ UNCHANGED pc
         /\ timer' = [timer EXCEPT ![i].state = "Used", ![i].time = @ + timer[i].interval]
      \/ timer' = [timer EXCEPT ![i].state = "Free"] /\ UNCHANGED pc
      \/ timer' = [timer EXCEPT ![i].state = "Destroy"] /\ timer[i].destroy
         /\ cur' = Event("timerDestroy", i)
  BY DEF DrainTimerAction, Requeue
<1> SUFFICES TimerDrainedAt(i)
  OBVIOUS
<1> HIDE DEF i
<1>3. /\ \A j \in Timers : timer[j].time \in Int /\ timer[j].interval \in Nat
      /\ "Used" \in States /\ "Free" \in States /\ "Destroy" \in States
  BY TimerTypes DEF States
<1>4. CASE /\ timer[i].interval # 0 /\ UNCHANGED pc
           /\ timer' = [timer EXCEPT ![i].state = "Used", ![i].time = @ + timer[i].interval]
  <2> DEFINE t == timer[i].time + timer[i].interval
  <2>1. t \in Int /\ timer[i].time <= t
    BY <1>1, <1>3
  <2>2. timer' = [timer EXCEPT ![i].state = "Used", ![i].time = t]
    BY <1>4
  <2> HIDE DEF t
  <2>3. \A j \in Timers :
          /\ timer'[j].state = IF j = i THEN "Used" ELSE timer[j].state
          /\ timer'[j].u = timer[j].u /\ timer'[j].destroy = timer[j].destroy
          /\ timer'[j].interval = timer[j].interval /\ timer'[j].nonce = timer[j].nonce
          /\ timer'[j].time = IF j = i THEN t ELSE timer[j].time
    BY <1>1, <2>2 DEF Inv, TypeOK, TimerEntry
  <2>4. \A j \in Timers : timer[j].time <= timer'[j].time
    BY <1>3, <2>1, <2>3
  <2>5. \A j \in Timers : j # i => timer'[j].state = timer[j].state
    BY <2>3
  <2>6. TimerKeptBut(i) /\ timer'[i].state = "Used"
    BY <1>1, <2>3, <2>4, <2>5 DEF TimerKeptBut
  <2> QED BY <1>1, <1>4, <2>6 DEF TimerDrainedAt
<1>5. CASE timer' = [timer EXCEPT ![i].state = "Free"] /\ UNCHANGED pc
  BY <1>1, <1>3, <1>5, TimerKept DEF TimerDrainedAt
<1>6. CASE timer' = [timer EXCEPT ![i].state = "Destroy"] /\ timer[i].destroy
           /\ cur' = Event("timerDestroy", i)
  BY <1>1, <1>3, <1>6, TimerKept DEF TimerDrainedAt
<1> QED BY <1>2, <1>4, <1>5, <1>6

LEMMA TimerCleared ==
  ASSUME Inv, BookOK, NEW u \in DOMAIN book, NEW b, ClearTimer(u, b)
  PROVE  TimerClearedAt(book[u].i)
<1> DEFINE i == book[u].i
<1>1. i \in Timers
  BY DEF BookOK, ClearTimer, TimerMatches
<1>2. \/ UNCHANGED timer /\ timer[i].state = "Destroy"
      \/ timer' = [timer EXCEPT ![i].state = "Free"] /\ timer[i].state # "Destroy"
      \/ timer' = [timer EXCEPT ![i].state = "Destroy"] /\ timer[i].destroy
  BY DEF ClearTimer
<1> SUFFICES TimerClearedAt(i)
  OBVIOUS
<1> HIDE DEF i
<1>3. /\ \A j \in Timers : timer[j].time \in Int
      /\ "Free" \in States /\ "Destroy" \in States
  BY TimerTypes DEF States
<1>4. CASE UNCHANGED timer /\ timer[i].state = "Destroy"
  BY <1>1, <1>3, <1>4 DEF TimerClearedAt, TimerKeptBut
<1>5. CASE timer' = [timer EXCEPT ![i].state = "Free"] /\ timer[i].state # "Destroy"
  BY <1>1, <1>3, <1>5, TimerKept DEF TimerClearedAt
<1>6. CASE timer' = [timer EXCEPT ![i].state = "Destroy"] /\ timer[i].destroy
  BY <1>1, <1>3, <1>6, TimerKept DEF TimerClearedAt
<1> QED BY <1>2, <1>4, <1>5, <1>6

LEMMA TimerSet ==
  ASSUME Inv, NEW d, NEW v, NEW h, SetTimer(d, v, h)
  PROVE  TimerSetAt(Head(freeTimer), d, v, h)
<1> DEFINE i == Head(freeTimer)
<1>1. i \in Timers /\ timer[i].state = "Free"
  <2>1. freeTimer \in Seq(Timers) /\ freeTimer # <<>>
    BY DEF Inv, TypeOK, SetTimer
  <2>2. i \in ToSet(freeTimer)
    BY <2>1, TailList
  <2> QED BY <2>2 DEF Inv, ListsMatchStates, TimerLists
<1> DEFINE e == [nonce |-> NextNonce(timer[i].nonce), state |-> "Used", interval |-> v,
                 time |-> now + d, destroy |-> h, u |-> Len(book) + 1]
<1>2. timer' = [timer EXCEPT ![i] = e]
  BY DEF SetTimer
<1>3. /\ e.state = "Used" /\ e.u = Len(book) + 1 /\ e.destroy = h
      /\ e.interval = v /\ e.time = now + d /\ e.nonce = NextNonce(timer[i].nonce)
  OBVIOUS
<1> HIDE DEF e, i
<1>4. timer'[i] = e /\ \A j \in Timers : j # i => timer'[j] = timer[j]
  BY <1>1, <1>2 DEF Inv, TypeOK
<1>5. TimerSetAt(i, d, v, h)
  BY <1>1, <1>3, <1>4 DEF TimerSetAt
<1> QED BY <1>5 DEF i

(* Nothing but its own handler releases the owner of a timer's entry. *)
LEMMA TimerFreedKept ==
  ASSUME Inv, Owners, NotFreed, [Next]_vars, ~Destroy, NEW i \in Timers, timer[i].u # 0,
         timer[i].state \in Armed \/ pc' = "event"
  PROVE  book'[timer[i].u].freed = book[timer[i].u].freed
<1> DEFINE u == timer[i].u
<1>1. /\ u \in DOMAIN book /\ book[u].kind = "timer" /\ book[u].i = i
  BY DEF Owners, TimerOwner
<1>2. CASE Call
  <2>1. SUFFICES ASSUME book'[u].freed # book[u].freed PROVE FALSE
    OBVIOUS
  <2>2. PICK k : \/ k \in Timers /\ HandedOut("timerDestroy", k) /\ timer[k].u = u
                 \/ k \in Sockets /\ HandedOut("socketDestroy", k) /\ socket[k].u = u
                 \/ k \in Dispatches /\ HandedOut("dispatchDestroy", k) /\ dispatched[k].u = u
    BY <1>1, <1>2, <2>1, CallEffects
  <2>3. ~(k \in Sockets /\ socket[k].u = u) /\ ~(k \in Dispatches /\ dispatched[k].u = u)
    BY <1>1 DEF Owners, SocketOwner, DispatchOwner
  <2>4. k \in Timers /\ HandedOut("timerDestroy", k) /\ timer[k].u = u
    BY <2>2, <2>3
  <2>5. k = i /\ timer[i].state = "Destroy"
    BY <1>1, <2>4 DEF Owners, TimerOwner, NotFreed, TimerNotFreed
  <2> QED BY <1>2, <2>5, CallEffects DEF Armed
<1>3. CASE ~Call
  BY <1>1, <1>3, NextBookMoves DEF BookMoves
<1> QED BY <1>2, <1>3

LEMMA TimerHistSet ==
  ASSUME Inv, Inv', TimerHist, NEW d, NEW v, NEW h, SetTimer(d, v, h), [Next]_vars
  PROVE  TimerHist'
<1>0. PICK i : i = Head(freeTimer)
  OBVIOUS
<1>1. TimerSetAt(i, d, v, h)
  BY <1>0, TimerSet
<1>2. PICK r : /\ book' = Append(book, r) /\ Fresh(r) /\ r.kind = "timer" /\ r.i = i
               /\ r.interval = v /\ r.destroy = h
  BY <1>0, SetTimerBook
<1>3. /\ DOMAIN book' = DOMAIN book \cup {Len(book) + 1} /\ Len(book) \in Nat
      /\ book'[Len(book) + 1] = r
      /\ \A u \in DOMAIN book : book'[u] = book[u]
  BY <1>2, BookGrown, BookDomain DEF Inv
<1>4. UNCHANGED worker
  BY DEF SetTimer
<1>5. \A e, j : HandedOut(e, j)' <=> HandedOut(e, j)
  BY <1>4, SameEvent
<1>6. TimerOwner'
  <2>1. ASSUME NEW j \in Timers, j # i
        PROVE  /\ timer'[j].state # "Free" => timer'[j].u # 0
               /\ timer'[j].state = "Destroy" => timer'[j].destroy
               /\ timer'[j].destroy => timer'[j].u # 0
               /\ timer'[j].u # 0 =>
                    /\ timer'[j].u \in DOMAIN book'
                    /\ book'[timer'[j].u].kind = "timer" /\ book'[timer'[j].u].i = j
                    /\ book'[timer'[j].u].interval = timer'[j].interval
                    /\ book'[timer'[j].u].destroy = timer'[j].destroy
    <3>1. timer'[j] = timer[j]
      BY <1>1, <2>1 DEF TimerSetAt
    <3> QED BY <3>1, <1>3 DEF TimerHist, TimerOwner
  <2>2. /\ timer'[i].u # 0 /\ timer'[i].state # "Destroy"
        /\ timer'[i].u \in DOMAIN book'
        /\ book'[timer'[i].u].kind = "timer" /\ book'[timer'[i].u].i = i
        /\ book'[timer'[i].u].interval = timer'[i].interval
        /\ book'[timer'[i].u].destroy = timer'[i].destroy
    BY <1>1, <1>2, <1>3 DEF TimerSetAt
  <2> QED BY <2>1, <2>2 DEF TimerOwner
<1>7. TimerNotFreed'
  <2>1. ASSUME NEW j \in Timers, j # i
        PROVE  /\ timer'[j].state \in Armed => book'[timer'[j].u].freed = 0
               /\ HandedOut("timerDestroy", j)' =>
                    timer'[j].state = "Destroy" /\ book'[timer'[j].u].freed = 0
               /\ HandedOut("timerAction", j)' => timer'[j].u # 0 /\ book'[timer'[j].u].freed = 0
    <3>1. timer'[j] = timer[j]
      BY <1>1, <2>1 DEF TimerSetAt
    <3> QED BY <3>1, <1>3, <1>5 DEF TimerHist, TimerOwner, TimerNotFreed, Armed
  <2>2. ~HandedOut("timerDestroy", i)'
    BY <1>1, <1>5 DEF TimerSetAt, TimerHist, TimerNotFreed
  <2>3. timer'[i].u # 0 /\ book'[timer'[i].u].freed = 0
    BY <1>1, <1>2, <1>3 DEF TimerSetAt, Fresh
  <2> QED BY <2>1, <2>2, <2>3 DEF TimerNotFreed, Armed
<1> QED BY <1>6, <1>7 DEF TimerHist

LEMMA TimerHistNext ==
  ASSUME Inv, Inv', BookOK, Owners, NotFreed, [Next]_vars, ~Destroy
  PROVE  TimerHist'
<1>1. BookMoves /\ TimerHist
  BY NextBookMoves DEF Owners, NotFreed, TimerHist
<1>2. \A i \in Timers :
        /\ timer[i].state \in Armed \/ HandedOut("timerDestroy", i) \/ HandedOut("timerAction", i)
             => timer[i].u # 0
        /\ HandedOut("timerDestroy", i) => timer[i].state = "Destroy"
  BY <1>1 DEF TimerHist, TimerOwner, TimerNotFreed, Armed
<1>3. \A i \in Timers :
        timer[i].u # 0 /\ (timer[i].state \in Armed \/ pc' = "event")
          => book'[timer[i].u].freed = book[timer[i].u].freed
  BY TimerFreedKept
<1>4. \A e, i : HandedOut(e, i)' => pc' = "event"
  BY DEF HandedOut
<1>5. CASE ~TimerStep
  <2>1. UNCHANGED timer /\ \A e \in TimerEvents, i \in Timers : HandedOut(e, i)' => HandedOut(e, i)
    BY <1>5, NoTimerStep
  <2> QED BY <1>1, <1>2, <1>3, <1>4, <2>1, TimerHistKept DEF TimerEvents
<1>6. ASSUME NEW d, NEW v, NEW h, SetTimer(d, v, h) PROVE TimerHist'
  BY <1>1, <1>6, TimerHistSet
<1>7. ASSUME NEW u \in DOMAIN book, NEW b, ClearTimer(u, b) PROVE TimerHist'
  <2>1. TimerClearedAt(book[u].i)
    BY <1>7, TimerCleared
  <2>2. \A e, i : HandedOut(e, i)' <=> HandedOut(e, i)
    BY <1>7, SameEvent DEF ClearTimer
  <2> QED BY <1>1, <1>2, <1>3, <1>4, <2>1, <2>2, TimerHistKept DEF TimerClearedAt, TimerKeptBut, Armed
<1>8. CASE FireTimer
  <2> DEFINE i == Head(usedTimer)
  <2>1. i \in Timers /\ timer[i].state = "Used"
    <3>1. usedTimer \in Seq(Timers) /\ usedTimer # <<>>
      BY <1>8 DEF Inv, TypeOK, FireTimer
    <3>2. i \in ToSet(usedTimer)
      BY <3>1, TailList
    <3> QED BY <3>2 DEF Inv, ListsMatchStates, TimerLists
  <2>2. timer' = [timer EXCEPT ![i].state = "Action"] /\ cur' = Event("timerAction", i)
    BY <1>8 DEF FireTimer, EnterAction
  <2> HIDE DEF i
  <2>3. "Action" \in States
    BY DEF States
  <2>4. TimerKeptBut(i) /\ timer'[i].state = "Action"
    BY <2>1, <2>2, <2>3, TimerKept
  <2>5. \A j : ~HandedOut("timerDestroy", j)' /\ (HandedOut("timerAction", j)' => j = i)
    BY <2>2 DEF HandedOut, Event
  <2> QED BY <1>1, <1>2, <1>3, <1>4, <2>1, <2>4, <2>5, TimerHistKept DEF TimerKeptBut, Armed
<1>9. CASE DrainTimerAction
  <2> DEFINE i == Head(pending).i
  <2>1. TimerDrainedAt(i)
    BY <1>9, TimerDrained
  <2> HIDE DEF i
  <2>2. pc = "drain" /\ \A j : ~HandedOut("timerAction", j)'
    BY <1>9 DEF DrainTimerAction, Draining, HandedOut, Requeue, Event
  <2>3. \A j : HandedOut("timerDestroy", j)' => j = i /\ timer'[i].state = "Destroy"
    BY <2>1 DEF TimerDrainedAt, HandedOut, Event
  <2> QED BY <1>1, <1>2, <1>3, <1>4, <2>1, <2>2, <2>3, TimerHistKept DEF TimerDrainedAt, TimerKeptBut, Armed
<1>10. CASE DrainTimerDestroy
  <2> DEFINE i == Head(pending).i
  <2>1. i \in Timers /\ timer' = [timer EXCEPT ![i].state = "Free"] /\ "Free" \in States
    BY <1>10, DrainingTimer DEF DrainTimerDestroy, States
  <2> HIDE DEF i
  <2>2. TimerKeptBut(i) /\ timer'[i].state = "Free"
    BY <2>1, TimerKept
  <2>3. \A e, j : ~HandedOut(e, j)'
    BY <1>10 DEF DrainTimerDestroy, Draining, worker, HandedOut
  <2> QED BY <1>1, <1>2, <1>3, <1>4, <2>2, <2>3, TimerHistKept DEF TimerKeptBut, Armed
<1> QED BY <1>5, <1>6, <1>7, <1>8, <1>9, <1>10 DEF TimerStep

-----------------------------------------------------------------------------
(* Dispatches and their registrations. *)
DispatchHist == DispatchOwner /\ DispatchNotFreed
DispatchEvents == {"dispatchAction", "dispatchDestroy"}

DispatchStep ==
  \/ DrainDispatchUsed \/ DrainDispatchAction \/ DrainDispatchDone
  \/ \E h \in Destroys : Dispatch(h)

LEMMA NoDispatchStep ==
  ASSUME [Next]_vars, ~DispatchStep
  PROVE  /\ UNCHANGED dispatched
         /\ \A e \in DispatchEvents, i \in Dispatches : HandedOut(e, i)' => HandedOut(e, i)
<1>1. CASE NextEvent
  <2>1. UNCHANGED dispatched
    BY <1>1 DEF NextEvent, DispatchStep, FireTimer, StartDrain, DrainTimerAction,
       DrainTimerDestroy, DrainSocketUsed, DrainSocketAction, DrainSocketDestroy,
       StartCollect, CollectUsed, CollectFree, NoEventLeft, entries
  <2>2. pc' # "event" \/ cur'.event \notin DispatchEvents
    <3>1. CASE FireTimer
      BY <3>1 DEF FireTimer, Event, worker, DispatchEvents
    <3>2. CASE StartDrain \/ StartCollect \/ CollectUsed \/ CollectFree \/ NoEventLeft
      BY <3>2 DEF StartDrain, StartCollect, CollectUsed, CollectFree, NoEventLeft, worker
    <3>3. CASE DrainTimerAction
      <4>1. pc = "drain"
        BY <3>3 DEF DrainTimerAction, Draining
      <4>2. pc' = pc \/ Requeue("timerDestroy")
        BY <3>3, Zenon DEF DrainTimerAction
      <4>3. ASSUME Requeue("timerDestroy") PROVE cur'.event = "timerDestroy"
        BY <4>3 DEF Requeue, Event
      <4> QED BY <4>1, <4>2, <4>3 DEF DispatchEvents
    <3>4. CASE DrainTimerDestroy
      BY <3>4 DEF DrainTimerDestroy, Event, Draining, worker, DispatchEvents
    <3>5. CASE DrainSocketUsed
      <4>1. Requeue("socketAction")
        BY <3>5, Zenon DEF DrainSocketUsed
      <4> QED BY <4>1 DEF Requeue, Event, DispatchEvents
    <3>6. CASE DrainSocketAction
      BY <3>6 DEF DrainSocketAction, Event, Draining, worker, DispatchEvents
    <3>7. CASE DrainSocketDestroy
      BY <3>7 DEF DrainSocketDestroy, Event, Draining, worker, DispatchEvents
    <3> QED
      BY <1>1, <3>1, <3>2, <3>3, <3>4, <3>5, <3>6, <3>7 DEF NextEvent, DispatchStep
  <2> QED BY <2>1, <2>2 DEF HandedOut
<1>2. CASE Callers
  <2>1. UNCHANGED dispatched
    BY <1>2 DEF Callers, DispatchStep, SetTimer, ClearTimer, AddSocket, RemoveSocket,
       Wakeup, entries
  <2> QED BY <2>1, <1>2, CallersKeep, SameEvent
<1>3. CASE Tick \/ UNCHANGED vars
  BY <1>3, SameEvent DEF Tick, entries, worker, vars
<1>4. CASE Call \/ Return \/ PollEnter \/ PollWoken \/ PollReady \/ Stop \/ Destroy
  BY <1>4 DEF Call, Return, PollEnter, PollWoken, PollReady, PollReturn, Stop, Destroy,
     entries, HandedOut
<1> QED BY <1>1, <1>2, <1>3, <1>4 DEF Next, Worker

LEMMA DispatchHistKept ==
  ASSUME Inv, Inv', BookMoves, DispatchHist,
         \A i \in Dispatches :
           /\ dispatched'[i].u = dispatched[i].u
           /\ dispatched'[i].destroy = dispatched[i].destroy
           /\ dispatched'[i].state # dispatched[i].state =>
                /\ dispatched'[i].state = "Free" \/ dispatched[i].state \in Armed
                /\ dispatched'[i].state = "Destroy" => dispatched[i].destroy
           /\ dispatched'[i].state \in Armed \/ HandedOut("dispatchDestroy", i)'
                => book'[dispatched[i].u].freed = book[dispatched[i].u].freed
           /\ HandedOut("dispatchDestroy", i)' =>
                /\ dispatched'[i].state = "Destroy"
                /\ HandedOut("dispatchDestroy", i) \/ dispatched[i].state \in Armed
           /\ HandedOut("dispatchAction", i)' => dispatched'[i].state = "Action"
  PROVE  DispatchHist'
<1>1. DispatchOwner'
  <2> SUFFICES ASSUME NEW i \in Dispatches
               PROVE  /\ dispatched'[i].state # "Free" => dispatched'[i].u # 0
                      /\ dispatched'[i].state = "Destroy" => dispatched'[i].destroy
                      /\ dispatched'[i].u # 0 =>
                           /\ dispatched'[i].u \in DOMAIN book'
                           /\ book'[dispatched'[i].u].kind = "dispatch"
                           /\ book'[dispatched'[i].u].i = i
                           /\ book'[dispatched'[i].u].destroy = dispatched'[i].destroy
    BY DEF DispatchOwner
  <2>1. dispatched'[i].u # 0 =>
          /\ dispatched'[i].u \in DOMAIN book'
          /\ book'[dispatched'[i].u].kind = "dispatch" /\ book'[dispatched'[i].u].i = i
          /\ book'[dispatched'[i].u].destroy = dispatched'[i].destroy
    BY DEF DispatchHist, DispatchOwner, BookMoves, Fixed
  <2>2. dispatched'[i].state = "Destroy" => dispatched'[i].destroy
    BY DEF DispatchHist, DispatchOwner
  <2>3. dispatched'[i].state # "Free" => dispatched'[i].u # 0
    BY DEF DispatchHist, DispatchOwner, Armed
  <2> QED BY <2>1, <2>2, <2>3
<1>2. DispatchNotFreed'
  <2> SUFFICES ASSUME NEW i \in Dispatches
               PROVE  /\ dispatched'[i].state \in Armed => book'[dispatched'[i].u].freed = 0
                      /\ HandedOut("dispatchDestroy", i)' =>
                           dispatched'[i].state = "Destroy" /\ book'[dispatched'[i].u].freed = 0
                      /\ HandedOut("dispatchAction", i)' => dispatched'[i].state = "Action"
    BY DEF DispatchNotFreed, Armed
  <2>1. dispatched[i].state \in Armed => book[dispatched[i].u].freed = 0
    BY DEF DispatchHist, DispatchNotFreed
  <2>2. dispatched'[i].state \in Armed => dispatched[i].state \in Armed
    BY DEF Armed
  <2> QED BY <2>1, <2>2 DEF DispatchHist, DispatchNotFreed
<1> QED BY <1>1, <1>2 DEF DispatchHist

LEMMA DispatchFreedKept ==
  ASSUME Inv, Owners, NotFreed, [Next]_vars, ~Destroy, NEW i \in Dispatches,
         dispatched[i].u # 0, dispatched[i].state \in Armed \/ pc' = "event"
  PROVE  book'[dispatched[i].u].freed = book[dispatched[i].u].freed
<1> DEFINE u == dispatched[i].u
<1>1. /\ u \in DOMAIN book /\ book[u].kind = "dispatch" /\ book[u].i = i
  BY DEF Owners, DispatchOwner
<1>2. CASE Call
  <2>1. SUFFICES ASSUME book'[u].freed # book[u].freed PROVE FALSE
    OBVIOUS
  <2>2. PICK k : \/ k \in Timers /\ HandedOut("timerDestroy", k) /\ timer[k].u = u
                 \/ k \in Sockets /\ HandedOut("socketDestroy", k) /\ socket[k].u = u
                 \/ k \in Dispatches /\ HandedOut("dispatchDestroy", k) /\ dispatched[k].u = u
    BY <1>1, <1>2, <2>1, CallEffects
  <2>3. ~(k \in Sockets /\ socket[k].u = u) /\ ~(k \in Timers /\ timer[k].u = u)
    BY <1>1 DEF Owners, SocketOwner, TimerOwner
  <2>4. k \in Dispatches /\ HandedOut("dispatchDestroy", k) /\ dispatched[k].u = u
    BY <2>2, <2>3
  <2>5. k = i /\ dispatched[i].state = "Destroy"
    BY <1>1, <2>4 DEF Owners, DispatchOwner, NotFreed, DispatchNotFreed
  <2> QED BY <1>2, <2>5, CallEffects DEF Armed
<1>3. CASE ~Call
  BY <1>1, <1>3, NextBookMoves DEF BookMoves
<1> QED BY <1>2, <1>3

(* What dispatch does with the first free entry. *)
DispatchSetAt(i, h) ==
  /\ i \in Dispatches /\ dispatched[i].state = "Free"
  /\ \A j \in Dispatches : j # i => dispatched'[j] = dispatched[j]
  /\ dispatched'[i].state = "Used" /\ dispatched'[i].u = Len(book) + 1
  /\ dispatched'[i].destroy = h

LEMMA DispatchSet ==
  ASSUME Inv, NEW h, Dispatch(h)
  PROVE  DispatchSetAt(Head(freeDispatch), h)
<1>0. PICK i : i = Head(freeDispatch)
  OBVIOUS
<1>1. i \in Dispatches /\ dispatched[i].state = "Free"
  <2>1. freeDispatch \in Seq(Dispatches) /\ freeDispatch # <<>>
    BY DEF Inv, TypeOK, Dispatch
  <2>2. i \in ToSet(freeDispatch)
    BY <1>0, <2>1, TailList
  <2> QED BY <2>2 DEF Inv, ListsMatchStates, DispatchLists
<1> DEFINE e == [nonce |-> NextNonce(dispatched[i].nonce), state |-> "Used", destroy |-> h,
                 u |-> Len(book) + 1]
<1>2. dispatched' = [dispatched EXCEPT ![i] = e]
  BY <1>0 DEF Dispatch
<1>3. e.state = "Used" /\ e.u = Len(book) + 1 /\ e.destroy = h
  OBVIOUS
<1> HIDE DEF e
<1>4. dispatched'[i] = e /\ \A j \in Dispatches : j # i => dispatched'[j] = dispatched[j]
  BY <1>1, <1>2 DEF Inv, TypeOK
<1> QED BY <1>0, <1>1, <1>3, <1>4 DEF DispatchSetAt

LEMMA DispatchHistSet ==
  ASSUME Inv, Inv', DispatchHist, NEW h, Dispatch(h)
  PROVE  DispatchHist'
<1>0. PICK i : i = Head(freeDispatch)
  OBVIOUS
<1>1. DispatchSetAt(i, h)
  BY <1>0, DispatchSet
<1>2. PICK r : /\ book' = Append(book, r) /\ Fresh(r) /\ r.kind = "dispatch" /\ r.i = i
               /\ r.destroy = h
  BY <1>0, DispatchBook
<1>3. /\ DOMAIN book' = DOMAIN book \cup {Len(book) + 1} /\ Len(book) \in Nat
      /\ book'[Len(book) + 1] = r
      /\ \A u \in DOMAIN book : book'[u] = book[u]
  BY <1>2, BookGrown, BookDomain DEF Inv
<1>5. \A e, j : HandedOut(e, j)' <=> HandedOut(e, j)
  BY SameEvent DEF Dispatch
<1>6. DispatchOwner'
  <2>1. ASSUME NEW j \in Dispatches, j # i
        PROVE  /\ dispatched'[j].state # "Free" => dispatched'[j].u # 0
               /\ dispatched'[j].state = "Destroy" => dispatched'[j].destroy
               /\ dispatched'[j].u # 0 =>
                    /\ dispatched'[j].u \in DOMAIN book'
                    /\ book'[dispatched'[j].u].kind = "dispatch" /\ book'[dispatched'[j].u].i = j
                    /\ book'[dispatched'[j].u].destroy = dispatched'[j].destroy
    <3>1. dispatched'[j] = dispatched[j]
      BY <1>1, <2>1 DEF DispatchSetAt
    <3> QED BY <3>1, <1>3 DEF DispatchHist, DispatchOwner
  <2>2. /\ dispatched'[i].u # 0 /\ dispatched'[i].state # "Destroy"
        /\ dispatched'[i].u \in DOMAIN book'
        /\ book'[dispatched'[i].u].kind = "dispatch" /\ book'[dispatched'[i].u].i = i
        /\ book'[dispatched'[i].u].destroy = dispatched'[i].destroy
    BY <1>1, <1>2, <1>3 DEF DispatchSetAt
  <2> QED BY <2>1, <2>2 DEF DispatchOwner
<1>7. DispatchNotFreed'
  <2>1. ASSUME NEW j \in Dispatches, j # i
        PROVE  /\ dispatched'[j].state \in Armed => book'[dispatched'[j].u].freed = 0
               /\ HandedOut("dispatchDestroy", j)' =>
                    dispatched'[j].state = "Destroy" /\ book'[dispatched'[j].u].freed = 0
               /\ HandedOut("dispatchAction", j)' => dispatched'[j].state = "Action"
    <3>1. dispatched'[j] = dispatched[j]
      BY <1>1, <2>1 DEF DispatchSetAt
    <3> QED BY <3>1, <1>3, <1>5 DEF DispatchHist, DispatchOwner, DispatchNotFreed, Armed
  <2>2. ~HandedOut("dispatchDestroy", i)' /\ ~HandedOut("dispatchAction", i)'
    BY <1>1, <1>5 DEF DispatchSetAt, DispatchHist, DispatchNotFreed
  <2>3. book'[dispatched'[i].u].freed = 0
    BY <1>1, <1>2, <1>3 DEF DispatchSetAt, Fresh
  <2> QED BY <2>1, <2>2, <2>3 DEF DispatchNotFreed, Armed
<1> QED BY <1>6, <1>7 DEF DispatchHist

LEMMA DispatchHistNext ==
  ASSUME Inv, Inv', Owners, NotFreed, [Next]_vars, ~Destroy
  PROVE  DispatchHist'
<1>1. BookMoves /\ DispatchHist
  BY NextBookMoves DEF Owners, NotFreed, DispatchHist
<1>2. \A i \in Dispatches :
        /\ dispatched[i].state \in Armed \/ HandedOut("dispatchDestroy", i) => dispatched[i].u # 0
        /\ HandedOut("dispatchDestroy", i) => dispatched[i].state = "Destroy"
        /\ HandedOut("dispatchAction", i) => dispatched[i].state = "Action"
  BY <1>1 DEF DispatchHist, DispatchOwner, DispatchNotFreed, Armed
<1>3. \A i \in Dispatches :
        dispatched[i].u # 0 /\ (dispatched[i].state \in Armed \/ pc' = "event")
          => book'[dispatched[i].u].freed = book[dispatched[i].u].freed
  BY DispatchFreedKept
<1>4. \A e, i : HandedOut(e, i)' => pc' = "event"
  BY DEF HandedOut
<1>5. CASE ~DispatchStep
  <2>1. /\ UNCHANGED dispatched
        /\ \A e \in DispatchEvents, i \in Dispatches : HandedOut(e, i)' => HandedOut(e, i)
    BY <1>5, NoDispatchStep
  <2> QED BY <1>1, <1>2, <1>3, <1>4, <2>1, DispatchHistKept DEF DispatchEvents
<1>6. ASSUME NEW h, Dispatch(h) PROVE DispatchHist'
  BY <1>1, <1>6, DispatchHistSet
<1>0. PICK i : i = Head(pending).i
  OBVIOUS
<1>7. "Action" \in States /\ "Destroy" \in States /\ "Free" \in States
  BY DEF States
<1>8. CASE DrainDispatchUsed
  <2>1. /\ i \in Dispatches /\ dispatched[i].state = "Used"
        /\ dispatched' = [dispatched EXCEPT ![i].state = "Action"]
    BY <1>0, <1>8, DrainingDispatch DEF DrainDispatchUsed, EnterAction
  <2>2. cur' = Event("dispatchAction", i)
    BY <1>0, <1>8 DEF DrainDispatchUsed, Requeue
  <2>3. \A j \in Dispatches :
          /\ dispatched'[j].state = IF j = i THEN "Action" ELSE dispatched[j].state
          /\ dispatched'[j].u = dispatched[j].u /\ dispatched'[j].destroy = dispatched[j].destroy
    BY <1>7, <2>1, DispatchOnlyState
  <2>4. \A j : ~HandedOut("dispatchDestroy", j)' /\ (HandedOut("dispatchAction", j)' => j = i)
    BY <2>2 DEF HandedOut, Event
  <2> QED BY <1>1, <1>2, <1>3, <1>4, <2>1, <2>3, <2>4, DispatchHistKept DEF Armed
<1>9. CASE DrainDispatchAction
  <2>1. /\ i \in Dispatches /\ dispatched[i].state = "Action" /\ dispatched[i].destroy
        /\ dispatched' = [dispatched EXCEPT ![i].state = "Destroy"]
    BY <1>0, <1>9, DrainingDispatch DEF DrainDispatchAction
  <2>2. cur' = Event("dispatchDestroy", i)
    BY <1>0, <1>9 DEF DrainDispatchAction, Requeue
  <2>3. \A j \in Dispatches :
          /\ dispatched'[j].state = IF j = i THEN "Destroy" ELSE dispatched[j].state
          /\ dispatched'[j].u = dispatched[j].u /\ dispatched'[j].destroy = dispatched[j].destroy
    BY <1>7, <2>1, DispatchOnlyState
  <2>4. \A j : ~HandedOut("dispatchAction", j)' /\ (HandedOut("dispatchDestroy", j)' => j = i)
    BY <2>2 DEF HandedOut, Event
  <2> QED BY <1>1, <1>2, <1>3, <1>4, <2>1, <2>3, <2>4, DispatchHistKept DEF Armed
<1>10. CASE DrainDispatchDone
  <2>1. i \in Dispatches /\ dispatched' = [dispatched EXCEPT ![i].state = "Free"]
    BY <1>0, <1>10, DrainingDispatch DEF DrainDispatchDone
  <2>3. \A j \in Dispatches :
          /\ dispatched'[j].state = IF j = i THEN "Free" ELSE dispatched[j].state
          /\ dispatched'[j].u = dispatched[j].u /\ dispatched'[j].destroy = dispatched[j].destroy
    BY <1>7, <2>1, DispatchOnlyState
  <2>4. \A e, j : ~HandedOut(e, j)'
    BY <1>10 DEF DrainDispatchDone, Draining, worker, HandedOut
  <2> QED BY <1>1, <1>2, <1>3, <1>4, <2>3, <2>4, DispatchHistKept DEF Armed
<1> QED BY <1>5, <1>6, <1>8, <1>9, <1>10 DEF DispatchStep

-----------------------------------------------------------------------------
(* Sockets and their registrations. *)
SocketHist == SocketOwner /\ SocketNotFreed
SocketEvents == {"socketAction", "socketDestroy"}

SocketStep ==
  \/ DrainSocketUsed \/ DrainSocketAction \/ DrainSocketDestroy \/ CollectFree
  \/ \E fd \in Fds, h \in Destroys : AddSocket(fd, h)
  \/ \E fd \in Fds : RemoveSocket(fd)

LEMMA NoSocketStep ==
  ASSUME Inv, [Next]_vars, ~SocketStep
  PROVE  /\ UNCHANGED <<socket, pollSize>>
         /\ \A i \in Sockets : pollfd'[i].fd = pollfd[i].fd
         /\ \A e \in SocketEvents, i \in Sockets : HandedOut(e, i)' => HandedOut(e, i)
<1>1. CASE NextEvent
  <2>1. UNCHANGED <<socket, pollSize>>
    BY <1>1 DEF NextEvent, SocketStep, FireTimer, StartDrain, DrainTimerAction,
       DrainTimerDestroy, DrainDispatchUsed, DrainDispatchAction, DrainDispatchDone,
       StartCollect, CollectUsed, NoEventLeft, entries
  <2>2. pc' # "event" \/ cur'.event \notin SocketEvents
    <3>1. CASE FireTimer
      BY <3>1 DEF FireTimer, Event, worker, SocketEvents
    <3>2. CASE StartDrain \/ StartCollect \/ CollectUsed \/ NoEventLeft
      BY <3>2 DEF StartDrain, StartCollect, CollectUsed, NoEventLeft, Draining, worker
    <3>3. CASE DrainTimerAction
      <4>1. pc = "drain"
        BY <3>3 DEF DrainTimerAction, Draining
      <4>2. pc' = pc \/ Requeue("timerDestroy")
        BY <3>3, Zenon DEF DrainTimerAction
      <4>3. ASSUME Requeue("timerDestroy") PROVE cur'.event = "timerDestroy"
        BY <4>3 DEF Requeue, Event
      <4> QED BY <4>1, <4>2, <4>3 DEF SocketEvents
    <3>4. CASE DrainTimerDestroy
      <4>1. pc = "drain"
        BY <3>4 DEF DrainTimerDestroy, Draining
      <4>2. pc' = pc
        BY <3>4, Zenon DEF DrainTimerDestroy, worker
      <4> QED BY <4>1, <4>2
    <3>5. CASE DrainDispatchUsed
      <4>1. Requeue("dispatchAction")
        BY <3>5, Zenon DEF DrainDispatchUsed
      <4> QED BY <4>1 DEF Requeue, Event, SocketEvents
    <3>6. CASE DrainDispatchAction
      <4>1. Requeue("dispatchDestroy")
        BY <3>6, Zenon DEF DrainDispatchAction
      <4> QED BY <4>1 DEF Requeue, Event, SocketEvents
    <3>7. CASE DrainDispatchDone
      BY <3>7 DEF DrainDispatchDone, Draining, worker
    <3> QED
      BY <1>1, <3>1, <3>2, <3>3, <3>4, <3>5, <3>6, <3>7
         DEF NextEvent, SocketStep
  <2>3. UNCHANGED pollfd \/ \E j : pollfd' = [pollfd EXCEPT ![j].revents = FALSE]
    BY <1>1 DEF NextEvent, SocketStep, FireTimer, StartDrain, DrainTimerAction,
       DrainTimerDestroy, DrainDispatchUsed, DrainDispatchAction, DrainDispatchDone,
       StartCollect, CollectUsed, NoEventLeft
  <2> QED BY <2>1, <2>2, <2>3, PollfdReceived DEF HandedOut
<1>2. CASE Callers
  <2>1. UNCHANGED <<socket, pollSize, pollfd>>
    BY <1>2 DEF Callers, SocketStep, SetTimer, ClearTimer, Dispatch, Wakeup, entries
  <2> QED BY <2>1, <1>2, CallersKeep, SameEvent
<1>3. CASE Tick \/ UNCHANGED vars
  BY <1>3, SameEvent DEF Tick, entries, worker, vars
<1>4. CASE Call \/ PollEnter \/ Stop \/ Destroy
  BY <1>4 DEF Call, PollEnter, Stop, Destroy, entries, HandedOut
<1>5. CASE Return
  <2>1. UNCHANGED pollfd \/ \E j, b : pollfd' = [pollfd EXCEPT ![j].events = b]
    BY <1>5 DEF Return
  <2> QED BY <2>1, <1>5, PollfdAsked DEF Return, entries, HandedOut
<1>6. CASE PollWoken \/ PollReady
  <2>1. PICK ready : PollReturn(ready)
    BY <1>6 DEF PollWoken, PollReady
  <2> QED BY <2>1, PollReturned DEF PollReturn, entries, HandedOut
<1> QED BY <1>1, <1>2, <1>3, <1>4, <1>5, <1>6 DEF Next, Worker

\* The entries stay where they are.
LEMMA SocketHistKept ==
  ASSUME Inv, Inv', BookMoves, SocketHist, UNCHANGED pollSize,
         \A i \in Sockets :
           /\ socket'[i].u = socket[i].u /\ socket'[i].destroy = socket[i].destroy
           /\ pollfd'[i].fd = pollfd[i].fd
           /\ socket'[i].state # "Free" => socket[i].state # "Free"
           /\ socket'[i].state = "Destroy" => socket[i].destroy
           /\ HandedOut("socketDestroy", i)' =>
                /\ LiveSocket(i) /\ i # 0 /\ socket[i].destroy /\ i < pollSize
                /\ socket'[i].state = "Free"
           /\ HandedOut("socketAction", i)' =>
                (LiveSocket(i) \/ HandedOut("socketAction", i)) /\ i < pollSize
           /\ socket[i].u # 0 /\ (socket'[i].state # "Free" \/ pc' = "event")
                => book'[socket[i].u].freed = book[socket[i].u].freed
  PROVE  SocketHist'
<1>0. \A e, i : HandedOut(e, i)' => pc' = "event"
  BY DEF HandedOut
<1>1. \A i \in Sockets : LiveSocket(i)' => LiveSocket(i)
  BY DEF LiveSocket
<1>2. SocketOwner'
  <2>1. ASSUME NEW i \in Sockets
        PROVE  /\ i # 0 /\ i < pollSize' => socket'[i].u # 0
               /\ socket'[i].state = "Destroy" => socket'[i].destroy
               /\ socket'[i].destroy => socket'[i].u # 0
               /\ HandedOut("socketDestroy", i)' =>
                    i # 0 /\ i < pollSize' /\ socket'[i].destroy /\ socket'[i].state = "Free"
               /\ HandedOut("socketAction", i)' => i < pollSize'
               /\ socket'[i].u # 0 =>
                    /\ socket'[i].u \in DOMAIN book' /\ book'[socket'[i].u].kind = "socket"
                    /\ book'[socket'[i].u].destroy = socket'[i].destroy
               /\ socket'[i].u # 0 /\ i < pollSize' => book'[socket'[i].u].fd = pollfd'[i].fd
    BY DEF SocketHist, SocketOwner, BookMoves, Fixed
  <2>2. ASSUME NEW i \in Sockets, NEW j \in Sockets, i # j, LiveSocket(i)', LiveSocket(j)',
               socket'[i].u # 0
        PROVE  socket'[i].u # socket'[j].u
    BY <1>1, <2>2 DEF SocketHist, SocketOwner
  <2> QED BY <2>1, <2>2 DEF SocketOwner
<1>3. SocketNotFreed'
  <2>1. ASSUME NEW i \in Sockets, socket'[i].u # 0, LiveSocket(i)' \/ HandedOut("socketAction", i)'
        PROVE  book'[socket'[i].u].freed = 0
    <3>1. LiveSocket(i) \/ HandedOut("socketAction", i)
      BY <1>1, <2>1
    <3>2. socket'[i].state # "Free" \/ pc' = "event"
      BY <1>0, <2>1 DEF LiveSocket
    <3> QED BY <2>1, <3>1, <3>2 DEF SocketHist, SocketNotFreed
  <2> QED BY <2>1 DEF SocketNotFreed
<1> QED BY <1>2, <1>3 DEF SocketHist

LEMMA SocketFreedKept ==
  ASSUME Inv, Owners, NotFreed, [Next]_vars, ~Destroy, NEW i \in Sockets, socket[i].u # 0,
         socket[i].state # "Free" \/ pc' = "event"
  PROVE  book'[socket[i].u].freed = book[socket[i].u].freed
<1> DEFINE u == socket[i].u
<1>1. u \in DOMAIN book /\ book[u].kind = "socket"
  BY DEF Owners, SocketOwner
<1>2. CASE Call
  <2>1. SUFFICES ASSUME book'[u].freed # book[u].freed PROVE FALSE
    OBVIOUS
  <2>2. PICK k : \/ k \in Timers /\ HandedOut("timerDestroy", k) /\ timer[k].u = u
                 \/ k \in Sockets /\ HandedOut("socketDestroy", k) /\ socket[k].u = u
                 \/ k \in Dispatches /\ HandedOut("dispatchDestroy", k) /\ dispatched[k].u = u
    BY <1>1, <1>2, <2>1, CallEffects
  <2>3. ~(k \in Dispatches /\ dispatched[k].u = u) /\ ~(k \in Timers /\ timer[k].u = u)
    BY <1>1 DEF Owners, DispatchOwner, TimerOwner
  <2>4. k \in Sockets /\ HandedOut("socketDestroy", k) /\ socket[k].u = u
    BY <2>2, <2>3
  <2>5. pc' # "event" /\ LiveSocket(i) /\ LiveSocket(k) /\ socket[k].state = "Free"
    BY <1>2, <2>4, CallEffects DEF LiveSocket, Owners, SocketOwner
  <2> QED BY <1>2, <2>4, <2>5 DEF Owners, SocketOwner
<1>3. CASE ~Call
  BY <1>1, <1>3, NextBookMoves DEF BookMoves
<1> QED BY <1>2, <1>3


LEMMA SocketHistAdded ==
  ASSUME Inv, Inv', SocketHist, NEW fd, NEW h, AddSocket(fd, h)
  PROVE  SocketHist'
<1>0. PICK i : i = pollSize
  OBVIOUS
<1>1. /\ i \in Sockets /\ pollSize' = i + 1
      /\ \A j \in Sockets : j # i => socket'[j] = socket[j] /\ pollfd'[j] = pollfd[j]
      /\ socket'[i].state = "Used" /\ socket'[i].destroy = h /\ socket'[i].u = Len(book) + 1
      /\ pollfd'[i].fd = fd
  BY <1>0, SocketAdded
<1>2. PICK r : /\ book' = Append(book, r) /\ Fresh(r) /\ r.kind = "socket" /\ r.fd = fd
               /\ r.destroy = h
  BY AddSocketBook
<1>3. /\ DOMAIN book' = DOMAIN book \cup {Len(book) + 1} /\ Len(book) \in Nat
      /\ Len(book) + 1 \notin DOMAIN book
      /\ book'[Len(book) + 1] = r
      /\ \A u \in DOMAIN book : book'[u] = book[u]
  BY <1>2, BookGrown, BookDomain DEF Inv
<1>4. \A e, j : HandedOut(e, j)' <=> HandedOut(e, j)
  BY SameEvent DEF AddSocket
<1>5. ~HandedOut("socketDestroy", i) /\ ~HandedOut("socketAction", i)
  <2>1. ~(i < pollSize)
    BY <1>0, <1>1 DEF Sockets
  <2> QED BY <1>1, <2>1 DEF SocketHist, SocketOwner
<1>6. \A j \in Sockets : j < pollSize' => j = i \/ j < pollSize
  BY <1>0, <1>1 DEF Sockets
<1>7. \A j \in Sockets : j # i => (LiveSocket(j)' <=> LiveSocket(j))
  BY <1>1, <1>4 DEF LiveSocket
<1>8. SocketOwner'
  <2>1. ASSUME NEW j \in Sockets, j # i
        PROVE  /\ j # 0 /\ j < pollSize' => socket'[j].u # 0
               /\ socket'[j].state = "Destroy" => socket'[j].destroy
               /\ socket'[j].destroy => socket'[j].u # 0
               /\ HandedOut("socketDestroy", j)' =>
                    j # 0 /\ j < pollSize' /\ socket'[j].destroy /\ socket'[j].state = "Free"
               /\ HandedOut("socketAction", j)' => j < pollSize'
               /\ socket'[j].u # 0 =>
                    /\ socket'[j].u \in DOMAIN book' /\ book'[socket'[j].u].kind = "socket"
                    /\ book'[socket'[j].u].destroy = socket'[j].destroy
               /\ socket'[j].u # 0 /\ j < pollSize' => book'[socket'[j].u].fd = pollfd'[j].fd
    <3>1. /\ socket'[j] = socket[j] /\ pollfd'[j] = pollfd[j]
          /\ j < pollSize' => j < pollSize
          /\ j < pollSize => j < pollSize'
      BY <1>0, <1>1, <2>1 DEF Sockets
    <3> QED BY <3>1, <1>3, <1>4 DEF SocketHist, SocketOwner
  <2>2. /\ i # 0 /\ i < pollSize' => socket'[i].u # 0
        /\ socket'[i].state = "Destroy" => socket'[i].destroy
        /\ socket'[i].destroy => socket'[i].u # 0
        /\ HandedOut("socketDestroy", i)' =>
             i # 0 /\ i < pollSize' /\ socket'[i].destroy /\ socket'[i].state = "Free"
        /\ HandedOut("socketAction", i)' => i < pollSize'
        /\ socket'[i].u # 0 =>
             /\ socket'[i].u \in DOMAIN book' /\ book'[socket'[i].u].kind = "socket"
             /\ book'[socket'[i].u].destroy = socket'[i].destroy
        /\ socket'[i].u # 0 /\ i < pollSize' => book'[socket'[i].u].fd = pollfd'[i].fd
    BY <1>1, <1>2, <1>3, <1>4, <1>5
  <2>3. ASSUME NEW j \in Sockets, NEW k \in Sockets, j # k, LiveSocket(j)', LiveSocket(k)',
               socket'[j].u # 0
        PROVE  socket'[j].u # socket'[k].u
    <3>1. \A l \in Sockets : l # i => socket'[l].u = socket[l].u /\ socket'[l].u # Len(book) + 1
      BY <1>1, <1>3 DEF SocketHist, SocketOwner
    <3>2. CASE j # i /\ k # i
      BY <2>3, <3>1, <3>2, <1>7 DEF SocketHist, SocketOwner
    <3> QED BY <2>3, <3>1, <3>2, <1>1
  <2> QED BY <2>1, <2>2, <2>3 DEF SocketOwner
<1>9. SocketNotFreed'
  <2>1. ASSUME NEW j \in Sockets, j # i, socket'[j].u # 0,
               LiveSocket(j)' \/ HandedOut("socketAction", j)'
        PROVE  book'[socket'[j].u].freed = 0
    <3>1. /\ LiveSocket(j) \/ HandedOut("socketAction", j)
          /\ socket'[j].u = socket[j].u /\ socket[j].u \in DOMAIN book
      BY <1>1, <1>4, <1>7, <2>1 DEF SocketHist, SocketOwner
    <3> QED BY <1>3, <2>1, <3>1 DEF SocketHist, SocketNotFreed
  <2>2. book'[socket'[i].u].freed = 0
    BY <1>1, <1>2, <1>3 DEF Fresh
  <2> QED BY <2>1, <2>2 DEF SocketNotFreed
<1> QED BY <1>8, <1>9 DEF SocketHist

\* Compaction moves an owner together with its handle.
LEMMA SocketHistMoved ==
  ASSUME Inv, WakeupEntry, SocketHist, CollectFree
  PROVE  SocketHist'
<1>0. PICK i, last : i = Head(usedSocket) /\ last = pollSize - 1
  OBVIOUS
<1>1. /\ i \in Sockets /\ i \in 1 .. last /\ last \in Sockets
      /\ socket[i].state = "Free" /\ pollSize' = last
      /\ \A j \in Sockets \ {i, last} : socket'[j] = socket[j]
      /\ \A j \in Sockets \ {i} : pollfd'[j] = pollfd[j]
      /\ socket'[last].state = "Free" /\ socket'[last].u = socket[last].u
      /\ socket'[last].destroy = socket[last].destroy
      /\ pollfd'[i] = pollfd[last]
      /\ i # last => socket'[i].state = socket[last].state /\ socket'[i].u = socket[last].u
                     /\ socket'[i].destroy = socket[last].destroy
  BY <1>0, SocketMoved
<1>2. UNCHANGED book /\ \A e, j : ~HandedOut(e, j) /\ ~HandedOut(e, j)'
  BY DEF CollectFree, worker, HandedOut
<1>3. last \in Nat /\ pollSize = last + 1
  BY <1>0, <1>1 DEF Inv, TypeOK, Sockets
\* The entry whose place the entry j takes.
<1> DEFINE From(j) == IF j = i /\ i # last THEN last ELSE j
<1>4. ASSUME NEW j \in Sockets
      PROVE  /\ From(j) \in Sockets
             /\ socket'[j].u = socket[From(j)].u /\ socket'[j].destroy = socket[From(j)].destroy
             /\ socket'[j].state # "Free" => j # last /\ socket'[j].state = socket[From(j)].state
             /\ j < pollSize' => /\ From(j) < pollSize /\ pollfd'[j] = pollfd[From(j)]
                                 /\ j # 0 => From(j) # 0
  <2>1. CASE j = i /\ i # last
    BY <1>1, <1>3, <2>1
  <2>2. CASE j = i /\ i = last
    BY <1>1, <1>3, <2>2
  <2>3. CASE j # i /\ j = last
    BY <1>1, <1>3, <2>3
  <2>4. CASE j # i /\ j # last
    <3>1. socket'[j] = socket[j] /\ pollfd'[j] = pollfd[j] /\ From(j) = j
      BY <1>1, <2>4
    <3>2. j < pollSize' => j < pollSize
      BY <1>1, <1>3 DEF Sockets
    <3> QED BY <2>4, <3>1, <3>2
  <2> QED BY <2>1, <2>2, <2>3, <2>4
<1>5. \A j, k \in Sockets : j # last /\ k # last /\ j # k => From(j) # From(k)
  OBVIOUS
<1> HIDE DEF From
<1>6. SocketOwner'
  <2>1. ASSUME NEW j \in Sockets
        PROVE  /\ j # 0 /\ j < pollSize' => socket'[j].u # 0
               /\ socket'[j].state = "Destroy" => socket'[j].destroy
               /\ socket'[j].destroy => socket'[j].u # 0
               /\ socket'[j].u # 0 =>
                    /\ socket'[j].u \in DOMAIN book' /\ book'[socket'[j].u].kind = "socket"
                    /\ book'[socket'[j].u].destroy = socket'[j].destroy
               /\ socket'[j].u # 0 /\ j < pollSize' => book'[socket'[j].u].fd = pollfd'[j].fd
    <3>1. PICK k \in Sockets :
            /\ socket'[j].u = socket[k].u /\ socket'[j].destroy = socket[k].destroy
            /\ socket'[j].state # "Free" => socket'[j].state = socket[k].state
            /\ j < pollSize' => k < pollSize /\ pollfd'[j] = pollfd[k] /\ (j # 0 => k # 0)
      BY <1>4
    <3> QED BY <1>2, <3>1 DEF SocketHist, SocketOwner
  <2>2. ASSUME NEW j \in Sockets, NEW k \in Sockets, j # k, LiveSocket(j)', LiveSocket(k)',
               socket'[j].u # 0
        PROVE  socket'[j].u # socket'[k].u
    <3>1. socket'[j].state # "Free" /\ socket'[k].state # "Free"
      BY <1>2, <2>2 DEF LiveSocket
    <3>2. /\ From(j) \in Sockets /\ From(k) \in Sockets /\ From(j) # From(k)
          /\ socket[From(j)].state # "Free" /\ socket[From(k)].state # "Free"
          /\ socket'[j].u = socket[From(j)].u /\ socket'[k].u = socket[From(k)].u
      BY <1>4, <1>5, <2>2, <3>1
    <3> QED BY <2>2, <3>2 DEF LiveSocket, SocketHist, SocketOwner
  <2> QED BY <1>2, <2>1, <2>2 DEF SocketOwner
<1>7. SocketNotFreed'
  <2>1. ASSUME NEW j \in Sockets, socket'[j].u # 0,
               LiveSocket(j)' \/ HandedOut("socketAction", j)'
        PROVE  book'[socket'[j].u].freed = 0
    <3>1. socket'[j].state # "Free"
      BY <1>2, <2>1 DEF LiveSocket
    <3>2. /\ From(j) \in Sockets /\ socket[From(j)].state # "Free"
          /\ socket'[j].u = socket[From(j)].u
      BY <1>4, <3>1
    <3> QED BY <1>2, <2>1, <3>2 DEF LiveSocket, SocketHist, SocketNotFreed
  <2> QED BY <2>1 DEF SocketNotFreed
<1> QED BY <1>6, <1>7 DEF SocketHist

LEMMA SocketHistNext ==
  ASSUME Inv, Inv', WakeupEntry, Owners, NotFreed, [Next]_vars, ~Destroy
  PROVE  SocketHist'
<1>1. BookMoves /\ SocketHist
  BY NextBookMoves DEF Owners, NotFreed, SocketHist
<1>2. \A j \in Sockets :
        /\ HandedOut("socketDestroy", j) => j # 0 /\ j < pollSize /\ socket[j].destroy
                                            /\ socket[j].state = "Free" /\ LiveSocket(j)
        /\ HandedOut("socketAction", j) => j < pollSize
        /\ socket[j].state = "Destroy" => socket[j].destroy
  BY <1>1 DEF SocketHist, SocketOwner, LiveSocket
<1>3. \A j \in Sockets :
        socket[j].u # 0 /\ (socket[j].state # "Free" \/ pc' = "event")
          => book'[socket[j].u].freed = book[socket[j].u].freed
  BY SocketFreedKept
<1>4. \A e, j : HandedOut(e, j)' => pc' = "event"
  BY DEF HandedOut
<1>5. CASE ~SocketStep
  <2>1. /\ UNCHANGED <<socket, pollSize>>
        /\ \A j \in Sockets : pollfd'[j].fd = pollfd[j].fd
        /\ \A e \in SocketEvents, j \in Sockets : HandedOut(e, j)' => HandedOut(e, j)
    BY <1>5, NoSocketStep
  <2> QED BY <1>1, <1>2, <1>3, <1>4, <2>1, SocketHistKept DEF SocketEvents
<1>6. ASSUME NEW fd, NEW h, AddSocket(fd, h) PROVE SocketHist'
  BY <1>1, <1>6, SocketHistAdded
<1>7. CASE CollectFree
  BY <1>1, <1>7, SocketHistMoved
<1>8. "Action" \in States /\ "Destroy" \in States /\ "Free" \in States /\ "Used" \in States
  BY DEF States
<1>9. ASSUME NEW fd, RemoveSocket(fd) PROVE SocketHist'
  <2>1. PICK i \in Sockets :
          /\ socket[i].state \notin {"Destroy", "Free"}
          /\ \/ socket' = [socket EXCEPT ![i].state = "Free"]
             \/ socket' = [socket EXCEPT ![i].state = "Destroy"] /\ socket[i].destroy
    BY <1>9 DEF RemoveSocket
  <2>2. PICK st \in {"Free", "Destroy"} :
          /\ socket' = [socket EXCEPT ![i].state = st]
          /\ st = "Destroy" => socket[i].destroy
    BY <2>1
  <2>3. \A j \in Sockets :
          /\ socket'[j].state = IF j = i THEN st ELSE socket[j].state
          /\ socket'[j].u = socket[j].u /\ socket'[j].destroy = socket[j].destroy
    <3>1. st \in States
      BY <1>8, <2>2
    <3> QED BY <2>2, <3>1, SocketOnlyState
  <2>4. UNCHANGED <<pollfd, pollSize>> /\ \A e, j : HandedOut(e, j)' <=> HandedOut(e, j)
    BY <1>9, SameEvent DEF RemoveSocket
  <2>5. \A j \in Sockets : HandedOut("socketDestroy", j)' => j # i
    BY <1>2, <2>1, <2>4
  <2> QED BY <1>1, <1>2, <1>3, <1>4, <2>1, <2>2, <2>3, <2>4, <2>5, SocketHistKept
<1>0. PICK i : i = Head(pending).i
  OBVIOUS
<1>10. ASSUME NEW st, Draining("socket", st)
       PROVE  /\ i \in Sockets /\ i < pollSize /\ socket[i].state = st /\ pc = "drain"
              /\ st = "Destroy" => i # 0
  <2>1. i \in Sockets /\ i \in Pending("socket") /\ socket[i].state = st
    BY <1>0, <1>10, DrainingSocket
  <2>2. i \in 0 .. pollSize - 1
    BY <2>1 DEF Inv, SocketTable
  <2>3. i < pollSize
    BY <2>2 DEF Inv, TypeOK
  <2>4. st = "Destroy" => i # 0
    BY <2>1 DEF WakeupEntry
  <2> QED BY <1>10, <2>1, <2>3, <2>4 DEF Draining
<1>11. CASE DrainSocketUsed
  <2>1. /\ i \in Sockets /\ socket[i].state = "Used" /\ i < pollSize
        /\ socket' = [socket EXCEPT ![i].state = "Action"]
    BY <1>0, <1>10, <1>11 DEF DrainSocketUsed, EnterAction
  <2>2. cur' = Event("socketAction", i) /\ UNCHANGED <<pollfd, pollSize>>
    BY <1>0, <1>11 DEF DrainSocketUsed, Requeue
  <2>3. \A j \in Sockets :
          /\ socket'[j].state = IF j = i THEN "Action" ELSE socket[j].state
          /\ socket'[j].u = socket[j].u /\ socket'[j].destroy = socket[j].destroy
    BY <1>8, <2>1, SocketOnlyState
  <2>4. \A j : ~HandedOut("socketDestroy", j)' /\ (HandedOut("socketAction", j)' => j = i)
    BY <2>2 DEF HandedOut, Event
  <2>5. LiveSocket(i)
    BY <2>1 DEF LiveSocket
  <2> QED BY <1>1, <1>2, <1>3, <1>4, <2>1, <2>2, <2>3, <2>4, <2>5, SocketHistKept
<1>12. CASE DrainSocketAction
  <2>1. i \in Sockets /\ socket[i].state = "Action"
    BY <1>10, <1>12 DEF DrainSocketAction
  <2>2. PICK st \in {"Used", "Free", "Destroy"} :
          /\ socket' = [socket EXCEPT ![i].state = st]
          /\ st = "Destroy" => socket[i].destroy
    BY <1>0, <1>12 DEF DrainSocketAction
  <2>3. \A j \in Sockets :
          /\ socket'[j].state = IF j = i THEN st ELSE socket[j].state
          /\ socket'[j].u = socket[j].u /\ socket'[j].destroy = socket[j].destroy
    <3>1. st \in States
      BY <1>8, <2>2
    <3> QED BY <2>1, <2>2, <3>1, SocketOnlyState
  <2>4. UNCHANGED <<pollfd, pollSize>> /\ \A e, j : ~HandedOut(e, j)'
    BY <1>12 DEF DrainSocketAction, Draining, worker, HandedOut
  <2> QED BY <1>1, <1>2, <1>3, <1>4, <2>1, <2>2, <2>3, <2>4, SocketHistKept
<1>13. CASE DrainSocketDestroy
  <2>1. /\ i \in Sockets /\ socket[i].state = "Destroy" /\ i < pollSize /\ i # 0
        /\ socket' = [socket EXCEPT ![i].state = "Free"]
    BY <1>0, <1>10, <1>13 DEF DrainSocketDestroy
  <2>2. cur' = Event("socketDestroy", i) /\ UNCHANGED <<pollfd, pollSize>>
    BY <1>0, <1>13 DEF DrainSocketDestroy
  <2>3. \A j \in Sockets :
          /\ socket'[j].state = IF j = i THEN "Free" ELSE socket[j].state
          /\ socket'[j].u = socket[j].u /\ socket'[j].destroy = socket[j].destroy
    BY <1>8, <2>1, SocketOnlyState
  <2>4. \A j : ~HandedOut("socketAction", j)' /\ (HandedOut("socketDestroy", j)' => j = i)
    BY <2>2 DEF HandedOut, Event
  <2>5. LiveSocket(i)
    BY <2>1 DEF LiveSocket
  <2> QED BY <1>1, <1>2, <1>3, <1>4, <2>1, <2>2, <2>3, <2>4, <2>5, SocketHistKept
<1> QED BY <1>5, <1>6, <1>7, <1>9, <1>11, <1>12, <1>13 DEF SocketStep


-----------------------------------------------------------------------------
(* The invariant of the history. *)
LEMMA NextFreedOnce ==
  ASSUME Inv, Owners, NotFreed, BookMoves, [Next]_vars, ~Destroy
  PROVE  FreedOnce'
<1>1. ASSUME NEW u \in DOMAIN book, book'[u].freed # book[u].freed
      PROVE  book[u].destroy /\ book'[u].freed = 1
  <2>1. Call /\ u # 0
    BY <1>1, BookDomain DEF BookMoves, Inv
  <2>2. PICK k : \/ k \in Timers /\ HandedOut("timerDestroy", k) /\ timer[k].u = u
                 \/ k \in Sockets /\ HandedOut("socketDestroy", k) /\ socket[k].u = u
                 \/ k \in Dispatches /\ HandedOut("dispatchDestroy", k) /\ dispatched[k].u = u
    BY <1>1, <2>1, CallEffects
  <2>3. book[u].destroy /\ book[u].freed = 0
    <3>1. (k \in Timers /\ HandedOut("timerDestroy", k) /\ timer[k].u = u)
             => book[u].destroy /\ book[u].freed = 0
      BY <2>1 DEF Owners, TimerOwner, NotFreed, TimerNotFreed
    <3>2. (k \in Sockets /\ HandedOut("socketDestroy", k) /\ socket[k].u = u)
             => book[u].destroy /\ book[u].freed = 0
      BY <2>1 DEF Owners, SocketOwner, NotFreed, SocketNotFreed, LiveSocket
    <3>3. (k \in Dispatches /\ HandedOut("dispatchDestroy", k) /\ dispatched[k].u = u)
             => book[u].destroy /\ book[u].freed = 0
      BY <2>1 DEF Owners, DispatchOwner, NotFreed, DispatchNotFreed
    <3> QED BY <2>2, <3>1, <3>2, <3>3
  <2> QED BY <1>1, <2>1, <2>3, CallEffects DEF Bump
<1>2. ASSUME NEW u \in DOMAIN book'
      PROVE  book'[u].freed <= (IF book'[u].destroy THEN 1 ELSE 0)
  <2>1. CASE u \in DOMAIN book /\ book'[u].freed # book[u].freed
    BY <1>1, <2>1 DEF BookMoves, Fixed
  <2>2. CASE u \in DOMAIN book /\ book'[u].freed = book[u].freed
    BY <2>2 DEF BookMoves, Fixed, NotFreed, FreedOnce
  <2>3. CASE u \notin DOMAIN book
    BY <1>2, <2>3 DEF BookMoves, Fresh
  <2> QED BY <2>1, <2>2, <2>3
<1> QED BY <1>2 DEF FreedOnce

\* Teardown calls what is in use once: nothing else is handed to it.
LEMMA TeardownOnce ==
  ASSUME Inv, Owners, NotFreed, Destroy, NEW u \in DOMAIN book, book[u].freed = 0,
         \A node \in ToSet(pending) : EntryOf(node).u # u,
         \/ \E i \in ToSet(usedTimer) : timer[i].u = u /\ timer[i].destroy
         \/ \E i \in ToSet(usedSocket) :
              socket[i].u = u /\ socket[i].destroy /\ socket[i].state = "Used"
  PROVE  book'[u].freed = 1
<1>1. pending # <<>> => Head(pending) \in ToSet(pending)
  BY TailList DEF Inv, TypeOK
<1>2. DestroyCalls(u) = 1
  BY <1>1 DEF DestroyCalls
<1> DEFINE n == IF book[u].freed + DestroyCalls(u) < 3 THEN book[u].freed + DestroyCalls(u) ELSE 3
<1>3. n = 1
  BY <1>2
<1>4. book'[u] = [book[u] EXCEPT !.freed = n]
  BY DEF Destroy
<1>5. book[u] \in Registration
  BY BookDomain DEF Inv
<1> QED BY <1>3, <1>4, <1>5, RegistrationFields

LEMMA DestroyReleases ==
  ASSUME Inv, Owners, NotFreed, Destroy
  PROVE  TeardownReleasesUsed'
<1>1. UNCHANGED <<timer, socket, usedTimer, usedSocket>>
  BY DEF Destroy, entries, lists
<1>2. \A node \in ToSet(pending) :
        /\ node \in Nodes
        /\ node.kind = "timer" => node.i \in Pending("timer") /\ EntryOf(node) = timer[node.i]
        /\ node.kind = "socket" => node.i \in Pending("socket") /\ EntryOf(node) = socket[node.i]
        /\ node.kind = "dispatch" => node.i \in Dispatches /\ EntryOf(node) = dispatched[node.i]
  <2> SUFFICES ASSUME NEW node \in ToSet(pending)
      PROVE /\ node \in Nodes
            /\ node.kind = "timer" => node.i \in Pending("timer") /\ EntryOf(node) = timer[node.i]
            /\ node.kind = "socket" => node.i \in Pending("socket") /\ EntryOf(node) = socket[node.i]
            /\ node.kind = "dispatch" => node.i \in Dispatches /\ EntryOf(node) = dispatched[node.i]
    OBVIOUS
  <2>1. node \in Nodes
    BY DEF Inv, TypeOK, ToSet
  <2>2. node.i \in Pending(node.kind)
    BY DEF Pending, OfKind
  <2>3. node.kind = "dispatch" => node.i \in Dispatches
    BY <2>1 DEF Nodes
  <2> QED BY <2>1, <2>2, <2>3 DEF EntryOf
<1>3. \A node \in ToSet(pending) : node.kind \in {"timer", "socket", "dispatch"}
  BY <1>2 DEF Nodes
<1>4. ASSUME NEW i \in ToSet(usedTimer), timer[i].destroy
      PROVE  book'[timer[i].u].freed = 1
  <2>1. i \in Timers /\ timer[i].state = "Used"
    BY DEF Inv, ListsMatchStates, TimerLists
  <2>2. PICK u : u = timer[i].u
    OBVIOUS
  <2>3. /\ u # 0 /\ u \in DOMAIN book /\ book[u].kind = "timer" /\ book[u].i = i
        /\ book[u].freed = 0
    BY <2>1, <2>2 DEF Owners, TimerOwner, NotFreed, TimerNotFreed, Armed
  <2>4. ASSUME NEW node \in ToSet(pending)
        PROVE  EntryOf(node).u # u
    <3>1. CASE node.kind = "timer"
      <4>1. node.i \in Timers /\ timer[node.i].state # "Used" /\ EntryOf(node) = timer[node.i]
        BY <1>2, <3>1 DEF Inv, ListsMatchStates, TimerLists
      <4> QED BY <2>1, <2>3, <4>1 DEF Owners, TimerOwner
    <3>2. CASE node.kind = "socket"
      <4>1. node.i \in Sockets /\ EntryOf(node) = socket[node.i]
        <5>1. node \in Nodes
          BY <1>2
        <5> QED BY <1>2, <3>2, <5>1 DEF Nodes
      <4> QED BY <2>3, <4>1 DEF Owners, SocketOwner
    <3>3. CASE node.kind = "dispatch"
      BY <1>2, <2>3, <3>3 DEF Owners, DispatchOwner
    <3> QED BY <1>3, <3>1, <3>2, <3>3
  <2>5. book'[u].freed = 1
    BY <1>4, <2>2, <2>3, <2>4, TeardownOnce
  <2> QED BY <2>2, <2>5
<1>5. ASSUME NEW i \in ToSet(usedSocket), socket[i].state = "Used", socket[i].destroy
      PROVE  book'[socket[i].u].freed = 1
  <2>1. i \in Sockets /\ LiveSocket(i)
    BY <1>5 DEF Inv, TypeOK, ToSet, LiveSocket
  <2>2. PICK u : u = socket[i].u
    OBVIOUS
  <2>3. u # 0 /\ u \in DOMAIN book /\ book[u].kind = "socket" /\ book[u].freed = 0
    BY <1>5, <2>1, <2>2 DEF Owners, SocketOwner, NotFreed, SocketNotFreed
  <2>4. ASSUME NEW node \in ToSet(pending)
        PROVE  EntryOf(node).u # u
    <3>1. CASE node.kind = "timer"
      <4>1. node.i \in Timers /\ EntryOf(node) = timer[node.i]
        BY <1>2, <3>1 DEF Inv, ListsMatchStates, TimerLists
      <4> QED BY <2>3, <4>1 DEF Owners, TimerOwner
    <3>2. CASE node.kind = "socket"
      <4>1. /\ node.i \in Sockets /\ EntryOf(node) = socket[node.i]
            /\ node.i # i /\ socket[node.i].state # "Free"
        <5>1. node \in Nodes /\ node.i \in Pending("socket")
          BY <1>2, <3>2
        <5>2. node.i \in Sockets
          BY <3>2, <5>1 DEF Nodes
        <5> QED BY <1>2, <3>2, <5>1, <5>2 DEF Inv, SocketTable, ListsMatchStates, SocketLists
      <4> QED BY <2>1, <2>2, <2>3, <4>1 DEF LiveSocket, Owners, SocketOwner
    <3>3. CASE node.kind = "dispatch"
      BY <1>2, <2>3, <3>3 DEF Owners, DispatchOwner
    <3> QED BY <1>3, <3>1, <3>2, <3>3
  <2>5. book'[u].freed = 1
    BY <1>5, <2>2, <2>3, <2>4, TeardownOnce
  <2> QED BY <2>2, <2>5
<1> QED BY <1>1, <1>4, <1>5 DEF TeardownReleasesUsed

\* Only teardown ends the life of a looper, and nothing happens to it then.
LEMMA Terminal ==
  ASSUME [Next]_vars
  PROVE  /\ pc = "destroyed" => UNCHANGED vars
         /\ pc # "destroyed" /\ ~Destroy => pc' # "destroyed"
<1>1. CASE NextEvent
  BY <1>1 DEF NextEvent, FireTimer, StartDrain, DrainTimerAction, DrainTimerDestroy,
     DrainSocketUsed, DrainSocketAction, DrainSocketDestroy, DrainDispatchUsed,
     DrainDispatchAction, DrainDispatchDone, StartCollect, CollectUsed, CollectFree,
     NoEventLeft, Draining, Requeue, worker
<1>2. CASE Callers
  <2>1. pc # "destroyed"
    BY <1>2 DEF Callers, SetTimer, ClearTimer, AddSocket, RemoveSocket, Dispatch, Wakeup,
       MayCall, MutexFree
  <2> QED BY <1>2, <2>1, CallersKeep DEF worker
<1>3. CASE Tick \/ UNCHANGED vars
  BY <1>3 DEF Tick, MutexFree, worker, vars
<1>4. CASE Call \/ Return \/ PollEnter \/ PollWoken \/ PollReady \/ Stop \/ Destroy
  BY <1>4 DEF Call, Return, PollEnter, PollWoken, PollReady, PollReturn, Stop, Destroy
<1> QED BY <1>1, <1>2, <1>3, <1>4 DEF Next, Worker

LEMMA NextHistory ==
  ASSUME LooperInv, LooperInv', HistoryInv, [Next]_vars
  PROVE  HistoryInv'
<1>0. Inv /\ Inv' /\ WakeupEntry /\ BookOK
  BY DEF LooperInv
<1>1. CASE pc = "destroyed"
  <2>1. UNCHANGED vars
    BY <1>1, Terminal
  <2> QED BY <1>1, <2>1 DEF HistoryInv, TeardownReleasesUsed, vars
<1>2. CASE Destroy
  <2>1. pc = "stopped" /\ pc' = "destroyed"
    BY <1>2 DEF Destroy
  <2> QED BY <1>0, <1>2, <2>1, DestroyReleases DEF HistoryInv
<1>3. CASE pc # "destroyed" /\ ~Destroy
  <2>1. pc' # "destroyed"
    BY <1>3, Terminal
  <2>2. Owners /\ NotFreed
    BY <1>3 DEF HistoryInv
  <2>3. FreedOnce'
    BY <1>0, <1>3, <2>2, NextBookMoves, NextFreedOnce
  <2>4. TimerHist' /\ DispatchHist' /\ SocketHist'
    BY <1>0, <1>3, <2>2, TimerHistNext, DispatchHistNext, SocketHistNext
  <2> QED BY <2>1, <2>3, <2>4 DEF HistoryInv, Owners, NotFreed, TimerHist, DispatchHist,
             SocketHist, TeardownReleasesUsed
<1> QED BY <1>1, <1>2, <1>3

LEMMA InitHistory == Init => HistoryInv
<1> SUFFICES ASSUME Init PROVE HistoryInv
  OBVIOUS
<1>1. /\ \A i \in Timers : timer[i].u = 0 /\ timer[i].state = "Free" /\ ~timer[i].destroy
      /\ \A i \in Dispatches : dispatched[i].u = 0 /\ dispatched[i].state = "Free"
      /\ book = <<>> /\ pc = "idle" /\ pollSize = 1
  BY DEF Init
<1>2. \A i \in Sockets : socket[i].u = 0 /\ ~socket[i].destroy /\ socket[i].state # "Destroy"
  BY DEF Init
<1>3. \A e, i : ~HandedOut(e, i)
  BY <1>1 DEF HandedOut
<1>4. \A i \in Sockets : i < pollSize => i = 0
  BY <1>1, LimitsAssumption DEF Sockets
<1>5. Owners
  BY <1>1, <1>2, <1>3, <1>4 DEF Owners, TimerOwner, DispatchOwner, SocketOwner
<1>6. NotFreed
  <2>1. DOMAIN book = {}
    BY <1>1
  <2> QED BY <1>1, <1>2, <1>3, <2>1 DEF NotFreed, FreedOnce, TimerNotFreed, DispatchNotFreed,
             SocketNotFreed, Armed
<1> QED BY <1>1, <1>5, <1>6 DEF HistoryInv, TeardownReleasesUsed

LEMMA HistoryInvariant == Spec => [](LooperInv /\ HistoryInv)
<1>1. LooperInv /\ LooperInv' /\ HistoryInv /\ [Next]_vars => HistoryInv'
  BY NextHistory
<1> QED BY <1>1, InitHistory, LooperInvariant, PTL DEF Spec

\* Teardown calls the destroy handler of every timer and socket still in use,
\* once, and no step had called it before (NQNetworkLooper_destroy).
THEOREM TeardownReleases == Spec => []TeardownReleasesUsed
<1>1. HistoryInv => TeardownReleasesUsed
  BY DEF HistoryInv
<1> QED BY <1>1, HistoryInvariant, PTL


-----------------------------------------------------------------------------
(* Calls and releases. *)
LEMMA NotCalledAfterRelease ==
  ASSUME Inv, HistoryInv, [Next]_vars
  PROVE  \A u \in DOMAIN book : book'[u].ran # book[u].ran => book[u].freed = 0
<1> SUFFICES ASSUME NEW u \in DOMAIN book, book'[u].ran # book[u].ran
             PROVE  book[u].freed = 0
  OBVIOUS
<1>1. Call /\ u # 0
  BY NextBookMoves, BookDomain DEF BookMoves, Inv
<1>2. Owners /\ NotFreed
  BY <1>1 DEF Call, HistoryInv
<1>3. PICK k : \/ k \in Timers /\ HandedOut("timerAction", k) /\ timer[k].u = u
               \/ k \in Sockets /\ HandedOut("socketAction", k) /\ socket[k].u = u
               \/ k \in Dispatches /\ HandedOut("dispatchAction", k) /\ dispatched[k].u = u
  BY <1>1, CallEffects
<1>4. k \in Timers /\ HandedOut("timerAction", k) /\ timer[k].u = u => book[u].freed = 0
  BY <1>2 DEF NotFreed, TimerNotFreed
<1>5. k \in Sockets /\ HandedOut("socketAction", k) /\ socket[k].u = u => book[u].freed = 0
  BY <1>1, <1>2 DEF NotFreed, SocketNotFreed
<1>6. k \in Dispatches /\ HandedOut("dispatchAction", k) /\ dispatched[k].u = u => book[u].freed = 0
  BY <1>2 DEF NotFreed, DispatchNotFreed, Armed
<1> QED BY <1>3, <1>4, <1>5, <1>6

\* A handler is never called after the destroy handler of its registration
\* was: the userdata it gets has not been released (performOnce2), whatever
\* other threads clear or remove between nextEvent and the call.
THEOREM NeverCalledAfterRelease == Spec => NoCallAfterRelease
<1>1. LooperInv /\ HistoryInv /\ [Next]_vars =>
        [\A u \in DOMAIN book : book'[u].ran # book[u].ran => book[u].freed = 0]_vars
  BY NotCalledAfterRelease DEF LooperInv
<1> QED BY <1>1, HistoryInvariant, PTL DEF Spec, NoCallAfterRelease

LEMMA CalledWithOwnHandle ==
  ASSUME Inv, HistoryInv, Call, cur.event \in {"socketAction", "socketDestroy"}, cur'.u # 0
  PROVE  book[cur'.u].kind = "socket" /\ book[cur'.u].fd = pollfd[cur.i].fd
<1>1. pc = "event" /\ cur.i \in Sockets
  BY DEF Call, Inv, EventOK
<1>2. cur' = [cur EXCEPT !.u = socket[cur.i].u] /\ cur \in [event : EventNames, i : Nat, u : Tokens]
  BY DEF Call, UserdataOf, Inv, TypeOK
<1>3. cur'.u = socket[cur.i].u
  BY <1>2
<1>4. SocketOwner
  BY <1>1 DEF HistoryInv, Owners
<1>5. HandedOut("socketAction", cur.i) \/ HandedOut("socketDestroy", cur.i)
  BY <1>1 DEF HandedOut
<1> QED BY <1>1, <1>3, <1>4, <1>5 DEF SocketOwner

\* However often compaction moved a socket's entry, its handlers are called
\* with the handle it was registered with.
THEOREM CalledWithTheOwnHandle == Spec => OwnHandle
<1>1. LooperInv /\ HistoryInv /\ [Next]_vars =>
        [Call /\ cur.event \in {"socketAction", "socketDestroy"} /\ cur'.u # 0
           => book[cur'.u].kind = "socket" /\ book[cur'.u].fd = pollfd[cur.i].fd]_vars
  BY CalledWithOwnHandle DEF LooperInv
<1> QED BY <1>1, HistoryInvariant, PTL DEF Spec, OwnHandle

-----------------------------------------------------------------------------
(* Where no other thread clears timers: what nextEvent hands out is called.    *)
LEMMA ClearedInHandler ==
  ASSUME "clearTimer" \notin Foreign, NEW u, NEW b, ClearTimer(u, b)
  PROVE  \A e, i : ~HandedOut(e, i) /\ ~HandedOut(e, i)'
<1>1. pc = "callback" /\ UNCHANGED worker
  BY DEF ClearTimer, MayCall, InHandler
<1> QED BY <1>1 DEF HandedOut, worker

LEMMA ActionInHand ==
  ASSUME Inv, BookOK, "clearTimer" \notin Foreign, [Next]_vars,
         \A i \in Timers : HandedOut("timerAction", i) => timer[i].state = "Action"
  PROVE  \A i \in Timers : HandedOut("timerAction", i)' =>
           /\ timer'[i].state = "Action" /\ timer'[i].u = timer[i].u
           /\ timer'[i].interval = timer[i].interval
           /\ HandedOut("timerAction", i) \/ (timer[i].state = "Used" /\ Due(i) /\ FireTimer)
<1>1. CASE ~TimerStep
  BY <1>1, NoTimerStep DEF TimerEvents
<1>2. ASSUME NEW d, NEW v, NEW h, SetTimer(d, v, h)
      PROVE  \A i \in Timers : HandedOut("timerAction", i)' =>
               timer'[i] = timer[i] /\ HandedOut("timerAction", i)
  <2>1. PICK j : j = Head(freeTimer) /\ TimerSetAt(j, d, v, h)
    BY <1>2, TimerSet
  <2>2. \A e, i : HandedOut(e, i)' <=> HandedOut(e, i)
    BY <1>2, SameEvent DEF SetTimer
  <2> QED BY <2>1, <2>2 DEF TimerSetAt
<1>3. ASSUME NEW u, NEW b, ClearTimer(u, b)
      PROVE  \A i : ~HandedOut("timerAction", i)'
  BY <1>3, ClearedInHandler
<1>4. CASE FireTimer
  <2>1. PICK i : i = Head(usedTimer)
    OBVIOUS
  <2>2. i \in Timers /\ timer[i].state = "Used" /\ Due(i)
    <3>1. usedTimer \in Seq(Timers) /\ usedTimer # <<>>
      BY <1>4 DEF Inv, TypeOK, FireTimer
    <3>2. i \in ToSet(usedTimer)
      BY <2>1, <3>1, TailList
    <3>3. Due(i)
      BY <1>4, <2>1 DEF FireTimer
    <3> QED BY <3>2, <3>3 DEF Inv, ListsMatchStates, TimerLists
  <2>3. timer' = [timer EXCEPT ![i].state = "Action"] /\ cur' = Event("timerAction", i)
    BY <1>4, <2>1 DEF FireTimer, EnterAction
  <2>4. "Action" \in States
    BY DEF States
  <2>5. TimerKeptBut(i) /\ timer'[i].state = "Action"
    BY <2>2, <2>3, <2>4, TimerKept
  <2>6. \A j : HandedOut("timerAction", j)' => j = i
    BY <2>3 DEF HandedOut, Event
  <2> QED BY <1>4, <2>2, <2>5, <2>6 DEF TimerKeptBut
<1>5. CASE DrainTimerAction
  <2>1. \A j : ~HandedOut("timerAction", j)'
    BY <1>5 DEF DrainTimerAction, Draining, HandedOut, Requeue, Event
  <2> QED BY <2>1
<1>6. CASE DrainTimerDestroy
  <2>1. \A e, j : ~HandedOut(e, j)'
    BY <1>6 DEF DrainTimerDestroy, Draining, worker, HandedOut
  <2> QED BY <2>1
<1> QED BY <1>1, <1>2, <1>3, <1>4, <1>5, <1>6 DEF TimerStep


\* The entries keep their owners, but for the one setTimer gives away.
LEMMA TimersStep ==
  ASSUME Inv, BookOK, [Next]_vars
  PROVE  \/ \E d, v, h : SetTimer(d, v, h)
         \/ \A i \in Timers :
              /\ timer'[i].u = timer[i].u /\ timer'[i].nonce = timer[i].nonce
              /\ timer'[i].interval = timer[i].interval /\ timer[i].time <= timer'[i].time
              /\ timer'[i].state = "Used" =>
                   timer[i].state = "Used" \/ (timer[i].state = "Action" /\ timer[i].interval # 0)
              /\ timer'[i].state \in Armed => timer[i].state \in Armed
<1>0. \A i \in Timers : timer[i].time \in Int
  BY TimerTypes
<1>1. CASE ~TimerStep
  BY <1>0, <1>1, NoTimerStep
<1>2. ASSUME NEW u \in DOMAIN book, NEW b, ClearTimer(u, b)
      PROVE  \E i : TimerKeptBut(i) /\ timer'[i].state \notin Armed
  BY <1>2, TimerCleared DEF TimerClearedAt, Armed
<1>3. CASE FireTimer
  <2>1. PICK i : i = Head(usedTimer)
    OBVIOUS
  <2>2. i \in Timers /\ timer[i].state = "Used"
    <3>1. usedTimer \in Seq(Timers) /\ usedTimer # <<>>
      BY <1>3 DEF Inv, TypeOK, FireTimer
    <3>2. i \in ToSet(usedTimer)
      BY <2>1, <3>1, TailList
    <3> QED BY <3>2 DEF Inv, ListsMatchStates, TimerLists
  <2>3. timer' = [timer EXCEPT ![i].state = "Action"] /\ "Action" \in States
    BY <1>3, <2>1 DEF FireTimer, EnterAction, States
  <2>4. TimerKeptBut(i) /\ timer'[i].state = "Action"
    BY <2>2, <2>3, TimerKept
  <2> QED BY <2>2, <2>4 DEF TimerKeptBut, Armed
<1>4. CASE DrainTimerAction
  BY <1>4, TimerDrained DEF TimerDrainedAt, TimerKeptBut, Armed
<1>5. CASE DrainTimerDestroy
  <2>1. PICK i : i = Head(pending).i
    OBVIOUS
  <2>2. i \in Timers /\ timer' = [timer EXCEPT ![i].state = "Free"] /\ "Free" \in States
    BY <1>5, <2>1, DrainingTimer DEF DrainTimerDestroy, States
  <2>3. TimerKeptBut(i) /\ timer'[i].state = "Free"
    BY <2>2, TimerKept
  <2> QED BY <2>3 DEF TimerKeptBut, Armed
<1>6. ASSUME NEW i, TimerKeptBut(i), timer'[i].state \notin Armed
      PROVE  \A j \in Timers :
               /\ timer'[j].u = timer[j].u /\ timer'[j].nonce = timer[j].nonce
               /\ timer'[j].interval = timer[j].interval /\ timer[j].time <= timer'[j].time
               /\ timer'[j].state = "Used" => timer[j].state = "Used"
               /\ timer'[j].state \in Armed => timer[j].state \in Armed
  BY <1>6 DEF TimerKeptBut, Armed
<1> QED BY <1>1, <1>2, <1>3, <1>4, <1>5, <1>6 DEF TimerStep

LEMMA DispatchesStep ==
  ASSUME Inv, [Next]_vars
  PROVE  \/ \E h : Dispatch(h)
         \/ \A i \in Dispatches :
              /\ dispatched'[i].u = dispatched[i].u
              /\ dispatched'[i].state = "Used" => dispatched[i].state = "Used"
              /\ HandedOut("dispatchAction", i)' =>
                   dispatched[i].state = "Used" \/ HandedOut("dispatchAction", i)
<1>1. CASE ~DispatchStep
  BY <1>1, NoDispatchStep DEF DispatchEvents
<1>0. PICK i : i = Head(pending).i
  OBVIOUS
<1>2. ASSUME NEW st \in States \ {"Used"}, i \in Dispatches,
             dispatched' = [dispatched EXCEPT ![i].state = st]
      PROVE  \A j \in Dispatches :
               /\ dispatched'[j].u = dispatched[j].u
               /\ dispatched'[j].state = "Used" => dispatched[j].state = "Used"
  <2>1. \A j \in Dispatches :
          /\ dispatched'[j].state = IF j = i THEN st ELSE dispatched[j].state
          /\ dispatched'[j].u = dispatched[j].u
    BY <1>2, DispatchOnlyState
  <2> QED BY <1>2, <2>1
<1>3. "Action" \in States \ {"Used"} /\ "Destroy" \in States \ {"Used"} /\ "Free" \in States \ {"Used"}
  BY DEF States
<1>4. CASE DrainDispatchUsed
  <2>1. /\ i \in Dispatches /\ dispatched[i].state = "Used"
        /\ dispatched' = [dispatched EXCEPT ![i].state = "Action"]
    BY <1>0, <1>4, DrainingDispatch DEF DrainDispatchUsed, EnterAction
  <2>2. \A j : HandedOut("dispatchAction", j)' => j = i
    BY <1>0, <1>4 DEF DrainDispatchUsed, Requeue, HandedOut, Event
  <2> QED BY <1>2, <1>3, <2>1, <2>2
<1>5. CASE DrainDispatchAction
  <2>1. i \in Dispatches /\ dispatched' = [dispatched EXCEPT ![i].state = "Destroy"]
    BY <1>0, <1>5, DrainingDispatch DEF DrainDispatchAction
  <2>2. \A j : ~HandedOut("dispatchAction", j)'
    BY <1>5 DEF DrainDispatchAction, Requeue, HandedOut, Event
  <2> QED BY <1>2, <1>3, <2>1, <2>2
<1>6. CASE DrainDispatchDone
  <2>1. i \in Dispatches /\ dispatched' = [dispatched EXCEPT ![i].state = "Free"]
    BY <1>0, <1>6, DrainingDispatch DEF DrainDispatchDone
  <2>2. \A j : ~HandedOut("dispatchAction", j)'
    BY <1>6 DEF DrainDispatchDone, Draining, worker, HandedOut
  <2> QED BY <1>2, <1>3, <2>1, <2>2
<1> QED BY <1>1, <1>4, <1>5, <1>6 DEF DispatchStep

(* Who is called is in its action, or its record keeps its count. *)
LEMMA RanKept ==
  ASSUME Inv, Owners, NotFreed, [Next]_vars,
         \A i \in Timers : HandedOut("timerAction", i) => timer[i].state = "Action"
  PROVE  /\ \A i \in Timers :
              timer[i].u # 0 /\ (timer[i].state = "Used" \/ pc' = "event")
                => book'[timer[i].u].ran = book[timer[i].u].ran
         /\ \A i \in Dispatches :
              dispatched[i].u # 0 /\ (dispatched[i].state = "Used" \/ pc' = "event")
                => book'[dispatched[i].u].ran = book[dispatched[i].u].ran
<1>1. CASE ~Call
  BY <1>1, NextBookMoves DEF BookMoves, Owners, TimerOwner, DispatchOwner
<1>2. CASE Call
  <2>0. pc' # "event"
    BY <1>2, CallEffects
  <2>1. ASSUME NEW i \in Timers, timer[i].u # 0, timer[i].state = "Used",
               book'[timer[i].u].ran # book[timer[i].u].ran
        PROVE  FALSE
    <3>1. PICK u : u = timer[i].u
      OBVIOUS
    <3>2. u \in DOMAIN book /\ book[u].kind = "timer" /\ book[u].i = i
      BY <2>1, <3>1 DEF Owners, TimerOwner
    <3>3. PICK k : \/ k \in Timers /\ HandedOut("timerAction", k) /\ timer[k].u = u
                   \/ k \in Sockets /\ HandedOut("socketAction", k) /\ socket[k].u = u
                   \/ k \in Dispatches /\ HandedOut("dispatchAction", k) /\ dispatched[k].u = u
      BY <1>2, <2>1, <3>1, <3>2, CallEffects
    <3>4. ~(k \in Sockets /\ socket[k].u = u) /\ ~(k \in Dispatches /\ dispatched[k].u = u)
      BY <2>1, <3>1, <3>2 DEF Owners, SocketOwner, DispatchOwner
    <3>5. k \in Timers /\ HandedOut("timerAction", k) /\ timer[k].u = u
      BY <3>3, <3>4
    <3>6. k = i
      BY <2>1, <3>1, <3>2, <3>5 DEF Owners, TimerOwner
    <3> QED BY <2>1, <3>5, <3>6
  <2>2. ASSUME NEW i \in Dispatches, dispatched[i].u # 0, dispatched[i].state = "Used",
               book'[dispatched[i].u].ran # book[dispatched[i].u].ran
        PROVE  FALSE
    <3>1. PICK u : u = dispatched[i].u
      OBVIOUS
    <3>2. u \in DOMAIN book /\ book[u].kind = "dispatch" /\ book[u].i = i
      BY <2>2, <3>1 DEF Owners, DispatchOwner
    <3>3. PICK k : \/ k \in Timers /\ HandedOut("timerAction", k) /\ timer[k].u = u
                   \/ k \in Sockets /\ HandedOut("socketAction", k) /\ socket[k].u = u
                   \/ k \in Dispatches /\ HandedOut("dispatchAction", k) /\ dispatched[k].u = u
      BY <1>2, <2>2, <3>1, <3>2, CallEffects
    <3>4. ~(k \in Sockets /\ socket[k].u = u) /\ ~(k \in Timers /\ timer[k].u = u)
      BY <2>2, <3>1, <3>2 DEF Owners, SocketOwner, TimerOwner
    <3>5. k \in Dispatches /\ HandedOut("dispatchAction", k) /\ dispatched[k].u = u
      BY <3>3, <3>4
    <3>6. k = i /\ dispatched[k].state = "Action"
      BY <2>2, <3>1, <3>2, <3>5 DEF Owners, DispatchOwner, NotFreed, DispatchNotFreed
    <3> QED BY <2>2, <3>6
  <2> QED BY <2>0, <2>1, <2>2
<1> QED BY <1>1, <1>2


LEMMA NextRanOnce ==
  ASSUME Inv, Owners, NotFreed, RanInv, [Next]_vars
  PROVE  \A u \in DOMAIN book' : OneShot(u)' => book'[u].ran <= 1
<1> SUFFICES ASSUME NEW u \in DOMAIN book', OneShot(u)'
             PROVE  book'[u].ran <= 1
  OBVIOUS
<1>0. BookMoves
  BY NextBookMoves
<1>1. CASE u \notin DOMAIN book
  BY <1>0, <1>1 DEF BookMoves, Fresh
<1>2. CASE u \in DOMAIN book
  <2>1. OneShot(u) /\ u # 0
    BY <1>0, <1>2, BookDomain DEF BookMoves, Fixed, OneShot, Inv
  <2>2. CASE book'[u].ran = book[u].ran
    BY <1>2, <2>1, <2>2 DEF RanInv
  <2>3. CASE book'[u].ran # book[u].ran
    <3>1. Call
      BY <1>0, <1>2, <2>3 DEF BookMoves
    <3>2. PICK k : \/ k \in Timers /\ HandedOut("timerAction", k) /\ timer[k].u = u
                   \/ k \in Sockets /\ HandedOut("socketAction", k) /\ socket[k].u = u
                   \/ k \in Dispatches /\ HandedOut("dispatchAction", k) /\ dispatched[k].u = u
      BY <1>2, <2>3, <3>1, CallEffects
    <3>3. ~(k \in Sockets /\ socket[k].u = u)
      BY <2>1 DEF OneShot, Owners, SocketOwner
    <3>4. k \in Timers /\ HandedOut("timerAction", k) /\ timer[k].u = u => book[u].ran = 0
      BY <2>1 DEF OneShot, Owners, TimerOwner, RanInv
    <3>5. k \in Dispatches /\ HandedOut("dispatchAction", k) /\ dispatched[k].u = u => book[u].ran = 0
      BY DEF RanInv
    <3>6. book[u].ran = 0 /\ book'[u].ran = Bump(book[u].ran)
      BY <1>2, <2>3, <3>1, <3>2, <3>3, <3>4, <3>5, CallEffects
    <3> QED BY <3>6 DEF Bump
  <2> QED BY <2>2, <2>3
<1> QED BY <1>1, <1>2

LEMMA NextTimersRan ==
  ASSUME Inv, BookOK, Owners, NotFreed, RanInv, [Next]_vars, "clearTimer" \notin Foreign
  PROVE  \A i \in Timers :
           /\ HandedOut("timerAction", i)' => timer'[i].state = "Action"
           /\ timer'[i].state = "Used" \/ HandedOut("timerAction", i)' =>
                timer'[i].interval # 0 \/ book'[timer'[i].u].ran = 0
<1>1. \A i \in Timers : HandedOut("timerAction", i) => timer[i].state = "Action"
  BY DEF RanInv
<1>2. \A i \in Timers : HandedOut("timerAction", i)' =>
        /\ timer'[i].state = "Action" /\ timer'[i].u = timer[i].u
        /\ timer'[i].interval = timer[i].interval
        /\ HandedOut("timerAction", i) \/ timer[i].state = "Used"
  BY <1>1, ActionInHand
<1>3. \A i \in Timers : timer[i].state = "Used" \/ HandedOut("timerAction", i) =>
        /\ timer[i].u # 0 /\ timer[i].u \in DOMAIN book
        /\ timer[i].interval # 0 \/ book[timer[i].u].ran = 0
  BY DEF RanInv, Owners, TimerOwner, NotFreed, TimerNotFreed
<1>4. \A i \in Timers :
        timer[i].u # 0 /\ (timer[i].state = "Used" \/ pc' = "event")
          => book'[timer[i].u].ran = book[timer[i].u].ran
  BY <1>1, RanKept
<1>5. \A i : HandedOut("timerAction", i)' => pc' = "event"
  BY DEF HandedOut
<1>6. CASE \E d, v, h : SetTimer(d, v, h)
  <2>1. PICK d, v, h : SetTimer(d, v, h)
    BY <1>6
  <2>2. PICK i : i = Head(freeTimer) /\ TimerSetAt(i, d, v, h)
    BY <2>1, TimerSet
  <2>3. PICK r : book' = Append(book, r) /\ Fresh(r)
    BY <2>1, SetTimerBook
  <2>4. /\ book'[Len(book) + 1] = r /\ \A u \in DOMAIN book : book'[u] = book[u]
    BY <2>3, BookGrown DEF Inv
  <2>5. book'[timer'[i].u].ran = 0
    BY <2>2, <2>3, <2>4 DEF TimerSetAt, Fresh
  <2>6. ASSUME NEW j \in Timers, j # i, timer'[j].state = "Used" \/ HandedOut("timerAction", j)'
        PROVE  timer'[j].interval # 0 \/ book'[timer'[j].u].ran = 0
    <3>1. timer'[j] = timer[j]
      BY <2>2, <2>6 DEF TimerSetAt
    <3>2. HandedOut("timerAction", j)' => HandedOut("timerAction", j)
      BY <2>1, SameEvent DEF SetTimer
    <3>3. timer[j].u \in DOMAIN book /\ (timer[j].interval # 0 \/ book[timer[j].u].ran = 0)
      BY <1>3, <2>6, <3>1, <3>2
    <3> QED BY <2>4, <3>1, <3>3
  <2> QED BY <1>2, <2>5, <2>6
<1>7. CASE \A i \in Timers :
             /\ timer'[i].u = timer[i].u /\ timer'[i].nonce = timer[i].nonce
             /\ timer'[i].interval = timer[i].interval /\ timer[i].time <= timer'[i].time
             /\ timer'[i].state = "Used" =>
                  timer[i].state = "Used" \/ (timer[i].state = "Action" /\ timer[i].interval # 0)
             /\ timer'[i].state \in Armed => timer[i].state \in Armed
  BY <1>2, <1>3, <1>4, <1>5, <1>7
<1> QED BY <1>6, <1>7, TimersStep

LEMMA NextDispatchesRan ==
  ASSUME Inv, Owners, NotFreed, RanInv, [Next]_vars
  PROVE  \A i \in Dispatches :
           dispatched'[i].state = "Used" \/ HandedOut("dispatchAction", i)' =>
             book'[dispatched'[i].u].ran = 0
<1>1. \A i \in Timers : HandedOut("timerAction", i) => timer[i].state = "Action"
  BY DEF RanInv
<1>2. \A i \in Dispatches : dispatched[i].state = "Used" \/ HandedOut("dispatchAction", i) =>
        /\ dispatched[i].u # 0 /\ dispatched[i].u \in DOMAIN book
        /\ book[dispatched[i].u].ran = 0
  BY DEF RanInv, Owners, DispatchOwner, NotFreed, DispatchNotFreed
<1>3. \A i \in Dispatches :
        dispatched[i].u # 0 /\ (dispatched[i].state = "Used" \/ pc' = "event")
          => book'[dispatched[i].u].ran = book[dispatched[i].u].ran
  BY <1>1, RanKept
<1>4. \A i : HandedOut("dispatchAction", i)' => pc' = "event"
  BY DEF HandedOut
<1>5. CASE \E h : Dispatch(h)
  <2>1. PICK h : Dispatch(h)
    BY <1>5
  <2>2. PICK i : i = Head(freeDispatch) /\ DispatchSetAt(i, h)
    BY <2>1, DispatchSet
  <2>3. PICK r : book' = Append(book, r) /\ Fresh(r)
    BY <2>1, DispatchBook
  <2>4. /\ book'[Len(book) + 1] = r /\ \A u \in DOMAIN book : book'[u] = book[u]
    BY <2>3, BookGrown DEF Inv
  <2>5. book'[dispatched'[i].u].ran = 0
    BY <2>2, <2>3, <2>4 DEF DispatchSetAt, Fresh
  <2>6. ASSUME NEW j \in Dispatches, j # i,
               dispatched'[j].state = "Used" \/ HandedOut("dispatchAction", j)'
        PROVE  book'[dispatched'[j].u].ran = 0
    <3>1. dispatched'[j] = dispatched[j]
      BY <2>2, <2>6 DEF DispatchSetAt
    <3>2. HandedOut("dispatchAction", j)' => HandedOut("dispatchAction", j)
      BY <2>1, SameEvent DEF Dispatch
    <3> QED BY <1>2, <2>4, <2>6, <3>1, <3>2
  <2> QED BY <2>5, <2>6
<1>6. CASE \A i \in Dispatches :
             /\ dispatched'[i].u = dispatched[i].u
             /\ dispatched'[i].state = "Used" => dispatched[i].state = "Used"
             /\ HandedOut("dispatchAction", i)' =>
                  dispatched[i].state = "Used" \/ HandedOut("dispatchAction", i)
  BY <1>2, <1>3, <1>4, <1>6
<1> QED BY <1>5, <1>6, DispatchesStep


LEMMA NextRan ==
  ASSUME LooperInv, LooperInv', HistoryInv, RanInv, [Next]_vars, "clearTimer" \notin Foreign
  PROVE  RanInv'
<1>1. CASE pc = "destroyed"
  <2>1. UNCHANGED vars
    BY <1>1, Terminal
  <2> QED BY <2>1 DEF RanInv, OneShot, HandedOut, vars
<1>2. CASE pc # "destroyed"
  <2>1. Inv /\ BookOK /\ Owners /\ NotFreed
    BY <1>2 DEF LooperInv, HistoryInv
  <2>2. \A u \in DOMAIN book' : OneShot(u)' => book'[u].ran <= 1
    BY <2>1, NextRanOnce
  <2>3. \A i \in Timers :
           /\ HandedOut("timerAction", i)' => timer'[i].state = "Action"
           /\ timer'[i].state = "Used" \/ HandedOut("timerAction", i)' =>
                timer'[i].interval # 0 \/ book'[timer'[i].u].ran = 0
    BY <2>1, NextTimersRan
  <2>4. \A i \in Dispatches :
           dispatched'[i].state = "Used" \/ HandedOut("dispatchAction", i)' =>
             book'[dispatched'[i].u].ran = 0
    BY <2>1, NextDispatchesRan
  <2> QED BY <2>2, <2>3, <2>4 DEF RanInv
<1> QED BY <1>1, <1>2

LEMMA InitRan == Init => RanInv
<1> SUFFICES ASSUME Init PROVE RanInv
  OBVIOUS
<1>1. /\ \A i \in Timers : timer[i].state = "Free"
      /\ \A i \in Dispatches : dispatched[i].state = "Free"
      /\ book = <<>> /\ pc = "idle"
  BY DEF Init
<1>2. (\A e, i : ~HandedOut(e, i)) /\ DOMAIN book = {}
  BY <1>1 DEF HandedOut
<1> QED BY <1>1, <1>2 DEF RanInv

\* A one-shot timer and a dispatch run at most once and their destroy handlers
\* at most once, where no other thread clears timers: one that did, between
\* nextEvent and the call, would free the entry for another timer to take.
THEOREM RunsOnce ==
  ASSUME "clearTimer" \notin Foreign
  PROVE  Spec => []OnceOnly
<1>1. LooperInv /\ LooperInv' /\ HistoryInv /\ RanInv /\ [Next]_vars => RanInv'
  BY NextRan
<1>2. HistoryInv /\ RanInv => OnceOnly
  BY DEF HistoryInv, NotFreed, FreedOnce, RanInv, OneShot, OnceOnly
<1> QED BY <1>1, <1>2, InitRan, HistoryInvariant, PTL DEF Spec

LEMMA NextDue ==
  ASSUME LooperInv, LooperInv', HistoryInv, DueInv, [Next]_vars, "clearTimer" \notin Foreign
  PROVE  DueInv'
<1>1. CASE pc = "destroyed"
  <2>1. UNCHANGED vars
    BY <1>1, Terminal
  <2> QED BY <2>1 DEF DueInv, HandedOut, vars
<1>2. CASE pc # "destroyed"
  <2>1. Inv /\ BookOK /\ Owners /\ BookMoves
    BY <1>2, NextBookMoves DEF LooperInv, HistoryInv
  <2>2. \A i \in Timers : HandedOut("timerAction", i) => timer[i].state = "Action"
    BY DEF DueInv
  <2>3. \A i \in Timers : HandedOut("timerAction", i)' =>
          /\ timer'[i].state = "Action" /\ timer'[i].u = timer[i].u
          /\ HandedOut("timerAction", i) \/ (timer[i].state = "Used" /\ Due(i))
    BY <2>1, <2>2, ActionInHand
  <2>4. now \in Nat /\ (now' = now \/ now' = now + 1)
    <3>1. CASE Tick
      BY <2>1, <3>1 DEF Tick, Inv, TypeOK
    <3>2. CASE Callers
      BY <2>1, <3>2, CallersKeep DEF Inv, TypeOK
    <3>3. CASE NextEvent
      BY <2>1, <3>3 DEF Inv, TypeOK, NextEvent, FireTimer, StartDrain, DrainTimerAction,
         DrainTimerDestroy, DrainSocketUsed, DrainSocketAction, DrainSocketDestroy,
         DrainDispatchUsed, DrainDispatchAction, DrainDispatchDone, StartCollect,
         CollectUsed, CollectFree, NoEventLeft
    <3>4. CASE Call \/ Return \/ PollEnter \/ PollWoken \/ PollReady \/ Stop \/ Destroy \/ UNCHANGED vars
      BY <2>1, <3>4 DEF Inv, TypeOK, Call, Return, PollEnter, PollWoken, PollReady, PollReturn,
         Stop, Destroy, vars
    <3> QED BY <3>1, <3>2, <3>3, <3>4 DEF Next, Worker
  <2>5. \A i \in Timers : timer[i].time \in Int
    BY <2>1, TimerTypes
  <2>6. \A i \in Timers : timer[i].u # 0 =>
          /\ timer[i].u \in DOMAIN book /\ book[timer[i].u].due <= timer[i].time
          /\ book'[timer[i].u].due = book[timer[i].u].due
          /\ book[timer[i].u].due \in Int
    BY <2>1, BookDomain DEF BookMoves, Fixed, Owners, TimerOwner, DueInv, Inv, Registration
  <2>7. \A i \in Timers : HandedOut("timerAction", i)' =>
          timer'[i].state = "Action" /\ book'[timer'[i].u].due <= now'
    <3> SUFFICES ASSUME NEW i \in Timers, HandedOut("timerAction", i)'
                 PROVE  book'[timer'[i].u].due <= now'
      BY <2>3
    <3>1. timer[i].u # 0 /\ timer'[i].u = timer[i].u
      <4>1. timer[i].state # "Free"
        BY <2>2, <2>3
      <4> QED BY <2>1, <2>3, <4>1 DEF Owners, TimerOwner
    <3>2. book[timer[i].u].due <= now
      BY <2>3, <2>4, <2>5, <2>6, <3>1 DEF DueInv, Due
    <3> QED BY <2>4, <2>6, <3>1, <3>2
  <2>8. \A i \in Timers : timer'[i].u # 0 => book'[timer'[i].u].due <= timer'[i].time
    <3>1. CASE \E d, v, h : SetTimer(d, v, h)
      <4>1. PICK d, v, h : SetTimer(d, v, h)
        BY <3>1
      <4>2. PICK i : i = Head(freeTimer) /\ TimerSetAt(i, d, v, h)
        BY <2>1, <4>1, TimerSet
      <4>3. PICK r : book' = Append(book, r) /\ r.due = now + d
        BY <4>1, SetTimerBook
      <4>4. book'[Len(book) + 1] = r
        BY <2>1, <4>3, BookGrown DEF Inv
      <4>5. book'[timer'[i].u].due = timer'[i].time
        BY <4>2, <4>3, <4>4 DEF TimerSetAt
      <4>6. \A j \in Timers : timer'[j].time \in Int
        BY DEF LooperInv, Inv, TypeOK, TimerEntry
      <4>7. \A j \in Timers : j # i => timer'[j] = timer[j]
        BY <4>2 DEF TimerSetAt
      <4>8. ASSUME NEW j \in Timers, timer'[j].u # 0
            PROVE  book'[timer'[j].u].due <= timer'[j].time
        <5>1. CASE j = i
          BY <4>5, <4>6, <5>1
        <5>2. CASE j # i
          BY <2>6, <4>7, <4>8, <5>2
        <5> QED BY <5>1, <5>2
      <4> QED BY <4>8
    <3>2. CASE \A i \in Timers : timer'[i].u = timer[i].u /\ timer[i].time <= timer'[i].time
      <4>1. \A i \in Timers : timer'[i].time \in Int
        BY DEF LooperInv, Inv, TypeOK, TimerEntry
      <4> QED BY <2>5, <2>6, <3>2, <4>1
    <3>3. \/ \E d, v, h : SetTimer(d, v, h)
          \/ \A i \in Timers : timer'[i].u = timer[i].u /\ timer[i].time <= timer'[i].time
      BY <2>1, TimersStep
    <3> QED BY <3>1, <3>2, <3>3
  <2> QED BY <2>7, <2>8 DEF DueInv
<1> QED BY <1>1, <1>2

LEMMA InitDue == Init => DueInv
BY DEF Init, DueInv, HandedOut

\* A timer's action never runs before the time it was set for.
THEOREM NeverEarly ==
  ASSUME "clearTimer" \notin Foreign
  PROVE  Spec => TimerNotEarly
<1>1. LooperInv /\ LooperInv' /\ HistoryInv /\ DueInv /\ [Next]_vars => DueInv'
  BY NextDue
<1>2. ASSUME LooperInv, DueInv, Call, cur.event = "timerAction"
      PROVE  book[cur'.u].due <= now
  <2>1. pc = "event" /\ cur.i \in Timers
    BY <1>2 DEF Call, LooperInv, Inv, EventOK
  <2>2. /\ cur' = [cur EXCEPT !.u = timer[cur.i].u]
        /\ cur \in [event : EventNames, i : Nat, u : Tokens]
    BY <1>2 DEF Call, UserdataOf, LooperInv, Inv, TypeOK
  <2>3. cur'.u = timer[cur.i].u
    BY <2>2
  <2>4. HandedOut("timerAction", cur.i)
    BY <1>2, <2>1 DEF HandedOut
  <2> QED BY <1>2, <2>1, <2>3, <2>4 DEF DueInv
<1>3. LooperInv /\ DueInv /\ [Next]_vars =>
        [Call /\ cur.event = "timerAction" => book[cur'.u].due <= now]_vars
  BY <1>2
<1> QED BY <1>1, <1>3, InitDue, HistoryInvariant, PTL DEF Spec, TimerNotEarly


-----------------------------------------------------------------------------
(* What is cancelled is disarmed. *)
LEMMA CancelledBy ==
  ASSUME Inv, Owners, [Next]_vars, NEW v \in DOMAIN book,
         book'[v].cancelled # book[v].cancelled
  PROVE  \/ \E b : ClearTimer(v, b)
         \/ \E fd : RemoveSocket(fd) /\ book[v].kind = "socket"
<1>1. Callers
  BY NextBookMoves DEF BookMoves
<1>2. ASSUME NEW r, book' = Append(book, r)
      PROVE  FALSE
  BY <1>2, BookGrown DEF Inv
<1>3. ASSUME NEW u, NEW b, ClearTimer(u, b)
      PROVE  u = v
  BY <1>3, BookCancelled DEF ClearTimer, Inv
<1>4. ASSUME NEW fd, RemoveSocket(fd)
      PROVE  book[v].kind = "socket"
  <2>1. PICK i \in Sockets : book' = IF socket[i].u = 0 THEN book
                                     ELSE [book EXCEPT ![socket[i].u].cancelled = TRUE]
    BY <1>4 DEF RemoveSocket
  <2>2. socket[i].u # 0 /\ v = socket[i].u
    BY <2>1, BookCancelled DEF Inv
  <2> QED BY <2>2 DEF Owners, SocketOwner
<1>5. ~Wakeup
  BY DEF Wakeup
<1> QED BY <1>1, <1>2, <1>3, <1>4, <1>5, SetTimerBook, AddSocketBook, DispatchBook DEF Callers

LEMMA NextTimersCancelled ==
  ASSUME Inv, BookOK, Owners, CancelInv, [Next]_vars, "clearTimer" \notin Foreign
  PROVE  \A i \in Timers :
           /\ timer'[i].state \in Armed => ~book'[timer'[i].u].cancelled
           /\ HandedOut("timerAction", i)' => timer'[i].state = "Action"
<1>1. \A i \in Timers : HandedOut("timerAction", i)' => timer'[i].state = "Action"
  BY ActionInHand DEF CancelInv
<1>2. \A i \in Timers : timer[i].state \in Armed =>
        /\ timer[i].u # 0 /\ timer[i].u \in DOMAIN book /\ book[timer[i].u].kind = "timer"
        /\ book[timer[i].u].i = i /\ ~book[timer[i].u].cancelled
  BY DEF CancelInv, Owners, TimerOwner, Armed
<1>3. CASE \E d, v, h : SetTimer(d, v, h)
  <2>1. PICK d, v, h : SetTimer(d, v, h)
    BY <1>3
  <2>2. PICK i : i = Head(freeTimer) /\ TimerSetAt(i, d, v, h)
    BY <2>1, TimerSet
  <2>3. PICK r : book' = Append(book, r) /\ Fresh(r)
    BY <2>1, SetTimerBook
  <2>4. /\ book'[Len(book) + 1] = r /\ \A u \in DOMAIN book : book'[u] = book[u]
    BY <2>3, BookGrown DEF Inv
  <2>5. ~book'[timer'[i].u].cancelled
    BY <2>2, <2>3, <2>4 DEF TimerSetAt, Fresh
  <2>6. ASSUME NEW j \in Timers, j # i, timer'[j].state \in Armed
        PROVE  ~book'[timer'[j].u].cancelled
    <3>1. timer'[j] = timer[j]
      BY <2>2, <2>6 DEF TimerSetAt
    <3> QED BY <1>2, <2>4, <2>6, <3>1
  <2> QED BY <1>1, <2>5, <2>6
<1>4. CASE \A i \in Timers :
             /\ timer'[i].u = timer[i].u
             /\ timer'[i].state \in Armed => timer[i].state \in Armed
  <2>1. ASSUME NEW i \in Timers, timer'[i].state \in Armed, book'[timer[i].u].cancelled
        PROVE  FALSE
    <3>1. PICK u : u = timer[i].u
      OBVIOUS
    <3>2. /\ u \in DOMAIN book /\ book[u].kind = "timer" /\ book[u].i = i
          /\ book'[u].cancelled # book[u].cancelled
      BY <1>2, <1>4, <2>1, <3>1
    <3>3. PICK b : ClearTimer(u, b)
      BY <3>2, CancelledBy
    <3>4. TimerClearedAt(i)
      BY <3>2, <3>3, TimerCleared
    <3> QED BY <2>1, <3>4 DEF TimerClearedAt, Armed
  <2> QED BY <1>1, <1>4, <2>1
<1>5. \/ \E d, v, h : SetTimer(d, v, h)
      \/ \A i \in Timers :
             /\ timer'[i].u = timer[i].u
             /\ timer'[i].state \in Armed => timer[i].state \in Armed
  BY TimersStep
<1> QED BY <1>3, <1>4, <1>5

\* Armed sockets were armed before, here or where compaction took them from.
LEMMA SocketsStep ==
  ASSUME Inv, WakeupEntry, [Next]_vars
  PROVE  \/ \E fd, h : AddSocket(fd, h)
         \/ \E fd : RemoveSocket(fd)
         \/ \A j \in Sockets : socket'[j].state \in Armed =>
              \E k \in Sockets : socket[k].state \in Armed /\ socket'[j].u = socket[k].u
<1>1. CASE ~SocketStep
  BY <1>1, NoSocketStep
<1>2. CASE CollectFree
  <2>1. PICK i, last : i = Head(usedSocket) /\ last = pollSize - 1
    OBVIOUS
  <2>2. /\ last \in Sockets /\ socket[i].state = "Free"
        /\ \A j \in Sockets \ {i, last} : socket'[j] = socket[j]
        /\ socket'[last].state = "Free"
        /\ i # last => socket'[i].state = socket[last].state /\ socket'[i].u = socket[last].u
    BY <1>2, <2>1, SocketMoved
  <2> QED BY <2>2 DEF Armed
<1>0. PICK i : i = Head(pending).i
  OBVIOUS
<1>3. ASSUME NEW st \in States, i \in Sockets, socket' = [socket EXCEPT ![i].state = st],
             st \in Armed => socket[i].state \in Armed
      PROVE  \A j \in Sockets : socket'[j].state \in Armed =>
               socket[j].state \in Armed /\ socket'[j].u = socket[j].u
  <2>1. \A j \in Sockets :
          /\ socket'[j].state = IF j = i THEN st ELSE socket[j].state
          /\ socket'[j].u = socket[j].u
    BY <1>3, SocketOnlyState
  <2> QED BY <1>3, <2>1
<1>4. "Action" \in States /\ "Destroy" \in States /\ "Free" \in States /\ "Used" \in States
  BY DEF States
<1>5. CASE DrainSocketUsed
  <2>1. /\ i \in Sockets /\ socket[i].state = "Used"
        /\ socket' = [socket EXCEPT ![i].state = "Action"]
    BY <1>0, <1>5, DrainingSocket DEF DrainSocketUsed, EnterAction
  <2>2. socket[i].state \in Armed
    BY <2>1 DEF Armed
  <2> QED BY <1>3, <1>4, <2>1, <2>2
<1>6. CASE DrainSocketAction
  <2>1. i \in Sockets /\ socket[i].state = "Action"
    BY <1>0, <1>6, DrainingSocket DEF DrainSocketAction
  <2>2. PICK st \in {"Used", "Free", "Destroy"} : socket' = [socket EXCEPT ![i].state = st]
    BY <1>0, <1>6 DEF DrainSocketAction
  <2>3. socket[i].state \in Armed /\ st \in States
    BY <1>4, <2>1, <2>2 DEF Armed
  <2> QED BY <1>3, <2>1, <2>2, <2>3
<1>7. CASE DrainSocketDestroy
  <2>1. i \in Sockets /\ socket' = [socket EXCEPT ![i].state = "Free"]
    BY <1>0, <1>7, DrainingSocket DEF DrainSocketDestroy
  <2>2. "Free" \notin Armed
    BY DEF Armed
  <2> QED BY <1>3, <1>4, <2>1, <2>2
<1> QED BY <1>1, <1>2, <1>5, <1>6, <1>7 DEF SocketStep

LEMMA NextSocketsCancelled ==
  ASSUME Inv, WakeupEntry, Owners, CancelInv, [Next]_vars
  PROVE  \A i \in Sockets :
           socket'[i].state \in Armed /\ socket'[i].u # 0 => ~book'[socket'[i].u].cancelled
<1>1. \A i \in Sockets : socket[i].state \in Armed /\ socket[i].u # 0 =>
        /\ socket[i].u \in DOMAIN book /\ book[socket[i].u].kind = "socket"
        /\ ~book[socket[i].u].cancelled
  BY DEF CancelInv, Owners, SocketOwner
<1>2. CASE \E fd, h : AddSocket(fd, h)
  <2>1. PICK fd, h : AddSocket(fd, h)
    BY <1>2
  <2>2. PICK i : i = pollSize
    OBVIOUS
  <2>3. /\ \A j \in Sockets : j # i => socket'[j] = socket[j]
        /\ socket'[i].u = Len(book) + 1
    BY <2>1, <2>2, SocketAdded
  <2>4. PICK r : book' = Append(book, r) /\ Fresh(r)
    BY <2>1, AddSocketBook
  <2>5. /\ book'[Len(book) + 1] = r /\ \A u \in DOMAIN book : book'[u] = book[u]
    BY <2>4, BookGrown DEF Inv
  <2>6. ~book'[socket'[i].u].cancelled
    BY <2>3, <2>4, <2>5 DEF Fresh
  <2>7. ASSUME NEW j \in Sockets, j # i, socket'[j].state \in Armed, socket'[j].u # 0
        PROVE  ~book'[socket'[j].u].cancelled
    <3>1. socket'[j] = socket[j]
      BY <2>3, <2>7
    <3> QED BY <1>1, <2>5, <2>7, <3>1
  <2> QED BY <2>6, <2>7
<1>3. CASE \E fd : RemoveSocket(fd)
  <2>1. PICK fd : RemoveSocket(fd)
    BY <1>3
  <2>2. PICK i \in Sockets :
          /\ socket[i].state \notin {"Destroy", "Free"}
          /\ \/ socket' = [socket EXCEPT ![i].state = "Free"]
             \/ socket' = [socket EXCEPT ![i].state = "Destroy"]
          /\ book' = IF socket[i].u = 0 THEN book
                     ELSE [book EXCEPT ![socket[i].u].cancelled = TRUE]
    BY <2>1 DEF RemoveSocket
  <2>3. PICK st \in {"Free", "Destroy"} : socket' = [socket EXCEPT ![i].state = st]
    BY <2>2
  <2>4. st \in States /\ st \notin Armed
    BY <2>3 DEF States, Armed
  <2>5. \A j \in Sockets :
          /\ socket'[j].state = IF j = i THEN st ELSE socket[j].state
          /\ socket'[j].u = socket[j].u
    BY <2>3, <2>4, SocketOnlyState
  <2>6. ASSUME NEW j \in Sockets, socket'[j].state \in Armed, socket'[j].u # 0
        PROVE  ~book'[socket'[j].u].cancelled
    <3>1. j # i /\ socket[j].state \in Armed /\ socket'[j].u = socket[j].u
      BY <2>4, <2>5, <2>6
    <3>2. LiveSocket(i) /\ LiveSocket(j)
      BY <2>2, <3>1 DEF LiveSocket, Armed
    <3>3. socket[j].u # socket[i].u
      BY <2>6, <3>1, <3>2 DEF Owners, SocketOwner
    <3> QED BY <1>1, <2>2, <2>6, <3>1, <3>3, BookCancelled DEF Inv
  <2> QED BY <2>6
<1>4. CASE /\ ~\E fd : RemoveSocket(fd)
           /\ \A j \in Sockets : socket'[j].state \in Armed =>
                \E k \in Sockets : socket[k].state \in Armed /\ socket'[j].u = socket[k].u
  <2>1. ASSUME NEW j \in Sockets, socket'[j].state \in Armed, socket'[j].u # 0
        PROVE  ~book'[socket'[j].u].cancelled
    <3>1. PICK k \in Sockets : socket[k].state \in Armed /\ socket'[j].u = socket[k].u
      BY <1>4, <2>1
    <3>2. PICK u : u = socket[k].u
      OBVIOUS
    <3>3. u \in DOMAIN book /\ book[u].kind = "socket" /\ ~book[u].cancelled
      BY <1>1, <2>1, <3>1, <3>2
    <3>4. ~\E b : ClearTimer(u, b)
      BY <3>3 DEF ClearTimer, TimerMatches
    <3>5. book'[u].cancelled = book[u].cancelled
      BY <1>4, <3>3, <3>4, CancelledBy
    <3> QED BY <3>1, <3>2, <3>3, <3>5
  <2> QED BY <2>1
<1> QED BY <1>2, <1>3, <1>4, SocketsStep


LEMMA HeadOfFree ==
  ASSUME Inv, NEW fd, NEW h, AddSocket(fd, h)
  PROVE  Head(freeSocket) = pollSize
<1>1. /\ freeSocket # <<>> /\ pollSize \in 1 .. SocketLimit /\ SocketLimit \in Nat
      /\ freeSocket = [k \in 1 .. SocketLimit - pollSize |-> pollSize + k - 1]
  BY LimitsAssumption DEF Inv, TypeOK, SocketTable, AddSocket
<1>2. 1 <= SocketLimit - pollSize
  BY <1>1
<1> QED BY <1>1, <1>2

LEMMA SocketInHand ==
  ASSUME Inv, WakeupEntry, CancelInv, [Next]_vars, "removeSocket" \notin Foreign
  PROVE  \A i \in Sockets : HandedOut("socketAction", i)' => socket'[i].state = "Action"
<1>1. CASE ~SocketStep
  BY <1>1, NoSocketStep DEF SocketEvents, CancelInv
<1>2. ASSUME NEW fd, NEW h, AddSocket(fd, h)
      PROVE  \A i \in Sockets : HandedOut("socketAction", i)' => socket'[i].state = "Action"
  <2>1. PICK i : i = pollSize
    OBVIOUS
  <2>2. /\ \A j \in Sockets : j # i => socket'[j] = socket[j]
        /\ i \in Sockets /\ socket[i].state = "Free"
    <3>1. freeSocket # <<>> /\ freeSocket \in Seq(Sockets)
      BY <1>2 DEF AddSocket, Inv, TypeOK
    <3>2. Head(freeSocket) \in ToSet(freeSocket)
      BY <3>1, TailList
    <3>3. socket[Head(freeSocket)].state = "Free"
      BY <3>2 DEF Inv, ListsMatchStates, SocketLists
    <3>4. Head(freeSocket) = pollSize
      BY <1>2, HeadOfFree
    <3> QED BY <1>2, <2>1, <3>3, <3>4, SocketAdded
  <2>3. \A e, j : HandedOut(e, j)' <=> HandedOut(e, j)
    BY <1>2, SameEvent DEF AddSocket
  <2> QED BY <2>2, <2>3 DEF CancelInv
<1>3. ASSUME NEW fd, RemoveSocket(fd)
      PROVE  \A e, i : ~HandedOut(e, i)'
  <2>1. pc = "callback" /\ UNCHANGED worker
    BY <1>3 DEF RemoveSocket, MayCall, InHandler
  <2> QED BY <2>1 DEF HandedOut, worker
<1>4. CASE CollectFree \/ DrainSocketAction
  <2>1. \A e, i : ~HandedOut(e, i)'
    BY <1>4 DEF CollectFree, DrainSocketAction, Draining, worker, HandedOut
  <2> QED BY <2>1
<1>5. CASE DrainSocketUsed
  <2>0. PICK i : i = Head(pending).i
    OBVIOUS
  <2>1. i \in Sockets /\ socket' = [socket EXCEPT ![i].state = "Action"] /\ "Action" \in States
    BY <1>5, <2>0, DrainingSocket DEF DrainSocketUsed, EnterAction, States
  <2>2. socket'[i].state = "Action"
    BY <2>1 DEF Inv, TypeOK, SocketEntry
  <2>3. \A j : HandedOut("socketAction", j)' => j = i
    BY <1>5, <2>0 DEF DrainSocketUsed, Requeue, HandedOut, Event
  <2> QED BY <2>2, <2>3
<1>6. CASE DrainSocketDestroy
  <2>1. \A j : ~HandedOut("socketAction", j)'
    BY <1>6 DEF DrainSocketDestroy, HandedOut, Event
  <2> QED BY <2>1
<1> QED BY <1>1, <1>2, <1>3, <1>4, <1>5, <1>6 DEF SocketStep

LEMMA NextCancel ==
  ASSUME LooperInv, HistoryInv, CancelInv, [Next]_vars,
         "clearTimer" \notin Foreign, "removeSocket" \notin Foreign
  PROVE  CancelInv'
<1>1. CASE pc = "destroyed"
  <2>1. UNCHANGED vars
    BY <1>1, Terminal
  <2> QED BY <2>1 DEF CancelInv, HandedOut, vars
<1>2. CASE pc # "destroyed"
  <2>1. Inv /\ WakeupEntry /\ BookOK /\ Owners /\ BookMoves
    BY <1>2, NextBookMoves DEF LooperInv, HistoryInv
  <2>2. \A i \in Timers :
           /\ timer'[i].state \in Armed => ~book'[timer'[i].u].cancelled
           /\ HandedOut("timerAction", i)' => timer'[i].state = "Action"
    BY <2>1, NextTimersCancelled
  <2>3. \A i \in Sockets :
           socket'[i].state \in Armed /\ socket'[i].u # 0 => ~book'[socket'[i].u].cancelled
    BY <2>1, NextSocketsCancelled
  <2>4. \A i \in Sockets : HandedOut("socketAction", i)' => socket'[i].state = "Action"
    BY <2>1, SocketInHand
  <2>5. ASSUME NEW u \in DOMAIN book', book'[u].kind = "dispatch", book'[u].cancelled
        PROVE  FALSE
    <3>1. u \in DOMAIN book
      BY <2>1, <2>5 DEF BookMoves, Fresh
    <3>2. book[u].kind = "dispatch" /\ ~book[u].cancelled
      BY <2>1, <2>5, <3>1 DEF BookMoves, Fixed, CancelInv
    <3>3. ~\E b : ClearTimer(u, b)
      BY <3>2 DEF ClearTimer, TimerMatches
    <3> QED BY <2>1, <2>5, <3>1, <3>2, <3>3, CancelledBy
  <2> QED BY <2>2, <2>3, <2>4, <2>5 DEF CancelInv, Armed
<1> QED BY <1>1, <1>2

LEMMA InitCancel == Init => CancelInv
<1> SUFFICES ASSUME Init PROVE CancelInv
  OBVIOUS
<1>1. /\ \A i \in Timers : timer[i].state = "Free"
      /\ \A i \in Sockets : socket[i].u = 0
      /\ book = <<>> /\ pc = "idle"
  BY DEF Init
<1>2. (\A e, i : ~HandedOut(e, i)) /\ DOMAIN book = {}
  BY <1>1 DEF HandedOut
<1> QED BY <1>1, <1>2 DEF CancelInv, Armed

LEMMA CancelledIsNotCalled ==
  ASSUME LooperInv, HistoryInv, CancelInv, [Next]_vars,
         NEW u \in DOMAIN book, book[u].cancelled
  PROVE  book'[u].ran = book[u].ran
<1>0. Inv /\ BookMoves /\ u # 0
  BY NextBookMoves, BookDomain DEF LooperInv, Inv
<1>1. SUFFICES ASSUME book'[u].ran # book[u].ran PROVE FALSE
  OBVIOUS
<1>2. Call
  BY <1>0, <1>1 DEF BookMoves
<1>3. Owners
  BY <1>2 DEF Call, HistoryInv
<1>4. PICK k : \/ k \in Timers /\ HandedOut("timerAction", k) /\ timer[k].u = u
               \/ k \in Sockets /\ HandedOut("socketAction", k) /\ socket[k].u = u
               \/ k \in Dispatches /\ HandedOut("dispatchAction", k) /\ dispatched[k].u = u
  BY <1>0, <1>1, <1>2, CallEffects
<1>5. ~(k \in Timers /\ HandedOut("timerAction", k) /\ timer[k].u = u)
  BY DEF CancelInv, Armed
<1>6. ~(k \in Sockets /\ HandedOut("socketAction", k) /\ socket[k].u = u)
  BY <1>0 DEF CancelInv, Armed
<1>7. ~(k \in Dispatches /\ HandedOut("dispatchAction", k) /\ dispatched[k].u = u)
  BY <1>0, <1>3 DEF CancelInv, Owners, DispatchOwner
<1> QED BY <1>4, <1>5, <1>6, <1>7

\* Once clearTimeout or removeSocket returned true the action handler is not
\* entered again for that timer or socket, where only handlers call them:
\* another thread could between nextEvent and the call.
THEOREM CancelledStaysSilent ==
  ASSUME "clearTimer" \notin Foreign, "removeSocket" \notin Foreign
  PROVE  Spec => CancelledNeverRuns
<1>1. LooperInv /\ HistoryInv /\ CancelInv /\ [Next]_vars => CancelInv'
  BY NextCancel
<1>2. LooperInv /\ HistoryInv /\ CancelInv /\ [Next]_vars =>
        [\A u \in DOMAIN book : book[u].cancelled => book'[u].ran = book[u].ran]_vars
  BY CancelledIsNotCalled
<1> QED BY <1>1, <1>2, InitCancel, HistoryInvariant, PTL DEF Spec, CancelledNeverRuns

-----------------------------------------------------------------------------
(* Identifiers. *)
LEMMA NonceGrows ==
  ASSUME NEW n \in Nonces, n + 1 < NonceMod
  PROVE  NextNonce(n) = n + 1
<1>1. n \in Nat /\ n + 1 # 0 /\ NonceMod \in Nat
  BY NonceAssumption DEF Nonces
<1>2. (n + 1) % NonceMod = n + 1
  BY <1>1
<1> QED BY <1>1, <1>2 DEF NextNonce

\* Registrations that are added, but for setTimer's, are no timers.
LEMMA NextBookDomain ==
  ASSUME Inv, [Next]_vars, ~\E d, v, h : SetTimer(d, v, h)
  PROVE  \/ \E r : book' = Append(book, r) /\ r.kind # "timer"
         \/ DOMAIN book' = DOMAIN book
<1>1. CASE Callers
  <2>1. ASSUME NEW fd, NEW h, AddSocket(fd, h)
        PROVE  \E r : book' = Append(book, r) /\ r.kind # "timer"
    BY <2>1, AddSocketBook
  <2>2. ASSUME NEW h, Dispatch(h)
        PROVE  \E r : book' = Append(book, r) /\ r.kind # "timer"
    BY <2>2, DispatchBook
  <2>3. ASSUME NEW u, NEW b, ClearTimer(u, b) PROVE DOMAIN book' = DOMAIN book
    BY <2>3 DEF ClearTimer
  <2>4. ASSUME NEW fd, RemoveSocket(fd) PROVE DOMAIN book' = DOMAIN book
    BY <2>4 DEF RemoveSocket
  <2>5. CASE Wakeup
    BY <2>5 DEF Wakeup
  <2> QED BY <1>1, <2>1, <2>2, <2>3, <2>4, <2>5 DEF Callers
<1>2. CASE Call
  <2>1. PICK u : book' = book \/ book' = Ran(u) \/ book' = Freed(u)
    BY <1>2 DEF Call
  <2> QED BY <2>1, BookRan, BookFreed DEF Inv
<1>3. CASE Destroy
  BY <1>3 DEF Destroy
<1>4. CASE ~Callers /\ ~Call /\ ~Destroy
  <2>1. CASE NextEvent
    BY <2>1 DEF NextEvent, FireTimer, StartDrain, DrainTimerAction, DrainTimerDestroy,
       DrainSocketUsed, DrainSocketAction, DrainSocketDestroy, DrainDispatchUsed,
       DrainDispatchAction, DrainDispatchDone, StartCollect, CollectUsed,
       CollectFree, NoEventLeft
  <2>2. CASE Return \/ PollEnter \/ PollWoken \/ PollReady \/ Stop \/ Tick \/ UNCHANGED vars
    BY <2>2 DEF Return, PollEnter, PollWoken, PollReady, PollReturn, Stop, Tick, vars
  <2> QED BY <1>4, <2>1, <2>2 DEF Next, Worker
<1> QED BY <1>1, <1>2, <1>3, <1>4

LEMMA NextNonceInv ==
  ASSUME LooperInv, LooperInv', NonceInv, [Next]_vars, MaxReg < NonceMod - 1
  PROVE  NonceInv'
<1>1. Inv /\ Inv' /\ BookOK /\ TypeOK /\ BookMoves
  BY NextBookMoves DEF LooperInv, Inv
<1>2. /\ \A i \in Timers : timer[i].nonce \in Nonces /\ timer[i].nonce \in Int
      /\ Len(book) \in Nat /\ Len(book) <= Len(book')
      /\ \A u \in DOMAIN book : book[u].nonce \in Int /\ (book[u].kind = "timer" => book[u].i \in Timers)
      /\ DOMAIN book = 1 .. Len(book)
  <2>1. Len(book) \in Nat /\ DOMAIN book = 1 .. Len(book) /\ Len(book') \in Nat
        /\ DOMAIN book' = 1 .. Len(book')
    <3>1. book \in Seq(Registration) /\ book' \in Seq(Registration)
      BY <1>1 DEF Inv, TypeOK
    <3> QED BY <3>1
  <2>2. Len(book) <= Len(book')
    <3>1. \A u \in DOMAIN book : u \in DOMAIN book'
      BY <1>1 DEF BookMoves
    <3>2. Len(book) # 0 => Len(book) \in 1 .. Len(book')
      BY <2>1, <3>1
    <3> QED BY <2>1, <3>2
  <2>3. \A i \in Timers : timer[i].nonce \in Nonces /\ timer[i].nonce \in Int
    BY <1>1 DEF TypeOK, TimerEntry, Nonces
  <2>4. \A u \in DOMAIN book : book[u].nonce \in Int
    BY <1>1, BookDomain DEF Registration, Nonces
  <2> QED BY <1>1, <2>1, <2>2, <2>3, <2>4 DEF BookOK
<1>3. CASE \E d, v, h : SetTimer(d, v, h)
  <2>1. PICK d, v, h : SetTimer(d, v, h)
    BY <1>3
  <2>2. PICK i : i = Head(freeTimer) /\ TimerSetAt(i, d, v, h)
    BY <1>1, <2>1, TimerSet
  <2>3. PICK r : /\ book' = Append(book, r) /\ r.kind = "timer" /\ r.i = i
                 /\ r.nonce = NextNonce(timer[i].nonce)
    BY <2>1, <2>2, SetTimerBook
  <2>4. /\ book'[Len(book) + 1] = r /\ \A u \in DOMAIN book : book'[u] = book[u]
        /\ DOMAIN book' = DOMAIN book \cup {Len(book) + 1} /\ Len(book') = Len(book) + 1
    BY <1>1, <2>3, BookGrown
  <2>5. r.nonce = timer[i].nonce + 1 /\ timer[i].nonce <= Len(book) + 1 /\ i \in Timers
    <3>1. Len(book) < MaxReg
      BY <2>1 DEF SetTimer, MayRegister
    <3>2. timer[i].nonce <= Len(book) + 1 /\ i \in Timers
      BY <2>2 DEF TimerSetAt, NonceInv
    <3>3. timer[i].nonce + 1 < NonceMod
      BY <1>2, <3>1, <3>2, NonceAssumption, CallerAssumption
    <3> QED BY <1>2, <2>3, <3>2, <3>3, NonceGrows
  <2>6. /\ timer'[i].nonce = r.nonce /\ timer'[i].u = Len(book) + 1
        /\ \A j \in Timers : j # i => timer'[j] = timer[j]
    BY <2>2, <2>3 DEF TimerSetAt
  <2>7. \A j \in Timers : timer'[j].nonce <= Len(book') + 1
    BY <1>2, <2>4, <2>5, <2>6 DEF NonceInv
  <2>8. ASSUME NEW u \in DOMAIN book', book'[u].kind = "timer"
        PROVE  /\ book'[u].nonce <= timer'[book'[u].i].nonce
               /\ book'[u].nonce = timer'[book'[u].i].nonce => timer'[book'[u].i].u = u
    <3>1. CASE u = Len(book) + 1
      BY <1>2, <2>3, <2>4, <2>5, <2>6, <3>1
    <3>2. CASE u # Len(book) + 1
      <4>1. u \in DOMAIN book /\ book'[u] = book[u]
        BY <2>4, <2>8, <3>2
      <4>2. /\ book[u].nonce <= timer[book[u].i].nonce /\ book[u].i \in Timers
            /\ book[u].nonce = timer[book[u].i].nonce => timer[book[u].i].u = u
        BY <1>2, <2>8, <4>1 DEF NonceInv
      <4>3. CASE book[u].i = i
        BY <1>2, <2>5, <2>6, <4>1, <4>2, <4>3
      <4>4. CASE book[u].i # i
        BY <2>6, <4>1, <4>2, <4>4
      <4> QED BY <4>3, <4>4
    <3> QED BY <3>1, <3>2
  <2> QED BY <2>7, <2>8 DEF NonceInv
<1>4. CASE /\ ~\E d, v, h : SetTimer(d, v, h)
           /\ \A i \in Timers : timer'[i].u = timer[i].u /\ timer'[i].nonce = timer[i].nonce
  <2>1. \A j \in Timers : timer'[j].nonce <= Len(book') + 1
    <3>1. ASSUME NEW j \in Timers
          PROVE  timer'[j].nonce <= Len(book') + 1
      <4>1. timer'[j].nonce = timer[j].nonce
        BY <1>4
      <4>2. timer[j].nonce <= Len(book) + 1
        BY DEF NonceInv
      <4>3. Len(book') \in Nat
        BY <1>1 DEF Inv, TypeOK
      <4> QED BY <1>2, <4>1, <4>2, <4>3
    <3> QED BY <3>1
  <2>2. \A u \in DOMAIN book' : book'[u].kind = "timer" => u \in DOMAIN book
    <3>1. ASSUME NEW r, book' = Append(book, r), r.kind # "timer"
          PROVE  \A u \in DOMAIN book' : book'[u].kind = "timer" => u \in DOMAIN book
      BY <1>1, <3>1, BookGrown
    <3>2. CASE DOMAIN book' = DOMAIN book
      BY <3>2
    <3>3. \/ \E r : book' = Append(book, r) /\ r.kind # "timer"
          \/ DOMAIN book' = DOMAIN book
      BY <1>1, <1>4, NextBookDomain
    <3> QED BY <3>1, <3>2, <3>3
  <2>3. ASSUME NEW u \in DOMAIN book', book'[u].kind = "timer"
        PROVE  /\ book'[u].nonce <= timer'[book'[u].i].nonce
               /\ book'[u].nonce = timer'[book'[u].i].nonce => timer'[book'[u].i].u = u
    <3>1. u \in DOMAIN book
      BY <2>2, <2>3
    <3>2. book'[u].kind = book[u].kind /\ book'[u].i = book[u].i /\ book'[u].nonce = book[u].nonce
      BY <1>1, <3>1 DEF BookMoves, Fixed
    <3> QED BY <1>2, <1>4, <2>3, <3>1, <3>2 DEF NonceInv
  <2> QED BY <2>1, <2>3 DEF NonceInv
<1>5. \/ \E d, v, h : SetTimer(d, v, h)
      \/ \A i \in Timers : timer'[i].u = timer[i].u /\ timer'[i].nonce = timer[i].nonce
  BY <1>1, TimersStep
<1> QED BY <1>3, <1>4, <1>5

\* An identifier clears the timer it was given for, never a later one that
\* took the entry, until the nonce has come round (clearTimer).
THEOREM StaleIdentifierIsHarmless ==
  ASSUME MaxReg < NonceMod - 1
  PROVE  Spec => StaleIdHarmless
<1>1. LooperInv /\ LooperInv' /\ NonceInv /\ [Next]_vars => NonceInv'
  BY NextNonceInv
<1>2. Init => NonceInv
  <2>1. ASSUME Init PROVE NonceInv
    <3>1. (\A i \in Timers : timer[i].nonce = 1) /\ book = <<>>
      BY <2>1 DEF Init
    <3> QED BY <3>1 DEF NonceInv
  <2> QED BY <2>1
<1>3. NonceInv => [\A u \in DOMAIN book, b \in BOOLEAN :
                     ClearTimer(u, b) => timer[book[u].i].u = u]_vars
  BY DEF NonceInv, ClearTimer, TimerMatches
<1>4. Spec => []LooperInv
  BY LooperInvariant
<1> QED BY <1>1, <1>2, <1>3, <1>4, PTL DEF Spec, StaleIdHarmless

-----------------------------------------------------------------------------
(* The order of the dispatches in penndingList: two that are in t in an order  *)
(* are in s in that order.                                                     *)
SameTurns(t, s) ==
  \A k, l \in DOMAIN t :
    k < l /\ t[k].kind = "dispatch" /\ t[l].kind = "dispatch"
      => \E a, b \in DOMAIN s : a < b /\ s[a] = t[k] /\ s[b] = t[l]

LEMMA TurnsOfSame ==
  ASSUME NEW s
  PROVE  SameTurns(s, s)
BY DEF SameTurns

LEMMA TurnsCompose ==
  ASSUME NEW r, NEW s, NEW t, SameTurns(t, s), SameTurns(s, r)
  PROVE  SameTurns(t, r)
<1> SUFFICES ASSUME NEW k \in DOMAIN t, NEW l \in DOMAIN t, k < l,
                    t[k].kind = "dispatch", t[l].kind = "dispatch"
             PROVE  \E a, b \in DOMAIN r : a < b /\ r[a] = t[k] /\ r[b] = t[l]
  BY DEF SameTurns
<1>1. PICK c \in DOMAIN s, d \in DOMAIN s : c < d /\ s[c] = t[k] /\ s[d] = t[l]
  BY DEF SameTurns
<1>2. s[c].kind = "dispatch" /\ s[d].kind = "dispatch"
  BY <1>1
<1>3. PICK a \in DOMAIN r, b \in DOMAIN r : a < b /\ r[a] = s[c] /\ r[b] = s[d]
  BY <1>1, <1>2 DEF SameTurns
<1> QED BY <1>1, <1>3

LEMMA TurnsOfAppend ==
  ASSUME NEW s \in Seq(Nodes), NEW x, x.kind # "dispatch"
  PROVE  SameTurns(Append(s, x), s)
<1> DEFINE t == Append(s, x)
<1>1. /\ Len(s) \in Nat /\ DOMAIN s = 1 .. Len(s) /\ DOMAIN t = 1 .. Len(s) + 1
      /\ \A k \in 1 .. Len(s) : t[k] = s[k]
      /\ t[Len(s) + 1] = x
  OBVIOUS
<1> HIDE DEF t
<1>2. \A k \in DOMAIN t : t[k].kind = "dispatch" => k \in DOMAIN s /\ t[k] = s[k]
  BY <1>1
<1> QED BY <1>2 DEF SameTurns, t

LEMMA TurnsOfTail ==
  ASSUME NEW s \in Seq(Nodes), s # <<>>
  PROVE  SameTurns(Tail(s), s)
<1> DEFINE t == Tail(s)
<1>1. /\ Len(s) \in Nat /\ DOMAIN s = 1 .. Len(s) /\ DOMAIN t = 1 .. Len(s) - 1
      /\ \A k \in 1 .. Len(s) - 1 : t[k] = s[k + 1]
  OBVIOUS
<1> HIDE DEF t
<1>2. ASSUME NEW k \in DOMAIN t, NEW l \in DOMAIN t, k < l
      PROVE  \E a, b \in DOMAIN s : a < b /\ s[a] = t[k] /\ s[b] = t[l]
  <2>1. k + 1 \in DOMAIN s /\ l + 1 \in DOMAIN s /\ k + 1 < l + 1
    BY <1>1, <1>2
  <2>2. s[k + 1] = t[k] /\ s[l + 1] = t[l]
    BY <1>1
  <2> QED BY <2>1, <2>2
<1> QED BY <1>2 DEF SameTurns, t

LEMMA TurnsOfRequeue ==
  ASSUME NEW s \in Seq(Nodes), s # <<>>, Head(s).kind # "dispatch"
  PROVE  SameTurns(Append(Tail(s), Head(s)), s)
<1>1. Tail(s) \in Seq(Nodes)
  OBVIOUS
<1>2. SameTurns(Append(Tail(s), Head(s)), Tail(s))
  BY <1>1, TurnsOfAppend
<1> QED BY <1>2, TurnsOfTail, TurnsCompose

LEMMA TurnsOfWithout ==
  ASSUME NEW s \in Seq(Nodes), NEW x, IsInjective(s)
  PROVE  SameTurns(Without(s, x), s)
<1> DEFINE w == Without(s, x)
<1>0. Len(s) \in Nat /\ DOMAIN s = 1 .. Len(s)
  OBVIOUS
<1>1. CASE x \in ToSet(s)
  <2> DEFINE p == CHOOSE k \in DOMAIN s : s[k] = x
  <2>1. p \in 1 .. Len(s) /\ s[p] = x
    BY <1>1, MemberOf
  <2>2. w = RemoveAt(s, p)
    BY <1>1 DEF Without
  <2> HIDE DEF p, w
  <2>3. /\ w \in Seq(Nodes) /\ Len(w) = Len(s) - 1
        /\ \A k \in 1 .. Len(s) - 1 : w[k] = IF k < p THEN s[k] ELSE s[k + 1]
    BY <2>1, <2>2, RemoveAtList
  <2>4. DOMAIN w = 1 .. Len(s) - 1
    BY <2>3
  <2>5. ASSUME NEW k \in DOMAIN w, NEW l \in DOMAIN w, k < l
        PROVE  \E a, b \in DOMAIN s : a < b /\ s[a] = w[k] /\ s[b] = w[l]
    <3> DEFINE a == IF k < p THEN k ELSE k + 1
               b == IF l < p THEN l ELSE l + 1
    <3>1. a \in DOMAIN s /\ b \in DOMAIN s /\ a < b
      BY <1>0, <2>1, <2>4, <2>5
    <3>2. s[a] = w[k] /\ s[b] = w[l]
      BY <2>3, <2>4
    <3> QED BY <3>1, <3>2
  <2> QED BY <2>5 DEF SameTurns, w
<1>2. CASE x \notin ToSet(s)
  BY <1>2, TurnsOfSame DEF Without
<1> QED BY <1>1, <1>2

LEMMA TurnsOfReplace ==
  ASSUME NEW s \in Seq(Nodes), NEW x, NEW y, y.kind # "dispatch"
  PROVE  SameTurns(ReplaceAll(s, x, y), s)
<1> DEFINE t == ReplaceAll(s, x, y)
<1>1. DOMAIN s = 1 .. Len(s) /\ t = [k \in 1 .. Len(s) |-> IF s[k] = x THEN y ELSE s[k]]
  BY DEF ReplaceAll
<1>2. DOMAIN t = DOMAIN s /\ \A k \in DOMAIN s : t[k] = IF s[k] = x THEN y ELSE s[k]
  BY <1>1
<1> HIDE DEF t
<1>3. \A k \in DOMAIN t : t[k].kind = "dispatch" => k \in DOMAIN s /\ t[k] = s[k]
  BY <1>2
<1> QED BY <1>3 DEF SameTurns, t

\* Only steps of dispatches change the order they wait in.
LEMMA TurnsKept ==
  ASSUME Inv, [Next]_vars, ~DispatchStep
  PROVE  SameTurns(pending', pending)
<1>0. pending \in Seq(Nodes) /\ IsInjective(pending)
  BY DEF Inv, TypeOK, NoDuplicates
<1>1. \A i : TimerNode(i).kind # "dispatch" /\ SocketNode(i).kind # "dispatch"
  BY DEF TimerNode, SocketNode
<1>2. CASE UNCHANGED pending
  BY <1>2, TurnsOfSame
<1>3. ASSUME NEW x, x.kind # "dispatch", pending' = Append(pending, x)
      PROVE  SameTurns(pending', pending)
  BY <1>0, <1>3, TurnsOfAppend
<1>4. ASSUME NEW kind, NEW st, Draining(kind, st), kind # "dispatch",
             pending' = Tail(pending) \/ pending' = Append(Tail(pending), Head(pending))
      PROVE  SameTurns(pending', pending)
  <2>1. pending # <<>> /\ Head(pending).kind # "dispatch"
    BY <1>4 DEF Draining
  <2> QED BY <1>0, <1>4, <2>1, TurnsOfTail, TurnsOfRequeue
<1>5. ASSUME NEW x, x.kind # "dispatch",
             pending' = Without(pending, x) \/ pending' = Append(Without(pending, x), x)
      PROVE  SameTurns(pending', pending)
  <2>1. SameTurns(Without(pending, x), pending) /\ Without(pending, x) \in Seq(Nodes)
    BY <1>0, TurnsOfWithout, WithoutList
  <2>2. SameTurns(Append(Without(pending, x), x), Without(pending, x))
    BY <1>5, <2>1, TurnsOfAppend
  <2>3. SameTurns(Append(Without(pending, x), x), pending)
    BY <2>1, <2>2, TurnsCompose
  <2>4. CASE pending' = Without(pending, x)
    BY <2>1, <2>4
  <2>5. CASE pending' = Append(Without(pending, x), x)
    BY <2>3, <2>5
  <2> QED BY <1>5, <2>4, <2>5
<1>6. CASE Callers
  <2>1. ASSUME NEW d, NEW v, NEW h, SetTimer(d, v, h) PROVE SameTurns(pending', pending)
    BY <1>2, <2>1 DEF SetTimer
  <2>2. ASSUME NEW u, NEW b, ClearTimer(u, b) PROVE SameTurns(pending', pending)
    <3>1. \E i : \/ UNCHANGED pending
                 \/ pending' = Without(pending, TimerNode(i))
                 \/ pending' = Append(Without(pending, TimerNode(i)), TimerNode(i))
      BY <2>2 DEF ClearTimer
    <3> QED BY <3>1, <1>1, <1>2, <1>5
  <2>3. ASSUME NEW fd, NEW h, AddSocket(fd, h) PROVE SameTurns(pending', pending)
    <3>1. \E i : pending' = Append(pending, SocketNode(i))
      BY <2>3 DEF AddSocket
    <3> QED BY <3>1, <1>1, <1>3
  <2>4. ASSUME NEW fd, RemoveSocket(fd) PROVE SameTurns(pending', pending)
    <3>1. \E i : \/ pending' = Without(pending, SocketNode(i))
                 \/ pending' = Append(Without(pending, SocketNode(i)), SocketNode(i))
      BY <2>4 DEF RemoveSocket
    <3> QED BY <3>1, <1>1, <1>5
  <2>5. ASSUME Wakeup PROVE SameTurns(pending', pending)
    BY <1>2, <2>5 DEF Wakeup, lists
  <2>6. ~(\E h \in Destroys : Dispatch(h))
    BY DEF DispatchStep
  <2> HIDE DEF SameTurns
  <2> QED BY <1>6, <2>6, <2>1, <2>2, <2>3, <2>4, <2>5 DEF Callers
<1>7. CASE FireTimer
  <2>1. \E i : pending' = Append(pending, TimerNode(i))
    BY <1>7 DEF FireTimer
  <2> QED BY <2>1, <1>1, <1>3
<1>8. CASE DrainTimerAction \/ DrainTimerDestroy
  <2>1. \E st : /\ Draining("timer", st)
                /\ \/ pending' = Tail(pending)
                   \/ pending' = Append(Tail(pending), Head(pending))
    BY <1>8 DEF DrainTimerAction, DrainTimerDestroy, Requeue
  <2> QED BY <2>1, <1>4
<1>9. CASE DrainSocketUsed \/ DrainSocketAction \/ DrainSocketDestroy
  <2>1. \E st : /\ Draining("socket", st)
                /\ \/ pending' = Tail(pending)
                   \/ pending' = Append(Tail(pending), Head(pending))
    BY <1>9 DEF DrainSocketUsed, DrainSocketAction, DrainSocketDestroy, Requeue
  <2> QED BY <2>1, <1>4
<1>10. CASE CollectUsed
  <2>1. \E i : pending' = Append(pending, SocketNode(i))
    BY <1>10 DEF CollectUsed
  <2> QED BY <2>1, <1>1, <1>3
<1>11. CASE CollectFree
  <2>1. \E i, j : UNCHANGED pending \/ pending' = ReplaceAll(pending, SocketNode(j), SocketNode(i))
    BY <1>11 DEF CollectFree
  <2> QED BY <2>1, <1>0, <1>1, <1>2, TurnsOfReplace
<1>12. CASE Elsewhere
  BY <1>2, <1>12, ElsewhereKeeps DEF lists
<1>13. CASE UNCHANGED vars
  BY <1>2, <1>13 DEF vars
<1> QED BY <1>6, <1>7, <1>8, <1>9, <1>10, <1>11, <1>12, <1>13
        DEF Next, Worker, NextEvent, DispatchStep, Elsewhere

-----------------------------------------------------------------------------
(* Who waits, and what a step does to it.                                      *)
\* An event that was returned stays in hand until it is called.
LEMMA StaysInHand ==
  ASSUME [Next]_vars, ~Call, pc = "event"
  PROVE  \A e, i : HandedOut(e, i)' <=> HandedOut(e, i)
<1>1. CASE NextEvent
  BY <1>1 DEF NextEvent, FireTimer, StartDrain, DrainTimerAction, DrainTimerDestroy,
     DrainSocketUsed, DrainSocketAction, DrainSocketDestroy, DrainDispatchUsed,
     DrainDispatchAction, DrainDispatchDone, StartCollect, CollectUsed, CollectFree,
     NoEventLeft, Draining
<1>2. CASE Callers
  BY <1>2, CallersKeep, SameEvent
<1>3. CASE Tick \/ UNCHANGED vars
  BY <1>3, SameEvent DEF Tick, worker, vars
<1>4. CASE Return \/ PollEnter \/ PollWoken \/ PollReady \/ Stop \/ Destroy
  BY <1>4 DEF Return, PollEnter, PollWoken, PollReady, PollReturn, Stop, Destroy
<1> QED BY <1>1, <1>2, <1>3, <1>4 DEF Next, Worker

\* Only dispatch adds a registration of a dispatch.
LEMMA NoNewDispatch ==
  ASSUME Inv, [Next]_vars, ~(\E h \in Destroys : Dispatch(h))
  PROVE  \A u \in DOMAIN book' : book'[u].kind = "dispatch" => u \in DOMAIN book
<1>0. TypeOK
  BY DEF Inv
<1>1. ASSUME NEW r, book' = Append(book, r), r.kind # "dispatch"
      PROVE  \A u \in DOMAIN book' : book'[u].kind = "dispatch" => u \in DOMAIN book
  BY <1>0, <1>1, BookGrown
<1>2. CASE Callers
  <2>1. ASSUME NEW d, NEW v, NEW h, SetTimer(d, v, h)
        PROVE  \A u \in DOMAIN book' : book'[u].kind = "dispatch" => u \in DOMAIN book
    BY <1>1, <2>1, SetTimerBook
  <2>2. ASSUME NEW fd, NEW h, AddSocket(fd, h)
        PROVE  \A u \in DOMAIN book' : book'[u].kind = "dispatch" => u \in DOMAIN book
    BY <1>1, <2>2, AddSocketBook
  <2>3. ASSUME NEW u, NEW b, ClearTimer(u, b) PROVE DOMAIN book' = DOMAIN book
    BY <1>0, <2>3, BookCancelled DEF ClearTimer
  <2>4. ASSUME NEW fd, RemoveSocket(fd) PROVE DOMAIN book' = DOMAIN book
    BY <1>0, <2>4, BookCancelled DEF RemoveSocket
  <2>5. ASSUME Wakeup PROVE DOMAIN book' = DOMAIN book
    BY <2>5 DEF Wakeup
  <2> QED BY <1>2, <2>1, <2>2, <2>3, <2>4, <2>5 DEF Callers
<1>3. CASE Call
  <2>1. \E u : book' = book \/ book' = Ran(u) \/ book' = Freed(u)
    BY <1>3 DEF Call
  <2> QED BY <1>0, <2>1, BookRan, BookFreed
<1>4. CASE NextEvent
  BY <1>4 DEF NextEvent, FireTimer, StartDrain, DrainTimerAction, DrainTimerDestroy,
     DrainSocketUsed, DrainSocketAction, DrainSocketDestroy, DrainDispatchUsed,
     DrainDispatchAction, DrainDispatchDone, StartCollect, CollectUsed,
     CollectFree, NoEventLeft
<1>5. CASE Return \/ PollEnter \/ PollWoken \/ PollReady \/ Stop \/ Tick \/ UNCHANGED vars
  BY <1>5 DEF Return, PollEnter, PollWoken, PollReady, PollReturn, Stop, Tick, vars
<1>6. CASE Destroy
  <2>1. DOMAIN book' = DOMAIN book
    BY <1>6 DEF Destroy
  <2> QED BY <2>1
<1> QED BY <1>2, <1>3, <1>4, <1>5, <1>6 DEF Next, Worker

\* The handler of a dispatch handed out is counted.
LEMMA DispatchCalled ==
  ASSUME Inv, Call, NEW i \in Dispatches, dispatched[i].u \in DOMAIN book, dispatched[i].u # 0
  PROVE  /\ HandedOut("dispatchAction", i) => book'[dispatched[i].u].ran > 0
         /\ HandedOut("dispatchDestroy", i) => book'[dispatched[i].u].freed > 0
<1> DEFINE u == dispatched[i].u
<1>0. TypeOK /\ book[u].ran \in 0 .. 3 /\ book[u].freed \in 0 .. 3
  BY BookDomain DEF Inv, Registration
<1>1. ASSUME HandedOut("dispatchAction", i) PROVE book'[u].ran > 0
  <2>1. UserdataOf(cur) = u /\ IsAction(cur)
    BY <1>1 DEF HandedOut, UserdataOf, IsAction
  <2>2. book' = Ran(u)
    BY <2>1 DEF Call
  <2>3. book'[u].ran = Bump(book[u].ran)
    BY <1>0, <2>2, BookRan
  <2> QED BY <1>0, <2>3 DEF Bump
<1>2. ASSUME HandedOut("dispatchDestroy", i) PROVE book'[u].freed > 0
  <2>1. UserdataOf(cur) = u /\ ~IsAction(cur)
    BY <1>2 DEF HandedOut, UserdataOf, IsAction
  <2>2. book' = Freed(u)
    BY <2>1 DEF Call
  <2>3. book'[u].freed = Bump(book[u].freed)
    BY <1>0, <2>2, BookFreed
  <2> QED BY <1>0, <2>3 DEF Bump
<1> QED BY <1>1, <1>2

\* The record of what waits.
LEMMA WaitersKnown ==
  ASSUME Inv, Owners, NotFreed
  PROVE  /\ \A u \in DOMAIN book : u # 0 /\ u \in Int
         /\ \A i \in Dispatches : ToRun(i) \/ ToRelease(i) =>
              /\ dispatched[i].u # 0 /\ dispatched[i].u \in DOMAIN book
              /\ book[dispatched[i].u].kind = "dispatch" /\ book[dispatched[i].u].i = i
              /\ book[dispatched[i].u].destroy = dispatched[i].destroy
<1>1. \A u \in DOMAIN book : u # 0 /\ u \in Int
  BY BookDomain DEF Inv
<1>2. \A i \in Dispatches : ToRun(i) \/ ToRelease(i) => dispatched[i].state # "Free"
  BY DEF ToRun, ToRelease, Armed, NotFreed, DispatchNotFreed
<1> QED BY <1>1, <1>2 DEF Owners, DispatchOwner

\* A step that calls nobody, and lets nobody wait who did not wait before.
LEMMA TurnsNotTaken ==
  ASSUME Inv, Owners, NotFreed, RunsInTurn, ReleasesInTurn, [Next]_vars,
         ~Call, ~Destroy, ~(\E h \in Destroys : Dispatch(h)),
         \A i \in Dispatches :
           /\ dispatched'[i].u = dispatched[i].u
           /\ ToRun(i)' <=> ToRun(i)
           /\ ToRelease(i)' => ToRelease(i)
           /\ ToRelease(i) /\ dispatched[i].destroy => ToRelease(i)'
  PROVE  RunsInTurn' /\ ReleasesInTurn'
<1>0. /\ \A u \in DOMAIN book' : book'[u].kind = "dispatch" => u \in DOMAIN book
      /\ \A u \in DOMAIN book :
           /\ book'[u].kind = book[u].kind /\ book'[u].destroy = book[u].destroy
           /\ book'[u].ran = book[u].ran /\ book'[u].freed = book[u].freed
  BY NoNewDispatch, NextBookMoves DEF BookMoves, Fixed
<1>1. RunsInTurn'
  <2> SUFFICES ASSUME NEW u \in DOMAIN book', book'[u].kind = "dispatch"
               PROVE  /\ book'[u].ran = 0 =>
                           \E i \in Dispatches : dispatched'[i].u = u /\ ToRun(i)'
                      /\ book'[u].ran > 0 =>
                           \A i \in Dispatches : ToRun(i)' => u < dispatched'[i].u
    BY DEF RunsInTurn
  <2>1. /\ u \in DOMAIN book /\ book[u].kind = "dispatch" /\ book'[u].ran = book[u].ran
    BY <1>0
  <2>2. /\ book[u].ran = 0 => \E i \in Dispatches : dispatched[i].u = u /\ ToRun(i)
        /\ book[u].ran > 0 => \A i \in Dispatches : ToRun(i) => u < dispatched[i].u
    BY <2>1 DEF RunsInTurn
  <2> QED BY <2>1, <2>2
<1>2. ReleasesInTurn'
  <2> SUFFICES ASSUME NEW u \in DOMAIN book', book'[u].kind = "dispatch"
               PROVE  /\ book'[u].destroy /\ book'[u].freed = 0 =>
                           \E i \in Dispatches : dispatched'[i].u = u /\ ToRelease(i)'
                      /\ book'[u].freed > 0 =>
                           \A i \in Dispatches : ToRelease(i)' => u < dispatched'[i].u
    BY DEF ReleasesInTurn
  <2>1. /\ u \in DOMAIN book /\ book[u].kind = "dispatch"
        /\ book'[u].freed = book[u].freed /\ book'[u].destroy = book[u].destroy
    BY <1>0
  <2>2. book[u].destroy /\ book[u].freed = 0 =>
          \E i \in Dispatches : dispatched[i].u = u /\ ToRelease(i) /\ dispatched[i].destroy
    BY <2>1, WaitersKnown DEF ReleasesInTurn
  <2>3. book[u].freed > 0 => \A i \in Dispatches : ToRelease(i) => u < dispatched[i].u
    BY <2>1 DEF ReleasesInTurn
  <2> QED BY <2>1, <2>2, <2>3
<1> QED BY <1>1, <1>2

\* Positions of dispatches in penndingList are entries that are not free.
LEMMA QueuedEntries ==
  ASSUME Inv
  PROVE  /\ pending \in Seq(Nodes) /\ DOMAIN pending = 1 .. Len(pending) /\ Len(pending) \in Nat
         /\ \A k, phase : Waits(k, phase) =>
              /\ pending[k].i \in Dispatches /\ pending[k] = DispatchNode(pending[k].i)
              /\ dispatched[pending[k].i].state # "Free"
         /\ \A i \in Dispatches : dispatched[i].state # "Free" =>
              \E k \in DOMAIN pending : pending[k] = DispatchNode(i)
         /\ \A k, l \in DOMAIN pending : pending[k] = pending[l] => k = l
<1>1. /\ pending \in Seq(Nodes) /\ DOMAIN pending = 1 .. Len(pending) /\ Len(pending) \in Nat
      /\ \A k \in DOMAIN pending : pending[k] \in Nodes /\ pending[k] \in ToSet(pending)
  BY MemberOf DEF Inv, TypeOK
<1>2. ASSUME NEW k, NEW phase, Waits(k, phase)
      PROVE  /\ pending[k].i \in Dispatches /\ pending[k] = DispatchNode(pending[k].i)
             /\ dispatched[pending[k].i].state # "Free"
  <2>1. k \in DOMAIN pending /\ pending[k].kind = "dispatch" /\ pending[k] \in Nodes
    BY <1>1, <1>2 DEF Waits
  <2>2. pending[k].i \in Dispatches /\ pending[k] = DispatchNode(pending[k].i)
    BY <2>1 DEF Nodes, DispatchNode
  <2>3. pending[k].i \in Pending("dispatch")
    BY <1>1, <2>1 DEF Pending, OfKind
  <2> QED BY <2>2, <2>3 DEF Inv, ListsMatchStates, DispatchLists
<1>3. ASSUME NEW i \in Dispatches, dispatched[i].state # "Free"
      PROVE  \E k \in DOMAIN pending : pending[k] = DispatchNode(i)
  <2>1. i \in Pending("dispatch")
    BY <1>3 DEF Inv, ListsMatchStates, DispatchLists
  <2>2. DispatchNode(i) \in ToSet(pending)
    BY <2>1, PendingKinds DEF Inv
  <2> QED BY <1>1, <2>2, MemberOf
<1>4. \A k, l \in DOMAIN pending : pending[k] = pending[l] => k = l
  BY DEF Inv, NoDuplicates, IsInjective
<1> QED BY <1>1, <1>2, <1>3, <1>4

LEMMA CallInTurn ==
  ASSUME Inv, Owners, NotFreed, TurnInv, [Next]_vars, Call
  PROVE  TurnInv'
<1>0. /\ UNCHANGED <<dispatched, pending>> /\ \A e, i : ~HandedOut(e, i)'
  BY DEF Call, entries, lists, HandedOut
<1>1. DispatchesQueued'
  BY <1>0 DEF TurnInv, DispatchesQueued, Waits
<1>2. PhasesInTurn'
  BY <1>0 DEF TurnInv, PhasesInTurn
<1>3. \A i \in Dispatches :
        /\ ToRun(i)' <=> dispatched[i].state = "Used"
        /\ ToRelease(i)' <=> dispatched[i].state \in Armed
  BY <1>0 DEF ToRun, ToRelease
<1>4. /\ \A u \in DOMAIN book' : book'[u].kind = "dispatch" => u \in DOMAIN book
      /\ \A u \in DOMAIN book : book'[u].kind = book[u].kind /\ book'[u].destroy = book[u].destroy
  <2>1. ~(\E h \in Destroys : Dispatch(h))
    BY DEF Call, Dispatch, worker
  <2> QED BY <2>1, NoNewDispatch, NextBookMoves DEF BookMoves, Fixed
<1>5. \A u \in DOMAIN book : /\ book[u].ran \in 0 .. 3 /\ book[u].freed \in 0 .. 3
                             /\ book'[u].ran # book[u].ran => book'[u].ran > 0
                             /\ book'[u].freed # book[u].freed => book'[u].freed > 0
  <2>1. \A u \in DOMAIN book : book[u].ran \in 0 .. 3 /\ book[u].freed \in 0 .. 3
    BY BookDomain DEF Inv, Registration
  <2> QED BY <2>1, CallEffects DEF Bump
<1>6. RunsInTurn'
  <2> SUFFICES ASSUME NEW u \in DOMAIN book, book[u].kind = "dispatch"
               PROVE  /\ book'[u].ran = 0 =>
                           \E i \in Dispatches : dispatched[i].u = u /\ ToRun(i)'
                      /\ book'[u].ran > 0 =>
                           \A i \in Dispatches : ToRun(i)' => u < dispatched[i].u
    BY <1>0, <1>4 DEF RunsInTurn
  <2>1. /\ book[u].ran = 0 => \E i \in Dispatches : dispatched[i].u = u /\ ToRun(i)
        /\ book[u].ran > 0 => \A i \in Dispatches : ToRun(i) => u < dispatched[i].u
    BY DEF TurnInv, RunsInTurn
  <2>2. ASSUME book'[u].ran = 0
        PROVE  \E i \in Dispatches : dispatched[i].u = u /\ ToRun(i)'
    <3>1. book[u].ran = 0 /\ u # 0
      BY <1>5, <2>2, WaitersKnown
    <3>2. PICK i \in Dispatches : dispatched[i].u = u /\ ToRun(i)
      BY <2>1, <3>1
    <3>3. ~HandedOut("dispatchAction", i)
      BY <2>2, <3>1, <3>2, DispatchCalled
    <3> QED BY <1>3, <3>2, <3>3 DEF ToRun
  <2>3. ASSUME book'[u].ran > 0, NEW i \in Dispatches, ToRun(i)'
        PROVE  u < dispatched[i].u
    <3>1. dispatched[i].state = "Used" /\ ToRun(i)
      BY <1>3, <2>3 DEF ToRun
    <3>2. CASE book[u].ran > 0
      BY <2>1, <3>1, <3>2
    <3>3. CASE book'[u].ran # book[u].ran
      <4>1. PICK k : \/ k \in Timers /\ HandedOut("timerAction", k) /\ timer[k].u = u
                     \/ k \in Sockets /\ HandedOut("socketAction", k) /\ socket[k].u = u
                     \/ k \in Dispatches /\ HandedOut("dispatchAction", k) /\ dispatched[k].u = u
        BY <3>3, CallEffects
      <4>2. u # 0 /\ ~(k \in Sockets /\ socket[k].u = u) /\ ~(k \in Timers /\ timer[k].u = u)
        BY WaitersKnown DEF Owners, SocketOwner, TimerOwner
      <4>3. k \in Dispatches /\ HandedOut("dispatchAction", k) /\ dispatched[k].u = u
        BY <4>1, <4>2
      <4>4. dispatched[k].state = "Action"
        BY <4>3 DEF NotFreed, DispatchNotFreed
      <4> QED BY <3>1, <4>3, <4>4 DEF TurnInv, PhasesInTurn
    <3> QED BY <1>5, <2>3, <3>2, <3>3
  <2> QED BY <2>2, <2>3
<1>7. ReleasesInTurn'
  <2> SUFFICES ASSUME NEW u \in DOMAIN book, book[u].kind = "dispatch"
               PROVE  /\ book[u].destroy /\ book'[u].freed = 0 =>
                           \E i \in Dispatches : dispatched[i].u = u /\ ToRelease(i)'
                      /\ book'[u].freed > 0 =>
                           \A i \in Dispatches : ToRelease(i)' => u < dispatched[i].u
    BY <1>0, <1>4 DEF ReleasesInTurn
  <2>1. /\ book[u].destroy /\ book[u].freed = 0 =>
             \E i \in Dispatches : dispatched[i].u = u /\ ToRelease(i)
        /\ book[u].freed > 0 => \A i \in Dispatches : ToRelease(i) => u < dispatched[i].u
    BY DEF TurnInv, ReleasesInTurn
  <2>2. ASSUME book[u].destroy, book'[u].freed = 0
        PROVE  \E i \in Dispatches : dispatched[i].u = u /\ ToRelease(i)'
    <3>1. book[u].freed = 0 /\ u # 0
      BY <1>5, <2>2, WaitersKnown
    <3>2. PICK i \in Dispatches : dispatched[i].u = u /\ ToRelease(i)
      BY <2>1, <2>2, <3>1
    <3>3. ~HandedOut("dispatchDestroy", i)
      BY <2>2, <3>1, <3>2, DispatchCalled
    <3> QED BY <1>3, <3>2, <3>3 DEF ToRelease
  <2>3. ASSUME book'[u].freed > 0, NEW i \in Dispatches, ToRelease(i)'
        PROVE  u < dispatched[i].u
    <3>1. dispatched[i].state \in Armed /\ ToRelease(i)
      BY <1>3, <2>3 DEF ToRelease
    <3>2. CASE book[u].freed > 0
      BY <2>1, <3>1, <3>2
    <3>3. CASE book'[u].freed # book[u].freed
      <4>1. PICK k : \/ k \in Timers /\ HandedOut("timerDestroy", k) /\ timer[k].u = u
                     \/ k \in Sockets /\ HandedOut("socketDestroy", k) /\ socket[k].u = u
                     \/ k \in Dispatches /\ HandedOut("dispatchDestroy", k) /\ dispatched[k].u = u
        BY <3>3, CallEffects
      <4>2. u # 0 /\ ~(k \in Sockets /\ socket[k].u = u) /\ ~(k \in Timers /\ timer[k].u = u)
        BY WaitersKnown DEF Owners, SocketOwner, TimerOwner
      <4>3. k \in Dispatches /\ HandedOut("dispatchDestroy", k) /\ dispatched[k].u = u
        BY <4>1, <4>2
      <4> QED BY <3>1, <4>3 DEF TurnInv, PhasesInTurn
    <3> QED BY <1>5, <2>3, <3>2, <3>3
  <2> QED BY <2>2, <2>3
<1> QED BY <1>1, <1>2, <1>6, <1>7 DEF TurnInv

LEMMA DispatchInTurn ==
  ASSUME Inv, Inv', Owners, NotFreed, TurnInv, [Next]_vars, NEW h, Dispatch(h)
  PROVE  TurnInv'
<1> DEFINE n == Len(book) + 1
<1>0. PICK i : i = Head(freeDispatch)
  OBVIOUS
<1>1. /\ i \in Dispatches /\ dispatched[i].state = "Free"
      /\ \A j \in Dispatches : j # i => dispatched'[j] = dispatched[j]
      /\ dispatched'[i].state = "Used" /\ dispatched'[i].u = n
  BY <1>0, DispatchSet DEF DispatchSetAt
<1>2. PICK r : /\ book' = Append(book, r) /\ Fresh(r) /\ r.kind = "dispatch"
  BY <1>0, DispatchBook
<1>3. /\ DOMAIN book' = DOMAIN book \cup {n} /\ DOMAIN book = 1 .. Len(book) /\ Len(book) \in Nat
      /\ book'[n] = r /\ r.ran = 0 /\ r.freed = 0
      /\ \A u \in DOMAIN book : book'[u] = book[u]
  BY <1>2, BookGrown, BookDomain DEF Inv, Fresh
<1>4. \A e, j : HandedOut(e, j)' <=> HandedOut(e, j)
  BY SameEvent DEF Dispatch
<1>5. ~ToRun(i) /\ ~ToRelease(i) /\ \A e \in DispatchEvents : ~HandedOut(e, i)
  BY <1>1 DEF ToRun, ToRelease, Armed, NotFreed, DispatchNotFreed, DispatchEvents
<1>6. /\ \A j \in Dispatches : j # i => (ToRun(j)' <=> ToRun(j)) /\ (ToRelease(j)' <=> ToRelease(j))
      /\ ToRun(i)' /\ ToRelease(i)'
  BY <1>1, <1>4 DEF ToRun, ToRelease, Armed
<1>7. \A j \in Dispatches :
        /\ ToRun(j) \/ ToRelease(j) => dispatched[j].u \in 1 .. Len(book)
        /\ dispatched[j].state \in Armed => ToRelease(j)
  BY <1>3, WaitersKnown DEF ToRelease
<1>8. DispatchesQueued'
  <2>1. pending \in Seq(Nodes) /\ pending' = Append(pending, DispatchNode(i))
    BY <1>0 DEF Dispatch, Inv, TypeOK
  <2>2. /\ Len(pending) \in Nat /\ DOMAIN pending = 1 .. Len(pending)
        /\ DOMAIN pending' = 1 .. Len(pending) + 1
        /\ pending'[Len(pending) + 1] = DispatchNode(i)
        /\ \A k \in DOMAIN pending : pending'[k] = pending[k]
    BY <2>1
  <2>3. ASSUME NEW k \in DOMAIN pending, NEW phase, Waits(k, phase)'
        PROVE  /\ Waits(k, phase) /\ pending'[k] = pending[k] /\ pending[k].i \in Dispatches
               /\ pending[k].i # i /\ dispatched'[pending[k].i] = dispatched[pending[k].i]
    <3>1. /\ pending'[k] = pending[k] /\ pending[k].kind = "dispatch"
          /\ dispatched'[pending[k].i].state = phase
      BY <2>2, <2>3 DEF Waits
    <3>2. Waits(k, dispatched[pending[k].i].state)
      BY <3>1 DEF Waits
    <3>3. pending[k].i \in Dispatches /\ dispatched[pending[k].i].state # "Free"
      BY <3>2, QueuedEntries
    <3>4. pending[k].i # i /\ dispatched'[pending[k].i] = dispatched[pending[k].i]
      BY <1>1, <3>3
    <3> QED BY <3>1, <3>2, <3>3, <3>4
  <2>4. SUFFICES ASSUME NEW k \in DOMAIN pending', NEW l \in DOMAIN pending', NEW phase \in Armed,
                        k < l, Waits(k, phase)', Waits(l, phase)'
                 PROVE  dispatched'[pending'[k].i].u < dispatched'[pending'[l].i].u
    BY DEF DispatchesQueued
  <2>5. k \in DOMAIN pending
    BY <2>2, <2>4
  <2>6. CASE l \in DOMAIN pending
    BY <2>3, <2>4, <2>5, <2>6 DEF TurnInv, DispatchesQueued
  <2>7. CASE l \notin DOMAIN pending
    <3>1. l = Len(pending) + 1 /\ pending'[l].i = i
      BY <2>2, <2>7 DEF DispatchNode
    <3>2. dispatched'[pending'[k].i].u \in 1 .. Len(book)
      BY <1>7, <2>3, <2>4, <2>5 DEF Waits
    <3> QED BY <1>1, <1>3, <3>1, <3>2
  <2> QED BY <2>6, <2>7
<1>9. PhasesInTurn'
  <2>1. ASSUME NEW j \in Dispatches, NEW k \in Dispatches,
               dispatched'[j].state = "Action", dispatched'[k].state = "Used"
        PROVE  dispatched'[j].u < dispatched'[k].u
    <3>1. j # i /\ dispatched'[j] = dispatched[j] /\ dispatched[j].state \in Armed
      BY <1>1, <2>1 DEF Armed
    <3>2. CASE k = i
      BY <1>1, <1>3, <1>7, <3>1, <3>2
    <3>3. CASE k # i
      BY <1>1, <2>1, <3>1, <3>3 DEF TurnInv, PhasesInTurn
    <3> QED BY <3>2, <3>3
  <2>2. ASSUME NEW j \in Dispatches, NEW k \in Dispatches,
               HandedOut("dispatchDestroy", j)', dispatched'[k].state \in Armed
        PROVE  dispatched'[j].u < dispatched'[k].u
    <3>1. HandedOut("dispatchDestroy", j) /\ j # i /\ ToRelease(j)
      BY <1>4, <1>5, <2>2 DEF DispatchEvents, ToRelease
    <3>2. CASE k = i
      BY <1>1, <1>3, <1>7, <3>1, <3>2
    <3>3. CASE k # i
      BY <1>1, <2>2, <3>1, <3>3 DEF TurnInv, PhasesInTurn
    <3> QED BY <3>2, <3>3
  <2> QED BY <2>1, <2>2 DEF PhasesInTurn, Armed
<1>10. RunsInTurn'
  <2> SUFFICES ASSUME NEW u \in DOMAIN book', book'[u].kind = "dispatch"
               PROVE  /\ book'[u].ran = 0 =>
                           \E j \in Dispatches : dispatched'[j].u = u /\ ToRun(j)'
                      /\ book'[u].ran > 0 =>
                           \A j \in Dispatches : ToRun(j)' => u < dispatched'[j].u
    BY DEF RunsInTurn
  <2>1. CASE u = n
    BY <1>1, <1>3, <1>6, <2>1
  <2>2. CASE u \in DOMAIN book
    <3>1. /\ book[u].ran = 0 => \E j \in Dispatches : dispatched[j].u = u /\ ToRun(j)
          /\ book[u].ran > 0 => \A j \in Dispatches : ToRun(j) => u < dispatched[j].u
          /\ book'[u] = book[u] /\ u < n
      BY <1>3, <2>2 DEF TurnInv, RunsInTurn
    <3> QED BY <1>1, <1>5, <1>6, <3>1
  <2> QED BY <1>3, <2>1, <2>2
<1>11. ReleasesInTurn'
  <2> SUFFICES ASSUME NEW u \in DOMAIN book', book'[u].kind = "dispatch"
               PROVE  /\ book'[u].destroy /\ book'[u].freed = 0 =>
                           \E j \in Dispatches : dispatched'[j].u = u /\ ToRelease(j)'
                      /\ book'[u].freed > 0 =>
                           \A j \in Dispatches : ToRelease(j)' => u < dispatched'[j].u
    BY DEF ReleasesInTurn
  <2>1. CASE u = n
    BY <1>1, <1>3, <1>6, <2>1
  <2>2. CASE u \in DOMAIN book
    <3>1. /\ book[u].destroy /\ book[u].freed = 0 =>
               \E j \in Dispatches : dispatched[j].u = u /\ ToRelease(j)
          /\ book[u].freed > 0 => \A j \in Dispatches : ToRelease(j) => u < dispatched[j].u
          /\ book'[u] = book[u] /\ u < n
      BY <1>3, <2>2 DEF TurnInv, ReleasesInTurn
    <3> QED BY <1>1, <1>5, <1>6, <3>1
  <2> QED BY <1>3, <2>1, <2>2
<1> QED BY <1>8, <1>9, <1>10, <1>11 DEF TurnInv

\* The three steps of nextEvent about the dispatch at the head of the list.
HeadMoves(i, st, new) ==
  /\ i \in Dispatches /\ dispatched[i].state = st
  /\ \A j \in Dispatches :
       /\ dispatched'[j].state = IF j = i THEN new ELSE dispatched[j].state
       /\ dispatched'[j].u = dispatched[j].u /\ dispatched'[j].destroy = dispatched[j].destroy
       /\ j # i /\ dispatched[j].state = st /\ st \in Armed => dispatched[i].u < dispatched[j].u
  /\ \A k, l \in DOMAIN pending', phase \in Armed :
       k < l /\ Waits(k, phase)' /\ Waits(l, phase)' =>
         \/ dispatched'[pending'[k].i].u < dispatched'[pending'[l].i].u
         \/ /\ pending'[l].i = i /\ phase = new
            /\ pending'[k].i \in Dispatches \ {i}
            /\ dispatched[pending'[k].i].state = new

LEMMA DispatchAtHead ==
  ASSUME Inv, NEW st \in States, NEW new \in States, new # "Used", Draining("dispatch", st),
         dispatched' = [dispatched EXCEPT ![Head(pending).i].state = new],
         pending' = Tail(pending) \/ pending' = Append(Tail(pending), Head(pending)),
         DispatchesQueued
  PROVE  HeadMoves(Head(pending).i, st, new)
<1> DEFINE i == Head(pending).i
<1>1. /\ pending # <<>> /\ i \in Dispatches /\ dispatched[i].state = st
      /\ Head(pending) = DispatchNode(i)
  BY DrainingDispatch
<1>2. \A j \in Dispatches :
        /\ dispatched'[j].state = IF j = i THEN new ELSE dispatched[j].state
        /\ dispatched'[j].u = dispatched[j].u /\ dispatched'[j].destroy = dispatched[j].destroy
  BY <1>1, DispatchOnlyState
<1>3. /\ pending \in Seq(Nodes) /\ DOMAIN pending = 1 .. Len(pending)
      /\ Len(pending) \in Nat \ {0} /\ pending[1] = DispatchNode(i)
      /\ DOMAIN pending' \subseteq 1 .. Len(pending)
      /\ \A k \in 1 .. Len(pending) - 1 : pending'[k] = pending[k + 1]
      /\ Len(pending) \in DOMAIN pending' => pending'[Len(pending)] = DispatchNode(i)
  <2>1. /\ pending \in Seq(Nodes) /\ DOMAIN pending = 1 .. Len(pending)
        /\ Len(pending) \in Nat \ {0} /\ pending[1] = DispatchNode(i)
        /\ Tail(pending) \in Seq(Nodes) /\ Len(Tail(pending)) = Len(pending) - 1
        /\ \A k \in 1 .. Len(pending) - 1 : Tail(pending)[k] = pending[k + 1]
    BY <1>1, QueuedEntries
  <2>2. CASE pending' = Tail(pending)
    BY <2>1, <2>2
  <2>3. CASE pending' = Append(Tail(pending), Head(pending))
    BY <1>1, <2>1, <2>3
  <2> QED BY <2>1, <2>2, <2>3
<1>4. ASSUME NEW j \in Dispatches, j # i, dispatched[j].state = st, st \in Armed
      PROVE  dispatched[i].u < dispatched[j].u
  <2>1. PICK k \in DOMAIN pending : pending[k] = DispatchNode(j)
    BY <1>4, QueuedEntries DEF Armed
  <2>2. pending[k].i = j /\ pending[1].i = i /\ k # 1
    BY <1>3, <1>4, <2>1 DEF DispatchNode
  <2>3. Waits(1, st) /\ Waits(k, st) /\ 1 < k
    BY <1>1, <1>3, <1>4, <2>1, <2>2 DEF Waits, DispatchNode
  <2> QED BY <1>3, <1>4, <2>2, <2>3 DEF DispatchesQueued
<1>5. ASSUME NEW k \in DOMAIN pending', NEW phase, Waits(k, phase)', k < Len(pending)
      PROVE  /\ k + 1 \in DOMAIN pending /\ Waits(k + 1, phase) /\ pending'[k] = pending[k + 1]
             /\ pending'[k].i \in Dispatches \ {i} /\ dispatched[pending'[k].i].state = phase
  <2>1. k + 1 \in DOMAIN pending /\ pending'[k] = pending[k + 1] /\ k + 1 # 1
    BY <1>3, <1>5
  <2>2. pending[k + 1].kind = "dispatch" /\ dispatched'[pending[k + 1].i].state = phase
    BY <1>5, <2>1 DEF Waits
  <2>3. Waits(k + 1, dispatched[pending[k + 1].i].state)
    BY <2>1, <2>2 DEF Waits
  <2>4. pending[k + 1].i \in Dispatches /\ pending[k + 1] = DispatchNode(pending[k + 1].i)
    BY <2>3, QueuedEntries
  <2>5. pending[k + 1].i # i
    BY <1>3, <2>1, <2>4, QueuedEntries
  <2>6. dispatched[pending[k + 1].i].state = phase
    BY <1>2, <2>2, <2>4, <2>5
  <2> QED BY <2>1, <2>3, <2>4, <2>5, <2>6
<1>6. ASSUME NEW k \in DOMAIN pending', NEW l \in DOMAIN pending', NEW phase \in Armed,
             k < l, Waits(k, phase)', Waits(l, phase)'
      PROVE  \/ dispatched'[pending'[k].i].u < dispatched'[pending'[l].i].u
             \/ /\ pending'[l].i = i /\ phase = new
                /\ pending'[k].i \in Dispatches \ {i}
                /\ dispatched[pending'[k].i].state = new
  <2>1. k < Len(pending) /\ (l < Len(pending) \/ l = Len(pending))
    BY <1>3, <1>6
  <2>2. /\ k + 1 \in DOMAIN pending /\ Waits(k + 1, phase) /\ pending'[k] = pending[k + 1]
        /\ pending'[k].i \in Dispatches \ {i} /\ dispatched[pending'[k].i].state = phase
    BY <1>5, <1>6, <2>1
  <2>3. CASE l < Len(pending)
    <3>1. /\ l + 1 \in DOMAIN pending /\ Waits(l + 1, phase) /\ pending'[l] = pending[l + 1]
          /\ pending'[l].i \in Dispatches
      BY <1>5, <1>6, <2>3
    <3>2. k + 1 < l + 1
      BY <1>3, <1>6
    <3>3. dispatched[pending[k + 1].i].u < dispatched[pending[l + 1].i].u
      BY <2>2, <3>1, <3>2 DEF DispatchesQueued
    <3> QED BY <1>2, <2>2, <3>1, <3>3
  <2>4. CASE l = Len(pending)
    <3>1. pending'[l] = DispatchNode(i) /\ pending'[l].i = i
      BY <1>3, <1>6, <2>4 DEF DispatchNode
    <3>2. phase = new
      BY <1>1, <1>2, <1>6, <3>1 DEF Waits
    <3> QED BY <2>2, <3>1, <3>2
  <2> QED BY <2>1, <2>3, <2>4
<1> QED BY <1>1, <1>2, <1>4, <1>6 DEF HeadMoves

LEMMA DrainInTurn ==
  ASSUME Inv, Owners, NotFreed, TurnInv, [Next]_vars,
         DrainDispatchUsed \/ DrainDispatchAction \/ DrainDispatchDone
  PROVE  TurnInv'
<1> DEFINE i == Head(pending).i
<1>0. /\ pc = "drain" /\ \A e, j : ~HandedOut(e, j)
      /\ "Used" \in States /\ "Action" \in States /\ "Destroy" \in States /\ "Free" \in States
      /\ DispatchesQueued
  BY DEF DrainDispatchUsed, DrainDispatchAction, DrainDispatchDone, Draining, HandedOut, States,
     TurnInv
<1>1. ~Call /\ ~Destroy /\ ~(\E h \in Destroys : Dispatch(h))
  BY <1>0 DEF Call, Destroy, Dispatch, MayCall, MutexFree
<1>2. \A j \in Dispatches : /\ ToRun(j) <=> dispatched[j].state = "Used"
                            /\ ToRelease(j) <=> dispatched[j].state \in Armed
  BY <1>0 DEF ToRun, ToRelease
<1>3. CASE DrainDispatchUsed
  <2>1. /\ Draining("dispatch", "Used")
        /\ dispatched' = [dispatched EXCEPT ![i].state = "Action"]
        /\ pending' = Append(Tail(pending), Head(pending))
        /\ pc' = "event" /\ cur' = Event("dispatchAction", i)
    BY <1>3 DEF DrainDispatchUsed, EnterAction, Requeue
  <2>2. /\ i \in Dispatches /\ dispatched[i].state = "Used"
        /\ \A j \in Dispatches :
             /\ dispatched'[j].state = IF j = i THEN "Action" ELSE dispatched[j].state
             /\ dispatched'[j].u = dispatched[j].u
             /\ j # i /\ dispatched[j].state = "Used" => dispatched[i].u < dispatched[j].u
        /\ \A k, l \in DOMAIN pending', phase \in Armed :
             k < l /\ Waits(k, phase)' /\ Waits(l, phase)' =>
               \/ dispatched'[pending'[k].i].u < dispatched'[pending'[l].i].u
               \/ /\ pending'[l].i = i
                  /\ pending'[k].i \in Dispatches \ {i}
                  /\ dispatched[pending'[k].i].state = "Action"
    <3>1. HeadMoves(i, "Used", "Action")
      BY <1>0, <2>1, DispatchAtHead
    <3> HIDE DEF i
    <3> QED BY <3>1 DEF HeadMoves, Armed
  <2>3. \A j : ~HandedOut("dispatchDestroy", j)' /\ (HandedOut("dispatchAction", j)' <=> j = i)
    BY <2>1 DEF HandedOut, Event
  <2>4. DispatchesQueued'
    BY <2>2 DEF DispatchesQueued, TurnInv, PhasesInTurn
  <2>5. PhasesInTurn'
    BY <2>2, <2>3 DEF PhasesInTurn, TurnInv
  <2>6. \A j \in Dispatches : /\ ToRun(j)' <=> ToRun(j)
                              /\ ToRelease(j)' <=> ToRelease(j)
    BY <1>2, <2>2, <2>3 DEF ToRun, ToRelease, Armed
  <2>7. RunsInTurn' /\ ReleasesInTurn'
    BY <1>1, <2>2, <2>6, TurnsNotTaken DEF TurnInv
  <2> QED BY <2>4, <2>5, <2>7 DEF TurnInv
<1>4. CASE DrainDispatchAction
  <2>1. /\ Draining("dispatch", "Action")
        /\ dispatched' = [dispatched EXCEPT ![i].state = "Destroy"]
        /\ pending' = Append(Tail(pending), Head(pending))
        /\ pc' = "event" /\ cur' = Event("dispatchDestroy", i)
    BY <1>4 DEF DrainDispatchAction, Requeue
  <2>2. /\ i \in Dispatches /\ dispatched[i].state = "Action"
        /\ \A j \in Dispatches :
             /\ dispatched'[j].state = IF j = i THEN "Destroy" ELSE dispatched[j].state
             /\ dispatched'[j].u = dispatched[j].u
             /\ j # i /\ dispatched[j].state = "Action" => dispatched[i].u < dispatched[j].u
        /\ \A k, l \in DOMAIN pending', phase \in Armed :
             k < l /\ Waits(k, phase)' /\ Waits(l, phase)' =>
               dispatched'[pending'[k].i].u < dispatched'[pending'[l].i].u
    <3>1. HeadMoves(i, "Action", "Destroy")
      BY <1>0, <2>1, DispatchAtHead
    <3> HIDE DEF i
    <3> QED BY <3>1 DEF HeadMoves, Armed
  <2>3. \A j : ~HandedOut("dispatchAction", j)' /\ (HandedOut("dispatchDestroy", j)' <=> j = i)
    BY <2>1 DEF HandedOut, Event
  <2>4. DispatchesQueued'
    BY <2>2 DEF DispatchesQueued
  <2>5. PhasesInTurn'
    BY <2>2, <2>3 DEF PhasesInTurn, TurnInv, Armed
  <2>6. \A j \in Dispatches : /\ ToRun(j)' <=> ToRun(j)
                              /\ ToRelease(j)' <=> ToRelease(j)
    BY <1>2, <2>2, <2>3 DEF ToRun, ToRelease, Armed
  <2>7. RunsInTurn' /\ ReleasesInTurn'
    BY <1>1, <2>2, <2>6, TurnsNotTaken DEF TurnInv
  <2> QED BY <2>4, <2>5, <2>7 DEF TurnInv
<1>5. CASE DrainDispatchDone
  <2>1. PICK st \in {"Action", "Destroy"} :
          /\ Draining("dispatch", st) /\ (st = "Action" => ~dispatched[i].destroy)
    BY <1>5 DEF DrainDispatchDone
  <2>2. /\ dispatched' = [dispatched EXCEPT ![i].state = "Free"]
        /\ pending' = Tail(pending) /\ pc' = "drain"
    BY <1>0, <1>5 DEF DrainDispatchDone, worker
  <2>3. /\ i \in Dispatches /\ dispatched[i].state = st
        /\ \A j \in Dispatches :
             /\ dispatched'[j].state = IF j = i THEN "Free" ELSE dispatched[j].state
             /\ dispatched'[j].u = dispatched[j].u
        /\ \A k, l \in DOMAIN pending', phase \in Armed :
             k < l /\ Waits(k, phase)' /\ Waits(l, phase)' =>
               dispatched'[pending'[k].i].u < dispatched'[pending'[l].i].u
    <3>1. HeadMoves(i, st, "Free")
      BY <1>0, <2>1, <2>2, DispatchAtHead
    <3> HIDE DEF i
    <3> QED BY <3>1 DEF HeadMoves, Armed
  <2>4. \A e, j : ~HandedOut(e, j)'
    BY <2>2 DEF HandedOut
  <2>5. DispatchesQueued'
    BY <2>3 DEF DispatchesQueued
  <2>6. PhasesInTurn'
    BY <2>3, <2>4 DEF PhasesInTurn, TurnInv
  <2>7. \A j \in Dispatches : /\ ToRun(j)' <=> ToRun(j)
                              /\ ToRelease(j)' => ToRelease(j)
                              /\ ToRelease(j) /\ dispatched[j].destroy => ToRelease(j)'
    BY <1>2, <2>1, <2>3, <2>4 DEF ToRun, ToRelease, Armed
  <2>8. RunsInTurn' /\ ReleasesInTurn'
    BY <1>1, <2>3, <2>7, TurnsNotTaken DEF TurnInv
  <2> QED BY <2>5, <2>6, <2>8 DEF TurnInv
<1> QED BY <1>3, <1>4, <1>5

LEMMA OthersInTurn ==
  ASSUME Inv, Owners, NotFreed, TurnInv, [Next]_vars, ~DispatchStep, ~Call, ~Destroy
  PROVE  TurnInv'
<1>1. UNCHANGED dispatched /\ SameTurns(pending', pending)
  BY NoDispatchStep, TurnsKept
<1>2. \A e \in DispatchEvents, i \in Dispatches : HandedOut(e, i)' <=> HandedOut(e, i)
  <2>1. \A e, i : HandedOut(e, i) => pc = "event"
    BY DEF HandedOut
  <2> QED BY <2>1, NoDispatchStep, StaysInHand
<1>3. DispatchesQueued'
  <2> SUFFICES ASSUME NEW k \in DOMAIN pending', NEW l \in DOMAIN pending', NEW phase \in Armed,
                      k < l, Waits(k, phase)', Waits(l, phase)'
               PROVE  dispatched[pending'[k].i].u < dispatched[pending'[l].i].u
    BY <1>1 DEF DispatchesQueued
  <2>1. pending'[k].kind = "dispatch" /\ pending'[l].kind = "dispatch"
    BY DEF Waits
  <2>2. PICK a \in DOMAIN pending, b \in DOMAIN pending :
          a < b /\ pending[a] = pending'[k] /\ pending[b] = pending'[l]
    BY <1>1, <2>1 DEF SameTurns
  <2>3. Waits(a, phase) /\ Waits(b, phase)
    BY <1>1, <2>2 DEF Waits
  <2>4. dispatched[pending[a].i].u < dispatched[pending[b].i].u
    BY <2>2, <2>3 DEF TurnInv, DispatchesQueued
  <2> QED BY <2>2, <2>4
<1>4. PhasesInTurn'
  BY <1>1, <1>2 DEF TurnInv, PhasesInTurn, DispatchEvents
<1>5. \A i \in Dispatches : /\ ToRun(i)' <=> ToRun(i)
                            /\ ToRelease(i)' <=> ToRelease(i)
  BY <1>1, <1>2 DEF ToRun, ToRelease, DispatchEvents
<1>6. RunsInTurn' /\ ReleasesInTurn'
  BY <1>1, <1>5, TurnsNotTaken DEF TurnInv, DispatchStep
<1> QED BY <1>3, <1>4, <1>6 DEF TurnInv

LEMMA TurnsAreOrder ==
  ASSUME TypeOK, RunsInTurn, ReleasesInTurn
  PROVE  DispatchOrder
<1> SUFFICES ASSUME NEW u \in DOMAIN book, NEW v \in DOMAIN book, u < v,
                    book[u].kind = "dispatch", book[v].kind = "dispatch"
             PROVE  /\ book[v].ran > 0 => book[u].ran > 0
                    /\ book[v].freed > 0 /\ book[u].destroy => book[u].freed > 0
  BY DEF DispatchOrder
<1>1. u \in Int /\ v \in Int /\ book[u].ran \in 0 .. 3 /\ book[u].freed \in 0 .. 3
  BY BookDomain DEF Registration
<1>2. ASSUME book[v].ran > 0, book[u].ran = 0 PROVE FALSE
  <2>1. PICK i \in Dispatches : dispatched[i].u = u /\ ToRun(i)
    BY <1>2 DEF RunsInTurn
  <2>2. v < dispatched[i].u
    BY <1>2, <2>1 DEF RunsInTurn
  <2> QED BY <1>1, <2>1, <2>2
<1>3. ASSUME book[v].freed > 0, book[u].destroy, book[u].freed = 0 PROVE FALSE
  <2>1. PICK i \in Dispatches : dispatched[i].u = u /\ ToRelease(i)
    BY <1>3 DEF ReleasesInTurn
  <2>2. v < dispatched[i].u
    BY <1>3, <2>1 DEF ReleasesInTurn
  <2> QED BY <1>1, <2>1, <2>2
<1> QED BY <1>1, <1>2, <1>3

LEMMA NextOrder ==
  ASSUME LooperInv, LooperInv', HistoryInv, OrderInv, [Next]_vars
  PROVE  OrderInv'
<1>1. CASE pc = "destroyed"
  <2>1. UNCHANGED vars
    BY <1>1, Terminal
  <2> QED BY <1>1, <2>1 DEF OrderInv, DispatchOrder, vars
<1>2. CASE Destroy
  <2>1. pc' = "destroyed" /\ DOMAIN book' = DOMAIN book
    BY <1>2 DEF Destroy
  <2>2. ~Call
    BY <1>2 DEF Destroy, Call
  <2>3. \A u \in DOMAIN book : book'[u].kind = book[u].kind /\ book'[u].ran = book[u].ran
    BY <2>2, NextBookMoves DEF LooperInv, BookMoves, Fixed
  <2>4. DispatchOrder
    BY <1>2, TurnsAreOrder DEF Destroy, OrderInv, TurnInv, LooperInv, Inv
  <2> QED BY <2>1, <2>3, <2>4 DEF OrderInv, DispatchOrder
<1>3. CASE pc # "destroyed" /\ ~Destroy
  <2>1. Inv /\ Inv' /\ Owners /\ NotFreed /\ TurnInv
    BY <1>3 DEF LooperInv, HistoryInv, OrderInv
  <2>2. ASSUME Call PROVE TurnInv'
    BY <2>1, <2>2, CallInTurn
  <2>3. ASSUME ~Call, ~DispatchStep PROVE TurnInv'
    BY <1>3, <2>1, <2>3, OthersInTurn
  <2>4. ASSUME DispatchStep PROVE TurnInv'
    <3>1. CASE DrainDispatchUsed \/ DrainDispatchAction \/ DrainDispatchDone
      BY <2>1, <3>1, DrainInTurn
    <3>2. ASSUME NEW h, Dispatch(h) PROVE TurnInv'
      BY <2>1, <3>2, DispatchInTurn
    <3> QED BY <2>4, <3>1, <3>2 DEF DispatchStep
  <2>5. TurnInv'
    BY <2>2, <2>3, <2>4
  <2>6. pc' # "destroyed"
    BY <1>3, Terminal
  <2> QED BY <2>5, <2>6 DEF OrderInv
<1> QED BY <1>1, <1>2, <1>3

LEMMA InitOrder == Init => OrderInv
<1> SUFFICES ASSUME Init PROVE OrderInv
  OBVIOUS
<1>1. /\ \A i \in Dispatches : dispatched[i].state = "Free"
      /\ book = <<>> /\ pc = "idle" /\ pending = <<SocketNode(0)>>
  BY DEF Init
<1>2. (\A e, i : ~HandedOut(e, i)) /\ DOMAIN book = {}
  BY <1>1 DEF HandedOut
<1>3. \A k, phase : ~Waits(k, phase)
  BY <1>1 DEF Waits, SocketNode
<1> QED BY <1>1, <1>2, <1>3 DEF OrderInv, TurnInv, DispatchesQueued, PhasesInTurn, RunsInTurn,
           ReleasesInTurn, DispatchOrder, Armed

\* Work dispatched earlier is called earlier and, when its owner asked for it,
\* released before anything dispatched later is (dispatch, nextEvent and the
\* requeueing in penndingList, whatever stands between them in that list).
THEOREM DispatchesInOrder == Spec => []DispatchOrder
<1>1. LooperInv /\ LooperInv' /\ HistoryInv /\ OrderInv /\ [Next]_vars => OrderInv'
  BY NextOrder
<1>2. LooperInv /\ OrderInv => DispatchOrder
  BY TurnsAreOrder DEF OrderInv, TurnInv, LooperInv, Inv
<1> QED BY <1>1, <1>2, InitOrder, HistoryInvariant, PTL DEF Spec

=============================================================================
