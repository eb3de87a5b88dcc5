------------------------ MODULE NetworkLooperProofs ------------------------
(***************************************************************************)
(* NetworkLooper's lists and socket table are sound for every number of    *)
(* timers, sockets and dispatches, any number of callers and any timing.   *)
(***************************************************************************)
EXTENDS NetworkLooper, ListLemmas, TLAPS

-----------------------------------------------------------------------------
(* The members of a list of nodes, kind by kind. *)
LEMMA KindsOfNodes ==
  ASSUME NEW N, N \subseteq Nodes
  PROVE  /\ OfKind(N, "timer") \subseteq Timers
         /\ OfKind(N, "socket") \subseteq Sockets
         /\ OfKind(N, "dispatch") \subseteq Dispatches
         /\ \A i : i \in OfKind(N, "timer") <=> TimerNode(i) \in N
         /\ \A i : i \in OfKind(N, "socket") <=> SocketNode(i) \in N
         /\ \A i : i \in OfKind(N, "dispatch") <=> DispatchNode(i) \in N
BY DEF OfKind, Nodes, TimerNode, SocketNode, DispatchNode

LEMMA KindsAdd ==
  ASSUME NEW N, NEW n, NEW kind
  PROVE  OfKind(N \cup {n}, kind) =
           IF n.kind = kind THEN OfKind(N, kind) \cup {n.i} ELSE OfKind(N, kind)
BY DEF OfKind

LEMMA KindsRemove ==
  ASSUME NEW N, N \subseteq Nodes, NEW n \in Nodes, NEW kind
  PROVE  OfKind(N \ {n}, kind) =
           IF n.kind = kind THEN OfKind(N, kind) \ {n.i} ELSE OfKind(N, kind)
<1>1. \A m \in Nodes : m.kind = n.kind /\ m.i = n.i => m = n
  BY DEF Nodes
<1> QED BY <1>1 DEF OfKind

(* NQListHead_remove. *)
LEMMA WithoutList ==
  ASSUME NEW S, NEW s \in Seq(S), NEW x, IsInjective(s)
  PROVE  /\ Without(s, x) \in Seq(S)
         /\ ToSet(Without(s, x)) = ToSet(s) \ {x}
         /\ IsInjective(Without(s, x))
<1>1. CASE x \in ToSet(s)
  <2> DEFINE p == CHOOSE k \in DOMAIN s : s[k] = x
  <2>1. p \in 1 .. Len(s) /\ s[p] = x
    BY <1>1, MemberOf
  <2>2. Without(s, x) = RemoveAt(s, p)
    BY <1>1 DEF Without
  <2> HIDE DEF p
  <2> QED BY <2>1, <2>2, RemoveAtList
<1>2. CASE x \notin ToSet(s)
  BY <1>2 DEF Without
<1> QED BY <1>1, <1>2

(* reinitBaseEntry never makes an identifier 0. *)
LEMMA NextNonceType ==
  ASSUME NEW n \in Nonces
  PROVE  NextNonce(n) \in Nonces
<1>1. n + 1 \in 1 .. NonceMod /\ NonceMod \in Nat /\ NonceMod > 1
  BY NonceAssumption DEF Nonces
<1>2. (n + 1) % NonceMod \in 0 .. NonceMod - 1
  BY <1>1
<1> QED BY <1>1, <1>2 DEF NextNonce, Nonces

(* insertTimer finds a place, sorted or not. *)
LEMMA InsertPositionType ==
  ASSUME NEW order \in Seq(Timers), NEW tm, NEW at \in Int,
         \A i \in Timers : tm[i].time \in Int
  PROVE  LET p == InsertPosition(order, tm, at) IN
         /\ p \in 1 .. Len(order) + 1
         /\ \A k \in 1 .. p - 1 : tm[order[k]].time <= at
         /\ p <= Len(order) => at < tm[order[p]].time
<1> DEFINE T == {p \in 1 .. Len(order) + 1 : p <= Len(order) => at < tm[order[p]].time}
<1>1. T \subseteq Nat /\ Len(order) + 1 \in T
  OBVIOUS
<1>2. PICK p \in T : \A m \in T : p <= m
  BY <1>1, LeastMember
<1>3. \A k \in 1 .. p - 1 : tm[order[k]].time <= at
  <2> SUFFICES ASSUME NEW k \in 1 .. p - 1 PROVE tm[order[k]].time <= at
    OBVIOUS
  <2>1. k \notin T /\ k \in 1 .. Len(order)
    BY <1>2
  <2>2. order[k] \in Timers
    BY <2>1
  <2> QED BY <2>1, <2>2
<1>4. p \in 1 .. Len(order) + 1 /\ (p <= Len(order) => at < tm[order[p]].time)
  BY <1>2
<1> QED BY <1>3, <1>4 DEF InsertPosition

-----------------------------------------------------------------------------
LEMMA InitInv == Init => Inv
<1> SUFFICES ASSUME Init PROVE Inv
  OBVIOUS
<1> USE DEF Init
<1>1. TypeOK
  <2>1. 1 \in Nonces
    BY NonceAssumption DEF Nonces
  <2>2. NextNonce(1) \in Nonces
    BY <2>1, NextNonceType
  <2>3. SocketNode(0) \in Nodes
    BY LimitsAssumption DEF SocketNode, Nodes, Sockets
  <2> USE LimitsAssumption, CallerAssumption
  <2>4. timer \in [Timers -> TimerEntry]
    BY <2>1 DEF States, Tokens, TimerEntry, SocketEntry, DispatchEntry
  <2>5. socket \in [Sockets -> SocketEntry]
    BY <2>1, <2>2 DEF States, Tokens, SocketEntry
  <2>6. dispatched \in [Dispatches -> DispatchEntry]
    BY <2>1 DEF States, Tokens, TimerEntry, SocketEntry, DispatchEntry
  <2>7. pollfd \in [Sockets -> Pollfd]
    BY DEF Pollfd
  <2>8. /\ pollSize \in 1 .. SocketLimit /\ pending \in Seq(Nodes)
        /\ usedTimer \in Seq(Timers) /\ usedSocket \in Seq(Sockets)
    BY <2>3
  <2>9. freeTimer \in Seq(Timers) /\ freeDispatch \in Seq(Dispatches)
    BY DEF Timers, Dispatches
  <2>10. freeSocket \in Seq(Sockets)
    BY DEF Sockets
  <2>13. cur \in [event : EventNames, i : Nat, u : Tokens]
    BY DEF NoEvent, EventNames, Tokens
  <2>15. wakeup \in BOOLEAN
    OBVIOUS
  <2>11. /\ pollTimeout \in Int /\ pc = "idle" /\ deadline \in Int /\ now \in Nat
         /\ sampled \in Nat
    OBVIOUS
  <2>14. polled \in 0 .. SocketLimit
    <3>1. SocketLimit \in Nat /\ polled = 0
      OBVIOUS
    <3> QED BY ONLY <3>1
  <2>12. book \in Seq(Registration) /\ Len(book) <= MaxReg
    OBVIOUS
  <2> HIDE DEF Init
  <2> QED BY <2>4, <2>5, <2>6, <2>7, <2>8, <2>9, <2>10, <2>11, <2>12,
              <2>13, <2>14, <2>15 DEF TypeOK
<1>2. ToSet(pending) = {SocketNode(0)} /\ ToSet(usedTimer) = {} /\ ToSet(usedSocket) = {}
  BY DEF ToSet
<1>3. Pending("socket") = {0} /\ Pending("timer") = {} /\ Pending("dispatch") = {}
  BY <1>2 DEF Pending, OfKind, SocketNode
<1> USE LimitsAssumption
<1>4. ToSet(freeTimer) = Timers /\ ToSet(freeDispatch) = Dispatches
      /\ \A i \in ToSet(freeSocket) : i \in Sockets /\ i # 0
  <2>1. \A i \in Timers : freeTimer[i + 1] = i /\ i + 1 \in DOMAIN freeTimer
    BY DEF Timers
  <2>2. \A i \in Dispatches : freeDispatch[i + 1] = i /\ i + 1 \in DOMAIN freeDispatch
    BY DEF Dispatches
  <2>3. ToSet(freeTimer) \subseteq Timers /\ ToSet(freeDispatch) \subseteq Dispatches
    BY DEF ToSet, Timers, Dispatches
  <2>4. \A i \in ToSet(freeSocket) : i \in Sockets /\ i # 0
    BY DEF ToSet, Sockets
  <2>5. Timers \subseteq ToSet(freeTimer) /\ Dispatches \subseteq ToSet(freeDispatch)
    <3> HIDE DEF Init
    <3> QED BY <2>1, <2>2 DEF ToSet
  <2> QED BY <2>3, <2>4, <2>5
<1>5. SocketTable
  BY <1>2, <1>3 DEF SocketTable
<1>6. ListsMatchStates
  <2>1. /\ \A i \in Timers : timer[i].state = "Free"
        /\ \A i \in Dispatches : dispatched[i].state = "Free"
        /\ \A i \in Sockets : socket[i].state = IF i = 0 THEN "Used" ELSE "Free"
        /\ 0 \in Sockets
    BY DEF Sockets
  <2> HIDE DEF Init
  <2> QED BY <2>1, <1>2, <1>3, <1>4
       DEF ListsMatchStates, TimerLists, DispatchLists, SocketLists
<1>7. NoDuplicates
  BY DEF NoDuplicates, IsInjective
<1> QED BY <1>1, <1>5, <1>6, <1>7 DEF Inv, EventOK

-----------------------------------------------------------------------------
\* The part of the invariant that only the entries and lists can disturb.
ListInv == SocketTable /\ ListsMatchStates /\ NoDuplicates

LEMMA ListsKept ==
  ASSUME ListInv, UNCHANGED <<entries, pollSize, lists>>
  PROVE  ListInv'
<1>1. \A kind : Pending(kind)' = Pending(kind)
  BY DEF Pending, lists
<1> QED BY <1>1 DEF ListInv, SocketTable, ListsMatchStates, NoDuplicates, lists, entries,
     TimerLists, DispatchLists, SocketLists

LEMMA TimerListsKept ==
  ASSUME TimerLists, UNCHANGED <<timer, freeTimer, usedTimer>>,
         Pending("timer")' = Pending("timer")
  PROVE  TimerLists'
BY DEF TimerLists

LEMMA DispatchListsKept ==
  ASSUME DispatchLists, UNCHANGED <<dispatched, freeDispatch>>,
         Pending("dispatch")' = Pending("dispatch")
  PROVE  DispatchLists'
BY DEF DispatchLists

LEMMA SocketListsKept ==
  ASSUME SocketLists, UNCHANGED <<socket, freeSocket, usedSocket>>,
         Pending("socket")' = Pending("socket")
  PROVE  SocketLists'
BY DEF SocketLists

LEMMA PendingKinds ==
  ASSUME TypeOK
  PROVE  /\ ToSet(pending) \subseteq Nodes
         /\ Pending("timer") \subseteq Timers
         /\ Pending("socket") \subseteq Sockets
         /\ Pending("dispatch") \subseteq Dispatches
         /\ \A i : i \in Pending("timer") <=> TimerNode(i) \in ToSet(pending)
         /\ \A i : i \in Pending("socket") <=> SocketNode(i) \in ToSet(pending)
         /\ \A i : i \in Pending("dispatch") <=> DispatchNode(i) \in ToSet(pending)
<1>1. pending \in Seq(Nodes)
  BY DEF TypeOK
<1>2. ToSet(pending) \subseteq Nodes
  BY <1>1, MemberOf
<1> QED BY <1>2, KindsOfNodes DEF Pending

(* A node that is not in penndingList is added at its end. *)
LEMMA Pushed ==
  ASSUME NEW l \in Seq(Nodes), NEW n \in Nodes
  PROVE  /\ Append(l, n) \in Seq(Nodes)
         /\ ToSet(Append(l, n)) = ToSet(l) \cup {n}
         /\ \A kind : OfKind(ToSet(Append(l, n)), kind) =
              IF n.kind = kind THEN OfKind(ToSet(l), kind) \cup {n.i}
                               ELSE OfKind(ToSet(l), kind)
         /\ IsInjective(l) /\ n \notin ToSet(l) => IsInjective(Append(l, n))
<1>1. ToSet(Append(l, n)) = ToSet(l) \cup {n}
  BY AppendList
<1>2. ASSUME NEW kind
      PROVE  OfKind(ToSet(l) \cup {n}, kind) =
               IF n.kind = kind THEN OfKind(ToSet(l), kind) \cup {n.i}
                                ELSE OfKind(ToSet(l), kind)
  BY DEF OfKind
<1> QED BY <1>1, <1>2, AppendList

(* A node is unlinked from it. *)
LEMMA Unlinked ==
  ASSUME NEW l \in Seq(Nodes), NEW n \in Nodes, IsInjective(l)
  PROVE  /\ Without(l, n) \in Seq(Nodes)
         /\ ToSet(Without(l, n)) = ToSet(l) \ {n}
         /\ \A kind : OfKind(ToSet(Without(l, n)), kind) =
              IF n.kind = kind THEN OfKind(ToSet(l), kind) \ {n.i}
                               ELSE OfKind(ToSet(l), kind)
         /\ IsInjective(Without(l, n))
<1>1. ToSet(Without(l, n)) = ToSet(l) \ {n} /\ ToSet(l) \subseteq Nodes
  BY WithoutList, MemberOf
<1>2. ASSUME NEW kind
      PROVE  OfKind(ToSet(l) \ {n}, kind) =
               IF n.kind = kind THEN OfKind(ToSet(l), kind) \ {n.i}
                                ELSE OfKind(ToSet(l), kind)
  BY <1>1, KindsRemove
<1> QED BY <1>1, <1>2, WithoutList

(* nextEvent takes the first node off. *)
LEMMA Popped ==
  ASSUME NEW l \in Seq(Nodes), l # <<>>, IsInjective(l)
  PROVE  /\ Head(l) \in Nodes /\ Tail(l) \in Seq(Nodes)
         /\ Head(l) \in ToSet(l) /\ Head(l) \notin ToSet(Tail(l))
         /\ IsInjective(Tail(l))
         /\ ToSet(l) = ToSet(Tail(l)) \cup {Head(l)}
         /\ \A kind : OfKind(ToSet(Tail(l)), kind) =
              IF Head(l).kind = kind THEN OfKind(ToSet(l), kind) \ {Head(l).i}
                                     ELSE OfKind(ToSet(l), kind)
<1>1. /\ Head(l) \in Nodes /\ Tail(l) \in Seq(Nodes)
      /\ Head(l) \in ToSet(l) /\ Head(l) \notin ToSet(Tail(l))
      /\ IsInjective(Tail(l))
      /\ ToSet(l) = ToSet(Tail(l)) \cup {Head(l)}
  BY TailList
<1>2. ToSet(Tail(l)) = ToSet(l) \ {Head(l)} /\ ToSet(l) \subseteq Nodes
  BY <1>1, MemberOf
<1>3. ASSUME NEW kind
      PROVE  OfKind(ToSet(l) \ {Head(l)}, kind) =
               IF Head(l).kind = kind THEN OfKind(ToSet(l), kind) \ {Head(l).i}
                                      ELSE OfKind(ToSet(l), kind)
  <2> DEFINE n == Head(l)
             N == ToSet(l)
  <2>1. n \in Nodes /\ N \subseteq Nodes
    BY <1>1, <1>2
  <2> HIDE DEF n, N
  <2>2. OfKind(N \ {n}, kind) = IF n.kind = kind THEN OfKind(N, kind) \ {n.i}
                                                ELSE OfKind(N, kind)
    BY <2>1, KindsRemove
  <2> QED BY <2>2 DEF n, N
<1> QED BY <1>1, <1>2, <1>3

(* ... and the first node to the end. *)
LEMMA Requeued ==
  ASSUME NEW l \in Seq(Nodes), l # <<>>, IsInjective(l)
  PROVE  /\ Append(Tail(l), Head(l)) \in Seq(Nodes)
         /\ ToSet(Append(Tail(l), Head(l))) = ToSet(l)
         /\ IsInjective(Append(Tail(l), Head(l)))
<1>1. /\ Head(l) \in Nodes /\ Tail(l) \in Seq(Nodes) /\ IsInjective(Tail(l))
      /\ Head(l) \notin ToSet(Tail(l)) /\ ToSet(l) = ToSet(Tail(l)) \cup {Head(l)}
  BY Popped
<1>2. /\ Append(Tail(l), Head(l)) \in Seq(Nodes)
      /\ ToSet(Append(Tail(l), Head(l))) = ToSet(Tail(l)) \cup {Head(l)}
      /\ IsInjective(Append(Tail(l), Head(l)))
  <2> DEFINE t == Tail(l)
             h == Head(l)
  <2>1. t \in Seq(Nodes) /\ h \in Nodes /\ IsInjective(t) /\ h \notin ToSet(t)
    BY <1>1
  <2> HIDE DEF t, h
  <2>2. /\ Append(t, h) \in Seq(Nodes) /\ ToSet(Append(t, h)) = ToSet(t) \cup {h}
        /\ IsInjective(Append(t, h))
    BY <2>1, AppendList
  <2> QED BY <2>2 DEF t, h
<1> QED BY <1>1, <1>2

(* An entry changes its state. *)
LEMMA TimerState ==
  ASSUME timer \in [Timers -> TimerEntry], NEW i \in Timers, NEW st \in States,
         timer' = [timer EXCEPT ![i].state = st]
  PROVE  /\ timer' \in [Timers -> TimerEntry]
         /\ \A j \in Timers : timer'[j].state = IF j = i THEN st ELSE timer[j].state
BY DEF TimerEntry

LEMMA SocketState ==
  ASSUME socket \in [Sockets -> SocketEntry], NEW i \in Sockets, NEW st \in States,
         socket' = [socket EXCEPT ![i].state = st]
  PROVE  /\ socket' \in [Sockets -> SocketEntry]
         /\ \A j \in Sockets : socket'[j].state = IF j = i THEN st ELSE socket[j].state
BY DEF SocketEntry

LEMMA DispatchState ==
  ASSUME dispatched \in [Dispatches -> DispatchEntry], NEW i \in Dispatches,
         NEW st \in States, dispatched' = [dispatched EXCEPT ![i].state = st]
  PROVE  /\ dispatched' \in [Dispatches -> DispatchEntry]
         /\ \A j \in Dispatches :
              dispatched'[j].state = IF j = i THEN st ELSE dispatched[j].state
BY DEF DispatchEntry, SocketEntry

(* One field of a pollfd changes. *)
LEMMA PollfdField ==
  ASSUME NEW f \in [Sockets -> Pollfd], NEW j, NEW b \in BOOLEAN
  PROVE  /\ [f EXCEPT ![j].revents = b] \in [Sockets -> Pollfd]
         /\ [f EXCEPT ![j].events = b] \in [Sockets -> Pollfd]
<1>1. ASSUME NEW r \in Pollfd
      PROVE  [r EXCEPT !.revents = b] \in Pollfd /\ [r EXCEPT !.events = b] \in Pollfd
  BY Zenon DEF Pollfd
<1> HIDE DEF Pollfd
<1> QED BY <1>1

(* One registration in the history changes. *)
LEMMA UpdateList ==
  ASSUME NEW S, NEW s \in Seq(S), NEW u, NEW x, u \in 1 .. Len(s) => x \in S
  PROVE  /\ [s EXCEPT ![u] = x] \in Seq(S)
         /\ Len([s EXCEPT ![u] = x]) = Len(s)
<1> DEFINE t == [s EXCEPT ![u] = x]
<1>1. Len(s) \in Nat /\ DOMAIN s = 1 .. Len(s) /\ \A k \in 1 .. Len(s) : s[k] \in S
  OBVIOUS
<1>2. DOMAIN t = 1 .. Len(s) /\ \A k \in 1 .. Len(s) : t[k] = IF k = u THEN x ELSE s[k]
  BY <1>1
<1>3. t \in [1 .. Len(s) -> S]
  <2>1. t = [k \in 1 .. Len(s) |-> t[k]]
    BY <1>1
  <2> HIDE DEF t
  <2> QED BY <2>1, <1>1, <1>2
<1> HIDE DEF t
<1>4. t \in Seq(S) /\ Len(t) = Len(s)
  BY <1>1, <1>2, <1>3
<1> QED BY <1>4 DEF t

LEMMA BookUpdate ==
  ASSUME book \in Seq(Registration), NEW u
  PROVE  /\ [book EXCEPT ![u].cancelled = TRUE] \in Seq(Registration)
         /\ Len([book EXCEPT ![u].cancelled = TRUE]) = Len(book)
         /\ Ran(u) \in Seq(Registration) /\ Len(Ran(u)) = Len(book)
         /\ Freed(u) \in Seq(Registration) /\ Len(Freed(u)) = Len(book)
<1> DEFINE c == [book[u] EXCEPT !.cancelled = TRUE]
           r == [book[u] EXCEPT !.ran = Bump(@)]
           f == [book[u] EXCEPT !.freed = Bump(@)]
<1>1. \A n \in 0 .. 3 : Bump(n) \in 0 .. 3
  BY DEF Bump
<1>2. ASSUME u \in 1 .. Len(book) PROVE book[u] \in Registration
  BY <1>2
<1>3. u \in 1 .. Len(book) => c \in Registration
  BY <1>2, Zenon DEF Registration
<1>4. u \in 1 .. Len(book) => r \in Registration /\ f \in Registration
  <2> SUFFICES ASSUME u \in 1 .. Len(book)
               PROVE  r \in Registration /\ f \in Registration
    OBVIOUS
  <2>1. Bump(book[u].ran) \in 0 .. 3 /\ Bump(book[u].freed) \in 0 .. 3
    BY <1>1, <1>2 DEF Registration
  <2>2. r = [book[u] EXCEPT !.ran = Bump(book[u].ran)]
        /\ f = [book[u] EXCEPT !.freed = Bump(book[u].freed)]
    OBVIOUS
  <2> HIDE DEF r, f
  <2> QED BY <2>1, <2>2, <1>2, Zenon DEF Registration
<1>5. /\ [book EXCEPT ![u].cancelled = TRUE] = [book EXCEPT ![u] = c]
      /\ Ran(u) = [book EXCEPT ![u] = r]
      /\ Freed(u) = [book EXCEPT ![u] = f]
  BY DEF Ran, Freed
<1> HIDE DEF c, r, f
<1>6. [book EXCEPT ![u] = c] \in Seq(Registration) /\ Len([book EXCEPT ![u] = c]) = Len(book)
  BY <1>3, UpdateList
<1>7. [book EXCEPT ![u] = r] \in Seq(Registration) /\ Len([book EXCEPT ![u] = r]) = Len(book)
  BY <1>4, UpdateList
<1>8. [book EXCEPT ![u] = f] \in Seq(Registration) /\ Len([book EXCEPT ![u] = f]) = Len(book)
  BY <1>4, UpdateList
<1> QED BY <1>5, <1>6, <1>7, <1>8

-----------------------------------------------------------------------------
(* One lemma per action that touches entries and lists. *)
LEMMA FireTimerInv == Inv /\ FireTimer => Inv'
<1> SUFFICES ASSUME Inv, FireTimer PROVE Inv'
  OBVIOUS
<1> DEFINE i == Head(usedTimer)
<1>1. /\ usedTimer \in Seq(Timers) /\ usedTimer # <<>> /\ pending \in Seq(Nodes)
      /\ IsInjective(usedTimer) /\ IsInjective(pending)
  BY DEF Inv, TypeOK, NoDuplicates, FireTimer
<1>2. /\ i \in Timers /\ usedTimer' \in Seq(Timers) /\ IsInjective(usedTimer')
      /\ i \in ToSet(usedTimer) /\ ToSet(usedTimer') = ToSet(usedTimer) \ {i}
  <2>1. i \in Timers /\ i \in ToSet(usedTimer) /\ usedTimer' = Without(usedTimer, i)
    BY <1>1, TailList DEF FireTimer
  <2> HIDE DEF i
  <2> QED BY <2>1, <1>1, WithoutList
<1>3. timer[i].state = "Used" /\ i \notin Pending("timer")
  BY <1>2 DEF Inv, ListsMatchStates, TimerLists
<1>4. TimerNode(i) \in Nodes /\ TimerNode(i) \notin ToSet(pending)
  BY <1>2, <1>3, PendingKinds DEF Inv, Nodes, TimerNode
<1>5. /\ pending' \in Seq(Nodes) /\ IsInjective(pending')
      /\ Pending("timer")' = Pending("timer") \cup {i}
      /\ Pending("socket")' = Pending("socket")
      /\ Pending("dispatch")' = Pending("dispatch")
  BY <1>1, <1>4, Pushed DEF FireTimer, Pending, TimerNode
<1>6. /\ timer' \in [Timers -> TimerEntry]
      /\ \A j \in Timers : timer'[j].state = IF j = i THEN "Action" ELSE timer[j].state
  BY <1>2, TimerState DEF Inv, TypeOK, FireTimer, EnterAction, States
<1>7. TypeOK'
  <2>1. cur' \in [event : EventNames, i : Nat, u : Tokens]
    BY <1>2, CallerAssumption DEF FireTimer, Event, EventNames, Tokens, Timers
  <2> QED BY <1>2, <1>5, <1>6, <2>1 DEF Inv, TypeOK, FireTimer
<1>8. SocketTable'
  BY <1>5 DEF Inv, SocketTable, FireTimer
<1>9. ListsMatchStates'
  <2>1. TimerLists'
    <3> HIDE DEF i
    <3>1. TimerLists /\ freeTimer' = freeTimer
      BY DEF Inv, ListsMatchStates, FireTimer
    <3> QED BY <3>1, <1>2, <1>3, <1>5, <1>6 DEF TimerLists
  <2> QED BY <2>1, <1>5, DispatchListsKept, SocketListsKept
          DEF Inv, ListsMatchStates, FireTimer
<1>10. NoDuplicates'
  BY <1>2, <1>5 DEF Inv, NoDuplicates, FireTimer
<1>11. EventOK'
  BY <1>2 DEF EventOK, FireTimer, Event
<1> QED BY <1>7, <1>8, <1>9, <1>10, <1>11 DEF Inv

(* Where socket entries are. *)
LEMMA SocketSets ==
  ASSUME Inv
  PROVE  /\ usedSocket \in Seq(Sockets) /\ freeSocket \in Seq(Sockets)
         /\ IsInjective(usedSocket)
         /\ ToSet(usedSocket) \subseteq Sockets /\ ToSet(freeSocket) \subseteq Sockets
         /\ Pending("socket") \subseteq Sockets
         /\ \A i \in Pending("socket") : i \notin ToSet(usedSocket) /\ i \notin ToSet(freeSocket)
<1>1. usedSocket \in Seq(Sockets) /\ freeSocket \in Seq(Sockets) /\ IsInjective(usedSocket)
  BY DEF Inv, TypeOK, NoDuplicates
<1>2. ToSet(usedSocket) \subseteq Sockets /\ ToSet(freeSocket) \subseteq Sockets
  BY <1>1, MemberOf
<1>3. Pending("socket") \subseteq Sockets
  BY PendingKinds DEF Inv
<1>4. \A i \in Pending("socket") : i \notin ToSet(usedSocket) /\ i \notin ToSet(freeSocket)
  BY DEF Inv, SocketTable, ListsMatchStates, SocketLists
<1> QED BY <1>1, <1>2, <1>3, <1>4

(* What the head of penndingList is while nextEvent empties it. *)
LEMMA DrainingTimer ==
  ASSUME Inv, NEW st, Draining("timer", st)
  PROVE  LET i == Head(pending).i IN
         /\ pending \in Seq(Nodes) /\ pending # <<>> /\ IsInjective(pending)
         /\ Head(pending) = TimerNode(i) /\ i \in Timers /\ timer[i].state = st
         /\ i \in Pending("timer")
         /\ \A kind : OfKind(ToSet(Tail(pending)), kind) =
              IF kind = "timer" THEN Pending(kind) \ {i} ELSE Pending(kind)
<1>1. pending \in Seq(Nodes) /\ pending # <<>> /\ IsInjective(pending)
  BY DEF Inv, TypeOK, NoDuplicates, Draining
<1>2. Head(pending) \in ToSet(pending) /\ Head(pending) \in Nodes
  BY <1>1, Popped
<1>3. /\ Head(pending).kind = "timer" /\ Head(pending) = TimerNode(Head(pending).i)
      /\ Head(pending).i \in Timers /\ timer[Head(pending).i].state = st
  BY <1>2 DEF Draining, Nodes, TimerNode
<1>4. Head(pending).i \in Pending("timer")
  BY <1>2, <1>3, PendingKinds DEF Inv
<1> QED BY <1>1, <1>3, <1>4, Popped DEF Pending

LEMMA DrainingSocket ==
  ASSUME Inv, NEW st, Draining("socket", st)
  PROVE  LET i == Head(pending).i IN
         /\ pending \in Seq(Nodes) /\ pending # <<>> /\ IsInjective(pending)
         /\ Head(pending) = SocketNode(i) /\ i \in Sockets /\ socket[i].state = st
         /\ i \in Pending("socket")
         /\ \A kind : OfKind(ToSet(Tail(pending)), kind) =
              IF kind = "socket" THEN Pending(kind) \ {i} ELSE Pending(kind)
<1>1. pending \in Seq(Nodes) /\ pending # <<>> /\ IsInjective(pending)
  BY DEF Inv, TypeOK, NoDuplicates, Draining
<1>2. Head(pending) \in ToSet(pending) /\ Head(pending) \in Nodes
  BY <1>1, Popped
<1>3. /\ Head(pending).kind = "socket" /\ Head(pending) = SocketNode(Head(pending).i)
      /\ Head(pending).i \in Sockets /\ socket[Head(pending).i].state = st
  BY <1>2 DEF Draining, Nodes, SocketNode
<1>4. Head(pending).i \in Pending("socket")
  BY <1>2, <1>3, PendingKinds DEF Inv
<1> QED BY <1>1, <1>3, <1>4, Popped DEF Pending

LEMMA DrainingDispatch ==
  ASSUME Inv, NEW st, Draining("dispatch", st)
  PROVE  LET i == Head(pending).i IN
         /\ pending \in Seq(Nodes) /\ pending # <<>> /\ IsInjective(pending)
         /\ Head(pending) = DispatchNode(i) /\ i \in Dispatches
         /\ dispatched[i].state = st
         /\ i \in Pending("dispatch")
         /\ \A kind : OfKind(ToSet(Tail(pending)), kind) =
              IF kind = "dispatch" THEN Pending(kind) \ {i} ELSE Pending(kind)
<1>1. pending \in Seq(Nodes) /\ pending # <<>> /\ IsInjective(pending)
  BY DEF Inv, TypeOK, NoDuplicates, Draining
<1>2. Head(pending) \in ToSet(pending) /\ Head(pending) \in Nodes
  BY <1>1, Popped
<1>3. /\ Head(pending).kind = "dispatch" /\ Head(pending) = DispatchNode(Head(pending).i)
      /\ Head(pending).i \in Dispatches /\ dispatched[Head(pending).i].state = st
  BY <1>2 DEF Draining, Nodes, DispatchNode
<1>4. Head(pending).i \in Pending("dispatch")
  BY <1>2, <1>3, PendingKinds DEF Inv
<1> QED BY <1>1, <1>3, <1>4, Popped DEF Pending

LEMMA DrainTimerActionInv == Inv /\ DrainTimerAction => Inv'
<1> SUFFICES ASSUME Inv, DrainTimerAction PROVE Inv'
  OBVIOUS
<1> DEFINE i == Head(pending).i
           e == timer[i]
           at == e.time + e.interval
           p == InsertPosition(usedTimer, timer, at)
<1>1. /\ pending \in Seq(Nodes) /\ pending # <<>> /\ IsInjective(pending)
      /\ Head(pending) = TimerNode(i) /\ i \in Timers /\ e.state = "Action"
      /\ i \in Pending("timer")
      /\ \A kind : OfKind(ToSet(Tail(pending)), kind) =
           IF kind = "timer" THEN Pending(kind) \ {i} ELSE Pending(kind)
  <2>1. Draining("timer", "Action")
    BY DEF DrainTimerAction
  <2> QED BY <2>1, DrainingTimer
<1>2. /\ e \in TimerEntry /\ at \in Int
      /\ usedTimer \in Seq(Timers) /\ freeTimer \in Seq(Timers)
      /\ IsInjective(usedTimer) /\ IsInjective(freeTimer)
      /\ i \notin ToSet(usedTimer) /\ i \notin ToSet(freeTimer)
  BY <1>1 DEF Inv, TypeOK, NoDuplicates, ListsMatchStates, TimerLists, TimerEntry
<1>3. Tail(pending) \in Seq(Nodes) /\ IsInjective(Tail(pending))
  BY <1>1, Popped
<1>4. CASE /\ e.interval # 0
           /\ timer' = [timer EXCEPT ![i].state = "Used", ![i].time = @ + e.interval]
           /\ usedTimer' = InsertAt(usedTimer, p, i)
           /\ pending' = Tail(pending)
           /\ UNCHANGED <<freeTimer, cur, pollTimeout, pc>>
  <2>1. p \in 1 .. Len(usedTimer) + 1
    BY <1>2, InsertPositionType DEF Inv, TypeOK, TimerEntry
  <2> HIDE DEF p
  <2>2. /\ usedTimer' \in Seq(Timers) /\ IsInjective(usedTimer')
        /\ ToSet(usedTimer') = ToSet(usedTimer) \cup {i}
    BY <1>1, <1>2, <1>4, <2>1, InsertAtList
  <2>3. /\ timer' \in [Timers -> TimerEntry]
        /\ \A j \in Timers : timer'[j].state = IF j = i THEN "Used" ELSE timer[j].state
    BY <1>1, <1>2, <1>4 DEF Inv, TypeOK, TimerEntry, States
  <2>4. /\ Pending("timer")' = Pending("timer") \ {i}
        /\ Pending("socket")' = Pending("socket")
        /\ Pending("dispatch")' = Pending("dispatch")
    BY <1>1, <1>4 DEF Pending
  <2>5. TypeOK'
    BY <1>3, <1>4, <2>2, <2>3 DEF Inv, TypeOK, DrainTimerAction
  <2>6. TimerLists'
    <3>1. TimerLists /\ freeTimer' = freeTimer /\ e.state = "Action" /\ i \in Timers
      BY <1>1, <1>4 DEF Inv, ListsMatchStates
    <3> QED BY <3>1, <2>2, <2>3, <2>4 DEF TimerLists
  <2>7. DispatchLists' /\ SocketLists'
    BY <2>4, DispatchListsKept, SocketListsKept
       DEF Inv, ListsMatchStates, DrainTimerAction
  <2>8. SocketTable' /\ NoDuplicates' /\ EventOK'
    BY <1>3, <1>4, <2>2, <2>4
       DEF Inv, SocketTable, NoDuplicates, EventOK, DrainTimerAction
  <2> QED BY <2>5, <2>6, <2>7, <2>8 DEF Inv, ListsMatchStates
<1>5. CASE /\ e.interval = 0 /\ ~e.destroy
           /\ timer' = [timer EXCEPT ![i].state = "Free"]
           /\ freeTimer' = Append(freeTimer, i)
           /\ pending' = Tail(pending)
           /\ UNCHANGED <<usedTimer, cur, pollTimeout, pc>>
  <2>2. /\ freeTimer' \in Seq(Timers) /\ IsInjective(freeTimer')
        /\ ToSet(freeTimer') = ToSet(freeTimer) \cup {i}
    BY <1>1, <1>2, <1>5, AppendList
  <2>3. /\ timer' \in [Timers -> TimerEntry]
        /\ \A j \in Timers : timer'[j].state = IF j = i THEN "Free" ELSE timer[j].state
    BY <1>1, <1>5, TimerState DEF Inv, TypeOK, States
  <2>4. /\ Pending("timer")' = Pending("timer") \ {i}
        /\ Pending("socket")' = Pending("socket")
        /\ Pending("dispatch")' = Pending("dispatch")
    BY <1>1, <1>5 DEF Pending
  <2>5. TypeOK'
    BY <1>3, <1>5, <2>2, <2>3 DEF Inv, TypeOK, DrainTimerAction
  <2>6. TimerLists'
    BY <1>1, <1>2, <1>5, <2>2, <2>3, <2>4 DEF Inv, ListsMatchStates, TimerLists
  <2>7. DispatchLists' /\ SocketLists'
    BY <2>4, DispatchListsKept, SocketListsKept
       DEF Inv, ListsMatchStates, DrainTimerAction
  <2>8. SocketTable' /\ NoDuplicates' /\ EventOK'
    BY <1>3, <1>5, <2>2, <2>4
       DEF Inv, SocketTable, NoDuplicates, EventOK, DrainTimerAction
  <2> QED BY <2>5, <2>6, <2>7, <2>8 DEF Inv, ListsMatchStates
<1>6. CASE /\ e.interval = 0 /\ e.destroy
           /\ timer' = [timer EXCEPT ![i].state = "Destroy"]
           /\ Requeue("timerDestroy")
           /\ UNCHANGED <<usedTimer, freeTimer>>
  <2>1. /\ pending' \in Seq(Nodes) /\ IsInjective(pending')
        /\ ToSet(pending') = ToSet(pending)
    BY <1>1, <1>6, Requeued DEF Requeue
  <2>3. /\ timer' \in [Timers -> TimerEntry]
        /\ \A j \in Timers : timer'[j].state = IF j = i THEN "Destroy" ELSE timer[j].state
    BY <1>1, <1>6, TimerState DEF Inv, TypeOK, States
  <2>4. /\ Pending("timer")' = Pending("timer")
        /\ Pending("socket")' = Pending("socket")
        /\ Pending("dispatch")' = Pending("dispatch")
    BY <2>1 DEF Pending
  <2>9. /\ cur' = Event("timerDestroy", i) /\ pc' = "event" /\ pollTimeout' = 0
        /\ cur' \in [event : EventNames, i : Nat, u : Tokens]
    BY <1>1, <1>6, CallerAssumption DEF Requeue, Event, EventNames, Tokens, Timers
  <2>10. UNCHANGED <<socket, dispatched, pollfd, pollSize, usedSocket, freeSocket,
                     freeDispatch, wakeup, polled, deadline, now, sampled, book>>
    BY DEF DrainTimerAction
  <2>11. UNCHANGED <<usedTimer, freeTimer>>
    BY <1>6
  <2>12. TypeOK
    BY DEF Inv
  <2>5. TypeOK'
    BY <2>1, <2>3, <2>9, <2>10, <2>11, <2>12 DEF TypeOK
  <2>6. TimerLists'
    BY <1>1, <1>2, <1>6, <2>3, <2>4 DEF Inv, ListsMatchStates, TimerLists
  <2>7. DispatchLists' /\ SocketLists'
    BY <2>4, DispatchListsKept, SocketListsKept
       DEF Inv, ListsMatchStates, DrainTimerAction
  <2>8. SocketTable' /\ NoDuplicates' /\ EventOK'
    BY <1>1, <1>6, <2>1, <2>4, <2>9
       DEF Inv, SocketTable, NoDuplicates, EventOK, DrainTimerAction, Event
  <2> QED BY <2>5, <2>6, <2>7, <2>8 DEF Inv, ListsMatchStates
<1> QED BY <1>4, <1>5, <1>6 DEF DrainTimerAction

LEMMA DrainTimerDestroyInv == Inv /\ DrainTimerDestroy => Inv'
<1> SUFFICES ASSUME Inv, DrainTimerDestroy PROVE Inv'
  OBVIOUS
<1> DEFINE i == Head(pending).i
<1>1. /\ pending \in Seq(Nodes) /\ pending # <<>> /\ IsInjective(pending)
      /\ i \in Timers /\ timer[i].state = "Destroy"
      /\ \A kind : OfKind(ToSet(Tail(pending)), kind) =
           IF kind = "timer" THEN Pending(kind) \ {i} ELSE Pending(kind)
  <2>1. Draining("timer", "Destroy")
    BY DEF DrainTimerDestroy
  <2> QED BY <2>1, DrainingTimer
<1>2. freeTimer \in Seq(Timers) /\ IsInjective(freeTimer) /\ i \notin ToSet(freeTimer)
  BY <1>1 DEF Inv, TypeOK, NoDuplicates, ListsMatchStates, TimerLists
<1>3. Tail(pending) \in Seq(Nodes) /\ IsInjective(Tail(pending))
  BY <1>1, Popped
<1>4. /\ freeTimer' \in Seq(Timers) /\ IsInjective(freeTimer')
      /\ ToSet(freeTimer') = ToSet(freeTimer) \cup {i}
  BY <1>1, <1>2, AppendList DEF DrainTimerDestroy
<1>5. /\ timer' \in [Timers -> TimerEntry]
      /\ \A j \in Timers : timer'[j].state = IF j = i THEN "Free" ELSE timer[j].state
  BY <1>1, TimerState DEF Inv, TypeOK, States, DrainTimerDestroy
<1>6. /\ Pending("timer")' = Pending("timer") \ {i}
      /\ Pending("socket")' = Pending("socket")
      /\ Pending("dispatch")' = Pending("dispatch")
  BY <1>1 DEF Pending, DrainTimerDestroy
<1>7. TypeOK'
  BY <1>3, <1>4, <1>5 DEF Inv, TypeOK, DrainTimerDestroy, worker
<1>8. TimerLists'
  BY <1>1, <1>4, <1>5, <1>6 DEF Inv, ListsMatchStates, TimerLists, DrainTimerDestroy
<1>9. DispatchLists' /\ SocketLists'
  BY <1>6, DispatchListsKept, SocketListsKept
     DEF Inv, ListsMatchStates, DrainTimerDestroy
<1>10. SocketTable' /\ NoDuplicates' /\ EventOK'
  BY <1>3, <1>4, <1>6
     DEF Inv, SocketTable, NoDuplicates, EventOK, DrainTimerDestroy, worker
<1> QED BY <1>7, <1>8, <1>9, <1>10 DEF Inv, ListsMatchStates

LEMMA DrainSocketUsedInv == Inv /\ DrainSocketUsed => Inv'
<1> SUFFICES ASSUME Inv, DrainSocketUsed PROVE Inv'
  OBVIOUS
<1> DEFINE i == Head(pending).i
<1>1. /\ pending \in Seq(Nodes) /\ pending # <<>> /\ IsInjective(pending)
      /\ i \in Sockets /\ i \in Pending("socket")
  <2>1. Draining("socket", "Used")
    BY DEF DrainSocketUsed
  <2> QED BY <2>1, DrainingSocket
<1>2. /\ pending' \in Seq(Nodes) /\ IsInjective(pending')
      /\ ToSet(pending') = ToSet(pending)
  BY <1>1, Requeued DEF DrainSocketUsed, Requeue
<1>3. /\ socket' \in [Sockets -> SocketEntry]
      /\ \A j \in Sockets : socket'[j].state = IF j = i THEN "Action" ELSE socket[j].state
  BY <1>1, SocketState DEF Inv, TypeOK, States, DrainSocketUsed, EnterAction
<1>4. /\ Pending("timer")' = Pending("timer")
      /\ Pending("socket")' = Pending("socket")
      /\ Pending("dispatch")' = Pending("dispatch")
  BY <1>2 DEF Pending
<1>5. /\ cur' = Event("socketAction", i) /\ pc' = "event" /\ pollTimeout' = 0
      /\ cur' \in [event : EventNames, i : Nat, u : Tokens]
  BY <1>1, CallerAssumption
     DEF DrainSocketUsed, Requeue, Event, EventNames, Tokens, Sockets
<1>6. TypeOK'
  BY <1>2, <1>3, <1>5 DEF Inv, TypeOK, DrainSocketUsed
<1>7. SocketLists'
  <2>1. /\ i \notin ToSet(usedSocket) /\ i \notin ToSet(freeSocket)
        /\ ToSet(usedSocket) \subseteq Sockets /\ ToSet(freeSocket) \subseteq Sockets
        /\ Pending("socket") \subseteq Sockets
    BY <1>1, SocketSets
  <2> QED BY <2>1, <1>1, <1>3, <1>4
          DEF Inv, ListsMatchStates, SocketLists, DrainSocketUsed
<1>8. TimerLists' /\ DispatchLists'
  BY <1>4, TimerListsKept, DispatchListsKept DEF Inv, ListsMatchStates, DrainSocketUsed
<1>9. SocketTable' /\ NoDuplicates' /\ EventOK'
  BY <1>1, <1>2, <1>4, <1>5
     DEF Inv, SocketTable, NoDuplicates, EventOK, DrainSocketUsed, Event
<1> QED BY <1>6, <1>7, <1>8, <1>9 DEF Inv, ListsMatchStates

LEMMA DrainSocketActionInv == Inv /\ DrainSocketAction => Inv'
<1> SUFFICES ASSUME Inv, DrainSocketAction PROVE Inv'
  OBVIOUS
<1> DEFINE i == Head(pending).i
<1>1. /\ pending \in Seq(Nodes) /\ pending # <<>> /\ IsInjective(pending)
      /\ i \in Sockets /\ i \in Pending("socket")
      /\ \A kind : OfKind(ToSet(Tail(pending)), kind) =
           IF kind = "socket" THEN Pending(kind) \ {i} ELSE Pending(kind)
  <2>1. Draining("socket", "Action")
    BY DEF DrainSocketAction
  <2> QED BY <2>1, DrainingSocket
<1>2. /\ i \notin ToSet(usedSocket) /\ i \notin ToSet(freeSocket)
      /\ ToSet(usedSocket) \subseteq Sockets /\ ToSet(freeSocket) \subseteq Sockets
      /\ Pending("socket") \subseteq Sockets /\ usedSocket \in Seq(Sockets)
      /\ IsInjective(usedSocket)
  BY <1>1, SocketSets
<1>3. Tail(pending) \in Seq(Nodes) /\ IsInjective(Tail(pending))
  BY <1>1, Popped
<1>4. CASE /\ \E st \in {"Used", "Free"} : socket' = [socket EXCEPT ![i].state = st]
           /\ usedSocket' = Append(usedSocket, i)
           /\ pending' = Tail(pending)
  <2>1. PICK st \in {"Used", "Free"} : socket' = [socket EXCEPT ![i].state = st]
    BY <1>4
  <2>2. /\ usedSocket' \in Seq(Sockets) /\ IsInjective(usedSocket')
        /\ ToSet(usedSocket') = ToSet(usedSocket) \cup {i}
    BY <1>1, <1>2, <1>4, AppendList
  <2>3. /\ socket' \in [Sockets -> SocketEntry]
        /\ \A j \in Sockets : socket'[j].state = IF j = i THEN st ELSE socket[j].state
    BY <1>1, <2>1, SocketState DEF Inv, TypeOK, States
  <2>4. /\ Pending("timer")' = Pending("timer")
        /\ Pending("socket")' = Pending("socket") \ {i}
        /\ Pending("dispatch")' = Pending("dispatch")
    BY <1>1, <1>4 DEF Pending
  <2>5. TypeOK'
    BY <1>3, <1>4, <2>2, <2>3 DEF Inv, TypeOK, DrainSocketAction, worker
  <2>6. SocketLists'
    BY <1>2, <2>1, <2>2, <2>3, <2>4
       DEF Inv, ListsMatchStates, SocketLists, DrainSocketAction
  <2>7. TimerLists' /\ DispatchLists'
    BY <2>4, TimerListsKept, DispatchListsKept
       DEF Inv, ListsMatchStates, DrainSocketAction
  <2>8. SocketTable'
    <3>1. UNCHANGED <<pollSize, freeSocket>>
      BY DEF DrainSocketAction
    <3> QED BY <1>1, <1>2, <2>2, <2>4, <3>1 DEF Inv, SocketTable
  <2>9. NoDuplicates' /\ EventOK'
    BY <1>3, <1>4, <2>2
       DEF Inv, NoDuplicates, EventOK, DrainSocketAction, worker
  <2> QED BY <2>5, <2>6, <2>7, <2>8, <2>9 DEF Inv, ListsMatchStates
<1>5. CASE /\ socket' = [socket EXCEPT ![i].state = "Destroy"]
           /\ pending' = Append(Tail(pending), Head(pending))
           /\ UNCHANGED usedSocket
  <2>2. /\ pending' \in Seq(Nodes) /\ IsInjective(pending')
        /\ ToSet(pending') = ToSet(pending)
    BY <1>1, <1>5, Requeued
  <2>3. /\ socket' \in [Sockets -> SocketEntry]
        /\ \A j \in Sockets : socket'[j].state = IF j = i THEN "Destroy" ELSE socket[j].state
    BY <1>1, <1>5, SocketState DEF Inv, TypeOK, States
  <2>4. /\ Pending("timer")' = Pending("timer")
        /\ Pending("socket")' = Pending("socket")
        /\ Pending("dispatch")' = Pending("dispatch")
    BY <2>2 DEF Pending
  <2>5. TypeOK'
    BY <1>5, <2>2, <2>3 DEF Inv, TypeOK, DrainSocketAction, worker
  <2>6. SocketLists'
    BY <1>2, <1>5, <2>3, <2>4
       DEF Inv, ListsMatchStates, SocketLists, DrainSocketAction
  <2>7. TimerLists' /\ DispatchLists'
    BY <2>4, TimerListsKept, DispatchListsKept
       DEF Inv, ListsMatchStates, DrainSocketAction
  <2>8. SocketTable' /\ NoDuplicates' /\ EventOK'
    BY <1>5, <2>2, <2>4
       DEF Inv, SocketTable, NoDuplicates, EventOK, DrainSocketAction, worker
  <2> QED BY <2>5, <2>6, <2>7, <2>8 DEF Inv, ListsMatchStates
<1> QED BY <1>4, <1>5 DEF DrainSocketAction

LEMMA DrainSocketDestroyInv == Inv /\ DrainSocketDestroy => Inv'
<1> SUFFICES ASSUME Inv, DrainSocketDestroy PROVE Inv'
  OBVIOUS
<1> DEFINE i == Head(pending).i
<1>1. /\ pending \in Seq(Nodes) /\ pending # <<>> /\ IsInjective(pending)
      /\ i \in Sockets /\ i \in Pending("socket")
      /\ \A kind : OfKind(ToSet(Tail(pending)), kind) =
           IF kind = "socket" THEN Pending(kind) \ {i} ELSE Pending(kind)
  <2>1. Draining("socket", "Destroy")
    BY DEF DrainSocketDestroy
  <2> QED BY <2>1, DrainingSocket
<1>2. /\ i \notin ToSet(usedSocket) /\ i \notin ToSet(freeSocket)
      /\ ToSet(usedSocket) \subseteq Sockets /\ ToSet(freeSocket) \subseteq Sockets
      /\ Pending("socket") \subseteq Sockets /\ usedSocket \in Seq(Sockets)
      /\ IsInjective(usedSocket)
  BY <1>1, SocketSets
<1>3. pending' \in Seq(Nodes) /\ IsInjective(pending')
  BY <1>1, Popped DEF DrainSocketDestroy
<1>4. /\ usedSocket' \in Seq(Sockets) /\ IsInjective(usedSocket')
      /\ ToSet(usedSocket') = ToSet(usedSocket) \cup {i}
  BY <1>1, <1>2, AppendList DEF DrainSocketDestroy
<1>5. /\ socket' \in [Sockets -> SocketEntry]
      /\ \A j \in Sockets : socket'[j].state = IF j = i THEN "Free" ELSE socket[j].state
  BY <1>1, SocketState DEF Inv, TypeOK, States, DrainSocketDestroy
<1>6. /\ Pending("timer")' = Pending("timer")
      /\ Pending("socket")' = Pending("socket") \ {i}
      /\ Pending("dispatch")' = Pending("dispatch")
  BY <1>1 DEF Pending, DrainSocketDestroy
<1>7. /\ cur' = Event("socketDestroy", i) /\ pc' = "event" /\ pollTimeout' = 0
      /\ cur' \in [event : EventNames, i : Nat, u : Tokens]
  BY <1>1, CallerAssumption DEF DrainSocketDestroy, Event, EventNames, Tokens, Sockets
<1>8. TypeOK'
  <2>1. UNCHANGED <<timer, dispatched, pollfd, pollSize, usedTimer, freeTimer,
                    freeSocket, freeDispatch, wakeup, polled, deadline, now, sampled, book>>
    BY DEF DrainSocketDestroy
  <2> QED BY <1>3, <1>4, <1>5, <1>7, <2>1 DEF Inv, TypeOK
<1>9. SocketLists'
  BY <1>2, <1>4, <1>5, <1>6 DEF Inv, ListsMatchStates, SocketLists, DrainSocketDestroy
<1>10. TimerLists' /\ DispatchLists'
  BY <1>6, TimerListsKept, DispatchListsKept
     DEF Inv, ListsMatchStates, DrainSocketDestroy
<1>11. SocketTable'
  <2>1. UNCHANGED <<pollSize, freeSocket>>
    BY DEF DrainSocketDestroy
  <2> QED BY <1>1, <1>2, <1>4, <1>6, <2>1 DEF Inv, SocketTable
<1>12. NoDuplicates' /\ EventOK'
  BY <1>1, <1>3, <1>4, <1>7 DEF Inv, NoDuplicates, EventOK, DrainSocketDestroy, Event
<1> QED BY <1>8, <1>9, <1>10, <1>11, <1>12 DEF Inv, ListsMatchStates

LEMMA DrainDispatchUsedInv == Inv /\ DrainDispatchUsed => Inv'
<1> SUFFICES ASSUME Inv, DrainDispatchUsed PROVE Inv'
  OBVIOUS
<1> DEFINE i == Head(pending).i
<1>1. /\ pending \in Seq(Nodes) /\ pending # <<>> /\ IsInjective(pending)
      /\ i \in Dispatches /\ dispatched[i].state = "Used"
  <2>1. Draining("dispatch", "Used")
    BY DEF DrainDispatchUsed
  <2> QED BY <2>1, DrainingDispatch
<1>2. /\ pending' \in Seq(Nodes) /\ IsInjective(pending')
      /\ ToSet(pending') = ToSet(pending)
  BY <1>1, Requeued DEF DrainDispatchUsed, Requeue
<1>3. /\ dispatched' \in [Dispatches -> DispatchEntry]
      /\ \A j \in Dispatches :
           dispatched'[j].state = IF j = i THEN "Action" ELSE dispatched[j].state
  BY <1>1, DispatchState DEF Inv, TypeOK, States, DrainDispatchUsed, EnterAction
<1>4. /\ Pending("timer")' = Pending("timer")
      /\ Pending("socket")' = Pending("socket")
      /\ Pending("dispatch")' = Pending("dispatch")
  BY <1>2 DEF Pending
<1>5. /\ cur' = Event("dispatchAction", i) /\ pc' = "event" /\ pollTimeout' = 0
      /\ cur' \in [event : EventNames, i : Nat, u : Tokens]
  BY <1>1, CallerAssumption
     DEF DrainDispatchUsed, Requeue, Event, EventNames, Tokens, Dispatches
<1>6. TypeOK'
  <2>1. UNCHANGED <<timer, socket, pollfd, pollSize, usedTimer, usedSocket, freeTimer,
                    freeSocket, freeDispatch, wakeup, polled, deadline, now,
                    sampled, book>>
    BY DEF DrainDispatchUsed
  <2>2. pc' \in {"idle", "drain", "collect", "event", "callback",
                "sleep", "polling", "stopped", "destroyed"}
        /\ pollTimeout' \in Int
    BY ONLY <1>5
  <2> HIDE DEF i
  <2> QED BY ONLY <1>2, <1>3, <1>5, <2>1, <2>2, Inv DEF Inv, TypeOK
<1>7. DispatchLists'
  BY <1>1, <1>3, <1>4 DEF Inv, ListsMatchStates, DispatchLists, DrainDispatchUsed
<1>8. TimerLists' /\ SocketLists'
  BY <1>4, TimerListsKept, SocketListsKept DEF Inv, ListsMatchStates, DrainDispatchUsed
<1>9. SocketTable' /\ NoDuplicates' /\ EventOK'
  BY <1>1, <1>2, <1>4, <1>5
     DEF Inv, SocketTable, NoDuplicates, EventOK, DrainDispatchUsed, Event
<1> QED BY <1>6, <1>7, <1>8, <1>9 DEF Inv, ListsMatchStates

LEMMA DrainDispatchActionInv == Inv /\ DrainDispatchAction => Inv'
<1> SUFFICES ASSUME Inv, DrainDispatchAction PROVE Inv'
  OBVIOUS
<1> DEFINE i == Head(pending).i
<1>1. /\ pending \in Seq(Nodes) /\ pending # <<>> /\ IsInjective(pending)
      /\ i \in Dispatches /\ dispatched[i].state = "Action"
  <2>1. Draining("dispatch", "Action")
    BY DEF DrainDispatchAction
  <2> QED BY <2>1, DrainingDispatch
<1>2. /\ pending' \in Seq(Nodes) /\ IsInjective(pending')
      /\ ToSet(pending') = ToSet(pending)
  BY <1>1, Requeued DEF DrainDispatchAction, Requeue
<1>3. /\ dispatched' \in [Dispatches -> DispatchEntry]
      /\ \A j \in Dispatches :
           dispatched'[j].state = IF j = i THEN "Destroy" ELSE dispatched[j].state
  BY <1>1, DispatchState DEF Inv, TypeOK, States, DrainDispatchAction
<1>4. /\ Pending("timer")' = Pending("timer")
      /\ Pending("socket")' = Pending("socket")
      /\ Pending("dispatch")' = Pending("dispatch")
  BY <1>2 DEF Pending
<1>5. /\ cur' = Event("dispatchDestroy", i) /\ pc' = "event" /\ pollTimeout' = 0
      /\ cur' \in [event : EventNames, i : Nat, u : Tokens]
  BY <1>1, CallerAssumption
     DEF DrainDispatchAction, Requeue, Event, EventNames, Tokens, Dispatches
<1>6. TypeOK'
  <2>1. UNCHANGED <<timer, socket, pollfd, pollSize, usedTimer, usedSocket, freeTimer,
                    freeSocket, freeDispatch, wakeup, polled, deadline, now,
                    sampled, book>>
    BY DEF DrainDispatchAction
  <2>2. pc' \in {"idle", "drain", "collect", "event", "callback",
                "sleep", "polling", "stopped", "destroyed"}
        /\ pollTimeout' \in Int
    BY ONLY <1>5
  <2> HIDE DEF i
  <2> QED BY ONLY <1>2, <1>3, <1>5, <2>1, <2>2, Inv DEF Inv, TypeOK
<1>7. DispatchLists'
  BY <1>1, <1>3, <1>4 DEF Inv, ListsMatchStates, DispatchLists, DrainDispatchAction
<1>8. TimerLists' /\ SocketLists'
  BY <1>4, TimerListsKept, SocketListsKept DEF Inv, ListsMatchStates, DrainDispatchAction
<1>9. SocketTable' /\ NoDuplicates' /\ EventOK'
  BY <1>1, <1>2, <1>4, <1>5
     DEF Inv, SocketTable, NoDuplicates, EventOK, DrainDispatchAction, Event
<1> QED BY <1>6, <1>7, <1>8, <1>9 DEF Inv, ListsMatchStates

LEMMA DrainDispatchDoneInv == Inv /\ DrainDispatchDone => Inv'
<1> SUFFICES ASSUME Inv, DrainDispatchDone PROVE Inv'
  OBVIOUS
<1> DEFINE i == Head(pending).i
<1>1. /\ pending \in Seq(Nodes) /\ pending # <<>> /\ IsInjective(pending)
      /\ i \in Dispatches /\ dispatched[i].state # "Free" /\ i \in Pending("dispatch")
      /\ \A kind : OfKind(ToSet(Tail(pending)), kind) =
           IF kind = "dispatch" THEN Pending(kind) \ {i} ELSE Pending(kind)
  <2>1. Draining("dispatch", "Action") \/ Draining("dispatch", "Destroy")
    BY DEF DrainDispatchDone
  <2>2. CASE Draining("dispatch", "Action")
    BY <2>2, DrainingDispatch
  <2>3. CASE Draining("dispatch", "Destroy")
    BY <2>3, DrainingDispatch
  <2> QED BY <2>1, <2>2, <2>3
<1>2. /\ freeDispatch \in Seq(Dispatches) /\ IsInjective(freeDispatch)
      /\ i \notin ToSet(freeDispatch)
  BY <1>1 DEF Inv, TypeOK, NoDuplicates, ListsMatchStates, DispatchLists
<1>3. pending' \in Seq(Nodes) /\ IsInjective(pending')
  BY <1>1, Popped DEF DrainDispatchDone
<1>4. /\ freeDispatch' \in Seq(Dispatches) /\ IsInjective(freeDispatch')
      /\ ToSet(freeDispatch') = ToSet(freeDispatch) \cup {i}
  BY <1>1, <1>2, AppendList DEF DrainDispatchDone
<1>5. /\ dispatched' \in [Dispatches -> DispatchEntry]
      /\ \A j \in Dispatches :
           dispatched'[j].state = IF j = i THEN "Free" ELSE dispatched[j].state
  BY <1>1, DispatchState DEF Inv, TypeOK, States, DrainDispatchDone
<1>6. /\ Pending("timer")' = Pending("timer")
      /\ Pending("socket")' = Pending("socket")
      /\ Pending("dispatch")' = Pending("dispatch") \ {i}
  BY <1>1 DEF Pending, DrainDispatchDone
<1>7. TypeOK'
  BY <1>3, <1>4, <1>5 DEF Inv, TypeOK, DrainDispatchDone, worker
<1>8. DispatchLists'
  BY <1>1, <1>4, <1>5, <1>6 DEF Inv, ListsMatchStates, DispatchLists, DrainDispatchDone
<1>9. TimerLists' /\ SocketLists'
  BY <1>6, TimerListsKept, SocketListsKept DEF Inv, ListsMatchStates, DrainDispatchDone
<1>10. SocketTable' /\ NoDuplicates' /\ EventOK'
  BY <1>3, <1>4, <1>6
     DEF Inv, SocketTable, NoDuplicates, EventOK, DrainDispatchDone, worker
<1> QED BY <1>7, <1>8, <1>9, <1>10 DEF Inv, ListsMatchStates

LEMMA CollectUsedInv == Inv /\ CollectUsed => Inv'
<1> SUFFICES ASSUME Inv, CollectUsed PROVE Inv'
  OBVIOUS
<1> DEFINE i == Head(usedSocket)
<1>1. /\ usedSocket \in Seq(Sockets) /\ usedSocket # <<>> /\ IsInjective(usedSocket)
      /\ pending \in Seq(Nodes) /\ IsInjective(pending)
      /\ socket[i].state = "Used"
  BY DEF Inv, TypeOK, NoDuplicates, CollectUsed
<1>2. /\ i \in Sockets /\ i \in ToSet(usedSocket)
      /\ usedSocket' \in Seq(Sockets) /\ IsInjective(usedSocket')
      /\ ToSet(usedSocket) = ToSet(usedSocket') \cup {i} /\ i \notin ToSet(usedSocket')
  BY <1>1, TailList DEF CollectUsed
<1>3. i \notin Pending("socket") /\ SocketNode(i) \in Nodes /\ SocketNode(i) \notin ToSet(pending)
  BY <1>2, PendingKinds DEF Inv, SocketTable, Nodes, SocketNode
<1>4. /\ pending' \in Seq(Nodes) /\ IsInjective(pending')
      /\ Pending("timer")' = Pending("timer")
      /\ Pending("socket")' = Pending("socket") \cup {i}
      /\ Pending("dispatch")' = Pending("dispatch")
  BY <1>1, <1>3, Pushed DEF CollectUsed, Pending, SocketNode
<1>5. pollfd' \in [Sockets -> Pollfd]
  BY PollfdField DEF Inv, TypeOK, CollectUsed
<1>6. TypeOK'
  BY <1>2, <1>4, <1>5 DEF Inv, TypeOK, CollectUsed, entries, worker
<1>7. SocketLists'
  BY <1>1, <1>2, <1>4 DEF Inv, ListsMatchStates, SocketLists, CollectUsed, entries
<1>8. TimerLists' /\ DispatchLists'
  BY <1>4, TimerListsKept, DispatchListsKept
     DEF Inv, ListsMatchStates, CollectUsed, entries
<1>9. SocketTable' /\ NoDuplicates' /\ EventOK'
  BY <1>2, <1>3, <1>4
     DEF Inv, SocketTable, NoDuplicates, EventOK, CollectUsed, worker
<1> QED BY <1>6, <1>7, <1>8, <1>9 DEF Inv, ListsMatchStates

LEMMA CollectFreeInv == Inv /\ WakeupEntry /\ CollectFree => Inv'
<1> SUFFICES ASSUME Inv, WakeupEntry, CollectFree PROVE Inv'
  OBVIOUS
<1> DEFINE i == Head(usedSocket)
           last == pollSize - 1
<1>1. /\ usedSocket \in Seq(Sockets) /\ usedSocket # <<>> /\ IsInjective(usedSocket)
      /\ pending \in Seq(Nodes) /\ IsInjective(pending)
      /\ freeSocket \in Seq(Sockets) /\ SocketLimit \in Nat
      /\ pollSize \in 1 .. SocketLimit /\ socket[i].state # "Used"
  BY LimitsAssumption DEF Inv, TypeOK, NoDuplicates, CollectFree
<1>2. /\ i \in Sockets /\ i \in ToSet(usedSocket)
      /\ Tail(usedSocket) \in Seq(Sockets) /\ IsInjective(Tail(usedSocket))
      /\ ToSet(usedSocket) = ToSet(Tail(usedSocket)) \cup {i}
      /\ i \notin ToSet(Tail(usedSocket))
  BY <1>1, TailList
<1>3. socket[i].state = "Free" /\ i # 0
  BY <1>1, <1>2 DEF Inv, ListsMatchStates, SocketLists, WakeupEntry
<1>4. /\ i \in 1 .. last /\ last \in Sockets /\ last \in 1 .. SocketLimit
      /\ SocketNode(i) \in Nodes /\ SocketNode(last) \in Nodes
      /\ i \notin Pending("socket") /\ SocketNode(i) \notin ToSet(pending)
  <2>1. i \in 0 .. pollSize - 1 /\ i \notin Pending("socket")
    BY <1>2 DEF Inv, SocketTable
  <2>2. i \in 1 .. last /\ last \in Sockets /\ last \in 1 .. SocketLimit
    BY <2>1, <1>1, <1>3 DEF Sockets
  <2> QED BY <1>2, <2>1, <2>2, PendingKinds DEF Inv, Nodes, SocketNode
<1>5. /\ freeSocket' = [k \in 1 .. SocketLimit - last |-> last + k - 1]
      /\ ToSet(freeSocket') = ToSet(freeSocket) \cup {last}
      /\ \A j \in ToSet(freeSocket) : j \in Sockets /\ j > last
      /\ freeSocket' \in Seq(Sockets)
  <2> DEFINE n == SocketLimit - pollSize
             f == freeSocket'
  <2>1. /\ n \in Nat /\ Len(freeSocket) = n
        /\ \A k \in 1 .. n : freeSocket[k] = pollSize + k - 1
    BY <1>1 DEF Inv, SocketTable
  <2>2. /\ f = <<last>> \o freeSocket /\ f \in Seq(Sockets)
        /\ Len(f) = n + 1 /\ f[1] = last
        /\ \A k \in 2 .. n + 1 : f[k] = freeSocket[k - 1]
    BY <1>1, <1>4, <2>1 DEF CollectFree, Reclaim
  <2>3. \A k \in 1 .. n + 1 : f[k] = last + k - 1
    BY <2>1, <2>2, <1>1
  <2>4. DOMAIN f = 1 .. n + 1 /\ n + 1 = SocketLimit - last
    BY <1>1, <2>1, <2>2
  <2>5. f = [k \in 1 .. SocketLimit - last |-> last + k - 1]
    BY <2>2, <2>3, <2>4
  <2>6. \A j \in ToSet(freeSocket) : j \in Sockets /\ j > last
    BY <1>1, <2>1, MemberOf
  <2>7. ToSet(f) = ToSet(freeSocket) \cup {last}
    <3> HIDE DEF f, last
    <3>1. \A x : x \in ToSet(f) <=> \E k \in 1 .. n + 1 : f[k] = x
      BY <2>4 DEF ToSet
    <3>2. \A x : x \in ToSet(freeSocket) <=> \E k \in 1 .. n : freeSocket[k] = x
      BY <1>1, <2>1, MemberOf
    <3>3. \A x : x \in ToSet(freeSocket) => x \in ToSet(f)
      <4> SUFFICES ASSUME NEW k \in 1 .. n PROVE freeSocket[k] \in ToSet(f)
        BY <3>2
      <4>1. k + 1 \in 2 .. n + 1 /\ (k + 1) - 1 = k
        BY <2>1
      <4>2. f[k + 1] = freeSocket[k]
        BY <2>2, <4>1
      <4> QED BY <3>1, <4>1, <4>2, <2>1
    <3>4. \A x : x \in ToSet(f) => x = last \/ x \in ToSet(freeSocket)
      <4> SUFFICES ASSUME NEW k \in 1 .. n + 1
                   PROVE  f[k] = last \/ f[k] \in ToSet(freeSocket)
        BY <3>1
      <4>1. k = 1 \/ (k \in 2 .. n + 1 /\ k - 1 \in 1 .. n)
        BY <2>1
      <4> QED BY <2>2, <3>2, <4>1
    <3>5. last \in ToSet(f)
      BY <2>1, <2>2, <3>1
    <3> QED BY <3>3, <3>4, <3>5
  <2> QED BY <2>2, <2>5, <2>6, <2>7
<1>6. ToSet(usedSocket) \cup Pending("socket") = 0 .. last
      /\ ToSet(usedSocket) \cap Pending("socket") = {}
  BY DEF Inv, SocketTable
<1>7. CASE i = last
  <2>1. usedSocket' = Tail(usedSocket) /\ UNCHANGED <<pending, pollfd, socket>>
    BY <1>7 DEF CollectFree
  <2>2. \A kind : Pending(kind)' = Pending(kind)
    BY <2>1 DEF Pending
  <2>3. TypeOK'
    BY <1>2, <1>4, <1>5, <2>1 DEF Inv, TypeOK, CollectFree, worker
  <2>4. SocketTable'
    <3>1. ToSet(usedSocket') \cup Pending("socket") = 0 .. last - 1
      <4>1. 0 .. last - 1 = (0 .. last) \ {last}
        BY <1>4
      <4> QED BY <4>1, <1>2, <1>4, <1>6, <1>7, <2>1
    <3> QED BY <3>1, <1>2, <1>5, <1>6, <2>1, <2>2 DEF SocketTable, CollectFree
  <2>5. SocketLists'
    BY <1>2, <1>3, <1>5, <1>7, <2>1, <2>2 DEF Inv, ListsMatchStates, SocketLists
  <2>6. TimerLists' /\ DispatchLists'
    BY <2>2, TimerListsKept, DispatchListsKept DEF Inv, ListsMatchStates, CollectFree
  <2>7. NoDuplicates' /\ EventOK'
    BY <1>2, <2>1 DEF Inv, NoDuplicates, EventOK, CollectFree, worker
  <2> QED BY <2>3, <2>4, <2>5, <2>6, <2>7 DEF Inv, ListsMatchStates
<1>8. CASE i # last
  <2>1. /\ usedSocket' = ReplaceAll(Tail(usedSocket), last, i)
        /\ pending' = ReplaceAll(pending, SocketNode(last), SocketNode(i))
        /\ pollfd' = [pollfd EXCEPT ![i] = pollfd[last]]
        /\ socket' = [socket EXCEPT ![i] = [socket[last] EXCEPT !.nonce = socket[i].nonce],
                                    ![last].state = "Free"]
    BY <1>8 DEF CollectFree, MovedFd, MovedEntry
  <2>2. /\ usedSocket' \in Seq(Sockets) /\ IsInjective(usedSocket')
        /\ ToSet(usedSocket') = IF last \in ToSet(Tail(usedSocket))
                                THEN (ToSet(Tail(usedSocket)) \ {last}) \cup {i}
                                ELSE ToSet(Tail(usedSocket))
    <3> DEFINE t == Tail(usedSocket)
    <3>1. t \in Seq(Sockets) /\ IsInjective(t) /\ i \notin ToSet(t)
      BY <1>2
    <3> HIDE DEF t, last, i
    <3>2. /\ ReplaceAll(t, last, i) \in Seq(Sockets) /\ IsInjective(ReplaceAll(t, last, i))
          /\ ToSet(ReplaceAll(t, last, i)) =
               IF last \in ToSet(t) THEN (ToSet(t) \ {last}) \cup {i} ELSE ToSet(t)
      BY <3>1, <1>2, <1>4, ReplaceAllList
    <3> QED BY <3>2, <2>1 DEF t
  <2>3. /\ pending' \in Seq(Nodes) /\ IsInjective(pending')
        /\ ToSet(pending') = IF SocketNode(last) \in ToSet(pending)
                             THEN (ToSet(pending) \ {SocketNode(last)}) \cup {SocketNode(i)}
                             ELSE ToSet(pending)
    <3> DEFINE a == SocketNode(last)
               b == SocketNode(i)
    <3>1. a \in Nodes /\ b \in Nodes /\ b \notin ToSet(pending)
          /\ pending' = ReplaceAll(pending, a, b)
      BY <1>4, <2>1
    <3> HIDE DEF a, b
    <3>2. /\ pending' \in Seq(Nodes) /\ IsInjective(pending')
          /\ ToSet(pending') = IF a \in ToSet(pending)
                               THEN (ToSet(pending) \ {a}) \cup {b} ELSE ToSet(pending)
      BY <1>1, <3>1, ReplaceAllList
    <3> QED BY <3>2 DEF a, b
  <2>4. /\ Pending("timer")' = Pending("timer")
        /\ Pending("dispatch")' = Pending("dispatch")
        /\ Pending("socket")' = IF last \in Pending("socket")
                                THEN (Pending("socket") \ {last}) \cup {i}
                                ELSE Pending("socket")
    <3> HIDE DEF last, i
    <3>1. last \in Pending("socket") <=> SocketNode(last) \in ToSet(pending)
      BY PendingKinds DEF Inv
    <3>2. ToSet(pending) \subseteq Nodes
      BY PendingKinds DEF Inv
    <3>3. ASSUME NEW kind
          PROVE  OfKind(ToSet(pending) \ {SocketNode(last)}, kind) =
                   IF kind = "socket" THEN Pending(kind) \ {last} ELSE Pending(kind)
      <4>1. SocketNode(last) \in Nodes
        BY <1>4
      <4>2. SocketNode(last).kind = "socket" /\ SocketNode(last).i = last
        BY DEF SocketNode
      <4>3. OfKind(ToSet(pending) \ {SocketNode(last)}, kind) =
              IF SocketNode(last).kind = kind
              THEN OfKind(ToSet(pending), kind) \ {SocketNode(last).i}
              ELSE OfKind(ToSet(pending), kind)
        BY <3>2, <4>1, KindsRemove
      <4> QED BY <4>2, <4>3 DEF Pending
    <3>4. ASSUME NEW kind
          PROVE  OfKind((ToSet(pending) \ {SocketNode(last)}) \cup {SocketNode(i)}, kind) =
                   IF kind = "socket" THEN (Pending(kind) \ {last}) \cup {i} ELSE Pending(kind)
      <4> DEFINE N == ToSet(pending) \ {SocketNode(last)}
      <4>1. SocketNode(i).kind = "socket" /\ SocketNode(i).i = i
        BY DEF SocketNode
      <4>2. OfKind(N \cup {SocketNode(i)}, kind) =
              IF SocketNode(i).kind = kind THEN OfKind(N, kind) \cup {SocketNode(i).i}
                                           ELSE OfKind(N, kind)
        <5> HIDE DEF N
        <5> QED BY DEF OfKind
      <4> QED BY <3>3, <4>1, <4>2
    <3> QED BY <2>3, <3>1, <3>4 DEF Pending
  <2>5. /\ socket' \in [Sockets -> SocketEntry]
        /\ socket'[i].state = socket[last].state /\ socket'[last].state = "Free"
        /\ \A j \in Sockets : j # i /\ j # last => socket'[j].state = socket[j].state
    <3> DEFINE m == [socket[last] EXCEPT !.nonce = socket[i].nonce]
               l == [socket[last] EXCEPT !.state = "Free"]
    <3>1. /\ socket \in [Sockets -> SocketEntry]
          /\ socket[last] \in SocketEntry /\ socket[i] \in SocketEntry
      BY <1>2, <1>4 DEF Inv, TypeOK
    <3>2. m \in SocketEntry /\ m.state = socket[last].state
      BY <3>1 DEF SocketEntry
    <3>3. l \in SocketEntry /\ l.state = "Free"
      BY <3>1 DEF SocketEntry, States
    <3>4. socket' = [socket EXCEPT ![i] = m, ![last] = l]
      BY <1>8, <2>1
    <3> HIDE DEF m, l, i, last
    <3> QED BY <3>1, <3>2, <3>3, <3>4, <1>2, <1>4, <1>8
  <2>6. pollfd' \in [Sockets -> Pollfd]
    BY <1>4, <2>1 DEF Inv, TypeOK
  <2>7. TypeOK'
    BY <1>4, <1>5, <2>2, <2>3, <2>5, <2>6 DEF Inv, TypeOK, CollectFree, worker
  <2>8. SocketTable'
    <3>1. 0 .. last - 1 = (0 .. last) \ {last}
      BY <1>4
    <3> HIDE DEF last, i
    <3>2. /\ ToSet(usedSocket') \cup Pending("socket")' = (0 .. last) \ {last}
          /\ ToSet(usedSocket') \cap Pending("socket")' = {}
      <4>1. last \in 0 .. last /\ i \in 0 .. last
        BY <1>4
      <4> QED BY <4>1, <1>2, <1>4, <1>6, <1>8, <2>2, <2>4
    <3>3. pollSize' = last
      BY DEF CollectFree, last
    <3> QED BY <3>1, <3>2, <3>3, <1>5 DEF SocketTable
  <2>9. SocketLists'
    <3>1. /\ \A j \in ToSet(usedSocket) : socket[j].state \in {"Used", "Free"}
          /\ \A j \in Pending("socket") : socket[j].state # "Free"
          /\ \A j \in ToSet(freeSocket) : socket[j].state = "Free"
      BY DEF Inv, ListsMatchStates, SocketLists
    <3>2. ToSet(usedSocket) \subseteq Sockets /\ Pending("socket") \subseteq Sockets
      BY SocketSets
    <3> HIDE DEF last, i
    <3>3. \A j \in ToSet(usedSocket') : socket'[j].state \in {"Used", "Free"}
      BY <3>1, <3>2, <1>2, <1>8, <2>2, <2>5
    <3>4. \A j \in Pending("socket")' : socket'[j].state # "Free"
      BY <3>1, <3>2, <1>4, <1>8, <2>4, <2>5
    <3>5. \A j \in ToSet(freeSocket') : socket'[j].state = "Free"
      <4>1. \A j \in ToSet(freeSocket) : j # i /\ j # last /\ j \in Sockets
        BY <1>4, <1>5 DEF last
      <4> QED BY <4>1, <3>1, <1>5, <2>5
    <3> QED BY <3>3, <3>4, <3>5 DEF SocketLists
  <2>10. TimerLists' /\ DispatchLists'
    BY <2>4, TimerListsKept, DispatchListsKept DEF Inv, ListsMatchStates, CollectFree
  <2>11. NoDuplicates' /\ EventOK'
    BY <2>2, <2>3 DEF Inv, NoDuplicates, EventOK, CollectFree, worker
  <2> QED BY <2>7, <2>8, <2>9, <2>10, <2>11 DEF Inv, ListsMatchStates
<1> QED BY <1>7, <1>8

LEMMA SetTimerInv ==
  ASSUME NEW d \in Delays, NEW v \in Intervals, NEW h \in Destroys
  PROVE  Inv /\ SetTimer(d, v, h) => Inv'
<1> SUFFICES ASSUME Inv, SetTimer(d, v, h) PROVE Inv'
  OBVIOUS
<1> DEFINE i == Head(freeTimer)
           n == NextNonce(timer[i].nonce)
           p == InsertPosition(usedTimer, timer, now + d)
           u == Len(book) + 1
           e == [nonce |-> n, state |-> "Used", interval |-> v, time |-> now + d,
                 destroy |-> h, u |-> u]
           r == [kind |-> "timer", i |-> i, nonce |-> n, fd |-> WakeupFd,
                 due |-> now + d, interval |-> v, destroy |-> h,
                 cancelled |-> FALSE, ran |-> 0, freed |-> 0]
<1>1. /\ freeTimer \in Seq(Timers) /\ freeTimer # <<>> /\ IsInjective(freeTimer)
      /\ usedTimer \in Seq(Timers) /\ IsInjective(usedTimer)
      /\ timer \in [Timers -> TimerEntry] /\ now \in Nat
      /\ book \in Seq(Registration) /\ Len(book) < MaxReg
  BY DEF Inv, TypeOK, NoDuplicates, SetTimer, MayRegister
<1>2. d \in Int /\ v \in Nat /\ h \in BOOLEAN /\ MaxReg \in Nat
  BY TimeAssumption, CallerAssumption
<1>3. /\ i \in Timers /\ i \in ToSet(freeTimer)
      /\ freeTimer' \in Seq(Timers) /\ IsInjective(freeTimer')
      /\ ToSet(freeTimer) = ToSet(freeTimer') \cup {i} /\ i \notin ToSet(freeTimer')
  BY <1>1, TailList DEF SetTimer
<1>4. timer[i].state = "Free" /\ i \notin ToSet(usedTimer)
  BY <1>3 DEF Inv, ListsMatchStates, TimerLists
<1>5. n \in Nonces /\ u \in Tokens /\ now + d \in Int /\ i \in Nat
  <2>1. timer[i].nonce \in Nonces
    BY <1>1, <1>3 DEF TimerEntry
  <2>2. u \in Tokens
    BY <1>1, <1>2 DEF Tokens
  <2> QED BY <2>1, <2>2, <1>1, <1>2, <1>3, NextNonceType DEF Timers
<1>6. p \in 1 .. Len(usedTimer) + 1
  <2>1. \A j \in Timers : timer[j].time \in Int
    BY <1>1 DEF TimerEntry
  <2> QED BY <2>1, <1>1, <1>5, InsertPositionType
<1>7. /\ timer' = [timer EXCEPT ![i] = e] /\ usedTimer' = InsertAt(usedTimer, p, i)
      /\ book' = Append(book, r) /\ wakeup' = (wakeup \/ ((p = 1) /\ pollTimeout # 0))
  BY DEF SetTimer, WakeIfAsleep
<1>8. e \in TimerEntry /\ e.state = "Used" /\ r \in Registration
  <2>1. e \in TimerEntry /\ e.state = "Used"
    <3> HIDE DEF n, u, i
    <3> QED BY <1>2, <1>5 DEF TimerEntry, States
  <2>2. r \in Registration
    <3> HIDE DEF n, u, i
    <3> QED BY <1>2, <1>5 DEF Registration
  <2> QED BY <2>1, <2>2
<1> HIDE DEF e, r, n, p, u
<1>9. /\ usedTimer' \in Seq(Timers) /\ IsInjective(usedTimer')
      /\ ToSet(usedTimer') = ToSet(usedTimer) \cup {i}
  BY <1>1, <1>3, <1>4, <1>6, <1>7, InsertAtList
<1>10. /\ timer' \in [Timers -> TimerEntry]
       /\ \A j \in Timers : timer'[j].state = IF j = i THEN "Used" ELSE timer[j].state
  <2> HIDE DEF i
  <2> QED BY <1>1, <1>3, <1>7, <1>8
<1>11. book' \in Seq(Registration) /\ Len(book') <= MaxReg
  BY <1>1, <1>2, <1>7, <1>8
<1>12. wakeup' \in BOOLEAN
  BY <1>7
<1>13. Pending("timer")' = Pending("timer") /\ Pending("socket")' = Pending("socket")
       /\ Pending("dispatch")' = Pending("dispatch")
  BY DEF Pending, SetTimer
<1>14. TypeOK'
  BY <1>3, <1>9, <1>10, <1>11, <1>12 DEF Inv, TypeOK, SetTimer, worker
<1>15. TimerLists'
  <2> HIDE DEF i
  <2>1. TimerLists
    BY DEF Inv, ListsMatchStates
  <2> QED BY <2>1, <1>3, <1>4, <1>9, <1>10, <1>13 DEF TimerLists
<1>16. DispatchLists' /\ SocketLists'
  BY <1>13, DispatchListsKept, SocketListsKept DEF Inv, ListsMatchStates, SetTimer
<1>17. SocketTable' /\ NoDuplicates' /\ EventOK'
  BY <1>3, <1>9, <1>13
     DEF Inv, SocketTable, NoDuplicates, EventOK, SetTimer, worker
<1> QED BY <1>14, <1>15, <1>16, <1>17 DEF Inv, ListsMatchStates

LEMMA ClearTimerInv ==
  ASSUME NEW u \in DOMAIN book, NEW b \in BOOLEAN
  PROVE  Inv /\ BookOK /\ ClearTimer(u, b) => Inv'
<1> SUFFICES ASSUME Inv, BookOK, ClearTimer(u, b) PROVE Inv'
  OBVIOUS
<1> DEFINE i == book[u].i
           e == timer[i]
           node == TimerNode(i)
<1>1. /\ freeTimer \in Seq(Timers) /\ IsInjective(freeTimer)
      /\ usedTimer \in Seq(Timers) /\ IsInjective(usedTimer)
      /\ pending \in Seq(Nodes) /\ IsInjective(pending)
      /\ timer \in [Timers -> TimerEntry]
  BY DEF Inv, TypeOK, NoDuplicates
<1>2. i \in Timers /\ e \in TimerEntry
  BY <1>1 DEF BookOK, ClearTimer, TimerMatches
<1>3. book' \in Seq(Registration) /\ Len(book') <= MaxReg
  BY BookUpdate DEF Inv, TypeOK, ClearTimer
<1>4. node \in Nodes /\ node.kind = "timer" /\ node.i = i
  BY <1>2 DEF Nodes, TimerNode
<1> HIDE DEF i, node
<1>5. CASE /\ e.state = "Destroy"
           /\ UNCHANGED <<timer, usedTimer, freeTimer, pending, wakeup>>
  <2>1. UNCHANGED <<entries, pollSize, lists, pollfd, pollTimeout, wakeup, worker,
                    now, sampled>>
    BY <1>5 DEF ClearTimer, entries, lists, worker
  <2>2. ListInv'
    BY <2>1, ListsKept DEF Inv, ListInv
  <2>3. TypeOK'
    BY <1>3, <2>1 DEF Inv, TypeOK, entries, lists, worker
  <2>4. EventOK'
    BY <2>1 DEF Inv, EventOK, worker
  <2> QED BY <2>2, <2>3, <2>4 DEF Inv, ListInv
<1>6. /\ Without(usedTimer, i) \in Seq(Timers) /\ IsInjective(Without(usedTimer, i))
      /\ ToSet(Without(usedTimer, i)) = ToSet(usedTimer) \ {i}
  BY <1>1, <1>2, WithoutList
<1>7. /\ Without(freeTimer, i) \in Seq(Timers) /\ IsInjective(Without(freeTimer, i))
      /\ ToSet(Without(freeTimer, i)) = ToSet(freeTimer) \ {i}
  BY <1>1, <1>2, WithoutList
<1> DEFINE rest == Without(pending, node)
<1>8. /\ rest \in Seq(Nodes) /\ IsInjective(rest)
      /\ node \notin ToSet(rest)
      /\ OfKind(ToSet(rest), "timer") = Pending("timer") \ {i}
      /\ OfKind(ToSet(rest), "socket") = Pending("socket")
      /\ OfKind(ToSet(rest), "dispatch") = Pending("dispatch")
  BY <1>1, <1>4, Unlinked DEF Pending
<1> HIDE DEF rest
<1>9. CASE /\ e.state # "Destroy" /\ ~e.destroy
           /\ timer' = [timer EXCEPT ![i].state = "Free"]
           /\ usedTimer' = Without(usedTimer, i)
           /\ freeTimer' = Append(Without(freeTimer, i), i)
           /\ pending' = rest
           /\ UNCHANGED wakeup
  <2>1. /\ freeTimer' \in Seq(Timers) /\ IsInjective(freeTimer')
        /\ ToSet(freeTimer') = (ToSet(freeTimer) \ {i}) \cup {i}
    <3> DEFINE f == Without(freeTimer, i)
    <3>1. f \in Seq(Timers) /\ IsInjective(f) /\ i \notin ToSet(f)
          /\ freeTimer' = Append(f, i) /\ ToSet(f) = ToSet(freeTimer) \ {i}
      BY <1>7, <1>9
    <3> HIDE DEF f
    <3> QED BY <3>1, <1>2, AppendList
  <2>2. /\ timer' \in [Timers -> TimerEntry]
        /\ \A j \in Timers : timer'[j].state = IF j = i THEN "Free" ELSE timer[j].state
    BY <1>1, <1>2, <1>9, TimerState DEF States
  <2>3. /\ Pending("timer")' = Pending("timer") \ {i}
        /\ Pending("socket")' = Pending("socket")
        /\ Pending("dispatch")' = Pending("dispatch")
    BY <1>8, <1>9 DEF Pending
  <2>4. TypeOK'
    BY <1>3, <1>6, <1>8, <1>9, <2>1, <2>2 DEF Inv, TypeOK, ClearTimer, worker
  <2>5. TimerLists'
    BY <1>2, <1>6, <1>9, <2>1, <2>2, <2>3 DEF Inv, ListsMatchStates, TimerLists
  <2>6. DispatchLists' /\ SocketLists'
    BY <2>3, DispatchListsKept, SocketListsKept DEF Inv, ListsMatchStates, ClearTimer
  <2>7. SocketTable' /\ NoDuplicates' /\ EventOK'
    BY <1>6, <1>8, <1>9, <2>1, <2>3
       DEF Inv, SocketTable, NoDuplicates, EventOK, ClearTimer, worker
  <2> QED BY <2>4, <2>5, <2>6, <2>7 DEF Inv, ListsMatchStates
<1>10. CASE /\ e.state # "Destroy" /\ e.destroy
            /\ timer' = [timer EXCEPT ![i].state = "Destroy"]
            /\ usedTimer' = Without(usedTimer, i)
            /\ freeTimer' = Without(freeTimer, i)
            /\ pending' = Append(rest, node)
            /\ WakeIfAsleep(TRUE)
  <2>1. /\ pending' \in Seq(Nodes) /\ IsInjective(pending')
        /\ Pending("timer")' = Pending("timer") \cup {i}
        /\ Pending("socket")' = Pending("socket")
        /\ Pending("dispatch")' = Pending("dispatch")
    <3>1. /\ Append(rest, node) \in Seq(Nodes) /\ IsInjective(Append(rest, node))
          /\ \A kind : OfKind(ToSet(Append(rest, node)), kind) =
               IF node.kind = kind THEN OfKind(ToSet(rest), kind) \cup {node.i}
                                   ELSE OfKind(ToSet(rest), kind)
      BY <1>4, <1>8, Pushed
    <3> QED BY <3>1, <1>4, <1>8, <1>10 DEF Pending
  <2>2. /\ timer' \in [Timers -> TimerEntry]
        /\ \A j \in Timers : timer'[j].state = IF j = i THEN "Destroy" ELSE timer[j].state
    BY <1>1, <1>2, <1>10, TimerState DEF States
  <2>3. wakeup' \in BOOLEAN
    BY <1>10 DEF WakeIfAsleep
  <2>4. TypeOK'
    BY <1>3, <1>6, <1>7, <1>10, <2>1, <2>2, <2>3 DEF Inv, TypeOK, ClearTimer, worker
  <2>5. TimerLists'
    BY <1>2, <1>6, <1>7, <1>10, <2>1, <2>2 DEF Inv, ListsMatchStates, TimerLists
  <2>6. DispatchLists' /\ SocketLists'
    BY <2>1, DispatchListsKept, SocketListsKept DEF Inv, ListsMatchStates, ClearTimer
  <2>7. SocketTable' /\ NoDuplicates' /\ EventOK'
    BY <1>6, <1>7, <1>10, <2>1
       DEF Inv, SocketTable, NoDuplicates, EventOK, ClearTimer, worker
  <2> QED BY <2>4, <2>5, <2>6, <2>7 DEF Inv, ListsMatchStates
<1> QED BY <1>5, <1>9, <1>10 DEF ClearTimer, i, node, rest

LEMMA AddSocketInv ==
  ASSUME NEW fd \in Fds, NEW h \in Destroys
  PROVE  Inv /\ AddSocket(fd, h) => Inv'
<1> SUFFICES ASSUME Inv, AddSocket(fd, h) PROVE Inv'
  OBVIOUS
<1> DEFINE i == Head(freeSocket)
           n == NextNonce(socket[i].nonce)
           u == Len(book) + 1
           e == [nonce |-> n, state |-> "Used", destroy |-> h, u |-> u]
           q == [fd |-> fd, events |-> FALSE, revents |-> FALSE]
           r == [kind |-> "socket", i |-> i, nonce |-> n, fd |-> fd, due |-> 0,
                 interval |-> 0, destroy |-> h, cancelled |-> FALSE,
                 ran |-> 0, freed |-> 0]
           node == SocketNode(i)
<1>1. /\ freeSocket \in Seq(Sockets) /\ freeSocket # <<>>
      /\ usedSocket \in Seq(Sockets) /\ SocketLimit \in Nat
      /\ pending \in Seq(Nodes) /\ IsInjective(pending)
      /\ socket \in [Sockets -> SocketEntry] /\ pollfd \in [Sockets -> Pollfd]
      /\ book \in Seq(Registration) /\ Len(book) < MaxReg
      /\ pollSize \in 1 .. SocketLimit
  BY LimitsAssumption DEF Inv, TypeOK, NoDuplicates, AddSocket, MayRegister
<1>2. h \in BOOLEAN /\ MaxReg \in Nat
  BY CallerAssumption
<1>3. /\ i = pollSize /\ i \in Sockets /\ pollSize + 1 \in 1 .. SocketLimit
      /\ freeSocket' \in Seq(Sockets)
      /\ freeSocket' = [k \in 1 .. SocketLimit - (pollSize + 1) |-> pollSize + 1 + k - 1]
  <2> DEFINE m == SocketLimit - pollSize
  <2>1. m \in Nat /\ Len(freeSocket) = m /\ \A k \in 1 .. m : freeSocket[k] = pollSize + k - 1
    BY <1>1 DEF Inv, SocketTable
  <2>2. m > 0 /\ i = freeSocket[1] /\ i \in Sockets /\ freeSocket' = Tail(freeSocket)
    BY <1>1, <2>1 DEF AddSocket
  <2>3. i = pollSize /\ pollSize + 1 \in 1 .. SocketLimit
    BY <1>1, <2>1, <2>2
  <2>4. /\ freeSocket' \in Seq(Sockets) /\ Len(freeSocket') = m - 1
        /\ \A k \in 1 .. m - 1 : freeSocket'[k] = freeSocket[k + 1]
    BY <1>1, <2>1, <2>2
  <2>5. \A k \in 1 .. m - 1 : freeSocket'[k] = pollSize + 1 + k - 1
    BY <1>1, <2>1, <2>4
  <2>6. freeSocket' = [k \in 1 .. m - 1 |-> pollSize + 1 + k - 1]
    BY <2>4, <2>5
  <2>7. m - 1 = SocketLimit - (pollSize + 1)
    BY <1>1
  <2> QED BY <2>2, <2>3, <2>4, <2>6, <2>7
<1>4. /\ i \notin Pending("socket") /\ i \notin ToSet(usedSocket)
      /\ node \in Nodes /\ node \notin ToSet(pending)
      /\ node.kind = "socket" /\ node.i = i
  <2>1. i \notin 0 .. pollSize - 1
    BY <1>1, <1>3
  <2>2. i \notin Pending("socket") /\ i \notin ToSet(usedSocket)
    BY <2>1 DEF Inv, SocketTable
  <2> QED BY <1>3, <2>2, PendingKinds DEF Inv, Nodes, SocketNode
<1>5. n \in Nonces /\ u \in Tokens /\ i \in Nat
  <2>1. socket[i].nonce \in Nonces
    BY <1>1, <1>3 DEF SocketEntry
  <2>2. u \in Tokens
    BY <1>1, <1>2 DEF Tokens
  <2> QED BY <2>1, <2>2, <1>1, <1>3, NextNonceType
<1>6. /\ socket' = [socket EXCEPT ![i] = e] /\ pending' = Append(pending, node)
      /\ book' = Append(book, r) /\ pollfd' = [pollfd EXCEPT ![pollSize] = q]
      /\ wakeup' = (wakeup \/ (TRUE /\ pollTimeout # 0)) /\ pollSize' = pollSize + 1
  BY DEF AddSocket, WakeIfAsleep
<1>7. /\ e \in SocketEntry /\ e.state = "Used" /\ r \in Registration /\ q \in Pollfd
  <2> HIDE DEF n, u, i
  <2>1. e \in SocketEntry /\ e.state = "Used"
    BY <1>2, <1>5 DEF SocketEntry, States
  <2>2. r \in Registration
    BY <1>2, <1>5 DEF Registration
  <2>3. q \in Pollfd
    BY Zenon DEF Pollfd
  <2> QED BY <2>1, <2>2, <2>3
<1> HIDE DEF e, r, n, u, q, node, i
<1>8. /\ pending' \in Seq(Nodes) /\ IsInjective(pending')
      /\ Pending("timer")' = Pending("timer")
      /\ Pending("socket")' = Pending("socket") \cup {i}
      /\ Pending("dispatch")' = Pending("dispatch")
  <2>1. /\ Append(pending, node) \in Seq(Nodes) /\ IsInjective(Append(pending, node))
        /\ \A kind : OfKind(ToSet(Append(pending, node)), kind) =
             IF node.kind = kind THEN OfKind(ToSet(pending), kind) \cup {node.i}
                                 ELSE OfKind(ToSet(pending), kind)
    BY <1>1, <1>4, Pushed
  <2> QED BY <2>1, <1>4, <1>6 DEF Pending
<1>9. /\ socket' \in [Sockets -> SocketEntry]
      /\ \A j \in Sockets : socket'[j].state = IF j = i THEN "Used" ELSE socket[j].state
  BY <1>1, <1>3, <1>6, <1>7
<1>10. pollfd' \in [Sockets -> Pollfd]
  BY <1>1, <1>3, <1>6, <1>7
<1>11. book' \in Seq(Registration) /\ Len(book') <= MaxReg
  BY <1>1, <1>2, <1>6, <1>7
<1>12. wakeup' \in BOOLEAN
  BY <1>6
<1>13. TypeOK'
  BY <1>3, <1>6, <1>8, <1>9, <1>10, <1>11, <1>12 DEF Inv, TypeOK, AddSocket, worker
<1>14. SocketTable'
  <2>1. 0 .. pollSize' - 1 = (0 .. pollSize - 1) \cup {i}
    BY <1>1, <1>3, <1>6
  <2>2. usedSocket' = usedSocket
    BY DEF AddSocket
  <2> QED BY <2>1, <2>2, <1>3, <1>4, <1>6, <1>8 DEF Inv, SocketTable
<1>15. SocketLists'
  <2>1. /\ ToSet(usedSocket) \subseteq Sockets /\ Pending("socket") \subseteq Sockets
        /\ ToSet(freeSocket) \subseteq Sockets
    BY SocketSets
  <2>2. \A j \in ToSet(freeSocket') : j \in ToSet(freeSocket) /\ j # i
    <3>1. ToSet(freeSocket') \subseteq ToSet(freeSocket)
      BY <1>1, TailList DEF AddSocket
    <3>2. \A j \in ToSet(freeSocket') : j # i
      BY <1>1, <1>3 DEF ToSet
    <3> QED BY <3>1, <3>2
  <2>3. SocketLists /\ usedSocket' = usedSocket
    BY DEF Inv, ListsMatchStates, AddSocket
  <2>4. \A j \in ToSet(usedSocket') : socket'[j].state \in {"Used", "Free"}
    BY <2>1, <2>3, <1>4, <1>9 DEF SocketLists
  <2>5. \A j \in Pending("socket")' : socket'[j].state # "Free"
    <3>1. \A j \in Pending("socket") : socket'[j].state # "Free"
      BY <2>1, <2>3, <1>4, <1>9 DEF SocketLists
    <3>2. socket'[i].state # "Free"
      BY <1>3, <1>9
    <3> QED BY <3>1, <3>2, <1>8
  <2>6. \A j \in ToSet(freeSocket') : socket'[j].state = "Free"
    BY <2>1, <2>2, <2>3, <1>9 DEF SocketLists
  <2> QED BY <2>4, <2>5, <2>6 DEF SocketLists
<1>16. TimerLists' /\ DispatchLists'
  BY <1>8, TimerListsKept, DispatchListsKept DEF Inv, ListsMatchStates, AddSocket
<1>17. NoDuplicates' /\ EventOK'
  BY <1>8 DEF Inv, NoDuplicates, EventOK, AddSocket, worker
<1> QED BY <1>13, <1>14, <1>15, <1>16, <1>17 DEF Inv, ListsMatchStates

LEMMA RemoveSocketInv ==
  ASSUME NEW fd \in Fds
  PROVE  Inv /\ RemoveSocket(fd) => Inv'
<1> SUFFICES ASSUME Inv, RemoveSocket(fd) PROVE Inv'
  OBVIOUS
<1>1. PICK i \in Sockets :
        /\ FirstWith(fd, i) /\ socket[i].state \notin {"Destroy", "Free"}
        /\ \/ /\ ~socket[i].destroy
              /\ socket' = [socket EXCEPT ![i].state = "Free"]
              /\ usedSocket' = Append(Without(usedSocket, i), i)
              /\ pending' = Without(pending, SocketNode(i))
              /\ UNCHANGED wakeup
           \/ /\ socket[i].destroy
              /\ socket' = [socket EXCEPT ![i].state = "Destroy"]
              /\ usedSocket' = Without(usedSocket, i)
              /\ pending' = Append(Without(pending, SocketNode(i)), SocketNode(i))
              /\ WakeIfAsleep(TRUE)
        /\ book' = IF socket[i].u = 0 THEN book
                   ELSE [book EXCEPT ![socket[i].u].cancelled = TRUE]
  BY DEF RemoveSocket
<1> DEFINE node == SocketNode(i)
           used == Without(usedSocket, i)
           rest == Without(pending, node)
<1>2. /\ usedSocket \in Seq(Sockets) /\ IsInjective(usedSocket)
      /\ pending \in Seq(Nodes) /\ IsInjective(pending)
      /\ socket \in [Sockets -> SocketEntry]
      /\ book \in Seq(Registration) /\ Len(book) <= MaxReg
  BY DEF Inv, TypeOK, NoDuplicates
<1>3. book' \in Seq(Registration) /\ Len(book') <= MaxReg
  BY <1>1, <1>2, BookUpdate
<1>4. node \in Nodes /\ node.kind = "socket" /\ node.i = i
  BY DEF Nodes, SocketNode
<1>5. /\ i \in ToSet(usedSocket) \cup Pending("socket") /\ i \notin ToSet(freeSocket)
      /\ ToSet(usedSocket) \subseteq Sockets /\ ToSet(freeSocket) \subseteq Sockets
      /\ Pending("socket") \subseteq Sockets
  <2>1. i \in 0 .. pollSize - 1
    BY <1>1 DEF Inv, TypeOK, FirstWith, Sockets
  <2> QED BY <2>1, <1>1, SocketSets DEF Inv, SocketTable, ListsMatchStates, SocketLists
<1>6. used \in Seq(Sockets) /\ IsInjective(used) /\ ToSet(used) = ToSet(usedSocket) \ {i}
  BY <1>2, WithoutList
<1> HIDE DEF node, used
<1>7. /\ rest \in Seq(Nodes) /\ IsInjective(rest) /\ node \notin ToSet(rest)
      /\ OfKind(ToSet(rest), "timer") = Pending("timer")
      /\ OfKind(ToSet(rest), "socket") = Pending("socket") \ {i}
      /\ OfKind(ToSet(rest), "dispatch") = Pending("dispatch")
  BY <1>2, <1>4, Unlinked DEF Pending
<1> HIDE DEF rest
<1>8. CASE /\ ~socket[i].destroy
           /\ socket' = [socket EXCEPT ![i].state = "Free"]
           /\ usedSocket' = Append(used, i)
           /\ pending' = rest
           /\ UNCHANGED wakeup
  <2>1. /\ usedSocket' \in Seq(Sockets) /\ IsInjective(usedSocket')
        /\ ToSet(usedSocket') = (ToSet(usedSocket) \ {i}) \cup {i}
    BY <1>6, <1>8, AppendList
  <2>2. /\ socket' \in [Sockets -> SocketEntry]
        /\ \A j \in Sockets : socket'[j].state = IF j = i THEN "Free" ELSE socket[j].state
    BY <1>2, <1>8, SocketState DEF States
  <2>3. /\ Pending("timer")' = Pending("timer")
        /\ Pending("socket")' = Pending("socket") \ {i}
        /\ Pending("dispatch")' = Pending("dispatch")
    BY <1>7, <1>8 DEF Pending
  <2>4. TypeOK'
    BY <1>3, <1>7, <1>8, <2>1, <2>2 DEF Inv, TypeOK, RemoveSocket, worker
  <2>5. SocketTable'
    BY <1>5, <2>1, <2>3 DEF Inv, SocketTable, RemoveSocket
  <2>6. SocketLists'
    BY <1>5, <2>1, <2>2, <2>3 DEF Inv, ListsMatchStates, SocketLists, RemoveSocket
  <2>7. TimerLists' /\ DispatchLists'
    BY <2>3, TimerListsKept, DispatchListsKept DEF Inv, ListsMatchStates, RemoveSocket
  <2>8. NoDuplicates' /\ EventOK'
    BY <1>7, <1>8, <2>1 DEF Inv, NoDuplicates, EventOK, RemoveSocket, worker
  <2> QED BY <2>4, <2>5, <2>6, <2>7, <2>8 DEF Inv, ListsMatchStates
<1>9. CASE /\ socket[i].destroy
           /\ socket' = [socket EXCEPT ![i].state = "Destroy"]
           /\ usedSocket' = used
           /\ pending' = Append(rest, node)
           /\ WakeIfAsleep(TRUE)
  <2>1. /\ pending' \in Seq(Nodes) /\ IsInjective(pending')
        /\ Pending("timer")' = Pending("timer")
        /\ Pending("socket")' = Pending("socket") \cup {i}
        /\ Pending("dispatch")' = Pending("dispatch")
    <3>1. /\ Append(rest, node) \in Seq(Nodes) /\ IsInjective(Append(rest, node))
          /\ \A kind : OfKind(ToSet(Append(rest, node)), kind) =
               IF node.kind = kind THEN OfKind(ToSet(rest), kind) \cup {node.i}
                                   ELSE OfKind(ToSet(rest), kind)
      BY <1>4, <1>7, Pushed
    <3> QED BY <3>1, <1>4, <1>7, <1>9 DEF Pending
  <2>2. /\ socket' \in [Sockets -> SocketEntry]
        /\ \A j \in Sockets : socket'[j].state = IF j = i THEN "Destroy" ELSE socket[j].state
    BY <1>2, <1>9, SocketState DEF States
  <2>3. wakeup' \in BOOLEAN
    BY <1>9 DEF WakeIfAsleep
  <2>4. TypeOK'
    BY <1>3, <1>6, <1>9, <2>1, <2>2, <2>3 DEF Inv, TypeOK, RemoveSocket, worker
  <2>5. SocketTable'
    BY <1>5, <1>6, <1>9, <2>1 DEF Inv, SocketTable, RemoveSocket
  <2>6. SocketLists'
    BY <1>5, <1>6, <1>9, <2>1, <2>2
       DEF Inv, ListsMatchStates, SocketLists, RemoveSocket
  <2>7. TimerLists' /\ DispatchLists'
    BY <2>1, TimerListsKept, DispatchListsKept DEF Inv, ListsMatchStates, RemoveSocket
  <2>8. NoDuplicates' /\ EventOK'
    BY <1>6, <1>9, <2>1 DEF Inv, NoDuplicates, EventOK, RemoveSocket, worker
  <2> QED BY <2>4, <2>5, <2>6, <2>7, <2>8 DEF Inv, ListsMatchStates
<1> QED BY <1>1, <1>8, <1>9 DEF used, rest, node

LEMMA DispatchInv ==
  ASSUME NEW h \in Destroys
  PROVE  Inv /\ Dispatch(h) => Inv'
<1> SUFFICES ASSUME Inv, Dispatch(h) PROVE Inv'
  OBVIOUS
<1> DEFINE i == Head(freeDispatch)
           n == NextNonce(dispatched[i].nonce)
           u == Len(book) + 1
           e == [nonce |-> n, state |-> "Used", destroy |-> h, u |-> u]
           r == [kind |-> "dispatch", i |-> i, nonce |-> n, fd |-> WakeupFd, due |-> 0,
                 interval |-> 0, destroy |-> h, cancelled |-> FALSE,
                 ran |-> 0, freed |-> 0]
           node == DispatchNode(i)
<1>1. /\ freeDispatch \in Seq(Dispatches) /\ freeDispatch # <<>>
      /\ IsInjective(freeDispatch)
      /\ pending \in Seq(Nodes) /\ IsInjective(pending)
      /\ dispatched \in [Dispatches -> DispatchEntry]
      /\ book \in Seq(Registration) /\ Len(book) < MaxReg
  BY DEF Inv, TypeOK, NoDuplicates, Dispatch, MayRegister
<1>2. h \in BOOLEAN /\ MaxReg \in Nat
  BY CallerAssumption
<1>3. /\ i \in Dispatches /\ i \in ToSet(freeDispatch)
      /\ freeDispatch' \in Seq(Dispatches) /\ IsInjective(freeDispatch')
      /\ ToSet(freeDispatch) = ToSet(freeDispatch') \cup {i}
      /\ i \notin ToSet(freeDispatch')
  BY <1>1, TailList DEF Dispatch
<1>4. /\ i \notin Pending("dispatch") /\ dispatched[i].state = "Free"
      /\ node \in Nodes /\ node \notin ToSet(pending)
      /\ node.kind = "dispatch" /\ node.i = i
  <2>1. i \notin Pending("dispatch") /\ dispatched[i].state = "Free"
    BY <1>3 DEF Inv, ListsMatchStates, DispatchLists
  <2> QED BY <1>3, <2>1, PendingKinds DEF Inv, Nodes, DispatchNode
<1>5. n \in Nonces /\ u \in Tokens /\ i \in Nat
  <2>1. dispatched[i].nonce \in Nonces
    BY <1>1, <1>3 DEF DispatchEntry, SocketEntry
  <2>2. u \in Tokens
    BY <1>1, <1>2 DEF Tokens
  <2> QED BY <2>1, <2>2, <1>1, <1>3, NextNonceType DEF Dispatches
<1>6. /\ dispatched' = [dispatched EXCEPT ![i] = e] /\ pending' = Append(pending, node)
      /\ book' = Append(book, r)
      /\ wakeup' = (wakeup \/ (TRUE /\ pollTimeout # 0))
  BY DEF Dispatch, WakeIfAsleep
<1>7. /\ e \in DispatchEntry /\ e.state = "Used" /\ r \in Registration
  <2> HIDE DEF n, u, i
  <2>1. e \in DispatchEntry /\ e.state = "Used"
    BY <1>2, <1>5 DEF DispatchEntry, SocketEntry, States
  <2>2. r \in Registration
    BY <1>2, <1>5 DEF Registration
  <2> QED BY <2>1, <2>2
<1> HIDE DEF e, r, n, u, node, i
<1>8. /\ pending' \in Seq(Nodes) /\ IsInjective(pending')
      /\ Pending("timer")' = Pending("timer")
      /\ Pending("socket")' = Pending("socket")
      /\ Pending("dispatch")' = Pending("dispatch") \cup {i}
  <2>1. /\ Append(pending, node) \in Seq(Nodes) /\ IsInjective(Append(pending, node))
        /\ \A kind : OfKind(ToSet(Append(pending, node)), kind) =
             IF node.kind = kind THEN OfKind(ToSet(pending), kind) \cup {node.i}
                                 ELSE OfKind(ToSet(pending), kind)
    BY <1>1, <1>4, Pushed
  <2> QED BY <2>1, <1>4, <1>6 DEF Pending
<1>9. /\ dispatched' \in [Dispatches -> DispatchEntry]
      /\ \A j \in Dispatches :
           dispatched'[j].state = IF j = i THEN "Used" ELSE dispatched[j].state
  BY <1>1, <1>3, <1>6, <1>7
<1>10. book' \in Seq(Registration) /\ Len(book') <= MaxReg
  BY <1>1, <1>2, <1>6, <1>7
<1>11. wakeup' \in BOOLEAN
  BY <1>6
<1>12. TypeOK'
  BY <1>3, <1>8, <1>9, <1>10, <1>11 DEF Inv, TypeOK, Dispatch, worker
<1>13. DispatchLists'
  BY <1>3, <1>4, <1>8, <1>9 DEF Inv, ListsMatchStates, DispatchLists
<1>14. TimerLists' /\ SocketLists'
  BY <1>8, TimerListsKept, SocketListsKept DEF Inv, ListsMatchStates, Dispatch
<1>15. SocketTable' /\ NoDuplicates' /\ EventOK'
  BY <1>3, <1>8 DEF Inv, SocketTable, NoDuplicates, EventOK, Dispatch, worker
<1> QED BY <1>12, <1>13, <1>14, <1>15 DEF Inv, ListsMatchStates

(* The steps that leave entries and lists alone. *)
Elsewhere ==
  \/ StartDrain \/ StartCollect \/ NoEventLeft \/ Call \/ Return
  \/ PollEnter \/ PollWoken \/ PollReady \/ Wakeup \/ Stop \/ Destroy \/ Tick

LEMMA ElsewhereType == Inv /\ Elsewhere => TypeOK' /\ EventOK'
<1> SUFFICES ASSUME Inv, Elsewhere PROVE TypeOK' /\ EventOK'
  OBVIOUS
<1>0. TypeOK /\ EventOK
  BY DEF Inv
<1>1. CASE StartDrain
  <2>1. pollTimeout' \in Int
    <3>1. CASE usedTimer = <<>> /\ pollTimeout' = -1
      BY <3>1
    <3>2. CASE usedTimer # <<>> /\ pollTimeout' = timer[Head(usedTimer)].time - now
      <4>1. Head(usedTimer) \in Timers
        BY <3>2, <1>0 DEF TypeOK
      <4>2. timer[Head(usedTimer)] \in TimerEntry /\ now \in Int
        BY ONLY <4>1, <1>0 DEF TypeOK
      <4>3. timer[Head(usedTimer)].time \in Int
        BY ONLY <4>2 DEF TimerEntry
      <4> QED BY ONLY <3>2, <4>2, <4>3
    <3> QED BY <3>1, <3>2, <1>1 DEF StartDrain
  <2> QED BY <2>1, <1>0, <1>1 DEF TypeOK, EventOK, StartDrain, entries, lists
<1>2. CASE StartCollect
  BY <1>0, <1>2 DEF TypeOK, EventOK, StartCollect, entries, lists
<1>3. CASE NoEventLeft
  BY <1>0, <1>3 DEF TypeOK, EventOK, NoEventLeft, entries, lists
<1>4. CASE Call
  <2>1. UserdataOf(cur) \in Tokens
    BY <1>0, <1>4 DEF Call, TypeOK, EventOK, UserdataOf, TimerEntry, SocketEntry, DispatchEntry
  <2>2. cur' \in [event : EventNames, i : Nat, u : Tokens]
        /\ cur'.event = cur.event /\ cur'.i = cur.i
    BY <2>1, <1>0, <1>4 DEF Call, TypeOK
  <2>3. book' \in Seq(Registration) /\ Len(book') <= MaxReg
    BY <1>0, <1>4, BookUpdate DEF Call, TypeOK
  <2> QED BY <2>2, <2>3, <1>0, <1>4 DEF TypeOK, EventOK, Call, entries, lists
<1>5. CASE Return
  <2>1. pollfd' \in [Sockets -> Pollfd]
    <3>1. CASE cur.event = "socketAction"
      <4>1. PICK events \in EventsAsked(cur.i) :
              pollfd' = [pollfd EXCEPT ![cur.i].events = events]
        BY <1>5, <3>1 DEF Return
      <4>2. events \in BOOLEAN
        BY DEF EventsAsked
      <4> QED BY <4>1, <4>2, <1>0, PollfdField DEF TypeOK
    <3>2. CASE cur.event # "socketAction"
      BY <1>0, <1>5, <3>2 DEF Return, TypeOK
    <3> QED BY <3>1, <3>2
  <2>2. wakeup' \in BOOLEAN
    BY <1>5 DEF Return
  <2>3. cur' \in [event : EventNames, i : Nat, u : Tokens]
    BY <1>5, CallerAssumption DEF Return, NoEvent, EventNames, Tokens
  <2> QED BY <2>1, <2>2, <2>3, <1>0, <1>5 DEF TypeOK, EventOK, Return, entries, lists
<1>6. CASE PollEnter
  <2>1. deadline' \in Int
    <3>1. pollTimeout \in Int /\ PollCap \in Int /\ now \in Int
      BY <1>0, TimeAssumption DEF TypeOK
    <3> QED BY <3>1, <1>6 DEF PollEnter
  <2>2. polled' \in 0 .. SocketLimit
    BY <1>0, <1>6 DEF PollEnter, TypeOK
  <2> QED BY <2>1, <2>2, <1>0, <1>6 DEF TypeOK, EventOK, PollEnter, entries, lists
<1>7. CASE PollWoken \/ PollReady
  <2>1. PICK ready \in SUBSET (1 .. polled - 1) : PollReturn(ready)
    BY <1>7 DEF PollWoken, PollReady
  <2>2. pollfd' \in [Sockets -> Pollfd]
    <3>1. ASSUME NEW r \in Pollfd, NEW b \in BOOLEAN
          PROVE  [r EXCEPT !.revents = b] \in Pollfd
      BY <3>1, Zenon DEF Pollfd
    <3>2. \A i \in Sockets : (i \in ready \/ (i = 0 /\ WakeupSeen)) \in BOOLEAN
      OBVIOUS
    <3>3. pollfd \in [Sockets -> Pollfd]
      BY <1>0 DEF TypeOK
    <3>4. \A i \in Sockets :
            [pollfd[i] EXCEPT !.revents = (i \in ready \/ (i = 0 /\ WakeupSeen))] \in Pollfd
      BY <3>1, <3>2, <3>3
    <3> HIDE DEF WakeupSeen
    <3>5. pollfd' = [i \in Sockets |->
            IF i >= polled THEN pollfd[i]
            ELSE [pollfd[i] EXCEPT !.revents = (i \in ready \/ (i = 0 /\ WakeupSeen))]]
      BY <2>1 DEF PollReturn
    <3> QED BY <3>3, <3>4, <3>5, Zenon
  <2>3. pollTimeout' \in Int
    BY <1>0, <2>1 DEF TypeOK, PollReturn
  <2>4. polled' \in 0 .. SocketLimit
    <3>1. polled' = 0 /\ SocketLimit \in Nat
      BY <2>1, LimitsAssumption DEF PollReturn
    <3> QED BY ONLY <3>1
  <2> QED BY <2>1, <2>2, <2>3, <2>4, <1>0 DEF TypeOK, EventOK, PollReturn, entries, lists
<1>8. CASE Wakeup
  BY <1>0, <1>8 DEF TypeOK, EventOK, Wakeup, entries, lists, worker
<1>9. CASE Stop
  BY <1>0, <1>9 DEF TypeOK, EventOK, Stop, entries, lists
<1>10. CASE Destroy
  <2>1. book' \in Seq(Registration) /\ Len(book') = Len(book)
    <3>1. \A u \in DOMAIN book : DestroyCalls(u) \in Nat
      BY <1>0 DEF TypeOK, DestroyCalls
    <3>2. book \in Seq(Registration)
      BY <1>0 DEF TypeOK
    <3> DEFINE n(u) == IF book[u].freed + DestroyCalls(u) < 3
                       THEN book[u].freed + DestroyCalls(u) ELSE 3
    <3>3. \A u \in DOMAIN book : book[u] \in Registration /\ n(u) \in 0 .. 3
      <4> SUFFICES ASSUME NEW u \in DOMAIN book
                   PROVE  book[u] \in Registration /\ n(u) \in 0 .. 3
        OBVIOUS
      <4>1. book[u] \in Registration
        BY <3>2
      <4>2. book[u].freed \in 0 .. 3 /\ DestroyCalls(u) \in Nat
        BY <4>1, <3>1 DEF Registration
      <4> HIDE DEF DestroyCalls
      <4> QED BY <4>1, <4>2
    <3>4. book' = [u \in DOMAIN book |-> [book[u] EXCEPT !.freed = n(u)]]
      BY <1>10 DEF Destroy
    <3> HIDE DEF n
    <3>5. ASSUME NEW r \in Registration, NEW m \in 0 .. 3
          PROVE  [r EXCEPT !.freed = m] \in Registration
      BY <3>5, Zenon DEF Registration
    <3>6. \A u \in DOMAIN book : [book[u] EXCEPT !.freed = n(u)] \in Registration
      BY <3>3, <3>5
    <3>7. DOMAIN book = 1 .. Len(book) /\ Len(book) \in Nat
      BY <3>2
    <3>8. book' \in [1 .. Len(book) -> Registration]
      BY <3>4, <3>6, <3>7, Zenon
    <3> QED BY <3>7, <3>8
  <2> QED BY <2>1, <1>0, <1>10 DEF TypeOK, EventOK, Destroy, entries, lists
<1>11. CASE Tick
  BY <1>0, <1>11 DEF TypeOK, EventOK, Tick, entries, lists, worker
<1> QED BY <1>1, <1>2, <1>3, <1>4, <1>5, <1>6, <1>7, <1>8, <1>9, <1>10, <1>11 DEF Elsewhere

LEMMA ElsewhereInv == Inv /\ Elsewhere => Inv'
<1> SUFFICES ASSUME Inv, Elsewhere PROVE Inv'
  OBVIOUS
<1>1. UNCHANGED <<entries, pollSize, lists>>
  BY DEF Elsewhere, StartDrain, StartCollect, NoEventLeft, Call, Return, PollEnter,
         PollWoken, PollReady, PollReturn, Wakeup, Stop, Destroy, Tick
<1>2. ListInv'
  BY <1>1, ListsKept DEF Inv, ListInv
<1> QED BY <1>2, ElsewhereType DEF Inv, ListInv

LEMMA NextInv == Inv /\ WakeupEntry /\ BookOK /\ [Next]_vars => Inv'
<1> SUFFICES ASSUME Inv, WakeupEntry, BookOK, [Next]_vars PROVE Inv'
  OBVIOUS
<1>1. CASE NextEvent
  BY <1>1, FireTimerInv, DrainTimerActionInv, DrainTimerDestroyInv, DrainSocketUsedInv,
     DrainSocketActionInv, DrainSocketDestroyInv, DrainDispatchUsedInv,
     DrainDispatchActionInv, DrainDispatchDoneInv, CollectUsedInv, CollectFreeInv,
     ElsewhereInv DEF NextEvent, Elsewhere
<1>2. CASE Callers
  BY <1>2, SetTimerInv, ClearTimerInv, AddSocketInv, RemoveSocketInv, DispatchInv,
     ElsewhereInv DEF Callers, Elsewhere
<1>3. CASE Elsewhere
  BY <1>3, ElsewhereInv
<1>4. CASE UNCHANGED vars
  <2>1. UNCHANGED <<entries, pollSize, lists>>
    BY <1>4 DEF vars, entries, lists
  <2>2. ListInv'
    BY <2>1, ListsKept DEF Inv, ListInv
  <2> QED BY <1>4, <2>2 DEF Inv, ListInv, TypeOK, EventOK, vars
<1> QED BY <1>1, <1>2, <1>3, <1>4 DEF Next, Worker, Elsewhere

(* A registration never changes its kind or its entry. *)
LEMMA BookKept ==
  ASSUME BookOK, book \in Seq(Registration),
         Len(book') = Len(book), book' \in Seq(Registration),
         \A u \in 1 .. Len(book) : book'[u].kind = book[u].kind /\ book'[u].i = book[u].i
  PROVE  BookOK'
BY DEF BookOK

LEMMA BookAppended ==
  ASSUME BookOK, book \in Seq(Registration), NEW r,
         r.kind = "timer" => r.i \in Timers, book' = Append(book, r)
  PROVE  BookOK'
BY DEF BookOK

LEMMA NextBook == Inv /\ Inv' /\ BookOK /\ [Next]_vars => BookOK'
<1> SUFFICES ASSUME Inv, Inv', BookOK, [Next]_vars PROVE BookOK'
  OBVIOUS
<1>0. book \in Seq(Registration) /\ book' \in Seq(Registration)
  BY DEF Inv, TypeOK
<1>1. ASSUME NEW d \in Delays, NEW v \in Intervals, NEW h \in Destroys, SetTimer(d, v, h)
      PROVE  BookOK'
  <2>1. Head(freeTimer) \in Timers
    BY <1>1 DEF Inv, TypeOK, SetTimer
  <2> QED BY <2>1, <1>0, <1>1, BookAppended DEF SetTimer
<1>2. ASSUME NEW fd \in Fds, NEW h \in Destroys, AddSocket(fd, h) PROVE BookOK'
  BY <1>0, <1>2, BookAppended DEF AddSocket
<1>3. ASSUME NEW h \in Destroys, Dispatch(h) PROVE BookOK'
  BY <1>0, <1>3, BookAppended DEF Dispatch
<1>4. ASSUME NEW u, book' = [book EXCEPT ![u].cancelled = TRUE] \/ book' = Ran(u)
                             \/ book' = Freed(u) \/ book' = book
      PROVE  BookOK'
  <2>1. Len(book') = Len(book)
    <3>1. /\ Len([book EXCEPT ![u].cancelled = TRUE]) = Len(book)
          /\ Len(Ran(u)) = Len(book) /\ Len(Freed(u)) = Len(book)
      BY <1>0, BookUpdate
    <3> HIDE DEF Ran, Freed
    <3> QED BY <3>1, <1>4
  <2>2. ASSUME NEW w \in 1 .. Len(book)
        PROVE  book'[w].kind = book[w].kind /\ book'[w].i = book[w].i
    <3>1. book[w] \in Registration /\ DOMAIN book = 1 .. Len(book)
      BY <1>0
    <3>2. ASSUME NEW r \in Registration, NEW x
          PROVE  /\ [r EXCEPT !.cancelled = x].kind = r.kind
                 /\ [r EXCEPT !.cancelled = x].i = r.i
                 /\ [r EXCEPT !.ran = x].kind = r.kind /\ [r EXCEPT !.ran = x].i = r.i
                 /\ [r EXCEPT !.freed = x].kind = r.kind /\ [r EXCEPT !.freed = x].i = r.i
      BY Zenon DEF Registration
    <3>3. /\ [book[w] EXCEPT !.cancelled = TRUE].kind = book[w].kind
          /\ [book[w] EXCEPT !.cancelled = TRUE].i = book[w].i
          /\ [book[w] EXCEPT !.ran = Bump(book[w].ran)].kind = book[w].kind
          /\ [book[w] EXCEPT !.ran = Bump(book[w].ran)].i = book[w].i
          /\ [book[w] EXCEPT !.freed = Bump(book[w].freed)].kind = book[w].kind
          /\ [book[w] EXCEPT !.freed = Bump(book[w].freed)].i = book[w].i
      BY <3>1, <3>2
    <3> HIDE DEF Bump, Registration
    <3>4. CASE book' = [book EXCEPT ![u].cancelled = TRUE]
      <4>1. book'[w] = book[w] \/ book'[w] = [book[w] EXCEPT !.cancelled = TRUE]
        BY <3>1, <3>4
      <4> QED BY <3>3, <4>1, Zenon
    <3>5. CASE book' = Ran(u)
      <4>1. book'[w] = book[w] \/ book'[w] = [book[w] EXCEPT !.ran = Bump(book[w].ran)]
        BY <3>1, <3>5 DEF Ran
      <4> QED BY <3>3, <4>1, Zenon
    <3>6. CASE book' = Freed(u)
      <4>1. book'[w] = book[w] \/ book'[w] = [book[w] EXCEPT !.freed = Bump(book[w].freed)]
        BY <3>1, <3>6 DEF Freed
      <4> QED BY <3>3, <4>1, Zenon
    <3> QED BY <3>4, <3>5, <3>6, <1>4
  <2> QED BY <2>1, <2>2, <1>0, BookKept
<1>5. ASSUME NEW u \in DOMAIN book, NEW b \in BOOLEAN, ClearTimer(u, b) PROVE BookOK'
  BY <1>4, <1>5 DEF ClearTimer
<1>6. ASSUME NEW fd \in Fds, RemoveSocket(fd) PROVE BookOK'
  BY <1>4, <1>6 DEF RemoveSocket
<1>7. CASE Call
  BY <1>4, <1>7 DEF Call
<1>8. CASE Destroy
  <2>1. book' = [u \in DOMAIN book |-> [book[u] EXCEPT !.freed =
          IF @ + DestroyCalls(u) < 3 THEN @ + DestroyCalls(u) ELSE 3]]
    BY <1>8 DEF Destroy
  <2>2. DOMAIN book = 1 .. Len(book) /\ DOMAIN book' = 1 .. Len(book')
        /\ Len(book) \in Nat /\ Len(book') \in Nat
    BY <1>0
  <2>3. Len(book') = Len(book)
    BY <2>1, <2>2
  <2>4. ASSUME NEW u \in 1 .. Len(book)
        PROVE  book'[u].kind = book[u].kind /\ book'[u].i = book[u].i
    <3>1. book[u] \in Registration
      BY <1>0
    <3>2. ASSUME NEW r \in Registration, NEW x
          PROVE  [r EXCEPT !.freed = x].kind = r.kind /\ [r EXCEPT !.freed = x].i = r.i
      BY Zenon DEF Registration
    <3> DEFINE x == IF book[u].freed + DestroyCalls(u) < 3
                    THEN book[u].freed + DestroyCalls(u) ELSE 3
    <3>3. book'[u] = [book[u] EXCEPT !.freed = x]
      BY <2>1, <2>2
    <3> HIDE DEF x
    <3> QED BY <3>1, <3>2, <3>3
  <2> QED BY <2>3, <2>4, <1>0, BookKept
<1>9. CASE UNCHANGED book
  BY <1>4, <1>9
<1> QED
  <2>1. CASE NextEvent
    <3>1. UNCHANGED book
      BY <2>1 DEF NextEvent, FireTimer, StartDrain, DrainTimerAction, DrainTimerDestroy,
           DrainSocketUsed, DrainSocketAction, DrainSocketDestroy, DrainDispatchUsed,
           DrainDispatchAction, DrainDispatchDone, StartCollect, CollectUsed,
           CollectFree, NoEventLeft
    <3> QED BY <3>1, <1>9
  <2>2. CASE Callers
    BY <2>2, <1>1, <1>2, <1>3, <1>5, <1>6, <1>9 DEF Callers, Wakeup
  <2>3. CASE Return \/ PollEnter \/ PollWoken \/ PollReady \/ Stop \/ Tick
    BY <2>3, <1>9 DEF Return, PollEnter, PollWoken, PollReady, PollReturn, Stop, Tick
  <2>4. CASE UNCHANGED vars
    BY <2>4, <1>9 DEF vars
  <2> QED BY <2>1, <2>2, <2>3, <2>4, <1>7, <1>8 DEF Next, Worker

-----------------------------------------------------------------------------
(* Entry 0 is the wakeup event's, armed whenever the worker sleeps.  Where it *)
(* is linked follows from the socket table.                                   *)
LEMMA NextWakeup == Inv /\ Inv' /\ WakeupEntry /\ [Next]_vars => WakeupEntry'
<1> SUFFICES ASSUME Inv, Inv', WakeupEntry, [Next]_vars PROVE WakeupEntry'
  OBVIOUS
<1> DEFINE events == pollfd[0].events
           state == socket[0].state
           inPending == 0 \in Pending("socket")
           asked == pc \in {"event", "callback"} /\ IsWakeup(cur)
           armed == events \/ asked
                      \/ (state = "Used" /\ inPending /\ pc \notin {"collect", "sleep", "polling"})
           entry0 == pollfd[0].fd = WakeupFd /\ socket[0].u = 0 /\ state \in {"Used", "Action"}
           placed == /\ pc \in {"sleep", "polling"} => inPending
                     /\ pc = "polling" => polled > 0
<1>1. entry0 /\ armed /\ placed
  BY DEF WakeupEntry
<1>2. SUFFICES entry0' /\ armed' /\ placed'
  BY DEF WakeupEntry
<1>3. /\ 0 \in Sockets
      /\ pollfd \in [Sockets -> Pollfd] /\ pollfd' \in [Sockets -> Pollfd]
      /\ socket \in [Sockets -> SocketEntry] /\ socket' \in [Sockets -> SocketEntry]
      /\ usedSocket \in Seq(Sockets) /\ usedSocket' \in Seq(Sockets)
      /\ pollSize \in 1 .. SocketLimit /\ pollSize' \in 1 .. SocketLimit
      /\ SocketLimit \in Nat
  <2>1. 0 \in Sockets /\ SocketLimit \in Nat
    BY LimitsAssumption DEF Sockets
  <2> QED BY <2>1 DEF Inv, TypeOK
<1>4. inPending <=> 0 \notin ToSet(usedSocket)
  <2>1. 0 \in 0 .. pollSize - 1
    BY <1>3
  <2> QED BY <2>1 DEF Inv, SocketTable
<1>5. inPending' <=> 0 \notin ToSet(usedSocket')
  <2>1. 0 \in 0 .. pollSize' - 1
    BY <1>3
  <2> QED BY <2>1 DEF Inv, SocketTable
<1> HIDE DEF inPending
(* Steps that leave entry 0 and its place alone. *)
<1>6. ASSUME /\ pollfd'[0].fd = pollfd[0].fd /\ events' = events
             /\ socket'[0] = socket[0]
             /\ 0 \notin ToSet(usedSocket) => 0 \notin ToSet(usedSocket')
      PROVE  entry0' /\ (inPending => inPending') /\ events' = events /\ state' = state
  BY <1>1, <1>4, <1>5, <1>6
<1>7. ASSUME entry0', inPending => inPending', events' = events, state' = state,
             UNCHANGED <<pc, cur, polled>>
      PROVE  entry0' /\ armed' /\ placed'
  BY <1>1, <1>7
<1>8. ASSUME entry0', inPending => inPending', events' = events, state' = state,
             ~asked, pc' \notin {"collect", "sleep", "polling"}
      PROVE  entry0' /\ armed' /\ placed'
  BY <1>1, <1>8
<1>9. ASSUME UNCHANGED <<pollfd, socket, usedSocket>>
      PROVE  entry0' /\ (inPending => inPending') /\ events' = events /\ state' = state
  BY <1>6, <1>9
<1>10. CASE \/ FireTimer \/ StartDrain \/ DrainTimerAction \/ DrainTimerDestroy
            \/ DrainDispatchUsed \/ DrainDispatchAction \/ DrainDispatchDone
            \/ Stop \/ Destroy
  <2>1. /\ UNCHANGED <<pollfd, socket, usedSocket>>
        /\ pc \in {"idle", "drain", "stopped"}
        /\ pc' \in {"event", "drain", "stopped", "destroyed"}
    BY <1>10 DEF FireTimer, StartDrain, DrainTimerAction, DrainTimerDestroy,
         DrainDispatchUsed, DrainDispatchAction, DrainDispatchDone, Stop, Destroy,
         Draining, Requeue, entries, lists, worker
  <2> QED BY <2>1, <1>8, <1>9
<1>11. CASE \/ \E d \in Delays, v \in Intervals, h \in Destroys : SetTimer(d, v, h)
            \/ \E u \in DOMAIN book, b \in BOOLEAN : ClearTimer(u, b)
            \/ \E h \in Destroys : Dispatch(h)
            \/ Wakeup \/ Tick \/ UNCHANGED vars
  <2>1. UNCHANGED <<pollfd, socket, usedSocket>> /\ UNCHANGED <<pc, cur, polled>>
    BY <1>11 DEF SetTimer, ClearTimer, Dispatch, Wakeup, Tick, vars, entries, lists, worker
  <2> QED BY <2>1, <1>7, <1>9
<1>12. CASE Call
  <2>1. /\ UNCHANGED <<pollfd, socket, usedSocket>>
        /\ pc = "event" /\ pc' = "callback"
        /\ cur'.event = cur.event /\ cur'.i = cur.i
    BY <1>12 DEF Call, Inv, TypeOK, entries, lists
  <2>2. asked' <=> asked
    BY <2>1 DEF IsWakeup
  <2> QED BY <2>1, <2>2, <1>1, <1>9
<1>13. CASE Return
  <2>1. UNCHANGED <<socket, usedSocket>> /\ pc = "callback" /\ pc' = "idle"
    BY <1>13 DEF Return, entries, lists
  <2>2. CASE IsWakeup(cur)
    <3>1. pollfd' = [pollfd EXCEPT ![0].events = TRUE]
      BY <1>13, <2>2 DEF Return, IsWakeup, EventsAsked
    <3>2. pollfd'[0].fd = pollfd[0].fd /\ events'
      BY <3>1, <1>3 DEF Pollfd
    <3> QED BY <2>1, <3>2, <1>1
  <2>3. CASE ~IsWakeup(cur)
    <3>1. pollfd'[0] = pollfd[0]
      BY <1>13, <2>3, <1>3 DEF Return, IsWakeup, Inv, TypeOK, EventOK
    <3> QED BY <2>1, <2>3, <3>1, <1>6, <1>8
  <2> QED BY <2>2, <2>3
<1>14. CASE DrainSocketUsed
  <2> DEFINE i == Head(pending).i
  <2>1. /\ UNCHANGED <<pollfd, usedSocket>> /\ pc = "drain" /\ pc' = "event"
        /\ cur' = Event("socketAction", i) /\ socket' = EnterAction(socket, i)
    BY <1>14 DEF DrainSocketUsed, Requeue, Draining
  <2>2. CASE i = 0
    <3>1. asked'
      BY <2>1, <2>2 DEF Event, IsWakeup
    <3>2. socket'[0].u = socket[0].u /\ socket'[0].state = "Action"
      BY <2>1, <2>2, <1>3 DEF EnterAction, SocketEntry
    <3> QED BY <2>1, <3>1, <3>2, <1>1
  <2>3. CASE i # 0
    <3>1. socket'[0] = socket[0]
      BY <2>1, <2>3, <1>3 DEF EnterAction
    <3> QED BY <2>1, <3>1, <1>6, <1>8
  <2> QED BY <2>2, <2>3
<1>15. CASE DrainSocketAction
  <2> DEFINE i == Head(pending).i
  <2>1. /\ pollfd' = pollfd /\ pc = "drain" /\ pc' = "drain" /\ socket[i].state = "Action"
    BY <1>15 DEF DrainSocketAction, Draining, worker
  <2>2. CASE i = 0
    <3>1. events
      BY <2>1, <2>2, <1>1
    <3>2. socket' = [socket EXCEPT ![0].state = "Used"]
      BY <1>15, <2>2, <3>1 DEF DrainSocketAction
    <3>3. socket'[0].u = socket[0].u /\ socket'[0].state = "Used"
      BY <3>2, <1>3 DEF SocketEntry
    <3> QED BY <2>1, <3>1, <3>3, <1>1
  <2>3. CASE i # 0
    <3>1. socket'[0] = socket[0]
      BY <1>15, <2>3, <1>3 DEF DrainSocketAction
    <3>2. i \in Sockets
      BY <1>15, DrainingSocket DEF DrainSocketAction
    <3>3. ToSet(Append(usedSocket, i)) = ToSet(usedSocket) \cup {i}
      BY <1>3, <3>2, AppendList
    <3>4. 0 \notin ToSet(usedSocket) => 0 \notin ToSet(usedSocket')
      BY <1>15, <2>3, <3>3 DEF DrainSocketAction
    <3> QED BY <2>1, <3>1, <3>4, <1>6, <1>8
  <2> QED BY <2>2, <2>3
<1>16. CASE DrainSocketDestroy
  <2> DEFINE i == Head(pending).i
  <2>1. /\ pollfd' = pollfd /\ pc = "drain" /\ pc' = "event" /\ socket[i].state = "Destroy"
        /\ socket' = [socket EXCEPT ![i].state = "Free"] /\ usedSocket' = Append(usedSocket, i)
    BY <1>16 DEF DrainSocketDestroy, Draining
  <2>2. i # 0 /\ socket'[0] = socket[0]
    BY <2>1, <1>1, <1>3
  <2>3. i \in Sockets
    BY <1>16, DrainingSocket DEF DrainSocketDestroy
  <2>4. ToSet(usedSocket') = ToSet(usedSocket) \cup {i}
    BY <1>3, <2>1, <2>3, AppendList
  <2> QED BY <2>1, <2>2, <2>4, <1>6, <1>8
<1>17. CASE StartCollect
  <2>1. /\ UNCHANGED <<pollfd, socket, usedSocket>> /\ pending = <<>>
        /\ pc = "drain" /\ pc' = "collect"
    BY <1>17 DEF StartCollect, entries, lists
  <2>2. ~inPending
    BY <2>1 DEF inPending, Pending, OfKind, ToSet
  <2> QED BY <2>1, <2>2, <1>1, <1>9
<1>18. CASE CollectUsed
  <2>1. /\ UNCHANGED socket /\ pc = "collect" /\ pc' = "collect"
        /\ pollfd' = [pollfd EXCEPT ![Head(usedSocket)].revents = FALSE]
    BY <1>18 DEF CollectUsed, entries, worker
  <2>2. pollfd'[0].fd = pollfd[0].fd /\ events' = events
    BY <2>1, <1>3 DEF Pollfd
  <2> QED BY <2>1, <2>2, <1>1
<1>19. CASE CollectFree
  <2> DEFINE i == Head(usedSocket)
             last == pollSize - 1
  <2>1. /\ i \in ToSet(usedSocket) /\ socket[i].state # "Used"
        /\ pc = "collect" /\ pc' = "collect"
    BY <1>3, <1>19, TailList DEF CollectFree, worker
  <2>2. i # 0 /\ i \in 0 .. pollSize - 1
    BY <2>1, <1>1 DEF Inv, SocketTable, ListsMatchStates, SocketLists
  <2>3. last # 0
    BY <2>2, <1>3
  <2> HIDE DEF i, last
  <2>4. pollfd'[0] = pollfd[0] /\ socket'[0] = socket[0]
    <3>1. CASE i = last
      BY <3>1, <1>19 DEF CollectFree, i, last
    <3>2. CASE i # last
      <4>1. /\ pollfd' = [pollfd EXCEPT ![i] = MovedFd(last, i)]
            /\ socket' = [socket EXCEPT ![i] = MovedEntry(i, last), ![last].state = "Free"]
        BY <3>2, <1>19 DEF CollectFree, i, last
      <4> QED BY <4>1, <2>2, <2>3, <1>3
    <3> QED BY <3>1, <3>2
  <2> QED BY <2>1, <2>4, <1>1
<1>20. CASE NoEventLeft
  <2>1. /\ UNCHANGED <<pollfd, socket, usedSocket>> /\ usedSocket = <<>>
        /\ pc = "collect" /\ pc' = "sleep"
    BY <1>20 DEF NoEventLeft, entries, lists
  <2>2. inPending'
    BY <2>1, <1>5 DEF ToSet
  <2> QED BY <2>1, <2>2, <1>1, <1>9
<1>21. CASE PollEnter
  <2>1. /\ UNCHANGED <<pollfd, socket, usedSocket>>
        /\ pc = "sleep" /\ pc' = "polling" /\ polled' > 0
    BY <1>21 DEF PollEnter, Inv, TypeOK, entries, lists
  <2> QED BY <2>1, <1>1, <1>9
<1>22. CASE PollWoken \/ PollReady
  <2>1. PICK ready : PollReturn(ready)
    BY <1>22 DEF PollWoken, PollReady
  <2>2. /\ UNCHANGED <<socket, usedSocket>> /\ pc = "polling" /\ pc' = "idle"
    BY <1>22, <2>1 DEF PollReturn, PollWoken, PollReady, entries, lists
  <2>3. pollfd'[0].fd = pollfd[0].fd /\ events' = events
    BY <2>1, <1>3 DEF PollReturn, Pollfd
  <2> QED BY <2>2, <2>3, <1>6, <1>8
<1>23. ASSUME NEW fd \in Fds, NEW h \in Destroys, AddSocket(fd, h)
       PROVE  entry0' /\ armed' /\ placed'
  <2>1. /\ UNCHANGED <<usedSocket, pc, cur, polled>>
        /\ pollfd'[0] = pollfd[0] /\ socket'[0] = socket[0]
    <3>1. Head(freeSocket) # 0 /\ pollSize # 0
      <4>1. freeSocket # <<>> /\ pollSize \in Nat \ {0} /\ SocketLimit \in Nat
        BY <1>23, LimitsAssumption DEF AddSocket, Inv, TypeOK
      <4> QED BY <4>1 DEF Inv, SocketTable
    <3> QED BY <3>1, <1>3, <1>23 DEF AddSocket, worker
  <2> QED BY <2>1, <1>6, <1>7
<1>24. ASSUME NEW fd \in Fds, RemoveSocket(fd)
       PROVE  entry0' /\ armed' /\ placed'
  <2>1. PICK i \in Sockets :
          /\ FirstWith(fd, i)
          /\ \/ socket' = [socket EXCEPT ![i].state = "Free"]
             \/ socket' = [socket EXCEPT ![i].state = "Destroy"]
          /\ \/ usedSocket' = Append(Without(usedSocket, i), i)
             \/ usedSocket' = Without(usedSocket, i)
    BY <1>24 DEF RemoveSocket
  <2>2. i # 0
    BY <2>1, <1>1, FdAssumption DEF FirstWith
  <2>3. UNCHANGED <<pollfd, pc, cur, polled>> /\ socket'[0] = socket[0]
    BY <2>1, <2>2, <1>3, <1>24 DEF RemoveSocket, worker
  <2>4. 0 \notin ToSet(usedSocket) => 0 \notin ToSet(usedSocket')
    <3> DEFINE w == Without(usedSocket, i)
    <3>1. w \in Seq(Sockets) /\ ToSet(w) = ToSet(usedSocket) \ {i}
      BY <1>3, WithoutList DEF Inv, NoDuplicates
    <3> HIDE DEF w
    <3>2. ToSet(Append(w, i)) = ToSet(w) \cup {i}
      BY <3>1, AppendList
    <3>3. usedSocket' = Append(w, i) \/ usedSocket' = w
      BY <2>1 DEF w
    <3>4. CASE usedSocket' = w
      BY <3>1, <3>4
    <3>5. CASE usedSocket' = Append(w, i)
      BY <3>1, <3>2, <3>5, <2>2
    <3> QED BY <3>3, <3>4, <3>5
  <2> QED BY <2>3, <2>4, <1>6, <1>7
<1> QED
  BY <1>10, <1>11, <1>12, <1>13, <1>14, <1>15, <1>16, <1>17, <1>18, <1>19, <1>20,
     <1>21, <1>22, <1>23, <1>24 DEF Next, Worker, NextEvent, Callers

-----------------------------------------------------------------------------
(* Every reachable state of the looper satisfies its invariant, whatever the *)
(* limits, the callers and the timing: nextEvent, its compaction and the     *)
(* seven operations keep lists, states and the socket table together.        *)
THEOREM LooperInvariant == Spec => []LooperInv
<1>1. Init => LooperInv
  <2> SUFFICES ASSUME Init PROVE LooperInv
    OBVIOUS
  <2>1. Inv
    BY InitInv
  <2>2. WakeupEntry
    <3>1. 0 \in Sockets
      BY LimitsAssumption DEF Sockets
    <3>2. /\ pollfd[0].fd = WakeupFd /\ socket[0].u = 0 /\ socket[0].state = "Used"
          /\ pc = "idle" /\ pending = <<SocketNode(0)>>
      BY <3>1 DEF Init
    <3>3. 0 \in Pending("socket")
      BY <3>2, <2>1, PendingKinds DEF Inv, ToSet
    <3> QED BY <3>2, <3>3 DEF WakeupEntry
  <2>3. BookOK
    BY DEF Init, BookOK
  <2> QED BY <2>1, <2>2, <2>3 DEF LooperInv
<1>2. LooperInv /\ [Next]_vars => LooperInv'
  BY NextInv, NextWakeup, NextBook DEF LooperInv
<1> QED BY <1>1, <1>2, PTL DEF Spec

(* Variables keep their types: no identifier handed to a caller is 0, no list *)
(* holds anything but entries, the worker is at a place the code has.         *)
THEOREM TypeCorrect == Spec => []TypeOK
<1>1. LooperInv => TypeOK
  BY DEF LooperInv, Inv
<1> QED BY <1>1, LooperInvariant, PTL

(* The entries poll() looks at are exactly those in use or waiting to be      *)
(* compacted, and addSocket takes the one that follows them.                  *)
THEOREM SocketTableCompact == Spec => []SocketTable
<1>1. LooperInv => SocketTable
  BY DEF LooperInv, Inv
<1> QED BY <1>1, LooperInvariant, PTL

(* An entry is in the list its state says, once, and in no other.             *)
THEOREM ListsAreSound == Spec => [](ListsMatchStates /\ NoDuplicates)
<1>1. LooperInv => ListsMatchStates /\ NoDuplicates
  BY DEF LooperInv, Inv
<1> QED BY <1>1, LooperInvariant, PTL

(* Whenever the worker sleeps, the wakeup event is polled and armed.          *)
THEOREM WakeupAlwaysPolled == Spec => []WakeupPolled
<1>1. LooperInv => WakeupPolled
  <2> SUFFICES ASSUME LooperInv PROVE WakeupPolled
    OBVIOUS
  <2>1. 0 \in Pending("socket") <=> SocketNode(0) \in ToSet(pending)
    BY PendingKinds DEF LooperInv, Inv
  <2> QED BY <2>1 DEF LooperInv, WakeupEntry, WakeupPolled
<1> QED BY <1>1, LooperInvariant, PTL

=============================================================================
