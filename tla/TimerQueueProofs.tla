-------------------------- MODULE TimerQueueProofs --------------------------
(***************************************************************************)
(* The timer queue keeps its lists and their order, for any size, times    *)
(* and callers, and implements the abstract set of timers.                 *)
(***************************************************************************)
EXTENDS TimerQueue, ListLemmas

Timed(es) == \A j \in Positions : es[j].timePoint \in Int
SameTimes(order, es, fs) == \A j \in ToSet(order) : fs[j].timePoint = es[j].timePoint

(* There is a place to insert a timer at, whatever the list.                 *)
LEMMA PositionExists ==
  ASSUME NEW order \in Seq(Positions), NEW es, NEW at \in Int,
         \A i \in Positions : es[i].timePoint \in Int
  PROVE  LET p == InsertPosition(order, es, at)
         IN /\ p \in 1 .. Len(order) + 1
            /\ \A k \in 1 .. p - 1 : es[order[k]].timePoint <= at
            /\ p <= Len(order) => at < es[order[p]].timePoint
<1> DEFINE T == {p \in 1 .. Len(order) + 1 :
                   p <= Len(order) => at < es[order[p]].timePoint}
<1>1. Len(order) \in Nat /\ \A k \in 1 .. Len(order) : order[k] \in Positions
  OBVIOUS
<1>2. T \subseteq Nat /\ Len(order) + 1 \in T
  BY <1>1
<1>3. PICK p \in T : \A m \in T : p <= m
  BY <1>2, LeastMember
<1>4. \A k \in 1 .. p - 1 : es[order[k]].timePoint <= at
  <2> TAKE k \in 1 .. p - 1
  <2>1. k \in 1 .. Len(order) /\ k \notin T /\ es[order[k]].timePoint \in Int
    BY <1>1, <1>3
  <2> QED BY <2>1
<1> QED BY <1>3, <1>4 DEF InsertPosition

(* Inserting there keeps a list in order.                                    *)
LEMMA InsertKeepsOrder ==
  ASSUME NEW order \in Seq(Positions), NEW es, NEW fs, NEW i \in Positions,
         Timed(es), Timed(fs), SameTimes(order, es, fs),
         i \notin ToSet(order), IsInjective(order), InOrder(order, es)
  PROVE  LET new == InsertAt(order, InsertPosition(order, es, fs[i].timePoint), i)
         IN /\ new \in Seq(Positions) /\ IsInjective(new)
            /\ ToSet(new) = ToSet(order) \cup {i}
            /\ InOrder(new, fs)
<1> USE DEF Timed, SameTimes, InOrder
<1> DEFINE at == fs[i].timePoint
           p == InsertPosition(order, es, at)
           new == InsertAt(order, p, i)
<1>1. /\ p \in 1 .. Len(order) + 1
      /\ \A k \in 1 .. p - 1 : es[order[k]].timePoint <= at
      /\ p <= Len(order) => at < es[order[p]].timePoint
  BY PositionExists
<1> HIDE DEF p
<1>2. /\ new \in Seq(Positions) /\ IsInjective(new)
      /\ ToSet(new) = ToSet(order) \cup {i}
      /\ Len(new) = Len(order) + 1
      /\ \A k \in 1 .. Len(order) + 1 :
           new[k] = IF k < p THEN order[k] ELSE IF k = p THEN i ELSE order[k - 1]
  BY <1>1, InsertAtList
<1>3. Len(order) \in Nat /\ DOMAIN order = 1 .. Len(order)
      /\ \A k \in 1 .. Len(order) : order[k] \in Positions /\ order[k] \in ToSet(order)
  BY MemberOf
<1>4. DOMAIN new = 1 .. Len(order) + 1
  BY <1>2
<1> HIDE DEF new
<1>5. \A k \in 1 .. Len(order) :
        /\ fs[order[k]].timePoint = es[order[k]].timePoint
        /\ es[order[k]].timePoint \in Int
        /\ p <= k => at < es[order[k]].timePoint
  <2> TAKE k \in 1 .. Len(order)
  <2>1. /\ fs[order[k]].timePoint = es[order[k]].timePoint
        /\ es[order[k]].timePoint \in Int
    BY <1>3
  <2>2. ASSUME p <= k PROVE at < es[order[k]].timePoint
    <3>1. p \in 1 .. Len(order) /\ es[order[p]].timePoint \in Int /\ at \in Int
      BY <1>1, <1>3, <2>2
    <3>2. es[order[p]].timePoint <= es[order[k]].timePoint
      BY <3>1, <1>3, <2>2
    <3> QED BY <3>1, <3>2, <2>1, <1>1
  <2> QED BY <2>1, <2>2
<1>6. ASSUME NEW j \in DOMAIN new, NEW k \in DOMAIN new, j <= k
      PROVE  fs[new[j]].timePoint <= fs[new[k]].timePoint
  <2>1. at \in Int /\ \A m \in 1 .. p - 1 : fs[order[m]].timePoint <= at
    <3>1. at \in Int
      OBVIOUS
    <3>2. ASSUME NEW m \in 1 .. p - 1 PROVE fs[order[m]].timePoint <= at
      <4>1. m \in 1 .. Len(order) /\ es[order[m]].timePoint <= at
        BY <1>1, <1>3
      <4> QED BY <4>1, <1>5
    <3> QED BY <3>1, <3>2
  <2>2. CASE k < p
    BY <2>2, <1>6, <1>2, <1>3, <1>4, <1>5, <1>1
  <2>3. CASE j < p /\ k = p
    BY <2>3, <1>2, <1>4, <1>1, <2>1
  <2>4. CASE j < p /\ p < k
    <3>1. new[j] = order[j] /\ new[k] = order[k - 1] /\ j <= k - 1
          /\ j \in 1 .. Len(order) /\ k - 1 \in 1 .. Len(order)
      BY <2>4, <1>1, <1>2, <1>3, <1>4
    <3> QED BY <3>1, <1>3, <1>5
  <2>5. CASE j = p
    <3>1. CASE k = p
      BY <3>1, <2>5, <2>1, <1>2, <1>1
    <3>2. CASE p < k
      <4>1. new[j] = i /\ new[k] = order[k - 1] /\ k - 1 \in 1 .. Len(order) /\ p <= k - 1
        BY <3>2, <2>5, <1>1, <1>2, <1>3, <1>4
      <4> QED BY <4>1, <1>5, <2>1
    <3> QED BY <3>1, <3>2, <2>5, <1>6, <1>1, <1>4
  <2>6. CASE p < j
    <3>1. new[j] = order[j - 1] /\ new[k] = order[k - 1] /\ j - 1 <= k - 1
          /\ j - 1 \in 1 .. Len(order) /\ k - 1 \in 1 .. Len(order)
      BY <2>6, <1>6, <1>1, <1>2, <1>3, <1>4
    <3> QED BY <3>1, <1>3, <1>5
  <2> QED BY <2>2, <2>3, <2>4, <2>5, <2>6, <1>6, <1>1, <1>3, <1>4
<1> QED BY <1>2, <1>6 DEF new, p

(* A released entry is one, is not active, and was due when it was.          *)
LEMMA ReleasedEntry ==
  ASSUME NEW e \in Entries
  PROVE  /\ Released(e) \in Entries /\ ~Released(e).active
         /\ Released(e).timePoint = e.timePoint
<1>1. (e.gen + 1) % Generations \in 0 .. Generations - 1
  BY TableAssumption DEF Entries
<1> QED BY <1>1 DEF Released, Entries

(* Every removal keeps the invariant: the entry leaves the active list, the  *)
(* others stay there in the order they had.                                  *)
LEMMA ReleaseKeepsInv ==
  ASSUME TimerInv, NEW i \in ToSet(activeList),
         entry' = [entry EXCEPT ![i] = Released(@)],
         freeList' = Append(freeList, i),
         activeList' \in Seq(Positions), IsInjective(activeList'),
         ToSet(activeList') = ToSet(activeList) \ {i},
         \A j, k \in DOMAIN activeList' : j <= k =>
           \E m, n \in DOMAIN activeList :
             m <= n /\ activeList'[j] = activeList[m] /\ activeList'[k] = activeList[n]
  PROVE  TimerInv'
<1>1. /\ i \in Positions /\ activeList \in Seq(Positions) /\ freeList \in Seq(Positions)
      /\ entry \in [Positions -> Entries] /\ entry[i] \in Entries
  BY MemberOf DEF TimerInv, TimerTypeOK
<1>2. /\ entry' \in [Positions -> Entries]
      /\ ~entry'[i].active /\ entry'[i].timePoint = entry[i].timePoint
      /\ \A j \in Positions : j # i => entry'[j] = entry[j]
  BY <1>1, ReleasedEntry
<1>3. i \notin ToSet(freeList)
  BY <1>1 DEF TimerInv, EachInOneList
<1>4. freeList' \in Seq(Positions) /\ IsInjective(freeList')
      /\ ToSet(freeList') = ToSet(freeList) \cup {i}
  BY <1>1, <1>3, AppendList DEF TimerInv, EachInOneList
<1>5. TimerTypeOK'
  BY <1>2, <1>4 DEF TimerTypeOK
<1>6. EachInOneList'
  BY <1>1, <1>2, <1>4 DEF TimerInv, EachInOneList
<1>7. Ordered'
  <2> SUFFICES ASSUME NEW j \in DOMAIN activeList', NEW k \in DOMAIN activeList', j <= k
               PROVE  entry'[activeList'[j]].timePoint <= entry'[activeList'[k]].timePoint
    BY DEF Ordered, InOrder
  <2>1. PICK m \in DOMAIN activeList, n \in DOMAIN activeList :
          m <= n /\ activeList'[j] = activeList[m] /\ activeList'[k] = activeList[n]
    OBVIOUS
  <2>2. entry[activeList[m]].timePoint <= entry[activeList[n]].timePoint
    BY <2>1 DEF TimerInv, Ordered, InOrder
  <2>3. activeList[m] \in Positions /\ activeList[n] \in Positions
    BY <1>1
  <2> QED BY <2>1, <2>2, <2>3, <1>2
<1>8. PeriodsPositive'
  BY <1>1, <1>2 DEF TimerInv, PeriodsPositive
<1> QED BY <1>5, <1>6, <1>7, <1>8 DEF TimerInv

(* What taking the first timer off does to the active list.                  *)
LEMMA FirstTaken ==
  ASSUME TimerInv, activeList # <<>>
  PROVE  LET i == Head(activeList)
             rest == Tail(activeList)
         IN /\ i \in ToSet(activeList) /\ i \in Positions
            /\ rest \in Seq(Positions) /\ IsInjective(rest)
            /\ ToSet(rest) = ToSet(activeList) \ {i}
            /\ \A k \in DOMAIN rest : k + 1 \in DOMAIN activeList
                                      /\ rest[k] = activeList[k + 1]
            /\ \A k \in DOMAIN activeList :
                 entry[i].timePoint <= entry[activeList[k]].timePoint
<1>1. activeList \in Seq(Positions) /\ IsInjective(activeList)
  BY DEF TimerInv, TimerTypeOK, EachInOneList
<1>2. \A k \in DOMAIN Tail(activeList) :
        k + 1 \in DOMAIN activeList /\ Tail(activeList)[k] = activeList[k + 1]
  BY <1>1
<1>3. 1 \in DOMAIN activeList /\ Head(activeList) = activeList[1]
      /\ \A k \in DOMAIN activeList : 1 <= k
  BY <1>1
<1>4. \A k \in DOMAIN activeList :
        entry[Head(activeList)].timePoint <= entry[activeList[k]].timePoint
  BY <1>3 DEF TimerInv, Ordered, InOrder
<1> QED BY <1>1, <1>2, <1>4, TailList

LEMMA InitInv == TimerInit => TimerInv
<1> SUFFICES ASSUME TimerInit PROVE TimerInv
  OBVIOUS
<1>1. (CHOOSE d \in Data : TRUE) \in Data
  BY TableAssumption
<1>2. Alloc \in Nat /\ DOMAIN freeList = 1 .. Alloc /\ \A k \in 1 .. Alloc : freeList[k] = k - 1
  BY TableAssumption DEF TimerInit
<1>3. TimerTypeOK
  <2>1. entry \in [Positions -> Entries]
    BY <1>1, TableAssumption DEF TimerInit, Entries
  <2>2. activeList \in Seq(Positions)
    BY DEF TimerInit
  <2>3. freeList \in Seq(Positions)
    BY <1>2 DEF TimerInit, Positions
  <2> QED BY <2>1, <2>2, <2>3 DEF TimerTypeOK
<1>4. EachInOneList
  <2>1. IsInjective(activeList) /\ ToSet(activeList) = {}
    BY DEF TimerInit, IsInjective, ToSet
  <2>2. IsInjective(freeList)
    BY <1>2 DEF IsInjective
  <2>3. ASSUME NEW i \in Positions PROVE i \in ToSet(freeList)
    <3>1. i + 1 \in 1 .. Alloc /\ freeList[i + 1] = i
      BY <1>2 DEF Positions
    <3> QED BY <3>1, <1>2 DEF ToSet
  <2>4. \A i \in Positions : ~entry[i].active
    BY DEF TimerInit
  <2> QED BY <2>1, <2>2, <2>3, <2>4 DEF EachInOneList
<1>5. Ordered /\ PeriodsPositive
  BY DEF TimerInit, Ordered, InOrder, PeriodsPositive
<1> QED BY <1>3, <1>4, <1>5 DEF TimerInv

LEMMA StartInv ==
  ASSUME TimerInv, NEW isInterval \in BOOLEAN, NEW now \in Int, NEW timeout \in Int,
         NEW data \in Data, StartTimer(isInterval, now, timeout, data)
  PROVE  TimerInv'
<1> DEFINE new(i) == [gen |-> entry[i].gen, active |-> TRUE, isInterval |-> isInterval,
                      timeout |-> timeout, timePoint |-> timeout + now, data |-> data]
<1>1. /\ activeList \in Seq(Positions) /\ freeList \in Seq(Positions)
      /\ entry \in [Positions -> Entries]
      /\ IsInjective(activeList) /\ IsInjective(freeList)
  BY DEF TimerInv, TimerTypeOK, EachInOneList
<1>2. timeout > 0 /\ freeList # <<>>
  BY DEF StartTimer, StartRefused
<1>3. PICK i \in Positions :
        /\ i = Head(freeList) /\ i \in ToSet(freeList)
        /\ Tail(freeList) \in Seq(Positions) /\ IsInjective(Tail(freeList))
        /\ ToSet(freeList) = ToSet(Tail(freeList)) \cup {i}
        /\ i \notin ToSet(Tail(freeList))
  BY <1>2, <1>1, TailList
<1>4. /\ entry' = [entry EXCEPT ![i] = new(i)]
      /\ freeList' = Tail(freeList)
      /\ activeList' = InsertAt(activeList,
                         InsertPosition(activeList, entry, timeout + now), i)
  BY <1>3 DEF StartTimer
<1>5. i \notin ToSet(activeList)
  BY <1>3 DEF TimerInv, EachInOneList
<1>6. new(i) \in Entries
  <2>1. entry[i] \in Entries /\ timeout + now \in Int /\ timeout \in Nat
    BY <1>2, <1>1
  <2> QED BY <2>1 DEF Entries
<1>7. /\ entry' \in [Positions -> Entries] /\ entry'[i] = new(i)
      /\ \A j \in Positions : j # i => entry'[j] = entry[j]
  BY <1>4, <1>1, <1>3, <1>6
<1>8. Timed(entry) /\ Timed(entry')
  BY <1>1, <1>7 DEF Entries, Timed
<1>9. SameTimes(activeList, entry, entry')
  BY <1>1, <1>5, <1>7, MemberOf DEF SameTimes
<1>10. activeList' = InsertAt(activeList,
                      InsertPosition(activeList, entry, entry'[i].timePoint), i)
  BY <1>4, <1>7
<1>11. /\ activeList' \in Seq(Positions) /\ IsInjective(activeList')
       /\ ToSet(activeList') = ToSet(activeList) \cup {i}
       /\ InOrder(activeList', entry')
  <2>1. activeList \in Seq(Positions) /\ IsInjective(activeList) /\ InOrder(activeList, entry)
    BY <1>1 DEF TimerInv, Ordered
  <2>2. i \in Positions
    OBVIOUS
  <2> QED BY ONLY <2>1, <2>2, <1>5, <1>8, <1>9, <1>10, InsertKeepsOrder
<1>12. TimerTypeOK'
  BY <1>4, <1>3, <1>7, <1>11 DEF TimerTypeOK
<1>13. EachInOneList'
  <2>1. entry'[i].active
    BY <1>7
  <2> QED BY <2>1, <1>4, <1>3, <1>5, <1>7, <1>11 DEF TimerInv, EachInOneList
<1>14. Ordered'
  BY <1>11 DEF Ordered
<1>15. PeriodsPositive'
  <2>1. entry'[i].timeout > 0
    BY <1>2, <1>7
  <2> QED BY <2>1, <1>7 DEF TimerInv, PeriodsPositive
<1> QED BY <1>12, <1>13, <1>14, <1>15 DEF TimerInv

LEMMA DrainInv ==
  ASSUME TimerInv, DrainTimer
  PROVE  TimerInv'
<1>1. /\ activeList # <<>> /\ freeList' = Append(freeList, Head(activeList))
      /\ entry' = [entry EXCEPT ![Head(activeList)] = Released(@)]
      /\ activeList' = Tail(activeList)
  BY DEF DrainTimer
<1>2. /\ Head(activeList) \in ToSet(activeList)
      /\ activeList' \in Seq(Positions) /\ IsInjective(activeList')
      /\ ToSet(activeList') = ToSet(activeList) \ {Head(activeList)}
      /\ \A k \in DOMAIN activeList' : k + 1 \in DOMAIN activeList
                                       /\ activeList'[k] = activeList[k + 1]
  BY <1>1, FirstTaken
<1>3. ASSUME NEW j \in DOMAIN activeList', NEW k \in DOMAIN activeList', j <= k
      PROVE  \E m, n \in DOMAIN activeList :
               m <= n /\ activeList'[j] = activeList[m] /\ activeList'[k] = activeList[n]
  <2>1. j \in Int /\ k \in Int
    BY <1>2
  <2>2. /\ j + 1 \in DOMAIN activeList /\ activeList'[j] = activeList[j + 1]
        /\ k + 1 \in DOMAIN activeList /\ activeList'[k] = activeList[k + 1]
    BY <1>2
  <2>3. j + 1 <= k + 1
    BY <2>1, <1>3
  <2> QED BY <2>2, <2>3
<1> QED BY <1>1, <1>2, <1>3, ReleaseKeepsInv

LEMMA ShiftInv ==
  ASSUME TimerInv, NEW now \in Int, ShiftTimer(now)
  PROVE  TimerInv'
<1>1. activeList # <<>>
  BY DEF ShiftTimer, Due
<1>2. PICK i \in Positions, rest \in Seq(Positions) :
        /\ i = Head(activeList) /\ i \in ToSet(activeList)
        /\ rest = Tail(activeList) /\ IsInjective(rest)
        /\ ToSet(rest) = ToSet(activeList) \ {i}
        /\ \A k \in DOMAIN rest : k + 1 \in DOMAIN activeList
                                  /\ rest[k] = activeList[k + 1]
  BY <1>1, FirstTaken
<1>3. CASE ~entry[i].isInterval
  <2>1. DrainTimer
    BY <1>1, <1>3, <1>2 DEF ShiftTimer, DrainTimer, KeepsRunning
  <2> QED BY <2>1, DrainInv
<1>4. CASE entry[i].isInterval
  <2>1. /\ entry' = [entry EXCEPT ![i] = Rearmed(@, now)]
        /\ activeList' = InsertAt(rest,
             InsertPosition(rest, entry, Rearmed(entry[i], now).timePoint), i)
        /\ freeList' = freeList
    BY <1>4, <1>2 DEF ShiftTimer, KeepsRunning
  <2>3. entry \in [Positions -> Entries] /\ freeList \in Seq(Positions)
        /\ activeList \in Seq(Positions)
    BY DEF TimerInv, TimerTypeOK
  <2>4. /\ Rearmed(entry[i], now) \in Entries
        /\ Rearmed(entry[i], now).active = entry[i].active
        /\ Rearmed(entry[i], now).timeout = entry[i].timeout
    <3>1. entry[i] \in Entries
      BY <1>2, <2>3
    <3> QED BY <3>1 DEF Rearmed, Entries
  <2>5. /\ entry' \in [Positions -> Entries]
        /\ entry'[i] = Rearmed(entry[i], now)
        /\ \A j \in Positions : j # i => entry'[j] = entry[j]
    BY <2>1, <1>2, <2>3, <2>4
  <2>6. Timed(entry) /\ Timed(entry')
    BY <2>3, <2>5 DEF Entries, Timed
  <2>7. i \notin ToSet(rest) /\ SameTimes(rest, entry, entry')
    BY <1>2, <2>3, <2>5, MemberOf DEF SameTimes
  <2>8. InOrder(rest, entry)
    <3> SUFFICES ASSUME NEW j \in DOMAIN rest, NEW k \in DOMAIN rest, j <= k
                 PROVE  entry[rest[j]].timePoint <= entry[rest[k]].timePoint
      BY DEF InOrder
    <3>1. j \in Int /\ k \in Int
      BY <1>2
    <3>2. j + 1 <= k + 1 /\ j + 1 \in DOMAIN activeList /\ k + 1 \in DOMAIN activeList
      BY <3>1, <1>2
    <3> QED BY <3>2, <1>2 DEF TimerInv, Ordered, InOrder
  <2>9. /\ activeList' \in Seq(Positions) /\ IsInjective(activeList')
        /\ ToSet(activeList') = ToSet(rest) \cup {i}
        /\ InOrder(activeList', entry')
    <3>1. activeList' = InsertAt(rest,
                          InsertPosition(rest, entry, entry'[i].timePoint), i)
      BY <2>1, <2>5
    <3>2. i \in Positions /\ rest \in Seq(Positions) /\ IsInjective(rest)
      BY <1>2
    <3>3. i \notin ToSet(rest) /\ SameTimes(rest, entry, entry')
      BY <2>7
    <3>4. Timed(entry) /\ Timed(entry') /\ InOrder(rest, entry)
      BY <2>6, <2>8
    <3> DEFINE new == InsertAt(rest, InsertPosition(rest, entry, entry'[i].timePoint), i)
    <3>5. new \in Seq(Positions) /\ IsInjective(new)
          /\ ToSet(new) = ToSet(rest) \cup {i} /\ InOrder(new, entry')
      BY ONLY <3>2, <3>3, <3>4, InsertKeepsOrder
    <3> HIDE DEF new
    <3> QED BY <3>1, <3>5 DEF new
  <2>10. TimerTypeOK'
    BY <2>1, <2>3, <2>5, <2>9 DEF TimerTypeOK
  <2>11. EachInOneList'
    BY <2>1, <1>2, <2>4, <2>5, <2>9 DEF TimerInv, EachInOneList
  <2>12. Ordered'
    BY <2>9 DEF Ordered
  <2>13. PeriodsPositive'
    BY <1>2, <2>4, <2>5 DEF TimerInv, PeriodsPositive
  <2> QED BY <2>10, <2>11, <2>12, <2>13 DEF TimerInv
<1> QED BY <1>3, <1>4

LEMMA StopInv ==
  ASSUME TimerInv, NEW id \in Identifiers, StopTimer(id)
  PROVE  TimerInv'
<1> DEFINE i == id[2]
           p == CHOOSE k \in DOMAIN activeList : activeList[k] = i
<1>1. /\ i \in Positions /\ entry[i].active
      /\ entry' = [entry EXCEPT ![i] = Released(@)]
      /\ activeList' = RemoveAt(activeList, p)
      /\ freeList' = Append(freeList, i)
  BY DEF StopTimer, Runs, Unlinked, Identifiers
<1>2. activeList \in Seq(Positions) /\ IsInjective(activeList)
  BY DEF TimerInv, TimerTypeOK, EachInOneList
<1>3. i \in ToSet(activeList)
  BY <1>1 DEF TimerInv, EachInOneList
<1>4. p \in 1 .. Len(activeList) /\ activeList[p] = i
  BY <1>2, <1>3, MemberOf
<1> HIDE DEF p, i
<1>5. /\ activeList' \in Seq(Positions) /\ IsInjective(activeList')
      /\ ToSet(activeList') = ToSet(activeList) \ {i}
      /\ Len(activeList') = Len(activeList) - 1
      /\ \A k \in 1 .. Len(activeList) - 1 :
           activeList'[k] = IF k < p THEN activeList[k] ELSE activeList[k + 1]
  <2> DEFINE new == RemoveAt(activeList, p)
  <2>1. /\ new \in Seq(Positions) /\ IsInjective(new)
        /\ ToSet(new) = ToSet(activeList) \ {activeList[p]}
        /\ Len(new) = Len(activeList) - 1
        /\ \A k \in 1 .. Len(activeList) - 1 :
             new[k] = IF k < p THEN activeList[k] ELSE activeList[k + 1]
    BY ONLY <1>2, <1>4, RemoveAtList
  <2> HIDE DEF new
  <2>2. activeList' = new
    BY <1>1 DEF new
  <2> QED BY <2>1, <2>2, <1>4
<1>6. ASSUME NEW j \in DOMAIN activeList', NEW k \in DOMAIN activeList', j <= k
      PROVE  \E m, n \in DOMAIN activeList :
               m <= n /\ activeList'[j] = activeList[m] /\ activeList'[k] = activeList[n]
  <2> DEFINE m == IF j < p THEN j ELSE j + 1
             n == IF k < p THEN k ELSE k + 1
  <2>1. Len(activeList) \in Nat /\ DOMAIN activeList = 1 .. Len(activeList)
        /\ DOMAIN activeList' = 1 .. Len(activeList) - 1
    BY <1>2, <1>5
  <2>2. m \in DOMAIN activeList /\ n \in DOMAIN activeList /\ m <= n
    BY <2>1, <1>4, <1>6
  <2>3. activeList'[j] = activeList[m] /\ activeList'[k] = activeList[n]
    BY <2>1, <1>5
  <2> QED BY <2>2, <2>3
<1> QED BY <1>1, <1>3, <1>5, <1>6, ReleaseKeepsInv

(* The lists are sound and in order whatever the size of the table, the      *)
(* times and the order of calls.                                             *)
THEOREM TimerInvariant == TimerSpec => []TimerInv
<1>1. TimerInit => TimerInv
  BY InitInv
<1>2. TimerInv /\ [TimerNext]_timerVars => TimerInv'
  <2> SUFFICES ASSUME TimerInv, [TimerNext]_timerVars PROVE TimerInv'
    OBVIOUS
  <2>1. ASSUME NEW isInterval \in BOOLEAN, NEW now \in Times, NEW timeout \in Delays,
               NEW data \in Data, StartTimer(isInterval, now, timeout, data)
        PROVE  TimerInv'
    BY <2>1, StartInv, TimesAssumption
  <2>2. ASSUME NEW now \in Times, ShiftTimer(now) PROVE TimerInv'
    BY <2>2, ShiftInv, TimesAssumption
  <2>3. CASE DrainTimer
    BY <2>3, DrainInv
  <2>4. ASSUME NEW id \in Identifiers, StopTimer(id) PROVE TimerInv'
    BY <2>4, StopInv
  <2>5. CASE UNCHANGED timerVars
    BY <2>5 DEF TimerInv, TimerTypeOK, EachInOneList, Ordered, InOrder, PeriodsPositive, timerVars
  <2> QED BY <2>1, <2>2, <2>3, <2>4, <2>5 DEF TimerNext
<1> QED BY <1>1, <1>2, PTL DEF TimerSpec

(* No entry is lost: each is in the one list its flag calls for, once.       *)
COROLLARY NoEntryIsLost == TimerSpec => []EachInOneList
<1>1. TimerInv => EachInOneList
  BY DEF TimerInv
<1> QED BY <1>1, TimerInvariant, PTL

(* The first active timer is the one that is due first.                      *)
COROLLARY TimersInOrder == TimerSpec => []Ordered
<1>1. TimerInv => Ordered
  BY DEF TimerInv
<1> QED BY <1>1, TimerInvariant, PTL

-----------------------------------------------------------------------------
(* The running timers, as the abstract set sees them. *)
Running == [id \in Active |-> AsRunning(entry[id[2]])]

LEMMA ActiveIds ==
  ASSUME TimerInv
  PROVE  /\ \A i \in ToSet(activeList) : i \in Positions /\ entry[i] \in Entries
         /\ \A i \in ToSet(activeList) : IdOf(i) \in Active /\ IdOf(i)[2] = i
                                         /\ IdOf(i) \in Identifiers
         /\ \A id \in Active : id[2] \in ToSet(activeList) /\ id = IdOf(id[2])
<1>1. \A i \in ToSet(activeList) : i \in Positions /\ entry[i] \in Entries
  BY MemberOf DEF TimerInv, TimerTypeOK
<1>2. \A i : IdOf(i) = <<entry[i].gen, i>> /\ IdOf(i)[2] = i
  BY DEF IdOf
<1>3. \A i \in ToSet(activeList) : entry[i].gen \in 0 .. Generations - 1
  BY <1>1 DEF Entries
<1> QED BY <1>1, <1>2, <1>3 DEF Active, IdOf, Identifiers

(* A removal takes the entry's timer out of the abstract set.                *)
LEMMA ReleaseRefines ==
  ASSUME TimerInv, NEW i \in ToSet(activeList),
         entry' = [entry EXCEPT ![i] = Released(@)],
         ToSet(activeList') = ToSet(activeList) \ {i}
  PROVE  Running' = Abstract!Without(Running, IdOf(i))
<1>1. \A j \in ToSet(activeList) : j \in Positions /\ (j # i => entry'[j] = entry[j])
  BY ActiveIds DEF TimerInv, TimerTypeOK
<1>2. Active' = Active \ {IdOf(i)}
  <2>1. Active' = {<<entry'[j].gen, j>> : j \in ToSet(activeList) \ {i}}
    BY DEF Active, IdOf
  <2>2. Active' = {<<entry[j].gen, j>> : j \in ToSet(activeList) \ {i}}
    BY <2>1, <1>1
  <2> QED BY <2>2 DEF Active, IdOf
<1>3. \A id \in Active' : AsRunning(entry[id[2]])' = AsRunning(entry[id[2]])
  <2> TAKE id \in Active'
  <2>1. id \in Active /\ id # IdOf(i)
    BY <1>2
  <2>2. id[2] \in ToSet(activeList) /\ id[2] # i
    BY <2>1, ActiveIds
  <2>3. entry'[id[2]] = entry[id[2]]
    BY <1>1, <2>2
  <2> QED BY <2>3 DEF AsRunning
<1>4. DOMAIN Running = Active
  BY DEF Running
<1>5. Running' = [id \in Active \ {IdOf(i)} |-> AsRunning(entry[id[2]])]
  BY <1>2, <1>3 DEF Running
<1>6. \A id \in Active : Running[id] = AsRunning(entry[id[2]])
  BY DEF Running
<1>7. Abstract!Without(Running, IdOf(i)) = [id \in Active \ {IdOf(i)} |-> Running[id]]
  BY <1>4 DEF Abstract!Without, Running
<1> QED BY <1>5, <1>6, <1>7

LEMMA StartRefines ==
  ASSUME TimerInv, NEW isInterval \in BOOLEAN, NEW now \in Times, NEW timeout \in Delays,
         NEW data \in Data, StartTimer(isInterval, now, timeout, data)
  PROVE  \E id \in Identifiers,
            t \in [due : {n + d : n \in Times, d \in Delays},
                   every : Delays \cup {0}, data : Data] :
           /\ id \notin DOMAIN Running
           /\ Running' = Abstract!With(Running, id, t)
<1> DEFINE t == [due |-> now + timeout, every |-> IF isInterval THEN timeout ELSE 0,
                 data |-> data]
<1>1. now \in Int /\ timeout \in Int /\ TimerInv'
  BY StartInv, TimesAssumption
<1>2. PICK i \in Positions : i = Head(freeList) /\ i \in ToSet(freeList)
  BY TailList DEF StartTimer, StartRefused, TimerInv, TimerTypeOK
<1>3. entry' = [entry EXCEPT ![i] =
         [gen |-> entry[i].gen, active |-> TRUE, isInterval |-> isInterval,
          timeout |-> timeout, timePoint |-> timeout + now, data |-> data]]
  BY <1>2 DEF StartTimer
<1>4. /\ entry'[i].gen = entry[i].gen /\ entry'[i].active
      /\ AsRunning(entry'[i]) = t
      /\ \A j \in Positions : j # i => entry'[j] = entry[j]
  <2>1. entry \in [Positions -> Entries]
    BY DEF TimerInv, TimerTypeOK
  <2>2. entry'[i] =
         [gen |-> entry[i].gen, active |-> TRUE, isInterval |-> isInterval,
          timeout |-> timeout, timePoint |-> timeout + now, data |-> data]
    BY <1>3, <2>1
  <2>3. timeout + now = now + timeout
    BY <1>1
  <2> QED BY <2>1, <2>2, <2>3, <1>3 DEF AsRunning
<1>5. i \notin ToSet(activeList) /\ ToSet(activeList') = ToSet(activeList) \cup {i}
  <2>1. ToSet(activeList) \subseteq Positions /\ ToSet(activeList') \subseteq Positions
    BY <1>1, MemberOf DEF TimerInv, TimerTypeOK
  <2>2. \A j \in Positions : /\ j \in ToSet(activeList) <=> entry[j].active
                             /\ j \in ToSet(activeList') <=> entry'[j].active
                             /\ j \in ToSet(freeList) <=> ~entry[j].active
    BY <1>1 DEF TimerInv, EachInOneList
  <2> QED BY <2>1, <2>2, <1>2, <1>4
<1>6. \A j \in ToSet(activeList) : j # i /\ entry'[j] = entry[j]
  BY <1>4, <1>5, ActiveIds
<1>7. Active' = Active \cup {IdOf(i)} /\ IdOf(i) \notin Active
  <2>1. Active' = {<<entry'[j].gen, j>> : j \in ToSet(activeList) \cup {i}}
    BY <1>5 DEF Active, IdOf
  <2>2. Active' = {<<entry[j].gen, j>> : j \in ToSet(activeList)} \cup {<<entry[i].gen, i>>}
    BY <2>1, <1>4, <1>6
  <2> QED BY <2>2, <1>6 DEF Active, IdOf
<1>8. \A id \in Active' :
        AsRunning(entry[id[2]])' = IF id = IdOf(i) THEN t ELSE AsRunning(entry[id[2]])
  <2> TAKE id \in Active'
  <2>1. CASE id = IdOf(i)
    BY <2>1, <1>4 DEF IdOf, AsRunning
  <2>2. CASE id # IdOf(i)
    <3>1. id[2] \in ToSet(activeList)
      BY <2>2, <1>7, ActiveIds
    <3>2. entry'[id[2]] = entry[id[2]]
      BY <3>1, <1>6
    <3> QED BY <3>2, <2>2 DEF AsRunning
  <2> QED BY <2>1, <2>2
<1> DEFINE f == [id \in Active \cup {IdOf(i)} |->
                   IF id = IdOf(i) THEN t ELSE AsRunning(entry[id[2]])]
<1>9. Running' = f
  BY <1>7, <1>8 DEF Running
<1>10. Abstract!With(Running, IdOf(i), t) = f
  BY DEF Abstract!With, Running
<1>11. IdOf(i) \in Identifiers
  <2>1. entry[i] \in Entries
    BY DEF TimerInv, TimerTypeOK
  <2> QED BY <2>1 DEF IdOf, Identifiers, Entries
<1>12. t \in [due : {n + d : n \in Times, d \in Delays},
              every : Delays \cup {0}, data : Data]
  OBVIOUS
<1>13. IdOf(i) \notin DOMAIN Running
  BY <1>7 DEF Running
<1> HIDE DEF t, f
<1> QED BY <1>9, <1>10, <1>11, <1>12, <1>13

(* The first timer is running, and none is due before it.                    *)
LEMMA FirstIsDue ==
  ASSUME TimerInv, NEW now, Due(now)
  PROVE  LET id == IdOf(Head(activeList))
         IN /\ id \in DOMAIN Running /\ Running[id] = AsRunning(entry[Head(activeList)])
            /\ Running[id].due <= now
            /\ \A other \in DOMAIN Running : Running[id].due <= Running[other].due
<1> DEFINE i == Head(activeList)
<1>1. /\ i \in ToSet(activeList) /\ entry[i].timePoint <= now
      /\ \A k \in DOMAIN activeList : entry[i].timePoint <= entry[activeList[k]].timePoint
  BY FirstTaken DEF Due
<1>2. IdOf(i) \in Active /\ IdOf(i)[2] = i
  BY <1>1, ActiveIds
<1>3. DOMAIN Running = Active /\ \A id \in Active : Running[id] = AsRunning(entry[id[2]])
  BY DEF Running
<1>4. \A id \in Active : AsRunning(entry[id[2]]).due = entry[id[2]].timePoint
  BY DEF AsRunning
<1>5. \A id \in Active : entry[i].timePoint <= entry[id[2]].timePoint
  <2> TAKE id \in Active
  <2>1. PICK k \in DOMAIN activeList : activeList[k] = id[2]
    BY ActiveIds DEF ToSet
  <2> QED BY <2>1, <1>1
<1> QED BY <1>1, <1>2, <1>3, <1>4, <1>5

LEMMA RearmRefines ==
  ASSUME TimerInv, NEW now \in Int, ShiftTimer(now), entry[Head(activeList)].isInterval
  PROVE  LET id == IdOf(Head(activeList))
             t == Running[id]
         IN t.every # 0
            /\ Running' = Abstract!With(Running, id, [t EXCEPT !.due = @ + t.every])
<1>1. activeList # <<>> /\ TimerInv'
  BY ShiftInv DEF ShiftTimer, Due
<1>2. PICK i \in Positions : i = Head(activeList) /\ i \in ToSet(activeList)
  BY <1>1, FirstTaken
<1> DEFINE t == AsRunning(entry[i])
           new == [t EXCEPT !.due = @ + t.every]
<1>3. entry' = [entry EXCEPT ![i] = Rearmed(@, now)]
  BY <1>2 DEF ShiftTimer, KeepsRunning
<1>4. /\ entry'[i].gen = entry[i].gen /\ entry'[i].active = entry[i].active
      /\ AsRunning(entry'[i]) = new /\ t.every # 0
      /\ \A j \in Positions : j # i => entry'[j] = entry[j]
  <2>1. entry \in [Positions -> Entries] /\ entry[i] \in Entries
    BY DEF TimerInv, TimerTypeOK
  <2>2. entry'[i] = Rearmed(entry[i], now)
    BY <1>3, <2>1
  <2>3. entry[i].isInterval /\ entry[i].timeout > 0 /\ entry[i].timeout \in Nat
    BY <1>2, <2>1 DEF TimerInv, PeriodsPositive, EachInOneList, Entries
  <2>4. t = [due |-> entry[i].timePoint, every |-> entry[i].timeout, data |-> entry[i].data]
    BY <2>3 DEF AsRunning
  <2>5. new = [due |-> entry[i].timePoint + entry[i].timeout,
               every |-> entry[i].timeout, data |-> entry[i].data]
    BY <2>4
  <2>6. /\ entry'[i].gen = entry[i].gen /\ entry'[i].active = entry[i].active
        /\ entry'[i].isInterval = entry[i].isInterval
        /\ entry'[i].timeout = entry[i].timeout /\ entry'[i].data = entry[i].data
        /\ entry'[i].timePoint = entry[i].timePoint + entry[i].timeout
    BY <2>1, <2>2 DEF Rearmed, Entries
  <2>7. AsRunning(entry'[i]) = new
    BY <2>3, <2>5, <2>6 DEF AsRunning
  <2>8. t.every # 0
    BY <2>3, <2>4
  <2> QED BY <2>1, <2>6, <2>7, <2>8, <1>3
<1>5. ToSet(activeList') = ToSet(activeList)
  <2>1. ToSet(activeList) \subseteq Positions /\ ToSet(activeList') \subseteq Positions
    BY <1>1, MemberOf DEF TimerInv, TimerTypeOK
  <2>2. \A j \in Positions : /\ j \in ToSet(activeList) <=> entry[j].active
                             /\ j \in ToSet(activeList') <=> entry'[j].active
    BY <1>1 DEF TimerInv, EachInOneList
  <2>3. \A j \in Positions : entry'[j].active = entry[j].active
    BY <1>4
  <2> QED BY <2>1, <2>2, <2>3
<1>6. Active' = Active
  <2>1. \A j \in ToSet(activeList) : entry'[j].gen = entry[j].gen
    BY <1>4, ActiveIds
  <2>2. Active' = {<<entry'[j].gen, j>> : j \in ToSet(activeList)}
    BY <1>5 DEF Active, IdOf
  <2> QED BY <2>1, <2>2 DEF Active, IdOf
<1>7. IdOf(i) \in Active /\ IdOf(i)[2] = i /\ \A id \in Active : id = IdOf(id[2]) /\ id[2] \in Positions
  BY <1>2, ActiveIds
<1>8. \A id \in Active' :
        AsRunning(entry[id[2]])' = IF id = IdOf(i) THEN new ELSE AsRunning(entry[id[2]])
  <2> TAKE id \in Active'
  <2>1. CASE id = IdOf(i)
    BY <2>1, <1>4, <1>7 DEF AsRunning
  <2>2. CASE id # IdOf(i)
    <3>1. entry'[id[2]] = entry[id[2]]
      BY <2>2, <1>4, <1>6, <1>7
    <3> QED BY <3>1, <2>2 DEF AsRunning
  <2> QED BY <2>1, <2>2
<1>9. Running[IdOf(i)] = t
  BY <1>7 DEF Running
<1> HIDE DEF new, t
<1> DEFINE f == [id \in Active |-> IF id = IdOf(i) THEN new ELSE AsRunning(entry[id[2]])]
<1>10. Running' = f
  BY <1>6, <1>8 DEF Running
<1>11. Abstract!With(Running, IdOf(i), new) = f
  <2>1. Active \cup {IdOf(i)} = Active
    BY <1>7
  <2> QED BY <2>1 DEF Abstract!With, Running
<1> QED BY <1>2, <1>4, <1>9, <1>10, <1>11 DEF new

LEMMA ShiftRefines ==
  ASSUME TimerInv, NEW now \in Times, ShiftTimer(now)
  PROVE  \E id \in Active : Abstract!Expire(id, now)
<1>1. Due(now) /\ activeList # <<>> /\ now \in Int
  BY TimesAssumption DEF ShiftTimer, Due
<1>2. PICK i \in Positions : i = Head(activeList) /\ i \in ToSet(activeList)
  BY <1>1, FirstTaken
<1>3. /\ IdOf(i) \in Active /\ Running[IdOf(i)] = AsRunning(entry[i])
      /\ Running[IdOf(i)].due <= now
      /\ \A other \in DOMAIN Running : Running[IdOf(i)].due <= Running[other].due
  BY <1>1, <1>2, FirstIsDue DEF Running
<1>4. \/ /\ Running[IdOf(i)].every = 0
         /\ Running' = Abstract!Without(Running, IdOf(i))
      \/ /\ Running[IdOf(i)].every # 0
         /\ Running' = Abstract!With(Running, IdOf(i),
              [Running[IdOf(i)] EXCEPT !.due = @ + Running[IdOf(i)].every])
  <2>1. CASE entry[i].isInterval
    BY <1>1, <1>2, <2>1, RearmRefines
  <2>2. CASE ~entry[i].isInterval
    <3>1. /\ entry' = [entry EXCEPT ![i] = Released(@)]
          /\ activeList' = Tail(activeList)
      BY <1>2, <2>2 DEF ShiftTimer, KeepsRunning
    <3>2. ToSet(activeList') = ToSet(activeList) \ {i}
      BY <3>1, <1>1, <1>2, FirstTaken
    <3>3. Running[IdOf(i)].every = 0
      BY <1>3, <2>2 DEF AsRunning
    <3> QED BY <3>1, <3>2, <3>3, <1>2, ReleaseRefines
  <2> QED BY <2>1, <2>2
<1>5. Abstract!Expire(IdOf(i), now)
  BY <1>3, <1>4 DEF Abstract!Expire, Running
<1> QED BY <1>3, <1>5

(* Every operation of the queue is one of the abstract set's: identifiers of *)
(* running timers are distinct, timers expire in the order they are due, and *)
(* stopping one leaves the others alone.                                     *)
THEOREM QueueImplementsSet == TimerSpec => ImplementsTimerSet
<1>1. TimerInit => Abstract!Init
  <2> SUFFICES ASSUME TimerInit PROVE Running = [i \in {} |-> 0]
    BY DEF Abstract!Init, Running
  <2>1. Active = {}
    BY DEF TimerInit, Active, ToSet
  <2> QED BY <2>1 DEF Running
<1>2. TimerInv /\ [TimerNext]_timerVars => [Abstract!Next]_(Abstract!vars)
  <2> SUFFICES ASSUME TimerInv, [TimerNext]_timerVars
               PROVE  Abstract!Next \/ Running' = Running
    BY DEF Abstract!vars, Running
  <2>1. ASSUME NEW i \in ToSet(activeList),
               Running' = Abstract!Without(Running, IdOf(i))
        PROVE  Abstract!Next
    <3>1. IdOf(i) \in DOMAIN Running
      BY ActiveIds DEF Running
    <3>2. Abstract!Stop(IdOf(i))
      BY <2>1 DEF Abstract!Stop, Running
    <3> QED BY <3>1, <3>2 DEF Abstract!Next, Running
  <2>2. ASSUME NEW isInterval \in BOOLEAN, NEW now \in Times, NEW timeout \in Delays,
               NEW data \in Data, StartTimer(isInterval, now, timeout, data)
        PROVE  Abstract!Next
    <3> DEFINE Starts == [due : {n + d : n \in Times, d \in Delays},
                          every : Delays \cup {0}, data : Data]
    <3>1. PICK id \in Identifiers, t \in Starts :
            id \notin DOMAIN Running /\ Running' = Abstract!With(Running, id, t)
      BY <2>2, StartRefines
    <3>2. Abstract!Start(id, t)
      BY <3>1 DEF Abstract!Start, Running
    <3> QED BY <3>2 DEF Abstract!Next
  <2>3. ASSUME NEW now \in Times, ShiftTimer(now) PROVE Abstract!Next
    <3>1. PICK id \in Active : Abstract!Expire(id, now)
      BY <2>3, ShiftRefines
    <3>2. id \in DOMAIN Running
      BY DEF Running
    <3> QED BY <3>1, <3>2 DEF Abstract!Next, Running
  <2>4. CASE DrainTimer
    <3>1. PICK i \in Positions : i = Head(activeList) /\ i \in ToSet(activeList)
      BY <2>4, FirstTaken DEF DrainTimer
    <3>2. /\ entry' = [entry EXCEPT ![i] = Released(@)]
          /\ ToSet(activeList') = ToSet(activeList) \ {i}
      BY <2>4, <3>1, FirstTaken DEF DrainTimer
    <3> QED BY <3>1, <3>2, <2>1, ReleaseRefines
  <2>5. ASSUME NEW id \in Identifiers, StopTimer(id) PROVE Abstract!Next
    <3>1. /\ id[2] \in Positions /\ entry[id[2]].active /\ TimerInv'
          /\ entry' = [entry EXCEPT ![id[2]] = Released(@)]
      BY <2>5, StopInv DEF StopTimer, Runs, Identifiers
    <3>2. PICK i \in ToSet(activeList) : i = id[2]
      BY <3>1 DEF TimerInv, EachInOneList
    <3>3. ToSet(activeList') = ToSet(activeList) \ {i}
      <4>1. ToSet(activeList) \subseteq Positions /\ ToSet(activeList') \subseteq Positions
        BY <3>1, MemberOf DEF TimerInv, TimerTypeOK
      <4>2. \A j \in Positions : /\ j \in ToSet(activeList) <=> entry[j].active
                                 /\ j \in ToSet(activeList') <=> entry'[j].active
        BY <3>1 DEF TimerInv, EachInOneList
      <4>3. entry \in [Positions -> Entries] /\ ~Released(entry[i]).active
        BY <3>1, <3>2, ReleasedEntry DEF TimerInv, TimerTypeOK
      <4>4. ~entry'[i].active /\ \A j \in Positions : j # i => entry'[j] = entry[j]
        BY <4>3, <3>1, <3>2
      <4> QED BY <4>1, <4>2, <4>4
    <3> QED BY <3>1, <3>2, <3>3, <2>1, ReleaseRefines
  <2>6. CASE UNCHANGED timerVars
    BY <2>6 DEF timerVars, Running, Active, IdOf, AsRunning
  <2> QED BY <2>2, <2>3, <2>4, <2>5, <2>6 DEF TimerNext
<1>3. TimerInv /\ [TimerNext]_timerVars =>
        [\A now \in Times : ShiftTimer(now)
           => \E id \in Active : Abstract!Expire(id, now)]_timerVars
  BY ShiftRefines
<1> QED BY <1>1, <1>2, <1>3, TimerInvariant, PTL
        DEF TimerSpec, ImplementsTimerSet, ShiftsAreExpiries, Abstract!Spec

=============================================================================
