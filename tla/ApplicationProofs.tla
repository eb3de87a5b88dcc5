------------------------- MODULE ApplicationProofs -------------------------
(***************************************************************************)
(* What an application rests on, for all sizes: the ring of its log holds   *)
(* the last lines; the modules that its threads load are shared, counted    *)
(* and initialized once; it goes from create to finalize in order, and an    *)
(* event calls each listener that was there all along; a descriptor is found *)
(* until it is given back; a file is found by its path; a reply about an    *)
(* account is true. Each of the six has an inductive invariant.             *)
(***************************************************************************)
EXTENDS LogCircular, DescSet, ModuleLoading, Application, DataStores,
        ListLemmas, SequenceTheorems, FunctionTheorems, FiniteSetTheorems, TLAPS

(***************************************************************************)
(* The log.                                                                *)
(***************************************************************************)

Positions == 0 .. Capacity - 1

(* How many lines there were. *)
Count == Len(printed)

(* Lines are numbered as they come, and the position is where the next one goes. *)
Numbered ==
  /\ printed \in Seq(Nat)
  /\ \A i \in 1 .. Count : printed[i] = i
  /\ position \in Positions
  /\ isFull \in BOOLEAN
  /\ isFull => Count >= Capacity
  /\ ~isFull => Count = position

(* In front of the position is what came last, behind it what came a round before. *)
LineAt(p) ==
  IF p < position THEN Count - position + p + 1
  ELSE IF isFull THEN Count - position - Capacity + p + 1
  ELSE 0
Placed == items = [p \in Positions |-> LineAt(p)]

(* The lines allocated are the last ones, as many as the ring has or there are. *)
Kept == allocated = { n \in Nat : Count - (IF isFull THEN Capacity ELSE position) < n /\ n <= Count }

RingInv == Numbered /\ Placed /\ Kept

-----------------------------------------------------------------------------

(* The remainder of less than twice the capacity. *)
LEMMA OnceRound ==
  ASSUME NEW c \in Nat \ {0}, NEW x \in Nat, x < 2 * c
  PROVE  x % c = IF x < c THEN x ELSE x - c
  OBVIOUS

(* The ring is empty at first. *)
LEMMA RingInit ==
  ASSUME Capacity \in Nat \ {0}, LogInit
  PROVE  RingInv
<1>1. Count = 0 /\ position = 0 /\ ~isFull /\ isFull \in BOOLEAN /\ printed = << >>
  BY DEF LogInit, Count
<1>2. Numbered
  BY <1>1 DEF Numbered, Positions
<1>3. Placed
  BY <1>1 DEF LogInit, Placed, LineAt, Positions
<1>4. Kept
  BY <1>1 DEF LogInit, Kept
<1> QED
  BY <1>2, <1>3, <1>4 DEF RingInv

(* A line takes the place of the oldest one, which is freed. (NQLogCircular_vprint.) *)
LEMMA RingNext ==
  ASSUME Capacity \in Nat \ {0}, RingInv, [LogNext]_logVars
  PROVE  RingInv'
<1>1. CASE UNCHANGED logVars
  BY <1>1 DEF logVars, RingInv, Numbered, Placed, LineAt, Kept, Positions, Count
<1>2. CASE LogNext
  <2>1. PICK memory \in BOOLEAN : NQLogCircular_vprint(memory)
    BY <1>2 DEF LogNext
  <2>2. /\ printed' = Append(printed, Count + 1)
        /\ items' = [items EXCEPT ![position] = Count + 1]
        /\ allocated' = (allocated \ (IF isFull THEN {items[position]} ELSE {})) \cup {Count + 1}
        /\ position' = IF position + 1 >= Capacity THEN 0 ELSE position + 1
        /\ isFull' = (isFull \/ position + 1 >= Capacity)
    BY <2>1 DEF NQLogCircular_vprint, Count
  <2>3. Count \in Nat /\ Count' = Count + 1
    BY <2>2 DEF RingInv, Numbered, Count
  <2>4. \/ isFull /\ isFull'
        \/ ~isFull /\ isFull' /\ position + 1 >= Capacity
        \/ ~isFull /\ ~isFull' /\ ~(position + 1 >= Capacity)
    BY <2>2, Zenon
  <2>5. Numbered'
    <3>1. printed' \in Seq(Nat) /\ \A i \in 1 .. Count' : printed'[i] = i
      BY <2>2, <2>3 DEF RingInv, Numbered, Count
    <3>2. position' \in Positions /\ isFull' \in BOOLEAN
      BY <2>2 DEF RingInv, Numbered, Positions
    <3>3. (isFull' => Count' >= Capacity) /\ (~isFull' => Count' = position')
      BY <2>2, <2>3, <2>4 DEF RingInv, Numbered, Positions
    <3> QED
      BY <3>1, <3>2, <3>3 DEF Numbered, Positions
  <2>6. Placed'
    <3>1. DOMAIN items = Positions /\ \A p \in Positions : items[p] = LineAt(p)
      BY DEF RingInv, Placed
    <3>2. ASSUME NEW p \in Positions
          PROVE  items'[p] = LineAt(p)'
      <4>1. p \in Nat /\ p < Capacity /\ position \in Nat /\ position < Capacity
        BY DEF RingInv, Numbered, Positions
      <4>2. items'[p] = IF p = position THEN Count + 1 ELSE LineAt(p)
        BY <2>2, <3>1
      <4>3. CASE isFull /\ isFull'
        BY <2>2, <2>3, <4>1, <4>2, <4>3 DEF LineAt
      <4>4. CASE ~isFull /\ isFull' /\ position + 1 >= Capacity
        BY <2>2, <2>3, <4>1, <4>2, <4>4 DEF RingInv, Numbered, LineAt
      <4>5. CASE ~isFull /\ ~isFull' /\ ~(position + 1 >= Capacity)
        BY <2>2, <2>3, <4>1, <4>2, <4>5 DEF RingInv, Numbered, LineAt
      <4> QED
        BY <2>4, <4>3, <4>4, <4>5
    <3> QED
      BY <2>2, <3>1, <3>2 DEF Placed, Positions
  <2>7. Kept'
    <3>1. isFull => items[position] = Count - Capacity + 1
      BY <2>3 DEF RingInv, Numbered, Placed, LineAt, Positions
    <3>2. CASE isFull /\ isFull'
      <4>1. allocated = { n \in Nat : Count - Capacity < n /\ n <= Count }
        BY <3>2 DEF RingInv, Kept
      <4>2. allocated' = (allocated \ {Count - Capacity + 1}) \cup {Count + 1}
        BY <2>2, <3>1, <3>2
      <4>3. allocated' = { n \in Nat : Count + 1 - Capacity < n /\ n <= Count + 1 }
        BY <2>3, <4>1, <4>2
      <4> QED
        BY <2>3, <3>2, <4>3 DEF Kept
    <3>3. CASE ~isFull
      <4>1. allocated = { n \in Nat : 0 < n /\ n <= Count } /\ Count = position
        BY <2>3, <3>3 DEF RingInv, Numbered, Kept
      <4>2. allocated' = { n \in Nat : 0 < n /\ n <= Count + 1 }
        BY <2>2, <2>3, <3>3, <4>1
      <4>3. Count' - (IF isFull' THEN Capacity ELSE position') = 0
        BY <2>2, <2>3, <2>4, <3>3, <4>1 DEF RingInv, Numbered, Positions
      <4> QED
        BY <2>3, <4>2, <4>3 DEF Kept
    <3> QED
      BY <2>4, <3>2, <3>3
  <2> QED
    BY <2>5, <2>6, <2>7 DEF RingInv
<1> QED
  BY <1>1, <1>2

(* What is read by index. (NQLogCircular_getIndex.) *)
LEMMA RingRead ==
  ASSUME Capacity \in Nat \ {0}, RingInv
  PROVE  LastLines
<1> DEFINE n == NQLogCircular_count
<1>1. Count \in Nat /\ position \in Nat /\ position < Capacity
  BY DEF RingInv, Numbered, Count, Positions
<1>2. n \in Nat /\ n = (IF Count < Capacity THEN Count ELSE Capacity)
  BY <1>1 DEF RingInv, Numbered, NQLogCircular_count, Positions
<1>3. ASSUME NEW i \in 0 .. n - 1
      PROVE  NQLogCircular_at(i) = Count - n + i + 1
  <2>1. CASE isFull
    <3>1. n = Capacity /\ i \in Nat /\ i < Capacity
      BY <1>2, <2>1 DEF NQLogCircular_count
    <3>2. NQLogCircular_getIndex(i) = IF i + position < Capacity THEN i + position ELSE i + position - Capacity
      <4>1. i + position \in Nat /\ i + position < 2 * Capacity
        BY <1>1, <3>1
      <4>2. PICK x \in Nat : x = i + position /\ x < 2 * Capacity
        BY <4>1
      <4>3. NQLogCircular_getIndex(i) = x % Capacity
        BY <2>1, <4>2 DEF NQLogCircular_getIndex
      <4>4. x % Capacity = IF x < Capacity THEN x ELSE x - Capacity
        BY <4>2, OnceRound
      <4> QED
        BY <1>1, <3>1, <4>2, <4>3, <4>4
    <3> QED
      BY <1>1, <2>1, <3>1, <3>2 DEF RingInv, Placed, LineAt, Positions, NQLogCircular_at
  <2>2. CASE ~isFull
    <3>1. n = position /\ Count = position /\ i \in Nat /\ i < Capacity
      BY <1>1, <1>2, <2>2 DEF RingInv, Numbered, NQLogCircular_count
    <3>2. NQLogCircular_getIndex(i) = i
      BY <1>1, <2>2, <3>1, OnceRound DEF NQLogCircular_getIndex
    <3> QED
      BY <1>1, <2>2, <3>1, <3>2 DEF RingInv, Placed, LineAt, Positions, NQLogCircular_at
  <2> QED
    BY <2>1, <2>2
<1>4. \A i \in 0 .. n - 1 : NQLogCircular_at(i) = printed[Count - n + i + 1]
  BY <1>1, <1>2, <1>3 DEF RingInv, Numbered
<1>5. allocated = { NQLogCircular_at(i) : i \in 0 .. n - 1 }
  <2>1. allocated = { m \in Nat : Count - n < m /\ m <= Count }
    BY DEF RingInv, Kept, NQLogCircular_count
  <2>2. ASSUME NEW m \in Nat, Count - n < m, m <= Count
        PROVE  m \in { NQLogCircular_at(i) : i \in 0 .. n - 1 }
    <3>1. m - 1 - (Count - n) \in 0 .. n - 1
      BY <1>1, <1>2, <2>2
    <3>2. NQLogCircular_at(m - 1 - (Count - n)) = m
      BY <1>1, <1>2, <1>3, <3>1
    <3> QED
      BY <3>1, <3>2
  <2>3. \A i \in 0 .. n - 1 : NQLogCircular_at(i) \in Nat /\ Count - n < NQLogCircular_at(i) /\ NQLogCircular_at(i) <= Count
    BY <1>1, <1>2, <1>3
  <2> QED
    BY <2>1, <2>2, <2>3
<1> QED
  BY <1>2, <1>4, <1>5 DEF LastLines, Count

(* The ring holds the last lines, in order, and nothing else is allocated,
   whatever its capacity and whenever memory ends. (LogCircular.c.) *)
THEOREM RingHoldsLastLines ==
  ASSUME Capacity \in Nat \ {0}
  PROVE  LogSpec => []LastLines
<1>1. LogInit => RingInv
  BY RingInit
<1>2. RingInv /\ [LogNext]_logVars => RingInv'
  BY RingNext
<1>3. RingInv => LastLines
  BY RingRead
<1> QED
  BY <1>1, <1>2, <1>3, PTL DEF LogSpec

(***************************************************************************)
(* Modules. What a thread means to do with an entry, and what the counts    *)
(* count.                                                                  *)
(***************************************************************************)

Places == {"idle", "allocating", "inserting", "opening", "locked", "failed"}
EntryType == [path : Paths, refCount : Nat, library : BOOLEAN, freed : BOOLEAN]
LoaderType == [at : Places, path : Paths \cup {""}, entry : Nat, new : Nat]

LoadTypes ==
  /\ modulesList \in Seq(Nat) /\ IsInjective(modulesList)
  /\ entries \in Seq(EntryType)
  /\ loader \in [Loaders -> LoaderType]
  /\ loaded \in Seq(Nat)
  /\ inits \in [Paths -> Nat]

Listed == ToSet(modulesList)

(* The list has the entries that are not freed, one for each path. *)
ListSound ==
  /\ \A e \in Listed : e \in DOMAIN entries /\ ~entries[e].freed
  /\ \A d, e \in Listed : entries[d].path = entries[e].path => d = e
  /\ \A e \in DOMAIN entries : entries[e].library => e \in Listed

(* An entry on its way into the list is its thread's own, one in use is listed. *)
OwnEntry(t) ==
  LET new == loader[t].new
  IN /\ new \in DOMAIN entries /\ new \notin Listed
     /\ entries[new].path = loader[t].path /\ entries[new].refCount = 1 /\ ~entries[new].freed
     /\ \A u \in Loaders \ {t} : At(u, "inserting") => loader[u].new # new
InUse == {"opening", "locked", "failed"}
LoadersSound ==
  \A t \in Loaders :
    /\ loader[t].at # "idle" => loader[t].path \in Paths
    /\ At(t, "inserting") => OwnEntry(t)
    /\ loader[t].at \in InUse => loader[t].entry \in Listed /\ entries[loader[t].entry].path = loader[t].path

Holders(e) == {t \in Loaders : Holding(t, e)}
Loads(e) == {i \in DOMAIN loaded : loaded[i] = e}
CountsSound ==
  /\ \A i \in DOMAIN loaded : loaded[i] \in Listed
  /\ \A e \in Listed :
       /\ entries[e].refCount = Cardinality(Holders(e)) + Cardinality(Loads(e))
       /\ entries[e].library => Loads(e) # {}

InitsSound ==
  \A p \in Paths : inits[p] = IF \E e \in Listed : entries[e].path = p /\ entries[e].library THEN 1 ELSE 0

LoadInv == LoadTypes /\ ListSound /\ LoadersSound /\ CountsSound /\ InitsSound

(* The least of a set of numbers is one of them. *)
LEMMA MinIsIn ==
  ASSUME NEW I \in SUBSET Nat, I # {}
  PROVE  Min(I) \in I
<1>1. PICK n \in I : \A m \in I : n <= m
  BY LeastMember
<1> QED BY <1>1 DEF Min

(* findModuleEntry finds the entry of a path if the list has it. *)
LEMMA FoundIs ==
  ASSUME LoadTypes, ListSound, NEW path
  PROVE  \/ Found(path) = 0 /\ \A e \in Listed : entries[e].path # path
         \/ Found(path) # 0 /\ Found(path) \in Listed /\ entries[Found(path)].path = path
<1> DEFINE I == {i \in 1 .. Len(modulesList) : entries[modulesList[i]].path = path}
           at == SelectInSeq(modulesList, LAMBDA e : entries[e].path = path)
<1>1. at = IF I # {} THEN Min(I) ELSE 0
  BY DEF SelectInSeq
<1>2. Found(path) = IF at = 0 THEN 0 ELSE modulesList[at]
  BY DEF Found
<1>3. DOMAIN modulesList = 1 .. Len(modulesList) /\ DOMAIN entries = 1 .. Len(entries)
  BY DEF LoadTypes
<1>4. I \in SUBSET Nat
  OBVIOUS
<1> HIDE DEF at
<1>5. CASE I = {}
  <2>1. \A e \in Listed : entries[e].path # path
    BY <1>3, <1>5 DEF Listed, ToSet
  <2> QED BY <1>1, <1>2, <1>5, <2>1
<1>6. CASE I # {}
  <2>1. at \in I
    <3>1. Min(I) \in I
      BY <1>4, <1>6, MinIsIn
    <3> QED BY <3>1, <1>1, <1>6
  <2>2. Found(path) = modulesList[at] /\ modulesList[at] \in Listed
    BY <2>1, <1>2, <1>3 DEF Listed, ToSet
  <2>3. modulesList[at] # 0
    BY <2>2, <1>3 DEF ListSound
  <2> QED BY <2>1, <2>2, <2>3
<1> QED BY <1>5, <1>6

(* An entry is assigned to. *)
LEMMA EntryChanges ==
  ASSUME LoadTypes, NEW e \in DOMAIN entries, NEW r \in EntryType, entries' = [entries EXCEPT ![e] = r]
  PROVE  /\ entries' \in Seq(EntryType) /\ DOMAIN entries' = DOMAIN entries
         /\ entries'[e] = r
         /\ \A d \in DOMAIN entries \ {e} : entries'[d] = entries[d]
  BY DEF LoadTypes

(* A thread goes on. *)
LEMMA LoaderChanges ==
  ASSUME LoadTypes, NEW t \in Loaders, NEW r \in LoaderType, loader' = [loader EXCEPT ![t] = r]
  PROVE  /\ loader' \in [Loaders -> LoaderType]
         /\ loader'[t] = r
         /\ \A u \in Loaders \ {t} : loader'[u] = loader[u]
  BY DEF LoadTypes

(* How many hold an entry then. *)
(* How many threads hold an entry, once t has moved to r. *)
HoldersMove(t, r, e) ==
  /\ Cardinality(Holders(e)) \in Nat
  /\ Cardinality(Holders(e)') =
       IF r.at \in InUse /\ r.entry = e
       THEN IF Holding(t, e) THEN Cardinality(Holders(e)) ELSE Cardinality(Holders(e)) + 1
       ELSE IF Holding(t, e) THEN Cardinality(Holders(e)) - 1 ELSE Cardinality(Holders(e))

LEMMA HoldersChange ==
  ASSUME IsFiniteSet(Loaders), LoadTypes, NEW t \in Loaders, NEW r \in LoaderType,
         loader' = [loader EXCEPT ![t] = r], NEW e
  PROVE  HoldersMove(t, r, e)
<1>1. loader'[t] = r /\ \A u \in Loaders \ {t} : loader'[u] = loader[u]
  BY LoaderChanges
<1>2. IsFiniteSet(Holders(e))
  BY FS_Subset DEF Holders
<1>3. t \in Holders(e) <=> Holding(t, e)
  BY DEF Holders
<1>4. Holders(e)' = IF r.at \in InUse /\ r.entry = e THEN Holders(e) \cup {t} ELSE Holders(e) \ {t}
  BY <1>1 DEF Holders, Holding, InUse
<1>5. Cardinality(Holders(e)) \in Nat
  BY <1>2, FS_CardinalityType
<1>6. Cardinality(Holders(e) \cup {t}) = IF t \in Holders(e) THEN Cardinality(Holders(e)) ELSE Cardinality(Holders(e)) + 1
  BY <1>2, FS_AddElement
<1>7. Cardinality(Holders(e) \ {t}) = IF t \in Holders(e) THEN Cardinality(Holders(e)) - 1 ELSE Cardinality(Holders(e))
  BY <1>2, FS_RemoveElement
<1> QED BY <1>3, <1>4, <1>5, <1>6, <1>7 DEF HoldersMove

(* The calls that succeeded are finitely many. *)
LEMMA LoadsFinite ==
  ASSUME LoadTypes, NEW e
  PROVE  /\ IsFiniteSet(Loads(e)) /\ Cardinality(Loads(e)) \in Nat
         /\ Loads(e) # {} <=> Cardinality(Loads(e)) # 0
<1>1. Len(loaded) \in Nat /\ DOMAIN loaded = 1 .. Len(loaded)
  BY DEF LoadTypes
<1>2. IsFiniteSet(1 .. Len(loaded))
  BY <1>1, FS_Interval
<1>3. IsFiniteSet(Loads(e))
  BY <1>1, <1>2, FS_Subset DEF Loads
<1> QED BY <1>3, FS_CardinalityType, FS_EmptySet

(* A loading succeeds: how often each entry was loaded then. *)
LEMMA LoadsGrow ==
  ASSUME LoadTypes, NEW e \in Nat, loaded' = Append(loaded, e), NEW d
  PROVE  /\ Loads(d) \subseteq Loads(d)'
         /\ d = e => Loads(d)' # {}
         /\ Cardinality(Loads(d)') = IF d = e THEN Cardinality(Loads(d)) + 1 ELSE Cardinality(Loads(d))
<1>1. /\ loaded' \in Seq(Nat) /\ Len(loaded) \in Nat /\ DOMAIN loaded = 1 .. Len(loaded)
      /\ DOMAIN loaded' = 1 .. Len(loaded) + 1 /\ loaded'[Len(loaded) + 1] = e
      /\ \A i \in 1 .. Len(loaded) : loaded'[i] = loaded[i]
  BY DEF LoadTypes
<1>2. IsFiniteSet(Loads(d)) /\ Cardinality(Loads(d)) \in Nat
  BY LoadsFinite
<1>3. Len(loaded) + 1 \notin Loads(d)
  BY <1>1 DEF Loads
<1>4. Loads(d)' = IF d = e THEN Loads(d) \cup {Len(loaded) + 1} ELSE Loads(d)
  BY <1>1 DEF Loads
<1> QED BY <1>2, <1>3, <1>4, FS_AddElement

-----------------------------------------------------------------------------

(* A thread that neither takes nor gives back an entry. *)
LEMMA OnlyLoader ==
  ASSUME IsFiniteSet(Loaders), LoadInv, NEW t \in Loaders, NEW r \in LoaderType,
         loader' = [loader EXCEPT ![t] = r], UNCHANGED <<modulesList, entries, loaded, inits>>,
         r.at # "inserting", r.at # "idle" => r.path \in Paths,
         r.at \in InUse => At(t, "opening") \/ At(t, "locked"),
         At(t, "opening") \/ At(t, "locked") => r.at \in InUse /\ r.entry = loader[t].entry /\ r.path = loader[t].path,
         ~At(t, "failed")
  PROVE  LoadInv'
<1> USE DEF LoadInv
<1>1. /\ loader' \in [Loaders -> LoaderType]
      /\ loader'[t] = r
      /\ \A u \in Loaders \ {t} : loader'[u] = loader[u]
  BY LoaderChanges
<1>2. ASSUME NEW e PROVE Cardinality(Holders(e)') = Cardinality(Holders(e))
  <2>1. (r.at \in InUse /\ r.entry = e) <=> Holding(t, e)
    BY DEF Holding, InUse, At
  <2>2. Cardinality(Holders(e)') =
          IF r.at \in InUse /\ r.entry = e
          THEN IF Holding(t, e) THEN Cardinality(Holders(e)) ELSE Cardinality(Holders(e)) + 1
          ELSE IF Holding(t, e) THEN Cardinality(Holders(e)) - 1 ELSE Cardinality(Holders(e))
    <3>1. HoldersMove(t, r, e)
      BY HoldersChange
    <3> QED BY <3>1 DEF HoldersMove
  <2> QED BY <2>1, <2>2
<1>3. \A e : Cardinality(Holders(e)') = Cardinality(Holders(e))
  BY <1>2
<1>4. Listed' = Listed /\ DOMAIN entries' = DOMAIN entries /\ (\A e : Loads(e)' = Loads(e))
  BY DEF Listed, Loads
<1>5. LoadTypes'
  BY <1>1 DEF LoadTypes
<1>6. ListSound'
  BY <1>4 DEF ListSound
<1>7. LoadersSound'
  <2> SUFFICES ASSUME NEW u \in Loaders
               PROVE  /\ loader'[u].at # "idle" => loader'[u].path \in Paths
                      /\ At(u, "inserting")' => OwnEntry(u)'
                      /\ loader'[u].at \in InUse => loader'[u].entry \in Listed /\ entries[loader'[u].entry].path = loader'[u].path
    BY <1>4 DEF LoadersSound
  <2>1. CASE u = t
    BY <2>1, <1>1 DEF LoadersSound, At, InUse
  <2>2. CASE u # t
    BY <2>2, <1>1, <1>4 DEF LoadersSound, At, OwnEntry
  <2> QED BY <2>1, <2>2
<1>8. CountsSound'
  BY <1>3, <1>4 DEF CountsSound
<1>9. InitsSound'
  BY <1>4 DEF InitsSound
<1> QED BY <1>5, <1>6, <1>7, <1>8, <1>9

(* A thread that takes an entry of the list. *)
LEMMA TakesEntry ==
  ASSUME IsFiniteSet(Loaders), LoadInv, NEW t \in Loaders, NEW e \in Listed, NEW r \in LoaderType,
         loader' = [loader EXCEPT ![t] = r],
         r.at = "opening", r.entry = e, r.path \in Paths, r.path = entries[e].path, loader[t].at \notin InUse,
         UNCHANGED <<modulesList, loaded, inits>>,
         entries' \in Seq(EntryType), DOMAIN entries' = DOMAIN entries,
         \A d \in DOMAIN entries : entries'[d].path = entries[d].path /\ entries'[d].library = entries[d].library,
         \A d \in Listed : entries'[d].freed = entries[d].freed,
         \A d \in Listed : entries'[d].refCount = IF d = e THEN entries[d].refCount + 1 ELSE entries[d].refCount,
         \A u \in Loaders \ {t} : At(u, "inserting") => entries'[loader[u].new] = entries[loader[u].new]
  PROVE  LoadInv'
<1> USE DEF LoadInv
<1>1. /\ loader' \in [Loaders -> LoaderType]
      /\ loader'[t] = r
      /\ \A u \in Loaders \ {t} : loader'[u] = loader[u]
  BY LoaderChanges
<1>2. Listed' = Listed /\ \A d : Loads(d)' = Loads(d)
  BY DEF Listed, Loads
<1>3. LoadTypes'
  BY <1>1 DEF LoadTypes
<1>4. ListSound'
  BY <1>2 DEF ListSound
<1>5. LoadersSound'
  <2> SUFFICES ASSUME NEW u \in Loaders
               PROVE  /\ loader'[u].at # "idle" => loader'[u].path \in Paths
                      /\ At(u, "inserting")' => OwnEntry(u)'
                      /\ loader'[u].at \in InUse =>
                           loader'[u].entry \in Listed /\ entries'[loader'[u].entry].path = loader'[u].path
    BY <1>2 DEF LoadersSound, InUse
  <2>1. CASE u = t
    BY <2>1, <1>1 DEF ListSound, At
  <2>2. CASE u # t
    <3>1. loader'[u] = loader[u]
      BY <2>2, <1>1
    <3>2. At(u, "inserting")' => OwnEntry(u)'
      BY <2>2, <3>1, <1>1, <1>2 DEF LoadersSound, At, OwnEntry
    <3> QED BY <3>1, <3>2 DEF LoadersSound, ListSound
  <2> QED BY <2>1, <2>2
<1>6. CountsSound'
  <2>1. ASSUME NEW d \in Listed
        PROVE  entries'[d].refCount = Cardinality(Holders(d)') + Cardinality(Loads(d))
    <3>1. ~Holding(t, d) /\ (r.at \in InUse /\ r.entry = d <=> d = e)
      BY DEF Holding, InUse
    <3>2. /\ Cardinality(Holders(d)) \in Nat
          /\ Cardinality(Holders(d)') =
               IF r.at \in InUse /\ r.entry = d
               THEN IF Holding(t, d) THEN Cardinality(Holders(d)) ELSE Cardinality(Holders(d)) + 1
               ELSE IF Holding(t, d) THEN Cardinality(Holders(d)) - 1 ELSE Cardinality(Holders(d))
      <4>1. HoldersMove(t, r, d)
        BY HoldersChange
      <4> QED BY <4>1 DEF HoldersMove
    <3>3. entries[d].refCount = Cardinality(Holders(d)) + Cardinality(Loads(d))
      BY DEF CountsSound
    <3>4. Cardinality(Loads(d)) \in Nat
      BY LoadsFinite
    <3> QED BY <3>1, <3>2, <3>3, <3>4
  <2> QED BY <2>1, <1>2 DEF CountsSound, ListSound
<1>7. InitsSound'
  BY <1>2 DEF InitsSound, ListSound
<1> QED BY <1>3, <1>4, <1>5, <1>6, <1>7

-----------------------------------------------------------------------------

(* A thread finds the entry of its path and counts itself, or has to allocate one. *)
LEMMA LoadStep ==
  ASSUME IsFiniteSet(Loaders), LoadInv, NEW t \in Loaders, NEW path \in Paths, Load(t, path)
  PROVE  LoadInv'
<1> DEFINE e == Found(path)
           r == [Idle EXCEPT !.at = IF e = 0 THEN "allocating" ELSE "opening", !.path = path, !.entry = e]
<1>0. Idle \in LoaderType
  BY DEF Idle, LoaderType, Places
<1>1. /\ At(t, "idle") /\ UNCHANGED <<modulesList, loaded, inits>>
      /\ loader' = [loader EXCEPT ![t] = r]
      /\ entries' = IF e = 0 THEN entries ELSE Held(e)
  BY DEF Load
<1>2. LoadTypes /\ ListSound
  BY DEF LoadInv
<1>3. \/ e = 0 /\ \A d \in Listed : entries[d].path # path
      \/ e # 0 /\ e \in Listed /\ entries[e].path = path
  BY <1>2, FoundIs
<1> HIDE DEF e
<1>4. CASE e = 0
  <2>1. r \in LoaderType /\ r.at = "allocating" /\ r.path \in Paths
    BY <1>0, <1>4 DEF LoaderType, Places
  <2> QED BY <1>1, <1>4, <2>1, OnlyLoader DEF At, InUse
<1>5. CASE e # 0
  <2>1. e \in Listed /\ e \in DOMAIN entries /\ entries[e].path = path /\ DOMAIN entries = 1 .. Len(entries)
    BY <1>2, <1>3, <1>5 DEF ListSound, LoadTypes
  <2>2. r \in LoaderType /\ r.at = "opening" /\ r.path = path /\ r.entry = e
    <3>1. e \in Nat
      BY <2>1, <1>2 DEF LoadTypes
    <3> QED BY <1>0, <1>5, <2>1, <3>1 DEF LoaderType, Places
  <2> DEFINE n == [entries[e] EXCEPT !.refCount = @ + 1]
  <2>3. entries' = [entries EXCEPT ![e] = n]
    BY <1>1, <1>5 DEF Held
  <2>4. entries[e] \in EntryType
    BY <1>2, <2>1 DEF LoadTypes
  <2>5. /\ n \in EntryType /\ n.path = entries[e].path /\ n.library = entries[e].library
        /\ n.freed = entries[e].freed /\ n.refCount = entries[e].refCount + 1
    BY <2>4 DEF EntryType
  <2> HIDE DEF n
  <2>6. /\ entries' \in Seq(EntryType) /\ DOMAIN entries' = DOMAIN entries
        /\ entries'[e] = n /\ \A d \in DOMAIN entries \ {e} : entries'[d] = entries[d]
    BY <1>2, <2>1, <2>3, <2>5, EntryChanges
  <2>7. \A d \in Listed : d \in DOMAIN entries
    BY <1>2 DEF ListSound
  <2>8. \A u \in Loaders \ {t} : At(u, "inserting") => entries'[loader[u].new] = entries[loader[u].new]
    BY <2>1, <2>6 DEF LoadInv, LoadersSound, OwnEntry
  <2>9. loader[t].at \notin InUse
    BY <1>1 DEF At, InUse
  <2>10. /\ \A d \in DOMAIN entries : entries'[d].path = entries[d].path /\ entries'[d].library = entries[d].library
         /\ \A d \in Listed : entries'[d].freed = entries[d].freed
         /\ \A d \in Listed : entries'[d].refCount = IF d = e THEN entries[d].refCount + 1 ELSE entries[d].refCount
    BY <2>5, <2>6, <2>7
  <2>11. r.path \in Paths /\ r.path = entries[e].path
    BY <2>1, <2>2
  <2>12. loader' = [loader EXCEPT ![t] = r] /\ UNCHANGED <<modulesList, loaded, inits>>
    BY <1>1
  <2> HIDE DEF r
  <2> QED BY <2>1, <2>2, <2>6, <2>8, <2>9, <2>10, <2>11, <2>12, TakesEntry
<1> QED BY <1>4, <1>5

(* The allocation failed: nothing is held. (Context.c: NQContext_loadModule.) *)
LEMMA AllocateFailsStep ==
  ASSUME IsFiniteSet(Loaders), LoadInv, NEW t \in Loaders, AllocateFails(t)
  PROVE  LoadInv'
<1>1. Idle \in LoaderType /\ Idle.at = "idle"
  BY DEF Idle, LoaderType, Places
<1>2. /\ At(t, "allocating") /\ loader' = [loader EXCEPT ![t] = Idle]
      /\ UNCHANGED <<modulesList, entries, loaded, inits>>
  BY DEF AllocateFails
<1> QED BY <1>1, <1>2, OnlyLoader DEF At, InUse

(* Two threads on their way to one entry come to its mutex one after the other. *)
LEMMA LockStep ==
  ASSUME IsFiniteSet(Loaders), LoadInv, NEW t \in Loaders, Lock(t) \/ OpenFails(t)
  PROVE  LoadInv'
<1>1. PICK where \in {"locked", "failed"} : Goes(t, where)
  BY DEF Lock, OpenFails
<1> DEFINE r == [loader[t] EXCEPT !.at = where]
<1>2. loader[t] \in LoaderType
  BY DEF LoadInv, LoadTypes
<1>3. r \in LoaderType /\ r.at = where /\ r.path = loader[t].path /\ r.entry = loader[t].entry
  BY <1>2 DEF LoaderType, Places
<1>4. /\ At(t, "opening") \/ At(t, "locked")
      /\ loader' = [loader EXCEPT ![t] = r] /\ UNCHANGED <<modulesList, entries, loaded, inits>>
  BY <1>1 DEF Lock, OpenFails, Goes
<1>5. loader[t].path \in Paths
  BY <1>4 DEF LoadInv, LoadersSound, At
<1> HIDE DEF r
<1> QED BY <1>3, <1>4, <1>5, OnlyLoader DEF At, InUse

(* The new entry is counted by the thread that made it, and is not in the list yet. *)
LEMMA AllocateStep ==
  ASSUME IsFiniteSet(Loaders), LoadInv, NEW t \in Loaders, Allocate(t)
  PROVE  LoadInv'
<1> USE DEF LoadInv
<1> DEFINE new == Len(entries) + 1
           n == [path |-> loader[t].path, refCount |-> 1, library |-> FALSE, freed |-> FALSE]
           r == [loader[t] EXCEPT !.at = "inserting", !.new = new]
<1>1. /\ At(t, "allocating") /\ UNCHANGED <<modulesList, loaded, inits>>
      /\ entries' = Append(entries, n) /\ loader' = [loader EXCEPT ![t] = r]
  BY DEF Allocate
<1>2. loader[t] \in LoaderType /\ loader[t].path \in Paths /\ loader[t].at = "allocating"
  BY <1>1 DEF LoadTypes, LoadersSound, At
<1>3. n \in EntryType
  BY <1>2 DEF EntryType
<1>4. Len(entries) \in Nat /\ DOMAIN entries = 1 .. Len(entries) /\ new \in Nat
  BY DEF LoadTypes
<1>5. /\ r \in LoaderType /\ r.at = "inserting" /\ r.new = new
      /\ r.path = loader[t].path
  BY <1>2, <1>4 DEF LoaderType, Places
<1>6. /\ n.path = loader[t].path /\ n.refCount = 1 /\ ~n.library /\ ~n.freed
  OBVIOUS
<1> HIDE DEF n, r
<1>7. /\ entries' \in Seq(EntryType) /\ DOMAIN entries' = 1 .. new /\ entries'[new] = n
      /\ \A d \in DOMAIN entries : d \in DOMAIN entries' /\ entries'[d] = entries[d] /\ d # new
  BY <1>1, <1>3, <1>4 DEF LoadTypes
<1>8. /\ loader' \in [Loaders -> LoaderType]
      /\ loader'[t] = r
      /\ \A u \in Loaders \ {t} : loader'[u] = loader[u]
  BY <1>1, <1>5, LoaderChanges
<1>9. Listed' = Listed /\ (\A d : Loads(d)' = Loads(d)) /\ \A d \in Listed : d \in DOMAIN entries
  BY <1>1 DEF Listed, Loads, ListSound
<1>10. LoadTypes'
  BY <1>1, <1>7, <1>8 DEF LoadTypes
<1>11. ListSound'
  <2>1. ASSUME NEW d \in DOMAIN entries', entries'[d].library PROVE d \in DOMAIN entries /\ entries[d].library
    <3>1. d # new
      BY <1>6, <1>7, <2>1
    <3> QED BY <3>1, <1>4, <1>7, <2>1
  <2> QED BY <2>1, <1>7, <1>9 DEF ListSound
<1>12. LoadersSound'
  <2> SUFFICES ASSUME NEW u \in Loaders
               PROVE  /\ loader'[u].at # "idle" => loader'[u].path \in Paths
                      /\ At(u, "inserting")' => OwnEntry(u)'
                      /\ loader'[u].at \in InUse =>
                           loader'[u].entry \in Listed /\ entries'[loader'[u].entry].path = loader'[u].path
    BY <1>9 DEF LoadersSound, InUse
  <2>1. \A v \in Loaders \ {t} : At(v, "inserting") => loader[v].new \in DOMAIN entries
    BY DEF LoadersSound, OwnEntry
  <2>2. CASE u = t
    <3>1. OwnEntry(u)'
      <4>1. new \in DOMAIN entries' /\ new \notin Listed
        BY <1>4, <1>7, <1>9
      <4>2. \A v \in Loaders \ {t} : At(v, "inserting")' => loader'[v].new # new
        BY <2>1, <1>7, <1>8 DEF At
      <4> QED BY <2>2, <4>1, <4>2, <1>5, <1>6, <1>7, <1>8, <1>9 DEF OwnEntry
    <3> QED BY <2>2, <3>1, <1>2, <1>5, <1>8 DEF InUse
  <2>3. CASE u # t
    <3>1. loader'[u] = loader[u]
      BY <2>3, <1>8
    <3>2. ASSUME At(u, "inserting") PROVE OwnEntry(u)'
      <4>1. OwnEntry(u)
        BY <3>2 DEF LoadersSound
      <4>2. \A v \in Loaders \ {u} : At(v, "inserting")' => loader'[v].new # loader[u].new
        <5> SUFFICES ASSUME NEW v \in Loaders \ {u}, At(v, "inserting")' PROVE loader'[v].new # loader[u].new
          OBVIOUS
        <5>1. CASE v = t
          BY <5>1, <4>1, <1>5, <1>7, <1>8 DEF OwnEntry
        <5>2. CASE v # t
          BY <5>2, <4>1, <1>8 DEF OwnEntry, At
        <5> QED BY <5>1, <5>2
      <4> QED BY <3>1, <4>1, <4>2, <1>7, <1>9 DEF OwnEntry
    <3>3. At(u, "inserting")' <=> At(u, "inserting")
      BY <3>1 DEF At
    <3> QED BY <3>1, <3>2, <3>3, <1>7, <1>9 DEF LoadersSound
  <2> QED BY <2>2, <2>3
<1>13. CountsSound'
  <2>1. ASSUME NEW d \in Listed PROVE Cardinality(Holders(d)') = Cardinality(Holders(d))
    <3>1. ~Holding(t, d) /\ r.at \notin InUse
      BY <1>2, <1>5 DEF Holding, InUse
    <3>2. Cardinality(Holders(d)') =
            IF r.at \in InUse /\ r.entry = d
            THEN IF Holding(t, d) THEN Cardinality(Holders(d)) ELSE Cardinality(Holders(d)) + 1
            ELSE IF Holding(t, d) THEN Cardinality(Holders(d)) - 1 ELSE Cardinality(Holders(d))
      <4>1. HoldersMove(t, r, d)
        BY <1>1, <1>5, HoldersChange
      <4> QED BY <4>1 DEF HoldersMove
    <3> QED BY <3>1, <3>2
  <2> QED BY <2>1, <1>1, <1>7, <1>9 DEF CountsSound
<1>14. InitsSound'
  BY <1>1, <1>7, <1>9 DEF InitsSound
<1> QED BY <1>10, <1>11, <1>12, <1>13, <1>14

(* The list was looked through again: an entry of the path is taken, or the own goes
   into the list. *)
LEMMA InsertStep ==
  ASSUME IsFiniteSet(Loaders), LoadInv, NEW t \in Loaders, Insert(t)
  PROVE  LoadInv'
<1> DEFINE path == loader[t].path
           new == loader[t].new
           e == Found(path)
           at == IF e # 0 THEN e ELSE new
           r == [loader[t] EXCEPT !.at = "opening", !.entry = at]
<1>1. /\ At(t, "inserting") /\ UNCHANGED <<loaded, inits>>
      /\ e # 0 => entries' = [Held(e) EXCEPT ![new].freed = TRUE] /\ UNCHANGED modulesList
      /\ e = 0 => modulesList' = Append(modulesList, new) /\ UNCHANGED entries
      /\ loader' = [loader EXCEPT ![t] = r]
  BY DEF Insert, FoundAgain
<1>2. LoadTypes /\ ListSound /\ LoadersSound /\ CountsSound /\ InitsSound
  BY DEF LoadInv
<1>3. \/ e = 0 /\ \A d \in Listed : entries[d].path # path
      \/ e # 0 /\ e \in Listed /\ entries[e].path = path
  BY <1>2, FoundIs
<1> HIDE DEF e
<1>4. loader[t] \in LoaderType /\ path \in Paths /\ loader[t].at = "inserting" /\ OwnEntry(t)
  BY <1>1, <1>2 DEF LoadTypes, LoadersSound, At
<1>5. DOMAIN entries = 1 .. Len(entries) /\ Len(entries) \in Nat
  BY <1>2 DEF LoadTypes
<1>6. at \in DOMAIN entries /\ at \in Nat
  BY <1>2, <1>3, <1>4, <1>5 DEF OwnEntry, ListSound
<1> HIDE DEF at
<1>7. r \in LoaderType /\ r.at = "opening" /\ r.entry = at /\ r.path = path
  BY <1>4, <1>6 DEF LoaderType, Places
<1> HIDE DEF r
<1>8. CASE e # 0
  <2>1. e \in Listed /\ e \in DOMAIN entries /\ entries[e].path = path /\ at = e
    BY <1>2, <1>3, <1>8 DEF ListSound, at
  <2>2. new \in DOMAIN entries /\ new # e
    BY <1>4, <2>1 DEF OwnEntry
  <2> DEFINE n == [entries[e] EXCEPT !.refCount = @ + 1]
             f == [entries[new] EXCEPT !.freed = TRUE]
  <2>3. entries[e] \in EntryType /\ entries[new] \in EntryType
    BY <1>2, <2>1, <2>2 DEF LoadTypes
  <2>4. entries' = [[entries EXCEPT ![e] = n] EXCEPT ![new] = f]
    <3>1. [entries EXCEPT ![e] = n][new] = entries[new]
      BY <1>5, <2>1, <2>2
    <3> QED BY <3>1, <1>1, <1>8 DEF Held
  <2>5. /\ n \in EntryType /\ n.path = entries[e].path /\ n.library = entries[e].library
        /\ n.freed = entries[e].freed /\ n.refCount = entries[e].refCount + 1
    BY <2>3 DEF EntryType
  <2>6. f \in EntryType /\ f.path = entries[new].path /\ f.library = entries[new].library
    BY <2>3 DEF EntryType
  <2> HIDE DEF n, f
  <2>7. /\ entries' \in Seq(EntryType) /\ DOMAIN entries' = DOMAIN entries
        /\ entries'[e] = n /\ entries'[new] = f /\ \A d \in DOMAIN entries \ {e, new} : entries'[d] = entries[d]
    BY <1>2, <1>5, <2>1, <2>2, <2>4, <2>5, <2>6 DEF LoadTypes
  <2>8. \A d \in Listed : d \in DOMAIN entries /\ d # new
    BY <1>2, <1>4 DEF ListSound, OwnEntry
  <2>9. \A u \in Loaders \ {t} : At(u, "inserting") => entries'[loader[u].new] = entries[loader[u].new]
    BY <1>2, <1>4, <2>1, <2>7 DEF LoadersSound, OwnEntry
  <2>10. /\ \A d \in DOMAIN entries : entries'[d].path = entries[d].path /\ entries'[d].library = entries[d].library
         /\ \A d \in Listed : entries'[d].freed = entries[d].freed
         /\ \A d \in Listed : entries'[d].refCount = IF d = e THEN entries[d].refCount + 1 ELSE entries[d].refCount
    BY <2>5, <2>6, <2>7, <2>8
  <2>11. loader[t].at \notin InUse /\ r.entry = e /\ r.path \in Paths /\ r.path = entries[e].path
    BY <1>4, <1>7, <2>1 DEF InUse
  <2>12. loader' = [loader EXCEPT ![t] = r] /\ UNCHANGED <<modulesList, loaded, inits>>
    BY <1>1, <1>8
  <2> QED BY <1>7, <2>1, <2>7, <2>9, <2>10, <2>11, <2>12, TakesEntry
<1>9. CASE e = 0
  <2>1. /\ modulesList' = Append(modulesList, new) /\ UNCHANGED <<entries, loaded, inits>> /\ at = new
        /\ \A d \in Listed : entries[d].path # path
    BY <1>1, <1>3, <1>9 DEF at
  <2>2. new \in DOMAIN entries /\ new \notin Listed /\ new \in Nat
    BY <1>4, <1>5 DEF OwnEntry
  <2>3. /\ modulesList' \in Seq(Nat) /\ IsInjective(modulesList') /\ Listed' = Listed \cup {new}
    BY <1>2, <2>1, <2>2, AppendList DEF LoadTypes, Listed
  <2>4. /\ loader' \in [Loaders -> LoaderType]
        /\ loader'[t] = r
        /\ \A u \in Loaders \ {t} : loader'[u] = loader[u]
    BY <1>1, <1>2, <1>7, LoaderChanges
  <2>5. \A d : Loads(d)' = Loads(d)
    BY <2>1 DEF Loads
  <2>6. entries[new].path = path /\ ~entries[new].freed /\ entries[new].refCount = 1 /\ ~entries[new].library
    BY <1>2, <1>4, <2>2 DEF OwnEntry, ListSound
  <2>7. LoadTypes'
    BY <1>2, <2>1, <2>3, <2>4 DEF LoadTypes
  <2>8. ListSound'
    BY <1>2, <2>1, <2>2, <2>3, <2>6 DEF ListSound
  <2>9. LoadersSound'
    <3> SUFFICES ASSUME NEW u \in Loaders
                 PROVE  /\ loader'[u].at # "idle" => loader'[u].path \in Paths
                        /\ At(u, "inserting")' => OwnEntry(u)'
                        /\ loader'[u].at \in InUse =>
                             loader'[u].entry \in Listed' /\ entries[loader'[u].entry].path = loader'[u].path
      BY <2>1 DEF LoadersSound, InUse
    <3>1. CASE u = t
      BY <3>1, <1>4, <1>7, <2>1, <2>3, <2>4, <2>6 DEF At
    <3>2. CASE u # t
      <4>1. loader'[u] = loader[u]
        BY <3>2, <2>4
      <4>2. ASSUME At(u, "inserting") PROVE OwnEntry(u)'
        <5>1. OwnEntry(u) /\ loader[u].new # new
          BY <4>2, <3>2, <1>1, <1>2, <1>4 DEF LoadersSound, OwnEntry
        <5>2. \A v \in Loaders \ {u} : At(v, "inserting")' => loader'[v].new # loader[u].new
          BY <5>1, <1>7, <2>4 DEF OwnEntry, At
        <5> QED BY <5>1, <5>2, <4>1, <2>1, <2>3 DEF OwnEntry
      <4>3. At(u, "inserting")' <=> At(u, "inserting")
        BY <4>1 DEF At
      <4> QED BY <4>1, <4>2, <4>3, <1>2, <2>3 DEF LoadersSound
    <3> QED BY <3>1, <3>2
  <2>10. CountsSound'
    <3>1. \A i \in DOMAIN loaded : loaded[i] \in Listed
      BY <1>2 DEF CountsSound
    <3>2. ASSUME NEW d \in Listed'
          PROVE  /\ entries[d].refCount = Cardinality(Holders(d)') + Cardinality(Loads(d))
                 /\ entries[d].library => Loads(d) # {}
      <4>1. Cardinality(Holders(d)) \in Nat /\ Cardinality(Holders(d)') =
              IF r.at \in InUse /\ r.entry = d
              THEN IF Holding(t, d) THEN Cardinality(Holders(d)) ELSE Cardinality(Holders(d)) + 1
              ELSE IF Holding(t, d) THEN Cardinality(Holders(d)) - 1 ELSE Cardinality(Holders(d))
        <5>1. HoldersMove(t, r, d)
          BY <1>1, <1>2, <1>7, HoldersChange
        <5> QED BY <5>1 DEF HoldersMove
      <4>2. ~Holding(t, d) /\ r.at \in InUse /\ r.entry = new
        BY <1>4, <1>7, <2>1 DEF Holding, InUse
      <4>3. CASE d = new
        <5>1. Holders(d) = {}
          BY <4>3, <1>2, <2>2 DEF Holders, Holding, LoadersSound, InUse
        <5>2. Loads(d) = {}
          BY <4>3, <3>1, <2>2 DEF Loads
        <5> QED BY <4>1, <4>2, <4>3, <5>1, <5>2, <2>6, FS_EmptySet
      <4>4. CASE d # new
        <5>1. d \in Listed
          BY <4>4, <2>3, <3>2
        <5> QED BY <4>1, <4>2, <4>4, <5>1, <1>2 DEF CountsSound
      <4> QED BY <4>3, <4>4
    <3> QED BY <3>1, <3>2, <2>1, <2>3, <2>5 DEF CountsSound
  <2>11. InitsSound'
    BY <1>2, <2>1, <2>3, <2>6 DEF InitsSound
  <2> QED BY <2>7, <2>8, <2>9, <2>10, <2>11 DEF LoadInv
<1> QED BY <1>8, <1>9

(* The library is open, and initialized if it was not. *)
LEMMA OpenStep ==
  ASSUME IsFiniteSet(Loaders), LoadInv, NEW t \in Loaders, Open(t)
  PROVE  LoadInv'
<1> DEFINE e == loader[t].entry
           path == loader[t].path
           n == [entries[e] EXCEPT !.library = TRUE]
<1>1. /\ At(t, "locked") /\ UNCHANGED modulesList
      /\ entries' = [entries EXCEPT ![e] = n]
      /\ inits' = IF NeedsToOpen(e) THEN [inits EXCEPT ![path] = @ + 1] ELSE inits
      /\ loaded' = Append(loaded, e)
      /\ loader' = [loader EXCEPT ![t] = Idle]
  BY DEF Open
<1>2. LoadTypes /\ ListSound /\ LoadersSound /\ CountsSound /\ InitsSound
  BY DEF LoadInv
<1>3. loader[t].at = "locked" /\ path \in Paths /\ e \in Listed /\ entries[e].path = path
  BY <1>1, <1>2 DEF LoadersSound, At, InUse
<1>4. e \in DOMAIN entries /\ e \in Nat /\ DOMAIN entries = 1 .. Len(entries)
  BY <1>2, <1>3 DEF ListSound, LoadTypes
<1>5. entries[e] \in EntryType
  BY <1>2, <1>4 DEF LoadTypes
<1>6. /\ n \in EntryType /\ n.path = path /\ n.library = TRUE
      /\ n.freed = entries[e].freed /\ n.refCount = entries[e].refCount
  BY <1>3, <1>5 DEF EntryType
<1>7. Idle \in LoaderType /\ Idle.at = "idle"
  BY DEF Idle, LoaderType, Places
<1> HIDE DEF n, e, path
<1>8. /\ entries' \in Seq(EntryType) /\ DOMAIN entries' = DOMAIN entries
      /\ entries'[e] = n /\ \A d \in DOMAIN entries \ {e} : entries'[d] = entries[d]
  BY <1>1, <1>2, <1>4, <1>6, EntryChanges
<1>9. \A d \in DOMAIN entries : /\ entries'[d].path = entries[d].path /\ entries'[d].freed = entries[d].freed
                                /\ entries'[d].refCount = entries[d].refCount
                                /\ (entries'[d].library <=> d = e \/ entries[d].library)
  <2> SUFFICES ASSUME NEW d \in DOMAIN entries
               PROVE  /\ entries'[d].path = entries[d].path /\ entries'[d].freed = entries[d].freed
                      /\ entries'[d].refCount = entries[d].refCount
                      /\ (entries'[d].library <=> d = e \/ entries[d].library)
    OBVIOUS
  <2>1. CASE d = e
    BY <2>1, <1>3, <1>6, <1>8
  <2>2. CASE d # e
    BY <2>2, <1>8
  <2> QED BY <2>1, <2>2
<1>10. /\ loader' \in [Loaders -> LoaderType]
       /\ loader'[t] = Idle
       /\ \A u \in Loaders \ {t} : loader'[u] = loader[u]
  BY <1>1, <1>2, <1>7, LoaderChanges
<1>11. Listed' = Listed /\ \A d \in Listed : d \in DOMAIN entries
  BY <1>1, <1>2 DEF Listed, ListSound
<1>12. LoadTypes'
  <2>1. loaded' \in Seq(Nat)
    BY <1>1, <1>2, <1>4 DEF LoadTypes
  <2>2. inits' \in [Paths -> Nat]
    BY <1>1, <1>2, <1>3 DEF LoadTypes
  <2> QED BY <1>1, <1>2, <1>8, <1>10, <2>1, <2>2 DEF LoadTypes
<1>13. ListSound'
  BY <1>2, <1>3, <1>8, <1>9, <1>11 DEF ListSound
<1>14. LoadersSound'
  <2> SUFFICES ASSUME NEW u \in Loaders
               PROVE  /\ loader'[u].at # "idle" => loader'[u].path \in Paths
                      /\ At(u, "inserting")' => OwnEntry(u)'
                      /\ loader'[u].at \in InUse =>
                           loader'[u].entry \in Listed /\ entries'[loader'[u].entry].path = loader'[u].path
    BY <1>11 DEF LoadersSound, InUse
  <2>1. CASE u = t
    BY <2>1, <1>7, <1>10 DEF At, InUse
  <2>2. CASE u # t
    <3>1. loader'[u] = loader[u]
      BY <2>2, <1>10
    <3>2. ASSUME At(u, "inserting") PROVE OwnEntry(u)'
      <4>1. OwnEntry(u)
        BY <3>2, <1>2 DEF LoadersSound
      <4>2. \A v \in Loaders \ {u} : At(v, "inserting")' => loader'[v].new # loader[u].new
        BY <4>1, <1>7, <1>10 DEF OwnEntry, At
      <4> QED BY <4>1, <4>2, <3>1, <1>8, <1>9, <1>11 DEF OwnEntry
    <3>3. At(u, "inserting")' <=> At(u, "inserting")
      BY <3>1 DEF At
    <3> QED BY <3>1, <3>2, <3>3, <1>2, <1>9, <1>11 DEF LoadersSound
  <2> QED BY <2>1, <2>2
<1>15. CountsSound'
  <2>1. \A i \in DOMAIN loaded' : (i \in DOMAIN loaded /\ loaded'[i] = loaded[i]) \/ loaded'[i] = e
    BY <1>1, <1>2, <1>4 DEF LoadTypes
  <2>2. \A i \in DOMAIN loaded' : loaded'[i] \in Listed
    BY <2>1, <1>2, <1>3 DEF CountsSound
  <2>3. ASSUME NEW d \in Listed
        PROVE  /\ entries'[d].refCount = Cardinality(Holders(d)') + Cardinality(Loads(d)')
               /\ entries'[d].library => Loads(d)' # {}
    <3>1. Cardinality(Holders(d)) \in Nat /\ Cardinality(Holders(d)') =
            IF Idle.at \in InUse /\ Idle.entry = d
            THEN IF Holding(t, d) THEN Cardinality(Holders(d)) ELSE Cardinality(Holders(d)) + 1
            ELSE IF Holding(t, d) THEN Cardinality(Holders(d)) - 1 ELSE Cardinality(Holders(d))
      <4>1. HoldersMove(t, Idle, d)
        BY <1>1, <1>2, <1>7, HoldersChange
      <4> QED BY <4>1 DEF HoldersMove
    <3>2. Idle.at \notin InUse /\ (Holding(t, d) <=> d = e)
      BY <1>3, <1>7 DEF InUse, Holding, e
    <3>3. /\ entries[d].refCount = Cardinality(Holders(d)) + Cardinality(Loads(d))
          /\ entries[d].library => Loads(d) # {}
      BY <1>2 DEF CountsSound
    <3>4. /\ Cardinality(Loads(d)) \in Nat /\ Loads(d) \subseteq Loads(d)'
          /\ d = e => Loads(d)' # {}
          /\ Cardinality(Loads(d)') = IF d = e THEN Cardinality(Loads(d)) + 1 ELSE Cardinality(Loads(d))
      BY <1>1, <1>2, <1>4, LoadsGrow, LoadsFinite
    <3>5. entries'[d].refCount = Cardinality(Holders(d)') + Cardinality(Loads(d)')
      BY <3>1, <3>2, <3>3, <3>4, <1>9, <1>11
    <3>6. entries'[d].library => Loads(d)' # {}
      <4>1. entries'[d].library <=> d = e \/ entries[d].library
        BY <1>9, <1>11
      <4> QED BY <4>1, <3>3, <3>4
    <3> QED BY <3>5, <3>6
  <2> QED BY <2>2, <2>3, <1>11 DEF CountsSound
<1>16. InitsSound'
  <2> SUFFICES ASSUME NEW p \in Paths
               PROVE  inits'[p] = IF \E d \in Listed : entries'[d].path = p /\ entries'[d].library THEN 1 ELSE 0
    BY <1>11 DEF InitsSound
  <2>1. inits[p] = IF \E d \in Listed : entries[d].path = p /\ entries[d].library THEN 1 ELSE 0
    BY <1>2 DEF InitsSound
  <2>2. CASE p = path
    <3>1. \E d \in Listed : entries'[d].path = p /\ entries'[d].library
      BY <2>2, <1>3, <1>4, <1>9
    <3>2. \A d \in Listed : entries[d].path = p => d = e
      BY <2>2, <1>2, <1>3 DEF ListSound
    <3>3. inits'[p] = 1
      BY <2>1, <2>2, <3>2, <1>1, <1>2, <1>3 DEF NeedsToOpen, LoadTypes
    <3> QED BY <3>1, <3>3
  <2>3. CASE p # path
    <3>1. inits'[p] = inits[p]
      BY <2>3, <1>1, <1>2 DEF LoadTypes
    <3>2. \A d \in Listed : entries'[d].path = p /\ entries'[d].library <=> entries[d].path = p /\ entries[d].library
      BY <2>3, <1>3, <1>9, <1>11
    <3> QED BY <2>1, <3>1, <3>2
  <2> QED BY <2>2, <2>3
<1> QED BY <1>12, <1>13, <1>14, <1>15, <1>16 DEF LoadInv

(* Where a member of a list is. *)
LEMMA PlaceOf ==
  ASSUME NEW S, NEW s \in Seq(S), NEW x \in ToSet(s)
  PROVE  LET at == SelectInSeq(s, LAMBDA m : m = x)
         IN at \in 1 .. Len(s) /\ s[at] = x
<1> DEFINE I == {i \in 1 .. Len(s) : s[i] = x}
           at == SelectInSeq(s, LAMBDA m : m = x)
<1>1. at = IF I # {} THEN Min(I) ELSE 0
  BY DEF SelectInSeq
<1>2. I # {} /\ I \in SUBSET Nat
  BY DEF ToSet
<1>3. Min(I) \in I
  BY <1>2, MinIsIn
<1> HIDE DEF at
<1>4. at \in I
  BY <1>1, <1>2, <1>3
<1>5. at \in 1 .. Len(s) /\ s[at] = x
  BY <1>4
<1> QED BY <1>5 DEF at

(* A loading failed: the entry is given back, the last one frees it. *)
LEMMA UnloadStep ==
  ASSUME IsFiniteSet(Loaders), LoadInv, NEW t \in Loaders, Unload(t)
  PROVE  LoadInv'
<1> DEFINE e == loader[t].entry
           gone == entries[e].refCount = 1
           at == SelectInSeq(modulesList, LAMBDA m : m = e)
           n == [entries[e] EXCEPT !.refCount = @ - 1, !.freed = gone]
<1>1. /\ At(t, "failed") /\ UNCHANGED <<loaded, inits>>
      /\ entries' = [entries EXCEPT ![e].refCount = @ - 1, ![e].freed = gone]
      /\ modulesList' = IF gone THEN RemoveAt(modulesList, at) ELSE modulesList
      /\ loader' = [loader EXCEPT ![t] = Idle]
  BY DEF Unload
<1>2. LoadTypes /\ ListSound /\ LoadersSound /\ CountsSound /\ InitsSound
  BY DEF LoadInv
<1>3. loader[t].at = "failed" /\ e \in Listed
  BY <1>1, <1>2 DEF LoadersSound, At, InUse
<1>4. e \in DOMAIN entries /\ e \in Nat /\ DOMAIN entries = 1 .. Len(entries)
  BY <1>2, <1>3 DEF ListSound, LoadTypes
<1>5. entries[e] \in EntryType
  BY <1>2, <1>4 DEF LoadTypes
<1>6. Idle \in LoaderType /\ Idle.at = "idle"
  BY DEF Idle, LoaderType, Places
<1>7. at \in 1 .. Len(modulesList) /\ modulesList[at] = e
  BY <1>2, <1>3, PlaceOf DEF LoadTypes, Listed
<1>8. entries' = [entries EXCEPT ![e] = n]
  BY <1>1
<1> HIDE DEF at
<1>9. /\ Cardinality(Holders(e)) \in Nat /\ Cardinality(Holders(e)) >= 1
      /\ Cardinality(Loads(e)) \in Nat
      /\ entries[e].refCount = Cardinality(Holders(e)) + Cardinality(Loads(e))
  <2>1. t \in Holders(e) /\ IsFiniteSet(Holders(e))
    BY <1>3, FS_Subset DEF Holders, Holding
  <2>2. Cardinality(Holders(e)) \in Nat /\ Cardinality(Holders(e)) # 0
    BY <2>1, FS_CardinalityType, FS_EmptySet
  <2> QED BY <2>2, <1>2, <1>3, LoadsFinite DEF CountsSound
<1>10. /\ n \in EntryType /\ n.path = entries[e].path /\ n.library = entries[e].library
       /\ n.freed = gone /\ n.refCount = entries[e].refCount - 1
  <2>1. gone \in BOOLEAN
    OBVIOUS
  <2> HIDE DEF gone
  <2>2. entries[e].refCount - 1 \in Nat
    BY <1>9
  <2>3. n \in EntryType
    BY <1>5, <2>1, <2>2 DEF EntryType
  <2>4. n.path = entries[e].path /\ n.library = entries[e].library
    BY <1>5 DEF EntryType
  <2>5. n.freed = gone
    BY <1>5 DEF EntryType
  <2>6. n.refCount = entries[e].refCount - 1
    BY <1>5 DEF EntryType
  <2> QED BY <2>3, <2>4, <2>5, <2>6
<1>11. gone => Loads(e) = {} /\ Holders(e) = {t} /\ ~entries[e].library
  <2> SUFFICES ASSUME gone PROVE Loads(e) = {} /\ Holders(e) = {t} /\ ~entries[e].library
    OBVIOUS
  <2>1. Cardinality(Holders(e)) = 1 /\ Cardinality(Loads(e)) = 0
    BY <1>9
  <2>2. Loads(e) = {}
    BY <2>1, <1>2, LoadsFinite
  <2>3. IsFiniteSet(Holders(e)) /\ t \in Holders(e)
    BY <1>3, FS_Subset DEF Holders, Holding
  <2>4. Holders(e) = {t}
    BY <2>1, <2>3, FS_Singleton
  <2> QED BY <2>2, <2>4, <1>2, <1>3 DEF CountsSound
<1> HIDE DEF n, e
<1>12. /\ entries' \in Seq(EntryType) /\ DOMAIN entries' = DOMAIN entries
       /\ entries'[e] = n /\ \A d \in DOMAIN entries \ {e} : entries'[d] = entries[d]
  BY <1>2, <1>4, <1>8, <1>10, EntryChanges
<1>13. /\ loader' \in [Loaders -> LoaderType]
       /\ loader'[t] = Idle
       /\ \A u \in Loaders \ {t} : loader'[u] = loader[u]
  BY <1>1, <1>2, <1>6, LoaderChanges
<1>14. /\ modulesList' \in Seq(Nat) /\ IsInjective(modulesList')
       /\ Listed' = IF gone THEN Listed \ {e} ELSE Listed
  <2>1. CASE gone
    BY <2>1, <1>1, <1>2, <1>7, RemoveAtList DEF LoadTypes, Listed
  <2>2. CASE ~gone
    BY <2>2, <1>1, <1>2 DEF LoadTypes, Listed
  <2> QED BY <2>1, <2>2
<1>15. \A d \in Listed' : d \in Listed /\ d \in DOMAIN entries /\ (d = e => ~gone)
  BY <1>2, <1>14 DEF ListSound
<1>16. \A d \in DOMAIN entries : entries'[d].path = entries[d].path /\ entries'[d].library = entries[d].library
  BY <1>10, <1>12
<1> HIDE DEF gone
<1>17. LoadTypes'
  BY <1>1, <1>2, <1>12, <1>13, <1>14 DEF LoadTypes
<1>18. ListSound'
  <2>1. \A d \in Listed' : d \in DOMAIN entries' /\ ~entries'[d].freed
    BY <1>2, <1>10, <1>12, <1>15 DEF ListSound
  <2>2. \A c, d \in Listed' : entries'[c].path = entries'[d].path => c = d
    BY <1>2, <1>15, <1>16 DEF ListSound
  <2>3. \A d \in DOMAIN entries' : entries'[d].library => d \in Listed'
    BY <1>2, <1>11, <1>12, <1>14, <1>16 DEF ListSound
  <2> QED BY <2>1, <2>2, <2>3 DEF ListSound
<1>19. LoadersSound'
  <2> SUFFICES ASSUME NEW u \in Loaders
               PROVE  /\ loader'[u].at # "idle" => loader'[u].path \in Paths
                      /\ At(u, "inserting")' => OwnEntry(u)'
                      /\ loader'[u].at \in InUse =>
                           loader'[u].entry \in Listed' /\ entries'[loader'[u].entry].path = loader'[u].path
    BY DEF LoadersSound, InUse
  <2>1. CASE u = t
    BY <2>1, <1>6, <1>13 DEF At, InUse
  <2>2. CASE u # t
    <3>1. loader'[u] = loader[u]
      BY <2>2, <1>13
    <3>2. ASSUME At(u, "inserting") PROVE OwnEntry(u)'
      <4>1. OwnEntry(u) /\ loader[u].new # e
        BY <3>2, <1>2, <1>3 DEF LoadersSound, OwnEntry
      <4>2. \A v \in Loaders \ {u} : At(v, "inserting")' => loader'[v].new # loader[u].new
        BY <4>1, <1>6, <1>13 DEF OwnEntry, At
      <4> QED BY <4>1, <4>2, <3>1, <1>12, <1>15 DEF OwnEntry
    <3>3. ASSUME loader[u].at \in InUse
          PROVE  loader[u].entry \in Listed' /\ entries'[loader[u].entry].path = loader[u].path
      <4>1. loader[u].entry \in Listed /\ entries[loader[u].entry].path = loader[u].path
        BY <3>3, <1>2 DEF LoadersSound
      <4>2. gone => loader[u].entry # e
        BY <3>3, <2>2, <1>11 DEF Holders, Holding, InUse
      <4> QED BY <4>1, <4>2, <1>2, <1>14, <1>16 DEF ListSound
    <3>4. At(u, "inserting")' <=> At(u, "inserting")
      BY <3>1 DEF At
    <3> QED BY <3>1, <3>2, <3>3, <3>4, <1>2 DEF LoadersSound
  <2> QED BY <2>1, <2>2
<1>20. CountsSound'
  <2>1. \A d : Loads(d)' = Loads(d)
    BY <1>1 DEF Loads
  <2>2. \A i \in DOMAIN loaded : loaded[i] \in Listed'
    BY <1>2, <1>11, <1>14 DEF CountsSound, Loads
  <2>3. ASSUME NEW d \in Listed'
        PROVE  /\ entries'[d].refCount = Cardinality(Holders(d)') + Cardinality(Loads(d))
               /\ entries'[d].library => Loads(d) # {}
    <3>1. Cardinality(Holders(d)) \in Nat /\ Cardinality(Holders(d)') =
            IF Idle.at \in InUse /\ Idle.entry = d
            THEN IF Holding(t, d) THEN Cardinality(Holders(d)) ELSE Cardinality(Holders(d)) + 1
            ELSE IF Holding(t, d) THEN Cardinality(Holders(d)) - 1 ELSE Cardinality(Holders(d))
      <4>1. HoldersMove(t, Idle, d)
        BY <1>1, <1>2, <1>6, HoldersChange
      <4> QED BY <4>1 DEF HoldersMove
    <3>2. Idle.at \notin InUse /\ (Holding(t, d) <=> d = e)
      BY <1>3, <1>6 DEF InUse, Holding, e
    <3>3. /\ entries[d].refCount = Cardinality(Holders(d)) + Cardinality(Loads(d))
          /\ entries[d].library => Loads(d) # {}
          /\ Cardinality(Loads(d)) \in Nat
      BY <1>2, <1>15, LoadsFinite DEF CountsSound
    <3>4. entries'[d].refCount = IF d = e THEN entries[d].refCount - 1 ELSE entries[d].refCount
      BY <1>10, <1>12, <1>15
    <3> QED BY <3>1, <3>2, <3>3, <3>4, <1>15, <1>16
  <2> QED BY <2>1, <2>2, <2>3, <1>1 DEF CountsSound
<1>21. InitsSound'
  <2> SUFFICES ASSUME NEW p \in Paths
               PROVE  inits'[p] = IF \E d \in Listed' : entries'[d].path = p /\ entries'[d].library THEN 1 ELSE 0
    BY DEF InitsSound
  <2>1. (\E d \in Listed' : entries'[d].path = p /\ entries'[d].library)
          <=> \E d \in Listed : entries[d].path = p /\ entries[d].library
    <3>1. ASSUME NEW d \in Listed, entries[d].library PROVE d \in Listed' /\ d \in DOMAIN entries
      BY <3>1, <1>2, <1>11, <1>14 DEF ListSound
    <3> QED BY <3>1, <1>15, <1>16
  <2> QED BY <2>1, <1>1, <1>2 DEF InitsSound
<1> QED BY <1>17, <1>18, <1>19, <1>20, <1>21 DEF LoadInv

(* The list of notifiers: the last of it is known. *)
NotifiersSound ==
  /\ notifiers \in Seq(Notifiers) /\ IsInjective(notifiers)
  /\ last = IF notifiers = << >> THEN "none" ELSE notifiers[Len(notifiers)]

(* lastNotifiere follows the list of notifiers. *)
LEMMA NotifierSteps ==
  ASSUME NotifiersSound,
         \/ \E n \in Notifiers : Register(n) \/ Unregister(n)
         \/ UnregisterAll
         \/ UNCHANGED <<notifiers, last>>
  PROVE  NotifiersSound'
<1>1. /\ notifiers \in Seq(Notifiers) /\ IsInjective(notifiers)
      /\ last = IF notifiers = << >> THEN "none" ELSE notifiers[Len(notifiers)]
      /\ Range(notifiers) = ToSet(notifiers)
  BY DEF NotifiersSound, Range, ToSet
<1>2. CASE \E n \in Notifiers : Register(n)
  <2> SUFFICES ASSUME NEW n \in Notifiers, Register(n) PROVE NotifiersSound'
    BY <1>2
  <2>1. n \notin ToSet(notifiers) /\ notifiers' = Append(notifiers, n) /\ last' = n
    BY <1>1 DEF Register
  <2>2. notifiers' \in Seq(Notifiers) /\ IsInjective(notifiers')
    BY <1>1, <2>1, AppendList
  <2>3. notifiers' # << >> /\ notifiers'[Len(notifiers')] = n
    BY <1>1, <2>1
  <2> QED BY <2>1, <2>2, <2>3 DEF NotifiersSound
<1>3. CASE \E n \in Notifiers : Unregister(n)
  <2> SUFFICES ASSUME NEW n \in Notifiers, Unregister(n) PROVE NotifiersSound'
    BY <1>3
  <2> DEFINE at == SelectInSeq(notifiers, LAMBDA m : m = n)
  <2>1. /\ n \in ToSet(notifiers) /\ notifiers' = RemoveAt(notifiers, at)
        /\ last' = IF at < Len(notifiers) THEN last ELSE IF at = 1 THEN "none" ELSE notifiers[at - 1]
    BY <1>1 DEF Unregister
  <2>2. at \in 1 .. Len(notifiers) /\ notifiers[at] = n
    BY <1>1, <2>1, PlaceOf
  <2> HIDE DEF at
  <2>3. /\ notifiers' \in Seq(Notifiers) /\ IsInjective(notifiers')
        /\ Len(notifiers') = Len(notifiers) - 1
        /\ \A k \in 1 .. Len(notifiers) - 1 : notifiers'[k] = IF k < at THEN notifiers[k] ELSE notifiers[k + 1]
    BY <1>1, <2>1, <2>2, RemoveAtList
  <2>4. last' = IF notifiers' = << >> THEN "none" ELSE notifiers'[Len(notifiers')]
    <3>1. Len(notifiers) \in Nat /\ at \in Nat /\ at >= 1 /\ at <= Len(notifiers)
      BY <1>1, <2>2
    <3>2. CASE at < Len(notifiers)
      BY <3>1, <3>2, <1>1, <2>1, <2>3
    <3>3. CASE at = Len(notifiers) /\ at = 1
      <4>1. notifiers' = << >>
        BY <3>3, <2>3
      <4>2. last' = "none"
        <5>1. ~(at < Len(notifiers)) /\ at = 1
          BY <3>1, <3>3
        <5>2. last' = IF at < Len(notifiers) THEN last ELSE IF at = 1 THEN "none" ELSE notifiers[at - 1]
          BY <2>1
        <5> QED BY <5>1, <5>2, Zenon
      <4> QED BY <4>1, <4>2
    <3>4. CASE at = Len(notifiers) /\ at > 1
      BY <3>1, <3>4, <1>1, <2>1, <2>3
    <3> QED BY <3>1, <3>2, <3>3, <3>4
  <2> QED BY <2>3, <2>4 DEF NotifiersSound
<1>4. CASE UnregisterAll
  BY <1>4 DEF UnregisterAll, NotifiersSound, IsInjective
<1>5. CASE UNCHANGED <<notifiers, last>>
  BY <1>5 DEF NotifiersSound
<1> QED BY <1>2, <1>3, <1>4, <1>5

-----------------------------------------------------------------------------

ModulesInv == LoadInv /\ NotifiersSound

(* Nothing is loaded at first. *)
LEMMA ModulesStart ==
  ASSUME LoadInit
  PROVE  ModulesInv
<1>1. /\ modulesList = << >> /\ entries = << >> /\ loaded = << >> /\ notifiers = << >> /\ last = "none"
      /\ loader = [t \in Loaders |-> Idle] /\ inits = [p \in Paths |-> 0]
  BY DEF LoadInit
<1>2. Idle \in LoaderType /\ Idle.at = "idle"
  BY DEF Idle, LoaderType, Places
<1>3. Listed = {}
  BY <1>1 DEF Listed, ToSet
<1>4. LoadTypes
  BY <1>1, <1>2 DEF LoadTypes, IsInjective
<1>5. ListSound
  BY <1>1, <1>3 DEF ListSound
<1>6. LoadersSound
  BY <1>1, <1>2 DEF LoadersSound, At, InUse
<1>7. CountsSound
  BY <1>1, <1>3 DEF CountsSound
<1>8. InitsSound
  BY <1>1, <1>3 DEF InitsSound
<1>9. NotifiersSound
  BY <1>1 DEF NotifiersSound, IsInjective
<1> QED BY <1>4, <1>5, <1>6, <1>7, <1>8, <1>9 DEF ModulesInv, LoadInv

(* Each step of a loader or of a notifier keeps the invariant. *)
LEMMA ModulesSteps ==
  ASSUME IsFiniteSet(Loaders), ModulesInv, [LoadNext]_loadVars
  PROVE  ModulesInv'
<1> USE DEF ModulesInv
<1>1. ASSUME NEW t \in Loaders, NEW path \in Paths, Load(t, path) PROVE ModulesInv'
  <2>1. UNCHANGED <<notifiers, last>>
    BY <1>1 DEF Load
  <2> QED BY <1>1, <2>1, LoadStep, NotifierSteps
<1>2. ASSUME NEW t \in Loaders, Allocate(t) PROVE ModulesInv'
  <2>1. UNCHANGED <<notifiers, last>>
    BY <1>2 DEF Allocate
  <2> QED BY <1>2, <2>1, AllocateStep, NotifierSteps
<1>3. ASSUME NEW t \in Loaders, AllocateFails(t) PROVE ModulesInv'
  <2>1. UNCHANGED <<notifiers, last>>
    BY <1>3 DEF AllocateFails
  <2> QED BY <1>3, <2>1, AllocateFailsStep, NotifierSteps
<1>4. ASSUME NEW t \in Loaders, Insert(t) PROVE ModulesInv'
  <2>1. UNCHANGED <<notifiers, last>>
    BY <1>4 DEF Insert
  <2> QED BY <1>4, <2>1, InsertStep, NotifierSteps
<1>5. ASSUME NEW t \in Loaders, Lock(t) \/ OpenFails(t) PROVE ModulesInv'
  <2>1. UNCHANGED <<notifiers, last>>
    BY <1>5 DEF Lock, OpenFails
  <2> QED BY <1>5, <2>1, LockStep, NotifierSteps
<1>6. ASSUME NEW t \in Loaders, Open(t) PROVE ModulesInv'
  <2>1. UNCHANGED <<notifiers, last>>
    BY <1>6 DEF Open
  <2> QED BY <1>6, <2>1, OpenStep, NotifierSteps
<1>7. ASSUME NEW t \in Loaders, Unload(t) PROVE ModulesInv'
  <2>1. UNCHANGED <<notifiers, last>>
    BY <1>7 DEF Unload
  <2> QED BY <1>7, <2>1, UnloadStep, NotifierSteps
<1>8. ASSUME UNCHANGED <<modulesList, entries, loader, loaded, inits>> PROVE LoadInv'
  <2> USE <1>8 DEF LoadInv
  <2>1. LoadTypes' /\ ListSound' /\ InitsSound'
    BY DEF LoadTypes, ListSound, InitsSound, Listed
  <2>2. LoadersSound'
    BY DEF LoadersSound, Listed, OwnEntry, At
  <2>3. CountsSound'
    BY DEF CountsSound, Listed, Holders, Holding, Loads
  <2> QED BY <2>1, <2>2, <2>3
<1>9. CASE (\E n \in Notifiers : Register(n) \/ Unregister(n)) \/ UnregisterAll
  <2>1. UNCHANGED <<modulesList, entries, loader, loaded, inits>>
    BY <1>9 DEF Register, Unregister, UnregisterAll
  <2>2. NotifiersSound'
    BY <1>9, NotifierSteps
  <2> QED BY <2>1, <2>2, <1>8
<1>10. CASE UNCHANGED loadVars
  <2>1. UNCHANGED <<modulesList, entries, loader, loaded, inits>> /\ UNCHANGED <<notifiers, last>>
    BY <1>10 DEF loadVars
  <2>2. NotifiersSound'
    BY <2>1, NotifierSteps
  <2> QED BY <2>1, <2>2, <1>8
<1> QED BY <1>1, <1>2, <1>3, <1>4, <1>5, <1>6, <1>7, <1>9, <1>10 DEF LoadNext

(* What the invariant says of the list and of who holds what. *)
LEMMA InvShares ==
  ASSUME IsFiniteSet(Loaders), ModulesInv
  PROVE  ModulesShared /\ LastNotifier
<1>1. LoadTypes /\ ListSound /\ LoadersSound /\ CountsSound /\ InitsSound
  BY DEF ModulesInv, LoadInv
<1>2. Range(modulesList) = Listed
  BY DEF Range, Listed, ToSet
<1>3. \A i, j \in DOMAIN modulesList : entries[modulesList[i]].path = entries[modulesList[j]].path => i = j
  <2>1. \A i \in DOMAIN modulesList : modulesList[i] \in Listed
    BY DEF Listed, ToSet
  <2>2. \A d, e \in Listed : entries[d].path = entries[e].path => d = e
    BY <1>1 DEF ListSound
  <2>3. \A i, j \in DOMAIN modulesList : modulesList[i] = modulesList[j] => i = j
    BY <1>1 DEF LoadTypes, IsInjective
  <2> QED BY <2>1, <2>2, <2>3
<1>4. ASSUME NEW e \in DOMAIN entries
      PROVE  /\ entries[e].freed => e \notin Listed /\ \A t \in Loaders : ~Holding(t, e)
             /\ e \in Listed =>
                  entries[e].refCount = Cardinality({t \in Loaders : Holding(t, e)}) + Cardinality({i \in DOMAIN loaded : loaded[i] = e})
             /\ entries[e].library => e \in Listed
  <2>1. entries[e].freed => e \notin Listed
    BY <1>1 DEF ListSound
  <2>2. \A t \in Loaders : Holding(t, e) => e \in Listed
    BY <1>1 DEF LoadersSound, Holding, InUse
  <2>3. e \in Listed => entries[e].refCount = Cardinality(Holders(e)) + Cardinality(Loads(e))
    BY <1>1 DEF CountsSound
  <2>4. entries[e].library => e \in Listed
    BY <1>1 DEF ListSound
  <2> QED BY <2>1, <2>2, <2>3, <2>4 DEF Holders, Loads
<1>5. ASSUME NEW p \in Paths
      PROVE  inits[p] = Cardinality({e \in DOMAIN entries : entries[e].path = p /\ entries[e].library}) /\ inits[p] <= 1
  <2> DEFINE Initialized == {e \in DOMAIN entries : entries[e].path = p /\ entries[e].library}
  <2>1. inits[p] = IF \E e \in Listed : entries[e].path = p /\ entries[e].library THEN 1 ELSE 0
    BY <1>1 DEF InitsSound
  <2>2. CASE \E e \in Listed : entries[e].path = p /\ entries[e].library
    <3>1. PICK e \in Listed : entries[e].path = p /\ entries[e].library
      BY <2>2
    <3>2. Initialized = {e}
      BY <3>1, <1>1 DEF ListSound
    <3>3. Cardinality(Initialized) = 1
      BY <3>2, FS_Singleton
    <3> QED BY <3>3, <2>1, <2>2
  <2>3. CASE ~ \E e \in Listed : entries[e].path = p /\ entries[e].library
    <3>1. Initialized = {}
      BY <2>3, <1>1 DEF ListSound
    <3> QED BY <3>1, <2>1, <2>3, FS_EmptySet
  <2> QED BY <2>2, <2>3
<1>6. ModulesShared
  BY <1>2, <1>3, <1>4, <1>5 DEF ModulesShared
<1>7. LastNotifier
  BY DEF ModulesInv, NotifiersSound, LastNotifier, Last
<1> QED BY <1>6, <1>7

(* However many threads load modules at once, and whatever fails: the list has one
   entry for each path, with as many references as there are threads and successful
   calls that hold it, it is freed when they are none, and its module is initialized
   once; lastNotifiere is the last of the notifiers.
   (Context.c: NQContext_loadModule, NQContext_registerNotifier.) *)
THEOREM ModulesAreShared == IsFiniteSet(Loaders) /\ LoadSpec => [](ModulesShared /\ LastNotifier)
<1> SUFFICES ASSUME IsFiniteSet(Loaders) PROVE LoadSpec => [](ModulesShared /\ LastNotifier)
  OBVIOUS
<1>1. LoadInit => ModulesInv
  BY ModulesStart
<1>2. ModulesInv /\ [LoadNext]_loadVars => ModulesInv'
  BY ModulesSteps
<1>3. ModulesInv => ModulesShared /\ LastNotifier
  BY InvShares
<1> QED BY <1>1, <1>2, <1>3, PTL DEF LoadSpec

(***************************************************************************)
(* The application and its events.                                         *)
(***************************************************************************)

(* What was done is told by where the thread that runs the application is. *)
Before ==
  IF worker \in {"none", "creating"} THEN << >>
  ELSE IF worker \in {"created", "dispatching"} THEN <<"create">>
  ELSE IF worker = "destroying" THEN <<"create", "dispatch">>
  ELSE <<"create", "dispatch", "destroy">>

LifeInv ==
  /\ caller \in {"initialized", "running", "returned", "finalized"}
  /\ worker \in {"none", "creating", "created", "dispatching", "destroying", "destroyed", "over"}
  /\ running \in BOOLEAN /\ destroyed \in BOOLEAN
  /\ mode \in {"none", "sync", "async"} /\ (worker = "none" <=> mode = "none")
  /\ worker \in {"created", "destroyed"} => mode = "async"
  /\ running => mode = "async" /\ worker \notin {"creating", "created"}
  /\ destroyed <=> mode = "async" /\ worker = "over"
  /\ caller = "initialized" => worker = "none"
  /\ caller = "running" => worker # "none"
  /\ caller = "returned" => worker \in {"dispatching", "destroying", "destroyed", "over"}
  /\ caller = "returned" /\ mode # "async" => worker = "over"
  /\ caller = "finalized" => worker \in {"none", "over"}
  /\ done = IF caller = "finalized" THEN Append(Before, "finalize") ELSE Before
  /\ usable = (caller # "finalized")
  /\ misused = FALSE

ListenerType == [id : Nat, callback : Callbacks]
WalkType == [next : Seq(ListenerType), called : Seq(Nat), kept : SUBSET Nat]

(* The listeners are in the order in which they were added, the last one first. *)
ListenersSound ==
  /\ listeners \in Seq(ListenerType) /\ added \in Nat
  /\ \A i \in 1 .. Len(listeners) : listeners[i].id <= added
  /\ \A i, j \in 1 .. Len(listeners) : i < j => listeners[j].id < listeners[i].id

Ids == {listeners[i].id : i \in 1 .. Len(listeners)}

(* A walk calls them in that order, and passes none of those it keeps. *)
WalkOn ==
  LET called == dispatching.called
      n == Head(dispatching.next)
  IN /\ dispatching.next # << >> /\ called # << >>
     /\ \A i, j \in 1 .. Len(called) : i < j => called[j] < called[i]
     /\ called[Len(called)] = n.id
     /\ dispatching.kept \subseteq Ids
     /\ \A k \in dispatching.kept : k >= n.id => k \in Range(called)
WalkSound ==
  /\ dispatching \in WalkType
  /\ dispatching # None => worker = "dispatching" /\ WalkOn

AppInv == LifeInv /\ ListenersSound /\ WalkSound

-----------------------------------------------------------------------------

(* What is done is put behind what was. *)
LEMMA AppendSecond ==
  ASSUME NEW a, NEW b
  PROVE  Append(<<a>>, b) = <<a, b>>
<1> DEFINE S == {a, b}
           s == Append(<<a>>, b)
           t == <<a, b>>
<1>1. s \in Seq(S) /\ Len(s) = 2 /\ s[1] = a /\ s[2] = b
  OBVIOUS
<1>2. t \in Seq(S) /\ Len(t) = 2 /\ t[1] = a /\ t[2] = b
  OBVIOUS
<1> HIDE DEF s, t
<1>3. s = t
  BY <1>1, <1>2, SeqEqual
<1> QED BY <1>3 DEF s, t

(* The third of what happened to an application. *)
LEMMA AppendThird ==
  ASSUME NEW a, NEW b, NEW c
  PROVE  Append(<<a, b>>, c) = <<a, b, c>>
<1> DEFINE S == {a, b, c}
           s == Append(<<a, b>>, c)
           t == <<a, b, c>>
<1>1. s \in Seq(S) /\ Len(s) = 3 /\ s[1] = a /\ s[2] = b /\ s[3] = c
  OBVIOUS
<1>2. t \in Seq(S) /\ Len(t) = 3 /\ t[1] = a /\ t[2] = b /\ t[3] = c
  OBVIOUS
<1> HIDE DEF s, t
<1>3. s = t
  BY <1>1, <1>2, SeqEqual
<1> QED BY <1>3 DEF s, t

(* The last of it. *)
LEMMA AppendFourth ==
  ASSUME NEW a, NEW b, NEW c, NEW d
  PROVE  Append(<<a, b, c>>, d) = <<a, b, c, d>>
<1> DEFINE S == {a, b, c, d}
           s == Append(<<a, b, c>>, d)
           t == <<a, b, c, d>>
<1>1. s \in Seq(S) /\ Len(s) = 4 /\ s[1] = a /\ s[2] = b /\ s[3] = c /\ s[4] = d
  OBVIOUS
<1>2. t \in Seq(S) /\ Len(t) = 4 /\ t[1] = a /\ t[2] = b /\ t[3] = c /\ t[4] = d
  OBVIOUS
<1> HIDE DEF s, t
<1>3. s = t
  BY <1>1, <1>2, SeqEqual
<1> QED BY <1>3 DEF s, t

(* An initialized application has no worker, no listener and no walk. *)
LEMMA AppStarts ==
  ASSUME AppInit
  PROVE  AppInv
<1> USE DEF AppInit
<1>1. LifeInv
  BY DEF LifeInv, Before
<1>2. ListenersSound
  BY DEF ListenersSound
<1>3. WalkSound
  BY DEF WalkSound, WalkType, None
<1> QED BY <1>1, <1>2, <1>3 DEF AppInv

(* The steps of the run's thread and of the caller. *)
LEMMA LifeSteps ==
  ASSUME LifeInv, WalkSound, AppNext
  PROVE  LifeInv'
<1>1. ASSUME NEW async \in BOOLEAN, Run(async) PROVE LifeInv'
  BY <1>1 DEF Run, LifeInv, Before
<1>2. ASSUME DoCreate PROVE LifeInv'
  <2>1. caller = "running"
    BY <1>2 DEF DoCreate, LifeInv
  <2>2. done' = <<"create">>
    BY <1>2, <2>1 DEF DoCreate, Does, LifeInv, Before
  <2> QED BY <1>2, <2>1, <2>2 DEF DoCreate, LifeInv, Before
<1>3. ASSUME TellsRunning PROVE LifeInv'
  BY <1>3 DEF TellsRunning, Uses, LifeInv, Before
<1>4. ASSUME Dispatched PROVE LifeInv'
  <2>1. caller \in {"running", "returned"} /\ done = <<"create">> /\ done' = Append(done, "dispatch")
    BY <1>4 DEF Dispatched, Does, LifeInv, Before
  <2>2. done' = <<"create", "dispatch">>
    BY <2>1, AppendSecond
  <2> QED BY <1>4, <2>1, <2>2 DEF Dispatched, LifeInv, Before
<1>5. ASSUME DoDestroy PROVE LifeInv'
  <2>1. caller \in {"running", "returned"} /\ done = <<"create", "dispatch">> /\ done' = Append(done, "destroy")
    BY <1>5 DEF DoDestroy, Does, LifeInv, Before
  <2>2. done' = <<"create", "dispatch", "destroy">>
    BY <2>1, AppendThird
  <2> QED BY <1>5, <2>1, <2>2 DEF DoDestroy, LifeInv, Before
<1>6. ASSUME TellsDestroyed PROVE LifeInv'
  BY <1>6 DEF TellsDestroyed, Uses, LifeInv, Before
<1>7. ASSUME RunReturns PROVE LifeInv'
  BY <1>7 DEF RunReturns, MayReturn, LifeInv, Before
<1>8. ASSUME Finalize PROVE LifeInv'
  BY <1>8 DEF Finalize, MayFinalize, Does, LifeInv, Before
<1>9. ASSUME UNCHANGED <<mode, running, destroyed, caller, worker, usable, misused, done>> PROVE LifeInv'
  BY <1>9 DEF LifeInv, Before
<1>10. ASSUME NEW callback \in Callbacks, AddListener(callback) \/ RemoveListener(callback) PROVE LifeInv'
  BY <1>9, <1>10 DEF AddListener, RemoveListener
<1>11. ASSUME DispatchEvent \/ CallNext \/ CancelBubble PROVE LifeInv'
  BY <1>9, <1>11 DEF DispatchEvent, CallNext, CancelBubble
<1> QED BY <1>1, <1>2, <1>3, <1>4, <1>5, <1>6, <1>7, <1>8, <1>10, <1>11 DEF AppNext, WorkerStep

(* Create, dispatch, destroy, finalize, in that order. *)
LEMMA InvOrdersLife ==
  ASSUME LifeInv
  PROVE  AppLifecycle
<1> DEFINE All == <<"create", "dispatch", "destroy", "finalize">>
<1>1. \/ done = << >> \/ done = <<"create">> \/ done = <<"create", "dispatch">>
      \/ done = <<"create", "dispatch", "destroy">> \/ done = All \/ done = <<"finalize">>
  <2>1. CASE caller = "finalized"
    <3>1. Before = << >> \/ Before = <<"create", "dispatch", "destroy">>
      BY <2>1 DEF LifeInv, Before
    <3>2. Append(<< >>, "finalize") = <<"finalize">>
      OBVIOUS
    <3>3. Append(<<"create", "dispatch", "destroy">>, "finalize") = All
      BY AppendFourth
    <3> QED BY <2>1, <3>1, <3>2, <3>3 DEF LifeInv
  <2>2. CASE caller # "finalized"
    BY <2>2 DEF LifeInv, Before
  <2> QED BY <2>1, <2>2
<1>2. done = << >> => IsPrefix(done, All)
  BY DEF IsPrefix
<1>3. done = <<"create">> => IsPrefix(done, All)
  BY DEF IsPrefix
<1>4. done = <<"create", "dispatch">> => IsPrefix(done, All)
  BY DEF IsPrefix
<1>5. done = <<"create", "dispatch", "destroy">> => IsPrefix(done, All)
  BY DEF IsPrefix
<1>6. done = All => IsPrefix(done, All)
  BY DEF IsPrefix
<1>7. caller = "returned" => "create" \in Range(done)
  <2> SUFFICES ASSUME caller = "returned" PROVE "create" \in Range(done)
    OBVIOUS
  <2>1. 1 \in DOMAIN done /\ done[1] = "create"
    BY DEF LifeInv, Before
  <2> QED BY <2>1 DEF Range
<1> QED BY <1>1, <1>2, <1>3, <1>4, <1>5, <1>6, <1>7 DEF AppLifecycle, LifeInv

-----------------------------------------------------------------------------

(* Two walks that agree are the same. *)
LEMMA SameWalk ==
  ASSUME NEW v \in WalkType, NEW w \in WalkType, v.next = w.next, v.called = w.called, v.kept = w.kept
  PROVE  v = w
  BY DEF WalkType

(* What the order of the listeners says of their ids. *)
LEMMA ListenersAre ==
  ASSUME ListenersSound
  PROVE  /\ listeners \in Seq(ListenerType) /\ Len(listeners) \in Nat /\ DOMAIN listeners = 1 .. Len(listeners)
         /\ added \in Nat
         /\ \A i \in 1 .. Len(listeners) : listeners[i] \in ListenerType /\ listeners[i].id \in Nat
         /\ \A i, j \in 1 .. Len(listeners) : i < j => listeners[j].id < listeners[i].id
<1>1. \A l \in ListenerType : l.id \in Nat
  BY DEF ListenerType
<1>2. /\ listeners \in Seq(ListenerType) /\ Len(listeners) \in Nat /\ DOMAIN listeners = 1 .. Len(listeners)
      /\ added \in Nat
      /\ \A i \in 1 .. Len(listeners) : listeners[i] \in ListenerType
      /\ \A i, j \in 1 .. Len(listeners) : i < j => listeners[j].id < listeners[i].id
  BY DEF ListenersSound
<1> QED BY <1>1, <1>2

(* A listener comes in front. *)
LEMMA AddSteps ==
  ASSUME LifeInv, ListenersSound, WalkSound, NEW callback \in Callbacks, AddListener(callback)
  PROVE  ListenersSound' /\ WalkSound'
<1> DEFINE n == [id |-> added + 1, callback |-> callback]
<1>1. /\ worker = "dispatching" /\ worker' = worker /\ dispatching' = dispatching /\ added' = added + 1
      /\ listeners' = <<n>> \o listeners
  BY DEF AddListener
<1>2. n \in ListenerType /\ n.id = added + 1
  BY DEF ListenersSound, ListenerType
<1> HIDE DEF n
<1>3. Len(listeners) \in Nat /\ added \in Nat /\ \A i \in 1 .. Len(listeners) : listeners[i] \in ListenerType
  BY DEF ListenersSound
<1>4. /\ listeners' \in Seq(ListenerType) /\ Len(listeners') = Len(listeners) + 1 /\ listeners'[1] = n
      /\ \A i \in 2 .. Len(listeners) + 1 : listeners'[i] = listeners[i - 1]
  BY <1>1, <1>2, <1>3 DEF ListenersSound
<1>5. \A i \in 1 .. Len(listeners) : listeners[i].id \in Nat
  BY <1>3 DEF ListenerType
<1>6. ListenersSound'
  <2>1. ASSUME NEW i \in 1 .. Len(listeners'), NEW j \in 1 .. Len(listeners'), i < j
        PROVE  listeners'[j].id < listeners'[i].id
    <3>1. listeners'[j] = listeners[j - 1] /\ j - 1 \in 1 .. Len(listeners)
      BY <2>1, <1>3, <1>4
    <3>2. CASE i = 1
      BY <3>1, <3>2, <1>2, <1>3, <1>4, <1>5 DEF ListenersSound
    <3>3. CASE i # 1
      <4>1. listeners'[i] = listeners[i - 1] /\ i - 1 \in 1 .. Len(listeners) /\ i - 1 < j - 1
        BY <3>3, <2>1, <1>3, <1>4
      <4> QED BY <3>1, <4>1 DEF ListenersSound
    <3> QED BY <3>2, <3>3
  <2>2. ASSUME NEW i \in 1 .. Len(listeners') PROVE listeners'[i].id <= added'
    <3>1. CASE i = 1
      BY <3>1, <1>1, <1>2, <1>3, <1>4
    <3>2. CASE i # 1
      <4>1. listeners'[i] = listeners[i - 1] /\ i - 1 \in 1 .. Len(listeners)
        BY <3>2, <1>3, <1>4
      <4> QED BY <4>1, <1>1, <1>3, <1>5 DEF ListenersSound
    <3> QED BY <3>1, <3>2
  <2> QED BY <2>1, <2>2, <1>1, <1>3, <1>4 DEF ListenersSound
<1>7. Ids \subseteq Ids'
  <2> SUFFICES ASSUME NEW i \in 1 .. Len(listeners) PROVE listeners[i].id \in Ids'
    BY DEF Ids
  <2>1. i + 1 \in 1 .. Len(listeners') /\ listeners'[i + 1] = listeners[i]
    BY <1>3, <1>4
  <2> QED BY <2>1 DEF Ids
<1>8. WalkSound'
  BY <1>1, <1>7 DEF WalkSound, WalkOn, None
<1> QED BY <1>6, <1>8

(* A listener goes, and is not kept. *)
LEMMA RemoveSteps ==
  ASSUME LifeInv, ListenersSound, WalkSound, NEW callback \in Callbacks, RemoveListener(callback)
  PROVE  ListenersSound' /\ WalkSound'
<1> DEFINE at == FirstWith(callback)
           gone == listeners[at]
<1>1. /\ worker = "dispatching" /\ worker' = worker /\ added' = added /\ at # 0
      /\ listeners' = RemoveAt(listeners, at)
      /\ dispatching' = [dispatching EXCEPT !.kept = @ \ {gone.id}]
  BY DEF RemoveListener
<1>2. Len(listeners) \in Nat /\ added \in Nat /\ \A i \in 1 .. Len(listeners) : listeners[i].id \in Nat
  BY ListenersAre
<1>3. at \in 1 .. Len(listeners)
  <2> DEFINE I == {i \in 1 .. Len(listeners) : listeners[i].callback = callback}
  <2>1. at = IF I # {} THEN Min(I) ELSE 0
    BY DEF FirstWith, SelectInSeq
  <2>2. I # {} => Min(I) \in I
    <3>1. I \in SUBSET Nat
      OBVIOUS
    <3> QED BY <3>1, LeastMember DEF Min
  <2> HIDE DEF at
  <2> QED BY <1>1, <2>1, <2>2
<1> HIDE DEF at
<1>4. \A i, j \in 1 .. Len(listeners) : listeners[i].id = listeners[j].id => i = j
  BY <1>2 DEF ListenersSound
<1>5. IsInjective(listeners)
  BY <1>4 DEF IsInjective, ListenersSound
<1>6. /\ listeners' \in Seq(ListenerType) /\ Len(listeners') = Len(listeners) - 1
      /\ \A k \in 1 .. Len(listeners) - 1 : listeners'[k] = IF k < at THEN listeners[k] ELSE listeners[k + 1]
  BY <1>1, <1>3, <1>5, RemoveAtList DEF ListenersSound
<1> DEFINE Was(k) == IF k < at THEN k ELSE k + 1
<1>7. \A k \in 1 .. Len(listeners') : Was(k) \in 1 .. Len(listeners) /\ listeners'[k] = listeners[Was(k)]
  BY <1>2, <1>3, <1>6
<1>8. \A i, j \in 1 .. Len(listeners') : i < j => Was(i) < Was(j)
  BY <1>2, <1>3, <1>6
<1>9. ListenersSound'
  <2> HIDE DEF Was
  <2> QED BY <1>1, <1>6, <1>7, <1>8 DEF ListenersSound
<1>10. Ids \ {gone.id} \subseteq Ids'
  <2> SUFFICES ASSUME NEW i \in 1 .. Len(listeners), i # at PROVE listeners[i].id \in Ids'
    BY DEF Ids
  <2>1. CASE i < at
    <3>1. i \in 1 .. Len(listeners') /\ listeners'[i] = listeners[i]
      BY <2>1, <1>2, <1>3, <1>6
    <3> QED BY <3>1 DEF Ids
  <2>2. CASE i > at
    <3>1. i - 1 \in 1 .. Len(listeners') /\ listeners'[i - 1] = listeners[i]
      BY <2>2, <1>2, <1>3, <1>6
    <3> QED BY <3>1 DEF Ids
  <2> QED BY <2>1, <2>2, <1>2, <1>3
<1>11. /\ dispatching' \in WalkType /\ dispatching'.next = dispatching.next
       /\ dispatching'.called = dispatching.called /\ dispatching'.kept = dispatching.kept \ {gone.id}
  BY <1>1 DEF WalkSound, WalkType
<1>12. dispatching = None => dispatching' = None
  <2> SUFFICES ASSUME dispatching = None PROVE dispatching' = None
    OBVIOUS
  <2>1. None \in WalkType
    BY DEF WalkSound
  <2>2. dispatching'.next = None.next /\ dispatching'.called = None.called /\ dispatching'.kept = None.kept
    BY <1>11 DEF None
  <2> QED BY <1>11, <2>1, <2>2, SameWalk
<1>13. WalkSound'
  <2> SUFFICES ASSUME dispatching # None PROVE WalkOn'
    BY <1>1, <1>11, <1>12 DEF WalkSound, None
  <2> QED BY <1>10, <1>11 DEF WalkSound, WalkOn
<1> QED BY <1>9, <1>13

(* An event is dispatched: the first listener is called. *)
LEMMA DispatchSteps ==
  ASSUME ListenersSound, WalkSound, DispatchEvent
  PROVE  ListenersSound' /\ WalkSound'
<1>1. /\ worker = "dispatching" /\ worker' = worker /\ added' = added /\ listeners' = listeners /\ listeners # << >>
      /\ dispatching' = [next |-> <<Head(listeners)>>, called |-> <<Head(listeners).id>>,
                         kept |-> {listeners[i].id : i \in DOMAIN listeners}]
  BY DEF DispatchEvent
<1>2. /\ Len(listeners) \in Nat /\ Len(listeners) >= 1 /\ DOMAIN listeners = 1 .. Len(listeners) /\ Head(listeners) = listeners[1]
      /\ \A i \in 1 .. Len(listeners) : listeners[i] \in ListenerType /\ listeners[i].id \in Nat
  BY <1>1, ListenersAre
<1>3. ListenersSound'
  BY <1>1 DEF ListenersSound
<1>4. Ids' = Ids /\ Ids \subseteq Nat /\ dispatching' = [next |-> <<listeners[1]>>, called |-> <<listeners[1].id>>, kept |-> Ids]
  BY <1>1, <1>2 DEF Ids
<1>5. /\ dispatching'.next = <<listeners[1]>> /\ dispatching'.called = <<listeners[1].id>> /\ dispatching'.kept = Ids
      /\ dispatching' \in WalkType
  BY <1>2, <1>4 DEF WalkType
<1>6. WalkOn'
  <2>1. \A k \in Ids : k >= listeners[1].id => k = listeners[1].id
    BY <1>2 DEF Ids, ListenersSound
  <2>2. Range(<<listeners[1].id>>) = {listeners[1].id}
    BY DEF Range
  <2> QED BY <1>2, <1>4, <1>5, <2>1, <2>2 DEF WalkOn
<1>7. WalkSound'
  BY <1>1, <1>5, <1>6 DEF WalkSound, None
<1> QED BY <1>3, <1>7

(* What comes after a listener that is in the list. *)
LEMMA AfterIs ==
  ASSUME ListenersSound, NEW l
  PROVE  /\ After(l) # << >> => \E i \in 1 .. Len(listeners) - 1 : listeners[i] = l /\ After(l) = <<listeners[i + 1]>>
         /\ After(l) = << >> /\ l \in Range(listeners) => Len(listeners) >= 1 /\ listeners[Len(listeners)] = l
<1> DEFINE at == SelectInSeq(listeners, LAMBDA k : k = l)
<1>1. listeners \in Seq(ListenerType) /\ Len(listeners) \in Nat
  BY ListenersAre
<1>2. Range(listeners) = ToSet(listeners)
  BY DEF Range, ToSet
<1>3. at \in Nat /\ at <= Len(listeners) /\ (at # 0 => listeners[at] = l) /\ (l \in ToSet(listeners) => at # 0)
  <2> DEFINE I == {i \in 1 .. Len(listeners) : listeners[i] = l}
  <2>1. at = IF I # {} THEN Min(I) ELSE 0
    BY DEF SelectInSeq
  <2>2. I \in SUBSET Nat
    OBVIOUS
  <2>3. I # {} => Min(I) \in I
    BY <2>2, LeastMember DEF Min
  <2> HIDE DEF at
  <2>4. l \in ToSet(listeners) => I # {}
    BY <1>1 DEF ToSet
  <2>5. at = 0 \/ at \in I
    BY <2>1, <2>3
  <2>6. at # 0 => at \in I
    BY <2>5
  <2>7. I # {} => at # 0
    BY <2>1, <2>3
  <2>8. at \in Nat /\ at <= Len(listeners)
    BY <1>1, <2>5
  <2> QED BY <2>4, <2>6, <2>7, <2>8
<1>4. After(l) = IF at = 0 \/ at = Len(listeners) THEN << >> ELSE <<listeners[at + 1]>>
  BY DEF After
<1> HIDE DEF at
<1>5. CASE at = 0 \/ at = Len(listeners)
  BY <1>1, <1>2, <1>3, <1>4, <1>5
<1>6. CASE at # 0 /\ at # Len(listeners)
  <2>1. at \in 1 .. Len(listeners) - 1 /\ listeners[at] = l
    BY <1>1, <1>3, <1>6
  <2>2. After(l) = <<listeners[at + 1]>>
    BY <1>4, <1>6
  <2> QED BY <2>1, <2>2
<1> QED BY <1>5, <1>6

(* The next listener is called, or the walk is over. *)
LEMMA CallSteps ==
  ASSUME ListenersSound, WalkSound, CallNext
  PROVE  ListenersSound' /\ WalkSound'
<1> DEFINE l == Head(dispatching.next)
           next == After(l)
<1>1. /\ worker' = worker /\ added' = added /\ listeners' = listeners /\ dispatching # None
      /\ next = << >> => dispatching' = None
      /\ next # << >> => dispatching' = [dispatching EXCEPT !.next = next, !.called = Append(@, Head(next).id)]
  BY DEF CallNext
<1>2. ListenersSound' /\ Ids' = Ids
  BY <1>1 DEF ListenersSound, Ids
<1>3. next # << >> => \E i \in 1 .. Len(listeners) - 1 : listeners[i] = l /\ next = <<listeners[i + 1]>>
  BY AfterIs
<1> HIDE DEF next
<1>4. CASE next = << >>
  <2>1. dispatching' = None
    BY <1>1, <1>4
  <2>2. None \in WalkType
    BY DEF WalkType, None
  <2> QED BY <1>2, <2>1, <2>2 DEF WalkSound, None
<1>5. CASE next # << >>
  <2>0. PICK at \in 1 .. Len(listeners) - 1 : listeners[at] = l /\ next = <<listeners[at + 1]>>
    BY <1>3, <1>5
  <2>1. /\ at \in 1 .. Len(listeners) /\ at + 1 \in 1 .. Len(listeners) /\ next = <<listeners[at + 1]>>
        /\ l = listeners[at]
    BY <2>0, ListenersAre
  <2> DEFINE n == listeners[at + 1]
             called == dispatching.called
  <2>2. n \in ListenerType /\ n.id \in Nat /\ l.id \in Nat /\ n.id < l.id /\ Head(next) = n /\ next # << >>
    <3> HIDE DEF l
    <3>1. at < at + 1
      BY <2>0
    <3> QED BY <2>1, <3>1, ListenersAre
  <2>3. /\ dispatching \in WalkType /\ worker = "dispatching"
        /\ called \in Seq(Nat) /\ called # << >> /\ called[Len(called)] = l.id
        /\ \A i, j \in 1 .. Len(called) : i < j => called[j] < called[i]
        /\ dispatching.kept \subseteq Ids
        /\ \A k \in dispatching.kept : k >= l.id => k \in Range(called)
    BY <1>1 DEF WalkSound, WalkOn, WalkType
  <2>4. /\ dispatching' \in WalkType /\ dispatching'.next = next /\ dispatching'.called = Append(called, n.id)
        /\ dispatching'.kept = dispatching.kept
    <3>1. dispatching' = [dispatching EXCEPT !.next = next, !.called = Append(@, n.id)]
      BY <1>1, <1>5, <2>2
    <3>2. next \in Seq(ListenerType) /\ Append(called, n.id) \in Seq(Nat)
      BY <2>1, <2>2, <2>3
    <3> HIDE DEF n
    <3> QED BY <2>3, <3>1, <3>2 DEF WalkType
  <2> HIDE DEF l, n, called
  <2> DEFINE more == Append(called, n.id)
  <2>5. /\ Len(called) \in Nat /\ Len(called) >= 1 /\ Len(more) = Len(called) + 1 /\ more[Len(called) + 1] = n.id
        /\ \A i \in 1 .. Len(called) : more[i] = called[i] /\ called[i] \in Nat
        /\ DOMAIN more = 1 .. Len(called) + 1 /\ DOMAIN called = 1 .. Len(called) /\ more # << >>
    <3>1. Len(called) \in Nat /\ Len(called) >= 1 /\ DOMAIN called = 1 .. Len(called)
      BY <2>3
    <3>2. \A i \in 1 .. Len(called) : more[i] = called[i] /\ called[i] \in Nat
      BY <2>2, <2>3
    <3>3. /\ Len(more) = Len(called) + 1 /\ more[Len(called) + 1] = n.id
          /\ DOMAIN more = 1 .. Len(called) + 1
      BY <2>2, <2>3
    <3>4. more # << >>
      BY <3>1, <3>3
    <3> QED BY <3>1, <3>2, <3>3, <3>4
  <2> HIDE DEF more
  <2>6. ASSUME NEW i \in 1 .. Len(more), NEW j \in 1 .. Len(more), i < j PROVE more[j] < more[i]
    <3>1. CASE j <= Len(called)
      <4>1. i \in 1 .. Len(called) /\ j \in 1 .. Len(called)
        BY <3>1, <2>5, <2>6
      <4>2. called[j] < called[i]
        BY <4>1, <2>3, <2>6
      <4> QED BY <4>1, <4>2, <2>5
    <3>2. CASE j = Len(called) + 1
      <4>1. i \in 1 .. Len(called) /\ more[i] = called[i] /\ called[i] \in Nat
        BY <3>2, <2>5, <2>6
      <4>2. called[i] >= l.id
        <5>1. CASE i = Len(called)
          BY <5>1, <2>2, <2>3
        <5>2. CASE i < Len(called)
          <6>1. called[Len(called)] < called[i]
            BY <5>2, <4>1, <2>3, <2>5
          <6> QED BY <6>1, <4>1, <2>2, <2>3
        <5>3. i = Len(called) \/ i < Len(called)
          <6>1. Len(called) \in Nat
            BY <2>5
          <6>2. i \in 1 .. Len(called)
            BY <4>1
          <6> QED BY <6>1, <6>2
        <5> QED BY <5>1, <5>2, <5>3
      <4> QED BY <3>2, <4>1, <4>2, <2>2, <2>5
    <3> QED BY <3>1, <3>2, <2>5
  <2>7. ASSUME NEW k \in dispatching.kept, k >= n.id PROVE k \in Range(more)
    <3>1. PICK i \in 1 .. Len(listeners) : listeners[i].id = k
      BY <2>3 DEF Ids
    <3>2. i <= at + 1
      <4> SUFFICES ASSUME i > at + 1 PROVE FALSE
        BY <2>1, <3>1
      <4>1. listeners[i].id < listeners[at + 1].id
        BY <2>1, <3>1, ListenersAre
      <4>2. k < n.id /\ k \in Nat
        BY <4>1, <3>1, ListenersAre DEF n
      <4> QED BY <4>2, <2>2, <2>7
    <3>3. Range(called) \subseteq Range(more) /\ n.id \in Range(more)
      <4>1. Len(called) + 1 \in DOMAIN more /\ more[Len(called) + 1] = n.id
        BY <2>5
      <4>2. ASSUME NEW j \in DOMAIN called PROVE j \in DOMAIN more /\ more[j] = called[j]
        BY <2>5
      <4> QED BY <4>1, <4>2 DEF Range
    <3>4. CASE i = at + 1
      BY <3>1, <3>3, <3>4 DEF n
    <3>5. CASE i # at + 1
      <4>1. i = at \/ i < at
        BY <3>2, <3>5, <2>1, <3>1
      <4>2. k >= l.id
        <5>1. l.id = listeners[at].id /\ k \in Nat
          BY <2>1, <3>1, ListenersAre
        <5>2. i < at => l.id < k
          BY <5>1, <2>1, <3>1, ListenersAre
        <5> QED BY <4>1, <5>1, <5>2, <3>1, <2>2
      <4> QED BY <4>2, <2>3, <3>3
    <3> QED BY <3>4, <3>5
  <2>8. WalkOn'
    <3>1. dispatching'.called[Len(dispatching'.called)] = Head(dispatching'.next).id
      BY <2>2, <2>4, <2>5 DEF more
    <3>2. dispatching'.next # << >> /\ dispatching'.called # << >>
      BY <1>5, <2>4, <2>5 DEF more
    <3> QED BY <3>1, <3>2, <1>2, <2>2, <2>3, <2>4, <2>6, <2>7 DEF WalkOn, more
  <2> QED BY <1>1, <1>2, <2>3, <2>4, <2>8 DEF WalkSound, None
<1> QED BY <1>4, <1>5

-----------------------------------------------------------------------------

(* Every step keeps the invariant. *)
LEMMA AppSteps ==
  ASSUME AppInv, [AppNext]_appVars
  PROVE  AppInv'
<1>1. LifeInv /\ ListenersSound /\ WalkSound
  BY DEF AppInv
<1>2. ASSUME UNCHANGED <<listeners, added, dispatching>>, dispatching = None \/ worker' = worker
      PROVE  ListenersSound' /\ WalkSound'
  BY <1>1, <1>2 DEF ListenersSound, WalkSound, WalkOn, Ids, None
<1>3. CASE AppNext
  <2>1. LifeInv'
    BY <1>1, <1>3, LifeSteps
  <2>2. worker # "dispatching" => dispatching = None
    BY <1>1 DEF WalkSound
  <2>3. ASSUME \E async \in BOOLEAN : Run(async) PROVE ListenersSound' /\ WalkSound'
    <3>1. UNCHANGED <<listeners, added, dispatching>> /\ worker # "dispatching"
      BY <1>1, <2>3 DEF Run, eventVars, LifeInv
    <3> QED BY <3>1, <2>2, <1>2
  <2>4. ASSUME DoCreate \/ TellsRunning PROVE ListenersSound' /\ WalkSound'
    <3>1. UNCHANGED <<listeners, added, dispatching>> /\ worker # "dispatching"
      BY <2>4 DEF DoCreate, TellsRunning, eventVars
    <3> QED BY <3>1, <2>2, <1>2
  <2>5. ASSUME Dispatched PROVE ListenersSound' /\ WalkSound'
    <3>1. UNCHANGED <<listeners, added, dispatching>> /\ dispatching = None
      BY <2>5 DEF Dispatched, eventVars
    <3> QED BY <3>1, <1>2
  <2>6. ASSUME DoDestroy \/ TellsDestroyed PROVE ListenersSound' /\ WalkSound'
    <3>1. UNCHANGED <<listeners, added, dispatching>> /\ worker # "dispatching"
      BY <2>6 DEF DoDestroy, TellsDestroyed, eventVars
    <3> QED BY <3>1, <2>2, <1>2
  <2>7. ASSUME RunReturns PROVE ListenersSound' /\ WalkSound'
    <3>1. UNCHANGED <<listeners, added, dispatching>> /\ worker' = worker
      BY <2>7 DEF RunReturns, eventVars
    <3> QED BY <3>1, <1>2
  <2>8. ASSUME Finalize PROVE ListenersSound' /\ WalkSound'
    <3>1. dispatching' = dispatching /\ dispatching = None /\ listeners' = << >> /\ added' = added
      <4>1. worker # "dispatching"
        BY <1>1, <2>8 DEF Finalize, MayFinalize, LifeInv
      <4> QED BY <4>1, <2>2, <2>8 DEF Finalize
    <3> QED BY <3>1, <1>1 DEF ListenersSound, WalkSound, None
  <2>9. ASSUME CancelBubble PROVE ListenersSound' /\ WalkSound'
    <3>1. UNCHANGED <<listeners, added>> /\ dispatching' = None
      BY <2>9 DEF CancelBubble
    <3>2. None \in WalkType
      BY DEF WalkType, None
    <3> QED BY <3>1, <3>2, <1>1 DEF ListenersSound, WalkSound, None
  <2>10. ASSUME NEW callback \in Callbacks, AddListener(callback) \/ RemoveListener(callback)
         PROVE  ListenersSound' /\ WalkSound'
    BY <1>1, <2>10, AddSteps, RemoveSteps
  <2>11. ASSUME DispatchEvent \/ CallNext PROVE ListenersSound' /\ WalkSound'
    BY <1>1, <2>11, DispatchSteps, CallSteps
  <2>12. ListenersSound' /\ WalkSound'
    BY <1>3, <2>3, <2>4, <2>5, <2>6, <2>7, <2>8, <2>9, <2>10, <2>11 DEF AppNext, WorkerStep
  <2> QED BY <2>1, <2>12 DEF AppInv
<1>4. CASE UNCHANGED appVars
  <2>1. /\ UNCHANGED <<mode, running, destroyed, caller, worker, usable, misused, done>>
        /\ UNCHANGED <<listeners, added, dispatching>>
    BY <1>4 DEF appVars
  <2>2. LifeInv'
    BY <1>1, <2>1 DEF LifeInv, Before
  <2> QED BY <2>1, <2>2, <1>2 DEF AppInv
<1> QED BY <1>3, <1>4

(* What the invariant says of a walk. *)
LEMMA InvCalls ==
  ASSUME AppInv
  PROVE  ListenersCalled
<1>1. ListenersSound /\ WalkSound
  BY DEF AppInv
<1>2. IsInjective(dispatching.called)
  <2>1. CASE dispatching = None
    BY <2>1 DEF None, IsInjective
  <2>2. CASE dispatching # None
    <3> DEFINE called == dispatching.called
    <3>1. called \in Seq(Nat) /\ \A i, j \in 1 .. Len(called) : i < j => called[j] < called[i]
      BY <1>1, <2>2 DEF WalkSound, WalkOn, WalkType
    <3> HIDE DEF called
    <3>2. DOMAIN called = 1 .. Len(called) /\ \A i \in 1 .. Len(called) : called[i] \in Nat
      BY <3>1
    <3>3. \A i, j \in 1 .. Len(called) : called[i] = called[j] => i = j
      <4> SUFFICES ASSUME NEW i \in 1 .. Len(called), NEW j \in 1 .. Len(called), i < j PROVE called[i] # called[j]
        OBVIOUS
      <4> QED BY <3>1, <3>2
    <3>4. IsInjective(called)
      BY <3>2, <3>3 DEF IsInjective
    <3> QED BY <3>4 DEF called
  <2> QED BY <2>1, <2>2
<1>3. ASSUME dispatching # None, Head(dispatching.next) \in Range(listeners), After(Head(dispatching.next)) = << >>
      PROVE  dispatching.kept \subseteq Range(dispatching.called)
  <2> DEFINE l == Head(dispatching.next)
  <2>1. Len(listeners) >= 1 /\ listeners[Len(listeners)] = l
    BY <1>1, <1>3, AfterIs
  <2>2. /\ dispatching.kept \subseteq Ids
        /\ \A k \in dispatching.kept : k >= l.id => k \in Range(dispatching.called)
    BY <1>1, <1>3 DEF WalkSound, WalkOn
  <2> HIDE DEF l
  <2>3. ASSUME NEW k \in Ids PROVE k >= l.id
    <3>1. PICK i \in 1 .. Len(listeners) : listeners[i].id = k
      BY DEF Ids
    <3>2. Len(listeners) \in Nat /\ k \in Nat /\ l.id \in Nat
      BY <1>1, <2>1, <3>1, ListenersAre
    <3>3. CASE i = Len(listeners)
      BY <3>1, <3>2, <3>3, <2>1
    <3>4. CASE i # Len(listeners)
      <4>1. i < Len(listeners) /\ Len(listeners) \in 1 .. Len(listeners)
        BY <3>1, <3>2, <3>4, <2>1
      <4>2. listeners[Len(listeners)].id < listeners[i].id
        BY <1>1, <4>1, <3>1, ListenersAre
      <4> QED BY <4>2, <3>1, <3>2, <2>1
    <3> QED BY <3>3, <3>4
  <2> QED BY <2>2, <2>3
<1> QED BY <1>2, <1>3 DEF ListenersCalled

(* Run on the calling thread or on one of its own: create, dispatch, destroy and
   finalize happen in this order, what the two threads share is not used after it is
   finalized, and a walk over the listeners that ends of itself has called all that
   stayed, each once, whatever the callbacks add and remove.
   (Application.c: NQApplication_run, _finalize; EventTarget.c: NQEventTarget_dispatchEvent.) *)
THEOREM ApplicationIsSound == AppSpec => [](AppLifecycle /\ ListenersCalled)
<1>1. AppInit => AppInv
  BY AppStarts
<1>2. AppInv /\ [AppNext]_appVars => AppInv'
  BY AppSteps
<1>3. AppInv => AppLifecycle /\ ListenersCalled
  BY InvCalls, InvOrdersLife DEF AppInv
<1> QED BY <1>1, <1>2, <1>3, PTL DEF AppSpec

-----------------------------------------------------------------------------

(***************************************************************************)
(* Descriptors. An entry is in the list its flag says, and only one that    *)
(* was lost has an identifier that is not its own.                          *)
(***************************************************************************)

IdType == [index : Indices \cup {0}, serial : Serials \cup {0}]
DescTypes ==
  /\ ids \in [Indices -> IdType] /\ before \in [Indices -> IdType]
  /\ free \in [Indices -> BOOLEAN]
  /\ freeList \in Seq(Indices) /\ IsInjective(freeList)
  /\ allocList \in Seq(Indices) /\ IsInjective(allocList)

Lists ==
  /\ ToSet(freeList) = { e \in Indices : free[e] }
  /\ ToSet(allocList) = { e \in Indices : ~free[e] }
  /\ Len(freeList) + Len(allocList) = Num

OwnIds == \A e \in Indices : ids[e].index = e \/ (ids[e] = NQ_DESC_INVALID /\ ~free[e])
OwnBefore == \A e \in Indices : before[e].index = e
Given == { e \in Indices : ~free[e] /\ ids[e] # NQ_DESC_INVALID }
Outside == out = { ids[e] : e \in Given }

DescInv == DescTypes /\ Lists /\ OwnIds /\ OwnBefore /\ Outside

(* All entries are free at first. *)
LEMMA DescStarts ==
  ASSUME Num \in Nat, DescInit
  PROVE  DescInv
<1> USE DEF DescInit
<1>1. freeList \in Seq(Indices) /\ Len(freeList) = Num /\ DOMAIN freeList = 1 .. Num
  BY DEF Indices
<1>2. allocList \in Seq(Indices) /\ Len(allocList) = 0 /\ DOMAIN allocList = {}
  OBVIOUS
<1>3. \A k \in 1 .. Num : freeList[k] = k - 1
  OBVIOUS
<1>4. IsInjective(freeList) /\ IsInjective(allocList)
  BY <1>1, <1>2, <1>3 DEF IsInjective
<1>5. ids \in [Indices -> IdType] /\ before \in [Indices -> IdType] /\ free \in [Indices -> BOOLEAN]
  BY DEF IdType, Id
<1>6. ToSet(freeList) = Indices
  <2>1. ASSUME NEW e \in Indices PROVE e \in ToSet(freeList)
    <3>1. e + 1 \in 1 .. Num /\ freeList[e + 1] = e
      BY <1>3 DEF Indices
    <3> QED BY <3>1, <1>1 DEF ToSet
  <2>2. ToSet(freeList) \subseteq Indices
    BY <1>1, MemberOf
  <2> QED BY <2>1, <2>2
<1>7. Lists
  <2>1. ToSet(allocList) = {}
    BY <1>2 DEF ToSet
  <2> QED BY <1>1, <1>2, <1>6, <2>1 DEF Lists
<1>8. OwnIds /\ OwnBefore /\ Outside
  BY DEF OwnIds, OwnBefore, Outside, Given, Id
<1> QED BY <1>1, <1>2, <1>4, <1>5, <1>7, <1>8 DEF DescInv, DescTypes

(* An identifier is drawn for the first of the free ones, other than it had. *)
LEMMA AllocGives ==
  ASSUME Num \in Nat, DescInv, NEW id, NQDescSet_allocEntry(id)
  PROVE  DescInv'
<1> DEFINE entry == Head(freeList)
<1>1. DescTypes /\ Lists /\ OwnIds /\ OwnBefore /\ Outside
  BY DEF DescInv
<1>2. /\ freeList # << >> /\ id \in Drawn(ids[entry])
      /\ ids' = [ids EXCEPT ![entry] = id] /\ before' = [before EXCEPT ![entry] = ids[entry]]
      /\ free' = [free EXCEPT ![entry] = FALSE] /\ allocList' = Append(allocList, entry)
      /\ freeList' = Tail(freeList) /\ out' = out \cup ({id} \ {NQ_DESC_INVALID})
  BY DEF NQDescSet_allocEntry
<1>3. /\ Tail(freeList) \in Seq(Indices) /\ entry \in Indices /\ entry \in ToSet(freeList)
      /\ ToSet(freeList) = ToSet(Tail(freeList)) \cup {entry}
      /\ IsInjective(Tail(freeList)) /\ entry \notin ToSet(Tail(freeList))
  BY <1>1, <1>2, TailList DEF DescTypes
<1>4. Len(freeList) \in Nat /\ Len(Tail(freeList)) = Len(freeList) - 1 /\ Len(allocList) \in Nat
  BY <1>1, <1>2 DEF DescTypes
<1> HIDE DEF entry
<1>5. free[entry] /\ entry \notin ToSet(allocList) /\ ids[entry].index = entry
  BY <1>1, <1>3 DEF Lists, OwnIds
<1>6. id \in IdType /\ id # ids[entry] /\ (id = NQ_DESC_INVALID \/ id.index = entry)
  <2>1. PICK serial \in Serials : id = IF serial = 0 THEN NQ_DESC_INVALID ELSE Id(ids[entry].index, serial)
    BY <1>2 DEF Drawn
  <2>2. id # ids[entry]
    BY <1>2 DEF Drawn
  <2> QED BY <2>1, <2>2, <1>3, <1>5 DEF IdType, Id, NQ_DESC_INVALID
<1>7. /\ ids' \in [Indices -> IdType] /\ before' \in [Indices -> IdType] /\ free' \in [Indices -> BOOLEAN]
      /\ ids'[entry] = id /\ before'[entry] = ids[entry] /\ free'[entry] = FALSE
  BY <1>1, <1>2, <1>3, <1>6 DEF DescTypes
<1>8. \A e \in Indices : e # entry => ids'[e] = ids[e] /\ before'[e] = before[e] /\ free'[e] = free[e]
  BY <1>1, <1>2 DEF DescTypes
<1>9. /\ allocList' \in Seq(Indices) /\ IsInjective(allocList') /\ ToSet(allocList') = ToSet(allocList) \cup {entry}
      /\ Len(allocList') = Len(allocList) + 1
  BY <1>1, <1>2, <1>3, <1>5, AppendList DEF DescTypes
<1>10. DescTypes'
  BY <1>2, <1>3, <1>7, <1>9 DEF DescTypes
<1>11. Lists'
  <2>1. ToSet(freeList') = { e \in Indices : free'[e] }
    BY <1>1, <1>2, <1>3, <1>7, <1>8 DEF Lists
  <2>2. ToSet(allocList') = { e \in Indices : ~free'[e] }
    BY <1>1, <1>3, <1>7, <1>8, <1>9 DEF Lists
  <2>3. Len(freeList') = Len(freeList) - 1 /\ Len(allocList') = Len(allocList) + 1
    BY <1>2, <1>4, <1>9
  <2>4. Len(freeList) + Len(allocList) = Num
    BY <1>1 DEF Lists
  <2>5. Len(freeList') + Len(allocList') = Num
    BY <1>4, <2>3, <2>4
  <2> QED BY <2>1, <2>2, <2>5 DEF Lists, Indices
<1>12. OwnIds'
  <2>1. \A e \in Indices : ids'[e].index = e \/ (ids'[e] = NQ_DESC_INVALID /\ ~free'[e])
    BY <1>1, <1>6, <1>7, <1>8 DEF OwnIds
  <2> QED BY <2>1 DEF OwnIds, Indices, NQ_DESC_INVALID, Id
<1>13. OwnBefore'
  <2>1. \A e \in Indices : before'[e].index = e
    BY <1>1, <1>5, <1>7, <1>8 DEF OwnBefore
  <2> QED BY <2>1 DEF OwnBefore, Indices
<1>14. Outside'
  <2> DEFINE G == { e \in Indices : ~free'[e] /\ ids'[e] # NQ_DESC_INVALID }
  <2>1. ASSUME NEW x \in out' PROVE \E e \in G : x = ids'[e]
    <3>1. CASE x = id /\ id # NQ_DESC_INVALID
      BY <3>1, <1>3, <1>7
    <3>2. CASE x \in out
      <4>1. PICK e \in Given : x = ids[e]
        BY <3>2, <1>1 DEF Outside
      <4>2. e \in Indices /\ e # entry /\ ids'[e] = ids[e] /\ free'[e] = free[e]
        BY <4>1, <1>5, <1>8 DEF Given
      <4> QED BY <4>1, <4>2 DEF Given
    <3> QED BY <3>1, <3>2, <1>2
  <2>2. ASSUME NEW e \in G PROVE ids'[e] \in out'
    <3>1. CASE e = entry
      BY <3>1, <1>2, <1>7
    <3>2. CASE e # entry
      <4>1. e \in Given /\ ids'[e] = ids[e]
        BY <3>2, <1>8 DEF Given
      <4> QED BY <4>1, <1>1, <1>2 DEF Outside
    <3> QED BY <3>1, <3>2
  <2>3. out' = { ids'[e] : e \in G }
    BY <2>1, <2>2
  <2> QED BY <2>3 DEF Outside, Given, Indices, NQ_DESC_INVALID, Id
<1> QED BY <1>10, <1>11, <1>12, <1>13, <1>14 DEF DescInv

(* What was given out is found, and is its own entry. *)
LEMMA OutIsFound ==
  ASSUME Num \in Nat, DescInv, NEW id \in out
  PROVE  Find(id) \in Given /\ id = ids[Find(id)] /\ Find(id) = id.index /\ NQDescSet_hasEntry(id)
<1>1. OwnIds /\ Outside
  BY DEF DescInv
<1>2. PICK e \in Given : id = ids[e]
  BY <1>1 DEF Outside
<1>3. e \in Indices /\ ~free[e] /\ id.index = e
  BY <1>1, <1>2 DEF Given, OwnIds
<1>4. Find(id) = e /\ e # Num
  BY <1>2, <1>3 DEF Find, Indices
<1> QED BY <1>2, <1>3, <1>4 DEF NQDescSet_hasEntry

(* It is given back: the entry goes to the end of the free ones. *)
LEMMA ReleaseTakes ==
  ASSUME Num \in Nat, DescInv, NEW id \in out, NQDescSet_releaseEntry(id)
  PROVE  DescInv'
<1> DEFINE entry == Find(id)
           at == SelectInSeq(allocList, LAMBDA e : e = entry)
<1>1. DescTypes /\ Lists /\ OwnIds /\ OwnBefore /\ Outside
  BY DEF DescInv
<1>2. /\ allocList' = RemoveAt(allocList, at) /\ freeList' = Append(freeList, entry)
      /\ free' = [free EXCEPT ![entry] = TRUE] /\ out' = out \ {id}
      /\ ids' = ids /\ before' = before
  BY DEF NQDescSet_releaseEntry
<1>3. entry \in Given /\ id = ids[entry] /\ entry = id.index
  BY OutIsFound
<1> HIDE DEF entry
<1>4. entry \in Indices /\ ~free[entry] /\ id # NQ_DESC_INVALID /\ entry \in ToSet(allocList) /\ entry \notin ToSet(freeList)
  BY <1>1, <1>3 DEF Given, Lists
<1>5. at \in 1 .. Len(allocList) /\ allocList[at] = entry
  BY <1>1, <1>4, PlaceOf DEF DescTypes
<1> HIDE DEF at
<1>6. /\ allocList' \in Seq(Indices) /\ ToSet(allocList') = ToSet(allocList) \ {entry}
      /\ IsInjective(allocList') /\ Len(allocList') = Len(allocList) - 1
  <2> DEFINE list == RemoveAt(allocList, at)
  <2>1. allocList \in Seq(Indices) /\ IsInjective(allocList)
    BY <1>1 DEF DescTypes
  <2>2. list \in Seq(Indices) /\ ToSet(list) = ToSet(allocList) \ {allocList[at]} /\ IsInjective(list) /\ Len(list) = Len(allocList) - 1
    BY <2>1, <1>5, RemoveAtList
  <2> HIDE DEF list
  <2>3. allocList' = list
    BY <1>2 DEF list
  <2> QED BY <2>2, <2>3, <1>5
<1>7. /\ freeList' \in Seq(Indices) /\ ToSet(freeList') = ToSet(freeList) \cup {entry}
      /\ IsInjective(freeList') /\ Len(freeList') = Len(freeList) + 1
  BY <1>1, <1>2, <1>4, AppendList DEF DescTypes
<1>8. free' \in [Indices -> BOOLEAN] /\ free'[entry] = TRUE /\ \A e \in Indices : e # entry => free'[e] = free[e]
  BY <1>1, <1>2, <1>4 DEF DescTypes
<1>9. DescTypes'
  BY <1>1, <1>2, <1>6, <1>7, <1>8 DEF DescTypes
<1>10. Lists'
  <2>1. ToSet(freeList') = { e \in Indices : free'[e] }
    BY <1>1, <1>4, <1>7, <1>8 DEF Lists
  <2>2. ToSet(allocList') = { e \in Indices : ~free'[e] }
    BY <1>1, <1>4, <1>6, <1>8 DEF Lists
  <2>3. Len(freeList) \in Nat /\ Len(allocList) \in Nat
    BY <1>1 DEF DescTypes
  <2>4. Len(freeList') + Len(allocList') = Num
    BY <1>1, <1>6, <1>7, <2>3 DEF Lists
  <2> QED BY <2>1, <2>2, <2>4 DEF Lists, Indices
<1>11. OwnIds'
  <2>1. \A e \in Indices : ids'[e].index = e \/ (ids'[e] = NQ_DESC_INVALID /\ ~free'[e])
    BY <1>1, <1>2, <1>3, <1>8 DEF OwnIds
  <2> QED BY <2>1 DEF OwnIds, Indices, NQ_DESC_INVALID, Id
<1>12. OwnBefore'
  BY <1>1, <1>2 DEF OwnBefore, Indices
<1>13. Outside'
  <2> DEFINE G == { e \in Indices : ~free'[e] /\ ids[e] # NQ_DESC_INVALID }
  <2>1. G = Given \ {entry}
    BY <1>3, <1>8 DEF Given
  <2>2. \A e \in Given : e # entry => ids[e] # id
    BY <1>1, <1>3 DEF Given, OwnIds
  <2>3. out' = { ids[e] : e \in G }
    BY <1>1, <1>2, <1>3, <2>1, <2>2 DEF Outside
  <2> QED BY <2>3, <1>2 DEF Outside, Given, Indices, NQ_DESC_INVALID, Id
<1> QED BY <1>9, <1>10, <1>11, <1>12, <1>13 DEF DescInv

(* What is out, and how much of it. *)
LEMMA InvFinds ==
  ASSUME Num \in Nat, DescInv
  PROVE  DescriptorsFound
<1>1. DescTypes /\ Lists /\ OwnIds /\ OwnBefore /\ Outside
  BY DEF DescInv
<1>2. \A id \in out : NQDescSet_hasEntry(id)
  BY OutIsFound
<1>3. ASSUME NEW i \in Indices, before[i] # ids[i]
      PROVE  ~NQDescSet_hasEntry(before[i])
  <2>1. before[i].index = i
    BY <1>1 DEF OwnBefore
  <2>2. Find(before[i]) = Num
    BY <1>3, <2>1 DEF Find
  <2> QED BY <2>2 DEF NQDescSet_hasEntry
<1>4. Given = { e \in ToSet(allocList) : ids[e] # NQ_DESC_INVALID }
  BY <1>1 DEF Lists, Given
<1>5. IsFiniteSet(Given)
  <2>1. IsFiniteSet(Indices)
    BY FS_Interval DEF Indices
  <2> QED BY <2>1, FS_Subset DEF Given
<1>6. Cardinality(out) = Cardinality(Given)
  <2> DEFINE f == [e \in Given |-> ids[e]]
  <2>1. f \in [Given -> out]
    BY <1>1 DEF Outside
  <2>2. \A d, e \in Given : f[d] = f[e] => d = e
    BY <1>1 DEF Given, OwnIds
  <2>3. \A id \in out : \E e \in Given : f[e] = id
    BY <1>1 DEF Outside
  <2>4. f \in Bijection(Given, out)
    BY <2>1, <2>2, <2>3, Fun_IsBij
  <2>5. ExistsBijection(Given, out)
    BY <2>4 DEF ExistsBijection
  <2> QED BY <1>5, <2>5, FS_Bijection
<1> QED BY <1>1, <1>2, <1>3, <1>4, <1>6 DEF DescriptorsFound, Lists

(* Each descriptor handed out is found until it is given back, and then no more,
   however often its entry is handed out again; the two lists have all the entries.
   (DescSet.c: NQDescSet_allocEntry, NQDescSet_releaseEntry, NQDescSet_findEntry.) *)
THEOREM DescriptorsAreFound ==
  ASSUME Num \in Nat
  PROVE  DescSpec => []DescriptorsFound
<1>1. DescInit => DescInv
  BY DescStarts
<1>2. DescInv /\ [DescNext]_descVars => DescInv'
  <2> SUFFICES ASSUME DescInv, [DescNext]_descVars PROVE DescInv'
    OBVIOUS
  <2>1. ASSUME NEW index, NEW serial, NQDescSet_allocEntry(Id(index, serial)) PROVE DescInv'
    BY <2>1, AllocGives
  <2>2. ASSUME NEW id \in out, NQDescSet_releaseEntry(id) PROVE DescInv'
    BY <2>2, ReleaseTakes
  <2>3. CASE UNCHANGED descVars
    BY <2>3 DEF descVars, DescInv, DescTypes, Lists, OwnIds, OwnBefore, Outside, Given, Indices, IdType, NQ_DESC_INVALID, Id
  <2> QED BY <2>1, <2>2, <2>3 DEF DescNext
<1>3. DescInv => DescriptorsFound
  BY InvFinds
<1> QED BY <1>1, <1>2, <1>3, PTL DEF DescSpec
-----------------------------------------------------------------------------

(***************************************************************************)
(* The files of an application's users.                                    *)
(***************************************************************************)

FileType == [user : Owners, dir : Seq(Names), base : Names, value : {"", "text", Directory}]

(* A path has one row, and lies in another one's unless it is below the root. *)
FilesInv ==
  /\ files \subseteq FileType
  /\ \A f, g \in files : f.user = g.user /\ f.dir = g.dir /\ f.base = g.base => f = g
  /\ \A f \in files : f.dir # << >> => \E d \in files : d.user = f.user /\ d.dir = Front(f.dir) /\ d.base = Last(f.dir)

(* A name behind a path. *)
LEMMA NameBehind ==
  ASSUME NEW S, NEW s \in Seq(S), NEW x \in S
  PROVE  Front(Append(s, x)) = s /\ Last(Append(s, x)) = x /\ Append(s, x) # << >>
<1> DEFINE t == Append(s, x)
           r == Front(t)
<1>1. t \in Seq(S) /\ Len(t) = Len(s) + 1 /\ Len(s) \in Nat /\ t[Len(t)] = x /\ \A i \in 1 .. Len(s) : t[i] = s[i]
  OBVIOUS
<1> HIDE DEF t
<1>2. r \in Seq(S) /\ Len(r) = Len(s) /\ \A i \in 1 .. Len(s) : r[i] = t[i]
  BY <1>1 DEF Front
<1> HIDE DEF r
<1>3. r = s
  BY <1>1, <1>2, SeqEqual
<1> QED BY <1>1, <1>3 DEF r, t, Last

(* The last name of a path. *)
LEMMA NameOfPath ==
  ASSUME NEW S, NEW s \in Seq(S), s # << >>
  PROVE  Front(s) \in Seq(S) /\ Last(s) \in S
  BY DEF Front, Last

(* The directory of one name is the root. *)
LEMMA OneName ==
  ASSUME NEW S, NEW s \in Seq(S), Len(s) = 1
  PROVE  Front(s) = << >>
<1> DEFINE r == Front(s)
<1>1. r \in Seq(S) /\ Len(r) = 0
  BY DEF Front
<1> HIDE DEF r
<1>2. r = << >>
  BY <1>1, EmptySeq
<1> QED BY <1>2 DEF r

(* What is written has names. *)
LEMMA PathNames ==
  ASSUME NEW path \in FilePaths
  PROVE  path.names \in Seq(Names)
<1>1. PICK n \in 0 .. 3 : path.names \in [1 .. n -> Names]
  BY DEF FilePaths
<1>2. n \in Nat
  OBVIOUS
<1> DEFINE p == path.names
<1>3. p \in [1 .. n -> Names]
  BY <1>1
<1> HIDE DEF p
<1>4. p \in Seq(Names)
  BY <1>2, <1>3
<1> QED BY <1>4 DEF p

(* A write replaces the row of its path. *)
LEMMA WriteKeeps ==
  ASSUME FilesInv, NEW owner \in Owners, NEW path \in FilePaths, NEW value \in {"", "text", Directory},
         UrlDataStoreWrite(owner, path, value)
  PROVE  FilesInv'
<1> DEFINE new == [user |-> owner, dir |-> Front(path.names), base |-> Last(path.names), value |-> value]
           row == Row(owner, path)
<1>1. CASE files' = files
  BY <1>1 DEF FilesInv, FileType, Names, Directory
<1>2. CASE files' # files
  <2>1. MayWrite(owner, path) /\ files' = (files \ row) \cup {new} /\ path.names # << >>
    BY <1>2 DEF UrlDataStoreWrite, Written, Writable
  <2>2. path.names \in Seq(Names)
    BY PathNames
  <2>3. new \in FileType /\ new.user = owner /\ new.dir = Front(path.names) /\ new.base = Last(path.names)
    BY <2>1, <2>2, NameOfPath DEF FileType
  <2>4. \A f \in files : f \in row <=> f.user = new.user /\ f.dir = new.dir /\ f.base = new.base
    BY <2>3 DEF Row
  <2>5. row \subseteq files
    BY DEF Row
  <2> HIDE DEF row
  <2>6. new.dir # << >> => \E d \in files : d.user = new.user /\ d.dir = Front(new.dir) /\ d.base = Last(new.dir)
    <3>1. CASE Len(path.names) = 1
      <4>1. Front(path.names) = << >>
        BY <2>2, <3>1, OneName
      <4> QED BY <4>1, <2>3
    <3>2. CASE Len(path.names) # 1
      <4> DEFINE up == [path EXCEPT !.names = Front(path.names)]
      <4>1. \E d \in Row(owner, up) : TRUE
        BY <2>1, <3>2 DEF MayWrite
      <4>2. up.names = Front(path.names)
        BY DEF FilePaths
      <4> HIDE DEF up
      <4> QED BY <2>3, <4>1, <4>2 DEF Row
    <3> QED BY <3>1, <3>2
  <2> HIDE DEF new
  <2>7. ASSUME NEW f \in files', f.dir # << >>
        PROVE  \E d \in files' : d.user = f.user /\ d.dir = Front(f.dir) /\ d.base = Last(f.dir)
    <3>1. PICK d \in files : d.user = f.user /\ d.dir = Front(f.dir) /\ d.base = Last(f.dir)
      BY <2>1, <2>6, <2>7 DEF FilesInv
    <3>2. CASE d \in row
      BY <2>1, <2>4, <3>1, <3>2
    <3>3. CASE d \notin row
      BY <2>1, <3>1, <3>3
    <3> QED BY <3>2, <3>3
  <2>8. ASSUME NEW f \in files', NEW g \in files', f.user = g.user, f.dir = g.dir, f.base = g.base
        PROVE  f = g
    <3>1. CASE f # new /\ g # new
      <4>1. f \in files /\ g \in files
        BY <2>1, <3>1
      <4> QED BY <4>1, <2>8 DEF FilesInv
    <3>2. CASE f = new
      BY <2>1, <2>4, <2>8, <3>2
    <3>3. CASE g = new
      BY <2>1, <2>4, <2>8, <3>3
    <3> QED BY <3>1, <3>2, <3>3
  <2>9. files' \subseteq FileType
    BY <2>1, <2>3 DEF FilesInv
  <2> QED BY <2>7, <2>8, <2>9 DEF FilesInv, FileType, Names, Directory
<1> QED BY <1>1, <1>2

(* One row of each path is what the three answers say. *)
LEMMA InvLists ==
  ASSUME FilesInv
  PROVE  FilesAreFound
<1> SUFFICES ASSUME NEW f \in files
             PROVE  LET path == [names |-> Append(f.dir, f.base), slash |-> FALSE]
                        entry == { e \in NQUrlDataStoreList(f.user, [names |-> f.dir, slash |-> FALSE]) : e.name = f.base }
                    IN /\ f.dir # << >> => Cardinality(Row(f.user, [names |-> f.dir, slash |-> FALSE])) = 1
                       /\ entry = {[name |-> f.base, value |-> f.value]}
                       /\ NQUrlDataStoreRead(f.user, path) = IF f.value = Directory THEN "error" ELSE f.value
  BY DEF FilesAreFound
<1> DEFINE path == [names |-> Append(f.dir, f.base), slash |-> FALSE]
           dir == [names |-> f.dir, slash |-> FALSE]
           entry == { e \in NQUrlDataStoreList(f.user, dir) : e.name = f.base }
<1>1. f.dir \in Seq(Names) /\ f.base \in Names
  BY DEF FilesInv, FileType
<1>2. \A g \in files : g.user = f.user /\ g.dir = f.dir /\ g.base = f.base => g = f
  BY DEF FilesInv
<1>3. f.dir # << >> => Cardinality(Row(f.user, dir)) = 1
  <2> SUFFICES ASSUME f.dir # << >> PROVE Cardinality(Row(f.user, dir)) = 1
    OBVIOUS
  <2>1. PICK d \in files : d.user = f.user /\ d.dir = Front(f.dir) /\ d.base = Last(f.dir)
    BY DEF FilesInv
  <2>2. Row(f.user, dir) = {d}
    BY <2>1 DEF Row, FilesInv
  <2> QED BY <2>2, FS_Singleton
<1>4. entry = {[name |-> f.base, value |-> f.value]}
  <2>1. NQUrlDataStoreList(f.user, dir) = { [name |-> g.base, value |-> g.value] : g \in { g \in files : g.user = f.user /\ g.dir = f.dir } }
    BY DEF NQUrlDataStoreList
  <2>2. [name |-> f.base, value |-> f.value] \in entry
    BY <2>1
  <2>3. ASSUME NEW e \in entry PROVE e = [name |-> f.base, value |-> f.value]
    <3>1. PICK g \in files : g.user = f.user /\ g.dir = f.dir /\ e = [name |-> g.base, value |-> g.value]
      BY <2>1
    <3>2. g.base = f.base
      BY <3>1
    <3>3. g = f
      BY <1>2, <3>1, <3>2
    <3> QED BY <3>1, <3>3
  <2> QED BY <2>2, <2>3
<1>5. NQUrlDataStoreRead(f.user, path) = IF f.value = Directory THEN "error" ELSE f.value
  <2>1. Front(path.names) = f.dir /\ Last(path.names) = f.base /\ path.names # << >> /\ ~path.slash
    BY <1>1, NameBehind
  <2> HIDE DEF path
  <2>2. Row(f.user, path) = {f}
    BY <1>2, <2>1 DEF Row
  <2>3. Writable(path)
    BY <2>1 DEF Writable
  <2> QED BY <2>2, <2>3 DEF NQUrlDataStoreRead
<1> QED BY <1>3, <1>4, <1>5

FilesSpec == StoreInit /\ [][FilesNext]_fileVars

(* No file yet. *)
LEMMA FilesStart ==
  ASSUME StoreInit
  PROVE  FilesInv
BY DEF StoreInit, FilesInv

(* A write of any user to any path. *)
LEMMA FilesSteps ==
  ASSUME FilesInv, [FilesNext]_fileVars
  PROVE  FilesInv'
<1>1. CASE UNCHANGED fileVars
  BY <1>1 DEF fileVars, FilesInv, FileType, Names, Directory
<1>2. ASSUME NEW owner \in Owners, NEW path \in FilePaths, NQUrlDataStoreWrite(owner, path) PROVE FilesInv'
  BY <1>2, WriteKeeps DEF NQUrlDataStoreWrite
<1>3. ASSUME NEW owner \in Owners, NEW path \in FilePaths, NQUrlDataStoreMkdir(owner, path) PROVE FilesInv'
  BY <1>3, WriteKeeps DEF NQUrlDataStoreMkdir
<1> QED BY <1>1, <1>2, <1>3 DEF FilesNext

(* However files and directories of however many users are written over one another: what is
   there is found by its path, listed once in its directory, which is there too, and is
   nobody else's. (sql/UrlDataStore.c: WRITE_QUERY1, WRITE_QUERY2, readRequest, listRequest.) *)
THEOREM FilesAreInPlace == FilesSpec => []FilesAreFound
<1>1. StoreInit => FilesInv
  BY FilesStart
<1>2. FilesInv /\ [FilesNext]_fileVars => FilesInv'
  BY FilesSteps
<1>3. FilesInv => FilesAreFound
  BY InvLists
<1> QED BY <1>1, <1>2, <1>3, PTL DEF FilesSpec
-----------------------------------------------------------------------------

(***************************************************************************)
(* The requests about accounts.                                            *)
(***************************************************************************)

OpNames == {"signup", "login", "update", "delete"}

(* One listener is taken out. *)
LEMMA RemovesListener ==
  ASSUME NEW S, NEW s \in Seq(S), IsInjective(s), NEW e
  PROVE  /\ RemoveFirst(s, e) \in Seq(S) /\ IsInjective(RemoveFirst(s, e))
         /\ ToSet(RemoveFirst(s, e)) = ToSet(s) \ {e}
<1>1. CASE \A i \in 1 .. Len(s) : s[i] # e
  <2>1. RemoveFirst(s, e) = s
    BY <1>1 DEF RemoveFirst
  <2>2. e \notin ToSet(s)
    BY <1>1, MemberOf
  <2> QED BY <2>1, <2>2
<1>2. CASE \E i \in 1 .. Len(s) : s[i] = e
  <2> DEFINE p == SelectInSeq(s, LAMBDA v : v = e)
  <2>1. PICK i \in 1 .. Len(s) : s[i] = e
    BY <1>2
  <2>2. {j \in 1 .. Len(s) : s[j] = e} = {i}
    BY <2>1, MemberOf DEF IsInjective
  <2>3. p = Min({i})
    BY <2>2 DEF SelectInSeq
  <2>4. Min({i}) = i
    BY <2>1 DEF Min
  <2>5. RemoveFirst(s, e) = RemoveAt(s, i)
    BY <1>2, <2>3, <2>4 DEF RemoveFirst
  <2> QED BY <2>1, <2>5, RemoveAtList
<1> QED BY <1>1, <1>2

(* Nothing is left of a list whose members are all taken out. *)
LEMMA NothingLeftOver ==
  ASSUME NEW s \in Seq(OpNames), IsInjective(s), ToSet(s) \subseteq {"signup", "login", "update"}
  PROVE  Withdrawn(s) = << >>
<1> DEFINE a == RemoveFirst(s, "update")
           b == RemoveFirst(a, "login")
           d == RemoveFirst(b, "signup")
<1>1. a \in Seq(OpNames) /\ IsInjective(a) /\ ToSet(a) = ToSet(s) \ {"update"}
  BY RemovesListener
<1> HIDE DEF a
<1>2. b \in Seq(OpNames) /\ IsInjective(b) /\ ToSet(b) = ToSet(a) \ {"login"}
  BY <1>1, RemovesListener
<1> HIDE DEF b
<1>3. d \in Seq(OpNames) /\ ToSet(d) = ToSet(b) \ {"signup"}
  BY <1>2, RemovesListener
<1>4. Withdrawn(s) = d
  BY DEF Withdrawn, a, b
<1> HIDE DEF d
<1>5. ToSet(d) = {}
  BY <1>1, <1>2, <1>3
<1>6. d = << >>
  <2> SUFFICES ASSUME d # << >> PROVE FALSE
    OBVIOUS
  <2>1. 1 \in 1 .. Len(d)
    BY <1>3, EmptySeq
  <2>2. d[1] \in ToSet(d)
    BY <1>3, <2>1, MemberOf
  <2> QED BY <1>5, <2>2
<1> QED BY <1>4, <1>6

(* The listeners, in their order. *)
LEMMA OperationsListed ==
  /\ Operations \in Seq(OpNames) /\ Len(Operations) = 4 /\ IsInjective(Operations)
  /\ Range(Operations) = OpNames
<1>1. Operations \in Seq(OpNames) /\ Len(Operations) = 4
  BY DEF Operations, OpNames
<1>2. Operations[1] = "signup" /\ Operations[2] = "login" /\ Operations[3] = "update" /\ Operations[4] = "delete"
  BY DEF Operations
<1>3. DOMAIN Operations = 1 .. 4
  BY <1>1
<1>4. \A i \in 1 .. 4 : i = 1 \/ i = 2 \/ i = 3 \/ i = 4
  OBVIOUS
<1>5. IsInjective(Operations)
  BY <1>2, <1>3, <1>4 DEF IsInjective
<1>6. Range(Operations) = OpNames
  BY <1>2, <1>3, <1>4 DEF Range, OpNames
<1> QED BY <1>1, <1>5, <1>6

LEMMA BeginningOf ==
  ASSUME NEW S, NEW s \in Seq(S), NEW n \in 0 .. Len(s)
  PROVE  SubSeq(s, 1, n) \in Seq(S) /\ Len(SubSeq(s, 1, n)) = n /\ \A i \in 1 .. n : SubSeq(s, 1, n)[i] = s[i]
OBVIOUS

LEMMA TakenBack ==
  ASSUME NEW howMany \in 0 .. 3
  PROVE  Withdrawn(SubSeq(Operations, 1, howMany)) = << >>
<1> DEFINE s == SubSeq(Operations, 1, howMany)
<1>1. s \in Seq(OpNames) /\ Len(s) = howMany /\ \A i \in 1 .. howMany : s[i] = Operations[i]
  <2>1. Operations \in Seq(OpNames) /\ howMany \in 0 .. Len(Operations)
    BY OperationsListed
  <2> QED BY <2>1, BeginningOf, Zenon
<1>2. Operations[1] = "signup" /\ Operations[2] = "login" /\ Operations[3] = "update"
  BY DEF Operations
<1> HIDE DEF s
<1>3. \A i \in 1 .. howMany : i \in 1 .. Len(Operations) /\ (i = 1 \/ i = 2 \/ i = 3)
  BY OperationsListed
<1>4. ToSet(s) \subseteq {"signup", "login", "update"}
  BY <1>1, <1>2, <1>3, MemberOf
<1>5. \A i, j \in 1 .. howMany : Operations[i] = Operations[j] => i = j
  BY <1>2, <1>3
<1>6. IsInjective(s)
  BY <1>1, <1>5, MemberOf DEF IsInjective
<1>7. Withdrawn(s) = << >>
  BY <1>1, <1>4, <1>6, NothingLeftOver
<1> QED BY <1>7 DEF s

LEMMA TakenBackAtEnd ==
  Withdrawn(RemoveFirst(Operations, "delete")) = << >>
<1> DEFINE s == RemoveFirst(Operations, "delete")
<1>1. s \in Seq(OpNames) /\ IsInjective(s) /\ ToSet(s) = ToSet(Operations) \ {"delete"}
  BY OperationsListed, RemovesListener
<1>2. ToSet(s) \subseteq {"signup", "login", "update"}
  BY <1>1, OperationsListed DEF ToSet, Range, OpNames
<1> HIDE DEF s
<1>3. Withdrawn(s) = << >>
  BY <1>1, <1>2, NothingLeftOver
<1> QED BY <1>3 DEF s

-----------------------------------------------------------------------------

(* What a request may rely on where it is; n is the count of changed rows. *)
RequestFields == {"at", "op", "body", "token", "status", "changed", "alone"}
RequestSound(r, n) ==
  /\ DOMAIN r = RequestFields /\ r.op \in OpNames /\ r.changed \in BOOLEAN /\ r.alone \in BOOLEAN
  /\ r.at \in {"received", "permission", "userId", "changes", "done"} \cup OpNames
  /\ r.at \in {"received", "permission"} \cup OpNames => ~r.changed
  /\ r.at \in OpNames => r.at = r.op
  /\ r.at = "permission" => r.op \in {"update", "delete"}
  /\ r.at = "userId" => r.op \in {"signup", "login"} /\ (r.changed <=> r.op = "signup")
  /\ r.at = "changes" => r.op \in {"update", "delete"} /\ (r.alone => (r.changed <=> n > 0))
  /\ r.at = "done" =>
       /\ r.status = 200 /\ r.alone => (r.changed <=> r.op # "login")
       /\ r.status \in {400, 401} => ~r.changed
       /\ r.status = 500 /\ r.changed /\ r.alone => r.op = "signup"
RequestsSound ==
  /\ changes \in Nat
  /\ DOMAIN requests = Clients
  /\ \A c \in Clients : requests[c] = NoRequest \/ RequestSound(requests[c], changes)

(* Who is going to make an account. *)
Signing(r) == r.at \in {"received", "signup"} /\ r.op = "signup"
Pending == {c \in Clients : Signing(requests[c])}

(* Accounts are numbered, by no more than the requests that made them. *)
IsUser(u) == DOMAIN u = {"id", "email", "password"}
NumberedTo(n) ==
  /\ \A u \in users : u.id \in 1 .. n
  /\ n + Cardinality(Pending) <= accepted
UsersSound ==
  /\ accepted \in 0 .. MaxAccepted
  /\ \A u \in users : IsUser(u) /\ <<u.id, u.email>> \in ever
  /\ \E n \in Nat : NumberedTo(n)

(* What a token is made of. *)
Claim(claims, name, value) == [n \in DOMAIN claims \cup {name} |-> IF n = name THEN value ELSE claims[n]]
TokenOf(sub, day) ==
  LET header == [alg |-> "HS256", typ |-> "JWT"]
      claims == Claim(Claim(Claim(<< >>, "iss", day), "exp", day + OneDay), "sub", Text(sub))
  IN <<header, claims, <<header, claims, "key">> >>
TokensSound ==
  \A t \in tokens : /\ t.sub \in 0 .. MaxAccepted /\ <<t.sub, t.given>> \in ever
                    /\ \E day : t.token = TokenOf(t.sub, day)

AccountsInv == RequestsSound /\ UsersSound /\ TokensSound /\ ListenersMatch /\ AccountsDiffer

(* Numbers are told apart by their texts. *)
TextsDiffer == \A m, n \in 0 .. MaxAccepted : Text(m) = Text(n) => m = n

-----------------------------------------------------------------------------

(* One request moves, and no statement changes rows. *)
LEMMA OneMoves ==
  ASSUME RequestsSound, NEW c \in Clients, NEW r, RequestSound(r, changes), changes' = changes,
         requests' = [requests EXCEPT ![c] = r]
  PROVE  RequestsSound'
BY DEF RequestsSound

(* A statement changes rows: those that have not asked for its count yet are told. *)
LEMMA OneWrites ==
  ASSUME RequestsSound, NEW c \in Clients, NEW r, RequestSound(r, changes'), changes' \in Nat, Writes(c, r)
  PROVE  RequestsSound' /\ requests'[c] = r
<1>1. DOMAIN requests' = Clients /\ requests'[c] = r
  BY DEF Writes
<1>2. ASSUME NEW d \in Clients, d # c PROVE requests'[d] = NoRequest \/ RequestSound(requests'[d], changes')
  <2>1. CASE requests[d].at = "changes"
    <3> DEFINE q == requests[d]
               t == [q EXCEPT !.alone = FALSE]
    <3>1. requests'[d] = t
      BY <1>2, <2>1 DEF Writes
    <3>2. RequestSound(q, changes)
      BY <2>1 DEF RequestsSound, NoRequest
    <3> HIDE DEF q
    <3>3. RequestSound(t, changes')
      BY <2>1, <3>2 DEF RequestSound, RequestFields, OpNames, q
    <3> QED BY <3>1, <3>3
  <2>2. CASE requests[d].at # "changes"
    <3>1. requests'[d] = requests[d]
      BY <1>2, <2>2 DEF Writes
    <3> QED BY <2>2, <3>1 DEF RequestsSound, RequestSound
  <2> QED BY <2>1, <2>2
<1> QED BY <1>1, <1>2 DEF RequestsSound

(* Numbers that are not above n have a greatest. *)
LEMMA GreatestMember ==
  ASSUME NEW n \in Nat, NEW T, T \subseteq 1 .. n, T # {}
  PROVE  Max(T) \in T /\ \A m \in T : m <= Max(T)
<1> DEFINE R == {n - m : m \in T}
<1>1. R \subseteq Nat /\ R # {}
  <2>1. \A m \in T : n - m \in Nat
    OBVIOUS
  <2> QED BY <2>1
<1>2. PICK k \in R : \A m \in R : k <= m
  BY <1>1, LeastMember
<1>3. PICK x \in T : k = n - x
  OBVIOUS
<1>4. \A m \in T : x >= m
  BY <1>2, <1>3
<1> QED BY <1>4 DEF Max

(* The number of the next account is not above the requests. *)
LEMMA NextIsFree ==
  ASSUME NEW n \in Nat, \A u \in users : u.id \in 1 .. n
  PROVE  NextId \in 1 .. n + 1 /\ \A u \in users : u.id < NextId
<1>1. CASE users = {}
  BY <1>1 DEF NextId
<1>2. CASE users # {}
  <2> DEFINE T == {u.id : u \in users}
  <2>1. T \subseteq 1 .. n /\ T # {}
    BY <1>2
  <2>2. \A u \in users : u.id \in T
    OBVIOUS
  <2>3. NextId = Max(T) + 1
    BY <1>2 DEF NextId
  <2> HIDE DEF T
  <2>4. Max(T) \in T /\ \A m \in T : m <= Max(T)
    BY <2>1, GreatestMember
  <2>5. \A u \in users : u.id <= Max(T)
    BY <2>2, <2>4
  <2> DEFINE m == Max(T)
             next == NextId
  <2>6. m \in 1 .. n /\ next = m + 1 /\ \A u \in users : u.id \in 1 .. n /\ u.id <= m
    BY <2>1, <2>3, <2>4, <2>5
  <2> HIDE DEF m, next
  <2>7. next \in 1 .. n + 1 /\ \A u \in users : u.id < next
    BY <2>6
  <2> QED BY <2>7 DEF next
<1> QED BY <1>1, <1>2

(* Nobody else is going to make an account: the accounts that are left stay numbered. *)
LEMMA PendingStays ==
  ASSUME IsFiniteSet(Clients), Pending' \subseteq Pending, UsersSound, accepted' = accepted, ever' = ever,
         \A v \in users' : IsUser(v) /\ \E u \in users : v.id = u.id /\ v.email = u.email
  PROVE  UsersSound'
<1>1. PICK n \in Nat : NumberedTo(n)
  BY DEF UsersSound
<1>2. IsFiniteSet(Pending) /\ Pending \subseteq Clients
  BY FS_Subset DEF Pending
<1>3. Cardinality(Pending') <= Cardinality(Pending) /\ Cardinality(Pending) \in Nat /\ Cardinality(Pending') \in Nat
  <2>1. IsFiniteSet(Pending') /\ Cardinality(Pending') <= Cardinality(Pending)
    BY <1>2, FS_Subset
  <2> QED BY <1>2, <2>1, FS_CardinalityType
<1>4. NumberedTo(n)'
  <2> DEFINE p == Cardinality(Pending)
             q == Cardinality(Pending')
  <2>1. n + p <= accepted /\ p \in Nat /\ q \in Nat /\ q <= p /\ accepted \in Int
    BY <1>1, <1>3 DEF NumberedTo, UsersSound
  <2>2. \A u \in users' : u.id \in 1 .. n
    BY <1>1 DEF NumberedTo
  <2> HIDE DEF p, q
  <2>3. n + q <= accepted'
    BY <2>1
  <2> QED BY <2>2, <2>3 DEF NumberedTo, q
<1> QED BY <1>4 DEF UsersSound

(* One request that moves is not one more that signs up. *)
LEMMA PendingOne ==
  ASSUME NEW c \in Clients, DOMAIN requests = Clients, DOMAIN requests' = Clients,
         \A d \in Clients \ {c} : Signing(requests'[d]) => Signing(requests[d]),
         Signing(requests'[c]) => Signing(requests[c])
  PROVE  Pending' \subseteq Pending
BY DEF Pending

LEMMA WritesOthers ==
  ASSUME NEW c \in Clients, NEW r, RequestsSound, Writes(c, r)
  PROVE  \A d \in Clients \ {c} : Signing(requests'[d]) <=> Signing(requests[d])
<1> SUFFICES ASSUME NEW d \in Clients \ {c} PROVE Signing(requests'[d]) <=> Signing(requests[d])
  OBVIOUS
<1>1. CASE requests[d].at = "changes"
  <2> DEFINE q == requests[d]
             t == [q EXCEPT !.alone = FALSE]
  <2>1. requests'[d] = t
    BY <1>1 DEF Writes
  <2>2. DOMAIN q = RequestFields
    BY <1>1 DEF RequestsSound, RequestSound, NoRequest
  <2> HIDE DEF q
  <2>3. t.at = q.at
    BY <2>2 DEF RequestFields
  <2> QED BY <1>1, <2>1, <2>3 DEF Signing, q
<1>2. CASE requests[d].at # "changes"
  BY <1>2 DEF Writes
<1> QED BY <1>1, <1>2

-----------------------------------------------------------------------------

(* A handler answers, or goes on, without a statement that changes rows. *)
Answers(c, r) ==
  /\ requests' = [requests EXCEPT ![c] = r] /\ RequestSound(r, changes) /\ (Signing(r) => Signing(requests[c]))
  /\ UNCHANGED <<listening, database, users, changes, ever, accepted>>

LEMMA AnswersKeep ==
  ASSUME IsFiniteSet(Clients), AccountsInv, NEW c \in Clients, NEW r, Answers(c, r), TokensSound'
  PROVE  AccountsInv'
<1>1. RequestsSound'
  BY OneMoves DEF AccountsInv, Answers
<1>2. Pending' \subseteq Pending
  <2>1. DOMAIN requests = Clients /\ requests' = [requests EXCEPT ![c] = r]
    BY DEF AccountsInv, RequestsSound, Answers
  <2>2. DOMAIN requests' = Clients /\ requests'[c] = r /\ \A d \in Clients \ {c} : requests'[d] = requests[d]
    BY <2>1
  <2> QED BY <2>1, <2>2, PendingOne DEF Answers
<1>3. UsersSound'
  <2>1. \A v \in users' : IsUser(v) /\ \E u \in users : v.id = u.id /\ v.email = u.email
    BY DEF AccountsInv, UsersSound, Answers
  <2> QED BY <1>2, <2>1, PendingStays DEF AccountsInv, Answers
<1>4. ListenersMatch' /\ AccountsDiffer'
  BY DEF AccountsInv, Answers, ListenersMatch, AccountsDiffer, Operations
<1> QED BY <1>1, <1>3, <1>4 DEF AccountsInv

LEMMA TokensStay ==
  ASSUME TokensSound, tokens' = tokens, ever' = ever
  PROVE  TokensSound'
BY DEF TokensSound

(* A request that is somewhere is sound. *)
LEMMA Somewhere ==
  ASSUME AccountsInv, NEW c \in Clients, requests[c].at # "idle"
  PROVE  RequestSound(requests[c], changes) /\ changes \in Nat
BY DEF AccountsInv, RequestsSound, NoRequest

(* A request with another place. *)
LEMMA Elsewhere ==
  ASSUME NEW q, DOMAIN q = RequestFields, NEW at
  PROVE  LET r == [q EXCEPT !.at = at]
         IN DOMAIN r = RequestFields /\ r.at = at /\ r.op = q.op /\ r.changed = q.changed /\ r.alone = q.alone
BY DEF RequestFields

LEMMA Answered ==
  ASSUME NEW q, DOMAIN q = RequestFields, NEW at, NEW status
  PROVE  LET r == [q EXCEPT !.at = at, !.status = status]
         IN DOMAIN r = RequestFields /\ r.at = at /\ r.status = status /\ r.op = q.op /\ r.changed = q.changed /\ r.alone = q.alone
BY DEF RequestFields

(* What a status may be, and where a request may go, without a statement. *)
LEMMA RepliesAnswer ==
  ASSUME AccountsInv, NEW c \in Clients, requests[c].at # "idle", NEW status, Reply(c, status),
         status \in {400, 401} => ~requests[c].changed,
         status = 200 /\ requests[c].alone => (requests[c].changed <=> requests[c].op # "login"),
         status = 500 /\ requests[c].changed /\ requests[c].alone => requests[c].op = "signup",
         UNCHANGED <<listening, database, users, changes, ever, accepted>>
  PROVE  \E r : Answers(c, r)
<1> DEFINE q == requests[c]
           r == [q EXCEPT !.at = "done", !.status = status]
<1>1. RequestSound(q, changes)
  BY Somewhere
<1>2. DOMAIN q = RequestFields /\ q.op \in OpNames /\ q.changed \in BOOLEAN /\ q.alone \in BOOLEAN
  BY <1>1 DEF RequestSound
<1>3. requests' = [requests EXCEPT ![c] = r]
  BY DEF Reply
<1>4. DOMAIN r = RequestFields /\ r.at = "done" /\ r.status = status /\ r.op = q.op /\ r.changed = q.changed /\ r.alone = q.alone
  <2> HIDE DEF q
  <2> QED BY <1>2, Answered
<1> HIDE DEF r
<1>5. RequestSound(r, changes)
  BY <1>2, <1>4 DEF RequestSound, OpNames
<1>6. ~Signing(r)
  BY <1>4 DEF Signing
<1>7. Answers(c, r)
  BY <1>3, <1>5, <1>6 DEF Answers
<1> QED BY <1>7

LEMMA GoingOnAnswers ==
  ASSUME AccountsInv, NEW c \in Clients, requests[c].at # "idle", NEW at, Goto(c, at), ~requests[c].changed,
         \/ at \in OpNames /\ at = requests[c].op
         \/ at = "permission" /\ requests[c].op \in {"update", "delete"}
         \/ at = "userId" /\ requests[c].op = "login",
         at = "signup" => requests[c].at = "received",
         UNCHANGED <<listening, database, users, changes, ever, accepted>>
  PROVE  \E r : Answers(c, r)
<1> DEFINE q == requests[c]
           r == [q EXCEPT !.at = at]
<1>1. RequestSound(q, changes)
  BY Somewhere
<1>2. DOMAIN q = RequestFields /\ q.op \in OpNames /\ q.changed \in BOOLEAN /\ q.alone \in BOOLEAN
  BY <1>1 DEF RequestSound
<1>3. requests' = [requests EXCEPT ![c] = r]
  BY DEF Goto
<1>4. DOMAIN r = RequestFields /\ r.at = at /\ r.op = q.op /\ r.changed = q.changed /\ r.alone = q.alone
  <2> HIDE DEF q
  <2> QED BY <1>2, Elsewhere
<1> HIDE DEF r
<1>5. RequestSound(r, changes)
  BY <1>2, <1>4 DEF RequestSound, OpNames
<1>6. Signing(r) => Signing(requests[c])
  BY <1>4 DEF Signing, OpNames
<1>7. Answers(c, r)
  BY <1>3, <1>5, <1>6 DEF Answers
<1> QED BY <1>7

LEMMA CheckKeeps ==
  ASSUME IsFiniteSet(Clients), AccountsInv, NEW c \in Clients, Check(c)
  PROVE  AccountsInv'
<1>1. requests[c].at = "received" /\ requests[c].op \in OpNames /\ ~requests[c].changed
  BY Somewhere DEF Check, RequestSound
<1>2. UNCHANGED <<listening, database, users, changes, tokens, ever, accepted>>
  BY DEF Check
<1> DEFINE status == {400, 401}
           guarded == requests[c].op \in {"update", "delete"}
<1>3. \/ \E s \in status : Reply(c, s)
      \/ Goto(c, IF guarded THEN "permission" ELSE requests[c].op)
  BY DEF Check
<1>4. \E r : Answers(c, r)
  <2>1. ASSUME NEW s \in status, Reply(c, s) PROVE \E r : Answers(c, r)
    BY <1>1, <1>2, <2>1, RepliesAnswer
  <2>2. CASE Goto(c, "permission") /\ guarded
    BY <1>1, <1>2, <2>2, GoingOnAnswers
  <2>3. CASE Goto(c, requests[c].op) /\ ~guarded
    BY <1>1, <1>2, <2>3, GoingOnAnswers
  <2> QED BY <1>3, <2>1, <2>2, <2>3
<1>5. TokensSound'
  BY <1>2, TokensStay DEF AccountsInv
<1> QED BY <1>4, <1>5, AnswersKeep

LEMMA LoginKeeps ==
  ASSUME IsFiniteSet(Clients), AccountsInv, NEW c \in Clients, LoginPost(c)
  PROVE  AccountsInv'
<1>1. requests[c].at = "login" /\ requests[c].op = "login" /\ ~requests[c].changed
  BY Somewhere DEF LoginPost, RequestSound, OpNames
<1>2. UNCHANGED <<listening, database, users, changes, tokens, ever, accepted>>
  BY DEF LoginPost
<1>3. Goto(c, "userId") \/ Reply(c, 500)
  BY DEF LoginPost
<1>4. \E r : Answers(c, r)
  BY <1>1, <1>2, <1>3, RepliesAnswer, GoingOnAnswers
<1>5. TokensSound'
  BY <1>2, TokensStay DEF AccountsInv
<1> QED BY <1>4, <1>5, AnswersKeep

LEMMA PermissionKeeps ==
  ASSUME IsFiniteSet(Clients), AccountsInv, NEW c \in Clients, Permission(c)
  PROVE  AccountsInv'
<1>1. requests[c].at = "permission" /\ requests[c].op \in {"update", "delete"} /\ ~requests[c].changed
  BY Somewhere DEF Permission, RequestSound, OpNames
<1>2. UNCHANGED <<listening, database, users, changes, tokens, ever, accepted>>
  BY DEF Permission
<1>3. Goto(c, requests[c].op) \/ \E s \in {400, 401, 500} : Reply(c, s)
  BY DEF Permission
<1>4. \E r : Answers(c, r)
  <2>1. CASE Goto(c, requests[c].op)
    BY <1>1, <1>2, <2>1, GoingOnAnswers DEF OpNames
  <2>2. ASSUME NEW s \in {400, 401, 500}, Reply(c, s) PROVE \E r : Answers(c, r)
    BY <1>1, <1>2, <2>2, RepliesAnswer
  <2> QED BY <1>3, <2>1, <2>2
<1>5. TokensSound'
  BY <1>2, TokensStay DEF AccountsInv
<1> QED BY <1>4, <1>5, AnswersKeep

LEMMA ChangesKeep ==
  ASSUME IsFiniteSet(Clients), AccountsInv, NEW c \in Clients, Changes(c)
  PROVE  AccountsInv'
<1>1. requests[c].at = "changes" /\ requests[c].op \in {"update", "delete"} /\ changes \in Nat
      /\ (requests[c].alone => (requests[c].changed <=> changes > 0))
  BY Somewhere DEF Changes, RequestSound, OpNames
<1>2. UNCHANGED <<listening, database, users, changes, tokens, ever, accepted>>
  BY DEF Changes
<1>3. Reply(c, IF changes = 0 THEN 500 ELSE 200)
  BY DEF Changes
<1>4. \E r : Answers(c, r)
  <2>1. CASE changes = 0
    BY <1>1, <1>2, <1>3, <2>1, RepliesAnswer
  <2>2. CASE changes # 0
    BY <1>1, <1>2, <1>3, <2>2, RepliesAnswer
  <2> QED BY <2>1, <2>2
<1>5. TokensSound'
  BY <1>2, TokensStay DEF AccountsInv
<1> QED BY <1>4, <1>5, AnswersKeep

(* What is built is such a token. *)
LEMMA ClaimIsSet ==
  ASSUME NEW h, NEW claims, NEW name, NEW value
  PROVE  NQJWT_claimSet([header |-> h, claims |-> claims, token |-> NoToken], name, value)
           = [header |-> h, claims |-> Claim(claims, name, value), token |-> NoToken]
BY DEF NQJWT_claimSet, Claim

LEMMA BuiltToken ==
  ASSUME NEW sub
  PROVE  BuildJWT(sub) = TokenOf(sub, now)
<1> DEFINE h == [alg |-> "HS256", typ |-> "JWT"]
           claims == Claim(Claim(Claim(<< >>, "iss", now), "exp", now + OneDay), "sub", Text(sub))
           jwt == NQJWT_claimSet(NQJWT_claimSet(NQJWT_claimSet(NQJWT_create("HS256"), "iss", now), "exp", now + OneDay), "sub", Text(sub))
<1>1. NQJWT_create("HS256") = [header |-> h, claims |-> << >>, token |-> NoToken]
  BY DEF NQJWT_create
<1>2. h.alg = "HS256"
  OBVIOUS
<1> HIDE DEF h
<1>3. jwt = [header |-> h, claims |-> claims, token |-> NoToken]
  <2> DEFINE expires == now + OneDay
             text == Text(sub)
             first == Claim(<< >>, "iss", now)
             second == Claim(first, "exp", expires)
             a == NQJWT_claimSet(NQJWT_create("HS256"), "iss", now)
             b == NQJWT_claimSet(a, "exp", expires)
  <2> HIDE DEF expires, text
  <2>1. a = [header |-> h, claims |-> first, token |-> NoToken]
    BY <1>1, ClaimIsSet
  <2> HIDE DEF a, first
  <2>2. b = [header |-> h, claims |-> second, token |-> NoToken]
    BY <2>1, ClaimIsSet
  <2> HIDE DEF b, second
  <2>3. NQJWT_claimSet(b, "sub", text) = [header |-> h, claims |-> Claim(second, "sub", text), token |-> NoToken]
    BY <2>2, ClaimIsSet
  <2> QED BY <2>3 DEF a, b, first, second, expires, text
<1>4. BuildJWT(sub) = NQJWT_sign(jwt, sessionSeckey).token
  BY DEF BuildJWT
<1>5. TokenOf(sub, now) = <<h, claims, <<h, claims, "key">> >>
  BY DEF TokenOf, h
<1> HIDE DEF jwt, claims
<1>6. jwt.header = h /\ jwt.claims = claims
  BY <1>3
<1>7. NQJWT_sign(jwt, sessionSeckey).token = <<h, claims, <<h, claims, "key">> >>
  BY <1>2, <1>3, <1>6 DEF NQJWT_sign, Digest, sessionSeckey
<1> QED BY <1>4, <1>5, <1>7

(* A token names an id that its account has. *)
LEMMA ResponseKeeps ==
  ASSUME IsFiniteSet(Clients), AccountsInv, MaxAccepted \in Nat, NEW c \in Clients, CommonPostResponse(c)
  PROVE  AccountsInv'
<1>1. requests[c].at = "userId" /\ requests[c].op \in {"signup", "login"} /\ (requests[c].changed <=> requests[c].op = "signup")
  BY Somewhere DEF CommonPostResponse, RequestSound, OpNames
<1>2. UNCHANGED <<listening, database, users, changes, ever, accepted>>
  BY DEF CommonPostResponse
<1>3. Reply(c, 500) \/ Reply(c, 200)
  BY DEF CommonPostResponse
<1>4. \E r : Answers(c, r)
  BY <1>1, <1>2, <1>3, RepliesAnswer
<1>5. TokensSound'
  <2>1. CASE tokens' = tokens
    BY <1>2, <2>1, TokensStay DEF AccountsInv
  <2>2. ASSUME NEW u \in users, NEW t, tokens' = tokens \cup {t}, t = [token |-> BuildJWT(u.id), sub |-> u.id, given |-> requests[c].body.email],
               u.email = requests[c].body.email
        PROVE  TokensSound'
    <3>1. <<u.id, u.email>> \in ever /\ u.id \in 0 .. MaxAccepted
      <4>1. PICK n \in Nat : NumberedTo(n)
        BY DEF AccountsInv, UsersSound
      <4>2. Cardinality(Pending) \in Nat
        BY FS_Subset, FS_CardinalityType DEF Pending
      <4> DEFINE p == Cardinality(Pending)
      <4>3. n + p <= accepted /\ p \in Nat /\ accepted \in 0 .. MaxAccepted /\ u.id \in 1 .. n
        BY <4>1, <4>2 DEF AccountsInv, UsersSound, NumberedTo
      <4> HIDE DEF p
      <4>4. u.id \in 0 .. MaxAccepted
        BY <4>3
      <4> QED BY <4>4 DEF AccountsInv, UsersSound
    <3>2. BuildJWT(u.id) = TokenOf(u.id, now)
      BY BuiltToken
    <3>3. t.sub = u.id /\ t.given = u.email /\ t.token = TokenOf(t.sub, now)
      BY <2>2, <3>2
    <3>4. t.sub \in 0 .. MaxAccepted /\ <<t.sub, t.given>> \in ever
      BY <3>1, <3>3
    <3> QED BY <1>2, <2>2, <3>3, <3>4 DEF AccountsInv, TokensSound
  <2> QED BY <2>1, <2>2 DEF CommonPostResponse, Named
<1> QED BY <1>4, <1>5, AnswersKeep

(* A statement that changes rows: what it leaves of the requests and of the numbers. *)
LEMMA DoneKeeps ==
  ASSUME AccountsInv, NEW c \in Clients, requests[c].at \in {"signup", "update", "delete"}, NEW at,
         changes' \in Nat, Done(c, at),
         \/ at = "userId" /\ requests[c].at = "signup" /\ changes' > 0
         \/ at = "changes" /\ requests[c].at # "signup"
  PROVE  RequestsSound' /\ Pending' \subseteq Pending \ {c}
<1> DEFINE q == requests[c]
           r == [q EXCEPT !.at = at, !.changed = changes' > 0]
<1>1. RequestSound(q, changes) /\ RequestsSound
  BY Somewhere DEF AccountsInv
<1>2. DOMAIN q = RequestFields /\ q.op \in OpNames /\ q.alone \in BOOLEAN /\ q.at = q.op
  BY <1>1 DEF RequestSound, OpNames
<1>3. Writes(c, r)
  BY DEF Done
<1>4. DOMAIN r = RequestFields /\ r.at = at /\ r.op = q.op /\ r.changed = (changes' > 0) /\ r.alone = q.alone
  <2> HIDE DEF q
  <2> QED BY <1>2 DEF RequestFields
<1> HIDE DEF r
<1>5. RequestSound(r, changes')
  <2> DEFINE more == changes' > 0
  <2>1. r.changed \in BOOLEAN /\ (r.changed <=> more)
    <3>1. more \in BOOLEAN
      OBVIOUS
    <3> HIDE DEF more
    <3>2. r.changed = more
      BY <1>4 DEF more
    <3> QED BY <3>1, <3>2, Zenon
  <2>2. CASE at = "userId"
    BY <1>2, <1>4, <2>1, <2>2 DEF RequestSound, OpNames
  <2>3. CASE at = "changes"
    BY <1>2, <1>4, <2>1, <2>3 DEF RequestSound, OpNames
  <2> QED BY <2>2, <2>3
<1>6. RequestsSound' /\ requests'[c] = r
  BY <1>1, <1>3, <1>5, OneWrites
<1>7. ~Signing(r)
  BY <1>4 DEF Signing
<1>8. \A d \in Clients \ {c} : Signing(requests'[d]) <=> Signing(requests[d])
  BY <1>1, <1>3, WritesOthers
<1> QED BY <1>6, <1>7, <1>8 DEF Pending

(* No two accounts have the same name. *)
LEMMA OneOfEach ==
  ASSUME AccountsInv, NEW email
  PROVE  Cardinality(Named(email)) \in Nat
<1>1. CASE Named(email) = {}
  BY <1>1, FS_EmptySet
<1>2. CASE Named(email) # {}
  <2>1. PICK u \in Named(email) : TRUE
    BY <1>2
  <2>2. Named(email) = {u}
    BY <2>1 DEF Named, AccountsInv, AccountsDiffer
  <2> QED BY <2>2, FS_Singleton
<1> QED BY <1>1, <1>2

LEMMA SignupKeeps ==
  ASSUME IsFiniteSet(Clients), AccountsInv, NEW c \in Clients, SignupPost(c)
  PROVE  AccountsInv'
<1> DEFINE email == requests[c].body.email
           new == [id |-> NextId, email |-> email, password |-> requests[c].body.password]
<1>1. /\ requests[c].at = "signup" /\ Named(email) = {} /\ users' = users \cup {new} /\ changes' = 1
      /\ ever' = ever \cup {<<NextId, email>>} /\ Done(c, "userId")
      /\ UNCHANGED <<listening, database, tokens, accepted>>
  BY DEF SignupPost, SignupQuery
<1>2. RequestsSound' /\ Pending' \subseteq Pending \ {c}
  BY <1>1, DoneKeeps
<1>3. PICK n \in Nat : NumberedTo(n)
  BY DEF AccountsInv, UsersSound
<1>4. NextId \in 1 .. n + 1 /\ \A u \in users : u.id < NextId
  BY <1>3, NextIsFree DEF NumberedTo
<1>5. IsUser(new) /\ new.id = NextId /\ new.email = email
  BY DEF IsUser
<1> HIDE DEF new
<1>6. c \in Pending
  BY <1>1, Somewhere DEF Pending, Signing, RequestSound, OpNames
<1>7. Cardinality(Pending) \in Nat /\ Cardinality(Pending') \in Nat /\ Cardinality(Pending') + 1 <= Cardinality(Pending)
  <2>1. IsFiniteSet(Pending)
    BY FS_Subset DEF Pending
  <2>2. IsFiniteSet(Pending \ {c}) /\ Cardinality(Pending \ {c}) = Cardinality(Pending) - 1
    BY <1>6, <2>1, FS_RemoveElement
  <2>3. IsFiniteSet(Pending') /\ Cardinality(Pending') <= Cardinality(Pending \ {c})
    BY <1>2, <2>2, FS_Subset
  <2>4. Cardinality(Pending) \in Nat /\ Cardinality(Pending') \in Nat
    BY <2>1, <2>3, FS_CardinalityType
  <2> DEFINE p == Cardinality(Pending)
             q == Cardinality(Pending')
             z == Cardinality(Pending \ {c})
  <2>5. p \in Nat /\ q \in Nat /\ z = p - 1 /\ q <= z
    BY <2>2, <2>3, <2>4
  <2> HIDE DEF p, q, z
  <2>6. q + 1 <= p
    BY <2>5
  <2> QED BY <2>4, <2>6 DEF p, q
<1>8. NumberedTo(n + 1)'
  <2> DEFINE p == Cardinality(Pending)
             q == Cardinality(Pending')
             next == NextId
  <2>1. n + p <= accepted /\ p \in Nat /\ q \in Nat /\ q + 1 <= p /\ accepted \in Int /\ accepted' = accepted
    BY <1>1, <1>3, <1>7 DEF NumberedTo, AccountsInv, UsersSound
  <2>2. \A u \in users' : u.id \in 1 .. n + 1
    <3> HIDE DEF next
    <3>1. next \in 1 .. n + 1 /\ \A u \in users : u.id \in 1 .. n
      BY <1>3, <1>4 DEF NumberedTo, next
    <3>2. \A u \in users : u.id \in 1 .. n + 1
      BY <3>1
    <3> QED BY <1>1, <1>5, <3>1, <3>2 DEF next
  <2> HIDE DEF p, q
  <2>3. n + 1 + q <= accepted'
    BY <2>1
  <2> QED BY <2>2, <2>3 DEF NumberedTo, q
<1>9. UsersSound'
  <2>1. \A u \in users' : IsUser(u) /\ <<u.id, u.email>> \in ever'
    BY <1>1, <1>5 DEF AccountsInv, UsersSound
  <2>2. \E k \in Nat : NumberedTo(k)'
    BY <1>8
  <2> QED BY <1>1, <2>1, <2>2 DEF AccountsInv, UsersSound
<1>10. AccountsDiffer'
  <2>1. \A u \in users : u.id # new.id /\ u.email # new.email
    BY <1>1, <1>3, <1>4, <1>5 DEF Named, NumberedTo
  <2> QED BY <1>1, <2>1 DEF AccountsInv, AccountsDiffer
<1>11. TokensSound' /\ ListenersMatch'
  BY <1>1 DEF AccountsInv, TokensSound, ListenersMatch, Operations
<1> QED BY <1>2, <1>9, <1>10, <1>11 DEF AccountsInv

LEMMA UpdateKeeps ==
  ASSUME IsFiniteSet(Clients), AccountsInv, NEW c \in Clients, UpdatePost(c)
  PROVE  AccountsInv'
<1> DEFINE email == requests[c].body.email
           password == requests[c].body.password
           Renewed(u) == IF u.email = email THEN [u EXCEPT !.password = password] ELSE u
<1>1. /\ requests[c].at = "update" /\ users' = {Renewed(u) : u \in users} /\ changes' = Cardinality(Named(email))
      /\ Done(c, "changes")
      /\ UNCHANGED <<listening, database, tokens, accepted, ever>>
  BY DEF UpdatePost, UpdateQuery
<1>2. changes' \in Nat
  BY <1>1, OneOfEach
<1>3. RequestsSound' /\ Pending' \subseteq Pending
  BY <1>1, <1>2, DoneKeeps
<1>4. \A u \in users : IsUser(Renewed(u)) /\ Renewed(u).id = u.id /\ Renewed(u).email = u.email
  <2> SUFFICES ASSUME NEW u \in users PROVE IsUser(Renewed(u)) /\ Renewed(u).id = u.id /\ Renewed(u).email = u.email
    OBVIOUS
  <2>1. IsUser(u)
    BY DEF AccountsInv, UsersSound
  <2> HIDE DEF email, password
  <2> QED BY <2>1 DEF IsUser
<1> HIDE DEF Renewed
<1>5. UsersSound'
  <2>1. \A v \in users' : IsUser(v) /\ \E u \in users : v.id = u.id /\ v.email = u.email
    BY <1>1, <1>4
  <2> QED BY <1>1, <1>3, <2>1, PendingStays DEF AccountsInv
<1>6. AccountsDiffer'
  BY <1>1, <1>4 DEF AccountsInv, AccountsDiffer
<1>7. TokensSound' /\ ListenersMatch'
  BY <1>1 DEF AccountsInv, TokensSound, ListenersMatch, Operations
<1> QED BY <1>3, <1>5, <1>6, <1>7 DEF AccountsInv

LEMMA DeleteKeeps ==
  ASSUME IsFiniteSet(Clients), AccountsInv, NEW c \in Clients, DeletePost(c)
  PROVE  AccountsInv'
<1> DEFINE email == requests[c].body.email
<1>1. /\ requests[c].at = "delete" /\ users' \subseteq users /\ changes' = Cardinality(Named(email))
      /\ Done(c, "changes")
      /\ UNCHANGED <<listening, database, tokens, accepted, ever>>
  BY DEF DeletePost, DeleteQuery
<1>2. changes' \in Nat
  BY <1>1, OneOfEach
<1>3. RequestsSound' /\ Pending' \subseteq Pending
  BY <1>1, <1>2, DoneKeeps
<1>4. UsersSound'
  <2>1. \A v \in users' : IsUser(v) /\ \E u \in users : v.id = u.id /\ v.email = u.email
    BY <1>1 DEF AccountsInv, UsersSound
  <2> QED BY <1>1, <1>3, <2>1, PendingStays DEF AccountsInv
<1>5. AccountsDiffer' /\ TokensSound' /\ ListenersMatch'
  BY <1>1 DEF AccountsInv, AccountsDiffer, TokensSound, ListenersMatch, Operations
<1> QED BY <1>3, <1>4, <1>5 DEF AccountsInv

(* A statement that fails may have counted what it did not do. *)
LEMMA FailKeeps ==
  ASSUME IsFiniteSet(Clients), AccountsInv, NEW c \in Clients, StatementFails(c)
  PROVE  AccountsInv'
<1> DEFINE q == requests[c]
           r == [q EXCEPT !.at = "done", !.status = 500]
<1>1. UNCHANGED <<listening, database, users, tokens, accepted, ever>>
  BY DEF StatementFails
<1>2. CASE q.at \in {"login", "permission", "userId"} /\ Reply(c, 500) /\ UNCHANGED changes
  <2>1. q.at # "idle" /\ (q.changed => q.op = "signup")
    BY <1>2, Somewhere DEF RequestSound, OpNames
  <2>2. \E a : Answers(c, a)
    BY <1>1, <1>2, <2>1, RepliesAnswer
  <2>3. TokensSound'
    BY <1>1, TokensStay DEF AccountsInv
  <2> QED BY <2>2, <2>3, AnswersKeep
<1>3. CASE q.at \in {"signup", "update", "delete"} /\ Writes(c, r) /\ changes' \in {0, changes}
  <2>1. RequestSound(q, changes) /\ RequestsSound /\ ~q.changed
    BY <1>3, Somewhere DEF AccountsInv, RequestSound, OpNames
  <2>2. DOMAIN q = RequestFields /\ q.op \in OpNames /\ q.changed \in BOOLEAN /\ q.alone \in BOOLEAN /\ changes' \in Nat
    BY <1>3, <2>1 DEF RequestSound, RequestsSound
  <2>3. Writes(c, r)
    BY <1>3
  <2>4. DOMAIN r = RequestFields /\ r.at = "done" /\ r.status = 500 /\ r.op = q.op /\ r.changed = q.changed /\ r.alone = q.alone
    <3> HIDE DEF q
    <3> QED BY <2>2, Answered
  <2> HIDE DEF r
  <2>5. RequestSound(r, changes')
    BY <2>1, <2>2, <2>4 DEF RequestSound, OpNames
  <2>6. RequestsSound' /\ requests'[c] = r
    BY <2>1, <2>2, <2>3, <2>5, OneWrites
  <2>7. \A d \in Clients \ {c} : Signing(requests'[d]) <=> Signing(requests[d])
    BY <2>1, <2>3, WritesOthers
  <2>8. Pending' \subseteq Pending
    BY <2>4, <2>6, <2>7 DEF Pending, Signing
  <2>9. UsersSound'
    <3>1. \A v \in users' : IsUser(v) /\ \E u \in users : v.id = u.id /\ v.email = u.email
      BY <1>1 DEF AccountsInv, UsersSound
    <3> QED BY <1>1, <2>8, <3>1, PendingStays DEF AccountsInv
  <2>10. AccountsDiffer' /\ TokensSound' /\ ListenersMatch'
    BY <1>1 DEF AccountsInv, AccountsDiffer, TokensSound, ListenersMatch, Operations
  <2> QED BY <2>6, <2>9, <2>10 DEF AccountsInv
<1> QED BY <1>2, <1>3 DEF StatementFails

(* A request more, which may sign up. *)
LEMMA ReceiveKeeps ==
  ASSUME IsFiniteSet(Clients), MaxAccepted \in Nat, AccountsInv, NEW c \in Clients,
         NEW op \in Range(Operations), NEW body, NEW token, Receive(c, op, body, token)
  PROVE  AccountsInv'
<1> DEFINE r == [at |-> "received", op |-> op, body |-> body, token |-> token, status |-> 0, changed |-> FALSE, alone |-> TRUE]
<1>1. /\ requests[c].at = "idle" /\ accepted < MaxAccepted /\ accepted' = accepted + 1
      /\ requests' = [requests EXCEPT ![c] = r]
      /\ UNCHANGED <<listening, database, users, changes, tokens, ever>>
  BY DEF Receive
<1>2. RequestSound(r, changes)
  BY OperationsListed DEF RequestSound, RequestFields, OpNames
<1> HIDE DEF r
<1>3. RequestsSound'
  BY <1>1, <1>2, OneMoves DEF AccountsInv
<1>4. UsersSound'
  <2>1. PICK n \in Nat : NumberedTo(n)
    BY DEF AccountsInv, UsersSound
  <2>2. IsFiniteSet(Pending) /\ Pending' \subseteq Pending \cup {c}
    BY <1>1, FS_Subset DEF Pending, AccountsInv, RequestsSound
  <2>3. IsFiniteSet(Pending \cup {c}) /\ Cardinality(Pending \cup {c}) <= Cardinality(Pending) + 1
    <3>1. CASE c \in Pending
      <4>1. Pending \cup {c} = Pending
        BY <3>1
      <4>2. Cardinality(Pending) \in Nat
        BY <2>2, FS_CardinalityType
      <4>3. Cardinality(Pending) <= Cardinality(Pending) + 1
        BY <4>2
      <4> QED BY <2>2, <4>1, <4>3
    <3>2. CASE c \notin Pending
      <4>1. IsFiniteSet(Pending \cup {c}) /\ Cardinality(Pending \cup {c}) = Cardinality(Pending) + 1
        BY <2>2, <3>2, FS_AddElement
      <4> QED BY <2>2, <4>1, FS_CardinalityType
    <3> QED BY <3>1, <3>2
  <2>4. IsFiniteSet(Pending') /\ Cardinality(Pending') <= Cardinality(Pending \cup {c})
    BY <2>2, <2>3, FS_Subset
  <2>5. Cardinality(Pending) \in Nat /\ Cardinality(Pending') \in Nat /\ Cardinality(Pending \cup {c}) \in Nat
    BY <2>2, <2>3, <2>4, FS_CardinalityType
  <2>6. NumberedTo(n)'
    <3> DEFINE p == Cardinality(Pending)
               q == Cardinality(Pending')
               z == Cardinality(Pending \cup {c})
    <3>1. n + p <= accepted /\ p \in Nat /\ q \in Nat /\ z \in Nat /\ z <= p + 1 /\ q <= z /\ accepted \in Int
      BY <2>1, <2>3, <2>4, <2>5 DEF NumberedTo, AccountsInv, UsersSound
    <3>2. \A u \in users' : u.id \in 1 .. n
      BY <1>1, <2>1 DEF NumberedTo
    <3> HIDE DEF p, q, z
    <3>3. n + q <= accepted'
      BY <1>1, <3>1
    <3> QED BY <3>2, <3>3 DEF NumberedTo, q
  <2>7. accepted' \in 0 .. MaxAccepted
    BY <1>1 DEF AccountsInv, UsersSound
  <2>8. \A u \in users' : IsUser(u) /\ <<u.id, u.email>> \in ever'
    BY <1>1 DEF AccountsInv, UsersSound
  <2>9. \E k \in Nat : NumberedTo(k)'
    BY <2>6
  <2> QED BY <2>7, <2>8, <2>9 DEF UsersSound
<1>5. AccountsDiffer' /\ TokensSound' /\ ListenersMatch'
  BY <1>1 DEF AccountsInv, AccountsDiffer, TokensSound, ListenersMatch, Operations
<1> QED BY <1>3, <1>4, <1>5 DEF AccountsInv

LEMMA ReleaseKeeps ==
  ASSUME IsFiniteSet(Clients), AccountsInv, NEW c \in Clients, CommonPostRelease(c)
  PROVE  AccountsInv'
<1>1. requests' = [requests EXCEPT ![c] = NoRequest] /\ UNCHANGED <<listening, database, users, changes, tokens, ever, accepted>>
  BY DEF CommonPostRelease
<1>2. DOMAIN requests = Clients
  BY DEF AccountsInv, RequestsSound
<1>3. requests'[c] = NoRequest /\ DOMAIN requests' = Clients /\ \A d \in Clients \ {c} : requests'[d] = requests[d]
  BY <1>1, <1>2
<1>4. RequestsSound'
  BY <1>1, <1>3 DEF AccountsInv, RequestsSound
<1>5. Pending' \subseteq Pending
  BY <1>3 DEF Pending, Signing, NoRequest
<1>6. UsersSound'
  <2>1. \A v \in users' : IsUser(v) /\ \E u \in users : v.id = u.id /\ v.email = u.email
    BY <1>1 DEF AccountsInv, UsersSound
  <2> QED BY <1>1, <1>5, <2>1, PendingStays DEF AccountsInv
<1>7. AccountsDiffer' /\ TokensSound' /\ ListenersMatch'
  BY <1>1 DEF AccountsInv, AccountsDiffer, TokensSound, ListenersMatch, Operations
<1> QED BY <1>4, <1>6, <1>7 DEF AccountsInv

(* Nothing happens to a request: listeners come and go, or a day passes. *)
LEMMA QuietKeeps ==
  ASSUME AccountsInv, UNCHANGED <<users, changes, requests, tokens, accepted, ever>>, ListenersMatch'
  PROVE  AccountsInv'
<1>1. RequestsSound'
  BY DEF AccountsInv, RequestsSound
<1>2. UsersSound'
  <2>1. Pending' = Pending
    BY DEF Pending
  <2>2. PICK n \in Nat : NumberedTo(n)
    BY DEF AccountsInv, UsersSound
  <2>3. NumberedTo(n)'
    BY <2>1, <2>2 DEF NumberedTo
  <2> QED BY <2>3 DEF AccountsInv, UsersSound
<1>3. AccountsDiffer' /\ TokensSound'
  BY DEF AccountsInv, AccountsDiffer, TokensSound
<1> QED BY <1>1, <1>2, <1>3 DEF AccountsInv

LEMMA ListenersKeep ==
  ASSUME AccountsInv, ListenersFinalize \/ \E howMany \in 0 .. Len(Operations) : ListenersInit(howMany)
  PROVE  AccountsInv'
<1>1. UNCHANGED <<users, changes, requests, tokens, accepted, ever>>
  BY DEF ListenersFinalize, ListenersInit
<1>2. CASE ListenersFinalize
  <2>1. ListenersMatch'
    BY <1>2, TakenBackAtEnd DEF ListenersFinalize, AccountsInv, ListenersMatch
  <2> QED BY <1>1, <2>1, QuietKeeps
<1>3. ASSUME NEW howMany \in 0 .. Len(Operations), ListenersInit(howMany) PROVE AccountsInv'
  <2>1. CASE howMany = 4
    <3>1. listening' = Operations /\ database'
      BY <1>3, <2>1, OperationsListed DEF ListenersInit
    <3>2. ListenersMatch'
      BY <3>1 DEF ListenersMatch, Operations
    <3> QED BY <1>1, <3>2, QuietKeeps
  <2>2. CASE howMany # 4
    <3>1. howMany \in 0 .. 3
      BY <2>2, OperationsListed
    <3>2. listening' = << >> /\ ~database'
      BY <1>3, <2>2, <3>1, OperationsListed, TakenBack DEF ListenersInit
    <3>3. ListenersMatch'
      BY <3>2 DEF ListenersMatch
    <3> QED BY <1>1, <3>3, QuietKeeps
  <2> QED BY <2>1, <2>2
<1> QED BY <1>2, <1>3

(* A token made of other parts, or read with another key, is none. *)
Genuine(token, sub, other) ==
  /\ ParseJWT(token).sub = sub
  /\ NQJWT_parse([token EXCEPT ![2] = other], sessionSeckey) # NoJWT => token[2] = other
  /\ NQJWT_parse(SubSeq(token, 1, 2) \o <<NoSignature>>, sessionSeckey) = NoJWT
  /\ NQJWT_parse(token, "other key") = NoJWT
LEMMA Unforged ==
  ASSUME NEW sub \in 0 .. MaxAccepted, NEW day, NEW token, token = TokenOf(sub, day), NEW other, TextsDiffer
  PROVE  Genuine(token, sub, other)
<1> DEFINE header == [alg |-> "HS256", typ |-> "JWT"]
           rest == Claim(Claim(<< >>, "iss", day), "exp", day + OneDay)
           claims == Claim(rest, "sub", Text(sub))
<1>1. claims.sub = Text(sub)
  <2> HIDE DEF rest
  <2> QED BY DEF Claim
<1> HIDE DEF claims
<1>2. token = <<header, claims, <<header, claims, "key">> >>
  BY DEF TokenOf, claims
<1>3. header.alg = "HS256" /\ header.typ = "JWT"
  OBVIOUS
<1> HIDE DEF header
<1>4. Len(token) = 3 /\ token[1] = header /\ token[2] = claims /\ token[3] = <<header, claims, "key">>
  BY <1>2
<1>5. token[3] # NoSignature
  <2>1. Len(<<header, claims, "key">>) = 3 /\ Len(<< >>) = 0
    OBVIOUS
  <2> QED BY <1>4, <2>1 DEF NoSignature
<1>6. NQJWT_parse(token, sessionSeckey).claims = claims
  BY <1>3, <1>4, <1>5 DEF NQJWT_parse, Algorithms, Digest, sessionSeckey
<1>7. ParseJWT(token).sub = sub
  <2>1. ParseJWT(token).sub = NQSimpleStrtoul(Text(sub))
    BY <1>1, <1>6 DEF ParseJWT
  <2>2. NQSimpleStrtoul(Text(sub)) = sub
    BY DEF NQSimpleStrtoul, TextsDiffer
  <2> QED BY <2>1, <2>2
<1>8. ASSUME NQJWT_parse([token EXCEPT ![2] = other], sessionSeckey) # NoJWT PROVE claims = other
  <2> DEFINE t == [token EXCEPT ![2] = other]
  <2>1. t[1] = header /\ t[2] = other /\ t[3] = <<header, claims, "key">>
    BY <1>2, <1>4
  <2> HIDE DEF t
  <2>2. t[3] = Digest(t[1], t[2], sessionSeckey)
    BY <1>3, <1>8, <2>1 DEF NQJWT_parse, t
  <2> QED BY <2>1, <2>2 DEF Digest, sessionSeckey
<1>9. NQJWT_parse(SubSeq(token, 1, 2) \o <<NoSignature>>, sessionSeckey) = NoJWT
  <2> DEFINE t == SubSeq(token, 1, 2) \o <<NoSignature>>
  <2>1. t[1] = header /\ t[3] = NoSignature
    BY <1>2, <1>4
  <2> HIDE DEF t
  <2>2. NQJWT_parse(t, sessionSeckey) = NoJWT
    BY <1>3, <2>1 DEF NQJWT_parse
  <2> QED BY <2>2 DEF t
<1>10. NQJWT_parse(token, "other key") = NoJWT
  <2>1. token[3] # Digest(token[1], token[2], "other key")
    BY <1>4 DEF Digest
  <2> QED BY <1>3, <1>4, <2>1 DEF NQJWT_parse
<1> QED BY <1>4, <1>7, <1>8, <1>9, <1>10 DEF Genuine

LEMMA InvTellsTruth ==
  ASSUME AccountsInv, TextsDiffer
  PROVE  RepliesTellTruth
<1>1. RepliesMatch
  BY DEF AccountsInv, RequestsSound, RequestSound, RepliesMatch, NoRequest
<1>2. TokensMatch
  <2> SUFFICES ASSUME NEW t \in tokens
               PROVE  /\ <<t.sub, t.given>> \in ever /\ ParseJWT(t.token).sub = t.sub
                      /\ \A u \in tokens : NQJWT_parse([t.token EXCEPT ![2] = u.token[2]], sessionSeckey) # NoJWT => t.token[2] = u.token[2]
                      /\ NQJWT_parse(SubSeq(t.token, 1, 2) \o <<NoSignature>>, sessionSeckey) = NoJWT
                      /\ NQJWT_parse(t.token, "other key") = NoJWT
    BY DEF TokensMatch
  <2>1. t.sub \in 0 .. MaxAccepted /\ <<t.sub, t.given>> \in ever
    BY DEF AccountsInv, TokensSound
  <2>2. PICK day : t.token = TokenOf(t.sub, day)
    BY DEF AccountsInv, TokensSound
  <2>3. \A other : Genuine(t.token, t.sub, other)
    BY <2>1, <2>2, Unforged
  <2> QED BY <2>1, <2>3 DEF Genuine
<1>3. ListenersMatch /\ AccountsDiffer
  BY DEF AccountsInv
<1> QED BY <1>1, <1>2, <1>3 DEF RepliesTellTruth

AccountsSpec == StoreInit /\ [][AccountsNext]_accountVars

(* No account yet. *)
LEMMA AccountsStart ==
  ASSUME MaxAccepted \in Nat, StoreInit
  PROVE  AccountsInv
<1>1. RequestsSound
  BY DEF StoreInit, RequestsSound
<1>2. Pending = {}
  BY DEF StoreInit, Pending, Signing, NoRequest
<1>3. NumberedTo(0)
  BY <1>2, FS_EmptySet DEF StoreInit, NumberedTo
<1>4. UsersSound
  BY <1>3 DEF StoreInit, UsersSound
<1>5. TokensSound /\ ListenersMatch /\ AccountsDiffer
  BY DEF StoreInit, TokensSound, ListenersMatch, AccountsDiffer
<1> QED BY <1>1, <1>4, <1>5 DEF AccountsInv

(* A step of any request, of the listeners or of time. *)
LEMMA AccountsSteps ==
  ASSUME IsFiniteSet(Clients), MaxAccepted \in Nat, AccountsInv, [AccountsNext]_accountVars
  PROVE  AccountsInv'
<1>1. ASSUME NEW c \in Clients, NEW op \in Range(Operations), NEW body \in Bodies, NEW token, Receive(c, op, body, token)
      PROVE  AccountsInv'
  BY <1>1, ReceiveKeeps
<1>2. ASSUME NEW c \in Clients, Check(c) \/ LoginPost(c) \/ Permission(c) \/ Changes(c) \/ CommonPostResponse(c) PROVE AccountsInv'
  BY <1>2, CheckKeeps, LoginKeeps, PermissionKeeps, ChangesKeep, ResponseKeeps
<1>3. ASSUME NEW c \in Clients, StatementFails(c) \/ SignupPost(c) \/ UpdatePost(c) \/ DeletePost(c) PROVE AccountsInv'
  BY <1>3, FailKeeps, SignupKeeps, UpdateKeeps, DeleteKeeps
<1>4. ASSUME NEW c \in Clients, CommonPostRelease(c) PROVE AccountsInv'
  BY <1>4, ReleaseKeeps
<1>5. CASE ListenersFinalize \/ \E howMany \in 0 .. Len(Operations) : ListenersInit(howMany)
  BY <1>5, ListenersKeep
<1>6. CASE DayPasses \/ UNCHANGED accountVars
  <2>1. UNCHANGED <<listening, database, users, changes, requests, tokens, accepted, ever>>
    BY <1>6 DEF DayPasses, accountVars
  <2>2. ListenersMatch'
    BY <2>1 DEF AccountsInv, ListenersMatch, Operations
  <2> QED BY <2>1, <2>2, QuietKeeps
<1> QED BY <1>1, <1>2, <1>3, <1>4, <1>5, <1>6 DEF AccountsNext

(* For any finite set of connections and any bodies: a reply says what happened to the
   table, whatever requests and failures come in between, a token names an id that its
   account had and cannot be changed, and no two accounts have an id or a name in common.
   (WebUsersRestExecutor.c, UserDataStore.c, JWT.c.) *)
THEOREM RepliesAreTrue ==
  ASSUME IsFiniteSet(Clients), MaxAccepted \in Nat, TextsDiffer
  PROVE  AccountsSpec => []RepliesTellTruth
<1>1. StoreInit => AccountsInv
  BY AccountsStart
<1>2. AccountsInv /\ [AccountsNext]_accountVars => AccountsInv'
  BY AccountsSteps
<1>3. AccountsInv => RepliesTellTruth
  BY InvTellsTruth
<1> QED BY <1>1, <1>2, <1>3, PTL DEF AccountsSpec
=============================================================================
