------------------------------- MODULE DescSet -------------------------------
(***************************************************************************)
(* A set of descriptors: entries handed out under identifiers that are an   *)
(* index with random bits above it, drawn anew each time, so that the       *)
(* identifier of an entry given back is not taken for the next one's.       *)
(***************************************************************************)
EXTENDS Integers, Sequences, FiniteSets, SequencesExt

CONSTANTS Num,      \* how many entries there are
          Serials,  \* what may be drawn: 0 .. maxId \div NQ_DESC_NUM_MAX
          MaxAllocs \* how many are ever handed out

VARIABLES allocList, freeList,  \* of indices
          ids,      \* of each entry: [index, serial]
          free,     \* NQ_DESC_FREE_FLAG of each entry
          out,      \* the identifiers handed out and not given back
          before,   \* of each entry: what identified it the last time
          allocs
descVars == <<allocList, freeList, ids, free, out, before, allocs>>

Indices == 0 .. Num - 1
Id(index, serial) == [index |-> index, serial |-> serial]
NQ_DESC_INVALID == Id(0, 0)

DescInit ==
  /\ allocList = << >> /\ freeList = [k \in 1 .. Num |-> k - 1]
  /\ ids = [i \in Indices |-> Id(i, 0)] /\ free = [i \in Indices |-> TRUE]
  /\ out = {} /\ before = ids /\ allocs = 0

(* makeIdentifier: 0 is drawn again only for the entry that has it; for others the
   result is 0 without their index. *)
Drawn(id) == { IF serial = 0 THEN NQ_DESC_INVALID ELSE Id(id.index, serial) : serial \in Serials } \ {id}

NQDescSet_allocEntry(id) ==
  /\ freeList # << >> /\ allocs < MaxAllocs
  /\ LET entry == Head(freeList)
     IN /\ id \in Drawn(ids[entry])
        /\ ids' = [ids EXCEPT ![entry] = id]
        /\ before' = [before EXCEPT ![entry] = ids[entry]]
        /\ free' = [free EXCEPT ![entry] = FALSE]
        /\ allocList' = Append(allocList, entry)
  /\ freeList' = Tail(freeList)
  /\ out' = out \cup ({id} \ {NQ_DESC_INVALID})
  /\ allocs' = allocs + 1

(* A slip the code could have made: the serial is not compared. *)
FindIndex(id) == id.index
Find(id) == IF ids[id.index] = id THEN id.index ELSE Num
NQDescSet_hasEntry(id) == Find(id) # Num /\ ~free[Find(id)]
NQDescSet_releaseEntry(id) ==
  /\ NQDescSet_hasEntry(id)
  /\ LET entry == Find(id)
     IN /\ allocList' = RemoveAt(allocList, SelectInSeq(allocList, LAMBDA e : e = entry))
        /\ freeList' = Append(freeList, entry)
        /\ free' = [free EXCEPT ![entry] = TRUE]
  /\ out' = out \ {id}
  /\ UNCHANGED <<ids, before, allocs>>

DescNext ==
  \/ \E index \in Indices, serial \in Serials : NQDescSet_allocEntry(Id(index, serial))
  \/ \E id \in out : NQDescSet_releaseEntry(id)
DescSpec == DescInit /\ [][DescNext]_descVars

-----------------------------------------------------------------------------

(* What was handed out is found, and is its own entry; what identified an entry the
   last time is not found any more. Each entry is in the list its flag says. An
   entry is lost only by an identifier that says there is none.
   (NQDescSet_allocEntry, makeIdentifier, NQDescSet_findEntry.) *)
DescriptorsFound ==
  /\ \A id \in out : NQDescSet_hasEntry(id)
  /\ \A i \in Indices : before[i] # ids[i] => ~NQDescSet_hasEntry(before[i]) \/ before[i] = NQ_DESC_INVALID
  /\ { e \in Indices : free[e] } = ToSet(freeList) /\ { e \in Indices : ~free[e] } = ToSet(allocList)
  /\ Len(freeList) + Len(allocList) = Num
  /\ Cardinality(out) = Cardinality({ e \in ToSet(allocList) : ids[e] # NQ_DESC_INVALID })
=============================================================================
