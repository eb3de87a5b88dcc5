--------------------------- MODULE DispatchQueue ---------------------------
(***************************************************************************)
(* libnetq/DispatchQueue.c: the work callers give a Looper.  Entries come  *)
(* from the free list, or from malloc while fewer than                     *)
(* NQ_DISPATCH_QUEUE_MAX exist.  Nothing puts an entry back: total counts  *)
(* every push that found the free list empty.  No malloc fails here.       *)
(***************************************************************************)
EXTENDS Integers, Sequences

CONSTANTS
  Capacity,   \* argument of create: entries on the free list from the start
  QueueMax    \* NQ_DISPATCH_QUEUE_MAX

ASSUME QueueAssumption == /\ QueueMax \in Nat \ {0}
                          /\ Capacity \in 0 .. QueueMax

VARIABLES
  workList,   \* what the entries of workList hold, in order
  freeCount,  \* the length of freeList: its entries hold nothing
  size, total

dispatchVars == <<workList, freeCount, size, total>>

DispatchInit ==
  /\ workList = <<>>
  /\ freeCount = Capacity /\ size = 0 /\ total = Capacity

\* Wrong variants, to show which property notices.
AtTheFront(work, data) == <<data>> \o work
StaysQueued(work) == work

Queued(work, data) == Append(work, data)
Rest(work) == Tail(work)

PushRefused == freeCount = 0 /\ QueueMax <= total + 1

Push(data) ==
  /\ ~PushRefused
  /\ IF freeCount = 0 THEN total' = total + 1 /\ UNCHANGED freeCount
                      ELSE freeCount' = freeCount - 1 /\ UNCHANGED total
  /\ workList' = Queued(workList, data)
  /\ size' = size + 1

(* NQDispatchQueue_shift, and what performOnce and cleanOnce do to the queue   *)
(* before they call the handlers; the data is Head(workList).                  *)
Shift ==
  /\ workList # <<>>
  /\ workList' = Rest(workList)
  /\ size' = size - 1
  /\ UNCHANGED <<freeCount, total>>

(* What the assertions in shiftEntry say: size counts the work that waits.     *)
SizeCounts == size = Len(workList)

=============================================================================
