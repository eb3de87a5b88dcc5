-------------------------- MODULE MCNetworkLooper --------------------------
(***************************************************************************)
(* Instances of NetworkLooper for TLC, and the abstract specification its  *)
(* dispatches implement, FifoExecutor.  The abstract queues are read off   *)
(* penndingList, where dispatch entries stand among timers and sockets,    *)
(* and off the event the worker holds but has not acted on yet.            *)
(***************************************************************************)
EXTENDS NetworkLooper

MCForever == -1
MCOnTime == {1}
AnyThread == Operations
NoClear == Operations \ {"clearTimer"}
JustAdd == {"addSocket"}
OnlyDispatch == {"dispatch"}
MCRepeat == {1, 2}
-----------------------------------------------------------------------------
Item(i) == [u |-> dispatched[i].u, destroy |-> dispatched[i].destroy]

Holds(event) == cur.event = event /\ pc = "event"
Runs(event) == cur.event = event /\ pc = "callback"
Held(event) == IF Holds(event) THEN <<Item(cur.i)>> ELSE <<>>

Queued(state) ==
  LET there(node) == /\ node.kind = "dispatch" /\ dispatched[node.i].state = state
                     /\ ~(cur.event = "dispatchAction" /\ cur.i = node.i)
      nodes == SelectSeq(pending, there)
  IN [k \in DOMAIN nodes |-> Item(nodes[k].i)]

waiting == Held("dispatchAction") \o Queued("Used")
running == IF Runs("dispatchAction") THEN Item(cur.i) ELSE [u |-> 0, destroy |-> FALSE]
owed == Held("dispatchDestroy") \o SelectSeq(Queued("Action"), LAMBDA w : w.destroy)

Fifo == INSTANCE FifoExecutor WITH Work <- 1 .. MaxReg

(* Work runs in the order it was dispatched in, once, and is released after it; *)
(* while the worker keeps running, no work waits for ever.                      *)
DispatchIsFifo == Fifo!Fair

=============================================================================
