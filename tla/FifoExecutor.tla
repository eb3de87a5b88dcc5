---------------------------- MODULE FifoExecutor ----------------------------
(***************************************************************************)
(* What dispatching work to a loop promises: one piece of work runs at a   *)
(* time, in the order of dispatch, once each, and when its owner asked for *)
(* it, its userdata is released after it ran, in the same order, while     *)
(* nothing else runs.                                                      *)
(***************************************************************************)
EXTENDS Naturals, Sequences

CONSTANT Work

VARIABLES
  waiting,   \* dispatched and not started: records [u, destroy]
  running,   \* what runs, or Idle
  owed       \* ran, and its destroy handler has not been called

vars == <<waiting, running, owed>>

Idle == [u |-> 0, destroy |-> FALSE]
Items == [u : Work, destroy : BOOLEAN]

Init == waiting = <<>> /\ running = Idle /\ owed = <<>>

Submit(w) ==
  /\ waiting' = Append(waiting, w)
  /\ UNCHANGED <<running, owed>>

Start ==
  /\ running = Idle /\ waiting # <<>>
  /\ running' = Head(waiting) /\ waiting' = Tail(waiting)
  /\ UNCHANGED owed

Finish ==
  /\ running # Idle
  /\ running' = Idle
  /\ owed' = IF running.destroy THEN Append(owed, running) ELSE owed
  /\ UNCHANGED waiting

Release ==
  /\ running = Idle /\ owed # <<>>
  /\ owed' = Tail(owed)
  /\ UNCHANGED <<waiting, running>>

Next == (\E w \in Items : Submit(w)) \/ Start \/ Finish \/ Release

Spec == Init /\ [][Next]_vars
Fair == Spec /\ WF_vars(Start \/ Finish \/ Release)

=============================================================================
