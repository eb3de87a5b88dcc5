------------------------------ MODULE TimerSet ------------------------------
(***************************************************************************)
(* What a queue of timers promises its loop: a timer that is started has   *)
(* an identifier no other running timer has; the one that expires is due   *)
(* and no running timer is due before it; an interval runs on, due one     *)
(* period later; a stopped timer is gone, and nothing else is touched.     *)
(***************************************************************************)
EXTENDS Integers

CONSTANTS
  Id,      \* identifiers
  Starts,  \* timers callers may start: records [due, every, data]
  Times    \* times at which the loop asks what has expired

VARIABLE timers   \* the running timers: a function from identifiers

vars == timers

Without(f, id) == [i \in DOMAIN f \ {id} |-> f[i]]
With(f, id, t) == [i \in DOMAIN f \cup {id} |-> IF i = id THEN t ELSE f[i]]

Init == timers = [i \in {} |-> 0]

Start(id, t) ==
  /\ id \notin DOMAIN timers
  /\ timers' = With(timers, id, t)

\* "every" is 0 for a timer that expires once.
Expire(id, time) ==
  /\ timers[id].due <= time
  /\ \A i \in DOMAIN timers : timers[id].due <= timers[i].due
  /\ LET t == timers[id] IN
     timers' = IF t.every = 0 THEN Without(timers, id)
                              ELSE With(timers, id, [t EXCEPT !.due = @ + t.every])

Stop(id) == timers' = Without(timers, id)

Next ==
  \/ \E id \in Id, t \in Starts : Start(id, t)
  \/ \E id \in DOMAIN timers, time \in Times : Expire(id, time)
  \/ \E id \in DOMAIN timers : Stop(id)

Spec == Init /\ [][Next]_vars

=============================================================================
