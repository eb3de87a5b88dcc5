---------------------------- MODULE Application ----------------------------
(***************************************************************************)
(* NQApplication: run on the calling thread or on a worker of its own, told *)
(* apart by mode, and finalized by the caller, who waits for a worker. The  *)
(* event target belongs to the thread that dispatches, and its callbacks    *)
(* may add and remove listeners. dispatch(), which ends when the main loop  *)
(* is stopped, and the callbacks are the application's.                     *)
(***************************************************************************)
EXTENDS Naturals, Sequences, SequencesExt, FiniteSets

CONSTANTS Callbacks,  \* the listeners' callbacks
          MaxEvents,  \* how many events are dispatched
          MaxAdded    \* how many listeners are ever added

VARIABLES mode,       \* "none", "sync" or "async"
          running,    \* told by the worker under the mutex
          destroyed,
          caller,     \* where the thread is that runs and finalizes
          worker,     \* where the worker is, or the caller in its stead
          usable,     \* the mutex, the condition and the listeners are there
          misused,    \* they were used when they were not
          done,       \* what happened to the application: create, dispatch, destroy, finalize
          dispatched, \* how many events were dispatched
          listeners,  \* of the event target, the last added first: [id, callback]
          dispatching,\* [next, called, kept]: what is called next, who was, who was there all along
          added       \* how many listeners were added
appVars == <<mode, running, destroyed, caller, worker, usable, misused, done, dispatched, listeners, dispatching, added>>

None == [next |-> << >>, called |-> << >>, kept |-> {}]
AppInit ==
  /\ mode = "none" /\ running = FALSE /\ destroyed = FALSE
  /\ caller = "initialized" /\ worker = "none"
  /\ usable = TRUE /\ misused = FALSE
  /\ done = << >> /\ dispatched = 0
  /\ listeners = << >> /\ dispatching = None /\ added = 0

Uses == misused' = (misused \/ ~usable)
Does(what) == done' = Append(done, what)
eventVars == <<dispatched, listeners, dispatching, added>>

(* NQApplication_run. A thread that cannot be created is a null pointer to
   NQThread_detach; it is taken to be created. *)
Run(async) ==
  /\ caller = "initialized"
  /\ mode' = IF async THEN "async" ELSE "sync"
  /\ caller' = "running" /\ worker' = "creating"
  /\ UNCHANGED <<running, destroyed, usable, misused, done, eventVars>>

(* The callbacks, and in between dispatch(). *)
DoCreate ==
  /\ worker = "creating"
  /\ worker' = IF mode = "async" THEN "created" ELSE "dispatching"
  /\ Does("create")
  /\ UNCHANGED <<mode, running, destroyed, caller, usable, misused, eventVars>>

TellsRunning ==
  /\ worker = "created"
  /\ running' = TRUE /\ worker' = "dispatching"
  /\ Uses
  /\ UNCHANGED <<mode, destroyed, caller, usable, done, eventVars>>

Dispatched ==
  /\ worker = "dispatching" /\ dispatching = None
  /\ worker' = "destroying"
  /\ Does("dispatch")
  /\ UNCHANGED <<mode, running, destroyed, caller, usable, misused, eventVars>>

DoDestroy ==
  /\ worker = "destroying"
  /\ worker' = IF mode = "async" THEN "destroyed" ELSE "over"
  /\ Does("destroy")
  /\ UNCHANGED <<mode, running, destroyed, caller, usable, misused, eventVars>>

TellsDestroyed ==
  /\ worker = "destroyed"
  /\ destroyed' = TRUE /\ worker' = "over"
  /\ Uses
  /\ UNCHANGED <<mode, running, caller, usable, done, eventVars>>

(* What the caller waits for in NQApplication_run and NQApplication_finalize. *)
MayReturn == IF mode = "async" THEN running ELSE worker = "over"
MayFinalize == mode = "async" => destroyed

RunReturns ==
  /\ caller = "running" /\ MayReturn
  /\ caller' = "returned"
  /\ UNCHANGED <<mode, running, destroyed, worker, usable, misused, done, eventVars>>

Finalize ==
  /\ caller \in {"initialized", "returned"} /\ MayFinalize
  /\ caller' = "finalized" /\ usable' = FALSE
  /\ Does("finalize")
  /\ listeners' = << >>
  /\ UNCHANGED <<mode, running, destroyed, worker, misused, dispatched, dispatching, added>>

-----------------------------------------------------------------------------

(* NQEventTarget_addEventListener and _removeEventListener, by the dispatching
   thread, in a callback or not: the first with the callback goes. A listener is all
   there, although the code allocates the size of a pointer to it. *)
AddListener(callback) ==
  /\ worker = "dispatching" /\ added < MaxAdded
  /\ added' = added + 1
  /\ listeners' = <<[id |-> added + 1, callback |-> callback]>> \o listeners
  /\ UNCHANGED <<mode, running, destroyed, caller, worker, usable, misused, done, dispatched, dispatching>>

FirstWith(callback) == SelectInSeq(listeners, LAMBDA l : l.callback = callback)
RemoveListener(callback) ==
  /\ worker = "dispatching" /\ FirstWith(callback) # 0
  /\ LET gone == listeners[FirstWith(callback)]
     IN /\ listeners' = RemoveAt(listeners, FirstWith(callback))
        /\ dispatching' = [dispatching EXCEPT !.kept = @ \ {gone.id}]
  /\ UNCHANGED <<mode, running, destroyed, caller, worker, usable, misused, done, dispatched, added>>

(* NQEventTarget_dispatchEvent. next is the listener whose callback runs. *)
DispatchEvent ==
  /\ worker = "dispatching" /\ dispatching = None /\ listeners # << >>
  /\ dispatched < MaxEvents /\ dispatched' = dispatched + 1
  /\ dispatching' = [next |-> <<Head(listeners)>>, called |-> <<Head(listeners).id>>,
                     kept |-> {listeners[i].id : i \in DOMAIN listeners}]
  /\ UNCHANGED <<mode, running, destroyed, caller, worker, usable, misused, done, listeners, added>>

After(l) == LET at == SelectInSeq(listeners, LAMBDA k : k = l)
            IN IF at = 0 \/ at = Len(listeners) THEN << >> ELSE <<listeners[at + 1]>>

(* The callback returned; next is read from the listener afterwards. One that was
   removed meanwhile may still say what it said, or anything: the walk may end. *)
CallNext ==
  /\ dispatching # None
  /\ LET next == After(Head(dispatching.next))
     IN dispatching' = IF next = << >> THEN None
                       ELSE [dispatching EXCEPT !.next = next, !.called = Append(@, Head(next).id)]
  /\ UNCHANGED <<mode, running, destroyed, caller, worker, usable, misused, done, dispatched, listeners, added>>

CancelBubble ==
  /\ dispatching # None /\ dispatching' = None
  /\ UNCHANGED <<mode, running, destroyed, caller, worker, usable, misused, done, dispatched, listeners, added>>

WorkerStep == DoCreate \/ TellsRunning \/ Dispatched \/ DoDestroy \/ TellsDestroyed \/ CallNext
AppNext ==
  \/ \E async \in BOOLEAN : Run(async)
  \/ WorkerStep \/ RunReturns \/ Finalize
  \/ \E callback \in Callbacks : AddListener(callback) \/ RemoveListener(callback)
  \/ DispatchEvent \/ CancelBubble

(* Callbacks return, and the main loop is left at last. *)
AppFairness == WF_appVars(WorkerStep) /\ WF_appVars(RunReturns) /\ WF_appVars(caller = "returned" /\ Finalize)
AppSpec == AppInit /\ [][AppNext]_appVars /\ AppFairness

-----------------------------------------------------------------------------

(* Whoever runs it: create, dispatch, destroy, finalize, in that order; run returns
   to the caller with the application created, and nothing of it is used once it
   is finalized. *)
AppLifecycle ==
  /\ IsPrefix(done, <<"create", "dispatch", "destroy", "finalize">>) \/ done = <<"finalize">>
  /\ caller = "returned" => "create" \in Range(done)
  /\ ~misused

(* A walk that ends of itself has called each listener that was there all along,
   unless the one whose callback ran had been removed. *)
ListenersCalled ==
  /\ IsInjective(dispatching.called)
  /\ dispatching # None /\ Head(dispatching.next) \in Range(listeners) /\ After(Head(dispatching.next)) = << >> =>
       dispatching.kept \subseteq Range(dispatching.called)

(* An application that was run is finalized. *)
Ended == caller # "running" /\ caller # "returned"
AppEnds == []<>Ended
=============================================================================
