-------------------------- MODULE MCServicesProofs --------------------------
(***************************************************************************)
(* What the run Services says of its parts holds for all bounds of its      *)
(* configuration: ServiceProofs and ApplicationProofs with their variables  *)
(* in the registers.                                                       *)
(***************************************************************************)
EXTENDS MCServices, TLAPS

Proved == INSTANCE ServiceProofs
  WITH Takers <- {"t1", "t2"}, Givers <- {"g1", "g2"}, Timed <- {"t1", "t2"},
       waitersGone <- r1, waitersBlocked <- r2, waitersToUnblock <- r3, blockLock <- r4, blockQueue <- r5,
       unblockLock <- r6, mutex <- r7, tokens <- r8, timeouts <- r9, process <- r10,
       flags <- r1, memory <- r2, owner <- r3, thread <- r4, frees <- r5, stray <- r6,
       Threads <- {"s", "t"}, MaxInput <- 2, session <- r1, outputList <- r2, frames <- r3, sending <- r4, wakeup <- r5,
       events <- r6, action <- r7, handle <- r8, input <- r9, sent <- r10, calls <- r11,
       MaxConn <- 2, MaxBuffers <- 2, MaxAccepts <- 3, active <- r1, free <- r2, state <- r3, queue <- r4, batch <- r5,
       phase <- r6, received <- r7, taken <- r8, told <- r9, sockets <- r10, failed <- r11, accepted <- r12

Application == INSTANCE ApplicationProofs
  WITH Loaders <- {"s", "t"}, Paths <- {"p", "q"}, MaxEntries <- 3, Notifiers <- {"n", "o"},
       modulesList <- r1, entries <- r2, loader <- r3, loaded <- r4, inits <- r5, notifiers <- r6, last <- r7,
       Callbacks <- {"f", "g"}, MaxEvents <- 1, mode <- r1, running <- r2, destroyed <- r3, caller <- r4, worker <- r5,
       usable <- r6, misused <- r7, done <- r8, listeners <- r9, dispatching <- r10, added <- r11, dispatched <- r12,
       Capacity <- 1, MaxLines <- 1, items <- r1, isFull <- r2, position <- r3, printed <- r4, allocated <- r5,
       Num <- 1, Serials <- {0, 1}, MaxAllocs <- 1, allocList <- r1, freeList <- r2, ids <- r3, free <- r4, out <- r5,
       before <- r6, allocs <- r7,
       Clients <- {"c", "d"}, Bodies <- RequestBodies, Owners <- {1, 2},
       listening <- r1, database <- r2, users <- r3, requests <- r4, tokens <- r5, now <- r6, accepted <- r7, ever <- r8, files <- r9, writes <- r10, changes <- r11

(* The run's specification makes the steps of a session in the part "socket".  *)
SessionPart == part = "socket" => Proved!SessionInv

(* A step of the part is one of the module the proof is about. *)
LEMMA SocketSteps ==
  ASSUME Socket!SessionNext
  PROVE  Proved!SessionNext
  BY DEF Socket!SessionNext, Proved!SessionNext,
    Socket!Open, Proved!Open, Socket!AddSocket, Proved!AddSocket, Socket!AddSocketFails, Proved!AddSocketFails,
    Socket!Send, Proved!Send, Socket!Queued, Proved!Queued, Socket!Wake, Proved!Wake, Socket!Failed, Proved!Failed,
    Socket!Round, Proved!Round, Socket!EndSession, Proved!EndSession, Socket!NothingCame, Proved!NothingCame,
    Socket!Receive, Proved!Receive, Socket!ReceiveFails, Proved!ReceiveFails, Socket!Answer, Proved!Answer,
    Socket!Check, Proved!Check, Socket!Requested, Proved!Requested, Socket!TakeOutput, Proved!TakeOutput,
    Socket!Write, Proved!Write, Socket!WriteFails, Proved!WriteFails, Socket!HangUp, Proved!HangUp,
    Socket!Polling, Proved!Polling, Socket!NoEntry, Proved!NoEntry

(* No step but a session's makes the part a session. *)
LEMMA OtherSteps ==
  ASSUME SessionPart, Next, ~SocketStep
  PROVE  SessionPart'
<1>1. part' = part /\ part # "socket"
  BY DEF Next, WebStep, CondStep, ThreadStep, AppStep, ModulesStep, SpyStep, AccountsStep, FilesStep, PagesStep
<1> QED BY <1>1 DEF SessionPart

(* SessionSound of the run: a web socket's frames go out in order, output is   *)
(* seen, callbacks come in order (web/mhd/WebServerOperations.c).              *)
THEOREM SessionPartIsSound == Spec => []SessionSound
<1>1. Init => SessionPart
  <2> SUFFICES ASSUME Init, part = "socket" PROVE Proved!SessionInv
    BY DEF SessionPart
  <2>1. Socket!SessionInit
    BY DEF Init
  <2>2. Proved!SessionInit
    BY <2>1 DEF Socket!SessionInit, Proved!SessionInit, Socket!Polling, Proved!Polling, Socket!NoEntry, Proved!NoEntry
  <2> QED BY <2>2, Proved!SessionStarts
<1>2. SessionPart /\ [Next]_vars => SessionPart'
  <2> SUFFICES ASSUME SessionPart, [Next]_vars PROVE SessionPart'
    OBVIOUS
  <2>1. CASE SocketStep
    <3>1. part = "socket" /\ part' = part /\ Proved!SessionNext
      BY <2>1, SocketSteps DEF SocketStep
    <3> QED BY <3>1, Proved!SessionSteps DEF SessionPart
  <2>2. CASE Next /\ ~SocketStep
    BY <2>2, OtherSteps
  <2>3. CASE UNCHANGED vars
    <3>1. part' = part /\ UNCHANGED registers
      BY <2>3 DEF vars
    <3>2. UNCHANGED Proved!sessionVars
      BY <3>1 DEF registers, Proved!sessionVars
    <3> QED BY <3>1, <3>2, Proved!SessionSteps DEF SessionPart
  <2> QED BY <2>1, <2>2, <2>3
<1>3. SessionPart => SessionSound
  <2> SUFFICES ASSUME SessionPart, part = "socket"
               PROVE  Socket!OutputInOrder /\ Socket!OutputIsSeen /\ Socket!CallbackOrder
    BY DEF SessionSound
  <2>1. Proved!OutputInOrder /\ Proved!OutputIsSeen /\ Proved!CallbackOrder
    BY Proved!InvIsSound DEF SessionPart
  <2> QED BY <2>1 DEF Socket!OutputInOrder, Proved!OutputInOrder, Socket!OutputIsSeen, Proved!OutputIsSeen,
             Socket!CallbackOrder, Proved!CallbackOrder, Socket!NoEntry, Proved!NoEntry
<1> QED BY <1>1, <1>2, <1>3, PTL DEF Spec

-----------------------------------------------------------------------------

(* The parts whose modules are proved: the clients of a condition, a thread and its
   owner, the application, the modules, the proxy, the accounts, the files. *)
PartsInv ==
  /\ part = "cond" => Proved!CondInv
  /\ part = "thread" => Proved!ThreadInv
  /\ part = "app" => Application!AppInv
  /\ part = "modules" => Application!ModulesInv
  /\ part = "spy" => Proved!SpyInv
  /\ part = "accounts" => Application!AccountsInv
  /\ part = "files" => Application!FilesInv

(* The bounds as the code justifies them: MaxGone is the limit of waitersGone, INT_MAX / 2;
   the text of an id is read back as that id. *)
BoundsAreGood == MaxGone \in Nat \ {0} /\ MaxAccepted \in Nat /\ Application!TextsDiffer

(* The run's clients are threads, and finitely many. *)
LEMMA RunsClients ==
  ASSUME BoundsAreGood
  PROVE  Proved!ClientsAreThreads
<1>1. Proved!IsFiniteSet({"t1", "t2"})
  <2>1. Proved!IsFiniteSet({})
    BY Proved!FS_EmptySet
  <2>2. Proved!IsFiniteSet({} \cup {"t1"})
    BY <2>1, Proved!FS_AddElement
  <2>3. Proved!IsFiniteSet(({} \cup {"t1"}) \cup {"t2"})
    BY <2>2, Proved!FS_AddElement
  <2>4. ({} \cup {"t1"}) \cup {"t2"} = {"t1", "t2"}
    OBVIOUS
  <2> QED BY <2>3, <2>4
<1> QED BY <1>1 DEF BoundsAreGood, Proved!ClientsAreThreads, Proved!NoOne

(* The run's loaders and its connections are finitely many. *)
LEMMA TwoAreFinite ==
  ASSUME NEW a, NEW b
  PROVE  Application!IsFiniteSet({a, b})
<1>1. Application!IsFiniteSet({})
  BY Application!FS_EmptySet
<1>2. Application!IsFiniteSet({} \cup {a})
  BY <1>1, Application!FS_AddElement
<1>3. Application!IsFiniteSet(({} \cup {a}) \cup {b})
  BY <1>2, Application!FS_AddElement
<1>4. ({} \cup {a}) \cup {b} = {a, b}
  OBVIOUS
<1> QED BY <1>3, <1>4

LEMMA RunsLoaders == Application!IsFiniteSet({"s", "t"})
BY TwoAreFinite

LEMMA RunsConnections == Application!IsFiniteSet({"c", "d"})
BY TwoAreFinite

(* A client's step is one of the module the proof is about, and so below. *)
LEMMA ClientSteps ==
  ASSUME Cond!CondNext
  PROVE  Proved!CondNext
<1> USE DEF Cond!At, Proved!At, Cond!Go, Proved!Go, Cond!NoOne, Proved!NoOne, Cond!counters, Proved!counters
<1>1. ASSUME NEW p, Cond!Lock(p) PROVE Proved!Lock(p)
  BY <1>1 DEF Cond!Lock, Proved!Lock
<1>2. ASSUME NEW t, Cond!Test(t) \/ Cond!EnterGate(t) \/ Cond!LeaveGate(t) \/ Cond!LeaveMutex(t)
      PROVE  Proved!Test(t) \/ Proved!EnterGate(t) \/ Proved!LeaveGate(t) \/ Proved!LeaveMutex(t)
  BY <1>2 DEF Cond!Test, Proved!Test, Cond!EnterGate, Proved!EnterGate, Cond!LeaveGate, Proved!LeaveGate,
     Cond!LeaveMutex, Proved!LeaveMutex
<1>3. ASSUME NEW t, Cond!Woken(t) \/ Cond!TimesOut(t) PROVE Proved!Woken(t) \/ Proved!TimesOut(t)
  BY <1>3 DEF Cond!Woken, Proved!Woken, Cond!TimesOut, Proved!TimesOut
<1>4. ASSUME NEW t, Cond!Leave(t) PROVE Proved!Leave(t)
  BY <1>4 DEF Cond!Leave, Proved!Leave
<1>5. ASSUME NEW t, Cond!Settle(t) \/ Cond!Left(t) \/ Cond!OpenGate(t) PROVE Proved!Settle(t) \/ Proved!Left(t) \/ Proved!OpenGate(t)
  BY <1>5 DEF Cond!Settle, Proved!Settle, Cond!Left, Proved!Left, Cond!OpenGate, Proved!OpenGate
<1>6. ASSUME NEW g, NEW all, NEW late, Cond!Give(g, all, late) PROVE Proved!Give(g, all, late)
  BY <1>6 DEF Cond!Give, Proved!Give
<1>7. ASSUME NEW g, Cond!Signal(g) \/ Cond!Nothing(g) PROVE Proved!Signal(g) \/ Proved!Nothing(g)
  BY <1>7 DEF Cond!Signal, Proved!Signal, Cond!Nothing, Proved!Nothing
<1>8. ASSUME NEW g, Cond!More(g) \/ Cond!CloseGate(g) PROVE Proved!More(g) \/ Proved!CloseGate(g)
  BY <1>8 DEF Cond!More, Proved!More, Cond!CloseGate, Proved!CloseGate, Cond!Issued, Proved!Issued
<1>9. ASSUME NEW g, Cond!Issue(g) \/ Cond!Release(g) \/ Cond!Unlock(g) PROVE Proved!Issue(g) \/ Proved!Release(g) \/ Proved!Unlock(g)
  BY <1>9 DEF Cond!Issue, Proved!Issue, Cond!Release, Proved!Release, Cond!Unlock, Proved!Unlock
<1> QED BY <1>1, <1>2, <1>3, <1>4, <1>5, <1>6, <1>7, <1>8, <1>9
     DEF Cond!CondNext, Proved!CondNext, Cond!TakerStep, Proved!TakerStep, Cond!GiverStep, Proved!GiverStep,
         Cond!GiverGoesOn, Proved!GiverGoesOn

(* The same of a thread and its owner. *)
LEMMA ThreadPartSteps ==
  ASSUME Thread!ThreadNext
  PROVE  Proved!ThreadNext
  BY DEF Thread!ThreadNext, Proved!ThreadNext, Thread!Create, Proved!Create, Thread!LetGo, Proved!LetGo,
    Thread!Detach, Proved!Detach, Thread!Join, Proved!Join, Thread!Joined, Proved!Joined,
    Thread!Destroy, Proved!Destroy, Thread!OwnerFrees, Proved!OwnerFrees, Thread!Start, Proved!Start,
    Thread!DestroySelf, Proved!DestroySelf, Thread!Exit, Proved!Exit, Thread!DestroyAtExit, Proved!DestroyAtExit,
    Thread!ThreadFrees, Proved!ThreadFrees, Thread!EntryStep, Proved!EntryStep, Thread!Uses, Proved!Uses,
    Thread!Frees, Proved!Frees, Thread!State, Proved!State, Thread!SetState, Proved!SetState,
    Thread!UnlessExited, Proved!UnlessExited, Thread!Destroyed, Proved!Destroyed, Thread!Exited, Proved!Exited

(* The two readings of the list of listeners agree. *)
LEMMA SameListeners ==
  ASSUME NEW x
  PROVE  App!FirstWith(x) = Application!FirstWith(x) /\ App!After(x) = Application!After(x)
<1>1. App!FirstWith(x) = Application!FirstWith(x)
  BY DEF App!FirstWith, Application!FirstWith, App!SelectInSeq, Application!SelectInSeq, App!Min, Application!Min
<1>2. App!After(x) = Application!After(x)
  BY DEF App!After, Application!After, App!SelectInSeq, Application!SelectInSeq, App!Min, Application!Min
<1> QED BY <1>1, <1>2

(* The same of the application. *)
LEMMA AppPartSteps ==
  ASSUME App!AppNext
  PROVE  Application!AppNext
<1> USE DEF App!eventVars, Application!eventVars, App!None, Application!None, App!Does, Application!Does,
      App!Uses, Application!Uses
<1>1. ASSUME NEW async, App!Run(async) PROVE Application!Run(async)
  BY <1>1 DEF App!Run, Application!Run
<1>2. ASSUME App!DoCreate \/ App!TellsRunning \/ App!Dispatched \/ App!DoDestroy \/ App!TellsDestroyed
      PROVE  Application!DoCreate \/ Application!TellsRunning \/ Application!Dispatched \/ Application!DoDestroy
             \/ Application!TellsDestroyed
  BY <1>2 DEF App!DoCreate, Application!DoCreate, App!TellsRunning, Application!TellsRunning,
     App!Dispatched, Application!Dispatched, App!DoDestroy, Application!DoDestroy,
     App!TellsDestroyed, Application!TellsDestroyed
<1>3. ASSUME App!RunReturns \/ App!Finalize PROVE Application!RunReturns \/ Application!Finalize
  BY <1>3 DEF App!RunReturns, Application!RunReturns, App!Finalize, Application!Finalize,
     App!MayReturn, Application!MayReturn, App!MayFinalize, Application!MayFinalize
<1>4. ASSUME NEW c, App!AddListener(c) PROVE Application!AddListener(c)
  BY <1>4 DEF App!AddListener, Application!AddListener
<1>5. ASSUME NEW c, App!RemoveListener(c) PROVE Application!RemoveListener(c)
  BY <1>5, SameListeners DEF App!RemoveListener, Application!RemoveListener, App!RemoveAt, Application!RemoveAt
<1>6. ASSUME App!DispatchEvent \/ App!CancelBubble PROVE Application!DispatchEvent \/ Application!CancelBubble
  BY <1>6 DEF App!DispatchEvent, Application!DispatchEvent, App!CancelBubble, Application!CancelBubble
<1>7. ASSUME App!CallNext PROVE Application!CallNext
  <2>1. App!After(Head(r10.next)) = Application!After(Head(r10.next))
    BY SameListeners
  <2>2. PICK next : next = App!After(Head(r10.next))
    OBVIOUS
  <2>3. /\ r10 # [next |-> << >>, called |-> << >>, kept |-> {}]
        /\ r10' = IF next = << >> THEN [next |-> << >>, called |-> << >>, kept |-> {}]
                  ELSE [r10 EXCEPT !.next = next, !.called = Append(@, Head(next).id)]
        /\ UNCHANGED <<r1, r2, r3, r4, r5, r6, r7, r8, r12, r9, r11>>
    BY <1>7, <2>2 DEF App!CallNext
  <2> QED BY <2>1, <2>2, <2>3 DEF Application!CallNext
<1> QED BY <1>1, <1>2, <1>3, <1>4, <1>5, <1>6, <1>7
     DEF App!AppNext, Application!AppNext, App!WorkerStep, Application!WorkerStep

(* The same of the loaders of modules. *)
LEMMA ModulePartSteps ==
  ASSUME Modules!LoadNext
  PROVE  Application!LoadNext
<1> USE DEF Modules!At, Application!At, Modules!Goes, Application!Goes, Modules!Idle, Application!Idle,
      Modules!Held, Application!Held, Modules!NeedsToOpen, Application!NeedsToOpen
<1>1. ASSUME NEW path PROVE Modules!Found(path) = Application!Found(path)
  BY DEF Modules!Found, Application!Found, Modules!SelectInSeq, Application!SelectInSeq, Modules!Min, Application!Min
<1>2. ASSUME NEW t, NEW path, Modules!Load(t, path) PROVE Application!Load(t, path)
  BY <1>1, <1>2 DEF Modules!Load, Application!Load
<1>3. ASSUME NEW t, Modules!Insert(t) PROVE Application!Insert(t)
  BY <1>1, <1>3 DEF Modules!Insert, Application!Insert, Modules!FoundAgain, Application!FoundAgain
<1>4. ASSUME NEW t, Modules!Allocate(t) \/ Modules!AllocateFails(t) PROVE Application!Allocate(t) \/ Application!AllocateFails(t)
  BY <1>4 DEF Modules!Allocate, Application!Allocate, Modules!AllocateFails, Application!AllocateFails
<1>5. ASSUME NEW t, Modules!Lock(t) \/ Modules!OpenFails(t) PROVE Application!Lock(t) \/ Application!OpenFails(t)
  BY <1>5 DEF Modules!Lock, Application!Lock, Modules!OpenFails, Application!OpenFails
<1>6. ASSUME NEW t, Modules!Open(t) PROVE Application!Open(t)
  BY <1>6 DEF Modules!Open, Application!Open
<1>7. ASSUME NEW t, Modules!Unload(t) PROVE Application!Unload(t)
  BY <1>7 DEF Modules!Unload, Application!Unload, Modules!SelectInSeq, Application!SelectInSeq, Modules!Min, Application!Min,
     Modules!RemoveAt, Application!RemoveAt
<1>8. ASSUME NEW n, Modules!Register(n) PROVE Application!Register(n)
  BY <1>8 DEF Modules!Register, Application!Register, Modules!Range, Application!Range
<1>9. ASSUME NEW n, Modules!Unregister(n) PROVE Application!Unregister(n)
  BY <1>9 DEF Modules!Unregister, Application!Unregister, Modules!SelectInSeq, Application!SelectInSeq, Modules!Min, Application!Min,
     Modules!RemoveAt, Application!RemoveAt, Modules!Range, Application!Range
<1>10. ASSUME Modules!UnregisterAll PROVE Application!UnregisterAll
  BY <1>10 DEF Modules!UnregisterAll, Application!UnregisterAll
<1> QED BY <1>2, <1>3, <1>4, <1>5, <1>6, <1>7, <1>8, <1>9, <1>10 DEF Modules!LoadNext, Application!LoadNext

(* The same of the spying proxy. *)
LEMMA ServerSteps ==
  ASSUME Spy!SpyNext
  PROVE  Proved!SpyNext
<1> USE DEF Spy!Nodes, Proved!Nodes, Spy!Conns, Proved!Conns, Spy!Sides, Proved!Sides
<1>1. ASSUME Spy!PollAll PROVE Proved!PollAll
  <2>1. \A seen, c : Spy!Visit(seen, c) = Proved!Visit(seen, c)
    BY DEF Spy!Visit, Proved!Visit, Spy!Closed, Proved!Closed, Spy!PolledNode, Proved!PolledNode, Spy!Asked, Proved!Asked,
       Spy!NQNetBufferQueue_isEmpty, Proved!NQNetBufferQueue_isEmpty
  <2>2. Spy!Visited = Proved!Visited
    BY <2>1 DEF Spy!Visited, Proved!Visited
  <2> QED BY <1>1, <2>2 DEF Spy!PollAll, Proved!PollAll
<1>2. ASSUME Spy!Stop \/ Spy!NobodyComes \/ Spy!Refuse \/ Spy!NextRound
      PROVE  Proved!Stop \/ Proved!NobodyComes \/ Proved!Refuse \/ Proved!NextRound
  BY <1>2 DEF Spy!Stop, Proved!Stop, Spy!NobodyComes, Proved!NobodyComes, Spy!Refuse, Proved!Refuse, Spy!NextRound, Proved!NextRound
<1>3. ASSUME NEW how, Spy!Accept(how) PROVE Proved!Accept(how)
  BY <1>3 DEF Spy!Accept, Proved!Accept, Spy!NQNetBufferQueue_init, Proved!NQNetBufferQueue_init
<1>4. ASSUME NEW ev, NEW connects, NEW takes, NEW brings, Spy!Work(ev, connects, takes, brings)
      PROVE  Proved!Work(ev, connects, takes, brings)
  <2>1. \A s, n : Spy!CloseConnection(s, n) = Proved!CloseConnection(s, n)
    BY DEF Spy!CloseConnection, Proved!CloseConnection, Spy!CloseNode, Proved!CloseNode
  <2>2. \A s, n : Spy!OnError(s, n) = Proved!OnError(s, n) /\ Spy!OnClose(s, n) = Proved!OnClose(s, n)
    BY <2>1 DEF Spy!OnError, Proved!OnError, Spy!OnClose, Proved!OnClose
  <2>3. \A s, n : Spy!OnSend(s, n, connects, takes) = Proved!OnSend(s, n, connects, takes)
    BY <2>1 DEF Spy!OnSend, Proved!OnSend, Spy!NQNetBufferQueue_isEmpty, Proved!NQNetBufferQueue_isEmpty,
       Spy!NQNetBufferQueue_shift, Proved!NQNetBufferQueue_shift
  <2>4. \A s, n : Spy!OnRecv(s, n, brings) = Proved!OnRecv(s, n, brings)
    BY <2>1 DEF Spy!OnRecv, Proved!OnRecv, Spy!AllUsed, Proved!AllUsed, Spy!PartnerOf, Proved!PartnerOf,
       Spy!Partner, Proved!Partner, Spy!NQNetBufferQueue_alloc, Proved!NQNetBufferQueue_alloc
  <2>5. Spy!Server = Proved!Server
    BY DEF Spy!Server, Proved!Server
  <2>6. Spy!Brought = Proved!Brought
    BY DEF Spy!Brought, Proved!Brought, Spy!MapThenSumSet, Proved!MapThenSumSet, Spy!MapThenFoldSet, Proved!MapThenFoldSet
  <2> QED BY <1>4, <2>2, <2>3, <2>4, <2>5, <2>6 DEF Spy!Work, Proved!Work
<1> QED BY <1>1, <1>2, <1>3, <1>4 DEF Spy!SpyNext, Proved!SpyNext

(* It starts as its module says, and what is proved there is what the run checks. *)
LEMMA ServerStarts ==
  ASSUME Spy!SpyInit
  PROVE  Proved!SpyInit
  BY DEF Spy!SpyInit, Proved!SpyInit, Spy!Nodes, Proved!Nodes, Spy!Conns, Proved!Conns, Spy!Sides, Proved!Sides,
     Spy!NQNetBufferQueue_init, Proved!NQNetBufferQueue_init

LEMMA ServerMeets ==
  ASSUME Proved!ConnectionsAccounted, Proved!SpyForwards
  PROVE  Spy!ConnectionsAccounted /\ Spy!SpyForwards
<1> USE DEF Spy!Nodes, Proved!Nodes, Spy!Conns, Proved!Conns, Spy!Sides, Proved!Sides
<1>1. Spy!ConnectionsAccounted
  BY DEF Spy!ConnectionsAccounted, Proved!ConnectionsAccounted, Spy!Closed, Proved!Closed, Spy!Range, Proved!Range,
     Spy!Cardinality, Proved!Cardinality
<1>2. Spy!SpyForwards
  BY DEF Spy!SpyForwards, Proved!SpyForwards, Spy!PartnerOf, Proved!PartnerOf, Spy!Partner, Proved!Partner
<1> QED BY <1>1, <1>2

(* The same of the tables. *)
LEMMA StorePartStarts ==
  ASSUME Stores!StoreInit
  PROVE  Application!StoreInit
  BY DEF Stores!StoreInit, Application!StoreInit, Stores!NoRequest, Application!NoRequest

(* The two readings of a token agree. *)
LEMMA SameTokens ==
  /\ \A sub : Stores!BuildJWT(sub) = Application!BuildJWT(sub)
  /\ \A token : Stores!ParseJWT(token) = Application!ParseJWT(token)
  /\ \A token, key : Stores!NQJWT_parse(token, key) = Application!NQJWT_parse(token, key)
  /\ \A token : Stores!GetJWTClaims(token) = Application!GetJWTClaims(token)
<1> USE DEF Stores!Digest, Application!Digest, Stores!NoToken, Application!NoToken, Stores!NoSignature, Application!NoSignature,
      Stores!sessionSeckey, Application!sessionSeckey, Stores!NoJWT, Application!NoJWT, Stores!Text, Application!Text
<1>1. \A token, key : Stores!NQJWT_parse(token, key) = Application!NQJWT_parse(token, key)
  BY DEF Stores!NQJWT_parse, Application!NQJWT_parse, Stores!Algorithms, Application!Algorithms
<1>2. \A jwt, key : Stores!NQJWT_sign(jwt, key) = Application!NQJWT_sign(jwt, key)
  BY DEF Stores!NQJWT_sign, Application!NQJWT_sign
<1>3. \A jwt, name, value : Stores!NQJWT_claimSet(jwt, name, value) = Application!NQJWT_claimSet(jwt, name, value)
  BY DEF Stores!NQJWT_claimSet, Application!NQJWT_claimSet
<1>4. \A sub : Stores!BuildJWT(sub) = Application!BuildJWT(sub)
  BY <1>2, <1>3 DEF Stores!BuildJWT, Application!BuildJWT, Stores!NQJWT_create, Application!NQJWT_create,
     Stores!OneDay, Application!OneDay
<1>5. \A token : Stores!ParseJWT(token) = Application!ParseJWT(token)
  BY <1>1 DEF Stores!ParseJWT, Application!ParseJWT, Stores!NQSimpleStrtoul, Application!NQSimpleStrtoul
<1>6. \A token : Stores!GetJWTClaims(token) = Application!GetJWTClaims(token)
  BY <1>1, <1>5 DEF Stores!GetJWTClaims, Application!GetJWTClaims
<1> QED BY <1>1, <1>4, <1>5, <1>6

(* What a request, or the listeners, do to the accounts. *)
LEMMA AccountPartSteps ==
  ASSUME Stores!AccountsNext
  PROVE  Application!AccountsNext
<1> USE DEF Stores!Reply, Application!Reply, Stores!Goto, Application!Goto, Stores!Named, Application!Named,
      Stores!NoRequest, Application!NoRequest, Stores!Operations, Application!Operations
<1>1. Stores!TokensAtHand = Application!TokensAtHand /\ Stores!Range(Stores!Operations) = Application!Range(Application!Operations)
  BY DEF Stores!TokensAtHand, Application!TokensAtHand, Stores!NoToken, Application!NoToken, Stores!Range, Application!Range
<1>2. ASSUME NEW c, NEW op, NEW body, NEW token, Stores!Receive(c, op, body, token) PROVE Application!Receive(c, op, body, token)
  BY <1>1, <1>2 DEF Stores!Receive, Application!Receive, Stores!Range, Application!Range, Stores!NoToken, Application!NoToken
<1>3. ASSUME NEW c, Stores!Check(c) PROVE Application!Check(c)
  BY <1>3, SameTokens DEF Stores!Check, Application!Check, Stores!UserCredential_parse, Application!UserCredential_parse,
     Stores!Required, Application!Required, Stores!TooShort, Application!TooShort
<1>4. ASSUME NEW c, Stores!StatementFails(c) PROVE Application!StatementFails(c)
  BY <1>4 DEF Stores!StatementFails, Application!StatementFails, Stores!Writes, Application!Writes
<1>5. ASSUME NEW c, Stores!SignupPost(c) PROVE Application!SignupPost(c)
  <2>1. Stores!NextId = Application!NextId
    BY DEF Stores!NextId, Application!NextId, Stores!Max, Application!Max
  <2> QED BY <1>5, <2>1 DEF Stores!SignupPost, Application!SignupPost, Stores!SignupQuery, Application!SignupQuery,
         Stores!Done, Application!Done, Stores!Writes, Application!Writes
<1>6. ASSUME NEW c, Stores!LoginPost(c) \/ Stores!CommonPostResponse(c) \/ Stores!Permission(c)
      PROVE  Application!LoginPost(c) \/ Application!CommonPostResponse(c) \/ Application!Permission(c)
  <2>1. ASSUME Stores!LoginPost(c) PROVE Application!LoginPost(c)
    BY <2>1 DEF Stores!LoginPost, Application!LoginPost, Stores!LoginQuery, Application!LoginQuery
  <2>2. ASSUME Stores!CommonPostResponse(c) PROVE Application!CommonPostResponse(c)
    BY <2>2, SameTokens DEF Stores!CommonPostResponse, Application!CommonPostResponse
  <2>3. ASSUME Stores!Permission(c) PROVE Application!Permission(c)
    BY <2>3, SameTokens DEF Stores!Permission, Application!Permission, Stores!TooShort, Application!TooShort
  <2> QED BY <1>6, <2>1, <2>2, <2>3
<1>7. ASSUME NEW c, Stores!UpdatePost(c) \/ Stores!DeletePost(c) PROVE Application!UpdatePost(c) \/ Application!DeletePost(c)
  BY <1>7 DEF Stores!UpdatePost, Application!UpdatePost, Stores!DeletePost, Application!DeletePost,
     Stores!UpdateQuery, Application!UpdateQuery, Stores!DeleteQuery, Application!DeleteQuery,
     Stores!Done, Application!Done, Stores!Writes, Application!Writes, Stores!Cardinality, Application!Cardinality
<1>8. ASSUME NEW c, Stores!Changes(c) \/ Stores!CommonPostRelease(c) PROVE Application!Changes(c) \/ Application!CommonPostRelease(c)
  BY <1>8 DEF Stores!Changes, Application!Changes, Stores!CommonPostRelease, Application!CommonPostRelease
<1>9. ASSUME Stores!DayPasses PROVE Application!DayPasses
  BY <1>9 DEF Stores!DayPasses, Application!DayPasses
<1>10. /\ \A list, e : Stores!RemoveFirst(list, e) = Application!RemoveFirst(list, e)
       /\ \A list : Stores!Withdrawn(list) = Application!Withdrawn(list)
  <2>1. \A list, e : Stores!RemoveFirst(list, e) = Application!RemoveFirst(list, e)
    BY DEF Stores!RemoveFirst, Application!RemoveFirst, Stores!SelectInSeq, Application!SelectInSeq, Stores!Min, Application!Min,
       Stores!RemoveAt, Application!RemoveAt
  <2> QED BY <2>1 DEF Stores!Withdrawn, Application!Withdrawn
<1>11. ASSUME Stores!ListenersFinalize PROVE Application!ListenersFinalize
  BY <1>10, <1>11 DEF Stores!ListenersFinalize, Application!ListenersFinalize
<1>12. ASSUME NEW n, Stores!ListenersInit(n) PROVE Application!ListenersInit(n)
  BY <1>10, <1>12 DEF Stores!ListenersInit, Application!ListenersInit
<1> QED BY <1>1, <1>2, <1>3, <1>4, <1>5, <1>6, <1>7, <1>8, <1>9, <1>11, <1>12
     DEF Stores!AccountsNext, Application!AccountsNext, Stores!fileVars, Application!fileVars

(* What a user does to the files. *)
LEMMA FilePartSteps ==
  ASSUME Stores!FilesNext
  PROVE  Application!FilesNext
<1> USE DEF Stores!FilePaths, Application!FilePaths, Stores!Names, Application!Names
<1>1. \A user, path : Stores!Row(user, path) = Application!Row(user, path)
  BY DEF Stores!Row, Application!Row, Stores!Front, Application!Front, Stores!Last, Application!Last
<1>2. ASSUME NEW user, NEW path, NEW value, Stores!UrlDataStoreWrite(user, path, value)
      PROVE  Application!UrlDataStoreWrite(user, path, value)
  BY <1>1, <1>2 DEF Stores!UrlDataStoreWrite, Application!UrlDataStoreWrite, Stores!Writable, Application!Writable,
     Stores!MayWrite, Application!MayWrite, Stores!Written, Application!Written, Stores!Directory, Application!Directory,
     Stores!Front, Application!Front, Stores!Last, Application!Last
<1>3. ASSUME NEW user, NEW path, Stores!NQUrlDataStoreWrite(user, path) \/ Stores!NQUrlDataStoreMkdir(user, path)
      PROVE  Application!NQUrlDataStoreWrite(user, path) \/ Application!NQUrlDataStoreMkdir(user, path)
  BY <1>2, <1>3 DEF Stores!NQUrlDataStoreWrite, Application!NQUrlDataStoreWrite, Stores!NQUrlDataStoreMkdir,
     Application!NQUrlDataStoreMkdir, Stores!Directory, Application!Directory
<1> QED BY <1>3 DEF Stores!FilesNext, Application!FilesNext, Stores!accountVars, Application!accountVars

(* What is proved of both is what the run checks. *)
LEMMA AccountsMeet ==
  ASSUME Application!RepliesTellTruth
  PROVE  Stores!RepliesTellTruth
<1>1. Stores!RepliesMatch /\ Stores!ListenersMatch /\ Stores!AccountsDiffer
  BY DEF Application!RepliesTellTruth, Stores!RepliesMatch, Application!RepliesMatch, Stores!ListenersMatch, Application!ListenersMatch,
     Stores!AccountsDiffer, Application!AccountsDiffer, Stores!Operations, Application!Operations
<1>2. Stores!TokensMatch
  BY SameTokens DEF Application!RepliesTellTruth, Stores!TokensMatch, Application!TokensMatch, Stores!NoJWT, Application!NoJWT,
     Stores!NoToken, Application!NoToken, Stores!NoSignature, Application!NoSignature, Stores!sessionSeckey, Application!sessionSeckey
<1> QED BY <1>1, <1>2 DEF Stores!RepliesTellTruth

LEMMA FilesMeet ==
  ASSUME Application!FilesAreFound
  PROVE  Stores!FilesAreFound
<1>1. \A user, path : Stores!Row(user, path) = Application!Row(user, path)
  BY DEF Stores!Row, Application!Row, Stores!Front, Application!Front, Stores!Last, Application!Last
<1>2. \A user, path : Stores!NQUrlDataStoreList(user, path) = Application!NQUrlDataStoreList(user, path)
  BY DEF Stores!NQUrlDataStoreList, Application!NQUrlDataStoreList
<1>3. \A user, path : Stores!NQUrlDataStoreRead(user, path) = Application!NQUrlDataStoreRead(user, path)
  BY <1>1 DEF Stores!NQUrlDataStoreRead, Application!NQUrlDataStoreRead, Stores!Writable, Application!Writable,
     Stores!Directory, Application!Directory
<1> QED BY <1>1, <1>2, <1>3 DEF Stores!FilesAreFound, Application!FilesAreFound, Stores!Directory, Application!Directory,
       Stores!Cardinality, Application!Cardinality

(* Each part starts in its invariant. *)
LEMMA PartsStart ==
  ASSUME BoundsAreGood, Init
  PROVE  PartsInv
<1>1. ASSUME part = "cond" PROVE Proved!CondInv
  <2>1. Cond!CondInit
    BY <1>1 DEF Init
  <2>2. Proved!CondInit
    BY <2>1 DEF Cond!CondInit, Proved!CondInit, Cond!NoOne, Proved!NoOne
  <2> QED BY <2>2, RunsClients, Proved!CondStarts
<1>2. ASSUME part = "thread" PROVE Proved!ThreadInv
  <2>1. Thread!ThreadInit
    BY <1>2 DEF Init
  <2>2. Proved!ThreadInit
    BY <2>1 DEF Thread!ThreadInit, Proved!ThreadInit
  <2> QED BY <2>2, Proved!ThreadStarts
<1>3. ASSUME part = "app" PROVE Application!AppInv
  <2>1. App!AppInit
    BY <1>3 DEF Init
  <2>2. Application!AppInit
    BY <2>1 DEF App!AppInit, Application!AppInit, App!None, Application!None
  <2> QED BY <2>2, Application!AppStarts
<1>4. ASSUME part = "modules" PROVE Application!ModulesInv
  <2>1. Modules!LoadInit
    BY <1>4 DEF Init
  <2>2. Application!LoadInit
    BY <2>1 DEF Modules!LoadInit, Application!LoadInit, Modules!Idle, Application!Idle
  <2> QED BY <2>2, Application!ModulesStart
<1>5. ASSUME part = "spy" PROVE Proved!SpyInv
  <2>1. Spy!SpyInit
    BY <1>5 DEF Init
  <2> QED BY <2>1, ServerStarts, Proved!SpyStarts
<1>6. ASSUME part \in {"accounts", "files"} PROVE Application!AccountsInv /\ Application!FilesInv
  <2>1. Stores!StoreInit
    BY <1>6 DEF Init
  <2>2. Application!StoreInit
    BY <2>1, StorePartStarts
  <2> QED BY <2>2, Application!AccountsStart, Application!FilesStart DEF BoundsAreGood
<1> QED BY <1>1, <1>2, <1>3, <1>4, <1>5, <1>6 DEF PartsInv

(* No step changes the part, and a step of a part keeps its invariant. *)
LEMMA PartsGoOn ==
  ASSUME BoundsAreGood, PartsInv, [Next]_vars
  PROVE  PartsInv'
<1>1. part' = part
  BY DEF Next, vars, WebStep, SocketStep, CondStep, ThreadStep, AppStep, ModulesStep, SpyStep, AccountsStep, FilesStep, PagesStep
<1>2. ASSUME part = "cond" PROVE Proved!CondInv'
  <2>1. Proved!CondInv
    BY <1>2 DEF PartsInv
  <2>2. CondStep \/ UNCHANGED vars
    BY <1>2 DEF Next, WebStep, SocketStep, ThreadStep, AppStep, ModulesStep, SpyStep, AccountsStep, FilesStep, PagesStep
  <2>3. [Proved!CondNext]_Proved!condVars
    BY <2>2, ClientSteps DEF CondStep, vars, registers, Proved!condVars
  <2> QED BY <2>1, <2>3, RunsClients, Proved!CondSteps
<1>3. ASSUME part = "thread" PROVE Proved!ThreadInv'
  <2>1. Proved!ThreadInv
    BY <1>3 DEF PartsInv
  <2>2. ThreadStep \/ UNCHANGED vars
    BY <1>3 DEF Next, WebStep, SocketStep, CondStep, AppStep, ModulesStep, SpyStep, AccountsStep, FilesStep, PagesStep
  <2>3. [Proved!ThreadNext]_Proved!threadVars
    BY <2>2, ThreadPartSteps DEF ThreadStep, vars, registers, Proved!threadVars
  <2> QED BY <2>1, <2>3, Proved!ThreadSteps
<1>4. ASSUME part = "app" PROVE Application!AppInv'
  <2>1. Application!AppInv
    BY <1>4 DEF PartsInv
  <2>2. AppStep \/ UNCHANGED vars
    BY <1>4 DEF Next, WebStep, SocketStep, CondStep, ThreadStep, ModulesStep, SpyStep, AccountsStep, FilesStep, PagesStep
  <2>3. [Application!AppNext]_Application!appVars
    BY <2>2, AppPartSteps DEF AppStep, vars, registers, Application!appVars
  <2> QED BY <2>1, <2>3, Application!AppSteps
<1>5. ASSUME part = "modules" PROVE Application!ModulesInv'
  <2>1. Application!ModulesInv
    BY <1>5 DEF PartsInv
  <2>2. ModulesStep \/ UNCHANGED vars
    BY <1>5 DEF Next, WebStep, SocketStep, CondStep, ThreadStep, AppStep, SpyStep, AccountsStep, FilesStep, PagesStep
  <2>3. [Application!LoadNext]_Application!loadVars
    BY <2>2, ModulePartSteps DEF ModulesStep, vars, registers, Application!loadVars
  <2> QED BY <2>1, <2>3, RunsLoaders, Application!ModulesSteps
<1>6. ASSUME part = "spy" PROVE Proved!SpyInv'
  <2>1. Proved!SpyInv
    BY <1>6 DEF PartsInv
  <2>2. SpyStep \/ UNCHANGED vars
    BY <1>6 DEF Next, WebStep, SocketStep, CondStep, ThreadStep, AppStep, ModulesStep, AccountsStep, FilesStep, PagesStep
  <2>3. [Proved!SpyNext]_Proved!spyVars
    BY <2>2, ServerSteps DEF SpyStep, vars, registers, Proved!spyVars
  <2> QED BY <2>1, <2>3, Proved!SpySteps
<1>7. ASSUME part = "accounts" PROVE Application!AccountsInv'
  <2>1. Application!AccountsInv
    BY <1>7 DEF PartsInv
  <2>2. AccountsStep \/ UNCHANGED vars
    BY <1>7 DEF Next, WebStep, SocketStep, CondStep, ThreadStep, AppStep, ModulesStep, SpyStep, FilesStep, PagesStep
  <2>3. [Application!AccountsNext]_Application!accountVars
    BY <2>2, AccountPartSteps DEF AccountsStep, vars, registers, Application!accountVars
  <2>4. MaxAccepted \in Nat
    BY DEF BoundsAreGood
  <2> QED BY <2>1, <2>3, <2>4, RunsConnections, Application!AccountsSteps
<1>8. ASSUME part = "files" PROVE Application!FilesInv'
  <2>1. Application!FilesInv
    BY <1>8 DEF PartsInv
  <2>2. FilesStep \/ UNCHANGED vars
    BY <1>8 DEF Next, WebStep, SocketStep, CondStep, ThreadStep, AppStep, ModulesStep, SpyStep, AccountsStep, PagesStep
  <2>3. [Application!FilesNext]_Application!fileVars
    BY <2>2, FilePartSteps DEF FilesStep, vars, registers, Application!fileVars
  <2> QED BY <2>1, <2>3, Application!FilesSteps
<1> QED BY <1>1, <1>2, <1>3, <1>4, <1>5, <1>6, <1>7, <1>8 DEF PartsInv

(* The run's properties are those the modules' theorems state. *)
LEMMA PartsMeet ==
  ASSUME BoundsAreGood, PartsInv
  PROVE  SharedIsSound
<1>1. ASSUME part = "cond" PROVE Cond!GateIsSound
  <2>1. Proved!CondInv
    BY <1>1 DEF PartsInv
  <2>2. Proved!GateIsSound
    BY <2>1, RunsClients, Proved!InvOpensGate
  <2> QED BY <2>2 DEF Cond!GateIsSound, Proved!GateIsSound, Cond!At, Proved!At, Cond!NoOne, Proved!NoOne
<1>2. ASSUME part = "thread" PROVE Thread!ThreadFreedOnce
  <2>1. Proved!ThreadInv
    BY <1>2 DEF PartsInv
  <2>2. Proved!ThreadFreedOnce
    BY <2>1, Proved!InvFreesOnce
  <2> QED BY <2>2 DEF Thread!ThreadFreedOnce, Proved!ThreadFreedOnce, Thread!State, Proved!State
<1>3. ASSUME part = "app" PROVE App!AppLifecycle /\ App!ListenersCalled
  <2>1. Application!AppInv /\ Application!LifeInv
    BY <1>3 DEF PartsInv, Application!AppInv
  <2>2. Application!AppLifecycle
    BY <2>1, Application!InvOrdersLife
  <2>3. Application!ListenersCalled
    BY <2>1, Application!InvCalls
  <2>4. App!AppLifecycle
    BY <2>2 DEF App!AppLifecycle, Application!AppLifecycle, App!IsPrefix, Application!IsPrefix, App!Range, Application!Range
  <2>5. App!ListenersCalled
    BY <2>3, SameListeners DEF App!ListenersCalled, Application!ListenersCalled, App!None, Application!None,
       App!Range, Application!Range, App!IsInjective, Application!IsInjective
  <2> QED BY <2>4, <2>5
<1>4. ASSUME part = "modules" PROVE Modules!ModulesShared /\ Modules!LastNotifier
  <2>1. Application!ModulesInv
    BY <1>4 DEF PartsInv
  <2>2. Application!ModulesShared /\ Application!LastNotifier
    BY <2>1, RunsLoaders, Application!InvShares
  <2>3. Modules!ModulesShared
    BY <2>2 DEF Modules!ModulesShared, Application!ModulesShared, Modules!Holding, Application!Holding,
       Modules!Range, Application!Range, Modules!Cardinality, Application!Cardinality
  <2>4. Modules!LastNotifier
    BY <2>2 DEF Modules!LastNotifier, Application!LastNotifier, Modules!Last, Application!Last
  <2> QED BY <2>3, <2>4
<1>5. ASSUME part = "spy" PROVE Spy!ConnectionsAccounted /\ Spy!SpyForwards
  <2>1. Proved!SpyInv
    BY <1>5 DEF PartsInv
  <2>2. Proved!ConnectionsAccounted /\ Proved!SpyForwards
    BY <2>1, Proved!InvAccounts
  <2> QED BY <2>2, ServerMeets
<1>6. ASSUME part = "accounts" PROVE Stores!RepliesTellTruth
  <2>1. Application!AccountsInv /\ Application!TextsDiffer
    BY <1>6 DEF PartsInv, BoundsAreGood
  <2>2. Application!RepliesTellTruth
    BY <2>1, Application!InvTellsTruth
  <2> QED BY <2>2, AccountsMeet
<1>7. ASSUME part = "files" PROVE Stores!FilesAreFound
  <2>1. Application!FilesInv
    BY <1>7 DEF PartsInv
  <2>2. Application!FilesAreFound
    BY <2>1, Application!InvLists
  <2> QED BY <2>2, FilesMeet
<1> QED BY <1>1, <1>2, <1>3, <1>4, <1>5, <1>6, <1>7 DEF SharedIsSound

(* What several use stays sound in the run Services, whatever its bounds: the   *)
(* gate of a condition opens once for each time it was closed, a thread is freed *)
(* once, an application ends after its last use, a module is shared, a proxy     *)
(* forwards in order, a reply says what happened to an account and a file is     *)
(* found where it was put (sync/win32/Cond.c, ThreadPosix.c, Application.c,      *)
(* EventTarget.c, Context.c, SpyServer.c, WebUsersRestExecutor.c,                *)
(* UserDataStore.c, JWT.c, UrlDataStore.c).                                      *)
THEOREM SharedStaysSound ==
  ASSUME BoundsAreGood
  PROVE  Spec => []SharedIsSound
<1>1. Init => PartsInv
  BY PartsStart
<1>2. PartsInv /\ [Next]_vars => PartsInv'
  BY PartsGoOn
<1>3. PartsInv => SharedIsSound
  BY PartsMeet
<1> QED BY <1>1, <1>2, <1>3, PTL DEF Spec
=============================================================================
