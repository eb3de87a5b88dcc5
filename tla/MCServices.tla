----------------------------- MODULE MCServices -----------------------------
(***************************************************************************)
(* The services and the threads, one of them in each behavior: part says    *)
(* which, and its variables are registers that the parts share.             *)
(***************************************************************************)
EXTENDS Integers, Sequences, TLC

VARIABLES part, r1, r2, r3, r4, r5, r6, r7, r8, r9, r10, r11, r12
registers == <<r1, r2, r3, r4, r5, r6, r7, r8, r9, r10, r11, r12>>
vars == <<part, registers>>

CONSTANTS MaxCreated, MaxRequests,  \* WebServer
          MaxFrames,                \* WebSocketSession
          MaxTimeouts, MaxGone,     \* CondWin32
          MaxAdded,                 \* Application
          MaxLoaded,                \* ModuleLoading
          MaxDay, MaxAccepted, MaxWrites,   \* DataStores
          MaxPages, MaxServed,      \* WebPages
          MaxData                   \* SpyServer

U == INSTANCE Urls
At(path) == U!Chars(path)
Star == U!Plain("*")
Lists == { <<At(<<"/", "a">>)>>, <<At(<<"/", "{", "n", "}">>), At(<<"/", "a">>)>>, <<At(<<"/", "b">>), At(<<"/", "{", "m", "}">>), << >>>>,
           <<At(<<"/", "*">>), <<Star>>, At(<<"*", ":", "b", "e", "f", "o", "r", "e">>)>> }
Web == INSTANCE WebServer
  WITH MatchLists <- Lists, RequestUrls <- {At(<<"/", "a">>), At(<<"/">>)}, Connections <- {"c"},
       requestExecutors <- r1, socketExecutors <- r2, moduleList <- r3, writerExecutors <- r4, created <- r5,
       urlPaths <- r6, chained <- r7, statistics <- r8, contexts <- r9, strings <- r10, misused <- r11
Socket == INSTANCE WebSocketSession
  WITH Threads <- {"s", "t"}, MaxInput <- 2, session <- r1, outputList <- r2, frames <- r3, sending <- r4, wakeup <- r5,
       events <- r6, action <- r7, handle <- r8, input <- r9, sent <- r10, calls <- r11
Cond == INSTANCE CondWin32
  WITH Takers <- {"t1", "t2"}, Givers <- {"g1", "g2"}, Timed <- {"t1", "t2"},
       waitersGone <- r1, waitersBlocked <- r2, waitersToUnblock <- r3, blockLock <- r4, blockQueue <- r5,
       unblockLock <- r6, mutex <- r7, tokens <- r8, timeouts <- r9, process <- r10
Thread == INSTANCE ThreadLife WITH flags <- r1, memory <- r2, owner <- r3, thread <- r4, frees <- r5, stray <- r6
App == INSTANCE Application
  WITH Callbacks <- {"f", "g"}, MaxEvents <- 1, mode <- r1, running <- r2, destroyed <- r3, caller <- r4, worker <- r5,
       usable <- r6, misused <- r7, done <- r8, listeners <- r9, dispatching <- r10, added <- r11, dispatched <- r12
Modules == INSTANCE ModuleLoading
  WITH Loaders <- {"s", "t"}, Paths <- {"p", "q"}, MaxEntries <- 3, Notifiers <- {"n", "o"},
       modulesList <- r1, entries <- r2, loader <- r3, loaded <- r4, inits <- r5, notifiers <- r6, last <- r7
Spy == INSTANCE SpyServer
  WITH MaxConn <- 2, MaxBuffers <- 2, MaxAccepts <- 3, active <- r1, free <- r2, state <- r3, queue <- r4, batch <- r5,
       phase <- r6, received <- r7, taken <- r8, told <- r9, sockets <- r10, failed <- r11, accepted <- r12

Body(email, password) == [name |-> "n", email |-> email, password |-> password]
RequestBodies == {[name |-> "n"], [email |-> "x"], Body("x", "long"), Body("x", "short"), Body("y", "long")}
Stores == INSTANCE DataStores
  WITH Clients <- {"c", "d"}, Owners <- {1, 2}, Bodies <- RequestBodies, listening <- r1, database <- r2, users <- r3,
       requests <- r4, tokens <- r5, now <- r6, accepted <- r7, ever <- r8, files <- r9, writes <- r10, changes <- r11


Part(name, type, first, data) == [name |-> name, contentType |-> type, typeFirst |-> first, data |-> data]
Pair(is) == [pair |-> is]
Pages == INSTANCE WebPages
  WITH Connections <- {"c"},
       Forms <- {<< >>, <<Pair("good"), Pair("good")>>} \cup { <<Pair("good"), Pair(bad)>> : bad \in {"no delimiter", "bad escape", "not set"} },
       Documents <- { <<Part("other", t, TRUE, "1"), Part("file", u, b, "2")>> : t \in {"", "text"}, u \in {"", "image"}, b \in BOOLEAN }
         \cup { <<Part("file", "image", FALSE, "1"), Part("file", "", FALSE, "2")>>, <<Part("file", "image", FALSE, "1"), Part("other", "long", FALSE, "2")>>, <<Part("file", "long", TRUE, "1")>>, <<Part("other", "", TRUE, "1")>> },
       transport <- r1, page <- r2, held <- r3, leaked <- r4, requests <- r5, posts <- r6, contexts <- r7,
       abandoned <- r8, made <- r9, setenv <- r10

-----------------------------------------------------------------------------

Init ==
  \/ part = "web" /\ Web!WebServerInit /\ r12 = 0
  \/ part = "socket" /\ Socket!SessionInit /\ r12 = 0
  \/ part = "cond" /\ Cond!CondInit /\ r11 = 0 /\ r12 = 0
  \/ part = "thread" /\ Thread!ThreadInit /\ r7 = 0 /\ r8 = 0 /\ r9 = 0 /\ r10 = 0 /\ r11 = 0 /\ r12 = 0
  \/ part = "app" /\ App!AppInit
  \/ part = "modules" /\ Modules!LoadInit /\ r8 = 0 /\ r9 = 0 /\ r10 = 0 /\ r11 = 0 /\ r12 = 0
  \/ part = "spy" /\ Spy!SpyInit
  \/ part \in {"accounts", "files"} /\ Stores!StoreInit /\ r12 = 0
  \/ part = "pages" /\ Pages!PagesInit /\ r11 = 0 /\ r12 = 0

WebStep == part = "web" /\ Web!WebServerNext /\ UNCHANGED <<part, r12>>
SocketStep == part = "socket" /\ Socket!SessionNext /\ UNCHANGED <<part, r12>>
CondStep == part = "cond" /\ Cond!CondNext /\ UNCHANGED <<part, r11, r12>>
ThreadStep == part = "thread" /\ Thread!ThreadNext /\ UNCHANGED <<part, r7, r8, r9, r10, r11, r12>>
AppStep == part = "app" /\ App!AppNext /\ UNCHANGED part
ModulesStep == part = "modules" /\ Modules!LoadNext /\ UNCHANGED <<part, r8, r9, r10, r11, r12>>
SpyStep == part = "spy" /\ Spy!SpyNext /\ UNCHANGED part
AccountsStep == part = "accounts" /\ Stores!AccountsNext /\ UNCHANGED <<part, r12>>
FilesStep == part = "files" /\ Stores!FilesNext /\ UNCHANGED <<part, r12>>
PagesStep == part = "pages" /\ Pages!PagesNext /\ UNCHANGED <<part, r11, r12>>
Next == WebStep \/ SocketStep \/ CondStep \/ ThreadStep \/ AppStep \/ ModulesStep \/ SpyStep
        \/ AccountsStep \/ FilesStep \/ PagesStep

(* The fairness of each part, as its own module states it. *)
InSocket(action) == part = "socket" /\ action /\ UNCHANGED <<part, r12>>
InCond(action) == part = "cond" /\ action /\ UNCHANGED <<part, r11, r12>>
InThread(action) == part = "thread" /\ action /\ UNCHANGED <<part, r7, r8, r9, r10, r11, r12>>
InApp(action) == part = "app" /\ action /\ UNCHANGED part
Fairness ==
  /\ WF_vars(InSocket(Socket!LooperStep)) /\ SF_vars(InSocket(Socket!TakeOutput))
  /\ WF_vars(InSocket(Socket!AddSocket \/ Socket!AddSocketFails))
  /\ \A t \in {"s", "t"} : WF_vars(InSocket(Socket!Wake(t)))
  /\ \A t \in {"t1", "t2"} : WF_vars(InCond(Cond!TakerStep(t)))
  /\ \A g \in {"g1", "g2"} : WF_vars(InCond(Cond!GiverGoesOn(g)))
  /\ WF_vars(InThread(Thread!EntryStep)) /\ WF_vars(InThread(Thread!OwnerFrees)) /\ WF_vars(InThread(Thread!Joined))
  /\ WF_vars(InApp(App!WorkerStep)) /\ WF_vars(InApp(App!RunReturns)) /\ WF_vars(InApp(r4 = "returned" /\ App!Finalize))
Spec == Init /\ [][Next]_vars /\ Fairness

-----------------------------------------------------------------------------

(* The web server asks its listeners in order, and each has its strings; one that
   fails leaves nothing of those added before it. A request is handed one path and
   gives it back with the writers it took, whichever listeners refused it on the way;
   pages give back what they allocated and answer a form by what they did with it.
   (WebServer.c, WebManifest.c, WebEnvView.c, WebHexView.c.) *)
ServersSound ==
  /\ part = "web" => Web!ListenersInPlace /\ Web!StringsOwned /\ Web!RequestsReturnAll
  /\ part = "pages" => Pages!PagesGiveBack /\ Pages!FormsAnswered

(* A request goes to the executor that no other comes before.
   (WebServer.c: NQWebServer_initRequest.) *)
RoutesToBest == [][part = "web" => Web!RoutedToBest]_vars

(* What a web socket sends goes out once and in order, is never left with nobody to
   see it, and its callbacks come in order. (web/mhd/WebServerOperations.c.) *)
SessionSound == part = "socket" => Socket!OutputInOrder /\ Socket!OutputIsSeen /\ Socket!CallbackOrder

(* What several use, in whatever order they do: the gate of a condition opens once for
   each time it was closed, a thread's object is freed once and by the last of its
   users, an application ends after its last use, and a module that several load is
   initialized once; what one side of a relayed connection sends the other gets, and
   no connection is lost or in two places; what is said of an account happened to it,
   and a file is found where it was put. (sync/win32/Cond.c, ThreadPosix.c,
   Application.c, Context.c, SpyServer.c, WebUsersRestExecutor.c, UserDataStore.c,
   UrlDataStore.c.) *)
SharedIsSound ==
  /\ part = "cond" => Cond!GateIsSound
  /\ part = "thread" => Thread!ThreadFreedOnce
  /\ part = "app" => App!AppLifecycle /\ App!ListenersCalled
  /\ part = "modules" => Modules!ModulesShared /\ Modules!LastNotifier
  /\ part = "spy" => Spy!ConnectionsAccounted /\ Spy!SpyForwards
  /\ part = "accounts" => Stores!RepliesTellTruth
  /\ part = "files" => Stores!FilesAreFound

(* Nobody is left: frames are written, tokens taken, threads' objects freed and
   applications ended. (The same code.) *)
AllServed ==
  /\ \A n \in 1 .. MaxFrames : []<>(part = "socket" => Socket!Written(n))
  /\ <>[](part = "cond" => Cond!NobodyStarves)
  /\ []<>(part = "thread" => Thread!Freed)
  /\ []<>(part = "app" => App!Ended)
=============================================================================
