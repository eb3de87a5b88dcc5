------------------------------ MODULE WebServer ------------------------------
(***************************************************************************)
(* The web server: executors with their listeners, sorted by how loosely    *)
(* their patterns match, and taken back one by one when a later one fails;  *)
(* a request's way to the listener that takes it, with the path objects it  *)
(* is handed, and through its callbacks, as libmicrohttpd makes them; the   *)
(* writers that a response's content type puts in front of the connection.  *)
(* Methods other than one are ignored in the same way as urls that do not   *)
(* match.                                                                   *)
(***************************************************************************)
EXTENDS Urls

CONSTANTS MatchLists,     \* what an executor may listen to: sequences of patterns
          RequestUrls,    \* the urls asked for
          Connections,
          MaxCreated,     \* how many executors and writers there are ever
          MaxRequests     \* how many requests are ever accepted

VARIABLES requestExecutors, socketExecutors, \* the listeners, in the order they are asked
          moduleList,     \* the executors
          writerExecutors,
          created,        \* how many executors and writers there were
          urlPaths,       \* the paths that are allocated
          strings,        \* the copies of methods and patterns that are allocated
          misused,        \* something was taken out of a list or freed that was not there
          chained,        \* how many writers are allocated for responses
          statistics,     \* the chain of one bucket: the newest entry first
          contexts        \* by connection
serverVars == <<requestExecutors, socketExecutors, moduleList, writerExecutors, created, urlPaths, strings, misused,
                chained, statistics, contexts>>

Idle == [state |-> "idle"]
WebServerInit ==
  /\ requestExecutors = << >> /\ socketExecutors = << >>
  /\ moduleList = << >> /\ writerExecutors = << >>
  /\ created = [executors |-> 0, requests |-> 0, writers |-> 0]
  /\ urlPaths = {} /\ strings = {} /\ misused = FALSE /\ chained = 0
  /\ statistics = << >>
  /\ contexts = [c \in Connections |-> Idle]

Star == Plain("*")
AnyBefore == Chars(<<"*", ":", "b", "e", "f", "o", "r", "e">>)

Kind(pattern) ==
  CASE pattern = AnyBefore -> 3
    [] pattern = <<Star>> -> 4
    [] IndexFrom(pattern, Star, 1) # 0 -> 2
    [] NQIsUrlPathPattern(pattern) -> 1
    [] OTHER -> 0

(* comparePattern, for patterns whose only star is the last character: of others the
   rest is looked for behind the end of the url too. *)
ComparePattern(pattern, url) == IsPrefix(Front(pattern), url)

Matching(listener, url) ==
  CASE listener.kind = 0 -> listener.pattern = url
    [] listener.kind = 1 -> NQUrlPath_create(url, listener.pattern, TRUE).matched
    [] listener.kind = 2 -> ComparePattern(listener.pattern, url)
    [] OTHER -> TRUE

-----------------------------------------------------------------------------

(* Slips the code could have made: a listener goes in front of its own kind; taking
   back the listeners of an executor stops before the last one added. *)
InFrontOfEquals(list, listener) ==
  LET others == { i \in DOMAIN list : list[i].kind >= listener.kind }
  IN InsertAt(list, IF others = {} THEN Len(list) + 1 ELSE CHOOSE i \in others : \A j \in others : i <= j, listener)
AddedButTheLast(listeners, failed) == SubSeq(listeners, 1, failed - 2)

(* A listener goes in front of the first one of a looser kind. *)
Inserted(list, listener) ==
  LET looser == { i \in DOMAIN list : list[i].kind > listener.kind }
  IN InsertAt(list, IF looser = {} THEN Len(list) + 1 ELSE CHOOSE i \in looser : \A j \in looser : i <= j, listener)

(* NQHttpStatistics_add: the new entry in front, the old one of the same url gone. *)
Counted(chain, url) == <<[url |-> url, counter |-> 0]>> \o SelectSeq(chain, LAMBDA e : e.url # url)
StatisticsInc(chain, url) ==
  LET found == { i \in DOMAIN chain : chain[i].url = url }
  IN IF found = {} THEN chain
     ELSE [chain EXCEPT ![CHOOSE i \in found : \A j \in found : i <= j].counter = @ + 1]

(* The listeners in an executor, and the two strings that each of them has copied. *)
Listeners(patterns, executor, socket) ==
  [i \in DOMAIN patterns |->
     [kind |-> Kind(patterns[i]), pattern |-> patterns[i], executor |-> executor, index |-> i, socket |-> socket]]
Copy(l, is) == [executor |-> l.executor, index |-> l.index, socket |-> l.socket, is |-> is]
Copies(l) == {Copy(l, "pattern"), Copy(l, "method")}

(* NQWebExecutor_addRequestListener and _addSocketListener: the pattern is copied, then
   the method, then the listener is linked and a plain url counted. st.memory is how
   many strings there is room for. A request's pattern may not be empty; a socket's
   stays behind when its method cannot be copied. *)
AddListener(st, l) ==
  CASE st.failed # 0 -> st
    [] st.failed = 0 /\ st.memory = 0 -> [st EXCEPT !.failed = l.index]
    [] st.failed = 0 /\ st.memory = 1 ->
         [st EXCEPT !.failed = l.index, !.strings = IF l.socket THEN @ \cup {Copy(l, "pattern")} ELSE @]
    [] st.failed = 0 /\ st.memory > 1 /\ ~l.socket /\ l.pattern = << >> -> [st EXCEPT !.failed = l.index]
    [] OTHER ->
         [st EXCEPT !.list = Inserted(@, l), !.strings = @ \cup Copies(l), !.memory = @ - 2,
                    !.statistics = IF ~l.socket /\ l.kind = 0 THEN Counted(@, l.pattern) ELSE @]

(* NQWebExecutor_removeRequestListener and _removeSocketListener. *)
RemoveListener(st, l) ==
  [st EXCEPT !.list = SelectSeq(@, LAMBDA other : other # l), !.strings = @ \ Copies(l),
             !.misused = @ \/ l \notin Range(st.list) \/ ~(Copies(l) \subseteq st.strings)]

(* What is removed again when one of them fails: those in front of it. *)
AddedBefore(listeners, failed) == SubSeq(listeners, 1, failed - 1)

Storage(list, memory) ==
  [list |-> list, strings |-> strings, statistics |-> statistics, misused |-> misused, memory |-> memory, failed |-> 0]
WithListeners(list, listeners, memory) ==
  LET added == FoldLeft(AddListener, Storage(list, memory), listeners)
  IN IF added.failed = 0 THEN added ELSE FoldLeft(RemoveListener, added, AddedBefore(listeners, added.failed))

(* An executor is linked before it has listeners; one whose listener failed is
   destroyed, before it has a release that would remove them all. *)
Unlinked(list, id) == SelectSeq(list, LAMBDA executor : executor.id # id)
CreateExecutor(patterns, socket, made) ==
  LET id == created.executors + 1
      linked == Append(moduleList, [id |-> id, patterns |-> patterns, socket |-> socket])
  IN /\ patterns # << >>
     /\ created' = [created EXCEPT !.executors = id]
     /\ moduleList' = IF made.failed = 0 THEN linked ELSE Unlinked(linked, id)
     /\ strings' = made.strings /\ statistics' = made.statistics /\ misused' = made.misused
     /\ UNCHANGED <<writerExecutors, urlPaths, chained, contexts>>

CreateRequestExecutor(patterns, memory) ==
  /\ created.executors + created.writers < MaxCreated
  /\ \E made \in {WithListeners(requestExecutors, Listeners(patterns, created.executors + 1, FALSE), memory)} :
       CreateExecutor(patterns, FALSE, made) /\ requestExecutors' = made.list /\ UNCHANGED socketExecutors

CreateSocketExecutor(patterns, memory) ==
  /\ created.executors + created.writers < MaxCreated
  /\ \E made \in {WithListeners(socketExecutors, Listeners(patterns, created.executors + 1, TRUE), memory)} :
       CreateExecutor(patterns, TRUE, made) /\ socketExecutors' = made.list /\ UNCHANGED requestExecutors

(* releaseRequestExecutor or releaseSocketExecutor, while no request is with its
   listeners: what else happens is the caller's. *)
Released(executor, list) ==
  FoldLeft(RemoveListener, Storage(list, 0), Listeners(executor.patterns, executor.id, executor.socket))
DestroyExecutor(executor) ==
  /\ \A c \in Connections : contexts[c] = Idle
  /\ moduleList' = Unlinked(moduleList, executor.id)
  /\ \E end \in {Released(executor, IF executor.socket THEN socketExecutors ELSE requestExecutors)} :
       /\ requestExecutors' = IF executor.socket THEN requestExecutors ELSE end.list
       /\ socketExecutors' = IF executor.socket THEN end.list ELSE socketExecutors
       /\ strings' = end.strings /\ misused' = end.misused
  /\ UNCHANGED <<writerExecutors, created, urlPaths, chained, statistics, contexts>>

RegisterWriter(operations) ==
  /\ created.executors + created.writers < MaxCreated
  /\ created' = [created EXCEPT !.writers = @ + 1]
  /\ writerExecutors' = Append(writerExecutors, [operations |-> operations, id |-> created.writers + 1])
  /\ UNCHANGED <<requestExecutors, socketExecutors, moduleList, urlPaths, strings, misused, chained, statistics, contexts>>

(* The first with these operations goes, whatever its data. *)
UnregisterWriter(operations) ==
  LET found == { i \in DOMAIN writerExecutors : writerExecutors[i].operations = operations }
  IN /\ found # {}
     /\ writerExecutors' = RemoveAt(writerExecutors, CHOOSE i \in found : \A j \in found : i <= j)
     /\ UNCHANGED <<requestExecutors, socketExecutors, moduleList, created, urlPaths, strings, misused, chained, statistics, contexts>>

-----------------------------------------------------------------------------

(* A path is known by its address: 0 is none, and the path "/" is always there and
   never freed. *)
Null == 0
RootPath == -1
FreshPath(paths) == CHOOSE p \in 1 .. Cardinality(paths) + 1 : p \notin paths
PathDestroyed(st, path) ==
  IF path = RootPath THEN st ELSE [st EXCEPT !.paths = @ \ {path}, !.misused = @ \/ path \notin st.paths]

(* NQUrlPath_create for the url itself, then for a listener whose pattern has names.
   room is how many paths there is memory for besides those of other requests. *)
SharedPath(url, room) ==
  LET path == IF url = <<Slash>> THEN RootPath ELSE IF room = 0 THEN Null ELSE FreshPath(urlPaths)
  IN [executor |-> 0, shared |-> path, path |-> Null, refused |-> FALSE, misused |-> misused,
      paths |-> urlPaths \cup ({path} \ {Null, RootPath})]
Offered(st, l, room) ==
  IF l.kind # 1 THEN [st EXCEPT !.path = st.shared]
  ELSE IF Cardinality(st.paths \ urlPaths) = room THEN st
  ELSE [st EXCEPT !.path = FreshPath(st.paths), !.paths = @ \cup {FreshPath(st.paths)}]

(* Of the shared path and the listener's own, one is destroyed when the listener is
   done: the shared one if it takes the request, its own if it does not. *)
Destroying(st, path) == IF st.path = st.shared THEN st ELSE PathDestroyed(st, path)
Asked(st, l, refusing) ==
  CASE st.path = Null -> st
    [] st.path # Null /\ l.executor \notin refusing -> [Destroying(st, st.shared) EXCEPT !.executor = l.executor]
    [] OTHER -> [Destroying(st, st.path) EXCEPT !.path = Null, !.refused = TRUE]

(* Listener by listener of those that match, until one takes the request; refusing
   holds the executors whose init says no. *)
Routed(list, url, refusing, room) ==
  LET Ask(st, l) == IF st.executor # 0 THEN st ELSE Asked(Offered(st, l, room), l, refusing)
      end == FoldLeft(Ask, SharedPath(url, room), SelectSeq(list, LAMBDA l : Matching(l, url)))
  IN CASE SharedPath(url, room).shared = Null -> SharedPath(url, room)
       [] end.executor # 0 -> end
       [] OTHER -> PathDestroyed(end, end.shared)

NQWebServer_initRequest(url, refusing, room) == Routed(requestExecutors, url, refusing, room)
NQWebServer_initSocket(url, refusing, room) == Routed(socketExecutors, url, refusing, room)

(* NQWebRequest_finalize. *)
Finalized(paths, misuse, path) ==
  LET st == [paths |-> paths, misused |-> misuse] IN IF path = Null THEN st ELSE PathDestroyed(st, path)

(* contextCreate: a request that nobody takes is released with its context, and one
   to upgrade is routed by its handler only. *)
NewContext(url, upgrade) ==
  [state |-> "request", url |-> url, upgrade |-> upgrade, operations |-> IF upgrade THEN "upgrade" ELSE "listener",
   executor |-> 0, path |-> Null, refused |-> {}, room |-> 0, socket |-> "none", chain |-> <<0>>]
Accept(c, url, refusing, room) ==
  /\ contexts[c] = Idle /\ created.requests < MaxRequests
  /\ \E route \in {NQWebServer_initRequest(url, refusing, room)} :
       IF route.executor # 0
       THEN /\ created' = [created EXCEPT !.requests = @ + 1]
            /\ contexts' = [contexts EXCEPT ![c] =
                 [NewContext(url, FALSE) EXCEPT !.executor = route.executor, !.path = route.path, !.refused = refusing, !.room = room]]
            /\ statistics' = StatisticsInc(statistics, url)
            /\ urlPaths' = route.paths /\ misused' = route.misused
       ELSE \E end \in {Finalized(route.paths, route.misused, route.path)} :
            urlPaths' = end.paths /\ misused' = end.misused /\ UNCHANGED <<created, contexts, statistics>>
  /\ UNCHANGED <<requestExecutors, socketExecutors, moduleList, writerExecutors, strings, chained>>

AcceptUpgrade(c, url) ==
  /\ contexts[c] = Idle /\ created.requests < MaxRequests
  /\ created' = [created EXCEPT !.requests = @ + 1]
  /\ contexts' = [contexts EXCEPT ![c] = NewContext(url, TRUE)]
  /\ statistics' = StatisticsInc(statistics, url)
  /\ UNCHANGED <<requestExecutors, socketExecutors, moduleList, writerExecutors, urlPaths, strings, misused, chained>>

(* websocketUpgradeHandler. The context names its socket before a listener was found,
   and the answer goes by that, also if the socket is released; a listener that
   refuses leaves the request without operations. *)
HandleUpgrade(c, refusing, room) ==
  /\ contexts[c].state = "request" /\ contexts[c].upgrade
  /\ \E route \in {NQWebServer_initSocket(contexts[c].url, refusing, room)} :
       /\ contexts' = [contexts EXCEPT ![c] =
            [@ EXCEPT !.state = "answered", !.socket = IF route.executor # 0 THEN "open" ELSE "released",
                      !.executor = route.executor, !.path = route.path,
                      !.operations = IF route.refused THEN "none" ELSE @]]
       /\ urlPaths' = route.paths /\ misused' = route.misused
  /\ UNCHANGED <<requestExecutors, socketExecutors, moduleList, writerExecutors, created, strings, chained, statistics>>

(* Headers that are not those of a web socket, or no socket to be had. *)
RefuseUpgrade(c) ==
  /\ contexts[c].state = "request" /\ contexts[c].upgrade
  /\ contexts' = [contexts EXCEPT ![c].state = "answered"]
  /\ UNCHANGED <<requestExecutors, socketExecutors, moduleList, writerExecutors, created, urlPaths, strings, misused, chained, statistics>>

(* Writers of the content type, from the last to the first, each in front; what the
   chain was so far follows. failing are those whose init says no. *)
WriterChain(failing) ==
  FoldLeft(LAMBDA chain, w : IF w.id \in failing THEN chain ELSE <<w.id>> \o chain, << >>, Reverse(writerExecutors))

SetContentType(c, failing) ==
  /\ contexts[c].state = "request" /\ ~contexts[c].upgrade
  /\ Len(contexts[c].chain) <= 2
  /\ contexts' = [contexts EXCEPT ![c].chain = WriterChain(failing) \o @]
  /\ chained' = chained + Len(WriterChain(failing))
  /\ UNCHANGED <<requestExecutors, socketExecutors, moduleList, writerExecutors, created, urlPaths, strings, misused, statistics>>

Handle(c) ==
  /\ contexts[c].state = "request" /\ ~contexts[c].upgrade
  /\ contexts' = [contexts EXCEPT ![c].state = "answered"]
  /\ UNCHANGED <<requestExecutors, socketExecutors, moduleList, writerExecutors, created, urlPaths, strings, misused, chained, statistics>>

(* The connection ends, with or without an answer: serverRequestCompleted, which
   follows the operations without asking whether there are any. Without them the
   process ends here, so that nothing follows. *)
RequestCompleted(c) ==
  /\ contexts[c] # Idle /\ contexts[c].operations # "none"
  /\ \E end \in {Finalized(urlPaths, misused, contexts[c].path)} : urlPaths' = end.paths /\ misused' = end.misused
  /\ chained' = chained - Cardinality({ i \in DOMAIN contexts[c].chain : contexts[c].chain[i] # 0 })
  /\ contexts' = [contexts EXCEPT ![c] = Idle]
  /\ UNCHANGED <<requestExecutors, socketExecutors, moduleList, writerExecutors, created, strings, statistics>>

Executors == { moduleList[i].id : i \in DOMAIN moduleList }
WebServerNext ==
  \/ \E patterns \in MatchLists : \E memory \in 0 .. 2 * Len(patterns) :
       CreateRequestExecutor(patterns, memory) \/ CreateSocketExecutor(patterns, memory)
  \/ \E executor \in Range(moduleList) : DestroyExecutor(executor)
  \/ \E operations \in {"o", "p"} : RegisterWriter(operations) \/ UnregisterWriter(operations)
  \/ \E c \in Connections, url \in RequestUrls, refusing \in SUBSET Executors, room \in 0 .. 2 : Accept(c, url, refusing, room)
  \/ \E c \in Connections, url \in RequestUrls : AcceptUpgrade(c, url)
  \/ \E c \in Connections, refusing \in SUBSET Executors, room \in 0 .. 2 : HandleUpgrade(c, refusing, room)
  \/ \E c \in Connections, failing \in SUBSET (1 .. created.writers) : SetContentType(c, failing)
  \/ \E c \in Connections : RefuseUpgrade(c) \/ Handle(c) \/ RequestCompleted(c)
WebServerSpec == WebServerInit /\ [][WebServerNext]_serverVars

-----------------------------------------------------------------------------

AllListeners(socket) ==
  FlattenSeq([i \in DOMAIN moduleList |->
    IF moduleList[i].socket = socket THEN Listeners(moduleList[i].patterns, moduleList[i].id, socket) ELSE << >>])
ByKind(list) == FlattenSeq([k \in 1 .. 5 |-> SelectSeq(list, LAMBDA l : l.kind = k - 1)])

(* The listeners asked are those of the executors there are, strictest first and the
   older of two alike first; an executor that could not be made leaves none. What
   is counted has one entry. (addRequestListener, createRequestExecutorEx.) *)
ListenersInPlace ==
  /\ requestExecutors = ByKind(AllListeners(FALSE))
  /\ socketExecutors = ByKind(AllListeners(TRUE))
  /\ \A i, j \in DOMAIN statistics : statistics[i].url = statistics[j].url => i = j
  /\ \A i \in DOMAIN requestExecutors :
       requestExecutors[i].kind = 0 => \E j \in DOMAIN statistics : statistics[j].url = requestExecutors[i].pattern

(* A listener has its strings, and a string its listener, but for the pattern of a
   socket's executor that was not made; no string or path is freed twice, and no
   listener removed that is not in a list. (NQWebExecutor_addRequestListener and
   _addSocketListener, createRequestExecutorEx, releaseRequestExecutor.) *)
StringsOwned ==
  LET owned == UNION { Copies(l) : l \in Range(requestExecutors) \cup Range(socketExecutors) }
  IN /\ owned \subseteq strings
     /\ \A s \in strings \ owned : s.socket /\ s.is = "pattern" /\ s.executor \notin Executors
     /\ ~misused

(* Paths and writers allocated are those of the requests under way, one path for each
   that a listener took: nothing is left behind by one that was refused, whoever
   refused it and with whatever path, and nothing given back twice.
   (NQWebServer_initRequest, NQWebServer_initSocket, NQWebResponse_finalize.) *)
RequestsReturnAll ==
  LET busy == { c \in Connections : contexts[c] # Idle }
      held == { c \in busy : contexts[c].path \notin {Null, RootPath} }
  IN /\ urlPaths = { contexts[c].path : c \in held }
     /\ Cardinality(urlPaths) = Cardinality(held)
     /\ \A c \in busy : contexts[c].executor # 0 <=> contexts[c].path # Null
     /\ chained = FoldSet(LAMBDA c, n : n + Len(contexts[c].chain) - 1, 0, busy)
     /\ \A c \in busy : Last(contexts[c].chain) = 0

(* A request goes to an executor that no other one comes before: by the kind of the
   pattern that matches, then by age, of those that do not refuse it. A pattern with
   names matches if there is memory for a path of its own. *)
Rank(id, url, room) ==
  LET patterns == UNION { Range(e.patterns) : e \in { x \in Range(moduleList) : x.id = id } }
      ranks == { Kind(p) : p \in { q \in patterns : Matching([kind |-> Kind(q), pattern |-> q], url) /\ (Kind(q) = 1 => room > 1) } }
  IN IF ranks = {} THEN 5 ELSE CHOOSE k \in ranks : \A l \in ranks : k <= l
RoutedToBest ==
  \A c \in Connections :
    contexts[c] = Idle /\ contexts'[c] # Idle /\ ~contexts'[c].upgrade =>
      LET taken == contexts'[c].executor
          RankOf(id) == Rank(id, contexts'[c].url, contexts'[c].room)
      IN /\ RankOf(taken) < 5
         /\ \A e \in Range(moduleList) :
              e.socket \/ e.id \in contexts'[c].refused \/ RankOf(e.id) > RankOf(taken)
                \/ (RankOf(e.id) = RankOf(taken) /\ e.id >= taken)
RoutesToBest == [][RoutedToBest]_serverVars
=============================================================================
