------------------------------ MODULE WebPages ------------------------------
(***************************************************************************)
(* Pages of the web server, and what a request leaves behind: what the      *)
(* init of a page allocates and takes back when it fails half way; the      *)
(* contexts of posted forms; the two transports that bring requests, which  *)
(* do not give back the same things.                                        *)
(***************************************************************************)
EXTENDS Integers, FiniteSetsExt, SequencesExt

CONSTANTS Connections,
          Forms,        \* what may be posted to WebEnvView: sequences of pairs
          Documents,    \* what may be posted to WebHexView: sequences of parts
          MaxPages,     \* how many pages are ever made
          MaxServed     \* how many requests ever arrive

VARIABLES transport,    \* "mhd" or "civetweb"
          page,         \* kind and items of the page there is
          held,         \* <<page, item, part>> allocated by inits
          leaked,       \* those of them that nothing points to any more
          requests,     \* by connection
          posts,        \* how many contexts of posted forms are allocated
          contexts,     \* how many contexts of the transport are allocated
          abandoned,    \* how many of either nobody gives back
          made,         \* how many pages and requests there were
          setenv        \* the pairs given to the environment, by request
pageVars == <<transport, page, held, leaked, requests, posts, contexts, abandoned, made, setenv>>

NoPage == [kind |-> "none", items |-> 0, catalog |-> 0]
Idle == [state |-> "idle"]
PagesInit ==
  /\ transport \in {"mhd", "civetweb"}
  /\ page = NoPage /\ held = {} /\ leaked = {}
  /\ requests = [c \in Connections |-> Idle]
  /\ posts = 0 /\ contexts = 0
  /\ abandoned = [posts |-> 0, contexts |-> 0]
  /\ made = [pages |-> 0, requests |-> 0]
  /\ setenv = << >>

-----------------------------------------------------------------------------

(* For each page, what its init allocates, in its order: once, or for each of its
   items; what of the same item it gives back when it cannot have a part; and what its
   release gives back. *)
WebFileView ==
  [parts |-> <<"baseDir", "baseUrl", "mainListener", "otherListener">>,
   givenBack |-> [baseDir |-> {}, baseUrl |-> {"baseDir"}, mainListener |-> {"baseDir", "baseUrl"},
                  otherListener |-> {"mainListener", "baseDir", "baseUrl"}],
   released |-> {"otherListener", "mainListener", "baseDir", "baseUrl"}]
WebHexView ==
  [parts |-> <<"baseUrl", "mainListener", "postListener">>,
   givenBack |-> [baseUrl |-> {}, mainListener |-> {"baseUrl"}, postListener |-> {"mainListener", "baseUrl"}],
   released |-> {"postListener", "mainListener", "baseUrl"}]
WebEnvView ==
  [parts |-> <<"baseUrl", "mainListener", "setterListener">>,
   givenBack |-> [baseUrl |-> {}, mainListener |-> {"baseUrl"}, setterListener |-> {"mainListener", "baseUrl"}],
   released |-> {"setterListener", "mainListener", "baseUrl"}]
WebFileUrlMap ==
  [parts |-> <<"entry", "file", "url", "listener">>,
   givenBack |-> [entry |-> {}, file |-> {"entry"}, url |-> {"file", "entry"}, listener |-> {"file", "url", "entry"}],
   released |-> {"listener", "file", "url", "entry"}]
(* An entry is forgotten when there is no memory for one of its headers. *)
WebManifest ==
  [parts |-> <<"entry", "header", "file", "type", "listener">>,
   givenBack |-> [entry |-> {}, header |-> {}, file |-> {"header", "entry"}, type |-> {"header", "file", "entry"},
                  listener |-> {"header", "type", "file", "entry"}],
   released |-> {"listener", "header", "type", "file", "entry"}]
Pages == [FileView |-> WebFileView, HexView |-> WebHexView, EnvView |-> WebEnvView, FileUrlMap |-> WebFileUrlMap, Manifest |-> WebManifest]
Parts(kind) == Pages[kind].parts
Lists == {"FileUrlMap", "Manifest"}

(* The init fails at a part of an item: those before are finalized with the list
   they are in. *)
Before(kind, item, part) ==
  LET at == CHOOSE k \in DOMAIN Parts(kind) : Parts(kind)[k] = part
  IN { <<i, Parts(kind)[k]>> : i \in 1 .. item, k \in DOMAIN Parts(kind) }
     \ { <<item, Parts(kind)[k]>> : k \in at .. Len(Parts(kind)) }
Undone(kind, item, part) ==
  (1 .. item - 1) \X Pages[kind].released \cup {item} \X Pages[kind].givenBack[part]
Of(pageId, parts) == { <<pageId, p[1], p[2]>> : p \in parts }

InitFails(kind, items, item, part) ==
  LET id == made.pages + 1
  IN /\ page = NoPage /\ made.pages < MaxPages
     /\ held' = held \cup Of(id, Before(kind, item, part) \ Undone(kind, item, part))
     /\ leaked' = IF part = "header" THEN leaked \cup {<<id, item, "entry">>} ELSE leaked
     /\ made' = [made EXCEPT !.pages = id]
     /\ UNCHANGED <<transport, page, requests, posts, contexts, abandoned, setenv>>

(* A map of no items is refused; an entry of the catalog without memory is left out. *)
InitPage(kind, items, catalog) ==
  LET id == made.pages + 1
  IN /\ page = NoPage /\ made.pages < MaxPages
     /\ kind = "FileUrlMap" => items > 0
     /\ page' = [kind |-> kind, items |-> items, catalog |-> catalog]
     /\ held' = held \cup Of(id, (1 .. items) \X Range(Parts(kind)))
     /\ made' = [made EXCEPT !.pages = id]
     /\ UNCHANGED <<transport, leaked, requests, posts, contexts, abandoned, setenv>>

(* While no request is with its listeners: what else happens is the caller's. *)
ReleasePage ==
  /\ page # NoPage /\ \A c \in Connections : requests[c] = Idle
  /\ held' = held \ Of(made.pages, (1 .. page.items) \X Pages[page.kind].released)
  /\ page' = NoPage
  /\ UNCHANGED <<transport, leaked, requests, posts, contexts, abandoned, made, setenv>>

-----------------------------------------------------------------------------

(* WebRequest_onMultiPartParser, for one event; failed if it says no. *)
NoContext == [memory |-> FALSE]
HexContext == [inFileState |-> "Init", lastContentType |-> "", contentType |-> "", contentData |-> << >>, hasContentData |-> FALSE, failed |-> FALSE]
OnMultiPart(ctx, event) ==
  CASE ctx.failed -> ctx
    [] event.type = "Boundary" /\ ctx.inFileState = "Process" -> [ctx EXCEPT !.inFileState = "Complete", !.hasContentData = TRUE]
    [] event.type = "Disposition" /\ ctx.inFileState = "Init" /\ event.value = "file" ->
         [ctx EXCEPT !.contentType = ctx.lastContentType, !.inFileState = "Process"]
    [] event.type = "ContentType" /\ ctx.inFileState # "Complete" /\ event.value = "long" -> [ctx EXCEPT !.failed = TRUE]
    [] event.type = "ContentType" /\ ctx.inFileState = "Init" -> [ctx EXCEPT !.lastContentType = event.value]
    [] event.type = "ContentType" /\ ctx.inFileState = "Process" -> [ctx EXCEPT !.contentType = event.value]
    [] event.type = "BodyPart" /\ ctx.inFileState = "Process" -> [ctx EXCEPT !.contentData = Append(@, event.value)]
    [] OTHER -> ctx

(* The events of a part: its header lines, its body, the boundary behind it. *)
Events(part) ==
  LET disposition == [type |-> "Disposition", value |-> part.name]
      content == IF part.contentType = "" THEN << >> ELSE <<[type |-> "ContentType", value |-> part.contentType]>>
  IN (IF part.typeFirst THEN content \o <<disposition>> ELSE <<disposition>> \o content)
     \o <<[type |-> "BodyPart", value |-> part.data], [type |-> "Boundary", value |-> ""]>>

(* The init of a listener for posts: the context, if it takes the request. WebHexView
   wants memory and a boundary in the header; WebEnvView does without memory. *)
PostInit(memory, boundary) == IF memory /\ boundary THEN {HexContext} ELSE {}
SetterInit(memory) == {IF memory THEN [success |-> TRUE, buffer |-> << >>] ELSE NoContext}

(* A request is routed; the transport has made its context, and gives it back if no
   listener takes the request. *)
Request(c, form, taken) ==
  /\ requests[c] = Idle /\ made.requests < MaxServed
  /\ made' = [made EXCEPT !.requests = @ + 1]
  /\ setenv' = Append(setenv, << >>)
  /\ IF taken = {} THEN UNCHANGED <<requests, posts, contexts>>
     ELSE \E ctx \in taken :
            /\ requests' = [requests EXCEPT ![c] = [state |-> "receive", id |-> made'.requests, form |-> form, received |-> 0,
                                                    ctx |-> ctx, status |-> "", name |-> 1]]
            /\ posts' = IF ctx = NoContext THEN posts ELSE posts + 1
            /\ contexts' = contexts + 1
  /\ UNCHANGED <<transport, page, held, leaked, abandoned>>
Post(c) ==
  \/ /\ page.kind = "HexView"
     /\ \E form \in Documents, memory, boundary \in BOOLEAN : Request(c, form, PostInit(memory, boundary))
  \/ /\ page.kind = "EnvView"
     /\ \E form \in Forms, memory \in BOOLEAN : Request(c, form, SetterInit(memory))

(* A chunk: a part of a document or a pair of a form. full: the form's buffer cannot
   grow, after which it keeps nothing more. *)
Received(c, ctx) ==
  /\ requests[c].state = "receive" /\ requests[c].received < Len(requests[c].form)
  /\ requests' = [requests EXCEPT ![c].received = @ + 1, ![c].ctx = ctx]
  /\ UNCHANGED <<transport, page, held, leaked, posts, contexts, abandoned, made, setenv>>
Chunk(c) == requests[c].form[requests[c].received + 1]
PostReceive(c) ==
  /\ page.kind = "HexView"
  /\ Received(c, FoldLeft(OnMultiPart, requests[c].ctx, Events(Chunk(c))))
SetterReceive(c, full) ==
  /\ page.kind = "EnvView" /\ requests[c].state = "receive"
  /\ \E ctx \in {requests[c].ctx} :
       Received(c, IF ctx = NoContext \/ ~ctx.success THEN ctx
                   ELSE IF full THEN [ctx EXCEPT !.success = FALSE] ELSE [ctx EXCEPT !.buffer = Append(@, Chunk(c))])

(* The handler of WebHexView; received by then is all that the client sends. *)
PostHandler(c) ==
  LET r == requests[c]
  IN /\ r.state = "receive" /\ page.kind = "HexView"
     /\ requests' = [requests EXCEPT ![c].state = "answered",
                       ![c].status = IF r.received < Len(r.form) \/ r.ctx.failed \/ ~r.ctx.hasContentData THEN "BAD_REQUEST" ELSE "OK"]
     /\ UNCHANGED <<transport, page, held, leaked, posts, contexts, abandoned, made, setenv>>

(* The handler of WebEnvView, pair by pair: other threads set the environment in
   between. A pair that is refused ends it, those before stay set. *)
SetterStatus(r) ==
  CASE r.ctx = NoContext -> "SERVER_ERROR"
    [] ~r.ctx.success -> "SERVER_ERROR"
    [] r.name > Len(r.ctx.buffer) -> IF r.name = 1 THEN "BAD_REQUEST" ELSE "MOVED"
    [] r.ctx.buffer[r.name].pair \in {"no delimiter", "bad escape"} -> "BAD_REQUEST"
    [] r.ctx.buffer[r.name].pair = "not set" -> "SERVER_ERROR"
    [] OTHER -> ""
SetterHandler(c) ==
  LET r == requests[c]
      status == SetterStatus(r)
  IN /\ r.state \in {"receive", "set"} /\ page.kind = "EnvView"
     /\ requests' = [requests EXCEPT ![c].state = IF status = "" THEN "set" ELSE "answered", ![c].status = status,
                                     ![c].name = IF status = "" THEN @ + 1 ELSE @]
     /\ setenv' = IF status = "" THEN [setenv EXCEPT ![r.id] = Append(@, r.ctx.buffer[r.name])] ELSE setenv
     /\ UNCHANGED <<transport, page, held, leaked, posts, contexts, abandoned, made>>

(* The end of a request. libmicrohttpd calls the listener's release, whether there was
   an answer or not. *)
PostsOf(r) == IF r.ctx = NoContext THEN 0 ELSE 1
ServerRequestCompleted(c) ==
  /\ transport = "mhd" /\ requests[c].state \in {"receive", "answered"}
  /\ requests' = [requests EXCEPT ![c] = Idle]
  /\ posts' = posts - PostsOf(requests[c]) /\ contexts' = contexts - 1
  /\ UNCHANGED <<transport, page, held, leaked, abandoned, made, setenv>>

(* civetweb's requestHandler does not, and returns early when the client cannot be
   read. *)
RequestHandlerReturns(c) ==
  LET broken == requests[c].state = "receive"
  IN /\ transport = "civetweb" /\ requests[c].state \in {"receive", "answered"}
     /\ requests' = [requests EXCEPT ![c] = Idle]
     /\ contexts' = IF broken THEN contexts ELSE contexts - 1
     /\ abandoned' = [posts |-> abandoned.posts + PostsOf(requests[c]), contexts |-> abandoned.contexts + IF broken THEN 1 ELSE 0]
     /\ UNCHANGED <<transport, page, held, leaked, posts, made, setenv>>

(* civetweb's web sockets: what websocketConnect refuses after it made the context
   leaves it behind. accepted: there was memory for the socket and a listener. *)
WebsocketConnect(c, accepted) ==
  /\ transport = "civetweb" /\ requests[c] = Idle /\ made.requests < MaxServed
  /\ made' = [made EXCEPT !.requests = @ + 1]
  /\ setenv' = Append(setenv, << >>)
  /\ contexts' = contexts + 1
  /\ requests' = IF accepted THEN [requests EXCEPT ![c] = [state |-> "connected"]] ELSE requests
  /\ abandoned' = IF accepted THEN abandoned ELSE [abandoned EXCEPT !.contexts = @ + 1]
  /\ UNCHANGED <<transport, page, held, leaked, posts>>
WebsocketOpen(c) ==
  /\ requests[c].state = "connected"
  /\ requests' = [requests EXCEPT ![c].state = "open"]
  /\ UNCHANGED <<transport, page, held, leaked, posts, contexts, abandoned, made, setenv>>
WebsocketCloseHandler(c) ==
  /\ requests[c].state \in {"connected", "open"}
  /\ requests' = [requests EXCEPT ![c] = Idle]
  /\ contexts' = contexts - 1
  /\ UNCHANGED <<transport, page, held, leaked, posts, abandoned, made, setenv>>

Kinds == {"FileView", "HexView", "EnvView", "FileUrlMap", "Manifest"}
Items(kind) == IF kind \in Lists THEN 0 .. 2 ELSE {1}
PagesNext ==
  \/ \E kind \in Kinds : \E items \in Items(kind) :
       \/ \E item \in 1 .. items, part \in Range(Parts(kind)) : InitFails(kind, items, item, part)
       \/ \E catalog \in IF kind = "Manifest" THEN {0, 1} ELSE {0} : InitPage(kind, items, catalog)
  \/ ReleasePage
  \/ \E c \in Connections, full \in BOOLEAN : SetterReceive(c, full)
  \/ \E c \in Connections, accepted \in BOOLEAN : WebsocketConnect(c, accepted)
  \/ \E c \in Connections :
       \/ Post(c) \/ PostReceive(c) \/ PostHandler(c) \/ SetterHandler(c)
       \/ ServerRequestCompleted(c) \/ RequestHandlerReturns(c)
       \/ WebsocketOpen(c) \/ WebsocketCloseHandler(c)
PagesSpec == PagesInit /\ [][PagesNext]_pageVars

-----------------------------------------------------------------------------

(* What inits allocated is what the page there is has, besides the entries of
   manifests whose headers found no memory; contexts are those of the requests under
   way, besides what civetweb leaves behind. (WebFileView.c, WebHexView.c, WebEnvView.c,
   WebFileUrlMap.c, WebManifest.c, civetweb/WebServerOperations.c.) *)
UnderWay == { c \in Connections : requests[c] # Idle }
PagesGiveBack ==
  /\ held = leaked \cup IF page = NoPage THEN {} ELSE Of(made.pages, (1 .. page.items) \X Range(Parts(page.kind)))
  /\ contexts = Cardinality(UnderWay) + abandoned.contexts
  /\ posts = abandoned.posts + Cardinality({ c \in UnderWay : "ctx" \in DOMAIN requests[c] /\ requests[c].ctx # NoContext })
  /\ transport = "mhd" => abandoned = [posts |-> 0, contexts |-> 0]

(* A form is answered by a redirection only if each of its pairs was set, and otherwise
   those before the first bad one were. The hex view shows the first part called file, whole,
   with its own type; without one it shows the last type of the parts before it.
   (WebEnvView.c: setterHandler; WebHexView.c: WebRequest_onMultiPartParser.) *)
Typed(parts) == IF parts = << >> \/ \A i \in DOMAIN parts : parts[i].contentType = "" THEN ""
                ELSE parts[Max({ i \in DOMAIN parts : parts[i].contentType # "" })].contentType
FormsAnswered ==
  \A c \in Connections : requests[c] # Idle /\ "status" \in DOMAIN requests[c] =>
    LET r == requests[c]
        files == { i \in DOMAIN r.form : page.kind = "HexView" /\ r.form[i].name = "file" }
    IN /\ IsPrefix(setenv[r.id], r.form)
       /\ r.status = "MOVED" => setenv[r.id] = SubSeq(r.form, 1, r.received) /\ \A i \in 1 .. r.received : r.form[i].pair = "good"
       /\ r.status = "OK" => /\ files # {}
                             /\ r.ctx.contentData = <<r.form[Min(files)].data>>
                             /\ r.ctx.contentType = Typed(SubSeq(r.form, 1, Min(files)))
=============================================================================
