----------------------------- MODULE SpyServer -----------------------------
(***************************************************************************)
(* The spying proxy: for each connection it accepts it makes one to the     *)
(* target, and passes on what either side sends through a queue of buffers  *)
(* of the other. One thread polls all sockets and works through what poll() *)
(* found; connections that were closed are freed at the next round. Sockets *)
(* are external: they take and bring buffers, fail, and hang up.            *)
(***************************************************************************)
EXTENDS Naturals, Sequences, SequencesExt, FiniteSets, FiniteSetsExt

CONSTANTS MaxConn,    \* MAX_CONN: how many connections there is room for
          MaxBuffers, \* NQ_NETBUFFERENTRIES_MAX
          MaxData,    \* how many buffers the sockets bring in all
          MaxAccepts  \* how many connections come

Conns == 1 .. MaxConn
Sides == {"client", "remote"}
Partner(side) == IF side = "client" THEN "remote" ELSE "client"
Nodes == Conns \X Sides
PartnerOf(node) == <<node[1], Partner(node[2])>>

VARIABLES active,   \* connActiveList, the first first
          free,     \* connFreeList
          state,    \* of each node: "close", "init" or "open"
          queue,    \* of each node: what its socket is to send
          batch,    \* what poll() was asked and is not worked through: [node, events]
          phase,    \* "round", "accepting", "working" or "stopped"
          received, \* of each node: how many buffers its socket brought
          taken,    \* of each node: what its socket took
          told,     \* of each node: what the modules were told: connect, close
          sockets,  \* how many sockets are open, but for the one that listens
          failed,   \* an assertion failed
          accepted  \* how many connections came
spyVars == <<active, free, state, queue, batch, phase, received, taken, told, sockets, failed, accepted>>

(* A socket's buffers: those that are not in the queue are free. *)
NQNetBufferQueue_init == << >>
NQNetBufferQueue_isEmpty(buffers) == buffers = << >>
NQNetBufferQueue_alloc(buffers, data) == Append(buffers, data)
NQNetBufferQueue_shift(buffers) == Tail(buffers)
AllUsed(buffers) == Len(buffers) = MaxBuffers

SpyInit ==
  /\ active = << >> /\ free = [k \in Conns |-> MaxConn + 1 - k]
  /\ state = [n \in Nodes |-> "close"]
  /\ queue = [n \in Nodes |-> NQNetBufferQueue_init]
  /\ batch = << >> /\ phase = "round"
  /\ received = [n \in Nodes |-> 0] /\ taken = [n \in Nodes |-> << >>] /\ told = [n \in Nodes |-> << >>]
  /\ sockets = 0 /\ failed = FALSE /\ accepted = 0

Closed(c) == \A side \in Sides : state[<<c, side>>] = "close"

(* The head of the loop: it walks over the list, closed connections leave it, the
   rest is polled, for output only if there is some or a connect is under way. *)
Asked(n) == IF state[n] = "init" THEN {"out"} ELSE IF NQNetBufferQueue_isEmpty(queue[n]) THEN {"in"} ELSE {"in", "out"}
PolledNode(n) == IF state[n] = "close" THEN << >> ELSE <<[node |-> n, events |-> Asked(n)]>>
Visit(seen, c) ==
  IF Closed(c) THEN [seen EXCEPT !.free = <<c>> \o @]
  ELSE [seen EXCEPT !.active = Append(@, c), !.polled = @ \o PolledNode(<<c, "client">>) \o PolledNode(<<c, "remote">>)]
Visited[k \in 0 .. Len(active)] ==
  IF k = 0 THEN [active |-> << >>, free |-> free, polled |-> << >>] ELSE Visit(Visited[k - 1], active[k])
PollAll ==
  /\ phase = "round"
  /\ LET seen == Visited[Len(active)]
     IN active' = seen.active /\ free' = seen.free /\ batch' = seen.polled
  /\ phase' = "accepting"
  /\ UNCHANGED <<state, queue, received, taken, told, sockets, failed, accepted>>

(* poll() fails, or the listening socket does: the sockets stay open. *)
Stop ==
  /\ phase = "accepting" /\ phase' = "stopped"
  /\ UNCHANGED <<active, free, state, queue, batch, received, taken, told, sockets, failed, accepted>>

-----------------------------------------------------------------------------

(* NQSpyServer_onSocketAccept, first of all in a round; what fails on the way closes
   what was opened. The connect is done, or under way. *)
Accept(how) ==
  /\ phase = "accepting" /\ accepted < MaxAccepts /\ free # << >>
  /\ phase' = "working"
  /\ accepted' = accepted + 1
  /\ LET c == Head(free)
         of(client, remote) == [n \in Nodes |-> IF n[1] # c THEN state[n] ELSE IF n[2] = "client" THEN client ELSE remote]
         Fresh(f, none) == [n \in Nodes |-> IF n[1] = c THEN none ELSE f[n]]
     IN /\ active' = <<c>> \o active /\ free' = Tail(free)
        /\ state' = of("open", how)
        /\ queue' = Fresh(queue, NQNetBufferQueue_init)
        /\ received' = Fresh(received, 0) /\ taken' = Fresh(taken, << >>)
        /\ told' = [n \in Nodes |-> IF n[1] # c THEN told[n] ELSE IF state'[n] = "open" THEN <<"connect">> ELSE << >>]
  /\ sockets' = sockets + 2
  /\ UNCHANGED <<batch, failed>>

(* No room, or a call fails: what was opened on the way is closed. *)
Refuse ==
  /\ phase = "accepting" /\ accepted < MaxAccepts
  /\ phase' = "working"
  /\ accepted' = accepted + 1
  /\ UNCHANGED <<active, free, state, queue, batch, received, taken, told, sockets, failed>>

NobodyComes ==
  /\ phase = "accepting" /\ phase' = "working"
  /\ UNCHANGED <<active, free, state, queue, batch, received, taken, told, sockets, failed, accepted>>

-----------------------------------------------------------------------------

(* A spy node and what happens to it while poll()'s answer is worked through. *)
Server == [state |-> state, queue |-> queue, received |-> received, taken |-> taken, told |-> told, sockets |-> sockets, failed |-> failed]

CloseNode(s, n) ==
  IF s.state[n] = "close" THEN s
  ELSE [s EXCEPT !.state[n] = "close", !.sockets = @ - 1, !.told[n] = Append(@, "close")]
CloseConnection(s, n) == CloseNode(CloseNode(s, <<n[1], "client">>), <<n[1], "remote">>)

OnError(s, n) == IF s.state[n] = "open" THEN CloseConnection(s, n) ELSE s
OnClose(s, n) == OnError(s, n)

(* connects: the pending connect came to something. takes: all of the buffer. *)
OnSend(s, n, connects, takes) ==
  IF s.state[n] = "init"
  THEN IF connects THEN [s EXCEPT !.state[n] = "open", !.told[n] = Append(@, "connect")] ELSE CloseConnection(s, n)
  ELSE IF s.state[n] = "close" THEN s
  ELSE IF NQNetBufferQueue_isEmpty(s.queue[n]) THEN [s EXCEPT !.failed = TRUE]
  ELSE IF ~takes THEN CloseConnection([s EXCEPT !.queue[n] = NQNetBufferQueue_shift(@)], n)
  ELSE [s EXCEPT !.queue[n] = NQNetBufferQueue_shift(@), !.taken[n] = Append(@, Head(s.queue[n]))]

(* A buffer of the partner's is taken before anything is received. *)
OnRecv(s, n, brings) ==
  IF s.state[n] # "open" THEN s
  ELSE IF AllUsed(s.queue[PartnerOf(n)]) \/ ~brings THEN CloseConnection(s, n)
  ELSE [s EXCEPT !.received[n] = @ + 1, !.queue[PartnerOf(n)] = NQNetBufferQueue_alloc(@, s.received[n] + 1)]

Brought == MapThenSumSet(LAMBDA n : received[n], Nodes)

(* The next of the batch, with what poll() said of it: events is what it asked for
   that came, and errors that come unasked. *)
Work(events, connects, takes, brings) ==
  /\ phase = "working" /\ batch # << >>
  /\ brings => Brought < MaxData
  /\ LET n == Head(batch).node
         s1 == IF "err" \in events THEN OnError(Server, n) ELSE Server
         s2 == IF "hup" \in events THEN OnClose(s1, n) ELSE s1
         s3 == IF "out" \in events THEN OnSend(s2, n, connects, takes) ELSE s2
         s4 == IF "in" \in events THEN OnRecv(s3, n, brings) ELSE s3
     IN /\ events \cap {"in", "out"} \subseteq Head(batch).events
        /\ state' = s4.state /\ queue' = s4.queue /\ received' = s4.received /\ taken' = s4.taken
        /\ told' = s4.told /\ sockets' = s4.sockets /\ failed' = s4.failed
  /\ batch' = Tail(batch)
  /\ UNCHANGED <<active, free, phase, accepted>>

NextRound ==
  /\ phase = "working" /\ batch = << >>
  /\ phase' = "round"
  /\ UNCHANGED <<active, free, state, queue, batch, received, taken, told, sockets, failed, accepted>>

SpyNext ==
  \/ PollAll \/ Stop \/ NobodyComes \/ Refuse \/ NextRound
  \/ \E how \in {"open", "init"} : Accept(how)
  \/ \E events \in SUBSET {"err", "hup", "out", "in"}, connects, takes, brings \in BOOLEAN : Work(events, connects, takes, brings)
SpySpec == SpyInit /\ [][SpyNext]_spyVars

-----------------------------------------------------------------------------

(* Each connection is in one of the two lists, the free ones closed; no socket is
   leaked while the server runs; an output event finds output, as is asserted. *)
ConnectionsAccounted ==
  /\ Range(active) \cap Range(free) = {} /\ Range(active) \cup Range(free) = Conns
  /\ Len(active) + Len(free) = Cardinality(Conns)
  /\ \A c \in Range(free) : Closed(c)
  /\ sockets = Cardinality({n \in Nodes : state[n] # "close"})
  /\ ~failed

(* What a side sent reaches the other in order, nothing lost but what a close cuts
   off, nothing of a connection that had the same place before; and the modules hear
   of one close for a connection of both sides, of a connect before it unless the
   target was never reached. *)
SpyForwards ==
  \A n \in Nodes :
    /\ \A i \in DOMAIN taken[n] : taken[n][i] = i
    /\ state[n] # "close" =>
         taken[n] \o queue[n] = [i \in 1 .. received[PartnerOf(n)] |-> i]
    /\ \/ told[n] \in {<< >>, <<"connect">>, <<"connect", "close">>}
       \/ n[2] = "remote" /\ told[n] = <<"close">>
    /\ (state[n] = "open") = (told[n] = <<"connect">>)
=============================================================================
