-------------------------- MODULE WebSocketSession --------------------------
(***************************************************************************)
(* A web socket of the libmicrohttpd server, from the upgrade to its end:   *)
(* threads queue frames and wake the network looper, which calls            *)
(* websocketAction once a round and polls for what that returns. The socket *)
(* buffer and the peer are external. Frames are numbered as they are        *)
(* queued; revents is what poll() found, the strongest first.               *)
(***************************************************************************)
EXTENDS Integers, Sequences, FiniteSets

CONSTANTS Threads,     \* of the application, that send
          MaxFrames,   \* how many frames are ever queued
          MaxInput     \* how many times the peer sends something

VARIABLES session,     \* "request", "opened", "added" to the looper, or "over"
          outputList,  \* the frames queued: [id, close]
          frames,      \* how many were ever queued
          sending,     \* threads between queueing a frame and waking the looper
          wakeup,      \* the looper's event is set
          events,      \* what the looper polls for
          action,      \* where websocketAction is: [at, entry, more]
          handle,      \* "open", "closed" by us, "hungUp" by the peer
          input,       \* how many more times the peer sends
          sent,        \* the frames the socket took
          calls        \* the callbacks made: open, receive, release
sessionVars == <<session, outputList, frames, sending, wakeup, events, action, handle, input, sent, calls>>

NoEntry == [id |-> 0, close |-> FALSE]
Polling == [at |-> "polling", entry |-> NoEntry, more |-> FALSE]
SessionInit ==
  /\ session = "request" /\ handle = "open"
  /\ outputList = << >> /\ frames = 0 /\ sent = << >>
  /\ sending = {} /\ wakeup = FALSE
  /\ events = {} /\ action = Polling
  /\ input = MaxInput
  /\ calls = [open |-> 0, receive |-> 0, release |-> 0]

Queued(close) ==
  /\ frames < MaxFrames
  /\ frames' = frames + 1
  /\ outputList' = Append(outputList, [id |-> frames + 1, close |-> close])

(* websocketUpgrade: the application learns of the socket before the looper does. *)
Open ==
  /\ session = "request"
  /\ session' = "opened"
  /\ calls' = [calls EXCEPT !.open = @ + 1]
  /\ UNCHANGED <<outputList, frames, sending, wakeup, events, action, handle, input, sent>>

AddSocket ==
  /\ session = "opened"
  /\ session' = "added"
  /\ events' = {} /\ wakeup' = TRUE
  /\ UNCHANGED <<outputList, frames, sending, action, handle, input, sent, calls>>

AddSocketFails ==
  /\ session = "opened"
  /\ session' = "over"
  /\ calls' = [calls EXCEPT !.release = @ + 1]
  /\ outputList' = << >>
  /\ UNCHANGED <<frames, sending, wakeup, events, action, handle, input, sent>>

(* websocketSend2 and websocketClose: the frame is queued under the mutex, the
   looper woken after it. *)
Send(t, close) ==
  /\ session \in {"opened", "added"} /\ t \notin sending
  /\ Queued(close)
  /\ sending' = sending \cup {t}
  /\ UNCHANGED <<session, wakeup, events, action, handle, input, sent, calls>>

Wake(t) ==
  /\ t \in sending
  /\ sending' = sending \ {t}
  /\ wakeup' = TRUE
  /\ UNCHANGED <<session, outputList, frames, events, action, handle, input, sent, calls>>

-----------------------------------------------------------------------------

Round ==
  /\ session = "added" /\ action = Polling
  /\ wakeup' = FALSE

EndSession ==
  /\ session' = "over"
  /\ events' = {}
  /\ action' = Polling
  /\ calls' = [calls EXCEPT !.release = @ + 1]

Failed ==
  /\ Round /\ handle # "open"
  /\ EndSession
  /\ UNCHANGED <<outputList, frames, sending, handle, input, sent>>

(* A round for somebody else's sake. *)
NothingCame ==
  /\ Round /\ handle = "open"
  /\ action' = [Polling EXCEPT !.at = "checking"]
  /\ UNCHANGED <<session, outputList, frames, sending, events, handle, input, sent, calls>>

Receive ==
  /\ Round /\ handle = "open"
  /\ "in" \in events /\ input > 0
  /\ input' = input - 1
  /\ action' = [Polling EXCEPT !.at = "checking"]
  /\ calls' = [calls EXCEPT !.receive = @ + 1]
  /\ UNCHANGED <<session, outputList, frames, sending, events, handle, sent>>

(* The end of the input, an error, or a piece of a frame. *)
ReceiveFails ==
  /\ Round /\ handle = "open"
  /\ "in" \in events /\ input > 0
  /\ input' = input - 1
  /\ EndSession
  /\ UNCHANGED <<outputList, frames, sending, handle, sent>>

(* The handler answers from the looper's own thread. *)
Answer ==
  /\ action.at = "checking"
  /\ Queued(FALSE)
  /\ wakeup' = TRUE
  /\ UNCHANGED <<session, sending, events, action, handle, input, sent, calls>>

(* A slip the code could have made: output is not asked for. *)
InputOnly(empty) == {"in"}
Requested(empty) == IF empty THEN {"in"} ELSE {"in", "out"}
Check ==
  /\ action.at = "checking"
  /\ events' = Requested(outputList = << >>)
  /\ action' = Polling
  /\ UNCHANGED <<session, outputList, frames, sending, wakeup, handle, input, sent, calls>>

(* The socket takes output: input that came too waits for another round. *)
TakeOutput ==
  /\ Round /\ handle = "open"
  /\ "out" \in events
  /\ action' = [at |-> "writing", entry |-> IF outputList = << >> THEN NoEntry ELSE Head(outputList), more |-> Len(outputList) > 1]
  /\ outputList' = IF outputList = << >> THEN << >> ELSE Tail(outputList)
  /\ UNCHANGED <<session, frames, sending, events, handle, input, sent, calls>>

(* The whole frame is written, however long the socket says EAGAIN. Its opcode is
   read after it was freed: the handle may be closed after any frame, or not. *)
Write(closes) ==
  /\ action.at = "writing"
  /\ sent' = Append(sent, action.entry.id)
  /\ handle' = IF closes /\ handle = "open" THEN "closed" ELSE handle
  /\ events' = Requested(~action.more)
  /\ action' = Polling
  /\ UNCHANGED <<session, outputList, frames, sending, wakeup, input, calls>>

(* The looper lets go of the socket; nobody is told. *)
WriteFails ==
  /\ action.at = "writing" /\ handle = "hungUp"
  /\ session' = "over"
  /\ action' = Polling
  /\ events' = {}
  /\ UNCHANGED <<outputList, frames, sending, wakeup, handle, input, sent, calls>>

HangUp ==
  /\ session \in {"opened", "added"} /\ handle = "open"
  /\ handle' = "hungUp"
  /\ UNCHANGED <<session, outputList, frames, sending, wakeup, events, action, input, sent, calls>>

LooperStep == Failed \/ Receive \/ TakeOutput \/ Check \/ (\E closes \in BOOLEAN : Write(closes)) \/ (wakeup /\ NothingCame)
SessionNext ==
  \/ Open \/ AddSocket \/ AddSocketFails
  \/ \E t \in Threads, close \in BOOLEAN : Send(t, close)
  \/ \E t \in Threads : Wake(t)
  \/ Failed \/ NothingCame \/ Receive \/ ReceiveFails \/ Answer \/ Check \/ TakeOutput
  \/ \E closes \in BOOLEAN : Write(closes)
  \/ WriteFails \/ HangUp

(* The looper goes on; the peer takes output again and again, and poll() says so. *)
SessionFairness ==
  /\ WF_sessionVars(LooperStep)
  /\ SF_sessionVars(TakeOutput)
  /\ WF_sessionVars(AddSocket \/ AddSocketFails)
  /\ \A t \in Threads : WF_sessionVars(Wake(t))
SessionSpec == SessionInit /\ [][SessionNext]_sessionVars /\ SessionFairness

-----------------------------------------------------------------------------

(* Output is asked for only while there is some; frames go out as they were queued,
   none twice and none missing while the socket lives. (websocketAction.) *)
OutputInOrder ==
  /\ action.at = "writing" => action.entry # NoEntry
  /\ "out" \in events /\ action.at # "writing" => outputList # << >>
  /\ \A i \in DOMAIN sent : sent[i] = i
  /\ session # "over" =>
       LET waiting == (IF action.at = "writing" THEN <<action.entry>> ELSE << >>) \o outputList
       IN /\ Len(sent) + Len(waiting) = frames
          /\ \A i \in DOMAIN waiting : waiting[i].id = Len(sent) + i

(* Output is not left behind: somebody asks for the socket to take it, or is about
   to look. (websocketSend2 against the unlocked end of websocketAction.) *)
OutputIsSeen ==
  session = "added" /\ outputList # << >> =>
    wakeup \/ sending # {} \/ "out" \in events \/ action.at = "checking" \/ action.more

(* open, then what is received, then one release at most. *)
CallbackOrder ==
  /\ calls.receive > 0 \/ calls.release > 0 => calls.open = 1
  /\ calls.release <= 1
  /\ session = "over" /\ handle # "hungUp" => calls.release = 1

(* What was queued is written, unless the socket ends. *)
Written(n) == frames >= n => Len(sent) >= n \/ session = "over"
OutputIsWritten == \A n \in 1 .. MaxFrames : []<>Written(n)
=============================================================================
