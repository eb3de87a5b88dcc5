----------------------------- MODULE JSONWriter -----------------------------
(***************************************************************************)
(* The streaming JSON writer: it checks the order of the calls and puts in  *)
(* the punctuation. Keys, strings, numbers and the other plain values are   *)
(* one token each; the text is the sequence of tokens written so far.       *)
(***************************************************************************)
EXTENDS Integers, Sequences, SequencesExt

CONSTANTS MaxDepth,   \* the last index of depth: 254 in the code
          MaxText     \* how long the text may get

Level(isObject, hasChild, hasKey) == [isObject |-> isObject, hasChild |-> hasChild, hasKey |-> hasKey]

(* NQJSONWriter_init leaves the level outside of everything as it finds it:
   garbage is whether it looks like an object. lost: depthIndex went below 0. *)
NQJSONWriter_init(garbage) ==
  [outside |-> Level(garbage, FALSE, FALSE), depth |-> << >>, count |-> 0, hasError |-> FALSE, lost |-> FALSE, text |-> << >>]

Current(w) == IF w.depth = << >> THEN w.outside ELSE Last(w.depth)
SetCurrent(w, level) == IF w.depth = << >> THEN w ELSE [w EXCEPT !.depth[Len(w.depth)] = level]
Put(w, tokens) == [w EXCEPT !.text = @ \o tokens]
Error(w) == [w EXCEPT !.hasError = TRUE]

(* writeKey, which asks twice for an object. *)
WriteKey(w) ==
  LET level == Current(w)
  IN IF ~level.isObject \/ w.depth = << >> \/ level.hasKey THEN Error(w)
     ELSE SetCurrent(Put(w, IF level.hasChild THEN <<",", "key">> ELSE <<"key">>), [level EXCEPT !.hasKey = TRUE])

(* writeValDelimiter: the colon or comma before a value. *)
WriteValDelimiter(w) ==
  LET level == Current(w)
  IN IF w.depth = << >> THEN IF w.count = 0 THEN w ELSE Error(w)
     ELSE IF level.isObject /\ ~level.hasKey THEN Error(w)
     ELSE SetCurrent(Put(w, IF level.isObject THEN <<":">> ELSE IF level.hasChild THEN <<",">> ELSE << >>),
                     [level EXCEPT !.hasKey = FALSE, !.hasChild = TRUE])

(* writeString, writeInt64, writeUint64, writeDouble, writeNull, writeBool. *)
WriteValue(w) ==
  LET delimited == WriteValDelimiter(w)
  IN IF delimited.hasError THEN delimited ELSE [Put(delimited, <<"value">>) EXCEPT !.count = @ + 1]

WriteBegin(w, isObject) ==
  LET delimited == WriteValDelimiter(w)
  IN IF Len(w.depth) >= MaxDepth THEN Error(w)
     ELSE IF delimited.hasError THEN delimited
     ELSE [Put(delimited, IF isObject THEN <<"{">> ELSE <<"[">>) EXCEPT !.depth = Append(@, Level(isObject, FALSE, FALSE))]

WriteEnd(w, isObject) ==
  IF Current(w).isObject # isObject THEN Error(w)
  ELSE [Put(w, IF isObject THEN <<"}">> ELSE <<"]">>) EXCEPT
          !.depth = IF @ = << >> THEN @ ELSE Front(@), !.lost = (w.depth = << >>), !.count = @ + 1]

Calls == {"key", "value", "{", "}", "[", "]"}

(* NQJSONWriter_writeKey, _writeString, _writeObjectBegin and all the others:
   nothing is written after an error. The functions that write a key and a
   value are two calls. *)
Call(w, call) ==
  IF w.hasError THEN w
  ELSE CASE call = "key" -> WriteKey(w)
         [] call = "value" -> WriteValue(w)
         [] call \in {"{", "["} -> WriteBegin(w, call = "{")
         [] OTHER -> WriteEnd(w, call = "}")

-----------------------------------------------------------------------------

(* A JSON text token by token: open is what is open, want what may come next. *)
Accepted(text) ==
  LET Closed(st) == [st EXCEPT !.open = Front(@), !.want = IF Len(st.open) = 1 THEN "nothing" ELSE "comma"]
      Valued(st) == [st EXCEPT !.want = IF st.open = << >> THEN "nothing" ELSE "comma"]
      Step(st, token) ==
        CASE token = "value" /\ st.want \in {"value", "value or ]"} -> Valued(st)
          [] token = "{" /\ st.want \in {"value", "value or ]"} -> [st EXCEPT !.open = Append(@, "{"), !.want = "key or }"]
          [] token = "[" /\ st.want \in {"value", "value or ]"} -> [st EXCEPT !.open = Append(@, "["), !.want = "value or ]"]
          [] token = "key" /\ st.want \in {"key", "key or }"} -> [st EXCEPT !.want = "colon"]
          [] token = ":" /\ st.want = "colon" -> [st EXCEPT !.want = "value"]
          [] token = "," /\ st.want = "comma" -> [st EXCEPT !.want = IF Last(st.open) = "{" THEN "key" ELSE "value"]
          [] token = "}" /\ st.want \in {"comma", "key or }"} /\ Last(st.open) = "{" -> Closed(st)
          [] token = "]" /\ st.want \in {"comma", "value or ]"} /\ Last(st.open) = "[" -> Closed(st)
          [] OTHER -> [st EXCEPT !.want = "error"]
  IN FoldLeft(Step, [open |-> << >>, want |-> "value"], text)

IsJSON(text) == Accepted(text).want = "nothing"
IsPrefixOfJSON(text) == Accepted(text).want # "error"

(* What the writer does not refuse although it is no JSON: the end of an object
   after a key, and an end where nothing is open. *)
EndsAfterKey(text) == \E i \in 2 .. Len(text) : text[i - 1] = "key" /\ text[i] = "}"

-----------------------------------------------------------------------------

VARIABLES json,    \* the writer
          refused  \* the call that was the first error, "" if none

jsonVars == <<json, refused>>

JSONInit == \E garbage \in BOOLEAN : json = NQJSONWriter_init(garbage) /\ refused = ""

(* The callback may fail in any call: all that counts then is the error. *)
Write(call) ==
  /\ ~json.hasError /\ ~json.lost /\ Len(json.text) < MaxText
  /\ \/ json' = Call(json, call) /\ refused' = IF json'.hasError THEN call ELSE ""
     \/ json' = Error(json) /\ refused' = "callback"

JSONNext == \E call \in Calls : Write(call)

JSONSpec == JSONInit /\ [][JSONNext]_jsonVars

(* What was written without an error is the beginning of a JSON text, but for
   the two kinds of calls the writer does not refuse; and what it refuses would
   have made no JSON, or lies too deep. (JSONWriter.c: writeKeyDelimiter,
   writeValDelimiter and the levels of depth.) *)
WritesJSON ==
  LET text == IF refused = "key" /\ Current(json).hasChild THEN Append(json.text, ",") ELSE json.text
  IN /\ ~json.lost /\ ~EndsAfterKey(json.text) => IsPrefixOfJSON(json.text)
     /\ json.hasError /\ refused # "callback" /\ ~EndsAfterKey(json.text) =>
          \/ refused \in {"{", "["} /\ Len(json.depth) = MaxDepth
          \/ ~IsPrefixOfJSON(Append(text, refused))

-----------------------------------------------------------------------------
(***************************************************************************)
(* Who writes JSON: the DBC document, the JSON-RPC errors, the environment,  *)
(* the HTTP statistics, and a parsed JSON value. Each is the sequence of the *)
(* calls of JSONWriter it makes, as long as none of them fails.              *)
(***************************************************************************)

Property == <<"key", "value">>
Properties(n) == FlattenSeq([i \in 1 .. n |-> Property])
Values(n) == [i \in 1 .. n |-> "value"]
Object(calls) == <<"{">> \o calls \o <<"}">>
Array(calls) == <<"[">> \o calls \o <<"]">>
KeyObject(calls) == <<"key">> \o Object(calls)
KeyArray(calls) == <<"key">> \o Array(calls)
When(condition, calls) == IF condition THEN calls ELSE << >>

(* A DBC signal is a record of comment, attributes, receivers, start (it has a
   GenSigStartValue) and grouped; a group a sequence of signals; a message a
   record of comment, attributes, groups, signals, senders, pseudo and cycle; a
   document one of comment, attributes, version, symbols, bitTiming, messages,
   j1939, protocol and bus. *)

(* NQDBCAttributeWriteTo for each attribute: always one property. *)
Attributes(n) == When(n # 0, KeyObject(Properties(n)))

NQDBCSignalWriteTo(signal) ==
  Object(Property \o When(signal.comment, Property) \o Attributes(signal.attributes) \o Properties(9)
         \o When(signal.receivers # 0, KeyArray(Values(signal.receivers))) \o When(signal.start, Property))

NQDBCSigGroupWriteTo(group) ==
  Object(Property \o KeyArray(FlattenSeq([i \in DOMAIN group |-> NQDBCSignalWriteTo(group[i])])))

NQDBCMessageWriteTo(message, isJ1939) ==
  LET alone == SelectSeq(message.signals, LAMBDA s : ~s.grouped)
  IN Object(Property \o When(message.comment, Property) \o Attributes(message.attributes) \o Properties(2)
            \o When(isJ1939, KeyObject(Properties(5))) \o Property
            \o KeyArray(FlattenSeq([i \in DOMAIN message.groups |-> NQDBCSigGroupWriteTo(message.groups[i])]))
            \o KeyArray(FlattenSeq([i \in DOMAIN alone |-> NQDBCSignalWriteTo(alone[i])]))
            \o When(message.senders # 0, KeyArray(Values(message.senders)))
            \o When(message.pseudo, Property) \o When(message.cycle, Property))

NQDBCDocumentWriteTo(document) ==
  Object(Property \o When(document.comment, Property) \o Attributes(document.attributes) \o When(document.version, Property)
         \o KeyArray(Values(document.symbols)) \o When(document.bitTiming, KeyObject(Properties(3)))
         \o KeyArray(FlattenSeq([i \in DOMAIN document.messages |-> NQDBCMessageWriteTo(document.messages[i], document.j1939)]))
         \o When(document.protocol, Property) \o When(document.bus, Property))

NQJSONWriter_writeJsonRpcErrorParams(code, message) == Object(When(code # 0, Property) \o When(message, Property))

NQWebResponse_writeJsonRpcError(code, message) ==
  Object(<<"key">> \o NQJSONWriter_writeJsonRpcErrorParams(code, message) \o Property)

(* The variables of the environment in order: whether one has a name and a "=",
   or, "no memory", cannot be read. Then the response is left as it is. *)
AllEnvRequest(available, variables) ==
  LET failing == { i \in DOMAIN variables : variables[i] = "no memory" }
      first == CHOOSE i \in failing : \A j \in failing : i <= j
      Named(seq) == Properties(Len(SelectSeq(seq, LAMBDA v : v = "named")))
  IN IF ~available THEN Object(KeyObject(Property))
     ELSE IF failing = {} THEN Object(KeyObject(Named(variables)))
     ELSE <<"{", "key", "{">> \o Named(SubSeq(variables, 1, first - 1))

(* getEnvRequest: a result with null or the value, or an error. *)
GetEnvRequest == Object(KeyObject(Property))

NQHttpStatistics_writeTo(entries) == Array(FlattenSeq([i \in 1 .. entries |-> Object(Properties(3))]))

(* A JSON value: a record of kind "object", "array" or "value" and its items. *)
RECURSIVE NQJSONWriter_writeJSON(_)
NQJSONWriter_writeJSON(tree) ==
  CASE tree.kind = "object" -> Object(FlattenSeq([i \in DOMAIN tree.items |-> <<"key">> \o NQJSONWriter_writeJSON(tree.items[i])]))
    [] tree.kind = "array" -> Array(FlattenSeq([i \in DOMAIN tree.items |-> NQJSONWriter_writeJSON(tree.items[i])]))
    [] OTHER -> <<"value">>
=============================================================================
