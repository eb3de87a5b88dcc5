-------------------------------- MODULE Urls --------------------------------
(***************************************************************************)
(* URLs taken apart: the components of a URL, its host and port, the path   *)
(* against a pattern, the query. A text is a sequence of the characters of  *)
(* TextCodecs, positions count from 1. Path and query are measured first    *)
(* and then copied into one block; here it is done once, and the measures   *)
(* are kept beside where the copy ends.                                     *)
(***************************************************************************)
EXTENDS TextCodecs

Chars(string) == [i \in DOMAIN string |-> Plain(string[i])]
Slash == Plain("/")
Colon == Plain(":")

(* strchr and strstr: where c is next, 0 if nowhere. *)
IndexFrom(text, c, from) ==
  LET found == { i \in from .. Len(text) : text[i] = c }
  IN IF found = {} THEN 0 ELSE CHOOSE i \in found : \A j \in found : i <= j
Separator(text) ==
  LET found == { i \in 1 .. Len(text) - 2 : text[i] = Colon /\ text[i + 1] = Slash /\ text[i + 2] = Slash }
  IN IF found = {} THEN 0 ELSE CHOOSE i \in found : \A j \in found : i <= j

Part(position, length) == [position |-> position, length |-> length]
NoPart == Part(0, 0)
Delimiters == [port |-> Colon, path |-> Slash, query |-> Plain("?"), fragment |-> Plain("#")]
PartOrder == <<"port", "path", "query", "fragment">>

(* Each delimiter is looked for behind the one found before, wherever it is: the
   port begins at the first colon, be it in the path. *)
NQURLDataParse(text) ==
  LET scheme == Separator(text)
      Step(st, name) ==
        LET at == IndexFrom(text, Delimiters[name], st.start)
        IN IF at = 0 THEN st
           ELSE [start |-> at, current |-> name,
                 parts |-> [st.parts EXCEPT ![st.current].length = at - st.start, ![name] = Part(at, 0)]]
      empty == [name \in {"host", "port", "path", "query", "fragment"} |-> NoPart]
      found == FoldLeft(Step, [start |-> scheme + 3, current |-> "host", parts |-> [empty EXCEPT !["host"] = Part(scheme + 3, 0)]], PartOrder)
      parts == [found.parts EXCEPT ![found.current].length = Len(text) + 1 - found.start]
  IN IF scheme <= 1 \/ parts["host"].length = 0 \/ parts["port"].length = 1 THEN [name \in {} |-> NoPart]
     ELSE [name \in DOMAIN parts \cup {"scheme"} |->
             IF name = "scheme" THEN Part(1, scheme - 1)
             ELSE IF name = "port" /\ parts["port"] # NoPart THEN Part(parts["port"].position + 1, parts["port"].length - 1)
             ELSE parts[name]]

Component(text, part) == SubSeq(text, part.position, part.position + part.length - 1)

-----------------------------------------------------------------------------

Www == Chars(<<"w", "w", "w", ".">>)

(* The port is any number of digits, none being 0. *)
NQUrlHost_parse(text) ==
  LET name == IF Len(text) > 4 /\ IsPrefix(Www, text) THEN SubSeq(text, 5, Len(text)) ELSE text
      colon == IndexFrom(name, Colon, 1)
      port == SubSeq(name, colon + 1, Len(name))
  IN IF colon = 0 THEN [ok |-> TRUE, host |-> name, hasPort |-> FALSE, port |-> << >>]
     ELSE [ok |-> \A i \in DOMAIN port : port[i] = Plain("1"), host |-> SubSeq(name, 1, colon - 1), hasPort |-> TRUE, port |-> port]

NQUrlHost_setPort(host, port) == [host EXCEPT !.hasPort = TRUE, !.port = port]
NQUrlHost_equal(a, b) == a.hasPort = b.hasPort /\ a.port = b.port /\ a.host = b.host
NQUrlHost_equalCharacters(host, text) == NQUrlHost_parse(text).ok /\ NQUrlHost_equal(host, NQUrlHost_parse(text))

-----------------------------------------------------------------------------

(* A value is decoded where it lies; if that fails half of it is. *)
DecodedInPlace(text) ==
  LET bad == CHOOSE i \in 1 .. Len(text) : text[i] = Plain("e'") /\ \A j \in 1 .. i - 1 : text[j] # Plain("e'")
      done == UrlDecode(SubSeq(text, 1, bad - 1), FALSE)
  IN IF UrlDecode(text, FALSE) # <<Plain("")>> THEN UrlDecode(text, FALSE)
     ELSE [i \in DOMAIN text |-> IF i <= Len(done) THEN done[i] ELSE text[i]]

(* Where a pattern goes on after "{name}", 0 if there is no such thing. *)
NameEnd(pattern, at) ==
  LET close == IndexFrom(pattern, Plain("}"), at + 1)
  IN IF at > Len(pattern) \/ pattern[at] # Plain("{") \/ close <= at + 1 THEN 0 ELSE close

(* urlPathInit: at is where the pattern is, 0 once it does not match; a segment
   without characters is none. *)
UrlPathInit(path, pattern) ==
  LET end == Plain("end")
      At(p, i) == IF i <= Len(p) THEN p[i] ELSE end
      Begins(st) == st.at # 0 /\ st.name = << >>
      Advance(st, c) ==
        IF ~Begins(st) THEN st
        ELSE IF At(pattern, st.at) = c THEN [st EXCEPT !.at = @ + 1]
        ELSE IF st.value # << >> \/ NameEnd(pattern, st.at) = 0 THEN [st EXCEPT !.at = 0]
        ELSE [st EXCEPT !.name = SubSeq(pattern, st.at + 1, NameEnd(pattern, st.at) - 1), !.at = NameEnd(pattern, st.at) + 1]
      Divide(st, c) ==
        LET at == IF st.at # 0 /\ At(pattern, st.at) = c THEN st.at + 1 ELSE 0
            named == IF at # 0 THEN st.name ELSE << >>
        IN IF st.value = << >> THEN [st EXCEPT !.at = at]
           ELSE [st EXCEPT !.at = at, !.name = << >>, !.value = << >>,
                           !.entries = Append(@, [name |-> named, value |-> DecodedInPlace(st.value)]),
                           !.nameAt = @ + (IF st.name = << >> THEN 0 ELSE Len(st.name) + 1),
                           !.valueAt = @ + Len(st.value) + 1,
                           !.namesLength = @ + (IF st.name = << >> THEN 0 ELSE Len(st.name) + 1),
                           !.valuesLength = @ + 1]
      Step(st, c) ==
        IF c \in {Slash, end} THEN Divide(st, c)
        ELSE [Advance(st, c) EXCEPT !.value = Append(@, c), !.valuesLength = @ + 1]
      start == [at |-> IF pattern = << >> THEN 0 ELSE 1, name |-> << >>, value |-> << >>, entries |-> << >>, nameAt |-> 0, valueAt |-> 0,
                namesLength |-> 0, valuesLength |-> 0]
      Read(st) == [matched |-> st.at # 0, entries |-> st.entries, nameAt |-> st.nameAt, valueAt |-> st.valueAt,
                   namesLength |-> IF st.at = 0 THEN 0 ELSE st.namesLength, valuesLength |-> st.valuesLength]
  IN Read(FoldLeft(Step, start, Append(path, end)))

(* The second pass goes without the pattern if the first did not match; the path
   "/" is the one that is there already. *)
NoPath == [matched |-> FALSE, entries |-> <<"none">>, nameAt |-> 0, valueAt |-> 0, namesLength |-> 0, valuesLength |-> 0]
NQUrlPath_create(path, pattern, onlymatch) ==
  LET Second(matched) ==
        IF path = << >> \/ (onlymatch /\ path = <<Slash>> /\ pattern # path) \/ (onlymatch /\ path # <<Slash>> /\ ~matched) THEN NoPath
        ELSE UrlPathInit(path, IF matched THEN pattern ELSE << >>)
  IN Second(UrlPathInit(path, pattern).matched)

NQUrlPath_segment(urlPath, name) ==
  LET found == { i \in DOMAIN urlPath.entries : urlPath.entries[i].name = name }
  IN IF found = {} THEN << >> ELSE urlPath.entries[CHOOSE i \in found : \A j \in found : i <= j].value

(* A pattern has a name at least, and none that is open at the end; "{" inside of
   a plain segment is an ordinary character. *)
NQIsUrlPathPattern(pattern) ==
  LET Step(st, c) ==
        CASE st.state = "empty" /\ c = Plain("{") -> [st EXCEPT !.state = "name"]
          [] st.state = "empty" /\ c # Slash -> [st EXCEPT !.state = "value"]
          [] st.state = "name" /\ c = Plain("}") -> [state |-> "empty", names |-> st.names + 1]
          [] st.state = "value" /\ c = Slash -> [st EXCEPT !.state = "empty"]
          [] OTHER -> st
      last == FoldLeft(Step, [state |-> "empty", names |-> 0], pattern)
  IN last.state # "name" /\ last.names > 0

NQUrlPathStartsWith(path, search) ==
  /\ IsPrefix(search, path)
  /\ \/ Len(path) = Len(search)
     \/ path[Len(search) + 1] = Slash
     \/ search # << >> /\ Last(search) = Slash

(* urlQueryInit: what follows the "?" up to each "&", names and values apart at the
   first "=". *)
NQUrlQuery_create(query) ==
  LET fields == LET Step(list, c) == IF c = Plain("&") THEN Append(list, << >>) ELSE [list EXCEPT ![Len(list)] = Append(@, c)]
                IN FoldLeft(Step, <<<< >>>>, Tail(query))
      Split(field) == LET at == IndexFrom(field, Plain("="), 1)
                      IN IF at = 0 THEN [name |-> field, value |-> << >>]
                         ELSE [name |-> SubSeq(field, 1, at - 1), value |-> SubSeq(field, at + 1, Len(field))]
  IN IF Len(query) = 1 THEN << >>
     ELSE [i \in DOMAIN fields |-> [name |-> DecodedInPlace(Split(fields[i]).name), value |-> DecodedInPlace(Split(fields[i]).value)]]

NQUrlQuery_value(entries, name) ==
  LET found == { i \in DOMAIN entries : entries[i].name = name }
  IN IF found = {} THEN << >> ELSE entries[CHOOSE i \in found : \A j \in found : i <= j].value

-----------------------------------------------------------------------------

(* The components of a URL that is taken are all of it, in order, with only the
   separators between them, and the port is not empty. (URL.c: NQURLDataParse.) *)
UrlIsItsParts(text) ==
  LET parts == NQURLDataParse(text)
      Text(name) == Component(text, parts[name])
  IN DOMAIN parts # {} =>
       /\ text = Text("scheme") \o <<Colon, Slash, Slash>> \o Text("host")
                   \o (IF parts["port"] = NoPart THEN << >> ELSE <<Colon>> \o Text("port"))
                   \o Text("path") \o Text("query") \o Text("fragment")
       /\ parts["port"] # NoPart => parts["port"].length > 0
       /\ \A i \in DOMAIN Text("host") : Text("host")[i] # Colon

(* Hosts are compared by name and port, with or without "www.". (UrlHost.c.) *)
HostsCompare(text) ==
  LET host == NQUrlHost_parse(text)
  IN host.ok => /\ NQUrlHost_equalCharacters(host, text)
                /\ text # << >> /\ ~IsPrefix(Www, text) => NQUrlHost_equalCharacters(host, Www \o text)
                /\ NQUrlHost_equal(NQUrlHost_setPort(host, << >>), host) <=> host.hasPort /\ host.port = << >>

(* A path and its pattern, segment by segment: what matches is equal, or has a name
   for it and is not empty. *)
SplitAt(text, c) == FoldLeft(LAMBDA list, x : IF x = c THEN Append(list, << >>) ELSE [list EXCEPT ![Len(list)] = Append(@, x)], <<<< >>>>, text)
IsName(segment) == Len(segment) > 2 /\ segment[1] = Plain("{") /\ IndexFrom(segment, Plain("}"), 1) = Len(segment)
Matches(path, pattern) ==
  LET p == SplitAt(path, Slash)
      q == SplitAt(pattern, Slash)
  IN Len(p) = Len(q) /\ \A i \in DOMAIN p : p[i] = q[i] \/ (p[i] # << >> /\ IsName(q[i]))

(* A path matches its pattern segment by segment, its named segments are found by
   their names, and the copy ends where the measures say. (UrlPath.c: urlPathInit.) *)
PathsMatch(path, pattern) ==
  LET first == UrlPathInit(path, pattern)
      made == NQUrlPath_create(path, pattern, FALSE)
      segments == SelectSeq(SplitAt(path, Slash), LAMBDA s : s # << >>)
  IN pattern # << >> /\ path # << >> =>
       /\ first.matched <=> Matches(path, pattern)
       /\ made.valueAt = made.valuesLength /\ made.nameAt = made.namesLength
       /\ Len(made.entries) = Len(segments)
       /\ \A i \in DOMAIN segments : made.entries[i].value = DecodedInPlace(segments[i])
       /\ first.matched => \A i \in DOMAIN made.entries :
            made.entries[i].name # << >> => NQUrlPath_segment(made, made.entries[i].name) # << >>
       /\ first.matched /\ (\E i \in DOMAIN made.entries : made.entries[i].name # << >>) => NQIsUrlPathPattern(pattern)
       /\ NQUrlPathStartsWith(path, path)

(* A query of escaped names and values is read as it was meant. (UrlQuery.c.) *)
QueryRoundTrip(pairs) ==
  LET Field(i) == (IF i = 1 THEN << >> ELSE <<Plain("&")>>) \o UrlEncode(pairs[i].name, FALSE) \o <<Plain("=")>> \o UrlEncode(pairs[i].value, FALSE)
      query == <<Plain("?")>> \o FlattenSeq([i \in DOMAIN pairs |-> Field(i)])
  IN pairs # << >> => /\ NQUrlQuery_create(query) = pairs
                      /\ NQUrlQuery_value(NQUrlQuery_create(query), pairs[1].name) = pairs[1].value
=============================================================================
