----------------------------- MODULE Multipart -----------------------------
(***************************************************************************)
(* HTTP multipart bodies: the parser, which is given the text in chunks as  *)
(* they come and calls back for each thing it knows, and the builder of     *)
(* form data behind it. Characters are strings of one; CR and LF have names.*)
(* A body part that is called back in pieces is one.                        *)
(***************************************************************************)
EXTENDS Integers, Sequences, SequencesExt, FiniteSets

CR == "cr"
LF == "lf"
DelimiterPrefix == <<CR, LF, "-", "-">>

(* The parser. run is what lies between start and the character that is read, in
   this chunk; buffer a beginning from earlier chunks; called the callbacks. *)
NQHTTPMultiPartParser_init(boundary, bufferSize) ==
  [state |-> IF boundary = << >> THEN "error" ELSE "first", boundary |-> boundary,
   delimiter |-> DelimiterPrefix \o boundary, index |-> 0,
   started |-> FALSE, run |-> << >>, buffer |-> << >>, bufferSize |-> bufferSize, total |-> 0, called |-> << >>]

Goes(p, state) == [p EXCEPT !.state = state]
Error(p) == Goes(p, "error")
Stops(p) == [p EXCEPT !.started = FALSE, !.run = << >>, !.buffer = << >>]
Starts(p, ch) == [p EXCEPT !.started = TRUE, !.run = <<ch>>]

(* A callback; body parts in a row are put together. *)
CallsBack(p, type, data) ==
  IF type = "body" /\ p.called # << >> /\ Last(p.called).type = "body"
  THEN [p EXCEPT !.called[Len(p.called)].data = @ \o data]
  ELSE [p EXCEPT !.called = Append(@, [type |-> type, data |-> data])]

RECURSIVE Trimmed(_)
Trimmed(text) == IF text # << >> /\ Last(text) = " " THEN Trimmed(Front(text)) ELSE text

(* A name or a value goes on: in the chunk, or in the buffer while it has room. *)
Continues(p, ch) ==
  IF p.buffer = << >> THEN [p EXCEPT !.run = Append(@, ch)]
  ELSE IF Len(p.buffer) < p.bufferSize THEN [p EXCEPT !.buffer = Append(@, ch)]
  ELSE Error(p)
Collected(p) == IF p.buffer # << >> THEN p.buffer ELSE p.run

(* A slip the code could have made: what was taken for the delimiter is lost. *)
Forgets(p, ch) == [(IF p.started THEN [p EXCEPT !.run = Append(@, ch)] ELSE Starts(p, ch)) EXCEPT !.index = 0]

(* The character of a body is not the one of the delimiter that was waited for:
   what was taken for the delimiter belongs to the body, and perhaps ch begins one. *)
NotDelimiter(p, ch) ==
  LET given == IF p.started THEN [p EXCEPT !.run = Append(@, ch)]
               ELSE Starts(IF p.index = 0 THEN p ELSE CallsBack(p, "body", SubSeq(p.delimiter, 1, p.index)), ch)
  IN [given EXCEPT !.index = IF p.index # 0 /\ ch = p.delimiter[1] THEN 1 ELSE 0]

(* The whole delimiter was read: what is left of the body, which is called back
   even if there is none, unless something was before. *)
BodyEnds(p) ==
  LET left == SubSeq(p.run, 1, Len(p.run) - Len(p.delimiter))
      body == IF p.total + Len(left) # 0 /\ left = << >> THEN p ELSE CallsBack(p, "body", left)
  IN Stops(CallsBack([body EXCEPT !.state = "boundary finish", !.index = 0], "boundary", p.boundary))

BodyPart(p, ch) ==
  LET next == [p EXCEPT !.index = @ + 1, !.run = IF p.started THEN Append(@, ch) ELSE @]
  IN IF p.delimiter[p.index + 1] # ch THEN NotDelimiter(p, ch)
     ELSE IF next.index < Len(p.delimiter) THEN next ELSE BodyEnds(next)

BoundaryStart(p, ch) ==
  IF p.delimiter[p.index + 1] # ch THEN Error(p)
  ELSE IF p.index + 1 < Len(p.delimiter) THEN [p EXCEPT !.index = @ + 1]
  ELSE [CallsBack(p, "boundary", p.boundary) EXCEPT !.state = "boundary finish", !.index = 0]

(* The other states, and the characters they take: from, to, and what is done. *)
Take(p, ch) ==
  CASE p.state = "first" /\ ch = "-" -> Goes(p, "second")
    [] p.state = "second" /\ ch = "-" -> [CallsBack(p, "begin", << >>) EXCEPT !.state = "boundary start", !.index = Len(DelimiterPrefix)]
    [] p.state = "boundary start" -> BoundaryStart(p, ch)
    [] p.state = "boundary finish" /\ ch = CR -> Goes(p, "crlf 1")
    [] p.state = "boundary finish" /\ ch = "-" -> Goes(p, "later")
    [] p.state \in {"crlf 1", "value finish"} /\ ch = LF -> Goes(p, "content")
    [] p.state = "content" /\ ch = CR -> Goes(p, "crlf 2")
    [] p.state = "content" /\ ch \notin {":", CR, LF} -> Starts(Goes(p, "name start"), ch)
    [] p.state = "name start" /\ ch = ":" -> Stops(Goes(CallsBack(p, "name", Collected(p)), "name finish"))
    [] p.state = "name start" /\ ch \notin {":", CR, LF} -> Continues(p, ch)
    [] p.state = "name finish" /\ ch = " " -> p
    [] p.state = "name finish" /\ ch = CR -> Goes(CallsBack(p, "value", << >>), "value finish")
    [] p.state = "name finish" /\ ch \notin {" ", CR, LF} -> Starts(Goes(p, "value start"), ch)
    [] p.state = "value start" /\ ch = CR -> Stops(Goes(CallsBack(p, "value", Trimmed(Collected(p))), "value finish"))
    [] p.state = "value start" /\ ch \notin {CR, LF} -> Continues(p, ch)
    [] p.state = "crlf 2" /\ ch = LF -> [Goes(p, "body") EXCEPT !.started = TRUE, !.run = << >>, !.total = 0]
    [] p.state = "body" -> BodyPart(p, ch)
    [] p.state = "later" /\ ch = "-" -> Goes(CallsBack(p, "finish", << >>), "latest")
    [] p.state = "latest" -> p
    [] OTHER -> Error(p)

(* The end of a chunk: a body is given away but for what may be a delimiter, a name
   or a value kept. *)
ChunkEnds(p) ==
  LET given == SubSeq(p.run, 1, Len(p.run) - p.index)
      gone == [p EXCEPT !.started = FALSE, !.run = << >>]
  IN IF p.state = "error" \/ ~p.started THEN p
     ELSE IF p.state = "body"
     THEN [(IF given = << >> THEN gone ELSE CallsBack(gone, "body", given)) EXCEPT !.total = @ + Len(given)]
     ELSE IF Len(p.run) > p.bufferSize THEN Error(p)
     ELSE [gone EXCEPT !.buffer = p.run]

NQHTTPMultiPartParser_append(p, chunk) == ChunkEnds(FoldLeft(Take, p, chunk))
NQHTTPMultiPartParser_finish(p) == p.state = "latest"

-----------------------------------------------------------------------------

(* The builder: entries are the fields that were enabled, the last first. Header
   names and values are model values here: a value is what NQHttpFormDataParse and
   the comparisons make of it, [name, filename]. *)
Entry(name, flags, max) == [name |-> name, flags |-> flags, max |-> max, hasFormData |-> FALSE, filename |-> "", contentType |-> "", buffer |-> << >>]
NQHttpMultiPartBuilder_create == [state |-> "init", entries |-> << >>, curr |-> 0, contentType |-> ""]
NQHttpMultiPartBuilder_enableFormData(b, name, flags, max) ==
  IF b.state # "init" THEN b ELSE [b EXCEPT !.entries = <<Entry(name, flags, max)>> \o @]

BuilderError(b) == [b EXCEPT !.state = "error"]
HeaderState(name) == IF name = "Content-Disposition" THEN "disposition" ELSE IF name = "Content-Type" THEN "type" ELSE "other name"

(* onMultiPartFieldValue. data is [name, filename], a content type, or anything. *)
Disposition(b, data) ==
  LET at == SelectInSeq(b.entries, LAMBDA e : e.name = data.name)
      entry == b.entries[at]
      needsFile == "filename" \in entry.flags
      filled == [entry EXCEPT !.filename = IF needsFile THEN data.filename ELSE @,
                              !.contentType = IF b.contentType # "" THEN b.contentType ELSE @]
  IN IF b.curr # 0 THEN BuilderError(b)
     ELSE IF at = 0 THEN [b EXCEPT !.state = "value"]
     ELSE IF needsFile /\ data.filename = "" THEN BuilderError(b)
     ELSE [b EXCEPT !.state = "value", !.entries[at] = filled, !.curr = at]

ContentType(b, data) ==
  IF b.curr # 0 THEN [b EXCEPT !.state = "value", !.entries[b.curr].contentType = data]
  ELSE [b EXCEPT !.state = "value", !.contentType = data]

(* onMultiPartBodyPart. *)
Body(b, data) ==
  LET entry == b.entries[b.curr]
      appended == [entry EXCEPT !.hasFormData = TRUE, !.buffer = @ \o data]
  IN IF b.state \notin {"value", "body"} THEN BuilderError(b)
     ELSE IF b.curr = 0 THEN [b EXCEPT !.state = "body"]
     ELSE IF b.state = "value" /\ "content type" \in entry.flags /\ entry.contentType = "" THEN BuilderError(b)
     ELSE IF entry.max # 0 /\ entry.max < Len(appended.buffer) THEN BuilderError(b)
     ELSE [b EXCEPT !.state = "body", !.entries[b.curr] = appended]

(* onMultiPartParser: a callback [type, data]. *)
OnMultiPart(b, call) ==
  CASE call.type = "begin" /\ b.state = "init" -> [b EXCEPT !.state = "begin"]
    [] call.type = "boundary" /\ b.state = "begin" -> [b EXCEPT !.state = "boundary"]
    [] call.type = "boundary" /\ b.state = "body" -> [b EXCEPT !.state = "boundary", !.curr = 0, !.contentType = ""]
    [] call.type = "name" /\ b.state \in {"boundary", "value"} -> [b EXCEPT !.state = HeaderState(call.data)]
    [] call.type = "value" /\ b.state = "disposition" -> Disposition(b, call.data)
    [] call.type = "value" /\ b.state = "type" -> ContentType(b, call.data)
    [] call.type = "value" /\ b.state = "other name" -> [b EXCEPT !.state = "value"]
    [] call.type = "body" -> Body(b, call.data)
    [] call.type = "finish" /\ b.state = "boundary" -> [b EXCEPT !.state = "complete"]
    [] OTHER -> BuilderError(b)

NQHttpMultiPartBuilder_finish(b) ==
  IF b.state = "complete" /\ \A i \in DOMAIN b.entries : "mandatory" \in b.entries[i].flags => b.entries[i].hasFormData
  THEN [b EXCEPT !.state = "done"] ELSE BuilderError(b)

NQHttpMultiPartBuilder_formData(b, name) ==
  LET at == SelectInSeq(b.entries, LAMBDA e : e.name = name)
  IN IF b.state # "done" \/ at = 0 \/ ~b.entries[at].hasFormData THEN << >> ELSE <<b.entries[at]>>

-----------------------------------------------------------------------------

Feed(parser, chunks) == FoldLeft(NQHTTPMultiPartParser_append, parser, chunks)
Chunks(text, cuts) ==
  LET ends == SetToSortSeq(cuts \cup {Len(text)}, <)
  IN [i \in DOMAIN ends |-> SubSeq(text, (IF i = 1 THEN 0 ELSE ends[i - 1]) + 1, ends[i])]

(* However the text is cut into chunks, the callbacks are the same and so is the
   end, unless a name or a value that is cut does not fit the buffer: then it is an
   error. (HttpMultiPartParser.c: start, buffer, delimiterIndex between two calls.) *)
ChunksDoNotMatter(boundary, text, cuts, bufferSize) ==
  LET whole == Feed(NQHTTPMultiPartParser_init(boundary, bufferSize), <<text>>)
      cut == Feed(NQHTTPMultiPartParser_init(boundary, bufferSize), Chunks(text, cuts))
  IN \/ cut.state = whole.state /\ cut.called = whole.called
     \/ cut.state = "error" /\ IsPrefix(cut.called, whole.called) /\ \E i \in DOMAIN whole.called :
          whole.called[i].type \in {"name", "value"} /\ Len(whole.called[i].data) > bufferSize

(* The text of parts, each of headers and a body, as the RFC writes it. *)
PartText(boundary, part) ==
  <<"-", "-">> \o boundary \o <<CR, LF>>
  \o FlattenSeq([i \in DOMAIN part.headers |-> part.headers[i].name \o <<":", " ">> \o part.headers[i].value \o <<CR, LF>>])
  \o <<CR, LF>> \o part.body \o <<CR, LF>>
Text(boundary, parts) ==
  FlattenSeq([i \in DOMAIN parts |-> PartText(boundary, parts[i])]) \o <<"-", "-">> \o boundary \o <<"-", "-">>
Called(type, data) == <<[type |-> type, data |-> data]>>
PartCalls(boundary, part) ==
  Called("boundary", boundary)
  \o FlattenSeq([i \in DOMAIN part.headers |-> Called("name", part.headers[i].name) \o Called("value", Trimmed(part.headers[i].value))])
  \o Called("body", part.body)

(* Parts written as they should be are called back as they are, empty bodies too,
   whatever of the delimiter the bodies hold. *)
PartsAreFound(boundary, parts) ==
  LET parser == Feed(NQHTTPMultiPartParser_init(boundary, 176), <<Text(boundary, parts)>>)
      Holds(body) == \E i \in 1 .. Len(body) : IsPrefix(DelimiterPrefix \o boundary, SubSeq(body \o <<CR, LF>>, i, Len(body) + 2))
  IN (\A i \in DOMAIN parts : ~Holds(parts[i].body)) =>
       /\ NQHTTPMultiPartParser_finish(parser)
       /\ parser.called = Called("begin", << >>) \o FlattenSeq([i \in DOMAIN parts |-> PartCalls(boundary, parts[i])])
                          \o Called("boundary", boundary) \o Called("finish", << >>)

(* What the builder keeps of the parts [headers, body], headers of [name, data]: of
   every field that is enabled the bodies of its parts in order, no longer than
   allowed, and nothing if a mandatory one is missing. *)
FormKeepsFields(enabled, parts) ==
  LET builder == FoldLeft(LAMBDA b, e : NQHttpMultiPartBuilder_enableFormData(b, e.name, e.flags, e.max), NQHttpMultiPartBuilder_create, enabled)
      PartOf(part) == Called("boundary", << >>)
        \o FlattenSeq([i \in DOMAIN part.headers |-> Called("name", part.headers[i].name) \o Called("value", part.headers[i].data)])
        \o Called("body", part.body)
      calls == Called("begin", << >>) \o FlattenSeq([i \in DOMAIN parts |-> PartOf(parts[i])]) \o Called("boundary", << >>) \o Called("finish", << >>)
      Step(b, call) == IF b.state = "error" THEN b ELSE OnMultiPart(b, call)
      built == NQHttpMultiPartBuilder_finish(FoldLeft(Step, builder, calls))
      NameOf(part) == LET h == SelectSeq(part.headers, LAMBDA header : header.name = "Content-Disposition")
                      IN IF h = << >> THEN "" ELSE h[1].data.name
      Of(name) == FlattenSeq([i \in DOMAIN parts |-> IF NameOf(parts[i]) = name THEN parts[i].body ELSE << >>])
  IN built.state = "done" =>
       \A i \in DOMAIN enabled :
         LET data == NQHttpMultiPartBuilder_formData(built, enabled[i].name)
         IN /\ (data # << >>) = (\E j \in DOMAIN parts : NameOf(parts[j]) = enabled[i].name)
            /\ "mandatory" \in enabled[i].flags => data # << >>
            /\ data # << >> => /\ data[1].buffer = Of(enabled[i].name)
                               /\ enabled[i].max # 0 => Len(data[1].buffer) <= enabled[i].max
                               /\ "content type" \in enabled[i].flags => data[1].contentType # ""
                               /\ "filename" \in enabled[i].flags => data[1].filename # ""

-----------------------------------------------------------------------------
(***************************************************************************)
(* http/HttpHeader.c: the request line, the status line, a header line and  *)
(* the value of Content-Disposition. A text is a sequence of characters and *)
(* of words that no function looks into.                                    *)
(***************************************************************************)

(* The first place from at, before end, where the test holds; 0 if there is none. *)
First(text, at, end, Test(_)) ==
  LET found == { i \in at .. end - 1 : Test(text[i]) } IN IF found = {} THEN 0 ELSE CHOOSE i \in found : \A j \in found : i <= j
FindChar(text, at, ch) == First(text, at, Len(text) + 1, LAMBDA c : c = ch)
FindCharIfNot(text, at) == First(text, at, Len(text) + 1, LAMBDA c : c # " ")

(* Three parts, of which the last is all that is left. *)
None == << >>
NQHttpRequestLineParse(text) ==
  LET a == FindCharIfNot(text, 1)
      aEnd == FindChar(text, a + 1, " ")
      b == FindCharIfNot(text, aEnd + 1)
      bEnd == FindChar(text, b + 1, " ")
      c == FindCharIfNot(text, bEnd + 1)
  IN IF 0 \in {a, aEnd, b, bEnd, c} THEN None ELSE <<SubSeq(text, a, aEnd - 1), SubSeq(text, b, bEnd - 1), SubSeq(text, c, Len(text))>>
NQHttpStatusLineParse(text) == NQHttpRequestLineParse(text)

NQHttpHeaderLineParse(text) ==
  LET name == FindCharIfNot(text, 1)
      colon == FindChar(text, name + 1, ":")
      value == FindCharIfNot(text, colon + 1)
  IN IF 0 \in {name, colon, value} THEN None ELSE <<SubSeq(text, name, colon - 1), SubSeq(text, value, Len(text))>>

-----------------------------------------------------------------------------

(* key="value" in text from at, before end. The closing quote is looked for without
   an end: "beyond" if the text has none. After it the parser steps over no space:
   "endless" if one is there. *)
No == [kind |-> "no"]
NQHttpHeaderValueParse(text, at, end) ==
  LET key == First(text, at, end, LAMBDA c : c # " ")
      stop == First(text, key, end, LAMBDA c : c \in {"=", " "})
      equals == First(text, stop, end, LAMBDA c : c # " ")
      quote == First(text, equals + 1, end, LAMBDA c : c # " ")
      close == FindChar(text, quote + 1, "\"")
  IN IF 0 \in {key, stop, equals, quote} \/ text[equals] # "=" \/ text[quote] # "\"" \/ end <= quote + 1 THEN No
     ELSE IF close = 0 THEN [kind |-> "beyond"]
     ELSE IF close + 1 < end THEN (IF text[close + 1] = " " THEN [kind |-> "endless"] ELSE No)
     ELSE [kind |-> "yes", key |-> SubSeq(text, key, stop - 1), value |-> SubSeq(text, quote + 1, close - 1)]

(* The segments between semicolons. The last one, if no semicolon ends it, is taken
   without its last character, which the value parser then reads all the same. *)
FormDataWord == "form-data"
NQHttpFormDataParse(text) ==
  LET semicolons == SetToSortSeq({ i \in DOMAIN text : text[i] = ";" }, <)
      starts == SelectSeq(<<1>> \o [k \in DOMAIN semicolons |-> semicolons[k] + 1], LAMBDA i : i <= Len(text))
      Segment(st, from) ==
        LET data == FindCharIfNot(text, from)
            semicolon == FindChar(text, data, ";")
            cut == IF semicolon = 0 THEN Len(text) ELSE semicolon
            ends == { e \in data .. cut : e = data \/ text[e - 1] # " " }
            end == CHOOSE e \in ends : \A d \in ends : d <= e
            kv == NQHttpHeaderValueParse(text, data, end)
        IN CASE st.over -> st
             [] ~st.over /\ st.count = 0 ->
                  IF data # 0 /\ end = data + 1 /\ text[data] = FormDataWord THEN [st EXCEPT !.count = 1] ELSE [st EXCEPT !.over = TRUE, !.kind = "no"]
             [] ~st.over /\ st.count # 0 /\ data = 0 -> st
             [] OTHER ->
                  CASE kv.kind \in {"beyond", "endless"} -> [st EXCEPT !.over = TRUE, !.kind = kv.kind]
                    [] kv.kind = "yes" /\ kv.key = <<"name">> -> [st EXCEPT !.name = kv.value]
                    [] kv.kind = "yes" /\ kv.key = <<"filename">> -> [st EXCEPT !.filename = kv.value]
                    [] OTHER -> st
      read == FoldLeft(Segment, [kind |-> "yes", count |-> 0, over |-> FALSE, name |-> << >>, filename |-> << >>], starts)
  IN IF read.count = 0 \/ read.kind # "yes" THEN [kind |-> IF read.kind = "yes" THEN "no" ELSE read.kind]
     ELSE [kind |-> "yes", name |-> read.name, filename |-> read.filename]

(* What follows "boundary=". *)
NQHttpGetContentBoundary(text) ==
  LET type == FindCharIfNot(text, 1)
      boundary == FindCharIfNot(text, type + 1)
  IN IF 0 \in {type, boundary} \/ text[type] # "multipart/form-data;" \/ text[boundary] # "boundary=" THEN None
     ELSE <<SubSeq(text, boundary + 1, Len(text))>>

-----------------------------------------------------------------------------

Spaces(n) == [i \in 1 .. n |-> " "]

(* A line is read into its parts whatever spaces are between them, and its last part
   is all that is left, spaces included; a line with a part missing is refused.
   (http/HttpHeader.c: NQHttpRequestLineParse, NQHttpStatusLineParse,
   NQHttpHeaderLineParse.) *)
LinesReadBack(parts, gaps) ==
  LET line == Spaces(gaps[1]) \o parts[1] \o Spaces(1 + gaps[2]) \o parts[2] \o Spaces(1 + gaps[3]) \o parts[3]
      header == Spaces(gaps[1]) \o parts[1] \o <<":">> \o Spaces(gaps[2]) \o parts[3]
      Solid(part) == \A i \in DOMAIN part : part[i] \notin {" ", ":"}
      Begun(part) == part # << >> /\ part[1] # " "
  IN Solid(parts[1]) /\ Solid(parts[2]) /\ (parts[3] = << >> \/ parts[3][1] # " ") =>
       /\ \A i \in {1, 2} : parts[i] = << >> => NQHttpRequestLineParse(line) # parts
       /\ (\A i \in 1 .. 3 : parts[i] # << >>) => NQHttpStatusLineParse(line) = parts
       /\ NQHttpHeaderLineParse(header) = IF parts[1] # << >> /\ Begun(parts[3]) THEN <<parts[1], parts[3]>> ELSE None

(* The name and the filename of a form field are read in whichever order they come,
   with spaces where they may be and a semicolon at the end or none, though the last
   segment is cut short by one. fields: [key, value], each key once; a value holds no
   quote and no semicolon, and an empty one is as none. (http/HttpHeader.c: NQHttpFormDataParse, NQHttpHeaderValueParse.) *)
FormDataIsRead(fields, gaps, ending) ==
  LET Field(f) == <<";">> \o Spaces(gaps[1]) \o <<f.key>> \o Spaces(gaps[2]) \o <<"=">> \o Spaces(gaps[3]) \o <<"\"">> \o f.value \o <<"\"">>
      text == <<FormDataWord>> \o FlattenSeq([i \in DOMAIN fields |-> Field(fields[i])]) \o ending
      Given(key) == LET given == { i \in DOMAIN fields : fields[i].key = key }
                    IN IF given = {} THEN << >> ELSE fields[CHOOSE i \in given : TRUE].value
  IN (\A i, j \in DOMAIN fields : fields[i].key = fields[j].key => i = j) /\ (fields # << >> \/ ending # << >>) =>
       NQHttpFormDataParse(text) = [kind |-> "yes", name |-> Given("name"), filename |-> Given("filename")]

(* The boundary is what follows "boundary=", spaces included, whatever spaces come
   before the two words, and there is none when a word is another.
   (http/HttpHeader.c: NQHttpGetContentBoundary.) *)
BoundaryIsFound(words, gaps, boundary) ==
  NQHttpGetContentBoundary(Spaces(gaps[1]) \o <<words[1]>> \o Spaces(gaps[2]) \o <<words[2]>> \o boundary)
    = IF words = <<"multipart/form-data;", "boundary=">> THEN <<boundary>> ELSE None
=============================================================================
