----------------------------- MODULE MCFormats -----------------------------
(***************************************************************************)
(* The formats and the data structures, one of them in each behavior: part   *)
(* says which, and its variables are registers that the parts share. In the  *)
(* parts codec and text, whose functions keep no state, r1 is their input,   *)
(* r2 its kind, and r3 says whether it has been chosen.                     *)
(***************************************************************************)
EXTENDS Integers, Sequences, SequencesExt, FiniteSets, TLC

VARIABLES part, r1, r2, r3, r4, r5, r6, r7, r8
vars == <<part, r1, r2, r3, r4, r5, r6, r7, r8>>

CONSTANTS MaxSections,   \* DBCDocWriter
          MaxStack,      \* DBCParser
          BufferSize,    \* DBCLexer
          Packages,      \* DBCJ1939
          MaxDepth, MaxText,     \* JSONWriter
          MaxAllocs, MaxLines, MaxSets,  \* DescSet, LogCircular, KeyVal
          NoInput        \* what r1 is in the parts codec and text before it is chosen

S == INSTANCE DBCSections
U == INSTANCE Urls
T == INSTANCE TextCodecs
B == INSTANCE Buffers
W == INSTANCE WasmModule
M == INSTANCE Multipart
A == INSTANCE Archives
Kv == INSTANCE KeyVal
  WITH Buckets <- 2, Hash <- "a" :> 0 @@ "b" :> 2 @@ "c" :> 0 @@ "d" :> 1, Values <- 1 .. 2, list <- r1, count <- r2, map <- r3, sets <- r4

-----------------------------------------------------------------------------
(* The inputs. *)

Upto(set, n) == UNION { [1 .. m -> set] : m \in 0 .. n }
AllOf(set, n) == [1 .. n -> set]

-----------------------------------------------------------------------------
(* The sections of a DBC file. *)

Sect(type, keyword, fields) == fields @@ [type |-> type, keyword |-> keyword]
Msg(id, node) == Sect("Message", "BO_", [name |-> "m", id |-> id, node |-> node])
Sig(name, nodes, switch, mux) ==
  Sect("Signal", "SG_", [name |-> name, nodes |-> nodes, switch |-> switch, multiplexed |-> mux])
Info(type, first, second, names) == [type |-> type, first |-> first, second |-> second, names |-> names]
Define(name, class, info) == Sect("AttrDefinition", "BA_DEF_", [name |-> name, class |-> class, info |-> info])
SetAttr(name, class, id, kind, value) ==
  Sect("Attr", "BA_", [name |-> name, class |-> class, id |-> id, target |-> "", kind |-> kind, value |-> value])
NoNode == "Vector__XXX"

Objects ==
  << Sect("NetNodes", "BU_", [nodes |-> <<"n1", "n2">>]), Msg(1, "n1"), Msg(2, NoNode),
    Sig("s", <<"n1", "n3">>, TRUE, FALSE), Sig("t", <<NoNode>>, FALSE, TRUE),
    Sect("MessageTransmitter", "BO_TX_BU_", [id |-> 1, nodes |-> <<"n1">>]),
    Sect("SignalGroup", "SIG_GROUP_", [id |-> 1, name |-> "g", signals |-> <<"s", "t">>]) >>
References ==
  << Msg(1, NoNode), Sig("s", <<NoNode>>, FALSE, FALSE), Sect("ValTable", "VAL_TABLE_", [name |-> "v"]),
    Sect("SignalValue", "VAL_", [id |-> 1, name |-> "s"]),
    Sect("SignalType", "SGTYPE_", [name |-> "y", table |-> "v"]),
    Sect("SignalTypeRef", "SIG_TYPE_REF_", [id |-> 1, name |-> "s", sigType |-> "y"]),
    Sect("SignalMultiplexed", "SG_MUL_VAL_", [id |-> 1, name |-> "s", switch |-> "s", ranges |-> 2]),
    Sect("Comment", "CM_", [class |-> "Signal", id |-> 1, target |-> "s"]) >>
Attributes ==
  << Msg(1, NoNode), Define("a", "Message", Info("Int", 0, 5, << >>)),
    Define("a", "Document", Info("Enum", 0, 0, <<"x", "y">>)), Define("b", "Message", Info("Enum", 0, 0, << >>)),
    SetAttr("a", "Message", 1, "Int", 5), SetAttr("a", "Message", 1, "Int", 6), SetAttr("b", "Message", 1, "String", ""),
    SetAttr("a", "Document", 0, "String", "y"), SetAttr("a", "Document", 0, "Float", 1),
    Sect("AttrDefault", "BA_DEF_DEF_", [name |-> "a", kind |-> "Int", value |-> 1]) >>
FileScripts == {Objects, References, Attributes}
FileFuels == {1, 3, 5, 7, 9, 11, 100}

-----------------------------------------------------------------------------
(* The tokens of a DBC file. *)

Toks(type, texts) == { [type |-> type, text |-> x] : x \in texts }
FileTokens ==
  Toks("CString", {"identifier", "other"}) \cup Toks("UInteger", {"0", "5", "3000000000", "4294967296"}) \cup Toks("SInteger", {"-1", "-3000000000"})
  \cup Toks("Number", {"1.5"})
  \cup Toks("CIdentifier", DOMAIN S!s_sections \cup {"SG_", "BU_BO_REL_", "BU_SG_REL_", "BU_EV_REL_", "INT", "HEX",
              "FLOAT", "STRING", "ENUM", "M", "m0", "m0M", "B", "U_", "REL_", "DUMMY_NODE_VECTOR0", "name"})
  \cup Toks("Symbol", {":", "|", "@", "+", "-", "(", ")", "[", "]", ",", ";", "\n"})
FileAlphabets == { {"VERSION", "NS_", "BS_", "BU_"}, {"BO_", "SG_", "CM_"}, DOMAIN S!s_sections \ S!OnlyOnce }

-----------------------------------------------------------------------------
(* Numbers and bytes. *)

Uuids == { [i \in 1 .. 16 |-> (i * k) % 256] : k \in {0, 17, 255} }
Versions == { T!NQVersion_init(p) : p \in UNION { AllOf(0 .. 2, m) : m \in 0 .. 4 } }
CodePoints == UNION { {2 ^ i, 2 ^ i - 1, 2 ^ i - 2} : i \in 1 .. 30 } \cup {2 ^ 30 - 1 + 2 ^ 30, 55296, 57343, 57344}

(* The values whose bits below k are one, the one at k another and the ones above a third. *)
BitValues(w) == { [i \in 0 .. w - 1 |-> IF i < k THEN b ELSE IF i = k THEN c ELSE d] : k \in 0 .. w - 1, b, c, d \in {0, 1} }
LebInputs == UNION { [value : BitValues(w), width : {w}, signed : BOOLEAN] : w \in B!Widths }

Values24 == { <<s, a, b, 3>> : s \in {0, 255}, a \in {1, 127, 128, 255}, b \in {2, 200} }
Puts ==
  { [value |-> v, count |-> IF c = 4 /\ Len(v) = 4 THEN 4 ELSE IF Len(v) = 4 THEN 3 ELSE Len(v),
     order |-> o, big |-> b, signed |-> s, before |-> f] :
      v \in Values24 \cup {<<1, 2>>, <<255, 0>>, <<1, 2, 3, 4, 5, 6, 7, 8>>}, c \in {3, 4}, o \in B!Orders,
      b \in BOOLEAN, s \in BOOLEAN, f \in {<<0, 0, 0, 0>>, <<9, 9, 9, 9>>} }
PutInputs == { p \in Puts : p.count = 3 => IF p.signed THEN (p.value[1] = 255) = (p.value[2] >= 128) ELSE p.value[1] = 0 }
Writes == { [value |-> v, count |-> IF Len(v) = 4 THEN 3 ELSE Len(v)] : v \in {<<1>>, <<2, 3>>, <<0, 4, 5, 6>>} }
BufferCalls ==
  [op : {"insert"}, at : {0, 1, 3}, n : {0}, bytes : {<< >>, <<7>>, <<8, 9>>}, granted : {TRUE}]
  \cup [op : {"append"}, at : {0}, n : {0}, bytes : {<<5, 6>>, <<4>>}, granted : BOOLEAN]
  \cup [op : {"resize"}, at : {0}, n : {0, 1, 5}, bytes : {<< >>}, granted : {TRUE}]
  \cup [op : {"resize"}, at : {0}, n : {5}, bytes : {<< >>}, granted : {FALSE}]
  \cup [op : {"remove"}, at : {0, 1}, n : {1, 2}, bytes : {<< >>}, granted : {TRUE}]
  \cup [op : {"clear"}, at : {0}, n : {0}, bytes : {<< >>}, granted : {TRUE}]

Days == {0, 58, 59, 364, 365, 730, 788, 789, 790, 1095, 1096, 1460, 1461, 10956, 10957, 11016, 11017, 24855, 47480, 47481, 47540}
Times(days) == { [day |-> d, ms |-> ms] : d \in days, ms \in {0, 999, 1000, 59999, 60000, 3599999, 43200000, 86399999} }

(* WebAssembly modules, and those with one byte changed. *)
Item(id, fields) == { [importId |-> id, module |-> m, name |-> <<67>>, fields |-> f] : m \in {<< >>, <<65, 66>>}, f \in fields }
Memories == { Last(W!NQWasmImportSection_addMemory([sectionId |-> 2, items |-> << >>, data |-> << >>], m, <<67>>, type, <<1>>, IF type % 2 = 1 THEN n ELSE <<0>>).items) :
  m \in {<< >>, <<65, 66>>}, type \in {0, 1, 3}, n \in {<<44, 2>>, [i \in 1 .. 10 |-> 1]} }
Items == Item(0, {<<<<0>>>>, <<<<72, 1, 0, 0, 15>>>>}) \cup Item(1, {<<112, <<1>>, <<2, 1>>>>}) \cup Memories \cup Item(3, {<<127, 1>>})
Sections ==
  { [sectionId |-> 2, items |-> i, data |-> << >>] : i \in Upto(Items, 2) }
  \cup { [sectionId |-> id, items |-> << >>, data |-> d] : id \in {0, 12}, d \in {<< >>, <<2, 0, 9>>} }
WithItems(n) == { s \in Sections : Len(s.items) = n }
WasmModules == Upto(Sections, 1) \cup { <<s, t>> : s \in WithItems(0) \cup WithItems(1), t \in WithItems(0) }
Changed(m) == LET bytes == W!NQWasmModule_writeTo(m) IN { [bytes EXCEPT ![i] = b] : i \in DOMAIN bytes, b \in {0, 1, 2, 3, 129} }
WasmData == UNION { Changed(m) : m \in { <<s>> : s \in WithItems(1) } \cup { <<s, t>> : s \in WithItems(1), t \in WithItems(0) } }

(* DBC documents and environments that are written as JSON. *)
JsonSignals == [comment : BOOLEAN, attributes : {0, 2}, receivers : {0, 2}, start : BOOLEAN, grouped : BOOLEAN]
ASignal == [comment |-> TRUE, attributes |-> 1, receivers |-> 1, start |-> FALSE, grouped |-> FALSE]
AMessage == [comment |-> FALSE, attributes |-> 0, groups |-> << >>, signals |-> <<ASignal, ASignal>>, senders |-> 1, pseudo |-> FALSE, cycle |-> TRUE]
JsonMessages ==
  { [AMessage EXCEPT !.signals = <<s>>] : s \in JsonSignals }
  \cup { [AMessage EXCEPT !.groups = g, !.signals = << >>, !.comment = TRUE, !.pseudo = TRUE, !.attributes = 2] : g \in {<< >>, <<<< >>, <<ASignal, ASignal>>>>} }
  \cup { [AMessage EXCEPT !.signals = << >>, !.cycle = FALSE, !.senders = n] : n \in {0, 2} }
JsonDocuments ==
  [comment : BOOLEAN, attributes : {0, 2}, version : BOOLEAN, symbols : {0, 2}, bitTiming : BOOLEAN,
   messages : {<< >>}, j1939 : {FALSE}, protocol : BOOLEAN, bus : {TRUE}]
  \cup [comment : {TRUE}, attributes : {0}, version : {FALSE}, symbols : {1}, bitTiming : {FALSE},
        messages : {<<AMessage>>, <<AMessage, [AMessage EXCEPT !.signals = << >>]>>}, j1939 : BOOLEAN, protocol : {FALSE}, bus : {FALSE}]
Environments == [available : BOOLEAN, variables : Upto({"named", "other", "no memory"}, 3)]
Leaf == [kind |-> "value", items |-> << >>]
Trees1 == [kind : {"object", "array"}, items : Upto({Leaf}, 2)]
Trees2 == [kind : {"object", "array"}, items : Upto({Leaf} \cup Trees1, 2)]

-----------------------------------------------------------------------------
(* Archives, and texts put together in pieces. *)

ArchiveFile(name, data, descriptor, n) ==
  [name |-> name, data |-> data, size |-> 7, descriptor |-> descriptor,
   extra |-> [i \in 1 .. n |-> 1], comment |-> [i \in 1 .. 2 - n |-> 2]]
ArchiveNames == { <<97>>, <<100>>, <<100, 47>>, <<100, 47, 97>>, <<100, 47, 98, 47, 97>>, <<100, 98>> }
ArchiveFiles == { ArchiveFile(n, d, s, x) : n \in ArchiveNames, d \in {<<9>>, <<80, 75, 7, 8>>}, s \in BOOLEAN, x \in {0, 2} }
EndMark == <<80, 75, 5, 6>> \o [i \in 1 .. 18 |-> 0]
Comments == { << >>, <<1>>, EndMark \o <<1>>, <<5>> \o EndMark \o EndMark \o <<3, 4>> }
ArchiveInputs ==
  (Upto({ f \in ArchiveFiles : f.data = <<9>> => f.descriptor }, 1) \X Comments)
  \cup ({ <<f, g>> : f \in { x \in ArchiveFiles : x.data = <<9>> /\ Len(x.extra) = 0 }, g \in { x \in ArchiveFiles : Len(x.extra) = 2 } } \X {<< >>})
CutArchives == UNION { { <<<<f>>, cut>> : cut \in 0 .. Len(A!Archive(<<f>>, << >>)) - 1 } : f \in { x \in ArchiveFiles : x.descriptor } }
ExtraField(id, first, size) == [id |-> id, data |-> [i \in 1 .. size |-> IF i = 1 THEN first ELSE IF i \in {2, 7} THEN 4 ELSE i]]
ExtraFields ==
  { ExtraField(<<85, 84>>, b, 13) : b \in 0 .. 7 } \cup { ExtraField(<<117, 120>>, b, 11) : b \in {0, 1} }
  \cup { ExtraField(<<85, 84>>, 7, 5), ExtraField(<<1, 0>>, 1, 2), ExtraField(<<117, 120>>, 1, 3) }
CutFields == { x \in Upto(ExtraFields, 2) \X (0 .. 15) : x[2] <= FoldLeft(LAMBDA n, e : n + Len(e.data) + 4, 0, x[1]) }
TarFile(n, c, mode, size) ==
  [info |-> [filename |-> [i \in 1 .. n |-> c], username |-> <<117>>, groupname |-> [i \in 1 .. 40 |-> 103],
             mode |-> mode, uid |-> 8 ^ 8, gid |-> 0, mtime |-> 1],
   data |-> [i \in 1 .. size |-> 50]]
TarInputs ==
  (Upto({ TarFile(n, c, 420, size) : n \in {1, 101}, c \in {97, 200}, size \in {0, 1, 512} }, 1) \X (0 .. 3))
  \cup ({ <<TarFile(100, c, 0, size), TarFile(1, 97, 420, other)>> : c \in {97, 200}, size \in {0, 1, 512}, other \in {0, 512} } \X {0, 4, 8})
SetCalls == [name : {"a"}, type : {"bool", "string"}, value : {0, 1}, hasMemory : {TRUE}]
  \cup [name : {"a"}, type : {"uint32"}, value : {0, 1, 5}, hasMemory : {TRUE}] \cup [name : {"a", "b"}, type : {"bool"}, value : {0}, hasMemory : BOOLEAN]
Chains == AllOf(Upto(SetCalls, 1), 2) \cup AllOf(Upto(SetCalls, 2), 1)
PrintTexts == { << >>, <<"x", "y">>, <<"p", "q", "r", "s", "t">> }
PrintOps == {"printf", "write", "writeAll", "resize"}
PrintCalls == [op : PrintOps, text : PrintTexts, hasMemory : {TRUE}] \cup [op : PrintOps, text : {<<"p", "q", "r", "s", "t">>}, hasMemory : {FALSE}]
  \cup [op : {"reset"}, text : {<< >>}, hasMemory : {TRUE}]
Rows == UNION { { <<[i \in 1 .. n |-> (i * 7) % 256], cut, offset>> : cut \in 0 .. n, offset \in {0, 4} } : n \in {0, 1, 15, 16, 17, 33} }
TemplatePieces == { <<"$">>, <<"{">>, <<"}">>, <<":">>, <<"a">>, <<"$", "{">>, <<"$", "{", "a", ":">>, <<"$", "{", "a", "b", ":">> }
TemplateInputs == { x \in { p \o q \o r : p, q, r \in TemplatePieces } \X (0 .. 12) \X {0, 2} : x[2] <= Len(x[1]) }

CodecKinds == {"bytes", "base64", "char", "utf", "number", "versions", "leb", "put", "build", "calls", "time", "texts", "timeout", "module", "data", "message", "document", "env", "tree", "rpc", "statistics", "identifier",
  "lamps", "checksum", "archive", "cut archive", "extra", "tar", "values", "words", "print", "rows"}
CodecInput(kind) ==
  CASE kind = "bytes" -> Upto({0, 1, 90, 255}, 4) \cup Uuids
    [] kind = "base64" -> Upto({0, 1, 16, 63, 65}, 4)
    [] kind = "char" -> CodePoints
    [] kind = "utf" -> Upto({65, 233, 8364}, 3)
    [] kind = "number" -> [text : Upto({0, 1, 7, 9, 15, 67, 64, 66}, 4), base : {0, 8, 10, 16}, signed : BOOLEAN]
    [] kind = "versions" -> Versions \X Versions
    [] kind = "leb" -> LebInputs
    [] kind = "put" -> PutInputs
    [] kind = "build" -> [writes : Upto(Writes, 3), size : 0 .. 7, order : B!Orders, big : BOOLEAN]
    [] kind = "calls" -> Upto(BufferCalls, 3)
    [] kind = "time" -> Times(Days \cup 700 .. 1500)
    [] kind = "texts" -> { t \in Times(Days) : t.ms = 999 } \X { t \in Times(Days) : t.ms = 0 }
    [] kind = "timeout" -> -2 .. 2100
    [] kind = "module" -> WasmModules
    [] kind = "data" -> WasmData
    [] kind = "message" -> JsonMessages \X BOOLEAN
    [] kind = "document" -> JsonDocuments
    [] kind = "env" -> Environments
    [] kind = "tree" -> Trees2
    [] kind = "rpc" -> {0, 1} \X BOOLEAN
    [] kind = "statistics" -> 0 .. 3
    [] kind = "identifier" -> (0 .. 7) \X {0, 1, 128, 239, 240, 255} \X {0, 1, 255} \X {0, 7, 255}
    [] kind = "lamps" -> (AllOf(0 .. 3, 4) \X {0, 65535, 65536, 2 ^ 19 - 1} \X {0, 31} \X {0, 1})
                         \cup ({<<1, 2, 3, 0>>} \X {524287} \X {31} \X {99, 100, 130})
    [] kind = "archive" -> ArchiveInputs
    [] kind = "cut archive" -> CutArchives
    [] kind = "extra" -> CutFields
    [] kind = "tar" -> TarInputs
    [] kind = "values" -> Chains \X {"a", "b"} \X {0, 3}
    [] kind = "words" -> (DOMAIN Kv!CaseOf) \X (0 .. 14)
    [] kind = "print" -> Upto(PrintCalls, 3)
    [] kind = "rows" -> Rows
    [] kind = "checksum" -> {0, 255, 2 ^ 29 - 1} \X { [i \in 1 .. 8 |-> (i * k) % 256] : k \in {0, 1, 37, 255} } \X (0 .. 15)

-----------------------------------------------------------------------------
(* Texts. *)

AsText(set) == { U!Chars(s) : s \in set }
Prefixed(prefix, set) == { U!Chars(prefix) \o U!Chars(s) : s \in set }
UrlPatterns == AsText({ <<"/", "a">>, <<"/", "{", "n", "}">>, <<"/", "a", "/", "{", "n", "}">>, <<"/", "{", "n", "}", "/">>,
  <<"{", "n", "}", "/", "{", "m", "}">>, <<"/", "{", "}">>, <<"/", "{", "n">>, <<"/", "{", "n", "}", "b">>,
  <<"/", "a", "{", "n", "}">>, <<"/", "{", "n", "}", "/", "b">>, <<"/">> })
QueryPairs == [name : AsText(Upto({"a", "=", "&"}, 1)), value : AsText(Upto({"a", "=", "e'"}, 2))]

PartOf(headers, body) == [headers |-> headers, body |-> body]
Header(n, v) == [name |-> n, value |-> v]
PartHeaders == { << >>, <<Header(<<"n">>, <<"v", "w">>)>>, <<Header(<<"n", "m", "o">>, << >>), Header(<<"k">>, <<"x", "y", " ">>)>> }
PartBodies == Upto({M!CR, M!LF, "-"}, 2)
  \cup { <<M!CR, M!LF, "-", "-", "x">>, <<M!CR, M!LF, "-", M!CR, M!LF, "-", "-">>, <<"x", M!CR, M!CR, M!LF>> }
Boundary == <<"b">>
PartTexts == { M!Text(Boundary, <<PartOf(h, b)>>) : h \in PartHeaders, b \in PartBodies }
  \cup { M!Text(Boundary, <<PartOf(<< >>, b), PartOf(<< >>, <<"z">>)>>) : b \in {<< >>, <<M!CR>>} }
Cuts == UNION { [text : {t}, cuts : { {i, i + 2} : i \in 1 .. Len(t) - 2 }, size : {2, 176}] : t \in PartTexts }
BrokenParts == UNION { { [text |-> [t EXCEPT ![i] = c], cuts |-> {i, 9}, size |-> 176] : i \in DOMAIN t, c \in {M!CR, M!LF, "-", ":"} } :
  t \in { M!Text(Boundary, <<PartOf(h, <<"x", M!CR>>)>>) : h \in PartHeaders } }
PartLists == { <<PartOf(h, b)>> : h \in PartHeaders, b \in PartBodies }
  \cup { <<PartOf(<< >>, b), PartOf(h, c)>> : b \in Upto({M!CR, "x"}, 1), c \in Upto({M!CR, M!LF}, 2), h \in PartHeaders }
Disposition(n, f) == [name |-> "Content-Disposition", data |-> [name |-> n, filename |-> f]]
TypeHeader == [name |-> "Content-Type", data |-> "text"]
OtherHeader == [name |-> "Other", data |-> "o"]
FormHeaders == { <<Disposition(n, f)>> : n \in {"a", "b", "c"}, f \in {"", "f"} }
  \cup { <<TypeHeader, Disposition("a", "f")>>, <<Disposition("a", "f"), TypeHeader>>, <<OtherHeader>>,
         <<OtherHeader, Disposition("b", ""), OtherHeader>>, <<Disposition("a", "f"), Disposition("b", "f")>> }
Forms == [enabled : { <<[name |-> "a", flags |-> f, max |-> m], [name |-> "b", flags |-> g, max |-> 0]>> :
                        f \in SUBSET {"mandatory", "filename", "content type"}, g \in {{}, {"mandatory"}}, m \in {0, 2} },
          parts : Upto({ PartOf(h, b) : h \in FormHeaders, b \in {<< >>, <<"y", "z">>} }, 2)]

SecondPaths == { <<"a">>, <<".", ".">>, << >>, <<"/", "b">>, <<"C", ":">>, <<".", ".", "/", "b">>,
  <<"b", "/", ".", ".", "\\", ".", ".">>, <<".">>, <<"\\">> }
IpParts == { << >>, <<"1">>, <<" ", "1">>, <<"2", "5", "5", " ">>, <<"2", "5", "6">>, <<"1", " ", "1">>, <<"x">> }
LineParts == { << >>, <<"G">>, <<"u", "v">>, <<"n", " ", "m">>, <<"n", " ">>, <<" ">> }
FormFields == [key : {"name", "filename", "x"}, value : { << >>, <<"a">>, <<"a", " ", "b">> }]
Gaps == AllOf(0 .. 1, 3)
Endings == { << >>, <<" ">>, <<";">>, <<" ", " ">>, <<" ", ";">>, <<";", " ">> }

TextKinds == {"url", "host", "path", "query", "encoded", "cut", "parts", "fields", "arguments", "key", "join", "file", "ip", "endpoint", "mac", "lines", "boundary", "form", "template", "split"}
TextInput(kind) ==
  CASE kind = "url" -> Prefixed(<<"s", ":", "/", "/">>, Upto({"a", ":", "/", "?", "#"}, 4)) \cup AsText(Upto({"a", ":", "/"}, 4))
    [] kind = "host" -> AsText(Upto({"w", ".", "h", ":", "1"}, 4)) \cup Prefixed(<<"w", "w", "w", ".">>, Upto({"w", ".", "h", ":", "1"}, 3))
    [] kind = "path" -> AsText(Upto({"a", "b", "/", "e'"}, 4)) \X UrlPatterns
    [] kind = "query" -> Upto(QueryPairs, 2)
    [] kind = "encoded" -> Upto({ U!Plain(c) : c \in {"a", " ", "+", "%", "e'"} }, 3)
    [] kind = "cut" -> Cuts \cup BrokenParts
    [] kind = "parts" -> PartLists
    [] kind = "fields" -> Forms
    [] kind = "arguments" -> Upto(Upto({"a", " ", "\"", "\\"}, 2) \cup {<<"'">>}, 2)
    [] kind = "key" -> Upto({"-", "a", "="}, 5) \X Upto({"a", "=", "b"}, 2)
    [] kind = "join" -> Upto({"a", ".", "/", ":"}, 4) \X SecondPaths
    [] kind = "file" -> Upto({"a", ".", "/"}, 5) \cup { <<"C", ":">> \o rest : rest \in Upto({"a", ".", "/", "\\"}, 3) }
    [] kind = "ip" -> (AllOf(IpParts, 4) \cup AllOf({<<"1">>}, 3) \cup AllOf({<<"1">>}, 5)) \X { << >>, <<"x">> }
    [] kind = "endpoint" -> AllOf({0, 9, 10, 255}, 4) \X {0, 9, 80, 65535, 65536}
    [] kind = "mac" -> AllOf({0, 10, 159}, 6)
    [] kind = "lines" -> AllOf(LineParts, 3) \X Gaps
    [] kind = "boundary" -> ({"multipart/form-data;", "text"} \X {"boundary=", "text"}) \X AllOf(0 .. 2, 2) \X { << >>, <<"x">>, <<"x", " ">>, <<" ", "x">> }
    [] kind = "template" -> TemplateInputs
    [] kind = "split" -> Upto({<< >>, <<"z">>}, 1) \X Upto({"a", ","}, 4) \X (0 .. 5)
    [] kind = "form" -> (UNION { AllOf(FormFields, n) : n \in 0 .. 2 }) \X Gaps \X Endings

-----------------------------------------------------------------------------
(* The modules. *)

Doc == INSTANCE DBCDocWriter
  WITH Scripts <- FileScripts, Fuels <- FileFuels, script <- r1, count <- r2, place <- r3, heap <- r4, document <- r5,
       lastMessage <- r6, lastMultiplexerSignal <- r7, writer <- r8
Parser == INSTANCE DBCParser
  WITH Tokens <- FileTokens, Alphabets <- FileAlphabets, keywords <- r1, place <- r2, machine <- r3, parsed <- r4,
       errorCode <- r5, finished <- r6
Lexer == INSTANCE DBCLexer
  WITH mode <- r1, indent <- r2, prev <- r3, start <- r4, position <- r5, highest <- r6, lexed <- r7
J1939 == INSTANCE DBCJ1939 WITH Sizes <- {0, 1, 6, 7, 9}, tp <- r1, payload <- r2
Json == INSTANCE JSONWriter WITH json <- r1, refused <- r2
Frame == INSTANCE WebSocketFrame WITH PayloadSizes <- {0, 2, 125, 126, 65535, 65536}, buffer <- r1, completed <- r2
Desc == INSTANCE DescSet
  WITH Num <- 2, Serials <- 0 .. 2, allocList <- r1, freeList <- r2, ids <- r3, free <- r4, out <- r5, before <- r6, allocs <- r7
Log == INSTANCE LogCircular WITH Capacity <- 3, items <- r1, isFull <- r2, position <- r3, printed <- r4, allocated <- r5

Paths == INSTANCE Paths
Printing == INSTANCE Printing WITH BufferSize <- 4, Names <- {<<"a">>, <<"a", "b">>}, Room <- 6

-----------------------------------------------------------------------------

Init ==
  \/ part = "document" /\ Doc!WriterInit
  \/ part = "parser" /\ Parser!ParserInit /\ r7 = 0 /\ r8 = 0
  \/ part = "lexer" /\ Lexer!DBCLexer_init /\ r8 = 0
  \/ part = "j1939" /\ J1939!J1939Init /\ r3 = 0 /\ r4 = 0 /\ r5 = 0 /\ r6 = 0 /\ r7 = 0 /\ r8 = 0
  \/ part = "json" /\ Json!JSONInit /\ r3 = 0 /\ r4 = 0 /\ r5 = 0 /\ r6 = 0 /\ r7 = 0 /\ r8 = 0
  \/ part = "frame" /\ Frame!FrameInit /\ r3 = 0 /\ r4 = 0 /\ r5 = 0 /\ r6 = 0 /\ r7 = 0 /\ r8 = 0
  \/ part = "descriptors" /\ Desc!DescInit /\ r8 = 0
  \/ part = "log" /\ Log!LogInit /\ r6 = 0 /\ r7 = 0 /\ r8 = 0
  \/ part = "map" /\ Kv!KeyInit /\ r5 = 0 /\ r6 = 0 /\ r7 = 0 /\ r8 = 0
  \/ part = "codec" /\ r1 = NoInput /\ r2 \in CodecKinds /\ r3 = FALSE /\ r4 = 0 /\ r5 = 0 /\ r6 = 0 /\ r7 = 0 /\ r8 = 0
  \/ part = "text" /\ r1 = NoInput /\ r2 \in TextKinds /\ r3 = FALSE /\ r4 = 0 /\ r5 = 0 /\ r6 = 0 /\ r7 = 0 /\ r8 = 0

DocStep == part = "document" /\ Doc!WriterNext
ParserStep == part = "parser" /\ Parser!ParserNext /\ UNCHANGED <<r7, r8>>
LexerStep == part = "lexer" /\ Lexer!LexerNext /\ UNCHANGED r8
J1939Step == part = "j1939" /\ J1939!J1939Next /\ UNCHANGED <<r3, r4, r5, r6, r7, r8>>
JsonStep == part = "json" /\ Json!JSONNext /\ UNCHANGED <<r3, r4, r5, r6, r7, r8>>
FrameStep == part = "frame" /\ Frame!FrameNext /\ UNCHANGED <<r3, r4, r5, r6, r7, r8>>
DescStep == part = "descriptors" /\ Desc!DescNext /\ UNCHANGED r8
LogStep == part = "log" /\ Log!LogNext /\ UNCHANGED <<r6, r7, r8>>
KvStep == part = "map" /\ Kv!KeyNext /\ UNCHANGED <<r5, r6, r7, r8>>
PickCodec == part = "codec" /\ ~r3 /\ r1' \in CodecInput(r2) /\ r3' = TRUE /\ UNCHANGED <<r2, r4, r5, r6, r7, r8>>
PickText == part = "text" /\ ~r3 /\ r1' \in TextInput(r2) /\ r3' = TRUE /\ UNCHANGED <<r2, r4, r5, r6, r7, r8>>

Next ==
  /\ UNCHANGED part
  /\ \/ DocStep \/ ParserStep \/ LexerStep \/ J1939Step \/ JsonStep \/ FrameStep
     \/ DescStep \/ LogStep \/ KvStep \/ PickCodec \/ PickText

Spec == Init /\ [][Next]_vars

-----------------------------------------------------------------------------

(* A DBC document has no dangling or lost reference, whichever sections come and
   whichever allocation fails; its attributes are ones their definitions admit; and
   released it is gone. (DBCDocument.c and DBCDocWriter.c.) *)
DocumentSound == part = "document" => Doc!DocumentReferences /\ Doc!AttributesFit /\ Doc!NothingLeft

(* Whatever a DBC file holds, the parser's stack has what the initializers shift from
   it, a signal is in a message, and no token is written behind the lexer's buffer.
   (DBCParser.c.) *)
ParserSound ==
  /\ part = "parser" => Parser!ShiftsFit /\ Parser!SignalsInMessages
  /\ part = "lexer" => Lexer!LexerStaysInBuffer

(* What is written in pieces is well formed as a whole: J1939 packets carry their bytes
   in order, a web socket's frame is parsed as it was made, and the JSON writer refuses
   what would be no JSON. (DBCJ1939.c, WebSocketFrame.c and JSONWriter.c.) *)
FramesAgree ==
  /\ part = "j1939" => J1939!FramesCarryPayload
  /\ part = "frame" => Frame!FrameParsesBack
  /\ part = "json" => Json!WritesJSON

(* The callers of the JSON writer make none of the calls it should have refused. *)
Deep == INSTANCE JSONWriter WITH MaxDepth <- 254, MaxText <- 0, json <- r1, refused <- r2
Written(calls) == FoldLeft(Deep!Call, Deep!NQJSONWriter_init(FALSE), calls)
MakesJSON(calls) == LET written == Written(calls) IN ~written.hasError /\ Deep!IsJSON(written.text)
EnvIsJSON(env) ==
  LET text == Written(Json!AllEnvRequest(env.available, env.variables)).text
  IN Deep!IsJSON(text) <=> ~env.available \/ \A i \in DOMAIN env.variables : env.variables[i] # "no memory"

(* The statement for each kind of input. *)
CodecAgrees(kind, x) ==
  CASE kind = "bytes" -> T!BytesRoundTrip(x)
    [] kind = "base64" -> T!Base64Strict(x)
    [] kind = "char" -> T!CharRoundTrip(x)
    [] kind = "utf" -> T!UtfRoundTrip(x)
    [] kind = "number" -> T!ReadsNumber(x.text, x.base, 8, x.signed)
    [] kind = "versions" -> T!VersionsOrdered(x[1], x[2])
    [] kind = "leb" -> B!Leb128RoundTrip(x.value, x.width, x.signed)
    [] kind = "put" -> B!PutIsGot(x.value, x.count, x.order, x.big, x.signed, x.before)
    [] kind = "build" -> B!BuilderKeepsPrefix(x.writes, x.size, x.order, x.big)
    [] kind = "calls" -> B!BufferIsSequence(x)
    [] kind = "time" -> T!DateIsRight(x)
    [] kind = "texts" -> T!TextsSort(x[1], x[2])
    [] kind = "timeout" -> T!TimeoutsKeep(x)
    [] kind = "module" -> W!ModuleIsReadBack(x)
    [] kind = "data" -> W!RewriteIsStable(x)
    [] kind = "message" -> MakesJSON(Json!NQDBCMessageWriteTo(x[1], x[2]))
    [] kind = "document" -> MakesJSON(Json!NQDBCDocumentWriteTo(x))
    [] kind = "env" -> EnvIsJSON(x)
    [] kind = "tree" -> MakesJSON(Json!NQJSONWriter_writeJSON(x))
    [] kind = "rpc" -> MakesJSON(Json!NQWebResponse_writeJsonRpcError(x[1], x[2]))
    [] kind = "statistics" -> MakesJSON(Json!NQHttpStatistics_writeTo(x)) /\ MakesJSON(Json!GetEnvRequest)
    [] kind = "identifier" -> J1939!IdentifierReadsBack(x[1], x[2], x[3], x[4])
    [] kind = "lamps" -> J1939!DiagnosticReadsBack(x[1], x[2], x[3], x[4])
    [] kind = "archive" -> A!ArchiveIsRead(x[1], x[2])
    [] kind = "cut archive" -> A!CutArchive(x[1], x[2])
    [] kind = "extra" -> A!ExtraIsRead(x[1], x[2])
    [] kind = "tar" -> A!TarIsRead(x[1], x[2])
    [] kind = "values" -> Kv!ValueIsFound(x[1], x[2], x[3])
    [] kind = "words" -> Kv!WordsAgree(x[1], x[2])
    [] kind = "print" -> Printing!PrintKeepsText(x)
    [] kind = "rows" -> Printing!HexIsRows(x[1], x[2], x[3])
    [] kind = "checksum" -> J1939!ChecksumIsValid(x[1], x[2], x[3])

(* Numbers, bytes and modules are read back as they were written, also at the limits of
   their widths, and what is refused would not have been. (Leb128.c, UTF.c, Base64.c,
   CStrToNum.c, ByteBuffer.c, Time.c, wasm/Module.c, Zip.c, Tarball.c, StringPrint.c,
   PrimitiveStorage.c and the callers of JSONWriter.c.) *)
CodecsAgree == [][part = "codec" => CodecAgrees(r2, r1')]_vars

TextAgrees(kind, x) ==
  CASE kind = "url" -> U!UrlIsItsParts(x)
    [] kind = "host" -> U!HostsCompare(x)
    [] kind = "path" -> U!PathsMatch(x[1], x[2])
    [] kind = "query" -> U!QueryRoundTrip(x)
    [] kind = "encoded" -> T!UrlRoundTrip(x)
    [] kind = "cut" -> M!ChunksDoNotMatter(Boundary, x.text, x.cuts, x.size)
    [] kind = "parts" -> M!PartsAreFound(Boundary, x)
    [] kind = "fields" -> M!FormKeepsFields(x.enabled, x.parts)
    [] kind = "arguments" -> Paths!ArgumentsReadBack(x)
    [] kind = "key" -> Paths!KeysAgree(x[1], x[2])
    [] kind = "join" -> Paths!PathsJoin(x)
    [] kind = "file" -> Paths!PartsMakeThePath(x)
    [] kind = "ip" -> Paths!AddressIsItsText(x[1], x[2])
    [] kind = "endpoint" -> Paths!EndPointReadsBack(x[1], x[2])
    [] kind = "mac" -> Paths!MACReadsBack(x)
    [] kind = "lines" -> M!LinesReadBack(x[1], x[2])
    [] kind = "boundary" -> M!BoundaryIsFound(x[1], x[2], x[3])
    [] kind = "template" -> Printing!TemplateIsFilled(x[1], x[2], x[3])
    [] kind = "split" -> Printing!SplitJoins(x[1], x[2], x[3])
    [] kind = "form" -> M!FormDataIsRead(x[1], x[2], x[3])

(* Texts are taken apart into the parts they were made of, wherever they are cut into
   buffers. (URL.c, UrlPath.c, HttpMultiPartParser.c, HttpHeader.c, Arguments.c,
   Path.c, EndPoint.c, StringList.c and NsVarWriter.c.) *)
TextsAgree == [][part = "text" => TextAgrees(r2, r1')]_vars

(* What was put into a table is found there: a descriptor's entry by its number until
   it is freed, the last lines of the log, the last value of each key. (DescSet.c,
   LogCircular.c and KeyVal.c.) *)
TablesSound ==
  /\ part = "descriptors" => Desc!DescriptorsFound
  /\ part = "log" => Log!LastLines
  /\ part = "map" => Kv!KeyValIsMap
=============================================================================
