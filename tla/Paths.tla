-------------------------------- MODULE Paths --------------------------------
(***************************************************************************)
(* File paths: joined and normalized in two passes, one that measures and   *)
(* one that writes, the second perhaps over the first of the paths itself   *)
(* (NQPathBuilder); taken apart; compared. A buffer that is too small fails *)
(* an assertion of the code and is not modelled. Then the command line that *)
(* names them, taken apart: with quotes of both kinds and escapes           *)
(* (NQArguments_parse), and as Windows hands it over (NQArguments_parse-    *)
(* UTF16), and the keys of its arguments; each parser runs twice, to        *)
(* measure and to copy, here once. Then addresses, from text and to text. A *)
(* text is a sequence of characters.                                        *)
(***************************************************************************)
EXTENDS Integers, Sequences, FiniteSets, SequencesExt

Separators == {"/", "\\"}
Letters == {"a", "b", "C"}
IsDrive(segment) == Len(segment) = 2 /\ segment[1] \in Letters /\ segment[2] = ":"

(* What pathReadNext returns, with where it ends in its path. The root is a segment
   of its own, if it comes before all others. *)
Root == <<"/">>
Pieces(path) ==
  LET starts == { i \in DOMAIN path : path[i] \notin Separators /\ (i = 1 \/ path[i - 1] \in Separators) }
      End(i) == CHOOSE e \in i .. Len(path) : (e = Len(path) \/ path[e + 1] \in Separators) /\ \A j \in i .. e : path[j] \notin Separators
      from == SetToSortSeq(starts, <)
  IN [k \in DOMAIN from |-> [text |-> SubSeq(path, from[k], End(from[k])), end |-> End(from[k])]]
Read(paths) ==
  LET filled == SelectSeq(paths, LAMBDA p : p # << >>)
      pieces == FlattenSeq([i \in DOMAIN paths |-> Pieces(paths[i])])
  IN IF filled # << >> /\ filled[1][1] \in Separators THEN <<[text |-> Root, end |-> 1]>> \o pieces ELSE pieces

(* NQPathResolve begins with the last path that starts anew: one with a separator of
   either kind in front, or a drive alone or with a separator behind it. (Of an empty
   path the code also reads the character after its end, and takes no notice.) *)
StartsAnew(path) ==
  path # << >> /\ (path[1] \in Separators \/ (Len(path) > 1 /\ IsDrive(SubSeq(path, 1, 2)) /\ (Len(path) = 2 \/ path[3] \in Separators)))
Resolved(paths) ==
  LET absolute == { i \in DOMAIN paths : StartsAnew(paths[i]) }
  IN IF absolute = {} THEN paths ELSE SubSeq(paths, CHOOSE i \in absolute : \A j \in absolute : j <= i, Len(paths))

(* An absolute path is fewer: no backslash in front, no drive alone. *)
NQIsAbsolutePath(path) ==
  \/ IsPrefix(Root, path)
  \/ Len(path) > 2 /\ IsDrive(SubSeq(path, 1, 2)) /\ path[3] \in Separators

-----------------------------------------------------------------------------

(* struct PathWrite. first holds the first two characters; out is there only in the
   second pass, where it is as long as length says. *)
PathWriteInit == [out |-> << >>, length |-> 0, first |-> <<"?", "?">>, count |-> 0]
IsAbsolute(st) == (st.length = 1 /\ st.first[1] = "/") \/ (st.length = 2 /\ IsDrive(st.first))

LastSeparator(out) ==
  LET found == { i \in DOMAIN out : out[i] = "/" } IN IF found = {} THEN 0 ELSE CHOOSE i \in found : \A j \in found : j <= i
WithoutLast(out) ==
  LET at == LastSeparator(out) IN IF at = 1 THEN <<"/">> ELSE SubSeq(out, 1, at - 1)

Put(st, text) ==
  [st EXCEPT !.out = @ \o text, !.length = @ + Len(text),
             !.first = [k \in 1 .. 2 |-> IF k > st.length /\ k <= st.length + Len(text) THEN text[k - st.length] ELSE @[k]]]
Added(st, segment) ==
  IF st.length > 0 /\ ~(st.length = 1 /\ st.first[1] = "/") THEN Put(Put(st, <<"/">>), segment) ELSE Put(st, segment)

(* pathWritePush: the first pass forgets a segment that is taken back, but not how
   long it was. *)
Push(st, segment, writing) ==
  LET up == segment = <<".", ".">>
  IN CASE segment = <<".">> -> st
       [] segment = Root /\ st.length = 0 -> Put(st, Root)
       [] up /\ st.count # 0 ->
            IF writing THEN [st EXCEPT !.count = @ - 1, !.out = WithoutLast(@), !.length = Len(WithoutLast(st.out))]
            ELSE [st EXCEPT !.count = @ - 1]
       [] up /\ st.count = 0 -> IF IsAbsolute(st) THEN st ELSE Added(st, segment)
       [] OTHER -> Added(IF st.length # 0 \/ ~IsDrive(segment) THEN [st EXCEPT !.count = @ + 1] ELSE st, segment)

PathWriteFinish(st) ==
  CASE st.length = 0 -> Put(st, <<".">>)
    [] st.length = 2 /\ IsDrive(st.first) -> Put(st, <<"/">>)
    [] OTHER -> st
Pass(paths, writing) == PathWriteFinish(FoldLeft(LAMBDA st, piece : Push(st, piece.text, writing), PathWriteInit, Read(paths)))

NQPathJoin(paths) == Pass(paths, TRUE).out
NQPathResolve(paths) == NQPathJoin(Resolved(paths))
Measured(paths) == Pass(paths, FALSE).length

-----------------------------------------------------------------------------

(* NQPathInfoParse2. A character that follows a dot of a segment's start does not
   count: a segment that begins with one never looks normal. *)
Info(dirname, basename, isAbsolute, isDirOnly, isNormalize) ==
  [dirname |-> dirname, basename |-> basename, isAbsolute |-> isAbsolute, isDirOnly |-> isDirOnly, isNormalize |-> isNormalize]
NQPathInfoParse(path) ==
  LET Count(ch) == IF ch = "." THEN 1 ELSE 3
      Step(st, i) ==
        LET ch == path[i]
            after == path[i - 1] = "/"
        IN IF ch # "/"
           THEN IF after THEN [st EXCEPT !.base = i, !.count = Count(ch)]
                ELSE IF ch = "." THEN [st EXCEPT !.count = @ + 1] ELSE st
           ELSE IF after \/ st.count < 3 THEN [st EXCEPT !.normal = FALSE] ELSE st
      st == FoldLeft(Step, [base |-> 1, count |-> Count(path[1]), normal |-> TRUE], [i \in 1 .. Len(path) - 1 |-> i + 1])
      dirname == SubSeq(path, 1, IF st.base > 2 THEN st.base - 2 ELSE st.base - 1)
      isDirOnly == Last(path) = "/"
  IN CASE path = << >> -> Info(<<".">>, << >>, FALSE, FALSE, TRUE)
       [] path = Root -> Info(Root, << >>, TRUE, TRUE, TRUE)
       [] OTHER -> Info(IF dirname = << >> THEN <<".">> ELSE dirname,
                        SubSeq(path, st.base, IF isDirOnly THEN Len(path) - 1 ELSE Len(path)), path[1] = "/", isDirOnly, st.normal)

NQPathStartsWith(path, search) ==
  LET Same(a, b) == a = b \/ {a, b} \subseteq Separators
  IN /\ Len(search) <= Len(path) /\ \A i \in DOMAIN search : Same(path[i], search[i])
     /\ \/ Len(path) = Len(search) \/ path[Len(search) + 1] \in Separators
        \/ search # << >> /\ path[Len(search)] \in Separators

-----------------------------------------------------------------------------

(* What a normal path is: a root or a drive, names, and ".." only where nothing is
   left to take back. *)
Normal(paths) ==
  LET Step(st, piece) ==
        CASE piece.text = <<".">> -> st
          [] piece.text = Root -> [st EXCEPT !.root = Root]
          [] IsDrive(piece.text) /\ st.root = << >> /\ st.names = << >> -> [st EXCEPT !.root = piece.text \o Root]
          [] piece.text = <<".", ".">> ->
               IF st.names # << >> /\ Last(st.names) # piece.text THEN [st EXCEPT !.names = Front(@)]
               ELSE IF st.root # << >> THEN st ELSE [st EXCEPT !.names = Append(@, piece.text)]
          [] OTHER -> [st EXCEPT !.names = Append(@, piece.text)]
      st == FoldLeft(Step, [root |-> << >>, names |-> << >>], Read(paths))
      names == FlattenSeq([i \in DOMAIN st.names |-> IF i = 1 THEN st.names[i] ELSE <<"/">> \o st.names[i]])
  IN IF st.root \o names = << >> THEN <<".">> ELSE st.root \o names

(* Joining makes the normal path; what the first pass measures has room for it; and
   over the path it reads from, what is written never overtakes what is read. A
   path joined is below the first, unless it goes up. (pathWritePush, NQPath_join,
   pathBuilderJoin.) *)
PathsJoin(paths) ==
  /\ NQPathJoin(paths) = Normal(paths)
  /\ NQPathResolve(paths) = Normal(Resolved(paths))
  /\ Measured(paths) >= Len(NQPathJoin(paths))
  /\ LET builder == NQPathJoin(<<paths[1]>>)
         pieces == Read(<<builder>>)
     IN \A k \in DOMAIN pieces :
          FoldLeft(LAMBDA st, piece : Push(st, piece.text, TRUE), PathWriteInit, SubSeq(pieces, 1, k)).length <= pieces[k].end
  /\ paths[1] # << >> /\ NQPathJoin(<<paths[1]>>) # <<".">> /\ (\A i \in 2 .. Len(paths) : \A k \in DOMAIN Pieces(paths[i]) : Pieces(paths[i])[k].text # <<".", ".">>) =>
       NQPathStartsWith(NQPathJoin(paths), NQPathJoin(<<paths[1]>>))

(* A path that is told to be normal is what its two parts make, the second a single
   name; and it is absolute exactly if the first is. Joining leaves an absolute path
   absolute. (NQPathInfoParse2, NQIsAbsolutePath, NQPathJoin.) *)
PartsMakeThePath(path) ==
  LET info == NQPathInfoParse(path)
  IN /\ NQIsAbsolutePath(path) => NQIsAbsolutePath(NQPathJoin(<<path>>))
     /\ info.isNormalize =>
          /\ NQPathJoin(<<info.dirname, info.basename>>) = NQPathJoin(<<path>>)
          /\ \A i \in DOMAIN info.basename : info.basename[i] # "/"
          /\ info.isAbsolute <=> IsPrefix(Root, info.dirname)

-----------------------------------------------------------------------------
(* Arguments.c *)

Escape == "\\"
Quote == "\""
Special == {Escape, Quote, "'", " "}

(* argumentsParase. quoted counts quotes, of all arguments so far. *)
Fresh == [args |-> << >>, text |-> << >>, escape |-> FALSE, quote |-> Quote, quoted |-> 0]
Take(st, ch) ==
  CASE st.escape -> [st EXCEPT !.text = Append(@, ch), !.escape = FALSE]
    [] ~st.escape /\ ch = Escape -> [st EXCEPT !.escape = TRUE]
    [] ~st.escape /\ ch # Escape /\ st.quoted % 2 = 1 ->
         IF ch = st.quote THEN [st EXCEPT !.quoted = @ + 1] ELSE [st EXCEPT !.text = Append(@, ch)]
    [] OTHER ->
         CASE ch \in {Quote, "'"} -> [st EXCEPT !.quote = ch, !.quoted = @ + 1]
           [] ch = " " -> IF st.quoted = 0 /\ st.text = << >> THEN st ELSE [st EXCEPT !.args = Append(@, st.text), !.text = << >>]
           [] OTHER -> [st EXCEPT !.text = Append(@, ch)]

NQArguments_parse2(line) ==
  LET read == FoldLeft(Take, Fresh, line)
      last == read.text \o (IF read.escape THEN <<Escape>> ELSE << >>)
  IN read.args \o (IF read.quoted # 0 \/ last # << >> THEN <<last>> ELSE << >>)

(* parseCommandLineUTF16. A unit that is no character ends it, without the argument
   it was in. Only inside of quotes is a backslash more than itself. *)
NoCharacter == "\\ud800"
FreshW == [args |-> << >>, text |-> << >>, isText |-> FALSE, isQm |-> FALSE, isSlash |-> FALSE, over |-> FALSE]
TakeW(st, ch) ==
  CASE st.over -> st
    [] ~st.over /\ ch = NoCharacter -> [st EXCEPT !.over = TRUE]
    [] ~st.over /\ ch # NoCharacter /\ st.isQm ->
         CASE ~st.isSlash /\ ch = Escape -> [st EXCEPT !.isSlash = TRUE]
           [] ~st.isSlash /\ ch = Quote -> [st EXCEPT !.isQm = FALSE]
           [] OTHER -> [st EXCEPT !.isSlash = FALSE, !.text = @ \o (IF st.isSlash /\ ch # Quote THEN <<Escape>> ELSE << >>) \o <<ch>>]
    [] OTHER ->
         CASE ch = Quote -> [st EXCEPT !.isQm = TRUE, !.isText = TRUE]
           [] ch = " " -> IF st.isText THEN [st EXCEPT !.args = Append(@, st.text), !.text = << >>, !.isText = FALSE] ELSE st
           [] OTHER -> [st EXCEPT !.text = Append(@, ch), !.isText = TRUE]

NQArguments_parseUTF16(line) ==
  LET read == FoldLeft(TakeW, FreshW, line)
      last == read.text \o (IF read.isSlash THEN <<Escape>> ELSE << >>)
  IN read.args \o (IF read.isText /\ ~read.over THEN <<last>> ELSE << >>)

-----------------------------------------------------------------------------

(* What follows "--key" in an argument, or that there is none. *)
Dashes == <<"-", "-">>
Without == <<"no key">>
SkipKey(arg, key) == IF IsPrefix(Dashes \o key, arg) THEN SubSeq(arg, Len(key) + 3, Len(arg)) ELSE Without
NQArgGetStringOr(arg, key, defval) ==
  LET rest == SkipKey(arg, key) IN IF rest # Without /\ rest # << >> /\ rest[1] = "=" THEN Tail(rest) ELSE defval
NQArgHasKey(arg, key) == LET rest == SkipKey(arg, key) IN rest # Without /\ (rest = << >> \/ rest[1] = "=")
NQArgHasKeyOnly(arg, key) == SkipKey(arg, key) = << >>

(* Character by character: the first of the key is neither the end nor "=". *)
NQArguments_hasLKey(args, value) ==
  \E i \in DOMAIN args :
    LET arg == args[i]
        same == { n \in 0 .. Len(value) : n + 2 <= Len(arg) /\ SubSeq(arg, 3, n + 2) = SubSeq(value, 1, n) }
        n == CHOOSE m \in same : \A k \in same : k <= m   \* how far they are the same
        next == IF n + 3 <= Len(arg) THEN arg[n + 3] ELSE "end"
    IN /\ IsPrefix(Dashes, arg) /\ Len(arg) > 2 /\ arg[3] # "="
       /\ n = Len(value) /\ n > 0 /\ next \in {"=", "end"}

-----------------------------------------------------------------------------

(* An argument in quotes, as a shell would be given it. *)
InQuotes(arg, escaped) ==
  <<Quote>> \o FlattenSeq([i \in DOMAIN arg |-> IF arg[i] \in escaped THEN <<Escape, arg[i]>> ELSE <<arg[i]>>]) \o <<Quote>>
Line(args, gap) == FlattenSeq([i \in DOMAIN args |-> IF i = 1 THEN args[i] ELSE gap \o args[i]])

(* Arguments in quotes, one space apart, are read as they were, whatever is in them,
   but for backslashes on Windows; without quotes also if there is more space, in
   front and behind too. (argumentsParase, parseCommandLineUTF16.) *)
ArgumentsReadBack(args) ==
  LET bare == \A i \in DOMAIN args : args[i] # << >> /\ \A j \in DOMAIN args[i] : args[i][j] \notin Special
      noEscape == \A i \in DOMAIN args : \A j \in DOMAIN args[i] : args[i][j] # Escape
      quoted == Line([i \in DOMAIN args |-> InQuotes(args[i], {Quote, Escape})], <<" ">>)
      quotedW == Line([i \in DOMAIN args |-> InQuotes(args[i], {Quote})], <<" ", " ">>)
      spaced == <<" ">> \o Line(args, <<" ", " ">>) \o <<" ">>
  IN /\ NQArguments_parse2(quoted) = args
     /\ noEscape => NQArguments_parseUTF16(quotedW) = args
     /\ bare => NQArguments_parse2(spaced) = args /\ NQArguments_parseUTF16(spaced) = args

(* The two ways to ask for a key say the same of a key that has no "=", and its value
   is what follows. (NQArguments_hasLKey, NQArgHasKey.) *)
KeysAgree(arg, key) ==
  key # << >> /\ (\A i \in DOMAIN key : key[i] # "=") =>
    /\ NQArguments_hasLKey(<<arg>>, key) = NQArgHasKey(arg, key)
    /\ NQArgHasKey(arg, key) =>
         NQArgHasKeyOnly(arg, key) \/ arg = Dashes \o key \o <<"=">> \o NQArgGetStringOr(arg, key, Without)

-----------------------------------------------------------------------------
(* net/EndPoint.c: IPv4 addresses, their end points and MAC addresses, from text
   and to text. *)

Decimal == <<"0", "1", "2", "3", "4", "5", "6", "7", "8", "9">>
Upper == Decimal \o <<"A", "B", "C", "D", "E", "F">>
Lower == Decimal \o <<"a", "b", "c", "d", "e", "f">>
ValueIn(digits, ch) == (CHOOSE i \in DOMAIN digits : digits[i] = ch) - 1
IsIn(digits, ch) == \E i \in DOMAIN digits : digits[i] = ch

(* The first place from at that is not of the kind, or the end. *)
After(text, at, Of(_)) ==
  LET others == { i \in at .. Len(text) : ~Of(text[i]) }
  IN IF others = {} THEN Len(text) + 1 ELSE CHOOSE i \in others : \A j \in others : i <= j
IsSpace(ch) == ch = " "
IsDigit(ch) == IsIn(Decimal, ch)
Number(digits) == FoldLeft(LAMBDA n, ch : n * 10 + ValueIn(Decimal, ch), 0, digits)

(* "%i" of what is not negative. *)
Printed(n) ==
  LET width == CHOOSE w \in 1 .. 6 : n < 10 ^ w /\ (w = 1 \/ n >= 10 ^ (w - 1))
  IN [i \in 1 .. width |-> Decimal[((n \div 10 ^ (width - i)) % 10) + 1]]

-----------------------------------------------------------------------------

Refuse == [ok |-> FALSE]
ParseIPDigits(text, at) ==
  LET start == After(text, at, IsSpace)
      stop == After(text, start, IsDigit)
      number == Number(SubSeq(text, start, stop - 1))
  IN IF start = stop \/ number > 255 THEN Refuse ELSE [ok |-> TRUE, at |-> stop, number |-> number]

NQIPv4Address_parse2(text) ==
  LET Next(st, index) ==
        LET read == ParseIPDigits(text, st.at)
            next == After(text, read.at, IsSpace)
            dot == next <= Len(text) /\ text[next] = "."
        IN IF ~st.ok \/ ~read.ok \/ (index < 4 /\ ~dot) THEN Refuse
           ELSE [ok |-> TRUE, at |-> IF index < 4 THEN next + 1 ELSE next, bytes |-> Append(st.bytes, read.number)]
      read == FoldLeft(Next, [ok |-> TRUE, at |-> 1, bytes |-> << >>], <<1, 2, 3, 4>>)
  IN IF ~read.ok \/ read.at <= Len(text) THEN Refuse ELSE [ok |-> TRUE, bytes |-> read.bytes]

NQIPv4Address_sprintf(bytes) == Printed(bytes[1]) \o <<".">> \o Printed(bytes[2]) \o <<".">> \o Printed(bytes[3]) \o <<".">> \o Printed(bytes[4])

-----------------------------------------------------------------------------

(* strtoul of the C library: spaces, a sign, digits. Without digits nothing is read;
   a minus leaves only 0 below the largest port. *)
NQSimpleStrtoul(text) ==
  LET start == After(text, 1, IsSpace)
      signed == start <= Len(text) /\ text[start] \in {"+", "-"}
      first == IF signed THEN start + 1 ELSE start
      stop == After(text, first, IsDigit)
      number == Number(SubSeq(text, first, stop - 1))
  IN IF first = stop THEN [end |-> 1, number |-> 0]
     ELSE [end |-> stop, number |-> IF signed /\ text[start] = "-" /\ number # 0 THEN 2 ^ 30 ELSE number]

NQIPv4EndPoint_parse2(text) ==
  LET pos == After(text, 1, LAMBDA ch : ch # ":")
      rest == SubSeq(text, pos + 1, Len(text))
      port == NQSimpleStrtoul(rest)
      address == NQIPv4Address_parse2(SubSeq(text, 1, pos - 1))
  IN IF pos > Len(text) \/ port.end # Len(rest) + 1 \/ port.number > 65535 \/ ~address.ok THEN Refuse
     ELSE [ok |-> TRUE, bytes |-> address.bytes, port |-> port.number]

NQIPv4EndPoint_sprintf(bytes, port) == NQIPv4Address_sprintf(bytes) \o <<":">> \o Printed(port)

-----------------------------------------------------------------------------

(* The format is "XX" six times with the separator between them. *)
ParseMACAddress(text, separator) ==
  LET IsSeparator(i) == i % 3 = 0
      Value(ch) == IF IsIn(Upper, ch) THEN ValueIn(Upper, ch) ELSE ValueIn(Lower, ch)
  IN IF /\ Len(text) = 17
        /\ \A i \in 1 .. 17 : IF IsSeparator(i) THEN text[i] = separator ELSE IsIn(Upper, text[i]) \/ IsIn(Lower, text[i])
     THEN [ok |-> TRUE, bytes |-> [k \in 1 .. 6 |-> Value(text[3 * k - 2]) * 16 + Value(text[3 * k - 1])]]
     ELSE Refuse
NQMACAddress_parse2(text) ==
  LET colons == ParseMACAddress(text, ":") IN IF colons.ok THEN colons ELSE ParseMACAddress(text, "-")
InHex(bytes, digits, separator) ==
  [i \in 1 .. 17 |-> IF i % 3 = 0 THEN separator
                     ELSE LET byte == bytes[(i + 2) \div 3] IN digits[(IF i % 3 = 1 THEN byte \div 16 ELSE byte % 16) + 1]]
NQMACAddress_sprintf(bytes) == InHex(bytes, Upper, "-")

-----------------------------------------------------------------------------

(* A text is an address exactly if its parts between points are four numbers up to
   255, with spaces around them and none inside; what is printed is that text without
   the spaces. (net/EndPoint.c: NQIPv4Address_parse2, NQIPv4Address_sprintf.) *)
AddressIsItsText(parts, rest) ==
  LET Trimmed(part) == SelectSeq(part, LAMBDA ch : ch # " ")
      Inside(part) == \E i \in 2 .. Len(part) - 1 : part[i] = " " /\ part[i - 1] # " " /\ \E j \in i + 1 .. Len(part) : part[j] # " "
      Good(part) == Trimmed(part) # << >> /\ ~Inside(part) /\ (\A i \in DOMAIN Trimmed(part) : IsDigit(Trimmed(part)[i])) /\ Number(Trimmed(part)) < 256
      text == FoldLeft(LAMBDA all, part : all \o <<".">> \o part, parts[1], Tail(parts)) \o rest
      read == NQIPv4Address_parse2(text)
  IN /\ read.ok <=> Len(parts) = 4 /\ (\A i \in 1 .. 4 : Good(parts[i])) /\ (rest = << >> \/ rest[1] = " ")
     /\ read.ok => NQIPv4Address_sprintf(read.bytes) = SelectSeq(text, LAMBDA ch : ch # " ")

(* What is printed is read back, with any port there is; a port that is none is
   refused. (net/EndPoint.c: NQIPv4EndPoint_parse2, NQIPv4EndPoint_sprintf.) *)
EndPointReadsBack(bytes, port) ==
  NQIPv4EndPoint_parse2(NQIPv4EndPoint_sprintf(bytes, port)) = IF port < 65536 THEN [ok |-> TRUE, bytes |-> bytes, port |-> port] ELSE Refuse

(* A MAC address is read in each of its forms, and in none that mixes them.
   (net/EndPoint.c: NQMACAddress_parse2, NQMACAddress_sprintf.) *)
MACReadsBack(bytes) ==
  LET read == [ok |-> TRUE, bytes |-> bytes]
  IN /\ NQMACAddress_parse2(NQMACAddress_sprintf(bytes)) = read
     /\ \A digits \in {Upper, Lower}, separator \in {":", "-"} : NQMACAddress_parse2(InHex(bytes, digits, separator)) = read
     /\ ~NQMACAddress_parse2([InHex(bytes, Upper, ":") EXCEPT ![9] = "-"]).ok
=============================================================================
