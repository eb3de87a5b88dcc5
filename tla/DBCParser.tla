------------------------------ MODULE DBCParser ------------------------------
(***************************************************************************)
(* The DBC parser: tokens in, sections out. A section is read by a machine  *)
(* that follows the rows of the section's table and collects the values on  *)
(* a stack, from which the section's initializer shifts them by type.       *)
(***************************************************************************)
EXTENDS DBCSections

CONSTANTS Tokens,     \* the tokens of the input: records of type and text
          Alphabets,  \* sets of keywords: an input starts sections with those of one only
          MaxStack    \* the most values of a section (kDBCStackSize)

VARIABLES
  keywords,   \* the keywords of this input
  place,      \* currentSection, parentSection, keywordUseMap
  machine,    \* the machine: row, position in its pattern, types of the values; empty when there is none
  parsed,     \* the section completed by the last token, "" if none
  errorCode,  \* "", "error", or "fault": an assertion about the values failed
  finished    \* NQDBCParser_finish was called

parserVars == <<keywords, place, machine, parsed, errorCode, finished>>

ParserInit ==
  /\ keywords \in Alphabets
  /\ place = FirstPlace
  /\ machine = << >>
  /\ parsed = ""
  /\ errorCode = ""
  /\ finished = FALSE

Started(values) == [row |-> 1, position |-> 1, read |-> 0, values |-> values]

(* The types of the values a word of a pattern pushes for a token; NoMatch if
   the token does not fit. A symbol is never a digit, which is all EXTYPE_ and
   EVTYPE_ accept; nothing fits a space. A number is refused where its conversion
   stops early because the sum wraps (NQCStrToUint32) or changes its sign
   (NQCStrToInt32). Without assertions ENDIAN_ looks at the first digit only; with
   them a number of more digits ends the program there. Any other word is a literal,
   and fits if the token continues what was read of it: its end is not asked for. *)
NoMatch == <<"no match">>
Placeholders == {"KEYWORD_", "NOTBSKW_", "ACCESS_", "STRING_", "ATTR_", "UINTEGER_", "UINTCAST_", "SINTEGER_", "DOUBLE_",
                 "VALUE_", "ENDIAN_", "SIGNE_", "MPLEX_", "EXTYPE_", "EVTYPE_", "CMIGNORE_", "SPACE_"}
Continues(word, read, text) ==
  read + Len(text) <= Len(word) /\ SubSeq(word, read + 1, read + Len(text)) = text
Pushes(word, read, token) ==
  LET If(condition, values) == IF condition THEN values ELSE NoMatch
      unsigned == token.type = "UInteger" /\ token.text # "4294967296"
      signed == token.type \in {"SInteger", "UInteger"} /\ token.text \notin {"3000000000", "-3000000000"}
      number == token.type \in {"SInteger", "UInteger", "Number"}
  IN CASE word = "KEYWORD_" -> If(token.type = "CIdentifier", <<"id">>)
       [] word = "NOTBSKW_" -> If(token.type = "CIdentifier" /\ token.text # "BS_", <<"id">>)
       [] word = "ACCESS_" -> If(token.type = "CIdentifier" /\ token.text = "DUMMY_NODE_VECTOR0", <<"uint">>)
       [] word = "STRING_" -> If(token.type = "CString", <<"string">>)
       [] word = "ATTR_" -> If(token.type = "CString" /\ token.text = "identifier", <<"string">>)
       [] word = "UINTEGER_" -> If(unsigned, <<"uint">>)
       [] word = "UINTCAST_" -> If(unsigned \/ (token.type = "SInteger" /\ signed), <<"uint">>)
       [] word = "SINTEGER_" -> If(signed, <<"int">>)
       [] word = "DOUBLE_" -> If(number, <<"double">>)
       [] word = "VALUE_" -> IF token.type = "UInteger" THEN If(unsigned, <<"uint">>) ELSE IF token.type = "SInteger" THEN If(signed, <<"int">>)
                             ELSE IF token.type = "Number" THEN <<"double">> ELSE If(token.type = "CString", <<"string">>)
       [] word = "ENDIAN_" -> If(token.type = "UInteger" /\ SubSeq(token.text, 1, 1) \in {"0", "1"}, <<"uint">>)
       [] word = "SIGNE_" -> If(token.type = "Symbol" /\ token.text \in {"+", "-"}, <<"uint">>)
       [] word = "MPLEX_" -> IF token.type # "CIdentifier" THEN NoMatch
                             ELSE IF token.text = "M" THEN <<"id">> ELSE IF token.text = "m0" THEN <<"uint">>
                             ELSE If(token.text = "m0M", <<"uint", "id">>)
       [] word = "EXTYPE_" -> If(token.type = "Symbol" /\ token.text \in {"0", "1", "2", "3"}, <<"uint">>)
       [] word = "EVTYPE_" -> If(token.type = "Symbol" /\ token.text \in {"0", "1", "2"}, <<"uint">>)
       [] word = "CMIGNORE_" -> If(~(token.type = "Symbol" /\ token.text = "\n"), << >>)
       [] word = "SPACE_" -> NoMatch
       [] OTHER -> If(token.type \in {"CIdentifier", "Symbol"} /\ Continues(word, read, token.text), << >>)

(* Behind the token: in the same word if that is a literal of which some is left. *)
Behind(m, word, text) ==
  IF word \in Placeholders \/ m.read + Len(text) = Len(word)
  THEN [m EXCEPT !.position = @ + 1, !.read = 0] ELSE [m EXCEPT !.read = @ + Len(text)]

(* DBCMachine_next. A token that does not fit the first word of a row goes to
   the row to skip to, or past a row that may be left out, or ends the section
   there: then it is still to be read (repeat). *)
RECURSIVE MachineNext(_, _, _)
MachineNext(ops, m, token) ==
  LET op == ops[m.row]
      word == op.pattern[m.position]
      pushed == Pushes(word, m.read, token)
  IN IF pushed # NoMatch
     THEN [result |-> "next", m |-> [Behind(m, word, token.text) EXCEPT !.values = @ \o pushed]]
     ELSE IF m.position # 1 \/ m.read # 0 THEN [result |-> "error", m |-> m]
     ELSE IF op.next # 0 THEN MachineNext(ops, [m EXCEPT !.row = @ + op.next], token)
     ELSE IF op.required = "1" THEN [result |-> "error", m |-> m]
     ELSE IF op.init # << >> THEN [result |-> "repeat", m |-> m]
     ELSE MachineNext(ops, [m EXCEPT !.row = @ + 1], token)

(* DBCMachine_result: at the end of a pattern a repeated row starts over, a row
   with an initializer completes the section, else the next row follows. *)
AtEnd(ops, m) == m.position > Len(ops[m.row].pattern)
Completes(ops, m) == AtEnd(ops, m) /\ ops[m.row].required # "*" /\ ops[m.row].init # << >>
Advanced(ops, m) ==
  IF ~AtEnd(ops, m) THEN m
  ELSE [m EXCEPT !.position = 1, !.row = IF ops[m.row].required = "*" THEN @ ELSE @ + 1]

(* What shifting leaves of the values; NoMatch if a value is missing or of
   another type than the one asked for. *)
IsNumber(type) == type \in {"int", "uint"}
Shift(values, kind) ==
  LET Rest(n) == SubSeq(values, n + 1, Len(values))
      pairs == Len(values) % 2 = 0
  IN CASE values = NoMatch -> NoMatch
       [] kind = "clear" -> << >>
       [] kind = "unless empty" -> IF values = << >> THEN <<"uint", "uint", "uint">> ELSE values
       [] kind = "names" -> IF \A i \in DOMAIN values : values[i] \in {"id", "string"} THEN << >> ELSE NoMatch
       [] kind = "ranges" -> IF pairs /\ \A i \in DOMAIN values : values[i] = "uint" THEN << >> ELSE NoMatch
       [] kind = "descriptions" ->
            IF pairs /\ \A i \in DOMAIN values : IF i % 2 = 1 THEN IsNumber(values[i]) ELSE values[i] = "string"
            THEN << >> ELSE NoMatch
       [] values = << >> -> NoMatch
       [] kind = "value" -> IF values[1] = "id" THEN NoMatch ELSE Rest(1)
       [] kind = "multiplexer" -> IF values[1] = "uint" /\ Len(values) > 1 /\ values[2] = "id" THEN Rest(2)
                                  ELSE IF values[1] \in {"uint", "id"} THEN Rest(1) ELSE NoMatch
       [] OTHER -> IF values[1] = kind THEN Rest(1) ELSE NoMatch

Shifted(init, values) == FoldLeft(Shift, values, init.shifts)

(* NQDBCParser_next between two sections: a keyword, or an empty line. *)
StartSection(at, token) ==
  \E chosen \in {ChooseSection(at, token.text)} :
    IF token.type = "Symbol" /\ token.text = "\n"
    THEN place' = at /\ machine' = << >> /\ errorCode' = ""
    ELSE IF token.type # "CIdentifier" \/ chosen = << >>
    THEN place' = at /\ machine' = << >> /\ errorCode' = "error"
    ELSE place' = chosen[1] /\ machine' = Started(<< >>) /\ errorCode' = ""

(* After a step of the machine, which may complete the section: the token is one of
   it (next), or the first one after it (repeat), which then starts a section. *)
Stepped(ops, step, token, last) ==
  LET section == ops[step.m.row].init
      completes == step.result = "repeat" \/ (step.result = "next" /\ Completes(ops, step.m))
  IN IF Len(machine.values) >= MaxStack \/ step.result = "error"
     THEN errorCode' = "error" /\ parsed' = "" /\ UNCHANGED <<place, machine>>
     ELSE IF ~completes
     THEN /\ machine' = Advanced(ops, step.m)
          /\ errorCode' = IF last THEN "error" ELSE ""
          /\ parsed' = "" /\ UNCHANGED place
     ELSE IF Shifted(section, step.m.values) # << >>
     THEN errorCode' = "fault" /\ parsed' = "" /\ UNCHANGED <<place, machine>>
     ELSE /\ parsed' = section.type
          /\ IF step.result = "repeat" THEN StartSection(Completed(place), token)
             ELSE place' = Completed(place) /\ machine' = << >> /\ errorCode' = ""

(* NQDBCParser_next for one token, the last one if NQDBCParser_finish asks for it. *)
Token(token, last) ==
  /\ errorCode = "" /\ ~finished
  /\ finished' = last
  /\ UNCHANGED keywords
  /\ IF machine = << >>
     THEN /\ token.type = "CIdentifier" => token.text \in keywords
          /\ StartSection(place, token)
          /\ parsed' = ""
     ELSE \E ops \in {Opcodes(place)} : \E step \in {MachineNext(ops, machine, token)} : Stepped(ops, step, token, last)

(* NQDBCParser_finish when the last token has been taken: the lexer has nothing
   left, and a section that is not complete is not noticed. *)
FinishParser ==
  /\ errorCode = "" /\ ~finished
  /\ finished' = TRUE
  /\ parsed' = ""
  /\ UNCHANGED <<keywords, place, machine, errorCode>>

ParserNext == FinishParser \/ \E token \in Tokens, last \in BOOLEAN : Token(token, last)

ParserSpec == ParserInit /\ [][ParserNext]_parserVars

-----------------------------------------------------------------------------

(* Whatever the input, an initializer finds on the stack what it shifts, of the
   type it asserts, and leaves nothing: pointers are never taken for numbers.
   (DBCParser.c: DBCMachine_shift and the NQ_ASSERTs after DBCMachine_result;
   the patterns and the initializers are written apart.) *)
ShiftsFit == errorCode # "fault"

(* A signal is only parsed in a message: its keyword needs BO_ as the parent. *)
SignalsInMessages == (machine # << >> /\ place.current = "SG_") => place.parent = "BO_"
=============================================================================
