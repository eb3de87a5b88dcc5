------------------------------ MODULE DBCLexer ------------------------------
(***************************************************************************)
(* The DBC lexer: characters in, tokens out. The text of all tokens of a     *)
(* section, each with its final NUL, lies in one buffer that is reused for   *)
(* the next section. A character is one of the classes of Characters.        *)
(***************************************************************************)
EXTENDS Integers

CONSTANT BufferSize

VARIABLES
  mode,
  indent,       \* whether blanks were skipped before the token
  prev,         \* the last character taken
  start, position,
  highest,      \* the highest index of the buffer written to
  lexed         \* the token of the last step: its type and its size; "" if there was none

lexerVars == <<mode, indent, prev, start, position, highest, lexed>>

Characters == {"digit", "letter", "e", ".", "+", "-", "quote", "backslash", "blank", "CR", "LF", "symbol"}
NQIsNextIdentifier == {"digit", "letter", "e"}

NoToken == [type |-> "", size |-> 0]

DBCLexer_init ==
  /\ mode = "Init"
  /\ indent = FALSE
  /\ prev = ""
  /\ start = 0
  /\ position = 0
  /\ highest = -1
  /\ lexed = NoToken

end == BufferSize - 1

Exponent == {"ExponentSymbolNumber", "ExponentSignNumber", "ExponentNumber"}

(* DBCLexer_apply: the mode after the character, "" if it ends the token. *)
Applied(c) ==
  CASE mode = "Init" ->
         CASE c = "CR" -> "CRLF"
           [] c = "LF" -> "LF"
           [] c = "blank" -> "Init"
           [] c = "quote" -> "CString"
           [] c \in {"+", "-"} -> IF ~indent /\ prev = "digit" THEN "AnySymbol" ELSE "SignSymbol"
           [] c = "digit" -> "UInteger"
           [] c \in {"letter", "e"} -> "CIdentifier"
           [] OTHER -> "AnySymbol"
    [] mode = "CRLF" -> IF c \in {"CR", "LF"} THEN "LF" ELSE ""
    [] mode = "LF" -> IF c = "CR" THEN "CRLF" ELSE IF c = "LF" THEN "LF" ELSE ""
    [] mode = "CIdentifier" -> IF c \in NQIsNextIdentifier THEN "CIdentifier" ELSE ""
    [] mode = "CString" -> IF c = "quote" THEN "FinalCString" ELSE IF c = "backslash" THEN "EscapeCString" ELSE "CString"
    [] mode = "EscapeCString" -> "CString"
    [] mode = "SignSymbol" -> IF c = "digit" THEN "SInteger" ELSE ""
    [] mode \in {"SInteger", "UInteger"} ->
         CASE c = "digit" -> mode
           [] c = "." -> "Number"
           [] c = "e" -> "ExponentSymbolNumber"
           [] c = "letter" /\ mode = "UInteger" -> "CIdentifier"
           [] OTHER -> ""
    [] mode = "Number" -> IF c = "e" THEN "ExponentSymbolNumber" ELSE IF c = "digit" THEN "Number" ELSE ""
    [] mode = "ExponentSymbolNumber" /\ c \in {"+", "-"} -> "ExponentSignNumber"
    [] mode \in Exponent /\ c = "digit" -> "ExponentNumber"
    [] OTHER -> ""

(* Blanks, quotes, backslashes and the second half of a line end are not kept. *)
Keeps(c) ==
  CASE mode = "Init" -> c \notin {"blank", "quote"}
    [] mode = "CString" -> c \notin {"quote", "backslash"}
    [] mode \in {"CRLF", "LF"} -> FALSE
    [] OTHER -> TRUE

(* DBCLexer_finish: the type of the token, or why there is none. *)
TokenType ==
  CASE mode = "Init" -> "wait"
    [] mode \in {"LF", "CRLF", "AnySymbol", "SignSymbol"} -> "Symbol"
    [] mode = "CIdentifier" -> "CIdentifier"
    [] mode \in {"CString", "EscapeCString"} -> "string error"
    [] mode = "FinalCString" -> "CString"
    [] mode \in {"SInteger", "UInteger"} -> mode
    [] mode \in {"Number", "ExponentNumber"} -> "Number"
    [] OTHER -> "number error"

IsToken(type) == type \in {"Symbol", "CIdentifier", "CString", "SInteger", "UInteger", "Number"}
Stopped == lexed.type \in {"buffer error", "string error", "number error", "end"}

Finished ==
  IF IsToken(TokenType)
  THEN /\ lexed' = [type |-> TokenType, size |-> position - start]
       /\ position' = IF position = start THEN position ELSE position + 1
       /\ highest' = IF position > highest /\ position # start THEN position ELSE highest
       /\ start' = position'
       /\ mode' = "Init"
       /\ indent' = FALSE
       /\ UNCHANGED prev
  ELSE lexed' = [type |-> TokenType, size |-> 0] /\ UNCHANGED <<mode, indent, prev, start, position, highest>>

(* DBCLexer_next for one character. One that ends a token is not taken: it
   comes again. *)
Next(c) ==
  /\ ~Stopped
  /\ IF end <= position
     THEN lexed' = [type |-> "buffer error", size |-> 0] /\ UNCHANGED <<mode, indent, prev, start, position, highest>>
     ELSE IF Applied(c) = "" THEN Finished
     ELSE /\ mode' = Applied(c)
          /\ indent' = (indent \/ (mode = "Init" /\ c = "blank"))
          /\ prev' = c
          /\ position' = IF Keeps(c) THEN position + 1 ELSE position
          /\ highest' = IF Keeps(c) /\ position > highest THEN position ELSE highest
          /\ lexed' = NoToken
          /\ UNCHANGED start

(* DBCLexer_reset, when the parser has completed a section with the token. *)
Reset ==
  /\ IsToken(lexed.type)
  /\ mode' = "Init" /\ indent' = FALSE /\ prev' = "" /\ start' = 0 /\ position' = 0
  /\ lexed' = NoToken
  /\ UNCHANGED highest

(* NQDBCParser_finish: no character may be left of a token that is not complete. *)
FinishLexer ==
  /\ ~Stopped
  /\ IF mode = "Init" THEN lexed' = [type |-> "end", size |-> 0] /\ UNCHANGED <<mode, indent, prev, start, position, highest>>
     ELSE Finished

LexerNext == Reset \/ FinishLexer \/ \E c \in Characters : Next(c)

LexerSpec == DBCLexer_init /\ [][LexerNext]_lexerVars

-----------------------------------------------------------------------------

(* Whatever is read, nothing is written behind the buffer, although the NUL of
   a token is written without a check; and only strings are empty, so that a
   keyword or a number always has a text. (DBCParser.c: DBCLexer_next.) *)
LexerStaysInBuffer ==
  /\ highest < BufferSize
  /\ IsToken(lexed.type) /\ lexed.size = 0 => lexed.type = "CString"
=============================================================================
