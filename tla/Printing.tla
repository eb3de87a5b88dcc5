------------------------------- MODULE Printing -------------------------------
(***************************************************************************)
(* Texts that are put together in pieces: libnetq/string/StringPrint.c, a      *)
(* buffer that grows, libnetq/HexViewer.c, rows of bytes, and the splitting    *)
(* of libnetq/string/StringList.c.                                           *)
(***************************************************************************)
EXTENDS Integers, Sequences, SequencesExt, FiniteSets

CONSTANTS BufferSize,   \* sizeof(thiz->buffer)
          Names,        \* NsVarWriter: the names of the entries
          Room          \* NsVarWriter: sizeof(thiz->buffer), 128 in the code

Nul == "nul"
Unset == "unset"
Fill(n, c) == [i \in 1 .. n |-> c]
(* Text written over the characters from the index at on, of which at most room fit. *)
Put(characters, at, text, room) ==
  [i \in DOMAIN characters |-> IF i \in at .. at + Len(text) - 1 /\ i < at + room THEN text[i - at + 1] ELSE characters[i]]

NQStringPrint_init == [characters |-> [i \in 1 .. BufferSize |-> IF i = 1 THEN Nul ELSE Unset], length |-> 0, failed |-> FALSE]
Capacity(print) == Len(print.characters)

(* Twice what is needed; without memory the text is left as it is. *)
reserveCapacity(print, newCapacity) ==
  LET kept == SubSeq(print.characters, 1, print.length + 1)
  IN [print EXCEPT !.characters = kept \o Fill(2 * newCapacity - Len(kept), Unset)]
WithRoom(print, newSize, hasMemory) ==
  IF newSize <= Capacity(print) THEN [print EXCEPT !.failed = FALSE]
  ELSE IF hasMemory THEN [reserveCapacity(print, newSize) EXCEPT !.failed = FALSE]
  ELSE [print EXCEPT !.failed = TRUE]
Appended(print, text) ==
  [print EXCEPT !.characters = Put(@, print.length + 1, text \o <<Nul>>, Len(text) + 1), !.length = @ + Len(text)]

(* What fits is printed before it is known that it does not all fit. *)
NQStringPrint_vprintf(print, text, hasMemory) ==
  LET room == Capacity(print) - print.length
      cut == SubSeq(text, 1, IF Len(text) < room THEN Len(text) ELSE room - 1) \o <<Nul>>
      first == [print EXCEPT !.characters = Put(@, print.length + 1, cut, room)]
      grown == WithRoom(first, print.length + Len(text) + 1, hasMemory)
  IN IF grown.failed THEN grown ELSE Appended(grown, text)
NQStringPrint_write(print, text, hasMemory) ==
  IF text = << >> THEN [print EXCEPT !.failed = FALSE]
  ELSE LET grown == WithRoom(print, print.length + Len(text) + 1, hasMemory)
       IN IF grown.failed THEN grown ELSE Appended(grown, text)
NQStringPrint_writeAll(print, text, hasMemory) ==
  IF text = << >> THEN [print EXCEPT !.failed = TRUE] ELSE NQStringPrint_write(print, text, hasMemory)
NQStringPrint_reset(print) == [print EXCEPT !.length = 0, !.characters[1] = Nul, !.failed = FALSE]
NQStringPrint_resize(print, length, hasMemory) ==
  LET grown == WithRoom(print, length + 1, hasMemory)
      behind == [i \in DOMAIN grown.characters |->
                   IF i > print.length + 1 /\ i <= length + 1 THEN Nul ELSE grown.characters[i]]
  IN IF grown.failed THEN grown
     ELSE IF length < print.length THEN [grown EXCEPT !.characters[length + 1] = Nul, !.length = length]
     ELSE [grown EXCEPT !.characters = behind, !.length = length]

(* HexViewer.c: a byte is its two digits, rows have sixteen with
   a gap of two in their middle. *)
NQHexViewer_init == [text |-> << >>, position |-> 0, offset |-> 0, hasOffset |-> FALSE]
NQHexViewer_reset(viewer) == NQHexViewer_init
NQHexViewer_setOffset(viewer, offset) == [viewer EXCEPT !.offset = offset, !.hasOffset = TRUE]
HexByte(viewer, byte) ==
  LET column == viewer.position % 16
      address == IF viewer.hasOffset /\ column = 0 THEN << <<"address", viewer.offset + viewer.position>> >> ELSE << >>
      behind == IF column = 15 THEN <<"row", 1>> ELSE <<"gap", IF column = 7 THEN 2 ELSE 1>>
  IN [viewer EXCEPT !.text = @ \o address \o << <<"byte", byte>>, behind >>, !.position = @ + 1]
NQHexViewer_addData(viewer, data) == FoldLeft(HexByte, viewer, data)

(* StringList.c: memory is what the allocations find, the last one for all that follow. *)
NQStringList_append2(list, text) == Append(list, text)
NQStringList_split(list, text, separator, memory) ==
  LET ends == SelectSeq([i \in 1 .. Len(text) + 1 |-> i], LAMBDA i : i = Len(text) + 1 \/ text[i] = separator)
      Piece(k) == SubSeq(text, IF k = 1 THEN 1 ELSE ends[k - 1] + 1, ends[k] - 1)
      pieces == FoldLeft(NQStringList_append2, << >>, [k \in DOMAIN ends |-> Piece(k)])
  IN IF Len(pieces) <= memory THEN [ok |-> TRUE, list |-> list \o pieces] ELSE [ok |-> FALSE, list |-> list]

-----------------------------------------------------------------------------

Call(print, call) ==
  CASE call.op = "printf" -> NQStringPrint_vprintf(print, call.text, call.hasMemory)
    [] call.op = "write" -> NQStringPrint_write(print, call.text, call.hasMemory)
    [] call.op = "writeAll" -> NQStringPrint_writeAll(print, call.text, call.hasMemory)
    [] call.op = "reset" -> NQStringPrint_reset(print)
    [] call.op = "resize" -> NQStringPrint_resize(print, Len(call.text), call.hasMemory)

(* The text is what the calls that did not fail made of it and ends with a NUL inside
   the buffer; after a printf that ran out of memory its beginning stands behind the
   length, and a resize then takes one character of it. (StringPrint.c.) *)
PrintKeepsText(calls) ==
  LET After(n) == FoldLeft(Call, NQStringPrint_init, SubSeq(calls, 1, n))
      Text(n) == SubSeq(After(n).characters, 1, After(n).length)
      CutShort(n) == calls[n].op = "printf" /\ After(n).failed
      Expected(n) ==
        LET before == Text(n - 1)
            text == calls[n].text
        IN IF After(n).failed THEN before
           ELSE CASE calls[n].op = "reset" -> << >>
                  [] calls[n].op = "resize" ->
                       IF Len(text) <= Len(before) THEN SubSeq(before, 1, Len(text)) ELSE before \o Fill(Len(text) - Len(before), Nul)
                  [] OTHER -> before \o text
      Untouched(n) == \A k \in 1 .. n : ~CutShort(k)
  IN \A n \in DOMAIN calls :
       /\ After(n).length < Capacity(After(n))
       /\ Untouched(n) => Text(n) = Expected(n) /\ After(n).characters[After(n).length + 1] = Nul
       /\ calls[n].op \in {"write", "writeAll", "printf"} /\ ~After(n).failed => Text(n) = Expected(n)
       /\ After(n).failed => After(n).length = After(n - 1).length

(* Bytes shown in pieces are shown as at once, in rows of sixteen. (NQHexViewer_addData.) *)
HexIsRows(data, cut, offset) ==
  LET viewer == NQHexViewer_setOffset(NQHexViewer_init, offset)
      pieces == NQHexViewer_addData(NQHexViewer_addData(viewer, SubSeq(data, 1, cut)), SubSeq(data, cut + 1, Len(data)))
      Count(mark) == Len(SelectSeq(pieces.text, LAMBDA c : c = mark))
      shown == SelectSeq(pieces.text, LAMBDA c : c[1] \in {"address", "byte"})
      bytes == SelectSeq(shown, LAMBDA c : c[1] = "byte")
  IN /\ [i \in DOMAIN bytes |-> bytes[i][2]] = data
     /\ Count(<<"row", 1>>) = Len(data) \div 16
     /\ Len(shown) = Len(data) + (Len(data) + 15) \div 16
     /\ NQHexViewer_reset(pieces) = NQHexViewer_init
     /\ \A i \in DOMAIN shown : shown[i][1] = "address" => shown[i][2] = offset + i - 1 - (i - 1) \div 17

(* Split and joined again a text is itself, and a split that fails leaves the list.
   (NQStringList_split.) *)
SplitJoins(list, text, memory) ==
  LET split == NQStringList_split(list, text, ",", memory)
      new == SubSeq(split.list, Len(list) + 1, Len(split.list))
      Joined == FlattenSeq([i \in DOMAIN new |-> (IF i = 1 THEN << >> ELSE <<",">>) \o new[i]])
  IN IF split.ok
     THEN /\ SubSeq(split.list, 1, Len(list)) = list
          /\ Joined = text
          /\ \A i \in DOMAIN new : "," \notin ToSet(new[i])
     ELSE split.list = list /\ memory <= Len(SelectSeq(text, LAMBDA c : c = ","))

-----------------------------------------------------------------------------
(***************************************************************************)
(* libnetq/io/NsVarWriter.c: a writer that replaces ${NAME:value} in what is *)
(* written through it, in chunks cut anywhere. What may yet become a         *)
(* substitution is held back in a buffer; start is where the text of this    *)
(* chunk that is not written yet begins, None while the chunk has only        *)
(* continued what an earlier one began.                                      *)
(***************************************************************************)

None == 0

(* The callback accepts every write but the one numbered broken. *)
NQNsVarWriter_init(broken) ==
  [state |-> "init", buffer |-> << >>, name |-> << >>, start |-> 1, out |-> << >>, calls |-> 0, broken |-> broken]

NQWriteWrapper_writeAll(w, text) ==
  IF text = << >> THEN w
  ELSE IF w.calls + 1 = w.broken THEN [w EXCEPT !.calls = @ + 1, !.state = "error"]
  ELSE [w EXCEPT !.calls = @ + 1, !.out = @ \o text]

(* What was held back is no substitution: it is still part of the chunk's text, or it
   came with an earlier chunk and is written. *)
GiveUp(w) ==
  LET written == IF w.start = None THEN NQWriteWrapper_writeAll(w, w.buffer) ELSE w
  IN IF written.state = "error" THEN written ELSE [written EXCEPT !.state = "init", !.buffer = << >>]

Hold(w, c) == [w EXCEPT !.buffer = Append(@, c)]
NameHeld(w) == SubSeq(w.buffer, 3, Len(w.buffer))

(* The character c stands in the way of the substitution: it is looked at again in the
   initial state. *)
Breaks(w, c) ==
  \/ w.state = "prefix" /\ c # "{"
  \/ w.state = "key" /\ (c \in {"$", "{", "}"} \/ Len(w.buffer) >= Room)
  \/ w.state = "value" /\ (c \in {"$", "{"} \/ Len(w.buffer) >= Room)

InitState(w, c) == IF c = "$" THEN [w EXCEPT !.state = "prefix", !.buffer = <<c>>] ELSE w
KeyState(w, c) ==
  IF c # ":" THEN Hold(w, c)
  ELSE IF NameHeld(w) \in Names THEN [Hold(w, c) EXCEPT !.state = "value", !.name = NameHeld(w)]
  ELSE GiveUp(Hold(w, c))

(* A handler writes the value of its name, here the name and the value marked. *)
Replaced(name, value) == <<"=">> \o name \o value
Handled(w) ==
  LET value == SubSeq(w.buffer, Len(w.name) + 4, Len(w.buffer))
  IN NQWriteWrapper_writeAll(w, Replaced(w.name, value))
ValueState(w, data, i) ==
  IF data[i] # "}" THEN Hold(w, data[i])
  ELSE LET before == IF w.start = None THEN w
                     ELSE NQWriteWrapper_writeAll(w, SubSeq(data, w.start, i - 1 - Len(w.buffer)))
           after == IF before.state = "error" THEN before ELSE Handled(before)
       IN IF after.state = "error" THEN after
          ELSE [after EXCEPT !.start = i + 1, !.state = "init", !.buffer = << >>]

Character(w, data, i) ==
  LET held == IF Breaks(w, data[i]) THEN GiveUp(w) ELSE w
  IN CASE held.state = "init" -> InitState(held, data[i])
       [] held.state = "prefix" -> [Hold(held, data[i]) EXCEPT !.state = "key"]
       [] held.state = "key" -> KeyState(held, data[i])
       [] held.state = "value" -> ValueState(held, data, i)
       [] held.state = "error" -> held

NQNsVarWriter_write(w, data) ==
  LET begun == [w EXCEPT !.start = IF w.state = "init" THEN 1 ELSE None]
      read == FoldLeft(LAMBDA acc, i : Character(acc, data, i), begun, [i \in 1 .. Len(data) |-> i])
  IN IF read.state = "error" \/ read.start = None THEN read
     ELSE NQWriteWrapper_writeAll(read, SubSeq(data, read.start, Len(data) - Len(read.buffer)))

NQNsVarWriter_flush(w) ==
  IF w.state \in {"init", "error"} THEN w ELSE GiveUp([w EXCEPT !.start = None])

-----------------------------------------------------------------------------

WriteAll(chunks, broken) == FoldLeft(NQNsVarWriter_write, NQNsVarWriter_init(broken), chunks)
Output(chunks) == NQNsVarWriter_flush(WriteAll(chunks, 0)).out

(* text[i .. j] is a substitution. *)
Substitution(text, i, j) ==
  /\ j - i < Room /\ i + 3 < j
  /\ text[i] = "$" /\ text[i + 1] = "{" /\ text[j] = "}"
  /\ \E name \in Names :
       /\ i + 2 + Len(name) < j
       /\ SubSeq(text, i + 2, i + 1 + Len(name)) = name /\ text[i + 2 + Len(name)] = ":"
       /\ \A k \in i + 3 + Len(name) .. j - 1 : text[k] \notin {"$", "{", "}"}
Substitutions(text) == { r \in (1 .. Len(text)) \X (1 .. Len(text)) : Substitution(text, r[1], r[2]) }

(* What the whole text becomes. *)
Expected(text) ==
  LET ranges == Substitutions(text)
      Piece(i) ==
        IF \E r \in ranges : r[1] = i
        THEN LET r == CHOOSE r \in ranges : r[1] = i
                 name == CHOOSE n \in Names : SubSeq(text, i + 2, i + 1 + Len(n)) = n /\ text[i + 2 + Len(n)] = ":"
             IN Replaced(name, SubSeq(text, i + 3 + Len(name), r[2] - 1))
        ELSE IF \E r \in ranges : r[1] < i /\ i <= r[2] THEN << >> ELSE <<text[i]>>
  IN FlattenSeq([i \in 1 .. Len(text) |-> Piece(i)])

(* The first chunk ends inside something held back that comes to no substitution. *)
CutsNothing(text, cut) ==
  /\ WriteAll(<<SubSeq(text, 1, cut)>>, 0).state # "init"
  /\ ~ \E r \in Substitutions(text) : r[1] <= cut /\ cut < r[2]

(* Every ${NAME:value} of a text written in two chunks is replaced and nothing else is
   changed or lost, but where what the first one ends in turns out to be no substitution:
   there the text behind it is lost (NQNsVarWriter_write, the branches
   with start == NULL). And nothing is written behind a write that failed. *)
TemplateIsFilled(text, cut, broken) ==
  LET chunks == <<SubSeq(text, 1, cut), SubSeq(text, cut + 1, Len(text))>>
      failed == WriteAll(chunks, broken)
  IN /\ Output(<<text>>) = Expected(text)
     /\ CutsNothing(text, cut) \/ Output(chunks) = Expected(text)
     /\ Len(Output(chunks)) <= Len(Expected(text))
     /\ IsPrefix(failed.out, WriteAll(chunks, 0).out)
     /\ failed.state = "error" => failed.calls = broken
=============================================================================
