------------------------------ MODULE Buffers ------------------------------
(***************************************************************************)
(* Integers put into and got out of bytes in either byte order on hosts of  *)
(* either byte order, the builder that puts them into a buffer of fixed     *)
(* size, and the byte buffer that grows. A value is its bytes, the most     *)
(* significant first; memory that was not written holds Garbage. Then the   *)
(* variable lengths of LEB128, whose values are functions of their bits.    *)
(***************************************************************************)
EXTENDS Integers, Sequences, SequencesExt

Garbage == -1
Orders == {"host", "LE", "BE"}

(* NQHostToLE16 and the like, and the bytes of a value in memory. *)
NQByteSwap(value) == Reverse(value)
Swapped(value, order, big) == IF order = "host" \/ (order = "BE") = big THEN value ELSE NQByteSwap(value)
InMemory(value, big) == IF big THEN value ELSE Reverse(value)
(* Three bytes are three of an int32's four: which, where it lies in memory. *)
IsLate(order, big) == order = "BE" \/ (order = "host" /\ big)

(* NQPutInt16 to NQPutUint64BE; NQPutInt24 and the like put three bytes. *)
Put24(value, order, big) ==
  LET memory == InMemory(Swapped(value, order, big), big)
  IN IF IsLate(order, big) THEN Tail(memory) ELSE Front(memory)
Put(value, count, order, big) ==
  IF count = 3 THEN Put24(value, order, big) ELSE InMemory(Swapped(value, order, big), big)

(* NQGetInt16 to NQGetUint64BE. before is what the variable held, of which the
   functions for three bytes overwrite three and leave one. *)
Get24(bytes, order, big, signed, before) ==
  LET left == InMemory(before, big)
      value == Swapped(InMemory(IF IsLate(order, big) THEN <<left[1]>> \o bytes ELSE Append(bytes, left[4]), big), order, big)
  IN IF signed /\ value[2] >= 128 THEN [value EXCEPT ![1] = 255] ELSE value
Get(bytes, count, order, big, signed, before) ==
  IF count = 3 THEN Get24(bytes, order, big, signed, before) ELSE Swapped(InMemory(bytes, big), order, big)

-----------------------------------------------------------------------------

NQBufferBuilder_init(size) == [data |-> << >>, size |-> size, overflow |-> FALSE]
NQBufferBuilder_write(builder, bytes) ==
  LET n == IF Len(bytes) <= builder.size THEN Len(bytes) ELSE builder.size
  IN [data |-> builder.data \o SubSeq(bytes, 1, n), size |-> builder.size - n,
      overflow |-> builder.overflow \/ Len(bytes) > builder.size]

(* NQBufferBuilder_writeInt8 to _writeUint64BE: part of a value may be written. *)
NQBufferBuilder_writeInt(builder, value, count, order, big) == NQBufferBuilder_write(builder, Put(value, count, order, big))

-----------------------------------------------------------------------------

(* NQByteBuffer: as much memory as its capacity, of which size bytes count. *)
NQByteBuffer_init == [memory |-> << >>, size |-> 0]
Content(buffer) == SubSeq(buffer.memory, 1, buffer.size)
Capacity(buffer) == Len(buffer.memory)
NextCapacity(buffer, least) ==
  LET next == Capacity(buffer) + Capacity(buffer) \div 4 + 1 IN IF least > next THEN least ELSE next
Fill(byte, n) == [i \in 1 .. n |-> byte]
(* New memory of which the beginning is known. *)
Allocated(bytes, capacity) == bytes \o Fill(Garbage, capacity - Len(bytes))
Overwritten(memory, position, bytes) ==
  [i \in DOMAIN memory |-> IF i \in position + 1 .. position + Len(bytes) THEN bytes[i - position] ELSE memory[i]]

(* NQByteBuffer_expandCapacity, if need be; granted says whether there is memory. *)
Expanded(buffer, size, granted) ==
  [buffer EXCEPT !.memory = IF size > Capacity(buffer) /\ granted THEN Allocated(Content(buffer), NextCapacity(buffer, size)) ELSE @]

NQByteBuffer_resize(buffer, size, granted) ==
  LET expanded == Expanded(buffer, size, granted)
  IN IF size > Capacity(expanded) THEN buffer ELSE [expanded EXCEPT !.size = size]

(* It takes it for granted that there is memory. *)
NQByteBuffer_insert(buffer, position, bytes) ==
  LET newSize == (IF position > buffer.size THEN position ELSE buffer.size) + Len(bytes)
      memory == IF newSize > Capacity(buffer) THEN Allocated(Content(buffer), NextCapacity(buffer, newSize)) ELSE buffer.memory
      moved == IF position > buffer.size
               THEN Overwritten(memory, buffer.size, Fill(0, position - buffer.size))
               ELSE Overwritten(memory, position + Len(bytes), SubSeq(Content(buffer), position + 1, buffer.size))
  IN IF bytes = << >> THEN buffer
     ELSE [memory |-> Overwritten(moved, position, bytes), size |-> newSize]

NQByteBuffer_append(buffer, bytes, granted) ==
  LET expanded == Expanded(buffer, buffer.size + Len(bytes), granted)
  IN IF bytes = << >> \/ buffer.size + Len(bytes) > Capacity(expanded) THEN buffer
     ELSE [memory |-> Overwritten(expanded.memory, buffer.size, bytes), size |-> buffer.size + Len(bytes)]

NQByteBuffer_removeAt(buffer, position, count) ==
  [memory |-> Overwritten(buffer.memory, position, SubSeq(Content(buffer), position + count + 1, buffer.size)),
   size |-> buffer.size - count]

(* A call: [op, at, n, bytes, granted]. *)
Called(buffer, call) ==
  CASE call.op = "insert" -> NQByteBuffer_insert(buffer, call.at, call.bytes)
    [] call.op = "append" -> NQByteBuffer_append(buffer, call.bytes, call.granted)
    [] call.op = "resize" -> NQByteBuffer_resize(buffer, call.n, call.granted)
    [] call.op = "remove" /\ call.at + call.n <= buffer.size -> NQByteBuffer_removeAt(buffer, call.at, call.n)
    [] call.op = "clear" -> NQByteBuffer_init
    [] OTHER -> buffer

-----------------------------------------------------------------------------

(* What is put is got, whatever the orders of the format and the host; the three
   functions for 24 bits leave a byte of the variable as it was, unless that is
   known, or the value negative. *)
PutIsGot(value, count, order, big, signed, before) ==
  LET bytes == Put(value, count, order, big)
      got == Get(bytes, count, order, big, signed, before)
  IN /\ Len(bytes) = count
     /\ order = "BE" => bytes = (IF count = 3 THEN Tail(value) ELSE value)
     /\ order = "LE" => Reverse(bytes) = (IF count = 3 THEN Tail(value) ELSE value)
     /\ count # 3 \/ (signed /\ value[1] = 255) \/ (\A i \in DOMAIN before : before[i] = 0) => got = value
     /\ count = 3 => Tail(got) = Tail(value)

(* What fits is in the buffer, and it is said if something does not. *)
BuilderKeepsPrefix(writes, size, order, big) ==
  LET built == FoldLeft(LAMBDA b, w : NQBufferBuilder_writeInt(b, w.value, w.count, order, big), NQBufferBuilder_init(size), writes)
      all == FlattenSeq([i \in DOMAIN writes |-> Put(writes[i].value, writes[i].count, order, big)])
  IN /\ built.data = SubSeq(all, 1, IF Len(all) < size THEN Len(all) ELSE size)
     /\ built.overflow = (Len(all) > size)
     /\ Len(built.data) + built.size = size

(* What a call makes of the bytes, if it is not refused for want of memory. *)
Expected(bytes, call) ==
  CASE call.op = "insert" /\ call.bytes # << >> ->
         LET padded == bytes \o Fill(0, IF call.at > Len(bytes) THEN call.at - Len(bytes) ELSE 0)
         IN SubSeq(padded, 1, call.at) \o call.bytes \o SubSeq(padded, call.at + 1, Len(padded))
    [] call.op = "append" -> bytes \o call.bytes
    [] call.op = "resize" -> SubSeq(bytes \o Fill(Garbage, call.n), 1, call.n)
    [] call.op = "remove" /\ call.at + call.n <= Len(bytes) ->
         SubSeq(bytes, 1, call.at) \o SubSeq(bytes, call.at + call.n + 1, Len(bytes))
    [] call.op = "clear" -> << >>
    [] OTHER -> bytes

(* Whatever is called, the buffer holds what a sequence would, but for the bytes a
   resize adds; a call that is refused changes nothing. *)
BufferIsSequence(calls) ==
  LET Both(st, call) ==
        LET buffer == Called(st.buffer, call)
            refused == ~call.granted /\ Len(Expected(st.bytes, call)) > Capacity(st.buffer)
        IN [buffer |-> buffer, bytes |-> IF refused THEN st.bytes ELSE Expected(st.bytes, call)]
      end == FoldLeft(Both, [buffer |-> NQByteBuffer_init, bytes |-> << >>], calls)
  IN /\ end.buffer.size = Len(end.bytes) /\ end.buffer.size <= Capacity(end.buffer)
     /\ \A i \in DOMAIN end.bytes : end.bytes[i] # Garbage => end.buffer.memory[i] = end.bytes[i]

-----------------------------------------------------------------------------

(* LEB128: integers of 8, 16, 32 and 64 bits in chunks of seven bits, the lowest
   first, every byte but the last with its high bit set. A value is the function of its
   bits, so that the widths are the ones of the code. *)

CHUNK_BITS == 7
Widths == {8, 16, 32, 64}
MaxLength(width) == (width + CHUNK_BITS - 1) \div CHUNK_BITS

(* A bit of the value shifted as far as need be: a signed one has its sign above. *)
SignOf(value, width, signed) == IF signed THEN value[width - 1] ELSE 0
BitOf(value, width, signed, i) == IF i < width THEN value[i] ELSE SignOf(value, width, signed)

(* A slip the code could have made: the bit of the sign is left out. *)
WithoutSign(value, width, signed, n) == \A i \in CHUNK_BITS * n .. width - 1 : value[i] = SignOf(value, width, signed)

(* The LEB128_Un_MAX, LEB128_Sn_MAX and LEB128_Sn_MIN between which n bytes will do. *)
Fits(value, width, signed, n) ==
  LET from == IF signed THEN CHUNK_BITS * n - 1 ELSE CHUNK_BITS * n
  IN \A i \in from .. width - 1 : value[i] = SignOf(value, width, signed)

EncodedLength(value, width, signed) ==
  CHOOSE n \in 1 .. MaxLength(width) :
    /\ Fits(value, width, signed, n) \/ n = MaxLength(width)
    /\ \A m \in 1 .. n - 1 : ~Fits(value, width, signed, m)

(* The length, and the bytes if there is room for them. *)
Encode(value, width, signed, size) ==
  LET n == EncodedLength(value, width, signed)
      ByteAt(index) == [more |-> index # n, bits |-> [i \in 0 .. 6 |-> BitOf(value, width, signed, CHUNK_BITS * (index - 1) + i)]]
  IN [length |-> n, bytes |-> IF size >= n THEN [index \in 1 .. n |-> ByteAt(index)] ELSE << >>]
NQLeb128EncodeInt(value, width, size) == Encode(value, width, TRUE, size)
NQLeb128EncodeUint(value, width, size) == Encode(value, width, FALSE, size)

Nothing == << >>

(* The last byte there may be: the bits beyond the width repeat the sign. *)
LastByteFits(byte, width, signed) ==
  LET own == width - CHUNK_BITS * (MaxLength(width) - 1)
  IN /\ ~byte.more
     /\ IF signed THEN \A i \in own .. 6 : byte.bits[i] = byte.bits[own - 1]
        ELSE \A i \in own .. 6 : byte.bits[i] = 0

(* The length, 0 if there is no such value, and the value. *)
Decode(bytes, width, signed) ==
  LET max == MaxLength(width)
      ends == { n \in 1 .. max : n <= Len(bytes) /\ ~bytes[n].more }
      n == CHOOSE k \in ends : \A j \in ends : k <= j
      sign == IF signed THEN bytes[n].bits[6] ELSE 0
      value == [i \in 0 .. width - 1 |-> IF i < CHUNK_BITS * n THEN bytes[i \div CHUNK_BITS + 1].bits[i % CHUNK_BITS] ELSE sign]
      fits == ends # {} /\ (n < max \/ LastByteFits(bytes[n], width, signed))
  IN [length |-> IF fits THEN n ELSE 0, value |-> IF fits THEN value ELSE Nothing]

(* Whether a byte is read that is not there: NQLeb128DecodeInt8 does not ask for
   the size again, the others do. *)
NQLeb128DecodeInt(bytes, width) ==
  [decoded |-> Decode(bytes, width, TRUE), beyond |-> width = 8 /\ Len(bytes) = 1 /\ bytes[1].more]
NQLeb128DecodeUint(bytes, width) == [decoded |-> Decode(bytes, width, FALSE), beyond |-> FALSE]

(* NQLeb128Dec: a byte at a time, into 64 bits; bitWidth is at last the number
   of bits the value needs. *)
NQLeb128Dec_init == [value |-> [i \in 0 .. 63 |-> 0], bitWidth |-> 0, done |-> FALSE]

NQLeb128Dec_update(dec, byte, signed) ==
  LET at == dec.bitWidth
      width == at + CHUNK_BITS
      taken == [i \in 0 .. 63 |-> IF i \in at .. at + 6 THEN IF dec.value[i] = 1 THEN 1 ELSE byte.bits[i - at] ELSE dec.value[i]]
      sign == IF signed THEN byte.bits[6] ELSE 0
      needed == { i \in 0 .. 6 : byte.bits[i] # sign }
      significant == IF needed = {} THEN 0 ELSE 1 + (CHOOSE i \in needed : \A j \in needed : j <= i)
      own == at + significant + (IF signed THEN 1 ELSE 0)
      least == IF signed THEN 2 ELSE 1
  IN IF byte.more THEN [value |-> taken, bitWidth |-> width, done |-> FALSE]
     ELSE [value |-> [i \in 0 .. 63 |-> IF i >= width THEN sign ELSE taken[i]],
           bitWidth |-> IF own > least THEN own ELSE least, done |-> TRUE]

Septets == Seq([more : BOOLEAN, bits : [0 .. 6 -> {0, 1}]])
Streamed[bytes \in Septets, signed \in BOOLEAN] ==
  IF bytes = << >> THEN NQLeb128Dec_init
  ELSE NQLeb128Dec_update(Streamed[SubSeq(bytes, 1, Len(bytes) - 1), signed], bytes[Len(bytes)], signed)

-----------------------------------------------------------------------------

(* What is encoded is decoded, by the functions of its width and by the
   streaming decoder; no shorter buffer is written to, and no shorter input is
   taken for a value or read beyond its end, but for one byte of an int8.
   (Leb128.c: the limits of the lengths and the masks of the last bytes.) *)
Leb128RoundTrip(value, width, signed) ==
  LET Encoded(size) == IF signed THEN NQLeb128EncodeInt(value, width, size) ELSE NQLeb128EncodeUint(value, width, size)
      Decoded(bytes) == IF signed THEN NQLeb128DecodeInt(bytes, width) ELSE NQLeb128DecodeUint(bytes, width)
      encoded == Encoded(10)
      back == Decoded(encoded.bytes)
      streamed == Streamed[encoded.bytes, signed]
      bits == { i \in 0 .. width - 1 : value[i] # SignOf(value, width, signed) }
      highest == IF bits = {} THEN 0 ELSE 1 + (CHOOSE i \in bits : \A j \in bits : j <= i)
      least == IF signed THEN 2 ELSE 1
      needed == highest + (IF signed THEN 1 ELSE 0)
  IN /\ back = [decoded |-> [length |-> encoded.length, value |-> value], beyond |-> FALSE]
     /\ Encoded(encoded.length - 1).bytes = << >>
     /\ \A n \in 1 .. encoded.length - 1 :
          LET part == Decoded(SubSeq(encoded.bytes, 1, n))
          IN part.decoded.length = 0 /\ (part.beyond => width = 8 /\ signed)
     /\ streamed.done
     /\ \A i \in 0 .. 63 : streamed.value[i] = BitOf(value, width, signed, i)
     /\ streamed.bitWidth = IF needed > least THEN needed ELSE least
=============================================================================
