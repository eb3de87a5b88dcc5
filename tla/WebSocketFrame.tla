--------------------------- MODULE WebSocketFrame ---------------------------
(***************************************************************************)
(* WebSocket frames: the buffer a frame is built in, which leaves room for  *)
(* the longest header before the payload, and the parser. The header is its *)
(* bytes; of the payload only the length counts and whether it is masked.   *)
(***************************************************************************)
EXTENDS Integers, Sequences

CONSTANT PayloadSizes   \* how long the payload may be

WS_FIN_MASK == 128
WS_MASK_MASK == 128
WS_LEN16_MARKER == 126
WS_LEN64_MARKER == 127
kNQWebSocketOpcode == [Text |-> 1, Binary |-> 2, ConnectionClose |-> 8, Ping |-> 9]
MaskKey == <<17, 34, 51, 68>>

BigEndian(x, n) == [i \in 1 .. n |-> IF n - i > 3 THEN 0 ELSE (x \div 256 ^ (n - i)) % 256]
FromBigEndian(bytes) == LET sum[i \in 0 .. Len(bytes)] == IF i = 0 THEN 0 ELSE sum[i - 1] * 256 + bytes[i] IN sum[Len(bytes)]

(* Size 0: more bytes are needed. *)
NQWebSocketHeaderParse(data) ==
  LET marker == data[2] % WS_MASK_MASK
      lengthBytes == IF marker = WS_LEN16_MARKER THEN 2 ELSE IF marker = WS_LEN64_MARKER THEN 8 ELSE 0
      masked == data[2] >= WS_MASK_MASK
      headerSize == 2 + lengthBytes + (IF masked THEN 4 ELSE 0)
  IN IF Len(data) < 2 \/ Len(data) < headerSize THEN [size |-> 0]
     ELSE [size |-> headerSize, fin |-> data[1] >= WS_FIN_MASK, rsv |-> (data[1] % WS_FIN_MASK) \div 16, opcode |-> data[1] % 16,
           payloadSize |-> IF lengthBytes = 0 THEN marker ELSE FromBigEndian(SubSeq(data, 3, 2 + lengthBytes)),
           hasMask |-> masked, mask |-> IF masked THEN SubSeq(data, headerSize - 3, headerSize) ELSE <<0, 0, 0, 0>>]

(* data begins the frame and holds its header, size is all of it. *)
NQWebSocketFrameParse(data, size) ==
  LET header == NQWebSocketHeaderParse(data)
  IN /\ header.size > 0
     /\ header.rsv = 0
     /\ \/ header.opcode \in {kNQWebSocketOpcode.Text, kNQWebSocketOpcode.Binary}
        \/ header.opcode = kNQWebSocketOpcode.ConnectionClose /\ header.payloadSize = 2
     /\ header.size + header.payloadSize = size

-----------------------------------------------------------------------------

VARIABLES buffer,      \* NQWebSocketBuffer; header << >> where the memory has another content
          completed    \* what the last complete was asked for, as long as the payload stays, or << >>;
             \* last, whether it was the first time since reset

frameVars == <<buffer, completed>>

NQWebSocketBuffer_init ==
  [allocated |-> FALSE, payloadLen |-> 0, payloadCapacity |-> 0, headerSize |-> 0, header |-> << >>, masked |-> "no", lost |-> 0]

FrameInit == buffer = NQWebSocketBuffer_init /\ completed = << >>

(* A new block: only the payload is copied. *)
Moved(b, capacity) == [b EXCEPT !.allocated = TRUE, !.payloadCapacity = capacity, !.header = << >>]

(* The old block is not freed if there is no payload to copy. *)
NQWebSocketBuffer_reserve(b, size) ==
  IF b.payloadCapacity >= size THEN b
  ELSE [Moved(b, size) EXCEPT !.lost = IF b.allocated /\ b.payloadLen = 0 THEN @ + 1 ELSE @]

Grown(b, needed) == IF needed > b.payloadCapacity THEN Moved(b, 2 * needed) ELSE b

Added(b, n) == [b EXCEPT !.payloadLen = @ + n, !.masked = IF n > 0 /\ b.masked = "yes" THEN "mixed" ELSE @]

NQWebSocketBuffer_write(b, n) == Added(Grown(b, b.payloadLen + n), n)

(* The text needs room for its NUL too. *)
NQWebSocketBuffer_vprintf(b, n) == IF n = 0 THEN b ELSE Added(Grown(b, b.payloadLen + n + 1), n)

Header(length, opcode, fin, mask) ==
  LET flag2 == IF length < WS_LEN16_MARKER THEN length ELSE IF length < 65536 THEN WS_LEN16_MARKER ELSE WS_LEN64_MARKER
      lengthBytes == CASE flag2 = WS_LEN16_MARKER -> BigEndian(length, 2) [] flag2 = WS_LEN64_MARKER -> BigEndian(length, 8) [] OTHER -> << >>
  IN <<opcode + (IF fin THEN WS_FIN_MASK ELSE 0), flag2 + (IF mask THEN WS_MASK_MASK ELSE 0)>>
       \o lengthBytes \o (IF mask THEN MaskKey ELSE << >>)

(* The payload is masked where it lies: twice is not at all. *)
NQWebSocketBuffer_complete(b, opcode, fin, mask) ==
  IF ~b.allocated THEN b
  ELSE LET header == Header(b.payloadLen, opcode, fin, mask)
       IN [b EXCEPT !.header = header, !.headerSize = Len(header),
                    !.masked = IF ~mask THEN @ ELSE IF @ = "no" THEN "yes" ELSE IF @ = "yes" THEN "no" ELSE @]

(* A slip the code could have made: the header is not forgotten. *)
KeepsHeader(b) == [b EXCEPT !.payloadLen = 0, !.masked = "no"]
NQWebSocketBuffer_reset(b) == [b EXCEPT !.headerSize = 0, !.payloadLen = 0, !.masked = "no"]

Size == IF buffer.headerSize = 0 THEN 0 ELSE buffer.headerSize + buffer.payloadLen

-----------------------------------------------------------------------------

(* Reserve leaves the payload as it is; without memory nothing changes. *)
Reserve(n) == /\ buffer.lost = 0
              /\ buffer' = NQWebSocketBuffer_reserve(buffer, n)
              /\ UNCHANGED completed

Put(n, how) ==
  /\ buffer' = IF how = "write" THEN NQWebSocketBuffer_write(buffer, n) ELSE NQWebSocketBuffer_vprintf(buffer, n)
  /\ completed' = IF n = 0 THEN completed ELSE << >>

Complete(opcode, fin, mask) ==
  /\ buffer' = NQWebSocketBuffer_complete(buffer, opcode, fin, mask)
  /\ completed' = IF buffer.allocated THEN <<opcode, fin, mask, buffer.headerSize = 0>> ELSE completed

ResetBuffer == buffer' = NQWebSocketBuffer_reset(buffer) /\ completed' = << >>

FrameNext ==
  \/ ResetBuffer
  \/ \E n \in PayloadSizes : Reserve(n)
  \/ \E total \in { n \in PayloadSizes : n >= buffer.payloadLen }, how \in {"write", "printf"} : Put(total - buffer.payloadLen, how)
  \/ \E name \in DOMAIN kNQWebSocketOpcode, fin, mask \in BOOLEAN : Complete(kNQWebSocketOpcode[name], fin, mask)

FrameSpec == FrameInit /\ [][FrameNext]_frameVars

(* A completed frame is taken for what it is by the parser, as long as no call
   got it a new block, and no part of it is taken for a frame; and the header
   never needs more than the room there is before the payload. What was written
   after complete makes a frame the parser refuses. (WebSocketFrame.c:
   NQWebSocketBuffer_complete and NQWebSocketFrameParse.) *)
FrameParsesBack ==
  LET header == NQWebSocketHeaderParse(buffer.header)
  IN /\ Len(buffer.header) <= 14 /\ buffer.payloadLen <= buffer.payloadCapacity
     /\ completed # << >> /\ buffer.header # << >> =>
          /\ header.size = buffer.headerSize
          /\ <<header.opcode, header.fin, header.hasMask>> = SubSeq(completed, 1, 3)
          /\ completed[4] => buffer.masked = IF header.hasMask THEN "yes" ELSE "no"
          /\ header.payloadSize = buffer.payloadLen
          /\ header.hasMask => header.mask = MaskKey
          /\ \A n \in 0 .. buffer.headerSize - 1 : NQWebSocketHeaderParse(SubSeq(buffer.header, 1, n)).size = 0
          /\ NQWebSocketFrameParse(buffer.header, Size) <=>
               \/ header.opcode \in {1, 2}
               \/ header.opcode = 8 /\ buffer.payloadLen = 2
          /\ ~NQWebSocketFrameParse(buffer.header, Size - 1)
     /\ completed = << >> /\ buffer.header # << >> /\ buffer.headerSize > 0 => ~NQWebSocketFrameParse(buffer.header, Size)
=============================================================================
