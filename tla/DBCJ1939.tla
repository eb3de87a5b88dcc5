------------------------------ MODULE DBCJ1939 ------------------------------
(***************************************************************************)
(* SAE J1939 on top of CAN frames: identifiers of protocol data units,      *)
(* diagnostic messages, checksums, and the builder that splits a long       *)
(* message into the frames of the transport protocol.                       *)
(***************************************************************************)
EXTENDS Integers, Sequences, SequencesExt, FiniteSets

CONSTANTS Packages,  \* NQDBCJ1939_TP_PACKEGE_MAX: 256 in the code
          Sizes      \* how many bytes are appended at once

Byte(x, n) == (x \div 2 ^ (8 * n)) % 256
Bits(x, from, width) == (x \div 2 ^ from) % 2 ^ width

(* Identifiers, 29 bits. *)

kNQDBCJ1939Broadcast == 255
NQDBCJ1939Mkpdu(p, pgn, sa) == p * 2 ^ 26 + pgn * 256 + sa
NQDBCJ1939Mkpdu1(p, pgn, da, sa) == p * 2 ^ 26 + pgn * 256 + da * 256 + sa
NQDBCJ1939GetP(id) == Bits(id, 26, 3)
NQDBCJ1939GetR(id) == Bits(id, 25, 1)
NQDBCJ1939GetDP(id) == Bits(id, 24, 1)
NQDBCJ1939GetPF(id) == Bits(id, 16, 8)
NQDBCJ1939IsPDU1(id) == NQDBCJ1939GetPF(id) < 240
NQDBCJ1939GetSA(id) == Byte(id, 0)
NQDBCJ1939SetSA(id, sa) == (id \div 256) * 256 + sa
NQDBCJ1939GetDA(id) == IF NQDBCJ1939IsPDU1(id) THEN Byte(id, 1) ELSE kNQDBCJ1939Broadcast
(* The identifier unchanged: there is no destination to set. *)
NQDBCJ1939SetDA(id, da) ==
  IF NQDBCJ1939IsPDU1(id) THEN (id \div 2 ^ 16) * 2 ^ 16 + da * 256 + (id % 256) ELSE id

(* Diagnostic messages: four lamps of two bits, each with a state (byte 0) and
   a flash code (byte 1), then four bytes for each trouble code. *)

Lamps == <<"MIL", "RSL", "AWL", "PL">>
DM1Max == 400
NQDBCJ1939DM1_init == [lamps |-> [flash \in BOOLEAN |-> [i \in DOMAIN Lamps |-> 0]], codes |-> << >>]
NQDBCJ1939DM1_setLamp(dm1, i, state, flash) == [dm1 EXCEPT !.lamps[FALSE][i] = state % 4, !.lamps[TRUE][i] = flash % 4]
LampByte(dm1, flash) == FoldLeft(LAMBDA n, i : n + dm1.lamps[flash][i] * 4 ^ (i - 1), 0, <<1, 2, 3, 4>>)
DTC(spn, fmi, oc) == <<Byte(spn, 0), Byte(spn, 1), Bits(spn, 16, 3) * 32 + (fmi % 32), oc % 128>>
NQDBCJ1939DM1_addDTC(dm1, spn, fmi, oc) ==
  IF DM1Max < 2 + 4 * Len(dm1.codes) + 4 THEN dm1 ELSE [dm1 EXCEPT !.codes = Append(@, DTC(spn, fmi, oc))]

(* AEBS2CalcChecksum: the counter is in the lower half of the last byte, the
   checksum over the first seven bytes, the counter and the identifier above it. *)
AEBS2CalcChecksum(id, data, counter) ==
  LET n == counter % 16
      sum == FoldLeft(LAMBDA x, i : x + data[i], n, [i \in 1 .. 7 |-> i]) + Byte(id, 0) + Byte(id, 1) + Byte(id, 2) + Bits(id, 24, 5)
  IN ((sum + sum \div 16) % 16) * 16 + n
NQDBCJ1939UpdateChecksum(id, data, counter) == [data EXCEPT ![8] = AEBS2CalcChecksum(id, data, counter)]
NQDBCJ1939IsValidChecksum(id, data) == Len(data) = 8 /\ data[8] = AEBS2CalcChecksum(id, data, data[8])

(* The transport builder. Frame 0 announces the message, each other frame has
   its number and seven bytes, of which the missing ones are 255. *)

TPMax == (Packages - 1) * 7
FrameSize == 8
NQDBCJ1939TPBuilder_init == [sn |-> 0, nbyte |-> 0, announced |-> [nbyte |-> 0, sn |-> 0], frames |-> << >>]

AppendByte(builder, byte) ==
  LET full == builder.sn = 0 \/ builder.frames[builder.sn].size >= FrameSize
      opened == IF full THEN [builder EXCEPT !.sn = @ + 1,
                                             !.frames = Append(@, [size |-> 1, data |-> [i \in 1 .. FrameSize |-> IF i = 1 THEN builder.sn + 1 ELSE 0]])]
                ELSE builder
      at == opened.frames[opened.sn].size + 1
  IN [opened EXCEPT !.frames[opened.sn] = [size |-> at, data |-> [@.data EXCEPT ![at] = byte]], !.nbyte = @ + 1]

NQDBCJ1939TPBuilder_append(builder, bytes) ==
  LET filled == FoldLeft(AppendByte, builder, bytes)
      last == filled.frames[filled.sn]
      padded == [filled EXCEPT !.frames[filled.sn].data = [i \in 1 .. FrameSize |-> IF i > last.size THEN 255 ELSE last.data[i]]]
  IN IF bytes = << >> \/ TPMax - builder.nbyte < Len(bytes) THEN builder
     ELSE [padded EXCEPT !.announced = [nbyte |-> filled.nbyte, sn |-> filled.sn]]

-----------------------------------------------------------------------------

VARIABLES tp,        \* the builder
          payload    \* the bytes it has accepted

j1939Vars == <<tp, payload>>

J1939Init == tp = NQDBCJ1939TPBuilder_init /\ payload = << >>

(* Every byte tells where it came from. *)
AppendPayload(n) ==
  LET bytes == [i \in 1 .. n |-> (Len(payload) + i) % 251]
  IN /\ tp' = NQDBCJ1939TPBuilder_append(tp, bytes)
     /\ payload' = IF tp'.nbyte > tp.nbyte THEN payload \o bytes ELSE payload

J1939Next == \E n \in Sizes : AppendPayload(n)

J1939Spec == J1939Init /\ [][J1939Next]_j1939Vars

-----------------------------------------------------------------------------

(* What an identifier was made of is read from it, and setting an address changes
   no other part of it. (DBCJ1939.h: the shifts and masks of its parts.) *)
IdentifierReadsBack(p, pf, low, sa) ==
  LET id == IF pf < 240 THEN NQDBCJ1939Mkpdu1(p, pf * 256, low, sa) ELSE NQDBCJ1939Mkpdu(p, pf * 256 + low, sa)
      Parts(i) == <<NQDBCJ1939GetP(i), NQDBCJ1939GetR(i), NQDBCJ1939GetDP(i), NQDBCJ1939GetPF(i), NQDBCJ1939GetDA(i), NQDBCJ1939GetSA(i)>>
      parts == <<p, 0, 0, pf, IF pf < 240 THEN low ELSE kNQDBCJ1939Broadcast, sa>>
  IN /\ Parts(id) = parts
     /\ \A a \in {0, 1, 254, 255} :
          /\ Parts(NQDBCJ1939SetSA(id, a)) = [parts EXCEPT ![6] = a]
          /\ Parts(NQDBCJ1939SetDA(id, a)) = IF pf < 240 THEN [parts EXCEPT ![5] = a] ELSE parts

(* The lamps and the trouble codes that were put into a message are read from its
   bytes, as many codes as there is room for. (DBCJ1939.c: NQDBCJ1939DM1_setLamp,
   NQDBCJ1939DM1_addDTC.) *)
DiagnosticReadsBack(lamps, spn, fmi, count) ==
  LET lit == FoldLeft(LAMBDA m, i : NQDBCJ1939DM1_setLamp(m, i, lamps[i], 3 - lamps[i]), NQDBCJ1939DM1_init, <<1, 2, 3, 4>>)
      full == FoldLeft(LAMBDA m, oc : NQDBCJ1939DM1_addDTC(m, spn, fmi, oc), lit, [i \in 1 .. count |-> i])
      Pair(flash, i) == (LampByte(full, flash) \div 4 ^ (i - 1)) % 4
  IN /\ \A i \in DOMAIN Lamps : Pair(FALSE, i) = lamps[i] /\ Pair(TRUE, i) = 3 - lamps[i]
     /\ Len(full.codes) <= count /\ 4 * Len(full.codes) + 2 <= DM1Max
     /\ Len(full.codes) < count => 4 * Len(full.codes) + 6 > DM1Max
     /\ \A i \in DOMAIN full.codes :
          LET dtc == full.codes[i]
          IN dtc[1] + 256 * dtc[2] + 65536 * (dtc[3] \div 32) = spn /\ dtc[3] % 32 = fmi /\ dtc[4] = i % 128

(* A message has a valid checksum after it was updated, with the counter in it, and
   for each counter one last byte is valid. (DBCJ1939.c: AEBS2CalcChecksum.) *)
ChecksumIsValid(id, data, counter) ==
  LET updated == NQDBCJ1939UpdateChecksum(id, data, counter)
  IN /\ NQDBCJ1939IsValidChecksum(id, updated) /\ updated[8] % 16 = counter
     /\ Cardinality({ last \in 0 .. 255 : NQDBCJ1939IsValidChecksum(id, [data EXCEPT ![8] = last]) }) = 16

(* A receiver that takes the announced number of bytes, seven from each of the
   announced frames in order, gets what was appended, in whatever pieces it
   was: nothing is lost where one append ends inside of a frame and the next
   goes on over its padding. (DBCJ1939.c: NQDBCJ1939TPBuilder_append.) *)
FramesCarryPayload ==
  LET received == FlattenSeq([i \in 1 .. tp.announced.sn |-> Tail(tp.frames[i].data)])
  IN /\ SubSeq(received, 1, tp.announced.nbyte) = payload
     /\ \A i \in 1 .. tp.announced.sn : tp.frames[i].data[1] = i
     /\ \A i \in Len(payload) + 1 .. Len(received) : received[i] = 255
     /\ tp.announced.sn < Packages
=============================================================================
