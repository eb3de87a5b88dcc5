----------------------------- MODULE LogCircular -----------------------------
(***************************************************************************)
(* The last lines of a log, in a ring of entries that are allocated one by  *)
(* one. Lines are numbered as they are printed.                             *)
(***************************************************************************)
EXTENDS Integers, Sequences, FiniteSets

CONSTANTS Capacity, \* at least 1: a ring of 0 writes behind its end
          MaxLines

VARIABLES items,    \* by position: a line, or 0 where there is none yet
          isFull, position,
          printed,  \* the lines that were ever put in
          allocated \* the lines that are
logVars == <<items, isFull, position, printed, allocated>>

LogInit ==
  /\ items = [p \in 0 .. Capacity - 1 |-> 0]
  /\ isFull = FALSE /\ position = 0
  /\ printed = << >> /\ allocated = {}

(* memory: there is some for the line. One that is too long fails an assertion. *)
NQLogCircular_vprint(memory) ==
  LET line == Len(printed) + 1
      next == position + 1
  IN /\ line <= MaxLines /\ memory
     /\ items' = [items EXCEPT ![position] = line]
     /\ allocated' = (allocated \ (IF isFull THEN {items[position]} ELSE {})) \cup {line}
     /\ position' = IF next >= Capacity THEN 0 ELSE next
     /\ isFull' = (isFull \/ next >= Capacity)
     /\ printed' = Append(printed, line)

NQLogCircular_count == IF isFull THEN Capacity ELSE position
NQLogCircular_getIndex(index) == (IF isFull THEN index + position ELSE index) % Capacity
NQLogCircular_at(index) == items[NQLogCircular_getIndex(index)]

LogNext == \E memory \in BOOLEAN : NQLogCircular_vprint(memory)
LogSpec == LogInit /\ [][LogNext]_logVars

-----------------------------------------------------------------------------

(* What is there by index is what was printed last, the oldest first, and what the
   ring holds is what is allocated. (NQLogCircular_getIndex.) *)
LastLines ==
  LET n == NQLogCircular_count
  IN /\ n = IF Len(printed) < Capacity THEN Len(printed) ELSE Capacity
     /\ \A i \in 0 .. n - 1 : NQLogCircular_at(i) = printed[Len(printed) - n + i + 1]
     /\ allocated = { NQLogCircular_at(i) : i \in 0 .. n - 1 }
=============================================================================
