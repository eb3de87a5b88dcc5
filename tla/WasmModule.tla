----------------------------- MODULE WasmModule -----------------------------
(***************************************************************************)
(* Binary WebAssembly modules, read into a list of sections and written     *)
(* again: the import section item by item, the others as they are. Names    *)
(* are kept as C strings. A byte is a number; an integer, whose width is 32 *)
(* or 64 bits, is the sequence of its septets, the lowest first and none    *)
(* above the highest that is not 0.                                         *)
(***************************************************************************)
EXTENDS Integers, Sequences, SequencesExt

NQ_WASM_MAGIC == <<0, 97, 115, 109>>
NQ_WASM_VERSION == <<1, 0, 0, 0>>
ImportSection == 2
FuncImport == 0
TableImport == 1
MemImport == 2
GlobalImport == 3

NQWasmIsElemType == {112}
NQWasmIsMemType == 0 .. 7
NQWasmIsValType == {99, 100, 123, 124, 125, 126, 127}
HasMaxValue(memtype) == memtype % 2 = 1

-----------------------------------------------------------------------------

Trimmed(septets) == LET high == SelectLastInSeq(septets, LAMBDA x : x # 0) IN SubSeq(septets, 1, IF high = 0 THEN 1 ELSE high)
ToNumber(n) == Trimmed(<<n % 128, n \div 128>>)

(* A number of more than four septets is larger than any input. *)
ToInt(number) == IF Len(number) > 4 THEN 2 ^ 28 ELSE FoldRight(LAMBDA septet, n : septet + 128 * n, number, 0)

(* A reader: the bytes that are left, whether all was read that was asked for, what
   was read last, and which of the next allocations fails, 0 if none does. *)
Reader(data, memory) == [data |-> data, ok |-> TRUE, value |-> 0, bytes |-> << >>, memory |-> memory]
Fails(r) == [r EXCEPT !.ok = FALSE]
Later(memory) == IF memory = 0 THEN 0 ELSE memory - 1
Allocates(r) == [r EXCEPT !.ok = r.memory # 1, !.memory = Later(@)]

ReadUint8(r) ==
  IF ~r.ok \/ r.data = << >> THEN Fails(r)
  ELSE [r EXCEPT !.value = Head(r.data), !.data = Tail(@)]

(* readLeb128Uint32 and _Uint64: up to the first byte below 128, as long as the bits
   that are read fit the width; of the last byte only those up to its highest count. *)
ReadLeb128(r, width) ==
  LET bits(i) == IF r.data[i] >= 128 THEN 7 * i
                 ELSE LET high == SelectLastInSeq([b \in 1 .. 7 |-> (r.data[i] \div 2 ^ (b - 1)) % 2], LAMBDA x : x = 1) IN 7 * (i - 1) + high
      last == SelectInSeq([i \in DOMAIN r.data |-> r.data[i] < 128 \/ bits(i) > width], LAMBDA ends : ends)
      left == SubSeq(r.data, last + 1, Len(r.data))
  IN IF ~r.ok THEN r
     ELSE IF last = 0 THEN Fails([r EXCEPT !.data = << >>])
     ELSE IF bits(last) > width THEN Fails([r EXCEPT !.data = left])
     ELSE [r EXCEPT !.data = left, !.value = Trimmed([i \in 1 .. last |-> r.data[i] % 128])]

SkipAll(r, size) ==
  IF ~r.ok \/ size > Len(r.data) THEN Fails(r)
  ELSE [r EXCEPT !.bytes = SubSeq(r.data, 1, size), !.data = SubSeq(@, size + 1, Len(@))]
ReadString(r) == LET length == ReadLeb128(r, 32) IN IF length.ok THEN SkipAll(length, ToInt(length.value)) ELSE length

WriteLeb128(number) == [i \in DOMAIN number |-> IF i < Len(number) THEN 128 + number[i] ELSE number[i]]

(* createImportItem copies a name with all its bytes; it ends at the first 0. *)
CString(name) == LET at == SelectInSeq(name, LAMBDA b : b = 0) IN IF at = 0 THEN name ELSE SubSeq(name, 1, at - 1)

-----------------------------------------------------------------------------

(* What follows the names of an item: its fields in order, each a byte or a number. *)
Byte(allowed) == [width |-> 8, allowed |-> allowed]
Number(width) == [width |-> width, allowed |-> {}]
Fields(importId) ==
  CASE importId = FuncImport -> <<Number(32)>>
    [] importId = TableImport -> <<Byte(NQWasmIsElemType), Number(32), Number(32)>>
    [] importId = MemImport -> <<Byte(NQWasmIsMemType), Number(64), Number(64)>>
    [] importId = GlobalImport -> <<Byte(NQWasmIsValType), Byte(0 .. 255)>>

(* The maximum of a memory is there only if its type says so; without it is 0. *)
IsThere(importId, i, fields) == importId = MemImport /\ i = 3 => HasMaxValue(fields[1])

ReadField(importId, state, i) ==
  LET field == Fields(importId)[i]
      r == IF field.width = 8 THEN ReadUint8(state.r) ELSE ReadLeb128(state.r, field.width)
  IN IF ~state.r.ok THEN state
     ELSE IF ~IsThere(importId, i, state.fields) THEN [state EXCEPT !.fields = Append(@, <<0>>)]
     ELSE IF r.ok /\ field.width = 8 /\ r.value \notin field.allowed THEN [state EXCEPT !.r = Fails(r)]
     ELSE [r |-> r, fields |-> Append(state.fields, r.value)]

(* readImportFunction, readImportTable, readImportMemory, readImportGlobal; the item
   is allocated when all of it is read. *)
ReadItem(r) ==
  LET module == ReadString(r)
      name == ReadString(module)
      id == ReadUint8(name)
      known == id.ok /\ id.value \in FuncImport .. GlobalImport
      fields == FoldLeft(LAMBDA state, i : ReadField(id.value, state, i), [r |-> id, fields |-> << >>], [i \in DOMAIN Fields(id.value) |-> i])
      item == [importId |-> id.value, module |-> CString(module.bytes), name |-> CString(name.bytes), fields |-> fields.fields]
  IN IF ~known \/ ~fields.r.ok THEN [r |-> Fails(id), item |-> << >>]
     ELSE [r |-> Allocates(fields.r), item |-> <<item>>]

(* NQWasmImportSection_fromMemory: none unless there are as many items as said and
   nothing after them. More than there are bytes cannot be read. *)
NQWasmImportSection_fromMemory(data, memory) ==
  LET count == ReadLeb128(Reader(data, memory), 32)
      tried == IF ~count.ok THEN 0 ELSE IF ToInt(count.value) <= Len(data) THEN ToInt(count.value) ELSE Len(data)
      ReadNext(state, i) ==
        LET read == ReadItem(state.r)
        IN IF ~state.r.ok THEN state ELSE [r |-> read.r, items |-> state.items \o read.item]
      items == FoldLeft(ReadNext, [r |-> count, items |-> << >>], [i \in 1 .. tried |-> i])
      created == IF items.r.ok /\ items.r.data = << >> THEN Allocates(items.r) ELSE Fails(items.r)
  IN [section |-> IF created.ok THEN <<[sectionId |-> ImportSection, items |-> items.items, data |-> << >>]>> ELSE << >>,
      memory |-> created.memory]

(* A section of any other id, known or not, is kept as it is. *)
NQWasmSection_fromMemory(sectionId, data, memory) ==
  IF sectionId = ImportSection THEN NQWasmImportSection_fromMemory(data, memory)
  ELSE [section |-> IF memory = 1 THEN << >> ELSE <<[sectionId |-> sectionId, items |-> << >>, data |-> data]>>,
        memory |-> Later(memory)]

(* NQWasmModule_fromMemory: the loop ends with the data, or at a section that cannot
   be read or stored, which is an error only if there is something left. *)
NoModule == [ok |-> FALSE, sections |-> << >>]
RECURSIVE ReadSections(_, _)
ReadSections(r, sections) ==
  LET id == ReadUint8(r)
      size == ReadLeb128(id, 32)
      content == IF size.ok THEN SkipAll(size, ToInt(size.value)) ELSE size
      read == NQWasmSection_fromMemory(id.value, content.bytes, content.memory)
      Ended(data, memory) == IF data = << >> /\ memory # 1 THEN [ok |-> TRUE, sections |-> sections] ELSE NoModule
  IN IF r.data = << >> THEN Ended(r.data, r.memory)
     ELSE IF ~content.ok THEN Ended(content.data, r.memory)
     ELSE IF read.section = << >> THEN Ended(content.data, read.memory)
     ELSE ReadSections([content EXCEPT !.memory = read.memory], sections \o read.section)

(* memory: which of the allocations fails, 0 if none does. *)
NQWasmModule_fromMemory(data, memory) ==
  LET header == NQ_WASM_MAGIC \o NQ_WASM_VERSION
  IN IF ~IsPrefix(header, data) THEN NoModule
     ELSE ReadSections(Reader(SubSeq(data, Len(header) + 1, Len(data)), memory), << >>)

-----------------------------------------------------------------------------

WriteString(name) == WriteLeb128(ToNumber(Len(name))) \o name
WriteFields(item) ==
  LET written == [i \in DOMAIN item.fields |->
                    IF ~IsThere(item.importId, i, item.fields) THEN << >>
                    ELSE IF Fields(item.importId)[i].width = 8 THEN <<item.fields[i]>> ELSE WriteLeb128(item.fields[i])]
  IN FlattenSeq(written)

WriteSection(sectionId, content) == <<sectionId>> \o WriteLeb128(ToNumber(Len(content))) \o content

NQWasmImportSection_writeTo(section) ==
  LET Item(item) == WriteString(item.module) \o WriteString(item.name) \o <<item.importId>> \o WriteFields(item)
      items == FlattenSeq([i \in DOMAIN section.items |-> Item(section.items[i])])
  IN WriteSection(section.sectionId, WriteLeb128(ToNumber(Len(section.items))) \o items)

NQWasmSection_writeTo(section) ==
  IF section.sectionId = ImportSection THEN NQWasmImportSection_writeTo(section)
  ELSE WriteSection(section.sectionId, section.data)

NQWasmModule_writeTo(sections) ==
  NQ_WASM_MAGIC \o NQ_WASM_VERSION \o FlattenSeq([i \in DOMAIN sections |-> NQWasmSection_writeTo(sections[i])])

(* addMemory of NQWasmImportSection: a maximum the type does not have is kept. *)
NQWasmImportSection_addMemory(section, module, name, memtype, min, max) ==
  [section EXCEPT !.items = Append(@, [importId |-> MemImport, module |-> module, name |-> name, fields |-> <<memtype, min, max>>])]

-----------------------------------------------------------------------------

(* What is written is read; what is cut short is refused, unless the cut is between
   sections or before the content of one, which is dropped without a word; and so is
   the last section if an allocation for it fails, but no other.
   (Module.c: the counts, sizes and ends of the two loops.) *)
ModuleIsReadBack(sections) ==
  LET data == NQWasmModule_writeTo(sections)
      Cut(n) == NQWasmModule_fromMemory(SubSeq(data, 1, n), 0)
      Starved(memory) == NQWasmModule_fromMemory(data, memory)
      ends == { Len(NQWasmModule_writeTo(SubSeq(sections, 1, k))) : k \in 0 .. Len(sections) }
  IN /\ Cut(Len(data)) = [ok |-> TRUE, sections |-> sections]
     /\ \A n \in 0 .. Len(data) - 1 :
          Cut(n).ok = \E end \in ends : end <= n /\ n <= end + (IF data[end + 2] < 128 THEN 2 ELSE 3)
     /\ \A memory \in 1 .. 6 :
          Starved(memory).ok => Starved(memory).sections \in {sections, SubSeq(sections, 1, Len(sections) - 1)}

(* Whatever is read is written as it was read, name by name up to a 0 byte, and
   reads the same again. *)
RewriteIsStable(data) ==
  LET read == NQWasmModule_fromMemory(data, 0)
      again == NQWasmModule_fromMemory(NQWasmModule_writeTo(read.sections), 0)
  IN read.ok => /\ again.ok /\ again.sections = read.sections
                /\ Len(NQWasmModule_writeTo(read.sections)) <= Len(data)
=============================================================================
