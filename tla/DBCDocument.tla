---------------------------- MODULE DBCDocument ----------------------------
(***************************************************************************)
(* The reference-counted object graph of a DBC document: network nodes,     *)
(* messages, signals, signal groups, environment variables, value tables,   *)
(* signal types and the attributes attached to them.                        *)
(*                                                                          *)
(* The operators take and return a heap, a record                           *)
(*   obj     the live objects by identifier (never used again),             *)
(*   protos  the live attribute prototypes, defs the defined ones in order, *)
(*   fuel    allocations that still succeed; -1 once one has failed,        *)
(*   next    the next identifier, new the one the last creation returned,   *)
(*   ok      what the C function returned,                                  *)
(*   bad     a freed object was used, or an assertion of the code failed.   *)
(* Strings and arrays are not objects of their own: only the allocations    *)
(* they take are modelled, since these are what can fail.                   *)
(***************************************************************************)
EXTENDS Integers, Sequences, FiniteSetsExt, SequencesExt, TLC

NULL == 0

EmptyHeap(fuel) ==
  [obj |-> << >>, protos |-> << >>, defs |-> << >>, fuel |-> fuel,
   next |-> 1, new |-> NULL, ok |-> TRUE, bad |-> FALSE]

Live(h, o) == o \in DOMAIN h.obj

Fail(h) == [h EXCEPT !.ok = FALSE]

Fault(h) == [h EXCEPT !.bad = TRUE]

DBCAlloc(h) == IF h.fuel > 0 THEN [h EXCEPT !.fuel = @ - 1] ELSE [Fail(h) EXCEPT !.fuel = -1]

(* Runs Do when what came before it, whose heap h is computed once, returned true. *)
Then(h, Do(_)) == CHOOSE after \in { IF g.ok THEN Do(g) ELSE g : g \in {h} } : TRUE

Without(f, x) == [y \in DOMAIN f \ {x} |-> f[y]]

(* One record stands for the structures of all classes. *)
DBCObject(class, name, val) ==
  [class |-> class, name |-> name, val |-> val, refs |-> 1, parent |-> NULL, items |-> << >>, valTable |-> NULL,
   sigType |-> NULL, multiplexer |-> NULL, ranges |-> 0, sigGroup |-> NULL, attributes |-> << >>]

(* Any of the create functions: one block holds the object and its name. *)
DBCObject_create(h, class, name, val) ==
  Then(DBCAlloc(h), LAMBDA g :
    [g EXCEPT !.new = g.next, !.next = @ + 1, !.obj = (g.next :> DBCObject(class, name, val)) @@ @])

NQDBCDocument_create2(fuel, name) == DBCObject_create(EmptyHeap(fuel), "Document", name, 0)
NQDBCNetNode_create(h, name) == DBCObject_create(h, "NetNode", name, 0)
NQDBCMessage_create(h, name, id) == DBCObject_create(h, "Message", name, id)
NQDBCSignal_create(h, name) == DBCObject_create(h, "Signal", name, 0)
NQDBCEnvVar_create(h, name) == DBCObject_create(h, "EnvVar", name, 0)
NQDBCSigGroup_create(h, name) == DBCObject_create(h, "SigGroup", name, 0)
NQDBCValTable_create(h, name) == DBCObject_create(h, "ValTable", name, 0)
NQDBCSigType_create(h, name) == DBCObject_create(h, "SigType", name, 0)

DBCObject_retain(h, o) == IF Live(h, o) THEN [h EXCEPT !.obj[o].refs = @ + 1] ELSE Fault(h)

(* The members of one array of an object: the arrays of an object hold
   objects of different classes, so that one sequence stands for all. *)
Members(h, o, class) ==
  SelectSeq(h.obj[o].items, LAMBDA m : Live(h, m) /\ h.obj[m].class = class)

(* The sizes at which an array has to grow: 32, and then half as much again
   until 47202, whose successor reserve refuses. *)
StartCapacity == 32
Capacity[k \in 0 .. 18] == IF k = 0 THEN 0 ELSE IF k = 1 THEN StartCapacity ELSE (Capacity[k - 1] * 3) \div 2
ArrayIsFull(n) == \E k \in 0 .. 18 : Capacity[k] = n

DBCArray_reserve(h, n) ==
  IF ~ArrayIsFull(n) THEN h ELSE IF n = Capacity[18] THEN Fail(h) ELSE DBCAlloc(h)

DBCArray_append(h, holder, o) ==
  LET n == Len(SelectSeq(h.obj[holder].items, LAMBDA m : h.obj[m].class = h.obj[o].class))
  IN Then(DBCArray_reserve(h, n), LAMBDA g : DBCObject_retain([g EXCEPT !.obj[holder].items = Append(@, o)], o))

NQDBCAttrProto_retain(h, p) == [h EXCEPT !.protos[p].refs = @ + 1]

NQDBCAttrProto_release(h, p) ==
  IF p \notin DOMAIN h.protos THEN Fault(h)
  ELSE IF h.protos[p].refs = 1 THEN [h EXCEPT !.protos = Without(@, p)]
  ELSE [h EXCEPT !.protos[p].refs = @ - 1]

NQDBCAttribute_finalize(h, attribute) == NQDBCAttrProto_release(h, attribute.proto)

DBCAttrMap_finalize(h, o) ==
  FoldLeft(NQDBCAttribute_finalize, h, h.obj[o].attributes)

DBCAttrDefines_finalize(h) == [FoldLeft(NQDBCAttrProto_release, h, h.defs) EXCEPT !.defs = << >>]

RECURSIVE DBCObject_release(_, _)

DBCArray_finalize(h, o, class) == FoldLeft(DBCObject_release, h, Members(h, o, class))

(* NQDBCSignal_setValTable, _setSignalType, NQDBCEnvVar_setValTable and the
   like: the old reference is dropped before the new one is taken. *)
SetReference(h, o, field, new) ==
  LET Dropped(g, old) == IF old # NULL THEN DBCObject_release(g, old) ELSE g
      Taken(g) == IF new # NULL THEN DBCObject_retain(g, new) ELSE g
  IN [Taken(Dropped(h, h.obj[o][field])) EXCEPT !.obj[o][field] = new]

NQDBCSigGroup_deinit(h, o) ==
  LET signals == { h.obj[o].items[i] : i \in DOMAIN h.obj[o].items }
      left == [h EXCEPT !.obj = [x \in DOMAIN @ |-> IF x \in signals THEN [@[x] EXCEPT !.sigGroup = NULL] ELSE @[x]]]
  IN DBCArray_finalize(left, o, "Signal")

NQDBCSignal_deinit(h, o) ==
  LET asserted == IF h.obj[o].sigGroup # NULL THEN Fault(h) ELSE h
      unset == FoldLeft(LAMBDA g, field : SetReference(g, o, field, NULL), asserted, <<"valTable", "sigType", "multiplexer">>)
  IN DBCArray_finalize(unset, o, "NetNode")

NQDBCMessage_deinit(h, o) ==
  FoldLeft(LAMBDA g, class : DBCArray_finalize(g, o, class), h, <<"SigGroup", "Signal", "NetNode">>)

NQDBCEnvVar_deinit(h, o) == SetReference(DBCArray_finalize(h, o, "NetNode"), o, "valTable", NULL)

NQDBCDocument_deinit(h, o) ==
  LET emptied == FoldLeft(LAMBDA g, class : DBCArray_finalize(g, o, class), h,
                          <<"SigType", "ValTable", "EnvVar", "Message", "NetNode">>)
  IN DBCAttrDefines_finalize(emptied)

DBCObject_release(h, o) ==
  IF ~Live(h, o) THEN Fault(h)
  ELSE IF h.obj[o].refs > 1 THEN [h EXCEPT !.obj[o].refs = @ - 1]
  ELSE LET dying == [h EXCEPT !.obj[o].refs = 0]
           class == h.obj[o].class
           emptied == CASE class = "Document" -> NQDBCDocument_deinit(dying, o)
                        [] class = "Message" -> NQDBCMessage_deinit(dying, o)
                        [] class = "Signal" -> NQDBCSignal_deinit(dying, o)
                        [] class = "EnvVar" -> NQDBCEnvVar_deinit(dying, o)
                        [] class = "SigGroup" -> NQDBCSigGroup_deinit(dying, o)
                        [] class = "SigType" -> SetReference(dying, o, "valTable", NULL)
                        [] OTHER -> dying
       IN [DBCAttrMap_finalize(emptied, o) EXCEPT !.obj = Without(@, o)]

(* NQDBCDocument_addNetNode, _addMessage, _addEnvVar, NQDBCMessage_addSignal,
   _addSigGroup: a child without a parent is appended and gets one. *)
AddChild(h, holder, o) ==
  IF o = NULL \/ h.obj[o].parent # NULL THEN Fail(h)
  ELSE Then(DBCArray_append(h, holder, o), LAMBDA g : [g EXCEPT !.obj[o].parent = holder])

NQDBCSigGroup_addSignal(h, group, signal) ==
  IF signal = NULL \/ h.obj[signal].parent # h.obj[group].parent \/ h.obj[signal].sigGroup # NULL THEN Fail(h)
  ELSE Then(DBCArray_append(h, group, signal), LAMBDA g : [g EXCEPT !.obj[signal].sigGroup = group])

NQDBCSignal_setMultiplexerSignal(h, signal, switch) ==
  IF switch # NULL /\ (h.obj[signal].parent = NULL \/ h.obj[signal].parent # h.obj[switch].parent) THEN Fail(h)
  ELSE SetReference(h, signal, "multiplexer", switch)

NQDBCMessage_setMultiplexerSignal(h, message, switch) ==
  FoldLeft(LAMBDA g, s : Then(g, LAMBDA x : NQDBCSignal_setMultiplexerSignal(x, s, switch)),
           h, Members(h, message, "Signal"))

(* One range lies in the signal itself; a second one moves to a block of 8,
   which grows like the arrays. 64 is the most. *)
RangesMax == 64
DBCRanges_add(h, signal) ==
  LET n == h.obj[signal].ranges
      room == IF n >= RangesMax THEN Fail(h)
              ELSE IF n \in {1, 8, 12, 18, 27, 40, 60} THEN DBCAlloc(h) ELSE h
  IN Then(room, LAMBDA g : [g EXCEPT !.obj[signal].ranges = @ + 1])

(* The first member with this name (or message identifier), or NULL. *)
FindIn(h, holder, class, key, wanted) ==
  LET found == SelectSeq(Members(h, holder, class), LAMBDA m : h.obj[m][key] = wanted)
  IN IF found = << >> THEN NULL ELSE Head(found)

FindSignal(h, doc, id, name) ==
  LET message == FindIn(h, doc, "Message", "val", id)
  IN IF message = NULL THEN NULL ELSE FindIn(h, message, "Signal", "name", name)

(* Attributes. A prototype: its type, the limits of its values (0 and 0: no
   limit), the number of values of an enumeration, and its default. *)

DBCAttrDefines_find(h, name) ==
  LET found == SelectSeq(h.defs, LAMBDA p : h.protos[p].name = name)
  IN IF found = << >> THEN NULL ELSE Head(found)

NQDBCAttrProto_create(h, name, class, info) ==
  Then(DBCAlloc(h), LAMBDA g :
    [g EXCEPT !.next = @ + 1, !.new = g.next,
              !.protos = (g.next :> [name |-> name, class |-> class, info |-> info, refs |-> 1, default |-> << >>]) @@ @])

(* The lists of attributes may grow a last time, from 47202 to MaxSize. *)
MaxSize == 65535
AttrReserve(h, n) == IF n = MaxSize THEN Fail(h) ELSE IF ArrayIsFull(n) THEN DBCAlloc(h) ELSE h

DBCAttrDefines_add(h, p) ==
  Then(AttrReserve(h, Len(h.defs)), LAMBDA g : NQDBCAttrProto_retain([g EXCEPT !.defs = Append(@, p)], p))

NQDBCDocument_defineAttr(h, name, class, info) ==
  IF DBCAttrDefines_find(h, name) # NULL THEN Fail(h)
  ELSE Then(NQDBCAttrProto_create(h, name, class, info), LAMBDA made :
         NQDBCAttrProto_release(DBCAttrDefines_add(made, made.new), made.new))

InLimits(info, v) == v \in info.first .. info.second \/ (info.first = 0 /\ info.second = 0)

(* DBCAttrSetInt, DBCAttrSetFloat, DBCAttrSetString: whether the variant takes
   a value given as a number or as a string. *)
Accepts(info, kind, v) ==
  CASE kind = "Int" -> \/ info.type \in {"Int", "Hex"} /\ InLimits(info, v)
                       \/ info.type = "Float"
                       \/ info.type = "Enum" /\ v \in 0 .. Len(info.names) - 1
    [] kind = "Float" -> info.type = "Float" /\ InLimits(info, v)
    [] kind = "String" -> \/ info.type = "String"
                          \/ info.type = "Enum" /\ (v = "" \/ Contains(info.names, v))

(* What the variant holds then: an enumeration holds an index, 0 for the empty string. *)
Variant(info, kind, v) ==
  IF info.type = "Enum" /\ kind = "String"
  THEN IF Contains(info.names, v) THEN (CHOOSE i \in DOMAIN info.names : info.names[i] = v) - 1 ELSE 0
  ELSE v

(* The old string is freed once the new one is made. *)
DBCString_setCharacters(h) == DBCAlloc(h)

DBCAttrSet(h, info, kind, v) ==
  IF ~Accepts(info, kind, v) THEN Fail(h)
  ELSE IF info.type = "String" THEN DBCString_setCharacters(h) ELSE h

(* NQDBCAttrProto_setDefaultInt, _setDefaultFloat, _setDefaultString. *)
NQDBCAttrProto_setDefault(h, p, kind, v) ==
  Then(DBCAttrSet(h, h.protos[p].info, kind, v), LAMBDA g :
    [g EXCEPT !.protos[p].default = <<Variant(h.protos[p].info, kind, v)>>])

(* The place among the attributes of o of that with this name, 0 if there is none. *)
DBCAttrMap_find(h, o, name) ==
  SelectInSeq(h.obj[o].attributes, LAMBDA a : h.protos[a.proto].name = name)

DBCAttrMap_add(h, o, attribute) ==
  Then(AttrReserve(h, Len(h.obj[o].attributes)), LAMBDA g : [g EXCEPT !.obj[o].attributes = Append(@, attribute)])

(* An attribute holds a reference to its prototype. *)
NQDBCAttribute_init(h, p) == NQDBCAttrProto_retain(h, p)

(* DBCObjectAttr_setAttrInt, _setAttrFloat, _setAttrString: an attribute the
   object has is overwritten; else one is made from the prototype. It keeps its
   reference to the prototype even if the map cannot grow. *)
DBCObjectAttr_setAttr(h, o, name, kind, v) ==
  LET at == DBCAttrMap_find(h, o, name)
      p == IF at # 0 THEN h.obj[o].attributes[at].proto ELSE DBCAttrDefines_find(h, name)
      info == h.protos[p].info
      set == DBCAttrSet(IF at # 0 THEN h ELSE NQDBCAttribute_init(h, p), info, kind, v)
      attribute == [proto |-> p, value |-> Variant(info, kind, v)]
  IN IF at # 0 THEN Then(set, LAMBDA g : [g EXCEPT !.obj[o].attributes[at] = attribute])
     ELSE IF p = NULL \/ h.protos[p].class # h.obj[o].class THEN Fail(h)
     ELSE IF ~set.ok THEN NQDBCAttribute_finalize(set, attribute)
     ELSE DBCAttrMap_add(set, o, attribute)

(* DBCObjectAttr_getAttrInt, _getAttrFloat, _getAttrString: the object's own
   value, or the default of a prototype for its class, when the type fits. *)
DBCObjectAttr_getAttr(h, o, name, kind) ==
  LET at == DBCAttrMap_find(h, o, name)
      p == IF at # 0 THEN h.obj[o].attributes[at].proto ELSE DBCAttrDefines_find(h, name)
      variant == IF at # 0 THEN <<h.obj[o].attributes[at].value>>
                 ELSE IF p # NULL /\ h.protos[p].class = h.obj[o].class THEN h.protos[p].default ELSE << >>
      readable == CASE kind = "Int" -> {"Int", "Hex"}
                    [] kind = "Float" -> {"Int", "Hex", "Enum", "Float"}
                    [] kind = "String" -> {"Enum", "String"}
  IN IF variant = << >> \/ h.protos[p].info.type \notin readable THEN << >> ELSE variant

-----------------------------------------------------------------------------

(* How often live objects refer to o. *)
Owners(h, o) ==
  LET Of(x) == Len(SelectSeq(h.obj[x].items, LAMBDA m : m = o))
               + Cardinality({ f \in {"valTable", "sigType", "multiplexer"} : h.obj[x][f] = o })
  IN MapThenSumSet(Of, DOMAIN h.obj)

(* How often a prototype is referred to by its definition and by attributes. *)
ProtoOwners(h, p) ==
  LET Of(x) == Len(SelectSeq(h.obj[x].attributes, LAMBDA a : a.proto = p))
  IN Len(SelectSeq(h.defs, LAMBDA d : d = p)) + MapThenSumSet(Of, DOMAIN h.obj)

=============================================================================
