---------------------------- MODULE DBCDocWriter ----------------------------
(***************************************************************************)
(* The document writer: it turns the sections the parser emits into a       *)
(* document, in an order the parser takes them in: a section comes with the *)
(* keyword it starts with. The last message stays referenced until one not  *)
(* a signal arrives; then the multiplexer switch seen first becomes    *)
(* the multiplexer of all its signals.                                      *)
(***************************************************************************)
EXTENDS DBCDocument, DBCSections

CONSTANTS Scripts,      \* lists of sections: a file is made of the sections of one
          MaxSections,  \* and has no more than this
          Fuels         \* how many allocations succeed

VARIABLES
  script,      \* the sections this file is made of
  count,       \* the sections written
  place,       \* where the parser is in the file
  heap,
  document, lastMessage, lastMultiplexerSignal,
  writer       \* "open", "error" (write returned false), "document" (handed over), "destroyed",
               \* "crashed" (an assertion failed)

writerVars == <<script, count, place, heap, document, lastMessage, lastMultiplexerSignal, writer>>

NoNode == "Vector__XXX"

WriterInit ==
  /\ script \in Scripts
  /\ count = 0
  /\ place = FirstPlace
  /\ \E fuel \in Fuels : heap = NQDBCDocument_create2(fuel, "doc")
  /\ document = 1
  /\ lastMessage = NULL
  /\ lastMultiplexerSignal = NULL
  /\ writer = "open"

Multiplexed(h) == [NQDBCMessage_setMultiplexerSignal(h, lastMessage, lastMultiplexerSignal) EXCEPT !.ok = TRUE]

(* A slip the code could have made: the switch is not released. *)
KeepsSwitch(h) == IF lastMessage = NULL THEN h ELSE DBCObject_release(Multiplexed(h), lastMessage)

(* resetLastMessage, on the heap. *)
ResetLastMessage(h) ==
  LET Switched(g) == IF lastMultiplexerSignal = NULL THEN g ELSE DBCObject_release(Multiplexed(g), lastMultiplexerSignal)
  IN IF lastMessage = NULL THEN h ELSE DBCObject_release(Switched(h), lastMessage)

(* The result is new; the reference from the creation is dropped, the
   document's stays. *)
NQDBCDocument_findOrCreateNetNode(h, name) ==
  LET found == FindIn(h, document, "NetNode", "name", name)
  IN IF found # NULL THEN [h EXCEPT !.new = found]
     ELSE Then(NQDBCNetNode_create(h, name), LAMBDA g :
            DBCObject_release(AddChild(g, document, g.new), g.new))

FindNetNode(h, name) == FindIn(h, document, "NetNode", "name", name)

(* What a section made is kept, or released if something failed. *)
KeptIfOk(h, o) == IF h.ok THEN [h EXCEPT !.new = o] ELSE DBCObject_release(h, o)

(* Adds the object just created to the document and drops the reference of its
   creation, whatever add returned. *)
AddCreated(created) ==
  Then(created, LAMBDA g : DBCObject_release(AddChild(g, document, g.new), g.new))

OnNetNodes(h, s) ==
  FoldLeft(LAMBDA g, name : Then(g, LAMBDA x : AddCreated(NQDBCNetNode_create(x, name))), h, s.nodes)

OnValTable(h, s) == AddCreated(NQDBCValTable_create(h, s.name))

(* Leaves the new message in new. If no transmitter can be made the message is
   forgotten without being released. *)
OnMessage(h, s) ==
  Then(NQDBCMessage_create(h, s.name, s.id), LAMBDA g :
    LET message == g.new
        Sent(x) == IF s.node = NoNode THEN x ELSE DBCArray_append(x, message, x.new)
        Added(x) == Then(x, LAMBDA y : AddChild(y, document, message))
    IN Then(IF s.node = NoNode THEN g ELSE NQDBCDocument_findOrCreateNetNode(g, s.node), LAMBDA x :
         KeptIfOk(Added(Sent(x)), message)))

OnMessageTransmitter(h, s) ==
  LET message == FindIn(h, document, "Message", "val", s.id)
      Add(g, name) == IF FindNetNode(g, name) = NULL THEN Fail(g)
                      ELSE DBCArray_append(g, message, FindNetNode(g, name))
  IN IF message = NULL THEN Fail(h)
     ELSE FoldLeft(LAMBDA g, name : Then(g, LAMBDA x : Add(x, name)), h, s.nodes)

(* Leaves the new signal in new, still with the reference of its creation. If
   no receiver can be made the signal is forgotten without being released. *)
OnSignal(h, s) ==
  Then(NQDBCSignal_create(h, s.name), LAMBDA g :
    LET signal == g.new
        receivers == IF s.nodes = <<NoNode>> THEN << >> ELSE s.nodes
        Receive(st, name) ==
          IF ~st.h.ok THEN st
          ELSE LET Appended(x) == IF x.ok THEN [h |-> DBCArray_append(x, signal, x.new), leaks |-> FALSE] ELSE [h |-> x, leaks |-> TRUE]
               IN Appended(NQDBCDocument_findOrCreateNetNode(st.h, name))
        Added(x) == Then(Then(x, LAMBDA y : IF s.multiplexed THEN DBCRanges_add(y, signal) ELSE y),
                         LAMBDA y : AddChild(y, lastMessage, signal))
        Result(received) == IF received.leaks THEN received.h ELSE KeptIfOk(Added(received.h), signal)
    IN Result(FoldLeft(Receive, [h |-> g, leaks |-> FALSE], receivers)))

OnSignalGroup(h, s) ==
  LET message == FindIn(h, document, "Message", "val", s.id)
  IN IF message = NULL THEN Fail(h)
     ELSE Then(NQDBCSigGroup_create(h, s.name), LAMBDA g :
       LET group == g.new
           added == AddChild(g, message, group)
           filled == FoldLeft(LAMBDA x, name : Then(x, LAMBDA y :
                       NQDBCSigGroup_addSignal(y, group, FindIn(y, message, "Signal", "name", name))), added, s.signals)
       IN DBCObject_release(filled, group))

(* A signal's value descriptions become a nameless value table of its own. *)
OnSignalValue(h, s) ==
  LET signal == FindSignal(h, document, s.id, s.name)
  IN IF signal = NULL THEN h
     ELSE Then(NQDBCValTable_create(h, ""), LAMBDA g :
            DBCObject_release(SetReference(g, signal, "valTable", g.new), g.new))

OnSignalValueType(h, s) == IF FindSignal(h, document, s.id, s.name) = NULL THEN Fail(h) ELSE h

OnEnvVar(h, s) ==
  Then(NQDBCEnvVar_create(h, s.name), LAMBDA g :
    LET envVar == g.new
        nodes == IF s.nodes = <<NoNode>> THEN << >> ELSE s.nodes
        Access(x, name) == IF FindNetNode(x, name) = NULL THEN Fail(x)
                           ELSE DBCArray_append(x, envVar, FindNetNode(x, name))
        accessed == FoldLeft(LAMBDA x, name : Then(x, LAMBDA y : Access(y, name)), g, nodes)
    IN DBCObject_release(Then(accessed, LAMBDA x : AddChild(x, document, envVar)), envVar))

OnSignalType(h, s) ==
  LET table == FindIn(h, document, "ValTable", "name", s.table)
  IN IF table = NULL THEN Fail(h)
     ELSE Then(NQDBCSigType_create(h, s.name), LAMBDA g :
       LET added == DBCArray_append(g, document, g.new)
           set == Then(added, LAMBDA x : SetReference(x, g.new, "valTable", table))
       IN DBCObject_release(set, g.new))

OnSignalTypeRef(h, s) ==
  LET type == FindIn(h, document, "SigType", "name", s.sigType)
      signal == FindSignal(h, document, s.id, s.name)
  IN IF type = NULL \/ signal = NULL THEN Fail(h) ELSE SetReference(h, signal, "sigType", type)

OnEnvVarData(h, s) == IF FindIn(h, document, "EnvVar", "name", s.name) = NULL THEN Fail(h) ELSE h

OnEnvVarValue(h, s) ==
  LET envVar == FindIn(h, document, "EnvVar", "name", s.name)
  IN IF envVar = NULL THEN Fail(h)
     ELSE Then(NQDBCValTable_create(h, ""), LAMBDA g :
            DBCObject_release(SetReference(g, envVar, "valTable", g.new), g.new))

OnSignalMultiplexed(h, s) ==
  LET signal == FindSignal(h, document, s.id, s.name)
      switch == FindSignal(h, document, s.id, s.switch)
  IN IF signal = NULL \/ switch = NULL THEN Fail(h)
     ELSE Then(NQDBCSignal_setMultiplexerSignal(h, signal, switch), LAMBDA g :
            FoldLeft(LAMBDA x, r : Then(x, LAMBDA y : DBCRanges_add(y, signal)), g, [i \in 1 .. s.ranges |-> i]))

(* The object a comment or an attribute is for, or NULL. *)
Target(h, s) ==
  CASE s.class = "Document" -> document
    [] s.class = "Message" -> FindIn(h, document, "Message", "val", s.id)
    [] s.class = "Signal" -> FindSignal(h, document, s.id, s.target)
    [] OTHER -> FindIn(h, document, s.class, "name", s.target)

OnComment(h, s) == IF Target(h, s) = NULL THEN h ELSE DBCAlloc(h)

(* An attribute that cannot be set, because it is not defined, is of another
   type or out of range, is defined for the class and set again; a string only
   for environment variables, and elsewhere it is ignored. *)
OnAttr(h, s) ==
  LET o == Target(h, s)
      set == DBCObjectAttr_setAttr(h, o, s.name, s.kind, s.value)
      info == [type |-> s.kind, first |-> 0, second |-> 0, names |-> << >>]
  IN IF o = NULL \/ set.ok THEN IF o = NULL THEN h ELSE set
     ELSE IF s.kind = "String" /\ s.class # "EnvVar" THEN [set EXCEPT !.ok = TRUE]
     ELSE Then(NQDBCDocument_defineAttr([set EXCEPT !.ok = TRUE], s.name, s.class, info), LAMBDA g :
            DBCObjectAttr_setAttr(g, o, s.name, s.kind, s.value))

OnAttrDefault(h, s) ==
  LET p == DBCAttrDefines_find(h, s.name)
  IN IF p = NULL THEN h ELSE [NQDBCAttrProto_setDefault(h, p, s.kind, s.value) EXCEPT !.ok = TRUE]

(* Any other section. *)
OnSection(h, s) ==
  CASE s.type \in {"Version", "NewSymbols"} -> DBCAlloc(h)
    [] s.type \in {"BitTiming", "AttrRel", "AttrRelDefinition", "AttrRelDefault"} -> h
    [] s.type = "NetNodes" -> OnNetNodes(h, s)
    [] s.type = "ValTable" -> OnValTable(h, s)
    [] s.type = "Message" -> OnMessage(h, s)
    [] s.type = "MessageTransmitter" -> OnMessageTransmitter(h, s)
    [] s.type = "SignalGroup" -> OnSignalGroup(h, s)
    [] s.type = "SignalValue" -> OnSignalValue(h, s)
    [] s.type = "SignalValueType" -> OnSignalValueType(h, s)
    [] s.type = "EnvVar" -> OnEnvVar(h, s)
    [] s.type = "SignalType" -> OnSignalType(h, s)
    [] s.type = "SignalTypeRef" -> OnSignalTypeRef(h, s)
    [] s.type = "EnvVarData" -> OnEnvVarData(h, s)
    [] s.type = "EnvVarValue" -> OnEnvVarValue(h, s)
    [] s.type = "SignalMultiplexed" -> OnSignalMultiplexed(h, s)
    [] s.type = "Comment" -> OnComment(h, s)
    [] s.type = "Attr" -> OnAttr(h, s)
    [] s.type = "AttrDefinition" -> NQDBCDocument_defineAttr(h, s.name, s.class, s.info)
    [] s.type = "AttrDefault" -> OnAttrDefault(h, s)

(* onParserSection, when the parser has reached the end of s: NQ_ASSERT asks for
   the last message, to which a signal belongs. *)
Write(s) ==
  \/ /\ s.type = "Signal" /\ lastMessage = NULL
     /\ writer' = "crashed"
     /\ UNCHANGED <<heap, lastMessage, lastMultiplexerSignal>>
  \/ /\ s.type = "Signal" /\ lastMessage # NULL
     /\ \E after \in {OnSignal(heap, s)} :
          LET keeps == after.ok /\ s.switch /\ lastMultiplexerSignal = NULL
          IN /\ heap' = IF after.ok /\ ~keeps THEN DBCObject_release(after, after.new) ELSE after
             /\ writer' = IF after.ok THEN "open" ELSE "error"
             /\ lastMultiplexerSignal' = IF keeps THEN after.new ELSE lastMultiplexerSignal
             /\ UNCHANGED lastMessage
  \/ /\ s.type # "Signal"
     /\ heap' = CHOOSE after \in { OnSection(before, s) : before \in {ResetLastMessage(heap)} } : TRUE
     /\ writer' = IF heap'.ok THEN "open" ELSE "error"
     /\ lastMessage' = IF s.type = "Message" /\ heap'.ok THEN heap'.new ELSE NULL
     /\ lastMultiplexerSignal' = NULL

Section(s) ==
  /\ writer = "open" /\ count < MaxSections
  /\ \E chosen \in {ChooseSection(place, s.keyword)} : chosen # << >> /\ place' = Completed(chosen[1])
  /\ count' = count + 1
  /\ Write(s)
  /\ UNCHANGED <<script, document>>

(* NQDBCDocWriter_toDocument after the last section, when the parser had no error. *)
ToDocument ==
  /\ writer = "open"
  /\ heap' = ResetLastMessage(heap)
  /\ lastMessage' = NULL
  /\ lastMultiplexerSignal' = NULL
  /\ writer' = "document"
  /\ UNCHANGED <<script, count, place, document>>

(* The reader of the document releases it, or the writer is destroyed with it:
   neither the last message nor the last switch is released then. *)
Release ==
  /\ document # NULL /\ writer # "crashed"
  /\ heap' = DBCObject_release(heap, document)
  /\ document' = NULL
  /\ writer' = "destroyed"
  /\ UNCHANGED <<script, count, place, lastMessage, lastMultiplexerSignal>>

WriterNext == ToDocument \/ Release \/ \E i \in DOMAIN script : Section(script[i])

WriterSpec == WriterInit /\ [][WriterNext]_writerVars

-----------------------------------------------------------------------------

Roots(o) == Cardinality({ r \in {"document", "message", "switch"} :
  o = CASE r = "document" -> document [] r = "message" -> lastMessage [] r = "switch" -> lastMultiplexerSignal })

(* Reference counts: no freed object is ever used and no assertion fails; every
   object counts exactly its owners among the live objects and the writer, and
   never fewer, although an allocation that failed half way may leave more; what
   points back without owning (parent, signal group) is alive as long as the
   document is. (DBCDocument.c: DBCObject_retain/release and all setters.) *)
DocumentReferences ==
  /\ ~heap.bad
  /\ \A o \in DOMAIN heap.obj :
       /\ heap.obj[o].refs >= Owners(heap, o) + Roots(o)
       /\ heap.fuel >= 0 => heap.obj[o].refs = Owners(heap, o) + Roots(o)
       /\ heap.obj[o].sigGroup # NULL =>
            Live(heap, heap.obj[o].sigGroup) /\ Contains(heap.obj[heap.obj[o].sigGroup].items, o)
       /\ document # NULL /\ heap.obj[o].parent # NULL =>
            Live(heap, heap.obj[o].parent) /\ Contains(heap.obj[heap.obj[o].parent].items, o)
  /\ \A p \in DOMAIN heap.protos :
       /\ heap.protos[p].refs >= ProtoOwners(heap, p)
       /\ heap.fuel >= 0 => heap.protos[p].refs = ProtoOwners(heap, p)

Fits(p, value) ==
  p.info.type # "String" => value = 0 \/ Accepts(p.info, IF p.info.type = "Float" THEN "Float" ELSE "Int", value)

(* An attribute of an object was defined for the object's class, its value
   is one its prototype admits: inside the limits, or an index of the
   enumeration (index 0 also of an empty one), and no default hides it. *)
AttributesFit ==
  document # NULL => \A o \in DOMAIN heap.obj : \A i \in DOMAIN heap.obj[o].attributes :
    LET a == heap.obj[o].attributes[i]
        p == heap.protos[a.proto]
    IN /\ p.class = heap.obj[o].class
       /\ \A j \in DOMAIN heap.obj[o].attributes : j # i => heap.obj[o].attributes[j].proto # a.proto
       /\ Fits(p, a.value)
       /\ \A kind \in {"Int", "Float", "String"} :
            LET read == DBCObjectAttr_getAttr(heap, o, p.name, kind) IN read \in {<< >>, <<a.value>>}

(* What multiplexing makes a signal depend on. *)
MultiplexerOf(o) == heap.obj[o].multiplexer

Multiplexes == { o \in DOMAIN heap.obj : MultiplexerOf(o) # NULL /\ Live(heap, MultiplexerOf(o)) }

OnCycle(o) == o \in Multiplexes /\ (MultiplexerOf(o) = o \/ (MultiplexerOf(o) \in Multiplexes /\ MultiplexerOf(MultiplexerOf(o)) = o))

(* Once the document is released nothing of it is left, unless an allocation
   failed, the writer was destroyed in the middle of a message, or a signal
   is its own multiplexer: NQDBCMessage_setMultiplexerSignal gives the switch
   itself to the switch, which then keeps itself and what it refers to. *)
NothingLeft ==
  document = NULL /\ heap.fuel >= 0 /\ lastMessage = NULL /\ DOMAIN heap.obj # {} =>
    \E o \in DOMAIN heap.obj : OnCycle(o)
=============================================================================
