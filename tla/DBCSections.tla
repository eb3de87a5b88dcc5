----------------------------- MODULE DBCSections -----------------------------
(***************************************************************************)
(* The sections of a DBC file: their keywords, the patterns they are        *)
(* written in, the values their initializers shift from the machine, and    *)
(* the order in which the parser takes them. A pattern is a sequence of     *)
(* words: the placeholders below, or literals.                              *)
(***************************************************************************)
EXTENDS Integers, Sequences, SequencesExt

(* An opcode: how many rows to skip when its first word does not fit (0: none),
   whether it must come ('1'), may come ('?') or repeats ('*'), and what its end
   completes: a type of section and the types of the values it shifts. *)
Op(next, required, pattern, init) == [next |-> next, required |-> required, pattern |-> pattern, init |-> init]
Row(required, pattern) == Op(0, required, pattern, << >>)
Into(type, shifts) == [type |-> type, shifts |-> shifts]

(* The initializers of the sections: what each shifts from the machine, in order. *)
LayoutShifts == <<"uint", "uint", "double", "double", "double", "double", "string">>
initVersion == Into("Version", <<"string">>)
initNewSymbol == Into("NewSymbols", <<"names">>)
initBitTiming == Into("BitTiming", <<"unless empty", "uint", "uint", "uint">>)
initNodes == Into("NetNodes", <<"names">>)
initValueTable == Into("ValTable", <<"id", "descriptions">>)
initMessage == Into("Message", <<"uint", "id", "uint", "id">>)
initSignalNormal == Into("Signal", <<"id", "uint", "uint">> \o LayoutShifts \o <<"names">>)
initSignalMultiplexer == Into("Signal", <<"id", "multiplexer", "uint", "uint">> \o LayoutShifts \o <<"names">>)
initMessageTransmitter == Into("MessageTransmitter", <<"uint", "names">>)
initEnvVar == Into("EnvVar", <<"id", "uint", "double", "double", "double", "uint", "uint", "names">>)
initEnvVarData == Into("EnvVarData", <<"id", "uint">>)
initSignalType == Into("SignalType", <<"id", "uint">> \o LayoutShifts \o <<"double", "id">>)
initSignalTypeRef == Into("SignalTypeRef", <<"uint", "id", "id">>)
initSignalGroup == Into("SignalGroup", <<"uint", "id", "uint", "names">>)
initSignalValueType == Into("SignalValueType", <<"uint", "id", "uint">>)
initSignalValue == Into("SignalValue", <<"uint", "id", "descriptions">>)
initValueEnvVar == Into("EnvVarValue", <<"id", "descriptions">>)
initExMultiplex == Into("SignalMultiplexed", <<"uint", "id", "id", "ranges">>)

(* The comments; all but that of a message clear the machine. *)
initNullComment == Into("Comment", <<"string", "clear">>)
initIgnoreComment == Into("Empty", <<"clear">>)
initNetNodeComment == Into("Comment", <<"id", "string", "clear">>)
initMessageComment == Into("Comment", <<"uint", "string">>)
initSignalComment == Into("Comment", <<"uint", "id", "string", "clear">>)
initEnvVarComment == Into("Comment", <<"id", "string", "clear">>)

(* The definitions of attributes, of the document or one kind of object; those
   of relations have a second string when they are strings. *)
initAttrDefineInt(type) == Into(type, <<"string", "int", "int">>)
initAttrDefineHex(type) == Into(type, <<"string", "int", "int">>)
initAttrDefineFloat(type) == Into(type, <<"string", "double", "double">>)
initAttrDefineString(type, isRelation) == Into(type, IF isRelation THEN <<"string", "string">> ELSE <<"string">>)
initAttrDefineEnum(type) == Into(type, <<"string", "names">>)
Defines(type, isRelation) ==
  [int |-> initAttrDefineInt(type), hex |-> initAttrDefineHex(type), float |-> initAttrDefineFloat(type),
   string |-> initAttrDefineString(type, isRelation), enum |-> initAttrDefineEnum(type)]
initAttrDefine == Defines("AttrDefinition", FALSE)
initAttrRelDefine == Defines("AttrRelDefinition", TRUE)

(* The values of attributes: after the name what tells the object, then a value of any type. *)
SetAttrValue == "value"
initAttrDefaultBase(type) == Into(type, <<"string", SetAttrValue>>)
initAttrDefault == initAttrDefaultBase("AttrDefault")
initAttrRelDefault == initAttrDefaultBase("AttrRelDefault")
initAttrNull == Into("Attr", <<"string", SetAttrValue>>)
initAttrNode == Into("Attr", <<"string", "id", SetAttrValue>>)
initAttrMessage == Into("Attr", <<"string", "uint", SetAttrValue>>)
initAttrSignal == Into("Attr", <<"string", "uint", "id", SetAttrValue>>)
initAttrEnvVar == Into("Attr", <<"string", "id", SetAttrValue>>)
initAttrRelMessage == Into("AttrRel", <<"string", "id", "uint", SetAttrValue>>)
initAttrRelSignal == Into("AttrRel", <<"string", "id", "uint", "id", SetAttrValue>>)
initAttrRelEnvVar == Into("AttrRel", <<"string", "id", "id", SetAttrValue>>)

(* The tables. *)
Layout == <<"@", "ENDIAN_", "SIGNE_", "(", "DOUBLE_", ",", "DOUBLE_", ")", "[", "DOUBLE_", "|", "DOUBLE_", "]", "STRING_">>
s_version == <<Op(0, "1", <<"STRING_">>, initVersion)>>
s_new_symbols == <<Row("1", <<":", "\n">>), Op(0, "*", <<"NOTBSKW_", "\n">>, initNewSymbol)>>
s_bit_timing == <<Row("1", <<":">>), Op(0, "?", <<"UINTEGER_", ":", "UINTEGER_", ",", "UINTEGER_">>, initBitTiming)>>
s_nodes == <<Row("1", <<":">>), Op(0, "*", <<"KEYWORD_">>, initNodes)>>
s_value_tables == <<Row("1", <<"KEYWORD_">>), Row("*", <<"SINTEGER_", "STRING_">>), Op(0, "1", <<";">>, initValueTable)>>
s_messages == <<Op(0, "1", <<"UINTEGER_", "KEYWORD_", ":", "UINTEGER_", "KEYWORD_">>, initMessage)>>
s_signal ==
  LET rest == <<":", "UINTEGER_", "|", "UINTEGER_">> \o Layout \o <<"KEYWORD_">>
      receivers == <<",", "KEYWORD_">>
  IN <<Row("1", <<"KEYWORD_">>), Op(2, "1", rest, << >>), Op(0, "*", receivers, initSignalNormal),
       Row("1", <<"MPLEX_">> \o rest), Op(0, "*", receivers, initSignalMultiplexer)>>
s_message_transmitters == <<Row("1", <<"UINTEGER_", ":", "KEYWORD_">>), Row("*", <<",", "KEYWORD_">>), Op(0, "1", <<";">>, initMessageTransmitter)>>
s_environment_variables ==
  <<Row("1", <<"KEYWORD_", ":", "EVTYPE_", "[", "DOUBLE_", "|", "DOUBLE_", "]", "STRING_", "DOUBLE_", "UINTEGER_", "ACCESS_", "KEYWORD_">>),
    Row("*", <<",", "KEYWORD_">>), Op(0, "1", <<";">>, initEnvVar)>>
s_environment_variables_data == <<Op(0, "1", <<"KEYWORD_", ":", "UINTEGER_", ";">>, initEnvVarData)>>
s_signal_types ==
  <<Op(1, "1", <<"KEYWORD_", ":", "UINTEGER_">> \o Layout \o <<"DOUBLE_", ",", "KEYWORD_", ";">>, initSignalType),
    Op(0, "1", <<"UINTEGER_", "KEYWORD_", ":", "SPACE_", "KEYWORD_", ";">>, initSignalTypeRef)>>
s_signal_type_refs == <<Op(0, "1", <<"UINTEGER_", "KEYWORD_", ":", "KEYWORD_", ";">>, initSignalTypeRef)>>

(* A comment for one kind of object starts at this row of the table; when a
   later word does not fit, the last row ignores the comment, as it ignores
   what stands between the comment and the end of the line. *)
CommentFor(row, words, init) ==
  [i \in DOMAIN words |-> Op(IF i = 1 THEN Len(words) + 2 ELSE 25 - row - i, "1", <<words[i]>>, << >>)]
  \o <<Row("?", <<";">>), Op(0, "*", <<"CMIGNORE_">>, init)>>
s_comments ==
  CommentFor(0, <<"BU_", "KEYWORD_", "STRING_">>, initNetNodeComment)
  \o CommentFor(5, <<"BO_", "UINTEGER_", "STRING_">>, initMessageComment)
  \o CommentFor(10, <<"SG_", "UINTEGER_", "KEYWORD_", "STRING_">>, initSignalComment)
  \o CommentFor(16, <<"EV_", "KEYWORD_", "STRING_">>, initEnvVarComment)
  \o CommentFor(21, <<"STRING_">>, initNullComment)
  \o <<Op(0, "*", <<"CMIGNORE_">>, initIgnoreComment)>>

(* The rows that define the attributes of one kind of object. *)
AttrRows(next, words, init, string) ==
  <<Op(next, "1", words, << >>),
    Op(1, "1", <<"INT", "SINTEGER_", "SINTEGER_", ";">>, init.int),
    Op(1, "1", <<"HEX", "SINTEGER_", "SINTEGER_", ";">>, init.hex),
    Op(1, "1", <<"FLOAT", "DOUBLE_", "DOUBLE_", ";">>, init.float),
    Op(1, "1", <<"STRING">> \o string \o <<";">>, init.string),
    Row("1", <<"ENUM", "STRING_">>), Row("*", <<",", "STRING_">>), Op(0, "1", <<";">>, init.enum)>>
s_attribute_definitions ==
  LET Of(object) == AttrRows(8, <<object, "ATTR_">>, initAttrDefine, << >>)
  IN Of("BU_") \o Of("BO_") \o Of("SG_") \o Of("EV_") \o AttrRows(0, <<"ATTR_">>, initAttrDefine, << >>)
s_attribute_relation_definitions ==
  LET Of(next, object) == AttrRows(next, <<object, "ATTR_">>, initAttrRelDefine, <<"STRING_">>)
  IN Of(8, "BU_BO_REL_") \o Of(8, "BU_SG_REL_") \o Of(0, "BU_EV_REL_")
s_attribute_defaults == <<Op(0, "1", <<"ATTR_", "VALUE_", ";">>, initAttrDefault)>>
s_attribute_relation_defaults == <<Op(0, "1", <<"ATTR_", "VALUE_", ";">>, initAttrRelDefault)>>
s_attribute_values ==
  LET For(words, init) == Op(1, "1", words \o <<"VALUE_", ";">>, init)
  IN <<Row("1", <<"ATTR_">>), For(<<"BU_", "KEYWORD_">>, initAttrNode), For(<<"BO_", "UINTEGER_">>, initAttrMessage),
       For(<<"SG_", "UINTEGER_", "KEYWORD_">>, initAttrSignal), For(<<"EV_", "KEYWORD_">>, initAttrEnvVar),
       Op(0, "1", <<"VALUE_", ";">>, initAttrNull)>>
s_attribute_relation_values ==
  LET For(next, words, init) == Op(next, "1", words \o <<"VALUE_", ";">>, init)
  IN <<Row("1", <<"ATTR_">>), For(1, <<"BU_BO_REL_", "KEYWORD_", "UINTEGER_">>, initAttrRelMessage),
       For(1, <<"BU_SG_REL_", "KEYWORD_", "SG_", "UINTEGER_", "KEYWORD_">>, initAttrRelSignal),
       For(0, <<"BU_EV_REL_", "KEYWORD_", "KEYWORD_">>, initAttrRelEnvVar)>>
s_value_descriptions ==
  <<Op(3, "1", <<"UINTEGER_", "KEYWORD_", "UINTCAST_", "STRING_">>, << >>), Row("*", <<"UINTCAST_", "STRING_">>),
    Op(0, "?", <<";">>, initSignalValue),
    Row("1", <<"KEYWORD_", "UINTCAST_", "STRING_">>), Row("*", <<"UINTCAST_", "STRING_">>), Op(0, "?", <<";">>, initValueEnvVar)>>
s_signal_groups == <<Row("1", <<"UINTEGER_", "KEYWORD_", "UINTEGER_", ":">>), Row("*", <<"KEYWORD_">>), Op(0, "1", <<";">>, initSignalGroup)>>
s_signal_extended_value_type_list == <<Op(0, "1", <<"UINTEGER_", "KEYWORD_", "EXTYPE_", ";">>, initSignalValueType)>>
extended_multiplexing ==
  <<Row("1", <<"UINTEGER_", "KEYWORD_", "KEYWORD_", "UINTEGER_", "-", "UINTEGER_">>), Row("*", <<",", "UINTEGER_", "-", "UINTEGER_">>),
    Op(0, "1", <<";">>, initExMultiplex)>>

(* The sections; comments and signals also come inside of a message. *)
s_sections ==
  [VERSION |-> s_version, NS_ |-> s_new_symbols, BS_ |-> s_bit_timing, BU_ |-> s_nodes, VAL_TABLE_ |-> s_value_tables,
   BO_ |-> s_messages, BO_TX_BU_ |-> s_message_transmitters, EV_ |-> s_environment_variables,
   ENVVAR_DATA_ |-> s_environment_variables_data, SGTYPE_ |-> s_signal_types, CM_ |-> s_comments,
   BA_DEF_ |-> s_attribute_definitions, BA_DEF_REL_ |-> s_attribute_relation_definitions, BA_DEF_DEF_ |-> s_attribute_defaults,
   BA_DEF_DEF_REL_ |-> s_attribute_relation_defaults, BA_ |-> s_attribute_values, BA_REL_ |-> s_attribute_relation_values,
   VAL_ |-> s_value_descriptions, SIG_TYPE_REF_ |-> s_signal_type_refs, SIG_GROUP_ |-> s_signal_groups,
   SIG_VALTYPE_ |-> s_signal_extended_value_type_list, SG_MUL_VAL_ |-> extended_multiplexing]
s_message_child_sections == [SG_ |-> s_signal, CM_ |-> s_comments]
OnlyOnce == {"VERSION", "NS_", "BS_", "BU_"}

(* Where the parser is: the keyword of the current section, that of the parent
   ("": none) and the keywords used of those that may come once. A section is
   a child only if its keyword was found under the parent. *)
FirstPlace == [current |-> "VERSION", parent |-> "", used |-> {}]

(* A slip the code could have made: a child section is one whatever its parent is. *)
AnyParent(place, keyword) ==
  LET known == keyword \in DOMAIN s_sections \cup DOMAIN s_message_child_sections
  IN IF ~known \/ keyword \in place.used THEN << >> ELSE <<[place EXCEPT !.current = keyword]>>

(* NQDBCParser_chooseSection and the check for repeated keywords that follows:
   the current section again, a child of the parent, or any section, in any
   order (the order of the table only decides where the search begins). The
   empty sequence: an error. *)
ChooseSection(place, keyword) ==
  LET child == place.parent = "BO_" /\ keyword \in DOMAIN s_message_child_sections
      chosen == IF keyword = place.current THEN <<place>>
                ELSE IF child THEN <<[place EXCEPT !.current = keyword]>>
                ELSE IF keyword \in DOMAIN s_sections THEN <<[place EXCEPT !.current = keyword, !.parent = ""]>>
                ELSE << >>
  IN IF chosen = << >> \/ keyword \in place.used THEN << >>
     ELSE <<[chosen[1] EXCEPT !.used = @ \cup ({keyword} \cap OnlyOnce)]>>

(* After a section the current one becomes the parent, if there is none. *)
Completed(place) == IF place.parent = "" THEN [place EXCEPT !.parent = place.current] ELSE place

Opcodes(place) == IF place.current = "SG_" THEN s_signal ELSE s_sections[place.current]
=============================================================================
