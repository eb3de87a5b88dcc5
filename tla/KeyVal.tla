------------------------------- MODULE KeyVal -------------------------------
(***************************************************************************)
(* A map from keys to values: a hash table whose buckets and entries are    *)
(* one list, each bucket's entries behind its head.                         *)
(***************************************************************************)
EXTENDS Integers, Sequences, FiniteSets, SequencesExt

CONSTANTS Buckets,  \* 64 in the code
          Hash,     \* of each key, a hash; two keys may have the same
          Values, MaxSets

VARIABLES list,     \* of nodes: heads and entries
          count,
          map,      \* what was set: the last value of each key, or << >>
          sets
keyVars == <<list, count, map, sets>>

Keys == DOMAIN Hash
HeadOf(bucket) == [klenz |-> 0, bucket |-> bucket]
Entry(key, val) == [klenz |-> 1, key |-> key, val |-> val]
IsEntry(node) == node.klenz # 0

KeyInit ==
  /\ list = [b \in 1 .. Buckets |-> HeadOf(b - 1)]
  /\ count = 0
  /\ map = [k \in Keys |-> << >>] /\ sets = 0

(* The entries of the bucket of a hash: where they begin, and where one of them is. *)
At(hash) == SelectInSeq(list, LAMBDA node : ~IsEntry(node) /\ node.bucket = hash % Buckets)
EndOf(hash) == CHOOSE e \in At(hash) .. Len(list) :
  (e = Len(list) \/ ~IsEntry(list[e + 1])) /\ \A i \in At(hash) + 1 .. e : IsEntry(list[i])
Where(key) ==
  LET found == { i \in At(Hash[key]) + 1 .. EndOf(Hash[key]) : Hash[list[i].key] = Hash[key] /\ list[i].key = key }
  IN IF found = {} THEN 0 ELSE CHOOSE i \in found : \A j \in found : i <= j

NQKeyVal_get(key) == IF Where(key) = 0 THEN << >> ELSE <<list[Where(key)].val>>

(* The new entry comes first in its bucket; an old one of the key goes. *)
NQKeyVal_set(key, val) ==
  LET old == Where(key)
      rest == IF old = 0 THEN list ELSE RemoveAt(list, old)
  IN /\ sets < MaxSets /\ sets' = sets + 1
     /\ list' = InsertAt(rest, At(Hash[key]) + 1, Entry(key, val))
     /\ count' = IF old = 0 THEN count + 1 ELSE count
     /\ map' = [map EXCEPT ![key] = <<val>>]

(* The walk of the iterator, and what NQKeyVal_destroy frees before count is 0. *)
Walk == SelectSeq(list, IsEntry)

KeyNext == \E key \in Keys, val \in Values : NQKeyVal_set(key, val)
KeySpec == KeyInit /\ [][KeyNext]_keyVars

-----------------------------------------------------------------------------

(* Each key has the value that was set last, also where keys share a bucket or a
   hash; the walk meets each once, and count says how many. (NQKeyVal_set,
   NQKeyVal_get, NQKeyValIter_next.) *)
KeyValIsMap ==
  /\ \A key \in Keys : NQKeyVal_get(key) = map[key]
  /\ \A i, j \in DOMAIN Walk : Walk[i].key = Walk[j].key => i = j
  /\ count = Len(Walk) /\ count = Cardinality({ key \in Keys : map[key] # << >> })

-----------------------------------------------------------------------------
(***************************************************************************)
(* libnetq/PrimitiveStorage.c, named values in a chain of storages each of     *)
(* which falls back on its parent, and libnetq/PrimitiveType.c, the words for  *)
(* types and switches.                                                       *)
(***************************************************************************)

(* A chain is the sequence of its storages, the youngest first; a storage the sequence
   of its values. *)
NQPrimitiveStorage_init(parents) == << << >> >> \o parents

NQPrimitiveStorage_addNewValue(chain, name, type, value, hasMemory) ==
  IF hasMemory THEN [chain EXCEPT ![1] = Append(@, [name |-> name, type |-> type, value |-> value])] ELSE chain
NQPrimitiveStorage_removeNewValue(storage) == Front(storage)
NQPrimitiveStorage_finalize(chain) ==
  [chain EXCEPT ![1] = FoldLeft(LAMBDA left, v : NQPrimitiveStorage_removeNewValue(left), @, @)]

NQPrimitiveStorage_setBool(chain, name, value, hasMemory) ==
  NQPrimitiveStorage_addNewValue(chain, name, "bool", value, hasMemory)
NQPrimitiveStorage_setString(chain, name, value, hasMemory) ==
  NQPrimitiveStorage_addNewValue(chain, name, "string", value, hasMemory)
(* The number is stored as a bool, in the lowest of its four bytes. *)
NQPrimitiveStorage_setUint32(chain, name, value, hasMemory) ==
  NQPrimitiveStorage_addNewValue(chain, name, "uint32", IF value = 0 THEN 0 ELSE 1, hasMemory)

NQPrimitiveStorage_findValue(storage, name) == { i \in DOMAIN storage : storage[i].name = name }
First(indices) == CHOOSE i \in indices : \A j \in indices : i <= j

(* The value in the nearest storage with the name, {} when there is none of the type. *)
Find(chain, name, type) ==
  LET with == { k \in DOMAIN chain : NQPrimitiveStorage_findValue(chain[k], name) # {} }
  IN IF with = {} THEN {}
     ELSE LET storage == chain[First(with)]
              found == storage[First(NQPrimitiveStorage_findValue(storage, name))]
          IN IF found.type = type THEN {found.value} ELSE {}
NQPrimitiveStorage_getBool(chain, name) == Find(chain, name, "bool")
NQPrimitiveStorage_getString(chain, name) == Find(chain, name, "string")
(* The upper bytes were never written: any of rest. *)
NQPrimitiveStorage_getUint32(chain, name, rest) == { low + 256 * rest : low \in Find(chain, name, "uint32") }

(* PrimitiveType.c; words are compared in any case. *)
CaseOf == [word \in {"false", "False", "off", "OFF", "0", "true", "TRUE", "on", "On", "1", "", "yes"} |->
  CASE word = "False" -> "false" [] word = "OFF" -> "off" [] word = "TRUE" -> "true" [] word = "On" -> "on" [] OTHER -> word]
NQStrIsFalse(s) == CaseOf[s] = "false"
NQStrIsTrue(s) == CaseOf[s] = "true"
NQStrIsOff(s) == CaseOf[s] = "off"
NQStrIsOn(s) == CaseOf[s] = "on"
NQStrIsEnabled(s) == NQStrIsTrue(s) \/ NQStrIsOn(s) \/ CaseOf[s] = "1"
NQStrIsDisabled(s) == NQStrIsFalse(s) \/ NQStrIsOff(s) \/ CaseOf[s] = "0"

NQPrimitiveType ==
  <<"bool", "char", "int8", "int16", "int32", "int64", "uint8", "uint16", "uint32", "uint64", "float", "double", "string">>
NQPrimitiveTypeToCString(type) == IF type \in DOMAIN NQPrimitiveType THEN {NQPrimitiveType[type]} ELSE {}
NQParsePrimitiveType(text) == { type \in DOMAIN NQPrimitiveType : NQPrimitiveType[type] = text }

-----------------------------------------------------------------------------

Set(chain, call) ==
  CASE call.type = "bool" -> NQPrimitiveStorage_setBool(chain, call.name, call.value, call.hasMemory)
    [] call.type = "string" -> NQPrimitiveStorage_setString(chain, call.name, call.value, call.hasMemory)
    [] call.type = "uint32" -> NQPrimitiveStorage_setUint32(chain, call.name, call.value, call.hasMemory)
ChainOf(callsOfEach) ==
  FoldRight(LAMBDA calls, chain : FoldLeft(Set, NQPrimitiveStorage_init(chain), calls), callsOfEach, << >>)

(* A name has the value it was given first in the nearest storage of the chain where it
   was given one, of a number whether it is zero, and none of another type; a storage
   finalized leaves its parents' values. (The getters and setters of
   PrimitiveStorage.c.) *)
ValueIsFound(callsOfEach, name, rest) ==
  LET chain == ChainOf(callsOfEach)
      given == SelectSeq(FlattenSeq(callsOfEach), LAMBDA c : c.name = name /\ c.hasMemory)
      Is(type, got) == IF given # << >> /\ given[1].type = type THEN got # {} ELSE got = {}
      parents == NQPrimitiveStorage_finalize(chain)
  IN /\ Is("bool", NQPrimitiveStorage_getBool(chain, name))
     /\ Is("string", NQPrimitiveStorage_getString(chain, name))
     /\ Is("uint32", NQPrimitiveStorage_getUint32(chain, name, rest))
     /\ \A value \in NQPrimitiveStorage_getBool(chain, name) \cup NQPrimitiveStorage_getString(chain, name) :
          value = given[1].value
     /\ \A value \in NQPrimitiveStorage_getUint32(chain, name, rest) : value % 256 = 0 <=> given[1].value = 0
     /\ parents = << << >> >> \o Tail(chain)

(* No word both enables and disables, and a type is parsed from its own word only. *)
WordsAgree(word, type) ==
  /\ ~(NQStrIsEnabled(word) /\ NQStrIsDisabled(word))
  /\ \A text \in NQPrimitiveTypeToCString(type) : NQParsePrimitiveType(text) = {type}
=============================================================================
