--------------------------- MODULE ModuleLoading ---------------------------
(***************************************************************************)
(* NQContext_loadModule: threads load modules by their path, the list of   *)
(* them and the reference counts under one mutex, each library under a     *)
(* mutex of its own, which is held while it is opened and initialized. The *)
(* steps are the critical sections, and what is between them. The dynamic   *)
(* loader is external. The notifiers of the context are a list of its own,  *)
(* that only one thread may use.                                           *)
(***************************************************************************)
EXTENDS Naturals, Sequences, SequencesExt, FiniteSets

CONSTANTS Loaders,    \* threads that load modules
          Paths,      \* of modules
          MaxEntries, \* how many entries are ever allocated
          MaxLoaded,  \* how many loadings succeed before no more are begun
          Notifiers   \* entries of the list of notifiers

VARIABLES modulesList, \* the entries in the list, in order
          entries,     \* every entry by number: [path, refCount, library, freed]
          loader,      \* where each thread is: [at, path, entry, new]
          loaded,      \* the entries whose loading succeeded, one for each call
          inits,       \* how often the init function of each path ran and stayed
          notifiers,   \* the notifiers, the first first
          last         \* lastNotifiere, "none" if there is none
loadVars == <<modulesList, entries, loader, loaded, inits, notifiers, last>>

Idle == [at |-> "idle", path |-> "", entry |-> 0, new |-> 0]
LoadInit ==
  /\ modulesList = << >> /\ entries = << >>
  /\ loader = [t \in Loaders |-> Idle]
  /\ loaded = << >>
  /\ inits = [p \in Paths |-> 0]
  /\ notifiers = << >> /\ last = "none"

(* findModuleEntry: 0 if there is none. *)
Found(path) ==
  LET at == SelectInSeq(modulesList, LAMBDA e : entries[e].path = path)
  IN IF at = 0 THEN 0 ELSE modulesList[at]
Held(e) == [entries EXCEPT ![e].refCount = @ + 1]

At(t, where) == loader[t].at = where
Goes(t, where) == loader' = [loader EXCEPT ![t].at = where]

-----------------------------------------------------------------------------

Load(t, path) ==
  /\ At(t, "idle") /\ Len(loaded) < MaxLoaded
  /\ LET e == Found(path)
     IN /\ entries' = IF e = 0 THEN entries ELSE Held(e)
        /\ loader' = [loader EXCEPT ![t] = [Idle EXCEPT !.at = IF e = 0 THEN "allocating" ELSE "opening", !.path = path, !.entry = e]]
  /\ UNCHANGED <<modulesList, loaded, inits, notifiers, last>>

Allocate(t) ==
  /\ At(t, "allocating") /\ Len(entries) < MaxEntries
  /\ entries' = Append(entries, [path |-> loader[t].path, refCount |-> 1, library |-> FALSE, freed |-> FALSE])
  /\ loader' = [loader EXCEPT ![t].at = "inserting", ![t].new = Len(entries) + 1]
  /\ UNCHANGED <<modulesList, loaded, inits, notifiers, last>>

AllocateFails(t) ==
  /\ At(t, "allocating")
  /\ loader' = [loader EXCEPT ![t] = Idle]
  /\ UNCHANGED <<modulesList, entries, loaded, inits, notifiers, last>>

(* Somebody else may have come first. *)
FoundAgain(path) == Found(path)
Insert(t) ==
  /\ At(t, "inserting")
  /\ LET e == FoundAgain(loader[t].path)
         new == loader[t].new
     IN IF e # 0
        THEN /\ entries' = [Held(e) EXCEPT ![new].freed = TRUE]
             /\ loader' = [loader EXCEPT ![t].at = "opening", ![t].entry = e]
             /\ UNCHANGED modulesList
        ELSE /\ modulesList' = Append(modulesList, new)
             /\ loader' = [loader EXCEPT ![t].at = "opening", ![t].entry = new]
             /\ UNCHANGED entries
  /\ UNCHANGED <<loaded, inits, notifiers, last>>

(* The entry's mutex: openModuleEntry unless it is open. *)
Lock(t) ==
  /\ At(t, "opening")
  /\ \A u \in Loaders : At(u, "locked") => loader[u].entry # loader[t].entry
  /\ Goes(t, "locked")
  /\ UNCHANGED <<modulesList, entries, loaded, inits, notifiers, last>>

NeedsToOpen(e) == ~entries[e].library

(* The library cannot be opened, has neither function, or its init fails. *)
OpenFails(t) ==
  /\ At(t, "locked") /\ NeedsToOpen(loader[t].entry)
  /\ Goes(t, "failed")
  /\ UNCHANGED <<modulesList, entries, loaded, inits, notifiers, last>>

Open(t) ==
  /\ At(t, "locked")
  /\ LET e == loader[t].entry
     IN /\ entries' = [entries EXCEPT ![e].library = TRUE]
        /\ inits' = IF NeedsToOpen(e) THEN [inits EXCEPT ![loader[t].path] = @ + 1] ELSE inits
        /\ loaded' = Append(loaded, e)
  /\ loader' = [loader EXCEPT ![t] = Idle]
  /\ UNCHANGED <<modulesList, notifiers, last>>

(* The end of a loading that failed: the last to go frees the entry. *)
Unload(t) ==
  /\ At(t, "failed")
  /\ LET e == loader[t].entry
         gone == entries[e].refCount = 1
     IN /\ entries' = [entries EXCEPT ![e].refCount = @ - 1, ![e].freed = gone]
        /\ modulesList' = IF gone THEN RemoveAt(modulesList, SelectInSeq(modulesList, LAMBDA m : m = e)) ELSE modulesList
  /\ loader' = [loader EXCEPT ![t] = Idle]
  /\ UNCHANGED <<loaded, inits, notifiers, last>>

-----------------------------------------------------------------------------

Register(n) ==
  /\ n \notin Range(notifiers)
  /\ notifiers' = Append(notifiers, n)
  /\ last' = n
  /\ UNCHANGED <<modulesList, entries, loader, loaded, inits>>

(* A notifier that is not the last only leaves the list. *)
Unregister(n) ==
  /\ n \in Range(notifiers)
  /\ LET at == SelectInSeq(notifiers, LAMBDA m : m = n)
     IN /\ notifiers' = RemoveAt(notifiers, at)
        /\ last' = IF at < Len(notifiers) THEN last ELSE IF at = 1 THEN "none" ELSE notifiers[at - 1]
  /\ UNCHANGED <<modulesList, entries, loader, loaded, inits>>

UnregisterAll ==
  /\ notifiers # << >>
  /\ notifiers' = << >> /\ last' = "none"
  /\ UNCHANGED <<modulesList, entries, loader, loaded, inits>>

LoadNext ==
  \/ \E t \in Loaders, path \in Paths : Load(t, path)
  \/ \E t \in Loaders : Allocate(t) \/ AllocateFails(t) \/ Insert(t) \/ Lock(t) \/ OpenFails(t) \/ Open(t) \/ Unload(t)
  \/ \E n \in Notifiers : Register(n) \/ Unregister(n)
  \/ UnregisterAll
LoadSpec == LoadInit /\ [][LoadNext]_loadVars

-----------------------------------------------------------------------------

(* Who holds an entry: those on their way, and the calls that succeeded. *)
Holding(t, e) == loader[t].entry = e /\ loader[t].at \in {"opening", "locked", "failed"}

(* However many load a path at once: one entry of it in the list, counted by those
   that hold it, freed when they are none, its module initialized once. *)
ModulesShared ==
  /\ \A i, j \in DOMAIN modulesList : entries[modulesList[i]].path = entries[modulesList[j]].path => i = j
  /\ \A e \in DOMAIN entries :
       /\ entries[e].freed => e \notin Range(modulesList) /\ \A t \in Loaders : ~Holding(t, e)
       /\ e \in Range(modulesList) =>
            entries[e].refCount = Cardinality({t \in Loaders : Holding(t, e)}) + Cardinality({i \in DOMAIN loaded : loaded[i] = e})
       /\ entries[e].library => e \in Range(modulesList)
  /\ \A p \in Paths : inits[p] = Cardinality({e \in DOMAIN entries : entries[e].path = p /\ entries[e].library}) /\ inits[p] <= 1

(* What NQContext_unregisterNotifier asserts of the last notifier. *)
LastNotifier == last = IF notifiers = << >> THEN "none" ELSE Last(notifiers)
=============================================================================
