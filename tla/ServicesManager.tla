-------------------------- MODULE ServicesManager --------------------------
(***************************************************************************)
(* The registered services of NCAS: DefaultServicesManagerImpl over        *)
(* InMemoryServiceRegistryDaoImpl, with the operations the management      *)
(* beans offer, called by concurrent threads.  Nothing here takes a lock.  *)
(* A call that fails before it has changed anything is no step: so do an   *)
(* unknown id, and an enumeration of a list that is changed meanwhile.     *)
(***************************************************************************)
EXTENDS Integers

CONSTANTS
  Threads,
  Names,      \* what tells one registered service from another
  None,
  MaxSaves    \* bound on the length of the list

Ids == 1..MaxSaves

\* RegisteredService: save is given a new object or a clone, and neither is
\* changed afterwards, so an object is its value.
Registered == [id : Ids, name : Names, enabled : BOOLEAN]
Dictionaries == [Ids -> Registered \cup {None}]

ASSUME ServicesManagerAssumption ==
  /\ MaxSaves \in Nat
  /\ None \notin Registered \cup Dictionaries

VARIABLES
  items, size,         \* the list of the DAO: its array and its size
  services,            \* the manager's dictionary
  call,                \* the local variables of each thread
  \* history
  collided,            \* two calls of save have overlapped
  kept,                \* what was registered while no reload ran, until removed
  lastEdit             \* what the last call of enable or disable asked for, per id

list == <<items, size>>
history == <<collided, kept, lastEdit>>
vars == <<list, services, call, history>>

Idle == [pc |-> "idle", edit |-> FALSE, service |-> None, size |-> 0, local |-> None,
         alone |-> FALSE]

SavePCs == {"size", "add", "try"}

ServicesTypeOK ==
  /\ items \in Dictionaries
  /\ size \in 0..MaxSaves
  /\ services \in Dictionaries
  /\ call \in [Threads ->
       [pc : {"idle", "swap"} \cup SavePCs, edit : BOOLEAN, service : Registered \cup {None},
        size : 0..MaxSaves, local : Dictionaries \cup {None}, alone : BOOLEAN]]
  /\ collided \in BOOLEAN
  /\ kept \subseteq Registered
  /\ lastEdit \in [Ids -> BOOLEAN \cup {None}]

At(r, pc) == call[r].pc = pc
Saving(r) == call[r].pc \in SavePCs
Empty == [id \in Ids |-> None]

Init ==
  /\ items = Empty
  /\ size = 0
  /\ services = Empty
  /\ call = [r \in Threads |-> Idle]
  /\ collided = FALSE
  /\ kept = {}
  /\ lastEdit = Empty

Become(r, c) == call' = [call EXCEPT ![r] = c]

\* No entry of the list is null: findHighestId and load throw on one that is.
Whole == \A i \in 1..size : items[i] # None

(***************************************************************************)
(* save                                                                    *)
(***************************************************************************)

\* Variant with a bug: the ids of deleted services are given again.
HighestIdInUse ==
  LET used == {0} \cup {id \in Ids : services[id] # None}
  IN CHOOSE n \in used : \A m \in used : m <= n

\* Variant with a bug: the search starts at the id of a service that has none.
HighestIdFromUnset ==
  LET used == {-1} \cup {items[i].id : i \in 1..size}
  IN CHOOSE n \in used : \A m \in used : m <= n

HighestId ==
  LET used == {0} \cup {items[i].id : i \in 1..size}
  IN CHOOSE n \in used : \A m \in used : m <= n

StartSave(r, service, edit) ==
  /\ Become(r, [Idle EXCEPT !.pc = "size", !.service = service, !.edit = edit,
                            !.alone = \A o \in Threads : ~At(o, "swap")])
  /\ collided' = (collided \/ \E o \in Threads : Saving(o))

\* A new service, whose id is -1 until save gives it one.
Register(r) ==
  \E name \in Names :
    /\ At(r, "idle")
    /\ Whole
    /\ HighestId < MaxSaves
    /\ StartSave(r, [id |-> HighestId + 1, name |-> name, enabled |-> TRUE], FALSE)
    /\ UNCHANGED <<list, services, kept, lastEdit>>

\* enableService and disableService change a clone and save it.
ChangeEnabledState(r) ==
  \E id \in Ids, newState \in BOOLEAN :
    /\ At(r, "idle")
    /\ services[id] # None
    /\ StartSave(r, [services[id] EXCEPT !.enabled = newState], TRUE)
    /\ UNCHANGED <<list, services, kept, lastEdit>>

\* Remove compares references, and finds neither a new object nor a clone.  Add
\* reads the size of the list and then writes behind it.
SaveSize(r) ==
  /\ At(r, "size")
  /\ size < MaxSaves
  /\ Become(r, [call[r] EXCEPT !.pc = "add", !.size = size])
  /\ UNCHANGED <<list, services, history>>

\* Another call of Add goes on beside this one, or has ended since it read the size.
Overlapped(r) ==
  \/ size # call[r].size
  \/ \E o \in Threads \ {r} : At(o, "size") \/ At(o, "add")

\* Where the array is full, Add copies it into a larger one: what another call writes
\* to the old array is then lost.
SaveAdd(r) ==
  /\ At(r, "add")
  /\ \/ items' = [items EXCEPT ![call[r].size + 1] = call[r].service]
     \/ Overlapped(r) /\ UNCHANGED items
  /\ size' = call[r].size + 1
  /\ Become(r, [call[r] EXCEPT !.pc = "try"])
  /\ UNCHANGED <<services, history>>

\* Variant with a bug: the dictionary waits for a reload.
SaveTryNothing(r) ==
  LET c == call[r] IN
  /\ At(r, "try")
  /\ Become(r, Idle)
  /\ kept' = IF ~c.edit /\ c.alone THEN kept \cup {c.service} ELSE kept
  /\ lastEdit' = IF c.edit THEN [lastEdit EXCEPT ![c.service.id] = c.service.enabled]
                           ELSE lastEdit
  /\ UNCHANGED <<list, services, collided>>

\* TryAdd leaves what is there for the id.
SaveTryAdd(r) ==
  LET c == call[r] IN
  /\ At(r, "try")
  /\ services' = IF services[c.service.id] = None
                 THEN [services EXCEPT ![c.service.id] = c.service]
                 ELSE services
  /\ Become(r, Idle)
  /\ kept' = IF ~c.edit /\ c.alone THEN kept \cup {c.service} ELSE kept
  /\ lastEdit' = IF c.edit THEN [lastEdit EXCEPT ![c.service.id] = c.service.enabled]
                           ELSE lastEdit
  /\ UNCHANGED <<list, collided>>

Save(r) ==
  Register(r) \/ ChangeEnabledState(r) \/ SaveSize(r) \/ SaveAdd(r) \/ SaveTryAdd(r)

(***************************************************************************)
(* delete and reload                                                       *)
(***************************************************************************)

\* The DAO is asked to delete a clone, which it does not find.
Delete(r) ==
  \E id \in Ids :
    /\ At(r, "idle")
    /\ services[id] # None
    /\ services' = [services EXCEPT ![id] = None]
    /\ kept' = {s \in kept : s.id # id}
    /\ UNCHANGED <<list, call, collided, lastEdit>>

\* The first entry with an id wins.
Loaded ==
  [id \in Ids |->
     LET found == {i \in 1..size : items[i].id = id}
     IN IF found = {} THEN None ELSE items[CHOOSE i \in found : \A j \in found : i <= j]]

\* load reads the list into a dictionary of its own ...
LoadRead(r) ==
  /\ At(r, "idle")
  /\ Whole
  /\ call' = [o \in Threads |->
                IF o = r THEN [Idle EXCEPT !.pc = "swap", !.local = Loaded]
                ELSE [call[o] EXCEPT !.alone = FALSE]]
  /\ UNCHANGED <<list, services, history>>

\* ... and puts it in the place of the other.
LoadSwap(r) ==
  /\ At(r, "swap")
  /\ services' = call[r].local
  /\ Become(r, Idle)
  /\ UNCHANGED <<list, history>>

Reload(r) == LoadRead(r) \/ LoadSwap(r)

Next == \E r \in Threads : Save(r) \/ Delete(r) \/ Reload(r)

Spec == Init /\ [][Next]_vars
=============================================================================
