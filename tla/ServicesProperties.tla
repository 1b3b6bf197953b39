------------------------- MODULE ServicesProperties -------------------------
(***************************************************************************)
(* What NCAS's services manager promises, and what its interface promises  *)
(* that it does not do.                                                    *)
(***************************************************************************)
EXTENDS ServicesManager

KeptIsFound == \A s \in kept : services[s.id] = s

\* As long as no two calls of save have overlapped, a service registered while
\* no reload ran is found, as it was registered, until it is deleted, whatever
\* is edited, deleted or reloaded.  (A reload that overlaps a registration
\* loses it from the dictionary; with the first service this leaves the
\* dictionary empty, and an empty one grants all access.)
RegisteredStays == ~collided => KeptIsFound

IdsDiffer ==
  \A i, j \in 1..size : items[i].id = items[j].id => items[i].name = items[j].name

\* As long as no two calls of save have overlapped, the ids of two registered
\* services differ, the deleted ones included.
IdsAreFresh == ~collided => IdsDiffer

\* ServicesManager.save: register a service with CAS, or update an existing entry.
\* So what enableService or disableService saved is found, at the latest after
\* a reload that nothing overlaps.
EditsShowAfterReload ==
  [][\A r \in Threads :
       (LoadSwap(r) /\ \A o \in Threads \ {r} : At(o, "idle"))
       => \A id \in Ids : services'[id] # None /\ lastEdit[id] # None
                            => services'[id].enabled = lastEdit[id]]_vars

\* The inductive invariant, in parts.  A call knows what its step needs.
CallsOK ==
  \A r \in Threads :
    /\ Saving(r) => call[r].service # None
    /\ At(r, "swap") => call[r].local # None
    /\ At(r, "add") => call[r].size < MaxSaves

\* Until two calls of save overlap, the size one has read is that of the list.
OneSave ==
  /\ \A r, o \in Threads : Saving(r) /\ Saving(o) => r = o
  /\ \A r \in Threads : At(r, "add") => call[r].size = size

\* A service has been in the list, from its registration on, and stays there.
InList(s) == \E i \in 1..size : items[i].id = s.id /\ items[i].name = s.name
FirstInList(s) == \E i \in 1..size : items[i] = s /\ \A j \in 1..(i - 1) : items[j].id # s.id

DictionaryOK(d) == \A id \in Ids : d[id] # None => d[id].id = id /\ InList(d[id])

\* What is about to be added to the list is a version of a service that is in it, or
\* has an id no service in it has.
SavesOK ==
  \A r \in Threads : Saving(r) =>
    IF call[r].edit \/ At(r, "try")
    THEN InList(call[r].service)
    ELSE \A i \in 1..size : items[i].id # call[r].service.id

\* A reload finds what was kept, and one that is going on has found it; a new service
\* that will be kept is in the place of no other, and no reload is going on.
KeptOK ==
  /\ \A s \in kept : FirstInList(s)
  /\ \A r \in Threads : At(r, "swap") => \A s \in kept : call[r].local[s.id] = s
  /\ \A r \in Threads : Saving(r) /\ call[r].alone =>
       /\ \A o \in Threads : ~At(o, "swap")
       /\ ~call[r].edit => /\ services[call[r].service.id] = None
                           /\ At(r, "try") => FirstInList(call[r].service)

Sequential ==
  /\ Whole
  /\ KeptIsFound /\ IdsDiffer
  /\ OneSave
  /\ DictionaryOK(services)
  /\ \A r \in Threads : At(r, "swap") => DictionaryOK(call[r].local)
  /\ SavesOK
  /\ KeptOK

ServicesIInv == ServicesTypeOK /\ CallsOK /\ (~collided => Sequential)
=============================================================================
