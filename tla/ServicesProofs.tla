--------------------------- MODULE ServicesProofs ---------------------------
(***************************************************************************)
(* Proofs about the services manager, for every number of threads, every   *)
(* set of services and every bound on the list.                            *)
(***************************************************************************)
EXTENDS ServicesProperties, WellFoundedInduction, TLAPS

USE ServicesManagerAssumption

(***************************************************************************)
(* The highest id, and the first entry with an id                          *)
(***************************************************************************)

LEMMA LeastExists ==
  ASSUME NEW T \in SUBSET Nat, T # {}
  PROVE  \E x \in T : \A y \in T : x <= y
<1>1. PICK x \in T : \A y \in T : ~(<<y, x>> \in OpToRel(<, Nat))
  BY NatLessThanWellFounded, WFMin
<1>2. \A y \in T : ~(y < x)
  BY <1>1 DEF OpToRel
<1> QED
  BY <1>2

LEMMA GreatestExists ==
  ASSUME NEW m \in Nat, NEW T \in SUBSET (0..m), T # {}
  PROVE  \E x \in T : \A y \in T : y <= x
<1> DEFINE D == {k \in Nat : \E n \in T : k + n = m}
<1>1. \A n \in T : n \in Nat /\ m - n \in Nat /\ (m - n) + n = m
  OBVIOUS
<1>2. \A n \in T : m - n \in D
  BY <1>1
<1>3. D # {} /\ D \in SUBSET Nat
  BY <1>2
<1>4. PICK k \in D : \A l \in D : k <= l
  <2> HIDE DEF D
  <2> QED
    BY <1>3, LeastExists
<1>5. PICK n \in T : k + n = m
  BY <1>4
<1>6. \A y \in T : y <= n
  <2> SUFFICES ASSUME NEW y \in T PROVE y <= n
    OBVIOUS
  <2>1. k <= m - y
    BY <1>2, <1>4
  <2> QED
    BY <1>1, <1>4, <1>5, <2>1
<1> QED
  BY <1>6

\* The local variables of a call.
Sizes == 0..MaxSaves
Calls ==
  [pc : {"idle", "swap"} \cup SavePCs, edit : BOOLEAN, service : Registered \cup {None},
   size : Sizes, local : Dictionaries \cup {None}, alone : BOOLEAN]

LEMMA TypeFacts ==
  ASSUME ServicesTypeOK
  PROVE  /\ size \in Nat /\ size <= MaxSaves
         /\ \A i \in 1..size : i \in Ids /\ (Whole => items[i] \in Registered)
         /\ \A s \in Registered : s.id \in Nat /\ s.id \in Ids /\ s.id <= MaxSaves
         /\ call \in [Threads -> Calls]
<1>1. size \in Nat /\ size <= MaxSaves /\ \A i \in 1..size : i \in Ids
  BY DEF ServicesTypeOK, Ids
<1>2. Whole => \A i \in 1..size : items[i] \in Registered
  BY <1>1 DEF ServicesTypeOK, Dictionaries, Whole
<1>3. \A s \in Registered : s.id \in Ids
  BY DEF Registered
<1>4. call \in [Threads -> Calls]
  BY DEF ServicesTypeOK, Calls, Sizes
<1> QED
  BY <1>1, <1>2, <1>3, <1>4 DEF Ids

\* The id a new service gets is that of no service in the list.
LEMMA HighestIdFacts ==
  ASSUME ServicesTypeOK, Whole
  PROVE  HighestId \in Nat /\ \A i \in 1..size : items[i].id <= HighestId
<1> DEFINE used == {0} \cup {items[i].id : i \in 1..size}
<1>1. used \in SUBSET (0..MaxSaves) /\ used # {}
  BY TypeFacts
<1>2. \E n \in used : \A m \in used : m <= n
  <2> HIDE DEF used
  <2> QED
    BY <1>1, GreatestExists
<1>3. HighestId = CHOOSE n \in used : \A m \in used : m <= n
  BY DEF HighestId
<1>4. HighestId \in used /\ \A m \in used : m <= HighestId
  <2> HIDE DEF used
  <2> QED
    BY <1>2, <1>3
<1> QED
  BY <1>1, <1>4

\* What a reload finds: entries of the list, the first that has the id.
LEMMA LoadedFacts ==
  ASSUME ServicesTypeOK, Whole
  PROVE  /\ Loaded \in Dictionaries
         /\ \A id \in Ids : Loaded[id] # None
              => Loaded[id].id = id /\ InList(Loaded[id])
         /\ \A s \in Registered : FirstInList(s) => Loaded[s.id] = s
<1> DEFINE found(id) == {i \in 1..size : items[i].id = id}
           first(id) == CHOOSE i \in found(id) : \A j \in found(id) : i <= j
<1>1. \A id \in Ids : Loaded[id] = IF found(id) = {} THEN None ELSE items[first(id)]
  BY DEF Loaded
<1>2. ASSUME NEW id \in Ids, found(id) # {}
      PROVE  first(id) \in found(id) /\ \A j \in found(id) : first(id) <= j
  <2>1. found(id) \in SUBSET Nat
    OBVIOUS
  <2>2. \E i \in found(id) : \A j \in found(id) : i <= j
    <3> HIDE DEF found
    <3> QED
      BY <1>2, <2>1, LeastExists
  <2> HIDE DEF found
  <2> QED
    BY <2>2
<1> HIDE DEF first
<1>3. \A id \in Ids : found(id) # {}
        => first(id) \in 1..size /\ items[first(id)] \in Registered /\ items[first(id)].id = id
  BY <1>2, TypeFacts
<1>4. Loaded \in Dictionaries
  <2>1. \A id \in Ids : Loaded[id] \in Registered \cup {None}
    BY <1>1, <1>3
  <2>2. Loaded = [id \in Ids |-> Loaded[id]]
    BY DEF Loaded
  <2> QED
    BY <2>1, <2>2 DEF Dictionaries
<1>5. ASSUME NEW id \in Ids, Loaded[id] # None
      PROVE  Loaded[id].id = id /\ InList(Loaded[id])
  BY <1>1, <1>3, <1>5 DEF InList
<1>6. ASSUME NEW s \in Registered, FirstInList(s) PROVE Loaded[s.id] = s
  <2>1. PICK i \in 1..size : items[i] = s /\ \A j \in 1..(i - 1) : items[j].id # s.id
    BY <1>6 DEF FirstInList
  <2>2. s.id \in Ids /\ size \in Nat
    BY TypeFacts
  <2>3. i \in found(s.id)
    BY <2>1
  <2>4. first(s.id) \in 1..size /\ items[first(s.id)].id = s.id /\ first(s.id) <= i
    BY <1>2, <2>2, <2>3
  <2>5. first(s.id) \notin 1..(i - 1)
    BY <2>1, <2>4
  <2>6. first(s.id) = i
    BY <2>2, <2>4, <2>5
  <2> QED
    BY <1>1, <2>1, <2>2, <2>3, <2>6
<1> QED
  BY <1>4, <1>5, <1>6

(***************************************************************************)
(* Calls                                                                   *)
(***************************************************************************)

LEMMA IdleCall == Idle \in Calls /\ Idle.pc = "idle"
<1>1. 0 \in Sizes
  BY DEF Sizes
<1> QED
  BY <1>1 DEF Idle, Calls

LEMMA BecomeFacts ==
  ASSUME ServicesTypeOK, NEW r \in Threads, NEW c \in Calls, Become(r, c)
  PROVE  /\ call' \in [Threads -> Calls]
         /\ call'[r] = c /\ \A o \in Threads \ {r} : call'[o] = call[o]
BY TypeFacts DEF Become

\* A step of one call leaves the local variables of the others alone.
LEMMA CallsKept ==
  ASSUME CallsOK, NEW r \in Threads, \A o \in Threads \ {r} : call'[o] = call[o],
         Saving(r)' => call'[r].service # None,
         At(r, "swap")' => call'[r].local # None,
         At(r, "add")' => call'[r].size < MaxSaves
  PROVE  CallsOK'
<1> SUFFICES ASSUME NEW o \in Threads
             PROVE  /\ Saving(o)' => call'[o].service # None
                    /\ At(o, "swap")' => call'[o].local # None
                    /\ At(o, "add")' => call'[o].size < MaxSaves
  BY DEF CallsOK
<1>1. CASE o = r
  BY <1>1
<1>2. CASE o # r
  BY <1>2 DEF CallsOK, Saving, At
<1> QED
  BY <1>1, <1>2

(***************************************************************************)
(* The invariant                                                           *)
(***************************************************************************)

LEMMA ServicesInitInv == Init => ServicesIInv
<1> SUFFICES ASSUME Init PROVE ServicesIInv
  OBVIOUS
<1>1. \A r \in Threads : call[r] = Idle
  BY DEF Init
<1>2. \A r \in Threads : ~Saving(r) /\ ~At(r, "swap") /\ ~At(r, "add")
  BY <1>1, IdleCall DEF Saving, SavePCs, At
<1>3. Empty \in Dictionaries /\ Empty \in [Ids -> BOOLEAN \cup {None}]
  BY DEF Empty, Dictionaries
<1>4. ServicesTypeOK
  <2>3. call \in [Threads -> Calls]
    BY IdleCall DEF Init
  <2>4. size \in 0..MaxSaves
    BY DEF Init
  <2> QED
    BY <1>3, <2>3, <2>4 DEF ServicesTypeOK, Init, Calls, Sizes
<1>5. CallsOK
  BY <1>2 DEF CallsOK
<1>6. Sequential
  <2>1. \A id \in Ids : services[id] = None
    BY DEF Init, Empty
  <2>2. size = 0 /\ 1..size = {} /\ kept = {}
    BY DEF Init
  <2> QED
    BY <1>2, <2>1, <2>2 DEF Sequential, Whole, KeptIsFound, IdsDiffer, OneSave, DictionaryOK,
                              SavesOK, KeptOK
<1> QED
  BY <1>4, <1>5, <1>6 DEF ServicesIInv

\* The parts of a type-correct state, one by one.
LEMMA TypeStep ==
  ASSUME call' \in [Threads -> Calls], items' \in Dictionaries, size' \in 0..MaxSaves,
         services' \in Dictionaries, collided' \in BOOLEAN, kept' \subseteq Registered,
         lastEdit' \in [Ids -> BOOLEAN \cup {None}]
  PROVE  ServicesTypeOK'
BY DEF ServicesTypeOK, Calls, Sizes

(***************************************************************************)
(* save                                                                    *)
(***************************************************************************)

LEMMA StartSaveInv ==
  ASSUME ServicesIInv, NEW r \in Threads, NEW service \in Registered, NEW edit \in BOOLEAN,
         At(r, "idle"), StartSave(r, service, edit),
         UNCHANGED <<list, services, kept, lastEdit>>,
         ~collided => IF edit THEN InList(service)
                      ELSE /\ \A i \in 1..size : items[i].id # service.id
                           /\ services[service.id] = None
  PROVE  ServicesIInv'
<1>0. PICK alone \in BOOLEAN : alone = \A o \in Threads : ~At(o, "swap")
  BY Zenon
<1>1. ServicesTypeOK /\ CallsOK /\ (~collided => Sequential)
  BY DEF ServicesIInv
<1>2. PICK c : /\ c = [Idle EXCEPT !.pc = "size", !.service = service, !.edit = edit,
                                   !.alone = alone]
               /\ Become(r, c)
               /\ collided' = (collided \/ \E o \in Threads : Saving(o))
  BY <1>0, Zenon DEF StartSave
<1>3. c \in Calls /\ c.pc = "size" /\ c.service = service /\ c.edit = edit /\ c.alone = alone
  <2>1. c = [pc |-> "size", edit |-> edit, service |-> service, size |-> 0, local |-> None,
             alone |-> alone]
    BY <1>2 DEF Idle
  <2>2. 0 \in Sizes
    BY DEF Sizes
  <2> QED
    BY <2>1, <2>2 DEF Calls, SavePCs
<1>4. /\ call' \in [Threads -> Calls]
      /\ call'[r] = c /\ \A o \in Threads \ {r} : call'[o] = call[o]
  BY <1>1, <1>3, <1>2, BecomeFacts
<1>5. UNCHANGED <<items, size, services, kept, lastEdit>>
  BY DEF list
<1>6. ServicesTypeOK'
  BY <1>1, <1>2, <1>4, <1>5, TypeStep DEF ServicesTypeOK
<1>7. Saving(r)' /\ ~At(r, "swap")' /\ ~At(r, "add")' /\ ~At(r, "try")'
  BY <1>3, <1>4 DEF Saving, At, SavePCs
<1>8. CallsOK'
  <2>1. service # None
    OBVIOUS
  <2> QED
    BY <1>1, <1>3, <1>4, <1>5, <1>7, <2>1, CallsKept
<1>9. ASSUME ~collided' PROVE Sequential'
  <2>1. ~collided /\ Sequential /\ \A o \in Threads : ~Saving(o)
    BY <1>1, <1>2, <1>9
  <2>2. \A o \in Threads \ {r} : /\ Saving(o)' <=> Saving(o)
                                 /\ At(o, "swap")' <=> At(o, "swap")
                                 /\ At(o, "add")' <=> At(o, "add")
    BY <1>4 DEF Saving, At
  <2>3. \A s : (InList(s)' <=> InList(s)) /\ (FirstInList(s)' <=> FirstInList(s))
    BY <1>5 DEF InList, FirstInList
  <2>4. OneSave'
    BY <1>7, <2>1, <2>2 DEF OneSave, Saving, SavePCs, At
  <2>5. DictionaryOK(services)'
    BY <1>5, <2>1, <2>3 DEF DictionaryOK, Sequential
  <2>6. \A o \in Threads : At(o, "swap")' => DictionaryOK(call[o].local)'
    BY <1>4, <1>7, <2>1, <2>2, <2>3 DEF DictionaryOK, Sequential
  <2>7. SavesOK'
    BY <1>3, <1>4, <1>5, <1>7, <2>1, <2>2, <2>3 DEF SavesOK
  <2>8. KeptOK'
    <3>1. \A s \in kept' : FirstInList(s)'
      BY <1>5, <2>1, <2>3 DEF Sequential, KeptOK
    <3>2. \A o \in Threads : At(o, "swap")' => \A s \in kept' : call'[o].local[s.id] = s
      BY <1>4, <1>5, <1>7, <2>1, <2>2 DEF Sequential, KeptOK
    <3>3. alone => \A o \in Threads : ~At(o, "swap")'
      BY <1>0, <1>7, <2>2
    <3> QED
      BY <1>3, <1>4, <1>5, <1>7, <2>1, <2>2, <3>1, <3>2, <3>3 DEF KeptOK
  <2> QED
    BY <1>5, <2>1, <2>4, <2>5, <2>6, <2>7, <2>8
    DEF Sequential, Whole, KeptIsFound, IdsDiffer
<1> QED
  BY <1>6, <1>8, <1>9 DEF ServicesIInv

LEMMA RegisterInv == ASSUME ServicesIInv, NEW r \in Threads, Register(r) PROVE ServicesIInv'
<1>1. PICK name \in Names :
        /\ At(r, "idle")
        /\ Whole
        /\ HighestId < MaxSaves
        /\ StartSave(r, [id |-> HighestId + 1, name |-> name, enabled |-> TRUE], FALSE)
        /\ UNCHANGED <<list, services, kept, lastEdit>>
  BY DEF Register
<1>2. ServicesTypeOK /\ (~collided => Sequential)
  BY DEF ServicesIInv
<1>3. /\ HighestId \in Nat /\ HighestId + 1 \in Ids
      /\ \A i \in 1..size : items[i].id <= HighestId /\ items[i].id \in Nat
  BY <1>1, <1>2, HighestIdFacts, TypeFacts DEF Ids
<1> DEFINE service == [id |-> HighestId + 1, name |-> name, enabled |-> TRUE]
<1>4. service \in Registered /\ service.id = HighestId + 1
  BY <1>3 DEF Registered
<1>5. StartSave(r, service, FALSE)
  BY <1>1
<1> HIDE DEF service
<1>6. \A i \in 1..size : items[i].id # service.id
  BY <1>3, <1>4
<1>7. ~collided => services[service.id] = None
  BY <1>2, <1>3, <1>4, <1>6 DEF Sequential, DictionaryOK, InList
<1> QED
  BY <1>1, <1>4, <1>5, <1>6, <1>7, StartSaveInv

LEMMA ChangeEnabledStateInv ==
  ASSUME ServicesIInv, NEW r \in Threads, ChangeEnabledState(r)
  PROVE  ServicesIInv'
<1>1. PICK id \in Ids, newState \in BOOLEAN :
        /\ At(r, "idle")
        /\ services[id] # None
        /\ StartSave(r, [services[id] EXCEPT !.enabled = newState], TRUE)
        /\ UNCHANGED <<list, services, kept, lastEdit>>
  BY DEF ChangeEnabledState
<1>2. ServicesTypeOK /\ (~collided => Sequential)
  BY DEF ServicesIInv
<1>3. services[id] \in Registered
  BY <1>1, <1>2 DEF ServicesTypeOK, Dictionaries
<1> DEFINE service == [services[id] EXCEPT !.enabled = newState]
<1>4. service \in Registered /\ service.id = services[id].id /\ service.name = services[id].name
  BY <1>3 DEF Registered
<1>5. StartSave(r, service, TRUE)
  BY <1>1
<1> HIDE DEF service
<1>6. ~collided => InList(service)
  BY <1>1, <1>2, <1>4 DEF Sequential, DictionaryOK, InList
<1> QED
  BY <1>1, <1>4, <1>5, <1>6, StartSaveInv

LEMMA SaveSizeInv == ASSUME ServicesIInv, NEW r \in Threads, SaveSize(r) PROVE ServicesIInv'
<1>1. ServicesTypeOK /\ CallsOK /\ (~collided => Sequential)
  BY DEF ServicesIInv
<1>2. PICK c : c = [call[r] EXCEPT !.pc = "add", !.size = size] /\ Become(r, c)
  BY DEF SaveSize
<1>3. call[r] \in Calls /\ size \in Sizes /\ size < MaxSaves /\ At(r, "size")
  BY <1>1, TypeFacts DEF SaveSize, Sizes
<1>4. /\ c \in Calls /\ c.pc = "add" /\ c.size = size
      /\ c.service = call[r].service /\ c.edit = call[r].edit /\ c.alone = call[r].alone
  BY <1>2, <1>3 DEF Calls, SavePCs
<1>5. /\ call' \in [Threads -> Calls]
      /\ call'[r] = c /\ \A o \in Threads \ {r} : call'[o] = call[o]
  BY <1>1, <1>2, <1>4, BecomeFacts
<1>6. UNCHANGED <<items, size, services, collided, kept, lastEdit>>
  BY DEF SaveSize, list, history
<1>7. ServicesTypeOK'
  BY <1>1, <1>5, <1>6, TypeStep DEF ServicesTypeOK
<1>8. Saving(r) /\ Saving(r)' /\ ~At(r, "swap")' /\ At(r, "add")' /\ ~At(r, "try")' /\ ~At(r, "try")
  BY <1>3, <1>4, <1>5 DEF Saving, At, SavePCs
<1>9. CallsOK'
  <2>1. call[r].service # None
    BY <1>1, <1>8 DEF CallsOK
  <2> QED
    BY <1>1, <1>3, <1>4, <1>5, <1>6, <1>8, <2>1, CallsKept
<1>10. ASSUME ~collided' PROVE Sequential'
  <2>1. ~collided /\ Sequential
    BY <1>1, <1>6, <1>10
  <2>2. \A o \in Threads : /\ Saving(o)' <=> Saving(o)
                           /\ At(o, "swap")' <=> At(o, "swap")
                           /\ At(o, "try")' <=> At(o, "try")
                           /\ call'[o].alone = call[o].alone /\ call'[o].edit = call[o].edit
                           /\ call'[o].service = call[o].service
    BY <1>3, <1>4, <1>5, <1>8 DEF Saving, At
  <2>3. \A s : (InList(s)' <=> InList(s)) /\ (FirstInList(s)' <=> FirstInList(s))
    BY <1>6 DEF InList, FirstInList
  <2>4. OneSave'
    BY <1>4, <1>5, <1>6, <2>1, <2>2 DEF OneSave, Sequential, At
  <2>5. DictionaryOK(services)'
    BY <1>6, <2>1, <2>3 DEF DictionaryOK, Sequential
  <2>6. \A o \in Threads : At(o, "swap") => o # r /\ call'[o] = call[o]
    BY <1>3, <1>5 DEF At
  <2>7. \A o \in Threads : At(o, "swap")' => DictionaryOK(call[o].local)'
    BY <2>1, <2>2, <2>3, <2>6 DEF DictionaryOK, Sequential
  <2>8. SavesOK'
    BY <1>6, <2>1, <2>2, <2>3 DEF SavesOK, Sequential
  <2>9. KeptOK'
    BY <1>6, <2>1, <2>2, <2>3, <2>6 DEF KeptOK, Sequential
  <2> QED
    BY <1>6, <2>1, <2>4, <2>5, <2>7, <2>8, <2>9 DEF Sequential, Whole, KeptIsFound, IdsDiffer
<1> QED
  BY <1>7, <1>9, <1>10 DEF ServicesIInv

LEMMA SaveAddInv == ASSUME ServicesIInv, NEW r \in Threads, SaveAdd(r) PROVE ServicesIInv'
<1> DEFINE service == call[r].service
           n == call[r].size + 1
<1>1. ServicesTypeOK /\ CallsOK /\ (~collided => Sequential)
  BY DEF ServicesIInv
<1>2. PICK c : c = [call[r] EXCEPT !.pc = "try"] /\ Become(r, c)
  BY DEF SaveAdd
<1>3. call[r] \in Calls /\ At(r, "add") /\ Saving(r)
  BY <1>1, TypeFacts DEF SaveAdd, Saving, At, SavePCs
<1>4. /\ c \in Calls /\ c.pc = "try"
      /\ c.service = service /\ c.edit = call[r].edit /\ c.alone = call[r].alone
  BY <1>2, <1>3 DEF Calls, SavePCs
<1>5. /\ call' \in [Threads -> Calls]
      /\ call'[r] = c /\ \A o \in Threads \ {r} : call'[o] = call[o]
  BY <1>1, <1>2, <1>4, BecomeFacts
<1>6. UNCHANGED <<services, collided, kept, lastEdit>>
  BY DEF SaveAdd, history
<1>7. service \in Registered /\ n \in Ids /\ n \in Nat \ {0}
  BY <1>1, <1>3 DEF CallsOK, Calls, Sizes, Ids
<1>8. /\ items' = [items EXCEPT ![n] = service] \/ (Overlapped(r) /\ items' = items)
      /\ size' = n
  BY DEF SaveAdd
<1>9. /\ service = call[r].service /\ n = call[r].size + 1 /\ service' = service
      /\ call'[r].service = service
  BY <1>4, <1>5
<1> HIDE DEF service, n
<1>10. /\ items' \in Dictionaries
       /\ ~Overlapped(r) => /\ items'[n] = service
                            /\ \A i \in Ids \ {n} : items'[i] = items[i]
  BY <1>1, <1>7, <1>8 DEF ServicesTypeOK, Dictionaries
<1>11. ServicesTypeOK'
  <2>1. size' \in 0..MaxSaves
    BY <1>7, <1>8 DEF Ids
  <2> QED
    BY <1>1, <1>5, <1>6, <1>10, <2>1, TypeStep DEF ServicesTypeOK
<1>12. Saving(r)' /\ ~At(r, "swap")' /\ ~At(r, "add")' /\ At(r, "try")'
  BY <1>4, <1>5 DEF Saving, At, SavePCs
<1>13. CallsOK'
  <2>1. service # None
    BY <1>7
  <2> QED
    BY <1>1, <1>4, <1>5, <1>12, <2>1, CallsKept
<1>14. ASSUME ~collided' PROVE Sequential'
  <2>1. ~collided /\ Sequential /\ OneSave
    BY <1>1, <1>6, <1>14 DEF Sequential
  <2>2. call[r].size = size /\ size \in Nat /\ n = size + 1 /\ \A i \in 1..size : i \in Ids
    BY <1>1, <1>3, <1>9, <2>1, TypeFacts DEF OneSave
  <2>3. \A o \in Threads \ {r} : /\ ~Saving(o) /\ ~Saving(o)'
                                 /\ At(o, "swap")' <=> At(o, "swap")
                                 /\ ~At(o, "add")'
    BY <1>3, <1>5, <2>1 DEF OneSave, Saving, At, SavePCs
  <2>4. ~Overlapped(r)
    BY <2>2, <2>3 DEF Overlapped, Saving, SavePCs, At
  <2>5. \A i \in 1..size : i \in 1..size' /\ i # n /\ items'[i] = items[i]
    BY <1>8, <1>10, <2>2, <2>4
  <2>6. items'[n] = service
    BY <1>10, <2>4
  <2>7. n \in 1..size' /\ \A i \in 1..size' : i = n \/ i \in 1..size
    BY <1>8, <2>2
  <2>8. Whole'
    <3>1. service # None /\ \A i \in 1..size : items[i] # None
      BY <1>7, <2>1 DEF Sequential, Whole
    <3> QED
      BY <1>8, <2>2, <2>5, <2>6, <3>1 DEF Whole
  <2>9. ASSUME NEW s PROVE /\ InList(s) => InList(s)'
                           /\ FirstInList(s) => FirstInList(s)'
    <3>1. ASSUME InList(s) PROVE InList(s)'
      BY <2>5, <3>1 DEF InList
    <3>2. ASSUME FirstInList(s) PROVE FirstInList(s)'
      <4>1. PICK i \in 1..size : items[i] = s /\ \A j \in 1..(i - 1) : items[j].id # s.id
        BY <3>2 DEF FirstInList
      <4>2. \A j \in 1..(i - 1) : j \in 1..size
        BY <2>2
      <4>3. \A j \in 1..(i - 1) : items'[j].id # s.id
        BY <2>5, <4>1, <4>2
      <4> QED
        BY <2>5, <4>1, <4>3 DEF FirstInList
    <3> QED
      BY <3>1, <3>2
  <2>10. InList(service)'
    BY <1>9, <2>6, <2>7 DEF InList
  <2>11. ~call[r].edit => FirstInList(service)' /\ \A i \in 1..size : items[i].id # service.id
    <3> SUFFICES ASSUME ~call[r].edit
                 PROVE  FirstInList(service)' /\ \A i \in 1..size : items[i].id # service.id
      OBVIOUS
    <3>1. ~At(r, "try")
      BY <1>3 DEF At
    <3>2. \A i \in 1..size : items[i].id # service.id
      BY <1>3, <1>9, <2>1, <3>1 DEF SavesOK, Sequential
    <3>3. \A j \in 1..(n - 1) : j \in 1..size
      BY <2>2
    <3>4. \A j \in 1..(n - 1) : items'[j].id # service.id
      BY <2>5, <3>2, <3>3
    <3> QED
      BY <1>9, <2>6, <2>7, <3>2, <3>4 DEF FirstInList
  <2>12. IdsDiffer'
    <3>1. ASSUME NEW i \in 1..size, items[i].id = service.id
          PROVE  items[i].name = service.name
      <4>1. InList(service)
        BY <1>3, <1>9, <2>1, <2>11, <3>1 DEF SavesOK, Sequential
      <4> QED
        BY <2>1, <3>1, <4>1 DEF InList, IdsDiffer, Sequential
    <3>2. ASSUME NEW i \in 1..size', NEW j \in 1..size', items'[i].id = items'[j].id
          PROVE  items'[i].name = items'[j].name
      <4>1. CASE i = n /\ j = n
        BY <4>1
      <4>2. CASE i = n /\ j \in 1..size
        BY <2>5, <2>6, <3>1, <3>2, <4>2
      <4>3. CASE i \in 1..size /\ j = n
        BY <2>5, <2>6, <3>1, <3>2, <4>3
      <4>4. CASE i \in 1..size /\ j \in 1..size
        BY <2>1, <2>5, <3>2, <4>4 DEF IdsDiffer, Sequential
      <4> QED
        BY <2>7, <4>1, <4>2, <4>3, <4>4
    <3> QED
      BY <3>2 DEF IdsDiffer
  <2>13. OneSave'
    BY <1>12, <2>3 DEF OneSave
  <2>14. DictionaryOK(services)'
    BY <1>6, <2>1, <2>9 DEF DictionaryOK, Sequential
  <2>15. \A o \in Threads : At(o, "swap")' => DictionaryOK(call[o].local)'
    BY <1>5, <1>12, <2>1, <2>3, <2>9 DEF DictionaryOK, Sequential
  <2>16. SavesOK'
    <3>1. InList(call[r].service)'
      BY <1>9, <2>10 DEF InList
    <3> QED
      BY <1>12, <2>3, <3>1 DEF SavesOK
  <2>17. KeptOK'
    <3>1. \A s \in kept' : FirstInList(s)'
      BY <1>6, <2>1, <2>9 DEF KeptOK, Sequential
    <3>2. \A o \in Threads : At(o, "swap")' => \A s \in kept' : call'[o].local[s.id] = s
      BY <1>5, <1>6, <1>12, <2>1, <2>3 DEF KeptOK, Sequential
    <3>3. call[r].alone => /\ \A o \in Threads : ~At(o, "swap")'
                           /\ ~call[r].edit => services[service.id] = None
      BY <1>3, <1>9, <1>12, <2>1, <2>3 DEF KeptOK, Sequential
    <3> QED
      BY <1>4, <1>5, <1>6, <1>9, <2>3, <2>11, <3>1, <3>2, <3>3 DEF KeptOK
  <2> QED
    BY <1>6, <2>1, <2>8, <2>12, <2>13, <2>14, <2>15, <2>16, <2>17 DEF Sequential, KeptIsFound
<1> QED
  BY <1>11, <1>13, <1>14 DEF ServicesIInv

LEMMA SaveTryAddInv ==
  ASSUME ServicesIInv, NEW r \in Threads, SaveTryAdd(r)
  PROVE  ServicesIInv'
<1>1. ServicesTypeOK /\ CallsOK /\ (~collided => Sequential)
  BY DEF ServicesIInv
<1>2. PICK service : service = call[r].service
  OBVIOUS
<1>3. call[r] \in Calls /\ At(r, "try") /\ Saving(r)
  BY <1>1, TypeFacts DEF SaveTryAdd, Saving, At, SavePCs
<1>4. service \in Registered /\ service.id \in Ids /\ service # None
  BY <1>1, <1>2, <1>3, TypeFacts DEF CallsOK, Calls
<1>5. /\ call' \in [Threads -> Calls]
      /\ call'[r] = Idle /\ \A o \in Threads \ {r} : call'[o] = call[o]
  BY <1>1, IdleCall, BecomeFacts DEF SaveTryAdd
<1>6. /\ services' = IF services[service.id] = None
                     THEN [services EXCEPT ![service.id] = service]
                     ELSE services
      /\ kept' = IF ~call[r].edit /\ call[r].alone THEN kept \cup {service} ELSE kept
      /\ lastEdit' = IF call[r].edit THEN [lastEdit EXCEPT ![service.id] = service.enabled]
                                     ELSE lastEdit
      /\ UNCHANGED <<items, size, collided>>
  BY <1>2 DEF SaveTryAdd, list
<1>7. /\ services' \in Dictionaries
      /\ services[service.id] = None => services'[service.id] = service
      /\ \A id \in Ids : services'[id] = services[id] \/ (id = service.id /\ services'[id] = service)
      /\ \A id \in Ids : services[id] # None => services'[id] = services[id]
  BY <1>1, <1>4, <1>6 DEF ServicesTypeOK, Dictionaries
<1>8. ServicesTypeOK'
  <2>1. service.enabled \in BOOLEAN
    BY <1>4 DEF Registered
  <2>2. lastEdit' \in [Ids -> BOOLEAN \cup {None}]
    BY <1>1, <1>4, <1>6, <2>1 DEF ServicesTypeOK
  <2>3. kept' \subseteq Registered
    BY <1>1, <1>4, <1>6 DEF ServicesTypeOK
  <2> QED
    BY <1>1, <1>5, <1>6, <1>7, <2>2, <2>3, TypeStep DEF ServicesTypeOK
<1>9. ~Saving(r)' /\ ~At(r, "swap")' /\ ~At(r, "add")'
  BY <1>5, IdleCall DEF Saving, At, SavePCs
<1>10. CallsOK'
  BY <1>1, <1>5, <1>6, <1>9, CallsKept
<1>11. ASSUME ~collided' PROVE Sequential'
  <2>1. ~collided /\ Sequential /\ OneSave
    BY <1>1, <1>6, <1>11 DEF Sequential
  <2>2. \A o \in Threads : ~Saving(o)' /\ ~At(o, "add")' /\ (At(o, "swap")' => At(o, "swap") /\ o # r)
    BY <1>3, <1>5, <1>9, <2>1 DEF OneSave, Saving, At, SavePCs
  <2>3. \A s : (InList(s)' <=> InList(s)) /\ (FirstInList(s)' <=> FirstInList(s))
    BY <1>6 DEF InList, FirstInList
  <2>4. InList(service)
    BY <1>2, <1>3, <2>1 DEF SavesOK, Sequential
  <2>5. ~call[r].edit /\ call[r].alone =>
          /\ services[service.id] = None /\ FirstInList(service)
          /\ \A o \in Threads : ~At(o, "swap")
    BY <1>2, <1>3, <2>1 DEF KeptOK, Sequential
  <2>6. KeptIsFound'
    <3> SUFFICES ASSUME NEW s \in kept' PROVE services'[s.id] = s
      BY DEF KeptIsFound
    <3>1. CASE s \in kept
      <4>1. services[s.id] = s /\ s.id \in Ids /\ s # None
        BY <1>1, <2>1, <3>1, TypeFacts DEF KeptIsFound, Sequential, ServicesTypeOK
      <4> QED
        BY <1>7, <4>1
    <3>2. CASE s \notin kept
      BY <1>6, <1>7, <2>5, <3>2
    <3> QED
      BY <3>1, <3>2
  <2>7. DictionaryOK(services)'
    BY <1>7, <2>1, <2>3, <2>4 DEF DictionaryOK, Sequential
  <2>8. \A o \in Threads : At(o, "swap")' => DictionaryOK(call[o].local)'
    BY <1>5, <2>1, <2>2, <2>3 DEF DictionaryOK, Sequential
  <2>9. KeptOK'
    <3>1. \A s \in kept' : FirstInList(s)'
      BY <1>6, <2>1, <2>3, <2>5 DEF KeptOK, Sequential
    <3>2. \A o \in Threads : At(o, "swap")' => \A s \in kept' : call'[o].local[s.id] = s
      BY <1>5, <1>6, <2>1, <2>2, <2>5 DEF KeptOK, Sequential
    <3> QED
      BY <2>2, <3>1, <3>2 DEF KeptOK
  <2> QED
    BY <1>6, <2>1, <2>2, <2>6, <2>7, <2>8, <2>9
    DEF Sequential, Whole, IdsDiffer, OneSave, SavesOK
<1> QED
  BY <1>8, <1>10, <1>11 DEF ServicesIInv

(***************************************************************************)
(* delete and reload                                                       *)
(***************************************************************************)

LEMMA DeleteInv == ASSUME ServicesIInv, NEW r \in Threads, Delete(r) PROVE ServicesIInv'
<1>1. ServicesTypeOK /\ CallsOK /\ (~collided => Sequential)
  BY DEF ServicesIInv
<1>2. PICK id \in Ids :
        /\ services' = [services EXCEPT ![id] = None]
        /\ kept' = {s \in kept : s.id # id}
        /\ UNCHANGED <<items, size, call, collided, lastEdit>>
  BY DEF Delete, list
<1>3. /\ services' \in Dictionaries /\ services'[id] = None
      /\ \A d \in Ids \ {id} : services'[d] = services[d]
  BY <1>1, <1>2 DEF ServicesTypeOK, Dictionaries
<1>4. ServicesTypeOK'
  BY <1>1, <1>2, <1>3 DEF ServicesTypeOK
<1>5. CallsOK'
  BY <1>1, <1>2 DEF CallsOK, Saving, At
<1>6. ASSUME ~collided' PROVE Sequential'
  <2>1. ~collided /\ Sequential
    BY <1>1, <1>2, <1>6
  <2>2. \A o \in Threads : /\ Saving(o)' <=> Saving(o)
                           /\ At(o, "swap")' <=> At(o, "swap")
                           /\ At(o, "add")' <=> At(o, "add")
                           /\ At(o, "try")' <=> At(o, "try")
    BY <1>2 DEF Saving, At
  <2>3. \A s : (InList(s)' <=> InList(s)) /\ (FirstInList(s)' <=> FirstInList(s))
    BY <1>2 DEF InList, FirstInList
  <2>4. \A s \in Registered : s.id \in Ids
    BY <1>1, TypeFacts
  <2>5. KeptIsFound'
    BY <1>1, <1>2, <1>3, <2>1, <2>4 DEF KeptIsFound, Sequential, ServicesTypeOK
  <2>6. DictionaryOK(services)'
    BY <1>3, <2>1, <2>3 DEF DictionaryOK, Sequential
  <2>7. \A o \in Threads : At(o, "swap")' => DictionaryOK(call[o].local)'
    BY <1>2, <2>1, <2>2, <2>3 DEF DictionaryOK, Sequential
  <2>8. Whole' /\ OneSave' /\ SavesOK' /\ IdsDiffer'
    BY <1>2, <2>1, <2>2, <2>3 DEF Whole, OneSave, SavesOK, IdsDiffer, Sequential
  <2>9. KeptOK'
    <3>1. \A s \in kept' : FirstInList(s)'
      BY <1>2, <2>1, <2>3 DEF KeptOK, Sequential
    <3>2. \A o \in Threads : At(o, "swap")' => \A s \in kept' : call'[o].local[s.id] = s
      BY <1>2, <2>1, <2>2 DEF KeptOK, Sequential
    <3>3. ASSUME NEW o \in Threads, Saving(o)', call'[o].alone
          PROVE  /\ \A p \in Threads : ~At(p, "swap")'
                 /\ ~call'[o].edit => /\ services'[call'[o].service.id] = None
                                      /\ At(o, "try")' => FirstInList(call[o].service)'
      <4>1. call'[o] = call[o] /\ Saving(o)
        BY <1>2, <2>2, <3>3
      <4>2. /\ \A p \in Threads : ~At(p, "swap")
            /\ ~call[o].edit => /\ services[call[o].service.id] = None
                                /\ At(o, "try") => FirstInList(call[o].service)
        BY <2>1, <3>3, <4>1 DEF KeptOK, Sequential
      <4>3. call[o].service.id \in Ids
        BY <1>1, <2>4, <4>1, TypeFacts DEF CallsOK, Calls
      <4>4. FirstInList(call[o].service) => FirstInList(call[o].service)'
        BY <1>2, <4>1 DEF FirstInList
      <4> QED
        BY <1>3, <2>2, <4>1, <4>2, <4>3, <4>4
    <3> QED
      BY <3>1, <3>2, <3>3 DEF KeptOK
  <2> QED
    BY <2>5, <2>6, <2>7, <2>8, <2>9 DEF Sequential
<1> QED
  BY <1>4, <1>5, <1>6 DEF ServicesIInv

LEMMA LoadReadInv == ASSUME ServicesIInv, NEW r \in Threads, LoadRead(r) PROVE ServicesIInv'
<1>1. ServicesTypeOK /\ CallsOK /\ (~collided => Sequential)
  BY DEF ServicesIInv
<1>2. /\ Whole
      /\ call' = [o \in Threads |->
                    IF o = r THEN [Idle EXCEPT !.pc = "swap", !.local = Loaded]
                    ELSE [call[o] EXCEPT !.alone = FALSE]]
      /\ UNCHANGED <<items, size, services, collided, kept, lastEdit>>
  BY DEF LoadRead, list, history
<1>3. call \in [Threads -> Calls] /\ Loaded \in Dictionaries
  BY <1>1, <1>2, TypeFacts, LoadedFacts
<1>4. call'[r] \in Calls /\ call'[r].pc = "swap" /\ call'[r].local = Loaded
  <2>1. call'[r] = [pc |-> "swap", edit |-> FALSE, service |-> None, size |-> 0,
                    local |-> Loaded, alone |-> FALSE]
    BY <1>2 DEF Idle
  <2>2. 0 \in Sizes
    BY DEF Sizes
  <2> QED
    BY <1>3, <2>1, <2>2 DEF Calls
<1>5. ASSUME NEW o \in Threads \ {r}
      PROVE  /\ call'[o] \in Calls /\ call'[o].alone = FALSE
             /\ call'[o].pc = call[o].pc /\ call'[o].size = call[o].size
             /\ call'[o].local = call[o].local /\ call'[o].service = call[o].service
             /\ call'[o].edit = call[o].edit
  <2>1. call'[o] = [call[o] EXCEPT !.alone = FALSE] /\ call[o] \in Calls
    BY <1>2, <1>3
  <2> QED
    BY <2>1 DEF Calls
<1>6. call' \in [Threads -> Calls]
  <2>1. call' = [o \in Threads |-> call'[o]]
    BY <1>2
  <2>2. \A o \in Threads : call'[o] \in Calls
    BY <1>4, <1>5
  <2> QED
    BY <2>1, <2>2
<1>7. ServicesTypeOK'
  BY <1>1, <1>2, <1>6, TypeStep DEF ServicesTypeOK
<1>8. /\ ~Saving(r)' /\ At(r, "swap")' /\ ~At(r, "add")'
      /\ \A o \in Threads \ {r} : /\ Saving(o)' <=> Saving(o)
                                  /\ At(o, "swap")' <=> At(o, "swap")
                                  /\ At(o, "add")' <=> At(o, "add")
                                  /\ At(o, "try")' <=> At(o, "try")
  BY <1>4, <1>5 DEF Saving, At, SavePCs
<1>9. CallsOK'
  <2>1. Loaded # None
    BY <1>3
  <2>2. ASSUME NEW o \in Threads
        PROVE  /\ Saving(o)' => call'[o].service # None
               /\ At(o, "swap")' => call'[o].local # None
               /\ At(o, "add")' => call'[o].size < MaxSaves
    <3>1. CASE o = r
      BY <1>4, <1>8, <2>1, <3>1
    <3>2. CASE o # r
      BY <1>1, <1>2, <1>5, <1>8, <3>2 DEF CallsOK
    <3> QED
      BY <3>1, <3>2
  <2> QED
    BY <2>2 DEF CallsOK
<1>10. ASSUME ~collided' PROVE Sequential'
  <2>1. ~collided /\ Sequential
    BY <1>1, <1>2, <1>10
  <2>2. \A s : (InList(s)' <=> InList(s)) /\ (FirstInList(s)' <=> FirstInList(s))
    BY <1>2 DEF InList, FirstInList
  <2>3. Whole' /\ KeptIsFound' /\ IdsDiffer'
    BY <1>2, <2>1 DEF Whole, KeptIsFound, IdsDiffer, Sequential
  <2>4. OneSave'
    BY <1>2, <1>5, <1>8, <2>1 DEF OneSave, Sequential
  <2>5. DictionaryOK(services)'
    BY <1>2, <2>1, <2>2 DEF DictionaryOK, Sequential
  <2>6. ASSUME NEW o \in Threads, At(o, "swap")'
        PROVE  DictionaryOK(call[o].local)'
    <3>1. CASE o = r
      <4>1. \A id \in Ids : Loaded[id] # None => Loaded[id].id = id /\ InList(Loaded[id])
        BY <1>1, <1>2, LoadedFacts
      <4>2. \A id \in Ids : InList(Loaded[id]) => InList(call[o].local[id])'
        BY <1>2, <1>4, <3>1 DEF InList
      <4> QED
        BY <1>4, <3>1, <4>1, <4>2 DEF DictionaryOK
    <3>2. CASE o # r
      <4>1. At(o, "swap") /\ call'[o].local = call[o].local
        BY <1>5, <1>8, <2>6, <3>2
      <4>2. DictionaryOK(call[o].local)
        BY <2>1, <4>1 DEF Sequential
      <4>3. \A id \in Ids : InList(call[o].local[id]) => InList(call[o].local[id])'
        BY <1>2, <4>1 DEF InList
      <4> QED
        BY <4>1, <4>2, <4>3 DEF DictionaryOK
    <3> QED
      BY <3>1, <3>2
  <2>7. SavesOK'
    <3> SUFFICES ASSUME NEW o \in Threads, Saving(o)'
                 PROVE  IF call'[o].edit \/ At(o, "try")'
                        THEN InList(call[o].service)'
                        ELSE \A i \in 1..size' : items'[i].id # call'[o].service.id
      BY DEF SavesOK
    <3>1. o # r /\ Saving(o)
      BY <1>8
    <3>2. InList(call[o].service) => InList(call[o].service)'
      BY <1>2, <1>5, <3>1 DEF InList
    <3>3. /\ call'[o].edit = call[o].edit /\ call'[o].service = call[o].service
          /\ At(o, "try")' <=> At(o, "try")
      BY <1>5, <1>8, <3>1
    <3>4. IF call[o].edit \/ At(o, "try")
          THEN InList(call[o].service)
          ELSE \A i \in 1..size : items[i].id # call[o].service.id
      BY <2>1, <3>1 DEF SavesOK, Sequential
    <3> QED
      BY <1>2, <3>2, <3>3, <3>4
  <2>8. KeptOK'
    <3>1. \A s \in kept' : FirstInList(s)'
      BY <1>2, <2>1, <2>2 DEF KeptOK, Sequential
    <3>2. ASSUME NEW o \in Threads, At(o, "swap")', NEW s \in kept'
          PROVE  call'[o].local[s.id] = s
      <4>1. CASE o = r
        <5>1. s \in Registered /\ FirstInList(s)
          BY <1>1, <1>2, <2>1 DEF ServicesTypeOK, KeptOK, Sequential
        <5>2. Loaded[s.id] = s
          BY <1>1, <1>2, <5>1, LoadedFacts
        <5> QED
          BY <1>4, <4>1, <5>2
      <4>2. CASE o # r
        <5>1. At(o, "swap") /\ call'[o].local = call[o].local /\ kept' = kept
          BY <1>2, <1>5, <1>8, <3>2, <4>2
        <5> QED
          BY <2>1, <3>2, <5>1 DEF KeptOK, Sequential
      <4> QED
        BY <4>1, <4>2
    <3>3. \A o \in Threads : Saving(o)' => ~call'[o].alone
      BY <1>5, <1>8
    <3> QED
      BY <3>1, <3>2, <3>3 DEF KeptOK
  <2> QED
    BY <2>3, <2>4, <2>5, <2>6, <2>7, <2>8 DEF Sequential
<1> QED
  BY <1>7, <1>9, <1>10 DEF ServicesIInv

LEMMA LoadSwapInv == ASSUME ServicesIInv, NEW r \in Threads, LoadSwap(r) PROVE ServicesIInv'
<1>1. ServicesTypeOK /\ CallsOK /\ (~collided => Sequential)
  BY DEF ServicesIInv
<1>2. /\ At(r, "swap") /\ services' = call[r].local /\ Become(r, Idle)
      /\ UNCHANGED <<items, size, collided, kept, lastEdit>>
  BY DEF LoadSwap, list, history
<1>3. /\ call' \in [Threads -> Calls]
      /\ call'[r] = Idle /\ \A o \in Threads \ {r} : call'[o] = call[o]
  BY <1>1, <1>2, IdleCall, BecomeFacts
<1>4. services' \in Dictionaries
  BY <1>1, <1>2, TypeFacts DEF CallsOK, Calls
<1>5. ServicesTypeOK'
  BY <1>1, <1>2, <1>3, <1>4, TypeStep DEF ServicesTypeOK
<1>6. ~Saving(r)' /\ ~At(r, "swap")' /\ ~At(r, "add")'
  BY <1>3, IdleCall DEF Saving, At, SavePCs
<1>7. CallsOK'
  BY <1>1, <1>2, <1>3, <1>6, CallsKept
<1>8. ASSUME ~collided' PROVE Sequential'
  <2>1. ~collided /\ Sequential
    BY <1>1, <1>2, <1>8
  <2>2. \A o \in Threads : /\ Saving(o)' => o # r /\ Saving(o)
                           /\ At(o, "swap")' => o # r /\ At(o, "swap")
                           /\ At(o, "add")' => o # r /\ At(o, "add")
                           /\ o # r => (At(o, "try")' <=> At(o, "try"))
    BY <1>3, <1>6 DEF Saving, At
  <2>3. \A s : (InList(s)' <=> InList(s)) /\ (FirstInList(s)' <=> FirstInList(s))
    BY <1>2 DEF InList, FirstInList
  <2>4. Whole' /\ KeptIsFound' /\ IdsDiffer'
    BY <1>2, <2>1 DEF Whole, KeptIsFound, KeptOK, IdsDiffer, Sequential
  <2>5. OneSave'
    BY <1>2, <1>3, <2>1, <2>2 DEF OneSave, Sequential
  <2>6. DictionaryOK(services)'
    BY <1>2, <2>1, <2>3 DEF DictionaryOK, Sequential
  <2>7. \A o \in Threads : At(o, "swap")' => DictionaryOK(call[o].local)'
    BY <1>3, <2>1, <2>2, <2>3 DEF DictionaryOK, Sequential
  <2>8. SavesOK'
    BY <1>2, <1>3, <2>1, <2>2, <2>3 DEF SavesOK, Sequential
  <2>9. KeptOK'
    <3>1. \A s \in kept' : FirstInList(s)'
      BY <1>2, <2>1, <2>3 DEF KeptOK, Sequential
    <3>2. \A o \in Threads : At(o, "swap")' => \A s \in kept' : call'[o].local[s.id] = s
      BY <1>2, <1>3, <2>1, <2>2 DEF KeptOK, Sequential
    <3>3. \A o \in Threads : Saving(o)' => ~call'[o].alone
      BY <1>2, <1>3, <2>1, <2>2 DEF KeptOK, Sequential
    <3> QED
      BY <3>1, <3>2, <3>3 DEF KeptOK
  <2> QED
    BY <2>4, <2>5, <2>6, <2>7, <2>8, <2>9 DEF Sequential
<1> QED
  BY <1>5, <1>7, <1>8 DEF ServicesIInv

(***************************************************************************)
(* The theorems                                                            *)
(***************************************************************************)

LEMMA ServicesNextInv == ServicesIInv /\ [Next]_vars => ServicesIInv'
<1> SUFFICES ASSUME ServicesIInv, [Next]_vars PROVE ServicesIInv'
  OBVIOUS
<1>1. ASSUME NEW r \in Threads, Save(r) PROVE ServicesIInv'
  BY <1>1, RegisterInv, ChangeEnabledStateInv, SaveSizeInv, SaveAddInv, SaveTryAddInv DEF Save
<1>2. ASSUME NEW r \in Threads, Delete(r) PROVE ServicesIInv'
  BY <1>2, DeleteInv
<1>3. ASSUME NEW r \in Threads, Reload(r) PROVE ServicesIInv'
  BY <1>3, LoadReadInv, LoadSwapInv DEF Reload
<1>4. CASE UNCHANGED vars
  <2>1. UNCHANGED <<items, size, services, call, collided, kept, lastEdit>>
    BY <1>4 DEF vars, list, history
  <2>2. ServicesTypeOK' /\ CallsOK'
    BY <2>1 DEF ServicesIInv, ServicesTypeOK, CallsOK, Saving, At
  <2>3. ASSUME Sequential PROVE Sequential'
    <3>1. Whole' /\ KeptIsFound' /\ IdsDiffer' /\ OneSave'
      BY <2>1, <2>3 DEF Sequential, Whole, KeptIsFound, IdsDiffer, OneSave, Saving, At
    <3>2. \A s : (InList(s)' <=> InList(s)) /\ (FirstInList(s)' <=> FirstInList(s))
      BY <2>1 DEF InList, FirstInList
    <3>3. \A o \in Threads : /\ Saving(o)' <=> Saving(o)
                             /\ At(o, "swap")' <=> At(o, "swap")
                             /\ At(o, "try")' <=> At(o, "try")
      BY <2>1 DEF Saving, At
    <3>4. /\ DictionaryOK(services)'
          /\ \A r \in Threads : At(r, "swap")' => DictionaryOK(call[r].local)'
      BY <2>1, <2>3, <3>2, <3>3 DEF Sequential, DictionaryOK
    <3>5. SavesOK'
      BY <2>1, <2>3, <3>2, <3>3 DEF Sequential, SavesOK
    <3>6. KeptOK'
      BY <2>1, <2>3, <3>2, <3>3 DEF Sequential, KeptOK
    <3> QED
      BY <3>1, <3>4, <3>5, <3>6 DEF Sequential
  <2> QED
    BY <2>1, <2>2, <2>3 DEF ServicesIInv
<1> QED
  BY <1>1, <1>2, <1>3, <1>4 DEF Next

\* ServicesIInv holds whatever calls the threads make, and in whichever order.
THEOREM ServicesInvariant == Spec => []ServicesIInv
<1>1. Init => ServicesIInv
  BY ServicesInitInv
<1>2. ServicesIInv /\ [Next]_vars => ServicesIInv'
  BY ServicesNextInv
<1> QED
  BY <1>1, <1>2, PTL DEF Spec

\* Also when calls of save have overlapped, list and dictionary have nothing but registered
\* services and null for entries.
THEOREM ServicesTypes == Spec => []ServicesTypeOK
<1>1. ServicesIInv => ServicesTypeOK
  BY DEF ServicesIInv
<1> QED
  BY <1>1, ServicesInvariant, PTL

\* A service that was registered while no reload ran is found until it is deleted.
THEOREM RegisteredIsFound == Spec => []RegisteredStays
<1>1. ServicesIInv => RegisteredStays
  BY DEF ServicesIInv, Sequential, RegisteredStays
<1> QED
  BY <1>1, ServicesInvariant, PTL

\* The id save gives was never that of another service.
THEOREM IdsAreNotGivenTwice == Spec => []IdsAreFresh
<1>1. ServicesIInv => IdsAreFresh
  BY DEF ServicesIInv, Sequential, IdsAreFresh
<1> QED
  BY <1>1, ServicesInvariant, PTL
=============================================================================
