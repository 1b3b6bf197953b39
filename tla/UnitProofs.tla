----------------------------- MODULE UnitProofs -----------------------------
(***************************************************************************)
(* Proofs about the units of work, for every number of scopes, of          *)
(* transactions and of sessions.                                           *)
(***************************************************************************)
EXTENDS UnitProperties, SequenceTheorems, TLAPS

USE UnitOfWorkAssumption

(***************************************************************************)
(* The two lists: a new element is put first, the first is taken off, and  *)
(* one is found and removed                                                *)
(***************************************************************************)

\* AddFirst, and the stack of the blocks.
LEMMA PutFirst ==
  ASSUME NEW S, NEW seq \in Seq(S), NEW e \in S
  PROVE  /\ <<e>> \o seq \in Seq(S)
         /\ DOMAIN (<<e>> \o seq) = 1..(Len(seq) + 1)
         /\ (<<e>> \o seq)[1] = e
         /\ \A i \in DOMAIN seq : (<<e>> \o seq)[i + 1] = seq[i]
         /\ Head(<<e>> \o seq) = e
<1>1. <<e>> \in Seq(S) /\ Len(<<e>>) = 1 /\ <<e>>[1] = e
  OBVIOUS
<1>2. /\ <<e>> \o seq \in Seq(S) /\ Len(<<e>> \o seq) = 1 + Len(seq)
      /\ \A i \in 1..(1 + Len(seq)) :
           (<<e>> \o seq)[i] = IF i <= 1 THEN <<e>>[i] ELSE seq[i - 1]
  BY <1>1, ConcatProperties
<1>3. Len(seq) \in Nat /\ DOMAIN seq = 1..Len(seq)
  BY LenProperties
<1>4. DOMAIN (<<e>> \o seq) = 1..(Len(seq) + 1)
  BY <1>2, <1>3, LenProperties
<1>5. (<<e>> \o seq)[1] = e
  BY <1>1, <1>2, <1>3
<1>6. \A i \in DOMAIN seq : (<<e>> \o seq)[i + 1] = seq[i]
  <2> SUFFICES ASSUME NEW i \in 1..Len(seq) PROVE (<<e>> \o seq)[i + 1] = seq[i]
    BY <1>3
  <2>1. i + 1 \in 1..(1 + Len(seq)) /\ ~(i + 1 <= 1) /\ (i + 1) - 1 = i
    BY <1>3
  <2> QED
    BY <1>2, <2>1
<1>7. Head(<<e>> \o seq) = e
  BY <1>2, <1>3, <1>5
<1> QED
  BY <1>2, <1>4, <1>5, <1>6, <1>7

\* The end of the innermost block.
LEMMA TakeFirst ==
  ASSUME NEW S, NEW seq \in Seq(S), seq # <<>>
  PROVE  /\ Tail(seq) \in Seq(S) /\ Head(seq) = seq[1] /\ 1 \in DOMAIN seq
         /\ DOMAIN Tail(seq) = 1..(Len(seq) - 1)
         /\ Len(seq) \in Nat \ {0} /\ DOMAIN seq = 1..Len(seq)
         /\ \A i \in DOMAIN Tail(seq) : i + 1 \in DOMAIN seq /\ Tail(seq)[i] = seq[i + 1]
<1>1. /\ Tail(seq) \in Seq(S) /\ Len(Tail(seq)) = Len(seq) - 1
      /\ \A i \in 1..Len(Tail(seq)) : Tail(seq)[i] = seq[i + 1]
  BY HeadTailProperties
<1>2. Len(seq) \in Nat \ {0} /\ DOMAIN seq = 1..Len(seq)
  BY LenProperties, EmptySeq
<1>3. DOMAIN Tail(seq) = 1..(Len(seq) - 1)
  BY <1>1, LenProperties
<1>4. Head(seq) = seq[1] /\ 1 \in DOMAIN seq
  BY <1>2
<1> QED
  BY <1>1, <1>2, <1>3, <1>4

\* Find and Remove: the elements behind the one that is removed move up.
LEMMA RemovedFacts ==
  ASSUME NEW S, NEW seq \in Seq(S), NEW n \in DOMAIN seq,
         \A i, j \in DOMAIN seq : seq[i] = seq[j] => i = j
  PROVE  /\ RemoveFirst(seq, seq[n]) \in Seq(S)
         /\ DOMAIN RemoveFirst(seq, seq[n]) = 1..(Len(seq) - 1)
         /\ \A i \in 1..(Len(seq) - 1) :
              RemoveFirst(seq, seq[n])[i] = IF i < n THEN seq[i] ELSE seq[i + 1]
<1>1. Len(seq) \in Nat /\ DOMAIN seq = 1..Len(seq)
  BY LenProperties
<1> DEFINE I == {i \in 1..Len(seq) : seq[i] = seq[n]}
<1>2. I = {n}
  BY <1>1
<1>3. SelectInSeq(seq, LAMBDA v : v = seq[n]) = n
  <2>1. SelectInSeq(seq, LAMBDA v : v = seq[n]) = IF I # {} THEN Min(I) ELSE 0
    BY DEF SelectInSeq
  <2>2. Min(I) = n
    <3> HIDE DEF I
    <3> QED
      BY <1>1, <1>2 DEF Min
  <2> QED
    BY <1>2, <2>1, <2>2
<1>4. RemoveFirst(seq, seq[n]) = SubSeq(seq, 1, n - 1) \o SubSeq(seq, n + 1, Len(seq))
  BY <1>1, <1>3 DEF RemoveFirst, RemoveAt
<1>5. /\ SubSeq(seq, 1, n - 1) \in Seq(S) /\ Len(SubSeq(seq, 1, n - 1)) = n - 1
      /\ \A i \in 1..(n - 1) : SubSeq(seq, 1, n - 1)[i] = seq[i]
  <2>1. \A i \in 1..(n - 1) : seq[i] \in S
    BY <1>1, ElementOfSeq
  <2>2. 1 \in Int /\ n - 1 \in Int /\ n \in 1..Len(seq)
    BY <1>1
  <2>3. /\ SubSeq(seq, 1, n - 1) \in Seq(S)
        /\ Len(SubSeq(seq, 1, n - 1)) = IF 1 <= n - 1 THEN (n - 1) - 1 + 1 ELSE 0
        /\ \A i \in 1..((n - 1) - 1 + 1) : SubSeq(seq, 1, n - 1)[i] = seq[1 + i - 1]
    BY <2>1, <2>2, SubSeqProperties
  <2> QED
    BY <1>1, <2>2, <2>3
<1>6. /\ SubSeq(seq, n + 1, Len(seq)) \in Seq(S)
      /\ Len(SubSeq(seq, n + 1, Len(seq))) = Len(seq) - n
      /\ \A i \in 1..(Len(seq) - n) : SubSeq(seq, n + 1, Len(seq))[i] = seq[n + i]
  <2>1. \A i \in (n + 1)..Len(seq) : seq[i] \in S
    BY <1>1, ElementOfSeq
  <2>2. n + 1 \in Int /\ Len(seq) \in Int /\ n \in 1..Len(seq)
    BY <1>1
  <2>3. /\ SubSeq(seq, n + 1, Len(seq)) \in Seq(S)
        /\ Len(SubSeq(seq, n + 1, Len(seq)))
             = IF n + 1 <= Len(seq) THEN Len(seq) - (n + 1) + 1 ELSE 0
        /\ \A i \in 1..(Len(seq) - (n + 1) + 1) :
             SubSeq(seq, n + 1, Len(seq))[i] = seq[(n + 1) + i - 1]
    BY <2>1, <2>2, SubSeqProperties
  <2> QED
    BY <1>1, <2>2, <2>3
<1> DEFINE a == SubSeq(seq, 1, n - 1)
           b == SubSeq(seq, n + 1, Len(seq))
<1>7. /\ n \in 1..Len(seq) /\ a \in Seq(S) /\ b \in Seq(S)
      /\ Len(a) = n - 1 /\ Len(b) = Len(seq) - n
      /\ RemoveFirst(seq, seq[n]) = a \o b
      /\ \A i \in 1..(n - 1) : a[i] = seq[i]
      /\ \A i \in 1..(Len(seq) - n) : b[i] = seq[n + i]
  BY <1>1, <1>4, <1>5, <1>6
<1> HIDE DEF a, b
<1>8. /\ a \o b \in Seq(S) /\ Len(a \o b) = Len(a) + Len(b)
      /\ \A i \in 1..(Len(a) + Len(b)) :
           (a \o b)[i] = IF i <= Len(a) THEN a[i] ELSE b[i - Len(a)]
  <2>1. a \in Seq(S) /\ b \in Seq(S)
    BY <1>7
  <2> QED
    BY <2>1, ConcatProperties
<1>9. DOMAIN (a \o b) = 1..(Len(seq) - 1)
  <2>1. DOMAIN (a \o b) = 1..Len(a \o b)
    BY <1>8, LenProperties
  <2>2. Len(a \o b) = Len(seq) - 1
    BY <1>1, <1>7, <1>8
  <2> QED
    BY <2>1, <2>2
<1>10. ASSUME NEW i \in 1..(Len(seq) - 1)
       PROVE  (a \o b)[i] = IF i < n THEN seq[i] ELSE seq[i + 1]
  <2>1. i \in 1..(Len(a) + Len(b)) /\ (i <= Len(a) <=> i < n)
    BY <1>1, <1>7
  <2>2. CASE i < n
    BY <1>1, <1>7, <1>8, <2>1, <2>2
  <2>3. CASE ~(i < n)
    <3>1. i - Len(a) \in 1..(Len(seq) - n) /\ n + (i - Len(a)) = i + 1
      BY <1>1, <1>7, <2>3
    <3> QED
      BY <1>7, <1>8, <2>1, <2>3, <3>1
  <2> QED
    BY <2>2, <2>3
<1> QED
  BY <1>7, <1>8, <1>9, <1>10

\* Removing one transaction of a list without duplicates keeps the order of the
\* others.
LEMMA RemovedOrder ==
  ASSUME NEW S, NEW seq \in Seq(S), NEW n \in DOMAIN seq,
         \A i, j \in DOMAIN seq : seq[i] = seq[j] => i = j,
         NEW rest, rest = RemoveFirst(seq, seq[n])
  PROVE  /\ rest \in Seq(S)
         /\ \A i, j \in DOMAIN rest : rest[i] = rest[j] => i = j
         /\ \A i \in DOMAIN rest : \E m \in DOMAIN seq : m # n /\ rest[i] = seq[m]
         /\ \A m \in DOMAIN seq : m # n => \E i \in DOMAIN rest : rest[i] = seq[m]
         /\ \A k, l \in DOMAIN rest : \E i, j \in DOMAIN seq :
              rest[k] = seq[i] /\ rest[l] = seq[j] /\ (i <= j => k <= l)
<1>1. Len(seq) \in Nat /\ DOMAIN seq = 1..Len(seq)
  BY LenProperties
<1>2. /\ rest \in Seq(S) /\ DOMAIN rest = 1..(Len(seq) - 1)
      /\ \A i \in 1..(Len(seq) - 1) : rest[i] = IF i < n THEN seq[i] ELSE seq[i + 1]
  BY RemovedFacts
<1> DEFINE from(i) == IF i < n THEN i ELSE i + 1
<1>3. \A i \in DOMAIN rest : from(i) \in DOMAIN seq /\ from(i) # n /\ rest[i] = seq[from(i)]
  BY <1>1, <1>2
<1>4. \A i, j \in DOMAIN rest : /\ from(i) = from(j) => i = j
                                /\ from(i) <= from(j) => i <= j
  BY <1>1, <1>2
<1>5. \A m \in DOMAIN seq : m # n => \E i \in DOMAIN rest : from(i) = m
  <2> SUFFICES ASSUME NEW m \in DOMAIN seq, m # n PROVE \E i \in DOMAIN rest : from(i) = m
    OBVIOUS
  <2>1. CASE m < n
    BY <1>1, <1>2, <2>1
  <2>2. CASE m > n
    <3>1. m - 1 \in DOMAIN rest /\ from(m - 1) = m
      BY <1>1, <1>2, <2>2
    <3> QED
      BY <3>1
  <2> QED
    BY <1>1, <2>1, <2>2
<1> HIDE DEF from
<1>6. \A i, j \in DOMAIN rest : rest[i] = rest[j] => i = j
  BY <1>3, <1>4
<1>7. /\ \A i \in DOMAIN rest : \E m \in DOMAIN seq : m # n /\ rest[i] = seq[m]
      /\ \A m \in DOMAIN seq : m # n => \E i \in DOMAIN rest : rest[i] = seq[m]
  BY <1>3, <1>5
<1>8. \A k, l \in DOMAIN rest : \E i, j \in DOMAIN seq :
        rest[k] = seq[i] /\ rest[l] = seq[j] /\ (i <= j => k <= l)
  BY <1>3, <1>4
<1> QED
  BY <1>2, <1>6, <1>7, <1>8

(***************************************************************************)
(* The invariant: what steps that end nothing change                       *)
(***************************************************************************)

LEMMA UnitInitInv == Init => UnitIInv
<1> SUFFICES ASSUME Init PROVE UnitIInv
  OBVIOUS
<1> USE DEF Init
<1>1. Opened = {} /\ Listed = {} /\ Live = {} /\ DOMAIN open = {} /\ DOMAIN list = {}
  BY DEF Opened, Listed, Live
<1>2. UnitTypeOK
  BY DEF UnitTypeOK, Modes
<1>3. NothingLeftOpen /\ ScopesOK /\ AttachedOK /\ VotesOK
  BY <1>1 DEF NothingLeftOpen, ScopesOK, AttachedOK, VotesOK
<1>4. ListOK /\ BlocksNest /\ ChangesOK
  BY <1>1 DEF ListOK, BlocksNest, ChangesOK
<1> QED
  BY <1>2, <1>3, <1>4 DEF UnitIInv

\* A step of the sessions leaves scopes and transactions alone.
LEMMA DataStep ==
  ASSUME UnitIInv, UNCHANGED <<scopeVars, transactionVars>>,
         unsaved' \subseteq Changes, saved' \subseteq Changes, durable' \subseteq Changes,
         \A w \in unsaved' \cup saved' : w.tx \in Live \cup {None},
         \A w \in saved' : w.tx \in Deferring,
         \A w \in durable' : w.tx \in Deferring => w.tx \notin Live,
         \A w \in durable' : w.tx # None => kind[w.tx] # "unused"
  PROVE  UnitIInv'
<1> USE DEF scopeVars, transactionVars
<1>1. Opened' = Opened /\ Listed' = Listed /\ Live' = Live /\ Deferring' = Deferring
  BY DEF Opened, Listed, Live, Deferring
<1>2. UnitTypeOK'
  BY DEF UnitIInv, UnitTypeOK
<1>3. NothingLeftOpen' /\ ScopesOK' /\ VotesOK' /\ AttachedOK'
  BY <1>1 DEF UnitIInv, NothingLeftOpen, ScopesOK, AttachedOK, VotesOK
<1>4. ListOK' /\ BlocksNest'
  BY <1>1 DEF UnitIInv, ListOK, BlocksNest
<1>5. ChangesOK'
  BY <1>1 DEF ChangesOK
<1> QED
  BY <1>2, <1>3, <1>4, <1>5 DEF UnitIInv

\* The current transaction is the first of the list, if there is one.
LEMMA CurrentFacts ==
  ASSUME UnitIInv
  PROVE  /\ Current \in Transactions \cup {None}
         /\ Author \in Scopes \cup {None}
         /\ Current # None => Current \in Listed /\ list # <<>> /\ kind[Current] # "unused"
         /\ Current \notin spoiled => Current \in Live \cup {None}
<1>1. open \in Seq(Scopes) /\ list \in Seq(Transactions)
  BY DEF UnitIInv, UnitTypeOK
<1>2. Author \in Scopes \cup {None}
  BY <1>1, TakeFirst DEF Author
<1>3. CASE list = <<>>
  BY <1>2, <1>3 DEF Current
<1>4. CASE list # <<>>
  <2>1. Current = list[1] /\ 1 \in DOMAIN list
    BY <1>1, <1>4, TakeFirst DEF Current
  <2>2. Current \in Listed
    BY <2>1 DEF Listed
  <2>3. Current \in Transactions /\ kind[Current] # "unused"
    BY <1>1, <2>1, <2>2, LenProperties, ElementOfSeq DEF UnitIInv, ListOK
  <2> QED
    BY <1>2, <1>4, <2>2, <2>3 DEF Live
<1> QED
  BY <1>3, <1>4

\* A change is made in the innermost transaction that is listed.
LEMMA ChangeInv ==
  ASSUME UnitIInv, NEW session \in Sessions, Change(session)
  PROVE  UnitIInv'
<1> DEFINE w == [tx |-> Current, by |-> Author, session |-> session]
<1>1. w \in Changes /\ w.tx = Current /\ Current \in Live \cup {None}
  BY CurrentFacts DEF Change, CanChange, Changes
<1>2. UNCHANGED <<scopeVars, transactionVars>>
  BY DEF Change
<1> HIDE DEF w
<1>3. CASE unsaved' = unsaved \cup {w} /\ UNCHANGED <<saved, durable>>
  BY <1>1, <1>2, <1>3, DataStep DEF UnitIInv, UnitTypeOK, ChangesOK
<1>4. CASE list = <<>> /\ Save(None, {w} \cup In(session, Of(None, unsaved)))
  <2>1. w.tx = None
    BY <1>1, <1>4 DEF Current
  <2>2. /\ unsaved' \subseteq unsaved /\ saved' = saved
        /\ \A v \in durable' : v \in durable \/ (v \in Changes /\ v.tx = None)
    BY <1>1, <1>4, <2>1 DEF Save, In, Of, UnitIInv, UnitTypeOK
  <2>3. None \notin Deferring
    BY DEF Deferring
  <2> QED
    BY <1>2, <2>2, <2>3, DataStep DEF UnitIInv, UnitTypeOK, ChangesOK
<1> QED
  BY <1>3, <1>4 DEF Change, w

\* Where the transaction defers, what is saved is not durable yet.
LEMMA SaveChangesInv ==
  ASSUME UnitIInv, NEW session \in Sessions, SaveChanges(session)
  PROVE  UnitIInv'
<1> DEFINE now == In(session, Of(Current, unsaved))
<1>1. Current \in Live \cup {None} /\ (Current # None => kind[Current] # "unused")
  BY CurrentFacts DEF SaveChanges
<1>2. \A v \in now : v \in unsaved /\ v.tx = Current
  BY DEF In, Of
<1>3. unsaved' = unsaved \ now /\ UNCHANGED <<scopeVars, transactionVars>>
  BY DEF SaveChanges, Save
<1>4. CASE Current # None /\ kind[Current] = "required"
  <2>1. saved' = saved \cup now /\ UNCHANGED durable
    BY <1>4 DEF SaveChanges, Save
  <2>2. Current \in Deferring
    BY <1>1, <1>4 DEF Deferring, Live, Listed, UnitIInv, UnitTypeOK
  <2> QED
    BY <1>1, <1>2, <1>3, <2>1, <2>2, DataStep DEF UnitIInv, UnitTypeOK, ChangesOK
<1>5. CASE ~(Current # None /\ kind[Current] = "required")
  <2>1. durable' = durable \cup now /\ UNCHANGED saved
    BY <1>5 DEF SaveChanges, Save
  <2>2. Current \notin Deferring
    BY <1>5 DEF Deferring
  <2> QED
    BY <1>1, <1>2, <1>3, <2>1, <2>2, DataStep DEF UnitIInv, UnitTypeOK, ChangesOK
<1> QED
  BY <1>4, <1>5

(***************************************************************************)
(* The invariant: a block begins                                           *)
(***************************************************************************)

\* What the beginning of a block does to the stack of blocks.
LEMMA OpenFacts ==
  ASSUME UnitIInv, NEW s \in Scopes, scope[s].mode = None, open' = <<s>> \o open
  PROVE  /\ open' \in Seq(Scopes)
         /\ Opened' = Opened \cup {s} /\ s \notin Opened \cup completed
         /\ \A i \in DOMAIN open' :
              \/ i = 1 /\ open'[i] = s
              \/ i > 1 /\ i - 1 \in DOMAIN open /\ open'[i] = open[i - 1]
         /\ \A i, j \in DOMAIN open' : open'[i] = open'[j] => i = j
<1>1. open \in Seq(Scopes) /\ Len(open) \in Nat /\ DOMAIN open = 1..Len(open)
  BY LenProperties DEF UnitIInv, UnitTypeOK
<1>2. /\ open' \in Seq(Scopes)
      /\ DOMAIN open' = 1..(Len(open) + 1) /\ open'[1] = s
      /\ \A i \in DOMAIN open : open'[i + 1] = open[i]
  BY <1>1, PutFirst
<1>3. \A i \in DOMAIN open' :
        \/ i = 1 /\ open'[i] = s
        \/ i > 1 /\ i - 1 \in DOMAIN open /\ open'[i] = open[i - 1]
  <2> SUFFICES ASSUME NEW i \in DOMAIN open', i # 1
               PROVE  i > 1 /\ i - 1 \in DOMAIN open /\ open'[i] = open[i - 1]
    BY <1>2
  <2>1. i > 1 /\ i - 1 \in DOMAIN open /\ (i - 1) + 1 = i
    BY <1>1, <1>2
  <2> QED
    BY <1>2, <2>1
<1>4. s \notin Opened \cup completed
  BY DEF UnitIInv, ScopesOK
<1>5. Opened' = Opened \cup {s}
  <2>1. \A i \in DOMAIN open : i + 1 \in DOMAIN open' /\ open'[i + 1] = open[i]
    BY <1>1, <1>2
  <2>2. 1 \in DOMAIN open'
    BY <1>1, <1>2
  <2>3. s \in Opened'
    BY <1>2, <2>2 DEF Opened
  <2>4. Opened \subseteq Opened'
    <3> SUFFICES ASSUME NEW i \in DOMAIN open PROVE open[i] \in Opened'
      BY DEF Opened
    <3> DEFINE k == i + 1
    <3>1. k \in DOMAIN open' /\ open'[k] = open[i]
      BY <2>1
    <3> HIDE DEF k
    <3> QED
      BY <3>1 DEF Opened
  <2>5. Opened' \subseteq Opened \cup {s}
    BY <1>3 DEF Opened
  <2> QED
    BY <2>3, <2>4, <2>5
<1>6. \A i, j \in DOMAIN open' : open'[i] = open'[j] => i = j
  <2>1. \A i \in DOMAIN open : open[i] # s
    BY <1>4 DEF Opened
  <2>2. ASSUME NEW i \in DOMAIN open', NEW j \in DOMAIN open', open'[i] = open'[j],
               i > 1, j > 1
        PROVE  i = j
    <3>1. i - 1 \in DOMAIN open /\ j - 1 \in DOMAIN open /\ open[i - 1] = open[j - 1]
      BY <1>3, <2>2
    <3>2. i - 1 = j - 1
      BY <3>1 DEF UnitIInv, BlocksNest
    <3> QED
      BY <1>1, <1>2, <3>2
  <2> QED
    BY <1>3, <2>1, <2>2
<1> QED
  BY <1>2, <1>3, <1>4, <1>5, <1>6

\* What a new transaction does to the list.
LEMMA EnlistedFirst ==
  ASSUME UnitIInv, NEW t \in Transactions, kind[t] = "unused",
         list' = <<t>> \o list, UNCHANGED spoiled
  PROVE  /\ list' \in Seq(Transactions) /\ 1 \in DOMAIN list' /\ list'[1] = t
         /\ Len(list) \in Nat /\ DOMAIN list = 1..Len(list)
         /\ DOMAIN list' = 1..(Len(list) + 1)
         /\ \A k \in DOMAIN list' :
              \/ k = 1 /\ list'[k] = t
              \/ k > 1 /\ k - 1 \in DOMAIN list /\ list'[k] = list[k - 1]
         /\ t \notin Listed /\ t \notin spoiled /\ \A o \in Scopes : scope[o].tx # t
         /\ Listed' = Listed \cup {t} /\ Live' = Live \cup {t}
<1>1. UnitTypeOK /\ ListOK /\ ScopesOK /\ None # t
  BY DEF UnitIInv
<1>2. /\ list \in Seq(Transactions) /\ list' \in Seq(Transactions)
      /\ Len(list) \in Nat /\ DOMAIN list = 1..Len(list)
      /\ DOMAIN list' = 1..(Len(list) + 1) /\ list'[1] = t
      /\ \A i \in DOMAIN list : list'[i + 1] = list[i]
  BY <1>1, PutFirst, LenProperties DEF UnitTypeOK
<1>3. t \notin Listed /\ t \notin spoiled /\ \A o \in Scopes : scope[o].tx # t
  BY <1>1 DEF ListOK, ScopesOK
<1>4. \A k \in DOMAIN list' :
        \/ k = 1 /\ list'[k] = t
        \/ k > 1 /\ k - 1 \in DOMAIN list /\ list'[k] = list[k - 1]
  <2> SUFFICES ASSUME NEW k \in DOMAIN list', k # 1
               PROVE  k > 1 /\ k - 1 \in DOMAIN list /\ list'[k] = list[k - 1]
    BY <1>2
  <2>1. k > 1 /\ k - 1 \in DOMAIN list /\ (k - 1) + 1 = k
    BY <1>2
  <2> QED
    BY <1>2, <2>1
<1>5. Listed' = Listed \cup {t}
  <2>1. t \in Listed'
    <3>1. 1 \in DOMAIN list'
      BY <1>2
    <3> QED
      BY <1>2, <3>1 DEF Listed
  <2>2. Listed \subseteq Listed'
    <3> SUFFICES ASSUME NEW i \in DOMAIN list PROVE list[i] \in Listed'
      BY DEF Listed
    <3> DEFINE k == i + 1
    <3>1. k \in DOMAIN list' /\ list'[k] = list[i]
      BY <1>2
    <3> HIDE DEF k
    <3> QED
      BY <3>1 DEF Listed
  <2>3. Listed' \subseteq Listed \cup {t}
    BY <1>4 DEF Listed
  <2> QED
    BY <2>1, <2>2, <2>3
<1>6. Live' = Live \cup {t}
  BY <1>3, <1>5 DEF Live
<1>7. 1 \in DOMAIN list'
  BY <1>2
<1> QED
  BY <1>2, <1>3, <1>4, <1>5, <1>6, <1>7

\* A block with a transaction of its own: nothing was known of it before.
LEMMA EnlistNewInv ==
  ASSUME UnitIInv, NEW s \in Scopes, NEW mode \in Modes, scope[s].mode = None,
         open' = <<s>> \o open, EnlistNew(s, mode),
         UNCHANGED <<autoComplete, completed, voted, spoiled, data>>
  PROVE  UnitIInv'
<1>1. PICK t \in Transactions :
        /\ kind[t] = "unused"
        /\ kind' = [kind EXCEPT ![t] = IF mode = "Supress" THEN "suppress" ELSE "required"]
        /\ attached' = [attached EXCEPT ![t] = {s}]
        /\ list' = <<t>> \o list
        /\ scope' = [scope EXCEPT ![s] = [mode |-> mode, tx |-> t]]
  BY DEF EnlistNew
<1>2. UnitTypeOK /\ None \notin Modes /\ None # t /\ Deferring \subseteq Transactions
  BY DEF UnitIInv, Deferring
<1>3. /\ open' \in Seq(Scopes)
      /\ Opened' = Opened \cup {s} /\ s \notin Opened \cup completed
      /\ \A i \in DOMAIN open' :
           \/ i = 1 /\ open'[i] = s
           \/ i > 1 /\ i - 1 \in DOMAIN open /\ open'[i] = open[i - 1]
      /\ \A i, j \in DOMAIN open' : open'[i] = open'[j] => i = j
  BY OpenFacts
<1>4. /\ list' \in Seq(Transactions)
      /\ \A k \in DOMAIN list' :
           \/ k = 1 /\ list'[k] = t
           \/ k > 1 /\ k - 1 \in DOMAIN list /\ list'[k] = list[k - 1]
      /\ t \notin Listed /\ t \notin spoiled /\ \A o \in Scopes : scope[o].tx # t
      /\ Len(list) \in Nat /\ DOMAIN list = 1..Len(list)
      /\ DOMAIN list' = 1..(Len(list) + 1)
      /\ Listed' = Listed \cup {t} /\ Live' = Live \cup {t}
  BY <1>1, EnlistedFirst
<1>5. /\ scope'[s].mode = mode /\ scope'[s].tx = t
      /\ \A o \in Scopes \ {s} : scope'[o] = scope[o]
      /\ scope' \in [Scopes -> [mode : Modes \cup {None}, tx : Transactions \cup {None}]]
  BY <1>1, <1>2 DEF UnitTypeOK
<1>6. /\ kind'[t] \in {"suppress", "required"}
      /\ \A u \in Transactions \ {t} : kind'[u] = kind[u]
      /\ kind' \in [Transactions -> {"unused", "required", "suppress"}]
  BY <1>1, <1>2 DEF UnitTypeOK
<1>7. /\ attached'[t] = {s}
      /\ \A u \in Transactions \ {t} : attached'[u] = attached[u]
      /\ attached' \in [Transactions -> SUBSET Scopes]
  BY <1>1, <1>2 DEF UnitTypeOK
<1>8. UNCHANGED <<autoComplete, completed, voted, spoiled, unsaved, saved, durable>>
  BY DEF data
<1>9. UnitTypeOK'
  <2>1. list' \in Seq(Transactions) /\ open' \in Seq(Scopes)
    BY <1>3, <1>4
  <2>2. /\ scope' \in [Scopes -> [mode : Modes \cup {None}, tx : Transactions \cup {None}]]
        /\ kind' \in [Transactions -> {"unused", "required", "suppress"}]
        /\ attached' \in [Transactions -> SUBSET Scopes]
    BY <1>5, <1>6, <1>7
  <2> QED
    BY <1>2, <1>8, <2>1, <2>2 DEF UnitTypeOK
<1>10. \A o \in Scopes : scope[o].tx \in Transactions \cup {None}
  BY <1>2 DEF UnitTypeOK
<1>11. Listed \subseteq Transactions /\ Opened \subseteq Scopes
  BY <1>2, LenProperties, ElementOfSeq DEF Listed, Opened, UnitTypeOK
<1>12. ScopesOK'
  <2>0. ScopesOK
    BY DEF UnitIInv
  <2>1. mode # None
    BY <1>2
  <2>2. \A o \in Scopes : (scope'[o].mode = None) = (scope'[o].tx = None)
    BY <1>2, <1>5, <2>0, <2>1 DEF ScopesOK
  <2>3. completed \subseteq Scopes
    BY <1>2 DEF UnitTypeOK
  <2>4. \A o \in Opened' \cup completed' : scope'[o].mode # None
    BY <1>3, <1>5, <1>8, <1>11, <2>0, <2>1, <2>3 DEF ScopesOK
  <2>5. \A o \in Scopes : scope'[o].tx # None => kind'[scope'[o].tx] # "unused"
    BY <1>4, <1>5, <1>6, <1>10, <2>0 DEF ScopesOK
  <2> QED
    BY <2>2, <2>4, <2>5 DEF ScopesOK
<1>13. AttachedOK'
  <2>1. Opened' = Opened \cup {s} /\ s \notin Opened \cup completed
    BY <1>3
  <2>2. \A o \in Scopes : scope[o].tx # t
    BY <1>4
  <2> SUFFICES ASSUME NEW u \in Transactions, NEW o
               PROVE  o \in attached'[u] <=> o \in Opened' \ completed' /\ scope'[o].tx = u
    BY DEF AttachedOK
  <2>3. o \in attached[u] <=> o \in Opened \ completed /\ scope[o].tx = u
    BY DEF UnitIInv, AttachedOK
  <2>4. CASE o = s
    BY <1>5, <1>7, <1>8, <2>1, <2>3, <2>4
  <2>5. CASE o # s
    <3>1. o \in Opened' \ completed' <=> o \in Opened \ completed
      BY <1>8, <2>1, <2>5
    <3>2. o \in Opened => scope'[o] = scope[o] /\ scope[o].tx # t
      BY <1>5, <1>11, <2>2, <2>5
    <3>3. o \in attached'[u] <=> o \in attached[u] /\ u # t
      BY <1>7, <1>11, <2>2, <2>3, <2>5
    <3> QED
      BY <2>3, <3>1, <3>2, <3>3
  <2> QED
    BY <2>4, <2>5
<1>14. NothingLeftOpen'
  <2>1. \A u \in Live' : attached'[u] # {} /\ attached'[u] \subseteq Opened'
    <3> SUFFICES ASSUME NEW u \in Live' PROVE attached'[u] # {} /\ attached'[u] \subseteq Opened'
      OBVIOUS
    <3>1. CASE u = t
      BY <1>3, <1>7, <3>1
    <3>2. CASE u # t
      <4>1. u \in Live /\ u \in Transactions
        BY <1>4, <1>11, <3>2 DEF Live
      <4> QED
        BY <1>3, <1>7, <3>2, <4>1 DEF UnitIInv, NothingLeftOpen
    <3> QED
      BY <3>1, <3>2
  <2>2. ASSUME NEW o \in Opened' \ completed'
        PROVE  scope'[o].tx \in Listed' /\ o \in attached'[scope'[o].tx]
    <3>1. t \in Listed' /\ Listed \subseteq Listed' /\ t \notin Listed
      BY <1>4
    <3>2. CASE o = s
      BY <1>5, <1>7, <3>1, <3>2
    <3>3. CASE o # s
      <4>1. o \in Opened \ completed /\ scope'[o] = scope[o]
        BY <1>3, <1>5, <1>8, <1>11, <3>3
      <4>2. scope[o].tx \in Listed /\ o \in attached[scope[o].tx]
        BY <4>1 DEF UnitIInv, NothingLeftOpen
      <4> QED
        BY <1>7, <1>11, <3>1, <4>1, <4>2
    <3> QED
      BY <3>2, <3>3
  <2> QED
    BY <2>1, <2>2 DEF NothingLeftOpen
<1>15. VotesOK'
  <2>0. VotesOK /\ Live \subseteq Transactions
    BY <1>11 DEF UnitIInv, Live
  <2>1. ASSUME NEW o \in Scopes, scope'[o].tx \in Live'
        PROVE  o \in voted' \cup attached'[scope'[o].tx]
    <3>1. CASE o = s
      BY <1>5, <1>7, <3>1
    <3>2. CASE o # s
      <4>1. scope'[o] = scope[o] /\ scope[o].tx # t /\ scope[o].tx \in Live
        BY <1>4, <1>5, <2>1, <3>2
      <4>2. attached'[scope[o].tx] = attached[scope[o].tx]
        BY <1>7, <2>0, <4>1
      <4> QED
        BY <1>8, <2>0, <4>1, <4>2 DEF VotesOK
    <3> QED
      BY <3>1, <3>2
  <2> QED
    BY <1>8, <2>0, <2>1 DEF VotesOK
<1>16. ListOK'
  <2>1. ASSUME NEW i \in DOMAIN list', NEW j \in DOMAIN list', list'[i] = list'[j]
        PROVE  i = j
    <3>1. \A k \in DOMAIN list : list[k] # t
      BY <1>4 DEF Listed
    <3>2. CASE i = 1 \/ j = 1
      BY <1>4, <2>1, <3>1, <3>2
    <3>3. CASE i > 1 /\ j > 1
      <4>1. i - 1 \in DOMAIN list /\ j - 1 \in DOMAIN list /\ list[i - 1] = list[j - 1]
        BY <1>4, <2>1, <3>3
      <4>2. i - 1 = j - 1
        BY <4>1 DEF UnitIInv, ListOK
      <4> QED
        BY <1>4, <4>2
    <3> QED
      BY <1>4, <3>2, <3>3
  <2>2. spoiled' \subseteq Listed' /\ \A u \in Listed' : kind'[u] # "unused"
    BY <1>4, <1>6, <1>8, <1>11 DEF UnitIInv, ListOK
  <2> QED
    BY <2>1, <2>2 DEF ListOK
<1>17. BlocksNest'
  <2>a. \A i, j \in DOMAIN open' : open'[i] = open'[j] => i = j
    BY <1>3
  <2> SUFFICES \A i, j \in DOMAIN open' : \A k, l \in DOMAIN list' :
                 /\ i < j /\ {open'[i], open'[j]} \cap completed' = {}
                 /\ scope'[open'[i]].tx = list'[k] /\ scope'[open'[j]].tx = list'[l]
                 => k <= l
    BY <2>a, Zenon DEF BlocksNest
  <2> SUFFICES ASSUME NEW i \in DOMAIN open', NEW j \in DOMAIN open',
                      NEW k \in DOMAIN list', NEW l \in DOMAIN list',
                      i < j, {open'[i], open'[j]} \cap completed' = {},
                      scope'[open'[i]].tx = list'[k], scope'[open'[j]].tx = list'[l]
               PROVE  k <= l
    OBVIOUS
  <2>1. \A o \in Opened : o \in Scopes /\ scope'[o] = scope[o] /\ scope'[o].tx # t
    BY <1>3, <1>4, <1>5, <1>11
  <2>2. j > 1 /\ j - 1 \in DOMAIN open /\ open'[j] = open[j - 1]
    BY <1>3
  <2>3. open[j - 1] \in Opened /\ l > 1 /\ l - 1 \in DOMAIN list /\ list'[l] = list[l - 1]
    BY <1>4, <2>1, <2>2 DEF Opened
  <2>4. CASE k = 1
    BY <1>4, <2>3, <2>4
  <2>5. CASE k > 1
    <3>1. i # 1
      <4>1. list'[k] # t
        <5>1. k - 1 \in DOMAIN list /\ list'[k] = list[k - 1]
          BY <1>4, <2>5
        <5>2. t \notin Listed
          BY <1>4
        <5> QED
          BY <5>1, <5>2 DEF Listed
      <4>2. i = 1 => open'[i] = s
        BY <1>3
      <4> QED
        BY <1>5, <4>1, <4>2
    <3>2. i - 1 \in DOMAIN open /\ open'[i] = open[i - 1] /\ open[i - 1] \in Opened
      BY <1>3, <3>1 DEF Opened
    <3>3. k - 1 \in DOMAIN list /\ list'[k] = list[k - 1]
      BY <1>4, <2>5
    <3>4. i - 1 < j - 1
      BY <1>3, <2>2, <3>2, LenProperties
    <3>5. k - 1 <= l - 1
      BY <1>8, <2>1, <2>2, <2>3, <3>2, <3>3, <3>4 DEF UnitIInv, BlocksNest
    <3> QED
      BY <1>4, <3>5
  <2> QED
    BY <1>4, <2>4, <2>5
<1>18. ChangesOK'
  <2>1. \A w \in Changes : w.tx \in Transactions \cup {None}
    BY DEF Changes
  <2>2. \A u \in Transactions \ {t} : u \in Deferring' <=> u \in Deferring
    BY <1>6 DEF Deferring
  <2>3. t \notin Deferring /\ t \notin Live
    BY <1>1, <1>4 DEF Deferring, Live
  <2>4. ChangesOK /\ Live \subseteq Transactions
    BY <1>11 DEF UnitIInv, Live
  <2>5. /\ unsaved' = unsaved /\ saved' = saved /\ durable' = durable
        /\ \A w \in unsaved \cup saved \cup durable : w.tx \in Transactions \cup {None}
    BY <1>2, <1>8, <2>1 DEF UnitTypeOK
  <2>6. \A w \in unsaved' \cup saved' : w.tx \in Live' \cup {None}
    BY <1>4, <2>4, <2>5 DEF ChangesOK
  <2>7. \A w \in saved' : w.tx \in Deferring'
    BY <1>2, <2>2, <2>3, <2>4, <2>5 DEF ChangesOK
  <2>8. \A w \in durable' : w.tx # t
    BY <1>1, <1>2, <2>4, <2>5 DEF ChangesOK
  <2>9. \A w \in durable' : w.tx \in Deferring' => w.tx \notin Live'
    <3> SUFFICES ASSUME NEW w \in durable, w.tx \in Deferring' PROVE w.tx \notin Live'
      BY <2>5
    <3>1. w.tx # t /\ w.tx \in Transactions
      BY <2>5, <2>8 DEF Deferring
    <3>2. w.tx \in Deferring
      BY <2>2, <3>1
    <3> QED
      BY <1>4, <2>4, <3>1, <3>2 DEF ChangesOK
  <2>10. \A w \in durable' : w.tx # None => kind'[w.tx] # "unused"
    BY <1>6, <2>4, <2>5, <2>8 DEF ChangesOK
  <2> QED
    BY <2>6, <2>7, <2>9, <2>10 DEF ChangesOK
<1> QED
  BY <1>9, <1>12, <1>13, <1>14, <1>15, <1>16, <1>17, <1>18 DEF UnitIInv

\* A block that takes part in the current transaction, which may be spoiled.
LEMMA EnlistCurrentInv ==
  ASSUME UnitIInv, NEW s \in Scopes, NEW mode \in Modes, scope[s].mode = None,
         open' = <<s>> \o open, EnlistCurrent(s, mode),
         UNCHANGED <<autoComplete, completed, voted, spoiled, data>>
  PROVE  UnitIInv'
<1> DEFINE t == Head(list)
<1>1. /\ list # <<>>
      /\ attached' = [attached EXCEPT ![t] = @ \cup {s}]
      /\ scope' = [scope EXCEPT ![s] = [mode |-> mode, tx |-> t]]
      /\ UNCHANGED <<autoComplete, completed, voted, list, kind, spoiled, unsaved, saved, durable>>
  BY DEF EnlistCurrent, data
<1>2. UnitTypeOK /\ None \notin Modes
  BY DEF UnitIInv
<1>3. /\ open' \in Seq(Scopes)
      /\ Opened' = Opened \cup {s} /\ s \notin Opened \cup completed
      /\ \A i \in DOMAIN open' :
           \/ i = 1 /\ open'[i] = s
           \/ i > 1 /\ i - 1 \in DOMAIN open /\ open'[i] = open[i - 1]
      /\ \A i, j \in DOMAIN open' : open'[i] = open'[j] => i = j
  BY OpenFacts
<1>4. /\ 1 \in DOMAIN list /\ DOMAIN list = 1..Len(list) /\ Len(list) \in Nat
      /\ t = list[1] /\ t \in Transactions /\ t \in Listed /\ t # None /\ kind[t] # "unused"
  <2>1. list \in Seq(Transactions)
    BY <1>2 DEF UnitTypeOK
  <2>2. 1 \in DOMAIN list /\ DOMAIN list = 1..Len(list) /\ Len(list) \in Nat /\ t = list[1]
    BY <1>1, <2>1, TakeFirst
  <2>3. t \in Transactions
    BY <2>1, <2>2, ElementOfSeq
  <2>4. t \in Listed
    BY <2>2 DEF Listed
  <2> QED
    BY <2>2, <2>3, <2>4 DEF UnitIInv, ListOK
<1> HIDE DEF t
<1>5. Listed' = Listed /\ Live' = Live /\ Deferring' = Deferring /\ Live \subseteq Listed
  BY <1>1 DEF Listed, Live, Deferring
<1>6. /\ scope'[s].mode = mode /\ scope'[s].tx = t
      /\ \A o \in Scopes \ {s} : scope'[o] = scope[o]
      /\ scope' \in [Scopes -> [mode : Modes \cup {None}, tx : Transactions \cup {None}]]
  BY <1>1, <1>2, <1>4 DEF UnitTypeOK
<1>7. /\ attached'[t] = attached[t] \cup {s}
      /\ \A u \in Transactions \ {t} : attached'[u] = attached[u]
      /\ attached' \in [Transactions -> SUBSET Scopes]
  BY <1>1, <1>2, <1>4 DEF UnitTypeOK
<1>8. Listed \subseteq Transactions /\ Opened \subseteq Scopes /\ completed \subseteq Scopes
  BY <1>2, LenProperties, ElementOfSeq DEF Listed, Opened, UnitTypeOK
<1>9. UnitTypeOK'
  BY <1>1, <1>2, <1>3, <1>6, <1>7 DEF UnitTypeOK
<1>10. ScopesOK'
  <2>0. ScopesOK
    BY DEF UnitIInv
  <2>1. mode # None
    BY <1>2
  <2>2. \A o \in Scopes : (scope'[o].mode = None) = (scope'[o].tx = None)
    BY <1>4, <1>6, <2>0, <2>1 DEF ScopesOK
  <2>3. \A o \in Opened' \cup completed' : scope'[o].mode # None
    BY <1>1, <1>3, <1>6, <1>8, <2>0, <2>1 DEF ScopesOK
  <2>4. \A o \in Scopes : scope'[o].tx # None => kind'[scope'[o].tx] # "unused"
    BY <1>1, <1>4, <1>6, <2>0 DEF ScopesOK
  <2> QED
    BY <2>2, <2>3, <2>4 DEF ScopesOK
<1>11. AttachedOK'
  <2> SUFFICES ASSUME NEW u \in Transactions
               PROVE  attached'[u] = {o \in Opened' \ completed' : scope'[o].tx = u}
    BY DEF AttachedOK
  <2>1. attached[u] = {o \in Opened \ completed : scope[o].tx = u}
    BY DEF UnitIInv, AttachedOK
  <2>2. \A o : o \in Opened' \ completed' <=> o \in Opened \ completed \/ o = s
    BY <1>1, <1>3
  <2>3. \A o \in Opened \ completed : scope'[o] = scope[o]
    BY <1>3, <1>6, <1>8
  <2>4. attached'[u] = attached[u] \cup {o \in {s} : u = t}
    BY <1>7
  <2>5. ASSUME NEW o PROVE o \in attached'[u] <=> o \in Opened' \ completed' /\ scope'[o].tx = u
    <3>1. CASE o = s
      BY <1>3, <1>6, <2>1, <2>2, <2>4, <3>1
    <3>2. CASE o # s
      BY <2>1, <2>2, <2>3, <2>4, <3>2
    <3> QED
      BY <3>1, <3>2
  <2> QED
    BY <2>5
<1>12. NothingLeftOpen'
  <2>0. NothingLeftOpen
    BY DEF UnitIInv
  <2>1. ASSUME NEW u \in Live' PROVE attached'[u] # {} /\ attached'[u] \subseteq Opened'
    <3>1. u \in Live /\ u \in Transactions
      BY <1>5, <1>8
    <3>2. attached'[u] \in {attached[u], attached[u] \cup {s}}
      BY <1>7, <3>1
    <3> QED
      BY <1>3, <2>0, <3>1, <3>2 DEF NothingLeftOpen
  <2>2. ASSUME NEW o \in Opened' \ completed'
        PROVE  scope'[o].tx \in Listed' /\ o \in attached'[scope'[o].tx]
    <3>1. CASE o = s
      BY <1>4, <1>5, <1>6, <1>7, <3>1
    <3>2. CASE o # s
      <4>1. o \in Opened \ completed /\ scope'[o] = scope[o]
        BY <1>1, <1>3, <1>6, <1>8, <3>2
      <4>2. scope[o].tx \in Listed /\ o \in attached[scope[o].tx]
        BY <2>0, <4>1 DEF NothingLeftOpen
      <4> QED
        BY <1>5, <1>7, <1>8, <4>1, <4>2
    <3> QED
      BY <3>1, <3>2
  <2> QED
    BY <2>1, <2>2 DEF NothingLeftOpen
<1>13. VotesOK'
  <2>0. VotesOK
    BY DEF UnitIInv
  <2>1. ASSUME NEW o \in Scopes, scope'[o].tx \in Live'
        PROVE  o \in voted' \cup attached'[scope'[o].tx]
    <3>1. CASE o = s
      BY <1>6, <1>7, <3>1
    <3>2. CASE o # s
      <4>1. scope'[o] = scope[o] /\ scope[o].tx \in Live
        BY <1>5, <1>6, <2>1, <3>2
      <4>2. attached[scope[o].tx] \subseteq attached'[scope[o].tx]
        BY <1>5, <1>7, <1>8, <4>1
      <4> QED
        BY <1>1, <2>0, <4>1, <4>2 DEF VotesOK
    <3> QED
      BY <3>1, <3>2
  <2> QED
    BY <1>1, <2>0, <2>1 DEF VotesOK
<1>14. ListOK' /\ ChangesOK'
  BY <1>1, <1>5 DEF UnitIInv, ListOK, ChangesOK
<1>15. BlocksNest'
  <2>a. \A i, j \in DOMAIN open' : open'[i] = open'[j] => i = j
    BY <1>3
  <2> SUFFICES \A i, j \in DOMAIN open' : \A k, l \in DOMAIN list' :
                 /\ i < j /\ {open'[i], open'[j]} \cap completed' = {}
                 /\ scope'[open'[i]].tx = list'[k] /\ scope'[open'[j]].tx = list'[l]
                 => k <= l
    BY <2>a, Zenon DEF BlocksNest
  <2> SUFFICES ASSUME NEW i \in DOMAIN open', NEW j \in DOMAIN open',
                      NEW k \in DOMAIN list', NEW l \in DOMAIN list',
                      i < j, {open'[i], open'[j]} \cap completed' = {},
                      scope'[open'[i]].tx = list'[k], scope'[open'[j]].tx = list'[l]
               PROVE  k <= l
    OBVIOUS
  <2>0. list' = list /\ completed' = completed
    BY <1>1
  <2>1. \A o \in Opened : o \in Scopes /\ scope'[o] = scope[o]
    BY <1>3, <1>6, <1>8
  <2>2. j > 1 /\ j - 1 \in DOMAIN open /\ open'[j] = open[j - 1] /\ open[j - 1] \in Opened
    BY <1>3 DEF Opened
  <2>3. CASE i = 1
    <3>1. list[k] = list[1]
      BY <1>3, <1>4, <1>6, <2>0, <2>3
    <3>2. k = 1
      BY <1>4, <2>0, <3>1 DEF UnitIInv, ListOK
    <3> QED
      BY <1>4, <2>0, <3>2
  <2>4. CASE i > 1
    <3>1. i - 1 \in DOMAIN open /\ open'[i] = open[i - 1] /\ open[i - 1] \in Opened
      BY <1>3, <2>4 DEF Opened
    <3>2. i - 1 < j - 1
      BY <1>3, LenProperties
    <3> QED
      BY <2>0, <2>1, <2>2, <3>1, <3>2 DEF UnitIInv, BlocksNest
  <2> QED
    BY <1>3, <2>3, <2>4
<1> QED
  BY <1>9, <1>10, <1>11, <1>12, <1>13, <1>14, <1>15 DEF UnitIInv

(***************************************************************************)
(* The invariant: a scope votes, or its block ends                         *)
(***************************************************************************)

\* What a step does that commits or rolls back the innermost scope, whose block
\* may end with it.
LEMMA CloseFacts ==
  ASSUME UnitIInv, open # <<>>, open' \in {open, Tail(open)}
  PROVE  /\ open' \in Seq(Scopes) /\ Head(open) \in Opened /\ Opened \subseteq Scopes
         /\ Opened' \subseteq Opened /\ Opened \subseteq Opened' \cup {Head(open)}
         /\ \A i, j \in DOMAIN open' : open'[i] = open'[j] => i = j
         /\ \A i, j \in DOMAIN open' : \E m, n \in DOMAIN open :
              open'[i] = open[m] /\ open'[j] = open[n] /\ (i < j => m < n)
<1>1. open \in Seq(Scopes)
  BY DEF UnitIInv, UnitTypeOK
<1>2. /\ Tail(open) \in Seq(Scopes) /\ Head(open) = open[1] /\ 1 \in DOMAIN open
      /\ DOMAIN Tail(open) = 1..(Len(open) - 1)
      /\ Len(open) \in Nat \ {0} /\ DOMAIN open = 1..Len(open)
      /\ \A i \in DOMAIN Tail(open) : i + 1 \in DOMAIN open /\ Tail(open)[i] = open[i + 1]
  BY <1>1, TakeFirst
<1>3. /\ Head(open) \in Opened /\ Opened \subseteq Scopes
      /\ \A i, j \in DOMAIN open : open[i] = open[j] => i = j
  BY <1>1, <1>2, ElementOfSeq DEF Opened, UnitIInv, BlocksNest
<1>4. CASE open' = open
  BY <1>1, <1>3, <1>4 DEF Opened
<1>5. CASE open' = Tail(open)
  <2>1. DOMAIN open' = 1..(Len(open) - 1) /\ open' \in Seq(Scopes)
    BY <1>2, <1>5
  <2>2. \A i \in DOMAIN open' : i \in Nat /\ i + 1 \in DOMAIN open /\ open'[i] = open[i + 1]
    BY <1>2, <1>5
  <2>3. Opened' \subseteq Opened
    BY <2>2 DEF Opened
  <2>4. Opened \subseteq Opened' \cup {Head(open)}
    <3> SUFFICES ASSUME NEW i \in DOMAIN open, i # 1 PROVE open[i] \in Opened'
      BY <1>2 DEF Opened
    <3> DEFINE k == i - 1
    <3>1. k \in DOMAIN open' /\ k + 1 = i
      BY <1>2, <2>1
    <3>2. open'[k] = open[i]
      BY <2>2, <3>1
    <3> HIDE DEF k
    <3> QED
      BY <3>1, <3>2 DEF Opened
  <2>5. ASSUME NEW i \in DOMAIN open', NEW j \in DOMAIN open', open'[i] = open'[j]
        PROVE  i = j
    <3>1. i + 1 = j + 1
      BY <1>3, <2>2, <2>5
    <3> QED
      BY <2>2, <3>1
  <2>6. ASSUME NEW i \in DOMAIN open', NEW j \in DOMAIN open'
        PROVE  \E m, n \in DOMAIN open :
                 open'[i] = open[m] /\ open'[j] = open[n] /\ (i < j => m < n)
    <3> DEFINE m == i + 1
               n == j + 1
    <3>1. /\ m \in DOMAIN open /\ n \in DOMAIN open
          /\ open'[i] = open[m] /\ open'[j] = open[n] /\ (i < j => m < n)
      BY <2>2
    <3> HIDE DEF m, n
    <3> QED
      BY <3>1
  <2> QED
    BY <1>3, <2>1, <2>3, <2>4, <2>5, <2>6
<1> QED
  BY <1>4, <1>5

\* The innermost scope, when it has not been completed: it takes part in a listed
\* transaction.
LEMMA InnermostFacts ==
  ASSUME UnitIInv, open # <<>>, Head(open) \notin completed
  PROVE  LET s == Head(open)
             t == scope[s].tx
         IN  /\ s \in Scopes /\ s \in Opened /\ t \in Transactions /\ t \in Listed
             /\ s \in attached[t] /\ kind[t] # "unused"
<1>1. Head(open) \in Opened /\ Opened \subseteq Scopes
  <2>1. open \in Seq(Scopes)
    BY DEF UnitIInv, UnitTypeOK
  <2> QED
    BY <2>1, TakeFirst, LenProperties, ElementOfSeq DEF Opened
<1>2. /\ scope[Head(open)].tx \in Listed
      /\ Head(open) \in attached[scope[Head(open)].tx]
  BY <1>1 DEF UnitIInv, NothingLeftOpen
<1>3. Listed \subseteq Transactions
  BY LenProperties, ElementOfSeq DEF Listed, UnitIInv, UnitTypeOK
<1> QED
  BY <1>1, <1>2, <1>3 DEF UnitIInv, ListOK

\* The order of the blocks stays the order of the list, when neither gets a new
\* member and each keeps its own order.
LEMMA NestingKept ==
  ASSUME UnitIInv, UNCHANGED scope, completed \subseteq completed',
         \A i, j \in DOMAIN open' : open'[i] = open'[j] => i = j,
         \A i, j \in DOMAIN open' : \E m, n \in DOMAIN open :
           open'[i] = open[m] /\ open'[j] = open[n] /\ (i < j => m < n),
         \A k, l \in DOMAIN list' : \E i, j \in DOMAIN list :
           list'[k] = list[i] /\ list'[l] = list[j] /\ (i <= j => k <= l)
  PROVE  BlocksNest'
<1> SUFFICES ASSUME NEW i \in DOMAIN open', NEW j \in DOMAIN open',
                    NEW k \in DOMAIN list', NEW l \in DOMAIN list',
                    i < j, {open'[i], open'[j]} \cap completed' = {},
                    scope'[open'[i]].tx = list'[k], scope'[open'[j]].tx = list'[l]
             PROVE  k <= l
  BY DEF BlocksNest
<1>1. PICK m \in DOMAIN open, n \in DOMAIN open :
        open'[i] = open[m] /\ open'[j] = open[n] /\ (i < j => m < n)
  OBVIOUS
<1>2. PICK p \in DOMAIN list, q \in DOMAIN list :
        list'[k] = list[p] /\ list'[l] = list[q] /\ (p <= q => k <= l)
  OBVIOUS
<1>3. {open[m], open[n]} \cap completed = {}
  BY <1>1
<1>4. scope[open[m]].tx = list[p] /\ scope[open[n]].tx = list[q] /\ m < n
  BY <1>1, <1>2
<1>5. p <= q
  BY <1>3, <1>4 DEF UnitIInv, BlocksNest
<1> QED
  BY <1>2, <1>5

\* A transaction ends with the last of its scopes, or because one was left
\* without a commit: all its scopes are completed, what is undecided of it is
\* gone, and only changes of it became durable.
LEMMA EndTransaction ==
  ASSUME UnitIInv, open # <<>>, Head(open) \notin completed, open' \in {open, Tail(open)},
         NEW t, t = scope[Head(open)].tx,
         completed' = completed \cup {Head(open)} \cup attached[t],
         attached' = [attached EXCEPT ![t] = {}],
         voted' \in {voted, voted \cup {Head(open)}},
         unsaved' = unsaved \ Of(t, unsaved), saved' = saved \ Of(t, saved),
         durable \subseteq durable',
         \A w \in durable' \ durable : w \in Changes /\ w.tx = t,
         UNCHANGED <<autoComplete, scope, kind>>,
         list' \in Seq(Transactions),
         Listed \ {t} \subseteq Listed', Listed' \subseteq Listed,
         Live' = Live \ {t},
         spoiled' \subseteq Listed', spoiled' \subseteq Transactions,
         \A i, j \in DOMAIN list' : list'[i] = list'[j] => i = j,
         \A k, l \in DOMAIN list' : \E i, j \in DOMAIN list :
           list'[k] = list[i] /\ list'[l] = list[j] /\ (i <= j => k <= l)
  PROVE  UnitIInv'
<1> DEFINE s == Head(open)
<1>1. /\ UnitTypeOK /\ NothingLeftOpen /\ ScopesOK /\ AttachedOK /\ VotesOK
      /\ ListOK /\ BlocksNest /\ ChangesOK
  BY DEF UnitIInv
<1>2. /\ s \in Scopes /\ s \in Opened /\ t \in Transactions /\ t \in Listed
      /\ s \in attached[t] /\ kind[t] # "unused"
  BY InnermostFacts
<1>3. /\ open' \in Seq(Scopes) /\ Opened \subseteq Scopes
      /\ Opened' \subseteq Opened /\ Opened \subseteq Opened' \cup {s}
      /\ \A i, j \in DOMAIN open' : open'[i] = open'[j] => i = j
      /\ \A i, j \in DOMAIN open' : \E m, n \in DOMAIN open :
           open'[i] = open[m] /\ open'[j] = open[n] /\ (i < j => m < n)
  BY CloseFacts
<1> HIDE DEF s
<1>4. /\ attached'[t] = {} /\ \A u \in Transactions \ {t} : attached'[u] = attached[u]
      /\ attached' \in [Transactions -> SUBSET Scopes]
      /\ attached[t] \subseteq Scopes
  BY <1>1, <1>2 DEF UnitTypeOK
<1>5. Live \subseteq Transactions /\ Listed \subseteq Transactions
  BY <1>1, LenProperties, ElementOfSeq DEF Live, Listed, UnitTypeOK
<1>6. UnitTypeOK'
  BY <1>1, <1>2, <1>3, <1>4 DEF UnitTypeOK, s
<1>7. \A o : o \in Opened' \ completed' <=> o \in Opened \ completed /\ o \notin attached[t]
  BY <1>2, <1>3 DEF s
<1>8. \A o \in Opened \ completed : o \notin attached[t] <=> scope[o].tx # t
  BY <1>1, <1>2 DEF AttachedOK
<1>9. ScopesOK'
  <2>1. Opened' \cup completed' \subseteq Opened \cup completed
    BY <1>1, <1>2, <1>3 DEF AttachedOK, s
  <2> QED
    BY <1>1, <2>1 DEF ScopesOK
<1>10. AttachedOK'
  <2> SUFFICES ASSUME NEW u \in Transactions, NEW o
               PROVE  o \in attached'[u] <=> o \in Opened' \ completed' /\ scope'[o].tx = u
    BY DEF AttachedOK
  <2>1. o \in attached[u] <=> o \in Opened \ completed /\ scope[o].tx = u
    BY <1>1 DEF AttachedOK
  <2>2. scope' = scope
    OBVIOUS
  <2>3. CASE u = t
    BY <1>4, <1>7, <1>8, <2>2, <2>3
  <2>4. CASE u # t
    BY <1>4, <1>7, <1>8, <2>1, <2>2, <2>4
  <2> QED
    BY <2>3, <2>4
<1>11. NothingLeftOpen'
  <2>1. ASSUME NEW u \in Live' PROVE attached'[u] # {} /\ attached'[u] \subseteq Opened'
    <3>1. u \in Live /\ u # t /\ u \in Transactions
      BY <1>5
    <3>2. attached'[u] = attached[u] /\ attached[u] # {}
      BY <1>1, <1>4, <3>1 DEF NothingLeftOpen
    <3>3. s \notin attached[u]
      BY <1>1, <1>2, <3>1 DEF AttachedOK, s
    <3> QED
      BY <1>1, <1>3, <3>1, <3>2, <3>3 DEF NothingLeftOpen
  <2>2. ASSUME NEW o \in Opened' \ completed'
        PROVE  scope'[o].tx \in Listed' /\ o \in attached'[scope'[o].tx]
    <3>1. o \in Opened \ completed /\ scope[o].tx # t /\ scope' = scope
      BY <1>7, <1>8
    <3>2. scope[o].tx \in Listed /\ o \in attached[scope[o].tx]
      BY <1>1, <3>1 DEF NothingLeftOpen
    <3> QED
      BY <1>4, <1>5, <3>1, <3>2
  <2> QED
    BY <2>1, <2>2 DEF NothingLeftOpen
<1>12. VotesOK'
  <2>1. ASSUME NEW o \in Scopes, scope'[o].tx \in Live'
        PROVE  o \in voted' \cup attached'[scope'[o].tx]
    <3>1. scope' = scope /\ scope[o].tx \in Live /\ scope[o].tx # t
      BY <2>1
    <3>2. o \in voted \cup attached[scope[o].tx]
      BY <1>1, <3>1 DEF VotesOK
    <3> QED
      BY <1>4, <1>5, <3>1, <3>2
  <2>2. voted' \subseteq completed'
    BY <1>1 DEF VotesOK
  <2> QED
    BY <2>1, <2>2 DEF VotesOK
<1>13. ListOK'
  BY <1>1 DEF ListOK
<1>14. BlocksNest'
  BY <1>3, NestingKept
<1>15. ChangesOK'
  <2>1. \A w \in unsaved' \cup saved' : w.tx \in Live' \cup {None}
    BY <1>1 DEF ChangesOK, Of
  <2>2. \A w \in saved' : w.tx \in Deferring'
    BY <1>1 DEF ChangesOK, Deferring
  <2>3. \A w \in durable' : w.tx \in Deferring' => w.tx \notin Live'
    BY <1>1 DEF ChangesOK, Deferring
  <2>4. \A w \in durable' : w.tx # None => kind'[w.tx] # "unused"
    BY <1>1, <1>2 DEF ChangesOK
  <2> QED
    BY <2>1, <2>2, <2>3, <2>4 DEF ChangesOK
<1> QED
  BY <1>6, <1>9, <1>10, <1>11, <1>12, <1>13, <1>14, <1>15 DEF UnitIInv

\* What the end of a transaction does to the list.
LEMMA DisposedFacts ==
  ASSUME UnitIInv, NEW t \in Listed, NEW done, DisposeTransaction(t, done)
  PROVE  /\ list' \in Seq(Transactions)
         /\ \A i, j \in DOMAIN list' : list'[i] = list'[j] => i = j
         /\ \A k, l \in DOMAIN list' : \E i, j \in DOMAIN list :
              list'[k] = list[i] /\ list'[l] = list[j] /\ (i <= j => k <= l)
         /\ Listed' = Listed \ {t} /\ Live' = Live \ {t}
         /\ spoiled' \subseteq Listed' /\ spoiled' \subseteq Transactions
<1>1. UnitTypeOK /\ ListOK
  BY DEF UnitIInv
<1>2. list' = RemoveFirst(list, t) /\ spoiled' = spoiled \ {t}
  BY DEF DisposeTransaction
<1>3. PICK n \in DOMAIN list : list[n] = t
  BY DEF Listed
<1>4. /\ list' \in Seq(Transactions)
      /\ \A i, j \in DOMAIN list' : list'[i] = list'[j] => i = j
      /\ \A i \in DOMAIN list' : \E m \in DOMAIN list : m # n /\ list'[i] = list[m]
      /\ \A m \in DOMAIN list : m # n => \E i \in DOMAIN list' : list'[i] = list[m]
      /\ \A k, l \in DOMAIN list' : \E i, j \in DOMAIN list :
           list'[k] = list[i] /\ list'[l] = list[j] /\ (i <= j => k <= l)
  <2>1. list \in Seq(Transactions) /\ list' = RemoveFirst(list, list[n])
    BY <1>1, <1>2, <1>3 DEF UnitTypeOK
  <2>2. \A i, j \in DOMAIN list : list[i] = list[j] => i = j
    BY <1>1 DEF ListOK
  <2> DEFINE rest == RemoveFirst(list, list[n])
  <2>3. /\ rest \in Seq(Transactions)
        /\ \A i, j \in DOMAIN rest : rest[i] = rest[j] => i = j
        /\ \A i \in DOMAIN rest : \E m \in DOMAIN list : m # n /\ rest[i] = list[m]
        /\ \A m \in DOMAIN list : m # n => \E i \in DOMAIN rest : rest[i] = list[m]
        /\ \A k, l \in DOMAIN rest : \E i, j \in DOMAIN list :
             rest[k] = list[i] /\ rest[l] = list[j] /\ (i <= j => k <= l)
    <3>1. list \in Seq(Transactions)
      BY <2>1
    <3> QED
      BY <2>2, <3>1, RemovedOrder
  <2>4. list' = rest
    BY <2>1
  <2> HIDE DEF rest
  <2> QED
    BY <2>3, <2>4
<1>5. Listed' = Listed \ {t}
  <2>1. ASSUME NEW x \in Listed' PROVE x \in Listed /\ x # t
    BY <1>1, <1>3, <1>4, <2>1 DEF Listed, ListOK
  <2>2. ASSUME NEW x \in Listed, x # t PROVE x \in Listed'
    BY <1>3, <1>4, <2>2 DEF Listed
  <2> QED
    BY <2>1, <2>2
<1>6. spoiled' = spoiled \ {t}
  BY <1>2
<1>7. Live' = Live \ {t} /\ spoiled' \subseteq Listed' /\ spoiled' \subseteq Transactions
  BY <1>1, <1>5, <1>6 DEF Live, ListOK, UnitTypeOK
<1> QED
  BY <1>4, <1>5, <1>7

\* UnitOfWorkTransaction.Dispose ends the transaction, and the manager forgets it.
LEMMA DisposeTransactionInv ==
  ASSUME UnitIInv, open # <<>>, Head(open) \notin completed, open' \in {open, Tail(open)},
         DisposeTransaction(scope[Head(open)].tx, {Head(open)}),
         voted' \in {voted, voted \cup {Head(open)}},
         durable \subseteq durable',
         \A w \in durable' \ durable : w \in Changes /\ w.tx = scope[Head(open)].tx,
         UNCHANGED <<autoComplete, scope>>
  PROVE  UnitIInv'
<1> DEFINE t == scope[Head(open)].tx
<1>1. t \in Listed
  BY InnermostFacts
<1> HIDE DEF t
<1>2. DisposeTransaction(t, {Head(open)}) /\ t = scope[Head(open)].tx
  BY DEF t
<1>3. /\ list' \in Seq(Transactions)
      /\ \A i, j \in DOMAIN list' : list'[i] = list'[j] => i = j
      /\ \A k, l \in DOMAIN list' : \E i, j \in DOMAIN list :
           list'[k] = list[i] /\ list'[l] = list[j] /\ (i <= j => k <= l)
      /\ Listed' = Listed \ {t} /\ Live' = Live \ {t}
      /\ spoiled' \subseteq Listed' /\ spoiled' \subseteq Transactions
  BY <1>1, <1>2, DisposedFacts
<1>4. /\ completed' = completed \cup {Head(open)} \cup attached[t]
      /\ attached' = [attached EXCEPT ![t] = {}]
      /\ unsaved' = unsaved \ Of(t, unsaved) /\ saved' = saved \ Of(t, saved)
      /\ UNCHANGED kind
  BY <1>2 DEF DisposeTransaction
<1> QED
  BY <1>2, <1>3, <1>4, EndTransaction

LEMMA CommitAllInv ==
  ASSUME UnitIInv, open # <<>>, Head(open) \notin completed, open' \in {open, Tail(open)},
         CommitAll(Head(open)), voted' = voted \cup {Head(open)},
         UNCHANGED <<autoComplete, scope>>
  PROVE  UnitIInv'
<1> DEFINE t == scope[Head(open)].tx
<1>1. /\ DisposeTransaction(t, {Head(open)})
      /\ durable' = durable \cup Of(t, unsaved \cup saved)
  BY DEF CommitAll
<1>2. unsaved \subseteq Changes /\ saved \subseteq Changes
  BY DEF UnitIInv, UnitTypeOK
<1>3. \A w \in durable' \ durable : w \in Changes /\ w.tx = t
  BY <1>1, <1>2 DEF Of
<1>4. durable \subseteq durable'
  BY <1>1
<1> QED
  BY <1>1, <1>3, <1>4, DisposeTransactionInv

LEMMA FlushFailsInv ==
  ASSUME UnitIInv, open # <<>>, Head(open) \notin completed, open' \in {open, Tail(open)},
         FlushFails(Head(open)), voted' = voted \cup {Head(open)},
         UNCHANGED <<autoComplete, scope>>
  PROVE  UnitIInv'
<1> DEFINE t == scope[Head(open)].tx
<1>1. /\ DisposeTransaction(t, {Head(open)})
      /\ \E flushed \in SUBSET Sessions :
           durable' = IF kind[t] = "suppress" /\ t \notin spoiled
                      THEN durable \cup {w \in Of(t, unsaved) : w.session \in flushed}
                      ELSE durable
  BY DEF FlushFails
<1>2. unsaved \subseteq Changes
  BY DEF UnitIInv, UnitTypeOK
<1>3. durable \subseteq durable' /\ \A w \in durable' \ durable : w \in Changes /\ w.tx = t
  BY <1>1, <1>2 DEF Of
<1> QED
  BY <1>1, <1>3, DisposeTransactionInv

LEMMA RollingBackInv ==
  ASSUME UnitIInv, open # <<>>, Head(open) \notin completed, open' \in {open, Tail(open)},
         OnScopeRollingBack(Head(open)), UNCHANGED <<autoComplete, scope>>
  PROVE  UnitIInv'
<1>1. /\ DisposeTransaction(scope[Head(open)].tx, {Head(open)})
      /\ UNCHANGED <<durable, voted>>
  BY DEF OnScopeRollingBack
<1>2. durable \subseteq durable' /\ durable' \ durable = {}
  BY <1>1
<1> QED
  BY <1>1, <1>2, DisposeTransactionInv

\* The transaction whose commit failed stays in the list, but is not live.
LEMMA CommitFailsInv ==
  ASSUME UnitIInv, open # <<>>, Head(open) \notin completed, open' \in {open, Tail(open)},
         CommitFails(Head(open)), voted' = voted \cup {Head(open)},
         UNCHANGED <<autoComplete, scope>>
  PROVE  UnitIInv'
<1> DEFINE t == scope[Head(open)].tx
<1>1. t \in Listed /\ t \in Transactions /\ UnitTypeOK /\ ListOK
  BY InnermostFacts DEF UnitIInv
<1>2. /\ attached[t] = {Head(open)}
      /\ attached' = [attached EXCEPT ![t] = {}]
      /\ completed' = completed \cup {Head(open)}
      /\ spoiled' = spoiled \cup {t}
      /\ unsaved' = unsaved \ Of(t, unsaved)
      /\ saved' = saved \ Of(t, saved)
      /\ UNCHANGED <<list, kind, durable>>
  BY DEF CommitFails
<1>3. t = scope[Head(open)].tx
  OBVIOUS
<1> HIDE DEF t
<1>4. Listed' = Listed
  BY <1>2 DEF Listed
<1>5. Live' = Live \ {t} /\ spoiled' \subseteq Listed' /\ spoiled' \subseteq Transactions
  BY <1>1, <1>2, <1>4 DEF Live, ListOK, UnitTypeOK
<1>6. /\ list' \in Seq(Transactions)
      /\ \A i, j \in DOMAIN list' : list'[i] = list'[j] => i = j
      /\ \A k, l \in DOMAIN list' : \E i, j \in DOMAIN list :
           list'[k] = list[i] /\ list'[l] = list[j] /\ (i <= j => k <= l)
  BY <1>1, <1>2 DEF UnitTypeOK, ListOK
<1>7. completed' = completed \cup {Head(open)} \cup attached[t]
  BY <1>2
<1>8. durable \subseteq durable' /\ durable' \ durable = {}
  BY <1>2
<1> QED
  BY <1>2, <1>3, <1>4, <1>5, <1>6, <1>7, <1>8, EndTransaction

\* Another scope of the transaction has not voted yet.
LEMMA CommitWaitsInv ==
  ASSUME UnitIInv, open # <<>>, Head(open) \notin completed, open' \in {open, Tail(open)},
         CommitWaits(Head(open)), voted' = voted \cup {Head(open)},
         UNCHANGED <<autoComplete, scope>>
  PROVE  UnitIInv'
<1> DEFINE s == Head(open)
           t == scope[s].tx
<1>1. /\ UnitTypeOK /\ NothingLeftOpen /\ ScopesOK /\ AttachedOK /\ VotesOK
      /\ ListOK /\ BlocksNest /\ ChangesOK
  BY DEF UnitIInv
<1>2. /\ s \in Scopes /\ s \in Opened /\ t \in Transactions /\ t \in Listed
      /\ s \in attached[t]
  BY InnermostFacts
<1>3. /\ open' \in Seq(Scopes) /\ Opened \subseteq Scopes
      /\ Opened' \subseteq Opened /\ Opened \subseteq Opened' \cup {s}
      /\ \A i, j \in DOMAIN open' : open'[i] = open'[j] => i = j
      /\ \A i, j \in DOMAIN open' : \E m, n \in DOMAIN open :
           open'[i] = open[m] /\ open'[j] = open[n] /\ (i < j => m < n)
  BY CloseFacts
<1>4. /\ attached[t] # {s}
      /\ attached' = [attached EXCEPT ![t] = @ \ {s}]
      /\ completed' = completed \cup {s} /\ voted' = voted \cup {s}
      /\ UNCHANGED <<list, kind, spoiled, unsaved, saved, durable, autoComplete, scope>>
  BY DEF CommitWaits, data
<1>5. t = scope[s].tx /\ s \notin completed
  OBVIOUS
<1> HIDE DEF s, t
<1>6. /\ attached'[t] = attached[t] \ {s}
      /\ \A u \in Transactions \ {t} : attached'[u] = attached[u]
      /\ attached' \in [Transactions -> SUBSET Scopes]
  BY <1>1, <1>2, <1>4 DEF UnitTypeOK
<1>7. Listed' = Listed /\ Live' = Live /\ Deferring' = Deferring
  BY <1>4 DEF Listed, Live, Deferring
<1>8. UnitTypeOK'
  BY <1>1, <1>2, <1>3, <1>4, <1>6 DEF UnitTypeOK
<1>9. \A o : o \in Opened' \ completed' <=> o \in Opened \ completed /\ o # s
  BY <1>3, <1>4
<1>10. ScopesOK'
  <2>1. Opened' \cup completed' \subseteq Opened \cup completed
    BY <1>2, <1>3, <1>4
  <2> QED
    BY <1>1, <1>4, <2>1 DEF ScopesOK
<1>11. AttachedOK'
  <2> SUFFICES ASSUME NEW u \in Transactions, NEW o
               PROVE  o \in attached'[u] <=> o \in Opened' \ completed' /\ scope'[o].tx = u
    BY DEF AttachedOK
  <2>1. o \in attached[u] <=> o \in Opened \ completed /\ scope[o].tx = u
    BY <1>1 DEF AttachedOK
  <2>2. o \in attached'[u] <=> o \in attached[u] /\ o # s
    <3>1. CASE u = t
      BY <1>6, <3>1
    <3>2. CASE u # t
      BY <1>5, <1>6, <2>1, <3>2
    <3> QED
      BY <3>1, <3>2
  <2> QED
    BY <1>4, <1>9, <2>1, <2>2
<1>12. Listed \subseteq Transactions
  BY <1>1, LenProperties, ElementOfSeq DEF Listed, UnitTypeOK
<1>13. \A u \in Transactions : attached'[u] = attached[u] \ {s}
  BY <1>1, <1>5, <1>6 DEF AttachedOK
<1>14. NothingLeftOpen'
  <2>1. ASSUME NEW u \in Live' PROVE attached'[u] # {} /\ attached'[u] \subseteq Opened'
    <3>1. u \in Live /\ u \in Transactions
      BY <1>7, <1>12 DEF Live
    <3>2. attached[u] # {} /\ attached[u] \subseteq Opened
      BY <1>1, <3>1 DEF NothingLeftOpen
    <3>3. attached[u] # {s}
      BY <1>1, <1>4, <1>5, <3>1 DEF AttachedOK
    <3> QED
      BY <1>3, <1>13, <3>1, <3>2, <3>3
  <2>2. ASSUME NEW o \in Opened' \ completed'
        PROVE  scope'[o].tx \in Listed' /\ o \in attached'[scope'[o].tx]
    <3>1. o \in Opened \ completed /\ o # s /\ scope' = scope
      BY <1>4, <1>9
    <3>2. scope[o].tx \in Listed /\ o \in attached[scope[o].tx]
      BY <1>1, <3>1 DEF NothingLeftOpen
    <3> QED
      BY <1>7, <1>12, <1>13, <3>1, <3>2
  <2> QED
    BY <2>1, <2>2 DEF NothingLeftOpen
<1>15. VotesOK'
  <2>1. ASSUME NEW o \in Scopes, scope'[o].tx \in Live'
        PROVE  o \in voted' \cup attached'[scope'[o].tx]
    <3>1. scope' = scope /\ scope[o].tx \in Live /\ scope[o].tx \in Transactions
      BY <1>4, <1>7, <1>12, <2>1 DEF Live
    <3>2. o \in voted \cup attached[scope[o].tx]
      BY <1>1, <3>1 DEF VotesOK
    <3> QED
      BY <1>4, <1>13, <3>1, <3>2
  <2>2. voted' \subseteq completed'
    BY <1>1, <1>4 DEF VotesOK
  <2> QED
    BY <2>1, <2>2 DEF VotesOK
<1>16. ListOK' /\ ChangesOK'
  BY <1>1, <1>4, <1>7 DEF ListOK, ChangesOK
<1>17. \A k, l \in DOMAIN list' : \E i, j \in DOMAIN list :
         list'[k] = list[i] /\ list'[l] = list[j] /\ (i <= j => k <= l)
  BY <1>4
<1>18. BlocksNest'
  <2>1. completed \subseteq completed' /\ UNCHANGED scope
    BY <1>4
  <2> QED
    BY <1>3, <1>17, <2>1, NestingKept
<1> QED
  BY <1>8, <1>10, <1>11, <1>14, <1>15, <1>16, <1>18 DEF UnitIInv

LEMMA OnScopeCommittingInv ==
  ASSUME UnitIInv, open # <<>>, Head(open) \notin completed, open' \in {open, Tail(open)},
         OnScopeCommitting(Head(open)), UNCHANGED <<autoComplete, scope>>
  PROVE  UnitIInv'
<1> USE DEF OnScopeCommitting
<1>1. voted' = voted \cup {Head(open)}
  OBVIOUS
<1>2. CASE CommitWaits(Head(open))
  BY <1>1, <1>2, CommitWaitsInv
<1>3. CASE CommitAll(Head(open))
  BY <1>1, <1>3, CommitAllInv
<1>4. CASE FlushFails(Head(open))
  BY <1>1, <1>4, FlushFailsInv
<1>5. CASE CommitFails(Head(open))
  BY <1>1, <1>5, CommitFailsInv
<1> QED
  BY <1>2, <1>3, <1>4, <1>5

\* The end of a block whose scope has been completed before.
LEMMA EndedInv ==
  ASSUME UnitIInv, open # <<>>, Head(open) \in completed, open' = Tail(open),
         UNCHANGED <<autoComplete, scope, completed, voted, transactionVars, data>>
  PROVE  UnitIInv'
<1>1. /\ UnitTypeOK /\ NothingLeftOpen /\ ScopesOK /\ AttachedOK /\ VotesOK
      /\ ListOK /\ BlocksNest /\ ChangesOK
  BY DEF UnitIInv
<1>2. /\ open' \in Seq(Scopes) /\ Opened \subseteq Scopes
      /\ Opened' \subseteq Opened /\ Opened \subseteq Opened' \cup {Head(open)}
      /\ \A i, j \in DOMAIN open' : open'[i] = open'[j] => i = j
      /\ \A i, j \in DOMAIN open' : \E m, n \in DOMAIN open :
           open'[i] = open[m] /\ open'[j] = open[n] /\ (i < j => m < n)
  BY CloseFacts
<1>3. UNCHANGED <<autoComplete, scope, completed, voted, list, kind, attached, spoiled,
                  unsaved, saved, durable>>
  BY DEF transactionVars, data
<1>4. Listed' = Listed /\ Live' = Live /\ Deferring' = Deferring
  BY <1>3 DEF Listed, Live, Deferring
<1>5. \A o : o \in Opened' \ completed' <=> o \in Opened \ completed
  BY <1>2, <1>3
<1>6. UnitTypeOK'
  BY <1>1, <1>2, <1>3 DEF UnitTypeOK
<1>7. ScopesOK' /\ VotesOK' /\ ListOK' /\ ChangesOK'
  BY <1>1, <1>2, <1>3, <1>4 DEF ScopesOK, VotesOK, ListOK, ChangesOK
<1>8. AttachedOK'
  BY <1>1, <1>3, <1>5 DEF AttachedOK
<1>9. NothingLeftOpen'
  <2>1. Live \subseteq Transactions
    BY <1>1, LenProperties, ElementOfSeq DEF Live, Listed, UnitTypeOK
  <2>2. \A u \in Live : attached[u] \subseteq Opened \ completed
    BY <1>1, <2>1 DEF AttachedOK
  <2> QED
    BY <1>1, <1>3, <1>4, <1>5, <2>2 DEF NothingLeftOpen
<1>10. \A k, l \in DOMAIN list' : \E i, j \in DOMAIN list :
         list'[k] = list[i] /\ list'[l] = list[j] /\ (i <= j => k <= l)
  BY <1>3
<1>11. BlocksNest'
  BY <1>2, <1>3, <1>10, NestingKept
<1> QED
  BY <1>6, <1>7, <1>8, <1>9, <1>11 DEF UnitIInv

LEMMA UnitNextInv == UnitIInv /\ [Next]_vars => UnitIInv'
<1> SUFFICES ASSUME UnitIInv, [Next]_vars PROVE UnitIInv'
  OBVIOUS
<1>1. CASE Enlist
  <2>1. PICK s \in Scopes, mode \in Modes :
          /\ scope[s].mode = None
          /\ open' = <<s>> \o open
          /\ EnlistNew(s, mode) \/ EnlistCurrent(s, mode)
          /\ UNCHANGED <<autoComplete, completed, voted, spoiled, data>>
    BY <1>1 DEF Enlist
  <2>2. CASE EnlistNew(s, mode)
    BY <2>1, <2>2, EnlistNewInv
  <2>3. CASE EnlistCurrent(s, mode)
    BY <2>1, <2>3, EnlistCurrentInv
  <2> QED
    BY <2>1, <2>2, <2>3
<1>2. CASE Commit
  BY <1>2, OnScopeCommittingInv DEF Commit
<1>3. CASE Dispose
  <2>1. open # <<>> /\ open' = Tail(open) /\ UNCHANGED <<autoComplete, scope>>
    BY <1>3 DEF Dispose
  <2>2. CASE Head(open) \in completed /\ UNCHANGED <<completed, voted, transactionVars, data>>
    BY <2>1, <2>2, EndedInv
  <2>3. CASE Head(open) \notin completed /\ OnScopeCommitting(Head(open))
    BY <2>1, <2>3, OnScopeCommittingInv
  <2>4. CASE Head(open) \notin completed /\ OnScopeRollingBack(Head(open))
    BY <2>1, <2>4, RollingBackInv
  <2> QED
    BY <1>3, <2>2, <2>3, <2>4 DEF Dispose
<1>4. ASSUME NEW session \in Sessions, Change(session) PROVE UnitIInv'
  BY <1>4, ChangeInv
<1>5. ASSUME NEW session \in Sessions, SaveChanges(session) PROVE UnitIInv'
  BY <1>5, SaveChangesInv
<1>6. CASE UNCHANGED vars
  <2>1. UNCHANGED <<scopeVars, transactionVars>> /\ UNCHANGED <<unsaved, saved, durable>>
    BY <1>6 DEF vars, data
  <2>2. UnitTypeOK /\ ChangesOK
    BY DEF UnitIInv
  <2> QED
    BY <2>1, <2>2, DataStep DEF UnitTypeOK, ChangesOK
<1> QED
  BY <1>1, <1>2, <1>3, <1>4, <1>5, <1>6 DEF Next

\* UnitIInv holds however the blocks are nested, and whichever save or commit fails.
THEOREM UnitInvariant == Spec => []UnitIInv
<1>1. Init => UnitIInv
  BY UnitInitInv
<1>2. UnitIInv /\ [Next]_vars => UnitIInv'
  BY UnitNextInv
<1> QED
  BY <1>1, <1>2, PTL DEF Spec

\* Every transaction that lives has a scope whose block has not ended, and no scope
\* outlives its transaction unknowingly.
THEOREM NoTransactionIsLeft == Spec => []NothingLeftOpen
<1>1. UnitIInv => NothingLeftOpen
  BY DEF UnitIInv
<1> QED
  BY <1>1, UnitInvariant, PTL

(***************************************************************************)
(* Transactions end in the order opposite to that in which they began      *)
(***************************************************************************)

\* Only the transaction of the innermost scope ends in a step.
LEMMA OnlyInnermostEnds ==
  ASSUME UnitIInv, [Next]_vars, NEW t \in Live, t \notin Live'
  PROVE  open # <<>> /\ Head(open) \notin completed /\ t = scope[Head(open)].tx
<1>1. CASE Enlist
  <2>1. UnitTypeOK
    BY DEF UnitIInv
  <2>2. PICK s \in Scopes, mode \in Modes :
          /\ EnlistNew(s, mode) \/ EnlistCurrent(s, mode)
          /\ UNCHANGED spoiled
    BY <1>1 DEF Enlist
  <2>3. CASE EnlistNew(s, mode)
    <3>1. PICK u \in Transactions : kind[u] = "unused" /\ list' = <<u>> \o list
      BY <2>3 DEF EnlistNew
    <3>2. Live' = Live \cup {u}
      BY <2>2, <3>1, EnlistedFirst
    <3> QED
      BY <3>2
  <2>4. CASE EnlistCurrent(s, mode)
    BY <2>2, <2>4 DEF EnlistCurrent, Live, Listed
  <2> QED
    BY <2>2, <2>3, <2>4
<1>2. ASSUME open # <<>>, Head(open) \notin completed,
             OnScopeCommitting(Head(open)) \/ OnScopeRollingBack(Head(open))
      PROVE  t = scope[Head(open)].tx
  <2> DEFINE u == scope[Head(open)].tx
  <2>1. u \in Listed
    BY <1>2, InnermostFacts
  <2>2. CASE DisposeTransaction(u, {Head(open)})
    <3>1. Live' = Live \ {u}
      BY <2>1, <2>2, DisposedFacts
    <3> QED
      BY <3>1
  <2>3. CASE CommitWaits(Head(open)) \/ CommitFails(Head(open))
    BY <2>3 DEF CommitWaits, CommitFails, Live, Listed
  <2> QED
    BY <1>2, <2>2, <2>3 DEF OnScopeCommitting, OnScopeRollingBack, CommitAll, FlushFails
<1>3. CASE Commit
  BY <1>2, <1>3 DEF Commit
<1>4. CASE Dispose
  <2>1. CASE UNCHANGED transactionVars
    BY <2>1 DEF transactionVars, Live, Listed
  <2> QED
    BY <1>2, <1>4, <2>1 DEF Dispose
<1>5. CASE UNCHANGED transactionVars
  BY <1>5 DEF transactionVars, Live, Listed
<1> QED
  BY <1>1, <1>3, <1>4, <1>5 DEF Next, Change, SaveChanges, vars

\* A transaction that was begun after that of the innermost scope does not live: an
\* open scope of it would be one of a block further out.
LEMMA InnermostIsLast ==
  ASSUME UnitIInv, open # <<>>, Head(open) \notin completed,
         NEW i \in DOMAIN list, list[i] = scope[Head(open)].tx,
         NEW j \in 1..(i - 1)
  PROVE  list[j] \notin Live
<1> SUFFICES ASSUME list[j] \in Live PROVE FALSE
  OBVIOUS
<1>1. /\ UnitTypeOK /\ NothingLeftOpen /\ AttachedOK /\ ListOK /\ BlocksNest
  BY DEF UnitIInv
<1>2. /\ open \in Seq(Scopes) /\ list \in Seq(Transactions)
      /\ Len(list) \in Nat /\ DOMAIN list = 1..Len(list)
      /\ Len(open) \in Nat /\ DOMAIN open = 1..Len(open)
  BY <1>1, LenProperties DEF UnitTypeOK
<1>3. j \in DOMAIN list /\ ~(i <= j)
  BY <1>2
<1>4. list[j] # list[i]
  BY <1>1, <1>3 DEF ListOK
<1>5. list[j] \in Transactions
  BY <1>2, <1>3, ElementOfSeq
<1>6. PICK o \in attached[list[j]] : o \in Opened \ completed /\ scope[o].tx = list[j]
  BY <1>1, <1>5 DEF NothingLeftOpen, AttachedOK
<1>7. PICK n \in DOMAIN open : open[n] = o
  BY <1>6 DEF Opened
<1>8. Head(open) = open[1] /\ 1 \in DOMAIN open
  BY <1>2, TakeFirst
<1>9. 1 < n
  BY <1>2, <1>4, <1>6, <1>7, <1>8
<1>10. {open[1], open[n]} \cap completed = {}
  BY <1>6, <1>7, <1>8
<1>11. i <= j
  BY <1>1, <1>3, <1>6, <1>7, <1>8, <1>9, <1>10 DEF BlocksNest
<1> QED
  BY <1>3, <1>11

\* A transaction ends only when those that were begun after it have ended.
THEOREM TransactionsNest == Spec => TransactionScopesNest
<1>1. ASSUME UnitIInv, [Next]_vars, NEW i \in DOMAIN list,
             list[i] \in Live, list[i] \notin Live', NEW j \in 1..(i - 1)
      PROVE  list[j] \notin Live
  <2>1. open # <<>> /\ Head(open) \notin completed /\ list[i] = scope[Head(open)].tx
    BY <1>1, OnlyInnermostEnds
  <2> QED
    BY <1>1, <2>1, InnermostIsLast
<1>2. UnitIInv /\ [Next]_vars
        => [\A i \in DOMAIN list : list[i] \in Live /\ list[i] \notin Live'
              => \A j \in 1..(i - 1) : list[j] \notin Live]_vars
  BY <1>1
<1> QED
  BY <1>2, UnitInvariant, PTL DEF Spec, TransactionScopesNest

(***************************************************************************)
(* The units of work implement AtomicWork.  A change in a transaction that *)
(* does not defer, and one outside of all, is no change of the abstract    *)
(* specification; a vote that does not end a deferring transaction is only *)
(* that.                                                                   *)
(***************************************************************************)

LEMMA AtomicInit == Init => Atomic!Init
BY DEF Init, Atomic!Init, InTransaction, Deferring

\* What AtomicWork sees stays the same.
LEMMA AtomicStutter ==
  ASSUME UNCHANGED <<scope, voted>>,
         InTransaction(unsaved \cup saved)' = InTransaction(unsaved \cup saved),
         InTransaction(durable)' = InTransaction(durable),
         (Deferring \ Live)' = Deferring \ Live
  PROVE  UNCHANGED Atomic!vars
BY DEF Atomic!vars

\* The begin of a block is a Join: a new transaction has no changes yet.
LEMMA EnlistJoins ==
  ASSUME UnitIInv, Enlist
  PROVE  \E s \in Scopes, t \in Transactions : Atomic!Join(s, t)
<1>1. /\ UnitTypeOK /\ ScopesOK /\ ListOK /\ ChangesOK
  BY DEF UnitIInv
<1>2. PICK s \in Scopes, mode \in Modes :
        /\ scope[s].mode = None
        /\ EnlistNew(s, mode) \/ EnlistCurrent(s, mode)
        /\ UNCHANGED <<autoComplete, completed, voted, spoiled, data>>
  BY DEF Enlist
<1>3. UNCHANGED <<voted, spoiled, unsaved, saved, durable>>
  BY <1>2 DEF data
<1>4. scope[s].tx = None
  BY <1>1, <1>2 DEF ScopesOK
<1>5. ASSUME NEW t \in Transactions, scope' = [scope EXCEPT ![s] = [mode |-> mode, tx |-> t]],
             InTransaction(unsaved \cup saved)' = InTransaction(unsaved \cup saved),
             InTransaction(durable)' = InTransaction(durable),
             (Deferring \ Live)' = Deferring \ Live
      PROVE  Atomic!Join(s, t)
  <2>1. [o \in Scopes |-> scope'[o].tx] = [[o \in Scopes |-> scope[o].tx] EXCEPT ![s] = t]
    <3>1. \A o \in Scopes : scope'[o].tx = IF o = s THEN t ELSE scope[o].tx
      BY <1>1, <1>5 DEF UnitTypeOK
    <3> QED
      BY <3>1
  <2> QED
    BY <1>3, <1>4, <1>5, <2>1 DEF Atomic!Join
<1>6. CASE EnlistNew(s, mode)
  <2>1. PICK t \in Transactions :
          /\ kind[t] = "unused"
          /\ kind' = [kind EXCEPT ![t] = IF mode = "Supress" THEN "suppress" ELSE "required"]
          /\ list' = <<t>> \o list
          /\ scope' = [scope EXCEPT ![s] = [mode |-> mode, tx |-> t]]
    BY <1>6 DEF EnlistNew
  <2>2. Live' = Live \cup {t} /\ t \notin Listed
    BY <1>3, <2>1, EnlistedFirst
  <2>3. \A u : u # t => (u \in Deferring' <=> u \in Deferring)
    BY <1>1, <2>1 DEF Deferring, UnitTypeOK
  <2>4. t \notin Deferring
    BY <2>1 DEF Deferring
  <2>5. (Deferring \ Live)' = Deferring \ Live
    BY <2>2, <2>3, <2>4
  <2>6. t # None /\ t \notin Live
    BY <2>2 DEF Live
  <2>7. \A w \in unsaved \cup saved \cup durable : w.tx # t
    BY <1>1, <2>1, <2>6 DEF ChangesOK
  <2>8. /\ InTransaction(unsaved \cup saved)' = InTransaction(unsaved \cup saved)
        /\ InTransaction(durable)' = InTransaction(durable)
    BY <1>3, <2>3, <2>7 DEF InTransaction
  <2>9. Atomic!Join(s, t)
    BY <1>5, <2>1, <2>5, <2>8
  <2> QED
    BY <2>9
<1>7. CASE EnlistCurrent(s, mode)
  <2>1. PICK t \in Transactions : t = Head(list)
    BY <1>1, <1>7, TakeFirst, ElementOfSeq DEF EnlistCurrent, UnitTypeOK
  <2>2. /\ scope' = [scope EXCEPT ![s] = [mode |-> mode, tx |-> t]]
        /\ UNCHANGED <<list, kind>>
    BY <1>7, <2>1 DEF EnlistCurrent
  <2>3. Deferring' = Deferring /\ Live' = Live
    BY <1>3, <2>2 DEF Deferring, Live, Listed
  <2>4. /\ InTransaction(unsaved \cup saved)' = InTransaction(unsaved \cup saved)
        /\ InTransaction(durable)' = InTransaction(durable)
    BY <1>3, <2>3 DEF InTransaction
  <2>5. Atomic!Join(s, t)
    BY <1>5, <2>2, <2>3, <2>4
  <2> QED
    BY <2>5
<1> QED
  BY <1>2, <1>6, <1>7

\* A change is pending, unless nothing defers it.
LEMMA ChangeIsPending ==
  ASSUME UnitIInv, NEW session \in Sessions, Change(session)
  PROVE  (\E w \in Changes : Atomic!Change(w)) \/ UNCHANGED Atomic!vars
<1> DEFINE w == [tx |-> Current, by |-> Author, session |-> session]
<1>1. w \in Changes /\ w.tx = Current /\ Current \in Live \cup {None}
  BY CurrentFacts DEF Change, CanChange, Changes
<1>2. UNCHANGED <<scopeVars, transactionVars>>
  BY DEF Change
<1>3. UNCHANGED <<scope, voted>> /\ Deferring' = Deferring /\ Live' = Live
  BY <1>2 DEF scopeVars, transactionVars, Deferring, Live, Listed
<1>4. None \notin Deferring
  BY DEF Deferring
<1>5. \/ unsaved' = unsaved \cup {w} /\ UNCHANGED <<saved, durable>>
      \/ list = <<>> /\ Save(None, {w} \cup In(session, Of(None, unsaved)))
  BY DEF Change
<1> HIDE DEF w
<1>6. CASE unsaved' = unsaved \cup {w} /\ UNCHANGED <<saved, durable>> /\ w.tx \in Deferring
  <2>1. InTransaction(unsaved \cup saved)' = InTransaction(unsaved \cup saved) \cup {w}
    BY <1>3, <1>6 DEF InTransaction
  <2>2. InTransaction(durable)' = InTransaction(durable)
    BY <1>3, <1>6 DEF InTransaction
  <2>3. w.tx \notin Deferring \ Live
    BY <1>1, <1>4, <1>6
  <2>4. [s \in Scopes |-> scope[s].tx]' = [s \in Scopes |-> scope[s].tx]
    BY <1>3
  <2>5. Atomic!Change(w)
    BY <1>3, <2>1, <2>2, <2>3, <2>4 DEF Atomic!Change
  <2> QED
    BY <1>1, <2>5
<1>7. CASE unsaved' = unsaved \cup {w} /\ UNCHANGED <<saved, durable>> /\ w.tx \notin Deferring
  <2>1. /\ InTransaction(unsaved \cup saved)' = InTransaction(unsaved \cup saved)
        /\ InTransaction(durable)' = InTransaction(durable)
    BY <1>3, <1>7 DEF InTransaction
  <2> QED
    BY <1>3, <2>1, AtomicStutter
<1>8. CASE list = <<>> /\ Save(None, {w} \cup In(session, Of(None, unsaved)))
  <2> DEFINE now == {w} \cup In(session, Of(None, unsaved))
  <2>1. \A v \in now : v.tx \notin Deferring
    BY <1>1, <1>4, <1>8 DEF Current, In, Of
  <2>2. unsaved' = unsaved \ now /\ saved' = saved /\ durable' = durable \cup now
    BY <1>8 DEF Save
  <2> HIDE DEF now
  <2>3. /\ InTransaction(unsaved \cup saved)' = InTransaction(unsaved \cup saved)
        /\ InTransaction(durable)' = InTransaction(durable)
    BY <1>3, <2>1, <2>2 DEF InTransaction
  <2> QED
    BY <1>3, <2>3, AtomicStutter
<1> QED
  BY <1>5, <1>6, <1>7, <1>8

\* What is sent to the database is as pending as it was in the session.
LEMMA SaveChangesStutters ==
  ASSUME UnitIInv, NEW session \in Sessions, SaveChanges(session)
  PROVE  UNCHANGED Atomic!vars
<1> DEFINE now == In(session, Of(Current, unsaved))
<1>1. \A v \in now : v \in unsaved /\ v.tx = Current
  BY DEF In, Of
<1>2. Save(Current, now) /\ UNCHANGED <<scopeVars, transactionVars>>
  BY DEF SaveChanges
<1>3. UNCHANGED <<scope, voted>> /\ Deferring' = Deferring /\ Live' = Live
  BY <1>2 DEF scopeVars, transactionVars, Deferring, Live, Listed
<1> HIDE DEF now
<1>4. CASE Current # None /\ kind[Current] = "required"
  <2>1. unsaved' = unsaved \ now /\ saved' = saved \cup now /\ durable' = durable
    BY <1>2, <1>4 DEF Save
  <2>2. (unsaved \cup saved)' = unsaved \cup saved
    BY <1>1, <2>1
  <2>3. /\ InTransaction(unsaved \cup saved)' = InTransaction(unsaved \cup saved)
        /\ InTransaction(durable)' = InTransaction(durable)
    BY <1>3, <2>1, <2>2 DEF InTransaction
  <2> QED
    BY <1>3, <2>3, AtomicStutter
<1>5. CASE ~(Current # None /\ kind[Current] = "required")
  <2>1. unsaved' = unsaved \ now /\ saved' = saved /\ durable' = durable \cup now
    BY <1>2, <1>5 DEF Save
  <2>2. \A v \in now : v.tx \notin Deferring
    BY <1>1, <1>5 DEF Deferring
  <2>3. /\ InTransaction(unsaved \cup saved)' = InTransaction(unsaved \cup saved)
        /\ InTransaction(durable)' = InTransaction(durable)
    BY <1>3, <2>1, <2>2 DEF InTransaction
  <2> QED
    BY <1>3, <2>3, AtomicStutter
<1> QED
  BY <1>4, <1>5

\* What the end of a transaction is to AtomicWork: when the transaction defers, all
\* that is pending of it is decided; when it does not, nothing of it was pending.
LEMMA EndIsDecision ==
  ASSUME UnitIInv, NEW t, Live' = Live \ {t}, UNCHANGED kind,
         unsaved' = unsaved \ Of(t, unsaved), saved' = saved \ Of(t, saved)
  PROVE  /\ t \in Deferring =>
              /\ InTransaction(unsaved \cup saved)'
                   = InTransaction(unsaved \cup saved)
                       \ Atomic!Of(t, InTransaction(unsaved \cup saved))
              /\ (Deferring \ Live)' = (Deferring \ Live) \cup {t}
         /\ t \notin Deferring =>
              /\ InTransaction(unsaved \cup saved)' = InTransaction(unsaved \cup saved)
              /\ (Deferring \ Live)' = Deferring \ Live
<1>1. Deferring' = Deferring
  BY DEF Deferring
<1>2. ASSUME NEW w
      PROVE  w \in (unsaved \cup saved)' <=> w \in unsaved \cup saved /\ w.tx # t
  BY DEF Of
<1>3. CASE t \in Deferring
  <2>1. ASSUME NEW w
        PROVE  w \in InTransaction(unsaved \cup saved)'
                 <=> w \in InTransaction(unsaved \cup saved)
                             \ Atomic!Of(t, InTransaction(unsaved \cup saved))
    BY <1>1, <1>2 DEF InTransaction, Atomic!Of
  <2>2. InTransaction(unsaved \cup saved)'
          = InTransaction(unsaved \cup saved)
              \ Atomic!Of(t, InTransaction(unsaved \cup saved))
    BY <2>1
  <2>3. (Deferring \ Live)' = (Deferring \ Live) \cup {t}
    BY <1>1, <1>3
  <2> QED
    BY <1>3, <2>2, <2>3
<1>4. CASE t \notin Deferring
  <2>1. InTransaction(unsaved \cup saved)' = InTransaction(unsaved \cup saved)
    BY <1>1, <1>2, <1>4 DEF InTransaction
  <2>2. (Deferring \ Live)' = Deferring \ Live
    BY <1>1, <1>4
  <2> QED
    BY <1>4, <2>1, <2>2
<1> QED
  BY <1>3, <1>4

\* A vote that decides nothing.
LEMMA OnlyVote ==
  ASSUME NEW s, UNCHANGED scope, voted' = voted \cup {s},
         InTransaction(unsaved \cup saved)' = InTransaction(unsaved \cup saved),
         InTransaction(durable)' = InTransaction(durable),
         (Deferring \ Live)' = Deferring \ Live
  PROVE  Atomic!Vote(s)
BY DEF Atomic!Vote

\* A transaction that defers ends and nothing of it becomes durable.
LEMMA EndIsAbort ==
  ASSUME UnitIInv, NEW t \in Deferring, Live' = Live \ {t}, UNCHANGED <<scope, kind, durable>>,
         NEW s \in Scopes, voted' \in {voted, voted \cup {s}},
         unsaved' = unsaved \ Of(t, unsaved), saved' = saved \ Of(t, saved)
  PROVE  Atomic!Abort(t)
<1>1. /\ InTransaction(unsaved \cup saved)'
           = InTransaction(unsaved \cup saved)
               \ Atomic!Of(t, InTransaction(unsaved \cup saved))
      /\ (Deferring \ Live)' = (Deferring \ Live) \cup {t}
  BY EndIsDecision
<1>2. InTransaction(durable)' = InTransaction(durable)
  BY DEF InTransaction, Deferring
<1>3. voted' \in {voted} \cup {voted \cup {o} : o \in Scopes}
  OBVIOUS
<1> QED
  BY <1>1, <1>2, <1>3 DEF Atomic!Abort

\* The last scope commits: all the others of its transaction have voted.
LEMMA LastVoteCommits ==
  ASSUME UnitIInv, open # <<>>, Head(open) \notin completed,
         CommitAll(Head(open)), voted' = voted \cup {Head(open)}, UNCHANGED scope
  PROVE  Atomic!Commit(Head(open)) \/ Atomic!Vote(Head(open))
<1> DEFINE s == Head(open)
           t == scope[s].tx
<1>1. s \in Scopes /\ t \in Transactions /\ t \in Listed
  BY InnermostFacts
<1>2. /\ attached[t] = {s} /\ t \notin spoiled
      /\ DisposeTransaction(t, {s})
      /\ durable' = durable \cup Of(t, unsaved \cup saved)
  BY DEF CommitAll
<1>3. t = scope[s].tx /\ voted' = voted \cup {s}
  OBVIOUS
<1> HIDE DEF s, t
<1>4. /\ Live' = Live \ {t} /\ t \in Live
      /\ unsaved' = unsaved \ Of(t, unsaved) /\ saved' = saved \ Of(t, saved)
      /\ UNCHANGED kind
  <2>1. Live' = Live \ {t}
    BY <1>1, <1>2, DisposedFacts
  <2> QED
    BY <1>1, <1>2, <2>1 DEF DisposeTransaction, Live
<1>5. Deferring' = Deferring
  BY <1>4 DEF Deferring
<1>6. CASE t \in Deferring
  <2>1. /\ InTransaction(unsaved \cup saved)'
             = InTransaction(unsaved \cup saved)
                 \ Atomic!Of(t, InTransaction(unsaved \cup saved))
        /\ (Deferring \ Live)' = (Deferring \ Live) \cup {t}
    BY <1>4, <1>6, EndIsDecision
  <2>2. InTransaction(durable)'
          = InTransaction(durable) \cup Atomic!Of(t, InTransaction(unsaved \cup saved))
    BY <1>2, <1>5, <1>6 DEF InTransaction, Of, Atomic!Of
  <2>3. \A o \in Scopes : scope[o].tx = t => o \in voted'
    BY <1>2, <1>3, <1>4 DEF UnitIInv, VotesOK
  <2>4. [o \in Scopes |-> scope[o].tx][s] = t
    BY <1>1, <1>3
  <2>5. t \notin Deferring \ Live
    BY <1>4
  <2>6. Atomic!Commit(s)
    BY <1>3, <2>1, <2>2, <2>3, <2>4, <2>5 DEF Atomic!Commit
  <2> QED
    BY <2>6 DEF s
<1>7. CASE t \notin Deferring
  <2>1. /\ InTransaction(unsaved \cup saved)' = InTransaction(unsaved \cup saved)
        /\ (Deferring \ Live)' = Deferring \ Live
    BY <1>4, <1>7, EndIsDecision
  <2>2. InTransaction(durable)' = InTransaction(durable)
    BY <1>2, <1>5, <1>7 DEF InTransaction, Of
  <2>3. Atomic!Vote(s)
    BY <1>3, <2>1, <2>2, OnlyVote
  <2> QED
    BY <2>3 DEF s
<1> QED
  BY <1>6, <1>7

\* A scope votes, and its transaction may end with it, in one of the three ways.
LEMMA CommittingIsVote ==
  ASSUME UnitIInv, open # <<>>, Head(open) \notin completed,
         OnScopeCommitting(Head(open)), UNCHANGED scope
  PROVE  \/ \E s \in Scopes : Atomic!Vote(s) \/ Atomic!Commit(s)
         \/ \E t \in Transactions : Atomic!Abort(t)
<1> DEFINE s == Head(open)
           t == scope[s].tx
<1>1. s \in Scopes /\ t \in Transactions /\ t \in Listed
  BY InnermostFacts
<1>2. /\ voted' = voted \cup {s}
      /\ CommitWaits(s) \/ CommitAll(s) \/ FlushFails(s) \/ CommitFails(s)
  BY DEF OnScopeCommitting
<1>3. CASE CommitWaits(s)
  <2>1. UNCHANGED <<list, kind, spoiled, unsaved, saved, durable>>
    BY <1>3 DEF CommitWaits, data
  <2>2. Deferring' = Deferring /\ Live' = Live
    BY <2>1 DEF Deferring, Live, Listed
  <2>3. /\ InTransaction(unsaved \cup saved)' = InTransaction(unsaved \cup saved)
        /\ InTransaction(durable)' = InTransaction(durable)
    BY <2>1, <2>2 DEF InTransaction
  <2>4. Atomic!Vote(s)
    BY <1>2, <2>2, <2>3, OnlyVote
  <2> QED
    BY <1>1, <2>4
<1>4. CASE CommitAll(s)
  BY <1>1, <1>2, <1>4, LastVoteCommits
<1>5. CASE FlushFails(s)
  <2>1. DisposeTransaction(t, {s})
    BY <1>5 DEF FlushFails
  <2>2. /\ Live' = Live \ {t} /\ UNCHANGED kind
        /\ unsaved' = unsaved \ Of(t, unsaved) /\ saved' = saved \ Of(t, saved)
    <3>1. Live' = Live \ {t}
      BY <1>1, <2>1, DisposedFacts
    <3> QED
      BY <2>1, <3>1 DEF DisposeTransaction
  <2>3. CASE t \in Deferring
    <3>1. durable' = durable
      BY <1>5, <2>3 DEF FlushFails, Deferring
    <3>2. Atomic!Abort(t)
      BY <1>1, <1>2, <2>2, <2>3, <3>1, EndIsAbort
    <3> QED
      BY <1>1, <3>2
  <2>4. CASE t \notin Deferring
    <3>1. /\ InTransaction(unsaved \cup saved)' = InTransaction(unsaved \cup saved)
          /\ (Deferring \ Live)' = Deferring \ Live
      BY <2>2, <2>4, EndIsDecision
    <3>2. \A w : w.tx # t => (w \in durable' <=> w \in durable)
      BY <1>5 DEF FlushFails, Of
    <3>3. InTransaction(durable)' = InTransaction(durable)
      BY <2>2, <2>4, <3>2 DEF InTransaction, Deferring
    <3>4. Atomic!Vote(s)
      BY <1>2, <3>1, <3>3, OnlyVote
    <3> QED
      BY <1>1, <3>4
  <2> QED
    BY <2>3, <2>4
<1>6. CASE CommitFails(s)
  <2>1. /\ kind[t] = "required" /\ UNCHANGED <<list, kind, durable>>
        /\ spoiled' = spoiled \cup {t}
        /\ unsaved' = unsaved \ Of(t, unsaved) /\ saved' = saved \ Of(t, saved)
    BY <1>6 DEF CommitFails
  <2>2. Live' = Live \ {t}
    BY <2>1 DEF Live, Listed
  <2>3. t \in Deferring
    BY <1>1, <2>1 DEF Deferring
  <2>4. Atomic!Abort(t)
    BY <1>1, <1>2, <2>1, <2>2, <2>3, EndIsAbort
  <2> QED
    BY <1>1, <2>4
<1> QED
  BY <1>2, <1>3, <1>4, <1>5, <1>6

\* A scope that is disposed without a commit takes its transaction with it.
LEMMA RollingBackAborts ==
  ASSUME UnitIInv, open # <<>>, Head(open) \notin completed,
         OnScopeRollingBack(Head(open)), UNCHANGED scope
  PROVE  (\E t \in Transactions : Atomic!Abort(t)) \/ UNCHANGED Atomic!vars
<1> DEFINE s == Head(open)
           t == scope[s].tx
<1>1. s \in Scopes /\ t \in Transactions /\ t \in Listed
  BY InnermostFacts
<1>2. DisposeTransaction(t, {s}) /\ UNCHANGED <<durable, voted>>
  BY DEF OnScopeRollingBack
<1>3. /\ Live' = Live \ {t} /\ UNCHANGED kind
      /\ unsaved' = unsaved \ Of(t, unsaved) /\ saved' = saved \ Of(t, saved)
  <2>1. Live' = Live \ {t}
    BY <1>1, <1>2, DisposedFacts
  <2> QED
    BY <1>2, <2>1 DEF DisposeTransaction
<1>4. CASE t \in Deferring
  <2>1. Atomic!Abort(t)
    BY <1>1, <1>2, <1>3, <1>4, EndIsAbort
  <2> QED
    BY <1>1, <2>1
<1>5. CASE t \notin Deferring
  <2>1. /\ InTransaction(unsaved \cup saved)' = InTransaction(unsaved \cup saved)
        /\ (Deferring \ Live)' = Deferring \ Live
    BY <1>3, <1>5, EndIsDecision
  <2>2. InTransaction(durable)' = InTransaction(durable)
    BY <1>2, <1>3 DEF InTransaction, Deferring
  <2> QED
    BY <1>2, <2>1, <2>2, AtomicStutter
<1> QED
  BY <1>4, <1>5

LEMMA UnchangedStutters ==
  ASSUME UNCHANGED <<scope, voted, transactionVars, data>>
  PROVE  UNCHANGED Atomic!vars
<1>1. Deferring' = Deferring /\ Live' = Live /\ UNCHANGED <<unsaved, saved, durable>>
  BY DEF transactionVars, data, Deferring, Live, Listed
<1>2. /\ InTransaction(unsaved \cup saved)' = InTransaction(unsaved \cup saved)
      /\ InTransaction(durable)' = InTransaction(durable)
  BY <1>1 DEF InTransaction
<1> QED
  BY <1>1, <1>2, AtomicStutter

LEMMA AtomicStep == UnitIInv /\ [Next]_vars => [Atomic!Next]_(Atomic!vars)
<1> SUFFICES ASSUME UnitIInv, [Next]_vars PROVE [Atomic!Next]_(Atomic!vars)
  OBVIOUS
<1>1. CASE Enlist
  BY <1>1, EnlistJoins DEF Atomic!Next
<1>2. CASE Commit
  BY <1>2, CommittingIsVote DEF Commit, Atomic!Next
<1>3. CASE Dispose
  <2>1. open # <<>> /\ UNCHANGED <<autoComplete, scope>>
    BY <1>3 DEF Dispose
  <2>2. CASE Head(open) \in completed /\ UNCHANGED <<completed, voted, transactionVars, data>>
    BY <2>1, <2>2, UnchangedStutters
  <2>3. CASE Head(open) \notin completed /\ OnScopeCommitting(Head(open))
    BY <2>1, <2>3, CommittingIsVote DEF Atomic!Next
  <2>4. CASE Head(open) \notin completed /\ OnScopeRollingBack(Head(open))
    BY <2>1, <2>4, RollingBackAborts DEF Atomic!Next
  <2> QED
    BY <1>3, <2>2, <2>3, <2>4 DEF Dispose
<1>4. ASSUME NEW session \in Sessions, Change(session)
      PROVE  [Atomic!Next]_(Atomic!vars)
  BY <1>4, ChangeIsPending DEF Atomic!Next
<1>5. ASSUME NEW session \in Sessions, SaveChanges(session)
      PROVE  [Atomic!Next]_(Atomic!vars)
  BY <1>5, SaveChangesStutters
<1>6. CASE UNCHANGED vars
  BY <1>6, UnchangedStutters DEF vars, scopeVars
<1> QED
  BY <1>1, <1>2, <1>3, <1>4, <1>5, <1>6 DEF Next

\* What was changed in a transaction becomes durable at once after all its scopes
\* have committed, or not at all: every step of the units of work is one of
\* AtomicWork, or changes nothing that is seen there.
THEOREM UnitsAreAtomic == Spec => ImplementsAtomicWork
<1>1. Init => Atomic!Init
  BY AtomicInit
<1>2. UnitIInv /\ [Next]_vars => [Atomic!Next]_(Atomic!vars)
  BY AtomicStep
<1> QED
  BY <1>1, <1>2, UnitInvariant, PTL DEF Spec, Atomic!Spec, ImplementsAtomicWork
=============================================================================
