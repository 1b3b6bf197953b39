--------------------------- MODULE AccountProofs ---------------------------
(***************************************************************************)
(* Proofs about the accounts of the CAS web application, for every number  *)
(* of concurrent requests, every set of accounts and names, every limit on *)
(* the codes, and every length of the run.                                 *)
(***************************************************************************)
EXTENDS AccountProperties, TLAPS

USE UserAccountsAssumption

(***************************************************************************)
(* The rows and the calls                                                  *)
(***************************************************************************)

Counts == 0..MaxCodes
PCs == {"idle", "create", "add", "ext", "insert", "nick", "code", "sms", "reset", "count"}
Calls ==
  [pc : PCs, acct : Accounts \cup {None}, nick : Nicks \cup {None}, count : Counts,
   code : Codes \cup {None}]
Rows ==
  [nick : Nicks \cup {None}, code : Codes \cup {None}, last : Minutes \cup {None},
   count : Counts]

LEMMA TypeFacts ==
  ASSUME AccountsTypeOK
  PROVE  /\ now \in Nat /\ made \in Nat /\ made <= MaxCodes
         /\ call \in [Requests -> Calls]
         /\ profile \in [Accounts -> Rows \cup {None}]
         /\ burst \in [Accounts -> Counts]
         /\ phone \in [Accounts -> Codes \cup {None}]
         /\ \A n \in Minutes : n \in Nat
<1>1. UserProfile = Rows
  BY DEF UserProfile, Rows, Counts
<1>2. call \in [Requests -> Calls]
  BY DEF AccountsTypeOK, Calls, PCs, Counts
<1>3. burst \in [Accounts -> Counts] /\ phone \in [Accounts -> Codes \cup {None}]
  BY DEF AccountsTypeOK, Counts
<1> QED
  BY <1>1, <1>2, <1>3 DEF AccountsTypeOK, Minutes

LEMMA NoneFacts ==
  /\ None \notin Accounts /\ None \notin Nicks /\ None \notin Codes
  /\ None \notin Minutes /\ None \notin Rows
<1>1. UserProfile = Rows
  BY DEF UserProfile, Rows, Counts
<1> QED
  BY <1>1

\* One request goes on.
LEMMA BecomeFacts ==
  ASSUME NEW r \in Requests, NEW c \in Calls, call \in [Requests -> Calls], Become(r, c)
  PROVE  /\ call' \in [Requests -> Calls]
         /\ call'[r] = c
         /\ \A o \in Requests \ {r} : call'[o] = call[o]
BY DEF Become

LEMMA CallFields ==
  ASSUME NEW c \in Calls
  PROVE  /\ c.pc \in PCs
         /\ c.acct # None => c.acct \in Accounts
         /\ c.nick # None => c.nick \in Nicks
         /\ c.code # None => c.code \in Codes
         /\ c.count \in Nat /\ c.count <= MaxCodes
BY DEF Calls, Counts

LEMMA RowFields ==
  ASSUME NEW p \in Rows
  PROVE  /\ p.nick \in Nicks \cup {None}
         /\ p.code \in Codes \cup {None}
         /\ p.last # None => p.last \in Minutes /\ p.last \in Nat
         /\ p.count \in Nat /\ p.count <= MaxCodes
BY DEF Rows, Counts, Minutes

LEMMA MakeCall ==
  ASSUME NEW pc \in PCs, NEW acct \in Accounts, NEW nick \in Nicks \cup {None},
         NEW count \in Counts, NEW code \in Codes \cup {None}
  PROVE  [pc |-> pc, acct |-> acct, nick |-> nick, count |-> count, code |-> code] \in Calls
BY DEF Calls

LEMMA IdleCall == Idle \in Calls /\ Idle.pc = "idle" /\ Idle.count = 0
<1>1. Idle = [pc |-> "idle", acct |-> None, nick |-> None, count |-> 0, code |-> None]
  BY DEF Idle
<1> QED
  BY <1>1 DEF Calls, PCs, Counts

(***************************************************************************)
(* Steps that write no row                                                 *)
(***************************************************************************)

\* The request that goes on, and the others, keep what they know.
LEMMA CallStep ==
  ASSUME AccountsIInv, NEW r \in Requests, NEW c \in Calls, Become(r, c),
         UNCHANGED <<now, profile, made, racedNicks, raced, burst>>,
         RequestOK(r)'
  PROVE  /\ call' \in [Requests -> Calls]
         /\ call'[r] = c
         /\ \A o \in Requests \ {r} : call'[o] = call[o]
         /\ \A o \in Requests : RequestOK(o)'
         /\ DuplicateNickNeedsOverlap'
<1>1. /\ call' \in [Requests -> Calls]
      /\ call'[r] = c
      /\ \A o \in Requests \ {r} : call'[o] = call[o]
  BY TypeFacts, BecomeFacts DEF AccountsIInv
<1>2. ASSUME NEW o \in Requests \ {r} PROVE RequestOK(o)'
  <2>1. RequestOK(o) /\ call'[o] = call[o]
    BY <1>1 DEF AccountsIInv
  <2>2. CallOK(o)'
    BY <2>1 DEF RequestOK, CallOK, At, Row
  <2>3. FreeName(o)'
    BY <2>1 DEF RequestOK, FreeName, UserNickExist
  <2>4. SentCode(o)'
    BY <2>1 DEF RequestOK, SentCode, At, Row
  <2>5. Waited(o)'
    BY <2>1 DEF RequestOK, Waited, At, Row
  <2> QED
    BY <2>2, <2>3, <2>4, <2>5 DEF RequestOK
<1>3. DuplicateNickNeedsOverlap'
  BY DEF AccountsIInv, DuplicateNickNeedsOverlap, Accounted
<1> QED
  BY <1>1, <1>2, <1>3

\* A request that was not giving out a uid is not missed where one is missing.
LEMMA UidStep ==
  ASSUME AccountsIInv, NEW r \in Requests,
         \A o \in Requests \ {r} : call'[o] = call[o],
         profile' = profile, extend \subseteq extend', failed \subseteq failed',
         call[r].pc \in {"ext", "insert"} =>
           \/ call'[r].pc \in {"ext", "insert"} /\ call'[r].acct = call[r].acct
           \/ call[r].acct \in extend'
           \/ call[r].acct \in failed'
  PROVE  MissingUidNeedsFailure'
<1> SUFFICES ASSUME NEW a \in Accounts, profile'[a] # None, a \notin extend', a \notin failed'
             PROVE  \E o \in Requests : call'[o].acct = a /\ call'[o].pc \in {"ext", "insert"}
  BY DEF MissingUidNeedsFailure, Accounted
<1>1. PICK o \in Requests : call[o].acct = a /\ call[o].pc \in {"ext", "insert"}
  BY DEF AccountsIInv, MissingUidNeedsFailure, Accounted
<1> QED
  BY <1>1

\* A request that was not sending a code is not missed where one has not arrived.
LEMMA MessageStep ==
  ASSUME AccountsIInv, NEW r \in Requests,
         \A o \in Requests \ {r} : call'[o] = call[o],
         profile' = profile, phone' = phone, raced' = raced, failed \subseteq failed',
         call[r].pc = "sms" => call[r].acct \in failed'
  PROVE  LastMessageWorks'
<1> SUFFICES ASSUME NEW a \in Accounts, profile'[a] # None,
                    phone'[a] # profile'[a].code, a \notin raced', a \notin failed'
             PROVE  \E o \in Requests : call'[o].pc = "sms" /\ call'[o].acct = a
  BY DEF LastMessageWorks, Accounted, At
<1>1. PICK o \in Requests : call[o].pc = "sms" /\ call[o].acct = a
  BY DEF AccountsIInv, LastMessageWorks, Accounted, At
<1> QED
  BY <1>1

LEMMA AccountStep ==
  ASSUME AccountsIInv, UNCHANGED <<profile, made, phone, raced, burst>>
  PROVE  \A a \in Accounts : AccountOK(a)'
BY DEF AccountsIInv, AccountOK

\* A request that has ended knows nothing.
LEMMA EndedOK ==
  ASSUME AccountsIInv, NEW r \in Requests, call'[r] = Idle, made' \in Nat
  PROVE  RequestOK(r)'
BY IdleCall DEF RequestOK, CallOK, FreeName, SentCode, Waited, At

\* A step of one request that changes no table.
LEMMA ReadStep ==
  ASSUME AccountsIInv, NEW r \in Requests, NEW c \in Calls, Become(r, c),
         UNCHANGED <<now, profile, extend, made, phone, history>>,
         RequestOK(r)',
         call[r].pc # "sms",
         call[r].pc \in {"ext", "insert"} =>
           \/ c.pc \in {"ext", "insert"} /\ c.acct = call[r].acct
           \/ call[r].acct \in extend
  PROVE  AccountsIInv'
<1>1. /\ call' \in [Requests -> Calls]
      /\ call'[r] = c
      /\ \A o \in Requests \ {r} : call'[o] = call[o]
      /\ \A o \in Requests : RequestOK(o)'
      /\ DuplicateNickNeedsOverlap'
  BY CallStep DEF history
<1>2. AccountsTypeOK'
  BY <1>1 DEF AccountsIInv, AccountsTypeOK, history, Calls, PCs, Counts
<1>3. MissingUidNeedsFailure'
  BY <1>1, UidStep DEF history
<1>4. LastMessageWorks'
  BY <1>1, MessageStep DEF history
<1>5. \A a \in Accounts : AccountOK(a)'
  BY AccountStep DEF history
<1> QED
  BY <1>1, <1>2, <1>3, <1>4, <1>5 DEF AccountsIInv

LEMMA RegisterInv ==
  ASSUME AccountsIInv, NEW r \in Requests, NEW a \in Accounts, NEW n \in Nicks, Register(r, a, n)
  PROVE  AccountsIInv'
<1>1. /\ At(r, "idle") /\ ~UserNickExist(n)
      /\ UNCHANGED <<now, profile, extend, made, phone, history>>
  BY DEF Register
<1>2. PICK c : c = [Idle EXCEPT !.pc = "create", !.acct = a, !.nick = n] /\ Become(r, c)
  BY DEF Register
<1>3. c = [pc |-> "create", acct |-> a, nick |-> n, count |-> 0, code |-> None]
  BY <1>2 DEF Idle
<1>4. c \in Calls
  BY <1>3 DEF Calls, PCs, Counts
<1>5. call'[r] = c
  BY <1>2, <1>4, TypeFacts, BecomeFacts DEF AccountsIInv
<1>6. RequestOK(r)'
  <2>1. ~UserNickExist(n)'
    BY <1>1 DEF UserNickExist
  <2>2. made' \in Nat
    BY <1>1, TypeFacts DEF AccountsIInv
  <2> QED
    BY <1>3, <1>5, <2>1, <2>2, NoneFacts DEF RequestOK, CallOK, FreeName, SentCode, Waited, At
<1> QED
  BY <1>1, <1>2, <1>4, <1>6, ReadStep DEF At

LEMMA NameIsTakenInv ==
  ASSUME AccountsIInv, NEW r \in Requests, NameIsTaken(r) PROVE AccountsIInv'
<1>1. /\ At(r, "create") \/ At(r, "add")
      /\ Become(r, Idle)
      /\ UNCHANGED <<now, profile, extend, made, phone, history>>
  BY DEF NameIsTaken
<1>2. call'[r] = Idle
  BY <1>1, TypeFacts, BecomeFacts, IdleCall DEF AccountsIInv
<1>3. RequestOK(r)'
  BY <1>1, <1>2, TypeFacts, EndedOK DEF AccountsIInv
<1> QED
  BY <1>1, <1>3, IdleCall, ReadStep DEF At

LEMMA ConfirmExternalLoginInv ==
  ASSUME AccountsIInv, NEW r \in Requests, NEW a \in Accounts, ConfirmExternalLogin(r, a)
  PROVE  AccountsIInv'
<1>1. At(r, "idle") /\ UNCHANGED <<now, profile, extend, made, phone, history>>
  BY DEF ConfirmExternalLogin
<1>2. PICK c : c = [Idle EXCEPT !.pc = "add", !.acct = a] /\ Become(r, c)
  BY DEF ConfirmExternalLogin
<1>3. c = [pc |-> "add", acct |-> a, nick |-> None, count |-> 0, code |-> None]
  BY <1>2 DEF Idle
<1>4. c \in Calls
  BY <1>3 DEF Calls, PCs, Counts
<1>5. call'[r] = c
  BY <1>2, <1>4, TypeFacts, BecomeFacts DEF AccountsIInv
<1>6. RequestOK(r)'
  <2>1. made' \in Nat
    BY <1>1, TypeFacts DEF AccountsIInv
  <2> QED
    BY <1>3, <1>5, <2>1, NoneFacts DEF RequestOK, CallOK, FreeName, SentCode, Waited, At
<1> QED
  BY <1>1, <1>2, <1>4, <1>6, ReadStep DEF At

LEMMA LinkAccountInv ==
  ASSUME AccountsIInv, NEW r \in Requests, NEW a \in Accounts, LinkAccount(r, a)
  PROVE  AccountsIInv'
<1>1. /\ At(r, "idle") /\ profile[a] # None
      /\ UNCHANGED <<now, profile, extend, made, phone, history>>
  BY DEF LinkAccount
<1>2. PICK c : c = [Idle EXCEPT !.pc = "ext", !.acct = a] /\ Become(r, c)
  BY DEF LinkAccount
<1>3. c = [pc |-> "ext", acct |-> a, nick |-> None, count |-> 0, code |-> None]
  BY <1>2 DEF Idle
<1>4. c \in Calls
  BY <1>3 DEF Calls, PCs, Counts
<1>5. call'[r] = c
  BY <1>2, <1>4, TypeFacts, BecomeFacts DEF AccountsIInv
<1>6. RequestOK(r)'
  <2>1. made' \in Nat
    BY <1>1, TypeFacts DEF AccountsIInv
  <2> QED
    BY <1>1, <1>3, <1>5, <2>1, NoneFacts
    DEF RequestOK, CallOK, FreeName, SentCode, Waited, At, Row
<1> QED
  BY <1>1, <1>2, <1>4, <1>6, ReadStep DEF At

LEMMA FindExtendInv ==
  ASSUME AccountsIInv, NEW r \in Requests, FindExtend(r) PROVE AccountsIInv'
<1>1. /\ At(r, "ext")
      /\ UNCHANGED <<now, profile, extend, made, phone, history>>
  BY DEF FindExtend
<1>2. call[r] \in Calls /\ call \in [Requests -> Calls] /\ made' \in Nat
  BY <1>1, TypeFacts DEF AccountsIInv
<1>3. CASE call[r].acct \in extend
  <2>1. Become(r, Idle)
    BY <1>3 DEF FindExtend
  <2>2. RequestOK(r)'
    BY <1>2, <2>1, BecomeFacts, IdleCall, EndedOK
  <2> QED
    BY <1>1, <1>3, <2>1, <2>2, IdleCall, ReadStep DEF At
<1>4. CASE call[r].acct \notin extend
  <2>1. PICK c : c = [call[r] EXCEPT !.pc = "insert"] /\ Become(r, c)
    BY <1>4 DEF FindExtend
  <2>2. /\ c \in Calls /\ c.pc = "insert" /\ c.acct = call[r].acct
        /\ c.count = call[r].count
    BY <1>2, <2>1 DEF Calls, PCs
  <2>3. call'[r] = c
    BY <1>2, <2>1, <2>2, BecomeFacts
  <2>4. CallOK(r)
    BY DEF AccountsIInv, RequestOK
  <2>5. RequestOK(r)'
    BY <1>1, <2>2, <2>3, <2>4 DEF RequestOK, CallOK, FreeName, SentCode, Waited, At, Row
  <2> QED
    BY <1>1, <2>1, <2>2, <2>5, ReadStep DEF At
<1> QED
  BY <1>3, <1>4

LEMMA InsertExtendInv ==
  ASSUME AccountsIInv, NEW r \in Requests, InsertExtend(r) PROVE AccountsIInv'
<1>1. /\ At(r, "insert") /\ Become(r, Idle)
      /\ extend' = extend \cup {call[r].acct}
      /\ UNCHANGED <<now, profile, made, phone, racedNicks, raced, burst, failed>>
  BY DEF InsertExtend, history
<1>2. call'[r] = Idle
  BY <1>1, TypeFacts, BecomeFacts, IdleCall DEF AccountsIInv
<1>3. RequestOK(r)'
  BY <1>1, <1>2, TypeFacts, EndedOK DEF AccountsIInv
<1>4. /\ call' \in [Requests -> Calls]
      /\ \A o \in Requests \ {r} : call'[o] = call[o]
      /\ \A o \in Requests : RequestOK(o)'
      /\ DuplicateNickNeedsOverlap'
  BY <1>1, <1>3, IdleCall, CallStep
<1>5. call[r].acct \in Accounts
  BY <1>1, TypeFacts, CallFields DEF AccountsIInv, RequestOK, CallOK, At
<1>6. AccountsTypeOK'
  BY <1>1, <1>4, <1>5 DEF AccountsIInv, AccountsTypeOK, Calls, PCs, Counts
<1>7. MissingUidNeedsFailure'
  BY <1>1, <1>4, UidStep
<1>8. LastMessageWorks'
  BY <1>1, <1>4, MessageStep DEF At
<1>9. \A a \in Accounts : AccountOK(a)'
  BY <1>1, AccountStep
<1> QED
  BY <1>4, <1>6, <1>7, <1>8, <1>9 DEF AccountsIInv

LEMMA ChangeNickInv ==
  ASSUME AccountsIInv, NEW r \in Requests, NEW a \in Accounts, NEW n \in Nicks,
         ChangeNick(r, a, n)
  PROVE  AccountsIInv'
<1>1. /\ At(r, "idle") /\ profile[a] # None /\ ~UserNickExist(n)
      /\ UNCHANGED <<now, profile, extend, made, phone, history>>
  BY DEF ChangeNick
<1>2. PICK c : c = [Idle EXCEPT !.pc = "nick", !.acct = a, !.nick = n] /\ Become(r, c)
  BY DEF ChangeNick
<1>3. c = [pc |-> "nick", acct |-> a, nick |-> n, count |-> 0, code |-> None]
  BY <1>2 DEF Idle
<1>4. c \in Calls
  BY <1>3 DEF Calls, PCs, Counts
<1>5. call'[r] = c
  BY <1>2, <1>4, TypeFacts, BecomeFacts DEF AccountsIInv
<1>6. RequestOK(r)'
  <2>1. ~UserNickExist(n)'
    BY <1>1 DEF UserNickExist
  <2>2. made' \in Nat
    BY <1>1, TypeFacts DEF AccountsIInv
  <2> QED
    BY <1>1, <1>3, <1>5, <2>1, <2>2, NoneFacts
    DEF RequestOK, CallOK, FreeName, SentCode, Waited, At, Row
<1> QED
  BY <1>1, <1>2, <1>4, <1>6, ReadStep DEF At

LEMMA GetPassWordByPhoneInv ==
  ASSUME AccountsIInv, NEW r \in Requests, NEW a \in Accounts, GetPassWordByPhone(r, a)
  PROVE  AccountsIInv'
<1>1. /\ At(r, "idle") /\ profile[a] # None /\ ~TooOften(profile[a])
      /\ UNCHANGED <<now, profile, extend, made, phone, racedNicks, raced, burst, failed>>
  BY DEF GetPassWordByPhone, history
<1>2. PICK c : /\ c = [Idle EXCEPT !.pc = "code", !.acct = a, !.count = profile[a].count]
               /\ Become(r, c)
  BY DEF GetPassWordByPhone
<1>3. c = [pc |-> "code", acct |-> a, nick |-> None, count |-> profile[a].count,
           code |-> None]
  BY <1>2 DEF Idle
<1>4. profile[a] \in Rows
  BY <1>1, TypeFacts DEF AccountsIInv
<1>5. c \in Calls
  <2>1. profile[a].count \in Counts
    BY <1>4 DEF Rows
  <2> QED
    BY <1>3, <2>1 DEF Calls, PCs
<1>6. call'[r] = c
  BY <1>2, <1>5, TypeFacts, BecomeFacts DEF AccountsIInv
<1>7. RequestOK(r)'
  <2>1. AccountOK(a)
    BY DEF AccountsIInv
  <2>2. CallOK(r)'
    BY <1>1, <1>3, <1>6, <2>1, NoneFacts DEF CallOK, AccountOK, At, Row
  <2>3. Waited(r)'
    <3>1. SUFFICES ASSUME a \notin raced, profile[a].last # None
                   PROVE  /\ profile[a].last + 1 <= now
                          /\ profile[a].count < MaxResend \/ profile[a].last + Hour <= now
                          /\ burst[a] <= profile[a].count
      BY <1>1, <1>3, <1>6 DEF Waited, At, Row
    <3>2. profile[a].last \in Nat /\ profile[a].count \in Nat
      BY <1>4, <3>1, RowFields
    <3>3. now \in Nat
      BY TypeFacts DEF AccountsIInv
    <3> QED
      BY <1>1, <2>1, <3>1, <3>2, <3>3 DEF TooOften, AccountOK
  <2> QED
    BY <1>3, <1>6, <2>2, <2>3 DEF RequestOK, FreeName, SentCode, At
<1> QED
  BY <1>1, <1>2, <1>5, <1>7, ReadStep DEF At, history

LEMMA SendSMSInv ==
  ASSUME AccountsIInv, NEW r \in Requests, SendSMS(r) PROVE AccountsIInv'
<1>1. /\ At(r, "sms") /\ Become(r, Idle)
      /\ phone' = [phone EXCEPT ![call[r].acct] = call[r].code]
      /\ UNCHANGED <<now, profile, extend, made, racedNicks, raced, burst, failed>>
  BY DEF SendSMS, history
<1>2. call'[r] = Idle
  BY <1>1, TypeFacts, BecomeFacts, IdleCall DEF AccountsIInv
<1>3. RequestOK(r)'
  BY <1>1, <1>2, TypeFacts, EndedOK DEF AccountsIInv
<1>4. /\ call' \in [Requests -> Calls]
      /\ \A o \in Requests \ {r} : call'[o] = call[o]
      /\ \A o \in Requests : RequestOK(o)'
      /\ DuplicateNickNeedsOverlap'
  BY <1>1, <1>3, IdleCall, CallStep
<1>5. call[r].acct \in Accounts /\ call[r].code \in Codes /\ profile[call[r].acct] # None
  BY <1>1, TypeFacts, CallFields DEF AccountsIInv, RequestOK, CallOK, At, Row
<1>6. /\ phone' \in [Accounts -> Codes \cup {None}]
      /\ phone'[call[r].acct] = call[r].code
      /\ \A a \in Accounts \ {call[r].acct} : phone'[a] = phone[a]
  BY <1>1, <1>5, TypeFacts DEF AccountsIInv
<1>7. AccountsTypeOK'
  BY <1>1, <1>4, <1>6 DEF AccountsIInv, AccountsTypeOK, Calls, PCs, Counts
<1>8. MissingUidNeedsFailure'
  BY <1>1, <1>4, UidStep DEF At
<1>9. LastMessageWorks'
  <2> SUFFICES ASSUME NEW a \in Accounts, profile'[a] # None,
                      phone'[a] # profile'[a].code, a \notin raced', a \notin failed'
               PROVE  \E o \in Requests : call'[o].pc = "sms" /\ call'[o].acct = a
    BY DEF LastMessageWorks, Accounted, At
  <2>1. a # call[r].acct
    BY <1>1, <1>6 DEF AccountsIInv, RequestOK, SentCode, Row
  <2>2. phone[a] # profile[a].code
    BY <1>1, <1>6, <2>1
  <2>3. PICK o \in Requests : call[o].pc = "sms" /\ call[o].acct = a
    BY <1>1, <2>2 DEF AccountsIInv, LastMessageWorks, Accounted, At
  <2> QED
    BY <1>4, <2>1, <2>3
<1>10. \A a \in Accounts : AccountOK(a)'
  BY <1>1, <1>5, <1>6 DEF AccountsIInv, AccountOK
<1> QED
  BY <1>4, <1>7, <1>8, <1>9, <1>10 DEF AccountsIInv

LEMMA ResetPasswordByPhoneTokenInv ==
  ASSUME AccountsIInv, NEW r \in Requests, NEW a \in Accounts,
         ResetPasswordByPhoneToken(r, a)
  PROVE  AccountsIInv'
<1>1. /\ At(r, "idle") /\ profile[a] # None
      /\ UNCHANGED <<now, profile, extend, made, phone, history>>
  BY DEF ResetPasswordByPhoneToken
<1>2. PICK c : /\ c = [Idle EXCEPT !.pc = "reset", !.acct = a, !.count = profile[a].count]
               /\ Become(r, c)
  BY DEF ResetPasswordByPhoneToken
<1>3. c = [pc |-> "reset", acct |-> a, nick |-> None, count |-> profile[a].count,
           code |-> None]
  BY <1>2 DEF Idle
<1>4. profile[a] \in Rows
  BY <1>1, TypeFacts DEF AccountsIInv
<1>5. c \in Calls
  <2>1. profile[a].count \in Counts
    BY <1>4 DEF Rows
  <2> QED
    BY <1>3, <2>1 DEF Calls, PCs
<1>6. call'[r] = c
  BY <1>2, <1>5, TypeFacts, BecomeFacts DEF AccountsIInv
<1>7. RequestOK(r)'
  <2>1. AccountOK(a)
    BY DEF AccountsIInv
  <2> QED
    BY <1>1, <1>3, <1>6, <2>1, NoneFacts
    DEF RequestOK, CallOK, FreeName, SentCode, Waited, AccountOK, At, Row
<1> QED
  BY <1>1, <1>2, <1>5, <1>7, ReadStep DEF At

LEMMA ResetPasswordInv ==
  ASSUME AccountsIInv, NEW r \in Requests, ResetPassword(r) PROVE AccountsIInv'
<1>1. /\ At(r, "reset")
      /\ UNCHANGED <<now, profile, extend, made, phone, history>>
  BY DEF ResetPassword
<1>2. call[r] \in Calls /\ call \in [Requests -> Calls]
  BY TypeFacts DEF AccountsIInv
<1>3. PICK c : c = [call[r] EXCEPT !.pc = "count"] /\ Become(r, c)
  BY DEF ResetPassword
<1>4. /\ c \in Calls /\ c.pc = "count" /\ c.acct = call[r].acct
      /\ c.count = call[r].count
  BY <1>2, <1>3 DEF Calls, PCs
<1>5. call'[r] = c
  BY <1>2, <1>3, <1>4, BecomeFacts
<1>6. CallOK(r)
  BY DEF AccountsIInv, RequestOK
<1>7. RequestOK(r)'
  BY <1>1, <1>4, <1>5, <1>6 DEF RequestOK, CallOK, FreeName, SentCode, Waited, At, Row
<1> QED
  BY <1>1, <1>3, <1>4, <1>7, ReadStep DEF At

LEMMA FailInv ==
  ASSUME AccountsIInv, NEW r \in Requests, Fail(r) PROVE AccountsIInv'
<1>1. /\ ~At(r, "idle") /\ Become(r, Idle)
      /\ failed' = failed \cup {call[r].acct}
      /\ UNCHANGED <<now, profile, extend, made, phone, racedNicks, raced, burst>>
  BY DEF Fail
<1>2. call'[r] = Idle
  BY <1>1, TypeFacts, BecomeFacts, IdleCall DEF AccountsIInv
<1>3. RequestOK(r)'
  BY <1>1, <1>2, TypeFacts, EndedOK DEF AccountsIInv
<1>4. /\ call' \in [Requests -> Calls]
      /\ \A o \in Requests \ {r} : call'[o] = call[o]
      /\ \A o \in Requests : RequestOK(o)'
      /\ DuplicateNickNeedsOverlap'
  BY <1>1, <1>3, IdleCall, CallStep
<1>5. call[r].acct \in Accounts
  BY <1>1, TypeFacts, CallFields DEF AccountsIInv, RequestOK, CallOK
<1>6. AccountsTypeOK'
  BY <1>1, <1>4, <1>5 DEF AccountsIInv, AccountsTypeOK, Calls, PCs, Counts
<1>7. MissingUidNeedsFailure'
  BY <1>1, <1>4, UidStep
<1>8. LastMessageWorks'
  BY <1>1, <1>4, MessageStep
<1>9. \A a \in Accounts : AccountOK(a)'
  BY <1>1, AccountStep
<1> QED
  BY <1>4, <1>6, <1>7, <1>8, <1>9 DEF AccountsIInv

\* Whoever has waited long enough has when time goes by.
LEMMA TickInv == ASSUME AccountsIInv, Tick PROVE AccountsIInv'
<1>1. /\ now < MaxTime /\ now' = now + 1
      /\ UNCHANGED <<profile, extend, made, phone, call, racedNicks, raced, burst, failed>>
  BY DEF Tick, history
<1>2. now \in Nat /\ now' \in Minutes
  BY <1>1, TypeFacts DEF AccountsIInv, Minutes
<1>3. AccountsTypeOK'
  BY <1>1, <1>2 DEF AccountsIInv, AccountsTypeOK
<1>4. ASSUME NEW o \in Requests PROVE RequestOK(o)'
  <2>1. RequestOK(o)
    BY DEF AccountsIInv
  <2>2. CallOK(o)' /\ FreeName(o)' /\ SentCode(o)'
    BY <1>1, <2>1 DEF RequestOK, CallOK, FreeName, SentCode, UserNickExist, At, Row
  <2>3. Waited(o)'
    <3>1. SUFFICES ASSUME At(o, "code"), call[o].acct \notin raced, Row(o).last # None
                   PROVE  /\ Row(o).last + 1 <= now'
                          /\ call[o].count < MaxResend \/ Row(o).last + Hour <= now'
                          /\ burst[call[o].acct] <= call[o].count
      BY <1>1 DEF Waited, At, Row
    <3>2. Row(o).last \in Nat
      <4>1. call[o].acct \in Accounts /\ Row(o) # None
        BY <2>1, <3>1, TypeFacts, CallFields DEF AccountsIInv, RequestOK, CallOK, At
      <4>2. Row(o) \in Rows
        BY <4>1, TypeFacts DEF AccountsIInv, Row
      <4> QED
        BY <3>1, <4>2, RowFields
    <3> QED
      BY <1>1, <1>2, <2>1, <3>1, <3>2 DEF RequestOK, Waited
  <2> QED
    BY <2>2, <2>3 DEF RequestOK
<1>5. \A a \in Accounts : AccountOK(a)'
  BY <1>1, AccountStep
<1>6. DuplicateNickNeedsOverlap' /\ MissingUidNeedsFailure' /\ LastMessageWorks'
  BY <1>1 DEF AccountsIInv, DuplicateNickNeedsOverlap, MissingUidNeedsFailure,
              LastMessageWorks, Accounted, At
<1> QED
  BY <1>3, <1>4, <1>5, <1>6 DEF AccountsIInv

(***************************************************************************)
(* Steps that write a row                                                  *)
(***************************************************************************)

LEMMA WriteFacts ==
  ASSUME AccountsTypeOK, NEW a \in Accounts, NEW p \in Rows,
         profile' = [profile EXCEPT ![a] = p]
  PROVE  /\ profile' \in [Accounts -> UserProfile \cup {None}]
         /\ profile'[a] = p
         /\ \A b \in Accounts \ {a} : profile'[b] = profile[b]
<1>1. UserProfile = Rows
  BY DEF UserProfile, Rows, Counts
<1> QED
  BY <1>1, TypeFacts

\* When a name is taken, whoever had found it free is noted.
LEMMA NickStep ==
  ASSUME AccountsIInv, NEW r \in Requests, NEW a \in Accounts, NEW n \in Nicks,
         profile'[a] # None, profile'[a].nick = n,
         \A b \in Accounts \ {a} : profile'[b] = profile[b],
         \A o \in Requests \ {r} : call'[o] = call[o],
         call[r].pc \in {"create", "nick"}, call[r].nick = n,
         TakeNick(r, n)
  PROVE  /\ \A o \in Requests \ {r} : FreeName(o)'
         /\ DuplicateNickNeedsOverlap'
         /\ racedNicks \subseteq racedNicks' /\ racedNicks' \subseteq Nicks
<1>1. /\ racedNicks \subseteq racedNicks' /\ racedNicks' \subseteq Nicks
      /\ \A o \in Requests \ {r} :
           call[o].pc \in {"create", "nick"} /\ call[o].nick = n => n \in racedNicks'
  BY DEF TakeNick, Others, AccountsIInv, AccountsTypeOK
<1>2. ASSUME NEW o \in Requests \ {r} PROVE FreeName(o)'
  <2> SUFFICES ASSUME call[o].pc \in {"create", "nick"},
                      NEW b \in Accounts, profile'[b] # None,
                      profile'[b].nick = call[o].nick
               PROVE  call[o].nick \in racedNicks'
    BY DEF FreeName, UserNickExist
  <2>1. CASE call[o].nick = n
    BY <1>1, <2>1
  <2>2. CASE call[o].nick # n
    <3>1. UserNickExist(call[o].nick)
      BY <2>2 DEF UserNickExist
    <3> QED
      BY <1>1, <3>1 DEF AccountsIInv, RequestOK, FreeName
  <2> QED
    BY <2>1, <2>2
<1>3. \A b \in Accounts \ {a} : profile[b] # None /\ profile[b].nick = n => n \in racedNicks
  <2>1. FreeName(r)
    BY DEF AccountsIInv, RequestOK
  <2> QED
    BY <2>1 DEF FreeName, UserNickExist
<1>4. DuplicateNickNeedsOverlap'
  <2> SUFFICES ASSUME NEW b \in Accounts, NEW d \in Accounts, b # d,
                      profile'[b] # None, profile'[d] # None,
                      profile'[b].nick = profile'[d].nick, profile'[b].nick # None
               PROVE  profile'[b].nick \in racedNicks'
    BY DEF DuplicateNickNeedsOverlap, Accounted
  <2>1. CASE b = a
    BY <1>1, <1>3, <2>1
  <2>2. CASE d = a
    BY <1>1, <1>3, <2>2
  <2>3. CASE b # a /\ d # a
    <3>1. profile[b].nick \in racedNicks
      BY <2>3 DEF AccountsIInv, DuplicateNickNeedsOverlap, Accounted
    <3> QED
      BY <1>1, <2>3, <3>1
  <2> QED
    BY <2>1, <2>2, <2>3
<1> QED
  BY <1>1, <1>2, <1>4

\* A new account has a nick name that was found free, or none.
LEMMA NewAccountInv ==
  ASSUME AccountsIInv, NEW r \in Requests, NEW n \in Nicks \cup {None},
         call[r].pc \in {"create", "add"},
         profile[call[r].acct] = None,
         profile' = [profile EXCEPT ![call[r].acct] = NewProfile(n)],
         Become(r, [Idle EXCEPT !.pc = "ext", !.acct = call[r].acct]),
         \/ n = None /\ racedNicks' = racedNicks
         \/ n \in Nicks /\ At(r, "create") /\ call[r].nick = n /\ TakeNick(r, n),
         UNCHANGED <<now, extend, made, phone, raced, burst, failed>>
  PROVE  AccountsIInv'
<1> DEFINE a == call[r].acct
<1>1. /\ call[r].pc \in {"create", "add"} /\ profile[a] = None
      /\ profile' = [profile EXCEPT ![a] = NewProfile(n)]
      /\ UNCHANGED <<now, extend, made, phone, raced, burst, failed>>
  OBVIOUS
<1>2. PICK c : c = [Idle EXCEPT !.pc = "ext", !.acct = a] /\ Become(r, c)
  OBVIOUS
<1>3. c = [pc |-> "ext", acct |-> a, nick |-> None, count |-> 0, code |-> None]
  BY <1>2 DEF Idle
<1>4. a \in Accounts
  BY <1>1, TypeFacts, CallFields DEF AccountsIInv, RequestOK, CallOK, At
<1>5. c \in Calls
  BY <1>3, <1>4 DEF Calls, PCs, Counts
<1>6. /\ call' \in [Requests -> Calls] /\ call'[r] = c
      /\ \A o \in Requests \ {r} : call'[o] = call[o]
  BY <1>2, <1>5, TypeFacts, BecomeFacts DEF AccountsIInv
<1>7. /\ profile' \in [Accounts -> UserProfile \cup {None}]
      /\ profile'[a] = [nick |-> n, code |-> None, last |-> None, count |-> 0]
      /\ profile'[a] \in Rows
      /\ \A b \in Accounts \ {a} : profile'[b] = profile[b]
  <2>1. NewProfile(n) \in Rows
    BY <1>4 DEF NewProfile, Rows, Counts
  <2>2. /\ profile' \in [Accounts -> UserProfile \cup {None}]
        /\ profile'[a] = NewProfile(n)
        /\ \A b \in Accounts \ {a} : profile'[b] = profile[b]
    BY <1>1, <1>4, <2>1, WriteFacts DEF AccountsIInv
  <2> QED
    BY <2>1, <2>2 DEF NewProfile
<1>8. profile'[a] # None /\ profile'[a].nick = n /\ profile'[a].code = None
      /\ profile'[a].last = None /\ profile'[a].count = 0
  BY <1>7, NoneFacts
<1> HIDE DEF a
<1>9. /\ \A o \in Requests \ {r} : FreeName(o)'
      /\ DuplicateNickNeedsOverlap'
      /\ racedNicks' \subseteq Nicks
  <2>1. CASE n \in Nicks /\ At(r, "create") /\ call[r].nick = n /\ TakeNick(r, n)
    <3>1. call[r].pc \in {"create", "nick"} /\ call[r].nick = n
      BY <2>1 DEF At
    <3> QED
      BY <1>4, <1>6, <1>7, <1>8, <2>1, <3>1, NickStep
  <2>2. CASE n = None /\ racedNicks' = racedNicks
    <3>1. ASSUME NEW o \in Requests \ {r} PROVE FreeName(o)'
      <4>1. FreeName(o) /\ CallOK(o) /\ call'[o] = call[o]
        BY <1>6 DEF AccountsIInv, RequestOK
      <4>2. call[o].nick # None /\ UserNickExist(call[o].nick)' => UserNickExist(call[o].nick)
        BY <1>4, <1>6, <1>7, <1>8, <2>2 DEF UserNickExist
      <4> QED
        BY <2>2, <4>1, <4>2 DEF FreeName, CallOK
    <3>2. DuplicateNickNeedsOverlap'
      <4> SUFFICES ASSUME NEW b \in Accounts, NEW d \in Accounts, b # d,
                          profile'[b] # None, profile'[d] # None,
                          profile'[b].nick = profile'[d].nick, profile'[b].nick # None
                   PROVE  profile'[b].nick \in racedNicks'
        BY DEF DuplicateNickNeedsOverlap, Accounted
      <4>1. b # a /\ d # a
        BY <1>8, <2>2
      <4> QED
        BY <1>7, <2>2, <4>1 DEF AccountsIInv, DuplicateNickNeedsOverlap, Accounted
    <3> QED
      BY <2>2, <3>1, <3>2 DEF AccountsIInv, AccountsTypeOK
  <2> QED
    BY <2>1, <2>2
<1>10. AccountsTypeOK'
  BY <1>1, <1>6, <1>7, <1>9 DEF AccountsIInv, AccountsTypeOK, Calls, PCs, Counts
<1>11. ASSUME NEW o \in Requests PROVE RequestOK(o)'
  <2>1. CASE o = r
    <3>1. made' \in Nat
      BY <1>1, TypeFacts DEF AccountsIInv
    <3> QED
      BY <1>3, <1>4, <1>6, <1>8, <2>1, <3>1, NoneFacts
      DEF RequestOK, CallOK, FreeName, SentCode, Waited, At, Row
  <2>2. CASE o # r
    <3>1. RequestOK(o) /\ call'[o] = call[o] /\ FreeName(o)'
      BY <1>6, <1>9, <2>2 DEF AccountsIInv
    <3>2. call[o].pc \notin {"idle", "create", "add"} =>
            call[o].acct \in Accounts /\ call[o].acct # a
      BY <1>1, <3>1, TypeFacts, CallFields DEF AccountsIInv, RequestOK, CallOK, Row, At
    <3>3. call[o].pc \notin {"idle", "create", "add"} => profile'[call[o].acct] = profile[call[o].acct]
      BY <1>7, <3>2
    <3>4. CallOK(o)'
      BY <1>1, <3>1, <3>3 DEF RequestOK, CallOK, Row, At
    <3>5. SentCode(o)' /\ Waited(o)'
      BY <1>1, <3>1, <3>3 DEF RequestOK, SentCode, Waited, Row, At
    <3> QED
      BY <3>1, <3>4, <3>5 DEF RequestOK
  <2> QED
    BY <2>1, <2>2
<1>12. ASSUME NEW b \in Accounts PROVE AccountOK(b)'
  <2>1. AccountOK(b) /\ AccountOK(a)
    BY <1>4 DEF AccountsIInv
  <2>2. made \in Nat
    BY TypeFacts DEF AccountsIInv
  <2>3. CASE b = a
    BY <1>1, <1>8, <2>1, <2>2, <2>3 DEF AccountOK
  <2>4. CASE b # a
    BY <1>1, <1>7, <2>1, <2>4 DEF AccountOK
  <2> QED
    BY <2>3, <2>4
<1>13. MissingUidNeedsFailure'
  <2> SUFFICES ASSUME NEW b \in Accounts, profile'[b] # None, b \notin extend', b \notin failed'
               PROVE  \E o \in Requests : call'[o].acct = b /\ call'[o].pc \in {"ext", "insert"}
    BY DEF MissingUidNeedsFailure, Accounted
  <2>1. CASE b = a
    BY <1>3, <1>6, <2>1
  <2>2. CASE b # a
    <3>1. PICK o \in Requests : call[o].acct = b /\ call[o].pc \in {"ext", "insert"}
      BY <1>1, <1>7, <2>2 DEF AccountsIInv, MissingUidNeedsFailure, Accounted
    <3> QED
      BY <1>1, <1>6, <3>1 DEF At
  <2> QED
    BY <2>1, <2>2
<1>14. LastMessageWorks'
  <2> SUFFICES ASSUME NEW b \in Accounts, profile'[b] # None,
                      phone'[b] # profile'[b].code, b \notin raced', b \notin failed'
               PROVE  \E o \in Requests : call'[o].pc = "sms" /\ call'[o].acct = b
    BY DEF LastMessageWorks, Accounted, At
  <2>1. b # a
    BY <1>1, <1>4, <1>8 DEF AccountsIInv, AccountOK
  <2>2. PICK o \in Requests : call[o].pc = "sms" /\ call[o].acct = b
    BY <1>1, <1>7, <2>1 DEF AccountsIInv, LastMessageWorks, Accounted, At
  <2> QED
    BY <1>1, <1>6, <2>2 DEF At
<1> QED
  BY <1>9, <1>10, <1>11, <1>12, <1>13, <1>14 DEF AccountsIInv

LEMMA CreateAccountInv ==
  ASSUME AccountsIInv, NEW r \in Requests, CreateAccount(r) PROVE AccountsIInv'
<1>1. At(r, "create") /\ call[r].pc \in {"create", "add"}
  BY DEF CreateAccount, At
<1>2. call[r].nick \in Nicks
  BY <1>1, TypeFacts, CallFields DEF AccountsIInv, RequestOK, CallOK, At
<1> QED
  BY <1>1, <1>2, NewAccountInv DEF CreateAccount, Row

LEMMA AddUserProfilesInv ==
  ASSUME AccountsIInv, NEW r \in Requests, AddUserProfiles(r) PROVE AccountsIInv'
<1>1. call[r].pc \in {"create", "add"}
  BY DEF AddUserProfiles, At
<1> QED
  BY <1>1, NewAccountInv DEF AddUserProfiles, Row, history

\* A write that keeps the code, the time and the count of the row: the name.
LEMMA SaveNickInv ==
  ASSUME AccountsIInv, NEW r \in Requests, SaveNick(r) PROVE AccountsIInv'
<1> DEFINE a == call[r].acct
           n == call[r].nick
<1>1. /\ At(r, "nick") /\ Become(r, Idle)
      /\ profile' = [profile EXCEPT ![a].nick = n]
      /\ TakeNick(r, n)
      /\ UNCHANGED <<now, extend, made, phone, raced, burst, failed>>
  BY DEF SaveNick
<1>2. a \in Accounts /\ n \in Nicks /\ profile[a] # None
  BY <1>1, TypeFacts, CallFields DEF AccountsIInv, RequestOK, CallOK, At, Row
<1>3. /\ call' \in [Requests -> Calls] /\ call'[r] = Idle
      /\ \A o \in Requests \ {r} : call'[o] = call[o]
  BY <1>1, IdleCall, TypeFacts, BecomeFacts DEF AccountsIInv
<1>4. profile[a] \in Rows
  BY <1>2, TypeFacts DEF AccountsIInv
<1>5. PICK p : p = [profile[a] EXCEPT !.nick = n] /\ profile' = [profile EXCEPT ![a] = p]
  BY <1>1
<1>6. /\ p \in Rows /\ p.nick = n /\ p.code = profile[a].code
      /\ p.last = profile[a].last /\ p.count = profile[a].count
  BY <1>2, <1>4, <1>5 DEF Rows
<1>7. /\ profile' \in [Accounts -> UserProfile \cup {None}]
      /\ profile'[a] = p
      /\ \A b \in Accounts \ {a} : profile'[b] = profile[b]
  BY <1>2, <1>5, <1>6, WriteFacts DEF AccountsIInv
<1> HIDE DEF a, n
<1>8. /\ \A o \in Requests \ {r} : FreeName(o)'
      /\ DuplicateNickNeedsOverlap'
      /\ racedNicks' \subseteq Nicks
  <2>1. call[r].pc \in {"create", "nick"} /\ call[r].nick = n
    BY <1>1 DEF At, n
  <2> QED
    BY <1>1, <1>2, <1>3, <1>6, <1>7, <2>1, NoneFacts, NickStep
<1>9. \A b \in Accounts :
        /\ profile'[b] = None <=> profile[b] = None
        /\ profile'[b].code = profile[b].code
        /\ profile'[b].last = profile[b].last
        /\ profile'[b].count = profile[b].count
  BY <1>2, <1>6, <1>7, NoneFacts
<1>10. AccountsTypeOK'
  BY <1>1, <1>3, <1>7, <1>8 DEF AccountsIInv, AccountsTypeOK, Calls, PCs, Counts
<1>11. ASSUME NEW o \in Requests PROVE RequestOK(o)'
  <2>1. CASE o = r
    BY <1>1, <1>3, <2>1, TypeFacts, EndedOK DEF AccountsIInv
  <2>2. CASE o # r
    <3>1. RequestOK(o) /\ call'[o] = call[o] /\ FreeName(o)'
      BY <1>3, <1>8, <2>2 DEF AccountsIInv
    <3>2. call[o].pc \notin {"idle"} => call[o].acct \in Accounts
      BY <3>1, TypeFacts, CallFields DEF AccountsIInv, RequestOK, CallOK, At
    <3>3. CallOK(o)'
      BY <1>1, <1>9, <3>1, <3>2 DEF RequestOK, CallOK, Row, At
    <3>4. SentCode(o)' /\ Waited(o)'
      BY <1>1, <1>9, <3>1, <3>2 DEF RequestOK, SentCode, Waited, Row, At
    <3> QED
      BY <3>1, <3>3, <3>4 DEF RequestOK
  <2> QED
    BY <2>1, <2>2
<1>12. \A b \in Accounts : AccountOK(b)'
  BY <1>1, <1>9 DEF AccountsIInv, AccountOK
<1>13. MissingUidNeedsFailure'
  <2> SUFFICES ASSUME NEW b \in Accounts, profile'[b] # None, b \notin extend', b \notin failed'
               PROVE  \E o \in Requests : call'[o].acct = b /\ call'[o].pc \in {"ext", "insert"}
    BY DEF MissingUidNeedsFailure, Accounted
  <2>1. PICK o \in Requests : call[o].acct = b /\ call[o].pc \in {"ext", "insert"}
    BY <1>1, <1>9 DEF AccountsIInv, MissingUidNeedsFailure, Accounted
  <2> QED
    BY <1>1, <1>3, <2>1 DEF At
<1>14. LastMessageWorks'
  <2> SUFFICES ASSUME NEW b \in Accounts, profile'[b] # None,
                      phone'[b] # profile'[b].code, b \notin raced', b \notin failed'
               PROVE  \E o \in Requests : call'[o].pc = "sms" /\ call'[o].acct = b
    BY DEF LastMessageWorks, Accounted, At
  <2>1. PICK o \in Requests : call[o].pc = "sms" /\ call[o].acct = b
    BY <1>1, <1>9 DEF AccountsIInv, LastMessageWorks, Accounted, At
  <2> QED
    BY <1>1, <1>3, <2>1 DEF At
<1> QED
  BY <1>8, <1>10, <1>11, <1>12, <1>13, <1>14 DEF AccountsIInv

\* The count that is written is that of the codes that follow each other, or more.
LEMMA CreateTokenInv ==
  ASSUME AccountsIInv, NEW r \in Requests, CreatePhonePasswordResetToken(r)
  PROVE  AccountsIInv'
<1> DEFINE a == call[r].acct
           paused == profile[a].last # None /\ profile[a].last + Hour <= now
<1>1. /\ At(r, "code") /\ made < MaxCodes /\ made' = made + 1
      /\ profile' = [profile EXCEPT ![a] =
           [@ EXCEPT !.code = made + 1, !.last = now, !.count = call[r].count + 1]]
      /\ CodeSaved(r)
      /\ UNCHANGED <<now, extend, phone, racedNicks, failed>>
  BY DEF CreatePhonePasswordResetToken
<1>2. PICK c : c = [Idle EXCEPT !.pc = "sms", !.acct = a, !.code = made + 1] /\ Become(r, c)
  BY DEF CreatePhonePasswordResetToken
<1>3. c = [pc |-> "sms", acct |-> a, nick |-> None, count |-> 0, code |-> made + 1]
  BY <1>2 DEF Idle
<1>4. a \in Accounts /\ profile[a] # None /\ call[r].count \in Nat /\ call[r].count <= made
  BY <1>1, TypeFacts, CallFields DEF AccountsIInv, RequestOK, CallOK, At, Row
<1>5. made \in Nat /\ made' \in Nat /\ made + 1 \in Codes /\ now \in Minutes /\ made' <= MaxCodes
  BY <1>1, TypeFacts DEF AccountsIInv, AccountsTypeOK, Codes
<1>6. c \in Calls
  BY <1>3, <1>4, <1>5 DEF Calls, PCs, Counts
<1>7. /\ call' \in [Requests -> Calls] /\ call'[r] = c
      /\ \A o \in Requests \ {r} : call'[o] = call[o]
  BY <1>2, <1>6, TypeFacts, BecomeFacts DEF AccountsIInv
<1>8. profile[a] \in Rows
  BY <1>4, TypeFacts DEF AccountsIInv
<1>9. PICK p :
        /\ p = [profile[a] EXCEPT !.code = made + 1, !.last = now, !.count = call[r].count + 1]
        /\ profile' = [profile EXCEPT ![a] = p]
  BY <1>1
<1>10. /\ p \in Rows /\ p.nick = profile[a].nick /\ p.code = made + 1
       /\ p.last = now /\ p.count = call[r].count + 1
  <2>1. call[r].count + 1 \in Counts
    BY <1>1, <1>4, <1>5 DEF Counts
  <2> QED
    BY <1>5, <1>8, <1>9, <2>1 DEF Rows
<1>11. /\ profile' \in [Accounts -> UserProfile \cup {None}]
       /\ profile'[a] = p
       /\ \A b \in Accounts \ {a} : profile'[b] = profile[b]
  <2>1. p \in Rows /\ profile' = [profile EXCEPT ![a] = p] /\ a \in Accounts
    BY <1>4, <1>9, <1>10
  <2>2. AccountsTypeOK
    BY DEF AccountsIInv
  <2> HIDE DEF a
  <2> QED
    BY <2>1, <2>2, WriteFacts
<1>12. /\ raced \subseteq raced' /\ raced' \subseteq Accounts
       /\ \A o \in Requests \ {r} :
            call[o].acct = a /\ call[o].pc \in {"code", "sms"} => a \in raced'
       /\ \A b \in Accounts \ {a} : b \in raced' => b \in raced
  BY <1>1, <1>4 DEF CodeSaved, Others, AccountsIInv, AccountsTypeOK
<1>13. /\ burst' = [burst EXCEPT ![a] = IF paused THEN 1 ELSE burst[a] + 1]
       /\ burst \in [Accounts -> Counts] /\ burst[a] \in Nat /\ burst[a] <= made
  <2>1. AccountOK(a) /\ burst \in [Accounts -> Counts]
    BY <1>4, TypeFacts DEF AccountsIInv
  <2> QED
    BY <1>1, <1>4, <2>1 DEF CodeSaved, AccountOK, Counts
<1> HIDE DEF paused
<1>14. /\ burst' \in [Accounts -> Counts]
       /\ burst'[a] = IF paused THEN 1 ELSE burst[a] + 1
       /\ \A b \in Accounts \ {a} : burst'[b] = burst[b]
  <2>1. 1 \in Counts /\ burst[a] + 1 \in Counts
    BY <1>1, <1>5, <1>13 DEF Counts
  <2> QED
    BY <1>4, <1>13, <2>1
<1> HIDE DEF a
<1>15. AccountsTypeOK'
  <2>1. made' \in 0..MaxCodes
    BY <1>5
  <2> QED
    BY <1>1, <1>7, <1>11, <1>12, <1>14, <2>1
    DEF AccountsIInv, AccountsTypeOK, Calls, PCs, Counts
<1>16. \A b \in Accounts : /\ profile'[b] = None <=> profile[b] = None
                          /\ profile'[b].nick = profile[b].nick
  BY <1>4, <1>10, <1>11, NoneFacts
<1>17. ASSUME NEW o \in Requests PROVE RequestOK(o)'
  <2>1. CASE o = r
    BY <1>3, <1>4, <1>5, <1>7, <1>10, <1>11, <1>16, <2>1, NoneFacts
    DEF RequestOK, CallOK, FreeName, SentCode, Waited, At, Row
  <2>2. CASE o # r
    <3>1. RequestOK(o) /\ call'[o] = call[o] /\ call[o].count \in Nat
      BY <1>7, <2>2, TypeFacts, CallFields DEF AccountsIInv
    <3>2. ~At(o, "idle") => call[o].acct \in Accounts
      BY <3>1, TypeFacts, CallFields DEF AccountsIInv, RequestOK, CallOK
    <3>3. CallOK(o)'
      BY <1>1, <1>5, <1>16, <3>1, <3>2 DEF RequestOK, CallOK, Row, At
    <3>4. FreeName(o)'
      BY <1>1, <1>16, <3>1 DEF RequestOK, FreeName, UserNickExist
    <3>5. SentCode(o)' /\ Waited(o)'
      <4>1. CASE call[o].acct = a
        BY <1>12, <2>2, <3>1, <4>1 DEF SentCode, Waited, At
      <4>2. CASE call[o].acct # a
        BY <1>1, <1>11, <1>12, <1>14, <3>1, <3>2, <4>2
        DEF RequestOK, SentCode, Waited, At, Row
      <4> QED
        BY <4>1, <4>2
    <3> QED
      BY <3>3, <3>4, <3>5 DEF RequestOK
  <2> QED
    BY <2>1, <2>2
<1>18. a \notin raced => paused \/ burst[a] <= call[r].count
  <2>1. Waited(r) /\ AccountOK(a)
    BY <1>4 DEF AccountsIInv, RequestOK
  <2>2. Row(r) = profile[a] /\ call[r].acct = a
    BY DEF Row, a
  <2> QED
    BY <1>1, <1>4, <2>1, <2>2 DEF Waited, AccountOK
<1>19. ASSUME NEW b \in Accounts PROVE AccountOK(b)'
  <2>1. AccountOK(b) /\ burst[b] \in Nat
    BY TypeFacts DEF AccountsIInv, Counts
  <2>2. CASE b = a
    BY <1>1, <1>4, <1>5, <1>10, <1>11, <1>12, <1>13, <1>14, <1>16, <1>18, <2>2, NoneFacts DEF AccountOK
  <2>3. CASE b # a
    <3>1. profile[b] # None => profile[b].count \in Nat
      BY TypeFacts, RowFields DEF AccountsIInv
    <3> QED
      BY <1>1, <1>5, <1>11, <1>12, <1>14, <2>1, <2>3, <3>1 DEF AccountOK
  <2> QED
    BY <2>2, <2>3
<1>20. DuplicateNickNeedsOverlap'
  BY <1>1, <1>16 DEF AccountsIInv, DuplicateNickNeedsOverlap, Accounted
<1>21. MissingUidNeedsFailure'
  <2> SUFFICES ASSUME NEW b \in Accounts, profile'[b] # None, b \notin extend', b \notin failed'
               PROVE  \E o \in Requests : call'[o].acct = b /\ call'[o].pc \in {"ext", "insert"}
    BY DEF MissingUidNeedsFailure, Accounted
  <2>1. PICK o \in Requests : call[o].acct = b /\ call[o].pc \in {"ext", "insert"}
    BY <1>1, <1>16 DEF AccountsIInv, MissingUidNeedsFailure, Accounted
  <2> QED
    BY <1>1, <1>7, <2>1 DEF At
<1>22. LastMessageWorks'
  <2> SUFFICES ASSUME NEW b \in Accounts, profile'[b] # None,
                      phone'[b] # profile'[b].code, b \notin raced', b \notin failed'
               PROVE  \E o \in Requests : call'[o].pc = "sms" /\ call'[o].acct = b
    BY DEF LastMessageWorks, Accounted, At
  <2>1. CASE b = a
    BY <1>3, <1>7, <2>1
  <2>2. CASE b # a
    <3>1. PICK o \in Requests : call[o].pc = "sms" /\ call[o].acct = b
      BY <1>1, <1>11, <1>12, <2>2 DEF AccountsIInv, LastMessageWorks, Accounted, At
    <3> QED
      BY <1>1, <1>7, <3>1 DEF At
  <2> QED
    BY <2>1, <2>2
<1> QED
  BY <1>15, <1>17, <1>19, <1>20, <1>21, <1>22 DEF AccountsIInv

\* The count goes back to 0 together with what history counts, or neither does.
LEMMA ResetTokenCountInv ==
  ASSUME AccountsIInv, NEW r \in Requests, ResetTokenCount(r) PROVE AccountsIInv'
<1> DEFINE a == call[r].acct
<1>1. /\ At(r, "count") /\ Become(r, Idle)
      /\ profile' = [profile EXCEPT ![a].count = IF call[r].count = 0 THEN @ ELSE 0]
      /\ burst' = [burst EXCEPT ![a] = IF call[r].count = 0 THEN @ ELSE 0]
      /\ UNCHANGED <<now, extend, made, phone, racedNicks, raced, failed>>
  BY DEF ResetTokenCount
<1>2. a \in Accounts /\ profile[a] # None
  BY <1>1, TypeFacts, CallFields DEF AccountsIInv, RequestOK, CallOK, At, Row
<1>3. /\ call' \in [Requests -> Calls] /\ call'[r] = Idle
      /\ \A o \in Requests \ {r} : call'[o] = call[o]
  BY <1>1, IdleCall, TypeFacts, BecomeFacts DEF AccountsIInv
<1>4. profile[a] \in Rows /\ burst \in [Accounts -> Counts] /\ made \in Nat
  BY <1>2, TypeFacts DEF AccountsIInv
<1>5. PICK p :
        /\ p = [profile[a] EXCEPT !.count = IF call[r].count = 0 THEN profile[a].count ELSE 0]
        /\ profile' = [profile EXCEPT ![a] = p]
  BY <1>1
<1>6. /\ p \in Rows /\ p.nick = profile[a].nick /\ p.code = profile[a].code
      /\ p.last = profile[a].last
      /\ p.count = IF call[r].count = 0 THEN profile[a].count ELSE 0
  <2>1. 0 \in Counts
    BY DEF Counts
  <2> QED
    BY <1>4, <1>5, <2>1 DEF Rows
<1>7. /\ profile' \in [Accounts -> UserProfile \cup {None}]
      /\ profile'[a] = p
      /\ \A b \in Accounts \ {a} : profile'[b] = profile[b]
  <2>1. p \in Rows /\ profile' = [profile EXCEPT ![a] = p] /\ a \in Accounts
    BY <1>2, <1>5, <1>6
  <2>2. AccountsTypeOK
    BY DEF AccountsIInv
  <2> HIDE DEF a
  <2> QED
    BY <2>1, <2>2, WriteFacts
<1>8. /\ burst' \in [Accounts -> Counts]
      /\ burst'[a] = IF call[r].count = 0 THEN burst[a] ELSE 0
      /\ \A b \in Accounts \ {a} : burst'[b] = burst[b]
  <2>1. 0 \in Counts
    BY DEF Counts
  <2> QED
    BY <1>1, <1>2, <1>4, <2>1
<1> HIDE DEF a
<1>9. \A b \in Accounts :
        /\ profile'[b] = None <=> profile[b] = None
        /\ profile'[b].nick = profile[b].nick
        /\ profile'[b].code = profile[b].code
        /\ profile'[b].last = profile[b].last
  BY <1>2, <1>6, <1>7, NoneFacts
<1>10. AccountsTypeOK'
  BY <1>1, <1>3, <1>7, <1>8 DEF AccountsIInv, AccountsTypeOK, Calls, PCs, Counts
<1>11. ASSUME NEW o \in Requests PROVE RequestOK(o)'
  <2>1. CASE o = r
    BY <1>1, <1>3, <2>1, TypeFacts, EndedOK DEF AccountsIInv
  <2>2. CASE o # r
    <3>1. RequestOK(o) /\ call'[o] = call[o] /\ call[o].count \in Nat
      BY <1>3, <2>2, TypeFacts, CallFields DEF AccountsIInv
    <3>2. ~At(o, "idle") => call[o].acct \in Accounts
      BY <3>1, TypeFacts, CallFields DEF AccountsIInv, RequestOK, CallOK
    <3>3. CallOK(o)'
      BY <1>1, <1>9, <3>1, <3>2 DEF RequestOK, CallOK, Row, At
    <3>4. FreeName(o)'
      BY <1>1, <1>9, <3>1 DEF RequestOK, FreeName, UserNickExist
    <3>5. SentCode(o)'
      BY <1>1, <1>9, <3>1, <3>2 DEF RequestOK, SentCode, At, Row
    <3>6. Waited(o)'
      <4>1. \A b \in Accounts : burst'[b] = burst[b] \/ burst'[b] = 0
        BY <1>8
      <4> QED
        BY <1>1, <1>9, <3>1, <3>2, <4>1 DEF RequestOK, Waited, At, Row
    <3> QED
      BY <3>3, <3>4, <3>5, <3>6 DEF RequestOK
  <2> QED
    BY <2>1, <2>2
<1>12. ASSUME NEW b \in Accounts PROVE AccountOK(b)'
  <2>1. AccountOK(b)
    BY DEF AccountsIInv
  <2>2. CASE b = a
    BY <1>1, <1>2, <1>4, <1>6, <1>7, <1>8, <1>9, <2>1, <2>2 DEF AccountOK
  <2>3. CASE b # a
    BY <1>1, <1>7, <1>8, <2>1, <2>3 DEF AccountOK
  <2> QED
    BY <2>2, <2>3
<1>13. DuplicateNickNeedsOverlap'
  BY <1>1, <1>9 DEF AccountsIInv, DuplicateNickNeedsOverlap, Accounted
<1>14. MissingUidNeedsFailure'
  <2> SUFFICES ASSUME NEW b \in Accounts, profile'[b] # None, b \notin extend', b \notin failed'
               PROVE  \E o \in Requests : call'[o].acct = b /\ call'[o].pc \in {"ext", "insert"}
    BY DEF MissingUidNeedsFailure, Accounted
  <2>1. PICK o \in Requests : call[o].acct = b /\ call[o].pc \in {"ext", "insert"}
    BY <1>1, <1>9 DEF AccountsIInv, MissingUidNeedsFailure, Accounted
  <2> QED
    BY <1>1, <1>3, <2>1 DEF At
<1>15. LastMessageWorks'
  <2> SUFFICES ASSUME NEW b \in Accounts, profile'[b] # None,
                      phone'[b] # profile'[b].code, b \notin raced', b \notin failed'
               PROVE  \E o \in Requests : call'[o].pc = "sms" /\ call'[o].acct = b
    BY DEF LastMessageWorks, Accounted, At
  <2>1. PICK o \in Requests : call[o].pc = "sms" /\ call[o].acct = b
    BY <1>1, <1>9 DEF AccountsIInv, LastMessageWorks, Accounted, At
  <2> QED
    BY <1>1, <1>3, <2>1 DEF At
<1> QED
  BY <1>10, <1>11, <1>12, <1>13, <1>14, <1>15 DEF AccountsIInv

(***************************************************************************)
(* The theorems                                                            *)
(***************************************************************************)

LEMMA AccountsInit == Init => AccountsIInv
<1> SUFFICES ASSUME Init PROVE AccountsIInv
  OBVIOUS
<1>1. /\ now = 0 /\ made = 0 /\ extend = {} /\ racedNicks = {} /\ raced = {} /\ failed = {}
      /\ profile = [a \in Accounts |-> None] /\ phone = [a \in Accounts |-> None]
      /\ call = [r \in Requests |-> Idle] /\ burst = [a \in Accounts |-> 0]
  BY DEF Init
<1>2. AccountsTypeOK
  <2>1. call \in [Requests -> Calls]
    BY <1>1, IdleCall
  <2> QED
    BY <1>1, <2>1 DEF AccountsTypeOK, Minutes, Calls, PCs, Counts
<1>3. ASSUME NEW r \in Requests PROVE RequestOK(r)
  <2>1. call[r] = Idle
    BY <1>1
  <2>2. call[r].pc = "idle" /\ call[r].count <= made
    BY <1>1, <2>1, IdleCall
  <2> QED
    BY <2>2 DEF RequestOK, CallOK, FreeName, SentCode, Waited, At
<1>4. \A a \in Accounts : AccountOK(a)
  BY <1>1 DEF AccountOK
<1>5. DuplicateNickNeedsOverlap /\ MissingUidNeedsFailure /\ LastMessageWorks
  BY <1>1 DEF DuplicateNickNeedsOverlap, MissingUidNeedsFailure, LastMessageWorks, Accounted
<1> QED
  BY <1>2, <1>3, <1>4, <1>5 DEF AccountsIInv

LEMMA AccountsNext == AccountsIInv /\ [Next]_vars => AccountsIInv'
<1> SUFFICES ASSUME AccountsIInv, [Next]_vars PROVE AccountsIInv'
  OBVIOUS
<1>1. ASSUME UNCHANGED vars PROVE AccountsIInv'
  <2>1. UNCHANGED <<now, profile, extend, made, phone, call, racedNicks, raced, burst, failed>>
    BY <1>1 DEF vars, history
  <2>2. AccountsTypeOK' /\ \A a \in Accounts : AccountOK(a)'
    BY <2>1, AccountStep DEF AccountsIInv, AccountsTypeOK
  <2>3. \A r \in Requests : RequestOK(r)'
    BY <2>1 DEF AccountsIInv, RequestOK, CallOK, FreeName, SentCode, Waited, At, Row, UserNickExist
  <2>4. DuplicateNickNeedsOverlap' /\ MissingUidNeedsFailure' /\ LastMessageWorks'
    BY <2>1 DEF AccountsIInv, DuplicateNickNeedsOverlap, MissingUidNeedsFailure,
                LastMessageWorks, Accounted, At
  <2> QED
    BY <2>2, <2>3, <2>4 DEF AccountsIInv
<1>2. ASSUME NEW r \in Requests,
             \/ CreateAccount(r) \/ AddUserProfiles(r) \/ NameIsTaken(r)
             \/ FindExtend(r) \/ InsertExtend(r)
             \/ SaveNick(r)
             \/ CreatePhonePasswordResetToken(r) \/ SendSMS(r)
             \/ ResetPassword(r) \/ ResetTokenCount(r)
             \/ Fail(r)
      PROVE  AccountsIInv'
  BY <1>2, CreateAccountInv, AddUserProfilesInv, NameIsTakenInv, FindExtendInv, InsertExtendInv, SaveNickInv,
     CreateTokenInv, SendSMSInv, ResetPasswordInv, ResetTokenCountInv, FailInv
<1>3. ASSUME NEW r \in Requests, NEW a \in Accounts,
             \/ \E n \in Nicks : Register(r, a, n) \/ ChangeNick(r, a, n)
             \/ ConfirmExternalLogin(r, a) \/ LinkAccount(r, a)
             \/ GetPassWordByPhone(r, a)
             \/ ResetPasswordByPhoneToken(r, a)
      PROVE  AccountsIInv'
  BY <1>3, RegisterInv, ChangeNickInv, ConfirmExternalLoginInv, LinkAccountInv, GetPassWordByPhoneInv,
     ResetPasswordByPhoneTokenInv
<1>4. Tick => AccountsIInv'
  BY TickInv
<1> QED
  BY <1>1, <1>2, <1>3, <1>4 DEF Next

\* AccountsIInv holds in every state the requests can reach: a request knows what it
\* needs, and the stored rows are what the limits and the messages rely on.
THEOREM AccountsInvariant == Spec => []AccountsIInv
<1> QED
  BY AccountsInit, AccountsNext, PTL DEF Spec

\* Every row, call and count is of its type; a count stays within the codes made.
THEOREM AccountsTypes == Spec => []AccountsTypeOK
<1>1. AccountsIInv => AccountsTypeOK
  BY DEF AccountsIInv
<1> QED
  BY <1>1, AccountsInvariant, PTL

\* Two accounts share a nick name only after requests that overlapped.
THEOREM NicksDiffer == Spec => []DuplicateNickNeedsOverlap
<1>1. AccountsIInv => DuplicateNickNeedsOverlap
  BY DEF AccountsIInv
<1> QED
  BY <1>1, AccountsInvariant, PTL

\* An account lacks its uid only while it is given one, or after a failure.
THEOREM UidsAreGiven == Spec => []MissingUidNeedsFailure
<1>1. AccountsIInv => MissingUidNeedsFailure
  BY DEF AccountsIInv
<1> QED
  BY <1>1, AccountsInvariant, PTL

\* The last message holds the stored code, where requests did not overlap or fail.
THEOREM MessagesWork == Spec => []LastMessageWorks
<1>1. AccountsIInv => LastMessageWorks
  BY DEF AccountsIInv
<1> QED
  BY <1>1, AccountsInvariant, PTL

LEMMA LimitStep ==
  ASSUME AccountsIInv, NEW r \in Requests, CreatePhonePasswordResetToken(r),
         call[r].acct \notin raced'
  PROVE  /\ Row(r).last = None \/ Row(r).last < now
         /\ burst'[call[r].acct] <= MaxResend
<1> DEFINE a == call[r].acct
<1>1. At(r, "code") /\ CodeSaved(r)
  BY DEF CreatePhonePasswordResetToken
<1>2. a \in Accounts /\ profile[a] # None /\ call[r].count \in Nat
  BY <1>1, TypeFacts, CallFields DEF AccountsIInv, RequestOK, CallOK, At, Row
<1>3. AccountOK(a) /\ Waited(r) /\ a \notin raced
  BY <1>1, <1>2 DEF AccountsIInv, RequestOK, CodeSaved
<1>4. burst[a] \in Nat /\ now \in Nat
  BY <1>2, TypeFacts DEF AccountsIInv, Counts
<1>5. burst'[a] = IF profile[a].last # None /\ profile[a].last + Hour <= now
                  THEN 1 ELSE burst[a] + 1
  <2>1. burst \in [Accounts -> Counts]
    BY TypeFacts DEF AccountsIInv
  <2> QED
    BY <1>1, <1>2, <2>1 DEF CodeSaved
<1>6. profile[a].last # None => profile[a].last \in Nat
  BY <1>2, TypeFacts, RowFields DEF AccountsIInv
<1> QED
  BY <1>1, <1>2, <1>3, <1>4, <1>5, <1>6 DEF AccountOK, Waited, Row

\* Without overlapping requests the codes of an account are a minute apart, and at most
\* MaxResend follow each other without a reset or an hour's pause.
THEOREM CodesHaveLimits == Spec => CodesAreLimited
<1> DEFINE A ==
      \A a \in Accounts : \A r \in Requests :
        (CreatePhonePasswordResetToken(r) /\ call[r].acct = a /\ a \notin raced')
        => /\ profile[a].last = None \/ profile[a].last < now
           /\ burst'[a] <= MaxResend
<1>1. AccountsIInv => A
  BY LimitStep DEF Row
<1>2. AccountsIInv => [A]_vars
  BY <1>1
<1> HIDE DEF A
<1>3. Spec => [][A]_vars
  BY <1>2, AccountsInvariant, PTL
<1> QED
  BY <1>3 DEF CodesAreLimited, A
=============================================================================
