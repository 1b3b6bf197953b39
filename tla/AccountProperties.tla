------------------------- MODULE AccountProperties -------------------------
(***************************************************************************)
(* What the accounts of the CAS web application keep to, and what can only *)
(* go wrong when requests overlap or fail.  None of these operations takes *)
(* a lock or a transaction over its check and its write.                   *)
(***************************************************************************)
EXTENDS UserAccounts

Accounted == {a \in Accounts : profile[a] # None}

\* Two accounts share a nick name only if one took it while the other's
\* request, a registration or a change, had already found it free.
DuplicateNickNeedsOverlap ==
  \A a, b \in Accounted :
    a # b /\ profile[a].nick = profile[b].nick /\ profile[a].nick # None
    => profile[a].nick \in racedNicks

\* An account without a uid, for which a validation of its ticket has no
\* answer, is being given one, or a request failed for it.
MissingUidNeedsFailure ==
  \A a \in Accounted \ extend :
    a \in failed \/ \E r \in Requests : call[r].acct = a /\ call[r].pc \in {"ext", "insert"}

\* Without overlapping requests, the codes of an account are at least a minute
\* apart, and no more than MaxResend follow each other without a reset of the
\* password or a pause of an hour: the count and the time the limits are read
\* from are what was saved last, over all the requests and resets since.
CodesAreLimited ==
  [][\A a \in Accounts : \A r \in Requests :
       (CreatePhonePasswordResetToken(r) /\ call[r].acct = a /\ a \notin raced')
       => /\ profile[a].last = None \/ profile[a].last < now
          /\ burst'[a] <= MaxResend]_vars

\* Without overlapping requests, the last message a user was sent holds the code
\* the database expects, unless a newer one is on its way or its request failed.
LastMessageWorks ==
  \A a \in Accounted :
    \/ phone[a] = profile[a].code
    \/ a \in raced \cup failed
    \/ \E r \in Requests : At(r, "sms") /\ call[r].acct = a

\* The inductive invariant, in parts.  A request knows its account, and what
\* its next step writes.
CallOK(r) ==
  /\ ~At(r, "idle") => call[r].acct # None
  /\ call[r].pc \notin {"idle", "create", "add"} => Row(r) # None
  /\ call[r].pc \in {"create", "nick"} => call[r].nick # None
  /\ At(r, "sms") => call[r].code # None
  /\ call[r].count <= made

\* A name that was found free still is, or history has noted who took it.
FreeName(r) ==
  call[r].pc \in {"create", "nick"} /\ UserNickExist(call[r].nick)
    => call[r].nick \in racedNicks

\* The code that is on its way is the stored one.
SentCode(r) ==
  At(r, "sms") /\ call[r].acct \notin raced => call[r].code = Row(r).code

\* What the limits were compared with still holds when the code is made.
Waited(r) ==
  At(r, "code") /\ call[r].acct \notin raced /\ Row(r).last # None =>
    /\ Row(r).last + 1 <= now
    /\ call[r].count < MaxResend \/ Row(r).last + Hour <= now
    /\ burst[call[r].acct] <= call[r].count

RequestOK(r) == CallOK(r) /\ FreeName(r) /\ SentCode(r) /\ Waited(r)

\* The stored count is never behind the codes that follow each other.
AccountOK(a) ==
  /\ burst[a] <= made
  /\ profile[a] = None => phone[a] = None /\ burst[a] = 0
  /\ profile[a] # None => profile[a].count <= made
  /\ profile[a] # None /\ a \notin raced =>
       /\ burst[a] <= profile[a].count
       /\ profile[a].last = None => burst[a] = 0

AccountsIInv ==
  /\ AccountsTypeOK
  /\ \A r \in Requests : RequestOK(r)
  /\ \A a \in Accounts : AccountOK(a)
  /\ DuplicateNickNeedsOverlap
  /\ MissingUidNeedsFailure
  /\ LastMessageWorks
=============================================================================
