---------------------------- MODULE UserAccounts ----------------------------
(***************************************************************************)
(* The accounts of the CAS web application: what AccountController and     *)
(* UserService do to the tables UserProfile and UserExtend, from web       *)
(* requests that run concurrently.  A request reads and writes the         *)
(* database through a context of its own: an object it has read keeps its  *)
(* values, and SaveChanges writes the columns the request has changed.     *)
(***************************************************************************)
EXTENDS Integers

CONSTANTS
  Requests,
  Accounts,     \* user names: the database is taken to refuse a name it has
  WithPhone,    \* the accounts that have a phone number
  Nicks,        \* what NickName can be, when it is not null
  None,
  MaxResend,    \* how many codes may follow each other: 5 in the code
  Hour,         \* the pause after that many, in minutes: 60 in the code
  TokenLife,    \* how long a code can be used, in minutes: 1440 in the code
  MaxCodes,     \* bound on the codes that are made
  MaxTime       \* bound on the clock, in minutes

Minutes == 0..MaxTime
Codes == 1..MaxCodes       \* a code made later is a greater number
UserProfile ==
  [nick : Nicks \cup {None}, code : Codes \cup {None}, last : Minutes \cup {None},
   count : 0..MaxCodes]

ASSUME UserAccountsAssumption ==
  /\ MaxResend \in Nat \ {0} /\ Hour \in Nat /\ TokenLife \in Nat
  /\ MaxCodes \in Nat /\ MaxTime \in Nat
  /\ WithPhone \subseteq Accounts
  /\ None \notin Requests \cup Accounts \cup Nicks \cup Minutes \cup Codes \cup UserProfile

VARIABLES
  now,
  profile,     \* the rows of UserProfile
  extend,      \* the accounts that have a row in UserExtend, and with it a uid
  made,        \* how many codes have been made
  phone,       \* the last code each user was sent
  call,        \* the local variables of each request
  \* history
  racedNicks,  \* names taken while another request had found them free
  raced,       \* accounts with requests for a code that overlapped
  burst,       \* codes since the last reset, or the last pause of an hour
  failed       \* accounts a request has failed for

history == <<racedNicks, raced, burst, failed>>
vars == <<now, profile, extend, made, phone, call, history>>

Idle == [pc |-> "idle", acct |-> None, nick |-> None, count |-> 0, code |-> None]

AccountsTypeOK ==
  /\ now \in Minutes
  /\ profile \in [Accounts -> UserProfile \cup {None}]
  /\ extend \subseteq Accounts
  /\ made \in 0..MaxCodes
  /\ phone \in [Accounts -> Codes \cup {None}]
  /\ call \in [Requests ->
       [pc : {"idle", "create", "add", "ext", "insert", "nick", "code", "sms", "reset", "count"},
        acct : Accounts \cup {None}, nick : Nicks \cup {None},
        count : 0..MaxCodes, code : Codes \cup {None}]]
  /\ racedNicks \subseteq Nicks
  /\ raced \subseteq Accounts
  /\ burst \in [Accounts -> 0..MaxCodes]
  /\ failed \subseteq Accounts

At(r, pc) == call[r].pc = pc
Become(r, c) == call' = [call EXCEPT ![r] = c]
Others(r) == Requests \ {r}
Row(r) == profile[call[r].acct]

Init ==
  /\ now = 0
  /\ profile = [a \in Accounts |-> None]
  /\ extend = {}
  /\ made = 0
  /\ phone = [a \in Accounts |-> None]
  /\ call = [r \in Requests |-> Idle]
  /\ racedNicks = {} /\ raced = {} /\ failed = {}
  /\ burst = [a \in Accounts |-> 0]

(***************************************************************************)
(* New accounts, and the uid every account is given                        *)
(***************************************************************************)

UserNickExist(n) == \E a \in Accounts : profile[a] # None /\ profile[a].nick = n

\* Register: the nick name is free, CreateUserAndAccount comes next.
Register(r, a, n) ==
  /\ At(r, "idle")
  /\ ~UserNickExist(n)
  /\ Become(r, [Idle EXCEPT !.pc = "create", !.acct = a, !.nick = n])
  /\ UNCHANGED <<now, profile, extend, made, phone, history>>

NewProfile(n) == [nick |-> n, code |-> None, last |-> None, count |-> 0]

\* A name is taken: history notes if another request had found it free.
TakeNick(r, n) ==
  racedNicks' = IF \E o \in Others(r) : call[o].pc \in {"create", "nick"} /\ call[o].nick = n
                THEN racedNicks \cup {n} ELSE racedNicks

\* Variant with a bug: the account is not given its uid.
CreateAccountOnly(r) ==
  /\ At(r, "create")
  /\ Row(r) = None
  /\ profile' = [profile EXCEPT ![call[r].acct] = NewProfile(call[r].nick)]
  /\ TakeNick(r, call[r].nick)
  /\ Become(r, Idle)
  /\ UNCHANGED <<now, extend, made, phone, raced, burst, failed>>

\* CreateUserAndAccount, with a user name that is free.
CreateAccount(r) ==
  /\ At(r, "create")
  /\ Row(r) = None
  /\ profile' = [profile EXCEPT ![call[r].acct] = NewProfile(call[r].nick)]
  /\ TakeNick(r, call[r].nick)
  /\ Become(r, [Idle EXCEPT !.pc = "ext", !.acct = call[r].acct])
  /\ UNCHANGED <<now, extend, made, phone, raced, burst, failed>>

\* ExternalLoginConfirmation: no account has the user name, AddUserProfiles comes next.
ConfirmExternalLogin(r, a) ==
  /\ At(r, "idle")
  /\ profile[a] = None
  /\ Become(r, [Idle EXCEPT !.pc = "add", !.acct = a])
  /\ UNCHANGED <<now, profile, extend, made, phone, history>>

\* An account without a nick name, which CreateOrUpdateAccount links.
AddUserProfiles(r) ==
  /\ At(r, "add")
  /\ Row(r) = None
  /\ profile' = [profile EXCEPT ![call[r].acct] = NewProfile(None)]
  /\ Become(r, [Idle EXCEPT !.pc = "ext", !.acct = call[r].acct])
  /\ UNCHANGED <<now, extend, made, phone, history>>

\* CreateUserAndAccount or AddUserProfiles throws: the user name is taken.
NameIsTaken(r) ==
  /\ At(r, "create") \/ At(r, "add")
  /\ Row(r) # None
  /\ Become(r, Idle)
  /\ UNCHANGED <<now, profile, extend, made, phone, history>>

\* ExternalLoginCallback: a user who is logged in links another account.
LinkAccount(r, a) ==
  /\ At(r, "idle")
  /\ profile[a] # None
  /\ Become(r, [Idle EXCEPT !.pc = "ext", !.acct = a])
  /\ UNCHANGED <<now, profile, extend, made, phone, history>>

\* InserOrUpdateExtUid: is there a row?
FindExtend(r) ==
  /\ At(r, "ext")
  /\ Become(r, IF call[r].acct \in extend THEN Idle ELSE [call[r] EXCEPT !.pc = "insert"])
  /\ UNCHANGED <<now, profile, extend, made, phone, history>>

\* InserOrUpdateExtUid: insert one.  If there is one by now, SaveChanges throws.
InsertExtend(r) ==
  /\ At(r, "insert")
  /\ extend' = extend \cup {call[r].acct}
  /\ Become(r, Idle)
  /\ UNCHANGED <<now, profile, made, phone, history>>

(***************************************************************************)
(* ChangeNick                                                              *)
(***************************************************************************)

\* Variant with a bug: only the user's own name is compared.
ChangeNickUnchecked(r, a, n) ==
  /\ At(r, "idle")
  /\ profile[a] # None
  /\ profile[a].nick # n
  /\ Become(r, [Idle EXCEPT !.pc = "nick", !.acct = a, !.nick = n])
  /\ UNCHANGED <<now, profile, extend, made, phone, history>>

\* The profile is read, and no one has the name.
ChangeNick(r, a, n) ==
  /\ At(r, "idle")
  /\ profile[a] # None
  /\ profile[a].nick # n
  /\ ~UserNickExist(n)
  /\ Become(r, [Idle EXCEPT !.pc = "nick", !.acct = a, !.nick = n])
  /\ UNCHANGED <<now, profile, extend, made, phone, history>>

SaveNick(r) ==
  /\ At(r, "nick")
  /\ profile' = [profile EXCEPT ![call[r].acct].nick = call[r].nick]
  /\ TakeNick(r, call[r].nick)
  /\ Become(r, Idle)
  /\ UNCHANGED <<now, extend, made, phone, raced, burst, failed>>

(***************************************************************************)
(* GetPassWordByPhone                                                      *)
(***************************************************************************)

\* Variant with a bug: only the count is compared.
TooOftenByCount(p) ==
  p.last # None /\ p.count >= MaxResend /\ p.last + Hour > now

\* The two limits: a minute between two codes, an hour after MaxResend.
TooOften(p) ==
  p.last # None /\ (p.last + 1 > now \/ (p.count >= MaxResend /\ p.last + Hour > now))

GetPassWordByPhone(r, a) ==
  /\ At(r, "idle")
  /\ profile[a] # None
  /\ a \in WithPhone
  /\ ~TooOften(profile[a])
  /\ Become(r, [Idle EXCEPT !.pc = "code", !.acct = a, !.count = profile[a].count])
  /\ UNCHANGED <<now, profile, extend, made, phone, history>>

\* What history notes when a code is saved.
CodeSaved(r) ==
  LET a == call[r].acct
  IN /\ raced' = IF \E o \in Others(r) : call[o].acct = a /\ call[o].pc \in {"code", "sms"}
                 THEN raced \cup {a} ELSE raced
     /\ burst' = [burst EXCEPT ![a] =
          IF profile[a].last # None /\ profile[a].last + Hour <= now THEN 1 ELSE @ + 1]

\* Variant with a bug: a code that can still be used stays the stored one.
KeepUnexpiredToken(r) ==
  /\ At(r, "code")
  /\ made < MaxCodes
  /\ made' = made + 1
  /\ profile' = [profile EXCEPT ![call[r].acct] =
       [@ EXCEPT !.code = IF @ # None /\ Row(r).last + TokenLife > now THEN @ ELSE made + 1,
                 !.last = now, !.count = call[r].count + 1]]
  /\ CodeSaved(r)
  /\ Become(r, [Idle EXCEPT !.pc = "sms", !.acct = call[r].acct, !.code = made + 1])
  /\ UNCHANGED <<now, extend, phone, racedNicks, failed>>

\* CreatePhonePasswordResetToken: the count is the one that was read, plus one
\* (LastPhonePasswordResetTokenTime is set before it is compared, so an hour's
\* pause never clears the count).  The code expires TokenLife after this time.
CreatePhonePasswordResetToken(r) ==
  /\ At(r, "code")
  /\ made < MaxCodes
  /\ made' = made + 1
  /\ profile' = [profile EXCEPT ![call[r].acct] =
       [@ EXCEPT !.code = made + 1, !.last = now, !.count = call[r].count + 1]]
  /\ CodeSaved(r)
  /\ Become(r, [Idle EXCEPT !.pc = "sms", !.acct = call[r].acct, !.code = made + 1])
  /\ UNCHANGED <<now, extend, phone, racedNicks, failed>>

\* SendSMS: the message leaves (when it does not, see Fail).
SendSMS(r) ==
  /\ At(r, "sms")
  /\ Become(r, Idle)
  /\ phone' = [phone EXCEPT ![call[r].acct] = call[r].code]
  /\ UNCHANGED <<now, profile, extend, made, history>>

(***************************************************************************)
(* ResetPasswordByPhoneToken                                               *)
(***************************************************************************)

ResetPasswordByPhoneToken(r, a) ==
  /\ At(r, "idle")
  /\ profile[a] # None
  /\ phone[a] # None /\ phone[a] = profile[a].code
  /\ profile[a].last + TokenLife > now
  /\ Become(r, [Idle EXCEPT !.pc = "reset", !.acct = a, !.count = profile[a].count])
  /\ UNCHANGED <<now, profile, extend, made, phone, history>>

\* ResetPassword changes the password; the code stays what it is.
ResetPassword(r) ==
  /\ At(r, "reset")
  /\ Become(r, [call[r] EXCEPT !.pc = "count"])
  /\ UNCHANGED <<now, profile, extend, made, phone, history>>

\* Variant with a bug: one is taken off the count.
ResetTakesOneOff(r) ==
  /\ At(r, "count")
  /\ profile' = [profile EXCEPT ![call[r].acct].count =
       IF call[r].count = 0 THEN @ ELSE @ - 1]
  /\ burst' = [burst EXCEPT ![call[r].acct] = IF call[r].count = 0 THEN @ ELSE 0]
  /\ Become(r, Idle)
  /\ UNCHANGED <<now, extend, made, phone, racedNicks, raced, failed>>

\* ResetTokenCount: the object was read before, so a count that was 0 then is
\* no change and is not written.
ResetTokenCount(r) ==
  /\ At(r, "count")
  /\ profile' = [profile EXCEPT ![call[r].acct].count =
       IF call[r].count = 0 THEN @ ELSE 0]
  /\ burst' = [burst EXCEPT ![call[r].acct] = IF call[r].count = 0 THEN @ ELSE 0]
  /\ Become(r, Idle)
  /\ UNCHANGED <<now, extend, made, phone, racedNicks, raced, failed>>

(***************************************************************************)
(* Surroundings                                                            *)
(***************************************************************************)

\* The database or the message service throws, or the request is aborted.
Fail(r) ==
  /\ ~At(r, "idle")
  /\ failed' = failed \cup {call[r].acct}
  /\ Become(r, Idle)
  /\ UNCHANGED <<now, profile, extend, made, phone, racedNicks, raced, burst>>

Tick ==
  /\ now < MaxTime
  /\ now' = now + 1
  /\ UNCHANGED <<profile, extend, made, phone, call, history>>

Next ==
  \/ \E r \in Requests :
       \/ CreateAccount(r) \/ AddUserProfiles(r) \/ NameIsTaken(r)
       \/ FindExtend(r) \/ InsertExtend(r)
       \/ SaveNick(r)
       \/ CreatePhonePasswordResetToken(r) \/ SendSMS(r)
       \/ ResetPassword(r) \/ ResetTokenCount(r)
       \/ Fail(r)
       \/ \E a \in Accounts :
            \/ \E n \in Nicks : Register(r, a, n) \/ ChangeNick(r, a, n)
            \/ ConfirmExternalLogin(r, a) \/ LinkAccount(r, a)
            \/ GetPassWordByPhone(r, a)
            \/ ResetPasswordByPhoneToken(r, a)
  \/ Tick

Spec == Init /\ [][Next]_vars
=============================================================================
