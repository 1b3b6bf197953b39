# A verification project for Dev.All

TLA+ models of the single sign-on systems in this repository, of the accounts
behind them and of its units of work, TLC runs that check them on small instances,
and TLAPS proofs that hold for every size. All paths below are under `src/`; `J`
stands for `CasSolution/CASServer/CASLIB/NCAS/jasig`, `D` for
`CasSolution/CASServer/CASLIB/Dev.CasServer`, `W` for
`CasSolution/CASServer/Presentation/WebApp`.

`PROJECT.json` is the index: components, runs, mutants (one seeded bug for every
property, to show that the property can fail), the source lines each definition
models, hazards, findings and theorems.

## 1. Inventory

The repository holds a CAS server that is deployed (Dev.CasServer with its web
application), its client (Dev.CasClient), a C# port of the Jasig CAS 3.5 server
(NCAS), a user service, and a collection of unrelated libraries (DevLibs). The
core logic, and nearly all of the concurrency, is in the servers.

| Component | State | Operations | Interacts with | Hard part | What makes it correct |
|---|---|---|---|---|---|
| NCAS ticket core: `J/CentralAuthenticationServiceImpl.cs`, `J/ticket/*` | ticket objects: counters, times, the services dictionary, flags | create, grant, validate, delegate, destroy | registry, policies, services manager, authentication manager | requests share tickets; locks cover only part of each method | uses bounded; SSO check sound; logout reaches services; destroyed stays destroyed |
| NCAS registry: `J/ticket/registry/DefaultTicketRegistry.cs` | a concurrent dictionary | add, get, delete, list | core, cleaner | objects outlive their entries | no entry comes back |
| NCAS cleaner: `J/ticket/registry/support/DefaultTicketRegistryCleaner.cs` | its list of tickets to remove | `clean()` | registry, TGTs, services (logout) | works on stale answers, can die half way | expired tickets leave; live ones stay |
| NCAS policies: `J/ticket/support/*ExpirationPolicy.cs` | none | `isExpired` | tickets | boundaries, reviving | expiry is final |
| NCAS services manager: `J/services/DefaultServicesManagerImpl.cs`, `InMemoryServiceRegistryDaoImpl.cs` | a dictionary of services and a plain list | save, delete, reload, find; enable and disable | core, management beans | nothing is locked; entries are compared by reference; a reload swaps the dictionary | a registered service stays, ids are fresh, edits show |
| NCAS throttling: `J/web/support/*Throttled*` | map key -> last failure | record, check, decrement | login requests | map shared by requests and a timer | failures are counted, decay |
| NCAS id generators: `J/util/Default*Generator.cs` | a counter | next | core | wrap-around | ids are fresh |
| NCAS authentication manager, web flow, controllers | none shared | authenticate; login, logout, validate | core | order of calls | callers handle every exception |
| Dev.CasServer tickets: `D/CasTicket.cs`, `D/CasServer.cs`, `D/TicketStorage` | a static counter, the ASP.NET cache | Issue, CheckAndPunch, login and validation handlers | cache, client list, user profile | no lock anywhere; eviction; recycling | one user per ticket, one success per ticket |
| Dev.CasClient: `CasSolution/CasClient/Dev.CasClient` | session and user cookies | Login, LoginOut, the HTTP module | Dev.CasServer over HTTP | repeated URLs, lost answers, two logouts, requests that name the service themselves | local session only for a validated user |
| User service: `CasSolution/CASServer/Application/MainBoundedContext/UserModule`, `W/Controllers/AccountController.cs` | tables of profiles and uids, a profile cache | register, link, rename, send a code, reset | membership provider, message service | checks and writes without a transaction over both | unique nick names, a uid for every account, limits on codes, codes that work |
| DevLibs units of work: `DevLibs/Framework/Repository` | the list of transactions, their scopes, the sessions' changes | enlist, change, save, commit, dispose | ambient TransactionScopes, Entity Framework | nesting in three modes; failures of flush and commit | all of a transaction or nothing; nothing left open |
| Other DevLibs: contexts, caches, pools, file watching, logging | per library | per library | each other | pools at their limit | per library |

Left aside: vendored scripts, demos, views, generated entities, binaries, the
OAuth and third-party code, and adapters that only forward to a library.

## 2. Plan

Built, in this order:

1. The NCAS ticket core with registry, policies and cleaner; an abstract ledger it
   implements; its proofs.
2. Dev.CasServer's tickets, and on top of them `SingleSignOn`: browsers, sites and
   server together, with the abstract `SignOnService` they implement.
3. `UnitOfWork` with the abstract `AtomicWork` it implements.
4. `ServicesManager`; `UserAccounts`.
5. The proofs of each of these: the inductive invariant of every component, its
   safety and action properties, and the three refinements.

Left:

1. Lemmas on the expiration policies themselves (what `Timeout` and
   `MultiTimeUseOrTimeout` say at their boundaries for every lifetime), and the
   promises of one component restated for another through `ServerWithinSignOn`.
2. The policies the wiring does not use (throttled, remember-me), the HBase pool.

## 3. The modules

    ExpirationPolicies            the rules a ticket's policy asks
      Tickets                     ticket objects, registry, clock
        CentralAuthenticationService   the requests
          TicketRegistryCleaner        + clean(); Init, Next, Spec, FairSpec
            TicketProperties           properties, refinement, inductive invariant
              MCTickets                instances for TLC
              TicketProofs             the proofs of IInv and of the ledger
                TicketLifeProofs       the proofs about destruction and expiry
    ServiceTicketLedger           the abstract specification
    CasServerTickets              Dev.CasServer
      CasServerProperties
        MCCasServer
        CasServerProofs
      SingleSignOn                + browsers, sites with Dev.CasClient, CasSdk
        SignOnProperties          properties, refinement
          MCSingleSignOn
          SignOnProofs            + CasServerProofs
    SignOnService                 the abstract specification
    UnitOfWork                    DevLibs' scopes, transactions and repositories
      UnitProperties              properties, refinement, inductive invariant
        MCUnits
        UnitProofs
    AtomicWork                    the abstract specification
    ServicesManager               NCAS's registered services
      ServicesProperties
        MCServices
        ServicesProofs
    UserAccounts                  the accounts of the CAS web application
      AccountProperties
        MCAccounts
        AccountProofs

**Tickets.** `tgt` and `st` are the ticket objects, `registry` the keys of the
dictionary: a request that has looked a ticket up keeps the object after the
entry is gone. A TGT carries the set of its `ancestors` (what `getGrantingTicket()`
leads to), because `isExpired` asks all of them. `isExpiredInternal` is FALSE:
`AbstractTicket`'s method is not virtual, so the one of `TicketGrantingTicketImpl`
that reads the `expired` flag is never called from `isExpired`. `services` is
the key set of the dictionary and `version` what its enumerators compare.

**CentralAuthenticationService.** `call[r]` is what request thread `r` is
executing: `pc` names the next statement that touches shared state. The grain is:

| Method | Steps |
|---|---|
| `createTicketGrantingTicket` | one step: the ticket is private until registered |
| `grantServiceTicket` | lookup; the locked expiry check; the service, SSO, proxy and credential checks; construction with `fromNewLogin`; read of `countOfUses++`; its write; `services.Add`; `addTicket` |
| `validateServiceTicket` | lookup; entering the lock; `isExpired`; `isValidFor` and leaving the lock; the `finally` block |
| `delegateTicketGrantingTicket` | lookup; expiry and service checks; the test of `grantedTicketAlready`; its assignment with the construction; `addTicket` |
| `destroyTicketGrantingTicket` | lookup; the flag and the start of the enumeration; each `MoveNext`; `deleteTicket` |

Two statements share a step only where no other request can tell. The block
locked on a TGT is one step: nothing else locks a TGT, and two executions of it
commute. `updateState()` is a read and a write, so concurrent grants lose
updates. `services` is a plain `Dictionary`: `GrantRecord` lets an `Add` that
overlapped another one lose the other's entry, or throw. An enumerator throws
when `version` has moved, which ends `expire()` and the method around it. An
exception leaves the call at `Idle` with everything done so far kept. A call
refused before it has changed anything (unknown id, disabled service) is no step.

`SameAuthentication` is FALSE: grant with credentials compares two freshly built
objects whose classes do not override `Equals`.

**TicketRegistryCleaner.** `clean()` runs on a timer beside the requests:
scan, then per ticket `expire()` (TGTs) and `deleteTicket`. The lock it
acquires is `NoOpLockingStrategy`'s. One run at a time, as the scheduler starts
it; a scan that finds nothing is no step.

**ServiceTicketLedger.** What a service ticket is to the services: handed once,
presented at most `Limit` times; a presentation may be accepted or not and counts
either way. `TicketProperties` maps it: `held` is `returned`, `left` is what
the policy leaves of the ticket's counter, `redeemed` is `accepted`.

`returned`, `accepted` and `destroyed` (and `handed`, `accepted`, `spent`, `lost`
in `CasServerTickets`, and what the modules below mark as history) say what callers
have been told. No action's guard or effect on the code's own state reads them.

**CasServerTickets.** `nCounter` is `CasTicket._nCounter`, `cache` the ASP.NET
cache. A ticket string is the pair of its number and the millisecond that
seeded `Random`, since the token is a function of the seed. Issue: the ticket is
made, the counter read, written, and the entry stored (`Cache.Add` keeps an entry
that is there). Validation: `Get`; `Remove` with the comparison of the services;
the answer, which may fail when the profile is missing. `Evict` and `Recycle` are
the surroundings: the cache drops an entry of normal priority, the application
pool restarts. The storage's ten minutes are `StoredMinutes`; the one minute
`Issue` asks for has no effect.

**SingleSignOn.** Extends `CasServerTickets` with `serverUser` (the server's forms
cookie in each browser), `clientUser` (each site's forms cookie) and `tab`: where each
tab of a browser is. A tab's requests to the server run in the thread of the same
name, so `IssueStart`, `PunchGet` and the rest appear here as conjuncts of the tab's
actions, and an interleaving of two tabs is one of server threads. The user loads
pages, logs in, opens a ticket URL again, logs out; `State` and `LocalLogOff` are the
script (`W/Views/CAS/JsSDK.cshtml`); `SignedIn`, `Refused`, `AnswerLost` and
`ServerGaveUp` are what becomes of a validation. `LogInLocally` is the login URL with
`local=true` (`CasClientModule.cs:80-83`): the site takes the service to validate for
from the URL, any service, where `Presented` names the site itself; and it answers
with a text. The ticket is the last one any tab of the browser has in its history.
`LocalLogOff` has the outcomes of a script whose `LocalLoginoffUrl` and
`IsLocalLoginoff` the page's author chose: the site answers, or redirects the script
to the server's logout, whose answer the browser lets it see or not, or nobody is
logged off. `proven` is history: passwords typed.

In `SignOnService` the server vouches to a service for a user whose password it saw,
and a site signs in only whom the server has vouched for to this site, or to the
service a local log-in under way has named. `vouched` is mapped to `handed`, `named`
to the validations of local log-ins in progress.

**UnitOfWork.** One thread's `UnitOfWorkScope`s, since the transaction manager
belongs to a thread or web request. `open` is the nest of `using` blocks, `list` the
transactions, `attached` their scopes. A change is in the session (`unsaved`), sent
to the database (`saved`) or there to stay (`durable`); where no transaction defers
it, saving is durable at once. `FlushFails` and `CommitFails` are the exceptions: of
the second, `UnitOfWorkTransaction.Dispose` throws before the manager is told, so
the transaction stays in the list, `spoiled`. `CommitWaits`, `CommitAll`,
`FlushFails` and `CommitFails` are the outcomes of one `OnScopeCommitting`.
`AtomicWork` knows only votes and decisions; a transaction is over when it has
left the list or is spoiled.

**ServicesManager.** `items` and `size` are the array and the size of the DAO's
`List`, because overlapping `Add`s write to the same slot; `services` is the
dictionary. `save` is four steps: the highest id, `Add`'s read of the size, its
write, `TryAdd`. An `Add` that overlaps another may write to the array that the other
has just replaced by a larger one, and then its entry stays null (`SaveAdd`); the
loops of `findHighestId` and `load` throw at such an entry (`Whole`). `Remove` finds nothing: it compares references, and what is
saved is a new object or a clone; so `Delete` leaves the list alone. A reload
reads the list and then swaps the dictionary. History: `collided` (saves have
overlapped), `kept` (registered while no reload ran), `lastEdit`.

**UserAccounts.** `profile` and `extend` are the tables. An account is made by a
registration (`Register`, `CreateAccount`) or by the confirmation of an external
log-in (`ConfirmExternalLogin`, `AddUserProfiles`), which leaves its nick name null; both
give it a uid afterwards. A request's reads are steps apart from its writes, and an object it has read keeps its values, as a context
of its own per request gives. `Fail` ends a request at any of its steps. History:
`raced`, `racedNicks` (requests that overlapped), `burst` (codes in a row),
`failed`. A code is a number, later ones greater; `phone` is the last message.

## 4. The runs

Passing:

| Run | Properties | Instance | What it shows |
|---|---|---|---|
| `TicketsRaces` | `ReturnedTicketCounted`, `SsoCheckSeesReturnedTickets`, `NewLoginOnlyBeforeFirstReturn`, `LogoutReachesEveryRecordedService` | 2 requests, 1 TGT, 2 service tickets, a service inside and one outside SSO | two grants interleaved at every statement, with lost updates, and destruction during a grant: what a caller already holds has been counted |
| `TicketsProxy` | `IInv`, `DestroyIInv`, `AtMostNumberOfUses`, `ImplementsLedger` | 2 requests, 2 TGTs, 2 service tickets of 2 uses | validations beside delegations, with proxy TGTs and their ancestors: the inductive invariants, and the ledger the lock of `validateServiceTicket` makes the server implement |
| `TicketsLive` | `DestroyedNotRegistered`, `ExpiryIsFinal`, `CallsReturn`, `ExpiredTicketsLeave` | 2 requests, 1 TGT, 1 service ticket, clock to 2, `FairSpec` | tickets expire between any two statements, with the cleaner running; no call hangs; expired tickets leave |
| `CasServerRaces` | `TypeOK`, `CasServerIInv`, `SpentTicketsGone`, `ReportedWasHanded`, `UnsharedTicketRedeemable` | 3 requests, 2 services, 2 ticket strings, clock to 1 | issues that race on the counter, validations that race on the cache, eviction and recycling |
| `SingleSignOn` | `SignOnTypeOK`, `SignOnIInv`, `ForeignSessionNeedsSharedTicket`, `ImplementsSignOn`, `RetryNeedsNewTicket` | 2 browsers with a tab each, 2 users, 1 site, 1 ticket string | every ticket may share its string: whom a site takes a browser for, and what a retry can do |
| `SignOnLive` | `StrangerIsSignedOut`, `ImplementsSignOn` | 1 browser with 2 tabs at 2 sites, 2 users, `FairSignOn` | log-out at one site, or at the server, reaches the pages of the other through `CasSdk.State`; local log-ins at one site with a ticket for the other |
| `UnitsOfWork` | `UnitIInv`, `NothingLeftOpen`, `ImplementsAtomicWork`, `TransactionScopesNest` | 3 scopes, 3 transactions, 2 sessions, 2 changes | three levels of nesting in all modes, failures included |
| `Services` | `ServicesTypeOK`, `ServicesIInv`, `RegisteredStays`, `IdsAreFresh` | 3 threads, 2 names, 4 saves | registration beside edits, deletions and overlapping reloads |
| `UserAccounts` | `AccountsIInv`, `DuplicateNickNeedsOverlap`, `MissingUidNeedsFailure`, `LastMessageWorks`, `CodesAreLimited` | 2 requests, 2 accounts of which one has a phone, 2 nick names, 3 codes, clock to 3 | what goes wrong with accounts only does when requests overlap or fail; `AccountsIInv` has the types in it |

Violations: each run checks one sentence of the repository that the code does
not keep; "findings" quotes the line.

| Run | Sentence | Why it fails |
|---|---|---|
| `DestroyedTicket` | destroying a TGT invalidates tickets derived from it | the `expired` flag is never read; service tickets of the TGT still validate |
| `DoublePunch` | read, check and immediately invalidate | `Get` and `Remove` are two operations |
| `EditedService` | save updates an existing entry | `TryAdd` keeps the old one, and so does a reload |

The models show more divergences, to which no run is given:

- `SsoCheckSeesReturnedTickets` is one side of a check: it sees every grant that has
  returned. It does not see grants in progress, so two overlapping first grants for
  a service outside SSO both pass (`J/CentralAuthenticationServiceImpl.cs:264`; line
  67 says the class is threadsafe).
- Two overlapping delegations of one service ticket both get a TGT: test and
  assignment are in a block without a lock (`J/ticket/ServiceTicketImpl.cs:129`,
  against the message at 132).
- Two overlapping logins get the same ticket string, with an equal seed, and one
  user's browser carries the ticket of the other (`D/CasTicket.cs:90`, against 55).
- `expire()` (`TicketGrantingTicket.cs:68`) does not log out of a service whose
  entry in the dictionary was lost to an overlapping `Add`.
- A site signs a visitor in with a ticket issued to another service, when the request
  says `local=true` and names that service (`CasClientModule.cs:80-83`); the comparison
  of services at the server (`D/CasServer.cs:309`) does not tell.
- The cleaner deletes a TGT that a grant in progress has refreshed since the scan.
- A grant with the credentials of the TGT's own principal is refused, because
  `Equals` compares references (`CentralAuthenticationService.cs:80-82`).
- `HttpCacheTicketStorage.Add` keeps a ticket for ten minutes where `CasTicket.cs:93`
  asks for one.
- A deleted service is found again after a reload (`J/services/ServicesManager.cs:52`).
- A child scope of the default mode in a block of mode New takes part in the block's
  transaction, as `TransactionMode.cs:23-25` says; when it rolls back, the block goes
  on with what is outside, and what it changes then is saved there, or at once.
- After a failing commit later default scopes enlist in the spoiled transaction and
  can change nothing (`UnitOfWorkTransaction.cs:163`).
- A pause of an hour does not clear the count of codes
  (`UserProfileRepository.cs:59-62`): after five, each further one needs a pause.

### Bounds

- Ticket identifiers, requests, services and users are the sets of the .cfg. The
  generators of the code never run out; `IdLeft` lets a client start a call only
  while an identifier remains for every call that will need one, so no call in
  progress is stuck for want of an identifier.
- `MaxTime` bounds the clock. Lifetimes are 1 and 2, so a clock at 1 or 2
  reaches every combination of expired and not expired; runs about races alone
  stop the clock at 0.
- `MaxTickets` bounds Dev.CasServer's counter. `SingleSignOn` uses one number,
  which every issue then shares after a race or a recycling, `CasServerRaces` two.
- Two requests are the least that race; `CasServerRaces` and `Services` take three,
  so that one can wait for, or repeat, what two others do. `CasServerRaces` has one
  user: that two users share a string is the subject of `SingleSignOn`.
- `MaxChanges` bounds the changes made: two are the least that can be torn apart.
  Three scopes give a scope that is neither the outermost nor the innermost.
- `MaxSaves` bounds the list of services: two registrations and two edits of them, or
  any other four. Three of the properties are about the states before two saves have
  overlapped; from there on `ShortOnceCollided` (of `MCServices`) lets the list have one
  entry, which overlapping saves may both have written, or lost.
- `MaxCodes` bounds the codes made. `MaxResend`, `Hour` and `TokenLife` are 5, 60 and
  1440 minutes in the code and 2, 2 and 2 in the instance: an hour longer than the
  minute between two codes, and a clock that reaches beyond it. Of `MCAccounts`,
  `ClockFromFirstCode` starts the clock with the first code, since it is only compared
  with the time of one; `FailuresOfPhones` follows failures for the account with a
  phone, which can be left without its uid and without its last code; and
  `RacesOfOneKind` does not combine races for a nick name with races for a code, since
  these write different columns.
- `CHECK_DEADLOCK FALSE` where, with identifiers, scopes, codes or clock used up,
  there may be nothing to do. In the runs of `SingleSignOn` the user can always
  load a page, and deadlock is checked.
- Symmetry is used only in runs without liveness. A `VIEW` leaves out history that
  neither the actions' effects nor the run's properties read.

### Fairness

`FairSpec` assumes weak fairness of each thread inside a call (`Proceed`: threads
are scheduled and no statement of these methods waits for anything but the
monitor), of the clock, and of `clean()` (a timer starts it again and again).
No client is assumed to call anything. A request that waits for a monitor gets
it because its holder proceeds and, in the bounded instance, others stop coming;
for a monitor under endless contention .NET promises no order, so `CallsReturn`
says that locks are released on every path, not that they are granted fairly.

`FairSignOn` assumes weak fairness of what goes on in a tab without its user
(`Proceeds`): the script of a loaded page runs, redirections are followed, server
threads go on. Nobody is assumed to click, to type a password or to log out.

## 5. The proofs

Every theorem holds for all values of the constants that satisfy the assumptions
of its module: any number of requests, tickets, services, users, browsers, scopes,
sessions, threads and accounts, all lifetimes and limits. TLC evaluates the
assumptions in every run. They say that limits are natural numbers (positive
where the code has a positive one), that identifiers of TGTs and of service tickets
differ, that the listed services and accounts are among all, and that `None`, which
stands for `null`, is none of the values it is told apart from.

| Module | Theorem | Property |
|---|---|---|
| `TicketProofs` | `Invariance` | `IInv` |
| | `TypeCorrect` | `TypeOK` |
| | `UsesAreBounded` | `AtMostNumberOfUses` |
| | `UsesAreCounted` | `ReturnedTicketCounted` |
| | `SsoCheckIsSound` | `SsoCheckSeesReturnedTickets` (action) |
| | `NewLoginIsFirst` | `NewLoginOnlyBeforeFirstReturn` (action) |
| | `LedgerRefinement` | `ImplementsLedger` (refinement) |
| `TicketLifeProofs` | `DestroyInvariant` | `DestroyIInv` |
| | `DestroyedStaysOut` | `DestroyedNotRegistered` |
| | `LogoutsAreSent` | `LogoutReachesEveryRecordedService` (action) |
| | `ExpiredStaysExpired` | `ExpiryIsFinal` (action), where `NumberOfUses = 1` |
| `CasServerProofs` | `CasServerInvariant` | `CasServerIInv` |
| | `CasServerTypes` | `TypeOK` |
| | `PunchedTicketsAreGone` | `SpentTicketsGone` |
| | `AnswersWereHanded` | `ReportedWasHanded` |
| | `UnsharedTicketsStayGood` | `UnsharedTicketRedeemable` |
| `SignOnProofs` | `ServerWithinSignOn` | `SignOnSpec => Spec` |
| | `SignOnInvariant` | `SignOnIInv` |
| | `SignOnTypes` | `SignOnTypeOK` |
| | `ForeignSessionsShareTickets` | `ForeignSessionNeedsSharedTicket` |
| | `RetriesNeedNewTickets` | `RetryNeedsNewTicket` (action) |
| | `SignOnIsImplemented` | `ImplementsSignOn` (refinement) |
| `UnitProofs` | `UnitInvariant` | `UnitIInv` |
| | `NoTransactionIsLeft` | `NothingLeftOpen` |
| | `TransactionsNest` | `TransactionScopesNest` (action) |
| | `UnitsAreAtomic` | `ImplementsAtomicWork` (refinement) |
| `ServicesProofs` | `ServicesInvariant` | `ServicesIInv` |
| | `ServicesTypes` | `ServicesTypeOK` |
| | `RegisteredIsFound` | `RegisteredStays` |
| | `IdsAreNotGivenTwice` | `IdsAreFresh` |
| `AccountProofs` | `AccountsInvariant` | `AccountsIInv` |
| | `AccountsTypes` | `AccountsTypeOK` |
| | `NicksDiffer` | `DuplicateNickNeedsOverlap` |
| | `UidsAreGiven` | `MissingUidNeedsFailure` |
| | `MessagesWork` | `LastMessageWorks` |
| | `CodesHaveLimits` | `CodesAreLimited` (action) |

Hardly any of the safety properties is inductive by itself. Each component has an
inductive invariant, which a run checks and which implies them; a lemma per
action shows that the action keeps it.

**The ticket core.** `IInv` adds to the types:

- `RequestOK(r)`, what a request relies on between two statements: its locals name
  tickets that exist; from the expiry check to `isValidFor` it holds the monitor;
  at `isValidFor` the ticket still has a use left; from `services.Add` on, its
  TGT's counter is above zero, although the write before it may have lost
  somebody else's update.
- `TicketsOK`: registered tickets exist, a registered service ticket has been
  returned, accepted validations are covered by the counter, the counter by the
  limit, and the TGT of a returned ticket is counted.
- `CleanerOK`: the cleaner's TGT is set while it works on one.

The lemma of an action shows that its own request keeps `RequestOK`; `OthersOK`
shows once that all others do, from the few facts they rely on (identifiers and
returned tickets only grow, a held monitor and its ticket's count stay, a
counter once positive stays positive). `NewLoginIsFirst` also uses
`NoCredentials`: no grant with credentials passes the comparison of
authentications. `LedgerRefinement` maps `GrantRegister` to `Hand`, `ValidateMatch`
to `Present`, and every other step to a stutter.

`DestroyIInv` is inductive together with `IInv`. A destroyed TGT stays out of the
registry because a TGT is registered either in the step that makes it, or by the
delegation that alone knows it (`FreshTicket`); no other call can have destroyed it.
The logout at `expire()` is complete because the enumerator compares versions
(`EnumeratorOK`): as long as they agree, each entry is still to come or has had its
message, and when they differ the next `MoveNext` throws. `ExpiredStaysExpired`
is stated for one use per service ticket, the configured number
(`TicketExpirationPoliciesConfig.cs:14`): its one use is what expires the ticket. With
more, a validation that had passed the expiry check updates the time of last use
and revives a ticket that expired meanwhile.

**Dev.CasServer.** `EntriesWereHanded` says that an entry of the cache is what some
redirection carried, for as long as every entry lives; a request that has read an
entry remembers what it said, also when the entry is gone by then (`RequestOK`).
Without the second, `ReportedWasHanded` is not kept by the answer; without the
first, the request learns nothing from its `Get`.

**Single sign-on.** `ServerWithinSignOn` shows that whatever browsers and sites
do, the server does a step of its own specification or none, so `CasServerIInv` holds
within, and `SignOnIInv` only speaks of what is added: cookies and tickets name users
who were proven; a tab's ticket has the string of one for a user proven in its
browser; a session is of a user some ticket with such a string was for. That
a validation asks for the tab's own site is part of it only where the log-in is not
local (`TabOK`). The refinement maps a typed password to `Prove`, the entry of a
ticket to `Vouch`, the start of a local log-in to `Name`, its end without a session to
`GiveUp`, and a cookie set by a site to `SignIn`: of the site itself where the service
asked for was its own, and otherwise under the name that the local log-in has given
and still has when the answer arrives.

**Units of work.** `UnitIInv` ties the nest of blocks to the list of
transactions: the scopes attached to a transaction are the open ones that
have not completed (`AttachedOK`), what has left it has voted (`VotesOK`), and the
list is in the order of the blocks (`BlocksNest`). `ChangesOK` says where a change
may be. Its last conjunct is there for induction only: it
holds in every reachable state, and without it a durable change could name a
transaction that has not begun, whose beginning would then break the third.
`UnitsAreAtomic` shows each action to be a step of `AtomicWork` or a stutter.

**The services manager.** While two saves have not overlapped (`Sequential`): the
list has no null below its size (`Whole`); one saver at a time, whose size is the
list's (`OneSave`); what is about to be added
is a version of a service in the list, or has an id none has (`SavesOK`); a service
that is kept is the first of its id in the list, and a reload in progress has found
it (`KeptOK`). `HighestIdFacts` and `LoadedFacts` say what `save` and `reload` compute from
the list, from the existence of a greatest and a least element (`GreatestExists`,
`LeastExists`).

**The accounts.** `RequestOK` says what a request still relies on after its reads:
the name it found free is free or was taken by a request that history has noted
(`FreeName`), the code on its way is the stored one (`SentCode`), and the limits it
was compared with still hold when the code is made (`Waited`). `AccountOK` keeps the
stored count from falling behind `burst`. `CodesHaveLimits` needs `MaxResend` to be
positive, as it is: with zero, a first code already is one too many.

`ForeignSessionNeedsSharedTicket`, `DuplicateNickNeedsOverlap`,
`MissingUidNeedsFailure`, `LastMessageWorks`, `CodesAreLimited`, `RegisteredStays` and
`IdsAreFresh` have a common form: the code has a race, and the property says that
this race is the only way to the bad state. Without the exception none of them
holds.

Checked by TLC only: `CallsReturn`, `ExpiredTicketsLeave` and `StrangerIsSignedOut`,
since liveness under fairness is out of this prover's reach; and the three
violations, which are counterexamples. Every other property of a passing run is
a theorem.

## 6. Not modelled

Within the modelled components:

- The content of assertions, principals and attributes; a user is a name.
- The two registries of the constructor are one, as the wiring has it.
- Authentication: a principal, or a refusal that changes nothing.
- The services manager's changes during a grant: to the ticket core the registered
  services are constants, and a grant reads them once.
- Delivery of logout messages: a message sent is an element of `notified`.
- Real time: a unit of `now` is as long as the shortest lifetime, in
  `UserAccounts` a minute.
- No page of the repository sends `local=true`; who opens that URL is the user, with
  the ticket of a tab of the same browser. That a local log-in is asked for by
  the script of another page changes nothing but which page stays.
- A local log-in that names a service outside `Services` is refused like one that names
  any other service the ticket is not for.
- A user name is taken to be refused by the database when it has it. The repository does
  not declare this (`UserProfileMap.cs:25` limits the column's length, no more);
  the table does when the membership library makes it (`autoCreateTables`). Without it two
  overlapping confirmations could make two rows of one name.
- `List.Add` of overlapping calls may also throw (IndexOutOfRangeException), which
  ends the call; the model lets it write or lose its entry.
- `uowFactory.Create()` throwing after the TransactionScope was created
  (`TransactionManager.cs:81-82`): the factory throws only when no context is configured
  (`EFUnitOfWorkFactory.cs:31`), and then none is ever made.
- The wrap-around of Dev.CasServer's `uint` counter, tokens of different seeds that
  coincide, and the lifetime of the forms cookies.
- Lookup of a service by its URL: `matches` is not implemented.
- The cache of profiles, e-mail tokens (the WebMatrix library keeps them) and
  the edits of single columns (sex, city, avatar).
- `UnitOfWorkAttribute`: how the MVC pipeline nests its filters is not in the
  repository. `TransactionManager.Dispose` has no caller.

Components left out:

- NCAS login throttling is wired nowhere, and its first submission throws: `First`
  looks up a key no failure has been recorded for.
- NCAS id generators: a 64-bit counter with a random string does not repeat within
  reach of a model; the ticket core takes identifiers to be fresh.
- NCAS web flow and controllers keep no shared state; the core is modelled under
  every order of their calls. The HTTP client and the drivers of memcached, HBase,
  WCF, message queues and files are I/O.
- The JavaScript files of the web projects are jQuery, jQuery UI, Modernizr and
  other third-party libraries, and a table of towns; the script this repository has of its own is
  `JsSDK.cshtml`, which `SingleSignOn` models.
- Demos, views and generated entities.
