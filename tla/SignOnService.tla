---------------------------- MODULE SignOnService ----------------------------
(***************************************************************************)
(* What single sign-on promises: a site signs a browser in as a user only  *)
(* when the server has vouched for that user to that site, or to a service *)
(* that a local log-in under way at the site names; and the server vouches *)
(* only for a user whose password it has seen.                             *)
(***************************************************************************)
CONSTANTS Browsers, Sites, Users, None

VARIABLES
  proven,   \* users whose password the server has seen, and in which browser
  vouched,  \* users the server has vouched for, and to which site
  named,    \* local log-ins under way: browser and site, and the service named
  session   \* whom each site takes each browser to be

vars == <<proven, vouched, named, session>>

Init ==
  /\ proven = {}
  /\ vouched = {}
  /\ named = {}
  /\ session = [c \in Browsers \X Sites |-> None]

Prove(b, u) ==
  /\ proven' = proven \cup {<<b, u>>}
  /\ UNCHANGED <<vouched, named, session>>

Vouch(u, s) ==
  /\ \E b \in Browsers : <<b, u>> \in proven
  /\ vouched' = vouched \cup {<<u, s>>}
  /\ UNCHANGED <<proven, named, session>>

Name(c, s) ==
  /\ named' = named \cup {<<c, s>>}
  /\ UNCHANGED <<proven, vouched, session>>

\* Local log-ins come to nothing, as all do when the server is restarted.
GiveUp ==
  /\ named' \subseteq named
  /\ UNCHANGED <<proven, vouched, session>>

SignIn(c, u) ==
  /\ \E s \in Sites : <<u, s>> \in vouched /\ (s = c[2] \/ <<c, s>> \in named)
  /\ session' = [session EXCEPT ![c] = u]
  /\ named' \subseteq named
  /\ UNCHANGED <<proven, vouched>>

SignOut(c) ==
  /\ session' = [session EXCEPT ![c] = None]
  /\ UNCHANGED <<proven, vouched, named>>

Next ==
  \/ \E b \in Browsers, u \in Users : Prove(b, u)
  \/ \E u \in Users, s \in Sites : Vouch(u, s)
  \/ \E c \in Browsers \X Sites :
       \/ SignOut(c)
       \/ \E u \in Users : SignIn(c, u)
       \/ \E s \in Sites : Name(c, s)
  \/ GiveUp

Spec == Init /\ [][Next]_vars
=============================================================================
