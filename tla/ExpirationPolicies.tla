------------------------- MODULE ExpirationPolicies -------------------------
(***************************************************************************)
(* The pure expiration rules of NCAS (ticket/support/*ExpirationPolicy.cs).*)
(* A ticket's state is a record with the fields a TicketState exposes:     *)
(*   created  getCreationTime()      lastUsed  getLastTimeUsed()           *)
(*   count    getCountOfUses()                                             *)
(* now stands for DateTime.Now.Ticks.  All durations are in the unit of    *)
(* now: the code compares ticks with whatever number it was configured     *)
(* with.                                                                   *)
(***************************************************************************)
EXTENDS Integers

HardTimeout(t, timeToKill, now) == now - t.created >= timeToKill

Timeout(t, timeToKill, now) == now - t.lastUsed >= timeToKill

\* Variant with a bug: the limit is off by one.
MultiTimeUseOrTimeoutLate(t, numberOfUses, timeToKill, now) ==
  \/ t.count > numberOfUses
  \/ Timeout(t, timeToKill, now)

MultiTimeUseOrTimeout(t, numberOfUses, timeToKill, now) ==
  \/ t.count >= numberOfUses
  \/ Timeout(t, timeToKill, now)

\* The hard window is looked at first, then the sliding one.
TicketGrantingTicketPolicy(t, maxTimeToLive, timeToKill, now) ==
  \/ HardTimeout(t, maxTimeToLive, now)
  \/ Timeout(t, timeToKill, now)
=============================================================================
