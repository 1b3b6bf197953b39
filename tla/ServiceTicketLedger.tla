------------------------ MODULE ServiceTicketLedger ------------------------
(***************************************************************************)
(* What a service ticket is to the services that redeem it, with the       *)
(* threads, locks and registries of the server left out: a voucher that    *)
(* is handed to one browser and can be presented a limited number of       *)
(* times.  Presenting it for the wrong service uses it up as well.         *)
(***************************************************************************)
EXTENDS Integers

CONSTANTS Vouchers, Limit

VARIABLES
  held,      \* vouchers handed out
  left,      \* presentations each voucher still has
  redeemed   \* presentations that were accepted

Init ==
  /\ held = {}
  /\ left = [v \in Vouchers |-> Limit]
  /\ redeemed = [v \in Vouchers |-> 0]

Hand(v) ==
  /\ v \notin held
  /\ held' = held \cup {v}
  /\ UNCHANGED <<left, redeemed>>

Present(v) ==
  /\ v \in held
  /\ left[v] > 0
  /\ left' = [left EXCEPT ![v] = @ - 1]
  /\ redeemed' \in {redeemed, [redeemed EXCEPT ![v] = @ + 1]}
  /\ UNCHANGED held

Next == \E v \in Vouchers : Hand(v) \/ Present(v)

Spec == Init /\ [][Next]_<<held, left, redeemed>>
=============================================================================
