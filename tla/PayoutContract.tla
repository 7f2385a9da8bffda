--------------------------- MODULE PayoutContract ---------------------------
(***************************************************************************)
(* What a vendor may rely on: a payout is paid once, for terms that were   *)
(* agreed to and have not changed since, out of a wallet that covers it.   *)
(* Statuses, schedules, payment references, the waiting period and retries *)
(* are below this level.                                                   *)
(***************************************************************************)
EXTENDS Naturals

CONSTANTS Vendors, Payouts,
          Terms,     \* records with at least a recipient and an amount
          NoTerms

VARIABLES phase,     \* "absent", "offered", "agreed", "settled" or "refused"
          terms,     \* the terms on offer: the vendor, the amount, the period
          wallet     \* the vendor's balance

vars == <<phase, terms, wallet>>

Init == /\ phase = [p \in Payouts |-> "absent"]
        /\ terms = [p \in Payouts |-> NoTerms]
        /\ wallet = [v \in Vendors |-> 0]

Earn(v) == /\ wallet' \in [Vendors -> Nat]
           /\ wallet'[v] > wallet[v]
           /\ \A other \in Vendors \ {v} : wallet'[other] = wallet[other]
           /\ UNCHANGED <<phase, terms>>

\* Terms may be put to the vendor, and changed, until they are agreed to.
Offer(p, t) == /\ phase[p] \in {"absent", "offered"}
               /\ phase' = [phase EXCEPT ![p] = "offered"]
               /\ terms' = [terms EXCEPT ![p] = t]
               /\ UNCHANGED wallet

Answer(p, answer) == /\ phase[p] = "offered"
                     /\ phase' = [phase EXCEPT ![p] = answer]
                     /\ UNCHANGED <<terms, wallet>>

\* The agreed amount leaves the wallet.
Settle(p) == LET v == terms[p].recipient
                 amount == terms[p].amount IN
             /\ phase[p] = "agreed"
             /\ amount > 0
             /\ wallet[v] >= amount
             /\ wallet' = [wallet EXCEPT ![v] = @ - amount]
             /\ phase' = [phase EXCEPT ![p] = "settled"]
             /\ UNCHANGED terms

Next == \/ \E v \in Vendors : Earn(v)
        \/ \E p \in Payouts : \/ \E t \in Terms : Offer(p, t)
                              \/ Answer(p, "agreed")
                              \/ Answer(p, "refused")
                              \/ Settle(p)

Spec == Init /\ [][Next]_vars
=============================================================================
