------------------------------ MODULE MCMoney ------------------------------
(***************************************************************************)
(* Small instances of Payouts and Wallets, checked in one run: what the    *)
(* platform owes stores and couriers, and what customers have with it.     *)
(* They share no state, so a behaviour moves only one of them away from    *)
(* its initial state.                                                      *)
(***************************************************************************)
EXTENDS Payouts, Wallets, TLC

CONSTANTS v1, c1, p1, p2, u1, u2, o1, o2

OneVendor == {v1}
OneCourier == {c1}
TwoPayouts == {p1, p2}
TwoUsers == {u1, u2}
TwoOrders == {o1, o2}

Alike == Permutations(TwoPayouts) \cup Permutations(TwoUsers) \cup Permutations(TwoOrders)

MoneyInit == Init /\ WalletsInit

MoneyNext == \/ WalletsInit /\ Next /\ UNCHANGED walletVars
             \/ Init /\ WalletsNext /\ UNCHANGED vars

MoneySpec == MoneyInit /\ [][MoneyNext]_<<vars, walletVars>>
=============================================================================
