------------------------------ MODULE Wallets ------------------------------
(***************************************************************************)
(* Customers' prepaid money and points: accounts/actions/wallet_actions.py,*)
(* accounts/actions/loyalty_actions.py, the referral programme, and what   *)
(* placing, delivering and cancelling an order does to them                *)
(* (orders/actions/ordering/create_orders.py, orders/actions/settlement.py,*)
(* orders/actions/cancellation_effects.py).                                *)
(*                                                                         *)
(* Money is counted in quarters of a rupee, the value of one point.  A     *)
(* checkout is one transaction, and the lock on the basket makes it the    *)
(* customer's only one.  It reads the balances first, without locks, and   *)
(* takes the locks of the wallet and of the points account when it debits  *)
(* them at its end; they are held until it commits or is rolled back.      *)
(***************************************************************************)
EXTENDS Integers, FiniteSets, Functions

CONSTANTS
    Users,          \* customers
    Orders,         \* primary keys
    TopUps,         \* gateway orders for top-ups
    Prices,         \* what a basket costs with all its fees
    Spends,         \* wallet amounts and points a customer asks to spend
    Loads,          \* amounts of a top-up
    Bonus,          \* REFERRAL_BONUS_POINTS, 100 in the code
    Adjustments,    \* what the back office adds to or takes from points
    MaxPoints,      \* bound on the points of an account
    LongTypesFit,   \* FALSE on PostgreSQL: "admin_credit" exceeds varchar(10)
    NoUser, NoOrder

ASSUME WalletsAssumption ==
    /\ Prices \subseteq Nat \ {0}
    /\ Loads \subseteq Nat \ {0}
    /\ Spends \subseteq Nat
    /\ Adjustments \subseteq Nat \ {0}
    /\ Bonus \in Nat \ {0}
    /\ MaxPoints \in Nat
    /\ LongTypesFit \in BOOLEAN
    /\ NoUser \notin Users
    /\ NoOrder \notin Orders
    /\ IsFiniteSet(Orders) /\ IsFiniteSet(TopUps)

VARIABLES
    balance,    \* Wallet.balance
    moves,      \* WalletTransaction rows
    topup,      \* WalletTopUp rows, and the gateway orders behind them
    points,     \* LoyaltyAccount.points
    tally,      \* LoyaltyTransaction rows that belong to an order
    adjusted,   \* sum of the back office's adjustments
    referral,   \* Referral rows, by referee
    order,      \* orders
    checkout    \* checkouts in progress

walletVars == <<balance, moves, topup, points, tally, adjusted, referral, order, checkout>>

purse   == <<balance, moves>>
account == <<points, tally, adjusted>>
-----------------------------------------------------------------------------
NoTopUp == [at |-> "none", user |-> NoUser, amount |-> 0, credited |-> FALSE]

NoReferral == [referrer |-> NoUser, awarded |-> FALSE]

NewOrder == [status |-> "none", customer |-> NoUser, total |-> 0, wallet |-> 0,
             points |-> 0]

NoCheckout == [stage |-> "none", order |-> NoOrder, price |-> 0, wallet |-> 0,
               points |-> 0]

WalletsTypeOK ==
    /\ balance \in [Users -> Nat]
    /\ moves \subseteq [user : Users, source : {"topup", "refund", "order_payment"},
                        ref : Orders \cup TopUps, amount : Nat]
    /\ topup \in [TopUps -> [at : {"none", "open", "captured"}, user : Users \cup {NoUser},
                             amount : Nat, credited : BOOLEAN]]
    /\ points \in [Users -> Nat]
    /\ tally \subseteq [user : Users, type : {"earn", "redeem"}, ref : Orders, points : Int]
    /\ adjusted \in [Users -> Int]
    /\ referral \in [Users -> [referrer : Users \cup {NoUser}, awarded : BOOLEAN]]
    /\ order \in [Orders -> [status : {"none", "open", "delivered", "cancelled"},
                             customer : Users \cup {NoUser}, total : Nat, wallet : Nat,
                             points : Nat]]
    /\ checkout \in [Users -> [stage : {"none", "checked", "held"},
                               order : Orders \cup {NoOrder}, price : Nat, wallet : Nat,
                               points : Nat]]

WalletsInit ==
    /\ balance = [u \in Users |-> 0]
    /\ moves = {}
    /\ topup = [t \in TopUps |-> NoTopUp]
    /\ points = [u \in Users |-> 0]
    /\ tally = {}
    /\ adjusted = [u \in Users |-> 0]
    /\ referral = [u \in Users |-> NoReferral]
    /\ order = [o \in Orders |-> NewOrder]
    /\ checkout = [u \in Users |-> NoCheckout]

\* Rows another transaction has to wait for.
WalletHeld(u) == checkout[u].stage = "held" /\ checkout[u].wallet > 0
PointsHeld(u) == checkout[u].stage = "held" /\ checkout[u].points > 0
-----------------------------------------------------------------------------
(* The two books.                                                          *)

\* WalletRepository.credit_exists
CreditExists(u, source, ref) ==
    \E m \in moves : m.user = u /\ m.source = source /\ m.ref = ref

\* CreditWalletAction: a reference is credited once.
CreditWallet(u, amount, source, ref) ==
    /\ ~WalletHeld(u)
    /\ IF CreditExists(u, source, ref)
       THEN UNCHANGED purse
       ELSE /\ balance' = [balance EXCEPT ![u] = @ + amount]
            /\ moves' = moves \cup {[user |-> u, source |-> source, ref |-> ref,
                                     amount |-> amount]}

\* LoyaltyRepository.earned
Earned(u, ref) == \E e \in tally : e.user = u /\ e.type = "earn" /\ e.ref = ref

\* Points for a total: one for each rupee, and at least one.
PointsFor(total) == IF total < 4 THEN 1 ELSE total \div 4

\* Points that may pay for a basket: MAX_POINTS_REDEMPTION_PCT of its price.
Redeemable(price, asked) == IF asked <= (price * 20) \div 100 THEN asked
                                                               ELSE (price * 20) \div 100
-----------------------------------------------------------------------------
(* Top-ups.  The gateway is external: it captures a payment once.          *)

\* InitiateWalletTopUpAction
InitiateWalletTopUp(t, u, amount) ==
    /\ topup[t].at = "none"
    /\ topup' = [topup EXCEPT ![t] = [at |-> "open", user |-> u, amount |-> amount,
                                      credited |-> FALSE]]
    /\ UNCHANGED <<purse, account, referral, order, checkout>>

\* The customer pays at the gateway.
Capture(t) ==
    /\ topup[t].at = "open"
    /\ topup' = [topup EXCEPT ![t].at = "captured"]
    /\ UNCHANGED <<purse, account, referral, order, checkout>>

\* VerifyWalletTopUpAction, the row being locked.
VerifyWalletTopUp(t) ==
    /\ topup[t].at = "captured"
    /\ ~topup[t].credited
    /\ CreditWallet(topup[t].user, topup[t].amount, "topup", t)
    /\ topup' = [topup EXCEPT ![t].credited = TRUE]
    /\ UNCHANGED <<account, referral, order, checkout>>
-----------------------------------------------------------------------------
(* Points outside orders.                                                  *)

\* ApplyReferralCodeView: not one's own code, and one code for ever.
ApplyReferralCode(u, r) ==
    /\ u # r
    /\ referral[u].referrer = NoUser
    /\ referral' = [referral EXCEPT ![u].referrer = r]
    /\ UNCHANGED <<purse, topup, account, order, checkout>>

\* adjust_loyalty, credit
CreditPoints(u, n) ==
    /\ LongTypesFit
    /\ ~PointsHeld(u)
    /\ points[u] + n <= MaxPoints
    /\ points' = [points EXCEPT ![u] = @ + n]
    /\ adjusted' = [adjusted EXCEPT ![u] = @ + n]
    /\ UNCHANGED <<purse, topup, tally, referral, order, checkout>>

\* adjust_loyalty, debit
DebitPoints(u, n) ==
    /\ LongTypesFit
    /\ ~PointsHeld(u)
    /\ points[u] >= n
    /\ points' = [points EXCEPT ![u] = @ - n]
    /\ adjusted' = [adjusted EXCEPT ![u] = @ - n]
    /\ UNCHANGED <<purse, topup, tally, referral, order, checkout>>
-----------------------------------------------------------------------------
(* Checkout.                                                               *)

\* The balances as they are, before prices and stock are gone through.
CheckBalances(u, o, price, spend, asked) ==
    /\ checkout[u].stage = "none"
    /\ order[o].status = "none"
    /\ \A v \in Users : checkout[v].order # o
    /\ spend <= balance[u]
    /\ asked <= points[u]
    /\ checkout' = [checkout EXCEPT ![u] = [stage |-> "checked", order |-> o, price |-> price,
                                            wallet |-> spend, points |-> Redeemable(price, asked)]]
    /\ UNCHANGED <<purse, topup, account, referral, order>>

\* Mutant of HoldBalances: what was checked before is trusted.
HoldWithoutLooking(u) ==
    /\ checkout[u].stage = "checked"
    /\ checkout' = [checkout EXCEPT ![u].stage = "held"]
    /\ UNCHANGED <<purse, topup, account, referral, order>>

\* DebitWalletAction and RedeemLoyaltyPointsAction look again under their locks.
HoldBalances(u) ==
    /\ checkout[u].stage = "checked"
    /\ checkout[u].wallet <= balance[u]
    /\ checkout[u].points <= points[u]
    /\ checkout' = [checkout EXCEPT ![u].stage = "held"]
    /\ UNCHANGED <<purse, topup, account, referral, order>>

\* A balance that is too small now, or whatever else makes checkout raise.
RollBack(u) ==
    /\ checkout[u].stage # "none"
    /\ checkout' = [checkout EXCEPT ![u] = NoCheckout]
    /\ UNCHANGED <<purse, topup, account, referral, order>>

\* Mutant of BonusDue: every order counts.
BonusForEveryOrder(u) == referral[u].referrer # NoUser

\* The bonus is due for the first order, cancelled ones included.
BonusDue(u) == /\ referral[u].referrer # NoUser
               /\ ~referral[u].awarded
               /\ \A o \in Orders : order[o].customer # u

\* order.total
Payable(c) == IF c.price > c.wallet + c.points THEN c.price - c.wallet - c.points ELSE 0

\* The order with the debit of the wallet, if any.
PlaceOrder(u) ==
    LET c == checkout[u] IN
    /\ order' = [order EXCEPT ![c.order] =
                    [status |-> "open", customer |-> u, total |-> Payable(c),
                     wallet |-> c.wallet, points |-> c.points]]
    /\ balance' = [balance EXCEPT ![u] = @ - c.wallet]
    /\ moves' = IF c.wallet = 0 THEN moves
                ELSE moves \cup {[user |-> u, source |-> "order_payment", ref |-> c.order,
                                  amount |-> c.wallet]}
    /\ checkout' = [checkout EXCEPT ![u] = NoCheckout]

\* RedeemLoyaltyPointsAction's transaction.
Redeemed(u) == LET c == checkout[u] IN
    IF c.points = 0 THEN {}
    ELSE {[user |-> u, type |-> "redeem", ref |-> c.order, points |-> 0 - c.points]}

\* No bonus is due.
CommitCheckout(u) ==
    /\ checkout[u].stage = "held"
    /\ ~BonusDue(u)
    /\ PlaceOrder(u)
    /\ points' = [points EXCEPT ![u] = @ - checkout[u].points]
    /\ tally' = tally \cup Redeemed(u)
    /\ UNCHANGED <<topup, adjusted, referral>>

\* EarnLoyaltyPointsAction gives one point for an order total of 0, which is then
\* taken back and replaced by the bonus.
BonusPoints == PointsFor(0) - 1 + Bonus

\* The referrer's account is locked as well.
CommitWithBonus(u) ==
    LET r == referral[u].referrer IN
    /\ checkout[u].stage = "held"
    /\ BonusDue(u)
    /\ ~PointsHeld(r)
    /\ points[r] + Bonus <= MaxPoints
    /\ PlaceOrder(u)
    /\ points' = [points EXCEPT ![u] = @ - checkout[u].points, ![r] = @ + BonusPoints]
    /\ tally' = tally \cup Redeemed(u)
                      \cup {[user |-> r, type |-> "earn", ref |-> checkout[u].order,
                             points |-> Bonus]}
    /\ referral' = [referral EXCEPT ![u].awarded = TRUE]
    /\ UNCHANGED <<topup, adjusted>>

\* Two customers who referred each other hold their points and wait for the
\* other's: the database fails one of the two, and the exception is swallowed.
CommitAfterDeadlock(u) ==
    LET r == referral[u].referrer IN
    /\ BonusDue(u)
    /\ PointsHeld(u) /\ PointsHeld(r)
    /\ BonusDue(r) /\ referral[r].referrer = u
    /\ PlaceOrder(u)
    /\ points' = [points EXCEPT ![u] = @ - checkout[u].points]
    /\ tally' = tally \cup Redeemed(u)
    /\ UNCHANGED <<topup, adjusted, referral>>
-----------------------------------------------------------------------------
(* After checkout.                                                         *)

\* SettleDeliveredOrderAction: points for what was left to pay, once for an order.
Deliver(o) ==
    LET u == order[o].customer
        total == order[o].total IN
    /\ order[o].status = "open"
    /\ ~PointsHeld(u)
    /\ points[u] + PointsFor(total) <= MaxPoints
    /\ order' = [order EXCEPT ![o].status = "delivered"]
    /\ IF total = 0 \/ Earned(u, o)
       THEN UNCHANGED <<points, tally>>
       ELSE /\ points' = [points EXCEPT ![u] = @ + PointsFor(total)]
            /\ tally' = tally \cup {[user |-> u, type |-> "earn", ref |-> o,
                                     points |-> PointsFor(total)]}
    /\ UNCHANGED <<purse, topup, adjusted, referral, checkout>>

\* wallet_amount
RefundDue(o) == order[o].wallet

\* OrderCancellationEffectsAction gives the wallet's part back; points stay spent.
Cancel(o) ==
    /\ order[o].status = "open"
    /\ order' = [order EXCEPT ![o].status = "cancelled"]
    /\ IF RefundDue(o) > 0
       THEN CreditWallet(order[o].customer, RefundDue(o), "refund", o)
       ELSE UNCHANGED purse
    /\ UNCHANGED <<topup, account, referral, checkout>>
-----------------------------------------------------------------------------
WalletsNext ==
    \/ \E t \in TopUps : \/ \E u \in Users, amount \in Loads : InitiateWalletTopUp(t, u, amount)
                         \/ Capture(t)
                         \/ VerifyWalletTopUp(t)
    \/ \E u \in Users :
        \/ \E r \in Users : ApplyReferralCode(u, r)
        \/ \E n \in Adjustments : CreditPoints(u, n) \/ DebitPoints(u, n)
        \/ \E o \in Orders, price \in Prices, spend \in Spends, asked \in Spends :
              CheckBalances(u, o, price, spend, asked)
        \/ HoldBalances(u)
        \/ RollBack(u)
        \/ CommitCheckout(u)
        \/ CommitWithBonus(u)
        \/ CommitAfterDeadlock(u)
    \/ \E o \in Orders : Deliver(o) \/ Cancel(o)

WalletsSpec == WalletsInit /\ [][WalletsNext]_walletVars
-----------------------------------------------------------------------------
(* Properties.                                                             *)

Paying(u) == {o \in Orders : /\ order[o].customer = u
                             /\ ~CreditExists(u, "refund", o)}

Loaded(u) == {t \in TopUps : topup[t].user = u /\ topup[t].credited}

\* A wallet holds what was topped up and captured less what orders keep: no interleaving
\* of top-ups, checkouts that roll back, and cancellations makes money or loses it.
WalletSourced == \A u \in Users :
    balance[u] + SumFunction([o \in Paying(u) |-> order[o].wallet])
        = SumFunction([t \in Loaded(u) |-> topup[t].amount])

Entries(u) == {e \in tally : e.user = u}

\* The points of an account are what its transactions say: the bonus is written by hand
\* over a point that was earned, in the middle of another customer's checkout.
PointsSourced == \A u \in Users :
    points[u] = adjusted[u] + SumFunction([e \in Entries(u) |-> e.points])

\* Money and points come from somewhere and are spent once, never beyond what there is.
BalancesSourced ==
    /\ WalletSourced
    /\ PointsSourced
    /\ \A u \in Users : balance[u] >= 0 /\ points[u] >= 0

\* A referral pays once, for one order of the customer who was referred, and only
\* if it is marked as paid.
BonusOnce == \A u \in Users :
    LET bonuses == {e \in tally : /\ e.type = "earn"
                                  /\ order[e.ref].customer = u
                                  /\ e.user # u}
    IN  Cardinality(bonuses) = (IF referral[u].awarded THEN 1 ELSE 0)
=============================================================================
