----------------------------- MODULE MoneyProofs -----------------------------
(***************************************************************************)
(* Theorems about the money of others that the platform keeps: Payouts,    *)
(* for any recipients, payouts, amounts and number of concurrent courier   *)
(* requests, and Wallets, for any customers, orders, top-ups and amounts.  *)
(***************************************************************************)
EXTENDS Payouts, Wallets, SumTheorems, TLAPS
-----------------------------------------------------------------------------
(***************************************************************************)
(* Payouts of vendors and couriers.                                        *)
(***************************************************************************)
\* A payout has a recipient from its creation on, and only a courier's handlers
\* leave anything unfinished.
RecipientsFixed ==
    \A p \in Payouts :
        /\ Exists(p) <=> payout[p].recipient \in Recipients
        /\ approving[p] > 0 \/ verifying[p] > 0 => ToCourier(p)

WalletWithinCredits == \A v \in Vendors : wallet[v] <= credits[v]

\* TypeOK bounds the wallet by what the vendor may earn, which the credits do;
\* and that a debit is the first one for its payout follows from DebitedOnce
\* only if no courier's late save can touch a vendor's payout.
IInv == TypeOK /\ RecipientsFixed /\ WalletWithinCredits /\ DebitedOnce

\* The columns of a payout row.
LEMMA RowColumns ==
    ASSUME TypeOK, NEW p \in Payouts
    PROVE  /\ payout[p] \in PayoutRows
           /\ payout[p].amount \in Nat
           /\ debits[p] \in Nat
           /\ approving[p] \in Nat /\ verifying[p] \in Nat
           /\ payout[p].sent \in FirstDay..Overdue
BY PayoutsAssumption DEF TypeOK, PayoutRows, Amounts, FirstDay, Overdue

LEMMA InitInv == Init => IInv
<1> SUFFICES ASSUME Init PROVE IInv
  OBVIOUS
<1>1. NoPayout \in PayoutRows
  BY PayoutsAssumption DEF NoPayout, PayoutRows, Amounts, FirstDay, Overdue, PayoutStatuses
<1>2. TypeOK
  BY <1>1, PayoutsAssumption DEF Init, TypeOK
<1>3. RecipientsFixed
  BY PayoutsAssumption DEF Init, RecipientsFixed, Exists, NoPayout, Recipients
<1>4. WalletWithinCredits /\ DebitedOnce
  BY DEF Init, WalletWithinCredits, DebitedOnce, Settled, ToVendor, NoPayout
<1> QED  BY <1>2, <1>3, <1>4 DEF IInv

\* A step that changes the row of p, but neither its recipient nor whether it
\* exists, nor any counter, and neither settles it nor changes its amount if it
\* is settled.
LEMMA RowStep ==
    ASSUME IInv, NEW p \in Payouts, NEW b \in PayoutRows,
           payout' = [payout EXCEPT ![p] = b],
           UNCHANGED <<wallet, credits, debits>>,
           b.recipient = payout[p].recipient, b.status # "none", Exists(p),
           \/ ~ToVendor(p)
           \/ ~Settled(p) /\ b.status \notin {"paid", "verified"}
           \/ Settled(p) /\ b.status \in {"paid", "verified"} /\ b.amount = payout[p].amount,
           approving' \in [Payouts -> 0..MaxRequests],
           verifying' \in [Payouts -> 0..MaxRequests],
           \A q \in Payouts : approving'[q] <= approving[q] /\ verifying'[q] <= verifying[q]
    PROVE  IInv'
<1> USE DEF IInv
<1>1. TypeOK'
  BY DEF TypeOK
<1>2. RecipientsFixed'
  <2> SUFFICES ASSUME NEW q \in Payouts
               PROVE  /\ Exists(q)' <=> payout'[q].recipient \in Recipients
                      /\ approving'[q] > 0 \/ verifying'[q] > 0 => ToCourier(q)'
    BY DEF RecipientsFixed
  <2>1. /\ payout'[q].recipient = payout[q].recipient
        /\ Exists(q)' <=> Exists(q)
    BY DEF TypeOK, Exists
  <2>2. approving'[q] > 0 \/ verifying'[q] > 0 => approving[q] > 0 \/ verifying[q] > 0
    <3>1. /\ approving \in [Payouts -> 0..MaxRequests]
          /\ verifying \in [Payouts -> 0..MaxRequests]
      BY DEF TypeOK
    <3>2. approving'[q] <= approving[q] /\ verifying'[q] <= verifying[q]
      OBVIOUS
    <3>3. approving[q] \in Int /\ verifying[q] \in Int
      BY <3>1
    <3>4. approving'[q] \in Int /\ verifying'[q] \in Int
      OBVIOUS
    <3> QED  BY <3>2, <3>3, <3>4
  <2> QED  BY <2>1, <2>2 DEF RecipientsFixed, ToCourier
<1>3. WalletWithinCredits'
  BY DEF WalletWithinCredits
<1>4. DebitedOnce'
  BY DEF TypeOK, DebitedOnce, Settled, ToVendor
<1> QED  BY <1>1, <1>2, <1>3, <1>4

\* A step that only sets the status of p.
LEMMA StatusStep ==
    ASSUME IInv, NEW p \in Payouts, NEW s \in PayoutStatuses, SetStatus(p, s), Exists(p),
           \/ ~ToVendor(p)
           \/ ~Settled(p) /\ s \notin {"paid", "verified"}
           \/ Settled(p) /\ s \in {"paid", "verified"},
           approving' \in [Payouts -> 0..MaxRequests],
           verifying' \in [Payouts -> 0..MaxRequests],
           \A q \in Payouts : approving'[q] <= approving[q] /\ verifying'[q] <= verifying[q]
    PROVE  IInv'
<1> DEFINE b == [payout[p] EXCEPT !.status = s]
<1>1. /\ b \in PayoutRows /\ b.status = s
      /\ b.recipient = payout[p].recipient /\ b.amount = payout[p].amount
  BY RowColumns DEF IInv, PayoutRows
<1>2. payout' = [payout EXCEPT ![p] = b] /\ UNCHANGED <<wallet, credits, debits>>
  BY DEF SetStatus, ledger
<1>3. s # "none"
  BY DEF PayoutStatuses
<1> HIDE DEF b
<1> QED  BY <1>1, <1>2, <1>3, RowStep

LEMMA UnchangedRequests ==
    ASSUME IInv, UNCHANGED requests
    PROVE  /\ approving' \in [Payouts -> 0..MaxRequests]
           /\ verifying' \in [Payouts -> 0..MaxRequests]
           /\ \A q \in Payouts : approving'[q] <= approving[q] /\ verifying'[q] <= verifying[q]
<1>1. approving' = approving /\ verifying' = verifying
  BY DEF requests
<1>2. /\ approving \in [Payouts -> 0..MaxRequests]
      /\ verifying \in [Payouts -> 0..MaxRequests]
  BY DEF IInv, TypeOK
<1>3. ASSUME NEW q \in Payouts
      PROVE  approving'[q] <= approving[q] /\ verifying'[q] <= verifying[q]
  <2>1. approving[q] \in Int /\ verifying[q] \in Int
    BY <1>2
  <2> QED  BY <1>1, <2>1
<1> QED  BY <1>1, <1>2, <1>3

\* The same for a handler that holds the row's lock.
LEMMA LockedStatusStep ==
    ASSUME IInv, NEW p \in Payouts, NEW s \in PayoutStatuses, SetStatus(p, s), Exists(p),
           Settled(p) <=> s \in {"paid", "verified"},
           UNCHANGED requests
    PROVE  IInv'
<1>1. UNCHANGED requests
  OBVIOUS
<1>2. /\ approving' \in [Payouts -> 0..MaxRequests]
      /\ verifying' \in [Payouts -> 0..MaxRequests]
      /\ \A q \in Payouts : approving'[q] <= approving[q] /\ verifying'[q] <= verifying[q]
  BY <1>1, UnchangedRequests
<1>3. \/ ~Settled(p) /\ s \notin {"paid", "verified"}
      \/ Settled(p) /\ s \in {"paid", "verified"}
  OBVIOUS
<1> QED  BY <1>1, <1>2, <1>3, StatusStep

\* Recording a payment.
LEMMA PayInv ==
    ASSUME IInv, NEW p \in Payouts, NEW ref \in References, RecordPayment(p, ref)
    PROVE  IInv'
<1> DEFINE b == [payout[p] EXCEPT !.status = "paid", !.ref = ref, !.sent = FirstDay]
<1>1. /\ b \in PayoutRows /\ b.status = "paid"
      /\ b.recipient = payout[p].recipient /\ b.amount = payout[p].amount
  <2>1. payout[p] \in PayoutRows /\ FirstDay \in FirstDay..Overdue /\ "paid" \in PayoutStatuses
    BY RowColumns DEF IInv, FirstDay, Overdue, PayoutStatuses
  <2> QED  BY <2>1 DEF PayoutRows
<1>2. payout' = [payout EXCEPT ![p] = b] /\ UNCHANGED <<credits, requests>>
  BY DEF RecordPayment, Pay
<1>3. Exists(p) /\ ~Settled(p)
  BY DEF RecordPayment, Exists, Settled
<1> HIDE DEF b
<1>4. CASE ~ToVendor(p)
  BY <1>1, <1>2, <1>3, <1>4, RowStep, UnchangedRequests DEF RecordPayment, Pay, requests
<1>5. CASE ToVendor(p)
  <2> DEFINE v == payout[p].recipient
             amount == payout[p].amount
  <2>1. /\ v \in Vendors
        /\ wallet' = [wallet EXCEPT ![v] = @ - amount]
        /\ debits' = [debits EXCEPT ![p] = @ + amount]
        /\ wallet[v] >= amount
    BY <1>5 DEF RecordPayment, Pay, Covered, ToVendor
  <2>2. amount \in Nat /\ debits[p] = 0
    BY <1>3, RowColumns DEF IInv, DebitedOnce
  <2>3. wallet[v] \in 0..MaxEarned /\ wallet[v] - amount \in 0..MaxEarned /\ wallet[v] - amount <= wallet[v]
    BY <2>1, <2>2, PayoutsAssumption DEF IInv, TypeOK
  <2>4. debits' = [debits EXCEPT ![p] = amount]
    <3>1. debits[p] + amount = amount
      BY <2>2
    <3> QED  BY <2>1, <3>1
  <2>5. TypeOK'
    BY <1>1, <1>2, <2>1, <2>2, <2>3, <2>4 DEF IInv, TypeOK, requests
  <2>6. RecipientsFixed'
    BY <1>1, <1>2, <1>3 DEF IInv, TypeOK, requests, RecipientsFixed, Exists, ToCourier
  <2>7. WalletWithinCredits'
    BY <1>2, <2>1, <2>2, <2>3, PayoutsAssumption DEF IInv, TypeOK, WalletWithinCredits
  <2>8. DebitedOnce'
    BY <1>1, <1>2, <1>5, <2>4 DEF IInv, TypeOK, DebitedOnce, Settled, ToVendor
  <2> QED  BY <2>5, <2>6, <2>7, <2>8 DEF IInv
<1> QED  BY <1>4, <1>5

-----------------------------------------------------------------------------
LEMMA BackOfficeInv ==
    ASSUME IInv, NEW p \in Payouts, BackOffice(p)
    PROVE  IInv'
<1> USE DEF IInv
<1>0. payout[p] \in PayoutRows
  BY RowColumns
<1>1. ASSUME NEW r \in Recipients, NEW amount \in Amounts, NEW start \in Days, NEW end \in Days,
             CreatePayout(p, r, amount, start, end)
      PROVE  IInv'
  <2> DEFINE b == [NoPayout EXCEPT !.status = "pending_approval", !.recipient = r,
                                   !.amount = amount, !.start = start, !.end = end]
  <2>1. b \in PayoutRows /\ b.status = "pending_approval" /\ b.recipient = r
    <3>1. FirstDay \in FirstDay..Overdue /\ "pending_approval" \in PayoutStatuses
      BY DEF FirstDay, Overdue, PayoutStatuses
    <3> QED  BY <3>1 DEF NoPayout, PayoutRows
  <2>2. payout' = [payout EXCEPT ![p] = b]
    BY <1>1 DEF CreatePayout
  <2> HIDE DEF b
  <2>3. TypeOK'
    BY <1>1, <2>1, <2>2 DEF CreatePayout, TypeOK, ledger, requests
  <2>4. RecipientsFixed'
    <3>1. ~ToCourier(p)
      BY <1>1 DEF CreatePayout, RecipientsFixed, ToCourier, Recipients
    <3> QED  BY <1>1, <2>1, <2>2, <3>1
          DEF CreatePayout, requests, TypeOK, RecipientsFixed, Exists, ToCourier
  <2>5. WalletWithinCredits'
    BY <1>1 DEF CreatePayout, ledger, WalletWithinCredits
  <2>6. DebitedOnce'
    BY <1>1, <2>1, <2>2 DEF CreatePayout, Exists, ledger, TypeOK, DebitedOnce, Settled, ToVendor
  <2> QED  BY <2>3, <2>4, <2>5, <2>6
<1>2. ASSUME NEW amount \in Amounts, NEW start \in Days, NEW end \in Days,
             EditPayout(p, amount, start, end)
      PROVE  IInv'
  <2> DEFINE b == [payout[p] EXCEPT !.amount = amount, !.start = start, !.end = end]
  <2>1. b \in PayoutRows /\ b.status = "pending_approval" /\ b.recipient = payout[p].recipient
    BY <1>0, <1>2 DEF EditPayout, PayoutRows
  <2>2. payout' = [payout EXCEPT ![p] = b]
    BY <1>2 DEF EditPayout
  <2> HIDE DEF b
  <2> QED  BY <1>2, <2>1, <2>2, RowStep, UnchangedRequests
        DEF EditPayout, Exists, Settled, ledger, requests
<1>3. ASSUME NEW ref \in References, RecordPayment(p, ref)
      PROVE  IInv'
  BY <1>3, PayInv
<1>4. CASE SchedulePayout(p)
  <2>1. /\ SetStatus(p, "scheduled") /\ Exists(p) /\ UNCHANGED requests
        /\ Settled(p) <=> "scheduled" \in {"paid", "verified"}
    BY <1>4 DEF SchedulePayout, Exists, Settled
  <2>2. "scheduled" \in PayoutStatuses
    BY DEF PayoutStatuses
  <2> QED  BY <2>1, <2>2, LockedStatusStep
<1>5. CASE ForceVerify(p)
  <2>1. /\ SetStatus(p, "verified") /\ Exists(p) /\ UNCHANGED requests
        /\ Settled(p) <=> "verified" \in {"paid", "verified"}
    BY <1>5 DEF ForceVerify, Exists, Settled
  <2>2. "verified" \in PayoutStatuses
    BY DEF PayoutStatuses
  <2> QED  BY <2>1, <2>2, LockedStatusStep
<1> QED  BY <1>1, <1>2, <1>3, <1>4, <1>5 DEF BackOffice

LEMMA RecipientInv ==
    ASSUME IInv, NEW p \in Payouts, Recipient(p)
    PROVE  IInv'
<1>1. CASE VendorApproves(p)
  <2>1. /\ SetStatus(p, "approved") /\ Exists(p) /\ UNCHANGED requests
        /\ Settled(p) <=> "approved" \in {"paid", "verified"}
    BY <1>1 DEF VendorApproves, Exists, Settled
  <2>2. "approved" \in PayoutStatuses
    BY DEF PayoutStatuses
  <2> QED  BY <2>1, <2>2, LockedStatusStep
<1>2. CASE Declines(p)
  <2>1. /\ SetStatus(p, "failed") /\ Exists(p) /\ UNCHANGED requests
        /\ Settled(p) <=> "failed" \in {"paid", "verified"}
    BY <1>2 DEF Declines, Exists, Settled
  <2>2. "failed" \in PayoutStatuses
    BY DEF PayoutStatuses
  <2> QED  BY <2>1, <2>2, LockedStatusStep
<1>3. CASE VendorVerifies(p)
  <2>1. /\ SetStatus(p, "verified") /\ Exists(p) /\ UNCHANGED requests
        /\ Settled(p) <=> "verified" \in {"paid", "verified"}
    BY <1>3 DEF VendorVerifies, Exists, Settled
  <2>2. "verified" \in PayoutStatuses
    BY DEF PayoutStatuses
  <2> QED  BY <2>1, <2>2, LockedStatusStep
<1>4. CASE CourierApproveReads(p) \/ CourierVerifyReads(p)
  <2>1. ToCourier(p)
    BY <1>4 DEF CourierApproveReads, CourierVerifyReads
  <2>2. TypeOK'
    BY <1>4, PayoutsAssumption
    DEF CourierApproveReads, CourierVerifyReads, IInv, TypeOK, ledger
  <2>3. RecipientsFixed'
    BY <1>4, <2>1 DEF CourierApproveReads, CourierVerifyReads, IInv, TypeOK,
       RecipientsFixed, Exists, ToCourier
  <2>4. WalletWithinCredits' /\ DebitedOnce'
    BY <1>4 DEF CourierApproveReads, CourierVerifyReads, ledger, IInv,
       WalletWithinCredits, DebitedOnce, Settled, ToVendor
  <2> QED  BY <2>2, <2>3, <2>4 DEF IInv
<1>5. CASE CourierApproveSaves(p)
  <2>1. ~ToVendor(p) /\ Exists(p)
    BY <1>5, PayoutsAssumption DEF CourierApproveSaves, IInv, RecipientsFixed, ToCourier, ToVendor, Recipients
  <2>2. /\ approving' \in [Payouts -> 0..MaxRequests]
        /\ \A q \in Payouts : approving'[q] <= approving[q]
    BY <1>5, PayoutsAssumption DEF CourierApproveSaves, IInv, TypeOK
  <2>3. SetStatus(p, "approved") /\ verifying' = verifying
    BY <1>5 DEF CourierApproveSaves
  <2>4. verifying \in [Payouts -> 0..MaxRequests]
    BY DEF IInv, TypeOK
  <2>5. ASSUME NEW q \in Payouts PROVE verifying'[q] <= verifying[q]
    <3>1. verifying[q] \in Int
      BY <2>4
    <3> QED  BY <2>3, <3>1
  <2>6. /\ verifying' \in [Payouts -> 0..MaxRequests]
        /\ \A q \in Payouts : approving'[q] <= approving[q] /\ verifying'[q] <= verifying[q]
    BY <2>2, <2>3, <2>4, <2>5
  <2>7. "approved" \in PayoutStatuses
    BY DEF PayoutStatuses
  <2> QED  BY <2>1, <2>2, <2>3, <2>6, <2>7, StatusStep
<1>6. CASE CourierVerifySaves(p)
  <2>1. ~ToVendor(p) /\ Exists(p)
    BY <1>6, PayoutsAssumption DEF CourierVerifySaves, IInv, RecipientsFixed, ToCourier, ToVendor, Recipients
  <2>2. /\ verifying' \in [Payouts -> 0..MaxRequests]
        /\ \A q \in Payouts : verifying'[q] <= verifying[q]
    BY <1>6, PayoutsAssumption DEF CourierVerifySaves, IInv, TypeOK
  <2>3. SetStatus(p, "verified") /\ approving' = approving
    BY <1>6 DEF CourierVerifySaves
  <2>4. approving \in [Payouts -> 0..MaxRequests]
    BY DEF IInv, TypeOK
  <2>5. ASSUME NEW q \in Payouts PROVE approving'[q] <= approving[q]
    <3>1. approving[q] \in Int
      BY <2>4
    <3> QED  BY <2>3, <3>1
  <2>6. /\ approving' \in [Payouts -> 0..MaxRequests]
        /\ \A q \in Payouts : approving'[q] <= approving[q] /\ verifying'[q] <= verifying[q]
    BY <2>2, <2>3, <2>4, <2>5
  <2>7. "verified" \in PayoutStatuses
    BY DEF PayoutStatuses
  <2> QED  BY <2>1, <2>2, <2>3, <2>6, <2>7, StatusStep
<1> QED  BY <1>1, <1>2, <1>3, <1>4, <1>5, <1>6 DEF Recipient

LEMMA OtherInv ==
    ASSUME IInv,
           \/ \E v \in Vendors, amount \in Amounts : CreditVendor(v, amount)
           \/ \E p \in Payouts : ADayPasses(p)
           \/ UNCHANGED vars
    PROVE  IInv'
<1>1. ASSUME NEW v \in Vendors, NEW amount \in Amounts, CreditVendor(v, amount)
      PROVE  IInv'
  <2>1. wallet' = [wallet EXCEPT ![v] = @ + amount] /\ credits' = [credits EXCEPT ![v] = @ + amount]
    BY <1>1 DEF CreditVendor
  <2>2. /\ wallet[v] + amount \in 0..MaxEarned /\ credits[v] + amount \in 0..MaxEarned
        /\ wallet[v] + amount <= credits[v] + amount
    BY <1>1, PayoutsAssumption DEF CreditVendor, IInv, TypeOK, WalletWithinCredits, Amounts
  <2>3. TypeOK'
    BY <1>1, <2>1, <2>2 DEF CreditVendor, IInv, TypeOK, requests
  <2>4. WalletWithinCredits'
    BY <2>1, <2>2 DEF IInv, TypeOK, WalletWithinCredits
  <2>5. RecipientsFixed' /\ DebitedOnce'
    BY <1>1 DEF CreditVendor, requests, IInv, RecipientsFixed, DebitedOnce,
       Exists, ToCourier, ToVendor, Settled
  <2> QED  BY <2>3, <2>4, <2>5 DEF IInv
<1>2. ASSUME NEW p \in Payouts, ADayPasses(p)
      PROVE  IInv'
  <2> DEFINE b == [payout[p] EXCEPT !.sent = @ + 1]
  <2>1. /\ b \in PayoutRows /\ b.status = "paid" /\ b.recipient = payout[p].recipient
        /\ b.amount = payout[p].amount
    BY <1>2, RowColumns DEF ADayPasses, IInv, PayoutRows, FirstDay, Overdue
  <2>2. payout' = [payout EXCEPT ![p] = b]
    BY <1>2 DEF ADayPasses
  <2> HIDE DEF b
  <2> QED  BY <1>2, <2>1, <2>2, RowStep, UnchangedRequests
        DEF ADayPasses, Exists, Settled, ledger, requests
<1>3. CASE UNCHANGED vars
  BY <1>3 DEF vars, ledger, requests, IInv, TypeOK, RecipientsFixed,
     WalletWithinCredits, DebitedOnce, Exists, ToCourier, ToVendor, Settled
<1> QED  BY <1>1, <1>2, <1>3

LEMMA StepInv == IInv /\ [Next]_vars => IInv'
BY BackOfficeInv, RecipientInv, OtherInv DEF Next

-----------------------------------------------------------------------------
\* The rows, counters and the ledger keep their types.
THEOREM TypeCorrect == Spec => []TypeOK
BY InitInv, StepInv, PTL DEF Spec, IInv

\* A vendor's payout is debited exactly once, and only when it is settled,
\* whatever is retried and however the courier's handlers interleave.
THEOREM VendorDebitedOnce == Spec => []DebitedOnce
BY InitInv, StepInv, PTL DEF Spec, IInv
-----------------------------------------------------------------------------
(* The wallet agrees with its ledger.                                      *)

OwnPayouts(v) == {p \in Payouts : payout[p].recipient = v}

LEMMA DebitsSummed ==
    ASSUME IInv
    PROVE  \A v : /\ IsFiniteSet(OwnPayouts(v))
                  /\ \A p \in OwnPayouts(v) : debits[p] \in Int
                  /\ SumFunctionOnSet(debits, OwnPayouts(v)) \in Int
<1> TAKE v
<1>1. IsFiniteSet(OwnPayouts(v))
  BY PayoutsAssumption, FS_Subset DEF OwnPayouts
<1>2. \A p \in OwnPayouts(v) : debits[p] \in Int
  BY RowColumns DEF IInv, OwnPayouts
<1> QED  BY <1>1, <1>2, SumInt

\* Who moves neither money nor recipients.
LEMMA BooksUntouched ==
    ASSUME WalletMatchesLedger, UNCHANGED <<wallet, credits, debits>>,
           \A p \in Payouts : payout'[p].recipient = payout[p].recipient
    PROVE  WalletMatchesLedger'
<1>1. \A v : OwnPayouts(v)' = OwnPayouts(v)
  BY DEF OwnPayouts
<1> QED  BY <1>1 DEF WalletMatchesLedger, OwnPayouts

LEMMA CreditBooked ==
    ASSUME IInv, WalletMatchesLedger, NEW v \in Vendors, NEW amount \in Amounts,
           CreditVendor(v, amount)
    PROVE  WalletMatchesLedger'
<1>1. SUFFICES ASSUME NEW w \in Vendors
               PROVE  credits'[w] = wallet'[w] + SumFunctionOnSet(debits', OwnPayouts(w)')
  BY DEF WalletMatchesLedger, OwnPayouts
<1>2. SumFunctionOnSet(debits', OwnPayouts(w)') = SumFunctionOnSet(debits, OwnPayouts(w))
  BY DEF CreditVendor, OwnPayouts
<1>3. credits[w] = wallet[w] + SumFunctionOnSet(debits, OwnPayouts(w))
  BY DEF WalletMatchesLedger, OwnPayouts
<1>4. /\ credits[w] \in Int /\ wallet[w] \in Int /\ amount \in Int
      /\ SumFunctionOnSet(debits, OwnPayouts(w)) \in Int
  BY DebitsSummed, PayoutsAssumption DEF IInv, TypeOK, Amounts
<1>5. /\ credits'[w] = credits[w] + (IF w = v THEN amount ELSE 0)
      /\ wallet'[w] = wallet[w] + (IF w = v THEN amount ELSE 0)
  BY <1>4 DEF CreditVendor, IInv, TypeOK
<1> QED  BY <1>2, <1>3, <1>4, <1>5

\* A payout has no debit when it gets its recipient.
LEMMA CreationBooked ==
    ASSUME IInv, WalletMatchesLedger, NEW p \in Payouts, NEW r \in Recipients,
           NEW amount \in Amounts, NEW start \in Days, NEW end \in Days,
           CreatePayout(p, r, amount, start, end)
    PROVE  WalletMatchesLedger'
<1>1. /\ UNCHANGED <<wallet, credits, debits>>
      /\ payout'[p].recipient = r
      /\ \A q \in Payouts \ {p} : payout'[q] = payout[q]
  BY DEF CreatePayout, ledger, IInv, TypeOK, NoPayout
<1>2. payout[p].recipient \notin Vendors /\ debits[p] = 0
  BY DEF IInv, RecipientsFixed, Recipients, DebitedOnce, CreatePayout, Exists, Settled
<1>3. SUFFICES ASSUME NEW v \in Vendors
               PROVE  SumFunctionOnSet(debits, OwnPayouts(v)')
                        = SumFunctionOnSet(debits, OwnPayouts(v))
  BY <1>1 DEF WalletMatchesLedger, OwnPayouts
<1>4. CASE v # r
  <2>1. OwnPayouts(v)' = OwnPayouts(v)
    BY <1>1, <1>2, <1>4 DEF OwnPayouts
  <2> QED  BY <2>1
<1>5. CASE v = r
  <2>1. OwnPayouts(v)' = OwnPayouts(v) \cup {p} /\ p \notin OwnPayouts(v)
    BY <1>1, <1>2, <1>5 DEF OwnPayouts
  <2>2. \A q \in OwnPayouts(v) \cup {p} : debits[q] \in Int
    BY <1>2, DebitsSummed
  <2>3. SumFunctionOnSet(debits, OwnPayouts(v) \cup {p})
          = SumFunctionOnSet(debits, OwnPayouts(v)) + debits[p]
    BY <2>1, <2>2, DebitsSummed, SumAdd
  <2> QED  BY <1>2, <2>1, <2>3, DebitsSummed
<1> QED  BY <1>4, <1>5

\* What leaves the wallet enters the ledger.
LEMMA PaymentBooked ==
    ASSUME IInv, IInv', WalletMatchesLedger, NEW p \in Payouts, NEW ref \in References,
           RecordPayment(p, ref)
    PROVE  WalletMatchesLedger'
<1> DEFINE v == payout[p].recipient
           amount == payout[p].amount
<1>1. \A q \in Payouts : payout'[q].recipient = payout[q].recipient
  BY DEF RecordPayment, Pay, IInv, TypeOK, PayoutRows
<1>2. credits' = credits
  BY DEF RecordPayment, Pay
<1>3. CASE ~ToVendor(p)
  BY <1>1, <1>2, <1>3, BooksUntouched DEF RecordPayment, Pay
<1>4. CASE ToVendor(p)
  <2>1. /\ v \in Vendors
        /\ wallet' = [wallet EXCEPT ![v] = @ - amount]
        /\ debits' = [debits EXCEPT ![p] = @ + amount]
    BY <1>4 DEF RecordPayment, Pay, ToVendor
  <2>2. \A w : OwnPayouts(w)' = OwnPayouts(w)
    BY <1>1 DEF OwnPayouts
  <2>3. SUFFICES ASSUME NEW w \in Vendors
                 PROVE  credits[w] = wallet'[w] + SumFunctionOnSet(debits', OwnPayouts(w))
    BY <1>2, <2>2 DEF WalletMatchesLedger, OwnPayouts
  <2>4. credits[w] = wallet[w] + SumFunctionOnSet(debits, OwnPayouts(w))
    BY DEF WalletMatchesLedger, OwnPayouts
  <2>5. /\ credits[w] \in Int /\ wallet[w] \in Int /\ amount \in Int /\ debits[p] \in Int
        /\ SumFunctionOnSet(debits, OwnPayouts(w)) \in Int
    BY DebitsSummed, RowColumns, PayoutsAssumption DEF IInv, TypeOK
  <2>6. \A q \in OwnPayouts(w) : debits[q] \in Int /\ debits'[q] \in Int
    BY <2>2, DebitsSummed DEF IInv, TypeOK, OwnPayouts
  <2>7. debits'[p] = debits[p] + amount /\ \A q \in Payouts \ {p} : debits'[q] = debits[q]
    BY <2>1 DEF IInv, TypeOK
  <2>8. IsFiniteSet(OwnPayouts(w))
    BY DebitsSummed
  <2>9. CASE w = v
    <3>1. p \in OwnPayouts(w)
      BY <2>9 DEF OwnPayouts
    <3>2. \A q \in OwnPayouts(w) \ {p} : debits[q] = debits'[q]
      BY <2>7 DEF OwnPayouts
    <3>3. SumFunctionOnSet(debits', OwnPayouts(w))
            = SumFunctionOnSet(debits, OwnPayouts(w)) + (debits'[p] - debits[p])
      BY <2>6, <2>8, <3>1, <3>2, SumChange
    <3>4. wallet'[w] = wallet[w] - amount
      BY <2>1, <2>9 DEF IInv, TypeOK
    <3> HIDE DEF amount, v
    <3> QED  BY <2>4, <2>5, <2>7, <3>3, <3>4
  <2>10. CASE w # v
    <3>1. \A q \in OwnPayouts(w) : debits[q] = debits'[q]
      BY <2>7, <2>10 DEF OwnPayouts
    <3>2. SumFunctionOnSet(debits, OwnPayouts(w)) = SumFunctionOnSet(debits', OwnPayouts(w))
      BY <2>8, <3>1, SumSame
    <3>3. wallet'[w] = wallet[w]
      BY <2>1, <2>10 DEF IInv, TypeOK
    <3> QED  BY <2>4, <3>2, <3>3
  <2> QED  BY <2>9, <2>10
<1> QED  BY <1>3, <1>4

LEMMA OthersUntouched ==
    ASSUME TypeOK, NEW p \in Payouts,
           \/ \E amount \in Amounts, start, end \in Days : EditPayout(p, amount, start, end)
           \/ SchedulePayout(p) \/ ForceVerify(p) \/ Recipient(p) \/ ADayPasses(p)
    PROVE  /\ UNCHANGED <<wallet, credits, debits>>
           /\ \A q \in Payouts : payout'[q].recipient = payout[q].recipient
<1>1. payout \in [Payouts -> PayoutRows]
  BY DEF TypeOK
<1>2. CASE \E amount \in Amounts, start, end \in Days : EditPayout(p, amount, start, end)
  <2>1. PICK amount \in Amounts, start \in Days, end \in Days : EditPayout(p, amount, start, end)
    BY <1>2
  <2>2. payout' = [payout EXCEPT ![p] =
            [@ EXCEPT !.amount = amount, !.start = start, !.end = end]]
    BY <2>1 DEF EditPayout
  <2>3. UNCHANGED <<wallet, credits, debits>>
    BY <2>1 DEF EditPayout, ledger
  <2> QED  BY <1>1, <2>2, <2>3 DEF PayoutRows
<1>3. CASE ADayPasses(p)
  BY <1>1, <1>3 DEF ADayPasses, ledger, PayoutRows
<1>4. CASE CourierApproveReads(p) \/ CourierVerifyReads(p)
  BY <1>4 DEF CourierApproveReads, CourierVerifyReads, ledger
<1>5. CASE \E s \in PayoutStatuses : SetStatus(p, s)
  BY <1>1, <1>5 DEF SetStatus, ledger, PayoutRows
<1>6. SchedulePayout(p) \/ ForceVerify(p) \/ Recipient(p) =>
         \/ CourierApproveReads(p) \/ CourierVerifyReads(p)
         \/ \E s \in PayoutStatuses : SetStatus(p, s)
  BY DEF SchedulePayout, ForceVerify, Recipient, VendorApproves, Declines, VendorVerifies,
         CourierApproveSaves, CourierVerifySaves, PayoutStatuses
<1> QED  BY <1>2, <1>3, <1>4, <1>5, <1>6

LEMMA BooksStep == IInv /\ IInv' /\ WalletMatchesLedger /\ [Next]_vars => WalletMatchesLedger'
<1> SUFFICES ASSUME IInv, IInv', WalletMatchesLedger, [Next]_vars
             PROVE  WalletMatchesLedger'
  OBVIOUS
<1>1. CASE UNCHANGED vars
  BY <1>1, BooksUntouched DEF vars
<1>2. ASSUME NEW v \in Vendors, NEW amount \in Amounts, CreditVendor(v, amount)
      PROVE  WalletMatchesLedger'
  BY <1>2, CreditBooked
<1>3. ASSUME NEW p \in Payouts, BackOffice(p) \/ Recipient(p) \/ ADayPasses(p)
      PROVE  WalletMatchesLedger'
  <2>1. CASE \E r \in Recipients, amount \in Amounts, start, end \in Days :
                CreatePayout(p, r, amount, start, end)
    BY <2>1, CreationBooked
  <2>2. CASE \E ref \in References : RecordPayment(p, ref)
    BY <2>2, PaymentBooked
  <2>3. CASE \/ \E amount \in Amounts, start, end \in Days : EditPayout(p, amount, start, end)
             \/ SchedulePayout(p) \/ ForceVerify(p) \/ Recipient(p) \/ ADayPasses(p)
    BY <2>3, OthersUntouched, BooksUntouched DEF IInv
  <2> QED  BY <1>3, <2>1, <2>2, <2>3 DEF BackOffice
<1> QED  BY <1>1, <1>2, <1>3 DEF Next

LEMMA BooksInit == Init => WalletMatchesLedger
<1> SUFFICES ASSUME Init, NEW v \in Vendors
             PROVE  credits[v] = wallet[v] + SumFunctionOnSet(debits, OwnPayouts(v))
  BY DEF WalletMatchesLedger, OwnPayouts
<1>1. OwnPayouts(v) = {}
  BY PayoutsAssumption DEF Init, NoPayout, OwnPayouts
<1>2. SumFunctionOnSet(debits, OwnPayouts(v)) = 0
  BY <1>1, SumEmpty
<1> QED  BY <1>2 DEF Init

\* For any number of vendors and payouts, what was credited to a vendor is in the
\* wallet or in the debits of the vendor's payouts.
THEOREM LedgerBalances == Spec => []WalletMatchesLedger
BY InitInv, StepInv, BooksInit, BooksStep, PTL DEF Spec
-----------------------------------------------------------------------------
(* Settled payouts carry a reference.                                      *)

\* EvidenceOfPayment must also hold of what a courier's verification has read: it
\* saves "verified" over whatever has become of the row, but the reference that a
\* payment left there stays.
Referenced(p) ==
    /\ payout[p].status \in {"none", "pending_approval", "failed"} => payout[p].ref = NoRef
    /\ Settled(p) \/ verifying[p] > 0 => payout[p].ref # NoRef

EInv == \A p \in Payouts : Referenced(p)

\* What one action does to the payout it is about.
LEMMA ReferenceKept ==
    ASSUME TypeOK, NEW p \in Payouts, Referenced(p), BackOffice(p) \/ Recipient(p) \/ ADayPasses(p)
    PROVE  Referenced(p)'
<1> USE DEF Referenced, Settled
<1>0. /\ payout \in [Payouts -> PayoutRows] /\ payout[p] \in PayoutRows
      /\ verifying \in [Payouts -> 0..MaxRequests] /\ verifying[p] \in Int
  BY PayoutsAssumption DEF TypeOK
<1>1. ASSUME NEW s, SetStatus(p, s)
      PROVE  payout'[p].status = s /\ payout'[p].ref = payout[p].ref
  BY <1>0, <1>1 DEF SetStatus, PayoutRows
<1>2. ASSUME UNCHANGED requests
      PROVE  verifying'[p] = verifying[p]
  BY <1>2 DEF requests
<1>3. CASE BackOffice(p)
  <2>1. ASSUME NEW r \in Recipients, NEW amount \in Amounts, NEW start \in Days, NEW end \in Days,
               CreatePayout(p, r, amount, start, end)
        PROVE  Referenced(p)'
    <3>1. payout'[p].ref = NoRef /\ payout'[p].status = "pending_approval"
      BY <1>0, <2>1 DEF CreatePayout, NoPayout
    <3>2. ~(verifying[p] > 0)
      BY <2>1 DEF CreatePayout, Exists
    <3> QED  BY <1>2, <2>1, <3>1, <3>2 DEF CreatePayout
  <2>2. ASSUME NEW amount \in Amounts, NEW start \in Days, NEW end \in Days,
               EditPayout(p, amount, start, end)
        PROVE  Referenced(p)'
    <3>1. payout'[p].ref = payout[p].ref /\ payout'[p].status = payout[p].status
      BY <1>0, <2>2 DEF EditPayout, PayoutRows
    <3> QED  BY <1>2, <2>2, <3>1 DEF EditPayout
  <2>3. ASSUME NEW ref \in References, RecordPayment(p, ref)
        PROVE  Referenced(p)'
    <3>1. payout'[p].ref = ref /\ payout'[p].status = "paid"
      BY <1>0, <2>3 DEF RecordPayment, Pay, PayoutRows
    <3> QED  BY <3>1, PayoutsAssumption
  <2>4. CASE SchedulePayout(p)
    BY <1>1, <1>2, <2>4 DEF SchedulePayout
  <2>5. CASE ForceVerify(p)
    BY <1>1, <1>2, <2>5 DEF ForceVerify
  <2> QED  BY <1>3, <2>1, <2>2, <2>3, <2>4, <2>5 DEF BackOffice
<1>4. CASE Recipient(p)
  <2>1. CASE VendorApproves(p)
    BY <1>1, <1>2, <2>1 DEF VendorApproves
  <2>2. CASE Declines(p)
    BY <1>1, <1>2, <2>2 DEF Declines
  <2>3. CASE VendorVerifies(p)
    BY <1>1, <1>2, <2>3 DEF VendorVerifies
  <2>4. CASE CourierApproveReads(p)
    BY <2>4 DEF CourierApproveReads
  <2>5. CASE CourierApproveSaves(p)
    BY <1>1, <2>5 DEF CourierApproveSaves
  <2>6. CASE CourierVerifyReads(p)
    BY <2>6 DEF CourierVerifyReads
  <2>7. CASE CourierVerifySaves(p)
    BY <1>1, <2>7 DEF CourierVerifySaves
  <2> QED  BY <1>4, <2>1, <2>2, <2>3, <2>4, <2>5, <2>6, <2>7 DEF Recipient
<1>5. CASE ADayPasses(p)
  <2>1. payout'[p].ref = payout[p].ref /\ payout'[p].status = payout[p].status
    BY <1>0, <1>5 DEF ADayPasses, PayoutRows
  <2> QED  BY <1>2, <1>5, <2>1 DEF ADayPasses
<1> QED  BY <1>3, <1>4, <1>5

\* No action touches another payout's row or its verifications.
LEMMA OthersKept ==
    ASSUME TypeOK, NEW p \in Payouts, NEW q \in Payouts \ {p},
           BackOffice(p) \/ Recipient(p) \/ ADayPasses(p)
    PROVE  payout'[q] = payout[q] /\ verifying'[q] = verifying[q]
BY DEF TypeOK, BackOffice, Recipient, CreatePayout, EditPayout, RecordPayment, Pay,
   SchedulePayout, ForceVerify, VendorApproves, Declines, VendorVerifies, CourierApproveReads,
   CourierApproveSaves, CourierVerifyReads, CourierVerifySaves, ADayPasses, SetStatus, requests

LEMMA EvidenceInit == Init => EInv
BY DEF Init, EInv, Referenced, Settled, NoPayout

LEMMA EvidenceStep == TypeOK /\ EInv /\ [Next]_vars => EInv'
<1> SUFFICES ASSUME TypeOK, EInv, [Next]_vars
             PROVE  EInv'
  OBVIOUS
<1>1. ASSUME NEW p \in Payouts, BackOffice(p) \/ Recipient(p) \/ ADayPasses(p)
      PROVE  EInv'
  <2> SUFFICES ASSUME NEW q \in Payouts PROVE Referenced(q)'
    BY DEF EInv
  <2>1. Referenced(q)
    BY DEF EInv
  <2>2. CASE q = p
    BY <1>1, <2>1, <2>2, ReferenceKept
  <2>3. CASE q # p
    <3>1. payout'[q] = payout[q] /\ verifying'[q] = verifying[q]
      BY <1>1, <2>3, OthersKept
    <3> QED  BY <2>1, <3>1 DEF Referenced, Settled
  <2> QED  BY <2>2, <2>3
<1>2. ASSUME UNCHANGED <<payout, verifying>>
      PROVE  EInv'
  BY <1>2 DEF EInv, Referenced, Settled
<1>3. ASSUME NEW v \in Vendors, NEW amount \in Amounts, CreditVendor(v, amount)
      PROVE  EInv'
  BY <1>2, <1>3 DEF CreditVendor, requests
<1>4. CASE UNCHANGED vars
  BY <1>2, <1>4 DEF vars
<1> QED  BY <1>1, <1>3, <1>4 DEF Next

\* However a courier's unlocked handlers interleave with the back office's, no
\* payout is settled without a payment reference, and none carries one that may
\* still be approved or was declined.
THEOREM SettledOnEvidence == Spec => []EvidenceOfPayment
<1>1. EInv => EvidenceOfPayment
  BY DEF EInv, Referenced, EvidenceOfPayment
<1> QED  BY <1>1, TypeCorrect, EvidenceInit, EvidenceStep, PTL DEF Spec
-----------------------------------------------------------------------------
(* Vendor payouts keep the contract.                                       *)

Phases == [p \in Payouts |-> PhaseOf(payout[p])]
TermsMap == [p \in Payouts |-> TermsOf(payout[p])]

\* One payout's row is all that its phase and terms depend on.
LEMMA OneRow ==
    ASSUME TypeOK, NEW p \in Payouts, NEW b, payout' = [payout EXCEPT ![p] = b]
    PROVE  /\ Phases' = [Phases EXCEPT ![p] = PhaseOf(b)]
           /\ TermsMap' = [TermsMap EXCEPT ![p] = TermsOf(b)]
<1>1. \A q \in Payouts : payout'[q] = IF q = p THEN b ELSE payout[q]
  BY DEF TypeOK
<1>2. Phases' = [q \in Payouts |-> PhaseOf(payout'[q])]
  BY DEF Phases, PhaseOf
<1>3. TermsMap' = [q \in Payouts |-> TermsOf(payout'[q])]
  BY DEF TermsMap, TermsOf
<1>4. \A q \in Payouts : /\ PhaseOf(payout'[q]) = IF q = p THEN PhaseOf(b) ELSE PhaseOf(payout[q])
                         /\ TermsOf(payout'[q]) = IF q = p THEN TermsOf(b) ELSE TermsOf(payout[q])
  BY <1>1
<1>5. Phases' = [Phases EXCEPT ![p] = PhaseOf(b)]
  BY <1>2, <1>4 DEF Phases
<1>6. TermsMap' = [TermsMap EXCEPT ![p] = TermsOf(b)]
  BY <1>3, <1>4 DEF TermsMap
<1> QED  BY <1>5, <1>6

\* Rows of the same phase and terms are the same to the contract; the rows of
\* a courier's payout always are.
LEMMA SameToContract ==
    ASSUME TypeOK, NEW p \in Payouts, NEW b, payout' = [payout EXCEPT ![p] = b],
           PhaseOf(b) = PhaseOf(payout[p]), TermsOf(b) = TermsOf(payout[p]),
           UNCHANGED wallet
    PROVE  UNCHANGED Contract!vars
<1>1. Phases' = Phases /\ TermsMap' = TermsMap
  BY OneRow DEF Phases, TermsMap
<1> QED  BY <1>1 DEF Contract!vars, Phases, TermsMap

LEMMA CouriersAbsent ==
    ASSUME NEW p, NEW b, b.recipient = payout[p].recipient, ~ToVendor(p)
    PROVE  PhaseOf(b) = PhaseOf(payout[p]) /\ TermsOf(b) = TermsOf(payout[p])
BY DEF ToVendor, PhaseOf, TermsOf

\* Setting a status.
LEMMA StatusToContract ==
    ASSUME TypeOK, NEW p \in Payouts, NEW s, SetStatus(p, s)
    PROVE  /\ payout' = [payout EXCEPT ![p] = [payout[p] EXCEPT !.status = s]]
           /\ [payout[p] EXCEPT !.status = s].status = s
           /\ [payout[p] EXCEPT !.status = s].recipient = payout[p].recipient
           /\ TermsOf([payout[p] EXCEPT !.status = s]) = TermsOf(payout[p])
           /\ UNCHANGED wallet
<1>1. payout[p] \in PayoutRows
  BY DEF TypeOK
<1> QED  BY <1>1 DEF SetStatus, ledger, TermsOf, PayoutRows

LEMMA StatusStutters ==
    ASSUME TypeOK, NEW p \in Payouts, NEW s, SetStatus(p, s),
           \/ ~ToVendor(p)
           \/ payout[p].status \in {"approved", "scheduled"} /\ s \in {"approved", "scheduled"}
           \/ Settled(p) /\ s \in {"paid", "verified"}
    PROVE  UNCHANGED Contract!vars
<1> DEFINE b == [payout[p] EXCEPT !.status = s]
<1>1. /\ payout' = [payout EXCEPT ![p] = b] /\ b.status = s
      /\ b.recipient = payout[p].recipient /\ TermsOf(b) = TermsOf(payout[p])
      /\ UNCHANGED wallet
  BY StatusToContract
<1> HIDE DEF b
<1>2. PhaseOf(b) = PhaseOf(payout[p])
  BY <1>1 DEF PhaseOf, ToVendor, Settled
<1> QED  BY <1>1, <1>2, SameToContract

LEMMA AnswerToContract ==
    ASSUME TypeOK, NEW p \in Payouts, NEW s, SetStatus(p, s), ToVendor(p),
           payout[p].status = "pending_approval",
           NEW answer \in {"agreed", "refused"},
           s = IF answer = "agreed" THEN "approved" ELSE "failed"
    PROVE  Contract!Answer(p, answer)
<1> DEFINE b == [payout[p] EXCEPT !.status = s]
<1>1. /\ payout' = [payout EXCEPT ![p] = b] /\ b.status = s
      /\ b.recipient = payout[p].recipient /\ TermsOf(b) = TermsOf(payout[p])
      /\ UNCHANGED wallet
  BY StatusToContract
<1> HIDE DEF b
<1>2. PhaseOf(b) = answer /\ PhaseOf(payout[p]) = "offered"
  BY <1>1 DEF PhaseOf, ToVendor
<1>3. Phases' = [Phases EXCEPT ![p] = answer] /\ TermsMap' = TermsMap
  <2>1. Phases' = [Phases EXCEPT ![p] = answer] /\ TermsMap' = [TermsMap EXCEPT ![p] = TermsOf(b)]
    BY <1>1, <1>2, OneRow
  <2> QED  BY <1>1, <2>1 DEF TermsMap
<1>4. Phases[p] = "offered"
  BY <1>2 DEF Phases
<1> QED  BY <1>1, <1>3, <1>4 DEF Contract!Answer, Phases, TermsMap

\* Terms put to a vendor.
LEMMA OfferToContract ==
    ASSUME TypeOK, NEW p \in Payouts, NEW b \in PayoutRows, payout' = [payout EXCEPT ![p] = b],
           UNCHANGED wallet, b.recipient \in Vendors, b.status = "pending_approval",
           b.start # 0, b.end # 0,
           PhaseOf(payout[p]) \in {"absent", "offered"}
    PROVE  Contract!Offer(p, TermsOf(b)) /\ TermsOf(b) \in Terms
<1>1. PhaseOf(b) = "offered"
  BY DEF PhaseOf
<1>2. Phases' = [Phases EXCEPT ![p] = "offered"] /\ TermsMap' = [TermsMap EXCEPT ![p] = TermsOf(b)]
  BY <1>1, OneRow
<1>3. Phases[p] \in {"absent", "offered"}
  BY DEF Phases
<1>4. Contract!Offer(p, TermsOf(b))
  BY <1>2, <1>3 DEF Contract!Offer, Phases, TermsMap
<1>5. TermsOf(b) \in Terms
  BY DEF TermsOf, Terms, PayoutRows
<1> QED  BY <1>4, <1>5

LEMMA PaymentToContract ==
    ASSUME IInv, NEW p \in Payouts, NEW ref \in References, RecordPayment(p, ref)
    PROVE  Contract!Settle(p) \/ UNCHANGED Contract!vars
<1> DEFINE b == [payout[p] EXCEPT !.status = "paid", !.ref = ref, !.sent = FirstDay]
<1>1. TypeOK /\ payout[p] \in PayoutRows
  BY DEF IInv, TypeOK
<1>2. payout' = [payout EXCEPT ![p] = b]
  BY DEF RecordPayment, Pay
<1>3. /\ b.status = "paid" /\ b.recipient = payout[p].recipient
      /\ TermsOf(b) = TermsOf(payout[p])
  BY <1>1 DEF PayoutRows, TermsOf
<1> HIDE DEF b
<1>4. CASE ~ToVendor(p)
  <2>1. UNCHANGED wallet
    BY <1>4 DEF RecordPayment, Pay
  <2> QED  BY <1>1, <1>2, <1>3, <1>4, <2>1, CouriersAbsent, SameToContract
<1>5. CASE ToVendor(p)
  <2>1. PhaseOf(b) = "settled" /\ PhaseOf(payout[p]) = "agreed"
    BY <1>3, <1>5 DEF PhaseOf, ToVendor, RecordPayment
  <2>2. Phases' = [Phases EXCEPT ![p] = "settled"] /\ TermsMap' = TermsMap
    <3>1. /\ Phases' = [Phases EXCEPT ![p] = "settled"]
          /\ TermsMap' = [TermsMap EXCEPT ![p] = TermsOf(b)]
      BY <1>1, <1>2, <2>1, OneRow
    <3> QED  BY <1>3, <3>1 DEF TermsMap
  <2>3. /\ Phases[p] = "agreed"
        /\ TermsMap[p].recipient = payout[p].recipient
        /\ TermsMap[p].amount = payout[p].amount
    BY <1>5, <2>1 DEF Phases, TermsMap, TermsOf, ToVendor
  <2>4. /\ payout[p].amount > 0
        /\ wallet[payout[p].recipient] >= payout[p].amount
        /\ wallet' = [wallet EXCEPT ![payout[p].recipient] = @ - payout[p].amount]
    BY <1>5 DEF RecordPayment, Covered, Pay
  <2>5. Contract!Settle(p)
    BY <2>2, <2>3, <2>4 DEF Contract!Settle, Phases, TermsMap
  <2> QED  BY <2>5
<1> QED  BY <1>4, <1>5

LEMMA BackOfficeToContract ==
    ASSUME IInv, NEW p \in Payouts, BackOffice(p)
    PROVE  [Contract!Next]_(Contract!vars)
<1>0. TypeOK /\ payout[p] \in PayoutRows
  BY DEF IInv, TypeOK
<1>1. ASSUME NEW r \in Recipients, NEW amount \in Amounts, NEW start \in Days, NEW end \in Days,
             CreatePayout(p, r, amount, start, end)
      PROVE  [Contract!Next]_(Contract!vars)
  <2> DEFINE b == [NoPayout EXCEPT !.status = "pending_approval", !.recipient = r,
                                   !.amount = amount, !.start = start, !.end = end]
  <2>1. /\ b \in PayoutRows /\ b.status = "pending_approval" /\ b.recipient = r
        /\ b.start = start /\ b.end = end
    <3>1. FirstDay \in FirstDay..Overdue /\ "pending_approval" \in PayoutStatuses
      BY DEF FirstDay, Overdue, PayoutStatuses
    <3> QED  BY <3>1 DEF NoPayout, PayoutRows
  <2>2. payout' = [payout EXCEPT ![p] = b] /\ UNCHANGED wallet
    BY <1>1 DEF CreatePayout, ledger
  <2> HIDE DEF b
  <2>3. payout[p].recipient \notin Vendors
    BY <1>1 DEF CreatePayout, IInv, RecipientsFixed, Recipients
  <2>4. CASE r \in Vendors
    <3>1. PhaseOf(payout[p]) = "absent"
      BY <2>3 DEF PhaseOf
    <3>2. b.start # 0 /\ b.end # 0
      BY <2>1, PayoutsAssumption DEF Days
    <3>3. Contract!Offer(p, TermsOf(b)) /\ TermsOf(b) \in Terms
      BY <1>0, <2>1, <2>2, <2>4, <3>1, <3>2, OfferToContract
    <3> QED  BY <3>3 DEF Contract!Next
  <2>5. CASE r \notin Vendors
    <3>1. PhaseOf(b) = PhaseOf(payout[p]) /\ TermsOf(b) = TermsOf(payout[p])
      BY <2>1, <2>3, <2>5 DEF PhaseOf, TermsOf
    <3> QED  BY <1>0, <2>2, <3>1, SameToContract
  <2> QED  BY <2>4, <2>5
<1>2. ASSUME NEW amount \in Amounts, NEW start \in Days, NEW end \in Days,
             EditPayout(p, amount, start, end)
      PROVE  [Contract!Next]_(Contract!vars)
  <2> DEFINE b == [payout[p] EXCEPT !.amount = amount, !.start = start, !.end = end]
  <2>1. /\ b \in PayoutRows /\ b.status = "pending_approval"
        /\ b.recipient = payout[p].recipient /\ b.start = start /\ b.end = end
    BY <1>0, <1>2 DEF EditPayout, PayoutRows
  <2>2. payout' = [payout EXCEPT ![p] = b] /\ UNCHANGED wallet
    BY <1>2 DEF EditPayout, ledger
  <2> HIDE DEF b
  <2>4. CASE ToVendor(p)
    <3>1. PhaseOf(payout[p]) = "offered" /\ b.recipient \in Vendors
      BY <1>2, <2>1, <2>4 DEF EditPayout, PhaseOf, ToVendor
    <3>2. b.start # 0 /\ b.end # 0
      BY <2>1, PayoutsAssumption DEF Days
    <3>3. Contract!Offer(p, TermsOf(b)) /\ TermsOf(b) \in Terms
      BY <1>0, <2>1, <2>2, <3>1, <3>2, OfferToContract
    <3> QED  BY <3>3 DEF Contract!Next
  <2>5. CASE ~ToVendor(p)
    BY <1>0, <2>1, <2>2, <2>5, CouriersAbsent, SameToContract
  <2> QED  BY <2>4, <2>5
<1>3. ASSUME NEW ref \in References, RecordPayment(p, ref)
      PROVE  [Contract!Next]_(Contract!vars)
  BY <1>3, PaymentToContract DEF Contract!Next
<1>4. CASE SchedulePayout(p)
  BY <1>0, <1>4, StatusStutters DEF SchedulePayout
<1>5. CASE ForceVerify(p)
  BY <1>0, <1>5, StatusStutters DEF ForceVerify, Settled
<1> QED  BY <1>1, <1>2, <1>3, <1>4, <1>5 DEF BackOffice

LEMMA RecipientToContract ==
    ASSUME IInv, NEW p \in Payouts, Recipient(p)
    PROVE  [Contract!Next]_(Contract!vars)
<1>0. TypeOK
  BY DEF IInv
<1>1. CASE VendorApproves(p)
  <2>1. Contract!Answer(p, "agreed")
    BY <1>0, <1>1, AnswerToContract DEF VendorApproves
  <2> QED  BY <2>1 DEF Contract!Next
<1>2. CASE Declines(p)
  <2>1. CASE ToVendor(p)
    <3>1. Contract!Answer(p, "refused")
      BY <1>0, <1>2, <2>1, AnswerToContract DEF Declines
    <3> QED  BY <3>1 DEF Contract!Next
  <2>2. CASE ~ToVendor(p)
    BY <1>0, <1>2, <2>2, StatusStutters DEF Declines
  <2> QED  BY <2>1, <2>2
<1>3. CASE VendorVerifies(p)
  BY <1>0, <1>3, StatusStutters DEF VendorVerifies, Settled
<1>4. CASE CourierApproveReads(p) \/ CourierVerifyReads(p)
  <2>1. UNCHANGED <<payout, wallet>>
    BY <1>4 DEF CourierApproveReads, CourierVerifyReads, ledger
  <2> QED  BY <2>1 DEF Contract!vars, PhaseOf, TermsOf
<1>5. ASSUME NEW s, SetStatus(p, s), approving[p] > 0 \/ verifying[p] > 0
      PROVE  UNCHANGED Contract!vars
  <2>1. ~ToVendor(p)
    BY <1>5, PayoutsAssumption DEF IInv, RecipientsFixed, ToVendor, ToCourier
  <2> QED  BY <1>0, <1>5, <2>1, StatusStutters
<1>6. CASE CourierApproveSaves(p) \/ CourierVerifySaves(p)
  BY <1>5, <1>6 DEF CourierApproveSaves, CourierVerifySaves
<1> QED  BY <1>1, <1>2, <1>3, <1>4, <1>6 DEF Recipient

LEMMA OtherToContract ==
    ASSUME IInv,
           \/ \E v \in Vendors, amount \in Amounts : CreditVendor(v, amount)
           \/ \E p \in Payouts : ADayPasses(p)
           \/ UNCHANGED vars
    PROVE  [Contract!Next]_(Contract!vars)
<1>1. ASSUME NEW v \in Vendors, NEW amount \in Amounts, CreditVendor(v, amount)
      PROVE  Contract!Next
  <2>1. /\ wallet' = [wallet EXCEPT ![v] = @ + amount] /\ UNCHANGED payout
        /\ wallet \in [Vendors -> 0..MaxEarned]
        /\ amount > 0 /\ amount \in Nat
    BY <1>1, PayoutsAssumption DEF CreditVendor, IInv, TypeOK, Amounts
  <2>2. wallet[v] \in Nat /\ wallet[v] + amount \in Nat /\ wallet[v] + amount > wallet[v]
    BY <2>1, PayoutsAssumption
  <2>3. /\ wallet' \in [Vendors -> Nat] /\ wallet'[v] > wallet[v]
        /\ \A other \in Vendors \ {v} : wallet'[other] = wallet[other]
    BY <2>1, <2>2, PayoutsAssumption
  <2>4. Contract!Earn(v)
    BY <2>1, <2>3 DEF Contract!Earn, PhaseOf, TermsOf
  <2> QED  BY <2>4 DEF Contract!Next
<1>2. ASSUME NEW p \in Payouts, ADayPasses(p)
      PROVE  UNCHANGED Contract!vars
  <2> DEFINE b == [payout[p] EXCEPT !.sent = @ + 1]
  <2>1. payout' = [payout EXCEPT ![p] = b] /\ UNCHANGED wallet
    BY <1>2 DEF ADayPasses, ledger
  <2>2. TypeOK /\ payout[p] \in PayoutRows
    BY DEF IInv, TypeOK
  <2>3. PhaseOf(b) = PhaseOf(payout[p]) /\ TermsOf(b) = TermsOf(payout[p])
    BY <2>2 DEF PhaseOf, TermsOf, PayoutRows
  <2> HIDE DEF b
  <2> QED  BY <2>1, <2>2, <2>3, SameToContract
<1>3. CASE UNCHANGED vars
  <2>1. UNCHANGED <<payout, wallet>>
    BY <1>3 DEF vars, ledger
  <2> QED  BY <2>1 DEF Contract!vars, PhaseOf, TermsOf
<1> QED  BY <1>1, <1>2, <1>3

LEMMA ContractStep == IInv /\ [Next]_vars => [Contract!Next]_(Contract!vars)
BY BackOfficeToContract, RecipientToContract, OtherToContract DEF Next

LEMMA ContractInit == Init => Contract!Init
BY PayoutsAssumption DEF Init, Contract!Init, NoPayout, PhaseOf, TermsOf, Recipients

\* Every behaviour of the payout handlers, as a vendor sees it, is one of
\* PayoutContract: the terms are frozen once agreed to, and the agreed amount
\* leaves a wallet that covers it, once.
THEOREM ContractImplemented == Spec => ImplementsContract
BY InitInv, StepInv, ContractStep, ContractInit, PTL
DEF Spec, ImplementsContract, Contract!Spec
-----------------------------------------------------------------------------
(***************************************************************************)
(* Wallets: balances never go below zero and come from somewhere, and a    *)
(* referral pays once.                                                     *)
(***************************************************************************)
\* Rows that exist belong to customers; an order that a checkout is making does not exist
\* yet, and no other checkout is making it; nobody referred himself.
Known ==
    /\ \A t \in TopUps : topup[t].at # "none" => topup[t].user \in Users
    /\ \A o \in Orders : /\ order[o].status # "none" => order[o].customer \in Users
                         /\ order[o].status = "none" => order[o].customer = NoUser
    /\ \A u \in Users : checkout[u].stage # "none" => /\ checkout[u].order \in Orders
                                                      /\ order[checkout[u].order].status = "none"
    /\ \A u, v \in Users : (checkout[u].stage # "none" /\ checkout[v].order = checkout[u].order) => u = v
    /\ \A u \in Users : referral[u].referrer # u

\* What a checkout holds under its locks is there.
HeldCovered == \A u \in Users : checkout[u].stage = "held" => /\ checkout[u].wallet <= balance[u]
                                                          /\ checkout[u].points <= points[u]

\* Points are earned and spent by orders that exist.
Placed == \A e \in tally : order[e.ref].status # "none"

\* Points that somebody else earned by a customer's order.
Bonuses(u) == {e \in tally : /\ e.type = "earn"
                             /\ order[e.ref].customer = u
                             /\ e.user # u}

BonusBook == \A u \in Users : IF referral[u].awarded THEN \E e : Bonuses(u) = {e}
                                                     ELSE Bonuses(u) = {}

WalletsInv == WalletsTypeOK /\ Known /\ HeldCovered /\ Placed /\ BonusBook
-----------------------------------------------------------------------------
(* Columns and amounts.                                                    *)

MoveRows == [user : Users, source : {"topup", "refund", "order_payment"},
             ref : Orders \cup TopUps, amount : Nat]

TallyRows == [user : Users, type : {"earn", "redeem"}, ref : Orders, points : Int]

OrderRows == [status : {"none", "open", "delivered", "cancelled"},
              customer : Users \cup {NoUser}, total : Nat, wallet : Nat, points : Nat]

CheckoutRows == [stage : {"none", "checked", "held"}, order : Orders \cup {NoOrder},
                 price : Nat, wallet : Nat, points : Nat]

\* The columns of the rows.
LEMMA Columns ==
    ASSUME WalletsTypeOK
    PROVE  /\ \A u \in Users : /\ balance[u] \in Nat
                               /\ points[u] \in Nat
                               /\ adjusted[u] \in Int
                               /\ referral[u].referrer \in Users \cup {NoUser}
                               /\ referral[u].awarded \in BOOLEAN
                               /\ checkout[u] \in CheckoutRows
                               /\ checkout[u].stage \in {"none", "checked", "held"}
                               /\ checkout[u].order \in Orders \cup {NoOrder}
                               /\ checkout[u].price \in Nat
                               /\ checkout[u].wallet \in Nat
                               /\ checkout[u].points \in Nat
           /\ \A o \in Orders : /\ order[o] \in OrderRows
                                /\ order[o].status \in {"none", "open", "delivered", "cancelled"}
                                /\ order[o].customer \in Users \cup {NoUser}
                                /\ order[o].total \in Nat
                                /\ order[o].wallet \in Nat
           /\ \A t \in TopUps : /\ topup[t].user \in Users \cup {NoUser}
                                /\ topup[t].amount \in Nat
           /\ tally \subseteq TallyRows
           /\ \A e \in tally : e.ref \in Orders
           /\ moves \subseteq MoveRows
BY DEF WalletsTypeOK, OrderRows, CheckoutRows, TallyRows, MoveRows

\* Points are whole numbers.
LEMMA AmountsCounted ==
    /\ \A n \in Nat : PointsFor(n) \in Nat
    /\ \A p, a \in Nat : Redeemable(p, a) \in Nat
    /\ BonusPoints = Bonus
    /\ Bonus \in Nat
<1>1. \A n \in Nat : n \div 4 \in Nat
  OBVIOUS
<1>2. \A n \in Nat : n \div 100 \in Nat
  OBVIOUS
<1>3. \A p \in Nat : p * 20 \in Nat
  OBVIOUS
<1>4. \A n \in Nat : PointsFor(n) \in Nat
  BY <1>1 DEF PointsFor
<1>5. \A p, a \in Nat : Redeemable(p, a) \in Nat
  BY <1>2, <1>3 DEF Redeemable
<1> QED
  BY <1>4, <1>5, WalletsAssumption DEF BonusPoints, PointsFor

\* A wallet is credited with a transaction, or is left alone.
LEMMA Credited ==
    ASSUME WalletsTypeOK, NEW u \in Users, NEW n \in Nat, NEW s \in {"topup", "refund"},
           NEW r \in Orders \cup TopUps, CreditWallet(u, n, s, r)
    PROVE  /\ balance' \in [Users -> Nat]
           /\ moves' \subseteq MoveRows
           /\ \A v \in Users : balance'[v] >= balance[v]
<1>1. CASE CreditExists(u, s, r)
  <2>1. balance' = balance /\ moves' = moves
    BY <1>1 DEF CreditWallet, purse
  <2> QED
    BY <2>1, Columns DEF WalletsTypeOK
<1>2. CASE ~CreditExists(u, s, r)
  <2>1. /\ balance' = [balance EXCEPT ![u] = balance[u] + n]
        /\ moves' = moves \cup {[user |-> u, source |-> s, ref |-> r, amount |-> n]}
    BY <1>2 DEF CreditWallet
  <2>2. [user |-> u, source |-> s, ref |-> r, amount |-> n] \in MoveRows
    BY DEF MoveRows
  <2>3. balance' \in [Users -> Nat] /\ \A v \in Users : balance'[v] >= balance[v]
    BY <2>1, Columns DEF WalletsTypeOK
  <2> QED
    BY <2>1, <2>2, <2>3, Columns
<1> QED
  BY <1>1, <1>2

\* Nothing has happened.
LEMMA WalletsInitInv == WalletsInit => WalletsInv
<1> SUFFICES ASSUME WalletsInit PROVE WalletsInv
  OBVIOUS
<1>1. WalletsTypeOK
  BY DEF WalletsInit, WalletsTypeOK, NoTopUp, NoReferral, NewOrder, NoCheckout
<1>2. Known
  BY WalletsAssumption DEF WalletsInit, Known, NoTopUp, NoReferral, NewOrder, NoCheckout
<1>3. HeldCovered /\ Placed
  BY DEF WalletsInit, HeldCovered, Placed, NoCheckout
<1>4. BonusBook
  BY DEF WalletsInit, BonusBook, Bonuses, NoReferral
<1> QED
  BY <1>1, <1>2, <1>3, <1>4 DEF WalletsInv
-----------------------------------------------------------------------------
(* Steps that neither place nor change an order.                           *)

\* What the orders, the points' book and the referrals say stays.
LEMMA SameBook ==
    ASSUME BonusBook, Placed, UNCHANGED <<order, tally, referral>>
    PROVE  BonusBook' /\ Placed'
BY DEF BonusBook, Placed, Bonuses

\* A top-up that is opened credits nothing.
LEMMA InitiateStep ==
    ASSUME WalletsInv, NEW t \in TopUps, NEW u \in Users, NEW n \in Loads, InitiateWalletTopUp(t, u, n)
    PROVE  WalletsInv'
<1>1. n \in Nat
  BY WalletsAssumption
<1>2. WalletsTypeOK'
  BY <1>1 DEF InitiateWalletTopUp, WalletsInv, WalletsTypeOK, purse, account
<1>3. Known' /\ HeldCovered'
  BY DEF InitiateWalletTopUp, WalletsInv, WalletsTypeOK, Known, HeldCovered, purse, account
<1>4. BonusBook' /\ Placed'
  BY SameBook DEF InitiateWalletTopUp, WalletsInv, account
<1> QED
  BY <1>2, <1>3, <1>4 DEF WalletsInv

\* Nor does one that the gateway captures.
LEMMA CaptureStep == ASSUME WalletsInv, NEW t \in TopUps, Capture(t) PROVE WalletsInv'
<1>1. WalletsTypeOK'
  BY DEF Capture, WalletsInv, WalletsTypeOK, purse, account
<1>2. Known' /\ HeldCovered'
  BY DEF Capture, WalletsInv, WalletsTypeOK, Known, HeldCovered, purse, account
<1>3. BonusBook' /\ Placed'
  BY SameBook DEF Capture, WalletsInv, account
<1> QED
  BY <1>1, <1>2, <1>3 DEF WalletsInv

\* A captured top-up only adds to the wallet.
LEMMA VerifyStep == ASSUME WalletsInv, NEW t \in TopUps, VerifyWalletTopUp(t) PROVE WalletsInv'
<1>1. /\ topup[t].user \in Users /\ topup[t].amount \in Nat
      /\ CreditWallet(topup[t].user, topup[t].amount, "topup", t)
      /\ topup' = [topup EXCEPT ![t].credited = TRUE]
      /\ UNCHANGED <<points, tally, adjusted, referral, order, checkout>>
  BY Columns DEF VerifyWalletTopUp, WalletsInv, Known, account
<1>2. /\ balance' \in [Users -> Nat]
      /\ moves' \subseteq MoveRows
      /\ \A v \in Users : balance'[v] >= balance[v]
  BY <1>1, Credited DEF WalletsInv
<1>3. WalletsTypeOK'
  <2>1. topup' \in [TopUps -> [at : {"none", "open", "captured"}, user : Users \cup {NoUser},
                               amount : Nat, credited : BOOLEAN]]
    <3>1. topup \in [TopUps -> [at : {"none", "open", "captured"}, user : Users \cup {NoUser},
                                amount : Nat, credited : BOOLEAN]]
      BY DEF WalletsInv, WalletsTypeOK
    <3>2. [topup[t] EXCEPT !.credited = TRUE] \in
             [at : {"none", "open", "captured"}, user : Users \cup {NoUser},
              amount : Nat, credited : BOOLEAN]
      BY <3>1
    <3> QED
      BY <1>1, <3>1, <3>2
  <2> QED
    BY <1>1, <1>2, <2>1 DEF WalletsInv, WalletsTypeOK, MoveRows
<1>4. Known'
  BY <1>1 DEF WalletsInv, WalletsTypeOK, Known
<1>5. HeldCovered'
  BY <1>1, <1>2, Columns DEF WalletsInv, HeldCovered, WalletsTypeOK
<1>6. BonusBook' /\ Placed'
  BY <1>1, SameBook DEF WalletsInv
<1> QED
  BY <1>3, <1>4, <1>5, <1>6 DEF WalletsInv

\* A code that is entered has paid nothing.
LEMMA ReferralStep ==
    ASSUME WalletsInv, NEW u \in Users, NEW r \in Users, ApplyReferralCode(u, r)
    PROVE  WalletsInv'
<1>1. WalletsTypeOK'
  BY DEF ApplyReferralCode, WalletsInv, WalletsTypeOK, purse, account
<1>2. Known' /\ HeldCovered' /\ Placed'
  BY DEF ApplyReferralCode, WalletsInv, WalletsTypeOK, Known, HeldCovered, Placed, purse, account
<1>3. \A v \in Users : referral'[v].awarded = referral[v].awarded /\ Bonuses(v)' = Bonuses(v)
  BY DEF ApplyReferralCode, WalletsInv, WalletsTypeOK, Bonuses, account
<1>4. BonusBook'
  BY <1>3 DEF WalletsInv, BonusBook
<1> QED
  BY <1>1, <1>2, <1>4 DEF WalletsInv

\* An account whose points no checkout holds may gain or lose some, if there are as many.
LEMMA AdjustStep ==
    ASSUME WalletsInv, NEW u \in Users, NEW n \in Adjustments, CreditPoints(u, n) \/ DebitPoints(u, n)
    PROVE  WalletsInv'
<1>1. /\ n \in Nat
      /\ ~PointsHeld(u)
      /\ points' \in [Users -> Nat]
      /\ adjusted' \in [Users -> Int]
      /\ \A v \in Users : v # u => points'[v] = points[v]
      /\ UNCHANGED <<balance, moves, topup, tally, referral, order, checkout>>
  <2>1. n \in Nat /\ points[u] \in Nat /\ adjusted[u] \in Int
    BY WalletsAssumption, Columns DEF WalletsInv
  <2>2. CASE CreditPoints(u, n)
    BY <2>1, <2>2 DEF CreditPoints, WalletsInv, WalletsTypeOK, purse
  <2>3. CASE DebitPoints(u, n)
    BY <2>1, <2>3 DEF DebitPoints, WalletsInv, WalletsTypeOK, purse
  <2> QED
    BY <2>2, <2>3
<1>2. WalletsTypeOK'
  BY <1>1 DEF WalletsInv, WalletsTypeOK
<1>3. Known'
  BY <1>1 DEF WalletsInv, Known
<1>4. HeldCovered'
  <2> SUFFICES ASSUME NEW v \in Users, checkout[v].stage = "held"
               PROVE  checkout[v].wallet <= balance[v] /\ checkout[v].points <= points'[v]
    BY <1>1 DEF HeldCovered
  <2>1. v = u => checkout[v].points = 0
    BY <1>1, Columns DEF PointsHeld, WalletsInv
  <2>2. points'[v] \in Nat
    BY <1>1
  <2> QED
    BY <1>1, <2>1, <2>2 DEF WalletsInv, HeldCovered
<1>5. BonusBook' /\ Placed'
  BY <1>1, SameBook DEF WalletsInv
<1> QED
  BY <1>2, <1>3, <1>4, <1>5 DEF WalletsInv

\* A checkout that has read the balances holds nothing yet.
LEMMA CheckStep ==
    ASSUME WalletsInv, NEW u \in Users, NEW o \in Orders, NEW price \in Prices, NEW s \in Spends,
           NEW a \in Spends, CheckBalances(u, o, price, s, a)
    PROVE  WalletsInv'
<1> DEFINE c == [stage |-> "checked", order |-> o, price |-> price, wallet |-> s,
                 points |-> Redeemable(price, a)]
<1>1. c \in CheckoutRows
  BY WalletsAssumption, AmountsCounted DEF CheckoutRows
<1>2. /\ checkout' = [checkout EXCEPT ![u] = c]
      /\ order[o].status = "none"
      /\ \A v \in Users : checkout[v].order # o
      /\ UNCHANGED <<balance, moves, topup, points, tally, adjusted, referral, order>>
  BY DEF CheckBalances, purse, account
<1>3. WalletsTypeOK'
  BY <1>1, <1>2 DEF WalletsInv, WalletsTypeOK, CheckoutRows
<1>4. c.stage = "checked" /\ c.order = o
  OBVIOUS
<1> HIDE DEF c
<1>5. Known'
  BY <1>2, <1>4 DEF WalletsInv, WalletsTypeOK, Known
<1>6. HeldCovered'
  BY <1>2, <1>4 DEF WalletsInv, WalletsTypeOK, HeldCovered
<1>7. BonusBook' /\ Placed'
  BY <1>2, SameBook DEF WalletsInv
<1> QED
  BY <1>3, <1>5, <1>6, <1>7 DEF WalletsInv

\* What is held was looked at under the locks.
LEMMA HoldStep == ASSUME WalletsInv, NEW u \in Users, HoldBalances(u) PROVE WalletsInv'
<1>1. WalletsTypeOK'
  BY DEF HoldBalances, WalletsInv, WalletsTypeOK, purse, account
<1>2. Known'
  BY DEF HoldBalances, WalletsInv, WalletsTypeOK, Known, purse, account
<1>3. HeldCovered'
  BY DEF HoldBalances, WalletsInv, WalletsTypeOK, HeldCovered, purse, account
<1>4. BonusBook' /\ Placed'
  BY SameBook DEF HoldBalances, WalletsInv, account
<1> QED
  BY <1>1, <1>2, <1>3, <1>4 DEF WalletsInv

\* A checkout that fails leaves no trace.
LEMMA RollBackStep == ASSUME WalletsInv, NEW u \in Users, RollBack(u) PROVE WalletsInv'
<1>1. /\ checkout' = [checkout EXCEPT ![u] = NoCheckout]
      /\ UNCHANGED <<balance, moves, topup, points, tally, adjusted, referral, order>>
  BY DEF RollBack, purse, account
<1>2. WalletsTypeOK'
  BY <1>1 DEF WalletsInv, WalletsTypeOK, NoCheckout
<1>3. Known'
  BY <1>1, WalletsAssumption DEF WalletsInv, WalletsTypeOK, Known, NoCheckout
<1>4. HeldCovered'
  BY <1>1 DEF WalletsInv, WalletsTypeOK, HeldCovered, NoCheckout
<1>5. BonusBook' /\ Placed'
  BY <1>1, SameBook DEF WalletsInv
<1> QED
  BY <1>2, <1>3, <1>4, <1>5 DEF WalletsInv
-----------------------------------------------------------------------------
(* Placing an order.                                                       *)

\* The order is the customer's, the wallet pays what was held, and nobody else's row
\* changes.
LEMMA Placing ==
    ASSUME WalletsInv, NEW u \in Users, checkout[u].stage = "held", PlaceOrder(u)
    PROVE  LET o == checkout[u].order IN
           /\ o \in Orders
           /\ order[o].status = "none"
           /\ balance' \in [Users -> Nat]
           /\ moves' \subseteq MoveRows
           /\ order' \in [Orders -> OrderRows]
           /\ order'[o].status = "open"
           /\ order'[o].customer = u
           /\ \A p \in Orders : p # o => order'[p] = order[p]
           /\ checkout' \in [Users -> CheckoutRows]
           /\ checkout'[u] = NoCheckout
           /\ \A v \in Users : v # u => checkout'[v] = checkout[v] /\ balance'[v] = balance[v]
<1> DEFINE c == checkout[u]
           o == c.order
           m == [user |-> u, source |-> "order_payment", ref |-> o, amount |-> c.wallet]
           row == [status |-> "open", customer |-> u, total |-> Payable(c),
                   wallet |-> c.wallet, points |-> c.points]
<1>1. o \in Orders /\ order[o].status = "none"
  BY DEF WalletsInv, Known
<1>2. /\ c.price \in Nat /\ c.wallet \in Nat /\ c.points \in Nat
      /\ c.wallet <= balance[u] /\ balance[u] \in Nat
  BY Columns DEF WalletsInv, HeldCovered
<1>3. Payable(c) \in Nat
  BY <1>2 DEF Payable
<1>4. row \in OrderRows
  BY <1>2, <1>3 DEF OrderRows
<1>5. /\ order' = [order EXCEPT ![o] = row]
      /\ balance' = [balance EXCEPT ![u] = balance[u] - c.wallet]
      /\ moves' = IF c.wallet = 0 THEN moves ELSE moves \cup {m}
      /\ checkout' = [checkout EXCEPT ![u] = NoCheckout]
  BY DEF PlaceOrder
<1>6. balance' \in [Users -> Nat] /\ \A v \in Users : v # u => balance'[v] = balance[v]
  BY <1>2, <1>5 DEF WalletsInv, WalletsTypeOK
<1>7. moves' \subseteq MoveRows
  <2>1. m \in MoveRows
    BY <1>1, <1>2 DEF MoveRows
  <2>2. moves \subseteq MoveRows
    BY Columns DEF WalletsInv
  <2> QED
    BY <1>5, <2>1, <2>2
<1>8. row.status = "open" /\ row.customer = u
  OBVIOUS
<1> HIDE DEF row
<1>9. /\ order' \in [Orders -> OrderRows]
      /\ order'[o].status = "open"
      /\ order'[o].customer = u
      /\ \A p \in Orders : p # o => order'[p] = order[p]
  BY <1>1, <1>4, <1>5, <1>8 DEF WalletsInv, WalletsTypeOK, OrderRows
<1>10. NoCheckout \in CheckoutRows
  BY DEF NoCheckout, CheckoutRows
<1>11. /\ checkout' \in [Users -> CheckoutRows]
       /\ checkout'[u] = NoCheckout
       /\ \A v \in Users : v # u => checkout'[v] = checkout[v]
  BY <1>5, <1>10 DEF WalletsInv, WalletsTypeOK, CheckoutRows
<1> QED
  BY <1>1, <1>6, <1>7, <1>9, <1>11

\* With the points settled, an order that was placed leaves all in order but the bonus.
LEMMA PlacedStep ==
    ASSUME WalletsInv, NEW u \in Users, checkout[u].stage = "held", PlaceOrder(u),
           UNCHANGED <<topup, adjusted>>,
           points' \in [Users -> Nat],
           \A v \in Users : v # u => points'[v] >= points[v],
           tally' \subseteq TallyRows,
           \A e \in tally' : e \in tally \/ e.ref = checkout[u].order,
           referral' \in [Users -> [referrer : Users \cup {NoUser}, awarded : BOOLEAN]],
           \A v \in Users : referral'[v].referrer = referral[v].referrer
    PROVE  WalletsTypeOK' /\ Known' /\ HeldCovered' /\ Placed'
<1> DEFINE o == checkout[u].order
<1>1. /\ o \in Orders
      /\ order[o].status = "none"
      /\ balance' \in [Users -> Nat]
      /\ moves' \subseteq MoveRows
      /\ order' \in [Orders -> OrderRows]
      /\ order'[o].status = "open"
      /\ order'[o].customer = u
      /\ \A p \in Orders : p # o => order'[p] = order[p]
      /\ checkout' \in [Users -> CheckoutRows]
      /\ checkout'[u] = NoCheckout
      /\ \A v \in Users : v # u => checkout'[v] = checkout[v] /\ balance'[v] = balance[v]
  BY Placing
<1>2. WalletsTypeOK'
  BY <1>1 DEF WalletsInv, WalletsTypeOK, MoveRows, TallyRows, OrderRows, CheckoutRows
<1>3. NoCheckout.stage = "none" /\ NoCheckout.order = NoOrder
  BY DEF NoCheckout
<1>4. \A v \in Users : v # u /\ checkout[v].stage # "none" =>
        checkout[v].order # o /\ checkout[v].order \in Orders
  BY DEF WalletsInv, Known
<1>5. Known'
  <2>1. \A t \in TopUps : topup'[t].at # "none" => topup'[t].user \in Users
    BY DEF WalletsInv, Known
  <2>2. \A p \in Orders : /\ order'[p].status # "none" => order'[p].customer \in Users
                          /\ order'[p].status = "none" => order'[p].customer = NoUser
    BY <1>1 DEF WalletsInv, Known
  <2>3. \A v \in Users : checkout'[v].stage # "none" =>
            checkout'[v].order \in Orders /\ order'[checkout'[v].order].status = "none"
    BY <1>1, <1>3, <1>4 DEF WalletsInv, Known
  <2>4. \A v, w \in Users : (checkout'[v].stage # "none" /\ checkout'[w].order = checkout'[v].order) => v = w
    BY <1>1, <1>3, <1>4, WalletsAssumption DEF WalletsInv, Known
  <2>5. \A v \in Users : referral'[v].referrer # v
    BY DEF WalletsInv, Known
  <2> QED
    BY <2>1, <2>2, <2>3, <2>4, <2>5 DEF Known
<1>6. HeldCovered'
  <2> SUFFICES ASSUME NEW v \in Users, checkout'[v].stage = "held"
               PROVE  checkout'[v].wallet <= balance'[v] /\ checkout'[v].points <= points'[v]
    BY DEF HeldCovered
  <2>1. v # u
    BY <1>1, <1>3
  <2>2. checkout'[v] = checkout[v] /\ balance'[v] = balance[v] /\ points'[v] >= points[v]
    BY <1>1, <2>1
  <2>3. checkout[v].wallet <= balance[v] /\ checkout[v].points <= points[v]
    BY <2>2 DEF WalletsInv, HeldCovered
  <2>4. checkout[v].points \in Nat /\ points[v] \in Nat /\ points'[v] \in Nat
    BY Columns DEF WalletsInv
  <2> QED
    BY <2>2, <2>3, <2>4
<1>7. Placed'
  <2> SUFFICES ASSUME NEW e \in tally' PROVE order'[e.ref].status # "none"
    BY DEF Placed
  <2>1. CASE e.ref = o
    BY <1>1, <2>1
  <2>2. CASE e \in tally /\ e.ref # o
    BY <1>1, <2>2, Columns DEF WalletsInv, Placed
  <2> QED
    BY <2>1, <2>2
<1> QED
  BY <1>2, <1>5, <1>6, <1>7

\* What points an order spends.
LEMMA Spent ==
    ASSUME WalletsInv, NEW u \in Users, checkout[u].stage = "held"
    PROVE  /\ Redeemed(u) \subseteq TallyRows
           /\ \A e \in Redeemed(u) : e.type = "redeem" /\ e.ref = checkout[u].order
           /\ points[u] - checkout[u].points \in Nat
<1>1. /\ checkout[u].points \in Nat /\ points[u] \in Nat /\ checkout[u].points <= points[u]
      /\ checkout[u].order \in Orders
  BY Columns DEF WalletsInv, Known, HeldCovered
<1>2. 0 - checkout[u].points \in Int
  BY <1>1
<1> QED
  BY <1>1, <1>2 DEF Redeemed, TallyRows

\* No entry is about an order that does not exist.
LEMMA OldBonuses ==
    ASSUME WalletsInv, NEW u \in Users, checkout[u].stage = "held", PlaceOrder(u)
    PROVE  /\ \A e \in tally : e.ref # checkout[u].order /\ order'[e.ref] = order[e.ref]
           /\ order'[checkout[u].order].customer = u
<1>1. /\ order[checkout[u].order].status = "none"
      /\ order'[checkout[u].order].customer = u
      /\ \A p \in Orders : p # checkout[u].order => order'[p] = order[p]
  BY Placing
<1>2. \A e \in tally : e.ref \in Orders /\ order[e.ref].status # "none"
  BY Columns DEF WalletsInv, Placed
<1> QED
  BY <1>1, <1>2

\* An order without a bonus, because none is due or the database refused it.
LEMMA PlainStep ==
    ASSUME WalletsInv, NEW u \in Users, CommitCheckout(u) \/ CommitAfterDeadlock(u)
    PROVE  WalletsInv'
<1>1. /\ checkout[u].stage = "held"
      /\ PlaceOrder(u)
      /\ points' = [points EXCEPT ![u] = points[u] - checkout[u].points]
      /\ tally' = tally \cup Redeemed(u)
      /\ UNCHANGED <<topup, adjusted, referral>>
  BY DEF CommitCheckout, CommitAfterDeadlock, PointsHeld
<1>2. points' \in [Users -> Nat] /\ \A v \in Users : v # u => points'[v] >= points[v]
  <2>1. points[u] - checkout[u].points \in Nat
    BY <1>1, Spent
  <2>2. \A v \in Users : points[v] \in Nat
    BY Columns DEF WalletsInv
  <2> QED
    BY <1>1, <2>1, <2>2 DEF WalletsInv, WalletsTypeOK
<1>3. /\ tally' \subseteq TallyRows
      /\ \A e \in tally' : e \in tally \/ (e.ref = checkout[u].order /\ e.type = "redeem")
  BY <1>1, Spent, Columns DEF WalletsInv
<1>4. /\ referral' \in [Users -> [referrer : Users \cup {NoUser}, awarded : BOOLEAN]]
      /\ \A v \in Users : referral'[v].referrer = referral[v].referrer
  BY <1>1 DEF WalletsInv, WalletsTypeOK
<1>5. WalletsTypeOK' /\ Known' /\ HeldCovered' /\ Placed'
  BY <1>1, <1>2, <1>3, <1>4, PlacedStep
<1>6. \A v \in Users : Bonuses(v)' = Bonuses(v)
  <2>1. \A e \in tally : order'[e.ref] = order[e.ref]
    BY <1>1, OldBonuses
  <2> QED
    BY <1>1, <1>3, <2>1 DEF Bonuses
<1>7. BonusBook'
  BY <1>1, <1>6 DEF WalletsInv, BonusBook
<1> QED
  BY <1>5, <1>7 DEF WalletsInv

\* The first order of a customer who was referred: the bonus is the only one.
LEMMA BonusStep == ASSUME WalletsInv, NEW u \in Users, CommitWithBonus(u) PROVE WalletsInv'
<1> DEFINE r == referral[u].referrer
           o == checkout[u].order
           e == [user |-> r, type |-> "earn", ref |-> o, points |-> Bonus]
<1>1. /\ checkout[u].stage = "held"
      /\ r # NoUser
      /\ ~referral[u].awarded
      /\ PlaceOrder(u)
      /\ points' = [points EXCEPT ![u] = points[u] - checkout[u].points,
                                  ![r] = points[r] + BonusPoints]
      /\ tally' = tally \cup Redeemed(u) \cup {e}
      /\ referral' = [referral EXCEPT ![u].awarded = TRUE]
      /\ UNCHANGED <<topup, adjusted>>
  <2>1. /\ checkout[u].stage = "held"
        /\ BonusDue(u)
        /\ PlaceOrder(u)
        /\ tally' = tally \cup Redeemed(u) \cup {e}
        /\ UNCHANGED <<topup, adjusted>>
    BY DEF CommitWithBonus
  <2>2. referral' = [referral EXCEPT ![u].awarded = TRUE]
    BY DEF CommitWithBonus
  <2>3. points' = [points EXCEPT ![u] = points[u] - checkout[u].points,
                                 ![r] = points[r] + BonusPoints]
    BY DEF CommitWithBonus
  <2> QED
    BY <2>1, <2>2, <2>3 DEF BonusDue
<1>2. r \in Users /\ r # u /\ o \in Orders
  BY <1>1, Columns DEF WalletsInv, Known
<1>3. points' \in [Users -> Nat] /\ \A v \in Users : v # u => points'[v] >= points[v]
  <2>1. points[u] - checkout[u].points \in Nat /\ points[r] + BonusPoints \in Nat
    BY <1>1, <1>2, Spent, Columns, AmountsCounted DEF WalletsInv
  <2>2. \A v \in Users : points[v] \in Nat
    BY Columns DEF WalletsInv
  <2>3. BonusPoints \in Nat
    BY AmountsCounted
  <2> QED
    BY <1>1, <1>2, <2>1, <2>2, <2>3 DEF WalletsInv, WalletsTypeOK
<1>4. e \in TallyRows /\ e.type = "earn" /\ e.ref = o /\ e.user = r
  <2>1. Bonus \in Int
    BY WalletsAssumption
  <2> QED
    BY <1>2, <2>1 DEF TallyRows
<1> HIDE DEF e
<1>5. /\ tally' \subseteq TallyRows
      /\ \A f \in tally' : f \in tally \/ (f.ref = o /\ f.type = "redeem") \/ f = e
  BY <1>1, <1>4, Spent, Columns DEF WalletsInv
<1>6. /\ referral' \in [Users -> [referrer : Users \cup {NoUser}, awarded : BOOLEAN]]
      /\ \A v \in Users : referral'[v].referrer = referral[v].referrer
      /\ \A v \in Users : v # u => referral'[v].awarded = referral[v].awarded
      /\ referral'[u].awarded
  BY <1>1 DEF WalletsInv, WalletsTypeOK
<1>7. WalletsTypeOK' /\ Known' /\ HeldCovered' /\ Placed'
  BY <1>1, <1>3, <1>4, <1>5, <1>6, PlacedStep
<1>8. /\ \A f \in tally : order'[f.ref] = order[f.ref]
      /\ order'[o].customer = u
  BY <1>1, OldBonuses
<1>9. \A v \in Users : v # u => Bonuses(v)' = Bonuses(v)
  BY <1>1, <1>4, <1>5, <1>8 DEF Bonuses
<1>10. Bonuses(u)' = Bonuses(u) \cup {e}
  BY <1>1, <1>2, <1>4, <1>5, <1>8 DEF Bonuses
<1>11. Bonuses(u) = {}
  BY <1>1 DEF WalletsInv, BonusBook
<1>12. BonusBook'
  BY <1>6, <1>9, <1>10, <1>11 DEF WalletsInv, BonusBook
<1> QED
  BY <1>7, <1>12 DEF WalletsInv
-----------------------------------------------------------------------------
(* The end of an order.                                                    *)

\* An order that was placed changes its status and nothing else.
LEMMA Closing ==
    ASSUME WalletsInv, NEW o \in Orders, NEW s \in {"delivered", "cancelled"},
           order[o].status = "open", order' = [order EXCEPT ![o].status = s],
           UNCHANGED <<topup, referral, checkout>>
    PROVE  /\ order' \in [Orders -> OrderRows]
           /\ order[o].customer \in Users
           /\ \A p \in Orders : /\ order'[p].customer = order[p].customer
                                /\ order'[p].status = "none" <=> order[p].status = "none"
           /\ Known'
<1>1. order' \in [Orders -> OrderRows]
  <2>1. [order[o] EXCEPT !.status = s] \in OrderRows
    BY Columns DEF WalletsInv, OrderRows
  <2> QED
    BY <2>1 DEF WalletsInv, WalletsTypeOK, OrderRows
<1>2. \A p \in Orders : /\ order'[p].customer = order[p].customer
                        /\ order'[p].status = "none" <=> order[p].status = "none"
  BY DEF WalletsInv, WalletsTypeOK
<1>3. order[o].customer \in Users
  BY DEF WalletsInv, Known
<1>4. Known'
  BY <1>2 DEF WalletsInv, Known
<1> QED
  BY <1>1, <1>2, <1>3, <1>4

\* A customer's own points for a delivered order are no bonus.
LEMMA DeliverStep == ASSUME WalletsInv, NEW o \in Orders, Deliver(o) PROVE WalletsInv'
<1> DEFINE u == order[o].customer
           n == PointsFor(order[o].total)
           e == [user |-> u, type |-> "earn", ref |-> o, points |-> n]
<1>1. /\ order[o].status = "open"
      /\ ~PointsHeld(u)
      /\ order' = [order EXCEPT ![o].status = "delivered"]
      /\ \/ UNCHANGED <<points, tally>>
         \/ points' = [points EXCEPT ![u] = points[u] + n] /\ tally' = tally \cup {e}
      /\ UNCHANGED <<balance, moves, topup, adjusted, referral, checkout>>
  BY DEF Deliver, purse
<1>2. /\ order' \in [Orders -> OrderRows]
      /\ u \in Users
      /\ \A p \in Orders : /\ order'[p].customer = order[p].customer
                           /\ order'[p].status = "none" <=> order[p].status = "none"
      /\ Known'
  BY <1>1, Closing
<1>3. n \in Nat
  BY AmountsCounted, Columns DEF WalletsInv
<1>4. e \in TallyRows /\ e.ref = o /\ e.user = u
  BY <1>2, <1>3 DEF TallyRows
<1> HIDE DEF e, n
<1>5. points' \in [Users -> Nat] /\ \A v \in Users : points'[v] >= points[v]
  <2>1. points \in [Users -> Nat] /\ \A v \in Users : points[v] \in Nat
    BY DEF WalletsInv, WalletsTypeOK
  <2>2. CASE points' = points
    BY <2>1, <2>2
  <2>3. CASE points' = [points EXCEPT ![u] = points[u] + n]
    BY <1>2, <1>3, <2>1, <2>3
  <2> QED
    BY <1>1, <2>2, <2>3
<1>6. tally' \subseteq TallyRows /\ \A f \in tally' : f \in tally \/ f = e
  BY <1>1, <1>4, Columns DEF WalletsInv
<1>7. WalletsTypeOK'
  BY <1>1, <1>2, <1>5, <1>6 DEF WalletsInv, WalletsTypeOK, TallyRows, OrderRows
<1>8. HeldCovered'
  <2> SUFFICES ASSUME NEW v \in Users, checkout[v].stage = "held"
               PROVE  checkout[v].wallet <= balance[v] /\ checkout[v].points <= points'[v]
    BY <1>1 DEF HeldCovered
  <2>1. checkout[v].wallet <= balance[v] /\ checkout[v].points <= points[v]
    BY DEF WalletsInv, HeldCovered
  <2>2. checkout[v].points \in Nat /\ points[v] \in Nat /\ points'[v] \in Nat /\ points'[v] >= points[v]
    BY <1>5, Columns DEF WalletsInv
  <2> QED
    BY <2>1, <2>2
<1>9. Placed'
  BY <1>1, <1>2, <1>4, <1>6, Columns DEF WalletsInv, Placed
<1>10. \A v \in Users : Bonuses(v)' = Bonuses(v)
  <2>1. \A f \in tally : order'[f.ref].customer = order[f.ref].customer
    BY <1>2, Columns DEF WalletsInv
  <2>2. tally \subseteq tally'
    BY <1>1
  <2>3. order'[e.ref].customer = e.user
    BY <1>2, <1>4
  <2> QED
    BY <1>6, <2>1, <2>2, <2>3 DEF Bonuses
<1>11. BonusBook'
  BY <1>1, <1>10 DEF WalletsInv, BonusBook
<1> QED
  BY <1>2, <1>7, <1>8, <1>9, <1>11 DEF WalletsInv

\* A cancelled order only adds to the wallet.
LEMMA CancelStep == ASSUME WalletsInv, NEW o \in Orders, Cancel(o) PROVE WalletsInv'
<1>1. /\ order[o].status = "open"
      /\ order' = [order EXCEPT ![o].status = "cancelled"]
      /\ \/ CreditWallet(order[o].customer, order[o].wallet, "refund", o)
         \/ balance' = balance /\ moves' = moves
      /\ UNCHANGED <<topup, points, tally, adjusted, referral, checkout>>
  BY DEF Cancel, RefundDue, purse, account
<1>2. /\ order' \in [Orders -> OrderRows]
      /\ order[o].customer \in Users
      /\ \A p \in Orders : /\ order'[p].customer = order[p].customer
                           /\ order'[p].status = "none" <=> order[p].status = "none"
      /\ Known'
  BY <1>1, Closing
<1>3. /\ balance' \in [Users -> Nat]
      /\ moves' \subseteq MoveRows
      /\ \A v \in Users : balance'[v] >= balance[v]
  <2>1. order[o].wallet \in Nat
    BY Columns DEF WalletsInv
  <2>2. CASE CreditWallet(order[o].customer, order[o].wallet, "refund", o)
    BY <1>2, <2>1, <2>2, Credited DEF WalletsInv
  <2>3. CASE balance' = balance /\ moves' = moves
    BY <2>3, Columns DEF WalletsInv, WalletsTypeOK
  <2> QED
    BY <1>1, <2>2, <2>3
<1>4. WalletsTypeOK'
  BY <1>1, <1>2, <1>3 DEF WalletsInv, WalletsTypeOK, MoveRows, OrderRows
<1>5. HeldCovered'
  <2> SUFFICES ASSUME NEW v \in Users, checkout[v].stage = "held"
               PROVE  checkout[v].wallet <= balance'[v] /\ checkout[v].points <= points[v]
    BY <1>1 DEF HeldCovered
  <2>1. checkout[v].wallet <= balance[v] /\ checkout[v].points <= points[v]
    BY DEF WalletsInv, HeldCovered
  <2>2. checkout[v].wallet \in Nat /\ balance[v] \in Nat /\ balance'[v] \in Nat /\ balance'[v] >= balance[v]
    BY <1>3, Columns DEF WalletsInv
  <2> QED
    BY <2>1, <2>2
<1>6. Placed'
  BY <1>1, <1>2, Columns DEF WalletsInv, Placed
<1>7. \A v \in Users : Bonuses(v)' = Bonuses(v)
  BY <1>1, <1>2, Columns DEF WalletsInv, Bonuses
<1>8. BonusBook'
  BY <1>1, <1>7 DEF WalletsInv, BonusBook
<1> QED
  BY <1>2, <1>4, <1>5, <1>6, <1>8 DEF WalletsInv
-----------------------------------------------------------------------------
(* The specification.                                                      *)

\* Every step keeps the invariant.
LEMMA InvStep == WalletsInv /\ [WalletsNext]_walletVars => WalletsInv'
<1>1. ASSUME WalletsInv, WalletsNext PROVE WalletsInv'
  BY <1>1, InitiateStep, CaptureStep, VerifyStep, ReferralStep, AdjustStep, CheckStep, HoldStep,
     RollBackStep, PlainStep, BonusStep, DeliverStep, CancelStep DEF WalletsNext
<1>2. ASSUME WalletsInv, UNCHANGED walletVars PROVE WalletsInv'
  <2>1. WalletsTypeOK' /\ Known' /\ HeldCovered'
    BY <1>2 DEF walletVars, WalletsInv, WalletsTypeOK, Known, HeldCovered
  <2>2. BonusBook' /\ Placed'
    BY <1>2, SameBook DEF walletVars, WalletsInv
  <2> QED
    BY <2>1, <2>2 DEF WalletsInv
<1> QED
  BY <1>1, <1>2

\* Every reachable state satisfies the invariant.
LEMMA Invariance == WalletsSpec => []WalletsInv
BY WalletsInitInv, InvStep, PTL DEF WalletsSpec

\* Balances of money and points are never below zero, whatever checkouts, deliveries,
\* cancellations, top-ups and adjustments do at the same time.
THEOREM WalletsTypeCorrect == WalletsSpec => []WalletsTypeOK
<1>1. WalletsInv => WalletsTypeOK
  BY DEF WalletsInv
<1> QED
  BY <1>1, Invariance, PTL

\* A referral pays once at most, and is marked as paid exactly if it has, for any number of
\* customers, referrals and orders.
THEOREM BonusPaidOnce == WalletsSpec => []BonusOnce
<1>1. ASSUME WalletsInv PROVE BonusOnce
  <2> SUFFICES ASSUME NEW u \in Users
               PROVE  Cardinality(Bonuses(u)) = IF referral[u].awarded THEN 1 ELSE 0
    BY DEF BonusOnce, Bonuses
  <2>1. CASE referral[u].awarded
    <3>1. PICK e : Bonuses(u) = {e}
      BY <1>1, <2>1 DEF WalletsInv, BonusBook
    <3>2. Cardinality({e}) = 1
      BY FS_Singleton
    <3> QED
      BY <2>1, <3>1, <3>2
  <2>2. CASE ~referral[u].awarded
    <3>1. Bonuses(u) = {}
      BY <1>1, <2>2 DEF WalletsInv, BonusBook
    <3>2. Cardinality({}) = 0
      BY FS_EmptySet
    <3> QED
      BY <2>2, <3>1, <3>2
  <2> QED
    BY <2>1, <2>2
<1> QED
  BY <1>1, Invariance, PTL
-----------------------------------------------------------------------------
(* Balances come from somewhere.                                           *)

\* What the wallet's transactions say is true of the orders and top-ups they refer to:
\* an order that still is open, or a top-up still to be verified, has not been credited.
MovesTell ==
    /\ \A m \in moves : m.source = "refund" => /\ m.ref \in Orders
                                               /\ order[m.ref].status = "cancelled"
    /\ \A m \in moves : m.source = "topup" => m.ref \in TopUps /\ topup[m.ref].credited
    /\ \A t \in TopUps : topup[t].at = "none" => ~topup[t].credited

Sourced == MovesTell /\ IsFiniteSet(tally) /\ WalletSourced /\ PointsSourced

Spendings(u) == [o \in Paying(u) |-> order[o].wallet]
Loadings(u)  == [t \in Loaded(u) |-> topup[t].amount]
Scores(u)    == [e \in Entries(u) |-> e.points]

LEMMA Totals ==
    ASSUME WalletsTypeOK, IsFiniteSet(tally)
    PROVE  \A u : /\ IsFiniteSet(Paying(u)) /\ \A o \in Paying(u) : order[o].wallet \in Int
                  /\ IsFiniteSet(Loaded(u)) /\ \A t \in Loaded(u) : topup[t].amount \in Int
                  /\ IsFiniteSet(Entries(u)) /\ \A e \in Entries(u) : e.points \in Int
                  /\ SumFunction(Spendings(u)) \in Int
                  /\ SumFunction(Loadings(u)) \in Int
                  /\ SumFunction(Scores(u)) \in Int
<1> TAKE u
<1>1. /\ IsFiniteSet(Paying(u)) /\ \A o \in Paying(u) : order[o].wallet \in Int
      /\ IsFiniteSet(Loaded(u)) /\ \A t \in Loaded(u) : topup[t].amount \in Int
  BY Columns, WalletsAssumption, FS_Subset DEF Paying, Loaded
<1>2. IsFiniteSet(Entries(u)) /\ \A e \in Entries(u) : e.points \in Int
  BY Columns, FS_Subset DEF Entries, TallyRows
<1>3. SumFunction(Spendings(u)) \in Int
  BY <1>1, TotalInt DEF Spendings
<1>4. SumFunction(Loadings(u)) \in Int
  BY <1>1, TotalInt DEF Loadings
<1>5. SumFunction(Scores(u)) \in Int
  BY <1>2, TotalInt DEF Scores
<1> QED  BY <1>1, <1>2, <1>3, <1>4, <1>5

\* A wallet that neither gains nor loses, while what it paid and what was loaded stay.
LEMMA WalletKept ==
    ASSUME WalletSourced, NEW u \in Users, balance'[u] = balance[u],
           Paying(u)' = Paying(u), \A o \in Paying(u) : order'[o].wallet = order[o].wallet,
           Loaded(u)' = Loaded(u), \A t \in Loaded(u) : topup'[t].amount = topup[t].amount
    PROVE  balance'[u] + SumFunction(Spendings(u)') = SumFunction(Loadings(u)')
<1>1. Spendings(u)' = Spendings(u) /\ Loadings(u)' = Loadings(u)
  BY DEF Spendings, Loadings
<1> QED  BY <1>1 DEF WalletSourced, Spendings, Loadings

LEMMA WalletsKept ==
    ASSUME WalletSourced, UNCHANGED <<balance, moves>>,
           \A o \in Orders : /\ order'[o].customer = order[o].customer
                             /\ order'[o].wallet = order[o].wallet,
           \A t \in TopUps : \/ topup'[t].user = topup[t].user /\ topup'[t].amount = topup[t].amount
                             \/ ~topup[t].credited,
           \A t \in TopUps : topup'[t].credited = topup[t].credited
    PROVE  WalletSourced'
<1> SUFFICES ASSUME NEW u \in Users
             PROVE  balance'[u] + SumFunction(Spendings(u)') = SumFunction(Loadings(u)')
  BY DEF WalletSourced, Spendings, Loadings
<1>1. Paying(u)' = Paying(u) /\ \A o \in Paying(u) : order'[o].wallet = order[o].wallet
  BY DEF Paying, CreditExists
<1>2. Loaded(u)' = Loaded(u) /\ \A t \in Loaded(u) : topup'[t].amount = topup[t].amount
  BY DEF Loaded
<1> QED  BY <1>1, <1>2, WalletKept

\* Points and their book stay.
LEMMA PointsKept ==
    ASSUME PointsSourced, UNCHANGED <<points, tally, adjusted>>
    PROVE  PointsSourced'
BY DEF PointsSourced, Entries

\* One entry more in the book of an account.
LEMMA EntryAdded ==
    ASSUME WalletsTypeOK, IsFiniteSet(tally), NEW u \in Users, NEW e, e \notin tally,
           e.points \in Int, Entries(u)' = Entries(u) \cup {e}
    PROVE  SumFunction(Scores(u)') = SumFunction(Scores(u)) + e.points
<1>1. /\ DOMAIN Scores(u) = Entries(u) /\ DOMAIN Scores(u)' = Entries(u) \cup {e}
      /\ \A f \in Entries(u) : Scores(u)[f] \in Int /\ Scores(u)'[f] = Scores(u)[f]
      /\ Scores(u)'[e] = e.points
  BY Totals DEF Scores
<1>2. e \notin Entries(u) /\ IsFiniteSet(Entries(u))
  BY Totals DEF Entries
<1> QED  BY <1>1, <1>2, TotalAdd

\* Steps that move no money and no points.
LEMMA StillSourced ==
    ASSUME WalletsInv, Sourced,
           UNCHANGED <<balance, moves, points, tally, adjusted, order>>,
           \/ UNCHANGED topup
           \/ \E t \in TopUps : \/ Capture(t)
                                \/ \E u \in Users, n \in Loads : InitiateWalletTopUp(t, u, n)
    PROVE  Sourced'
<1> DEFINE Same(t) == /\ \/ topup'[t].user = topup[t].user /\ topup'[t].amount = topup[t].amount
                         \/ ~topup[t].credited
                      /\ topup'[t].credited = topup[t].credited
                      /\ topup'[t].at = "none" => ~topup'[t].credited
<1>a. ASSUME UNCHANGED topup, NEW t \in TopUps  PROVE Same(t)
  BY <1>a DEF Sourced, MovesTell
<1>b. ASSUME NEW s \in TopUps, Capture(s), NEW t \in TopUps  PROVE Same(t)
  BY <1>b DEF Capture, WalletsInv, WalletsTypeOK, Sourced, MovesTell
<1>c. ASSUME NEW s \in TopUps, NEW u \in Users, NEW n \in Loads, InitiateWalletTopUp(s, u, n),
             NEW t \in TopUps
      PROVE  Same(t)
  <2>1. /\ topup[s].at = "none"
        /\ topup' = [topup EXCEPT ![s] = [at |-> "open", user |-> u, amount |-> n,
                                          credited |-> FALSE]]
    BY <1>c DEF InitiateWalletTopUp
  <2>2. topup[s].credited = FALSE
    BY <2>1 DEF WalletsInv, WalletsTypeOK, Sourced, MovesTell
  <2>3. t = s => topup'[t].credited = FALSE /\ topup'[t].at = "open"
    BY <2>1 DEF WalletsInv, WalletsTypeOK
  <2>4. t # s => topup'[t] = topup[t]
    BY <2>1 DEF WalletsInv, WalletsTypeOK
  <2> QED  BY <2>2, <2>3, <2>4 DEF Sourced, MovesTell
<1>0. \A t \in TopUps : Same(t)
  BY <1>a, <1>b, <1>c
<1>1. \A t \in TopUps : \/ topup'[t].user = topup[t].user /\ topup'[t].amount = topup[t].amount
                        \/ ~topup[t].credited
  BY <1>0
<1>2. \A t \in TopUps : topup'[t].credited = topup[t].credited
  BY <1>0
<1>3. \A t \in TopUps : topup'[t].at = "none" => ~topup'[t].credited
  BY <1>0
<1>4. MovesTell'
  BY <1>2, <1>3 DEF Sourced, MovesTell
<1>5. WalletSourced' /\ PointsSourced'
  BY <1>1, <1>2, WalletsKept, PointsKept DEF Sourced
<1> QED  BY <1>4, <1>5 DEF Sourced

\* A verified top-up enters the wallet and what was loaded.
LEMMA VerifySourced ==
    ASSUME WalletsInv, Sourced, NEW t \in TopUps, VerifyWalletTopUp(t)
    PROVE  Sourced'
<1> DEFINE u == topup[t].user
           n == topup[t].amount
           m == [user |-> u, source |-> "topup", ref |-> t, amount |-> n]
<1>1. /\ u \in Users /\ n \in Nat
      /\ topup[t].at = "captured" /\ ~topup[t].credited
      /\ CreditWallet(u, n, "topup", t)
      /\ topup' = [topup EXCEPT ![t].credited = TRUE]
      /\ UNCHANGED <<points, tally, adjusted, referral, order, checkout>>
  BY Columns DEF VerifyWalletTopUp, WalletsInv, Known, account
<1>2. ~CreditExists(u, "topup", t)
  BY <1>1 DEF CreditExists, Sourced, MovesTell
<1>3. /\ balance' = [balance EXCEPT ![u] = balance[u] + n]
      /\ moves' = moves \cup {m}
  BY <1>1, <1>2 DEF CreditWallet
<1>4. /\ topup'[t].credited /\ topup'[t].at = "captured"
      /\ \A s \in TopUps : topup'[s].user = topup[s].user /\ topup'[s].amount = topup[s].amount
      /\ \A s \in TopUps \ {t} : topup'[s] = topup[s]
  BY <1>1 DEF WalletsInv, WalletsTypeOK
<1>5. m.source = "topup" /\ m.ref = t
  OBVIOUS
<1>6. MovesTell'
  BY <1>1, <1>3, <1>4, <1>5 DEF Sourced, MovesTell
<1>7. PointsSourced'
  BY <1>1, PointsKept DEF Sourced
<1>8. ASSUME NEW v \in Users
      PROVE  balance'[v] + SumFunction(Spendings(v)') = SumFunction(Loadings(v)')
  <2>1. Paying(v)' = Paying(v)
    BY <1>1, <1>3, <1>5 DEF Paying, CreditExists
  <2>2. Spendings(v)' = Spendings(v)
    BY <1>1, <2>1 DEF Spendings
  <2>3. balance[v] + SumFunction(Spendings(v)) = SumFunction(Loadings(v))
    BY DEF Sourced, WalletSourced, Spendings, Loadings
  <2>4. CASE v # u
    <3>1. balance'[v] = balance[v]
      BY <1>3, <2>4 DEF WalletsInv, WalletsTypeOK
    <3>2. Loaded(v)' = Loaded(v)
      BY <1>4, <2>4 DEF Loaded
    <3> QED  BY <1>1, <1>4, <2>1, <3>1, <3>2, WalletKept DEF Sourced
  <2>5. CASE v = u
    <3>1. balance'[v] = balance[v] + n
      BY <1>1, <1>3, <2>5 DEF WalletsInv, WalletsTypeOK
    <3>2. Loaded(v)' = Loaded(v) \cup {t} /\ t \notin Loaded(v)
      BY <1>1, <1>4, <2>5 DEF Loaded
    <3>3. /\ DOMAIN Loadings(v) = Loaded(v) /\ DOMAIN Loadings(v)' = Loaded(v) \cup {t}
          /\ Loadings(v)'[t] = n
          /\ \A s \in Loaded(v) : Loadings(v)[s] \in Int /\ Loadings(v)'[s] = Loadings(v)[s]
      BY <1>4, <3>2, Totals DEF Loadings, Loaded, WalletsInv, Sourced
    <3>4. SumFunction(Loadings(v)') = SumFunction(Loadings(v)) + n
      <4>1. IsFiniteSet(Loaded(v)) /\ n \in Int
        BY <1>1, Totals DEF WalletsInv, Sourced
      <4> HIDE DEF n
      <4> QED  BY <3>2, <3>3, <4>1, TotalAdd
    <3>5. /\ balance[v] \in Int /\ n \in Int /\ SumFunction(Spendings(v)) \in Int
          /\ SumFunction(Loadings(v)) \in Int
      BY <1>1, Totals, Columns DEF WalletsInv, Sourced
    <3> QED  BY <2>2, <2>3, <3>1, <3>4, <3>5
  <2> QED  BY <2>4, <2>5
<1>9. WalletSourced'
  BY <1>8 DEF WalletSourced, Spendings, Loadings
<1> QED  BY <1>1, <1>6, <1>7, <1>9 DEF Sourced

\* Adjustments are their own source.
LEMMA AdjustSourced ==
    ASSUME WalletsInv, Sourced, NEW u \in Users, NEW n \in Adjustments,
           CreditPoints(u, n) \/ DebitPoints(u, n)
    PROVE  Sourced'
<1>1. n \in Int
  BY WalletsAssumption
<1>2. UNCHANGED <<balance, moves, topup, tally, referral, order, checkout>>
  BY DEF CreditPoints, DebitPoints, purse
<1>3. MovesTell' /\ WalletSourced'
  BY <1>2, WalletsKept DEF Sourced, MovesTell
<1>4. ASSUME NEW v \in Users
      PROVE  points'[v] = adjusted'[v] + SumFunction(Scores(v)')
  <2>1. Scores(v)' = Scores(v)
    BY <1>2 DEF Scores, Entries
  <2>2. points[v] = adjusted[v] + SumFunction(Scores(v))
    BY DEF Sourced, PointsSourced, Scores
  <2>3. /\ points[v] \in Int /\ adjusted[v] \in Int /\ SumFunction(Scores(v)) \in Int
    BY Totals, Columns DEF WalletsInv, Sourced
  <2>4. \/ points'[v] = points[v] /\ adjusted'[v] = adjusted[v]
        \/ points'[v] = points[v] + n /\ adjusted'[v] = adjusted[v] + n
        \/ points'[v] = points[v] - n /\ adjusted'[v] = adjusted[v] - n
    BY <1>1, <2>3 DEF CreditPoints, DebitPoints, WalletsInv, WalletsTypeOK
  <2> QED  BY <1>1, <2>1, <2>2, <2>3, <2>4
<1>5. PointsSourced'
  BY <1>4 DEF PointsSourced, Scores
<1> QED  BY <1>2, <1>3, <1>5 DEF Sourced

\* The wallet pays for the order that is placed.
LEMMA PlacedWallet ==
    ASSUME WalletsInv, Sourced, NEW u \in Users, checkout[u].stage = "held", PlaceOrder(u),
           UNCHANGED topup
    PROVE  MovesTell' /\ WalletSourced'
<1> DEFINE o == checkout[u].order
           n == checkout[u].wallet
           m == [user |-> u, source |-> "order_payment", ref |-> o, amount |-> n]
<1>1. /\ o \in Orders
      /\ order[o].status = "none"
      /\ order'[o].status = "open"
      /\ order'[o].customer = u
      /\ \A p \in Orders : p # o => order'[p] = order[p]
  BY Placing
<1>2. /\ n \in Nat /\ order'[o].wallet = n
      /\ balance' = [balance EXCEPT ![u] = balance[u] - n]
      /\ moves' \in {moves, moves \cup {m}}
  BY <1>1, Columns DEF PlaceOrder, WalletsInv, WalletsTypeOK
<1>3. m.source = "order_payment"
  OBVIOUS
<1> HIDE DEF m
<1>4. MovesTell'
  <2>1. \A x \in moves' : x.source # "order_payment" => x \in moves
    BY <1>2, <1>3
  <2> QED  BY <1>1, <2>1 DEF Sourced, MovesTell
<1>5. \A v, p : CreditExists(v, "refund", p)' <=> CreditExists(v, "refund", p)
  BY <1>2, <1>3 DEF CreditExists
<1>6. \A v \in Users : ~CreditExists(v, "refund", o) /\ o \notin Paying(v)
  <2>1. order[o].customer = NoUser
    BY <1>1 DEF WalletsInv, Known
  <2> QED  BY <1>1, <2>1, WalletsAssumption DEF CreditExists, Paying, Sourced, MovesTell
<1>7. ASSUME NEW v \in Users
      PROVE  balance'[v] + SumFunction(Spendings(v)') = SumFunction(Loadings(v)')
  <2>1. Loaded(v)' = Loaded(v) /\ Loadings(v)' = Loadings(v)
    BY DEF Loaded, Loadings
  <2>2. CASE v # u
    <3>1. balance'[v] = balance[v]
      BY <1>2, <2>2 DEF WalletsInv, WalletsTypeOK
    <3>2. Paying(v)' = Paying(v) /\ \A p \in Paying(v) : order'[p].wallet = order[p].wallet
      BY <1>1, <1>5, <1>6, <2>2 DEF Paying
    <3> QED  BY <2>1, <3>1, <3>2, WalletKept DEF Sourced
  <2>3. CASE v = u
    <3>1. balance'[v] = balance[v] - n
      BY <1>2, <2>3 DEF WalletsInv, WalletsTypeOK
    <3>2. Paying(v)' = Paying(v) \cup {o}
      BY <1>1, <1>5, <1>6, <2>3 DEF Paying
    <3>3. \A p \in Paying(v) : order'[p].wallet = order[p].wallet /\ order[p].wallet \in Int
      BY <1>1, <1>6, Totals DEF Paying, WalletsInv, Sourced
    <3>4. /\ DOMAIN Spendings(v) = Paying(v) /\ DOMAIN Spendings(v)' = Paying(v) \cup {o}
          /\ Spendings(v)'[o] = n
          /\ \A p \in Paying(v) : Spendings(v)[p] \in Int /\ Spendings(v)'[p] = Spendings(v)[p]
      BY <1>2, <3>2, <3>3 DEF Spendings
    <3>5. SumFunction(Spendings(v)') = SumFunction(Spendings(v)) + n
      <4>1. IsFiniteSet(Paying(v)) /\ o \notin Paying(v) /\ n \in Int
        BY <1>2, <1>6, Totals DEF WalletsInv, Sourced
      <4> HIDE DEF n, o
      <4> QED  BY <3>4, <4>1, TotalAdd
    <3>6. balance[v] + SumFunction(Spendings(v)) = SumFunction(Loadings(v))
      BY DEF Sourced, WalletSourced, Spendings, Loadings
    <3>7. /\ balance[v] \in Int /\ SumFunction(Spendings(v)) \in Int
          /\ SumFunction(Loadings(v)) \in Int
      BY Totals, Columns DEF WalletsInv, Sourced
    <3> QED  BY <1>2, <2>1, <3>1, <3>5, <3>6, <3>7
  <2> QED  BY <2>2, <2>3
<1>8. WalletSourced'
  BY <1>7 DEF WalletSourced, Spendings, Loadings
<1> QED  BY <1>4, <1>8

\* What an account has spent on the order is in its book.
LEMMA SpentBooked ==
    ASSUME WalletsInv, Sourced, NEW u \in Users, checkout[u].stage = "held",
           Entries(u)' = Entries(u) \cup Redeemed(u)
    PROVE  SumFunction(Scores(u)') = SumFunction(Scores(u)) - checkout[u].points
<1> DEFINE n == checkout[u].points
           e == [user |-> u, type |-> "redeem", ref |-> checkout[u].order, points |-> 0 - n]
<1>1. n \in Nat /\ SumFunction(Scores(u)) \in Int
  BY Totals, Columns DEF WalletsInv, Sourced
<1>2. CASE n = 0
  <2>1. Entries(u)' = Entries(u)
    BY <1>2 DEF Redeemed
  <2>2. Scores(u)' = Scores(u)
    BY <2>1 DEF Scores
  <2> QED  BY <1>1, <1>2, <2>2
<1>3. CASE n # 0
  <2>1. Entries(u)' = Entries(u) \cup {e}
    BY <1>3 DEF Redeemed
  <2>2. e.ref = checkout[u].order /\ e.points = 0 - n
    OBVIOUS
  <2> HIDE DEF e, n
  <2>3. e \notin tally
    BY <2>2 DEF WalletsInv, Placed, Known
  <2>4. e.points \in Int
    BY <1>1, <2>2
  <2>5. SumFunction(Scores(u)') = SumFunction(Scores(u)) + e.points
    BY <2>1, <2>3, <2>4, EntryAdded DEF WalletsInv, Sourced
  <2> QED  BY <1>1, <2>2, <2>5 DEF n
<1> QED  BY <1>2, <1>3

\* An order without a bonus.
LEMMA PlainSourced ==
    ASSUME WalletsInv, Sourced, NEW u \in Users, CommitCheckout(u) \/ CommitAfterDeadlock(u)
    PROVE  Sourced'
<1>1. /\ checkout[u].stage = "held"
      /\ PlaceOrder(u)
      /\ points' = [points EXCEPT ![u] = points[u] - checkout[u].points]
      /\ tally' = tally \cup Redeemed(u)
      /\ UNCHANGED <<topup, adjusted, referral>>
  BY DEF CommitCheckout, CommitAfterDeadlock, PointsHeld
<1>2. MovesTell' /\ WalletSourced'
  BY <1>1, PlacedWallet
<1>3. \A e \in Redeemed(u) : e.user = u
  BY DEF Redeemed
<1>4. IsFiniteSet(tally')
  <2>1. IsFiniteSet(Redeemed(u))
    BY FS_EmptySet, FS_Singleton DEF Redeemed
  <2> QED  BY <1>1, <2>1, FS_Union DEF Sourced
<1>5. ASSUME NEW v \in Users
      PROVE  points'[v] = adjusted'[v] + SumFunction(Scores(v)')
  <2>1. points[v] = adjusted[v] + SumFunction(Scores(v))
    BY DEF Sourced, PointsSourced, Scores
  <2>2. CASE v # u
    <3>1. Entries(v)' = Entries(v)
      BY <1>1, <1>3, <2>2 DEF Entries
    <3>2. Scores(v)' = Scores(v)
      BY <3>1 DEF Scores
    <3>3. points'[v] = points[v]
      BY <1>1, <2>2 DEF WalletsInv, WalletsTypeOK
    <3> QED  BY <1>1, <2>1, <3>2, <3>3
  <2>3. CASE v = u
    <3>1. Entries(u)' = Entries(u) \cup Redeemed(u)
      BY <1>1, <1>3 DEF Entries
    <3>2. SumFunction(Scores(u)') = SumFunction(Scores(u)) - checkout[u].points
      BY <1>1, <3>1, SpentBooked
    <3>3. points'[u] = points[u] - checkout[u].points
      BY <1>1 DEF WalletsInv, WalletsTypeOK
    <3>4. /\ points[u] \in Int /\ adjusted[u] \in Int /\ checkout[u].points \in Int
          /\ SumFunction(Scores(u)) \in Int
      BY Totals, Columns DEF WalletsInv, Sourced
    <3> QED  BY <1>1, <2>1, <2>3, <3>2, <3>3, <3>4
  <2> QED  BY <2>2, <2>3
<1>6. PointsSourced'
  BY <1>5 DEF PointsSourced, Scores
<1> QED  BY <1>2, <1>4, <1>6 DEF Sourced

\* The bonus is booked as it is paid, though by another way than points for orders.
LEMMA BonusSourced ==
    ASSUME WalletsInv, Sourced, NEW u \in Users, CommitWithBonus(u)
    PROVE  Sourced'
<1> DEFINE r == referral[u].referrer
           e == [user |-> r, type |-> "earn", ref |-> checkout[u].order, points |-> Bonus]
<1>1. /\ checkout[u].stage = "held"
      /\ PlaceOrder(u)
      /\ UNCHANGED <<topup, adjusted>>
      /\ tally' = tally \cup Redeemed(u) \cup {e}
      /\ r # NoUser
  BY DEF CommitWithBonus, BonusDue
<1>2. points' = [points EXCEPT ![u] = points[u] - checkout[u].points,
                               ![r] = points[r] + BonusPoints]
  BY DEF CommitWithBonus
<1>3. r \in Users /\ r # u
  BY <1>1, Columns DEF WalletsInv, Known
<1>4. MovesTell' /\ WalletSourced'
  BY <1>1, PlacedWallet
<1>5. \A f \in Redeemed(u) : f.user = u
  BY DEF Redeemed
<1>6. e.user = r /\ e.points = Bonus /\ e.ref = checkout[u].order
  OBVIOUS
<1> HIDE DEF e
<1>7. IsFiniteSet(tally')
  <2>1. IsFiniteSet(Redeemed(u)) /\ IsFiniteSet({e})
    BY FS_EmptySet, FS_Singleton DEF Redeemed
  <2>2. IsFiniteSet(tally \cup Redeemed(u))
    BY <2>1, FS_Union DEF Sourced
  <2> QED  BY <1>1, <2>1, <2>2, FS_Union
<1>8. e \notin tally
  BY <1>1, <1>6 DEF WalletsInv, Placed, Known
<1>9. ASSUME NEW v \in Users
      PROVE  points'[v] = adjusted'[v] + SumFunction(Scores(v)')
  <2>1. points[v] = adjusted[v] + SumFunction(Scores(v))
    BY DEF Sourced, PointsSourced, Scores
  <2>2. /\ points[v] \in Int /\ adjusted[v] \in Int /\ checkout[v].points \in Int
        /\ SumFunction(Scores(v)) \in Int
    BY Totals, Columns DEF WalletsInv, Sourced
  <2>3. CASE v \notin {u, r}
    <3>1. Entries(v)' = Entries(v)
      BY <1>1, <1>5, <1>6, <2>3 DEF Entries
    <3>2. Scores(v)' = Scores(v)
      BY <3>1 DEF Scores
    <3>3. points'[v] = points[v]
      BY <1>2, <2>3 DEF WalletsInv, WalletsTypeOK
    <3> QED  BY <1>1, <2>1, <3>2, <3>3
  <2>4. CASE v = u
    <3>1. Entries(u)' = Entries(u) \cup Redeemed(u)
      BY <1>1, <1>3, <1>5, <1>6 DEF Entries
    <3>2. SumFunction(Scores(u)') = SumFunction(Scores(u)) - checkout[u].points
      BY <1>1, <3>1, SpentBooked
    <3>3. points'[u] = points[u] - checkout[u].points
      BY <1>2, <1>3 DEF WalletsInv, WalletsTypeOK
    <3> QED  BY <1>1, <2>1, <2>2, <2>4, <3>2, <3>3
  <2>5. CASE v = r
    <3>1. Entries(v)' = Entries(v) \cup {e}
      BY <1>1, <1>3, <1>5, <1>6, <2>5 DEF Entries
    <3>2. e.points \in Int /\ BonusPoints = e.points
      BY <1>6, AmountsCounted
    <3>3. SumFunction(Scores(v)') = SumFunction(Scores(v)) + e.points
      BY <1>8, <3>1, <3>2, EntryAdded DEF WalletsInv, Sourced
    <3>4. points'[v] = points[v] + e.points
      BY <1>2, <1>3, <2>5, <3>2 DEF WalletsInv, WalletsTypeOK
    <3> QED  BY <1>1, <2>1, <2>2, <3>2, <3>3, <3>4
  <2> QED  BY <2>3, <2>4, <2>5
<1>10. PointsSourced'
  BY <1>9 DEF PointsSourced, Scores
<1> QED  BY <1>4, <1>7, <1>10 DEF Sourced

\* Points for a delivered order are booked once.
LEMMA DeliverSourced == ASSUME WalletsInv, Sourced, NEW o \in Orders, Deliver(o) PROVE Sourced'
<1> DEFINE u == order[o].customer
           n == PointsFor(order[o].total)
           e == [user |-> u, type |-> "earn", ref |-> o, points |-> n]
<1>1. /\ order[o].status = "open"
      /\ order' = [order EXCEPT ![o].status = "delivered"]
      /\ \/ UNCHANGED <<points, tally>>
         \/ /\ ~Earned(u, o)
            /\ points' = [points EXCEPT ![u] = points[u] + n]
            /\ tally' = tally \cup {e}
      /\ UNCHANGED <<balance, moves, topup, adjusted, referral, checkout>>
  BY DEF Deliver, purse
<1>2. /\ \A p \in Orders : order'[p].customer = order[p].customer /\ order'[p].wallet = order[p].wallet
      /\ \A p \in Orders \ {o} : order'[p] = order[p]
  BY <1>1 DEF WalletsInv, WalletsTypeOK
<1>3. u \in Users /\ n \in Int
  BY <1>1, AmountsCounted, Columns DEF WalletsInv, Known
<1>4. MovesTell'
  BY <1>1, <1>2 DEF Sourced, MovesTell
<1>5. WalletSourced'
  BY <1>1, <1>2, WalletsKept DEF Sourced
<1>6. CASE UNCHANGED <<points, tally>>
  BY <1>1, <1>4, <1>5, <1>6, PointsKept DEF Sourced
<1>7. CASE /\ ~Earned(u, o)
           /\ points' = [points EXCEPT ![u] = points[u] + n]
           /\ tally' = tally \cup {e}
  <2>1. e.user = u /\ e.points = n /\ e.type = "earn" /\ e.ref = o
    OBVIOUS
  <2> HIDE DEF e, n
  <2>2. e \notin tally
    BY <1>7, <2>1 DEF Earned
  <2>3. IsFiniteSet(tally')
    BY <1>7, FS_AddElement DEF Sourced
  <2>4. ASSUME NEW v \in Users
        PROVE  points'[v] = adjusted'[v] + SumFunction(Scores(v)')
    <3>1. points[v] = adjusted[v] + SumFunction(Scores(v))
      BY DEF Sourced, PointsSourced, Scores
    <3>2. points[v] \in Int /\ adjusted[v] \in Int /\ SumFunction(Scores(v)) \in Int
      BY Totals, Columns DEF WalletsInv, Sourced
    <3>3. CASE v # u
      <4>1. Entries(v)' = Entries(v)
        BY <1>7, <2>1, <3>3 DEF Entries
      <4>2. Scores(v)' = Scores(v)
        BY <4>1 DEF Scores
      <4>3. points'[v] = points[v]
        BY <1>7, <3>3 DEF WalletsInv, WalletsTypeOK
      <4> QED  BY <1>1, <3>1, <4>2, <4>3
    <3>4. CASE v = u
      <4>1. Entries(v)' = Entries(v) \cup {e}
        BY <1>7, <2>1, <3>4 DEF Entries
      <4>2. SumFunction(Scores(v)') = SumFunction(Scores(v)) + e.points
        BY <1>3, <2>1, <2>2, <4>1, EntryAdded DEF WalletsInv, Sourced
      <4>3. points'[v] = points[v] + n
        BY <1>7, <3>4 DEF WalletsInv, WalletsTypeOK
      <4> QED  BY <1>1, <1>3, <2>1, <3>1, <3>2, <4>2, <4>3
    <3> QED  BY <3>3, <3>4
  <2>5. PointsSourced'
    BY <2>4 DEF PointsSourced, Scores
  <2> QED  BY <1>4, <1>5, <2>3, <2>5 DEF Sourced
<1> QED  BY <1>1, <1>6, <1>7

\* A cancelled order gives back what it kept of the wallet.
LEMMA CancelSourced == ASSUME WalletsInv, Sourced, NEW o \in Orders, Cancel(o) PROVE Sourced'
<1> DEFINE u == order[o].customer
           n == order[o].wallet
           m == [user |-> u, source |-> "refund", ref |-> o, amount |-> n]
<1>1. /\ order[o].status = "open"
      /\ order' = [order EXCEPT ![o].status = "cancelled"]
      /\ UNCHANGED <<topup, points, tally, adjusted, referral, checkout>>
  BY DEF Cancel, account
<1>2. /\ \A p \in Orders : order'[p].customer = order[p].customer /\ order'[p].wallet = order[p].wallet
      /\ \A p \in Orders \ {o} : order'[p] = order[p]
      /\ order'[o].status = "cancelled"
  BY <1>1 DEF WalletsInv, WalletsTypeOK
<1>3. u \in Users /\ n \in Nat
  BY <1>1, Columns DEF WalletsInv, Known
<1>4. PointsSourced' /\ IsFiniteSet(tally')
  BY <1>1, PointsKept DEF Sourced
<1>5. CASE n = 0
  <2>1. UNCHANGED <<balance, moves>>
    BY <1>5 DEF Cancel, RefundDue, purse
  <2>2. MovesTell'
    BY <1>1, <1>2, <2>1 DEF Sourced, MovesTell
  <2>3. WalletSourced'
    BY <1>1, <1>2, <2>1, WalletsKept DEF Sourced
  <2> QED  BY <1>4, <2>2, <2>3 DEF Sourced
<1>6. CASE n # 0
  <2>1. ~CreditExists(u, "refund", o)
    BY <1>1 DEF CreditExists, Sourced, MovesTell
  <2>2. /\ balance' = [balance EXCEPT ![u] = balance[u] + n]
        /\ moves' = moves \cup {m}
    <3>1. CreditWallet(u, n, "refund", o)
      BY <1>3, <1>6 DEF Cancel, RefundDue
    <3> QED  BY <2>1, <3>1 DEF CreditWallet
  <2>3. m.user = u /\ m.source = "refund" /\ m.ref = o
    OBVIOUS
  <2> HIDE DEF m, n
  <2>4. MovesTell'
    BY <1>1, <1>2, <2>2, <2>3 DEF Sourced, MovesTell
  <2>5. \A v, p : CreditExists(v, "refund", p)' <=>
                     CreditExists(v, "refund", p) \/ (v = u /\ p = o)
    BY <2>2, <2>3 DEF CreditExists
  <2>6. ASSUME NEW v \in Users
        PROVE  balance'[v] + SumFunction(Spendings(v)') = SumFunction(Loadings(v)')
    <3>1. Loaded(v)' = Loaded(v) /\ Loadings(v)' = Loadings(v)
      BY <1>1 DEF Loaded, Loadings
    <3>2. CASE v # u
      <4>1. balance'[v] = balance[v]
        BY <2>2, <3>2 DEF WalletsInv, WalletsTypeOK
      <4>2. Paying(v)' = Paying(v)
        BY <1>2, <2>5, <3>2 DEF Paying
      <4>3. \A p \in Paying(v) : order'[p].wallet = order[p].wallet
        BY <1>2 DEF Paying
      <4> QED  BY <1>1, <3>1, <4>1, <4>2, <4>3, WalletKept DEF Sourced
    <3>3. CASE v = u
      <4>1. balance'[v] = balance[v] + n
        BY <1>3, <2>2, <3>3 DEF WalletsInv, WalletsTypeOK, n
      <4>2. Paying(v) = Paying(v)' \cup {o} /\ o \notin Paying(v)'
        BY <1>2, <2>1, <2>5, <3>3 DEF Paying
      <4>3. \A p \in Paying(v) : order'[p].wallet = order[p].wallet /\ order[p].wallet \in Int
        BY <1>2, Totals DEF Paying, WalletsInv, Sourced
      <4>4. /\ DOMAIN Spendings(v)' = Paying(v)' /\ DOMAIN Spendings(v) = Paying(v)' \cup {o}
            /\ Spendings(v)[o] = n
            /\ \A p \in Paying(v)' : Spendings(v)'[p] \in Int /\ Spendings(v)[p] = Spendings(v)'[p]
        BY <4>2, <4>3 DEF Spendings, n
      <4>5. SumFunction(Spendings(v)) = SumFunction(Spendings(v)') + n
        <5>1. IsFiniteSet(Paying(v)') /\ n \in Int
          BY <1>3, <4>2, Totals, FS_Subset DEF WalletsInv, Sourced, n
        <5> QED  BY <4>2, <4>4, <5>1, TotalAdd
      <4>6. balance[v] + SumFunction(Spendings(v)) = SumFunction(Loadings(v))
        BY DEF Sourced, WalletSourced, Spendings, Loadings
      <4>7. SumFunction(Spendings(v)') \in Int
        <5>1. IsFiniteSet(DOMAIN Spendings(v)')
          BY <4>2, <4>4, Totals, FS_Subset DEF WalletsInv, Sourced
        <5> QED  BY <4>4, <5>1, TotalInt
      <4>8. balance[v] \in Int /\ n \in Int
        BY <1>3, Columns DEF WalletsInv, n
      <4> QED  BY <3>1, <4>1, <4>5, <4>6, <4>7, <4>8
    <3> QED  BY <3>2, <3>3
  <2>7. WalletSourced'
    BY <2>6 DEF WalletSourced, Spendings, Loadings
  <2> QED  BY <1>4, <2>4, <2>7 DEF Sourced
<1> QED  BY <1>5, <1>6

LEMMA SourcedInit == WalletsInit => Sourced
<1> SUFFICES ASSUME WalletsInit PROVE Sourced
  OBVIOUS
<1>1. MovesTell
  BY DEF WalletsInit, MovesTell, NoTopUp
<1>2. IsFiniteSet(tally)
  BY FS_EmptySet DEF WalletsInit
<1>3. \A u \in Users : Paying(u) = {} /\ Loaded(u) = {} /\ Entries(u) = {}
  BY WalletsAssumption DEF WalletsInit, Paying, Loaded, Entries, NewOrder, NoTopUp
<1>4. \A u \in Users : /\ SumFunction(Spendings(u)) = 0
                       /\ SumFunction(Loadings(u)) = 0
                       /\ SumFunction(Scores(u)) = 0
  BY <1>3, TotalEmpty DEF Spendings, Loadings, Scores
<1>5. \A u \in Users : balance[u] = 0 /\ points[u] = 0 /\ adjusted[u] = 0
  BY DEF WalletsInit
<1>6. WalletSourced
  BY <1>4, <1>5 DEF WalletSourced, Spendings, Loadings
<1>7. PointsSourced
  BY <1>4, <1>5 DEF PointsSourced, Scores
<1> QED  BY <1>1, <1>2, <1>6, <1>7 DEF Sourced

LEMMA SourcedStep == WalletsInv /\ Sourced /\ [WalletsNext]_walletVars => Sourced'
<1> SUFFICES ASSUME WalletsInv, Sourced, [WalletsNext]_walletVars PROVE Sourced'
  OBVIOUS
<1>1. CASE UNCHANGED walletVars
  BY <1>1, StillSourced DEF walletVars
<1>2. ASSUME NEW t \in TopUps, Capture(t) \/ \E u \in Users, n \in Loads : InitiateWalletTopUp(t, u, n)
      PROVE  Sourced'
  <2>1. UNCHANGED <<balance, moves, points, tally, adjusted, order>>
    BY <1>2 DEF Capture, InitiateWalletTopUp, purse, account
  <2> QED  BY <1>2, <2>1, StillSourced
<1>3. ASSUME NEW u \in Users,
             \/ \E r \in Users : ApplyReferralCode(u, r)
             \/ \E o \in Orders, price \in Prices, spend \in Spends, asked \in Spends :
                    CheckBalances(u, o, price, spend, asked)
             \/ HoldBalances(u)
             \/ RollBack(u)
      PROVE  Sourced'
  <2>1. UNCHANGED <<balance, moves, points, tally, adjusted, order, topup>>
    BY <1>3 DEF ApplyReferralCode, CheckBalances, HoldBalances, RollBack, purse, account
  <2> QED  BY <2>1, StillSourced
<1>4. CASE WalletsNext
  BY <1>2, <1>3, <1>4, VerifySourced, AdjustSourced, PlainSourced, BonusSourced, DeliverSourced,
     CancelSourced DEF WalletsNext
<1> QED  BY <1>1, <1>4

\* No wallet and no points account holds more or less than what was loaded, earned,
\* adjusted and spent, for any number of customers, orders and top-ups.
THEOREM NothingFromNowhere == WalletsSpec => []BalancesSourced
<1>1. WalletsInv /\ Sourced => BalancesSourced
  BY Columns DEF WalletsInv, Sourced, BalancesSourced
<1>2. WalletsSpec => []Sourced
  BY Invariance, SourcedInit, SourcedStep, PTL DEF WalletsSpec
<1> QED  BY <1>1, <1>2, Invariance, PTL
=============================================================================
