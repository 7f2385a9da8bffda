------------------------------ MODULE Payments ------------------------------
(***************************************************************************)
(* Online payment of orders (orders/views/create_order_views.py,           *)
(* orders/views/payment_views.py, orders/actions/payment_actions.py,       *)
(* orders/actions/refund_actions.py, orders/actions/cancellation_effects). *)
(*                                                                         *)
(* Razorpay is external: it opens a gateway order for an amount, captures  *)
(* one payment for it when the customer pays, and reports captures and     *)
(* refunds by webhook, as often and as late as it likes.  A payment is     *)
(* named after its gateway order.  Only checkout locks a payment session;  *)
(* everything that pays for an order placed earlier reads the order, talks *)
(* or checks, and saves it later.                                          *)
(***************************************************************************)
EXTENDS Integers

CONSTANTS
    Orders,     \* primary keys
    Gateways,   \* ids of gateway orders
    Keys,       \* idempotency keys
    Totals,     \* amounts
    NoOrder, NoGateway, NoKey

ASSUME PaymentsAssumption ==
    /\ Totals \subseteq Nat \ {0}
    /\ NoOrder \notin Orders
    /\ NoGateway \notin Gateways
    /\ NoKey \notin Keys

VARIABLES
    gateway,    \* gateway orders
    refunds,    \* refunds the gateway has accepted: order and payment
    session,    \* PaymentSession rows
    order,      \* orders
    mismatched, \* checkouts that were rolled back over their amount
    opening,    \* requests that have opened a gateway order for an order
    verifying,  \* requests that have checked a signature
    hooks       \* capture events that have been looked up

vars == <<gateway, refunds, session, order, mismatched, opening, verifying, hooks>>

razorpay == <<gateway, refunds>>
requests == <<mismatched, opening, verifying, hooks>>
-----------------------------------------------------------------------------
Amounts == Totals \cup {0}

Methods == {"cod", "razorpay"}

NoBill == [at |-> "none", amount |-> 0]

NoSession == [status |-> "none", amount |-> 0, orders |-> {}, seen |-> FALSE]

Blank == [status |-> "none", total |-> 0, method |-> "cod", key |-> NoKey,
          gateway |-> NoGateway, payment |-> NoGateway, paid |-> FALSE, refund |-> "none"]

TypeOK == /\ gateway \in [Gateways -> [at : {"none", "open", "captured"}, amount : Amounts]]
          /\ refunds \subseteq Orders \X Gateways
          /\ session \in [Gateways -> [status : {"none", "created", "paid", "failed"},
                                       amount : Amounts, orders : SUBSET Orders,
                                       seen : BOOLEAN]]
          /\ order \in [Orders -> [status  : {"none", "open", "delivered", "cancelled"},
                                   total   : Amounts,
                                   method  : Methods,
                                   key     : Keys \cup {NoKey},
                                   gateway : Gateways \cup {NoGateway},
                                   payment : Gateways \cup {NoGateway},
                                   paid    : BOOLEAN,
                                   refund  : {"none", "initiated", "processed", "failed"}]]
          /\ mismatched \subseteq Gateways
          /\ opening \subseteq Orders \X Gateways
          /\ verifying \subseteq Orders \X Gateways
          /\ hooks \subseteq (Orders \cup {NoOrder}) \X Gateways

Init == /\ gateway = [g \in Gateways |-> NoBill]
        /\ refunds = {}
        /\ session = [g \in Gateways |-> NoSession]
        /\ order = [o \in Orders |-> Blank]
        /\ mismatched = {}
        /\ opening = {}
        /\ verifying = {}
        /\ hooks = {}

Exists(o) == order[o].status # "none"

Captured(g) == gateway[g].at = "captured"

Bill(g, amount) == gateway' = [gateway EXCEPT ![g] = [at |-> "open", amount |-> amount]]

KeyFree(key) == key = NoKey \/ \A o \in Orders : order[o].key # key
-----------------------------------------------------------------------------
(* Razorpay and the customer at its checkout.                              *)

\* The customer pays; the checkout opens when the answer with the id is there.
Capture(g) ==
    /\ gateway[g].at = "open"
    /\ \A o \in Orders : <<o, g>> \notin opening
    /\ gateway' = [gateway EXCEPT ![g].at = "captured"]
    /\ UNCHANGED <<refunds, session, order, requests>>
-----------------------------------------------------------------------------
(* Payment before the order: checkout.                                     *)

\* InitiateCheckoutPaymentView, for the total of the basket as it is.
InitiateCheckout(g, amount) ==
    /\ gateway[g].at = "none"
    /\ Bill(g, amount)
    /\ session' = [session EXCEPT ![g] = [NoSession EXCEPT !.status = "created",
                                                           !.amount = amount]]
    /\ UNCHANGED <<refunds, order, requests>>

\* CreateOrderView without proof of an online payment.
CreateCashOrder(o, total, key) ==
    /\ ~Exists(o)
    /\ KeyFree(key)
    /\ order' = [order EXCEPT ![o] = [Blank EXCEPT !.status = "open", !.total = total,
                                                   !.key = key]]
    /\ UNCHANGED <<razorpay, session, requests>>

\* Mutant of Usable: what the session was used for is not looked at.
AnyProof(g) == Captured(g) /\ session[g].status # "none"

\* _verify_razorpay_signature, and _lock_payment_session unless it answers with
\* the orders the session has already paid for.
Usable(g) == /\ Captured(g)
             /\ session[g].status # "none"
             /\ session[g].status = "paid" => session[g].orders = {}

\* Mutant of Attach: the session's amount is not compared.
AttachAnyTotal(g, o, row) ==
    /\ order' = [order EXCEPT ![o] = [row EXCEPT !.gateway = g, !.payment = g, !.paid = TRUE]]
    /\ session' = [session EXCEPT ![g] = [@ EXCEPT !.status = "paid", !.orders = {o}]]

\* _attach_paid_session, the session being locked.
Attach(g, o, row) ==
    /\ row.total = session[g].amount
    /\ order' = [order EXCEPT ![o] = [row EXCEPT !.gateway = g, !.payment = g, !.paid = TRUE]]
    /\ session' = [session EXCEPT ![g] = [@ EXCEPT !.status = "paid", !.orders = {o}]]

\* The method is what the request says beside the proof.
CreatePaidOrder(g, o, total, key, method) ==
    /\ Usable(g)
    /\ ~Exists(o)
    /\ KeyFree(key)
    /\ Attach(g, o, [Blank EXCEPT !.status = "open", !.total = total, !.key = key,
                                  !.method = method])
    /\ UNCHANGED <<razorpay, requests>>

\* A key that has been used answers with its order, which gets the new payment.
ReplayWithPayment(g, o) ==
    /\ Usable(g)
    /\ Exists(o)
    /\ order[o].key # NoKey
    /\ Attach(g, o, order[o])
    /\ UNCHANGED <<razorpay, requests>>

\* The basket or the key's order has another total than was paid: the
\* transaction is rolled back and the session's lock is gone ...
Mismatch(g) ==
    /\ Usable(g)
    /\ mismatched' = mismatched \cup {g}
    /\ UNCHANGED <<razorpay, session, order, opening, verifying, hooks>>

\* ... when the session is marked, whatever it is by now.
FailSession(g) ==
    /\ g \in mismatched
    /\ session' = [session EXCEPT ![g].status = "failed"]
    /\ mismatched' = mismatched \ {g}
    /\ UNCHANGED <<razorpay, order, opening, verifying, hooks>>
-----------------------------------------------------------------------------
(* Payment of an order that is there.                                      *)

\* CreateRazorpayOrderView and its action up to the gateway's answer ...
OpenPayment(o, g) ==
    /\ order[o].status = "open"
    /\ ~order[o].paid
    /\ gateway[g].at = "none"
    /\ Bill(g, order[o].total)
    /\ opening' = opening \cup {<<o, g>>}
    /\ UNCHANGED <<refunds, session, order, mismatched, verifying, hooks>>

\* ... and the save of its id over the one that was there.
SaveOpened(o, g) ==
    /\ <<o, g>> \in opening
    /\ order' = [order EXCEPT ![o] = [@ EXCEPT !.gateway = g, !.method = "razorpay"]]
    /\ opening' = opening \ {<<o, g>>}
    /\ UNCHANGED <<razorpay, session, mismatched, verifying, hooks>>

\* VerifyRazorpayPaymentAction reads the order and checks the signature, which
\* only a captured payment of the order's gateway order has ...
BeginVerify(o, g) ==
    /\ order[o].gateway = g
    /\ ~order[o].paid
    /\ Captured(g)
    /\ verifying' = verifying \cup {<<o, g>>}
    /\ UNCHANGED <<razorpay, session, order, mismatched, opening, hooks>>

Verified(o, g) == order' = [order EXCEPT ![o] = [@ EXCEPT !.payment = g, !.paid = TRUE]]

\* ... and saves it.
SaveVerified(o, g) ==
    /\ <<o, g>> \in verifying
    /\ Verified(o, g)
    /\ verifying' = verifying \ {<<o, g>>}
    /\ UNCHANGED <<razorpay, session, mismatched, opening, hooks>>
-----------------------------------------------------------------------------
(* Webhooks.                                                               *)

Owners(g) == {o \in Orders : order[o].gateway = g}

\* _handle_payment_captured: an event may come again until the session has seen
\* it; two orders with the same gateway order raise, a paid order needs nothing.
BeginHook(g, o) ==
    /\ Captured(g)
    /\ ~session[g].seen
    /\ IF o = NoOrder THEN Owners(g) = {} ELSE Owners(g) = {o} /\ ~order[o].paid
    /\ hooks' = hooks \cup {<<o, g>>}
    /\ UNCHANGED <<razorpay, session, order, mismatched, opening, verifying>>

\* The payment was captured before there is an order.
SaveEarlyCapture(g) ==
    /\ <<NoOrder, g>> \in hooks
    /\ session' = IF session[g].status = "none" THEN session
                  ELSE [session EXCEPT ![g] = [@ EXCEPT !.status = "paid", !.seen = TRUE]]
    /\ hooks' = hooks \ {<<NoOrder, g>>}
    /\ UNCHANGED <<razorpay, order, mismatched, opening, verifying>>

\* An order with a session of its gateway order is paid, so the branch that
\* updates the session too is never taken.
SaveHook(o, g) ==
    /\ <<o, g>> \in hooks
    /\ Verified(o, g)
    /\ hooks' = hooks \ {<<o, g>>}
    /\ UNCHANGED <<razorpay, session, mismatched, opening, verifying>>

\* _handle_refund_event; the gateway ends a refund one way.
RefundEvent(o, outcome) ==
    /\ order[o].refund = "initiated"
    /\ order' = [order EXCEPT ![o].refund = outcome]
    /\ UNCHANGED <<razorpay, session, requests>>
-----------------------------------------------------------------------------
(* The end of an order.                                                    *)

Deliver(o) ==
    /\ order[o].status = "open"
    /\ order' = [order EXCEPT ![o].status = "delivered"]
    /\ UNCHANGED <<razorpay, session, requests>>

\* OrderCancellationEffectsAction and IssueRazorpayRefundAction, under the
\* order's lock.
Refundable(o) == /\ order[o].method = "razorpay"
                 /\ order[o].paid
                 /\ order[o].refund = "none"

Cancel(o) ==
    /\ order[o].status = "open"
    /\ ~Refundable(o)
    /\ order' = [order EXCEPT ![o].status = "cancelled"]
    /\ UNCHANGED <<razorpay, session, requests>>

\* Mutant of CancelAndRefund: an order can be cancelled again.
RefundAgain(o) ==
    /\ order[o].status \in {"open", "cancelled"}
    /\ Refundable(o)
    /\ refunds' = refunds \cup {<<o, order[o].payment>>}
    /\ order' = [order EXCEPT ![o] = [@ EXCEPT !.status = "cancelled",
                                               !.refund = "initiated"]]
    /\ UNCHANGED <<gateway, session, requests>>

\* The gateway's answer is recorded.
CancelAndRefund(o) ==
    /\ order[o].status = "open"
    /\ Refundable(o)
    /\ refunds' = refunds \cup {<<o, order[o].payment>>}
    /\ order' = [order EXCEPT ![o] = [@ EXCEPT !.status = "cancelled",
                                               !.refund = "initiated"]]
    /\ UNCHANGED <<gateway, session, requests>>

\* The call raises, before or after the gateway has acted; it is only logged.
CancelWithoutAnswer(o) ==
    /\ order[o].status = "open"
    /\ Refundable(o)
    /\ refunds' \in {refunds, refunds \cup {<<o, order[o].payment>>}}
    /\ order' = [order EXCEPT ![o].status = "cancelled"]
    /\ UNCHANGED <<gateway, session, requests>>
-----------------------------------------------------------------------------
CheckoutNext ==
    \E g \in Gateways :
        \/ Capture(g)
        \/ Mismatch(g)
        \/ FailSession(g)
        \/ SaveEarlyCapture(g)
        \/ BeginHook(g, NoOrder)
        \/ \E total \in Totals : InitiateCheckout(g, total)

OrderNext ==
    \E o \in Orders :
        \/ Deliver(o)
        \/ Cancel(o)
        \/ CancelAndRefund(o)
        \/ CancelWithoutAnswer(o)
        \/ \E outcome \in {"processed", "failed"} : RefundEvent(o, outcome)
        \/ \E total \in Totals, key \in Keys \cup {NoKey} : CreateCashOrder(o, total, key)

PaymentNext ==
    \E o \in Orders, g \in Gateways :
        \/ OpenPayment(o, g)
        \/ SaveOpened(o, g)
        \/ BeginVerify(o, g)
        \/ SaveVerified(o, g)
        \/ BeginHook(g, o)
        \/ SaveHook(o, g)
        \/ ReplayWithPayment(g, o)
        \/ \E total \in Totals, key \in Keys \cup {NoKey}, method \in Methods :
              CreatePaidOrder(g, o, total, key, method)

Next == CheckoutNext \/ OrderNext \/ PaymentNext

Spec == Init /\ [][Next]_vars
-----------------------------------------------------------------------------
(* Properties.                                                             *)

\* An order that is marked as paid names a payment that Razorpay has captured,
\* of the order's total, whatever retries, webhooks and verifications overlap.
PaidByCapture ==
    \A o \in Orders : order[o].paid =>
        /\ order[o].payment \in Gateways
        /\ Captured(order[o].payment)
        /\ gateway[order[o].payment].amount = order[o].total

\* A session that has paid for an order answers with it; a payment is taken for a
\* second order only if the session was marked failed in between.
SecondOrderAfterFailure ==
    [][\A o1, o2 \in Orders : \A g \in Gateways :
          o1 # o2 /\ order[o1].payment = g /\ order[o2].payment # g /\ order'[o2].payment = g
              => session[g].status = "failed"]_vars

\* Orders are paid and refunded as PaymentContract says.
Contract == INSTANCE PaymentContract
    WITH Payments <- Gateways,
         money <- [g \in Gateways |-> IF Captured(g) THEN gateway[g].amount ELSE 0],
         price <- [o \in Orders |-> order[o].total],
         paid <- {o \in Orders : order[o].paid},
         closed <- {o \in Orders : order[o].status = "cancelled"},
         returned <- refunds

ImplementsContract == Contract!Spec

\* "Receives Razorpay payment events and marks orders as paid automatically"
\* (RazorpayWebhookView): when the event of a captured payment has been handled,
\* an order or a session is marked with the payment.
CaptureIsRecorded ==
    [][\A g \in Gateways :
          <<NoOrder, g>> \in hooks /\ <<NoOrder, g>> \notin hooks'
              => \/ session'[g].status = "paid"
                 \/ \E o \in Orders : order'[o].payment = g]_vars
=============================================================================
