--------------------------- MODULE PaymentsProofs ---------------------------
(***************************************************************************)
(* Theorems about Payments for any orders, gateway orders, keys and totals *)
(* and any number of overlapping requests and webhooks.                    *)
(***************************************************************************)
EXTENDS Payments, TLAPS

\* A gateway order that may be paid for an order is for the order's total.
Backs(g, o) == /\ order[o].status # "none"
               /\ gateway[g].at # "none"
               /\ gateway[g].amount = order[o].total

\* An order that is not placed has no total, and nothing else either.
OrdersSound == \A o \in Orders :
    IF order[o].status = "none" THEN order[o].total = 0 /\ ~order[o].paid /\ order[o].refund = "none"
                                ELSE order[o].total \in Totals

GatewaysSound == \A g \in Gateways : gateway[g].at # "none" => gateway[g].amount \in Totals

SessionsSound == \A g \in Gateways :
    /\ session[g].status # "none" => /\ gateway[g].at # "none"
                                     /\ gateway[g].amount = session[g].amount
    /\ g \in mismatched => session[g].status # "none"

\* What a request remembers between its read and its save stays true: totals and
\* amounts are never changed again, and a capture is not undone.
Remembered == \A o \in Orders, g \in Gateways :
    /\ <<o, g>> \in opening => Backs(g, o)
    /\ order[o].gateway = g => Backs(g, o)
    /\ <<o, g>> \in verifying => Backs(g, o) /\ Captured(g)
    /\ <<o, g>> \in hooks => Backs(g, o) /\ Captured(g)

IInv == TypeOK /\ OrdersSound /\ GatewaysSound /\ SessionsSound /\ Remembered /\ PaidByCapture

GatewayRows == [at : {"none", "open", "captured"}, amount : Amounts]

SessionRows == [status : {"none", "created", "paid", "failed"}, amount : Amounts,
                orders : SUBSET Orders, seen : BOOLEAN]

OrderRows == [status  : {"none", "open", "delivered", "cancelled"},
              total   : Amounts,
              method  : Methods,
              key     : Keys \cup {NoKey},
              gateway : Gateways \cup {NoGateway},
              payment : Gateways \cup {NoGateway},
              paid    : BOOLEAN,
              refund  : {"none", "initiated", "processed", "failed"}]

LEMMA Columns ==
    ASSUME TypeOK
    PROVE  /\ gateway \in [Gateways -> GatewayRows]
           /\ session \in [Gateways -> SessionRows]
           /\ order \in [Orders -> OrderRows]
BY DEF TypeOK, GatewayRows, SessionRows, OrderRows

LEMMA InitInv == Init => IInv
<1> SUFFICES ASSUME Init PROVE IInv
  OBVIOUS
<1>1. /\ NoBill \in GatewayRows /\ NoSession \in SessionRows /\ Blank \in OrderRows
  BY DEF NoBill, NoSession, Blank, GatewayRows, SessionRows, OrderRows, Amounts, Methods
<1>2. TypeOK
  BY <1>1 DEF Init, TypeOK, GatewayRows, SessionRows, OrderRows
<1>3. OrdersSound /\ PaidByCapture
  BY DEF Init, Blank, OrdersSound, PaidByCapture
<1>4. GatewaysSound /\ SessionsSound
  BY DEF Init, NoBill, NoSession, GatewaysSound, SessionsSound
<1>5. Remembered
  BY PaymentsAssumption DEF Init, Blank, Remembered
<1> QED  BY <1>2, <1>3, <1>4, <1>5 DEF IInv
-----------------------------------------------------------------------------
(* Steps by what they touch.                                               *)

\* What the invariant says beside the types and the sessions.
Sound == OrdersSound /\ GatewaysSound /\ Remembered /\ PaidByCapture

\* A step that places or changes one order, and forgets requests at most.
LEMMA RowStep ==
    ASSUME IInv, NEW o \in Orders, NEW row \in OrderRows,
           order' = [order EXCEPT ![o] = row],
           row.status # "none", row.total \in Totals,
           order[o].status # "none" => row.total = order[o].total,
           row.gateway \in Gateways => /\ gateway[row.gateway].at # "none"
                                       /\ gateway[row.gateway].amount = row.total,
           row.paid => /\ row.payment \in Gateways
                       /\ gateway[row.payment].at = "captured"
                       /\ gateway[row.payment].amount = row.total,
           UNCHANGED gateway,
           opening' \subseteq opening, verifying' \subseteq verifying, hooks' \subseteq hooks
    PROVE  order' \in [Orders -> OrderRows] /\ Sound'
<1>1. order \in [Orders -> OrderRows]
  BY Columns DEF IInv
<1>2. order' \in [Orders -> OrderRows] /\ order'[o] = row
      /\ \A q \in Orders \ {o} : order'[q] = order[q]
  BY <1>1
<1>3. OrdersSound' /\ GatewaysSound'
  BY <1>2 DEF IInv, OrdersSound, GatewaysSound
<1>4. ASSUME NEW g \in Gateways, NEW q \in Orders, Backs(g, q) PROVE Backs(g, q)'
  BY <1>2, <1>4 DEF Backs
<1>5. \A g \in Gateways : Captured(g)' <=> Captured(g)
  BY DEF Captured
<1>6. Remembered'
  <2> SUFFICES ASSUME NEW q \in Orders, NEW g \in Gateways
               PROVE  /\ <<q, g>> \in opening' => Backs(g, q)'
                      /\ order'[q].gateway = g => Backs(g, q)'
                      /\ <<q, g>> \in verifying' => Backs(g, q)' /\ Captured(g)'
                      /\ <<q, g>> \in hooks' => Backs(g, q)' /\ Captured(g)'
    BY DEF Remembered
  <2>1. /\ <<q, g>> \in opening => Backs(g, q)
        /\ order[q].gateway = g => Backs(g, q)
        /\ <<q, g>> \in verifying => Backs(g, q) /\ Captured(g)
        /\ <<q, g>> \in hooks => Backs(g, q) /\ Captured(g)
    BY DEF IInv, Remembered
  <2>2. q = o /\ row.gateway = g => Backs(g, q)'
    BY <1>2 DEF Backs
  <2>3. q # o => order'[q] = order[q]
    BY <1>2
  <2> QED  BY <1>2, <1>4, <1>5, <2>1, <2>2, <2>3
<1>7. PaidByCapture'
  <2> SUFFICES ASSUME NEW q \in Orders, order'[q].paid
               PROVE  /\ order'[q].payment \in Gateways
                      /\ gateway[order'[q].payment].at = "captured"
                      /\ gateway[order'[q].payment].amount = order'[q].total
    BY DEF PaidByCapture, Captured
  <2>1. CASE q = o
    BY <1>2, <2>1
  <2>2. CASE q # o
    BY <1>2, <2>2 DEF IInv, PaidByCapture, Captured
  <2> QED  BY <2>1, <2>2
<1> QED  BY <1>2, <1>3, <1>6, <1>7 DEF Sound

\* A step that leaves the orders alone: gateway orders are opened and captured,
\* and requests remember what is the case.
LEMMA GatewayStep ==
    ASSUME IInv, NEW g \in Gateways, NEW bill \in GatewayRows,
           gateway' = [gateway EXCEPT ![g] = bill],
           bill.at # "none" => bill.amount \in Totals,
           gateway[g].at # "none" => bill.at # "none" /\ bill.amount = gateway[g].amount,
           gateway[g].at = "captured" => bill.at = "captured",
           UNCHANGED order,
           \A q \in Orders, h \in Gateways :
              /\ <<q, h>> \in opening' => <<q, h>> \in opening \/ Backs(h, q)'
              /\ <<q, h>> \in verifying' => \/ <<q, h>> \in verifying
                                            \/ Backs(h, q)' /\ Captured(h)'
              /\ <<q, h>> \in hooks' => \/ <<q, h>> \in hooks
                                        \/ Backs(h, q)' /\ Captured(h)'
    PROVE  /\ gateway' \in [Gateways -> GatewayRows]
           /\ \A h \in Gateways : gateway[h].at # "none" =>
                 gateway'[h].at # "none" /\ gateway'[h].amount = gateway[h].amount
           /\ Sound'
<1>1. gateway \in [Gateways -> GatewayRows] /\ order \in [Orders -> OrderRows]
  BY Columns DEF IInv
<1>2. gateway' \in [Gateways -> GatewayRows] /\ gateway'[g] = bill
      /\ \A h \in Gateways \ {g} : gateway'[h] = gateway[h]
  BY <1>1
<1>3. \A h \in Gateways : gateway[h].at # "none" =>
         gateway'[h].at # "none" /\ gateway'[h].amount = gateway[h].amount
  BY <1>2
<1>4. \A h \in Gateways : gateway[h].at = "captured" => gateway'[h].at = "captured"
  BY <1>2
<1>5. OrdersSound' /\ GatewaysSound'
  BY <1>2 DEF IInv, OrdersSound, GatewaysSound
<1>6. \A h \in Gateways, q \in Orders : Backs(h, q) => Backs(h, q)'
  BY <1>3 DEF Backs
<1>7. \A h \in Gateways : Captured(h) => Captured(h)'
  BY <1>4 DEF Captured
<1>8. Remembered'
  BY <1>6, <1>7 DEF IInv, Remembered
<1>9. PaidByCapture'
  <2> SUFFICES ASSUME NEW q \in Orders, order[q].paid
               PROVE  /\ order[q].payment \in Gateways
                      /\ gateway'[order[q].payment].at = "captured"
                      /\ gateway'[order[q].payment].amount = order[q].total
    BY DEF PaidByCapture, Captured
  <2> QED  BY <1>3, <1>4 DEF IInv, PaidByCapture, Captured
<1> QED  BY <1>2, <1>3, <1>5, <1>8, <1>9 DEF Sound
-----------------------------------------------------------------------------
(* The steps that place or change an order.                                *)

\* A gateway order that an order names, or a request remembers, backs it.
LEMMA RowOf ==
    ASSUME IInv, NEW o \in Orders
    PROVE  /\ order[o] \in OrderRows
           /\ order[o].status # "none" => order[o].total \in Totals
           /\ order[o].status = "none" => ~order[o].paid
           /\ order[o].gateway \in Gateways =>
                 /\ gateway[order[o].gateway].at # "none"
                 /\ gateway[order[o].gateway].amount = order[o].total
                 /\ order[o].status # "none"
           /\ order[o].paid => /\ order[o].payment \in Gateways
                               /\ gateway[order[o].payment].at = "captured"
                               /\ gateway[order[o].payment].amount = order[o].total
<1>1. order[o] \in OrderRows
  BY Columns DEF IInv
<1>2. \A g \in Gateways : order[o].gateway = g => Backs(g, o)
  BY DEF IInv, Remembered
<1> QED  BY <1>1, <1>2 DEF IInv, OrdersSound, PaidByCapture, Captured, Backs

\* The end of an order and the events of its refund.
LEMMA CloseStep ==
    ASSUME IInv, NEW o \in Orders, NEW row \in OrderRows, order' = [order EXCEPT ![o] = row],
           order[o].status # "none", row.status # "none",
           row.total = order[o].total, row.gateway = order[o].gateway,
           row.paid = order[o].paid, row.payment = order[o].payment,
           UNCHANGED <<gateway, session, requests>>, refunds' \subseteq Orders \X Gateways
    PROVE  IInv'
<1>1. order' \in [Orders -> OrderRows] /\ Sound'
  BY RowOf, RowStep DEF requests
<1>2. SessionsSound'
  BY DEF IInv, SessionsSound, requests
<1>3. TypeOK'
  BY <1>1 DEF IInv, TypeOK, OrderRows, requests
<1> QED  BY <1>1, <1>2, <1>3 DEF IInv, Sound

\* An open payment, a verification or a webhook is saved.
LEMMA SaveStep ==
    ASSUME IInv, NEW o \in Orders, NEW g \in Gateways,
           SaveOpened(o, g) \/ SaveVerified(o, g) \/ SaveHook(o, g)
    PROVE  IInv'
<1> DEFINE row == IF SaveOpened(o, g)
                  THEN [order[o] EXCEPT !.gateway = g, !.method = "razorpay"]
                  ELSE [order[o] EXCEPT !.payment = g, !.paid = TRUE]
<1>1. /\ UNCHANGED <<razorpay, session, mismatched>>
      /\ opening' \subseteq opening /\ verifying' \subseteq verifying /\ hooks' \subseteq hooks
  BY DEF SaveOpened, SaveVerified, SaveHook
<1>2. order[o] \in OrderRows
  BY RowOf
<1>3. order' = [order EXCEPT ![o] = row]
  BY DEF SaveOpened, SaveVerified, SaveHook, Verified
<1>4. SaveOpened(o, g) \/ Captured(g)
  BY DEF SaveVerified, SaveHook, IInv, Remembered
<1>5. Backs(g, o)
  BY DEF SaveOpened, SaveVerified, SaveHook, IInv, Remembered
<1>6. /\ row \in OrderRows /\ row.status = order[o].status /\ row.total = order[o].total
      /\ row.gateway = g \/ row.gateway = order[o].gateway
      /\ row.paid => \/ row.payment = order[o].payment /\ order[o].paid
                     \/ row.payment = g /\ Captured(g)
  BY <1>2, <1>4 DEF OrderRows, Methods
<1> HIDE DEF row
<1>7. order' \in [Orders -> OrderRows] /\ Sound'
  BY <1>1, <1>3, <1>5, <1>6, RowOf, RowStep DEF Backs, Captured, razorpay
<1>8. SessionsSound'
  BY <1>1 DEF IInv, SessionsSound, razorpay
<1>9. TypeOK'
  BY <1>1, <1>7 DEF IInv, TypeOK, OrderRows, razorpay
<1> QED  BY <1>7, <1>8, <1>9 DEF IInv, Sound

LEMMA CashStep ==
    ASSUME IInv, NEW o \in Orders, NEW total \in Totals, NEW key \in Keys \cup {NoKey},
           CreateCashOrder(o, total, key)
    PROVE  IInv'
<1> DEFINE row == [Blank EXCEPT !.status = "open", !.total = total, !.key = key]
<1>1. row \in OrderRows /\ row.status = "open" /\ row.total = total /\ ~row.paid
      /\ row.gateway = NoGateway
  BY DEF Blank, OrderRows, Amounts, Methods
<1>2. order' = [order EXCEPT ![o] = row] /\ order[o].status = "none"
      /\ UNCHANGED <<gateway, refunds, session, mismatched, opening, verifying, hooks>>
  BY DEF CreateCashOrder, Exists, razorpay, requests
<1> HIDE DEF row
<1>3. order' \in [Orders -> OrderRows] /\ Sound'
  BY <1>1, <1>2, RowStep, PaymentsAssumption
<1>4. SessionsSound'
  BY <1>2 DEF IInv, SessionsSound
<1>5. TypeOK'
  BY <1>2, <1>3 DEF IInv, TypeOK, OrderRows
<1> QED  BY <1>3, <1>4, <1>5 DEF IInv, Sound

\* A session pays for an order that is placed with it, or that its key names.
LEMMA AttachStep ==
    ASSUME IInv, NEW g \in Gateways, NEW o \in Orders, NEW row \in OrderRows,
           Usable(g), Attach(g, o, row),
           row.status # "none", row.total \in Totals,
           order[o].status # "none" => row.total = order[o].total,
           UNCHANGED <<razorpay, requests>>
    PROVE  IInv'
<1> DEFINE new == [row EXCEPT !.gateway = g, !.payment = g, !.paid = TRUE]
           used == [session[g] EXCEPT !.status = "paid", !.orders = {o}]
<1>1. gateway[g].at = "captured" /\ gateway[g].amount = row.total
  BY DEF Usable, Captured, Attach, IInv, SessionsSound
<1>2. session[g] \in SessionRows
  BY Columns DEF IInv
<1>3. /\ new \in OrderRows /\ new.status = row.status /\ new.total = row.total
      /\ new.gateway = g /\ new.payment = g
  BY DEF OrderRows
<1>4. used \in SessionRows /\ used.amount = session[g].amount /\ used.status = "paid"
  BY <1>2 DEF SessionRows
<1>5. /\ order' = [order EXCEPT ![o] = new] /\ session' = [session EXCEPT ![g] = used]
      /\ UNCHANGED <<gateway, refunds, mismatched, opening, verifying, hooks>>
  BY DEF Attach, razorpay, requests
<1> HIDE DEF new, used
<1>6. order' \in [Orders -> OrderRows] /\ Sound'
  BY <1>1, <1>3, <1>5, RowStep
<1>7. session' \in [Gateways -> SessionRows]
  BY <1>4, <1>5, Columns DEF IInv
<1>8. SessionsSound'
  <2>1. session[g].status # "none"
    BY DEF Usable
  <2>2. session \in [Gateways -> SessionRows]
    BY Columns DEF IInv
  <2> QED  BY <1>4, <1>5, <2>1, <2>2 DEF IInv, SessionsSound
<1>9. TypeOK'
  BY <1>5, <1>6, <1>7 DEF IInv, TypeOK, OrderRows, SessionRows
<1> QED  BY <1>6, <1>8, <1>9 DEF IInv, Sound
-----------------------------------------------------------------------------
(* The steps that leave the orders alone.                                  *)

\* The gateway opens a gateway order, for a basket or for an order.
LEMMA BillStep ==
    ASSUME IInv, NEW g \in Gateways,
           \/ \E amount \in Totals : InitiateCheckout(g, amount)
           \/ \E o \in Orders : OpenPayment(o, g)
    PROVE  IInv'
<1> DEFINE bill(n) == [at |-> "open", amount |-> n]
<1>1. ASSUME NEW amount \in Totals, InitiateCheckout(g, amount) PROVE IInv'
  <2>1. /\ gateway' = [gateway EXCEPT ![g] = bill(amount)] /\ gateway[g].at = "none"
        /\ bill(amount) \in GatewayRows
        /\ UNCHANGED <<refunds, order, mismatched, opening, verifying, hooks>>
    BY <1>1 DEF InitiateCheckout, Bill, requests, GatewayRows, Amounts
  <2>2. /\ gateway' \in [Gateways -> GatewayRows] /\ Sound'
        /\ \A h \in Gateways : gateway[h].at # "none" =>
              gateway'[h].at # "none" /\ gateway'[h].amount = gateway[h].amount
    BY <2>1, GatewayStep
  <2> DEFINE opened == [NoSession EXCEPT !.status = "created", !.amount = amount]
  <2>3. /\ session' = [session EXCEPT ![g] = opened]
        /\ opened \in SessionRows /\ opened.amount = amount
    <3>1. session' = [session EXCEPT ![g] = opened]
      BY <1>1 DEF InitiateCheckout
    <3>2. opened \in SessionRows /\ opened.amount = amount
      BY DEF NoSession, SessionRows, Amounts
    <3> QED  BY <3>1, <3>2
  <2> HIDE DEF opened
  <2>4. session \in [Gateways -> SessionRows] /\ gateway \in [Gateways -> GatewayRows]
    BY Columns DEF IInv
  <2>5. SessionsSound'
    BY <2>1, <2>2, <2>3, <2>4 DEF IInv, SessionsSound
  <2>6. TypeOK'
    BY <2>1, <2>2, <2>3, <2>4 DEF IInv, TypeOK, GatewayRows, SessionRows
  <2> QED  BY <2>2, <2>5, <2>6 DEF IInv, Sound
<1>2. ASSUME NEW o \in Orders, OpenPayment(o, g) PROVE IInv'
  <2>1. order[o].total \in Totals /\ order[o].status # "none"
    BY <1>2, RowOf DEF OpenPayment
  <2>2. /\ gateway' = [gateway EXCEPT ![g] = bill(order[o].total)] /\ gateway[g].at = "none"
        /\ bill(order[o].total) \in GatewayRows
        /\ opening' = opening \cup {<<o, g>>}
        /\ UNCHANGED <<refunds, session, order, mismatched, verifying, hooks>>
    BY <1>2, <2>1 DEF OpenPayment, Bill, GatewayRows, Amounts
  <2>3. gateway \in [Gateways -> GatewayRows]
    BY Columns DEF IInv
  <2>4. Backs(g, o)'
    BY <2>1, <2>2, <2>3 DEF Backs
  <2>5. /\ gateway' \in [Gateways -> GatewayRows] /\ Sound'
        /\ \A h \in Gateways : gateway[h].at # "none" =>
              gateway'[h].at # "none" /\ gateway'[h].amount = gateway[h].amount
    BY <2>1, <2>2, <2>4, GatewayStep
  <2>6. SessionsSound'
    BY <2>2, <2>5 DEF IInv, SessionsSound
  <2>7. TypeOK'
    BY <2>2, <2>5 DEF IInv, TypeOK, GatewayRows
  <2> QED  BY <2>5, <2>6, <2>7 DEF IInv, Sound
<1> QED  BY <1>1, <1>2

LEMMA CaptureStep == ASSUME IInv, NEW g \in Gateways, Capture(g) PROVE IInv'
<1> DEFINE bill == [gateway[g] EXCEPT !.at = "captured"]
<1>1. gateway \in [Gateways -> GatewayRows]
  BY Columns DEF IInv
<1>2. bill \in GatewayRows /\ bill.at = "captured" /\ bill.amount = gateway[g].amount
  BY <1>1 DEF GatewayRows
<1>3. /\ gateway' = [gateway EXCEPT ![g] = bill] /\ gateway[g].at = "open"
      /\ UNCHANGED <<refunds, session, order, mismatched, opening, verifying, hooks>>
  BY DEF Capture, requests
<1> HIDE DEF bill
<1>4. bill.amount \in Totals
  BY <1>2, <1>3 DEF IInv, GatewaysSound
<1>5. /\ gateway' \in [Gateways -> GatewayRows] /\ Sound'
      /\ \A h \in Gateways : gateway[h].at # "none" =>
            gateway'[h].at # "none" /\ gateway'[h].amount = gateway[h].amount
  BY <1>2, <1>3, <1>4, GatewayStep
<1>6. SessionsSound'
  BY <1>3, <1>5 DEF IInv, SessionsSound
<1>7. TypeOK'
  BY <1>3, <1>5 DEF IInv, TypeOK, GatewayRows
<1> QED  BY <1>5, <1>6, <1>7 DEF IInv, Sound

\* A request or an event is begun, and a session is marked.
LEMMA RequestStep ==
    ASSUME IInv, NEW g \in Gateways, NEW o \in Orders \cup {NoOrder},
           \/ Mismatch(g) \/ FailSession(g) \/ SaveEarlyCapture(g)
           \/ BeginHook(g, o)
           \/ o \in Orders /\ BeginVerify(o, g)
    PROVE  IInv'
<1>1. /\ UNCHANGED <<gateway, refunds, order, opening>>
      /\ mismatched' \subseteq Gateways
      /\ verifying' \subseteq Orders \X Gateways
      /\ hooks' \subseteq (Orders \cup {NoOrder}) \X Gateways
  BY DEF IInv, TypeOK, Mismatch, FailSession, SaveEarlyCapture, BeginHook, BeginVerify,
         razorpay
<1>2. session \in [Gateways -> SessionRows]
  BY Columns DEF IInv
<1>3. /\ session' \in [Gateways -> SessionRows]
      /\ \A h \in Gateways : /\ session'[h].amount = session[h].amount
                             /\ session'[h].status = "none" <=> session[h].status = "none"
  <2>1. CASE UNCHANGED session
    BY <1>2, <2>1
  <2>2. CASE FailSession(g)
    <3>1. session[g].status # "none"
      BY <2>2 DEF FailSession, IInv, SessionsSound
    <3>2. [session[g] EXCEPT !.status = "failed"] \in SessionRows
      BY <1>2 DEF SessionRows
    <3> QED  BY <1>2, <2>2, <3>1, <3>2 DEF FailSession, SessionRows
  <2>3. CASE SaveEarlyCapture(g)
    <3> DEFINE new == [session[g] EXCEPT !.status = "paid", !.seen = TRUE]
    <3>1. new \in SessionRows /\ new.status = "paid" /\ new.amount = session[g].amount
      BY <1>2 DEF SessionRows
    <3>2. \/ UNCHANGED session
          \/ session' = [session EXCEPT ![g] = new] /\ session[g].status # "none"
      BY <2>3 DEF SaveEarlyCapture
    <3> HIDE DEF new
    <3> QED  BY <1>2, <3>1, <3>2
  <2> QED  BY <2>1, <2>2, <2>3 DEF Mismatch, BeginHook, BeginVerify
<1>4. \A h \in mismatched' : h \in mismatched \/ session[h].status # "none"
  BY DEF Mismatch, Usable, FailSession, SaveEarlyCapture, BeginHook, BeginVerify
<1>5. SessionsSound'
  BY <1>1, <1>3, <1>4 DEF IInv, SessionsSound
<1>6. \A q \in Orders, h \in Gateways :
         /\ <<q, h>> \in verifying' => \/ <<q, h>> \in verifying
                                       \/ Backs(h, q) /\ Captured(h)
         /\ <<q, h>> \in hooks' => \/ <<q, h>> \in hooks
                                   \/ Backs(h, q) /\ Captured(h)
  <2>1. CASE o \in Orders /\ BeginVerify(o, g)
    BY <2>1 DEF BeginVerify, IInv, Remembered
  <2>2. CASE BeginHook(g, o)
    BY <2>2, PaymentsAssumption DEF BeginHook, Owners, IInv, Remembered
  <2> QED
    BY <2>1, <2>2 DEF Mismatch, FailSession, SaveEarlyCapture
<1>7. Remembered'
  BY <1>1, <1>6 DEF IInv, Remembered, Backs, Captured
<1>8. OrdersSound' /\ GatewaysSound' /\ PaidByCapture'
  BY <1>1 DEF IInv, OrdersSound, GatewaysSound, PaidByCapture, Captured
<1>9. TypeOK'
  BY <1>1, <1>3 DEF IInv, TypeOK, SessionRows
<1> QED  BY <1>5, <1>7, <1>8, <1>9 DEF IInv
-----------------------------------------------------------------------------
LEMMA InvStep == IInv /\ [Next]_vars => IInv'
<1> SUFFICES ASSUME IInv, [Next]_vars PROVE IInv'
  OBVIOUS
<1>1. CASE UNCHANGED vars
  BY <1>1 DEF vars, IInv, TypeOK, OrdersSound, GatewaysSound, SessionsSound, Remembered,
              PaidByCapture, Backs, Captured
<1>2. ASSUME NEW o \in Orders, Deliver(o) \/ Cancel(o) \/ CancelAndRefund(o)
             \/ CancelWithoutAnswer(o)
             \/ \E outcome \in {"processed", "failed"} : RefundEvent(o, outcome)
      PROVE  IInv'
  <2>1. /\ order[o] \in OrderRows /\ order[o].status # "none"
        /\ order[o].paid => order[o].payment \in Gateways
    BY <1>2, RowOf DEF Deliver, Cancel, CancelAndRefund, CancelWithoutAnswer, RefundEvent,
                       IInv, OrdersSound
  <2>2. refunds' \subseteq Orders \X Gateways
    BY <1>2, <2>1 DEF Deliver, Cancel, CancelAndRefund, CancelWithoutAnswer, RefundEvent,
                      Refundable, razorpay, IInv, TypeOK
  <2>3. PICK row \in OrderRows :
           /\ order' = [order EXCEPT ![o] = row]
           /\ row.status # "none" /\ row.total = order[o].total
           /\ row.gateway = order[o].gateway
           /\ row.paid = order[o].paid /\ row.payment = order[o].payment
    <3>1. CASE Deliver(o)
      <4>1. [order[o] EXCEPT !.status = "delivered"] \in OrderRows
        BY <2>1 DEF OrderRows
      <4> QED  BY <2>1, <3>1, <4>1 DEF Deliver, OrderRows
    <3>2. CASE Cancel(o) \/ CancelWithoutAnswer(o)
      <4>1. [order[o] EXCEPT !.status = "cancelled"] \in OrderRows
        BY <2>1 DEF OrderRows
      <4> QED  BY <2>1, <3>2, <4>1 DEF Cancel, CancelWithoutAnswer, OrderRows
    <3>3. CASE CancelAndRefund(o)
      <4> DEFINE row == [order[o] EXCEPT !.status = "cancelled", !.refund = "initiated"]
      <4>1. /\ row \in OrderRows /\ row.status = "cancelled" /\ row.total = order[o].total
            /\ row.gateway = order[o].gateway
            /\ row.paid = order[o].paid /\ row.payment = order[o].payment
        BY <2>1 DEF OrderRows
      <4>2. order' = [order EXCEPT ![o] = row]
        BY <3>3 DEF CancelAndRefund
      <4> QED  BY <4>1, <4>2
    <3>4. ASSUME NEW outcome \in {"processed", "failed"}, RefundEvent(o, outcome)
          PROVE  \E row \in OrderRows :
                    /\ order' = [order EXCEPT ![o] = row]
                    /\ row.status # "none" /\ row.total = order[o].total
                    /\ row.gateway = order[o].gateway
                    /\ row.paid = order[o].paid /\ row.payment = order[o].payment
      <4>1. [order[o] EXCEPT !.refund = outcome] \in OrderRows
        BY <2>1 DEF OrderRows
      <4> QED  BY <2>1, <3>4, <4>1 DEF RefundEvent, OrderRows
    <3> QED  BY <1>2, <3>1, <3>2, <3>3, <3>4
  <2> QED
    BY <1>2, <2>1, <2>2, <2>3, CloseStep
    DEF Deliver, Cancel, CancelAndRefund, CancelWithoutAnswer, RefundEvent, razorpay, requests
<1>3. ASSUME NEW o \in Orders, NEW g \in Gateways, ReplayWithPayment(g, o) PROVE IInv'
  BY <1>3, RowOf, AttachStep DEF ReplayWithPayment, Exists
<1>4. ASSUME NEW o \in Orders, NEW g \in Gateways, NEW total \in Totals,
             NEW key \in Keys \cup {NoKey}, NEW method \in Methods,
             CreatePaidOrder(g, o, total, key, method)
      PROVE  IInv'
  <2> DEFINE row == [Blank EXCEPT !.status = "open", !.total = total, !.key = key,
                                  !.method = method]
  <2>1. row \in OrderRows /\ row.status = "open" /\ row.total = total
    BY DEF Blank, OrderRows, Amounts, Methods
  <2>2. /\ Usable(g) /\ Attach(g, o, row) /\ order[o].status = "none"
        /\ UNCHANGED <<razorpay, requests>>
    BY <1>4 DEF CreatePaidOrder, Exists
  <2> HIDE DEF row
  <2> QED  BY <2>1, <2>2, AttachStep
<1>5. CASE CheckoutNext
  BY <1>5, BillStep, CaptureStep, RequestStep DEF CheckoutNext
<1>6. CASE OrderNext
  BY <1>2, <1>6, CashStep DEF OrderNext
<1>7. CASE PaymentNext
  BY <1>3, <1>4, <1>7, SaveStep, BillStep, RequestStep DEF PaymentNext
<1> QED
  BY <1>1, <1>5, <1>6, <1>7 DEF Next
-----------------------------------------------------------------------------
LEMMA Invariance == Spec => []IInv
BY InitInv, InvStep, PTL DEF Spec

\* The rows keep their types, whatever overlaps.
THEOREM TypeCorrect == Spec => []TypeOK
<1>1. IInv => TypeOK
  BY DEF IInv
<1> QED  BY <1>1, Invariance, PTL

\* An order that is marked as paid (payment_actions.py, create_order_views.py and
\* the webhook all do) names a captured payment of the order's total.
THEOREM CaptureBehindPaid == Spec => []PaidByCapture
<1>1. IInv => PaidByCapture
  BY DEF IInv
<1> QED  BY <1>1, Invariance, PTL
-----------------------------------------------------------------------------
(* Payments implements PaymentContract: initial states and steps.          *)

Money == [g \in Gateways |-> IF Captured(g) THEN gateway[g].amount ELSE 0]
Price == [o \in Orders |-> order[o].total]
Paid == {o \in Orders : order[o].paid}
Closed == {o \in Orders : order[o].status = "cancelled"}

LEMMA ContractInit == Init => Contract!Init
BY DEF Init, Contract!Init, Captured, NoBill, Blank

\* What a step that places or changes one order is to the contract.
LEMMA OneOrder ==
    ASSUME IInv, NEW o \in Orders, NEW row \in OrderRows, order' = [order EXCEPT ![o] = row]
    PROVE  /\ Price' = [Price EXCEPT ![o] = row.total] /\ Price'[o] = row.total
           /\ Paid' = IF row.paid THEN Paid \cup {o} ELSE Paid \ {o}
           /\ Closed' = IF row.status = "cancelled" THEN Closed \cup {o} ELSE Closed \ {o}
           /\ row.total = order[o].total => Price' = Price
<1>1. order \in [Orders -> OrderRows]
  BY Columns DEF IInv
<1>2. order' \in [Orders -> OrderRows] /\ order'[o] = row
      /\ \A q \in Orders \ {o} : order'[q] = order[q]
  BY <1>1
<1> QED  BY <1>2 DEF Price, Paid, Closed

LEMMA ContractQuiet ==
    UNCHANGED <<Money, Price, Paid, Closed, refunds>> => UNCHANGED Contract!vars
BY DEF Contract!vars, Money, Price, Paid, Closed

LEMMA ContractCapture ==
    ASSUME IInv, NEW g \in Gateways, Capture(g)
    PROVE  Contract!Next
<1>1. gateway \in [Gateways -> GatewayRows]
  BY Columns DEF IInv
<1>2. /\ gateway[g].at = "open" /\ gateway'[g].at = "captured"
      /\ gateway'[g].amount = gateway[g].amount
      /\ \A h \in Gateways \ {g} : gateway'[h] = gateway[h]
  BY <1>1 DEF Capture, GatewayRows
<1>3. gateway[g].amount \in Nat \ {0}
  BY <1>2, PaymentsAssumption DEF IInv, GatewaysSound
<1>4. Money[g] = 0 /\ Money'[g] = gateway[g].amount
      /\ Money' = [Money EXCEPT ![g] = Money'[g]]
  BY <1>2 DEF Money, Captured
<1>5. UNCHANGED <<Price, Paid, Closed, refunds>>
  BY DEF Capture, Price, Paid, Closed
<1>6. Contract!Capture(g)
  BY <1>3, <1>4, <1>5
  DEF Contract!Capture, Contract!Amounts, Money, Price, Paid, Closed
<1> QED  BY <1>6 DEF Contract!Next

\* An order is paid for when a payment of its total is captured, so every captured
\* gateway order that names the total will do.
LEMMA ContractPlace ==
    ASSUME IInv, NEW o \in Orders, NEW row \in OrderRows, order' = [order EXCEPT ![o] = row],
           order[o].status = "none", row.status = "open", row.total \in Totals,
           row.paid => \E g \in Gateways : Money[g] = row.total,
           UNCHANGED <<gateway, refunds>>
    PROVE  Contract!Next
<1>1. Price[o] = 0 /\ row.total \in Nat \ {0} /\ o \notin Paid /\ o \notin Closed
  BY PaymentsAssumption DEF IInv, OrdersSound, Price, Paid, Closed
<1>2. UNCHANGED Money
  BY DEF Money, Captured
<1>3. /\ Price' = [Price EXCEPT ![o] = row.total] /\ Price'[o] = row.total
      /\ Paid' = IF row.paid THEN Paid \cup {o} ELSE Paid \ {o}
      /\ Closed' = IF row.status = "cancelled" THEN Closed \cup {o} ELSE Closed \ {o}
  BY OneOrder
<1>4. Paid \ {o} = Paid /\ Closed \ {o} = Closed
  BY <1>1
<1>5. UNCHANGED Closed /\ Paid' \in {Paid, Paid \cup {o}} /\ (o \in Paid' => row.paid)
  BY <1>1, <1>3, <1>4
<1>6. Contract!Place(o)
  BY <1>1, <1>2, <1>3, <1>5
  DEF Contract!Place, Contract!Amounts, Money, Price, Paid, Closed
<1> QED  BY <1>6 DEF Contract!Next

LEMMA ContractPay ==
    ASSUME IInv, NEW o \in Orders, NEW row \in OrderRows, order' = [order EXCEPT ![o] = row],
           order[o].status # "none", row.status = order[o].status,
           row.total = order[o].total, row.paid,
           \E g \in Gateways : Money[g] = row.total,
           UNCHANGED <<gateway, refunds>>
    PROVE  Contract!Next
<1>1. Price[o] # 0 /\ Price[o] = row.total
  BY PaymentsAssumption DEF IInv, OrdersSound, Price
<1>2. UNCHANGED <<Money, Price, Closed>> /\ Paid' = Paid \cup {o}
  BY OneOrder DEF Money, Captured, Closed
<1>3. Contract!Pay(o)
  BY <1>1, <1>2 DEF Contract!Pay, Money, Price, Paid, Closed
<1> QED  BY <1>3 DEF Contract!Next

LEMMA ContractCancel ==
    ASSUME IInv, NEW o \in Orders, NEW row \in OrderRows, order' = [order EXCEPT ![o] = row],
           order[o].status = "open", row.status = "cancelled",
           row.total = order[o].total, row.paid = order[o].paid,
           \/ UNCHANGED refunds
           \/ order[o].paid /\ refunds' = refunds \cup {<<o, order[o].payment>>},
           UNCHANGED gateway
    PROVE  Contract!Next
<1>1. Price[o] # 0 /\ o \notin Closed /\ Price[o] = order[o].total
  BY PaymentsAssumption DEF IInv, OrdersSound, Price, Closed
<1>2. UNCHANGED <<Money, Price, Paid>> /\ Closed' = Closed \cup {o}
  BY OneOrder DEF Money, Captured, Paid
<1>3. \/ UNCHANGED refunds
      \/ /\ o \in Paid
         /\ \E g \in Gateways : Money[g] = Price[o] /\ refunds' = refunds \cup {<<o, g>>}
  BY <1>1 DEF IInv, PaidByCapture, Money, Paid
<1>4. Contract!Cancel(o)
  BY <1>1, <1>2, <1>3 DEF Contract!Cancel, Money, Price, Paid, Closed
<1> QED  BY <1>4 DEF Contract!Next

\* The steps that the contract does not see.
LEMMA ContractSilent ==
    ASSUME IInv, NEW o \in Orders \cup {NoOrder}, NEW g \in Gateways,
           \/ Mismatch(g) \/ FailSession(g) \/ SaveEarlyCapture(g) \/ BeginHook(g, o)
           \/ \E total \in Totals : InitiateCheckout(g, total)
           \/ /\ o \in Orders
              /\ OpenPayment(o, g) \/ SaveOpened(o, g) \/ BeginVerify(o, g)
    PROVE  UNCHANGED Contract!vars
<1>1. gateway \in [Gateways -> GatewayRows] /\ order \in [Orders -> OrderRows]
  BY Columns DEF IInv
<1>2. UNCHANGED refunds
  BY DEF Mismatch, FailSession, SaveEarlyCapture, BeginHook, InitiateCheckout, OpenPayment,
         SaveOpened, BeginVerify, razorpay
<1>3. \/ UNCHANGED gateway
      \/ \E amount \in Amounts : gateway[g].at = "none" /\ Bill(g, amount)
  <2>1. ASSUME o \in Orders, OpenPayment(o, g) PROVE order[o].total \in Amounts
    BY <1>1, <2>1 DEF OrderRows
  <2> QED
    BY <2>1 DEF Mismatch, FailSession, SaveEarlyCapture, BeginHook, InitiateCheckout,
         OpenPayment, SaveOpened, BeginVerify, razorpay, Amounts
<1>4. UNCHANGED Money
  BY <1>1, <1>3 DEF Money, Captured, Bill
<1>5. \A q \in Orders : /\ order'[q].total = order[q].total
                        /\ order'[q].paid = order[q].paid
                        /\ order'[q].status = "cancelled" <=> order[q].status = "cancelled"
  <2>1. CASE UNCHANGED order
    BY <2>1
  <2>2. CASE o \in Orders /\ SaveOpened(o, g)
    BY <1>1, <2>2 DEF SaveOpened, OrderRows
  <2> QED
    BY <2>1, <2>2
    DEF Mismatch, FailSession, SaveEarlyCapture, BeginHook, InitiateCheckout, OpenPayment,
        BeginVerify
<1>6. UNCHANGED <<Price, Paid, Closed>>
  BY <1>5 DEF Price, Paid, Closed
<1> QED  BY <1>2, <1>4, <1>6, ContractQuiet

LEMMA ContractRow ==
    ASSUME IInv, NEW o \in Orders, NEW g \in Gateways,
           \/ SaveVerified(o, g) \/ SaveHook(o, g) \/ ReplayWithPayment(g, o)
           \/ \E total \in Totals, key \in Keys \cup {NoKey}, method \in Methods :
                 CreatePaidOrder(g, o, total, key, method)
    PROVE  Contract!Next
<1>1. order[o] \in OrderRows
  BY RowOf
<1>2. CASE SaveVerified(o, g) \/ SaveHook(o, g)
  <2> DEFINE row == [order[o] EXCEPT !.payment = g, !.paid = TRUE]
  <2>1. /\ row \in OrderRows /\ row.status = order[o].status /\ row.total = order[o].total
        /\ row.paid
    BY <1>1 DEF OrderRows
  <2>2. order' = [order EXCEPT ![o] = row] /\ UNCHANGED <<gateway, refunds>>
    BY <1>2 DEF SaveVerified, SaveHook, Verified, razorpay
  <2>3. Backs(g, o) /\ Captured(g)
    BY <1>2 DEF SaveVerified, SaveHook, IInv, Remembered
  <2>4. Money[g] = order[o].total /\ order[o].status # "none"
    BY <2>3 DEF Money, Backs
  <2> HIDE DEF row
  <2> QED  BY <2>1, <2>2, <2>4, ContractPay
<1>3. ASSUME NEW old \in OrderRows, Usable(g), Attach(g, o, old)
      PROVE  \E row \in OrderRows : /\ order' = [order EXCEPT ![o] = row]
                                    /\ row.status = old.status /\ row.total = old.total
                                    /\ row.paid /\ Money[g] = row.total
  <2> DEFINE row == [old EXCEPT !.gateway = g, !.payment = g, !.paid = TRUE]
  <2>1. row \in OrderRows /\ row.status = old.status /\ row.total = old.total /\ row.paid
    BY DEF OrderRows
  <2>2. order' = [order EXCEPT ![o] = row]
    BY <1>3 DEF Attach
  <2>3. Money[g] = old.total
    BY <1>3 DEF Usable, Captured, Attach, Money, IInv, SessionsSound
  <2> HIDE DEF row
  <2> QED  BY <2>1, <2>2, <2>3
<1>4. CASE ReplayWithPayment(g, o)
  <2>1. Usable(g) /\ Attach(g, o, order[o]) /\ order[o].status # "none"
        /\ UNCHANGED <<gateway, refunds>>
    BY <1>4 DEF ReplayWithPayment, Exists, razorpay
  <2> QED  BY <1>1, <1>3, <2>1, ContractPay
<1>5. ASSUME NEW total \in Totals, NEW key \in Keys \cup {NoKey}, NEW method \in Methods,
             CreatePaidOrder(g, o, total, key, method)
      PROVE  Contract!Next
  <2> DEFINE old == [Blank EXCEPT !.status = "open", !.total = total, !.key = key,
                                  !.method = method]
  <2>1. old \in OrderRows /\ old.status = "open" /\ old.total = total
    BY DEF Blank, OrderRows, Amounts, Methods
  <2>2. /\ Usable(g) /\ Attach(g, o, old) /\ order[o].status = "none"
        /\ UNCHANGED <<gateway, refunds>>
    BY <1>5 DEF CreatePaidOrder, Exists, razorpay
  <2> HIDE DEF old
  <2> QED  BY <1>3, <2>1, <2>2, ContractPlace
<1> QED  BY <1>2, <1>4, <1>5

LEMMA ContractClose ==
    ASSUME IInv, NEW o \in Orders, Cancel(o) \/ CancelAndRefund(o) \/ CancelWithoutAnswer(o)
    PROVE  Contract!Next
<1>1. order[o] \in OrderRows
  BY RowOf
<1>2. PICK row \in OrderRows : /\ order' = [order EXCEPT ![o] = row]
                               /\ row.status = "cancelled"
                               /\ row.total = order[o].total /\ row.paid = order[o].paid
  <2>1. /\ [order[o] EXCEPT !.status = "cancelled"] \in OrderRows
        /\ [order[o] EXCEPT !.status = "cancelled", !.refund = "initiated"] \in OrderRows
    BY <1>1 DEF OrderRows
  <2>2. CASE Cancel(o) \/ CancelWithoutAnswer(o)
    BY <1>1, <2>1, <2>2 DEF Cancel, CancelWithoutAnswer, OrderRows
  <2>3. CASE CancelAndRefund(o)
    BY <1>1, <2>1, <2>3 DEF CancelAndRefund, OrderRows
  <2> QED  BY <2>2, <2>3
<1>3. /\ order[o].status = "open" /\ UNCHANGED gateway
      /\ \/ UNCHANGED refunds
         \/ order[o].paid /\ refunds' = refunds \cup {<<o, order[o].payment>>}
  BY DEF Cancel, CancelAndRefund, CancelWithoutAnswer, Refundable, razorpay
<1> QED  BY <1>2, <1>3, ContractCancel

LEMMA ContractCash ==
    ASSUME IInv, NEW o \in Orders, NEW total \in Totals, NEW key \in Keys \cup {NoKey},
           CreateCashOrder(o, total, key)
    PROVE  Contract!Next
<1> DEFINE row == [Blank EXCEPT !.status = "open", !.total = total, !.key = key]
<1>1. row \in OrderRows /\ row.status = "open" /\ row.total = total /\ ~row.paid
  BY DEF Blank, OrderRows, Amounts, Methods
<1>2. order' = [order EXCEPT ![o] = row] /\ order[o].status = "none"
      /\ UNCHANGED <<gateway, refunds>>
  BY DEF CreateCashOrder, Exists, razorpay
<1> HIDE DEF row
<1> QED  BY <1>1, <1>2, ContractPlace

LEMMA ContractStep == IInv /\ [Next]_vars => [Contract!Next]_(Contract!vars)
<1> SUFFICES ASSUME IInv, [Next]_vars PROVE Contract!Next \/ UNCHANGED Contract!vars
  OBVIOUS
<1>1. CASE UNCHANGED vars
  BY <1>1, ContractQuiet DEF vars, Money, Price, Paid, Closed, Captured
<1>2. CASE CheckoutNext
  BY <1>2, ContractCapture, ContractSilent DEF CheckoutNext
<1>3. CASE OrderNext
  <2> PICK o \in Orders :
         \/ Deliver(o) \/ \E outcome \in {"processed", "failed"} : RefundEvent(o, outcome)
         \/ Cancel(o) \/ CancelAndRefund(o) \/ CancelWithoutAnswer(o)
         \/ \E total \in Totals, key \in Keys \cup {NoKey} : CreateCashOrder(o, total, key)
    BY <1>3 DEF OrderNext
  <2>1. CASE Deliver(o) \/ \E outcome \in {"processed", "failed"} : RefundEvent(o, outcome)
    <3>1. \A q \in Orders : /\ order'[q].total = order[q].total
                            /\ order'[q].paid = order[q].paid
                            /\ order'[q].status = "cancelled" <=> order[q].status = "cancelled"
      BY <2>1, Columns DEF IInv, Deliver, RefundEvent, OrderRows
    <3>2. UNCHANGED <<Money, Price, Paid, Closed, refunds>>
      BY <2>1, <3>1 DEF Deliver, RefundEvent, razorpay, Money, Captured, Price, Paid, Closed
    <3> QED  BY <3>2, ContractQuiet
  <2> QED  BY <2>1, ContractClose, ContractCash
<1>4. CASE PaymentNext
  BY <1>4, ContractSilent, ContractRow DEF PaymentNext
<1> QED  BY <1>1, <1>2, <1>3, <1>4 DEF Next

\* Orders are paid and refunded as PaymentContract says, in every behaviour: paid
\* only against a captured payment of the price, never unpaid again, and refunded
\* at most once, out of such a payment, while the order is being cancelled.
THEOREM ContractImplemented == Spec => ImplementsContract
<1>1. Init => Contract!Init
  BY ContractInit
<1>2. []IInv /\ [][Next]_vars => [][Contract!Next]_(Contract!vars)
  BY ContractStep, PTL
<1> QED  BY <1>1, <1>2, Invariance, PTL DEF Spec, ImplementsContract, Contract!Spec
-----------------------------------------------------------------------------
(* A payment and the orders it has to do with.                             *)

\* The order has been paid with the payment, or may yet be.
Names(o, g) == \/ order[o].gateway = g
               \/ order[o].payment = g
               \/ <<o, g>> \in opening
               \/ <<o, g>> \in verifying
               \/ <<o, g>> \in hooks

\* A gateway order that was opened for an order has to do with that order alone.
OneOwner == \A o, q \in Orders, g \in Gateways :
    session[g].status = "none" /\ Names(o, g) /\ Names(q, g) => o = q

\* A session is only ever without a mark of what it paid for while no order has its
\* payment.
SessionsMarked ==
    /\ \A g \in Gateways : session[g].orders # {} => session[g].status \in {"paid", "failed"}
    /\ \A o \in Orders :
          order[o].payment \in Gateways =>
              /\ order[o].paid
              /\ \/ session[order[o].payment].status = "none"
                 \/ session[order[o].payment].orders # {}

\* Verification and webhooks leave alone what was paid before there was an order.
SessionsApart == \A o \in Orders, g \in Gateways :
    session[g].status # "none" =>
        /\ order[o].gateway = g => order[o].paid
        /\ <<o, g>> \notin opening /\ <<o, g>> \notin verifying /\ <<o, g>> \notin hooks

Traced == OneOwner /\ SessionsMarked /\ SessionsApart

LEMMA InitTraced == Init => Traced
BY PaymentsAssumption
DEF Init, Traced, OneOwner, SessionsMarked, SessionsApart, Names, NoSession, Blank

\* A step that takes a gateway order only from what the order or a request names.
LEMMA NamedStep ==
    ASSUME Traced,
           \A o \in Orders, g \in Gateways :
              /\ order'[o].gateway = g => order[o].gateway = g \/ <<o, g>> \in opening
              /\ order'[o].payment = g =>
                    \/ order[o].payment = g
                    \/ (<<o, g>> \in verifying \/ <<o, g>> \in hooks) /\ order'[o].paid
              /\ order[o].paid => order'[o].paid
              /\ <<o, g>> \in opening' => <<o, g>> \in opening
              /\ <<o, g>> \in verifying' => \/ <<o, g>> \in verifying
                                            \/ order[o].gateway = g /\ ~order[o].paid
              /\ <<o, g>> \in hooks' => \/ <<o, g>> \in hooks
                                        \/ order[o].gateway = g /\ ~order[o].paid,
           \A g \in Gateways :
              /\ session'[g].orders = session[g].orders
              /\ session'[g].status = "none" <=> session[g].status = "none"
              /\ session'[g].status \in {session[g].status, "paid", "failed"}
    PROVE  Traced'
<1>1. \A o \in Orders, g \in Gateways : Names(o, g)' => Names(o, g)
  BY DEF Names
<1>2. OneOwner'
  BY <1>1 DEF Traced, OneOwner
<1>3. \A g \in Gateways :
         session'[g].orders # {} => session'[g].status \in {"paid", "failed"}
  BY DEF Traced, SessionsMarked
<1>4. ASSUME NEW o \in Orders, order'[o].payment \in Gateways
      PROVE  /\ order'[o].paid
             /\ \/ session'[order'[o].payment].status = "none"
                \/ session'[order'[o].payment].orders # {}
  <2>1. PICK g \in Gateways : order'[o].payment = g
    BY <1>4
  <2>2. CASE order[o].payment = g
    <3>1. order[o].paid /\ (session[g].status = "none" \/ session[g].orders # {})
      BY <2>2 DEF Traced, SessionsMarked
    <3>2. order'[o].paid
      BY <3>1
    <3> QED  BY <2>1, <3>1, <3>2
  <2>3. CASE (<<o, g>> \in verifying \/ <<o, g>> \in hooks) /\ order'[o].paid
    <3>1. session[g].status = "none"
      BY <2>1, <2>3 DEF Traced, SessionsApart
    <3> QED  BY <2>1, <2>3, <3>1
  <2> QED  BY <2>1, <2>2, <2>3
<1>5. SessionsMarked'
  BY <1>3, <1>4 DEF SessionsMarked
<1>6. SessionsApart'
  BY DEF Traced, SessionsApart
<1> QED  BY <1>2, <1>5, <1>6 DEF Traced

\* Nothing names a gateway order that is not opened yet.
LEMMA NewGateway ==
    ASSUME IInv, Traced, NEW g \in Gateways, gateway[g].at = "none"
    PROVE  session[g].status = "none" /\ \A o \in Orders : ~Names(o, g)
<1>1. session[g].status = "none"
  BY DEF IInv, SessionsSound
<1>2. \A o \in Orders : order[o].payment # g
  BY DEF Traced, SessionsMarked, IInv, PaidByCapture, Captured
<1> QED  BY <1>1, <1>2 DEF IInv, Remembered, Backs, Names

\* The gateway opens a gateway order, for a basket or for an order.
LEMMA OpenedTraced ==
    ASSUME IInv, Traced, NEW g \in Gateways,
           \/ \E amount \in Totals : InitiateCheckout(g, amount)
           \/ \E o \in Orders : OpenPayment(o, g)
    PROVE  Traced'
<1>1. session[g].status = "none" /\ \A o \in Orders : ~Names(o, g)
  <2>1. gateway[g].at = "none"
    BY DEF InitiateCheckout, OpenPayment
  <2> QED  BY <2>1, NewGateway
<1>2. session \in [Gateways -> SessionRows]
  BY Columns DEF IInv
<1>3. ASSUME NEW amount \in Totals, InitiateCheckout(g, amount) PROVE Traced'
  <2>1. /\ UNCHANGED <<order, opening, verifying, hooks>>
        /\ session'[g].status = "created" /\ session'[g].orders = {}
        /\ \A h \in Gateways \ {g} : session'[h] = session[h]
    <3> DEFINE opened == [NoSession EXCEPT !.status = "created", !.amount = amount]
    <3>1. session' = [session EXCEPT ![g] = opened]
      BY <1>3 DEF InitiateCheckout
    <3>2. opened.status = "created" /\ opened.orders = {}
      BY DEF NoSession
    <3>3. UNCHANGED <<order, opening, verifying, hooks>>
      BY <1>3 DEF InitiateCheckout, requests
    <3> HIDE DEF opened
    <3> QED  BY <1>2, <3>1, <3>2, <3>3
  <2>2. \A o \in Orders, h \in Gateways : Names(o, h)' <=> Names(o, h)
    BY <2>1 DEF Names
  <2>3. OneOwner'
    BY <2>1, <2>2 DEF Traced, OneOwner
  <2>4. SessionsMarked'
    BY <1>1, <2>1 DEF Traced, SessionsMarked, Names
  <2>5. SessionsApart'
    BY <1>1, <2>1 DEF Traced, SessionsApart, Names
  <2> QED  BY <2>3, <2>4, <2>5 DEF Traced
<1>4. ASSUME NEW o \in Orders, OpenPayment(o, g) PROVE Traced'
  <2>1. UNCHANGED <<session, order, verifying, hooks>> /\ opening' = opening \cup {<<o, g>>}
    BY <1>4 DEF OpenPayment
  <2>2. \A q \in Orders, h \in Gateways :
           Names(q, h)' <=> Names(q, h) \/ (q = o /\ h = g)
    BY <2>1 DEF Names
  <2>3. OneOwner'
    BY <1>1, <2>1, <2>2 DEF Traced, OneOwner
  <2>4. SessionsMarked'
    BY <2>1 DEF Traced, SessionsMarked
  <2>5. SessionsApart'
    BY <1>1, <2>1 DEF Traced, SessionsApart
  <2> QED  BY <2>3, <2>4, <2>5 DEF Traced
<1> QED  BY <1>3, <1>4

\* A session pays for an order, and is marked with it.
LEMMA AttachTraced ==
    ASSUME IInv, Traced, NEW g \in Gateways, NEW o \in Orders, NEW row \in OrderRows,
           Usable(g), Attach(g, o, row), UNCHANGED <<razorpay, requests>>
    PROVE  Traced'
<1>1. session \in [Gateways -> SessionRows] /\ order \in [Orders -> OrderRows]
  BY Columns DEF IInv
<1>2. /\ session[g].status # "none"
      /\ session'[g].status = "paid" /\ session'[g].orders = {o}
      /\ \A h \in Gateways \ {g} : session'[h] = session[h]
  BY <1>1 DEF Usable, Attach, SessionRows
<1>3. /\ order'[o].gateway = g /\ order'[o].payment = g /\ order'[o].paid
      /\ \A q \in Orders \ {o} : order'[q] = order[q]
  BY <1>1 DEF Attach, OrderRows
<1>4. UNCHANGED <<opening, verifying, hooks>>
  BY DEF requests
<1>5. \A q \in Orders, h \in Gateways \ {g} : Names(q, h)' => Names(q, h)
  BY <1>3, <1>4 DEF Names
<1>6. OneOwner'
  BY <1>2, <1>5 DEF Traced, OneOwner
<1>7. SessionsMarked'
  BY <1>2, <1>3 DEF Traced, SessionsMarked
<1>8. SessionsApart'
  BY <1>2, <1>3, <1>4 DEF Traced, SessionsApart
<1> QED  BY <1>6, <1>7, <1>8 DEF Traced

\* The end of an order and the events of its refund leave its payment alone.
LEMMA ClosedRows ==
    ASSUME IInv, NEW o \in Orders,
           \/ Deliver(o) \/ Cancel(o) \/ CancelAndRefund(o) \/ CancelWithoutAnswer(o)
           \/ \E outcome \in {"processed", "failed"} : RefundEvent(o, outcome)
    PROVE  \A q \in Orders : /\ order'[q].gateway = order[q].gateway
                             /\ order'[q].payment = order[q].payment
                             /\ order'[q].paid = order[q].paid
<1>1. order \in [Orders -> OrderRows]
  BY Columns DEF IInv
<1>2. CASE Deliver(o)
  BY <1>1, <1>2 DEF Deliver, OrderRows
<1>3. CASE Cancel(o) \/ CancelWithoutAnswer(o)
  BY <1>1, <1>3 DEF Cancel, CancelWithoutAnswer, OrderRows
<1>4. CASE CancelAndRefund(o)
  <2> DEFINE row == [order[o] EXCEPT !.status = "cancelled", !.refund = "initiated"]
  <2>1. order' = [order EXCEPT ![o] = row]
    BY <1>4 DEF CancelAndRefund
  <2>2. row.gateway = order[o].gateway /\ row.payment = order[o].payment
        /\ row.paid = order[o].paid
    BY <1>1 DEF OrderRows
  <2> HIDE DEF row
  <2> QED  BY <1>1, <2>1, <2>2
<1>5. CASE \E outcome \in {"processed", "failed"} : RefundEvent(o, outcome)
  BY <1>1, <1>5 DEF RefundEvent, OrderRows
<1> QED  BY <1>2, <1>3, <1>4, <1>5

\* A verification or a webhook is saved.
LEMMA VerifiedRows ==
    ASSUME IInv, NEW o \in Orders, NEW g \in Gateways, Verified(o, g)
    PROVE  /\ order'[o].gateway = order[o].gateway /\ order'[o].payment = g /\ order'[o].paid
           /\ \A q \in Orders \ {o} : order'[q] = order[q]
<1> DEFINE row == [order[o] EXCEPT !.payment = g, !.paid = TRUE]
<1>1. order \in [Orders -> OrderRows]
  BY Columns DEF IInv
<1>2. order' = [order EXCEPT ![o] = row]
  BY DEF Verified
<1>3. row.gateway = order[o].gateway /\ row.payment = g /\ row.paid
  BY <1>1 DEF OrderRows
<1> HIDE DEF row
<1> QED  BY <1>1, <1>2, <1>3

\* An order gets the gateway order that was opened for it.
LEMMA OpenedRows ==
    ASSUME IInv, NEW o \in Orders, NEW g \in Gateways, SaveOpened(o, g)
    PROVE  /\ order'[o].gateway = g /\ order'[o].payment = order[o].payment
           /\ order'[o].paid = order[o].paid
           /\ \A q \in Orders \ {o} : order'[q] = order[q]
<1> DEFINE row == [order[o] EXCEPT !.gateway = g, !.method = "razorpay"]
<1>1. order \in [Orders -> OrderRows]
  BY Columns DEF IInv
<1>2. order' = [order EXCEPT ![o] = row]
  BY DEF SaveOpened
<1>3. row.gateway = g /\ row.payment = order[o].payment /\ row.paid = order[o].paid
  BY <1>1 DEF OrderRows
<1> HIDE DEF row
<1> QED  BY <1>1, <1>2, <1>3

\* The end of an order, and an order to be paid in cash.
LEMMA OrderTraced == ASSUME IInv, Traced, OrderNext PROVE Traced'
<1>1. order \in [Orders -> OrderRows]
  BY Columns DEF IInv
<1>2. UNCHANGED <<session, opening, verifying, hooks>>
  BY DEF OrderNext, Deliver, Cancel, CancelAndRefund, CancelWithoutAnswer, RefundEvent,
         CreateCashOrder, requests
<1>3. \A q \in Orders : /\ order'[q].gateway \in Gateways => order'[q].gateway = order[q].gateway
                        /\ order'[q].payment \in Gateways => order'[q].payment = order[q].payment
                        /\ order[q].paid => order'[q].paid
  <2> PICK o \in Orders :
         \/ Deliver(o) \/ Cancel(o) \/ CancelAndRefund(o) \/ CancelWithoutAnswer(o)
         \/ \E outcome \in {"processed", "failed"} : RefundEvent(o, outcome)
         \/ \E total \in Totals, key \in Keys \cup {NoKey} : CreateCashOrder(o, total, key)
    BY DEF OrderNext
  <2>1. \A q \in Orders \ {o} : order'[q] = order[q]
    BY <1>1 DEF Deliver, Cancel, CancelAndRefund, CancelWithoutAnswer, RefundEvent,
                CreateCashOrder
  <2>2. CASE Deliver(o) \/ Cancel(o) \/ CancelAndRefund(o) \/ CancelWithoutAnswer(o)
             \/ \E outcome \in {"processed", "failed"} : RefundEvent(o, outcome)
    BY <2>2, ClosedRows
  <2>3. ASSUME NEW total \in Totals, NEW key \in Keys \cup {NoKey},
               CreateCashOrder(o, total, key)
        PROVE  /\ order'[o].gateway \notin Gateways /\ order'[o].payment \notin Gateways
               /\ ~order[o].paid
    <3> DEFINE row == [Blank EXCEPT !.status = "open", !.total = total, !.key = key]
    <3>1. order' = [order EXCEPT ![o] = row] /\ order[o].status = "none"
      BY <2>3 DEF CreateCashOrder, Exists
    <3>2. row.gateway = NoGateway /\ row.payment = NoGateway
      BY DEF Blank
    <3> HIDE DEF row
    <3> QED  BY <1>1, <3>1, <3>2, RowOf, PaymentsAssumption
  <2> QED  BY <2>1, <2>2, <2>3
<1> QED  BY <1>2, <1>3, NamedStep

\* Razorpay, a session that is marked, and events that no order is there for.
LEMMA SessionTraced ==
    ASSUME IInv, Traced, NEW g \in Gateways,
           \/ Capture(g) \/ Mismatch(g) \/ FailSession(g) \/ SaveEarlyCapture(g)
           \/ BeginHook(g, NoOrder)
    PROVE  Traced'
<1>1. session \in [Gateways -> SessionRows]
  BY Columns DEF IInv
<1>2. UNCHANGED <<order, opening, verifying>>
  BY DEF Capture, Mismatch, FailSession, SaveEarlyCapture, BeginHook, requests
<1>3. \A o \in Orders, h \in Gateways : <<o, h>> \in hooks' => <<o, h>> \in hooks
  BY PaymentsAssumption
  DEF Capture, Mismatch, FailSession, SaveEarlyCapture, BeginHook, requests
<1>4. \A h \in Gateways : /\ session'[h].orders = session[h].orders
                          /\ session'[h].status = "none" <=> session[h].status = "none"
                          /\ session'[h].status \in {session[h].status, "paid", "failed"}
  <2>1. CASE UNCHANGED session
    BY <2>1
  <2>2. CASE FailSession(g)
    <3>1. session[g].status # "none"
      BY <2>2 DEF FailSession, IInv, SessionsSound
    <3> QED  BY <1>1, <2>2, <3>1 DEF FailSession, SessionRows
  <2>3. CASE SaveEarlyCapture(g)
    <3> DEFINE new == [session[g] EXCEPT !.status = "paid", !.seen = TRUE]
    <3>1. new.status = "paid" /\ new.orders = session[g].orders
      BY <1>1 DEF SessionRows
    <3>2. \/ UNCHANGED session
          \/ session' = [session EXCEPT ![g] = new] /\ session[g].status # "none"
      BY <2>3 DEF SaveEarlyCapture
    <3> HIDE DEF new
    <3> QED  BY <1>1, <3>1, <3>2
  <2> QED  BY <2>1, <2>2, <2>3 DEF Capture, Mismatch, BeginHook
<1> QED  BY <1>2, <1>3, <1>4, NamedStep

\* Verification and webhooks of an order that is there.
LEMMA SavedTraced ==
    ASSUME IInv, Traced, NEW o \in Orders, NEW g \in Gateways,
           \/ SaveOpened(o, g) \/ SaveVerified(o, g) \/ SaveHook(o, g)
           \/ BeginVerify(o, g) \/ BeginHook(g, o)
    PROVE  Traced'
<1>2. UNCHANGED session
  BY DEF SaveOpened, SaveVerified, SaveHook, BeginVerify, BeginHook
<1>3. opening' \subseteq opening
  BY DEF SaveOpened, SaveVerified, SaveHook, BeginVerify, BeginHook
<1>4. \A q \in Orders, h \in Gateways :
         /\ <<q, h>> \in verifying' => \/ <<q, h>> \in verifying
                                       \/ order[q].gateway = h /\ ~order[q].paid
         /\ <<q, h>> \in hooks' => \/ <<q, h>> \in hooks
                                   \/ order[q].gateway = h /\ ~order[q].paid
  <2>1. CASE BeginVerify(o, g)
    BY <2>1 DEF BeginVerify
  <2>2. CASE BeginHook(g, o)
    BY <2>2, PaymentsAssumption DEF BeginHook, Owners
  <2> QED  BY <2>1, <2>2 DEF SaveOpened, SaveVerified, SaveHook
<1>5. \A q \in Orders : /\ order'[q].gateway = order[q].gateway \/ <<q, order'[q].gateway>> \in opening
                        /\ \/ order'[q].payment = order[q].payment
                           \/ /\ order'[q].paid
                              /\ \/ <<q, order'[q].payment>> \in verifying
                                 \/ <<q, order'[q].payment>> \in hooks
                        /\ order[q].paid => order'[q].paid
  <2>1. CASE UNCHANGED order
    BY <2>1
  <2>2. CASE SaveOpened(o, g)
    BY <2>2, OpenedRows DEF SaveOpened
  <2>3. CASE SaveVerified(o, g) \/ SaveHook(o, g)
    BY <2>3, VerifiedRows DEF SaveVerified, SaveHook
  <2> QED  BY <2>1, <2>2, <2>3 DEF BeginVerify, BeginHook
<1> QED  BY <1>2, <1>3, <1>4, <1>5, NamedStep

LEMMA TracedStep == IInv /\ Traced /\ [Next]_vars => Traced'
<1> SUFFICES ASSUME IInv, Traced, [Next]_vars PROVE Traced'
  OBVIOUS
<1>1. CASE UNCHANGED vars
  BY <1>1, NamedStep DEF vars
<1>2. CASE CheckoutNext
  BY <1>2, SessionTraced, OpenedTraced DEF CheckoutNext
<1>3. CASE OrderNext
  BY <1>3, OrderTraced
<1>4. ASSUME NEW o \in Orders, NEW g \in Gateways, ReplayWithPayment(g, o) PROVE Traced'
  BY <1>4, RowOf, AttachTraced DEF ReplayWithPayment
<1>5. ASSUME NEW o \in Orders, NEW g \in Gateways, NEW total \in Totals,
             NEW key \in Keys \cup {NoKey}, NEW method \in Methods,
             CreatePaidOrder(g, o, total, key, method)
      PROVE  Traced'
  <2> DEFINE row == [Blank EXCEPT !.status = "open", !.total = total, !.key = key,
                                  !.method = method]
  <2>1. row \in OrderRows
    BY DEF Blank, OrderRows, Amounts, Methods
  <2>2. Usable(g) /\ Attach(g, o, row) /\ UNCHANGED <<razorpay, requests>>
    BY <1>5 DEF CreatePaidOrder
  <2> HIDE DEF row
  <2> QED  BY <2>1, <2>2, AttachTraced
<1>6. CASE PaymentNext
  BY <1>4, <1>5, <1>6, SavedTraced, OpenedTraced DEF PaymentNext
<1> QED  BY <1>1, <1>2, <1>3, <1>6 DEF Next

\* What a step does when it takes a payment for an order that another order was paid
\* with: a gateway order opened for an order has no other, and a session that is marked
\* with an order is refused unless it was marked failed as well.
LEMMA SecondStep ==
    ASSUME IInv, Traced, [Next]_vars, NEW o1 \in Orders, NEW o2 \in Orders, NEW g \in Gateways,
           o1 # o2, order[o1].payment = g, order[o2].payment # g, order'[o2].payment = g
    PROVE  session[g].status = "failed"
<1>1. order \in [Orders -> OrderRows]
  BY Columns DEF IInv
<1>2. ASSUME NEW h \in Gateways, NEW o \in Orders, NEW row, Usable(h), Attach(h, o, row),
             order'[o2].payment = g
      PROVE  session[g].status = "failed"
  <2>1. o = o2 /\ h = g
    BY <1>1, <1>2 DEF Attach, OrderRows
  <2>2. session[g].status # "none" /\ session[g].orders # {}
    BY <1>2, <2>1 DEF Usable, Traced, SessionsMarked
  <2>3. session[g].status \in {"paid", "failed"}
    BY <2>2 DEF Traced, SessionsMarked
  <2> QED  BY <1>2, <2>1, <2>2, <2>3 DEF Usable
<1>3. ASSUME NEW h \in Gateways, NEW o \in Orders, SaveVerified(o, h) \/ SaveHook(o, h)
      PROVE  FALSE
  <2>1. o = o2 /\ h = g
    BY <1>3, VerifiedRows DEF SaveVerified, SaveHook
  <2>2. session[g].status = "none"
    BY <1>3, <2>1 DEF SaveVerified, SaveHook, Traced, SessionsApart
  <2>3. Names(o1, g) /\ Names(o2, g)
    BY <1>3, <2>1 DEF SaveVerified, SaveHook, Names
  <2> QED  BY <2>2, <2>3 DEF Traced, OneOwner
<1>4. CASE order'[o2].payment \in {order[o2].payment, NoGateway}
  BY <1>4, PaymentsAssumption
<1>5. CASE UNCHANGED vars \/ CheckoutNext
  BY <1>4, <1>5 DEF vars, CheckoutNext, Capture, Mismatch, FailSession, SaveEarlyCapture,
                    BeginHook, InitiateCheckout
<1>6. CASE OrderNext
  <2> PICK o \in Orders :
         \/ Deliver(o) \/ Cancel(o) \/ CancelAndRefund(o) \/ CancelWithoutAnswer(o)
         \/ \E outcome \in {"processed", "failed"} : RefundEvent(o, outcome)
         \/ \E total \in Totals, key \in Keys \cup {NoKey} : CreateCashOrder(o, total, key)
    BY <1>6 DEF OrderNext
  <2>1. CASE Deliver(o) \/ Cancel(o) \/ CancelAndRefund(o) \/ CancelWithoutAnswer(o)
             \/ \E outcome \in {"processed", "failed"} : RefundEvent(o, outcome)
    BY <1>4, <2>1, ClosedRows
  <2>2. ASSUME NEW total \in Totals, NEW key \in Keys \cup {NoKey},
               CreateCashOrder(o, total, key)
        PROVE  order'[o2].payment \in {order[o2].payment, NoGateway}
    <3> DEFINE row == [Blank EXCEPT !.status = "open", !.total = total, !.key = key]
    <3>1. order' = [order EXCEPT ![o] = row]
      BY <2>2 DEF CreateCashOrder
    <3>2. row.payment = NoGateway
      BY DEF Blank
    <3> HIDE DEF row
    <3> QED  BY <1>1, <3>1, <3>2
  <2> QED  BY <1>4, <2>1, <2>2
<1>7. ASSUME NEW o \in Orders, NEW h \in Gateways,
             OpenPayment(o, h) \/ SaveOpened(o, h) \/ BeginVerify(o, h) \/ BeginHook(h, o)
      PROVE  order'[o2].payment = order[o2].payment
  BY <1>7, OpenedRows DEF OpenPayment, BeginVerify, BeginHook
<1>8. CASE PaymentNext
  BY <1>2, <1>3, <1>4, <1>7, <1>8 DEF PaymentNext, ReplayWithPayment, CreatePaidOrder
<1> QED  BY <1>5, <1>6, <1>8 DEF Next

\* A payment is taken for a second order only after its session was marked failed, with
\* any number of checkouts, verifications and webhooks between their read and their
\* save.
THEOREM OneOrderPerPayment == Spec => SecondOrderAfterFailure
<1>1. Init => Traced
  BY InitTraced
<1>2. IInv /\ Traced /\ [Next]_vars => Traced'
  BY TracedStep
<1>3. IInv /\ Traced /\ [Next]_vars =>
         [\A o1, o2 \in Orders : \A g \in Gateways :
             o1 # o2 /\ order[o1].payment = g /\ order[o2].payment # g /\ order'[o2].payment = g
                 => session[g].status = "failed"]_vars
  BY SecondStep
<1>4. Spec => []Traced
  BY <1>1, <1>2, Invariance, PTL DEF Spec
<1> QED  BY <1>3, <1>4, Invariance, PTL DEF Spec, SecondOrderAfterFailure
=============================================================================
