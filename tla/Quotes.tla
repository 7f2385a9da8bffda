-------------------------------- MODULE Quotes --------------------------------
(***************************************************************************)
(* What an order costs: once when the checkout is shown                    *)
(* (orders/actions/checkout.py), and once more, by other code, when the    *)
(* order is created (orders/actions/ordering/create_orders.py), which      *)
(* refuses the order if the charges it was shown are not those it          *)
(* computes.  Both use helpers/delivery_quotes.py for the delivery,        *)
(* orders/models/coupon.py for the discount and orders/models/setting.py   *)
(* for the fees.                                                           *)
(*                                                                         *)
(* Amounts are in paise, distances in hundredths of a kilometre, the tax   *)
(* in hundredths of a per cent and a coupon's percentage in whole ones;    *)
(* what the code has not rounded yet is in hundredths of a paisa.  One     *)
(* customer and one store.  What both codes ask for besides (hours,        *)
(* holidays and slots, the coupon's dates and uses, the basket's node) is  *)
(* one switch of the store; stock and the listing of the products, which   *)
(* only the order needs, another.  An order that is paid at the door       *)
(* carries the confirmation that only the order asks for                   *)
(* (validate_cod_confirmation).                                            *)
(***************************************************************************)
EXTENDS Integers

CONSTANTS
    SettingRows,    \* rows of PlatformSetting
    Baskets,        \* subtotal, units, weight in kg, fragile, cold
    Coupons,        \* kind, value, cap, least: min_order_amount
    Places,         \* distance and state of an address
    WalletAmounts,  \* wallet amounts and ...
    Points,         \* ... loyalty points that the customer wants to use
    InstantRadius,  \* of the store, and ...
    MaxRadius,      \* ... how far it delivers
    MinimumOrder    \* Vendor.min_order_amount

ASSUME QuotesAssumption ==
    /\ \A row \in SettingRows :
          /\ row.base \in Nat /\ row.perKm \in Nat /\ row.freeAbove \in Nat
          /\ row.platform \in Nat /\ row.packaging \in Nat /\ row.surge \in Nat
          /\ row.threshold \in Nat /\ row.smallFee \in Nat
          /\ row.tax \in Nat /\ row.tax <= 10000
    /\ \A b \in Baskets : b.subtotal \in Nat \ {0}
    /\ \A c \in Coupons : c.value \in Int /\ c.cap \in Nat
    /\ \A p \in Places : p.distance \in Nat
    /\ 0 \in WalletAmounts /\ WalletAmounts \subseteq Nat
    /\ 0 \in Points /\ Points \subseteq Nat

VARIABLES
    settings,       \* PlatformSetting
    basket,         \* the customer's basket
    chosen,         \* coupon and address
    store,          \* open, and whether it has what is in the basket
    funds,          \* Wallet.balance and LoyaltyAccount.points
    shown           \* the charges that the customer has last been shown, and for what

quoteVars == <<settings, basket, chosen, store, funds, shown>>
-----------------------------------------------------------------------------
Least(m, n) == IF m < n THEN m ELSE n
Most(m, n) == IF m > n THEN m ELSE n

\* Decimal.quantize: n / d to the nearest whole, halves to the even one.
Quantize(n, d) ==
    LET q == n \div d
        r == n % d
    IN  IF 2 * r > d \/ (2 * r = d /\ q % 2 = 1) THEN q + 1 ELSE q

NoCoupon == [kind |-> "none", value |-> 0, cap |-> 0, least |-> 0]

\* Coupon.calculate_discount, not rounded
Discount(total) ==
    LET c      == chosen.coupon
        full   == IF c.kind = "percentage" THEN total * c.value ELSE 100 * c.value
        capped == IF c.cap > 0 THEN Least(full, 100 * c.cap) ELSE full
    IN  IF c.kind \in {"none", "free_delivery"} THEN 0 ELSE Least(capped, 100 * total)

\* determine_vehicle_for_products
Vehicle ==
    IF basket.kg >= 40 \/ basket.units >= 35 THEN "van"
    ELSE IF basket.kg >= 15 \/ basket.units >= 16 \/ basket.fragile THEN "car"
    ELSE IF basket.kg >= 5 \/ basket.units >= 8 \/ basket.cold THEN "motorcycle"
    ELSE "bicycle"

IsFar == chosen.place.distance > InstantRadius

IsServiceable == chosen.place.sameState /\ chosen.place.distance <= MaxRadius

FreeAbove == settings.freeAbove > 0 /\ basket.subtotal >= settings.freeAbove

\* quote_vendor_delivery, not rounded
DeliveryQuote ==
    IF FreeAbove THEN 0
    ELSE 100 * (settings.base + (IF IsFar THEN 2500 ELSE 0)
                + (IF Vehicle = "car" THEN 2000 ELSE IF Vehicle = "van" THEN 4500 ELSE 0))
         + settings.perKm * chosen.place.distance

\* small_cart_fee and the flat fees of the platform
SmallCartFee == IF settings.threshold > 0 /\ basket.subtotal < settings.threshold
                THEN settings.smallFee ELSE 0
FlatFees == settings.platform + settings.packaging + SmallCartFee + settings.surge

\* tax_amount, after a discount that may not be rounded
Tax(discount) ==
    Quantize((Most(100 * basket.subtotal - discount, 0) + 100 * FlatFees) * settings.tax, 1000000)

\* public_price_breakup: the fields that are compared
Breakup(discount, fee, tax, payable) ==
    [subtotal |-> basket.subtotal, discount |-> discount, delivery |-> fee,
     platform |-> settings.platform, packaging |-> settings.packaging,
     smallCart |-> SmallCartFee, tax |-> tax, surge |-> settings.surge, payable |-> payable]

FreeDelivery == chosen.coupon.kind = "free_delivery"

\* calculate_checkout_preview, from the subtotal on: a coupon for free delivery is shown as
\* a discount, beside a delivery that costs nothing.
PreviewCharges(wallet) ==
    LET quoted   == Quantize(DeliveryQuote, 100)
        discount == IF FreeDelivery THEN 100 * quoted ELSE Discount(basket.subtotal)
        fee      == IF FreeDelivery THEN 0 ELSE quoted
        payable  == 100 * (basket.subtotal + fee + FlatFees + Tax(discount) - wallet) - discount
    IN  Breakup(Quantize(discount, 100), fee, Tax(discount), Quantize(Most(payable, 0), 100))

\* RedeemLoyaltyPointsAction's rate: a quarter rupee each, for a fifth of the basket at most.
PointsDiscount(points) == Least(25 * points, Quantize(20 * basket.subtotal, 100))

\* Mutant of OrderCharges: the tax is on the undiscounted price.
TaxedBeforeDiscount(wallet, points) ==
    LET discount == Quantize(Discount(basket.subtotal), 100)
        fee      == IF FreeDelivery THEN 0 ELSE DeliveryQuote
        payable  == 100 * (basket.subtotal + FlatFees + Tax(0)
                           - discount - wallet - PointsDiscount(points)) + fee
    IN  Breakup(discount, Quantize(fee, 100), Tax(0), Quantize(Most(payable, 0), 100))

\* CreateOrdersFromCartAction: the discount is rounded first, the delivery last.
OrderCharges(wallet, points) ==
    LET discount == Quantize(Discount(basket.subtotal), 100)
        fee      == IF FreeDelivery THEN 0 ELSE DeliveryQuote
        tax      == Tax(100 * discount)
        payable  == 100 * (basket.subtotal + FlatFees + tax
                           - discount - wallet - PointsDiscount(points)) + fee
    IN  Breakup(discount, Quantize(fee, 100), tax, Quantize(Most(payable, 0), 100))
-----------------------------------------------------------------------------
NoBasket == [subtotal |-> 0, units |-> 0, kg |-> 0, fragile |-> FALSE, cold |-> FALSE]

NothingShown == [by |-> "nobody"]

\* A quote is current until something it was computed from is changed.
Charges == [{"subtotal", "discount", "delivery", "platform", "packaging", "smallCart", "tax",
             "surge", "payable"} -> Nat]

QuotesTypeOK ==
    /\ settings \in SettingRows
    /\ basket \in Baskets \cup {NoBasket}
    /\ chosen \in [coupon : Coupons \cup {NoCoupon}, place : Places]
    /\ store \in [open : BOOLEAN, stocked : BOOLEAN]
    /\ funds \in [balance : Nat, points : Nat]
    /\ shown # NothingShown =>
          /\ shown.by \in {"preview", "order"}
          /\ shown.charges \in Charges
          /\ shown.wallet \in WalletAmounts /\ shown.points \in Points
          /\ shown.confirmed \in BOOLEAN /\ shown.current \in BOOLEAN

QuotesInit ==
    /\ settings \in SettingRows
    /\ basket = NoBasket
    /\ chosen \in [coupon : {NoCoupon}, place : Places]
    /\ store = [open |-> TRUE, stocked |-> TRUE]
    /\ funds \in [balance : WalletAmounts, points : Points]
    /\ shown = NothingShown

Outdate == shown' = IF shown = NothingShown THEN shown ELSE [shown EXCEPT !.current = FALSE]

\* The platform's administrator saves other fees.
SaveSettings(row) ==
    /\ row # settings
    /\ settings' = row
    /\ Outdate
    /\ UNCHANGED <<basket, chosen, store, funds>>

\* The customer, or the vendor who changes a price
ChangeBasket(b) ==
    /\ b # basket
    /\ basket' = b
    /\ Outdate
    /\ UNCHANGED <<settings, chosen, store, funds>>

Choose(coupon, place) ==
    /\ chosen' = [coupon |-> coupon, place |-> place]
    /\ chosen' # chosen
    /\ Outdate
    /\ UNCHANGED <<settings, basket, store, funds>>

\* The store closes, or what is in the basket runs out; a quote does not depend on either.
ChangeStore(open, stocked) ==
    /\ store' = [open |-> open, stocked |-> stocked]
    /\ store' # store
    /\ UNCHANGED <<settings, basket, chosen, funds, shown>>

\* Refunds, top-ups and points earned, or what other orders take; nor on this.
ChangeFunds(balance, points) ==
    /\ funds' = [balance |-> balance, points |-> points]
    /\ funds' # funds
    /\ UNCHANGED <<settings, basket, chosen, store, shown>>
-----------------------------------------------------------------------------
\* validate_vendor_minimum_order, validate_coupon_for_user, get_vendor_availability,
\* is_serviceable and the confirmation of a far delivery: the checks that both make.
Orderable(confirmed) ==
    /\ basket # NoBasket
    /\ store.open
    /\ basket.subtotal >= MinimumOrder
    /\ basket.subtotal >= chosen.coupon.least
    /\ IsServiceable
    /\ IsFar => confirmed

\* CheckoutPreviewView, for which neither stock nor the wallet's balance matter and points
\* do not exist; and InitiateCheckoutPaymentView, which asks for what this shows as payable.
Preview(wallet, confirmed) ==
    /\ Orderable(confirmed)
    /\ shown' = [by |-> "preview", charges |-> PreviewCharges(wallet), wallet |-> wallet,
                 points |-> 0, confirmed |-> confirmed, current |-> TRUE]
    /\ UNCHANGED <<settings, basket, chosen, store, funds>>

\* The wallet and the points that an order may use, which no preview looks at.
Funded(wallet, points) == wallet <= funds.balance /\ points <= funds.points

Accepts(wallet, points, confirmed, charges) ==
    /\ Orderable(confirmed)
    /\ Funded(wallet, points)
    /\ store.stocked
    /\ charges = OrderCharges(wallet, points)

\* CreateOrdersFromCartAction with the breakup that was shown: the basket is ordered, and
\* the wallet and the points debited ...
PlaceOrderAsShown(wallet, points, confirmed) ==
    /\ shown # NothingShown
    /\ Accepts(wallet, points, confirmed, shown.charges)
    /\ basket' = NoBasket
    /\ shown' = NothingShown
    /\ funds' = [balance |-> funds.balance - wallet,
                 points  |-> funds.points - PointsDiscount(points) \div 25]
    /\ UNCHANGED <<settings, chosen, store>>

\* ... or refused with "quote_changed" and the charges as they are.
RefuseAsChanged(wallet, points, confirmed) ==
    /\ shown # NothingShown
    /\ Orderable(confirmed)
    /\ Funded(wallet, points)
    /\ store.stocked
    /\ shown.charges # OrderCharges(wallet, points)
    /\ shown' = [by |-> "order", charges |-> OrderCharges(wallet, points), wallet |-> wallet,
                 points |-> points, confirmed |-> confirmed, current |-> TRUE]
    /\ UNCHANGED <<settings, basket, chosen, store, funds>>
-----------------------------------------------------------------------------
QuotesNext ==
    \/ \E row \in SettingRows : SaveSettings(row)
    \/ \E b \in Baskets : ChangeBasket(b)
    \/ \E coupon \in Coupons \cup {NoCoupon}, place \in Places : Choose(coupon, place)
    \/ \E open, stocked \in BOOLEAN : ChangeStore(open, stocked)
    \/ \E balance \in WalletAmounts, points \in Points : ChangeFunds(balance, points)
    \/ \E wallet \in WalletAmounts, confirmed \in BOOLEAN :
          \/ Preview(wallet, confirmed)
          \/ \E points \in Points : \/ PlaceOrderAsShown(wallet, points, confirmed)
                                    \/ RefuseAsChanged(wallet, points, confirmed)

QuotesSpec == QuotesInit /\ [][QuotesNext]_quoteVars
-----------------------------------------------------------------------------
(* Properties.                                                             *)

Whole(amount) == amount % 100 = 0

\* A preview that the order's own code agrees with to the paisa: no part of a paisa is
\* rounded, and no coupon stands for a delivery that costs something.
Reproducible ==
    /\ Whole(Discount(basket.subtotal)) /\ Whole(DeliveryQuote)
    /\ FreeDelivery => DeliveryQuote = 0

\* A quote holds as long as nothing that it was computed from is changed: an order for it
\* is accepted if the store is open and has the goods, and the customer has in the wallet
\* and in points what the order is to use, which the preview shows without looking.  That
\* is so of every quote that a refused order came back with, points included, and of every
\* preview that is Reproducible; any other preview without such a coupon is off by two
\* paise at most.
QuoteStands ==
    (shown # NothingShown /\ shown.current /\ store = [open |-> TRUE, stocked |-> TRUE]
       /\ Funded(shown.wallet, shown.points)) =>
        /\ shown.by = "order" \/ Reproducible =>
              Accepts(shown.wallet, shown.points, shown.confirmed, shown.charges)
        /\ shown.by = "preview" /\ ~FreeDelivery =>
              LET due == OrderCharges(shown.wallet, 0).payable
              IN  due - shown.charges.payable \in -2..2
=============================================================================
