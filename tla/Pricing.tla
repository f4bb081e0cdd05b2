------------------------------ MODULE Pricing ------------------------------
(***************************************************************************)
(* computePricing (packages/domain/src/pricing.ts) on the lines rebuild    *)
(* hands it (checkout.service.ts): promotions in the order of their        *)
(* priority, then a coupon, then shipping and the cash fee, then a bank    *)
(* offer, then tax, line by line.  Promotions come from the database in no *)
(* order, so those of one priority may be applied in any.  rebuild passes  *)
(* no bank offer and no gift wrap; the offer is modelled as the function   *)
(* has it, the wrap is shared out as the cash fee is and left out.  Rates  *)
(* are whole percentages.                                                  *)
(***************************************************************************)
EXTENDS Money

CONSTANTS
  Carts,       \* carts: functions from line numbers 1 .. n to LineRecord
  Promotions,  \* sets of promotions that run together
  Coupons,     \* coupons, or Nil
  Offers,      \* bank offers, or Nil
  Charges,     \* what shipping engine and settings say
  Nil

\* Prices, rates and discounts are not negative, and what is absent is no amount.
Amounts(x) == x.value \in Nat /\ (x.max = Nil \/ x.max \in Nat)

ASSUME PricingAssumption ==
  /\ Nil \notin Nat
  /\ \A c \in Carts :
       /\ DOMAIN c # {} /\ DOMAIN c \subseteq Nat /\ IsFiniteSet(DOMAIN c)
       /\ \A i \in DOMAIN c :
            /\ {c[i].price, c[i].quantity, c[i].gst, c[i].cess} \subseteq Nat
            /\ \A h \in Charges : h.shipping[c[i].seller] \in Nat
  /\ \A promotions \in Promotions : IsFiniteSet(promotions) /\ \A p \in promotions : Amounts(p)
  /\ \A x \in (Coupons \cup Offers) \ {Nil} : Amounts(x)
  /\ \A h \in Charges : h.fee \in Nat

VARIABLES
  cart,     \* the lines
  running,  \* promotions that apply to them
  todo,     \* promotions not looked at yet
  coupon,
  offer,
  charges,  \* shipping by seller, free shipping threshold, cash fee
  stage,
  claimed,  \* lines an exclusive promotion has taken
  waived,   \* a promotion or the coupon made shipping free
  part,     \* what each line has got of each discount and charge so far
  toShip,   \* sellers whose shipping is not shared out yet
  quote     \* the priced lines and the total

given == <<cart, running, coupon, offer, charges>>
pricingVars == <<given, todo, stage, claimed, waived, part, toShip, quote>>

-----------------------------------------------------------------------------
Names == {"promotion", "platform", "coupon", "shipping", "cash", "offer"}
Line == DOMAIN cart
Sellers == {cart[i].seller : i \in Line}

Least(x, y) == IF y # Nil /\ y < x THEN y ELSE x
Add(f, g) == [i \in DOMAIN f |-> IF i \in DOMAIN g THEN f[i] + g[i] ELSE f[i]]

\* Lines by value: gross, after promotions, after the coupon.
Gross == [i \in Line |-> cart[i].price * cart[i].quantity]
AfterPromotions == [i \in Line |-> Gross[i] - part["promotion"][i]]
AfterCoupon == [i \in Line |-> AfterPromotions[i] - part["coupon"][i]]

\* A discount of the offer x on a base, before any other limit.
Discount(x, base) ==
  Least(IF x.type = "PERCENTAGE" THEN ApplyPercentage(base, x.value) ELSE x.value, x.max)

-----------------------------------------------------------------------------
(* What rebuild loads *)

\* loadPromotions: of the promotions that run, those whose minimum the cart reaches and whose
\* targets it contains.  An empty set of lines means the whole cart.
Loaded(promotions, lines) ==
  {p \in promotions :
     /\ p.minimum <= Total([i \in DOMAIN lines |-> lines[i].price * lines[i].quantity], DOMAIN lines)
     /\ p.lines = {} \/ p.lines \cap DOMAIN lines # {}}

\* loadCoupon: a seller's coupon is for that seller's lines.
CouponLines(c) == {i \in Line : c.seller = Nil \/ cart[i].seller = c.seller}

-----------------------------------------------------------------------------
(* Promotions *)

Due(p) ==
  /\ stage = "promotions"
  /\ p \in todo
  /\ \A q \in todo : p.priority <= q.priority

\* The lines a promotion is for, exclusively claimed ones left out.
Target(p) == {i \in Line \ claimed : p.lines = {} \/ i \in p.lines}

\* Mutant: a percentage of what earlier promotions left.
MutPromotionDiscount(p) ==
  LET base == Total(AfterPromotions, Target(p)) IN Least(Discount(p, base), base)

\* What it takes off them together: at most their gross value, whatever was taken before.
PromotionDiscount(p) ==
  LET base == Total(Gross, Target(p)) IN Least(Discount(p, base), base)

PromotionDiscounts(p) ==
  /\ Due(p)
  /\ p.type # "FREE_SHIPPING" /\ PromotionDiscount(p) > 0
  /\ \E share \in Shares(PromotionDiscount(p), Gross, Target(p)) :
       part' = [part EXCEPT !["promotion"] = Add(@, share),
                            !["platform"] = IF p.platform THEN Add(@, share) ELSE @]
  /\ claimed' = IF p.exclusive THEN claimed \cup Target(p) ELSE claimed
  /\ todo' = todo \ {p}
  /\ UNCHANGED <<given, stage, waived, toShip, quote>>

PromotionFreesShipping(p) ==
  /\ Due(p)
  /\ p.type = "FREE_SHIPPING" /\ Target(p) # {}
  /\ waived' = TRUE
  /\ todo' = todo \ {p}
  /\ UNCHANGED <<given, stage, claimed, part, toShip, quote>>

PromotionHasNoLines(p) ==
  /\ Due(p)
  /\ \/ Target(p) = {}
     \/ (p.type # "FREE_SHIPPING" /\ PromotionDiscount(p) <= 0)
  /\ todo' = todo \ {p}
  /\ UNCHANGED <<given, stage, claimed, waived, part, toShip, quote>>

-----------------------------------------------------------------------------
(* Coupon *)

CouponApplies ==
  /\ coupon # Nil
  /\ CouponLines(coupon) # {}
  /\ Total(AfterPromotions, Line) >= coupon.minimum

CouponDiscount ==
  LET base == Total(AfterPromotions, CouponLines(coupon))
  IN IF ~CouponApplies \/ coupon.type = "FREE_SHIPPING" THEN 0
     ELSE Least(Discount(coupon, base), base)

\* Mutant: the coupon is shared out by gross value.
MutUseCoupon ==
  /\ stage = "promotions" /\ todo = {}
  /\ IF CouponDiscount > 0
     THEN \E share \in Shares(CouponDiscount, Gross, CouponLines(coupon)) :
            part' = [part EXCEPT !["coupon"] = Add(@, share)]
     ELSE part' = part
  /\ waived' = (waived \/ (CouponApplies /\ coupon.type = "FREE_SHIPPING"))
  /\ stage' = "shipping"
  /\ UNCHANGED <<given, todo, claimed, toShip, quote>>

UseCoupon ==
  /\ stage = "promotions" /\ todo = {}
  /\ IF CouponDiscount > 0
     THEN \E share \in Shares(CouponDiscount, AfterPromotions, CouponLines(coupon)) :
            part' = [part EXCEPT !["coupon"] = Add(@, share)]
     ELSE part' = part
  /\ waived' = (waived \/ (CouponApplies /\ coupon.type = "FREE_SHIPPING"))
  /\ stage' = "shipping"
  /\ UNCHANGED <<given, todo, claimed, toShip, quote>>

-----------------------------------------------------------------------------
(* Shipping and the cash fee *)

FreeShipping ==
  \/ waived
  \/ charges.threshold # Nil /\ Total(AfterCoupon, Line) >= charges.threshold

\* A seller's shipping is shared out over the seller's lines.
Ship(s) ==
  /\ stage = "shipping"
  /\ ~FreeShipping /\ s \in toShip
  /\ \E share \in Shares(charges.shipping[s], AfterCoupon, {i \in Line : cart[i].seller = s}) :
       part' = [part EXCEPT !["shipping"] = Add(@, share)]
  /\ toShip' = toShip \ {s}
  /\ UNCHANGED <<given, todo, stage, claimed, waived, quote>>

ChargeCash ==
  /\ stage = "shipping"
  /\ FreeShipping \/ toShip = {}
  /\ \E share \in Shares(IF charges.cash THEN charges.fee ELSE 0, AfterCoupon, Line) :
       part' = [part EXCEPT !["cash"] = share]
  /\ stage' = "offer"
  /\ UNCHANGED <<given, todo, claimed, waived, toShip, quote>>

-----------------------------------------------------------------------------
(* Bank offer *)

\* Cashback does not change the price.  An instant discount is worked out on the whole
\* transaction and limited by the value of the goods.
OfferDiscount ==
  LET goods == Total(AfterCoupon, Line)
      transaction == goods + Total(part["shipping"], Line) + Total(part["cash"], Line)
  IN IF offer = Nil \/ transaction < offer.minimum \/ offer.type = "CASHBACK" THEN 0
     ELSE Least(Discount(offer, transaction), goods)

UseOffer ==
  /\ stage = "offer"
  /\ IF OfferDiscount > 0
     THEN \E share \in Shares(OfferDiscount, AfterCoupon, Line) :
            part' = [part EXCEPT !["offer"] = share]
     ELSE part' = part
  /\ stage' = "tax"
  /\ UNCHANGED <<given, todo, claimed, waived, toShip, quote>>

-----------------------------------------------------------------------------
(* Tax and totals *)

\* Prices include tax.  Goods and charges are taxed at the goods' rate, each rounded, and what
\* the split adds up to is the tax.  The platform's share of the promotions and the others'
\* are reported as complementary parts.
Priced(i) ==
  LET got == [n \in Names |-> part[n][i]]
      discount == got["promotion"] + got["coupon"] + got["offer"]
      goods == Gross[i] - discount
      extra == got["shipping"] + got["cash"]
      platform == Least(got["platform"], got["promotion"])
      gst == SplitGst(TaxFromInclusive(goods, cart[i].gst) + TaxFromInclusive(extra, cart[i].gst),
                      cart[i].intra)
      cess == TaxFromInclusive(goods, cart[i].cess)
      tax == gst.cgst + gst.sgst + gst.igst + cess
  IN [gross |-> Gross[i], platform |-> platform, promotion |-> got["promotion"] - platform,
      coupon |-> got["coupon"], offer |-> got["offer"], discount |-> discount,
      shipping |-> got["shipping"], cash |-> got["cash"],
      taxable |-> goods + extra - tax, gst |-> gst, cess |-> cess, tax |-> tax,
      payable |-> goods + extra]

\* The adjustment to a whole rupee, for cash.  JavaScript's remainder has the dividend's sign.
Rounding(amount) ==
  LET rest == IF amount >= 0 THEN amount % 100 ELSE -((-amount) % 100)
  IN IF ~charges.cash \/ rest = 0 THEN 0 ELSE IF rest < 50 THEN -rest ELSE 100 - rest

Price ==
  /\ stage = "tax"
  /\ LET lines == [i \in Line |-> Priced(i)]
         sum == Total([i \in Line |-> lines[i].payable], Line)
     IN quote' = [lines |-> lines, rounding |-> Rounding(sum), payable |-> sum + Rounding(sum)]
  /\ stage' = "priced"
  /\ UNCHANGED <<given, todo, claimed, waived, part, toShip>>

-----------------------------------------------------------------------------
PricingInit ==
  /\ cart \in Carts
  /\ \E promotions \in Promotions : running = Loaded(promotions, cart)
  /\ todo = running
  /\ coupon \in Coupons
  /\ offer \in Offers
  /\ charges \in Charges
  /\ stage = "promotions"
  /\ claimed = {}
  /\ waived = FALSE
  /\ part = [n \in Names |-> [i \in Line |-> 0]]
  /\ toShip = {s \in Sellers : charges.shipping[s] > 0}
  /\ quote = Nil

PricingNext ==
  \/ \E p \in todo :
       PromotionDiscounts(p) \/ PromotionFreesShipping(p) \/ PromotionHasNoLines(p)
  \/ UseCoupon
  \/ \E s \in toShip : Ship(s)
  \/ ChargeCash
  \/ UseOffer
  \/ Price

PricingSpec == PricingInit /\ [][PricingNext]_pricingVars

-----------------------------------------------------------------------------
(* Properties *)

\* The CHECKs of order_item_price_breakdowns on a line.
LineAccepted(x) ==
  /\ \A n \in DOMAIN x \ {"gst"} : x[n] >= 0
  /\ x.gst.cgst >= 0 /\ x.gst.igst >= 0
  /\ x.gst.cgst = x.gst.sgst
  /\ x.gst.igst = 0 \/ x.gst.cgst = 0
  /\ x.tax = x.gst.cgst + x.gst.sgst + x.gst.igst + x.cess
  /\ x.discount = x.platform + x.coupon + x.promotion + x.offer
  /\ x.payable = x.gross - x.discount + x.shipping + x.cash

\* Promotions that stack may take more off a line than it costs (see the README); the other
\* properties are about carts where they do not.
Covered == \A i \in Line : AfterPromotions[i] >= 0

\* Every quote passes the tables' CHECKs when its order is placed, and the order's total
\* closes with its rounding.
ChecksAccept ==
  stage = "priced" /\ Covered =>
    /\ \A i \in Line : LineAccepted(quote.lines[i])
    /\ quote.payable >= 0
    /\ charges.cash => quote.payable % 100 = 0
    /\ quote.payable = Total(Gross, Line) + Total(part["shipping"], Line)
                         + Total(part["cash"], Line) + quote.rounding
                         - Total([i \in Line |-> quote.lines[i].discount], Line)

\* Coupon, offer and charges are shared out to the paisa, and no line gives more than it has.
SharesAddUp ==
  Covered =>
    /\ \A i \in Line : AfterCoupon[i] >= 0 /\ AfterCoupon[i] >= part["offer"][i]
    /\ stage \in {"shipping", "offer", "tax", "priced"} =>
         Total(part["coupon"], Line) = CouponDiscount
    /\ stage \in {"tax", "priced"} =>
         /\ Total(part["offer"], Line) = OfferDiscount
         /\ Total(part["shipping"], Line) =
              IF FreeShipping THEN 0 ELSE Total([s \in Sellers |-> charges.shipping[s]], Sellers)
         /\ Total(part["cash"], Line) = IF charges.cash THEN charges.fee ELSE 0

\* Without exclusive promotions it does not matter in which order the database gave those of
\* one priority: together they take the sum of what each takes from its lines alone, and the
\* platform pays for its own.
PromotionsAddUp ==
  LET alone(p) == LET base == Total(Gross, {i \in Line : p.lines = {} \/ i \in p.lines})
                  IN IF p.type = "FREE_SHIPPING" THEN 0 ELSE Least(Discount(p, base), base)
      sum(ps) == Total([p \in ps |-> alone(p)], ps)
  IN todo = {} /\ (\A p \in running : ~p.exclusive) =>
       /\ Total(part["promotion"], Line) = sum(running)
       /\ Total(part["platform"], Line) = sum({p \in running : p.platform})

-----------------------------------------------------------------------------
(* What comments claim and the code does not keep; the README describes how each fails. *)

\* "Exclusive promotions suppress others on the lines they touch": a line that an exclusive
\* promotion takes has had nothing from another before.
ExclusiveSuppressesOthers ==
  [][\A i \in claimed' \ claimed : part["promotion"][i] = 0]_pricingVars

\* Whatever runs together, no line is discounted below zero.
PromotionsCover == Covered
=============================================================================
