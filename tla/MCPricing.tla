----------------------------- MODULE MCPricing -----------------------------
(* An instance of Pricing for TLC: carts of up to three lines of two sellers, at prices, rates *)
(* and discounts that leave remainders.                                                        *)
EXTENDS Pricing

Item(s, q, p, g, c, w) ==
  [seller |-> s, quantity |-> q, price |-> p, gst |-> g, cess |-> c, intra |-> w]

Goods == {Item("s1", 1, 333, 18, 0, TRUE), Item("s1", 3, 99, 5, 0, FALSE),
          Item("s2", 1, 1049, 28, 12, TRUE), Item("s2", 1, 7, 12, 0, TRUE)}

AllCarts == UNION {[1 .. n -> Goods] : n \in 1 .. 3}

Deal(t, v, x, m, l, e, k, f) ==
  [type |-> t, value |-> v, max |-> x, minimum |-> m, lines |-> l, exclusive |-> e,
   priority |-> k, platform |-> f]

Sale == Deal("PERCENTAGE", 10, 71, 0, {}, FALSE, 1, TRUE)
Flat == Deal("FLAT", 50, Nil, 400, {1, 3}, FALSE, 1, FALSE)
Brand == Deal("PERCENTAGE", 33, Nil, 0, {2}, TRUE, 2, FALSE)
Delivery == Deal("FREE_SHIPPING", 0, Nil, 1400, {}, FALSE, 3, TRUE)

Clearance == Deal("PERCENTAGE", 60, Nil, 0, {1}, FALSE, 1, FALSE)
Festival == Deal("PERCENTAGE", 60, Nil, 0, {}, FALSE, 2, TRUE)

\* The last pair stacks to more than the first line is worth.
AllPromotions == {{}, {Sale}, {Sale, Flat}, {Sale, Brand}, {Flat, Brand, Delivery},
                  {Clearance, Festival}}

Code(t, v, x, m, s) == [type |-> t, value |-> v, max |-> x, minimum |-> m, seller |-> s]
AllCoupons == {Nil, Code("PERCENTAGE", 15, 100, 0, Nil), Code("FLAT", 301, Nil, 300, "s1"),
               Code("FREE_SHIPPING", 0, Nil, 0, Nil)}
AllOffers == {Nil, Code("PERCENTAGE", 9, 500, 200, Nil)}

AllCharges ==
  {[shipping |-> [s1 |-> a, s2 |-> 80], threshold |-> t, cash |-> c, fee |-> 49] :
     a \in {0, 41}, t \in {Nil, 900}, c \in BOOLEAN}
=============================================================================
