CONSTANTS
  Nil = Nil
  Carts <- AllCarts
  Promotions <- AllPromotions
  Coupons <- AllCoupons
  Offers <- AllOffers
  Charges <- AllCharges
SPECIFICATION PricingSpec
INVARIANTS ChecksAccept SharesAddUp PromotionsAddUp
CHECK_DEADLOCK FALSE
