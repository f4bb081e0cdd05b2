---------------------------- MODULE MCFulfilment ----------------------------
(* An instance of Fulfilment for TLC: an order of two items that may go in one parcel or *)
(* in two, and a carrier that reports every kind of news.                                *)
EXTENDS Fulfilment

CONSTANTS i1, i2, p1, p2, k1, k2, e1, e2, e3, e4, e5

News == [e \in Report |->
  CASE e = e1 -> "IN_TRANSIT" [] e = e2 -> "OUT_FOR_DELIVERY" [] e = e3 -> "DELIVERED"
    [] e = e4 -> "DELIVERY_FAILED" [] e = e5 -> "RTO_INITIATED"]
=============================================================================
