------------------------------ MODULE Listing ------------------------------
(***************************************************************************)
(* The sellers' offers of one product: what a seller and the staff make of *)
(* a listing (seller.service.ts, admin-seller.service.ts,                  *)
(* catalog-admin.service.ts), the view that says what can be bought        *)
(* (v_sellable_listings) and the election of the buy box                   *)
(* (recompute_buy_box).                                                    *)
(*                                                                         *)
(* There is one listing per seller and product, so a listing is known by   *)
(* its seller.  What a seller may do is read before the transaction that   *)
(* does it; the transactions are steps, but for a suspension that finds    *)
(* nothing on sale: it locks no listing, and one may go on sale before it  *)
(* commits.                                                                *)
(*                                                                         *)
(* Sellers have their listings from the start: upsertListing writes an     *)
(* INACTIVE row without a reason, which seller_listings_status_reason      *)
(* refuses, for an old listing too, so the request changes nothing.        *)
(***************************************************************************)
EXTENDS Naturals, FiniteSets

CONSTANTS
  Seller,    \* sellers of the product, approved ones
  Eligible,  \* those whose scores pass the buy box's gates
  Clerk,     \* requests of sellers handled at a time
  MaxStock,  \* bound: units of a seller
  MaxOrder,  \* max_order_quantity of a listing
  Nil

ASSUME ListingAssumption ==
  /\ Eligible \subseteq Seller
  /\ MaxStock \in Nat /\ MaxOrder \in Nat \ {0}

VARIABLES
  seller,   \* seller.sellers.status
  leaving,  \* sellers whose suspension found nothing on sale and has not committed
  product,  \* whether catalog.products is ACTIVE and APPROVED
  listing,  \* catalog.seller_listings: the status ...
  winner,   \* ... and the sellers whose is_buy_box_winner is set
  stock,    \* the units inventory has available of each seller
  checked   \* the seller for whom a request was found to be allowed to activate

listingVars == <<seller, leaving, product, listing, winner, stock, checked>>

ListingStatus == {"INACTIVE", "ACTIVE", "SUPPRESSED", "BLOCKED"}

-----------------------------------------------------------------------------
\* Mutant: a listing's own status is trusted.
MutOnSaleWith(sel, lis, sto, s) == lis[s] = "ACTIVE" /\ product /\ sto[s] > 0

\* v_sellable_listings, with the sellers, listings and stock a transaction sees.
OnSaleWith(sel, lis, sto, s) ==
  lis[s] = "ACTIVE" /\ product /\ sel[s] = "APPROVED" /\ sto[s] > 0
OnSale(s) == OnSaleWith(seller, listing, stock, s)

\* recompute_buy_box: the flag is taken from the active listings only and given to one that
\* is on sale and passes the gates, whichever scores best.  The unique index on the winner
\* refuses it, and with it the transaction, while a listing that is not active has the flag.
Elections(sel, lis, sto) ==
  LET kept == {s \in winner : lis[s] # "ACTIVE"}
      able == {s \in Eligible : OnSaleWith(sel, lis, sto, s)} IN
  IF able = {} THEN {kept}
  ELSE IF kept = {} THEN {{s} : s \in able}
  ELSE {}

Becomes(s, status) == [listing EXCEPT ![s] = status]

-----------------------------------------------------------------------------
\* setListingStatus first asks whether the seller may sell and has stock.
Check(k, s) ==
  /\ checked[k] = Nil
  /\ seller[s] = "APPROVED" /\ stock[s] > 0
  /\ checked' = [checked EXCEPT ![k] = s]
  /\ UNCHANGED <<seller, leaving, product, listing, winner, stock>>

\* Then it activates, whatever the listing's status was; the trigger looks at the seller and
\* the product once more.
Activate(k) ==
  /\ checked[k] # Nil
  /\ LET s == checked[k] IN
       /\ seller[s] = "APPROVED" /\ product
       /\ listing' = Becomes(s, "ACTIVE")
       /\ winner' \in Elections(seller, listing', stock)
  /\ checked' = [checked EXCEPT ![k] = Nil]
  /\ UNCHANGED <<seller, leaving, product, stock>>

\* The transaction is refused, or the request dies.
GiveUp(k) ==
  /\ checked[k] # Nil
  /\ checked' = [checked EXCEPT ![k] = Nil]
  /\ UNCHANGED <<seller, leaving, product, listing, winner, stock>>

Deactivate(s) ==
  /\ listing' = Becomes(s, "INACTIVE")
  /\ winner' \in Elections(seller, listing', stock)
  /\ UNCHANGED <<seller, leaving, product, stock, checked>>

\* moderateListing elects nobody.
ModerateListing(s, status) ==
  /\ status = "ACTIVE" => seller[s] = "APPROVED" /\ product
  /\ listing' = Becomes(s, status)
  /\ UNCHANGED <<seller, leaving, product, winner, stock, checked>>

ModerateProduct(b) ==
  /\ product' = b
  /\ UNCHANGED <<seller, leaving, listing, winner, stock, checked>>

\* Stock arrives in a transaction that elects (addStock); orders take it in one that does not.
Receive(s) ==
  /\ stock[s] < MaxStock
  /\ stock' = [stock EXCEPT ![s] = @ + 1]
  /\ winner' \in Elections(seller, listing, stock')
  /\ UNCHANGED <<seller, leaving, product, listing, checked>>

StockTaken(s) ==
  /\ stock[s] > 0
  /\ stock' = [stock EXCEPT ![s] = @ - 1]
  /\ UNCHANGED <<seller, leaving, product, listing, winner, checked>>

-----------------------------------------------------------------------------
\* suspend, of a seller with something to take down.
Suspend(s) ==
  /\ seller[s] # "SUSPENDED" /\ s \notin leaving
  /\ listing[s] = "ACTIVE"
  /\ seller' = [seller EXCEPT ![s] = "SUSPENDED"]
  /\ listing' = Becomes(s, "SUPPRESSED")
  /\ winner' \in Elections(seller', listing', stock)
  /\ UNCHANGED <<leaving, product, stock, checked>>

\* suspend, of a seller whose listing is not active when the statement runs ...
BeginSuspension(s) ==
  /\ seller[s] # "SUSPENDED" /\ s \notin leaving
  /\ listing[s] # "ACTIVE"
  /\ leaving' = leaving \cup {s}
  /\ UNCHANGED <<seller, product, listing, winner, stock, checked>>

\* ... and its commit, whatever was activated meanwhile.
CommitSuspension(s) ==
  /\ s \in leaving
  /\ leaving' = leaving \ {s}
  /\ seller' = [seller EXCEPT ![s] = "SUSPENDED"]
  /\ UNCHANGED <<product, listing, winner, stock, checked>>

-----------------------------------------------------------------------------
\* A product approved and sold by one seller at most, to whom an election gave the box.
ListingInit ==
  /\ seller = [s \in Seller |-> "APPROVED"]
  /\ leaving = {}
  /\ product = TRUE
  /\ listing \in [Seller -> {"INACTIVE", "ACTIVE"}]
  /\ \A s, t \in Seller : listing[s] = "ACTIVE" /\ listing[t] = "ACTIVE" => s = t
  /\ stock = [s \in Seller |-> MaxStock]
  /\ LET able == {s \in Eligible : OnSale(s)} IN
       winner \in IF able = {} THEN {{}} ELSE {{s} : s \in able}
  /\ checked = [k \in Clerk |-> Nil]

\* What somebody asks for, and what follows from it.
ListingEvent ==
  \/ \E k \in Clerk, s \in Seller : Check(k, s)
  \/ \E s \in Seller : \/ Deactivate(s) \/ Receive(s) \/ StockTaken(s)
                       \/ Suspend(s) \/ BeginSuspension(s)
  \/ \E s \in Seller, status \in ListingStatus : ModerateListing(s, status)
  \/ \E b \in BOOLEAN : b # product /\ ModerateProduct(b)

ListingStep ==
  \/ \E k \in Clerk : Activate(k) \/ GiveUp(k)
  \/ \E s \in Seller : CommitSuspension(s)

-----------------------------------------------------------------------------
\* A suspension goes through whoever sells the product besides: "Recompute the Buy Box for
\* every affected SKU so a competing seller takes the slot rather than the product appearing
\* unavailable" (admin-seller.service.ts:259).  It does not: the suspended winner keeps the
\* flag and the competitor's election is refused, and the suspension with it.
SuspensionGoesThrough ==
  \A s \in Seller :
    seller[s] = "APPROVED" /\ listing[s] = "ACTIVE" =>
      Elections([seller EXCEPT ![s] = "SUSPENDED"], Becomes(s, "SUPPRESSED"), stock) # {}
=============================================================================
