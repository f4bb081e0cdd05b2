----------------------------- MODULE Storefront -----------------------------
(***************************************************************************)
(* Sellers, staff and a customer at the same time: offers go on and off    *)
(* sale between any two statements of the requests that put them into a    *)
(* cart, keep them for later and order them.                               *)
(***************************************************************************)
EXTENDS Cart

CONSTANT MaxEvents  \* bound: things that sellers, staff and the customer ask for

ASSUME StorefrontAssumption == MaxEvents \in Nat

VARIABLE events  \* how much they have asked for

storefrontVars == <<listingVars, cartVars, events>>

StorefrontInit == ListingInit /\ CartInit /\ events = 0

StorefrontNext ==
  \/ /\ events < MaxEvents
     /\ events' = events + 1
     /\ (ListingEvent /\ UNCHANGED cartVars) \/ (CartEvent /\ UNCHANGED listingVars)
  \/ /\ UNCHANGED events
     /\ (ListingStep /\ UNCHANGED cartVars) \/ (CartStep /\ UNCHANGED listingVars)

StorefrontSpec == StorefrontInit /\ [][StorefrontNext]_storefrontVars

-----------------------------------------------------------------------------
Quoted(r) == At(r, {"ORDER"}, "PLACE")
Quotes(r) == ~Quoted(r) /\ Quoted(r)'

\* A suspended seller's item is never quoted, not even one that a request put on sale while
\* the suspension was under way (admin-seller.service.ts:217: "Leaving them ACTIVE would keep
\* the seller selling while suspended").
SuspendedSellsNothing ==
  [][\A r \in Request, l \in Wanted :
       Quotes(r) /\ req'[r].took[l] > 0 => seller[l] # "SUSPENDED"]_storefrontVars

Has(l) == saved[l] > 0 \/ \E c \in Active : lines[c][l] > 0

\* What the customer has in the cart or saved is gone only when it was removed or ordered,
\* wherever a request died and whatever was repeated, unless requests overlapped.
KeptUnlessOverlapped ==
  [][\A l \in Wanted : Has(l) /\ ~Has(l)' =>
       \E r \in Request :
         /\ req[r] # Nil /\ req'[r] # req[r]
         /\ \/ ~req[r].alone
            \/ req[r].does = "REMOVE" /\ req[r].on = l
            \/ req[r].does = "ORDER" /\ req[r].took[l] > 0]_storefrontVars

-----------------------------------------------------------------------------
\* The same without the exception: it is violated, a save for later that overlaps a move to
\* the cart of the same item leaves it in neither.
Kept ==
  [][\A l \in Wanted : Has(l) /\ ~Has(l)' =>
       \E r \in Request : /\ req[r] # Nil /\ req'[r] # req[r]
                          /\ \/ req[r].does = "REMOVE" /\ req[r].on = l
                             \/ req[r].does = "ORDER" /\ req[r].took[l] > 0]_storefrontVars

\* A cart never holds more of an item than may be ordered at once (cart.service.ts:397: "so
\* stock and quantity ceilings are enforced identically"): it is violated by requests that
\* overlap.  Only the quote looks again.
CartWithinLimit == \A c \in Active, l \in Wanted : lines[c][l] <= MaxOrder

\* A listing the staff took down goes back on sale by the staff only: it is violated, the
\* seller activates it.
TakenDownStaysDown ==
  [][\A s \in Seller, k \in Clerk :
       listing[s] \in {"SUPPRESSED", "BLOCKED"} /\ listing'[s] = "ACTIVE" => checked[k] = checked'[k]]_storefrontVars
=============================================================================
