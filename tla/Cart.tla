-------------------------------- MODULE Cart --------------------------------
(***************************************************************************)
(* A customer's cart and saved items (cart.service.ts), and what checkout  *)
(* reads of the cart and does to it (checkout.service.ts).                 *)
(*                                                                         *)
(* A request runs several statements with no transaction around them, so   *)
(* the requests of one customer, from two devices or repeated after an     *)
(* answer was lost, interleave at each of them.  Only a save for later, the *)
(* opening of a session and the placing of an order are transactions.      *)
(***************************************************************************)
EXTENDS Listing

CONSTANTS
  Wanted,   \* sellers whose listing the customer puts into a cart
  CartId,   \* carts that may be opened (bound)
  Request,  \* requests of the customer handled at a time
  MaxQty    \* bound: units asked for in one request

ASSUME CartAssumption == Wanted \subseteq Seller /\ MaxQty \in Nat \ {0} /\ Nil \notin CartId

VARIABLES
  cart,   \* commerce.carts.status of each
  lines,  \* commerce.cart_items: the quantity of each listing in each cart, 0 for no line
  saved,  \* commerce.saved_for_later: the quantity of each listing, 0 for none
  req     \* the requests under way and the checkout sessions opened by them

cartVars == <<cart, lines, saved, req>>

ByLine == {"SET", "REMOVE", "SAVE"}
Does == ByLine \cup {"ADD", "MOVE", "ORDER"}

Empty == [l \in Wanted |-> 0]
Active == {c \in CartId : cart[c] = "ACTIVE"}
At(r, does, phase) == req[r] # Nil /\ req[r].does \in does /\ req[r].at = phase
Goes(r, phase) == [req EXCEPT ![r].at = phase]
Ends(r) == [req EXCEPT ![r] = Nil]

\* Deleting a row leaves the requests that named it with nothing to act upon.
Orphan(rs, does, c, ls) ==
  [r \in Request |->
    IF rs[r] # Nil /\ rs[r].does \in does /\ rs[r].on \in ls /\ (c = Nil \/ rs[r].cart = c)
    THEN [rs[r] EXCEPT !.row = FALSE] ELSE rs[r]]

-----------------------------------------------------------------------------
\* A request begins.  It is no longer alone with the customer's things when it overlaps
\* another one or an open session (alone is a history variable).
Enter(r, does, phase, l, q, c) ==
  /\ req[r] = Nil
  /\ req' = [p \in Request |->
       IF p = r
       THEN [does |-> does, at |-> phase, on |-> l, qty |-> q, cart |-> c, room |-> 0,
             row |-> TRUE, took |-> Empty, alone |-> \A o \in Request : req[o] = Nil]
       ELSE IF req[p] = Nil THEN Nil ELSE [req[p] EXCEPT !.alone = FALSE]]
  /\ UNCHANGED <<cart, lines, saved>>

\* addItem, and moveToCart once it has read the saved row.
AskAdd(r, l, q) == Enter(r, "ADD", "CART", l, q, Nil)

\* Mutant: the saved row is deleted first.
MutAskMove(r, l) ==
  /\ saved[l] > 0
  /\ req[r] = Nil
  /\ saved' = [saved EXCEPT ![l] = 0]
  /\ req' = [req EXCEPT ![r] =
       [does |-> "ADD", at |-> "CART", on |-> l, qty |-> saved[l], cart |-> Nil, room |-> 0,
        row |-> TRUE, took |-> Empty, alone |-> \A o \in Request : req[o] = Nil]]
  /\ UNCHANGED <<cart, lines>>

AskMove(r, l) == saved[l] > 0 /\ Enter(r, "MOVE", "CART", l, saved[l], Nil)

\* updateItem, removeItem and saveForLater name a line the customer sees; a quantity of zero
\* is a removal.
AskByLine(r, does, l, q) ==
  \E c \in Active : lines[c][l] > 0 /\ Enter(r, does, "CART", l, q, c)

\* checkout.start, and the order placed from it.
AskOrder(r) == Enter(r, "ORDER", "LINES", Nil, 0, Nil)

\* Refused, failed or dead: nothing is undone and nothing more is done.  A session may also
\* be left to expire.
Leave(r) == req[r] # Nil /\ req' = Ends(r) /\ UNCHANGED <<cart, lines, saved>>

-----------------------------------------------------------------------------
\* ensureCart: read, insert unless there is one, read again.
FindCart(r) ==
  /\ At(r, Does, "CART") \/ At(r, Does, "AGAIN")
  /\ \E c \in Active :
       /\ req[r].does \in ByLine => c = req[r].cart
       /\ req' = [req EXCEPT ![r].cart = c, ![r].at = IF req[r].does \in {"REMOVE", "SAVE"}
                                                      THEN "WRITE" ELSE "LOOK"]
  /\ UNCHANGED <<cart, lines, saved>>

FindNoCart(r) ==
  /\ At(r, Does, "CART")
  /\ Active = {}
  /\ req' = Goes(r, "OPEN")
  /\ UNCHANGED <<cart, lines, saved>>

\* A line that named the old cart is not found in a new one.
OpenCart(r) ==
  /\ At(r, Does, "OPEN")
  /\ IF Active = {}
     THEN \E c \in CartId : cart[c] = "NONE" /\ cart' = [cart EXCEPT ![c] = "ACTIVE"]
     ELSE UNCHANGED cart
  /\ req' = Goes(r, "AGAIN")
  /\ UNCHANGED <<lines, saved>>

\* addItem and updateItem read what is on sale, how many may be ordered and are left ...
LookUp(r) ==
  /\ At(r, {"ADD", "MOVE", "SET"}, "LOOK")
  /\ LET l == req[r].on
         room == IF MaxOrder < stock[l] THEN MaxOrder ELSE stock[l] IN
       /\ OnSale(l)
       /\ IF req[r].does = "SET"
          THEN req[r].row /\ req[r].qty <= room /\ req' = Goes(r, "WRITE")
          ELSE req' = [req EXCEPT ![r].room = room, ![r].at = "COUNT"]
  /\ UNCHANGED <<cart, lines, saved>>

\* ... addItem what the cart has of it ...
Count(r) ==
  /\ At(r, {"ADD", "MOVE"}, "COUNT")
  /\ lines[req[r].cart][req[r].on] + req[r].qty <= req[r].room
  /\ req' = Goes(r, "WRITE")
  /\ UNCHANGED <<cart, lines, saved>>

\* ... and adds to what it has by then, or makes the line.
AddLine(r) ==
  /\ At(r, {"ADD", "MOVE"}, "WRITE")
  /\ lines' = [lines EXCEPT ![req[r].cart][req[r].on] = @ + req[r].qty]
  /\ req' = Goes(r, "VIEW")
  /\ UNCHANGED <<cart, saved>>

SetLine(r) ==
  /\ At(r, {"SET"}, "WRITE")
  /\ lines' = IF req[r].row THEN [lines EXCEPT ![req[r].cart][req[r].on] = req[r].qty]
              ELSE lines
  /\ req' = Goes(r, "VIEW")
  /\ UNCHANGED <<cart, saved>>

\* removeItem, and saveForLater, which keeps the quantity of the line in place of any other.
TakeLine(r) ==
  /\ At(r, {"REMOVE", "SAVE"}, "WRITE")
  /\ req[r].row
  /\ LET c == req[r].cart
         l == req[r].on IN
       /\ saved' = IF req[r].does = "SAVE" THEN [saved EXCEPT ![l] = lines[c][l]] ELSE saved
       /\ lines' = [lines EXCEPT ![c][l] = 0]
       /\ req' = Orphan(Goes(r, "VIEW"), ByLine, c, {l})
  /\ UNCHANGED cart

\* getCart ends every one of them, and opens a cart if there is none by then.
Answer(r) ==
  /\ At(r, Does, "VIEW")
  /\ IF Active = {}
     THEN \E c \in CartId : cart[c] = "NONE" /\ cart' = [cart EXCEPT ![c] = "ACTIVE"]
     ELSE UNCHANGED cart
  /\ req' = IF req[r].does = "MOVE" THEN Goes(r, "DROP") ELSE Ends(r)
  /\ UNCHANGED <<lines, saved>>

\* moveToCart deletes the saved row it read, if that row is still there.
DropSaved(r) ==
  /\ At(r, {"MOVE"}, "DROP")
  /\ saved' = IF req[r].row THEN [saved EXCEPT ![req[r].on] = 0] ELSE saved
  /\ req' = IF req[r].row THEN Orphan(Ends(r), {"MOVE"}, Nil, {req[r].on}) ELSE Ends(r)
  /\ UNCHANGED <<cart, lines>>

-----------------------------------------------------------------------------
\* checkout.start: the lines of the active cart ...
ReadLines(r) ==
  /\ At(r, {"ORDER"}, "LINES")
  /\ \E c \in Active : lines[c] # Empty /\
       req' = [req EXCEPT ![r].took = lines[c], ![r].at = "START"]
  /\ UNCHANGED <<cart, lines, saved>>

\* ... a session for the cart that is active by then, the customer's open ones abandoned ...
OpenSession(r) ==
  /\ At(r, {"ORDER"}, "START")
  /\ \E c \in IF Active = {} THEN {Nil} ELSE Active :
       req' = [p \in Request |->
         IF p = r THEN [req[r] EXCEPT !.cart = c, !.at = "PRICE"]
         ELSE IF At(p, {"ORDER"}, "PLACE") THEN Nil ELSE req[p]]
  /\ UNCHANGED <<cart, lines, saved>>

\* ... and the quote: with a line that cannot be had the session is never placed.
Quote(r) ==
  /\ At(r, {"ORDER"}, "PRICE")
  /\ \A l \in Wanted :
       req[r].took[l] > 0 =>
         OnSale(l) /\ req[r].took[l] <= MaxOrder /\ req[r].took[l] <= stock[l]
  /\ req' = Goes(r, "PLACE")
  /\ UNCHANGED <<cart, lines, saved>>

\* placeOrder empties the cart of the session, whatever is in it by then.
Place(r) ==
  /\ At(r, {"ORDER"}, "PLACE")
  /\ IF req[r].cart = Nil THEN req' = Ends(r) /\ UNCHANGED <<cart, lines>>
     ELSE /\ cart' = [cart EXCEPT ![req[r].cart] = "CONVERTED"]
          /\ lines' = [lines EXCEPT ![req[r].cart] = Empty]
          /\ req' = Orphan(Ends(r), ByLine, req[r].cart, Wanted)
  /\ UNCHANGED saved

-----------------------------------------------------------------------------
CartInit ==
  /\ cart = [c \in CartId |-> "NONE"]
  /\ lines = [c \in CartId |-> Empty]
  /\ saved = Empty
  /\ req = [r \in Request |-> Nil]

CartEvent ==
  \E r \in Request :
    \/ AskOrder(r)
    \/ \E l \in Wanted : \/ AskMove(r, l)
                         \/ \E does \in {"REMOVE", "SAVE"} : AskByLine(r, does, l, 0)
                         \/ \E q \in 1 .. MaxQty : AskAdd(r, l, q) \/ AskByLine(r, "SET", l, q)

CartStep ==
  \E r \in Request :
    \/ Leave(r) \/ FindCart(r) \/ FindNoCart(r) \/ OpenCart(r)
    \/ LookUp(r) \/ Count(r) \/ AddLine(r) \/ SetLine(r) \/ TakeLine(r) \/ Answer(r)
    \/ DropSaved(r) \/ ReadLines(r) \/ OpenSession(r) \/ Quote(r) \/ Place(r)
=============================================================================
