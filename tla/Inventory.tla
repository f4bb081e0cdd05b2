------------------------------ MODULE Inventory ------------------------------
(***************************************************************************)
(* The stock engine: supabase/migrations/20260823001000_inventory.sql and  *)
(* 20260823001100_inventory_functions.sql, with the later redefinition of  *)
(* release_reservation, the transfer functions of 20260826075104, and the  *)
(* inventory service of commerce-api that calls them.                      *)
(*                                                                         *)
(* A database function runs in one transaction under the row locks it      *)
(* takes, so each is one action.  Two operations read before they lock and *)
(* are split where the code is: reserve_stock looks for an idempotent      *)
(* replay before it locks the balances, and approveAdjustment reads the    *)
(* adjustment before it opens its transaction.                             *)
(*                                                                         *)
(* A balance row is identified by its stock-keeping unit and warehouse;    *)
(* the seller is fixed.  A row that does not exist yet is a row of zeros.  *)
(* The append-only ledger is kept as the running sum of its deltas, which  *)
(* is what reconcile_balances compares with the balances.                  *)
(***************************************************************************)
EXTENDS Integers, FiniteSets

CONSTANTS
  Sku, Warehouse,   \* balance rows are pairs of these
  Hold,             \* ids of inventory_reservations rows
  IdemKey,          \* idempotency keys, one per checkout session
  Caller,           \* transactions that may run reserve_stock concurrently
  Adjustment,       \* ids of inventory_adjustments rows
  Staff,            \* users who request, approve or reject adjustments
  Transfer,         \* ids of inventory_transfers rows
  MaxQty,           \* bound: units in one line of a request
  MaxOnHand,        \* bound: receipts stop when a row holds this many units
  Ceiling,          \* wh_inventory_available_sane (10000000 in the schema)
  BatchSize,        \* p_batch_size of the sweeper
  None              \* no key, caller, adjustment or person

ASSUME BoundAssumption == /\ MaxQty \in Nat
                          /\ MaxOnHand \in Nat
                          /\ Ceiling \in Nat
                          /\ BatchSize \in Nat

\* The tables hold finitely many rows.
ASSUME FiniteAssumption == IsFiniteSet(Hold) /\ IsFiniteSet(Transfer)

\* None is not an id.
ASSUME NoneAssumption ==
  /\ None \notin Sku \X Warehouse
  /\ None \notin Warehouse
  /\ None \notin Adjustment
  /\ None \notin [idem : IdemKey, lines : [Sku \X Warehouse -> 0..MaxQty]]

Key    == Sku \X Warehouse
Bucket == {"available", "reserved", "damaged", "in_transit", "blocked"}
TargetBucket == {"available", "damaged", "blocked"}   \* an adjustment names one
Lines  == [Key -> 0..MaxQty]     \* the quantity asked of each row; 0 is "no line"

HoldStatus == {"FREE", "ACTIVE", "CONFIRMED", "RELEASED", "EXPIRED", "CONSUMED"}
LiveStatus == {"ACTIVE", "CONFIRMED"}                 \* the units are set aside
KeyedStatus == {"ACTIVE", "CONFIRMED", "CONSUMED"}    \* covered by the unique index

AdjustmentStatus == {"FREE", "PENDING_APPROVAL", "APPROVED", "REJECTED", "APPLIED"}
TransferStatus == {"FREE", "DRAFT", "IN_TRANSIT", "RECEIVED"}

VARIABLES
  balance,    \* warehouse_inventory: [Key -> [Bucket -> Nat]]
  ledger,     \* inventory_ledger: the sum of the deltas written so far
  hold,       \* inventory_reservations
  call,       \* what a reserve_stock in progress is about to insert
  adjustment, \* inventory_adjustments
  applied,    \* history: how often an adjustment moved stock
  reading,    \* the adjustment a member of staff has read and will decide
  transfer    \* inventory_transfers and their items

holdVars   == <<hold, call>>
adjustVars == <<adjustment, applied, reading>>
vars == <<balance, ledger, hold, call, adjustment, applied, reading, transfer>>

-----------------------------------------------------------------------------
(* The balance rows and the ledger *)

Zero == [b \in Bucket |-> 0]

\* Change each row of m by the deltas of its entry in d.
Shift(m, d) == [k \in Key |-> [b \in Bucket |-> m[k][b] + d[k][b]]]

\* The deltas d on row k, nothing on the others.
OnRow(k, d) == [x \in Key |-> IF x = k THEN d ELSE Zero]

\* Mutant: the table has lost its CHECK constraints.
MutRepresentable(m) == TRUE

\* The CHECK constraints of warehouse_inventory.
Representable(m) ==
  \A k \in Key : /\ \A b \in Bucket : m[k][b] >= 0
                 /\ m[k]["available"] <= Ceiling

\* One transaction updates the balances by upd and writes ledger rows adding up to row.
Move(upd, row) ==
  /\ Representable(Shift(balance, upd))
  /\ balance' = Shift(balance, upd)
  /\ ledger' = Shift(ledger, row)

Reserving(n) == [Zero EXCEPT !["available"] = -n, !["reserved"] = n]
Releasing(n) == [Zero EXCEPT !["available"] = n, !["reserved"] = -n]
\* Mutant: a sale gives the units back.
MutSelling(n) == [Zero EXCEPT !["available"] = n, !["reserved"] = -n]
Selling(n)   == [Zero EXCEPT !["reserved"] = -n]
Receiving(n) == [Zero EXCEPT !["available"] = n]
Dispatching(n) == [Zero EXCEPT !["available"] = -n, !["in_transit"] = n]
Arriving(n)  == [Zero EXCEPT !["in_transit"] = -n]

-----------------------------------------------------------------------------
(* Reservations *)

Live(h)  == hold[h].status \in LiveStatus
FreeHold == [status |-> "FREE", key |-> None, qty |-> 0, idem |-> None, expired |-> FALSE]

\* The rows a request has a line for.
Asked(req) == {k \in Key : req[k] > 0}

\* reserve_stock looks for holds under its key before it takes any lock: if there
\* are some it returns them and is done, otherwise it goes on to the locks.
ReserveCheck(c, i, req) ==
  /\ call[c] = None
  /\ Asked(req) # {}
  /\ ~ \E h \in Hold : hold[h].idem = i /\ hold[h].status \in KeyedStatus
  /\ call' = [call EXCEPT ![c] = [idem |-> i, lines |-> req]]
  /\ UNCHANGED <<balance, ledger, hold, adjustVars, transfer>>

\* Mutant: the index is missing.
MutKeyTaken(i, k) == FALSE

\* The partial unique index reservations_idempotency_idx.
KeyTaken(i, k) ==
  \E h \in Hold : /\ hold[h].idem = i
                  /\ hold[h].key = k
                  /\ hold[h].status \in KeyedStatus

CanReserve(i, req) ==
  \A k \in Asked(req) : balance[k]["available"] >= req[k] /\ ~ KeyTaken(i, k)

\* Under the row locks: every line is moved to reserved and gets a row of its own.
\* rows[k] is the id generated for the line on k.
ReserveInsert(c) ==
  /\ call[c] # None
  /\ LET i == call[c].idem
         req == call[c].lines
     IN /\ CanReserve(i, req)
        /\ \E rows \in [Asked(req) -> {h \in Hold : hold[h].status = "FREE"}] :
             /\ \A j, k \in Asked(req) : rows[j] = rows[k] => j = k
             /\ hold' = [h \in Hold |->
                  IF \E k \in Asked(req) : rows[k] = h
                  THEN LET k == CHOOSE k \in Asked(req) : rows[k] = h
                       IN [status |-> "ACTIVE", key |-> k, qty |-> req[k],
                           idem |-> i, expired |-> FALSE]
                  ELSE hold[h]]
        /\ LET d == [k \in Key |-> Reserving(req[k])] IN Move(d, d)
  /\ call' = [call EXCEPT ![c] = None]
  /\ UNCHANGED <<adjustVars, transfer>>

\* Too little stock, or a concurrent call already inserted under this key: the
\* exception rolls the transaction back.
ReserveRefused(c) ==
  /\ call[c] # None
  /\ ~ CanReserve(call[c].idem, call[c].lines)
  /\ call' = [call EXCEPT ![c] = None]
  /\ UNCHANGED <<balance, ledger, hold, adjustVars, transfer>>

\* The units the holds of H keep on row k, one element for each unit.
Units(H, k) ==
  {u \in H \X (1..MaxQty) : hold[u[1]].key = k /\ u[2] <= hold[u[1]].qty}

\* Mutant: a CONFIRMED hold is released without giving its units back.
MutReleaseReservations(H, reason) ==
  /\ H # {}
  /\ \A h \in H : Live(h)
  /\ LET R == {h \in H : hold[h].status = "ACTIVE"}
         d == [k \in Key |-> Releasing(Cardinality(Units(R, k)))]
     IN Move(d, d)
  /\ hold' = [h \in Hold |->
       IF h \in H
       THEN [hold[h] EXCEPT !.status = IF reason = "EXPIRED" THEN "EXPIRED" ELSE "RELEASED"]
       ELSE hold[h]]
  /\ UNCHANGED <<call, adjustVars, transfer>>

\* release_reservation on each hold of H in one transaction (cancellation, payment
\* failure, checkout expiry and the sweeper release several).  A terminal hold is
\* left alone.  The sweeper's reason ends in EXPIRED, every other one in RELEASED.
ReleaseReservations(H, reason) ==
  /\ H # {}
  /\ \A h \in H : Live(h)
  /\ LET d == [k \in Key |-> Releasing(Cardinality(Units(H, k)))] IN Move(d, d)
  /\ hold' = [h \in Hold |->
       IF h \in H
       THEN [hold[h] EXCEPT !.status = IF reason = "EXPIRED" THEN "EXPIRED" ELSE "RELEASED"]
       ELSE hold[h]]
  /\ UNCHANGED <<call, adjustVars, transfer>>

\* release_expired_reservations.  Rows another transaction has locked are skipped, so
\* a batch is any set of overdue holds no larger than the limit.
Overdue == {h \in Hold : hold[h].status = "ACTIVE" /\ hold[h].expired}

Sweep(H) ==
  /\ H \subseteq Overdue
  /\ Cardinality(H) <= BatchSize
  /\ ReleaseReservations(H, "EXPIRED")

\* confirm_reservations: all of H or, by the exception, none of it.  The expiry moves
\* to at least 24 hours from now.
ConfirmReservations(H) ==
  /\ H # {}
  /\ \A h \in H : hold[h].status = "ACTIVE"
  /\ hold' = [h \in Hold |-> IF h \in H
                             THEN [hold[h] EXCEPT !.status = "CONFIRMED", !.expired = FALSE]
                             ELSE hold[h]]
  /\ UNCHANGED <<balance, ledger, call, adjustVars, transfer>>

\* consume_reservation; CONSUMED is a no-op and the terminal statuses raise.  The
\* table refuses a CONSUMED row that no order was bound to.
ConsumeReservation(h) ==
  /\ hold[h].status = "CONFIRMED"
  /\ LET d == [k \in Key |-> Selling(Cardinality(Units({h}, k)))] IN Move(d, d)
  /\ hold' = [hold EXCEPT ![h].status = "CONSUMED"]
  /\ UNCHANGED <<call, adjustVars, transfer>>

\* expires_at passes.
HoldExpires(h) ==
  /\ Live(h)
  /\ ~ hold[h].expired
  /\ hold' = [hold EXCEPT ![h].expired = TRUE]
  /\ UNCHANGED <<balance, ledger, call, adjustVars, transfer>>

-----------------------------------------------------------------------------
(* Receipts and adjustments *)

OnHand(k) == balance[k]["available"] + balance[k]["reserved"] + balance[k]["damaged"]
               + balance[k]["blocked"] + balance[k]["in_transit"]

\* receive_stock with PURCHASE_RECEIPT; MaxOnHand bounds the model, not the code.
ReceiveStock(k, n) ==
  /\ OnHand(k) + n <= MaxOnHand
  /\ LET d == OnRow(k, Receiving(n)) IN Move(d, d)
  /\ UNCHANGED <<holdVars, adjustVars, transfer>>

FreeAdjustment == [status |-> "FREE", key |-> None, bucket |-> "available",
                   delta |-> 0, requestedBy |-> None, approvedBy |-> None]

\* requestAdjustment, and the variance line of createStockCount (bucket available).
RequestAdjustment(a, p, k, b, n) ==
  /\ adjustment[a].status = "FREE"
  /\ n # 0
  /\ balance[k][b] + n >= 0
  /\ adjustment' = [adjustment EXCEPT ![a] =
       [status |-> "PENDING_APPROVAL", key |-> k, bucket |-> b, delta |-> n,
        requestedBy |-> p, approvedBy |-> None]]
  /\ UNCHANGED <<balance, ledger, holdVars, applied, reading, transfer>>

\* approveAdjustment reads the row in a statement of its own and checks it ...
ReadAdjustment(p, a) ==
  /\ reading[p] = None
  /\ adjustment[a].status = "PENDING_APPROVAL"
  /\ adjustment[a].requestedBy # p
  /\ reading' = [reading EXCEPT ![p] = a]
  /\ UNCHANGED <<balance, ledger, holdVars, adjustment, applied, transfer>>

\* ... then decides on what it read.  The rejection updates by id alone ...
RejectAdjustment(p) ==
  /\ reading[p] # None
  /\ adjustment' = [adjustment EXCEPT ![reading[p]].status = "REJECTED"]
  /\ reading' = [reading EXCEPT ![p] = None]
  /\ UNCHANGED <<balance, ledger, holdVars, applied, transfer>>

\* What apply_adjustment does to the balance: a damaged or blocked unit leaves available.
AdjustDeltas(b, n) ==
  IF b = "available" THEN [Zero EXCEPT !["available"] = n]
                     ELSE [Zero EXCEPT ![b] = n, !["available"] = -n]

\* Mutant: the ledger row of a damage moves available the wrong way.
MutAdjustLedgerDeltas(b, n) ==
  [Zero EXCEPT !["available"] = n,
               !["damaged"]   = IF b = "damaged" THEN n ELSE 0,
               !["blocked"]   = IF b = "blocked" THEN n ELSE 0]

\* The deltas apply_adjustment writes in its ledger row.
AdjustLedgerDeltas(b, n) ==
  [Zero EXCEPT !["available"] = IF b = "available" THEN n ELSE -n,
               !["damaged"]   = IF b = "damaged" THEN n ELSE 0,
               !["blocked"]   = IF b = "blocked" THEN n ELSE 0]

\* ... and so does the approval, which then runs apply_adjustment in its transaction.
ApproveAdjustment(p) ==
  /\ reading[p] # None
  /\ LET a == reading[p]
         k == adjustment[a].key
         b == adjustment[a].bucket
         n == adjustment[a].delta
     IN /\ Move(OnRow(k, AdjustDeltas(b, n)), OnRow(k, AdjustLedgerDeltas(b, n)))
        /\ adjustment' = [adjustment EXCEPT ![a].status = "APPLIED", ![a].approvedBy = p]
        /\ applied' = [applied EXCEPT ![a] = @ + 1]
  /\ reading' = [reading EXCEPT ![p] = None]
  /\ UNCHANGED <<holdVars, transfer>>

\* A quantity would go negative: the approval rolls back and the row stays as it was.
ApprovalRefused(p) ==
  /\ reading[p] # None
  /\ LET a == adjustment[reading[p]] IN
       ~ Representable(Shift(balance, OnRow(a.key, AdjustDeltas(a.bucket, a.delta))))
  /\ reading' = [reading EXCEPT ![p] = None]
  /\ UNCHANGED <<balance, ledger, holdVars, adjustment, applied, transfer>>

-----------------------------------------------------------------------------
(* Transfers between two warehouses *)

FreeTransfer == [status |-> "FREE", source |-> None, target |-> None,
                 requested |-> [s \in Sku |-> 0]]

CreateTransfer(t, v, w, req) ==
  /\ transfer[t].status = "FREE"
  /\ v # w
  /\ \E s \in Sku : req[s] > 0
  /\ transfer' = [transfer EXCEPT ![t] =
       [status |-> "DRAFT", source |-> v, target |-> w, requested |-> req]]
  /\ UNCHANGED <<balance, ledger, holdVars, adjustVars>>

\* The deltas d(n) on the rows of t's items in warehouse w.
ItemRows(t, w, d(_)) ==
  [k \in Key |-> IF k[2] = w THEN d(transfer[t].requested[k[1]]) ELSE Zero]

\* Mutant: a repeated dispatch is not recognised.
MutDispatchTransfer(t) ==
  /\ transfer[t].status \in {"DRAFT", "IN_TRANSIT"}
  /\ LET d == ItemRows(t, transfer[t].source, Dispatching) IN Move(d, d)
  /\ transfer' = [transfer EXCEPT ![t].status = "IN_TRANSIT"]
  /\ UNCHANGED <<holdVars, adjustVars>>

\* dispatch_transfer moves every item or, by the exception, none.
DispatchTransfer(t) ==
  /\ transfer[t].status = "DRAFT"
  /\ LET d == ItemRows(t, transfer[t].source, Dispatching) IN Move(d, d)
  /\ transfer' = [transfer EXCEPT ![t].status = "IN_TRANSIT"]
  /\ UNCHANGED <<holdVars, adjustVars>>

\* receive_transfer: the whole quantity is pending, since nothing records a part of it.
ReceiveTransfer(t) ==
  /\ transfer[t].status = "IN_TRANSIT"
  /\ LET d == Shift(ItemRows(t, transfer[t].source, Arriving),
                    ItemRows(t, transfer[t].target, Receiving)) IN Move(d, d)
  /\ transfer' = [transfer EXCEPT ![t].status = "RECEIVED"]
  /\ UNCHANGED <<holdVars, adjustVars>>

-----------------------------------------------------------------------------
Init ==
  /\ balance = [k \in Key |-> Zero]
  /\ ledger = [k \in Key |-> Zero]
  /\ hold = [h \in Hold |-> FreeHold]
  /\ call = [c \in Caller |-> None]
  /\ adjustment = [a \in Adjustment |-> FreeAdjustment]
  /\ applied = [a \in Adjustment |-> 0]
  /\ reading = [p \in Staff |-> None]
  /\ transfer = [t \in Transfer |-> FreeTransfer]

Checkout ==
  \/ \E c \in Caller, i \in IdemKey, req \in Lines : ReserveCheck(c, i, req)
  \/ \E c \in Caller : ReserveInsert(c) \/ ReserveRefused(c)
  \/ \E H \in SUBSET Hold :
       ReleaseReservations(H, "RELEASED") \/ Sweep(H) \/ ConfirmReservations(H)
  \/ \E h \in Hold : ConsumeReservation(h) \/ HoldExpires(h)

Correction ==
  \/ \E a \in Adjustment, p \in Staff, k \in Key,
        b \in TargetBucket, n \in -MaxQty..MaxQty :
       RequestAdjustment(a, p, k, b, n)
  \/ \E p \in Staff, a \in Adjustment : ReadAdjustment(p, a)
  \/ \E p \in Staff : RejectAdjustment(p) \/ ApproveAdjustment(p) \/ ApprovalRefused(p)

Movement ==
  \/ \E k \in Key, n \in 1..MaxQty : ReceiveStock(k, n)
  \/ \E t \in Transfer, v, w \in Warehouse, req \in [Sku -> 0..MaxQty] :
       CreateTransfer(t, v, w, req)
  \/ \E t \in Transfer : DispatchTransfer(t) \/ ReceiveTransfer(t)

Next == Checkout \/ Correction \/ Movement

Spec == Init /\ [][Next]_vars

-----------------------------------------------------------------------------
(* Properties *)

HoldRecord == [status : HoldStatus, key : Key \cup {None}, qty : 0..MaxQty,
               idem : IdemKey \cup {None}, expired : BOOLEAN]
AdjustmentRecord == [status : AdjustmentStatus, key : Key \cup {None}, bucket : TargetBucket,
                     delta : Int, requestedBy : Staff \cup {None},
                     approvedBy : Staff \cup {None}]
TransferRecord == [status : TransferStatus, source : Warehouse \cup {None},
                   target : Warehouse \cup {None}, requested : [Sku -> 0..MaxQty]]

\* Every row has the shape of its table and every balance passes the CHECK constraints.
TypeOK ==
  /\ balance \in [Key -> [Bucket -> Nat]]
  /\ ledger \in [Key -> [Bucket -> Int]]
  /\ hold \in [Hold -> HoldRecord]
  /\ \A h \in Hold : hold[h].status # "FREE" => hold[h].key \in Key
  /\ call \in [Caller -> {None} \cup [idem : IdemKey, lines : Lines]]
  /\ adjustment \in [Adjustment -> AdjustmentRecord]
  /\ \A a \in Adjustment : adjustment[a].status # "FREE" => adjustment[a].key \in Key
  /\ applied \in [Adjustment -> Nat]
  /\ reading \in [Staff -> Adjustment \cup {None}]
  /\ \A p \in Staff : reading[p] # None => adjustment[reading[p]].status # "FREE"
  /\ transfer \in [Transfer -> TransferRecord]
  /\ \A k \in Key : balance[k]["available"] <= Ceiling

\* The reserved quantity of a row is exactly what its live holds keep: no unit is held
\* twice, none stays reserved for a hold that ended (reserve_stock, release_reservation,
\* consume_reservation and the sweeper together).
ReservedMatchesHolds ==
  \A k \in Key :
    balance[k]["reserved"] = Cardinality(Units({h \in Hold : Live(h)}, k))

\* reconcile_balances never reports drift: replaying the ledger gives the balances.
LedgerReplays == balance = ledger

\* What a row calls in transit is what its dispatched transfers have still to deliver.
TransitMatchesTransfers ==
  \A k \in Key :
    balance[k]["in_transit"] =
      Cardinality({u \in Transfer \X (1..MaxQty) :
                     /\ transfer[u[1]].status = "IN_TRANSIT"
                     /\ transfer[u[1]].source = k[2]
                     /\ u[2] <= transfer[u[1]].requested[k[1]]})

\* A retried checkout never stacks a second hold on a row, even when two transactions
\* with one key both find nothing to replay.
OneHoldPerRow ==
  \A g, h \in Hold :
    /\ hold[g].status \in KeyedStatus /\ hold[h].status \in KeyedStatus
    /\ hold[g].idem = hold[h].idem /\ hold[g].key = hold[h].key
    => g = h

\* An adjustment moves stock at most once (apply_adjustment: "applies an APPROVED
\* adjustment exactly once"; violated by two approvers who both read it pending).
AppliedOnce == \A a \in Adjustment : applied[a] <= 1
-----------------------------------------------------------------------------
(* The promise the engine makes: no counters, only units owned and promised *)

PromiseOf(h) ==
  [status |-> CASE hold[h].status = "FREE" -> "none"
                [] hold[h].status \in LiveStatus -> "open"
                [] hold[h].status = "CONSUMED" -> "kept"
                [] hold[h].status \in {"RELEASED", "EXPIRED"} -> "withdrawn",
   row |-> hold[h].key, qty |-> hold[h].qty]

Promises == INSTANCE StockPromise
  WITH Row <- Key, Promise <- Hold,
       owned <- [k \in Key |-> balance[k]["available"] + balance[k]["reserved"]],
       promise <- [h \in Hold |-> PromiseOf(h)]

\* The stock engine implements the abstract promise: no interleaving of checkouts, the
\* sweeper, receipts, corrections and transfers oversells a row.
ImplementsPromises == Promises!Spec
=============================================================================
