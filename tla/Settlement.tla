----------------------------- MODULE Settlement -----------------------------
(***************************************************************************)
(* The seller's ledger and what is made of it (finance.service.ts, schema  *)
(* finance): adjustments posted by hand, settlements generated for a       *)
(* period and approved.  One seller.                                       *)
(*                                                                         *)
(* Which entries a period's query finds is given by Selects: it depends    *)
(* on the entry's posting date and hold and on nothing that changes.       *)
(* createPayout is not here: it writes a PAID payout without paid_at,      *)
(* which payouts_paid_fields refuses, so its transaction never commits.    *)
(***************************************************************************)
EXTENDS FiniteSets, FiniteSetsExt, Integers

CONSTANTS
  Entry,       \* ledger entries that may be posted, named by their idempotency keys
  Adjustment,  \* those that post a financial adjustment
  Person,      \* staff who ask for adjustments and approve them
  Period,      \* settlement periods, which name the settlements
  Worth,       \* amount_paise of each entry, credits positive and debits negative
  Selects,     \* the entries whose posting date and hold fall in each period
  None

VARIABLES
  ledger,      \* seller_ledger: settlement_status and settlement_id
  pin,         \* settlement_items: the settlement each entry is pinned to
  settlement,  \* seller_settlements: status and net_payable_paise
  adjustment   \* financial_adjustments: status and, while it waits, who asked


Total(S) == MapThenSumSet(LAMBDA e : Worth[e], S)

Posted(e) == ledger[e].status # "NONE"
Pinned(p) == {e \in Entry : pin[e] = p}
Settleable(p) == {e \in Selects[p] : ledger[e].status = "UNSETTLED"}

\* An insert whose key is there already does nothing.
WithPosted(S) ==
  [e \in Entry |-> IF e \in S /\ ~Posted(e) THEN [ledger[e] EXCEPT !.status = "UNSETTLED"]
                   ELSE ledger[e]]

-----------------------------------------------------------------------------
RequestAdjustment(a, u) ==
  /\ adjustment[a].status = "NONE"
  /\ adjustment' = [adjustment EXCEPT ![a] = [status |-> "PENDING_APPROVAL", by |-> u]]
  /\ UNCHANGED <<ledger, pin, settlement>>

\* approveAdjustment: by somebody else, and an approved one is posted.
DecideAdjustment(a, u, approved) ==
  /\ adjustment[a].status = "PENDING_APPROVAL"
  /\ u # adjustment[a].by
  /\ adjustment' = [adjustment EXCEPT ![a] =
       [status |-> IF approved THEN "POSTED" ELSE "REJECTED", by |-> None]]
  /\ ledger' = IF approved THEN WithPosted({a}) ELSE ledger
  /\ UNCHANGED <<pin, settlement>>

\* settlements_negative_not_payable.
Payable(net, status) == net >= 0 \/ status = "PENDING_APPROVAL"

\* Mutant: a settlement that exists keeps the totals it was first given.
MutGenerate(p) ==
  LET S == Settleable(p)
      status == IF settlement[p].status = "NONE" THEN "PENDING_APPROVAL" ELSE settlement[p].status IN
  /\ S # {}
  /\ Payable(Total(S), status)
  /\ settlement' = IF settlement[p].status = "NONE"
                   THEN [settlement EXCEPT ![p] = [status |-> status, net |-> Total(S)]]
                   ELSE settlement
  /\ pin' = [e \in Entry |-> IF e \in S /\ pin[e] = None THEN p ELSE pin[e]]
  /\ UNCHANGED <<ledger, adjustment>>

\* generateSettlement: the totals of a settlement that exists are overwritten whatever its
\* status, and what another settlement has pinned is counted but not pinned again.
Generate(p) ==
  LET S == Settleable(p)
      status == IF settlement[p].status = "NONE" THEN "PENDING_APPROVAL" ELSE settlement[p].status IN
  /\ S # {}
  /\ Payable(Total(S), status)
  /\ settlement' = [settlement EXCEPT ![p] = [status |-> status, net |-> Total(S)]]
  /\ pin' = [e \in Entry |-> IF e \in S /\ pin[e] = None THEN p ELSE pin[e]]
  /\ UNCHANGED <<ledger, adjustment>>

\* Mutant: what the period selects is settled, not what is pinned.
MutApprove(p) ==
  /\ settlement[p].status = "PENDING_APPROVAL"
  /\ Payable(settlement[p].net, "APPROVED")
  /\ settlement' = [settlement EXCEPT ![p].status = "APPROVED"]
  /\ ledger' = [e \in Entry |-> IF e \in Settleable(p) THEN [status |-> "SETTLED", by |-> p]
                                ELSE ledger[e]]
  /\ UNCHANGED <<pin, adjustment>>

\* approveSettlement and mark_ledger_settled.
Approve(p) ==
  /\ settlement[p].status = "PENDING_APPROVAL"
  /\ \A e \in Pinned(p) : ledger[e].status = "UNSETTLED"
  /\ Payable(settlement[p].net, "APPROVED")
  /\ settlement' = [settlement EXCEPT ![p].status = "APPROVED"]
  /\ ledger' = [e \in Entry |-> IF e \in Pinned(p) THEN [status |-> "SETTLED", by |-> p]
                                ELSE ledger[e]]
  /\ UNCHANGED <<pin, adjustment>>

-----------------------------------------------------------------------------
FinanceInit ==
  /\ ledger = [e \in Entry |-> [status |-> "NONE", by |-> None]]
  /\ pin = [e \in Entry |-> None]
  /\ settlement = [p \in Period |-> [status |-> "NONE", net |-> 0]]
  /\ adjustment = [a \in Adjustment |-> [status |-> "NONE", by |-> None]]

FinanceNext ==
  \/ \E a \in Adjustment, u \in Person :
       RequestAdjustment(a, u) \/ \E approved \in BOOLEAN : DecideAdjustment(a, u, approved)
  \/ \E p \in Period : Generate(p) \/ Approve(p)

-----------------------------------------------------------------------------
FinanceTypeOK ==
  /\ ledger \in [Entry -> [status : {"NONE", "UNSETTLED", "SETTLED"}, by : Period \cup {None}]]
  /\ pin \in [Entry -> Period \cup {None}]
  /\ settlement \in [Period -> [status : {"NONE", "PENDING_APPROVAL", "APPROVED"},
                             net : {0} \cup {Total(S) : S \in SUBSET Entry}]]
  /\ adjustment \in [Adjustment -> [status : {"NONE", "PENDING_APPROVAL", "REJECTED", "POSTED"},
                                    by : Person \cup {None}]]

Disjoint == \A p, q \in Period : p # q => Selects[p] \cap Selects[q] = {}

\* Settlements of periods that share no entry: what waits for approval adds up to exactly the
\* entries pinned to it, however often it was generated while entries were being posted.
PendingAddsUp ==
  Disjoint => \A p \in Period :
    settlement[p].status = "PENDING_APPROVAL" => settlement[p].net = Total(Pinned(p))

\* An entry is settled by the settlement it is pinned to and by no other, and that one was
\* approved, whatever the periods are (settlement_items_ledger_entry_id_key).
SettledByItsPin ==
  \A e \in Entry : ledger[e].status = "SETTLED" =>
    /\ ledger[e].by = pin[e]
    /\ pin[e] # None
    /\ settlement[pin[e]].status = "APPROVED"

\* "The amount actually payable. Equals the sum of the included ledger entries"
\* (1800_finance.sql:234; violated: generating the period again overwrites an approved total).
ApprovedAddsUp ==
  \A p \in Period :
    settlement[p].status = "APPROVED" => settlement[p].net = Total(Pinned(p))
=============================================================================
