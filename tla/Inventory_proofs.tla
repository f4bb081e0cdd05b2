-------------------------- MODULE Inventory_proofs --------------------------
(***************************************************************************)
(* Proofs about Inventory, for every number of rows, holds, transactions,  *)
(* adjustments and transfers.                                              *)
(***************************************************************************)
EXTENDS Inventory, FiniteSetTheorems, TLAPS

Deltas == [Key -> [Bucket -> Int]]

-----------------------------------------------------------------------------
(* Balances, ledger and deltas *)

LEMMA ZeroType == Zero \in [Bucket -> Int] /\ \A b \in Bucket : Zero[b] = 0
BY DEF Zero

LEMMA BucketDeltas ==
  ASSUME NEW n \in Int
  PROVE  /\ Reserving(n) \in [Bucket -> Int]
         /\ Reserving(n)["reserved"] = n
         /\ Reserving(n)["in_transit"] = 0
         /\ Releasing(n) \in [Bucket -> Int]
         /\ Releasing(n)["reserved"] = -n
         /\ Releasing(n)["in_transit"] = 0
         /\ Selling(n) \in [Bucket -> Int]
         /\ Selling(n)["reserved"] = -n
         /\ Selling(n)["in_transit"] = 0
         /\ Receiving(n) \in [Bucket -> Int]
         /\ Receiving(n)["reserved"] = 0
         /\ Receiving(n)["in_transit"] = 0
         /\ Dispatching(n) \in [Bucket -> Int]
         /\ Dispatching(n)["reserved"] = 0
         /\ Dispatching(n)["in_transit"] = n
         /\ Arriving(n) \in [Bucket -> Int]
         /\ Arriving(n)["reserved"] = 0
         /\ Arriving(n)["in_transit"] = -n
BY DEF Reserving, Releasing, Selling, Receiving, Dispatching, Arriving, Zero, Bucket

\* An adjustment's deltas touch neither what is reserved nor what is in transit, and its
\* ledger row says what the update did.
LEMMA AdjustmentDeltas ==
  ASSUME NEW b \in TargetBucket, NEW n \in Int
  PROVE  /\ AdjustDeltas(b, n) \in [Bucket -> Int]
         /\ AdjustDeltas(b, n)["reserved"] = 0
         /\ AdjustDeltas(b, n)["in_transit"] = 0
         /\ AdjustLedgerDeltas(b, n) = AdjustDeltas(b, n)
<1>1. AdjustDeltas(b, n) \in [Bucket -> Int]
  BY DEF AdjustDeltas, Zero, Bucket, TargetBucket
<1>2. AdjustDeltas(b, n)["reserved"] = 0 /\ AdjustDeltas(b, n)["in_transit"] = 0
  BY DEF AdjustDeltas, Zero, Bucket, TargetBucket
<1>3. AdjustLedgerDeltas(b, n) \in [Bucket -> Int]
  BY DEF AdjustLedgerDeltas, Zero, Bucket, TargetBucket
<1>4. \A x \in Bucket : AdjustLedgerDeltas(b, n)[x] = AdjustDeltas(b, n)[x]
  BY DEF AdjustDeltas, AdjustLedgerDeltas, Zero, Bucket, TargetBucket
<1> QED BY <1>1, <1>2, <1>3, <1>4

LEMMA OnRowType ==
  ASSUME NEW k \in Key, NEW d \in [Bucket -> Int]
  PROVE  /\ OnRow(k, d) \in Deltas
         /\ OnRow(k, d)[k] = d
         /\ \A x \in Key \ {k} : OnRow(k, d)[x] = Zero
BY ZeroType DEF OnRow, Deltas

LEMMA OnRowZero ==
  ASSUME NEW k \in Key, NEW d \in [Bucket -> Int], NEW b \in Bucket, d[b] = 0
  PROVE  \A x \in Key : OnRow(k, d)[x][b] = 0
<1>1. ASSUME NEW x \in Key PROVE OnRow(k, d)[x][b] = 0
  <2>1. CASE x = k
    BY <2>1, OnRowType
  <2>2. CASE x # k
    BY <2>2, OnRowType, ZeroType
  <2> QED BY <2>1, <2>2
<1> QED BY <1>1

LEMMA ShiftType ==
  ASSUME NEW m \in Deltas, NEW d \in Deltas
  PROVE  /\ Shift(m, d) \in Deltas
         /\ \A k \in Key, b \in Bucket : Shift(m, d)[k][b] = m[k][b] + d[k][b]
BY DEF Shift, Deltas

\* What every stock movement does, whichever transaction makes it.
LEMMA MoveEffect ==
  ASSUME balance \in [Key -> [Bucket -> Nat]],
         ledger \in Deltas,
         NEW upd \in Deltas, NEW row \in Deltas,
         Move(upd, row)
  PROVE  /\ balance' \in [Key -> [Bucket -> Nat]]
         /\ ledger' \in Deltas
         /\ \A k \in Key : balance'[k]["available"] <= Ceiling
         /\ \A k \in Key, b \in Bucket : balance'[k][b] = balance[k][b] + upd[k][b]
         /\ upd = row /\ balance = ledger => balance' = ledger'
<1>1. balance \in Deltas
  BY DEF Deltas
<1>2. balance' \in Deltas /\ ledger' \in Deltas
  BY <1>1, ShiftType DEF Move
<1>3. \A k \in Key, b \in Bucket : balance'[k][b] = balance[k][b] + upd[k][b]
  BY <1>1, ShiftType DEF Move
<1>4. \A k \in Key : /\ \A b \in Bucket : balance'[k][b] >= 0
                     /\ balance'[k]["available"] <= Ceiling
  BY DEF Move, Representable
<1>5. balance' \in [Key -> [Bucket -> Nat]]
  BY <1>2, <1>4 DEF Deltas
<1>6. upd = row /\ balance = ledger => balance' = ledger'
  BY DEF Move
<1> QED BY <1>2, <1>3, <1>4, <1>5, <1>6

-----------------------------------------------------------------------------
(* Counting units *)

LEMMA UnitsFinite ==
  ASSUME NEW H \in SUBSET Hold, NEW k
  PROVE  IsFiniteSet(Units(H, k)) /\ Cardinality(Units(H, k)) \in Nat
<1>1. IsFiniteSet(H)
  BY FiniteAssumption, FS_Subset
<1>2. IsFiniteSet(1..MaxQty)
  BY BoundAssumption, FS_Interval
<1>3. IsFiniteSet(H \X (1..MaxQty))
  BY <1>1, <1>2, FS_Product
<1>4. Units(H, k) \in SUBSET (H \X (1..MaxQty))
  BY DEF Units
<1>5. IsFiniteSet(Units(H, k))
  BY <1>3, <1>4, FS_Subset
<1> QED BY <1>5, FS_CardinalityType

\* Ending the holds of H takes their units away from the live ones.
LEMMA UnitsWithout ==
  ASSUME NEW S \in SUBSET Hold, NEW H \in SUBSET S, NEW k
  PROVE  Cardinality(Units(S \ H, k)) = Cardinality(Units(S, k)) - Cardinality(Units(H, k))
<1>1. Units(S \ H, k) = Units(S, k) \ Units(H, k)
  BY DEF Units
<1>2. Units(S, k) \cap Units(H, k) = Units(H, k)
  BY DEF Units
<1>3. IsFiniteSet(Units(S, k))
  BY UnitsFinite
<1> QED BY <1>1, <1>2, <1>3, FS_Difference

\* A hold of n units keeps n units.
LEMMA CardinalityOfLine ==
  ASSUME NEW h, NEW n \in Nat
  PROVE  IsFiniteSet({h} \X (1..n)) /\ Cardinality({h} \X (1..n)) = n
<1>1. IsFiniteSet({h}) /\ Cardinality({h}) = 1
  BY FS_Singleton
<1>2. IsFiniteSet(1..n) /\ Cardinality(1..n) = n
  BY FS_Interval
<1>3. /\ IsFiniteSet({h} \X (1..n))
      /\ Cardinality({h} \X (1..n)) = Cardinality({h}) * Cardinality(1..n)
  BY <1>1, <1>2, FS_Product
<1>4. Cardinality({h}) * Cardinality(1..n) = n
  BY <1>1, <1>2
<1> QED BY <1>3, <1>4

-----------------------------------------------------------------------------
(* The inductive invariant: the three bookkeeping invariants and the types they need *)

TransitUnits(k) ==
  {u \in Transfer \X (1..MaxQty) : /\ transfer[u[1]].status = "IN_TRANSIT"
                                   /\ transfer[u[1]].source = k[2]
                                   /\ u[2] <= transfer[u[1]].requested[k[1]]}

LiveHolds == {h \in Hold : Live(h)}

Bookkeeping == TypeOK /\ ReservedMatchesHolds /\ LedgerReplays

\* A release of the live holds of H keeps the books.
LEMMA ReleaseKeepsBooks ==
  ASSUME Bookkeeping, NEW H \in SUBSET Hold, NEW reason,
         ReleaseReservations(H, reason)
  PROVE  Bookkeeping'
<1> USE DEF Bookkeeping
<1> DEFINE d == [k \in Key |-> Releasing(Cardinality(Units(H, k)))]
<1>1. d \in Deltas
  BY UnitsFinite, BucketDeltas DEF Deltas
<1>2. Move(d, d)
  BY DEF ReleaseReservations
<1>3. /\ balance' \in [Key -> [Bucket -> Nat]]
      /\ ledger' \in Deltas
      /\ \A k \in Key : balance'[k]["available"] <= Ceiling
      /\ \A k \in Key, b \in Bucket : balance'[k][b] = balance[k][b] + d[k][b]
      /\ balance' = ledger'
  BY <1>1, <1>2, MoveEffect DEF TypeOK, LedgerReplays, Deltas
<1>4. TypeOK'
  <2>1. ASSUME NEW h \in Hold
        PROVE  hold'[h] \in HoldRecord
    <3>1. hold[h] \in HoldRecord
      BY DEF TypeOK
    <3>2. CASE h \in H
      BY <3>1, <3>2 DEF ReleaseReservations, HoldRecord, HoldStatus
    <3>3. CASE h \notin H
      BY <3>1, <3>3 DEF ReleaseReservations
    <3> QED BY <3>2, <3>3
  <2>2. \A h \in Hold : hold'[h].status # "FREE" => hold'[h].key \in Key
    BY DEF ReleaseReservations, TypeOK, HoldRecord, Live, LiveStatus
  <2>3. hold' \in [Hold -> HoldRecord]
    BY <2>1 DEF ReleaseReservations
  <2> QED BY <1>3, <2>2, <2>3 DEF ReleaseReservations, TypeOK, adjustVars, Deltas
<1>5. ASSUME NEW k \in Key
      PROVE  balance'[k]["reserved"] = Cardinality(Units(LiveHolds, k)')
  <2>1. LiveHolds' = LiveHolds \ H
    BY DEF LiveHolds, Live, LiveStatus, ReleaseReservations, TypeOK, HoldRecord
  <2>2. Units(LiveHolds, k)' = Units(LiveHolds \ H, k)
    BY <2>1 DEF Units, LiveHolds, ReleaseReservations, TypeOK, HoldRecord
  <2>3. H \in SUBSET LiveHolds
    BY DEF LiveHolds, ReleaseReservations
  <2>4. Cardinality(Units(LiveHolds \ H, k))
          = Cardinality(Units(LiveHolds, k)) - Cardinality(Units(H, k))
    BY <2>3, UnitsWithout DEF LiveHolds
  <2>5. d[k]["reserved"] = - Cardinality(Units(H, k))
    BY UnitsFinite, BucketDeltas
  <2>6. balance'[k]["reserved"] = balance[k]["reserved"] + d[k]["reserved"]
    BY <1>3 DEF Bucket
  <2>7. balance[k]["reserved"] = Cardinality(Units(LiveHolds, k))
    BY DEF ReservedMatchesHolds, LiveHolds
  <2>8. Cardinality(Units(LiveHolds, k)) \in Nat /\ Cardinality(Units(H, k)) \in Nat
    BY UnitsFinite DEF LiveHolds
  <2> QED BY <2>2, <2>4, <2>5, <2>6, <2>7, <2>8
<1> QED BY <1>3, <1>4, <1>5 DEF ReservedMatchesHolds, LedgerReplays, LiveHolds

\* A stock movement that touches no reserved quantity and no hold keeps the books.
LEMMA MoveKeepsBooks ==
  ASSUME Bookkeeping, NEW d \in Deltas, Move(d, d), UNCHANGED hold,
         \A k \in Key : d[k]["reserved"] = 0
  PROVE  /\ balance' \in [Key -> [Bucket -> Nat]]
         /\ ledger' \in [Key -> [Bucket -> Int]]
         /\ \A k \in Key : balance'[k]["available"] <= Ceiling
         /\ \A k \in Key, b \in Bucket : balance'[k][b] = balance[k][b] + d[k][b]
         /\ ReservedMatchesHolds'
         /\ LedgerReplays'
<1> USE DEF Bookkeeping
<1>1. /\ balance' \in [Key -> [Bucket -> Nat]]
      /\ ledger' \in Deltas
      /\ \A k \in Key : balance'[k]["available"] <= Ceiling
      /\ \A k \in Key, b \in Bucket : balance'[k][b] = balance[k][b] + d[k][b]
      /\ balance' = ledger'
  BY MoveEffect DEF TypeOK, LedgerReplays, Deltas
<1>2. ASSUME NEW k \in Key
      PROVE  balance'[k]["reserved"] = Cardinality(Units(LiveHolds, k)')
  <2>1. Units(LiveHolds, k)' = Units(LiveHolds, k)
    BY DEF Units, LiveHolds, Live
  <2>2. balance'[k]["reserved"] = balance[k]["reserved"] + 0
    BY <1>1 DEF Bucket
  <2>3. balance[k]["reserved"] \in Nat
    BY DEF TypeOK, Bucket
  <2> QED BY <2>1, <2>2, <2>3 DEF ReservedMatchesHolds, LiveHolds
<1> QED BY <1>1, <1>2 DEF ReservedMatchesHolds, LedgerReplays, LiveHolds, Deltas

\* A step that leaves the balances alone and neither creates nor ends a hold keeps them.
LEMMA SameHoldsKeepBooks ==
  ASSUME Bookkeeping, UNCHANGED <<balance, ledger>>,
         \A h \in Hold : /\ hold'[h].key = hold[h].key
                         /\ hold'[h].qty = hold[h].qty
                         /\ hold'[h].status \in LiveStatus <=> hold[h].status \in LiveStatus
  PROVE  ReservedMatchesHolds' /\ LedgerReplays'
<1>1. LiveHolds' = LiveHolds
  BY DEF LiveHolds, Live
<1>2. ASSUME NEW k \in Key PROVE Units(LiveHolds, k)' = Units(LiveHolds, k)
  <2>1. LiveHolds \in SUBSET Hold
    BY DEF LiveHolds
  <2> QED BY <1>1, <2>1 DEF Units
<1> QED BY <1>2 DEF Bookkeeping, ReservedMatchesHolds, LedgerReplays, LiveHolds

LEMMA ReserveCheckKeepsBooks ==
  ASSUME Bookkeeping, NEW c \in Caller, NEW i \in IdemKey, NEW req \in Lines,
         ReserveCheck(c, i, req)
  PROVE  Bookkeeping'
<1>1. ReservedMatchesHolds' /\ LedgerReplays'
  BY SameHoldsKeepBooks DEF ReserveCheck
<1>2. TypeOK'
  BY DEF Bookkeeping, ReserveCheck, TypeOK, adjustVars
<1> QED BY <1>1, <1>2 DEF Bookkeeping

LEMMA ReserveRefusedKeepsBooks ==
  ASSUME Bookkeeping, NEW c \in Caller, ReserveRefused(c)
  PROVE  Bookkeeping'
<1>1. ReservedMatchesHolds' /\ LedgerReplays'
  BY SameHoldsKeepBooks DEF ReserveRefused
<1>2. TypeOK'
  BY DEF Bookkeeping, ReserveRefused, TypeOK, adjustVars
<1> QED BY <1>1, <1>2 DEF Bookkeeping

LEMMA ConfirmKeepsBooks ==
  ASSUME Bookkeeping, NEW H \in SUBSET Hold, ConfirmReservations(H)
  PROVE  Bookkeeping'
<1> USE DEF Bookkeeping
<1>1. ASSUME NEW h \in Hold
      PROVE  /\ hold'[h] \in HoldRecord
             /\ hold'[h].key = hold[h].key
             /\ hold'[h].qty = hold[h].qty
             /\ hold'[h].status \in LiveStatus <=> hold[h].status \in LiveStatus
             /\ hold'[h].status # "FREE" <=> hold[h].status # "FREE"
  <2>1. hold[h] \in HoldRecord
    BY DEF TypeOK
  <2>2. CASE h \in H
    BY <2>1, <2>2 DEF ConfirmReservations, HoldRecord, HoldStatus, LiveStatus
  <2>3. CASE h \notin H
    BY <2>1, <2>3 DEF ConfirmReservations
  <2> QED BY <2>2, <2>3
<1>2. ReservedMatchesHolds' /\ LedgerReplays'
  BY <1>1, SameHoldsKeepBooks DEF ConfirmReservations
<1>3. hold' \in [Hold -> HoldRecord]
  BY <1>1 DEF ConfirmReservations
<1>4. TypeOK'
  BY <1>1, <1>3 DEF ConfirmReservations, TypeOK, adjustVars
<1> QED BY <1>2, <1>4

LEMMA ExpiryKeepsBooks ==
  ASSUME Bookkeeping, NEW h \in Hold, HoldExpires(h)
  PROVE  Bookkeeping'
<1> USE DEF Bookkeeping
<1>1. hold[h] \in HoldRecord /\ hold' = [hold EXCEPT ![h].expired = TRUE]
  BY DEF HoldExpires, TypeOK
<1>2. hold' \in [Hold -> HoldRecord]
  BY <1>1 DEF TypeOK, HoldRecord
<1>3. \A g \in Hold : /\ hold'[g].key = hold[g].key
                      /\ hold'[g].qty = hold[g].qty
                      /\ hold'[g].status = hold[g].status
  BY <1>1 DEF TypeOK, HoldRecord
<1>4. ReservedMatchesHolds' /\ LedgerReplays'
  BY <1>3, SameHoldsKeepBooks DEF HoldExpires
<1>5. TypeOK'
  BY <1>2, <1>3 DEF HoldExpires, TypeOK, adjustVars
<1> QED BY <1>4, <1>5

LEMMA ConsumeKeepsBooks ==
  ASSUME Bookkeeping, NEW h \in Hold, ConsumeReservation(h)
  PROVE  Bookkeeping'
<1> USE DEF Bookkeeping
<1> DEFINE d == [k \in Key |-> Selling(Cardinality(Units({h}, k)))]
<1>1. d \in Deltas
  <2>1. {h} \in SUBSET Hold
    OBVIOUS
  <2>2. \A k \in Key : Cardinality(Units({h}, k)) \in Int
    BY <2>1, UnitsFinite
  <2> QED BY <2>2, BucketDeltas DEF Deltas
<1>2. /\ balance' \in [Key -> [Bucket -> Nat]]
      /\ ledger' \in Deltas
      /\ \A k \in Key : balance'[k]["available"] <= Ceiling
      /\ \A k \in Key, b \in Bucket : balance'[k][b] = balance[k][b] + d[k][b]
      /\ balance' = ledger'
  BY <1>1, MoveEffect DEF TypeOK, LedgerReplays, Deltas, ConsumeReservation
<1>3. /\ hold[h] \in HoldRecord
      /\ hold[h].status = "CONFIRMED"
      /\ hold' = [hold EXCEPT ![h].status = "CONSUMED"]
  BY DEF ConsumeReservation, TypeOK
<1>4. hold' \in [Hold -> HoldRecord]
  BY <1>3 DEF TypeOK, HoldRecord, HoldStatus
<1>5. /\ \A g \in Hold : hold'[g].key = hold[g].key /\ hold'[g].qty = hold[g].qty
      /\ \A g \in Hold \ {h} : hold'[g] = hold[g]
      /\ hold'[h].status = "CONSUMED"
  BY <1>3 DEF TypeOK, HoldRecord
<1>6. TypeOK'
  BY <1>2, <1>3, <1>4, <1>5 DEF ConsumeReservation, TypeOK, adjustVars, Deltas
<1>7. ASSUME NEW k \in Key
      PROVE  balance'[k]["reserved"] = Cardinality(Units(LiveHolds, k)')
  <2>1. LiveHolds' = LiveHolds \ {h}
    BY <1>3, <1>5 DEF LiveHolds, Live, LiveStatus
  <2>2. LiveHolds \in SUBSET Hold /\ {h} \in SUBSET LiveHolds
    BY <1>3 DEF LiveHolds, Live, LiveStatus
  <2>3. Units(LiveHolds, k)' = Units(LiveHolds \ {h}, k)
    BY <1>5, <2>1, <2>2 DEF Units
  <2>4. Cardinality(Units(LiveHolds \ {h}, k))
          = Cardinality(Units(LiveHolds, k)) - Cardinality(Units({h}, k))
    BY <2>2, UnitsWithout
  <2>5. d[k]["reserved"] = - Cardinality(Units({h}, k))
    BY UnitsFinite, BucketDeltas
  <2>6. balance'[k]["reserved"] = balance[k]["reserved"] + d[k]["reserved"]
    BY <1>2 DEF Bucket
  <2>7. balance[k]["reserved"] = Cardinality(Units(LiveHolds, k))
    BY DEF ReservedMatchesHolds, LiveHolds
  <2>8. Cardinality(Units(LiveHolds, k)) \in Nat /\ Cardinality(Units({h}, k)) \in Nat
    BY <2>2, UnitsFinite
  <2> QED BY <2>3, <2>4, <2>5, <2>6, <2>7, <2>8
<1> QED BY <1>2, <1>6, <1>7 DEF ReservedMatchesHolds, LedgerReplays, LiveHolds

\* The heart of the matter: a checkout's lines become reserved units and live holds of
\* the same number, row by row.
LEMMA InsertKeepsBooks ==
  ASSUME Bookkeeping, NEW c \in Caller, ReserveInsert(c)
  PROVE  Bookkeeping'
<1> USE DEF Bookkeeping
<1> DEFINE i == call[c].idem
           req == call[c].lines
           d == [k \in Key |-> Reserving(req[k])]
<1>1. call[c] # None /\ call[c] \in [idem : IdemKey, lines : Lines]
  BY DEF ReserveInsert, TypeOK
<1>2. i \in IdemKey /\ req \in [Key -> 0..MaxQty]
  BY <1>1 DEF Lines
<1>3. PICK rows \in [Asked(req) -> {h \in Hold : hold[h].status = "FREE"}] :
        /\ \A j, k \in Asked(req) : rows[j] = rows[k] => j = k
        /\ hold' = [h \in Hold |->
             IF \E k \in Asked(req) : rows[k] = h
             THEN LET k == CHOOSE k \in Asked(req) : rows[k] = h
                  IN [status |-> "ACTIVE", key |-> k, qty |-> req[k],
                      idem |-> i, expired |-> FALSE]
             ELSE hold[h]]
  BY DEF ReserveInsert
<1>4. /\ Move(d, d)
      /\ call' = [call EXCEPT ![c] = None]
      /\ UNCHANGED <<adjustVars, transfer>>
  BY DEF ReserveInsert
<1>5. d \in Deltas /\ \A k \in Key : d[k]["reserved"] = req[k]
  <2>1. \A k \in Key : req[k] \in Int
    BY <1>2, BoundAssumption
  <2> QED BY <2>1, BucketDeltas DEF Deltas
<1>6. /\ balance' \in [Key -> [Bucket -> Nat]]
      /\ ledger' \in Deltas
      /\ \A k \in Key : balance'[k]["available"] <= Ceiling
      /\ \A k \in Key, b \in Bucket : balance'[k][b] = balance[k][b] + d[k][b]
      /\ balance' = ledger'
  BY <1>4, <1>5, MoveEffect DEF TypeOK, LedgerReplays, Deltas
<1>7. ASSUME NEW k \in Asked(req)
      PROVE  /\ rows[k] \in Hold
             /\ hold[rows[k]].status = "FREE"
             /\ hold'[rows[k]] = [status |-> "ACTIVE", key |-> k, qty |-> req[k],
                                  idem |-> i, expired |-> FALSE]
  <2>1. rows[k] \in Hold /\ hold[rows[k]].status = "FREE"
    BY <1>3, <1>7
  <2>2. (CHOOSE j \in Asked(req) : rows[j] = rows[k]) = k
    BY <1>3, <1>7
  <2> QED BY <1>3, <1>7, <2>1, <2>2
<1>row. ASSUME NEW k \in Asked(req)
      PROVE  /\ hold'[rows[k]].status = "ACTIVE"
             /\ hold'[rows[k]].key = k
             /\ hold'[rows[k]].qty = req[k]
  <2> DEFINE r == [status |-> "ACTIVE", key |-> k, qty |-> req[k],
                   idem |-> i, expired |-> FALSE]
  <2>1. hold'[rows[k]] = r
    BY <1>7, <1>row
  <2>2. r.status = "ACTIVE" /\ r.key = k /\ r.qty = req[k]
    OBVIOUS
  <2> HIDE DEF r
  <2> QED BY <2>1, <2>2
<1>8. ASSUME NEW h \in Hold, \A k \in Asked(req) : rows[k] # h
      PROVE  hold'[h] = hold[h]
  BY <1>3, <1>8
<1>9. ASSUME NEW h \in Hold
      PROVE  /\ hold'[h] \in HoldRecord
             /\ hold'[h].status # "FREE" => hold'[h].key \in Key
  <2>1. CASE \E k \in Asked(req) : rows[k] = h
    <3>1. PICK k \in Asked(req) : rows[k] = h
      BY <2>1
    <3>2. k \in Key /\ req[k] \in 0..MaxQty
      BY <1>2 DEF Asked
    <3>3. hold'[h] = [status |-> "ACTIVE", key |-> k, qty |-> req[k],
                      idem |-> i, expired |-> FALSE]
      BY <1>7, <3>1
    <3> QED BY <1>2, <3>2, <3>3 DEF HoldRecord, HoldStatus
  <2>2. CASE \A k \in Asked(req) : rows[k] # h
    BY <1>8, <2>2 DEF TypeOK
  <2> QED BY <2>1, <2>2
<1>10. TypeOK'
  <2>1. hold' \in [Hold -> HoldRecord]
    BY <1>3, <1>9
  <2>2. call' \in [Caller -> {None} \cup [idem : IdemKey, lines : Lines]]
    BY <1>4 DEF TypeOK
  <2> QED BY <1>4, <1>6, <1>9, <2>1, <2>2 DEF TypeOK, adjustVars, Deltas
<1>11. ASSUME NEW k \in Key
       PROVE  balance'[k]["reserved"] = Cardinality(Units(LiveHolds, k)')
  <2>1. balance'[k]["reserved"] = balance[k]["reserved"] + req[k]
    BY <1>5, <1>6 DEF Bucket
  <2>2. balance[k]["reserved"] = Cardinality(Units(LiveHolds, k))
    BY DEF ReservedMatchesHolds, LiveHolds
  <2>3. IsFiniteSet(Units(LiveHolds, k)) /\ Cardinality(Units(LiveHolds, k)) \in Nat
    BY UnitsFinite DEF LiveHolds
  <2>4. \A h \in LiveHolds : hold'[h] = hold[h] /\ h \in LiveHolds'
    BY <1>3, <1>8 DEF LiveHolds, Live, LiveStatus
  <2>5. ASSUME NEW h \in LiveHolds', h \notin LiveHolds
        PROVE  \E j \in Asked(req) : h = rows[j]
    BY <1>8, <2>5 DEF LiveHolds, Live
  <2>6. CASE k \in Asked(req)
    <3> DEFINE new == {rows[k]} \X (1..req[k])
    <3>1. req[k] \in Nat /\ req[k] <= MaxQty
      BY <1>2, BoundAssumption
    <3>2. rows[k] \in LiveHolds' /\ rows[k] \notin LiveHolds
      BY <1>7, <1>row, <2>6 DEF LiveHolds, Live, LiveStatus
    <3>3. new \subseteq Units(LiveHolds, k)'
      BY <1>row, <2>6, <3>1, <3>2, BoundAssumption DEF Units
    <3>4. Units(LiveHolds, k) \subseteq Units(LiveHolds, k)'
      BY <2>4 DEF Units
    <3>5. ASSUME NEW u \in Units(LiveHolds, k)', u \notin Units(LiveHolds, k)
          PROVE  u \in new
      <4>1. /\ u = <<u[1], u[2]>>
            /\ u[1] \in LiveHolds'
            /\ u[2] \in 1..MaxQty
            /\ hold'[u[1]].key = k
            /\ u[2] <= hold'[u[1]].qty
        BY <3>5 DEF Units
      <4>2. u[1] \notin LiveHolds
        BY <2>4, <3>5, <4>1 DEF Units
      <4>3. PICK j \in Asked(req) : u[1] = rows[j]
        BY <2>5, <4>1, <4>2
      <4>4. j = k /\ hold'[u[1]].qty = req[k]
        BY <1>row, <4>1, <4>3
      <4>5. u[1] = rows[k] /\ u[2] \in 1..req[k]
        BY <3>1, <4>1, <4>3, <4>4, BoundAssumption
      <4> QED BY <4>1, <4>5
    <3>6. Units(LiveHolds, k)' = Units(LiveHolds, k) \cup new
      BY <3>3, <3>4, <3>5
    <3>7. Units(LiveHolds, k) \cap new = {}
      BY <3>2 DEF Units
    <3>8. IsFiniteSet(new) /\ Cardinality(new) = req[k]
      BY <3>1, CardinalityOfLine
    <3>9. Cardinality(Units(LiveHolds, k) \cup new)
            = Cardinality(Units(LiveHolds, k)) + Cardinality(new) - Cardinality({})
      BY <2>3, <3>7, <3>8, FS_Union
    <3> QED BY <2>1, <2>2, <2>3, <3>1, <3>6, <3>8, <3>9, FS_EmptySet
  <2>7. CASE k \notin Asked(req)
    <3>1. req[k] = 0
      BY <1>2, <2>7, BoundAssumption DEF Asked
    <3>2. Units(LiveHolds, k) \subseteq Units(LiveHolds, k)'
      BY <2>4 DEF Units
    <3>3. ASSUME NEW u \in Units(LiveHolds, k)', u \notin Units(LiveHolds, k)
          PROVE  FALSE
      <4>1. /\ u = <<u[1], u[2]>>
            /\ u[1] \in LiveHolds'
            /\ u[2] \in 1..MaxQty
            /\ hold'[u[1]].key = k
            /\ u[2] <= hold'[u[1]].qty
        BY <3>3 DEF Units
      <4>2. u[1] \notin LiveHolds
        BY <2>4, <3>3, <4>1 DEF Units
      <4>3. PICK j \in Asked(req) : u[1] = rows[j]
        BY <2>5, <4>1, <4>2
      <4> QED BY <1>row, <2>7, <4>1, <4>3
    <3>4. Units(LiveHolds, k)' = Units(LiveHolds, k)
      BY <3>2, <3>3
    <3> QED BY <2>1, <2>2, <2>3, <3>1, <3>4
  <2> QED BY <2>6, <2>7
<1> QED BY <1>6, <1>10, <1>11 DEF ReservedMatchesHolds, LedgerReplays, LiveHolds

LEMMA ReceiveKeepsBooks ==
  ASSUME Bookkeeping, NEW k \in Key, NEW n \in 1..MaxQty, ReceiveStock(k, n)
  PROVE  Bookkeeping'
<1> DEFINE d == OnRow(k, Receiving(n))
<1>1. n \in Int
  BY BoundAssumption
<1>2. d \in Deltas /\ \A x \in Key : d[x]["reserved"] = 0
  <2>1. /\ Receiving(n) \in [Bucket -> Int]
        /\ Receiving(n)["reserved"] = 0
        /\ "reserved" \in Bucket
    BY <1>1, BucketDeltas DEF Bucket
  <2> QED BY <2>1, OnRowType, OnRowZero
<1>3. Move(d, d) /\ UNCHANGED <<holdVars, adjustVars, transfer>>
  BY DEF ReceiveStock
<1> HIDE DEF d
<1>4. TypeOK'
  BY <1>2, <1>3, MoveKeepsBooks DEF Bookkeeping, TypeOK, holdVars, adjustVars
<1> QED BY <1>2, <1>3, <1>4, MoveKeepsBooks DEF Bookkeeping, holdVars

LEMMA RequestAdjustmentKeepsBooks ==
  ASSUME Bookkeeping, NEW a \in Adjustment, NEW p \in Staff, NEW k \in Key,
         NEW b \in TargetBucket, NEW n \in -MaxQty..MaxQty,
         RequestAdjustment(a, p, k, b, n)
  PROVE  Bookkeeping'
<1> USE DEF Bookkeeping
<1>1. ReservedMatchesHolds' /\ LedgerReplays'
  BY SameHoldsKeepBooks DEF RequestAdjustment, holdVars
<1>2. adjustment' \in [Adjustment -> AdjustmentRecord]
  <2>1. [status |-> "PENDING_APPROVAL", key |-> k, bucket |-> b, delta |-> n,
         requestedBy |-> p, approvedBy |-> None] \in AdjustmentRecord
    BY BoundAssumption DEF AdjustmentRecord, AdjustmentStatus
  <2> QED BY <2>1 DEF RequestAdjustment, TypeOK
<1>3. /\ adjustment'[a].status # "FREE"
      /\ adjustment'[a].key = k
      /\ \A x \in Adjustment \ {a} : adjustment'[x] = adjustment[x]
  BY DEF RequestAdjustment, TypeOK
<1>4. TypeOK'
  BY <1>2, <1>3 DEF RequestAdjustment, TypeOK, holdVars
<1> QED BY <1>1, <1>4

LEMMA ReadAdjustmentKeepsBooks ==
  ASSUME Bookkeeping, NEW a \in Adjustment, NEW p \in Staff, ReadAdjustment(p, a)
  PROVE  Bookkeeping'
<1> USE DEF Bookkeeping
<1>1. ReservedMatchesHolds' /\ LedgerReplays'
  BY SameHoldsKeepBooks DEF ReadAdjustment, holdVars
<1>2. /\ reading' \in [Staff -> Adjustment \cup {None}]
      /\ \A q \in Staff : reading'[q] # None => adjustment[reading'[q]].status # "FREE"
  BY DEF ReadAdjustment, TypeOK
<1>3. TypeOK'
  BY <1>2 DEF ReadAdjustment, TypeOK, holdVars
<1> QED BY <1>1, <1>3

LEMMA RejectAdjustmentKeepsBooks ==
  ASSUME Bookkeeping, NEW p \in Staff, RejectAdjustment(p)
  PROVE  Bookkeeping'
<1> USE DEF Bookkeeping
<1>1. ReservedMatchesHolds' /\ LedgerReplays'
  BY SameHoldsKeepBooks DEF RejectAdjustment, holdVars
<1>2. reading[p] \in Adjustment /\ adjustment[reading[p]] \in AdjustmentRecord
      /\ adjustment[reading[p]].status # "FREE"
  BY DEF RejectAdjustment, TypeOK
<1>3. /\ adjustment' = [adjustment EXCEPT ![reading[p]].status = "REJECTED"]
      /\ reading' = [reading EXCEPT ![p] = None]
  BY DEF RejectAdjustment
<1>4. adjustment' \in [Adjustment -> AdjustmentRecord]
  BY <1>2, <1>3 DEF TypeOK, AdjustmentRecord, AdjustmentStatus
<1>5. \A x \in Adjustment : /\ adjustment'[x].key = adjustment[x].key
                            /\ adjustment'[x].status # "FREE" <=> adjustment[x].status # "FREE"
  BY <1>2, <1>3 DEF TypeOK, AdjustmentRecord
<1>6. TypeOK'
  BY <1>3, <1>4, <1>5 DEF RejectAdjustment, TypeOK, holdVars
<1> QED BY <1>1, <1>6

LEMMA ApprovalRefusedKeepsBooks ==
  ASSUME Bookkeeping, NEW p \in Staff, ApprovalRefused(p)
  PROVE  Bookkeeping'
<1>1. ReservedMatchesHolds' /\ LedgerReplays'
  BY SameHoldsKeepBooks DEF ApprovalRefused, holdVars
<1>2. TypeOK'
  BY DEF Bookkeeping, ApprovalRefused, TypeOK, holdVars
<1> QED BY <1>1, <1>2 DEF Bookkeeping

\* What an approval moves: no reserved unit and no unit in transit.
LEMMA ApprovalMoves ==
  ASSUME TypeOK, NEW p \in Staff, ApproveAdjustment(p)
  PROVE  \E d \in Deltas : /\ Move(d, d)
                           /\ \A x \in Key : d[x]["reserved"] = 0 /\ d[x]["in_transit"] = 0
<1> DEFINE a == reading[p]
           k == adjustment[a].key
           b == adjustment[a].bucket
           n == adjustment[a].delta
           d == OnRow(k, AdjustDeltas(b, n))
<1>1. a \in Adjustment /\ adjustment[a] \in AdjustmentRecord /\ adjustment[a].status # "FREE"
  BY DEF ApproveAdjustment, TypeOK
<1>2. k \in Key /\ n \in Int /\ b \in TargetBucket
  BY <1>1 DEF TypeOK, AdjustmentRecord
<1>3. AdjustLedgerDeltas(b, n) = AdjustDeltas(b, n) /\ AdjustDeltas(b, n) \in [Bucket -> Int]
  BY <1>2, AdjustmentDeltas
<1>4. Move(d, d)
  BY <1>3 DEF ApproveAdjustment
<1>5. d \in Deltas /\ \A x \in Key : d[x]["reserved"] = 0 /\ d[x]["in_transit"] = 0
  <2>1. /\ AdjustDeltas(b, n)["reserved"] = 0
        /\ AdjustDeltas(b, n)["in_transit"] = 0
        /\ "reserved" \in Bucket /\ "in_transit" \in Bucket
    BY <1>2, AdjustmentDeltas DEF Bucket
  <2> QED BY <1>2, <1>3, <2>1, OnRowType, OnRowZero
<1> QED BY <1>4, <1>5

LEMMA ApproveAdjustmentKeepsBooks ==
  ASSUME Bookkeeping, NEW p \in Staff, ApproveAdjustment(p)
  PROVE  Bookkeeping'
<1> USE DEF Bookkeeping
<1>1. PICK d \in Deltas : Move(d, d) /\ \A x \in Key : d[x]["reserved"] = 0
  BY ApprovalMoves
<1>2. reading[p] \in Adjustment /\ adjustment[reading[p]] \in AdjustmentRecord
      /\ adjustment[reading[p]].status # "FREE"
  BY DEF ApproveAdjustment, TypeOK
<1>3. /\ adjustment' = [adjustment EXCEPT ![reading[p]].status = "APPLIED",
                                          ![reading[p]].approvedBy = p]
      /\ applied' = [applied EXCEPT ![reading[p]] = @ + 1]
      /\ reading' = [reading EXCEPT ![p] = None]
      /\ UNCHANGED <<holdVars, transfer>>
  BY DEF ApproveAdjustment
<1>4. adjustment' \in [Adjustment -> AdjustmentRecord]
  BY <1>2, <1>3 DEF TypeOK, AdjustmentRecord, AdjustmentStatus
<1>5. \A x \in Adjustment : /\ adjustment'[x].key = adjustment[x].key
                            /\ adjustment'[x].status # "FREE" <=> adjustment[x].status # "FREE"
  BY <1>2, <1>3 DEF TypeOK, AdjustmentRecord
<1>6. applied' \in [Adjustment -> Nat]
  BY <1>2, <1>3 DEF TypeOK
<1>7. reading' \in [Staff -> Adjustment \cup {None}]
      /\ \A q \in Staff : reading'[q] # None => adjustment'[reading'[q]].status # "FREE"
  BY <1>3, <1>5 DEF TypeOK
<1>8. TypeOK'
  BY <1>1, <1>3, <1>4, <1>5, <1>6, <1>7, MoveKeepsBooks DEF TypeOK, holdVars
<1> QED BY <1>1, <1>3, <1>8, MoveKeepsBooks DEF holdVars

-----------------------------------------------------------------------------
(* Transfers *)

LEMMA ItemRowsDispatch ==
  ASSUME TypeOK, NEW t \in Transfer, NEW w
  PROVE  /\ ItemRows(t, w, Dispatching) \in Deltas
         /\ \A k \in Key :
              /\ ItemRows(t, w, Dispatching)[k]["reserved"] = 0
              /\ ItemRows(t, w, Dispatching)[k]["in_transit"]
                   = IF k[2] = w THEN transfer[t].requested[k[1]] ELSE 0
<1> DEFINE d == ItemRows(t, w, Dispatching)
<1>1. ASSUME NEW k \in Key
      PROVE  /\ d[k] \in [Bucket -> Int]
             /\ d[k]["reserved"] = 0
             /\ d[k]["in_transit"] = IF k[2] = w THEN transfer[t].requested[k[1]] ELSE 0
  <2>1. transfer[t].requested[k[1]] \in Int
    BY BoundAssumption DEF TypeOK, TransferRecord, Key
  <2>2. CASE k[2] = w
    BY <2>1, <2>2, BucketDeltas DEF ItemRows
  <2>3. CASE k[2] # w
    BY <2>3, ZeroType DEF ItemRows, Bucket
  <2> QED BY <2>2, <2>3
<1> QED BY <1>1 DEF ItemRows, Deltas

LEMMA ItemRowsArrive ==
  ASSUME TypeOK, NEW t \in Transfer, NEW v, NEW w
  PROVE  LET d == Shift(ItemRows(t, v, Arriving), ItemRows(t, w, Receiving))
         IN  /\ d \in Deltas
             /\ \A k \in Key :
                  /\ d[k]["reserved"] = 0
                  /\ d[k]["in_transit"]
                       = IF k[2] = v THEN - transfer[t].requested[k[1]] ELSE 0
<1> DEFINE e == ItemRows(t, v, Arriving)
           f == ItemRows(t, w, Receiving)
           d == Shift(e, f)
<1>1. ASSUME NEW k \in Key
      PROVE  /\ e[k] \in [Bucket -> Int]
             /\ e[k]["reserved"] = 0
             /\ e[k]["in_transit"] = IF k[2] = v THEN - transfer[t].requested[k[1]] ELSE 0
  <2>1. transfer[t].requested[k[1]] \in Int
    BY BoundAssumption DEF TypeOK, TransferRecord, Key
  <2>2. CASE k[2] = v
    BY <2>1, <2>2, BucketDeltas DEF ItemRows
  <2>3. CASE k[2] # v
    BY <2>3, ZeroType DEF ItemRows, Bucket
  <2> QED BY <2>2, <2>3
<1>2. ASSUME NEW k \in Key
      PROVE  f[k] \in [Bucket -> Int] /\ f[k]["reserved"] = 0 /\ f[k]["in_transit"] = 0
  <2>1. transfer[t].requested[k[1]] \in Int
    BY BoundAssumption DEF TypeOK, TransferRecord, Key
  <2>2. CASE k[2] = w
    BY <2>1, <2>2, BucketDeltas DEF ItemRows
  <2>3. CASE k[2] # w
    BY <2>3, ZeroType DEF ItemRows, Bucket
  <2> QED BY <2>2, <2>3
<1>3. e \in Deltas /\ f \in Deltas
  BY <1>1, <1>2 DEF ItemRows, Deltas
<1>4. d \in Deltas /\ \A k \in Key, b \in Bucket : d[k][b] = e[k][b] + f[k][b]
  BY <1>3, ShiftType
<1>5. ASSUME NEW k \in Key
      PROVE  /\ d[k]["reserved"] = 0
             /\ d[k]["in_transit"] = IF k[2] = v THEN - transfer[t].requested[k[1]] ELSE 0
  <2>1. "reserved" \in Bucket /\ "in_transit" \in Bucket
    BY DEF Bucket
  <2>2. transfer[t].requested[k[1]] \in Int
    BY BoundAssumption DEF TypeOK, TransferRecord, Key
  <2> HIDE DEF e, f, d
  <2> QED BY <1>1, <1>2, <1>4, <2>1, <2>2
<1> QED BY <1>4, <1>5

LEMMA CreateTransferKeepsBooks ==
  ASSUME Bookkeeping, NEW t \in Transfer, NEW v \in Warehouse, NEW w \in Warehouse,
         NEW req \in [Sku -> 0..MaxQty], CreateTransfer(t, v, w, req)
  PROVE  Bookkeeping'
<1>1. ReservedMatchesHolds' /\ LedgerReplays'
  BY SameHoldsKeepBooks DEF CreateTransfer, holdVars
<1>2. TypeOK'
  BY DEF Bookkeeping, CreateTransfer, TypeOK, TransferRecord, TransferStatus, holdVars,
         adjustVars
<1> QED BY <1>1, <1>2 DEF Bookkeeping

LEMMA DispatchKeepsBooks ==
  ASSUME Bookkeeping, NEW t \in Transfer, DispatchTransfer(t)
  PROVE  Bookkeeping'
<1> DEFINE d == ItemRows(t, transfer[t].source, Dispatching)
<1>1. d \in Deltas /\ \A k \in Key : d[k]["reserved"] = 0
  BY ItemRowsDispatch DEF Bookkeeping
<1>2. Move(d, d) /\ UNCHANGED <<holdVars, adjustVars>>
  BY DEF DispatchTransfer
<1>3. transfer' \in [Transfer -> TransferRecord]
  BY DEF DispatchTransfer, Bookkeeping, TypeOK, TransferRecord, TransferStatus
<1> HIDE DEF d
<1>4. TypeOK'
  BY <1>1, <1>2, <1>3, MoveKeepsBooks DEF Bookkeeping, TypeOK, holdVars, adjustVars
<1> QED BY <1>1, <1>2, <1>4, MoveKeepsBooks DEF Bookkeeping, holdVars

LEMMA ReceiveTransferKeepsBooks ==
  ASSUME Bookkeeping, NEW t \in Transfer, ReceiveTransfer(t)
  PROVE  Bookkeeping'
<1> DEFINE d == Shift(ItemRows(t, transfer[t].source, Arriving),
                      ItemRows(t, transfer[t].target, Receiving))
<1>1. d \in Deltas /\ \A k \in Key : d[k]["reserved"] = 0
  BY ItemRowsArrive DEF Bookkeeping
<1>2. Move(d, d) /\ UNCHANGED <<holdVars, adjustVars>>
  BY DEF ReceiveTransfer
<1>3. transfer' \in [Transfer -> TransferRecord]
  BY DEF ReceiveTransfer, Bookkeeping, TypeOK, TransferRecord, TransferStatus
<1> HIDE DEF d
<1>4. TypeOK'
  BY <1>1, <1>2, <1>3, MoveKeepsBooks DEF Bookkeeping, TypeOK, holdVars, adjustVars
<1> QED BY <1>1, <1>2, <1>4, MoveKeepsBooks DEF Bookkeeping, holdVars

-----------------------------------------------------------------------------
LEMMA InitKeepsBooks == Init => Bookkeeping
<1> SUFFICES ASSUME Init PROVE Bookkeeping
  OBVIOUS
<1>1. TypeOK
  BY NoneAssumption, BoundAssumption
     DEF Init, TypeOK, Zero, Bucket, HoldRecord, HoldStatus, FreeHold, AdjustmentRecord,
         AdjustmentStatus, FreeAdjustment, TransferRecord, TransferStatus, FreeTransfer,
         TargetBucket
<1>2. ASSUME NEW k \in Key
      PROVE  balance[k]["reserved"] = Cardinality(Units({h \in Hold : Live(h)}, k))
  <2>1. {h \in Hold : Live(h)} = {}
    BY DEF Init, Live, LiveStatus, FreeHold
  <2>2. Units({}, k) = {}
    BY DEF Units
  <2>3. balance[k]["reserved"] = 0
    BY DEF Init, Zero, Bucket
  <2> QED BY <2>1, <2>2, <2>3, FS_EmptySet
<1> QED BY <1>1, <1>2 DEF Bookkeeping, ReservedMatchesHolds, LedgerReplays, Init

LEMMA NextKeepsBooks == Bookkeeping /\ [Next]_vars => Bookkeeping'
<1> SUFFICES ASSUME Bookkeeping, [Next]_vars PROVE Bookkeeping'
  OBVIOUS
<1>1. CASE Checkout
  BY <1>1, ReserveCheckKeepsBooks, InsertKeepsBooks, ReserveRefusedKeepsBooks,
     ReleaseKeepsBooks, ConfirmKeepsBooks, ConsumeKeepsBooks, ExpiryKeepsBooks
     DEF Checkout, Sweep
<1>2. CASE Correction
  BY <1>2, RequestAdjustmentKeepsBooks, ReadAdjustmentKeepsBooks,
     RejectAdjustmentKeepsBooks, ApproveAdjustmentKeepsBooks, ApprovalRefusedKeepsBooks
     DEF Correction
<1>3. CASE Movement
  BY <1>3, ReceiveKeepsBooks, CreateTransferKeepsBooks, DispatchKeepsBooks,
     ReceiveTransferKeepsBooks DEF Movement
<1>4. CASE UNCHANGED vars
  <2>1. ReservedMatchesHolds' /\ LedgerReplays'
    BY <1>4, SameHoldsKeepBooks DEF vars
  <2>2. TypeOK'
    BY <1>4 DEF Bookkeeping, TypeOK, vars
  <2> QED BY <2>1, <2>2 DEF Bookkeeping
<1> QED BY <1>1, <1>2, <1>3, <1>4 DEF Next

\* The tables keep their types and CHECK constraints, whatever runs.
THEOREM TypeCorrect == Spec => []TypeOK
<1>1. Init => Bookkeeping
  BY InitKeepsBooks
<1>2. Bookkeeping /\ [Next]_vars => Bookkeeping'
  BY NextKeepsBooks
<1>3. Bookkeeping => TypeOK
  BY DEF Bookkeeping
<1> QED BY <1>1, <1>2, <1>3, PTL DEF Spec

\* The reserved quantity of every row is at all times the units its live holds keep
\* (reserve_stock, release_reservation, confirm_reservations, consume_reservation).
THEOREM ReservedIsHeld == Spec => []ReservedMatchesHolds
<1>1. Init => Bookkeeping
  BY InitKeepsBooks
<1>2. Bookkeeping /\ [Next]_vars => Bookkeeping'
  BY NextKeepsBooks
<1>3. Bookkeeping => ReservedMatchesHolds
  BY DEF Bookkeeping
<1> QED BY <1>1, <1>2, <1>3, PTL DEF Spec

\* reconcile_balances finds no drift in any reachable state.
THEOREM NoDrift == Spec => []LedgerReplays
<1>1. Init => Bookkeeping
  BY InitKeepsBooks
<1>2. Bookkeeping /\ [Next]_vars => Bookkeeping'
  BY NextKeepsBooks
<1>3. Bookkeeping => LedgerReplays
  BY DEF Bookkeeping
<1> QED BY <1>1, <1>2, <1>3, PTL DEF Spec

-----------------------------------------------------------------------------
(* One hold per row and key: the partial unique index, and what it covers *)

\* A step that brings no row under the index and changes no key keeps it.
LEMMA SameKeysKeepUnique ==
  ASSUME OneHoldPerRow,
         \A h \in Hold : hold'[h].status \in KeyedStatus =>
           /\ hold[h].status \in KeyedStatus
           /\ hold'[h].idem = hold[h].idem
           /\ hold'[h].key = hold[h].key
  PROVE  OneHoldPerRow'
BY DEF OneHoldPerRow

LEMMA ReleaseKeepsUnique ==
  ASSUME TypeOK, OneHoldPerRow, NEW H \in SUBSET Hold, NEW reason,
         ReleaseReservations(H, reason)
  PROVE  OneHoldPerRow'
<1>1. ASSUME NEW h \in Hold, hold'[h].status \in KeyedStatus
      PROVE  hold'[h] = hold[h]
  <2>1. CASE h \in H
    BY <1>1, <2>1 DEF ReleaseReservations, KeyedStatus, TypeOK, HoldRecord
  <2>2. CASE h \notin H
    BY <2>2 DEF ReleaseReservations
  <2> QED BY <2>1, <2>2
<1> QED BY <1>1, SameKeysKeepUnique

LEMMA ConfirmKeepsUnique ==
  ASSUME TypeOK, OneHoldPerRow, NEW H \in SUBSET Hold, ConfirmReservations(H)
  PROVE  OneHoldPerRow'
<1>1. ASSUME NEW h \in Hold, hold'[h].status \in KeyedStatus
      PROVE  /\ hold[h].status \in KeyedStatus
             /\ hold'[h].idem = hold[h].idem
             /\ hold'[h].key = hold[h].key
  <2>1. CASE h \in H
    BY <2>1 DEF ConfirmReservations, KeyedStatus, TypeOK, HoldRecord
  <2>2. CASE h \notin H
    BY <1>1, <2>2 DEF ConfirmReservations
  <2> QED BY <2>1, <2>2
<1> QED BY <1>1, SameKeysKeepUnique

LEMMA ConsumeKeepsUnique ==
  ASSUME TypeOK, OneHoldPerRow, NEW h \in Hold, ConsumeReservation(h)
  PROVE  OneHoldPerRow'
<1>1. ASSUME NEW g \in Hold, hold'[g].status \in KeyedStatus
      PROVE  /\ hold[g].status \in KeyedStatus
             /\ hold'[g].idem = hold[g].idem
             /\ hold'[g].key = hold[g].key
  BY <1>1 DEF ConsumeReservation, KeyedStatus, TypeOK, HoldRecord
<1> QED BY <1>1, SameKeysKeepUnique

LEMMA ExpiryKeepsUnique ==
  ASSUME TypeOK, OneHoldPerRow, NEW h \in Hold, HoldExpires(h)
  PROVE  OneHoldPerRow'
<1>1. ASSUME NEW g \in Hold, hold'[g].status \in KeyedStatus
      PROVE  /\ hold[g].status \in KeyedStatus
             /\ hold'[g].idem = hold[g].idem
             /\ hold'[g].key = hold[g].key
  BY <1>1 DEF HoldExpires, TypeOK, HoldRecord
<1> QED BY <1>1, SameKeysKeepUnique

\* Two transactions that both found nothing to replay: the second to insert meets the index.
LEMMA InsertKeepsUnique ==
  ASSUME OneHoldPerRow, NEW c \in Caller, ReserveInsert(c)
  PROVE  OneHoldPerRow'
<1> DEFINE i == call[c].idem
           req == call[c].lines
<1>1. PICK rows \in [Asked(req) -> {h \in Hold : hold[h].status = "FREE"}] :
        /\ \A j, k \in Asked(req) : rows[j] = rows[k] => j = k
        /\ hold' = [h \in Hold |->
             IF \E k \in Asked(req) : rows[k] = h
             THEN LET k == CHOOSE k \in Asked(req) : rows[k] = h
                  IN [status |-> "ACTIVE", key |-> k, qty |-> req[k],
                      idem |-> i, expired |-> FALSE]
             ELSE hold[h]]
  BY DEF ReserveInsert
<1>2. \A k \in Asked(req) : ~ KeyTaken(i, k)
  BY DEF ReserveInsert, CanReserve
<1>3. ASSUME NEW k \in Asked(req)
      PROVE  hold'[rows[k]].idem = i /\ hold'[rows[k]].key = k
  <2> DEFINE r == [status |-> "ACTIVE", key |-> k, qty |-> req[k],
                   idem |-> i, expired |-> FALSE]
  <2>1. rows[k] \in Hold /\ (CHOOSE j \in Asked(req) : rows[j] = rows[k]) = k
    BY <1>1, <1>3
  <2>2. hold'[rows[k]] = r
    BY <1>1, <1>3, <2>1
  <2>3. r.idem = i /\ r.key = k
    OBVIOUS
  <2> HIDE DEF r
  <2> QED BY <2>2, <2>3
<1>4. ASSUME NEW h \in Hold, \A k \in Asked(req) : rows[k] # h
      PROVE  hold'[h] = hold[h]
  BY <1>1, <1>4
<1> DEFINE new == {h \in Hold : \E k \in Asked(req) : rows[k] = h}
<1>5. ASSUME NEW g \in Hold, NEW h \in Hold,
             hold'[g].status \in KeyedStatus, hold'[h].status \in KeyedStatus,
             hold'[g].idem = hold'[h].idem, hold'[g].key = hold'[h].key
      PROVE  g = h
  <2>1. CASE g \in new /\ h \in new
    BY <1>3, <1>5, <2>1
  <2>2. CASE g \in new /\ h \notin new
    <3>1. PICK k \in Asked(req) : rows[k] = g
      BY <2>2
    <3>2. hold'[h] = hold[h]
      BY <1>4, <2>2
    <3> QED BY <1>2, <1>3, <1>5, <3>1, <3>2 DEF KeyTaken
  <2>3. CASE g \notin new /\ h \in new
    <3>1. PICK k \in Asked(req) : rows[k] = h
      BY <2>3
    <3>2. hold'[g] = hold[g]
      BY <1>4, <2>3
    <3> QED BY <1>2, <1>3, <1>5, <3>1, <3>2 DEF KeyTaken
  <2>4. CASE g \notin new /\ h \notin new
    <3>1. hold'[g] = hold[g] /\ hold'[h] = hold[h]
      BY <1>4, <2>4
    <3> QED BY <1>5, <3>1 DEF OneHoldPerRow
  <2> QED BY <2>1, <2>2, <2>3, <2>4
<1> QED BY <1>5 DEF OneHoldPerRow

\* However many copies of a checkout reserve at once, a row of stock has one hold of its key.
THEOREM OneHoldOfAKey == Spec => []OneHoldPerRow
<1>1. Init => OneHoldPerRow
  BY DEF Init, OneHoldPerRow, FreeHold, KeyedStatus
<1>2. TypeOK /\ OneHoldPerRow /\ [Next]_vars => OneHoldPerRow'
  <2> SUFFICES ASSUME TypeOK, OneHoldPerRow, [Next]_vars PROVE OneHoldPerRow'
    OBVIOUS
  <2>1. CASE UNCHANGED hold
    BY <2>1 DEF OneHoldPerRow
  <2>2. CASE Checkout
    <3>1. CASE UNCHANGED hold
      BY <2>1, <3>1
    <3>2. CASE \E c \in Caller : ReserveInsert(c)
      BY <3>2, InsertKeepsUnique
    <3>3. CASE \E H \in SUBSET Hold :
                 ReleaseReservations(H, "RELEASED") \/ Sweep(H) \/ ConfirmReservations(H)
      BY <3>3, ReleaseKeepsUnique, ConfirmKeepsUnique DEF Sweep
    <3>4. CASE \E h \in Hold : ConsumeReservation(h) \/ HoldExpires(h)
      BY <3>4, ConsumeKeepsUnique, ExpiryKeepsUnique
    <3> QED BY <2>2, <3>1, <3>2, <3>3, <3>4 DEF Checkout, ReserveCheck, ReserveRefused
  <2>3. CASE Correction
    BY <2>1, <2>3 DEF Correction, RequestAdjustment, ReadAdjustment, RejectAdjustment,
                      ApproveAdjustment, ApprovalRefused, holdVars
  <2>4. CASE Movement
    BY <2>1, <2>4 DEF Movement, ReceiveStock, CreateTransfer, DispatchTransfer,
                      ReceiveTransfer, holdVars
  <2>5. CASE UNCHANGED vars
    BY <2>1, <2>5 DEF vars
  <2> QED BY <2>2, <2>3, <2>4, <2>5 DEF Next
<1> QED BY <1>1, <1>2, TypeCorrect, PTL DEF Spec

-----------------------------------------------------------------------------
(* What is on the way between two warehouses *)

LEMMA TransitUnitsFinite ==
  ASSUME NEW k
  PROVE  IsFiniteSet(TransitUnits(k)) /\ Cardinality(TransitUnits(k)) \in Nat
<1>1. IsFiniteSet(1..MaxQty)
  BY BoundAssumption, FS_Interval
<1>2. IsFiniteSet(Transfer \X (1..MaxQty))
  BY <1>1, FiniteAssumption, FS_Product
<1>3. TransitUnits(k) \in SUBSET (Transfer \X (1..MaxQty))
  BY DEF TransitUnits
<1>4. IsFiniteSet(TransitUnits(k))
  BY <1>2, <1>3, FS_Subset
<1> QED BY <1>4, FS_CardinalityType

\* A step that neither moves units in transit nor dispatches or receives anything.
LEMMA SameTransit ==
  ASSUME TransitMatchesTransfers,
         \A k \in Key : balance'[k]["in_transit"] = balance[k]["in_transit"],
         \A t \in Transfer :
           /\ transfer'[t].status = "IN_TRANSIT" <=> transfer[t].status = "IN_TRANSIT"
           /\ transfer[t].status = "IN_TRANSIT" => transfer'[t] = transfer[t]
  PROVE  TransitMatchesTransfers'
<1>1. ASSUME NEW k \in Key PROVE TransitUnits(k)' = TransitUnits(k)
  BY DEF TransitUnits
<1> QED BY <1>1 DEF TransitMatchesTransfers, TransitUnits

\* A movement of stock that is not a transfer's.
LEMMA MoveKeepsTransit ==
  ASSUME TypeOK, TransitMatchesTransfers, NEW d \in Deltas, Move(d, d), UNCHANGED transfer,
         \A k \in Key : d[k]["in_transit"] = 0
  PROVE  TransitMatchesTransfers'
<1>1. \A k \in Key, b \in Bucket : balance'[k][b] = balance[k][b] + d[k][b]
  BY MoveEffect DEF TypeOK, Deltas
<1>2. ASSUME NEW k \in Key
      PROVE  balance'[k]["in_transit"] = balance[k]["in_transit"]
  <2>1. balance[k]["in_transit"] \in Nat
    BY DEF TypeOK, Bucket
  <2> QED BY <1>1, <2>1 DEF Bucket
<1> QED BY <1>2, SameTransit

LEMMA CheckoutKeepsTransit ==
  ASSUME TypeOK, TransitMatchesTransfers, Checkout
  PROVE  TransitMatchesTransfers'
<1>1. CASE UNCHANGED <<balance, transfer>>
  BY <1>1, SameTransit
<1>2. ASSUME NEW c \in Caller, ReserveInsert(c)
      PROVE  TransitMatchesTransfers'
  <2> DEFINE req == call[c].lines
             d == [k \in Key |-> Reserving(req[k])]
  <2>1. req \in [Key -> 0..MaxQty]
    BY <1>2 DEF ReserveInsert, TypeOK, Lines
  <2>2. \A k \in Key : req[k] \in Int
    BY <2>1, BoundAssumption
  <2>3. d \in Deltas /\ \A k \in Key : d[k]["in_transit"] = 0
    BY <2>2, BucketDeltas DEF Deltas
  <2>4. Move(d, d) /\ UNCHANGED transfer
    BY <1>2 DEF ReserveInsert
  <2> HIDE DEF d
  <2> QED BY <2>3, <2>4, MoveKeepsTransit
<1>3. ASSUME NEW H \in SUBSET Hold, NEW reason, ReleaseReservations(H, reason)
      PROVE  TransitMatchesTransfers'
  <2> DEFINE d == [k \in Key |-> Releasing(Cardinality(Units(H, k)))]
  <2>1. d \in Deltas /\ \A k \in Key : d[k]["in_transit"] = 0
    BY UnitsFinite, BucketDeltas DEF Deltas
  <2>2. Move(d, d) /\ UNCHANGED transfer
    BY <1>3 DEF ReleaseReservations
  <2> HIDE DEF d
  <2> QED BY <2>1, <2>2, MoveKeepsTransit
<1>4. ASSUME NEW h \in Hold, ConsumeReservation(h)
      PROVE  TransitMatchesTransfers'
  <2> DEFINE d == [k \in Key |-> Selling(Cardinality(Units({h}, k)))]
  <2>1. \A k \in Key : Cardinality(Units({h}, k)) \in Int
    <3>1. {h} \in SUBSET Hold
      OBVIOUS
    <3> QED BY <3>1, UnitsFinite
  <2>2. d \in Deltas /\ \A k \in Key : d[k]["in_transit"] = 0
    BY <2>1, BucketDeltas DEF Deltas
  <2>3. Move(d, d) /\ UNCHANGED transfer
    BY <1>4 DEF ConsumeReservation
  <2> HIDE DEF d
  <2> QED BY <2>2, <2>3, MoveKeepsTransit
<1> QED BY <1>1, <1>2, <1>3, <1>4
           DEF Checkout, ReserveCheck, ReserveRefused, Sweep, ConfirmReservations, HoldExpires

LEMMA CorrectionKeepsTransit ==
  ASSUME TypeOK, TransitMatchesTransfers, Correction
  PROVE  TransitMatchesTransfers'
<1>1. CASE UNCHANGED <<balance, transfer>>
  BY <1>1, SameTransit
<1>2. ASSUME NEW p \in Staff, ApproveAdjustment(p)
      PROVE  TransitMatchesTransfers'
  <2>1. PICK d \in Deltas : Move(d, d) /\ \A k \in Key : d[k]["in_transit"] = 0
    BY <1>2, ApprovalMoves
  <2>2. UNCHANGED transfer
    BY <1>2 DEF ApproveAdjustment
  <2> QED BY <2>1, <2>2, MoveKeepsTransit
<1> QED BY <1>1, <1>2
           DEF Correction, RequestAdjustment, ReadAdjustment, RejectAdjustment, ApprovalRefused

LEMMA ReceiptKeepsTransit ==
  ASSUME TypeOK, TransitMatchesTransfers, NEW k \in Key, NEW n \in 1..MaxQty, ReceiveStock(k, n)
  PROVE  TransitMatchesTransfers'
<1> DEFINE d == OnRow(k, Receiving(n))
<1>1. n \in Int
  BY BoundAssumption
<1>2. /\ Receiving(n) \in [Bucket -> Int]
      /\ Receiving(n)["in_transit"] = 0
      /\ "in_transit" \in Bucket
  BY <1>1, BucketDeltas DEF Bucket
<1>3. d \in Deltas /\ \A x \in Key : d[x]["in_transit"] = 0
  BY <1>2, OnRowType, OnRowZero
<1>4. Move(d, d) /\ UNCHANGED transfer
  BY DEF ReceiveStock
<1> HIDE DEF d
<1> QED BY <1>3, <1>4, MoveKeepsTransit

\* The units a transfer has on the way from row k, when it is dispatched.
Parcel(t, k) == IF k[2] = transfer[t].source THEN {t} \X (1..transfer[t].requested[k[1]]) ELSE {}

LEMMA ParcelSize ==
  ASSUME TypeOK, NEW t \in Transfer, NEW k \in Key
  PROVE  /\ IsFiniteSet(Parcel(t, k))
         /\ Cardinality(Parcel(t, k))
              = IF k[2] = transfer[t].source THEN transfer[t].requested[k[1]] ELSE 0
<1>1. transfer[t].requested[k[1]] \in Nat
  BY BoundAssumption DEF TypeOK, TransferRecord, Key
<1>2. CASE k[2] = transfer[t].source
  BY <1>1, <1>2, CardinalityOfLine DEF Parcel
<1>3. CASE k[2] # transfer[t].source
  BY <1>3, FS_EmptySet DEF Parcel
<1> QED BY <1>2, <1>3

\* What else is on the way does not depend on the transfer t.
LEMMA OthersOnTheWay ==
  ASSUME TypeOK, NEW t \in Transfer, NEW k \in Key, NEW status,
         transfer' = [transfer EXCEPT ![t].status = status]
  PROVE  /\ TransitUnits(k)' \ Parcel(t, k) = TransitUnits(k) \ Parcel(t, k)
         /\ TransitUnits(k) \cap Parcel(t, k)
              = IF transfer[t].status = "IN_TRANSIT" THEN Parcel(t, k) ELSE {}
         /\ TransitUnits(k)' \cap Parcel(t, k)
              = IF status = "IN_TRANSIT" THEN Parcel(t, k) ELSE {}
<1>1. /\ transfer[t].requested[k[1]] \in 0..MaxQty
      /\ 1..transfer[t].requested[k[1]] \subseteq 1..MaxQty
  BY BoundAssumption DEF TypeOK, TransferRecord, Key
<1>2. /\ \A x \in Transfer \ {t} : transfer'[x] = transfer[x]
      /\ transfer'[t].status = status
      /\ transfer'[t].source = transfer[t].source
      /\ transfer'[t].requested = transfer[t].requested
  BY DEF TypeOK, TransferRecord
<1>3. \A u \in Transfer \X (1..MaxQty) :
        u \in Parcel(t, k) <=> /\ u[1] = t
                               /\ transfer[t].source = k[2]
                               /\ u[2] <= transfer[t].requested[k[1]]
  BY <1>1, BoundAssumption DEF Parcel
<1>4. Parcel(t, k) \subseteq Transfer \X (1..MaxQty)
  BY <1>1 DEF Parcel
<1>5. \A u \in Transfer \X (1..MaxQty) :
        /\ u[1] # t => (u \in TransitUnits(k)' <=> u \in TransitUnits(k))
        /\ u[1] = t => /\ u \in TransitUnits(k) <=> transfer[t].status = "IN_TRANSIT" /\ u \in Parcel(t, k)
                       /\ u \in TransitUnits(k)' <=> status = "IN_TRANSIT" /\ u \in Parcel(t, k)
  BY <1>2, <1>3 DEF TransitUnits
<1>6. /\ TransitUnits(k) \subseteq Transfer \X (1..MaxQty)
      /\ TransitUnits(k)' \subseteq Transfer \X (1..MaxQty)
  BY DEF TransitUnits
<1>7. \A u \in Parcel(t, k) : u[1] = t
  BY DEF Parcel
<1> HIDE DEF Parcel
<1>8. ASSUME NEW u
      PROVE  u \in TransitUnits(k)' \ Parcel(t, k) <=> u \in TransitUnits(k) \ Parcel(t, k)
  <2>1. CASE u \in Transfer \X (1..MaxQty) /\ u[1] = t
    BY <1>5, <2>1
  <2>2. CASE u \in Transfer \X (1..MaxQty) /\ u[1] # t
    BY <1>5, <2>2
  <2> QED BY <1>6, <2>1, <2>2
<1>9. TransitUnits(k)' \ Parcel(t, k) = TransitUnits(k) \ Parcel(t, k)
  BY <1>8
<1>10. TransitUnits(k) \cap Parcel(t, k)
         = IF transfer[t].status = "IN_TRANSIT" THEN Parcel(t, k) ELSE {}
  BY <1>4, <1>5, <1>7
<1>11. TransitUnits(k)' \cap Parcel(t, k) = IF status = "IN_TRANSIT" THEN Parcel(t, k) ELSE {}
  BY <1>4, <1>5, <1>7
<1> QED BY <1>9, <1>10, <1>11

LEMMA DispatchKeepsTransit ==
  ASSUME TypeOK, TransitMatchesTransfers, NEW t \in Transfer, DispatchTransfer(t)
  PROVE  TransitMatchesTransfers'
<1> DEFINE d == ItemRows(t, transfer[t].source, Dispatching)
<1>1. /\ d \in Deltas
      /\ \A k \in Key : d[k]["in_transit"]
           = IF k[2] = transfer[t].source THEN transfer[t].requested[k[1]] ELSE 0
  BY ItemRowsDispatch
<1>2. Move(d, d)
  BY DEF DispatchTransfer
<1> HIDE DEF d
<1>3. \A k \in Key, b \in Bucket : balance'[k][b] = balance[k][b] + d[k][b]
  BY <1>1, <1>2, MoveEffect DEF TypeOK, Deltas
<1>4. ASSUME NEW k \in Key
      PROVE  balance'[k]["in_transit"] = Cardinality(TransitUnits(k)')
  <2>1. /\ TransitUnits(k)' = TransitUnits(k) \cup Parcel(t, k)
        /\ TransitUnits(k) \cap Parcel(t, k) = {}
    <3>1. /\ transfer' = [transfer EXCEPT ![t].status = "IN_TRANSIT"]
          /\ transfer[t].status # "IN_TRANSIT"
      BY DEF DispatchTransfer
    <3>2. /\ TransitUnits(k)' \ Parcel(t, k) = TransitUnits(k) \ Parcel(t, k)
          /\ TransitUnits(k) \cap Parcel(t, k) = {}
          /\ TransitUnits(k)' \cap Parcel(t, k) = Parcel(t, k)
      BY <3>1, OthersOnTheWay
    <3> QED BY <3>2
  <2>2. Cardinality(TransitUnits(k) \cup Parcel(t, k))
          = Cardinality(TransitUnits(k)) + Cardinality(Parcel(t, k)) - Cardinality({})
    BY <2>1, TransitUnitsFinite, ParcelSize, FS_Union
  <2>3. balance[k]["in_transit"] = Cardinality(TransitUnits(k))
    BY DEF TransitMatchesTransfers, TransitUnits
  <2>4. balance'[k]["in_transit"] = balance[k]["in_transit"] + d[k]["in_transit"]
    BY <1>3 DEF Bucket
  <2>5. d[k]["in_transit"] = Cardinality(Parcel(t, k)) /\ d[k]["in_transit"] \in Int
    BY <1>1, ParcelSize DEF Deltas, Bucket
  <2>6. Cardinality(TransitUnits(k)) \in Nat /\ Cardinality({}) = 0
    BY TransitUnitsFinite, FS_EmptySet
  <2> QED BY <2>1, <2>2, <2>3, <2>4, <2>5, <2>6
<1> QED BY <1>4 DEF TransitMatchesTransfers, TransitUnits

LEMMA ArrivalKeepsTransit ==
  ASSUME TypeOK, TransitMatchesTransfers, NEW t \in Transfer, ReceiveTransfer(t)
  PROVE  TransitMatchesTransfers'
<1> DEFINE d == Shift(ItemRows(t, transfer[t].source, Arriving),
                      ItemRows(t, transfer[t].target, Receiving))
<1>1. /\ d \in Deltas
      /\ \A k \in Key : d[k]["in_transit"]
           = IF k[2] = transfer[t].source THEN - transfer[t].requested[k[1]] ELSE 0
  BY ItemRowsArrive
<1>2. Move(d, d)
  BY DEF ReceiveTransfer
<1> HIDE DEF d
<1>3. \A k \in Key, b \in Bucket : balance'[k][b] = balance[k][b] + d[k][b]
  BY <1>1, <1>2, MoveEffect DEF TypeOK, Deltas
<1>4. ASSUME NEW k \in Key
      PROVE  balance'[k]["in_transit"] = Cardinality(TransitUnits(k)')
  <2>1. /\ TransitUnits(k)' = TransitUnits(k) \ Parcel(t, k)
        /\ TransitUnits(k) \cap Parcel(t, k) = Parcel(t, k)
    <3>1. transfer' = [transfer EXCEPT ![t].status = "RECEIVED"] /\ transfer[t].status = "IN_TRANSIT"
      BY DEF ReceiveTransfer
    <3>2. PICK status : status = "RECEIVED"
      OBVIOUS
    <3>3. transfer' = [transfer EXCEPT ![t].status = status] /\ status # "IN_TRANSIT"
      BY <3>1, <3>2
    <3>4. /\ TransitUnits(k)' \ Parcel(t, k) = TransitUnits(k) \ Parcel(t, k)
          /\ TransitUnits(k) \cap Parcel(t, k) = Parcel(t, k)
          /\ TransitUnits(k)' \cap Parcel(t, k) = {}
      BY <3>1, <3>3, OthersOnTheWay
    <3> QED BY <3>4
  <2>2. Cardinality(TransitUnits(k) \ Parcel(t, k))
          = Cardinality(TransitUnits(k)) - Cardinality(Parcel(t, k))
    BY <2>1, TransitUnitsFinite, FS_Difference
  <2>3. balance[k]["in_transit"] = Cardinality(TransitUnits(k))
    BY DEF TransitMatchesTransfers, TransitUnits
  <2>4. balance'[k]["in_transit"] = balance[k]["in_transit"] + d[k]["in_transit"]
    BY <1>3 DEF Bucket
  <2>5. transfer[t].requested[k[1]] \in Nat
    BY BoundAssumption DEF TypeOK, TransferRecord, Key
  <2>6. d[k]["in_transit"] = - Cardinality(Parcel(t, k)) /\ Cardinality(Parcel(t, k)) \in Nat
    BY <1>1, <2>5, ParcelSize
  <2>7. Cardinality(TransitUnits(k)) \in Nat
    BY TransitUnitsFinite
  <2> QED BY <2>1, <2>2, <2>3, <2>4, <2>6, <2>7
<1> QED BY <1>4 DEF TransitMatchesTransfers, TransitUnits

\* Whatever runs, a row has as many units in transit as its dispatched transfers are to deliver.
THEOREM TransitIsOnTheWay == Spec => []TransitMatchesTransfers
<1>1. Init => TransitMatchesTransfers
  <2> SUFFICES ASSUME Init, NEW k \in Key
               PROVE  balance[k]["in_transit"] = Cardinality(TransitUnits(k))
    BY DEF TransitMatchesTransfers, TransitUnits
  <2>1. TransitUnits(k) = {}
    BY DEF Init, TransitUnits, FreeTransfer
  <2>2. balance[k]["in_transit"] = 0
    BY DEF Init, Zero, Bucket
  <2> QED BY <2>1, <2>2, FS_EmptySet
<1>2. TypeOK /\ TransitMatchesTransfers /\ [Next]_vars => TransitMatchesTransfers'
  <2> SUFFICES ASSUME TypeOK, TransitMatchesTransfers, [Next]_vars
               PROVE  TransitMatchesTransfers'
    OBVIOUS
  <2>1. CASE Movement
    <3>1. ASSUME NEW t \in Transfer, NEW v \in Warehouse, NEW w \in Warehouse,
                 NEW req \in [Sku -> 0..MaxQty], CreateTransfer(t, v, w, req)
          PROVE  TransitMatchesTransfers'
      BY <3>1, SameTransit DEF CreateTransfer, TypeOK
    <3> QED BY <2>1, <3>1, ReceiptKeepsTransit, DispatchKeepsTransit, ArrivalKeepsTransit
               DEF Movement
  <2>2. CASE UNCHANGED vars
    BY <2>2, SameTransit DEF vars
  <2> QED BY <2>1, <2>2, CheckoutKeepsTransit, CorrectionKeepsTransit DEF Next
<1> QED BY <1>1, <1>2, TypeCorrect, PTL DEF Spec
-----------------------------------------------------------------------------
(* The promise is kept: each step is one of StockPromise or changes nothing of it *)

Owned == [k \in Key |-> balance[k]["available"] + balance[k]["reserved"]]
Promised == [h \in Hold |-> PromiseOf(h)]

\* What becomes of a hold is what becomes of its promise.
LEMMA PromiseForm ==
  ASSUME NEW h \in Hold, hold[h].status \in HoldStatus
  PROVE  /\ PromiseOf(h) = [status |-> PromiseOf(h).status, row |-> hold[h].key, qty |-> hold[h].qty]
         /\ hold[h].status = "FREE" => PromiseOf(h).status = "none"
         /\ hold[h].status \in LiveStatus <=> PromiseOf(h).status = "open"
         /\ hold[h].status = "CONSUMED" => PromiseOf(h).status = "kept"
         /\ hold[h].status \in {"RELEASED", "EXPIRED"} => PromiseOf(h).status = "withdrawn"
BY DEF PromiseOf, HoldStatus, LiveStatus

LEMMA SameCardinality == \A S : Promises!Cardinality(S) = Cardinality(S)
BY Zenon DEF Promises!Cardinality, Cardinality

\* The open promises of a row are the units its live holds keep.
LEMMA OpenIsLive == TypeOK => \A k \in Key : Promises!OpenUnits(k) = Units(LiveHolds, k)
<1> SUFFICES ASSUME TypeOK, NEW k \in Key
             PROVE  Promises!OpenUnits(k) = Units(LiveHolds, k)
  OBVIOUS
<1>1. ASSUME NEW h \in Hold
      PROVE  /\ PromiseOf(h).status = "open" <=> h \in LiveHolds
             /\ PromiseOf(h).row = hold[h].key
             /\ PromiseOf(h).qty = hold[h].qty
  <2>1. hold[h].status \in HoldStatus
    BY DEF TypeOK, HoldRecord
  <2>2. PromiseOf(h).row = hold[h].key /\ PromiseOf(h).qty = hold[h].qty
    BY DEF PromiseOf
  <2> QED BY <2>1, <2>2, PromiseForm DEF LiveHolds, Live
<1>2. ASSUME NEW u \in Hold \X (1..MaxQty)
      PROVE  u \in Promises!OpenUnits(k) <=> u \in Units(LiveHolds, k)
  BY <1>1 DEF Promises!OpenUnits, Units
<1>3. /\ Promises!OpenUnits(k) \subseteq Hold \X (1..MaxQty)
      /\ Units(LiveHolds, k) \subseteq Hold \X (1..MaxQty)
  BY DEF Promises!OpenUnits, Units, LiveHolds
<1> QED BY <1>2, <1>3

Covered == Owned \in [Key -> Nat] /\ Promises!NeverOversold

\* What is promised is reserved, so no row is oversold.
LEMMA NotOversold == Bookkeeping => Covered
<1> SUFFICES ASSUME Bookkeeping PROVE Covered
  OBVIOUS
<1>1. ASSUME NEW k \in Key
      PROVE  /\ Owned[k] \in Nat
             /\ Cardinality(Promises!OpenUnits(k)) <= Owned[k]
  <2>1. balance[k]["available"] \in Nat /\ balance[k]["reserved"] \in Nat
    BY DEF Bookkeeping, TypeOK, Bucket
  <2>2. Cardinality(Promises!OpenUnits(k)) = balance[k]["reserved"]
    BY OpenIsLive DEF Bookkeeping, ReservedMatchesHolds, LiveHolds
  <2> QED BY <2>1, <2>2 DEF Owned
<1>2. Owned \in [Key -> Nat]
  BY <1>1 DEF Owned
<1>3. Promises!NeverOversold
  BY <1>1, SameCardinality DEF Owned, Promises!NeverOversold
<1> QED BY <1>2, <1>3 DEF Covered

\* What a movement takes from available and gives to reserved, or back, leaves what a row owns.
LEMMA SumUnmoved ==
  ASSUME Bookkeeping, NEW d \in Deltas, Move(d, d),
         \A k \in Key : d[k]["available"] + d[k]["reserved"] = 0
  PROVE  UNCHANGED Owned
<1>1. \A k \in Key, b \in Bucket : balance'[k][b] = balance[k][b] + d[k][b]
  BY MoveEffect DEF Bookkeeping, TypeOK, Deltas
<1>2. ASSUME NEW k \in Key
      PROVE  balance'[k]["available"] + balance'[k]["reserved"]
               = balance[k]["available"] + balance[k]["reserved"]
  <2>1. /\ balance[k]["available"] \in Int /\ balance[k]["reserved"] \in Int
        /\ d[k]["available"] \in Int /\ d[k]["reserved"] \in Int
    BY DEF Bookkeeping, TypeOK, Bucket, Deltas
  <2>2. /\ balance'[k]["available"] = balance[k]["available"] + d[k]["available"]
        /\ balance'[k]["reserved"] = balance[k]["reserved"] + d[k]["reserved"]
    BY <1>1 DEF Bucket
  <2> QED BY <2>1, <2>2
<1> QED BY <1>2 DEF Owned

\* A step that leaves the holds alone restocks, if it does anything.
LEMMA RestockStep ==
  ASSUME Bookkeeping, Bookkeeping', UNCHANGED hold
  PROVE  Promises!Next
<1>1. UNCHANGED Promised
  BY DEF Promised, PromiseOf
<1>2. Covered'
  BY NotOversold, PTL
<1>3. Promises!Restock
  BY <1>1, <1>2 DEF Promises!Restock, Covered, Owned, Promised
<1> QED BY <1>3 DEF Promises!Next

\* A step that changes neither what a hold is for nor whether it is live does nothing.
LEMMA StutterStep ==
  ASSUME TypeOK, UNCHANGED balance,
         \A h \in Hold : /\ hold'[h].key = hold[h].key
                         /\ hold'[h].qty = hold[h].qty
                         /\ \/ hold'[h].status = hold[h].status
                            \/ hold[h].status \in LiveStatus /\ hold'[h].status \in LiveStatus
  PROVE  UNCHANGED <<Owned, Promised>>
<1>1. UNCHANGED Owned
  BY DEF Owned
<1>2. ASSUME NEW h \in Hold PROVE PromiseOf(h)' = PromiseOf(h)
  <2>1. CASE hold'[h].status = hold[h].status
    BY <2>1 DEF PromiseOf
  <2>2. CASE hold[h].status \in LiveStatus /\ hold'[h].status \in LiveStatus
    BY <2>2 DEF PromiseOf, LiveStatus
  <2> QED BY <2>1, <2>2
<1>3. UNCHANGED Promised
  BY <1>2 DEF Promised
<1> QED BY <1>1, <1>3

\* Released holds are promises withdrawn: what they had reserved is available again.
LEMMA ReleaseWithdraws ==
  ASSUME Bookkeeping, NEW H \in SUBSET Hold, NEW reason, ReleaseReservations(H, reason)
  PROVE  Promises!Next
<1> DEFINE d == [k \in Key |-> Releasing(Cardinality(Units(H, k)))]
<1>1. ASSUME NEW k \in Key
      PROVE  d[k]["available"] + d[k]["reserved"] = 0 /\ d[k] \in [Bucket -> Int]
  <2>1. Cardinality(Units(H, k)) \in Int
    BY UnitsFinite
  <2> QED BY <2>1, BucketDeltas DEF Releasing, Zero, Bucket
<1>2. d \in Deltas
  BY <1>1 DEF Deltas
<1>3. Move(d, d)
  BY DEF ReleaseReservations
<1> HIDE DEF d
<1>4. UNCHANGED Owned
  BY <1>1, <1>2, <1>3, SumUnmoved
<1>5. ASSUME NEW h \in Hold
      PROVE  /\ h \in H => /\ PromiseOf(h).status = "open"
                           /\ PromiseOf(h)' = [PromiseOf(h) EXCEPT !.status = "withdrawn"]
             /\ h \notin H => PromiseOf(h)' = PromiseOf(h)
  <2>1. CASE h \in H
    <3>1. /\ hold[h].status \in LiveStatus
          /\ hold'[h].key = hold[h].key
          /\ hold'[h].qty = hold[h].qty
          /\ hold'[h].status \in {"RELEASED", "EXPIRED"}
      BY <2>1 DEF ReleaseReservations, Live, Bookkeeping, TypeOK, HoldRecord
    <3> QED BY <2>1, <3>1 DEF PromiseOf, LiveStatus
  <2>2. CASE h \notin H
    BY <2>2 DEF ReleaseReservations, PromiseOf
  <2> QED BY <2>1, <2>2
<1>6. Promises!Withdraw(H)
  BY <1>4, <1>5 DEF Promises!Withdraw, Owned, Promised, ReleaseReservations
<1> QED BY <1>6 DEF Promises!Next

\* A hold that is sold is a promise kept: its units leave the row.
LEMMA ConsumeKeeps ==
  ASSUME Bookkeeping, NEW h \in Hold, ConsumeReservation(h)
  PROVE  Promises!Next
<1> DEFINE d == [k \in Key |-> Selling(Cardinality(Units({h}, k)))]
<1>1. /\ hold[h] \in HoldRecord
      /\ hold[h].status = "CONFIRMED"
      /\ hold[h].key \in Key
      /\ hold' = [hold EXCEPT ![h].status = "CONSUMED"]
  BY DEF ConsumeReservation, Bookkeeping, TypeOK
<1>2. hold[h].qty \in Nat /\ hold[h].qty <= MaxQty
  BY <1>1, BoundAssumption DEF HoldRecord
<1>3. ASSUME NEW k \in Key
      PROVE  Cardinality(Units({h}, k)) = IF k = hold[h].key THEN hold[h].qty ELSE 0
  <2>1. CASE k = hold[h].key
    <3>1. Units({h}, k) = {h} \X (1..hold[h].qty)
      BY <1>2, <2>1, BoundAssumption DEF Units
    <3> QED BY <1>2, <2>1, <3>1, CardinalityOfLine
  <2>2. CASE k # hold[h].key
    <3>1. Units({h}, k) = {}
      BY <2>2 DEF Units
    <3> QED BY <2>2, <3>1, FS_EmptySet
  <2> QED BY <2>1, <2>2
<1>4. ASSUME NEW k \in Key
      PROVE  /\ d[k] \in [Bucket -> Int]
             /\ d[k]["available"] = 0
             /\ d[k]["reserved"] = IF k = hold[h].key THEN - hold[h].qty ELSE 0
  <2> DEFINE n == Cardinality(Units({h}, k))
  <2>1. n \in Int /\ d[k] = Selling(n)
    BY <1>2, <1>3
  <2>2. n = IF k = hold[h].key THEN hold[h].qty ELSE 0
    BY <1>3
  <2> HIDE DEF n, d
  <2>3. d[k] \in [Bucket -> Int] /\ d[k]["reserved"] = -n
    BY <2>1, BucketDeltas
  <2>4. d[k]["available"] = 0
    BY <2>1 DEF Selling, Zero, Bucket
  <2> QED BY <1>2, <2>2, <2>3, <2>4
<1>5. d \in Deltas
  BY <1>4 DEF Deltas
<1>6. Move(d, d)
  BY DEF ConsumeReservation
<1> HIDE DEF d
<1>7. \A k \in Key, b \in Bucket : balance'[k][b] = balance[k][b] + d[k][b]
  BY <1>5, <1>6, MoveEffect DEF Bookkeeping, TypeOK, Deltas
<1>8. \A k \in Key : balance[k]["available"] \in Int /\ balance[k]["reserved"] \in Int
  BY DEF Bookkeeping, TypeOK, Bucket
<1>9. ASSUME NEW k \in Key
      PROVE  Owned'[k] = IF k = hold[h].key THEN Owned[k] - hold[h].qty ELSE Owned[k]
  BY <1>2, <1>4, <1>7, <1>8 DEF Owned, Bucket
<1>10. PromiseOf(h) = [status |-> "open", row |-> hold[h].key, qty |-> hold[h].qty]
  BY <1>1 DEF PromiseOf, LiveStatus
<1>11. Owned' = [Owned EXCEPT ![PromiseOf(h).row] = @ - PromiseOf(h).qty]
  BY <1>1, <1>9, <1>10 DEF Owned
<1>12. PromiseOf(h)' = [PromiseOf(h) EXCEPT !.status = "kept"]
  <2>1. /\ hold'[h].status = "CONSUMED"
        /\ hold'[h].key = hold[h].key
        /\ hold'[h].qty = hold[h].qty
    BY <1>1 DEF Bookkeeping, TypeOK, HoldRecord
  <2> QED BY <1>10, <2>1 DEF PromiseOf, LiveStatus
<1>13. \A g \in Hold \ {h} : PromiseOf(g)' = PromiseOf(g)
  BY <1>1 DEF PromiseOf, Bookkeeping, TypeOK
<1>14. Promised' = [Promised EXCEPT ![h].status = "kept"]
  BY <1>12, <1>13 DEF Promised
<1>15. Promised[h] = PromiseOf(h)
  BY DEF Promised
<1>16. Promises!Keep(h)
  <2>1. Promised[h].status = "open"
    BY <1>10, <1>15
  <2>2. Owned' = [Owned EXCEPT ![Promised[h].row] = @ - Promised[h].qty]
    BY <1>11, <1>15
  <2> QED BY <1>14, <2>1, <2>2, Zenon DEF Promises!Keep, Owned, Promised
<1> QED BY <1>16 DEF Promises!Next

\* A checkout's holds are promises given, all of its lines at once.
LEMMA InsertGives ==
  ASSUME Bookkeeping, Bookkeeping', NEW c \in Caller, ReserveInsert(c)
  PROVE  Promises!Next
<1> DEFINE req == call[c].lines
           d == [k \in Key |-> Reserving(req[k])]
<1>1. req \in [Key -> 0..MaxQty]
  BY DEF ReserveInsert, Bookkeeping, TypeOK, Lines
<1>2. PICK rows \in [Asked(req) -> {h \in Hold : hold[h].status = "FREE"}] :
        /\ \A j, k \in Asked(req) : rows[j] = rows[k] => j = k
        /\ hold' = [h \in Hold |->
             IF \E k \in Asked(req) : rows[k] = h
             THEN LET k == CHOOSE k \in Asked(req) : rows[k] = h
                  IN [status |-> "ACTIVE", key |-> k, qty |-> req[k],
                      idem |-> call[c].idem, expired |-> FALSE]
             ELSE hold[h]]
  BY DEF ReserveInsert
<1>3. Move(d, d)
  BY DEF ReserveInsert
<1> DEFINE P == {rows[k] : k \in Asked(req)}
           row == [h \in P |-> hold'[h].key]
           qty == [h \in P |-> hold'[h].qty]
<1>4. ASSUME NEW h \in P
      PROVE  /\ h \in Hold
             /\ hold[h].status = "FREE"
             /\ hold'[h].status = "ACTIVE"
             /\ hold'[h].key \in Key
             /\ hold'[h].qty \in 1..MaxQty
  <2>1. PICK k \in Asked(req) : rows[k] = h
    OBVIOUS
  <2>2. h \in Hold /\ hold[h].status = "FREE"
    BY <1>2, <2>1
  <2>3. (CHOOSE j \in Asked(req) : rows[j] = h) = k
    BY <1>2, <2>1
  <2>4. hold'[h] = [status |-> "ACTIVE", key |-> k, qty |-> req[k],
                    idem |-> call[c].idem, expired |-> FALSE]
    BY <1>2, <2>1, <2>2, <2>3
  <2>5. k \in Key /\ req[k] \in 1..MaxQty
    BY <1>1, <2>1, BoundAssumption DEF Asked
  <2> HIDE DEF req
  <2> QED BY <2>2, <2>4, <2>5
<1>5. ASSUME NEW h \in Hold, h \notin P
      PROVE  hold'[h] = hold[h]
  BY <1>2, <1>5
<1>6. UNCHANGED Owned
  <2>1. ASSUME NEW k \in Key
        PROVE  d[k] \in [Bucket -> Int] /\ d[k]["available"] + d[k]["reserved"] = 0
    <3>1. req[k] \in Int
      BY <1>1, BoundAssumption
    <3> QED BY <3>1, BucketDeltas DEF Reserving, Zero, Bucket
  <2>2. d \in Deltas
    BY <2>1 DEF Deltas
  <2> HIDE DEF d
  <2> QED BY <1>3, <2>1, <2>2, SumUnmoved
<1> HIDE DEF P
<1>7. P \in SUBSET Hold /\ row \in [P -> Key] /\ qty \in [P -> 1..MaxQty]
  BY <1>4
<1>8. \A h \in P : PromiseOf(h).status = "none"
  BY <1>4, PromiseForm DEF HoldStatus
<1>9. ASSUME NEW h \in Hold
      PROVE  PromiseOf(h)' = IF h \in P THEN [status |-> "open", row |-> row[h], qty |-> qty[h]]
                                        ELSE PromiseOf(h)
  <2>1. CASE h \in P
    BY <1>4, <2>1 DEF PromiseOf, LiveStatus
  <2>2. CASE h \notin P
    BY <1>5, <2>2 DEF PromiseOf
  <2> QED BY <2>1, <2>2
<1> HIDE DEF row, qty
<1>10. CASE P = {}
  <2>1. UNCHANGED hold
    <3>1. \A h \in Hold : hold'[h] = hold[h]
      BY <1>5, <1>10
    <3>2. hold = [h \in Hold |-> hold[h]]
      BY DEF Bookkeeping, TypeOK
    <3>3. hold' = [h \in Hold |-> hold'[h]]
      BY DEF Bookkeeping, TypeOK
    <3> QED BY <3>1, <3>2, <3>3
  <2> QED BY <2>1, RestockStep
<1>11. CASE P # {}
  <2>1. Covered'
    BY NotOversold, PTL
  <2>2. Promises!Give(P, row, qty)
    BY <1>6, <1>7, <1>8, <1>9, <1>11, <2>1 DEF Promises!Give, Covered, Owned
  <2> QED BY <1>7, <2>2 DEF Promises!Next
<1> QED BY <1>10, <1>11

\* Every step of the engine is a step of the promise or changes nothing of it.
LEMMA PromiseStep ==
  ASSUME Bookkeeping, Bookkeeping', [Next]_vars
  PROVE  Promises!Next \/ UNCHANGED <<Owned, Promised>>
<1>1. CASE UNCHANGED hold
  BY <1>1, RestockStep
<1>2. ASSUME NEW H \in SUBSET Hold, ConfirmReservations(H)
      PROVE  UNCHANGED <<Owned, Promised>>
  <2>1. ASSUME NEW h \in Hold
        PROVE  /\ hold'[h].key = hold[h].key
               /\ hold'[h].qty = hold[h].qty
               /\ \/ hold'[h].status = hold[h].status
                  \/ hold[h].status \in LiveStatus /\ hold'[h].status \in LiveStatus
    BY <1>2 DEF ConfirmReservations, Bookkeeping, TypeOK, HoldRecord, LiveStatus
  <2> QED BY <1>2, <2>1, StutterStep DEF ConfirmReservations, Bookkeeping
<1>3. ASSUME NEW h \in Hold, HoldExpires(h)
      PROVE  UNCHANGED <<Owned, Promised>>
  <2>1. \A g \in Hold : /\ hold'[g].key = hold[g].key
                        /\ hold'[g].qty = hold[g].qty
                        /\ hold'[g].status = hold[g].status
    BY <1>3 DEF HoldExpires, Bookkeeping, TypeOK, HoldRecord
  <2> QED BY <1>3, <2>1, StutterStep DEF HoldExpires, Bookkeeping
<1>4. CASE Checkout
  <2>1. ASSUME NEW c \in Caller, NEW i \in IdemKey, NEW req \in Lines, ReserveCheck(c, i, req)
        PROVE  UNCHANGED hold
    BY <2>1 DEF ReserveCheck
  <2>2. ASSUME NEW c \in Caller, ReserveRefused(c) PROVE UNCHANGED hold
    BY <2>2 DEF ReserveRefused
  <2> QED BY <1>1, <1>2, <1>3, <1>4, <2>1, <2>2, InsertGives, ReleaseWithdraws, ConsumeKeeps
             DEF Checkout, Sweep
<1>5. CASE Correction \/ Movement
  <2>1. UNCHANGED hold
    BY <1>5 DEF Correction, Movement, RequestAdjustment, ReadAdjustment, RejectAdjustment,
       ApproveAdjustment, ApprovalRefused, ReceiveStock, CreateTransfer, DispatchTransfer,
       ReceiveTransfer, holdVars
  <2> QED BY <1>1, <2>1
<1>6. CASE UNCHANGED vars
  BY <1>1, <1>6 DEF vars
<1> QED BY <1>4, <1>5, <1>6 DEF Next

\* The stock engine keeps its promise, whoever calls it and in whatever order.
THEOREM StockIsPromised == Spec => ImplementsPromises
<1>1. Init => Promises!Init
  <2> SUFFICES ASSUME Init PROVE Promises!Init
    OBVIOUS
  <2>1. Owned \in [Key -> Nat]
    BY InitKeepsBooks, NotOversold DEF Covered
  <2>2. \A h \in Hold : PromiseOf(h) = [status |-> "none", row |-> None, qty |-> 0]
    <3>1. ASSUME NEW h \in Hold
          PROVE  hold[h].status = "FREE" /\ hold[h].key = None /\ hold[h].qty = 0
      BY DEF Init, FreeHold
    <3>2. ASSUME NEW h \in Hold
          PROVE  PromiseOf(h) = [status |-> PromiseOf(h).status, row |-> hold[h].key,
                                 qty |-> hold[h].qty]
                 /\ PromiseOf(h).status = "none"
      BY <3>1, PromiseForm DEF HoldStatus
    <3> QED BY <3>1, <3>2
  <2> QED BY <2>1, <2>2 DEF Promises!Init, Promises!NoPromise, Owned
<1>2. Bookkeeping /\ Bookkeeping' /\ [Next]_vars => [Promises!Next]_(Promises!vars)
  BY PromiseStep DEF Promises!vars, Owned, Promised
<1>3. Init => Bookkeeping
  BY InitKeepsBooks
<1>4. Bookkeeping /\ [Next]_vars => Bookkeeping'
  BY NextKeepsBooks
<1> QED BY <1>1, <1>2, <1>3, <1>4, PTL DEF Spec, ImplementsPromises, Promises!Spec
=============================================================================
