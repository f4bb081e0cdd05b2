------------------- MODULE IdempotencyAndStorefront_proofs --------------------
(***************************************************************************)
(* Idempotency keeps the promise of OneShot for any number of callers,     *)
(* keys, sessions, failures and pruned keys.  The argument: whoever is     *)
(* past the select works on a row of its own body (Owns), and what it      *)
(* brings back from the handler is the one order of its session            *)
(* (GotIsPlaced), so it does not matter which of several copies writes the *)
(* row last.                                                               *)
(*                                                                         *)
(* Storefront, its listings and its cart, for any number of sellers, staff *)
(* and requests: what is quoted is on sale, and an item is gone only when  *)
(* it was removed or ordered.  A quoted item was on sale at the step that  *)
(* quoted it; what a request relies on while no other overlaps it          *)
(* (Standing) is what it has read, so nothing it takes away is lost.       *)
(***************************************************************************)
EXTENDS Idempotency, Storefront, TLAPS

Owns ==
  \A c \in Caller : at[c] \in {"take", "run", "complete", "fail"} => RowOf(c).body = BodyOf[c]

GotIsPlaced ==
  \A c \in Caller : at[c] = "complete" => got[c] # None /\ got[c] = placed[BodyOf[c]]

Unanswered == \A c \in Caller : at[c] # "answered" => answer[c] = None

KInv == TypeOK /\ Owns /\ GotIsPlaced /\ Unanswered /\ ResponseIsOutcome

Used == [body: Body, status: {"IN_PROGRESS", "COMPLETED", "FAILED"},
         response: Order \cup {None}, stale: BOOLEAN]

(* A row that has a body is a row in use. *)
LEMMA UsedRow ==
  ASSUME NEW x \in Rows, x.body \in Body
  PROVE  x \in Used
BY IdempotencyAssumption DEF Rows, NoRow, Used

LEMMA UsedIsRow == Used \subseteq Rows
BY DEF Rows, Used

(* Types and the four facts hold initially. *)
LEMMA KInit == Init => KInv
  BY IdempotencyAssumption
  DEF Init, KInv, TypeOK, Owns, GotIsPlaced, Unanswered, ResponseIsOutcome, Position, Rows, NoRow

(* A claim writes a row of its own body, or nothing. *)
LEMMA KClaim ==
  ASSUME KInv, NEW c \in Caller, Claim(c)
  PROVE  KInv'
<1> USE IdempotencyAssumption DEF KInv, Claim, Goto, RowOf
<1>1. KeyOf[c] \in Key /\ BodyOf[c] \in Body
  OBVIOUS
<1>2. TypeOK'
  <2> DEFINE r == [body |-> BodyOf[c], status |-> "IN_PROGRESS", response |-> None, stale |-> FALSE]
  <2>1. r \in Rows
    BY <1>1, UsedIsRow DEF Used
  <2>2. row' \in [Key -> Rows]
    BY <1>1, <2>1 DEF TypeOK
  <2> QED
    BY <2>2 DEF TypeOK, Position
<1>3. ASSUME NEW d \in Caller, at'[d] \in {"take", "run", "complete", "fail"}
      PROVE  row'[KeyOf[d]].body = BodyOf[d]
  BY <1>1, <1>3 DEF TypeOK, Owns, Rows, NoRow
<1>4. Owns'
  BY <1>3 DEF Owns
<1>5. GotIsPlaced' /\ Unanswered'
  BY DEF TypeOK, GotIsPlaced, Unanswered
<1>6. ResponseIsOutcome'
  BY <1>1 DEF TypeOK, ResponseIsOutcome, NoRow
<1> QED
  BY <1>2, <1>4, <1>5, <1>6

(* Steps that only decide where a request goes: the select, a death. *)
LEMMA KLook ==
  ASSUME KInv, NEW c \in Caller, NEW p \in Position \ {"complete", "answered"},
         Goto(c, p), UNCHANGED <<row, got, placed, answer>>, faults' \in 0..MaxFaults, prunes' = prunes,
         p \in {"take", "run", "fail"} => RowOf(c).body = BodyOf[c],
         at[c] # "answered"
  PROVE  KInv'
<1> USE DEF KInv, Goto, RowOf
<1>1. TypeOK'
  BY DEF TypeOK
<1>2. Owns' /\ GotIsPlaced' /\ Unanswered'
  BY DEF TypeOK, Owns, GotIsPlaced, Unanswered
<1>3. ResponseIsOutcome'
  BY DEF ResponseIsOutcome
<1> QED
  BY <1>1, <1>2, <1>3

(* A replay answers with the order of the session. *)
LEMMA KReplay ==
  ASSUME KInv, NEW c \in Caller, Replay(c)
  PROVE  KInv' /\ answer[c] = None /\ placed[BodyOf[c]] # None
         /\ answer' = [answer EXCEPT ![c] = placed[BodyOf[c]]]
<1> USE IdempotencyAssumption DEF KInv, Replay, Goto, RowOf
<1>1. KeyOf[c] \in Key /\ BodyOf[c] \in Body
  OBVIOUS
<1>2. RowOf(c).response # None /\ RowOf(c).response = placed[BodyOf[c]]
  BY <1>1 DEF ResponseIsOutcome
<1>3. TypeOK'
  BY <1>1, <1>2 DEF TypeOK, Position
<1>4. Owns' /\ GotIsPlaced' /\ Unanswered' /\ ResponseIsOutcome'
  BY <1>1 DEF TypeOK, Owns, GotIsPlaced, Unanswered, ResponseIsOutcome
<1> QED
  BY <1>1, <1>2, <1>3, <1>4 DEF Unanswered

(* An update by key keeps the body of the row, and stores a response only if it is the *)
(* order of the session.                                                               *)
LEMMA KStamp ==
  ASSUME KInv, NEW c \in Caller, NEW r, at[c] \in {"take", "complete", "fail"},
         row' = Stamped(c, r), r \in Rows, r.body = RowOf(c).body,
         r.status = "COMPLETED" => r.response # None /\ r.response = placed[BodyOf[c]],
         placed' = placed
  PROVE  /\ row' \in [Key -> Rows]
         /\ \A k \in Key : row'[k].body = row[k].body
         /\ ResponseIsOutcome'
<1> USE IdempotencyAssumption DEF KInv, RowOf, Stamped
<1>1. KeyOf[c] \in Key /\ BodyOf[c] \in Body /\ row[KeyOf[c]].body = BodyOf[c]
  BY DEF Owns
<1>2. row' \in [Key -> Rows] /\ \A k \in Key : row'[k].body = row[k].body
  BY <1>1 DEF TypeOK
<1>3. ResponseIsOutcome'
  BY <1>1, <1>2 DEF TypeOK, ResponseIsOutcome
<1> QED
  BY <1>2, <1>3

(* Takeover, completion and failure. *)
LEMMA KTakeOver ==
  ASSUME KInv, NEW c \in Caller, TakeOver(c)
  PROVE  KInv'
<1> USE IdempotencyAssumption DEF KInv, TakeOver, Goto
<1> DEFINE r == [RowOf(c) EXCEPT !.status = "IN_PROGRESS", !.stale = FALSE]
<1>1. RowOf(c) \in Rows /\ RowOf(c).body = BodyOf[c] /\ BodyOf[c] \in Body
  BY DEF TypeOK, Owns, RowOf
<1>2. r \in Rows /\ r.body = RowOf(c).body /\ r.status # "COMPLETED"
  <2>1. RowOf(c) \in Used
    BY <1>1, UsedRow
  <2> QED
    BY <2>1, UsedIsRow DEF Used
<1>3. row' \in [Key -> Rows] /\ (\A k \in Key : row'[k].body = row[k].body) /\ ResponseIsOutcome'
  <2>1. KInv /\ at[c] \in {"take", "complete", "fail"} /\ row' = Stamped(c, r) /\ placed' = placed
    OBVIOUS
  <2> HIDE DEF r, KInv, TakeOver, Goto
  <2> QED
    BY <1>2, <2>1, KStamp
<1>4. TypeOK' /\ Owns' /\ GotIsPlaced' /\ Unanswered'
  BY <1>3 DEF TypeOK, Owns, GotIsPlaced, Unanswered, Position, RowOf
<1> QED
  BY <1>3, <1>4

LEMMA KFail ==
  ASSUME KInv, NEW c \in Caller, Fail(c)
  PROVE  KInv'
<1> USE IdempotencyAssumption DEF KInv, Fail, Goto
<1> DEFINE r == [RowOf(c) EXCEPT !.status = "FAILED"]
<1>1. RowOf(c) \in Rows /\ RowOf(c).body = BodyOf[c] /\ BodyOf[c] \in Body
  BY DEF TypeOK, Owns, RowOf
<1>2. r \in Rows /\ r.body = RowOf(c).body /\ r.status # "COMPLETED"
  <2>1. RowOf(c) \in Used
    BY <1>1, UsedRow
  <2> QED
    BY <2>1, UsedIsRow DEF Used
<1>3. row' \in [Key -> Rows] /\ (\A k \in Key : row'[k].body = row[k].body) /\ ResponseIsOutcome'
  <2>1. KInv /\ at[c] \in {"take", "complete", "fail"} /\ row' = Stamped(c, r) /\ placed' = placed
    OBVIOUS
  <2> HIDE DEF r, KInv, Fail, Goto
  <2> QED
    BY <1>2, <2>1, KStamp
<1>4. TypeOK' /\ Owns' /\ GotIsPlaced' /\ Unanswered'
  BY <1>3 DEF TypeOK, Owns, GotIsPlaced, Unanswered, Position, RowOf
<1> QED
  BY <1>3, <1>4

LEMMA KComplete ==
  ASSUME KInv, NEW c \in Caller, Complete(c)
  PROVE  KInv' /\ answer[c] = None /\ placed[BodyOf[c]] # None
         /\ answer' = [answer EXCEPT ![c] = placed[BodyOf[c]]]
<1> USE IdempotencyAssumption DEF KInv, Complete, Goto
<1> DEFINE r == [RowOf(c) EXCEPT !.status = "COMPLETED", !.response = got[c]]
<1>1. RowOf(c) \in Rows /\ RowOf(c).body = BodyOf[c] /\ BodyOf[c] \in Body
  BY DEF TypeOK, Owns, RowOf
<1>2. got[c] # None /\ got[c] = placed[BodyOf[c]] /\ got[c] \in Order
  BY DEF TypeOK, GotIsPlaced
<1>3. r \in Rows /\ r.body = RowOf(c).body /\ r.response = got[c]
  <2>1. RowOf(c) \in Used
    BY <1>1, UsedRow
  <2> QED
    BY <1>2, <2>1, UsedIsRow DEF Used
<1>4. row' \in [Key -> Rows] /\ (\A k \in Key : row'[k].body = row[k].body) /\ ResponseIsOutcome'
  <2>1. KInv /\ at[c] \in {"take", "complete", "fail"} /\ row' = Stamped(c, r) /\ placed' = placed
    OBVIOUS
  <2>2. r.response # None /\ r.response = placed[BodyOf[c]]
    BY <1>2, <1>3
  <2> HIDE DEF r, KInv, Complete, Goto
  <2> QED
    BY <1>3, <2>1, <2>2, KStamp
<1>5. TypeOK' /\ Owns' /\ GotIsPlaced' /\ Unanswered'
  BY <1>2, <1>4 DEF TypeOK, Owns, GotIsPlaced, Unanswered, Position, RowOf
<1> QED
  BY <1>2, <1>4, <1>5 DEF Unanswered

(* The handler's transaction gives a session one order and returns it. *)
LEMMA KPlace ==
  ASSUME KInv, NEW c \in Caller, NEW o \in Order, PlaceOrder(c, o),
         at[c] = "run", NEW p \in {"complete", "fail"}, Goto(c, p),
         UNCHANGED <<row, answer, prunes>>, faults' \in 0..MaxFaults
  PROVE  /\ KInv'
         /\ placed' = placed \/ Once!Perform(BodyOf[c], o)
<1> USE IdempotencyAssumption DEF KInv, PlaceOrder, Goto
<1>1. BodyOf[c] \in Body
  OBVIOUS
<1>2. TypeOK'
  BY <1>1 DEF TypeOK, Position
<1>3. \A b \in Body : placed[b] # None => placed'[b] = placed[b]
  BY <1>1 DEF TypeOK
<1>4. got'[c] = o /\ placed'[BodyOf[c]] = o /\ o # None
  BY <1>1 DEF TypeOK
<1>5. GotIsPlaced'
  BY <1>3, <1>4 DEF TypeOK, GotIsPlaced
<1>6. Owns' /\ Unanswered'
  BY DEF TypeOK, Owns, Unanswered, RowOf
<1>7. ASSUME NEW k \in Key, row[k].status = "COMPLETED"
      PROVE  row[k].response # None /\ row[k].response = placed'[row[k].body]
  BY <1>3, <1>7 DEF TypeOK, ResponseIsOutcome, Rows, NoRow
<1>8. ResponseIsOutcome'
  BY <1>7 DEF ResponseIsOutcome
<1>9. placed' = placed \/ Once!Perform(BodyOf[c], o)
  BY <1>1 DEF Once!Perform, Fresh
<1> QED
  BY <1>2, <1>5, <1>6, <1>8, <1>9

(* Time passes, a key is pruned. *)
LEMMA KKeys ==
  ASSUME KInv, NEW k \in Key, Elapse(k) \/ Prune(k)
  PROVE  KInv'
<1> USE IdempotencyAssumption DEF KInv
<1>1. CASE Elapse(k)
  <2> USE <1>1 DEF Elapse
  <2>1. \A j \in Key : row'[j].body = row[j].body /\ row'[j].status = row[j].status
                       /\ row'[j].response = row[j].response
    BY DEF TypeOK, Rows, NoRow
  <2>2. TypeOK'
    <3>1. row[k] \in Used
      BY DEF TypeOK, Rows, Used, NoRow
    <3>2. [row[k] EXCEPT !.stale = TRUE] \in Rows
      BY <3>1, UsedIsRow DEF Used
    <3> QED
      BY <3>2 DEF TypeOK
  <2>3. Owns' /\ GotIsPlaced' /\ Unanswered' /\ ResponseIsOutcome'
    BY <2>1 DEF Owns, GotIsPlaced, Unanswered, ResponseIsOutcome, RowOf
  <2> QED
    BY <2>2, <2>3
<1>2. CASE Prune(k)
  <2> USE <1>2 DEF Prune, Quiet
  <2>1. TypeOK'
    BY DEF TypeOK, Rows
  <2>2. Owns' /\ GotIsPlaced' /\ Unanswered' /\ ResponseIsOutcome'
    BY DEF TypeOK, Owns, GotIsPlaced, Unanswered, ResponseIsOutcome, RowOf, NoRow
  <2> QED
    BY <2>1, <2>2
<1> QED
  BY <1>1, <1>2

(* Every step keeps the invariant and is a step or a stutter of OneShot. *)
LEMMA KStep ==
  ASSUME KInv, [Next]_vars
  PROVE  KInv' /\ [Once!ONext]_<<placed, answer>>
<1> USE IdempotencyAssumption
<1>1. ASSUME NEW c \in Caller, Claim(c)
      PROVE  KInv' /\ UNCHANGED <<placed, answer>>
  BY <1>1, KClaim DEF Claim
<1>2. ASSUME NEW c \in Caller, LookAgain(c) \/ Refuse(c) \/ LookStale(c) \/ CompleteFails(c) \/ Die(c)
      PROVE  KInv' /\ UNCHANGED <<placed, answer>>
  <2> DEFINE GoesTo(p) ==
        /\ Goto(c, p) /\ UNCHANGED <<row, got, placed, answer>> /\ prunes' = prunes
        /\ faults' \in 0..MaxFaults
        /\ p \in {"take", "run", "fail"} => RowOf(c).body = BodyOf[c]
        /\ at[c] # "answered"
  <2>1. KInv /\ TypeOK /\ Owns
    BY DEF KInv
  <2>2. \E p \in Position \ {"complete", "answered"} : GoesTo(p)
    <3>1. CASE LookAgain(c)
      <4>1. GoesTo("idle")
        BY <3>1, <2>1 DEF LookAgain, Goto, TypeOK
      <4> QED
        BY <4>1 DEF Position
    <3>2. CASE Refuse(c)
      <4>1. GoesTo("refused")
        BY <3>2, <2>1 DEF Refuse, Goto, TypeOK
      <4> QED
        BY <4>1 DEF Position
    <3>3. CASE LookStale(c)
      <4>1. GoesTo("take") \/ GoesTo("run")
        BY <3>3, <2>1 DEF LookStale, Goto, TypeOK
      <4> QED
        BY <4>1 DEF Position
    <3>4. CASE CompleteFails(c)
      <4>1. GoesTo("fail")
        BY <3>4, <2>1 DEF CompleteFails, Goto, TypeOK, Owns
      <4> QED
        BY <4>1 DEF Position
    <3>5. CASE Die(c)
      <4>1. GoesTo("idle")
        BY <3>5, <2>1 DEF Die, Goto, TypeOK
      <4> QED
        BY <4>1 DEF Position
    <3> QED
      BY <1>2, <3>1, <3>2, <3>3, <3>4, <3>5
  <2>3. PICK p \in Position \ {"complete", "answered"} : GoesTo(p)
    BY <2>2
  <2>4. KInv'
    BY <2>1, <2>3, KLook
  <2> QED
    BY <2>3, <2>4
<1>3. ASSUME NEW c \in Caller, Replay(c) \/ Complete(c)
      PROVE  KInv' /\ Once!Tell(c)
  BY <1>3, KReplay, KComplete DEF Once!Tell, Replay, Complete
<1>4. ASSUME NEW c \in Caller, TakeOver(c) \/ Fail(c)
      PROVE  KInv' /\ UNCHANGED <<placed, answer>>
  BY <1>4, KTakeOver, KFail DEF TakeOver, Fail
<1>5. ASSUME NEW c \in Caller, Run(c)
      PROVE  KInv' /\ [Once!ONext]_<<placed, answer>>
  <2>1. PICK o \in Order : PlaceOrder(c, o)
    BY <1>5 DEF Run
  <2>2. faults' \in 0..MaxFaults
    BY <1>5 DEF Run, KInv, TypeOK
  <2>3. KInv' /\ (placed' = placed \/ Once!Perform(BodyOf[c], o))
    BY <1>5, <2>1, <2>2, KPlace DEF Run
  <2> QED
    BY <1>5, <2>3 DEF Run, Once!ONext
<1>6. ASSUME NEW c \in Caller, RunFails(c)
      PROVE  KInv' /\ [Once!ONext]_<<placed, answer>>
  <2>1. faults' \in 0..MaxFaults
    BY <1>6 DEF RunFails, KInv, TypeOK
  <2>2. CASE UNCHANGED <<placed, got>>
    <3>1. RowOf(c).body = BodyOf[c]
      BY <1>6 DEF RunFails, KInv, Owns
    <3>2. KInv'
      BY <1>6, <2>1, <2>2, <3>1, KLook DEF RunFails, Position
    <3> QED
      BY <1>6, <2>2, <3>2 DEF RunFails
  <2>3. ASSUME NEW o \in Order, PlaceOrder(c, o)
        PROVE  KInv' /\ [Once!ONext]_<<placed, answer>>
    <3>1. KInv' /\ (placed' = placed \/ Once!Perform(BodyOf[c], o))
      BY <1>6, <2>1, <2>3, KPlace DEF RunFails
    <3> QED
      BY <1>6, <3>1 DEF RunFails, Once!ONext
  <2> QED
    BY <1>6, <2>2, <2>3 DEF RunFails
<1>7. ASSUME NEW k \in Key, Elapse(k) \/ Prune(k)
      PROVE  KInv' /\ UNCHANGED <<placed, answer>>
  BY <1>7, KKeys DEF Elapse, Prune
<1>8. ASSUME UNCHANGED vars
      PROVE  KInv' /\ UNCHANGED <<placed, answer>>
  BY <1>8 DEF vars, KInv, TypeOK, Owns, GotIsPlaced, Unanswered, ResponseIsOutcome, RowOf
<1> QED
  BY <1>1, <1>2, <1>3, <1>4, <1>5, <1>6, <1>7, <1>8 DEF Next, Step, Once!ONext

LEMMA KInvHolds == Spec => []KInv
<1>1. Init => KInv
  BY KInit
<1>2. KInv /\ [Next]_vars => KInv'
  BY KStep
<1> QED
  BY <1>1, <1>2, PTL DEF Spec

(* Types are kept. *)
THEOREM IdempotencyTypeCorrect == Spec => []TypeOK
<1>1. KInv => TypeOK
  BY DEF KInv
<1> QED
  BY <1>1, KInvHolds, PTL

(* A completed key replays the one order of its session, whoever wrote the row last. *)
THEOREM IdempotencyResponse == Spec => []ResponseIsOutcome
<1>1. KInv => ResponseIsOutcome
  BY DEF KInv
<1> QED
  BY <1>1, KInvHolds, PTL

(* The endpoint keeps the promise of OneShot: one order for a session, one answer. *)
THEOREM IdempotencyOneShot == Spec => ImplementsOneShot
<1>1. Init => Once!OInit
  BY DEF Init, Once!OInit
<1>2. KInv /\ [Next]_vars => [Once!ONext]_<<placed, answer>>
  BY KStep
<1> QED
  BY <1>1, <1>2, KInvHolds, PTL DEF Spec, ImplementsOneShot, Once!OSpec

-----------------------------------------------------------------------------
(* Storefront *)

Phase == {"CART", "OPEN", "AGAIN", "LOOK", "COUNT", "WRITE", "VIEW", "DROP",
          "LINES", "START", "PRICE", "PLACE"}

\* A request under way, and what each kind of it has by the step it is at.
Task ==
  {x \in [does : Does, at : Phase, on : Wanted \cup {Nil}, qty : Nat, cart : CartId \cup {Nil},
          room : Nat, row : BOOLEAN, took : [Wanted -> Nat], alone : BOOLEAN] :
     /\ x.does \in {"ADD", "MOVE", "SET"} => x.qty > 0
     /\ x.does # "ORDER" => x.on \in Wanted
     /\ x.does \in ByLine => x.cart \in CartId
     /\ x.does \in {"ADD", "MOVE"} /\ x.at \in {"LOOK", "COUNT", "WRITE", "VIEW", "DROP"} =>
          x.cart \in CartId}

ListingTypeOK ==
  /\ seller \in [Seller -> {"APPROVED", "SUSPENDED"}]
  /\ leaving \in SUBSET Seller
  /\ product \in BOOLEAN
  /\ listing \in [Seller -> ListingStatus]
  /\ winner \in SUBSET Seller
  /\ stock \in [Seller -> Nat]
  /\ checked \in [Clerk -> Seller \cup {Nil}]

CartTypeOK ==
  /\ cart \in [CartId -> {"NONE", "ACTIVE", "CONVERTED"}]
  /\ lines \in [CartId -> [Wanted -> Nat]]
  /\ saved \in [Wanted -> Nat]
  /\ req \in [Request -> Task \cup {Nil}]

OneActive == \A c, d \in CartId : cart[c] = "ACTIVE" /\ cart[d] = "ACTIVE" => c = d

\* What is still there of what an undisturbed request has read or written.
Standing(x) ==
  /\ x.does = "SAVE" /\ x.at # "VIEW" => cart[x.cart] = "ACTIVE" /\ lines[x.cart][x.on] > 0
  /\ x.does = "MOVE" /\ x.at \in {"LOOK", "COUNT", "WRITE", "VIEW", "DROP"} => cart[x.cart] = "ACTIVE"
  /\ x.does = "MOVE" /\ x.at \in {"VIEW", "DROP"} => lines[x.cart][x.on] > 0
  /\ x.does = "ORDER" /\ x.at = "START" => \A c \in Active : lines[c] = x.took
  /\ x.does = "ORDER" /\ x.at \in {"PRICE", "PLACE"} /\ x.cart # Nil =>
       cart[x.cart] = "ACTIVE" /\ lines[x.cart] = x.took

Undisturbed == \A r \in Request :
  req[r] # Nil /\ req[r].alone =>
    (\A p \in Request \ {r} : req[p] = Nil) /\ Standing(req[r])

CInv == CartTypeOK /\ OneActive /\ Undisturbed

-----------------------------------------------------------------------------
\* What a step of one request means for the others' history and its own.
LEMMA UndisturbedStep ==
  ASSUME Undisturbed, NEW r \in Request, req[r] # Nil,
         \A p \in Request \ {r} : req'[p] # Nil => req[p] # Nil /\ req'[p].alone = req[p].alone,
         req'[r] # Nil => req'[r].alone = req[r].alone,
         req'[r] # Nil /\ req'[r].alone => Standing(req[r])'
  PROVE  Undisturbed'
<1> SUFFICES ASSUME NEW q \in Request, req'[q] # Nil, req'[q].alone
             PROVE  (\A p \in Request \ {q} : req'[p] = Nil) /\ Standing(req[q])'
  BY DEF Undisturbed
<1>1. q = r
  BY DEF Undisturbed
<1>2. \A p \in Request \ {r} : req[p] = Nil
  BY <1>1 DEF Undisturbed
<1> QED BY <1>1, <1>2

\* A request goes on to another step.
LEMMA GoesStep ==
  ASSUME CInv, NEW r \in Request, req[r] # Nil, NEW step \in Phase,
         req[r].does \in {"ADD", "MOVE"} =>
           req[r].cart \in CartId \/ step \notin {"LOOK", "COUNT", "WRITE", "VIEW", "DROP"}
  PROVE  LET x == Goes(r, step)[r]
         IN /\ Goes(r, step) \in [Request -> Task \cup {Nil}]
            /\ x.at = step /\ x.does = req[r].does /\ x.on = req[r].on
            /\ x.cart = req[r].cart /\ x.qty = req[r].qty
            /\ x.took = req[r].took /\ x.alone = req[r].alone
            /\ \A p \in Request \ {r} : Goes(r, step)[p] = req[p]
<1>1. req[r] \in Task
  BY DEF CInv, CartTypeOK
<1>2. [req[r] EXCEPT !.at = step] \in Task
  BY <1>1 DEF Task
<1> QED BY <1>1, <1>2 DEF CInv, CartTypeOK, Goes, Task

\* Nothing is lost by a step that leaves the customer's things alone.
KeptStep ==
  \A l \in Wanted : Has(l) /\ ~Has(l)' =>
    \E r \in Request :
      /\ req[r] # Nil /\ req'[r] # req[r]
      /\ \/ ~req[r].alone
         \/ req[r].does = "REMOVE" /\ req[r].on = l
         \/ req[r].does = "ORDER" /\ req[r].took[l] > 0

LEMMA QuietKeeps ==
  ASSUME UNCHANGED <<cart, lines, saved>>
  PROVE  KeptStep
BY DEF KeptStep, Has, Active

\* A step of one request that goes on, and touches nothing else.
LEMMA QuietGoes ==
  ASSUME CInv, NEW r \in Request, req[r] # Nil, UNCHANGED <<cart, lines, saved>>,
         req' \in [Request -> Task \cup {Nil}],
         \A p \in Request \ {r} : req'[p] = req[p],
         req'[r] # Nil => req'[r].alone = req[r].alone,
         req'[r] # Nil /\ req'[r].alone => Standing(req[r])'
  PROVE  CInv' /\ KeptStep
<1>1. CartTypeOK'
  BY DEF CInv, CartTypeOK
<1>2. OneActive'
  BY DEF CInv, OneActive
<1>3. Undisturbed'
  BY UndisturbedStep DEF CInv
<1> QED BY <1>1, <1>2, <1>3, QuietKeeps DEF CInv

-----------------------------------------------------------------------------
(* Requests begin and end *)

LEMMA EnterStep ==
  ASSUME CInv, NEW r \in Request, NEW does \in Does, NEW step \in {"CART", "LINES"},
         NEW l \in Wanted \cup {Nil}, NEW q \in Nat, NEW c \in CartId \cup {Nil},
         does \in {"ADD", "MOVE", "SET"} => q > 0,
         does # "ORDER" => l \in Wanted /\ step = "CART",
         does \in ByLine => c \in CartId,
         does = "SAVE" => cart[c] = "ACTIVE" /\ lines[c][l] > 0,
         does = "ORDER" => step = "LINES",
         Enter(r, does, step, l, q, c)
  PROVE  CInv' /\ KeptStep
<1> DEFINE new == [does |-> does, at |-> step, on |-> l, qty |-> q, cart |-> c, room |-> 0,
                   row |-> TRUE, took |-> Empty, alone |-> \A o \in Request : req[o] = Nil]
<1>1. new \in Task
  BY DEF Task, Empty, Phase
<1>2. \A x \in Task : [x EXCEPT !.alone = FALSE] \in Task
  BY DEF Task
<1>3. /\ req' \in [Request -> Task \cup {Nil}]
      /\ req'[r] = new
      /\ \A p \in Request \ {r} : req'[p] = IF req[p] = Nil THEN Nil ELSE [req[p] EXCEPT !.alone = FALSE]
  <2> HIDE DEF new
  <2> QED BY <1>1, <1>2 DEF Enter, CInv, CartTypeOK, new
<1>4. CartTypeOK'
  BY <1>3 DEF CInv, CartTypeOK, Enter
<1>5. OneActive'
  BY DEF CInv, OneActive, Enter
<1>6. Undisturbed'
  <2> SUFFICES ASSUME NEW p \in Request, req'[p] # Nil, req'[p].alone
               PROVE  (\A o \in Request \ {p} : req'[o] = Nil) /\ Standing(req[p])'
    BY DEF Undisturbed
  <2>1. p = r
    <3> SUFFICES ASSUME p # r PROVE FALSE
      OBVIOUS
    <3>1. req[p] \in Task /\ req'[p] = [req[p] EXCEPT !.alone = FALSE]
      BY <1>3 DEF CInv, CartTypeOK
    <3> QED BY <3>1 DEF Task
  <2>2. \A o \in Request : req[o] = Nil
    BY <1>3, <2>1
  <2>3. Standing(req[r])'
    BY <1>3 DEF Standing, Enter, ByLine, Does
  <2> QED BY <1>3, <2>1, <2>2, <2>3
<1> QED BY <1>4, <1>5, <1>6, QuietKeeps DEF CInv, Enter

LEMMA LeaveStep ==
  ASSUME CInv, NEW r \in Request, Leave(r)
  PROVE  CInv' /\ KeptStep
<1>1. /\ req[r] # Nil
      /\ req' \in [Request -> Task \cup {Nil}]
      /\ req'[r] = Nil
      /\ \A p \in Request \ {r} : req'[p] = req[p]
  BY DEF Leave, Ends, CInv, CartTypeOK
<1> QED BY <1>1, QuietGoes DEF Leave

LEMMA EventStep ==
  ASSUME CInv, CartEvent
  PROVE  CInv' /\ KeptStep
<1>1. ASSUME NEW r \in Request, AskOrder(r) PROVE CInv' /\ KeptStep
  BY <1>1, EnterStep DEF AskOrder, Does, ByLine
<1>2. ASSUME NEW r \in Request, NEW l \in Wanted, AskMove(r, l) PROVE CInv' /\ KeptStep
  <2>1. saved[l] \in Nat
    BY DEF CInv, CartTypeOK
  <2> QED BY <1>2, <2>1, EnterStep DEF AskMove, Does, ByLine
<1>3. ASSUME NEW r \in Request, NEW l \in Wanted, NEW q \in 1 .. MaxQty, AskAdd(r, l, q)
      PROVE  CInv' /\ KeptStep
  <2>1. q \in Nat /\ q > 0
    BY CartAssumption
  <2> QED BY <1>3, <2>1, EnterStep DEF AskAdd, Does, ByLine
<1>4. ASSUME NEW r \in Request, NEW l \in Wanted, NEW does \in ByLine, NEW q \in Nat,
             does = "SET" => q > 0, AskByLine(r, does, l, q)
      PROVE  CInv' /\ KeptStep
  <2>1. PICK c \in Active : lines[c][l] > 0 /\ Enter(r, does, "CART", l, q, c)
    BY <1>4 DEF AskByLine
  <2>2. c \in CartId /\ cart[c] = "ACTIVE"
    BY DEF Active
  <2>3. does \in Does /\ does # "ADD" /\ does # "MOVE" /\ does # "ORDER"
    BY DEF Does, ByLine
  <2> QED BY <1>4, <2>1, <2>2, <2>3, EnterStep
<1> QED
  <2>1. \A q \in 1 .. MaxQty : q \in Nat /\ q > 0
    BY CartAssumption
  <2>2. {"REMOVE", "SAVE", "SET"} \subseteq ByLine
    BY DEF ByLine
  <2> QED BY <1>1, <1>2, <1>3, <1>4, <2>1, <2>2 DEF CartEvent

-----------------------------------------------------------------------------
(* Finding the cart *)

LEMMA AtType ==
  ASSUME CInv, NEW r \in Request, NEW does, NEW step, At(r, does, step)
  PROVE  req[r] # Nil /\ req[r] \in Task /\ req[r].does \in does /\ req[r].at = step
BY DEF CInv, CartTypeOK, At

LEMMA FindCartStep ==
  ASSUME CInv, NEW r \in Request, FindCart(r)
  PROVE  CInv' /\ KeptStep
<1>1. req[r] # Nil /\ req[r] \in Task
  BY AtType DEF FindCart
<1>2. PICK c \in Active :
        /\ req[r].does \in ByLine => c = req[r].cart
        /\ req' = [req EXCEPT ![r].cart = c, ![r].at = IF req[r].does \in {"REMOVE", "SAVE"}
                                                       THEN "WRITE" ELSE "LOOK"]
  BY DEF FindCart
<1> DEFINE step == IF req[r].does \in {"REMOVE", "SAVE"} THEN "WRITE" ELSE "LOOK"
           new == [req[r] EXCEPT !.cart = c, !.at = step]
<1>3. c \in CartId /\ cart[c] = "ACTIVE"
  BY DEF Active
<1>4. new \in Task /\ new.cart = c /\ new.at = step /\ new.alone = req[r].alone
        /\ new.does = req[r].does /\ new.on = req[r].on /\ step \in {"WRITE", "LOOK"}
  BY <1>1, <1>3 DEF Task, Phase
<1>5. /\ req' \in [Request -> Task \cup {Nil}]
      /\ req'[r] = new
      /\ \A p \in Request \ {r} : req'[p] = req[p]
  <2> HIDE DEF new, step
  <2>1. req' = [req EXCEPT ![r] = new]
    BY <1>1, <1>2 DEF new, step
  <2> QED BY <1>4, <2>1 DEF CInv, CartTypeOK
<1>6. ASSUME req'[r].alone PROVE Standing(req[r])'
  <2>1. Standing(req[r])
    BY <1>1, <1>4, <1>5, <1>6 DEF CInv, Undisturbed
  <2>2. req[r].at # "VIEW"
    BY DEF FindCart, At
  <2>3. UNCHANGED <<cart, lines>>
    BY DEF FindCart
  <2> HIDE DEF new, step
  <2>4. ~ (new.at = "VIEW" \/ new.at = "DROP" \/ new.at = "START" \/ new.at = "PRICE" \/ new.at = "PLACE")
    BY <1>4
  <2>5. new.does = "SAVE" => cart'[new.cart] = "ACTIVE" /\ lines'[new.cart][new.on] > 0
    BY <1>2, <1>4, <2>1, <2>2, <2>3 DEF Standing, ByLine
  <2>6. cart'[new.cart] = "ACTIVE"
    BY <1>3, <1>4, <2>3
  <2> QED BY <1>5, <2>4, <2>5, <2>6 DEF Standing
<1> QED BY <1>1, <1>4, <1>5, <1>6, QuietGoes DEF FindCart

LEMMA FindNoCartStep ==
  ASSUME CInv, NEW r \in Request, FindNoCart(r)
  PROVE  CInv' /\ KeptStep
<1>1. req[r] # Nil /\ req[r] \in Task /\ req[r].at = "CART"
  BY AtType DEF FindNoCart
<1>2. /\ req' \in [Request -> Task \cup {Nil}]
      /\ req'[r].at = "OPEN" /\ req'[r].does = req[r].does /\ req'[r].on = req[r].on
      /\ req'[r].cart = req[r].cart /\ req'[r].alone = req[r].alone
      /\ \A p \in Request \ {r} : req'[p] = req[p]
  BY <1>1, GoesStep DEF FindNoCart, Phase
<1>3. ASSUME req'[r].alone PROVE Standing(req[r])'
  <2>1. Standing(req[r])
    BY <1>1, <1>2, <1>3 DEF CInv, Undisturbed
  <2> QED BY <1>1, <1>2, <2>1 DEF Standing, FindNoCart
<1> QED BY <1>1, <1>2, <1>3, QuietGoes DEF FindNoCart

\* A cart that is opened is the only one, and nothing is in the way of what there was.
LEMMA OpeningKeeps ==
  ASSUME CInv, UNCHANGED <<lines, saved>>,
         IF Active = {}
         THEN \E c \in CartId : cart[c] = "NONE" /\ cart' = [cart EXCEPT ![c] = "ACTIVE"]
         ELSE UNCHANGED cart
  PROVE  /\ cart' \in [CartId -> {"NONE", "ACTIVE", "CONVERTED"}]
         /\ OneActive'
         /\ KeptStep
         /\ \A c \in CartId : cart[c] = "ACTIVE" => cart'[c] = "ACTIVE"
<1>1. CASE Active = {}
  <2>1. PICK c \in CartId : cart[c] = "NONE" /\ cart' = [cart EXCEPT ![c] = "ACTIVE"]
    BY <1>1
  <2>2. \A d \in CartId : cart[d] # "ACTIVE"
    BY <1>1 DEF Active
  <2> QED BY <2>1, <2>2 DEF CInv, CartTypeOK, OneActive, KeptStep, Has, Active
<1>2. CASE Active # {}
  BY <1>2, QuietKeeps DEF CInv, CartTypeOK, OneActive
<1> QED BY <1>1, <1>2

LEMMA OpenCartStep ==
  ASSUME CInv, NEW r \in Request, OpenCart(r)
  PROVE  CInv' /\ KeptStep
<1>1. req[r] # Nil /\ req[r] \in Task /\ req[r].at = "OPEN"
  BY AtType DEF OpenCart
<1>2. /\ req' \in [Request -> Task \cup {Nil}]
      /\ req'[r].at = "AGAIN" /\ req'[r].does = req[r].does /\ req'[r].on = req[r].on
      /\ req'[r].cart = req[r].cart /\ req'[r].alone = req[r].alone
      /\ \A p \in Request \ {r} : req'[p] = req[p]
  BY <1>1, GoesStep DEF OpenCart, Phase
<1>3. /\ cart' \in [CartId -> {"NONE", "ACTIVE", "CONVERTED"}]
      /\ OneActive' /\ KeptStep
      /\ \A c \in CartId : cart[c] = "ACTIVE" => cart'[c] = "ACTIVE"
  BY OpeningKeeps DEF OpenCart
<1>4. ASSUME req'[r].alone PROVE Standing(req[r])'
  <2>1. Standing(req[r])
    BY <1>1, <1>2, <1>4 DEF CInv, Undisturbed
  <2>2. req[r].does = "SAVE" => req[r].cart \in CartId
    BY <1>1 DEF Task, ByLine
  <2> QED BY <1>1, <1>2, <1>3, <2>1, <2>2 DEF Standing, OpenCart
<1>5. CartTypeOK'
  BY <1>2, <1>3 DEF CInv, CartTypeOK, OpenCart
<1>6. Undisturbed'
  BY <1>1, <1>2, <1>4, UndisturbedStep DEF CInv
<1> QED BY <1>3, <1>5, <1>6 DEF CInv

LEMMA AnswerStep ==
  ASSUME CInv, NEW r \in Request, Answer(r)
  PROVE  CInv' /\ KeptStep
<1>1. req[r] # Nil /\ req[r] \in Task /\ req[r].at = "VIEW"
  BY AtType DEF Answer
<1>2. /\ req' \in [Request -> Task \cup {Nil}]
      /\ req'[r] # Nil =>
           /\ req'[r].at = "DROP" /\ req'[r].does = req[r].does /\ req[r].does = "MOVE"
           /\ req'[r].on = req[r].on
           /\ req'[r].cart = req[r].cart /\ req'[r].alone = req[r].alone
      /\ \A p \in Request \ {r} : req'[p] = req[p]
  <2>1. CASE req[r].does = "MOVE"
    <3>1. req[r].cart \in CartId
      BY <1>1, <2>1 DEF Task
    <3> QED BY <1>1, <2>1, <3>1, GoesStep DEF Answer, Phase
  <2>2. CASE req[r].does # "MOVE"
    BY <1>1, <2>2 DEF Answer, Ends, CInv, CartTypeOK
  <2> QED BY <2>1, <2>2
<1>3. /\ cart' \in [CartId -> {"NONE", "ACTIVE", "CONVERTED"}]
      /\ OneActive' /\ KeptStep
      /\ \A c \in CartId : cart[c] = "ACTIVE" => cart'[c] = "ACTIVE"
  BY OpeningKeeps DEF Answer
<1>4. ASSUME req'[r] # Nil, req'[r].alone PROVE Standing(req[r])'
  <2>1. Standing(req[r])
    BY <1>1, <1>2, <1>4 DEF CInv, Undisturbed
  <2>2. req[r].cart \in CartId
    BY <1>1, <1>2, <1>4 DEF Task
  <2> QED BY <1>1, <1>2, <1>3, <1>4, <2>1, <2>2 DEF Standing, Answer
<1>5. CartTypeOK'
  BY <1>2, <1>3 DEF CInv, CartTypeOK, Answer
<1>6. Undisturbed'
  BY <1>1, <1>2, <1>4, UndisturbedStep DEF CInv
<1> QED BY <1>3, <1>5, <1>6 DEF CInv

-----------------------------------------------------------------------------
(* Adding, changing and taking lines *)

LEMMA LookUpStep ==
  ASSUME CInv, stock \in [Seller -> Nat], NEW r \in Request, LookUp(r)
  PROVE  CInv' /\ KeptStep
<1> DEFINE room == IF MaxOrder < stock[req[r].on] THEN MaxOrder ELSE stock[req[r].on]
<1>1. req[r] # Nil /\ req[r] \in Task /\ req[r].at = "LOOK" /\ req[r].does \in {"ADD", "MOVE", "SET"}
  BY AtType DEF LookUp
<1>2. CASE req[r].does = "SET"
  <2>1. /\ req' \in [Request -> Task \cup {Nil}]
        /\ req'[r].at = "WRITE" /\ req'[r].does = "SET" /\ req'[r].alone = req[r].alone
        /\ \A p \in Request \ {r} : req'[p] = req[p]
    BY <1>1, <1>2, GoesStep DEF LookUp, Phase
  <2>2. Standing(req[r])'
    BY <2>1 DEF Standing
  <2> QED BY <1>1, <2>1, <2>2, QuietGoes DEF LookUp
<1>3. CASE req[r].does # "SET"
  <2> DEFINE new == [req[r] EXCEPT !.room = room, !.at = "COUNT"]
  <2>1. room \in Nat
    <3>1. req[r].on \in Seller
      BY <1>1, CartAssumption DEF Task
    <3> QED BY <3>1, ListingAssumption
  <2>2. new \in Task /\ new.cart = req[r].cart /\ new.at = "COUNT" /\ new.does = req[r].does
          /\ new.alone = req[r].alone
    <3> HIDE DEF room
    <3> QED BY <1>1, <2>1 DEF Task, Phase
  <2>3. /\ req' \in [Request -> Task \cup {Nil}]
        /\ req'[r] = new
        /\ \A p \in Request \ {r} : req'[p] = req[p]
    <3>1. req' = [req EXCEPT ![r] = new]
      BY <1>1, <1>3 DEF LookUp
    <3> HIDE DEF new
    <3> QED BY <2>2, <3>1 DEF CInv, CartTypeOK
  <2>4. ASSUME req'[r].alone PROVE Standing(req[r])'
    <3>1. Standing(req[r])
      BY <1>1, <2>2, <2>3, <2>4 DEF CInv, Undisturbed
    <3> HIDE DEF new
    <3> QED BY <1>1, <2>2, <2>3, <3>1 DEF Standing, LookUp
  <2> QED
    <3> HIDE DEF new
    <3> QED BY <1>1, <2>2, <2>3, <2>4, QuietGoes DEF LookUp
<1> QED BY <1>2, <1>3

LEMMA CountStep ==
  ASSUME CInv, NEW r \in Request, Count(r)
  PROVE  CInv' /\ KeptStep
<1>1. req[r] # Nil /\ req[r] \in Task /\ req[r].at = "COUNT" /\ req[r].does \in {"ADD", "MOVE"}
  BY AtType DEF Count
<1>2. /\ req' \in [Request -> Task \cup {Nil}]
      /\ req'[r].at = "WRITE" /\ req'[r].does = req[r].does /\ req'[r].on = req[r].on
      /\ req'[r].cart = req[r].cart /\ req'[r].alone = req[r].alone
      /\ \A p \in Request \ {r} : req'[p] = req[p]
  <2>1. req[r].cart \in CartId
    BY <1>1 DEF Task
  <2> QED BY <1>1, <2>1, GoesStep DEF Count, Phase
<1>3. ASSUME req'[r].alone PROVE Standing(req[r])'
  <2>1. Standing(req[r])
    BY <1>1, <1>2, <1>3 DEF CInv, Undisturbed
  <2> QED BY <1>1, <1>2, <2>1 DEF Standing, Count
<1> QED BY <1>1, <1>2, <1>3, QuietGoes DEF Count

LEMMA AddLineStep ==
  ASSUME CInv, NEW r \in Request, AddLine(r)
  PROVE  CInv' /\ KeptStep
<1> DEFINE c == req[r].cart
           l == req[r].on
<1>1. /\ req[r] # Nil /\ req[r] \in Task /\ req[r].at = "WRITE" /\ req[r].does \in {"ADD", "MOVE"}
      /\ c \in CartId /\ l \in Wanted /\ req[r].qty \in Nat /\ req[r].qty > 0
  <2>1. req[r] # Nil /\ req[r] \in Task /\ req[r].at = "WRITE" /\ req[r].does \in {"ADD", "MOVE"}
    BY AtType DEF AddLine
  <2> QED BY <2>1 DEF Task
<1>2. /\ req' \in [Request -> Task \cup {Nil}]
      /\ req'[r].at = "VIEW" /\ req'[r].does = req[r].does /\ req'[r].on = req[r].on
      /\ req'[r].cart = req[r].cart /\ req'[r].alone = req[r].alone
      /\ \A p \in Request \ {r} : req'[p] = req[p]
  BY <1>1, GoesStep DEF AddLine, Phase
<1>3. /\ lines' \in [CartId -> [Wanted -> Nat]]
      /\ lines'[c][l] > 0
      /\ \A d \in CartId, k \in Wanted : lines[d][k] > 0 => lines'[d][k] > 0
  <2>1. lines' = [lines EXCEPT ![c][l] = lines[c][l] + req[r].qty]
    BY DEF AddLine
  <2> HIDE DEF c, l
  <2> QED BY <1>1, <2>1 DEF CInv, CartTypeOK
<1>4. ASSUME req'[r].alone PROVE Standing(req[r])'
  <2>1. Standing(req[r])
    BY <1>1, <1>2, <1>4 DEF CInv, Undisturbed
  <2> QED BY <1>1, <1>2, <1>3, <2>1 DEF Standing, AddLine
<1>5. CartTypeOK' /\ OneActive'
  BY <1>2, <1>3 DEF CInv, CartTypeOK, OneActive, AddLine
<1>6. Undisturbed'
  BY <1>1, <1>2, <1>4, UndisturbedStep DEF CInv
<1>7. KeptStep
  BY <1>3 DEF KeptStep, Has, Active, AddLine
<1> QED BY <1>5, <1>6, <1>7 DEF CInv

LEMMA SetLineStep ==
  ASSUME CInv, NEW r \in Request, SetLine(r)
  PROVE  CInv' /\ KeptStep
<1> DEFINE c == req[r].cart
           l == req[r].on
<1>1. /\ req[r] # Nil /\ req[r] \in Task /\ req[r].at = "WRITE" /\ req[r].does = "SET"
      /\ c \in CartId /\ l \in Wanted /\ req[r].qty \in Nat /\ req[r].qty > 0
  <2>1. req[r] # Nil /\ req[r] \in Task /\ req[r].at = "WRITE" /\ req[r].does = "SET"
    BY AtType DEF SetLine
  <2> QED BY <2>1 DEF Task, ByLine
<1>2. /\ req' \in [Request -> Task \cup {Nil}]
      /\ req'[r].does = "SET" /\ req'[r].alone = req[r].alone
      /\ \A p \in Request \ {r} : req'[p] = req[p]
  BY <1>1, GoesStep DEF SetLine, Phase
<1>3. /\ lines' \in [CartId -> [Wanted -> Nat]]
      /\ \A d \in CartId, k \in Wanted : lines[d][k] > 0 => lines'[d][k] > 0
  <2>1. lines' = IF req[r].row THEN [lines EXCEPT ![c][l] = req[r].qty] ELSE lines
    BY DEF SetLine
  <2> HIDE DEF c, l
  <2> QED BY <1>1, <2>1 DEF CInv, CartTypeOK
<1>4. Standing(req[r])'
  BY <1>2 DEF Standing
<1>5. CartTypeOK' /\ OneActive'
  BY <1>2, <1>3 DEF CInv, CartTypeOK, OneActive, SetLine
<1>6. Undisturbed'
  BY <1>1, <1>2, <1>4, UndisturbedStep DEF CInv
<1>7. KeptStep
  BY <1>3 DEF KeptStep, Has, Active, SetLine
<1> QED BY <1>5, <1>6, <1>7 DEF CInv

\* Rows that are gone are gone for the requests that named them, and nothing else changes.
LEMMA OrphanEffect ==
  ASSUME NEW rs \in [Request -> Task \cup {Nil}], NEW does, NEW c, NEW ls
  PROVE  /\ Orphan(rs, does, c, ls) \in [Request -> Task \cup {Nil}]
         /\ \A p \in Request :
              /\ rs[p] = Nil => Orphan(rs, does, c, ls)[p] = Nil
              /\ rs[p] # Nil =>
                   LET x == Orphan(rs, does, c, ls)[p]
                   IN /\ x.does = rs[p].does /\ x.at = rs[p].at /\ x.on = rs[p].on
                      /\ x.cart = rs[p].cart /\ x.took = rs[p].took /\ x.alone = rs[p].alone
<1>1. \A x \in Task : [x EXCEPT !.row = FALSE] \in Task
  BY DEF Task
<1> QED BY <1>1 DEF Orphan, Task

LEMMA TakeLineStep ==
  ASSUME CInv, NEW r \in Request, TakeLine(r)
  PROVE  CInv' /\ KeptStep
<1> DEFINE c == req[r].cart
           l == req[r].on
<1>1. /\ req[r] # Nil /\ req[r] \in Task /\ req[r].at = "WRITE" /\ req[r].does \in {"REMOVE", "SAVE"}
      /\ c \in CartId /\ l \in Wanted
  <2>1. req[r] # Nil /\ req[r] \in Task /\ req[r].at = "WRITE" /\ req[r].does \in {"REMOVE", "SAVE"}
    BY AtType DEF TakeLine
  <2> QED BY <2>1 DEF Task, ByLine
<1>2. /\ req' \in [Request -> Task \cup {Nil}]
      /\ req'[r] # Nil => /\ req'[r].at = "VIEW" /\ req'[r].does = req[r].does
                          /\ req'[r].alone = req[r].alone
      /\ \A p \in Request \ {r} : req'[p] # Nil => req[p] # Nil /\ req'[p].alone = req[p].alone
  <2> DEFINE rs == Goes(r, "VIEW")
  <2>1. /\ rs \in [Request -> Task \cup {Nil}]
        /\ rs[r].at = "VIEW" /\ rs[r].does = req[r].does /\ rs[r].alone = req[r].alone
        /\ \A p \in Request \ {r} : rs[p] = req[p]
    BY <1>1, GoesStep DEF Phase
  <2>2. req' = Orphan(rs, ByLine, c, {l})
    BY DEF TakeLine
  <2> HIDE DEF rs, c, l
  <2> QED BY <2>1, <2>2, OrphanEffect
<1>3. saved' = IF req[r].does = "SAVE" THEN [saved EXCEPT ![l] = lines[c][l]] ELSE saved
  BY DEF TakeLine
<1>4. lines' = [lines EXCEPT ![c][l] = 0] /\ cart' = cart
  BY DEF TakeLine
<1>5. /\ lines' \in [CartId -> [Wanted -> Nat]] /\ saved' \in [Wanted -> Nat]
      /\ \A d \in CartId, k \in Wanted : lines'[d][k] = IF d = c /\ k = l THEN 0 ELSE lines[d][k]
      /\ \A k \in Wanted : saved'[k] = IF k = l /\ req[r].does = "SAVE" THEN lines[c][l] ELSE saved[k]
  <2> HIDE DEF c, l
  <2> QED BY <1>1, <1>3, <1>4 DEF CInv, CartTypeOK
<1>6. CartTypeOK' /\ OneActive'
  BY <1>2, <1>4, <1>5 DEF CInv, CartTypeOK, OneActive
<1>7. ASSUME req'[r] # Nil PROVE Standing(req[r])'
  BY <1>1, <1>2, <1>7 DEF Standing
<1>8. Undisturbed'
  BY <1>1, <1>2, <1>7, UndisturbedStep DEF CInv
<1>9. KeptStep
  <2> SUFFICES ASSUME NEW k \in Wanted, Has(k), ~Has(k)', req[r].alone
               PROVE  req[r].does = "REMOVE" /\ req[r].on = k
    <3>1. req'[r] # req[r]
      BY <1>1, <1>2
    <3> QED BY <1>1, <3>1 DEF KeptStep
  <2>1. k = l
    BY <1>4, <1>5 DEF Has, Active
  <2>2. CASE req[r].does = "SAVE"
    <3>1. lines[c][l] > 0
      BY <1>1, <2>2 DEF CInv, Undisturbed, Standing
    <3> QED BY <1>5, <2>1, <2>2, <3>1 DEF Has
  <2> QED BY <1>1, <2>1, <2>2
<1> QED BY <1>6, <1>8, <1>9 DEF CInv

LEMMA DropSavedStep ==
  ASSUME CInv, NEW r \in Request, DropSaved(r)
  PROVE  CInv' /\ KeptStep
<1> DEFINE c == req[r].cart
           l == req[r].on
<1>1. /\ req[r] # Nil /\ req[r] \in Task /\ req[r].at = "DROP" /\ req[r].does = "MOVE"
      /\ c \in CartId /\ l \in Wanted
  <2>1. req[r] # Nil /\ req[r] \in Task /\ req[r].at = "DROP" /\ req[r].does = "MOVE"
    BY AtType DEF DropSaved
  <2> QED BY <2>1 DEF Task, ByLine
<1>2. /\ req' \in [Request -> Task \cup {Nil}]
      /\ req'[r] = Nil
      /\ \A p \in Request \ {r} : req'[p] # Nil => req[p] # Nil /\ req'[p].alone = req[p].alone
  <2> DEFINE rs == Ends(r)
  <2>1. /\ rs \in [Request -> Task \cup {Nil}]
        /\ rs[r] = Nil
        /\ \A p \in Request \ {r} : rs[p] = req[p]
    BY DEF Ends, CInv, CartTypeOK
  <2>2. req' = Orphan(rs, {"MOVE"}, Nil, {l}) \/ req' = rs
    BY DEF DropSaved
  <2> HIDE DEF rs, c, l
  <2> QED BY <2>1, <2>2, OrphanEffect
<1>3. /\ saved' \in [Wanted -> Nat]
      /\ \A k \in Wanted \ {l} : saved'[k] = saved[k]
  BY <1>1 DEF CInv, CartTypeOK, DropSaved
<1>4. CartTypeOK' /\ OneActive'
  BY <1>2, <1>3 DEF CInv, CartTypeOK, OneActive, DropSaved
<1>5. Undisturbed'
  BY <1>1, <1>2, UndisturbedStep DEF CInv
<1>6. KeptStep
  <2> SUFFICES ASSUME NEW k \in Wanted, Has(k), ~Has(k)', req[r].alone
               PROVE  FALSE
    BY <1>1, <1>2 DEF KeptStep
  <2>1. cart[c] = "ACTIVE" /\ lines[c][l] > 0
    BY <1>1 DEF CInv, Undisturbed, Standing
  <2> QED BY <1>1, <1>3, <2>1 DEF Has, Active, DropSaved
<1> QED BY <1>4, <1>5, <1>6 DEF CInv

-----------------------------------------------------------------------------
(* Orders *)

LEMMA ReadLinesStep ==
  ASSUME CInv, NEW r \in Request, ReadLines(r)
  PROVE  CInv' /\ KeptStep
<1>1. req[r] # Nil /\ req[r] \in Task /\ req[r].at = "LINES" /\ req[r].does = "ORDER"
  BY AtType DEF ReadLines
<1>2. PICK c \in Active : req' = [req EXCEPT ![r].took = lines[c], ![r].at = "START"]
  BY DEF ReadLines
<1> DEFINE new == [req[r] EXCEPT !.took = lines[c], !.at = "START"]
<1>3. c \in CartId /\ cart[c] = "ACTIVE" /\ lines[c] \in [Wanted -> Nat]
  BY DEF Active, CInv, CartTypeOK
<1>4. new \in Task /\ new.took = lines[c] /\ new.at = "START" /\ new.does = "ORDER"
        /\ new.alone = req[r].alone
  BY <1>1, <1>3 DEF Task, Phase
<1>5. /\ req' \in [Request -> Task \cup {Nil}]
      /\ req'[r] = new
      /\ \A p \in Request \ {r} : req'[p] = req[p]
  <2>1. req' = [req EXCEPT ![r] = new]
    BY <1>1, <1>2
  <2> HIDE DEF new
  <2> QED BY <1>4, <2>1 DEF CInv, CartTypeOK
<1>6. Standing(req[r])'
  <2>1. \A d \in Active : lines[d] = lines[c]
    BY <1>3 DEF CInv, OneActive, Active
  <2> HIDE DEF new
  <2> QED BY <1>4, <1>5, <2>1 DEF Standing, ReadLines, Active
<1> HIDE DEF new
<1> QED BY <1>1, <1>4, <1>5, <1>6, QuietGoes DEF ReadLines

LEMMA OpenSessionStep ==
  ASSUME CInv, NEW r \in Request, OpenSession(r)
  PROVE  CInv' /\ KeptStep
<1>1. req[r] # Nil /\ req[r] \in Task /\ req[r].at = "START" /\ req[r].does = "ORDER"
  BY AtType DEF OpenSession
<1>2. PICK c \in IF Active = {} THEN {Nil} ELSE Active :
        req' = [p \in Request |->
         IF p = r THEN [req[r] EXCEPT !.cart = c, !.at = "PRICE"]
         ELSE IF At(p, {"ORDER"}, "PLACE") THEN Nil ELSE req[p]]
  BY DEF OpenSession
<1> DEFINE new == [req[r] EXCEPT !.cart = c, !.at = "PRICE"]
<1>3. c = Nil \/ (c \in CartId /\ c \in Active /\ cart[c] = "ACTIVE")
  BY DEF Active
<1>4. new \in Task /\ new.cart = c /\ new.took = req[r].took /\ new.at = "PRICE"
        /\ new.does = "ORDER" /\ new.alone = req[r].alone
  BY <1>1, <1>3 DEF Task, Phase, ByLine
<1>5. /\ req' \in [Request -> Task \cup {Nil}]
      /\ req'[r] = new
      /\ \A p \in Request \ {r} : req'[p] # Nil => req'[p] = req[p]
  <2> HIDE DEF new
  <2> QED BY <1>2, <1>4 DEF CInv, CartTypeOK, new
<1> HIDE DEF new
<1>6. ASSUME req'[r].alone PROVE Standing(req[r])'
  <2>1. Standing(req[r])
    BY <1>1, <1>4, <1>5, <1>6 DEF CInv, Undisturbed
  <2> QED BY <1>1, <1>3, <1>4, <1>5, <2>1 DEF Standing, OpenSession
<1>7. CartTypeOK' /\ OneActive'
  BY <1>5 DEF CInv, CartTypeOK, OneActive, OpenSession
<1>8. Undisturbed'
  BY <1>1, <1>4, <1>5, <1>6, UndisturbedStep DEF CInv
<1> QED BY <1>7, <1>8, QuietKeeps DEF CInv, OpenSession

LEMMA QuoteStep ==
  ASSUME CInv, NEW r \in Request, Quote(r)
  PROVE  CInv' /\ KeptStep
<1>1. req[r] # Nil /\ req[r] \in Task /\ req[r].at = "PRICE" /\ req[r].does = "ORDER"
  BY AtType DEF Quote
<1>2. /\ req' \in [Request -> Task \cup {Nil}]
      /\ req'[r].at = "PLACE" /\ req'[r].does = "ORDER" /\ req'[r].took = req[r].took
      /\ req'[r].cart = req[r].cart /\ req'[r].alone = req[r].alone
      /\ \A p \in Request \ {r} : req'[p] = req[p]
  BY <1>1, GoesStep DEF Quote, Phase
<1>3. ASSUME req'[r].alone PROVE Standing(req[r])'
  <2>1. Standing(req[r])
    BY <1>1, <1>2, <1>3 DEF CInv, Undisturbed
  <2> QED BY <1>1, <1>2, <2>1 DEF Standing, Quote
<1> QED BY <1>1, <1>2, <1>3, QuietGoes DEF Quote

LEMMA PlaceStep ==
  ASSUME CInv, NEW r \in Request, Place(r)
  PROVE  CInv' /\ KeptStep
<1>1. req[r] # Nil /\ req[r] \in Task /\ req[r].at = "PLACE" /\ req[r].does = "ORDER"
  BY AtType DEF Place
<1> DEFINE c == req[r].cart
           rs == Ends(r)
<1>2. /\ rs \in [Request -> Task \cup {Nil}]
      /\ rs[r] = Nil
      /\ \A p \in Request \ {r} : rs[p] = req[p]
  BY DEF Ends, CInv, CartTypeOK
<1>3. /\ req' \in [Request -> Task \cup {Nil}]
      /\ req'[r] = Nil
      /\ \A p \in Request \ {r} : req'[p] # Nil => req[p] # Nil /\ req'[p].alone = req[p].alone
  <2>1. req' = Orphan(rs, ByLine, c, Wanted) \/ req' = rs
    BY DEF Place
  <2> HIDE DEF rs, c
  <2> QED BY <1>2, <2>1, OrphanEffect
<1>4. Undisturbed'
  BY <1>1, <1>3, UndisturbedStep DEF CInv
<1>5. CASE c = Nil
  BY <1>3, <1>4, <1>5, QuietKeeps DEF Place, CInv, CartTypeOK, OneActive
<1>6. CASE c # Nil
  <2>1. /\ c \in CartId
        /\ cart' = [cart EXCEPT ![c] = "CONVERTED"]
        /\ lines' = [lines EXCEPT ![c] = Empty]
        /\ saved' = saved
    BY <1>1, <1>6 DEF Place, Task
  <2> HIDE DEF c, rs
  <2>2. Empty \in [Wanted -> Nat]
    BY DEF Empty
  <2>3. CartTypeOK' /\ OneActive'
    BY <1>3, <2>1, <2>2 DEF CInv, CartTypeOK, OneActive
  <2>4. KeptStep
    <3> SUFFICES ASSUME NEW k \in Wanted, Has(k), ~Has(k)', req[r].alone
                 PROVE  req[r].took[k] > 0
      BY <1>1, <1>3 DEF KeptStep
    <3>1. lines[c] = req[r].took
      BY <1>1, <1>6 DEF CInv, Undisturbed, Standing, c
    <3> QED BY <2>1, <3>1 DEF Has, Active, CInv, CartTypeOK
  <2> QED BY <1>4, <2>3, <2>4 DEF CInv
<1> QED BY <1>5, <1>6

LEMMA CartStepStep ==
  ASSUME CInv, stock \in [Seller -> Nat], CartStep
  PROVE  CInv' /\ KeptStep
BY LeaveStep, FindCartStep, FindNoCartStep, OpenCartStep, LookUpStep, CountStep, AddLineStep,
   SetLineStep, TakeLineStep, AnswerStep, DropSavedStep, ReadLinesStep, OpenSessionStep,
   QuoteStep, PlaceStep DEF CartStep

-----------------------------------------------------------------------------
(* The sellers' offers *)

LEMMA ElectionsType ==
  ASSUME ListingTypeOK, NEW sel, NEW lis, NEW sto, NEW w \in Elections(sel, lis, sto)
  PROVE  w \in SUBSET Seller
BY ListingAssumption DEF Elections, ListingTypeOK

LEMMA BecomesType ==
  ASSUME ListingTypeOK, NEW s \in Seller, NEW status \in ListingStatus
  PROVE  Becomes(s, status) \in [Seller -> ListingStatus]
BY DEF ListingTypeOK, Becomes

LEMMA ListingStepType ==
  ASSUME ListingTypeOK, ListingEvent \/ ListingStep
  PROVE  ListingTypeOK'
<1> USE DEF ListingTypeOK
<1>0. {"INACTIVE", "ACTIVE", "SUPPRESSED"} \subseteq ListingStatus
  BY DEF ListingStatus
<1>1. ASSUME NEW k \in Clerk, NEW s \in Seller, Check(k, s) PROVE ListingTypeOK'
  BY <1>1 DEF Check
<1>2. ASSUME NEW k \in Clerk, Activate(k) PROVE ListingTypeOK'
  <2>1. checked[k] \in Seller
    BY <1>2 DEF Activate
  <2>2. listing' \in [Seller -> ListingStatus] /\ winner' \in SUBSET Seller
    BY <1>0, <1>2, <2>1, BecomesType, ElectionsType DEF Activate
  <2> QED BY <1>2, <2>2 DEF Activate
<1>3. ASSUME NEW k \in Clerk, GiveUp(k) PROVE ListingTypeOK'
  BY <1>3 DEF GiveUp
<1>4. ASSUME NEW s \in Seller, Deactivate(s) PROVE ListingTypeOK'
  BY <1>0, <1>4, BecomesType, ElectionsType DEF Deactivate
<1>5. ASSUME NEW s \in Seller, NEW status \in ListingStatus, ModerateListing(s, status)
      PROVE  ListingTypeOK'
  BY <1>5, BecomesType DEF ModerateListing
<1>6. ASSUME NEW b \in BOOLEAN, ModerateProduct(b) PROVE ListingTypeOK'
  BY <1>6 DEF ModerateProduct
<1>7. ASSUME NEW s \in Seller, Receive(s) PROVE ListingTypeOK'
  BY <1>7, ElectionsType DEF Receive
<1>8. ASSUME NEW s \in Seller, StockTaken(s) PROVE ListingTypeOK'
  BY <1>8 DEF StockTaken
<1>9. ASSUME NEW s \in Seller, Suspend(s) PROVE ListingTypeOK'
  BY <1>0, <1>9, BecomesType, ElectionsType DEF Suspend
<1>10. ASSUME NEW s \in Seller, BeginSuspension(s) PROVE ListingTypeOK'
  BY <1>10 DEF BeginSuspension
<1>11. ASSUME NEW s \in Seller, CommitSuspension(s) PROVE ListingTypeOK'
  BY <1>11 DEF CommitSuspension
<1> QED
  BY <1>1, <1>2, <1>3, <1>4, <1>5, <1>6, <1>7, <1>8, <1>9, <1>10, <1>11
  DEF ListingEvent, ListingStep

-----------------------------------------------------------------------------
(* Together *)

SInv == ListingTypeOK /\ CInv

LEMMA StorefrontInitInv == StorefrontInit => SInv
<1> SUFFICES ASSUME StorefrontInit PROVE SInv
  OBVIOUS
<1>1. ListingTypeOK
  BY ListingAssumption DEF StorefrontInit, ListingInit, ListingTypeOK, ListingStatus
<1>2. CInv
  BY DEF StorefrontInit, CartInit, CInv, CartTypeOK, OneActive, Undisturbed, Empty
<1> QED BY <1>1, <1>2 DEF SInv

LEMMA StorefrontStep ==
  ASSUME SInv, [StorefrontNext]_storefrontVars
  PROVE  SInv' /\ KeptStep
<1>1. CASE UNCHANGED cartVars
  <2>1. CInv' /\ KeptStep
    BY <1>1, QuietKeeps DEF SInv, CInv, CartTypeOK, OneActive, Undisturbed, Standing, Active,
        cartVars
  <2>2. ListingTypeOK'
    BY ListingStepType DEF SInv, StorefrontNext, storefrontVars, listingVars, ListingTypeOK
  <2> QED BY <2>1, <2>2 DEF SInv
<1>2. CASE UNCHANGED listingVars /\ (CartEvent \/ CartStep)
  <2>1. CInv' /\ KeptStep
    BY <1>2, EventStep, CartStepStep DEF SInv, ListingTypeOK
  <2>2. ListingTypeOK'
    BY <1>2 DEF SInv, ListingTypeOK, listingVars
  <2> QED BY <2>1, <2>2 DEF SInv
<1> QED BY <1>1, <1>2 DEF StorefrontNext, storefrontVars

\* Only the quote quotes, and what it quotes is on sale.
QuoteOnSale ==
  \A r \in Request, l \in Wanted :
    Quotes(r) /\ req'[r].took[l] > 0 => seller[l] # "SUSPENDED"

LEMMA QuoteStepOnSale ==
  ASSUME SInv, [StorefrontNext]_storefrontVars
  PROVE  QuoteOnSale
<1> SUFFICES ASSUME NEW r \in Request, NEW l \in Wanted, Quotes(r), req'[r].took[l] > 0
             PROVE  seller[l] # "SUSPENDED"
  BY DEF QuoteOnSale
<1>0. req \in [Request -> Task \cup {Nil}]
  BY DEF SInv, CInv, CartTypeOK
<1>1. ~ Quoted(r) /\ req'[r] # Nil /\ req'[r].does = "ORDER" /\ req'[r].at = "PLACE"
  BY DEF Quotes, Quoted, At
<1>2. CASE UNCHANGED cartVars
  BY <1>1, <1>2 DEF Quoted, At, cartVars
<1>3. ASSUME NEW q \in Request, NEW does, NEW step, step # "PLACE", NEW m, NEW n, NEW c,
             Enter(q, does, step, m, n, c)
      PROVE  FALSE
  <2>1. CASE q = r
    BY <1>1, <1>3, <2>1 DEF Enter
  <2>2. CASE q # r
    BY <1>0, <1>1, <1>3, <2>2 DEF Enter, Quoted, At, Task
  <2> QED BY <2>1, <2>2
<1>4. ASSUME CartEvent PROVE FALSE
  BY <1>3, <1>4 DEF CartEvent, AskOrder, AskMove, AskAdd, AskByLine
<1>5. ASSUME NEW q \in Request, Leave(q) PROVE FALSE
  BY <1>0, <1>1, <1>5 DEF Quoted, At, Task, Leave, Ends
<1>6. ASSUME NEW q \in Request, FindCart(q) PROVE FALSE
  BY <1>0, <1>1, <1>6 DEF Quoted, At, Task, FindCart
<1>7. ASSUME NEW q \in Request, FindNoCart(q) PROVE FALSE
  BY <1>0, <1>1, <1>7 DEF Quoted, At, Task, FindNoCart, Goes
<1>8. ASSUME NEW q \in Request, OpenCart(q) PROVE FALSE
  BY <1>0, <1>1, <1>8 DEF Quoted, At, Task, OpenCart, Goes
<1>9. ASSUME NEW q \in Request, LookUp(q) PROVE FALSE
  BY <1>0, <1>1, <1>9 DEF Quoted, At, Task, LookUp, Goes
<1>10. ASSUME NEW q \in Request, Count(q) PROVE FALSE
  BY <1>0, <1>1, <1>10 DEF Quoted, At, Task, Count, Goes
<1>11. ASSUME NEW q \in Request, AddLine(q) PROVE FALSE
  BY <1>0, <1>1, <1>11 DEF Quoted, At, Task, AddLine, Goes
<1>12. ASSUME NEW q \in Request, SetLine(q) PROVE FALSE
  BY <1>0, <1>1, <1>12 DEF Quoted, At, Task, SetLine, Goes
<1>13. ASSUME NEW q \in Request, TakeLine(q) PROVE FALSE
  BY <1>0, <1>1, <1>13 DEF Quoted, At, Task, TakeLine, Goes, Orphan
<1>14. ASSUME NEW q \in Request, Answer(q) PROVE FALSE
  BY <1>0, <1>1, <1>14 DEF Quoted, At, Task, Answer, Goes, Ends
<1>15. ASSUME NEW q \in Request, DropSaved(q) PROVE FALSE
  BY <1>0, <1>1, <1>15 DEF Quoted, At, Task, DropSaved, Ends, Orphan
<1>16. ASSUME NEW q \in Request, ReadLines(q) PROVE FALSE
  BY <1>0, <1>1, <1>16 DEF Quoted, At, Task, ReadLines
<1>17. ASSUME NEW q \in Request, OpenSession(q) PROVE FALSE
  BY <1>0, <1>1, <1>17 DEF Quoted, At, Task, OpenSession
<1>18. ASSUME NEW q \in Request, Place(q) PROVE FALSE
  BY <1>0, <1>1, <1>18 DEF Quoted, At, Task, Place, Ends, Orphan
<1>19. ASSUME NEW q \in Request, Quote(q) PROVE seller[l] # "SUSPENDED"
  <2>1. req \in [Request -> Task \cup {Nil}]
    BY DEF SInv, CInv, CartTypeOK
  <2>2. q = r
    BY <1>1, <1>19, <2>1 DEF Quote, Goes, Quoted, At
  <2>3. req'[r].took = req[r].took
    BY <1>0, <1>19, <2>1, <2>2 DEF Quote, Goes, At, Task
  <2>4. OnSale(l)
    BY <1>19, <2>2, <2>3 DEF Quote
  <2> QED BY <2>4 DEF OnSale, OnSaleWith
<1> QED BY <1>2, <1>4, <1>5, <1>6, <1>7, <1>8, <1>9, <1>10, <1>11, <1>12, <1>13, <1>14, <1>15,
    <1>16, <1>17, <1>18, <1>19 DEF StorefrontNext, CartStep, storefrontVars

-----------------------------------------------------------------------------
LEMMA StorefrontInvariant == StorefrontSpec => []SInv
<1>1. StorefrontInit => SInv
  BY StorefrontInitInv
<1>2. SInv /\ [StorefrontNext]_storefrontVars => SInv'
  BY StorefrontStep
<1> QED BY <1>1, <1>2, PTL DEF StorefrontSpec

\* However many sellers, clerks and requests there are, what a suspended seller offers is
\* never quoted (v_sellable_listings looks at the seller, whatever the listing says).
THEOREM SuspendedSellsNothingTheorem == StorefrontSpec => SuspendedSellsNothing
<1>1. SInv /\ [StorefrontNext]_storefrontVars => [QuoteOnSale]_storefrontVars
  BY QuoteStepOnSale
<1> QED BY <1>1, StorefrontInvariant, PTL DEF StorefrontSpec, SuspendedSellsNothing, QuoteOnSale

\* However many carts, items and requests there are, an item that was in the cart or saved
\* is gone only when it was removed or ordered, unless requests overlapped.
THEOREM KeptUnlessOverlappedTheorem == StorefrontSpec => KeptUnlessOverlapped
<1>1. SInv /\ [StorefrontNext]_storefrontVars => [KeptStep]_storefrontVars
  BY StorefrontStep
<1> QED BY <1>1, StorefrontInvariant, PTL DEF StorefrontSpec, KeptUnlessOverlapped, KeptStep
=============================================================================
