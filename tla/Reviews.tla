------------------------------ MODULE Reviews ------------------------------
(***************************************************************************)
(* Reviews of one product by buyers of one seller, the votes and reports   *)
(* on them, the staff's decisions, and the numbers the shop shows instead  *)
(* of counting: the seller's rating, the product's rating summary, the     *)
(* votes and the reports of a review.  Triggers refresh those numbers.     *)
(*                                                                         *)
(* A count is read in the snapshot of its statement and written once the   *)
(* row it belongs to is free, so it may be old when it is written.  Counts *)
(* and averages are functions of what was counted, and ratings never       *)
(* change, so the set of what was counted stands for them.                 *)
(***************************************************************************)
EXTENDS Naturals, FiniteSets

CONSTANTS
  Review,   \* the reviews there may be, each of one customer
  Bought,   \* those about a delivered item, hence about the seller too
  User,     \* who votes and reports
  Request,  \* requests that overlap
  FlagAt,   \* reports that take a review down (3 in the code)
  MaxAsks,  \* bound on the requests of a behaviour
  Nil

\* HIDDEN stands for REJECTED as well; nothing sets DELETED.
Status == {"NONE", "PENDING_MODERATION", "PUBLISHED", "HIDDEN", "FLAGGED"}

ASSUME ReviewsAssumption ==
  Bought \subseteq Review /\ FlagAt \in Nat \ {0} /\ Nil \notin Status

SellerRating  == <<"seller", Nil>>   \* seller.sellers: rating, rating_count
RatingSummary == <<"summary", Nil>>  \* product_rating_summary: average, rating_count
Stars         == <<"stars", Nil>>    \* product_rating_summary: the other counts
Votes(r)      == <<"votes", r>>       \* reviews: helpful_count, not_helpful_count
Reports(r)    == <<"reports", r>>     \* reviews: report_count
Aggregate == {SellerRating, RatingSummary, Stars}
               \cup {Votes(r) : r \in Review} \cup {Reports(r) : r \in Review}

VARIABLES
  status,   \* reviews.status, NONE while there is no such row
  votes,    \* review_votes: who, and whether helpful
  reports,  \* review_reports: who
  shown,    \* what each aggregate counted when it was last written
  req,      \* the open transaction of each request
  asks,     \* requests so far
  behind,   \* history: aggregates whose last refresh another one overtook
  putBack   \* history: reviews the staff published after their last report

reviewsVars == <<status, votes, reports, shown, req, asks, behind, putBack>>

Idle == [step |-> "idle"]

\* What an aggregate counts, of what is committed.
Published == {r \in Review : status[r] = "PUBLISHED"}
Truth(a) ==
  CASE a = SellerRating -> Published \cap Bought
    [] a \in {RatingSummary, Stars} -> Published
    [] a[1] = "votes" -> votes[a[2]]
    [] a[1] = "reports" -> reports[a[2]]

\* The product has its summary row (the first review of all inserts it, and an
\* overlapping one waits for that).
ReviewsInit ==
  /\ status \in [Review -> {"NONE", "PENDING_MODERATION", "PUBLISHED"}]
  /\ votes = [r \in Review |-> {}]
  /\ reports = [r \in Review |-> {}]
  /\ shown = [a \in Aggregate |-> Truth(a)]
  /\ req = [q \in Request |-> Idle]
  /\ asks = 0
  /\ behind = {}
  /\ putBack = {}

-----------------------------------------------------------------------------
(* Row locks: held from the step that takes them to the end of the transaction *)

\* Steps of a request that has written its review, in order; each count is one.
Refreshing == {"seller", "rate", "summary", "stars", "commit"}

\* Writes of r's row wait for each other.
RowFree(r) ==
  \A p \in Request : ~ (req[p].step \in Refreshing /\ req[p].review = r)

\* Inserting a vote or a report shares the key of the review, which FOR UPDATE excludes.
KeyFree(r) ==
  \A p \in Request : ~ (req[p].step # "idle" /\ req[p].review = r /\ req[p].keyShare)

Moderated(r) ==
  \E p \in Request : req[p].step # "idle" /\ req[p].review = r /\ req[p].kind = "moderate"

\* Two requests of one user about one review meet in a unique index.
Alone(kind, r, u) ==
  \A p \in Request :
    ~ (req[p].step # "idle" /\ req[p].kind = kind /\ req[p].review = r /\ req[p].user = u)

\* An open transaction: the status it gives the review, if any, what it has counted so far,
\* and which counts no other has overtaken.
Work(kind, step, r, u, keyShare, to, saw) ==
  [kind |-> kind, step |-> step, review |-> r, user |-> u, keyShare |-> keyShare, to |-> to,
   saw |-> saw, fresh |-> DOMAIN saw]

Begin(q, x) ==
  /\ req[q] = Idle
  /\ asks < MaxAsks
  /\ asks' = asks + 1
  /\ req' = [req EXCEPT ![q] = x]
  /\ UNCHANGED <<status, votes, reports, shown, behind, putBack>>

Only(a, s) == [b \in {a} |-> s]
Nothing == [a \in {} |-> {}]

-----------------------------------------------------------------------------
(* The requests *)

\* create: one review of a product per customer, to be moderated.
Create(q, r) ==
  /\ status[r] = "NONE"
  /\ Alone("create", r, Nil)
  /\ Begin(q, Work("create", "seller", r, Nil, FALSE, "PENDING_MODERATION", Nothing))

\* vote: the row is inserted or changed, then the trigger counts and waits for the review.
Vote(q, r, u, helpful) ==
  /\ status[r] # "NONE"
  /\ Alone("vote", r, u)
  /\ LET old == {v \in votes[r] : v[1] = u}
     IN /\ old = {} => ~ Moderated(r)
        /\ Begin(q, Work("vote", "row", r, u, old = {}, Nil,
                         Only(Votes(r), (votes[r] \ old) \cup {<<u, helpful>>})))

\* report: a second one of the same user does nothing; else the trigger counts.
ReportReview(q, r, u) ==
  /\ status[r] # "NONE"
  /\ u \notin reports[r]
  /\ Alone("report", r, u)
  /\ ~ Moderated(r)
  /\ Begin(q, Work("report", "row", r, u, TRUE, Nil, Only(Reports(r), reports[r] \cup {u})))

\* The report's trigger has the row.  The threshold meets the count it brought, the
\* status is the row's; naming the column is enough to fire the refreshes.
WriteReportCount(q) ==
  /\ req[q].step = "row" /\ req[q].kind = "report"
  /\ LET r == req[q].review
         many == Cardinality(req[q].saw[Reports(r)]) >= FlagAt
     IN /\ RowFree(r)
        /\ req' = [req EXCEPT ![q].step = "seller",
             ![q].to = IF many /\ status[r] = "PUBLISHED" THEN "FLAGGED" ELSE status[r]]
  /\ UNCHANGED <<status, votes, reports, shown, asks, behind, putBack>>

\* Mutant: the refreshes do not fire on an update of the status.
MutModerate(q, r, verdict) ==
  /\ status[r] # "NONE" /\ RowFree(r) /\ KeyFree(r)
  /\ Begin(q, Work("moderate", "commit", r, Nil, FALSE, verdict, Nothing))

\* moderate: locks the review and sets its status, whatever it was.
Moderate(q, r, verdict) ==
  /\ status[r] # "NONE" /\ RowFree(r) /\ KeyFree(r)
  /\ Begin(q, Work("moderate", "seller", r, Nil, FALSE, verdict, Nothing))

-----------------------------------------------------------------------------
(* The refreshes: the seller's trigger runs first, by its name *)

\* What request q sees published: what is committed, and its own change.
Seen(q) == {r \in Review :
  (IF r = req[q].review THEN req[q].to ELSE status[r]) = "PUBLISHED"}

\* q counts s for aggregate a and goes on to step next.
Count(q, a, s, next) ==
  /\ req' = [req EXCEPT ![q].saw = [b \in DOMAIN @ \cup {a} |-> IF b = a THEN s ELSE @[b]],
                        ![q].fresh = @ \cup {a}, ![q].step = next]
  /\ UNCHANGED <<status, votes, reports, shown, asks, behind, putBack>>

CountForSeller(q) ==
  /\ req[q].step = "seller" /\ req[q].review \in Bought
  /\ Count(q, SellerRating, Seen(q) \cap Bought, "rate")

\* Then it waits for the seller's row, and keeps it.
WriteSellerRating(q) ==
  /\ req[q].step = "rate"
  /\ \A p \in Request \ {q} : ~ (/\ req[p].step \in {"summary", "stars", "commit"}
                                 /\ SellerRating \in DOMAIN req[p].saw)
  /\ req' = [req EXCEPT ![q].step = "summary"]
  /\ UNCHANGED <<status, votes, reports, shown, asks, behind, putBack>>

\* The average and its count first, the rest in the statement that writes them all.
CountForSummary(q) ==
  /\ \/ req[q].step = "summary"
     \/ req[q].step = "seller" /\ req[q].review \notin Bought
  /\ Count(q, RatingSummary, Seen(q), "stars")

CountStars(q) ==
  /\ req[q].step = "stars"
  /\ Count(q, Stars, Seen(q), "commit")

\* The last write and the commit; a vote has only this one.  Nothing of the request was
\* visible before, so the write needs no step of its own.
Commit(q) ==
  /\ \/ req[q].step = "commit"
     \/ req[q].step = "row" /\ req[q].kind = "vote" /\ RowFree(req[q].review)
  /\ LET x == req[q]
         r == x.review
         done == DOMAIN x.saw
     IN /\ status' = IF x.to = Nil THEN status ELSE [status EXCEPT ![r] = x.to]
        /\ votes' = IF x.kind # "vote" THEN votes
                    ELSE [votes EXCEPT ![r] =
                            {v \in @ : v[1] # x.user}
                              \cup {v \in x.saw[Votes(r)] : v[1] = x.user}]
        /\ reports' = IF x.kind # "report" THEN reports
                      ELSE [reports EXCEPT ![r] = @ \cup {x.user}]
        /\ shown' = [a \in Aggregate |-> IF a \in done THEN x.saw[a] ELSE shown[a]]
        /\ behind' = (behind \ done) \cup (done \ x.fresh)
        /\ putBack' = CASE x.kind = "report" -> putBack \ {r}
                        [] x.kind = "moderate" /\ x.to = "PUBLISHED" -> putBack \cup {r}
                        [] OTHER -> putBack
        /\ req' = [p \in Request |->
             CASE p = q -> Idle
               [] req[p].step = "idle" -> Idle
               [] OTHER -> [req[p] EXCEPT !.fresh = @ \ done]]
  /\ UNCHANGED asks

\* A request fails or is chosen to end a deadlock: its transaction is rolled back.
RollBack(q) ==
  /\ req[q].step # "idle"
  /\ req' = [req EXCEPT ![q] = Idle]
  /\ UNCHANGED <<status, votes, reports, shown, asks, behind, putBack>>

ReviewsNext == \E q \in Request :
  \/ \E r \in Review : Create(q, r)
  \/ \E r \in Review, u \in User, helpful \in BOOLEAN : Vote(q, r, u, helpful)
  \/ \E r \in Review, u \in User : ReportReview(q, r, u)
  \/ \E r \in Review, verdict \in {"PUBLISHED", "HIDDEN"} : Moderate(q, r, verdict)
  \/ WriteReportCount(q) \/ CountForSeller(q) \/ WriteSellerRating(q)
  \/ CountForSummary(q) \/ CountStars(q) \/ Commit(q) \/ RollBack(q)

ReviewsSpec == ReviewsInit /\ [][ReviewsNext]_reviewsVars

-----------------------------------------------------------------------------
(* Properties *)

\* Enough reports have taken a review down, unless the staff has put it back since
\* (commerce_social.sql:211).
Pulled(r) ==
  Cardinality(reports[r]) >= FlagAt /\ r \notin putBack => status[r] # "PUBLISHED"

\* What the shop shows is what there is, and a review with enough reports is down,
\* except where the last refresh was overtaken by another between its count and its
\* commit: every change that counts is followed by a refresh of all it counts in, and a
\* refresh that overlaps no other repairs what an earlier one left behind.
ShownIsTrue ==
  /\ \A a \in Aggregate \ behind : shown[a] = Truth(a)
  /\ \A r \in Review : Reports(r) \notin behind => Pulled(r)

\* "Enough credible reports pull the review for human review automatically"; violated by
\* two reports that count without each other.
PulledByReports == \A r \in Review : Pulled(r)
=============================================================================
