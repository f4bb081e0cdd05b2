------------------------------- MODULE OneShot -------------------------------
(***************************************************************************)
(* What an idempotent endpoint promises its callers: however often a       *)
(* request is sent and whichever of its copies gets through, what it asks  *)
(* for is done once, and every answer is the answer of that one time.      *)
(***************************************************************************)
CONSTANTS
  Caller,   \* those who send a request, one for each copy of it
  Body,     \* what may be asked for
  Outcome,  \* what may come of it
  BodyOf,   \* what each caller asks for
  None

VARIABLES
  outcome,  \* what came of a request
  answer    \* what a caller was told

OInit ==
  /\ outcome = [b \in Body |-> None]
  /\ answer = [c \in Caller |-> None]

Perform(b, o) ==
  /\ outcome[b] = None
  /\ \A d \in Body : outcome[d] # o
  /\ outcome' = [outcome EXCEPT ![b] = o]
  /\ UNCHANGED answer

Tell(c) ==
  /\ answer[c] = None
  /\ outcome[BodyOf[c]] # None
  /\ answer' = [answer EXCEPT ![c] = outcome[BodyOf[c]]]
  /\ UNCHANGED outcome

ONext ==
  \/ \E b \in Body, o \in Outcome : Perform(b, o)
  \/ \E c \in Caller : Tell(c)

OSpec == OInit /\ [][ONext]_<<outcome, answer>>
=============================================================================
