------------------------------ MODULE LLMCalls ------------------------------
(***************************************************************************)
(* The calls of the language model behind one question: for its intent,    *)
(* for the SQL of every attempt, and for the wording of the answer.        *)
(*                                                                         *)
(* The first two go through async_generate_structured, which repeats them  *)
(* in rounds, each round being a retried request of tenacity's; the SQL    *)
(* attempts of the query pipeline repeat the whole.  The three loops look  *)
(* at different errors.  The third call is a single request.               *)
(*                                                                         *)
(* A request is one ainvoke of the chat model; what its library repeats    *)
(* inside is not seen here.                                                *)
(***************************************************************************)
EXTENDS Integers

CONSTANT SqlRetryCount    \* settings.SQL_RETRY_COUNT

ASSUME RetryAssumption == SqlRetryCount \in Int

MaxAttempts == IF SqlRetryCount + 1 > 1 THEN SqlRetryCount + 1 ELSE 1

Retries  == 2    \* of a structured call: "retries=2" of both callers
MaxTries == 3    \* of a round: stop_after_attempt(3)

VARIABLES
  caller,      \* "intent", "generate", "rest" of an attempt, "answer" or "over"
  sqlAttempt,  \* number of the SQL attempt
  wrote,       \* the SQL attempt before this one had a statement
  corrected,   \* the record of its failure carries that statement
  round,       \* "attempt" of async_generate_structured
  tries,       \* requests of this round that have failed
  requests,    \* requests sent by this call so far
  total,       \* requests sent for the question
  outage       \* all of them met a rate limit, a timeout or no connection

vars == <<caller, sqlAttempt, wrote, corrected, round, tries, requests, total, outage>>

TypeOK ==
  /\ caller \in {"intent", "generate", "rest", "answer", "over"}
  /\ sqlAttempt \in 0..MaxAttempts
  /\ wrote \in BOOLEAN /\ corrected \in BOOLEAN /\ outage \in BOOLEAN
  /\ round \in 1..(Retries + 1)
  /\ tries \in 0..(MaxTries - 1)
  /\ requests \in Nat /\ total \in Nat

\* The intent of a question is asked for.
Init ==
  /\ caller = "intent" /\ sqlAttempt = 0
  /\ wrote = FALSE /\ corrected = FALSE
  /\ round = 1 /\ tries = 0 /\ requests = 0
  /\ total = 0 /\ outage = TRUE

-----------------------------------------------------------------------------
(***************************************************************************)
(* One structured call.                                                    *)
(***************************************************************************)

Structured == caller \in {"intent", "generate"}

\* A request is sent, and meets a transient error or not.
Send(transient) == total' = total + 1 /\ outage' = (outage /\ transient)

\* The call is over; the next one starts from nothing.
NewCall == round' = 1 /\ tries' = 0 /\ requests' = 0

\* The call goes on.
SameCall == UNCHANGED <<caller, sqlAttempt, wrote, corrected>>

\* The next attempt, or the end: the exception handler of an attempt leaves
\* corrected_sql empty, whether it had a statement or not.
FailAttempt(statement) ==
  /\ IF sqlAttempt = MaxAttempts
     THEN caller' = "over" /\ UNCHANGED sqlAttempt
     ELSE caller' = "generate" /\ sqlAttempt' = sqlAttempt + 1
  /\ wrote' = statement
  /\ corrected' = FALSE

\* With an intent, the LLM's or the one the rules fall back to: a question
\* about the data goes on to SQL.
WithIntent ==
  /\ caller = "intent"
  /\ \/ caller' = "generate" /\ sqlAttempt' = 1
     \/ caller' = "over" /\ UNCHANGED sqlAttempt
  /\ UNCHANGED <<wrote, corrected>>

\* The call returns an instance of the schema.
Return ==
  /\ \/ WithIntent
     \/ caller = "generate" /\ caller' = "rest" /\ UNCHANGED <<sqlAttempt, wrote, corrected>>
  /\ NewCall

\* It raises: a failed SQL attempt, but not a failed question.
Raise ==
  /\ \/ WithIntent
     \/ caller = "generate" /\ FailAttempt(FALSE)
  /\ NewCall

NextRound == round' = round + 1 /\ tries' = 0 /\ SameCall

\* Bug: one round too many.
RoundsLeft_OneMore == round <= Retries + 1

RoundsLeft == round <= Retries

Answered == Structured /\ Return /\ Send(FALSE)

\* Bug: the exhausted tries surface as a RetryError, after which the next
\* round begins.
TriesExhausted_RetryError ==
  IF RoundsLeft THEN NextRound /\ requests' = requests + 1 ELSE Raise

\* With reraise=True tenacity raises the request's own exception, which ends
\* the call: the branch for RetryError is never taken.
TriesExhausted == Raise

\* A rate limit, a timeout or no connection: the request is repeated.
TransientError ==
  /\ Structured
  /\ Send(TRUE)
  /\ IF tries + 1 < MaxTries
     THEN tries' = tries + 1 /\ requests' = requests + 1 /\ UNCHANGED round /\ SameCall
     ELSE TriesExhausted

\* An answer that does not fit the schema starts the next round.
InvalidOutput ==
  /\ Structured
  /\ Send(FALSE)
  /\ IF RoundsLeft THEN NextRound /\ requests' = requests + 1 ELSE Raise

\* Something that is no instance at all, and whose error message bears none
\* of the marks of a retryable one; or any other exception.
OtherError == Structured /\ Raise /\ Send(FALSE)

\* get_chat_model cannot make a model, and none is cached since an earlier
\* request: no request is sent.  The call ends, unless the message speaks of
\* a connection and rounds are left.
NoModel ==
  /\ Structured
  /\ total = 0
  /\ Raise \/ (RoundsLeft /\ NextRound /\ UNCHANGED requests)
  /\ outage' = FALSE
  /\ UNCHANGED total

-----------------------------------------------------------------------------
(***************************************************************************)
(* What surrounds the calls.                                               *)
(***************************************************************************)

\* The rest of an attempt: validation and execution.  Without rows the
\* answer needs no model.
FinishAttempt ==
  /\ caller = "rest"
  /\ \/ caller' \in {"answer", "over"} /\ UNCHANGED <<sqlAttempt, wrote, corrected>>
     \/ FailAttempt(TRUE)
  /\ UNCHANGED <<round, tries, requests, total, outage>>

\* The wording of the answer: whatever comes of the one request, there is an
\* answer.
Word ==
  /\ caller = "answer"
  /\ caller' = "over"
  /\ total' = total + 1
  /\ UNCHANGED <<sqlAttempt, wrote, corrected, round, tries, requests, outage>>

Next == \/ Answered \/ TransientError \/ InvalidOutput \/ OtherError \/ NoModel
        \/ FinishAttempt \/ Word

Spec == Init /\ [][Next]_vars

-----------------------------------------------------------------------------
(***************************************************************************)
(* What holds of the code.                                                 *)
(***************************************************************************)

\* Most requests of one structured call.
CallLimit == MaxTries * (Retries + 1)

\* The three loops never exceed their product, whatever mix of errors they
\* meet: a question costs CallLimit requests for its intent and for each SQL
\* attempt, and one for its answer.
RequestsBounded == requests < CallLimit /\ total <= CallLimit * (MaxAttempts + 1) + 1

\* While the provider is down the loops do not multiply: a question whose
\* requests all meet rate limits, timeouts and lost connections gives up after
\* one round for its intent and one for each SQL attempt.
OutageNotMultiplied == outage => total <= MaxTries * (MaxAttempts + 1)

-----------------------------------------------------------------------------
(***************************************************************************)
(* What the documentation says and the code does not do.                   *)
(***************************************************************************)

\* README: SQL_RETRY_COUNT counts self-correction retries.  The prompt of a
\* retry then has the statement it is to correct.
RetrySeesStatement ==
  caller = "generate" /\ wrote => corrected
=============================================================================
