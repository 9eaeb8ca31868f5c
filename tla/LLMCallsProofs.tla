--------------------------- MODULE LLMCallsProofs ---------------------------
(***************************************************************************)
(* Theorems about LLMCalls.tla, for every SQL_RETRY_COUNT.                 *)
(*                                                                         *)
(* Each bound on the requests of a question follows from an invariant that *)
(* says how many calls lie behind it, and how many requests lie behind the *)
(* round and the try the current call is at.                               *)
(***************************************************************************)
EXTENDS LLMCalls, TLAPS

\* Structured calls that are over, while the question is under way.
CallsDone == IF caller \in {"rest", "answer"} THEN sqlAttempt + 1 ELSE sqlAttempt

\* The SQL attempts begin after the intent.
Ordered ==
  /\ caller = "intent" => sqlAttempt = 0
  /\ caller \in {"generate", "rest", "answer"} => sqlAttempt > 0

\* The requests of the current call, and those of the calls before it.
Spent ==
  /\ requests <= MaxTries * (round - 1) + tries
  /\ caller \in {"rest", "answer"} => requests = 0
  /\ caller # "over" => total <= CallLimit * CallsDone + requests
  /\ caller = "over" => total <= CallLimit * (MaxAttempts + 1) + 1

\* In an outage no call gets beyond its first round.
SpentInOutage ==
  outage =>
    /\ caller \notin {"rest", "answer"}
    /\ caller # "over" => round = 1 /\ total <= MaxTries * sqlAttempt + tries
    /\ caller = "over" => total <= MaxTries * (MaxAttempts + 1)

Ind == TypeOK /\ Ordered /\ Spent /\ SpentInOutage

-----------------------------------------------------------------------------

\* There is at least one attempt.
LEMMA SomeAttempt == MaxAttempts \in Nat /\ MaxAttempts > 0
BY RetryAssumption DEF MaxAttempts

\* The product of the inner loops.
LEMMA Limits == Retries = 2 /\ MaxTries = 3 /\ CallLimit = 9
BY DEF Retries, MaxTries, CallLimit

\* The first state satisfies the invariant.
LEMMA InitInd == Init => Ind
<1> SUFFICES ASSUME Init PROVE Ind
  OBVIOUS
<1> USE SomeAttempt, Limits
<1>1. wrote \in BOOLEAN /\ corrected \in BOOLEAN /\ outage \in BOOLEAN
  BY Zenon DEF Init
<1>2. /\ caller = "intent" /\ sqlAttempt = 0
      /\ round = 1 /\ tries = 0 /\ requests = 0 /\ total = 0
  BY DEF Init
<1>3. TypeOK
  BY <1>1, <1>2 DEF TypeOK
<1> QED
  BY <1>2, <1>3 DEF Ind, Ordered, Spent, SpentInOutage, CallsDone

\* The record of a failed attempt is made of truth values.
LEMMA FailAttemptFlags ==
  ASSUME NEW b \in BOOLEAN, FailAttempt(b)
  PROVE  wrote' \in BOOLEAN /\ corrected' \in BOOLEAN
BY Zenon DEF FailAttempt

\* What ends a call leads to the next one, one call on.
LEMMA EndOfCall ==
  ASSUME Ind, Structured, Return \/ Raise
  PROVE  /\ caller' \in {"generate", "rest", "over"}
         /\ sqlAttempt' \in 0..MaxAttempts
         /\ wrote' \in BOOLEAN /\ corrected' \in BOOLEAN
         /\ round' = 1 /\ tries' = 0 /\ requests' = 0
         /\ caller' \in {"generate", "rest"} => sqlAttempt' > 0
         /\ caller' # "over" => CallsDone' = CallsDone + 1
         /\ caller' = "over" => CallsDone + 1 <= MaxAttempts + 1
<1> USE SomeAttempt DEF Ind, TypeOK, Ordered, Structured, CallsDone, NewCall
<1>1. CASE WithIntent
  BY <1>1 DEF WithIntent, Return, Raise
<1>2. CASE caller = "generate" /\ caller' = "rest" /\ UNCHANGED <<sqlAttempt, wrote, corrected>>
  BY <1>2 DEF Return, Raise
<1>3. CASE caller = "generate" /\ FailAttempt(FALSE)
  <2>1. wrote' \in BOOLEAN /\ corrected' \in BOOLEAN
    BY <1>3, FailAttemptFlags
  <2>2. NewCall
    BY DEF Return, Raise
  <2>3. CASE sqlAttempt = MaxAttempts
    BY <1>3, <2>1, <2>2, <2>3 DEF FailAttempt
  <2>4. CASE sqlAttempt # MaxAttempts
    BY <1>3, <2>1, <2>2, <2>4 DEF FailAttempt
  <2> QED
    BY <2>3, <2>4
<1> QED
  BY <1>1, <1>2, <1>3 DEF Return, Raise

\* A request that ends its call keeps the invariant.
LEMMA LastRequest ==
  ASSUME Ind, Structured, Return \/ Raise, NEW b \in BOOLEAN, Send(b),
         b => Raise
  PROVE  Ind'
<1> USE SomeAttempt, Limits, EndOfCall DEF Ind, Send
<1>1. /\ total \in Nat /\ requests \in Nat /\ tries \in 0..2 /\ round \in 1..3
      /\ sqlAttempt \in 0..MaxAttempts /\ CallsDone = sqlAttempt
  BY DEF TypeOK, Structured, CallsDone
<1>2. total <= 9 * sqlAttempt + 8
  BY <1>1 DEF Spent, Structured
<1>3. total' = total + 1 /\ total' <= 9 * (sqlAttempt + 1)
  BY <1>1, <1>2
<1>4. TypeOK'
  BY <1>1 DEF TypeOK
<1>5. Ordered'
  BY DEF Ordered
<1>6. Spent'
  BY <1>1, <1>3 DEF Spent
<1>7. SpentInOutage'
  <2> SUFFICES ASSUME outage' PROVE SpentInOutage'
    BY DEF SpentInOutage
  <2>1. outage /\ b
    BY DEF TypeOK
  <2>2. total' <= 3 * (sqlAttempt + 1)
    BY <1>1, <1>3, <2>1 DEF SpentInOutage, Structured
  <2>3. caller' # "rest"
    BY <2>1 DEF Raise, WithIntent, FailAttempt
  <2>4. caller' = "generate" => sqlAttempt' = sqlAttempt + 1
    BY <1>1 DEF CallsDone
  <2> QED
    BY <1>1, <2>2, <2>3, <2>4 DEF SpentInOutage
<1> QED
  BY <1>4, <1>5, <1>6, <1>7

\* A request that does not end its call keeps it.
LEMMA OneMoreRequest ==
  ASSUME Ind, Structured, SameCall, requests' = requests + 1, NEW b \in BOOLEAN, Send(b),
         \/ b /\ tries + 1 < MaxTries /\ tries' = tries + 1 /\ UNCHANGED round
         \/ ~b /\ RoundsLeft /\ round' = round + 1 /\ tries' = 0
  PROVE  Ind'
<1> USE SomeAttempt, Limits DEF Ind, SameCall, Structured, Send
<1>1. TypeOK'
  BY DEF TypeOK, RoundsLeft
<1>2. Ordered'
  BY DEF Ordered
<1>3. Spent'
  BY DEF TypeOK, Spent, CallsDone
<1>4. SpentInOutage'
  BY DEF TypeOK, SpentInOutage
<1> QED
  BY <1>1, <1>2, <1>3, <1>4

\* A model that cannot be made costs no request.
LEMMA NoModelInd ==
  ASSUME Ind, NoModel
  PROVE  Ind'
<1> USE SomeAttempt, Limits DEF Ind
<1>1. outage' \in BOOLEAN /\ ~outage'
  BY Zenon DEF NoModel
<1>2. SpentInOutage'
  BY <1>1 DEF SpentInOutage
<1>3. Structured /\ total = 0 /\ total' = 0
  BY DEF NoModel
<1>4. CASE Raise
  <2>1. TypeOK' /\ Ordered'
    BY <1>1, <1>3, <1>4, EndOfCall DEF TypeOK, Ordered
  <2>2. caller' # "over" => CallsDone' \in Nat
    <3>1. sqlAttempt \in Nat /\ CallsDone = sqlAttempt
      BY <1>3 DEF TypeOK, Structured, CallsDone
    <3>2. caller' # "over" => CallsDone' = sqlAttempt + 1
      BY <1>3, <1>4, <3>1, EndOfCall
    <3> QED
      BY <3>1, <3>2
  <2>3. Spent'
    BY <2>2, <1>3, <1>4, EndOfCall DEF Spent
  <2> QED
    BY <1>2, <2>1, <2>3
<1>5. CASE RoundsLeft /\ NextRound /\ UNCHANGED requests
  <2> USE DEF NextRound, SameCall
  <2>1. TypeOK' /\ Ordered'
    BY <1>1, <1>3, <1>5 DEF TypeOK, Ordered, RoundsLeft
  <2>2. Spent'
    BY <1>3, <1>5 DEF TypeOK, Spent, CallsDone, Structured
  <2> QED
    BY <1>2, <2>1, <2>2
<1> QED
  BY <1>4, <1>5 DEF NoModel

\* The rest of an attempt, and the answer.
LEMMA AroundInd ==
  ASSUME Ind, FinishAttempt \/ Word
  PROVE  Ind'
<1> USE SomeAttempt, Limits DEF Ind, TypeOK, Ordered, Spent, SpentInOutage, CallsDone
<1>1. CASE Word
  BY <1>1 DEF Word
<1>2. CASE FinishAttempt
  <2>1. ~outage' /\ total' = total
    BY <1>2 DEF FinishAttempt
  <2>2. CASE caller' \in {"answer", "over"} /\ UNCHANGED <<sqlAttempt, wrote, corrected>>
    BY <1>2, <2>1, <2>2 DEF FinishAttempt
  <2>3. CASE FailAttempt(TRUE)
    <3>1. wrote' \in BOOLEAN /\ corrected' \in BOOLEAN
      BY <2>3, FailAttemptFlags
    <3>2. /\ caller = "rest"
          /\ UNCHANGED <<round, tries, requests, total, outage>>
      BY <1>2 DEF FinishAttempt
    <3>3. CASE sqlAttempt = MaxAttempts
      BY <2>1, <2>3, <3>1, <3>2, <3>3 DEF FailAttempt
    <3>4. CASE sqlAttempt # MaxAttempts
      BY <2>1, <2>3, <3>1, <3>2, <3>4 DEF FailAttempt
    <3> QED
      BY <3>3, <3>4
  <2> QED
    BY <1>2, <2>2, <2>3 DEF FinishAttempt
<1> QED
  BY <1>1, <1>2

\* Every step keeps the invariant.
LEMMA NextInd ==
  ASSUME Ind, [Next]_vars
  PROVE  Ind'
<1>1. CASE UNCHANGED vars
  BY <1>1 DEF vars, Ind, TypeOK, Ordered, Spent, SpentInOutage, CallsDone
<1>2. CASE Answered \/ OtherError
  BY <1>2, LastRequest DEF Answered, OtherError
<1>3. CASE TransientError
  <2>1. CASE tries + 1 < MaxTries
    BY <1>3, <2>1, OneMoreRequest DEF TransientError
  <2>2. CASE ~(tries + 1 < MaxTries)
    BY <1>3, <2>2, LastRequest DEF TransientError, TriesExhausted
  <2> QED
    BY <2>1, <2>2
<1>4. CASE InvalidOutput
  <2>1. CASE RoundsLeft
    BY <1>4, <2>1, OneMoreRequest DEF InvalidOutput, NextRound
  <2>2. CASE ~RoundsLeft
    BY <1>4, <2>2, LastRequest DEF InvalidOutput
  <2> QED
    BY <2>1, <2>2
<1> QED
  BY <1>1, <1>2, <1>3, <1>4, NoModelInd, AroundInd DEF Next

\* The invariant holds in every state of every behaviour.
THEOREM Invariance == Spec => []Ind
BY InitInd, NextInd, PTL DEF Spec

\* Every variable keeps its type: no round, try or SQL attempt beyond its limit.
THEOREM TypeCorrect == Spec => []TypeOK
<1>1. Ind => TypeOK BY DEF Ind
<1> QED BY <1>1, Invariance, PTL

\* A question costs at most CallLimit requests for its intent and for each
\* SQL attempt, and one for its answer, whatever SQL_RETRY_COUNT is.
THEOREM RequestsBoundedHolds == Spec => []RequestsBounded
<1>1. Ind => RequestsBounded
  BY SomeAttempt, Limits DEF Ind, TypeOK, Ordered, Spent, CallsDone, RequestsBounded
<1> QED
  BY <1>1, Invariance, PTL

\* In an outage it costs at most MaxTries requests for each of its calls.
THEOREM OutageNotMultipliedHolds == Spec => []OutageNotMultiplied
<1>1. Ind => OutageNotMultiplied
  BY SomeAttempt, Limits DEF Ind, TypeOK, Ordered, SpentInOutage, OutageNotMultiplied
<1> QED
  BY <1>1, Invariance, PTL
=============================================================================
