------------------------ MODULE QueryPipelineProofs ------------------------
(***************************************************************************)
(* Theorems about QueryPipeline.tla, for every number of questions, every  *)
(* set of tables, every retry count and every row cap.                     *)
(*                                                                         *)
(* The inductive invariant Ind adds to the types, for every question and   *)
(* by the call it is in: how many attempts and retries there are, that the *)
(* statement at hand bears names of the map in memory, and what the        *)
(* rows in hand say about the rows the statement has.                      *)
(***************************************************************************)
EXTENDS QueryPipeline, TLAPS

Preparing == {"idle", "version", "map", "tables", "joins", "retrieve", "intent"}
Attempting == {"generate", "validate", "config", "open", "guard", "execute",
               "close", "respond"}

\* The attempts and retries of question q.
Counted(q) ==
  /\ stage[q] \in Preparing => attempt[q] = 0 /\ retries[q] = 0
  /\ stage[q] \in Attempting => attempt[q] > 0 /\ retries[q] = attempt[q] - 1
  /\ outcome[q] = "none" <=> stage[q] # "done"
  /\ outcome[q] = "answered" => attempt[q] > 0 /\ retries[q] = attempt[q] - 1
  /\ outcome[q] = "failed" /\ attempt[q] > 0 => retries[q] = MaxAttempts
  /\ outcome[q] = "failed" /\ attempt[q] = 0 => retries[q] = 0

\* The tables of question q: retrieved and named ones are the map's.
Mapped(q) ==
  /\ stage[q] \in {"intent"} \cup Attempting => relevant[q] \subseteq kmap[q]
  /\ stage[q] \in Accepted \/ outcome[q] = "answered" => CoveredBy(valid[q], kmap[q])

\* The rows r are all the rows of statement s, or are flagged.
Faithful(r, s) == r.truncated \/ r.rows = Yield(s, r.matching)

\* The engine and the rows of question q.
Running(q) ==
  /\ engine[q] => stage[q] \in OnTarget
  /\ stage[q] \notin {"close", "respond", "done"} => result[q] = NoResult
  /\ stage[q] = "close" => result[q] = NoResult \/ Faithful(result[q], valid[q])
  /\ stage[q] = "respond" => result[q] \in Result /\ Faithful(result[q], valid[q])
  /\ outcome[q] = "answered" => /\ result[q] \in Result
                               /\ result[q].rows <= MaxQueryRows
                               /\ Faithful(result[q], valid[q])

Sound(q) == Counted(q) /\ Mapped(q) /\ Running(q)

Ind == TypeOK /\ \A q \in Question : Sound(q)

-----------------------------------------------------------------------------
(***************************************************************************)
(* Lemmas about the operators.                                             *)
(***************************************************************************)

\* There is at least one attempt.
LEMMA SomeAttempt == MaxAttempts \in Nat /\ MaxAttempts > 0
BY SettingsAssumption DEF MaxAttempts

\* What executing a statement returns is a result, all of the statement's
\* rows or flagged: the sentinel row tells a full result from a cut one.
LEMMA FetchedFaithful ==
  ASSUME NEW s \in Statement \cup {NoStatement}, NEW n \in Nat
  PROVE  /\ Fetched(s, n) \in Result
         /\ Fetched(s, n) # NoResult
         /\ Faithful(Fetched(s, n), s)
<1> DEFINE sent == IF Limited(s) /\ s.form # "union" THEN [s EXCEPT !.limit = SentinelLimit] ELSE s
           got  == Yield(sent, n)
           cut  == Limited(s) /\ got > MaxQueryRows
<1>0. MaxQueryRows \in Nat /\ s.limit \in Nat
  <2>1. CASE s \in Statement
    <3>1. s.limit \in Limits \cup {0, MaxQueryRows}
      BY <2>1 DEF Statement
    <3>2. Limits \subseteq Nat /\ MaxQueryRows \in Nat
      BY SettingsAssumption
    <3>3. \A x \in Limits \cup {0, MaxQueryRows} : x \in Nat
      BY <3>2
    <3> HIDE DEF sent, got, cut
    <3> QED
      BY <3>1, <3>2, <3>3, Zenon
  <2>2. CASE s = NoStatement
    BY <2>2, SettingsAssumption DEF NoStatement
  <2> QED
    BY <2>1, <2>2
<1>1. Fetched(s, n) = [rows |-> IF cut THEN MaxQueryRows ELSE got, truncated |-> cut, matching |-> n]
  BY DEF Fetched
<1>2. sent.limit = IF Limited(s) /\ s.form # "union" THEN MaxQueryRows + 1 ELSE s.limit
  BY DEF Statement, NoStatement, SentinelLimit
<1>3. got = IF sent.limit # 0 /\ sent.limit < n THEN sent.limit ELSE n
  BY DEF Yield
<1>4. Yield(s, n) = IF s.limit # 0 /\ s.limit < n THEN s.limit ELSE n
  BY DEF Yield
<1>5. got \in Nat /\ cut \in BOOLEAN
  BY <1>0, <1>2, <1>3
<1>6. Limited(s) => s.limit = 0
  BY DEF Limited, HasLimit
<1>7. ~cut => got = Yield(s, n)
  BY <1>0, <1>2, <1>3, <1>4, <1>6
<1> HIDE DEF sent, got, cut
<1> QED
  BY <1>0, <1>1, <1>5, <1>7 DEF Result, NoResult, Faithful

-----------------------------------------------------------------------------
(***************************************************************************)
(* The inductive invariant.                                                *)
(***************************************************************************)

\* The first state satisfies the inductive invariant.
LEMMA InitInd == Init => Ind
<1> SUFFICES ASSUME Init PROVE Ind
  OBVIOUS
<1>1. TypeOK
  <2>1. 0 \in 0..MaxAttempts
    BY SomeAttempt
  <2>2. /\ attempt \in [Question -> 0..MaxAttempts]
        /\ retries \in [Question -> 0..MaxAttempts]
    BY <2>1 DEF Init
  <2>3. /\ plan \in [Question -> Statement \cup {NoStatement}]
        /\ valid \in [Question -> Statement \cup {NoStatement}]
        /\ result \in [Question -> Result \cup {NoResult}]
    BY DEF Init
  <2> QED
    BY <2>2, <2>3 DEF Init, TypeOK, Stages, Outcomes
<1>2. ASSUME NEW q \in Question PROVE Sound(q)
  <2>1. /\ stage[q] = "idle" /\ outcome[q] = "none" /\ attempt[q] = 0 /\ retries[q] = 0
        /\ engine[q] = FALSE /\ result[q] = NoResult
    BY DEF Init
  <2> QED
    BY <2>1 DEF Sound, Counted, Mapped, Running, Preparing, Attempting, Accepted
<1> QED
  BY <1>1, <1>2 DEF Ind

\* A question a step does not touch stays sound.
LEMMA Others ==
  ASSUME NEW q \in Question, Sound(q),
         mode'[q] = mode[q], kmap'[q] = kmap[q], joins'[q] = joins[q],
         relevant'[q] = relevant[q], attempt'[q] = attempt[q], retries'[q] = retries[q],
         plan'[q] = plan[q], valid'[q] = valid[q], config'[q] = config[q],
         engine'[q] = engine[q], tx'[q] = tx[q], result'[q] = result[q],
         stage'[q] = stage[q], outcome'[q] = outcome[q]
  PROVE  Sound(q)'
BY DEF Sound, Counted, Mapped, Running, Faithful, Yield

\* What a request in an attempt has.
LEMMA InAttempt ==
  ASSUME Ind, NEW q \in Question, stage[q] \in Attempting
  PROVE  /\ attempt[q] \in 1..MaxAttempts
         /\ retries[q] = attempt[q] - 1
         /\ outcome[q] = "none"
         /\ relevant[q] \subseteq kmap[q]
         /\ stage[q] \in Accepted => CoveredBy(valid[q], kmap[q])
BY SomeAttempt DEF Ind, TypeOK, Sound, Counted, Mapped, Attempting

\* An attempt that goes on leaves the counts alone.
LEMMA AdvanceSound ==
  ASSUME Ind, NEW q \in Question, NEW s \in Attempting, stage[q] \in Attempting,
         Advance(q, s), UNCHANGED mapVars,
         s \in Accepted => CoveredBy(valid'[q], kmap[q]),
         Running(q)'
  PROVE  /\ stage' \in [Question -> Stages] /\ outcome' \in [Question -> Outcomes]
         /\ attempt' \in [Question -> 0..MaxAttempts]
         /\ retries' \in [Question -> 0..MaxAttempts]
         /\ Sound(q)'
<1>1. /\ stage' = [stage EXCEPT ![q] = s] /\ outcome' = outcome
      /\ attempt' = attempt /\ retries' = retries
      /\ kmap' = kmap /\ relevant' = relevant
  BY DEF Advance, Goto, mapVars
<1>2. stage \in [Question -> Stages] /\ s \in Stages /\ s # "done"
  BY DEF Ind, TypeOK, Attempting, Stages
<1>3. stage'[q] = s
  BY <1>1, <1>2
<1>4. Counted(q)'
  BY <1>1, <1>2, <1>3, InAttempt, SomeAttempt DEF Counted, Preparing, Attempting
<1>5. Mapped(q)'
  BY <1>1, <1>3, InAttempt DEF Mapped, Ind, Sound
<1> QED
  BY <1>1, <1>2, <1>4, <1>5 DEF Ind, TypeOK, Sound

\* An attempt that fails is counted, and followed by another one or by the end.
LEMMA FailSound ==
  ASSUME Ind, NEW q \in Question, stage[q] \in Attempting,
         FailAttempt(q), UNCHANGED mapVars,
         engine'[q] = FALSE, result'[q] = NoResult
  PROVE  /\ stage' \in [Question -> Stages] /\ outcome' \in [Question -> Outcomes]
         /\ attempt' \in [Question -> 0..MaxAttempts]
         /\ retries' \in [Question -> 0..MaxAttempts]
         /\ \A p \in Question \ {q} :
              /\ stage'[p] = stage[p] /\ outcome'[p] = outcome[p]
              /\ attempt'[p] = attempt[p] /\ retries'[p] = retries[p]
         /\ Sound(q)'
<1> USE SomeAttempt
<1>1. /\ stage \in [Question -> Stages] /\ outcome \in [Question -> Outcomes]
      /\ attempt \in [Question -> 0..MaxAttempts] /\ retries \in [Question -> 0..MaxAttempts]
  BY DEF Ind, TypeOK
<1>2. /\ attempt[q] \in 1..MaxAttempts /\ retries[q] = attempt[q] - 1
      /\ outcome[q] = "none" /\ relevant[q] \subseteq kmap[q]
  BY InAttempt
<1>3. retries' = [retries EXCEPT ![q] = retries[q] + 1]
  BY DEF FailAttempt
<1>4. relevant'[q] \subseteq kmap'[q]
  BY <1>2 DEF mapVars
<1>5. CASE LastAttempt(q)
  <2>1. /\ stage' = [stage EXCEPT ![q] = "done"] /\ outcome' = [outcome EXCEPT ![q] = "failed"]
        /\ attempt' = attempt
    BY <1>5 DEF FailAttempt, End
  <2>2. attempt[q] = MaxAttempts
    BY <1>2, <1>5 DEF LastAttempt
  <2>3. /\ stage'[q] = "done" /\ outcome'[q] = "failed" /\ attempt'[q] = MaxAttempts
        /\ retries'[q] = MaxAttempts
    BY <1>1, <1>2, <1>3, <2>1, <2>2
  <2>4. Counted(q)'
    BY <2>3 DEF Counted, Preparing, Attempting
  <2>5. Mapped(q)' /\ Running(q)'
    BY <1>4, <2>3 DEF Mapped, Running, Attempting, Accepted
  <2> QED
    BY <1>1, <1>2, <1>3, <2>1, <2>4, <2>5 DEF Sound, Stages, Outcomes
<1>6. CASE ~LastAttempt(q)
  <2>1. /\ stage' = [stage EXCEPT ![q] = "generate"] /\ outcome' = outcome
        /\ attempt' = [attempt EXCEPT ![q] = attempt[q] + 1]
    BY <1>6 DEF FailAttempt, Goto
  <2>2. attempt[q] < MaxAttempts
    BY <1>2, <1>6 DEF LastAttempt
  <2>3. /\ stage'[q] = "generate" /\ outcome'[q] = "none" /\ attempt'[q] = attempt[q] + 1
        /\ retries'[q] = attempt[q]
    BY <1>1, <1>2, <1>3, <2>1
  <2>4. Counted(q)'
    BY <1>2, <2>3 DEF Counted, Preparing, Attempting
  <2>5. Mapped(q)' /\ Running(q)'
    BY <1>4, <2>3 DEF Mapped, Running, Attempting, Accepted
  <2> QED
    BY <1>1, <1>2, <1>3, <2>1, <2>2, <2>4, <2>5 DEF Sound, Stages, Outcomes
<1> QED
  BY <1>5, <1>6

\* A request comes in.
LEMMA AskInd ==
  ASSUME Ind, NEW q \in Question, Ask(q)
  PROVE  Ind'
<1> USE DEF Ind, Ask, Goto, End, dbVars, mapVars, sqlVars, runVars
<1>1. TypeOK'
  BY DEF TypeOK, Stages, Outcomes, Sound, Counted
<1>2. \A p \in Question \ {q} : Sound(p)'
  BY Others DEF TypeOK
<1>3. Counted(q)'
  BY DEF TypeOK, Sound, Counted, Preparing, Attempting
<1>4. Mapped(q)'
  BY DEF TypeOK, Sound, Counted, Mapped, Attempting, Accepted
<1>5. Running(q)'
  BY DEF TypeOK, Sound, Counted, Running, OnTarget, Faithful, Yield
<1> QED
  BY <1>1, <1>2, <1>3, <1>4, <1>5 DEF Sound

\* Loading the map starts no attempt.
LEMMA FindVersionInd ==
  ASSUME Ind, NEW q \in Question, FindVersion(q)
  PROVE  Ind'
<1> USE DEF Ind, FindVersion, Goto, End, dbVars, mapVars, sqlVars, runVars
<1>1. TypeOK'
  BY DEF TypeOK, Stages, Outcomes, Sound, Counted
<1>2. \A p \in Question \ {q} : Sound(p)'
  BY Others DEF TypeOK
<1>3. Counted(q)'
  BY DEF TypeOK, Sound, Counted, Preparing, Attempting
<1>4. Mapped(q)'
  BY DEF TypeOK, Sound, Counted, Mapped, Attempting, Accepted
<1>5. Running(q)'
  BY DEF TypeOK, Sound, Counted, Running, OnTarget, Faithful, Yield
<1> QED
  BY <1>1, <1>2, <1>3, <1>4, <1>5 DEF Sound

\* Loading the map starts no attempt.
LEMMA ReadVersionInd ==
  ASSUME Ind, NEW q \in Question, ReadVersion(q)
  PROVE  Ind'
<1> USE DEF Ind, ReadVersion, Goto, End, dbVars, mapVars, sqlVars, runVars
<1>1. TypeOK'
  BY DEF TypeOK, Stages, Outcomes, Sound, Counted
<1>2. \A p \in Question \ {q} : Sound(p)'
  BY Others DEF TypeOK
<1>3. Counted(q)'
  BY DEF TypeOK, Sound, Counted, Preparing, Attempting
<1>4. Mapped(q)'
  BY DEF TypeOK, Sound, Counted, Mapped, Attempting, Accepted
<1>5. Running(q)'
  BY DEF TypeOK, Sound, Counted, Running, OnTarget, Faithful, Yield
<1> QED
  BY <1>1, <1>2, <1>3, <1>4, <1>5 DEF Sound

\* The map changes only before anything refers to it.
LEMMA ReadTablesInd ==
  ASSUME Ind, NEW q \in Question, ReadTables(q)
  PROVE  Ind'
<1> USE DEF Ind, ReadTables, Goto, End, dbVars, mapVars, sqlVars, runVars
<1>1. TypeOK'
  BY DEF TypeOK, Stages, Outcomes, Sound, Counted
<1>2. \A p \in Question \ {q} : Sound(p)'
  BY Others DEF TypeOK
<1>3. Counted(q)'
  BY DEF TypeOK, Sound, Counted, Preparing, Attempting
<1>4. Mapped(q)'
  BY DEF TypeOK, Sound, Counted, Mapped, Attempting, Accepted
<1>5. Running(q)'
  BY DEF TypeOK, Sound, Counted, Running, OnTarget, Faithful, Yield
<1> QED
  BY <1>1, <1>2, <1>3, <1>4, <1>5 DEF Sound

\* Loading the map starts no attempt.
LEMMA ReadJoinsInd ==
  ASSUME Ind, NEW q \in Question, ReadJoins(q)
  PROVE  Ind'
<1> USE DEF Ind, ReadJoins, Goto, End, dbVars, mapVars, sqlVars, runVars
<1>1. TypeOK'
  BY DEF TypeOK, Stages, Outcomes, Sound, Counted
<1>2. \A p \in Question \ {q} : Sound(p)'
  BY Others DEF TypeOK
<1>3. Counted(q)'
  BY DEF TypeOK, Sound, Counted, Preparing, Attempting
<1>4. Mapped(q)'
  BY DEF TypeOK, Sound, Counted, Mapped, Attempting, Accepted
<1>5. Running(q)'
  BY DEF TypeOK, Sound, Counted, Running, OnTarget, Faithful, Yield
<1> QED
  BY <1>1, <1>2, <1>3, <1>4, <1>5 DEF Sound

\* What is retrieved is part of the map.
LEMMA RetrieveInd ==
  ASSUME Ind, NEW q \in Question, Retrieve(q)
  PROVE  Ind'
<1> USE DEF Ind, Retrieve, Goto, End, dbVars, mapVars, sqlVars, runVars
<1>1. TypeOK'
  BY DEF TypeOK, Stages, Outcomes, Sound, Counted
<1>2. \A p \in Question \ {q} : Sound(p)'
  BY Others DEF TypeOK
<1>3. Counted(q)'
  BY DEF TypeOK, Sound, Counted, Preparing, Attempting
<1>4. Mapped(q)'
  BY DEF TypeOK, Sound, Counted, Mapped, Attempting, Accepted
<1>5. Running(q)'
  BY DEF TypeOK, Sound, Counted, Running, OnTarget, Faithful, Yield
<1> QED
  BY <1>1, <1>2, <1>3, <1>4, <1>5 DEF Sound

\* The first attempt starts.
LEMMA DetectIntentInd ==
  ASSUME Ind, NEW q \in Question, DetectIntent(q)
  PROVE  Ind'
<1> USE SomeAttempt DEF Ind, DetectIntent, Goto, End, dbVars, mapVars, sqlVars, runVars
<1>1. TypeOK'
  BY DEF TypeOK, Stages, Outcomes, Sound, Counted
<1>2. \A p \in Question \ {q} : Sound(p)'
  BY Others DEF TypeOK
<1>3. Counted(q)'
  BY DEF TypeOK, Sound, Counted, Preparing, Attempting
<1>4. Mapped(q)'
  BY DEF TypeOK, Sound, Counted, Mapped, Attempting, Accepted
<1>5. Running(q)'
  BY DEF TypeOK, Sound, Counted, Running, OnTarget, Faithful, Yield
<1> QED
  BY <1>1, <1>2, <1>3, <1>4, <1>5 DEF Sound

\* A statement is generated, or the attempt fails.
LEMMA GenerateInd ==
  ASSUME Ind, NEW q \in Question, Generate(q)
  PROVE  Ind'
<1> USE DEF dbVars, mapVars, runVars
<1>1. /\ stage[q] = "generate" /\ stage[q] \in Attempting /\ outcome[q] = "none"
      /\ engine'[q] = FALSE /\ result'[q] = NoResult
  BY DEF Generate, Ind, TypeOK, Sound, Running, Counted, Attempting, OnTarget
<1>2. plan' \in [Question -> Statement \cup {NoStatement}]
  <2>1. \A ts \in SUBSET Table, cs \in SUBSET CteName, f \in Forms, n \in Limits \cup {0} :
          LET s == [tables |-> ts, ctes |-> cs, form |-> f, limit |-> n, added |-> FALSE]
          IN  /\ s \in Statement
              /\ [s EXCEPT !.limit = MaxQueryRows, !.added = TRUE] \in Statement
    BY DEF Statement
  <2>2. plan \in [Question -> Statement \cup {NoStatement}]
    BY DEF Ind, TypeOK
  <2>3. ASSUME NEW ts \in SUBSET Table, NEW cs \in SUBSET CteName, NEW f \in Forms, NEW n \in Limits \cup {0},
               NEW hinted \in BOOLEAN, NEW s,
               s = [tables |-> ts, ctes |-> cs, form |-> f, limit |-> n, added |-> FALSE],
               plan' = [plan EXCEPT ![q] =
                          IF hinted /\ ~HasLimit(s)
                          THEN [s EXCEPT !.limit = MaxQueryRows, !.added = TRUE] ELSE s]
        PROVE  plan' \in [Question -> Statement \cup {NoStatement}]
    <3>1. s \in Statement /\ [s EXCEPT !.limit = MaxQueryRows, !.added = TRUE] \in Statement
      BY <2>1, <2>3
    <3> QED
      BY <2>2, <2>3, <3>1
  <2> QED
    BY <2>2, <2>3 DEF Generate
<1>3. CASE Advance(q, "validate")
  <2>1. Running(q)'
    BY <1>1, <1>3 DEF Running, Advance, Goto, Ind, TypeOK
  <2>2. /\ stage' \in [Question -> Stages] /\ outcome' \in [Question -> Outcomes]
        /\ attempt' \in [Question -> 0..MaxAttempts]
        /\ retries' \in [Question -> 0..MaxAttempts]
        /\ Sound(q)'
    BY <1>1, <1>3, <2>1, AdvanceSound DEF Generate, Attempting, Accepted
  <2> QED
    BY <1>2, <1>3, <2>2, Others DEF Generate, Advance, Goto, Ind, TypeOK
<1>4. CASE FailAttempt(q)
  BY <1>1, <1>2, <1>4, FailSound, Others DEF Generate, Ind, TypeOK
<1> QED
  BY <1>3, <1>4 DEF Generate

\* An accepted statement is covered by the map, but for what is exempt.
LEMMA ValidateInd ==
  ASSUME Ind, NEW q \in Question, Validate(q)
  PROVE  Ind'
<1> USE DEF dbVars, mapVars, runVars
<1>1. /\ stage[q] = "validate" /\ stage[q] \in Attempting /\ outcome[q] = "none"
      /\ engine[q] = FALSE /\ result[q] = NoResult
  BY DEF Validate, Ind, TypeOK, Sound, Running, Counted, Attempting, OnTarget
<1>2. valid' \in [Question -> Statement \cup {NoStatement}]
  BY DEF Validate, Ind, TypeOK
<1>3. ASSUME Acceptable(q), valid' = [valid EXCEPT ![q] = plan[q]], NEW s \in {"open", "config"},
             Advance(q, s)
      PROVE  Ind'
  <2>1. Running(q)'
    BY <1>1, <1>3 DEF Validate, Running, Advance, Goto, OnTarget, Ind, TypeOK
  <2>2. CoveredBy(valid'[q], kmap[q])
    <3>1. relevant[q] \subseteq kmap[q] /\ plan[q].tables \subseteq Table
      BY <1>1, InAttempt DEF Ind, TypeOK, Statement, NoStatement
    <3>2. valid'[q] = plan[q]
      BY <1>3 DEF Ind, TypeOK
    <3>3. AllowedSchemas(q) \subseteq SchemasOf(kmap[q]) /\ Allowed(q) \subseteq kmap[q]
      BY <3>1 DEF AllowedSchemas, Allowed, SchemasOf
    <3>4. ASSUME NEW t \in plan[q].tables, t \notin Namesakes(kmap[q])
          PROVE  \/ SchemaOf[t] \in SystemSchemas
                 \/ SchemaOf[t] \in SchemasOf(kmap[q]) /\ NameOf[t] \in SystemNames \cup plan[q].ctes
      <4>1. MayName(q, plan[q], t) /\ t \in Table
        BY <1>3, <3>1 DEF Acceptable
      <4>2. SchemaOf[t] \in SchemasOf(kmap[q]) \cup SystemSchemas
        BY <3>3, <4>1 DEF MayName, SchemasOf
      <4> QED BY <3>3, <3>4, <4>1, <4>2 DEF MayName, Exempt, Namesakes
    <3> QED
      BY <3>2, <3>4 DEF CoveredBy
  <2>3. /\ stage' \in [Question -> Stages] /\ outcome' \in [Question -> Outcomes]
        /\ attempt' \in [Question -> 0..MaxAttempts]
        /\ retries' \in [Question -> 0..MaxAttempts]
        /\ Sound(q)'
    BY <1>1, <1>3, <2>1, <2>2, AdvanceSound DEF Validate, Attempting
  <2> QED
    BY <1>2, <1>3, <2>3, Others DEF Validate, Advance, Goto, Ind, TypeOK
<1>4. ASSUME FailAttempt(q), engine'[q] = FALSE
      PROVE  Ind'
  BY <1>1, <1>2, <1>4, FailSound, Others DEF Validate, Ind, TypeOK
<1> QED
  BY <1>1, <1>3, <1>4 DEF Validate

\* The configuration is loaded, or the attempt fails.
LEMMA LoadConfigInd ==
  ASSUME Ind, NEW q \in Question, LoadConfig(q)
  PROVE  Ind'
<1> USE DEF dbVars, mapVars, runVars
<1>1. /\ stage[q] = "config" /\ stage[q] \in Attempting /\ outcome[q] = "none"
      /\ engine[q] = FALSE /\ result[q] = NoResult
  BY DEF LoadConfig, Ind, TypeOK, Sound, Running, Counted, Attempting, OnTarget
<1>2. config' \in [Question -> BOOLEAN]
  BY DEF LoadConfig, Ind, TypeOK
<1>3. ASSUME Advance(q, "open")
      PROVE  Ind'
  <2>1. Running(q)'
    BY <1>1, <1>3 DEF LoadConfig, Running, Advance, Goto, OnTarget, Ind, TypeOK
  <2>2. CoveredBy(valid'[q], kmap[q])
    BY <1>1, InAttempt DEF LoadConfig, Accepted, Ind, TypeOK
  <2>3. /\ stage' \in [Question -> Stages] /\ outcome' \in [Question -> Outcomes]
        /\ attempt' \in [Question -> 0..MaxAttempts]
        /\ retries' \in [Question -> 0..MaxAttempts]
        /\ Sound(q)'
    BY <1>1, <1>3, <2>1, <2>2, AdvanceSound DEF LoadConfig, Attempting
  <2> QED
    BY <1>2, <1>3, <2>3, Others DEF LoadConfig, Advance, Goto, Ind, TypeOK
<1>4. ASSUME FailAttempt(q), engine'[q] = FALSE
      PROVE  Ind'
  BY <1>1, <1>2, <1>4, FailSound, Others DEF LoadConfig, Ind, TypeOK
<1> QED
  BY <1>1, <1>3, <1>4 DEF LoadConfig

\* An engine opens, or the attempt fails.
LEMMA OpenEngineInd ==
  ASSUME Ind, NEW q \in Question, OpenEngine(q)
  PROVE  Ind'
<1> USE DEF dbVars, mapVars
<1>1. /\ stage[q] = "open" /\ stage[q] \in Attempting /\ outcome[q] = "none"
      /\ engine[q] = FALSE /\ result[q] = NoResult
  BY DEF OpenEngine, Ind, TypeOK, Sound, Running, Counted, Attempting, OnTarget
<1>2. engine' \in [Question -> BOOLEAN]
  BY DEF OpenEngine, Ind, TypeOK
<1>3. ASSUME Advance(q, "guard")
      PROVE  Ind'
  <2>1. Running(q)'
    BY <1>1, <1>3 DEF OpenEngine, Running, Advance, Goto, OnTarget, Ind, TypeOK
  <2>2. CoveredBy(valid'[q], kmap[q])
    BY <1>1, InAttempt DEF OpenEngine, Accepted, Ind, TypeOK
  <2>3. /\ stage' \in [Question -> Stages] /\ outcome' \in [Question -> Outcomes]
        /\ attempt' \in [Question -> 0..MaxAttempts]
        /\ retries' \in [Question -> 0..MaxAttempts]
        /\ Sound(q)'
    BY <1>1, <1>3, <2>1, <2>2, AdvanceSound DEF OpenEngine, Attempting
  <2> QED
    BY <1>2, <1>3, <2>3, Others DEF OpenEngine, Advance, Goto, Ind, TypeOK
<1>4. ASSUME FailAttempt(q), engine'[q] = FALSE
      PROVE  Ind'
  BY <1>1, <1>2, <1>4, FailSound, Others DEF OpenEngine, Ind, TypeOK
<1> QED
  BY <1>1, <1>3, <1>4 DEF OpenEngine

\* The session is prepared.
LEMMA GuardSessionInd ==
  ASSUME Ind, NEW q \in Question, GuardSession(q)
  PROVE  Ind'
<1> USE DEF GuardSession, dbVars, mapVars
<1>1. stage[q] = "guard" /\ stage[q] \in Attempting /\ result[q] = NoResult
  BY DEF Ind, Sound, Running, Attempting
<1>2. tx' \in [Question -> {"none", "read_only", "read_write", "aborted"}]
  BY DEF Ind, TypeOK
<1>3. Running(q)'
  BY <1>1 DEF Running, Advance, Goto, OnTarget, Ind, TypeOK, Sound, Counted
<1>4. CoveredBy(valid'[q], kmap[q])
  BY <1>1, InAttempt DEF Accepted
<1>5. /\ stage' \in [Question -> Stages] /\ outcome' \in [Question -> Outcomes]
      /\ attempt' \in [Question -> 0..MaxAttempts]
      /\ retries' \in [Question -> 0..MaxAttempts]
      /\ Sound(q)'
  BY <1>1, <1>3, <1>4, AdvanceSound DEF Attempting
<1> QED
  BY <1>2, <1>5, Others DEF Advance, Goto, Ind, TypeOK

\* What a statement returns is faithful.
LEMMA ExecuteInd ==
  ASSUME Ind, NEW q \in Question, Execute(q)
  PROVE  Ind'
<1> USE DEF Execute, dbVars, mapVars
<1>1. /\ stage[q] = "execute" /\ stage[q] \in Attempting
      /\ result[q] = NoResult /\ outcome[q] = "none"
  BY DEF Ind, Sound, Running, Counted, Attempting
<1>2. /\ result' \in [Question -> Result \cup {NoResult}]
      /\ result'[q] = NoResult \/ Faithful(result'[q], valid[q])
  <2>1. valid[q] \in Statement \cup {NoStatement}
    BY DEF Ind, TypeOK
  <2>2. \A n \in 0..MaxMatching : n \in Nat
    BY SettingsAssumption
  <2>3. \A n \in 0..MaxMatching :
          Fetched(valid[q], n) \in Result /\ Faithful(Fetched(valid[q], n), valid[q])
    BY <2>1, <2>2, FetchedFaithful
  <2>4. result \in [Question -> Result \cup {NoResult}]
    BY DEF Ind, TypeOK
  <2> HIDE DEF Fetched, Faithful, Result, NoResult
  <2> QED
    BY <1>1, <2>3, <2>4
<1>3. tx' \in [Question -> {"none", "read_only", "read_write", "aborted"}]
  BY DEF Ind, TypeOK
<1>4. Running(q)'
  <2>1. stage'[q] = "close" /\ outcome'[q] = "none" /\ valid' = valid
    BY <1>1 DEF Advance, Goto, Ind, TypeOK
  <2>2. Faithful(result'[q], valid[q]) => Faithful(result[q], valid[q])'
    BY <2>1 DEF Faithful, Yield
  <2> QED
    BY <1>2, <2>1, <2>2 DEF Running, OnTarget
<1>5. CoveredBy(valid'[q], kmap[q])
  BY <1>1, InAttempt DEF Accepted
<1>6. /\ stage' \in [Question -> Stages] /\ outcome' \in [Question -> Outcomes]
      /\ attempt' \in [Question -> 0..MaxAttempts]
      /\ retries' \in [Question -> 0..MaxAttempts]
      /\ Sound(q)'
  BY <1>1, <1>4, <1>5, AdvanceSound DEF Attempting
<1> QED
  BY <1>2, <1>3, <1>6, Others DEF Advance, Goto, Ind, TypeOK

\* The engine is given back, whether there are rows or not.
LEMMA CloseEngineInd ==
  ASSUME Ind, NEW q \in Question, CloseEngine(q)
  PROVE  Ind'
<1> USE DEF CloseEngine, EngineAfter, dbVars, mapVars
<1>1. /\ stage[q] = "close" /\ stage[q] \in Attempting /\ outcome[q] = "none"
      /\ result[q] \in Result \cup {NoResult}
      /\ result[q] = NoResult \/ Faithful(result[q], valid[q])
  BY DEF Ind, TypeOK, Sound, Running, Counted, Attempting
<1>2. /\ tx' \in [Question -> {"none", "read_only", "read_write", "aborted"}]
      /\ engine' \in [Question -> BOOLEAN] /\ engine'[q] = FALSE
      /\ \A p \in Question \ {q} : engine'[p] = engine[p] /\ tx'[p] = tx[p]
  BY DEF Ind, TypeOK
<1>3. CASE result[q] # NoResult
  <2>1. Advance(q, "respond")
    BY <1>3
  <2>2. /\ stage'[q] = "respond" /\ outcome'[q] = "none"
        /\ valid' = valid /\ result' = result
    BY <1>1, <2>1 DEF Advance, Goto, Ind, TypeOK
  <2>3. Running(q)'
    BY <1>1, <1>2, <1>3, <2>2 DEF Running, Faithful, Yield
  <2>4. CoveredBy(valid'[q], kmap[q])
    BY <1>1, InAttempt DEF Accepted
  <2>5. /\ stage' \in [Question -> Stages] /\ outcome' \in [Question -> Outcomes]
        /\ attempt' \in [Question -> 0..MaxAttempts]
        /\ retries' \in [Question -> 0..MaxAttempts]
        /\ Sound(q)'
    BY <1>1, <2>1, <2>3, <2>4, AdvanceSound DEF Attempting
  <2> QED
    BY <1>2, <2>1, <2>5, Others DEF Advance, Goto, Ind, TypeOK
<1>4. CASE result[q] = NoResult
  <2>1. FailAttempt(q)
    BY <1>4
  <2>2. /\ stage' \in [Question -> Stages] /\ outcome' \in [Question -> Outcomes]
        /\ attempt' \in [Question -> 0..MaxAttempts]
        /\ retries' \in [Question -> 0..MaxAttempts]
        /\ \A p \in Question \ {q} :
             /\ stage'[p] = stage[p] /\ outcome'[p] = outcome[p]
             /\ attempt'[p] = attempt[p] /\ retries'[p] = retries[p]
        /\ Sound(q)'
    BY <1>1, <1>2, <1>4, <2>1, FailSound
  <2>3. TypeOK'
    BY <1>2, <2>2 DEF Ind, TypeOK
  <2>4. \A p \in Question \ {q} : Sound(p)'
    BY <1>2, <2>2, Others DEF Ind
  <2> QED
    BY <2>2, <2>3, <2>4 DEF Ind
<1> QED
  BY <1>3, <1>4

\* What is left out of the rows is flagged.
LEMMA RespondInd ==
  ASSUME Ind, NEW q \in Question, Respond(q)
  PROVE  Ind'
<1> USE DEF Respond, End, dbVars, mapVars, sqlVars
<1>1. /\ stage[q] = "respond" /\ stage[q] \in Attempting /\ engine[q] = FALSE
      /\ result[q] \in Result /\ Faithful(result[q], valid[q])
  BY DEF Ind, TypeOK, Sound, Running, Attempting, OnTarget
<1>2. /\ stage' = [stage EXCEPT ![q] = "done"] /\ outcome' = [outcome EXCEPT ![q] = "answered"]
      /\ stage'[q] = "done" /\ outcome'[q] = "answered"
      /\ stage' \in [Question -> Stages] /\ outcome' \in [Question -> Outcomes]
  BY DEF Ind, TypeOK, Stages, Outcomes
<1>3. PICK k \in 0..MaxQueryRows : /\ k <= result[q].rows
                                   /\ result' = [result EXCEPT ![q] = Processed(result[q], k)]
  OBVIOUS
<1>4. result \in [Question -> Result \cup {NoResult}]
  BY DEF Ind, TypeOK
<1>5. k \in Nat /\ k <= MaxQueryRows
  BY SettingsAssumption
<1>6. /\ Processed(result[q], k) \in Result
      /\ Processed(result[q], k).rows = k
      /\ Processed(result[q], k).matching = result[q].matching
      /\ Processed(result[q], k).truncated = (result[q].truncated \/ k < result[q].rows)
  <2>1. Processed(result[q], k) =
          [result[q] EXCEPT !.rows = k, !.truncated = result[q].truncated \/ k < result[q].rows]
    BY DEF Processed
  <2>2. result[q] = [rows |-> result[q].rows, truncated |-> result[q].truncated,
                     matching |-> result[q].matching]
    BY <1>1 DEF Result
  <2>3. Processed(result[q], k) =
          [rows |-> k, truncated |-> (result[q].truncated \/ k < result[q].rows),
           matching |-> result[q].matching]
    BY <2>1, <2>2
  <2> QED
    BY <1>1, <1>5, <2>3 DEF Result
<1>7. result'[q] = Processed(result[q], k) /\ result' \in [Question -> Result \cup {NoResult}]
  BY <1>3, <1>4, <1>6
<1>8. TypeOK'
  BY <1>2, <1>7 DEF Ind, TypeOK
<1>9. \A p \in Question \ {q} : Sound(p)'
  BY <1>2, <1>3, <1>4, Others DEF Ind, TypeOK
<1>10. Counted(q)'
  BY <1>1, <1>2, InAttempt DEF Counted, Preparing, Attempting
<1>11. Mapped(q)'
  BY <1>1, <1>2, InAttempt DEF Mapped, Attempting, Accepted
<1>12. Faithful(result[q], valid[q])'
  <2>1. result[q].rows \in Nat
    BY <1>1 DEF Result
  <2>2. k = result[q].rows \/ k < result[q].rows
    BY <1>3, <1>5, <2>1
  <2> QED
    BY <1>1, <1>6, <1>7, <2>2 DEF Faithful, Yield
<1>13. Running(q)'
  BY <1>1, <1>2, <1>5, <1>6, <1>7, <1>12 DEF Running
<1> QED
  BY <1>8, <1>9, <1>10, <1>11, <1>13 DEF Ind, Sound

\* The metadata database changes under the questions.
LEMMA DatabaseInd ==
  ASSUME Ind, PublishMap \/ RestoreConnection \/ DropConnection \/ UNCHANGED vars
  PROVE  Ind'
<1> USE DEF Ind, PublishMap, RestoreConnection, DropConnection,
            vars, dbVars, mapVars, sqlVars, runVars
<1>1. alive' \in BOOLEAN /\ mapped' \in BOOLEAN /\ dropped' \in BOOLEAN
  BY DEF TypeOK, Database!Publish, Database!Appear, Database!Drop
<1>2. stored' \in SUBSET Table
  BY DEF TypeOK, Database!Publish, Database!TablesAfterSave, Database!Appear, Database!Drop
<1>3. TypeOK'
  BY <1>1, <1>2 DEF TypeOK
<1>4. \A q \in Question : Sound(q)'
  BY Others
<1> QED
  BY <1>3, <1>4

\* Every step preserves the invariant.
LEMMA NextInd ==
  ASSUME Ind, [Next]_vars
  PROVE  Ind'
<1>1. ASSUME NEW q \in Question, Ask(q) \/ Work(q) PROVE Ind'
  BY <1>1, AskInd, FindVersionInd, ReadVersionInd, ReadTablesInd, ReadJoinsInd, RetrieveInd,
     DetectIntentInd, GenerateInd, ValidateInd, LoadConfigInd, OpenEngineInd, GuardSessionInd,
     ExecuteInd, CloseEngineInd, RespondInd DEF Work
<1> QED
  BY <1>1, DatabaseInd DEF Next

-----------------------------------------------------------------------------
(***************************************************************************)
(* Theorems.                                                               *)
(***************************************************************************)

\* The invariant holds in every state of every behaviour.
THEOREM Invariance == Spec => []Ind
BY InitInd, NextInd, PTL DEF Spec

\* Every variable keeps its type: in particular no attempt is made beyond
\* the configured number.
THEOREM TypeCorrect == Spec => []TypeOK
<1>1. Ind => TypeOK
  BY DEF Ind
<1> QED
  BY <1>1, Invariance, PTL

\* Every table of a statement on its way to the target, or shown with an
\* answer, bears the name of a table and the schema of a table of the map the
\* question was asked against, or an open schema, unless it is one that
\* SqlValidator._validate_allowed_tables exempts: a system schema's, or one with
\* such a schema and a system table's name or that of an expression of the
\* statement.
THEOREM NamesCoveredHolds == Spec => []NamesCovered
<1>1. Ind => NamesCovered
  BY DEF Ind, Sound, Mapped, NamesCovered
<1> QED
  BY <1>1, Invariance, PTL

\* The list of retries accounts for every attempt but a successful last one.
THEOREM AttemptsAccountedHolds == Spec => []AttemptsAccounted
<1>1. Ind => AttemptsAccounted
  <2> SUFFICES ASSUME Ind, NEW q \in Question
               PROVE  /\ retries[q] <= MaxAttempts
                      /\ stage[q] # "done" /\ attempt[q] > 0 => retries[q] = attempt[q] - 1
                      /\ outcome[q] = "answered" => retries[q] = attempt[q] - 1 /\ retries[q] < MaxAttempts
                      /\ outcome[q] = "failed" /\ attempt[q] > 0 => retries[q] = MaxAttempts
    BY DEF AttemptsAccounted
  <2>1. stage[q] \in Preparing \cup Attempting \cup {"done"}
    BY DEF Ind, TypeOK, Stages, Preparing, Attempting
  <2>2. attempt[q] \in 0..MaxAttempts /\ retries[q] \in 0..MaxAttempts
    BY DEF Ind, TypeOK
  <2> QED
    BY <2>1, <2>2, SomeAttempt DEF Ind, Sound, Counted
<1> QED
  BY <1>1, Invariance, PTL

\* An answer is within the row cap, and flagged unless it carries every row
\* of the statement it shows.
THEOREM MissingRowsFlaggedHolds == Spec => []MissingRowsFlagged
<1>1. Ind => MissingRowsFlagged
  BY DEF Ind, Sound, Running, Faithful, MissingRowsFlagged
<1> QED
  BY <1>1, Invariance, PTL

\* Every engine is given back when its statement is over.
THEOREM EnginesReleasedHolds == Spec => []EnginesReleased
<1>1. Ind => EnginesReleased
  BY DEF Ind, Sound, Running, EnginesReleased
<1> QED
  BY <1>1, Invariance, PTL

-----------------------------------------------------------------------------
(***************************************************************************)
(* The map in memory against the one that is stored.                       *)
(***************************************************************************)

Loading == {"idle", "version", "map", "tables"}

\* While no delete has come in between, the tables question q has read are
\* still stored when it reads the relationships, and covered by them after.
Covered ==
  ~dropped => \A q \in Question :
    /\ stage[q] = "joins" => kmap[q] \subseteq stored
    /\ stage[q] \notin Loading \cup {"joins"} =>
         kmap[q] \subseteq joins[q] \/ outcome[q] = "not_found"

\* A call after the map is loaded leaves it alone.
LEMMA LoadedCovered ==
  ASSUME Ind, Covered, NEW q \in Question,
         \/ Retrieve(q) \/ DetectIntent(q) \/ Generate(q) \/ Validate(q) \/ LoadConfig(q)
         \/ OpenEngine(q) \/ GuardSession(q) \/ Execute(q) \/ CloseEngine(q) \/ Respond(q)
  PROVE  Covered'
<1> DEFINE Loaded == \A p \in Question : /\ stage'[p] \in Loading \cup {"joins"} => stage'[p] = stage[p]
                                         /\ stage'[p] # stage[p] => stage[p] \notin Loading \cup {"joins"}
                                         /\ outcome[p] = "not_found" => outcome'[p] = "not_found"
<1> USE DEF Goto, End, Advance, FailAttempt, Loading
<1>1. stage \in [Question -> Stages] /\ outcome \in [Question -> Outcomes]
  BY DEF Ind, TypeOK
<1>2. stage[q] \notin Loading \cup {"joins", "done"} /\ outcome[q] = "none"
  BY DEF Retrieve, DetectIntent, Generate, Validate, LoadConfig, OpenEngine, GuardSession,
         Execute, CloseEngine, Respond, Ind, Sound, Counted
<1>3. UNCHANGED <<dropped, stored, kmap, joins>>
  BY DEF Retrieve, DetectIntent, Generate, Validate, LoadConfig, OpenEngine, GuardSession,
         Execute, CloseEngine, Respond, dbVars, mapVars
<1>4. Loaded
  BY <1>1, <1>2
  DEF Retrieve, DetectIntent, Generate, Validate, LoadConfig, OpenEngine, GuardSession,
      Execute, CloseEngine, Respond
<1> QED
  BY <1>1, <1>3, <1>4 DEF Covered

\* Loading: relationships are read after tables, and stored maps only grow.
LEMMA LoadingCovered ==
  ASSUME Ind, Covered, NEW q \in Question,
         Ask(q) \/ FindVersion(q) \/ ReadVersion(q) \/ ReadTables(q) \/ ReadJoins(q)
  PROVE  Covered'
<1> USE DEF Goto, End, Loading, dbVars, mapVars, Ind, TypeOK, Covered
<1>1. CASE Ask(q)
  BY <1>1 DEF Ask
<1>2. CASE FindVersion(q)
  BY <1>2 DEF FindVersion
<1>3. CASE ReadVersion(q)
  BY <1>3 DEF ReadVersion
<1>4. CASE ReadTables(q)
  BY <1>4 DEF ReadTables
<1>5. CASE ReadJoins(q)
  BY <1>5 DEF ReadJoins
<1> QED
  BY <1>1, <1>2, <1>3, <1>4, <1>5

\* Every step preserves it.
LEMMA CoveredNext ==
  ASSUME Ind, Covered, [Next]_vars
  PROVE  Covered'
<1>1. CASE UNCHANGED vars
  BY <1>1 DEF Covered, vars, dbVars, mapVars
<1>2. CASE PublishMap
  <2>1. stored \subseteq stored'
    BY <1>2 DEF PublishMap, Database!Publish, Database!TablesAfterSave
  <2> QED
    BY <1>2, <2>1 DEF PublishMap, Covered, mapVars
<1>3. CASE RestoreConnection
  BY <1>3 DEF RestoreConnection, Database!Appear, Covered, mapVars
<1>4. CASE DropConnection
  BY <1>4 DEF DropConnection, Covered
<1>5. ASSUME NEW q \in Question, Ask(q) \/ Work(q) PROVE Covered'
  BY <1>5, LoadedCovered, LoadingCovered DEF Work
<1> QED
  BY <1>1, <1>2, <1>3, <1>4, <1>5 DEF Next

\* Short of a delete, no question sees tables without the relationships they
\* came with, however many discoveries commit while it reads.
THEOREM JoinsCoverTablesHolds == Spec => []JoinsCoverTables
<1>1. Init => Covered
  BY DEF Init, Covered, Loading
<1>2. Covered => JoinsCoverTables
  BY DEF Covered, JoinsCoverTables, Loading
<1> QED
  BY <1>1, <1>2, CoveredNext, Invariance, PTL DEF Spec
=============================================================================
