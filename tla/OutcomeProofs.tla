----------------------------- MODULE OutcomeProofs -----------------------------
(***************************************************************************)
(* Theorems about what discovery runs leave on record: their last rows,    *)
(* the status of their connection and the map behind a status READY, while *)
(* the metadata database does not fail.                                    *)
(*                                                                         *)
(* Nothing of this holds of a connection that was deleted, or once a       *)
(* commit failed; both stay as they are once they are the case, so that    *)
(* the invariants below are about the whole past of a connection.          *)
(***************************************************************************)
EXTENDS DiscoveryProofs

\* The database never failed and the connection was never deleted.
Sound(c) == faults = 0 /\ c \notin removed

\* A row that reads as READY.
Complete(x) == ~x.failed /\ x.done = NSteps

\* Where a run is broken, or has a session that is.
Upset(r) ==
  /\ broken[r] => pc[r] \in {"failing", "raised", "lost"}
  /\ ~sess[r] => pc[r] = "persist"

\* The connection of a run is there.
Present(r) == pc[r] # "idle" => kind[Target[r]] # "absent"

\* Only a step that failed leads to the exception handler.
Faithful(r) == pc[r] \in {"failing", "raised"} => broken[r]

\* Which rows a run may have written, and which it must have.
Recorded(r) ==
  /\ \A x \in log[Target[r]] : x.run = r =>
       /\ x.failed => pc[r] = "raised"
       /\ Complete(x) => pc[r] \in {"final", "returned", "lost"}
  /\ pc[r] = "returned" => \E x \in log[Target[r]] : x.run = r /\ Complete(x)
  /\ pc[r] = "raised" => \E x \in log[Target[r]] : x.run = r /\ x.failed

\* A save that is neither pending nor committed lost to a map that is stored.
Saving(r) ==
  /\ pc[r] = "write" /\ saw[r] # NoRun => header[Target[r]] # NoRun
  /\ pc[r] = "persist" /\ pos[r] = NSteps /\ ~(held[r] /\ sess[r]) => header[Target[r]] # NoRun
  /\ pc[r] = "final" => header[Target[r]] # NoRun /\ pos[r] = NSteps

\* A complete row, and the status READY, have a map behind them.
Backed(c) ==
  /\ \A x \in log[c] : Complete(x) => header[c] # NoRun
  /\ status[c] = "READY" => header[c] # NoRun

Outcome(r) == Present(r) /\ Faithful(r) /\ Recorded(r) /\ Saving(r)

OutcomeInd ==
  /\ \A r \in Run : Upset(r)
  /\ \A r \in Run : Sound(Target[r]) => Outcome(r)
  /\ \A c \in Conn : Sound(c) => Backed(c)

-----------------------------------------------------------------------------
(* What a step of one run leaves alone *)

\* A step of run r changes nothing of other runs and other connections; on its
\* own connection, as long as that is sound, it adds rows and maps.
Local(r) ==
  /\ \A w \in Run \ {r} : /\ pc'[w] = pc[w] /\ broken'[w] = broken[w] /\ sess'[w] = sess[w]
                          /\ held'[w] = held[w] /\ pos'[w] = pos[w] /\ saw'[w] = saw[w]
                          /\ found'[w] = found[w]
  /\ \A c \in Conn \ {Target[r]} : /\ kind'[c] = kind[c] /\ status'[c] = status[c] /\ log'[c] = log[c]
                                   /\ header'[c] = header[c] /\ owner'[c] = owner[c]
  /\ removed' = removed
  /\ faults' = 0 => faults = 0
  /\ Sound(Target[r])' =>
       /\ kind'[Target[r]] # "absent"
       /\ header[Target[r]] # NoRun => header'[Target[r]] # NoRun
       /\ log[Target[r]] \subseteq log'[Target[r]]
       /\ \A x \in log'[Target[r]] : x \in log[Target[r]] \/ x.run = r

\* On a sound connection that is there, a row is never refused.
LEMMA NotRefused ==
  ASSUME TypeOK, NEW c \in Conn, Sound(c)', removed' = removed, kind[c] # "absent"
  PROVE  ~Refused(c)
BY DEF Sound, Refused, Fault, TypeOK

\* What _persist_run does.
LEMMA PersistEffect ==
  ASSUME TypeOK, NEW c \in Conn, NEW row \in Row, PersistRun(c, row)
  PROVE  /\ kind'[c] # "absent" /\ log'[c] = log[c] \cup {row}
         /\ status'[c] = ConnStatusOf(row)
         /\ \A d \in Conn \ {c} : kind'[d] = kind[d] /\ log'[d] = log[d] /\ status'[d] = status[d]
BY PersistTyped DEF PersistRun, TypeOK

\* Faults are counted and never taken back.
LEMMA FaultsStay ==
  ASSUME TypeOK, Fault \/ UNCHANGED faults
  PROVE  faults' = 0 => faults = 0
BY DEF TypeOK, Fault

\* Steps with no row.
LEMMA QuietLocal ==
  ASSUME Ind, OutcomeInd, NEW r \in Run,
         StartDiscovery(r) \/ RunStep(r) \/ FailStep(r) \/ SelectVersion(r) \/ WriteMap(r)
  PROVE  Local(r)
<1>0. Target[r] \in Conn
  BY ConstantsAssumption
<1>1. TypeOK /\ (pc[r] # "idle" => (Sound(Target[r]) => kind[Target[r]] # "absent"))
  BY DEF Ind, OutcomeInd, Outcome, Present
<1>2. UNCHANGED dbVars /\ removed' = removed /\ (faults' = 0 => faults = 0)
  BY <1>1, FaultsStay DEF StartDiscovery, RunStep, FailStep, SelectVersion, WriteMap, bookVars
<1>3. \A w \in Run \ {r} : /\ pc'[w] = pc[w] /\ broken'[w] = broken[w] /\ sess'[w] = sess[w]
                           /\ held'[w] = held[w] /\ pos'[w] = pos[w] /\ saw'[w] = saw[w]
                           /\ found'[w] = found[w]
  <2>1. CASE StartDiscovery(r) BY <1>1, <2>1 DEF StartDiscovery, TypeOK
  <2>2. CASE RunStep(r) BY <1>1, <2>2 DEF RunStep, TypeOK
  <2>3. CASE FailStep(r) BY <1>1, <2>3 DEF FailStep, BrokenAfter, TypeOK
  <2>4. CASE SelectVersion(r) BY <1>1, <2>4 DEF SelectVersion, TypeOK
  <2>5. CASE WriteMap(r) BY <1>1, <2>5 DEF WriteMap, TypeOK
  <2> QED BY <2>1, <2>2, <2>3, <2>4, <2>5
<1>4. Sound(Target[r])' => kind[Target[r]] # "absent"
  BY <1>1, <1>2 DEF Sound, StartDiscovery, MayStart, RunStep, FailStep, SelectVersion, WriteMap
<1> QED
  BY <1>2, <1>3, <1>4 DEF Local, dbVars

\* Steps that write a row.
LEMMA WritingLocal ==
  ASSUME Ind, OutcomeInd, NEW r \in Run,
         \/ PrepareRun(r) \/ BeginRun(r) \/ CommitStep(r) \/ LoseStep(r)
         \/ FinishRun(r) \/ FailRun(r)
  PROVE  Local(r)
<1>0. Target[r] \in Conn /\ RowOf(r) \in Row /\ [RowOf(r) EXCEPT !.start = clock + 1] \in Row
  BY ConstantsAssumption, RowTyped DEF Ind
<1>1. TypeOK /\ (Sound(Target[r]) => kind[Target[r]] # "absent")
  BY DEF Ind, OutcomeInd, Outcome, Present, PrepareRun, BeginRun, CommitStep, LoseStep, FinishRun, FailRun
<1>2. removed' = removed /\ (faults' = 0 => faults = 0)
  BY <1>1, FaultsStay
  DEF PrepareRun, BeginRun, CommitStep, LoseStep, FinishRun, FailRun, Refused, bookVars
<1>3. \A w \in Run \ {r} : /\ pc'[w] = pc[w] /\ broken'[w] = broken[w] /\ sess'[w] = sess[w]
                           /\ held'[w] = held[w] /\ pos'[w] = pos[w] /\ saw'[w] = saw[w]
                           /\ found'[w] = found[w]
  <2>1. CASE PrepareRun(r) BY <1>1, <2>1 DEF PrepareRun, TypeOK
  <2>2. CASE BeginRun(r) BY <1>1, <2>2 DEF BeginRun, TypeOK
  <2>3. CASE CommitStep(r) BY <1>1, <2>3 DEF CommitStep, TypeOK
  <2>4. CASE LoseStep(r) BY <1>1, <2>4 DEF LoseStep, HeldAfterRollback, TypeOK
  <2>5. CASE FinishRun(r) BY <1>1, <2>5 DEF FinishRun, TypeOK
  <2>6. CASE FailRun(r) BY <1>1, <2>6 DEF FailRun, HeldAfterRollback, TypeOK
  <2> QED BY <2>1, <2>2, <2>3, <2>4, <2>5, <2>6
<1>4. \/ PersistRun(Target[r], RowOf(r))
      \/ PersistRun(Target[r], [RowOf(r) EXCEPT !.start = clock + 1])
      \/ NothingPersisted
  BY DEF PrepareRun, BeginRun, CommitStep, LoseStep, FinishRun, FailRun, NothingPersisted, dbVars
<1>5. /\ \A c \in Conn \ {Target[r]} : header'[c] = header[c] /\ owner'[c] = owner[c]
      /\ header[Target[r]] # NoRun => header'[Target[r]] # NoRun
  BY <1>0, <1>1 DEF PrepareRun, BeginRun, CommitStep, PublishHeld, LoseStep, FinishRun, FailRun, dbVars, TypeOK
<1>6. ASSUME NEW row \in Row, row.run = r, PersistRun(Target[r], row) \/ NothingPersisted
      PROVE  /\ \A c \in Conn \ {Target[r]} : kind'[c] = kind[c] /\ status'[c] = status[c] /\ log'[c] = log[c]
             /\ kind[Target[r]] # "absent" => kind'[Target[r]] # "absent"
             /\ log[Target[r]] \subseteq log'[Target[r]]
             /\ \A x \in log'[Target[r]] : x \in log[Target[r]] \/ x.run = r
  <2>1. CASE PersistRun(Target[r], row)
    BY <1>0, <1>1, <1>6, <2>1, PersistEffect
  <2>2. CASE NothingPersisted
    BY <2>2 DEF NothingPersisted
  <2> QED BY <1>6, <2>1, <2>2
<1>7. RowOf(r).run = r /\ [RowOf(r) EXCEPT !.start = clock + 1].run = r
  BY DEF RowOf
<1>8. Sound(Target[r])' => Sound(Target[r])
  BY <1>2 DEF Sound
<1> QED
  BY <1>0, <1>1, <1>2, <1>3, <1>4, <1>5, <1>6, <1>7, <1>8 DEF Local

\* After such a step, what holds of other runs and other connections still does.
LEMMA OthersKept ==
  ASSUME Ind, OutcomeInd, NEW r \in Run, Local(r),
         Upset(r)',
         Sound(Target[r])' => Outcome(r)' /\ Backed(Target[r])'
  PROVE  OutcomeInd'
<1>0. \A w \in Run : Target[w] \in Conn
  BY ConstantsAssumption
<1>1. \A w \in Run : Upset(w)'
  BY DEF OutcomeInd, Local, Upset
<1>2. ASSUME NEW w \in Run, Sound(Target[w])' PROVE Outcome(w)'
  <2>1. CASE w = r BY <1>2, <2>1
  <2>2. CASE w # r /\ Target[w] = Target[r]
    <3>1. Outcome(w)
      BY <1>2 DEF OutcomeInd, Local, Sound
    <3>2. Present(w)' /\ Faithful(w)' /\ Saving(w)'
      BY <1>2, <2>2, <3>1 DEF Local, Outcome, Present, Faithful, Saving
    <3>3. Recorded(w)'
      BY <1>2, <2>2, <3>1 DEF Local, Outcome, Recorded, Complete
    <3> QED BY <3>2, <3>3 DEF Outcome
  <2>3. CASE w # r /\ Target[w] # Target[r]
    <3>1. Outcome(w)
      BY <1>2 DEF OutcomeInd, Local, Sound
    <3>2. Present(w)' /\ Faithful(w)' /\ Saving(w)'
      BY <1>0, <2>3, <3>1 DEF Local, Outcome, Present, Faithful, Saving
    <3>3. Recorded(w)'
      BY <1>0, <2>3, <3>1 DEF Local, Outcome, Recorded, Complete
    <3> QED BY <3>2, <3>3 DEF Outcome
  <2> QED BY <2>1, <2>2, <2>3
<1>3. ASSUME NEW c \in Conn, Sound(c)' PROVE Backed(c)'
  <2>1. CASE c = Target[r] BY <1>3, <2>1
  <2>2. CASE c # Target[r]
    <3>1. Backed(c)
      BY <1>3 DEF OutcomeInd, Local, Sound
    <3> QED BY <2>2, <3>1 DEF Local, Backed, Complete
  <2> QED BY <2>1, <2>2
<1> QED
  BY <1>1, <1>2, <1>3 DEF OutcomeInd

-----------------------------------------------------------------------------
(* The invariant, step by step *)

\* What is known of the run that takes a step, before it.
LEMMA Before ==
  ASSUME Ind, OutcomeInd, NEW r \in Run, Local(r), Sound(Target[r])'
  PROVE  Outcome(r) /\ Backed(Target[r])
BY ConstantsAssumption DEF Local, OutcomeInd, Sound

\* A request is accepted for a connection that is there.
LEMMA StartDiscoveryOutcome ==
  ASSUME Ind, OutcomeInd, NEW r \in Run, StartDiscovery(r)
  PROVE  OutcomeInd'
<1>1. Local(r) BY QuietLocal
<1>2. Upset(r)'
  BY DEF StartDiscovery, Upset, OutcomeInd, Ind, TypeOK
<1>3. ASSUME Sound(Target[r])' PROVE Outcome(r)' /\ Backed(Target[r])'
  <2>1. Outcome(r) /\ Backed(Target[r]) BY <1>1, <1>3, Before
  <2> QED
    BY <2>1 DEF StartDiscovery, MayStart, dbVars, bookVars, Outcome, Present, Faithful, Recorded,
                Saving, Backed, Complete, Ind, TypeOK
<1> QED BY <1>1, <1>2, <1>3, OthersKept

\* The body of a step that is not the last.
LEMMA RunStepOutcome ==
  ASSUME Ind, OutcomeInd, NEW r \in Run, RunStep(r)
  PROVE  OutcomeInd'
<1>1. Local(r) BY QuietLocal
<1>2. Upset(r)'
  BY DEF RunStep, Upset, OutcomeInd, Ind, TypeOK
<1>3. pos'[r] # NSteps /\ pc'[r] = "persist"
  <2>1. pos[r] \in Nat /\ pos[r] < NSteps /\ Steps[pos[r] + 1] # "ContextPersistence"
    BY DEF RunStep, NextStep, Ind, Position, TypeOK
  <2> QED BY <2>1, LastStep DEF RunStep, Ind, TypeOK
<1>4. ASSUME Sound(Target[r])' PROVE Outcome(r)' /\ Backed(Target[r])'
  <2>1. Outcome(r) /\ Backed(Target[r]) BY <1>1, <1>4, Before
  <2> QED
    BY <1>3, <2>1 DEF RunStep, dbVars, bookVars, Outcome, Present, Faithful, Recorded,
                Saving, Backed, Complete, Ind, TypeOK
<1> QED BY <1>1, <1>2, <1>4, OthersKept

\* A step that raises is marked.
LEMMA FailStepOutcome ==
  ASSUME Ind, OutcomeInd, NEW r \in Run, FailStep(r)
  PROVE  OutcomeInd'
<1>1. Local(r) BY QuietLocal
<1>2. Upset(r)'
  BY DEF FailStep, BrokenAfter, Upset, OutcomeInd, Ind, TypeOK
<1>3. ASSUME Sound(Target[r])' PROVE Outcome(r)' /\ Backed(Target[r])'
  <2>1. Outcome(r) /\ Backed(Target[r]) BY <1>1, <1>3, Before
  <2> QED
    BY <2>1 DEF FailStep, BrokenAfter, dbVars, bookVars, Outcome, Present, Faithful, Recorded,
                Saving, Backed, Complete, Ind, TypeOK
<1> QED BY <1>1, <1>2, <1>3, OthersKept

\* The version that a save looks for.
LEMMA SelectVersionOutcome ==
  ASSUME Ind, OutcomeInd, NEW r \in Run, SelectVersion(r)
  PROVE  OutcomeInd'
<1>1. Local(r) BY QuietLocal
<1>2. Upset(r)'
  BY DEF SelectVersion, Upset, OutcomeInd, Ind, TypeOK
<1>3. ASSUME Sound(Target[r])' PROVE Outcome(r)' /\ Backed(Target[r])'
  <2>1. Outcome(r) /\ Backed(Target[r]) BY <1>1, <1>3, Before
  <2> QED
    BY <2>1 DEF SelectVersion, dbVars, bookVars, Outcome, Present, Faithful, Recorded,
                Saving, Backed, Complete, Ind, TypeOK
<1> QED BY <1>1, <1>2, <1>3, OthersKept

\* A save that does not fit lost to a map: the version it looked for is there,
\* and it stays while the connection does.
LEMMA WriteMapOutcome ==
  ASSUME Ind, OutcomeInd, NEW r \in Run, WriteMap(r)
  PROVE  OutcomeInd'
<1>1. Local(r) BY QuietLocal
<1>2. Upset(r)'
  BY DEF WriteMap, Upset, OutcomeInd, Ind, TypeOK
<1>3. ASSUME Sound(Target[r])' PROVE Outcome(r)' /\ Backed(Target[r])'
  <2>1. Outcome(r) /\ Backed(Target[r]) BY <1>1, <1>3, Before
  <2>2. Present(r)' /\ Faithful(r)' /\ Recorded(r)' /\ Backed(Target[r])'
    BY <2>1 DEF WriteMap, dbVars, Outcome, Present, Faithful, Recorded, Backed, Complete, Ind, TypeOK
  <2>3. Saving(r)'
    <3>1. pc'[r] = "persist" /\ UNCHANGED header
          /\ sess[r]
      BY DEF WriteMap, dbVars, OutcomeInd, Upset, Ind, TypeOK
    <3>2. CASE SaveFits(r) /\ held' = [held EXCEPT ![r] = TRUE] /\ UNCHANGED <<sess, faults>>
      BY <3>1, <3>2 DEF Saving, Ind, TypeOK
    <3>3. CASE ~SaveFits(r)
      BY <2>1, <3>1, <3>3 DEF Saving, SaveFits, Outcome, Present, WriteMap, Ind, Versioned, NoTables, TypeOK
    <3>4. CASE Fault
      BY <1>3, <3>4 DEF Fault, Sound, Ind, TypeOK
    <3> QED BY <3>2, <3>3, <3>4 DEF WriteMap
  <2> QED BY <2>2, <2>3 DEF Outcome
<1> QED BY <1>1, <1>2, <1>3, OthersKept

\* A row of a run that is not at its end is neither complete nor failed, and
\* has no status to show.
LEMMA EarlyRow ==
  ASSUME Ind, OutcomeInd, NEW r \in Run, pc[r] \in {"prep", "queued"}
  PROVE  LET row == [RowOf(r) EXCEPT !.start = clock + 1]
         IN  row.run = r /\ ~row.failed /\ ~Complete(row) /\ ConnStatusOf(row) # "READY"
<1>1. pos[r] = 0 /\ broken[r] = FALSE
  BY DEF Ind, Position, OutcomeInd, Upset, TypeOK
<1> QED
  BY <1>1, LastStep DEF RowOf, Complete, ConnStatusOf, RowStatus

\* The first row of a request.
LEMMA PrepareRunOutcome ==
  ASSUME Ind, OutcomeInd, NEW r \in Run, PrepareRun(r)
  PROVE  OutcomeInd'
<1> DEFINE row == [RowOf(r) EXCEPT !.start = clock + 1]
<1>1. Local(r) BY WritingLocal
<1>2. Upset(r)'
  BY DEF PrepareRun, Upset, OutcomeInd, Ind, TypeOK
<1>3. ASSUME Sound(Target[r])' PROVE Outcome(r)' /\ Backed(Target[r])'
  <2>1. Outcome(r) /\ Backed(Target[r]) BY <1>1, <1>3, Before
  <2>2. PersistRun(Target[r], row)
    BY <1>3, <2>1, NotRefused, ConstantsAssumption DEF PrepareRun, Outcome, Present, Ind
  <2>3. /\ kind'[Target[r]] # "absent" /\ log'[Target[r]] = log[Target[r]] \cup {row}
        /\ status'[Target[r]] = ConnStatusOf(row)
    BY <2>2, PersistEffect, RowTyped, ConstantsAssumption DEF Ind
  <2>4. row.run = r /\ ~row.failed /\ ~Complete(row) /\ ConnStatusOf(row) # "READY"
    BY EarlyRow DEF PrepareRun
  <2> HIDE DEF row
  <2> QED
    BY <2>1, <2>3, <2>4 DEF PrepareRun, Outcome, Present, Faithful, Recorded, Saving, Backed,
                            Complete, Ind, TypeOK
<1> QED BY <1>1, <1>2, <1>3, OthersKept

\* The background task starts.
LEMMA BeginRunOutcome ==
  ASSUME Ind, OutcomeInd, NEW r \in Run, BeginRun(r)
  PROVE  OutcomeInd'
<1> DEFINE row == [RowOf(r) EXCEPT !.start = clock + 1]
<1>1. Local(r) BY WritingLocal
<1>2. Upset(r)'
  BY DEF BeginRun, Upset, OutcomeInd, Ind, TypeOK
<1>3. ASSUME Sound(Target[r])' PROVE Outcome(r)' /\ Backed(Target[r])'
  <2>1. Outcome(r) /\ Backed(Target[r]) BY <1>1, <1>3, Before
  <2>2. PersistRun(Target[r], row)
    BY <1>3, <2>1, NotRefused, ConstantsAssumption DEF BeginRun, Outcome, Present, Ind
  <2>3. /\ kind'[Target[r]] # "absent" /\ log'[Target[r]] = log[Target[r]] \cup {row}
        /\ status'[Target[r]] = ConnStatusOf(row)
    BY <2>2, PersistEffect, RowTyped, ConstantsAssumption DEF Ind
  <2>4. row.run = r /\ ~row.failed /\ ~Complete(row) /\ ConnStatusOf(row) # "READY"
    BY EarlyRow DEF BeginRun
  <2> HIDE DEF row
  <2> QED
    BY <2>1, <2>3, <2>4 DEF BeginRun, Outcome, Present, Faithful, Recorded, Saving, Backed,
                            Complete, Ind, TypeOK
<1> QED BY <1>1, <1>2, <1>3, OthersKept

\* What the row of a run in good order says.
LEMMA GoodRow ==
  ASSUME NEW r \in Run, broken[r] = FALSE
  PROVE  /\ RowOf(r).run = r /\ ~RowOf(r).failed
         /\ Complete(RowOf(r)) <=> pos[r] = NSteps
         /\ ConnStatusOf(RowOf(r)) = "READY" => pos[r] = NSteps
BY DEF RowOf, Complete, ConnStatusOf, RowStatus

\* The row of a step is committed, and with the last one a map, unless one
\* is stored already.
LEMMA CommitStepOutcome ==
  ASSUME Ind, OutcomeInd, NEW r \in Run, CommitStep(r)
  PROVE  OutcomeInd'
<1>1. Local(r) BY WritingLocal
<1>2. Upset(r)' /\ broken[r] = FALSE
  BY DEF CommitStep, Upset, OutcomeInd, Ind, TypeOK
<1>3. ASSUME Sound(Target[r])' PROVE Outcome(r)' /\ Backed(Target[r])'
  <2>1. Outcome(r) /\ Backed(Target[r]) BY <1>1, <1>3, Before
  <2>3. /\ kind'[Target[r]] # "absent" /\ log'[Target[r]] = log[Target[r]] \cup {RowOf(r)}
        /\ status'[Target[r]] = ConnStatusOf(RowOf(r))
    BY PersistEffect, RowTyped, ConstantsAssumption DEF CommitStep, Ind
  <2>4. header[Target[r]] # NoRun => header'[Target[r]] # NoRun
    BY <1>1, <1>3 DEF Local
  <2>5. pos[r] = NSteps => header'[Target[r]] # NoRun
    <3>1. CASE held[r]
      BY <3>1, CommitPublishes
    <3>2. CASE ~held[r]
      BY <2>1, <2>4, <3>2 DEF CommitStep, Outcome, Saving
    <3> QED BY <3>1, <3>2
  <2>6. pos'[r] = pos[r] /\ pc'[r] = (IF pos[r] = NSteps THEN "final" ELSE "body")
    BY DEF CommitStep, Ind, TypeOK
  <2>7. Present(r)' /\ Faithful(r)' /\ Saving(r)'
    BY <2>3, <2>5, <2>6 DEF Present, Faithful, Saving
  <2>8. Recorded(r)'
    <3>1. pc[r] = "persist" /\ pc'[r] \in {"final", "body"} /\ (pos[r] = NSteps => pc'[r] = "final")
      BY <2>6 DEF CommitStep
    <3>2. \A x \in log[Target[r]] : x.run = r => ~x.failed /\ ~Complete(x)
      BY <2>1, <3>1 DEF Outcome, Recorded
    <3>3. ~RowOf(r).failed /\ (Complete(RowOf(r)) => pos[r] = NSteps)
      BY <1>2, GoodRow
    <3> QED
      BY <2>3, <3>1, <3>2, <3>3 DEF Recorded, Complete
  <2>9. Backed(Target[r])'
    BY <1>2, <2>1, <2>3, <2>4, <2>5, GoodRow DEF Backed, Complete
  <2> QED BY <2>7, <2>8, <2>9 DEF Outcome
<1> QED BY <1>1, <1>2, <1>3, OthersKept

\* While the connection is sound only a save that lost is rolled back.
LEMMA LoseStepOutcome ==
  ASSUME Ind, OutcomeInd, NEW r \in Run, LoseStep(r)
  PROVE  OutcomeInd'
<1>1. Local(r) BY WritingLocal
<1>2. Upset(r)'
  BY DEF LoseStep, Upset, OutcomeInd, Ind, TypeOK
<1>3. ASSUME Sound(Target[r])' PROVE Outcome(r)' /\ Backed(Target[r])'
  <2>1. Outcome(r) /\ Backed(Target[r]) BY <1>1, <1>3, Before
  <2>2. ~sess[r]
    BY <1>3, <2>1, NotRefused, ConstantsAssumption DEF LoseStep, Outcome, Present, Ind
  <2> QED
    BY <2>1, <2>2 DEF LoseStep, dbVars, Outcome, Present, Faithful, Recorded, Saving, Backed,
                      Complete, Ind, TypeOK
<1> QED BY <1>1, <1>2, <1>3, OthersKept

\* The last row says READY, with a map behind it.
LEMMA FinishRunOutcome ==
  ASSUME Ind, OutcomeInd, NEW r \in Run, FinishRun(r)
  PROVE  OutcomeInd'
<1>1. Local(r) BY WritingLocal
<1>2. Upset(r)' /\ broken[r] = FALSE
  BY DEF FinishRun, Upset, OutcomeInd, Ind, TypeOK
<1>3. ASSUME Sound(Target[r])' PROVE Outcome(r)' /\ Backed(Target[r])'
  <2>1. Outcome(r) /\ Backed(Target[r]) BY <1>1, <1>3, Before
  <2>2. PersistRun(Target[r], RowOf(r)) /\ pc' = [pc EXCEPT ![r] = "returned"]
    BY <1>3, <2>1, NotRefused, ConstantsAssumption DEF FinishRun, Outcome, Present, Ind
  <2>3. /\ kind'[Target[r]] # "absent" /\ log'[Target[r]] = log[Target[r]] \cup {RowOf(r)}
        /\ status'[Target[r]] = ConnStatusOf(RowOf(r))
    BY <2>2, PersistEffect, RowTyped, ConstantsAssumption DEF Ind
  <2>4. pos[r] = NSteps /\ header'[Target[r]] # NoRun /\ pc'[r] = "returned"
    BY <2>1, <2>2 DEF FinishRun, Outcome, Saving, Ind, TypeOK
  <2>5. Present(r)' /\ Faithful(r)' /\ Saving(r)'
    BY <2>3, <2>4 DEF Present, Faithful, Saving
  <2>6. Recorded(r)'
    BY <1>2, <2>1, <2>3, <2>4, GoodRow DEF FinishRun, Outcome, Recorded, Complete
  <2> QED BY <2>4, <2>5, <2>6 DEF Outcome, Backed
<1> QED BY <1>1, <1>2, <1>3, OthersKept

\* The row of a run that raises says ERROR.
LEMMA FailRunOutcome ==
  ASSUME Ind, OutcomeInd, NEW r \in Run, FailRun(r)
  PROVE  OutcomeInd'
<1>1. Local(r) BY WritingLocal
<1>2. Upset(r)'
  BY DEF FailRun, HeldAfterRollback, Upset, OutcomeInd, Ind, TypeOK
<1>3. ASSUME Sound(Target[r])' PROVE Outcome(r)' /\ Backed(Target[r])'
  <2>1. Outcome(r) /\ Backed(Target[r]) BY <1>1, <1>3, Before
  <2>2. PersistRun(Target[r], RowOf(r)) /\ broken[r] = TRUE
    BY <1>3, <2>1, NotRefused, ConstantsAssumption DEF FailRun, Outcome, Present, Faithful, Ind, TypeOK
  <2>3. /\ kind'[Target[r]] # "absent" /\ log'[Target[r]] = log[Target[r]] \cup {RowOf(r)}
        /\ status'[Target[r]] = ConnStatusOf(RowOf(r))
    BY <2>2, PersistEffect, RowTyped, ConstantsAssumption DEF Ind
  <2>4. RowOf(r).run = r /\ RowOf(r).failed /\ ConnStatusOf(RowOf(r)) # "READY"
    BY <2>2 DEF RowOf, ConnStatusOf, RowStatus
  <2>5. pc'[r] = "raised" /\ broken'[r] = TRUE /\ UNCHANGED header
    BY <2>2 DEF FailRun, Ind, TypeOK
  <2>6. Present(r)' /\ Faithful(r)' /\ Saving(r)'
    BY <2>3, <2>5 DEF Present, Faithful, Saving
  <2>7. Recorded(r)'
    BY <2>1, <2>3, <2>4, <2>5 DEF FailRun, Outcome, Recorded, Complete
  <2>8. Backed(Target[r])'
    BY <2>1, <2>3, <2>4, <2>5 DEF Backed, Complete
  <2> QED BY <2>6, <2>7, <2>8 DEF Outcome
<1> QED BY <1>1, <1>2, <1>3, OthersKept

\* A connection row is stored, with a status that is not READY.
LEMMA Connected ==
  ASSUME Ind, NEW c \in Conn, StoreConnection(c)
  PROVE  /\ faults' = 0 => faults = 0
         /\ \A d \in Conn : kind[d] # "absent" => kind'[d] # "absent"
         /\ \A d \in Conn : status'[d] = "READY" => status[d] = "READY"
         /\ faults' = 0 => kind'[c] # "absent"
<1>1. TypeOK BY DEF Ind
<1>2. CASE Fault /\ UNCHANGED <<kind, status>>
  BY <1>1, <1>2 DEF Fault, TypeOK
<1>3. ASSUME NEW s \in {"CONNECTED", "ERROR"}, kind' = [kind EXCEPT ![c] = "real"],
             status' = [status EXCEPT ![c] = s], UNCHANGED faults
      PROVE  /\ faults' = 0 => faults = 0
             /\ \A d \in Conn : kind[d] # "absent" => kind'[d] # "absent"
             /\ \A d \in Conn : status'[d] = "READY" => status[d] = "READY"
             /\ faults' = 0 => kind'[c] # "absent"
  BY <1>1, <1>3 DEF TypeOK
<1> QED BY <1>2, <1>3 DEF StoreConnection

\* Connecting changes the row of the connection only.
LEMMA ConnectOutcome ==
  ASSUME Ind, OutcomeInd, NEW c \in Conn, Connect(c)
  PROVE  OutcomeInd'
<1>1. \A r \in Run : Target[r] \in Conn
  BY ConstantsAssumption
<1>2. UNCHANGED <<header, owner, log, runVars, removed>>
  BY DEF Connect
<1>3. /\ faults' = 0 => faults = 0
      /\ \A d \in Conn : kind[d] # "absent" => kind'[d] # "absent"
      /\ \A d \in Conn : status'[d] = "READY" => status[d] = "READY"
  BY Connected DEF Connect
<1>4. \A r \in Run : Upset(r)'
  BY <1>2 DEF OutcomeInd, Upset, runVars
<1>5. ASSUME NEW r \in Run, Sound(Target[r])' PROVE Outcome(r)'
  <2>1. Outcome(r) BY <1>2, <1>3, <1>5 DEF OutcomeInd, Sound
  <2> QED
    BY <1>1, <1>2, <1>3, <2>1
    DEF Outcome, Present, Faithful, Recorded, Saving, Complete, runVars
<1>6. ASSUME NEW d \in Conn, Sound(d)' PROVE Backed(d)'
  <2>1. Backed(d) BY <1>2, <1>3, <1>6 DEF OutcomeInd, Sound
  <2> QED BY <1>2, <1>3, <2>1 DEF Backed, Complete
<1> QED BY <1>4, <1>5, <1>6 DEF OutcomeInd

\* A run that is queued with its connection has one, or a commit failed.
LEMMA ConnectAndDiscoverOutcome ==
  ASSUME Ind, OutcomeInd, NEW r \in Run, ConnectAndDiscover(r)
  PROVE  OutcomeInd'
<1>1. Target[r] \in Conn /\ \A w \in Run : Target[w] \in Conn
  BY ConstantsAssumption
<1>2. UNCHANGED <<header, owner, log, pos, broken, found, sess, saw, held, removed>>
  BY DEF ConnectAndDiscover
<1>3. /\ faults' = 0 => faults = 0
      /\ \A d \in Conn : kind[d] # "absent" => kind'[d] # "absent"
      /\ \A d \in Conn : status'[d] = "READY" => status[d] = "READY"
      /\ faults' = 0 => kind'[Target[r]] # "absent"
  BY <1>1, Connected DEF ConnectAndDiscover
<1>4. pc[r] = "idle" /\ pc'[r] = "queued" /\ \A w \in Run \ {r} : pc'[w] = pc[w]
  BY DEF ConnectAndDiscover, Ind, TypeOK
<1>5. \A w \in Run : Upset(w)'
  BY <1>2, <1>4 DEF OutcomeInd, Upset
<1>6. ASSUME NEW w \in Run, Sound(Target[w])' PROVE Outcome(w)'
  <2>1. Outcome(w) BY <1>2, <1>3, <1>6 DEF OutcomeInd, Sound
  <2>2. Present(w)' BY <1>1, <1>3, <1>4, <1>6, <2>1 DEF Outcome, Present, Sound
  <2>3. Faithful(w)' /\ Saving(w)'
    BY <1>2, <1>4, <2>1 DEF Outcome, Faithful, Saving
  <2>4. Recorded(w)'
    BY <1>2, <1>4, <2>1 DEF Outcome, Recorded, Complete
  <2> QED BY <2>2, <2>3, <2>4 DEF Outcome
<1>7. ASSUME NEW d \in Conn, Sound(d)' PROVE Backed(d)'
  <2>1. Backed(d) BY <1>2, <1>3, <1>7 DEF OutcomeInd, Sound
  <2> QED BY <1>2, <1>3, <2>1 DEF Backed, Complete
<1> QED BY <1>5, <1>6, <1>7 DEF OutcomeInd

\* A deleted connection is not sound any more; the others are as they were.
LEMMA DeleteOutcome ==
  ASSUME Ind, OutcomeInd, NEW c \in Conn, Delete(c)
  PROVE  OutcomeInd'
<1>1. removed' = removed \cup {c} /\ UNCHANGED <<status, runVars>> /\ (faults' = 0 => faults = 0)
  BY FaultsStay DEF Delete, Ind
<1>2. \A d \in Conn \ {c} : kind'[d] = kind[d] /\ header'[d] = header[d] /\ log'[d] = log[d]
  BY DEF Delete, Ind, TypeOK
<1>3. \A r \in Run : Upset(r)'
  BY <1>1 DEF OutcomeInd, Upset, runVars
<1>4. ASSUME NEW r \in Run, Sound(Target[r])' PROVE Outcome(r)'
  <2>1. Outcome(r) /\ Target[r] \in Conn \ {c}
    BY <1>1, <1>4, ConstantsAssumption DEF OutcomeInd, Sound
  <2> QED
    BY <1>1, <1>2, <2>1 DEF Outcome, Present, Faithful, Recorded, Saving, Complete, runVars
<1>5. ASSUME NEW d \in Conn, Sound(d)' PROVE Backed(d)'
  <2>1. Backed(d) /\ d # c
    BY <1>1, <1>5 DEF OutcomeInd, Sound
  <2> QED BY <1>1, <1>2, <2>1 DEF Backed, Complete
<1> QED BY <1>3, <1>4, <1>5 DEF OutcomeInd

\* A run that is lost has no outcome to record.
LEMMA CrashOutcome ==
  ASSUME Ind, OutcomeInd, Crash
  PROVE  OutcomeInd'
<1>1. UNCHANGED <<dbVars, pos, broken, found, saw, removed, faults>>
  BY DEF Crash
<1>2. \A r \in Run : /\ pc'[r] = (IF pc[r] \in Active THEN "lost" ELSE pc[r])
                     /\ sess'[r] /\ ~held'[r]
  BY DEF Crash
<1>3. \A r \in Run : Upset(r)'
  BY <1>1, <1>2 DEF OutcomeInd, Upset, Active
<1>4. ASSUME NEW r \in Run, Sound(Target[r])' PROVE Outcome(r)'
  <2>1. Outcome(r) BY <1>1, <1>4 DEF OutcomeInd, Sound
  <2>2. Present(r)' /\ Faithful(r)' /\ Saving(r)'
    BY <1>1, <1>2, <2>1 DEF Outcome, Present, Faithful, Saving, Active, dbVars
  <2>3. Recorded(r)'
    BY <1>1, <1>2, <2>1 DEF Outcome, Recorded, Complete, Active, dbVars
  <2> QED BY <2>2, <2>3 DEF Outcome
<1>5. ASSUME NEW d \in Conn, Sound(d)' PROVE Backed(d)'
  BY <1>1, <1>5 DEF OutcomeInd, Sound, Backed, Complete, dbVars
<1> QED BY <1>3, <1>4, <1>5 DEF OutcomeInd

\* In the first state nothing is on record.
LEMMA InitOutcome == Init => OutcomeInd
<1> SUFFICES ASSUME Init PROVE OutcomeInd
  OBVIOUS
<1>1. \A r \in Run : Upset(r) /\ Present(r) /\ Faithful(r) /\ Saving(r)
  BY DEF Init, Upset, Present, Faithful, Saving
<1>2. \A r \in Run : Recorded(r)
  BY ConstantsAssumption DEF Init, Recorded
<1>3. \A c \in Conn : Backed(c)
  BY DEF Init, Backed
<1> QED BY <1>1, <1>2, <1>3 DEF OutcomeInd, Outcome

\* Every step preserves the invariant.
LEMMA NextOutcome ==
  ASSUME Ind, OutcomeInd, [Next]_vars
  PROVE  OutcomeInd'
<1>1. CASE UNCHANGED vars
  <2>1. \A r \in Run : Upset(r)' /\ (Sound(Target[r])' => Present(r)' /\ Faithful(r)' /\ Saving(r)')
    BY <1>1 DEF vars, dbVars, runVars, bookVars, OutcomeInd, Upset, Sound, Outcome, Present,
                Faithful, Saving
  <2>2. \A r \in Run : Sound(Target[r])' => Recorded(r)'
    BY <1>1 DEF vars, dbVars, runVars, bookVars, OutcomeInd, Sound, Outcome, Recorded, Complete
  <2>3. \A c \in Conn : Sound(c)' => Backed(c)'
    BY <1>1 DEF vars, dbVars, bookVars, OutcomeInd, Sound, Backed, Complete
  <2> QED BY <2>1, <2>2, <2>3 DEF OutcomeInd, Outcome
<1>2. ASSUME NEW c \in Conn, Connect(c) \/ Delete(c) PROVE OutcomeInd'
  BY <1>2, ConnectOutcome, DeleteOutcome
<1>3. ASSUME NEW r \in Run, ConnectAndDiscover(r) \/ StartDiscovery(r) PROVE OutcomeInd'
  BY <1>3, ConnectAndDiscoverOutcome, StartDiscoveryOutcome
<1>4. ASSUME NEW r \in Run, Progress(r) PROVE OutcomeInd'
  BY <1>4, PrepareRunOutcome, BeginRunOutcome, RunStepOutcome, FailStepOutcome,
     SelectVersionOutcome, WriteMapOutcome, CommitStepOutcome, LoseStepOutcome,
     FinishRunOutcome, FailRunOutcome DEF Progress
<1>5. CASE Crash
  BY <1>5, CrashOutcome
<1> QED
  BY <1>1, <1>2, <1>3, <1>4, <1>5 DEF Next

-----------------------------------------------------------------------------
(* What is on record *)

\* The invariant holds in every state of every behaviour.
THEOREM OutcomeInvariance == Spec => [](Ind /\ OutcomeInd)
<1>1. Init => Ind /\ OutcomeInd
  BY InitInd, InitOutcome
<1>2. (Ind /\ OutcomeInd) /\ [Next]_vars => (Ind /\ OutcomeInd)'
  BY NextInd, NextOutcome
<1> QED
  BY <1>1, <1>2, PTL DEF Spec

\* How run() ended is on record: while the database does not fail, a run that
\* returned left a READY row and no ERROR row, a run that raised the reverse.
THEOREM OutcomeRecordedHolds == Spec => []OutcomeRecorded
<1>1. Ind /\ OutcomeInd => OutcomeRecorded
  <2> SUFFICES ASSUME OutcomeInd, NEW r \in Run, Sound(Target[r])
               PROVE  LET stored == {RowStatus(x) : x \in {y \in log[Target[r]] : y.run = r}}
                      IN  /\ pc[r] = "returned" => "READY" \in stored /\ "ERROR" \notin stored
                          /\ pc[r] = "raised" => "ERROR" \in stored /\ "READY" \notin stored
    BY DEF OutcomeRecorded, Sound
  <2>1. Recorded(r)
    BY DEF OutcomeInd, Outcome
  <2>2. \A x \in log[Target[r]] : /\ RowStatus(x) = "READY" <=> Complete(x)
                                  /\ RowStatus(x) = "ERROR" <=> x.failed
    BY DEF RowStatus, Complete
  <2> QED
    BY <2>1, <2>2 DEF Recorded
<1> QED
  BY <1>1, OutcomeInvariance, PTL

\* While the database does not fail, a connection that reads READY has a map
\* that questions can be asked of: in every interleaving of every number of
\* discoveries, with crashes, a save is only ever lost to another map.
THEOREM ReadyIsQueryableHolds == Spec => []ReadyIsQueryable
<1>1. Ind /\ OutcomeInd => ReadyIsQueryable
  <2> SUFFICES ASSUME OutcomeInd, NEW c \in Conn, Sound(c),
                      "READY" \in Reports(c) \/ status[c] = "READY"
               PROVE  header[c] # NoRun
    BY DEF ReadyIsQueryable, Sound
  <2>1. Backed(c)
    BY DEF OutcomeInd
  <2>2. CASE status[c] = "READY"
    BY <2>1, <2>2 DEF Backed
  <2>3. CASE "READY" \in Reports(c)
    <3>1. ASSUME header[c] = NoRun
          PROVE  \E x \in log[c] : RowStatus(x) = "READY"
      BY <2>3, <3>1 DEF Reports, NewestRows
    <3>2. \A x \in log[c] : RowStatus(x) = "READY" => Complete(x)
      BY DEF RowStatus, Complete
    <3> QED BY <2>1, <3>1, <3>2 DEF Backed
  <2> QED BY <2>2, <2>3
<1> QED
  BY <1>1, OutcomeInvariance, PTL

-----------------------------------------------------------------------------
(* The first discovery of a connection *)

\* Run r is the only discovery its connection ever had.
Alone(r) == \A w \in Run : Target[w] = Target[r] /\ pc[w] # "idle" => w = r

\* Nobody else stored a map; r did so in its last commit, whole.
First(r) ==
  /\ header[Target[r]] \in {NoRun, r}
  /\ pc[r] \in {"idle", "prep", "queued", "body", "write", "persist"} => header[Target[r]] = NoRun
  /\ header[Target[r]] = r => \A t \in found[r] : owner[Target[r]][t] = r

FirstInd == \A r \in Run : Sound(Target[r]) /\ Alone(r) => First(r)

\* A run that started is not idle again.
LEMMA NotIdleAgain ==
  ASSUME Ind, NEW r \in Run, ConnectAndDiscover(r) \/ StartDiscovery(r) \/ Progress(r)
  PROVE  pc'[r] # "idle" /\ \A w \in Run \ {r} : pc'[w] = pc[w]
<1>1. TypeOK BY DEF Ind
<1>2. CASE ConnectAndDiscover(r) \/ StartDiscovery(r)
  BY <1>1, <1>2 DEF ConnectAndDiscover, StartDiscovery, TypeOK
<1>3. CASE PrepareRun(r) \/ BeginRun(r) \/ RunStep(r) \/ FailStep(r) \/ SelectVersion(r) \/ WriteMap(r)
  BY <1>1, <1>3 DEF PrepareRun, BeginRun, RunStep, FailStep, SelectVersion, WriteMap, TypeOK
<1>4. CASE CommitStep(r) \/ LoseStep(r) \/ FinishRun(r) \/ FailRun(r)
  BY <1>1, <1>4 DEF CommitStep, LoseStep, FinishRun, FailRun, TypeOK
<1> QED BY <1>2, <1>3, <1>4 DEF Progress

\* A step of a run is nothing to a run that is alone on another connection.
LEMMA FirstOfOthers ==
  ASSUME Ind, FirstInd, NEW r \in Run,
         pc'[r] # "idle",
         \A w \in Run \ {r} : pc'[w] = pc[w] /\ found'[w] = found[w],
         \A c \in Conn \ {Target[r]} : header'[c] = header[c] /\ owner'[c] = owner[c],
         removed' = removed, faults' = 0 => faults = 0,
         Sound(Target[r])' /\ Alone(r)' /\ First(r) => First(r)'
  PROVE  FirstInd'
<1>1. SUFFICES ASSUME NEW w \in Run, Sound(Target[w])', Alone(w)'
               PROVE  First(w)'
  BY DEF FirstInd
<1>2. Sound(Target[w])
  BY <1>1 DEF Sound
<1>3. Target[w] \in Conn
  BY ConstantsAssumption
<1>4. CASE w = r
  <2>1. Alone(r) BY <1>1, <1>4 DEF Alone
  <2> QED BY <1>1, <1>2, <1>4, <2>1 DEF FirstInd
<1>5. CASE w # r
  <2>1. Target[w] # Target[r]
    BY <1>1, <1>5 DEF Alone
  <2>2. Alone(w)
    BY <1>1, <1>5, <2>1 DEF Alone
  <2>3. First(w)
    BY <1>2, <2>2 DEF FirstInd
  <2> QED BY <1>3, <1>5, <2>1, <2>3 DEF First
<1> QED BY <1>4, <1>5

\* A step of a run: its map appears with the commit that follows its last step.
LEMMA RunFirst ==
  ASSUME Ind, OutcomeInd, FirstInd, NEW r \in Run,
         ConnectAndDiscover(r) \/ StartDiscovery(r) \/ Progress(r)
  PROVE  FirstInd'
<1>1. pc'[r] # "idle" /\ \A w \in Run \ {r} : pc'[w] = pc[w]
  BY NotIdleAgain
<1>2. Target[r] \in Conn /\ TypeOK
  BY ConstantsAssumption DEF Ind
<1>3. /\ \A w \in Run \ {r} : found'[w] = found[w]
      /\ \A c \in Conn \ {Target[r]} : header'[c] = header[c] /\ owner'[c] = owner[c]
      /\ removed' = removed /\ (faults' = 0 => faults = 0)
  <2>1. CASE ConnectAndDiscover(r)
    BY <1>2, <2>1, Connected DEF ConnectAndDiscover
  <2>2. CASE StartDiscovery(r) \/ Progress(r)
    BY <2>2, QuietLocal, WritingLocal DEF Progress, Local
  <2> QED BY <2>1, <2>2
<1>4. ASSUME First(r) PROVE First(r)'
  <2>1. CASE \/ ConnectAndDiscover(r) \/ StartDiscovery(r) \/ PrepareRun(r) \/ BeginRun(r)
             \/ FailStep(r) \/ SelectVersion(r) \/ WriteMap(r)
    <3>1. UNCHANGED <<header, owner, found>>
          /\ pc[r] \in {"idle", "prep", "queued", "body", "write"}
      BY <2>1 DEF ConnectAndDiscover, StartDiscovery, PrepareRun, BeginRun, FailStep,
                  SelectVersion, WriteMap, dbVars
    <3> QED BY <1>4, <3>1 DEF First
  <2>2. CASE RunStep(r)
    <3>1. UNCHANGED <<header, owner>> /\ pc[r] = "body"
      BY <2>2 DEF RunStep, dbVars
    <3> QED BY <1>4, <3>1, ConstantsAssumption DEF First
  <2>3. CASE CommitStep(r)
    <3>1. UNCHANGED found /\ pc[r] = "persist" /\ header[Target[r]] = NoRun
          /\ pc'[r] = (IF pos[r] = NSteps THEN "final" ELSE "body")
      BY <1>2, <1>4, <2>3 DEF CommitStep, First, TypeOK
    <3>2. CASE held[r]
      <4>1. pos[r] = NSteps
        BY <3>2 DEF Ind, Pending
      <4>2. header'[Target[r]] = r
        BY <1>2, <2>3, <3>1, <3>2 DEF CommitStep, PublishHeld, TypeOK
      <4>3. \A t \in found[r] : owner'[Target[r]][t] = r
        <5>1. owner'[Target[r]] = MapAfterSave(r)
          BY <2>3, <3>2, CommitPublishes
        <5>2. found[r] \subseteq Table
          BY <1>2 DEF TypeOK
        <5> QED BY <5>1, <5>2 DEF MapAfterSave
      <4> QED BY <3>1, <4>1, <4>2, <4>3 DEF First
    <3>3. CASE ~held[r]
      BY <2>3, <3>1, <3>3, ConstantsAssumption DEF CommitStep, PublishHeld, First
    <3> QED BY <3>2, <3>3
  <2>4. CASE LoseStep(r)
    <3>1. UNCHANGED <<header, owner, found>> /\ pc[r] = "persist"
      BY <2>4 DEF LoseStep, dbVars
    <3> QED BY <1>4, <3>1, ConstantsAssumption DEF First
  <2>5. CASE FinishRun(r) \/ FailRun(r)
    <3>1. UNCHANGED <<header, owner, found>> /\ pc'[r] \in {"returned", "failing", "raised"}
      BY <1>2, <2>5 DEF FinishRun, FailRun, TypeOK
    <3> QED BY <1>4, <3>1 DEF First
  <2> QED BY <2>1, <2>2, <2>3, <2>4, <2>5 DEF Progress
<1> QED
  BY <1>1, <1>3, <1>4, FirstOfOthers

\* The other steps: a delete ends what is said of its connection.
LEMMA ElseFirst ==
  ASSUME Ind, FirstInd,
         \/ \E c \in Conn : Connect(c) \/ Delete(c)
         \/ Crash
         \/ UNCHANGED vars
  PROVE  FirstInd'
<1>1. SUFFICES ASSUME NEW r \in Run, Sound(Target[r])', Alone(r)' PROVE First(r)'
  BY DEF FirstInd
<1>2. Target[r] \in Conn
  BY ConstantsAssumption
<1>3. ASSUME NEW c \in Conn, Connect(c) PROVE First(r)'
  <2>1. UNCHANGED <<header, owner, runVars, removed>> /\ (faults' = 0 => faults = 0)
    BY <1>3, Connected DEF Connect
  <2>2. First(r)
    BY <1>1, <2>1 DEF FirstInd, Sound, Alone, runVars
  <2> QED BY <2>1, <2>2 DEF First, runVars
<1>4. ASSUME NEW c \in Conn, Delete(c) PROVE First(r)'
  <2>1. /\ UNCHANGED runVars /\ (faults' = 0 => faults = 0) /\ removed' = removed \cup {c}
        /\ \A d \in Conn \ {c} : header'[d] = header[d] /\ owner'[d] = owner[d]
    BY <1>4, FaultsStay DEF Delete, Ind, TypeOK
  <2>2. Target[r] # c /\ First(r)
    BY <1>1, <2>1 DEF FirstInd, Sound, Alone, runVars
  <2> QED BY <1>2, <2>1, <2>2 DEF First, runVars
<1>5. CASE Crash
  <2>1. /\ UNCHANGED <<header, owner, found, removed, faults>>
        /\ \A w \in Run : pc'[w] = (IF pc[w] \in Active THEN "lost" ELSE pc[w])
    BY <1>5 DEF Crash, dbVars
  <2>2. First(r)
    BY <1>1, <2>1 DEF FirstInd, Sound, Alone
  <2> QED BY <2>1, <2>2 DEF First
<1>6. CASE UNCHANGED vars
  <2>1. First(r)
    BY <1>1, <1>6 DEF vars, dbVars, runVars, bookVars, FirstInd, Sound, Alone
  <2> QED BY <1>6, <2>1 DEF vars, dbVars, runVars, First
<1> QED
  BY <1>3, <1>4, <1>5, <1>6

\* The only discovery a connection ever had, once it is READY, is the map that
\* is stored, with every table it found, while the database does not fail.
THEOREM FirstDiscoveryStoredHolds == Spec => []FirstDiscoveryStored
<1>1. Init => FirstInd
  BY ConstantsAssumption DEF Init, FirstInd, First
<1>2. Ind /\ OutcomeInd /\ FirstInd /\ [Next]_vars => FirstInd'
  BY RunFirst, ElseFirst DEF Next
<1>3. Ind /\ OutcomeInd /\ FirstInd => FirstDiscoveryStored
  <2> SUFFICES ASSUME Ind, OutcomeInd, FirstInd, NEW r \in Run,
                      Sound(Target[r]), HasReadyRow(r), Alone(r)
               PROVE  header[Target[r]] = r /\ Contribution(Target[r], r) = found[r]
    BY DEF FirstDiscoveryStored, Sound, Alone
  <2>1. Target[r] \in Conn /\ found[r] \subseteq Table
    BY ConstantsAssumption DEF Ind, TypeOK
  <2>2. \E x \in log[Target[r]] : Complete(x)
    BY DEF HasReadyRow, RowStatus, Complete
  <2>3. header[Target[r]] # NoRun
    BY <2>1, <2>2 DEF OutcomeInd, Backed
  <2>4. header[Target[r]] = r /\ \A t \in found[r] : owner[Target[r]][t] = r
    BY <2>3 DEF FirstInd, First
  <2>5. \A t \in Table : owner[Target[r]][t] = r => t \in found[r]
    BY <2>1 DEF Ind, Stored
  <2> QED BY <2>1, <2>4, <2>5 DEF Contribution
<1> QED
  BY <1>1, <1>2, <1>3, OutcomeInvariance, PTL DEF Spec

-----------------------------------------------------------------------------
(* What is gone *)

\* A step of run r leaves a connection that is gone, and has no active run.
LEMMA RunLeavesGone ==
  ASSUME TypeOK, NEW c \in used, NEW r \in Run, kind[c] = "absent", ActiveOn(c) = {},
         ConnectAndDiscover(r) \/ StartDiscovery(r) \/ Progress(r)
  PROVE  Target[r] # c /\ kind'[c] = "absent" /\ \A w \in Run \ {r} : pc'[w] = pc[w]
<1>0. c \in Conn /\ Target[r] \in Conn
  BY ConstantsAssumption DEF TypeOK
<1>1. Target[r] # c
  BY <1>0 DEF ConnectAndDiscover, StoreConnection, StartDiscovery, MayStart, ActiveOn, Active,
          Progress, PrepareRun, BeginRun, RunStep, FailStep, SelectVersion, WriteMap,
          CommitStep, LoseStep, FinishRun, FailRun
<1>2. kind'[c] = kind[c]
  <2>1. CASE ConnectAndDiscover(r)
    BY <1>0, <1>1, <2>1 DEF ConnectAndDiscover, StoreConnection, TypeOK
  <2>2. CASE PrepareRun(r) \/ BeginRun(r) \/ CommitStep(r) \/ FinishRun(r) \/ FailRun(r)
    BY <1>0, <1>1, <2>2 DEF PrepareRun, BeginRun, CommitStep, FinishRun, FailRun, PersistRun,
                            NothingPersisted, TypeOK
  <2>3. CASE \/ StartDiscovery(r) \/ RunStep(r) \/ FailStep(r) \/ SelectVersion(r)
             \/ WriteMap(r) \/ LoseStep(r)
    BY <2>3 DEF StartDiscovery, RunStep, FailStep, SelectVersion, WriteMap, LoseStep, dbVars
  <2> QED BY <2>1, <2>2, <2>3 DEF Progress
<1>3. \A w \in Run \ {r} : pc'[w] = pc[w]
  <2>1. CASE ConnectAndDiscover(r) \/ StartDiscovery(r) \/ PrepareRun(r) \/ BeginRun(r) \/ RunStep(r)
    BY <2>1 DEF ConnectAndDiscover, StartDiscovery, PrepareRun, BeginRun, RunStep, TypeOK
  <2>2. CASE FailStep(r) \/ SelectVersion(r) \/ WriteMap(r) \/ CommitStep(r)
    BY <2>2 DEF FailStep, SelectVersion, WriteMap, CommitStep, TypeOK
  <2>3. CASE LoseStep(r) \/ FinishRun(r) \/ FailRun(r)
    BY <2>3 DEF LoseStep, FinishRun, FailRun, TypeOK
  <2> QED BY <2>1, <2>2, <2>3 DEF Progress
<1> QED BY <1>1, <1>2, <1>3

\* A connection that is gone while no run is at work on it stays gone: no
\* placeholder brings it back, and no id is handed out twice.
THEOREM GoneForGoodHolds == Spec => GoneForGood
<1>1. TypeOK /\ [Next]_vars =>
        [\A c \in used : kind[c] = "absent" /\ ActiveOn(c) = {} =>
           kind'[c] = "absent" /\ ActiveOn(c)' = {}]_vars
  <2> SUFFICES ASSUME TypeOK, Next, NEW c \in used, kind[c] = "absent", ActiveOn(c) = {}
               PROVE  kind'[c] = "absent" /\ ActiveOn(c)' = {}
    OBVIOUS
  <2>0. c \in Conn
    BY DEF TypeOK
  <2>1. ASSUME NEW r \in Run, ConnectAndDiscover(r) \/ StartDiscovery(r) \/ Progress(r)
        PROVE  kind'[c] = "absent" /\ ActiveOn(c)' = {}
    BY <2>1, RunLeavesGone DEF ActiveOn
  <2>2. ASSUME NEW d \in Conn, Connect(d)
        PROVE  kind'[c] = "absent" /\ ActiveOn(c)' = {}
    BY <2>0, <2>2 DEF Connect, StoreConnection, ActiveOn, runVars, TypeOK
  <2>3. ASSUME NEW d \in Conn, Delete(d)
        PROVE  kind'[c] = "absent" /\ ActiveOn(c)' = {}
    BY <2>0, <2>3 DEF Delete, ActiveOn, runVars, TypeOK
  <2>4. CASE Crash
    BY <2>4 DEF Crash, ActiveOn, dbVars, Active
  <2> QED
    BY <2>1, <2>2, <2>3, <2>4 DEF Next
<1> QED
  BY <1>1, TypeCorrect, PTL DEF Spec, GoneForGood
===============================================================================
