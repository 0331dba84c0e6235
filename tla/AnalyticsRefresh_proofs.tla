----------------------- MODULE AnalyticsRefresh_proofs -----------------------
(***************************************************************************)
(* The ledger row, for any number of attempts, retries, orphans, cleared   *)
(* tasks and failures.  Every step of the specification is looked at twice: *)
(* for what it makes of the row, and for what it makes of the attempts.    *)
(***************************************************************************)
EXTENDS AnalyticsRefresh, TLAPS

USE DEF Tasks, Called, RunStatus

\* What a step may make of the row.
RowStep ==
    \/ row' = row
    \/ /\ row.status \in {"none", "running", "failed"} /\ row' = Begun
       /\ \E s \in Slots : pc[s] = "begin_run"
    \/ row.status = "running" /\ row' = [row EXCEPT !.source = TRUE]
    \/ row.status = "running" /\ row' = [row EXCEPT !.build = TRUE]
    \/ row.status \in {"running", "failed"} /\ row' = Resumed
    \/ /\ row.status \in {"running", "succeeded"} /\ row' = Finished
       /\ \E s \in Slots : pc[s] = "finish_success"
    \/ /\ row.status \in {"running", "failed"}
       /\ \E origin \in {"callback"} \cup Tasks, b \in BOOLEAN :
            row' = Failed(origin, b)

\* What a step may make of the attempt in slot s while it stays alive.
Moves(s) ==
    \E step \in Step, b \in BOOLEAN :
        /\ pc' = [pc EXCEPT ![s] = step]
        /\ summary' \in {summary, [summary EXCEPT ![s] = b]}
        /\ UNCHANGED airflowVars
        /\ \A t \in Tasks : pc[s] \in StepsOf(t) => step \in StepsOf(t)

\* A live attempt moves on, succeeds with its last write, or raises.
AttemptStep(s) ==
    /\ pc[s] # "free"
    /\ failures' \in {failures, failures + 1} /\ UNCHANGED <<orphans, clears>>
    /\ failures' # failures => failures < MaxFailures
    /\ \/ Moves(s)
       \/ Raise(s)
       \/ /\ Succeed(s)
          /\ \/ pc[s] = "record_source" /\ row' = [row EXCEPT !.source = TRUE]
             \/ pc[s] = "record_build" /\ row' = [row EXCEPT !.build = TRUE]
             \/ pc[s] = "finish_success" /\ row' = Finished

\* Each statement of storage.py writes what RowStep allows (storage.py:16-119).
LEMMA Rows == TypeOK /\ [Next]_vars => RowStep
<1> SUFFICES ASSUME TypeOK, [Next]_vars PROVE RowStep
  OBVIOUS
<1> USE DEF Store, RowStep
<1>1. ASSUME NEW s \in Slots, Attempt(s) PROVE RowStep
  <2>1. CASE begin_run(s) BY <2>1 DEF begin_run
  <2>2. CASE record_watermark(s) BY <2>2 DEF record_watermark
  <2>3. CASE _run(s, "source") BY <2>3 DEF _run, unlink, executor, executor_raises,
                                           parse_dbt_artifact
  <2>4. CASE record_source(s) BY <2>4 DEF record_source
  <2>5. CASE record_failed_source(s) BY <2>5 DEF record_failed_source
  <2>6. CASE resume_build(s) BY <2>6 DEF resume_build
  <2>7. CASE _run(s, "build") BY <2>7 DEF _run, unlink, executor, executor_raises,
                                          parse_dbt_artifact
  <2>8. CASE record_build(s) BY <2>8 DEF record_build
  <2>9. CASE finish_success(s) BY <2>9 DEF finish_success, ClockIsBehind
  <2>10. CASE finish_failure(s)
    <3>1. task \in Tasks /\ summary[s] \in BOOLEAN
      BY DEF TypeOK
    <3> QED BY <2>10, <3>1 DEF finish_failure
  <2> QED BY <1>1, <2>1, <2>2, <2>3, <2>4, <2>5, <2>6, <2>7, <2>8, <2>9, <2>10
          DEF Attempt
<1>2. CASE on_failure_callback
  BY <1>2 DEF on_failure_callback
<1>3. CASE UNCHANGED row
  BY <1>3
<1> QED BY <1>1, <1>2, <1>3 DEF Next, vars, Launch, Orphan, Kill, Clear

\* A step of a live attempt, or Airflow killing it, moves it along its task, or
\* ends it; it succeeds only with its last write (service.py:25-110).
LEMMA Attempts ==
    ASSUME TypeOK, NEW s \in Slots, Attempt(s) \/ Kill(s)
    PROVE  AttemptStep(s)
<1> USE DEF Store, Disrupt, TypeOK
<1>0. pc[s] \in Step /\ summary = [summary EXCEPT ![s] = summary[s]]
  OBVIOUS
<1>1. CASE Kill(s)
  BY <1>1 DEF Kill, AttemptStep
<1>2. ASSUME NEW step \in Step, Goto(s, step),
             \A t \in Tasks : pc[s] \in StepsOf(t) => step \in StepsOf(t)
      PROVE  Moves(s)
  BY <1>2 DEF Goto, Moves
<1>3. ASSUME NEW b \in BOOLEAN, Except(s, b),
             \A t \in Tasks : pc[s] \in StepsOf(t) => "finish_failure" \in StepsOf(t)
      PROVE  Moves(s)
  BY <1>3 DEF Except, Moves, Step
<1> USE DEF AttemptStep
<1>4. CASE begin_run(s)
  BY <1>4, <1>2 DEF begin_run, Step, StepsOf
<1>5. CASE record_watermark(s)
  BY <1>5, <1>2, <1>3 DEF record_watermark, Step, StepsOf
<1>6. ASSUME NEW t \in {"source", "build"}, _run(s, t) PROVE AttemptStep(s)
  <2>1. CASE unlink(s, t) \/ executor(s, t)
    <3>1. pc' = [pc EXCEPT ![s] = pc[s]] \/ Except(s, FALSE)
      BY <2>1 DEF unlink, executor
    <3>2. CASE UNCHANGED <<pc, summary, airflowVars>>
      BY <2>1, <3>2 DEF unlink, executor, InRun, Moves, bounds
    <3> QED BY <2>1, <3>2, <1>3 DEF unlink, executor, InRun, StepsOf, bounds
  <2>2. CASE executor_raises(s, t)
    BY <2>2, <1>3 DEF executor_raises, InRun, StepsOf, bounds
  <2>3. CASE parse_dbt_artifact(s, t)
    BY <2>3, <1>2, <1>3 DEF parse_dbt_artifact, InRun, Step, StepsOf, bounds
  <2> QED BY <1>6, <2>1, <2>2, <2>3 DEF _run
<1>7. CASE record_source(s)
  BY <1>7, <1>3 DEF record_source, StepsOf
<1>8. CASE record_failed_source(s)
  BY <1>8, <1>3 DEF record_failed_source, StepsOf
<1>9. CASE resume_build(s)
  BY <1>9, <1>2, <1>3 DEF resume_build, Step, StepsOf
<1>11. CASE record_build(s)
  BY <1>11, <1>3 DEF record_build, StepsOf
<1>12. CASE finish_success(s)
  BY <1>12 DEF finish_success, ClockIsBehind
<1>13. CASE finish_failure(s)
  BY <1>13 DEF finish_failure
<1> QED
  BY <1>1, <1>4, <1>5, <1>6, <1>7, <1>8, <1>9, <1>11, <1>12, <1>13
     DEF Attempt

\* Commands and artifacts keep their types (runner.py:83-113).
LEMMA DbtTypes ==
    TypeOK /\ [Next]_vars =>
        /\ command' \in [Slots -> {"unlink", "running", "exit_0", "exit_1"}]
        /\ artifact' \in [{"source", "build"} -> Artifact]
<1> SUFFICES ASSUME TypeOK, [Next]_vars
             PROVE  /\ command' \in [Slots -> {"unlink", "running", "exit_0", "exit_1"}]
                    /\ artifact' \in [{"source", "build"} -> Artifact]
  OBVIOUS
<1>0. /\ command \in [Slots -> {"unlink", "running", "exit_0", "exit_1"}]
      /\ artifact \in [{"source", "build"} -> Artifact]
  BY DEF TypeOK
<1>1. ASSUME NEW s \in Slots, Launch(s)
      PROVE  /\ command' \in [Slots -> {"unlink", "running", "exit_0", "exit_1"}]
             /\ artifact' \in [{"source", "build"} -> Artifact]
  BY <1>0, <1>1 DEF Launch, Artifact
<1>2. ASSUME NEW s \in Slots, NEW t \in {"source", "build"}, _run(s, t)
      PROVE  /\ command' \in [Slots -> {"unlink", "running", "exit_0", "exit_1"}]
             /\ artifact' \in [{"source", "build"} -> Artifact]
  <2>1. Written(s, t) \subseteq [{"source", "build"} -> Artifact]
    BY <1>0 DEF Written, Artifact
  <2>2. [artifact EXCEPT ![t] = [state |-> "missing", by |-> NoSlot]]
          \in [{"source", "build"} -> Artifact]
    BY <1>0 DEF Artifact
  <2> QED BY <1>0, <1>2, <2>1, <2>2 DEF _run, unlink, executor, executor_raises,
                                       parse_dbt_artifact, dbtVars
<1>3. CASE UNCHANGED dbtVars
  BY <1>0, <1>3 DEF dbtVars
<1> QED
  BY <1>1, <1>2, <1>3 DEF Next, vars, Attempt, Orphan, Kill, Clear, on_failure_callback,
     begin_run, record_watermark, record_source, record_failed_source, resume_build,
     record_build, finish_success, finish_failure

\* The row and the run's bookkeeping keep their types, and Airflow follows an
\* attempt only while the run goes on (airflow/dags/analytics_refresh.py:35-90).
LEMMA Types == TypeOK /\ Followed /\ [Next]_vars => TypeOK' /\ Followed'
<1> SUFFICES ASSUME TypeOK, Followed, [Next]_vars PROVE TypeOK' /\ Followed'
  OBVIOUS
<1> USE RefreshAssumption
<1>1. row' \in [status : RunStatus \cup {"none"}, source : BOOLEAN,
                build : BOOLEAN, error : {"none", "callback"} \cup Tasks]
  <2>1. RowStep BY Rows
  <2>2. ASSUME NEW origin \in {"callback"} \cup Tasks, NEW b \in BOOLEAN
        PROVE  Failed(origin, b) \in [status : RunStatus \cup {"none"},
                 source : BOOLEAN, build : BOOLEAN,
                 error : {"none", "callback"} \cup Tasks]
    <3>1. (row.build \/ b) \in BOOLEAN
      OBVIOUS
    <3> DEFINE build == row.build \/ b
    <3>2. Failed(origin, b) =
            [row EXCEPT !.status = "failed", !.build = build,
                        !.error = IF @ = "none" THEN origin ELSE @]
      BY DEF Failed
    <3> HIDE DEF build
    <3>3. build \in BOOLEAN
      BY <3>1 DEF build
    <3> QED BY <3>2, <3>3 DEF TypeOK
  <2>3. CASE row' = Begun
    BY <2>3 DEF Begun
  <2>4. CASE \/ row' = row \/ row' = Resumed \/ row' = Finished
             \/ row' = [row EXCEPT !.source = TRUE]
             \/ row' = [row EXCEPT !.build = TRUE]
    BY <2>4 DEF TypeOK, Resumed, Finished
  <2> QED BY <2>1, <2>2, <2>3, <2>4 DEF RowStep
<1>9. /\ command' \in [Slots -> {"unlink", "running", "exit_0", "exit_1"}]
      /\ artifact' \in [{"source", "build"} -> Artifact]
  BY DbtTypes
<1>2. ASSUME NEW s \in Slots, Launch(s) PROVE TypeOK' /\ Followed'
  <2>1. FirstStep(task) \in Step
    BY DEF FirstStep, Step, TypeOK
  <2> QED BY <1>1, <1>9, <1>2, <2>1 DEF Launch, TypeOK, Followed, bounds
<1>3. ASSUME NEW s \in Slots, AttemptStep(s) PROVE TypeOK' /\ Followed'
  <2> USE <1>3 DEF AttemptStep, TypeOK, Followed
  <2>1. failures' \in 0 .. MaxFailures
    OBVIOUS
  <2>2. CASE Moves(s)
    BY <1>1, <1>9, <2>1, <2>2 DEF Moves, airflowVars
  <2>3. CASE Raise(s)
    BY <1>1, <1>9, <2>1, <2>3 DEF Raise, AttemptLost, airflowVars, Step
  <2>4. CASE Succeed(s)
    BY <1>1, <1>9, <2>1, <2>4 DEF Succeed, TaskAfter, airflowVars, Step
  <2> QED BY <2>2, <2>3, <2>4
<1>4. ASSUME NEW s \in Slots, Orphan(s) PROVE TypeOK' /\ Followed'
  BY <1>1, <1>9, <1>4 DEF Orphan, AttemptLost, TypeOK, Followed
<1>5. ASSUME NEW t \in Tasks, Clear(t) PROVE TypeOK' /\ Followed'
  BY <1>1, <1>9, <1>5 DEF Clear, TypeOK, Followed
<1>6. CASE on_failure_callback
  <2>1. dag = "failed" /\ UNCHANGED <<task, tries, tracked, pc, summary, orphans, clears>>
    BY <1>6 DEF on_failure_callback
  <2>2. dag' \in Called
    BY <1>6 DEF on_failure_callback, Store
  <2>3. failures' \in 0 .. MaxFailures
    <3>1. \/ failures' = failures
          \/ failures < MaxFailures /\ failures' = failures + 1
      BY <1>6 DEF on_failure_callback, Store, Disrupt
    <3> QED BY <3>1 DEF TypeOK
  <2> QED BY <1>1, <1>9, <2>1, <2>2, <2>3 DEF TypeOK, Followed
<1>7. CASE UNCHANGED vars
  BY <1>7 DEF vars, airflowVars, dbtVars, bounds, TypeOK, Followed
<1> QED
  BY <1>2, <1>3, <1>4, <1>5, <1>6, <1>7, Attempts DEF Next

\* A row that is begun or resumed runs and has no error; one that succeeds keeps
\* its error column (storage.py:16-51, 85-101).
LEMMA Restarted ==
    TypeOK => /\ Begun.status = "running" /\ Begun.error = "none"
              /\ Resumed.status = "running" /\ Resumed.error = "none"
              /\ Finished.status = "succeeded" /\ Finished.error = row.error
BY DEF TypeOK, Begun, Resumed, Finished

\* No statement takes the error of a row that says failed, or gives one to a row
\* that does not (storage.py:16-119).
LEMMA Errors == TypeOK /\ ErrorMatchesStatus /\ RowStep => ErrorMatchesStatus'
<1> SUFFICES ASSUME TypeOK, ErrorMatchesStatus, RowStep
             PROVE  ErrorMatchesStatus'
  OBVIOUS
<1>1. ASSUME NEW origin \in {"callback"} \cup Tasks, NEW b \in BOOLEAN,
             row' = Failed(origin, b)
      PROVE  row'.status = "failed" /\ row'.error # "none"
  BY <1>1 DEF Failed, TypeOK
<1>2. CASE \/ row' = row
           \/ row.status = "running" /\ row' = [row EXCEPT !.source = TRUE]
           \/ row.status = "running" /\ row' = [row EXCEPT !.build = TRUE]
  BY <1>2 DEF ErrorMatchesStatus, TypeOK
<1>3. CASE row' = Begun \/ row' = Resumed
  BY <1>3, Restarted DEF ErrorMatchesStatus
<1>4. CASE row.status \in {"running", "succeeded"} /\ row' = Finished
  BY <1>4 DEF ErrorMatchesStatus, TypeOK, Finished
<1> QED BY <1>1, <1>2, <1>3, <1>4 DEF RowStep, ErrorMatchesStatus

\* What a step of the attempt Airflow follows does when it is the only one.
\* finish_success is the last task's, begin_run the first one's; a task that
\* succeeds leaves its evidence (service.py:25-110).
LEMMA OnlyAttempt ==
    ASSUME IInv, orphans = 0, NEW s \in Slots, AttemptStep(s), RowStep
    PROVE  /\ (OneAttempt /\ EarlierEvidence)'
           /\ SucceededHasEvidence'
           /\ dag' = "success" => row'.status = "succeeded"
           /\ dag' # "called"
<1> USE DEF IInv, AttemptStep
<1>0. /\ TypeOK /\ tracked = s /\ pc[s] \in StepsOf(task)
      /\ dag = "running" /\ s # NoSlot
      /\ \A r \in Slots : r # s => pc[r] = "free"
  BY RefreshAssumption DEF OneAttempt, Followed
<1>1. \A r \in Slots : pc[r] = "begin_run" => task = "source"
  BY <1>0 DEF StepsOf, TypeOK
<1>2. \A r \in Slots : pc[r] = "finish_success" => task = "success"
  BY <1>0 DEF StepsOf, TypeOK
<1>3. \/ task = "source"
      \/ (row.source => row'.source) /\ (row.build => row'.build)
  <2>1. ASSUME NEW origin \in {"callback"} \cup Tasks, NEW b \in BOOLEAN,
               row' = Failed(origin, b)
        PROVE  row'.source = row.source /\ (row.build => row'.build)
    BY <2>1, <1>0 DEF Failed, TypeOK
  <2> QED BY <1>0, <1>1, <2>1 DEF RowStep, TypeOK, Resumed, Finished
<1>4. row.source \in BOOLEAN /\ row.build \in BOOLEAN /\ task \in Tasks
  BY <1>0 DEF TypeOK
<1>5. ErrorMatchesStatus'
  BY <1>0, Errors
<1>6. SucceededHasEvidence'
  <2>1. CASE /\ row.status \in {"running", "succeeded"} /\ row' = Finished
             /\ \E r \in Slots : pc[r] = "finish_success"
    <3>1. row.source /\ row.build
      BY <2>1, <1>2, <1>0 DEF EarlierEvidence
    <3>2. row'.source = row.source /\ row'.build = row.build /\ row'.status = "succeeded"
      BY <2>1, <1>0 DEF Finished, TypeOK
    <3>3. row'.error = "none"
      BY <3>2, <1>5 DEF ErrorMatchesStatus
    <3> QED BY <3>1, <3>2, <3>3 DEF SucceededHasEvidence
  <2>2. CASE row' = row
    BY <2>2, <1>0 DEF SucceededHasEvidence
  <2>3. CASE row' = Begun \/ row' = Resumed
    BY <2>3, <1>0, Restarted DEF SucceededHasEvidence
  <2>4. CASE /\ row.status = "running"
             /\ \/ row' = [row EXCEPT !.source = TRUE]
                \/ row' = [row EXCEPT !.build = TRUE]
    BY <2>4, <1>0 DEF SucceededHasEvidence, TypeOK
  <2>5. CASE \E origin \in {"callback"} \cup Tasks, b \in BOOLEAN :
               row' = Failed(origin, b)
    BY <2>5, <1>0 DEF SucceededHasEvidence, Failed, TypeOK
  <2> QED BY <2>1, <2>2, <2>3, <2>4, <2>5 DEF RowStep
<1>7. CASE Moves(s)
  <2>1. UNCHANGED <<dag, task, tracked>>
    BY <1>7 DEF Moves, airflowVars
  <2>2. OneAttempt'
    BY <1>7, <1>0, <2>1 DEF Moves, OneAttempt, TypeOK
  <2>3. EarlierEvidence'
    BY <1>3, <1>4, <2>1, <1>0 DEF EarlierEvidence, OneAttempt
  <2> QED BY <2>1, <2>2, <2>3, <1>0, <1>6
<1>8. CASE Raise(s)
  <2>1. task' = task /\ dag' \in {"running", "failed"}
    BY <1>8, <1>0 DEF Raise, AttemptLost
  <2>2. OneAttempt'
    BY <1>8, <1>0 DEF Raise, OneAttempt, TypeOK
  <2>3. EarlierEvidence'
    BY <1>3, <1>4, <2>1 DEF EarlierEvidence
  <2> QED BY <2>1, <2>2, <2>3, <1>6
<1>9. CASE /\ Succeed(s)
           /\ \/ pc[s] = "record_source" /\ row' = [row EXCEPT !.source = TRUE]
              \/ pc[s] = "record_build" /\ row' = [row EXCEPT !.build = TRUE]
              \/ pc[s] = "finish_success" /\ row' = Finished
  <2>1. OneAttempt'
    BY <1>9, <1>0 DEF Succeed, OneAttempt, TypeOK
  <2>2. /\ task' = TaskAfter(task)
        /\ dag' = IF task = "success" THEN "success" ELSE dag
    BY <1>9, <1>0 DEF Succeed
  <2>3. CASE task = "source"
    <3>1. row'.source
      BY <1>9, <2>3, <1>0 DEF StepsOf, TypeOK
    <3> QED BY <3>1, <2>1, <2>2, <2>3, <1>0, <1>6 DEF EarlierEvidence, TaskAfter
  <2>4. CASE task = "build"
    <3>1. row.source
      BY <2>4 DEF EarlierEvidence
    <3>2. row'.source /\ row'.build
      BY <1>9, <2>4, <3>1, <1>0 DEF StepsOf, TypeOK
    <3> QED BY <3>2, <2>1, <2>2, <2>4, <1>0, <1>6 DEF EarlierEvidence, TaskAfter
  <2>5. CASE task = "success"
    <3>1. row.source /\ row.build
      BY <2>5 DEF EarlierEvidence
    <3>2. row' = Finished
      BY <1>9, <2>5, <1>0 DEF StepsOf
    <3>3. row'.source /\ row'.build /\ row'.status = "succeeded"
      BY <3>1, <3>2, <1>0 DEF Finished, TypeOK
    <3> QED BY <3>3, <2>1, <2>2, <2>5, <1>6 DEF EarlierEvidence, TaskAfter
  <2> QED BY <2>3, <2>4, <2>5, <1>4
<1> QED BY <1>7, <1>8, <1>9 DEF AttemptStep

\* IInv holds at first.
LEMMA Initial == Init => IInv
<1> SUFFICES ASSUME Init PROVE IInv
  OBVIOUS
<1> USE DEF Init
<1>1. TypeOK
  <2>1. artifact \in [{"source", "build"} -> Artifact]
    BY DEF Artifact
  <2> QED BY <2>1, RefreshAssumption DEF TypeOK, Step
<1>2. Followed
  BY RefreshAssumption DEF Followed
<1>3. ErrorMatchesStatus /\ SucceededHasEvidence /\ LedgerAgreesWithDag
  BY DEF ErrorMatchesStatus, SucceededHasEvidence, LedgerAgreesWithDag
<1>4. OneAttempt /\ EarlierEvidence
  BY DEF OneAttempt, EarlierEvidence
<1> QED BY <1>1, <1>2, <1>3, <1>4 DEF IInv

\* IInv is kept by every step of an attempt, of Airflow, and of an operator.
LEMMA Inductive == IInv /\ [Next]_vars => IInv'
<1> SUFFICES ASSUME IInv, [Next]_vars PROVE IInv'
  OBVIOUS
<1>0. TypeOK /\ Followed /\ ErrorMatchesStatus
  BY DEF IInv
<1>1. TypeOK' /\ Followed' /\ ErrorMatchesStatus' /\ RowStep
  BY <1>0, Types, Errors, Rows
<1>2. SUFFICES ASSUME orphans' = 0
               PROVE  /\ (OneAttempt /\ EarlierEvidence)'
                      /\ SucceededHasEvidence' /\ LedgerAgreesWithDag'
  BY <1>1, <1>2 DEF IInv, SucceededHasEvidence, LedgerAgreesWithDag
<1>3. ASSUME NEW s \in Slots, Attempt(s) \/ Kill(s)
      PROVE  /\ (OneAttempt /\ EarlierEvidence)'
             /\ SucceededHasEvidence' /\ LedgerAgreesWithDag'
  <2>1. AttemptStep(s)
    BY <1>0, <1>3, Attempts
  <2>2. orphans = 0
    BY <1>2, <2>1 DEF AttemptStep
  <2> QED BY <1>1, <2>1, <2>2, OnlyAttempt DEF LedgerAgreesWithDag
<1>4. ASSUME NEW s \in Slots, Launch(s)
      PROVE  /\ (OneAttempt /\ EarlierEvidence)'
             /\ SucceededHasEvidence' /\ LedgerAgreesWithDag'
  <2> USE <1>4 DEF Launch, bounds
  <2>1. orphans = 0 /\ OneAttempt /\ EarlierEvidence
    BY <1>2 DEF IInv
  <2>2. OneAttempt'
    BY <2>1, <1>0, RefreshAssumption DEF OneAttempt, TypeOK, FirstStep, StepsOf
  <2>3. EarlierEvidence' /\ SucceededHasEvidence' /\ LedgerAgreesWithDag'
    BY <2>1 DEF IInv, EarlierEvidence, SucceededHasEvidence, LedgerAgreesWithDag
  <2> QED BY <2>2, <2>3
<1>5. ASSUME NEW s \in Slots, Orphan(s) PROVE FALSE
  BY <1>0, <1>2, <1>5 DEF Orphan, TypeOK
<1>6. ASSUME NEW t \in Tasks, Clear(t)
      PROVE  /\ (OneAttempt /\ EarlierEvidence)'
             /\ SucceededHasEvidence' /\ LedgerAgreesWithDag'
  <2> USE <1>6 DEF Clear
  <2>1. orphans = 0 /\ OneAttempt /\ EarlierEvidence /\ tracked = NoSlot
    BY <1>2, <1>0 DEF IInv, Followed
  <2>2. OneAttempt'
    BY <2>1, RefreshAssumption DEF OneAttempt
  <2>3. EarlierEvidence'
    BY <2>1, <1>0 DEF EarlierEvidence, UpTo, TypeOK
  <2>4. SucceededHasEvidence' /\ LedgerAgreesWithDag'
    BY <2>1 DEF IInv, SucceededHasEvidence, LedgerAgreesWithDag
  <2> QED BY <2>2, <2>3, <2>4
<1>7. CASE on_failure_callback
  <2> USE <1>7 DEF on_failure_callback
  <2>1. orphans = 0 /\ OneAttempt /\ EarlierEvidence /\ SucceededHasEvidence
    BY <1>2 DEF IInv
  <2>2. OneAttempt'
    BY <2>1 DEF OneAttempt
  <2>3. row' \in {row, Failed("callback", FALSE)}
    BY DEF Store
  <2>4. /\ Failed("callback", FALSE).status = "failed"
        /\ Failed("callback", FALSE).source = row.source
        /\ row.build => Failed("callback", FALSE).build
    BY <1>0 DEF Failed, TypeOK
  <2>5. EarlierEvidence' /\ SucceededHasEvidence'
    BY <2>1, <2>3, <2>4 DEF EarlierEvidence, SucceededHasEvidence
  <2>6. dag' = "called" => row' = Failed("callback", FALSE)
    BY DEF Store
  <2>7. dag' \in Called
    BY DEF Store
  <2>8. LedgerAgreesWithDag'
    BY <2>4, <2>6, <2>7 DEF LedgerAgreesWithDag
  <2> QED BY <2>2, <2>5, <2>8
<1>8. CASE UNCHANGED vars
  BY <1>2, <1>8 DEF vars, airflowVars, bounds, IInv, OneAttempt, EarlierEvidence,
     SucceededHasEvidence, LedgerAgreesWithDag
<1> QED BY <1>3, <1>4, <1>5, <1>6, <1>7, <1>8 DEF Next

-----------------------------------------------------------------------------

\* The invariant of every reachable state.
THEOREM Invariant == Spec => []IInv
BY Initial, Inductive, PTL DEF Spec

\* The row and the run's bookkeeping keep their types (storage.py:16-119).
THEOREM TypeCorrect == Spec => []TypeOK
<1>1. IInv => TypeOK
  BY DEF IInv
<1> QED BY <1>1, Invariant, PTL

\* A row that says failed says why, one that does not has no error, whatever
\* order orphans, retries and callbacks write in (storage.py:16-119).
THEOREM ErrorMatches == Spec => []ErrorMatchesStatus
<1>1. IInv => ErrorMatchesStatus
  BY DEF IInv
<1> QED BY <1>1, Invariant, PTL

\* While no attempt is orphaned, a succeeded row shows the evidence of both steps
\* (service.py:33-70).
THEOREM SucceededShowsEvidence == Spec => []SucceededHasEvidence
<1>1. IInv => SucceededHasEvidence
  BY DEF IInv
<1> QED BY <1>1, Invariant, PTL

\* While no attempt is orphaned, the row agrees with what Airflow makes of the
\* DAG run (airflow/dags/analytics_refresh.py:24-33).
THEOREM LedgerAgrees == Spec => []LedgerAgreesWithDag
<1>1. IInv => LedgerAgreesWithDag
  BY DEF IInv
<1> QED BY <1>1, Invariant, PTL

\* The row moves only as the transition table allows, orphans and cleared tasks
\* included (models.py:17-28).
THEOREM FollowsTransitions == Spec => RowFollowsTransitions
<1>1. IInv /\ [Next]_vars => [row'.status \in Allowed[row.status]]_vars
  <2> SUFFICES ASSUME IInv, [Next]_vars PROVE row'.status \in Allowed[row.status]
    OBVIOUS
  <2>1. TypeOK /\ RowStep
    BY Rows DEF IInv
  <2>2. ASSUME NEW origin \in {"callback"} \cup Tasks, NEW b \in BOOLEAN,
               row' = Failed(origin, b)
        PROVE  row'.status = "failed"
    BY <2>1, <2>2 DEF Failed, TypeOK
  <2>3. /\ Allowed["none"] = {"none", "running"}
        /\ Allowed["running"] = {"running", "succeeded", "failed"}
        /\ Allowed["failed"] = {"running", "failed"}
        /\ Allowed["succeeded"] = {"succeeded"}
    BY DEF Allowed
  <2>4. ASSUME row.status = "running",
               \/ row' = [row EXCEPT !.source = TRUE]
               \/ row' = [row EXCEPT !.build = TRUE]
        PROVE  row'.status = "running"
    BY <2>1, <2>4 DEF TypeOK
  <2>5. row.status \in {"none", "running", "failed", "succeeded"}
    BY <2>1 DEF TypeOK
  <2> QED BY <2>1, <2>2, <2>3, <2>4, <2>5, Restarted DEF RowStep
<1> QED BY <1>1, Invariant, PTL DEF Spec, RowFollowsTransitions

\* A failed row keeps its first error until a retry restarts it
\* (storage.py:114-115).
THEOREM FirstErrorKept == Spec => FirstErrorIsKept
<1>1. IInv /\ [Next]_vars =>
        [row.status = "failed" /\ row'.status = "failed" => row'.error = row.error]_vars
  <2> SUFFICES ASSUME IInv, [Next]_vars, row.status = "failed", row'.status = "failed"
               PROVE  row'.error = row.error
    OBVIOUS
  <2>1. TypeOK /\ RowStep /\ row.error # "none"
    BY Rows DEF IInv, ErrorMatchesStatus
  <2>2. ASSUME NEW origin \in {"callback"} \cup Tasks, NEW b \in BOOLEAN,
               row' = Failed(origin, b)
        PROVE  row'.error = row.error
    BY <2>1, <2>2 DEF Failed, TypeOK
  <2> QED BY <2>1, <2>2, Restarted DEF RowStep
<1> QED BY <1>1, Invariant, PTL DEF Spec, FirstErrorIsKept

-----------------------------------------------------------------------------
(* dbt's artifacts.                                                        *)

\* Without orphans a step of one attempt is the only one that can be: the others are
\* free, and stay so.
LEMMA OthersAreFree ==
    ASSUME IInv, orphans = 0, NEW s \in Slots, Attempt(s), NEW d \in Slots \ {s}
    PROVE  pc[d] = "free" /\ pc'[d] = "free"
<1>1. AttemptStep(s) /\ pc[s] # "free"
  BY Attempts DEF IInv, AttemptStep
<1>2. pc[d] = "free"
  BY <1>1 DEF IInv, OneAttempt
<1>3. \E step : pc' = [pc EXCEPT ![s] = step]
  BY <1>1 DEF AttemptStep, Moves, Raise, Succeed
<1> QED BY <1>2, <1>3 DEF IInv, TypeOK

\* Each step of a command leaves the attempt with the file of its own command or
\* with none (runner.py:90-113).
LEMMA RunKeeps ==
    ASSUME IInv, ArtifactInv, NEW s \in Slots, NEW t \in {"source", "build"}, _run(s, t)
    PROVE  ArtifactInv'
<1>1. /\ pc \in [Slots -> Step] /\ command \in [Slots -> {"unlink", "running", "exit_0", "exit_1"}]
      /\ artifact \in [{"source", "build"} -> Artifact]
  BY DEF IInv, TypeOK
<1>2. InRun(s, t) /\ Attempt(s) /\ UNCHANGED orphans
  BY DEF _run, unlink, executor, executor_raises, parse_dbt_artifact, Attempt, bounds
<1>3. pc[s] \in {"run_freshness", "run_build"}
  BY <1>2 DEF InRun
<1>4. \/ pc' = pc
      \/ \E step \in {"record_source", "record_build", "record_failed_source", "finish_failure"} :
            pc' = [pc EXCEPT ![s] = step]
  BY DEF _run, unlink, executor, executor_raises, parse_dbt_artifact, Goto, Except
<1>5. \A d \in Slots \ {s} : pc'[d] = pc[d] /\ command'[d] = command[d]
  BY <1>1, <1>4 DEF _run, unlink, executor, executor_raises, parse_dbt_artifact, dbtVars
<1>6. pc'[s] \notin {"begin_run", "record_watermark", "resume_build"}
  BY <1>1, <1>3, <1>4
<1>7. FreshCommand'
  BY <1>5, <1>6 DEF ArtifactInv, FreshCommand
<1>8. ASSUME NEW d \in Slots, NEW u \in {"source", "build"}, orphans' = 0, InRun(d, u)',
             command'[d] # "unlink"
      PROVE  artifact'[u].state = "missing" \/ artifact'[u].by = d
  <2>1. d = s
    BY <1>2, <1>8, OthersAreFree DEF InRun
  <2>2. pc' = pc /\ u = t
    BY <1>1, <1>2, <1>4, <1>8, <2>1 DEF InRun
  <2>3. CASE unlink(s, t)
    BY <1>1, <2>1, <2>2, <2>3, <1>8, <1>3 DEF unlink, Except, dbtVars
  <2>4. CASE executor(s, t)
    <3>1. artifact[t].state = "missing" \/ artifact[t].by = s
      BY <1>2, <1>8, <2>4 DEF executor, ArtifactInv, OwnArtifact, bounds
    <3>2. \A state \in {"invalid", "valid"} :
            [artifact EXCEPT ![t] = [state |-> state, by |-> s]][t].by = s
      BY <1>1
    <3> QED BY <2>1, <2>2, <2>4, <3>1, <3>2 DEF executor, Written
  <2>5. CASE executor_raises(s, t)
    BY <1>1, <1>3, <2>2, <2>5 DEF executor_raises, Except
  <2>6. CASE parse_dbt_artifact(s, t)
    BY <1>1, <1>3, <2>2, <2>6 DEF parse_dbt_artifact, Goto, Except
  <2> QED BY <2>3, <2>4, <2>5, <2>6 DEF _run
<1>9. OwnArtifact'
  BY <1>8 DEF OwnArtifact
<1> QED BY <1>7, <1>9 DEF ArtifactInv

\* A new attempt starts its command from the beginning, whoever wrote the file that
\* is there (runner.py:90-91).
LEMMA LaunchKeeps ==
    ASSUME IInv, ArtifactInv, NEW s \in Slots, Launch(s)
    PROVE  ArtifactInv'
<1>1. /\ pc \in [Slots -> Step] /\ command \in [Slots -> {"unlink", "running", "exit_0", "exit_1"}]
      /\ artifact \in [{"source", "build"} -> Artifact] /\ task \in Tasks
  BY DEF IInv, TypeOK
<1>2. /\ pc' = [pc EXCEPT ![s] = FirstStep(task)]
      /\ command' = [command EXCEPT ![s] = "unlink"]
      /\ UNCHANGED orphans /\ tracked = NoSlot
  BY DEF Launch, bounds
<1>3. FreshCommand'
  BY <1>1, <1>2 DEF ArtifactInv, FreshCommand
<1>4. ASSUME orphans = 0, NEW d \in Slots PROVE pc[d] = "free"
  BY <1>2, <1>4, RefreshAssumption DEF IInv, OneAttempt
<1>5. ASSUME orphans' = 0, NEW d \in Slots, NEW u \in {"source", "build"}, InRun(d, u)'
      PROVE  command'[d] = "unlink"
  BY <1>1, <1>2, <1>4, <1>5 DEF InRun
<1>6. OwnArtifact'
  BY <1>5 DEF OwnArtifact
<1> QED BY <1>3, <1>6 DEF ArtifactInv

\* The statements of the service touch no artifact, and none goes back to a command.
LEMMA ServiceKeeps ==
    ASSUME IInv, ArtifactInv, NEW s \in Slots,
           \/ begin_run(s) \/ record_watermark(s) \/ record_source(s)
           \/ record_failed_source(s) \/ resume_build(s) \/ record_build(s)
           \/ finish_success(s) \/ finish_failure(s) \/ Kill(s)
    PROVE  ArtifactInv'
<1>1. pc \in [Slots -> Step]
  BY DEF IInv, TypeOK
<1>2. UNCHANGED <<command, artifact, orphans>>
  BY DEF begin_run, record_watermark, record_source, record_failed_source, resume_build,
     record_build, finish_success, finish_failure, Kill, dbtVars
<1>3. \/ /\ pc[s] \in {"begin_run", "record_watermark", "resume_build"}
         /\ \E step \in Step : pc' = [pc EXCEPT ![s] = step]
      \/ \E step \in {"free", "finish_failure"} : pc' = [pc EXCEPT ![s] = step]
  BY DEF begin_run, record_watermark, record_source, record_failed_source, resume_build,
     record_build, finish_success, finish_failure, Kill, Store, ClockIsBehind, Goto,
     Succeed, Raise, Except, Step
<1>4. FreshCommand'
  BY <1>1, <1>2, <1>3 DEF ArtifactInv, FreshCommand
<1>5. ASSUME NEW d \in Slots, NEW u \in {"source", "build"}, orphans' = 0, InRun(d, u)',
             command'[d] # "unlink"
      PROVE  artifact'[u].state = "missing" \/ artifact'[u].by = d
  <2>1. pc[d] \notin {"begin_run", "record_watermark", "resume_build"}
    BY <1>2, <1>5 DEF ArtifactInv, FreshCommand
  <2>2. pc'[d] \in {"run_freshness", "run_build"}
    BY <1>5 DEF InRun
  <2>3. pc'[d] = pc[d]
    BY <1>1, <1>3, <2>1, <2>2
  <2>4. InRun(d, u)
    BY <1>5, <2>3 DEF InRun
  <2> QED BY <1>2, <1>5, <2>4 DEF ArtifactInv, OwnArtifact
<1>6. OwnArtifact'
  BY <1>5 DEF OwnArtifact
<1> QED BY <1>4, <1>6 DEF ArtifactInv

LEMMA ArtifactsKeep == IInv /\ ArtifactInv /\ [Next]_vars => ArtifactInv'
<1> SUFFICES ASSUME IInv, ArtifactInv, [Next]_vars PROVE ArtifactInv'
  OBVIOUS
<1>1. ASSUME NEW s \in Slots, Attempt(s) PROVE ArtifactInv'
  BY <1>1, RunKeeps, ServiceKeeps DEF Attempt
<1>2. ASSUME NEW s \in Slots, Launch(s) \/ Kill(s) PROVE ArtifactInv'
  BY <1>2, LaunchKeeps, ServiceKeeps
<1>3. ASSUME NEW s \in Slots, Orphan(s) PROVE ArtifactInv'
  <2>1. orphans' # 0 /\ UNCHANGED <<pc, command, artifact>>
    BY <1>3 DEF Orphan, dbtVars, IInv, TypeOK
  <2> QED BY <2>1 DEF ArtifactInv, FreshCommand, OwnArtifact, InRun
<1>4. CASE UNCHANGED <<pc, command, artifact, orphans>>
  BY <1>4 DEF ArtifactInv, FreshCommand, OwnArtifact, InRun
<1> QED
  BY <1>1, <1>2, <1>3, <1>4 DEF Next, vars, dbtVars, bounds, Clear, on_failure_callback

\* While no attempt is orphaned, what an attempt records as the result of its command
\* is what that command wrote (runner.py:90-113).
THEOREM OwnArtifactRead == Spec => OwnArtifactIsRead
<1>1. Init => ArtifactInv
  BY DEF Init, ArtifactInv, FreshCommand, OwnArtifact, InRun
<1>2. Spec => []ArtifactInv
  BY <1>1, ArtifactsKeep, Invariant, PTL DEF Spec
<1>3. ASSUME IInv, ArtifactInv, [Next]_vars, NEW s \in Slots, NEW t \in {"source", "build"},
             orphans = 0, InRun(s, t), pc'[s] # pc[s]
      PROVE  artifact[t].by = s \/ (pc'[s] \in {"finish_failure", "free"} /\ ~ summary'[s])
  <2>1. /\ pc \in [Slots -> Step] /\ summary \in [Slots -> BOOLEAN]
        /\ artifact \in [{"source", "build"} -> Artifact]
    BY <1>3 DEF IInv, TypeOK
  <2>2. pc[s] \in {"run_freshness", "run_build"}
    BY <1>3 DEF InRun
  <2>3. ASSUME NEW d \in Slots \ {s}, Attempt(d) PROVE FALSE
    BY <1>3, <2>2, <2>3, OthersAreFree
  <2>4. ASSUME NEW d \in Slots, Launch(d) PROVE FALSE
    BY <1>3, <2>1, <2>2, <2>4 DEF Launch
  <2>5. ASSUME NEW d \in Slots, Kill(d) PROVE pc'[s] = "free" /\ ~ summary'[s]
    BY <1>3, <2>1, <2>5 DEF Kill, Raise
  <2>6. ASSUME NEW u \in {"source", "build"}, _run(s, u)
        PROVE  artifact[t].by = s \/ (pc'[s] = "finish_failure" /\ ~ summary'[s])
    <3>1. u = t
      BY <1>3, <2>6 DEF _run, unlink, executor, executor_raises, parse_dbt_artifact, InRun
    <3>2. CASE unlink(s, u) \/ executor(s, u) \/ executor_raises(s, u)
      BY <1>3, <2>1, <3>2 DEF unlink, executor, executor_raises, Except
    <3>3. CASE parse_dbt_artifact(s, u)
      <4>1. artifact[t].state = "missing" \/ artifact[t].by = s
        BY <1>3, <3>1, <3>3 DEF parse_dbt_artifact, ArtifactInv, OwnArtifact
      <4> QED BY <2>1, <3>1, <3>3, <4>1 DEF parse_dbt_artifact, Except
    <3> QED BY <2>6, <3>2, <3>3 DEF _run
  <2>7. ASSUME Attempt(s)
        PROVE  artifact[t].by = s \/ (pc'[s] = "finish_failure" /\ ~ summary'[s])
    BY <2>2, <2>6, <2>7 DEF Attempt, begin_run, record_watermark, record_source,
       record_failed_source, resume_build, record_build, finish_success, finish_failure
  <2>8. CASE UNCHANGED pc
    BY <1>3, <2>8
  <2> QED
    BY <1>3, <2>3, <2>4, <2>5, <2>7, <2>8
       DEF Next, vars, Orphan, Clear, on_failure_callback
<1>4. IInv /\ ArtifactInv /\ [Next]_vars =>
        [\A s \in Slots, t \in {"source", "build"} :
            orphans = 0 /\ InRun(s, t) /\ pc'[s] # pc[s] =>
                \/ artifact[t].by = s
                \/ pc'[s] \in {"finish_failure", "free"} /\ ~ summary'[s]]_vars
  BY <1>3
<1> QED BY <1>2, <1>4, Invariant, PTL DEF Spec, OwnArtifactIsRead

-----------------------------------------------------------------------------
(* The callback.                                                           *)

\* Only the callback's own statement comes to a rejection, and behind it nobody
\* is left to write.
LEMMA RejectedStep ==
    IInv /\ RejectedByNoRow /\ [Next]_vars => RejectedByNoRow'
<1> SUFFICES ASSUME IInv, RejectedByNoRow, [Next]_vars, orphans' = 0,
                    dag' = "callback_rejected"
             PROVE  row'.status \in {"none", "succeeded"}
  BY DEF RejectedByNoRow
<1>0. TypeOK
  BY DEF IInv
<1>1. ASSUME NEW s \in Slots, Attempt(s) \/ Kill(s) PROVE FALSE
  <2>1. AttemptStep(s)
    BY <1>0, <1>1, Attempts
  <2>2. orphans = 0 /\ pc[s] # "free"
    BY <2>1 DEF AttemptStep
  <2>3. tracked = s /\ dag = "running"
    BY <2>2, RefreshAssumption DEF IInv, OneAttempt, Followed
  <2> QED BY <2>1, <2>3 DEF AttemptStep, Moves, Raise, Succeed, AttemptLost, airflowVars
<1>2. ASSUME NEW s \in Slots, Launch(s) \/ Orphan(s) PROVE FALSE
  BY <1>2, RefreshAssumption DEF Launch, Orphan, AttemptLost, IInv, Followed
<1>3. ASSUME NEW t \in Tasks, Clear(t) PROVE FALSE
  BY <1>3 DEF Clear
<1>4. CASE on_failure_callback
  BY <1>0, <1>4 DEF on_failure_callback, Store, TypeOK
<1>5. CASE UNCHANGED vars
  BY <1>5 DEF vars, airflowVars, bounds, RejectedByNoRow
<1> QED BY <1>1, <1>2, <1>3, <1>4, <1>5 DEF Next

\* The promise of airflow/dags/analytics_refresh.py:25 holds of every DAG run that
\* has a row, while no attempt is orphaned: the missing row is the only exception.
THEOREM CallbackCloses ==
    Spec => [](orphans = 0 /\ row.status # "none" => CallbackLeavesTerminalRow)
<1>1. Init => RejectedByNoRow
  BY DEF Init, RejectedByNoRow
<1>2. Spec => []RejectedByNoRow
  BY <1>1, RejectedStep, Invariant, PTL DEF Spec
<1>3. IInv /\ RejectedByNoRow =>
        (orphans = 0 /\ row.status # "none" => CallbackLeavesTerminalRow)
  BY DEF IInv, LedgerAgreesWithDag, RejectedByNoRow, CallbackLeavesTerminalRow
<1> QED BY <1>2, <1>3, Invariant, PTL
=============================================================================
