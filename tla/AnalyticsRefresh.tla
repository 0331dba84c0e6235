-------------------------- MODULE AnalyticsRefresh --------------------------
(***************************************************************************)
(* analytics_refresh/service.py over storage.py and runner.py: the row     *)
(* ops.analytics_refresh_runs keeps for one DAG run, the attempts of the   *)
(* DAG's three tasks that write it, and the dbt artifacts they read.       *)
(*                                                                         *)
(* Airflow is external: it starts the attempts of a task one after the     *)
(* other, it may lose sight of an attempt that goes on writing (an         *)
(* orphan), and calls on_failure_callback when a task has failed for good. *)
(* dbt is external: a command writes its artifact or does not, whole or    *)
(* not, and exits with 0 or not, or is killed when its time is up.  All    *)
(* attempts have one target directory; a killed attempt's dbt dies too.    *)
(***************************************************************************)
EXTENDS Naturals, FiniteSets

CONSTANTS
    Slots,        \* attempts that can be alive at one time
    NoSlot,
    MaxTries,     \* attempts of a task: 1 + retries
    MaxFailures,  \* bound: failed calls of the database and kills
    MaxOrphans,   \* bound: attempts Airflow loses sight of
    MaxClears     \* bound: tasks an operator clears

ASSUME RefreshAssumption ==
    /\ NoSlot \notin Slots
    /\ MaxTries \in Nat \ {0}
    /\ MaxFailures \in Nat /\ MaxOrphans \in Nat /\ MaxClears \in Nat

VARIABLES
    row,       \* the ledger row: its status, whether its source and build
               \* summaries are there, and where its error came from
    dag,       \* what Airflow makes of the DAG run
    task,      \* the task whose turn it is
    tries,     \* failed attempts of it
    tracked,   \* the attempt Airflow follows
    pc,        \* pc[s]: the next step of the attempt in slot s
    summary,   \* summary[s]: its error carries a dbt summary
    command,   \* command[s]: where its dbt command is
    artifact,  \* artifact[t]: the file in the target directory that the
               \* command of task t writes, and the attempt that wrote it
    failures, orphans, clears

airflowVars == <<dag, task, tries, tracked>>
bounds == <<failures, orphans, clears>>
dbtVars == <<command, artifact>>
vars == <<row, airflowVars, pc, summary, dbtVars, bounds>>

RunStatus == {"running", "succeeded", "failed"}
Tasks == {"source", "build", "success"}
Called == {"called", "callback_raised", "callback_rejected"}
Step == {"free", "begin_run", "record_watermark", "run_freshness",
         "record_source", "record_failed_source", "resume_build", "run_build",
         "record_build", "finish_success", "finish_failure"}

\* by is NoSlot when the attempt that wrote the file has ended.
Artifact == [state : {"missing", "invalid", "valid"}, by : Slots \cup {NoSlot}]

TypeOK ==
    /\ row \in [status : RunStatus \cup {"none"}, source : BOOLEAN,
                build : BOOLEAN, error : {"none", "callback"} \cup Tasks]
    /\ dag \in {"running", "success", "failed"} \cup Called
    /\ task \in Tasks
    /\ tries \in 0 .. MaxTries
    /\ tracked \in Slots \cup {NoSlot}
    /\ pc \in [Slots -> Step]
    /\ summary \in [Slots -> BOOLEAN]
    /\ command \in [Slots -> {"unlink", "running", "exit_0", "exit_1"}]
    /\ artifact \in [{"source", "build"} -> Artifact]
    /\ failures \in 0 .. MaxFailures
    /\ orphans \in 0 .. MaxOrphans /\ clears \in 0 .. MaxClears

Init ==
    /\ row = [status |-> "none", source |-> FALSE, build |-> FALSE, error |-> "none"]
    /\ dag = "running" /\ task = "source" /\ tries = 0 /\ tracked = NoSlot
    /\ pc = [s \in Slots |-> "free"]
    /\ summary = [s \in Slots |-> FALSE]
    /\ command = [s \in Slots |-> "unlink"]
    /\ artifact = [t \in {"source", "build"} |-> [state |-> "missing", by |-> NoSlot]]
    /\ failures = 0 /\ orphans = 0 /\ clears = 0

-----------------------------------------------------------------------------
(* storage.py: what each statement makes of the row.  Where it says nothing *)
(* of a column, the column stays.                                           *)

Begun ==
    [status |-> "running", source |-> FALSE, build |-> FALSE, error |-> "none"]
Resumed == [row EXCEPT !.status = "running", !.error = "none"]
Finished == [row EXCEPT !.status = "succeeded"]

\* Mutant: no COALESCE, the last error wins.
FailedLast(origin, withBuild) ==
    [row EXCEPT !.status = "failed", !.build = @ \/ withBuild, !.error = origin]

\* COALESCE keeps the error and the summary the row has.
Failed(origin, withBuild) ==
    [row EXCEPT !.status = "failed",
                !.build = @ \/ withBuild,
                !.error = IF @ = "none" THEN origin ELSE @]

Disrupt ==
    /\ failures < MaxFailures
    /\ failures' = failures + 1

\* A statement writes when it finds the row in an allowed status, otherwise
\* the caller raises; the call may also fail, with its effect or without.
Store(allowed, after, Written, Raised) ==
    \/ row.status \in allowed /\ row' = after /\ Written /\ UNCHANGED failures
    \/ row.status \notin allowed /\ UNCHANGED row /\ Raised /\ UNCHANGED failures
    \/ /\ Disrupt
       /\ UNCHANGED row \/ (row.status \in allowed /\ row' = after)
       /\ Raised

-----------------------------------------------------------------------------
(* Airflow's view of an attempt.                                           *)

FirstStep(t) ==
    CASE t = "source" -> "begin_run"
      [] t = "build" -> "resume_build"
      [] t = "success" -> "finish_success"
UpTo(t) ==
    CASE t = "source" -> {"source"}
      [] t = "build" -> {"source", "build"}
      [] t = "success" -> Tasks
TaskAfter(t) == IF t = "source" THEN "build" ELSE "success"

Goto(s, step) ==
    /\ pc' = [pc EXCEPT ![s] = step]
    /\ UNCHANGED <<summary, airflowVars>>

\* The attempt ends; Airflow takes note if it still follows it.
Succeed(s) ==
    /\ pc' = [pc EXCEPT ![s] = "free"]
    /\ summary' = [summary EXCEPT ![s] = FALSE]
    /\ IF tracked # s THEN UNCHANGED airflowVars
       ELSE /\ tracked' = NoSlot /\ tries' = 0
            /\ task' = TaskAfter(task)
            /\ dag' = IF task = "success" THEN "success" ELSE dag

AttemptLost ==
    /\ tracked' = NoSlot
    /\ tries' = tries + 1
    /\ dag' = IF tries + 1 = MaxTries THEN "failed" ELSE dag
    /\ UNCHANGED task

Raise(s) ==
    /\ pc' = [pc EXCEPT ![s] = "free"]
    /\ summary' = [summary EXCEPT ![s] = FALSE]
    /\ IF tracked # s THEN UNCHANGED airflowVars ELSE AttemptLost

Launch(s) ==
    /\ dag = "running" /\ tracked = NoSlot
    /\ pc[s] = "free"
    /\ tracked' = s
    /\ pc' = [pc EXCEPT ![s] = FirstStep(task)]
    /\ command' = [command EXCEPT ![s] = "unlink"]
    /\ artifact' = [t \in {"source", "build"} |->
                      IF artifact[t].by = s THEN [artifact[t] EXCEPT !.by = NoSlot]
                      ELSE artifact[t]]
    /\ UNCHANGED <<row, dag, task, tries, summary, bounds>>

\* The attempt is declared dead while it goes on.
Orphan(s) ==
    /\ tracked = s
    /\ orphans < MaxOrphans
    /\ orphans' = orphans + 1
    /\ AttemptLost
    /\ UNCHANGED <<row, pc, summary, dbtVars, failures, clears>>

Kill(s) ==
    /\ pc[s] # "free"
    /\ Disrupt
    /\ Raise(s)
    /\ UNCHANGED <<row, dbtVars, orphans, clears>>

\* An operator clears a task of a DAG run that has ended: it and what follows
\* runs again.  A task behind the failed one would not run.
Clear(t) ==
    /\ dag \in {"success"} \cup Called
    /\ t \in UpTo(task)
    /\ clears < MaxClears
    /\ clears' = clears + 1
    /\ dag' = "running" /\ task' = t /\ tries' = 0
    /\ UNCHANGED <<row, tracked, pc, summary, dbtVars, failures, orphans>>

\* Mutant: no GREATEST, a host whose clock is behind the row's start is refused.
on_failure_callback_behind ==
    /\ dag = "failed"
    /\ \/ Store({"running", "failed"}, Failed("callback", FALSE),
                dag' = "called",
                dag' = IF row.status \in {"running", "failed"}
                       THEN "callback_raised" ELSE "callback_rejected")
       \/ dag' = "callback_raised" /\ UNCHANGED <<row, failures>>
    /\ UNCHANGED <<task, tries, tracked, pc, summary, dbtVars, orphans, clears>>

\* _persist_dag_failure: called once, its own failure is not tried again.
on_failure_callback ==
    /\ dag = "failed"
    /\ Store({"running", "failed"}, Failed("callback", FALSE),
             dag' = "called",
             dag' = IF row.status \in {"running", "failed"}
                    THEN "callback_raised" ELSE "callback_rejected")
    /\ UNCHANGED <<task, tries, tracked, pc, summary, dbtVars, orphans, clears>>

\* The except clause: finish_failure comes next, with a summary or without.
Except(s, withSummary) ==
    /\ pc' = [pc EXCEPT ![s] = "finish_failure"]
    /\ summary' = [summary EXCEPT ![s] = withSummary]
    /\ UNCHANGED airflowVars

-----------------------------------------------------------------------------
(* runner.py: DbtRunner._run, for the freshness check and for the build.   *)

InRun(s, t) == pc[s] = IF t = "source" THEN "run_freshness" ELSE "run_build"

\* Mutant: the file of an earlier command is left where it is.
unlink_nothing(s, t) ==
    /\ InRun(s, t) /\ command[s] = "unlink"
    /\ \/ /\ command' = [command EXCEPT ![s] = "running"]
          /\ UNCHANGED <<pc, summary, airflowVars>>
       \/ Except(s, FALSE) /\ UNCHANGED command
    /\ UNCHANGED <<row, artifact, bounds>>

\* artifact_path.unlink(missing_ok=True), which may raise.
unlink(s, t) ==
    /\ InRun(s, t) /\ command[s] = "unlink"
    /\ \/ /\ command' = [command EXCEPT ![s] = "running"]
          /\ artifact' = [artifact EXCEPT ![t] = [state |-> "missing", by |-> NoSlot]]
          /\ UNCHANGED <<pc, summary, airflowVars>>
       \/ Except(s, FALSE) /\ UNCHANGED dbtVars
    /\ UNCHANGED <<row, bounds>>

\* dbt has written its artifact, whole or not, or has not.
Written(s, t) ==
    {artifact} \cup {[artifact EXCEPT ![t] = [state |-> state, by |-> s]] :
                        state \in {"invalid", "valid"}}

\* The command exits.
executor(s, t) ==
    /\ InRun(s, t) /\ command[s] = "running"
    /\ artifact' \in Written(s, t)
    /\ \E exit \in {"exit_0", "exit_1"} : command' = [command EXCEPT ![s] = exit]
    /\ UNCHANGED <<row, pc, summary, airflowVars, bounds>>

\* Its time is up, or it could not be started.
executor_raises(s, t) ==
    /\ InRun(s, t) /\ command[s] = "running"
    /\ artifact' \in Written(s, t)
    /\ Except(s, FALSE)
    /\ UNCHANGED <<row, command, bounds>>

\* A command that exits with an error counts as failed, with the summary if the
\* artifact can be parsed; without an artifact no exit code counts as success.
parse_dbt_artifact(s, t) ==
    LET parsed == artifact[t].state = "valid" IN
    /\ InRun(s, t) /\ command[s] \in {"exit_0", "exit_1"}
    /\ \/ /\ parsed /\ command[s] = "exit_0"
          /\ Goto(s, IF t = "source" THEN "record_source" ELSE "record_build")
       \/ /\ parsed /\ command[s] = "exit_1" /\ t = "source"
          /\ Goto(s, "record_failed_source")
       \/ /\ parsed /\ command[s] = "exit_1" /\ t = "build"
          /\ Except(s, TRUE)
       \/ ~ parsed /\ Except(s, FALSE)
    /\ UNCHANGED <<row, dbtVars, bounds>>

_run(s, t) ==
    unlink(s, t) \/ executor(s, t) \/ executor_raises(s, t) \/ parse_dbt_artifact(s, t)

-----------------------------------------------------------------------------
(* service.py: the steps of an attempt.                                    *)

\* record_and_check_source; begin_run is outside its try.
begin_run(s) ==
    /\ pc[s] = "begin_run"
    /\ Store({"none", "running", "failed"}, Begun,
             Goto(s, "record_watermark"), Raise(s))
    /\ UNCHANGED <<dbtVars, orphans, clears>>

record_watermark(s) ==
    /\ pc[s] = "record_watermark"
    /\ Store({"running"}, row, Goto(s, "run_freshness"), Except(s, FALSE))
    /\ UNCHANGED <<dbtVars, orphans, clears>>

record_source(s) ==
    /\ pc[s] = "record_source"
    /\ Store({"running"}, [row EXCEPT !.source = TRUE],
             Succeed(s), Except(s, FALSE))
    /\ UNCHANGED <<dbtVars, orphans, clears>>

\* Inside the except clause: when this write raises, no failure is persisted.
record_failed_source(s) ==
    /\ pc[s] = "record_failed_source"
    /\ Store({"running"}, [row EXCEPT !.source = TRUE],
             Except(s, FALSE), Raise(s))
    /\ UNCHANGED <<dbtVars, orphans, clears>>

resume_build(s) ==
    /\ pc[s] = "resume_build"
    /\ Store({"running", "failed"}, Resumed, Goto(s, "run_build"), Except(s, FALSE))
    /\ UNCHANGED <<dbtVars, orphans, clears>>

record_build(s) ==
    /\ pc[s] = "record_build"
    /\ Store({"running"}, [row EXCEPT !.build = TRUE],
             Succeed(s), Except(s, FALSE))
    /\ UNCHANGED <<dbtVars, orphans, clears>>

\* Mutant: the statement does not look at the status.
finish_success_anyway(s) ==
    /\ pc[s] = "finish_success"
    /\ Store(RunStatus, Finished, Succeed(s), Raise(s))
    /\ UNCHANGED <<dbtVars, orphans, clears>>

\* Mutant: an error of the last write does not fail the task.
finish_success_quietly(s) ==
    /\ pc[s] = "finish_success"
    /\ Store({"running", "succeeded"}, Finished, Succeed(s), Succeed(s))
    /\ UNCHANGED <<dbtVars, orphans, clears>>

\* finished_at is this host's clock; the table refuses one before started_at,
\* which was another's.
ClockIsBehind(s) == Raise(s) /\ UNCHANGED <<row, failures>>

finish_success(s) ==
    /\ pc[s] = "finish_success"
    /\ \/ Store({"running", "succeeded"}, Finished, Succeed(s), Raise(s))
       \/ ClockIsBehind(s)
    /\ UNCHANGED <<dbtVars, orphans, clears>>

\* Mutant: the statement does not look at the status.
finish_failure_anyway(s) ==
    /\ pc[s] = "finish_failure"
    /\ Store(RunStatus, Failed(task, summary[s]), Raise(s), Raise(s))
    /\ UNCHANGED <<dbtVars, orphans, clears>>

\* An orphan writes as the task it belongs to; the row only tells tasks from
\* the callback.
finish_failure(s) ==
    /\ pc[s] = "finish_failure"
    /\ Store({"running", "failed"}, Failed(task, summary[s]), Raise(s), Raise(s))
    /\ UNCHANGED <<dbtVars, orphans, clears>>

Attempt(s) ==
    \/ begin_run(s) \/ record_watermark(s) \/ _run(s, "source")
    \/ record_source(s) \/ record_failed_source(s)
    \/ resume_build(s) \/ _run(s, "build") \/ record_build(s)
    \/ finish_success(s) \/ finish_failure(s)

Next ==
    \/ \E s \in Slots : Launch(s) \/ Attempt(s) \/ Orphan(s) \/ Kill(s)
    \/ \E t \in Tasks : Clear(t)
    \/ on_failure_callback

Spec == Init /\ [][Next]_vars

\* Airflow schedules the next attempt, every attempt ends, and the callback is
\* called.
FairSpec ==
    /\ Spec
    /\ WF_vars(\E s \in Slots : Launch(s))
    /\ WF_vars(on_failure_callback)
    /\ \A s \in Slots : WF_vars(Attempt(s))

-----------------------------------------------------------------------------
(* Properties.                                                             *)

\* models.py's _ALLOWED_TRANSITIONS, which no code calls on a write: a row is
\* inserted as running.
Allowed ==
    [none |-> {"none", "running"},
     running |-> {"running", "succeeded", "failed"},
     failed |-> {"running", "failed"},
     succeeded |-> {"succeeded"}]

\* The WHERE clauses of the statements amount to the transition table, whatever
\* order orphans, retries, cleared tasks and callbacks write in
\* (storage.py:64-119, models.py:17-28).
RowFollowsTransitions == [][row'.status \in Allowed[row.status]]_vars

\* While Airflow has lost sight of no attempt, a succeeded row shows the evidence
\* of both steps and no error: no retry succeeds on what an earlier attempt has
\* cleared (service.py:33-70).
SucceededHasEvidence ==
    orphans = 0 /\ row.status = "succeeded" =>
        row.source /\ row.build /\ row.error = "none"

\* While Airflow has lost sight of no attempt, what an attempt records as the
\* result of its dbt command is what that command wrote, never the file of an
\* earlier attempt, whichever of the two timed out, died or wrote nothing
\* (runner.py:90-113).
OwnArtifactIsRead ==
    [][\A s \in Slots, t \in {"source", "build"} :
        orphans = 0 /\ InRun(s, t) /\ pc'[s] # pc[s] =>
            \/ artifact[t].by = s
            \/ pc'[s] \in {"finish_failure", "free"} /\ ~ summary'[s]]_vars

\* A failed row keeps the first error until a retry restarts it: neither a
\* later attempt's failure nor the callback hides it (storage.py:114-115).
FirstErrorIsKept ==
    [][row.status = "failed" /\ row'.status = "failed" => row'.error = row.error]_vars

\* A row that says failed says why, one that does not has no error (the check
\* analytics_refresh_runs_error_state_valid).
ErrorMatchesStatus == (row.status = "failed") <=> (row.error # "none")

\* While Airflow has lost sight of no attempt, a DAG run that ends well leaves a
\* succeeded row, and one whose callback has written leaves a failed row
\* (storage.py:95-119, airflow/dags/analytics_refresh.py:24-33).
LedgerAgreesWithDag ==
    orphans = 0 =>
        /\ dag = "success" => row.status = "succeeded"
        /\ dag = "called" => row.status = "failed"

\* Unless an attempt is orphaned, the database fails the callback, or no attempt
\* could begin, every DAG run's row ends terminal, however many calls fail and
\* hosts' clocks disagree before (airflow/dags/analytics_refresh.py:24-33,
\* storage.py:96-119).
RowBecomesTerminal ==
    [](/\ orphans = 0
       /\ dag = "callback_raised" => failures = 0
       /\ dag = "callback_rejected" => row.status # "none") =>
        <>[](row.status \in {"succeeded", "failed"})

\* airflow/dags/analytics_refresh.py:25: the callback is to "ensure an exhausted
\* task/DAG failure leaves a terminal durable row".  Stated of a callback whose
\* call of the database goes through.
CallbackLeavesTerminalRow ==
    dag \in {"called", "callback_rejected"} =>
        row.status \in {"succeeded", "failed"}

-----------------------------------------------------------------------------
(* The inductive invariant behind the safety properties.                   *)

\* The steps an attempt of task t may be at.
StepsOf(t) ==
    CASE t = "source" -> {"begin_run", "record_watermark", "run_freshness",
                          "record_source", "record_failed_source", "finish_failure"}
      [] t = "build" -> {"resume_build", "run_build", "record_build",
                         "finish_failure"}
      [] t = "success" -> {"finish_success"}

\* Airflow follows an attempt only in a DAG run that goes on, which has a try left.
Followed ==
    /\ tracked # NoSlot => dag = "running"
    /\ dag = "running" => tries < MaxTries

\* The attempt Airflow follows is the only one, and an attempt of the task whose
\* turn it is.
OneAttempt ==
    \A s \in Slots : pc[s] # "free" => tracked = s /\ pc[s] \in StepsOf(task)

\* What the tasks before the current one have left in the row.
EarlierEvidence ==
    /\ task # "source" => row.source
    /\ task = "success" => row.build

\* An attempt that has not come to its command starts it from the beginning.
FreshCommand ==
    \A s \in Slots :
        pc[s] \in {"begin_run", "record_watermark", "resume_build"} =>
            command[s] = "unlink"

\* Behind its unlink, an attempt finds the file of its own command or none.
OwnArtifact ==
    \A s \in Slots, t \in {"source", "build"} :
        orphans = 0 /\ InRun(s, t) /\ command[s] # "unlink" =>
            artifact[t].state = "missing" \/ artifact[t].by = s

IInv ==
    /\ TypeOK
    /\ Followed
    /\ ErrorMatchesStatus
    /\ SucceededHasEvidence
    /\ LedgerAgreesWithDag
    /\ orphans = 0 => OneAttempt /\ EarlierEvidence

ArtifactInv == FreshCommand /\ OwnArtifact

\* The callback finds no row it may write when there is none, or when the write of
\* a success went through and its answer was lost, each time.
RejectedByNoRow ==
    orphans = 0 /\ dag = "callback_rejected" => row.status \in {"none", "succeeded"}
=============================================================================
