----------------------------- MODULE PrMonitor -----------------------------
(***************************************************************************)
(* consumers/pr_monitor.py and consumers/pr_storage.py: the group of       *)
(* monitors that projects pull-request records into the serving schema,    *)
(* and between polls sweeps the projection for stale pull requests.        *)
(*                                                                         *)
(* A transaction of pr_storage.py is one step: its first statement locks   *)
(* the pull request's watermark row, so two of them never interleave.  The *)
(* sweep takes no lock: it reads in one step and inserts in a later one.   *)
(*                                                                         *)
(* Clocks are abstracted to what the code compares: aged holds the pull    *)
(* requests opened before the stale cutoff, due[w] says that the monitor's *)
(* next sweep time has come.                                               *)
(***************************************************************************)
EXTENDS ConsumerGroup

CONSTANTS
    PullRequests,  \* identities <<repository_id, pull_request_id>>
    Reviews,       \* review identities
    NoRow,         \* no row in serving.open_pull_requests
    NoReview,      \* no row in serving.pull_request_first_reviews
    Refused        \* pairs of a record and the statement that PostgreSQL
                   \* refuses each time it is run with that record's data

Snapshot == [pr : PullRequests, state : {"open", "closed"}, draft : BOOLEAN,
             updated : Nat \ {0}]
Review == [id : Reviews, submitted : Nat]
OpenRow == [draft : BOOLEAN, updated : Nat \ {0}, first : Review \cup {NoReview}]

\* The commands _projection_command makes of a record.
SnapshotRecord == [kind : {"snapshot"}, snap : Snapshot]
ReviewRecord ==
    [kind : {"review"}, snap : Snapshot, byAuthor : BOOLEAN, review : Review]
OtherRecord == [kind : {"ignored", "invalid"}]

ASSUME MonitorAssumption ==
    /\ Values \subseteq SnapshotRecord \cup ReviewRecord \cup OtherRecord
    /\ NoRow \notin OpenRow
    /\ NoReview \notin Review
    /\ Refused \subseteq Values \X {"watermark", "open", "review"}

VARIABLES
    watermark,     \* watermark[pr]: last_event_at, 0 for no row
    openPrs,       \* openPrs[pr]: the row of serving.open_pull_requests
    firstReviews,  \* firstReviews[pr]: its first eligible review
    outbox,        \* outbox[pr]: status of its stale alert, "none" for no row
    dead,          \* source lineages of acknowledged dead letters
    aged,          \* pull requests whose opened_at is before the cutoff
    due,           \* due[w]: now >= next_sweep_at
    loop,          \* loop[w]: where w is between two messages
    seen           \* seen[w]: the stale rows w's sweep statement has read

projection == <<watermark, openPrs, firstReviews>>
sweepVars == <<due, loop, seen>>
vars == <<groupVars, projection, outbox, dead, aged, sweepVars>>

TypeOK ==
    /\ GroupTypeOK
    /\ watermark \in [PullRequests -> Nat]
    /\ openPrs \in [PullRequests -> OpenRow \cup {NoRow}]
    /\ firstReviews \in [PullRequests -> Review \cup {NoReview}]
    /\ outbox \in [PullRequests -> {"none", "pending", "cancelled"}]
    /\ dead \subseteq Lineage
    /\ aged \subseteq PullRequests
    /\ due \in [Workers -> BOOLEAN]
    /\ loop \in [Workers -> {"top", "sweep", "poll"}]
    /\ seen \in [Workers -> SUBSET PullRequests]

Init ==
    /\ GroupInit
    /\ watermark = [pr \in PullRequests |-> 0]
    /\ openPrs = [pr \in PullRequests |-> NoRow]
    /\ firstReviews = [pr \in PullRequests |-> NoReview]
    /\ outbox = [pr \in PullRequests |-> "none"]
    /\ dead = {}
    /\ aged = {}
    /\ due = [w \in Workers |-> FALSE]
    /\ loop = [w \in Workers |-> "top"]
    /\ seen = [w \in Workers |-> {}]

-----------------------------------------------------------------------------
(* pr_storage.py: what each statement does to its table.                   *)

\* Mutant: IS DISTINCT FROM where the statement compares times.
Differs(s) == s.updated # watermark[s.pr]

\* _ADVANCE_WATERMARK returns a row.
Advances(s) == s.updated > watermark[s.pr]

WatermarkAfter(s) ==
    IF Advances(s) THEN [watermark EXCEPT ![s.pr] = s.updated] ELSE watermark

\* _SYNC_FIRST_REVIEW_TO_OPEN on a row whose review is f so far.
Synced(f, review) == IF review = NoReview THEN f ELSE review

\* Mutant: the upsert is not followed by _SYNC_FIRST_REVIEW_TO_OPEN.
UnsyncedRow(s) ==
    LET old == openPrs[s.pr]
    IN  [draft |-> s.draft, updated |-> s.updated,
         first |-> IF old = NoRow THEN NoReview ELSE old.first]

\* _UPSERT_OPEN_PULL_REQUEST leaves first_eligible_review_at as it was.
UpsertedRow(s) ==
    LET old == openPrs[s.pr]
        kept == IF old = NoRow THEN NoReview ELSE old.first
    IN  [draft |-> s.draft, updated |-> s.updated,
         first |-> Synced(kept, firstReviews[s.pr])]

\* _apply_snapshot_state, for a snapshot that advances the watermark.
OpenAfter(s) ==
    IF ~ Advances(s) THEN openPrs
    ELSE [openPrs EXCEPT ![s.pr] =
            IF s.state = "open" THEN UpsertedRow(s) ELSE NoRow]

\* Mutant: a close deletes the row and leaves its alert.
OutboxKept(s) == outbox

OutboxAfter(s) ==
    IF Advances(s) /\ s.state = "closed" /\ outbox[s.pr] = "pending"
    THEN [outbox EXCEPT ![s.pr] = "cancelled"] ELSE outbox

\* Mutant: ON CONFLICT DO NOTHING, the first review to arrive stays.
RecordsFirstArrival(m) == ~ m.byAuthor /\ firstReviews[m.snap.pr] = NoReview

\* _RECORD_FIRST_ELIGIBLE_REVIEW returns a row.
RecordsReview(m) ==
    LET first == firstReviews[m.snap.pr] IN
    /\ ~ m.byAuthor
    /\ first = NoReview \/ m.review.submitted < first.submitted

ReviewedOpen(m) ==
    LET rows == OpenAfter(m.snap) IN
    IF RecordsReview(m) /\ rows[m.snap.pr] # NoRow
    THEN [rows EXCEPT ![m.snap.pr].first = m.review] ELSE rows

ReviewsAfter(m) ==
    IF RecordsReview(m)
    THEN [firstReviews EXCEPT ![m.snap.pr] = m.review] ELSE firstReviews

apply_pull_request(m) ==
    /\ watermark' = WatermarkAfter(m.snap)
    /\ openPrs' = OpenAfter(m.snap)
    /\ outbox' = OutboxAfter(m.snap)
    /\ UNCHANGED firstReviews

\* Mutant: a review whose snapshot is not news is dropped with it.
apply_review_if_newer(m) ==
    /\ watermark' = WatermarkAfter(m.snap)
    /\ openPrs' = IF Advances(m.snap) THEN ReviewedOpen(m) ELSE openPrs
    /\ outbox' = OutboxAfter(m.snap)
    /\ firstReviews' = IF Advances(m.snap) THEN ReviewsAfter(m) ELSE firstReviews

apply_review(m) ==
    /\ watermark' = WatermarkAfter(m.snap)
    /\ openPrs' = ReviewedOpen(m)
    /\ outbox' = OutboxAfter(m.snap)
    /\ firstReviews' = ReviewsAfter(m)

Eligible(m) == m.kind = "review" /\ ~ m.byAuthor

\* One of the statements the transaction comes to is refused.  An id out of the
\* range of bigint is refused by _ADVANCE_WATERMARK, which always runs; a number
\* out of the range of integer, or a NUL in a title, by the upsert of the open row;
\* the data of the review by _RECORD_FIRST_ELIGIBLE_REVIEW.
Refuses(m) ==
    \/ <<m, "watermark">> \in Refused
    \/ <<m, "open">> \in Refused /\ m.snap.state = "open" /\ Advances(m.snap)
    \/ <<m, "review">> \in Refused /\ Eligible(m)

\* The rows the sweep's SELECT returns.
StaleRows ==
    {pr \in aged : /\ openPrs[pr] # NoRow
                   /\ openPrs[pr].first = NoReview
                   /\ ~ openPrs[pr].draft}

\* Mutant: a cancelled alert does not bar the key.
AlertsAgain(rows) ==
    [pr \in PullRequests |-> IF pr \in rows THEN "pending" ELSE outbox[pr]]

\* The INSERT of those rows, ON CONFLICT (alert_key) DO NOTHING.
AlertsFor(rows) ==
    [pr \in PullRequests |->
        IF pr \in rows /\ outbox[pr] = "none" THEN "pending" ELSE outbox[pr]]

-----------------------------------------------------------------------------
(* run_forever: the loop around process.                                   *)

Start_Monitor(w) ==
    /\ Start(w)
    /\ due' = [due EXCEPT ![w] = TRUE]      \* next_sweep_at = clock()
    /\ UNCHANGED <<loop, seen, projection, outbox, dead, aged>>

\* The monitor's state in memory goes with the process.
Forget(w) ==
    /\ due' = [due EXCEPT ![w] = FALSE]
    /\ loop' = [loop EXCEPT ![w] = "top"]
    /\ seen' = [seen EXCEPT ![w] = {}]

\* At the top of the loop: begin a sweep when one is due, otherwise poll.
SweepRead(w) ==
    /\ pc[w] = "poll" /\ loop[w] = "top" /\ due[w]
    /\ loop' = [loop EXCEPT ![w] = "sweep"]
    /\ seen' = [seen EXCEPT ![w] = StaleRows]
    /\ UNCHANGED <<groupVars, projection, outbox, dead, aged, due>>

SkipSweep(w) ==
    /\ pc[w] = "poll" /\ loop[w] = "top" /\ ~ due[w]
    /\ loop' = [loop EXCEPT ![w] = "poll"]
    /\ UNCHANGED <<groupVars, projection, outbox, dead, aged, due, seen>>

\* Mutant: a continue after the sweep.
SweepAndContinue(w) ==
    /\ pc[w] = "poll" /\ loop[w] = "sweep"
    /\ outbox' = AlertsFor(seen[w])
    /\ loop' = [loop EXCEPT ![w] = "top"]
    /\ due' = [due EXCEPT ![w] = FALSE]
    /\ seen' = [seen EXCEPT ![w] = {}]
    /\ UNCHANGED <<groupVars, projection, dead, aged>>

\* Mutant: the sweep's connection returns to the pool uncommitted.
SweepRolledBack(w) ==
    /\ pc[w] = "poll" /\ loop[w] = "sweep"
    /\ loop' = [loop EXCEPT ![w] = "poll"]
    /\ due' = [due EXCEPT ![w] = FALSE]
    /\ seen' = [seen EXCEPT ![w] = {}]
    /\ UNCHANGED <<groupVars, projection, outbox, dead, aged>>

SweepCommit(w) ==
    /\ pc[w] = "poll" /\ loop[w] = "sweep"
    /\ outbox' = AlertsFor(seen[w])
    /\ loop' = [loop EXCEPT ![w] = "poll"]
    /\ due' = [due EXCEPT ![w] = FALSE]
    /\ seen' = [seen EXCEPT ![w] = {}]
    /\ UNCHANGED <<groupVars, projection, dead, aged>>

\* The sweep raises and stops the monitor; the transaction may have committed.
SweepFails(w) ==
    /\ pc[w] = "poll" /\ loop[w] = "sweep"
    /\ EffectRaised(w)
    /\ outbox' \in {outbox, AlertsFor(seen[w])}
    /\ Forget(w)
    /\ UNCHANGED <<projection, dead, aged>>

\* poll returned no message.
PollNone(w) ==
    /\ pc[w] = "poll" /\ loop[w] = "poll"
    /\ loop' = [loop EXCEPT ![w] = "top"]
    /\ UNCHANGED <<groupVars, projection, outbox, dead, aged, due, seen>>

\* Mutant: the sweep runs beside the loop, which goes on polling.
PollDuringSweep(w) ==
    /\ loop[w] \in {"poll", "sweep"}
    /\ \E p \in Partitions : Poll(w, p)
    /\ loop' = [loop EXCEPT ![w] = IF @ = "poll" THEN "top" ELSE @]
    /\ UNCHANGED <<projection, outbox, dead, aged, due, seen>>

PollMessage(w) ==
    /\ loop[w] = "poll"
    /\ \E p \in Partitions : Poll(w, p)
    /\ loop' = [loop EXCEPT ![w] = "top"]
    /\ UNCHANGED <<projection, outbox, dead, aged, due, seen>>

\* Rebalances are served inside poll.
Rebalance(w) ==
    /\ loop[w] = "poll"
    /\ \/ \E p \in Partitions : Assign(p, w) \/ Revoke(p, w)
       \/ Rejoin(w)
    /\ UNCHANGED <<projection, outbox, dead, aged, sweepVars>>

-----------------------------------------------------------------------------
(* process: one durable effect per message.                                *)

Effect(m) ==
    /\ ~ Refuses(m)
    /\ \/ m.kind = "snapshot" /\ apply_pull_request(m)
       \/ m.kind = "review" /\ apply_review(m)

Apply(w) ==
    /\ pc[w] = "process"
    /\ Effect(Message(w))
    /\ EffectDone(w)
    /\ UNCHANGED <<dead, aged, sweepVars>>

\* The transaction raises; the lost answer may be that of a commit.
ApplyFails(w) ==
    /\ pc[w] = "process"
    /\ Message(w).kind \in {"snapshot", "review"}
    /\ Effect(Message(w)) \/ UNCHANGED <<projection, outbox>>
    /\ EffectRaised(w)
    /\ Forget(w)
    /\ UNCHANGED <<dead, aged>>

\* The transaction is refused for what the record says: it is rolled back, nothing
\* is dead-lettered, and the exception ends the monitor.  It happens each time the
\* record is read with the tables as they are, so it is not bounded.
ApplyRefused(w) ==
    /\ pc[w] = "process"
    /\ Message(w).kind \in {"snapshot", "review"}
    /\ Refuses(Message(w))
    /\ Stop(w)
    /\ Forget(w)
    /\ UNCHANGED <<brokerVars, disruptions, projection, outbox, dead, aged>>

\* Other event families and reviews that are not "submitted".
Ignore(w) ==
    /\ pc[w] = "process"
    /\ Message(w).kind = "ignored"
    /\ EffectDone(w)
    /\ UNCHANGED <<projection, outbox, dead, aged, sweepVars>>

_dead_letter(w) ==
    /\ pc[w] = "process"
    /\ Message(w).kind = "invalid"
    /\ dead' = dead \cup {cur[w]}
    /\ EffectDone(w)
    /\ UNCHANGED <<projection, outbox, aged, sweepVars>>

DeadLetterFails(w) ==
    /\ pc[w] = "process"
    /\ Message(w).kind = "invalid"
    /\ dead' \in {dead, dead \cup {cur[w]}}
    /\ EffectRaised(w)
    /\ Forget(w)
    /\ UNCHANGED <<projection, outbox, aged>>

Commit(w) ==
    /\ CommitOffset(w)
    /\ UNCHANGED <<projection, outbox, dead, aged, sweepVars>>

\* A commit error or a kill ends the process.  A kill rolls the sweep back.
Die(w) ==
    /\ Crash(w) \/ CommitRejected(w) \/ CommitFails(w)
    /\ Forget(w)
    /\ UNCHANGED <<projection, outbox, dead, aged>>

-----------------------------------------------------------------------------
(* The environment.                                                        *)

Broker ==
    /\ (\E v \in Values : Produce(v)) \/ (\E w \in Workers : Fence(w))
    /\ UNCHANGED <<projection, outbox, dead, aged, sweepVars>>

\* The stale cutoff passes a pull request's opened_at.
Age(pr) ==
    /\ aged' = aged \cup {pr}
    /\ UNCHANGED <<groupVars, projection, outbox, dead, sweepVars>>

\* A running monitor's next sweep time comes.
SweepTimer(w) ==
    /\ pc[w] # "down"
    /\ due' = [due EXCEPT ![w] = TRUE]
    /\ UNCHANGED <<groupVars, projection, outbox, dead, aged, loop, seen>>

Next ==
    \/ Broker
    \/ \E pr \in PullRequests : Age(pr)
    \/ \E w \in Workers :
        \/ Start_Monitor(w) \/ SweepRead(w) \/ SkipSweep(w) \/ SweepCommit(w)
        \/ SweepFails(w) \/ PollNone(w) \/ PollMessage(w) \/ Rebalance(w)
        \/ Apply(w) \/ ApplyFails(w) \/ ApplyRefused(w) \/ Ignore(w)
        \/ _dead_letter(w) \/ DeadLetterFails(w)
        \/ Commit(w) \/ Die(w) \/ SweepTimer(w)

Spec == Init /\ [][Next]_vars

\* Every monitor that is able to take its next step takes it, the operator
\* restarts it, poll returns records and serves assignments again and again,
\* and time passes.
Fairness ==
    /\ \A pr \in PullRequests : WF_vars(Age(pr))
    /\ \A w \in Workers :
        /\ WF_vars(Start_Monitor(w))
        /\ WF_vars(SweepTimer(w))
        /\ WF_vars(SweepRead(w) \/ SkipSweep(w))
        /\ WF_vars(SweepCommit(w))
        /\ WF_vars(PollNone(w))
        /\ SF_vars(PollMessage(w))
        /\ SF_vars(loop[w] = "poll" /\ (Rejoin(w) \/ \E p \in Partitions : Assign(p, w))
                   /\ UNCHANGED <<projection, outbox, dead, aged, sweepVars>>)
        /\ WF_vars(Apply(w) \/ ApplyRefused(w) \/ Ignore(w) \/ _dead_letter(w))
        /\ WF_vars(Commit(w))
        /\ WF_vars(CommitRejected(w) /\ Die(w))

FairSpec == Spec /\ Fairness

-----------------------------------------------------------------------------
(* Properties.                                                             *)

Carries(m, pr) == m.kind \in {"snapshot", "review"} /\ m.snap.pr = pr

\* Nothing more can be learnt from applying the record again.
Applied(p, o) ==
    LET m == RecordAt(p, o) IN
    /\ m.kind = "invalid" => [partition |-> p, offset |-> o] \in dead
    /\ m.kind \in {"snapshot", "review"} => watermark[m.snap.pr] >= m.snap.updated
    /\ Eligible(m) =>
        /\ firstReviews[m.snap.pr] # NoReview
        /\ firstReviews[m.snap.pr].submitted <= m.review.submitted

\* No record below the committed offset is lost to the projection, whatever
\* crashed or was fenced between the transaction and the offset commit
\* (pr_monitor.py:203-248).
CommittedIsApplied ==
    \A p \in Partitions : \A o \in 0 .. committed[p] - 1 : Applied(p, o)

\* The open row and the tables beside it never disagree: it is the snapshot at
\* the watermark, and it shows the retained first review also after close and
\* reopen (pr_storage.py:258-287, 330-340).
RowsAgree ==
    \A pr \in PullRequests : openPrs[pr] # NoRow =>
        /\ openPrs[pr].updated = watermark[pr]
        /\ openPrs[pr].first = firstReviews[pr]

RecordsOf(pr) ==
    {m \in UNION {{log[p][i] : i \in 1 .. committed[p]} : p \in Partitions} :
        Carries(m, pr)}

\* Once the group has committed every record, the projection is the one the
\* set of records determines, whatever order, replays and duplicates they came
\* in: the newest snapshot and the earliest eligible review
\* (pr_storage.py:90-109, 160-185).  Holds when equal updated_at means equal
\* snapshot.
ProjectionConverges ==
    (\A p \in Partitions : committed[p] = Len(log[p])) =>
        \A pr \in PullRequests : RecordsOf(pr) # {} =>
            LET newest == CHOOSE m \in RecordsOf(pr) :
                            \A n \in RecordsOf(pr) : n.snap.updated <= m.snap.updated
                votes == {m.review : m \in {n \in RecordsOf(pr) : Eligible(n)}}
                first == IF votes = {} THEN NoReview
                         ELSE CHOOSE r \in votes :
                                \A q \in votes : r.submitted <= q.submitted
            IN  /\ firstReviews[pr] = first
                /\ openPrs[pr] = IF newest.snap.state = "closed" THEN NoRow
                                 ELSE [draft |-> newest.snap.draft,
                                       updated |-> newest.snap.updated,
                                       first |-> first]

\* Watermarks only rise and a retained first review is only replaced by an
\* earlier one, also through crashes and replays (pr_storage.py:106, 182).
ProjectionMovesForward ==
    [][\A pr \in PullRequests :
        /\ watermark'[pr] >= watermark[pr]
        /\ firstReviews[pr] # NoReview =>
            /\ firstReviews'[pr] # NoReview
            /\ firstReviews'[pr].submitted <= firstReviews[pr].submitted]_vars

\* With one monitor, an alert is raised only for a row that is stale at that
\* very moment, though the sweep reads and inserts in two steps
\* (pr_storage.py:202-235).
AlertsAreForStaleRows ==
    [][\A pr \in PullRequests :
        outbox[pr] = "none" /\ outbox'[pr] = "pending" => pr \in StaleRows]_vars

\* With one monitor, no pending alert is left for a pull request that has
\* left the projection (pr_storage.py:339-340).
PendingAlertHasOpenRow ==
    \A pr \in PullRequests : outbox[pr] = "pending" => openPrs[pr] # NoRow

\* A pull request gets one alert for life: a cancelled alert keeps its key and
\* bars a second one (pr_storage.py:233, infra/init/003).
OneAlertForLife ==
    [][\A pr \in PullRequests :
        outbox[pr] # "none" => outbox'[pr] \in {outbox[pr], "cancelled"}]_vars

\* tests/integration/README.md:36: the monitor "cancels a pending alert when
\* its PR closes".  Stated of a committed close that nothing newer overtook.
CloseCancelsAlert ==
    \A p \in Partitions : \A o \in 0 .. committed[p] - 1 :
        LET m == RecordAt(p, o) IN
        /\ m.kind = "snapshot" /\ m.snap.state = "closed"
        /\ m.snap.updated >= watermark[m.snap.pr]
        => outbox[m.snap.pr] # "pending"

\* Once disruptions have stopped, every record is committed although sweeps
\* take turns with polls, if the database refuses no record's data
\* (pr_monitor.py:163-248).  A refused record ends every monitor that polls it, so
\* nothing behind it is committed, and perhaps nothing of other partitions.
EveryRecordCommitted ==
    [](\A p \in Partitions : \A i \in DOMAIN log[p] :
            \A statement \in {"watermark", "open", "review"} :
                <<log[p][i], statement>> \notin Refused)
    => \A p \in Partitions, o \in Offsets :
            (o < Len(log[p])) ~> (o < committed[p])

\* A row that stays stale gets its alert, also when a refused record ends the
\* monitor each time it is started (pr_monitor.py:163-183).
StaleRowIsAlerted ==
    \A pr \in PullRequests :
        (pr \in StaleRows) ~> (pr \notin StaleRows \/ outbox[pr] # "none")

-----------------------------------------------------------------------------
(* The inductive invariant behind CommittedIsApplied and RowsAgree.        *)

\* A worker vouches for everything below its frontier, an expelled one too,
\* and for its message once it is about to commit.
WorkersVouch ==
    \A w \in Workers :
        /\ \A p \in assigned[w] : \A o \in 0 .. Frontier(w, p) - 1 : Applied(p, o)
        /\ pc[w] = "commit" => Applied(cur[w].partition, cur[w].offset)

IInv ==
    /\ TypeOK
    /\ GroupInv
    /\ RowsAgree
    /\ CommittedIsApplied
    /\ WorkersVouch
-----------------------------------------------------------------------------
(* The invariants behind ProjectionConverges and the alerts.               *)

InLog(m) == \E p \in Partitions : \E o \in 0 .. Len(log[p]) - 1 : RecordAt(p, o) = m

\* The open row, or its absence, is what the snapshot of m says.
Shows(pr, m) ==
    IF m.snap.state = "closed" THEN openPrs[pr] = NoRow
    ELSE openPrs[pr] # NoRow /\ openPrs[pr].draft = m.snap.draft

\* The tables hold nothing but what a record of the log has put there: the
\* watermark and the row come from one and the same record.
TablesComeFromLog ==
    \A pr \in PullRequests :
        /\ watermark[pr] # 0 =>
            \E m \in Values : /\ InLog(m) /\ Carries(m, pr)
                              /\ m.snap.updated = watermark[pr]
                              /\ Shows(pr, m)
        /\ firstReviews[pr] # NoReview =>
            \E m \in Values : /\ InLog(m) /\ Carries(m, pr) /\ Eligible(m)
                              /\ m.review = firstReviews[pr]

\* What ProjectionConverges asks of the records: a time tells the snapshots,
\* and the eligible reviews, of a pull request apart.
TimesTellApart ==
    \A m, n \in Values : \A pr \in PullRequests :
        Carries(m, pr) /\ Carries(n, pr) =>
            /\ m.snap.updated = n.snap.updated => m.snap = n.snap
            /\ Eligible(m) /\ Eligible(n) /\ m.review.submitted = n.review.submitted
                => m.review = n.review

OneMonitor == \A u, w \in Workers : u = w

\* With one monitor, nothing happens between its sweep's SELECT and INSERT
\* that takes a row off the list of stale ones.
SweepSeesStaleRows ==
    \A w \in Workers : loop[w] = "sweep" => pc[w] = "poll" /\ seen[w] \subseteq StaleRows

AlertInv == SweepSeesStaleRows /\ PendingAlertHasOpenRow
=============================================================================
