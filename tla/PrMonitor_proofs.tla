-------------------------- MODULE PrMonitor_proofs --------------------------
(***************************************************************************)
(* PrMonitor keeps IInv: for every number of monitors, partitions and pull *)
(* requests the tables agree with each other and no committed record is    *)
(* missing from them.                                                      *)
(***************************************************************************)
EXTENDS PrMonitor, ConsumerGroup_proofs

\* What a record that carries a snapshot, or a review, holds.
LEMMA RecordTypes ==
    ASSUME NEW m \in Values, m.kind \in {"snapshot", "review"}
    PROVE  /\ m.snap.pr \in PullRequests
           /\ m.snap.updated \in Nat \ {0}
           /\ m.snap.draft \in BOOLEAN
           /\ m.kind = "review" => m.review \in Review
BY MonitorAssumption
DEF SnapshotRecord, ReviewRecord, OtherRecord, Snapshot

-----------------------------------------------------------------------------
(* One transaction.                                                        *)

\* The projection only moves forward, and afterwards covers the record.
LEMMA EffectForward ==
    ASSUME TypeOK, NEW m \in Values, Effect(m)
    PROVE  /\ watermark' \in [PullRequests -> Nat]
           /\ firstReviews' \in [PullRequests -> Review \cup {NoReview}]
           /\ \A pr \in PullRequests :
                /\ watermark'[pr] >= watermark[pr]
                /\ firstReviews[pr] # NoReview =>
                    /\ firstReviews'[pr] # NoReview
                    /\ firstReviews'[pr].submitted <= firstReviews[pr].submitted
           /\ watermark'[m.snap.pr] >= m.snap.updated
           /\ Eligible(m) =>
                /\ firstReviews'[m.snap.pr] # NoReview
                /\ firstReviews'[m.snap.pr].submitted <= m.review.submitted
<1> DEFINE s == m.snap
<1>1. /\ m.kind \in {"snapshot", "review"}
      /\ watermark' = WatermarkAfter(s)
      /\ m.kind = "snapshot" => firstReviews' = firstReviews
      /\ m.kind = "review" => firstReviews' = ReviewsAfter(m)
    BY DEF Effect, apply_pull_request, apply_review
<1>2. /\ s.pr \in PullRequests /\ s.updated \in Nat
      /\ m.kind = "review" => m.review \in Review
    BY <1>1, RecordTypes
<1> HIDE DEF s
<1>3. /\ watermark' \in [PullRequests -> Nat]
      /\ \A pr \in PullRequests : watermark'[pr] >= watermark[pr]
      /\ watermark'[s.pr] >= s.updated
    BY <1>1, <1>2 DEF WatermarkAfter, Advances, TypeOK
<1>4. \A r \in Review : r # NoReview /\ r.submitted \in Nat
    BY MonitorAssumption DEF Review
<1>5. CASE m.kind = "snapshot"
    BY <1>1, <1>3, <1>4, <1>5 DEF TypeOK, Eligible, s
<1>6. CASE m.kind = "review"
  <2> DEFINE f == firstReviews[s.pr]
  <2>1. f \in Review \cup {NoReview}
    BY <1>2 DEF TypeOK
  <2>2. CASE RecordsReview(m)
    <3>1. firstReviews' = [firstReviews EXCEPT ![s.pr] = m.review]
      BY <1>1, <1>6, <2>2 DEF ReviewsAfter, s
    <3>2. f = NoReview \/ m.review.submitted < f.submitted
      BY <2>2 DEF RecordsReview, s
    <3> HIDE DEF f
    <3>3. firstReviews'[s.pr] = m.review
      BY <1>2, <3>1 DEF TypeOK
    <3>4. \A pr \in PullRequests : pr # s.pr => firstReviews'[pr] = firstReviews[pr]
      BY <1>2, <3>1 DEF TypeOK
    <3>5. firstReviews' \in [PullRequests -> Review \cup {NoReview}]
      BY <1>2, <1>6, <3>1 DEF TypeOK
    <3>6. ASSUME NEW pr \in PullRequests, firstReviews[pr] # NoReview
          PROVE  /\ firstReviews'[pr] # NoReview
                 /\ firstReviews'[pr].submitted <= firstReviews[pr].submitted
      <4>1. CASE pr = s.pr
        BY <1>2, <1>4, <1>6, <2>1, <3>2, <3>3, <3>6, <4>1 DEF f
      <4>2. CASE pr # s.pr
        BY <1>4, <3>4, <3>6, <4>2 DEF TypeOK
      <4> QED
        BY <4>1, <4>2
    <3> QED
      BY <1>2, <1>3, <1>4, <1>6, <3>3, <3>5, <3>6 DEF s
  <2>3. CASE ~ RecordsReview(m)
    <3>1. firstReviews' = firstReviews
      BY <1>1, <1>6, <2>3 DEF ReviewsAfter
    <3>2. Eligible(m) => f # NoReview /\ ~ m.review.submitted < f.submitted
      BY <2>3 DEF RecordsReview, Eligible, s
    <3>3. Eligible(m) => f # NoReview /\ f.submitted <= m.review.submitted
      BY <1>2, <1>4, <1>6, <2>1, <3>2
    <3> QED
      BY <1>3, <1>4, <3>1, <3>3 DEF s, TypeOK
  <2> QED
    BY <2>2, <2>3
<1> QED
    BY <1>1, <1>5, <1>6

\* The row of a pull request, written by an upsert and then synchronised, is
\* the snapshot at the new watermark with the retained first review.
LEMMA UpsertAgrees ==
    ASSUME TypeOK, RowsAgree, NEW m \in Values, m.kind \in {"snapshot", "review"}
    PROVE  /\ UpsertedRow(m.snap) \in OpenRow
           /\ UpsertedRow(m.snap).updated = m.snap.updated
           /\ UpsertedRow(m.snap).first = firstReviews[m.snap.pr]
<1> DEFINE s == m.snap
           old == openPrs[s.pr]
           kept == IF old = NoRow THEN NoReview ELSE old.first
<1>1. /\ s.pr \in PullRequests /\ s.updated \in Nat \ {0} /\ s.draft \in BOOLEAN
      /\ firstReviews[s.pr] \in Review \cup {NoReview}
    BY RecordTypes DEF TypeOK
<1>2. kept = NoReview \/ kept = firstReviews[s.pr]
    BY <1>1 DEF RowsAgree
<1>3. Synced(kept, firstReviews[s.pr]) = firstReviews[s.pr]
    BY <1>2 DEF Synced
<1>4. UpsertedRow(s) = [draft |-> s.draft, updated |-> s.updated,
                        first |-> firstReviews[s.pr]]
    BY <1>3 DEF UpsertedRow
<1> QED
    BY <1>1, <1>4 DEF OpenRow

\* The transaction leaves rows that agree, and well-typed ones.
LEMMA EffectRows ==
    ASSUME TypeOK, RowsAgree, NEW m \in Values, Effect(m)
    PROVE  /\ openPrs' \in [PullRequests -> OpenRow \cup {NoRow}]
           /\ outbox' \in [PullRequests -> {"none", "pending", "cancelled"}]
           /\ RowsAgree'
<1> DEFINE s == m.snap
           rows == OpenAfter(s)
<1>1. /\ m.kind \in {"snapshot", "review"}
      /\ watermark' = WatermarkAfter(s)
      /\ outbox' = OutboxAfter(s)
      /\ m.kind = "snapshot" => firstReviews' = firstReviews /\ openPrs' = rows
      /\ m.kind = "review" => /\ firstReviews' = ReviewsAfter(m)
                              /\ openPrs' = ReviewedOpen(m)
    BY DEF Effect, apply_pull_request, apply_review
<1>2. /\ s.pr \in PullRequests /\ s.updated \in Nat \ {0}
      /\ m.kind = "review" => m.review \in Review
    BY <1>1, RecordTypes
<1>3. /\ UpsertedRow(s) \in OpenRow
      /\ UpsertedRow(s).updated = s.updated
      /\ UpsertedRow(s).first = firstReviews[s.pr]
    BY <1>1, UpsertAgrees
<1>4. outbox' \in [PullRequests -> {"none", "pending", "cancelled"}]
    BY <1>1, <1>2 DEF OutboxAfter, TypeOK
<1>5. rows \in [PullRequests -> OpenRow \cup {NoRow}]
    BY <1>2, <1>3 DEF OpenAfter, TypeOK
<1>6. \A pr \in PullRequests : rows[pr] # NoRow =>
          /\ rows[pr].updated = watermark'[pr]
          /\ rows[pr].first = firstReviews[pr]
  <2> SUFFICES ASSUME NEW pr \in PullRequests, rows[pr] # NoRow
               PROVE  /\ rows[pr].updated = watermark'[pr]
                      /\ rows[pr].first = firstReviews[pr]
    OBVIOUS
  <2>1. CASE Advances(s) /\ pr = s.pr
    <3>1. rows[pr] = UpsertedRow(s) /\ watermark'[pr] = s.updated
      BY <1>1, <1>2, <2>1 DEF OpenAfter, WatermarkAfter, TypeOK
    <3> QED
      BY <1>3, <2>1, <3>1
  <2>2. CASE ~ (Advances(s) /\ pr = s.pr)
    <3>1. rows[pr] = openPrs[pr] /\ watermark'[pr] = watermark[pr]
      BY <1>1, <1>2, <2>2 DEF OpenAfter, WatermarkAfter, TypeOK
    <3> QED
      BY <3>1 DEF RowsAgree
  <2> QED
    BY <2>1, <2>2
<1> HIDE DEF s, rows
<1>7. CASE \/ m.kind = "snapshot"
           \/ m.kind = "review" /\ ~ RecordsReview(m)
  <2>1. openPrs' = rows /\ firstReviews' = firstReviews
    BY <1>1, <1>7 DEF ReviewedOpen, ReviewsAfter, rows, s
  <2> QED
    BY <1>4, <1>5, <1>6, <2>1 DEF RowsAgree
<1>8. CASE m.kind = "review" /\ RecordsReview(m)
  <2>1. firstReviews' = [firstReviews EXCEPT ![s.pr] = m.review]
    BY <1>1, <1>8 DEF ReviewsAfter, s
  <2>2. CASE rows[s.pr] = NoRow
    <3>1. openPrs' = rows
      BY <1>1, <1>8, <2>2 DEF ReviewedOpen, rows, s
    <3>2. \A pr \in PullRequests : pr # s.pr => firstReviews'[pr] = firstReviews[pr]
      BY <2>1 DEF TypeOK
    <3> QED
      BY <1>4, <1>5, <1>6, <2>2, <3>1, <3>2 DEF RowsAgree
  <2>3. CASE rows[s.pr] # NoRow
    <3>1. openPrs' = [rows EXCEPT ![s.pr].first = m.review]
      BY <1>1, <1>8, <2>3 DEF ReviewedOpen, rows, s
    <3>2. rows[s.pr] \in OpenRow
      BY <1>2, <1>5, <2>3
    <3>3. openPrs'[s.pr] = [rows[s.pr] EXCEPT !.first = m.review]
      BY <1>2, <1>5, <3>1
    <3>4. /\ openPrs'[s.pr] \in OpenRow
          /\ openPrs'[s.pr].updated = rows[s.pr].updated
          /\ openPrs'[s.pr].first = m.review
      BY <1>2, <1>8, <3>2, <3>3 DEF OpenRow
    <3>5. firstReviews'[s.pr] = m.review
      BY <1>2, <2>1 DEF TypeOK
    <3>6. \A pr \in PullRequests : pr # s.pr =>
              openPrs'[pr] = rows[pr] /\ firstReviews'[pr] = firstReviews[pr]
      BY <1>5, <2>1, <3>1 DEF TypeOK
    <3>7. openPrs' \in [PullRequests -> OpenRow \cup {NoRow}]
      BY <1>5, <3>1, <3>3, <3>4, <3>6
    <3>8. RowsAgree'
      BY <1>2, <1>6, <2>3, <3>4, <3>5, <3>6 DEF RowsAgree
    <3> QED
      BY <1>4, <3>7, <3>8
  <2> QED
    BY <2>2, <2>3
<1> QED
    BY <1>1, <1>7, <1>8

-----------------------------------------------------------------------------
(* What a step does, seen from the group, the log and the tables.          *)

\* The steps of the group, an acknowledged effect and a stop are all the group
\* sees of a monitor.
LEMMA GroupView ==
    [Next]_vars => \/ GroupStep
                   \/ \E u \in Workers : Stop(u)
                   \/ \E u \in Workers : pc[u] = "process" /\ EffectDone(u)
                   \/ UNCHANGED groupVars
BY DEF Next, vars, Broker, Age, Start_Monitor, SweepRead, SkipSweep, SweepCommit,
   SweepFails, PollNone, PollMessage, Rebalance, Apply, ApplyFails, Ignore,
   _dead_letter, DeadLetterFails, ApplyRefused, Commit, Die, SweepTimer,
   EffectRaised, GroupStep, MemberStep

\* A message in hand is one of the topic's values.
LEMMA MessageType ==
    ASSUME TypeOK, GroupInv, NEW w \in Workers, Busy(w)
    PROVE  Message(w) \in Values /\ cur[w] \in Lineage
<1>1. /\ cur[w].partition \in Partitions /\ cur[w].offset \in Nat
      /\ cur[w].offset < Len(log[cur[w].partition])
    BY BusyHolds DEF TypeOK
<1>2. cur[w] \in Lineage
    BY DEF GroupInv, BusyHoldsMessage
<1> QED
    BY <1>1, <1>2 DEF Message, RecordAt, TypeOK, GroupTypeOK

\* The tables change by one transaction on one record of the log, or not at
\* all.
LEMMA TableStep ==
    ASSUME TypeOK, GroupInv, [Next]_vars
    PROVE  \/ UNCHANGED projection
           \/ \E m \in Values : InLog(m) /\ Effect(m)
<1>1. ASSUME NEW w \in Workers, Busy(w) PROVE InLog(Message(w))
  <2>1. /\ cur[w].partition \in Partitions
        /\ cur[w].offset \in 0 .. Len(log[cur[w].partition]) - 1
    BY <1>1, BusyHolds DEF TypeOK, GroupTypeOK
  <2> QED
    BY <2>1 DEF InLog, Message
<1>2. ASSUME NEW w \in Workers, Apply(w) \/ ApplyFails(w)
      PROVE  UNCHANGED projection \/ \E m \in Values : InLog(m) /\ Effect(m)
    BY <1>1, <1>2, MessageType DEF Apply, ApplyFails, Busy, projection
<1> QED
    BY <1>2 DEF Next, vars, Broker, Age, Start_Monitor, SweepRead, SkipSweep,
       SweepCommit, SweepFails, PollNone, PollMessage, Rebalance, Ignore,
       _dead_letter, DeadLetterFails, ApplyRefused, Commit, Die, SweepTimer

LEMMA LogStep ==
    [Next]_vars => log' = log \/ \E v \in Values : Produce(v)
BY DEF Next, vars, groupVars, Broker, Age, Start_Monitor, SweepRead, SkipSweep,
   SweepCommit, SweepFails, PollNone, PollMessage, Rebalance, Apply, ApplyFails,
   Ignore, _dead_letter, DeadLetterFails, ApplyRefused, Commit, Die, SweepTimer,
   EffectRaised, EffectDone, Assign, Revoke, Poll, Fence, Rejoin, Start, Crash,
   CommitOffset, CommitRejected, CommitFails, brokerVars

\* Dead letters are never taken back.
LEMMA DeadStep ==
    ASSUME TypeOK, GroupInv, [Next]_vars
    PROVE  dead \subseteq dead' /\ dead' \subseteq Lineage
<1>1. ASSUME NEW w \in Workers, _dead_letter(w) \/ DeadLetterFails(w)
      PROVE  dead \subseteq dead' /\ dead' \subseteq Lineage
    BY <1>1, MessageType DEF _dead_letter, DeadLetterFails, Busy, TypeOK
<1> QED
    BY <1>1 DEF TypeOK, Next, vars, Broker, Age, Start_Monitor, SweepRead,
       SkipSweep, SweepCommit, SweepFails, PollNone, PollMessage, Rebalance,
       Apply, ApplyFails, ApplyRefused, Ignore, Commit, Die, SweepTimer

\* Effects do not move committed offsets.
LEMMA EffectCommits ==
    [Next]_vars => GroupStep \/ committed' = committed
BY DEF Next, vars, groupVars, Broker, Age, Start_Monitor, SweepRead, SkipSweep,
   SweepCommit, SweepFails, PollNone, PollMessage, Rebalance, Apply, ApplyFails,
   Ignore, _dead_letter, DeadLetterFails, ApplyRefused, Commit, Die, SweepTimer,
   EffectRaised, EffectDone, GroupStep, MemberStep, brokerVars

-----------------------------------------------------------------------------
(* Types.                                                                  *)

LEMMA GroupKept ==
    ASSUME TypeOK, GroupInv, [Next]_vars PROVE GroupTypeOK' /\ GroupInv'
<1> USE DEF TypeOK
<1>1. CASE GroupStep
    BY <1>1, GroupStepKeeps
<1>2. ASSUME NEW w \in Workers, EffectRaised(w)
      PROVE  GroupTypeOK' /\ GroupInv'
    BY <1>2, StopKeeps, GroupAssumption DEF EffectRaised, Disrupt, brokerVars, GroupTypeOK
<1>3. ASSUME NEW w \in Workers, pc[w] = "process", EffectDone(w)
      PROVE  GroupTypeOK' /\ GroupInv'
    BY <1>3, EffectDoneKeeps
<1>4. ASSUME NEW w \in Workers, ApplyRefused(w)
      PROVE  GroupTypeOK' /\ GroupInv'
    BY <1>4, StopKeeps DEF ApplyRefused, brokerVars, GroupTypeOK
<1>5. CASE UNCHANGED groupVars
  <2> USE <1>5 DEF groupVars
  <2>1. GroupTypeOK'
    BY DEF GroupTypeOK
  <2>2. GroupInv'
    BY DEF GroupInv, CommittedInLog, StoppedHoldsNothing, BusyHoldsMessage,
       PositionInLog, OwnerAtCommitted, Busy, Frontier
  <2> QED
    BY <2>1, <2>2
<1> QED
    BY <1>1, <1>2, <1>3, <1>4, <1>5
    DEF Next, vars, Broker, Age, Start_Monitor, SweepRead, SkipSweep, SweepCommit,
        SweepFails, PollNone, PollMessage, Rebalance, Apply, ApplyFails, Ignore,
        _dead_letter, DeadLetterFails, Commit, Die, SweepTimer, GroupStep, MemberStep

\* Alerts and the monitors' own memory keep their types.
LEMMA MemoryTypes ==
    ASSUME TypeOK, GroupInv, RowsAgree, [Next]_vars
    PROVE  /\ outbox' \in [PullRequests -> {"none", "pending", "cancelled"}]
           /\ aged' \subseteq PullRequests
           /\ due' \in [Workers -> BOOLEAN]
           /\ loop' \in [Workers -> {"top", "sweep", "poll"}]
           /\ seen' \in [Workers -> SUBSET PullRequests]
<1> USE DEF TypeOK
<1>1. \A rows \in SUBSET PullRequests :
        AlertsFor(rows) \in [PullRequests -> {"none", "pending", "cancelled"}]
    BY DEF AlertsFor
<1>2. StaleRows \subseteq PullRequests
    BY DEF StaleRows
<1>3. \A m \in Values : Effect(m) =>
        outbox' \in [PullRequests -> {"none", "pending", "cancelled"}]
    BY EffectRows
<1>4. outbox' \in [PullRequests -> {"none", "pending", "cancelled"}]
  <2>1. ASSUME NEW w \in Workers, Apply(w) \/ ApplyFails(w)
        PROVE  outbox' \in [PullRequests -> {"none", "pending", "cancelled"}]
    BY <1>3, <2>1, MessageType DEF Apply, ApplyFails, Busy
  <2>2. ASSUME NEW w \in Workers, SweepCommit(w) \/ SweepFails(w)
        PROVE  outbox' \in [PullRequests -> {"none", "pending", "cancelled"}]
    BY <1>1, <2>2 DEF SweepCommit, SweepFails
  <2> QED
    BY <2>1, <2>2
    DEF Next, vars, Broker, Age, Start_Monitor, SweepRead, SkipSweep, PollNone,
        PollMessage, Rebalance, Ignore, _dead_letter, DeadLetterFails, ApplyRefused,
        Commit, Die, SweepTimer
<1>5. /\ aged' \subseteq PullRequests
      /\ due' \in [Workers -> BOOLEAN]
      /\ loop' \in [Workers -> {"top", "sweep", "poll"}]
      /\ seen' \in [Workers -> SUBSET PullRequests]
    BY <1>2 DEF Next, vars, Broker, Age, Start_Monitor, SweepRead, SkipSweep,
       SweepCommit, SweepFails, PollNone, PollMessage, Rebalance, Apply,
       ApplyFails, Ignore, _dead_letter, DeadLetterFails, ApplyRefused, Commit, Die,
       SweepTimer, Forget, sweepVars
<1> QED
    BY <1>4, <1>5

\* Types, the group's invariant and the agreement of the rows are kept.
LEMMA TypeStep ==
    ASSUME TypeOK, GroupInv, RowsAgree, [Next]_vars
    PROVE  TypeOK' /\ GroupInv' /\ RowsAgree'
<1>1. GroupTypeOK' /\ GroupInv'
    BY GroupKept
<1>2. CASE UNCHANGED projection
  <2>1. RowsAgree'
    BY <1>2 DEF projection, RowsAgree
  <2> QED
    BY <1>1, <1>2, <2>1, MemoryTypes, DeadStep DEF TypeOK, projection
<1>3. ASSUME NEW m \in Values, Effect(m)
      PROVE  TypeOK' /\ RowsAgree'
    BY <1>1, <1>3, EffectForward, EffectRows, MemoryTypes, DeadStep DEF TypeOK
<1> QED
    BY <1>1, <1>2, <1>3, TableStep

-----------------------------------------------------------------------------
(* The inductive step.                                                     *)

LEMMA InitIInv == Init => IInv
<1> SUFFICES ASSUME Init PROVE IInv
    OBVIOUS
<1>1. TypeOK /\ GroupInv
    BY GroupInitial DEF Init, TypeOK
<1>2. RowsAgree
    BY DEF Init, RowsAgree
<1>3. CommittedIsApplied
    BY DEF Init, GroupInit, CommittedIsApplied
<1>4. WorkersVouch
    BY DEF Init, GroupInit, WorkersVouch
<1> QED
    BY <1>1, <1>2, <1>3, <1>4 DEF IInv

\* No step moves the projection back.
LEMMA ForwardStep ==
    ASSUME TypeOK, GroupInv, [Next]_vars, NEW pr \in PullRequests
    PROVE  /\ watermark'[pr] >= watermark[pr]
           /\ firstReviews[pr] # NoReview =>
                /\ firstReviews'[pr] # NoReview
                /\ firstReviews'[pr].submitted <= firstReviews[pr].submitted
<1>1. CASE UNCHANGED projection
    BY <1>1, MonitorAssumption DEF projection, TypeOK, Review
<1> QED
    BY <1>1, TableStep, EffectForward

\* What a record has been applied as stays applied.
LEMMA AppliedKept ==
    ASSUME TypeOK, GroupInv, RowsAgree, [Next]_vars, NEW p \in Partitions,
           NEW o \in Nat, o < Len(log[p]), Applied(p, o)
    PROVE  Applied(p, o)'
<1> DEFINE m == RecordAt(p, o)
<1>1. RecordAt(p, o)' = RecordAt(p, o)
    BY LogStep, RecordKept DEF TypeOK
<1>2. RecordAt(p, o) \in Values
    BY DEF RecordAt, TypeOK, GroupTypeOK
<1>3. PICK n \in Values : n = RecordAt(p, o)
    BY <1>2
<1>4. n.kind = "invalid" => [partition |-> p, offset |-> o] \in dead'
    BY <1>3, DeadStep DEF Applied
<1>5. n.kind \in {"snapshot", "review"} => watermark'[n.snap.pr] >= n.snap.updated
  <2> SUFFICES ASSUME n.kind \in {"snapshot", "review"}
               PROVE  watermark'[n.snap.pr] >= n.snap.updated
    OBVIOUS
  <2>1. n.snap.pr \in PullRequests /\ n.snap.updated \in Nat
    BY RecordTypes
  <2>2. watermark[n.snap.pr] >= n.snap.updated
    BY <1>3 DEF Applied
  <2>3. watermark[n.snap.pr] \in Nat /\ watermark'[n.snap.pr] \in Nat
    BY <2>1, TypeStep DEF TypeOK
  <2> QED
    BY <2>1, <2>2, <2>3, ForwardStep
<1>6. Eligible(n) =>
          /\ firstReviews'[n.snap.pr] # NoReview
          /\ firstReviews'[n.snap.pr].submitted <= n.review.submitted
  <2> SUFFICES ASSUME Eligible(n)
               PROVE  /\ firstReviews'[n.snap.pr] # NoReview
                      /\ firstReviews'[n.snap.pr].submitted <= n.review.submitted
    OBVIOUS
  <2>1. n.snap.pr \in PullRequests /\ n.review \in Review
    BY RecordTypes DEF Eligible
  <2>2. /\ firstReviews[n.snap.pr] # NoReview
        /\ firstReviews[n.snap.pr].submitted <= n.review.submitted
    BY <1>3 DEF Applied
  <2>3. /\ firstReviews'[n.snap.pr] # NoReview
        /\ firstReviews'[n.snap.pr].submitted <= firstReviews[n.snap.pr].submitted
    BY <2>1, <2>2, ForwardStep
  <2>4. firstReviews[n.snap.pr] \in Review /\ firstReviews'[n.snap.pr] \in Review
    BY <2>1, <2>2, <2>3, TypeStep DEF TypeOK
  <2> QED
    BY <2>1, <2>2, <2>3, <2>4 DEF Review
<1>7. Eligible(RecordAt(p, o))' <=> Eligible(n)
    BY <1>1, <1>3 DEF Eligible
<1> QED
    BY <1>1, <1>3, <1>4, <1>5, <1>6, <1>7 DEF Applied, Eligible

LEMMA DurableStep ==
    ASSUME IInv, [Next]_vars PROVE CommittedIsApplied'
<1> SUFFICES ASSUME NEW p \in Partitions, NEW o \in 0 .. committed'[p] - 1
             PROVE  Applied(p, o)'
    BY DEF CommittedIsApplied
<1> USE DEF IInv
<1>1. committed[p] \in Nat /\ Len(log[p]) \in Nat /\ committed[p] <= Len(log[p])
      /\ committed'[p] \in Nat
    BY TypeStep DEF TypeOK, GroupTypeOK, GroupInv, CommittedInLog
<1>2. CASE o < committed[p]
  <2>1. Applied(p, o)
    BY <1>1, <1>2 DEF CommittedIsApplied
  <2> QED
    BY <1>1, <1>2, <2>1, AppliedKept
<1>3. ASSUME ~ o < committed[p],
             NEW w \in Workers, pc[w] = "commit", AdvanceOffset(w)
      PROVE  Applied(p, o)'
  <2>1. /\ cur[w].partition \in Partitions /\ cur[w].offset \in Nat
        /\ cur[w].partition \in assigned[w]
        /\ cur[w].offset < Len(log[cur[w].partition])
    BY <1>3, BusyHolds DEF TypeOK, Busy
  <2>2. cur[w].partition = p /\ committed'[p] = cur[w].offset + 1
    BY <1>1, <1>3, <2>1 DEF AdvanceOffset, TypeOK, GroupTypeOK
  <2>3. CASE o = cur[w].offset
    BY <1>3, <2>1, <2>2, <2>3, AppliedKept DEF WorkersVouch
  <2>4. CASE o < cur[w].offset
    <3>1. Frontier(w, p) = cur[w].offset
      BY <1>3, <2>2 DEF Frontier, Busy
    <3>2. Applied(p, o)
      BY <2>1, <2>2, <2>4, <3>1 DEF WorkersVouch
    <3> QED
      BY <1>1, <2>1, <2>2, <2>4, <3>2, AppliedKept
  <2> QED
    BY <2>1, <2>2, <2>3, <2>4
<1> QED
    BY <1>1, <1>2, <1>3, CommitStep, EffectCommits

\* A monitor about to commit has just acknowledged the effect of the message
\* it holds, or was about to commit before the step.
LEMMA CommitNext ==
    ASSUME TypeOK, GroupInv, [Next]_vars, NEW w \in Workers, pc'[w] = "commit"
    PROVE  /\ cur'[w] = cur[w]
           /\ \/ pc[w] = "commit"
              \/ /\ pc[w] = "process" /\ log' = log
                 /\ Apply(w) \/ Ignore(w) \/ _dead_letter(w)
<1> USE DEF TypeOK, GroupTypeOK
<1>1. ASSUME NEW u \in Workers, Apply(u) \/ Ignore(u) \/ _dead_letter(u)
      PROVE  /\ cur'[w] = cur[w] /\ log' = log
             /\ pc[w] = "commit" \/ (u = w /\ pc[w] = "process")
  <2>1. pc[u] = "process" /\ EffectDone(u)
    BY <1>1 DEF Apply, Ignore, _dead_letter
  <2>2. cur' = cur /\ log' = log /\ pc' = [pc EXCEPT ![u] = "commit"]
    BY <2>1 DEF EffectDone, brokerVars
  <2>3. CASE u = w
    BY <2>1, <2>2, <2>3
  <2>4. CASE u # w
    <3>1. pc'[w] = pc[w] /\ cur'[w] = cur[w]
      BY <2>2, <2>4
    <3>2. pc[w] = "commit"
      BY <3>1
    <3> QED
      BY <2>2, <3>1, <3>2
  <2> QED
    BY <2>3, <2>4
<1>2. ASSUME NEW u \in Workers, Stop(u)
      PROVE  cur'[w] = cur[w] /\ pc[w] = "commit"
    BY <1>2 DEF Stop
<1>3. ASSUME GroupStep PROVE cur'[w] = cur[w] /\ pc[w] = "commit"
    BY <1>2, <1>3 DEF GroupStep, MemberStep, Produce, Assign, Revoke, Poll, Fence, Rejoin,
       Start, Crash, CommitOffset, CommitRejected, CommitFails
<1>4. CASE UNCHANGED groupVars
    BY <1>4 DEF groupVars
<1> QED
    BY <1>1, <1>2, <1>3, <1>4
    DEF Next, vars, Broker, Age, Start_Monitor, SweepRead, SkipSweep, SweepCommit,
        SweepFails, PollNone, PollMessage, Rebalance, ApplyFails, DeadLetterFails,
        ApplyRefused, Commit, Die, SweepTimer, EffectRaised, GroupStep, MemberStep

LEMMA VouchStep ==
    ASSUME IInv, [Next]_vars PROVE WorkersVouch'
<1> USE DEF IInv
<1>1. TypeOK' /\ GroupInv'
    BY TypeStep
<1>2. ASSUME NEW w \in Workers, NEW p \in assigned'[w],
             NEW o \in 0 .. Frontier(w, p)' - 1
      PROVE  Applied(p, o)'
  <2>1. p \in Partitions /\ Len(log[p]) \in Nat /\ o \in Nat
    BY <1>1 DEF TypeOK, GroupTypeOK
  <2>2. CASE p \in assigned[w] /\ Frontier(w, p)' = Frontier(w, p)
    <3>1. Applied(p, o)
      BY <2>2 DEF WorkersVouch
    <3>2. o < Len(log[p])
      BY <2>1, <2>2 DEF Frontier, GroupInv, PositionInLog, BusyHoldsMessage,
         TypeOK, GroupTypeOK, Lineage
    <3> QED
      BY <2>1, <3>1, <3>2, AppliedKept
  <2>3. CASE Frontier(w, p)' = committed[p]
    <3>1. Applied(p, o) /\ o < Len(log[p])
      BY <2>1, <2>3 DEF CommittedIsApplied, GroupInv, CommittedInLog, TypeOK, GroupTypeOK
    <3> QED
      BY <2>1, <3>1, AppliedKept
  <2>4. CASE /\ pc[w] = "commit" /\ cur[w].partition = p
             /\ p \in assigned[w] /\ Frontier(w, p)' = cur[w].offset + 1
    <3>1. cur[w].offset \in Nat /\ cur[w].offset < Len(log[p])
      BY <2>4, BusyHolds DEF TypeOK, Busy
    <3>2. Frontier(w, p) = cur[w].offset
      BY <2>4 DEF Frontier, Busy
    <3>3. Applied(p, o)
      BY <2>4, <3>1, <3>2 DEF WorkersVouch
    <3>4. o < Len(log[p])
      BY <2>1, <2>4, <3>1
    <3> QED
      BY <2>1, <3>3, <3>4, AppliedKept
  <2> QED
    BY <1>1, <2>2, <2>3, <2>4, GroupView, FrontierStep DEF TypeOK
<1>3. ASSUME NEW w \in Workers, pc'[w] = "commit"
      PROVE  Applied(cur[w].partition, cur[w].offset)'
  <2>1. /\ cur'[w] = cur[w] /\ Busy(w)
        /\ \/ pc[w] = "commit"
           \/ /\ pc[w] = "process" /\ log' = log
              /\ Apply(w) \/ Ignore(w) \/ _dead_letter(w)
    BY <1>3, CommitNext DEF Busy
  <2>2. PICK p \in Partitions, o \in Nat :
            /\ p = cur[w].partition /\ o = cur[w].offset
            /\ o < Len(log[p])
    BY <2>1, BusyHolds DEF TypeOK
  <2>3. CASE pc[w] = "commit"
    <3>1. Applied(p, o)
      BY <2>2, <2>3 DEF WorkersVouch
    <3> QED
      BY <2>1, <2>2, <3>1, AppliedKept
  <2>4. CASE log' = log /\ (Apply(w) \/ Ignore(w) \/ _dead_letter(w))
    <3>1. PICK m \in Values : m = Message(w) /\ m = RecordAt(p, o)
      BY <2>1, <2>2, MessageType DEF Message
    <3>2. RecordAt(p, o)' = m
      BY <2>4, <3>1 DEF RecordAt
    <3>3. CASE Apply(w)
      <4>1. Effect(m) /\ m.kind \in {"snapshot", "review"}
        BY <3>1, <3>3 DEF Apply, Effect
      <4>2. /\ watermark'[m.snap.pr] >= m.snap.updated
            /\ Eligible(m) =>
                /\ firstReviews'[m.snap.pr] # NoReview
                /\ firstReviews'[m.snap.pr].submitted <= m.review.submitted
        BY <4>1, EffectForward
      <4>3. Applied(p, o)'
        BY <3>2, <4>1, <4>2 DEF Applied, Eligible
      <4> QED
        BY <2>1, <2>2, <4>3
    <3>4. CASE Ignore(w)
      <4>1. m.kind = "ignored"
        BY <3>1, <3>4 DEF Ignore
      <4>2. Applied(p, o)'
        BY <3>2, <4>1 DEF Applied, Eligible
      <4> QED
        BY <2>1, <2>2, <4>2
    <3>5. CASE _dead_letter(w)
      <4>1. m.kind = "invalid" /\ cur[w] \in dead'
        BY <3>1, <3>5 DEF _dead_letter
      <4>2. cur[w] = [partition |-> p, offset |-> o]
        BY <2>1, <2>2, MessageType DEF Lineage
      <4>3. Applied(p, o)'
        BY <3>2, <4>1, <4>2 DEF Applied, Eligible
      <4> QED
        BY <2>1, <2>2, <4>3
    <3> QED
      BY <2>4, <3>3, <3>4, <3>5
  <2> QED
    BY <2>1, <2>3, <2>4
<1> QED
  <2>1. \A w \in Workers : \A p \in assigned'[w] :
            \A o \in 0 .. Frontier(w, p)' - 1 : Applied(p, o)'
    BY <1>2
  <2> QED
    BY <1>3, <2>1 DEF WorkersVouch

-----------------------------------------------------------------------------

\* The inductive invariant, type correctness in it, holds in every reachable
\* state for every number of monitors, partitions and pull requests.
THEOREM Inductive == Spec => []IInv
<1>1. IInv /\ [Next]_vars => IInv'
    BY TypeStep, DurableStep, VouchStep DEF IInv
<1> QED
    BY <1>1, InitIInv, PTL DEF Spec

\* The tables of pr_storage.py keep their types.
THEOREM TypeCorrect == Spec => []TypeOK
<1>1. IInv => TypeOK
    BY DEF IInv
<1> QED
    BY <1>1, Inductive, PTL

\* No committed record is missing from the projection (pr_monitor.py:203-248).
THEOREM Durability == Spec => []CommittedIsApplied
<1>1. IInv => CommittedIsApplied
    BY DEF IInv
<1> QED
    BY <1>1, Inductive, PTL

\* The open row, the watermark and the retained review agree after every
\* transaction, crash and replay (pr_storage.py:244-340).
THEOREM Agreement == Spec => []RowsAgree
<1>1. IInv => RowsAgree
    BY DEF IInv
<1> QED
    BY <1>1, Inductive, PTL

\* Watermarks rise and first reviews only get earlier (pr_storage.py:106, 182).
THEOREM Forward == Spec => ProjectionMovesForward
<1>1. IInv /\ [Next]_vars =>
        [\A pr \in PullRequests :
            /\ watermark'[pr] >= watermark[pr]
            /\ firstReviews[pr] # NoReview =>
                /\ firstReviews'[pr] # NoReview
                /\ firstReviews'[pr].submitted <= firstReviews[pr].submitted]_vars
    BY ForwardStep DEF IInv
<1> QED
    BY <1>1, Inductive, PTL DEF Spec, ProjectionMovesForward

-----------------------------------------------------------------------------
(* Convergence: the tables hold only what the log has put there.           *)

\* One transaction leaves a pull request's watermark and row as they were, but
\* for the review, or makes both from its own snapshot; likewise the review.
LEMMA EffectSource ==
    ASSUME TypeOK, RowsAgree, NEW m \in Values, Effect(m), NEW pr \in PullRequests
    PROVE  /\ \/ /\ watermark'[pr] = watermark[pr]
                 /\ openPrs'[pr] = NoRow <=> openPrs[pr] = NoRow
                 /\ openPrs[pr] # NoRow => openPrs'[pr].draft = openPrs[pr].draft
              \/ /\ Carries(m, pr)
                 /\ watermark'[pr] = m.snap.updated
                 /\ Shows(pr, m)'
           /\ \/ firstReviews'[pr] = firstReviews[pr]
              \/ Carries(m, pr) /\ Eligible(m) /\ firstReviews'[pr] = m.review
<1> DEFINE s == m.snap
           rows == OpenAfter(s)
<1>1. /\ m.kind \in {"snapshot", "review"}
      /\ watermark' = WatermarkAfter(s)
      /\ m.kind = "snapshot" => firstReviews' = firstReviews /\ openPrs' = rows
      /\ m.kind = "review" => /\ firstReviews' = ReviewsAfter(m)
                              /\ openPrs' = ReviewedOpen(m)
    BY DEF Effect, apply_pull_request, apply_review
<1>2. /\ s.pr \in PullRequests /\ s.updated \in Nat \ {0} /\ s.draft \in BOOLEAN
      /\ m.kind = "review" => m.review \in Review
    BY <1>1, RecordTypes
<1>3. /\ UpsertedRow(s) \in OpenRow
      /\ UpsertedRow(s).draft = s.draft
    BY <1>1, UpsertAgrees DEF UpsertedRow
<1>4. rows \in [PullRequests -> OpenRow \cup {NoRow}]
    BY <1>2, <1>3 DEF OpenAfter, TypeOK
<1>5. \A row \in OpenRow : row # NoRow
    BY MonitorAssumption
<1>6. \/ watermark'[pr] = watermark[pr] /\ rows[pr] = openPrs[pr]
      \/ /\ pr = s.pr /\ watermark'[pr] = s.updated
         /\ IF s.state = "closed" THEN rows[pr] = NoRow
            ELSE rows[pr] # NoRow /\ rows[pr].draft = s.draft
  <2>1. CASE Advances(s) /\ pr = s.pr
    <3>1. m.snap.state \in {"open", "closed"}
      BY <1>1, MonitorAssumption
      DEF SnapshotRecord, ReviewRecord, OtherRecord, Snapshot
    <3>2. /\ watermark'[pr] = s.updated
          /\ rows[pr] = IF s.state = "open" THEN UpsertedRow(s) ELSE NoRow
      BY <1>1, <1>2, <2>1 DEF OpenAfter, WatermarkAfter, TypeOK
    <3> QED
      BY <1>3, <1>5, <2>1, <3>1, <3>2
  <2>2. CASE ~ (Advances(s) /\ pr = s.pr)
    BY <1>1, <1>2, <2>2 DEF OpenAfter, WatermarkAfter, TypeOK
  <2> QED
    BY <2>1, <2>2
<1>7. /\ openPrs'[pr] = NoRow <=> rows[pr] = NoRow
      /\ rows[pr] # NoRow => openPrs'[pr].draft = rows[pr].draft
  <2>1. CASE openPrs' = rows
    BY <2>1
  <2>2. CASE m.kind = "review" /\ openPrs' = [rows EXCEPT ![s.pr].first = m.review]
                                /\ rows[s.pr] # NoRow
    <3> HIDE DEF s, rows
    <3>1. CASE pr = s.pr
      <4>1. rows[pr] \in OpenRow
        BY <1>4, <2>2, <3>1
      <4>2. openPrs'[pr] = [rows[pr] EXCEPT !.first = m.review]
        BY <1>4, <2>2, <3>1
      <4>3. openPrs'[pr] \in OpenRow /\ openPrs'[pr].draft = rows[pr].draft
        BY <1>2, <2>2, <4>1, <4>2 DEF OpenRow
      <4> QED
        BY <1>5, <4>1, <4>3
    <3>2. CASE pr # s.pr
      BY <1>4, <2>2, <3>2
    <3> QED
      BY <3>1, <3>2
  <2> QED
    BY <1>1, <2>1, <2>2 DEF ReviewedOpen
<1>8. Carries(m, pr) <=> pr = s.pr
    BY <1>1 DEF Carries
<1>9. \/ firstReviews'[pr] = firstReviews[pr]
      \/ pr = s.pr /\ Eligible(m) /\ firstReviews'[pr] = m.review
    BY <1>1, <1>2 DEF ReviewsAfter, RecordsReview, Eligible, TypeOK
<1> QED
    BY <1>6, <1>7, <1>8, <1>9 DEF Shows

LEMMA InLogKept ==
    ASSUME TypeOK, [Next]_vars, NEW m, InLog(m) PROVE InLog(m)'
<1>1. PICK p \in Partitions : \E o \in 0 .. Len(log[p]) - 1 : RecordAt(p, o) = m
    BY DEF InLog
<1>2. PICK o \in 0 .. Len(log[p]) - 1 : RecordAt(p, o) = m
    BY <1>1
<1>3. /\ Len(log[p]) \in Nat /\ Len(log'[p]) \in Nat /\ Len(log[p]) <= Len(log'[p])
    BY LogStep, RecordsStay DEF TypeOK, GroupTypeOK
<1>4. RecordAt(p, o)' = m
    BY <1>2, <1>3, LogStep, RecordKept DEF TypeOK
<1> QED
    BY <1>3, <1>4 DEF InLog

LEMMA SourceStep ==
    ASSUME IInv, TablesComeFromLog, [Next]_vars PROVE TablesComeFromLog'
<1> USE DEF IInv
<1> SUFFICES ASSUME NEW pr \in PullRequests
    PROVE  /\ watermark'[pr] # 0 =>
                \E m \in Values : /\ InLog(m)' /\ Carries(m, pr)
                                  /\ m.snap.updated = watermark'[pr]
                                  /\ Shows(pr, m)'
           /\ firstReviews'[pr] # NoReview =>
                \E m \in Values : /\ InLog(m)' /\ Carries(m, pr) /\ Eligible(m)
                                  /\ m.review = firstReviews'[pr]
    BY DEF TablesComeFromLog, Carries, Eligible
<1>1. /\ watermark[pr] # 0 =>
            \E m \in Values : /\ InLog(m)' /\ Carries(m, pr)
                              /\ m.snap.updated = watermark[pr]
                              /\ Shows(pr, m)
      /\ firstReviews[pr] # NoReview =>
            \E m \in Values : /\ InLog(m)' /\ Carries(m, pr) /\ Eligible(m)
                              /\ m.review = firstReviews[pr]
    BY InLogKept DEF TablesComeFromLog
<1>2. CASE UNCHANGED projection
    BY <1>1, <1>2 DEF projection, Shows
<1>3. ASSUME NEW n \in Values, InLog(n), Effect(n)
      PROVE  /\ watermark'[pr] # 0 =>
                \E m \in Values : /\ InLog(m)' /\ Carries(m, pr)
                                  /\ m.snap.updated = watermark'[pr]
                                  /\ Shows(pr, m)'
             /\ firstReviews'[pr] # NoReview =>
                \E m \in Values : /\ InLog(m)' /\ Carries(m, pr) /\ Eligible(m)
                                  /\ m.review = firstReviews'[pr]
  <2>1. InLog(n)'
    BY <1>3, InLogKept
  <2>2. \/ /\ watermark'[pr] = watermark[pr]
           /\ openPrs'[pr] = NoRow <=> openPrs[pr] = NoRow
           /\ openPrs[pr] # NoRow => openPrs'[pr].draft = openPrs[pr].draft
        \/ Carries(n, pr) /\ watermark'[pr] = n.snap.updated /\ Shows(pr, n)'
    BY <1>3, EffectSource
  <2>3. \/ firstReviews'[pr] = firstReviews[pr]
        \/ Carries(n, pr) /\ Eligible(n) /\ firstReviews'[pr] = n.review
    BY <1>3, EffectSource
  <2>4. ASSUME watermark'[pr] # 0
        PROVE  \E m \in Values : /\ InLog(m)' /\ Carries(m, pr)
                                 /\ m.snap.updated = watermark'[pr]
                                 /\ Shows(pr, m)'
    BY <1>1, <2>1, <2>2, <2>4 DEF Shows
  <2>5. ASSUME firstReviews'[pr] # NoReview
        PROVE  \E m \in Values : /\ InLog(m)' /\ Carries(m, pr) /\ Eligible(m)
                                 /\ m.review = firstReviews'[pr]
    BY <1>1, <2>1, <2>3, <2>5
  <2> QED
    BY <2>4, <2>5
<1> QED
    BY <1>2, <1>3, TableStep

\* Once everything is committed, RecordsOf is what the log carries of a pull
\* request, and all of it has been applied.
LEMMA RecordsOfLog ==
    ASSUME TypeOK, CommittedIsApplied, NEW pr \in PullRequests,
           \A p \in Partitions : committed[p] = Len(log[p])
    PROVE  /\ \A m \in Values : InLog(m) /\ Carries(m, pr) => m \in RecordsOf(pr)
           /\ \A m \in RecordsOf(pr) :
                /\ m \in Values /\ Carries(m, pr)
                /\ watermark[pr] >= m.snap.updated
                /\ Eligible(m) => /\ firstReviews[pr] # NoReview
                                  /\ firstReviews[pr].submitted <= m.review.submitted
<1>1. \A p \in Partitions : log[p] \in Seq(Values) /\ Len(log[p]) \in Nat
    BY DEF TypeOK, GroupTypeOK
<1>2. ASSUME NEW m \in Values, InLog(m), Carries(m, pr) PROVE m \in RecordsOf(pr)
  <2>1. PICK p \in Partitions : \E o \in 0 .. Len(log[p]) - 1 : RecordAt(p, o) = m
    BY <1>2 DEF InLog
  <2>2. \E i \in 1 .. committed[p] : log[p][i] = m
    BY <1>1, <2>1 DEF RecordAt
  <2> QED
    BY <1>2, <2>1, <2>2 DEF RecordsOf
<1>3. ASSUME NEW m \in RecordsOf(pr)
      PROVE  /\ m \in Values /\ Carries(m, pr)
             /\ watermark[pr] >= m.snap.updated
             /\ Eligible(m) => /\ firstReviews[pr] # NoReview
                               /\ firstReviews[pr].submitted <= m.review.submitted
  <2>1. Carries(m, pr)
    BY DEF RecordsOf
  <2>2. PICK p \in Partitions : \E i \in 1 .. committed[p] : m = log[p][i]
    BY DEF RecordsOf
  <2>3. PICK i \in 1 .. committed[p] : m = log[p][i]
    BY <2>2
  <2>4. i - 1 \in 0 .. committed[p] - 1 /\ RecordAt(p, i - 1) = m /\ m \in Values
    BY <1>1, <2>3 DEF RecordAt
  <2>5. Applied(p, i - 1)
    BY <2>4 DEF CommittedIsApplied
  <2> QED
    BY <2>1, <2>4, <2>5 DEF Applied, Carries
<1> QED
    BY <1>2, <1>3

LEMMA Converged ==
    ASSUME TimesTellApart, IInv, TablesComeFromLog PROVE ProjectionConverges
<1> USE DEF IInv
<1> SUFFICES ASSUME \A p \in Partitions : committed[p] = Len(log[p]),
                    NEW pr \in PullRequests, RecordsOf(pr) # {}
    PROVE  LET newest == CHOOSE m \in RecordsOf(pr) :
                            \A n \in RecordsOf(pr) : n.snap.updated <= m.snap.updated
               votes == {m.review : m \in {n \in RecordsOf(pr) : Eligible(n)}}
               first == IF votes = {} THEN NoReview
                        ELSE CHOOSE r \in votes :
                                \A q \in votes : r.submitted <= q.submitted
           IN  /\ firstReviews[pr] = first
               /\ openPrs[pr] = IF newest.snap.state = "closed" THEN NoRow
                                ELSE [draft |-> newest.snap.draft,
                                      updated |-> newest.snap.updated,
                                      first |-> first]
    BY DEF ProjectionConverges
<1> DEFINE newest == CHOOSE m \in RecordsOf(pr) :
                        \A n \in RecordsOf(pr) : n.snap.updated <= m.snap.updated
           votes == {m.review : m \in {n \in RecordsOf(pr) : Eligible(n)}}
           first == IF votes = {} THEN NoReview
                    ELSE CHOOSE r \in votes : \A q \in votes : r.submitted <= q.submitted
           f == firstReviews[pr]
<1>1. /\ \A m \in Values : InLog(m) /\ Carries(m, pr) => m \in RecordsOf(pr)
      /\ \A m \in RecordsOf(pr) :
            /\ m \in Values /\ Carries(m, pr)
            /\ watermark[pr] >= m.snap.updated
            /\ Eligible(m) => f # NoReview /\ f.submitted <= m.review.submitted
    BY RecordsOfLog
<1>2. \A m \in RecordsOf(pr) : m.snap.updated \in Nat \ {0}
    BY <1>1, RecordTypes DEF Carries
<1>3. \A r \in Review : r.submitted \in Nat /\ r # NoReview
    BY MonitorAssumption DEF Review
<1>4. \A m \in RecordsOf(pr) : Eligible(m) => m.review \in Review
    BY <1>1, RecordTypes DEF Carries, Eligible
<1>5. watermark[pr] \in Nat /\ f \in Review \cup {NoReview}
    BY DEF TypeOK
<1>6. first = f
  <2>1. CASE votes = {}
    <3>1. \A m \in RecordsOf(pr) : ~ Eligible(m)
      BY <2>1
    <3>2. f = NoReview
      BY <1>1, <3>1 DEF TablesComeFromLog
    <3> QED
      BY <2>1, <3>2
  <2>2. CASE votes # {}
    <3>1. PICK n \in RecordsOf(pr) : Eligible(n)
      BY <2>2
    <3>2. f # NoReview
      BY <1>1, <3>1
    <3>3. PICK m \in RecordsOf(pr) : Eligible(m) /\ m.review = f
      BY <1>1, <3>2 DEF TablesComeFromLog
    <3>4. f \in votes
      BY <3>3
    <3>5. \A q \in votes : q \in Review /\ f.submitted <= q.submitted
      BY <1>1, <1>4
    <3>6. first \in votes /\ \A q \in votes : first.submitted <= q.submitted
      BY <2>2, <3>4, <3>5
    <3>7. PICK n2 \in RecordsOf(pr) : Eligible(n2) /\ n2.review = first
      BY <3>6
    <3>8. first.submitted = f.submitted
      <4> HIDE DEF first, votes
      <4> QED
        BY <1>3, <3>4, <3>5, <3>6
    <3>9. m \in Values /\ n2 \in Values /\ Carries(m, pr) /\ Carries(n2, pr)
      BY <1>1
    <3> QED
      BY <3>3, <3>7, <3>8, <3>9 DEF TimesTellApart
  <2> QED
    BY <2>1, <2>2
<1>7. /\ openPrs[pr] = NoRow <=> newest.snap.state = "closed"
      /\ openPrs[pr] # NoRow => /\ openPrs[pr].draft = newest.snap.draft
                                /\ openPrs[pr].updated = newest.snap.updated
  <2>1. watermark[pr] # 0
    BY <1>1, <1>2, <1>5
  <2>2. PICK m \in RecordsOf(pr) : m.snap.updated = watermark[pr] /\ Shows(pr, m)
    BY <1>1, <2>1 DEF TablesComeFromLog
  <2>3. \A n \in RecordsOf(pr) : n.snap.updated <= m.snap.updated
    BY <1>1, <1>2, <1>5, <2>2
  <2>4. newest \in RecordsOf(pr)
        /\ \A n \in RecordsOf(pr) : n.snap.updated <= newest.snap.updated
    BY <2>3
  <2> HIDE DEF newest
  <2>5. newest.snap.updated = m.snap.updated
    BY <1>2, <2>3, <2>4
  <2>6. newest.snap = m.snap
    BY <1>1, <2>4, <2>5 DEF TimesTellApart
  <2>7. openPrs[pr] # NoRow => openPrs[pr].updated = watermark[pr]
    BY DEF RowsAgree
  <2> QED
    BY <2>2, <2>6, <2>7 DEF Shows
<1>8. openPrs[pr] # NoRow => openPrs[pr].first = f
    BY DEF RowsAgree
<1>9. openPrs[pr] # NoRow =>
        openPrs[pr] = [draft |-> newest.snap.draft, updated |-> newest.snap.updated,
                       first |-> first]
  <2> SUFFICES ASSUME openPrs[pr] # NoRow
      PROVE openPrs[pr] = [draft |-> newest.snap.draft,
                           updated |-> newest.snap.updated, first |-> first]
    OBVIOUS
  <2>1. openPrs[pr] \in OpenRow
    BY DEF TypeOK
  <2> HIDE DEF newest, first
  <2> QED
    BY <1>6, <1>7, <1>8, <2>1 DEF OpenRow
<1> HIDE DEF newest, first
<1>10. /\ f = first
       /\ openPrs[pr] = IF newest.snap.state = "closed" THEN NoRow
                        ELSE [draft |-> newest.snap.draft,
                              updated |-> newest.snap.updated, first |-> first]
    BY <1>6, <1>7, <1>9
<1> QED
    BY <1>10 DEF newest, first

\* The tables hold what the log put there and nothing else (pr_storage.py:90-185).
THEOREM Sourced == Spec => []TablesComeFromLog
<1>1. Init => TablesComeFromLog
    BY DEF Init, TablesComeFromLog
<1> QED
    BY <1>1, SourceStep, Inductive, PTL DEF Spec

\* For records whose times tell them apart, a group that has committed every
\* record has computed the projection the set of records determines, in
\* whatever order, with whatever replays, by however many monitors
\* (pr_storage.py:90-109, 160-185).
THEOREM Convergence ==
    ASSUME TimesTellApart PROVE Spec => []ProjectionConverges
<1>1. IInv /\ TablesComeFromLog => ProjectionConverges
    BY Converged
<1> QED
    BY <1>1, Inductive, Sourced, PTL

-----------------------------------------------------------------------------
(* Alerts.                                                                 *)

\* The sweep's INSERT raises alerts for the rows its SELECT has read, a close
\* cancels, and nothing else touches the outbox.
LEMMA AlertStep ==
    ASSUME TypeOK, GroupInv, [Next]_vars, NEW pr \in PullRequests
    PROVE  \/ outbox'[pr] = outbox[pr]
           \/ /\ outbox[pr] = "none" /\ outbox'[pr] = "pending"
              /\ UNCHANGED projection
              /\ \E w \in Workers : loop[w] = "sweep" /\ pr \in seen[w]
           \/ outbox[pr] = "pending" /\ outbox'[pr] = "cancelled"
<1>1. ASSUME NEW w \in Workers, SweepCommit(w) \/ SweepFails(w)
      PROVE  \/ outbox'[pr] = outbox[pr]
             \/ /\ outbox[pr] = "none" /\ outbox'[pr] = "pending"
                /\ UNCHANGED projection
                /\ loop[w] = "sweep" /\ pr \in seen[w]
  <2>1. loop[w] = "sweep" /\ UNCHANGED projection
        /\ outbox' \in {outbox, AlertsFor(seen[w])}
    BY <1>1 DEF SweepCommit, SweepFails
  <2> QED
    BY <2>1 DEF AlertsFor
<1>2. ASSUME NEW m \in Values, Effect(m)
      PROVE  \/ outbox'[pr] = outbox[pr]
             \/ outbox[pr] = "pending" /\ outbox'[pr] = "cancelled"
  <2>1. outbox' = OutboxAfter(m.snap)
    BY <1>2 DEF Effect, apply_pull_request, apply_review
  <2> QED
    BY <2>1 DEF OutboxAfter, TypeOK
<1>3. ASSUME NEW w \in Workers, Apply(w) \/ ApplyFails(w)
      PROVE  \/ outbox'[pr] = outbox[pr]
             \/ outbox[pr] = "pending" /\ outbox'[pr] = "cancelled"
    BY <1>2, <1>3, MessageType DEF Apply, ApplyFails, Busy
<1> QED
    BY <1>1, <1>3 DEF Next, vars, Broker, Age, Start_Monitor, SweepRead, SkipSweep,
       PollNone, PollMessage, Rebalance, Ignore, _dead_letter, DeadLetterFails,
       ApplyRefused, Commit, Die, SweepTimer

\* A transaction that deletes the row of a pull request leaves it no pending
\* alert.
LEMMA CloseCancels ==
    ASSUME TypeOK, RowsAgree, NEW m \in Values, Effect(m), NEW pr \in PullRequests,
           openPrs[pr] # NoRow, openPrs'[pr] = NoRow
    PROVE  outbox'[pr] # "pending"
<1>1. /\ m.kind \in {"snapshot", "review"}
      /\ watermark' = WatermarkAfter(m.snap)
      /\ outbox' = OutboxAfter(m.snap)
      /\ m.snap.pr \in PullRequests /\ m.snap.updated \in Nat \ {0}
    BY RecordTypes DEF Effect, apply_pull_request, apply_review
<1>2. /\ Carries(m, pr) /\ watermark'[pr] = m.snap.updated /\ Shows(pr, m)'
    BY EffectSource
<1>3. m.snap.pr = pr /\ m.snap.state = "closed"
    BY <1>2 DEF Carries, Shows
<1>4. Advances(m.snap)
  <2> SUFFICES ASSUME ~ Advances(m.snap) PROVE FALSE
    OBVIOUS
  <2>1. OpenAfter(m.snap) = openPrs
    BY DEF OpenAfter
  <2>2. openPrs' = openPrs \/ openPrs' = [openPrs EXCEPT ![pr].first = m.review]
    BY <1>3, <2>1 DEF Effect, apply_pull_request, apply_review, ReviewedOpen
  <2>3. openPrs' = [openPrs EXCEPT ![pr].first = m.review] /\ m.kind = "review"
    BY <1>3, <2>1, <2>2 DEF Effect, apply_pull_request, apply_review, ReviewedOpen
  <2>4. openPrs[pr] \in OpenRow /\ m.review \in Review
    BY <2>3, RecordTypes DEF TypeOK
  <2>5. openPrs'[pr] = [openPrs[pr] EXCEPT !.first = m.review]
    BY <2>3 DEF TypeOK
  <2>6. openPrs'[pr] \in OpenRow
    BY <2>4, <2>5 DEF OpenRow
  <2> QED
    BY <2>6, MonitorAssumption
<1> QED
    BY <1>1, <1>3, <1>4 DEF OutboxAfter, TypeOK

\* The rows a monitor has read stay stale until it inserts their alerts: the
\* only monitor there is is in its sweep.
LEMMA SweepStep ==
    ASSUME OneMonitor, TypeOK, GroupInv, AlertInv, [Next]_vars
    PROVE  SweepSeesStaleRows'
<1> SUFFICES ASSUME NEW w \in Workers, loop'[w] = "sweep"
             PROVE  pc'[w] = "poll" /\ seen'[w] \subseteq StaleRows'
    BY DEF SweepSeesStaleRows
<1> USE DEF TypeOK
<1>1. \A u \in Workers : u = w
    BY DEF OneMonitor
<1>2. CASE /\ loop[w] = "sweep" /\ pc'[w] = pc[w] /\ seen'[w] = seen[w]
           /\ UNCHANGED projection /\ aged \subseteq aged'
    BY <1>2 DEF AlertInv, SweepSeesStaleRows, StaleRows, projection
<1>3. CASE SweepRead(w)
    BY <1>3 DEF SweepRead, StaleRows, groupVars, projection
<1>4. loop[w] = "sweep" => pc[w] = "poll"
    BY DEF AlertInv, SweepSeesStaleRows
<1>5. ASSUME SweepCommit(w) \/ SweepFails(w) \/ Die(w) \/ ApplyFails(w)
             \/ ApplyRefused(w) \/ DeadLetterFails(w) \/ PollNone(w)
             \/ PollMessage(w) \/ SkipSweep(w)
      PROVE  FALSE
    BY <1>5 DEF SweepCommit, SweepFails, Die, ApplyFails, ApplyRefused, DeadLetterFails,
       PollNone, PollMessage, SkipSweep, Forget
<1>6. ASSUME Rebalance(w) \/ Apply(w) \/ Ignore(w) \/ _dead_letter(w)
             \/ Commit(w) \/ Start_Monitor(w)
      PROVE  FALSE
    BY <1>4, <1>6 DEF Rebalance, Apply, Ignore, _dead_letter, Commit, CommitOffset,
       Start_Monitor, Start, sweepVars
<1>7. CASE Broker
  <2>1. pc' = pc
    BY <1>7 DEF Broker, Produce, Fence
  <2> QED
    BY <1>2, <1>7, <2>1 DEF Broker, sweepVars
<1>8. ASSUME NEW pr \in PullRequests, Age(pr)
      PROVE  pc'[w] = "poll" /\ seen'[w] \subseteq StaleRows'
    BY <1>2, <1>8 DEF Age, groupVars, sweepVars
<1>9. CASE SweepTimer(w)
    BY <1>2, <1>9 DEF SweepTimer, groupVars
<1>10. CASE UNCHANGED vars
    BY <1>2, <1>10 DEF vars, groupVars, sweepVars
<1> QED
    BY <1>1, <1>3, <1>5, <1>6, <1>7, <1>8, <1>9, <1>10 DEF Next

\* A pending alert keeps its open row: a close takes both, and an alert is
\* raised for a row that is still there.
LEMMA PendingStep ==
    ASSUME IInv, AlertInv, [Next]_vars PROVE PendingAlertHasOpenRow'
<1> USE DEF IInv
<1> SUFFICES ASSUME NEW pr \in PullRequests, outbox'[pr] = "pending"
             PROVE  openPrs'[pr] # NoRow
    BY DEF PendingAlertHasOpenRow
<1>1. CASE outbox[pr] = "pending"
  <2>1. openPrs[pr] # NoRow
    BY <1>1 DEF AlertInv, PendingAlertHasOpenRow
  <2> QED
    BY <2>1, TableStep, CloseCancels DEF projection
<1>2. CASE outbox[pr] # "pending"
  <2>1. UNCHANGED projection /\ \E w \in Workers : loop[w] = "sweep" /\ pr \in seen[w]
    BY <1>2, AlertStep
  <2>2. pr \in StaleRows
    BY <2>1 DEF AlertInv, SweepSeesStaleRows
  <2> QED
    BY <2>1, <2>2 DEF StaleRows, projection
<1> QED
    BY <1>1, <1>2

\* A pull request gets one alert for life, however many monitors sweep
\* (pr_storage.py:233, infra/init/003).
THEOREM OneAlert == Spec => OneAlertForLife
<1>1. TypeOK /\ GroupInv /\ [Next]_vars =>
        [\A pr \in PullRequests :
            outbox[pr] # "none" => outbox'[pr] \in {outbox[pr], "cancelled"}]_vars
    BY AlertStep
<1>2. IInv => TypeOK /\ GroupInv
    BY DEF IInv
<1> QED
    BY <1>1, <1>2, Inductive, PTL DEF Spec, OneAlertForLife

\* With one monitor, what its sweep has read stays stale until it inserts, and
\* pending alerts have open rows.
LEMMA AlertInvariant ==
    ASSUME OneMonitor PROVE Spec => []AlertInv
<1>1. Init => AlertInv
    BY DEF Init, AlertInv, SweepSeesStaleRows, PendingAlertHasOpenRow
<1>2. IInv /\ AlertInv /\ [Next]_vars => AlertInv'
    BY SweepStep, PendingStep DEF IInv, AlertInv
<1> QED
    BY <1>1, <1>2, Inductive, PTL DEF Spec

\* With one monitor, no pending alert is left for a pull request that has left
\* the projection (pr_storage.py:339-340).
THEOREM AlertsHaveRows ==
    ASSUME OneMonitor PROVE Spec => []PendingAlertHasOpenRow
<1>1. AlertInv => PendingAlertHasOpenRow
    BY DEF AlertInv
<1> QED
    BY <1>1, AlertInvariant, PTL

\* With one monitor, an alert is raised only for a row that is stale at that
\* moment (pr_storage.py:202-235).
THEOREM AlertsAreDue ==
    ASSUME OneMonitor PROVE Spec => AlertsAreForStaleRows
<1>1. TypeOK /\ GroupInv /\ AlertInv /\ [Next]_vars =>
        [\A pr \in PullRequests :
            outbox[pr] = "none" /\ outbox'[pr] = "pending" => pr \in StaleRows]_vars
    BY AlertStep DEF AlertInv, SweepSeesStaleRows
<1>2. IInv => TypeOK /\ GroupInv
    BY DEF IInv
<1> QED
    BY <1>1, <1>2, Inductive, AlertInvariant, PTL DEF Spec, AlertsAreForStaleRows

\* The promise of tests/integration/README.md:36 holds for records whose times
\* tell them apart: a close that is committed and not overtaken has deleted the
\* row, and no pending alert is left without one.
THEOREM CloseCancelsInOrder ==
    ASSUME TimesTellApart, OneMonitor PROVE Spec => []CloseCancelsAlert
<1>1. ASSUME IInv, TablesComeFromLog, AlertInv PROVE CloseCancelsAlert
  <2> SUFFICES ASSUME NEW p \in Partitions, NEW o \in 0 .. committed[p] - 1,
                      RecordAt(p, o).kind = "snapshot",
                      RecordAt(p, o).snap.state = "closed",
                      RecordAt(p, o).snap.updated >= watermark[RecordAt(p, o).snap.pr]
               PROVE  outbox[RecordAt(p, o).snap.pr] # "pending"
    BY DEF CloseCancelsAlert
  <2>1. RecordAt(p, o) \in Values
    <3>1. log[p] \in Seq(Values) /\ committed[p] \in Nat /\ committed[p] <= Len(log[p])
      BY <1>1 DEF IInv, TypeOK, GroupTypeOK, GroupInv, CommittedInLog
    <3> QED
      BY <3>1 DEF RecordAt
  <2>2. PICK m \in Values : m = RecordAt(p, o)
    BY <2>1
  <2>3. m.snap.pr \in PullRequests /\ m.snap.updated \in Nat \ {0}
    BY <2>2, RecordTypes
  <2>4. PICK pr \in PullRequests : pr = m.snap.pr
    BY <2>3
  <2>5. watermark[pr] = m.snap.updated
    <3>1. watermark[pr] \in Nat
      BY <1>1 DEF IInv, TypeOK
    <3>2. Applied(p, o)
      BY <1>1 DEF IInv, CommittedIsApplied
    <3> QED
      BY <2>2, <2>3, <2>4, <3>1, <3>2 DEF Applied
  <2>6. PICK n \in Values : /\ Carries(n, pr) /\ n.snap.updated = watermark[pr]
                            /\ Shows(pr, n)
    BY <1>1, <2>3, <2>5 DEF TablesComeFromLog
  <2>7. n.snap = m.snap
    BY <2>2, <2>4, <2>5, <2>6 DEF TimesTellApart, Carries
  <2>8. openPrs[pr] = NoRow
    BY <2>2, <2>6, <2>7 DEF Shows
  <2> QED
    BY <1>1, <2>2, <2>4, <2>8 DEF AlertInv, PendingAlertHasOpenRow
<1> QED
  BY <1>1, Inductive, Sourced, AlertInvariant, PTL
=============================================================================
