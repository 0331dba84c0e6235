----------------------- MODULE WebhookReceiver_proofs -----------------------
(***************************************************************************)
(* The inductive invariant of WebhookReceiver: whatever the broker and the *)
(* process do, an answer 202 stands for a record in the topic, and no      *)
(* report is taken from the request that waits for it.                     *)
(***************************************************************************)
EXTENDS WebhookReceiver, TLAPS

\* Client c goes on to s, or is done with status, and nothing else changes: the
\* producer and the callbacks are left alone.
Quiet(c, s, status) ==
    /\ stage[c] # "done" /\ Goto(c, s)
    /\ \/ UNCHANGED answer
       \/ s = "done" /\ answer' = [answer EXCEPT ![c] = status]
    /\ UNCHANGED <<overdue, acked, producerVars, appended, restarts>>

LEMMA Initial == Init => IInv
<1> SUFFICES ASSUME Init PROVE IInv
    OBVIOUS
<1>1. TypeOK
    BY ReceiverAssumption DEF Init, TypeOK
<1>2. SuccessIsTrue /\ QueuedIsOpen /\ UnproducedIsUnknown
    BY DEF Init, SuccessIsTrue, QueuedIsOpen, UnproducedIsUnknown
<1>3. AnsweredIsDone /\ AcceptedIsLogged /\ NoReportIsLost
    BY DEF Init, AnsweredIsDone, AcceptedIsLogged, NoReportIsLost, Clients
<1> QED
    BY <1>1, <1>2, <1>3 DEF IInv

\* A client goes on or is answered and the producer does not notice.
LEMMA QuietStep ==
    ASSUME IInv, NEW c \in Clients, NEW s, NEW status, Quiet(c, s, status),
           s \in {"pooled", "produce", "check", "list_topics", "done"},
           s = "check" => stage[c] = "wait",
           s \in {"pooled", "produce"} =>
               c \in Probes \/ stage[c] \in {"new", "pooled", "produce"},
           status \in {200, 202, 422, 503},
           status = 202 /\ c \in Requests => c \in appended
    PROVE  IInv'
<1> USE DEF IInv, Quiet, producerVars
<1>1. TypeOK'
    BY DEF TypeOK, Goto
<1>2. SuccessIsTrue' /\ QueuedIsOpen' /\ AnsweredIsDone'
    BY DEF SuccessIsTrue, QueuedIsOpen, AnsweredIsDone, TypeOK, Goto, Clients
<1>3. UnproducedIsUnknown'
    BY ReceiverAssumption DEF UnproducedIsUnknown, TypeOK, Goto, Clients
<1>4. AcceptedIsLogged'
    BY DEF AcceptedIsLogged, TypeOK, Clients
<1>5. NoReportIsLost'
    BY DEF NoReportIsLost, TypeOK, Goto, Clients
<1> QED
    BY <1>1, <1>2, <1>3, <1>4, <1>5

\* The handlers, the thread pool and the probes.
LEMMA HandlerKeeps ==
    ASSUME IInv,
           \/ \E r \in Requests : receive_github_webhook(r)
           \/ \E c \in Probes : readiness(c) \/ list_topics(c)
           \/ \E c \in Clients : TakeThread(c)
    PROVE  IInv'
<1>2. \A r \in Requests : r \in Clients
    BY DEF Clients
<1>3. \A c \in Probes : c \in Clients /\ c \notin Requests
    BY ReceiverAssumption DEF Clients
<1>4. ASSUME NEW r \in Requests, receive_github_webhook(r) PROVE IInv'
  <2>1. CASE r \in Malformed
    <3>1. Quiet(r, "done", 422)
      BY <1>4, <2>1 DEF receive_github_webhook, Respond, Quiet
    <3> QED BY <1>2, <1>4, <3>1, QuietStep DEF receive_github_webhook
  <2>2. CASE r \notin Malformed
    <3>1. Quiet(r, "pooled", 503)
      BY <1>4, <2>2 DEF receive_github_webhook, Quiet
    <3> QED BY <1>2, <1>4, <3>1, QuietStep
            DEF receive_github_webhook
  <2> QED BY <2>1, <2>2
<1>5. ASSUME NEW c \in Probes, readiness(c) PROVE IInv'
  <2>1. Quiet(c, "pooled", 503)
    BY <1>5 DEF readiness, Quiet
  <2> QED BY <1>3, <1>5, <2>1, QuietStep DEF readiness
<1>6. ASSUME NEW c \in Probes, list_topics(c) PROVE IInv'
  <2>1. PICK status \in {200, 503} : Respond(c, status)
    BY <1>6 DEF list_topics
  <2>2. Quiet(c, "done", status)
    BY <1>6, <2>1 DEF list_topics, Respond, Quiet
  <2> QED BY <1>3, <1>6, <2>2, QuietStep DEF list_topics
<1>7. ASSUME NEW c \in Clients, TakeThread(c) PROVE IInv'
  <2>1. PICK s \in {"list_topics", "produce"} : Quiet(c, s, 503)
    BY <1>7 DEF TakeThread, Quiet
  <2>2. stage[c] = "pooled"
    BY <1>7 DEF TakeThread
  <2> QED BY <2>1, <2>2, QuietStep
<1> QED
    BY <1>4, <1>5, <1>6, <1>7

\* A thread looks at its callback, or finds its time is up: what it says of a
\* success is true, and a record still in the queue is left to the library.
LEMMA LookKeeps ==
    ASSUME IInv, NEW r \in Requests, Look(r) \/ TimeOut(r)
    PROVE  IInv'
<1>1. r \in Clients /\ acked[r] \in {"none", "ok", "error"}
    BY DEF Clients, IInv, TypeOK
<1>2. CASE TimeOut(r)
  <2>1. Quiet(r, "done", 503)
    BY <1>2 DEF TimeOut, Respond, Quiet
  <2> QED BY <1>1, <2>1, QuietStep
<1>3. CASE Look(r) /\ acked[r] = "ok"
  <2>1. r \in appended
    BY <1>3 DEF IInv, SuccessIsTrue
  <2>2. Quiet(r, "done", 202)
    BY <1>3 DEF Look, Respond, Quiet
  <2> QED BY <1>1, <2>1, <2>2, QuietStep
<1>4. CASE Look(r) /\ acked[r] = "error"
  <2>1. Quiet(r, "done", 503)
    BY <1>4 DEF Look, Respond, Quiet
  <2> QED BY <1>1, <2>1, QuietStep
<1>5. CASE Look(r) /\ acked[r] = "none"
  <2>1. Quiet(r, "check", 503)
    BY <1>5 DEF Look, Quiet
  <2>2. stage[r] = "wait"
    BY <1>5 DEF Look
  <2> QED BY <1>1, <2>1, <2>2, QuietStep
<1> QED
    BY <1>1, <1>2, <1>3, <1>4, <1>5

\* The record enters a queue that has room, and its thread waits; or the library
\* raises and the request is refused.
LEMMA ProduceKeeps ==
    ASSUME IInv, NEW r \in Requests, produce(r)
    PROVE  IInv'
<1>1. r \in Clients /\ stage[r] = "produce"
    BY DEF produce, Clients
<1>2. CASE Respond(r, 503) /\ UNCHANGED queue
  <2>1. Quiet(r, "done", 503)
    BY <1>2 DEF produce, Respond, Quiet, producerVars
  <2> QED BY <1>1, <2>1, QuietStep
<1>3. CASE queue' = queue \cup {r} /\ Goto(r, "wait") /\ UNCHANGED answer
  <2> USE <1>1, <1>3 DEF produce, IInv
  <2>1. TypeOK'
    BY DEF TypeOK, Goto
  <2>2. SuccessIsTrue' /\ AcceptedIsLogged' /\ AnsweredIsDone'
    BY DEF SuccessIsTrue, AcceptedIsLogged, AnsweredIsDone, TypeOK, Goto, Clients
  <2>3. QueuedIsOpen'
    BY DEF QueuedIsOpen, UnproducedIsUnknown
  <2>4. UnproducedIsUnknown' /\ NoReportIsLost'
    BY DEF UnproducedIsUnknown, NoReportIsLost, TypeOK, Goto, Clients
  <2> QED BY <2>1, <2>2, <2>3, <2>4
<1> QED
    BY <1>2, <1>3 DEF produce

\* A poll tells every callback what its report says: the ones it tells have left
\* the queue, and the others lose nothing with the reports it serves.
LEMMA PollKeeps ==
    ASSUME IInv, NEW r \in Requests, Poll(r)
    PROVE  IInv'
<1> USE DEF IInv, Poll
<1>1. r \in Clients /\ stage[r] = "check"
    BY DEF Clients
<1> DEFINE error(q) == [request |-> q, error |-> TRUE] \in reports
           ok(q) == [request |-> q, error |-> FALSE] \in reports
<1>a. \A q \in Requests : acked'[q] = IF error(q) THEN "error"
                                      ELSE IF ok(q) THEN "ok" ELSE acked[q]
    OBVIOUS
<1>b. acked' \in [Requests -> {"none", "ok", "error"}]
  <2> SUFFICES ASSUME NEW q \in Requests
               PROVE  (IF error(q) THEN "error" ELSE IF ok(q) THEN "ok" ELSE acked[q])
                        \in {"none", "ok", "error"}
    OBVIOUS
  <2> QED BY DEF TypeOK
<1>c. ASSUME NEW q \in Requests
      PROVE  /\ ok(q) => q \in appended
             /\ error(q) \/ ok(q) => \E report \in reports : report.request = q
    BY DEF SuccessIsTrue
<1>d. /\ reports' = {} /\ Goto(r, "wait")
      /\ UNCHANGED <<answer, overdue, queue, sent, appended, restarts>>
    OBVIOUS
<1> HIDE DEF error, ok, Poll
<1>2. TypeOK'
    BY <1>1, <1>b, <1>d DEF TypeOK, Goto
<1>3. \A q \in Requests :
        /\ acked'[q] = "ok" => q \in appended
        /\ (\A report \in reports : report.request # q) => acked'[q] = acked[q]
    BY <1>a, <1>c DEF SuccessIsTrue
<1>4. SuccessIsTrue' /\ AcceptedIsLogged'
    BY <1>3, <1>d DEF SuccessIsTrue, AcceptedIsLogged
<1>e. AnsweredIsDone'
    BY <1>1, <1>d DEF AnsweredIsDone, TypeOK, Goto, Clients
<1>5. QueuedIsOpen'
    BY <1>3, <1>d DEF QueuedIsOpen, TypeOK
<1>6. UnproducedIsUnknown'
    BY <1>1, <1>3, <1>d DEF UnproducedIsUnknown, TypeOK, Goto, Clients
<1>7. NoReportIsLost'
  <2> SUFFICES ASSUME NEW q \in Requests, stage'[q] \in {"wait", "check"},
                      acked'[q] = "none", q \notin queue
               PROVE  FALSE
    BY <1>d DEF NoReportIsLost
  <2>1. ~ error(q) /\ ~ ok(q) /\ acked[q] = "none"
    BY <1>a
  <2>2. ASSUME NEW report \in reports, report.request = q PROVE FALSE
    <3>1. report = [request |-> q, error |-> report.error] /\ report.error \in BOOLEAN
      BY <2>2 DEF TypeOK
    <3>2. report = [request |-> q, error |-> TRUE] \/ report = [request |-> q, error |-> FALSE]
      BY <3>1
    <3> QED BY <2>1, <3>2 DEF error, ok
  <2>3. stage[q] \in {"wait", "check"}
    BY <1>1, <1>d DEF TypeOK, Goto, Clients
  <2> QED BY <2>1, <2>2, <2>3 DEF NoReportIsLost
<1> QED
    BY <1>2, <1>4, <1>5, <1>6, <1>7, <1>e

\* The library and the broker.
LEMMA LibraryKeeps ==
    ASSUME IInv, NEW r \in Requests,
           \/ Send(r) \/ Append_(r) \/ Deadline(r)
           \/ \E error \in BOOLEAN : Report(r, error)
    PROVE  IInv'
<1> USE DEF IInv, TypeOK, AnsweredIsDone, Clients
<1>1. CASE Send(r)
    BY <1>1 DEF Send, SuccessIsTrue, QueuedIsOpen, UnproducedIsUnknown,
       AcceptedIsLogged, NoReportIsLost
<1>2. CASE Append_(r)
    BY <1>2 DEF Append_, SuccessIsTrue, QueuedIsOpen, UnproducedIsUnknown,
       AcceptedIsLogged, NoReportIsLost, producerVars
<1>3. CASE Deadline(r)
    BY <1>3 DEF Deadline, SuccessIsTrue, QueuedIsOpen, UnproducedIsUnknown,
       AcceptedIsLogged, NoReportIsLost, producerVars
<1>4. ASSUME NEW error \in BOOLEAN, Report(r, error) PROVE IInv'
  <2> DEFINE report == [request |-> r, error |-> error]
  <2>1. /\ report \in [request : Requests, error : BOOLEAN]
        /\ reports' = reports \cup {report}
        /\ report.request = r /\ (report.error \/ r \in appended)
    BY <1>4 DEF Report
  <2>2. /\ r \in queue /\ queue' = queue \ {r}
        /\ UNCHANGED <<stage, answer, overdue, acked, sent, appended, restarts>>
    BY <1>4 DEF Report
  <2>3. stage[r] \notin {"new", "pooled", "produce"}
    BY <2>2 DEF UnproducedIsUnknown
  <2> HIDE DEF report
  <2> QED BY <2>1, <2>2, <2>3 DEF SuccessIsTrue, QueuedIsOpen, UnproducedIsUnknown,
       AcceptedIsLogged, NoReportIsLost
<1> QED
    BY <1>1, <1>2, <1>3, <1>4

\* A process that ends forgets its queue, its callbacks and who waited for them.
LEMMA RestartKeeps == IInv /\ Restart => IInv'
BY ReceiverAssumption DEF IInv, Restart, TypeOK, SuccessIsTrue, QueuedIsOpen,
   UnproducedIsUnknown, AcceptedIsLogged, NoReportIsLost, UnderWay, AnsweredIsDone, Clients

LEMMA StepKeeps == IInv /\ [Next]_vars => IInv'
<1> SUFFICES ASSUME IInv, [Next]_vars PROVE IInv'
    OBVIOUS
<1>1. CASE UNCHANGED vars
    BY <1>1 DEF vars, producerVars, IInv, TypeOK, SuccessIsTrue, QueuedIsOpen,
       UnproducedIsUnknown, AcceptedIsLogged, NoReportIsLost, AnsweredIsDone
<1> QED
    BY <1>1, HandlerKeeps, LookKeeps, ProduceKeeps, PollKeeps, LibraryKeeps,
       RestartKeeps DEF Next, ReceiverStep, Publish

THEOREM Invariance == Spec => []IInv
<1> QED
    BY Initial, StepKeeps, PTL DEF Spec

\* The state of the receiver stays in its declared ranges.
THEOREM TypeCorrect == Spec => []TypeOK
<1>1. IInv => TypeOK
    BY DEF IInv
<1> QED
    BY <1>1, Invariance, PTL

\* A delivery answered 202 is in the raw topic, for every number of requests and
\* threads, size of the queue and number of restarts (kafka.py:58-86).
THEOREM AcceptedLogged == Spec => []AcceptedIsLogged
<1>1. IInv => AcceptedIsLogged
    BY DEF IInv
<1> QED
    BY <1>1, Invariance, PTL

\* No thread's poll takes a report from the request that waits for it, for every
\* number of requests and threads (kafka.py:62-66, 83).
THEOREM ReportsReach == Spec => []NoReportIsLost
<1>1. IInv => NoReportIsLost
    BY DEF IInv
<1> QED
    BY <1>1, Invariance, PTL
=============================================================================
