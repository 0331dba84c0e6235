-------------------------- MODULE WebhookReceiver --------------------------
(***************************************************************************)
(* webhook/app.py and webhook/kafka.py: the receiver validates a delivery, *)
(* hands it to the one Kafka producer in a thread of asyncio's pool, and   *)
(* answers 202 only for a delivery report without error.  All the threads  *)
(* poll the same producer, so any of them serves the reports of all.       *)
(* A readiness probe takes a thread of the same pool.                      *)
(*                                                                         *)
(* The producer library and the broker are external: a record waits in the *)
(* local queue, is sent, is appended, and is reported; the library may     *)
(* give up on a record, whatever the broker does with it later.  Its       *)
(* message.timeout.ms is 90 % of the time _publish_sync waits, but it      *)
(* looks for expired records now and then: the publisher's clock, which    *)
(* asks nobody, may run out while the library still holds the record.  A   *)
(* process that ends takes its queue and its connections with it; what it  *)
(* has sent may still be appended.                                         *)
(***************************************************************************)
EXTENDS Naturals, FiniteSets

CONSTANTS
    Requests,    \* deliveries GitHub makes
    Malformed,   \* the ones a check turns away: size, signature, headers,
                 \* event name, JSON, envelope
    Probes,      \* readiness probes
    MaxThreads,  \* threads of the pool
    MaxQueue,    \* records the producer's local queue holds
    MaxRestarts  \* bound: times the receiver's process ends

ASSUME ReceiverAssumption ==
    /\ Malformed \subseteq Requests
    /\ Requests \cap Probes = {}
    /\ MaxThreads \in Nat \ {0} /\ MaxQueue \in Nat \ {0}
    /\ MaxRestarts \in Nat

VARIABLES
    stage,    \* stage[r]: where the handling of request or probe r is
    answer,   \* answer[r]: its HTTP status, 0 for none yet
    overdue,  \* requests whose publish deadline has passed
    acked,    \* acked[r]: what its on_delivery callback was told
    queue,    \* records in the producer's local queue, with the ones sent
    sent,     \* records the broker may have received
    reports,  \* delivery reports that no poll has served
    appended, \* requests whose record the broker has appended
    restarts

producerVars == <<queue, sent, reports>>
vars == <<stage, answer, overdue, acked, producerVars, appended, restarts>>

Clients == Requests \cup Probes

TypeOK ==
    /\ stage \in [Clients -> {"new", "pooled", "produce", "wait", "check",
                              "list_topics", "done", "dropped"}]
    /\ answer \in [Clients -> {0, 200, 202, 422, 503}]
    /\ overdue \subseteq Requests
    /\ acked \in [Requests -> {"none", "ok", "error"}]
    /\ queue \subseteq Requests /\ sent \subseteq Requests
    /\ reports \subseteq [request : Requests, error : BOOLEAN]
    /\ appended \subseteq Requests
    /\ restarts \in 0 .. MaxRestarts

Init ==
    /\ stage = [c \in Clients |-> "new"]
    /\ answer = [c \in Clients |-> 0]
    /\ overdue = {} /\ acked = [r \in Requests |-> "none"]
    /\ queue = {} /\ sent = {} /\ reports = {} /\ appended = {}
    /\ restarts = 0

-----------------------------------------------------------------------------
(* The handlers, on the event loop.                                        *)

Goto(c, s) == stage' = [stage EXCEPT ![c] = s]
Respond(c, status) ==
    /\ Goto(c, "done")
    /\ answer' = [answer EXCEPT ![c] = status]

\* receive_github_webhook: every check comes before the publish.  422 stands
\* for each of the statuses of a rejected request.
receive_github_webhook(r) ==
    /\ stage[r] = "new"
    /\ \/ r \in Malformed /\ Respond(r, 422)
       \/ r \notin Malformed /\ Goto(r, "pooled") /\ UNCHANGED answer
    /\ UNCHANGED <<overdue, acked, producerVars, appended, restarts>>

readiness(c) ==
    /\ stage[c] = "new"
    /\ Goto(c, "pooled")
    /\ UNCHANGED <<answer, overdue, acked, producerVars, appended, restarts>>

InThread == {c \in Clients : stage[c] \in {"produce", "wait", "check", "list_topics"}}

\* asyncio.to_thread: a thread of the pool takes the call.
TakeThread(c) ==
    /\ stage[c] = "pooled"
    /\ Cardinality(InThread) < MaxThreads
    /\ Goto(c, IF c \in Probes THEN "list_topics" ELSE "produce")
    /\ UNCHANGED <<answer, overdue, acked, producerVars, appended, restarts>>

-----------------------------------------------------------------------------
(* _publish_sync, in a thread.                                             *)

\* The library takes the record, or raises: BufferError when its queue is full,
\* KafkaException or RuntimeError whatever room there is.
produce(r) ==
    /\ stage[r] = "produce"
    /\ \/ /\ Cardinality(queue) < MaxQueue
          /\ queue' = queue \cup {r}
          /\ Goto(r, "wait")
          /\ UNCHANGED answer
       \/ Respond(r, 503) /\ UNCHANGED queue
    /\ UNCHANGED <<overdue, acked, sent, reports, appended, restarts>>

\* Mutant: a record the library has taken counts as delivered.
LookQueued(r) ==
    /\ stage[r] = "wait"
    /\ IF acked[r] = "error" THEN Respond(r, 503) ELSE Respond(r, 202)
    /\ UNCHANGED <<overdue, acked, producerVars, appended, restarts>>

\* while not completed.is_set().
Look(r) ==
    /\ stage[r] = "wait"
    /\ \/ acked[r] = "ok" /\ Respond(r, 202)
       \/ acked[r] = "error" /\ Respond(r, 503)
       \/ acked[r] = "none" /\ Goto(r, "check") /\ UNCHANGED answer
    /\ UNCHANGED <<overdue, acked, producerVars, appended, restarts>>

\* The time is up: whatever a callback may have said since Look is not seen.
TimeOut(r) ==
    /\ stage[r] = "check" /\ r \in overdue
    /\ Respond(r, 503)
    /\ UNCHANGED <<overdue, acked, producerVars, appended, restarts>>

\* Mutant: one callback for all, a thread takes what poll served for its own.
PollTakesAny(r) ==
    /\ stage[r] = "check" /\ r \notin overdue
    /\ \E report \in reports :
         acked' = [acked EXCEPT ![r] = IF report.error THEN "error" ELSE "ok"]
    /\ reports' = {}
    /\ Goto(r, "wait")
    /\ UNCHANGED <<answer, overdue, queue, sent, appended, restarts>>

\* Mutant: on_delivery ignores a report that another thread's poll serves.
PollKeepsOwn(r) ==
    /\ stage[r] = "check" /\ r \notin overdue
    /\ acked' = [acked EXCEPT ![r] =
        IF [request |-> r, error |-> TRUE] \in reports THEN "error"
        ELSE IF [request |-> r, error |-> FALSE] \in reports THEN "ok" ELSE @]
    /\ reports' = {}
    /\ Goto(r, "wait")
    /\ UNCHANGED <<answer, overdue, queue, sent, appended, restarts>>

\* poll serves the callbacks of the reports there are, also other requests'.
Poll(r) ==
    /\ stage[r] = "check" /\ r \notin overdue
    /\ acked' = [q \in Requests |->
        IF [request |-> q, error |-> TRUE] \in reports THEN "error"
        ELSE IF [request |-> q, error |-> FALSE] \in reports THEN "ok"
        ELSE acked[q]]
    /\ reports' = {}
    /\ Goto(r, "wait")
    /\ UNCHANGED <<answer, overdue, queue, sent, appended, restarts>>

\* Mutant: the metadata request has no timeout and waits for a broker.
list_topics_blocking(c) ==
    /\ stage[c] = "list_topics" /\ appended # {}
    /\ Respond(c, 200)
    /\ UNCHANGED <<overdue, acked, producerVars, appended, restarts>>

\* _is_ready_sync: brokers were found, or the metadata request timed out.
list_topics(c) ==
    /\ stage[c] = "list_topics"
    /\ \E status \in {200, 503} : Respond(c, status)
    /\ UNCHANGED <<overdue, acked, producerVars, appended, restarts>>

-----------------------------------------------------------------------------
(* The producer library, the broker and the clock.                         *)

Send(r) ==
    /\ r \in queue \ sent
    /\ sent' = sent \cup {r}
    /\ UNCHANGED <<stage, answer, overdue, acked, queue, reports, appended, restarts>>

\* enable.idempotence: a record that is sent again is not appended again.
Append_(r) ==
    /\ r \in sent \ appended
    /\ appended' = appended \cup {r}
    /\ UNCHANGED <<stage, answer, overdue, acked, producerVars, restarts>>

\* acks = all: the report of an appended record; or message.timeout.ms is over
\* or the broker refused, with the record appended or not.
Report(r, error) ==
    /\ r \in queue
    /\ error \/ r \in appended
    /\ queue' = queue \ {r}
    /\ reports' = reports \cup {[request |-> r, error |-> error]}
    /\ UNCHANGED <<stage, answer, overdue, acked, sent, appended, restarts>>

\* The publisher's clock runs out, reported or not.
Deadline(r) ==
    /\ stage[r] \in {"wait", "check"}
    /\ r \notin overdue
    /\ overdue' = overdue \cup {r}
    /\ UNCHANGED <<stage, answer, acked, producerVars, appended, restarts>>

Publish(r) == produce(r) \/ Look(r) \/ TimeOut(r) \/ Poll(r)

-----------------------------------------------------------------------------
(* The process.                                                            *)

UnderWay == {c \in Clients : stage[c] \notin {"new", "done", "dropped"}}

\* The process is killed and started again: nobody answers what was under way.
Restart ==
    /\ restarts < MaxRestarts
    /\ restarts' = restarts + 1
    /\ stage' = [c \in Clients |-> IF c \in UnderWay THEN "dropped" ELSE stage[c]]
    /\ acked' = [r \in Requests |-> "none"]
    /\ overdue' = {} /\ queue' = {} /\ reports' = {}
    /\ UNCHANGED <<answer, sent, appended>>

\* Everything but the broker's own step.
ReceiverStep ==
    \/ \E r \in Requests :
        \/ receive_github_webhook(r) \/ Publish(r) \/ Send(r) \/ Deadline(r)
        \/ \E error \in BOOLEAN : Report(r, error)
    \/ \E c \in Probes : readiness(c) \/ list_topics(c)
    \/ \E c \in Clients : TakeThread(c)
    \/ Restart

Next == ReceiverStep \/ \E r \in Requests : Append_(r)

Spec == Init /\ [][Next]_vars

\* Threads run, a free thread takes a waiting call, time passes.  Nothing is
\* assumed of the broker or of the library: it may never report.
Fairness ==
    /\ \A r \in Requests :
        /\ WF_vars(receive_github_webhook(r))
        /\ WF_vars(Publish(r))
        /\ WF_vars(Deadline(r))
        /\ SF_vars(TakeThread(r))
    /\ \A c \in Probes :
        WF_vars(readiness(c)) /\ WF_vars(list_topics(c)) /\ SF_vars(TakeThread(c))

FairSpec == Spec /\ Fairness

-----------------------------------------------------------------------------
(* Properties.                                                             *)

\* A delivery answered 202 is in the raw topic: no thread's poll may complete
\* another's publish on the wrong report, nor a late error pass for success
\* (kafka.py:58-86, app.py:162-177).
AcceptedIsLogged ==
    \A r \in Requests : answer[r] = 202 => r \in appended

\* A request that waits for its report will be told of it: the producer has still
\* to report its record, or a report is there to be served.  Any thread's poll
\* serves the reports of all, and none of them may be taken from the request it is
\* for (kafka.py:62-66, 83).
NoReportIsLost ==
    \A r \in Requests : stage[r] \in {"wait", "check"} /\ acked[r] = "none" =>
        r \in queue \/ \E report \in reports : report.request = r

\* Every request is answered, or dropped by a process that ends, though the broker
\* is down, the queue is full and more requests wait than there are threads.
EveryRequestAnswered ==
    \A c \in Clients : (stage[c] = "pooled") ~> (stage[c] \in {"done", "dropped"})

-----------------------------------------------------------------------------
(* The inductive invariant behind the two safety properties.               *)

\* What the library and the callbacks say of success is true.
SuccessIsTrue ==
    /\ \A report \in reports : report.error \/ report.request \in appended
    /\ \A r \in Requests : acked[r] = "ok" => r \in appended

\* A record the producer holds has no report yet, served or not.
QueuedIsOpen ==
    \A r \in queue :
        /\ acked[r] = "none"
        /\ \A report \in reports : report.request # r

\* Nothing is known of a record that is not produced yet.
UnproducedIsUnknown ==
    \A r \in Requests : stage[r] \in {"new", "pooled", "produce"} =>
        /\ acked[r] = "none" /\ r \notin overdue \cup queue
        /\ \A report \in reports : report.request # r

\* An answer is final: no request is answered twice.
AnsweredIsDone == \A c \in Clients : answer[c] # 0 => stage[c] = "done"

IInv ==
    /\ TypeOK
    /\ AnsweredIsDone
    /\ SuccessIsTrue
    /\ QueuedIsOpen
    /\ UnproducedIsUnknown
    /\ AcceptedIsLogged
    /\ NoReportIsLost
=============================================================================
