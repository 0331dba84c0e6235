----------------------------- MODULE ApiClient -----------------------------
(***************************************************************************)
(* backfill/graphql.py and backfill/rest.py: one call of GitHub's API is   *)
(* sent up to 1 + MaxRetries times, with a wait after each answer that     *)
(* names a rate limit.  Clients of one kind share an allowance of requests *)
(* per window (the primary limit); all of them share the secondary limit.  *)
(*                                                                         *)
(* GitHub and time are external.  Time is kept as what is left of each     *)
(* delay, so a Tick shortens all of them; the host's clock may be ahead of *)
(* GitHub's by some units, always the same.  One that is behind makes a    *)
(* sleep longer, which jitter does as well.                                *)
(***************************************************************************)
EXTENDS Integers

CONSTANTS
    Clients,
    KindsOf,       \* bound: which clients call which API
    MaxRetries,    \* max_rate_limit_retries
    Minute,        \* the wait a secondary limit without a header asks for
    Backoff,       \* secondary_backoff_seconds
    MaxJitter,
    Limit, Window, \* requests GitHub serves in a window, and its length
    MaxAhead,      \* bound: how far the host's clock is ahead of GitHub's
    MaxPenalty,    \* bound: the longest secondary limit
    MaxPenalties,  \* bound: secondary limits
    MaxFailures    \* bound: answers that are errors of another kind

Kinds == {"graphql", "rest"}
NoHeader == -1

ASSUME ApiAssumption ==
    /\ KindsOf \subseteq [Clients -> Kinds]
    /\ MaxRetries \in Nat /\ MaxJitter \in Nat
    /\ Minute \in Nat \ {0} /\ Backoff \in Nat /\ Backoff >= Minute
    /\ Limit \in Nat \ {0} /\ Window \in Nat \ {0}
    /\ MaxAhead \in Nat
    /\ MaxPenalty \in Nat \ {0} /\ MaxPenalties \in Nat /\ MaxFailures \in Nat

VARIABLES
    kind,       \* kind[c]: the API that client c calls, once and for all
    pc,         \* pc[c]: where the call of client c is
    attempt,    \* attempt[c]: retries before the current request
    response,   \* response[c]: the answer that is not looked at yet
    delay,      \* delay[c]: what is left of the sleep
    result,     \* result[c]: how its last call ended
    told,       \* told[c]: what is left of each wait GitHub asked it for
    remaining,  \* remaining[k]: requests of kind k the window still allows
    untilReset, \* untilReset[k]: what is left of the window
    penalty,    \* what is left of the secondary limit
    ahead,      \* how far the host's clock is ahead, once and for all
    penalties, failures

client == <<kind, pc, attempt, response, delay, result, told>>
github == <<remaining, untilReset, penalty, ahead>>
bounds == <<penalties, failures>>
vars == <<client, github, bounds>>

\* What the clients read of an answer: errors stands for GraphQL's errors and
\* for REST's message.
Responses ==
    [status : {200, 403, 429, 500}, json : BOOLEAN, served : BOOLEAN,
     errors : {"none", "secondary", "other"}, exhausted : BOOLEAN,
     reset : 0 .. Window \cup {NoHeader},
     retryAfter : 0 .. MaxPenalty \cup {NoHeader}]
\* What stands in response[c] while no answer waits there.
NoResponse ==
    [status |-> 200, json |-> FALSE, served |-> FALSE, errors |-> "none",
     exhausted |-> FALSE, reset |-> NoHeader, retryAfter |-> NoHeader]

TypeOK ==
    /\ kind \in [Clients -> Kinds]
    /\ pc \in [Clients -> {"idle", "sent", "answered", "sleeping"}]
    /\ attempt \in [Clients -> 0 .. MaxRetries]
    /\ response \in [Clients -> Responses]
    /\ delay \in [Clients -> Nat] /\ told \in [Clients -> SUBSET Nat]
    /\ result \in [Clients -> {"none", "data", "request_error", "rate_limit_error"}]
    /\ remaining \in [Kinds -> 0 .. Limit]
    /\ untilReset \in [Kinds -> 1 .. Window]
    /\ penalty \in 0 .. MaxPenalty /\ ahead \in 0 .. MaxAhead
    /\ penalties \in 0 .. MaxPenalties /\ failures \in 0 .. MaxFailures

Init ==
    /\ kind \in KindsOf
    /\ pc = [c \in Clients |-> "idle"]
    /\ attempt = [c \in Clients |-> 0]
    /\ response = [c \in Clients |-> NoResponse]
    /\ delay = [c \in Clients |-> 0] /\ told = [c \in Clients |-> {0}]
    /\ result = [c \in Clients |-> "none"]
    /\ remaining = [k \in Kinds |-> Limit]
    /\ untilReset = [k \in Kinds |-> Window]
    /\ penalty = 0 /\ ahead \in 0 .. MaxAhead
    /\ penalties = 0 /\ failures = 0

-----------------------------------------------------------------------------
(* GitHub.                                                                 *)

Penalize ==
    /\ penalties < MaxPenalties
    /\ penalties' = penalties + 1
    /\ penalty' \in (penalty + 1) .. MaxPenalty
    /\ UNCHANGED <<client, remaining, untilReset, ahead, failures>>

Reply(c, r) ==
    /\ response' = [response EXCEPT ![c] = r]
    /\ pc' = [pc EXCEPT ![c] = "answered"]
    /\ UNCHANGED <<kind, attempt, delay, result, untilReset, penalty, ahead, penalties>>

Fail ==
    /\ failures < MaxFailures
    /\ failures' = failures + 1

\* The waits that GitHub asks for with a secondary limit: the header's, the rest of
\* the window when the allowance is used up, and a minute when it names neither.
Asked(c, after) ==
    LET exhausted == remaining[kind[c]] = 0 IN
    {n \in {after} : after # NoHeader}
    \cup {n \in {untilReset[kind[c]]} : exhausted}
    \cup {n \in {Minute} : after = NoHeader /\ ~ exhausted}

Penalized(c, status, errors, after) ==
    [status |-> status, json |-> TRUE, served |-> FALSE,
     errors |-> errors, exhausted |-> remaining[kind[c]] = 0,
     reset |-> untilReset[kind[c]], retryAfter |-> after]

\* Under a secondary limit: with a retry-after header, or a text that names
\* the limit, or neither.
AnswerPenalized(c) ==
    /\ pc[c] = "sent" /\ penalty > 0
    /\ \E status \in (IF kind[c] = "rest" THEN {403, 429} ELSE {200, 403}),
          errors \in {"none", "secondary"}, after \in {NoHeader, penalty} :
         /\ status = 200 => errors = "secondary"
         /\ Reply(c, Penalized(c, status, errors, after))
         /\ told' = [told EXCEPT ![c] = Asked(c, after)]
    /\ UNCHANGED <<remaining, failures>>

\* The allowance of the window is used up.
AnswerExhausted(c) ==
    LET k == kind[c] IN
    /\ pc[c] = "sent" /\ penalty = 0 /\ remaining[k] = 0
    /\ \E status \in (IF k = "rest" THEN {403, 429} ELSE {200}),
          reset \in {NoHeader, untilReset[k]} :
         /\ IF reset = NoHeader THEN Fail ELSE UNCHANGED failures
         /\ Reply(c, [status |-> status, json |-> TRUE, served |-> FALSE,
                      errors |-> "other", exhausted |-> TRUE,
                      reset |-> reset, retryAfter |-> NoHeader])
    /\ told' = [told EXCEPT ![c] = {untilReset[k]}]
    /\ UNCHANGED remaining

\* An answer to a request that counts.
Counted(c, status, json, errors) ==
    [status |-> status, json |-> json,
     served |-> status = 200 /\ json /\ errors = "none",
     errors |-> errors, exhausted |-> remaining[kind[c]] = 1,
     reset |-> untilReset[kind[c]], retryAfter |-> NoHeader]

\* The request counts, and is served or refused: a bad query, a server error,
\* or an answer that is not JSON.
AnswerCounted(c) ==
    /\ pc[c] = "sent" /\ penalty = 0 /\ remaining[kind[c]] > 0
    /\ remaining' = [remaining EXCEPT ![kind[c]] = @ - 1]
    /\ told' = [told EXCEPT ![c] = {0}]
    /\ \/ Reply(c, Counted(c, 200, TRUE, "none")) /\ UNCHANGED failures
       \/ /\ Fail
          /\ \/ Reply(c, Counted(c, 200, FALSE, "none"))
             \/ Reply(c, Counted(c, 500, TRUE, "none"))
             \/ Reply(c, Counted(c, IF kind[c] = "rest" THEN 403 ELSE 200, TRUE, "other"))

\* Time goes on by one unit; a window that ends is followed by the next.
Less(n) == IF n > 0 THEN n - 1 ELSE n
Tick ==
    /\ delay' = [c \in Clients |-> Less(delay[c])]
    /\ told' = [c \in Clients |-> {Less(n) : n \in told[c]}]
    /\ response' = [c \in Clients |->
         [response[c] EXCEPT !.reset = Less(@)]]
    /\ penalty' = Less(penalty)
    /\ untilReset' = [k \in Kinds |->
                        IF untilReset[k] = 1 THEN Window ELSE untilReset[k] - 1]
    /\ remaining' = [k \in Kinds |->
                        IF untilReset[k] = 1 THEN Limit ELSE remaining[k]]
    /\ UNCHANGED <<kind, pc, attempt, result, ahead, bounds>>

-----------------------------------------------------------------------------
(* The client.                                                             *)

execute(c) ==
    /\ pc[c] = "idle"
    /\ pc' = [pc EXCEPT ![c] = "sent"]
    /\ result' = [result EXCEPT ![c] = "none"]
    /\ UNCHANGED <<kind, attempt, response, delay, told, github, bounds>>

\* Mutant: GraphQL's limit looked for as REST's, by its status.
PrimaryByStatus(c, r) == r.exhausted /\ r.status \in {403, 429}

PrimaryLimit(c, r) ==
    /\ r.exhausted
    /\ IF kind[c] = "graphql" THEN r.errors # "none" ELSE r.status \in {403, 429}

SecondaryLimit(c, r) ==
    \/ r.status = 429
    \/ /\ r.retryAfter # NoHeader \/ r.errors = "secondary"
       /\ kind[c] = "graphql" \/ r.status = 403

\* The call returns or raises.
End(c, how) ==
    /\ pc' = [pc EXCEPT ![c] = "idle"]
    /\ result' = [result EXCEPT ![c] = how]
    /\ attempt' = [attempt EXCEPT ![c] = 0]
    /\ response' = [response EXCEPT ![c] = NoResponse]
    /\ told' = [told EXCEPT ![c] = {0}]
    /\ UNCHANGED <<kind, delay>>

Sleep(c, time) ==
    /\ \E jitter \in 0 .. MaxJitter : delay' = [delay EXCEPT ![c] = time + jitter]
    /\ pc' = [pc EXCEPT ![c] = "sleeping"]
    /\ response' = [response EXCEPT ![c] = NoResponse]
    /\ UNCHANGED <<kind, attempt, result, told>>

\* What the host's clock makes of the end of the window, no less than nothing.
UntilReset(r) == IF r.reset > ahead THEN r.reset - ahead ELSE 0

\* Mutant: off by one, one retry too many.
retry_primary_once_more(c, r) ==
    IF attempt[c] > MaxRetries \/ r.reset = NoHeader
    THEN End(c, "rate_limit_error")
    ELSE Sleep(c, UntilReset(r))

retry_primary(c, r) ==
    IF attempt[c] >= MaxRetries \/ r.reset = NoHeader
    THEN End(c, "rate_limit_error")
    ELSE Sleep(c, UntilReset(r))

\* Mutant: the header is not read.
retry_secondary_backoff(c, r) ==
    IF attempt[c] >= MaxRetries
    THEN End(c, "rate_limit_error")
    ELSE Sleep(c, Backoff * 2 ^ attempt[c])

retry_secondary(c, r) ==
    IF attempt[c] >= MaxRetries
    THEN End(c, "rate_limit_error")
    ELSE Sleep(c, IF r.retryAfter # NoHeader THEN r.retryAfter
                  ELSE Backoff * 2 ^ attempt[c])

\* The loop's body behind the request.
Handle(c) ==
    LET r == response[c] IN
    /\ pc[c] = "answered"
    /\ \/ ~ r.json /\ End(c, "request_error")
       \/ r.json /\ PrimaryLimit(c, r) /\ retry_primary(c, r)
       \/ /\ r.json /\ ~ PrimaryLimit(c, r) /\ SecondaryLimit(c, r)
          /\ retry_secondary(c, r)
       \/ /\ r.json /\ ~ PrimaryLimit(c, r) /\ ~ SecondaryLimit(c, r)
          /\ End(c, IF r.status # 200 \/ (kind[c] = "graphql" /\ r.errors # "none")
                    THEN "request_error" ELSE "data")
    /\ UNCHANGED <<github, bounds>>

\* The request raises: the connection fails, or the request timeout passes.
post_raises(c) ==
    /\ pc[c] = "sent"
    /\ Fail
    /\ End(c, "request_error")
    /\ UNCHANGED <<github, penalties>>

\* Mutant: while True, without a count.
send_again_uncounted(c) ==
    /\ pc[c] = "sleeping" /\ delay[c] = 0
    /\ pc' = [pc EXCEPT ![c] = "sent"]
    /\ UNCHANGED <<kind, attempt, response, delay, result, told, github, bounds>>

\* The next turn of the loop.
send_again(c) ==
    /\ pc[c] = "sleeping" /\ delay[c] = 0
    /\ pc' = [pc EXCEPT ![c] = "sent"]
    /\ attempt' = [attempt EXCEPT ![c] = @ + 1]
    /\ UNCHANGED <<kind, response, delay, result, told, github, bounds>>

Answer(c) == AnswerPenalized(c) \/ AnswerExhausted(c) \/ AnswerCounted(c)

Next ==
    \/ Tick \/ Penalize
    \/ \E c \in Clients :
         execute(c) \/ Answer(c) \/ Handle(c) \/ post_raises(c) \/ send_again(c)

Spec == Init /\ [][Next]_vars

\* Time goes on, GitHub answers (or the request timeout passes), and a client
\* that is awake takes its next step.  Nobody has to make a call.
FairSpec ==
    /\ Spec
    /\ WF_vars(Tick)
    /\ \A c \in Clients :
         /\ WF_vars(Answer(c))
         /\ WF_vars(Handle(c))
         /\ WF_vars(send_again(c))

-----------------------------------------------------------------------------
(* Properties.                                                             *)

\* A request is sent again only when a wait that GitHub asked for is over, however
\* long the answer was on its way, and early by no more than the host's clock is
\* ahead (graphql.py:128-144, rest.py:132-148).  That is the whole of it when the
\* answer names one limit.  When it names two, the client keeps one of the two waits:
\* the loop takes the first limit it recognises, so a retry-after that reaches past
\* the window is not waited out (graphql.py:104-109, rest.py:113-118).
WaitsAsTold ==
    [][\A c \in Clients :
         pc[c] = "sleeping" /\ pc'[c] = "sent" =>
             \E n \in told[c] : n <= ahead]_vars

\* While the clocks agree and no secondary limit and no other error occurs, a
\* client that may retry and shares its allowance with nobody never gives up: it is
\* refused once in a call at most, because its sleep ends in the next window.  A clock that is
\* ahead may use up every retry in the same window (graphql.py:128-135,
\* rest.py:132-139).
PrimaryLimitIsWaitedOut ==
    MaxRetries > 0 /\ ahead = 0 /\ penalties = 0 /\ failures = 0 =>
        \A c \in Clients :
            (\A d \in Clients \ {c} : kind[d] # kind[c]) =>
                attempt[c] <= 1 /\ result[c] \in {"none", "data"}

\* Every call returns or raises, also when another client uses up each window
\* before this one wakes (graphql.py:93, rest.py:102).
EveryCallEnds ==
    \A c \in Clients : pc[c] # "idle" ~> pc[c] = "idle"

-----------------------------------------------------------------------------
(* The inductive invariant behind the safety properties.                   *)

\* A secondary limit is one of those that are counted.
PenaltyIsCounted == penalties = 0 => penalty = 0

\* A client that sleeps may try again.
RetriesAreLeft == \A c \in Clients : pc[c] = "sleeping" => attempt[c] < MaxRetries

\* A wait of n units is covered by the one the client computes from the answer r.
Covered(c, r, n) ==
    r.json =>
        IF PrimaryLimit(c, r)
        THEN r.reset # NoHeader => n <= r.reset
        ELSE SecondaryLimit(c, r) =>
             n <= IF r.retryAfter # NoHeader THEN r.retryAfter ELSE Minute

\* One of the waits GitHub asked for is covered by the answer, and then by what is
\* left of the client's sleep.
ToldIsCovered ==
    \A c \in Clients :
        /\ pc[c] = "answered" => \E n \in told[c] : Covered(c, response[c], n)
        /\ pc[c] = "sleeping" => \E n \in told[c] : n <= delay[c] + ahead

\* The client shares its allowance with nobody.
Alone(c) == \A d \in Clients \ {c} : kind[d] # kind[c]

Undisturbed == MaxRetries > 0 /\ ahead = 0 /\ penalties = 0 /\ failures = 0

\* The wait n reaches into the next window, or that one has begun.
ReachesReset(c, n) == n >= untilReset[kind[c]] \/ remaining[kind[c]] = Limit

\* The answer of an undisturbed client: the data, or a refusal that tells it when
\* the window ends.
IsData(r) ==
    /\ r.json /\ r.served /\ r.status = 200 /\ r.errors = "none"
    /\ r.retryAfter = NoHeader
IsRefusal(c, r) ==
    /\ r.json /\ PrimaryLimit(c, r) /\ r.reset # NoHeader
    /\ ReachesReset(c, r.reset)

RefusedOnce(c) ==
    /\ attempt[c] <= 1 /\ result[c] \in {"none", "data"}
    /\ pc[c] = "idle" => attempt[c] = 0
    /\ pc[c] = "sent" /\ attempt[c] = 1 => remaining[kind[c]] > 0
    /\ pc[c] = "answered" =>
        IsData(response[c]) \/ (attempt[c] = 0 /\ IsRefusal(c, response[c]))
    /\ pc[c] = "sleeping" => attempt[c] = 0 /\ ReachesReset(c, delay[c])

UndisturbedAreServed ==
    Undisturbed => \A c \in Clients : Alone(c) => RefusedOnce(c)

IInv ==
    /\ TypeOK
    /\ PenaltyIsCounted
    /\ RetriesAreLeft
    /\ ToldIsCovered
    /\ UndisturbedAreServed
=============================================================================
