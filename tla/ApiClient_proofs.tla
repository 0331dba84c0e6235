-------------------------- MODULE ApiClient_proofs --------------------------
(***************************************************************************)
(* The inductive invariant of ApiClient: for every number of clients, size *)
(* of the allowance and length of the windows, every bound on retries, and *)
(* every lead of the host's clock, no request is sent again before a wait  *)
(* GitHub asked for is over, and no undisturbed client gives up.           *)
(***************************************************************************)
EXTENDS ApiClient, FiniteSetTheorems, TLAPS

-----------------------------------------------------------------------------
(* Arithmetic.                                                             *)

\* A power of two is counted by the subsets of an interval.
LEMMA PowerOfTwo == \A n \in Nat : 2 ^ n \in Nat \ {0}
<1> SUFFICES ASSUME NEW n \in Nat PROVE 2 ^ n \in Nat \ {0}
    OBVIOUS
<1>1. IsFiniteSet(1 .. n) /\ Cardinality(1 .. n) = n
    BY FS_Interval
<1>2. IsFiniteSet(SUBSET (1 .. n)) /\ Cardinality(SUBSET (1 .. n)) = 2 ^ n
    BY <1>1, FS_SUBSET
<1>3. 2 ^ n \in Nat
    BY <1>2, FS_CardinalityType
<1>4. SUBSET (1 .. n) # {}
    OBVIOUS
<1>5. 2 ^ n # 0
    BY <1>2, <1>4, FS_EmptySet
<1> QED
    BY <1>3, <1>5

\* The wait without a header is no shorter than a minute.
LEMMA BackoffIsEnough ==
    \A n \in Nat : Backoff * 2 ^ n \in Nat /\ Backoff * 2 ^ n >= Minute
<1> SUFFICES ASSUME NEW n \in Nat
             PROVE  Backoff * 2 ^ n \in Nat /\ Backoff * 2 ^ n >= Minute
    OBVIOUS
<1>1. \A x \in Nat \ {0} : Backoff * x \in Nat /\ Backoff * x >= Backoff
    BY ApiAssumption
<1> QED
    BY <1>1, PowerOfTwo, ApiAssumption

-----------------------------------------------------------------------------
(* What GitHub answers.                                                    *)

\* An answer r that asks the client for the waits W: under a secondary limit, with
\* an error of another kind, with the data, or because the allowance is used up.
Answers(c, r, W) ==
    /\ pc[c] = "sent" /\ Reply(c, r) /\ told' = [told EXCEPT ![c] = W]
    /\ \E n \in W : Covered(c, r, n)
    /\ UNCHANGED failures \/ Fail
    /\ remaining' \in [Kinds -> 0 .. Limit]
    /\ \A k \in Kinds \ {kind[c]} : remaining'[k] = remaining[k]
    /\ \/ penalty > 0
       \/ failures' = failures + 1
       \/ IsData(r) /\ remaining[kind[c]] > 0
       \/ /\ remaining[kind[c]] = 0 /\ UNCHANGED remaining
          /\ r.json /\ PrimaryLimit(c, r) /\ r.reset = untilReset[kind[c]]

\* An answer to a request that counts, with the data or with an error.
IsCounted(c, status, json, errors) ==
    /\ Reply(c, Counted(c, status, json, errors))
    /\ \/ status = 200 /\ json = TRUE /\ errors = "none" /\ UNCHANGED failures
       \/ Fail

\* Every answer is one of these.
LEMMA AnswerStep ==
    ASSUME TypeOK, NEW c \in Clients, Answer(c)
    PROVE  \E r \in Responses, W \in SUBSET Nat : Answers(c, r, W)
<1> DEFINE k == kind[c]
<1>1. k \in Kinds /\ remaining[k] \in 0 .. Limit /\ untilReset[k] \in 1 .. Window
    BY DEF TypeOK
<1>2. penalty \in 0 .. MaxPenalty /\ Limit \in Nat /\ Window \in Nat /\ Minute \in Nat
      /\ failures \in Nat
    BY ApiAssumption DEF TypeOK
<1> USE DEF NoHeader
<1>3. CASE AnswerPenalized(c)
  <2>1. PICK status \in (IF kind[c] = "rest" THEN {403, 429} ELSE {200, 403}),
             errors \in {"none", "secondary"}, after \in {NoHeader, penalty} :
           /\ status = 200 => errors = "secondary"
           /\ Reply(c, Penalized(c, status, errors, after))
           /\ told' = [told EXCEPT ![c] = Asked(c, after)]
    BY <1>3, Zenon DEF AnswerPenalized
  <2> DEFINE exhausted == remaining[k] = 0
             r == Penalized(c, status, errors, after)
  <2>2. r \in Responses
    BY <1>1, <1>2 DEF Responses, Penalized
  <2>3. Asked(c, after) \subseteq Nat
    BY <1>1, <1>2 DEF Asked
  <2>4. /\ r.exhausted <=> exhausted
        /\ r.reset = untilReset[k] /\ r.retryAfter = after /\ r.status = status
        /\ r.errors = errors
    BY DEF Penalized
  <2>5. pc[c] = "sent" /\ penalty > 0 /\ UNCHANGED <<remaining, failures>>
    BY <1>3 DEF AnswerPenalized
  <2>6. remaining' \in [Kinds -> 0 .. Limit]
    BY <2>5 DEF TypeOK
  <2>7. \E n \in Asked(c, after) : Covered(c, r, n)
    <3>1. CASE PrimaryLimit(c, r)
      <4>1. untilReset[k] \in Asked(c, after)
        BY <2>4, <3>1 DEF PrimaryLimit, Asked
      <4>2. Covered(c, r, untilReset[k])
        BY <1>1, <1>2, <2>4, <3>1 DEF Covered
      <4> QED BY <4>1, <4>2
    <3>2. CASE ~ PrimaryLimit(c, r) /\ after # NoHeader
      <4>1. after \in Asked(c, after)
        BY <3>2 DEF Asked
      <4>2. Covered(c, r, after)
        BY <1>2, <2>4, <3>2 DEF Covered
      <4> QED BY <4>1, <4>2
    <3>3. CASE ~ PrimaryLimit(c, r) /\ after = NoHeader /\ ~ exhausted
      <4>1. Minute \in Asked(c, after)
        BY <3>3 DEF Asked
      <4>2. Covered(c, r, Minute)
        BY <1>2, <2>4, <3>3 DEF Covered
      <4> QED BY <4>1, <4>2
    <3>4. CASE ~ PrimaryLimit(c, r) /\ after = NoHeader /\ exhausted
      <4>1. ~ SecondaryLimit(c, r)
        BY <1>1, <2>4, <3>4 DEF PrimaryLimit, SecondaryLimit, Kinds
      <4>2. untilReset[k] \in Asked(c, after) /\ Covered(c, r, untilReset[k])
        BY <3>4, <4>1 DEF Asked, Covered
      <4> QED BY <4>2
    <3> QED BY <3>1, <3>2, <3>3, <3>4
  <2>8. Reply(c, r) /\ told' = [told EXCEPT ![c] = Asked(c, after)]
    BY <2>1
  <2> HIDE DEF r
  <2>9. Answers(c, r, Asked(c, after))
    BY <2>5, <2>6, <2>7, <2>8 DEF Answers
  <2> QED BY <2>2, <2>3, <2>9
<1>4. CASE AnswerExhausted(c)
  <2>1. PICK status \in (IF k = "rest" THEN {403, 429} ELSE {200}),
             reset \in {NoHeader, untilReset[k]} :
           /\ IF reset = NoHeader THEN Fail ELSE UNCHANGED failures
           /\ Reply(c, [status |-> status, json |-> TRUE, served |-> FALSE,
                        errors |-> "other", exhausted |-> TRUE,
                        reset |-> reset, retryAfter |-> NoHeader])
    BY <1>4 DEF AnswerExhausted
  <2> DEFINE r == [status |-> status, json |-> TRUE, served |-> FALSE,
                   errors |-> "other", exhausted |-> TRUE,
                   reset |-> reset, retryAfter |-> NoHeader]
  <2>2. r \in Responses
    BY <1>1, <1>2 DEF Responses
  <2>3. PrimaryLimit(c, r) /\ r.reset = reset /\ r.json
    BY <1>1 DEF PrimaryLimit, Kinds
  <2>4. /\ pc[c] = "sent" /\ remaining[k] = 0 /\ UNCHANGED remaining
        /\ told' = [told EXCEPT ![c] = {untilReset[k]}]
    BY <1>4 DEF AnswerExhausted
  <2>5. untilReset[k] \in Nat /\ (r.reset # NoHeader => untilReset[k] <= r.reset)
    BY <1>1, <2>3
  <2>6. Reply(c, r)
    BY <2>1
  <2>7. failures' = failures + 1 \/ r.reset = untilReset[k]
    BY <2>1, <2>3 DEF Fail
  <2>8. UNCHANGED failures \/ Fail
    BY <2>1
  <2>9. remaining' \in [Kinds -> 0 .. Limit]
    BY <2>4 DEF TypeOK
  <2> HIDE DEF r
  <2>10. Covered(c, r, untilReset[k])
    BY <2>3, <2>5 DEF Covered
  <2>11. Answers(c, r, {untilReset[k]})
    BY <2>3, <2>4, <2>6, <2>7, <2>8, <2>9, <2>10 DEF Answers
  <2> QED BY <2>2, <2>5, <2>11
<1>5. CASE AnswerCounted(c)
  <2>1. /\ pc[c] = "sent" /\ remaining[k] > 0
        /\ remaining' = [remaining EXCEPT ![k] = @ - 1]
        /\ told' = [told EXCEPT ![c] = {0}]
    BY <1>5 DEF AnswerCounted
  <2> SUFFICES ASSUME NEW status \in {200, 403, 500}, NEW json \in BOOLEAN,
                      NEW errors \in {"none", "other"},
                      IsCounted(c, status, json, errors)
               PROVE  \E r \in Responses, W \in SUBSET Nat : Answers(c, r, W)
    <3>1. CASE Reply(c, Counted(c, 200, TRUE, "none")) /\ UNCHANGED failures
      <4>1. IsCounted(c, 200, TRUE, "none")
        BY <3>1 DEF IsCounted
      <4> QED BY <4>1
    <3>2. CASE Fail /\ Reply(c, Counted(c, 200, FALSE, "none"))
      <4>1. IsCounted(c, 200, FALSE, "none")
        BY <3>2 DEF IsCounted
      <4> QED BY <4>1
    <3>3. CASE Fail /\ Reply(c, Counted(c, 500, TRUE, "none"))
      <4>1. IsCounted(c, 500, TRUE, "none")
        BY <3>3 DEF IsCounted
      <4> QED BY <4>1
    <3>4. CASE Fail /\ Reply(c, Counted(c, IF kind[c] = "rest" THEN 403 ELSE 200, TRUE, "other"))
      <4>1. CASE kind[c] = "rest"
        <5>1. IsCounted(c, 403, TRUE, "other")
          BY <3>4, <4>1 DEF IsCounted
        <5> QED BY <5>1
      <4>2. CASE kind[c] # "rest"
        <5>1. IsCounted(c, 200, TRUE, "other")
          BY <3>4, <4>2 DEF IsCounted
        <5> QED BY <5>1
      <4> QED BY <4>1, <4>2
    <3> QED
      BY <1>5, <3>1, <3>2, <3>3, <3>4, Zenon DEF AnswerCounted
  <2>2. /\ Reply(c, Counted(c, status, json, errors))
        /\ \/ status = 200 /\ json = TRUE /\ errors = "none" /\ UNCHANGED failures
           \/ Fail
    BY DEF IsCounted
  <2> DEFINE r == Counted(c, status, json, errors)
  <2>3. r \in Responses
    <3> DEFINE served == status = 200 /\ json /\ errors = "none"
               exhausted == remaining[k] = 1
    <3>1. served \in BOOLEAN /\ exhausted \in BOOLEAN
      OBVIOUS
    <3>2. r = [status |-> status, json |-> json, served |-> served,
               errors |-> errors, exhausted |-> exhausted,
               reset |-> untilReset[k], retryAfter |-> NoHeader]
      BY DEF Counted
    <3> HIDE DEF served, exhausted, r
    <3> QED BY <1>1, <1>2, <3>1, <3>2 DEF Responses
  <2>4. /\ r.retryAfter = NoHeader /\ r.reset = untilReset[k]
        /\ status = 200 /\ json = TRUE /\ errors = "none" => IsData(r)
    BY DEF Counted, IsData
  <2>5. Reply(c, r)
    BY <2>2
  <2>6. (IsData(r) /\ UNCHANGED failures) \/ Fail
    BY <2>2, <2>4
  <2> HIDE DEF r
  <2>7. Covered(c, r, 0)
    BY <1>1, <1>2, <2>4 DEF Covered
  <2>8. remaining' \in [Kinds -> 0 .. Limit]
    BY <1>1, <1>2, <2>1 DEF TypeOK
  <2>9. \A m \in Kinds \ {k} : remaining'[m] = remaining[m]
    BY <2>1 DEF TypeOK
  <2>10. Answers(c, r, {0})
    BY <2>1, <2>5, <2>6, <2>7, <2>8, <2>9 DEF Answers, Fail
  <2> QED BY <2>3, <2>10
<1> QED
    BY <1>3, <1>4, <1>5 DEF Answer

-----------------------------------------------------------------------------
(* The invariant, client by client.                                        *)

\* What the invariant says of one client.
ClientInv(c) ==
    /\ pc[c] = "sleeping" => attempt[c] < MaxRetries
    /\ pc[c] = "answered" => \E n \in told[c] : Covered(c, response[c], n)
    /\ pc[c] = "sleeping" => \E n \in told[c] : n <= delay[c] + ahead
    /\ Undisturbed /\ Alone(c) => RefusedOnce(c)

LEMMA ByClient ==
    IInv <=> TypeOK /\ PenaltyIsCounted /\ \A c \in Clients : ClientInv(c)
BY DEF IInv, RetriesAreLeft, ToldIsCovered, UndisturbedAreServed, ClientInv

\* Only the client c takes a step, and GitHub counts its requests alone.
OnlyClient(c) ==
    /\ UNCHANGED <<kind, untilReset, penalty, ahead, penalties>>
    /\ UNCHANGED failures \/ Fail
    /\ \A d \in Clients \ {c} :
         /\ pc'[d] = pc[d] /\ attempt'[d] = attempt[d]
         /\ response'[d] = response[d] /\ delay'[d] = delay[d]
         /\ told'[d] = told[d] /\ result'[d] = result[d]
    /\ \A k \in Kinds \ {kind[c]} : remaining'[k] = remaining[k]

\* The other clients keep what the invariant says of them.
LEMMA OthersKeep ==
    ASSUME IInv, NEW c \in Clients, OnlyClient(c), TypeOK',
           NEW d \in Clients \ {c}
    PROVE  ClientInv(d)'
<1>1. ClientInv(d)
    BY ByClient
<1>2. /\ kind' = kind /\ untilReset' = untilReset /\ ahead' = ahead
      /\ penalties' = penalties
      /\ pc'[d] = pc[d] /\ attempt'[d] = attempt[d]
      /\ response'[d] = response[d] /\ delay'[d] = delay[d]
      /\ told'[d] = told[d] /\ result'[d] = result[d]
    BY DEF OnlyClient
<1>3. failures' = failures \/ failures' = failures + 1
    BY DEF OnlyClient, Fail
<1>4. failures \in Nat /\ kind[d] \in Kinds /\ kind[c] \in Kinds
    BY DEF IInv, TypeOK
<1>5. pc'[d] = "answered" => (\E n \in told[d] : Covered(d, response[d], n))'
    BY <1>1, <1>2 DEF ClientInv, Covered, PrimaryLimit, SecondaryLimit
<1>6. ASSUME Undisturbed', Alone(d)' PROVE RefusedOnce(d)'
  <2>1. Undisturbed /\ Alone(d)
    BY <1>2, <1>3, <1>4, <1>6 DEF Undisturbed, Alone
  <2>2. kind[c] # kind[d]
    BY <2>1 DEF Alone
  <2>3. remaining'[kind[d]] = remaining[kind[d]]
    BY <1>4, <2>2 DEF OnlyClient
  <2>4. RefusedOnce(d)
    BY <1>1, <2>1 DEF ClientInv
  <2> QED
    BY <1>2, <2>3, <2>4 DEF RefusedOnce, IsData, IsRefusal, ReachesReset, PrimaryLimit
<1> QED
    BY <1>1, <1>2, <1>5, <1>6 DEF ClientInv

\* So a client's step keeps the invariant when it keeps the client's own part.
LEMMA ClientKeeps ==
    ASSUME IInv, NEW c \in Clients, OnlyClient(c), TypeOK', ClientInv(c)'
    PROVE  IInv'
<1>1. \A d \in Clients : ClientInv(d)'
    BY OthersKeep
<1>2. PenaltyIsCounted'
    BY DEF IInv, PenaltyIsCounted, OnlyClient
<1> QED
    BY <1>1, <1>2, ByClient DEF IInv, RetriesAreLeft, ToldIsCovered,
       UndisturbedAreServed, ClientInv

-----------------------------------------------------------------------------
(* Every step keeps the invariant.                                         *)

LEMMA Initial == Init => IInv
<1> SUFFICES ASSUME Init PROVE IInv
    OBVIOUS
<1>1. NoResponse \in Responses
    BY DEF NoResponse, Responses, NoHeader
<1>2. TypeOK
    BY <1>1, ApiAssumption DEF Init, TypeOK, Kinds
<1>3. PenaltyIsCounted /\ RetriesAreLeft /\ ToldIsCovered
    BY DEF Init, PenaltyIsCounted, RetriesAreLeft, ToldIsCovered
<1>4. UndisturbedAreServed
    BY DEF Init, UndisturbedAreServed, RefusedOnce
<1> QED
    BY <1>2, <1>3, <1>4 DEF IInv

LEMMA ExecuteKeeps ==
    ASSUME IInv, NEW c \in Clients, execute(c)
    PROVE  IInv'
<1>1. TypeOK'
    BY DEF IInv, TypeOK, execute, github, bounds
<1>2. OnlyClient(c)
    BY DEF execute, OnlyClient, github, bounds, IInv, TypeOK
<1>3. /\ pc[c] = "idle" /\ pc'[c] = "sent" /\ attempt'[c] = attempt[c]
      /\ result'[c] = "none" /\ UNCHANGED <<kind, ahead, bounds>>
    BY DEF execute, github, IInv, TypeOK
<1>4. (Undisturbed /\ Alone(c) => RefusedOnce(c)')
    BY <1>3, ByClient DEF ClientInv, RefusedOnce
<1>5. (Undisturbed' => Undisturbed) /\ (Alone(c)' => Alone(c))
    BY <1>3 DEF Undisturbed, Alone, bounds
<1>6. ClientInv(c)'
    BY <1>3, <1>4, <1>5 DEF ClientInv
<1> QED
    BY <1>1, <1>2, <1>6, ClientKeeps

LEMMA SendAgainKeeps ==
    ASSUME IInv, NEW c \in Clients, send_again(c)
    PROVE  IInv'
<1>0. ClientInv(c)
    BY ByClient
<1>1. /\ pc[c] = "sleeping" /\ pc'[c] = "sent" /\ delay[c] = 0
      /\ attempt'[c] = attempt[c] + 1 /\ result'[c] = result[c]
      /\ UNCHANGED <<kind, remaining, ahead, bounds>>
    BY DEF send_again, github, IInv, TypeOK
<1>2. TypeOK'
  <2>1. attempt[c] + 1 \in 0 .. MaxRetries
    BY <1>0, <1>1, ApiAssumption DEF IInv, TypeOK, ClientInv
  <2> QED
    BY <2>1 DEF IInv, TypeOK, send_again, github, bounds
<1>3. OnlyClient(c)
    BY DEF send_again, OnlyClient, github, bounds, IInv, TypeOK
<1>4. ASSUME Undisturbed, Alone(c) PROVE RefusedOnce(c)'
  <2>1. RefusedOnce(c)
    BY <1>0, <1>4 DEF ClientInv
  <2>2. attempt[c] = 0 /\ ReachesReset(c, 0)
    BY <1>1, <2>1 DEF RefusedOnce
  <2>3. kind[c] \in Kinds /\ untilReset[kind[c]] \in 1 .. Window
    BY DEF IInv, TypeOK
  <2>4. remaining[kind[c]] > 0
    BY <2>2, <2>3, ApiAssumption DEF ReachesReset
  <2> QED
    BY <1>1, <2>1, <2>2, <2>4 DEF RefusedOnce
<1>5. (Undisturbed' => Undisturbed) /\ (Alone(c)' => Alone(c))
    BY <1>1 DEF Undisturbed, Alone, bounds
<1>6. ClientInv(c)'
    BY <1>1, <1>4, <1>5 DEF ClientInv
<1> QED
    BY <1>2, <1>3, <1>6, ClientKeeps

\* What a call that ends keeps and sets.
LEMMA EndStep ==
    ASSUME IInv, NEW c \in Clients, NEW how \in {"data", "request_error", "rate_limit_error"},
           End(c, how), UNCHANGED github, UNCHANGED penalties, UNCHANGED failures \/ Fail
    PROVE  /\ TypeOK' /\ OnlyClient(c)
           /\ (Undisturbed /\ Alone(c) => how = "data") => ClientInv(c)'
<1>1. NoResponse \in Responses /\ failures' \in 0 .. MaxFailures
    BY ApiAssumption DEF NoResponse, Responses, NoHeader, IInv, TypeOK, Fail
<1>2. TypeOK'
    BY <1>1, ApiAssumption DEF IInv, TypeOK, End, github
<1>3. OnlyClient(c)
    BY DEF End, OnlyClient, github, IInv, TypeOK
<1>4. /\ pc'[c] = "idle" /\ attempt'[c] = 0 /\ result'[c] = how
      /\ UNCHANGED <<kind, ahead, penalties>>
    BY DEF End, github, IInv, TypeOK
<1>5. (Undisturbed' => Undisturbed) /\ (Alone(c)' => Alone(c))
    BY <1>4 DEF Undisturbed, Alone, Fail, IInv, TypeOK
<1>6. ASSUME Undisturbed /\ Alone(c) => how = "data" PROVE ClientInv(c)'
    BY <1>4, <1>5, <1>6 DEF ClientInv, RefusedOnce
<1> QED
    BY <1>2, <1>3, <1>6

\* What a sleep keeps and sets: it covers a wait the client was told, and reaches the
\* next window when the client is undisturbed.
LEMMA SleepStep ==
    ASSUME IInv, NEW c \in Clients, NEW time \in Nat, Sleep(c, time),
           UNCHANGED <<github, bounds>>, attempt[c] < MaxRetries,
           \E n \in told[c] : n <= time + ahead,
           Undisturbed /\ Alone(c) => RefusedOnce(c) /\ attempt[c] = 0 /\ ReachesReset(c, time)
    PROVE  IInv'
<1>1. PICK jitter \in 0 .. MaxJitter : delay' = [delay EXCEPT ![c] = time + jitter]
    BY DEF Sleep
<1>2. time + jitter \in Nat /\ time + jitter >= time
    BY <1>1, ApiAssumption
<1>3. NoResponse \in Responses
    BY ApiAssumption DEF NoResponse, Responses, NoHeader
<1>4. TypeOK'
    BY <1>1, <1>2, <1>3 DEF IInv, TypeOK, Sleep, github, bounds
<1>5. OnlyClient(c)
    BY <1>1 DEF Sleep, OnlyClient, github, bounds, IInv, TypeOK
<1>6. /\ pc'[c] = "sleeping" /\ attempt'[c] = attempt[c] /\ result'[c] = result[c]
      /\ told'[c] = told[c] /\ delay'[c] = time + jitter
      /\ UNCHANGED <<kind, ahead, remaining, untilReset, bounds>>
    BY <1>1 DEF Sleep, github, IInv, TypeOK
<1>7. told[c] \subseteq Nat /\ ahead \in Nat
    BY ApiAssumption DEF IInv, TypeOK
<1>8. (\E n \in told[c] : n <= delay[c] + ahead)'
    BY <1>2, <1>6, <1>7
<1>9. (Undisturbed' => Undisturbed) /\ (Alone(c)' => Alone(c))
    BY <1>6 DEF Undisturbed, Alone, bounds
<1>10. ASSUME Undisturbed, Alone(c) PROVE RefusedOnce(c)'
  <2>1. RefusedOnce(c) /\ attempt[c] = 0 /\ ReachesReset(c, time)
    BY <1>10
  <2>2. kind[c] \in Kinds /\ untilReset[kind[c]] \in Nat
    BY ApiAssumption DEF IInv, TypeOK
  <2>3. ReachesReset(c, delay[c])'
    BY <1>2, <1>6, <2>1, <2>2 DEF ReachesReset
  <2> QED
    BY <1>6, <2>1, <2>3 DEF RefusedOnce
<1>11. ClientInv(c)'
    BY <1>6, <1>8, <1>9, <1>10 DEF ClientInv
<1> QED
    BY <1>4, <1>5, <1>11, ClientKeeps

LEMMA RaisesKeeps ==
    ASSUME IInv, NEW c \in Clients, post_raises(c)
    PROVE  IInv'
<1>1. End(c, "request_error") /\ Fail /\ UNCHANGED <<github, penalties>>
    BY DEF post_raises
<1>2. TypeOK' /\ OnlyClient(c)
    BY <1>1, EndStep
<1>3. ~ Undisturbed'
    BY <1>1 DEF Undisturbed, Fail, IInv, TypeOK
<1>4. pc'[c] = "idle"
    BY <1>1 DEF End, IInv, TypeOK
<1>5. ClientInv(c)'
    BY <1>3, <1>4 DEF ClientInv
<1> QED
    BY <1>2, <1>5, ClientKeeps

LEMMA HandleKeeps ==
    ASSUME IInv, NEW c \in Clients, Handle(c)
    PROVE  IInv'
<1> DEFINE r == response[c]
<1>1. pc[c] = "answered" /\ UNCHANGED <<github, bounds>>
    BY DEF Handle
<1>2. ClientInv(c) /\ r \in Responses
    BY ByClient DEF IInv, TypeOK
<1>3. PICK n \in told[c] : Covered(c, r, n)
    BY <1>1, <1>2 DEF ClientInv
<1>4. attempt[c] \in 0 .. MaxRetries /\ n \in Nat /\ ahead \in Nat
      /\ kind[c] \in Kinds
    BY <1>3, ApiAssumption DEF IInv, TypeOK
<1>5. ASSUME Undisturbed, Alone(c)
      PROVE  /\ RefusedOnce(c) /\ MaxRetries > 0 /\ ahead = 0
             /\ \/ IsData(r)
                \/ attempt[c] = 0 /\ IsRefusal(c, r)
    BY <1>1, <1>2, <1>5 DEF ClientInv, RefusedOnce, Undisturbed
<1>6. ASSUME IsData(r) PROVE ~ PrimaryLimit(c, r) /\ ~ SecondaryLimit(c, r)
    BY <1>4, <1>6 DEF IsData, PrimaryLimit, SecondaryLimit, Kinds
<1>7. ASSUME NEW how \in {"data", "request_error", "rate_limit_error"}, End(c, how),
             Undisturbed /\ Alone(c) => how = "data"
      PROVE  IInv'
    BY <1>1, <1>7, EndStep, ClientKeeps DEF bounds
<1>8. CASE ~ r.json /\ End(c, "request_error")
    BY <1>5, <1>7, <1>8 DEF IsData, IsRefusal
<1>9. CASE r.json /\ PrimaryLimit(c, r) /\ retry_primary(c, r)
  <2>1. CASE attempt[c] >= MaxRetries \/ r.reset = NoHeader
    <3>1. End(c, "rate_limit_error")
      BY <1>9, <2>1 DEF retry_primary
    <3>2. ~ (Undisturbed /\ Alone(c))
      BY <1>4, <1>5, <1>6, <1>9, <2>1, ApiAssumption DEF IsRefusal
    <3> QED BY <1>7, <3>1, <3>2
  <2>2. CASE attempt[c] < MaxRetries /\ r.reset # NoHeader
    <3>1. Sleep(c, UntilReset(r))
      BY <1>4, <1>9, <2>2, ApiAssumption DEF retry_primary
    <3>2. r.reset \in Nat /\ n <= r.reset
      BY <1>2, <1>3, <1>9, <2>2, ApiAssumption DEF Covered, Responses
    <3>3. UntilReset(r) \in Nat /\ r.reset <= UntilReset(r) + ahead
      BY <1>4, <3>2 DEF UntilReset
    <3>4. n <= UntilReset(r) + ahead
      BY <1>4, <3>2, <3>3
    <3>5. ASSUME Undisturbed, Alone(c)
          PROVE  RefusedOnce(c) /\ attempt[c] = 0 /\ ReachesReset(c, UntilReset(r))
      <4>1. RefusedOnce(c) /\ attempt[c] = 0 /\ ReachesReset(c, r.reset) /\ ahead = 0
        BY <1>5, <1>6, <1>9, <3>5 DEF IsRefusal
      <4>2. UntilReset(r) = r.reset
        BY <3>2, <4>1 DEF UntilReset
      <4> QED BY <4>1, <4>2
    <3> HIDE DEF r
    <3> QED BY <1>1, <1>3, <2>2, <3>1, <3>3, <3>4, <3>5, SleepStep
  <2> QED
    BY <1>4, <2>1, <2>2, ApiAssumption
<1>10. CASE /\ r.json /\ ~ PrimaryLimit(c, r) /\ SecondaryLimit(c, r)
            /\ retry_secondary(c, r)
  <2>1. ~ (Undisturbed /\ Alone(c))
    BY <1>5, <1>6, <1>10 DEF IsRefusal
  <2>2. CASE attempt[c] >= MaxRetries
    BY <1>7, <1>10, <2>1, <2>2 DEF retry_secondary
  <2>3. CASE attempt[c] < MaxRetries
    <3> DEFINE time == IF r.retryAfter # NoHeader THEN r.retryAfter
                       ELSE Backoff * 2 ^ attempt[c]
    <3>1. Sleep(c, time)
      BY <1>4, <1>10, <2>3, ApiAssumption DEF retry_secondary
    <3>2. Backoff * 2 ^ attempt[c] \in Nat /\ Backoff * 2 ^ attempt[c] >= Minute
      BY <1>4, BackoffIsEnough
    <3>3. r.retryAfter # NoHeader => r.retryAfter \in Nat /\ n <= r.retryAfter
      BY <1>2, <1>3, <1>10, ApiAssumption DEF Covered, Responses
    <3>4. r.retryAfter = NoHeader => n <= Minute
      BY <1>3, <1>10 DEF Covered
    <3>5. time \in Nat /\ n <= time + ahead
      BY <1>4, <3>2, <3>3, <3>4, ApiAssumption
    <3> HIDE DEF time
    <3> QED BY <1>1, <1>3, <2>1, <2>3, <3>1, <3>5, SleepStep
  <2> QED
    BY <1>4, <2>2, <2>3, ApiAssumption
<1>11. CASE /\ r.json /\ ~ PrimaryLimit(c, r) /\ ~ SecondaryLimit(c, r)
            /\ End(c, IF r.status # 200 \/ (kind[c] = "graphql" /\ r.errors # "none")
                      THEN "request_error" ELSE "data")
  <2>1. CASE r.status # 200 \/ (kind[c] = "graphql" /\ r.errors # "none")
    <3>1. End(c, "request_error")
      BY <1>11, <2>1
    <3>2. ~ (Undisturbed /\ Alone(c))
      BY <1>5, <1>11, <2>1 DEF IsData, IsRefusal
    <3> QED BY <1>7, <3>1, <3>2
  <2>2. CASE ~ (r.status # 200 \/ (kind[c] = "graphql" /\ r.errors # "none"))
    <3>1. End(c, "data")
      BY <1>11, <2>2
    <3> QED BY <1>7, <3>1
  <2> QED BY <2>1, <2>2
<1> QED
    BY <1>8, <1>9, <1>10, <1>11 DEF Handle

LEMMA AnswerKeeps ==
    ASSUME IInv, NEW c \in Clients, Answer(c)
    PROVE  IInv'
<1>1. PICK r \in Responses, W \in SUBSET Nat : Answers(c, r, W)
    BY AnswerStep DEF IInv
<1>2. /\ pc[c] = "sent" /\ Reply(c, r) /\ told' = [told EXCEPT ![c] = W]
      /\ (\E n \in W : Covered(c, r, n)) /\ (UNCHANGED failures \/ Fail)
      /\ remaining' \in [Kinds -> 0 .. Limit]
      /\ \A k \in Kinds \ {kind[c]} : remaining'[k] = remaining[k]
    BY <1>1 DEF Answers
<1>3. failures' \in 0 .. MaxFailures
    BY <1>2, ApiAssumption DEF Fail, IInv, TypeOK
<1>4. TypeOK'
    BY <1>2, <1>3 DEF IInv, TypeOK, Reply
<1>5. OnlyClient(c)
    BY <1>2 DEF Reply, OnlyClient, IInv, TypeOK
<1>6. /\ pc'[c] = "answered" /\ response'[c] = r /\ told'[c] = W
      /\ attempt'[c] = attempt[c] /\ result'[c] = result[c]
      /\ UNCHANGED <<kind, ahead, penalty, penalties, untilReset>>
    BY <1>2 DEF Reply, IInv, TypeOK
<1>7. (\E n \in told[c] : Covered(c, response[c], n))'
    BY <1>2, <1>6 DEF Covered, PrimaryLimit, SecondaryLimit
<1>8. ASSUME Undisturbed', Alone(c)' PROVE RefusedOnce(c)'
  <2>1. failures \in Nat /\ penalty \in Nat /\ untilReset[kind[c]] \in 1 .. Window
    BY ApiAssumption DEF IInv, TypeOK
  <2>2. Undisturbed /\ Alone(c) /\ failures' = 0
    BY <1>2, <1>6, <1>8, <2>1 DEF Undisturbed, Alone, Fail
  <2>3. penalty = 0
    BY <2>2 DEF IInv, PenaltyIsCounted, Undisturbed
  <2>4. RefusedOnce(c)
    BY <2>2, ByClient DEF ClientInv
  <2>5. \/ IsData(r) /\ remaining[kind[c]] > 0
        \/ /\ remaining[kind[c]] = 0 /\ UNCHANGED remaining
           /\ r.json /\ PrimaryLimit(c, r) /\ r.reset = untilReset[kind[c]]
    BY <1>1, <2>1, <2>2, <2>3 DEF Answers
  <2>6. CASE IsData(r)
    BY <1>2, <1>6, <2>4, <2>6 DEF RefusedOnce, IsData
  <2>7. CASE /\ remaining[kind[c]] = 0 /\ UNCHANGED remaining
             /\ r.json /\ PrimaryLimit(c, r) /\ r.reset = untilReset[kind[c]]
    <3>1. attempt[c] = 0
      BY <1>2, <2>4, <2>7, ApiAssumption DEF RefusedOnce, IInv, TypeOK
    <3>2. r.reset # NoHeader /\ r.reset >= untilReset[kind[c]]
      BY <2>1, <2>7, ApiAssumption DEF NoHeader
    <3>3. IsRefusal(c, response[c])'
      BY <1>6, <2>7, <3>2 DEF IsRefusal, PrimaryLimit, ReachesReset
    <3> QED
      BY <1>2, <1>6, <2>4, <3>1, <3>3 DEF RefusedOnce
  <2> QED
    BY <2>5, <2>6, <2>7
<1>9. ClientInv(c)'
    BY <1>6, <1>7, <1>8 DEF ClientInv
<1> QED
    BY <1>4, <1>5, <1>9, ClientKeeps

LEMMA PenalizeKeeps ==
    ASSUME IInv, Penalize
    PROVE  IInv'
<1>1. TypeOK'
    BY ApiAssumption DEF IInv, TypeOK, Penalize, client
<1>2. penalties' # 0
    BY DEF IInv, TypeOK, Penalize
<1>3. PenaltyIsCounted' /\ UndisturbedAreServed'
    BY <1>2 DEF PenaltyIsCounted, UndisturbedAreServed, Undisturbed
<1>4. UNCHANGED <<client, ahead>>
    BY DEF Penalize
<1>5. RetriesAreLeft' /\ ToldIsCovered'
    BY <1>4 DEF client, IInv, RetriesAreLeft, ToldIsCovered, Covered, PrimaryLimit,
       SecondaryLimit
<1> QED
    BY <1>1, <1>3, <1>5 DEF IInv

\* An answer whose reset is another is the same answer otherwise.
LEMMA ResetOnly ==
    ASSUME NEW r \in Responses, NEW n \in 0 .. Window \cup {NoHeader}, NEW s,
           s = [r EXCEPT !.reset = n]
    PROVE  /\ s \in Responses /\ s.reset = n
           /\ s.json = r.json /\ s.served = r.served /\ s.status = r.status
           /\ s.errors = r.errors /\ s.exhausted = r.exhausted
           /\ s.retryAfter = r.retryAfter
BY DEF Responses

\* What is left of a sum, and of what it covers.
LEMMA LessKeeps ==
    ASSUME NEW m \in Nat, NEW n \in Nat, NEW a \in Nat, m <= n + a
    PROVE  Less(m) <= Less(n) + a
BY DEF Less

\* A Tick shortens what is covered and what covers it alike.
LEMMA TickKeeps ==
    ASSUME IInv, Tick
    PROVE  IInv'
<1>1. /\ UNCHANGED <<kind, pc, attempt, result, ahead, penalties, failures>>
      /\ penalty' = Less(penalty)
    BY DEF Tick, bounds
<1>2. ASSUME NEW c \in Clients
      PROVE  /\ delay'[c] = Less(delay[c]) /\ told'[c] = {Less(n) : n \in told[c]}
             /\ response'[c] = [response[c] EXCEPT !.reset = Less(@)]
    BY DEF Tick
<1>3. ASSUME NEW k \in Kinds
      PROVE  /\ untilReset'[k] = IF untilReset[k] = 1 THEN Window ELSE untilReset[k] - 1
             /\ remaining'[k] = IF untilReset[k] = 1 THEN Limit ELSE remaining[k]
    BY DEF Tick
<1>4. ASSUME NEW n \in Nat PROVE Less(n) \in Nat /\ Less(n) <= n
    BY DEF Less
<1>5. ASSUME NEW c \in Clients
      PROVE  /\ response'[c] \in Responses
             /\ response[c].reset \in 0 .. Window \cup {NoHeader}
             /\ response[c].retryAfter \in 0 .. MaxPenalty \cup {NoHeader}
             /\ response'[c].reset = Less(response[c].reset)
             /\ response'[c].json = response[c].json
             /\ response'[c].served = response[c].served
             /\ response'[c].status = response[c].status
             /\ response'[c].errors = response[c].errors
             /\ response'[c].exhausted = response[c].exhausted
             /\ response'[c].retryAfter = response[c].retryAfter
  <2>1. response[c] \in Responses
    BY DEF IInv, TypeOK
  <2>2. response[c].reset \in 0 .. Window \cup {NoHeader}
        /\ response[c].retryAfter \in 0 .. MaxPenalty \cup {NoHeader}
    BY <2>1 DEF Responses
  <2>3. Less(response[c].reset) \in 0 .. Window \cup {NoHeader}
    BY <2>2, ApiAssumption DEF Less, NoHeader
  <2>4. response'[c] = [response[c] EXCEPT !.reset = Less(response[c].reset)]
    BY <1>2
  <2> QED
    BY <2>1, <2>2, <2>3, <2>4, ResetOnly
<1>6. TypeOK'
  <2>1. delay' \in [Clients -> Nat] /\ told' \in [Clients -> SUBSET Nat]
    BY <1>4 DEF Tick, IInv, TypeOK
  <2>2. response' \in [Clients -> Responses]
    BY <1>5 DEF Tick
  <2>3. remaining' \in [Kinds -> 0 .. Limit] /\ untilReset' \in [Kinds -> 1 .. Window]
    BY ApiAssumption DEF Tick, IInv, TypeOK
  <2>4. penalty' \in 0 .. MaxPenalty
    BY <1>1, ApiAssumption DEF Less, IInv, TypeOK
  <2> QED
    BY <1>1, <2>1, <2>2, <2>3, <2>4 DEF IInv, TypeOK
<1>7. PenaltyIsCounted' /\ RetriesAreLeft'
    BY <1>1 DEF IInv, PenaltyIsCounted, RetriesAreLeft, Less
<1>8. ASSUME NEW c \in Clients
      PROVE  /\ pc'[c] = "answered" => (\E n \in told[c] : Covered(c, response[c], n))'
             /\ pc'[c] = "sleeping" => (\E n \in told[c] : n <= delay[c] + ahead)'
  <2>1. told[c] \subseteq Nat /\ delay[c] \in Nat /\ ahead \in Nat
        /\ response[c] \in Responses
    BY ApiAssumption DEF IInv, TypeOK
  <2>2. /\ pc[c] = "answered" => \E n \in told[c] : Covered(c, response[c], n)
        /\ pc[c] = "sleeping" => \E n \in told[c] : n <= delay[c] + ahead
    BY DEF IInv, ToldIsCovered
  <2>3. ASSUME pc'[c] = "sleeping" PROVE (\E n \in told[c] : n <= delay[c] + ahead)'
    <3>1. PICK n \in told[c] : n <= delay[c] + ahead
      BY <1>1, <2>2, <2>3
    <3>2. Less(n) <= Less(delay[c]) + ahead
      BY <2>1, <3>1, LessKeeps
    <3>3. Less(n) \in told'[c]
      BY <1>2, <3>1
    <3> QED BY <1>1, <1>2, <3>2, <3>3
  <2>4. /\ PrimaryLimit(c, response[c])' <=> PrimaryLimit(c, response[c])
        /\ SecondaryLimit(c, response[c])' <=> SecondaryLimit(c, response[c])
    BY <1>1, <1>5 DEF PrimaryLimit, SecondaryLimit
  <2>5. ASSUME pc'[c] = "answered"
        PROVE  (\E n \in told[c] : Covered(c, response[c], n))'
    <3>1. PICK n \in told[c] : Covered(c, response[c], n)
      BY <1>1, <2>2, <2>5
    <3>2. n \in Nat /\ Less(n) \in Nat /\ Less(n) <= n /\ Less(n) \in told'[c]
      BY <1>2, <1>4, <2>1, <3>1
    <3>3. response[c].reset # NoHeader /\ n <= response[c].reset =>
              Less(n) <= Less(response[c].reset)
      BY <1>5, <3>2, ApiAssumption DEF Less
    <3>4. Less(response[c].reset) # NoHeader => response[c].reset # NoHeader
      BY DEF Less, NoHeader
    <3>5. n <= response[c].retryAfter => Less(n) <= response[c].retryAfter
      BY <1>5, <3>2, ApiAssumption DEF NoHeader
    <3>6. n <= Minute => Less(n) <= Minute
      BY <3>2, ApiAssumption
    <3> PICK m \in Nat : m = Less(n)
      BY <3>2
    <3>7. /\ response'[c].json = response[c].json
          /\ response'[c].reset = Less(response[c].reset)
          /\ response'[c].retryAfter = response[c].retryAfter
      BY <1>5
    <3>8. /\ m \in told'[c]
          /\ response[c].reset # NoHeader /\ n <= response[c].reset =>
                m <= Less(response[c].reset)
          /\ n <= response[c].retryAfter => m <= response[c].retryAfter
          /\ n <= Minute => m <= Minute
      BY <3>2, <3>3, <3>5, <3>6
    <3>9. Covered(c, response[c], m)'
      BY <2>4, <3>1, <3>4, <3>7, <3>8 DEF Covered
    <3> QED BY <3>8, <3>9
  <2> QED BY <2>3, <2>5
<1>9. ASSUME NEW c \in Clients, Undisturbed', Alone(c)'
      PROVE  RefusedOnce(c)'
  <2>1. Undisturbed /\ Alone(c)
    BY <1>1, <1>9 DEF Undisturbed, Alone
  <2>2. RefusedOnce(c)
    BY <2>1 DEF IInv, UndisturbedAreServed
  <2>3. kind[c] \in Kinds /\ untilReset[kind[c]] \in 1 .. Window
        /\ delay[c] \in Nat /\ remaining[kind[c]] \in 0 .. Limit
        /\ response[c] \in Responses
    BY DEF IInv, TypeOK
  <2>5. ASSUME NEW n \in 0 .. Window \cup {NoHeader} \cup Nat, ReachesReset(c, n)
        PROVE  \/ n >= 1 /\ Less(n) >= untilReset'[kind'[c]]
               \/ remaining'[kind'[c]] = Limit
    BY <1>1, <1>3, <2>3, <2>5, ApiAssumption DEF ReachesReset, Less, NoHeader
  <2>6. remaining[kind[c]] > 0 => remaining'[kind'[c]] > 0
    BY <1>1, <1>3, <2>3, ApiAssumption
  <2>7. pc[c] = "sleeping" => ReachesReset(c, delay[c])'
    BY <1>2, <2>2, <2>3, <2>5 DEF RefusedOnce, ReachesReset
  <2>9. IsData(response[c]) => IsData(response[c])'
    BY <1>5 DEF IsData
  <2>10. IsRefusal(c, response[c]) => IsRefusal(c, response[c])'
    <3>1. response[c].reset # NoHeader => response'[c].reset # NoHeader
      BY <1>5, ApiAssumption DEF Less, NoHeader
    <3>2. ReachesReset(c, response[c].reset) => ReachesReset(c, response[c].reset)'
      BY <1>5, <2>5 DEF ReachesReset
    <3> QED
      BY <1>1, <1>5, <3>1, <3>2 DEF IsRefusal, PrimaryLimit
  <2> QED
    BY <1>1, <2>2, <2>6, <2>7, <2>9, <2>10 DEF RefusedOnce
<1>10. ToldIsCovered' /\ UndisturbedAreServed'
    BY <1>8, <1>9 DEF ToldIsCovered, UndisturbedAreServed
<1> QED
    BY <1>6, <1>7, <1>10 DEF IInv

LEMMA StepKeeps == IInv /\ [Next]_vars => IInv'
<1> SUFFICES ASSUME IInv, [Next]_vars PROVE IInv'
    OBVIOUS
<1>1. CASE Tick
    BY <1>1, TickKeeps
<1>2. CASE Penalize
    BY <1>2, PenalizeKeeps
<1>3. ASSUME NEW c \in Clients,
             execute(c) \/ Answer(c) \/ Handle(c) \/ post_raises(c) \/ send_again(c)
      PROVE  IInv'
    BY <1>3, ExecuteKeeps, AnswerKeeps, HandleKeeps, RaisesKeeps, SendAgainKeeps
<1>4. CASE UNCHANGED vars
    BY <1>4 DEF vars, client, github, bounds, IInv, TypeOK, PenaltyIsCounted,
       RetriesAreLeft, ToldIsCovered, Covered, PrimaryLimit, SecondaryLimit,
       UndisturbedAreServed, Undisturbed, Alone, RefusedOnce, IsData, IsRefusal,
       ReachesReset
<1> QED
    BY <1>1, <1>2, <1>3, <1>4 DEF Next

-----------------------------------------------------------------------------
(* Theorems.                                                               *)

\* The inductive invariant holds in every reachable state.
THEOREM Invariance == Spec => []IInv
BY Initial, StepKeeps, PTL DEF Spec

\* Every call is in a step of the loop with a count of retries within its bound.
THEOREM TypeCorrect == Spec => []TypeOK
<1>1. IInv => TypeOK
    BY DEF IInv
<1> QED
    BY <1>1, Invariance, PTL

\* No request is sent again before a wait that GitHub asked for is over, but for the
\* lead of the host's clock: for every allowance, window and secondary limit.  An
\* answer that names one limit asks for one wait; of two waits it is one only, for a
\* retry-after that reaches past the window is not waited out.
THEOREM WaitedAsTold == Spec => WaitsAsTold
<1>1. ASSUME IInv, [Next]_vars, NEW c \in Clients, pc[c] = "sleeping", pc'[c] = "sent"
      PROVE  \E n \in told[c] : n <= ahead
  <2>1. ASSUME NEW d \in Clients, NEW v, pc' = [pc EXCEPT ![d] = v]
        PROVE  d = c
    BY <1>1, <2>1 DEF IInv, TypeOK
  <2>2. ASSUME NEW d \in Clients, execute(d) \/ Answer(d) \/ post_raises(d)
        PROVE  FALSE
    <3>1. pc[d] \in {"idle", "sent"}
      BY <2>2 DEF execute, Answer, AnswerPenalized, AnswerExhausted, AnswerCounted,
         post_raises
    <3>2. \E v : pc' = [pc EXCEPT ![d] = v]
      <4>1. CASE execute(d)
        BY <4>1 DEF execute
      <4>2. CASE Answer(d)
        <5>1. PICK r \in Responses, W \in SUBSET Nat : Answers(d, r, W)
          BY <1>1, <4>2, AnswerStep DEF IInv
        <5>2. pc' = [pc EXCEPT ![d] = "answered"]
          BY <5>1 DEF Answers, Reply
        <5> QED BY <5>2
      <4>3. CASE post_raises(d)
        BY <4>3 DEF post_raises, End
      <4> QED BY <2>2, <4>1, <4>2, <4>3
    <3> QED
      BY <1>1, <2>1, <3>1, <3>2
  <2>3. ASSUME NEW d \in Clients, Handle(d)
        PROVE  FALSE
    <3>1. \E v : pc' = [pc EXCEPT ![d] = v]
      BY <2>3 DEF Handle, retry_primary, retry_secondary, End, Sleep
    <3>2. pc[d] = "answered"
      BY <2>3 DEF Handle
    <3> QED
      BY <1>1, <2>1, <3>1, <3>2
  <2>4. ASSUME NEW d \in Clients, send_again(d)
        PROVE  delay[c] = 0
    BY <1>1, <2>4 DEF send_again, IInv, TypeOK
  <2>5. ~ Tick /\ ~ Penalize /\ ~ UNCHANGED vars
    BY <1>1 DEF Tick, Penalize, vars, client
  <2>6. delay[c] = 0
    BY <1>1, <2>2, <2>3, <2>4, <2>5 DEF Next
  <2> QED
    BY <1>1, <2>6, ApiAssumption DEF IInv, ToldIsCovered, TypeOK
<1>2. IInv /\ [Next]_vars =>
        [\A c \in Clients :
            pc[c] = "sleeping" /\ pc'[c] = "sent" =>
                \E n \in told[c] : n <= ahead]_vars
    BY <1>1
<1> QED
    BY <1>2, Invariance, PTL DEF Spec, WaitsAsTold

\* An undisturbed client is refused once at most in a call, and gets its data.
THEOREM PrimaryWaitedOut == Spec => []PrimaryLimitIsWaitedOut
<1>1. IInv => PrimaryLimitIsWaitedOut
    BY DEF IInv, UndisturbedAreServed, Undisturbed, Alone, RefusedOnce,
       PrimaryLimitIsWaitedOut
<1> QED
    BY <1>1, Invariance, PTL
=============================================================================
