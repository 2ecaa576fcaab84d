----------------------------- MODULE RpcProofs -----------------------------
(* Proofs about module RpcClient, for any number of clones of the client, any *)
(* retry policy and rate, and any node.                                       *)
EXTENDS RpcClient, FiniteSetTheorems, TLAPS

(* Type correctness needs the domains of the per-caller results as well.      *)
TypeInv ==
  /\ TypeOK
  /\ DOMAIN lastError = Callers /\ DOMAIN outcome = Callers
  /\ DOMAIN response = Callers
  /\ \A c \in Callers : outcome[c].ok \in BOOLEAN

\* An attempt fails or succeeds, and asking for receipts only succeeds if the
\* node serves them: it answers "method not found" otherwise.
LEMMA AttemptFacts ==
  ASSUME NEW r, NEW resp \in Responses(r)
  PROVE  /\ ExecuteOnce(resp).ok \in BOOLEAN
         /\ r.method = "get_block_receipts" /\ ExecuteOnce(resp).ok => node.receipts
<1>1. \/ resp = Failed("timeout", 0) \/ resp = Failed("connection", 0)
      \/ resp = Failed("broken body", 0)
      \/ \E s \in Statuses : resp = Failed("status", s)
      \/ \E k \in Codes \cup {MethodNotFound} : resp = Failed("rpc error", k)
      \/ /\ ~(r.method = "get_block_receipts" /\ ~node.receipts)
         /\ \E v \in Results(r) : resp = Answered(v)
  BY DEF Responses
<1>2. \A v : Answered(v).kind = "result"
  BY DEF Answered
<1>3. \A x, y : Failed(x, y).kind = x
  BY DEF Failed
<1>4. CASE resp.kind = "result"
  <2>1. ~(r.method = "get_block_receipts" /\ ~node.receipts)
    <3>1. CASE \E x \in {"timeout", "connection", "status", "broken body", "rpc error"} :
                 \E y : resp = Failed(x, y)
      <4>1. PICK x \in {"timeout", "connection", "status", "broken body", "rpc error"} :
              resp.kind = x
        BY <1>3, <3>1, Zenon
      <4> QED
        BY <1>4, <4>1
    <3> QED
      BY <1>1, <3>1, Zenon
  <2>2. ExecuteOnce(resp) = Deserialized(resp.value)
    BY <1>4 DEF ExecuteOnce
  <2>3. Deserialized(resp.value) \in {Err("Deserialize", 0), Ok(resp.value)}
    BY DEF Deserialized
  <2>4. Err("Deserialize", 0).ok = FALSE /\ Ok(resp.value).ok = TRUE
    BY Zenon DEF Err, Ok
  <2> QED
    BY <2>1, <2>2, <2>3, <2>4, Zenon
<1>5. CASE resp.kind # "result"
  <2>1. resp.kind \in {"timeout", "connection", "status", "broken body", "rpc error"}
    <3>1. ASSUME NEW v, resp = Answered(v)
          PROVE  FALSE
      BY <1>5, <1>2, <3>1, Zenon
    <3>2. ASSUME NEW x, NEW y, resp = Failed(x, y)
          PROVE  resp.kind = x
      BY <1>3, <3>2, Zenon
    <3>3. \E x \in {"timeout", "connection", "status", "broken body", "rpc error"} :
            \E y : resp = Failed(x, y)
      BY <1>1, <3>1, Zenon
    <3> QED
      BY <3>2, <3>3, Zenon
  <2>2. ExecuteOnce(resp) \in {Err("Timeout", 0), Err("Connection", 0), Err("Deserialize", 0),
                              Err("Http", resp.code), Err("JsonRpc", resp.code)}
    BY <2>1 DEF ExecuteOnce
  <2>3. \A x, y : Err(x, y).ok = FALSE
    BY Zenon DEF Err
  <2> QED
    BY <2>2, <2>3, Zenon
<1> QED
  BY <1>4, <1>5

\* 2^n counts the subsets of 1..n, which is how it is known to be a number.
LEMMA PowerIsNat ==
  ASSUME NEW n \in Nat
  PROVE  2^n \in Nat
<1>1. IsFiniteSet(1..n) /\ Cardinality(1..n) = n
  BY FS_Interval
<1>2. IsFiniteSet(SUBSET (1..n)) /\ Cardinality(SUBSET (1..n)) = 2^n
  BY <1>1, FS_SUBSET
<1> QED
  BY <1>2, FS_CardinalityType

\* No back-off is longer than max_delay.
LEMMA DelayBounded ==
  ASSUME NEW n \in Nat, NEW d \in DelayForAttempt(n)
  PROVE  d \in 0..MaxDelay
<1>1. BaseDelay * 2^n \in Nat
  <2> DEFINE p == 2^n
  <2>1. p \in Nat
    BY PowerIsNat
  <2> HIDE DEF p
  <2>2. BaseDelay * p \in Nat
    BY <2>1, RpcConfig
  <2> QED
    BY <2>2 DEF p
<1> DEFINE x == BaseDelay * 2^n
<1>2. d \in 0..(IF x < MaxDelay THEN x ELSE MaxDelay)
  BY DEF DelayForAttempt, Ceiling, AtMost
<1> HIDE DEF x
<1>3. x \in Nat
  BY <1>1 DEF x
<1> QED
  BY <1>2, <1>3, RpcConfig

LEMMA TypeInit == Init => TypeInv
<1> SUFFICES ASSUME Init
             PROVE  TypeInv
  OBVIOUS
<1>1. node \in [receipts : BOOLEAN, emptyHead : BOOLEAN] /\ supports \in BOOLEAN
  BY Zenon DEF Init
<1>2. \A c \in Callers : outcome[c].ok \in BOOLEAN
  <2>1. outcome = [c \in Callers |-> NoError] /\ NoError.ok = TRUE
    BY Zenon DEF Init, NoError, Ok
  <2> QED
    BY <2>1, Zenon
<1> QED
  BY <1>1, <1>2, RpcConfig DEF Init, TypeInv, TypeOK, Phases, Steps

LEMMA BeginTypes ==
  ASSUME TypeInv, NEW c \in Callers,
         NEW r \in Requests \cup {LatestNumber, ProbedReceipts}, Begin(c, r)
  PROVE  /\ pc' \in [Callers -> Steps]
         /\ req' \in [Callers -> Requests \cup {LatestNumber, ProbedReceipts}]
         /\ attempt' \in [Callers -> 0..MaxRetries]
         /\ DOMAIN lastError' = Callers
         /\ UNCHANGED <<node, tokens, delay, response, outcome, ticks, sent>>
  BY RpcConfig DEF Begin, TypeInv, TypeOK, Steps

LEMMA ForgetTypes ==
  ASSUME TypeInv, NEW c \in Callers, Forget(c)
  PROVE  /\ pc' \in [Callers -> Steps]
         /\ req' \in [Callers -> Requests \cup {LatestNumber, ProbedReceipts}]
         /\ attempt' \in [Callers -> 0..MaxRetries]
         /\ DOMAIN lastError' = Callers /\ DOMAIN outcome' = Callers
         /\ DOMAIN response' = Callers
         /\ \A d \in Callers : outcome'[d].ok \in BOOLEAN
<1>1. \A d \in Callers : outcome'[d].ok \in BOOLEAN
  <2>1. outcome' = [outcome EXCEPT ![c] = NoError] /\ NoError.ok = TRUE
    BY Zenon DEF Forget, NoError, Ok
  <2>2. DOMAIN outcome = Callers /\ \A d \in Callers : outcome[d].ok \in BOOLEAN
    BY Zenon DEF TypeInv
  <2> QED
    BY <2>1, <2>2, Zenon
<1> QED
  BY <1>1, RpcConfig DEF Forget, TypeInv, TypeOK, Steps

LEMMA TypeNext == TypeInv /\ [Next]_vars => TypeInv'
<1> SUFFICES ASSUME TypeInv, [Next]_vars
             PROVE  TypeInv'
  OBVIOUS
<1> USE RpcConfig
<1>1. CASE Probe
  BY <1>1, BeginTypes DEF Probe, TypeInv, TypeOK, Phases
<1>2. CASE ProbeLatest
  BY <1>2, BeginTypes DEF ProbeLatest, TypeInv, TypeOK, Phases
<1>3. CASE ProbeGivesUp
  BY <1>3, ForgetTypes DEF ProbeGivesUp, TypeInv, TypeOK, Phases
<1>4. CASE ProbeReceipts
  BY <1>4, ForgetTypes DEF ProbeReceipts, TypeInv, TypeOK, Phases
<1>5. ASSUME NEW c \in Callers, NEW r \in Requests, Call(c, r)
      PROVE  TypeInv'
  BY <1>5, BeginTypes DEF Call, TypeInv, TypeOK, Phases
<1>6. ASSUME NEW c \in Callers, Send(c)
      PROVE  TypeInv'
  BY <1>6 DEF Send, AtMost, TypeInv, TypeOK, Steps
<1>7. ASSUME NEW c \in Callers, Retry(c)
      PROVE  TypeInv'
  BY <1>7, DelayBounded DEF Retry, WorthRetrying, TypeInv, TypeOK, Steps
<1>8. ASSUME NEW c \in Callers, Return(c)
      PROVE  TypeInv'
  BY <1>8, AttemptFacts DEF Return, TypeInv, TypeOK, Steps
<1>9. ASSUME NEW c \in Callers, Wake(c)
      PROVE  TypeInv'
  BY <1>9 DEF Wake, TypeInv, TypeOK, Steps
<1>10. ASSUME NEW c \in Callers, Consume(c)
       PROVE  TypeInv'
  BY <1>10, ForgetTypes DEF Consume, TypeInv, TypeOK
<1>11. CASE Tick
  BY <1>11 DEF Tick, AtMost, Pred, TypeInv, TypeOK
<1>12. CASE UNCHANGED vars
  BY <1>12 DEF vars, callVars, TypeInv, TypeOK
<1> QED
  BY <1>1, <1>2, <1>3, <1>4, <1>5, <1>6, <1>7, <1>8, <1>9, <1>10, <1>11, <1>12
     DEF Next, Step

\* Attempts never exceed max_retries, back-offs never max_delay, and the
\* limiter never holds more cells than its burst.
THEOREM TypeCorrect == Spec => []TypeOK
<1>1. Spec => []TypeInv
  BY TypeInit, TypeNext, PTL DEF Spec
<1> QED
  BY <1>1, PTL DEF TypeInv
-----------------------------------------------------------------------------
\* RetryDiscipline is inductive with the types: a retry remembers the error
\* it retries, a return finds no attempt left, and nobody else writes either.
LEMMA RetryNext == TypeInv /\ RetryDiscipline /\ [Next]_vars => RetryDiscipline'
<1> SUFFICES ASSUME TypeInv, RetryDiscipline, [Next]_vars
             PROVE  RetryDiscipline'
  OBVIOUS
<1> USE RpcConfig DEF TypeInv, TypeOK, RetryDiscipline
<1>1. ASSUME NEW c \in Callers, NEW r, Begin(c, r)
      PROVE  RetryDiscipline'
  BY <1>1 DEF Begin
<1>2. ASSUME NEW c \in Callers, Forget(c)
      PROVE  RetryDiscipline'
  BY <1>2 DEF Forget
<1>3. CASE Probe \/ ProbeLatest \/ \E c \in Callers, r \in Requests : Call(c, r)
  BY <1>1, <1>3 DEF Probe, ProbeLatest, Call
<1>4. CASE ProbeGivesUp \/ ProbeReceipts \/ \E c \in Callers : Consume(c)
  BY <1>2, <1>4 DEF ProbeGivesUp, ProbeReceipts, Consume
<1>5. ASSUME NEW c \in Callers, Send(c) \/ Wake(c)
      PROVE  RetryDiscipline'
  BY <1>5 DEF Send, Wake
<1>6. ASSUME NEW c \in Callers, Retry(c)
      PROVE  RetryDiscipline'
  <2>1. PICK o : /\ ~o.ok /\ IsRetryable(o)
                 /\ lastError' = [lastError EXCEPT ![c] = o]
    BY <1>6 DEF Retry, WorthRetrying
  <2>2. ~lastError'[c].ok /\ IsRetryable(lastError'[c])
    BY <2>1
  <2>3. pc'[c] = "sleeping" /\ UNCHANGED outcome
    BY <1>6 DEF Retry
  <2>4. \A d \in Callers \ {c} : /\ pc'[d] = pc[d] /\ lastError'[d] = lastError[d]
                                 /\ attempt'[d] = attempt[d]
    BY <1>6, <2>1 DEF Retry
  <2> QED
    BY <2>2, <2>3, <2>4
<1>7. ASSUME NEW c \in Callers, Return(c)
      PROVE  RetryDiscipline'
  <2>1. PICK o : /\ ~(~o.ok /\ IsRetryable(o) /\ attempt[c] < MaxRetries)
                 /\ outcome' = [outcome EXCEPT ![c] = o]
    BY <1>7 DEF Return, WorthRetrying
  <2>2. ~outcome'[c].ok /\ IsRetryable(outcome'[c]) => attempt[c] = MaxRetries
    <3>1. outcome'[c] = o
      BY <2>1
    <3>2. attempt[c] \in 0..MaxRetries /\ MaxRetries \in Nat
      OBVIOUS
    <3>3. ~(attempt[c] < MaxRetries) => attempt[c] = MaxRetries
      BY <3>2
    <3> QED
      BY <2>1, <3>1, <3>3, Zenon
  <2>3. /\ pc' = [pc EXCEPT ![c] = "returned"] /\ pc[c] = "sent"
        /\ UNCHANGED <<attempt, lastError>>
    BY <1>7 DEF Return
  <2>4. \A d \in Callers \ {c} : pc'[d] = pc[d] /\ outcome'[d] = outcome[d]
    BY <2>1, <2>3
  <2> QED
    BY <2>2, <2>3, <2>4
<1>8. CASE Tick
  BY <1>8 DEF Tick
<1>9. CASE UNCHANGED vars
  BY <1>9 DEF vars, callVars
<1> QED
  BY <1>3, <1>4, <1>5, <1>6, <1>7, <1>8, <1>9 DEF Next, Step

\* "Retries transient failures; does not retry deterministic errors", for
\* every interleaving of the clones (http.rs, call).
THEOREM RetriesDisciplined == Spec => []RetryDiscipline
<1>1. Init => RetryDiscipline
  BY DEF Init, RetryDiscipline
<1> QED
  BY <1>1, TypeInit, TypeNext, RetryNext, PTL DEF Spec

-----------------------------------------------------------------------------
\* RateCapped speaks of requests only.  Inductive is that requests sent and
\* cells left together stay within the burst and the time that has passed.
CellsConserved == ticks < MaxTicks => sent + tokens <= Rate + ticks

LEMMA CellsNext == TypeInv /\ CellsConserved /\ [Next]_vars => CellsConserved'
<1> SUFFICES ASSUME TypeInv, CellsConserved, [Next]_vars
             PROVE  CellsConserved'
  OBVIOUS
<1> USE RpcConfig DEF TypeInv, TypeOK, CellsConserved
<1>1. ASSUME NEW c \in Callers, Send(c)
      PROVE  CellsConserved'
  BY <1>1 DEF Send, AtMost
<1>2. CASE Tick
  BY <1>2 DEF Tick, AtMost
<1>3. CASE UNCHANGED <<tokens, ticks, sent>>
  BY <1>3
<1> QED
  BY <1>1, <1>2, <1>3
     DEF Next, Step, vars, Probe, ProbeLatest, ProbeGivesUp, ProbeReceipts, Call, Begin,
         Retry, Return, Wake, Consume

\* "Demonstrably caps request rate": all clones together, retries included
\* (ratelimit.rs, wait).
THEOREM RateStaysCapped == Spec => []RateCapped
<1>1. Init => CellsConserved
  BY RpcConfig DEF Init, CellsConserved
<1>2. TypeInv /\ CellsConserved => RateCapped
  BY RpcConfig DEF TypeInv, TypeOK, CellsConserved, RateCapped
<1> QED
  BY <1>1, <1>2, TypeInit, TypeNext, CellsNext, PTL DEF Spec

-----------------------------------------------------------------------------
\* While the receipts are probed nobody else uses Main's call, so that what
\* it returns is the node's answer to get_block_receipts.
ProbeInFlight ==
  phase = "receipts" =>
    /\ req[Main] = ProbedReceipts /\ pc[Main] # "idle"
    /\ pc[Main] = "returned" /\ outcome[Main].ok => node.receipts

ProbeInv == TypeInv /\ ProbeSound /\ ProbeInFlight

LEMMA ProbeNext == ProbeInv /\ [Next]_vars => ProbeInv'
<1> SUFFICES ASSUME ProbeInv, [Next]_vars
             PROVE  ProbeSound' /\ ProbeInFlight'
  BY TypeNext DEF ProbeInv
<1> USE RpcConfig DEF ProbeInv, TypeInv, TypeOK, ProbeSound, ProbeInFlight
<1>1. CASE Probe
  BY <1>1 DEF Probe, Begin
<1>2. CASE ProbeLatest
  BY <1>2 DEF ProbeLatest, Begin
<1>3. CASE ProbeGivesUp
  BY <1>3 DEF ProbeGivesUp, Forget
<1>4. CASE ProbeReceipts
  BY <1>4 DEF ProbeReceipts, Forget
<1>5. ASSUME NEW c \in Callers, NEW r \in Requests, Call(c, r)
      PROVE  ProbeSound' /\ ProbeInFlight'
  BY <1>5 DEF Call, Begin
<1>6. ASSUME NEW c \in Callers, Send(c) \/ Wake(c) \/ Retry(c)
      PROVE  ProbeSound' /\ ProbeInFlight'
  BY <1>6 DEF Send, Wake, Retry
<1>7. ASSUME NEW c \in Callers, Return(c)
      PROVE  ProbeSound' /\ ProbeInFlight'
  <2>1. PICK resp \in Responses(req[c]) :
          outcome' = [outcome EXCEPT ![c] = ExecuteOnce(resp)]
    BY <1>7 DEF Return
  <2>2. UNCHANGED <<node, phase, supports, req>> /\ pc' = [pc EXCEPT ![c] = "returned"]
    BY <1>7 DEF Return
  <2>3. CASE c = Main /\ phase = "receipts"
    <3>1. req[c].method = "get_block_receipts"
      BY <2>3 DEF ProbedReceipts
    <3>2. ExecuteOnce(resp).ok => node.receipts
      BY <3>1, AttemptFacts
    <3> QED
      BY <2>1, <2>2, <2>3, <3>2
  <2>4. CASE c # Main \/ phase # "receipts"
    BY <2>1, <2>2, <2>4
  <2> QED
    BY <2>3, <2>4
<1>8. ASSUME NEW c \in Callers, Consume(c)
      PROVE  ProbeSound' /\ ProbeInFlight'
  BY <1>8 DEF Consume
<1>9. CASE Tick
  BY <1>9 DEF Tick
<1>10. CASE UNCHANGED vars
  BY <1>10 DEF vars, callVars
<1> QED
  BY <1>1, <1>2, <1>3, <1>4, <1>5, <1>6, <1>7, <1>8, <1>9, <1>10 DEF Next, Step

\* The client never asks for batched receipts a node does not serve, however
\* the probe's two calls fail and are retried (http.rs, probe_block_receipts).
THEOREM ProbeStaysSound == Spec => []ProbeSound
<1>1. Init => ProbeInv
  <2> SUFFICES ASSUME Init
               PROVE  ProbeSound /\ ProbeInFlight
    BY TypeInit DEF ProbeInv
  <2>1. supports = FALSE /\ phase = "new"
    BY DEF Init
  <2> QED
    BY <2>1 DEF ProbeSound, ProbeInFlight
<1>2. Spec => []ProbeInv
  BY <1>1, ProbeNext, PTL DEF Spec
<1> QED
  BY <1>2, PTL DEF ProbeInv
=============================================================================
