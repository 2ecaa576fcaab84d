------------------------------ MODULE RpcClient ------------------------------
(* The JSON-RPC client (src/rpc): one HttpRpcClient, cloned into main, the    *)
(* head watcher and every fetch worker, which share its rate limiter.  A call *)
(* retries transient failures with a jittered back-off, and every attempt     *)
(* first waits for the limiter.  Before anyone                                *)
(* else calls, main probes whether the node serves eth_getBlockReceipts.      *)
(*                                                                            *)
(* Time is a discrete clock: one tick is the limiter's interval 1/rate, and   *)
(* delays are in ticks.  The payload of an answer is reduced to its shape,    *)
(* which is what serde accepts or refuses.                                    *)
EXTENDS Integers

CONSTANTS
  Callers,      \* the tasks that hold a clone of the client
  Main,         \* the one that creates it and probes the node
  MaxRetries,   \* RetryPolicy.max_retries
  BaseDelay,    \* RetryPolicy.base_delay, in ticks
  MaxDelay,     \* RetryPolicy.max_delay, in ticks
  Rate,         \* RateLimit: requests per second, also the burst
  Statuses,     \* HTTP failure statuses the node may answer with
  Used,         \* the EthClient methods that are called
  Codes,        \* JSON-RPC error codes other than "method not found"
  MaxCalls,     \* bound: calls made after the probe
  MaxTicks      \* bound: where the observers of time and requests saturate

AtMost(n, bound) == IF n < bound THEN n ELSE bound
Pred(n) == IF n = 0 THEN 0 ELSE n - 1

MethodNotFound == -32601

BlockMethods == {"get_block_by_number", "get_block_by_tag", "get_block_number"}

\* The methods of EthClient that make a call.  get_block_number always asks
\* for hashes only; the other two let the caller choose full_transactions.
Methods == BlockMethods \cup
  {"get_block_receipts", "get_transaction_receipt",
   "get_transaction_by_hash", "get_logs_for_transaction"}

ASSUME RpcConfig ==
  /\ Main \in Callers
  /\ Used \subseteq Methods
  /\ MaxRetries \in Nat /\ BaseDelay \in Nat /\ MaxDelay \in Nat
  /\ Rate \in Nat \ {0}
  /\ Statuses \subseteq Nat /\ Codes \subseteq Int
  /\ MaxCalls \in Nat /\ MaxTicks \in Nat

VARIABLES
  node,         \* what the node serves: [receipts, emptyHead]
  phase,        \* how far HttpRpcClient::new has come
  supports,     \* supports_block_receipts
  tokens,       \* cells left in the limiter
  pc, req, attempt, delay, lastError, response, outcome,
                \* per caller: its call in progress
  calls, ticks, sent  \* observers: calls made, time passed, requests sent

callVars == <<pc, req, attempt, delay, lastError, response, outcome>>
vars == <<node, phase, supports, tokens, callVars, calls, ticks, sent>>

Requests ==
  {r \in [method : Used, full : BOOLEAN] :
     r.full => r.method \in {"get_block_by_number", "get_block_by_tag"}}

LatestNumber == [method |-> "get_block_number", full |-> FALSE]
ProbedReceipts == [method |-> "get_block_receipts", full |-> FALSE]

(***************************************************************************)
(* The node and the network                                                *)
(***************************************************************************)

\* The shape of the `result' field a healthy node answers r with: a block
\* lists transaction objects or only their hashes, and what does not exist
\* is null.
Results(r) ==
  IF r.method \notin BlockMethods THEN {"null", "value"}
  ELSE {"null"} \cup IF node.emptyHead THEN {"value"}
                     ELSE {IF r.full THEN "value" ELSE "hashes"}

Answered(value) == [kind |-> "result", value |-> value, code |-> 0]
Failed(kind, code) == [kind |-> kind, value |-> "none", code |-> code]

\* Everything one request can come back with.  The client's timeout also
\* covers the body, so an answer may break off after its status line.
Responses(r) ==
  {Failed("timeout", 0), Failed("connection", 0), Failed("broken body", 0)}
    \cup {Failed("status", s) : s \in Statuses}
    \cup {Failed("rpc error", k) : k \in Codes}
    \cup IF r.method = "get_block_receipts" /\ ~node.receipts
         THEN {Failed("rpc error", MethodNotFound)}
         ELSE {Answered(v) : v \in Results(r)}

(***************************************************************************)
(* One attempt                                                             *)
(***************************************************************************)

Ok(value) == [ok |-> TRUE, value |-> value, error |-> "none", code |-> 0]
Err(error, code) == [ok |-> FALSE, value |-> "none", error |-> error, code |-> code]

NoError == Ok("none")

\* RpcError::is_retryable
IsRetryable(e) ==
  \/ e.error = "Http" /\ (e.code = 429 \/ e.code >= 500)
  \/ e.error \in {"Timeout", "Connection"}

\* What serde makes of a result: `Option<T>' reads null as absent, whatever T
\* is, and a block's transactions must be objects.
Deserialized(value) ==
  IF value \in {"null", "hashes"} THEN Err("Deserialize", 0) ELSE Ok(value)

\* execute_once, after the request is sent.
ExecuteOnce(resp) ==
  CASE resp.kind = "timeout"     -> Err("Timeout", 0)
    [] resp.kind = "connection"  -> Err("Connection", 0)
    [] resp.kind = "status"      -> Err("Http", resp.code)
    [] resp.kind = "broken body" -> Err("Deserialize", 0)
    [] resp.kind = "rpc error"   -> Err("JsonRpc", resp.code)
    [] OTHER                     -> Deserialized(resp.value)   \* "result"

\* RetryPolicy::delay_for_attempt draws from 0..Ceiling(n).
Ceiling(n) == AtMost(BaseDelay * 2^n, MaxDelay)
DelayForAttempt(n) == 0..Ceiling(n)

(***************************************************************************)
(* Calls                                                                   *)
(***************************************************************************)

Init ==
  /\ node \in [receipts : BOOLEAN, emptyHead : BOOLEAN]
  /\ phase = "new" /\ supports = FALSE
  /\ tokens = Rate
  /\ pc = [c \in Callers |-> "idle"]
  /\ req = [c \in Callers |-> LatestNumber]
  /\ attempt = [c \in Callers |-> 0]
  /\ delay = [c \in Callers |-> 0]
  /\ lastError = [c \in Callers |-> NoError]
  /\ response = [c \in Callers |-> Failed("none", 0)]
  /\ outcome = [c \in Callers |-> NoError]
  /\ calls = 0 /\ ticks = 0 /\ sent = 0

\* Entering `call': attempt 0, no delay, straight to the limiter.
Begin(c, r) ==
  /\ pc' = [pc EXCEPT ![c] = "limited"]
  /\ req' = [req EXCEPT ![c] = r]
  /\ attempt' = [attempt EXCEPT ![c] = 0]
  /\ lastError' = [lastError EXCEPT ![c] = NoError]
  /\ UNCHANGED <<node, tokens, delay, response, outcome, ticks, sent>>

\* The caller has its result and the call's locals are gone.
Forget(c) ==
  /\ pc' = [pc EXCEPT ![c] = "idle"]
  /\ req' = [req EXCEPT ![c] = LatestNumber]
  /\ attempt' = [attempt EXCEPT ![c] = 0]
  /\ lastError' = [lastError EXCEPT ![c] = NoError]
  /\ response' = [response EXCEPT ![c] = Failed("none", 0)]
  /\ outcome' = [outcome EXCEPT ![c] = NoError]

\* HttpRpcClient::new probes before it hands the client out.
Probe ==
  /\ phase = "new" /\ phase' = "latest"
  /\ Begin(Main, LatestNumber)
  /\ UNCHANGED <<supports, calls>>

ProbeLatest ==
  /\ phase = "latest" /\ pc[Main] = "returned" /\ outcome[Main].ok
  /\ phase' = "receipts"
  /\ Begin(Main, ProbedReceipts)
  /\ UNCHANGED <<supports, calls>>

\* A failure to learn the latest block leaves the flag unset.
ProbeGivesUp ==
  /\ phase = "latest" /\ pc[Main] = "returned" /\ ~outcome[Main].ok
  /\ phase' = "ready"
  /\ Forget(Main)
  /\ UNCHANGED <<node, supports, tokens, delay, calls, ticks, sent>>

\* A variant that takes anything but "method not found" for support.
ProbeReceiptsHopeful ==
  /\ phase = "receipts" /\ pc[Main] = "returned"
  /\ supports' = (outcome[Main].code # MethodNotFound)
  /\ phase' = "ready"
  /\ Forget(Main)
  /\ UNCHANGED <<node, tokens, delay, calls, ticks, sent>>

\* Ok sets the flag; "method not found" and every other error leave it.
ProbeReceipts ==
  /\ phase = "receipts" /\ pc[Main] = "returned"
  /\ supports' = outcome[Main].ok
  /\ phase' = "ready"
  /\ Forget(Main)
  /\ UNCHANGED <<node, tokens, delay, calls, ticks, sent>>

\* A method of the EthClient trait.
Call(c, r) ==
  /\ phase = "ready" /\ pc[c] = "idle" /\ calls < MaxCalls
  /\ Begin(c, r)
  /\ calls' = calls + 1
  /\ UNCHANGED <<phase, supports>>

\* A variant in which retries do not pass the limiter.
SendUnlimited(c) ==
  /\ pc[c] = "limited" /\ (tokens > 0 \/ attempt[c] > 0)
  /\ tokens' = Pred(tokens)
  /\ sent' = AtMost(sent + 1, Rate + MaxTicks)
  /\ pc' = [pc EXCEPT ![c] = "sent"]
  /\ UNCHANGED <<node, phase, supports, req, attempt, delay, lastError,
                 response, outcome, calls, ticks>>

\* rate_limit.wait() lets the attempt through, and execute_once posts it.
Send(c) ==
  /\ pc[c] = "limited" /\ tokens > 0
  /\ tokens' = tokens - 1
  /\ sent' = AtMost(sent + 1, Rate + MaxTicks)
  /\ pc' = [pc EXCEPT ![c] = "sent"]
  /\ UNCHANGED <<node, phase, supports, req, attempt, delay, lastError,
                 response, outcome, calls, ticks>>

\* A variant that retries whatever failed.
RetryAnything(c, o) == ~o.ok /\ attempt[c] < MaxRetries

\* `Err(e) if e.is_retryable() && attempt < max_retries'.
WorthRetrying(c, o) == ~o.ok /\ IsRetryable(o) /\ attempt[c] < MaxRetries

\* A variant that does not count the attempts of a node that is away.
RetryUncounted(c) ==
  /\ pc[c] = "sent"
  /\ \E resp \in Responses(req[c]) :
       LET o == ExecuteOnce(resp) IN
       /\ WorthRetrying(c, o)
       /\ lastError' = [lastError EXCEPT ![c] = o]
       /\ attempt' = IF o.error = "Connection" THEN attempt ELSE [attempt EXCEPT ![c] = @ + 1]
  /\ \E d \in DelayForAttempt(attempt[c]) : delay' = [delay EXCEPT ![c] = d]
  /\ pc' = [pc EXCEPT ![c] = "sleeping"]
  /\ UNCHANGED <<node, phase, supports, tokens, req, response,
                 outcome, calls, ticks, sent>>

\* The attempt ended; the next one waits for a jittered delay first.
Retry(c) ==
  /\ pc[c] = "sent"
  /\ \E resp \in Responses(req[c]) :
       LET o == ExecuteOnce(resp) IN
       /\ WorthRetrying(c, o)
       /\ lastError' = [lastError EXCEPT ![c] = o]
  /\ \E d \in DelayForAttempt(attempt[c]) : delay' = [delay EXCEPT ![c] = d]
  /\ attempt' = [attempt EXCEPT ![c] = @ + 1]
  /\ pc' = [pc EXCEPT ![c] = "sleeping"]
  /\ UNCHANGED <<node, phase, supports, tokens, req, response,
                 outcome, calls, ticks, sent>>

\* The attempt ended the call.
Return(c) ==
  /\ pc[c] = "sent"
  /\ \E resp \in Responses(req[c]) :
       LET o == ExecuteOnce(resp) IN
       /\ ~WorthRetrying(c, o)
       /\ response' = [response EXCEPT ![c] = resp]
       /\ outcome' = [outcome EXCEPT ![c] = o]
  /\ pc' = [pc EXCEPT ![c] = "returned"]
  /\ UNCHANGED <<node, phase, supports, tokens, req, attempt, delay,
                 lastError, calls, ticks, sent>>

Wake(c) ==
  /\ pc[c] = "sleeping" /\ delay[c] = 0
  /\ pc' = [pc EXCEPT ![c] = "limited"]
  /\ UNCHANGED <<node, phase, supports, tokens, req, attempt, delay,
                 lastError, response, outcome, calls, ticks, sent>>

\* The caller takes the result.
Consume(c) ==
  /\ phase = "ready" /\ pc[c] = "returned"
  /\ Forget(c)
  /\ UNCHANGED <<node, phase, supports, tokens, delay, calls, ticks, sent>>

\* Time passes: the limiter regains a cell, sleepers come closer.
Tick ==
  /\ tokens' = AtMost(tokens + 1, Rate)
  /\ delay' = [c \in Callers |-> Pred(delay[c])]
  /\ ticks' = AtMost(ticks + 1, MaxTicks)
  /\ UNCHANGED <<node, phase, supports, pc, req, attempt,
                 lastError, response, outcome, calls, sent>>

Step(c) == Send(c) \/ Retry(c) \/ Return(c) \/ Wake(c) \/ Consume(c)

Next ==
  \/ Probe \/ ProbeLatest \/ ProbeGivesUp \/ ProbeReceipts
  \/ \E c \in Callers : \E r \in Requests : Call(c, r)
  \/ \E c \in Callers : Step(c)
  \/ Tick

\* The clock runs, a ready task is polled, and the HTTP client's own timeout
\* ends every attempt: nothing is assumed of the node.
Fairness ==
  /\ WF_vars(Tick)
  /\ WF_vars(Probe \/ ProbeLatest \/ ProbeGivesUp \/ ProbeReceipts)
  /\ \A c \in Callers : WF_vars(Step(c))

Spec == Init /\ [][Next]_vars
FairSpec == Spec /\ Fairness

(***************************************************************************)
(* Properties                                                              *)
(***************************************************************************)

Phases == {"new", "latest", "receipts", "ready"}
Steps == {"idle", "limited", "sent", "sleeping", "returned"}

TypeOK ==
  /\ node \in [receipts : BOOLEAN, emptyHead : BOOLEAN]
  /\ phase \in Phases /\ supports \in BOOLEAN
  /\ tokens \in 0..Rate
  /\ pc \in [Callers -> Steps] /\ req \in [Callers -> Requests \cup {LatestNumber, ProbedReceipts}]
  /\ attempt \in [Callers -> 0..MaxRetries] /\ delay \in [Callers -> 0..MaxDelay]
  /\ calls \in 0..MaxCalls /\ ticks \in 0..MaxTicks /\ sent \in 0..(Rate + MaxTicks)

\* "Retries transient failures; does not retry deterministic errors": every
\* attempt but the last of a call ended in a transient error, and a call only
\* reports a transient error after all its attempts (http.rs, call).
RetryDiscipline ==
  \A c \in Callers :
    pc[c] # "idle" =>
      /\ attempt[c] > 0 => ~lastError[c].ok /\ IsRetryable(lastError[c])
      /\ pc[c] = "returned" /\ ~outcome[c].ok /\ IsRetryable(outcome[c])
           => attempt[c] = MaxRetries

\* "Demonstrably caps request rate": with all clones together, retries
\* included, no more requests leave than the burst and the elapsed time allow.
RateCapped == ticks < MaxTicks => sent <= Rate + ticks

\* The probe never promises batched receipts that the node does not serve
\* (http.rs, probe_block_receipts).
ProbeSound == supports => node.receipts

\* Every call comes back, and so does `new', whatever the node does.
EveryCallReturns ==
  /\ <>(phase = "ready")
  /\ \A c \in Callers :
       pc[c] \in {"limited", "sent", "sleeping"} ~> pc[c] = "returned"

\* "Fetches a known mainnet block by number and by tag": the answer a healthy
\* node gives about a block that exists reaches the caller as a success.
AnswersDelivered ==
  \A c \in Callers :
    pc[c] = "returned" /\ response[c].kind = "result"
      /\ response[c].value # "null"
      => outcome[c].ok
=============================================================================
