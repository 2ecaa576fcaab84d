------------------------------ MODULE Pipeline ------------------------------
(***************************************************************************)
(* One batch of the fetch pipeline (main.rs, pipeline/worker.rs,           *)
(* pipeline/sequencer.rs): main feeds block numbers to a pool of workers   *)
(* through a bounded channel, the workers hand fetched blocks to the       *)
(* sequencer through a second one, the sequencer puts them in order and    *)
(* releases them to main through a third.  Every channel has capacity      *)
(* FetchQueueDepth and FIFO order; a send waits while it is full.          *)
(*                                                                         *)
(* Numbers are relative to the batch: 1 is its first block.  A fetched     *)
(* block is its number, the only part main uses.  The error branches of    *)
(* the three sends (receiver dropped) cannot be taken: each receiver lives *)
(* until all its senders are gone.                                         *)
(***************************************************************************)
EXTENDS Integers, Sequences, FiniteSets

CONSTANTS
  Worker,           \* the worker tasks
  FetchQueueDepth,  \* capacity of each channel
  Available,        \* blocks between the start of the batch and the head
  MayFail,          \* numbers whose fetch or decoding may fail
  CanBreak          \* may main leave the receive loop (reorg, shutdown)?

ASSUME PipelineAssumption ==
  /\ Worker # {} /\ IsFiniteSet(Worker)
  /\ FetchQueueDepth \in Nat \ {0}
  /\ Available \in Nat \ {0}
  /\ MayFail \subseteq Nat
  /\ CanBreak \in BOOLEAN

(* Bug variant: batches larger than the channels and workers can hold.     *)
BatchLimitEightfold == 8 * FetchQueueDepth

(* blocks_to_fetch: `.take(fetch_queue_depth * 2)'                         *)
BatchLimit == 2 * FetchQueueDepth

Last == IF Available < BatchLimit THEN Available ELSE BatchLimit

VARIABLES
  mainPc,    \* "sending", "receiving", "joining" or "joined"
  toSend,    \* the number main sends next
  received,  \* the number main has received last, 0 if none
  broke,     \* did main leave the receive loop early?
  fetchQ,    \* numbers from main to the workers
  state,     \* state[w]: "idle", "fetching", "sending", "exited"
  num,       \* num[w]: the number worker w is at, 0 if none
  workQ,     \* blocks from the workers to the sequencer
  seqPc,     \* "waiting", "draining", "final", "done"
  buffer,    \* the sequencer's BTreeMap
  expected,  \* the number the sequencer releases next
  seqQ       \* blocks from the sequencer to main

mainVars == <<mainPc, toSend, received, broke>>
workerVars == <<state, num>>
seqVars == <<seqPc, buffer, expected>>
vars == <<mainPc, toSend, received, broke, fetchQ, state, num, workQ, seqPc,
          buffer, expected, seqQ>>

Init ==
  /\ mainPc = "sending" /\ toSend = 1 /\ received = 0 /\ broke = FALSE
  /\ fetchQ = <<>> /\ workQ = <<>> /\ seqQ = <<>>
  /\ state = [w \in Worker |-> "idle"]
  /\ num = [w \in Worker |-> 0]
  /\ seqPc = "waiting" /\ buffer = {} /\ expected = 1

(* Bug variants: the capacity is off by one either way.                    *)
HasRoomOver(q) == Len(q) <= FetchQueueDepth

HasRoomUnder(q) == Len(q) + 1 < FetchQueueDepth

HasRoom(q) == Len(q) < FetchQueueDepth

AllExited == \A w \in Worker : state[w] = "exited"

-----------------------------------------------------------------------------
(* main: all numbers are sent before the first result is received.         *)

MainSend ==
  /\ mainPc = "sending"
  /\ toSend <= Last
  /\ HasRoom(fetchQ)
  /\ fetchQ' = Append(fetchQ, toSend)
  /\ toSend' = toSend + 1
  /\ UNCHANGED <<mainPc, received, broke, workerVars, workQ, seqVars, seqQ>>

MainDropSender ==
  /\ mainPc = "sending"
  /\ toSend > Last
  /\ mainPc' = "receiving"
  /\ UNCHANGED <<toSend, received, broke, fetchQ, workerVars, workQ, seqVars, seqQ>>

(* One turn of the receive loop, which main may leave afterwards because   *)
(* of a rollback, a shutdown, or a shutdown during the pause after an      *)
(* error.                                                                  *)
MainReceive ==
  /\ mainPc = "receiving"
  /\ seqQ # <<>>
  /\ received' = Head(seqQ)
  /\ seqQ' = Tail(seqQ)
  /\ \/ UNCHANGED <<mainPc, broke>>
     \/ CanBreak /\ mainPc' = "joining" /\ broke' = TRUE
  /\ UNCHANGED <<toSend, fetchQ, workerVars, workQ, seqVars>>

(* Bug variant: an empty queue is taken for a closed one.                  *)
MainEndOnEmpty ==
  /\ mainPc = "receiving"
  /\ seqQ = <<>>
  /\ mainPc' = "joining"
  /\ UNCHANGED <<toSend, received, broke, fetchQ, workerVars, workQ, seqVars, seqQ>>

(* recv() returns None: the sequencer is gone and its queue is empty.      *)
MainEnd ==
  /\ mainPc = "receiving"
  /\ seqQ = <<>>
  /\ seqPc = "done"
  /\ mainPc' = "joining"
  /\ UNCHANGED <<toSend, received, broke, fetchQ, workerVars, workQ, seqVars, seqQ>>

(* worker_handle.await; seq_handle.await.  seq_rx is still alive here.     *)
MainJoin ==
  /\ mainPc = "joining"
  /\ AllExited
  /\ seqPc = "done"
  /\ mainPc' = "joined"
  /\ UNCHANGED <<toSend, received, broke, fetchQ, workerVars, workQ, seqVars, seqQ>>

-----------------------------------------------------------------------------
(* A worker: takes a number under the receiver's mutex, fetches and        *)
(* decodes the block, sends it on.                                         *)

(* Bug variant: the number is read but not removed.                        *)
WorkerPeek(w) ==
  /\ state[w] = "idle"
  /\ fetchQ # <<>>
  /\ state' = [state EXCEPT ![w] = "fetching"]
  /\ num' = [num EXCEPT ![w] = Head(fetchQ)]
  /\ UNCHANGED <<mainVars, fetchQ, workQ, seqVars, seqQ>>

WorkerTake(w) ==
  /\ state[w] = "idle"
  /\ fetchQ # <<>>
  /\ state' = [state EXCEPT ![w] = "fetching"]
  /\ num' = [num EXCEPT ![w] = Head(fetchQ)]
  /\ fetchQ' = Tail(fetchQ)
  /\ UNCHANGED <<mainVars, workQ, seqVars, seqQ>>

WorkerFetched(w) ==
  /\ state[w] = "fetching"
  /\ state' = [state EXCEPT ![w] = "sending"]
  /\ UNCHANGED <<mainVars, fetchQ, num, workQ, seqVars, seqQ>>

(* The error is logged and the number given up.                            *)
WorkerFails(w) ==
  /\ state[w] = "fetching"
  /\ num[w] \in MayFail
  /\ state' = [state EXCEPT ![w] = "idle"]
  /\ num' = [num EXCEPT ![w] = 0]
  /\ UNCHANGED <<mainVars, fetchQ, workQ, seqVars, seqQ>>

WorkerSend(w) ==
  /\ state[w] = "sending"
  /\ HasRoom(workQ)
  /\ workQ' = Append(workQ, num[w])
  /\ state' = [state EXCEPT ![w] = "idle"]
  /\ num' = [num EXCEPT ![w] = 0]
  /\ UNCHANGED <<mainVars, fetchQ, seqVars, seqQ>>

(* main has dropped its sender and the queue is empty.                     *)
WorkerExit(w) ==
  /\ state[w] = "idle"
  /\ fetchQ = <<>>
  /\ mainPc # "sending"
  /\ state' = [state EXCEPT ![w] = "exited"]
  /\ UNCHANGED <<mainVars, fetchQ, num, workQ, seqVars, seqQ>>

-----------------------------------------------------------------------------
(* The sequencer.                                                          *)

SeqReceive ==
  /\ seqPc = "waiting"
  /\ workQ # <<>>
  /\ buffer' = buffer \cup {Head(workQ)}
  /\ workQ' = Tail(workQ)
  /\ seqPc' = "draining"
  /\ UNCHANGED <<mainVars, fetchQ, workerVars, expected, seqQ>>

SeqClosed ==
  /\ seqPc = "waiting"
  /\ workQ = <<>>
  /\ AllExited
  /\ seqPc' = "final"
  /\ UNCHANGED <<mainVars, fetchQ, workerVars, workQ, buffer, expected, seqQ>>

(* Bug variant: the lowest buffered number is released, expected or not.   *)
ReleasableLowest(k) == k \in buffer /\ \A j \in buffer : k <= j

(* buffer.remove(expected)                                                 *)
Releasable(k) == k \in buffer /\ k = expected

(* drain_buffer: one turn of its loop, waiting while the channel is full.  *)
SeqRelease ==
  /\ seqPc \in {"draining", "final"}
  /\ HasRoom(seqQ)
  /\ \E k \in buffer :
       /\ Releasable(k)
       /\ buffer' = buffer \ {k}
       /\ seqQ' = Append(seqQ, k)
       /\ expected' = k + 1
  /\ UNCHANGED <<mainVars, fetchQ, workerVars, workQ, seqPc>>

SeqDrained ==
  /\ seqPc \in {"draining", "final"}
  /\ \A k \in buffer : ~Releasable(k)
  /\ seqPc' = IF seqPc = "draining" THEN "waiting" ELSE "done"
  /\ UNCHANGED <<mainVars, fetchQ, workerVars, workQ, buffer, expected, seqQ>>

-----------------------------------------------------------------------------
MainStep == MainSend \/ MainDropSender \/ MainReceive \/ MainEnd \/ MainJoin

WorkerStep(w) ==
  WorkerTake(w) \/ WorkerFetched(w) \/ WorkerFails(w) \/ WorkerSend(w) \/ WorkerExit(w)

SeqStep == SeqReceive \/ SeqClosed \/ SeqRelease \/ SeqDrained

Next == MainStep \/ SeqStep \/ \E w \in Worker : WorkerStep(w)

Spec == Init /\ [][Next]_vars

(* Fairness: tokio runs every task that can go on, and a fetch ends.  The  *)
(* mutex around the workers' receiver and the channels are FIFO, so a      *)
(* worker that can take a number for ever does take one; weak fairness     *)
(* suffices because every guard but the workers' own stays true until its  *)
(* task acts.                                                              *)
Fairness ==
  /\ WF_vars(MainStep)
  /\ WF_vars(SeqStep)
  /\ \A w \in Worker : WF_vars(WorkerStep(w))

FairSpec == Spec /\ Fairness

-----------------------------------------------------------------------------
TypeOK ==
  /\ mainPc \in {"sending", "receiving", "joining", "joined"}
  /\ toSend \in 1..(Last + 1)
  /\ received \in 0..Last
  /\ broke \in BOOLEAN
  /\ fetchQ \in Seq(1..Last) /\ Len(fetchQ) <= FetchQueueDepth
  /\ state \in [Worker -> {"idle", "fetching", "sending", "exited"}]
  /\ num \in [Worker -> 0..Last]
  /\ workQ \in Seq(1..Last) /\ Len(workQ) <= FetchQueueDepth
  /\ seqPc \in {"waiting", "draining", "final", "done"}
  /\ buffer \subseteq 1..Last
  /\ expected \in 1..(Last + 1)
  /\ seqQ \in Seq(1..Last) /\ Len(seqQ) <= FetchQueueDepth

(* SPEC phase 9, "strictly ascending contiguous order despite out-of-order *)
(* completion": whatever order the workers finish in, the queue to main    *)
(* holds exactly the numbers after those already received, up to the one   *)
(* the sequencer waits for.                                                *)
InOrder ==
  /\ expected = received + Len(seqQ) + 1
  /\ \A i \in 1..Len(seqQ) : seqQ[i] = received + i

(* Every number is in one place only: not sent yet, queued, with a worker, *)
(* in the reorder buffer, or released.  No number is fetched twice, none   *)
(* overtakes `expected' unseen.                                            *)
OnePlace ==
  /\ \A i, j \in 1..Len(fetchQ) : fetchQ[i] = fetchQ[j] => i = j
  /\ \A i, j \in 1..Len(workQ) : workQ[i] = workQ[j] => i = j
  /\ \A w \in Worker : num[w] # 0 =>
       /\ \A v \in Worker : num[v] = num[w] => v = w
       /\ \A i \in 1..Len(fetchQ) : num[w] < fetchQ[i]
       /\ \A i \in 1..Len(workQ) : num[w] # workQ[i]
       /\ num[w] \notin buffer /\ num[w] >= expected
  /\ \A i \in 1..Len(workQ) : workQ[i] \notin buffer /\ workQ[i] >= expected
  /\ \A k \in buffer : k >= expected

(* The pipeline keeps the contract main is written against.                *)
Phase ==
  IF mainPc \in {"sending", "receiving"} THEN "open"
  ELSE IF mainPc = "joined" THEN "joined"
  ELSE IF broke THEN "left" ELSE "ended"

Abstract ==
  INSTANCE Delivery WITH
    Depth <- FetchQueueDepth, next <- received + 1, phase <- Phase

RefinesDelivery == Abstract!Spec

(* Unless main breaks off, a batch always ends: no send of the three       *)
(* stages waits for ever, though main receives nothing before everything   *)
(* is sent, and also when workers fail.                                    *)
Completes == <>(mainPc = "joined" \/ broke)

(* If main breaks off when no more numbers are outstanding than the channel*)
(* can hold, the join ends.                                                *)
JoinsWhenRestFits ==
  (broke /\ Last - received <= FetchQueueDepth) ~> (mainPc = "joined")

(* SPEC phase 9: "Ctrl-C drains in-flight work and commits what is         *)
(* complete": breaking off always comes to an end.                         *)
JoinsAlways == broke ~> (mainPc = "joined")
=============================================================================
