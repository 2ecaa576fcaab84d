--------------------------- MODULE PipelineProofs ---------------------------
(***************************************************************************)
(* Proofs about module Pipeline, for every number of workers, channel      *)
(* capacity, batch length and set of failing numbers.                      *)
(***************************************************************************)
EXTENDS Pipeline, TLAPS

LEMMA LastFacts == Last \in Nat \ {0}
  BY PipelineAssumption DEF Last, BatchLimit

(* A worker holds a number exactly while it fetches or sends.              *)
Busy == \A w \in Worker : num[w] # 0 <=> state[w] \in {"fetching", "sending"}

TypeInv == TypeOK /\ Busy

LEMMA QueueFacts ==
  ASSUME NEW S, NEW q \in Seq(S), q # <<>>
  PROVE  /\ Len(q) \in Nat \ {0}
         /\ Head(q) = q[1] /\ Head(q) \in S
         /\ Tail(q) \in Seq(S) /\ Len(Tail(q)) = Len(q) - 1
         /\ \A i \in 1..Len(Tail(q)) : Tail(q)[i] = q[i + 1]
  OBVIOUS

LEMMA TypeInit == Init => TypeInv
<1> SUFFICES ASSUME Init
             PROVE  TypeInv
  OBVIOUS
<1>1. broke \in BOOLEAN
  BY Zenon DEF Init
<1>2. /\ state \in [Worker -> {"idle", "fetching", "sending", "exited"}]
      /\ num \in [Worker -> 0..Last]
      /\ Busy
  BY LastFacts DEF Init, Busy
<1>3. /\ fetchQ \in Seq(1..Last) /\ Len(fetchQ) <= FetchQueueDepth
      /\ workQ \in Seq(1..Last) /\ Len(workQ) <= FetchQueueDepth
      /\ seqQ \in Seq(1..Last) /\ Len(seqQ) <= FetchQueueDepth
  BY PipelineAssumption DEF Init
<1>4. toSend \in 1..(Last + 1) /\ received \in 0..Last /\ expected \in 1..(Last + 1)
  BY LastFacts DEF Init
<1> QED
  BY <1>1, <1>2, <1>3, <1>4 DEF Init, TypeInv, TypeOK

LEMMA TypeNext == TypeInv /\ [Next]_vars => TypeInv'
<1> SUFFICES ASSUME TypeInv, [Next]_vars
             PROVE  TypeInv'
  OBVIOUS
<1> USE PipelineAssumption, LastFacts
    DEF TypeInv, TypeOK, Busy, mainVars, workerVars, seqVars, HasRoom
<1>1. CASE MainSend
  BY <1>1 DEF MainSend
<1>2. CASE MainDropSender
  BY <1>2 DEF MainDropSender
<1>3. CASE MainReceive
  <2>1. /\ Head(seqQ) \in 1..Last
        /\ Tail(seqQ) \in Seq(1..Last) /\ Len(Tail(seqQ)) <= FetchQueueDepth
    BY <1>3, QueueFacts DEF MainReceive
  <2>2. broke' \in BOOLEAN
    BY <1>3, Zenon DEF MainReceive
  <2>3. mainPc' \in {"receiving", "joining"}
    BY <1>3 DEF MainReceive
  <2> QED
    BY <1>3, <2>1, <2>2, <2>3 DEF MainReceive
<1>4. CASE MainEnd
  BY <1>4 DEF MainEnd
<1>5. CASE MainJoin
  BY <1>5 DEF MainJoin
<1>6. ASSUME NEW w \in Worker, WorkerStep(w)
      PROVE  TypeInv'
  <2>1. CASE WorkerTake(w)
    <3>1. /\ Head(fetchQ) \in 1..Last
          /\ Tail(fetchQ) \in Seq(1..Last) /\ Len(Tail(fetchQ)) <= FetchQueueDepth
      BY <2>1, QueueFacts DEF WorkerTake
    <3> QED
      BY <2>1, <3>1 DEF WorkerTake
  <2>2. CASE WorkerFetched(w)
    BY <2>2 DEF WorkerFetched
  <2>3. CASE WorkerFails(w)
    BY <2>3 DEF WorkerFails
  <2>4. CASE WorkerSend(w)
    BY <2>4 DEF WorkerSend
  <2>5. CASE WorkerExit(w)
    BY <2>5 DEF WorkerExit
  <2> QED
    BY <1>6, <2>1, <2>2, <2>3, <2>4, <2>5 DEF WorkerStep
<1>7. CASE SeqReceive
  <2>1. /\ Head(workQ) \in 1..Last
        /\ Tail(workQ) \in Seq(1..Last) /\ Len(Tail(workQ)) <= FetchQueueDepth
    BY <1>7, QueueFacts DEF SeqReceive
  <2>2. buffer' \subseteq 1..Last
    BY <1>7, <2>1 DEF SeqReceive
  <2> QED
    BY <1>7, <2>1, <2>2 DEF SeqReceive
<1>8. CASE SeqClosed
  BY <1>8 DEF SeqClosed
<1>9. CASE SeqRelease
  BY <1>9 DEF SeqRelease, Releasable
<1>10. CASE SeqDrained
  BY <1>10 DEF SeqDrained
<1>11. CASE UNCHANGED vars
  BY <1>11 DEF vars
<1> QED
  BY <1>1, <1>2, <1>3, <1>4, <1>5, <1>6, <1>7, <1>8, <1>9, <1>10, <1>11
     DEF Next, MainStep, SeqStep

(* Queues never exceed their capacity, numbers stay within the batch.      *)
THEOREM TypeCorrect == Spec => []TypeOK
<1>1. Spec => []TypeInv
  BY TypeInit, TypeNext, PTL DEF Spec
<1> QED
  BY <1>1, PTL DEF TypeInv

-----------------------------------------------------------------------------
(* In-order delivery and the contract of module Delivery.  The invariant   *)
(* accounts for every number the sequencer has not released: it is still   *)
(* to be sent, in a queue, with a worker, in the reorder buffer, or one    *)
(* whose fetch may have failed.                                            *)
In(k, q) == \E i \in 1..Len(q) : q[i] = k

Accounted ==
  \A k \in expected..Last :
    \/ k >= toSend \/ In(k, fetchQ) \/ (\E w \in Worker : num[w] = k)
    \/ In(k, workQ) \/ k \in buffer \/ k \in MayFail

(* How far each stage is when the one before it has ended.                 *)
Stages ==
  /\ mainPc # "sending" => toSend > Last
  /\ \A w \in Worker : state[w] = "exited" => mainPc # "sending" /\ fetchQ = <<>>
  /\ seqPc \in {"final", "done"} => AllExited /\ workQ = <<>>
  /\ seqPc = "done" => expected \notin buffer
  /\ broke => mainPc \in {"joining", "joined"}
  /\ mainPc = "joining" /\ ~broke => seqPc = "done"

IndInv == TypeInv /\ InOrder /\ Accounted /\ Stages

LEMMA IndInvInit == Init => IndInv
<1> SUFFICES ASSUME Init
             PROVE  IndInv
  OBVIOUS
<1>1. TypeInv
  BY TypeInit
<1>2. InOrder
  BY DEF Init, InOrder
<1>3. Accounted
  BY LastFacts DEF Init, Accounted
<1>4. ~broke
  BY Zenon DEF Init
<1>5. Stages
  BY <1>4 DEF Init, Stages
<1> QED
  BY <1>1, <1>2, <1>3, <1>5 DEF IndInv

(* Appending and removing keep all other elements of a queue.              *)
LEMMA InAppend ==
  ASSUME NEW S, NEW q \in Seq(S), NEW x \in S
  PROVE  /\ In(x, Append(q, x))
         /\ \A k : In(k, q) => In(k, Append(q, x))
<1>1. Append(q, x) \in Seq(S) /\ Len(Append(q, x)) = Len(q) + 1 /\ Len(q) \in Nat
  OBVIOUS
<1>2. Append(q, x)[Len(q) + 1] = x /\ \A i \in 1..Len(q) : Append(q, x)[i] = q[i]
  OBVIOUS
<1>3. In(x, Append(q, x))
  BY <1>1, <1>2 DEF In
<1>4. ASSUME NEW k, In(k, q)
      PROVE  In(k, Append(q, x))
  <2>1. PICK i \in 1..Len(q) : q[i] = k
    BY <1>4 DEF In
  <2>2. i \in 1..Len(Append(q, x)) /\ Append(q, x)[i] = k
    BY <1>1, <1>2, <2>1
  <2> QED
    BY <2>2 DEF In
<1> QED
  BY <1>3, <1>4

LEMMA InTail ==
  ASSUME NEW S, NEW q \in Seq(S), q # <<>>, NEW k, In(k, q), k # Head(q)
  PROVE  In(k, Tail(q))
<1>1. PICK i \in 1..Len(q) : q[i] = k
  BY DEF In
<1>2. i # 1 /\ Len(q) \in Nat
  BY <1>1, QueueFacts
<1>3. i - 1 \in 1..Len(Tail(q)) /\ Tail(q)[i - 1] = k
  BY <1>1, <1>2, QueueFacts
<1> QED
  BY <1>3 DEF In

LEMMA InOrderNext == TypeInv /\ InOrder /\ [Next]_vars => InOrder'
<1> SUFFICES ASSUME TypeInv, InOrder, [Next]_vars
             PROVE  InOrder'
  OBVIOUS
<1> USE PipelineAssumption, LastFacts
    DEF TypeInv, TypeOK, InOrder, mainVars, workerVars, seqVars
<1>1. CASE MainReceive
  <2>1. /\ Head(seqQ) = received + 1
        /\ Len(Tail(seqQ)) = Len(seqQ) - 1 /\ Len(seqQ) \in Nat \ {0}
        /\ \A i \in 1..Len(Tail(seqQ)) : Tail(seqQ)[i] = seqQ[i + 1]
    BY <1>1, QueueFacts DEF MainReceive
  <2> QED
    BY <1>1, <2>1 DEF MainReceive
<1>2. CASE SeqRelease
  <2>1. /\ seqQ' = Append(seqQ, expected)
        /\ expected' = expected + 1
        /\ received' = received
    BY <1>2 DEF SeqRelease, Releasable
  <2>2. /\ Len(seqQ') = Len(seqQ) + 1 /\ Len(seqQ) \in Nat
        /\ \A i \in 1..Len(seqQ) : seqQ'[i] = seqQ[i]
        /\ seqQ'[Len(seqQ) + 1] = expected
    BY <2>1
  <2>3. ASSUME NEW i \in 1..Len(seqQ')
        PROVE  seqQ'[i] = received + i
    <3>1. i \in 1..Len(seqQ) \/ i = Len(seqQ) + 1
      BY <2>2
    <3>2. CASE i \in 1..Len(seqQ)
      BY <2>2, <3>2
    <3>3. CASE i = Len(seqQ) + 1
      <4>1. expected = received + i
        BY <2>2, <3>3
      <4> QED
        BY <2>2, <3>3, <4>1
    <3> QED
      BY <3>1, <3>2, <3>3
  <2>4. expected' = received' + Len(seqQ') + 1
    BY <2>1, <2>2
  <2> QED
    BY <2>1, <2>3, <2>4
<1>3. CASE UNCHANGED <<received, seqQ, expected>>
  BY <1>3
<1> QED
  BY <1>1, <1>2, <1>3
     DEF Next, MainStep, SeqStep, WorkerStep, vars, MainSend, MainDropSender,
         MainEnd, MainJoin, WorkerTake, WorkerFetched, WorkerFails, WorkerSend,
         WorkerExit, SeqReceive, SeqClosed, SeqDrained

(* The sequencer releases in order whatever order the workers finish in.   *)
THEOREM DeliveredInOrder == Spec => []InOrder
<1>1. Init => InOrder
  BY DEF Init, InOrder
<1> QED
  BY <1>1, TypeInit, TypeNext, InOrderNext, PTL DEF Spec

LEMMA AccountedNext == TypeInv /\ Accounted /\ [Next]_vars => Accounted'
<1> SUFFICES ASSUME TypeInv, Accounted, [Next]_vars,
                    NEW k \in expected'..Last,
                    ~(k >= toSend'), k \notin MayFail
             PROVE  \/ In(k, fetchQ') \/ (\E w \in Worker : num'[w] = k)
                    \/ In(k, workQ') \/ k \in buffer'
  BY DEF Accounted
<1> USE PipelineAssumption, LastFacts
    DEF TypeInv, TypeOK, Busy, Accounted, mainVars, workerVars, seqVars
<1>1. CASE MainSend
  <2>1. toSend \in 1..Last /\ fetchQ' = Append(fetchQ, toSend)
    BY <1>1 DEF MainSend
  <2>2. In(toSend, fetchQ') /\ \A j : In(j, fetchQ) => In(j, fetchQ')
    <3>1. fetchQ \in Seq(1..Last)
      OBVIOUS
    <3> QED
      BY <2>1, <3>1, InAppend, Zenon
  <2>3. k = toSend \/ ~(k >= toSend)
    BY <1>1 DEF MainSend
  <2>4. CASE k = toSend
    BY <2>2, <2>4
  <2>5. CASE ~(k >= toSend)
    <3>1. k \in expected..Last /\ UNCHANGED <<num, workQ, buffer>>
      BY <1>1 DEF MainSend
    <3> QED
      BY <2>2, <2>5, <3>1
  <2> QED
    BY <2>3, <2>4, <2>5
<1>2. CASE UNCHANGED <<toSend, fetchQ, num, workQ, buffer, expected>>
  BY <1>2
<1>3. ASSUME NEW w \in Worker, WorkerTake(w)
      PROVE  In(k, fetchQ') \/ (\E v \in Worker : num'[v] = k) \/ In(k, workQ) \/ k \in buffer
  <2>1. num[w] = 0 /\ num'[w] = Head(fetchQ) /\ k # 0
    <3>1. num[w] = 0
      BY <1>3 DEF WorkerTake
    <3>2. num'[w] = Head(fetchQ)
      BY <1>3 DEF WorkerTake
    <3>3. expected' = expected
      BY <1>3 DEF WorkerTake
    <3> QED
      BY <3>1, <3>2, <3>3
  <2>2. CASE In(k, fetchQ) /\ k # Head(fetchQ)
    BY <1>3, <2>2, InTail DEF WorkerTake
  <2>3. CASE k = Head(fetchQ)
    BY <2>1, <2>3
  <2>4. ASSUME NEW v \in Worker, num[v] = k
        PROVE  num'[v] = k
    BY <1>3, <2>1, <2>4 DEF WorkerTake
  <2>5. k \in expected..Last /\ UNCHANGED <<toSend, workQ, buffer>>
    BY <1>3 DEF WorkerTake
  <2> QED
    BY <2>2, <2>3, <2>4, <2>5
<1>4. ASSUME NEW w \in Worker, WorkerFails(w)
      PROVE  In(k, fetchQ') \/ (\E v \in Worker : num'[v] = k) \/ In(k, workQ') \/ k \in buffer'
  <2>1. ASSUME NEW v \in Worker, num[v] = k
        PROVE  num'[v] = k
    BY <1>4, <2>1 DEF WorkerFails
  <2> QED
    BY <1>4, <2>1 DEF WorkerFails
<1>5. ASSUME NEW w \in Worker, WorkerSend(w)
      PROVE  In(k, fetchQ') \/ (\E v \in Worker : num'[v] = k) \/ In(k, workQ') \/ k \in buffer'
  <2>1. num[w] \in 1..Last
    BY <1>5 DEF WorkerSend
  <2>2. In(num[w], workQ') /\ \A j : In(j, workQ) => In(j, workQ')
    <3>1. workQ \in Seq(1..Last) /\ workQ' = Append(workQ, num[w])
      BY <1>5 DEF WorkerSend
    <3> QED
      BY <2>1, <3>1, InAppend, Zenon
  <2>3. ASSUME NEW v \in Worker, num[v] = k, v # w
        PROVE  num'[v] = k
    BY <1>5, <2>3 DEF WorkerSend
  <2> QED
    BY <1>5, <2>2, <2>3 DEF WorkerSend
<1>6. CASE SeqReceive
  <2>1. CASE In(k, workQ) /\ k # Head(workQ)
    BY <1>6, <2>1, InTail DEF SeqReceive
  <2>2. CASE k = Head(workQ)
    BY <1>6, <2>2 DEF SeqReceive
  <2> QED
    BY <1>6, <2>1, <2>2 DEF SeqReceive
<1>7. CASE SeqRelease
  <2>1. expected' = expected + 1 /\ buffer' = buffer \ {expected}
    BY <1>7 DEF SeqRelease, Releasable
  <2> QED
    BY <1>7, <2>1 DEF SeqRelease
<1> QED
  BY <1>1, <1>2, <1>3, <1>4, <1>5, <1>6, <1>7
     DEF Next, MainStep, SeqStep, WorkerStep, vars, MainDropSender, MainReceive,
         MainEnd, MainJoin, WorkerTake, WorkerFetched, WorkerExit, SeqClosed,
         SeqDrained

LEMMA StagesNext == TypeInv /\ Stages /\ [Next]_vars => Stages'
<1> SUFFICES ASSUME TypeInv, Stages, [Next]_vars
             PROVE  Stages'
  OBVIOUS
<1> USE PipelineAssumption, LastFacts
    DEF TypeInv, TypeOK, Stages, AllExited, mainVars, workerVars, seqVars
<1>1. CASE MainSend
  BY <1>1 DEF MainSend
<1>2. CASE MainDropSender
  BY <1>2 DEF MainDropSender
<1>3. CASE MainReceive
  <2>1. ~broke
    BY <1>3, Zenon DEF MainReceive
  <2>2. broke' => mainPc' = "joining"
    BY <1>3, <2>1, Zenon DEF MainReceive
  <2>3. mainPc' = "joining" => broke'
    BY <1>3 DEF MainReceive
  <2>4. mainPc' \in {"receiving", "joining"}
    BY <1>3 DEF MainReceive
  <2> QED
    BY <1>3, <2>2, <2>3, <2>4 DEF MainReceive
<1>4. CASE MainEnd
  BY <1>4 DEF MainEnd
<1>5. CASE MainJoin
  BY <1>5 DEF MainJoin
<1>6. ASSUME NEW w \in Worker, WorkerStep(w)
      PROVE  Stages'
  <2>1. CASE WorkerTake(w)
    BY <2>1 DEF WorkerTake
  <2>2. CASE WorkerFetched(w)
    BY <2>2 DEF WorkerFetched
  <2>3. CASE WorkerFails(w)
    BY <2>3 DEF WorkerFails
  <2>4. CASE WorkerSend(w)
    BY <2>4 DEF WorkerSend
  <2>5. CASE WorkerExit(w)
    BY <2>5 DEF WorkerExit
  <2> QED
    BY <1>6, <2>1, <2>2, <2>3, <2>4, <2>5 DEF WorkerStep
<1>7. CASE SeqReceive
  BY <1>7 DEF SeqReceive
<1>8. CASE SeqClosed
  BY <1>8 DEF SeqClosed
<1>9. CASE SeqRelease
  BY <1>9 DEF SeqRelease, Releasable
<1>10. CASE SeqDrained
  BY <1>10 DEF SeqDrained, Releasable
<1>11. CASE UNCHANGED vars
  BY <1>11 DEF vars
<1> QED
  BY <1>1, <1>2, <1>3, <1>4, <1>5, <1>6, <1>7, <1>8, <1>9, <1>10, <1>11
     DEF Next, MainStep, SeqStep

LEMMA IndInvNext == IndInv /\ [Next]_vars => IndInv'
  BY TypeNext, InOrderNext, AccountedNext, StagesNext DEF IndInv

(* When the sequencer has ended, it stands behind the last number or in    *)
(* front of one whose worker failed.                                       *)
LEMMA SequencerEnd ==
  ASSUME IndInv, seqPc = "done"
  PROVE  expected = Last + 1 \/ expected \in MayFail
<1> USE LastFacts DEF IndInv, TypeInv, TypeOK, Stages
<1>1. AllExited /\ workQ = <<>> /\ expected \notin buffer
  OBVIOUS
<1>2. fetchQ = <<>> /\ toSend > Last
  BY <1>1, PipelineAssumption DEF AllExited
<1>3. \A w \in Worker : num[w] = 0
  BY <1>1 DEF AllExited, Busy
<1>4. ~In(expected, fetchQ) /\ ~In(expected, workQ)
  BY <1>1, <1>2 DEF In
<1>5. CASE expected \in expected..Last
  <2>1. expected # 0 /\ ~(expected >= toSend)
    BY <1>2, <1>5
  <2> QED
    BY <1>1, <1>3, <1>4, <1>5, <2>1 DEF Accounted
<1>6. CASE expected \notin expected..Last
  BY <1>6
<1> QED
  BY <1>5, <1>6

LEMMA DeliveryInit == Init => Abstract!Init
  BY DEF Init, Abstract!Init, Phase

LEMMA DeliveryStep ==
  ASSUME IndInv, [Next]_vars
  PROVE  [Abstract!Next]_<<received + 1, Phase>>
<1> USE LastFacts DEF IndInv, TypeInv, TypeOK
<1>1. CASE MainReceive
  <2>1. Head(seqQ) = received + 1 /\ received + 1 <= Last
    <3>1. Head(seqQ) \in 1..Last /\ Head(seqQ) = seqQ[1] /\ 1 \in 1..Len(seqQ)
      BY <1>1, QueueFacts DEF MainReceive
    <3> QED
      BY <3>1 DEF InOrder
  <2>2. received' = received + 1 /\ Phase = "open"
    BY <1>1, <2>1 DEF MainReceive, Phase
  <2>3. CASE UNCHANGED <<mainPc, broke>>
    <3>1. Phase' = Phase
      BY <2>3 DEF Phase
    <3> QED
      BY <2>1, <2>2, <3>1 DEF Abstract!Next, Abstract!Deliver
  <2>4. CASE mainPc' = "joining" /\ broke' = TRUE
    <3>1. Phase' = "left"
      BY <2>4 DEF Phase
    <3> QED
      BY <2>1, <2>2, <3>1 DEF Abstract!Next, Abstract!Leave
  <2> QED
    BY <1>1, <2>3, <2>4 DEF MainReceive
<1>2. CASE MainEnd
  <2>1. received + 1 = expected
    BY <1>2 DEF MainEnd, InOrder
  <2>2. received + 1 > Last \/ received + 1 \in MayFail
    BY <1>2, <2>1, SequencerEnd DEF MainEnd
  <2>3. ~broke /\ broke' = broke
    BY <1>2 DEF MainEnd, Stages
  <2>4. Phase = "open" /\ Phase' = "ended" /\ received' = received
    BY <1>2, <2>3 DEF MainEnd, Phase
  <2> QED
    BY <2>2, <2>4 DEF Abstract!Next, Abstract!End
<1>3. CASE MainJoin
  <2>1. Phase \in {"ended", "left"} /\ Phase' = "joined" /\ received' = received
    BY <1>3 DEF MainJoin, Phase
  <2>2. /\ Len(seqQ) \in Abstract!CountsLeft
        /\ Len(seqQ) <= FetchQueueDepth
    <3>1. Len(seqQ) \in Nat /\ expected = received + Len(seqQ) + 1
      BY DEF InOrder
    <3>2. expected = Last + 1 \/ expected \in MayFail
      BY <1>3, SequencerEnd DEF MainJoin
    <3>3. received + 1 + Len(seqQ) = expected
      BY <3>1
    <3>4. Len(seqQ) \in 0..(Last - (received + 1) + 1)
      BY <3>1
    <3>5. Len(seqQ) = Last - (received + 1) + 1 \/ received + 1 + Len(seqQ) \in MayFail
      <4>1. CASE expected = Last + 1
        BY <3>1, <4>1
      <4>2. CASE expected \in MayFail
        BY <3>3, <4>2, Zenon
      <4> QED
        BY <3>2, <4>1, <4>2
    <3> QED
      BY <3>4, <3>5 DEF Abstract!CountsLeft
  <2> QED
    BY <2>1, <2>2 DEF Abstract!Next, Abstract!Join
<1>4. CASE UNCHANGED <<received, Phase>>
  BY <1>4
<1>5. CASE MainDropSender
  <2>1. UNCHANGED <<received, Phase>>
    BY <1>5 DEF MainDropSender, Phase
  <2> QED
    BY <2>1, <1>4
<1>6. CASE UNCHANGED <<received, mainPc, broke>>
  <2>1. UNCHANGED <<received, Phase>>
    BY <1>6 DEF Phase
  <2> QED
    BY <2>1, <1>4
<1> QED
  BY <1>1, <1>2, <1>3, <1>5, <1>6
     DEF Next, MainStep, SeqStep, WorkerStep, vars, mainVars, MainSend,
         WorkerTake, WorkerFetched, WorkerFails, WorkerSend, WorkerExit,
         SeqReceive, SeqClosed, SeqRelease, SeqDrained

(* The pipeline keeps the contract of module Delivery: main receives the   *)
(* numbers of the batch in order, the channel closes early only in front   *)
(* of a failed number, and after a break the join ends only if the channel *)
(* holds all that was released.                                            *)
THEOREM PipelineImplementsDelivery == Spec => RefinesDelivery
<1>1. Spec => []IndInv
  BY IndInvInit, IndInvNext, PTL DEF Spec
<1>2. IndInv /\ [Next]_vars => [Abstract!Next]_<<received + 1, Phase>>
  BY DeliveryStep
<1> QED
  BY <1>1, <1>2, DeliveryInit, PTL DEF Spec, RefinesDelivery, Abstract!Spec
-----------------------------------------------------------------------------
(* Every number is in one place.  OnePlace does not say why a number that  *)
(* leaves the first queue cannot be further down the pipeline already: main*)
(* sends in ascending order, so what has left the queue is below all that  *)
(* is still in it, and that is below what main sends next.                 *)
Ascending ==
  /\ expected <= toSend
  /\ \A k \in buffer : k < toSend
  /\ \A i \in 1..Len(workQ) : workQ[i] < toSend
  /\ \A w \in Worker : num[w] < toSend
  /\ \A i \in 1..Len(fetchQ) :
       /\ expected <= fetchQ[i] /\ fetchQ[i] < toSend
       /\ \A j \in 1..Len(fetchQ) : j < i => fetchQ[j] < fetchQ[i]
       /\ \A j \in 1..Len(workQ) : workQ[j] < fetchQ[i]
       /\ \A k \in buffer : k < fetchQ[i]

PlaceInv == TypeInv /\ Ascending /\ OnePlace

LEMMA AppendFacts ==
  ASSUME NEW S, NEW q \in Seq(S), NEW x \in S
  PROVE  /\ Len(q) \in Nat /\ Len(Append(q, x)) = Len(q) + 1
         /\ \A i \in 1..Len(Append(q, x)) :
              \/ i \in 1..Len(q) /\ Append(q, x)[i] = q[i]
              \/ i = Len(q) + 1 /\ Append(q, x)[i] = x
  OBVIOUS

(* All that is compared below is a number.                                 *)
LEMMA NumberFacts ==
  ASSUME PlaceInv
  PROVE  /\ Last \in Int /\ toSend \in Nat \ {0} /\ expected \in Int /\ buffer \subseteq Int
         /\ num \in [Worker -> Int]
         /\ Len(fetchQ) \in Nat /\ \A i \in 1..Len(fetchQ) : fetchQ[i] \in Int
         /\ Len(workQ) \in Nat /\ \A i \in 1..Len(workQ) : workQ[i] \in Int
<1> USE LastFacts DEF PlaceInv, TypeInv, TypeOK
<1>1. \A i \in 1..Len(fetchQ) : fetchQ[i] \in 1..Last
  OBVIOUS
<1>2. \A i \in 1..Len(workQ) : workQ[i] \in 1..Last
  OBVIOUS
<1> QED
  BY <1>1, <1>2

LEMMA PlaceInit == Init => PlaceInv
<1> SUFFICES ASSUME Init
             PROVE  PlaceInv
  OBVIOUS
<1>1. TypeInv
  BY TypeInit
<1>2. Ascending /\ OnePlace
  BY DEF Init, Ascending, OnePlace
<1> QED
  BY <1>1, <1>2 DEF PlaceInv

(* A worker takes the lowest number of the queue, which nobody has yet.    *)
LEMMA TakeKeepsPlaces ==
  ASSUME PlaceInv, NEW w \in Worker, WorkerTake(w)
  PROVE  Ascending' /\ OnePlace'
<1> USE NumberFacts DEF PlaceInv
<1>1. /\ Len(fetchQ) \in Nat \ {0}
      /\ Head(fetchQ) = fetchQ[1] /\ fetchQ[1] \in 1..Last
      /\ fetchQ' = Tail(fetchQ)
      /\ Len(fetchQ') = Len(fetchQ) - 1
      /\ \A i \in 1..Len(fetchQ') : fetchQ'[i] = fetchQ[i + 1]
  BY QueueFacts DEF WorkerTake, TypeInv, TypeOK
<1>2. /\ num[w] = 0
      /\ num' = [num EXCEPT ![w] = fetchQ[1]]
      /\ UNCHANGED <<toSend, workQ, buffer, expected>>
  BY <1>1 DEF WorkerTake, TypeInv, TypeOK, Busy, mainVars, seqVars
<1>3. \A i \in 1..Len(fetchQ') : i + 1 \in 1..Len(fetchQ) /\ fetchQ[1] < fetchQ'[i]
  BY <1>1 DEF Ascending
<1>4. /\ 1 \in 1..Len(fetchQ)
      /\ expected <= fetchQ[1] /\ fetchQ[1] < toSend
      /\ \A j \in 1..Len(workQ) : workQ[j] < fetchQ[1]
      /\ \A k \in buffer : k < fetchQ[1]
      /\ \A v \in Worker : num[v] # 0 => num[v] < fetchQ[1]
  BY <1>1 DEF Ascending, OnePlace
<1>5. Ascending'
  BY <1>1, <1>2, <1>3, <1>4 DEF Ascending
<1>6. \A i, j \in 1..Len(fetchQ') : fetchQ'[i] = fetchQ'[j] => i = j
  BY <1>1, <1>3 DEF OnePlace
<1>7. ASSUME NEW v \in Worker, num'[v] # 0
      PROVE  /\ \A u \in Worker : num'[u] = num'[v] => u = v
             /\ \A i \in 1..Len(fetchQ') : num'[v] < fetchQ'[i]
             /\ \A i \in 1..Len(workQ') : num'[v] # workQ'[i]
             /\ num'[v] \notin buffer' /\ num'[v] >= expected'
  <2>1. CASE v = w
    <3>1. num'[v] = fetchQ[1] /\ \A u \in Worker : u # w => num'[u] = num[u]
      BY <1>2, <2>1
    <3>2. ASSUME NEW u \in Worker, num'[u] = num'[v]
          PROVE  u = v
      BY <1>1, <1>4, <2>1, <3>1, <3>2
    <3>3. /\ \A i \in 1..Len(fetchQ') : num'[v] < fetchQ'[i]
          /\ \A i \in 1..Len(workQ') : num'[v] # workQ'[i]
          /\ num'[v] \notin buffer' /\ num'[v] >= expected'
      BY <1>2, <1>3, <1>4, <3>1
    <3> QED
      BY <3>2, <3>3
  <2>2. CASE v # w
    <3>1. num'[v] = num[v] /\ num[v] # 0 /\ num'[w] = fetchQ[1]
      BY <1>2, <1>7, <2>2
    <3>2. \A u \in Worker : num'[u] = num'[v] => u = v
      BY <1>2, <1>4, <3>1 DEF OnePlace
    <3>3. \A i \in 1..Len(fetchQ') : num'[v] < fetchQ'[i]
      BY <1>1, <1>3, <3>1 DEF OnePlace
    <3> QED
      BY <1>2, <3>1, <3>2, <3>3 DEF OnePlace
  <2> QED
    BY <2>1, <2>2
<1> QED
  BY <1>2, <1>5, <1>6, <1>7 DEF OnePlace

(* A worker hands its number on: it leaves one place for another.          *)
LEMMA SendKeepsPlaces ==
  ASSUME PlaceInv, NEW w \in Worker, WorkerSend(w)
  PROVE  Ascending' /\ OnePlace'
<1> USE NumberFacts DEF PlaceInv
<1>1. /\ num[w] \in 1..Last
      /\ num' = [num EXCEPT ![w] = 0]
      /\ UNCHANGED <<toSend, fetchQ, buffer, expected>>
  BY LastFacts DEF WorkerSend, TypeInv, TypeOK, Busy, mainVars, seqVars
<1>2. /\ Len(workQ) \in Nat /\ Len(workQ') = Len(workQ) + 1
      /\ \A i \in 1..Len(workQ') :
           \/ i \in 1..Len(workQ) /\ workQ'[i] = workQ[i]
           \/ i = Len(workQ) + 1 /\ workQ'[i] = num[w]
  BY <1>1, AppendFacts DEF WorkerSend, TypeInv, TypeOK
<1>3. Ascending'
  <2>1. num[w] # 0 /\ num[w] < toSend /\ \A i \in 1..Len(fetchQ) : num[w] < fetchQ[i]
    BY <1>1 DEF Ascending, OnePlace
  <2>2. ASSUME NEW i \in 1..Len(workQ')
        PROVE  workQ'[i] < toSend /\ \A j \in 1..Len(fetchQ) : workQ'[i] < fetchQ[j]
    BY <1>2, <2>1 DEF Ascending
  <2> QED
    BY <1>1, <2>2 DEF Ascending
<1>4. \A i, j \in 1..Len(workQ') : workQ'[i] = workQ'[j] => i = j
  BY <1>1, <1>2 DEF OnePlace
<1>5. \A i \in 1..Len(workQ') : workQ'[i] \notin buffer' /\ workQ'[i] >= expected'
  BY <1>1, <1>2 DEF OnePlace
<1>6. ASSUME NEW v \in Worker, num'[v] # 0
      PROVE  /\ \A u \in Worker : num'[u] = num'[v] => u = v
             /\ \A i \in 1..Len(workQ') : num'[v] # workQ'[i]
  <2>1. v # w /\ num'[v] = num[v]
    BY <1>1, <1>6
  <2>2. num[v] # num[w]
    BY <1>1, <2>1 DEF OnePlace
  <2> QED
    BY <1>1, <1>2, <1>6, <2>1, <2>2 DEF OnePlace
<1> QED
  BY <1>1, <1>3, <1>4, <1>5, <1>6 DEF OnePlace

LEMMA PlaceNext == PlaceInv /\ [Next]_vars => PlaceInv'
<1> SUFFICES ASSUME PlaceInv, [Next]_vars
             PROVE  Ascending' /\ OnePlace'
  BY TypeNext DEF PlaceInv
<1> USE NumberFacts DEF PlaceInv, mainVars, workerVars, seqVars
<1>1. CASE MainSend
  <2>1. toSend \in 1..Last /\ toSend' = toSend + 1
        /\ UNCHANGED <<num, workQ, buffer, expected>>
    BY <1>1, LastFacts DEF MainSend, TypeInv, TypeOK
  <2>2. /\ Len(fetchQ) \in Nat /\ Len(fetchQ') = Len(fetchQ) + 1
        /\ \A i \in 1..Len(fetchQ') :
             \/ i \in 1..Len(fetchQ) /\ fetchQ'[i] = fetchQ[i]
             \/ i = Len(fetchQ) + 1 /\ fetchQ'[i] = toSend
    BY <1>1, <2>1, AppendFacts DEF MainSend, TypeInv, TypeOK
  <2>3. Ascending'
    <3>1. ASSUME NEW i \in 1..Len(fetchQ')
          PROVE  /\ expected <= fetchQ'[i] /\ fetchQ'[i] < toSend'
                 /\ \A j \in 1..Len(workQ) : workQ[j] < fetchQ'[i]
                 /\ \A k \in buffer : k < fetchQ'[i]
      BY <2>1, <2>2 DEF Ascending
    <3>2. ASSUME NEW i \in 1..Len(fetchQ'), NEW j \in 1..Len(fetchQ'), j < i
          PROVE  fetchQ'[j] < fetchQ'[i]
      <4>1. j \in 1..Len(fetchQ) /\ fetchQ'[j] = fetchQ[j]
        BY <2>2, <3>2
      <4> QED
        BY <2>1, <2>2, <3>2, <4>1 DEF Ascending
    <3> QED
      BY <2>1, <3>1, <3>2 DEF Ascending
  <2>4. ASSUME NEW i \in 1..Len(fetchQ'), NEW j \in 1..Len(fetchQ'),
               fetchQ'[i] = fetchQ'[j]
        PROVE  i = j
    BY <2>1, <2>2, <2>4 DEF Ascending, OnePlace
  <2>5. \A w \in Worker : num[w] # 0 =>
          \A i \in 1..Len(fetchQ') : num[w] < fetchQ'[i]
    BY <2>1, <2>2 DEF Ascending, OnePlace
  <2> QED
    BY <2>1, <2>3, <2>4, <2>5 DEF OnePlace
<1>2. ASSUME NEW w \in Worker, WorkerTake(w)
      PROVE  Ascending' /\ OnePlace'
  BY <1>2, TakeKeepsPlaces
<1>3. ASSUME NEW w \in Worker, WorkerFails(w)
      PROVE  Ascending' /\ OnePlace'
  <2>1. num' = [num EXCEPT ![w] = 0] /\ UNCHANGED <<toSend, fetchQ, workQ, buffer, expected>>
    BY <1>3 DEF WorkerFails
  <2> QED
    BY <2>1 DEF Ascending, OnePlace
<1>4. ASSUME NEW w \in Worker, WorkerSend(w)
      PROVE  Ascending' /\ OnePlace'
  BY <1>4, SendKeepsPlaces
<1>5. CASE SeqReceive
  <2>1. /\ Len(workQ) \in Nat \ {0}
        /\ Len(workQ') = Len(workQ) - 1
        /\ \A i \in 1..Len(workQ') : i + 1 \in 1..Len(workQ) /\ workQ'[i] = workQ[i + 1]
        /\ 1 \in 1..Len(workQ) /\ workQ[1] \in 1..Last
        /\ buffer' = buffer \cup {workQ[1]}
        /\ UNCHANGED <<toSend, fetchQ, num, expected>>
    BY <1>5, QueueFacts DEF SeqReceive, TypeInv, TypeOK
  <2>2. \A i \in 1..Len(workQ') : workQ'[i] # workQ[1]
    BY <2>1 DEF OnePlace
  <2>3. Ascending'
    BY <2>1 DEF Ascending
  <2>4. ASSUME NEW i \in 1..Len(workQ'), NEW j \in 1..Len(workQ'),
               workQ'[i] = workQ'[j]
        PROVE  i = j
    <3>1. /\ i + 1 \in 1..Len(workQ) /\ j + 1 \in 1..Len(workQ)
          /\ workQ[i + 1] = workQ[j + 1]
      BY <2>1, <2>4
    <3>2. i + 1 = j + 1
      BY <3>1 DEF OnePlace
    <3> QED
      BY <3>2
  <2>5. \A i \in 1..Len(workQ') : workQ'[i] \notin buffer' /\ workQ'[i] >= expected'
    BY <2>1, <2>2 DEF OnePlace
  <2>6. \A w \in Worker : num[w] # 0 =>
          num[w] \notin buffer' /\ \A i \in 1..Len(workQ') : num[w] # workQ'[i]
    BY <2>1 DEF OnePlace
  <2>7. \A k \in buffer' : k >= expected
    BY <2>1 DEF OnePlace
  <2> QED
    BY <2>1, <2>3, <2>4, <2>5, <2>6, <2>7 DEF OnePlace
<1>6. CASE SeqRelease
  <2>1. /\ expected \in buffer /\ expected' = expected + 1
        /\ buffer' = buffer \ {expected}
        /\ UNCHANGED <<toSend, fetchQ, num, workQ>>
    BY <1>6 DEF SeqRelease, Releasable
  <2>4. Ascending'
    BY <2>1 DEF Ascending
  <2>5. \A k \in buffer' : k >= expected'
    BY <2>1 DEF OnePlace
  <2>6. \A i \in 1..Len(workQ) : workQ[i] >= expected'
    BY <2>1 DEF OnePlace
  <2>7. \A w \in Worker : num[w] # 0 => num[w] >= expected'
    BY <2>1 DEF OnePlace
  <2> QED
    BY <2>1, <2>4, <2>5, <2>6, <2>7 DEF OnePlace
<1>7. CASE UNCHANGED <<toSend, fetchQ, num, workQ, buffer, expected>>
  BY <1>7 DEF Ascending, OnePlace
<1> QED
  BY <1>1, <1>2, <1>3, <1>4, <1>5, <1>6, <1>7
     DEF Next, MainStep, SeqStep, WorkerStep, vars, MainDropSender, MainReceive,
         MainEnd, MainJoin, WorkerFetched, WorkerExit, SeqClosed, SeqDrained

(* No number is fetched twice or overtakes the sequencer unseen, for any   *)
(* number of workers and whatever fetches fail.                            *)
THEOREM NumbersInOnePlace == Spec => []OnePlace
<1>1. Spec => []PlaceInv
  BY PlaceInit, PlaceNext, PTL DEF Spec
<1> QED
  BY <1>1, PTL DEF PlaceInv
=============================================================================
