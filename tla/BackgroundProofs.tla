-------------------------- MODULE BackgroundProofs --------------------------
(* Proofs about module Background. *)
EXTENDS Background, FiniteSetTheorems, SequenceTheorems, TLAPS

\* What StoredHashes and the hashes a rollback deletes are, row by row.
Hash(h, i) == Body[ids[h]].txs[i].hash
Places(h) == DOMAIN Body[ids[h]].txs
GoneAbove(k) == {r.tx.hash : r \in {q \in Rows(Stored) : q.height > k}}

LEMMA StoredRowFacts ==
  \A r : r \in Rows(Stored) <=>
           \E h \in DOMAIN ids : \E i \in Places(h) :
             r = [height |-> h, index |-> i, tx |-> Body[ids[h]].txs[i]]
  BY DEF Rows, Stored, Places

HashesByPlace ==
  \A x : x \in StoredHashes <=> \E h \in DOMAIN ids : \E i \in Places(h) : x = Hash(h, i)

LEMMA StoredHashFacts == HashesByPlace
<1>1. ASSUME NEW x \in StoredHashes
      PROVE  \E h \in DOMAIN ids : \E i \in Places(h) : x = Hash(h, i)
  <2>1. PICK r \in Rows(Stored) : x = r.tx.hash
    BY DEF StoredHashes
  <2>2. PICK h \in DOMAIN ids : \E i \in Places(h) :
          r = [height |-> h, index |-> i, tx |-> Body[ids[h]].txs[i]]
    BY StoredRowFacts, <2>1
  <2>3. PICK i \in Places(h) :
          r = [height |-> h, index |-> i, tx |-> Body[ids[h]].txs[i]]
    BY <2>2
  <2> QED
    BY <2>1, <2>3 DEF Hash
<1>2. ASSUME NEW h \in DOMAIN ids, NEW i \in Places(h)
      PROVE  Hash(h, i) \in StoredHashes
  <2> DEFINE r == [height |-> h, index |-> i, tx |-> Body[ids[h]].txs[i]]
  <2>1. r \in Rows(Stored)
    BY StoredRowFacts
  <2>2. r.tx.hash = Hash(h, i)
    BY DEF Hash
  <2> QED
    BY <2>1, <2>2 DEF StoredHashes
<1> QED
  BY <1>1, <1>2 DEF HashesByPlace

LEMMA StoredHashFactsNext == HashesByPlace'
  BY StoredHashFacts, PTL

LEMMA GoneFacts ==
  ASSUME NEW k, NEW h \in DOMAIN ids, NEW i \in Places(h), Hash(h, i) \notin GoneAbove(k)
  PROVE  ~(h > k)
<1> SUFFICES ASSUME h > k
             PROVE  FALSE
  OBVIOUS
<1> DEFINE r == [height |-> h, index |-> i, tx |-> Body[ids[h]].txs[i]]
<1>1. r \in Rows(Stored)
  BY StoredRowFacts
<1>2. r.tx.hash = Hash(h, i) /\ r.height = h
  BY DEF Hash
<1> QED
  BY <1>1, <1>2 DEF GoneAbove
-----------------------------------------------------------------------------
(* The control state.  Main announces a height only while it is notifying. *)
ChainOK == ids \in Seq(DOMAIN Body) /\ commits \in 0..MaxCommits /\ Len(ids) <= commits

ChannelOK == queue \in Seq(Heights \cup {Shutdown}) /\ Len(queue) <= Capacity

MainOK ==
  /\ main \in {"running", "notifying", "joining", "stopping", "closing", "stopped"}
  /\ pending \in 0..MaxCommits
  /\ (main = "notifying" => pending > 0) /\ (main # "notifying" => pending = 0)

ProcOK ==
  /\ proc \in {"idle", "hashes", "explain", "write actions", "contracts", "anomalies",
               "block", "dead", "stopped"}
  /\ task \in 0..MaxCommits

LostOK == lost \subseteq Heights

Control == ChainOK /\ ChannelOK /\ MainOK /\ ProcOK /\ LostOK

\* Every step of the two tasks but a commit and a rollback.
Others ==
  \/ Notify \/ Cancel \/ LeaveLoop \/ EndJoins \/ Stop \/ Exit \/ Crash
  \/ Process \/ Refused

LEMMA SequenceFacts ==
  ASSUME NEW S, NEW s \in Seq(S)
  PROVE  /\ DOMAIN s = 1..Len(s) /\ Len(s) \in Nat
         /\ \A x \in S : /\ Append(s, x) \in Seq(S) /\ Len(Append(s, x)) = Len(s) + 1
                          /\ ToSet(Append(s, x)) = ToSet(s) \cup {x}
         /\ s # <<>> => /\ Head(s) \in S /\ Tail(s) \in Seq(S) /\ Len(Tail(s)) = Len(s) - 1
                        /\ ToSet(s) = ToSet(Tail(s)) \cup {Head(s)}
<1>1. ASSUME NEW x \in S
      PROVE  ToSet(Append(s, x)) = ToSet(s) \cup {x}
  <2>1. \A i \in 1..Len(s) : Append(s, x)[i] = s[i]
    OBVIOUS
  <2>2. Append(s, x)[Len(s) + 1] = x /\ DOMAIN Append(s, x) = 1..(Len(s) + 1)
    OBVIOUS
  <2> QED
    BY <2>1, <2>2 DEF ToSet
<1>2. ASSUME s # <<>>
      PROVE  ToSet(s) = ToSet(Tail(s)) \cup {Head(s)}
  <2>1. Len(s) >= 1 /\ DOMAIN Tail(s) = 1..(Len(s) - 1)
    BY <1>2
  <2>2. \A i \in 1..(Len(s) - 1) : Tail(s)[i] = s[i + 1]
    BY <1>2
  <2>3. \A i \in 2..Len(s) : i - 1 \in 1..(Len(s) - 1) /\ s[i] = Tail(s)[i - 1]
    BY <2>1, <2>2
  <2>4. Head(s) = s[1]
    OBVIOUS
  <2>5. ASSUME NEW x \in ToSet(s)
        PROVE  x \in ToSet(Tail(s)) \cup {Head(s)}
    <3>1. PICK i \in 1..Len(s) : x = s[i]
      BY DEF ToSet
    <3>2. CASE i = 1
      BY <2>4, <3>1, <3>2
    <3>3. CASE i # 1
      <4>1. i \in 2..Len(s)
        BY <3>3
      <4>2. i - 1 \in DOMAIN Tail(s) /\ x = Tail(s)[i - 1]
        BY <2>1, <2>3, <3>1, <4>1
      <4> QED
        BY <4>2 DEF ToSet
    <3> QED
      BY <3>2, <3>3
  <2>6. Head(s) \in ToSet(s)
    BY <2>1, <2>4 DEF ToSet
  <2>7. ASSUME NEW x \in ToSet(Tail(s))
        PROVE  x \in ToSet(s)
    <3>1. PICK i \in 1..(Len(s) - 1) : x = Tail(s)[i]
      BY <2>1 DEF ToSet
    <3>2. x = s[i + 1]
      BY <2>2, <3>1
    <3>3. i + 1 \in 1..Len(s)
      BY <2>1
    <3> QED
      BY <3>2, <3>3 DEF ToSet
  <2> QED
    BY <2>5, <2>6, <2>7
<1> QED
  BY <1>1, <1>2

LEMMA ControlInit == Init => Control
  BY BackgroundConfig DEF Init, Control, ChainOK, ChannelOK, MainOK, ProcOK, LostOK

LEMMA HeightFacts ==
  ASSUME ChainOK
  PROVE  /\ Len(ids) \in 0..MaxCommits /\ DOMAIN ids = 1..Len(ids)
         /\ DOMAIN ids \subseteq Heights /\ MaxCommits \in Nat /\ commits \in 0..MaxCommits
<1>1. Len(ids) \in Nat /\ DOMAIN ids = 1..Len(ids)
  BY DEF ChainOK
<1>2. Len(ids) <= commits /\ commits \in 0..MaxCommits /\ MaxCommits \in Nat
  BY BackgroundConfig DEF ChainOK
<1> QED
  BY <1>1, <1>2 DEF Heights

LEMMA QueueFacts ==
  ASSUME ChannelOK
  PROVE  /\ Len(queue) \in 0..Capacity /\ Capacity \in Nat
         /\ Len(queue) < Capacity => \A x \in Heights \cup {Shutdown} : 
              Append(queue, x) \in Seq(Heights \cup {Shutdown}) /\ Len(Append(queue, x)) <= Capacity
         /\ queue # <<>> => /\ Head(queue) \in Heights \cup {Shutdown}
                            /\ Tail(queue) \in Seq(Heights \cup {Shutdown})
                            /\ Len(Tail(queue)) <= Capacity
<1> DEFINE S == Heights \cup {Shutdown}
<1>1. queue \in Seq(S) /\ Len(queue) <= Capacity /\ Capacity \in Nat
  BY BackgroundConfig DEF ChannelOK
<1> HIDE DEF S
<1>2. Len(queue) \in 0..Capacity
  BY <1>1
<1>3. \A x \in S : Append(queue, x) \in Seq(S) /\ Len(Append(queue, x)) = Len(queue) + 1
  BY <1>1
<1>4. queue # <<>> => /\ Head(queue) \in S /\ Tail(queue) \in Seq(S)
                      /\ Len(Tail(queue)) = Len(queue) - 1
  BY <1>1
<1> QED
  BY <1>1, <1>2, <1>3, <1>4 DEF S, ChannelOK

LEMMA ChannelKept ==
  ASSUME ChannelOK, UNCHANGED queue
  PROVE  ChannelOK'
  BY DEF ChannelOK

LEMMA ChainKept ==
  ASSUME ChainOK, UNCHANGED <<ids, commits>>
  PROVE  ChainOK'
  BY DEF ChainOK

LEMMA ChannelClosedOK ==
  ASSUME queue' = <<>>
  PROVE  ChannelOK'
  BY BackgroundConfig DEF ChannelOK

LEMMA ControlCommit ==
  ASSUME Control, NEW id \in DOMAIN Body, NEW seen \in BOOLEAN, Commit(id, seen)
  PROVE  Control'
<1>1. /\ ids' = Append(ids, id) /\ commits' = commits + 1 /\ commits < MaxCommits
      /\ main' = (IF seen THEN "notifying" ELSE "running")
      /\ pending' = (IF seen THEN Len(ids) + 1 ELSE 0)
      /\ lost' = (IF seen THEN lost \ {Len(ids) + 1} ELSE lost \cup {Len(ids) + 1})
      /\ UNCHANGED <<queue, proc, task>>
  BY DEF Commit
<1>2. ids' \in Seq(DOMAIN Body) /\ Len(ids') = Len(ids) + 1
  BY <1>1 DEF Control, ChainOK
<1>3. Len(ids) + 1 \in Heights /\ MaxCommits \in Nat /\ Len(ids) <= commits
  BY <1>1, HeightFacts DEF Control, ChainOK, Heights
<1>4. ChainOK'
  BY <1>1, <1>2, <1>3 DEF Control, ChainOK, Heights
<1>5. ChannelOK'
  BY <1>1, ChannelKept DEF Control
<1>6. MainOK'
  BY <1>1, <1>3 DEF Control, MainOK, Heights
<1>7. ProcOK' /\ LostOK'
  BY <1>1, <1>3 DEF Control, ProcOK, LostOK
<1> QED
  BY <1>4, <1>5, <1>6, <1>7 DEF Control

LEMMA ControlRollback ==
  ASSUME Control, NEW k \in 0..MaxCommits, Rollback(k)
  PROVE  Control'
<1>1. /\ ids' = SubSeq(ids, 1, k) /\ lost' = {h \in lost : h <= k} /\ k < Len(ids)
      /\ UNCHANGED <<queue, main, pending, proc, task, commits>>
  BY DEF Rollback
<1>2. ids' \in Seq(DOMAIN Body) /\ Len(ids') = k
  BY <1>1 DEF Control, ChainOK
<1>3. ChainOK'
  BY <1>1, <1>2, HeightFacts DEF Control, ChainOK
<1>4. ChannelOK'
  BY <1>1, ChannelKept DEF Control
<1>5. MainOK'
  BY <1>1 DEF Control, MainOK
<1>6. ProcOK' /\ LostOK'
  BY <1>1 DEF Control, ProcOK, LostOK
<1> QED
  BY <1>3, <1>4, <1>5, <1>6 DEF Control

LEMMA MainKept ==
  ASSUME MainOK, UNCHANGED <<main, pending>>
  PROVE  MainOK'
  BY DEF MainOK

LEMMA ProcKept ==
  ASSUME ProcOK, UNCHANGED <<proc, task>>
  PROVE  ProcOK'
  BY DEF ProcOK

LEMMA ProcRests ==
  ASSUME proc' \in {"idle", "stopped"}, task' = 0
  PROVE  ProcOK'
<1>1. 0 \in 0..MaxCommits
  BY BackgroundConfig
<1> QED
  BY <1>1 DEF ProcOK

LEMMA LostKept ==
  ASSUME LostOK, UNCHANGED lost
  PROVE  LostOK'
  BY DEF LostOK

\* Closing the channel loses what it holds.
LEMMA CloseFacts ==
  ASSUME Control, NEW how, Close(how)
  PROVE  proc' = how /\ ChannelOK' /\ LostOK'
  BY HeightFacts, ChannelClosedOK DEF Close, Control, LostOK

LEMMA ControlOthers ==
  ASSUME Control, Others
  PROVE  Control'
<1> USE ChainKept, ChannelKept, MainKept, ProcKept, LostKept DEF Control
<1>0. MaxCommits \in Nat /\ DOMAIN ids \subseteq Heights /\ 0 \in 0..MaxCommits
  BY HeightFacts
<1>1. CASE Notify
  <2>1. pending \in Heights
    BY <1>0, <1>1 DEF Notify, MainOK, Heights
  <2>2. ChannelOK'
    <3>1. CASE UNCHANGED queue
      BY <3>1
    <3>2. CASE Len(queue) < Capacity /\ queue' = Append(queue, pending)
      BY <2>1, <3>2, QueueFacts DEF ChannelOK
    <3> QED
      BY <1>1, <3>1, <3>2 DEF Notify
  <2>3. MainOK'
    BY <1>0, <1>1 DEF Notify, MainOK
  <2>4. LostOK'
    BY <1>1, <2>1 DEF Notify, LostOK
  <2> QED
    BY <1>1, <2>2, <2>3, <2>4 DEF Notify
<1>2. CASE Cancel \/ LeaveLoop \/ EndJoins
  <2>1. MainOK'
    BY <1>2 DEF Cancel, LeaveLoop, EndJoins, MainOK
  <2> QED
    BY <1>2, <2>1 DEF Cancel, LeaveLoop, EndJoins
<1>3. CASE Stop
  <2>1. ChannelOK'
    <3>1. CASE UNCHANGED queue
      BY <3>1
    <3>2. CASE Len(queue) < Capacity /\ queue' = Append(queue, Shutdown)
      BY <3>2, QueueFacts DEF ChannelOK
    <3> QED
      BY <1>3, <3>1, <3>2 DEF Stop
  <2>2. MainOK'
    BY <1>3 DEF Stop, MainOK
  <2> QED
    BY <1>3, <2>1, <2>2 DEF Stop
<1>4. CASE Exit
  <2>1. MainOK'
    BY <1>4 DEF Exit, MainOK
  <2>2. ProcOK'
    BY <1>4, ProcRests DEF Exit, Close
  <2> QED
    BY <1>4, <2>1, <2>2, CloseFacts DEF Exit
<1>5. CASE Crash
  <2>1. MainOK' /\ ProcOK'
    BY <1>0, <1>5, ProcRests DEF Crash, MainOK
  <2>2. LostOK'
    BY <1>0, <1>5 DEF Crash, LostOK
  <2> QED
    BY <1>5, <2>1, <2>2, ChannelClosedOK DEF Crash
<1>6. CASE Refused
  <2>1. LostOK'
    BY <1>0, <1>6 DEF LostOK, Refused
  <2>2. UNCHANGED <<ids, commits, queue, main, pending>>
    BY <1>6 DEF Refused, indexer
  <2>3. proc' \in {"idle", "explain", "block"} /\ task' \in {0, task}
    BY <1>6 DEF Refused, ProcOK
  <2>4. ProcOK'
    BY <1>0, <2>3 DEF ProcOK
  <2> QED
    BY <2>1, <2>2, <2>4
<1>7. CASE Take
  <2>1. ChannelOK'
    BY <1>7, QueueFacts DEF Take, ChannelOK
  <2>2. ProcOK'
    BY <1>0, <1>7, QueueFacts DEF Take, ProcOK, Heights, Shutdown
  <2> QED
    BY <1>7, <2>1, <2>2 DEF Take, indexer
<1>8. CASE StopTask
  <2>1. ProcOK'
    BY <1>8 DEF StopTask, Close, ProcOK
  <2> QED
    BY <1>8, <2>1, CloseFacts DEF StopTask, indexer
<1>9. ASSUME NEW hash \in todo, Explain(hash)
      PROVE  Control'
  <2>1. CASE Close("dead")
    <3>1. UNCHANGED <<indexer, task>>
      BY <1>9 DEF Explain
    <3>2. ProcOK'
      BY <2>1, <3>1 DEF Close, ProcOK
    <3> QED
      BY <2>1, <3>1, <3>2, CloseFacts DEF indexer
  <2>2. CASE proc' \in {"explain", "write actions"} /\ UNCHANGED <<indexer, queue, task, lost>>
    <3>1. ProcOK'
      BY <2>2 DEF ProcOK
    <3> QED
      BY <2>2, <3>1 DEF indexer
  <2> QED
    BY <1>9, <2>1, <2>2 DEF Explain
<1>10. CASE SelectHashes \/ PersistTransactionActions \/ AnalyzeAddresses \/ AnalyzeContracts
            \/ DetectAnomalies
  <2>1. UNCHANGED <<indexer, queue, task, lost>>
    BY <1>10 DEF SelectHashes, PersistTransactionActions, AnalyzeAddresses, AnalyzeContracts,
                 DetectAnomalies, Passes
  <2>2. proc' \in {"explain", "contracts", "anomalies", "block"}
    BY <1>10 DEF SelectHashes, PersistTransactionActions, AnalyzeAddresses, AnalyzeContracts,
                 DetectAnomalies, Passes
  <2>3. ProcOK'
    BY <2>1, <2>2 DEF ProcOK
  <2> QED
    BY <2>1, <2>3 DEF indexer
<1>11. CASE AnalyzeBlock
  <2>1. UNCHANGED indexer
    BY <1>11 DEF AnalyzeBlock
  <2>2. CASE Close("dead") /\ UNCHANGED task
    <3>1. ProcOK'
      BY <2>2 DEF Close, ProcOK
    <3> QED
      BY <2>1, <2>2, <3>1, CloseFacts DEF indexer
  <2>3. CASE proc' = "idle" /\ task' = 0 /\ UNCHANGED <<queue, lost>>
    <3>1. ProcOK'
      BY <2>3, ProcRests
    <3> QED
      BY <2>1, <2>3, <3>1 DEF indexer
  <2> QED
    BY <1>11, <2>2, <2>3 DEF AnalyzeBlock
<1> QED
  BY <1>1, <1>2, <1>3, <1>4, <1>5, <1>6, <1>7, <1>8, <1>9, <1>10, <1>11 DEF Others, Process

-----------------------------------------------------------------------------
(* What the processor is about to write is the explanation of a transaction *)
(* of some block.                                                          *)
Explains(of, types) ==
  \E b \in DOMAIN Body : \E i \in DOMAIN Body[b].txs :
    of = Body[b].txs[i].hash /\ types = ExplainTransaction(Body[b].txs[i])

DraftOK == proc = "write actions" => Explains(draft.of, draft.types)

\* Whatever the other steps do, the chain stays as it is and actions grow.
LEMMA OthersWrite ==
  ASSUME Others
  PROVE  /\ UNCHANGED ids
         /\ UNCHANGED actions \/ \E x, y : actions' = ActionsWith(x, y)
<1>1. CASE Notify \/ Cancel \/ LeaveLoop \/ EndJoins \/ Stop \/ Exit \/ Crash \/ Refused
  BY <1>1 DEF Notify, Cancel, LeaveLoop, EndJoins, Stop, Exit, Crash, Refused, indexer
<1>2. CASE Take \/ StopTask \/ SelectHashes \/ AnalyzeBlock
  BY <1>2 DEF Take, StopTask, SelectHashes, AnalyzeBlock, indexer
<1>3. CASE \E hash \in todo : Explain(hash)
  BY <1>3 DEF Explain, indexer
<1>4. CASE AnalyzeAddresses \/ AnalyzeContracts \/ DetectAnomalies
  BY <1>4 DEF AnalyzeAddresses, AnalyzeContracts, DetectAnomalies, Passes, indexer
<1>5. CASE PersistTransactionActions
  BY <1>5 DEF PersistTransactionActions, indexer
<1> QED
  BY <1>1, <1>2, <1>3, <1>4, <1>5 DEF Others, Process

\* An explanation read from the table is that of a stored transaction.
LEMMA ExplanationRead ==
  ASSUME ChainOK, NEW hash \in StoredHashes
  PROVE  Explains(hash, ExplainTransaction((CHOOSE r \in Rows(Stored) : r.tx.hash = hash).tx))
<1> DEFINE q == CHOOSE r \in Rows(Stored) : r.tx.hash = hash
<1>1. q \in Rows(Stored) /\ q.tx.hash = hash
  BY DEF StoredHashes
<1> HIDE DEF q
<1>2. PICK h \in DOMAIN ids : \E i \in Places(h) :
        q = [height |-> h, index |-> i, tx |-> Body[ids[h]].txs[i]]
  BY <1>1, StoredRowFacts
<1>3. PICK i \in DOMAIN Body[ids[h]].txs : q.tx = Body[ids[h]].txs[i]
  BY <1>2 DEF Places
<1>4. ids[h] \in DOMAIN Body
  BY DEF ChainOK
<1>5. Explains(hash, ExplainTransaction(q.tx))
  BY <1>1, <1>3, <1>4 DEF Explains
<1> QED
  BY <1>5 DEF q

LEMMA DraftOthers ==
  ASSUME ChainOK, DraftOK, Others
  PROVE  DraftOK'
<1>1. CASE proc' # "write actions"
  BY <1>1 DEF DraftOK
<1>2. CASE UNCHANGED <<proc, draft>>
  BY <1>2 DEF DraftOK
<1>3. CASE Notify \/ Cancel \/ LeaveLoop \/ EndJoins \/ Stop \/ Exit \/ Crash \/ Refused
  BY <1>1, <1>2, <1>3
     DEF Notify, Cancel, LeaveLoop, EndJoins, Stop, Exit, Crash, Refused, Close
<1>4. CASE Take \/ StopTask \/ SelectHashes \/ AnalyzeBlock \/ PersistTransactionActions
  BY <1>1, <1>4 DEF Take, StopTask, SelectHashes, AnalyzeBlock, PersistTransactionActions, Close
<1>5. CASE AnalyzeAddresses \/ AnalyzeContracts \/ DetectAnomalies
  BY <1>1, <1>5 DEF AnalyzeAddresses, AnalyzeContracts, DetectAnomalies, Passes
<1>6. ASSUME NEW hash \in todo, Explain(hash), proc' = "write actions"
      PROVE  DraftOK'
  <2> DEFINE types == ExplainTransaction((CHOOSE r \in Rows(Stored) : r.tx.hash = hash).tx)
  <2>1. hash \in StoredHashes
    BY <1>6 DEF Explain
  <2>2. draft' = [of |-> hash, types |-> types]
    BY <1>6, <2>1 DEF Explain, Close
  <2>3. Explains(hash, types)
    BY <2>1, ExplanationRead
  <2> HIDE DEF types
  <2>4. draft'.of = hash /\ draft'.types = types
    BY <2>2
  <2> QED
    BY <2>3, <2>4 DEF DraftOK, Explains
<1> QED
  BY <1>1, <1>3, <1>4, <1>5, <1>6 DEF Others, Process

LEMMA BagWritten ==
  ASSUME IsABag(actions), UNCHANGED actions \/ \E x, y : actions' = ActionsWith(x, y)
  PROVE  IsABag(actions')
<1>1. \A S : IsABag(actions (+) SetToBag(S))
  BY DEF (+), SetToBag, IsABag
<1> QED
  BY <1>1 DEF ActionsWith

LEMMA BagRolledBack ==
  ASSUME IsABag(actions), NEW k, Rollback(k)
  PROVE  IsABag(actions')
<1>1. \A S : IsABag(KeptActions(S))
  BY DEF KeptActions, IsABag
<1> QED
  BY <1>1 DEF Rollback

-----------------------------------------------------------------------------
TableInv == Control /\ IsABag(actions) /\ DraftOK

LEMMA TableInit == Init => TableInv
<1> SUFFICES ASSUME Init
             PROVE  TableInv
  OBVIOUS
<1>1. IsABag(actions)
  BY DEF Init, EmptyBag, SetToBag, IsABag
<1>2. DraftOK
  BY DEF Init, DraftOK
<1> QED
  BY <1>1, <1>2, ControlInit DEF TableInv

LEMMA TableNext == TableInv /\ [Next]_vars => TableInv'
<1> SUFFICES ASSUME TableInv, [Next]_vars
             PROVE  TableInv'
  OBVIOUS
<1> USE DEF TableInv
<1>1. ASSUME NEW id \in DOMAIN Body, NEW seen \in BOOLEAN, Commit(id, seen)
      PROVE  TableInv'
  <2>1. UNCHANGED <<actions, proc, draft>>
    BY <1>1 DEF Commit
  <2>2. IsABag(actions') /\ DraftOK'
    BY <2>1 DEF DraftOK
  <2> QED
    BY <1>1, <2>2, ControlCommit
<1>2. ASSUME NEW k \in 0..MaxCommits, Rollback(k)
      PROVE  TableInv'
  <2>1. DraftOK'
    BY <1>2 DEF Rollback, DraftOK
  <2> QED
    BY <1>2, <2>1, ControlRollback, BagRolledBack
<1>3. CASE Others
  BY <1>3, ControlOthers, OthersWrite, DraftOthers, BagWritten DEF Control
<1>4. CASE UNCHANGED vars
  <2>1. Control'
    BY <1>4, ChainKept, ChannelKept, MainKept, ProcKept, LostKept DEF vars, indexer, Control
  <2>2. IsABag(actions') /\ DraftOK'
    BY <1>4 DEF vars, DraftOK
  <2> QED
    BY <2>1, <2>2
<1> QED
  BY <1>1, <1>2, <1>3, <1>4 DEF Next, Others

\* The channel never holds more than its capacity, only heights that were
\* committed are announced, and the table is what its key makes it
\* (background.rs, main.rs).
THEOREM TypeCorrect == Spec => []TypeOK
<1>1. TableInv => TypeOK
  BY DEF TableInv, Control, ChainOK, ChannelOK, MainOK, ProcOK, LostOK, TypeOK
<1> QED
  BY <1>1, TableInit, TableNext, PTL DEF Spec

-----------------------------------------------------------------------------
(* ExplainedUnlessDropped speaks of a processor at rest.  What holds at     *)
(* every step is that a transaction of a stored block has its actions, or   *)
(* its block is lost or still to come through the channel, or the processor *)
(* is at its block and has the transaction left.                            *)
Coming == ToSet(queue) \cup {pending}

Done(h, i) ==
  LET tx == Body[ids[h]].txs[i] IN
  \A t \in ExplainTransaction(tx) : [tx |-> tx.hash, type |-> t] \in DOMAIN actions

Due(h, i) ==
  /\ task = h
  /\ proc = "hashes" \/ (proc \in {"explain", "write actions"} /\ Hash(h, i) \in todo)

ActionsOK ==
  \A h \in DOMAIN ids \ (lost \cup Coming) : \A i \in Places(h) : Done(h, i) \/ Due(h, i)

OnBranch == ids \in Branches

LEMMA BranchCommit ==
  ASSUME Control, OnBranch, NEW id \in DOMAIN Body, NEW seen \in BOOLEAN, Commit(id, seen)
  PROVE  OnBranch'
<1>1. /\ ids' = Append(ids, id) /\ commits < MaxCommits
      /\ Parent[id] = IF ids = <<>> THEN None ELSE Last(ids)
  BY DEF Commit
<1>2. ids \in Seq(DOMAIN Body) /\ Len(ids) + 1 \in 0..MaxCommits
  BY <1>1, HeightFacts DEF Control, ChainOK
<1>3. ids' \in [1..(Len(ids) + 1) -> DOMAIN Body] /\ DOMAIN ids' = 1..(Len(ids) + 1)
  <2>1. ids' \in Seq(DOMAIN Body) /\ Len(ids') = Len(ids) + 1
    BY <1>1, <1>2
  <2> QED
    BY <2>1, LenProperties
<1>4. ids' \in UNION {[1..n -> DOMAIN Body] : n \in 0..MaxCommits}
  BY <1>2, <1>3
<1>5. ASSUME NEW h \in DOMAIN ids'
      PROVE  Parent[ids'[h]] = IF h = 1 THEN None ELSE ids'[h - 1]
  <2>1. CASE h = Len(ids) + 1
    <3>1. ids'[h] = id
      BY <1>1, <1>2, <2>1
    <3>2. CASE ids = <<>>
      BY <1>1, <2>1, <3>1, <3>2
    <3>3. CASE ids # <<>>
      <4>1. Len(ids) >= 1 /\ Last(ids) = ids[Len(ids)] /\ ids'[Len(ids)] = ids[Len(ids)]
        BY <1>1, <1>2, <3>3 DEF Last
      <4> QED
        BY <1>1, <1>2, <2>1, <3>1, <3>3, <4>1
    <3> QED
      BY <3>2, <3>3
  <2>2. CASE h # Len(ids) + 1
    <3>1. h \in DOMAIN ids /\ ids'[h] = ids[h] /\ (h # 1 => ids'[h - 1] = ids[h - 1])
      BY <1>1, <1>2, <1>3, <2>2
    <3>2. Parent[ids[h]] = IF h = 1 THEN None ELSE ids[h - 1]
      BY <3>1 DEF OnBranch, Branches
    <3> QED
      BY <3>1, <3>2
  <2> QED
    BY <2>1, <2>2
<1> QED
  BY <1>4, <1>5 DEF OnBranch, Branches

LEMMA BranchRollback ==
  ASSUME Control, OnBranch, NEW k \in 0..MaxCommits, Rollback(k)
  PROVE  OnBranch'
<1>1. ids' = SubSeq(ids, 1, k) /\ k < Len(ids)
  BY DEF Rollback
<1>2. ids \in Seq(DOMAIN Body) /\ Len(ids) \in Nat
  BY DEF Control, ChainOK
<1>3. ids' \in [1..k -> DOMAIN Body] /\ DOMAIN ids' = 1..k /\ \A h \in 1..k : ids'[h] = ids[h]
  <2>1. ids' \in Seq(DOMAIN Body) /\ Len(ids') = k
    BY <1>1, <1>2
  <2>2. \A h \in 1..k : ids'[h] = ids[h]
    BY <1>1, <1>2
  <2> QED
    BY <2>1, <2>2, LenProperties
<1>4. ids' \in UNION {[1..n -> DOMAIN Body] : n \in 0..MaxCommits}
  BY <1>3
<1>5. ASSUME NEW h \in DOMAIN ids'
      PROVE  Parent[ids'[h]] = IF h = 1 THEN None ELSE ids'[h - 1]
  <2>1. h \in DOMAIN ids /\ ids'[h] = ids[h] /\ (h # 1 => ids'[h - 1] = ids[h - 1])
    BY <1>1, <1>2, <1>3
  <2>2. Parent[ids[h]] = IF h = 1 THEN None ELSE ids[h - 1]
    BY <2>1 DEF OnBranch, Branches
  <2> QED
    BY <2>1, <2>2
<1> QED
  BY <1>4, <1>5 DEF OnBranch, Branches

LEMMA ComingAppended ==
  ASSUME ChannelOK, NEW x \in Heights \cup {Shutdown}, queue' = Append(queue, x)
  PROVE  ToSet(queue') = ToSet(queue) \cup {x}
<1> DEFINE S == Heights \cup {Shutdown}
<1>1. queue \in Seq(S) /\ x \in S
  BY DEF ChannelOK
<1> HIDE DEF S
<1> QED
  BY <1>1, SequenceFacts

LEMMA ComingTaken ==
  ASSUME ChannelOK, queue # <<>>, queue' = Tail(queue)
  PROVE  ToSet(queue) = ToSet(queue') \cup {Head(queue)}
<1> DEFINE S == Heights \cup {Shutdown}
<1>1. queue \in Seq(S)
  BY DEF ChannelOK
<1> HIDE DEF S
<1> QED
  BY <1>1, SequenceFacts
\* When the channel closes, what was in it and the task at hand are lost.
LEMMA CloseLoses ==
  ASSUME Control, NEW how, Close(how), UNCHANGED pending
  PROVE  \A h \in DOMAIN ids \ (lost' \cup Coming') :
           h \notin lost \cup Coming /\ \A i : ~Due(h, i)
<1> SUFFICES ASSUME NEW h \in DOMAIN ids \ (lost' \cup Coming')
             PROVE  h \notin lost \cup Coming /\ \A i : ~Due(h, i)
  OBVIOUS
<1>1. h # 0
  BY HeightFacts DEF Control
<1>2. h \notin Unfinished(0) /\ h \notin lost
  BY DEF Close
<1>3. ~(Explaining /\ task = h)
  BY <1>1, <1>2 DEF Unfinished
<1>4. ASSUME NEW i, Due(h, i)
      PROVE  Explaining /\ task = h
  BY <1>4 DEF Due, Explaining
<1> QED
  BY <1>1, <1>2, <1>3, <1>4 DEF Unfinished, Coming

LEMMA ActionsCommit ==
  ASSUME Control, ActionsOK, NEW id \in DOMAIN Body, NEW seen \in BOOLEAN, Commit(id, seen)
  PROVE  ActionsOK'
<1>1. /\ ids' = Append(ids, id)
      /\ pending' = (IF seen THEN Len(ids) + 1 ELSE 0)
      /\ lost' = (IF seen THEN lost \ {Len(ids) + 1} ELSE lost \cup {Len(ids) + 1})
      /\ main = "running" /\ UNCHANGED <<queue, proc, task, todo, actions>>
  BY DEF Commit
<1>2. Len(ids) \in Nat /\ DOMAIN ids = 1..Len(ids) /\ DOMAIN ids' = 1..(Len(ids) + 1)
      /\ \A h \in DOMAIN ids : ids'[h] = ids[h]
  BY <1>1 DEF Control, ChainOK
<1>3. pending = 0
  BY <1>1 DEF Control, MainOK
<1>4. ASSUME NEW h \in DOMAIN ids' \ (lost' \cup Coming')
      PROVE  h \in DOMAIN ids \ (lost \cup Coming) /\ ids'[h] = ids[h]
  <2>1. h # Len(ids) + 1
    BY <1>1, <1>4 DEF Coming
  <2>2. h \in DOMAIN ids
    BY <1>2, <1>4, <2>1
  <2>3. h \notin Coming /\ h \notin lost
    BY <1>1, <1>2, <1>3, <1>4, <2>1, <2>2 DEF Coming
  <2> QED
    BY <1>2, <2>2, <2>3
<1>5. ASSUME NEW h \in DOMAIN ids' \ (lost' \cup Coming'), NEW i \in Places(h)'
      PROVE  Done(h, i)' \/ Due(h, i)'
  <2>1. h \in DOMAIN ids \ (lost \cup Coming) /\ ids'[h] = ids[h]
    BY <1>4, <1>5
  <2>2. i \in Places(h) /\ Hash(h, i)' = Hash(h, i)
    BY <2>1 DEF Places, Hash
  <2>3. Done(h, i) \/ Due(h, i)
    BY <2>1, <2>2 DEF ActionsOK
  <2>4. Done(h, i) => Done(h, i)'
    BY <1>1, <2>1 DEF Done
  <2>5. Due(h, i) => Due(h, i)'
    BY <1>1, <2>2 DEF Due
  <2> QED
    BY <2>3, <2>4, <2>5
<1> QED
  BY <1>5 DEF ActionsOK

\* A rollback deletes no action of a block that stays: no transaction is in two
\* blocks of the stored chain.
LEMMA KeptAreNotGone ==
  ASSUME Control, OnBranch, NEW k \in Nat, NEW h \in DOMAIN ids, h <= k, NEW i \in Places(h)
  PROVE  Hash(h, i) \notin GoneAbove(k)
<1> SUFFICES ASSUME Hash(h, i) \in GoneAbove(k)
             PROVE  FALSE
  OBVIOUS
<1>1. PICK r \in Rows(Stored) : r.height > k /\ r.tx.hash = Hash(h, i)
  BY DEF GoneAbove
<1>2. PICK g \in DOMAIN ids : \E j \in Places(g) :
        r = [height |-> g, index |-> j, tx |-> Body[ids[g]].txs[j]]
  BY StoredRowFacts
<1>3. PICK j \in Places(g) : r = [height |-> g, index |-> j, tx |-> Body[ids[g]].txs[j]]
  BY <1>2
<1>4. r.height = g /\ r.tx = Body[ids[g]].txs[j]
  BY <1>3
<1>5. Body[ids[h]].txs[i].hash = Body[ids[g]].txs[j].hash
  BY <1>1, <1>4 DEF Hash
<1>6. h = g
  BY <1>5, OnceOnABranch DEF OnBranch, Places
<1>7. h \in Nat
  BY HeightFacts DEF Control, Heights
<1> QED
  BY <1>1, <1>4, <1>6, <1>7

LEMMA ActionsRollback ==
  ASSUME Control, OnBranch, ActionsOK, NEW k \in 0..MaxCommits, Rollback(k)
  PROVE  ActionsOK'
<1>1. /\ ids' = SubSeq(ids, 1, k) /\ k < Len(ids) /\ lost' = {h \in lost : h <= k}
      /\ actions' = KeptActions(GoneAbove(k))
      /\ UNCHANGED <<queue, pending, proc, task, todo>>
  BY DEF Rollback, GoneAbove
<1>2. Len(ids) \in Nat /\ DOMAIN ids = 1..Len(ids) /\ DOMAIN ids' = 1..k
      /\ \A h \in 1..k : ids'[h] = ids[h]
  BY <1>1 DEF Control, ChainOK
<1>3. ASSUME NEW h \in DOMAIN ids' \ (lost' \cup Coming')
      PROVE  h \in DOMAIN ids \ (lost \cup Coming) /\ h <= k /\ ids'[h] = ids[h]
  <2>1. h \in 1..k /\ h \in DOMAIN ids /\ h <= k
    BY <1>1, <1>2, <1>3
  <2>2. h \notin Coming /\ h \notin lost
    BY <1>1, <1>3, <2>1 DEF Coming
  <2> QED
    BY <1>2, <2>1, <2>2
<1>4. ASSUME NEW h \in DOMAIN ids, h <= k, ids'[h] = ids[h], NEW i \in Places(h), Done(h, i)
      PROVE  Done(h, i)'
  <2> DEFINE tx == Body[ids[h]].txs[i]
  <2>1. tx.hash \notin GoneAbove(k)
    BY <1>4, KeptAreNotGone DEF Hash
  <2>2. ASSUME NEW t \in ExplainTransaction(tx)
        PROVE  [tx |-> tx.hash, type |-> t] \in DOMAIN actions'
    <3> DEFINE r == [tx |-> tx.hash, type |-> t]
    <3>1. r \in DOMAIN actions
      BY <1>4 DEF Done
    <3>2. r.tx \notin GoneAbove(k)
      BY <2>1
    <3>3. r \in DOMAIN actions'
      BY <1>1, <3>1, <3>2 DEF KeptActions
    <3> QED
      BY <3>3
  <2> QED
    BY <1>4, <2>2 DEF Done
<1>5. ASSUME NEW h \in DOMAIN ids' \ (lost' \cup Coming'), NEW i \in Places(h)'
      PROVE  Done(h, i)' \/ Due(h, i)'
  <2>1. h \in DOMAIN ids \ (lost \cup Coming) /\ h <= k /\ ids'[h] = ids[h]
    BY <1>3, <1>5
  <2>2. i \in Places(h) /\ Hash(h, i)' = Hash(h, i)
    BY <2>1 DEF Places, Hash
  <2>3. Done(h, i) \/ Due(h, i)
    BY <2>1, <2>2 DEF ActionsOK
  <2>4. Done(h, i) => Done(h, i)'
    BY <1>4, <2>1, <2>2
  <2>5. Due(h, i) => Due(h, i)'
    BY <1>1, <2>2 DEF Due
  <2> QED
    BY <2>3, <2>4, <2>5
<1> QED
  BY <1>5 DEF ActionsOK

LEMMA ActionsGrow ==
  ASSUME UNCHANGED actions \/ \E x, y : actions' = ActionsWith(x, y)
  PROVE  DOMAIN actions \subseteq DOMAIN actions'
  BY DEF ActionsWith, (+), SetToBag

\* Steps that forget no height and no transaction.
LEMMA ActionsQuiet ==
  ASSUME ActionsOK, UNCHANGED ids, DOMAIN actions \subseteq DOMAIN actions',
         ASSUME NEW h \in DOMAIN ids \ (lost' \cup Coming')
         PROVE  /\ h \notin lost \cup Coming
                /\ \A i \in Places(h) : Due(h, i) => Due(h, i)' \/ Done(h, i)'
  PROVE  ActionsOK'
<1>1. ASSUME NEW h \in DOMAIN ids' \ (lost' \cup Coming'), NEW i \in Places(h)'
      PROVE  Done(h, i)' \/ Due(h, i)'
  <2>1. h \in DOMAIN ids \ (lost \cup Coming) /\ i \in Places(h)
    BY <1>1 DEF Places
  <2>2. Done(h, i) \/ Due(h, i)
    BY <2>1 DEF ActionsOK
  <2>3. Done(h, i) => Done(h, i)'
    BY DEF Done
  <2>4. h \in DOMAIN ids \ (lost' \cup Coming')
    BY <1>1
  <2> QED
    BY <2>1, <2>2, <2>3, <2>4
<1> QED
  BY <1>1 DEF ActionsOK

LEMMA PlacesStored ==
  ASSUME NEW h \in DOMAIN ids, NEW i \in Places(h)
  PROVE  Hash(h, i) \in StoredHashes
  BY StoredHashFacts DEF HashesByPlace

\* An explanation that is written covers all actions of the transaction stored
\* under its hash, whichever block it was read from.
LEMMA WrittenIsDone ==
  ASSUME ChainOK, NEW of, NEW types, Explains(of, types),
         UNCHANGED ids, actions' = ActionsWith(of, types),
         NEW h \in DOMAIN ids, NEW i \in Places(h), Hash(h, i) = of
  PROVE  Done(h, i)'
<1> DEFINE tx == Body[ids[h]].txs[i]
<1>1. PICK b \in DOMAIN Body : \E j \in DOMAIN Body[b].txs :
        of = Body[b].txs[j].hash /\ types = ExplainTransaction(Body[b].txs[j])
  BY DEF Explains
<1>2. PICK j \in DOMAIN Body[b].txs :
        of = Body[b].txs[j].hash /\ types = ExplainTransaction(Body[b].txs[j])
  BY <1>1
<1>3. ids[h] \in DOMAIN Body /\ i \in DOMAIN Body[ids[h]].txs
  BY DEF ChainOK, Places
<1>4. tx.hash = of /\ Body[b].txs[j] = tx
  BY <1>2, <1>3, HashesIdentify DEF Hash
<1>5. of \in StoredHashes
  BY PlacesStored
<1>6. DOMAIN actions' = DOMAIN actions \cup {[tx |-> of, type |-> t] : t \in types}
  BY <1>5 DEF ActionsWith, (+), SetToBag
<1>7. types = ExplainTransaction(tx)
  BY <1>2, <1>4
<1> HIDE DEF tx
<1>8. \A t \in ExplainTransaction(tx) : [tx |-> tx.hash, type |-> t] \in DOMAIN actions'
  BY <1>4, <1>6, <1>7
<1> QED
  BY <1>8 DEF tx, Done

LEMMA ActionsOthers ==
  ASSUME Control, DraftOK, ActionsOK, Others
  PROVE  ActionsOK'
<1> USE DEF Control
<1>0. /\ UNCHANGED ids /\ DOMAIN actions \subseteq DOMAIN actions'
      /\ \A h \in DOMAIN ids : h # 0
      /\ \A h : Places(h)' = Places(h) /\ \A i : Hash(h, i)' = Hash(h, i)
  BY OthersWrite, ActionsGrow, HeightFacts DEF Places, Hash
<1>1. CASE Notify
  <2>1. pending \in Heights
    BY <1>1, HeightFacts DEF Notify, MainOK, Heights
  <2>2. ASSUME NEW h \in DOMAIN ids \ (lost' \cup Coming')
        PROVE  h \notin lost \cup Coming
    <3>1. CASE UNCHANGED queue /\ lost' = lost \cup {pending}
      BY <2>2, <3>1 DEF Coming
    <3>2. CASE queue' = Append(queue, pending) /\ UNCHANGED lost
      BY <2>1, <2>2, <3>2, ComingAppended DEF Coming
    <3> QED
      BY <1>1, <3>1, <3>2 DEF Notify
  <2>3. \A h, i : Due(h, i)' = Due(h, i)
    BY <1>0, <1>1 DEF Notify, Due
  <2> QED
    BY <1>0, <2>2, <2>3, ActionsQuiet
<1>2. CASE Cancel \/ LeaveLoop \/ EndJoins
  <2>1. UNCHANGED <<proc, task, todo, lost, queue, pending>>
    BY <1>2 DEF Cancel, LeaveLoop, EndJoins
  <2>2. Coming' = Coming /\ \A h, i : Due(h, i)' = Due(h, i)
    BY <1>0, <2>1 DEF Coming, Due
  <2> QED
    BY <1>0, <2>1, <2>2, ActionsQuiet
<1>3. CASE Stop
  <2>1. UNCHANGED <<proc, task, todo, lost, pending>>
    BY <1>3 DEF Stop
  <2>2. Coming \subseteq Coming'
    <3>1. CASE UNCHANGED queue
      BY <2>1, <3>1 DEF Coming
    <3>2. CASE queue' = Append(queue, Shutdown)
      BY <2>1, <3>2, ComingAppended DEF Coming
    <3> QED
      BY <1>3, <3>1, <3>2 DEF Stop
  <2>3. \A h, i : Due(h, i)' = Due(h, i)
    BY <1>0, <2>1 DEF Due
  <2> QED
    BY <1>0, <2>1, <2>2, <2>3, ActionsQuiet
<1>4. CASE Exit
  <2>1. UNCHANGED pending /\ Close("stopped")
    BY <1>4 DEF Exit
  <2> QED
    BY <1>0, <2>1, CloseLoses, ActionsQuiet
<1>5. CASE Crash
  <2>1. ASSUME NEW h \in DOMAIN ids \ (lost' \cup Coming')
        PROVE  h \notin lost \cup Coming /\ ~(Explaining /\ task = h)
    BY <1>0, <1>5, <2>1 DEF Crash, Unfinished, Coming
  <2>2. \A h, i : Due(h, i) => Explaining /\ task = h
    BY DEF Due, Explaining
  <2> QED
    BY <1>0, <2>1, <2>2, ActionsQuiet
<1>6. CASE Refused
  <2>1. /\ UNCHANGED <<queue, pending>>
        /\ lost' = IF Explaining THEN lost \cup ({task} \cap DOMAIN ids) ELSE lost
    BY <1>6 DEF Refused, indexer
  <2>2. ASSUME NEW h \in DOMAIN ids \ (lost' \cup Coming')
        PROVE  h \notin lost \cup Coming /\ ~(Explaining /\ task = h)
    BY <2>1, <2>2 DEF Coming
  <2>3. \A h, i : Due(h, i) => Explaining /\ task = h
    BY DEF Due, Explaining
  <2> QED
    BY <1>0, <2>2, <2>3, ActionsQuiet
<1>7. CASE Take
  <2>1. /\ UNCHANGED <<actions, lost, pending>> /\ proc = "idle" /\ proc' = "hashes"
        /\ task' = Head(queue) /\ queue # <<>> /\ queue' = Tail(queue)
    BY <1>7 DEF Take, indexer
  <2>2. Coming = Coming' \cup {task'}
    BY <2>1, ComingTaken DEF Coming
  <2>3. ASSUME NEW h \in DOMAIN ids \ (lost' \cup Coming'), NEW i \in Places(h)
        PROVE  Done(h, i)' \/ Due(h, i)'
    <3>1. CASE h = task'
      BY <2>1, <3>1 DEF Due
    <3>2. CASE h # task'
      <4>1. Done(h, i) \/ Due(h, i)
        BY <2>1, <2>2, <2>3, <3>2 DEF ActionsOK
      <4>2. ~Due(h, i)
        BY <2>1 DEF Due
      <4> QED
        BY <1>0, <2>1, <4>1, <4>2 DEF Done
    <3> QED
      BY <3>1, <3>2
  <2> QED
    BY <1>0, <2>3 DEF ActionsOK
<1>8. CASE StopTask
  <2>1. UNCHANGED pending /\ Close("stopped")
    BY <1>8 DEF StopTask, indexer
  <2> QED
    BY <1>0, <2>1, CloseLoses, ActionsQuiet
<1>9. CASE SelectHashes
  <2>1. /\ UNCHANGED <<lost, queue, pending, task>> /\ proc = "hashes" /\ proc' = "explain"
        /\ todo' = {r.tx.hash : r \in TaskRows}
    BY <1>9 DEF SelectHashes, indexer
  <2>2. Coming' = Coming
    BY <2>1 DEF Coming
  <2>3. ASSUME NEW h \in DOMAIN ids, NEW i \in Places(h), task = h
        PROVE  Hash(h, i) \in todo'
    <3> DEFINE r == [height |-> h, index |-> i, tx |-> Body[ids[h]].txs[i]]
    <3>1. r \in Rows(Stored)
      BY StoredRowFacts
    <3>2. r.height = h /\ r.tx.hash = Hash(h, i)
      BY DEF Hash
    <3>3. r \in TaskRows
      BY <2>3, <3>1, <3>2 DEF TaskRows
    <3> QED
      BY <2>1, <3>2, <3>3
  <2>4. ASSUME NEW h \in DOMAIN ids, NEW i \in Places(h), Due(h, i)
        PROVE  Due(h, i)'
    BY <1>0, <2>1, <2>3, <2>4 DEF Due
  <2> QED
    BY <1>0, <2>1, <2>2, <2>4, ActionsQuiet
<1>10. ASSUME NEW hash \in todo, Explain(hash)
       PROVE  ActionsOK'
  <2>1. UNCHANGED <<pending, task>> /\ proc = "explain"
    BY <1>10 DEF Explain, indexer
  <2>2. CASE Close("dead")
    BY <1>0, <2>1, <2>2, CloseLoses, ActionsQuiet
  <2>3. CASE hash \notin StoredHashes
    <3>1. UNCHANGED <<lost, queue, proc>> /\ todo' = todo \ {hash}
      BY <1>10, <2>3 DEF Explain
    <3>2. Coming' = Coming
      BY <2>1, <3>1 DEF Coming
    <3>3. \A h \in DOMAIN ids : \A i \in Places(h) : Hash(h, i) # hash
      BY <2>3, PlacesStored
    <3>4. ASSUME NEW h \in DOMAIN ids, NEW i \in Places(h), Due(h, i)
          PROVE  Due(h, i)'
      BY <1>0, <2>1, <3>1, <3>3, <3>4 DEF Due
    <3> QED
      BY <1>0, <3>1, <3>2, <3>4, ActionsQuiet
  <2>4. CASE proc' = "write actions" /\ UNCHANGED <<queue, lost, todo>>
    <3>1. Coming' = Coming
      BY <2>1, <2>4 DEF Coming
    <3>2. \A h, i : Due(h, i) => Due(h, i)'
      BY <1>0, <2>1, <2>4 DEF Due
    <3> QED
      BY <1>0, <2>4, <3>1, <3>2, ActionsQuiet
  <2> QED
    BY <1>10, <2>2, <2>3, <2>4 DEF Explain
<1>11. CASE PersistTransactionActions
  <2>1. /\ UNCHANGED <<lost, queue, pending, task>> /\ proc = "write actions"
        /\ proc' = "explain" /\ todo' = todo \ {draft.of}
        /\ actions' = ActionsWith(draft.of, draft.types)
    BY <1>11 DEF PersistTransactionActions, indexer
  <2>2. Coming' = Coming
    BY <2>1 DEF Coming
  <2>3. ASSUME NEW h \in DOMAIN ids, NEW i \in Places(h), Due(h, i)
        PROVE  Due(h, i)' \/ Done(h, i)'
    <3>1. CASE Hash(h, i) = draft.of
      <4>1. Explains(draft.of, draft.types)
        BY <2>1 DEF DraftOK
      <4> QED
        BY <1>0, <2>1, <3>1, <4>1, WrittenIsDone
    <3>2. CASE Hash(h, i) # draft.of
      BY <1>0, <2>1, <2>3, <3>2 DEF Due
    <3> QED
      BY <3>1, <3>2
  <2> QED
    BY <1>0, <2>1, <2>2, <2>3, ActionsQuiet
<1>12. CASE AnalyzeAddresses \/ AnalyzeContracts \/ DetectAnomalies
  <2>1. /\ UNCHANGED <<lost, queue, pending>>
        /\ (proc = "explain" /\ todo = {}) \/ proc \in {"contracts", "anomalies"}
    BY <1>12 DEF AnalyzeAddresses, AnalyzeContracts, DetectAnomalies, Passes, indexer
  <2>2. Coming' = Coming /\ \A h, i : ~Due(h, i)
    BY <2>1 DEF Coming, Due
  <2> QED
    BY <1>0, <2>1, <2>2, ActionsQuiet
<1>13. CASE AnalyzeBlock
  <2>1. UNCHANGED pending /\ proc = "block"
    BY <1>13 DEF AnalyzeBlock, indexer
  <2>2. CASE Close("dead")
    BY <1>0, <2>1, <2>2, CloseLoses, ActionsQuiet
  <2>3. CASE UNCHANGED <<queue, lost>>
    <3>1. Coming' = Coming /\ \A h, i : ~Due(h, i)
      BY <2>1, <2>3 DEF Coming, Due
    <3> QED
      BY <1>0, <2>3, <3>1, ActionsQuiet
  <2> QED
    BY <1>13, <2>2, <2>3 DEF AnalyzeBlock
<1> QED
  BY <1>1, <1>2, <1>3, <1>4, <1>5, <1>6, <1>7, <1>8, <1>9, <1>10, <1>11, <1>12, <1>13
     DEF Others, Process

-----------------------------------------------------------------------------
ActionsInv == TableInv /\ OnBranch /\ ActionsOK

LEMMA ActionsInit == Init => ActionsInv
<1> SUFFICES ASSUME Init
             PROVE  OnBranch /\ ActionsOK
  BY TableInit DEF ActionsInv
<1>1. ids = <<>> /\ DOMAIN ids = {}
  BY DEF Init
<1>2. <<>> \in [1..0 -> DOMAIN Body] /\ 0 \in 0..MaxCommits
  BY BackgroundConfig
<1>3. OnBranch
  BY <1>1, <1>2 DEF OnBranch, Branches
<1> QED
  BY <1>1, <1>3 DEF ActionsOK

LEMMA ActionsNext == ActionsInv /\ [Next]_vars => ActionsInv'
<1> SUFFICES ASSUME ActionsInv, [Next]_vars
             PROVE  OnBranch' /\ ActionsOK'
  BY TableNext DEF ActionsInv
<1> USE DEF ActionsInv, TableInv
<1>1. ASSUME NEW id \in DOMAIN Body, NEW seen \in BOOLEAN, Commit(id, seen)
      PROVE  OnBranch' /\ ActionsOK'
  BY <1>1, BranchCommit, ActionsCommit
<1>2. ASSUME NEW k \in 0..MaxCommits, Rollback(k)
      PROVE  OnBranch' /\ ActionsOK'
  BY <1>2, BranchRollback, ActionsRollback
<1>3. CASE Others
  <2>1. OnBranch'
    BY <1>3, OthersWrite DEF OnBranch
  <2> QED
    BY <1>3, <2>1, ActionsOthers
<1>4. CASE UNCHANGED vars
  <2>1. UNCHANGED <<ids, lost, queue, pending, proc, task, todo, actions>>
    BY <1>4 DEF vars, indexer
  <2>2. Coming' = Coming /\ \A h, i : Due(h, i)' = Due(h, i)
    BY <2>1 DEF Coming, Due, Hash
  <2>3. ActionsOK'
    BY <2>1, <2>2, ActionsQuiet
  <2> QED
    BY <2>1, <2>3 DEF OnBranch
<1> QED
  BY <1>1, <1>2, <1>3, <1>4 DEF Next, Others

\* Nothing is under way: what has its actions by then.
LEMMA RestIsExplained ==
  ASSUME Control, ActionsOK, main = "running", queue = <<>>,
         proc \in {"idle", "dead", "stopped"}, NEW h \in DOMAIN ids \ lost
  PROVE  Explained(h)
<1>1. pending = 0 /\ h # 0 /\ ToSet(queue) = {}
  BY HeightFacts DEF Control, MainOK, ToSet
<1>2. h \notin Coming
  BY <1>1 DEF Coming
<1>3. \A i \in Places(h) : Done(h, i)
  BY <1>2 DEF ActionsOK, Due
<1>4. ASSUME NEW r \in RowsOf(Stored, h), NEW t \in ExplainTransaction(r.tx)
      PROVE  [tx |-> r.tx.hash, type |-> t] \in DOMAIN actions
  <2>1. r \in Rows(Stored) /\ r.height = h
    BY DEF RowsOf
  <2>2. PICK g \in DOMAIN ids : \E i \in Places(g) :
          r = [height |-> g, index |-> i, tx |-> Body[ids[g]].txs[i]]
    BY <2>1, StoredRowFacts
  <2>3. PICK i \in Places(g) : r = [height |-> g, index |-> i, tx |-> Body[ids[g]].txs[i]]
    BY <2>2
  <2>4. g = h /\ r.tx = Body[ids[h]].txs[i]
    BY <2>1, <2>3
  <2> QED
    BY <1>3, <1>4, <2>4 DEF Done
<1> QED
  BY <1>4 DEF Explained

\* At least once: whatever a reorganisation, a full channel, a panic and the order
\* of the tasks do, a processor at rest leaves no stored block without the
\* actions of its transactions, but those that were dropped on the way
\* (background.rs, process_block; rollback.rs).
THEOREM RestLeavesExplained == Spec => []ExplainedUnlessDropped
<1>1. ActionsInv => ExplainedUnlessDropped
  BY RestIsExplained DEF ActionsInv, TableInv, ExplainedUnlessDropped
<1> QED
  BY <1>1, ActionsInit, ActionsNext, PTL DEF Spec
=============================================================================
