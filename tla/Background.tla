----------------------------- MODULE Background -----------------------------
(* The background processor (intelligence/background.rs) and the rows it     *)
(* writes (intelligence/persist.rs, migrations/0002_intelligence.sql), next  *)
(* to the main task that commits blocks and rolls them back.                 *)
(*                                                                           *)
(* After every commit main puts the block's number into a bounded channel    *)
(* and waits while it is full.  The processor takes one number at a time and *)
(* works through the block in single statements, each on its own connection: *)
(* commits and rollbacks of main come between any two of them.  A failed     *)
(* statement is dropped, a panic ends the task for good.                     *)
(*                                                                           *)
(* Of the tables of the intelligence layer only transaction_actions gets     *)
(* rows: what the processor computes for addresses, contracts, anomalies and *)
(* blocks fails, panics or is refused for its types on every attempt, so     *)
(* these parts of process_block are steps that write nothing.                *)
EXTENDS Intelligence, BagsExt, SequencesExt

CONSTANTS
  Body,         \* block id -> [txs, transfers]
  Parent,       \* block id -> id of its parent, or None
  Capacity,     \* 100: mpsc::channel of new
  MaxCommits, MaxRollbacks, MaxFaults  \* bounds

ASSUME BackgroundConfig ==
  /\ Capacity \in Nat \ {0}
  /\ {MaxCommits, MaxRollbacks, MaxFaults} \subseteq Nat
  /\ \A b \in DOMAIN Body : Len(Body[b].txs) \in Nat /\ DOMAIN Body[b].txs = 1..Len(Body[b].txs)

\* A transaction hash stands for one transaction.
ASSUME HashesIdentify ==
  \A b, c \in DOMAIN Body : \A i \in DOMAIN Body[b].txs, j \in DOMAIN Body[c].txs :
    Body[b].txs[i].hash = Body[c].txs[j].hash => Body[b].txs[i] = Body[c].txs[j]

\* The chains of blocks that can be stored.
Branches ==
  {s \in UNION {[1..n -> DOMAIN Body] : n \in 0..MaxCommits} :
     \A h \in DOMAIN s : Parent[s[h]] = IF h = 1 THEN None ELSE s[h - 1]}

\* No transaction is in two blocks of one chain: its nonce is used up.
ASSUME OnceOnABranch ==
  \A s \in Branches : \A g, h \in DOMAIN s :
    \A i \in DOMAIN Body[s[g]].txs, j \in DOMAIN Body[s[h]].txs :
      Body[s[g]].txs[i].hash = Body[s[h]].txs[j].hash => g = h

VARIABLES
  ids,        \* the blocks table: block ids by height
  queue,      \* the channel: heights, or Shutdown
  main,       \* what the main task is doing
  pending,    \* the height main is announcing
  cancelled,  \* the shutdown token
  proc,       \* the processor's next statement
  task, todo, draft,  \* its block, the hashes left, the explanation to write
  actions,    \* the table transaction_actions
  lost,       \* observer: heights not explained to the end
  commits, rollbacks, faults

indexer == <<ids, main, pending, cancelled, commits, rollbacks>>
vars == <<indexer, queue, proc, task, todo, draft, actions, lost, faults>>

Shutdown == 0   \* IntelligenceTask::Shutdown; heights start at 1
NoDraft == [of |-> None]

Stored == [h \in DOMAIN ids |-> Body[ids[h]]]
StoredHashes == {r.tx.hash : r \in Rows(Stored)}
Heights == 1..MaxCommits

TypeOK ==
  /\ ids \in Seq(DOMAIN Body) /\ queue \in Seq(Heights \cup {Shutdown})
  /\ Len(queue) <= Capacity
  /\ main \in {"running", "notifying", "joining", "stopping", "closing", "stopped"}
  /\ pending \in 0..MaxCommits
  /\ proc \in {"idle", "hashes", "explain", "write actions", "contracts", "anomalies",
               "block", "dead", "stopped"}
  /\ task \in 0..MaxCommits /\ lost \subseteq Heights
  /\ IsABag(actions)

Init ==
  /\ ids = <<>> /\ queue = <<>> /\ main = "running" /\ pending = 0
  /\ cancelled = FALSE
  /\ proc = "idle" /\ task = 0 /\ todo = {} /\ draft = NoDraft
  /\ actions = EmptyBag
  /\ lost = {} /\ commits = 0 /\ rollbacks = 0 /\ faults = 0

(***************************************************************************)
(* The main task                                                           *)
(***************************************************************************)

\* A block that links to the stored tip is committed; main goes on to announce
\* it, unless the commit's outcome never reached it.
Commit(id, seen) ==
  /\ main = "running" /\ commits < MaxCommits
  /\ Parent[id] = IF ids = <<>> THEN None ELSE Last(ids)
  /\ ids' = Append(ids, id)
  /\ main' = IF seen THEN "notifying" ELSE "running"
  /\ pending' = IF seen THEN Len(ids) + 1 ELSE 0
  /\ lost' = IF seen THEN lost \ {Len(ids) + 1} ELSE lost \cup {Len(ids) + 1}
  /\ faults' = IF seen THEN faults ELSE faults + 1
  /\ faults' <= MaxFaults
  /\ commits' = commits + 1
  /\ UNCHANGED <<queue, cancelled, proc, task, todo, draft, actions, rollbacks>>

\* The receiver is dropped with the task, by a panic or a shutdown.
ChannelClosed == proc \in {"dead", "stopped"}

\* Variants: one gives up when the channel is full, one waits for room even if
\* nobody will ever make any.
NotifyOrDrop ==
  /\ main = "notifying"
  /\ \/ ChannelClosed /\ lost' = lost \cup {pending} /\ UNCHANGED queue
     \/ ~ChannelClosed /\ UNCHANGED lost
        /\ queue' = IF Len(queue) < Capacity THEN Append(queue, pending) ELSE queue
  /\ main' = "running" /\ pending' = 0
  /\ UNCHANGED <<ids, cancelled, proc, task, todo, draft, actions, commits, rollbacks,
                 faults>>

NotifyForever ==
  /\ main = "notifying" /\ ~ChannelClosed
  /\ Len(queue) < Capacity /\ queue' = Append(queue, pending)
  /\ main' = "running" /\ pending' = 0
  /\ UNCHANGED <<ids, cancelled, proc, task, todo, draft, actions, lost, commits,
                 rollbacks, faults>>

\* notify_block_committed: waits while the channel is full, and an error (the
\* receiver is gone) is ignored.
Notify ==
  /\ main = "notifying"
  /\ \/ /\ ChannelClosed /\ UNCHANGED queue
        /\ lost' = lost \cup {pending}
     \/ /\ ~ChannelClosed /\ Len(queue) < Capacity
        /\ queue' = Append(queue, pending) /\ UNCHANGED lost
  /\ main' = "running" /\ pending' = 0
  /\ UNCHANGED <<ids, cancelled, proc, task, todo, draft, actions, commits, rollbacks,
                 faults>>

\* ON DELETE CASCADE of transaction_actions when the transactions of hashes gone
\* are deleted.
KeptActions(gone) ==
  LET keep == {r \in DOMAIN actions : r.tx \notin gone} IN [r \in keep |-> actions[r]]

\* rollback, one transaction.
Rollback(k) ==
  /\ main = "running" /\ rollbacks < MaxRollbacks /\ k < Len(ids)
  /\ actions' = KeptActions({r.tx.hash : r \in {q \in Rows(Stored) : q.height > k}})
  /\ ids' = SubSeq(ids, 1, k)
  /\ lost' = {h \in lost : h <= k}
  /\ rollbacks' = rollbacks + 1
  /\ UNCHANGED <<queue, main, pending, cancelled, proc, task, todo, draft, commits,
                 faults>>

\* The shutdown token may be set at any moment; main sees it between blocks.
Cancel ==
  /\ ~cancelled /\ cancelled' = TRUE
  /\ UNCHANGED <<ids, queue, main, pending, proc, task, todo, draft, actions, lost,
                 commits, rollbacks, faults>>

\* main leaves its loop at once (at its top, in the head watcher, while it sleeps)
\* or breaks out of the receiving loop, and then joins workers and sequencer.
LeaveLoop ==
  /\ main = "running" /\ cancelled /\ main' \in {"joining", "stopping"}
  /\ UNCHANGED <<ids, queue, pending, cancelled, proc, task, todo, draft, actions,
                 lost, commits, rollbacks, faults>>

\* The joins end, if they do: modules Pipeline and Indexer show when.
EndJoins ==
  /\ main = "joining" /\ main' = "stopping"
  /\ UNCHANGED <<ids, queue, pending, cancelled, proc, task, todo, draft, actions,
                 lost, commits, rollbacks, faults>>

\* The processor has explanations of its block left to write.
Explaining == proc \in {"hashes", "write actions"} \/ (proc = "explain" /\ todo # {})

\* The announced heights that are not explained to the end.
Unfinished(announcing) ==
  (ToSet(queue) \cup (IF Explaining THEN {task} ELSE {}) \cup {announcing}) \ {0}

\* The task ends and its end of the channel with it.
Close(how) ==
  /\ proc' = how /\ queue' = <<>>
  /\ lost' = lost \cup (Unfinished(0) \cap DOMAIN ids)

\* A variant that waits until the processor has said that it stops.
StopOnceAcknowledged ==
  /\ main = "stopping" /\ proc = "stopped" /\ main' = "closing"
  /\ UNCHANGED <<ids, queue, pending, cancelled, proc, task, todo, draft, actions,
                 lost, commits, rollbacks, faults>>

\* BackgroundProcessor::shutdown waits for room like Notify.
Stop ==
  /\ main = "stopping" /\ main' = "closing"
  /\ \/ ChannelClosed /\ UNCHANGED queue
     \/ ~ChannelClosed /\ Len(queue) < Capacity /\ queue' = Append(queue, Shutdown)
  /\ UNCHANGED <<ids, pending, cancelled, proc, task, todo, draft, actions, lost,
                 commits, rollbacks, faults>>

\* The pool is closed and main returns, which drops every task.
Exit ==
  /\ main = "closing" /\ main' = "stopped"
  /\ Close("stopped") /\ task' = 0 /\ todo' = {} /\ draft' = NoDraft
  /\ UNCHANGED <<ids, pending, cancelled, actions, commits, rollbacks, faults>>

\* The process dies and starts again: the channel and the work at hand are gone.
Crash ==
  /\ faults < MaxFaults /\ faults' = faults + 1
  /\ lost' = lost \cup (Unfinished(pending) \cap DOMAIN ids)
  /\ queue' = <<>> /\ main' = "running" /\ pending' = 0 /\ cancelled' = FALSE
  /\ proc' = "idle" /\ task' = 0 /\ todo' = {} /\ draft' = NoDraft
  /\ UNCHANGED <<ids, actions, commits, rollbacks>>

(***************************************************************************)
(* The processor                                                           *)
(***************************************************************************)

\* One round of the select loop.
Take ==
  /\ proc = "idle" /\ queue # <<>> /\ Head(queue) # Shutdown
  /\ proc' = "hashes" /\ task' = Head(queue) /\ queue' = Tail(queue)
  /\ UNCHANGED <<indexer, todo, draft, actions, lost, faults>>

StopTask ==
  /\ proc = "idle"
  /\ cancelled \/ (queue # <<>> /\ Head(queue) = Shutdown)
  /\ Close("stopped")
  /\ UNCHANGED <<indexer, task, todo, draft, actions, faults>>

TaskRows == {r \in Rows(Stored) : r.height = task}

SelectHashes ==
  /\ proc = "hashes" /\ proc' = "explain" /\ todo' = {r.tx.hash : r \in TaskRows}
  /\ UNCHANGED <<indexer, queue, task, draft, actions, lost, faults>>

\* explain_transaction, of one hash in the order the query gave: one that is gone
\* by now is an error and skipped, and calldata that is shorter than what is
\* sliced from it ends the task.
Explain(hash) ==
  /\ proc = "explain" /\ hash \in todo
  /\ IF hash \notin StoredHashes
     THEN /\ todo' = todo \ {hash}
          /\ UNCHANGED <<indexer, queue, proc, task, draft, actions, lost, faults>>
     ELSE LET tx == (CHOOSE r \in Rows(Stored) : r.tx.hash = hash).tx IN
          IF ExplainPanics(tx)
          THEN Close("dead") /\ UNCHANGED <<indexer, task, todo, draft, actions, faults>>
          ELSE /\ proc' = "write actions"
               /\ draft' = [of |-> hash, types |-> ExplainTransaction(tx)]
               /\ UNCHANGED <<indexer, queue, task, todo, actions, lost, faults>>

\* transaction_actions.tx_hash REFERENCES transactions: the rows of a transaction
\* that is gone are refused, and the error ignored.  The key is a sequence, so
\* the ON CONFLICT DO NOTHING never applies.
ActionsWith(hash, types) ==
  IF hash \in StoredHashes
  THEN actions (+) SetToBag({[tx |-> hash, type |-> t] : t \in types}) ELSE actions

PersistTransactionActions ==
  /\ proc = "write actions" /\ proc' = "explain"
  /\ actions' = ActionsWith(draft.of, draft.types)
  /\ todo' = todo \ {draft.of} /\ draft' = NoDraft
  /\ UNCHANGED <<indexer, queue, task, lost, faults>>

\* The rest of process_block writes nothing.
Passes(step, next) ==
  /\ proc = step /\ proc' = next
  /\ UNCHANGED <<indexer, queue, task, todo, draft, actions, lost, faults>>

\* analyze_address compares BYTEA with LIKE '\x%' and fails for every address.
AnalyzeAddresses == todo = {} /\ Passes("explain", "contracts")

\* analyze_contract returns a profile, whose insert is refused: it binds text to
\* TIMESTAMPTZ columns.
AnalyzeContracts == Passes("contracts", "anomalies")

\* detect_anomalies binds text to a NUMERIC comparison and fails.
DetectAnomalies == Passes("anomalies", "block")

\* analyze_block: a block that is gone by now is an error; of a stored one it reads
\* tx_count, an INT4, as i64, which panics.
AnalyzeBlock ==
  /\ proc = "block"
  /\ IF task \in DOMAIN ids
     THEN Close("dead") /\ UNCHANGED task
     ELSE proc' = "idle" /\ task' = 0 /\ UNCHANGED <<queue, lost>>
  /\ UNCHANGED <<indexer, todo, draft, actions, faults>>

\* A statement fails for a reason of its own (the database is away, or the pool is
\* closed under the processor): the rest of the block is dropped by `?' in the
\* list queries, the single hash or analysis everywhere else.
Refused ==
  /\ \/ main = "closing" /\ UNCHANGED faults
     \/ faults < MaxFaults /\ faults' = faults + 1
  /\ lost' = IF Explaining THEN lost \cup ({task} \cap DOMAIN ids) ELSE lost
  /\ \/ /\ proc \in {"hashes", "contracts", "block"} \/ (proc = "explain" /\ todo = {})
        /\ proc' = "idle" /\ task' = 0 /\ todo' = {} /\ draft' = NoDraft
     \/ /\ proc = "explain" /\ \E hash \in todo : todo' = todo \ {hash}
        /\ UNCHANGED <<proc, task, draft>>
     \/ /\ proc = "write actions" /\ proc' = "explain"
        /\ todo' = todo \ {draft.of} /\ draft' = NoDraft /\ UNCHANGED task
     \/ /\ proc = "anomalies" /\ proc' = "block" /\ UNCHANGED <<task, todo, draft>>
  /\ UNCHANGED <<indexer, queue, actions>>

Process ==
  \/ Take \/ StopTask
  \/ SelectHashes \/ (\E hash \in todo : Explain(hash)) \/ PersistTransactionActions
  \/ AnalyzeAddresses \/ AnalyzeContracts \/ DetectAnomalies \/ AnalyzeBlock

Next ==
  \/ \E id \in DOMAIN Body, seen \in BOOLEAN : Commit(id, seen)
  \/ Notify
  \/ \E k \in 0..MaxCommits : Rollback(k)
  \/ Cancel \/ LeaveLoop \/ EndJoins \/ Stop \/ Exit \/ Crash
  \/ Process \/ Refused

\* The runtime polls both tasks, and the database answers.  The joins of main are
\* left out: nothing makes them end.
Fairness == WF_vars(Notify) /\ WF_vars(Stop) /\ WF_vars(Exit) /\ WF_vars(Process)

Spec == Init /\ [][Next]_vars
FairSpec == Spec /\ Fairness

(***************************************************************************)
(* Properties                                                              *)
(***************************************************************************)

\* The actions of every transaction of the block stored at h are in the table.
Explained(h) ==
  \A r \in RowsOf(Stored, h) :
    \A t \in ExplainTransaction(r.tx) : [tx |-> r.tx.hash, type |-> t] \in DOMAIN actions

\* At least once, as far as it holds: when nothing is under way any more, every
\* transaction of the chain stored now has its actions, also where blocks were
\* replaced, with some of their transactions, while the processor was at them.
\* Left out are only the blocks of a failed statement, a panic, a crash, a lost
\* outcome of a commit, and those announced to a processor that is gone.
ExplainedUnlessDropped ==
  main = "running" /\ queue = <<>> /\ proc \in {"idle", "dead", "stopped"} =>
    \A h \in DOMAIN ids \ lost : Explained(h)

\* A full channel, a dead processor and a shutdown never keep main from
\* going on to the next block (main.rs awaits notify_block_committed).
MainGoesOn == main = "notifying" ~> main # "notifying"

\* Behind its joins main comes to its end whatever the channel holds and whether
\* the processor is at work, has panicked or has stopped on its own (main.rs awaits
\* shutdown and closes the pool).  Whether main gets there is another matter.
ShutdownEnds ==
  main \in {"stopping", "closing"} ~> main \notin {"stopping", "closing"}

\* "Intelligence computed incrementally as blocks are indexed": every block
\* that main announces and that stays gets its actions, unless the program stops.
EveryBlockAnalysed ==
  \A h \in Heights :
    pending = h ~> \/ h \notin DOMAIN ids \/ cancelled
                   \/ h \in DOMAIN ids /\ Explained(h)

\* "Idempotent writes": no row is there twice.
IdempotentWrites == \A r \in DOMAIN actions : actions[r] = 1
=============================================================================
