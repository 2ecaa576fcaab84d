--------------------------- MODULE IndexerProofs ---------------------------
(***************************************************************************)
(* Proofs about module Indexer, for every block tree, backfill start,      *)
(* reorg depth, queue depth and choice of faults.                          *)
(***************************************************************************)
EXTENDS Indexer, FiniteSetTheorems, NaturalsInduction, WellFoundedInduction, TLAPS

(* What a branch gives at a height.                                        *)
LEMMA BranchFacts ==
  ASSUME NEW c \in Chains, NEW k \in DOMAIN c
  PROVE  /\ k \in Nat
         /\ c[k] \in Block
         /\ Number[c[k]] = k
         /\ k > 0 => k - 1 \in DOMAIN c /\ Parent[c[k]] = c[k - 1]
<1>1. PICK h \in DOMAIN c :
        /\ DOMAIN c = 0..h
        /\ \A j \in 0..h : c[j] \in Block /\ Number[c[j]] = j
        /\ \A j \in 1..h : Parent[c[j]] = c[j - 1]
  BY ChainAssumption DEF IsBranch
<1>2. h \in Nat /\ k \in 0..h
  BY <1>1
<1> QED
  BY <1>1, <1>2

-----------------------------------------------------------------------------
(* Type correctness needs three facts about the control: an absent cursor  *)
(* has neither number nor hash, the block being committed is the one at    *)
(* height n, and an ancestor lies below it.                                *)
Fetched == {"detect", "ancestor", "rollback", "receipts", "commit"}

Control ==
  /\ cursor.number = -1 => cursor = NoCursor
  /\ pc \in Fetched => block \in Block /\ Number[block] = n
  /\ pc = "rollback" => ancestor <= n

TypeInv == TypeOK /\ Control

USE DEF tables, batch, local

(* A new process starts from well-typed variables.                         *)
LEMMA ProcessEndsTypes ==
  ASSUME TypeInv, ProcessEnds
  PROVE  TypeInv'
<1>1. (shutdown \in BOOLEAN)'
  BY Zenon DEF ProcessEnds
<1>2. (depth \in 0..MaxReorgDepth)'
  BY IndexerAssumption DEF ProcessEnds, DropLocals
<1>3. Control'
  BY DEF TypeInv, Control, Fetched, ProcessEnds
<1> QED
  BY <1>1, <1>2, <1>3 DEF TypeInv, TypeOK, PCs, ProcessEnds, DropBatch, DropLocals

(* Every successful transaction leaves well-typed tables.                  *)
LEMMA CommitTypes ==
  ASSUME TypeInv, pc = "commit", StoreCommitBlock(block, receipts)
  PROVE  /\ blocks' \subseteq Block
         /\ cursor' \in [number : Nat, hash : Block]
  BY ChainAssumption
     DEF TypeInv, TypeOK, Control, Fetched, StoreCommitBlock, InsertBlock,
         UpdateCursor

LEMMA RollbackTypes ==
  ASSUME TypeInv, pc = "rollback", StoreRollback(ancestor, n)
  PROVE  /\ blocks' = { b \in blocks : Number[b] <= ancestor }
         /\ cursor' = [number |-> ancestor, hash |-> ZeroHash]
<1>1. 1 \in 1..(n - ancestor + 1)
  BY DEF TypeInv, TypeOK, Control
<1>2. OrphanedHashes(ancestor, n)[1] = ZeroHash
  BY <1>1 DEF OrphanedHashes
<1> QED
  BY <1>2 DEF StoreRollback, KeptBlocks

LEMMA StoredPositionIsNat ==
  ASSUME TypeInv
  PROVE  StoredPosition \in Nat
  BY IndexerAssumption
     DEF TypeInv, TypeOK, Control, StoredPosition, SaturatingPred, NoCursor

LEMMA TypeInvInit == Init => TypeInv
<1> SUFFICES ASSUME Init
             PROVE  TypeInv
  OBVIOUS
<1>1. shutdown \in BOOLEAN
  BY Zenon DEF Init
<1>2. Control
  BY DEF Init, StoreInit, Control, Fetched
<1>3. depth \in 0..MaxReorgDepth
  BY IndexerAssumption DEF Init
<1>4. cursor \in [number : Nat \cup {-1}, hash : Block \cup {ZeroHash, EmptyHash}]
  BY DEF Init, StoreInit, NoCursor
<1> QED
  BY <1>1, <1>2, <1>3, <1>4 DEF Init, StoreInit, TypeInv, TypeOK, PCs

LEMMA TypeInvNext == TypeInv /\ [Next]_vars => TypeInv'
<1> SUFFICES ASSUME TypeInv, [Next]_vars
             PROVE  TypeInv'
  OBVIOUS
<1> USE IndexerAssumption DEF TypeInv, TypeOK, Control, Fetched, PCs, Committing
<1>1. CASE NodeMove /\ UNCHANGED <<tables, pc, shutdown, memCursor, batch, local>>
  BY <1>1 DEF NodeMove
<1>2. CASE ReadCursor
  BY <1>2, StoredPositionIsNat DEF ReadCursor
<1>3. CASE LoopTop
  BY <1>3 DEF LoopTop
<1>4. CASE WatchHead
  <2>1. PICK latest \in DOMAIN chain : StartBatch(latest)
    BY <1>4 DEF WatchHead
  <2>2. latest \in Nat
    BY BranchFacts
  <2>3. batchNext' \in Nat /\ batchLast' \in Nat
    BY <2>1, <2>2 DEF StartBatch, BatchSize
  <2> QED
    BY <1>4, <2>3 DEF WatchHead
<1>26. CASE WatchSafe
  BY <1>26 DEF WatchSafe
<1>27. CASE WatchFinalized
  BY <1>27 DEF WatchFinalized, DropBatch
<1>28. CASE WatchFails
  BY <1>28 DEF WatchFails, DropBatch
<1>5. CASE WatchCancelled
  BY <1>5 DEF WatchCancelled
<1>6. CASE Receive
  BY <1>6 DEF Receive
<1>7. CASE ReceiveCancelled
  BY <1>7 DEF ReceiveCancelled, Break, DropBatch
<1>8. CASE BatchEnds
  BY <1>8 DEF BatchEnds, DropBatch
<1>9. CASE FetchBlock
  <2>1. chain[n] \in Block /\ Number[chain[n]] = n
    BY <1>9, BranchFacts DEF FetchBlock
  <2> QED
    BY <1>9, <2>1 DEF FetchBlock
<1>10. CASE Detect
  BY <1>10 DEF Detect
<1>11. CASE FindAncestor
  <2>1. (n - 1 - depth) \in Nat
    BY <1>11, BranchFacts DEF FindAncestor, Readable
  <2> QED
    BY <1>11, <2>1 DEF FindAncestor, DepthLeft, DropLocals
<1>12. CASE Rollback
  <2>1. StoreRollback(ancestor, n)
    BY <1>12 DEF Rollback
  <2>2. /\ blocks' = { b \in blocks : Number[b] <= ancestor }
        /\ cursor' = [number |-> ancestor, hash |-> ZeroHash]
    BY <1>12, <2>1, RollbackTypes DEF Rollback
  <2> QED
    BY <1>12, <2>2 DEF Rollback, DropLocals
<1>13. CASE Rewind
  BY <1>13, StoredPositionIsNat
     DEF Rewind, RewoundPositions, SaturatingPred, Break, DropBatch
<1>14. CASE FetchBlockReceipts
  BY <1>14 DEF FetchBlockReceipts
<1>15. CASE FetchNextReceipt
  BY <1>15 DEF FetchNextReceipt
<1>16. CASE Commit
  <2>1. StoreCommitBlock(block, receipts)
    BY <1>16 DEF Commit
  <2>2. /\ blocks' \subseteq Block
        /\ cursor' \in [number : Nat, hash : Block]
    BY <1>16, <2>1, CommitTypes DEF Commit
  <2> QED
    BY <1>16, <2>2 DEF Commit, DropLocals
<1>17. CASE CommitFails
  BY <1>17 DEF CommitFails, DropLocals
<1>18. CASE GoOn
  BY <1>18 DEF GoOn
<1>19. CASE GoOnCancelled
  BY <1>19 DEF GoOnCancelled, Break, DropBatch
<1>20. CASE Close
  BY <1>20, ProcessEndsTypes DEF Close
<1>21. CASE LoseAck
  <2>1. CASE pc = "commit" /\ StoreCommitBlock(block, receipts)
    <3>1. /\ blocks' \subseteq Block
          /\ cursor' \in [number : Nat, hash : Block]
      BY <2>1, CommitTypes
    <3> QED
      BY <1>21, <3>1 DEF LoseAck, DropLocals
  <2>2. CASE pc = "rollback" /\ StoreRollback(ancestor, n)
    <3>1. /\ blocks' = { b \in blocks : Number[b] <= ancestor }
          /\ cursor' = [number |-> ancestor, hash |-> ZeroHash]
      BY <2>2, RollbackTypes
    <3> QED
      BY <1>21, <3>1 DEF LoseAck, DropLocals
  <2> QED
    BY <1>21, <2>1, <2>2 DEF LoseAck
<1>22. CASE RequestShutdown
  BY <1>22 DEF RequestShutdown
<1>23. CASE Crash
  BY <1>23, ProcessEndsTypes DEF Crash
<1>24. CASE Restart
  BY <1>24 DEF Restart
<1>25. CASE UNCHANGED vars
  BY <1>25 DEF vars
<1> QED
  BY <1>1, <1>2, <1>3, <1>4, <1>5, <1>6, <1>7, <1>8, <1>9, <1>10, <1>11, <1>12,
     <1>13, <1>14, <1>15, <1>16, <1>17, <1>18, <1>19, <1>20, <1>21, <1>22,
     <1>23, <1>24, <1>25, <1>26, <1>27, <1>28
     DEF Next, Step

(* Type correctness of the indexer under every fault and reorganisation.   *)
THEOREM TypeCorrect == Spec => []TypeOK
<1>1. Spec => []TypeInv
  BY TypeInvInit, TypeInvNext, PTL DEF Spec
<1> QED
  BY <1>1, PTL DEF TypeInv

-----------------------------------------------------------------------------
(* The chain tables stay one linked, gapless chain under the cursor.  The  *)
(* strengthening says what main knows while it commits block n:            *)
(*   - the cursor is not above n, so nothing is stored above n;            *)
(*   - a block about to be written at height 2 or more has the cursor's    *)
(*     block as its parent (nobody writes between detect() and commit);    *)
(*   - a rollback goes to height 0 or to the cursor's own height;          *)
(*   - every stored block was canonical once, which with StableBase fixes  *)
(*     the blocks at the unchecked heights 0 and 1.                        *)
WasCanonical(b) ==
  \E c \in Chains : Number[b] \in DOMAIN c /\ c[Number[b]] = b

Progress ==
  /\ pc \in {"safe", "finalized", "recv", "failed", "ambiguous"} => cursor.number <= batchNext
  /\ pc \in Committing => cursor.number <= n /\ batchNext = n + 1
  /\ pc \in {"receipts", "commit"} => n <= 1 \/ cursor.hash = Parent[block]
  /\ pc = "detect" => n >= 1
  /\ pc \in {"ancestor", "rollback"} => n >= 2
  /\ pc = "rollback" => ancestor = 0 \/ ancestor = cursor.number

Provenance ==
  /\ \A b \in blocks : WasCanonical(b)
  /\ pc \in Fetched => WasCanonical(block)

IndInv ==
  /\ TypeInv
  /\ StoredChainLinked
  /\ CursorAtTip
  /\ MemoryAgrees
  /\ Progress
  /\ Provenance

(* The parent of a block that was canonical is the block one below.        *)
LEMMA ParentFacts ==
  ASSUME NEW b \in Block, WasCanonical(b), Number[b] >= 1
  PROVE  Parent[b] \in Block /\ Number[Parent[b]] = Number[b] - 1
<1>1. PICK c \in Chains : Number[b] \in DOMAIN c /\ c[Number[b]] = b
  BY DEF WasCanonical
<1>2. Number[b] - 1 \in DOMAIN c /\ Parent[b] = c[Number[b] - 1]
  BY <1>1, BranchFacts
<1> QED
  BY <1>2, BranchFacts

(* At the unchecked heights there is one block only.                       *)
LEMMA BaseFacts ==
  ASSUME StableBase,
         NEW a \in Block, WasCanonical(a),
         NEW b \in Block, WasCanonical(b),
         Number[a] = Number[b], Number[a] <= 1
  PROVE  a = b
<1>1. PICK c \in Chains : Number[a] \in DOMAIN c /\ c[Number[a]] = a
  BY DEF WasCanonical
<1>2. PICK d \in Chains : Number[b] \in DOMAIN d /\ d[Number[b]] = b
  BY DEF WasCanonical
<1>3. Number[a] \in {0, 1}
  BY ChainAssumption
<1> QED
  BY <1>1, <1>2, <1>3 DEF StableBase

(* The transaction of commit_block appends to the stored chain, or finds   *)
(* the very same block already there (heights 0 and 1 only).               *)
LEMMA CommitAppends ==
  ASSUME StableBase, IndInv, pc = "commit", StoreCommitBlock(block, receipts)
  PROVE  /\ cursor' = [number |-> n, hash |-> block]
         /\ block \in Block /\ Number[block] = n /\ WasCanonical(block)
         /\ \/ /\ \A b \in blocks : Number[b] < n
               /\ n <= 1 \/ Parent[block] \in blocks
               /\ blocks' = blocks \cup {block}
            \/ n <= 1 /\ block \in blocks /\ blocks' = blocks
<1> USE DEF IndInv, TypeInv, TypeOK, Control, Fetched, Progress, Provenance,
            Committing
<1>1. block \in Block /\ Number[block] = n /\ WasCanonical(block)
  OBVIOUS
<1>2. cursor' = [number |-> n, hash |-> block]
  BY <1>1 DEF StoreCommitBlock, UpdateCursor
<1>3. \A b \in blocks : Number[b] \in Nat /\ Number[b] <= n
  BY ChainAssumption DEF CursorAtTip
<1>4. CASE n <= 1
  <2>1. CASE \E r \in blocks : Number[r] = n
    <3>1. PICK r \in blocks : Number[r] = n
      BY <2>1
    <3>2. r = block
      BY <1>1, <1>4, <3>1, BaseFacts
    <3> QED
      BY <1>1, <1>2, <1>4, <2>1, <3>1, <3>2 DEF StoreCommitBlock, InsertBlock
  <2>2. CASE ~ \E r \in blocks : Number[r] = n
    BY <1>1, <1>2, <1>3, <1>4, <2>2 DEF StoreCommitBlock, InsertBlock
  <2> QED
    BY <2>1, <2>2
<1>5. CASE n >= 2
  <2>1. cursor.hash = Parent[block]
    BY <1>5
  <2>2. Parent[block] \in Block /\ Number[Parent[block]] = n - 1
    BY <1>1, <1>5, ParentFacts
  <2>3. Parent[block] \in blocks /\ cursor.number = n - 1
    BY <2>1, <2>2 DEF CursorAtTip
  <2>4. \A b \in blocks : Number[b] < n
    BY <1>3, <2>3 DEF CursorAtTip
  <2> QED
    BY <1>1, <1>2, <1>5, <2>3, <2>4 DEF StoreCommitBlock, InsertBlock
<1> QED
  BY <1>4, <1>5

(* A rollback drops everything above height 0, or nothing at all.          *)
LEMMA RollbackDropsAllOrNothing ==
  ASSUME IndInv, pc = "rollback", StoreRollback(ancestor, n)
  PROVE  /\ cursor' = [number |-> ancestor, hash |-> ZeroHash]
         /\ \/ ancestor = 0 /\ blocks' = { b \in blocks : Number[b] <= 0 }
            \/ ancestor = cursor.number /\ blocks' = blocks
<1>1. /\ blocks' = { b \in blocks : Number[b] <= ancestor }
      /\ cursor' = [number |-> ancestor, hash |-> ZeroHash]
  BY RollbackTypes DEF IndInv
<1>2. CASE ancestor = 0
  BY <1>1, <1>2
<1>3. CASE ancestor = cursor.number
  BY <1>1, <1>3 DEF IndInv, CursorAtTip
<1> QED
  BY <1>1, <1>2, <1>3 DEF IndInv, Progress

(* Steps that leave the tables alone keep the facts about them.            *)
LEMMA TablesKept ==
  ASSUME IndInv, UNCHANGED <<blocks, cursor>>
  PROVE  StoredChainLinked' /\ CursorAtTip' /\ (StoredPosition = StoredPosition')
         /\ \A b \in blocks' : WasCanonical(b)
  BY DEF IndInv, StoredChainLinked, CursorAtTip, StoredPosition, Provenance

LEMMA IndInvInit == Init => IndInv
<1> SUFFICES ASSUME Init
             PROVE  IndInv
  OBVIOUS
<1>1. TypeInv
  BY TypeInvInit
<1>2. StoredChainLinked /\ CursorAtTip
  BY ChainAssumption DEF Init, StoreInit, NoCursor, StoredChainLinked, CursorAtTip
<1>3. MemoryAgrees /\ Progress /\ Provenance
  BY DEF Init, StoreInit, MemoryAgrees, Progress, Provenance, Committing, Fetched
<1> QED
  BY <1>1, <1>2, <1>3 DEF IndInv

LEMMA IndInvNext ==
  ASSUME StableBase, OutcomesKnown
  PROVE  IndInv /\ [Next]_vars => IndInv'
<1> SUFFICES ASSUME IndInv, [Next]_vars
             PROVE  IndInv'
  OBVIOUS
<1> USE DEF MemoryAgrees, Progress, Provenance, Committing, Fetched
<1>0. TypeInv /\ TypeInv'
  BY TypeInvNext DEF IndInv
<1>1. CASE NodeMove /\ UNCHANGED <<tables, pc, shutdown, memCursor, batch, local>>
  BY <1>0, <1>1, TablesKept DEF IndInv
<1>2. CASE ReadCursor
  BY <1>0, <1>2, TablesKept DEF IndInv, ReadCursor
<1>3. CASE LoopTop
  BY <1>0, <1>3, TablesKept DEF IndInv, LoopTop
<1>4. CASE WatchHead
  <2>1. PICK latest \in DOMAIN chain : StartBatch(latest)
    BY <1>4 DEF WatchHead
  <2>2. latest \in Nat
    BY <1>0, BranchFacts DEF TypeInv, TypeOK
  <2>3. cursor.number <= memCursor
    BY <1>0, <1>4 DEF IndInv, WatchHead, StoredPosition, NoCursor, TypeInv, TypeOK
  <2>4. cursor.number <= batchNext'
    BY <1>0, <2>1, <2>2, <2>3, IndexerAssumption
       DEF StartBatch, BatchSize, TypeInv, TypeOK
  <2> QED
    BY <1>0, <1>4, <2>4, TablesKept DEF IndInv, WatchHead
<1>26. CASE WatchSafe
  BY <1>0, <1>26, TablesKept DEF IndInv, WatchSafe
<1>27. CASE WatchFinalized
  BY <1>0, <1>27, TablesKept DEF IndInv, WatchFinalized
<1>28. CASE WatchFails
  BY <1>0, <1>28, TablesKept DEF IndInv, WatchFails
<1>5. CASE WatchCancelled
  BY <1>0, <1>5, TablesKept DEF IndInv, WatchCancelled
<1>6. CASE Receive
  BY <1>0, <1>6, TablesKept DEF IndInv, Receive
<1>7. CASE ReceiveCancelled
  BY <1>0, <1>7, TablesKept DEF IndInv, ReceiveCancelled, Break
<1>8. CASE BatchEnds
  BY <1>0, <1>8, TablesKept DEF IndInv, BatchEnds
<1>9. CASE FetchBlock
  <2>1. WasCanonical(block') /\ (n = 0 \/ n >= 1)
    BY <1>0, <1>9, BranchFacts DEF FetchBlock, WasCanonical, TypeInv, TypeOK
  <2> QED
    BY <1>0, <1>9, <2>1, TablesKept DEF IndInv, FetchBlock, TypeInv, TypeOK
<1>10. CASE Detect
  BY <1>0, <1>10, TablesKept DEF IndInv, Detect, LinksToCursor, TypeInv, TypeOK
<1>11. CASE FindAncestor
  <2> DEFINE k == n - 1 - depth
  <2>1. k \in Nat /\ chain[k] \in Block /\ Number[chain[k]] = k
    BY <1>0, <1>11, BranchFacts DEF FindAncestor, Readable, TypeInv, TypeOK
  <2>2. cursor.hash = chain[k] => cursor.number = k
    BY <2>1 DEF IndInv, CursorAtTip
  <2>3. (n \in Nat) /\ (cursor.number \in Int) /\ (batchNext \in Nat)
    BY <1>0 DEF TypeInv, TypeOK
  <2>4. Progress'
    BY <1>11, <2>2, <2>3 DEF IndInv, FindAncestor, DropLocals
  <2> HIDE DEF k
  <2> QED
    BY <1>0, <1>11, <2>4, TablesKept DEF IndInv, FindAncestor, DropLocals
<1>12. CASE Rollback
  <2>1. /\ cursor' = [number |-> ancestor, hash |-> ZeroHash]
        /\ \/ ancestor = 0 /\ blocks' = { b \in blocks : Number[b] <= 0 }
           \/ ancestor = cursor.number /\ blocks' = blocks
    BY <1>12, RollbackDropsAllOrNothing DEF Rollback
  <2>2. blocks \subseteq Block /\ \A b \in blocks : Number[b] \in Nat
    BY <1>0, ChainAssumption DEF TypeInv, TypeOK
  <2>3. StoredChainLinked' /\ (\A b \in blocks' : WasCanonical(b))
    BY <2>1, <2>2 DEF IndInv, StoredChainLinked
  <2>4. CursorAtTip'
    BY <2>1, <2>2, ChainAssumption DEF IndInv, CursorAtTip
  <2> QED
    BY <1>0, <1>12, <2>3, <2>4 DEF IndInv, Rollback
<1>13. CASE Rewind
  BY <1>0, <1>13, TablesKept
     DEF IndInv, Rewind, RewoundPositions, Break, OutcomesKnown
<1>14. CASE FetchBlockReceipts
  BY <1>0, <1>14, TablesKept DEF IndInv, FetchBlockReceipts
<1>15. CASE FetchNextReceipt
  BY <1>0, <1>15, TablesKept DEF IndInv, FetchNextReceipt
<1>16. CASE Commit
  <2>1. /\ cursor' = [number |-> n, hash |-> block]
        /\ block \in Block /\ Number[block] = n /\ WasCanonical(block)
        /\ \/ /\ \A b \in blocks : Number[b] < n
              /\ n <= 1 \/ Parent[block] \in blocks
              /\ blocks' = blocks \cup {block}
           \/ n <= 1 /\ block \in blocks /\ blocks' = blocks
    BY <1>16, CommitAppends DEF Commit
  <2>2. /\ blocks \subseteq Block /\ \A b \in blocks : Number[b] \in Nat
        /\ n \in Nat /\ cursor.number \in Int /\ cursor.number <= n
    BY <1>0, <1>16, ChainAssumption DEF IndInv, Commit, TypeInv, TypeOK
  <2>3. StoredChainLinked' /\ (\A b \in blocks' : WasCanonical(b))
    BY <2>1, <2>2 DEF IndInv, StoredChainLinked
  <2>4. \A b \in blocks' : Number[b] <= cursor'.number
    BY <2>1, <2>2 DEF IndInv, CursorAtTip
  <2>5. \A h \in 1..n : \E b \in blocks' : Number[b] = h
    <3>1. CASE n <= 1
      BY <2>1, <2>2, <3>1
    <3>2. CASE n >= 2
      <4>1. cursor.hash = Parent[block]
        BY <1>16, <2>2, <3>2 DEF IndInv, Commit
      <4>2. Parent[block] \in Block /\ Number[Parent[block]] = n - 1
        BY <2>1, <2>2, <3>2, ParentFacts
      <4>3. cursor.number = n - 1
        BY <4>1, <4>2 DEF IndInv, CursorAtTip
      <4> QED
        BY <2>1, <2>2, <3>2, <4>3 DEF IndInv, CursorAtTip
    <3> QED
      BY <2>2, <3>1, <3>2
  <2>6. CursorAtTip'
    BY <2>1, <2>4, <2>5 DEF CursorAtTip
  <2>7. StoredPosition' = n
    BY <2>1, <2>2 DEF StoredPosition, NoCursor
  <2>8. Progress'
    BY <1>0, <1>16, <2>1, <2>2 DEF IndInv, Commit, TypeInv, TypeOK
  <2> QED
    BY <1>0, <1>16, <2>3, <2>6, <2>7, <2>8 DEF IndInv, Commit
<1>17. CASE CommitFails
  <2>1. pc \in Committing
    BY <1>17 DEF CommitFails, NotFound, CallFails
  <2>2. (n \in Nat) /\ (cursor.number \in Int) /\ (batchNext \in Nat)
    BY <1>0 DEF TypeInv, TypeOK
  <2>3. Progress' /\ MemoryAgrees'
    BY <1>17, <2>1, <2>2, TablesKept DEF IndInv, CommitFails
  <2> QED
    BY <1>0, <1>17, <2>3, TablesKept DEF IndInv, CommitFails
<1>18. CASE GoOn
  BY <1>0, <1>18, TablesKept DEF IndInv, GoOn
<1>19. CASE GoOnCancelled
  BY <1>0, <1>19, TablesKept DEF IndInv, GoOnCancelled, Break
<1>20. CASE Close \/ Crash
  BY <1>0, <1>20, TablesKept DEF IndInv, Close, Crash, ProcessEnds
<1>21. CASE LoseAck
  BY <1>21 DEF LoseAck, OutcomesKnown
<1>22. CASE RequestShutdown
  BY <1>0, <1>22, TablesKept DEF IndInv, RequestShutdown
<1>24. CASE Restart
  BY <1>0, <1>24, TablesKept DEF IndInv, Restart
<1>25. CASE UNCHANGED vars
  BY <1>0, <1>25, TablesKept DEF IndInv, vars
<1> QED
  BY <1>1, <1>2, <1>3, <1>4, <1>5, <1>6, <1>7, <1>8, <1>9, <1>10, <1>11, <1>12,
     <1>13, <1>14, <1>15, <1>16, <1>17, <1>18, <1>19, <1>20, <1>21, <1>22,
     <1>24, <1>25, <1>26, <1>27, <1>28
     DEF Next, Step

LEMMA IndInvHolds ==
  ASSUME StableBase, OutcomesKnown
  PROVE  Spec => []IndInv
  BY IndInvInit, IndInvNext, PTL DEF Spec

(* Whatever faults, crashes and reorganisations above height 1 happen, the *)
(* stored blocks are one linked chain.                                     *)
THEOREM StoredChainStaysLinked ==
  ASSUME StableBase, OutcomesKnown
  PROVE  Spec => []StoredChainLinked
  BY IndInvHolds, PTL DEF IndInv

(* Under the same conditions there is no gap below the cursor, nothing is  *)
(* stored above it, and its hash, if it is a block, is the stored tip.     *)
THEOREM CursorStaysAtTip ==
  ASSUME StableBase, OutcomesKnown
  PROVE  Spec => []CursorAtTip
  BY IndInvHolds, PTL DEF IndInv

(* Under the same conditions main's cursor and the database's agree at     *)
(* every point between two transactions, so that a restart continues where *)
(* the process was.                                                        *)
THEOREM MemoryStaysInAgreement ==
  ASSUME StableBase, OutcomesKnown
  PROVE  Spec => []MemoryAgrees
  BY IndInvHolds, PTL DEF IndInv

-----------------------------------------------------------------------------
(* The blocks table implements IndexedChain.                               *)

LEMMA RowFacts ==
  ASSUME StoredChainLinked
  PROVE  /\ DOMAIN RowAt = { Number[b] : b \in blocks }
         /\ \A b \in blocks : RowAt[Number[b]] = b
  BY DEF RowAt, StoredChainLinked

LEMMA RefinementInit == Init => Abstract!Init
<1> SUFFICES ASSUME Init
             PROVE  RowAt = [h \in {} |-> h]
  BY DEF Abstract!Init
<1>1. { Number[b] : b \in blocks } = {}
  BY DEF Init, StoreInit
<1> QED
  BY <1>1 DEF RowAt

(* A step either leaves the stored blocks alone, appends one, or drops     *)
(* those above height 0.                                                   *)
LEMMA StoredBlocksStep ==
  ASSUME StableBase, OutcomesKnown, IndInv, [Next]_vars
  PROVE  \/ blocks' = blocks
         \/ \E b \in Block : /\ \A a \in blocks : Number[a] < Number[b]
                             /\ Number[b] <= 1 \/ Parent[b] \in blocks
                             /\ Number[b] >= 1 => Number[Parent[b]] = Number[b] - 1
                             /\ blocks' = blocks \cup {b}
         \/ blocks' = { b \in blocks : Number[b] <= 0 }
<1>1. CASE Commit
  <2>1. /\ block \in Block /\ Number[block] = n /\ WasCanonical(block)
        /\ \/ /\ \A b \in blocks : Number[b] < n
              /\ n <= 1 \/ Parent[block] \in blocks
              /\ blocks' = blocks \cup {block}
           \/ blocks' = blocks
    BY <1>1, CommitAppends DEF Commit
  <2>2. Number[block] >= 1 => Number[Parent[block]] = Number[block] - 1
    BY <2>1, ParentFacts
  <2> QED
    BY <2>1, <2>2
<1>2. CASE Rollback
  BY <1>2, RollbackDropsAllOrNothing DEF Rollback
<1>3. CASE ~Commit /\ ~Rollback
  BY <1>3
     DEF Next, Step, vars, OutcomesKnown, LoseAck, ReadCursor, LoopTop, WatchHead,
         WatchSafe, WatchFinalized, WatchFails, WatchCancelled, Receive, ReceiveCancelled, BatchEnds, FetchBlock, Detect,
         FindAncestor, Rewind, FetchBlockReceipts, FetchNextReceipt, CommitFails,
         GoOn, GoOnCancelled, Close, Crash, ProcessEnds, RequestShutdown, Restart
<1> QED
  BY <1>1, <1>2, <1>3

LEMMA RefinementStep ==
  ASSUME StableBase, OutcomesKnown
  PROVE  IndInv /\ IndInv' /\ [Next]_vars => [Abstract!Next]_RowAt
<1> SUFFICES ASSUME IndInv, IndInv', [Next]_vars
             PROVE  Abstract!Next \/ RowAt' = RowAt
  OBVIOUS
<1>1. /\ DOMAIN RowAt = { Number[b] : b \in blocks }
      /\ \A b \in blocks : RowAt[Number[b]] = b
  BY RowFacts DEF IndInv
<1>2. /\ RowAt' = [h \in { Number[b] : b \in blocks' } |->
                     CHOOSE b \in blocks' : Number[b] = h]
      /\ \A b \in blocks' : RowAt'[Number[b]] = b
  BY DEF IndInv, StoredChainLinked, RowAt
<1>3. blocks \subseteq Block /\ \A b \in blocks : Number[b] \in Nat
  BY ChainAssumption DEF IndInv, TypeInv, TypeOK
<1>4. CASE blocks' = blocks
  BY <1>4 DEF RowAt
<1>5. ASSUME NEW b \in Block,
             \A a \in blocks : Number[a] < Number[b],
             Number[b] <= 1 \/ Parent[b] \in blocks,
             Number[b] >= 1 => Number[Parent[b]] = Number[b] - 1,
             blocks' = blocks \cup {b}
      PROVE  Abstract!Next
  <2>1. Number[b] \in Nat
    BY ChainAssumption
  <2>2. \A h \in DOMAIN RowAt : h < Number[b]
    BY <1>1, <1>5
  <2>3. Abstract!LinksToTop(b)
    BY <1>1, <1>5, <2>1 DEF Abstract!LinksToTop
  <2>4. { Number[a] : a \in blocks' } = DOMAIN RowAt \cup {Number[b]}
    BY <1>1, <1>5
  <2>5. RowAt' = [h \in DOMAIN RowAt \cup {Number[b]} |->
                    IF h = Number[b] THEN b ELSE RowAt[h]]
    <3>1. ASSUME NEW h \in DOMAIN RowAt \cup {Number[b]}
          PROVE  RowAt'[h] = IF h = Number[b] THEN b ELSE RowAt[h]
      <4>1. CASE h = Number[b]
        BY <1>2, <1>5, <4>1
      <4>2. CASE h # Number[b]
        <5>1. PICK a \in blocks : h = Number[a]
          BY <1>1, <4>2
        <5> QED
          BY <1>1, <1>2, <1>5, <4>2, <5>1
      <4> QED
        BY <4>1, <4>2
    <3> QED
      BY <1>2, <2>4, <3>1
  <2>6. Abstract!Append(b)
    BY <2>2, <2>3, <2>5 DEF Abstract!Append
  <2> QED
    BY <2>6 DEF Abstract!Next
<1>6. CASE blocks' = { b \in blocks : Number[b] <= 0 }
  <2>1. { Number[a] : a \in blocks' } = { j \in DOMAIN RowAt : j <= 0 }
    BY <1>1, <1>6
  <2>2. ASSUME NEW h \in { j \in DOMAIN RowAt : j <= 0 }
        PROVE  RowAt'[h] = RowAt[h]
    <3>1. PICK a \in blocks' : h = Number[a]
      BY <2>1
    <3> QED
      BY <1>1, <1>2, <1>6, <3>1
  <2>3. RowAt' = [h \in { j \in DOMAIN RowAt : j <= 0 } |-> RowAt[h]]
    BY <1>2, <2>1, <2>2
  <2>4. Abstract!Truncate(0)
    BY <2>3 DEF Abstract!Truncate
  <2> QED
    BY <2>4 DEF Abstract!Next
<1> QED
  BY <1>4, <1>5, <1>6, StoredBlocksStep

(* The blocks table only ever grows at its top by a linked block and       *)
(* shrinks by losing a suffix.                                             *)
THEOREM BlocksImplementIndexedChain ==
  ASSUME StableBase, OutcomesKnown
  PROVE  Spec => RefinesIndexedChain
<1>1. Spec => []IndInv
  BY IndInvHolds
<1>2. Init => Abstract!Init
  BY RefinementInit
<1>3. IndInv /\ IndInv' /\ [Next]_vars => [Abstract!Next]_RowAt
  BY RefinementStep
<1> QED
  BY <1>1, <1>2, <1>3, PTL DEF Spec, RefinesIndexedChain, Abstract!Spec

-----------------------------------------------------------------------------
(* The rows of the other tables.  They are a function of the stored        *)
(* blocks: what commit_block adds meets no row of another block, because   *)
(* the stored blocks and the new one lie on one branch, and what is        *)
(* deleted with a block is all that was stored with it.                    *)

LEMMA LeastNumber ==
  ASSUME NEW T \in SUBSET Nat, T # {}
  PROVE  \E m \in T : \A k \in T : m <= k
<1>1. PICK m \in T : \A y \in T : ~(<<y, m>> \in OpToRel(<, Nat))
  BY NatLessThanWellFounded, WFMin
<1>2. ASSUME NEW k \in T
      PROVE  m <= k
  <2>1. ~(k < m)
    BY <1>1 DEF OpToRel
  <2> QED
    BY <2>1
<1> QED
  BY <1>2

(* Branches that share a block share everything below it.                  *)
LEMMA BranchesAgreeBelow ==
  ASSUME NEW c \in Chains, NEW d \in Chains,
         NEW top \in Nat, top \in DOMAIN c, top \in DOMAIN d, c[top] = d[top]
  PROVE  \A k \in 0..top : k \in DOMAIN c /\ k \in DOMAIN d /\ c[k] = d[k]
<1> DEFINE Same(k) == k \in DOMAIN c /\ k \in DOMAIN d /\ c[k] = d[k]
           T == { j \in 0..top : ~Same(top - j) }
<1>1. ASSUME T # {}
      PROVE  FALSE
  <2>1. T \in SUBSET Nat
    OBVIOUS
  <2>2. PICK m \in T : \A j \in T : m <= j
    BY <1>1, <2>1, LeastNumber
  <2>3. m \in 0..top /\ ~Same(top - m)
    BY <2>2
  <2>4. m # 0
    BY <2>3
  <2>5. m - 1 \in 0..top /\ m - 1 \notin T
    BY <2>2, <2>3, <2>4
  <2>6. Same(top - (m - 1)) /\ top - (m - 1) > 0
    BY <2>3, <2>5
  <2>7. /\ top - (m - 1) - 1 \in DOMAIN c /\ Parent[c[top - (m - 1)]] = c[top - (m - 1) - 1]
        /\ top - (m - 1) - 1 \in DOMAIN d /\ Parent[d[top - (m - 1)]] = d[top - (m - 1) - 1]
    BY <2>6, BranchFacts
  <2>8. top - (m - 1) - 1 = top - m
    BY <2>3
  <2> QED
    BY <2>3, <2>6, <2>7, <2>8
<1>2. ASSUME NEW k \in 0..top
      PROVE  Same(k)
  <2>1. top - k \in 0..top /\ top - (top - k) = k
    OBVIOUS
  <2>2. top - k \notin T
    BY <1>1
  <2> QED
    BY <2>1, <2>2
<1> QED
  BY <1>2

TxRows(b) ==
  { [hash |-> TxsOf[b][i], number |-> Number[b], index |-> i - 1] : i \in DOMAIN TxsOf[b] }

OwnLogs(b) == LogRows(b, ReceiptsOf(b))
OwnTransfers(b) == { r \in TransferRows(b, ReceiptsOf(b)) : r.item = 1 }

OnBranch(S) == \E c \in Chains : \A b \in S : Number[b] \in DOMAIN c /\ c[Number[b]] = b

(* transactions holds those of the stored blocks and nothing else.         *)
TransactionsExact == transactions = UNION { TxRows(b) : b \in blocks }
LogsExact == logs = UNION { OwnLogs(b) : b \in blocks }
TransfersExact == tokenTransfers = UNION { OwnTransfers(b) : b \in blocks }

(* The receipts at hand are those of some block of the same height.        *)
ReceiptsOK ==
  pc = "commit" /\ BlockReceipts =>
    \E b \in Block : Number[b] = n /\ receipts = ReceiptsOf(b)

LEMMA FreshRows ==
  ASSUME NEW table, NEW rows, NEW key,
         \A r \in rows, s \in table : \E column \in key : s[column] # r[column]
  PROVE  InsertNew(table, rows, key) = table \cup rows
  BY DEF InsertNew

LEMMA KnownRows ==
  ASSUME NEW table, NEW rows, NEW key, rows \subseteq table
  PROVE  InsertNew(table, rows, key) = table
  BY DEF InsertNew

LEMMA OwnNumbers ==
  ASSUME NEW b
  PROVE  /\ \A r \in TxRows(b) : r.number = Number[b]
         /\ \A r \in OwnLogs(b) : r.number = Number[b] /\ r.origin = b
         /\ \A r \in OwnTransfers(b) : r.number = Number[b] /\ r.origin = b
<1>1. \A r \in TxRows(b) : r.number = Number[b]
  BY DEF TxRows
<1>2. ASSUME NEW r \in OwnLogs(b)
      PROVE  r.number = Number[b] /\ r.origin = b
  <2>1. PICK i \in DOMAIN ReceiptsOf(b) :
          r \in { [number |-> Number[b], index |-> FirstLogIndex(ReceiptsOf(b)[i]) + k - 1,
                   origin |-> ReceiptsOf(b)[i].block] : k \in 1..LogsIn(ReceiptsOf(b)[i]) }
    BY DEF OwnLogs, LogRows
  <2>2. ReceiptsOf(b)[i].block = b
    BY DEF ReceiptsOf, Receipt
  <2> QED
    BY <2>1, <2>2
<1>3. ASSUME NEW r \in OwnTransfers(b)
      PROVE  r.number = Number[b] /\ r.origin = b
  <2>1. PICK i \in DOMAIN ReceiptsOf(b) :
          r \in { [number |-> Number[b],
                   index  |-> FirstLogIndex(ReceiptsOf(b)[i]) + p[1] - 1,
                   origin |-> ReceiptsOf(b)[i].block,
                   item   |-> p[2]] :
                     p \in (1..LogsIn(ReceiptsOf(b)[i])) \X (1..TransferItems[TxsOf[b][i]]) }
    BY DEF OwnTransfers, TransferRows
  <2>2. ReceiptsOf(b)[i].block = b
    BY DEF ReceiptsOf, Receipt
  <2> QED
    BY <2>1, <2>2
<1> QED
  BY <1>1, <1>2, <1>3

(* The block that is committed continues the branch the stored ones are on. *)
LEMMA CommitStaysOnBranch ==
  ASSUME StableBase, IndInv, OnBranch(blocks), pc = "commit",
         StoreCommitBlock(block, receipts)
  PROVE  OnBranch(blocks \cup {block})
<1>1. /\ block \in Block /\ Number[block] = n /\ WasCanonical(block)
      /\ \/ /\ \A b \in blocks : Number[b] < n
            /\ n <= 1 \/ Parent[block] \in blocks
         \/ block \in blocks
  BY CommitAppends
<1>2. n \in Nat /\ blocks \subseteq Block /\ \A b \in blocks : Number[b] \in Nat
  BY ChainAssumption DEF IndInv, TypeInv, TypeOK
<1>3. PICK c \in Chains : \A b \in blocks : Number[b] \in DOMAIN c /\ c[Number[b]] = b
  BY DEF OnBranch
<1>4. PICK d \in Chains : n \in DOMAIN d /\ d[n] = block
  BY <1>1 DEF WasCanonical
<1>5. CASE block \in blocks
  <2>1. blocks \cup {block} = blocks
    BY <1>5
  <2> QED
    BY <2>1
<1>6. ASSUME \A b \in blocks : Number[b] < n, n <= 1 \/ Parent[block] \in blocks,
             NEW b \in blocks
      PROVE  Number[b] \in DOMAIN d /\ d[Number[b]] = b
  <2>1. CASE n <= 1
    <3>1. n = 1 /\ Number[b] = 0
      BY <1>2, <1>6, <2>1
    <3>2. 0 \in DOMAIN d
      BY <1>4, <3>1, BranchFacts
    <3>3. 0 \in DOMAIN c /\ c[0] = b
      BY <1>3, <3>1
    <3> QED
      BY <3>1, <3>2, <3>3 DEF StableBase
  <2>2. CASE n >= 2
    <3>1. Parent[block] \in blocks /\ Number[Parent[block]] = n - 1
      BY <1>1, <1>2, <1>6, <2>2, ParentFacts
    <3>2. n - 1 \in DOMAIN c /\ c[n - 1] = Parent[block]
      BY <1>3, <3>1
    <3>3. n - 1 \in DOMAIN d /\ d[n - 1] = Parent[block]
      BY <1>2, <1>4, <2>2, BranchFacts
    <3>4. n - 1 \in Nat
      BY <1>2, <2>2
    <3>5. \A k \in 0..(n - 1) : k \in DOMAIN c /\ k \in DOMAIN d /\ c[k] = d[k]
      BY <3>2, <3>3, <3>4, BranchesAgreeBelow
    <3>6. Number[b] \in 0..(n - 1)
      BY <1>2, <1>6
    <3> QED
      BY <1>3, <3>5, <3>6
  <2> QED
    BY <1>2, <2>1, <2>2
<1>7. CASE (\A b \in blocks : Number[b] < n) /\ (n <= 1 \/ Parent[block] \in blocks)
  BY <1>1, <1>4, <1>6, <1>7 DEF OnBranch
<1> QED
  BY <1>1, <1>5, <1>7

LEMMA CommitTransactions ==
  ASSUME StableBase, IndInv, OnBranch(blocks), TransactionsExact, pc = "commit",
         StoreCommitBlock(block, receipts)
  PROVE  OnBranch(blocks)' /\ TransactionsExact'
<1>1. /\ block \in Block /\ Number[block] = n
      /\ \/ (\A b \in blocks : Number[b] < n) /\ blocks' = blocks \cup {block}
         \/ block \in blocks /\ blocks' = blocks
  BY CommitAppends
<1>2. OnBranch(blocks \cup {block})
  BY CommitStaysOnBranch
<1>3. blocks' = blocks \cup {block}
  BY <1>1
<1>4. transactions' = InsertNew(transactions, TxRows(block), {"hash"})
  BY DEF StoreCommitBlock, InsertTransactions, TxRows
<1>5. CASE block \in blocks
  <2>1. TxRows(block) \subseteq transactions
    BY <1>5 DEF TransactionsExact
  <2>2. transactions' = transactions
    BY <1>4, <2>1, KnownRows
  <2> QED
    BY <1>2, <1>3, <1>5, <2>2 DEF TransactionsExact, OnBranch
<1>6. CASE block \notin blocks
  <2>1. ASSUME NEW r \in TxRows(block), NEW t \in transactions
        PROVE  t["hash"] # r["hash"]
    <3>1. PICK b \in blocks : t \in TxRows(b)
      BY DEF TransactionsExact
    <3>2. PICK i \in DOMAIN TxsOf[block] : r.hash = TxsOf[block][i]
      BY DEF TxRows
    <3>3. PICK j \in DOMAIN TxsOf[b] : t.hash = TxsOf[b][j]
      BY <3>1 DEF TxRows
    <3>4. PICK c \in Chains : \A a \in blocks \cup {block} :
                                Number[a] \in DOMAIN c /\ c[Number[a]] = a
      BY <1>2 DEF OnBranch
    <3>5. Number[b] \in DOMAIN c /\ c[Number[b]] = b /\ n \in DOMAIN c /\ c[n] = block
      BY <1>1, <3>4
    <3>6. Number[b] # n
      BY <1>6, <3>5
    <3> QED
      BY <3>2, <3>3, <3>5, <3>6, OnceOnABranch
  <2>2. transactions' = transactions \cup TxRows(block)
    BY <1>4, <2>1, FreshRows
  <2> QED
    BY <1>2, <1>3, <2>2 DEF TransactionsExact, OnBranch
<1> QED
  BY <1>5, <1>6

(* Receipts that decode are the block's own.                               *)
LEMMA DecodedReceipts ==
  ASSUME ReceiptsTellBlocks, IndInv, ReceiptsOK, pc = "commit", Decodes
  PROVE  receipts = ReceiptsOf(block)
<1>1. PICK b \in Block : Number[b] = n /\ receipts = ReceiptsOf(b)
  BY DEF ReceiptsTellBlocks, ReceiptsOK
<1>2. block \in Block /\ Number[block] = n
  BY DEF IndInv, TypeInv, Control, Fetched
<1> DEFINE s == TxsOf[b]
           t == TxsOf[block]
<1>3. /\ s \in Seq({ s[i] : i \in DOMAIN s }) /\ t \in Seq({ t[i] : i \in DOMAIN t })
  BY <1>2, BlockData
<1>4. /\ DOMAIN s = 1..Len(s) /\ Len(s) \in Nat /\ DOMAIN t = 1..Len(t) /\ Len(t) \in Nat
      /\ s = [i \in 1..Len(s) |-> s[i]] /\ t = [i \in 1..Len(t) |-> t[i]]
  BY <1>3
<1> HIDE DEF s, t
<1>5. receipts = [i \in 1..Len(s) |-> Receipt(b, i)]
  BY <1>1, <1>4 DEF ReceiptsOf, s
<1>6. DOMAIN receipts = 1..Len(s) /\ Len(receipts) = Len(s)
  BY <1>4, <1>5
<1>7. Len(s) = Len(t)
  BY <1>6 DEF Decodes, t
<1>8. \A i \in 1..Len(s) : s[i] = t[i]
  BY <1>5, <1>6 DEF Decodes, ReceiptMatches, Receipt, s, t
<1>9. s = t
  BY <1>4, <1>7, <1>8
<1>10. b = block \/ s = <<>>
  BY <1>1, <1>2, <1>9 DEF ReceiptsTellBlocks, s, t
<1>11. CASE s = <<>>
  <2>1. DOMAIN TxsOf[b] = {} /\ DOMAIN TxsOf[block] = {}
    BY <1>9, <1>11 DEF s, t
  <2> QED
    BY <1>1, <2>1 DEF ReceiptsOf
<1> QED
  BY <1>1, <1>10, <1>11

LEMMA CommitLogs ==
  ASSUME StableBase, ReceiptsTellBlocks, IndInv, LogsExact, TransfersExact, ReceiptsOK,
         pc = "commit", Decodes, StoreCommitBlock(block, receipts)
  PROVE  LogsExact' /\ TransfersExact'
<1>1. /\ block \in Block /\ Number[block] = n
      /\ \/ (\A b \in blocks : Number[b] < n) /\ blocks' = blocks \cup {block}
         \/ block \in blocks /\ blocks' = blocks
  BY CommitAppends
<1>2. n \in Nat /\ \A b \in blocks : Number[b] \in Nat
  BY ChainAssumption DEF IndInv, TypeInv, TypeOK
<1>3. receipts = ReceiptsOf(block)
  BY DecodedReceipts
<1>4. /\ logs' = InsertNew(logs, OwnLogs(block), {"number", "index"})
      /\ tokenTransfers' = InsertNew(tokenTransfers, OwnTransfers(block), {"number", "index"})
  BY <1>3 DEF StoreCommitBlock, InsertLogs, InsertTokenTransfers, OwnLogs, OwnTransfers
<1>5. CASE block \in blocks /\ blocks' = blocks
  <2>1. OwnLogs(block) \subseteq logs /\ OwnTransfers(block) \subseteq tokenTransfers
    BY <1>5 DEF LogsExact, TransfersExact
  <2>2. logs' = logs /\ tokenTransfers' = tokenTransfers
    BY <1>4, <2>1, KnownRows
  <2> QED
    BY <1>5, <2>2 DEF LogsExact, TransfersExact
<1>6. CASE (\A b \in blocks : Number[b] < n) /\ blocks' = blocks \cup {block}
  <2>1. ASSUME NEW r \in OwnLogs(block), NEW x \in logs
        PROVE  x["number"] # r["number"]
    <3>1. PICK b \in blocks : x \in OwnLogs(b)
      BY DEF LogsExact
    <3> QED
      BY <1>1, <1>2, <1>6, <3>1, OwnNumbers
  <2>2. ASSUME NEW r \in OwnTransfers(block), NEW x \in tokenTransfers
        PROVE  x["number"] # r["number"]
    <3>1. PICK b \in blocks : x \in OwnTransfers(b)
      BY DEF TransfersExact
    <3> QED
      BY <1>1, <1>2, <1>6, <3>1, OwnNumbers
  <2>3. logs' = logs \cup OwnLogs(block)
    BY <1>4, <2>1, FreshRows
  <2>4. tokenTransfers' = tokenTransfers \cup OwnTransfers(block)
    BY <1>4, <2>2, FreshRows
  <2> QED
    BY <1>6, <2>3, <2>4 DEF LogsExact, TransfersExact
<1> QED
  BY <1>1, <1>5, <1>6

(* Deleting the blocks above a height deletes exactly their rows.          *)
LEMMA RollbackRows ==
  ASSUME StoreRollback(ancestor, n)
  PROVE  /\ OnBranch(blocks) => OnBranch(blocks)'
         /\ TransactionsExact => TransactionsExact'
         /\ LogsExact => LogsExact'
         /\ TransfersExact => TransfersExact'
<1>1. /\ blocks' = { b \in blocks : Number[b] <= ancestor }
      /\ transactions' = { r \in transactions : r.number <= ancestor }
      /\ logs' = { r \in logs : r.number <= ancestor }
      /\ tokenTransfers' = { r \in tokenTransfers : r.number <= ancestor }
  BY DEF StoreRollback, KeptBlocks, KeptTransactions
<1>2. ASSUME TransactionsExact
      PROVE  TransactionsExact'
  <2>1. \A r : r \in transactions' <=> \E b \in blocks' : r \in TxRows(b)
    BY <1>1, <1>2, OwnNumbers DEF TransactionsExact
  <2> QED
    BY <2>1 DEF TransactionsExact
<1>3. ASSUME LogsExact
      PROVE  LogsExact'
  <2>1. \A r : r \in logs' <=> \E b \in blocks' : r \in OwnLogs(b)
    BY <1>1, <1>3, OwnNumbers DEF LogsExact
  <2> QED
    BY <2>1 DEF LogsExact
<1>4. ASSUME TransfersExact
      PROVE  TransfersExact'
  <2>1. \A r : r \in tokenTransfers' <=> \E b \in blocks' : r \in OwnTransfers(b)
    BY <1>1, <1>4, OwnNumbers DEF TransfersExact
  <2> QED
    BY <2>1 DEF TransfersExact
<1> QED
  BY <1>1, <1>2, <1>3, <1>4 DEF OnBranch

(* Only the two transactions write the tables.                             *)
LEMMA OthersWriteNoRows ==
  ASSUME OutcomesKnown, [Next]_vars, ~Commit, ~Rollback
  PROVE  UNCHANGED <<blocks, transactions, logs, tokenTransfers>>
  BY DEF Next, Step, vars, OutcomesKnown, LoseAck, ReadCursor, LoopTop, WatchHead,
         WatchSafe, WatchFinalized, WatchFails, WatchCancelled, Receive, ReceiveCancelled, BatchEnds, FetchBlock, Detect,
         FindAncestor, Rewind, FetchBlockReceipts, FetchNextReceipt, CommitFails,
         GoOn, GoOnCancelled, Close, Crash, ProcessEnds, RequestShutdown, Restart

LEMMA ReceiptsStep ==
  ASSUME TypeInv, ReceiptsOK, [Next]_vars
  PROVE  ReceiptsOK'
<1>1. CASE FetchBlockReceipts
  <2>1. chain[n] \in Block /\ Number[chain[n]] = n
    BY <1>1, BranchFacts DEF FetchBlockReceipts, TypeInv, TypeOK
  <2> QED
    BY <1>1, <2>1 DEF FetchBlockReceipts, ReceiptsOK
<1>2. CASE FetchNextReceipt
  BY <1>2 DEF FetchNextReceipt, ReceiptsOK
<1>3. CASE ~FetchBlockReceipts /\ ~FetchNextReceipt
  <2>1. pc' # "commit" \/ (pc = "commit" /\ UNCHANGED <<n, receipts>>)
    BY <1>3
       DEF Next, Step, vars, LoseAck, ReadCursor, LoopTop, WatchHead, StartBatch, Break,
           WatchSafe, WatchFinalized, WatchFails, WatchCancelled, Receive, ReceiveCancelled, BatchEnds, FetchBlock, Detect,
           FindAncestor, Rewind, Rollback, Commit, CommitFails, GoOn, GoOnCancelled,
           Close, Crash, ProcessEnds, RequestShutdown, Restart
  <2> QED
    BY <2>1 DEF ReceiptsOK
<1> QED
  BY <1>1, <1>2, <1>3

TransactionsInv == IndInv /\ OnBranch(blocks) /\ TransactionsExact
RowsInv == TransactionsInv /\ LogsExact /\ TransfersExact /\ ReceiptsOK

LEMMA TransactionsNext ==
  ASSUME StableBase, OutcomesKnown
  PROVE  TransactionsInv /\ [Next]_vars => TransactionsInv'
<1> SUFFICES ASSUME TransactionsInv, [Next]_vars
             PROVE  TransactionsInv'
  OBVIOUS
<1>1. IndInv'
  BY IndInvNext DEF TransactionsInv
<1>2. CASE Commit
  BY <1>1, <1>2, CommitTransactions DEF TransactionsInv, Commit
<1>3. CASE Rollback
  BY <1>1, <1>3, RollbackRows DEF TransactionsInv, Rollback
<1>4. CASE ~Commit /\ ~Rollback
  <2>1. UNCHANGED <<blocks, transactions>>
    BY <1>4, OthersWriteNoRows
  <2> QED
    BY <1>1, <2>1 DEF TransactionsInv, OnBranch, TransactionsExact
<1> QED
  BY <1>2, <1>3, <1>4

LEMMA RowsNext ==
  ASSUME StableBase, OutcomesKnown, ReceiptsTellBlocks
  PROVE  RowsInv /\ [Next]_vars => RowsInv'
<1> SUFFICES ASSUME RowsInv, [Next]_vars
             PROVE  RowsInv'
  OBVIOUS
<1>1. TransactionsInv' /\ ReceiptsOK'
  BY TransactionsNext, ReceiptsStep DEF RowsInv, TransactionsInv, IndInv
<1>2. CASE Commit
  BY <1>1, <1>2, CommitLogs DEF RowsInv, TransactionsInv, Commit
<1>3. CASE Rollback
  BY <1>1, <1>3, RollbackRows DEF RowsInv, Rollback
<1>4. CASE ~Commit /\ ~Rollback
  <2>1. UNCHANGED <<blocks, logs, tokenTransfers>>
    BY <1>4, OthersWriteNoRows
  <2> QED
    BY <1>1, <2>1 DEF RowsInv, LogsExact, TransfersExact
<1> QED
  BY <1>2, <1>3, <1>4

LEMMA RowsInit == Init => RowsInv
<1> SUFFICES ASSUME Init
             PROVE  RowsInv
  OBVIOUS
<1>1. /\ blocks = {} /\ transactions = {} /\ logs = {} /\ tokenTransfers = {}
      /\ chain \in Chains /\ pc = "boot"
  BY DEF Init, StoreInit
<1>2. OnBranch(blocks) /\ ReceiptsOK
  BY <1>1 DEF OnBranch, ReceiptsOK
<1>3. TransactionsExact /\ LogsExact /\ TransfersExact
  BY <1>1 DEF TransactionsExact, LogsExact, TransfersExact
<1> QED
  BY <1>2, <1>3, IndInvInit DEF RowsInv, TransactionsInv

LEMMA DataFacts ==
  ASSUME NEW b \in Block
  PROVE  /\ DOMAIN TxsOf[b] = 1..Len(TxsOf[b]) /\ Len(TxsOf[b]) \in Nat
         /\ \A i \in DOMAIN TxsOf[b] :
              /\ i \in Nat /\ i >= 1
              /\ LogCount[b][i] \in Nat /\ TransferItems[TxsOf[b][i]] \in Nat
<1>1. DOMAIN TxsOf[b] = 1..Len(TxsOf[b]) /\ Len(TxsOf[b]) \in Nat
  BY BlockData
<1>2. \A i \in DOMAIN TxsOf[b] : i \in Nat /\ i >= 1
  BY <1>1
<1>3. \A i \in DOMAIN TxsOf[b] : LogCount[b][i] \in Nat /\ TransferItems[TxsOf[b][i]] \in Nat
  BY BlockData
<1> QED
  BY <1>1, <1>2, <1>3

LEMMA UpTo ==
  \A m \in Int : IsFiniteSet(1..m) /\ (m >= 0 => Cardinality(1..m) = m)
<1> SUFFICES ASSUME NEW m \in Int
             PROVE  IsFiniteSet(1..m) /\ (m >= 0 => Cardinality(1..m) = m)
  OBVIOUS
<1>1. IsFiniteSet(1..m) /\ Cardinality(1..m) = IF 1 > m THEN 0 ELSE m - 1 + 1
  BY FS_Interval
<1> QED
  BY <1>1

(* The number of logs before the i-th list of a sequence of lists: each    *)
(* begins where the one before it ends.                                    *)
Before(L, i) == Cardinality(UNION { {j} \X (1..L[j]) : j \in 1..(i - 1) })

LEMMA PrefixSums ==
  ASSUME NEW N \in Nat, NEW L \in [1..N -> Nat], NEW i \in 1..N
  PROVE  /\ Before(L, i) \in Nat
         /\ i = 1 => Before(L, i) = 0
         /\ i > 1 => i - 1 \in 1..N /\ Before(L, i) = Before(L, i - 1) + L[i - 1]
<1> DEFINE l(j) == {j} \X (1..L[j])
           U(m) == UNION { l(j) : j \in 1..(m - 1) }
<1>1. \A j \in 1..N : L[j] \in Nat
  OBVIOUS
<1>2. ASSUME NEW j \in 1..N
      PROVE  IsFiniteSet(l(j)) /\ Cardinality(l(j)) = L[j]
  <2>1. L[j] \in Nat
    BY <1>1
  <2>2. IsFiniteSet(1..L[j]) /\ Cardinality(1..L[j]) = L[j]
    BY <2>1, UpTo
  <2>3. IsFiniteSet({j}) /\ Cardinality({j}) = 1
    BY FS_Singleton
  <2>4. IsFiniteSet(l(j)) /\ Cardinality(l(j)) = Cardinality({j}) * Cardinality(1..L[j])
    BY <2>2, <2>3, FS_Product
  <2> QED
    BY <2>1, <2>2, <2>3, <2>4
<1>3. ASSUME NEW m \in Nat, m <= i
      PROVE  IsFiniteSet(U(m)) /\ Cardinality(U(m)) \in Nat
  <2> DEFINE I == 1..(m - 1)
             F == { l(j) : j \in I }
  <2>1. \A j \in I : j \in 1..N
    BY <1>3
  <2>2. IsFiniteSet(I)
    <3>1. m - 1 \in Int
      BY <1>3
    <3> QED
      BY <3>1, UpTo
  <2>3. [j \in I |-> l(j)] \in Surjection(I, F)
    BY DEF Surjection
  <2>4. IsFiniteSet(F)
    BY <2>2, <2>3, FS_Surjection
  <2>5. \A T \in F : IsFiniteSet(T)
    BY <1>2, <2>1
  <2>6. IsFiniteSet(U(m))
    BY <2>4, <2>5, FS_UNION
  <2> QED
    BY <2>6, FS_CardinalityType
<1>4. i \in Nat /\ i >= 1 /\ i <= i
  OBVIOUS
<1>5. \A m : Before(L, m) = Cardinality(U(m))
  BY DEF Before
<1>6. ASSUME i = 1
      PROVE  Cardinality(U(i)) = 0
  <2>1. 1..(i - 1) = {}
    BY <1>6
  <2>2. U(i) = {}
    BY <2>1
  <2> QED
    BY <2>2, FS_EmptySet
<1>7. ASSUME i > 1
      PROVE  i - 1 \in 1..N /\ Cardinality(U(i)) = Cardinality(U(i - 1)) + L[i - 1]
  <2>1. i - 1 \in 1..N /\ i - 1 \in Nat /\ i - 1 <= i
    BY <1>4, <1>7
  <2>2. 1..(i - 1) = (1..((i - 1) - 1)) \cup {i - 1}
    BY <1>4, <1>7
  <2>3. U(i) = U(i - 1) \cup l(i - 1)
    BY <2>2
  <2>4. U(i - 1) \cap l(i - 1) = {}
    <3>1. \A x \in U(i - 1) : x[1] # i - 1
      BY <1>4
    <3>2. \A x \in l(i - 1) : x[1] = i - 1
      OBVIOUS
    <3> QED
      BY <3>1, <3>2
  <2>5. IsFiniteSet(U(i - 1)) /\ Cardinality(U(i - 1)) \in Nat
    BY <1>3, <2>1
  <2>6. IsFiniteSet(l(i - 1)) /\ Cardinality(l(i - 1)) = L[i - 1] /\ L[i - 1] \in Nat
    BY <1>1, <1>2, <2>1
  <2>7. Cardinality(U(i)) = Cardinality(U(i - 1)) + Cardinality(l(i - 1))
                              - Cardinality(U(i - 1) \cap l(i - 1))
    BY <2>3, <2>5, <2>6, FS_Union
  <2>8. Cardinality(U(i - 1) \cap l(i - 1)) = 0
    BY <2>4, FS_EmptySet
  <2> HIDE DEF U, l
  <2> QED
    BY <2>1, <2>5, <2>6, <2>7, <2>8
<1> HIDE DEF U, l
<1>8. Cardinality(U(i)) \in Nat
  BY <1>3, <1>4
<1> QED
  BY <1>5, <1>6, <1>7, <1>8

(* Every number below the end of a list is an index in it or before it:    *)
(* the first list that ends above k holds it.                              *)
LEMMA PrefixesHaveNoGap ==
  ASSUME NEW N \in Nat, NEW L \in [1..N -> Nat], NEW i \in 1..N,
         NEW k \in Nat, k < Before(L, i) + L[i]
  PROVE  \E j \in 1..N : \E m \in 1..L[j] : Before(L, j) + m - 1 = k
<1> DEFINE P(j) == Before(L, j)
<1>1. /\ \A j \in 1..N : P(j) \in Nat /\ L[j] \in Nat
      /\ \A j \in 1..N : j = 1 => P(j) = 0
      /\ \A j \in 1..N : j > 1 => j - 1 \in 1..N /\ P(j) = P(j - 1) + L[j - 1]
  BY PrefixSums
<1> HIDE DEF P
<1> DEFINE T == { j \in 1..N : k < P(j) + L[j] }
<1>2. T \in SUBSET Nat /\ T # {}
  BY DEF P
<1>3. PICK j \in T : \A h \in T : j <= h
  BY <1>2, LeastNumber
<1>4. j \in 1..N /\ k < P(j) + L[j]
  BY <1>3
<1>5. P(j) <= k
  <2>1. CASE j = 1
    BY <1>1, <1>4, <2>1
  <2>2. CASE j > 1
    <3>1. j - 1 \in 1..N /\ P(j) = P(j - 1) + L[j - 1] /\ P(j - 1) \in Nat /\ L[j - 1] \in Nat
      BY <1>1, <1>4, <2>2
    <3>2. j - 1 \notin T
      BY <1>3, <1>4
    <3>3. ~(k < P(j - 1) + L[j - 1])
      BY <3>1, <3>2
    <3> QED
      BY <3>1, <3>3
  <2> QED
    BY <1>4, <2>1, <2>2
<1>6. k - P(j) + 1 \in 1..L[j] /\ P(j) + (k - P(j) + 1) - 1 = k
  BY <1>1, <1>4, <1>5
<1> QED
  BY <1>4, <1>6 DEF P

LEMMA OwnLogFacts ==
  ASSUME NEW b
  PROVE  \A r : r \in OwnLogs(b) <=>
           \E i \in DOMAIN TxsOf[b] : \E k \in 1..LogCount[b][i] :
             r = [number |-> Number[b], index |-> FirstLogIndex(Receipt(b, i)) + k - 1,
                  origin |-> b]
<1>1. DOMAIN ReceiptsOf(b) = DOMAIN TxsOf[b]
      /\ \A i \in DOMAIN TxsOf[b] : ReceiptsOf(b)[i] = Receipt(b, i)
  BY DEF ReceiptsOf
<1>2. \A i : Receipt(b, i).block = b /\ LogsIn(Receipt(b, i)) = LogCount[b][i]
  BY DEF Receipt, LogsIn
<1>3. OwnLogs(b) =
        UNION { { [number |-> Number[b], index |-> FirstLogIndex(Receipt(b, i)) + k - 1,
                   origin |-> b] : k \in 1..LogCount[b][i] } : i \in DOMAIN TxsOf[b] }
  BY <1>1, <1>2 DEF OwnLogs, LogRows
<1> QED
  BY <1>3

LEMMA OwnTransferFacts ==
  ASSUME NEW b
  PROVE  \A r : r \in TransferRows(b, ReceiptsOf(b)) <=>
           \E i \in DOMAIN TxsOf[b] :
             \E k \in 1..LogCount[b][i], item \in 1..TransferItems[TxsOf[b][i]] :
               r = [number |-> Number[b], index |-> FirstLogIndex(Receipt(b, i)) + k - 1,
                    origin |-> b, item |-> item]
<1>1. DOMAIN ReceiptsOf(b) = DOMAIN TxsOf[b]
      /\ \A i \in DOMAIN TxsOf[b] : ReceiptsOf(b)[i] = Receipt(b, i)
  BY DEF ReceiptsOf
<1>2. \A i : Receipt(b, i).block = b /\ LogsIn(Receipt(b, i)) = LogCount[b][i]
  BY DEF Receipt, LogsIn
<1>3. TransferRows(b, ReceiptsOf(b)) =
        UNION { { [number |-> Number[b],
                   index  |-> FirstLogIndex(Receipt(b, i)) + p[1] - 1,
                   origin |-> b,
                   item   |-> p[2]] :
                     p \in (1..LogCount[b][i]) \X (1..TransferItems[TxsOf[b][i]]) } :
                i \in DOMAIN TxsOf[b] }
  BY <1>1, <1>2 DEF TransferRows
<1>4. ASSUME NEW r \in TransferRows(b, ReceiptsOf(b))
      PROVE  \E i \in DOMAIN TxsOf[b] :
               \E k \in 1..LogCount[b][i], item \in 1..TransferItems[TxsOf[b][i]] :
                 r = [number |-> Number[b], index |-> FirstLogIndex(Receipt(b, i)) + k - 1,
                      origin |-> b, item |-> item]
  <2>1. PICK i \in DOMAIN TxsOf[b] :
          r \in { [number |-> Number[b],
                   index  |-> FirstLogIndex(Receipt(b, i)) + p[1] - 1,
                   origin |-> b,
                   item   |-> p[2]] :
                     p \in (1..LogCount[b][i]) \X (1..TransferItems[TxsOf[b][i]]) }
    BY <1>3
  <2>2. PICK p \in (1..LogCount[b][i]) \X (1..TransferItems[TxsOf[b][i]]) :
          r = [number |-> Number[b], index |-> FirstLogIndex(Receipt(b, i)) + p[1] - 1,
               origin |-> b, item |-> p[2]]
    BY <2>1
  <2>3. p[1] \in 1..LogCount[b][i] /\ p[2] \in 1..TransferItems[TxsOf[b][i]]
    OBVIOUS
  <2> QED
    BY <2>2, <2>3
<1>5. ASSUME NEW i \in DOMAIN TxsOf[b],
             NEW k \in 1..LogCount[b][i], NEW item \in 1..TransferItems[TxsOf[b][i]]
      PROVE  [number |-> Number[b], index |-> FirstLogIndex(Receipt(b, i)) + k - 1,
              origin |-> b, item |-> item] \in TransferRows(b, ReceiptsOf(b))
  <2>1. /\ <<k, item>> \in (1..LogCount[b][i]) \X (1..TransferItems[TxsOf[b][i]])
        /\ <<k, item>>[1] = k /\ <<k, item>>[2] = item
    OBVIOUS
  <2>2. [number |-> Number[b], index |-> FirstLogIndex(Receipt(b, i)) + k - 1,
         origin |-> b, item |-> item]
        \in { [number |-> Number[b],
               index  |-> FirstLogIndex(Receipt(b, i)) + p[1] - 1,
               origin |-> b,
               item   |-> p[2]] :
                 p \in (1..LogCount[b][i]) \X (1..TransferItems[TxsOf[b][i]]) }
    BY <2>1
  <2> QED
    BY <1>3, <2>2
<1> QED
  BY <1>4, <1>5

(* The log indices of a block have no gap.                                 *)
LEMMA OwnLogsHaveNoGap ==
  ASSUME NEW b \in Block, NEW r \in OwnLogs(b), NEW k \in 0..r.index
  PROVE  \E x \in OwnLogs(b) : x.index = k
<1> DEFINE N == Len(TxsOf[b])
           L == [j \in 1..N |-> LogCount[b][j]]
<1>1. N \in Nat /\ DOMAIN TxsOf[b] = 1..N /\ L \in [1..N -> Nat]
  BY DataFacts
<1>2. \A i \in 1..N : FirstLogIndex(Receipt(b, i)) = Before(L, i) /\ L[i] = LogCount[b][i]
  <2> TAKE i \in 1..N
  <2>1. \A j \in 1..(i - 1) : L[j] = LogCount[b][j]
    BY <1>1
  <2> HIDE DEF L, N
  <2>2. UNION { {j} \X (1..LogCount[b][j]) : j \in 1..(i - 1) }
          = UNION { {j} \X (1..L[j]) : j \in 1..(i - 1) }
    BY <2>1
  <2>3. FirstLogIndex(Receipt(b, i)) = Before(L, i)
    BY <2>2 DEF FirstLogIndex, Receipt, Before
  <2> QED
    BY <2>3 DEF L
<1> HIDE DEF N, L
<1>3. PICK i \in 1..N : \E m \in 1..L[i] :
        r = [number |-> Number[b], index |-> Before(L, i) + m - 1, origin |-> b]
  BY <1>1, <1>2, OwnLogFacts
<1>4. PICK m \in 1..L[i] : r.index = Before(L, i) + m - 1
  BY <1>3
<1>5. k \in Nat /\ k < Before(L, i) + L[i]
  <2>1. Before(L, i) \in Nat /\ L[i] \in Nat
    BY <1>1, PrefixSums
  <2> QED
    BY <1>4, <2>1
<1>6. PICK j \in 1..N : \E h \in 1..L[j] : Before(L, j) + h - 1 = k
  BY <1>1, <1>5, PrefixesHaveNoGap
<1>7. PICK h \in 1..L[j] : Before(L, j) + h - 1 = k
  BY <1>6
<1>8. [number |-> Number[b], index |-> Before(L, j) + h - 1, origin |-> b] \in OwnLogs(b)
  BY <1>1, <1>2, OwnLogFacts
<1> QED
  BY <1>7, <1>8

LEMMA RowsInvComplete == RowsInv => RowsComplete
<1> SUFFICES ASSUME RowsInv
             PROVE  RowsComplete
  OBVIOUS
<1>1. blocks \subseteq Block
  BY DEF RowsInv, TransactionsInv, IndInv, TypeInv, TypeOK
<1>2. \A b \in blocks : \A i \in DOMAIN TxsOf[b] :
        [hash |-> TxsOf[b][i], number |-> Number[b], index |-> i - 1] \in transactions
  BY DEF RowsInv, TransactionsInv, TransactionsExact, TxRows
<1>3. ASSUME NEW r \in transactions
      PROVE  \E b \in blocks : /\ Number[b] = r.number
                               /\ (r.index + 1) \in DOMAIN TxsOf[b]
                               /\ TxsOf[b][r.index + 1] = r.hash
  <2>1. PICK b \in blocks : r \in TxRows(b)
    BY DEF RowsInv, TransactionsInv, TransactionsExact
  <2>2. PICK i \in DOMAIN TxsOf[b] :
          r = [hash |-> TxsOf[b][i], number |-> Number[b], index |-> i - 1]
    BY <2>1 DEF TxRows
  <2>3. i \in Int
    BY <1>1, DataFacts
  <2>4. r.index + 1 = i
    BY <2>2, <2>3
  <2> QED
    BY <2>2, <2>4
<1>4. ASSUME NEW r \in logs, NEW k \in 0..r.index
      PROVE  \E x \in logs : x.number = r.number /\ x.index = k
  <2>1. PICK b \in blocks : r \in OwnLogs(b)
    BY DEF RowsInv, LogsExact
  <2>2. PICK x \in OwnLogs(b) : x.index = k
    BY <1>1, <2>1, OwnLogsHaveNoGap
  <2>3. x \in logs
    BY <2>2 DEF RowsInv, LogsExact
  <2> QED
    BY <2>1, <2>2, <2>3, OwnNumbers
<1>5. ASSUME NEW b \in blocks, NEW r \in TransferRows(b, ReceiptsOf(b))
      PROVE  \E t \in tokenTransfers : t.number = r.number /\ t.index = r.index
  <2>1. PICK i \in DOMAIN TxsOf[b] :
          \E k \in 1..LogCount[b][i], item \in 1..TransferItems[TxsOf[b][i]] :
            r = [number |-> Number[b], index |-> FirstLogIndex(Receipt(b, i)) + k - 1,
                 origin |-> b, item |-> item]
    BY OwnTransferFacts
  <2>2. PICK k \in 1..LogCount[b][i], item \in 1..TransferItems[TxsOf[b][i]] :
          r = [number |-> Number[b], index |-> FirstLogIndex(Receipt(b, i)) + k - 1,
               origin |-> b, item |-> item]
    BY <2>1
  <2>3. 1 \in 1..TransferItems[TxsOf[b][i]]
    <3>1. TransferItems[TxsOf[b][i]] \in Nat
      BY <1>1, DataFacts
    <3> QED
      BY <2>2, <3>1
  <2> DEFINE t == [number |-> Number[b], index |-> FirstLogIndex(Receipt(b, i)) + k - 1,
                   origin |-> b, item |-> 1]
  <2>4. t \in TransferRows(b, ReceiptsOf(b))
    BY <2>3, OwnTransferFacts
  <2>5. t \in tokenTransfers
    BY <2>4 DEF RowsInv, TransfersExact, OwnTransfers
  <2> QED
    BY <2>2, <2>5
<1>6. ASSUME NEW t \in tokenTransfers
      PROVE  [number |-> t.number, index |-> t.index, origin |-> t.origin] \in logs
  <2>1. PICK b \in blocks : t \in OwnTransfers(b)
    BY DEF RowsInv, TransfersExact
  <2>2. PICK i \in DOMAIN TxsOf[b] :
          \E k \in 1..LogCount[b][i], item \in 1..TransferItems[TxsOf[b][i]] :
            t = [number |-> Number[b], index |-> FirstLogIndex(Receipt(b, i)) + k - 1,
                 origin |-> b, item |-> item]
    BY <2>1, OwnTransferFacts DEF OwnTransfers
  <2>3. [number |-> t.number, index |-> t.index, origin |-> t.origin] \in OwnLogs(b)
    BY <2>2, OwnLogFacts
  <2> QED
    BY <2>1, <2>3 DEF RowsInv, LogsExact
<1> QED
  BY <1>2, <1>3, <1>4, <1>5, <1>6 DEF RowsComplete

LEMMA RowsInvProvenance == RowsInv => LogsOfStoredBlock
<1> SUFFICES ASSUME RowsInv, NEW b \in blocks, NEW r \in logs, r.number = Number[b]
             PROVE  r.origin = b
  BY DEF LogsOfStoredBlock
<1>1. PICK a \in blocks : r \in OwnLogs(a)
  BY DEF RowsInv, LogsExact
<1>2. r.number = Number[a] /\ r.origin = a
  BY <1>1, OwnNumbers
<1> QED
  BY <1>2 DEF RowsInv, TransactionsInv, IndInv, StoredChainLinked

(* The transactions table is exactly the transactions of the stored        *)
(* blocks, however they are fetched and wherever a reorganisation moved    *)
(* them: ON CONFLICT (hash) DO NOTHING never leaves one under a block that *)
(* is gone, and the cascade of a rollback never takes too much.            *)
THEOREM TransactionsOfStoredBlocks ==
  ASSUME StableBase, OutcomesKnown
  PROVE  Spec => []TransactionsExact
<1>1. Init => TransactionsInv
  BY RowsInit DEF RowsInv
<1>2. TransactionsInv => TransactionsExact
  BY DEF TransactionsInv
<1> QED
  BY <1>1, <1>2, TransactionsNext, PTL DEF Spec

(* I1, completeness: if receipts tell the block they belong to, a stored   *)
(* block has all its transactions, logs without a gap and transfers, and   *)
(* nothing else is stored.                                                 *)
THEOREM RowsStayComplete ==
  ASSUME StableBase, OutcomesKnown, ReceiptsTellBlocks
  PROVE  Spec => []RowsComplete
  BY RowsInit, RowsNext, RowsInvComplete, PTL DEF Spec

(* I1, provenance: under the same conditions the logs under a block's      *)
(* number are its own, although the receipts are fetched by number after   *)
(* the block and the node may have moved in between.                       *)
THEOREM LogsStayWithTheirBlock ==
  ASSUME StableBase, OutcomesKnown, ReceiptsTellBlocks
  PROVE  Spec => []LogsOfStoredBlock
  BY RowsInit, RowsNext, RowsInvProvenance, PTL DEF Spec
-----------------------------------------------------------------------------
(* Logs and transfers, however receipts are fetched                        *)

(* What stays true of logs and transfers when the receipts may be those of *)
(* another branch: every log is stored under a stored block and was        *)
(* emitted by one of its transactions, the indices of a block have no gap, *)
(* and no transfer is without its log.                                     *)
LogsConsistent ==
  /\ \A r \in logs : \E b \in blocks :
       /\ Number[b] = r.number
       /\ \E i \in DOMAIN TxsOf[b], j \in DOMAIN TxsOf[r.origin] :
            TxsOf[r.origin][j] = TxsOf[b][i]
  /\ \A r \in logs : \A k \in 0..r.index :
       \E s \in logs : s.number = r.number /\ s.index = k
  /\ \A t \in tokenTransfers :
       [number |-> t.number, index |-> t.index, origin |-> t.origin] \in logs

(* The receipts the node may have served.                                  *)
Served ==
  { r \in [block : Block, pos : Nat] : WasCanonical(r.block) /\ r.pos \in DOMAIN TxsOf[r.block] }

ReceiptsServed == receipts \in Seq(Served)

(* Decodes, of any block and any list of receipts, and what such a list    *)
(* leaves in the tables.                                                   *)
Fits(b, R) ==
  /\ R \in Seq(Served) /\ Len(R) = Len(TxsOf[b])
  /\ \A i \in 1..Len(R) :
       /\ TxsOf[R[i].block][R[i].pos] = TxsOf[b][i]
       /\ LogsIn(R[i]) > 0 =>
            FirstLogIndex(R[i]) = Before([j \in 1..Len(R) |-> LogsIn(R[j])], i)

FirstItems(b, R) == { r \in TransferRows(b, R) : r.item = 1 }

StoredFrom(b, R, L, T) ==
  /\ Fits(b, R)
  /\ Number[b] <= 1 => R = ReceiptsOf(b)
  /\ { r \in L : r.number = Number[b] } = LogRows(b, R)
  /\ { t \in T : t.number = Number[b] } = FirstItems(b, R)

AllFrom(B, L, T) ==
  /\ \A r \in L : \E b \in B : Number[b] = r.number
  /\ \A t \in T : \E b \in B : Number[b] = t.number
  /\ \A b \in B : \E R : StoredFrom(b, R, L, T)

LogsInv == TransactionsInv /\ ReceiptsServed /\ AllFrom(blocks, logs, tokenTransfers)

LEMMA ServedStep ==
  ASSUME TypeInv, ReceiptsServed, [Next]_vars
  PROVE  ReceiptsServed'
<1>1. \A k \in DOMAIN chain : chain[k] \in Block /\ Number[chain[k]] = k /\ WasCanonical(chain[k])
  BY BranchFacts DEF TypeInv, TypeOK, WasCanonical
<1>2. \A k \in DOMAIN chain : \A i \in DOMAIN TxsOf[chain[k]] : Receipt(chain[k], i) \in Served
  BY <1>1, DataFacts DEF Receipt, Served
<1>3. CASE FetchBlockReceipts
  <2>1. n \in DOMAIN chain /\ receipts' = [i \in DOMAIN TxsOf[chain[n]] |-> Receipt(chain[n], i)]
    BY <1>3 DEF FetchBlockReceipts, ReceiptsOf
  <2>2. DOMAIN TxsOf[chain[n]] = 1..Len(TxsOf[chain[n]]) /\ Len(TxsOf[chain[n]]) \in Nat
    BY <1>1, <2>1, DataFacts
  <2> QED
    BY <1>2, <2>1, <2>2 DEF ReceiptsServed
<1>4. CASE FetchNextReceipt
  <2>1. CASE UNCHANGED receipts
    BY <2>1 DEF ReceiptsServed
  <2>2. CASE \E t : \E r \in ReceiptsFor(t) : receipts' = Append(receipts, r)
    <3>1. PICK t, r : r \in ReceiptsFor(t) /\ receipts' = Append(receipts, r)
      BY <2>2
    <3>2. PICK k \in DOMAIN chain : \E i \in DOMAIN TxsOf[chain[k]] : r = Receipt(chain[k], i)
      BY <3>1 DEF ReceiptsFor
    <3>3. r \in Served
      BY <1>2, <3>2
    <3> QED
      BY <3>1, <3>3 DEF ReceiptsServed
  <2> QED
    BY <1>4, <2>1, <2>2 DEF FetchNextReceipt
<1>5. CASE ~FetchBlockReceipts /\ ~FetchNextReceipt
  <2>1. receipts' = <<>> \/ UNCHANGED receipts
    BY <1>5
       DEF Next, Step, vars, LoseAck, ReadCursor, LoopTop, WatchHead, StartBatch, Break,
           WatchSafe, WatchFinalized, WatchFails, WatchCancelled, Receive, ReceiveCancelled, BatchEnds, FetchBlock, Detect,
           FindAncestor, Rewind, Rollback, Commit, CommitFails, GoOn, GoOnCancelled,
           Close, Crash, ProcessEnds, RequestShutdown, Restart, DropLocals
  <2>2. CASE receipts' = <<>>
    BY <2>2 DEF ReceiptsServed
  <2>3. CASE receipts' = receipts
    BY <2>3 DEF ReceiptsServed
  <2> QED
    BY <2>1, <2>2, <2>3
<1> QED
  BY <1>3, <1>4, <1>5

(* Receipts that decode fit the block.                                     *)
LEMMA DecodedFit ==
  ASSUME IndInv, ReceiptsServed, pc = "commit", Decodes
  PROVE  Fits(block, receipts)
<1>1. receipts \in Seq(Served) /\ DOMAIN receipts = 1..Len(receipts) /\ Len(receipts) \in Nat
  BY DEF ReceiptsServed
<1> DEFINE L == [j \in 1..Len(receipts) |-> LogsIn(receipts[j])]
<1>2. ASSUME NEW i \in 1..Len(receipts)
      PROVE  Cardinality(UNION { {j} \X (1..LogsIn(receipts[j])) : j \in 1..(i - 1) })
               = Before(L, i)
  <2>1. \A j \in 1..(i - 1) : L[j] = LogsIn(receipts[j])
    BY <1>1
  <2> HIDE DEF L
  <2>2. UNION { {j} \X (1..LogsIn(receipts[j])) : j \in 1..(i - 1) }
          = UNION { {j} \X (1..L[j]) : j \in 1..(i - 1) }
    BY <2>1
  <2> QED
    BY <2>2 DEF Before
<1> HIDE DEF L
<1>3. ASSUME NEW i \in 1..Len(receipts)
      PROVE  /\ TxsOf[receipts[i].block][receipts[i].pos] = TxsOf[block][i]
             /\ LogsIn(receipts[i]) > 0 => FirstLogIndex(receipts[i]) = Before(L, i)
  BY <1>1, <1>2 DEF Decodes, ReceiptMatches
<1>4. Len(receipts) = Len(TxsOf[block])
  BY DEF Decodes
<1> QED
  BY <1>1, <1>3, <1>4 DEF Fits, L

(* At the heights where a block may be committed again they are its own.   *)
LEMMA BaseReceipts ==
  ASSUME StableBase, NEW b \in Block, WasCanonical(b), Number[b] <= 1, NEW R, Fits(b, R)
  PROVE  R = ReceiptsOf(b)
<1> DEFINE h == Number[b]
<1>1. h \in {0, 1}
  BY ChainAssumption
<1>2. PICK d \in Chains : h \in DOMAIN d /\ d[h] = b
  BY DEF WasCanonical
<1>3. /\ R \in Seq(Served) /\ Len(R) = Len(TxsOf[b]) /\ DOMAIN TxsOf[b] = 1..Len(TxsOf[b])
      /\ Len(R) \in Nat
  BY DataFacts DEF Fits
<1>4. ASSUME NEW i \in 1..Len(R)
      PROVE  R[i] = Receipt(b, i)
  <2>1. /\ R[i] \in [block : Block, pos : Nat] /\ WasCanonical(R[i].block)
        /\ R[i].pos \in DOMAIN TxsOf[R[i].block]
        /\ TxsOf[R[i].block][R[i].pos] = TxsOf[b][i]
    <3>1. R[i] \in Served
      BY <1>3
    <3>2. TxsOf[R[i].block][R[i].pos] = TxsOf[b][i]
      BY DEF Fits
    <3> QED
      BY <3>1, <3>2 DEF Served
  <2> DEFINE a == R[i].block
             j == R[i].pos
             k == Number[a]
  <2>2. PICK c \in Chains : k \in DOMAIN c /\ c[k] = a
    BY <2>1 DEF WasCanonical
  <2>3. i \in DOMAIN TxsOf[b] /\ j \in DOMAIN TxsOf[a] /\ TxsOf[a][j] = TxsOf[b][i]
    BY <1>3, <2>1
  <2>4. R[i] = [block |-> a, pos |-> j]
    BY <2>1
  <2> HIDE DEF a, j
  <2>5. CASE h \in DOMAIN c
    <3>1. c[h] = b
      BY <1>1, <1>2, <2>5 DEF StableBase
    <3>2. k = h /\ j = i
      BY <2>2, <2>3, <2>5, <3>1, OnceOnABranch
    <3> QED
      BY <2>2, <2>4, <3>1, <3>2 DEF Receipt
  <2>6. CASE h \notin DOMAIN c
    <3>1. PICK top \in DOMAIN c : DOMAIN c = 0..top /\ top \in Nat
      BY ChainAssumption, BranchFacts DEF IsBranch
    <3>2. h = 1 /\ k = 0 /\ 0 \in DOMAIN c
      BY <1>1, <2>2, <2>6, <3>1
    <3>3. 0 \in DOMAIN d
      BY <1>2, <3>2, BranchFacts
    <3>4. d[0] = a
      BY <2>2, <3>2, <3>3 DEF StableBase
    <3>5. 0 = 1
      BY <1>2, <2>3, <3>2, <3>3, <3>4, OnceOnABranch
    <3> QED
      BY <3>5
  <2> QED
    BY <2>5, <2>6
<1>5. R = [i \in 1..Len(R) |-> R[i]]
  BY <1>3
<1>6. R = [i \in 1..Len(R) |-> Receipt(b, i)]
  BY <1>4, <1>5
<1> QED
  BY <1>3, <1>6 DEF ReceiptsOf
LEMMA RowNumbers ==
  ASSUME NEW b, NEW R
  PROVE  /\ \A r \in LogRows(b, R) : r.number = Number[b]
         /\ \A t \in FirstItems(b, R) : t.number = Number[b]
<1>1. ASSUME NEW r \in LogRows(b, R)
      PROVE  r.number = Number[b]
  BY DEF LogRows
<1>2. ASSUME NEW t \in FirstItems(b, R)
      PROVE  t.number = Number[b]
  BY DEF FirstItems, TransferRows
<1> QED
  BY <1>1, <1>2

LEMMA FromNewBlock ==
  ASSUME NEW B, NEW L, NEW T, AllFrom(B, L, T), NEW b, \A a \in B : Number[a] # Number[b],
         NEW R, Fits(b, R), Number[b] <= 1 => R = ReceiptsOf(b)
  PROVE  AllFrom(B \cup {b}, L \cup LogRows(b, R), T \cup FirstItems(b, R))
<1> DEFINE M == LogRows(b, R)
           F == FirstItems(b, R)
<1>1. /\ \A r \in M : r.number = Number[b]
      /\ \A t \in F : t.number = Number[b]
  BY RowNumbers
<1>2. /\ \A r \in L : \E a \in B : Number[a] = r.number
      /\ \A t \in T : \E a \in B : Number[a] = t.number
  BY DEF AllFrom
<1> HIDE DEF M, F
<1>3. { r \in L \cup M : r.number = Number[b] } = M /\ { t \in T \cup F : t.number = Number[b] } = F
  BY <1>1, <1>2
<1>4. ASSUME NEW a \in B
      PROVE  \E Q : StoredFrom(a, Q, L \cup M, T \cup F)
  <2>1. PICK Q : StoredFrom(a, Q, L, T)
    BY DEF AllFrom
  <2>2. /\ { r \in L \cup M : r.number = Number[a] } = { r \in L : r.number = Number[a] }
        /\ { t \in T \cup F : t.number = Number[a] } = { t \in T : t.number = Number[a] }
    BY <1>1
  <2> QED
    BY <2>1, <2>2 DEF StoredFrom
<1>5. StoredFrom(b, R, L \cup M, T \cup F)
  BY <1>3 DEF StoredFrom, M, F
<1>6. AllFrom(B \cup {b}, L \cup M, T \cup F)
  BY <1>1, <1>2, <1>4, <1>5 DEF AllFrom
<1> QED
  BY <1>6 DEF M, F

LEMMA CommitFrom ==
  ASSUME StableBase, IndInv, ReceiptsServed, AllFrom(blocks, logs, tokenTransfers),
         pc = "commit", Decodes, StoreCommitBlock(block, receipts)
  PROVE  AllFrom(blocks, logs, tokenTransfers)'
<1>1. /\ block \in Block /\ Number[block] = n /\ WasCanonical(block)
      /\ \/ (\A b \in blocks : Number[b] < n) /\ blocks' = blocks \cup {block}
         \/ n <= 1 /\ block \in blocks /\ blocks' = blocks
  BY CommitAppends
<1>2. n \in Nat /\ \A b \in blocks : Number[b] \in Nat
  BY ChainAssumption DEF IndInv, TypeInv, TypeOK
<1>3. Fits(block, receipts) /\ (n <= 1 => receipts = ReceiptsOf(block))
  BY <1>1, DecodedFit, BaseReceipts
<1>4. /\ logs' = InsertNew(logs, LogRows(block, receipts), {"number", "index"})
      /\ tokenTransfers' = InsertNew(tokenTransfers, FirstItems(block, receipts), {"number", "index"})
  BY DEF StoreCommitBlock, InsertLogs, InsertTokenTransfers, FirstItems
<1>5. CASE (\A b \in blocks : Number[b] < n) /\ blocks' = blocks \cup {block}
  <2>1. \A a \in blocks : Number[a] # n
    BY <1>2, <1>5
  <2>2. /\ \A r \in logs : r.number # n
        /\ \A t \in tokenTransfers : t.number # n
    BY <2>1 DEF AllFrom
  <2>3. \A r \in LogRows(block, receipts), s \in logs : s["number"] # r["number"]
    BY <1>1, <2>2, RowNumbers
  <2>4. \A r \in FirstItems(block, receipts), s \in tokenTransfers : s["number"] # r["number"]
    BY <1>1, <2>2, RowNumbers
  <2>5. logs' = logs \cup LogRows(block, receipts)
    BY <1>4, <2>3, FreshRows
  <2>6. tokenTransfers' = tokenTransfers \cup FirstItems(block, receipts)
    BY <1>4, <2>4, FreshRows
  <2>7. AllFrom(blocks \cup {block}, logs \cup LogRows(block, receipts),
                tokenTransfers \cup FirstItems(block, receipts))
    BY <1>1, <1>3, <2>1, FromNewBlock
  <2> QED
    BY <1>5, <2>5, <2>6, <2>7
<1>6. CASE n <= 1 /\ block \in blocks /\ blocks' = blocks
  <2>1. PICK R : StoredFrom(block, R, logs, tokenTransfers)
    BY <1>6 DEF AllFrom
  <2>2. R = receipts
    BY <1>1, <1>3, <1>6, <2>1 DEF StoredFrom
  <2>3. LogRows(block, receipts) \subseteq logs /\ FirstItems(block, receipts) \subseteq tokenTransfers
    BY <2>1, <2>2 DEF StoredFrom
  <2>4. logs' = logs /\ tokenTransfers' = tokenTransfers
    BY <1>4, <2>3, KnownRows
  <2> QED
    BY <1>6, <2>4
<1> QED
  BY <1>1, <1>5, <1>6

LEMMA RollbackFrom ==
  ASSUME AllFrom(blocks, logs, tokenTransfers), StoreRollback(ancestor, n)
  PROVE  AllFrom(blocks, logs, tokenTransfers)'
<1>1. /\ blocks' = { b \in blocks : Number[b] <= ancestor }
      /\ logs' = { r \in logs : r.number <= ancestor }
      /\ tokenTransfers' = { r \in tokenTransfers : r.number <= ancestor }
  BY DEF StoreRollback, KeptBlocks
<1>2. ASSUME NEW b \in blocks'
      PROVE  \E R : StoredFrom(b, R, logs', tokenTransfers')
  <2>1. b \in blocks /\ Number[b] <= ancestor
    BY <1>1, <1>2
  <2>2. PICK R : StoredFrom(b, R, logs, tokenTransfers)
    BY <2>1 DEF AllFrom
  <2>3. /\ { r \in logs' : r.number = Number[b] } = { r \in logs : r.number = Number[b] }
        /\ { t \in tokenTransfers' : t.number = Number[b] }
             = { t \in tokenTransfers : t.number = Number[b] }
    BY <1>1, <2>1
  <2> QED
    BY <2>2, <2>3 DEF StoredFrom
<1>3. \A r \in logs' : \E b \in blocks' : Number[b] = r.number
  BY <1>1 DEF AllFrom
<1>4. \A t \in tokenTransfers' : \E b \in blocks' : Number[b] = t.number
  BY <1>1 DEF AllFrom
<1> QED
  BY <1>2, <1>3, <1>4 DEF AllFrom

LEMMA LogsInvInit == Init => LogsInv
<1> SUFFICES ASSUME Init
             PROVE  LogsInv
  OBVIOUS
<1>1. TransactionsInv
  BY RowsInit DEF RowsInv
<1>2. blocks = {} /\ logs = {} /\ tokenTransfers = {} /\ receipts = <<>>
  BY DEF Init, StoreInit
<1>3. ReceiptsServed
  BY <1>2 DEF ReceiptsServed
<1> QED
  BY <1>1, <1>2, <1>3 DEF LogsInv, AllFrom

LEMMA LogsInvNext ==
  ASSUME StableBase, OutcomesKnown
  PROVE  LogsInv /\ [Next]_vars => LogsInv'
<1> SUFFICES ASSUME LogsInv, [Next]_vars
             PROVE  LogsInv'
  OBVIOUS
<1>1. IndInv /\ TypeInv /\ TransactionsInv'
  BY TransactionsNext DEF LogsInv, TransactionsInv, IndInv
<1>2. ReceiptsServed'
  BY <1>1, ServedStep DEF LogsInv
<1>3. AllFrom(blocks, logs, tokenTransfers)'
  <2>1. CASE Commit
    BY <1>1, <2>1, CommitFrom DEF LogsInv, Commit
  <2>2. CASE Rollback
    BY <2>2, RollbackFrom DEF LogsInv, Rollback
  <2>3. CASE ~Commit /\ ~Rollback
    <3>1. UNCHANGED <<blocks, logs, tokenTransfers>>
      BY <2>3, OthersWriteNoRows
    <3> QED
      BY <3>1 DEF LogsInv
  <2> QED
    BY <2>1, <2>2, <2>3
<1> QED
  BY <1>1, <1>2, <1>3 DEF LogsInv

(* The logs of a list of receipts that fits a block are numbered through.  *)
Numbered(b, R, L) ==
  /\ Len(R) \in Nat /\ L \in [1..Len(R) -> Nat]
  /\ \A r : r \in LogRows(b, R) <=>
       \E i \in 1..Len(R) : \E k \in 1..L[i] :
         r = [number |-> Number[b], index |-> Before(L, i) + k - 1, origin |-> R[i].block]

LEMMA FittingLogs ==
  ASSUME NEW b \in Block, NEW R, Fits(b, R)
  PROVE  \E L : Numbered(b, R, L)
<1> DEFINE L == [j \in 1..Len(R) |-> LogsIn(R[j])]
<1>1. R \in Seq(Served) /\ Len(R) \in Nat /\ DOMAIN R = 1..Len(R)
  BY DEF Fits
<1>2. \A i \in 1..Len(R) : R[i] \in Served
  BY <1>1
<1>3. \A i \in 1..Len(R) : L[i] = LogsIn(R[i]) /\ L[i] \in Nat
  BY <1>2, DataFacts DEF Served, LogsIn
<1>4. L \in [1..Len(R) -> Nat]
  BY <1>3
<1>5. \A i \in 1..Len(R) : LogsIn(R[i]) > 0 => FirstLogIndex(R[i]) = Before(L, i)
  BY DEF Fits
<1> HIDE DEF L
<1>6. LogRows(b, R) =
        UNION { { [number |-> Number[b], index |-> FirstLogIndex(R[i]) + k - 1,
                   origin |-> R[i].block] : k \in 1..LogsIn(R[i]) } : i \in 1..Len(R) }
  BY <1>1 DEF LogRows
<1>7. \A r : r \in LogRows(b, R) <=>
        \E i \in 1..Len(R) : \E k \in 1..LogsIn(R[i]) :
          r = [number |-> Number[b], index |-> FirstLogIndex(R[i]) + k - 1, origin |-> R[i].block]
  BY <1>6
<1>8. ASSUME NEW i \in 1..Len(R), NEW k, k \in 1..L[i]
      PROVE  FirstLogIndex(R[i]) + k - 1 = Before(L, i) + k - 1
  <2>1. LogsIn(R[i]) > 0
    BY <1>3, <1>8
  <2> QED
    BY <1>5, <2>1
<1> DEFINE row(i, k) == [number |-> Number[b], index |-> Before(L, i) + k - 1,
                         origin |-> R[i].block]
           given(i, k) == [number |-> Number[b], index |-> FirstLogIndex(R[i]) + k - 1,
                           origin |-> R[i].block]
<1>9. \A i \in 1..Len(R) : \A k \in 1..L[i] : given(i, k) = row(i, k)
  BY <1>8
<1>10. \A r : r \in LogRows(b, R) <=> \E i \in 1..Len(R) : \E k \in 1..L[i] : r = row(i, k)
  <2>1. \A r : r \in LogRows(b, R) <=> \E i \in 1..Len(R) : \E k \in 1..L[i] : r = given(i, k)
    BY <1>3, <1>7
  <2> HIDE DEF row, given, L
  <2>2. ASSUME NEW r \in LogRows(b, R)
        PROVE  \E i \in 1..Len(R) : \E k \in 1..L[i] : r = row(i, k)
    <3>1. PICK i \in 1..Len(R) : \E k \in 1..L[i] : r = given(i, k)
      BY <2>1
    <3>2. PICK k \in 1..L[i] : r = given(i, k)
      BY <3>1
    <3> QED
      BY <1>9, <3>2
  <2>3. ASSUME NEW i \in 1..Len(R), NEW k \in 1..L[i]
        PROVE  row(i, k) \in LogRows(b, R)
    BY <1>9, <2>1
  <2> QED
    BY <2>2, <2>3
<1> QED
  BY <1>1, <1>4, <1>10 DEF Numbered

LEMMA LogsInvConsistent == LogsInv => LogsConsistent
<1> SUFFICES ASSUME LogsInv
             PROVE  LogsConsistent
  OBVIOUS
<1>1. blocks \subseteq Block
  BY DEF LogsInv, TransactionsInv, IndInv, TypeInv, TypeOK
<1>2. ASSUME NEW r \in logs
      PROVE  \E b \in blocks : \E R : /\ Number[b] = r.number /\ Fits(b, R) /\ r \in LogRows(b, R)
                                      /\ LogRows(b, R) \subseteq logs
  BY DEF LogsInv, AllFrom, StoredFrom
<1>3. ASSUME NEW r \in logs
      PROVE  \E b \in blocks :
               /\ Number[b] = r.number
               /\ \E i \in DOMAIN TxsOf[b], j \in DOMAIN TxsOf[r.origin] :
                    TxsOf[r.origin][j] = TxsOf[b][i]
  <2>0. PICK b \in blocks :
          \E R : Number[b] = r.number /\ Fits(b, R) /\ r \in LogRows(b, R)
    BY <1>2
  <2>1. PICK R : Number[b] = r.number /\ Fits(b, R) /\ r \in LogRows(b, R)
    BY <2>0
  <2>2. PICK i \in 1..Len(R) : r.origin = R[i].block
    <3>1. PICK L : Numbered(b, R, L)
      BY <1>1, <2>1, FittingLogs
    <3> QED
      BY <2>1, <3>1 DEF Numbered
  <2>3. R[i] \in Served
    BY <2>1 DEF Fits
  <2>4. i \in DOMAIN TxsOf[b]
    BY <1>1, <2>1, DataFacts DEF Fits
  <2>5. R[i].pos \in DOMAIN TxsOf[R[i].block] /\ TxsOf[R[i].block][R[i].pos] = TxsOf[b][i]
    BY <2>1, <2>3 DEF Fits, Served
  <2> QED
    BY <2>1, <2>2, <2>4, <2>5
<1>4. ASSUME NEW r \in logs, NEW k \in 0..r.index
      PROVE  \E s \in logs : s.number = r.number /\ s.index = k
  <2>0. PICK b \in blocks :
          \E R : /\ Number[b] = r.number /\ Fits(b, R) /\ r \in LogRows(b, R)
                 /\ LogRows(b, R) \subseteq logs
    BY <1>2
  <2>1. PICK R : /\ Number[b] = r.number /\ Fits(b, R) /\ r \in LogRows(b, R)
                 /\ LogRows(b, R) \subseteq logs
    BY <2>0
  <2>9. PICK L : Numbered(b, R, L)
    BY <1>1, <2>1, FittingLogs
  <2> DEFINE row(i, m) == [number |-> Number[b], index |-> Before(L, i) + m - 1,
                           origin |-> R[i].block]
  <2>2. /\ Len(R) \in Nat /\ L \in [1..Len(R) -> Nat]
        /\ \A x : x \in LogRows(b, R) <=> \E i \in 1..Len(R) : \E m \in 1..L[i] : x = row(i, m)
    BY <2>9 DEF Numbered
  <2>3. PICK i \in 1..Len(R) : \E m \in 1..L[i] : r = row(i, m)
    BY <2>1, <2>2
  <2>4. k \in Nat /\ k < Before(L, i) + L[i]
    <3>1. Before(L, i) \in Nat /\ L[i] \in Nat
      BY <2>2, PrefixSums
    <3>2. PICK m \in 1..L[i] : r.index = Before(L, i) + m - 1
      BY <2>3
    <3> QED
      BY <3>1, <3>2
  <2>5. PICK j \in 1..Len(R) : \E h \in 1..L[j] : Before(L, j) + h - 1 = k
    BY <2>2, <2>4, PrefixesHaveNoGap
  <2>6. PICK h \in 1..L[j] : Before(L, j) + h - 1 = k
    BY <2>5
  <2>7. row(j, h) \in logs
    BY <2>1, <2>2
  <2>8. row(j, h).number = r.number /\ row(j, h).index = k
    BY <2>1, <2>6
  <2> QED
    BY <2>7, <2>8
<1>5. ASSUME NEW t \in tokenTransfers
      PROVE  [number |-> t.number, index |-> t.index, origin |-> t.origin] \in logs
  <2>0. PICK b \in blocks :
          \E R : /\ Number[b] = t.number
                 /\ t \in TransferRows(b, R) /\ LogRows(b, R) \subseteq logs
    BY DEF LogsInv, AllFrom, StoredFrom, FirstItems
  <2>1. PICK R : /\ Number[b] = t.number
                 /\ t \in TransferRows(b, R) /\ LogRows(b, R) \subseteq logs
    BY <2>0
  <2>2. PICK i \in DOMAIN R :
          t \in { [number |-> Number[b],
                   index  |-> FirstLogIndex(R[i]) + p[1] - 1,
                   origin |-> R[i].block,
                   item   |-> p[2]] :
                     p \in (1..LogsIn(R[i])) \X (1..TransferItems[TxsOf[b][i]]) }
    BY <2>1 DEF TransferRows
  <2>3. PICK p \in (1..LogsIn(R[i])) \X (1..TransferItems[TxsOf[b][i]]) :
          t = [number |-> Number[b], index |-> FirstLogIndex(R[i]) + p[1] - 1,
               origin |-> R[i].block, item |-> p[2]]
    BY <2>2
  <2>4. p[1] \in 1..LogsIn(R[i])
    OBVIOUS
  <2>5. [number |-> Number[b], index |-> FirstLogIndex(R[i]) + p[1] - 1, origin |-> R[i].block]
          \in LogRows(b, R)
    BY <2>4 DEF LogRows
  <2> QED
    BY <2>1, <2>3, <2>5
<1> QED
  BY <1>3, <1>4, <1>5 DEF LogsConsistent

(* I1 without a condition on receipts: also when they are fetched one by   *)
(* one by transaction hash, or by number from a node that has moved to     *)
(* another block with the same transactions, the committer stores logs     *)
(* only of the block's own transactions, numbered without a gap, and       *)
(* transfers only with their log.                                          *)
THEOREM LogsStayConsistent ==
  ASSUME StableBase, OutcomesKnown
  PROVE  Spec => []LogsConsistent
  BY LogsInvInit, LogsInvNext, LogsInvConsistent, PTL DEF Spec
=============================================================================
