------------------------------- MODULE Chain -------------------------------
(***************************************************************************)
(* The Ethereum node as the indexer sees it through the EthClient trait:   *)
(* a tree of blocks, of which one branch at a time is canonical.           *)
(*                                                                         *)
(* A block is identified by its hash.  Everything else the node answers    *)
(* (header, transactions, receipts, logs) is a function of the hash, so    *)
(* the block data are constants and the only state is the canonical        *)
(* branch `chain', which the node may extend, shorten or reorganise at any *)
(* moment between two calls.                                               *)
(***************************************************************************)
EXTENDS Integers, Sequences, FiniteSets

CONSTANTS
  Block,        \* the block hashes the node may ever serve
  Number,       \* Number[b]: height of block b
  Parent,       \* Parent[b]: parent_hash of block b
  Chains,       \* the branches the node may hold as canonical
  ZeroHash,     \* 32 zero bytes: parent of genesis, placeholder of a rollback
  EmptyHash,    \* the empty byte string: no hash stored
  TxsOf,        \* TxsOf[b]: transaction hashes of b, in order
  LogCount,     \* LogCount[b][i]: logs emitted by the i-th transaction of b
  Undecodable,  \* blocks with a log the token decoder rejects
  Sender,       \* Sender[t]: `from' address of transaction t
  Recipient,    \* Recipient[t]: `to' address, or NoAddress for a creation
  NoAddress,
  TransferItems,\* TransferItems[t]: transfers each log of t decodes to
                \* (0: not a transfer, 1: ERC-20/721/1155 single, 2: batch)
  CanReorg      \* may the node abandon blocks it has served?

(* Every branch the node may serve is a linked chain from genesis.         *)
IsBranch(c) ==
  \E h \in DOMAIN c :
    /\ DOMAIN c = 0..h
    /\ \A k \in 0..h : c[k] \in Block /\ Number[c[k]] = k
    /\ \A k \in 1..h : Parent[c[k]] = c[k - 1]

ASSUME ChainAssumption ==
  /\ Number \in [Block -> Nat]
  /\ Parent \in [Block -> Block \cup {ZeroHash}]
  /\ ZeroHash \notin Block
  /\ EmptyHash \notin Block \cup {ZeroHash}
  /\ \A c \in Chains : IsBranch(c)
  /\ CanReorg \in BOOLEAN

(* A block's transactions are a list, and every receipt tells how many     *)
(* logs were emitted and what they decode to.                              *)
ASSUME BlockData ==
  \A b \in Block :
    /\ TxsOf[b] \in Seq({ TxsOf[b][i] : i \in DOMAIN TxsOf[b] })
    /\ \A i \in DOMAIN TxsOf[b] :
         LogCount[b][i] \in Nat /\ TransferItems[TxsOf[b][i]] \in Nat

(* No transaction is executed twice on a branch: its nonce is used up.     *)
ASSUME OnceOnABranch ==
  \A c \in Chains : \A k, l \in DOMAIN c :
    \A i \in DOMAIN TxsOf[c[k]], j \in DOMAIN TxsOf[c[l]] :
      TxsOf[c[k]][i] = TxsOf[c[l]][j] => k = l /\ i = j

VARIABLE chain  \* the canonical branch: chain[k] is the block at height k

(* `latest': the height of the canonical head.                             *)
IsLatest(h) == h \in DOMAIN chain /\ h + 1 \notin DOMAIN chain

Extends(c, d) == \A k \in DOMAIN c : k \in DOMAIN d /\ d[k] = c[k]

(* The node moves to another canonical branch on its own.                  *)
NodeMove ==
  /\ chain' \in Chains
  /\ chain' # chain
  /\ CanReorg \/ Extends(chain, chain')

(* A receipt tells in which block, and at which place in it, a transaction *)
(* was executed.  ReceiptsFor(t): the canonical receipt of t, if any.      *)
Receipt(b, i) == [block |-> b, pos |-> i]

ReceiptsOf(b) == [i \in DOMAIN TxsOf[b] |-> Receipt(b, i)]

ReceiptsFor(t) ==
  UNION { { Receipt(chain[k], i) :
              i \in { j \in DOMAIN TxsOf[chain[k]] : TxsOf[chain[k]][j] = t } } :
          k \in DOMAIN chain }

(* The logs a receipt carries, and the block-wide index of its first one.  *)
LogsIn(r) == LogCount[r.block][r.pos]

FirstLogIndex(r) ==
  Cardinality(UNION { {j} \X (1..LogCount[r.block][j]) : j \in 1..(r.pos - 1) })
=============================================================================
