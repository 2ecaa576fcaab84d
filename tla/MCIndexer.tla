----------------------------- MODULE MCIndexer -----------------------------
(***************************************************************************)
(* A block tree for model checking: a trunk "a" of heights 0..Top and a    *)
(* branch "b" that leaves it after height ForkAt.  The node holds a prefix *)
(* of either, of height at least MinHead.                                  *)
(***************************************************************************)
EXTENDS Indexer, TLC

CONSTANTS Top, ForkAt, MinHead

MCBlock == { <<k, "a">> : k \in 0..Top } \cup { <<k, "b">> : k \in (ForkAt + 1)..Top }

MCNumber == [b \in MCBlock |-> b[1]]

MCParent ==
  [b \in MCBlock |-> IF b[1] = 0 THEN ZeroHash
                     ELSE IF <<b[1] - 1, b[2]>> \in MCBlock
                     THEN <<b[1] - 1, b[2]>> ELSE <<b[1] - 1, "a">>]

Branch(h, f) == [k \in 0..h |-> IF k > ForkAt THEN <<k, f>> ELSE <<k, "a">>]

MCChains == { Branch(h, f) : h \in MinHead..Top, f \in {"a", "b"} }

(* One branch only: the node never offers anything else.                   *)
MCTrunk == { Branch(h, "a") : h \in MinHead..Top }

(* Transactions: x and y together in the first "a" block after the fork    *)
(* and z in the second; on "b", y alone in the second block and x in the   *)
(* third.  The blocks below have none, nor have the last ones: heads the   *)
(* watcher can read, and ancestors the search can.                         *)
MCTxsOf ==
  [b \in MCBlock |->
     CASE b = <<ForkAt + 1, "a">> -> <<"x", "y">>
       [] b = <<ForkAt + 2, "a">> -> <<"z">>
       [] b = <<ForkAt + 2, "b">> -> <<"y">>
       [] b = <<ForkAt + 3, "b">> -> <<"x">>
       [] OTHER                   -> <<>>]

(* One transaction in every other block from height 1 on.                  *)
MCTxsEveryOther ==
  [b \in MCBlock |->
     CASE b[1] = 1 -> <<"x">> [] b[1] = 3 -> <<"y">> [] b[1] = 5 -> <<"z">>
       [] OTHER -> <<>>]

MCTxsNone == [b \in MCBlock |-> <<>>]

(* The same transactions on both sides of the fork.                        *)
MCTxsSame ==
  [b \in MCBlock |-> IF b[1] = ForkAt + 1 THEN <<"x", "y">> ELSE <<>>]

(* Every transaction emits one log, but y emits none on branch "a".        *)
MCLogCount ==
  [b \in MCBlock |->
     [i \in 1..2 |-> IF b[2] = "a" /\ i = 2 THEN 0 ELSE 1]]

MCTx == {"x", "y", "z"}

MCSender == [t \in MCTx |-> "alice"]
MCRecipient == [t \in MCTx |-> IF t = "z" THEN "none" ELSE "bob"]

(* z is one transfer, x a batch of two, y none.                            *)
MCTransferItems ==
  [t \in MCTx |-> CASE t = "z" -> 1 [] t = "x" -> 2 [] t = "y" -> 0]

MCPoison == { <<ForkAt + 1, "a">> }
=============================================================================
