---------------------------- MODULE MCBackground ----------------------------
(* Three competing first blocks, and one more above two of them.              *)
EXTENDS Background, MCData

CONSTANTS a1, a2

BlockOf(txs) == [txs |-> txs, transfers |-> {}]

\* B1 keeps one of the transactions of A1, C1 holds a transferFrom call that is
\* longer than required and shorter than what is decoded.
MCBody ==
  [A1 |-> BlockOf(<<Tx("t1", a1, a2, 1, Transfer, 68), Tx("t2", a1, a2, 0, Transfer, 68)>>),
   B1 |-> BlockOf(<<Tx("t2", a1, a2, 0, Transfer, 68)>>),
   C1 |-> BlockOf(<<Tx("t3", a1, a2, 0, TransferFrom, 100)>>),
   A2 |-> BlockOf(<<>>),
   B2 |-> BlockOf(<<Tx("t4", a1, None, 5, Approve, 2)>>)]

MCParent == [A1 |-> None, B1 |-> None, C1 |-> None, A2 |-> "A1", B2 |-> "B1"]
=============================================================================
