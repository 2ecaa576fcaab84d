----------------------------- MODULE MCAnalytics -----------------------------
(* Databases of up to four transactions between five addresses for the        *)
(* searches and the rules of module Intelligence.                             *)
EXTENDS AddressGraph, MCData

CONSTANTS a1, a2, a3, a4, a5

MCAddresses == {a1, a2, a3, a4, a5}

\* A pair of ends gives a transaction; what else varies follows its position.
Edges == {<<a1, a2>>, <<a2, a3>>, <<a3, a4>>, <<a1, a3>>, <<a3, a2>>, <<a4, a4>>,
          <<a4, None>>}

Values == <<9, 0, 1, 1>>
Lengths == <<100, 3, 112, 68>>
Selectors == <<TransferFrom, Transfer, TransferFrom, Approve>>

TxList(pairs) ==
  [i \in DOMAIN pairs |->
     Tx(i, pairs[i][1], pairs[i][2], Values[i], Selectors[i], Lengths[i])]

Moves(pairs) ==
  {[log |-> i, token |-> a1, from |-> pairs[i][1], to |-> pairs[i][2], nft |-> i = 1] :
     i \in {j \in DOMAIN pairs : pairs[j][2] # None /\ j = 2}}

OneBlock(p) == <<[txs |-> TxList(p), transfers |-> Moves(p)]>>
TwoBlocks(p) == <<[txs |-> SubSeq(TxList(p), 1, 3), transfers |-> {}],
                  [txs |-> <<TxList(p)[4]>>, transfers |-> {}]>>
TokenBlock(p) ==
  <<[txs |-> <<>>,
     transfers |-> {[log |-> i, token |-> a1, from |-> p[i][1], to |-> p[i][2], nft |-> i < 3] :
                      i \in DOMAIN p}]>>

\* Repeated transactions, and two branches of different depth.
Repeats == {q \in [1..4 -> {<<a1, a2>>, <<a2, a3>>, <<a3, a2>>}] : q[1] = <<a1, a2>>}
Branches == {<<<<a1, a2>>, <<a3, a1>>, <<b, a4>>, <<a5, c>>>> : b, c \in {a1, a2, a3, a4}}

\* Three token transfers.
Trades == {<<<<a1, a2>>, b, c>> : b, c \in {<<a1, a1>>, <<a1, a2>>, <<a2, a1>>}}

MCChains ==
  {OneBlock(p) : p \in BoundedSeq(Edges, 3)}
    \cup {TwoBlocks(p) : p \in Repeats \cup Branches}
    \cup {TokenBlock(p) : p \in Trades}
=============================================================================
