---------------------------- MODULE IndexedChain ----------------------------
(***************************************************************************)
(* What the `blocks' table promises its readers: at every moment it holds  *)
(* one linked piece of a chain, without gaps above height 1, that changes  *)
(* in two ways only.  Append puts one block on top whose parent is the     *)
(* block that was there; Truncate drops all blocks above some height.      *)
(*                                                                         *)
(* The bottom row may be genesis or block 1, and block 1 may come without  *)
(* genesis: detect() accepts any block at these heights.                   *)
(***************************************************************************)
EXTENDS Integers

CONSTANTS Block, Number, Parent

VARIABLE rows   \* rows[h]: the block stored at height h

Init == rows = [h \in {} |-> h]

LinksToTop(b) ==
  \/ Number[b] <= 1
  \/ Number[b] - 1 \in DOMAIN rows /\ rows[Number[b] - 1] = Parent[b]

Append(b) ==
  /\ \A h \in DOMAIN rows : h < Number[b]
  /\ LinksToTop(b)
  /\ rows' = [h \in DOMAIN rows \cup {Number[b]} |->
                IF h = Number[b] THEN b ELSE rows[h]]

Truncate(k) == rows' = [h \in { j \in DOMAIN rows : j <= k } |-> rows[h]]

Next ==
  \/ \E b \in Block : Append(b)
  \/ \E k \in DOMAIN rows \cup {0} : Truncate(k)

Spec == Init /\ [][Next]_rows
=============================================================================
