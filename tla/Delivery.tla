------------------------------ MODULE Delivery ------------------------------
(***************************************************************************)
(* What main may rely on when it receives from one batch of the fetch      *)
(* pipeline: the numbers 1, 2, ..., Last in order, without gap or          *)
(* repetition, ending early only in front of a number whose fetch may      *)
(* fail.  If main stops receiving, the batch can be joined only if the     *)
(* channel can hold what is still released.                                *)
(*                                                                         *)
(* Module Indexer uses this contract (Receive, BatchEnds, Break) with the  *)
(* batch's own first number.                                               *)
(***************************************************************************)
EXTENDS Integers

CONSTANTS
  Last,     \* the batch is 1..Last
  MayFail,  \* the numbers whose worker may fail
  Depth     \* capacity of the channel to main

VARIABLES
  next,     \* the number main receives next
  phase     \* "open", "ended" (channel closed), "left" (main broke off), "joined"

Init == next = 1 /\ phase = "open"

Deliver ==
  /\ phase = "open"
  /\ next <= Last
  /\ next' = next + 1
  /\ UNCHANGED phase

End ==
  /\ phase = "open"
  /\ next > Last \/ next \in MayFail
  /\ phase' = "ended"
  /\ UNCHANGED next

(* main receives a number and leaves the loop.                             *)
Leave ==
  /\ phase = "open"
  /\ next <= Last
  /\ next' = next + 1
  /\ phase' = "left"

(* How many more numbers may be released once main has left.               *)
CountsLeft ==
  { c \in 0..(Last - next + 1) : c = Last - next + 1 \/ (next + c) \in MayFail }

Join ==
  /\ \/ phase = "ended"
     \/ phase = "left" /\ \E c \in CountsLeft : c <= Depth
  /\ phase' = "joined"
  /\ UNCHANGED next

Next == Deliver \/ End \/ Leave \/ Join

Spec == Init /\ [][Next]_<<next, phase>>
=============================================================================
