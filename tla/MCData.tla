-------------------------------- MODULE MCData --------------------------------
(* Limits and transactions for the instances of the analytics modules.         *)
EXTENDS Intelligence

\* The code's limits scaled to a few rows.
MCLimits ==
  [veryHigh |-> 4, high |-> 2, medium |-> 1, contracts |-> 1, tokens |-> 1,
   labelNfts |-> 1, labelTokens |-> 2, labelContracts |-> 2]

Tx(hash, from, to, value, selector, len) ==
  [hash |-> hash, from |-> from, to |-> to, value |-> value,
   selector |-> selector, len |-> len, creates |-> None]
=============================================================================
