---------------------------- MODULE Intelligence ----------------------------
(* What src/intelligence computes from the indexed tables, as operators on   *)
(* the stored chain: the explanation of a transaction (actions.rs), and the  *)
(* rules that classify an address (address.rs, labels.rs).                   *)
(*                                                                           *)
(* A chain is a sequence of blocks, height h at index h; a block is          *)
(* [txs, transfers]: its transactions in order and its token transfers.      *)
(* Calldata is its selector and its length, and what is decoded from it is   *)
(* the range of bytes that is read.  Only rules on counts are here: they are *)
(* integers in the code.  Sums of wei and averages go through floating point *)
(* in the code and are left out.  The code's thresholds are one constant.    *)
EXTENDS Integers, Sequences, FiniteSets, FiniteSetsExt

CONSTANTS
  Limits   \* the thresholds of the rules, by name

ASSUME LimitsAreNumbers == \A l \in DOMAIN Limits : Limits[l] \in Nat

None == "none"

\* A row of `transactions' joined with its block.
Rows(chain) ==
  UNION {{[height |-> h, index |-> i, tx |-> chain[h].txs[i]] :
             i \in DOMAIN chain[h].txs} : h \in DOMAIN chain}

RowsOf(chain, h) == {r \in Rows(chain) : r.height = h}

TransferRows(chain) == UNION {chain[h].transfers : h \in DOMAIN chain}

(***************************************************************************)
(* actions.rs: what a transaction does                                     *)
(***************************************************************************)

Transfer == "a9059cbb"
Approve == "095ea7b3"
TransferFrom == "23b872dd"
Withdraw == "2e1a7d4d"
Mint == "a0712d68"

\* Routers and wrappers whose calls are reported as a swap.
SwapSelectors ==
  {"38ed1739", "8803dbee", "7ff36ab5", "4a25d94a", "18cbafe5", "414bf389",
   "c04b8d59", "db3e2198", "12aa3caf", "d0e30db0", Withdraw, "a6417ed6",
   "52bbbe29"}

\* Protocols whose calls are reported as a contract call.
ProtocolSelectors ==
  {"e8eda6df", Mint, "a1903eab", "0f23ca79", "1e83409a", "ac9650d8"}

\* The calldata length a decoding branch insists on.
RequiredLength(selector) ==
  CASE selector \in {Transfer, Approve} -> 68
    [] selector = TransferFrom          -> 100
    [] selector \in {Withdraw, Mint}    -> 36
    [] OTHER                            -> 4

\* The bytes <<first, last>> of calldata each branch slices out.  An address
\* is the last 20 bytes of the 32 taken at its offset.
DecodedBytes(selector) ==
  CASE selector = Transfer           -> {<<28, 47>>, <<36, 67>>}
    [] selector = Approve            -> {<<28, 47>>}
    [] selector = TransferFrom       -> {<<28, 47>>, <<60, 79>>, <<80, 111>>}
    [] selector \in {Withdraw, Mint} -> {<<4, 35>>}
    [] OTHER                         -> {}

ActionType(tx) ==
  CASE tx.selector = Transfer              -> "erc20_transfer"
    [] tx.selector = Approve               -> "erc20_approval"
    [] tx.selector = TransferFrom          -> "erc721_transfer"
    [] tx.selector \in SwapSelectors       -> "swap"
    [] tx.selector \in ProtocolSelectors   -> "contract_call"
    [] OTHER -> IF tx.value # 0 THEN "eth_transfer" ELSE "contract_call"

\* The actions of a transaction: at most one.
ExplainTransaction(tx) ==
  IF tx.to = None /\ tx.len > 0 THEN {"contract_creation"}
  ELSE IF tx.len >= 4
       THEN IF tx.len >= RequiredLength(tx.selector) THEN {ActionType(tx)} ELSE {}
       ELSE IF tx.value # 0 THEN {"eth_transfer"} ELSE {}

\* A slice past the end of the calldata panics.
ExplainPanics(tx) ==
  /\ tx.to # None /\ tx.len >= RequiredLength(tx.selector)
  /\ \E b \in DecodedBytes(tx.selector) : b[2] >= tx.len

(***************************************************************************)
(* address.rs, labels.rs: what an address is                               *)
(***************************************************************************)

Sent(chain, a) == {r \in Rows(chain) : r.tx.from = a}
Received(chain, a) == {r \in Rows(chain) : r.tx.to = a}
Called(chain, a) == {r.tx.to : r \in Sent(chain, a)} \ {None}
Callers(chain, a) == {r.tx.from : r \in Received(chain, a)}
Involving(chain, a) == {r \in Rows(chain) : a \in {r.tx.from, r.tx.to}}

TokensSent(chain, a) == {t \in TransferRows(chain) : t.from = a}
TokensReceived(chain, a) == {t \in TransferRows(chain) : t.to = a}
Moved(chain, a) == {t \in TransferRows(chain) : a \in {t.from, t.to}}
NftsMoved(chain, a) == {t \in Moved(chain, a) : t.nft}

\* activity_level of analyze_address, from its total_transactions.
ActivityLevel(chain, a) ==
  LET n == Cardinality(Sent(chain, a)) IN
  CASE n > Limits.veryHigh -> "very_high"
    [] n > Limits.high /\ n <= Limits.veryHigh -> "high"
    [] n > Limits.medium /\ n <= Limits.high -> "medium"
    [] n > 0 /\ n <= Limits.medium -> "low"
    [] OTHER -> "none"

\* behavior_classifications of analyze_address, those that rest on counts.  The
\* rules are taken as they are written: the function itself fails for every
\* address at the query of "dex_participant", which comes between them.
Classifications(chain, a) ==
  LET n == Cardinality(Sent(chain, a)) IN
  {c \in {"active_user", "inactive", "contract_interactor", "token_trader",
          "nft_participant", "deployer"} :
     CASE c = "active_user"         -> n > Limits.high
       [] c = "inactive"            -> n = 0
       [] c = "contract_interactor" -> Cardinality(Called(chain, a)) > Limits.contracts
       [] c = "token_trader"        -> \/ Cardinality(TokensSent(chain, a)) > Limits.tokens
                                       \/ Cardinality(TokensReceived(chain, a)) > Limits.tokens
       [] c = "nft_participant"     -> NftsMoved(chain, a) # {}
       [] OTHER (* deployer *)      -> n > 0 /\ Callers(chain, a) = {}}

\* A variant with the limit of analyze_address.
TradesManyLoose(chain, a) == Cardinality(Moved(chain, a)) > Limits.tokens

TradesMany(chain, a) == Cardinality(Moved(chain, a)) > Limits.labelTokens

\* get_address_labels: rules of its own next to those of analyze_address.
AddressLabels(chain, a) ==
  {l \in {"High Activity", "Contract Deployer", "NFT Collector", "Token Trader", "DeFi User"} :
     CASE l = "High Activity"     -> Cardinality(Involving(chain, a)) > Limits.veryHigh
       [] l = "Contract Deployer" -> \E r \in Sent(chain, a) : r.tx.creates # None
       [] l = "NFT Collector"     -> Cardinality(NftsMoved(chain, a)) > Limits.labelNfts
       [] l = "Token Trader"      -> TradesMany(chain, a)
       [] OTHER (* DeFi User *)   -> Cardinality(Called(chain, a)) > Limits.labelContracts}
=============================================================================
