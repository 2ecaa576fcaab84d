-------------------------------- MODULE Api --------------------------------
(* The API process (bin/api.rs, api/routes.rs, api/handlers.rs) next to the  *)
(* indexer: it shares the database with module Background's two tasks and    *)
(* nothing else.                                                             *)
(*                                                                           *)
(* Of the endpoints only the explanation of a transaction writes a row that  *)
(* the database takes: it computes what the background processor computes,   *)
(* with the same function, and inserts it into the same table in a statement *)
(* of its own.  The others answer, fail or panic.  The history of an address *)
(* is read page by page, a request per page, while blocks come and go.  The  *)
(* two kinds of requests touch different tables, so a behaviour has one kind *)
(* or the other.                                                             *)
EXTENDS Background

CONSTANTS
  Reader,       \* the address whose history a client reads
  PageLimits,   \* the values of `limit' the client may send
  MaxPage,      \* 500: .min(500) of get_address_transactions
  MaxRequests   \* bound on the requests that are not for pages

ASSUME ApiConfig ==
  /\ PageLimits \subseteq Nat \ {0} /\ PageLimits # {}
  /\ MaxPage \in Nat \ {0} /\ MaxRequests \in Nat

VARIABLES
  history,   \* address_transactions: <<address, height, index, direction>> -> hash
  request,   \* the explanation under way: the hash and what is left to write
  reply,     \* status of the last answer
  served,    \* requests received
  walk       \* the client's way through the history

apiVars == <<history, request, reply, served, walk>>
allVars == <<vars, apiVars>>

NoRequest == [of |-> None]
NoWalk == [before |-> MaxCommits + 1, rows |-> <<>>, ends |-> {}, start |-> {},
           step |-> "before"]

Statuses == {"none", "ok", "bad request", "not found", "server error", "unavailable",
             "panic"}

Hashes == UNION {{Body[b].txs[i].hash : i \in DOMAIN Body[b].txs} : b \in DOMAIN Body}

ApiTypeOK ==
  /\ TypeOK
  /\ request.of \in Hashes \cup {None}
  /\ reply \in Statuses /\ served \in 0..MaxRequests
  /\ walk.before \in 1..(MaxCommits + 1) /\ walk.step \in {"before", "paging", "done"}

ApiInit ==
  /\ Init
  /\ history = <<>> /\ request = NoRequest /\ reply = "none" /\ served = 0
  /\ walk = NoWalk

(***************************************************************************)
(* The indexer's steps                                                     *)
(***************************************************************************)

\* insert_address_transactions: a row per end of a transaction.
HistoryRows(height, id) ==
  LET txs == Body[id].txs
      keys == {<<txs[i].from, height, i, 0>> : i \in DOMAIN txs}
                \cup {<<txs[i].to, height, i, 1>> : i \in {j \in DOMAIN txs : txs[j].to # None}}
  IN [key \in keys |-> txs[key[3]].hash]

\* ON CONFLICT DO NOTHING: an existing row of the table stays as it is.
InsertNew(table, rows) ==
  [key \in DOMAIN table \cup DOMAIN rows |->
     IF key \in DOMAIN table THEN table[key] ELSE rows[key]]

\* commit_block
CommitIndexed(id, seen) ==
  /\ Commit(id, seen)
  /\ history' = InsertNew(history, HistoryRows(Len(ids) + 1, id))
  /\ UNCHANGED <<request, reply, served, walk>>

\* rollback leaves address_transactions alone, and so do all other steps of the
\* two tasks.
IndexerStep ==
  /\ \/ \E k \in 0..MaxCommits : Rollback(k)
     \/ Notify \/ Cancel \/ LeaveLoop \/ EndJoins \/ Stop \/ Exit \/ Crash
     \/ Process \/ Refused
  /\ UNCHANGED apiVars

(***************************************************************************)
(* The endpoints                                                           *)
(***************************************************************************)

Arrives ==
  /\ request = NoRequest /\ walk = NoWalk
  /\ served < MaxRequests /\ served' = served + 1

\* A handler that changes nothing but its answer.
Answer(status) ==
  Arrives /\ reply' = status /\ UNCHANGED <<vars, history, request, walk>>

\* explain_transaction: every error is a 404, and a slice past the end of the
\* calldata ends the request only.
ExplainRequest(hash) ==
  IF hash \notin StoredHashes THEN Answer("not found")
  ELSE LET tx == (CHOOSE r \in Rows(Stored) : r.tx.hash = hash).tx IN
       IF ExplainPanics(tx) THEN Answer("panic")
       ELSE /\ Arrives
            /\ request' = [of |-> hash, types |-> ExplainTransaction(tx)]
            /\ UNCHANGED <<vars, history, reply, walk>>

\* persist_transaction_actions, next to the processor's; an error is ignored.
WriteActions ==
  /\ request # NoRequest
  /\ actions' = ActionsWith(request.of, request.types)
  /\ request' = NoRequest /\ reply' = "ok"
  /\ UNCHANGED <<indexer, queue, proc, task, todo, draft, lost, faults>>
  /\ UNCHANGED <<history, served, walk>>

\* get_block and get_block_analytics find no row, or read a column of it as a type
\* it does not have.
BlockRequest(h) == Answer(IF h \in DOMAIN ids THEN "panic" ELSE "not found")

\* get_transaction
TransactionRequest(hash) == Answer(IF hash \in StoredHashes THEN "ok" ELSE "not found")

\* get_address_trends and get_contract_trends: a day with transactions is read as a
\* string, which it is not.  Whether a block is in the window is up to the clock.
TrendsRequest(a) ==
  \E status \in {"ok"} \cup (IF Involving(Stored, a) = {} THEN {} ELSE {"panic"}) :
    Answer(status)

\* The answers of the others.  get_contract_events refuses an argument that is no
\* hex string, and so do get_block, get_transaction and get_address_transactions;
\* export, trends, cluster, graph and contract report it as an error of their own.
\* The inserts behind graph and contract are refused and the errors ignored.
\* get_address_intelligence and get_anomalies never get past their queries.
Answers(endpoint) ==
  CASE endpoint = "events"                -> {"ok", "bad request"}
    [] endpoint \in {"address", "anomalies"} -> {"server error"}
    [] endpoint = "health"                -> {"ok", "unavailable"}
    [] OTHER (* status, export, cluster, graph, contract *) -> {"ok", "server error"}

ReadRequest ==
  \/ \E h \in Heights : BlockRequest(h)
  \/ \E hash \in Hashes : TransactionRequest(hash)
  \/ TrendsRequest(Reader)
  \/ \E endpoint \in {"events", "address", "anomalies", "health", "export"} :
       \E status \in Answers(endpoint) : Answer(status)

(***************************************************************************)
(* get_address_transactions                                                *)
(***************************************************************************)

\* ORDER BY block_number DESC, tx_index DESC; the two rows of a transaction to
\* oneself come in any order.
Newer(k, m) == k[2] > m[2] \/ (k[2] = m[2] /\ k[3] > m[3])

\* The possible answers to a query for the rows of keys: newest first, at most as
\* many as the client asks for, and never more than MaxPage.
Pages(keys, limit) ==
  {SubSeq(s, 1, Min({Len(s), limit, MaxPage})) :
     s \in {t \in SetToSeqs(keys) : \A i, j \in DOMAIN t : i < j => ~Newer(t[j], t[i])}}

\* Variants: one whose condition is <=, one that is off by one.
AddressPageInclusive(before, limit) ==
  Pages({k \in DOMAIN history : k[1] = Reader /\ k[2] <= before}, limit)

AddressPageBelow(before, limit) ==
  Pages({k \in DOMAIN history : k[1] = Reader /\ k[2] < before - 1}, limit)

\* WHERE address = $1 AND block_number < $2
AddressPage(before, limit) ==
  Pages({k \in DOMAIN history : k[1] = Reader /\ k[2] < before}, limit)

\* The client asks for the page before the last block it has seen until it gets
\* an empty one.  A short page is no sign of the end: its limit may have been cut.
ReadPage ==
  /\ walk.step # "done" /\ served = 0
  /\ \E limit \in PageLimits : \E page \in AddressPage(walk.before, limit) :
       walk' = [before |-> IF page = <<>> THEN walk.before ELSE Last(page)[2],
                rows   |-> walk.rows \o page,
                ends   |-> IF page = <<>> THEN walk.ends ELSE walk.ends \cup {Last(page)[2]},
                start  |-> IF walk.step = "before"
                           THEN {k \in DOMAIN history : k[1] = Reader} ELSE walk.start,
                step   |-> IF page = <<>> THEN "done" ELSE "paging"]
  /\ UNCHANGED <<vars, history, request, reply, served>>

ApiNext ==
  \/ \E id \in DOMAIN Body, seen \in BOOLEAN : CommitIndexed(id, seen)
  \/ IndexerStep
  \/ (\E hash \in Hashes : ExplainRequest(hash)) \/ WriteActions
  \/ ReadRequest
  \/ ReadPage

ApiSpec == ApiInit /\ [][ApiNext]_allVars

(***************************************************************************)
(* Properties                                                              *)
(***************************************************************************)

\* Pages read while blocks are committed and rolled back never give a row
\* twice, and go back in time, whatever limits the client asks for.
PagesOnce ==
  \A i, j \in DOMAIN walk.rows :
    i < j => walk.rows[i] # walk.rows[j] /\ ~Newer(walk.rows[j], walk.rows[i])

\* A walk to the first empty page has given every row that was there at its
\* start, but those of a block at which a page ended.
GapsOnlyAtPageEnds ==
  walk.step = "done" =>
    \A key \in walk.start : key \in ToSet(walk.rows) \/ key[2] \in walk.ends

\* "Pagination is stable under concurrent indexing: no duplicated or skipped
\* rows": a finished walk has given every row that was there at its start.
NoSkippedRows == walk.step = "done" => walk.start \subseteq ToSet(walk.rows)

\* What a client relies on that stops at a page shorter than it asked for: there
\* is nothing older than the rows of such a page.
ShortPageIsLast ==
  \A before \in 1..(MaxCommits + 1), limit \in PageLimits :
    \A page \in AddressPage(before, limit) :
      Len(page) < limit =>
        \A k \in DOMAIN history : k[1] = Reader /\ k[2] < before => k \in ToSet(page)
=============================================================================
