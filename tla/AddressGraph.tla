---------------------------- MODULE AddressGraph ----------------------------
(* The two searches over the transactions table: build_graph (graph.rs), the *)
(* neighbourhood of an address up to a depth and a number of nodes, and      *)
(* find_clusters (clustering.rs), the addresses tied to it by repeated       *)
(* transactions.  Both are breadth-first searches whose rows come from one   *)
(* query per direction, ordered by count and cut off; rows of equal count    *)
(* come in any order.  The table does not change during a search.            *)
EXTENDS Intelligence, SequencesExt

CONSTANTS
  Addresses,
  Chains,      \* the databases searched
  Depths,      \* values of `depth' and `max_depth'
  NodeLimits,  \* values of `limit'
  FanOut,      \* LIMIT of the graph's transaction queries
  TokenFanOut, \* LIMIT of its token query
  ClusterFanOut, \* LIMIT of the clustering queries
  MinCount     \* HAVING COUNT( * ) >= 3 of the clustering queries

ASSUME SearchLimits ==
  /\ Depths \subseteq Nat /\ NodeLimits \subseteq Nat /\ MinCount \in Nat \ {0}
  /\ FanOut \in Nat /\ TokenFanOut \in Nat /\ ClusterFanOut \in Nat

\* The databases are finite, and transactions and transfers lie between
\* addresses.
ASSUME FiniteDatabases ==
  /\ IsFiniteSet(Addresses) /\ None \notin Addresses
  /\ \A c \in Chains :
       /\ IsFiniteSet(Rows(c)) /\ IsFiniteSet(TransferRows(c))
       /\ \A r \in Rows(c) : r.tx.from \in Addresses /\ r.tx.to \in Addresses \cup {None}
       /\ \A t \in TransferRows(c) : t.from \in Addresses /\ t.to \in Addresses

\* How the limits of labels.rs compare with those of address.rs: 100 transfers
\* either way against 50 one way, 20 contracts against 10.
ASSUME LabelLimits ==
  /\ {"tokens", "labelTokens", "contracts", "labelContracts", "labelNfts", "veryHigh"}
       \subseteq DOMAIN Limits
  /\ Limits.labelTokens >= 2 * Limits.tokens
  /\ Limits.labelContracts >= Limits.contracts

VARIABLES
  chain, center, depth, limit,   \* the request
  search,                        \* "graph", "cluster", or "done"
  kind,                          \* which of the two it is
  queue, visited, found, edges, interactions

vars == <<chain, center, depth, limit, search, kind, queue, visited, found,
          edges, interactions>>

\* GROUP BY: the other end of the transactions of a, with their number.
SentTo(a) ==
  [b \in Called(chain, a) |-> Cardinality({r \in Sent(chain, a) : r.tx.to = b})]
ReceivedFrom(a) ==
  [b \in Callers(chain, a) |-> Cardinality({r \in Received(chain, a) : r.tx.from = b})]
TokensTo(a) ==
  LET moved == {t \in TransferRows(chain) : t.from = a} IN
  [b \in {t.to : t \in moved} |-> Cardinality({t \in moved : t.to = b})]

\* ORDER BY count DESC LIMIT k: any order of rows with equal counts.
Results(count, k) ==
  {SubSeq(s, 1, Min({Len(s), k})) :
     s \in {t \in SetToSeqs(DOMAIN count) :
              \A i, j \in DOMAIN t : i < j => count[t[i]] >= count[t[j]]}}

AtLeast(count, n) == [b \in {c \in DOMAIN count : count[c] >= n} |-> count[b]]

\* The loop over the rows: those not seen before, as long as there is room.
Admitted(rows, seen, room) ==
  LET kept[i \in 0..Len(rows)] ==
        IF i = 0 THEN <<>>
        ELSE IF rows[i] \in seen \/ Len(kept[i - 1]) >= room THEN kept[i - 1]
        ELSE Append(kept[i - 1], rows[i])
  IN kept[Len(rows)]

Enqueued(rows, d) == [i \in DOMAIN rows |-> <<rows[i], d>>]

Init ==
  /\ chain \in Chains /\ center \in Addresses
  /\ depth \in Depths /\ limit \in NodeLimits
  /\ kind \in {"graph", "cluster"} /\ search = kind
  /\ queue = <<<<center, 0>>>> /\ visited = {center}
  /\ found = IF kind = "cluster" THEN <<center>> ELSE <<>>
  /\ edges = {} /\ interactions = 0

\* The first of the queue; the searches break off, they do not skip.
Current == Head(queue)[1]
CurrentDepth == Head(queue)[2]

\* A variant that serves the newest entry of the queue first.
ExpandGraphNewestFirst ==
  /\ search = "graph" /\ queue # <<>>
  /\ CurrentDepth < depth /\ Len(found) < limit
  /\ \E out \in Results(SentTo(Current), FanOut),
        in \in Results(ReceivedFrom(Current), FanOut) :
       LET fresh == Admitted(out, visited, limit - Len(found))
           more == Admitted(in, visited \cup ToSet(fresh), limit - Len(found) - Len(fresh))
       IN /\ found' = found \o fresh \o more
          /\ visited' = visited \cup ToSet(fresh) \cup ToSet(more)
          /\ queue' = Enqueued(fresh \o more, CurrentDepth + 1) \o Tail(queue)
          /\ edges' = edges
  /\ UNCHANGED <<chain, center, depth, limit, search, kind, interactions>>

ExpandGraph ==
  /\ search = "graph" /\ queue # <<>>
  /\ CurrentDepth < depth /\ Len(found) < limit
  /\ \E out \in Results(SentTo(Current), FanOut),
        in \in Results(ReceivedFrom(Current), FanOut),
        tok \in Results(TokensTo(Current), TokenFanOut) :
       LET fresh == Admitted(out, visited, limit - Len(found))
           more == Admitted(in, visited \cup ToSet(fresh), limit - Len(found) - Len(fresh))
       IN /\ found' = found \o fresh \o more
          /\ visited' = visited \cup ToSet(fresh) \cup ToSet(more)
          /\ queue' = Tail(queue) \o Enqueued(fresh \o more, CurrentDepth + 1)
          /\ edges' = edges
               \cup {<<Current, b, "transferred_to">> : b \in ToSet(out)}
               \cup {<<b, Current, "received_from">> : b \in ToSet(in)}
               \cup {<<Current, b, "transferred_token_to">> : b \in ToSet(tok)}
  /\ UNCHANGED <<chain, center, depth, limit, search, kind, interactions>>

\* A variant that follows only what the address sent.
ExpandClusterOneWay ==
  /\ search = "cluster" /\ queue # <<>>
  /\ CurrentDepth < depth
  /\ \E out \in Results(AtLeast(SentTo(Current), MinCount), ClusterFanOut) :
       LET fresh == Admitted(out, visited, Len(out))
       IN /\ found' = found \o fresh
          /\ visited' = visited \cup ToSet(fresh)
          /\ queue' = Tail(queue) \o Enqueued(fresh, CurrentDepth + 1)
          /\ interactions' = interactions
               + SumFunctionOnSet(SentTo(Current), ToSet(fresh))
  /\ UNCHANGED <<chain, center, depth, limit, search, kind, edges>>

ExpandCluster ==
  /\ search = "cluster" /\ queue # <<>>
  /\ CurrentDepth < depth
  /\ \E out \in Results(AtLeast(SentTo(Current), MinCount), ClusterFanOut),
        in \in Results(AtLeast(ReceivedFrom(Current), MinCount), ClusterFanOut) :
       LET fresh == Admitted(out, visited, Len(out))
           more == Admitted(in, visited \cup ToSet(fresh), Len(in))
       IN /\ found' = found \o fresh \o more
          /\ visited' = visited \cup ToSet(fresh) \cup ToSet(more)
          /\ queue' = Tail(queue) \o Enqueued(fresh \o more, CurrentDepth + 1)
          /\ interactions' = interactions
               + SumFunctionOnSet(SentTo(Current), ToSet(fresh))
               + SumFunctionOnSet(ReceivedFrom(Current), ToSet(more))
  /\ UNCHANGED <<chain, center, depth, limit, search, kind, edges>>

\* The loop ends when the queue is empty or its first entry is out of bounds.
Finish ==
  /\ search # "done"
  /\ \/ queue = <<>> /\ UNCHANGED queue
     \/ /\ queue # <<>>
        /\ CurrentDepth >= depth \/ (search = "graph" /\ Len(found) >= limit)
        /\ queue' = Tail(queue)
  /\ search' = "done"
  /\ UNCHANGED <<chain, center, depth, limit, kind, visited, found, edges, interactions>>

\* AddressGraph.depth_reached, from what is left in the queue.
DepthReached == IF queue = <<>> THEN 0 ELSE Min({depth, Last(queue)[2]})

Next == ExpandGraph \/ ExpandCluster \/ Finish
Spec == Init /\ [][Next]_vars

(***************************************************************************)
(* Reference definitions and properties                                    *)
(***************************************************************************)

\* Addresses with a transaction in either direction, and those with at least
\* MinCount in one direction.
Neighbours(c) == [a \in Addresses |-> Called(c, a) \cup Callers(c, a)]
Partners(c) ==
  [a \in Addresses |->
     {b \in Called(c, a) \cup Callers(c, a) :
        \/ Cardinality({r \in Sent(c, a) : r.tx.to = b}) >= MinCount
        \/ Cardinality({r \in Received(c, a) : r.tx.from = b}) >= MinCount}]

\* The addresses at most n steps away from ce.
Within(next, ce) ==
  LET w[n \in Nat] ==
        IF n = 0 THEN {ce} ELSE w[n - 1] \cup UNION {next[a] : a \in w[n - 1]}
  IN w

TypeOK ==
  /\ search \in {"graph", "cluster", "done"} /\ kind \in {"graph", "cluster"}
  /\ queue \in Seq(Addresses \X Nat) /\ visited \subseteq Addresses
  /\ found \in Seq(Addresses) /\ edges \subseteq Addresses \X Addresses \X STRING
  /\ interactions \in Nat

\* The graph holds nearest addresses first: all within the depth when the node
\* limit allows it, and otherwise none while a nearer one is missing, no
\* address twice and never the centre.
GraphExact ==
  kind = "graph" /\ search = "done" =>
    LET nodes == ToSet(found)
        near(n) == Within(Neighbours(chain), center)[n] \ {center}
    IN /\ Len(found) = Cardinality(nodes) /\ Len(found) <= limit
       /\ nodes \subseteq near(depth)
       /\ Len(found) < limit => nodes = near(depth)
       /\ \A n \in 1..depth : nodes \ near(n) # {} => near(n) \subseteq nodes

\* A cluster is everything tied to the centre within the depth, each address
\* once, and at least MinCount interactions per address but the centre.
ClusterExact ==
  kind = "cluster" /\ search = "done" =>
    /\ Len(found) = Cardinality(ToSet(found))
    /\ ToSet(found) = Within(Partners(chain), center)[depth]
    /\ interactions >= MinCount * (Len(found) - 1)

\* The two sets of rules about an address agree: where get_address_labels gives a
\* label, the thresholds of analyze_address are passed too, although one counts
\* transfers in either direction together and the other each on its own.
LabelsAgree ==
  \A a \in Addresses :
    LET labels == AddressLabels(chain, a)
        classes == Classifications(chain, a)
    IN /\ "Token Trader" \in labels => "token_trader" \in classes
       /\ "NFT Collector" \in labels => "nft_participant" \in classes
       /\ "DeFi User" \in labels => "contract_interactor" \in classes
       /\ ActivityLevel(chain, a) = "very_high" => "High Activity" \in labels
=============================================================================
