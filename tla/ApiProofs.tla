------------------------------ MODULE ApiProofs ------------------------------
(* Proofs about module Api, for every chain, page size and number of         *)
(* requests.                                                                 *)
EXTENDS Api, BackgroundProofs

-----------------------------------------------------------------------------
(* A second writer of transaction_actions next to the processor: it only     *)
(* adds rows, so what module BackgroundProofs shows stays true.              *)
LEMMA RequestsChangeNothing ==
  ASSUME ReadRequest \/ (\E hash \in Hashes : ExplainRequest(hash))
  PROVE  UNCHANGED <<vars, history, walk>>
<1>1. ASSUME NEW status, Answer(status)
      PROVE  UNCHANGED <<vars, history, walk>>
  BY <1>1 DEF Answer
<1>2. CASE ReadRequest
  <2>1. \E status : Answer(status)
    BY <1>2 DEF ReadRequest, BlockRequest, TransactionRequest, TrendsRequest
  <2> QED
    BY <1>1, <2>1
<1>3. ASSUME NEW hash \in Hashes, ExplainRequest(hash)
      PROVE  UNCHANGED <<vars, history, walk>>
  BY <1>1, <1>3 DEF ExplainRequest
<1> QED
  BY <1>2, <1>3

LEMMA ApiInvInit == ApiInit => ActionsInv
  BY ActionsInit DEF ApiInit

LEMMA ApiWrites ==
  ASSUME ActionsInv, WriteActions
  PROVE  ActionsInv'
<1> USE DEF ActionsInv, TableInv
<1>1. /\ actions' = ActionsWith(request.of, request.types)
      /\ UNCHANGED <<ids, main, pending, commits, queue, proc, task, todo, draft, lost>>
  BY DEF WriteActions, indexer
<1>2. Control'
  BY <1>1, ChainKept, ChannelKept, MainKept, ProcKept, LostKept DEF Control
<1>3. IsABag(actions') /\ DraftOK' /\ OnBranch'
  BY <1>1, BagWritten DEF DraftOK, OnBranch
<1>4. DOMAIN actions \subseteq DOMAIN actions'
  BY <1>1, ActionsGrow
<1>5. Coming' = Coming /\ \A h, i : Due(h, i)' = Due(h, i)
  BY <1>1 DEF Coming, Due, Hash
<1>6. ActionsOK'
  BY <1>1, <1>4, <1>5, ActionsQuiet
<1> QED
  BY <1>2, <1>3, <1>6

LEMMA ApiInvNext == ActionsInv /\ [ApiNext]_allVars => ActionsInv'
<1> SUFFICES ASSUME ActionsInv, [ApiNext]_allVars
             PROVE  ActionsInv'
  OBVIOUS
<1>1. ASSUME [Next]_vars
      PROVE  ActionsInv'
  BY <1>1, ActionsNext
<1>2. CASE \E id \in DOMAIN Body, seen \in BOOLEAN : CommitIndexed(id, seen)
  BY <1>1, <1>2 DEF CommitIndexed, Next
<1>3. CASE IndexerStep
  BY <1>1, <1>3 DEF IndexerStep, Next
<1>4. CASE UNCHANGED allVars \/ ReadPage
  BY <1>1, <1>4 DEF allVars, ReadPage
<1>5. CASE ReadRequest \/ (\E hash \in Hashes : ExplainRequest(hash))
  BY <1>1, <1>5, RequestsChangeNothing
<1> QED
  BY <1>2, <1>3, <1>4, <1>5, ApiWrites DEF ApiNext

\* ExplainedUnlessDropped also holds with the explanations that the API writes
\* (handlers.rs, explain_transaction) between the statements of the processor and
\* the rollbacks of the indexer.
THEOREM ExplainedWithTwoWriters == ApiSpec => []ExplainedUnlessDropped
<1>1. ActionsInv => ExplainedUnlessDropped
  BY RestIsExplained DEF ActionsInv, TableInv, ExplainedUnlessDropped
<1> QED
  BY <1>1, ApiInvInit, ApiInvNext, PTL DEF ApiSpec

-----------------------------------------------------------------------------
(* The history of an address, page by page.  The table only grows, and the   *)
(* client never goes forward: everything it has read is at or above the      *)
(* block it asks for next, everything it asks for is below.                  *)

Readable == {k \in DOMAIN history : k[1] = Reader}

HistoryOK ==
  /\ IsFiniteSet(DOMAIN history)
  /\ \A k \in DOMAIN history : k[2] \in Heights /\ k[3] \in Nat

RowsOK ==
  /\ walk.before \in Nat /\ walk.rows \in Seq(Readable)
  /\ \A i \in DOMAIN walk.rows : walk.rows[i][2] >= walk.before

GapsOK ==
  /\ walk.step = "before" => walk.before = MaxCommits + 1
  /\ walk.step # "before" =>
       /\ walk.start \subseteq Readable
       /\ \A key \in walk.start :
            \/ key \in ToSet(walk.rows) \/ key[2] \in walk.ends
            \/ walk.step = "paging" /\ key[2] < walk.before

WalkInv == ActionsInv /\ HistoryOK /\ RowsOK /\ PagesOnce /\ GapsOK

LEMMA WalkInit == ApiInit => WalkInv
<1> SUFFICES ASSUME ApiInit
             PROVE  WalkInv
  OBVIOUS
<1>1. history = <<>> /\ walk = NoWalk
  BY DEF ApiInit
<1>2. HistoryOK
  BY <1>1, FS_EmptySet DEF HistoryOK
<1>3. RowsOK /\ PagesOnce /\ GapsOK
  BY <1>1, BackgroundConfig DEF NoWalk, RowsOK, PagesOnce, GapsOK
<1> QED
  BY <1>2, <1>3, ApiInvInit DEF WalkInv

\* insert_address_transactions adds finitely many rows, at the new height.
LEMMA HistoryRowFacts ==
  ASSUME NEW height, NEW id \in DOMAIN Body
  PROVE  /\ IsFiniteSet(DOMAIN HistoryRows(height, id))
         /\ \A k \in DOMAIN HistoryRows(height, id) : k[2] = height /\ k[3] \in Nat
<1> DEFINE txs == Body[id].txs
           D == DOMAIN txs
           E == {j \in D : txs[j].to # None}
           f == [i \in D |-> <<txs[i].from, height, i, 0>>]
           g == [i \in E |-> <<txs[i].to, height, i, 1>>]
           F == {<<txs[i].from, height, i, 0>> : i \in D}
           G == {<<txs[i].to, height, i, 1>> : i \in E}
<1>1. D = 1..Len(txs) /\ Len(txs) \in Nat
  BY BackgroundConfig
<1>2. IsFiniteSet(D) /\ D \subseteq Nat
  BY <1>1, FS_Interval
<1>3. IsFiniteSet(E)
  <2>1. E \in SUBSET D
    OBVIOUS
  <2> QED
    BY <1>2, <2>1, FS_Subset
<1>4. f \in Surjection(D, F) /\ g \in Surjection(E, G)
  BY DEF Surjection
<1>5. IsFiniteSet(F) /\ IsFiniteSet(G)
  BY <1>2, <1>3, <1>4, FS_Surjection
<1>6. DOMAIN HistoryRows(height, id) = F \cup G
  BY DEF HistoryRows
<1>7. IsFiniteSet(F \cup G)
  BY <1>5, FS_Union
<1>8. \A k \in F \cup G : k[2] = height /\ k[3] \in Nat
  BY <1>2
<1> QED
  BY <1>6, <1>7, <1>8

\* A page: rows of the reader's, below `before', the newest first, each once;
\* what it leaves out is not newer than its last row, and an empty page leaves
\* nothing out.  Its length is whatever the client and the cap make it.
LEMMA PageFacts ==
  ASSUME HistoryOK, NEW before \in Nat, NEW limit \in PageLimits,
         NEW page \in AddressPage(before, limit)
  PROVE  /\ page \in Seq(Readable)
         /\ \A i \in DOMAIN page : page[i][2] < before
         /\ \A i, j \in DOMAIN page : i < j => page[i] # page[j] /\ ~Newer(page[j], page[i])
         /\ \A key \in Readable : key[2] < before =>
              \/ key \in ToSet(page)
              \/ page # <<>> /\ \A i \in DOMAIN page : ~Newer(key, page[i])
<1> DEFINE keys == {k \in DOMAIN history : k[1] = Reader /\ k[2] < before}
           n == Cardinality(keys)
<1>1. PICK s \in SetToSeqs(keys) :
        /\ \A i, j \in DOMAIN s : i < j => ~Newer(s[j], s[i])
        /\ page = SubSeq(s, 1, Min({Len(s), limit, MaxPage}))
  BY DEF AddressPage, Pages
<1>2. s \in [1..n -> keys] /\ \A i, j \in 1..n : i # j => s[i] # s[j]
  BY DEF SetToSeqs
<1>3. IsFiniteSet(keys)
  <2>1. keys \in SUBSET DOMAIN history
    OBVIOUS
  <2> QED
    BY <2>1, FS_Subset DEF HistoryOK
<1>4. n \in Nat
  BY <1>3, FS_CardinalityType
<1> HIDE DEF n
<1>5. \A key \in keys : \E i \in 1..n : s[i] = key
  <2>1. s \in Injection(1..n, keys)
    BY <1>2 DEF Injection, IsInjective
  <2>2. Cardinality(1..n) = n
    BY <1>4, FS_Interval
  <2>3. s \in Surjection(1..n, keys)
    BY <1>3, <2>1, <2>2, FS_Injection DEF n
  <2> QED
    BY <2>3 DEF Surjection
<1>6. s \in Seq(keys) /\ Len(s) = n /\ DOMAIN s = 1..n
  BY <1>2, <1>4
<1> DEFINE m == Min({Len(s), limit, MaxPage})
<1>7. m \in Nat /\ m <= n /\ (m = n \/ m > 0)
  <2>1. limit \in Nat /\ limit > 0 /\ MaxPage \in Nat /\ MaxPage > 0
    BY ApiConfig
  <2>2. PICK x \in {n, limit, MaxPage} : \A y \in {n, limit, MaxPage} : x <= y
    BY <1>4, <2>1
  <2>3. m \in {n, limit, MaxPage} /\ \A y \in {n, limit, MaxPage} : m <= y
    BY <1>6, <2>2 DEF Min
  <2> QED
    BY <1>4, <2>1, <2>3
<1> HIDE DEF m
<1>8. /\ page \in Seq(keys) /\ Len(page) = m /\ DOMAIN page = 1..m
      /\ \A i \in 1..m : page[i] = s[i]
  <2>1. \A i \in 1..m : s[i] \in keys
    BY <1>2, <1>4, <1>7
  <2>2. page = SubSeq(s, 1, m)
    BY <1>1 DEF m
  <2>3. page \in Seq(keys) /\ Len(page) = m /\ \A i \in 1..m : page[i] = s[i]
    BY <1>7, <2>1, <2>2, SubSeqProperties
  <2> QED
    BY <2>3
<1>9. \A i \in 1..m : i \in 1..n
  BY <1>4, <1>7
<1>10. page \in Seq(Readable) /\ \A i \in DOMAIN page : page[i] \in keys
  <2>1. \A i \in DOMAIN page : page[i] \in keys
    BY <1>8
  <2>2. keys \subseteq Readable
    BY DEF Readable
  <2> QED
    BY <1>7, <1>8, <2>1, <2>2
<1>11. \A i, j \in DOMAIN page : i < j => page[i] # page[j] /\ ~Newer(page[j], page[i])
  <2> SUFFICES ASSUME NEW i \in 1..m, NEW j \in 1..m, i < j
               PROVE  page[i] # page[j] /\ ~Newer(page[j], page[i])
    BY <1>8
  <2>1. i \in 1..n /\ j \in 1..n /\ i # j
    BY <1>9
  <2>2. s[i] # s[j] /\ ~Newer(s[j], s[i])
    BY <1>1, <1>2, <1>6, <2>1
  <2> QED
    BY <1>8, <2>2
<1>12. ASSUME NEW key \in Readable, key[2] < before
       PROVE  \/ key \in ToSet(page)
              \/ page # <<>> /\ \A i \in DOMAIN page : ~Newer(key, page[i])
  <2>1. key \in keys
    BY <1>12 DEF Readable
  <2>2. PICK p \in 1..n : s[p] = key
    BY <1>5, <2>1
  <2>3. CASE p <= m
    <3>1. p \in DOMAIN page /\ page[p] = key
      BY <1>7, <1>8, <2>2, <2>3
    <3> QED
      BY <3>1 DEF ToSet
  <2>4. CASE p > m
    <3>1. m > 0
      BY <1>4, <1>7, <2>4
    <3>2. ASSUME NEW i \in DOMAIN page
          PROVE  ~Newer(key, page[i])
      <4>1. i \in 1..n /\ i < p
        BY <1>4, <1>7, <1>8, <2>4
      <4>2. ~Newer(s[p], s[i])
        BY <1>1, <1>6, <4>1
      <4> QED
        BY <1>8, <2>2, <4>2
    <3> QED
      BY <1>8, <3>1, <3>2
  <2> QED
    BY <1>7, <2>3, <2>4
<1> QED
  BY <1>10, <1>11, <1>12

\* Where no page is read, the table at most grows.
LEMMA WalkKept ==
  ASSUME WalkInv, ActionsInv', HistoryOK', UNCHANGED walk, DOMAIN history \subseteq DOMAIN history'
  PROVE  WalkInv'
<1>1. Readable \subseteq Readable'
  BY DEF Readable
<1>2. walk.rows \in Seq(Readable')
  BY <1>1 DEF WalkInv, RowsOK
<1>3. RowsOK'
  BY <1>2 DEF WalkInv, RowsOK
<1>4. PagesOnce' /\ GapsOK'
  BY <1>1 DEF WalkInv, PagesOnce, GapsOK, Newer
<1> QED
  BY <1>3, <1>4 DEF WalkInv

LEMMA CommitGrowsHistory ==
  ASSUME WalkInv, NEW id \in DOMAIN Body, NEW seen \in BOOLEAN, CommitIndexed(id, seen)
  PROVE  HistoryOK' /\ UNCHANGED walk /\ DOMAIN history \subseteq DOMAIN history'
<1> DEFINE rows == HistoryRows(Len(ids) + 1, id)
<1>1. /\ Commit(id, seen) /\ history' = InsertNew(history, rows) /\ UNCHANGED walk
  BY DEF CommitIndexed
<1>2. Len(ids) + 1 \in Heights
  BY <1>1, BackgroundConfig DEF WalkInv, ActionsInv, TableInv, Control, ChainOK, Commit, Heights
<1> HIDE DEF rows
<1>3. DOMAIN history' = DOMAIN history \cup DOMAIN rows
  BY <1>1 DEF InsertNew
<1>4. IsFiniteSet(DOMAIN rows) /\ \A k \in DOMAIN rows : k[2] = Len(ids) + 1 /\ k[3] \in Nat
  BY HistoryRowFacts DEF rows
<1>5. IsFiniteSet(DOMAIN history')
  BY <1>3, <1>4, FS_Union DEF WalkInv, HistoryOK
<1>6. HistoryOK'
  BY <1>2, <1>3, <1>4, <1>5 DEF WalkInv, HistoryOK, Heights
<1> QED
  BY <1>1, <1>3, <1>6

LEMMA WalkReads ==
  ASSUME WalkInv, ReadPage
  PROVE  WalkInv'
<1> DEFINE Reads(page) ==
       walk' = [before |-> IF page = <<>> THEN walk.before ELSE Last(page)[2],
                rows   |-> walk.rows \o page,
                ends   |-> IF page = <<>> THEN walk.ends ELSE walk.ends \cup {Last(page)[2]},
                start  |-> IF walk.step = "before"
                           THEN {k \in DOMAIN history : k[1] = Reader} ELSE walk.start,
                step   |-> IF page = <<>> THEN "done" ELSE "paging"]
<1>0. PICK limit \in PageLimits : \E page \in AddressPage(walk.before, limit) : Reads(page)
  BY DEF ReadPage
<1>1. PICK page \in AddressPage(walk.before, limit) : Reads(page)
  BY <1>0
<1>2. walk.step # "done" /\ UNCHANGED history
  BY DEF ReadPage
<1>3. ActionsInv'
  BY ApiInvNext DEF WalkInv, ApiNext
<1>4. HistoryOK' /\ Readable' = Readable
  BY <1>2 DEF WalkInv, HistoryOK, Readable
<1>5. /\ page \in Seq(Readable)
      /\ \A i \in DOMAIN page : page[i][2] < walk.before
      /\ \A i, j \in DOMAIN page : i < j => page[i] # page[j] /\ ~Newer(page[j], page[i])
      /\ \A key \in Readable : key[2] < walk.before =>
           \/ key \in ToSet(page)
           \/ page # <<>> /\ \A i \in DOMAIN page : ~Newer(key, page[i])
  BY PageFacts DEF WalkInv, RowsOK
<1>6. \A k \in Readable : k[2] \in Nat /\ k[3] \in Nat /\ k[2] <= MaxCommits
  BY BackgroundConfig DEF WalkInv, HistoryOK, Heights, Readable
<1> DEFINE old == walk.rows
           new == old \o page
<1>7. /\ old \in Seq(Readable) /\ walk.before \in Nat
      /\ \A i \in DOMAIN old : old[i][2] >= walk.before
  BY DEF WalkInv, RowsOK
<1>8. /\ new \in Seq(Readable) /\ Len(new) = Len(old) + Len(page)
      /\ \A i \in 1..(Len(old) + Len(page)) :
           new[i] = IF i <= Len(old) THEN old[i] ELSE page[i - Len(old)]
  BY <1>5, <1>7, ConcatProperties
<1>9. /\ DOMAIN new = 1..(Len(old) + Len(page)) /\ Len(old) \in Nat /\ Len(page) \in Nat
      /\ DOMAIN old = 1..Len(old) /\ DOMAIN page = 1..Len(page)
  BY <1>5, <1>7, <1>8
<1>10. ASSUME NEW i \in DOMAIN new
       PROVE  \/ i \in DOMAIN old /\ new[i] = old[i]
              \/ i > Len(old) /\ i - Len(old) \in DOMAIN page /\ new[i] = page[i - Len(old)]
  BY <1>8, <1>9
<1>11. \A i \in DOMAIN page : page[i] \in Readable
  BY <1>5
<1>12. \A i \in DOMAIN old : old[i] \in Readable
  BY <1>7
\* Everything on the page is at or above its last row.
<1>13. ASSUME page # <<>>
       PROVE  /\ Last(page)[2] \in Nat /\ Last(page)[2] < walk.before
              /\ \A i \in DOMAIN page : page[i][2] >= Last(page)[2]
  <2>1. Len(page) \in DOMAIN page /\ Last(page) = page[Len(page)]
    BY <1>5, <1>9, <1>13 DEF Last
  <2>2. ASSUME NEW i \in DOMAIN page
        PROVE  page[i][2] >= Last(page)[2]
    <3>1. CASE i = Len(page)
      BY <1>6, <1>11, <2>1, <3>1
    <3>2. CASE i # Len(page)
      <4>1. i < Len(page)
        BY <1>9, <3>2
      <4>2. ~Newer(Last(page), page[i])
        BY <1>5, <2>1, <4>1
      <4> QED
        BY <1>6, <1>11, <2>1, <4>2 DEF Newer
    <3> QED
      BY <3>1, <3>2
  <2> QED
    BY <1>5, <1>6, <1>11, <2>1, <2>2
<1>14. walk'.rows = new /\ walk'.before = IF page = <<>> THEN walk.before ELSE Last(page)[2]
  BY <1>1
<1> HIDE DEF new, old
<1>15. walk'.before \in Nat /\ walk'.before <= walk.before
  BY <1>7, <1>13, <1>14
<1>16. RowsOK'
  <2>1. ASSUME NEW i \in DOMAIN new
        PROVE  new[i][2] >= walk'.before
    <3>1. CASE i \in DOMAIN old /\ new[i] = old[i]
      BY <1>6, <1>7, <1>12, <1>15, <3>1
    <3>2. CASE i > Len(old) /\ i - Len(old) \in DOMAIN page /\ new[i] = page[i - Len(old)]
      <4>1. page # <<>>
        BY <3>2
      <4> QED
        BY <1>13, <1>14, <3>2, <4>1
    <3> QED
      BY <1>10, <3>1, <3>2
  <2> QED
    BY <1>4, <1>8, <1>14, <1>15, <2>1 DEF RowsOK
<1>17. PagesOnce'
  <2> SUFFICES ASSUME NEW i \in DOMAIN new, NEW j \in DOMAIN new, i < j
               PROVE  new[i] # new[j] /\ ~Newer(new[j], new[i])
    BY <1>14 DEF PagesOnce
  <2>1. CASE j \in DOMAIN old
    <3>1. i \in DOMAIN old /\ new[i] = old[i] /\ new[j] = old[j]
      BY <1>8, <1>9, <2>1
    <3> QED
      BY <2>1, <3>1 DEF WalkInv, PagesOnce, old
  <2>2. CASE j \notin DOMAIN old /\ i \in DOMAIN old
    <3>1. new[i] = old[i] /\ new[j] = page[j - Len(old)] /\ j - Len(old) \in DOMAIN page
      BY <1>8, <1>9, <1>10, <2>2
    <3>2. new[j][2] < new[i][2]
      BY <1>5, <1>6, <1>7, <1>11, <1>12, <2>2, <3>1
    <3>3. new[i][2] \in Nat /\ new[j][2] \in Nat
      BY <1>6, <1>11, <1>12, <2>2, <3>1
    <3>4. new[i][3] \in Nat /\ new[j][3] \in Nat
      BY <1>6, <1>11, <1>12, <2>2, <3>1
    <3> QED
      BY <3>2, <3>3, <3>4 DEF Newer
  <2>3. CASE j \notin DOMAIN old /\ i \notin DOMAIN old
    <3>1. /\ i - Len(old) \in DOMAIN page /\ new[i] = page[i - Len(old)]
          /\ j - Len(old) \in DOMAIN page /\ new[j] = page[j - Len(old)]
      BY <1>10, <2>3
    <3>2. i - Len(old) < j - Len(old)
      BY <1>9
    <3> QED
      BY <1>5, <3>1, <3>2
  <2> QED
    BY <2>1, <2>2, <2>3
<1>18. GapsOK'
  <2>1. walk'.step # "before" /\ walk'.step = IF page = <<>> THEN "done" ELSE "paging"
    BY <1>1
  <2>2. walk'.start \subseteq Readable
    BY <1>1 DEF WalkInv, GapsOK, Readable
  <2>3. ASSUME NEW key \in walk'.start
        PROVE  key \in ToSet(old) \/ key[2] \in walk.ends \/ key[2] < walk.before
    <3>1. CASE walk.step = "before"
      <4>1. walk.before = MaxCommits + 1 /\ key \in Readable
        BY <2>2, <3>1 DEF WalkInv, GapsOK
      <4> QED
        BY <1>6, <4>1, BackgroundConfig
    <3>2. CASE walk.step # "before"
      BY <1>1, <3>2 DEF WalkInv, GapsOK, old
    <3> QED
      BY <3>1, <3>2
  <2>4. ASSUME NEW key \in walk'.start
        PROVE  \/ key \in ToSet(new) \/ key[2] \in walk'.ends
               \/ walk'.step = "paging" /\ key[2] < walk'.before
    <3>1. CASE key \in ToSet(old)
      <4>1. PICK i \in DOMAIN old : key = old[i]
        BY <3>1 DEF ToSet
      <4>2. i \in DOMAIN new /\ new[i] = key
        BY <1>8, <1>9, <4>1
      <4> QED
        BY <4>2 DEF ToSet
    <3>2. CASE key[2] \in walk.ends
      BY <1>1, <3>2
    <3>3. CASE key[2] < walk.before /\ key \in ToSet(page)
      <4>1. PICK i \in DOMAIN page : key = page[i]
        BY <3>3 DEF ToSet
      <4>2. Len(old) + i \in DOMAIN new /\ new[Len(old) + i] = key
        BY <1>8, <1>9, <4>1
      <4> QED
        BY <4>2 DEF ToSet
    <3>4. CASE key[2] < walk.before /\ key \notin ToSet(page)
      <4>1. page # <<>> /\ \A i \in DOMAIN page : ~Newer(key, page[i])
        BY <1>5, <2>2, <3>4
      <4>2. page # <<>> /\ Len(page) \in DOMAIN page
        BY <1>5, <1>9, <4>1
      <4>3. ~Newer(key, Last(page)) /\ Last(page) \in Readable
        BY <1>11, <4>1, <4>2 DEF Last
      <4>4. key[2] <= Last(page)[2]
        BY <1>6, <2>2, <4>3 DEF Newer
      <4>5. key[2] = Last(page)[2] \/ key[2] < Last(page)[2]
        BY <1>6, <2>2, <4>3, <4>4
      <4>6. walk'.ends = walk.ends \cup {Last(page)[2]} /\ walk'.before = Last(page)[2]
        BY <1>1, <4>2
      <4>7. walk'.step = "paging"
        BY <2>1, <4>1
      <4> QED
        BY <4>5, <4>6, <4>7
    <3> QED
      BY <2>3, <3>1, <3>2, <3>3, <3>4
  <2> QED
    BY <1>4, <1>14, <2>1, <2>2, <2>4 DEF GapsOK
<1> QED
  BY <1>3, <1>4, <1>16, <1>17, <1>18 DEF WalkInv

LEMMA WalkNext == WalkInv /\ [ApiNext]_allVars => WalkInv'
<1> SUFFICES ASSUME WalkInv, [ApiNext]_allVars
             PROVE  WalkInv'
  OBVIOUS
<1>1. ActionsInv'
  BY ApiInvNext DEF WalkInv
<1>2. ASSUME UNCHANGED <<history, walk>>
      PROVE  WalkInv'
  <2>1. HistoryOK'
    BY <1>2 DEF WalkInv, HistoryOK
  <2> QED
    BY <1>1, <1>2, <2>1, WalkKept
<1>3. ASSUME NEW id \in DOMAIN Body, NEW seen \in BOOLEAN, CommitIndexed(id, seen)
      PROVE  WalkInv'
  BY <1>1, <1>3, CommitGrowsHistory, WalkKept
<1>4. CASE IndexerStep \/ WriteActions \/ UNCHANGED allVars
  BY <1>2, <1>4 DEF IndexerStep, WriteActions, apiVars, allVars
<1>5. CASE ReadRequest \/ (\E hash \in Hashes : ExplainRequest(hash))
  BY <1>2, <1>5, RequestsChangeNothing
<1> QED
  BY <1>3, <1>4, <1>5, WalkReads DEF ApiNext

\* PagesOnce: a client that reads an address's history page by page
\* (get_address_transactions, block_number < before) while blocks are committed
\* and rolled back is never given a row twice nor a newer one after an older.
THEOREM PagesNeverRepeat == ApiSpec => []PagesOnce
<1>1. WalkInv => PagesOnce
  BY DEF WalkInv
<1> QED
  BY <1>1, WalkInit, WalkNext, PTL DEF ApiSpec

\* GapsOnlyAtPageEnds: what a walk to the first empty page has missed of the rows
\* that were there at its start is of a block at which a page ended, and nothing
\* else, whatever limits the client asks for and wherever the handler cuts them:
\* the condition is on the block number alone.
THEOREM GapsAreAtPageEnds == ApiSpec => []GapsOnlyAtPageEnds
<1>1. WalkInv => GapsOnlyAtPageEnds
  BY DEF WalkInv, GapsOK, GapsOnlyAtPageEnds
<1> QED
  BY <1>1, WalkInit, WalkNext, PTL DEF ApiSpec
=============================================================================
