--------------------------- MODULE ServicesProofs ---------------------------
(* Proofs about the caches, for every set of keys, every bound and every time *)
(* to live, and about the event stream, for any number of clients.            *)
EXTENDS Services, FiniteSetTheorems, TLAPS

\* What makes NeverStale inductive: every entry of the map is exactly what its
\* key was put with last, and no key of the map is marked as dropped.
EntriesCurrent ==
  /\ DOMAIN put = Keys /\ DOMAIN entries \subseteq Keys
  /\ \A k \in DOMAIN entries : entries[k] = put[k] /\ k \notin dropped

\* A map without some of its keys.
LEMMA WithoutKeys ==
  ASSUME NEW keys
  PROVE  /\ DOMAIN Without(keys) = DOMAIN entries \ keys
         /\ \A k \in DOMAIN entries \ keys : Without(keys)[k] = entries[k]
  BY DEF Without

\* set_with_ttl keeps the entries current, whichever entry it evicts.
LEMMA SetKeepsCurrent ==
  ASSUME EntriesCurrent, NEW k \in Keys, NEW v \in Values, NEW ttl \in Ttls,
         SetWithTtl(k, v, ttl)
  PROVE  EntriesCurrent'
  <1>1. PICK victim \in Victims : entries' = Inserted(k, Entry(v, ttl), Without(victim))
    BY DEF SetWithTtl
  <1>2. /\ DOMAIN entries' = {k} \cup (DOMAIN entries \ victim)
        /\ entries'[k] = Entry(v, ttl)
        /\ \A j \in (DOMAIN entries \ victim) \ {k} : entries'[j] = entries[j]
    BY <1>1, WithoutKeys DEF Inserted
  <1>3. put' = [put EXCEPT ![k] = Entry(v, ttl)] /\ dropped' = dropped \ {k}
    BY DEF SetWithTtl
  <1>4. DOMAIN put' = Keys /\ DOMAIN entries' \subseteq Keys
    BY <1>2, <1>3 DEF EntriesCurrent
  <1>5. ASSUME NEW j \in DOMAIN entries'
        PROVE  entries'[j] = put'[j] /\ j \notin dropped'
    <2>1. CASE j = k
      BY <2>1, <1>2, <1>3 DEF EntriesCurrent
    <2>2. CASE j # k
      BY <2>2, <1>2, <1>3 DEF EntriesCurrent
    <2> QED BY <2>1, <2>2
  <1> QED BY <1>4, <1>5 DEF EntriesCurrent

\* remove, clear, clean-up and invalidation keep the entries current.
LEMMA DropKeepsCurrent ==
  ASSUME EntriesCurrent, NEW keys, Drop(keys)
  PROVE  EntriesCurrent'
  BY WithoutKeys DEF EntriesCurrent, Drop

\* Every operation of the caches keeps the entries current.
LEMMA CacheKeepsCurrent ==
  ASSUME EntriesCurrent, [CacheNext]_cacheVars
  PROVE  EntriesCurrent'
  <1>1. ASSUME NEW k \in Keys, NEW v \in Values, Set(k, v)
        PROVE  EntriesCurrent'
    BY <1>1, CacheConfig, SetKeepsCurrent DEF Set
  <1>2. ASSUME NEW k \in Keys, NEW v \in Values, NEW ttl \in Ttls, SetWithTtl(k, v, ttl)
        PROVE  EntriesCurrent'
    BY <1>2, SetKeepsCurrent
  <1>3. ASSUME NEW k \in Keys, Remove(k)
        PROVE  EntriesCurrent'
    BY <1>3, DropKeepsCurrent DEF Remove
  <1>4. CASE Clear
    BY <1>4, DropKeepsCurrent DEF Clear
  <1>5. CASE CleanupExpired
    BY <1>5, DropKeepsCurrent DEF CleanupExpired
  <1>6. ASSUME NEW prefix \in Prefixes, InvalidatePrefix(prefix)
        PROVE  EntriesCurrent'
    BY <1>6, DropKeepsCurrent DEF InvalidatePrefix
  <1>7. CASE CacheTick
    BY <1>7 DEF CacheTick, EntriesCurrent
  <1>8. CASE UNCHANGED cacheVars
    BY <1>8 DEF cacheVars, EntriesCurrent
  <1> QED
    BY <1>1, <1>2, <1>3, <1>4, <1>5, <1>6, <1>7, <1>8 DEF CacheNext

(***************************************************************************)
(* Types                                                                   *)
(***************************************************************************)

\* An entry is never inserted in the future, and lives as long as asked for.
LEMMA CacheKeepsTypes ==
  ASSUME CacheTypeOK, [CacheNext]_cacheVars
  PROVE  CacheTypeOK'
  <1> USE CacheConfig
  <1>1. ASSUME NEW k \in Keys, NEW v \in Values, NEW ttl \in Ttls, SetWithTtl(k, v, ttl)
        PROVE  CacheTypeOK'
    <2>1. PICK victim \in Victims : entries' = Inserted(k, Entry(v, ttl), Without(victim))
      BY <1>1 DEF SetWithTtl
    <2>2. /\ DOMAIN entries' = {k} \cup (DOMAIN entries \ victim)
          /\ entries'[k] = Entry(v, ttl)
          /\ \A j \in (DOMAIN entries \ victim) \ {k} : entries'[j] = entries[j]
      BY <2>1, WithoutKeys DEF Inserted
    <2>3. clock' = clock
      BY <1>1 DEF SetWithTtl
    <2>4. Entry(v, ttl).at \in 0..clock /\ Entry(v, ttl).ttl \in Ttls
      BY DEF Entry, CacheTypeOK
    <2> QED BY <2>2, <2>3, <2>4 DEF CacheTypeOK
  <1>2. ASSUME NEW keys, Drop(keys)
        PROVE  CacheTypeOK'
    BY <1>2, WithoutKeys DEF Drop, CacheTypeOK
  <1>3. CASE CacheTick
    BY <1>3 DEF CacheTick, CacheTypeOK
  <1>4. CASE UNCHANGED cacheVars
    BY <1>4 DEF cacheVars, CacheTypeOK
  <1> QED
    BY <1>1, <1>2, <1>3, <1>4
       DEF CacheNext, Set, Remove, Clear, CleanupExpired, InvalidatePrefix

\* A current entry is given out during its life only, and it is the last one.
LEMMA CurrentIsNotStale == CacheTypeOK /\ EntriesCurrent => NeverStale
  <1> SUFFICES ASSUME CacheTypeOK, EntriesCurrent, NEW k \in Keys, Get(k) # Nothing
               PROVE  /\ k \notin dropped /\ Get(k) = put[k].value
                      /\ clock - put[k].at <= put[k].ttl
    BY DEF NeverStale
  <1>1. k \in DOMAIN entries /\ ~IsExpired(entries[k]) /\ Get(k) = entries[k].value
    BY DEF Get
  <1>2. entries[k] = put[k] /\ k \notin dropped
    BY <1>1 DEF EntriesCurrent
  <1>3. entries[k].at \in Int /\ entries[k].ttl \in Int /\ clock \in Int
    <2>1. clock \in Int
      BY CacheConfig DEF CacheTypeOK
    <2>2. entries[k].at \in 0..clock /\ entries[k].ttl \in Ttls
      BY <1>1 DEF CacheTypeOK
    <2>3. entries[k].at \in Int
      BY <2>1, <2>2
    <2>4. \A t \in Ttls : t \in Int
      BY CacheConfig
    <2>5. entries[k].ttl \in Int
      BY <2>2, <2>4
    <2> QED BY <2>1, <2>3, <2>5
  <1> QED
    BY <1>1, <1>2, <1>3 DEF IsExpired

(***************************************************************************)
(* The bound                                                               *)
(***************************************************************************)

\* SizeBounded with what makes it inductive: the map is finite.
Bound == IF MaxEntries = 0 THEN 1 ELSE MaxEntries
FinitelyBounded == IsFiniteSet(DOMAIN entries) /\ SizeBounded

\* set evicts before it inserts, so one entry takes the place of another.
LEMMA SetKeepsBound ==
  ASSUME FinitelyBounded, NEW k, NEW v, NEW ttl, SetWithTtl(k, v, ttl)
  PROVE  FinitelyBounded'
  <1> DEFINE D == DOMAIN entries
  <1>1. PICK victim \in Victims : entries' = Inserted(k, Entry(v, ttl), Without(victim))
    BY DEF SetWithTtl
  <1>2. DOMAIN entries' = (D \ victim) \cup {k}
    BY <1>1, WithoutKeys DEF Inserted
  <1>3. IsFiniteSet(D) /\ Cardinality(D) \in Nat /\ Cardinality(D) <= Bound
        /\ MaxEntries \in Nat
    BY CacheConfig, FS_CardinalityType DEF FinitelyBounded, SizeBounded, Bound
  <1>4. IsFiniteSet(D \ victim)
    BY <1>3, FS_Subset
  <1>5. /\ IsFiniteSet((D \ victim) \cup {k})
        /\ Cardinality((D \ victim) \cup {k}) <= Cardinality(D \ victim) + 1
    BY <1>4, FS_AddElement, FS_CardinalityType
  <1>6. Cardinality(D \ victim) + 1 <= Bound
    <2>1. CASE Cardinality(D) >= MaxEntries /\ D # {}
      <3>1. PICK j \in D : victim = {j}
        BY <2>1 DEF Victims
      <3>2. Cardinality(D \ {j}) = Cardinality(D) - 1
        BY <1>3, FS_RemoveElement
      <3> QED BY <3>1, <3>2, <1>3
    <2>2. CASE ~(Cardinality(D) >= MaxEntries) /\ victim = {}
      <3>1. D \ victim = D
        BY <2>2
      <3> QED BY <3>1, <2>2, <1>3 DEF Bound
    <2>3. CASE D = {}
      <3>1. D \ victim = {}
        BY <2>3
      <3> QED BY <3>1, <1>3, FS_EmptySet DEF Bound
    <2> QED BY <2>1, <2>2, <2>3 DEF Victims
  <1>7. Cardinality((D \ victim) \cup {k}) <= Bound
    BY <1>3, <1>4, <1>5, <1>6, FS_CardinalityType DEF Bound
  <1> QED
    BY <1>2, <1>5, <1>7 DEF FinitelyBounded, SizeBounded, Bound

\* No operation of the caches outgrows the bound.
LEMMA CacheKeepsBound ==
  ASSUME FinitelyBounded, [CacheNext]_cacheVars
  PROVE  FinitelyBounded'
  <1>1. ASSUME NEW k, NEW v, NEW ttl, SetWithTtl(k, v, ttl)
        PROVE  FinitelyBounded'
    BY <1>1, SetKeepsBound
  <1>2. ASSUME NEW keys, Drop(keys)
        PROVE  FinitelyBounded'
    <2>1. DOMAIN entries' \subseteq DOMAIN entries
      BY <1>2, WithoutKeys DEF Drop
    <2>2. IsFiniteSet(DOMAIN entries') /\ Cardinality(DOMAIN entries') <= Cardinality(DOMAIN entries)
      BY <2>1, FS_Subset DEF FinitelyBounded
    <2>3. Cardinality(DOMAIN entries') \in Nat /\ Cardinality(DOMAIN entries) \in Nat
      BY <2>2, FS_CardinalityType DEF FinitelyBounded
    <2> QED BY <2>2, <2>3, CacheConfig DEF FinitelyBounded, SizeBounded
  <1>3. CASE CacheTick \/ UNCHANGED cacheVars
    BY <1>3 DEF CacheTick, cacheVars, FinitelyBounded, SizeBounded
  <1> QED
    BY <1>1, <1>2, <1>3
       DEF CacheNext, Set, Remove, Clear, CleanupExpired, InvalidatePrefix

(***************************************************************************)
(* Eviction                                                                *)
(***************************************************************************)

\* The keys that were put no earlier than k: what k is evicted for.
Rivals(k) == {j \in Keys \ {k} : put[j] # Nothing /\ put[j].at >= put[k].at}

PutKeys == {j \in Keys : put[j] # Nothing}
PutTypes == clock \in Nat /\ \A j \in PutKeys : put[j].at \in 0..clock
Recency == EntriesCurrent /\ IsFiniteSet(DOMAIN entries) /\ IsFiniteSet(PutKeys) /\ PutTypes
             /\ DOMAIN entries \subseteq PutKeys /\ RecentKeysKept

LEMMA RivalFacts ==
  ASSUME IsFiniteSet(PutKeys), NEW k
  PROVE  IsFiniteSet(Rivals(k)) /\ Cardinality(Rivals(k)) \in Nat
  <1>1. Rivals(k) \in SUBSET PutKeys
    BY DEF Rivals, PutKeys
  <1> QED
    BY <1>1, FS_Subset, FS_CardinalityType

\* A key is evicted from a full map only, for entries as recent as its own,
\* and whatever is put later is as recent as they were.
LEMMA SetKeepsRecency ==
  ASSUME Recency, NEW k \in Keys, NEW v \in Values, NEW ttl \in Ttls, SetWithTtl(k, v, ttl)
  PROVE  Recency'
  <1> DEFINE D == DOMAIN entries
  <1>1. PICK victim \in Victims : entries' = Inserted(k, Entry(v, ttl), Without(victim))
    BY DEF SetWithTtl
  <1>2. DOMAIN entries' = (D \ victim) \cup {k}
    BY <1>1, WithoutKeys DEF Inserted
  <1>3. /\ put' = [put EXCEPT ![k] = Entry(v, ttl)] /\ dropped' = dropped \ {k}
        /\ clock' = clock /\ DOMAIN put = Keys /\ clock \in Nat
    BY DEF SetWithTtl, Recency, EntriesCurrent, PutTypes
  <1>4. /\ put'[k] = Entry(v, ttl) /\ put'[k] # Nothing /\ put'[k].at = clock
        /\ \A j \in Keys \ {k} : put'[j] = put[j]
    BY <1>3, CacheConfig DEF Entry
  <1>5. EntriesCurrent'
    BY SetKeepsCurrent DEF Recency
  <1>6. PutKeys' = PutKeys \cup {k}
    BY <1>4 DEF PutKeys
  <1>7. IsFiniteSet(DOMAIN entries') /\ IsFiniteSet(PutKeys')
    <2>1. IsFiniteSet(D \ victim)
      BY FS_Subset DEF Recency
    <2> QED
      BY <1>2, <1>6, <2>1, FS_AddElement DEF Recency
  <1>8. PutTypes'
    BY <1>3, <1>4, <1>6 DEF Recency, PutTypes, PutKeys
  <1>9. RecentKeysKept'
    <2> SUFFICES ASSUME NEW j \in Keys, put'[j] # Nothing, j \notin dropped',
                        Cardinality(Rivals(j)') < MaxEntries - 1
                 PROVE  j \in DOMAIN entries'
      BY DEF RecentKeysKept, Rivals
    <2>1. CASE j = k
      BY <1>2, <2>1
    <2>2. CASE j # k
      <3>1. put'[j] = put[j] /\ put[j] # Nothing /\ j \notin dropped /\ put[j].at \in 0..clock
        BY <1>3, <1>4, <2>2 DEF Recency, PutTypes, PutKeys
      <3>2. Rivals(j) \subseteq Rivals(j)'
        BY <1>3, <1>4, <2>2, <3>1 DEF Rivals
      <3>3. Cardinality(Rivals(j)) <= Cardinality(Rivals(j)')
        BY <1>7, <3>2, RivalFacts, FS_Subset DEF Recency, Rivals, PutKeys
      <3>4. Cardinality(Rivals(j)) < MaxEntries - 1 /\ Cardinality(Rivals(j)) \in Nat
        BY <1>7, <3>3, CacheConfig, RivalFacts, FS_CardinalityType, FS_Subset
           DEF Recency, Rivals, PutKeys
      <3>5. j \in D
        BY <3>1, <3>4 DEF Recency, RecentKeysKept, Rivals
      <3>6. ASSUME j \in victim
            PROVE  FALSE
        <4>1. /\ victim = {j} /\ Cardinality(D) >= MaxEntries
              /\ \A i \in D : entries[i].at >= entries[j].at
          BY <3>6 DEF Victims
        <4>2. D \ {j} \subseteq Rivals(j)
          <5>1. ASSUME NEW i \in D \ {j}
                PROVE  i \in Rivals(j)
            <6>1. i \in Keys /\ entries[i] = put[i] /\ entries[j] = put[j]
              BY <3>5 DEF Recency, EntriesCurrent
            <6>2. put[i].at >= put[j].at
              BY <4>1, <6>1
            <6>3. put[i] # Nothing
              BY DEF Recency, PutKeys
            <6> QED
              BY <6>1, <6>2, <6>3 DEF Rivals
          <5> QED
            BY <5>1
        <4>3. Cardinality(D \ {j}) = Cardinality(D) - 1 /\ Cardinality(D) \in Nat
          BY <3>5, FS_RemoveElement, FS_CardinalityType DEF Recency
        <4>4. Cardinality(D \ {j}) <= Cardinality(Rivals(j))
          BY <4>2, RivalFacts, FS_Subset DEF Recency
        <4> QED
          BY <3>4, <4>1, <4>3, <4>4, CacheConfig
      <3> QED
        BY <1>2, <3>5, <3>6
    <2> QED
      BY <2>1, <2>2
  <1>10. DOMAIN entries' \subseteq PutKeys'
    BY <1>2, <1>6 DEF Recency
  <1> QED
    BY <1>5, <1>7, <1>8, <1>9, <1>10 DEF Recency

\* Every operation of the caches keeps the recent keys that were not dropped.
LEMMA CacheKeepsRecency ==
  ASSUME Recency, [CacheNext]_cacheVars
  PROVE  Recency'
  <1>1. EntriesCurrent'
    BY CacheKeepsCurrent DEF Recency
  <1>2. ASSUME NEW keys, Drop(keys)
        PROVE  Recency'
    <2>1. DOMAIN entries' = DOMAIN entries \ keys /\ UNCHANGED <<clock, put>>
          /\ dropped' = dropped \cup keys
      BY <1>2, WithoutKeys DEF Drop
    <2>2. IsFiniteSet(DOMAIN entries')
      BY <2>1, FS_Subset DEF Recency
    <2>3. PutKeys' = PutKeys /\ PutTypes'
      BY <2>1 DEF PutKeys, PutTypes, Recency
    <2>4. RecentKeysKept'
      BY <2>1 DEF RecentKeysKept, Recency
    <2> QED
      BY <1>1, <2>1, <2>2, <2>3, <2>4 DEF Recency
  <1>3. CASE CacheTick
    <2>1. clock' = clock + 1 /\ UNCHANGED <<entries, put, dropped>>
      BY <1>3 DEF CacheTick
    <2>2. PutKeys' = PutKeys /\ PutTypes'
      BY <2>1 DEF PutKeys, PutTypes, Recency
    <2>3. RecentKeysKept'
      BY <2>1 DEF RecentKeysKept, Recency
    <2> QED
      BY <1>1, <2>1, <2>2, <2>3 DEF Recency
  <1>4. CASE UNCHANGED cacheVars
    BY <1>4 DEF cacheVars, Recency, EntriesCurrent, PutKeys, PutTypes, RecentKeysKept
  <1> QED
    BY <1>2, <1>3, <1>4, SetKeepsRecency, CacheConfig
       DEF CacheNext, Set, Remove, Clear, CleanupExpired, InvalidatePrefix

(***************************************************************************)
(* The event stream                                                        *)
(***************************************************************************)

StreamTypes ==
  /\ sent \in Nat /\ next \in [Clients -> Nat \ {0}] /\ out \in [Clients -> Nat]
  /\ got \in [Clients -> Seq(Int)]
  /\ loop \in [Clients -> {"closed", "both", "socket", "channel", "sending"}]

\* The first event that is not yet written to a client: the one being written, or
\* the one its loop takes next.
Pending(c) == IF out[c] = 0 THEN next[c] ELSE out[c]

\* Only a loop that sends has an event in hand, the one before its place.
OneInHand == \A c \in Clients : out[c] # 0 => loop[c] = "sending" /\ out[c] = next[c] - 1

\* The pending event of a client whose loop runs is behind all it was given, and
\* right behind it unless events were missed.
PendingBehindGot ==
  \A c \in Clients : got[c] # <<>> /\ loop[c] # "closed" =>
    /\ got[c][Len(got[c])] < Pending(c)
    /\ c \notin lagged => got[c][Len(got[c])] = Pending(c) - 1

\* What makes EventsInOrder inductive.
StreamInv == StreamTypes /\ OneInHand /\ PendingBehindGot /\ EventsInOrder

\* A step that gives no client anything, lets no loop run again that was closed, and
\* leaves each pending event as it is, keeps the stream.
LEMMA NothingGiven ==
  ASSUME StreamInv, StreamTypes', OneInHand', got' = got, lagged' = lagged,
         \A c \in Clients :
           got[c] # <<>> /\ loop'[c] # "closed" => loop[c] # "closed" /\ Pending(c)' = Pending(c)
  PROVE  StreamInv'
  <1>1. PendingBehindGot'
    BY DEF StreamInv, PendingBehindGot
  <1>2. EventsInOrder'
    BY DEF StreamInv, EventsInOrder
  <1> QED BY <1>1, <1>2 DEF StreamInv

\* The event at a client's place is taken in hand: it stays the pending one.
LEMMA ReceiveKeepsStream ==
  ASSUME StreamInv, NEW c \in Clients, Receive(c)
  PROVE  StreamInv'
  <1>1. /\ next' = [next EXCEPT ![c] = @ + 1] /\ out' = [out EXCEPT ![c] = next[c]]
        /\ loop' = [loop EXCEPT ![c] = "sending"]
        /\ sent' = sent /\ got' = got /\ lagged' = lagged
        /\ loop[c] \in {"both", "channel"}
    BY DEF Receive, HearsChannel
  <1>2. out[c] = 0
    BY <1>1 DEF StreamInv, OneInHand
  <1>3. StreamTypes'
    BY <1>1 DEF StreamInv, StreamTypes
  <1>4. OneInHand'
    BY <1>1 DEF StreamInv, StreamTypes, OneInHand
  <1>5. \A d \in Clients : loop'[d] # "closed" => loop[d] # "closed" /\ Pending(d)' = Pending(d)
    BY <1>1, <1>2 DEF StreamInv, StreamTypes, Pending
  <1> QED BY <1>1, <1>3, <1>4, <1>5, NothingGiven

\* The event in hand is written behind the others.
LEMMA WriteKeepsStream ==
  ASSUME StreamInv, NEW c \in Clients, Write(c)
  PROVE  StreamInv'
  <1> DEFINE s == got[c]
  <1>1. /\ loop' = [loop EXCEPT ![c] = "both"] /\ out' = [out EXCEPT ![c] = 0]
        /\ sent' = sent /\ next' = next /\ lagged' = lagged /\ loop[c] = "sending"
    BY DEF Write
  <1>2. OneInHand'
    BY <1>1 DEF StreamInv, StreamTypes, OneInHand
  <1>3. CASE out[c] = 0
    <2>1. got' = got
      BY <1>3 DEF Write
    <2>2. StreamTypes'
      BY <1>1, <2>1 DEF StreamInv, StreamTypes
    <2>3. \A d \in Clients : loop'[d] # "closed" => loop[d] # "closed" /\ Pending(d)' = Pending(d)
      BY <1>1, <1>3 DEF StreamInv, StreamTypes, Pending
    <2> QED BY <1>1, <1>2, <2>1, <2>2, <2>3, NothingGiven
  <1>4. CASE out[c] # 0
    <2>1. got' = [got EXCEPT ![c] = Append(@, out[c])]
      BY <1>4 DEF Write
    <2>2. s \in Seq(Int) /\ out[c] \in Nat /\ next[c] \in Nat /\ out[c] = next[c] - 1
      BY <1>4 DEF StreamInv, StreamTypes, OneInHand
    <2>3. StreamTypes'
      BY <1>1, <2>1, <2>2 DEF StreamInv, StreamTypes
    <2>4. got'[c] = Append(s, out[c]) /\ Pending(c)' = next[c]
      BY <1>1, <2>1 DEF StreamInv, StreamTypes, Pending
    <2>5. \A d \in Clients \ {c} : got'[d] = got[d] /\ Pending(d)' = Pending(d) /\ loop'[d] = loop[d]
      BY <1>1, <2>1 DEF StreamInv, StreamTypes, Pending
    <2>6. /\ Len(got'[c]) = Len(s) + 1 /\ got'[c][Len(s) + 1] = out[c]
          /\ \A i \in 1..Len(s) : got'[c][i] = s[i]
          /\ Len(s) \in Nat /\ (Len(s) > 0 => s # <<>>)
      BY <2>4, <2>2
    <2>7. PendingBehindGot'
      <3>1. got'[c][Len(got'[c])] < Pending(c)' /\ got'[c][Len(got'[c])] = Pending(c)' - 1
        BY <2>2, <2>4, <2>6
      <3> QED BY <3>1, <1>1, <2>5 DEF StreamInv, PendingBehindGot
    <2>8. ASSUME NEW i \in 2..Len(got'[c])
          PROVE  IF c \in lagged THEN got'[c][i] > got'[c][i - 1]
                                 ELSE got'[c][i] = got'[c][i - 1] + 1
      <3>1. CASE i <= Len(s)
        <4>1. got'[c][i] = s[i] /\ got'[c][i - 1] = s[i - 1] /\ i \in 2..Len(s)
          BY <3>1, <2>6
        <4> QED BY <4>1 DEF StreamInv, EventsInOrder
      <3>2. CASE i = Len(s) + 1
        <4>1. s # <<>> /\ got'[c][i] = out[c] /\ got'[c][i - 1] = s[Len(s)]
          BY <3>2, <2>6
        <4>2. s[Len(s)] < out[c] /\ (c \notin lagged => s[Len(s)] = out[c] - 1)
          BY <4>1, <1>1, <1>4 DEF StreamInv, PendingBehindGot, Pending
        <4>3. s[Len(s)] \in Int
          BY <3>2, <2>2, <2>6
        <4> QED BY <4>1, <4>2, <4>3, <2>2
      <3> QED BY <3>1, <3>2, <2>6
    <2>9. EventsInOrder'
      BY <1>1, <2>5, <2>8 DEF StreamInv, EventsInOrder
    <2> QED BY <1>2, <2>3, <2>7, <2>9 DEF StreamInv
  <1> QED BY <1>3, <1>4

\* A client that is overtaken moves up, and is known to have missed events.
LEMMA LagKeepsStream ==
  ASSUME StreamInv, NEW c \in Clients, Lag(c)
  PROVE  StreamInv'
  <1>1. /\ next' = [next EXCEPT ![c] = Oldest] /\ lagged' = lagged \cup {c}
        /\ loop' = [loop EXCEPT ![c] = IF @ = "both" THEN "socket" ELSE "closed"]
        /\ sent' = sent /\ got' = got /\ out' = out /\ loop[c] \in {"both", "channel"}
    BY DEF Lag, HearsChannel
  <1>2. Oldest \in Nat \ {0} /\ next[c] \in Nat /\ next[c] < Oldest
    BY WsConfig DEF Lag, Oldest, StreamInv, StreamTypes
  <1>3. StreamTypes'
    BY <1>1, <1>2 DEF StreamInv, StreamTypes
  <1>4. out[c] = 0 /\ OneInHand'
    BY <1>1 DEF StreamInv, StreamTypes, OneInHand
  <1>5. \A d \in Clients : got[d] # <<>> => got[d][Len(got[d])] \in Int
    BY DEF StreamInv, StreamTypes
  <1>6. PendingBehindGot'
    <2>1. got[c] # <<>> => got[c][Len(got[c])] < Oldest
      BY <1>1, <1>2, <1>4, <1>5 DEF StreamInv, PendingBehindGot, Pending
    <2>2. /\ Pending(c)' = Oldest
          /\ \A d \in Clients \ {c} : Pending(d)' = Pending(d) /\ loop'[d] = loop[d]
      BY <1>1, <1>4 DEF StreamInv, StreamTypes, Pending
    <2> QED BY <1>1, <2>1, <2>2 DEF StreamInv, PendingBehindGot
  <1>7. EventsInOrder'
    <2>1. \A d \in Clients : \A i \in 2..Len(got[d]) : got[d][i] \in Int /\ got[d][i - 1] \in Int
      BY DEF StreamInv, StreamTypes
    <2>2. \A i \in 2..Len(got[c]) : got[c][i] > got[c][i - 1]
      BY <2>1 DEF StreamInv, EventsInOrder
    <2> QED BY <1>1, <2>2 DEF StreamInv, EventsInOrder
  <1> QED BY <1>3, <1>4, <1>6, <1>7 DEF StreamInv

\* A client connects once, before it was given anything.
LEMMA ConnectKeepsStream ==
  ASSUME StreamInv, NEW c \in Clients, Connect(c)
  PROVE  StreamInv'
  <1>1. /\ got[c] = <<>> /\ got' = got /\ lagged' = lagged /\ sent' = sent /\ out' = out
        /\ next' = [next EXCEPT ![c] = sent + 1] /\ loop' = [loop EXCEPT ![c] = "sending"]
        /\ loop[c] = "closed"
    BY DEF Connect
  <1>2. StreamTypes'
    BY <1>1 DEF StreamInv, StreamTypes
  <1>3. OneInHand'
    BY <1>1 DEF StreamInv, StreamTypes, OneInHand
  <1>4. \A d \in Clients :
          got[d] # <<>> /\ loop'[d] # "closed" => loop[d] # "closed" /\ Pending(d)' = Pending(d)
    BY <1>1 DEF StreamInv, StreamTypes, Pending
  <1> QED BY <1>1, <1>2, <1>3, <1>4, NothingGiven

\* The other steps: the loop turns to something else, with nothing in hand or with
\* the end of the connection.
LEMMA QuietStepsKeepStream ==
  ASSUME StreamInv, NEW c \in Clients,
         \/ WriteFails(c) \/ Stall(c) \/ (\E ping \in BOOLEAN : Hear(c, ping))
         \/ HearClose(c) \/ Break(c) \/ SeeBroken(c)
  PROVE  StreamInv'
  <1>1. CASE Stall(c) \/ Break(c)
    BY <1>1 DEF Stall, Break, StreamInv, StreamTypes, OneInHand, PendingBehindGot, Pending,
                EventsInOrder
  <1>2. CASE WriteFails(c)
    <2>1. /\ loop' = [loop EXCEPT ![c] = IF out[c] = 0 THEN "both" ELSE "closed"]
          /\ out' = [out EXCEPT ![c] = 0] /\ loop[c] = "sending"
          /\ sent' = sent /\ next' = next /\ got' = got /\ lagged' = lagged
      BY <1>2 DEF WriteFails
    <2>2. StreamTypes'
      BY <2>1 DEF StreamInv, StreamTypes
    <2>3. OneInHand'
      BY <2>1 DEF StreamInv, StreamTypes, OneInHand
    <2>4. \A d \in Clients : loop'[d] # "closed" => loop[d] # "closed" /\ Pending(d)' = Pending(d)
      BY <2>1 DEF StreamInv, StreamTypes, Pending
    <2> QED BY <2>1, <2>2, <2>3, <2>4, NothingGiven
  <1>3. CASE (\E ping \in BOOLEAN : Hear(c, ping)) \/ HearClose(c) \/ SeeBroken(c)
    <2>1. /\ sent' = sent /\ next' = next /\ out' = out /\ got' = got /\ lagged' = lagged
          /\ loop[c] \in {"both", "socket"}
          /\ \E to \in {"closed", "both", "channel", "sending"} : loop' = [loop EXCEPT ![c] = to]
      BY <1>3 DEF Hear, HearClose, SeeBroken, HearsSocket
    <2>2. StreamTypes'
      BY <2>1 DEF StreamInv, StreamTypes
    <2>3. OneInHand'
      BY <2>1 DEF StreamInv, StreamTypes, OneInHand
    <2>4. \A d \in Clients : loop'[d] # "closed" => loop[d] # "closed" /\ Pending(d)' = Pending(d)
      BY <2>1 DEF StreamInv, StreamTypes, Pending
    <2> QED BY <2>1, <2>2, <2>3, <2>4, NothingGiven
  <1> QED BY <1>1, <1>2, <1>3

\* Every step of the stream keeps each client's events in order.
LEMMA StreamStays ==
  ASSUME StreamInv, [WsNext]_wsVars
  PROVE  StreamInv'
  <1>1. CASE UNCHANGED wsVars
    BY <1>1 DEF wsVars, StreamInv, StreamTypes, OneInHand, PendingBehindGot, Pending,
                EventsInOrder
  <1>2. CASE SendEvent
    BY <1>2 DEF SendEvent, StreamInv, StreamTypes, OneInHand, PendingBehindGot, Pending,
                EventsInOrder
  <1> QED
    BY <1>1, <1>2, ConnectKeepsStream, ReceiveKeepsStream, LagKeepsStream, WriteKeepsStream,
       QuietStepsKeepStream DEF WsNext

(***************************************************************************)
(* Results                                                                 *)
(***************************************************************************)

\* A new cache is empty.
LEMMA CacheStarts == CacheInit => CacheTypeOK /\ EntriesCurrent /\ FinitelyBounded
  <1> SUFFICES ASSUME CacheInit
               PROVE  CacheTypeOK /\ EntriesCurrent /\ FinitelyBounded
    OBVIOUS
  <1>1. DOMAIN entries = {}
    BY DEF CacheInit
  <1>2. FinitelyBounded
    BY <1>1, FS_EmptySet, CacheConfig DEF FinitelyBounded, SizeBounded
  <1>3. CacheTypeOK /\ EntriesCurrent
    BY <1>1, CacheConfig DEF CacheInit, CacheTypeOK, EntriesCurrent
  <1> QED BY <1>2, <1>3

\* A step of the process is one of the cache or leaves it alone.
LEMMA ServicesStepCache == [Next]_<<cacheVars, wsVars>> => [CacheNext]_cacheVars
  BY DEF Next

\* get never gives out a value that was overwritten, dropped or has outlived
\* its time: for all keys, bounds and lives, whatever set evicts.
THEOREM CacheNeverStale == Spec => []NeverStale
  <1>1. Init => CacheTypeOK /\ EntriesCurrent
    BY CacheStarts DEF Init
  <1>2. CacheTypeOK /\ EntriesCurrent /\ [Next]_<<cacheVars, wsVars>>
          => CacheTypeOK' /\ EntriesCurrent'
    BY ServicesStepCache, CacheKeepsTypes, CacheKeepsCurrent
  <1> QED
    BY <1>1, <1>2, CurrentIsNotStale, PTL DEF Spec

\* The map never outgrows max_entries, or one entry if that is zero.
THEOREM CacheBounded == Spec => []SizeBounded
  <1>1. Init => FinitelyBounded
    BY CacheStarts DEF Init
  <1>2. FinitelyBounded /\ [Next]_<<cacheVars, wsVars>> => FinitelyBounded'
    BY ServicesStepCache, CacheKeepsBound
  <1>3. FinitelyBounded => SizeBounded
    BY DEF FinitelyBounded
  <1> QED
    BY <1>1, <1>2, <1>3, PTL DEF Spec

\* RecentKeysKept: whatever set evicts (also when it overwrites a key of a full
\* map), a key that was not dropped is still there as long as fewer than
\* max_entries - 1 others were put since, or in the same instant.
THEOREM RecentKeysStay == Spec => []RecentKeysKept
  <1>1. Init => Recency
    <2> SUFFICES ASSUME Init
                 PROVE  Recency
      OBVIOUS
    <2>1. EntriesCurrent /\ DOMAIN entries = {} /\ clock = 0 /\ PutKeys = {}
      BY CacheStarts DEF Init, CacheInit, PutKeys
    <2>2. RecentKeysKept
      BY DEF Init, CacheInit, RecentKeysKept
    <2> QED
      BY <2>1, <2>2, FS_EmptySet DEF Recency, PutTypes
  <1>2. Recency /\ [Next]_<<cacheVars, wsVars>> => Recency'
    BY ServicesStepCache, CacheKeepsRecency
  <1>3. Recency => RecentKeysKept
    BY DEF Recency
  <1> QED
    BY <1>1, <1>2, <1>3, PTL DEF Spec

\* A client gets the events in the order they were sent, none twice, and none
\* is left out before it was overtaken, whatever happens between taking an event
\* and writing it: for any number of clients and any capacity.
THEOREM StreamInOrder == Spec => []EventsInOrder
  <1>1. Init => StreamInv
    BY DEF Init, WsInit, StreamInv, StreamTypes, OneInHand, PendingBehindGot, EventsInOrder
  <1>2. StreamInv /\ [Next]_<<cacheVars, wsVars>> => StreamInv'
    <2>1. [Next]_<<cacheVars, wsVars>> => [WsNext]_wsVars
      BY DEF Next
    <2> QED BY <2>1, StreamStays
  <1>3. StreamInv => EventsInOrder
    BY DEF StreamInv
  <1> QED
    BY <1>1, <1>2, <1>3, PTL DEF Spec
=============================================================================
