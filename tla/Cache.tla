------------------------------- MODULE Cache -------------------------------
(* ApiCache (api/cache.rs) and IntelligenceCache (intelligence/cache.rs): a  *)
(* map under one lock whose entries carry the time they were inserted and a  *)
(* time to live.  Both have the same get and set; each operation holds the   *)
(* lock from its first to its last line, so it is one action.                *)
EXTENDS Integers, FiniteSets

CONSTANTS
  Keys, Values, Nothing,
  Ttls,         \* the lives callers ask for, the default among them
  DefaultTtl,
  Prefixes,     \* sets of keys that share a prefix
  MaxEntries,
  MaxClock      \* bound on time

ASSUME CacheConfig ==
  /\ MaxEntries \in Nat /\ MaxClock \in Nat /\ Ttls \subseteq Nat
  /\ DefaultTtl \in Ttls /\ Nothing \notin Values
  /\ Nothing \notin [value : Values, at : Nat, ttl : Ttls]

VARIABLES
  entries,   \* key -> [value, at, ttl]
  clock,     \* Instant::now
  put,       \* observer: what each key was put with last, or Nothing
  dropped    \* observer: keys dropped since

cacheVars == <<entries, clock, put, dropped>>

IsExpired(e) == clock - e.at > e.ttl

\* get: an expired entry stays in the map but is not given out.
Get(k) ==
  IF k \in DOMAIN entries /\ ~IsExpired(entries[k]) THEN entries[k].value ELSE Nothing

Without(keys) == [k \in DOMAIN entries \ keys |-> entries[k]]

\* The map with e at k.
Inserted(k, e, map) == [j \in {k} \cup DOMAIN map |-> IF j = k THEN e ELSE map[j]]

\* A variant that evicts the entry inserted last.
VictimsNewest ==
  IF Cardinality(DOMAIN entries) >= MaxEntries /\ DOMAIN entries # {}
  THEN {{k} : k \in {j \in DOMAIN entries :
                       \A i \in DOMAIN entries : entries[i].at <= entries[j].at}}
  ELSE {{}}

\* A variant that evicts one entry late.
VictimsLate ==
  IF Cardinality(DOMAIN entries) > MaxEntries /\ DOMAIN entries # {}
  THEN {{k} : k \in {j \in DOMAIN entries :
                       \A i \in DOMAIN entries : entries[i].at >= entries[j].at}}
  ELSE {{}}

\* The oldest entry of a full map, whichever key is being set; the map's order
\* decides between entries of the same instant.
Victims ==
  IF Cardinality(DOMAIN entries) >= MaxEntries /\ DOMAIN entries # {}
  THEN {{k} : k \in {j \in DOMAIN entries :
                       \A i \in DOMAIN entries : entries[i].at >= entries[j].at}}
  ELSE {{}}

Entry(v, ttl) == [value |-> v, at |-> clock, ttl |-> ttl]

\* A variant that, like or_insert, leaves an entry that is there.
SetWithTtlOnce(k, v, ttl) ==
  /\ \E victim \in Victims :
       entries' = IF k \in DOMAIN entries THEN Without(victim \ {k})
                  ELSE Inserted(k, Entry(v, ttl), Without(victim))
  /\ put' = [put EXCEPT ![k] = Entry(v, ttl)] /\ dropped' = dropped \ {k}
  /\ UNCHANGED clock

\* set_with_ttl, and set with the default time to live.
SetWithTtl(k, v, ttl) ==
  /\ \E victim \in Victims : entries' = Inserted(k, Entry(v, ttl), Without(victim))
  /\ put' = [put EXCEPT ![k] = Entry(v, ttl)] /\ dropped' = dropped \ {k}
  /\ UNCHANGED clock

Set(k, v) == SetWithTtl(k, v, DefaultTtl)

Drop(keys) ==
  /\ entries' = Without(keys) /\ dropped' = dropped \cup keys
  /\ UNCHANGED <<clock, put>>

Remove(k) == Drop({k})
Clear == Drop(Keys)
CleanupExpired == Drop({k \in DOMAIN entries : IsExpired(entries[k])})
InvalidatePrefix(prefix) == Drop(prefix)

CacheTick ==
  /\ clock < MaxClock /\ clock' = clock + 1
  /\ UNCHANGED <<entries, put, dropped>>

CacheInit ==
  /\ entries = <<>> /\ clock = 0
  /\ put = [k \in Keys |-> Nothing] /\ dropped = {}

CacheNext ==
  \/ \E k \in Keys, v \in Values : Set(k, v)
  \/ \E k \in Keys, v \in Values, ttl \in Ttls : SetWithTtl(k, v, ttl)
  \/ \E k \in Keys : Remove(k)
  \/ Clear \/ CleanupExpired
  \/ \E prefix \in Prefixes : InvalidatePrefix(prefix)
  \/ CacheTick

(***************************************************************************)
(* Properties                                                              *)
(***************************************************************************)

CacheTypeOK ==
  /\ DOMAIN entries \subseteq Keys /\ clock \in 0..MaxClock
  /\ \A k \in DOMAIN entries : entries[k].at \in 0..clock /\ entries[k].ttl \in Ttls

\* The map never outgrows its bound, which is one even if MaxEntries is zero:
\* set inserts after it has evicted, and into an empty map without evicting.
SizeBounded ==
  Cardinality(DOMAIN entries) <= (IF MaxEntries = 0 THEN 1 ELSE MaxEntries)

\* set() evicts also when it overwrites a key, so that a full map may shrink;
\* still a key is only evicted if at least MaxEntries - 1 others are as recent.
\* Recent is what was put last, not what was used last: get() refreshes nothing, so
\* the "LRU cache" of README.md:190 drops a key that is read all the time.
RecentKeysKept ==
  \A k \in Keys :
    /\ put[k] # Nothing /\ k \notin dropped
    /\ Cardinality({j \in Keys \ {k} : put[j] # Nothing /\ put[j].at >= put[k].at})
         < MaxEntries - 1
    => k \in DOMAIN entries

\* Whatever is evicted, expired, removed or overwritten, get gives the value a
\* key was put with last, during its life and not after it was dropped.
NeverStale ==
  \A k \in Keys : Get(k) # Nothing =>
    /\ k \notin dropped /\ Get(k) = put[k].value
    /\ clock - put[k].at <= put[k].ttl
=============================================================================
