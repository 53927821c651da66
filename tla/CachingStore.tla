---------------------------- MODULE CachingStore ----------------------------
(***************************************************************************)
(* CachingStore, the cache that transactions write and queries read: the   *)
(* block being executed reads the store itself and writes the cache and    *)
(* then the store; ReadOnlyCachingStore, which queries use at the same     *)
(* time, fills the cache with what it read from the store.  Nothing locks  *)
(* the two together; each call on the cache or the store is atomic.        *)
(***************************************************************************)
EXTENDS Integers

CONSTANTS
  Keys, Vals, Nil,  \* keys, values, and the absence of a value
  Readers,          \* query threads
  Idle,             \* a thread that is in no call
  MaxErrors         \* bound on failing calls of the cache

VARIABLES
  source,  \* the VersionedKVStore
  cache,   \* bigcache, Nil for a missing entry
  writer,  \* the write that has reached the cache but not the store
  reader,  \* for each query thread the key it missed and what it read
  errors   \* failed calls of the cache so far

vars == <<source, cache, writer, reader, errors>>

Init ==
  /\ source \in [Keys -> Vals \cup {Nil}]
  /\ cache = [k \in Keys |-> Nil]
  /\ writer = Idle
  /\ reader = [r \in Readers |-> Idle]
  /\ errors = 0

\* bigcache: an entry is stored, or the call fails and the old entry stays.
CacheSet(k, v) ==
  \/ cache' = [cache EXCEPT ![k] = v] /\ UNCHANGED errors
  \/ errors < MaxErrors /\ errors' = errors + 1 /\ UNCHANGED cache

-----------------------------------------------------------------------------
\* Mutated Delete: only the store is told.
WriteCacheSetOnly(k, v) ==
  /\ writer = Idle
  /\ writer' = [key |-> k, val |-> v]
  /\ IF v = Nil THEN UNCHANGED <<cache, errors>> ELSE CacheSet(k, v)
  /\ UNCHANGED <<source, reader>>

\* Set (v is a value) and Delete (v is Nil), first the cache ...
WriteCache(k, v) ==
  /\ writer = Idle
  /\ writer' = [key |-> k, val |-> v]
  /\ CacheSet(k, v)
  /\ UNCHANGED <<source, reader>>

\* ... and then the store, whatever the cache returned.
WriteSource ==
  /\ writer # Idle
  /\ source' = [source EXCEPT ![writer.key] = writer.val]
  /\ writer' = Idle
  /\ UNCHANGED <<cache, reader, errors>>

\* Get and Has of ReadOnlyCachingStore: a hit changes nothing; a miss, or a call
\* that fails, goes to the store.
Miss(r, k) ==
  /\ reader[r] = Idle
  /\ \/ cache[k] = Nil /\ UNCHANGED errors
     \/ errors < MaxErrors /\ errors' = errors + 1
  /\ reader' = [reader EXCEPT ![r] = [key |-> k, val |-> Nil, at |-> "source"]]
  /\ UNCHANGED <<source, cache, writer>>

\* A key the store does not have is not cached.
ReadSource(r) ==
  /\ reader[r] # Idle /\ reader[r].at = "source"
  /\ LET k == reader[r].key IN
     reader' = [reader EXCEPT ![r] = IF source[k] = Nil THEN Idle
                                     ELSE [key |-> k, val |-> source[k], at |-> "fill"]]
  /\ UNCHANGED <<source, cache, writer, errors>>

\* What was read goes into the cache.
Fill(r) ==
  /\ reader[r] # Idle /\ reader[r].at = "fill"
  /\ CacheSet(reader[r].key, reader[r].val)
  /\ reader' = [reader EXCEPT ![r] = Idle]
  /\ UNCHANGED <<source, writer>>

\* Mutated eviction: entries never expire.
NeverEvict(k) == FALSE /\ UNCHANGED vars

\* bigcache drops entries that are older than LifeWindow, or when it is full.
Evict(k) ==
  /\ cache[k] # Nil
  /\ cache' = [cache EXCEPT ![k] = Nil]
  /\ UNCHANGED <<source, writer, reader, errors>>

Next ==
  \/ \E k \in Keys, v \in Vals \cup {Nil} : WriteCache(k, v)
  \/ WriteSource
  \/ \E r \in Readers : (\E k \in Keys : Miss(r, k)) \/ ReadSource(r) \/ Fill(r)
  \/ \E k \in Keys : Evict(k)

Spec == Init /\ [][Next]_vars

-----------------------------------------------------------------------------
\* Properties

\* The entry of a key is the value the store has, or is about to have.
Current(k) ==
  cache[k] \in {Nil, IF writer # Idle /\ writer.key = k THEN writer.val ELSE source[k]}

\* Set and Delete by themselves never leave an old entry in the cache: a
\* current entry becomes stale only when a query puts it there, or when the
\* cache refuses a call.
StaleOnlyByFill ==
  \A k \in Keys : Current(k) /\ ~Current(k)' =>
    \/ \E r \in Readers : reader[r] # Idle /\ reader[r].at = "fill" /\ reader'[r] = Idle
    \/ errors' # errors

=============================================================================
