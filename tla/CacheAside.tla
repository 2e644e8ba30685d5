------------------------------ MODULE CacheAside ------------------------------
(***************************************************************************)
(* benzene-cache: concurrent callers of get_or_load for one key (aside.py) *)
(* over InMemoryCache (memory.py) or RedisCache (redis.py), while the      *)
(* source of the value changes and the key is deleted.                     *)
(*                                                                         *)
(* The source's values are numbered in the order they were current; the    *)
(* ones in Nones are None, which is also what a miss looks like.  Time is  *)
(* counted in half seconds.  MaxLoad bounds what is otherwise unbounded:   *)
(* the time from a loader's reading of the source to the end of the write  *)
(* back.                                                                   *)
(***************************************************************************)
EXTENDS Naturals, FiniteSets

CONSTANTS CacheReaders, Nones, Ttls, MaxLoad, MaxVersion, MaxClock

Forever == MaxClock + 1

\* Redis refuses a ttl of nothing, and in memory it would make every look-up a miss.
ASSUME CacheAssumption ==
    Ttls \subseteq Nat \ {0} /\ MaxLoad \in Nat /\ MaxVersion \in Nat /\ MaxClock \in Nat

VARIABLES backend,      \* "memory" or "redis"
          ttl,          \* of get_or_load; Forever is None
          latest,       \* the current version of the value
          superseded,   \* version -> the time it stopped being current
          entry,        \* [value, expires]; value MaxVersion + 1: no entry
          cacheClock,
          reader,       \* caller -> [at, value, since]
          floor         \* no older version can still be served (see DeleteKey)

cacheVars == <<backend, ttl, latest, superseded, entry, cacheClock, reader, floor>>

NoEntry == [value |-> MaxVersion + 1, expires |-> Forever]
IdleReader == [at |-> "idle", value |-> 0, since |-> 0]

CacheStart ==
    /\ latest = 0 /\ superseded = [v \in {} |-> 0]
    /\ entry = NoEntry /\ cacheClock = 0 /\ floor = 0
    /\ reader = [c \in CacheReaders |-> IdleReader]

CacheInit == backend \in {"memory", "redis"} /\ ttl \in Ttls /\ CacheStart

\* When a value written now expires: Redis takes whole seconds, unless there is less
\* than one (px).
ExpiresAt ==
    IF ttl = Forever THEN Forever
    ELSE IF backend = "memory" \/ ttl < 2 THEN cacheClock + ttl
    ELSE cacheClock + (ttl \div 2) * 2

\* Fault: the entry lives through the instant it expires at.
HasExpiredLate == entry.expires # Forever /\ cacheClock > entry.expires

HasExpired == entry.expires # Forever /\ cacheClock >= entry.expires

Hit == entry # NoEntry /\ ~HasExpired /\ entry.value \notin Nones

\* cache.get: an expired entry is dropped, a value answers the caller.
GetHit(c) ==
    /\ reader[c].at = "idle" /\ Hit
    /\ reader' = [reader EXCEPT ![c] = [at |-> "hit", value |-> entry.value, since |-> cacheClock]]
    /\ UNCHANGED <<backend, ttl, latest, superseded, entry, cacheClock, floor>>

\* Otherwise the loader is called, and reads the source at some moment before it returns.
GetMiss(c) ==
    /\ reader[c].at = "idle" /\ ~Hit
    /\ entry' = IF HasExpired THEN NoEntry ELSE entry
    /\ reader' = [reader EXCEPT ![c].at = "loading"]
    /\ UNCHANGED <<backend, ttl, latest, superseded, cacheClock, floor>>

LoaderReads(c) ==
    /\ reader[c].at = "loading"
    /\ reader' = [reader EXCEPT ![c] = [at |-> "writing", value |-> latest, since |-> cacheClock]]
    /\ UNCHANGED <<backend, ttl, latest, superseded, entry, cacheClock, floor>>

\* The loader's exception, or one of the client, is the caller's: nothing is written.
LoadRaises(c) ==
    /\ \/ reader[c].at = "loading"
       \/ reader[c].at = "writing" /\ backend = "redis"
    /\ reader' = [reader EXCEPT ![c] = IdleReader]
    /\ UNCHANGED <<backend, ttl, latest, superseded, entry, cacheClock, floor>>

\* cache.set, and the loaded value is returned.
WriteBack(c) ==
    /\ reader[c].at = "writing"
    /\ entry' = [value |-> reader[c].value, expires |-> ExpiresAt]
    /\ reader' = [reader EXCEPT ![c].at = "loaded"]
    /\ UNCHANGED <<backend, ttl, latest, superseded, cacheClock, floor>>

CallerDone(c) ==
    /\ reader[c].at \in {"hit", "loaded"}
    /\ reader' = [reader EXCEPT ![c] = IdleReader]
    /\ UNCHANGED <<backend, ttl, latest, superseded, entry, cacheClock, floor>>

SourceChanges ==
    /\ latest < MaxVersion
    /\ latest' = latest + 1
    /\ superseded' = [v \in 0..latest |-> IF v = latest THEN cacheClock ELSE superseded[v]]
    /\ UNCHANGED <<backend, ttl, entry, cacheClock, reader, floor>>

\* Fault: the entry is emptied, and expires in its own time.
DeleteKeepsFresh ==
    /\ entry' = IF ttl = Forever THEN NoEntry ELSE entry
    /\ floor' = IF \A c \in CacheReaders : reader[c].at \in {"idle", "loading"} THEN latest ELSE floor
    /\ UNCHANGED <<backend, ttl, latest, superseded, cacheClock, reader>>

\* cache.delete.  With no value on its way to the cache or to a
\* caller, older versions are gone for good.
DeleteKey ==
    /\ entry' = NoEntry
    /\ floor' = IF \A c \in CacheReaders : reader[c].at \in {"idle", "loading"} THEN latest ELSE floor
    /\ UNCHANGED <<backend, ttl, latest, superseded, cacheClock, reader>>

CacheTick ==
    /\ cacheClock < MaxClock
    /\ \A c \in CacheReaders :
           /\ reader[c].at \notin {"hit", "loaded"}
           /\ reader[c].at = "writing" => cacheClock - reader[c].since < MaxLoad
    /\ cacheClock' = cacheClock + 1
    /\ UNCHANGED <<backend, ttl, latest, superseded, entry, reader, floor>>

CacheNext ==
    \/ \E c \in CacheReaders :
           GetHit(c) \/ GetMiss(c) \/ LoaderReads(c) \/ LoadRaises(c) \/ WriteBack(c) \/ CallerDone(c)
    \/ SourceChanges \/ DeleteKey \/ CacheTick

CacheSpec == CacheInit /\ [][CacheNext]_cacheVars

-----------------------------------------------------------------------------
Answered(c) == reader[c].at \in {"hit", "loaded"}

\* With a ttl, what a caller is given stopped being current less than ttl + MaxLoad ago,
\* though a slow loader may overwrite, or bring back after a delete, a newer value.
StaleBounded ==
    \A c \in CacheReaders :
        Answered(c) /\ ttl # Forever /\ reader[c].value # latest =>
            cacheClock - superseded[reader[c].value] < ttl + MaxLoad

\* A delete while no loaded value is on its way is final: nothing older than the
\* value at that time is ever answered again, with or without a ttl.
QuietDeleteIsFinal == \A c \in CacheReaders : Answered(c) => reader[c].value >= floor

\* get_or_load serves values no older than its ttl and the slowest loader allow, and
\* not again what was deleted while nobody was loading.
ServesFreshEnough == StaleBounded /\ QuietDeleteIsFinal
=============================================================================
