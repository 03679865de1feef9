--------------------------- MODULE ReadThroughCache ---------------------------
(***************************************************************************)
(* One cached key: the readers that fill it, the writers that invalidate   *)
(* it, and the cache.  It is either a key of Redis, which may be out of    *)
(* reach, or a key of the in-process DCSCache with a second cache below    *)
(* it: the DCS client keeps the lists and configs it gets (a book by its   *)
(* id it does not keep: that key behaves as one of Redis in reach).        *)
(*                                                                         *)
(* A plain reader asks the cache and, on a miss, fetches and stores: the   *)
(* routes with cache_get and cache_set, and DCSCache.get_or_fetch, whose   *)
(* fetch asks DCS only when the client's cache has no answer.  A locking   *)
(* reader is cache_get_or_fetch (Redis only), which lets one caller fetch  *)
(* and the others poll.  Nothing ties a fetch to the invalidations that    *)
(* happen while it runs, and one that fails is not repeated.               *)
(*                                                                         *)
(* A copy of the source's value is modelled by its staleness: how long ago *)
(* a write superseded it.                                                  *)
(***************************************************************************)
EXTENDS Integers

CONSTANTS
    Readers,        \* calls that read the key at the same time
    TTL,            \* the longest life of an entry, jitter included
    ClientTTL,      \* the life of a response in the DCS client's cache
    LockTime,       \* px of the lock
    PollTime,       \* how long a caller polls for another's result
    Delay,          \* the longest from the source's read to the end of the call
    MaxWriters      \* bound on the writers that have yet to invalidate

ASSUME CacheAssumption ==
    /\ TTL \in Nat \ {0}
    /\ ClientTTL \in Nat \ {0}
    /\ LockTime \in Nat \ {0}
    /\ PollTime \in Nat
    /\ Delay \in Nat
    /\ MaxWriters \in Nat

VARIABLES
    layered,        \* the key is one of DCSCache above the DCS client's cache
    entry,          \* the cached copy; left = 0 when there is none
    client,         \* the copy in the DCS client's cache below it
    lock,           \* the SETNX key; left = 0 when it is not set
    up,             \* the cache can be reached
    pending,        \* writers that have committed and not invalidated yet
    reader          \* the calls

vars == <<layered, entry, client, lock, up, pending, reader>>

-------------------------------------------------------------------------------
Current == -1

Bound == TTL + ClientTTL + Delay

Staleness == Current..(Bound + 1)

\* late: it was superseded before it was stored; missed: an invalidation was lost.
Copy(life) == [left : 0..life, stale : Staleness, late : BOOLEAN, missed : BOOLEAN]

NoEntry == [left |-> 0, stale |-> Current, late |-> FALSE, missed |-> FALSE]

Lock == [owner : Readers, left : 0..LockTime]

(***************************************************************************)
(* A call.  mode: whether it stores its result, with the lock or without;  *)
(* value: the copy it holds; age: since it fetched it, or began to poll;   *)
(* since: since it took the lock, up to LockTime.                          *)
(***************************************************************************)
Longest == IF Delay > PollTime THEN Delay ELSE PollTime

Reader ==
    [pc    : {"idle", "find", "lock", "poll", "ask", "have", "release", "abort"},
     mode  : {"plain", "lock", "direct"},
     value : Staleness,
     age   : 0..Longest,
     since : 0..LockTime]

Idle == [pc |-> "idle", mode |-> "plain", value |-> Current, age |-> 0, since |-> 0]

Hit == up /\ entry.left > 0

Superseded(s) == IF s = Current THEN 0 ELSE s

Older(s) == IF s = Current \/ s = Bound + 1 THEN s ELSE s + 1

Init ==
    /\ layered \in BOOLEAN
    /\ entry = NoEntry
    /\ client = NoEntry
    /\ \E r \in Readers : lock = [owner |-> r, left |-> 0]
    /\ up \in BOOLEAN
    /\ layered => up
    /\ pending = 0
    /\ reader = [r \in Readers |-> Idle]

-------------------------------------------------------------------------------
(***************************************************************************)
(* A reader.                                                               *)
(***************************************************************************)
Goes(r, next) == reader' = [reader EXCEPT ![r].pc = next]

GoesAs(r, next, mode) == reader' = [reader EXCEPT ![r].pc = next, ![r].mode = mode]

Ends(r) == reader' = [reader EXCEPT ![r] = Idle]

\* A hit returns at once; a miss goes on as one of the routes does, as
\* cache_get_or_fetch does, or to the client.
Miss(r) ==
    /\ reader[r].pc = "idle"
    /\ ~Hit
    /\ \/ ~layered /\ (Goes(r, "ask") \/ Goes(r, "lock"))
       \/ layered /\ Goes(r, "find")
    /\ UNCHANGED <<layered, entry, client, lock, up, pending>>

\* A route that asks the client and not DCSCache.
AskClient(r) ==
    /\ reader[r].pc = "idle"
    /\ layered
    /\ GoesAs(r, "find", "direct")
    /\ UNCHANGED <<layered, entry, client, lock, up, pending>>

\* The client is asked, at once or after DCS has said which book a config is of.  What
\* it has begins a new life in DCSCache, however old it is.
TakeOver(r) ==
    /\ layered
    /\ reader[r].pc = "find"
    /\ client.left > 0
    /\ IF reader[r].mode = "plain"
       THEN \E life \in 1..TTL : entry' = [client EXCEPT !.left = life]
       ELSE UNCHANGED entry
    /\ Ends(r)
    /\ UNCHANGED <<layered, client, lock, up, pending>>

AskSource(r) ==
    /\ reader[r].pc = "find"
    /\ client.left = 0
    /\ Goes(r, "ask")
    /\ UNCHANGED <<layered, entry, client, lock, up, pending>>

Acquire(r) ==
    /\ reader[r].pc = "lock"
    /\ up
    /\ lock.left = 0
    /\ lock' = [owner |-> r, left |-> LockTime]
    /\ GoesAs(r, "ask", "lock")
    /\ UNCHANGED <<layered, entry, client, up, pending>>

LoseLock(r) ==
    /\ reader[r].pc = "lock"
    /\ up
    /\ lock.left > 0
    /\ Goes(r, "poll")
    /\ UNCHANGED <<layered, entry, client, lock, up, pending>>

\* The SETNX fails, or succeeds and its answer is lost.
LockError(r) ==
    /\ reader[r].pc = "lock"
    /\ GoesAs(r, "ask", "direct")
    /\ \/ UNCHANGED lock
       \/ up /\ lock.left = 0 /\ lock' = [owner |-> r, left |-> LockTime]
    /\ UNCHANGED <<layered, entry, client, up, pending>>

Poll(r) ==
    /\ reader[r].pc = "poll"
    /\ Hit
    /\ Ends(r)
    /\ UNCHANGED <<layered, entry, client, lock, up, pending>>

\* Mutant: a caller that polled in vain polls again.
GiveUpNever(r) ==
    /\ reader[r].pc = "poll"
    /\ reader[r].age = PollTime
    /\ reader' = [reader EXCEPT ![r].pc = "lock", ![r].age = 0]
    /\ UNCHANGED <<layered, entry, client, lock, up, pending>>

GiveUp(r) ==
    /\ reader[r].pc = "poll"
    /\ reader[r].age = PollTime
    /\ GoesAs(r, "ask", "direct")
    /\ UNCHANGED <<layered, entry, client, lock, up, pending>>

\* fetch_fn reads the source; the value travels from here on.
Fetch(r) ==
    /\ reader[r].pc = "ask"
    /\ reader' = [reader EXCEPT ![r].pc = "have", ![r].value = Current, ![r].age = 0]
    /\ UNCHANGED <<layered, entry, client, lock, up, pending>>

\* The request fails or its answer does not arrive or parse.  DCSCache also stores the
\* None of a book that is not there, which every reader takes for a miss.
FetchFails(r) ==
    /\ reader[r].pc \in {"find", "ask", "have"}
    /\ IF reader[r].mode = "lock" THEN Goes(r, "abort")
                                  ELSE Ends(r)
    /\ \/ UNCHANGED entry
       \/ layered /\ reader[r].mode = "plain" /\ entry' = NoEntry
    /\ UNCHANGED <<layered, client, lock, up, pending>>

\* Mutant: the jitter is added to the time to live.
StoredLonger(life, s) ==
    [left |-> life + 1, stale |-> s, late |-> s # Current, missed |-> FALSE]

Stored(life, s) ==
    [left |-> life, stale |-> s, late |-> s # Current, missed |-> FALSE]

\* cache_set, or the return of a call that does not store.  The client has kept the
\* response before.
Store(r) ==
    /\ reader[r].pc = "have"
    /\ IF up /\ reader[r].mode # "direct"
       THEN \E life \in 1..TTL : entry' = Stored(life, reader[r].value)
       ELSE UNCHANGED entry
    /\ client' = IF layered THEN Stored(ClientTTL, reader[r].value) ELSE client
    /\ IF reader[r].mode = "lock"
       THEN Goes(r, "release")
       ELSE Ends(r)
    /\ UNCHANGED <<layered, lock, up, pending>>

\* Mutant: the lock is deleted without comparing its token.
UnlockedAny(r) == [lock EXCEPT !.left = 0]

Unlocked(r) == IF lock.owner = r THEN [lock EXCEPT !.left = 0] ELSE lock

Release(r) ==
    /\ reader[r].pc \in {"release", "abort"}
    /\ lock' = IF up THEN Unlocked(r) ELSE lock
    /\ Ends(r)
    /\ UNCHANGED <<layered, entry, client, up, pending>>

\* The caller disconnects or its process dies.
Crash(r) ==
    /\ reader[r].pc # "idle"
    /\ Ends(r)
    /\ UNCHANGED <<layered, entry, client, lock, up, pending>>

-------------------------------------------------------------------------------
(***************************************************************************)
(* Writers, the cache server and the clock.                                *)
(***************************************************************************)
InHand(r) == reader[r].pc \in {"have", "release"}

Superseding(copy) ==
    IF copy.left > 0 THEN [copy EXCEPT !.stale = Superseded(@)] ELSE copy

Write ==
    /\ pending < MaxWriters
    /\ pending' = pending + 1
    /\ entry' = Superseding(entry)
    /\ client' = Superseding(client)
    /\ reader' = [r \in Readers |->
                    IF InHand(r) THEN [reader[r] EXCEPT !.value = Superseded(@)]
                                 ELSE reader[r]]
    /\ UNCHANGED <<layered, lock, up>>

\* Mutant: the event leaves the DCS client's cache alone.
InvalidateEntry ==
    /\ pending > 0
    /\ up
    /\ pending' = pending - 1
    /\ entry' = NoEntry
    /\ UNCHANGED <<layered, client, lock, up, reader>>

\* An event about books drops what both caches hold.
Invalidate ==
    /\ pending > 0
    /\ up
    /\ pending' = pending - 1
    /\ entry' = NoEntry
    /\ client' = NoEntry
    /\ UNCHANGED <<layered, lock, up, reader>>

Missing(copy) == IF copy.left > 0 THEN [copy EXCEPT !.missed = TRUE] ELSE copy

\* The cache is out of reach, the writer died after its commit, or it runs in
\* another process than the one whose in-process cache this is.
LoseInvalidation ==
    /\ pending > 0
    /\ pending' = pending - 1
    /\ entry' = Missing(entry)
    /\ client' = Missing(client)
    /\ UNCHANGED <<layered, lock, up, reader>>

\* An event about something else empties one of the caches, or the server evicts.
Evict ==
    /\ \/ entry' = NoEntry /\ UNCHANGED client
       \/ client' = NoEntry /\ UNCHANGED entry
    /\ UNCHANGED <<layered, lock, up, pending, reader>>

Outage ==
    /\ ~layered
    /\ up' = ~up
    /\ UNCHANGED <<layered, entry, client, lock, pending, reader>>

Holds(r) ==
    reader[r].mode = "lock" /\ reader[r].pc \in {"ask", "have", "release", "abort"}

Overdue(r) ==
    \/ reader[r].pc \in {"have", "release"} /\ reader[r].age = Delay
    \/ reader[r].pc = "poll" /\ reader[r].age = PollTime

Aged(r) ==
    [reader[r] EXCEPT
        !.value = Older(@),
        !.age = IF reader[r].pc \in {"have", "release", "poll"} THEN @ + 1 ELSE @,
        !.since = IF Holds(r) /\ @ < LockTime THEN @ + 1 ELSE @]

\* Mutant: a copy does not expire.
ExpiringNever(copy) == [copy EXCEPT !.stale = Older(@)]

Expiring(copy) ==
    IF copy.left > 1 THEN [copy EXCEPT !.left = @ - 1, !.stale = Older(@)] ELSE NoEntry

Tick ==
    /\ \A r \in Readers : ~Overdue(r)
    /\ entry' = Expiring(entry)
    /\ client' = Expiring(client)
    /\ lock' = [lock EXCEPT !.left = IF @ > 0 THEN @ - 1 ELSE 0]
    /\ reader' = [r \in Readers |-> Aged(r)]
    /\ UNCHANGED <<layered, up, pending>>

Step(r) ==
    \/ TakeOver(r)
    \/ AskSource(r)
    \/ Acquire(r)
    \/ LoseLock(r)
    \/ LockError(r)
    \/ Poll(r)
    \/ GiveUp(r)
    \/ Fetch(r)
    \/ FetchFails(r)
    \/ Store(r)
    \/ Release(r)

Next ==
    \/ \E r \in Readers : Miss(r) \/ AskClient(r) \/ Step(r) \/ Crash(r)
    \/ Write
    \/ Invalidate
    \/ LoseInvalidation
    \/ Evict
    \/ Outage
    \/ Tick

(***************************************************************************)
(* Fairness.  Every await of a call has a timeout, and time passes.        *)
(***************************************************************************)
Fairness == WF_vars(Tick) /\ \A r \in Readers : WF_vars(Step(r))

Spec == Init /\ [][Next]_vars /\ Fairness

-------------------------------------------------------------------------------
(***************************************************************************)
(* Properties.                                                             *)
(***************************************************************************)
TypeOK ==
    /\ layered \in BOOLEAN
    /\ entry \in Copy(TTL)
    /\ client \in Copy(ClientTTL)
    /\ lock \in Lock
    /\ up \in BOOLEAN
    /\ pending \in 0..MaxWriters
    /\ reader \in [Readers -> Reader]

\* Whatever is lost or overtaken, no call returns a value that was superseded longer
\* ago than an entry lives and a fetch takes; where the client's cache lies below, from
\* which an entry may be filled, longer ago than both copies live and a fetch takes.
StalenessIsBounded ==
    /\ entry.left > 0 => entry.stale <= TTL + Delay + (IF layered THEN ClientTTL ELSE 0)
    /\ client.left > 0 => client.stale <= ClientTTL + Delay
    /\ \A r \in Readers : InHand(r) => reader[r].value <= Delay

\* A copy is out of date only while a writer has yet to invalidate it, because it was
\* stored by a fetch that a write overtook, or because an invalidation was lost, there
\* or in the cache it was taken from.
Explained(copy) ==
    copy.left > 0 /\ copy.stale # Current => pending > 0 \/ copy.late \/ copy.missed

StaleIsExplained == Explained(entry) /\ Explained(client)

\* A caller that took the lock keeps it for LockTime or until it releases it,
\* also when an earlier owner, slower than its lock, releases after it.
LockIsKept ==
    \A r \in Readers : Holds(r) /\ reader[r].since < LockTime =>
        lock = [owner |-> r, left |-> LockTime - reader[r].since]

\* Every call ends, also when the caller that fetches for the others died or the
\* cache is out of reach for good.
CallsEnd == \A r \in Readers : reader[r].pc # "idle" ~> reader[r].pc = "idle"
==============================================================================
