------------------------ MODULE ReadThroughCacheProofs ------------------------
(***************************************************************************)
(* What ReadThroughCache guarantees for any number of readers and any      *)
(* times: the lives of both copies, lock, polling and fetch.               *)
(***************************************************************************)
EXTENDS ReadThroughCache, TLAPS

-------------------------------------------------------------------------------
(***************************************************************************)
(* The steps of a call, and those of writers and cache server.             *)
(***************************************************************************)
Call(r) == Miss(r) \/ AskClient(r) \/ Step(r) \/ Crash(r)

Server == Write \/ Invalidate \/ LoseInvalidation \/ Evict \/ Outage

(***************************************************************************)
(* Clocks.  A reader's clocks start at 0 and stop at their bounds, and     *)
(* only a reader that holds the lock counts the time since it took it.     *)
(***************************************************************************)
ClockOK(r) ==
    /\ reader[r].pc \in {"idle", "lock"} => reader[r].age = 0
    /\ reader[r].pc = "poll" => reader[r].age <= PollTime
    /\ reader[r].pc \in {"have", "release"} => reader[r].age <= Delay
    /\ reader[r].mode = "lock" => Holds(r)
    /\ reader[r].mode # "lock" => reader[r].since = 0

Clocks == TypeOK /\ \A r \in Readers : ClockOK(r)

LEMMA ConstantsType ==
    /\ TTL \in Nat \ {0} /\ ClientTTL \in Nat \ {0} /\ LockTime \in Nat \ {0}
    /\ PollTime \in Nat /\ Delay \in Nat /\ MaxWriters \in Nat /\ Bound \in Nat /\ Longest \in Nat
    /\ Delay <= Longest /\ PollTime <= Longest
    /\ TTL \in 0..TTL /\ LockTime \in 0..LockTime /\ 0 \in 0..TTL /\ 0 \in 0..LockTime
    /\ Current \in Staleness /\ 0 \in Staleness /\ 0 \in 0..Longest
BY CacheAssumption DEF Bound, Longest, Staleness, Current

\* A copy stays in range while it ages, and is superseded once.
LEMMA StalenessType ==
    ASSUME NEW s \in Staleness
    PROVE  /\ Superseded(s) \in Staleness
           /\ Older(s) \in Staleness
           /\ Superseded(s) = IF s = Current THEN 0 ELSE s
           /\ Older(s) = Current <=> s = Current
           /\ s # Current => Older(s) <= s + 1 /\ s >= 0
BY CacheAssumption DEF Superseded, Older, Staleness, Bound, Current

\* What happens to a copy in a cache keeps it a copy.
LEMMA CopyType ==
    ASSUME NEW life \in Nat \ {0}, NEW copy \in Copy(life)
    PROVE  /\ copy.left \in 0..life /\ copy.stale \in Staleness /\ copy.stale \in Int
           /\ NoEntry \in Copy(life)
           /\ Superseding(copy) \in Copy(life)
           /\ Missing(copy) \in Copy(life)
           /\ Expiring(copy) \in Copy(life)
<1> USE ConstantsType
<1>1. copy.left \in 0..life /\ copy.stale \in Staleness /\ copy.stale \in Int
    BY DEF Copy, Staleness, Current
<1>2. NoEntry \in Copy(life)
    BY DEF NoEntry, Copy
<1>3. Superseding(copy) \in Copy(life)
    BY <1>1, StalenessType DEF Superseding, Copy
<1>4. Missing(copy) \in Copy(life)
    BY DEF Missing, Copy
<1>5. Expiring(copy) \in Copy(life)
    <2>1. CASE copy.left > 1
        <3>1. Older(copy.stale) \in Staleness /\ copy.left - 1 \in 0..life
            BY <1>1, <2>1, StalenessType
        <3>2. Expiring(copy) =
                [copy EXCEPT !.left = copy.left - 1, !.stale = Older(copy.stale)]
            BY <2>1 DEF Expiring
        <3> QED BY <3>1, <3>2 DEF Copy
    <2>2. CASE ~(copy.left > 1)
        BY <1>2, <2>2 DEF Expiring
    <2> QED BY <2>1, <2>2
<1> QED BY <1>1, <1>2, <1>3, <1>4, <1>5

\* A call puts into the caches what it has fetched, takes over, or empties the entry.
LEMMA CallCopies ==
    ASSUME NEW r \in Readers, Call(r)
    PROVE  /\ layered' = layered /\ up' = up /\ pending' = pending
           /\ \/ entry' \in {entry, NoEntry}
              \/ /\ reader[r].pc = "have"
                 /\ \E life \in 1..TTL : entry' = Stored(life, reader[r].value)
              \/ /\ client.left > 0 /\ client' = client
                 /\ \E life \in 1..TTL : entry' = [client EXCEPT !.left = life]
                 /\ TakeOver(r)
           /\ \/ client' = client
              \/ reader[r].pc = "have" /\ client' = Stored(ClientTTL, reader[r].value)
BY DEF Call, Miss, AskClient, Step, Crash, TakeOver, AskSource, Acquire, LoseLock, LockError,
       Poll, GiveUp, Fetch, FetchFails, Store, Release

\* The server does to each copy one of four things.
LEMMA ServerCopies ==
    ASSUME Server
    PROVE  /\ layered' = layered /\ lock' = lock
           /\ reader' = reader \/ Write
           /\ entry' \in {entry, NoEntry, Superseding(entry), Missing(entry)}
           /\ client' \in {client, NoEntry, Superseding(client), Missing(client)}
BY DEF Server, Write, Invalidate, LoseInvalidation, Evict, Outage

\* An entry that was taken over is the client's copy but for its life.
LEMMA TakenOver ==
    ASSUME client \in Copy(ClientTTL), NEW life \in 1..TTL,
           entry' = [client EXCEPT !.left = life]
    PROVE  /\ entry' \in Copy(TTL)
           /\ entry'.left = life /\ entry'.stale = client.stale
           /\ entry'.late = client.late /\ entry'.missed = client.missed
BY ConstantsType DEF Copy

LEMMA IdleType == Idle \in Reader
BY ConstantsType DEF Idle, Reader

LEMMA ClocksInit == Init => Clocks
<1> SUFFICES ASSUME Init PROVE Clocks
    OBVIOUS
<1>1. entry \in Copy(TTL) /\ client \in Copy(ClientTTL)
    BY ConstantsType DEF Init, NoEntry, Copy
<1>2. lock \in Lock
    BY ConstantsType DEF Init, Lock
<1>3. reader \in [Readers -> Reader]
    BY IdleType DEF Init
<1>4. \A r \in Readers : ClockOK(r)
    BY DEF Init, Idle, ClockOK, Holds
<1>5. layered \in BOOLEAN /\ up \in BOOLEAN /\ pending \in 0..MaxWriters
    BY ConstantsType DEF Init
<1> QED BY <1>1, <1>2, <1>3, <1>4, <1>5 DEF Clocks, TypeOK

\* A step of one reader leaves the others' clocks alone.
LEMMA OthersKept ==
    ASSUME Clocks, NEW r \in Readers, NEW rec \in Reader,
           reader' = [reader EXCEPT ![r] = rec],
           rec.pc \in {"idle", "lock"} => rec.age = 0,
           rec.pc = "poll" => rec.age <= PollTime,
           rec.pc \in {"have", "release"} => rec.age <= Delay,
           rec.mode = "lock" => rec.pc \in {"ask", "have", "release", "abort"},
           rec.mode # "lock" => rec.since = 0
    PROVE  reader' \in [Readers -> Reader] /\ \A q \in Readers : ClockOK(q)'
<1>1. reader' \in [Readers -> Reader]
    BY DEF Clocks, TypeOK
<1>2. ASSUME NEW q \in Readers PROVE ClockOK(q)'
    <2>1. CASE q = r
        <3>1. reader'[q] = rec
            BY <2>1 DEF Clocks, TypeOK
        <3> QED BY <3>1 DEF ClockOK, Holds
    <2>2. CASE q # r
        <3>1. reader'[q] = reader[q] /\ ClockOK(q)
            BY <2>2 DEF Clocks, TypeOK
        <3> QED BY <3>1 DEF ClockOK, Holds
    <2> QED BY <2>1, <2>2
<1> QED BY <1>1, <1>2

LEMMA ClocksStep ==
    ASSUME Clocks, NEW r \in Readers, Call(r)
    PROVE  Clocks'
<1> USE ConstantsType
<1>0. reader[r] \in Reader /\ ClockOK(r) /\ reader \in [Readers -> Reader]
    BY DEF Clocks, TypeOK
<1>1. layered' = layered /\ up' = up /\ pending' = pending
    BY CallCopies
<1>2. entry' \in Copy(TTL) /\ client' \in Copy(ClientTTL)
    <2>1. entry \in Copy(TTL) /\ client \in Copy(ClientTTL)
        BY DEF Clocks, TypeOK
    <2>2. ASSUME NEW most \in Nat \ {0}, NEW life \in 1..most
          PROVE  Stored(life, reader[r].value) \in Copy(most)
        BY <1>0 DEF Stored, Copy, Reader
    <2>3. ClientTTL \in 1..ClientTTL /\ NoEntry \in Copy(TTL)
        BY <2>1, CopyType
    <2> QED BY <2>1, <2>2, <2>3, CallCopies, TakenOver
<1>3. lock' \in Lock
    <2>1. CASE lock' = lock
        BY <2>1 DEF Clocks, TypeOK
    <2>2. CASE lock' = [owner |-> r, left |-> LockTime]
        BY <2>2 DEF Lock
    <2>3. CASE lock' = [lock EXCEPT !.left = 0]
        BY <2>3 DEF Clocks, TypeOK, Lock
    <2> QED BY <2>1, <2>2, <2>3 DEF Call, Miss, AskClient, Step, Crash, TakeOver, AskSource,
                Acquire, LoseLock, LockError, Poll, GiveUp, Fetch, FetchFails, Store,
                Release, Unlocked
<1>4. reader' \in [Readers -> Reader] /\ \A q \in Readers : ClockOK(q)'
    <2> DEFINE PcTo(p) == [reader[r] EXCEPT !.pc = p]
               As(p, m) == [reader[r] EXCEPT !.pc = p, !.mode = m]
    <2>1. CASE reader' = [reader EXCEPT ![r] = Idle]
        BY <2>1, IdleType, OthersKept DEF Idle
    <2>2. CASE Miss(r)
        <3>1. PICK p \in {"ask", "lock", "find"} : reader' = [reader EXCEPT ![r].pc = p]
            BY <2>2 DEF Miss, Goes
        <3>2. reader' = [reader EXCEPT ![r] = PcTo(p)] /\ PcTo(p) \in Reader
            BY <1>0, <3>1 DEF Reader
        <3>3. reader[r].pc = "idle" /\ reader[r].mode # "lock" /\ reader[r].since = 0
            BY <1>0, <2>2 DEF Miss, ClockOK, Holds
        <3> QED BY <1>0, <3>2, <3>3, OthersKept DEF ClockOK, Reader
    <2>9. CASE AskClient(r)
        <3>1. reader' = [reader EXCEPT ![r] = As("find", "direct")]
              /\ As("find", "direct") \in Reader
            BY <1>0, <2>9 DEF AskClient, GoesAs, Reader
        <3>2. reader[r].mode # "lock" /\ reader[r].since = 0
            BY <1>0, <2>9 DEF AskClient, ClockOK, Holds
        <3> QED BY <1>0, <3>1, <3>2, OthersKept DEF Reader
    <2>3. CASE Acquire(r)
        <3>1. reader' = [reader EXCEPT ![r] = As("ask", "lock")] /\ As("ask", "lock") \in Reader
            BY <1>0, <2>3 DEF Acquire, GoesAs, Reader
        <3> QED BY <1>0, <3>1, OthersKept DEF Reader
    <2>4. CASE LoseLock(r)
        <3>1. reader' = [reader EXCEPT ![r] = PcTo("poll")] /\ PcTo("poll") \in Reader
            BY <1>0, <2>4 DEF LoseLock, Goes, Reader
        <3>2. reader[r].mode # "lock" /\ reader[r].since = 0 /\ reader[r].age = 0
            BY <1>0, <2>4 DEF LoseLock, ClockOK, Holds
        <3>3. /\ PcTo("poll").pc = "poll" /\ PcTo("poll").mode # "lock"
              /\ PcTo("poll").since = 0 /\ PcTo("poll").age <= PollTime
            BY <1>0, <3>2 DEF Reader
        <3> HIDE DEF PcTo
        <3> QED BY <1>0, <3>1, <3>3, OthersKept
    <2>5. CASE LockError(r) \/ GiveUp(r)
        <3>1. reader' = [reader EXCEPT ![r] = As("ask", "direct")]
              /\ As("ask", "direct") \in Reader
            BY <1>0, <2>5 DEF LockError, GiveUp, GoesAs, Reader
        <3>2. reader[r].mode # "lock" /\ reader[r].since = 0
            BY <1>0, <2>5 DEF LockError, GiveUp, ClockOK, Holds
        <3> QED BY <1>0, <3>1, <3>2, OthersKept DEF Reader
    <2>10. CASE AskSource(r)
        <3>1. reader' = [reader EXCEPT ![r] = PcTo("ask")] /\ PcTo("ask") \in Reader
            BY <1>0, <2>10 DEF AskSource, Goes, Reader
        <3> QED BY <1>0, <2>10, <3>1, OthersKept DEF AskSource, ClockOK, Holds, Reader
    <2>6. CASE Fetch(r)
        <3> DEFINE rec == [reader[r] EXCEPT !.pc = "have", !.value = Current, !.age = 0]
        <3>1. reader' = [reader EXCEPT ![r] = rec] /\ rec \in Reader
            BY <1>0, <2>6 DEF Fetch, Reader
        <3>2. /\ rec.pc = "have" /\ rec.age <= Delay
              /\ rec.mode # "lock" => rec.since = 0
            BY <1>0 DEF Reader, ClockOK
        <3> HIDE DEF rec
        <3> QED BY <3>1, <3>2, OthersKept
    <2>7. CASE FetchFails(r) /\ reader[r].mode = "lock"
        <3>1. reader' = [reader EXCEPT ![r] = PcTo("abort")] /\ PcTo("abort") \in Reader
            BY <1>0, <2>7 DEF FetchFails, Goes, Reader
        <3> QED BY <1>0, <2>7, <3>1, OthersKept DEF Reader
    <2>8. CASE Store(r) /\ reader[r].mode = "lock"
        <3>1. reader' = [reader EXCEPT ![r] = PcTo("release")] /\ PcTo("release") \in Reader
            BY <1>0, <2>8 DEF Store, Goes, Reader
        <3>2. reader[r].age <= Delay
            BY <1>0, <2>8 DEF Store, ClockOK
        <3> QED BY <1>0, <2>8, <3>1, <3>2, OthersKept DEF Reader
    <2> QED BY <2>1, <2>2, <2>3, <2>4, <2>5, <2>6, <2>7, <2>8, <2>9, <2>10 DEF Call, Step,
                Crash, TakeOver, Poll, Release, FetchFails, Store, Ends
<1> QED BY <1>1, <1>2, <1>3, <1>4 DEF Clocks, TypeOK

LEMMA ClocksTick == Clocks /\ Tick => Clocks'
<1> SUFFICES ASSUME Clocks, Tick PROVE Clocks'
    OBVIOUS
<1> USE ConstantsType
<1>1. entry' \in Copy(TTL) /\ client' \in Copy(ClientTTL)
    BY CopyType DEF Clocks, TypeOK, Tick
<1>2. lock' \in Lock
    BY DEF Clocks, TypeOK, Tick, Lock
<1>3. ASSUME NEW r \in Readers PROVE Aged(r) \in Reader /\ ClockOK(r)'
    <2>1. reader[r] \in Reader /\ ClockOK(r) /\ ~Overdue(r) /\ reader'[r] = Aged(r)
        BY DEF Clocks, TypeOK, Tick
    <2>2. Older(reader[r].value) \in Staleness
        BY <2>1, StalenessType DEF Reader
    <2>3. /\ reader[r].age \in Nat
          /\ reader[r].age <= Longest
          /\ reader[r].pc \in {"have", "release"} => reader[r].age < Delay
          /\ reader[r].pc = "poll" => reader[r].age < PollTime
        BY <2>1 DEF Overdue, ClockOK, Reader
    <2>4. Aged(r).age \in 0..Longest /\ Aged(r).since \in 0..LockTime
          /\ Aged(r).pc = reader[r].pc /\ Aged(r).mode = reader[r].mode
        BY <2>1, <2>3 DEF Aged, Reader
    <2>5. Aged(r) \in Reader
        BY <2>1, <2>2, <2>4 DEF Aged, Reader
    <2>6. /\ reader[r].pc \in {"have", "release", "poll"} => Aged(r).age = reader[r].age + 1
          /\ reader[r].pc \notin {"have", "release", "poll"} => Aged(r).age = reader[r].age
          /\ ~Holds(r) => Aged(r).since = reader[r].since
        BY <2>1 DEF Aged, Reader
    <2>7. ClockOK(r)'
        BY <2>1, <2>3, <2>4, <2>6 DEF ClockOK, Holds
    <2> QED BY <2>5, <2>7
<1>4. reader' \in [Readers -> Reader]
    BY <1>3 DEF Tick
<1> QED BY <1>1, <1>2, <1>3, <1>4 DEF Clocks, TypeOK, Tick

LEMMA ClocksServer ==
    ASSUME Clocks, Server
    PROVE  Clocks'
<1> USE ConstantsType
<1>0. /\ layered \in BOOLEAN /\ up \in BOOLEAN /\ pending \in 0..MaxWriters
      /\ entry \in Copy(TTL) /\ client \in Copy(ClientTTL)
    BY DEF Clocks, TypeOK
<1>1. entry' \in Copy(TTL) /\ client' \in Copy(ClientTTL)
    BY <1>0, ServerCopies, CopyType
<1>2. layered' \in BOOLEAN /\ lock' \in Lock
    BY <1>0, ServerCopies DEF Clocks, TypeOK
<1>3. pending' \in 0..MaxWriters /\ up' \in BOOLEAN
    <2>1. \/ pending' = pending
          \/ pending' = pending - 1 /\ pending > 0
          \/ pending' = pending + 1 /\ pending < MaxWriters
        BY DEF Server, Write, Invalidate, LoseInvalidation, Evict, Outage
    <2>2. up' = up \/ up' = ~up
        BY DEF Server, Write, Invalidate, LoseInvalidation, Evict, Outage
    <2>3. pending' \in 0..MaxWriters
        BY <1>0, <2>1
    <2>4. up' \in BOOLEAN
        BY <1>0, <2>2
    <2> QED BY <2>3, <2>4
<1>4. reader' \in [Readers -> Reader] /\ \A r \in Readers : ClockOK(r)'
    <2>1. CASE reader' = reader
        BY <2>1 DEF Clocks, TypeOK, ClockOK, Holds
    <2>2. CASE Write
        <3>1. ASSUME NEW r \in Readers PROVE reader'[r] \in Reader /\ ClockOK(r)'
            <4>1. /\ reader[r] \in Reader /\ ClockOK(r)
                  /\ \/ reader'[r] = reader[r]
                     \/ reader'[r] = [reader[r] EXCEPT !.value = Superseded(@)]
                BY <2>2 DEF Clocks, TypeOK, Write
            <4>2. reader'[r] \in Reader
                BY <4>1, StalenessType DEF Reader
            <4>3. /\ reader'[r].pc = reader[r].pc /\ reader'[r].mode = reader[r].mode
                  /\ reader'[r].age = reader[r].age /\ reader'[r].since = reader[r].since
                BY <4>1 DEF Reader
            <4> QED BY <4>1, <4>2, <4>3 DEF ClockOK, Holds
        <3> QED BY <2>2, <3>1 DEF Write
    <2> QED BY <2>1, <2>2, ServerCopies
<1> QED BY <1>1, <1>2, <1>3, <1>4 DEF Clocks, TypeOK

LEMMA ClocksNext == Clocks /\ [Next]_vars => Clocks'
<1> SUFFICES ASSUME Clocks, [Next]_vars PROVE Clocks'
    OBVIOUS
<1>1. CASE UNCHANGED vars
    BY <1>1 DEF vars, Clocks, TypeOK, ClockOK, Holds
<1> QED BY <1>1, ClocksStep, ClocksTick, ClocksServer DEF Next, Call, Server

\* Every variable keeps its type: the times to live stay within TTL and ClientTTL, clocks
\* within the deadlines that the timeouts of the calls set.
THEOREM TypeCorrect == Spec => []TypeOK
<1>1. Clocks => TypeOK
    BY DEF Clocks
<1> QED BY <1>1, ClocksInit, ClocksNext, PTL DEF Spec

-------------------------------------------------------------------------------
(***************************************************************************)
(* Staleness.  A value on its way is no staler than it is old; a copy in   *)
(* a cache was at most that stale, or as stale as the client's copy may    *)
(* be, when its life began, and has aged since.                            *)
(***************************************************************************)
Carried(r) ==
    InHand(r) => reader[r].value <= reader[r].age

Young(copy, life, before) ==
    copy.left > 0 => copy.stale <= before + (life - copy.left)

Before == IF layered THEN ClientTTL + Delay ELSE Delay

Aging ==
    /\ Young(entry, TTL, Before)
    /\ Young(client, ClientTTL, Delay)
    /\ \A r \in Readers : Carried(r)

LEMMA AgingInit == Init => Aging
BY DEF Init, Aging, Young, Carried, InHand, NoEntry, Idle

\* What happens to a copy in a cache keeps it as young.
LEMMA CopyYoung ==
    ASSUME NEW life \in Nat \ {0}, NEW before \in Nat, NEW copy \in Copy(life),
           Young(copy, life, before)
    PROVE  /\ Young(NoEntry, life, before)
           /\ Young(Superseding(copy), life, before)
           /\ Young(Missing(copy), life, before)
           /\ Young(Expiring(copy), life, before)
<1>0. copy.left \in 0..life /\ copy.stale \in Staleness /\ copy.stale \in Int
    BY CopyType
<1>1. Young(NoEntry, life, before)
    BY DEF Young, NoEntry
<1>2. Young(Superseding(copy), life, before)
    <2>1. CASE copy.left > 0
        <3>1. Superseding(copy).left = copy.left
              /\ Superseding(copy).stale = Superseded(copy.stale)
            BY <2>1 DEF Superseding, Copy
        <3> QED BY <1>0, <3>1 DEF Young, Superseded
    <2>2. CASE ~(copy.left > 0)
        BY <2>2 DEF Superseding, Young
    <2> QED BY <2>1, <2>2
<1>3. Young(Missing(copy), life, before)
    <2>1. Missing(copy).left = copy.left /\ Missing(copy).stale = copy.stale
        BY DEF Missing, Copy
    <2> QED BY <2>1 DEF Young
<1>4. Young(Expiring(copy), life, before)
    <2>1. CASE copy.left > 1
        <3>1. Expiring(copy).left = copy.left - 1 /\ Expiring(copy).stale = Older(copy.stale)
            BY <2>1 DEF Expiring, Copy
        <3>2. copy.stale <= before + (life - copy.left)
            BY <1>0, <2>1 DEF Young
        <3>3. CASE copy.stale = Current
            BY <1>0, <2>1, <3>1, <3>2, <3>3, StalenessType DEF Young, Current
        <3>4. CASE copy.stale # Current
            <4>1. Older(copy.stale) \in Int /\ Older(copy.stale) <= copy.stale + 1
                BY <1>0, <3>4, StalenessType, ConstantsType DEF Staleness, Current
            <4> QED BY <1>0, <3>1, <3>2, <4>1 DEF Young
        <3> QED BY <3>3, <3>4
    <2>2. CASE ~(copy.left > 1)
        BY <1>1, <2>2 DEF Expiring
    <2> QED BY <2>1, <2>2
<1> QED BY <1>1, <1>2, <1>3, <1>4

LEMMA BeforeType == TypeOK => Before \in Nat /\ Delay <= Before
BY ConstantsType DEF TypeOK, Before

LEMMA AgingStep ==
    ASSUME Clocks, Aging, NEW r \in Readers, Call(r)
    PROVE  Aging'
<1> USE ConstantsType
<1>0. reader[r] \in Reader /\ ClockOK(r) /\ Carried(r) /\ reader \in [Readers -> Reader]
    BY DEF Clocks, TypeOK, Aging
<1>1. Young(entry', TTL, Before') /\ Young(client', ClientTTL, Delay)
    <2>1. Before' = Before /\ Before \in Nat /\ Delay <= Before
        BY CallCopies, BeforeType DEF Clocks, Before
    <2>2. ASSUME reader[r].pc = "have", NEW most \in Nat \ {0}, NEW life \in 1..most,
                 NEW before \in Nat, Delay <= before
          PROVE  Young(Stored(life, reader[r].value), most, before)
        <3>1. reader[r].value <= reader[r].age /\ reader[r].age <= Delay
            BY <1>0, <2>2 DEF Carried, InHand, ClockOK
        <3>2. reader[r].value \in Int /\ reader[r].age \in Int
            BY <1>0 DEF Reader, Staleness, Current
        <3> QED BY <2>2, <3>1, <3>2 DEF Young, Stored
    <2>3. Young(NoEntry, TTL, Before) /\ ClientTTL \in 1..ClientTTL
        BY DEF Young, NoEntry
    <2>6. ASSUME TakeOver(r), NEW life \in 1..TTL, entry' = [client EXCEPT !.left = life]
          PROVE  Young(entry', TTL, Before)
        <3>1. client \in Copy(ClientTTL) /\ client.left > 0 /\ Young(client, ClientTTL, Delay)
            BY <2>6 DEF TakeOver, Clocks, TypeOK, Aging
        <3>2. client.left \in 0..ClientTTL /\ client.stale \in Int
            BY <3>1, CopyType
        <3>3. entry'.left = life /\ entry'.stale = client.stale
            BY <2>6, <3>1, TakenOver
        <3>4. Before = ClientTTL + Delay
            BY <1>0, <2>6, <3>1 DEF TakeOver, Before
        <3> QED BY <3>1, <3>2, <3>3, <3>4 DEF Young
    <2>4. Young(entry', TTL, Before)
        BY <2>1, <2>2, <2>3, <2>6, CallCopies DEF Aging
    <2>5. Young(client', ClientTTL, Delay)
        BY <2>2, <2>3, CallCopies DEF Aging
    <2> QED BY <2>1, <2>4, <2>5
<1>2. ASSUME NEW q \in Readers PROVE Carried(q)'
    <2>1. CASE q # r
        <3>1. reader'[q] = reader[q]
            BY <1>0, <2>1 DEF Call, Miss, AskClient, Step, Crash, TakeOver, AskSource,
                   Acquire, LoseLock, LockError, Poll, GiveUp, Fetch, FetchFails, Store,
                   Release, Goes, GoesAs, Ends
        <3> QED BY <3>1 DEF Aging, Carried, InHand
    <2>2. CASE q = r /\ Fetch(r)
        <3>1. reader'[r].value = Current /\ reader'[r].age = 0
            BY <1>0, <2>2 DEF Fetch, Reader
        <3> QED BY <2>2, <3>1 DEF Carried, InHand, Current
    <2>3. CASE q = r /\ Store(r)
        <3>1. \/ reader' = [reader EXCEPT ![r].pc = "release"]
              \/ reader' = [reader EXCEPT ![r] = Idle]
            BY <2>3 DEF Store, Goes, Ends
        <3>2. reader[r].value <= reader[r].age
            BY <1>0, <2>3 DEF Store, Carried, InHand
        <3> QED BY <1>0, <2>3, <3>1, <3>2 DEF Carried, InHand, Idle, Reader
    <2>4. CASE q = r /\ ~Fetch(r) /\ ~Store(r)
        <3>1. reader'[r].pc \notin {"have", "release"}
            BY <1>0, <2>4 DEF Call, Miss, AskClient, Step, Crash, TakeOver, AskSource,
                   Acquire, LoseLock, LockError, Poll, GiveUp, FetchFails, Release, Goes,
                   GoesAs, Ends, Idle, Reader
        <3> QED BY <2>4, <3>1 DEF Carried, InHand
    <2> QED BY <2>1, <2>2, <2>3, <2>4
<1> QED BY <1>1, <1>2 DEF Aging

LEMMA AgingTick == Clocks /\ Aging /\ Tick => Aging'
<1> SUFFICES ASSUME Clocks, Aging, Tick PROVE Aging'
    OBVIOUS
<1> USE ConstantsType
<1>1. Young(entry', TTL, Before') /\ Young(client', ClientTTL, Delay)
    <2>1. Before' = Before /\ Before \in Nat
        BY BeforeType DEF Clocks, Tick, Before
    <2>2. Young(Expiring(entry), TTL, Before) /\ Young(Expiring(client), ClientTTL, Delay)
        BY <2>1, CopyYoung DEF Clocks, TypeOK, Aging
    <2> QED BY <2>1, <2>2 DEF Tick
<1>2. ASSUME NEW r \in Readers PROVE Carried(r)'
    <2>0. reader[r] \in Reader /\ reader'[r] = Aged(r) /\ Carried(r) /\ ClockOK(r)
        BY DEF Clocks, TypeOK, Aging, Tick
    <2>1. CASE reader[r].pc \in {"have", "release"}
        <3>1. reader'[r].value = Older(reader[r].value) /\ reader'[r].age = reader[r].age + 1
            BY <2>0, <2>1 DEF Aged, Reader
        <3>2. reader[r].value \in Staleness /\ reader[r].age \in Nat
              /\ reader[r].value <= reader[r].age
            BY <2>0, <2>1 DEF Carried, InHand, Reader
        <3>3. CASE reader[r].value = Current
            BY <3>1, <3>2, <3>3, StalenessType DEF Carried, InHand, Current
        <3>4. CASE reader[r].value # Current
            <4>1. Older(reader[r].value) \in Int /\ reader[r].value \in Int
                  /\ Older(reader[r].value) <= reader[r].value + 1
                BY <3>2, <3>4, StalenessType DEF Staleness, Current
            <4> QED BY <3>1, <3>2, <4>1 DEF Carried, InHand
        <3> QED BY <3>3, <3>4
    <2>2. CASE reader[r].pc \notin {"have", "release"}
        BY <2>0, <2>2 DEF Aged, Carried, InHand, Reader
    <2> QED BY <2>1, <2>2
<1> QED BY <1>1, <1>2 DEF Aging

LEMMA AgingServer ==
    ASSUME Clocks, Aging, Server
    PROVE  Aging'
<1> USE ConstantsType
<1>0. entry \in Copy(TTL) /\ client \in Copy(ClientTTL)
    BY DEF Clocks, TypeOK
<1>1. Before' = Before /\ Before \in Nat
    BY ServerCopies, BeforeType DEF Clocks, Before
<1>2. Young(client', ClientTTL, Delay)
    BY <1>0, ServerCopies, CopyYoung DEF Aging
<1>3. Young(entry', TTL, Before)
    BY <1>0, <1>1, ServerCopies, CopyYoung DEF Aging
<1>4. ASSUME NEW r \in Readers PROVE Carried(r)'
    <2>1. CASE reader' = reader
        BY <2>1 DEF Aging, Carried, InHand
    <2>2. CASE Write
        <3>1. reader[r] \in Reader /\ Carried(r)
              /\ reader'[r] = IF InHand(r) THEN [reader[r] EXCEPT !.value = Superseded(@)]
                                           ELSE reader[r]
            BY <2>2 DEF Clocks, TypeOK, Aging, Write
        <3>2. CASE InHand(r)
            <4>1. reader'[r].value = Superseded(reader[r].value)
                  /\ reader'[r].age = reader[r].age /\ reader[r].age >= 0
                BY <3>1, <3>2 DEF Reader
            <4> QED BY <3>1, <3>2, <4>1 DEF Carried, Superseded
        <3>3. CASE ~InHand(r)
            BY <3>1, <3>3 DEF Carried, InHand
        <3> QED BY <3>2, <3>3
    <2> QED BY <2>1, <2>2, ServerCopies
<1> QED BY <1>1, <1>2, <1>3, <1>4 DEF Aging

LEMMA AgingNext == Clocks /\ Aging /\ [Next]_vars => Aging'
<1> SUFFICES ASSUME Clocks, Aging, [Next]_vars PROVE Aging'
    OBVIOUS
<1>1. CASE UNCHANGED vars
    BY <1>1 DEF vars, Aging, Young, Before, Carried, InHand
<1> QED BY <1>1, AgingStep, AgingTick, AgingServer DEF Next, Call, Server

LEMMA AgingBounds == Clocks /\ Aging => StalenessIsBounded
<1> SUFFICES ASSUME Clocks, Aging PROVE StalenessIsBounded
    OBVIOUS
<1> USE ConstantsType
<1>1. entry.left > 0 => entry.stale <= TTL + Delay + (IF layered THEN ClientTTL ELSE 0)
    <2>1. entry.left \in 0..TTL /\ entry.stale \in Int
        BY CopyType DEF Clocks, TypeOK
    <2> QED BY <2>1 DEF Aging, Young, Before
<1>2. client.left > 0 => client.stale <= ClientTTL + Delay
    <2>1. client.left \in 0..ClientTTL /\ client.stale \in Int
        BY CopyType DEF Clocks, TypeOK
    <2> QED BY <2>1 DEF Aging, Young
<1>3. ASSUME NEW r \in Readers, InHand(r)
      PROVE  reader[r].value <= Delay
    <2>1. reader[r].value <= reader[r].age /\ reader[r].age <= Delay
        BY <1>3 DEF Clocks, Aging, Carried, InHand, ClockOK
    <2>2. reader[r].value \in Int /\ reader[r].age \in Int
        BY DEF Clocks, TypeOK, Reader, Staleness, Current
    <2> QED BY <2>1, <2>2
<1> QED BY <1>1, <1>2, <1>3 DEF StalenessIsBounded

\* However many readers and writers overlap and whatever is lost, no call returns a
\* value superseded longer ago than TTL and one fetch; where the client's cache lies
\* below, than both times to live and one fetch.
THEOREM StalenessStaysBounded == Spec => []StalenessIsBounded
<1>1. Clocks /\ Aging => StalenessIsBounded
    BY AgingBounds
<1> QED BY <1>1, ClocksInit, ClocksNext, AgingInit, AgingNext, PTL DEF Spec

-------------------------------------------------------------------------------
(***************************************************************************)
(* Why a cached copy is stale.                                             *)
(***************************************************************************)
\* What is stored is marked late when it is stale, and what ages goes on as it was.
LEMMA CopyExplained ==
    ASSUME NEW life \in Nat \ {0}, NEW copy \in Copy(life)
    PROVE  /\ Explained(NoEntry)
           /\ \A left, s : Explained(Stored(left, s))
           /\ Missing(copy).left > 0 => Missing(copy).missed
           /\ copy.left > 0 /\ copy.stale = Current => Expiring(copy).stale = Current
           /\ Expiring(copy).left > 0 =>
                copy.left > 0 /\ (copy.late => Expiring(copy).late)
                             /\ (copy.missed => Expiring(copy).missed)
<1>1. Explained(NoEntry)
    BY DEF Explained, NoEntry
<1>2. ASSUME NEW left, NEW s PROVE Explained(Stored(left, s))
    <2>1. Stored(left, s).stale = s
        BY DEF Stored
    <2>2. Stored(left, s).late = (s # Current)
        BY Zenon DEF Stored
    <2> QED BY <2>1, <2>2, Zenon DEF Explained
<1>3. Missing(copy).left > 0 => Missing(copy).missed
    BY DEF Missing, Copy
<1>4. CASE copy.left > 1
    <2>1. Expiring(copy) = [copy EXCEPT !.left = @ - 1, !.stale = Older(@)]
        BY <1>4 DEF Expiring
    <2>2. Expiring(copy).stale = Older(copy.stale) /\ (Expiring(copy).late <=> copy.late)
          /\ (Expiring(copy).missed <=> copy.missed)
        BY <2>1 DEF Copy
    <2>3. copy.stale = Current => Expiring(copy).stale = Current
        BY <2>2 DEF Older
    <2>4. copy.left > 0
        BY <1>4 DEF Copy
    <2> QED BY <1>1, <1>2, <1>3, <2>2, <2>3, <2>4, Zenon
<1>5. CASE ~(copy.left > 1)
    BY <1>1, <1>2, <1>3, <1>5 DEF Expiring, NoEntry
<1> QED BY <1>4, <1>5

LEMMA ExplainedNext == Clocks /\ StaleIsExplained /\ [Next]_vars => StaleIsExplained'
<1> SUFFICES ASSUME Clocks, StaleIsExplained, [Next]_vars PROVE StaleIsExplained'
    OBVIOUS
<1>0. /\ entry \in Copy(TTL) /\ client \in Copy(ClientTTL) /\ pending \in 0..MaxWriters
      /\ TTL \in Nat \ {0} /\ ClientTTL \in Nat \ {0}
    BY CacheAssumption DEF Clocks, TypeOK
<1>1. ASSUME NEW r \in Readers, Call(r)
      PROVE  StaleIsExplained'
    <2>1. pending' = pending
        BY <1>1, CallCopies
    <2>2. ASSUME NEW life \in Nat \ {0}, NEW copy \in Copy(life), NEW next,
                 Explained(copy),
                 next \in {copy, NoEntry} \/ \E left : next = Stored(left, reader[r].value)
          PROVE  Explained(next)
        BY <2>2, CopyExplained, Zenon
    <2>3. Explained(client')
        BY <1>0, <1>1, <2>2, CallCopies DEF StaleIsExplained
    <2>4. ASSUME NEW life \in 1..TTL, entry' = [client EXCEPT !.left = life], client.left > 0
          PROVE  Explained(entry')
        <3>1. entry'.stale = client.stale
              /\ entry'.late = client.late /\ entry'.missed = client.missed
            BY <1>0, <2>4, TakenOver
        <3>2. Explained(client) /\ client.left > 0
            BY <2>4 DEF StaleIsExplained
        <3> QED BY <3>1, <3>2, Zenon DEF Explained
    <2>5. Explained(entry')
        BY <1>0, <1>1, <2>2, <2>4, CallCopies DEF StaleIsExplained
    <2> QED BY <2>1, <2>3, <2>5 DEF StaleIsExplained, Explained
<1>2. CASE Write
    BY <1>0, <1>2 DEF Write, StaleIsExplained, Explained
<1>3. CASE Invalidate
    BY <1>3 DEF Invalidate, NoEntry, StaleIsExplained, Explained
<1>4. CASE LoseInvalidation
    <2>1. entry' = Missing(entry) /\ client' = Missing(client)
        BY <1>4 DEF LoseInvalidation
    <2>2. (entry'.left > 0 => entry'.missed) /\ (client'.left > 0 => client'.missed)
        BY <1>0, <2>1, CopyExplained
    <2> QED BY <2>2 DEF StaleIsExplained, Explained
<1>5. CASE Evict
    BY <1>5 DEF Evict, NoEntry, StaleIsExplained, Explained
<1>6. CASE Tick
    <2>1. pending' = pending /\ entry' = Expiring(entry) /\ client' = Expiring(client)
        BY <1>6 DEF Tick
    <2>2. ASSUME NEW life \in Nat \ {0}, NEW copy \in Copy(life), Explained(copy)
          PROVE  Explained(Expiring(copy))
        BY <2>2, CopyExplained, Zenon DEF Explained
    <2>3. Explained(Expiring(entry)) /\ Explained(Expiring(client))
        BY <1>0, <2>2 DEF StaleIsExplained
    <2> QED BY <2>1, <2>3 DEF StaleIsExplained, Explained
<1>7. CASE Outage \/ UNCHANGED vars
    BY <1>7 DEF Outage, vars, StaleIsExplained, Explained
<1> QED BY <1>1, <1>2, <1>3, <1>4, <1>5, <1>6, <1>7 DEF Next, Call

\* Whenever a copy is out of date, in the cache or in the client's below it, a writer has
\* yet to invalidate it, a fetch was overtaken by a write, or an invalidation was lost:
\* there is no fourth reason.
THEOREM StaleIsAlwaysExplained == Spec => []StaleIsExplained
<1>1. Init => StaleIsExplained
    BY DEF Init, NoEntry, StaleIsExplained, Explained
<1> QED BY <1>1, ClocksInit, ClocksNext, ExplainedNext, PTL DEF Spec

-------------------------------------------------------------------------------
(***************************************************************************)
(* The lock.                                                               *)
(***************************************************************************)
Kept(r) ==
    Holds(r) /\ reader[r].since < LockTime =>
        lock.owner = r /\ lock.left = LockTime - reader[r].since

LEMMA KeptIsLockIsKept == Clocks => (LockIsKept <=> \A r \in Readers : Kept(r))
<1> SUFFICES ASSUME Clocks, NEW r \in Readers
             PROVE  lock = [owner |-> r, left |-> LockTime - reader[r].since] <=>
                    lock.owner = r /\ lock.left = LockTime - reader[r].since
    BY DEF LockIsKept, Kept
<1>1. lock \in Lock
    BY DEF Clocks, TypeOK
<1> QED BY <1>1 DEF Lock

\* A step of r that changes neither the lock nor whether and since when r holds it.
LEMMA KeptByOthers ==
    ASSUME Clocks, \A q \in Readers : Kept(q), NEW r \in Readers,
           lock' = lock, reader' \in [Readers -> Reader],
           \A q \in Readers \ {r} : reader'[q] = reader[q],
           Holds(r)' => Holds(r) /\ reader'[r].since = reader[r].since
    PROVE  \A q \in Readers : Kept(q)'
<1> SUFFICES ASSUME NEW q \in Readers PROVE Kept(q)'
    OBVIOUS
<1>1. CASE q = r
    BY <1>1 DEF Kept
<1>2. CASE q # r
    <2>1. reader'[q] = reader[q] /\ Kept(q)
        BY <1>2
    <2> QED BY <2>1 DEF Kept, Holds
<1> QED BY <1>1, <1>2

\* Acquire is the only way to the lock.
LEMMA HolderIsKept ==
    ASSUME NEW r \in Readers, reader \in [Readers -> Reader], ClockOK(r),
           Call(r), ~Acquire(r)
    PROVE  Holds(r)' => Holds(r) /\ reader'[r].since = reader[r].since
<1>0. reader[r] \in Reader
    OBVIOUS
<1>1. CASE Miss(r)
    BY <1>0, <1>1 DEF Miss, Goes, ClockOK, Holds, Reader
<1>2. CASE LoseLock(r)
    BY <1>0, <1>2 DEF LoseLock, Goes, Holds, Reader
<1>3. CASE LockError(r) \/ GiveUp(r) \/ AskClient(r)
    BY <1>0, <1>3 DEF LockError, GiveUp, AskClient, GoesAs, Holds, Reader
<1>4. CASE Fetch(r)
    BY <1>0, <1>4 DEF Fetch, ClockOK, Holds, Reader
<1>5. CASE reader' = [reader EXCEPT ![r] = Idle]
    BY <1>5 DEF Holds, Idle
<1>6. CASE FetchFails(r) /\ reader[r].mode = "lock"
    BY <1>0, <1>6 DEF FetchFails, Goes, ClockOK, Holds, Reader
<1>7. CASE Store(r) /\ reader[r].mode = "lock"
    BY <1>0, <1>7 DEF Store, Goes, ClockOK, Holds, Reader
<1>8. CASE AskSource(r)
    BY <1>0, <1>8 DEF AskSource, Goes, ClockOK, Holds, Reader
<1> QED BY <1>1, <1>2, <1>3, <1>4, <1>5, <1>6, <1>7, <1>8 DEF Call, Step, Crash,
            TakeOver, Poll, Release, FetchFails, Store, Ends

LEMMA KeptStep ==
    ASSUME Clocks, Clocks', \A q \in Readers : Kept(q),
           NEW r \in Readers, Call(r)
    PROVE  \A q \in Readers : Kept(q)'
<1> USE ConstantsType
<1>0. /\ reader[r] \in Reader /\ ClockOK(r) /\ reader \in [Readers -> Reader]
      /\ reader' \in [Readers -> Reader] /\ lock \in Lock
    BY DEF Clocks, TypeOK
<1>1. \A q \in Readers \ {r} : reader'[q] = reader[q]
    BY <1>0 DEF Call, Miss, AskClient, Step, Crash, TakeOver, AskSource, Acquire, LoseLock,
           LockError, Poll, GiveUp, Fetch, FetchFails, Store, Release, Goes, GoesAs, Ends
<1>2. CASE lock' = lock /\ ~Acquire(r)
    <2>1. Holds(r)' => Holds(r) /\ reader'[r].since = reader[r].since
        BY <1>0, <1>2, HolderIsKept
    <2> QED BY <1>0, <1>1, <1>2, <2>1, KeptByOthers
<1>3. CASE lock.left = 0
    <2>1. \A q \in Readers : ~(Holds(q) /\ reader[q].since < LockTime)
        <3>1. ASSUME NEW q \in Readers PROVE reader[q].since \in Int
            BY DEF Clocks, TypeOK, Reader
        <3> QED BY <1>3, <3>1 DEF Kept
    <2>2. ASSUME NEW q \in Readers \ {r} PROVE Kept(q)'
        BY <1>1, <2>1, <2>2 DEF Kept, Holds
    <2>3. CASE Acquire(r)
        <3>1. reader'[r].since = 0
            <4>1. reader'[r].since = reader[r].since
                BY <1>0, <2>3 DEF Acquire, GoesAs, Reader
            <4> QED BY <1>0, <2>3, <4>1 DEF Acquire, ClockOK, Holds
        <3>2. Kept(r)'
            BY <2>3, <3>1 DEF Acquire, Kept
        <3> QED BY <2>2, <3>2
    <2>4. CASE ~Acquire(r)
        <3>1. Holds(r)' => Holds(r) /\ reader'[r].since = reader[r].since
            BY <1>0, <2>4, HolderIsKept
        <3>2. Kept(r)'
            BY <2>1, <3>1 DEF Kept
        <3> QED BY <2>2, <3>2
    <2> QED BY <2>3, <2>4
<1>4. CASE Release(r) /\ lock.owner = r
    <2>1. ASSUME NEW q \in Readers \ {r} PROVE Kept(q)'
        <3>1. ~(Holds(q) /\ reader[q].since < LockTime)
            BY <1>4, <2>1 DEF Kept
        <3> QED BY <1>1, <3>1 DEF Kept, Holds
    <2>2. Kept(r)'
        BY <1>0, <1>4 DEF Release, Ends, Idle, Kept, Holds
    <2> QED BY <2>1, <2>2
<1> QED BY <1>2, <1>3, <1>4 DEF Call, Miss, AskClient, Step, Crash, TakeOver, AskSource,
            Acquire, LoseLock, LockError, Poll, GiveUp, Fetch, FetchFails, Store,
            Release, Unlocked

LEMMA KeptTick ==
    ASSUME Clocks, \A q \in Readers : Kept(q), Tick
    PROVE  \A q \in Readers : Kept(q)'
<1> SUFFICES ASSUME NEW r \in Readers, Holds(r)', reader'[r].since < LockTime
             PROVE  lock'.owner = r /\ lock'.left = LockTime - reader'[r].since
    BY DEF Kept
<1> USE ConstantsType
<1>1. reader[r] \in Reader /\ reader'[r] = Aged(r) /\ lock \in Lock /\ Kept(r)
    BY DEF Clocks, TypeOK, Tick
<1>2. Holds(r)
    BY <1>1 DEF Holds, Aged, Reader
<1>3. reader[r].since < LockTime /\ reader'[r].since = reader[r].since + 1
    BY <1>1, <1>2 DEF Aged, Reader
<1>4. lock.owner = r /\ lock.left = LockTime - reader[r].since
    BY <1>1, <1>2, <1>3 DEF Kept
<1>5. lock.left > 0 /\ reader[r].since \in Int
    BY <1>1, <1>3, <1>4 DEF Reader
<1> QED BY <1>1, <1>3, <1>4, <1>5 DEF Tick, Lock

LEMMA KeptServer ==
    ASSUME Clocks, \A q \in Readers : Kept(q), Server
    PROVE  \A q \in Readers : Kept(q)'
<1> SUFFICES ASSUME NEW r \in Readers PROVE Kept(r)'
    OBVIOUS
<1>1. lock' = lock
    BY ServerCopies
<1>2. reader'[r].pc = reader[r].pc /\ reader'[r].mode = reader[r].mode
      /\ reader'[r].since = reader[r].since
    BY ServerCopies DEF Clocks, TypeOK, Reader, Write
<1> QED BY <1>1, <1>2 DEF Kept, Holds

LEMMA LockNext == Clocks /\ Clocks' /\ LockIsKept /\ [Next]_vars => LockIsKept'
<1> SUFFICES ASSUME Clocks, Clocks', LockIsKept, [Next]_vars PROVE LockIsKept'
    OBVIOUS
<1>1. \A q \in Readers : Kept(q)
    BY KeptIsLockIsKept
<1>2. \A q \in Readers : Kept(q)'
    <2>1. CASE UNCHANGED vars
        BY <1>1, <2>1 DEF vars, Kept, Holds
    <2> QED BY <1>1, <2>1, KeptStep, KeptTick, KeptServer DEF Next, Call, Server
<1>3. (Clocks => (LockIsKept <=> \A r \in Readers : Kept(r)))'
    BY KeptIsLockIsKept, PTL
<1> QED BY <1>2, <1>3

\* A caller that took the lock is the only one to hold it until its time is over or
\* it lets it go, whoever else was slower than the lock.
THEOREM LockStaysKept == Spec => []LockIsKept
<1>1. Init => LockIsKept
    BY DEF Init, Idle, LockIsKept, Holds
<1> QED BY <1>1, ClocksInit, ClocksNext, LockNext, PTL DEF Spec
==============================================================================
