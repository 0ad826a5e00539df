---------------------------- MODULE ChannelCache ----------------------------
(***************************************************************************)
(* The distribution channels of one project (routes/channels.ts) behind    *)
(* the process's read cache (lru-cache.ts): entries with a time to live,   *)
(* oldest evicted first, concurrent misses of one key sharing one load,    *)
(* and writers that change the database first and invalidate afterwards.   *)
(*                                                                         *)
(* A channel's row is a version, 0 before it is created and Gone after it  *)
(* was deleted.  A key is a channel, for its detail, or ListKey.           *)
(***************************************************************************)
EXTENDS Integers, Sequences

CONSTANTS
    Channels,
    Readers,        \* clients reading one channel or the list
    Writers,        \* clients creating, changing and deleting
    ListKey,        \* channels:list:<project>
    MaxEntries,     \* the cache's max (1000)
    Ttl,            \* its ttlMs (60 s)
    MaxLoad,        \* the time a load may take
    MaxVersion,     \* bound: changes of one channel
    MaxTicks        \* bound: time

ASSUME CacheAssumption == {MaxEntries, Ttl} \subseteq Nat \ {0} /\ ListKey \notin Channels

Keys == Channels \cup {ListKey}
Gone == -1

VARIABLES
    ticks,
    channel,    \* DistributionChannel
    store,      \* LruCache.store in insertion order
    inflight,   \* LruCache.inflight, the load of each key
    reader, writer,
    changed     \* history: when each key's payload last changed, and whether a
                \* load that had read before that change was then still in flight

cacheVars == <<ticks, channel, store, inflight, reader, writer, changed>>

NoLoad == [pc |-> "none", value |-> {}, begun |-> 0]
IdleReader == [pc |-> "idle", key |-> ListKey]
IdleWriter == [pc |-> "idle", channel |-> ListKey]

\* What a load of the key reads now; {} is the null of a missing channel, which
\* the detail route answers with 404 and the cache keeps like any value.
Payload(rows, k) == {<<c, rows[c]>> : c \in {d \in Channels : rows[d] > 0 /\ k \in {d, ListKey}}}

EntryOf(k) == SelectSeq(store, LAMBDA e : e.key = k)
Without(keys) == SelectSeq(store, LAMBDA e : e.key \notin keys)
Fresh(k) == EntryOf(k) # <<>> /\ EntryOf(k)[1].expires > ticks

CacheInit ==
    /\ ticks = 0
    /\ channel \in [Channels -> {0, 1}]
    /\ store = <<>>
    /\ inflight = [k \in Keys |-> NoLoad]
    /\ reader = [r \in Readers |-> IdleReader]
    /\ writer = [w \in Writers |-> IdleWriter]
    /\ changed = [k \in Keys |-> [at |-> 0, overlapped |-> FALSE]]

-----------------------------------------------------------------------------
(* getOrSet, for GET channels and GET channels/:id *)

\* Faulty variant: a hit starts the entry's time to live again.
MoveToEndRenewed(k) == Append(Without({k}), [EntryOf(k)[1] EXCEPT !.expires = ticks + Ttl])

MoveToEnd(k) == Append(Without({k}), EntryOf(k)[1])

Get(r, k) ==
    /\ reader[r].pc = "idle"
    /\ k # ListKey => channel[k] # 0   \* ids come from the list
    /\ IF Fresh(k)
       THEN /\ store' = MoveToEnd(k)
            /\ UNCHANGED <<inflight, reader>>
       ELSE /\ reader' = [reader EXCEPT ![r] = [pc |-> "waiting", key |-> k]]
            /\ inflight' = [inflight EXCEPT ![k] =
                   IF @.pc = "none" THEN [NoLoad EXCEPT !.pc = "reading", !.begun = ticks] ELSE @]
            /\ UNCHANGED store
    /\ UNCHANGED <<ticks, channel, writer, changed>>

LoadReads(k) ==
    /\ inflight[k].pc = "reading"
    /\ inflight' = [inflight EXCEPT ![k].pc = "read", ![k].value = Payload(channel, k)]
    /\ UNCHANGED <<ticks, channel, store, reader, writer, changed>>

\* Everyone who joined the load gets its value, or its error.
Answer(k) ==
    reader' = [r \in Readers |-> IF reader[r] = [pc |-> "waiting", key |-> k] THEN IdleReader ELSE reader[r]]

\* Faulty variant: the entry is stored over the cap.
KeptAll(entries) == entries

\* while (size > max) delete the oldest
Kept(entries) == IF Len(entries) > MaxEntries THEN Tail(entries) ELSE entries

LoadStores(k) ==
    /\ inflight[k].pc = "read"
    /\ store' = Kept(Append(Without({k}), [key |-> k, value |-> inflight[k].value, expires |-> ticks + Ttl]))
    /\ inflight' = [inflight EXCEPT ![k] = NoLoad]
    /\ Answer(k)
    /\ changed' = [changed EXCEPT ![k].overlapped = @ /\ inflight[k].value # Payload(channel, k)]
    /\ UNCHANGED <<ticks, channel, writer>>

\* Faulty variant: a failed load stays in flight, and later misses wait for it.
LoadFailsUncleared(k) ==
    /\ inflight[k].pc = "reading"
    /\ inflight' = [inflight EXCEPT ![k].pc = "failed"]
    /\ UNCHANGED <<ticks, channel, store, writer, changed, reader>>

\* The loader throws; nothing is stored.
LoadFails(k) ==
    /\ inflight[k].pc = "reading"
    /\ inflight' = [inflight EXCEPT ![k] = NoLoad]
    /\ Answer(k)
    /\ UNCHANGED <<ticks, channel, store, writer, changed>>

-----------------------------------------------------------------------------
(* The writers: the row changes in one step, the cache in the next *)

Change(w, c, version) ==
    /\ channel' = [channel EXCEPT ![c] = version]
    /\ changed' = [k \in Keys |->
           IF k \in {c, ListKey} THEN [at |-> ticks, overlapped |-> inflight[k].pc = "read"] ELSE changed[k]]
    /\ UNCHANGED <<ticks, store, inflight, reader>>

CreateChannel(w, c) ==
    /\ writer[w] = IdleWriter /\ channel[c] = 0
    /\ Change(w, c, 1)
    /\ writer' = [writer EXCEPT ![w] = [pc |-> "created", channel |-> c]]

\* A missing channel is 404; the update of one deleted after the read fails.
PutReads(w, c) ==
    /\ writer[w] = IdleWriter /\ channel[c] > 0
    /\ writer' = [writer EXCEPT ![w] = [pc |-> "found", channel |-> c]]
    /\ UNCHANGED <<ticks, channel, store, inflight, reader, changed>>

PutWrites(w) ==
    LET c == writer[w].channel IN
    /\ writer[w].pc = "found"
    /\ \/ /\ channel[c] \in 1 .. MaxVersion - 1
          /\ Change(w, c, channel[c] + 1)
          /\ writer' = [writer EXCEPT ![w].pc = "updated"]
       \/ /\ channel[c] \in {Gone, MaxVersion}
          /\ writer' = [writer EXCEPT ![w] = IdleWriter]
          /\ UNCHANGED <<ticks, channel, store, inflight, reader, changed>>

RemoveChannel(w, c) ==
    /\ writer[w] = IdleWriter /\ channel[c] > 0
    /\ Change(w, c, Gone)
    /\ writer' = [writer EXCEPT ![w] = [pc |-> "deleted", channel |-> c]]

\* Faulty variant: an update leaves the list in the cache.
InvalidatedKeysDetail(w) ==
    CASE writer[w].pc = "created" -> {ListKey}
      [] writer[w].pc = "updated" -> {writer[w].channel}
      [] writer[w].pc = "deleted" -> Keys

\* POST drops the lists, PUT the detail and the lists, DELETE everything
InvalidatedKeys(w) ==
    CASE writer[w].pc = "created" -> {ListKey}
      [] writer[w].pc = "updated" -> {writer[w].channel, ListKey}
      [] writer[w].pc = "deleted" -> Keys

\* Only the store: a load in flight goes on and stores what it read.
Invalidate(w) ==
    /\ writer[w].pc \in {"created", "updated", "deleted"}
    /\ store' = Without(InvalidatedKeys(w))
    /\ writer' = [writer EXCEPT ![w] = IdleWriter]
    /\ UNCHANGED <<ticks, channel, inflight, reader, changed>>

CacheTick ==
    /\ ticks < MaxTicks
    /\ \A k \in Keys : inflight[k].pc # "none" => ticks - inflight[k].begun < MaxLoad
    /\ ticks' = ticks + 1
    /\ UNCHANGED <<channel, store, inflight, reader, writer, changed>>

Load(k) == LoadReads(k) \/ LoadStores(k) \/ LoadFails(k)

CacheNext ==
    \/ \E r \in Readers, k \in Keys : Get(r, k)
    \/ \E k \in Keys : Load(k)
    \/ \E w \in Writers, c \in Channels : CreateChannel(w, c) \/ PutReads(w, c) \/ RemoveChannel(w, c)
    \/ \E w \in Writers : PutWrites(w) \/ Invalidate(w)
    \/ CacheTick

\* A load ends: the database answers or the call fails.
CacheFairness == \A k \in Keys : WF_cacheVars(Load(k))
CacheSpec == CacheInit /\ [][CacheNext]_cacheVars /\ CacheFairness

-----------------------------------------------------------------------------
CacheTypeOK ==
    /\ ticks \in 0 .. MaxTicks
    /\ channel \in [Channels -> Gone .. MaxVersion]
    /\ Len(store) <= MaxEntries
    /\ \A i \in 1 .. Len(store) : store[i].key \in Keys /\ store[i].expires <= ticks + Ttl
    /\ \A i, j \in 1 .. Len(store) : store[i].key = store[j].key => i = j
    /\ DOMAIN inflight = Keys /\ DOMAIN reader = Readers /\ DOMAIN writer = Writers

Writing(k) == \E w \in Writers :
    writer[w].pc \in {"created", "updated", "deleted"} /\ k \in {writer[w].channel, ListKey}

\* A change is answered once the cache no longer holds the old payload: an entry
\* that differs from the database belongs to a change whose invalidation is still
\* to come, or came from a load that had read before the change.
StaleOnlyByOverlap ==
    \A i \in 1 .. Len(store) :
        \/ store[i].value = Payload(channel, store[i].key)
        \/ Writing(store[i].key)
        \/ changed[store[i].key].overlapped

\* However a payload got stale, readers are rid of it after the load and one time
\* to live, whether or not they keep reading it.
StalenessBounded ==
    \A i \in 1 .. Len(store) :
        store[i].value # Payload(channel, store[i].key) =>
            store[i].expires <= changed[store[i].key].at + MaxLoad + Ttl

\* A reader that waits for a load is answered, by its value or by its error.
ReadersAnswered == \A r \in Readers : reader[r].pc = "waiting" ~> reader[r].pc # "waiting"

\* A stale payload comes from an overlap and goes in time, and everyone who asks
\* is answered (lru-cache.ts, channels.ts).
CacheHonest == [](CacheTypeOK /\ StaleOnlyByOverlap /\ StalenessBounded) /\ ReadersAnswered
=============================================================================
