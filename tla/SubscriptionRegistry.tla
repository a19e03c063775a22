------------------------ MODULE SubscriptionRegistry ------------------------
(***************************************************************************)
(* The subscription registry of one relay process: the subs map and the    *)
(* five fan-out indexes, each a concurrent DashMap.                        *)
(*                                                                         *)
(* Workers are the runtime's threads; each runs one call of the registry   *)
(* at a time.  A DashMap guard is a lock: remove_subscription holds the    *)
(* write guard of a connection's entry while it takes index guards, and    *)
(* fan_out_scoped holds the read guard of an index entry while it takes    *)
(* the guards of connections.  A lock section that takes no other lock is  *)
(* one step.  A Vec of an index is a set here: a pair pushed twice is      *)
(* routed once and removed as one.  Locks are per key; DashMap's cover     *)
(* whole shards of keys, so two calls can only wait more often than here.  *)
(***************************************************************************)
EXTENDS Integers, FanOutIndex

CONSTANTS
    Workers,      \* threads
    Conns,        \* connections
    SubIds,       \* subscription ids
    CommunityOf,  \* the tenant each connection is bound to
    Requests,     \* the filter sets of REQ frames
    Events,       \* events to fan out
    NoEntry,      \* no subscription under this id
    NoKey,        \* no index key
    MaxOps,       \* bound: registry calls in a behaviour
    Overlapping   \* whether calls for one subscription id may overlap

ASSUME RegistryAssumption ==
    /\ CommunityOf \in [Conns -> Communities]
    /\ Requests \subseteq SUBSET Filter
    /\ Events \subseteq Event
    /\ MaxOps \in Nat
    /\ Overlapping \in BOOLEAN
    /\ NoKey \notin IndexKeySet

VARIABLES
    subs,   \* conn -> sub id -> entry
    index,  \* all five indexes: the keys they hold -> subscriptions filed there
    work,   \* the call each worker is in the middle of
    ops     \* calls so far

regVars == <<subs, index, work, ops>>

Entry == [filters : Requests, community : Communities, room : Scopes]
Pairs == Conns \X SubIds

\* A call: op and its arguments; touched are the ids it may change, ids those
\* still to be removed, unfile the (id, key) pairs still to be taken out of an index, purge
\* the key whose entry was seen empty, file the keys still to be pushed to.
\* For a fan-out, lookup are the keys still to be read, reading the key whose
\* guard is held, cands its subscriptions still to be matched, found the result.
Idle == [op |-> "idle"]

Call(o, c, ss) == [op |-> o, conn |-> c, touched |-> ss, ids |-> {}, locked |-> FALSE,
                   unfile |-> {}, purge |-> NoKey, new |-> NoEntry, sub |-> NoEntry, file |-> {}]

FanOutCall(c, e) == [op |-> "fan_out", community |-> c, event |-> e, lookup |-> LookupKeys(c, e),
                     reading |-> NoKey, cands |-> {}, found |-> {}]

RegInit ==
    /\ subs = [c \in Conns |-> [s \in SubIds |-> NoEntry]]
    /\ index = [k \in {} |-> {}]
    /\ work = [w \in Workers |-> Idle]
    /\ ops = 0

-----------------------------------------------------------------------------
(* Guards. *)

Mutating(w) == work[w].op \in {"register", "remove", "evict", "cleanup"}
Fanning(w)  == work[w].op = "fan_out"

\* No write guard on connection c's entry / no read guard on index key k.
ConnFree(c) == \A w \in Workers : Mutating(w) /\ work[w].locked => work[w].conn # c
KeyFree(k)  == \A w \in Workers : Fanning(w) => work[w].reading # k

\* A read of the subs entry excludes only writers, and every reader of it is a
\* single step, so ConnFree serves both kinds of guard; likewise KeyFree for a
\* writer of an index entry.

Filed(k) == IF k \in DOMAIN index THEN index[k] ELSE {}

Keys(c, s) == IndexKeys(subs[c][s].community, subs[c][s].filters, subs[c][s].room)

Set(w, v) == work' = [work EXCEPT ![w] = v]

\* The worker's next call.  With Overlapping = FALSE calls that change the same
\* subscription do not overlap, as when a client waits for the answers to its
\* frames and no moderation event or hang-up falls between them.
MayCall(w, c, ss) ==
    /\ work[w] = Idle
    /\ ops < MaxOps
    /\ ops' = ops + 1
    /\ Overlapping \/ \A v \in Workers :
          Mutating(v) /\ work[v].conn = c => work[v].touched \cap ss = {}

-----------------------------------------------------------------------------
(* Calls. *)

\* register_scoped begins by removing the subscription it replaces.
RegisterScoped(w, c, s, filters) ==
    /\ MayCall(w, c, {s})
    /\ Set(w, [Call("register", c, {s}) EXCEPT !.ids = {s}, !.sub = s,
                  !.new = [filters |-> filters, community |-> CommunityOf[c],
                           room |-> ExtractChannelId(filters)]])
    /\ UNCHANGED <<subs, index>>

RemoveSubscription(w, c, s) ==
    /\ MayCall(w, c, {s})
    /\ Set(w, [Call("remove", c, {s}) EXCEPT !.ids = {s}])
    /\ UNCHANGED <<subs, index>>

\* remove_channel_subscriptions_scoped collects ids under a read guard and
\* then removes them one by one.
RemoveChannelSubscriptions(w, c, r) ==
    /\ MayCall(w, c, SubIds)
    /\ ConnFree(c)
    /\ LET ids == {s \in SubIds : subs[c][s] # NoEntry /\ subs[c][s].room = r}
       IN ids # {} /\ Set(w, [Call("evict", c, SubIds) EXCEPT !.ids = ids])
    /\ UNCHANGED <<subs, index>>

\* remove_connection takes the whole entry out of subs first, and clears the
\* indexes when no guard is held any more.
RemoveConnection(w, c) ==
    /\ MayCall(w, c, SubIds)
    /\ ConnFree(c)
    /\ LET ids == {s \in SubIds : subs[c][s] # NoEntry}
       IN Set(w, [Call("cleanup", c, SubIds) EXCEPT
                      !.unfile = UNION {{s} \X Keys(c, s) : s \in ids}])
    /\ subs' = [subs EXCEPT ![c] = [s \in SubIds |-> NoEntry]]
    /\ UNCHANGED index

FanOutScoped(w, c, e) ==
    /\ work[w] = Idle
    /\ ops < MaxOps
    /\ ops' = ops + 1
    /\ Set(w, FanOutCall(c, e))
    /\ UNCHANGED <<subs, index>>

-----------------------------------------------------------------------------
(* remove_subscription and remove_from_index. *)

Unfiling(w) == work[w].unfile # {} \/ work[w].purge # NoKey

\* Mutation: the index entries stay behind.
TakeEntry_KeepsIndex(w, s) ==
    /\ Mutating(w) /\ ~work[w].locked /\ s \in work[w].ids
    /\ ConnFree(work[w].conn)
    /\ subs' = [subs EXCEPT ![work[w].conn][s] = NoEntry]
    /\ Set(w, [work[w] EXCEPT !.ids = @ \ {s}])
    /\ UNCHANGED <<index, ops>>

\* Take the entry out under the connection's write guard, which is kept while
\* its index entries go.
TakeEntry(w, s) ==
    /\ Mutating(w) /\ ~work[w].locked /\ s \in work[w].ids
    /\ LET c == work[w].conn
       IN /\ ConnFree(c)
          /\ subs' = [subs EXCEPT ![c][s] = NoEntry]
          /\ Set(w, [work[w] EXCEPT !.ids = @ \ {s},
                        !.locked = subs[c][s] # NoEntry,
                        !.unfile = IF subs[c][s] = NoEntry THEN {} ELSE {s} \X Keys(c, s)])
    /\ UNCHANGED <<index, ops>>

\* Mutation: the key goes, whoever else is filed under it.
Unfile_WholeKey(w, s, k) ==
    /\ Mutating(w) /\ work[w].purge = NoKey
    /\ <<s, k>> \in work[w].unfile
    /\ KeyFree(k)
    /\ index' = [j \in DOMAIN index \ {k} |-> index[j]]
    /\ Set(w, [work[w] EXCEPT !.unfile = @ \ {<<s, k>>}])
    /\ UNCHANGED <<subs, ops>>

\* entries.retain under the key's write guard, if the key is there; if nothing
\* is left the guard is dropped and the key is removed in a step of its own.
Unfile(w, s, k) ==
    /\ Mutating(w) /\ work[w].purge = NoKey
    /\ <<s, k>> \in work[w].unfile
    /\ KeyFree(k)
    /\ LET left == Filed(k) \ {<<work[w].conn, s>>}
       IN /\ index' = [j \in DOMAIN index |-> IF j = k THEN left ELSE index[j]]
          /\ Set(w, [work[w] EXCEPT !.unfile = @ \ {<<s, k>>},
                        !.purge = IF k \in DOMAIN index /\ left = {} THEN k ELSE NoKey])
    /\ UNCHANGED <<subs, ops>>

\* index.remove(key): whatever was filed under the key meanwhile goes with it.
Purge(w) ==
    /\ Mutating(w) /\ work[w].purge # NoKey
    /\ KeyFree(work[w].purge)
    /\ index' = [j \in DOMAIN index \ {work[w].purge} |-> index[j]]
    /\ Set(w, [work[w] EXCEPT !.purge = NoKey])
    /\ UNCHANGED <<subs, ops>>

\* The guard of the connection's entry is dropped.
Unlock(w) ==
    /\ Mutating(w) /\ work[w].locked /\ ~Unfiling(w)
    /\ Set(w, [work[w] EXCEPT !.locked = FALSE])
    /\ UNCHANGED <<subs, index, ops>>

-----------------------------------------------------------------------------
(* The second half of register_scoped. *)

InsertEntry(w) ==
    /\ Mutating(w) /\ work[w].new # NoEntry
    /\ work[w].ids = {} /\ ~work[w].locked
    /\ LET c == work[w].conn
           n == work[w].new
       IN /\ ConnFree(c)
          /\ subs' = [subs EXCEPT ![c][work[w].sub] = n]
          /\ Set(w, [work[w] EXCEPT !.new = NoEntry,
                        !.file = IndexKeys(n.community, n.filters, n.room)])
    /\ UNCHANGED <<index, ops>>

File(w, k) ==
    /\ Mutating(w) /\ k \in work[w].file
    /\ KeyFree(k)
    /\ index' = [j \in DOMAIN index \cup {k} |->
                     IF j = k THEN Filed(k) \cup {<<work[w].conn, work[w].sub>>} ELSE index[j]]
    /\ Set(w, [work[w] EXCEPT !.file = @ \ {k}])
    /\ UNCHANGED <<subs, ops>>

Return(w) ==
    /\ Mutating(w)
    /\ work[w].ids = {} /\ ~work[w].locked /\ ~Unfiling(w)
    /\ work[w].new = NoEntry /\ work[w].file = {}
    /\ Set(w, Idle)
    /\ UNCHANGED <<subs, index, ops>>

-----------------------------------------------------------------------------
(* fan_out_scoped and push_match. *)

\* The order in which the indexes are read.
Rank == [global_p_kind |-> 1, global_kind |-> 2, channel_kind |-> 2,
         global_wildcard |-> 3, channel_wildcard |-> 3]

ReadKey(w, k) ==
    /\ Fanning(w) /\ work[w].reading = NoKey /\ k \in work[w].lookup
    /\ \A j \in work[w].lookup : Rank[k.index] <= Rank[j.index]
    /\ Set(w, [work[w] EXCEPT !.lookup = @ \ {k},
                  !.reading = IF Filed(k) = {} THEN NoKey ELSE k, !.cands = Filed(k)])
    /\ UNCHANGED <<subs, index, ops>>

\* The filters are those the subscription has now.
PushMatch(w, x) ==
    /\ Fanning(w) /\ x \in work[w].cands
    /\ ConnFree(x[1])
    /\ LET entry == subs[x[1]][x[2]]
           hit   == entry # NoEntry /\ FiltersMatch(entry.filters, work[w].event)
           left  == work[w].cands \ {x}
       IN Set(w, [work[w] EXCEPT !.cands = left,
                     !.reading = IF left = {} THEN NoKey ELSE @,
                     !.found = IF hit THEN @ \cup {x} ELSE @])
    /\ UNCHANGED <<subs, index, ops>>

FannedOut(w) == Fanning(w) /\ work[w].lookup = {} /\ work[w].cands = {}

Deliver(w) ==
    /\ FannedOut(w)
    /\ Set(w, Idle)
    /\ UNCHANGED <<subs, index, ops>>

-----------------------------------------------------------------------------
MutateStep(w) ==
    /\ Mutating(w)
    /\ \/ \E s \in work[w].ids : TakeEntry(w, s)
       \/ \E u \in work[w].unfile : Unfile(w, u[1], u[2])
       \/ Purge(w) \/ Unlock(w) \/ InsertEntry(w)
       \/ \E k \in work[w].file : File(w, k)
       \/ Return(w)

FanOutStep(w) ==
    /\ Fanning(w)
    /\ \/ \E k \in work[w].lookup : ReadKey(w, k)
       \/ \E x \in work[w].cands : PushMatch(w, x)
       \/ Deliver(w)

NewCall(w) ==
    \/ \E c \in Conns, s \in SubIds :
          RemoveSubscription(w, c, s) \/ \E f \in Requests : RegisterScoped(w, c, s, f)
    \/ \E c \in Conns : RemoveConnection(w, c) \/ \E r \in Rooms : RemoveChannelSubscriptions(w, c, r)
    \/ \E m \in Communities, e \in Events : FanOutScoped(w, m, e)

RegNext == \E w \in Workers : NewCall(w) \/ MutateStep(w) \/ FanOutStep(w)

RegSpec == RegInit /\ [][RegNext]_regVars

-----------------------------------------------------------------------------
InScope(entry, c, e) == entry.community = c /\ entry.room = e.room

\* fan_out_scoped finds exactly the subscriptions of its community whose scope
\* is the event's and whose filters match it, whichever of the five indexes
\* register_scoped chose for them.
FanOutIsExact ==
    \A w \in Workers : FannedOut(w) =>
        work[w].found = {x \in Pairs : LET entry == subs[x[1]][x[2]] IN
            /\ entry # NoEntry
            /\ InScope(entry, work[w].community, work[w].event)
            /\ FiltersMatch(entry.filters, work[w].event)}

\* x is filed under k, or the register_scoped call that inserted it is still to
\* file it there.
Indexed(x, k) ==
    \/ x \in Filed(k)
    \/ \E w \in Workers : /\ Mutating(w)
                         /\ work[w].conn = x[1] /\ work[w].sub = x[2]
                         /\ k \in work[w].file

\* A registered subscription is filed under every one of its keys.  True of one
\* thread only: the key that remove_from_index saw empty may be in use again
\* when it is removed.
RegisteredIsIndexed ==
    \A x \in Pairs : subs[x[1]][x[2]] # NoEntry =>
        \A k \in Keys(x[1], x[2]) : Indexed(x, k)

\* The keys a registered subscription is missing from.
Unindexed(x) ==
    {k \in IF subs[x[1]][x[2]] = NoEntry THEN {} ELSE Keys(x[1], x[2]) : ~Indexed(x, k)}

\* Whatever two threads do, a registered subscription goes missing from an index
\* in one way only, the removal of a key that was seen empty before it was filed
\* there: registering, replacing or removing any subscription never drops the
\* pair of another from an entry, nor leaves one of its own keys out.
OnlyPurgeUnfiles ==
    [][\A x \in Pairs : \A k \in Unindexed(x)' :
          \/ k \in Unindexed(x)
          \/ \E w \in Workers : Purge(w) /\ work[w].purge = k]_regVars

\* remove_from_index leaves nothing behind: what is filed in an index belongs
\* to a registered subscription with that key, or to one being removed.
IndexedIsRegistered ==
    \A k \in DOMAIN index : \A x \in index[k] :
        \/ subs[x[1]][x[2]] # NoEntry /\ k \in Keys(x[1], x[2])
        \/ \E w \in Workers : /\ Mutating(w)
                             /\ work[w].conn = x[1]
                             /\ <<x[2], k>> \in work[w].unfile

\* Whatever push_match accepts has the scope of the event: channel events never
\* reach global subscriptions nor the other way round, nor another community's,
\* though push_match compares filters only.
ScopingInvariant ==
    \A w \in Workers : Fanning(w) =>
        \A x \in work[w].cands : LET entry == subs[x[1]][x[2]] IN
            entry # NoEntry /\ FiltersMatch(entry.filters, work[w].event)
                => InScope(entry, work[w].community, work[w].event)

\* The index keys worker w may take a write guard of next.
Wants(w) == IF work[w].purge # NoKey THEN {work[w].purge} ELSE {u[2] : u \in work[w].unfile}

\* No two calls wait for each other: one holding a connection's write guard and
\* waiting for an index key, the other reading that key and waiting for the
\* connection.
NoLockCycle ==
    ~ \E w, v \in Workers :
        /\ Mutating(w) /\ work[w].locked /\ Unfiling(w)
        /\ Fanning(v) /\ work[v].cands # {}
        /\ Wants(w) = {work[v].reading}
        /\ \A x \in work[v].cands : x[1] = work[w].conn

=============================================================================
