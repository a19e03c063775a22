--------------------- MODULE SubscriptionRegistry_proofs ---------------------
(***************************************************************************)
(* The fan-out indexes and the registry that keeps them.                   *)
(*                                                                         *)
(* First what the index keys promise, for every set of filters and every   *)
(* event: no matching subscription is missed, and nothing outside the      *)
(* scope of the event is even a candidate.  Then, for any number of        *)
(* threads, connections, subscriptions and events: what is filed is        *)
(* registered or being removed, what goes missing goes by the removal of a *)
(* key, and a fan-out finds whatever stays filed and matching while it     *)
(* runs.  With one thread what it finds is exact.                          *)
(***************************************************************************)
EXTENDS FanOutHistory, TLAPS

-----------------------------------------------------------------------------
(* Index keys. *)

\* Completeness: register_scoped files a subscription under a key that
\* fan_out_scoped reads for every event of its scope its filters match, so the
\* choice between the kind, wildcard and #p indexes loses no event.
THEOREM IndexComplete ==
    ASSUME NEW c \in Communities, NEW filters \in SUBSET Filter, NEW e \in Event,
           FiltersMatch(filters, e)
    PROVE  IndexKeys(c, filters, e.room) \cap LookupKeys(c, e) # {}
<1>1. PICK f \in filters : FilterMatchOne(f, e)
    BY DEF FiltersMatch
<1>2. /\ f.kinds = Absent \/ e.kind \in f.kinds
      /\ f.ps = Absent \/ f.ps \cap e.ps # {}
    BY <1>1 DEF FilterMatchOne
<1>3. CASE e.room # Global
  <2>1. CASE KindWildcard(filters)
      BY <1>3, <2>1 DEF IndexKeys, LookupKeys
  <2>2. CASE ~KindWildcard(filters)
    <3>1. e.kind \in ExtractKinds(filters)
        BY <1>2, <2>2 DEF KindWildcard, ExtractKinds
    <3>2. IndexKey("channel_kind", c, e.room, e.kind, Absent)
              \in KindKeys("channel_kind", c, e.room, filters)
        BY <3>1 DEF KindKeys
    <3> QED
        BY <1>3, <2>2, <3>2 DEF IndexKeys, LookupKeys
  <2> QED
      BY <2>1, <2>2
<1>4. CASE e.room = Global
  <2>1. CASE PConstrained(filters)
    <3>1. f.kinds # Absent /\ e.kind \in f.kinds
        BY <1>2, <2>1 DEF PConstrained
    <3>2. f.ps # Absent
        BY <2>1, <3>1 DEF PConstrained
    <3>3. PICK p \in e.ps : p \in f.ps
        BY <1>2, <3>2
    <3>4. IndexKey("global_p_kind", c, Global, e.kind, p) \in PKindKeys(c, filters)
      <4>1. f \in {g \in filters : g.kinds # {}}
          BY <3>1
      <4>2. IndexKey("global_p_kind", c, Global, e.kind, p)
                \in {IndexKey("global_p_kind", c, Global, k, q) : k \in f.kinds, q \in f.ps}
          BY <3>1, <3>3
      <4> QED
          BY <4>1, <4>2 DEF PKindKeys
    <3>5. IndexKey("global_p_kind", c, Global, e.kind, p) \in LookupKeys(c, e)
        BY <1>4, <3>3 DEF LookupKeys
    <3> QED
        BY <1>4, <2>1, <3>4, <3>5 DEF IndexKeys
  <2>2. CASE ~PConstrained(filters) /\ KindWildcard(filters)
      BY <1>4, <2>2 DEF IndexKeys, LookupKeys
  <2>3. CASE ~PConstrained(filters) /\ ~KindWildcard(filters)
    <3>1. e.kind \in ExtractKinds(filters)
        BY <1>2, <2>3 DEF KindWildcard, ExtractKinds
    <3>2. IndexKey("global_kind", c, Global, e.kind, Absent)
              \in KindKeys("global_kind", c, Global, filters)
        BY <3>1 DEF KindKeys
    <3> QED
        BY <1>4, <2>3, <3>2 DEF IndexKeys, LookupKeys
  <2> QED
      BY <2>1, <2>2, <2>3
<1> QED
    BY <1>3, <1>4

\* The scope of a key: register_scoped files a subscription only under keys of
\* its own community and scope.
LEMMA FiledInScope ==
    ASSUME NEW c, NEW filters, NEW r, NEW key \in IndexKeys(c, filters, r)
    PROVE  key.community = c /\ key.room = r
<1>1. \A i, s, k, p : IndexKey(i, c, s, k, p).community = c /\ IndexKey(i, c, s, k, p).room = s
    BY DEF IndexKey
<1>2. ASSUME NEW i, NEW s, NEW x \in KindKeys(i, c, s, filters)
      PROVE  x.community = c /\ x.room = s
  <2>1. PICK k \in ExtractKinds(filters) : x = IndexKey(i, c, s, k, Absent)
      BY <1>2 DEF KindKeys
  <2> QED
      BY <1>1, <2>1
<1>3. ASSUME NEW x \in PKindKeys(c, filters)
      PROVE  x.community = c /\ x.room = Global
  <2>1. PICK f \in filters : \E k \in f.kinds, p \in f.ps :
                x = IndexKey("global_p_kind", c, Global, k, p)
      BY <1>3 DEF PKindKeys
  <2> QED
      BY <1>1, <2>1
<1>4. CASE r # Global
    BY <1>1, <1>2, <1>4 DEF IndexKeys
<1>5. CASE r = Global
    BY <1>1, <1>2, <1>3, <1>5 DEF IndexKeys
<1> QED
    BY <1>4, <1>5

\* Scoping: a subscription filed under a key that fan_out_scoped reads for an
\* event is one of the event's community and of its channel, or global like it:
\* the indexes alone keep channel and global traffic apart.
THEOREM IndexScoped ==
    ASSUME NEW c \in Communities, NEW d \in Communities, NEW e \in Event,
           NEW filters \in SUBSET Filter, NEW r \in Scopes,
           IndexKeys(c, filters, r) \cap LookupKeys(d, e) # {}
    PROVE  c = d /\ r = e.room
<1>1. PICK key : key \in IndexKeys(c, filters, r) /\ key \in LookupKeys(d, e)
    OBVIOUS
<1>2. key.community = c /\ key.room = r
    BY <1>1, FiledInScope
<1>3. key.community = d /\ key.room = e.room
  <2>1. CASE e.room # Global
      BY <1>1, <2>1 DEF LookupKeys, IndexKey
  <2>2. CASE e.room = Global
      BY <1>1, <2>2 DEF LookupKeys, IndexKey
  <2> QED
      BY <2>1, <2>2
<1> QED
    BY <1>2, <1>3

-----------------------------------------------------------------------------
(* The registry itself.                                                    *)
(*                                                                         *)
(* The invariants of the registry follow what a call in progress has done  *)
(* and has yet to do: a subscription that is being unfiled has left subs,  *)
(* one that is being filed is in subs, and what is to be inserted has no   *)
(* predecessor left.  They need calls of one subscription not to overlap.  *)

CallState == [op : {"register", "remove", "evict", "cleanup"}, conn : Conns,
              touched : SUBSET SubIds, ids : SUBSET SubIds, locked : BOOLEAN,
              unfile : SUBSET (SubIds \X IndexKeySet), purge : IndexKeySet \cup {NoKey},
              new : Entry \cup {NoEntry}, sub : SubIds \cup {NoEntry}, file : SUBSET IndexKeySet]
FanOutState == [op : {"fan_out"}, community : Communities, event : Events,
                lookup : SUBSET IndexKeySet, reading : IndexKeySet \cup {NoKey},
                cands : SUBSET Pairs, found : SUBSET Pairs]

RegTypeOK ==
    /\ subs \in [Conns -> [SubIds -> Entry \cup {NoEntry}]]
    /\ index \in [DOMAIN index -> SUBSET Pairs]
    /\ work \in [Workers -> CallState \cup FanOutState \cup {Idle}]

\* Either clients and moderation leave each other's subscriptions alone, or
\* there is one thread.
NoOverlap == Overlapping = FALSE \/ \A v, w \in Workers : v = w

\* Calls in progress on one connection are about different subscriptions.
CallsApart ==
    \A v, w \in Workers :
        Mutating(v) /\ Mutating(w) /\ v # w /\ work[v].conn = work[w].conn
            => work[v].touched \cap work[w].touched = {}

\* Removal: what is being unfiled has been taken out of subs, under the guard
\* of the connection unless the whole connection goes.
Removing(w) ==
    /\ work[w].ids \subseteq work[w].touched
    /\ \A u \in work[w].unfile :
          u[1] \in work[w].touched /\ subs[work[w].conn][u[1]] = NoEntry
    /\ Unfiling(w) => work[w].locked \/ work[w].op = "cleanup"
    /\ work[w].op = "cleanup" => work[w].ids = {} /\ work[w].new = NoEntry /\ work[w].file = {}

\* Registration, before and after the entry is inserted.
Replacing(w) ==
    work[w].new # NoEntry =>
        /\ work[w].op = "register" /\ work[w].sub \in work[w].touched /\ work[w].file = {}
        /\ work[w].sub \in work[w].ids \/ subs[work[w].conn][work[w].sub] = NoEntry

Filing(w) ==
    work[w].file # {} =>
        /\ work[w].op = "register" /\ work[w].sub \in work[w].touched
        /\ work[w].ids = {} /\ work[w].new = NoEntry /\ ~work[w].locked
        /\ subs[work[w].conn][work[w].sub] # NoEntry
        /\ work[w].file \subseteq Keys(work[w].conn, work[w].sub)

CallOK(w) == Mutating(w) => Removing(w) /\ Replacing(w) /\ Filing(w)

\* A fan-out reads the keys of its event, and the guard it holds keeps what it
\* has seen under the key in place.
Reading(w) ==
    Fanning(w) =>
        /\ work[w].lookup \subseteq LookupKeys(work[w].community, work[w].event)
        /\ work[w].cands # {} =>
              /\ work[w].reading \in LookupKeys(work[w].community, work[w].event)
              /\ work[w].cands \subseteq Filed(work[w].reading)

RegInv ==
    /\ RegTypeOK /\ CallsApart
    /\ \A w \in Workers : CallOK(w) /\ Reading(w)
    /\ IndexedIsRegistered

\* With one thread, a key that was seen empty is still empty when it is removed,
PurgeIsEmpty == \A w \in Workers : Mutating(w) /\ work[w].purge # NoKey => Filed(work[w].purge) = {}

\* and a fan-out has found what it has read, and will find the rest.
Matching(c, e) ==
    {x \in Pairs : LET entry == subs[x[1]][x[2]] IN
        entry # NoEntry /\ InScope(entry, c, e) /\ FiltersMatch(entry.filters, e)}

Finding(w) ==
    Fanning(w) =>
        /\ work[w].cands # {} => work[w].reading # NoKey
        /\ work[w].found \subseteq Matching(work[w].community, work[w].event)
        /\ \A x \in Matching(work[w].community, work[w].event) :
              \/ x \in work[w].found \cup work[w].cands
              \/ Keys(x[1], x[2]) \cap work[w].lookup # {}

SingleInv ==
    /\ RegInv /\ PurgeIsEmpty /\ RegisteredIsIndexed
    /\ \A w \in Workers : Finding(w)

-----------------------------------------------------------------------------
(* Types of keys, entries and calls. *)

\* The keys of a subscription are index keys.
LEMMA KeysTyped ==
    ASSUME NEW c \in Communities, NEW filters \in SUBSET Filter, NEW r \in Scopes
    PROVE  IndexKeys(c, filters, r) \subseteq IndexKeySet
<1>0. \A i \in {"channel_kind", "channel_wildcard", "global_p_kind", "global_kind", "global_wildcard"},
         s \in Scopes, k \in Kinds \cup {Absent}, p \in People \cup {Absent} :
            IndexKey(i, c, s, k, p) \in IndexKeySet
    BY DEF IndexKey, IndexKeySet
<1>1. Global \in Scopes
    BY DEF Scopes
<1>2. \A f \in filters : f.kinds = Absent \/ f.kinds \subseteq Kinds
    BY DEF Filter
<1>3. \A f \in filters : f.ps = Absent \/ f.ps \subseteq People
    BY DEF Filter
<1>4. ASSUME ~KindWildcard(filters), NEW i \in {"channel_kind", "global_kind"}, NEW s \in Scopes
      PROVE  KindKeys(i, c, s, filters) \subseteq IndexKeySet
  <2>1. ExtractKinds(filters) \subseteq Kinds
      BY <1>2, <1>4 DEF KindWildcard, ExtractKinds
  <2> QED
      BY <1>0, <2>1 DEF KindKeys
<1>5. ASSUME PConstrained(filters)
      PROVE  PKindKeys(c, filters) \subseteq IndexKeySet
  <2> SUFFICES ASSUME NEW x \in PKindKeys(c, filters) PROVE x \in IndexKeySet
      OBVIOUS
  <2>1. PICK f \in filters : /\ f.kinds # {}
                             /\ \E k \in f.kinds, p \in f.ps :
                                    x = IndexKey("global_p_kind", c, Global, k, p)
      BY DEF PKindKeys
  <2>2. f.kinds \subseteq Kinds /\ f.ps \subseteq People
      BY <1>2, <1>3, <1>5, <2>1 DEF PConstrained
  <2> QED
      BY <1>0, <1>1, <2>1, <2>2
<1>6. CASE r # Global
    BY <1>0, <1>4, <1>6 DEF IndexKeys
<1>7. CASE r = Global
    BY <1>0, <1>1, <1>4, <1>5, <1>7 DEF IndexKeys
<1> QED
    BY <1>6, <1>7

\* So are the keys an event is looked up under.
LEMMA LookupTyped ==
    ASSUME NEW c \in Communities, NEW e \in Event
    PROVE  LookupKeys(c, e) \subseteq IndexKeySet
<1>1. e.kind \in Kinds /\ e.ps \subseteq People /\ e.room \in Scopes /\ Global \in Scopes
    BY DEF Event, Scopes
<1>0. \A i \in {"channel_kind", "channel_wildcard", "global_p_kind", "global_kind", "global_wildcard"},
         s \in Scopes, k \in Kinds \cup {Absent}, p \in People \cup {Absent} :
            IndexKey(i, c, s, k, p) \in IndexKeySet
    BY DEF IndexKey, IndexKeySet
<1>2. CASE e.room # Global
    BY <1>0, <1>1, <1>2 DEF LookupKeys
<1>3. CASE e.room = Global
    BY <1>0, <1>1, <1>3 DEF LookupKeys
<1> QED
    BY <1>2, <1>3

\* A filter set belongs to a channel or to none.
LEMMA ExtractTyped ==
    ASSUME NEW filters \in SUBSET Filter
    PROVE  ExtractChannelId(filters) \in Scopes
<1> DEFINE found == UNION {FilterRooms(f) : f \in filters}
<1>1. ASSUME NEW f \in filters PROVE FilterRooms(f) \subseteq Rooms
  <2>1. f.hs = Absent \/ f.hs \subseteq HValues
      BY DEF Filter
  <2>2. f.hs # Absent => \A h \in f.hs : ParseRoom[h] \in Rooms \cup {Global}
      BY <2>1, FanOutAssumption
  <2> QED
      BY <2>2 DEF FilterRooms
<1>2. found \subseteq Rooms
    BY <1>1
<1>3. CASE \E r \in found : found = {r} /\ \A f \in filters : FilterRooms(f) # {}
  <2>1. ExtractChannelId(filters) = CHOOSE r \in found : TRUE
      BY <1>3 DEF ExtractChannelId
  <2>2. (CHOOSE r \in found : TRUE) \in found
      BY <1>3
  <2> QED
      BY <1>2, <2>1, <2>2 DEF Scopes
<1>4. CASE ~\E r \in found : found = {r} /\ \A f \in filters : FilterRooms(f) # {}
  <2>1. ExtractChannelId(filters) = Global
      BY <1>4 DEF ExtractChannelId
  <2> QED
      BY <2>1 DEF Scopes
<1> QED
    BY <1>3, <1>4

\* What an entry of subs consists of.
LEMMA EntryParts ==
    ASSUME NEW entry \in Entry
    PROVE  /\ entry.filters \in SUBSET Filter /\ entry.community \in Communities
           /\ entry.room \in Scopes
           /\ IndexKeys(entry.community, entry.filters, entry.room) \subseteq IndexKeySet
<1>1. /\ entry.filters \in SUBSET Filter /\ entry.community \in Communities
      /\ entry.room \in Scopes
    BY RegistryAssumption DEF RegistryAssumption, Entry
<1> QED
    BY <1>1, KeysTyped

\* An entry in subs is well formed, and so are its keys.
LEMMA SubsTyped ==
    ASSUME RegTypeOK, NEW c \in Conns, NEW s \in SubIds
    PROVE  subs[c][s] # NoEntry => subs[c][s] \in Entry /\ Keys(c, s) \subseteq IndexKeySet
<1>1. subs[c][s] \in Entry \cup {NoEntry}
    BY DEF RegTypeOK
<1> QED
    BY <1>1, EntryParts DEF Keys

\* The record a worker carries says which kind of call it is in.
LEMMA WorkShape ==
    ASSUME RegTypeOK, NEW w \in Workers
    PROVE  /\ Mutating(w) => work[w] \in CallState /\ ~Fanning(w)
           /\ Fanning(w) => work[w] \in FanOutState /\ ~Mutating(w)
           /\ work[w] = Idle => ~Mutating(w) /\ ~Fanning(w)
<1>1. work[w] \in CallState \cup FanOutState \cup {Idle}
    BY DEF RegTypeOK
<1>2. Idle.op = "idle"
    BY DEF Idle
<1>3. work[w] \in CallState => work[w].op \in {"register", "remove", "evict", "cleanup"}
    BY DEF CallState
<1>4. work[w] \in FanOutState => work[w].op = "fan_out"
    BY DEF FanOutState
<1> QED
    BY <1>1, <1>2, <1>3, <1>4 DEF Mutating, Fanning

\* A pair is filed under a key by the subscription it names or by one that a
\* call is taking out.
Owned(x, k) ==
    \/ subs[x[1]][x[2]] # NoEntry /\ k \in Keys(x[1], x[2])
    \/ \E w \in Workers : /\ Mutating(w)
                         /\ work[w].conn = x[1]
                         /\ <<x[2], k>> \in work[w].unfile

\* IndexedIsRegistered in terms of what is filed.
LEMMA IndexedIsOwned == IndexedIsRegistered <=> \A k : \A x \in Filed(k) : Owned(x, k)
BY DEF IndexedIsRegistered, Filed, Owned
-----------------------------------------------------------------------------
(* What a step of one worker leaves to the others. *)

\* A call of another worker is undisturbed if its subscriptions are.
LEMMA OtherCalls ==
    ASSUME NEW v \in Workers, CallOK(v), work'[v] = work[v],
           Mutating(v) => \A s \in work[v].touched :
                             subs'[work[v].conn][s] = subs[work[v].conn][s]
    PROVE  CallOK(v)'
<1> SUFFICES ASSUME Mutating(v)' PROVE (Removing(v) /\ Replacing(v) /\ Filing(v))'
    BY DEF CallOK
<1>1. Mutating(v)
    BY DEF Mutating
<1>2. Removing(v) /\ Replacing(v) /\ Filing(v)
    BY <1>1 DEF CallOK
<1>3. Removing(v)'
    BY <1>1, <1>2 DEF Removing, Unfiling
<1>4. Replacing(v)'
    BY <1>1, <1>2 DEF Replacing
<1>5. Filing(v)'
    BY <1>1, <1>2 DEF Filing, Keys
<1> QED
    BY <1>3, <1>4, <1>5

\* A fan-out of another worker is undisturbed if the key it reads is.
LEMMA OtherReads ==
    ASSUME NEW v \in Workers, Reading(v), work'[v] = work[v],
           Fanning(v) => Filed(work[v].reading)' = Filed(work[v].reading)
    PROVE  Reading(v)'
BY DEF Reading, Fanning

\* The ownership of a filed pair survives a step that neither changes the
\* subscription nor forgets that it is being unfiled.
LEMMA OwnedKept ==
    ASSUME NEW w \in Workers, NEW x, NEW k, Owned(x, k),
           \A v \in Workers : v # w => work'[v] = work[v],
           subs'[x[1]][x[2]] = subs[x[1]][x[2]],
           Mutating(w) /\ work[w].conn = x[1] /\ <<x[2], k>> \in work[w].unfile
               => Mutating(w)' /\ work'[w].conn = x[1] /\ <<x[2], k>> \in work'[w].unfile
    PROVE  Owned(x, k)'
<1>1. CASE subs[x[1]][x[2]] # NoEntry /\ k \in Keys(x[1], x[2])
    BY <1>1 DEF Owned, Keys
<1>2. CASE \E v \in Workers : /\ Mutating(v) /\ work[v].conn = x[1]
                              /\ <<x[2], k>> \in work[v].unfile
  <2>1. PICK v \in Workers : /\ Mutating(v) /\ work[v].conn = x[1]
                             /\ <<x[2], k>> \in work[v].unfile
      BY <1>2
  <2>2. Mutating(v)' /\ work'[v].conn = x[1] /\ <<x[2], k>> \in work'[v].unfile
      BY <2>1 DEF Mutating
  <2> QED
      BY <2>2 DEF Owned
<1> QED
    BY <1>1, <1>2 DEF Owned

\* The invariant after a step of w, from what the step does.
LEMMA StepParts ==
    ASSUME RegInv, NEW w \in Workers, RegTypeOK',
           \A v \in Workers : v # w => work'[v] = work[v],
           \A v \in Workers : v # w /\ Mutating(v) =>
               \A s \in work[v].touched : subs'[work[v].conn][s] = subs[work[v].conn][s],
           \A v \in Workers : v # w /\ Fanning(v) =>
               Filed(work[v].reading)' = Filed(work[v].reading),
           CallOK(w)', Reading(w)',
           Mutating(w)' => \A v \in Workers :
               v # w /\ Mutating(v) /\ work[v].conn = work'[w].conn
                   => work[v].touched \cap work'[w].touched = {},
           \A k : \A x \in Filed(k)' : Owned(x, k)'
    PROVE  RegInv'
<1>1. CallsApart'
  <2> SUFFICES ASSUME NEW v \in Workers, NEW u \in Workers,
                      Mutating(v)', Mutating(u)', v # u, work'[v].conn = work'[u].conn
               PROVE  work'[v].touched \cap work'[u].touched = {}
      BY DEF CallsApart
  <2>1. CASE v = w
      BY <2>1 DEF Mutating
  <2>2. CASE u = w
      BY <2>2 DEF Mutating
  <2>3. CASE v # w /\ u # w
      BY <2>3 DEF RegInv, CallsApart, Mutating
  <2> QED
      BY <2>1, <2>2, <2>3
<1>2. \A v \in Workers : CallOK(v)'
    BY OtherCalls DEF RegInv
<1>3. \A v \in Workers : Reading(v)'
    BY OtherReads DEF RegInv
<1>4. IndexedIsRegistered'
  <2>1. \A k \in DOMAIN index' : \A x \in index'[k] : Owned(x, k)'
      BY DEF Filed
  <2> QED
      BY <2>1 DEF IndexedIsRegistered, Owned
<1> QED
    BY <1>1, <1>2, <1>3, <1>4 DEF RegInv

\* A step that changes neither subs nor index, and forgets nothing that is to
\* be unfiled.
LEMMA LocalStep ==
    ASSUME RegInv, NEW w \in Workers, NEW v, Set(w, v), UNCHANGED <<subs, index>>,
           v \in CallState \cup FanOutState \cup {Idle},
           CallOK(w)', Reading(w)',
           Mutating(w) /\ work[w].unfile # {} =>
               Mutating(w)' /\ work'[w].conn = work[w].conn /\ work'[w].unfile = work[w].unfile,
           Mutating(w)' => \A u \in Workers :
               u # w /\ Mutating(u) /\ work[u].conn = work'[w].conn
                   => work[u].touched \cap work'[w].touched = {}
    PROVE  RegInv'
<1>1. \A u \in Workers : u # w => work'[u] = work[u]
    BY DEF Set, RegInv, RegTypeOK
<1>2. RegTypeOK'
    BY DEF Set, RegInv, RegTypeOK
<1>3. \A k : Filed(k)' = Filed(k)
    BY DEF Filed
<1>4. \A k : \A x \in Filed(k) : Owned(x, k)
    BY IndexedIsOwned DEF RegInv
<1>5. \A k : \A x \in Filed(k)' : Owned(x, k)'
    BY <1>1, <1>3, <1>4, OwnedKept
<1>6. \A u \in Workers : u # w /\ Fanning(u) => Filed(work[u].reading)' = Filed(work[u].reading)
  <2> SUFFICES ASSUME NEW u \in Workers, u # w
               PROVE  Filed(work[u].reading)' = Filed(work[u].reading)
      OBVIOUS
  <2>1. work'[u] = work[u]
      BY <1>1
  <2> QED
      BY <2>1 DEF Filed
<1> QED
    BY <1>1, <1>2, <1>5, <1>6, StepParts
-----------------------------------------------------------------------------
(* New calls. *)

\* With NoOverlap, a call starts only where no other call is at work.
LEMMA MayCallApart ==
    ASSUME NoOverlap, NEW w \in Workers, NEW c, NEW ss, MayCall(w, c, ss), NEW v \in Workers,
           v # w, Mutating(v), work[v].conn = c
    PROVE  work[v].touched \cap ss = {}
BY DEF NoOverlap, MayCall

\* register_scoped, remove_subscription and the eviction begin: the record of
\* the call.
LEMMA NewCallShape ==
    ASSUME NEW w \in Workers, NEW c \in Conns,
           \/ \E s \in SubIds : RemoveSubscription(w, c, s)
           \/ \E s \in SubIds, f \in Requests : RegisterScoped(w, c, s, f)
           \/ \E r \in Rooms : RemoveChannelSubscriptions(w, c, r)
    PROVE  \E o \in {"register", "remove", "evict"}, ss \in SUBSET SubIds, r \in CallState :
             /\ MayCall(w, c, ss) /\ Set(w, r) /\ UNCHANGED <<subs, index>>
             /\ r.op = o /\ r.conn = c /\ r.touched = ss /\ r.ids \subseteq ss /\ r.unfile = {}
             /\ r.purge = NoKey /\ r.file = {} /\ ~r.locked
             /\ r.new # NoEntry => r.op = "register" /\ r.sub \in ss /\ r.sub \in r.ids
<1>1. ASSUME NEW s \in SubIds, RemoveSubscription(w, c, s)
      PROVE  \E o \in {"register", "remove", "evict"}, ss \in SUBSET SubIds, r \in CallState :
               /\ MayCall(w, c, ss) /\ Set(w, r) /\ UNCHANGED <<subs, index>>
               /\ r.op = o /\ r.conn = c /\ r.touched = ss /\ r.ids \subseteq ss /\ r.unfile = {}
               /\ r.purge = NoKey /\ r.file = {} /\ ~r.locked
               /\ r.new # NoEntry => r.op = "register" /\ r.sub \in ss /\ r.sub \in r.ids
  <2> DEFINE r == [Call("remove", c, {s}) EXCEPT !.ids = {s}]
  <2>1. r \in CallState /\ r.op = "remove" /\ r.conn = c /\ r.touched = {s} /\ r.ids = {s}
        /\ r.unfile = {} /\ r.purge = NoKey /\ r.file = {} /\ r.locked = FALSE /\ r.new = NoEntry
      BY DEF Call, CallState
  <2>2. MayCall(w, c, {s}) /\ Set(w, r) /\ UNCHANGED <<subs, index>>
      BY <1>1 DEF RemoveSubscription
  <2> HIDE DEF r
  <2> QED
      BY <2>1, <2>2
<1>2. ASSUME NEW s \in SubIds, NEW f \in Requests, RegisterScoped(w, c, s, f)
      PROVE  \E o \in {"register", "remove", "evict"}, ss \in SUBSET SubIds, r \in CallState :
               /\ MayCall(w, c, ss) /\ Set(w, r) /\ UNCHANGED <<subs, index>>
               /\ r.op = o /\ r.conn = c /\ r.touched = ss /\ r.ids \subseteq ss /\ r.unfile = {}
               /\ r.purge = NoKey /\ r.file = {} /\ ~r.locked
               /\ r.new # NoEntry => r.op = "register" /\ r.sub \in ss /\ r.sub \in r.ids
  <2> DEFINE n == [filters |-> f, community |-> CommunityOf[c], room |-> ExtractChannelId(f)]
             r == [Call("register", c, {s}) EXCEPT !.ids = {s}, !.sub = s, !.new = n]
  <2>1. f \in SUBSET Filter /\ CommunityOf[c] \in Communities
      BY RegistryAssumption DEF RegistryAssumption
  <2>2. n \in Entry
      BY <2>1, ExtractTyped DEF Entry
  <2>3. Set(w, r) /\ MayCall(w, c, {s}) /\ UNCHANGED <<subs, index>>
      BY <1>2 DEF RegisterScoped
  <2> HIDE DEF n
  <2>4. r \in CallState /\ r.op = "register" /\ r.conn = c /\ r.touched = {s} /\ r.ids = {s}
        /\ r.unfile = {} /\ r.purge = NoKey /\ r.file = {} /\ r.locked = FALSE /\ r.sub = s
      BY <2>2 DEF Call, CallState
  <2> HIDE DEF r
  <2> QED
      BY <2>3, <2>4
<1>3. ASSUME NEW m \in Rooms, RemoveChannelSubscriptions(w, c, m)
      PROVE  \E o \in {"register", "remove", "evict"}, ss \in SUBSET SubIds, r \in CallState :
               /\ MayCall(w, c, ss) /\ Set(w, r) /\ UNCHANGED <<subs, index>>
               /\ r.op = o /\ r.conn = c /\ r.touched = ss /\ r.ids \subseteq ss /\ r.unfile = {}
               /\ r.purge = NoKey /\ r.file = {} /\ ~r.locked
               /\ r.new # NoEntry => r.op = "register" /\ r.sub \in ss /\ r.sub \in r.ids
  <2> DEFINE ids == {s \in SubIds : subs[c][s] # NoEntry /\ subs[c][s].room = m}
             r == [Call("evict", c, SubIds) EXCEPT !.ids = ids]
  <2>1. Set(w, r) /\ MayCall(w, c, SubIds) /\ UNCHANGED <<subs, index>>
      BY <1>3 DEF RemoveChannelSubscriptions
  <2>2. ids \in SUBSET SubIds
      OBVIOUS
  <2> HIDE DEF ids
  <2>3. r \in CallState /\ r.op = "evict" /\ r.conn = c /\ r.touched = SubIds /\ r.ids = ids
        /\ r.unfile = {} /\ r.purge = NoKey /\ r.file = {} /\ r.locked = FALSE /\ r.new = NoEntry
      BY <2>2 DEF Call, CallState
  <2> HIDE DEF r
  <2> QED
      BY <2>1, <2>2, <2>3
<1> QED
    BY <1>1, <1>2, <1>3

\* Such a call disturbs no other.
LEMMA NewCallInv ==
    ASSUME NoOverlap, RegInv, NEW w \in Workers, NEW c \in Conns,
           \/ \E s \in SubIds : RemoveSubscription(w, c, s)
           \/ \E s \in SubIds, f \in Requests : RegisterScoped(w, c, s, f)
           \/ \E r \in Rooms : RemoveChannelSubscriptions(w, c, r)
    PROVE  RegInv'
<1>0. RegTypeOK
    BY DEF RegInv
<1>1. PICK o \in {"register", "remove", "evict"}, ss \in SUBSET SubIds, r \in CallState :
         /\ MayCall(w, c, ss) /\ Set(w, r) /\ UNCHANGED <<subs, index>>
         /\ r.op = o /\ r.conn = c /\ r.touched = ss /\ r.ids \subseteq ss /\ r.unfile = {}
         /\ r.purge = NoKey /\ r.file = {} /\ ~r.locked
         /\ r.new # NoEntry => r.op = "register" /\ r.sub \in ss /\ r.sub \in r.ids
    BY NewCallShape
<1>2. work'[w] = r /\ work[w] = Idle
    BY <1>0, <1>1 DEF Set, RegTypeOK, MayCall
<1>3. Mutating(w)' /\ ~Fanning(w)' /\ ~Mutating(w)
    BY <1>0, <1>1, <1>2, WorkShape DEF Mutating, Fanning
<1>4. CallOK(w)'
    BY <1>1, <1>2 DEF CallOK, Removing, Replacing, Filing, Unfiling
<1>5. Reading(w)'
    BY <1>3 DEF Reading
<1>6. \A u \in Workers : u # w /\ Mutating(u) /\ work[u].conn = work'[w].conn
                            => work[u].touched \cap work'[w].touched = {}
    BY <1>1, <1>2, MayCallApart
<1> QED
    BY <1>1, <1>3, <1>4, <1>5, <1>6, LocalStep

\* A fan-out begins with the keys of its event.
LEMMA FanOutCallInv ==
    ASSUME RegInv, NEW w \in Workers, NEW c \in Communities, NEW e \in Events, FanOutScoped(w, c, e)
    PROVE  RegInv'
<1>0. RegTypeOK
    BY DEF RegInv
<1> DEFINE r == FanOutCall(c, e)
<1>1. e \in Event
    BY RegistryAssumption DEF RegistryAssumption
<1>2. r \in FanOutState /\ r.op = "fan_out" /\ r.community = c /\ r.event = e
      /\ r.lookup = LookupKeys(c, e) /\ r.cands = {}
    BY <1>1, LookupTyped DEF FanOutCall, FanOutState
<1>3. Set(w, r) /\ UNCHANGED <<subs, index>> /\ work[w] = Idle
    BY DEF FanOutScoped
<1> HIDE DEF r
<1>4. work'[w] = r
    BY <1>0, <1>3 DEF Set, RegTypeOK
<1>5. ~Mutating(w) /\ ~Mutating(w)'
    BY <1>0, <1>2, <1>3, <1>4, WorkShape DEF Mutating
<1>6. CallOK(w)' /\ Reading(w)'
    BY <1>2, <1>4, <1>5 DEF CallOK, Reading
<1> QED
    BY <1>2, <1>3, <1>5, <1>6, LocalStep

\* remove_connection takes every subscription of the connection out at once.
LEMMA RemoveConnectionInv ==
    ASSUME NoOverlap, RegInv, NEW w \in Workers, NEW c \in Conns, RemoveConnection(w, c)
    PROVE  RegInv'
<1>0. RegTypeOK
    BY DEF RegInv
<1> DEFINE ids == {s \in SubIds : subs[c][s] # NoEntry}
           todo == UNION {{s} \X Keys(c, s) : s \in ids}
           r == [Call("cleanup", c, SubIds) EXCEPT !.unfile = todo]
<1>1. /\ MayCall(w, c, SubIds) /\ Set(w, r) /\ index' = index
      /\ subs' = [subs EXCEPT ![c] = [s \in SubIds |-> NoEntry]]
    BY DEF RemoveConnection
<1>2. \A s \in ids : Keys(c, s) \subseteq IndexKeySet
    BY <1>0, SubsTyped
<1>3. /\ todo \in SUBSET (SubIds \X IndexKeySet)
      /\ \A s \in SubIds : \A k : subs[c][s] # NoEntry /\ k \in Keys(c, s) => <<s, k>> \in todo
    BY <1>2
<1> HIDE DEF todo
<1>4. /\ r \in CallState /\ r.op = "cleanup" /\ r.conn = c /\ r.touched = SubIds /\ r.ids = {}
      /\ r.unfile = todo /\ r.purge = NoKey /\ r.file = {} /\ r.new = NoEntry
    BY <1>3 DEF Call, CallState
<1> HIDE DEF r, ids
<1>5. work'[w] = r /\ work[w] = Idle /\ \A v \in Workers : v # w => work'[v] = work[v]
    BY <1>0, <1>1 DEF Set, RegTypeOK, MayCall
<1>6. Mutating(w)' /\ ~Fanning(w)' /\ ~Mutating(w)
    BY <1>0, <1>4, <1>5, WorkShape DEF Mutating, Fanning
<1>7. RegTypeOK'
    BY <1>0, <1>1, <1>4 DEF RegTypeOK, Set
<1>8. /\ \A s \in SubIds : subs'[c][s] = NoEntry
      /\ \A d \in Conns : d # c => subs'[d] = subs[d]
    BY <1>0, <1>1 DEF RegTypeOK
<1>9. \A v \in Workers : v # w /\ Mutating(v) /\ work[v].conn = c => work[v].touched \cap SubIds = {}
    BY <1>1, MayCallApart
<1>10. ASSUME NEW v \in Workers, v # w, Mutating(v), NEW s \in work[v].touched
       PROVE  subs'[work[v].conn][s] = subs[work[v].conn][s]
  <2>1. work[v] \in CallState
      BY <1>0, <1>10, WorkShape
  <2>2. work[v].conn \in Conns /\ work[v].touched \subseteq SubIds
      BY <2>1 DEF CallState
  <2>3. work[v].conn # c
      BY <1>9, <1>10, <2>2
  <2> QED
      BY <1>8, <2>2, <2>3
<1>11. \A v \in Workers : v # w /\ Fanning(v) => Filed(work[v].reading)' = Filed(work[v].reading)
    BY <1>1, <1>5 DEF Filed
<1>12. CallOK(w)'
    BY <1>3, <1>4, <1>5, <1>8 DEF CallOK, Removing, Replacing, Filing, Unfiling
<1>13. Reading(w)'
    BY <1>6 DEF Reading
<1>14. ASSUME NEW k, NEW x \in Filed(k)' PROVE Owned(x, k)'
  <2>1. x \in Filed(k) /\ x \in Pairs
      BY <1>0, <1>1 DEF Filed, RegTypeOK
  <2>2. x[1] \in Conns /\ x[2] \in SubIds
      BY <2>1 DEF Pairs
  <2>3. Owned(x, k)
      BY <2>1, IndexedIsOwned DEF RegInv
  <2>4. CASE x[1] = c /\ subs[x[1]][x[2]] # NoEntry /\ k \in Keys(x[1], x[2])
    <3>1. <<x[2], k>> \in work'[w].unfile /\ work'[w].conn = x[1]
        BY <1>3, <1>4, <1>5, <2>2, <2>4
    <3> QED
        BY <1>6, <3>1 DEF Owned
  <2>5. CASE x[1] # c
    <3>1. subs'[x[1]][x[2]] = subs[x[1]][x[2]]
        BY <1>8, <2>2, <2>5
    <3> QED
        BY <1>5, <1>6, <2>3, <3>1, OwnedKept
  <2>6. CASE \E v \in Workers : /\ Mutating(v) /\ work[v].conn = x[1]
                                /\ <<x[2], k>> \in work[v].unfile
    <3>1. PICK v \in Workers : /\ Mutating(v) /\ work[v].conn = x[1]
                               /\ <<x[2], k>> \in work[v].unfile
        BY <2>6
    <3>2. v # w
        BY <1>6, <3>1
    <3>3. Mutating(v)' /\ work'[v] = work[v]
        BY <1>5, <3>1, <3>2 DEF Mutating
    <3> QED
        BY <3>1, <3>3 DEF Owned
  <2> QED
      BY <2>3, <2>4, <2>5, <2>6 DEF Owned
<1>15. \A v \in Workers : v # w /\ Mutating(v) /\ work[v].conn = work'[w].conn
                              => work[v].touched \cap work'[w].touched = {}
    BY <1>4, <1>5, <1>9
<1> QED
    BY <1>5, <1>7, <1>10, <1>11, <1>12, <1>13, <1>14, <1>15, StepParts
-----------------------------------------------------------------------------
(* Steps of calls that change the registry. *)

\* What is known of a call that is about to take a step.
LEMMA CallParts ==
    ASSUME RegInv, NEW w \in Workers, Mutating(w)
    PROVE  /\ work[w].op \in {"register", "remove", "evict", "cleanup"}
           /\ work[w].conn \in Conns /\ work[w].touched \subseteq SubIds
           /\ work[w].ids \subseteq SubIds /\ work[w].locked \in BOOLEAN
           /\ work[w].unfile \subseteq SubIds \X IndexKeySet
           /\ work[w].purge \in IndexKeySet \cup {NoKey} /\ work[w].new \in Entry \cup {NoEntry}
           /\ work[w].sub \in SubIds \cup {NoEntry} /\ work[w].file \subseteq IndexKeySet
           /\ work[w] \in CallState /\ Removing(w) /\ Replacing(w) /\ Filing(w)
<1>1. work[w] \in CallState
    BY WorkShape DEF RegInv
<1>2. Removing(w) /\ Replacing(w) /\ Filing(w)
    BY DEF RegInv, CallOK
<1> QED
    BY <1>1, <1>2 DEF CallState

\* The invariant after a step of a call of w that changes its own subscriptions
\* and the index entry of one key no fan-out is reading.
LEMMA MutateParts ==
    ASSUME RegInv, NEW w \in Workers, Mutating(w), NEW r \in CallState, Set(w, r),
           r.conn = work[w].conn, r.touched = work[w].touched,
           subs' \in [Conns -> [SubIds -> Entry \cup {NoEntry}]],
           \A d \in Conns, s \in SubIds :
               subs'[d][s] # subs[d][s] => d = work[w].conn /\ s \in work[w].touched,
           index' \in [DOMAIN index' -> SUBSET Pairs],
           NEW k, KeyFree(k) \/ Filed(k)' = Filed(k), \A j : j # k => Filed(j)' = Filed(j),
           Removing(w)', Replacing(w)', Filing(w)',
           \A j : \A x \in Filed(j)' : Owned(x, j)'
    PROVE  RegInv'
<1>0. RegTypeOK
    BY DEF RegInv
<1>1. work'[w] = r /\ \A v \in Workers : v # w => work'[v] = work[v]
    BY <1>0 DEF Set, RegTypeOK
<1>2. RegTypeOK'
  <2>1. work' \in [Workers -> CallState \cup FanOutState \cup {Idle}]
      BY <1>0 DEF Set, RegTypeOK
  <2> QED
      BY <2>1 DEF RegTypeOK
<1>3. Mutating(w)' /\ ~Fanning(w)'
    BY <1>1 DEF Mutating, Fanning, CallState
<1>4. \A v \in Workers : v # w /\ Mutating(v) /\ work[v].conn = work'[w].conn
                            => work[v].touched \cap work'[w].touched = {}
    BY <1>1 DEF RegInv, CallsApart
<1>5. ASSUME NEW v \in Workers, v # w, Mutating(v), NEW s \in work[v].touched
      PROVE  subs'[work[v].conn][s] = subs[work[v].conn][s]
  <2>1. work[v].conn \in Conns /\ s \in SubIds
      BY <1>5, CallParts
  <2>2. work[v].conn = work[w].conn => s \notin work[w].touched
      BY <1>1, <1>4, <1>5
  <2> QED
      BY <2>1, <2>2
<1>6. ASSUME NEW v \in Workers, v # w, Fanning(v)
      PROVE  Filed(work[v].reading)' = Filed(work[v].reading)
  <2>1. \A j : j = work[v].reading => Filed(j)' = Filed(j)
      BY <1>6 DEF KeyFree
  <2>2. work'[v] = work[v]
      BY <1>1, <1>6
  <2> QED
      BY <2>1, <2>2 DEF Filed
<1>7. CallOK(w)' /\ Reading(w)'
    BY <1>3 DEF CallOK, Reading
<1> QED
    BY <1>1, <1>2, <1>4, <1>5, <1>6, <1>7, StepParts

\* The entry is taken out of subs: its keys are to be unfiled.
LEMMA TakeEntryInv ==
    ASSUME RegInv, NEW w \in Workers, NEW s, TakeEntry(w, s)
    PROVE  RegInv'
<1>0. RegTypeOK /\ Mutating(w) /\ s \in work[w].ids /\ ~work[w].locked
    BY DEF RegInv, TakeEntry
<1> DEFINE c == work[w].conn
           todo == IF subs[c][s] = NoEntry THEN {} ELSE {s} \X Keys(c, s)
           r == [work[w] EXCEPT !.ids = @ \ {s}, !.locked = subs[c][s] # NoEntry, !.unfile = todo]
<1>1. /\ Set(w, r) /\ index' = index /\ subs' = [subs EXCEPT ![c][s] = NoEntry]
    BY DEF TakeEntry
<1>2. /\ c \in Conns /\ work[w].ids \subseteq work[w].touched /\ work[w].touched \subseteq SubIds
      /\ work[w] \in CallState /\ Removing(w) /\ Replacing(w) /\ Filing(w)
    BY <1>0, CallParts DEF Removing
<1>3. s \in SubIds /\ s \in work[w].touched
    BY <1>0, <1>2
<1>4. work[w].op # "cleanup" /\ work[w].unfile = {} /\ work[w].purge = NoKey /\ work[w].file = {}
    BY <1>0, <1>2 DEF Removing, Filing, Unfiling
<1>5. todo \in SUBSET (SubIds \X IndexKeySet)
    BY <1>0, <1>2, <1>3, SubsTyped
<1>6. /\ \A u \in todo : u[1] = s
      /\ todo # {} => subs[c][s] # NoEntry
      /\ \A k : subs[c][s] # NoEntry /\ k \in Keys(c, s) => <<s, k>> \in todo
    OBVIOUS
<1> HIDE DEF todo
<1>7. /\ r \in CallState /\ r.conn = work[w].conn /\ r.touched = work[w].touched
      /\ r.ids = work[w].ids \ {s} /\ r.unfile = todo /\ r.locked = (subs[c][s] # NoEntry)
      /\ r.op = work[w].op /\ r.file = {} /\ r.purge = NoKey
      /\ r.new = work[w].new /\ r.sub = work[w].sub
    BY <1>2, <1>4, <1>5 DEF CallState
<1> HIDE DEF r
<1>8. work'[w] = r /\ \A v \in Workers : v # w => work'[v] = work[v]
    BY <1>0, <1>1 DEF Set, RegTypeOK
<1>9. subs' \in [Conns -> [SubIds -> Entry \cup {NoEntry}]]
    BY <1>0, <1>1, <1>2, <1>3 DEF RegTypeOK
<1>10. /\ subs'[c][s] = NoEntry
       /\ \A d \in Conns, t \in SubIds : d # c \/ t # s => subs'[d][t] = subs[d][t]
    BY <1>0, <1>1, <1>2, <1>3 DEF RegTypeOK
<1>11. Removing(w)'
    BY <1>2, <1>3, <1>4, <1>6, <1>7, <1>8, <1>10 DEF Removing, Unfiling
<1>12. Replacing(w)'
  <2> SUFFICES ASSUME work[w].new # NoEntry
               PROVE  work[w].sub \in work[w].ids \ {s} \/ subs'[c][work[w].sub] = NoEntry
      BY <1>2, <1>7, <1>8 DEF Replacing
  <2>1. work[w].sub \in SubIds
      BY <1>2 DEF Replacing
  <2> QED
      BY <1>2, <1>10, <2>1 DEF Replacing
<1>13. Filing(w)'
    BY <1>7, <1>8 DEF Filing
<1>14. ASSUME NEW k, NEW x \in Filed(k)' PROVE Owned(x, k)'
  <2>1. x \in Filed(k) /\ x \in Pairs
      BY <1>0, <1>1 DEF Filed, RegTypeOK
  <2>2. x[1] \in Conns /\ x[2] \in SubIds
      BY <2>1 DEF Pairs
  <2>3. Owned(x, k)
      BY <2>1, IndexedIsOwned DEF RegInv
  <2>4. Mutating(w)'
      BY <1>7, <1>8 DEF Mutating, CallState
  <2>5. CASE x[1] = c /\ x[2] = s /\ subs[x[1]][x[2]] # NoEntry /\ k \in Keys(x[1], x[2])
    <3>1. <<x[2], k>> \in work'[w].unfile /\ work'[w].conn = x[1]
        BY <1>6, <1>7, <1>8, <2>5
    <3> QED
        BY <2>4, <3>1 DEF Owned
  <2>6. CASE x[1] # c \/ x[2] # s
    <3>1. subs'[x[1]][x[2]] = subs[x[1]][x[2]]
        BY <1>10, <2>2, <2>6
    <3> QED
        BY <1>4, <1>8, <2>3, <3>1, OwnedKept
  <2>7. CASE \E v \in Workers : /\ Mutating(v) /\ work[v].conn = x[1]
                                /\ <<x[2], k>> \in work[v].unfile
    <3>1. PICK v \in Workers : /\ Mutating(v) /\ work[v].conn = x[1]
                               /\ <<x[2], k>> \in work[v].unfile
        BY <2>7
    <3>2. v # w
        BY <1>4, <3>1
    <3>3. Mutating(v)' /\ work'[v] = work[v]
        BY <1>8, <3>1, <3>2 DEF Mutating
    <3> QED
        BY <3>1, <3>3 DEF Owned
  <2> QED
      BY <2>3, <2>5, <2>6, <2>7 DEF Owned
<1>15. \A j : Filed(j)' = Filed(j)
    BY <1>1 DEF Filed
<1>16. index' \in [DOMAIN index' -> SUBSET Pairs]
    BY <1>0, <1>1 DEF RegTypeOK
<1>17. \A d \in Conns, t \in SubIds : subs'[d][t] # subs[d][t] => d = work[w].conn /\ t \in work[w].touched
    BY <1>3, <1>10
<1> HIDE DEF c
<1> QED
    BY <1>0, <1>1, <1>7, <1>9, <1>11, <1>12, <1>13, <1>14, <1>15, <1>16, <1>17, MutateParts

\* A step that leaves subs alone and only takes pairs out of one index entry.
LEMMA UnfileParts ==
    ASSUME RegInv, NEW w \in Workers, Mutating(w), NEW r \in CallState, Set(w, r),
           r.conn = work[w].conn, r.touched = work[w].touched, r.op = work[w].op,
           r.ids = work[w].ids, r.locked = work[w].locked, r.new = work[w].new,
           r.sub = work[w].sub, r.file = work[w].file, r.unfile \subseteq work[w].unfile,
           Unfiling(w), subs' = subs, index' \in [DOMAIN index' -> SUBSET Pairs],
           NEW k, KeyFree(k), \A j : j # k => Filed(j)' = Filed(j), Filed(k)' \subseteq Filed(k),
           \A x \in Filed(k)' : x[1] = work[w].conn /\ <<x[2], k>> \in work[w].unfile
                                    => <<x[2], k>> \in r.unfile,
           \A j, s : j # k /\ <<s, j>> \in work[w].unfile => <<s, j>> \in r.unfile
    PROVE  RegInv'
<1>0. RegTypeOK
    BY DEF RegInv
<1>1. work'[w] = r /\ \A v \in Workers : v # w => work'[v] = work[v]
    BY <1>0 DEF Set, RegTypeOK
<1>2. Removing(w) /\ Replacing(w) /\ Filing(w)
    BY CallParts
<1>3. Removing(w)'
    BY <1>1, <1>2 DEF Removing
<1>4. Replacing(w)'
    BY <1>1, <1>2 DEF Replacing
<1>5. Filing(w)'
    BY <1>1, <1>2 DEF Filing, Keys
<1>6. Mutating(w)'
    BY <1>1 DEF Mutating, CallState
<1>7. ASSUME NEW j, NEW x \in Filed(j)' PROVE Owned(x, j)'
  <2>1. x \in Filed(j)
      BY <1>7
  <2>2. Owned(x, j)
      BY <2>1, IndexedIsOwned DEF RegInv
  <2>3. x[1] = work[w].conn /\ <<x[2], j>> \in work[w].unfile => <<x[2], j>> \in r.unfile
      BY <1>7
  <2> QED
      BY <1>1, <1>6, <2>2, <2>3, OwnedKept
<1>8. subs' \in [Conns -> [SubIds -> Entry \cup {NoEntry}]]
    BY <1>0 DEF RegTypeOK
<1> QED
    BY <1>3, <1>4, <1>5, <1>7, <1>8, MutateParts

\* A subscription is taken out of the entry of one of its keys.
LEMMA UnfileInv ==
    ASSUME RegInv, NEW w \in Workers, NEW s, NEW k, Unfile(w, s, k)
    PROVE  RegInv'
<1>0. RegTypeOK /\ Mutating(w) /\ <<s, k>> \in work[w].unfile /\ KeyFree(k)
    BY DEF RegInv, Unfile
<1> DEFINE left == Filed(k) \ {<<work[w].conn, s>>}
           p == IF k \in DOMAIN index /\ left = {} THEN k ELSE NoKey
           r == [work[w] EXCEPT !.unfile = @ \ {<<s, k>>}, !.purge = p]
<1>1. /\ Set(w, r) /\ subs' = subs
      /\ index' = [j \in DOMAIN index |-> IF j = k THEN left ELSE index[j]]
    BY DEF Unfile
<1>2. work[w] \in CallState /\ k \in IndexKeySet /\ work[w].unfile \subseteq SubIds \X IndexKeySet
      /\ work[w].conn \in Conns
    BY <1>0, CallParts
<1>3. p \in IndexKeySet \cup {NoKey}
    BY <1>2
<1> HIDE DEF p
<1>4. /\ r \in CallState /\ r.conn = work[w].conn /\ r.touched = work[w].touched
      /\ r.ids = work[w].ids /\ r.unfile = work[w].unfile \ {<<s, k>>}
      /\ r.locked = work[w].locked /\ r.op = work[w].op /\ r.file = work[w].file
      /\ r.new = work[w].new /\ r.sub = work[w].sub
    BY <1>2, <1>3 DEF CallState
<1> HIDE DEF r
<1>5. Unfiling(w)
    BY <1>0 DEF Unfiling
<1>6. left \in SUBSET Pairs /\ DOMAIN index' = DOMAIN index
    BY <1>0, <1>1 DEF Filed, RegTypeOK
<1>7. index' \in [DOMAIN index' -> SUBSET Pairs]
    BY <1>0, <1>1, <1>6 DEF RegTypeOK
<1>8. \A j : j # k => Filed(j)' = Filed(j)
    BY <1>1, <1>6 DEF Filed
<1>9. Filed(k)' \subseteq left
    BY <1>1, <1>6 DEF Filed
<1>10. ASSUME NEW x \in Filed(k)', x[1] = work[w].conn, <<x[2], k>> \in work[w].unfile
       PROVE  <<x[2], k>> \in r.unfile
  <2>1. x \in Pairs /\ x # <<work[w].conn, s>>
      BY <1>6, <1>9, <1>10
  <2>2. x = <<x[1], x[2]>>
      BY <2>1 DEF Pairs
  <2>3. x[2] # s
      BY <1>10, <2>1, <2>2
  <2> QED
      BY <1>4, <1>10, <2>3
<1>11. \A j, t : j # k /\ <<t, j>> \in work[w].unfile => <<t, j>> \in r.unfile
    BY <1>4
<1>12. Filed(k)' \subseteq Filed(k) /\ r.unfile \subseteq work[w].unfile
    BY <1>4, <1>9
<1> QED
    BY <1>0, <1>1, <1>4, <1>5, <1>7, <1>8, <1>10, <1>11, <1>12, UnfileParts

\* A key that was seen empty is removed.
LEMMA PurgeInv ==
    ASSUME RegInv, NEW w \in Workers, Purge(w)
    PROVE  RegInv'
<1>0. RegTypeOK /\ Mutating(w) /\ work[w].purge # NoKey /\ KeyFree(work[w].purge)
    BY DEF RegInv, Purge
<1> DEFINE r == [work[w] EXCEPT !.purge = NoKey]
<1>1. /\ Set(w, r) /\ subs' = subs
      /\ index' = [j \in DOMAIN index \ {work[w].purge} |-> index[j]]
    BY DEF Purge
<1>2. work[w] \in CallState
    BY <1>0, CallParts
<1>4. /\ r \in CallState /\ r.conn = work[w].conn /\ r.touched = work[w].touched
      /\ r.ids = work[w].ids /\ r.unfile = work[w].unfile
      /\ r.locked = work[w].locked /\ r.op = work[w].op /\ r.file = work[w].file
      /\ r.new = work[w].new /\ r.sub = work[w].sub
    BY <1>2 DEF CallState
<1> HIDE DEF r
<1>5. Unfiling(w)
    BY <1>0 DEF Unfiling
<1>6. PICK k : k = work[w].purge
    OBVIOUS
<1>7. index' \in [DOMAIN index' -> SUBSET Pairs]
    BY <1>0, <1>1 DEF RegTypeOK
<1>8. \A j : j # k => Filed(j)' = Filed(j)
    BY <1>1, <1>6 DEF Filed
<1>9. Filed(k)' = {}
    BY <1>1, <1>6 DEF Filed
<1> QED
    BY <1>0, <1>1, <1>4, <1>5, <1>6, <1>7, <1>8, <1>9, UnfileParts

\* The guard of the connection is dropped.
LEMMA UnlockInv ==
    ASSUME RegInv, NEW w \in Workers, Unlock(w)
    PROVE  RegInv'
<1>0. RegTypeOK /\ Mutating(w) /\ ~Unfiling(w)
    BY DEF RegInv, Unlock
<1> DEFINE r == [work[w] EXCEPT !.locked = FALSE]
<1>1. Set(w, r) /\ UNCHANGED <<subs, index>>
    BY DEF Unlock
<1>2. work[w] \in CallState /\ Removing(w) /\ Replacing(w) /\ Filing(w)
    BY <1>0, CallParts
<1>4. /\ r \in CallState /\ r.conn = work[w].conn /\ r.touched = work[w].touched
      /\ r.ids = work[w].ids /\ r.unfile = work[w].unfile /\ r.purge = work[w].purge
      /\ r.locked = FALSE /\ r.op = work[w].op /\ r.file = work[w].file
      /\ r.new = work[w].new /\ r.sub = work[w].sub
    BY <1>2 DEF CallState
<1> HIDE DEF r
<1>5. work'[w] = r
    BY <1>0, <1>1 DEF Set, RegTypeOK
<1>6. Mutating(w)' /\ ~Fanning(w)'
    BY <1>4, <1>5 DEF Mutating, Fanning, CallState
<1>7. Removing(w)' /\ Replacing(w)'
    BY <1>0, <1>1, <1>2, <1>4, <1>5 DEF Removing, Replacing, Unfiling
<1>8. Filing(w)'
    BY <1>1, <1>2, <1>4, <1>5 DEF Filing, Keys
<1>9. CallOK(w)' /\ Reading(w)'
    BY <1>6, <1>7, <1>8 DEF CallOK, Reading
<1>10. \A u \in Workers : u # w /\ Mutating(u) /\ work[u].conn = work'[w].conn
                             => work[u].touched \cap work'[w].touched = {}
    BY <1>0, <1>4, <1>5 DEF RegInv, CallsApart
<1> QED
    BY <1>1, <1>4, <1>5, <1>6, <1>9, <1>10, LocalStep

\* A call returns, or a fan-out delivers: the worker is idle again.
LEMMA IdleInv ==
    ASSUME RegInv, NEW w \in Workers, Return(w) \/ Deliver(w)
    PROVE  RegInv'
<1>0. RegTypeOK
    BY DEF RegInv
<1>1. Set(w, Idle) /\ UNCHANGED <<subs, index>>
    BY DEF Return, Deliver
<1>2. Mutating(w) => work[w].unfile = {}
    BY <1>0, WorkShape DEF Return, Deliver, FannedOut, Unfiling
<1>3. work'[w] = Idle
    BY <1>0, <1>1 DEF Set, RegTypeOK
<1>4. ~Mutating(w)' /\ ~Fanning(w)'
    BY <1>3 DEF Mutating, Fanning, Idle
<1>5. CallOK(w)' /\ Reading(w)'
    BY <1>4 DEF CallOK, Reading
<1> QED
    BY <1>1, <1>2, <1>4, <1>5, LocalStep

\* The new entry goes into subs: it has the place to itself.
LEMMA InsertEntryInv ==
    ASSUME RegInv, NEW w \in Workers, InsertEntry(w)
    PROVE  RegInv'
<1>0. RegTypeOK /\ Mutating(w) /\ work[w].new # NoEntry /\ work[w].ids = {} /\ ~work[w].locked
    BY DEF RegInv, InsertEntry
<1> DEFINE c == work[w].conn
           s == work[w].sub
           n == work[w].new
           todo == IndexKeys(n.community, n.filters, n.room)
           r == [work[w] EXCEPT !.new = NoEntry, !.file = todo]
<1>1. Set(w, r) /\ index' = index /\ subs' = [subs EXCEPT ![c][s] = n]
    BY DEF InsertEntry
<1>2. /\ c \in Conns /\ work[w].touched \subseteq SubIds /\ n \in Entry
      /\ work[w] \in CallState /\ Removing(w) /\ Replacing(w) /\ Filing(w)
    BY <1>0, CallParts
<1>3. work[w].op = "register" /\ s \in work[w].touched /\ s \in SubIds
    BY <1>0, <1>2 DEF Replacing
<1>4. work[w].unfile = {} /\ work[w].purge = NoKey
    BY <1>0, <1>2, <1>3 DEF Removing, Unfiling
<1>5. todo \subseteq IndexKeySet
    BY <1>2, EntryParts
<1> HIDE DEF todo
<1>7. /\ r \in CallState /\ r.conn = work[w].conn /\ r.touched = work[w].touched
      /\ r.ids = {} /\ r.unfile = {} /\ r.locked = work[w].locked
      /\ r.op = "register" /\ r.file = todo /\ r.purge = NoKey
      /\ r.new = NoEntry /\ r.sub = s
    BY <1>0, <1>2, <1>3, <1>4, <1>5 DEF CallState
<1> HIDE DEF r
<1>8. work'[w] = r /\ \A v \in Workers : v # w => work'[v] = work[v]
    BY <1>0, <1>1 DEF Set, RegTypeOK
<1>9. subs' \in [Conns -> [SubIds -> Entry \cup {NoEntry}]]
    BY <1>0, <1>1, <1>2, <1>3 DEF RegTypeOK
<1>10. /\ subs'[c][s] = n
       /\ \A d \in Conns, t \in SubIds : d # c \/ t # s => subs'[d][t] = subs[d][t]
    BY <1>0, <1>1, <1>2, <1>3 DEF RegTypeOK
<1>11. Removing(w)' /\ Replacing(w)'
    BY <1>7, <1>8 DEF Removing, Replacing, Unfiling
<1>12. Filing(w)'
  <2>1. Keys(work[w].conn, work[w].sub)' = IndexKeys(n.community, n.filters, n.room)
      BY <1>7, <1>8, <1>10 DEF Keys
  <2> QED
      BY <1>0, <1>3, <1>7, <1>8, <1>10, <2>1 DEF Filing, todo
<1>14. ASSUME NEW k, NEW x \in Filed(k)' PROVE Owned(x, k)'
  <2>1. x \in Filed(k) /\ x \in Pairs
      BY <1>0, <1>1 DEF Filed, RegTypeOK
  <2>2. x[1] \in Conns /\ x[2] \in SubIds
      BY <2>1 DEF Pairs
  <2>3. Owned(x, k)
      BY <2>1, IndexedIsOwned DEF RegInv
  <2>5. CASE x[1] # c \/ x[2] # s
    <3>1. subs'[x[1]][x[2]] = subs[x[1]][x[2]]
        BY <1>10, <2>2, <2>5
    <3> QED
        BY <1>4, <1>8, <2>3, <3>1, OwnedKept
  <2>6. CASE x[1] = c /\ x[2] = s
    <3>0. subs[c][s] = NoEntry
        BY <1>0, <1>2 DEF Replacing
    <3>1. PICK v \in Workers : /\ Mutating(v) /\ work[v].conn = x[1]
                               /\ <<x[2], k>> \in work[v].unfile
        BY <2>3, <2>6, <3>0 DEF Owned
    <3>2. v # w
        BY <1>4, <3>1
    <3>3. Mutating(v)' /\ work'[v] = work[v]
        BY <1>8, <3>1, <3>2 DEF Mutating
    <3> QED
        BY <3>1, <3>3 DEF Owned
  <2> QED
      BY <2>5, <2>6
<1>15. \A j : Filed(j)' = Filed(j)
    BY <1>1 DEF Filed
<1>16. index' \in [DOMAIN index' -> SUBSET Pairs]
    BY <1>0, <1>1 DEF RegTypeOK
<1>17. \A d \in Conns, t \in SubIds : subs'[d][t] # subs[d][t] => d = work[w].conn /\ t \in work[w].touched
    BY <1>3, <1>10
<1> HIDE DEF c, s, n
<1> QED
    BY <1>0, <1>1, <1>7, <1>9, <1>11, <1>12, <1>14, <1>15, <1>16, <1>17, MutateParts

\* The subscription is pushed to the entry of one of its keys.
LEMMA FileInv ==
    ASSUME RegInv, NEW w \in Workers, NEW k, File(w, k)
    PROVE  RegInv'
<1>0. RegTypeOK /\ Mutating(w) /\ k \in work[w].file /\ KeyFree(k)
    BY DEF RegInv, File
<1> DEFINE c == work[w].conn
           s == work[w].sub
           r == [work[w] EXCEPT !.file = @ \ {k}]
<1>1. /\ Set(w, r) /\ subs' = subs
      /\ index' = [j \in DOMAIN index \cup {k} |-> IF j = k THEN Filed(k) \cup {<<c, s>>} ELSE index[j]]
    BY DEF File
<1>2. /\ c \in Conns /\ work[w].touched \subseteq SubIds
      /\ work[w] \in CallState /\ Removing(w) /\ Replacing(w) /\ Filing(w)
    BY <1>0, CallParts
<1>3. s \in SubIds /\ subs[c][s] # NoEntry /\ k \in Keys(c, s)
    BY <1>0, <1>2 DEF Filing
<1>7. /\ r \in CallState /\ r.conn = work[w].conn /\ r.touched = work[w].touched
      /\ r.ids = work[w].ids /\ r.unfile = work[w].unfile /\ r.locked = work[w].locked
      /\ r.op = work[w].op /\ r.file = work[w].file \ {k} /\ r.purge = work[w].purge
      /\ r.new = work[w].new /\ r.sub = work[w].sub
    BY <1>2 DEF CallState
<1> HIDE DEF r
<1>8. work'[w] = r /\ \A v \in Workers : v # w => work'[v] = work[v]
    BY <1>0, <1>1 DEF Set, RegTypeOK
<1>9. Removing(w)'
    BY <1>1, <1>2, <1>7, <1>8 DEF Removing, Unfiling
<1>10. Replacing(w)'
    BY <1>0, <1>1, <1>2, <1>7, <1>8 DEF Replacing
<1>11. Filing(w)'
    BY <1>0, <1>1, <1>2, <1>7, <1>8 DEF Filing, Keys
<1>12. /\ \A j : j # k => Filed(j)' = Filed(j)
       /\ Filed(k)' = Filed(k) \cup {<<c, s>>}
    BY <1>1 DEF Filed
<1>13. index' \in [DOMAIN index' -> SUBSET Pairs]
  <2>1. <<c, s>> \in Pairs
      BY <1>2, <1>3 DEF Pairs
  <2>2. Filed(k) \in SUBSET Pairs
      BY <1>0 DEF Filed, RegTypeOK
  <2> HIDE DEF c, s
  <2> QED
      BY <1>0, <1>1, <2>1, <2>2 DEF RegTypeOK
<1>14. ASSUME NEW j, NEW x \in Filed(j)' PROVE Owned(x, j)'
  <2>1. CASE x \in Filed(j)
    <3>1. Owned(x, j)
        BY <2>1, IndexedIsOwned DEF RegInv
    <3>2. Mutating(w)'
        BY <1>7, <1>8 DEF Mutating, CallState
    <3> QED
        BY <1>1, <1>7, <1>8, <3>1, <3>2, OwnedKept
  <2>2. CASE j = k /\ x = <<c, s>>
    <3>1. subs'[x[1]][x[2]] # NoEntry /\ j \in Keys(x[1], x[2])'
        BY <1>1, <1>3, <2>2 DEF Keys
    <3> QED
        BY <3>1 DEF Owned
  <2> QED
      BY <1>12, <1>14, <2>1, <2>2
<1>15. subs' \in [Conns -> [SubIds -> Entry \cup {NoEntry}]]
    BY <1>0, <1>1 DEF RegTypeOK
<1> HIDE DEF c, s
<1> QED
    BY <1>0, <1>1, <1>7, <1>9, <1>10, <1>11, <1>12, <1>13, <1>14, <1>15, MutateParts
-----------------------------------------------------------------------------
(* Steps of fan-outs, and the invariant. *)

\* What is known of a fan-out that is about to take a step.
LEMMA FanOutParts ==
    ASSUME RegInv, NEW w \in Workers, Fanning(w)
    PROVE  /\ work[w] \in FanOutState /\ ~Mutating(w) /\ Reading(w)
           /\ work[w].community \in Communities /\ work[w].event \in Event
           /\ work[w].lookup \subseteq IndexKeySet /\ work[w].reading \in IndexKeySet \cup {NoKey}
           /\ work[w].cands \subseteq Pairs /\ work[w].found \subseteq Pairs
<1>1. work[w] \in FanOutState /\ ~Mutating(w) /\ Reading(w)
    BY WorkShape DEF RegInv
<1>2. Events \subseteq Event
    BY RegistryAssumption DEF RegistryAssumption
<1> QED
    BY <1>1, <1>2 DEF FanOutState

\* A step of a fan-out.
LEMMA FanOutLocal ==
    ASSUME RegInv, NEW w \in Workers, Fanning(w), NEW r \in FanOutState, Set(w, r),
           UNCHANGED <<subs, index>>,
           r.community = work[w].community, r.event = work[w].event, r.lookup \subseteq work[w].lookup,
           r.cands # {} => r.reading \in LookupKeys(r.community, r.event) /\ r.cands \subseteq Filed(r.reading)
    PROVE  RegInv'
<1>1. work'[w] = r
    BY DEF Set, RegInv, RegTypeOK
<1>2. ~Mutating(w)' /\ ~Mutating(w) /\ Reading(w)
    BY <1>1, FanOutParts DEF Mutating, FanOutState
<1>3. Filed(r.reading)' = Filed(r.reading)
    BY DEF Filed
<1>4. Filed(work[w].reading)' = Filed(r.reading)
    BY <1>1 DEF Filed
<1>5. Reading(w)'
    BY <1>1, <1>2, <1>4 DEF Reading
<1>6. CallOK(w)'
    BY <1>2 DEF CallOK
<1> QED
    BY <1>2, <1>5, <1>6, LocalStep

\* The entry of a key is read.
LEMMA ReadKeyInv ==
    ASSUME RegInv, NEW w \in Workers, NEW k, ReadKey(w, k)
    PROVE  RegInv'
<1>0. Fanning(w) /\ k \in work[w].lookup
    BY DEF ReadKey
<1> DEFINE q == IF Filed(k) = {} THEN NoKey ELSE k
           cs == Filed(k)
           r == [work[w] EXCEPT !.lookup = @ \ {k}, !.reading = q, !.cands = cs]
<1>1. Set(w, r) /\ UNCHANGED <<subs, index>>
    BY DEF ReadKey
<1>2. work[w] \in FanOutState /\ Reading(w) /\ k \in IndexKeySet
    BY <1>0, FanOutParts
<1>3. cs \in SUBSET Pairs /\ q \in IndexKeySet \cup {NoKey} /\ (cs # {} => q = k)
    BY <1>2 DEF Filed, RegInv, RegTypeOK
<1>4. k \in LookupKeys(work[w].community, work[w].event)
    BY <1>0, <1>2 DEF Reading
<1>5. cs = Filed(k)
    OBVIOUS
<1> HIDE DEF q, cs
<1>6. /\ r \in FanOutState /\ r.community = work[w].community /\ r.event = work[w].event
      /\ r.lookup = work[w].lookup \ {k} /\ r.reading = q /\ r.cands = cs
    BY <1>2, <1>3 DEF FanOutState
<1> HIDE DEF r
<1> QED
    BY <1>0, <1>1, <1>3, <1>4, <1>5, <1>6, FanOutLocal

\* A candidate is matched.
LEMMA PushMatchInv ==
    ASSUME RegInv, NEW w \in Workers, NEW x, PushMatch(w, x)
    PROVE  RegInv'
<1>0. Fanning(w) /\ x \in work[w].cands
    BY DEF PushMatch
<1> DEFINE hit  == subs[x[1]][x[2]] # NoEntry /\ FiltersMatch(subs[x[1]][x[2]].filters, work[w].event)
           left == work[w].cands \ {x}
           q == IF left = {} THEN NoKey ELSE work[w].reading
           fs == IF hit THEN work[w].found \cup {x} ELSE work[w].found
           r == [work[w] EXCEPT !.cands = left, !.reading = q, !.found = fs]
<1>1. Set(w, r) /\ UNCHANGED <<subs, index>>
    BY DEF PushMatch
<1>2. /\ work[w] \in FanOutState /\ Reading(w) /\ work[w].reading \in IndexKeySet \cup {NoKey}
      /\ work[w].cands \subseteq Pairs /\ work[w].found \subseteq Pairs
    BY <1>0, FanOutParts
<1>3. /\ left \in SUBSET Pairs /\ fs \in SUBSET Pairs /\ q \in IndexKeySet \cup {NoKey}
      /\ left # {} => q = work[w].reading
      /\ left \subseteq work[w].cands
    BY <1>0, <1>2
<1> HIDE DEF left, q, fs
<1>4. /\ r \in FanOutState /\ r.community = work[w].community /\ r.event = work[w].event
      /\ r.lookup = work[w].lookup /\ r.reading = q /\ r.cands = left
    BY <1>2, <1>3 DEF FanOutState
<1> HIDE DEF r
<1>5. /\ work[w].reading \in LookupKeys(work[w].community, work[w].event)
      /\ work[w].cands \subseteq Filed(work[w].reading)
    BY <1>0, <1>2 DEF Reading
<1> QED
    BY <1>0, <1>1, <1>3, <1>4, <1>5, FanOutLocal

\* The invariant holds at the start.
LEMMA RegInitInv == RegInit => RegInv
<1> SUFFICES ASSUME RegInit PROVE RegInv
    OBVIOUS
<1>1. RegTypeOK
  <2>1. subs \in [Conns -> [SubIds -> Entry \cup {NoEntry}]]
      BY DEF RegInit
  <2>2. index \in [DOMAIN index -> SUBSET Pairs] /\ DOMAIN index = {}
      BY DEF RegInit
  <2>3. work \in [Workers -> CallState \cup FanOutState \cup {Idle}]
      BY DEF RegInit
  <2> QED
      BY <2>1, <2>2, <2>3 DEF RegTypeOK
<1>2. \A w \in Workers : ~Mutating(w) /\ ~Fanning(w)
    BY <1>1, WorkShape DEF RegInit
<1>3. CallsApart /\ \A w \in Workers : CallOK(w) /\ Reading(w)
    BY <1>2 DEF CallsApart, CallOK, Reading
<1>4. IndexedIsRegistered
    BY DEF RegInit, IndexedIsRegistered
<1> QED
    BY <1>1, <1>3, <1>4 DEF RegInv

\* Every step of the registry preserves the invariant.
LEMMA RegStepInv ==
    ASSUME NoOverlap, RegInv, [RegNext]_regVars
    PROVE  RegInv'
<1>1. CASE UNCHANGED regVars
  <2> USE <1>1 DEF regVars
  <2>1. RegTypeOK' /\ CallsApart'
      BY DEF RegInv, RegTypeOK, CallsApart, Mutating
  <2>2. ASSUME NEW v \in Workers PROVE CallOK(v)' /\ Reading(v)'
    <3>1. CallOK(v) /\ Reading(v)
        BY DEF RegInv
    <3> QED
        BY <3>1, OtherCalls, OtherReads DEF Filed
  <2>3. IndexedIsRegistered'
      BY DEF RegInv, IndexedIsRegistered, Mutating, Keys
  <2> QED
      BY <2>1, <2>2, <2>3 DEF RegInv
<1>2. ASSUME NEW w \in Workers, NewCall(w) PROVE RegInv'
    BY <1>2, NewCallInv, RemoveConnectionInv, FanOutCallInv DEF NewCall
<1>3. ASSUME NEW w \in Workers, MutateStep(w) PROVE RegInv'
    BY <1>3, TakeEntryInv, UnfileInv, PurgeInv, UnlockInv, InsertEntryInv, FileInv, IdleInv DEF MutateStep
<1>4. ASSUME NEW w \in Workers, FanOutStep(w) PROVE RegInv'
    BY <1>4, ReadKeyInv, PushMatchInv, IdleInv DEF FanOutStep
<1> QED
    BY <1>1, <1>2, <1>3, <1>4 DEF RegNext

\* A candidate of a fan-out that is registered has the scope of the event.
LEMMA CandsInScope ==
    ASSUME RegInv, NEW w \in Workers, Fanning(w), NEW x \in work[w].cands,
           subs[x[1]][x[2]] # NoEntry
    PROVE  /\ InScope(subs[x[1]][x[2]], work[w].community, work[w].event)
           /\ work[w].reading \in Keys(x[1], x[2])
<1>0. RegTypeOK
    BY DEF RegInv
<1>1. /\ work[w].community \in Communities /\ work[w].event \in Event /\ Reading(w)
      /\ x \in Pairs
    BY FanOutParts
<1>2. PICK k : k = work[w].reading
    OBVIOUS
<1>3. k \in LookupKeys(work[w].community, work[w].event) /\ x \in Filed(k)
    BY <1>1, <1>2 DEF Reading
<1>4. Owned(x, k)
    BY <1>3, IndexedIsOwned DEF RegInv
<1>5. k \in Keys(x[1], x[2])
  <2> SUFFICES ASSUME NEW v \in Workers, Mutating(v), work[v].conn = x[1],
                      <<x[2], k>> \in work[v].unfile
               PROVE  FALSE
      BY <1>4 DEF Owned
  <2>1. Removing(v)
      BY CallParts
  <2> QED
      BY <2>1 DEF Removing
<1>6. x[1] \in Conns /\ x[2] \in SubIds
    BY <1>1 DEF Pairs
<1>7. subs[x[1]][x[2]] \in Entry
    BY <1>0, <1>6, SubsTyped
<1> DEFINE entry == subs[x[1]][x[2]]
<1>8. /\ entry.filters \in SUBSET Filter /\ entry.community \in Communities /\ entry.room \in Scopes
    BY <1>7, EntryParts
<1>9. k \in IndexKeys(entry.community, entry.filters, entry.room)
    BY <1>5 DEF Keys
<1> HIDE DEF entry
<1>10. entry.community = work[w].community /\ entry.room = work[w].event.room
    BY <1>1, <1>3, <1>8, <1>9, IndexScoped
<1> QED
    BY <1>2, <1>5, <1>10 DEF InScope, entry

\* With calls of one subscription apart, the index and subs stay in agreement
\* whatever the threads do.
THEOREM RegInvHolds ==
    ASSUME NoOverlap
    PROVE  RegSpec => []RegInv
<1>1. RegInit => RegInv
    BY RegInitInv
<1>2. RegInv /\ [RegNext]_regVars => RegInv'
    BY RegStepInv
<1> QED
    BY <1>1, <1>2, PTL DEF RegSpec

\* Nothing stays behind in an index: with any number of threads, connections
\* and events, what remove_from_index has yet to take out is all that is filed
\* without being registered.
THEOREM IndexHasNoLeftovers ==
    ASSUME NoOverlap
    PROVE  RegSpec => []IndexedIsRegistered
<1>1. RegInv => IndexedIsRegistered
    BY DEF RegInv
<1> QED
    BY <1>1, RegInvHolds, PTL

\* What push_match accepts has the scope of the event, although it compares
\* filters only and fan_out_scoped reads subs after the index: the guard of the
\* index entry holds back whoever would unfile a candidate.
THEOREM ScopingHolds ==
    ASSUME NoOverlap
    PROVE  RegSpec => []ScopingInvariant
<1>1. RegInv => ScopingInvariant
    BY CandsInScope DEF ScopingInvariant
<1> QED
    BY <1>1, RegInvHolds, PTL
-----------------------------------------------------------------------------
(* One thread.                                                             *)
(*                                                                         *)
(* With more than one, index.remove may take out a key another call has    *)
(* filed under since it was seen empty, and a fan-out reads subs and the   *)
(* indexes at different moments; with one, every call runs to its end, and *)
(* what it leaves and what it finds are exact.                             *)

Alone == \A v, w \in Workers : v = w

\* What a registered subscription is filed under, with one thread.
LEMMA FiledOrFiling ==
    ASSUME Alone, RegisteredIsIndexed, NEW w \in Workers, NEW x \in Pairs,
           subs[x[1]][x[2]] # NoEntry, NEW k \in Keys(x[1], x[2])
    PROVE  \/ x \in Filed(k)
           \/ /\ Mutating(w) /\ work[w].conn = x[1] /\ work[w].sub = x[2]
              /\ k \in work[w].file
BY DEF Alone, RegisteredIsIndexed, Indexed

\* The invariant after a step of a call that changes the registry, or one that
\* leaves the worker idle.
LEMMA CallLeaves ==
    ASSUME Alone, RegInv', NEW w \in Workers, ~Fanning(w)',
           Mutating(w)' /\ work'[w].purge # NoKey => \A k : k = work'[w].purge => Filed(k)' = {},
           \A x \in Pairs : \A k : subs'[x[1]][x[2]] # NoEntry /\ k \in Keys(x[1], x[2])' =>
               \/ x \in Filed(k)'
               \/ /\ Mutating(w)' /\ work'[w].conn = x[1] /\ work'[w].sub = x[2]
                  /\ k \in work'[w].file
    PROVE  SingleInv'
<1>1. PurgeIsEmpty'
  <2> SUFFICES ASSUME NEW v \in Workers, Mutating(v)', work'[v].purge # NoKey
               PROVE  Filed(work[v].purge)' = {}
      BY DEF PurgeIsEmpty
  <2>1. v = w
      BY DEF Alone
  <2>2. \A k : k = work'[v].purge => Filed(k)' = {}
      BY <2>1
  <2> QED
      BY <2>2 DEF Filed
<1>2. RegisteredIsIndexed'
  <2> SUFFICES ASSUME NEW x \in Pairs, subs'[x[1]][x[2]] # NoEntry, NEW k \in Keys(x[1], x[2])'
               PROVE  \/ x \in Filed(k)'
                      \/ \E v \in Workers : /\ Mutating(v)'
                                            /\ work'[v].conn = x[1] /\ work'[v].sub = x[2]
                                            /\ k \in work'[v].file
      BY DEF RegisteredIsIndexed, Indexed
  <2> QED
      OBVIOUS
<1>3. \A v \in Workers : Finding(v)'
    BY DEF Alone, Finding
<1> QED
    BY <1>1, <1>2, <1>3 DEF SingleInv

\* What is kept when neither subs nor index changes and the call is done with
\* filing what it has to file.
LEMMA StillIndexed ==
    ASSUME Alone, RegisteredIsIndexed, NEW w \in Workers, UNCHANGED <<subs, index>>,
           Mutating(w) /\ work[w].file # {} =>
               /\ Mutating(w)' /\ work'[w].conn = work[w].conn /\ work'[w].sub = work[w].sub
               /\ work'[w].file = work[w].file,
           NEW x \in Pairs, NEW k, subs'[x[1]][x[2]] # NoEntry, k \in Keys(x[1], x[2])'
    PROVE  \/ x \in Filed(k)'
           \/ /\ Mutating(w)' /\ work'[w].conn = x[1] /\ work'[w].sub = x[2]
              /\ k \in work'[w].file
<1>1. subs[x[1]][x[2]] # NoEntry /\ k \in Keys(x[1], x[2])
    BY DEF Keys
<1>2. Filed(k)' = Filed(k)
    BY DEF Filed
<1> QED
    BY <1>1, <1>2, FiledOrFiling

\* A call begins.
LEMMA NewCallSingle ==
    ASSUME Alone, SingleInv, RegInv', NEW w \in Workers, NEW c \in Conns,
           \/ \E s \in SubIds : RemoveSubscription(w, c, s)
           \/ \E s \in SubIds, f \in Requests : RegisterScoped(w, c, s, f)
           \/ \E r \in Rooms : RemoveChannelSubscriptions(w, c, r)
    PROVE  SingleInv'
<1>0. RegTypeOK /\ RegisteredIsIndexed
    BY DEF SingleInv, RegInv
<1>1. work[w] = Idle /\ UNCHANGED <<subs, index>>
    BY DEF RemoveSubscription, RegisterScoped, RemoveChannelSubscriptions, MayCall
<1>2. \E r : Set(w, r) /\ r.op \in {"register", "remove", "evict"} /\ r.purge = NoKey
  <2> DEFINE r(o, ss, a, b, n) == [Call(o, c, ss) EXCEPT !.ids = a, !.sub = b, !.new = n]
             q(o, ss, a) == [Call(o, c, ss) EXCEPT !.ids = a]
  <2>1. /\ \A o, ss, a, b, n : r(o, ss, a, b, n).op = o /\ r(o, ss, a, b, n).purge = NoKey
        /\ \A o, ss, a : q(o, ss, a).op = o /\ q(o, ss, a).purge = NoKey
      BY DEF Call
  <2>2. \/ \E ss, a, b, n : Set(w, r("register", ss, a, b, n))
        \/ \E ss, a : Set(w, q("remove", ss, a)) \/ Set(w, q("evict", ss, a))
      BY Zenon DEF RemoveSubscription, RegisterScoped, RemoveChannelSubscriptions
  <2> HIDE DEF r, q
  <2> QED
      BY <2>1, <2>2
<1>3. PICK r : Set(w, r) /\ r.op \in {"register", "remove", "evict"} /\ r.purge = NoKey
    BY <1>2
<1>4. work'[w] = r
    BY <1>0, <1>3 DEF Set, RegTypeOK
<1>5. ~Fanning(w)' /\ work'[w].purge = NoKey /\ ~Mutating(w)
    BY <1>0, <1>1, <1>3, <1>4, WorkShape DEF Fanning
<1> QED
    BY <1>0, <1>1, <1>5, StillIndexed, CallLeaves

\* remove_connection: what is no longer registered need not be filed.
LEMMA RemoveConnectionSingle ==
    ASSUME Alone, SingleInv, RegInv', NEW w \in Workers, NEW c \in Conns, RemoveConnection(w, c)
    PROVE  SingleInv'
<1>0. RegTypeOK /\ RegisteredIsIndexed
    BY DEF SingleInv, RegInv
<1>1. /\ work[w] = Idle /\ index' = index
      /\ subs' = [subs EXCEPT ![c] = [s \in SubIds |-> NoEntry]]
    BY DEF RemoveConnection, MayCall
<1>2. \E r : Set(w, r) /\ r.op = "cleanup" /\ r.purge = NoKey
    BY DEF RemoveConnection, Call
<1>3. PICK r : Set(w, r) /\ r.op = "cleanup" /\ r.purge = NoKey
    BY <1>2
<1>4. work'[w] = r
    BY <1>0, <1>3 DEF Set, RegTypeOK
<1>5. ~Fanning(w)' /\ work'[w].purge = NoKey /\ ~Mutating(w)
    BY <1>0, <1>1, <1>3, <1>4, WorkShape DEF Fanning
<1>6. ASSUME NEW x \in Pairs, NEW k, subs'[x[1]][x[2]] # NoEntry, k \in Keys(x[1], x[2])'
      PROVE  x \in Filed(k)'
  <2>1. x[1] \in Conns /\ x[2] \in SubIds
      BY DEF Pairs
  <2>2. subs'[x[1]][x[2]] = subs[x[1]][x[2]]
      BY <1>0, <1>1, <1>6, <2>1 DEF RegTypeOK
  <2>3. k \in Keys(x[1], x[2]) /\ subs[x[1]][x[2]] # NoEntry
      BY <1>6, <2>2 DEF Keys
  <2>4. x \in Filed(k)
      BY <1>0, <1>5, <2>3, FiledOrFiling
  <2> QED
      BY <1>1, <2>4 DEF Filed
<1> QED
    BY <1>5, <1>6, CallLeaves

\* A subscription is taken out.
LEMMA TakeEntrySingle ==
    ASSUME Alone, SingleInv, RegInv', NEW w \in Workers, NEW s, TakeEntry(w, s)
    PROVE  SingleInv'
<1>0. RegInv /\ RegTypeOK /\ RegisteredIsIndexed /\ Mutating(w) /\ s \in work[w].ids /\ ~work[w].locked
    BY DEF SingleInv, RegInv, TakeEntry
<1>2. /\ work[w].conn \in Conns /\ s \in SubIds
      /\ work[w] \in CallState /\ Removing(w) /\ Filing(w)
    BY <1>0, CallParts
<1>4. work[w].purge = NoKey /\ work[w].file = {}
    BY <1>0, <1>2 DEF Removing, Filing, Unfiling
<1>5. \E r : Set(w, r) /\ r.op = work[w].op /\ r.purge = NoKey
  <2> DEFINE r(a, b, c) == [work[w] EXCEPT !.ids = a, !.locked = b, !.unfile = c]
  <2>1. \A a, b, c : r(a, b, c).op = work[w].op /\ r(a, b, c).purge = NoKey
      BY <1>2, <1>4 DEF CallState
  <2>2. \E a, b, c : Set(w, r(a, b, c))
      BY DEF TakeEntry
  <2> HIDE DEF r
  <2> QED
      BY <2>1, <2>2
<1>6. index' = index /\ subs' = [subs EXCEPT ![work[w].conn][s] = NoEntry]
    BY DEF TakeEntry
<1>7. ~Fanning(w)' /\ work'[w].purge = NoKey
    BY <1>0, <1>5 DEF Fanning, Mutating, Set, RegTypeOK
<1>8. ASSUME NEW x \in Pairs, NEW k, subs'[x[1]][x[2]] # NoEntry, k \in Keys(x[1], x[2])'
      PROVE  x \in Filed(k)'
  <2>1. x[1] \in Conns /\ x[2] \in SubIds
      BY DEF Pairs
  <2>2. subs'[x[1]][x[2]] = subs[x[1]][x[2]]
      BY <1>0, <1>2, <1>6, <1>8, <2>1 DEF RegTypeOK
  <2>3. k \in Keys(x[1], x[2]) /\ subs[x[1]][x[2]] # NoEntry
      BY <1>8, <2>2 DEF Keys
  <2>4. x \in Filed(k)
      BY <1>0, <1>4, <2>3, FiledOrFiling
  <2> QED
      BY <1>6, <2>4 DEF Filed
<1> QED
    BY <1>7, <1>8, CallLeaves

\* A pair is unfiled: it is no registered subscription's.
LEMMA UnfileSingle ==
    ASSUME Alone, SingleInv, RegInv', NEW w \in Workers, NEW s, NEW k, Unfile(w, s, k)
    PROVE  SingleInv'
<1>0. RegInv /\ RegTypeOK /\ RegisteredIsIndexed /\ Mutating(w) /\ <<s, k>> \in work[w].unfile
    BY DEF SingleInv, RegInv, Unfile
<1> DEFINE left == Filed(k) \ {<<work[w].conn, s>>}
           p == IF k \in DOMAIN index /\ left = {} THEN k ELSE NoKey
           r == [work[w] EXCEPT !.unfile = @ \ {<<s, k>>}, !.purge = p]
<1>1. /\ Set(w, r) /\ subs' = subs
      /\ index' = [j \in DOMAIN index |-> IF j = k THEN left ELSE index[j]]
    BY DEF Unfile
<1>2. work[w] \in CallState /\ Removing(w)
    BY <1>0, CallParts
<1>3. subs[work[w].conn][s] = NoEntry
    BY <1>0, <1>2 DEF Removing
<1>4. p # NoKey => p = k /\ Filed(k)' = {}
    BY <1>1 DEF Filed
<1>5. \A j : j # k => Filed(j)' = Filed(j)
    BY <1>1 DEF Filed
<1>6. Filed(k)' = left
    BY <1>1 DEF Filed
<1> HIDE DEF p
<1>7. /\ r.op = work[w].op /\ r.purge = p /\ r.conn = work[w].conn /\ r.sub = work[w].sub
      /\ r.file = work[w].file
    BY <1>2 DEF CallState
<1> HIDE DEF r
<1>8. work'[w] = r
    BY <1>0, <1>1 DEF Set, RegTypeOK
<1>9. ~Fanning(w)' /\ Mutating(w)'
    BY <1>0, <1>7, <1>8 DEF Fanning, Mutating
<1>10. ASSUME NEW x \in Pairs, NEW j, subs'[x[1]][x[2]] # NoEntry, j \in Keys(x[1], x[2])'
       PROVE  \/ x \in Filed(j)'
              \/ /\ Mutating(w)' /\ work'[w].conn = x[1] /\ work'[w].sub = x[2]
                 /\ j \in work'[w].file
  <2>1. subs[x[1]][x[2]] # NoEntry /\ j \in Keys(x[1], x[2])
      BY <1>1, <1>10 DEF Keys
  <2>2. \/ x \in Filed(j)
        \/ work[w].conn = x[1] /\ work[w].sub = x[2] /\ j \in work[w].file
      BY <1>0, <2>1, FiledOrFiling
  <2>3. x # <<work[w].conn, s>>
      BY <1>3, <2>1
  <2>4. x \in Filed(j) => x \in Filed(j)'
      BY <1>5, <1>6, <2>3
  <2> QED
      BY <1>7, <1>8, <1>9, <2>2, <2>4
<1> QED
    BY <1>4, <1>7, <1>8, <1>9, <1>10, CallLeaves

\* A key is removed: nothing was filed under it.
LEMMA PurgeSingle ==
    ASSUME Alone, SingleInv, RegInv', NEW w \in Workers, Purge(w)
    PROVE  SingleInv'
<1>0. /\ RegInv /\ RegTypeOK /\ RegisteredIsIndexed /\ PurgeIsEmpty
      /\ Mutating(w) /\ work[w].purge # NoKey
    BY DEF SingleInv, RegInv, Purge
<1> DEFINE r == [work[w] EXCEPT !.purge = NoKey]
<1>1. /\ Set(w, r) /\ subs' = subs
      /\ index' = [j \in DOMAIN index \ {work[w].purge} |-> index[j]]
    BY DEF Purge
<1>2. work[w] \in CallState
    BY <1>0, CallParts
<1>3. PICK k : k = work[w].purge
    OBVIOUS
<1>4. Filed(k) = {}
    BY <1>0, <1>3 DEF PurgeIsEmpty
<1>5. \A j : Filed(j)' = Filed(j)
  <2>1. \A j : j # k => Filed(j)' = Filed(j)
      BY <1>1, <1>3 DEF Filed
  <2>2. Filed(k)' = {}
      BY <1>1, <1>3 DEF Filed
  <2> QED
      BY <1>4, <2>1, <2>2
<1>7. /\ r.op = work[w].op /\ r.purge = NoKey /\ r.conn = work[w].conn /\ r.sub = work[w].sub
      /\ r.file = work[w].file
    BY <1>2 DEF CallState
<1> HIDE DEF r
<1>8. work'[w] = r
    BY <1>0, <1>1 DEF Set, RegTypeOK
<1>9. ~Fanning(w)' /\ Mutating(w)'
    BY <1>0, <1>7, <1>8 DEF Fanning, Mutating
<1>10. ASSUME NEW x \in Pairs, NEW j, subs'[x[1]][x[2]] # NoEntry, j \in Keys(x[1], x[2])'
       PROVE  \/ x \in Filed(j)'
              \/ /\ Mutating(w)' /\ work'[w].conn = x[1] /\ work'[w].sub = x[2]
                 /\ j \in work'[w].file
  <2>1. subs[x[1]][x[2]] # NoEntry /\ j \in Keys(x[1], x[2])
      BY <1>1, <1>10 DEF Keys
  <2>2. \/ x \in Filed(j)
        \/ work[w].conn = x[1] /\ work[w].sub = x[2] /\ j \in work[w].file
      BY <1>0, <2>1, FiledOrFiling
  <2> QED
      BY <1>5, <1>7, <1>8, <1>9, <2>2
<1> QED
    BY <1>7, <1>8, <1>9, <1>10, CallLeaves

\* The guard is dropped, or the call returns.
LEMMA UnlockSingle ==
    ASSUME Alone, SingleInv, RegInv', NEW w \in Workers, Unlock(w) \/ Return(w) \/ Deliver(w)
    PROVE  SingleInv'
<1>0. RegInv /\ RegTypeOK /\ RegisteredIsIndexed
    BY DEF SingleInv, RegInv
<1>1. CASE Unlock(w)
  <2> DEFINE r == [work[w] EXCEPT !.locked = FALSE]
  <2>1. Mutating(w) /\ ~Unfiling(w) /\ Set(w, r) /\ UNCHANGED <<subs, index>>
      BY <1>1 DEF Unlock
  <2>2. work[w] \in CallState
      BY <1>0, <2>1, CallParts
  <2>3. /\ r.op = work[w].op /\ r.purge = NoKey /\ r.conn = work[w].conn /\ r.sub = work[w].sub
        /\ r.file = work[w].file
      BY <2>1, <2>2 DEF CallState, Unfiling
  <2> HIDE DEF r
  <2>4. work'[w] = r
      BY <1>0, <2>1 DEF Set, RegTypeOK
  <2>5. ~Fanning(w)' /\ Mutating(w)'
      BY <2>1, <2>3, <2>4 DEF Fanning, Mutating
  <2> QED
      BY <1>0, <2>1, <2>3, <2>4, <2>5, StillIndexed, CallLeaves
<1>2. CASE Return(w) \/ Deliver(w)
  <2>1. Set(w, Idle) /\ UNCHANGED <<subs, index>>
      BY <1>2 DEF Return, Deliver
  <2>2. Mutating(w) => work[w].file = {}
      BY <1>0, <1>2, WorkShape DEF Return, Deliver, FannedOut
  <2>3. ~Fanning(w)' /\ ~Mutating(w)'
      BY <1>0, <2>1 DEF Set, RegTypeOK, Idle, Fanning, Mutating
  <2> QED
      BY <1>0, <2>1, <2>2, <2>3, StillIndexed, CallLeaves
<1> QED
    BY <1>1, <1>2

\* The inserted entry is to be filed under each of its keys.
LEMMA InsertEntrySingle ==
    ASSUME Alone, SingleInv, RegInv', NEW w \in Workers, InsertEntry(w)
    PROVE  SingleInv'
<1>0. /\ RegInv /\ RegTypeOK /\ RegisteredIsIndexed
      /\ Mutating(w) /\ work[w].new # NoEntry /\ work[w].ids = {} /\ ~work[w].locked
    BY DEF SingleInv, RegInv, InsertEntry
<1> DEFINE c == work[w].conn
           s == work[w].sub
           n == work[w].new
           todo == IndexKeys(n.community, n.filters, n.room)
           r == [work[w] EXCEPT !.new = NoEntry, !.file = todo]
<1>1. Set(w, r) /\ index' = index /\ subs' = [subs EXCEPT ![c][s] = n]
    BY DEF InsertEntry
<1>2. /\ c \in Conns /\ work[w].touched \subseteq SubIds
      /\ work[w] \in CallState /\ Removing(w) /\ Replacing(w)
    BY <1>0, CallParts
<1>3. work[w].op = "register" /\ s \in SubIds /\ work[w].file = {}
    BY <1>0, <1>2 DEF Replacing
<1>4. work[w].purge = NoKey
    BY <1>0, <1>2, <1>3 DEF Removing, Unfiling
<1> HIDE DEF todo
<1>7. r.conn = c /\ r.op = "register" /\ r.file = todo /\ r.purge = NoKey /\ r.sub = s
    BY <1>2, <1>3, <1>4 DEF CallState
<1> HIDE DEF r
<1>8. work'[w] = r
    BY <1>0, <1>1 DEF Set, RegTypeOK
<1>9. ~Fanning(w)' /\ Mutating(w)'
    BY <1>7, <1>8 DEF Fanning, Mutating
<1>10. /\ subs'[c][s] = n
       /\ \A d \in Conns, t \in SubIds : d # c \/ t # s => subs'[d][t] = subs[d][t]
    BY <1>0, <1>1, <1>2, <1>3 DEF RegTypeOK
<1>11. ASSUME NEW x \in Pairs, NEW k, subs'[x[1]][x[2]] # NoEntry, k \in Keys(x[1], x[2])'
       PROVE  \/ x \in Filed(k)'
              \/ /\ Mutating(w)' /\ work'[w].conn = x[1] /\ work'[w].sub = x[2]
                 /\ k \in work'[w].file
  <2>1. x[1] \in Conns /\ x[2] \in SubIds
      BY DEF Pairs
  <2>2. CASE x[1] = c /\ x[2] = s
    <3>1. k \in todo
        BY <1>10, <1>11, <2>2 DEF Keys, todo
    <3> QED
        BY <1>7, <1>8, <1>9, <2>2, <3>1
  <2>3. CASE x[1] # c \/ x[2] # s
    <3>1. subs[x[1]][x[2]] # NoEntry /\ k \in Keys(x[1], x[2])
        BY <1>10, <1>11, <2>1, <2>3 DEF Keys
    <3>2. x \in Filed(k)
        BY <1>0, <1>3, <3>1, FiledOrFiling
    <3> QED
        BY <1>1, <3>2 DEF Filed
  <2> QED
      BY <2>2, <2>3
<1> HIDE DEF c, s, n
<1> QED
    BY <1>7, <1>8, <1>9, <1>11, CallLeaves

\* The subscription is pushed to one of its keys.
LEMMA FileSingle ==
    ASSUME Alone, SingleInv, RegInv', NEW w \in Workers, NEW k, File(w, k)
    PROVE  SingleInv'
<1>0. RegInv /\ RegTypeOK /\ RegisteredIsIndexed /\ Mutating(w) /\ k \in work[w].file
    BY DEF SingleInv, RegInv, File
<1> DEFINE c == work[w].conn
           s == work[w].sub
           r == [work[w] EXCEPT !.file = @ \ {k}]
<1>1. /\ Set(w, r) /\ subs' = subs
      /\ index' = [j \in DOMAIN index \cup {k} |-> IF j = k THEN Filed(k) \cup {<<c, s>>} ELSE index[j]]
    BY DEF File
<1>2. work[w] \in CallState /\ Removing(w) /\ Filing(w)
    BY <1>0, CallParts
<1>3. work[w].purge = NoKey
    BY <1>0, <1>2 DEF Filing, Removing, Unfiling
<1>4. /\ \A j : j # k => Filed(j)' = Filed(j)
      /\ Filed(k)' = Filed(k) \cup {<<c, s>>}
    BY <1>1 DEF Filed
<1>7. /\ r.op = work[w].op /\ r.purge = NoKey /\ r.conn = c /\ r.sub = s
      /\ r.file = work[w].file \ {k}
    BY <1>2, <1>3 DEF CallState
<1> HIDE DEF r
<1>8. work'[w] = r
    BY <1>0, <1>1 DEF Set, RegTypeOK
<1>9. ~Fanning(w)' /\ Mutating(w)'
    BY <1>0, <1>7, <1>8 DEF Fanning, Mutating
<1>10. ASSUME NEW x \in Pairs, NEW j, subs'[x[1]][x[2]] # NoEntry, j \in Keys(x[1], x[2])'
       PROVE  \/ x \in Filed(j)'
              \/ /\ Mutating(w)' /\ work'[w].conn = x[1] /\ work'[w].sub = x[2]
                 /\ j \in work'[w].file
  <2>1. subs[x[1]][x[2]] # NoEntry /\ j \in Keys(x[1], x[2])
      BY <1>1, <1>10 DEF Keys
  <2>2. \/ x \in Filed(j)
        \/ c = x[1] /\ s = x[2] /\ j \in work[w].file
      BY <1>0, <2>1, FiledOrFiling
  <2>3. CASE x \in Filed(j)
      BY <1>4, <2>3
  <2>4. CASE c = x[1] /\ s = x[2] /\ j \in work[w].file
    <3>1. x = <<c, s>>
        BY <2>4 DEF Pairs
    <3> QED
        BY <1>4, <1>7, <1>8, <1>9, <2>4, <3>1
  <2> QED
      BY <2>2, <2>3, <2>4
<1> HIDE DEF c, s
<1> QED
    BY <1>7, <1>8, <1>9, <1>10, CallLeaves

\* The invariant after a step of a fan-out, with c and e its community and event.
LEMMA FanOutLeaves ==
    ASSUME Alone, SingleInv, RegInv', NEW w \in Workers, UNCHANGED <<subs, index>>,
           ~Mutating(w), NEW r \in FanOutState, Set(w, r),
           NEW c, NEW e, r.community = c, r.event = e,
           r.cands # {} => r.reading # NoKey,
           r.found \subseteq Matching(c, e),
           \A x \in Matching(c, e) : \/ x \in r.found \cup r.cands
                                     \/ Keys(x[1], x[2]) \cap r.lookup # {}
    PROVE  SingleInv'
<1>0. RegTypeOK /\ RegisteredIsIndexed
    BY DEF SingleInv, RegInv
<1>1. work'[w] = r
    BY <1>0 DEF Set, RegTypeOK
<1>2. ~Mutating(w)'
    BY <1>1 DEF Mutating, FanOutState
<1>3. PurgeIsEmpty'
    BY <1>2 DEF Alone, PurgeIsEmpty
<1>4. RegisteredIsIndexed'
  <2> SUFFICES ASSUME NEW x \in Pairs, subs'[x[1]][x[2]] # NoEntry, NEW k \in Keys(x[1], x[2])'
               PROVE  x \in Filed(k)'
      BY DEF RegisteredIsIndexed, Indexed
  <2>1. x \in Filed(k)' \/ Mutating(w)'
      BY <1>0, StillIndexed
  <2> QED
      BY <1>2, <2>1
<1>5. Matching(c, e)' = Matching(c, e) /\ \A d, s : Keys(d, s)' = Keys(d, s)
    BY DEF Matching, Keys
<1>6. Matching(work[w].community, work[w].event)' = Matching(c, e)
    BY <1>1, <1>5 DEF Matching
<1>7. Finding(w)'
    BY <1>1, <1>5, <1>6 DEF Finding
<1>8. \A v \in Workers : Finding(v)'
    BY <1>7 DEF Alone
<1> QED
    BY <1>3, <1>4, <1>8 DEF SingleInv

\* A fan-out begins: the keys it looks up reach every match.
LEMMA FanOutCallSingle ==
    ASSUME Alone, SingleInv, RegInv', NEW w \in Workers, NEW c \in Communities, NEW e \in Events,
           FanOutScoped(w, c, e)
    PROVE  SingleInv'
<1>0. RegTypeOK
    BY DEF SingleInv, RegInv
<1> DEFINE r == FanOutCall(c, e)
<1>1. e \in Event
    BY RegistryAssumption DEF RegistryAssumption
<1>2. /\ r \in FanOutState /\ r.community = c /\ r.event = e /\ r.lookup = LookupKeys(c, e)
      /\ r.cands = {} /\ r.found = {}
    BY <1>1, LookupTyped DEF FanOutCall, FanOutState
<1>3. Set(w, r) /\ UNCHANGED <<subs, index>> /\ work[w] = Idle
    BY DEF FanOutScoped
<1> HIDE DEF r
<1>4. ~Mutating(w)
    BY <1>0, <1>3, WorkShape
<1>5. ASSUME NEW x \in Matching(c, e) PROVE Keys(x[1], x[2]) \cap r.lookup # {}
  <2> DEFINE entry == subs[x[1]][x[2]]
  <2>1. x \in Pairs /\ entry # NoEntry /\ InScope(entry, c, e) /\ FiltersMatch(entry.filters, e)
      BY DEF Matching
  <2>2. x[1] \in Conns /\ x[2] \in SubIds
      BY <2>1 DEF Pairs
  <2>3. entry \in Entry
      BY <1>0, <2>1, <2>2, SubsTyped
  <2>4. entry.filters \in SUBSET Filter
      BY <2>3, EntryParts
  <2>5. entry.community = c /\ entry.room = e.room
      BY <2>1 DEF InScope
  <2>6. IndexKeys(c, entry.filters, e.room) \cap LookupKeys(c, e) # {}
      BY <1>1, <2>1, <2>4, IndexComplete
  <2> QED
      BY <1>2, <2>5, <2>6 DEF Keys
<1> QED
    BY <1>2, <1>3, <1>4, <1>5, FanOutLeaves

\* A key is read: whatever matches and has the key is a candidate now.
LEMMA ReadKeySingle ==
    ASSUME Alone, SingleInv, RegInv', NEW w \in Workers, NEW k, ReadKey(w, k)
    PROVE  SingleInv'
<1>0. RegInv /\ RegisteredIsIndexed /\ Fanning(w) /\ k \in work[w].lookup /\ Finding(w)
    BY DEF ReadKey, SingleInv
<1> DEFINE q == IF Filed(k) = {} THEN NoKey ELSE k
           cs == Filed(k)
           c == work[w].community
           e == work[w].event
           r == [work[w] EXCEPT !.lookup = @ \ {k}, !.reading = q, !.cands = cs]
<1>1. Set(w, r) /\ UNCHANGED <<subs, index>> /\ work[w].reading = NoKey
    BY DEF ReadKey
<1>2. work[w] \in FanOutState /\ ~Mutating(w) /\ k \in IndexKeySet
    BY <1>0, FanOutParts
<1>3. /\ cs \in SUBSET Pairs /\ q \in IndexKeySet \cup {NoKey}
      /\ cs # {} => q # NoKey
    BY <1>0, <1>2, RegistryAssumption DEF Filed, RegInv, RegTypeOK, RegistryAssumption
<1>4. work[w].cands = {}
    BY <1>0, <1>1 DEF Finding
<1>5. cs = Filed(k)
    OBVIOUS
<1> HIDE DEF q, cs
<1>6. /\ r \in FanOutState /\ r.community = c /\ r.event = e
      /\ r.lookup = work[w].lookup \ {k} /\ r.reading = q /\ r.cands = cs
      /\ r.found = work[w].found
    BY <1>2, <1>3 DEF FanOutState
<1> HIDE DEF r
<1>7. work[w].found \subseteq Matching(c, e)
    BY <1>0 DEF Finding
<1>8. ASSUME NEW x \in Matching(c, e)
      PROVE  x \in r.found \cup r.cands \/ Keys(x[1], x[2]) \cap r.lookup # {}
  <2>1. x \in work[w].found \/ Keys(x[1], x[2]) \cap work[w].lookup # {}
      BY <1>0, <1>4 DEF Finding
  <2>2. CASE x \in work[w].found
      BY <1>6, <2>2
  <2>3. CASE Keys(x[1], x[2]) \cap work[w].lookup # {}
    <3>1. PICK j : j \in Keys(x[1], x[2]) /\ j \in work[w].lookup
        BY <2>3
    <3>2. CASE j # k
        BY <1>6, <3>1, <3>2
    <3>3. CASE j = k
      <4>1. x \in Pairs /\ subs[x[1]][x[2]] # NoEntry
          BY DEF Matching
      <4>2. x \in Filed(k)
          BY <1>0, <1>2, <3>1, <3>3, <4>1, FiledOrFiling
      <4> QED
          BY <1>5, <1>6, <4>2
    <3> QED
        BY <3>2, <3>3
  <2> QED
      BY <2>1, <2>2, <2>3
<1> HIDE DEF c, e
<1> QED
    BY <1>1, <1>2, <1>3, <1>6, <1>7, <1>8, FanOutLeaves

\* A candidate is matched: it is found if and only if it is a match.
LEMMA PushMatchSingle ==
    ASSUME Alone, SingleInv, RegInv', NEW w \in Workers, NEW y, PushMatch(w, y)
    PROVE  SingleInv'
<1>0. RegInv /\ Fanning(w) /\ y \in work[w].cands /\ Finding(w)
    BY DEF PushMatch, SingleInv
<1> DEFINE c == work[w].community
           e == work[w].event
           hit  == subs[y[1]][y[2]] # NoEntry /\ FiltersMatch(subs[y[1]][y[2]].filters, e)
           left == work[w].cands \ {y}
           q == IF left = {} THEN NoKey ELSE work[w].reading
           fs == IF hit THEN work[w].found \cup {y} ELSE work[w].found
           r == [work[w] EXCEPT !.cands = left, !.reading = q, !.found = fs]
<1>1. Set(w, r) /\ UNCHANGED <<subs, index>>
    BY DEF PushMatch
<1>2. /\ work[w] \in FanOutState /\ ~Mutating(w) /\ work[w].reading \in IndexKeySet \cup {NoKey}
      /\ work[w].cands \subseteq Pairs /\ work[w].found \subseteq Pairs
    BY <1>0, FanOutParts
<1>3. y \in Pairs
    BY <1>0, <1>2
<1>4. hit <=> y \in Matching(c, e)
    BY <1>0, <1>3, CandsInScope DEF Matching
<1>5. /\ left \in SUBSET Pairs /\ fs \in SUBSET Pairs /\ q \in IndexKeySet \cup {NoKey}
      /\ left # {} => q = work[w].reading
    BY <1>2, <1>3
<1>6. fs = IF y \in Matching(c, e) THEN work[w].found \cup {y} ELSE work[w].found
    BY <1>4
<1>7. left = work[w].cands \ {y}
    OBVIOUS
<1> HIDE DEF left, q, fs, hit
<1>8. /\ r \in FanOutState /\ r.community = c /\ r.event = e
      /\ r.lookup = work[w].lookup /\ r.reading = q /\ r.cands = left /\ r.found = fs
    BY <1>2, <1>5 DEF FanOutState
<1> HIDE DEF r
<1>9. work[w].cands # {} => work[w].reading # NoKey
    BY <1>0 DEF Finding
<1>10. r.cands # {} => r.reading # NoKey
    BY <1>0, <1>5, <1>8, <1>9
<1>11. work[w].found \subseteq Matching(c, e)
    BY <1>0 DEF Finding
<1>12. r.found \subseteq Matching(c, e)
    BY <1>6, <1>8, <1>11
<1>13. ASSUME NEW x \in Matching(c, e)
       PROVE  x \in r.found \cup r.cands \/ Keys(x[1], x[2]) \cap r.lookup # {}
  <2>1. \/ x \in work[w].found \cup work[w].cands
        \/ Keys(x[1], x[2]) \cap work[w].lookup # {}
      BY <1>0 DEF Finding
  <2>2. x \in work[w].found \cup work[w].cands => x \in fs \cup left
      BY <1>6, <1>7
  <2> QED
      BY <1>8, <2>1, <2>2
<1> HIDE DEF c, e
<1> QED
    BY <1>1, <1>2, <1>8, <1>10, <1>12, <1>13, FanOutLeaves

\* The invariant holds at the start.
LEMMA SingleInitInv == RegInit => SingleInv
<1> SUFFICES ASSUME RegInit PROVE SingleInv
    OBVIOUS
<1>1. RegInv /\ RegTypeOK
    BY RegInitInv DEF RegInv
<1>2. \A w \in Workers : ~Mutating(w) /\ ~Fanning(w)
    BY <1>1, WorkShape DEF RegInit
<1>3. RegisteredIsIndexed
    BY DEF RegInit, RegisteredIsIndexed, Pairs
<1> QED
    BY <1>1, <1>2, <1>3 DEF SingleInv, PurgeIsEmpty, Finding

\* Every step of one thread preserves it.
LEMMA SingleStepInv ==
    ASSUME Alone, SingleInv, [RegNext]_regVars
    PROVE  SingleInv'
<1>0. NoOverlap
    BY DEF Alone, NoOverlap
<1>1. RegInv'
    BY <1>0, RegStepInv DEF SingleInv
<1>2. CASE UNCHANGED regVars
  <2> USE <1>2 DEF regVars
  <2>1. PurgeIsEmpty'
      BY DEF SingleInv, PurgeIsEmpty, Mutating, Filed
  <2>2. RegisteredIsIndexed'
      BY DEF SingleInv, RegisteredIsIndexed, Indexed, Mutating, Filed, Keys
  <2>3. \A v \in Workers : Finding(v)'
      BY DEF SingleInv, Finding, Fanning, Matching, Keys
  <2> QED
      BY <1>1, <2>1, <2>2, <2>3 DEF SingleInv
<1>3. ASSUME NEW w \in Workers, NewCall(w) PROVE SingleInv'
    BY <1>1, <1>3, NewCallSingle, RemoveConnectionSingle, FanOutCallSingle DEF NewCall
<1>4. ASSUME NEW w \in Workers, MutateStep(w) PROVE SingleInv'
    BY <1>1, <1>4, TakeEntrySingle, UnfileSingle, PurgeSingle, UnlockSingle, InsertEntrySingle,
       FileSingle DEF MutateStep
<1>5. ASSUME NEW w \in Workers, FanOutStep(w) PROVE SingleInv'
    BY <1>1, <1>5, ReadKeySingle, PushMatchSingle, UnlockSingle DEF FanOutStep
<1> QED
    BY <1>2, <1>3, <1>4, <1>5 DEF RegNext

\* With one thread, the indexes and what a fan-out has found stay exact.
THEOREM SingleInvHolds ==
    ASSUME Alone
    PROVE  RegSpec => []SingleInv
<1>1. RegInit => SingleInv
    BY SingleInitInv
<1>2. SingleInv /\ [RegNext]_regVars => SingleInv'
    BY SingleStepInv
<1> QED
    BY <1>1, <1>2, PTL DEF RegSpec

\* fan_out_scoped finds exactly the subscriptions a scan of subs would find,
\* after any sequence of registry calls.
THEOREM FanOutExact ==
    ASSUME Alone
    PROVE  RegSpec => []FanOutIsExact
<1>1. SingleInv => FanOutIsExact
  <2> SUFFICES ASSUME SingleInv, NEW w \in Workers, FannedOut(w)
               PROVE  work[w].found = Matching(work[w].community, work[w].event)
      BY DEF FanOutIsExact, Matching
  <2>1. Finding(w) /\ Fanning(w) /\ work[w].lookup = {} /\ work[w].cands = {}
      BY DEF SingleInv, FannedOut
  <2> QED
      BY <2>1 DEF Finding
<1> QED
    BY <1>1, SingleInvHolds, PTL
-----------------------------------------------------------------------------
(* Any number of threads: what goes missing from an index.                 *)

\* OnlyPurgeUnfiles of one step.
PurgeOnly ==
    \A x \in Pairs : \A k \in Unindexed(x)' :
        \/ k \in Unindexed(x)
        \/ \E w \in Workers : Purge(w) /\ work[w].purge = k

\* The call of w keeps, or carries out, what it has yet to file for x under k.
FilingKept(w, x, k) ==
    Mutating(w) /\ work[w].conn = x[1] /\ work[w].sub = x[2] /\ k \in work[w].file =>
        \/ x \in Filed(k)'
        \/ /\ Mutating(w)' /\ work'[w].conn = x[1] /\ work'[w].sub = x[2]
           /\ k \in work'[w].file

\* What is missing after a step that keeps a pair filed was missing before it.
LEMMA MissedBefore ==
    ASSUME NEW w \in Workers, \A v \in Workers : v # w => work'[v] = work[v],
           NEW x \in Pairs, NEW k \in Unindexed(x)',
           subs'[x[1]][x[2]] = subs[x[1]][x[2]],
           x \in Filed(k) => x \in Filed(k)', FilingKept(w, x, k)
    PROVE  k \in Unindexed(x)
<1>1. /\ subs'[x[1]][x[2]] # NoEntry /\ k \in Keys(x[1], x[2])' /\ ~Indexed(x, k)'
    BY DEF Unindexed
<1>2. subs[x[1]][x[2]] # NoEntry /\ k \in Keys(x[1], x[2])
    BY <1>1 DEF Keys
<1>3. x \notin Filed(k)'
    BY <1>1 DEF Indexed
<1>4. ASSUME NEW v \in Workers, Mutating(v), work[v].conn = x[1], work[v].sub = x[2],
             k \in work[v].file
      PROVE  FALSE
  <2>1. /\ Mutating(v)' /\ work'[v].conn = x[1] /\ work'[v].sub = x[2]
        /\ k \in work'[v].file
    <3>1. CASE v = w
        BY <1>3, <1>4, <3>1 DEF FilingKept
    <3>2. CASE v # w
        BY <1>4, <3>2 DEF Mutating
    <3> QED
        BY <3>1, <3>2
  <2> QED
      BY <1>1, <2>1 DEF Indexed
<1>5. ~Indexed(x, k)
    BY <1>3, <1>4 DEF Indexed
<1> QED
    BY <1>2, <1>5 DEF Unindexed

\* A step that leaves subs and the indexes alone, of a call that has nothing to
\* file or goes on filing it.
LEMMA QuietMisses ==
    ASSUME RegTypeOK, NEW w \in Workers, NEW r, Set(w, r), UNCHANGED <<subs, index>>,
           Mutating(w) /\ work[w].file # {} =>
               /\ r.op = work[w].op /\ r.conn = work[w].conn /\ r.sub = work[w].sub
               /\ r.file = work[w].file
    PROVE  PurgeOnly
<1>1. work'[w] = r /\ \A v \in Workers : v # w => work'[v] = work[v]
    BY DEF Set, RegTypeOK
<1>2. \A k : Filed(k)' = Filed(k)
    BY DEF Filed
<1>3. \A x \in Pairs : \A k : FilingKept(w, x, k)
    BY <1>1 DEF FilingKept, Mutating
<1>4. \A x \in Pairs : \A k \in Unindexed(x)' : k \in Unindexed(x)
    BY <1>1, <1>2, <1>3, MissedBefore
<1> QED
    BY <1>4 DEF PurgeOnly

\* A call begins, or a fan-out takes a step.
LEMMA ReadersMiss ==
    ASSUME RegInv, NEW w \in Workers,
           \/ \E c \in Conns, s \in SubIds : RemoveSubscription(w, c, s)
           \/ \E c \in Conns, s \in SubIds, f \in Requests : RegisterScoped(w, c, s, f)
           \/ \E c \in Conns, m \in Rooms : RemoveChannelSubscriptions(w, c, m)
           \/ \E c \in Communities, e \in Events : FanOutScoped(w, c, e)
           \/ FanOutStep(w)
    PROVE  PurgeOnly
<1>0. RegTypeOK
    BY DEF RegInv
<1>1. ~Mutating(w)
  <2>1. work[w] = Idle \/ Fanning(w)
      BY DEF RemoveSubscription, RegisterScoped, RemoveChannelSubscriptions, FanOutScoped,
             MayCall, FanOutStep
  <2> QED
      BY <1>0, <2>1, WorkShape
<1>2. UNCHANGED <<subs, index>>
    BY DEF RemoveSubscription, RegisterScoped, RemoveChannelSubscriptions, FanOutScoped,
           FanOutStep, ReadKey, PushMatch, Deliver
<1>3. PICK r : Set(w, r)
    BY DEF RemoveSubscription, RegisterScoped, RemoveChannelSubscriptions, FanOutScoped,
           FanOutStep, ReadKey, PushMatch, Deliver
<1> QED
    BY <1>0, <1>1, <1>2, <1>3, QuietMisses

\* A guard is dropped, or a call returns with everything filed.
LEMMA ReturnMisses ==
    ASSUME RegInv, NEW w \in Workers, Unlock(w) \/ Return(w)
    PROVE  PurgeOnly
<1>0. RegTypeOK /\ Mutating(w)
    BY DEF RegInv, Unlock, Return
<1>1. work[w] \in CallState
    BY <1>0, CallParts
<1>2. CASE Unlock(w)
  <2> DEFINE r == [work[w] EXCEPT !.locked = FALSE]
  <2>1. Set(w, r) /\ UNCHANGED <<subs, index>>
      BY <1>2 DEF Unlock
  <2>2. r.op = work[w].op /\ r.conn = work[w].conn /\ r.sub = work[w].sub /\ r.file = work[w].file
      BY <1>1 DEF CallState
  <2> HIDE DEF r
  <2> QED
      BY <1>0, <2>1, <2>2, QuietMisses
<1>3. CASE Return(w)
  <2>1. Set(w, Idle) /\ UNCHANGED <<subs, index>> /\ work[w].file = {}
      BY <1>3 DEF Return
  <2> QED
      BY <1>0, <2>1, QuietMisses
<1> QED
    BY <1>2, <1>3

\* Subscriptions leave subs: of what stays, nothing changes.
LEMMA RemovalMisses ==
    ASSUME RegInv, NEW w \in Workers,
           \/ \E c \in Conns : RemoveConnection(w, c)
           \/ \E s \in work[w].ids : TakeEntry(w, s)
    PROVE  PurgeOnly
<1>0. RegTypeOK
    BY DEF RegInv
<1>1. index' = index /\ \A v \in Workers : v # w => work'[v] = work[v]
    BY <1>0 DEF RemoveConnection, TakeEntry, Set, RegTypeOK
<1>2. \A x \in Pairs : subs'[x[1]][x[2]] \in {subs[x[1]][x[2]], NoEntry}
  <2> SUFFICES ASSUME NEW d \in Conns, NEW t \in SubIds
               PROVE  subs'[d][t] \in {subs[d][t], NoEntry}
      BY DEF Pairs
  <2>1. CASE \E c \in Conns : RemoveConnection(w, c)
      BY <1>0, <2>1 DEF RemoveConnection, RegTypeOK
  <2>2. CASE \E s \in work[w].ids : TakeEntry(w, s)
    <3>1. PICK s \in work[w].ids : TakeEntry(w, s)
        BY <2>2
    <3>2. Mutating(w) /\ subs' = [subs EXCEPT ![work[w].conn][s] = NoEntry]
        BY <3>1 DEF TakeEntry
    <3>3. work[w].conn \in Conns /\ s \in SubIds
        BY <3>1, <3>2, CallParts
    <3> QED
        BY <1>0, <3>2, <3>3 DEF RegTypeOK
  <2> QED
      BY <2>1, <2>2
<1>3. Mutating(w) => work[w].file = {}
  <2>1. CASE \E c \in Conns : RemoveConnection(w, c)
      BY <1>0, <2>1, WorkShape DEF RemoveConnection, MayCall
  <2>2. CASE \E s \in work[w].ids : TakeEntry(w, s)
      BY <2>2, CallParts DEF Filing
  <2> QED
      BY <2>1, <2>2
<1>4. ASSUME NEW x \in Pairs, NEW k \in Unindexed(x)' PROVE k \in Unindexed(x)
  <2>1. subs'[x[1]][x[2]] # NoEntry
      BY <1>4 DEF Unindexed
  <2>2. subs'[x[1]][x[2]] = subs[x[1]][x[2]]
      BY <1>2, <2>1
  <2>3. Filed(k)' = Filed(k)
      BY <1>1 DEF Filed
  <2>4. FilingKept(w, x, k)
      BY <1>3 DEF FilingKept
  <2> QED
      BY <1>1, <1>4, <2>2, <2>3, <2>4, MissedBefore
<1> QED
    BY <1>4 DEF PurgeOnly

\* remove_from_index takes out of one entry only the pair it was called for,
\* which has left subs.
LEMMA UnfileMisses ==
    ASSUME RegInv, NEW w \in Workers, NEW s, NEW k, Unfile(w, s, k)
    PROVE  PurgeOnly
<1>0. RegTypeOK /\ Mutating(w) /\ <<s, k>> \in work[w].unfile
    BY DEF RegInv, Unfile
<1>1. work[w] \in CallState /\ Removing(w)
    BY <1>0, CallParts
<1> DEFINE left == Filed(k) \ {<<work[w].conn, s>>}
           p == IF k \in DOMAIN index /\ left = {} THEN k ELSE NoKey
           r == [work[w] EXCEPT !.unfile = @ \ {<<s, k>>}, !.purge = p]
<1>2. /\ Set(w, r) /\ subs' = subs
      /\ index' = [j \in DOMAIN index |-> IF j = k THEN left ELSE index[j]]
    BY DEF Unfile
<1> HIDE DEF p
<1>3. /\ r.op = work[w].op /\ r.conn = work[w].conn /\ r.sub = work[w].sub
      /\ r.file = work[w].file
    BY <1>1 DEF CallState
<1> HIDE DEF r
<1>4. work'[w] = r /\ \A v \in Workers : v # w => work'[v] = work[v]
    BY <1>0, <1>2 DEF Set, RegTypeOK
<1>5. /\ \A j : j # k => Filed(j)' = Filed(j)
      /\ left \subseteq Filed(k)'
    BY <1>2 DEF Filed
<1>6. subs[work[w].conn][s] = NoEntry
    BY <1>0, <1>1 DEF Removing
<1>7. ASSUME NEW x \in Pairs, NEW j \in Unindexed(x)' PROVE j \in Unindexed(x)
  <2>1. subs[x[1]][x[2]] # NoEntry
      BY <1>2, <1>7 DEF Unindexed
  <2>2. x # <<work[w].conn, s>>
      BY <1>6, <2>1
  <2>3. x \in Filed(j) => x \in Filed(j)'
      BY <1>5, <2>2
  <2>4. FilingKept(w, x, j)
      BY <1>3, <1>4 DEF FilingKept, Mutating
  <2> QED
      BY <1>2, <1>4, <1>7, <2>3, <2>4, MissedBefore
<1> QED
    BY <1>7 DEF PurgeOnly

\* The removal of a key concerns that key alone.
LEMMA PurgeMisses ==
    ASSUME RegInv, NEW w \in Workers, Purge(w)
    PROVE  PurgeOnly
<1>0. RegTypeOK /\ Mutating(w)
    BY DEF RegInv, Purge
<1>1. work[w] \in CallState
    BY <1>0, CallParts
<1> DEFINE r == [work[w] EXCEPT !.purge = NoKey]
<1>2. /\ Set(w, r) /\ subs' = subs
      /\ index' = [j \in DOMAIN index \ {work[w].purge} |-> index[j]]
    BY DEF Purge
<1>3. /\ r.op = work[w].op /\ r.conn = work[w].conn /\ r.sub = work[w].sub
      /\ r.file = work[w].file
    BY <1>1 DEF CallState
<1> HIDE DEF r
<1>4. work'[w] = r /\ \A v \in Workers : v # w => work'[v] = work[v]
    BY <1>0, <1>2 DEF Set, RegTypeOK
<1>5. \A j : j # work[w].purge => Filed(j)' = Filed(j)
    BY <1>2 DEF Filed
<1>6. ASSUME NEW x \in Pairs, NEW j \in Unindexed(x)', j # work[w].purge
      PROVE  j \in Unindexed(x)
  <2>1. x \in Filed(j) => x \in Filed(j)'
      BY <1>5, <1>6
  <2>2. FilingKept(w, x, j)
      BY <1>3, <1>4 DEF FilingKept, Mutating
  <2> QED
      BY <1>2, <1>4, <1>6, <2>1, <2>2, MissedBefore
<1> QED
    BY <1>6 DEF PurgeOnly

\* A new subscription is filed, or to be filed, under every one of its keys.
LEMMA InsertMisses ==
    ASSUME RegInv, NEW w \in Workers, InsertEntry(w)
    PROVE  PurgeOnly
<1>0. RegTypeOK /\ Mutating(w) /\ work[w].new # NoEntry
    BY DEF RegInv, InsertEntry
<1> DEFINE c == work[w].conn
           s == work[w].sub
           n == work[w].new
           todo == IndexKeys(n.community, n.filters, n.room)
           r == [work[w] EXCEPT !.new = NoEntry, !.file = todo]
<1>1. Set(w, r) /\ index' = index /\ subs' = [subs EXCEPT ![c][s] = n]
    BY DEF InsertEntry
<1>2. /\ c \in Conns /\ work[w].touched \subseteq SubIds /\ work[w] \in CallState
      /\ Replacing(w)
    BY <1>0, CallParts
<1>3. s \in SubIds /\ work[w].file = {}
    BY <1>0, <1>2 DEF Replacing
<1> HIDE DEF todo
<1>4. r.op = work[w].op /\ r.conn = c /\ r.sub = s /\ r.file = todo
    BY <1>2 DEF CallState
<1> HIDE DEF r
<1>5. work'[w] = r /\ \A v \in Workers : v # w => work'[v] = work[v]
    BY <1>0, <1>1 DEF Set, RegTypeOK
<1>6. Mutating(w)'
    BY <1>0, <1>4, <1>5 DEF Mutating
<1>7. /\ subs'[c][s] = n
      /\ \A d \in Conns, t \in SubIds : d # c \/ t # s => subs'[d][t] = subs[d][t]
    BY <1>0, <1>1, <1>2, <1>3 DEF RegTypeOK
<1>8. ASSUME NEW x \in Pairs, NEW k \in Unindexed(x)' PROVE k \in Unindexed(x)
  <2>0. x[1] \in Conns /\ x[2] \in SubIds
      BY DEF Pairs
  <2>1. k \in Keys(x[1], x[2])' /\ ~Indexed(x, k)'
      BY <1>8 DEF Unindexed
  <2>2. x[1] # c \/ x[2] # s
    <3> SUFFICES ASSUME x[1] = c, x[2] = s PROVE FALSE
        OBVIOUS
    <3>1. k \in todo
        BY <1>7, <2>1 DEF Keys, todo
    <3> QED
        BY <1>4, <1>5, <1>6, <2>1, <3>1 DEF Indexed
  <2>3. subs'[x[1]][x[2]] = subs[x[1]][x[2]]
      BY <1>7, <2>0, <2>2
  <2>4. Filed(k)' = Filed(k)
      BY <1>1 DEF Filed
  <2>5. FilingKept(w, x, k)
      BY <1>3 DEF FilingKept
  <2> HIDE DEF c, s
  <2> QED
      BY <1>5, <1>8, <2>3, <2>4, <2>5, MissedBefore
<1> QED
    BY <1>8 DEF PurgeOnly

\* A subscription is filed: the entry keeps what it held.
LEMMA FileMisses ==
    ASSUME RegInv, NEW w \in Workers, NEW k, File(w, k)
    PROVE  PurgeOnly
<1>0. RegTypeOK /\ Mutating(w)
    BY DEF RegInv, File
<1>1. work[w] \in CallState
    BY <1>0, CallParts
<1> DEFINE c == work[w].conn
           s == work[w].sub
           r == [work[w] EXCEPT !.file = @ \ {k}]
<1>2. /\ Set(w, r) /\ subs' = subs
      /\ index' = [j \in DOMAIN index \cup {k} |-> IF j = k THEN Filed(k) \cup {<<c, s>>} ELSE index[j]]
    BY DEF File
<1>3. r.op = work[w].op /\ r.conn = c /\ r.sub = s /\ r.file = work[w].file \ {k}
    BY <1>1 DEF CallState
<1> HIDE DEF r
<1>4. work'[w] = r /\ \A v \in Workers : v # w => work'[v] = work[v]
    BY <1>0, <1>2 DEF Set, RegTypeOK
<1>5. (\A j : j # k => Filed(j)' = Filed(j)) /\ Filed(k)' = Filed(k) \cup {<<c, s>>}
    BY <1>2 DEF Filed
<1>6. Mutating(w)'
    BY <1>0, <1>3, <1>4 DEF Mutating
<1>7. ASSUME NEW x \in Pairs, NEW j \in Unindexed(x)' PROVE j \in Unindexed(x)
  <2>1. x \in Filed(j) => x \in Filed(j)'
      BY <1>5
  <2>2. FilingKept(w, x, j)
    <3>1. CASE j # k
        BY <1>3, <1>4, <1>6, <3>1 DEF FilingKept
    <3>2. CASE j = k
      <4>1. x = <<x[1], x[2]>>
          BY DEF Pairs
      <4>2. x[1] = c /\ x[2] = s => x \in Filed(j)'
          BY <1>5, <3>2, <4>1
      <4> QED
          BY <4>2 DEF FilingKept
    <3> QED
        BY <3>1, <3>2
  <2> QED
      BY <1>2, <1>4, <1>7, <2>1, <2>2, MissedBefore
<1> QED
    BY <1>7 DEF PurgeOnly

\* However many threads register, replace, remove and fan out, a registered
\* subscription loses an index entry, or is left without one, only where
\* remove_from_index removes a key that it saw empty a moment before.
THEOREM PurgeAloneUnfiles ==
    ASSUME NoOverlap
    PROVE  RegSpec => OnlyPurgeUnfiles
<1>1. ASSUME RegInv, RegNext PROVE PurgeOnly
  <2>1. ASSUME NEW w \in Workers, NewCall(w) PROVE PurgeOnly
      BY <1>1, <2>1, ReadersMiss, RemovalMisses DEF NewCall
  <2>2. ASSUME NEW w \in Workers, MutateStep(w) PROVE PurgeOnly
      BY <1>1, <2>2, RemovalMisses, UnfileMisses, PurgeMisses, ReturnMisses, InsertMisses,
         FileMisses DEF MutateStep
  <2>3. ASSUME NEW w \in Workers, FanOutStep(w) PROVE PurgeOnly
      BY <1>1, <2>3, ReadersMiss
  <2> QED
      BY <1>1, <2>1, <2>2, <2>3 DEF RegNext
<1>2. RegInv /\ [RegNext]_regVars => [PurgeOnly]_regVars
    BY <1>1
<1>3. RegSpec => [][PurgeOnly]_regVars
    BY <1>2, RegInvHolds, PTL DEF RegSpec
<1> QED
    BY <1>3 DEF OnlyPurgeUnfiles, PurgeOnly

-----------------------------------------------------------------------------
(* Any number of threads, overlapping or not: what a fan-out finds.        *)

\* The types of the registry do not depend on which calls overlap.
CallTyped(r) == r \in CallState /\ (r.new # NoEntry \/ r.file # {} => r.sub \in SubIds)

TypeInv == RegTypeOK /\ \A w \in Workers : Mutating(w) => CallTyped(work[w])

\* A step of w that is not one of a fan-out.
CallStep(w) ==
    /\ \E r : Set(w, r) /\ (r = Idle \/ CallTyped(r))
    /\ subs' \in [Conns -> [SubIds -> Entry \cup {NoEntry}]]
    /\ index' \in [DOMAIN index' -> SUBSET Pairs]

\* What such a step leaves.
LEMMA CallStepTyped ==
    ASSUME TypeInv, NEW w \in Workers, CallStep(w)
    PROVE  /\ TypeInv' /\ ~Fanning(w)'
           /\ \A v \in Workers : v # w => work'[v] = work[v]
<1>0. RegTypeOK
    BY DEF TypeInv
<1>1. PICK r : Set(w, r) /\ (r = Idle \/ CallTyped(r))
    BY DEF CallStep
<1>2. work'[w] = r /\ \A v \in Workers : v # w => work'[v] = work[v]
    BY <1>0, <1>1 DEF Set, RegTypeOK
<1>3. r \in CallState \cup {Idle}
    BY <1>1 DEF CallTyped
<1>4. work' \in [Workers -> CallState \cup FanOutState \cup {Idle}]
    BY <1>0, <1>1, <1>3 DEF Set, RegTypeOK
<1>5. RegTypeOK'
    BY <1>4 DEF CallStep, RegTypeOK
<1>6. ~Fanning(w)'
    BY <1>2, <1>3 DEF Fanning, CallState, Idle
<1>7. ASSUME NEW v \in Workers, Mutating(v)' PROVE CallTyped(work[v])'
  <2>1. CASE v = w
    <3>1. r # Idle
        BY <1>2, <1>7, <2>1 DEF Mutating, Idle
    <3> QED
        BY <1>1, <1>2, <2>1, <3>1 DEF CallTyped
  <2>2. CASE v # w
    <3>1. work'[v] = work[v] /\ Mutating(v)
        BY <1>2, <1>7, <2>2 DEF Mutating
    <3> QED
        BY <3>1 DEF TypeInv, CallTyped
  <2> QED
      BY <2>1, <2>2
<1> QED
    BY <1>2, <1>5, <1>6, <1>7 DEF TypeInv

\* The record of a call that changes the registry.
LEMMA CallFields ==
    ASSUME TypeInv, NEW w \in Workers, Mutating(w)
    PROVE  /\ work[w] \in CallState /\ CallTyped(work[w]) /\ work[w].conn \in Conns
           /\ work[w].ids \subseteq SubIds /\ work[w].unfile \subseteq SubIds \X IndexKeySet
           /\ work[w].new \in Entry \cup {NoEntry} /\ work[w].file \subseteq IndexKeySet
<1>1. CallTyped(work[w])
    BY DEF TypeInv
<1>2. work[w] \in CallState
    BY <1>1 DEF CallTyped
<1> QED
    BY <1>1, <1>2 DEF CallState

\* Calls begin.
LEMMA BeginTyped ==
    ASSUME TypeInv, NEW w \in Workers, NEW c \in Conns,
           \/ \E s \in SubIds : RemoveSubscription(w, c, s)
           \/ \E s \in SubIds, f \in Requests : RegisterScoped(w, c, s, f)
           \/ \E r \in Rooms : RemoveChannelSubscriptions(w, c, r)
           \/ RemoveConnection(w, c)
    PROVE  CallStep(w)
<1>0. RegTypeOK
    BY DEF TypeInv
<1>1. CASE ~RemoveConnection(w, c)
  <2>1. PICK o \in {"register", "remove", "evict"}, ss \in SUBSET SubIds, r \in CallState :
           /\ MayCall(w, c, ss) /\ Set(w, r) /\ UNCHANGED <<subs, index>>
           /\ r.op = o /\ r.conn = c /\ r.touched = ss /\ r.ids \subseteq ss /\ r.unfile = {}
           /\ r.purge = NoKey /\ r.file = {} /\ ~r.locked
           /\ r.new # NoEntry => r.op = "register" /\ r.sub \in ss /\ r.sub \in r.ids
      BY <1>1, NewCallShape
  <2>2. CallTyped(r)
      BY <2>1 DEF CallTyped
  <2> QED
      BY <1>0, <2>1, <2>2 DEF CallStep, RegTypeOK
<1>2. CASE RemoveConnection(w, c)
  <2> DEFINE todo == UNION {{s} \X Keys(c, s) : s \in {t \in SubIds : subs[c][t] # NoEntry}}
             r == [Call("cleanup", c, SubIds) EXCEPT !.unfile = todo]
  <2>1. /\ Set(w, r) /\ index' = index
        /\ subs' = [subs EXCEPT ![c] = [s \in SubIds |-> NoEntry]]
      BY <1>2 DEF RemoveConnection
  <2>2. \A s \in SubIds : subs[c][s] # NoEntry => Keys(c, s) \subseteq IndexKeySet
      BY <1>0, SubsTyped
  <2>3. todo \in SUBSET (SubIds \X IndexKeySet)
      BY <2>2
  <2> HIDE DEF todo
  <2>4. r \in CallState /\ r.new = NoEntry /\ r.file = {}
      BY <2>3 DEF Call, CallState
  <2> HIDE DEF r
  <2>5. CallTyped(r)
      BY <2>4 DEF CallTyped
  <2> QED
      BY <1>0, <2>1, <2>5 DEF CallStep, RegTypeOK
<1> QED
    BY <1>1, <1>2

\* Subscriptions are taken out.
LEMMA RemoveTyped ==
    ASSUME TypeInv, NEW w \in Workers,
           \/ \E s \in work[w].ids : TakeEntry(w, s)
           \/ \E u \in work[w].unfile : Unfile(w, u[1], u[2])
           \/ Purge(w)
    PROVE  CallStep(w)
<1>0. RegTypeOK /\ Mutating(w)
    BY DEF TypeInv, TakeEntry, Unfile, Purge
<1>1. /\ work[w] \in CallState /\ CallTyped(work[w]) /\ work[w].conn \in Conns
      /\ work[w].ids \subseteq SubIds /\ work[w].unfile \subseteq SubIds \X IndexKeySet
    BY <1>0, CallFields
<1>2. ASSUME NEW s \in work[w].ids, TakeEntry(w, s) PROVE CallStep(w)
  <2> DEFINE c == work[w].conn
             todo == IF subs[c][s] = NoEntry THEN {} ELSE {s} \X Keys(c, s)
             r == [work[w] EXCEPT !.ids = @ \ {s}, !.locked = subs[c][s] # NoEntry, !.unfile = todo]
  <2>1. Set(w, r) /\ index' = index /\ subs' = [subs EXCEPT ![c][s] = NoEntry]
      BY <1>2 DEF TakeEntry
  <2>2. s \in SubIds
      BY <1>1
  <2>3. todo \in SUBSET (SubIds \X IndexKeySet)
      BY <1>0, <1>1, <2>2, SubsTyped
  <2> HIDE DEF todo
  <2>4. r \in CallState /\ r.new = work[w].new /\ r.file = work[w].file /\ r.sub = work[w].sub
      BY <1>1, <2>3 DEF CallState
  <2> HIDE DEF r
  <2>5. CallTyped(r)
      BY <1>1, <2>4 DEF CallTyped
  <2>6. subs' \in [Conns -> [SubIds -> Entry \cup {NoEntry}]]
      BY <1>0, <1>1, <2>1, <2>2 DEF RegTypeOK
  <2> QED
      BY <1>0, <2>1, <2>5, <2>6 DEF CallStep, RegTypeOK
<1>3. ASSUME NEW s, NEW k, <<s, k>> \in work[w].unfile, Unfile(w, s, k) PROVE CallStep(w)
  <2> DEFINE left == Filed(k) \ {<<work[w].conn, s>>}
             p == IF k \in DOMAIN index /\ left = {} THEN k ELSE NoKey
             r == [work[w] EXCEPT !.unfile = @ \ {<<s, k>>}, !.purge = p]
  <2>1. /\ Set(w, r) /\ subs' = subs
        /\ index' = [j \in DOMAIN index |-> IF j = k THEN left ELSE index[j]]
      BY <1>3 DEF Unfile
  <2>2. k \in IndexKeySet
      BY <1>1, <1>3
  <2>3. p \in IndexKeySet \cup {NoKey}
      BY <2>2
  <2> HIDE DEF p
  <2>4. r \in CallState /\ r.new = work[w].new /\ r.file = work[w].file /\ r.sub = work[w].sub
      BY <1>1, <2>3 DEF CallState
  <2> HIDE DEF r
  <2>5. CallTyped(r)
      BY <1>1, <2>4 DEF CallTyped
  <2>6. left \in SUBSET Pairs
      BY <1>0 DEF Filed, RegTypeOK
  <2>7. index' \in [DOMAIN index' -> SUBSET Pairs]
      BY <1>0, <2>1, <2>6 DEF RegTypeOK
  <2> QED
      BY <1>0, <2>1, <2>5, <2>7 DEF CallStep, RegTypeOK
<1>4. ASSUME Purge(w) PROVE CallStep(w)
  <2> DEFINE r == [work[w] EXCEPT !.purge = NoKey]
  <2>1. /\ Set(w, r) /\ subs' = subs
        /\ index' = [j \in DOMAIN index \ {work[w].purge} |-> index[j]]
      BY <1>4 DEF Purge
  <2>2. r \in CallState /\ r.new = work[w].new /\ r.file = work[w].file /\ r.sub = work[w].sub
      BY <1>1 DEF CallState
  <2> HIDE DEF r
  <2>3. CallTyped(r)
      BY <1>1, <2>2 DEF CallTyped
  <2>4. index' \in [DOMAIN index' -> SUBSET Pairs]
      BY <1>0, <2>1 DEF RegTypeOK
  <2> QED
      BY <1>0, <2>1, <2>3, <2>4 DEF CallStep, RegTypeOK
<1>5. \A u \in work[w].unfile : u = <<u[1], u[2]>>
    BY <1>1
<1> QED
    BY <1>2, <1>3, <1>4, <1>5

\* A subscription is put in, a guard dropped, a call ends.
LEMMA RegisterTyped ==
    ASSUME TypeInv, NEW w \in Workers,
           \/ InsertEntry(w)
           \/ \E k \in work[w].file : File(w, k)
           \/ Unlock(w)
           \/ Return(w)
           \/ Deliver(w)
    PROVE  CallStep(w)
<1>0. RegTypeOK
    BY DEF TypeInv
<1>1. CASE InsertEntry(w)
  <2> DEFINE c == work[w].conn
             s == work[w].sub
             n == work[w].new
             todo == IndexKeys(n.community, n.filters, n.room)
             r == [work[w] EXCEPT !.new = NoEntry, !.file = todo]
  <2>0. Mutating(w) /\ n # NoEntry
      BY <1>1 DEF InsertEntry
  <2>1. Set(w, r) /\ index' = index /\ subs' = [subs EXCEPT ![c][s] = n]
      BY <1>1 DEF InsertEntry
  <2>2. work[w] \in CallState /\ c \in Conns /\ s \in SubIds /\ n \in Entry
      BY <2>0, CallFields DEF CallTyped
  <2>3. todo \subseteq IndexKeySet
      BY <2>2, EntryParts
  <2> HIDE DEF todo
  <2>4. r \in CallState /\ r.sub = s
      BY <2>2, <2>3 DEF CallState
  <2> HIDE DEF r
  <2>5. CallTyped(r)
      BY <2>2, <2>4 DEF CallTyped
  <2>6. subs' \in [Conns -> [SubIds -> Entry \cup {NoEntry}]]
      BY <1>0, <2>1, <2>2 DEF RegTypeOK
  <2> HIDE DEF c, s, n
  <2> QED
      BY <1>0, <2>1, <2>5, <2>6 DEF CallStep, RegTypeOK
<1>2. ASSUME NEW k \in work[w].file, File(w, k) PROVE CallStep(w)
  <2> DEFINE c == work[w].conn
             s == work[w].sub
             r == [work[w] EXCEPT !.file = @ \ {k}]
             pushed == Filed(k) \cup {<<c, s>>}
  <2>0. Mutating(w)
      BY <1>2 DEF File
  <2>1. /\ Set(w, r) /\ subs' = subs
        /\ index' = [j \in DOMAIN index \cup {k} |-> IF j = k THEN pushed ELSE index[j]]
      BY <1>2 DEF File
  <2>2. work[w] \in CallState /\ c \in Conns /\ s \in SubIds
      BY <1>2, <2>0, CallFields DEF CallTyped
  <2>3. pushed \in SUBSET Pairs
      BY <1>0, <2>2 DEF Filed, RegTypeOK, Pairs
  <2>4. r \in CallState /\ r.sub = s
      BY <2>2 DEF CallState
  <2> HIDE DEF r
  <2>5. CallTyped(r)
      BY <2>2, <2>4 DEF CallTyped
  <2> HIDE DEF pushed, c, s
  <2>6. index' \in [DOMAIN index' -> SUBSET Pairs]
      BY <1>0, <2>1, <2>3 DEF RegTypeOK
  <2> QED
      BY <1>0, <2>1, <2>5, <2>6 DEF CallStep, RegTypeOK
<1>3. CASE Unlock(w)
  <2> DEFINE r == [work[w] EXCEPT !.locked = FALSE]
  <2>1. Set(w, r) /\ UNCHANGED <<subs, index>> /\ Mutating(w)
      BY <1>3 DEF Unlock
  <2>2. work[w] \in CallState /\ CallTyped(work[w])
      BY <2>1, CallFields
  <2>3. r \in CallState /\ r.new = work[w].new /\ r.file = work[w].file /\ r.sub = work[w].sub
      BY <2>2 DEF CallState
  <2> HIDE DEF r
  <2>4. CallTyped(r)
      BY <2>2, <2>3 DEF CallTyped
  <2> QED
      BY <1>0, <2>1, <2>4 DEF CallStep, RegTypeOK
<1>4. CASE Return(w) \/ Deliver(w)
  <2>1. Set(w, Idle) /\ UNCHANGED <<subs, index>>
      BY <1>4 DEF Return, Deliver
  <2> QED
      BY <1>0, <2>1 DEF CallStep, RegTypeOK
<1> QED
    BY <1>1, <1>2, <1>3, <1>4

\* What is due to a fan-out is wanted, and found, about to be matched, or filed
\* under a key that is still to be read.
Pending(w, x) ==
    \/ x \in work[w].found \cup work[w].cands
    \/ Keys(x[1], x[2]) \cap work[w].lookup # {}

Owing(w) ==
    Fanning(w) =>
        /\ work[w].cands # {} => work[w].reading # NoKey
        /\ \A x \in due[w] : x \in Pairs /\ Wanted(w, x) /\ Pending(w, x)

HistInv == TypeInv /\ \A w \in Workers : Owing(w)

\* Being due is being wanted, and having been due unless the fan-out begins.
LEMMA DueParts ==
    ASSUME HistNext, NEW w \in Workers, Fanning(w)', NEW x \in due'[w]
    PROVE  /\ x \in Pairs /\ Wanted(w, x)'
           /\ Fanning(w) => x \in due[w] /\ subs'[x[1]][x[2]] = subs[x[1]][x[2]]
<1>1. due'[w] = Due(w)
    BY DEF HistNext
<1> QED
    BY <1>1 DEF Due

\* A fan-out is owed no more by a step of another worker.
LEMMA OthersOwe ==
    ASSUME HistNext, NEW v \in Workers, Owing(v), work'[v] = work[v]
    PROVE  Owing(v)'
<1> SUFFICES ASSUME Fanning(v)'
             PROVE  /\ work'[v].cands # {} => work'[v].reading # NoKey
                    /\ \A x \in due'[v] : x \in Pairs /\ Wanted(v, x)' /\ Pending(v, x)'
    BY DEF Owing
<1>1. Fanning(v)
    BY DEF Fanning
<1>2. work'[v].cands # {} => work'[v].reading # NoKey
    BY <1>1 DEF Owing
<1>3. ASSUME NEW x \in due'[v] PROVE x \in Pairs /\ Wanted(v, x)' /\ Pending(v, x)'
  <2>1. /\ x \in Pairs /\ Wanted(v, x)'
        /\ x \in due[v] /\ subs'[x[1]][x[2]] = subs[x[1]][x[2]]
      BY <1>1, <1>3, DueParts
  <2>2. Pending(v, x)
      BY <1>1, <2>1 DEF Owing
  <2>3. Keys(x[1], x[2])' = Keys(x[1], x[2])
      BY <2>1 DEF Keys
  <2> QED
      BY <2>1, <2>2, <2>3 DEF Pending
<1> QED
    BY <1>2, <1>3

\* A step of fan-out w that keeps what it owes pending.
LEMMA FanOutOwes ==
    ASSUME HistNext, HistInv, NEW w \in Workers, NEW r \in FanOutState, Set(w, r),
           UNCHANGED <<subs, index>>, r.cands # {} => r.reading # NoKey,
           \A x \in due'[w] :
               x \in r.found \cup r.cands \/ Keys(x[1], x[2])' \cap r.lookup # {}
    PROVE  HistInv'
<1>0. RegTypeOK
    BY DEF HistInv, TypeInv
<1>1. work'[w] = r /\ \A v \in Workers : v # w => work'[v] = work[v]
    BY <1>0 DEF Set, RegTypeOK
<1>2. RegTypeOK'
    BY <1>0 DEF Set, RegTypeOK
<1>3. Fanning(w)' /\ ~Mutating(w)'
    BY <1>1 DEF Fanning, Mutating, FanOutState
<1>4. ASSUME NEW v \in Workers, Mutating(v)' PROVE CallTyped(work[v])'
  <2>1. work'[v] = work[v] /\ Mutating(v)
      BY <1>1, <1>3, <1>4 DEF Mutating
  <2> QED
      BY <2>1 DEF HistInv, TypeInv, CallTyped
<1>5. Owing(w)'
  <2>1. ASSUME NEW x \in due'[w] PROVE x \in Pairs /\ Wanted(w, x)' /\ Pending(w, x)'
      BY <1>1, <1>3, <2>1, DueParts DEF Pending
  <2> QED
      BY <1>1, <2>1 DEF Owing
<1>6. \A v \in Workers : Owing(v)'
    BY <1>1, <1>5, OthersOwe DEF HistInv
<1> QED
    BY <1>2, <1>4, <1>6 DEF HistInv, TypeInv

\* A fan-out begins: by IndexComplete it reads a key of whatever it is owed.
LEMMA BeginOwes ==
    ASSUME HistNext, HistInv, NEW w \in Workers, NEW c \in Communities, NEW e \in Events,
           FanOutScoped(w, c, e)
    PROVE  HistInv'
<1>0. RegTypeOK
    BY DEF HistInv, TypeInv
<1> DEFINE r == FanOutCall(c, e)
<1>1. e \in Event
    BY RegistryAssumption DEF RegistryAssumption
<1>2. r \in FanOutState /\ r.op = "fan_out" /\ r.community = c /\ r.event = e
      /\ r.lookup = LookupKeys(c, e) /\ r.cands = {}
    BY <1>1, LookupTyped DEF FanOutCall, FanOutState
<1>3. Set(w, r) /\ UNCHANGED <<subs, index>>
    BY DEF FanOutScoped
<1> HIDE DEF r
<1>4. work'[w] = r
    BY <1>0, <1>3 DEF Set, RegTypeOK
<1>5. Fanning(w)'
    BY <1>2, <1>4 DEF Fanning
<1>6. ASSUME NEW x \in due'[w] PROVE Keys(x[1], x[2])' \cap r.lookup # {}
  <2> DEFINE entry == subs'[x[1]][x[2]]
  <2>1. x \in Pairs /\ Wanted(w, x)'
      BY <1>5, <1>6, DueParts
  <2>2. /\ entry # NoEntry /\ entry.community = c /\ entry.room = e.room
        /\ FiltersMatch(entry.filters, e)
      BY <1>2, <1>4, <2>1 DEF Wanted, InScope
  <2>3. entry \in Entry
      BY <1>0, <1>3, <2>1, <2>2 DEF RegTypeOK, Pairs
  <2>4. entry.filters \in SUBSET Filter
      BY <2>3, EntryParts
  <2>5. Keys(x[1], x[2])' = IndexKeys(entry.community, entry.filters, entry.room)
      BY DEF Keys
  <2> HIDE DEF entry
  <2>6. IndexKeys(c, entry.filters, e.room) \cap LookupKeys(c, e) # {}
      BY <1>1, <2>2, <2>4, IndexComplete
  <2> QED
      BY <1>2, <2>2, <2>5, <2>6
<1> QED
    BY <1>2, <1>3, <1>6, FanOutOwes

\* A key is read: what is owed and filed under it becomes a candidate.
LEMMA ReadOwes ==
    ASSUME HistNext, HistInv, NEW w \in Workers, NEW k, ReadKey(w, k)
    PROVE  HistInv'
<1>0. RegTypeOK /\ Fanning(w) /\ k \in work[w].lookup /\ Owing(w)
    BY DEF HistInv, TypeInv, ReadKey
<1> DEFINE q == IF Filed(k) = {} THEN NoKey ELSE k
           cs == Filed(k)
           r == [work[w] EXCEPT !.lookup = @ \ {k}, !.reading = q, !.cands = cs]
<1>1. Set(w, r) /\ UNCHANGED <<subs, index>> /\ work[w].reading = NoKey
    BY DEF ReadKey
<1>2. work[w] \in FanOutState
    BY <1>0, WorkShape
<1>3. k \in IndexKeySet
    BY <1>0, <1>2 DEF FanOutState
<1>4. cs \in SUBSET Pairs /\ q \in IndexKeySet \cup {NoKey} /\ (cs # {} => q # NoKey)
    BY <1>0, <1>3, RegistryAssumption DEF Filed, RegTypeOK, RegistryAssumption
<1>5. work[w].cands = {}
    BY <1>0, <1>1 DEF Owing
<1>6. cs = Filed(k)
    OBVIOUS
<1> HIDE DEF q, cs
<1>7. /\ r \in FanOutState /\ r.lookup = work[w].lookup \ {k} /\ r.reading = q
      /\ r.cands = cs /\ r.found = work[w].found
    BY <1>2, <1>4 DEF FanOutState
<1>8. r.op = "fan_out"
    BY <1>7 DEF FanOutState
<1> HIDE DEF r
<1>9. Fanning(w)'
    BY <1>0, <1>1, <1>8 DEF Fanning, Set, RegTypeOK
<1>10. ASSUME NEW x \in due'[w]
       PROVE  x \in r.found \cup r.cands \/ Keys(x[1], x[2])' \cap r.lookup # {}
  <2>1. x \in due[w]
      BY <1>0, <1>9, <1>10, DueParts
  <2>2. Wanted(w, x) /\ Pending(w, x)
      BY <1>0, <2>1 DEF Owing
  <2>3. Keys(x[1], x[2])' = Keys(x[1], x[2])
      BY <1>1 DEF Keys
  <2>4. CASE x \in work[w].found
      BY <1>7, <2>4
  <2>5. CASE Keys(x[1], x[2]) \cap work[w].lookup # {}
    <3>1. PICK j : j \in Keys(x[1], x[2]) /\ j \in work[w].lookup
        BY <2>5
    <3>2. CASE j = k
        BY <1>6, <1>7, <2>2, <3>1, <3>2 DEF Wanted
    <3>3. CASE j # k
        BY <1>7, <2>3, <3>1, <3>3
    <3> QED
        BY <3>2, <3>3
  <2> QED
      BY <1>5, <2>2, <2>4, <2>5 DEF Pending
<1> QED
    BY <1>1, <1>4, <1>7, <1>10, FanOutOwes

\* A candidate is matched: one that is owed is found.
LEMMA MatchOwes ==
    ASSUME HistNext, HistInv, NEW w \in Workers, NEW y, PushMatch(w, y)
    PROVE  HistInv'
<1>0. RegTypeOK /\ Fanning(w) /\ y \in work[w].cands /\ Owing(w)
    BY DEF HistInv, TypeInv, PushMatch
<1> DEFINE hit  == subs[y[1]][y[2]] # NoEntry /\ FiltersMatch(subs[y[1]][y[2]].filters, work[w].event)
           left == work[w].cands \ {y}
           q == IF left = {} THEN NoKey ELSE work[w].reading
           fs == IF hit THEN work[w].found \cup {y} ELSE work[w].found
           r == [work[w] EXCEPT !.cands = left, !.reading = q, !.found = fs]
<1>1. Set(w, r) /\ UNCHANGED <<subs, index>>
    BY DEF PushMatch
<1>2. work[w] \in FanOutState
    BY <1>0, WorkShape
<1>3. /\ work[w].reading \in IndexKeySet \cup {NoKey}
      /\ work[w].cands \subseteq Pairs /\ work[w].found \subseteq Pairs
    BY <1>2 DEF FanOutState
<1>4. /\ left \in SUBSET Pairs /\ fs \in SUBSET Pairs /\ q \in IndexKeySet \cup {NoKey}
      /\ left # {} => q = work[w].reading
      /\ work[w].cands \subseteq left \cup {y} /\ work[w].found \subseteq fs /\ (hit => y \in fs)
    BY <1>0, <1>3
<1>5. Wanted(w, y) => hit
    BY DEF Wanted
<1> HIDE DEF left, q, fs, hit
<1>6. /\ r \in FanOutState /\ r.lookup = work[w].lookup /\ r.reading = q
      /\ r.cands = left /\ r.found = fs
    BY <1>2, <1>4 DEF FanOutState
<1>7. r.op = "fan_out"
    BY <1>6 DEF FanOutState
<1> HIDE DEF r
<1>8. Fanning(w)'
    BY <1>0, <1>1, <1>7 DEF Fanning, Set, RegTypeOK
<1>9. r.cands # {} => r.reading # NoKey
    BY <1>0, <1>4, <1>6 DEF Owing
<1>10. ASSUME NEW x \in due'[w]
       PROVE  x \in r.found \cup r.cands \/ Keys(x[1], x[2])' \cap r.lookup # {}
  <2>1. x \in due[w]
      BY <1>0, <1>8, <1>10, DueParts
  <2>2. Wanted(w, x) /\ Pending(w, x)
      BY <1>0, <2>1 DEF Owing
  <2>3. Keys(x[1], x[2])' = Keys(x[1], x[2])
      BY <1>1 DEF Keys
  <2>4. x = y => x \in fs
      BY <1>4, <1>5, <2>2
  <2> QED
      BY <1>4, <1>6, <2>2, <2>3, <2>4 DEF Pending
<1> QED
    BY <1>1, <1>6, <1>9, <1>10, FanOutOwes

\* Every other step leaves w out of a fan-out.
LEMMA CallsOwe ==
    ASSUME HistNext, HistInv, NEW w \in Workers, CallStep(w)
    PROVE  HistInv'
<1>1. /\ TypeInv' /\ ~Fanning(w)'
      /\ \A v \in Workers : v # w => work'[v] = work[v]
    BY CallStepTyped DEF HistInv
<1>2. ASSUME NEW v \in Workers PROVE Owing(v)'
  <2>1. CASE v = w
      BY <1>1, <2>1 DEF Owing
  <2>2. CASE v # w
      BY <1>1, <2>2, OthersOwe DEF HistInv
  <2> QED
      BY <2>1, <2>2
<1> QED
    BY <1>1, <1>2 DEF HistInv

\* However the threads interleave, and even if calls for one subscription
\* overlap, a fan-out finds whatever was registered, filed and matching from its
\* first lookup to its last: choosing one of five indexes for a subscription,
\* reading them key by key and matching against subs as it is by then lose
\* nothing.
THEOREM DueFound == HistSpec => []DueIsFound
<1>1. HistInit => HistInv
  <2> SUFFICES ASSUME HistInit PROVE HistInv
      OBVIOUS
  <2>1. RegTypeOK
      BY RegInitInv DEF HistInit, RegInv
  <2>2. \A w \in Workers : ~Mutating(w) /\ ~Fanning(w)
      BY <2>1, WorkShape DEF HistInit, RegInit
  <2> QED
      BY <2>1, <2>2 DEF HistInv, TypeInv, Owing
<1>2. HistInv /\ [HistNext]_histVars => HistInv'
  <2> SUFFICES ASSUME HistInv, [HistNext]_histVars PROVE HistInv'
      OBVIOUS
  <2>1. CASE UNCHANGED histVars
    <3> USE <2>1 DEF histVars, regVars
    <3>1. TypeInv'
        BY DEF HistInv, TypeInv, RegTypeOK, Mutating, CallTyped
    <3>2. \A w \in Workers : Owing(w)'
        BY DEF HistInv, Owing, Fanning, Wanted, Pending, Keys, Filed
    <3> QED
        BY <3>1, <3>2 DEF HistInv
  <2>2. CASE HistNext
    <3>1. TypeInv
        BY DEF HistInv
    <3>2. ASSUME NEW w \in Workers, NewCall(w) PROVE HistInv'
        BY <2>2, <3>1, <3>2, BeginTyped, CallsOwe, BeginOwes DEF NewCall
    <3>3. ASSUME NEW w \in Workers, MutateStep(w) PROVE HistInv'
        BY <2>2, <3>1, <3>3, RemoveTyped, RegisterTyped, CallsOwe DEF MutateStep
    <3>4. ASSUME NEW w \in Workers, FanOutStep(w) PROVE HistInv'
        BY <2>2, <3>1, <3>4, ReadOwes, MatchOwes, RegisterTyped, CallsOwe DEF FanOutStep
    <3> QED
        BY <2>2, <3>2, <3>3, <3>4 DEF HistNext, RegNext
  <2> QED
      BY <2>1, <2>2
<1>3. HistInv => DueIsFound
  <2> SUFFICES ASSUME HistInv, NEW w \in Workers, FannedOut(w), NEW x \in due[w]
               PROVE  x \in work[w].found
      BY DEF DueIsFound
  <2>1. Fanning(w) /\ work[w].lookup = {} /\ work[w].cands = {}
      BY DEF FannedOut
  <2>2. Pending(w, x)
      BY <2>1 DEF HistInv, Owing
  <2> QED
      BY <2>1, <2>2 DEF Pending
<1> QED
    BY <1>1, <1>2, <1>3, PTL DEF HistSpec

=============================================================================
