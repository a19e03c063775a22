---------------------------- MODULE FanOutIndex ----------------------------
(***************************************************************************)
(* The pure part of live fan-out: under which index keys a subscription is *)
(* filed, which keys an event is looked up under, and when a filter        *)
(* matches (buzz-relay subscription.rs and req.rs, buzz-core filter.rs).   *)
(* A subscription's filters are a set: they are only ever OR-ed.           *)
(***************************************************************************)
CONSTANTS
    Communities,  \* tenants
    Kinds,        \* event kinds
    People,       \* public keys, as authors and as #p values
    Rooms,        \* channel ids
    HValues,      \* strings that occur as #h values
    Global,       \* the scope of what belongs to no channel
    Absent,          \* a filter field that is absent; an index key field not in use
    ParseRoom,    \* what an #h string parses to; Global if it is not a channel id
    ShowRoom      \* a channel id's canonical string

ASSUME FanOutAssumption ==
    /\ Global \notin Rooms
    /\ Absent \notin Kinds \cup People
    /\ \A S \in (SUBSET Kinds) \cup (SUBSET People) \cup (SUBSET HValues) : S # Absent
    /\ ParseRoom \in [HValues -> Rooms \cup {Global}]
    /\ ShowRoom \in [Rooms -> HValues]
    /\ \A r \in Rooms : ParseRoom[ShowRoom[r]] = r

Scopes == Rooms \cup {Global}

\* authors stands for every field no index looks at (ids, since, until and
\* the other tags are further conjuncts of the same shape).
Filter == [kinds : (SUBSET Kinds) \cup {Absent}, authors : (SUBSET People) \cup {Absent},
           ps : (SUBSET People) \cup {Absent}, hs : (SUBSET HValues) \cup {Absent}]

\* A stored event: room is StoredEvent.channel_id, which a reaction or a
\* deletion takes from its target and a global-only kind never has.
Event == [kind : Kinds, author : People, ps : SUBSET People, hs : SUBSET HValues,
          room : Scopes]

-----------------------------------------------------------------------------
(* NIP-01 matching. *)

\* An #h filter falls back on the stored channel when the event has no h tag.
HMatches(f, e) ==
    \/ f.hs = Absent
    \/ f.hs \cap e.hs # {}
    \/ e.hs = {} /\ e.room # Global /\ ShowRoom[e.room] \in f.hs

FilterMatchOne(f, e) ==
    /\ f.kinds = Absent \/ e.kind \in f.kinds
    /\ f.authors = Absent \/ e.author \in f.authors
    /\ f.ps = Absent \/ f.ps \cap e.ps # {}
    /\ HMatches(f, e)

FiltersMatch(filters, e) == \E f \in filters : FilterMatchOne(f, e)

-----------------------------------------------------------------------------
(* The scope and the index keys of a subscription. *)

FilterRooms(f) == IF f.hs = Absent THEN {} ELSE {ParseRoom[h] : h \in f.hs} \ {Global}

\* One channel if every filter names it and none names another.
ExtractChannelId(filters) ==
    LET found == UNION {FilterRooms(f) : f \in filters}
    IN IF \E r \in found : /\ found = {r}
                           /\ \A f \in filters : FilterRooms(f) # {}
       THEN CHOOSE r \in found : TRUE
       ELSE Global

\* extract_kinds_from_filters returns None.
KindWildcard(filters) == \E f \in filters : f.kinds = Absent

ExtractKinds(filters) == UNION {f.kinds : f \in filters}

\* extract_global_p_kind_index_keys returns Some.
PConstrained(filters) ==
    \A f \in filters :
        /\ f.kinds # Absent
        /\ f.kinds # {} => f.ps # Absent /\ f.ps # {}

IndexKeySet == [index : {"channel_kind", "channel_wildcard", "global_p_kind",
                         "global_kind", "global_wildcard"},
                community : Communities, room : Scopes,
                kind : Kinds \cup {Absent}, p : People \cup {Absent}]

IndexKey(i, c, r, k, p) ==
    [index |-> i, community |-> c, room |-> r, kind |-> k, p |-> p]

PKindKeys(c, filters) ==
    UNION {{IndexKey("global_p_kind", c, Global, k, p) : k \in f.kinds, p \in f.ps} :
              f \in {g \in filters : g.kinds # {}}}

KindKeys(i, c, r, filters) == {IndexKey(i, c, r, k, Absent) : k \in ExtractKinds(filters)}

\* Where register_scoped files a subscription and remove_from_index looks for it.
IndexKeys(c, filters, r) ==
    IF r # Global
    THEN IF KindWildcard(filters)
         THEN {IndexKey("channel_wildcard", c, r, Absent, Absent)}
         ELSE KindKeys("channel_kind", c, r, filters)
    ELSE IF PConstrained(filters)
         THEN PKindKeys(c, filters)
         ELSE IF KindWildcard(filters)
              THEN {IndexKey("global_wildcard", c, Global, Absent, Absent)}
              ELSE KindKeys("global_kind", c, Global, filters)

\* Mutation: the wildcard indexes are not consulted.
LookupKeys_KindOnly(c, e) ==
    IF e.room # Global
    THEN {IndexKey("channel_kind", c, e.room, e.kind, Absent)}
    ELSE {IndexKey("global_p_kind", c, Global, e.kind, p) : p \in e.ps}
         \cup {IndexKey("global_kind", c, Global, e.kind, Absent)}

\* Mutation: events of a channel fall through to the global indexes.
LookupKeys_FallsThrough(c, e) ==
    {IndexKey("channel_kind", c, r, e.kind, Absent) : r \in {e.room} \cap Rooms}
    \cup {IndexKey("channel_wildcard", c, r, Absent, Absent) : r \in {e.room} \cap Rooms}
    \cup {IndexKey("global_p_kind", c, Global, e.kind, p) : p \in e.ps}
    \cup {IndexKey("global_kind", c, Global, e.kind, Absent),
          IndexKey("global_wildcard", c, Global, Absent, Absent)}

\* Where fan_out_scoped looks for the subscriptions of an event.
LookupKeys(c, e) ==
    IF e.room # Global
    THEN {IndexKey("channel_kind", c, e.room, e.kind, Absent),
          IndexKey("channel_wildcard", c, e.room, Absent, Absent)}
    ELSE {IndexKey("global_p_kind", c, Global, e.kind, p) : p \in e.ps}
         \cup {IndexKey("global_kind", c, Global, e.kind, Absent),
               IndexKey("global_wildcard", c, Global, Absent, Absent)}

=============================================================================
