----------------------------- MODULE ChannelAccess -----------------------------
(***************************************************************************)
(* Who gets to read and write a channel, as one relay pod decides it from  *)
(* its caches (buzz-relay state.rs, handlers/req.rs, ingest.rs, event.rs,  *)
(* side_effects.rs).                                                       *)
(*                                                                         *)
(* The database holds the truth.  The pod caches answers about membership, *)
(* accessible channels and privacy for a fixed time; a handler that        *)
(* changes the truth drops the keys on its own pod and publishes the drop, *)
(* which the other pods may never see.  A lookup reads the database before *)
(* its answer is cached, so a write and its drop can fall in between.      *)
(*                                                                         *)
(* The model is of one channel and one pod; other pods appear through the  *)
(* database and the messages they publish.  A person has one connection    *)
(* with at most one subscription to the channel.                           *)
(***************************************************************************)
EXTENDS Naturals, FiniteSets

CONSTANTS
    People,
    NoOne,
    Tasks,         \* handlers that run at a time
    CacheTTL,      \* ticks a cached answer lives (10 s in the code)
    HandlerTime,   \* ticks a handler takes at most, its queries included
    MaxWrites      \* bound: changes of memberships, visibility or the channel

ASSUME AccessAssumption ==
    /\ NoOne \notin People
    /\ CacheTTL \in Nat /\ HandlerTime \in Nat /\ MaxWrites \in Nat

VARIABLES
    members,     \* database: channel_members without removed_at
    visibility,  \* database: "open" or "private"
    deleted,     \* database: deleted_at is set
    cache,       \* the pod's cached answers
    handlers,    \* committed changes whose handler here has still to invalidate
    messages,    \* cache drops on their way to this pod
    subs,        \* people with a live subscription on this pod
    tasks,       \* the handlers that run on this pod
    writes,
    missed,      \* history: keys that a lost drop or a late answer left stale
    quiet,       \* history: ticks since something about a person's access changed
    granted,     \* history: people allowed by the last step
    denied       \* history: people refused by the last step

database   == <<members, visibility, deleted>>
cached     == <<cache, missed>>
accessVars == <<members, visibility, deleted, cache, handlers, messages, subs, tasks, writes,
                missed, quiet, granted, denied>>

\* A step that gives no verdict.
Silent == granted' = {} /\ denied' = {}

\* An answer may be as old as the handler that read it when it is cached, and
\* is used by a handler that takes as long again.
Bound == HandlerTime + CacheTTL + HandlerTime

MemberKey(p) == [of |-> "member", who |-> p]
AccessKey(p) == [of |-> "access", who |-> p]
PrivateKey   == [of |-> "private", who |-> NoOne]
Keys == [of : {"member", "access"}, who : People] \cup {PrivateKey}

Member(p) == p \in members /\ ~ deleted
Open      == visibility = "open" /\ ~ deleted
Access(p) == Member(p) \/ Open

\* What the query behind a key answers: is_member, get_accessible_channel_ids,
\* get_channel.
Answer(k) ==
    IF \/ k.of = "member" /\ Member(k.who)
       \/ k.of = "access" /\ Access(k.who)
       \/ k.of = "private" /\ visibility = "private"
    THEN "yes" ELSE "no"

Absent == [val |-> "none", age |-> 0]

Stale(k) == cache[k].val \notin {"none", Answer(k)}

\* The history of a step that leaves keys of S stale without a drop to come.
Missed(S) == missed' = {k \in missed \cup S : Stale(k)'}

Idle == [pc |-> "idle", who |-> NoOne, age |-> 0,
         row |-> "none", vis |-> "none", todo |-> {}, allowed |-> {}, refused |-> {},
         read |-> "none"]

AccessInit ==
    /\ members \in SUBSET People
    /\ visibility \in {"open", "private"} /\ deleted = FALSE
    /\ cache = [k \in Keys |-> Absent]
    /\ handlers = {} /\ messages = {} /\ subs = {}
    /\ tasks = [t \in Tasks |-> Idle]
    /\ writes = 0 /\ missed = {}
    /\ quiet = [p \in People |-> Bound + 1]
    /\ granted = {} /\ denied = {}

-----------------------------------------------------------------------------
(* Changes, and the cache drops that follow them.                          *)

\* Mutant: a change of membership leaves the accessible channels cached.
Covered_MemberOnly(d) ==
    {k \in Keys : \/ d.op = "Membership" /\ k = MemberKey(d.who)
                  \/ d.op \in {"AccessibleAll", "Flip"} /\ k.of = "access"
                  \/ d.op \in {"Visibility", "Flip"} /\ k.of = "private"
                  \/ d.op = "ChannelDeleted"}

\* The keys a drop removes (invalidate_membership_local,
\* invalidate_all_accessible_channels_local and
\* invalidate_channel_visibility_local, invalidate_channel_deleted_local).
Covered(d) ==
    {k \in Keys : \/ d.op = "Membership" /\ k \in {MemberKey(d.who), AccessKey(d.who)}
                  \/ d.op \in {"AccessibleAll", "Flip"} /\ k.of = "access"
                  \/ d.op \in {"Visibility", "Flip"} /\ k.of = "private"
                  \/ d.op = "ChannelDeleted"}

\* What a change publishes: one message, or two for a flip.
Published(d) ==
    IF d.op = "Flip" THEN {[op |-> "AccessibleAll", who |-> NoOne], [op |-> "Visibility", who |-> NoOne]}
    ELSE {[op |-> d.op, who |-> d.who]}

\* A change is committed by a handler of this pod, which will invalidate, or
\* of another one, whose drop may reach this pod.
Commit(d, concerned) ==
    /\ writes < MaxWrites /\ writes' = writes + 1
    /\ quiet' = [p \in People |-> IF p \in concerned THEN 0 ELSE quiet[p]]
    /\ \/ handlers' = handlers \cup {d} /\ UNCHANGED messages
       \/ messages' = messages \cup Published(d) /\ UNCHANGED handlers
    /\ UNCHANGED <<cache, subs, tasks>>
    /\ Missed({}) /\ Silent

\* handle_put_user, handle_join_request: add_member.
AddMember(p) ==
    /\ p \notin members /\ ~ deleted
    /\ members' = members \cup {p}
    /\ UNCHANGED <<visibility, deleted>>
    /\ Commit([op |-> "Membership", who |-> p, evict |-> FALSE], {p})

\* handle_remove_user, handle_leave_request: remove_member.
RemoveMember(p) ==
    /\ p \in members
    /\ members' = members \ {p}
    /\ UNCHANGED <<visibility, deleted>>
    /\ Commit([op |-> "Membership", who |-> p, evict |-> TRUE], {p})

\* handle_edit_metadata: update_channel.  was_open was read before it, and a
\* concurrent flip may have come in between.
Flip(v, wasOpen) ==
    /\ ~ deleted
    /\ visibility' = v
    /\ UNCHANGED <<members, deleted>>
    /\ Commit([op |-> "Flip", who |-> NoOne, evict |-> wasOpen /\ v = "private"], People)

\* handle_delete_group: soft_delete_channel.
DeleteChannel ==
    /\ ~ deleted /\ deleted' = TRUE
    /\ UNCHANGED <<members, visibility>>
    /\ Commit([op |-> "ChannelDeleted", who |-> NoOne, evict |-> FALSE], People)

Dropped(d) == [k \in Keys |-> IF k \in Covered(d) THEN Absent ELSE cache[k]]

\* The handler goes on: the local drop and the eviction of live subscriptions.
\* What it publishes comes back to this pod and repeats the drop, which is
\* left out.
Invalidate(d) ==
    /\ UNCHANGED database
    /\ handlers' = handlers \ {d}
    /\ cache' = Dropped(d) /\ Missed({})
    /\ subs' = IF ~ d.evict THEN subs
               ELSE IF d.op = "Membership" THEN subs \ {d.who} ELSE subs \cap members
    /\ Silent
    /\ UNCHANGED <<messages, tasks, writes, quiet>>

\* apply_cache_invalidation.
ApplyDrop(d) ==
    /\ UNCHANGED database
    /\ messages' = messages \ {d}
    /\ cache' = Dropped(d) /\ Missed({})
    /\ Silent
    /\ UNCHANGED <<handlers, subs, tasks, writes, quiet>>

\* Redis does not keep messages: a failed publish, an offline subscriber, a
\* consumer that lagged.
LoseDrop(d) ==
    /\ messages' = messages \ {d}
    /\ UNCHANGED cache /\ UNCHANGED database
    /\ Missed(Covered(d)) /\ Silent
    /\ UNCHANGED <<handlers, subs, tasks, writes, quiet>>

-----------------------------------------------------------------------------
(* Lookups through the caches.                                             *)

TaskStep == UNCHANGED <<database, handlers, messages, writes, quiet>>

\* The key a handler looks up next.
KeyOf(x) ==
    IF x.pc = "access" THEN AccessKey(x.who)
    ELSE IF x.pc \in {"row", "visibility"} THEN PrivateKey
    ELSE MemberKey(x.who)

\* Lookups that do not try the cache first.
Uncached == {"row", "confirm"}

Looking(x) == x.pc \in {"access", "confirm", "row", "gate", "visibility", "member"}

\* A cache miss sends the query; its answer is what the database holds now.
\* get_channel finds no deleted channel.
Ask(t) ==
    /\ TaskStep
    /\ Looking(tasks[t]) /\ tasks[t].read = "none"
    /\ tasks[t].pc \in Uncached \/ cache[KeyOf(tasks[t])].val = "none"
    /\ tasks[t].pc \in {"row", "visibility"} => ~ deleted
    /\ tasks' = [tasks EXCEPT ![t].read = Answer(KeyOf(tasks[t]))]
    /\ Silent
    /\ UNCHANGED <<cached, subs>>

\* Only a private channel's visibility is cached, and a confirmation is not.
Cached(t, v) == tasks[t].pc # "confirm" /\ (KeyOf(tasks[t]) = PrivateKey => v = "yes")

\* Mutant: a hit renews the cached answer.
Learns_TimeToIdle(t, v) ==
    LET k == KeyOf(tasks[t]) IN
    \/ /\ tasks[t].read = "none" /\ tasks[t].pc \notin Uncached
       /\ cache[k].val = v /\ v # "none"
       /\ cache' = [cache EXCEPT ![k].age = 0]
       /\ UNCHANGED missed
    \/ /\ tasks[t].read = v /\ v # "none"
       /\ cache' = IF Cached(t, v) /\ (tasks[t].pc = "row" => cache[k].val = "none")
                   THEN [cache EXCEPT ![k] = [val |-> v, age |-> 0]] ELSE cache
       /\ Missed({k})

\* A lookup is answered with v, by the cache or by the query, whose answer
\* is cached.  The row that ingest reads is only cached if nothing was.
Learns(t, v) ==
    LET k == KeyOf(tasks[t]) IN
    \/ /\ tasks[t].read = "none" /\ tasks[t].pc \notin Uncached
       /\ cache[k].val = v /\ v # "none"
       /\ UNCHANGED cached
    \/ /\ tasks[t].read = v /\ v # "none"
       /\ cache' = IF Cached(t, v) /\ (tasks[t].pc = "row" => cache[k].val = "none")
                   THEN [cache EXCEPT ![k] = [val |-> v, age |-> 0]] ELSE cache
       /\ Missed({k})

\* The record of a task that goes on at pc.
At(t, pc) == [tasks[t] EXCEPT !.pc = pc, !.read = "none"]

Moves(t, record) == tasks' = [tasks EXCEPT ![t] = record]

\* A lookup fails: the request is closed or rejected, the recipient skipped,
\* or nobody receives the event.
LookupFails(t) ==
    /\ TaskStep
    /\ Looking(tasks[t])
    /\ Moves(t, IF tasks[t].pc = "member"
                THEN [At(t, "members") EXCEPT !.todo = @ \ {tasks[t].who}]
                ELSE IF tasks[t].pc = "row" THEN At(t, "gate") ELSE Idle)
    /\ Silent
    /\ UNCHANGED <<cached, subs>>

-----------------------------------------------------------------------------
(* handle_req.                                                             *)

SpawnReq(t, p) ==
    /\ TaskStep
    /\ tasks[t] = Idle
    /\ Moves(t, [Idle EXCEPT !.pc = "access", !.who = p])
    /\ Silent
    /\ UNCHANGED <<cached, subs>>

\* Access: the subscription is registered and history delivered.
Admits(t) ==
    /\ subs' = subs \cup {tasks[t].who}
    /\ granted' = {tasks[t].who} /\ denied' = {}
    /\ Moves(t, Idle)

\* A cached or fetched list without the channel is confirmed against the
\* database before the request is refused.
ReqAccess(t, v) ==
    /\ TaskStep
    /\ tasks[t].pc = "access" /\ Learns(t, v)
    /\ \/ v = "yes" /\ Admits(t)
       \/ v = "no" /\ Moves(t, At(t, "confirm")) /\ UNCHANGED subs /\ Silent

ReqConfirm(t, v) ==
    /\ TaskStep
    /\ tasks[t].pc = "confirm" /\ Learns(t, v)
    /\ \/ v = "yes" /\ Admits(t)
       \/ /\ v = "no" /\ Moves(t, Idle)
          /\ granted' = {} /\ denied' = {tasks[t].who}
          /\ UNCHANGED subs

\* CLOSE, or the end of the connection.
Unsubscribe(p) ==
    /\ TaskStep
    /\ p \in subs /\ subs' = subs \ {p}
    /\ Silent
    /\ UNCHANGED <<cached, tasks>>

-----------------------------------------------------------------------------
(* An event is ingested here: the gate, then dispatch_persistent_event.    *)

SpawnIngest(t, p) ==
    /\ TaskStep
    /\ tasks[t] = Idle
    /\ Moves(t, [Idle EXCEPT !.pc = "row", !.who = p])
    /\ Silent
    /\ UNCHANGED <<cached, subs>>

\* The visibility threaded to fan-out: a cached private wins over the row.
IngestRow(t, v) ==
    /\ TaskStep
    /\ tasks[t].pc = "row" /\ Learns(t, v)
    /\ Moves(t, [At(t, "gate") EXCEPT !.row = v,
                    !.vis = IF cache[PrivateKey].val = "yes" THEN "yes" ELSE v])
    /\ Silent
    /\ UNCHANGED subs

\* check_channel_membership; without a row the channel is read again.
IngestGate(t, v) ==
    LET open == IF tasks[t].row = "none" THEN Open ELSE tasks[t].row = "no"
        p == tasks[t].who IN
    /\ TaskStep
    /\ tasks[t].pc = "gate" /\ Learns(t, v)
    /\ \/ /\ v = "yes" \/ open
          /\ granted' = {p} /\ denied' = {}
          /\ Moves(t, [At(t, "match") EXCEPT !.who = NoOne, !.row = "none"])
       \/ /\ v = "no" /\ ~ open
          /\ granted' = {} /\ denied' = {p}
          /\ Moves(t, Idle)
    /\ UNCHANGED subs

\* Some kinds are authorised by a validator of their own.
GateSkipped(t) ==
    /\ TaskStep
    /\ tasks[t].pc = "gate" /\ tasks[t].read = "none"
    /\ Moves(t, [At(t, "match") EXCEPT !.who = NoOne, !.row = "none"])
    /\ Silent
    /\ UNCHANGED <<cached, subs>>

-----------------------------------------------------------------------------
(* The fan-out of an event: dispatch_persistent_event once the gate is     *)
(* passed, fan_out_pubsub_event for an event another pod published.        *)

\* The event comes from another pod, or the relay signed it itself; no
\* visibility is threaded.
SpawnFanOut(t) ==
    /\ TaskStep
    /\ tasks[t] = Idle
    /\ Moves(t, [Idle EXCEPT !.pc = "match"])
    /\ Silent
    /\ UNCHANGED <<cached, subs>>

\* The people S match.  Everybody receives on an open channel, members on a
\* private one.
Gated(t, v, S) ==
    IF v = "no" THEN [At(t, "send") EXCEPT !.allowed = S, !.todo = {}, !.vis = "none"]
    ELSE [At(t, "members") EXCEPT !.todo = S, !.vis = "none"]

\* fan_out_scoped finds whoever has a subscription now; a threaded visibility
\* is used as it is.
Match(t) ==
    /\ TaskStep
    /\ tasks[t].pc = "match"
    /\ Moves(t, IF tasks[t].vis = "none" THEN [At(t, "visibility") EXCEPT !.todo = subs]
                ELSE Gated(t, tasks[t].vis, subs))
    /\ Silent
    /\ UNCHANGED <<cached, subs>>

FilterVisibility(t, v) ==
    /\ TaskStep
    /\ tasks[t].pc = "visibility" /\ Learns(t, v)
    /\ Moves(t, Gated(t, v, tasks[t].todo))
    /\ Silent
    /\ UNCHANGED subs

FilterNext(t, p) ==
    /\ TaskStep
    /\ tasks[t].pc = "members"
    /\ p \in tasks[t].todo
    /\ Moves(t, [At(t, "member") EXCEPT !.who = p])
    /\ Silent
    /\ UNCHANGED <<cached, subs>>

FilterMember(t, v) ==
    LET p == tasks[t].who IN
    /\ TaskStep
    /\ tasks[t].pc = "member" /\ Learns(t, v)
    /\ Moves(t, [At(t, "members") EXCEPT !.who = NoOne, !.todo = @ \ {p},
                    !.allowed = IF v = "yes" THEN @ \cup {p} ELSE @,
                    !.refused = IF v = "no" THEN @ \cup {p} ELSE @])
    /\ Silent
    /\ UNCHANGED subs

Send(t) ==
    /\ TaskStep
    /\ tasks[t].pc = "send" \/ (tasks[t].pc = "members" /\ tasks[t].todo = {})
    /\ granted' = tasks[t].allowed /\ denied' = tasks[t].refused
    /\ Moves(t, Idle)
    /\ UNCHANGED <<cached, subs>>

-----------------------------------------------------------------------------
(* Time.                                                                   *)

\* Mutant: an answer lives a tick too long.
Aged_OffByOne(x) == IF x.val = "none" \/ x.age > CacheTTL THEN Absent ELSE [x EXCEPT !.age = @ + 1]

\* time_to_live: a hit does not renew an answer.
Aged(x) == IF x.val = "none" \/ x.age >= CacheTTL THEN Absent ELSE [x EXCEPT !.age = @ + 1]

AgedTask(x) == IF x = Idle THEN Idle ELSE [x EXCEPT !.age = @ + 1]

\* A tick: no handler takes longer than its bound.
Tick ==
    /\ \A t \in Tasks : tasks[t] # Idle => tasks[t].age < HandlerTime
    /\ cache' = [k \in Keys |-> Aged(cache[k])]
    /\ UNCHANGED database /\ Missed({})
    /\ tasks' = [t \in Tasks |-> AgedTask(tasks[t])]
    /\ quiet' = [p \in People |-> IF quiet[p] > Bound THEN quiet[p] ELSE quiet[p] + 1]
    /\ Silent
    /\ UNCHANGED <<handlers, messages, subs, writes>>

-----------------------------------------------------------------------------
Writes ==
    \/ \E p \in People : AddMember(p) \/ RemoveMember(p)
    \/ \E v \in {"open", "private"} \ {visibility}, wasOpen \in BOOLEAN : Flip(v, wasOpen)
    \/ DeleteChannel

Drops ==
    \/ \E d \in handlers : Invalidate(d)
    \/ \E d \in messages : ApplyDrop(d) \/ LoseDrop(d)

TaskSteps(t) ==
    \/ Ask(t) \/ LookupFails(t)
    \/ \E v \in {"yes", "no"} :
          ReqAccess(t, v) \/ ReqConfirm(t, v) \/ IngestRow(t, v) \/ IngestGate(t, v)
          \/ FilterVisibility(t, v) \/ FilterMember(t, v)
    \/ GateSkipped(t) \/ SpawnFanOut(t) \/ Match(t) \/ Send(t)
    \/ \E p \in People : FilterNext(t, p) \/ SpawnReq(t, p) \/ SpawnIngest(t, p)

AccessNext ==
    \/ Writes \/ Drops
    \/ \E t \in Tasks : TaskSteps(t)
    \/ \E p \in People : Unsubscribe(p)
    \/ Tick

AccessSpec == AccessInit /\ [][AccessNext]_accessVars

-----------------------------------------------------------------------------
(* Properties.                                                             *)

Answers == {"none", "yes", "no"}

Pcs == {"idle", "access", "confirm", "row", "gate", "match", "visibility",
         "members", "member", "send"}

\* Every variable has its type; cached answers, queries and handlers are
\* within their times, and a task that looks up a person's key has one.
AccessTypeOK ==
    /\ members \subseteq People /\ visibility \in {"open", "private"} /\ deleted \in BOOLEAN
    /\ cache \in [Keys -> [val : Answers, age : 0..CacheTTL]]
    /\ handlers \subseteq [op : {"Membership", "Flip", "ChannelDeleted"}, who : People \cup {NoOne},
                           evict : BOOLEAN]
    /\ messages \subseteq [op : {"Membership", "AccessibleAll", "Visibility", "ChannelDeleted"},
                           who : People \cup {NoOne}]
    /\ \A d \in handlers \cup messages : d.op = "Membership" => d.who \in People
    /\ subs \subseteq People
    /\ tasks \in [Tasks -> [pc : Pcs,
                            who : People \cup {NoOne},
                            age : 0..HandlerTime, row : Answers, vis : Answers,
                            todo : SUBSET People, allowed : SUBSET People, refused : SUBSET People,
                            read : Answers]]
    /\ \A t \in Tasks :
          tasks[t].pc \in {"access", "confirm", "row", "gate", "member"} => tasks[t].who \in People
    /\ writes \in 0..MaxWrites /\ missed \subseteq Keys
    /\ quiet \in [People -> 0..Bound + 1]
    /\ granted \subseteq People /\ denied \subseteq People

\* A cached answer that is no longer true has an explanation: its drop is
\* under way or was lost, or the answer was read before the change and
\* cached after it.  No handler forgets a cache that its change affects.
StaleIsExplained ==
    \A k \in Keys :
        Stale(k) => k \in missed \/ \E d \in handlers \cup messages : k \in Covered(d)

Contract == INSTANCE AccessContract WITH access <- {p \in People : Access(p)}

\* REQ, ingest and fan-out give right verdicts about everyone whose access
\* has not changed for the time a cached answer, a query and a handler may
\* take together, whatever drops were lost: no event reaches a removed
\* member later than that, and none is withheld from a new one.
VerdictsInTime == Contract!ContractSpec
=============================================================================
