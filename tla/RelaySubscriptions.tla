------------------------- MODULE RelaySubscriptions -------------------------
(***************************************************************************)
(* The life of WebSocket subscriptions in one relay process, on top of the *)
(* Redis topic interest of PubSubTopics.                                   *)
(*                                                                         *)
(* A REQ runs as a spawned task holding a permit of the handler semaphore; *)
(* CLOSE runs inline in the connection's receive loop; a connection's      *)
(* cleanup and the eviction of a channel's subscriptions run in tasks of   *)
(* their own.  All of them update three places that no common lock covers: *)
(* the connection's own subscription map, the registry that fan-out routes *)
(* by, and the topic refcounts.  Every lock section and every await is a   *)
(* step.  The registry's indexes are the subject of SubscriptionRegistry.  *)
(***************************************************************************)
EXTENDS PubSubTopics, FiniteSets

CONSTANTS
    Conns,        \* WebSocket connections
    SubIds,       \* subscription ids a client uses
    Channels,     \* the topics that are channels; the others are community-global
    Evictors,     \* side-effect tasks that evict channel subscriptions
    MaxSubs,      \* MAX_SUBSCRIPTIONS (1024 in the code)
    MaxReqs,      \* bound: REQ frames in a behaviour
    MaxEvictions  \* bound: evictions in a behaviour

ASSUME SubscriptionsAssumption ==
    /\ IsFiniteSet(Conns) /\ IsFiniteSet(SubIds)
    /\ IsFiniteSet(Tasks) /\ IsFiniteSet(Evictors)
    /\ Channels \subseteq Topics
    /\ MaxSubs \in Nat \ {0}
    /\ MaxReqs \in Nat
    /\ MaxEvictions \in Nat

VARIABLES
    phase,     \* a connection: "open", "closing", "cleaning", "gone"
    mapped,    \* keys of the connections' own subscription maps
    registry,  \* SubscriptionRegistry.subs: the topic a subscription is routed by
    req,       \* the REQ handler task of each permit
    recv,      \* the CLOSE a connection's receive loop is in the middle of
    evict,     \* the eviction each evictor is in the middle of
    owed,      \* topics of removed subscriptions that are still to be released
    view,      \* the last verdict on a subscription that was sent to its client
    reqs,      \* REQ frames so far
    evictions  \* evictions so far

lifeVars == <<phase, mapped, registry, req, recv, evict, owed, view, reqs, evictions>>
allVars  == <<vars, lifeVars>>

Keys == Conns \X SubIds

\* Who owes a release: a REQ task that replaced a subscription, a CLOSE, the
\* cleanup of a connection, an eviction.
Slots == ({"req"} \X Tasks)
         \cup ({"close"} \X Conns)
         \cup ({"cleanup"} \X Keys)
         \cup ({"evict"} \X (Evictors \X SubIds))

ReqState   == [pc : {"check", "access", "unregister", "register", "retain", "history"},
               conn : Conns, sub : SubIds, topic : Topics]
CloseState == [pc : {"unregister", "ack"}, sub : SubIds]
EvictState == [pc : {"remove", "release"}, conn : Conns, topic : Channels,
               todo : SUBSET SubIds, got : SUBSET SubIds]

NoReq   == [pc |-> "idle"]
NoClose == [pc |-> "idle"]
NoEvict == [pc |-> "idle"]

LifeInit ==
    /\ Init
    /\ phase = [c \in Conns |-> "open"]
    /\ mapped = {}
    /\ registry = [x \in Keys |-> NoTopic]
    /\ req = [k \in Tasks |-> NoReq]
    /\ recv = [c \in Conns |-> NoClose]
    /\ evict = [e \in Evictors |-> NoEvict]
    /\ owed = [o \in Slots |-> NoTopic]
    /\ view = [x \in Keys |-> "none"]
    /\ reqs = 0
    /\ evictions = 0

-----------------------------------------------------------------------------
(* handle_req, one spawned task per permit. *)

Key(k) == <<req[k].conn, req[k].sub>>

GoTo(k, pc) == req' = [req EXCEPT ![k].pc = pc]

\* A verdict is sent to the client, if it is still there.  Whether the frame fits
\* the connection's send buffer is not looked at here.
Tell(x, what) ==
    view' = [view EXCEPT ![x] = IF phase[x[1]] = "open" THEN what ELSE @]

\* The receive loop takes up a frame about x: the connection is open and the
\* loop is not inside a CLOSE.  REQ tasks of x may still be at work.
MaySend(x) ==
    /\ phase[x[1]] = "open"
    /\ recv[x[1]] = NoClose

\* A REQ frame arrives, gets a permit and is spawned.
SpawnReq(x, t, k) ==
    /\ MaySend(x)
    /\ req[k] = NoReq
    /\ reqs < MaxReqs
    /\ reqs' = reqs + 1
    /\ req' = [req EXCEPT ![k] = [pc |-> "check", conn |-> x[1], sub |-> x[2], topic |-> t]]
    /\ view' = [view EXCEPT ![x] = "requested"]
    /\ UNCHANGED <<vars, phase, mapped, registry, recv, evict, owed, evictions>>

\* A REQ frame is refused by the quota, or for want of a permit, with CLOSED.
RefuseFrame(x) ==
    /\ MaySend(x)
    /\ reqs < MaxReqs
    /\ reqs' = reqs + 1
    /\ view' = [view EXCEPT ![x] = "ended"]
    /\ UNCHANGED <<vars, phase, mapped, registry, req, recv, evict, owed, evictions>>

AtLimit(x) ==
    /\ x \notin mapped
    /\ Cardinality({y \in mapped : y[1] = x[1]}) >= MaxSubs

\* Mutation: the limit is not looked at.
ReqCheck_NoLimit(k) ==
    /\ req[k].pc = "check"
    /\ GoTo(k, "access")
    /\ UNCHANGED <<vars, phase, mapped, registry, recv, evict, owed, view, reqs, evictions>>

\* Auth state, scope and the subscription limit, under the map's lock.
ReqCheck(k) ==
    /\ req[k].pc = "check"
    /\ ~AtLimit(Key(k))
    /\ GoTo(k, "access")
    /\ UNCHANGED <<vars, phase, mapped, registry, recv, evict, owed, view, reqs, evictions>>

\* An early return: over the limit, no access to the channel, a database
\* error, a gated filter (all CLOSED), or a search, which ends in EOSE
\* without registering anything.
ReqReturn(k) ==
    /\ \/ req[k].pc = "check" /\ AtLimit(Key(k))
       \/ req[k].pc = "access"
    /\ req' = [req EXCEPT ![k] = NoReq]
    /\ Tell(Key(k), "ended")
    /\ UNCHANGED <<vars, phase, mapped, registry, recv, evict, owed, reqs, evictions>>

\* Access resolved; the connection's own map is locked again.
ReqInsert(k) ==
    /\ req[k].pc = "access"
    /\ mapped' = mapped \cup {Key(k)}
    /\ GoTo(k, "unregister")
    /\ UNCHANGED <<vars, phase, registry, recv, evict, owed, view, reqs, evictions>>

\* register_scoped first removes the subscription it replaces ...
ReqUnregister(k) ==
    /\ req[k].pc = "unregister"
    /\ registry' = [registry EXCEPT ![Key(k)] = NoTopic]
    /\ owed' = [owed EXCEPT ![<<"req", k>>] = registry[Key(k)]]
    /\ GoTo(k, "register")
    /\ UNCHANGED <<vars, phase, mapped, recv, evict, view, reqs, evictions>>

\* Mutation: the removal by id comes after the insertion.
ReqRegister_RemovesLast(k) ==
    /\ req[k].pc = "register"
    /\ registry' = [registry EXCEPT ![Key(k)] = NoTopic]
    /\ GoTo(k, "retain")
    /\ UNCHANGED <<vars, phase, mapped, recv, evict, owed, view, reqs, evictions>>

\* ... and then, in another lock section, inserts the new one.
ReqRegister(k) ==
    /\ req[k].pc = "register"
    /\ registry' = [registry EXCEPT ![Key(k)] = req[k].topic]
    /\ GoTo(k, "retain")
    /\ UNCHANGED <<vars, phase, mapped, recv, evict, owed, view, reqs, evictions>>

\* release_topic of an unretained topic logs a warning and does nothing.
Release(t) == IF desired[t] > 0 THEN ReleaseTopic(t) ELSE UNCHANGED vars

Owes(o) == owed[o] # NoTopic

\* One awaited release_topic call of whoever owes it.
PayOff(o) ==
    /\ Owes(o)
    /\ Release(owed[o])
    /\ owed' = [owed EXCEPT ![o] = NoTopic]

ReqRelease(k) ==
    /\ req[k].pc = "retain"
    /\ PayOff(<<"req", k>>)
    /\ UNCHANGED <<phase, mapped, registry, req, recv, evict, view, reqs, evictions>>

ReqRetain(k) ==
    /\ req[k].pc = "retain"
    /\ ~Owes(<<"req", k>>)
    /\ RetainTopic(k, req[k].topic)
    /\ GoTo(k, "history")
    /\ UNCHANGED <<phase, mapped, registry, recv, evict, owed, view, reqs, evictions>>

\* The 0 -> 1 edge waits for a slot in the command channel before history is read.
ReqSend(k) ==
    /\ SendSubscribe(k)
    /\ UNCHANGED lifeVars

\* Mutation: the task ends without giving its permit back.
ReqEose_KeepsPermit(k) ==
    /\ req[k].pc = "history"
    /\ sending[k] = NoTopic
    /\ GoTo(k, "done")
    /\ Tell(Key(k), "open")
    /\ UNCHANGED <<vars, phase, mapped, registry, recv, evict, owed, reqs, evictions>>

\* Stored events, then EOSE (also when a query fails); if a stored event finds
\* the send buffer full, the task ends without EOSE.  A client that was told
\* CLOSED meanwhile does not take EOSE for a live subscription.
ReqEose(k) ==
    /\ req[k].pc = "history"
    /\ sending[k] = NoTopic
    /\ req' = [req EXCEPT ![k] = NoReq]
    /\ \/ Tell(Key(k), IF view[Key(k)] = "requested" THEN "open" ELSE view[Key(k)])
       \/ UNCHANGED view
    /\ UNCHANGED <<vars, phase, mapped, registry, recv, evict, owed, reqs, evictions>>

-----------------------------------------------------------------------------
(* handle_close, inline in the receive loop of connection c. *)

CloseUnmap(x) ==
    /\ MaySend(x)
    /\ view[x] # "none"
    /\ mapped' = mapped \ {x}
    /\ recv' = [recv EXCEPT ![x[1]] = [pc |-> "unregister", sub |-> x[2]]]
    /\ UNCHANGED <<vars, phase, registry, req, evict, owed, view, reqs, evictions>>

\* Mutation: the scope to release is looked up, the entry is left in place.
CloseUnregister_Peek(c) ==
    /\ recv[c].pc = "unregister"
    /\ owed' = [owed EXCEPT ![<<"close", c>>] = registry[<<c, recv[c].sub>>]]
    /\ recv' = [recv EXCEPT ![c].pc = "ack"]
    /\ UNCHANGED <<vars, phase, mapped, registry, req, evict, view, reqs, evictions>>

CloseUnregister(c) ==
    /\ recv[c].pc = "unregister"
    /\ LET x == <<c, recv[c].sub>>
       IN /\ registry' = [registry EXCEPT ![x] = NoTopic]
          /\ owed' = [owed EXCEPT ![<<"close", c>>] = registry[x]]
    /\ recv' = [recv EXCEPT ![c].pc = "ack"]
    /\ UNCHANGED <<vars, phase, mapped, req, evict, view, reqs, evictions>>

CloseRelease(c) ==
    /\ recv[c].pc = "ack"
    /\ PayOff(<<"close", c>>)
    /\ UNCHANGED <<phase, mapped, registry, req, recv, evict, view, reqs, evictions>>

CloseAck(c) ==
    /\ recv[c].pc = "ack"
    /\ ~Owes(<<"close", c>>)
    /\ Tell(<<c, recv[c].sub>>, "closed")
    /\ recv' = [recv EXCEPT ![c] = NoClose]
    /\ UNCHANGED <<vars, phase, mapped, registry, req, evict, owed, reqs, evictions>>

-----------------------------------------------------------------------------
(* handle_active_connection after its receive loop has ended. *)

\* The client hangs up, or the connection is cancelled; the receive loop
\* notices between two frames.  Spawned REQ tasks are not waited for.
LeaveLoop(c) ==
    /\ phase[c] = "open"
    /\ recv[c] = NoClose
    /\ phase' = [phase EXCEPT ![c] = "closing"]
    /\ UNCHANGED <<vars, mapped, registry, req, recv, evict, owed, view, reqs, evictions>>

\* remove_connection takes all of the connection's subscriptions at once.
RemoveConnection(c) ==
    /\ phase[c] = "closing"
    /\ phase' = [phase EXCEPT ![c] = "cleaning"]
    /\ registry' = [x \in Keys |-> IF x[1] = c THEN NoTopic ELSE registry[x]]
    /\ owed' = [o \in Slots |-> IF o[1] = "cleanup" /\ o[2][1] = c
                                THEN registry[o[2]] ELSE owed[o]]
    /\ UNCHANGED <<vars, mapped, req, recv, evict, view, reqs, evictions>>

CleanupRelease(x) ==
    /\ phase[x[1]] = "cleaning"
    /\ PayOff(<<"cleanup", x>>)
    /\ UNCHANGED <<phase, mapped, registry, req, recv, evict, view, reqs, evictions>>

\* deregister, once every removed subscription's topic is released.
Deregister(c) ==
    /\ phase[c] = "cleaning"
    /\ \A s \in SubIds : ~Owes(<<"cleanup", <<c, s>>>>)
    /\ phase' = [phase EXCEPT ![c] = "gone"]
    /\ UNCHANGED <<vars, mapped, registry, req, recv, evict, owed, view, reqs, evictions>>

-----------------------------------------------------------------------------
(* evict_conn_channel_subscriptions, for one connection and channel. *)

\* remove_channel_subscriptions_scoped collects the ids under one lock ...
EvictCollect(e, c, t) ==
    /\ evict[e] = NoEvict
    /\ evictions < MaxEvictions
    /\ evictions' = evictions + 1
    /\ LET ids == {s \in SubIds : registry[<<c, s>>] = t}
       IN /\ ids # {}
          /\ evict' = [evict EXCEPT ![e] =
                 [pc |-> "remove", conn |-> c, topic |-> t, todo |-> ids, got |-> {}]]
    /\ UNCHANGED <<vars, phase, mapped, registry, req, recv, owed, view, reqs>>

\* ... and removes them by id, each under a lock of its own.
EvictRemove(e, s) ==
    /\ evict[e].pc = "remove"
    /\ s \in evict[e].todo
    /\ LET x == <<evict[e].conn, s>>
       IN /\ registry' = [registry EXCEPT ![x] = NoTopic]
          /\ owed' = [owed EXCEPT ![<<"evict", <<e, s>>>>] = registry[x]]
          /\ evict' = [evict EXCEPT ![e].todo = @ \ {s},
                           ![e].got = IF registry[x] = NoTopic THEN @ ELSE @ \cup {s}]
    /\ UNCHANGED <<vars, phase, mapped, req, recv, view, reqs, evictions>>

\* The removed ids leave the connection's own map, if it is still registered.
EvictUnmap(e) ==
    /\ evict[e].pc = "remove"
    /\ evict[e].todo = {}
    /\ mapped' = IF phase[evict[e].conn] = "gone" THEN mapped
                 ELSE mapped \ ({evict[e].conn} \X evict[e].got)
    /\ evict' = [evict EXCEPT ![e].pc = "release"]
    /\ UNCHANGED <<vars, phase, registry, req, recv, owed, view, reqs, evictions>>

\* Release the topic of one removed subscription, then queue its CLOSED.
EvictRelease(e, s) ==
    /\ evict[e].pc = "release"
    /\ s \in evict[e].got
    /\ PayOff(<<"evict", <<e, s>>>>)
    /\ Tell(<<evict[e].conn, s>>, "ended")
    /\ evict' = [evict EXCEPT ![e].got = @ \ {s}]
    /\ UNCHANGED <<phase, mapped, registry, req, recv, reqs, evictions>>

EvictDone(e) ==
    /\ evict[e].pc = "release"
    /\ evict[e].got = {}
    /\ evict' = [evict EXCEPT ![e] = NoEvict]
    /\ UNCHANGED <<vars, phase, mapped, registry, req, recv, owed, view, reqs, evictions>>

-----------------------------------------------------------------------------
ReqTask(k) ==
    \/ ReqCheck(k) \/ ReqReturn(k) \/ ReqInsert(k) \/ ReqUnregister(k)
    \/ ReqRegister(k) \/ ReqRelease(k) \/ ReqRetain(k) \/ ReqSend(k) \/ ReqEose(k)

RecvLoop(c) ==
    \/ CloseUnregister(c) \/ CloseRelease(c) \/ CloseAck(c)

Cleanup(c) ==
    \/ RemoveConnection(c)
    \/ \E s \in SubIds : CleanupRelease(<<c, s>>)
    \/ Deregister(c)

EvictTask(e) ==
    \/ \E s \in SubIds : EvictRemove(e, s) \/ EvictRelease(e, s)
    \/ EvictUnmap(e)
    \/ EvictDone(e)

\* Frames, hang-ups and moderation events: what the outside may do.
Environment ==
    \/ \E x \in Keys, t \in Topics, k \in Tasks : SpawnReq(x, t, k)
    \/ \E x \in Keys : RefuseFrame(x) \/ CloseUnmap(x)
    \/ \E c \in Conns : LeaveLoop(c)
    \/ \E e \in Evictors, c \in Conns, t \in Channels : EvictCollect(e, c, t)

\* The debounce timers and the subscriber task of PubSubTopics.
PubSubStep ==
    /\ (\E t \in Topics : DebounceElapsed(t)) \/ SubscriberTask \/ Disconnect
    /\ UNCHANGED lifeVars

Handling ==
    \/ Environment
    \/ \E k \in Tasks : ReqTask(k)
    \/ \E c \in Conns : RecvLoop(c) \/ Cleanup(c)
    \/ \E e \in Evictors : EvictTask(e)

LifeNext == Handling \/ PubSubStep

LifeSpec == LifeInit /\ [][LifeNext]_allVars

\* The behaviours of LifeSpec in which Redis stays unreachable and no debounce
\* timer has elapsed yet: what the handlers do to each other is all there.
HandlersSpec == LifeInit /\ [][Handling]_allVars

\* Spawned tasks run, the subscriber task never stops, and a task waiting for
\* a slot of the command channel is served in FIFO order.
LifeFairness ==
    /\ \A k \in Tasks : WF_allVars(ReqTask(k)) /\ SF_allVars(ReqSend(k))
    /\ WF_allVars(SubscriberTask /\ UNCHANGED lifeVars)

FairLifeSpec == LifeSpec /\ LifeFairness

-----------------------------------------------------------------------------
\* Types: every permit, receive loop and evictor is at a place of its handler's
\* code and is given back when the handler returns.
LifeTypeOK ==
    /\ phase \in [Conns -> {"open", "closing", "cleaning", "gone"}]
    /\ mapped \in SUBSET Keys
    /\ registry \in [Keys -> Topics \cup {NoTopic}]
    /\ req \in [Tasks -> ReqState \cup {NoReq}]
    /\ recv \in [Conns -> CloseState \cup {NoClose}]
    /\ evict \in [Evictors -> EvictState \cup {NoEvict}]
    /\ owed \in [Slots -> Topics \cup {NoTopic}]
    /\ view \in [Keys -> {"none", "requested", "open", "ended", "closed"}]
    /\ reqs \in Nat
    /\ evictions \in Nat

\* REQ tasks that have registered a subscription of t and will retain t.
Retaining(t) == {k \in Tasks : req[k].pc = "retain" /\ req[k].topic = t}

Routed(t) == {x \in Keys : registry[x] = t}
Owing(t)  == {o \in Slots : owed[o] = t}

\* No interleaving of REQ, CLOSE, cleanup and eviction releases a topic more
\* often than it was retained: the refcount, and the retains that are about to
\* be made, cover every routed subscription and every release still owed.
RefcountCoversRouted ==
    \A t \in Topics :
        Cardinality(Routed(t)) + Cardinality(Owing(t))
            <= desired[t] + Cardinality(Retaining(t))

\* A subscription fan-out would route to is one whose events reach this
\* process: while Redis is connected its topic is subscribed, being subscribed,
\* or about to be retained by the REQ task that registered it.
RoutedIsCovered ==
    \A x \in Keys : \A t \in Topics :
        registry[x] = t /\ link # "down" =>
            \/ t \in active \cup initial
            \/ SubscribeOnItsWay(t)
            \/ Retaining(t) # {}

\* Subscriptions that handlers still at work will remove or have removed.
BeingEvicted(x) ==
    \E e \in Evictors :
        /\ evict[e] # NoEvict
        /\ evict[e].conn = x[1]
        /\ x[2] \in evict[e].got

BeingClosed(x) == recv[x[1]] # NoClose /\ recv[x[1]].sub = x[2]

\* A REQ task of x is at work that has not registered yet.
BeingRequested(x) ==
    \E k \in Tasks : /\ req[k].pc \in {"check", "access", "unregister", "register"}
                     /\ Key(k) = x

\* However REQs of one id, its CLOSE and evictions overlap, a client that asked
\* for a subscription and was not told CLOSED since, EOSE or not, has it routed
\* once the REQ tasks of that id have registered: none of them, no CLOSE and no
\* eviction takes the routing away silently.
OpenIsRouted ==
    \A x \in Keys :
        /\ view[x] \in {"requested", "open"} /\ phase[x[1]] = "open"
        /\ ~BeingRequested(x) /\ ~BeingClosed(x) /\ ~BeingEvicted(x)
        => registry[x] # NoTopic

\* "no new messages are routed to this sub after the client's CLOSE is
\* acknowledged": from the CLOSED that handle_close sends to the next REQ with
\* that id, nothing is routed to the subscription.
ClosedIsUnrouted ==
    \A x \in Keys : view[x] = "closed" => registry[x] = NoTopic

\* handle_req checks the limit and inserts in two lock sections, so concurrent
\* REQs may pass it together; a connection exceeds MAX_SUBSCRIPTIONS by no more
\* than the other handlers that can be at work, however often they do.
SubscriptionLimit ==
    \A c \in Conns :
        Cardinality({x \in mapped : x[1] = c}) <= MaxSubs + Cardinality(Tasks) - 1

\* A connection that handle_active_connection has cleaned up has left the registry.
GoneIsUnregistered ==
    \A x \in Keys : phase[x[1]] = "gone" => registry[x] = NoTopic

\* Every handle_req that got a permit comes to its end and gives the permit
\* back, however full the command channel was when it had to subscribe its topic.
ReqIsAnswered ==
    \A k \in Tasks : req[k] # NoReq ~> req[k] = NoReq

=============================================================================
