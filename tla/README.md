# TLA+ models of the Buzz relay and its agent harness

This directory models the concurrent core of the Buzz relay (`src/crates/buzz-relay`,
`src/crates/buzz-pubsub`) and of the harness that runs agents against it
(`src/crates/buzz-acp`): who receives an event and who may, who is connected, which agent works
on which event, and what happens to all of these when handlers, timers, clients, Redis and other
pods interleave. TLC checks the modules on small instances; TLAPS proves the main invariants for
every instance. `PROJECT.json` maps definitions to source lines and lists runs, mutants,
findings, hazards and theorems; it names a component that is not modelled by the root module of
its crate or directory.

## The system and its parts

Buzz is a multi-tenant Nostr relay. A pod of the relay holds WebSocket connections of many
communities. A client authenticates (NIP-42), subscribes with `REQ`, unsubscribes with `CLOSE`
and publishes with `EVENT`. Pods exchange events through Redis pub/sub and keep everything
durable in Postgres. The harness is a client: it turns the events of channels into prompts for a
pool of agent processes.

| Part | State | Operations | Talks to | What is hard |
|---|---|---|---|---|
| Topic interest (`buzz-pubsub`: `lib.rs`, `subscriber.rs`) | `desired_topics` refcounts, command channel, the subscriber task's `active_topics` | `retain_topic`, `release_topic`, debounce timers, connect, subscribe, unsubscribe, disconnect | called by the handlers; owns a Redis connection | command order, reconnects, a check that is stale when used |
| Subscription handlers (`handlers/req.rs`, `close.rs`, `side_effects.rs`, `connection.rs`) | the connection's map, the registry, refcounts: three places without a common lock | REQ (spawned), CLOSE (inline), eviction, cleanup | registry, topic interest, connection manager | every pair of them on one subscription |
| Fan-out registry (`subscription.rs`) | `subs` and five DashMap indexes | register, remove, remove connection, remove channel, fan out | called by the handlers and the event path | guards in different orders, keys computed in three places |
| Admission, archival, drain (`state.rs`, `main.rs`, `api/operator.rs`) | community row, two connection registries, cancellation tokens, drain flag | register, admission check, archive, sweep, publish, revalidate, drain | all pods through Redis; Postgres | a socket that connects during a sweep, lost commands |
| Tasks of a connection (`connection.rs`, `handlers/auth.rs`) | data and control queues, backpressure counter, token, authentication state | receive loop, send loop, heartbeat, timeout, cleanup | everything above | who ends whom, what is written before the close |
| Access caches (`state.rs`, `req.rs`, `ingest.rs`, `event.rs`, `side_effects.rs`) | membership, accessible channels and privacy, each for ten seconds; the rows behind them | membership change, visibility flip, deletion, local and published drop; REQ, ingest and fan-out checks | Postgres, all pods through Redis | an answer read before a change and stored after it, lost drops |
| Live bans (`moderation_commands.rs`, `auth.rs`, `ingest.rs`, `state.rs`) | restriction rows, audit rows, report queue, keys listed with connections | five moderation commands, AUTH, ingest gate, disconnect here and on other pods, expiry | Postgres, all pods through Redis, connection manager | a ban that meets an AUTH half way, a lost command, a failing audit insert |
| Agent harness (`buzz-acp`: `queue.rs`, `pool.rs`, `lib.rs`) | queues per channel, withheld and cancelled events, retry counters, slots, running turns | push, flush, dispatch, steer, cancel, requeue, dead-letter, respawn, deadlines | agent processes; the relay as a client | results, panics, steer answers and signals that cross each other |
| Git hosting, audio rooms, push, workflows, audit, pairing and others | see `PROJECT.json` | | | not modelled, see the plan |

What makes each part correct:

- topic interest: a retained topic is delivered, or there is a command or a snapshot that will
  have it delivered, through any number of reconnects;
- handlers: refcounts never fall behind the routed subscriptions; what the client was told
  agrees with what is routed; every REQ ends;
- registry: fan-out finds the matching subscriptions in scope and no others, and nothing is lost
  from or left in an index;
- admission: no socket of an archived community survives a sweep, and every one is closed in the
  end even if the command is lost; a draining pod leaves no connection unsignalled;
- connection: cancellation, silence and missing authentication all end in cleanup; the reason
  for a close is written before it;
- access: once nothing about a person's access has changed for a bounded time, every verdict
  about the person is right, on every pod, whichever messages were lost;
- bans: a restriction in force is enforced by every gate it should pass; a session outlives its
  ban in known ways only; a report is closed once;
- harness: an event is in one place at a time and is neither lost nor handled twice; a channel has
  one turn; a batch that keeps failing is given up.

## Modules

### PubSubTopics

One relay process's interest in Redis topics. `desired` is `desired_topics`, `cmds` the mpsc
channel, `link`, `initial`, `current`, `active` the subscriber task, `redis` what the server
delivers to this connection. Each await is a step: `RetainTopic` is the mutex section,
`SendSubscribe` the send after it; a released topic spawns a timer (`debounce`) whose
`DebounceElapsed` enqueues `UnsubscribeIfIdle`; the task takes a command (`Recv...`), looks at the
refcount (`CheckIdle`) and writes to the socket (`Sink...`). `Disconnect` may fall anywhere.
A connection that is lost loses the command in progress and everything subscribed; `Connect`
starts from a snapshot. Received messages and publishing are not in the model.

### RelaySubscriptions (extends PubSubTopics)

The life of subscriptions in one process. `mapped` is the union of the connections'
`subscriptions` maps, `registry` gives the topic each registered subscription is routed by, and
`owed` remembers the releases that a handler has yet to make for entries it removed. Actions
follow the lock sections and awaits of `handle_req` (`ReqCheck` ... `ReqEose`), `handle_close`
(`CloseUnmap` ... `CloseAck`), the cleanup (`RemoveConnection` ... `Deregister`) and
`evict_conn_channel_subscriptions` (`EvictCollect` ... `EvictDone`). Early returns of
`handle_req` (limit, access, database error, gated filter, search) are one action, `ReqReturn`.
`view` is the last verdict *sent* about a subscription; frames lost to a full send buffer are not
represented, except that `handle_req` ends without EOSE when one of its events does not fit.
A client may send whatever it likes next, as the code lets it: a CLOSE, or another REQ of the same
id, while REQ tasks are at work.

`LifeSpec` composes handlers and subscriber task; `HandlersSpec` is the part of it in which Redis
stays unreachable and no timer has elapsed, for runs about the handlers alone.

### FanOutIndex and SubscriptionRegistry

`FanOutIndex` is pure: filter matching (`FilterMatchOne`, with the `#h` fallback to the stored
channel), the channel a filter set is scoped to (`ExtractChannelId`), the keys a subscription is
filed under (`IndexKeys`, choosing among the five indexes) and the keys an event looks up
(`LookupKeys`). A filter keeps the fields that index selection and scoping look at: kinds,
authors, `#p`, `#h`; ids, times and other tags only narrow a match and are left out.

`SubscriptionRegistry` adds the state: `subs`, `index`, and the call each worker is in the middle
of. Steps follow the DashMap guards: `TakeEntry` keeps the connection's guard while `Unfile` goes
through the keys, `Purge` removes a key in a separate step after its guard was dropped, `ReadKey`
keeps the key's guard while `PushMatch` looks candidates up. A guard is taken per key here; a
DashMap guard covers a whole shard, so the code has these waits and more.

`FanOutHistory` adds a history variable: `due` remembers, for each fan-out in progress, the
subscriptions that were registered, filed and matching when it began and have been since.

### SocketAdmission

Pods, sockets and communities. `era` counts the archivals and unarchivals of a community's row
(odd: archived). A socket goes through `Register`, the query (`Admit` / `Refuse`), `StopEarly`,
the connection permit, `InsertEntry` and `CheckDraining` of the connection manager, `EndLoop` and
`Deregister`. `disconnect_community` visits sockets one at a time (`SweepVisit`) on behalf of the
archive request, the conn-control consumer and the revalidator. `Publish` reaches an arbitrary
set of pods: Redis pub/sub keeps nothing for absent subscribers. `drain_all` is `StartDrain` and
`DrainVisit`. A sweep or drain visits every socket of the pod in any order, looking at each once,
registered or not at that moment: DashMap's iteration promises no more for entries that come and
go meanwhile. The history variable `swept` records the era of the last finished sweep.

### ConnectionTasks

One connection from the AUTH challenge to the release of its permit. `data` counts the queued
data frames, `ctrl` is the control queue, `loop` the send loop, `recv` the receive loop with the
handler it runs inline, `timer` and `beat` the other two tasks, `phase` the handler that waits for
them. `TrySend` is the queue operation, `ResetPressure` / `CountPressure` the counter update after
it. The socket is the environment: `WriteDone` and `WriteFails` end a pending write. A `Restart`
notice is itself a close frame, after which the socket takes nothing. Pings and pongs are one
kind of frame. The top-of-loop drain and the select are one program point: a control frame
that arrives between them is taken by the select's second branch or by the final drain, with the
same effect. The history variable `unsaid` holds the notices queued before the token fired and
not yet written.

### AccessContract and ChannelAccess

`AccessContract` is abstract: who has access, for how long nothing about it has changed
(`quiet`), and the verdicts of a step, which must be right about everyone who has been quiet for
more than `Bound` ticks. `ChannelAccess` is one pod's handlers and caches for one channel. The
database variables are the truth; `cache` has a membership key and an accessible-channels key
per person and one privacy key, each with an age. A change (`AddMember`, `RemoveMember`, `Flip`,
`DeleteChannel`) is committed by a handler of this pod, which then drops what it covers and evicts
(`Invalidate`), or of another pod, whose message arrives (`ApplyDrop`) or is lost (`LoseDrop`).
A lookup asks the database in one step (`Ask`) and stores and uses the answer in a later one
(`Learns`), so that a change and its drop may fall in between. A REQ looks at the cached list
and confirms a denial (`ReqAccess`, `ReqConfirm`); an ingest reads the row, passes the membership
gate and threads the visibility to its fan-out (`IngestRow`, `IngestGate`, `GateSkipped`); a
fan-out filters its recipients one by one (`Match` ... `Send`).

`Contract == INSTANCE AccessContract WITH access <- {p \in People : Access(p)}` is the refinement;
`Bound` is handler time, lifetime and handler time: the handler that read an answer, the
cache that kept it, the handler that uses it. The code gives a lifetime and no handler time:
`HandlerTime` is an assumption about the queries of one request, without which no bound holds.
`missed`, `quiet`, `granted` and `denied` are history.

### Moderation

Live bans in one community. `ban` and `muted` are the restriction row, `sock` the connections with
the stage their AUTH has reached, `cmd` and `write` the handlers at work, `inbox` the disconnect
commands on their way to each pod, and `report`, `decisions`, `replies` the moderation queue. AUTH
looks at the key's ban, at its owner's ban if the event shows an owner's tag, passes the
other gates and lists the key (`Authenticate` ... `SetAuthenticatedPubkey`). A command checks its
actor and role, writes its row, its audit row, and for a ban closes the sockets listed here
and tells every pod (`CheckActor`, `Write...`, `Audit`, `Enforce`); it may lose its database at each
step (`CommandFails`). Resolving a report reads it, writes the audit row and updates it only if
it is still open. Fields called `open`, and `missed` and `aborted`, are history.

### AgentQueue

The main loop of the harness. `queues`, `withheld`, `cancelled`, `inFlight`, `retryAfter` and
`retryCounts` are the fields of `EventQueue`, `slots` and `tasks` the pool with the turn each agent
runs, `acks` the answers to steer requests that the loop has not seen. An arm of the select is an
action (`Push...`, `Collect...`, `AckSteer`, `Maintain`, `Respawned`, `Heartbeat`); arms that end
in `dispatch_pending` leave the loop at "dispatch", where `Expire`, `FlushQueued`,
`FlushCancelled` and `FlushNothing` are the steps of `flush_next` until nothing is left or no
agent is idle. A turn ends in any of the outcomes `run_prompt_task` can report. Events are numbered
by arrival; `CreatedAt`, by which a batch is sorted, is the author's. `Lapsing` names channels of
which one turn outlasts its in-flight deadline. `settled` (events a turn or a steer delivered, or
that a documented path dropped) and `lapsed` are history.

## Runs

Constants not mentioned are as small as the case allows; every bound is a named constant.

| Run | Checks | Instance |
|---|---|---|
| `relay_handlers` | `LifeTypeOK`, `RefcountCoversRouted`, `OpenIsRouted`, `SubscriptionLimit` | three ids over a limit of one, three REQs on two tasks, CLOSE, an eviction and cleanup, in any order |
| `relay_composed` | `TypeOK`, `RetainedIsCovered`, `ViewsAgree`, `RefcountCoversRouted`, `RoutedIsCovered`, `RetainedIsDelivered`, `ReqIsAnswered` | handlers of a pipelining client and the subscriber task together, one topic, one slot in the command channel, a lost connection, two timers |
| `registry_concurrent` | `IndexedIsRegistered`, `ScopingInvariant`, `DueIsFound`, `OnlyPurgeUnfiles` | two threads, two connections, two ids, four calls; five filter sets, one for each index, and a channel and a global event |
| `socket_admission` | `AdmTypeOK`, `AdmissionInvariant`, `DrainInvariant`, `ArchivedIsClosed` | two pods; a socket on a pod that may miss the command and may drain |
| `connection_tasks` | `TaskTypeOK`, `NoticeBeforeClose`, `CancelledIsCleaned`, `SilentIsCleaned`, `SlotIsFreed` | a ban notice, the ban gate, backpressure, failing writes, data that never stops coming |
| `channel_access` | `AccessTypeOK`, `StaleIsExplained`, `VerdictsInTime` | one person, one handler at a time, two changes, lifetime and handler time of one tick; the last is the refinement |
| `live_bans` | `ModTypeOK`, `RestrictionsHold`, `SurvivorIsExplained`, `ReportClosedOnce`, `BansSettle` | an owner and its agent, two pods, a socket, two commands of any kind, a write |
| `agent_queue` | `QueueTypeOK`, `NoSilentLoss`, `EventSettles` | two channels, two agents of which one may be down, both dedup modes, one retry, a channel that is removed and added again or a turn that is cancelled |
| `agent_steer` | `SettledOnce`, `OneTurnPerChannel`, `NoOrphanedSteer`, `LostIsMerged` | three events for one channel, steered into a turn that may outlast its deadline; heartbeats |

Runs that TLC answers with a counterexample, each against a statement in the repository (quoted
under `findings`):

| Run | Property | What happens |
|---|---|---|
| `relay_closed` | `ClosedIsUnrouted` | a CLOSE overtakes the REQ of its id: CLOSED is sent, then the REQ task registers |
| `registry_locks` | `NoLockCycle` | removal and fan-out hold each other's next guard |
| `agent_merged_loss` | `NoSilentLoss` | a cancelled turn's events are merged into the next batch; when that batch is requeued they are not |

### Observations

Statements that do not hold of the code and have no run here, with what it takes to see them.

- `GoneIsUnregistered`: a REQ task registers after its connection's cleanup; the entry and the
  refcount stay. `ARCHITECTURE.md` 215 says that the cleanup removes all of them.
- `RegisteredIsIndexed` (a registered subscription is filed under all its keys) as an invariant of
  `RegistryConcurrent.cfg`: `remove_from_index` drops the guard of a key it saw empty and removes
  the key in a second step (`subscription.rs` 408-411); a subscription another thread filed there
  in between is gone from the index, stays in `subs` and gets no more events through that key.
  `OnlyPurgeUnfiles` is what remains true: nothing else takes a pair out of an index.
- `CancelledIsCleaned` under `StallingSpec`: a pending write keeps the send loop from seeing the
  token, although the cancel branch "must win immediately" (`connection.rs` 322-323).
- `EventSettles` without its first disjunct, with `MaxEvents = 3`: dispatch takes a batch whose
  backoff has elapsed, finds no idle agent, puts it back and calls `mark_complete`, which clears
  the attempt counter. If that happens between any two attempts, a poison batch is never
  dead-lettered.
- A turn with an `initial_message` runs two prompts, each with the whole turn limit (`pool.rs`
  1610-1618), and may outlast the in-flight deadline; the channel then gets a second turn, and the
  late result of the first clears the second's entry. Hence `Lapsing`, and "unless" in
  `OneTurnPerChannel` and `SettledOnce`.
- A membership read before a removal and stored after it is served for its whole lifetime, on the
  pod that made the change too; `state.rs` 962-964 speaks of missed publishes only. Within that time
  a live fan-out reaches the removed member, which `event.rs` 224-233 excludes. The contract's
  `Bound` is what remains true. The same holds for a visibility threaded from ingest to fan-out.
- A join request (kind 9021) is skipped as already done if a stale membership is cached.
- A session outlives a ban as `Excused` says; the comment at `moderation_commands.rs` 191-194 has a
  ban take effect "immediately, everywhere". An owner's ban closes no sockets of its agents, and
  the write gate looks at the author alone (`ingest.rs` 1630-1633 argues that such an agent "can
  never authenticate", which is true of later AUTHs). Ephemeral events do not pass the write gate.
- The subscription limit (`ARCHITECTURE.md` says 1024) is checked and used in two lock sections;
  `SubscriptionLimit` therefore states what does hold, that it is exceeded by no more than the
  other handlers at work.
- `remove_channel_subscriptions_scoped` removes by id what it collected by channel, so an id moved
  to another channel in between is evicted too.
- `ScopingInvariant` is checked for calls on one id that do not overlap. If a fan-out overlaps the
  replacement of a candidate (`Overlapping = TRUE`), `push_match` matches it by its new filters, and
  TLC has a counterexample; it has one for `IndexedIsRegistered` too, since two calls on one id may
  then leave a key filed without its entry. The first concerns the registry alone: the event path filters the result
  by channel access afterwards (`filter_fanout_by_access`, modelled in `ChannelAccess`).
- A full-buffer event may be counted between another task's successful send and its reset of the
  counter, so that the events that cancel a slow client are not always consecutive.

### Bounds

- `MaxRefs`, `MaxDebounce`, `MaxDisconnects`: the refcount's behaviour differs at 0, 1 and more;
  two timers of one topic and one reconnect are enough for each command to be overtaken.
- `MaxReqs` 2 or 3, two tasks: a REQ that replaces another, one that races with it, and a
  CLOSE, an eviction and a cleanup beside them. `MaxSubs` 1 or 2 puts the limit in reach.
- `relay_handlers` has one topic: two exceed what a run may take with three ids, which the limit
  needs. The handlers treat topics alike; an id that moves between topics is left to the theorems.
- `relay_closed`: one id, two REQs and a CLOSE are enough.
- `MaxOps` 4 in the registry: register, replace, remove and fan out. One filter set per index lets
  every kind of key be filed, missed and looked up; the choice of keys for other filter sets is
  what `IndexComplete` and `IndexScoped` prove for all of them.
- `MaxEras` 2, `MaxArchives` 2, one socket: archived and unarchived with two archive requests. A
  community archived again while a sweep of its first archival is still under way, and several
  sockets on one sweep, are beyond the run; the theorems of `SocketAdmission_proofs` cover them.
- Queue capacities 1 or 2 make full and empty queues common. `PongLimit` is 2 instead of 3, so
  that one missing pong is not yet the last. `GraceLimit` is 1 instead of 3: each full buffer cancels,
  which is the case the other tasks have to cope with.
- `ConnectionTasks` counts the backpressure events up to `GraceLimit`: there the token has fired
  and the counter no longer decides anything.
- `relay_composed` has one topic: with two, the liveness check exceeds what a run may take.
  Topics meet in the command channel only, where one slot and two tasks already make a send wait;
  the safety properties are proved for any number.
- `ChannelAccess`: two changes are enough for a drop of the first to meet an answer from before
  the second. Times of one tick make expiry, deadline and use coincide in every order. A second
  handler acts on the cache only, as the lost drops and the changes of other pods do; the theorems
  cover any number of people, handlers and ticks.
- `Moderation`: a ban and its lifting, two bans, or two resolutions; the second pod has no
  socket and exists to handle the command elsewhere. Theorems cover the rest.
- `AgentQueue`: queue cap 2, batch size 1 or 2 and one retry put each limit in reach of two or three
  events. At most one agent is down at a time, so that the loop does not exit at once.

Deadlock checking is off where the bounds stop a model for good (`RelaySubscriptions`,
`SubscriptionRegistry`) or the program may exit (`AgentQueue`, when no agent is left); it is on
elsewhere. Symmetry is used in safety runs only, over tasks, ids, connections and agents that are
interchangeable.

### Fairness

- `PubSubTopics!FairSpec`: timers elapse, the subscriber task runs on and reconnects
  (`run_subscriber` never returns), and a send waiting for a slot is served, as tokio's mpsc
  semaphore is FIFO. Nothing is assumed of handlers.
- `RelaySubscriptions!FairLifeSpec`: spawned REQ tasks run on (their database calls return,
  with an error if need be) and the subscriber task does.
- `SocketAdmission!FairAdmSpec`: handlers and sweeps run on, a receive loop leaves once its token
  has fired, the revalidator ticks, and its query of a community does not fail for ever.
  Publishing and the conn-control consumer are not assumed to work.
- `ConnectionTasks!StallingSpec`: the relay's own tasks run on and timers go off. A receive loop
  whose token has fired leaves in the end although its select picks branches at random.
  `ReadingSpec` adds that each write ends, by success or error. The code has no write timeout, so
  this is an assumption on the peer and the transport; the observations say what happens
  without it.
- `Moderation!FairModSpec`: a command handler runs to its end, if need be by an error, and each pod's
  consumer takes the commands on their way or loses them. Nothing is assumed of AUTH or ingest.
- `AgentQueue!FairQueueSpec`: dispatch goes on, the maintenance interval comes round and backoffs
  elapse. A turn ends, because idle and hard limits bound each prompt. Results and steer
  answers get strong fairness: the loop's select is biased to them, so that one which is ready
  whenever the loop selects is taken, although the loop is elsewhere in between. `ChannelAccess`
  states no fairness: its promise is about verdicts that are given.

## Proofs

All proofs are checked by TLAPS for arbitrary constants under the assumptions named in the
modules (`PubSubAssumption`, `SubscriptionsAssumption`, `RegistryAssumption`, `AdmissionAssumption`,
`AccessAssumption`, `QueueAssumption`, those of `ConnectionTasks` on queue sizes and limits and of
`Moderation` on keys, roles and pods, and `FanOutAssumption`, which says how channel ids are spelled).
Where a result needs a further condition, it is a hypothesis of the theorem and is named below.

- `PubSubTopics_proofs`: `TypeCorrect`, `RetainedCovered`, `ViewsCorrect`. The inductive invariant
  is the conjunction of the three. `RetainedIsCovered` needs `ViewsAgree`'s companion facts about
  the command in progress: a topic whose refcount was read as zero may be retained before the
  unsubscribe, and then its own Subscribe is behind that command in the channel.
- `RelaySubscriptions_proofs`: `LifeTypeCorrect`; `HandlersImplementTopics`, that `LifeSpec`
  implements `PubSubTopics!Spec`, so what is proved there holds here; `RefcountCorrect`, by counting:
  every step moves a subscription between routed, owed and retaining, and pays a release only for
  an entry it removed; `RoutedCovered` from the two. `OpenRouted` holds for any client: each
  step is followed for one subscription, and whoever takes it out of the registry is either at
  work on it still or has told the client. `SubscriptionsBounded`: `LimitInv` counts the REQs that
  are past the check with the entries that are there.
- `SubscriptionRegistry_proofs`: first the pure operators, for all filters and events:
  `IndexComplete` (a matching subscription in scope is filed under a key the event looks up) and
  `IndexScoped` (a key the event looks up holds no subscription of another scope). Then the
  registry. `IndexHasNoLeftovers` and `ScopingHolds` assume `NoOverlap`, that calls on one id do not
  overlap or that there is one thread; with overlaps TLC refutes both (see the observations). The
  invariant `RegInv` ties each index entry to its subscription or to the call about to unfile it,
  and the guard of an index key to the candidates a fan-out took from it: while the guard is
  held, no candidate can be unfiled and registered again elsewhere. From the same invariant and
  the same condition (TLC refutes it too when calls on one id overlap), `PurgeAloneUnfiles` follows each step of any number of threads: the entry that `retain` rewrites
  keeps every pair but the removed one, which has left `subs`, and a new entry is owed to every one
  of its keys, so the removal of a key seen empty is the only step after which something new is
  missing. `DueFound` has no condition, overlapping calls on one id included: by `HistInv`
  what a fan-out owes is found, a candidate, or filed under a key still to be read,
  `IndexComplete` gives the start and typing alone carries the rest. `FanOutExact` says more and
  is for one thread: `SingleInv` adds that nothing is found that does not match when the fan-out
  ends, which another thread could change meanwhile.
- `ConnectionTasks_proofs`: `TaskTypeCorrect`; `NoticesPrecedeClose`, whose inductive invariant
  `TaskInv` says where an unsaid notice is (in the hand of `send_loop` or in the control queue),
  that the final drain starts only after the token fired, and that the close frame is its last write.
- `SocketAdmission_proofs`: `AdmTypeCorrect`, `AdmissionCorrect`, `DrainCorrect`. The inductive
  invariant `AdmInv` adds that eras of sweeps are not in the future (`ErasPast`), that a sweep in the
  current archived era still has every running socket of its community on its list
  (`SweepFinds`), and the same for a drain in progress (`DrainFinds`): register before query, and
  insert before flag check, are what make these inductive.
- `ChannelAccess_proofs`: `AccessTyped`; `VerdictsAreTimely`, that `AccessSpec` implements
  `AccessContract!ContractSpec` for every lifetime and handler time; `StalenessExplained`. The
  refinement needs the invariant `Knowledge`: a cached answer of age n was true at some moment no
  more than n ticks and a handler's time ago, or is true now, and what a handler has in hand is
  at most as old as the handler and the cache together. `Carry` says how such knowledge survives
  a change or a tick, and each verdict follows from it.
- `Moderation_proofs`: `ModTyped`; `RestrictionsAreHeld`, from what each stage of AUTH, ingest and
  commands has established about its key; `SurvivorsAreExplained`, from an invariant that also
  covers sessions whose AUTH is past the lookup (`Explained`); `ReportsCloseOnce`, whose strengthening is
  that a handler about to close has left its audit row (`Audited`).
- `AgentQueue_proofs`: `QueueTyped` and `TurnsExclusive`, inductive together: that a busy slot is a
  turn, and a channel in flight one turn, is what lets `flush_next` hand a channel out.
  `EventsSettledOnce` and `SteersAnswered` rest on `PlaceInv`. `SettledOnce` is not inductive: a steer
  that succeeds settles an event no batch had, and an answer that gives an event back does not look
  whether it was settled. `PlaceInv` adds the bookkeeping that makes both safe: only running turns
  have requests, an event has one request or answer at a time, it is withheld meanwhile, and if it is
  settled meanwhile the answer says so. `OnlyMergedAreLost` shows, action by action, that what is
  queued, withheld or in the events of a batch is still kept or settled afterwards (`NothingLost`),
  so the finding of `agent_merged_loss` is the only way to lose an event. `NothingSilentlyLost` is
  `NoSilentLoss` for `Gentle` constants, those of `AgentQueue.cfg` (no steer, no interrupt, no command
  but the owner's cancel): `Uninterrupted` says that nothing then waits for a merge. With other
  constants it is false, which is the finding. The other three hold for all constants.

Only model-checked: liveness (`RetainedIsDelivered`, `ReqIsAnswered`, `ArchivedIsClosed`,
`CancelledIsCleaned`, `SilentIsCleaned`, `SlotIsFreed`, `BansSettle`, `EventSettles`), which TLAPS
does not treat with fairness. Every invariant and action property of a passing run is also a theorem,
under the conditions just named. `FanOutIsExact` is proved for one thread and has no run.

## Not modelled

Message contents and their validation, cryptography, SQL, query planning, metrics and logging,
HTTP translation, the user interfaces, and the components `PROJECT.json` marks `not_modelled`,
each with its reason. Most of the repository's lines are of these kinds, tests beside the code
included, so the mapped share of all lines is small; what is mapped is where state is shared.

## Plan

In order of importance; what is above this section is done.

1. Event fan-out across pods: local fan-out, Redis publish, the echo marks with their lifetime,
   broadcast lag; at most one delivery per subscription and pod, none lost while the topic is
   covered. Composes with `SubscriptionRegistry`.
2. Delivery of verdicts: `RelaySubscriptions` over the bounded queues of `ConnectionTasks`.
3. Git hosting: the manifest's compare-and-swap and quota reservations.
4. The harness's relay connection (`relay.rs`): reconnects and replay in front of `AgentQueue`.
5. Push leases, workflow runs, audit chain, audio rooms and pairing, one module each.
6. Proofs: a refinement of an atomic registry by `SubscriptionRegistry` for calls that do not
   overlap; `RegisteredIsIndexed` for several threads no two of which work on one key.
