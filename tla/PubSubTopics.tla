---------------------------- MODULE PubSubTopics ----------------------------
(***************************************************************************)
(* Redis topic interest of one relay process (crate buzz-pubsub).          *)
(*                                                                         *)
(* Request handlers retain and release interest in event topics.  The      *)
(* refcounts (desired_topics) live under one async mutex; the commands a   *)
(* refcount edge produces travel through a bounded mpsc channel to the     *)
(* subscriber task, which owns the dedicated Redis pub/sub connection,     *)
(* loses it, and rebuilds its subscriptions from the refcounts when it     *)
(* reconnects.  Every await between the mutex, the channel and the socket  *)
(* is a step of its own here.                                              *)
(***************************************************************************)
EXTENDS Integers, Sequences

CONSTANTS
    Topics,          \* scoped topics: one per community channel, plus the global one
    NoTopic,         \* stands for "no topic"
    Tasks,           \* tasks that call retain_topic
    CmdCapacity,     \* capacity of the subscription command channel (4096 in the code)
    MaxRefs,         \* bound: refcount of one topic
    MaxDebounce,     \* bound: pending debounce timers of one topic
    MaxDisconnects   \* bound: how often the Redis connection is lost

ASSUME PubSubAssumption ==
    /\ NoTopic \notin Topics
    /\ CmdCapacity \in Nat \ {0}
    /\ MaxRefs \in Nat
    /\ MaxDebounce \in Nat
    /\ MaxDisconnects \in Nat

VARIABLES
    desired,      \* desired_topics: refcount per topic, 0 = no entry
    sending,      \* topics whose Subscribe a retaining task has yet to enqueue
    debounce,     \* spawned unsubscribe timers that have not yet enqueued their command
    cmds,         \* the mpsc channel between handlers and the subscriber task
    link,         \* the subscriber task: "down", "snapshot" (initial subscribes), "up"
    initial,      \* initial_topics still to be subscribed on this connection
    current,      \* the command the subscriber task is in the middle of
    active,       \* active_topics: what the task believes is subscribed
    redis,        \* what the Redis server really delivers to this connection
    disconnects   \* connections lost so far

interestVars == <<desired, sending, debounce>>
taskVars     == <<link, initial, current, active, redis, disconnects>>
vars         == <<desired, sending, debounce, cmds, link, initial, current,
                  active, redis, disconnects>>

Command == [op : {"Subscribe", "UnsubscribeIfIdle"}, topic : Topics]
Stage   == [op : {"Subscribe", "UnsubscribeIfIdle", "Unsubscribe"}, topic : Topics]
Idle    == [op |-> "none"]

Subscribe(t)         == [op |-> "Subscribe", topic |-> t]
UnsubscribeIfIdle(t) == [op |-> "UnsubscribeIfIdle", topic |-> t]
Unsubscribe(t)       == [op |-> "Unsubscribe", topic |-> t]

Init ==
    /\ desired = [t \in Topics |-> 0]
    /\ sending = [k \in Tasks |-> NoTopic]
    /\ debounce = [t \in Topics |-> 0]
    /\ cmds = <<>>
    /\ link = "down"
    /\ initial = {}
    /\ current = Idle
    /\ active = {}
    /\ redis = {}
    /\ disconnects = 0

-----------------------------------------------------------------------------
(* retain_topic and release_topic, called by request handlers. *)

\* Under the mutex: count the retain; only the 0 -> 1 edge asks for a SUBSCRIBE.
RetainTopic(k, t) ==
    /\ sending[k] = NoTopic
    /\ desired[t] < MaxRefs
    /\ desired' = [desired EXCEPT ![t] = @ + 1]
    /\ sending' = [sending EXCEPT ![k] = IF desired[t] = 0 THEN t ELSE NoTopic]
    /\ UNCHANGED <<debounce, cmds, taskVars>>

\* subscription_tx.send(Subscribe).await, outside the mutex; waits while the channel is full.
SendSubscribe(k) ==
    /\ sending[k] # NoTopic
    /\ Len(cmds) < CmdCapacity
    /\ cmds' = Append(cmds, Subscribe(sending[k]))
    /\ sending' = [sending EXCEPT ![k] = NoTopic]
    /\ UNCHANGED <<desired, debounce, taskVars>>

\* Under the mutex: the 1 -> 0 edge removes the entry and spawns the debounce
\* timer.  Releasing an unretained topic only logs, so it is no step.
ReleaseTopic(t) ==
    /\ desired[t] > 0
    /\ desired[t] = 1 => debounce[t] < MaxDebounce
    /\ desired' = [desired EXCEPT ![t] = @ - 1]
    /\ debounce' = [debounce EXCEPT ![t] = IF desired[t] = 1 THEN @ + 1 ELSE @]
    /\ UNCHANGED <<sending, cmds, taskVars>>

\* Mutation: the timer goes off again after it has elapsed.
DebounceElapsed_Recurs(t) ==
    /\ Len(cmds) < CmdCapacity
    /\ cmds' = Append(cmds, UnsubscribeIfIdle(t))
    /\ debounce' = [debounce EXCEPT ![t] = @ - 1]
    /\ UNCHANGED <<desired, sending, taskVars>>

\* The spawned timer elapses and its command gets a slot in the channel.
DebounceElapsed(t) ==
    /\ debounce[t] > 0
    /\ Len(cmds) < CmdCapacity
    /\ cmds' = Append(cmds, UnsubscribeIfIdle(t))
    /\ debounce' = [debounce EXCEPT ![t] = @ - 1]
    /\ UNCHANGED <<desired, sending, taskVars>>

-----------------------------------------------------------------------------
(* run_subscriber / connect_and_subscribe: the subscriber task. *)

\* Mutation: a reconnect relies on the command channel alone.
Connect_NoSnapshot ==
    /\ link = "down"
    /\ link' = "snapshot"
    /\ initial' = {}
    /\ active' = {}
    /\ redis' = {}
    /\ UNCHANGED <<interestVars, cmds, current, disconnects>>

\* A fresh connection starts from a snapshot of the topics with a refcount.
Connect ==
    /\ link = "down"
    /\ link' = "snapshot"
    /\ initial' = {t \in Topics : desired[t] > 0}
    /\ active' = {}
    /\ redis' = {}
    /\ UNCHANGED <<interestVars, cmds, current, disconnects>>

SubscribeInitial(t) ==
    /\ link = "snapshot"
    /\ t \in initial
    /\ initial' = initial \ {t}
    /\ redis' = redis \cup {t}
    /\ active' = active \cup {t}
    /\ UNCHANGED <<interestVars, cmds, link, current, disconnects>>

EnterLoop ==
    /\ link = "snapshot"
    /\ initial = {}
    /\ link' = "up"
    /\ UNCHANGED <<interestVars, cmds, initial, current, active, redis, disconnects>>

\* select! takes the next command.  Subscribe of an active topic is dropped.
RecvSubscribe ==
    /\ link = "up" /\ current = Idle /\ cmds # <<>>
    /\ Head(cmds).op = "Subscribe"
    /\ cmds' = Tail(cmds)
    /\ active' = active \cup {Head(cmds).topic}
    /\ current' = IF Head(cmds).topic \in active THEN Idle ELSE Head(cmds)
    /\ UNCHANGED <<interestVars, link, initial, redis, disconnects>>

SinkSubscribe ==
    /\ link = "up" /\ current.op = "Subscribe"
    /\ redis' = redis \cup {current.topic}
    /\ current' = Idle
    /\ UNCHANGED <<interestVars, cmds, link, initial, active, disconnects>>

\* Mutation: the command stays at the head of the channel while its topic is in use.
RecvUnsubscribeIfIdle_Waits ==
    /\ link = "up" /\ current = Idle /\ cmds # <<>>
    /\ Head(cmds).op = "UnsubscribeIfIdle"
    /\ desired[Head(cmds).topic] = 0
    /\ cmds' = Tail(cmds)
    /\ current' = Head(cmds)
    /\ UNCHANGED <<interestVars, link, initial, active, redis, disconnects>>

RecvUnsubscribeIfIdle ==
    /\ link = "up" /\ current = Idle /\ cmds # <<>>
    /\ Head(cmds).op = "UnsubscribeIfIdle"
    /\ cmds' = Tail(cmds)
    /\ current' = Head(cmds)
    /\ UNCHANGED <<interestVars, link, initial, active, redis, disconnects>>

\* Mutation: unsubscribe without reading the refcount again.
CheckIdle_Stale ==
    /\ link = "up" /\ current.op = "UnsubscribeIfIdle"
    /\ LET t == current.topic
       IN /\ active'  = active \ {t}
          /\ current' = IF t \in active THEN Unsubscribe(t) ELSE Idle
    /\ UNCHANGED <<interestVars, cmds, link, initial, redis, disconnects>>

\* desired_refcount takes the mutex; the refcount may change again before the
\* socket write that follows.
CheckIdle ==
    /\ link = "up" /\ current.op = "UnsubscribeIfIdle"
    /\ LET t    == current.topic
           idle == desired[t] = 0 /\ t \in active
       IN /\ active'  = IF idle THEN active \ {t} ELSE active
          /\ current' = IF idle THEN Unsubscribe(t) ELSE Idle
    /\ UNCHANGED <<interestVars, cmds, link, initial, redis, disconnects>>

SinkUnsubscribe ==
    /\ link = "up" /\ current.op = "Unsubscribe"
    /\ redis' = redis \ {current.topic}
    /\ current' = Idle
    /\ UNCHANGED <<interestVars, cmds, link, initial, active, disconnects>>

\* Mutation: active_topics outlives the connection it describes.
Disconnect_KeepsActive ==
    /\ link # "down"
    /\ disconnects < MaxDisconnects
    /\ link' = "down"
    /\ initial' = {}
    /\ current' = Idle
    /\ redis' = {}
    /\ disconnects' = disconnects + 1
    /\ UNCHANGED <<interestVars, cmds, active>>

\* The stream ends, or a sink call fails in the middle of a command: the
\* connection, its subscriptions and the command in hand are gone.
Disconnect ==
    /\ link # "down"
    /\ disconnects < MaxDisconnects
    /\ link' = "down"
    /\ initial' = {}
    /\ current' = Idle
    /\ active' = {}
    /\ redis' = {}
    /\ disconnects' = disconnects + 1
    /\ UNCHANGED <<interestVars, cmds>>

-----------------------------------------------------------------------------
Handlers ==
    \/ \E k \in Tasks, t \in Topics : RetainTopic(k, t)
    \/ \E t \in Topics : ReleaseTopic(t)

Sends ==
    \/ \E k \in Tasks : SendSubscribe(k)
    \/ \E t \in Topics : DebounceElapsed(t)

SubscriberTask ==
    \/ Connect
    \/ \E t \in Topics : SubscribeInitial(t)
    \/ EnterLoop
    \/ RecvSubscribe \/ SinkSubscribe
    \/ RecvUnsubscribeIfIdle \/ CheckIdle \/ SinkUnsubscribe

Next == Handlers \/ Sends \/ SubscriberTask \/ Disconnect

Spec == Init /\ [][Next]_vars

\* The subscriber task runs for ever (its reconnect loop has no exit), and a
\* sender waiting on tokio's bounded channel is served in FIFO order.
Fairness ==
    /\ WF_vars(SubscriberTask)
    /\ \A k \in Tasks : SF_vars(SendSubscribe(k))

FairSpec == Spec /\ Fairness

-----------------------------------------------------------------------------
\* Types; a refcount of desired_topics never goes below zero.
TypeOK ==
    /\ desired \in [Topics -> Nat]
    /\ sending \in [Tasks -> Topics \cup {NoTopic}]
    /\ debounce \in [Topics -> Nat]
    /\ cmds \in Seq(Command)
    /\ link \in {"down", "snapshot", "up"}
    /\ initial \in SUBSET Topics
    /\ current \in Stage \cup {Idle}
    /\ active \in SUBSET Topics
    /\ redis \in SUBSET Topics
    /\ disconnects \in Nat

\* A Subscribe for t is queued, or a retaining task is about to queue it.
SubscribeOnItsWay(t) ==
    \/ \E i \in 1..Len(cmds) : cmds[i] = Subscribe(t)
    \/ \E k \in Tasks : sending[k] = t

\* While a connection is up, no topic retain_topic counted is forgotten: it
\* is active, still in the snapshot, or its Subscribe is on its way - whatever
\* the order in which retains, releases, debounce timers and reconnects fall.
RetainedIsCovered ==
    \A t \in Topics :
        /\ link # "down"
        /\ desired[t] > 0
        => t \in active \cup initial \/ SubscribeOnItsWay(t)

\* The task's own view of the connection and Redis's view differ at most by
\* the socket write in progress.
ViewsAgree ==
    \A t \in Topics :
        /\ t \in active => t \in redis \/ current = Subscribe(t)
        /\ t \in redis => t \in active \/ current = Unsubscribe(t)

\* A topic that stays retained is in the end delivered by Redis for good:
\* neither a reconnect nor an unsubscribe that was already under way when the
\* topic was retained again leaves connect_and_subscribe without it.
RetainedIsDelivered ==
    \A t \in Topics : <>[](desired[t] > 0) => <>[](t \in redis)

=============================================================================
