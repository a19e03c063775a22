------------------------------ MODULE AgentQueue ------------------------------
(***************************************************************************)
(* The event queue and the agent pool of the agent harness (buzz-acp       *)
(* queue.rs, pool.rs and the main loop of lib.rs).                         *)
(*                                                                         *)
(* One loop takes channel events, results of turns, panics, answers to     *)
(* steer requests and timer ticks; every arm that may free work ends in    *)
(* dispatch_pending, which flushes batches to idle agents until the queue  *)
(* or the pool is exhausted.  Turns run in tasks of their own: a turn's    *)
(* result, the answer to a steer request and the signal that cancels a     *)
(* turn travel through channels and cross each other.                      *)
(*                                                                         *)
(* Events are numbered in the order of arrival, which is also the order of *)
(* received_at.  Clocks are abstracted: a backoff elapses and an in-flight *)
(* deadline passes at any time after it was set.                           *)
(***************************************************************************)
EXTENDS Integers, Sequences, FiniteSets

CONSTANTS
    Channels,
    NoChannel,                \* the channel of a heartbeat turn
    Agents,
    DedupModes,               \* the dedup modes to start in: "Queue", "Drop"
    ModeGate,                 \* what mode_gate_signal may answer: "none", "Steer", "Interrupt"
    Controls,                 \* commands: "Cancel" (cancel, rotate), "Interrupt" (switch model)
    CreatedAt,                \* created_at of each event, set by its author
    MAX_PENDING_PER_CHANNEL,
    MAX_BATCH_EVENTS,
    MAX_RETRIES,
    Heartbeats,               \* whether heartbeat turns are configured
    MaxEvents,                \* bound: events that arrive
    MaxControls,              \* bound: commands and membership changes
    MaxDown,                  \* bound: agents that are down at a time
    Lapsing                   \* bound: channels of which one turn outlasts its deadline

Events == 1..MaxEvents

ASSUME QueueAssumption ==
    /\ NoChannel \notin Channels
    /\ DedupModes \subseteq {"Queue", "Drop"}
    /\ ModeGate \subseteq {"none", "Steer", "Interrupt"}
    /\ Controls \subseteq {"Cancel", "Interrupt"}
    /\ CreatedAt \in [Events -> Nat]
    /\ MAX_PENDING_PER_CHANNEL \in Nat \ {0}
    /\ MAX_BATCH_EVENTS \in Nat \ {0}
    /\ MAX_RETRIES \in Nat
    /\ Heartbeats \in BOOLEAN /\ Lapsing \subseteq Channels
    /\ MaxEvents \in Nat /\ MaxControls \in Nat /\ MaxDown \in Nat

VARIABLES
    queues,       \* pending events of each channel
    withheld,     \* withheld_native_steer: events a steer request carries
    cancelled,    \* cancelled_batches: events of cancelled turns, to be merged
    inFlight,     \* in_flight_channels
    overdue,      \* channels in flight whose deadline has passed
    retryAfter,   \* "none", "active" (in the future) or "expired"
    retryCounts,  \* failed attempts of each channel
    slots,        \* each agent: "idle", "busy", "respawning" or "empty"
    tasks,        \* task_map, with the turn the agent runs
    acks,         \* answers to steer requests on their way to the loop
    removed,      \* removed_channels
    loop,         \* where the main loop is
    next,         \* the event that arrives next
    dedup,        \* the configured dedup mode
    controls,     \* commands and membership changes so far
    lapsed,       \* history: channels released by flush_next before their turn ended
    settled       \* history: events delivered by a turn or a steer, or dropped
                  \* on a documented path

stores   == <<queues, withheld, cancelled>>
config   == <<dedup, lapsed>>
retries  == <<retryAfter, retryCounts>>
queueVars == <<queues, withheld, cancelled, inFlight, overdue, retryAfter, retryCounts,
               slots, tasks, acks, removed, loop, next, dedup, controls, lapsed, settled>>

Elems(s) == {s[i] : i \in DOMAIN s}
Least(m, n) == IF m <= n THEN m ELSE n

\* pop_back until the queue is within its cap, and what that drops.
Trim(s)    == SubSeq(s, 1, Least(Len(s), MAX_PENDING_PER_CHANNEL))
Trimmed(s) == Elems(SubSeq(s, MAX_PENDING_PER_CHANNEL + 1, Len(s)))

\* Removal of an event, which is in the sequence at most once.
Without(s, e) ==
    IF e \in Elems(s)
    THEN LET i == CHOOSE i \in DOMAIN s : s[i] = e IN SubSeq(s, 1, i - 1) \o SubSeq(s, i + 1, Len(s))
    ELSE s

\* sort_by_key(created_at) of the events of a batch, which is stable.
Sorted(s) == {t \in [1..Len(s) -> Elems(s)] :
                 /\ Elems(t) = Elems(s)
                 /\ \A i, j \in 1..Len(s) : i < j =>
                       \/ CreatedAt[t[i]] < CreatedAt[t[j]]
                       \/ /\ CreatedAt[t[i]] = CreatedAt[t[j]]
                          /\ \E m, n \in 1..Len(s) : m < n /\ s[m] = t[i] /\ s[n] = t[j]}

-----------------------------------------------------------------------------
(* Turns.                                                                  *)

\* A turn as run_prompt_task and its TaskMeta know it: the batch, whether
\* control_tx is still there or which signal went through it, the steer
\* requests not answered yet, and once it has ended its outcome and whether
\* its batch comes back.
Task(phase, c, events, merged) ==
    [phase |-> phase, channel |-> c, events |-> events, merged |-> merged,
     ctl |-> "open", steers |-> <<>>, outcome |-> "none", keep |-> FALSE]

Turn(c, events, merged) == Task("running", c, events, merged)
NoTask == Task("none", NoChannel, <<>>, <<>>)

TasksOf(c) == {a \in Agents : tasks[a].phase # "none" /\ tasks[a].channel = c}
BatchOf(t) == Elems(t.events) \cup Elems(t.merged)

\* Outcomes after which the agent process is replaced.
Fatal == {"fatal", "capped", "drain", "panic"}

Init ==
    /\ queues = [c \in Channels |-> <<>>]
    /\ withheld = [c \in Channels |-> <<>>]
    /\ cancelled = [c \in Channels |-> <<>>]
    /\ inFlight = {} /\ overdue = {}
    /\ retryAfter = [c \in Channels |-> "none"]
    /\ retryCounts = [c \in Channels |-> 0]
    /\ slots = [a \in Agents |-> "idle"]
    /\ tasks = [a \in Agents |-> NoTask]
    /\ acks = {} /\ removed = {}
    /\ loop = "select"
    /\ next = 1 /\ controls = 0
    /\ dedup \in DedupModes
    /\ lapsed = {} /\ settled = {}

\* signal_in_flight_task: the turn's control_tx is taken, whether or not the
\* task still listens.
Signal(c, sig) ==
    IF TasksOf(c) = {} THEN UNCHANGED tasks
    ELSE \E a \in TasksOf(c) :
            tasks' = [tasks EXCEPT ![a].ctl = IF @ = "open" THEN sig ELSE @]

\* mark_complete: the attempt counter survives while a backoff is pending.
MarkComplete(c) ==
    /\ inFlight' = inFlight \ {c}
    /\ overdue' = overdue \ {c}
    /\ retryAfter' = [retryAfter EXCEPT ![c] = IF @ = "active" THEN @ ELSE "none"]
    /\ retryCounts' = [retryCounts EXCEPT ![c] = IF retryAfter[c] = "active" THEN @ ELSE 0]

-----------------------------------------------------------------------------
(* Events from the relay.                                                  *)

\* Neither the loop nor push looks at removed_channels: what was received before
\* the unsubscribe took effect is queued for a removed channel too.
Arrival(c) ==
    /\ loop = "select" /\ loop' = "dispatch"
    /\ next <= MaxEvents /\ next' = next + 1
    /\ UNCHANGED <<cancelled, inFlight, overdue, retries, slots, acks, removed, controls, config>>

Refused(c) == dedup = "Drop" /\ c \in inFlight

\* push in drop mode discards what arrives during a turn.
PushRefused(c) ==
    /\ Arrival(c) /\ Refused(c)
    /\ settled' = settled \cup {next}
    /\ UNCHANGED <<queues, withheld, tasks>>

\* A full queue loses its oldest event to the new one.
Full(c) == Len(queues[c]) >= MAX_PENDING_PER_CHANNEL
Room(c) == IF Full(c) THEN Tail(queues[c]) ELSE queues[c]

Accepted(c) ==
    /\ Arrival(c) /\ ~ Refused(c)
    /\ settled' = IF Full(c) THEN settled \cup {Head(queues[c])} ELSE settled

PushQueued(c) ==
    /\ Accepted(c)
    /\ c \notin inFlight \/ "none" \in ModeGate
    /\ queues' = [queues EXCEPT ![c] = Append(Room(c), next)]
    /\ UNCHANGED <<withheld, tasks>>

\* Mutant: the event stays queued while the steer request carries it.
PushSteered_NotWithheld(c, a) ==
    /\ Accepted(c)
    /\ c \in inFlight /\ "Steer" \in ModeGate
    /\ a \in TasksOf(c) /\ tasks[a].phase = "running" /\ Len(tasks[a].steers) < 2
    /\ tasks' = [tasks EXCEPT ![a].steers = Append(@, next)]
    /\ queues' = [queues EXCEPT ![c] = Append(Room(c), next)]
    /\ UNCHANGED withheld

\* try_native_steer: the running turn's mailbox has one place, behind the
\* one request the read loop is waiting on, and the event is withheld.
PushSteered(c, a) ==
    /\ Accepted(c)
    /\ c \in inFlight /\ "Steer" \in ModeGate
    /\ a \in TasksOf(c) /\ tasks[a].phase = "running" /\ Len(tasks[a].steers) < 2
    /\ tasks' = [tasks EXCEPT ![a].steers = Append(@, next)]
    /\ withheld' = [withheld EXCEPT ![c] = Append(@, next)]
    /\ queues' = [queues EXCEPT ![c] = Room(c)]

\* An interrupt, or a steer the mailbox did not take, cancels the turn.
PushSignalled(c, sig) ==
    /\ Accepted(c)
    /\ c \in inFlight /\ sig \in ModeGate \ {"none"}
    /\ queues' = [queues EXCEPT ![c] = Append(Room(c), next)]
    /\ Signal(c, sig)
    /\ UNCHANGED withheld

Command ==
    /\ loop = "select" /\ UNCHANGED loop
    /\ controls < MaxControls /\ controls' = controls + 1
    /\ UNCHANGED <<inFlight, overdue, slots, acks, next, config>>

\* The owner's cancel and rotate commands, and a switch of the model.
Control(c, sig) ==
    /\ Command
    /\ \E a \in TasksOf(c) : tasks[a].ctl = "open"
    /\ Signal(c, sig)
    /\ UNCHANGED <<stores, retries, removed, settled>>

\* A membership-removed notification drains the channel; its turn goes on.
RemoveChannel(c) ==
    /\ Command
    /\ c \notin removed /\ removed' = removed \cup {c}
    /\ settled' = settled \cup Elems(queues[c]) \cup Elems(withheld[c]) \cup Elems(cancelled[c])
    /\ queues' = [queues EXCEPT ![c] = <<>>]
    /\ withheld' = [withheld EXCEPT ![c] = <<>>]
    /\ cancelled' = [cancelled EXCEPT ![c] = <<>>]
    /\ retryAfter' = [retryAfter EXCEPT ![c] = "none"]
    /\ retryCounts' = [retryCounts EXCEPT ![c] = 0]
    /\ UNCHANGED tasks

AddChannel(c) ==
    /\ Command
    /\ c \in removed /\ removed' = removed \ {c}
    /\ UNCHANGED <<stores, retries, tasks, settled>>

-----------------------------------------------------------------------------
(* The task that runs a turn.                                              *)

TaskStep == UNCHANGED <<stores, inFlight, overdue, retries, slots, removed, loop, next, controls, config>>

\* The read loop answers a steer request: taken by the agent, not possible
\* ("fallback"), or refused by it ("release").
AnswerSteer(a, result) ==
    /\ TaskStep
    /\ tasks[a].phase = "running" /\ tasks[a].steers # <<>>
    /\ LET e == Head(tasks[a].steers) IN
       /\ acks' = acks \cup {[channel |-> tasks[a].channel, event |-> e, result |-> result]}
       /\ settled' = IF result = "success" THEN settled \cup {e} ELSE settled
    /\ tasks' = [tasks EXCEPT ![a].steers = Tail(@)]

\* Mutant: an exit of the read loop that forgets the pending request.
Ends_Unanswered(a, outcome, keep) ==
    /\ TaskStep
    /\ tasks[a].phase = "running"
    /\ tasks' = [tasks EXCEPT ![a].phase = "ended", ![a].steers = <<>>,
                              ![a].outcome = outcome, ![a].keep = keep]
    /\ UNCHANGED acks

\* Every exit of run_prompt_task answers the requests still pending.
Ends(a, outcome, keep) ==
    /\ TaskStep
    /\ tasks[a].phase = "running"
    /\ tasks' = [tasks EXCEPT ![a].phase = "ended", ![a].steers = <<>>,
                              ![a].outcome = outcome, ![a].keep = keep]
    /\ acks' = acks \cup {[channel |-> tasks[a].channel, event |-> e, result |-> "release"] :
                             e \in Elems(tasks[a].steers)}

\* Agents that are down, or will be once their turn's end is handled.
Down == {a \in Agents : slots[a] \in {"respawning", "empty"}
                        \/ (tasks[a].phase = "ended" /\ tasks[a].outcome \in Fatal)}

TurnCompletes(a) ==
    /\ Ends(a, "ok", FALSE)
    /\ settled' = settled \cup BatchOf(tasks[a])

EndsWithout(a, outcome, keep) ==
    /\ Ends(a, outcome, keep)
    /\ outcome \in Fatal => Cardinality(Down) < MaxDown
    /\ settled' = IF keep THEN settled ELSE settled \cup BatchOf(tasks[a])

\* requeue_batch_if_queue: the batch comes back in queue mode only.
TurnFails(a, outcome) ==
    /\ outcome \in {"error", "auth", "fatal", "capped", "panic"}
    /\ EndsWithout(a, outcome, dedup = "Queue" /\ tasks[a].channel # NoChannel)

\* requeue_cancelled_batch: cancel and rotate give the batch up.
TurnCancelled(a, outcome) ==
    /\ tasks[a].ctl # "open"
    /\ outcome \in {"cancelled", "drain", "error", "auth", "fatal"}
    /\ EndsWithout(a, outcome, dedup = "Queue" /\ tasks[a].ctl # "Cancel")

-----------------------------------------------------------------------------
(* handle_prompt_result and recover_panicked_agent.                        *)

Panicked == {a \in Agents : tasks[a].phase = "ended" /\ tasks[a].outcome = "panic"}

\* The agent goes back to its slot or is replaced, if the circuit breaker of
\* the slot allows it; the loop ends when no agent is left or on its way.
Collect(a) ==
    /\ tasks[a].phase = "ended"
    /\ loop = "select" \/ (loop = "drain" /\ a \in Panicked)
    /\ tasks' = [tasks EXCEPT ![a] = NoTask]
    /\ \E s \in IF tasks[a].outcome \in Fatal THEN {"respawning", "empty"} ELSE {"idle"} :
          slots' = [slots EXCEPT ![a] = s]
    /\ loop' = IF \A b \in Agents : slots'[b] = "empty" THEN "exited"
               ELSE IF loop = "select" /\ a \in Panicked THEN "dispatch" ELSE "drain"
    /\ UNCHANGED <<withheld, acks, removed, next, controls, config>>

CollectHeartbeat(a) ==
    /\ Collect(a)
    /\ tasks[a].channel = NoChannel
    /\ UNCHANGED <<queues, cancelled, inFlight, overdue, retries, settled>>

HasBatch(t) == t.keep /\ t.channel \notin removed

\* Nothing to bring back: the turn succeeded, or its channel was removed.
CollectDone(a) ==
    /\ Collect(a)
    /\ tasks[a].channel # NoChannel /\ ~ HasBatch(tasks[a])
    /\ MarkComplete(tasks[a].channel)
    /\ settled' = IF tasks[a].keep THEN settled \cup BatchOf(tasks[a]) ELSE settled
    /\ UNCHANGED <<queues, cancelled>>

CollectCancelled(a) ==
    /\ Collect(a)
    /\ HasBatch(tasks[a]) /\ tasks[a].outcome \in {"cancelled", "drain"}
    /\ cancelled' = [cancelled EXCEPT ![tasks[a].channel] = @ \o tasks[a].merged \o tasks[a].events]
    /\ MarkComplete(tasks[a].channel)
    /\ UNCHANGED <<queues, settled>>

\* A turn at its cap without recent activity, or an authentication failure.
CollectHopeless(a) ==
    /\ Collect(a)
    /\ HasBatch(tasks[a]) /\ tasks[a].outcome \in {"capped", "auth"}
    /\ MarkComplete(tasks[a].channel)
    /\ settled' = settled \cup BatchOf(tasks[a])
    /\ UNCHANGED <<queues, cancelled>>

Retried(a) == HasBatch(tasks[a]) /\ tasks[a].outcome \in {"error", "fatal", "panic"}

\* Mutants: one attempt too many; and mark_complete before requeue, which
\* clears the counter of every failed attempt.
CollectRequeued_OffByOne(a) ==
    LET t == tasks[a]
        c == t.channel IN
    /\ Collect(a) /\ Retried(a)
    /\ retryCounts[c] <= MAX_RETRIES
    /\ queues' = [queues EXCEPT ![c] = Trim(t.events \o @)]
    /\ settled' = settled \cup Trimmed(t.events \o queues[c])
    /\ retryAfter' = [retryAfter EXCEPT ![c] = "active"]
    /\ retryCounts' = [retryCounts EXCEPT ![c] = @ + 1]
    /\ inFlight' = inFlight \ {c} /\ overdue' = overdue \ {c}
    /\ UNCHANGED cancelled

CollectRequeued_CompleteFirst(a) ==
    LET t == tasks[a]
        c == t.channel IN
    /\ Collect(a) /\ Retried(a)
    /\ queues' = [queues EXCEPT ![c] = Trim(t.events \o @)]
    /\ settled' = settled \cup Trimmed(t.events \o queues[c])
    /\ retryAfter' = [retryAfter EXCEPT ![c] = "active"]
    /\ retryCounts' = [retryCounts EXCEPT ![c] = 1]
    /\ inFlight' = inFlight \ {c} /\ overdue' = overdue \ {c}
    /\ UNCHANGED cancelled

\* requeue: the batch goes to the front with a backoff, then mark_complete,
\* which finds the backoff pending.
CollectRequeued(a) ==
    LET t == tasks[a]
        c == t.channel IN
    /\ Collect(a) /\ Retried(a)
    /\ retryCounts[c] < MAX_RETRIES
    /\ queues' = [queues EXCEPT ![c] = Trim(t.events \o @)]
    /\ settled' = settled \cup Trimmed(t.events \o queues[c])
    /\ retryAfter' = [retryAfter EXCEPT ![c] = "active"]
    /\ retryCounts' = [retryCounts EXCEPT ![c] = @ + 1]
    /\ inFlight' = inFlight \ {c} /\ overdue' = overdue \ {c}
    /\ UNCHANGED cancelled

\* requeue: the batch has used up its attempts.
CollectDeadLettered(a) ==
    LET c == tasks[a].channel IN
    /\ Collect(a) /\ Retried(a)
    /\ retryCounts[c] >= MAX_RETRIES
    /\ settled' = settled \cup BatchOf(tasks[a])
    /\ retryAfter' = [retryAfter EXCEPT ![c] = "none"]
    /\ retryCounts' = [retryCounts EXCEPT ![c] = 0]
    /\ inFlight' = inFlight \ {c} /\ overdue' = overdue \ {c}
    /\ UNCHANGED <<queues, cancelled>>

\* The answer to a steer request: a success consumes the event and renews
\* the turn's deadline, anything else gives it back to the queue.
AckSteer(k) ==
    LET c == k.channel
        back == <<k.event>> \o queues[c]
        without(s) == Without(s, k.event) IN
    /\ loop = "select" /\ loop' = "dispatch"
    /\ acks' = acks \ {k}
    /\ withheld' = [withheld EXCEPT ![c] = without(@)]
    /\ IF k.result = "success"
       THEN /\ queues' = [queues EXCEPT ![c] = without(@)]
            /\ overdue' = overdue \ {c}
            /\ UNCHANGED settled
       ELSE /\ IF k.event \in Elems(withheld[c])
               THEN /\ queues' = [queues EXCEPT ![c] = Trim(back)]
                    /\ settled' = settled \cup Trimmed(back)
               ELSE UNCHANGED <<queues, settled>>
            /\ UNCHANGED overdue
    /\ IF k.result = "fallback" THEN Signal(c, "Steer") ELSE UNCHANGED tasks
    /\ UNCHANGED <<cancelled, inFlight, retries, slots, removed, next, controls, config>>

-----------------------------------------------------------------------------
(* dispatch_pending.                                                       *)

\* drain_ready_join_results runs before dispatch_pending.
Dispatching == loop = "dispatch" \/ (loop = "drain" /\ Panicked = {})

\* Mutant: the release forgets the withheld events of the channel.
Expire_DropsWithheld ==
    /\ Dispatching /\ overdue # {}
    /\ inFlight' = inFlight \ overdue /\ overdue' = {}
    /\ lapsed' = lapsed \cup overdue
    /\ withheld' = [c \in Channels |-> IF c \in overdue THEN <<>> ELSE withheld[c]]
    /\ UNCHANGED <<queues, settled, cancelled, retries, slots, tasks, acks, removed, loop, next,
                   controls, dedup>>

\* flush_next first releases the channels past their deadline.
Expire ==
    /\ Dispatching /\ overdue # {}
    /\ inFlight' = inFlight \ overdue /\ overdue' = {}
    /\ lapsed' = lapsed \cup overdue
    /\ queues' = [c \in Channels |->
                     IF c \in overdue THEN Trim(withheld[c] \o queues[c]) ELSE queues[c]]
    /\ settled' = settled \cup UNION {Trimmed(withheld[c] \o queues[c]) : c \in overdue}
    /\ withheld' = [c \in Channels |-> IF c \in overdue THEN <<>> ELSE withheld[c]]
    /\ UNCHANGED <<cancelled, retries, slots, tasks, acks, removed, loop, next, controls, dedup>>

\* Mutant: the filter forgets the channels in flight.
Candidates_InFlightToo == {c \in Channels : queues[c] # <<>> /\ retryAfter[c] # "active"}

Candidates == {c \in Channels : /\ queues[c] # <<>>
                                /\ c \notin inFlight
                                /\ retryAfter[c] # "active"}

Leftovers == {c \in Channels \ inFlight : cancelled[c] # <<>>}

Flush(c) ==
    /\ cancelled' = [cancelled EXCEPT ![c] = <<>>]
    /\ UNCHANGED <<withheld, acks, removed, next, controls, config>>

\* An idle agent takes the batch.
Claim(c, a, events, merged, rest) ==
    /\ slots[a] = "idle"
    /\ slots' = [slots EXCEPT ![a] = "busy"]
    /\ tasks' = [tasks EXCEPT ![a] = Turn(c, events, merged)]
    /\ inFlight' = inFlight \cup {c}
    /\ queues' = [queues EXCEPT ![c] = rest]
    /\ UNCHANGED <<overdue, retries, settled>>
    /\ loop' = "dispatch"

\* No agent is idle: requeue_preserve_timestamps and mark_complete.
Exhausted(c, events, rest) ==
    /\ \A a \in Agents : slots[a] # "idle"
    /\ queues' = [queues EXCEPT ![c] = Trim(events \o rest)]
    /\ settled' = settled \cup Trimmed(events \o rest)
    /\ MarkComplete(c)
    /\ loop' = "select"
    /\ UNCHANGED <<slots, tasks>>

Hand(c, events, merged, rest) ==
    /\ Flush(c)
    /\ (\E a \in Agents : Claim(c, a, events, merged, rest)) \/ Exhausted(c, events, rest)

\* Mutant: the whole queue is removed when the batch is drained from it.
FlushQueued_DropsRest(c) ==
    LET q == queues[c]
        n == Least(MAX_BATCH_EVENTS, Len(q)) IN
    /\ Dispatching /\ overdue = {}
    /\ c \in Candidates
    /\ \A d \in Candidates : Head(q) <= Head(queues[d])
    /\ \E events \in Sorted(SubSeq(q, 1, n)) : Hand(c, events, cancelled[c], <<>>)

\* The channel with the oldest head, its cancelled events merged in.
FlushQueued(c) ==
    LET q == queues[c]
        n == Least(MAX_BATCH_EVENTS, Len(q)) IN
    /\ Dispatching /\ overdue = {}
    /\ c \in Candidates
    /\ \A d \in Candidates : Head(q) <= Head(queues[d])
    /\ \E events \in Sorted(SubSeq(q, 1, n)) :
          Hand(c, events, cancelled[c], SubSeq(q, n + 1, Len(q)))

\* Without a queued event to merge, a cancelled batch is flushed as it was.
FlushCancelled(c) ==
    /\ Dispatching /\ overdue = {}
    /\ Candidates = {} /\ c \in Leftovers
    /\ Hand(c, cancelled[c], <<>>, queues[c])

FlushNothing ==
    /\ Dispatching /\ overdue = {}
    /\ Candidates = {} /\ Leftovers = {}
    /\ loop' = "select"
    /\ UNCHANGED <<stores, inFlight, overdue, retries, slots, tasks, acks, removed, next,
                   controls, config, settled>>

-----------------------------------------------------------------------------
(* Timers and respawns.                                                    *)

\* Every maintenance interval: compact_expired_state, refill of empty slots
\* whose breaker allows it, and dispatch.
Maintain ==
    /\ loop = "select" /\ loop' = "dispatch"
    /\ retryAfter' = [c \in Channels |-> IF retryAfter[c] = "expired" THEN "none" ELSE retryAfter[c]]
    /\ retryCounts' = [c \in Channels |->
          IF retryAfter[c] = "active" \/ queues[c] # <<>> \/ c \in inFlight
          THEN retryCounts[c] ELSE 0]
    /\ \E refill \in SUBSET {a \in Agents : slots[a] = "empty"} :
          slots' = [a \in Agents |-> IF a \in refill THEN "respawning" ELSE slots[a]]
    /\ UNCHANGED <<stores, inFlight, overdue, tasks, acks, removed, next, controls, config, settled>>

TimerStep == UNCHANGED <<stores, inFlight, retryCounts, acks, removed, next, controls, config, settled>>

Respawned(a) ==
    /\ TimerStep
    /\ loop = "select" /\ loop' = "dispatch"
    /\ slots[a] = "respawning" /\ slots' = [slots EXCEPT ![a] = "idle"]
    /\ UNCHANGED <<overdue, retryAfter, tasks>>

RespawnFailed(a) ==
    /\ TimerStep
    /\ loop = "select" /\ UNCHANGED loop
    /\ slots[a] = "respawning" /\ slots' = [slots EXCEPT ![a] = "empty"]
    /\ UNCHANGED <<overdue, retryAfter, tasks>>

\* dispatch_heartbeat, when there is no other work.
Heartbeat(a) ==
    /\ TimerStep
    /\ Heartbeats /\ loop = "select" /\ UNCHANGED loop
    /\ Candidates = {} /\ Leftovers = {} /\ overdue = {}
    /\ slots[a] = "idle" /\ TasksOf(NoChannel) = {}
    /\ slots' = [slots EXCEPT ![a] = "busy"]
    /\ tasks' = [tasks EXCEPT ![a] = Turn(NoChannel, <<>>, <<>>)]
    /\ UNCHANGED <<overdue, retryAfter>>

BackoffElapses(c) ==
    /\ TimerStep
    /\ retryAfter[c] = "active" /\ retryAfter' = [retryAfter EXCEPT ![c] = "expired"]
    /\ UNCHANGED <<overdue, slots, tasks, loop>>

DeadlinePasses(c) ==
    /\ TimerStep
    /\ c \in (Lapsing \ lapsed) \cap inFlight /\ overdue' = overdue \cup {c}
    /\ UNCHANGED <<retryAfter, slots, tasks, loop>>

-----------------------------------------------------------------------------
FromRelay == \E c \in Channels :
    \/ PushRefused(c) \/ PushQueued(c)
    \/ \E a \in Agents : PushSteered(c, a)
    \/ \E sig \in ModeGate : PushSignalled(c, sig)
    \/ \E sig \in Controls : Control(c, sig)
    \/ RemoveChannel(c) \/ AddChannel(c)

Outcomes == {"error", "auth", "fatal", "capped", "cancelled", "drain", "panic"}

TurnEnds(a) ==
    \/ TurnCompletes(a)
    \/ \E o \in Outcomes : TurnFails(a, o) \/ TurnCancelled(a, o)

Results(a) ==
    \/ CollectHeartbeat(a) \/ CollectDone(a) \/ CollectCancelled(a)
    \/ CollectHopeless(a) \/ CollectRequeued(a) \/ CollectDeadLettered(a)

Dispatch ==
    \/ Expire
    \/ \E c \in Channels : FlushQueued(c) \/ FlushCancelled(c)
    \/ FlushNothing

Timers ==
    \/ Maintain
    \/ \E a \in Agents : Respawned(a) \/ RespawnFailed(a) \/ Heartbeat(a)
    \/ \E c \in Channels : BackoffElapses(c) \/ DeadlinePasses(c)

Next ==
    \/ FromRelay
    \/ \E a \in Agents :
          \/ \E r \in {"success", "fallback", "release"} : AnswerSteer(a, r)
          \/ TurnEnds(a) \/ Results(a)
    \/ \E k \in acks : AckSteer(k)
    \/ Dispatch \/ Timers

QueueSpec == Init /\ [][Next]_queueVars

\* The executor polls every task; the loop's select is biased to results,
\* panics and steer answers, and the maintenance interval comes round.  A
\* turn ends because idle and hard deadlines bound it.
FairQueueSpec ==
    /\ QueueSpec
    /\ WF_queueVars(Dispatch)
    /\ WF_queueVars(Maintain)
    /\ \A a \in Agents : WF_queueVars(TurnEnds(a)) /\ SF_queueVars(Results(a))
    /\ SF_queueVars(\E k \in acks : AckSteer(k))
    /\ \A c \in Channels : WF_queueVars(BackoffElapses(c))

-----------------------------------------------------------------------------
(* Properties.                                                             *)

Tasks == [phase : {"none", "running", "ended"}, channel : Channels \cup {NoChannel},
          events : Seq(Events), merged : Seq(Events),
          ctl : {"open", "Steer", "Interrupt", "Cancel"}, steers : Seq(Events),
          outcome : Outcomes \cup {"none", "ok"}, keep : BOOLEAN]

Acks == [channel : Channels, event : Events, result : {"success", "fallback", "release"}]

\* Every variable has its type: the attempt counter stays within its limit,
\* only a channel in flight is past its deadline, a slot is busy exactly
\* while task_map names a turn of its agent, and only a channel's turn keeps
\* a batch or carries a steer request.
QueueTypeOK ==
    /\ queues \in [Channels -> Seq(Events)]
    /\ withheld \in [Channels -> Seq(Events)]
    /\ cancelled \in [Channels -> Seq(Events)]
    /\ inFlight \subseteq Channels /\ overdue \subseteq inFlight
    /\ retryAfter \in [Channels -> {"none", "active", "expired"}]
    /\ retryCounts \in [Channels -> 0..MAX_RETRIES]
    /\ slots \in [Agents -> {"idle", "busy", "respawning", "empty"}]
    /\ tasks \in [Agents -> Tasks]
    /\ \A a \in Agents : /\ slots[a] = "busy" <=> tasks[a].phase # "none"
                         /\ tasks[a].channel = NoChannel =>
                               ~ tasks[a].keep /\ tasks[a].ctl = "open" /\ tasks[a].steers = <<>>
    /\ acks \subseteq Acks
    /\ removed \subseteq Channels /\ lapsed \subseteq Channels
    /\ loop \in {"select", "drain", "dispatch", "exited"}
    /\ next \in 1..MaxEvents + 1 /\ controls \in 0..MaxControls
    /\ dedup \in {"Queue", "Drop"} /\ settled \subseteq Events

\* A channel has at most one turn, and it is in flight exactly while it has
\* one: what flush_next's filter, the result handler and the panic handler
\* together guarantee, unless a turn outlasted its deadline.
OneTurnPerChannel ==
    \A c \in Channels \ lapsed :
        /\ \A a, b \in TasksOf(c) : a = b
        /\ c \in inFlight <=> TasksOf(c) # {}

\* Where events are kept: the stores, and the batches of turns that run or
\* hand their batch back.
Places == ({"queue", "withheld", "cancelled"} \X Channels) \cup ({"events", "merged"} \X Agents)

HeldBatch(a) == tasks[a].phase = "running" \/ (tasks[a].phase = "ended" /\ tasks[a].keep)

At(p) == CASE p[1] = "queue"     -> queues[p[2]]
           [] p[1] = "withheld"  -> withheld[p[2]]
           [] p[1] = "cancelled" -> cancelled[p[2]]
           [] p[1] = "events"    -> IF HeldBatch(p[2]) THEN tasks[p[2]].events ELSE <<>>
           [] p[1] = "merged"    -> IF HeldBatch(p[2]) THEN tasks[p[2]].merged ELSE <<>>

ChannelAt(p) == IF p[1] \in {"events", "merged"} THEN tasks[p[2]].channel ELSE p[2]

Held == UNION {Elems(At(p)) : p \in Places}

\* An event is in one place at a time, and once it was settled, by a turn, by
\* a steer whose answer may still be on its way, or by dropping it, no turn
\* and no queue has it (the no-double-deliver invariant of
\* withheld_native_steer), unless a turn of the channel outlasted its deadline.
SettledOnce ==
    /\ \A p, q \in Places : \A i \in DOMAIN At(p), j \in DOMAIN At(q) :
          At(p)[i] = At(q)[j] => p = q /\ i = j
    /\ \A p \in Places :
          p[1] # "withheld" /\ ChannelAt(p) \notin lapsed => settled \cap Elems(At(p)) = {}

\* A withheld event is carried by a steer request that will be answered, or
\* its answer is on the way: it is never left in the side table.
NoOrphanedSteer ==
    \A c \in Channels : \A e \in Elems(withheld[c]) :
        \/ \E a \in TasksOf(c) : e \in Elems(tasks[a].steers)
        \/ \E k \in acks : k.channel = c /\ k.event = e

\* No event is lost: it is kept, it was delivered, or it was dropped on a
\* documented path (a cap, dead-lettering, removal, the owner's cancel).
NoSilentLoss == \A e \in Events : e < next => e \in Held \cup settled

\* What is lost otherwise was of a cancelled turn, kept to be merged or merged
\* into a batch that failed or found no agent: no other step loses an event.
LostIsMerged ==
    [][\A e \in Held \cup settled :
          \/ e \in Held' \cup settled'
          \/ \E p \in Places : p[1] \in {"cancelled", "merged"} /\ e \in Elems(At(p))]_queueVars

\* Dispatch has work and no agent for it.
PoolExhausted == Dispatching /\ Candidates \cup Leftovers # {} /\ \A a \in Agents : slots[a] # "idle"

\* Every event that arrives leaves the queue in the end, delivered or after
\* MAX_RETRIES failed attempts, unless the pool is exhausted again and again:
\* mark_complete after requeue_preserve_timestamps clears the attempt counter.
EventSettles ==
    []<>PoolExhausted \/ \A e \in Events : (e < next) ~> (e \notin Held)
=============================================================================
