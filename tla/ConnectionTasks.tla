-------------------------- MODULE ConnectionTasks --------------------------
(***************************************************************************)
(* The tasks of one WebSocket connection (buzz-relay connection.rs): the   *)
(* receive loop, the send loop, the heartbeat, the authentication timeout  *)
(* and the cleanup that waits for them, with the bounded data and control  *)
(* queues, the backpressure counter and the cancellation token they share. *)
(*                                                                         *)
(* The socket is the environment: a write completes, fails, or stays       *)
(* pending for as long as the peer does not read.  A data frame is only    *)
(* counted; of the control frames, keepalives (pings and pongs) are told  *)
(* apart from the notices that say why a connection is being closed.       *)
(***************************************************************************)
EXTENDS Integers, Sequences

CONSTANTS
    Handlers,     \* tasks that send frames: spawned handlers and fan-outs
    Notices,      \* tasks that queue a closing notice and then cancel
    Restart,      \* the notice that is itself a close frame (drain_all)
    SendBuffer,   \* capacity of the data queue
    CtrlCapacity, \* capacity of the control queue (8 in the code)
    MaxBatch,     \* MAX_WS_SEND_BATCH (64 in the code)
    GraceLimit,   \* slow_client_grace_limit
    PongLimit     \* missing pongs that end the connection (3 in the code)

Senders == Handlers \cup {"recv"}

ASSUME ConnectionAssumption ==
    /\ SendBuffer \in Nat \ {0} /\ CtrlCapacity \in Nat \ {0}
    /\ MaxBatch \in Nat \ {0} /\ GraceLimit \in Nat \ {0}
    /\ PongLimit \in Nat \ {0}
    /\ "recv" \notin Handlers
    /\ {"none", "keepalive", "denied"} \cap Notices = {}

VARIABLES
    cancelled,  \* the connection's cancellation token
    data,       \* frames in the data queue
    ctrl,       \* the control queue
    pressure,   \* backpressure_count, up to GraceLimit: there the token has fired
    snd,        \* a sender between its try_send and the counter: "idle", "sent", "full"
    loop,       \* send_loop
    hand,       \* the control frame send_loop is writing
    batched,    \* data frames fed since the last flush
    wire,       \* the socket: "open", "closing" (Restart written), "closed", "broken"
    unsaid,     \* notices queued before the token fired and not yet written
    recv,       \* recv_loop: "on", in handle_auth ("auth", "deny"), "off"
    auth,       \* auth_state
    timer,      \* the authentication timeout task
    beat,       \* the heartbeat task
    missed,     \* missed_pongs
    notify,     \* the notifying tasks
    phase       \* handle_active_connection: "running", "waiting", "gone"

outVars  == <<loop, hand, batched, wire>>
sendVars == <<data, pressure, snd>>
liveVars == <<timer, beat, missed>>
taskVars == <<cancelled, sendVars, ctrl, outVars, unsaid, recv, auth, liveVars, notify, phase>>

Frames == Notices \cup {"keepalive", "denied"}

TaskInit ==
    /\ cancelled = FALSE
    /\ data = 1                      \* the AUTH challenge
    /\ ctrl = <<>>
    /\ pressure = 0
    /\ snd = [h \in Senders |-> "idle"]
    /\ loop = "select" /\ hand = "none" /\ batched = 0
    /\ wire = "open" /\ unsaid = {}
    /\ recv = "on" /\ auth = "pending"
    /\ timer = "armed" /\ beat = "on" /\ missed = 0
    /\ notify = [n \in Notices |-> "idle"]
    /\ phase = "running"

-----------------------------------------------------------------------------
(* The two queues.  When send_loop has returned their receivers are gone. *)

CtrlRoom == loop # "done" /\ Len(ctrl) < CtrlCapacity

\* ctrl_tx.try_send; a notice accepted before the token fires is to be written.
TrySendCtrl(frame) ==
    /\ ctrl' = IF CtrlRoom THEN Append(ctrl, frame) ELSE ctrl
    /\ unsaid' = IF CtrlRoom /\ ~cancelled /\ frame # "keepalive"
                   THEN unsaid \cup {frame} ELSE unsaid

\* ConnectionState::send and try_send_ws_message: the queue first.  A frame for
\* a queue that is closed is dropped.
Enqueue(h) ==
    \/ /\ loop # "done" /\ data < SendBuffer
       /\ data' = data + 1
       /\ snd' = [snd EXCEPT ![h] = "sent"]
    \/ /\ loop # "done" /\ data = SendBuffer
       /\ snd' = [snd EXCEPT ![h] = "full"]
       /\ UNCHANGED data
    \/ /\ loop = "done"
       /\ UNCHANGED <<data, snd>>

TrySend(h) ==
    /\ snd[h] = "idle"
    /\ Enqueue(h)
    /\ UNCHANGED <<cancelled, pressure, ctrl, outVars, unsaid, recv, auth, liveVars, notify, phase>>

\* Then the shared counter: a success resets it, ...
ResetPressure(h) ==
    /\ snd[h] = "sent"
    /\ snd' = [snd EXCEPT ![h] = "idle"]
    /\ pressure' = 0
    /\ UNCHANGED <<cancelled, data, ctrl, outVars, unsaid, recv, auth, liveVars, notify, phase>>

\* ... a full buffer counts, and at the grace limit cancels the connection.
CountPressure(h) ==
    /\ snd[h] = "full"
    /\ snd' = [snd EXCEPT ![h] = "idle"]
    /\ pressure' = IF pressure < GraceLimit THEN pressure + 1 ELSE pressure
    /\ cancelled' = (cancelled \/ pressure' = GraceLimit)
    /\ UNCHANGED <<data, ctrl, outVars, unsaid, recv, auth, liveVars, notify, phase>>

-----------------------------------------------------------------------------
(* send_loop. *)

notSocket == <<cancelled, pressure, snd, recv, auth, liveVars, notify, phase>>
notLoop   == <<notSocket, unsaid>>

TakeCtrl(to) ==
    /\ ctrl # <<>>
    /\ hand' = Head(ctrl)
    /\ ctrl' = Tail(ctrl)
    /\ loop' = to
    /\ UNCHANGED <<notLoop, data, batched, wire>>

\* Control frames first: the drain at the top of the loop, and the second
\* branch of the select for one that is queued after it.
SelectCtrl == loop = "select" /\ TakeCtrl("ctrl")

\* select!, biased: the token before control before data.
SelectCancel ==
    /\ loop = "select" /\ cancelled
    /\ loop' = "final"
    /\ UNCHANGED <<notLoop, data, ctrl, hand, batched, wire>>

Feed(n) ==
    /\ data > 0
    /\ data' = data - 1
    /\ batched' = n
    /\ loop' = "feed"
    /\ UNCHANGED <<notLoop, ctrl, hand, wire>>

\* Mutation: the select is not biased, and data may win over the token.
SelectData_Unbiased == loop = "select" /\ ctrl = <<>> /\ Feed(1)

SelectData == loop = "select" /\ ~cancelled /\ ctrl = <<>> /\ Feed(1)

\* Mutation: one frame more than the batch allows.
FeedNext_OffByOne == loop = "fed" /\ batched <= MaxBatch /\ Feed(batched + 1)

FeedNext == loop = "fed" /\ batched < MaxBatch /\ Feed(batched + 1)

Flush ==
    /\ loop = "fed"
    /\ batched = MaxBatch \/ data = 0
    /\ loop' = "flush"
    /\ UNCHANGED <<notLoop, data, ctrl, hand, batched, wire>>

\* After the token fired: what is queued for control goes out before the close.
DrainFinal == loop = "final" /\ TakeCtrl("finalctrl")

\* Mutation: the close frame overtakes the queued control frames.
SendClose_Immediate ==
    /\ loop = "final"
    /\ loop' = "close"
    /\ UNCHANGED <<notLoop, data, ctrl, hand, batched, wire>>

SendClose ==
    /\ loop = "final" /\ ctrl = <<>>
    /\ loop' = "close"
    /\ UNCHANGED <<notLoop, data, ctrl, hand, batched, wire>>

Writing == {"ctrl", "feed", "flush", "finalctrl", "close"}

\* The loop's return drops both receivers, and what they hold.
DropQueues ==
    IF loop' = "done" THEN data' = 0 /\ ctrl' = <<>> ELSE UNCHANGED <<data, ctrl>>

\* The socket takes what is being written; after a close frame it takes nothing.
WriteDone ==
    /\ loop \in Writing
    /\ wire = "open"
    /\ loop' = CASE loop = "ctrl"      -> "select"
                 [] loop = "feed"      -> "fed"
                 [] loop = "flush"     -> "select"
                 [] loop = "finalctrl" -> "final"
                 [] loop = "close"     -> "done"
    /\ unsaid' = unsaid \ {hand}
    /\ wire' = IF loop = "close" THEN "closed" ELSE IF hand = Restart THEN "closing" ELSE "open"
    /\ hand' = "none"
    /\ batched' = IF loop = "flush" THEN 0 ELSE batched
    /\ DropQueues
    /\ UNCHANGED notSocket

\* The write fails: the loop ends, in the final drain by way of a last close.
WriteFails ==
    /\ loop \in Writing
    /\ loop' = IF loop = "finalctrl" THEN "close" ELSE "done"
    /\ hand' = "none"
    /\ wire' = "broken"
    /\ batched' = 0
    /\ DropQueues
    /\ UNCHANGED <<notLoop>>

SendLoop ==
    \/ SelectCancel \/ SelectCtrl \/ SelectData \/ FeedNext \/ Flush
    \/ DrainFinal \/ SendClose

-----------------------------------------------------------------------------
(* recv_loop, and handle_auth, which it runs inline. *)

notRecv == <<pressure, outVars, timer, beat, notify, phase>>

\* Between two frames: the send of the last reply is over.
InLoop == recv = "on" /\ snd["recv"] = "idle"

RecvPong ==
    /\ InLoop
    /\ missed' = 0
    /\ UNCHANGED <<notRecv, cancelled, data, snd, ctrl, unsaid, recv, auth>>

\* A full control queue means a stalled writer: the loop ends.
RecvPing ==
    /\ InLoop
    /\ TrySendCtrl("keepalive")
    /\ recv' = IF CtrlRoom THEN "on" ELSE "off"
    /\ UNCHANGED <<notRecv, cancelled, data, snd, missed, auth>>

\* A frame that is answered at once: malformed, over quota, no permit, CLOSE,
\* a second AUTH; or too large, which also ends the loop.
RecvFrame(to) ==
    /\ InLoop
    /\ Enqueue("recv")
    /\ recv' = to
    /\ UNCHANGED <<notRecv, cancelled, ctrl, unsaid, missed, auth>>

\* Close frame, end of stream or error; or the token has fired.
RecvEnd ==
    /\ InLoop
    /\ recv' = "off"
    /\ UNCHANGED <<notRecv, cancelled, data, snd, ctrl, unsaid, missed, auth>>

RecvAuth ==
    /\ InLoop /\ auth = "pending"
    /\ recv' = "auth"
    /\ UNCHANGED <<notRecv, cancelled, data, snd, ctrl, unsaid, missed, auth>>

\* Verified and admitted, or refused with an OK false in the data queue.
AuthDone(to) ==
    /\ recv = "auth"
    /\ auth' = to
    /\ Enqueue("recv")
    /\ recv' = "on"
    /\ UNCHANGED <<notRecv, cancelled, ctrl, unsaid, missed>>

\* The ban gate: the reason goes to the control queue, then the token fires.
AuthDenied ==
    /\ recv = "auth"
    /\ auth' = "failed"
    /\ TrySendCtrl("denied")
    /\ recv' = "deny"
    /\ UNCHANGED <<notRecv, cancelled, data, snd, missed>>

DenyCancel ==
    /\ recv = "deny"
    /\ cancelled' = TRUE
    /\ recv' = "on"
    /\ UNCHANGED <<notRecv, data, snd, ctrl, unsaid, missed, auth>>

-----------------------------------------------------------------------------
(* The other tasks. *)

\* Mutation: a tick that sends its ping forgets the pongs that are missing.
HeartbeatTick_Forgets ==
    /\ beat = "on"
    /\ TrySendCtrl("keepalive")
    /\ beat' = IF CtrlRoom THEN "on" ELSE "off"
    /\ cancelled' = (cancelled \/ ~CtrlRoom)
    /\ missed' = 0
    /\ UNCHANGED <<sendVars, outVars, recv, auth, timer, notify, phase>>

\* The last of PongLimit ticks without a pong, or a full control queue, ends the connection.
HeartbeatTick ==
    /\ beat = "on"
    /\ missed' = missed + 1
    /\ IF missed + 1 >= PongLimit
       THEN cancelled' = TRUE /\ beat' = "off" /\ UNCHANGED <<ctrl, unsaid>>
       ELSE /\ TrySendCtrl("keepalive")
            /\ beat' = IF CtrlRoom THEN "on" ELSE "off"
            /\ cancelled' = (cancelled \/ ~CtrlRoom)
    /\ UNCHANGED <<sendVars, outVars, recv, auth, timer, notify, phase>>

HeartbeatStop ==
    /\ beat = "on" /\ cancelled
    /\ beat' = "off"
    /\ UNCHANGED <<cancelled, sendVars, ctrl, outVars, unsaid, recv, auth, timer, missed, notify, phase>>

\* Mutation: an attempt that failed counts as an authentication.
AuthTimeout_PendingOnly ==
    /\ timer = "armed"
    /\ timer' = "off"
    /\ cancelled' = (cancelled \/ auth = "pending")
    /\ UNCHANGED <<sendVars, ctrl, outVars, unsaid, recv, auth, beat, missed, notify, phase>>

\* AUTH_TIMEOUT has elapsed, and whoever is not authenticated is cancelled; or
\* the token fired first, which leaves it as it is.
AuthTimeout ==
    /\ timer = "armed"
    /\ timer' = "off"
    /\ cancelled' = (cancelled \/ auth # "authenticated")
    /\ UNCHANGED <<sendVars, ctrl, outVars, unsaid, recv, auth, beat, missed, notify, phase>>

\* disconnect_pubkey, for a connection whose key is known, and drain_all: queue
\* the notice, then cancel.
NotifyQueue(n) ==
    /\ notify[n] = "idle" /\ phase # "gone"
    /\ n = Restart \/ auth = "authenticated"
    /\ TrySendCtrl(n)
    /\ notify' = [notify EXCEPT ![n] = "cancel"]
    /\ UNCHANGED <<cancelled, sendVars, outVars, recv, auth, liveVars, phase>>

NotifyCancel(n) ==
    /\ notify[n] = "cancel"
    /\ notify' = [notify EXCEPT ![n] = "done"]
    /\ cancelled' = TRUE
    /\ UNCHANGED <<sendVars, ctrl, outVars, unsaid, recv, auth, liveVars, phase>>

\* The receive loop is over: cancel, and wait for the three tasks ...
BeginCleanup ==
    /\ phase = "running" /\ recv = "off" /\ snd["recv"] = "idle"
    /\ phase' = "waiting"
    /\ cancelled' = TRUE
    /\ UNCHANGED <<sendVars, ctrl, outVars, unsaid, recv, auth, liveVars, notify>>

\* ... then subscriptions, connection entry, presence and permit are given up.
Cleanup ==
    /\ phase = "waiting"
    /\ loop = "done" /\ beat = "off" /\ timer = "off"
    /\ phase' = "gone"
    /\ UNCHANGED <<cancelled, sendVars, ctrl, outVars, unsaid, recv, auth, liveVars, notify>>

-----------------------------------------------------------------------------
Counter(h) == ResetPressure(h) \/ CountPressure(h)

RecvTask ==
    \/ \E to \in {"authenticated", "failed"} : AuthDone(to)
    \/ AuthDenied \/ DenyCancel
    \/ Counter("recv")

Peer ==
    \/ RecvPong \/ RecvPing \/ RecvEnd \/ RecvAuth
    \/ \E to \in {"on", "off"} : RecvFrame(to)

Others ==
    \/ HeartbeatTick \/ HeartbeatStop \/ AuthTimeout \/ BeginCleanup \/ Cleanup
    \/ \E n \in Notices : NotifyQueue(n) \/ NotifyCancel(n)

TaskNext ==
    \/ SendLoop \/ WriteDone \/ WriteFails
    \/ RecvTask \/ Peer \/ Others
    \/ \E h \in Handlers : TrySend(h) \/ Counter(h)
    \/ (phase = "gone" /\ UNCHANGED taskVars)

TaskSpec == TaskInit /\ [][TaskNext]_taskVars

\* The relay's own tasks run on, and timers go off.  The peer owes nothing.
TaskFairness ==
    /\ WF_taskVars(SendLoop)
    /\ WF_taskVars(RecvTask) /\ SF_taskVars(RecvEnd /\ cancelled)
    /\ WF_taskVars(HeartbeatTick)
    /\ WF_taskVars(AuthTimeout)
    /\ WF_taskVars(BeginCleanup \/ Cleanup)

\* The peer, or its kernel, may leave a write pending for ever.
StallingSpec == TaskSpec /\ TaskFairness

\* Every write comes to an end: the peer reads, or the transport gives up.
ReadingSpec == StallingSpec /\ WF_taskVars(WriteDone \/ WriteFails)

-----------------------------------------------------------------------------
(* What the tasks must keep true. *)

\* Type correctness: the queues and the batch stay within the capacities that
\* mpsc::channel and MAX_WS_SEND_BATCH give them, missed_pongs at its limit.
TaskTypeOK ==
    /\ cancelled \in BOOLEAN
    /\ data \in 0..SendBuffer
    /\ ctrl \in Seq(Frames) /\ Len(ctrl) <= CtrlCapacity
    /\ pressure \in 0..GraceLimit 
    /\ snd \in [Senders -> {"idle", "sent", "full"}]
    /\ loop \in {"select", "fed", "final", "done"} \cup Writing
    /\ hand \in Frames \cup {"none"}
    /\ batched \in 0..MaxBatch
    /\ unsaid \subseteq Notices \cup {"denied"}
    /\ wire \in {"open", "closing", "closed", "broken"}
    /\ recv \in {"on", "auth", "deny", "off"}
    /\ auth \in {"pending", "authenticated", "failed"}
    /\ timer \in {"armed", "off"} /\ beat \in {"on", "off"} /\ missed \in 0..PongLimit
    /\ notify \in [Notices -> {"idle", "cancel", "done"}]
    /\ phase \in {"running", "waiting", "gone"}

\* "Queue frame on ctrl, then cancel" is a safe idiom (the final drain of
\* send_loop): a notice queued before the token fired is written before the
\* close frame, whichever task fired it, unless the transport failed or a
\* restart close frame was written first.
NoticeBeforeClose ==
    wire = "closed" => unsaid = {}

\* A connection whose token has fired is cleaned up, however much data is
\* queued and goes on being queued: the biased select of send_loop.
CancelledIsCleaned == cancelled ~> phase = "gone"

\* A peer that stops answering pings is cleaned up: heartbeat_loop counts the
\* missing pongs, whatever the other tasks queue meanwhile.
SilentIsCleaned == []<><<RecvPong>>_taskVars \/ <>(phase = "gone")

\* A connection slot is not held by a peer that never authenticates, one that
\* tried and failed included: the authentication timeout task.
SlotIsFreed == <>(auth = "authenticated" \/ phase = "gone")

=============================================================================
