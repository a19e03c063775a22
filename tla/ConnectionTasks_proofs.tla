----------------------- MODULE ConnectionTasks_proofs -----------------------
(***************************************************************************)
(* The tasks of one connection, for any number of senders and notices and  *)
(* any capacities.                                                         *)
(*                                                                         *)
(* NoticeBeforeClose is not inductive: it says nothing of a notice before  *)
(* the close frame is on the wire.  While the socket is open, every notice *)
(* that is still to be written is in send_loop's hand or in the control    *)
(* queue, the final drain is entered only after the token has fired, and   *)
(* from then on no notice is added; so an empty queue at the end of the    *)
(* drain means that all of them are out.                                   *)
(***************************************************************************)
EXTENDS ConnectionTasks, TLAPS

Queued(n) == \E i \in 1..Len(ctrl) : ctrl[i] = n

\* send_loop holds a control frame only while it writes one.
HandOnlyWriting == hand # "none" => loop \in {"ctrl", "finalctrl"}

\* The final drain begins when the token has fired.
FinalIsCancelled == loop \in {"final", "finalctrl", "close"} => cancelled

\* While the socket is open no notice that was accepted is lost.
UnsaidIsHeld == wire = "open" => loop # "done" /\ \A n \in unsaid : n = hand \/ Queued(n)

\* The close frame is the last thing written.
CloseIsLast == loop = "close" /\ wire = "open" => unsaid = {}
ClosedIsDone == wire = "closed" => loop = "done" /\ unsaid = {}

\* The heartbeat stops at the tick that reaches the limit.
BeatBelowLimit == beat = "on" => missed < PongLimit

TaskInv ==
    /\ TaskTypeOK /\ BeatBelowLimit
    /\ HandOnlyWriting /\ FinalIsCancelled /\ UnsaidIsHeld /\ CloseIsLast /\ ClosedIsDone

\* The parts of the invariant that read the socket and the control queue.
NoticeInv == HandOnlyWriting /\ FinalIsCancelled /\ UnsaidIsHeld /\ CloseIsLast /\ ClosedIsDone

\* A queue whose receiver is gone is empty, and within its capacity.
LEMMA EmptyQueue == <<>> \in Seq(Frames) /\ Len(<<>>) = 0
OBVIOUS

\* A connection that has just been accepted has nothing to say but the challenge.
LEMMA TaskInitInv == TaskInit => TaskInv
<1> SUFFICES ASSUME TaskInit PROVE TaskInv
    OBVIOUS
<1> USE ConnectionAssumption
<1>1. TaskTypeOK
  <2>1. ctrl \in Seq(Frames) /\ Len(ctrl) <= CtrlCapacity
      BY EmptyQueue DEF TaskInit
  <2>2. /\ data \in 0..SendBuffer /\ pressure \in 0..GraceLimit
        /\ batched \in 0..MaxBatch /\ missed \in 0..PongLimit
      BY DEF TaskInit
  <2>3. /\ snd \in [Senders -> {"idle", "sent", "full"}]
        /\ notify \in [Notices -> {"idle", "cancel", "done"}]
      BY DEF TaskInit
  <2>4. cancelled \in BOOLEAN /\ unsaid \subseteq Notices \cup {"denied"}
      BY DEF TaskInit
  <2>5. /\ loop = "select" /\ hand = "none" /\ wire = "open" /\ recv = "on" /\ auth = "pending"
        /\ timer = "armed" /\ beat = "on" /\ phase = "running"
      BY DEF TaskInit
  <2> QED
      BY <2>1, <2>2, <2>3, <2>4, <2>5 DEF TaskTypeOK
<1>2. /\ BeatBelowLimit /\ HandOnlyWriting /\ FinalIsCancelled
      /\ UnsaidIsHeld /\ CloseIsLast /\ ClosedIsDone
    BY DEF TaskInit, BeatBelowLimit, HandOnlyWriting, FinalIsCancelled, UnsaidIsHeld,
        CloseIsLast, ClosedIsDone
<1> QED
    BY <1>1, <1>2 DEF TaskInv
-----------------------------------------------------------------------------
(* The two queues. *)

\* A frame that is accepted goes behind the others, and none is displaced.
LEMMA AppendQueued ==
    ASSUME NEW f, ctrl \in Seq(Frames), f \in Frames, ctrl' = Append(ctrl, f)
    PROVE  /\ ctrl' \in Seq(Frames) /\ Len(ctrl') = Len(ctrl) + 1
           /\ Queued(f)'
           /\ \A n : Queued(n) => Queued(n)'
<1>1. /\ ctrl' \in Seq(Frames) /\ Len(ctrl') = Len(ctrl) + 1 /\ Len(ctrl) \in Nat
      /\ ctrl'[Len(ctrl) + 1] = f
      /\ \A i \in 1..Len(ctrl) : ctrl'[i] = ctrl[i]
    OBVIOUS
<1>2. Queued(f)'
    BY <1>1 DEF Queued
<1>3. ASSUME NEW n, Queued(n)
      PROVE  Queued(n)'
  <2>1. PICK i \in 1..Len(ctrl) : ctrl[i] = n
      BY <1>3 DEF Queued
  <2>2. i \in 1..Len(ctrl') /\ ctrl'[i] = n
      BY <1>1, <2>1
  <2> QED
      BY <2>2 DEF Queued
<1> QED
    BY <1>1, <1>2, <1>3

\* What is taken from the queue is its head, and the rest stays.
LEMMA TakeQueued ==
    ASSUME ctrl \in Seq(Frames), ctrl # <<>>, ctrl' = Tail(ctrl)
    PROVE  /\ ctrl' \in Seq(Frames) /\ Len(ctrl') = Len(ctrl) - 1
           /\ Head(ctrl) \in Frames
           /\ \A n : Queued(n) => n = Head(ctrl) \/ Queued(n)'
<1>1. /\ ctrl' \in Seq(Frames) /\ Len(ctrl') = Len(ctrl) - 1
      /\ Len(ctrl) \in Nat \ {0} /\ Head(ctrl) = ctrl[1] /\ Head(ctrl) \in Frames
      /\ \A i \in 1..(Len(ctrl) - 1) : ctrl'[i] = ctrl[i + 1]
    OBVIOUS
<1>2. ASSUME NEW n, Queued(n), n # Head(ctrl)
      PROVE  Queued(n)'
  <2>1. PICK i \in 1..Len(ctrl) : ctrl[i] = n
      BY <1>2 DEF Queued
  <2>2. i # 1
      BY <1>1, <1>2, <2>1
  <2>3. /\ i - 1 \in 1..(Len(ctrl) - 1) /\ (i - 1) + 1 = i
      BY <1>1, <2>1, <2>2
  <2>4. i - 1 \in 1..Len(ctrl') /\ ctrl'[i - 1] = n
      BY <1>1, <2>1, <2>3
  <2> QED
      BY <2>4 DEF Queued
<1> QED
    BY <1>1, <1>2

\* A try_send on the control queue keeps the capacity and what has been
\* accepted, and adds a notice only where it is also queued.
LEMMA TrySendCtrlEffect ==
    ASSUME NEW f \in Frames, TaskTypeOK, TrySendCtrl(f)
    PROVE  /\ ctrl' \in Seq(Frames) /\ Len(ctrl') <= CtrlCapacity
           /\ unsaid' \subseteq Notices \cup {"denied"}
           /\ \A n : Queued(n) => Queued(n)'
           /\ \A n \in unsaid' : n \in unsaid \/ Queued(n)'
           /\ loop = "done" \/ cancelled => unsaid' = unsaid
<1> USE ConnectionAssumption
<1>1. CASE CtrlRoom
  <2>1. ctrl' = Append(ctrl, f) /\ Len(ctrl) < CtrlCapacity /\ ctrl \in Seq(Frames)
      BY <1>1 DEF TrySendCtrl, CtrlRoom, TaskTypeOK
  <2>2. /\ ctrl' \in Seq(Frames) /\ Len(ctrl') = Len(ctrl) + 1
        /\ Queued(f)' /\ \A n : Queued(n) => Queued(n)'
      BY <2>1, AppendQueued
  <2>3. Len(ctrl') <= CtrlCapacity
      BY <2>1, <2>2
  <2>4. loop # "done"
      BY <1>1 DEF CtrlRoom
  <2>5. unsaid' = IF ~cancelled /\ f # "keepalive" THEN unsaid \cup {f} ELSE unsaid
      BY <1>1 DEF TrySendCtrl
  <2>6. unsaid \subseteq Notices \cup {"denied"}
      BY DEF TaskTypeOK
  <2> QED
      BY <2>2, <2>3, <2>4, <2>5, <2>6 DEF Frames
<1>2. CASE ~CtrlRoom
  <2>1. ctrl' = ctrl /\ unsaid' = unsaid
      BY <1>2 DEF TrySendCtrl
  <2> QED
      BY <2>1 DEF TaskTypeOK, Queued
<1> QED
    BY <1>1, <1>2

\* The data queue never holds more than its capacity.
LEMMA EnqueueType ==
    ASSUME NEW h \in Senders, TaskTypeOK, Enqueue(h)
    PROVE  data' \in 0..SendBuffer /\ snd' \in [Senders -> {"idle", "sent", "full"}]
BY ConnectionAssumption DEF Enqueue, TaskTypeOK
-----------------------------------------------------------------------------
(* Every step keeps the invariant. *)

\* A step of another task that leaves send_loop, the control queue and the
\* notices alone, and does not take the token back, disturbs no notice.
LEMMA NoticeFrame ==
    ASSUME NoticeInv, UNCHANGED <<outVars, ctrl, unsaid>>, cancelled => cancelled'
    PROVE  NoticeInv'
BY DEF NoticeInv, HandOnlyWriting, FinalIsCancelled, UnsaidIsHeld, CloseIsLast, ClosedIsDone,
    Queued, outVars

\* Nor does one that offers a frame to the control queue.
LEMMA NoticeOffer ==
    ASSUME NEW f \in Frames, TaskTypeOK, NoticeInv, TrySendCtrl(f), UNCHANGED outVars,
           cancelled => cancelled'
    PROVE  NoticeInv'
<1>1. /\ \A n : Queued(n) => Queued(n)'
      /\ \A n \in unsaid' : n \in unsaid \/ Queued(n)'
      /\ loop = "done" \/ cancelled => unsaid' = unsaid
    BY TrySendCtrlEffect
<1>2. UNCHANGED <<loop, hand, wire>>
    BY DEF outVars
<1>3. (HandOnlyWriting /\ FinalIsCancelled)'
    BY <1>2 DEF NoticeInv, HandOnlyWriting, FinalIsCancelled
<1>4. UnsaidIsHeld'
    BY <1>1, <1>2 DEF NoticeInv, UnsaidIsHeld
<1>5. CloseIsLast'
    BY <1>1, <1>2 DEF NoticeInv, CloseIsLast, FinalIsCancelled
<1>6. ClosedIsDone'
    BY <1>1, <1>2 DEF NoticeInv, ClosedIsDone
<1> QED
    BY <1>3, <1>4, <1>5, <1>6 DEF NoticeInv

\* The steps of send_loop between two writes.
LEMMA SendLoopInv ==
    ASSUME TaskInv, SendLoop
    PROVE  TaskInv'
<1> USE ConnectionAssumption
<1>t. TaskTypeOK /\ NoticeInv /\ BeatBelowLimit
    BY DEF TaskInv, NoticeInv
<1>1. CASE \E to \in {"ctrl", "finalctrl"} :
              TakeCtrl(to) /\ loop = (IF to = "ctrl" THEN "select" ELSE "final")
  <2>1. PICK to \in {"ctrl", "finalctrl"} :
              TakeCtrl(to) /\ loop = (IF to = "ctrl" THEN "select" ELSE "final")
      BY <1>1
  <2>2. /\ ctrl \in Seq(Frames) /\ ctrl # <<>> /\ ctrl' = Tail(ctrl)
        /\ hand' = Head(ctrl) /\ loop' = to /\ UNCHANGED <<notLoop, data, batched, wire>>
      BY <2>1, <1>t DEF TakeCtrl, TaskTypeOK
  <2>3. /\ ctrl' \in Seq(Frames) /\ Len(ctrl') = Len(ctrl) - 1
        /\ Head(ctrl) \in Frames
        /\ \A n : Queued(n) => n = Head(ctrl) \/ Queued(n)'
      BY <2>2, TakeQueued
  <2>4. TaskTypeOK' /\ BeatBelowLimit'
      BY <2>2, <2>3, <1>t DEF TaskTypeOK, BeatBelowLimit, notLoop, notSocket, liveVars, Writing
  <2>5. hand = "none"
      BY <2>1, <1>t DEF NoticeInv, HandOnlyWriting
  <2>6. "none" \notin unsaid
      BY <1>t DEF TaskTypeOK
  <2>7. UnsaidIsHeld'
      BY <2>1, <2>2, <2>3, <2>5, <2>6, <1>t DEF NoticeInv, UnsaidIsHeld, notLoop
  <2>8. (HandOnlyWriting /\ FinalIsCancelled /\ CloseIsLast)'
      BY <2>1, <2>2, <1>t DEF NoticeInv, HandOnlyWriting, FinalIsCancelled, CloseIsLast, notLoop, notSocket
  <2>9. ClosedIsDone'
      BY <2>1, <2>2, <1>t DEF NoticeInv, ClosedIsDone, notLoop
  <2> QED
      BY <2>4, <2>7, <2>8, <2>9 DEF TaskInv
<1>2. CASE SelectCancel \/ Flush \/ SendClose
  <2>1. /\ UNCHANGED <<notLoop, data, ctrl, hand, batched, wire>>
        /\ \/ loop = "select" /\ cancelled /\ loop' = "final"
           \/ loop = "fed" /\ loop' = "flush"
           \/ loop = "final" /\ ctrl = <<>> /\ loop' = "close"
      BY <1>2 DEF SelectCancel, Flush, SendClose
  <2>2. TaskTypeOK' /\ BeatBelowLimit'
      BY <2>1, <1>t DEF TaskTypeOK, BeatBelowLimit, notLoop, notSocket, liveVars, Writing
  <2>3. hand = "none" /\ "none" \notin unsaid
      BY <2>1, <1>t DEF NoticeInv, HandOnlyWriting, TaskTypeOK
  <2>4. (HandOnlyWriting /\ FinalIsCancelled /\ ClosedIsDone)'
      BY <2>1, <2>3, <1>t DEF NoticeInv, HandOnlyWriting, FinalIsCancelled, ClosedIsDone, notLoop, notSocket
  <2>5. UnsaidIsHeld'
      BY <2>1, <1>t DEF NoticeInv, UnsaidIsHeld, Queued, notLoop
  <2>6. CloseIsLast'
    <3>1. CASE loop = "final" /\ ctrl = <<>> /\ wire = "open"
      <4>1. \A n : ~Queued(n)
          BY <3>1 DEF Queued
      <4>2. unsaid = {}
          BY <3>1, <4>1, <2>3, <1>t DEF NoticeInv, UnsaidIsHeld
      <4> QED
          BY <4>2, <2>1 DEF CloseIsLast, notLoop
    <3> QED
        BY <3>1, <2>1 DEF CloseIsLast, notLoop
  <2> QED
      BY <2>2, <2>4, <2>5, <2>6 DEF TaskInv
<1>3. CASE SelectData \/ FeedNext
  <2>1. /\ loop \in {"select", "fed"} /\ loop' = "feed"
        /\ data > 0 /\ data' = data - 1
        /\ batched' = 1 \/ (batched < MaxBatch /\ batched' = batched + 1)
        /\ UNCHANGED <<notLoop, ctrl, hand, wire>>
      BY <1>3 DEF SelectData, FeedNext, Feed
  <2>2. TaskTypeOK' /\ BeatBelowLimit'
      BY <2>1, <1>t DEF TaskTypeOK, BeatBelowLimit, notLoop, notSocket, liveVars, Writing
  <2>3. NoticeInv'
      BY <2>1, <1>t DEF NoticeInv, HandOnlyWriting, FinalIsCancelled, UnsaidIsHeld, CloseIsLast,
          ClosedIsDone, Queued, notLoop, notSocket
  <2> QED
      BY <2>2, <2>3 DEF TaskInv, NoticeInv
<1> QED
    BY <1>1, <1>2, <1>3 DEF SendLoop, SelectCtrl, DrainFinal

\* A write that ends: the notice in hand is said, and the close frame finds none.
LEMMA WriteDoneInv ==
    ASSUME TaskInv, WriteDone
    PROVE  TaskInv'
<1> USE ConnectionAssumption
<1>t. TaskTypeOK /\ NoticeInv /\ BeatBelowLimit
    BY DEF TaskInv, NoticeInv
<1>1. /\ loop \in Writing /\ wire = "open"
      /\ unsaid' = unsaid \ {hand} /\ hand' = "none"
      /\ batched' = IF loop = "flush" THEN 0 ELSE batched
      /\ UNCHANGED notSocket
      /\ loop' = "done" => data' = 0 /\ ctrl' = <<>>
      /\ loop' # "done" => UNCHANGED <<data, ctrl>>
    BY DEF WriteDone, DropQueues
<1>2. /\ loop = "close" => loop' = "done" /\ wire' = "closed"
      /\ loop # "close" => loop' \in {"select", "fed", "final"} /\ wire' \in {"open", "closing"}
      /\ loop' = "final" => loop = "finalctrl"
  <2>1. /\ loop = "ctrl" => loop' = "select"
        /\ loop = "feed" => loop' = "fed"
        /\ loop = "flush" => loop' = "select"
        /\ loop = "finalctrl" => loop' = "final"
        /\ loop = "close" => loop' = "done"
      BY DEF WriteDone
  <2>2. wire' = IF loop = "close" THEN "closed" ELSE IF hand = Restart THEN "closing" ELSE "open"
      BY DEF WriteDone
  <2> QED
      BY <1>1, <2>1, <2>2 DEF Writing
<1>c. data' \in 0..SendBuffer /\ ctrl' \in Seq(Frames) /\ Len(ctrl') <= CtrlCapacity
  <2>1. CASE loop' = "done"
    <3>1. data' = 0 /\ ctrl' = <<>>
        BY <2>1, <1>1
    <3> QED
        BY <3>1, EmptyQueue
  <2>2. CASE loop' # "done"
    <3>1. data' = data /\ ctrl' = ctrl
        BY <2>2, <1>1
    <3> QED
        BY <3>1, <1>t DEF TaskTypeOK
  <2> QED
      BY <2>1, <2>2
<1>d. /\ batched' \in 0..MaxBatch /\ unsaid' \subseteq Notices \cup {"denied"}
      /\ loop' \in {"select", "fed", "final", "done"} /\ wire' \in {"open", "closing", "closed"}
      /\ hand' = "none"
    BY <1>1, <1>2, <1>t DEF TaskTypeOK, Writing
<1>e. UNCHANGED <<cancelled, pressure, snd, recv, auth, timer, beat, missed, notify, phase>>
    BY <1>1 DEF notSocket, liveVars
<1>3. TaskTypeOK' /\ BeatBelowLimit'
    BY <1>c, <1>d, <1>e, <1>t DEF TaskTypeOK, BeatBelowLimit
<1>4. (HandOnlyWriting /\ FinalIsCancelled /\ CloseIsLast)'
    BY <1>1, <1>2, <1>t DEF NoticeInv, HandOnlyWriting, FinalIsCancelled, CloseIsLast, notSocket
<1>5. UnsaidIsHeld'
    BY <1>1, <1>2, <1>t DEF NoticeInv, UnsaidIsHeld, Queued
<1>6. ClosedIsDone'
    BY <1>1, <1>2, <1>t DEF NoticeInv, ClosedIsDone, CloseIsLast
<1> QED
    BY <1>3, <1>4, <1>5, <1>6 DEF TaskInv

\* A write that fails: nothing more is promised, and the loop is on its way out.
LEMMA WriteFailsInv ==
    ASSUME TaskInv, WriteFails
    PROVE  TaskInv'
<1> USE ConnectionAssumption
<1>t. TaskTypeOK /\ NoticeInv /\ BeatBelowLimit
    BY DEF TaskInv, NoticeInv
<1>1. /\ loop' = IF loop = "finalctrl" THEN "close" ELSE "done"
      /\ hand' = "none" /\ wire' = "broken" /\ batched' = 0
      /\ loop' = "done" => data' = 0 /\ ctrl' = <<>>
      /\ loop' # "done" => UNCHANGED <<data, ctrl>>
      /\ UNCHANGED notLoop
    BY DEF WriteFails, DropQueues
<1>c. data' \in 0..SendBuffer /\ ctrl' \in Seq(Frames) /\ Len(ctrl') <= CtrlCapacity
  <2>1. CASE loop' = "done"
    <3>1. data' = 0 /\ ctrl' = <<>>
        BY <2>1, <1>1
    <3> QED
        BY <3>1, EmptyQueue
  <2>2. CASE loop' # "done"
    <3>1. data' = data /\ ctrl' = ctrl
        BY <2>2, <1>1
    <3> QED
        BY <3>1, <1>t DEF TaskTypeOK
  <2> QED
      BY <2>1, <2>2
<1>d. /\ batched' \in 0..MaxBatch /\ loop' \in {"done"} \cup Writing
      /\ hand' = "none" /\ wire' = "broken"
    BY <1>1 DEF Writing
<1>e. UNCHANGED <<cancelled, pressure, snd, recv, auth, timer, beat, missed, notify, phase, unsaid>>
    BY <1>1 DEF notLoop, notSocket, liveVars
<1>2. TaskTypeOK' /\ BeatBelowLimit'
    BY <1>c, <1>d, <1>e, <1>t DEF TaskTypeOK, BeatBelowLimit
<1>3. NoticeInv'
    BY <1>1, <1>t DEF NoticeInv, HandOnlyWriting, FinalIsCancelled, UnsaidIsHeld, CloseIsLast,
        ClosedIsDone, notLoop, notSocket
<1> QED
    BY <1>2, <1>3 DEF TaskInv, NoticeInv
-----------------------------------------------------------------------------
(* The other tasks of the connection. *)

\* What handlers and the receive loop do to the data queue and to the counter.
LEMMA SenderInv ==
    ASSUME TaskInv, NEW h \in Senders, TrySend(h) \/ Counter(h)
    PROVE  TaskInv'
<1> USE ConnectionAssumption
<1>t. TaskTypeOK /\ NoticeInv /\ BeatBelowLimit
    BY DEF TaskInv, NoticeInv
<1>1. UNCHANGED <<ctrl, outVars, unsaid, recv, auth, liveVars, notify, phase>>
    BY DEF TrySend, Counter, ResetPressure, CountPressure
<1>2. /\ data' \in 0..SendBuffer /\ pressure' \in 0..GraceLimit
      /\ snd' \in [Senders -> {"idle", "sent", "full"}]
      /\ cancelled' \in BOOLEAN /\ (cancelled => cancelled')
  <2>1. CASE TrySend(h)
      BY <2>1, <1>t, EnqueueType DEF TrySend, TaskTypeOK
  <2>2. CASE ResetPressure(h)
      BY <2>2, <1>t DEF ResetPressure, TaskTypeOK
  <2>3. CASE CountPressure(h)
    <3>1. cancelled' \in BOOLEAN /\ (cancelled => cancelled')
        BY <2>3 DEF CountPressure
    <3>2. data' \in 0..SendBuffer /\ snd' \in [Senders -> {"idle", "sent", "full"}]
        BY <2>3, <1>t DEF CountPressure, TaskTypeOK
    <3>3. pressure' \in 0..GraceLimit
        BY <2>3, <1>t DEF CountPressure, TaskTypeOK
    <3> QED
        BY <3>1, <3>2, <3>3
  <2> QED
      BY <2>1, <2>2, <2>3 DEF Counter
<1>3. NoticeInv'
    BY <1>1, <1>2, <1>t, NoticeFrame
<1>4. TaskTypeOK' /\ BeatBelowLimit'
    BY <1>1, <1>2, <1>t DEF TaskTypeOK, BeatBelowLimit, outVars, liveVars
<1> QED
    BY <1>3, <1>4 DEF TaskInv, NoticeInv

\* recv_loop and handle_auth.
LEMMA RecvInv ==
    ASSUME TaskInv,
           \/ \E to \in {"authenticated", "failed"} : AuthDone(to)
           \/ AuthDenied \/ DenyCancel \/ Peer
    PROVE  TaskInv'
<1> USE ConnectionAssumption
<1>t. TaskTypeOK /\ NoticeInv /\ BeatBelowLimit
    BY DEF TaskInv, NoticeInv
<1>1. CASE RecvPing \/ AuthDenied
  <2>1. PICK f \in {"keepalive", "denied"} : TrySendCtrl(f)
      BY <1>1 DEF RecvPing, AuthDenied
  <2>2. /\ UNCHANGED <<notRecv, cancelled, data, snd, missed>>
        /\ recv' \in {"on", "off", "deny"} /\ auth' \in {auth, "failed"}
      BY <1>1 DEF RecvPing, AuthDenied
  <2>3. f \in Frames
      BY DEF Frames
  <2>4. /\ ctrl' \in Seq(Frames) /\ Len(ctrl') <= CtrlCapacity
        /\ unsaid' \subseteq Notices \cup {"denied"}
      BY <2>1, <2>3, <1>t, TrySendCtrlEffect
  <2>5. NoticeInv'
      BY <2>1, <2>2, <2>3, <1>t, NoticeOffer DEF notRecv
  <2>6. TaskTypeOK' /\ BeatBelowLimit'
      BY <2>2, <2>4, <1>t DEF TaskTypeOK, BeatBelowLimit, notRecv, outVars
  <2> QED
      BY <2>5, <2>6 DEF TaskInv, NoticeInv
<1>2. CASE ~(RecvPing \/ AuthDenied)
  <2>1. /\ UNCHANGED <<notRecv, ctrl, unsaid>>
        /\ missed' \in {missed, 0} /\ recv' \in {"on", "off", "auth"}
        /\ auth' \in {auth, "authenticated", "failed"}
        /\ cancelled' = cancelled \/ cancelled' = TRUE
        /\ Enqueue("recv") \/ UNCHANGED <<data, snd>>
    <3>1. CASE \E to \in {"authenticated", "failed"} : AuthDone(to)
        BY <3>1 DEF AuthDone
    <3>2. CASE DenyCancel
        BY <3>2 DEF DenyCancel
    <3>3. CASE RecvPong
        BY <3>3 DEF RecvPong, InLoop
    <3>4. CASE RecvEnd \/ RecvAuth
        BY <3>4 DEF RecvEnd, RecvAuth
    <3>5. CASE \E to \in {"on", "off"} : RecvFrame(to)
        BY <3>5 DEF RecvFrame
    <3> QED
        BY <1>2, <3>1, <3>2, <3>3, <3>4, <3>5 DEF Peer
  <2>2. cancelled' \in BOOLEAN /\ (cancelled => cancelled')
      BY <2>1, <1>t DEF TaskTypeOK
  <2>3. "recv" \in Senders
      BY DEF Senders
  <2>4. data' \in 0..SendBuffer /\ snd' \in [Senders -> {"idle", "sent", "full"}]
    <3>1. CASE Enqueue("recv")
        BY <3>1, <2>3, <1>t, EnqueueType
    <3>2. CASE UNCHANGED <<data, snd>>
        BY <3>2, <1>t DEF TaskTypeOK
    <3> QED
        BY <3>1, <3>2, <2>1
  <2>5. NoticeInv'
      BY <2>1, <2>2, <1>t, NoticeFrame DEF notRecv
  <2>6. UNCHANGED <<pressure, loop, hand, batched, wire, timer, beat, notify, phase, ctrl, unsaid>>
      BY <2>1 DEF notRecv, outVars
  <2>7. missed' \in 0..PongLimit /\ BeatBelowLimit'
      BY <2>1, <2>6, <1>t DEF TaskTypeOK, BeatBelowLimit
  <2>8. recv' \in {"on", "auth", "deny", "off"} /\ auth' \in {"pending", "authenticated", "failed"}
      BY <2>1, <1>t DEF TaskTypeOK
  <2>9. TaskTypeOK'
      BY <2>2, <2>4, <2>6, <2>7, <2>8, <1>t DEF TaskTypeOK
  <2> QED
      BY <2>5, <2>7, <2>9 DEF TaskInv, NoticeInv
<1> QED
    BY <1>1, <1>2

\* Heartbeat, authentication timeout, notifying tasks and cleanup.
LEMMA OthersInv ==
    ASSUME TaskInv, Others
    PROVE  TaskInv'
<1> USE ConnectionAssumption
<1>t. TaskTypeOK /\ NoticeInv /\ BeatBelowLimit
    BY DEF TaskInv, NoticeInv
<1>1. CASE HeartbeatTick
  <2>1. /\ beat = "on" /\ missed' = missed + 1
        /\ UNCHANGED <<sendVars, outVars, recv, auth, timer, notify, phase>>
      BY <1>1 DEF HeartbeatTick
  <2>2. missed \in 0..PongLimit /\ missed < PongLimit
      BY <2>1, <1>t DEF TaskTypeOK, BeatBelowLimit
  <2>3. CASE missed + 1 >= PongLimit
    <3>1. cancelled' = TRUE /\ beat' = "off" /\ UNCHANGED <<ctrl, unsaid>>
        BY <1>1, <2>3 DEF HeartbeatTick
    <3>2. NoticeInv'
        BY <3>1, <2>1, <1>t, NoticeFrame
    <3>3. TaskTypeOK' /\ BeatBelowLimit'
        BY <3>1, <2>1, <2>2, <1>t DEF TaskTypeOK, BeatBelowLimit, sendVars, outVars
    <3> QED
        BY <3>2, <3>3 DEF TaskInv, NoticeInv
  <2>4. CASE ~(missed + 1 >= PongLimit)
    <3>1. TrySendCtrl("keepalive") /\ beat' \in {"on", "off"}
        BY <1>1, <2>4 DEF HeartbeatTick
    <3>2. cancelled' \in BOOLEAN /\ (cancelled => cancelled')
        BY <1>1, <2>4 DEF HeartbeatTick
    <3>3. "keepalive" \in Frames
        BY DEF Frames
    <3>4. /\ ctrl' \in Seq(Frames) /\ Len(ctrl') <= CtrlCapacity
          /\ unsaid' \subseteq Notices \cup {"denied"}
        BY <3>1, <3>3, <1>t, TrySendCtrlEffect
    <3>5. NoticeInv'
        BY <3>1, <3>2, <3>3, <2>1, <1>t, NoticeOffer
    <3>6. missed' \in 0..PongLimit /\ BeatBelowLimit'
        BY <2>1, <2>2, <2>4 DEF BeatBelowLimit
    <3>7. TaskTypeOK'
        BY <3>1, <3>2, <3>4, <3>6, <2>1, <1>t DEF TaskTypeOK, sendVars, outVars
    <3> QED
        BY <3>5, <3>6, <3>7 DEF TaskInv, NoticeInv
  <2> QED
      BY <2>3, <2>4
<1>2. ASSUME NEW n \in Notices, NotifyQueue(n)
      PROVE  TaskInv'
  <2>1. /\ TrySendCtrl(n) /\ notify' = [notify EXCEPT ![n] = "cancel"]
        /\ UNCHANGED <<cancelled, sendVars, outVars, recv, auth, liveVars, phase>>
      BY <1>2 DEF NotifyQueue
  <2>2. n \in Frames
      BY DEF Frames
  <2>3. /\ ctrl' \in Seq(Frames) /\ Len(ctrl') <= CtrlCapacity
        /\ unsaid' \subseteq Notices \cup {"denied"}
      BY <2>1, <2>2, <1>t, TrySendCtrlEffect
  <2>4. NoticeInv'
      BY <2>1, <2>2, <1>t, NoticeOffer
  <2>5. notify' \in [Notices -> {"idle", "cancel", "done"}]
      BY <2>1, <1>t DEF TaskTypeOK
  <2>6. TaskTypeOK' /\ BeatBelowLimit'
      BY <2>1, <2>3, <2>5, <1>t DEF TaskTypeOK, BeatBelowLimit, sendVars, outVars, liveVars
  <2> QED
      BY <2>4, <2>6 DEF TaskInv, NoticeInv
<1>3. CASE HeartbeatStop \/ AuthTimeout \/ BeginCleanup \/ Cleanup \/ \E n \in Notices : NotifyCancel(n)
  <2>1. UNCHANGED <<sendVars, ctrl, outVars, unsaid, recv, auth, missed>>
      BY <1>3 DEF HeartbeatStop, AuthTimeout, BeginCleanup, Cleanup, NotifyCancel, liveVars
  <2>2. cancelled' \in BOOLEAN /\ (cancelled => cancelled')
      BY <1>3, <1>t DEF HeartbeatStop, AuthTimeout, BeginCleanup, Cleanup, NotifyCancel, TaskTypeOK
  <2>3. /\ timer' \in {timer, "off"} /\ beat' \in {beat, "off"}
        /\ phase' \in {phase, "waiting", "gone"}
      BY <1>3 DEF HeartbeatStop, AuthTimeout, BeginCleanup, Cleanup, NotifyCancel, liveVars
  <2>4. notify' \in [Notices -> {"idle", "cancel", "done"}]
      BY <1>3, <1>t DEF HeartbeatStop, AuthTimeout, BeginCleanup, Cleanup, NotifyCancel, TaskTypeOK
  <2>5. NoticeInv'
      BY <2>1, <2>2, <1>t, NoticeFrame
  <2>6. TaskTypeOK' /\ BeatBelowLimit'
      BY <2>1, <2>2, <2>3, <2>4, <1>t DEF TaskTypeOK, BeatBelowLimit, sendVars, outVars
  <2> QED
      BY <2>5, <2>6 DEF TaskInv, NoticeInv
<1> QED
    BY <1>1, <1>2, <1>3 DEF Others

\* Every step of every task keeps the invariant.
LEMMA TaskStepInv == TaskInv /\ [TaskNext]_taskVars => TaskInv'
<1> SUFFICES ASSUME TaskInv, [TaskNext]_taskVars PROVE TaskInv'
    OBVIOUS
<1>1. CASE SendLoop \/ WriteDone \/ WriteFails
    BY <1>1, SendLoopInv, WriteDoneInv, WriteFailsInv
<1>2. CASE RecvTask \/ Peer
  <2>1. "recv" \in Senders
      BY DEF Senders
  <2> QED
      BY <1>2, <2>1, RecvInv, SenderInv DEF RecvTask
<1>3. CASE Others
    BY <1>3, OthersInv
<1>4. CASE \E h \in Handlers : TrySend(h) \/ Counter(h)
    BY <1>4, SenderInv DEF Senders
<1>5. CASE UNCHANGED taskVars
  <2>1. UNCHANGED <<cancelled, data, pressure, snd, ctrl, loop, hand, batched, wire, unsaid, recv,
                    auth, timer, beat, missed, notify, phase>>
      BY <1>5 DEF taskVars, sendVars, outVars, liveVars
  <2>2. TaskTypeOK' /\ BeatBelowLimit'
      BY <2>1 DEF TaskInv, TaskTypeOK, BeatBelowLimit
  <2>3. NoticeInv'
      BY <2>1, NoticeFrame DEF TaskInv, NoticeInv, outVars
  <2> QED
      BY <2>2, <2>3 DEF TaskInv, NoticeInv
<1> QED
    BY <1>1, <1>2, <1>3, <1>4, <1>5 DEF TaskNext

\* The inductive invariant holds in every behaviour of the connection's tasks.
THEOREM TaskInvHolds == TaskSpec => []TaskInv
<1>1. TaskInit => TaskInv
    BY TaskInitInv
<1>2. TaskInv /\ [TaskNext]_taskVars => TaskInv'
    BY TaskStepInv
<1> QED
    BY <1>1, <1>2, PTL DEF TaskSpec

\* Type correctness: with any number of senders, the two queues, the batch of
\* send_loop and the heartbeat's counter stay within their limits.
THEOREM TaskTypeCorrect == TaskSpec => []TaskTypeOK
<1>1. TaskInv => TaskTypeOK
    BY DEF TaskInv
<1> QED
    BY <1>1, TaskInvHolds, PTL

\* Queue a notice, then cancel: whichever tasks do it and whatever the control
\* queue holds, the close frame of send_loop never overtakes a notice that was
\* accepted before the token fired.
THEOREM NoticesPrecedeClose == TaskSpec => []NoticeBeforeClose
<1>1. TaskInv => NoticeBeforeClose
    BY DEF TaskInv, ClosedIsDone, NoticeBeforeClose
<1> QED
    BY <1>1, TaskInvHolds, PTL
=============================================================================
