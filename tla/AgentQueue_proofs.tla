-------------------------- MODULE AgentQueue_proofs --------------------------
(***************************************************************************)
(* Proofs about the agent queue, for any number of channels, agents and    *)
(* events: the type invariant, that a channel has at most one turn, that   *)
(* an event is in one place at a time and is settled once, that a withheld *)
(* event is carried by a steer request or its answer, and which events a   *)
(* step can lose: only those kept for a merge, and none where turns are    *)
(* not interrupted.                                                        *)
(***************************************************************************)
EXTENDS AgentQueue, SequenceTheorems, TLAPS

\* What the sequence helpers return stays within the events.
LEMMA SeqTypes ==
    ASSUME NEW s \in Seq(Events), NEW t \in Seq(Events)
    PROVE  /\ s \o t \in Seq(Events)
           /\ Elems(s) \subseteq Events
           /\ \A e \in Events : Append(s, e) \in Seq(Events)
           /\ s # <<>> => Tail(s) \in Seq(Events) /\ Head(s) \in Events
  BY DEF Elems

\* A part of a sequence of events is one.
LEMMA SubSeqType ==
    ASSUME NEW s \in Seq(Events), NEW m \in 1..Len(s) + 1, NEW n \in 0..Len(s)
    PROVE  SubSeq(s, m, n) \in Seq(Events)
  OBVIOUS

\* What is left from a position on consists of events.
LEMMA SubSeqElems ==
    ASSUME NEW s \in Seq(Events), NEW m \in Nat \ {0}
    PROVE  Elems(SubSeq(s, m, Len(s))) \subseteq Events
<1>1. CASE m \in 1..Len(s) + 1
  BY <1>1, SeqTypes, SubSeqType, Len(s) \in 0..Len(s)
<1>2. CASE m > Len(s) + 1
  BY <1>2 DEF Elems
<1> QED BY <1>1, <1>2

\* A queue cut to its cap, and what the cut drops.
LEMMA TrimType ==
    ASSUME NEW s \in Seq(Events)
    PROVE  Trim(s) \in Seq(Events) /\ Trimmed(s) \subseteq Events
<1>1. Trim(s) \in Seq(Events)
  BY SubSeqType, QueueAssumption DEF Trim, Least
<1>2. Trimmed(s) \subseteq Events
  BY SubSeqElems, QueueAssumption DEF Trimmed
<1> QED BY <1>1, <1>2

\* A sorted batch is a sequence of events.
LEMMA SortedType ==
    ASSUME NEW s \in Seq(Events)
    PROVE  Sorted(s) \subseteq Seq(Events)
  BY SeqTypes DEF Sorted

\* A sequence without one of its events.
LEMMA WithoutType ==
    ASSUME NEW s \in Seq(Events), NEW x
    PROVE  Without(s, x) \in Seq(Events)
<1>1. CASE x \notin Elems(s)
  BY <1>1 DEF Without
<1>2. CASE x \in Elems(s)
  <2> DEFINE i == CHOOSE i \in DOMAIN s : s[i] = x
  <2>1. i \in 1..Len(s)
    BY <1>2 DEF Elems
  <2> HIDE DEF i
  <2>2. /\ SubSeq(s, 1, i - 1) \in Seq(Events)
        /\ SubSeq(s, i + 1, Len(s)) \in Seq(Events)
    BY <2>1, SubSeqType, 1 \in 1..Len(s) + 1, i - 1 \in 0..Len(s), i + 1 \in 1..Len(s) + 1,
       Len(s) \in 0..Len(s)
  <2>3. SubSeq(s, 1, i - 1) \o SubSeq(s, i + 1, Len(s)) \in Seq(Events)
    BY <2>2, SeqTypes
  <2> QED BY <1>2, <2>3 DEF Without, i
<1> QED BY <1>1, <1>2

-----------------------------------------------------------------------------
(* The parts of the type invariant, as the actions disturb them.           *)

StoresOK ==
    /\ queues \in [Channels -> Seq(Events)]
    /\ withheld \in [Channels -> Seq(Events)]
    /\ cancelled \in [Channels -> Seq(Events)]
    /\ settled \subseteq Events

FlightOK ==
    /\ inFlight \subseteq Channels /\ overdue \subseteq inFlight
    /\ retryAfter \in [Channels -> {"none", "active", "expired"}]
    /\ retryCounts \in [Channels -> 0..MAX_RETRIES]
    /\ removed \subseteq Channels /\ lapsed \subseteq Channels
    /\ loop \in {"select", "drain", "dispatch", "exited"}
    /\ next \in 1..MaxEvents + 1 /\ controls \in 0..MaxControls
    /\ dedup \in {"Queue", "Drop"}

AgentsOK ==
    /\ slots \in [Agents -> {"idle", "busy", "respawning", "empty"}]
    /\ tasks \in [Agents -> Tasks]
    /\ \A a \in Agents : /\ slots[a] = "busy" <=> tasks[a].phase # "none"
                         /\ tasks[a].channel = NoChannel =>
                               ~ tasks[a].keep /\ tasks[a].ctl = "open" /\ tasks[a].steers = <<>>
    /\ acks \subseteq Acks

\* The type invariant is its parts, in a state and in the next one.
LEMMA TypeParts == QueueTypeOK <=> StoresOK /\ FlightOK /\ AgentsOK
  BY DEF QueueTypeOK, StoresOK, FlightOK, AgentsOK

\* The same in the next state.
LEMMA TypePartsPrime == QueueTypeOK' <=> StoresOK' /\ FlightOK' /\ AgentsOK'
  BY DEF QueueTypeOK, StoresOK, FlightOK, AgentsOK

\* A new turn, and the absence of one, have the type of a task.
LEMMA TurnType ==
    ASSUME NEW c \in Channels \cup {NoChannel}, NEW s \in Seq(Events), NEW t \in Seq(Events)
    PROVE  Turn(c, s, t) \in Tasks /\ NoTask \in Tasks
<1>1. /\ <<>> \in Seq(Events) /\ FALSE \in BOOLEAN /\ "none" \in Outcomes \cup {"none", "ok"}
      /\ NoChannel \in Channels \cup {NoChannel}
  OBVIOUS
<1>2. Turn(c, s, t) \in Tasks
  BY <1>1 DEF Turn, Task, Tasks
<1>3. NoTask \in Tasks
  BY <1>1 DEF NoTask, Task, Tasks
<1> QED BY <1>2, <1>3

\* What a signal through control_tx leaves alone.
LEMMA SignalType ==
    ASSUME AgentsOK, NEW c \in Channels, NEW sig \in {"Steer", "Interrupt", "Cancel"}, Signal(c, sig)
    PROVE  /\ tasks' \in [Agents -> Tasks]
           /\ \A a \in Agents : /\ tasks'[a].phase = tasks[a].phase
                                /\ tasks'[a].channel = tasks[a].channel
                                /\ tasks'[a].keep = tasks[a].keep
                                /\ tasks'[a].steers = tasks[a].steers
                                /\ tasks[a].channel = NoChannel => tasks'[a].ctl = tasks[a].ctl
<1>1. CASE TasksOf(c) = {}
  BY <1>1 DEF Signal, AgentsOK
<1>2. CASE TasksOf(c) # {}
  <2>1. PICK a \in TasksOf(c) : tasks' = [tasks EXCEPT ![a].ctl = IF @ = "open" THEN sig ELSE @]
    BY <1>2 DEF Signal
  <2>2. a \in Agents /\ tasks[a].channel = c /\ tasks[a] \in Tasks
    BY <2>1 DEF TasksOf, AgentsOK
  <2>3. [tasks[a] EXCEPT !.ctl = IF @ = "open" THEN sig ELSE @] \in Tasks
    BY <2>2 DEF Tasks
  <2>4. c # NoChannel
    BY QueueAssumption
  <2> QED BY <2>1, <2>2, <2>3, <2>4 DEF AgentsOK, Tasks
<1> QED BY <1>1, <1>2

\* mark_complete keeps the types, and the channel is no longer in flight.
LEMMA MarkCompleteType ==
    ASSUME FlightOK, NEW c \in Channels, MarkComplete(c)
    PROVE  /\ inFlight' \subseteq Channels /\ overdue' \subseteq inFlight'
           /\ retryAfter' \in [Channels -> {"none", "active", "expired"}]
           /\ retryCounts' \in [Channels -> 0..MAX_RETRIES]
  BY QueueAssumption DEF FlightOK, MarkComplete

\* OneTurnPerChannel only depends on which agent has a turn of which channel.
LEMMA SameTurns ==
    ASSUME OneTurnPerChannel, AgentsOK, tasks' \in [Agents -> Tasks],
           \A a \in Agents : /\ tasks'[a].phase = "none" <=> tasks[a].phase = "none"
                             /\ tasks'[a].channel = tasks[a].channel,
           inFlight' = inFlight, lapsed' = lapsed
    PROVE  OneTurnPerChannel'
<1>1. \A c \in Channels : TasksOf(c)' = TasksOf(c)
  BY DEF TasksOf
<1> QED BY <1>1 DEF OneTurnPerChannel

\* The initial state.
LEMMA InitType == Init => QueueTypeOK /\ OneTurnPerChannel
<1> SUFFICES ASSUME Init PROVE QueueTypeOK /\ OneTurnPerChannel
  OBVIOUS
<1>1. StoresOK
  BY DEF Init, StoresOK
<1>2. FlightOK
  BY QueueAssumption DEF Init, FlightOK
<1>3. NoTask \in Tasks /\ NoTask.phase = "none" /\ NoTask.channel = NoChannel /\ ~ NoTask.keep
      /\ NoTask.ctl = "open" /\ NoTask.steers = <<>>
  BY TurnType, <<>> \in Seq(Events) DEF NoTask, Task
<1>4. AgentsOK
  BY <1>3 DEF Init, AgentsOK
<1>5. \A c \in Channels : TasksOf(c) = {}
  BY <1>3 DEF Init, TasksOf
<1>6. OneTurnPerChannel
  BY <1>5 DEF Init, OneTurnPerChannel
<1> QED BY <1>1, <1>2, <1>4, <1>6, TypeParts

-----------------------------------------------------------------------------
(* Events from the relay.                                                  *)

\* A queue with room for one more event.
LEMMA RoomType ==
    ASSUME StoresOK, NEW c \in Channels, next \in Events
    PROVE  /\ Room(c) \in Seq(Events) /\ Append(Room(c), next) \in Seq(Events)
           /\ Full(c) => Head(queues[c]) \in Events
<1>1. queues[c] \in Seq(Events)
  BY DEF StoresOK
<1>2. Full(c) => queues[c] # <<>>
  BY <1>1, QueueAssumption DEF Full
<1>3. Room(c) \in Seq(Events)
  BY <1>1, <1>2 DEF Room
<1> QED BY <1>1, <1>2, <1>3

\* What the arrival of an event leaves alone.
LEMMA ArrivalType ==
    ASSUME StoresOK, FlightOK, NEW c \in Channels, Arrival(c)
    PROVE  /\ next \in Events /\ FlightOK' /\ inFlight' = inFlight /\ lapsed' = lapsed
           /\ cancelled' \in [Channels -> Seq(Events)]
           /\ slots' = slots /\ acks' = acks
<1>1. next \in Events /\ next' \in 1..MaxEvents + 1
  BY QueueAssumption DEF Arrival, FlightOK, Events
<1> QED BY <1>1 DEF Arrival, FlightOK, StoresOK, retries, config

\* Events, commands and membership changes keep the invariant.
LEMMA FromRelayType ==
    ASSUME QueueTypeOK, OneTurnPerChannel, FromRelay
    PROVE  QueueTypeOK' /\ OneTurnPerChannel'
<1>0. StoresOK /\ FlightOK /\ AgentsOK
  BY TypeParts
<1>1. PICK c \in Channels :
    \/ PushRefused(c) \/ PushQueued(c)
    \/ \E a \in Agents : PushSteered(c, a)
    \/ \E sig \in ModeGate : PushSignalled(c, sig)
    \/ \E sig \in Controls : Control(c, sig)
    \/ RemoveChannel(c) \/ AddChannel(c)
  BY DEF FromRelay
<1>2. CASE PushRefused(c)
  <2>1. StoresOK' /\ FlightOK'
    BY <1>0, <1>2, ArrivalType DEF PushRefused, StoresOK
  <2>2. AgentsOK' /\ OneTurnPerChannel'
    BY <1>0, <1>2, ArrivalType, SameTurns DEF PushRefused, AgentsOK
  <2> QED BY <2>1, <2>2, TypePartsPrime
<1>3. CASE PushQueued(c)
  <2>0. Arrival(c)
    BY <1>3 DEF PushQueued, Accepted
  <2>1. StoresOK' /\ FlightOK'
    BY <1>0, <1>3, <2>0, ArrivalType, RoomType DEF PushQueued, Accepted, StoresOK
  <2>2. AgentsOK' /\ OneTurnPerChannel'
    BY <1>0, <1>3, <2>0, ArrivalType, SameTurns DEF PushQueued, AgentsOK
  <2> QED BY <2>1, <2>2, TypePartsPrime
<1>4. CASE \E a \in Agents : PushSteered(c, a)
  <2> PICK a \in Agents : PushSteered(c, a)
    BY <1>4
  <2>0. Arrival(c)
    BY DEF PushSteered, Accepted
  <2>1. StoresOK' /\ FlightOK'
    <3>1. /\ next \in Events /\ Room(c) \in Seq(Events) /\ Append(withheld[c], next) \in Seq(Events)
          /\ Full(c) => Head(queues[c]) \in Events
      BY <1>0, <2>0, ArrivalType, RoomType DEF StoresOK
    <3> QED BY <1>0, <2>0, <3>1, ArrivalType DEF PushSteered, Accepted, StoresOK
  <2>2. tasks[a].channel # NoChannel /\ tasks[a] \in Tasks
    BY <1>0, QueueAssumption DEF PushSteered, TasksOf, AgentsOK
  <2>3. Append(tasks[a].steers, next) \in Seq(Events)
    BY <1>0, <2>0, <2>2, ArrivalType DEF Tasks
  <2>4. [tasks[a] EXCEPT !.steers = Append(@, next)] \in Tasks
    BY <2>2, <2>3 DEF Tasks
  <2>5. tasks' \in [Agents -> Tasks]
    BY <1>0, <2>4 DEF PushSteered, AgentsOK
  <2>6. \A b \in Agents : /\ tasks'[b].phase = tasks[b].phase
                          /\ tasks'[b].channel = tasks[b].channel
                          /\ tasks'[b].keep = tasks[b].keep /\ tasks'[b].ctl = tasks[b].ctl
                          /\ b # a => tasks'[b] = tasks[b]
    BY <1>0, <2>2 DEF PushSteered, AgentsOK, Tasks
  <2>7. AgentsOK'
    BY <1>0, <2>0, <2>2, <2>5, <2>6, ArrivalType DEF AgentsOK
  <2>8. OneTurnPerChannel'
    BY <1>0, <2>0, <2>5, <2>6, ArrivalType, SameTurns
  <2> QED BY <2>1, <2>7, <2>8, TypePartsPrime
<1>5. CASE \E sig \in ModeGate : PushSignalled(c, sig)
  <2> PICK sig \in ModeGate : PushSignalled(c, sig)
    BY <1>5
  <2>0. Arrival(c) /\ Signal(c, sig) /\ sig \in {"Steer", "Interrupt", "Cancel"}
    BY QueueAssumption DEF PushSignalled, Accepted
  <2>1. StoresOK' /\ FlightOK'
    BY <1>0, <2>0, ArrivalType, RoomType DEF PushSignalled, Accepted, StoresOK
  <2>2. AgentsOK'
    BY <1>0, <2>0, ArrivalType, SignalType DEF AgentsOK
  <2>3. OneTurnPerChannel'
    BY <1>0, <2>0, ArrivalType, SignalType, SameTurns
  <2> QED BY <2>1, <2>2, <2>3, TypePartsPrime
<1>6. CASE \E sig \in Controls : Control(c, sig)
  <2> PICK sig \in Controls : Control(c, sig)
    BY <1>6
  <2>0. Signal(c, sig) /\ sig \in {"Steer", "Interrupt", "Cancel"}
    BY QueueAssumption DEF Control
  <2>1. StoresOK' /\ FlightOK'
    BY <1>0, QueueAssumption DEF Control, Command, StoresOK, FlightOK, stores, retries, config
  <2>2. AgentsOK'
    BY <1>0, <2>0, SignalType DEF AgentsOK, Control, Command
  <2>3. OneTurnPerChannel'
    BY <1>0, <2>0, SignalType, SameTurns DEF Control, Command, config
  <2> QED BY <2>1, <2>2, <2>3, TypePartsPrime
<1>7. CASE RemoveChannel(c)
  <2>1. StoresOK'
    BY <1>0, <1>7, SeqTypes, <<>> \in Seq(Events) DEF RemoveChannel, StoresOK
  <2>2. FlightOK'
    BY <1>0, <1>7, QueueAssumption DEF RemoveChannel, Command, FlightOK, config
  <2>3. AgentsOK' /\ OneTurnPerChannel'
    BY <1>0, <1>7, SameTurns DEF RemoveChannel, Command, AgentsOK, config
  <2> QED BY <2>1, <2>2, <2>3, TypePartsPrime
<1>8. CASE AddChannel(c)
  <2>1. StoresOK' /\ FlightOK'
    BY <1>0, <1>8, QueueAssumption DEF AddChannel, Command, StoresOK, FlightOK, stores, retries, config
  <2>2. AgentsOK' /\ OneTurnPerChannel'
    BY <1>0, <1>8, SameTurns DEF AddChannel, Command, AgentsOK, config
  <2> QED BY <2>1, <2>2, TypePartsPrime
<1> QED BY <1>1, <1>2, <1>3, <1>4, <1>5, <1>6, <1>7, <1>8

-----------------------------------------------------------------------------
(* The task that runs a turn.                                              *)

\* A step of a task leaves the stores and the flight state alone.
LEMMA TaskStepType ==
    ASSUME StoresOK, FlightOK, TaskStep, settled' \subseteq Events
    PROVE  /\ StoresOK' /\ FlightOK' /\ slots' = slots
           /\ inFlight' = inFlight /\ lapsed' = lapsed
  BY DEF TaskStep, StoresOK, FlightOK, stores, retries, config

\* A batch consists of events.
LEMMA BatchType ==
    ASSUME AgentsOK, NEW a \in Agents
    PROVE  BatchOf(tasks[a]) \subseteq Events
<1>1. tasks[a].events \in Seq(Events) /\ tasks[a].merged \in Seq(Events)
  BY DEF AgentsOK, Tasks
<1> QED BY <1>1, SeqTypes DEF BatchOf

\* An answered steer request keeps the invariant.
LEMMA AnswerSteerType ==
    ASSUME QueueTypeOK, OneTurnPerChannel, NEW a \in Agents,
           NEW r \in {"success", "fallback", "release"}, AnswerSteer(a, r)
    PROVE  QueueTypeOK' /\ OneTurnPerChannel'
<1>0. StoresOK /\ FlightOK /\ AgentsOK
  BY TypeParts
<1>1. /\ tasks[a] \in Tasks /\ tasks[a].steers \in Seq(Events) /\ tasks[a].steers # <<>>
      /\ tasks[a].channel \in Channels
  BY <1>0 DEF AnswerSteer, AgentsOK, Tasks
<1>2. Head(tasks[a].steers) \in Events /\ Tail(tasks[a].steers) \in Seq(Events)
  BY <1>1, SeqTypes
<1>3. /\ settled' \subseteq Events
      /\ StoresOK' /\ FlightOK' /\ slots' = slots /\ inFlight' = inFlight /\ lapsed' = lapsed
  <2>1. settled' \subseteq Events
    BY <1>0, <1>2 DEF AnswerSteer, StoresOK
  <2> QED BY <1>0, <2>1, TaskStepType DEF AnswerSteer
<1>4. acks' \subseteq Acks
  BY <1>0, <1>1, <1>2 DEF AnswerSteer, AgentsOK, Acks
<1>5. [tasks[a] EXCEPT !.steers = Tail(@)] \in Tasks
  BY <1>1, <1>2 DEF Tasks
<1>6. tasks' \in [Agents -> Tasks]
  BY <1>0, <1>5 DEF AnswerSteer, AgentsOK
<1>7. \A b \in Agents : /\ tasks'[b].phase = tasks[b].phase
                        /\ tasks'[b].channel = tasks[b].channel
                        /\ tasks'[b].keep = tasks[b].keep /\ tasks'[b].ctl = tasks[b].ctl
                        /\ b # a => tasks'[b] = tasks[b]
  BY <1>0, <1>1 DEF AnswerSteer, AgentsOK, Tasks
<1>8. AgentsOK'
  BY <1>0, <1>1, <1>3, <1>4, <1>6, <1>7, QueueAssumption DEF AgentsOK
<1>9. OneTurnPerChannel'
  BY <1>0, <1>3, <1>6, <1>7, SameTurns
<1> QED BY <1>3, <1>8, <1>9, TypePartsPrime

\* A turn that ends keeps its slot and its channel until it is collected.
LEMMA EndsType ==
    ASSUME QueueTypeOK, OneTurnPerChannel, NEW a \in Agents, NEW o \in Outcomes \cup {"ok"},
           NEW k \in BOOLEAN, tasks[a].channel = NoChannel => ~ k,
           Ends(a, o, k), settled' \subseteq Events
    PROVE  QueueTypeOK' /\ OneTurnPerChannel'
<1>0. StoresOK /\ FlightOK /\ AgentsOK
  BY TypeParts
<1>1. tasks[a] \in Tasks /\ tasks[a].steers \in Seq(Events) /\ tasks[a].phase = "running"
  BY <1>0 DEF Ends, AgentsOK, Tasks
<1>2. Elems(tasks[a].steers) \subseteq Events
  BY <1>1, SeqTypes
<1>3. StoresOK' /\ FlightOK' /\ slots' = slots /\ inFlight' = inFlight /\ lapsed' = lapsed
  BY <1>0, TaskStepType DEF Ends
<1>4. acks' \subseteq Acks
  <2>1. CASE tasks[a].channel \in Channels
    BY <1>0, <1>2, <2>1 DEF Ends, AgentsOK, Acks
  <2>2. CASE tasks[a].channel = NoChannel
    <3>1. Elems(tasks[a].steers) = {}
      BY <1>0, <2>2 DEF AgentsOK, Elems
    <3> QED BY <1>0, <3>1 DEF Ends, AgentsOK
  <2> QED BY <1>1, <2>1, <2>2 DEF Tasks
<1>5. [tasks[a] EXCEPT !.phase = "ended", !.steers = <<>>, !.outcome = o, !.keep = k] \in Tasks
  <2>1. <<>> \in Seq(Events) /\ o \in Outcomes \cup {"none", "ok"} /\ "ended" \in {"none", "running", "ended"}
    OBVIOUS
  <2> QED BY <1>1, <2>1 DEF Tasks
<1>6. tasks' = [tasks EXCEPT ![a] =
                  [tasks[a] EXCEPT !.phase = "ended", !.steers = <<>>, !.outcome = o, !.keep = k]]
  BY <1>0 DEF Ends, AgentsOK
<1>7. tasks' \in [Agents -> Tasks]
  BY <1>0, <1>5, <1>6 DEF AgentsOK
<1>8. /\ tasks'[a].phase = "ended" /\ tasks'[a].channel = tasks[a].channel
      /\ tasks'[a].keep = k /\ tasks'[a].ctl = tasks[a].ctl /\ tasks'[a].steers = <<>>
      /\ \A b \in Agents \ {a} : tasks'[b] = tasks[b]
  BY <1>0, <1>1, <1>6 DEF AgentsOK, Tasks
<1>9. AgentsOK'
  BY <1>0, <1>1, <1>3, <1>4, <1>7, <1>8 DEF AgentsOK
<1>10. OneTurnPerChannel'
  BY <1>0, <1>1, <1>3, <1>7, <1>8, SameTurns
<1> QED BY <1>3, <1>9, <1>10, TypePartsPrime

\* Every end of a turn keeps the invariant.
LEMMA TurnEndsType ==
    ASSUME QueueTypeOK, OneTurnPerChannel, NEW a \in Agents, TurnEnds(a)
    PROVE  QueueTypeOK' /\ OneTurnPerChannel'
<1>0. StoresOK /\ AgentsOK
  BY TypeParts
<1>1. BatchOf(tasks[a]) \subseteq Events /\ settled \subseteq Events
  BY <1>0, BatchType DEF StoresOK
<1>2. CASE TurnCompletes(a)
  BY <1>1, <1>2, EndsType DEF TurnCompletes
<1>3. ASSUME NEW o \in Outcomes, TurnFails(a, o)
      PROVE  QueueTypeOK' /\ OneTurnPerChannel'
  BY <1>1, <1>3, EndsType DEF TurnFails, EndsWithout
<1>4. ASSUME NEW o \in Outcomes, TurnCancelled(a, o)
      PROVE  QueueTypeOK' /\ OneTurnPerChannel'
  <2>1. tasks[a].channel # NoChannel
    BY <1>0, <1>4 DEF TurnCancelled, AgentsOK
  <2> QED BY <1>1, <1>4, <2>1, EndsType DEF TurnCancelled, EndsWithout
<1> QED BY <1>2, <1>3, <1>4 DEF TurnEnds

-----------------------------------------------------------------------------
(* The results of turns.                                                   *)

\* A result gives back the agent of a turn and its channel.
LEMMA CollectType ==
    ASSUME AgentsOK, FlightOK, NEW a \in Agents, Collect(a)
    PROVE  /\ AgentsOK'
           /\ loop' \in {"select", "drain", "dispatch", "exited"}
           /\ UNCHANGED <<withheld, acks, removed, next, controls, dedup, lapsed>>
<1>1. NoTask \in Tasks /\ NoTask.phase = "none" /\ NoTask.channel = NoChannel /\ ~ NoTask.keep
      /\ NoTask.ctl = "open" /\ NoTask.steers = <<>>
  BY TurnType, <<>> \in Seq(Events) DEF NoTask, Task
<1>2. tasks' \in [Agents -> Tasks] /\ tasks'[a] = NoTask /\ \A b \in Agents \ {a} : tasks'[b] = tasks[b]
  BY <1>1 DEF Collect, AgentsOK
<1>3. PICK s \in {"respawning", "empty", "idle"} : slots' = [slots EXCEPT ![a] = s]
  BY DEF Collect
<1>4. /\ slots' \in [Agents -> {"idle", "busy", "respawning", "empty"}]
      /\ slots'[a] # "busy" /\ \A b \in Agents \ {a} : slots'[b] = slots[b]
  BY <1>3 DEF AgentsOK
<1>5. AgentsOK'
  BY <1>1, <1>2, <1>4 DEF AgentsOK, Collect
<1> QED BY <1>5 DEF Collect, config

\* The channel of a collected turn is in flight no more.
LEMMA CollectTurns ==
    ASSUME AgentsOK, FlightOK, OneTurnPerChannel, NEW a \in Agents, Collect(a),
           inFlight' = inFlight \ {tasks[a].channel}
    PROVE  OneTurnPerChannel'
<1>1. \A c \in Channels : TasksOf(c)' = TasksOf(c) \ {a}
  BY DEF Collect, TasksOf, AgentsOK, NoTask, Task
<1>2. lapsed' = lapsed
  BY DEF Collect, config
<1>3. a \in TasksOf(tasks[a].channel)
  BY DEF Collect, TasksOf
<1> QED BY <1>1, <1>2, <1>3 DEF OneTurnPerChannel, TasksOf

\* Collecting a turn frees its slot and its channel together.
LEMMA ResultsType ==
    ASSUME QueueTypeOK, OneTurnPerChannel, NEW a \in Agents, Results(a)
    PROVE  QueueTypeOK' /\ OneTurnPerChannel'
<1> DEFINE t == tasks[a]
           c == t.channel
<1>0. StoresOK /\ FlightOK /\ AgentsOK
  BY TypeParts
<1>1. Collect(a)
  BY DEF Results, CollectHeartbeat, CollectDone, CollectCancelled, CollectHopeless,
         CollectRequeued, CollectDeadLettered
<1>2. /\ AgentsOK' /\ loop' \in {"select", "drain", "dispatch", "exited"}
      /\ UNCHANGED <<withheld, acks, removed, next, controls, dedup, lapsed>>
  BY <1>0, <1>1, CollectType
<1>3. BatchOf(t) \subseteq Events /\ t.events \in Seq(Events) /\ t.merged \in Seq(Events)
      /\ c \in Channels \cup {NoChannel} /\ (t.keep => c \in Channels)
  BY <1>0, BatchType DEF AgentsOK, Tasks
<1> HIDE DEF c, t
<1>4. CASE CollectHeartbeat(a)
  <2>1. StoresOK' /\ FlightOK'
    BY <1>0, <1>2, <1>4 DEF CollectHeartbeat, StoresOK, FlightOK, retries
  <2>2. inFlight' = inFlight \ {tasks[a].channel}
    BY <1>0, <1>4, QueueAssumption DEF CollectHeartbeat, FlightOK
  <2> QED BY <1>0, <1>1, <1>2, <2>1, <2>2, CollectTurns, TypePartsPrime
<1>5. CASE CollectDone(a)
  <2>1. c \in Channels /\ MarkComplete(c)
    BY <1>3, <1>5 DEF CollectDone, c, t
  <2>2. StoresOK'
    BY <1>0, <1>2, <1>3, <1>5 DEF CollectDone, StoresOK, t
  <2>3. FlightOK'
    BY <1>0, <1>2, <2>1, MarkCompleteType DEF FlightOK
  <2>4. inFlight' = inFlight \ {tasks[a].channel}
    BY <2>1 DEF MarkComplete, c, t
  <2> QED BY <1>0, <1>1, <1>2, <2>2, <2>3, <2>4, CollectTurns, TypePartsPrime
<1>6. CASE CollectCancelled(a)
  <2>1. c \in Channels /\ MarkComplete(c)
    BY <1>3, <1>6 DEF CollectCancelled, HasBatch, c, t
  <2>2. cancelled[c] \o t.merged \o t.events \in Seq(Events)
    BY <1>0, <1>3, <2>1, SeqTypes DEF StoresOK
  <2>3. StoresOK'
    BY <1>0, <1>2, <1>6, <2>2 DEF CollectCancelled, StoresOK, c, t
  <2>4. FlightOK'
    BY <1>0, <1>2, <2>1, MarkCompleteType DEF FlightOK
  <2>5. inFlight' = inFlight \ {tasks[a].channel}
    BY <2>1 DEF MarkComplete, c, t
  <2> QED BY <1>0, <1>1, <1>2, <2>3, <2>4, <2>5, CollectTurns, TypePartsPrime
<1>7. CASE CollectHopeless(a)
  <2>1. c \in Channels /\ MarkComplete(c)
    BY <1>3, <1>7 DEF CollectHopeless, HasBatch, c, t
  <2>2. StoresOK'
    BY <1>0, <1>2, <1>3, <1>7 DEF CollectHopeless, StoresOK, t
  <2>3. FlightOK'
    BY <1>0, <1>2, <2>1, MarkCompleteType DEF FlightOK
  <2>4. inFlight' = inFlight \ {tasks[a].channel}
    BY <2>1 DEF MarkComplete, c, t
  <2> QED BY <1>0, <1>1, <1>2, <2>2, <2>3, <2>4, CollectTurns, TypePartsPrime
<1>8. CASE CollectRequeued(a)
  <2>1. c \in Channels
    BY <1>3, <1>8 DEF CollectRequeued, Retried, HasBatch, c, t
  <2>2. t.events \o queues[c] \in Seq(Events)
    BY <1>0, <1>3, <2>1, SeqTypes DEF StoresOK
  <2>3. Trim(t.events \o queues[c]) \in Seq(Events) /\ Trimmed(t.events \o queues[c]) \subseteq Events
    BY <2>2, TrimType
  <2>4. StoresOK'
    BY <1>0, <1>2, <1>8, <2>3 DEF CollectRequeued, StoresOK, c, t
  <2>5. retryCounts[c] + 1 \in 0..MAX_RETRIES
    BY <1>0, <1>8, <2>1, QueueAssumption DEF CollectRequeued, FlightOK, c, t
  <2>6. FlightOK'
    BY <1>0, <1>2, <1>8, <2>5 DEF CollectRequeued, FlightOK, c, t
  <2>7. inFlight' = inFlight \ {tasks[a].channel}
    BY <1>8 DEF CollectRequeued
  <2> QED BY <1>0, <1>1, <1>2, <2>4, <2>6, <2>7, CollectTurns, TypePartsPrime
<1>9. CASE CollectDeadLettered(a)
  <2>1. c \in Channels
    BY <1>3, <1>9 DEF CollectDeadLettered, Retried, HasBatch, c, t
  <2>2. StoresOK'
    BY <1>0, <1>2, <1>3, <1>9 DEF CollectDeadLettered, StoresOK, t
  <2>3. FlightOK'
    <3>0. retryCounts' = [retryCounts EXCEPT ![c] = 0] /\ 0 \in 0..MAX_RETRIES
      BY <1>9, QueueAssumption DEF CollectDeadLettered, c, t
    <3>1. retryCounts' \in [Channels -> 0..MAX_RETRIES]
      BY <1>0, <3>0 DEF FlightOK
    <3>2. retryAfter' \in [Channels -> {"none", "active", "expired"}]
      BY <1>0, <1>9 DEF CollectDeadLettered, FlightOK
    <3> QED BY <1>0, <1>2, <1>9, <3>1, <3>2 DEF CollectDeadLettered, FlightOK
  <2>4. inFlight' = inFlight \ {tasks[a].channel}
    BY <1>9 DEF CollectDeadLettered
  <2> QED BY <1>0, <1>1, <1>2, <2>2, <2>3, <2>4, CollectTurns, TypePartsPrime
<1> QED BY <1>4, <1>5, <1>6, <1>7, <1>8, <1>9 DEF Results

\* The answer to a steer request keeps the invariant.
LEMMA AckSteerType ==
    ASSUME QueueTypeOK, OneTurnPerChannel, NEW k \in acks, AckSteer(k)
    PROVE  QueueTypeOK' /\ OneTurnPerChannel'
<1> DEFINE c == k.channel
           back == <<k.event>> \o queues[c]
<1>0. StoresOK /\ FlightOK /\ AgentsOK
  BY TypeParts
<1>1. c \in Channels /\ k.event \in Events
  BY <1>0 DEF AgentsOK, Acks
<1>2. queues[c] \in Seq(Events) /\ withheld[c] \in Seq(Events)
  BY <1>0, <1>1 DEF StoresOK
<1>3. back \in Seq(Events)
  BY <1>1, <1>2, SeqTypes, <<k.event>> \in Seq(Events)
<1>4. /\ Without(queues[c], k.event) \in Seq(Events) /\ Without(withheld[c], k.event) \in Seq(Events)
      /\ Trim(back) \in Seq(Events) /\ Trimmed(back) \subseteq Events
  BY <1>2, <1>3, WithoutType, TrimType
<1>5. StoresOK'
  <2>1. withheld' \in [Channels -> Seq(Events)] /\ cancelled' \in [Channels -> Seq(Events)]
    BY <1>0, <1>4 DEF AckSteer, StoresOK
  <2>2. queues' \in [Channels -> Seq(Events)] /\ settled' \subseteq Events
    BY <1>0, <1>4 DEF AckSteer, StoresOK
  <2> QED BY <2>1, <2>2 DEF StoresOK
<1>6. FlightOK'
  BY <1>0 DEF AckSteer, FlightOK, retries, config
<1>7. /\ tasks' \in [Agents -> Tasks]
      /\ \A a \in Agents : /\ tasks'[a].phase = tasks[a].phase
                           /\ tasks'[a].channel = tasks[a].channel
                           /\ tasks'[a].keep = tasks[a].keep
                           /\ tasks'[a].steers = tasks[a].steers
                           /\ tasks[a].channel = NoChannel => tasks'[a].ctl = tasks[a].ctl
  <2>1. CASE Signal(c, "Steer")
    BY <1>0, <1>1, <2>1, SignalType
  <2>2. CASE UNCHANGED tasks
    BY <1>0, <2>2 DEF AgentsOK
  <2> QED BY <2>1, <2>2 DEF AckSteer
<1>8. AgentsOK'
  BY <1>0, <1>7 DEF AgentsOK, AckSteer
<1>9. OneTurnPerChannel'
  BY <1>0, <1>7, SameTurns DEF AckSteer, config
<1> QED BY <1>5, <1>6, <1>8, <1>9, TypePartsPrime

-----------------------------------------------------------------------------
(* dispatch_pending.                                                       *)

\* The release of overdue channels keeps the invariant.
LEMMA ExpireType ==
    ASSUME QueueTypeOK, OneTurnPerChannel, Expire
    PROVE  QueueTypeOK' /\ OneTurnPerChannel'
<1>0. StoresOK /\ FlightOK /\ AgentsOK
  BY TypeParts
<1>1. \A c \in Channels : /\ Trim(withheld[c] \o queues[c]) \in Seq(Events)
                          /\ Trimmed(withheld[c] \o queues[c]) \subseteq Events
  BY <1>0, SeqTypes, TrimType DEF StoresOK
<1>2. settled' \subseteq Events
  BY <1>0, <1>1 DEF Expire, StoresOK, FlightOK
<1>3. queues' \in [Channels -> Seq(Events)] /\ withheld' \in [Channels -> Seq(Events)]
  BY <1>0, <1>1, <<>> \in Seq(Events) DEF Expire, StoresOK
<1>4. StoresOK'
  BY <1>0, <1>2, <1>3 DEF Expire, StoresOK
<1>5. FlightOK'
  BY <1>0 DEF Expire, FlightOK, retries
<1>6. AgentsOK'
  BY <1>0 DEF Expire, AgentsOK
<1>7. \A c \in Channels : TasksOf(c)' = TasksOf(c)
  BY DEF Expire, TasksOf
<1>8. OneTurnPerChannel'
  BY <1>0, <1>7 DEF Expire, OneTurnPerChannel, FlightOK
<1> QED BY <1>4, <1>5, <1>6, <1>8, TypePartsPrime

\* Handing a batch of a channel that is not in flight to an idle agent, or
\* back to its queue.
LEMMA HandType ==
    ASSUME QueueTypeOK, OneTurnPerChannel, NEW c \in Channels, c \notin inFlight,
           NEW events \in Seq(Events), NEW merged \in Seq(Events), NEW rest \in Seq(Events),
           Hand(c, events, merged, rest)
    PROVE  QueueTypeOK' /\ OneTurnPerChannel'
<1>0. StoresOK /\ FlightOK /\ AgentsOK
  BY TypeParts
<1>1. /\ cancelled' \in [Channels -> Seq(Events)] /\ withheld' \in [Channels -> Seq(Events)]
      /\ acks' \subseteq Acks /\ removed' \subseteq Channels /\ lapsed' = lapsed /\ lapsed \subseteq Channels
      /\ next' \in 1..MaxEvents + 1 /\ controls' \in 0..MaxControls /\ dedup' \in {"Queue", "Drop"}
  BY <1>0, <<>> \in Seq(Events) DEF Hand, Flush, StoresOK, FlightOK, AgentsOK, config
<1>2. CASE \E a \in Agents : Claim(c, a, events, merged, rest)
  <2> PICK a \in Agents : Claim(c, a, events, merged, rest)
    BY <1>2
  <2>1. StoresOK'
    BY <1>0, <1>1 DEF Claim, StoresOK
  <2>2. FlightOK'
    BY <1>0, <1>1 DEF Claim, FlightOK, retries
  <2> DEFINE t == Turn(c, events, merged)
  <2>3. t \in Tasks /\ t.phase = "running" /\ t.channel = c
    BY TurnType DEF Turn, Task
  <2>4. t.channel # NoChannel
    BY <2>3, QueueAssumption
  <2> HIDE DEF t
  <2>5. tasks' = [tasks EXCEPT ![a] = t]
    BY DEF Claim, t
  <2>6. AgentsOK'
    <3>1. slots' \in [Agents -> {"idle", "busy", "respawning", "empty"}] /\ slots'[a] = "busy"
          /\ \A b \in Agents \ {a} : slots'[b] = slots[b]
      BY <1>0 DEF Claim, AgentsOK
    <3>2. tasks' \in [Agents -> Tasks] /\ tasks'[a] = t /\ \A b \in Agents \ {a} : tasks'[b] = tasks[b]
      BY <1>0, <2>3, <2>5 DEF AgentsOK
    <3> QED BY <1>0, <1>1, <2>3, <2>4, <3>1, <3>2 DEF AgentsOK
  <2>7. tasks[a].phase = "none"
    BY <1>0 DEF Claim, AgentsOK
  <2>8. TasksOf(c)' = TasksOf(c) \cup {a} /\ \A d \in Channels \ {c} : TasksOf(d)' = TasksOf(d)
    BY <1>0, <2>3, <2>5, <2>7 DEF TasksOf, AgentsOK
  <2>9. OneTurnPerChannel'
    <3>1. inFlight' = inFlight \cup {c} /\ lapsed' = lapsed
      BY <1>1 DEF Claim
    <3>2. c \notin lapsed => TasksOf(c) = {}
      BY DEF OneTurnPerChannel
    <3>3. ASSUME NEW d \in Channels \ lapsed
          PROVE  /\ \A e, f \in TasksOf(d)' : e = f
                 /\ d \in inFlight' <=> TasksOf(d)' # {}
      <4>1. CASE d = c
        BY <2>8, <3>1, <3>2, <4>1
      <4>2. CASE d # c
        BY <2>8, <3>1, <4>2 DEF OneTurnPerChannel
      <4> QED BY <4>1, <4>2
    <3> QED BY <3>1, <3>3 DEF OneTurnPerChannel
  <2> QED BY <2>1, <2>2, <2>6, <2>9, TypePartsPrime
<1>3. CASE Exhausted(c, events, rest)
  <2>1. events \o rest \in Seq(Events)
    BY SeqTypes
  <2>2. Trim(events \o rest) \in Seq(Events) /\ Trimmed(events \o rest) \subseteq Events
    BY <2>1, TrimType
  <2>3. StoresOK'
    BY <1>0, <1>1, <1>3, <2>2 DEF Exhausted, StoresOK
  <2>4. FlightOK'
    BY <1>0, <1>1, <1>3, MarkCompleteType DEF Exhausted, FlightOK
  <2>5. AgentsOK'
    BY <1>0, <1>1, <1>3 DEF Exhausted, AgentsOK
  <2>6. inFlight' = inFlight
    BY <1>3 DEF Exhausted, MarkComplete
  <2>7. OneTurnPerChannel'
    BY <1>0, <1>1, <1>3, <2>6, SameTurns DEF Exhausted, AgentsOK
  <2> QED BY <2>3, <2>4, <2>5, <2>7, TypePartsPrime
<1> QED BY <1>2, <1>3 DEF Hand

\* dispatch_pending keeps the invariant.
LEMMA DispatchType ==
    ASSUME QueueTypeOK, OneTurnPerChannel, Dispatch
    PROVE  QueueTypeOK' /\ OneTurnPerChannel'
<1>0. StoresOK /\ FlightOK /\ AgentsOK
  BY TypeParts
<1>1. ASSUME NEW c \in Channels, FlushQueued(c)
      PROVE  QueueTypeOK' /\ OneTurnPerChannel'
  <2> DEFINE q == queues[c]
             n == Least(MAX_BATCH_EVENTS, Len(q))
  <2>1. q \in Seq(Events) /\ cancelled[c] \in Seq(Events)
    BY <1>0 DEF StoresOK
  <2>2. n \in 0..Len(q) /\ n + 1 \in 1..Len(q) + 1 /\ 1 \in 1..Len(q) + 1 /\ Len(q) \in 0..Len(q)
    BY <2>1, QueueAssumption DEF Least
  <2>3. c \notin inFlight
    BY <1>1 DEF FlushQueued, Candidates
  <2>4. PICK events \in Sorted(SubSeq(q, 1, n)) : Hand(c, events, cancelled[c], SubSeq(q, n + 1, Len(q)))
    BY <1>1 DEF FlushQueued
  <2> HIDE DEF n, q
  <2>5. SubSeq(q, 1, n) \in Seq(Events) /\ SubSeq(q, n + 1, Len(q)) \in Seq(Events)
    BY <2>1, <2>2, SubSeqType
  <2>6. events \in Seq(Events)
    BY <2>4, <2>5, SortedType
  <2> QED BY <2>1, <2>3, <2>4, <2>5, <2>6, HandType
<1>2. ASSUME NEW c \in Channels, FlushCancelled(c)
      PROVE  QueueTypeOK' /\ OneTurnPerChannel'
  <2>1. queues[c] \in Seq(Events) /\ cancelled[c] \in Seq(Events) /\ <<>> \in Seq(Events)
    BY <1>0 DEF StoresOK
  <2>2. c \notin inFlight /\ Hand(c, cancelled[c], <<>>, queues[c])
    BY <1>2 DEF FlushCancelled, Leftovers
  <2> QED BY <2>1, <2>2, HandType
<1>3. CASE FlushNothing
  <2>1. StoresOK' /\ FlightOK'
    BY <1>0, <1>3 DEF FlushNothing, StoresOK, FlightOK, stores, retries, config
  <2>2. AgentsOK' /\ OneTurnPerChannel'
    BY <1>0, <1>3, SameTurns DEF FlushNothing, AgentsOK, config
  <2> QED BY <2>1, <2>2, TypePartsPrime
<1> QED BY <1>1, <1>2, <1>3, ExpireType DEF Dispatch

-----------------------------------------------------------------------------
(* Timers and respawns.                                                    *)

\* Timers and respawns keep the invariant.
LEMMA TimersType ==
    ASSUME QueueTypeOK, OneTurnPerChannel, Timers
    PROVE  QueueTypeOK' /\ OneTurnPerChannel'
<1>0. StoresOK /\ FlightOK /\ AgentsOK
  BY TypeParts
<1>1. CASE Maintain
  <2>1. StoresOK'
    BY <1>0, <1>1 DEF Maintain, StoresOK, stores
  <2>2. FlightOK'
    <3>1. retryCounts' \in [Channels -> 0..MAX_RETRIES]
      BY <1>0, <1>1, QueueAssumption DEF Maintain, FlightOK
    <3>2. retryAfter' \in [Channels -> {"none", "active", "expired"}]
      BY <1>0, <1>1 DEF Maintain, FlightOK
    <3> QED BY <1>0, <1>1, <3>1, <3>2 DEF Maintain, FlightOK, config
  <2>3. AgentsOK'
    BY <1>0, <1>1 DEF Maintain, AgentsOK
  <2>4. OneTurnPerChannel'
    BY <1>0, <1>1, SameTurns DEF Maintain, AgentsOK, config
  <2> QED BY <2>1, <2>2, <2>3, <2>4, TypePartsPrime
<1>2. ASSUME NEW a \in Agents, Respawned(a) \/ RespawnFailed(a)
      PROVE  QueueTypeOK' /\ OneTurnPerChannel'
  <2>1. StoresOK' /\ FlightOK'
    BY <1>0, <1>2 DEF Respawned, RespawnFailed, TimerStep, StoresOK, FlightOK, stores, config
  <2>2. AgentsOK'
    BY <1>0, <1>2 DEF Respawned, RespawnFailed, TimerStep, AgentsOK
  <2>3. OneTurnPerChannel'
    BY <1>0, <1>2, SameTurns DEF Respawned, RespawnFailed, TimerStep, AgentsOK, config
  <2> QED BY <2>1, <2>2, <2>3, TypePartsPrime
<1>3. ASSUME NEW a \in Agents, Heartbeat(a)
      PROVE  QueueTypeOK' /\ OneTurnPerChannel'
  <2> DEFINE t == Turn(NoChannel, <<>>, <<>>)
  <2>1. StoresOK' /\ FlightOK'
    BY <1>0, <1>3 DEF Heartbeat, TimerStep, StoresOK, FlightOK, stores, config
  <2>2. /\ t \in Tasks /\ t.phase = "running" /\ t.channel = NoChannel
        /\ ~ t.keep /\ t.ctl = "open" /\ t.steers = <<>>
    BY TurnType, <<>> \in Seq(Events) DEF Turn, Task
  <2> HIDE DEF t
  <2>3. tasks' = [tasks EXCEPT ![a] = t]
    BY <1>3 DEF Heartbeat, t
  <2>4. AgentsOK'
    <3>1. slots' \in [Agents -> {"idle", "busy", "respawning", "empty"}] /\ slots'[a] = "busy"
          /\ \A b \in Agents \ {a} : slots'[b] = slots[b]
      BY <1>0, <1>3 DEF Heartbeat, AgentsOK
    <3>2. tasks' \in [Agents -> Tasks] /\ tasks'[a] = t /\ \A b \in Agents \ {a} : tasks'[b] = tasks[b]
      BY <1>0, <2>2, <2>3 DEF AgentsOK
    <3> QED BY <1>0, <1>3, <2>2, <3>1, <3>2 DEF AgentsOK, Heartbeat, TimerStep
  <2>5. tasks[a].phase = "none"
    BY <1>0, <1>3 DEF Heartbeat, AgentsOK
  <2>6. \A c \in Channels : TasksOf(c)' = TasksOf(c)
    BY <1>0, <2>2, <2>3, <2>5, QueueAssumption DEF TasksOf, AgentsOK
  <2>7. OneTurnPerChannel'
    BY <1>3, <2>6 DEF Heartbeat, TimerStep, OneTurnPerChannel, config
  <2> QED BY <2>1, <2>4, <2>7, TypePartsPrime
<1>4. ASSUME NEW c \in Channels, BackoffElapses(c) \/ DeadlinePasses(c)
      PROVE  QueueTypeOK' /\ OneTurnPerChannel'
  <2>1. StoresOK'
    BY <1>0, <1>4 DEF BackoffElapses, DeadlinePasses, TimerStep, StoresOK, stores
  <2>2. FlightOK'
    BY <1>0, <1>4 DEF BackoffElapses, DeadlinePasses, TimerStep, FlightOK, config
  <2>3. AgentsOK'
    BY <1>0, <1>4 DEF BackoffElapses, DeadlinePasses, TimerStep, AgentsOK
  <2>4. OneTurnPerChannel'
    BY <1>0, <1>4, SameTurns DEF BackoffElapses, DeadlinePasses, TimerStep, AgentsOK, config
  <2> QED BY <2>1, <2>2, <2>3, <2>4, TypePartsPrime
<1> QED BY <1>1, <1>2, <1>3, <1>4 DEF Timers

-----------------------------------------------------------------------------
(* The theorems.                                                           *)

\* The two invariants are inductive together.
LEMMA Inductive ==
    ASSUME QueueTypeOK, OneTurnPerChannel, [Next]_queueVars
    PROVE  QueueTypeOK' /\ OneTurnPerChannel'
<1>1. CASE Next
  BY <1>1, FromRelayType, AnswerSteerType, TurnEndsType, ResultsType, AckSteerType, DispatchType,
     TimersType DEF Next
<1>2. CASE UNCHANGED queueVars
  BY <1>2 DEF queueVars, QueueTypeOK, OneTurnPerChannel, TasksOf
<1> QED BY <1>1, <1>2

\* Whatever the number of agents, channels and events: attempts never exceed
\* MAX_RETRIES, a slot is busy exactly while its agent has a turn, and only a
\* turn of a channel hands a batch back or carries a steer.
THEOREM QueueTyped == QueueSpec => []QueueTypeOK
<1>1. Init => QueueTypeOK /\ OneTurnPerChannel
  BY InitType
<1>2. QueueTypeOK /\ OneTurnPerChannel /\ [Next]_queueVars => (QueueTypeOK /\ OneTurnPerChannel)'
  BY Inductive
<1> QED BY <1>1, <1>2, PTL DEF QueueSpec

\* flush_next, the result handler, the panic handler and the heartbeat
\* together keep one turn per channel, and the in-flight set is exact, for
\* every channel of which no turn outlasted its deadline.
THEOREM TurnsExclusive == QueueSpec => []OneTurnPerChannel
<1>1. Init => QueueTypeOK /\ OneTurnPerChannel
  BY InitType
<1>2. QueueTypeOK /\ OneTurnPerChannel /\ [Next]_queueVars => (QueueTypeOK /\ OneTurnPerChannel)'
  BY Inductive
<1> QED BY <1>1, <1>2, PTL DEF QueueSpec
-----------------------------------------------------------------------------
(* Where events are, and who carries them.                                 *)
(*                                                                         *)
(* SettledOnce is not inductive: a turn that answers a steer request with  *)
(* success settles an event it never had in its batch, and an answer that  *)
(* gives an event back to its queue does not look whether it was settled.  *)
(* What makes both safe is the bookkeeping of steer requests: an event has *)
(* at most one request or answer under way, it is withheld meanwhile, and  *)
(* if it is settled meanwhile the answer under way says so.                *)

\* No event twice.
Distinct(s) == \A i, j \in DOMAIN s : s[i] = s[j] => i = j

\* A steer request of channel c, or the answer to one, names event e.
Carried(c, e) ==
    \/ \E a \in Agents : tasks[a].channel = c /\ e \in Elems(tasks[a].steers)
    \/ \E k \in acks : k.channel = c /\ k.event = e

\* An answer under way says that the steer was taken.
Succeeds(c, e) == \E k \in acks : k.channel = c /\ k.event = e /\ k.result = "success"

\* The place of the withheld events of a channel.
Withheld(c) == <<"withheld", c>>

\* Only a running turn has requests to answer.
SteersRunning == \A a \in Agents : tasks[a].phase # "running" => tasks[a].steers = <<>>

\* One request or answer per event.
OneCarrier ==
    /\ \A a \in Agents : Distinct(tasks[a].steers)
    /\ \A a, b \in Agents : a # b => Elems(tasks[a].steers) \cap Elems(tasks[b].steers) = {}
    /\ \A a \in Agents, k \in acks : k.event \notin Elems(tasks[a].steers)
    /\ \A k, l \in acks : k.event = l.event => k = l

\* Events in one place at a time.
Apart ==
    /\ \A p \in Places : Distinct(At(p))
    /\ \A p, q \in Places : p # q => Elems(At(p)) \cap Elems(At(q)) = {}

\* Only events that have arrived are anywhere.
Arrived ==
    /\ \A p \in Places : \A e \in Elems(At(p)) : e < next
    /\ \A e \in settled : e < next
    /\ \A c, e : Carried(c, e) => e < next

\* What a batch or a queue has is not settled.
Unsettled ==
    \A p \in Places : p[1] # "withheld" /\ ChannelAt(p) \notin lapsed => settled \cap Elems(At(p)) = {}

\* What is carried is withheld, if it is anywhere.
CarriedIsWithheld ==
    \A c, e : Carried(c, e) =>
        \A p \in Places : e \in Elems(At(p)) =>
            ChannelAt(p) = c /\ (p = Withheld(c) \/ c \in lapsed)

\* What is withheld is carried; if it is settled, by a steer that succeeded.
WithheldIsCarried ==
    \A c \in Channels : \A e \in Elems(withheld[c]) :
        Carried(c, e) /\ (e \in settled => Succeeds(c, e))

\* The inductive invariant.
PlaceInv ==
    /\ SteersRunning /\ OneCarrier /\ Apart /\ Arrived
    /\ Unsettled /\ CarriedIsWithheld /\ WithheldIsCarried

-----------------------------------------------------------------------------
(* Sequences of distinct events. *)

\* A new event at the end.
LEMMA AppendElems ==
    ASSUME NEW s \in Seq(Events), NEW e \in Events
    PROVE  /\ Elems(Append(s, e)) = Elems(s) \cup {e}
           /\ Distinct(s) /\ e \notin Elems(s) => Distinct(Append(s, e))
<1>1. /\ DOMAIN Append(s, e) = 1..Len(s) + 1 /\ DOMAIN s = 1..Len(s) /\ Len(s) \in Nat
      /\ \A i \in 1..Len(s) : Append(s, e)[i] = s[i]
      /\ Append(s, e)[Len(s) + 1] = e
    OBVIOUS
<1>2. Elems(Append(s, e)) = Elems(s) \cup {e}
    BY <1>1 DEF Elems
<1>3. ASSUME Distinct(s), e \notin Elems(s) PROVE Distinct(Append(s, e))
    BY <1>1, <1>3 DEF Distinct, Elems
<1> QED
    BY <1>2, <1>3

\* The oldest event is taken off.
LEMMA TailElems ==
    ASSUME NEW s \in Seq(Events), s # <<>>
    PROVE  /\ Head(s) \in Elems(s) /\ Elems(s) = Elems(Tail(s)) \cup {Head(s)}
           /\ Distinct(s) => Distinct(Tail(s)) /\ Head(s) \notin Elems(Tail(s))
<1>1. /\ Len(s) \in Nat \ {0} /\ DOMAIN s = 1..Len(s) /\ DOMAIN Tail(s) = 1..Len(s) - 1
      /\ \A i \in 1..Len(s) - 1 : Tail(s)[i] = s[i + 1]
      /\ Head(s) = s[1]
    OBVIOUS
<1>2. Head(s) \in Elems(s) /\ Elems(Tail(s)) \subseteq Elems(s)
    BY <1>1 DEF Elems
<1>3. ASSUME NEW x \in Elems(s), x # Head(s) PROVE x \in Elems(Tail(s))
  <2>1. PICK i \in 1..Len(s) : x = s[i]
      BY <1>1 DEF Elems
  <2>2. i - 1 \in 1..Len(s) - 1 /\ Tail(s)[i - 1] = s[i]
      BY <1>1, <1>3, <2>1
  <2> QED
      BY <1>1, <2>1, <2>2 DEF Elems
<1>4. ASSUME Distinct(s) PROVE Distinct(Tail(s)) /\ Head(s) \notin Elems(Tail(s))
  <2>1. Distinct(Tail(s))
      BY <1>1, <1>4 DEF Distinct
  <2>2. ASSUME NEW i \in 1..Len(s) - 1, Tail(s)[i] = Head(s) PROVE FALSE
    <3>1. s[i + 1] = s[1] /\ i + 1 \in DOMAIN s /\ 1 \in DOMAIN s
        BY <1>1, <2>2
    <3>2. i + 1 = 1
        BY <1>4, <3>1 DEF Distinct
    <3> QED
        BY <3>2
  <2> QED
      BY <1>1, <2>1, <2>2 DEF Elems
<1> QED
    BY <1>2, <1>3, <1>4

\* One batch behind another.
LEMMA ConcatElems ==
    ASSUME NEW s \in Seq(Events), NEW t \in Seq(Events)
    PROVE  /\ Elems(s \o t) = Elems(s) \cup Elems(t)
           /\ Distinct(s) /\ Distinct(t) /\ Elems(s) \cap Elems(t) = {} => Distinct(s \o t)
<1>1. /\ Len(s) \in Nat /\ Len(t) \in Nat /\ DOMAIN s = 1..Len(s) /\ DOMAIN t = 1..Len(t)
      /\ DOMAIN (s \o t) = 1..Len(s) + Len(t)
      /\ \A i \in 1..Len(s) : (s \o t)[i] = s[i]
      /\ \A i \in 1..Len(s) + Len(t) : i > Len(s) => (s \o t)[i] = t[i - Len(s)]
    OBVIOUS
<1>2. Elems(s \o t) \subseteq Elems(s) \cup Elems(t)
  <2> SUFFICES ASSUME NEW i \in 1..Len(s) + Len(t) PROVE (s \o t)[i] \in Elems(s) \cup Elems(t)
      BY <1>1 DEF Elems
  <2>1. CASE i <= Len(s)
      BY <1>1, <2>1 DEF Elems
  <2>2. CASE i > Len(s)
    <3>1. i - Len(s) \in 1..Len(t)
        BY <1>1, <2>2
    <3> QED
        BY <1>1, <2>2, <3>1 DEF Elems
  <2> QED
      BY <1>1, <2>1, <2>2
<1>3. Elems(s) \subseteq Elems(s \o t)
    BY <1>1 DEF Elems
<1>4. Elems(t) \subseteq Elems(s \o t)
  <2> SUFFICES ASSUME NEW j \in 1..Len(t) PROVE t[j] \in Elems(s \o t)
      BY <1>1 DEF Elems
  <2>1. j + Len(s) \in 1..Len(s) + Len(t) /\ (s \o t)[j + Len(s)] = t[j]
      BY <1>1
  <2> QED
      BY <1>1, <2>1 DEF Elems
<1>5. ASSUME Distinct(s), Distinct(t), Elems(s) \cap Elems(t) = {},
             NEW i \in 1..Len(s) + Len(t), NEW j \in 1..Len(s) + Len(t), (s \o t)[i] = (s \o t)[j]
      PROVE  i = j
  <2>0. \A m \in 1..Len(s), n \in 1..Len(t) : s[m] # t[n]
      BY <1>1, <1>5 DEF Elems
  <2>1. CASE i <= Len(s) /\ j <= Len(s)
      BY <1>1, <1>5, <2>1 DEF Distinct
  <2>2. CASE i > Len(s) /\ j > Len(s)
    <3>1. i - Len(s) \in 1..Len(t) /\ j - Len(s) \in 1..Len(t)
        BY <1>1, <2>2
    <3>2. i - Len(s) = j - Len(s)
        BY <1>1, <1>5, <2>2, <3>1 DEF Distinct
    <3> QED
        BY <1>1, <3>2
  <2>3. CASE i <= Len(s) /\ j > Len(s)
    <3>1. j - Len(s) \in 1..Len(t) /\ i \in 1..Len(s)
        BY <1>1, <2>3
    <3> QED
        BY <1>1, <1>5, <2>0, <2>3, <3>1
  <2>4. CASE i > Len(s) /\ j <= Len(s)
    <3>1. i - Len(s) \in 1..Len(t) /\ j \in 1..Len(s)
        BY <1>1, <2>4
    <3> QED
        BY <1>1, <1>5, <2>0, <2>4, <3>1
  <2> QED
      BY <1>1, <2>1, <2>2, <2>3, <2>4
<1>6. ASSUME Distinct(s), Distinct(t), Elems(s) \cap Elems(t) = {} PROVE Distinct(s \o t)
    BY <1>1, <1>5, <1>6 DEF Distinct
<1> QED
    BY <1>2, <1>3, <1>4, <1>6

\* A queue is cut in two.
LEMMA SplitElems ==
    ASSUME NEW s \in Seq(Events), NEW n \in 0..Len(s)
    PROVE  LET u == SubSeq(s, 1, n)
               v == SubSeq(s, n + 1, Len(s)) IN
           /\ Elems(s) = Elems(u) \cup Elems(v)
           /\ Distinct(s) => Distinct(u) /\ Distinct(v) /\ Elems(u) \cap Elems(v) = {}
<1> DEFINE u == SubSeq(s, 1, n)
           v == SubSeq(s, n + 1, Len(s))
<1>1. /\ Len(s) \in Nat /\ DOMAIN s = 1..Len(s) /\ DOMAIN u = 1..n /\ DOMAIN v = 1..Len(s) - n
      /\ \A i \in 1..n : u[i] = s[i]
      /\ \A i \in 1..Len(s) - n : v[i] = s[i + n]
    OBVIOUS
<1> HIDE DEF u, v
<1>2. Elems(u) \subseteq Elems(s)
    BY <1>1 DEF Elems
<1>3. Elems(v) \subseteq Elems(s)
  <2> SUFFICES ASSUME NEW i \in 1..Len(s) - n PROVE v[i] \in Elems(s)
      BY <1>1 DEF Elems
  <2>1. i + n \in 1..Len(s) /\ v[i] = s[i + n]
      BY <1>1
  <2> QED
      BY <1>1, <2>1 DEF Elems
<1>4. Elems(s) \subseteq Elems(u) \cup Elems(v)
  <2> SUFFICES ASSUME NEW i \in 1..Len(s) PROVE s[i] \in Elems(u) \cup Elems(v)
      BY <1>1 DEF Elems
  <2>1. CASE i <= n
    <3>1. i \in 1..n
        BY <2>1
    <3> QED
        BY <1>1, <3>1 DEF Elems
  <2>2. CASE i > n
    <3>1. i - n \in 1..Len(s) - n /\ v[i - n] = s[i]
        BY <1>1, <2>2
    <3> QED
        BY <1>1, <3>1 DEF Elems
  <2> QED
      BY <1>1, <2>1, <2>2
<1>5. ASSUME Distinct(s) PROVE Distinct(u) /\ Distinct(v) /\ Elems(u) \cap Elems(v) = {}
  <2>1. Distinct(u)
      BY <1>1, <1>5 DEF Distinct
  <2>2. ASSUME NEW i \in 1..Len(s) - n, NEW j \in 1..Len(s) - n, v[i] = v[j] PROVE i = j
    <3>1. i + n \in 1..Len(s) /\ j + n \in 1..Len(s) /\ s[i + n] = s[j + n]
        BY <1>1, <2>2
    <3>2. i + n = j + n
        BY <1>1, <1>5, <3>1 DEF Distinct
    <3> QED
        BY <1>1, <3>2
  <2>3. ASSUME NEW i \in 1..n, NEW j \in 1..Len(s) - n PROVE u[i] # v[j]
    <3>1. i \in 1..Len(s) /\ j + n \in 1..Len(s) /\ i # j + n
        BY <1>1
    <3>2. s[i] # s[j + n]
        BY <1>1, <1>5, <3>1 DEF Distinct
    <3> QED
        BY <1>1, <3>2
  <2> QED
      BY <1>1, <2>1, <2>2, <2>3 DEF Distinct, Elems
<1> QED
    BY <1>2, <1>3, <1>4, <1>5 DEF u, v

\* What the cap keeps and what it drops.
LEMMA TrimElems ==
    ASSUME NEW s \in Seq(Events)
    PROVE  /\ Elems(s) = Elems(Trim(s)) \cup Trimmed(s)
           /\ Distinct(s) => Distinct(Trim(s)) /\ Elems(Trim(s)) \cap Trimmed(s) = {}
<1> DEFINE n == Least(Len(s), MAX_PENDING_PER_CHANNEL)
<1>1. n \in 0..Len(s)
    BY QueueAssumption DEF Least
<1>2. Trimmed(s) = Elems(SubSeq(s, n + 1, Len(s)))
  <2>1. CASE Len(s) >= MAX_PENDING_PER_CHANNEL
    <3>1. n = MAX_PENDING_PER_CHANNEL
        BY <2>1, QueueAssumption DEF Least
    <3> QED
        BY <3>1 DEF Trimmed
  <2>2. CASE ~ (Len(s) >= MAX_PENDING_PER_CHANNEL)
    <3>1. n = Len(s) /\ Len(s) < MAX_PENDING_PER_CHANNEL
        BY <2>2, QueueAssumption DEF Least
    <3>2. SubSeq(s, n + 1, Len(s)) = <<>>
        BY <3>1
    <3>3. SubSeq(s, MAX_PENDING_PER_CHANNEL + 1, Len(s)) = <<>>
        BY <3>1, QueueAssumption
    <3> QED
        BY <3>2, <3>3 DEF Trimmed
  <2> QED
      BY <2>1, <2>2
<1>3. Trim(s) = SubSeq(s, 1, n)
    BY DEF Trim
<1> HIDE DEF n
<1> QED
    BY <1>1, <1>2, <1>3, SplitElems

\* An event is taken out.
LEMMA WithoutElems ==
    ASSUME NEW s \in Seq(Events), NEW e, Distinct(s)
    PROVE  Distinct(Without(s, e)) /\ Elems(Without(s, e)) = Elems(s) \ {e}
<1>1. CASE e \notin Elems(s)
    BY <1>1 DEF Without
<1>2. CASE e \in Elems(s)
  <2> DEFINE i == CHOOSE i \in DOMAIN s : s[i] = e
             u == SubSeq(s, 1, i - 1)
             v == SubSeq(s, i + 1, Len(s))
             w == SubSeq(s, i, Len(s))
  <2>1. i \in 1..Len(s) /\ s[i] = e
      BY <1>2 DEF Elems
  <2> HIDE DEF i
  <2>0. /\ i - 1 \in 0..Len(s) /\ i - 1 + 1 = i /\ i + 1 \in 1..Len(s) + 1
        /\ 1 \in 1..Len(s) + 1 /\ i \in 1..Len(s) + 1 /\ Len(s) \in 0..Len(s)
      BY <2>1
  <2>2. u \in Seq(Events) /\ v \in Seq(Events) /\ w \in Seq(Events)
      BY <2>0, SubSeqType
  <2>8. Len(w) = Len(s) - i + 1 /\ Len(v) = Len(s) - i /\ w # <<>>
    <3>1. Len(w) = Len(s) - i + 1
        BY <2>1
    <3>2. Len(v) = Len(s) - i
        BY <2>1
    <3> HIDE DEF w, v
    <3>3. Len(w) # 0
        BY <2>1, <3>1
    <3> QED
        BY <3>1, <3>2, <3>3
  <2>3. Head(w) = e /\ Tail(w) = v
    <3>1. Head(w) = e
        BY <2>1
    <3>2. Len(Tail(w)) = Len(v)
      <4> HIDE DEF v, w
      <4> QED
          BY <2>1, <2>2, <2>8
    <3>3. ASSUME NEW j \in 1..Len(v) PROVE Tail(w)[j] = v[j]
      <4>1. j + 1 \in 1..Len(w) /\ i + j \in 1..Len(s) /\ j \in Nat /\ i \in Nat
        <5> HIDE DEF v, w
        <5> QED
            BY <2>1, <2>8, <3>3
      <4>2. v[j] = s[i + j]
          BY <2>1, <2>8, <3>3, <4>1
      <4>3. w[j + 1] = s[i + j]
          BY <2>1, <2>8, <4>1
      <4> HIDE DEF v, w
      <4>4. Tail(w)[j] = w[j + 1]
          BY <2>2, <2>8, <3>3, <4>1
      <4> QED
          BY <4>2, <4>3, <4>4
    <3>4. Tail(w) \in Seq(Events)
        BY <2>2, <2>8
    <3> HIDE DEF v, w
    <3>5. Tail(w) = v
        BY <2>2, <3>2, <3>3, <3>4, SeqEqual
    <3> QED
        BY <3>1, <3>5
  <2>4. /\ Elems(s) = Elems(u) \cup Elems(w) /\ Distinct(u) /\ Distinct(w)
        /\ Elems(u) \cap Elems(w) = {}
      BY <2>0, SplitElems
  <2>5. Without(s, e) = u \o v
      BY <1>2 DEF Without, i
  <2> HIDE DEF u, v, w
  <2>6. Elems(w) = Elems(v) \cup {e} /\ Distinct(v) /\ e \notin Elems(v)
      BY <2>2, <2>3, <2>4, <2>8, TailElems
  <2>7. Elems(u \o v) = Elems(u) \cup Elems(v) /\ Distinct(u \o v)
      BY <2>2, <2>4, <2>6, ConcatElems
  <2> QED
      BY <2>4, <2>5, <2>6, <2>7
<1> QED
    BY <1>1, <1>2

\* A batch in the order of created_at.
LEMMA SortedElems ==
    ASSUME NEW s \in Seq(Events), NEW t \in Sorted(s)
    PROVE  Elems(t) = Elems(s) /\ (Distinct(s) => Distinct(t))
<1>1. Elems(t) = Elems(s) /\ t \in [1..Len(s) -> Elems(s)]
    BY DEF Sorted
<1>2. ASSUME Distinct(s), NEW i \in 1..Len(s), NEW j \in 1..Len(s), i < j, t[i] = t[j]
      PROVE  FALSE
  <2>1. t[i] \in Events
      BY <1>1 DEF Elems
  <2>2. CreatedAt[t[i]] \in Nat
      BY <2>1, QueueAssumption
  <2>3. ~ (CreatedAt[t[i]] < CreatedAt[t[j]])
      BY <1>2, <2>2
  <2>4. \E m, n \in 1..Len(s) : m < n /\ s[m] = t[i] /\ s[n] = t[j]
      BY <1>2, <2>3 DEF Sorted
  <2> QED
      BY <1>2, <2>4 DEF Distinct
<1>3. ASSUME Distinct(s) PROVE Distinct(t)
    BY <1>1, <1>2, <1>3 DEF Distinct
<1> QED
    BY <1>1, <1>3

-----------------------------------------------------------------------------
(* Places.                                                                 *)

\* What the places are, and what is there.
LEMMA PlaceKinds ==
    /\ \A c \in Channels : <<"queue", c>> \in Places /\ <<"withheld", c>> \in Places
                           /\ <<"cancelled", c>> \in Places
    /\ \A a \in Agents : <<"events", a>> \in Places /\ <<"merged", a>> \in Places
    /\ \A p \in Places : \/ \E c \in Channels : \/ p = <<"queue", c>> \/ p = <<"withheld", c>>
                                                \/ p = <<"cancelled", c>>
                         \/ \E a \in Agents : p = <<"events", a>> \/ p = <<"merged", a>>
BY DEF Places

\* The sequence and the channel of each place.
LEMMA AtPlaces ==
    /\ \A c : /\ At(<<"queue", c>>) = queues[c] /\ At(<<"withheld", c>>) = withheld[c]
              /\ At(<<"cancelled", c>>) = cancelled[c]
    /\ \A a : /\ At(<<"events", a>>) = (IF HeldBatch(a) THEN tasks[a].events ELSE <<>>)
              /\ At(<<"merged", a>>) = (IF HeldBatch(a) THEN tasks[a].merged ELSE <<>>)
    /\ \A c : /\ ChannelAt(<<"queue", c>>) = c /\ ChannelAt(<<"withheld", c>>) = c
              /\ ChannelAt(<<"cancelled", c>>) = c
    /\ \A a : ChannelAt(<<"events", a>>) = tasks[a].channel /\ ChannelAt(<<"merged", a>>) = tasks[a].channel
BY DEF At, ChannelAt

\* The same in the next state.
LEMMA AtPlacesPrime ==
    /\ \A c : /\ At(<<"queue", c>>)' = queues'[c] /\ At(<<"withheld", c>>)' = withheld'[c]
              /\ At(<<"cancelled", c>>)' = cancelled'[c]
    /\ \A a : /\ At(<<"events", a>>)' = (IF HeldBatch(a)' THEN tasks'[a].events ELSE <<>>)
              /\ At(<<"merged", a>>)' = (IF HeldBatch(a)' THEN tasks'[a].merged ELSE <<>>)
    /\ \A c : /\ ChannelAt(<<"queue", c>>)' = c /\ ChannelAt(<<"withheld", c>>)' = c
              /\ ChannelAt(<<"cancelled", c>>)' = c
    /\ \A a : ChannelAt(<<"events", a>>)' = tasks'[a].channel /\ ChannelAt(<<"merged", a>>)' = tasks'[a].channel
BY DEF At, ChannelAt

\* Every place holds a sequence of events.
LEMMA AtType ==
    ASSUME QueueTypeOK, NEW p \in Places
    PROVE  At(p) \in Seq(Events)
<1>0. StoresOK /\ AgentsOK
    BY TypeParts
<1>1. \A a \in Agents : tasks[a].events \in Seq(Events) /\ tasks[a].merged \in Seq(Events)
    BY <1>0 DEF AgentsOK, Tasks
<1>2. <<>> \in Seq(Events)
    OBVIOUS
<1>3. CASE \E c \in Channels : p = <<"queue", c>> \/ p = <<"withheld", c>> \/ p = <<"cancelled", c>>
    BY <1>0, <1>3, AtPlaces DEF StoresOK
<1>4. CASE \E a \in Agents : p = <<"events", a>> \/ p = <<"merged", a>>
  <2>1. PICK a \in Agents : p = <<"events", a>> \/ p = <<"merged", a>>
      BY <1>4
  <2>2. At(p) = tasks[a].events \/ At(p) = tasks[a].merged \/ At(p) = <<>>
      BY <2>1, AtPlaces
  <2> QED
      BY <1>1, <1>2, <2>2
<1> QED
    BY <1>3, <1>4, PlaceKinds

\* Only events are carried.
LEMMA CarriedType ==
    ASSUME QueueTypeOK, NEW c, NEW e, Carried(c, e)
    PROVE  e \in Events
<1>1. AgentsOK
    BY TypeParts
<1>2. \A a \in Agents : Elems(tasks[a].steers) \subseteq Events
    BY <1>1, SeqTypes DEF AgentsOK, Tasks
<1> QED
    BY <1>1, <1>2 DEF Carried, AgentsOK, Acks

\* The invariant after a step, from where events are, what was settled and
\* who carries what.
LEMMA PlaceStep ==
    ASSUME PlaceInv, QueueTypeOK, QueueTypeOK', SteersRunning', OneCarrier', Apart',
           next <= next', lapsed \subseteq lapsed',
           \A p \in Places : \A e \in Elems(At(p)') :
               \/ e = next /\ next < next'
               \/ \E q \in Places :
                     /\ e \in Elems(At(q)) /\ ChannelAt(p)' = ChannelAt(q)
                     /\ \/ p = q
                        \/ p[1] # "withheld" /\ q[1] # "withheld"
                        \/ p[1] # "withheld" /\ ChannelAt(q) \in lapsed'
                        \/ p[1] # "withheld" /\ e \notin settled' /\ \A c : ~ Carried(c, e)',
           \A e \in settled' \ settled :
               /\ e < next'
               /\ \A p \in Places : e \in Elems(At(p)') =>
                     \/ p[1] # "withheld" /\ ChannelAt(p)' \in lapsed'
                     \/ \E c \in Channels : p = Withheld(c) /\ Succeeds(c, e)',
           \A c, e : Carried(c, e)' =>
               \/ Carried(c, e)
               \/ e = next /\ next < next' /\ \A p \in Places : e \in Elems(At(p)') => p = Withheld(c),
           \A c \in Channels : \A e \in Elems(withheld'[c]) :
               /\ e = next \/ Carried(c, e) => Carried(c, e)'
               /\ Succeeds(c, e) => Succeeds(c, e)'
    PROVE  PlaceInv'
<1>0. /\ Arrived /\ Unsettled /\ CarriedIsWithheld /\ WithheldIsCarried
      /\ \A c : Withheld(c) = <<"withheld", c>>
    BY DEF PlaceInv, Withheld
<1>1. Events \subseteq Nat /\ next \in Nat /\ next' \in Nat /\ settled \subseteq Events
    BY QueueAssumption DEF Events, QueueTypeOK
<1>2. \A p \in Places : \A e \in Elems(At(p)) : e \in Nat /\ e < next
    BY <1>0, <1>1, AtType, SeqTypes DEF Arrived
<1>3. \A c, e : Carried(c, e) => e \in Nat /\ e < next
    BY <1>0, <1>1, CarriedType DEF Arrived
<1>4. \A e \in settled : e \in Nat /\ e < next
    BY <1>0, <1>1 DEF Arrived
<1>5. Arrived'
  <2>1. \A p \in Places : \A e \in Elems(At(p)') : e < next'
      BY <1>1, <1>2
  <2>2. ASSUME NEW e \in settled' PROVE e < next'
    <3>1. CASE e \in settled
        BY <1>1, <1>4, <3>1
    <3> QED
        BY <3>1
  <2>3. \A c, e : Carried(c, e)' => e < next'
      BY <1>1, <1>3
  <2> QED
      BY <2>1, <2>2, <2>3 DEF Arrived
<1>6. Unsettled'
  <2> SUFFICES ASSUME NEW p \in Places, p[1] # "withheld", ChannelAt(p)' \notin lapsed',
                      NEW e \in Elems(At(p)'), e \in settled'
               PROVE  FALSE
      BY DEF Unsettled
  <2>1. e \in settled
    <3>1. \A c : p # Withheld(c)
        BY <1>0
    <3> QED
        BY <3>1
  <2>2. e # next
      BY <1>1, <1>4, <2>1
  <2>3. PICK q \in Places : /\ e \in Elems(At(q)) /\ ChannelAt(p)' = ChannelAt(q)
                            /\ p = q \/ q[1] # "withheld"
      BY <2>2
  <2> QED
      BY <1>0, <2>1, <2>3 DEF Unsettled
<1>7. CarriedIsWithheld'
  <2> SUFFICES ASSUME NEW c, NEW e, Carried(c, e)', NEW p \in Places, e \in Elems(At(p)')
               PROVE  ChannelAt(p)' = c /\ (p = Withheld(c) \/ c \in lapsed')
      BY DEF CarriedIsWithheld, Withheld
  <2>1. CASE p = Withheld(c)
      BY <1>0, <2>1, AtPlacesPrime
  <2>2. CASE p # Withheld(c)
    <3>1. Carried(c, e) /\ e # next
        BY <1>1, <1>3, <2>2
    <3>2. PICK q \in Places :
             /\ e \in Elems(At(q)) /\ ChannelAt(p)' = ChannelAt(q)
             /\ p = q \/ q[1] # "withheld" \/ ChannelAt(q) \in lapsed'
        BY <3>1
    <3>3. ChannelAt(q) = c /\ (q = Withheld(c) \/ c \in lapsed)
        BY <1>0, <3>1, <3>2 DEF CarriedIsWithheld
    <3> QED
        BY <1>0, <2>2, <3>2, <3>3
  <2> QED
      BY <2>1, <2>2
<1>8. WithheldIsCarried'
  <2> SUFFICES ASSUME NEW c \in Channels, NEW e \in Elems(withheld'[c])
               PROVE  Carried(c, e)' /\ (e \in settled' => Succeeds(c, e)')
      BY DEF WithheldIsCarried
  <2>1. Withheld(c) \in Places /\ e \in Elems(At(Withheld(c))') /\ ChannelAt(Withheld(c))' = c
      BY <1>0, PlaceKinds, AtPlacesPrime
  <2>2. e = next \/ e \in Elems(withheld[c])
    <3>1. ASSUME e # next PROVE e \in Elems(At(Withheld(c)))
        BY <1>0, <2>1, <3>1
    <3> QED
        BY <1>0, <3>1, AtPlaces
  <2>3. Carried(c, e)'
      BY <1>0, <2>2 DEF WithheldIsCarried
  <2>4. ASSUME e \in settled' PROVE Succeeds(c, e)'
    <3>1. CASE e \in settled
      <4>1. e \in Elems(withheld[c])
          BY <1>1, <1>4, <2>2, <3>1
      <4>2. Succeeds(c, e)
          BY <1>0, <3>1, <4>1 DEF WithheldIsCarried
      <4> QED
          BY <4>2
    <3>2. CASE e \notin settled
      <4>1. \E d \in Channels : Withheld(c) = Withheld(d) /\ Succeeds(d, e)'
          BY <1>0, <2>1, <2>4, <3>2
      <4> QED
          BY <1>0, <4>1
    <3> QED
        BY <3>1, <3>2
  <2> QED
      BY <2>3, <2>4
<1> QED
    BY <1>5, <1>6, <1>7, <1>8 DEF PlaceInv

\* Steer requests and their answers are left alone.
LEMMA SameCarriers ==
    ASSUME SteersRunning, OneCarrier, acks' = acks,
           \A a \in Agents : /\ tasks'[a].steers = tasks[a].steers
                             /\ tasks[a].steers # <<>> =>
                                   tasks'[a].channel = tasks[a].channel /\ tasks'[a].phase = tasks[a].phase
    PROVE  /\ SteersRunning' /\ OneCarrier'
           /\ \A c, e : (Carried(c, e)' <=> Carried(c, e)) /\ (Succeeds(c, e)' <=> Succeeds(c, e))
<1>1. SteersRunning'
    BY DEF SteersRunning
<1>2. OneCarrier'
    BY DEF OneCarrier
<1>3. \A a \in Agents : \A e \in Elems(tasks[a].steers) : tasks[a].steers # <<>>
    BY DEF Elems
<1>4. ASSUME NEW c, NEW e PROVE Carried(c, e)' <=> Carried(c, e)
    BY <1>3 DEF Carried
<1>5. \A c, e : Succeeds(c, e)' <=> Succeeds(c, e)
    BY DEF Succeeds
<1> QED
    BY <1>1, <1>2, <1>4, <1>5

\* Events move between the places of S, and those of N appear there.
LEMMA MoveApart ==
    ASSUME Apart, NEW S \in SUBSET Places, NEW N,
           \A p \in Places : Elems(At(p)) \cap N = {},
           \A p \in Places \ S : At(p)' = At(p),
           \A p \in S : /\ Distinct(At(p)')
                        /\ \A e \in Elems(At(p)') : e \in N \/ \E q \in S : e \in Elems(At(q)),
           \A p, q \in S : p # q => Elems(At(p)') \cap Elems(At(q)') = {}
    PROVE  Apart'
<1>1. \A p \in Places : Distinct(At(p)')
    BY DEF Apart
<1>2. ASSUME NEW p \in S, NEW q \in Places \ S PROVE Elems(At(p)') \cap Elems(At(q)') = {}
  <2> SUFFICES ASSUME NEW e \in Elems(At(p)'), e \in Elems(At(q)) PROVE FALSE
      OBVIOUS
  <2>1. e \notin N
      OBVIOUS
  <2>2. PICK r \in S : e \in Elems(At(r))
      BY <2>1
  <2> QED
      BY <2>2 DEF Apart
<1>3. ASSUME NEW p \in Places, NEW q \in Places, p # q
      PROVE  Elems(At(p)') \cap Elems(At(q)') = {}
  <2>1. CASE p \in S /\ q \in S
      BY <1>3, <2>1
  <2>2. CASE p \in S /\ q \notin S
      BY <1>2, <2>2
  <2>3. CASE p \notin S /\ q \in S
      BY <1>2, <2>3
  <2>4. CASE p \notin S /\ q \notin S
      BY <1>3, <2>4 DEF Apart
  <2> QED
      BY <2>1, <2>2, <2>3, <2>4
<1> QED
    BY <1>1, <1>3 DEF Apart

\* A step after which no place has an event it did not have.
LEMMA ShrinkStep ==
    ASSUME PlaceInv, QueueTypeOK, QueueTypeOK', SteersRunning', OneCarrier',
           next <= next', lapsed \subseteq lapsed',
           \A p \in Places : /\ Distinct(At(p)')
                             /\ \A e \in Elems(At(p)') : e \in Elems(At(p)) /\ ChannelAt(p)' = ChannelAt(p),
           \A e \in settled' \ settled :
               /\ e < next'
               /\ \A p \in Places : e \in Elems(At(p)') =>
                     \/ p[1] # "withheld" /\ ChannelAt(p)' \in lapsed'
                     \/ \E c \in Channels : p = Withheld(c) /\ Succeeds(c, e)',
           \A c, e : Carried(c, e)' => Carried(c, e),
           \A c \in Channels : \A e \in Elems(withheld'[c]) :
               (Carried(c, e) => Carried(c, e)') /\ (Succeeds(c, e) => Succeeds(c, e)')
    PROVE  PlaceInv'
<1>1. Apart'
    BY DEF PlaceInv, Apart
<1>2. Arrived /\ next \in Nat
    BY DEF PlaceInv, QueueTypeOK
<1>3. ASSUME NEW c \in Channels, NEW e \in Elems(withheld'[c]) PROVE e # next
  <2>1. <<"withheld", c>> \in Places /\ e \in Elems(At(<<"withheld", c>>)')
      BY PlaceKinds, AtPlacesPrime
  <2>2. e \in Elems(At(<<"withheld", c>>))
      BY <2>1
  <2>3. e < next
      BY <1>2, <2>1, <2>2 DEF Arrived
  <2> QED
      BY <1>2, <2>3
<1> QED
    BY <1>1, <1>3, PlaceStep

\* A step that leaves the places as they are and settles nothing.
LEMMA StillStep ==
    ASSUME PlaceInv, QueueTypeOK, QueueTypeOK', acks' = acks,
           \A a \in Agents : /\ tasks'[a].steers = tasks[a].steers
                             /\ tasks'[a].channel = tasks[a].channel /\ tasks'[a].phase = tasks[a].phase
                             /\ tasks'[a].events = tasks[a].events /\ tasks'[a].merged = tasks[a].merged
                             /\ tasks'[a].keep = tasks[a].keep,
           UNCHANGED <<queues, withheld, cancelled, settled, next, lapsed>>
    PROVE  PlaceInv'
<1>1. /\ SteersRunning' /\ OneCarrier'
      /\ \A c, e : (Carried(c, e)' <=> Carried(c, e)) /\ (Succeeds(c, e)' <=> Succeeds(c, e))
    BY SameCarriers DEF PlaceInv
<1>2. \A a \in Agents : HeldBatch(a)' = HeldBatch(a)
    BY DEF HeldBatch
<1>3. \A p \in Places : At(p)' = At(p) /\ ChannelAt(p)' = ChannelAt(p)
  <2> SUFFICES ASSUME NEW p \in Places PROVE At(p)' = At(p) /\ ChannelAt(p)' = ChannelAt(p)
      OBVIOUS
  <2>1. CASE \E c \in Channels : p = <<"queue", c>> \/ p = <<"withheld", c>> \/ p = <<"cancelled", c>>
      BY <2>1, AtPlaces, AtPlacesPrime
  <2>2. CASE \E a \in Agents : p = <<"events", a>> \/ p = <<"merged", a>>
      BY <1>2, <2>2, AtPlaces, AtPlacesPrime
  <2> QED
      BY <2>1, <2>2, PlaceKinds
<1>4. next <= next'
    BY DEF QueueTypeOK
<1>5. \A p \in Places : /\ Distinct(At(p)')
                        /\ \A e \in Elems(At(p)') : e \in Elems(At(p)) /\ ChannelAt(p)' = ChannelAt(p)
    BY <1>3 DEF PlaceInv, Apart
<1> QED
    BY <1>1, <1>4, <1>5, ShrinkStep

\* A step that leaves the batch of an agent as it is.
SameBatch(b) ==
    /\ tasks'[b].channel = tasks[b].channel /\ tasks'[b].phase = tasks[b].phase
    /\ tasks'[b].keep = tasks[b].keep
    /\ tasks'[b].events = tasks[b].events /\ tasks'[b].merged = tasks[b].merged

\* A place stays as it is where neither the stores of a channel nor the batch
\* of an agent change.
LEMMA StaysPut ==
    ASSUME NEW p \in Places,
           p[1] \notin {"events", "merged"} =>
               /\ queues'[p[2]] = queues[p[2]] /\ withheld'[p[2]] = withheld[p[2]]
               /\ cancelled'[p[2]] = cancelled[p[2]],
           p[1] \in {"events", "merged"} => SameBatch(p[2])
    PROVE  At(p)' = At(p) /\ ChannelAt(p)' = ChannelAt(p)
<1>1. ASSUME NEW c \in Channels, p = <<"queue", c>> \/ p = <<"withheld", c>> \/ p = <<"cancelled", c>>
      PROVE  At(p)' = At(p) /\ ChannelAt(p)' = ChannelAt(p)
    BY <1>1, AtPlaces, AtPlacesPrime
<1>2. ASSUME NEW a \in Agents, p = <<"events", a>> \/ p = <<"merged", a>>
      PROVE  At(p)' = At(p) /\ ChannelAt(p)' = ChannelAt(p)
  <2>1. SameBatch(a)
      BY <1>2
  <2>2. HeldBatch(a)' = HeldBatch(a)
      BY <2>1 DEF HeldBatch, SameBatch
  <2> QED
      BY <1>2, <2>1, <2>2, AtPlaces, AtPlacesPrime DEF SameBatch
<1> QED
    BY <1>1, <1>2, PlaceKinds

\* Nothing moves outside the stores of channel c and the batch of agent a.
LEMMA ElsewhereTurn ==
    ASSUME NEW c, NEW a,
           \A d \in Channels : d # c => /\ queues'[d] = queues[d] /\ withheld'[d] = withheld[d]
                                        /\ cancelled'[d] = cancelled[d],
           \A b \in Agents : b # a => SameBatch(b)
    PROVE  \A p \in Places :
               /\ p # <<"queue", c>> /\ p # <<"withheld", c>> /\ p # <<"cancelled", c>>
               /\ p # <<"events", a>> /\ p # <<"merged", a>>
               => At(p)' = At(p) /\ ChannelAt(p)' = ChannelAt(p)
<1> SUFFICES ASSUME NEW p \in Places,
                    p # <<"queue", c>>, p # <<"withheld", c>>, p # <<"cancelled", c>>,
                    p # <<"events", a>>, p # <<"merged", a>>
             PROVE  At(p)' = At(p) /\ ChannelAt(p)' = ChannelAt(p)
    OBVIOUS
<1>1. CASE \E d \in Channels : p = <<"queue", d>> \/ p = <<"withheld", d>> \/ p = <<"cancelled", d>>
  <2>1. p[1] \notin {"events", "merged"} /\ p[2] \in Channels /\ p[2] # c
      BY <1>1
  <2> QED
      BY <2>1, StaysPut
<1>2. CASE \E b \in Agents : p = <<"events", b>> \/ p = <<"merged", b>>
  <2>1. p[1] \in {"events", "merged"} /\ p[2] \in Agents /\ p[2] # a
      BY <1>2
  <2> QED
      BY <2>1, StaysPut
<1> QED
    BY <1>1, <1>2, PlaceKinds

\* Nothing moves outside the stores of channel c.
LEMMA ElsewhereStores ==
    ASSUME NEW c,
           \A d \in Channels : d # c => /\ queues'[d] = queues[d] /\ withheld'[d] = withheld[d]
                                        /\ cancelled'[d] = cancelled[d],
           \A b \in Agents : SameBatch(b)
    PROVE  \A p \in Places :
               p # <<"queue", c>> /\ p # <<"withheld", c>> /\ p # <<"cancelled", c>>
               => At(p)' = At(p) /\ ChannelAt(p)' = ChannelAt(p)
<1> SUFFICES ASSUME NEW p \in Places,
                    p # <<"queue", c>>, p # <<"withheld", c>>, p # <<"cancelled", c>>
             PROVE  At(p)' = At(p) /\ ChannelAt(p)' = ChannelAt(p)
    OBVIOUS
<1>1. CASE \E d \in Channels : p = <<"queue", d>> \/ p = <<"withheld", d>> \/ p = <<"cancelled", d>>
  <2>1. p[1] \notin {"events", "merged"} /\ p[2] \in Channels /\ p[2] # c
      BY <1>1
  <2> QED
      BY <2>1, StaysPut
<1>2. CASE \E b \in Agents : p = <<"events", b>> \/ p = <<"merged", b>>
  <2>1. p[1] \in {"events", "merged"} /\ p[2] \in Agents
      BY <1>2
  <2> QED
      BY <2>1, StaysPut
<1> QED
    BY <1>1, <1>2, PlaceKinds

\* Nothing moves where no store changes outside the batch of agent a.
LEMMA ElsewhereBatch ==
    ASSUME NEW a, queues' = queues, withheld' = withheld, cancelled' = cancelled,
           \A b \in Agents : b # a => SameBatch(b)
    PROVE  \A p \in Places : p # <<"events", a>> /\ p # <<"merged", a>>
               => At(p)' = At(p) /\ ChannelAt(p)' = ChannelAt(p)
<1> SUFFICES ASSUME NEW p \in Places, p # <<"events", a>>, p # <<"merged", a>>
             PROVE  At(p)' = At(p) /\ ChannelAt(p)' = ChannelAt(p)
    OBVIOUS
<1>1. CASE \E b \in Agents : p = <<"events", b>> \/ p = <<"merged", b>>
  <2>1. p[1] \in {"events", "merged"} /\ p[2] \in Agents /\ p[2] # a
      BY <1>1
  <2> QED
      BY <2>1, StaysPut
<1>2. CASE \E d \in Channels : p = <<"queue", d>> \/ p = <<"withheld", d>> \/ p = <<"cancelled", d>>
  <2>1. p[1] \notin {"events", "merged"}
      BY <1>2
  <2> QED
      BY <2>1, StaysPut
<1> QED
    BY <1>1, <1>2, PlaceKinds

\* The stores of a channel have no event in common, nor twice.
LEMMA StoresApart ==
    ASSUME Apart, NEW c \in Channels
    PROVE  /\ Distinct(queues[c]) /\ Distinct(withheld[c]) /\ Distinct(cancelled[c])
           /\ Elems(queues[c]) \cap Elems(withheld[c]) = {}
           /\ Elems(queues[c]) \cap Elems(cancelled[c]) = {}
           /\ Elems(withheld[c]) \cap Elems(cancelled[c]) = {}
<1> DEFINE q == <<"queue", c>>
           w == <<"withheld", c>>
           x == <<"cancelled", c>>
<1>1. /\ q \in Places /\ w \in Places /\ x \in Places /\ q # w /\ q # x /\ w # x
    BY PlaceKinds
<1>2. At(q) = queues[c] /\ At(w) = withheld[c] /\ At(x) = cancelled[c]
    BY AtPlaces
<1> HIDE DEF q, w, x
<1> QED
    BY <1>1, <1>2 DEF Apart

\* Nor has the batch of a turn one in common with them.
LEMMA BatchApart ==
    ASSUME Apart, NEW a \in Agents, HeldBatch(a), NEW c \in Channels
    PROVE  /\ Distinct(tasks[a].events) /\ Distinct(tasks[a].merged)
           /\ Elems(tasks[a].events) \cap Elems(tasks[a].merged) = {}
           /\ Elems(queues[c]) \cap Elems(tasks[a].events) = {}
           /\ Elems(cancelled[c]) \cap Elems(tasks[a].events) = {}
           /\ Elems(cancelled[c]) \cap Elems(tasks[a].merged) = {}
<1> DEFINE q == <<"queue", c>>
           x == <<"cancelled", c>>
           e == <<"events", a>>
           m == <<"merged", a>>
<1>1. /\ q \in Places /\ e \in Places /\ m \in Places /\ x \in Places
      /\ q # e /\ x # e /\ x # m /\ e # m
    BY PlaceKinds
<1>2. At(q) = queues[c] /\ At(x) = cancelled[c] /\ At(e) = tasks[a].events /\ At(m) = tasks[a].merged
    BY AtPlaces
<1> HIDE DEF q, x, e, m
<1> QED
    BY <1>1, <1>2 DEF Apart

\* A signal leaves batches and steer requests alone.
LEMMA SignalBatch ==
    ASSUME AgentsOK, NEW c, NEW sig, Signal(c, sig)
    PROVE  \A a \in Agents : SameBatch(a) /\ tasks'[a].steers = tasks[a].steers
<1>1. CASE TasksOf(c) = {}
    BY <1>1 DEF Signal, SameBatch
<1>2. CASE TasksOf(c) # {}
  <2>1. PICK b \in TasksOf(c) : tasks' = [tasks EXCEPT ![b].ctl = IF @ = "open" THEN sig ELSE @]
      BY <1>2 DEF Signal
  <2>2. \A a \in Agents : tasks[a] \in Tasks
      BY DEF AgentsOK
  <2> QED
      BY <2>1, <2>2 DEF AgentsOK, Tasks, SameBatch
<1> QED
    BY <1>1, <1>2

\* The place made for an arriving event.
LEMMA RoomElems ==
    ASSUME StoresOK, NEW c \in Channels, Distinct(queues[c]), Accepted(c)
    PROVE  /\ Room(c) \in Seq(Events) /\ Distinct(Room(c)) /\ Elems(Room(c)) \subseteq Elems(queues[c])
           /\ \A e \in settled' \ settled : e \in Elems(queues[c]) /\ e \notin Elems(Room(c))
<1>1. queues[c] \in Seq(Events)
    BY DEF StoresOK
<1>2. CASE Full(c)
  <2>1. queues[c] # <<>>
      BY <1>1, <1>2, QueueAssumption DEF Full
  <2>2. Room(c) = Tail(queues[c]) /\ settled' = settled \cup {Head(queues[c])}
      BY <1>2 DEF Room, Accepted
  <2>3. Tail(queues[c]) \in Seq(Events)
      BY <1>1, <2>1
  <2> QED
      BY <1>1, <2>1, <2>2, <2>3, TailElems
<1>3. CASE ~ Full(c)
    BY <1>1, <1>3 DEF Room, Accepted
<1> QED
    BY <1>2, <1>3

\* An arriving event is new.
LEMMA ArrivalFresh ==
    ASSUME PlaceInv, QueueTypeOK, NEW c \in Channels, Arrival(c)
    PROVE  /\ next \in Events /\ next \in Nat /\ next < next' /\ next <= next' /\ lapsed' = lapsed
           /\ cancelled' = cancelled /\ acks' = acks
           /\ \A p \in Places : next \notin Elems(At(p))
           /\ \A d, e : Carried(d, e) => e # next
<1>1. next \in Nat /\ next' = next + 1 /\ next \in Events
    BY QueueAssumption DEF Arrival, QueueTypeOK, Events
<1>2. lapsed' = lapsed /\ cancelled' = cancelled /\ acks' = acks
    BY DEF Arrival, config
<1>3. ~ (next < next)
    BY <1>1
<1>4. \A p \in Places : next \notin Elems(At(p))
    BY <1>3 DEF PlaceInv, Arrived
<1>5. \A d, e : Carried(d, e) => e # next
    BY <1>3 DEF PlaceInv, Arrived
<1> QED
    BY <1>1, <1>2, <1>4, <1>5

-----------------------------------------------------------------------------
(* Events from the relay. *)

\* An event refused in drop mode is settled at once.
LEMMA PushRefusedPlaces ==
    ASSUME PlaceInv, QueueTypeOK, QueueTypeOK', NEW c \in Channels, PushRefused(c)
    PROVE  PlaceInv'
<1>0. Arrival(c) /\ settled' = settled \cup {next} /\ UNCHANGED <<queues, withheld, tasks>>
    BY DEF PushRefused
<1>1. /\ next < next' /\ next <= next' /\ lapsed' = lapsed /\ cancelled' = cancelled /\ acks' = acks
      /\ \A p \in Places : next \notin Elems(At(p))
    BY <1>0, ArrivalFresh
<1>2. /\ SteersRunning' /\ OneCarrier'
      /\ \A d, e : (Carried(d, e)' <=> Carried(d, e)) /\ (Succeeds(d, e)' <=> Succeeds(d, e))
    BY <1>0, <1>1, SameCarriers DEF PlaceInv
<1>3. \A p \in Places : At(p)' = At(p) /\ ChannelAt(p)' = ChannelAt(p)
  <2>1. \A b \in Agents : SameBatch(b)
      BY <1>0 DEF SameBatch
  <2>2. UNCHANGED <<queues, withheld, cancelled>>
      BY <1>0, <1>1
  <2> QED
      BY <2>1, <2>2, StaysPut, PlaceKinds
<1>4. \A p \in Places : Distinct(At(p)')
    BY <1>3 DEF PlaceInv, Apart
<1>5. \A e \in settled' \ settled : e < next' /\ \A p \in Places : e \notin Elems(At(p)')
    BY <1>0, <1>1, <1>3
<1> QED
    BY <1>1, <1>2, <1>3, <1>4, <1>5, ShrinkStep

\* An event is queued, with or without a signal to the turn.
LEMMA PushAppendedPlaces ==
    ASSUME PlaceInv, QueueTypeOK, QueueTypeOK', NEW c \in Channels, Accepted(c),
           queues' = [queues EXCEPT ![c] = Append(Room(c), next)], withheld' = withheld,
           \A a \in Agents : SameBatch(a) /\ tasks'[a].steers = tasks[a].steers
    PROVE  PlaceInv'
<1>0. Arrival(c) /\ StoresOK /\ Apart
    BY TypeParts DEF Accepted, PlaceInv
<1>1. /\ next \in Events /\ next < next' /\ next <= next' /\ lapsed' = lapsed /\ cancelled' = cancelled
      /\ acks' = acks /\ next \in Nat
      /\ \A p \in Places : next \notin Elems(At(p))
    BY <1>0, ArrivalFresh
<1>2. /\ SteersRunning' /\ OneCarrier'
      /\ \A d, e : (Carried(d, e)' <=> Carried(d, e)) /\ (Succeeds(d, e)' <=> Succeeds(d, e))
    BY <1>1, SameCarriers DEF PlaceInv, SameBatch
<1> DEFINE q == <<"queue", c>>
<1>3. /\ q \in Places /\ q[1] = "queue" /\ At(q) = queues[c] /\ At(q)' = Append(Room(c), next)
      /\ ChannelAt(q) = c /\ ChannelAt(q)' = c
    BY <1>0, PlaceKinds, AtPlaces, AtPlacesPrime DEF StoresOK
<1>4. \A p \in Places : p # q => At(p)' = At(p) /\ ChannelAt(p)' = ChannelAt(p)
  <2>1. \A d \in Channels : d # c => queues'[d] = queues[d] /\ withheld'[d] = withheld[d]
                                     /\ cancelled'[d] = cancelled[d]
      BY <1>0, <1>1 DEF StoresOK
  <2>2. \A p \in Places : p # q /\ p # <<"withheld", c>> /\ p # <<"cancelled", c>>
            => At(p)' = At(p) /\ ChannelAt(p)' = ChannelAt(p)
      BY <2>1, ElsewhereStores
  <2>3. \A p : p = <<"withheld", c>> \/ p = <<"cancelled", c>>
            => At(p)' = At(p) /\ ChannelAt(p)' = ChannelAt(p)
      BY <1>1, AtPlaces, AtPlacesPrime
  <2> QED
      BY <2>2, <2>3
<1> HIDE DEF q
<1>5. /\ Room(c) \in Seq(Events) /\ Distinct(Room(c)) /\ Elems(Room(c)) \subseteq Elems(At(q))
      /\ \A e \in settled' \ settled : e \in Elems(At(q)) /\ e \notin Elems(Room(c))
    BY <1>0, <1>3, StoresApart, RoomElems
<1>6. Distinct(At(q)') /\ Elems(At(q)') = Elems(Room(c)) \cup {next}
    BY <1>1, <1>3, <1>5, AppendElems
<1>7. Apart'
  <2>1. /\ {q} \in SUBSET Places /\ \A p \in Places : Elems(At(p)) \cap {next} = {}
        /\ \A p \in Places \ {q} : At(p)' = At(p)
        /\ \A p \in {q} : /\ Distinct(At(p)')
                          /\ \A e \in Elems(At(p)') : e \in {next} \/ \E r \in {q} : e \in Elems(At(r))
        /\ \A p, r \in {q} : p # r => Elems(At(p)') \cap Elems(At(r)') = {}
      BY <1>1, <1>3, <1>4, <1>5, <1>6
  <2> QED
      BY <1>0, <2>1, MoveApart
<1>8. \A p \in Places : \A e \in Elems(At(p)') :
         \/ e = next /\ next < next'
         \/ \E r \in Places : e \in Elems(At(r)) /\ ChannelAt(p)' = ChannelAt(r) /\ p = r
    BY <1>1, <1>3, <1>4, <1>5, <1>6
<1>9. ASSUME NEW e \in settled' \ settled
      PROVE  e < next' /\ \A p \in Places : e \notin Elems(At(p)')
  <2>1. e \in Elems(At(q)) /\ e \notin Elems(Room(c))
      BY <1>5
  <2>2. e < next /\ e # next
      BY <1>1, <1>3, <2>1 DEF PlaceInv, Arrived
  <2>3. e \in Nat
      BY <1>0, <1>3, <2>1, SeqTypes DEF StoresOK, Events
  <2>4. \A p \in Places : p # q => e \notin Elems(At(p))
      BY <1>0, <1>3, <2>1 DEF Apart
  <2>5. next' \in Nat /\ e < next'
      BY <1>1, <2>2, <2>3 DEF QueueTypeOK
  <2> QED
      BY <1>4, <1>6, <2>1, <2>2, <2>4, <2>5
<1>10. ASSUME NEW d \in Channels, NEW e \in Elems(withheld'[d]) PROVE e # next
  <2>1. <<"withheld", d>> \in Places /\ At(<<"withheld", d>>) = withheld[d]
      BY PlaceKinds, AtPlaces
  <2> QED
      BY <1>1, <2>1
<1> QED
    BY <1>1, <1>2, <1>7, <1>8, <1>9, <1>10, PlaceStep

\* An event is withheld while a steer request carries it.
LEMMA PushSteeredPlaces ==
    ASSUME PlaceInv, QueueTypeOK, QueueTypeOK', NEW c \in Channels, NEW a \in Agents, PushSteered(c, a)
    PROVE  PlaceInv'
<1>0. Arrival(c) /\ Accepted(c) /\ StoresOK /\ AgentsOK /\ Apart /\ SteersRunning /\ OneCarrier
    BY TypeParts DEF PushSteered, Accepted, PlaceInv
<1>1. /\ next \in Events /\ next < next' /\ next <= next' /\ lapsed' = lapsed /\ cancelled' = cancelled
      /\ acks' = acks /\ next \in Nat
      /\ \A p \in Places : next \notin Elems(At(p))
      /\ \A d, e : Carried(d, e) => e # next
    BY <1>0, ArrivalFresh
<1>2. /\ tasks[a].phase = "running" /\ tasks[a].channel = c /\ tasks[a] \in Tasks
      /\ tasks' = [tasks EXCEPT ![a].steers = Append(@, next)]
      /\ withheld' = [withheld EXCEPT ![c] = Append(@, next)]
      /\ queues' = [queues EXCEPT ![c] = Room(c)]
    BY <1>0 DEF PushSteered, TasksOf, AgentsOK
<1>3. /\ \A b \in Agents : SameBatch(b) /\ (b # a => tasks'[b] = tasks[b])
      /\ tasks'[a].steers = Append(tasks[a].steers, next)
    BY <1>0, <1>2 DEF AgentsOK, Tasks, SameBatch
<1>4. tasks[a].steers \in Seq(Events)
    BY <1>2 DEF Tasks
<1>5. \A b \in Agents : next \notin Elems(tasks[b].steers)
    BY <1>1 DEF Carried
<1>6. \A k \in acks : next # k.event
    BY <1>1 DEF Carried
<1>7. /\ Elems(tasks'[a].steers) = Elems(tasks[a].steers) \cup {next}
      /\ Distinct(tasks'[a].steers)
    BY <1>0, <1>1, <1>3, <1>4, <1>5, AppendElems DEF OneCarrier
<1>8. SteersRunning'
    BY <1>0, <1>2, <1>3 DEF SteersRunning, SameBatch
<1>9. OneCarrier'
  <2>1. \A b \in Agents : Distinct(tasks'[b].steers)
      BY <1>0, <1>3, <1>7 DEF OneCarrier
  <2>2. \A b, d \in Agents : b # d => Elems(tasks'[b].steers) \cap Elems(tasks'[d].steers) = {}
    <3> SUFFICES ASSUME NEW b \in Agents, NEW d \in Agents, b # d
                 PROVE  Elems(tasks'[b].steers) \cap Elems(tasks'[d].steers) = {}
        OBVIOUS
    <3>1. Elems(tasks[b].steers) \cap Elems(tasks[d].steers) = {}
        BY <1>0 DEF OneCarrier
    <3>2. CASE b = a
        BY <1>3, <1>5, <1>7, <3>1, <3>2
    <3>3. CASE d = a
        BY <1>3, <1>5, <1>7, <3>1, <3>3
    <3>4. CASE b # a /\ d # a
        BY <1>3, <3>1, <3>4
    <3> QED
        BY <3>2, <3>3, <3>4
  <2>3. \A b \in Agents, k \in acks' : k.event \notin Elems(tasks'[b].steers)
      BY <1>0, <1>1, <1>3, <1>6, <1>7 DEF OneCarrier
  <2>4. \A k, l \in acks' : k.event = l.event => k = l
      BY <1>0, <1>1 DEF OneCarrier
  <2> QED
      BY <2>1, <2>2, <2>3, <2>4 DEF OneCarrier
<1>10. ASSUME NEW d, NEW e PROVE Carried(d, e)' <=> Carried(d, e) \/ (d = c /\ e = next)
  <2>1. \A b \in Agents : tasks'[b].channel = tasks[b].channel
      BY <1>3 DEF SameBatch
  <2>2. \A b \in Agents : b # a => Elems(tasks'[b].steers) = Elems(tasks[b].steers)
      BY <1>3
  <2> QED
      BY <1>1, <1>2, <1>7, <2>1, <2>2 DEF Carried
<1>11. \A d, e : Succeeds(d, e)' <=> Succeeds(d, e)
    BY <1>1 DEF Succeeds
<1> DEFINE q == <<"queue", c>>
           w == <<"withheld", c>>
<1>12. /\ q \in Places /\ At(q) = queues[c] /\ At(q)' = Room(c) /\ ChannelAt(q) = c /\ ChannelAt(q)' = c
       /\ w \in Places /\ At(w) = withheld[c] /\ At(w)' = Append(withheld[c], next)
       /\ ChannelAt(w) = c /\ ChannelAt(w)' = c /\ q # w
    BY <1>0, <1>2, PlaceKinds, AtPlaces, AtPlacesPrime DEF StoresOK
<1>13. \A p \in Places : p # q /\ p # w => At(p)' = At(p) /\ ChannelAt(p)' = ChannelAt(p)
  <2>1. \A d \in Channels : d # c => queues'[d] = queues[d] /\ withheld'[d] = withheld[d]
                                     /\ cancelled'[d] = cancelled[d]
      BY <1>0, <1>1, <1>2 DEF StoresOK
  <2>2. \A p \in Places : p # q /\ p # w /\ p # <<"cancelled", c>>
            => At(p)' = At(p) /\ ChannelAt(p)' = ChannelAt(p)
      BY <1>3, <2>1, ElsewhereStores
  <2>3. \A p : p = <<"cancelled", c>> => At(p)' = At(p) /\ ChannelAt(p)' = ChannelAt(p)
      BY <1>1, AtPlaces, AtPlacesPrime
  <2> QED
      BY <2>2, <2>3
<1>14. w = Withheld(c)
    BY DEF Withheld
<1> HIDE DEF q, w
<1>15. /\ Room(c) \in Seq(Events) /\ Distinct(Room(c)) /\ Elems(Room(c)) \subseteq Elems(At(q))
       /\ \A e \in settled' \ settled : e \in Elems(At(q)) /\ e \notin Elems(Room(c))
    BY <1>0, <1>12, StoresApart, RoomElems
<1>16. /\ Distinct(At(w)') /\ Elems(At(w)') = Elems(At(w)) \cup {next}
  <2>1. withheld[c] \in Seq(Events) /\ Distinct(withheld[c]) /\ next \notin Elems(withheld[c])
      BY <1>0, <1>1, <1>12, StoresApart DEF StoresOK
  <2> QED
      BY <1>1, <1>12, <2>1, AppendElems
<1>17. Elems(At(q)) \cap Elems(At(w)) = {} /\ next \notin Elems(At(q))
    BY <1>0, <1>1, <1>12 DEF Apart
<1>18. Apart'
  <2>1. /\ {q, w} \in SUBSET Places /\ \A p \in Places : Elems(At(p)) \cap {next} = {}
        /\ \A p \in Places \ {q, w} : At(p)' = At(p)
      BY <1>1, <1>12, <1>13
  <2>2. \A p \in {q, w} : /\ Distinct(At(p)')
                          /\ \A e \in Elems(At(p)') : e \in {next} \/ \E r \in {q, w} : e \in Elems(At(r))
      BY <1>12, <1>15, <1>16
  <2>3. \A p, r \in {q, w} : p # r => Elems(At(p)') \cap Elems(At(r)') = {}
      BY <1>12, <1>15, <1>16, <1>17
  <2> QED
      BY <1>0, <2>1, <2>2, <2>3, MoveApart
<1>19. \A p \in Places : \A e \in Elems(At(p)') :
         \/ e = next /\ next < next'
         \/ \E r \in Places : e \in Elems(At(r)) /\ ChannelAt(p)' = ChannelAt(r) /\ p = r
    BY <1>1, <1>12, <1>13, <1>15, <1>16
<1>20. ASSUME NEW e \in settled' \ settled
       PROVE  e < next' /\ \A p \in Places : e \notin Elems(At(p)')
  <2>1. e \in Elems(At(q)) /\ e \notin Elems(Room(c))
      BY <1>15
  <2>2. e < next /\ e # next
      BY <1>1, <1>12, <2>1 DEF PlaceInv, Arrived
  <2>3. e \in Nat
      BY <1>0, <1>12, <2>1, SeqTypes DEF StoresOK, Events
  <2>4. \A p \in Places : p # q => e \notin Elems(At(p))
      BY <1>0, <1>12, <2>1 DEF Apart
  <2>5. next' \in Nat /\ e < next'
      BY <1>1, <2>2, <2>3 DEF QueueTypeOK
  <2> QED
      BY <1>12, <1>13, <1>16, <2>1, <2>2, <2>4, <2>5
<1>21. \A p \in Places : next \in Elems(At(p)') => p = Withheld(c)
    BY <1>1, <1>12, <1>13, <1>14, <1>15, <1>17
<1>22. \A d, e : Carried(d, e)' =>
           \/ Carried(d, e)
           \/ e = next /\ next < next' /\ \A p \in Places : e \in Elems(At(p)') => p = Withheld(d)
    BY <1>1, <1>10, <1>21
<1>23. ASSUME NEW d \in Channels, NEW e \in Elems(withheld'[d]), e = next PROVE d = c
  <2>1. <<"withheld", d>> \in Places /\ At(<<"withheld", d>>)' = withheld'[d]
      BY PlaceKinds, AtPlacesPrime
  <2>2. <<"withheld", d>> = Withheld(c)
      BY <1>21, <1>23, <2>1
  <2> QED
      BY <2>2 DEF Withheld
<1>24. \A d \in Channels : \A e \in Elems(withheld'[d]) :
           /\ e = next \/ Carried(d, e) => Carried(d, e)'
           /\ Succeeds(d, e) => Succeeds(d, e)'
    BY <1>10, <1>11, <1>23
<1> QED
    BY <1>1, <1>8, <1>9, <1>18, <1>19, <1>20, <1>22, <1>24, PlaceStep

\* What is anywhere has arrived.
LEMMA AtArrived ==
    ASSUME PlaceInv, QueueTypeOK, NEW p \in Places, NEW e \in Elems(At(p))
    PROVE  e \in Nat /\ e < next
<1>1. At(p) \in Seq(Events)
    BY AtType
<1>2. e \in Nat
    BY <1>1, SeqTypes, QueueAssumption DEF Events
<1>3. e < next
    BY DEF PlaceInv, Arrived
<1> QED
    BY <1>2, <1>3

\* What was in a place and is settled there is in no other place.
LEMMA SettledHere ==
    ASSUME PlaceInv, QueueTypeOK, QueueTypeOK', next <= next', NEW S \in SUBSET Places,
           \A p \in Places \ S : At(p)' = At(p),
           NEW e, \E q \in S : e \in Elems(At(q)), \A p \in S : e \notin Elems(At(p)')
    PROVE  e < next' /\ \A p \in Places : e \notin Elems(At(p)')
<1>1. PICK q \in S : e \in Elems(At(q))
    OBVIOUS
<1>2. e \in Nat /\ e < next
    BY <1>1, AtArrived
<1>3. next \in Nat /\ next' \in Nat
    BY DEF QueueTypeOK
<1>4. e < next'
    BY <1>2, <1>3
<1>5. \A p \in Places : e \notin Elems(At(p)')
    BY <1>1 DEF PlaceInv, Apart
<1> QED
    BY <1>4, <1>5

\* The stores of a removed channel are emptied.
LEMMA RemoveChannelPlaces ==
    ASSUME PlaceInv, QueueTypeOK, QueueTypeOK', NEW c \in Channels, RemoveChannel(c)
    PROVE  PlaceInv'
<1>0. StoresOK /\ Apart /\ next \in Nat
    BY TypeParts DEF PlaceInv, QueueTypeOK
<1>1. /\ settled' = settled \cup Elems(queues[c]) \cup Elems(withheld[c]) \cup Elems(cancelled[c])
      /\ queues' = [queues EXCEPT ![c] = <<>>] /\ withheld' = [withheld EXCEPT ![c] = <<>>]
      /\ cancelled' = [cancelled EXCEPT ![c] = <<>>]
      /\ tasks' = tasks /\ acks' = acks /\ next' = next /\ lapsed' = lapsed
    BY DEF RemoveChannel, Command, config
<1>2. /\ SteersRunning' /\ OneCarrier'
      /\ \A d, e : (Carried(d, e)' <=> Carried(d, e)) /\ (Succeeds(d, e)' <=> Succeeds(d, e))
    BY <1>1, SameCarriers DEF PlaceInv
<1> DEFINE q == <<"queue", c>>
           w == <<"withheld", c>>
           x == <<"cancelled", c>>
<1>3. /\ q \in Places /\ w \in Places /\ x \in Places
      /\ At(q) = queues[c] /\ At(w) = withheld[c] /\ At(x) = cancelled[c]
      /\ At(q)' = <<>> /\ At(w)' = <<>> /\ At(x)' = <<>>
    BY <1>0, <1>1, PlaceKinds, AtPlaces, AtPlacesPrime DEF StoresOK
<1>4. \A p \in Places : p # q /\ p # w /\ p # x => At(p)' = At(p) /\ ChannelAt(p)' = ChannelAt(p)
  <2>1. \A d \in Channels : d # c => queues'[d] = queues[d] /\ withheld'[d] = withheld[d]
                                     /\ cancelled'[d] = cancelled[d]
      BY <1>0, <1>1 DEF StoresOK
  <2>2. \A b \in Agents : SameBatch(b)
      BY <1>1 DEF SameBatch
  <2> QED
      BY <2>1, <2>2, ElsewhereStores
<1> HIDE DEF q, w, x
<1>5. Elems(<<>>) = {} /\ Distinct(<<>>)
    BY DEF Elems, Distinct
<1>6. \A p \in Places : /\ Distinct(At(p)')
                        /\ \A e \in Elems(At(p)') : e \in Elems(At(p)) /\ ChannelAt(p)' = ChannelAt(p)
    BY <1>0, <1>3, <1>4, <1>5 DEF Apart
<1>7. ASSUME NEW e \in settled' \ settled
      PROVE  e < next' /\ \A p \in Places : e \notin Elems(At(p)')
  <2>1. /\ {q, w, x} \in SUBSET Places /\ \A p \in Places \ {q, w, x} : At(p)' = At(p)
        /\ \A p \in {q, w, x} : e \notin Elems(At(p)')
      BY <1>3, <1>4, <1>5
  <2>2. \E p \in {q, w, x} : e \in Elems(At(p))
      BY <1>1, <1>3
  <2>3. next <= next'
      BY <1>0, <1>1
  <2> QED
      BY <2>1, <2>2, <2>3, SettledHere
<1>8. next <= next' /\ lapsed \subseteq lapsed'
    BY <1>0, <1>1
<1> QED
    BY <1>2, <1>6, <1>7, <1>8, ShrinkStep

\* What the relay sends keeps the invariant.
LEMMA FromRelayPlaces ==
    ASSUME PlaceInv, QueueTypeOK, QueueTypeOK', FromRelay
    PROVE  PlaceInv'
<1>0. AgentsOK
    BY TypeParts
<1>1. PICK c \in Channels :
         \/ PushRefused(c) \/ PushQueued(c)
         \/ \E a \in Agents : PushSteered(c, a)
         \/ \E sig \in ModeGate : PushSignalled(c, sig)
         \/ \E sig \in Controls : Control(c, sig)
         \/ RemoveChannel(c) \/ AddChannel(c)
    BY DEF FromRelay
<1>2. CASE PushQueued(c)
  <2>1. \A a \in Agents : SameBatch(a) /\ tasks'[a].steers = tasks[a].steers
      BY <1>2 DEF PushQueued, SameBatch
  <2> QED
      BY <1>2, <2>1, PushAppendedPlaces DEF PushQueued
<1>3. ASSUME NEW sig \in ModeGate, PushSignalled(c, sig) PROVE PlaceInv'
  <2>1. \A a \in Agents : SameBatch(a) /\ tasks'[a].steers = tasks[a].steers
      BY <1>0, <1>3, SignalBatch DEF PushSignalled
  <2> QED
      BY <1>3, <2>1, PushAppendedPlaces DEF PushSignalled
<1>4. ASSUME NEW sig \in Controls, Control(c, sig) PROVE PlaceInv'
  <2>1. \A a \in Agents : SameBatch(a) /\ tasks'[a].steers = tasks[a].steers
      BY <1>0, <1>4, SignalBatch DEF Control
  <2>2. acks' = acks /\ UNCHANGED <<queues, withheld, cancelled, settled, next, lapsed>>
      BY <1>4 DEF Control, Command, stores, config
  <2> QED
      BY <2>1, <2>2, StillStep DEF SameBatch
<1>5. CASE AddChannel(c)
  <2>1. tasks' = tasks /\ acks' = acks /\ UNCHANGED <<queues, withheld, cancelled, settled, next, lapsed>>
      BY <1>5 DEF AddChannel, Command, stores, config
  <2> QED
      BY <2>1, StillStep
<1> QED
    BY <1>1, <1>2, <1>3, <1>4, <1>5, PushRefusedPlaces, PushSteeredPlaces, RemoveChannelPlaces

-----------------------------------------------------------------------------
(* The task that runs a turn.                                              *)

\* The requests of a that name the events of A are answered by r.
Answered(a, A, r) ==
    /\ tasks'[a].channel = tasks[a].channel
    /\ tasks'[a].phase = "running" \/ tasks'[a].steers = <<>>
    /\ \A b \in Agents : b # a => tasks'[b] = tasks[b]
    /\ Elems(tasks[a].steers) = Elems(tasks'[a].steers) \cup A
    /\ Elems(tasks'[a].steers) \cap A = {} /\ Distinct(tasks'[a].steers)
    /\ acks \subseteq acks'
    /\ \A k \in acks' \ acks : k.channel = tasks[a].channel /\ k.event \in A
    /\ \A k, l \in acks' \ acks : k.event = l.event => k = l
    /\ \A e \in A : \E k \in acks' : k.channel = tasks[a].channel /\ k.event = e /\ k.result = r

\* Requests of a turn are answered: the answers carry what the requests did.
LEMMA AnsweredCarriers ==
    ASSUME PlaceInv, QueueTypeOK, NEW a \in Agents, NEW A, NEW r, Answered(a, A, r)
    PROVE  /\ SteersRunning' /\ OneCarrier'
           /\ \A c, e : /\ Carried(c, e)' <=> Carried(c, e)
                        /\ Succeeds(c, e) => Succeeds(c, e)'
                        /\ c = tasks[a].channel /\ e \in A /\ r = "success" => Succeeds(c, e)'
<1> USE DEF Answered
<1>0. SteersRunning /\ OneCarrier
    BY DEF PlaceInv
<1>1. SteersRunning'
    BY <1>0 DEF SteersRunning
<1>2. \A k \in acks' : k \in acks \/ (k.channel = tasks[a].channel /\ k.event \in A)
    OBVIOUS
<1>5. \A k, l \in acks' : k.event = l.event => k = l
  <2>3. ASSUME NEW k \in acks, NEW l \in acks' \ acks PROVE k.event # l.event
      BY <1>0, <1>2 DEF OneCarrier
  <2>4. \A k, l \in acks : k.event = l.event => k = l
      BY <1>0 DEF OneCarrier
  <2> QED
      BY <2>3, <2>4
<1>6. \A b \in Agents, k \in acks' : k.event \notin Elems(tasks'[b].steers)
  <2>1. ASSUME NEW b \in Agents, NEW k \in acks PROVE k.event \notin Elems(tasks'[b].steers)
      BY <1>0 DEF OneCarrier
  <2>2. ASSUME NEW b \in Agents, NEW k \in acks', k.event \in A PROVE k.event \notin Elems(tasks'[b].steers)
      BY <1>0, <2>2 DEF OneCarrier
  <2> QED
      BY <1>2, <2>1, <2>2
<1>7. \A b \in Agents : Distinct(tasks'[b].steers)
    BY <1>0 DEF OneCarrier
<1>8. \A b, d \in Agents : b # d => Elems(tasks'[b].steers) \cap Elems(tasks'[d].steers) = {}
  <2>1. \A b \in Agents : Elems(tasks'[b].steers) \subseteq Elems(tasks[b].steers)
      OBVIOUS
  <2>2. \A b, d \in Agents : b # d => Elems(tasks[b].steers) \cap Elems(tasks[d].steers) = {}
      BY <1>0 DEF OneCarrier
  <2> HIDE <1>0
  <2> QED
      BY <2>1, <2>2
<1>9. OneCarrier'
    BY <1>5, <1>6, <1>7, <1>8 DEF OneCarrier
<1>10. \A b \in Agents : tasks'[b].channel = tasks[b].channel
    OBVIOUS
<1>11. ASSUME NEW c, NEW e, Carried(c, e)' PROVE Carried(c, e)
  <2>1. CASE \E b \in Agents : tasks'[b].channel = c /\ e \in Elems(tasks'[b].steers)
    <3>1. PICK b \in Agents : tasks'[b].channel = c /\ e \in Elems(tasks'[b].steers)
        BY <2>1
    <3>2. e \in Elems(tasks[b].steers) /\ tasks[b].channel = c
        BY <1>10, <3>1
    <3> QED
        BY <3>2 DEF Carried
  <2>2. CASE \E k \in acks' : k.channel = c /\ k.event = e
    <3>1. PICK k \in acks' : k.channel = c /\ k.event = e
        BY <2>2
    <3>2. CASE k \in acks
        BY <3>1, <3>2 DEF Carried
    <3>3. CASE k.channel = tasks[a].channel /\ k.event \in A
        BY <3>1, <3>3 DEF Carried
    <3> QED
        BY <1>2, <3>2, <3>3
  <2> QED
      BY <1>11, <2>1, <2>2 DEF Carried
<1>12. ASSUME NEW c, NEW e, Carried(c, e) PROVE Carried(c, e)'
  <2>1. CASE \E b \in Agents : tasks[b].channel = c /\ e \in Elems(tasks[b].steers)
    <3>1. PICK b \in Agents : tasks[b].channel = c /\ e \in Elems(tasks[b].steers)
        BY <2>1
    <3>2. CASE e \in Elems(tasks'[b].steers)
        BY <1>10, <3>1, <3>2 DEF Carried
    <3>3. CASE e \notin Elems(tasks'[b].steers)
      <4>1. b = a /\ e \in A
          BY <3>1, <3>3
      <4> QED
          BY <3>1, <4>1 DEF Carried
    <3> QED
        BY <3>2, <3>3
  <2>2. CASE \E k \in acks : k.channel = c /\ k.event = e
      BY <2>2 DEF Carried
  <2> QED
      BY <1>12, <2>1, <2>2 DEF Carried
<1>13. \A c, e : Succeeds(c, e) => Succeeds(c, e)'
    BY DEF Succeeds
<1>14. ASSUME NEW c, NEW e, c = tasks[a].channel, e \in A, r = "success" PROVE Succeeds(c, e)'
    BY <1>14 DEF Succeeds
<1> QED
    BY <1>1, <1>9, <1>11, <1>12, <1>13, <1>14

\* A request is answered; what it settles was withheld.
LEMMA AnswerSteerPlaces ==
    ASSUME PlaceInv, QueueTypeOK, QueueTypeOK', NEW a \in Agents,
           NEW r \in {"success", "fallback", "release"}, AnswerSteer(a, r)
    PROVE  PlaceInv'
<1>0. AgentsOK /\ OneCarrier /\ Apart /\ next \in Nat
    BY TypeParts DEF PlaceInv, QueueTypeOK
<1>a. PICK c, s, e : c = tasks[a].channel /\ s = tasks[a].steers /\ e = Head(s)
    OBVIOUS
<1>1. /\ tasks[a].phase = "running" /\ s # <<>>
      /\ acks' = acks \cup {[channel |-> c, event |-> e, result |-> r]}
      /\ settled' = IF r = "success" THEN settled \cup {e} ELSE settled
      /\ tasks' = [tasks EXCEPT ![a].steers = Tail(@)]
      /\ UNCHANGED <<queues, withheld, cancelled, next, lapsed>>
    BY <1>a DEF AnswerSteer, TaskStep, stores, config
<1>2. tasks[a] \in Tasks /\ s \in Seq(Events) /\ c \in Channels
  <2>1. tasks[a] \in Tasks /\ (c = NoChannel => s = <<>>)
      BY <1>0, <1>a DEF AgentsOK
  <2> QED
      BY <1>1, <1>a, <2>1 DEF Tasks
<1>3. /\ tasks'[a].steers = Tail(s) /\ tasks'[a].channel = c /\ tasks'[a].phase = "running"
      /\ \A b \in Agents : SameBatch(b) /\ (b # a => tasks'[b] = tasks[b])
    BY <1>0, <1>1, <1>2, <1>a DEF AgentsOK, Tasks, SameBatch
<1>4. /\ e \in Elems(s) /\ Elems(s) = Elems(Tail(s)) \cup {e} /\ Distinct(Tail(s))
      /\ e \notin Elems(Tail(s))
    BY <1>0, <1>1, <1>2, <1>a, TailElems DEF OneCarrier
<1>5. PICK A : A = {e}
    OBVIOUS
<1>b. /\ acks \subseteq acks'
      /\ \A k \in acks' \ acks : k.channel = tasks[a].channel /\ k.event \in A
      /\ \A k, l \in acks' \ acks : k.event = l.event => k = l
      /\ \A x \in A : \E k \in acks' : k.channel = tasks[a].channel /\ k.event = x /\ k.result = r
  <2> DEFINE k0 == [channel |-> c, event |-> e, result |-> r]
  <2>1. k0.channel = c /\ k0.event = e /\ k0.result = r /\ acks' = acks \cup {k0}
      BY <1>1
  <2> HIDE DEF k0
  <2> QED
      BY <1>5, <1>a, <2>1
<1>6. /\ SteersRunning' /\ OneCarrier'
      /\ \A d, x : /\ Carried(d, x)' <=> Carried(d, x)
                   /\ Succeeds(d, x) => Succeeds(d, x)'
                   /\ d = c /\ x \in A /\ r = "success" => Succeeds(d, x)'
  <2>1. /\ Elems(tasks[a].steers) = Elems(tasks'[a].steers) \cup A
        /\ Elems(tasks'[a].steers) \cap A = {} /\ Distinct(tasks'[a].steers)
      BY <1>3, <1>4, <1>5, <1>a
  <2>2. tasks'[a].phase = "running" \/ tasks'[a].steers = <<>>
      BY <1>3
  <2>3. Answered(a, A, r)
      BY <1>3, <1>a, <1>b, <2>1, <2>2 DEF Answered
  <2> QED
      BY <1>a, <2>3, AnsweredCarriers
<1>7. Carried(c, e)
    BY <1>4, <1>a DEF Carried
<1>8. \A p \in Places : At(p)' = At(p) /\ ChannelAt(p)' = ChannelAt(p)
    BY <1>1, <1>3, StaysPut, PlaceKinds
<1>9. \A p \in Places : /\ Distinct(At(p)')
                        /\ \A x \in Elems(At(p)') : x \in Elems(At(p)) /\ ChannelAt(p)' = ChannelAt(p)
    BY <1>0, <1>8 DEF Apart
<1>10. e < next' /\ next <= next' /\ lapsed \subseteq lapsed'
    BY <1>0, <1>1, <1>7 DEF PlaceInv, Arrived
<1>11. ASSUME NEW p \in Places, e \in Elems(At(p)'), r = "success"
       PROVE  \/ p[1] # "withheld" /\ ChannelAt(p)' \in lapsed'
              \/ \E d \in Channels : p = Withheld(d) /\ Succeeds(d, e)'
  <2>1. ChannelAt(p) = c /\ (p = Withheld(c) \/ c \in lapsed)
      BY <1>7, <1>8, <1>11 DEF PlaceInv, CarriedIsWithheld
  <2>2. Succeeds(c, e)'
      BY <1>5, <1>6, <1>11
  <2>3. CASE p[1] = "withheld"
    <3>1. PICK d \in Channels : p = <<"withheld", d>>
        BY <2>3, PlaceKinds
    <3>2. d = c
        BY <2>1, <3>1, AtPlaces
    <3> QED
        BY <1>2, <2>2, <3>1, <3>2 DEF Withheld
  <2>4. CASE p[1] # "withheld"
    <3>1. c \in lapsed
        BY <2>1, <2>4 DEF Withheld
    <3> QED
        BY <1>1, <1>8, <2>1, <2>4, <3>1
  <2> QED
      BY <2>3, <2>4
<1>12. \A x \in settled' \ settled : x = e /\ r = "success"
    BY <1>1
<1>13. \A x \in settled' \ settled :
          /\ x < next'
          /\ \A p \in Places : x \in Elems(At(p)') =>
                \/ p[1] # "withheld" /\ ChannelAt(p)' \in lapsed'
                \/ \E d \in Channels : p = Withheld(d) /\ Succeeds(d, x)'
    BY <1>10, <1>11, <1>12
<1> QED
    BY <1>6, <1>9, <1>10, <1>13, ShrinkStep

\* A turn ends: its requests are answered, and its batch is handed back or
\* settled.
LEMMA EndsPlaces ==
    ASSUME PlaceInv, QueueTypeOK, QueueTypeOK', NEW a \in Agents, NEW o, NEW keep \in BOOLEAN, Ends(a, o, keep),
           settled' = IF keep THEN settled ELSE settled \cup BatchOf(tasks[a])
    PROVE  PlaceInv'
<1>0. AgentsOK /\ OneCarrier /\ Apart /\ next \in Nat
    BY TypeParts DEF PlaceInv, QueueTypeOK
<1>1. /\ tasks[a].phase = "running" /\ tasks[a] \in Tasks
      /\ tasks' = [tasks EXCEPT ![a].phase = "ended", ![a].steers = <<>>,
                                ![a].outcome = o, ![a].keep = keep]
      /\ UNCHANGED <<queues, withheld, cancelled, next, lapsed>>
      /\ acks' = acks \cup {[channel |-> tasks[a].channel, event |-> e, result |-> "release"] :
                               e \in Elems(tasks[a].steers)}
    BY <1>0 DEF Ends, TaskStep, stores, config, AgentsOK
<1>2. /\ tasks'[a].steers = <<>> /\ tasks'[a].channel = tasks[a].channel /\ tasks'[a].phase = "ended"
      /\ tasks'[a].keep = keep /\ tasks'[a].events = tasks[a].events /\ tasks'[a].merged = tasks[a].merged
      /\ \A b \in Agents : b # a => SameBatch(b) /\ tasks'[b] = tasks[b]
    BY <1>0, <1>1 DEF AgentsOK, Tasks, SameBatch
<1>3. PICK A : A = Elems(tasks[a].steers)
    OBVIOUS
<1>4. /\ acks \subseteq acks'
      /\ \A k \in acks' \ acks : k.channel = tasks[a].channel /\ k.event \in A
      /\ \A k, l \in acks' \ acks : k.event = l.event => k = l
      /\ \A e \in A : \E k \in acks' : k.channel = tasks[a].channel /\ k.event = e /\ k.result = "release"
  <2>1. \A k \in acks' \ acks : \E e \in A : k = [channel |-> tasks[a].channel, event |-> e, result |-> "release"]
      BY <1>1, <1>3
  <2>2. ASSUME NEW e \in A
        PROVE  \E k \in acks' : k.channel = tasks[a].channel /\ k.event = e /\ k.result = "release"
    <3> DEFINE k == [channel |-> tasks[a].channel, event |-> e, result |-> "release"]
    <3>1. k \in acks' /\ k.channel = tasks[a].channel /\ k.event = e /\ k.result = "release"
        BY <1>1, <1>3
    <3> QED
        BY <3>1
  <2>3. acks \subseteq acks'
      BY <1>1
  <2> QED
      BY <2>1, <2>2, <2>3
<1>5. Elems(<<>>) = {} /\ Distinct(<<>>)
    BY DEF Elems, Distinct
<1>6. Answered(a, A, "release")
    BY <1>2, <1>3, <1>4, <1>5 DEF Answered
<1>7. /\ SteersRunning' /\ OneCarrier'
      /\ \A d, x : (Carried(d, x)' <=> Carried(d, x)) /\ (Succeeds(d, x) => Succeeds(d, x)')
    BY <1>6, AnsweredCarriers
<1> DEFINE ev == <<"events", a>>
           mg == <<"merged", a>>
<1>8. /\ ev \in Places /\ mg \in Places
      /\ At(ev) = tasks[a].events /\ At(mg) = tasks[a].merged
      /\ At(ev)' = (IF keep THEN tasks[a].events ELSE <<>>) /\ At(mg)' = (IF keep THEN tasks[a].merged ELSE <<>>)
      /\ ChannelAt(ev)' = ChannelAt(ev) /\ ChannelAt(mg)' = ChannelAt(mg)
  <2>1. HeldBatch(a) /\ (HeldBatch(a)' <=> keep)
      BY <1>1, <1>2 DEF HeldBatch
  <2> QED
      BY <1>2, <2>1, PlaceKinds, AtPlaces, AtPlacesPrime
<1>9. \A p \in Places : p # ev /\ p # mg => At(p)' = At(p) /\ ChannelAt(p)' = ChannelAt(p)
    BY <1>1, <1>2, ElsewhereBatch
<1> HIDE DEF ev, mg
<1>10. \A p \in Places : /\ Distinct(At(p)')
                         /\ \A x \in Elems(At(p)') : x \in Elems(At(p)) /\ ChannelAt(p)' = ChannelAt(p)
    BY <1>0, <1>5, <1>8, <1>9 DEF Apart
<1>11. next <= next' /\ lapsed \subseteq lapsed'
    BY <1>0, <1>1
<1>12. ASSUME NEW e \in settled' \ settled
       PROVE  e < next' /\ \A p \in Places : e \notin Elems(At(p)')
  <2>1. ~ keep /\ e \in BatchOf(tasks[a])
      OBVIOUS
  <2>2. /\ {ev, mg} \in SUBSET Places /\ \A p \in Places \ {ev, mg} : At(p)' = At(p)
        /\ \A p \in {ev, mg} : e \notin Elems(At(p)')
      BY <1>5, <1>8, <1>9, <2>1
  <2>3. \E p \in {ev, mg} : e \in Elems(At(p))
      BY <1>8, <2>1 DEF BatchOf
  <2> QED
      BY <1>11, <2>2, <2>3, SettledHere
<1> QED
    BY <1>7, <1>10, <1>11, <1>12, ShrinkStep

\* Whichever way a turn ends.
LEMMA TurnEndsPlaces ==
    ASSUME PlaceInv, QueueTypeOK, QueueTypeOK', NEW a \in Agents, TurnEnds(a)
    PROVE  PlaceInv'
<1>1. ASSUME TurnCompletes(a) PROVE PlaceInv'
  <2>1. Ends(a, "ok", FALSE) /\ settled' = settled \cup BatchOf(tasks[a])
      BY <1>1 DEF TurnCompletes
  <2> QED
      BY <2>1, EndsPlaces
<1>2. ASSUME NEW o, NEW keep \in BOOLEAN, EndsWithout(a, o, keep) PROVE PlaceInv'
    BY <1>2, EndsPlaces DEF EndsWithout
<1>3. ASSUME NEW o, TurnFails(a, o) PROVE PlaceInv'
  <2>1. PICK keep : keep = (dedup = "Queue" /\ tasks[a].channel # NoChannel)
      OBVIOUS
  <2>2. keep \in BOOLEAN /\ EndsWithout(a, o, keep)
      BY <1>3, <2>1 DEF TurnFails
  <2> QED
      BY <1>2, <2>2
<1>4. ASSUME NEW o, TurnCancelled(a, o) PROVE PlaceInv'
  <2>1. PICK keep : keep = (dedup = "Queue" /\ tasks[a].ctl # "Cancel")
      OBVIOUS
  <2>2. keep \in BOOLEAN /\ EndsWithout(a, o, keep)
      BY <1>4, <2>1 DEF TurnCancelled
  <2> QED
      BY <1>2, <2>2
<1> QED
    BY <1>1, <1>3, <1>4 DEF TurnEnds

-----------------------------------------------------------------------------
(* Results of turns.                                                       *)

\* Collecting a turn leaves steer requests alone and empties its batch.
LEMMA CollectBatch ==
    ASSUME PlaceInv, QueueTypeOK, NEW a \in Agents, Collect(a)
    PROVE  /\ SteersRunning' /\ OneCarrier'
           /\ \A d, x : (Carried(d, x)' <=> Carried(d, x)) /\ (Succeeds(d, x)' <=> Succeeds(d, x))
           /\ \A b \in Agents : b # a => SameBatch(b)
           /\ At(<<"events", a>>)' = <<>> /\ At(<<"merged", a>>)' = <<>>
           /\ tasks[a].keep =>
                 /\ HeldBatch(a) /\ tasks[a].channel \in Channels
                 /\ At(<<"events", a>>) = tasks[a].events /\ At(<<"merged", a>>) = tasks[a].merged
           /\ withheld' = withheld /\ next' = next /\ lapsed' = lapsed /\ next <= next' /\ next \in Nat
<1>0. AgentsOK /\ SteersRunning /\ OneCarrier /\ next \in Nat
    BY TypeParts DEF PlaceInv, QueueTypeOK
<1>1. /\ tasks[a].phase = "ended" /\ tasks[a] \in Tasks /\ tasks' = [tasks EXCEPT ![a] = NoTask]
      /\ UNCHANGED <<withheld, acks, next, lapsed>>
    BY <1>0 DEF Collect, config, AgentsOK
<1>2. /\ tasks'[a] = NoTask /\ \A b \in Agents : b # a => tasks'[b] = tasks[b]
    BY <1>0, <1>1 DEF AgentsOK
<1>3. NoTask.phase = "none" /\ NoTask.steers = <<>>
    BY DEF NoTask, Task
<1>4. tasks[a].steers = <<>>
    BY <1>0, <1>1 DEF SteersRunning
<1>5. \A b \in Agents : /\ tasks'[b].steers = tasks[b].steers
                        /\ tasks[b].steers # <<>> =>
                              tasks'[b].channel = tasks[b].channel /\ tasks'[b].phase = tasks[b].phase
    BY <1>2, <1>3, <1>4
<1>6. /\ SteersRunning' /\ OneCarrier'
      /\ \A d, x : (Carried(d, x)' <=> Carried(d, x)) /\ (Succeeds(d, x)' <=> Succeeds(d, x))
    BY <1>0, <1>1, <1>5, SameCarriers
<1>7. \A b \in Agents : b # a => SameBatch(b)
    BY <1>2 DEF SameBatch
<1>8. ~ HeldBatch(a)' /\ (tasks[a].keep => HeldBatch(a))
    BY <1>1, <1>2, <1>3 DEF HeldBatch
<1>9. tasks[a].keep => tasks[a].channel \in Channels
    BY <1>0, <1>1 DEF AgentsOK, Tasks
<1>10. next <= next'
    BY <1>0, <1>1
<1> QED
    BY <1>0, <1>1, <1>6, <1>7, <1>8, <1>9, <1>10, AtPlaces, AtPlacesPrime

\* The batch was delivered before, or is settled now.
LEMMA CollectSettles ==
    ASSUME PlaceInv, QueueTypeOK, QueueTypeOK', NEW a \in Agents, Collect(a),
           queues' = queues, cancelled' = cancelled,
           \A e \in settled' \ settled : tasks[a].keep /\ e \in BatchOf(tasks[a])
    PROVE  PlaceInv'
<1> DEFINE ev == <<"events", a>>
           mg == <<"merged", a>>
<1>1. /\ SteersRunning' /\ OneCarrier'
      /\ \A d, x : (Carried(d, x)' <=> Carried(d, x)) /\ (Succeeds(d, x)' <=> Succeeds(d, x))
      /\ \A b \in Agents : b # a => SameBatch(b)
      /\ At(ev)' = <<>> /\ At(mg)' = <<>>
      /\ tasks[a].keep => At(ev) = tasks[a].events /\ At(mg) = tasks[a].merged
      /\ withheld' = withheld /\ lapsed' = lapsed /\ next <= next'
    BY CollectBatch
<1>2. ev \in Places /\ mg \in Places
    BY PlaceKinds
<1>3. \A p \in Places : p # ev /\ p # mg => At(p)' = At(p) /\ ChannelAt(p)' = ChannelAt(p)
    BY <1>1, ElsewhereBatch
<1> HIDE DEF ev, mg
<1>4. Elems(<<>>) = {} /\ Distinct(<<>>)
    BY DEF Elems, Distinct
<1>5. \A p \in Places : /\ Distinct(At(p)')
                        /\ \A x \in Elems(At(p)') : x \in Elems(At(p)) /\ ChannelAt(p)' = ChannelAt(p)
    BY <1>1, <1>3, <1>4 DEF PlaceInv, Apart
<1>6. ASSUME NEW e \in settled' \ settled
      PROVE  e < next' /\ \A p \in Places : e \notin Elems(At(p)')
  <2>1. /\ {ev, mg} \in SUBSET Places /\ \A p \in Places \ {ev, mg} : At(p)' = At(p)
        /\ \A p \in {ev, mg} : e \notin Elems(At(p)')
      BY <1>1, <1>2, <1>3, <1>4
  <2>2. \E p \in {ev, mg} : e \in Elems(At(p))
      BY <1>1 DEF BatchOf
  <2> QED
      BY <1>1, <2>1, <2>2, SettledHere
<1> QED
    BY <1>1, <1>5, <1>6, ShrinkStep

\* The batch goes back to a store of its channel, as far as there is room.
LEMMA CollectBack ==
    ASSUME PlaceInv, QueueTypeOK, QueueTypeOK', NEW a \in Agents, Collect(a), tasks[a].keep,
           NEW c, c = tasks[a].channel, NEW t \in {<<"queue", c>>, <<"cancelled", c>>},
           \A p \in Places : p \notin {t, <<"events", a>>, <<"merged", a>>} =>
               At(p)' = At(p) /\ ChannelAt(p)' = ChannelAt(p),
           Distinct(At(t)'),
           Elems(At(t)') \subseteq Elems(At(t)) \cup BatchOf(tasks[a]),
           settled \subseteq settled',
           settled' \ settled \subseteq (Elems(At(t)) \cup BatchOf(tasks[a])) \ Elems(At(t)')
    PROVE  PlaceInv'
<1>0. Apart
    BY DEF PlaceInv
<1> DEFINE ev == <<"events", a>>
           mg == <<"merged", a>>
<1>1. /\ SteersRunning' /\ OneCarrier'
      /\ \A d, x : (Carried(d, x)' <=> Carried(d, x)) /\ (Succeeds(d, x)' <=> Succeeds(d, x))
      /\ At(ev)' = <<>> /\ At(mg)' = <<>> /\ c \in Channels
      /\ At(ev) = tasks[a].events /\ At(mg) = tasks[a].merged
      /\ withheld' = withheld /\ lapsed' = lapsed /\ next <= next' /\ next \in Nat
    BY CollectBatch
<1>2. /\ ev \in Places /\ mg \in Places /\ t \in Places /\ t # ev /\ t # mg
      /\ ev[1] # "withheld" /\ mg[1] # "withheld" /\ t[1] # "withheld"
      /\ ChannelAt(ev) = c /\ ChannelAt(mg) = c /\ ChannelAt(t) = c /\ ChannelAt(t)' = c
  <2>1. /\ ev \in Places /\ mg \in Places /\ ev[1] = "events" /\ mg[1] = "merged"
        /\ ChannelAt(ev) = c /\ ChannelAt(mg) = c
      BY PlaceKinds, AtPlaces
  <2>2. CASE t = <<"queue", c>>
    <3>1. t \in Places /\ t[1] = "queue" /\ ChannelAt(t) = c /\ ChannelAt(t)' = c
        BY <1>1, <2>2, PlaceKinds, AtPlaces, AtPlacesPrime
    <3> QED
        BY <2>1, <3>1
  <2>3. CASE t = <<"cancelled", c>>
    <3>1. t \in Places /\ t[1] = "cancelled" /\ ChannelAt(t) = c /\ ChannelAt(t)' = c
        BY <1>1, <2>3, PlaceKinds, AtPlaces, AtPlacesPrime
    <3> QED
        BY <2>1, <3>1
  <2> QED
      BY <2>2, <2>3
<1>3. \A p \in Places : p # t /\ p # ev /\ p # mg => At(p)' = At(p) /\ ChannelAt(p)' = ChannelAt(p)
    OBVIOUS
<1>4. BatchOf(tasks[a]) = Elems(At(ev)) \cup Elems(At(mg))
    BY <1>1 DEF BatchOf
<1> HIDE DEF ev, mg
<1>5. Elems(<<>>) = {} /\ Distinct(<<>>)
    BY DEF Elems, Distinct
<1>6. Apart'
  <2> DEFINE S == {t, ev, mg}
  <2>1. /\ S \in SUBSET Places /\ \A p \in Places : Elems(At(p)) \cap {} = {}
        /\ \A p \in Places \ S : At(p)' = At(p)
      BY <1>2, <1>3
  <2>2. \A p \in S : /\ Distinct(At(p)')
                     /\ \A e \in Elems(At(p)') : e \in {} \/ \E r \in S : e \in Elems(At(r))
      BY <1>1, <1>2, <1>4, <1>5
  <2>3. \A p, r \in S : p # r => Elems(At(p)') \cap Elems(At(r)') = {}
      BY <1>1, <1>2, <1>5
  <2> HIDE DEF S
  <2> QED
      BY <1>0, <2>1, <2>2, <2>3, MoveApart
<1>7. ASSUME NEW p \in Places, NEW e \in Elems(At(p)')
      PROVE  \E q \in Places : /\ e \in Elems(At(q)) /\ ChannelAt(p)' = ChannelAt(q)
                               /\ p = q \/ (p[1] # "withheld" /\ q[1] # "withheld")
  <2>1. CASE p = t
    <3>1. e \in Elems(At(t)) \/ e \in Elems(At(ev)) \/ e \in Elems(At(mg))
        BY <1>4, <1>7, <2>1
    <3> QED
        BY <1>2, <2>1, <3>1
  <2>2. CASE p # t
      BY <1>1, <1>3, <1>5, <2>2
  <2> QED
      BY <2>1, <2>2
<1>8. ASSUME NEW e \in settled' \ settled
      PROVE  e < next' /\ \A p \in Places : e \notin Elems(At(p)')
  <2> DEFINE S == {t, ev, mg}
  <2>1. /\ S \in SUBSET Places /\ \A p \in Places \ S : At(p)' = At(p)
        /\ \A p \in S : e \notin Elems(At(p)')
      BY <1>1, <1>2, <1>3, <1>5
  <2>2. \E p \in S : e \in Elems(At(p))
      BY <1>4
  <2> HIDE DEF S
  <2> QED
      BY <1>1, <2>1, <2>2, SettledHere
<1>9. ASSUME NEW d \in Channels, NEW e \in Elems(withheld'[d]) PROVE e # next
  <2>1. <<"withheld", d>> \in Places /\ At(<<"withheld", d>>) = withheld[d]
      BY PlaceKinds, AtPlaces
  <2>2. e < next
      BY <1>1, <2>1 DEF PlaceInv, Arrived
  <2> QED
      BY <1>1, <2>2
<1>10. lapsed \subseteq lapsed'
    BY <1>1
<1>11. \A p \in Places : \A e \in Elems(At(p)') :
          \/ e = next /\ next < next'
          \/ \E q \in Places :
                /\ e \in Elems(At(q)) /\ ChannelAt(p)' = ChannelAt(q)
                /\ \/ p = q
                   \/ p[1] # "withheld" /\ q[1] # "withheld"
                   \/ p[1] # "withheld" /\ ChannelAt(q) \in lapsed'
                   \/ p[1] # "withheld" /\ e \notin settled' /\ \A d : ~ Carried(d, e)'
    BY <1>7
<1>12. \A d \in Channels : \A e \in Elems(withheld'[d]) :
          /\ e = next \/ Carried(d, e) => Carried(d, e)'
          /\ Succeeds(d, e) => Succeeds(d, e)'
    BY <1>1, <1>9
<1> QED
    BY <1>1, <1>6, <1>8, <1>10, <1>11, <1>12, PlaceStep

\* A cancelled turn's events are kept to be merged.
LEMMA CollectCancelledPlaces ==
    ASSUME PlaceInv, QueueTypeOK, QueueTypeOK', NEW a \in Agents, CollectCancelled(a)
    PROVE  PlaceInv'
<1>0. Collect(a) /\ tasks[a].keep /\ StoresOK /\ AgentsOK /\ Apart
    BY TypeParts DEF CollectCancelled, HasBatch, PlaceInv
<1>1. PICK c, ev, mg, x : c = tasks[a].channel /\ ev = tasks[a].events /\ mg = tasks[a].merged
                          /\ x = cancelled[c]
    OBVIOUS
<1>2. /\ HeldBatch(a) /\ c \in Channels /\ withheld' = withheld
      /\ \A b \in Agents : b # a => SameBatch(b)
    BY <1>0, <1>1, CollectBatch
<1>3. /\ cancelled' = [cancelled EXCEPT ![c] = x \o mg \o ev]
      /\ queues' = queues /\ settled' = settled
    BY <1>1 DEF CollectCancelled
<1>4. x \in Seq(Events) /\ mg \in Seq(Events) /\ ev \in Seq(Events)
    BY <1>0, <1>1, <1>2 DEF StoresOK, AgentsOK, Tasks
<1>5. /\ Distinct(x) /\ Distinct(mg) /\ Distinct(ev) /\ Elems(ev) \cap Elems(mg) = {}
      /\ Elems(x) \cap Elems(ev) = {} /\ Elems(x) \cap Elems(mg) = {}
    BY <1>0, <1>1, <1>2, StoresApart, BatchApart
<1>6. /\ x \o mg \in Seq(Events) /\ Elems(x \o mg) = Elems(x) \cup Elems(mg) /\ Distinct(x \o mg)
    BY <1>4, <1>5, ConcatElems, SeqTypes
<1>7. /\ Elems((x \o mg) \o ev) = Elems(x) \cup Elems(mg) \cup Elems(ev)
      /\ Distinct((x \o mg) \o ev)
    BY <1>4, <1>5, <1>6, ConcatElems
<1> DEFINE t == <<"cancelled", c>>
<1>8. At(t) = x /\ At(t)' = (x \o mg) \o ev
    BY <1>0, <1>1, <1>2, <1>3, AtPlaces, AtPlacesPrime DEF StoresOK
<1>9. \A p \in Places : p \notin {t, <<"events", a>>, <<"merged", a>>} =>
          At(p)' = At(p) /\ ChannelAt(p)' = ChannelAt(p)
  <2>1. \A d \in Channels : d # c => queues'[d] = queues[d] /\ withheld'[d] = withheld[d]
                                     /\ cancelled'[d] = cancelled[d]
      BY <1>0, <1>2, <1>3 DEF StoresOK
  <2>2. \A p \in Places : /\ p # <<"queue", c>> /\ p # <<"withheld", c>> /\ p # <<"cancelled", c>>
                          /\ p # <<"events", a>> /\ p # <<"merged", a>>
                          => At(p)' = At(p) /\ ChannelAt(p)' = ChannelAt(p)
      BY <1>2, <2>1, ElsewhereTurn
  <2>3. \A p : p = <<"withheld", c>> \/ p = <<"queue", c>>
            => At(p)' = At(p) /\ ChannelAt(p)' = ChannelAt(p)
      BY <1>2, <1>3, AtPlaces, AtPlacesPrime
  <2> QED
      BY <2>2, <2>3
<1>10. t \in {<<"queue", c>>, <<"cancelled", c>>}
    OBVIOUS
<1>11. BatchOf(tasks[a]) = Elems(ev) \cup Elems(mg)
    BY <1>1 DEF BatchOf
<1>12. /\ Distinct(At(t)') /\ Elems(At(t)') \subseteq Elems(At(t)) \cup BatchOf(tasks[a])
       /\ settled \subseteq settled'
       /\ settled' \ settled \subseteq (Elems(At(t)) \cup BatchOf(tasks[a])) \ Elems(At(t)')
  <2> HIDE DEF t
  <2> QED
      BY <1>3, <1>7, <1>8, <1>11
<1> HIDE DEF t
<1> QED
    BY <1>0, <1>1, <1>9, <1>10, <1>12, CollectBack

\* A failed turn's events go back to the front of the queue.
LEMMA CollectRequeuedPlaces ==
    ASSUME PlaceInv, QueueTypeOK, QueueTypeOK', NEW a \in Agents, CollectRequeued(a)
    PROVE  PlaceInv'
<1>0. Collect(a) /\ tasks[a].keep /\ StoresOK /\ AgentsOK /\ Apart
    BY TypeParts DEF CollectRequeued, Retried, HasBatch, PlaceInv
<1>1. PICK c, ev, q, s : c = tasks[a].channel /\ ev = tasks[a].events /\ q = queues[c] /\ s = ev \o q
    OBVIOUS
<1>2. /\ HeldBatch(a) /\ c \in Channels /\ withheld' = withheld
      /\ \A b \in Agents : b # a => SameBatch(b)
    BY <1>0, <1>1, CollectBatch
<1>3. /\ queues' = [queues EXCEPT ![c] = Trim(s)]
      /\ settled' = settled \cup Trimmed(s) /\ cancelled' = cancelled
    BY <1>1 DEF CollectRequeued
<1>4. q \in Seq(Events) /\ ev \in Seq(Events)
    BY <1>0, <1>1, <1>2 DEF StoresOK, AgentsOK, Tasks
<1>5. Distinct(q) /\ Distinct(ev) /\ Elems(q) \cap Elems(ev) = {}
    BY <1>0, <1>1, <1>2, StoresApart, BatchApart
<1>6. s \in Seq(Events) /\ Elems(s) = Elems(ev) \cup Elems(q) /\ Distinct(s)
    BY <1>1, <1>4, <1>5, ConcatElems, SeqTypes
<1>7. /\ Elems(s) = Elems(Trim(s)) \cup Trimmed(s)
      /\ Distinct(Trim(s)) /\ Elems(Trim(s)) \cap Trimmed(s) = {}
    BY <1>6, TrimElems
<1> DEFINE t == <<"queue", c>>
<1>8. At(t) = q /\ At(t)' = Trim(s)
    BY <1>0, <1>1, <1>2, <1>3, AtPlaces, AtPlacesPrime DEF StoresOK
<1>9. \A p \in Places : p \notin {t, <<"events", a>>, <<"merged", a>>} =>
          At(p)' = At(p) /\ ChannelAt(p)' = ChannelAt(p)
  <2>1. \A d \in Channels : d # c => queues'[d] = queues[d] /\ withheld'[d] = withheld[d]
                                     /\ cancelled'[d] = cancelled[d]
      BY <1>0, <1>2, <1>3 DEF StoresOK
  <2>2. \A p \in Places : /\ p # <<"queue", c>> /\ p # <<"withheld", c>> /\ p # <<"cancelled", c>>
                          /\ p # <<"events", a>> /\ p # <<"merged", a>>
                          => At(p)' = At(p) /\ ChannelAt(p)' = ChannelAt(p)
      BY <1>2, <2>1, ElsewhereTurn
  <2>3. \A p : p = <<"withheld", c>> \/ p = <<"cancelled", c>>
            => At(p)' = At(p) /\ ChannelAt(p)' = ChannelAt(p)
      BY <1>2, <1>3, AtPlaces, AtPlacesPrime
  <2> QED
      BY <2>2, <2>3
<1>10. t \in {<<"queue", c>>, <<"cancelled", c>>}
    OBVIOUS
<1>11. Elems(ev) \subseteq BatchOf(tasks[a])
    BY <1>1 DEF BatchOf
<1>12. /\ Distinct(At(t)') /\ Elems(At(t)') \subseteq Elems(At(t)) \cup BatchOf(tasks[a])
       /\ settled \subseteq settled'
       /\ settled' \ settled \subseteq (Elems(At(t)) \cup BatchOf(tasks[a])) \ Elems(At(t)')
  <2> HIDE DEF t
  <2> QED
      BY <1>3, <1>6, <1>7, <1>8, <1>11
<1> HIDE DEF t
<1> QED
    BY <1>0, <1>1, <1>9, <1>10, <1>12, CollectBack

\* Whatever a turn's result is.
LEMMA ResultsPlaces ==
    ASSUME PlaceInv, QueueTypeOK, QueueTypeOK', NEW a \in Agents, Results(a)
    PROVE  PlaceInv'
<1>1. CASE CollectHeartbeat(a)
    BY <1>1, CollectSettles DEF CollectHeartbeat
<1>2. CASE CollectDone(a)
    BY <1>2, CollectSettles DEF CollectDone
<1>3. CASE CollectHopeless(a)
    BY <1>3, CollectSettles DEF CollectHopeless, HasBatch
<1>4. CASE CollectDeadLettered(a)
    BY <1>4, CollectSettles DEF CollectDeadLettered, Retried, HasBatch
<1> QED
    BY <1>1, <1>2, <1>3, <1>4, CollectCancelledPlaces, CollectRequeuedPlaces DEF Results

-----------------------------------------------------------------------------
(* Answers to steer requests.                                              *)

\* The answer that was read carries its event no longer, and nothing else does.
LEMMA AckCarriers ==
    ASSUME PlaceInv, QueueTypeOK, NEW k \in acks, AckSteer(k), NEW c, c = k.channel, NEW e, e = k.event
    PROVE  /\ SteersRunning' /\ OneCarrier' /\ c \in Channels /\ e \in Events /\ Carried(c, e)
           /\ \A b \in Agents : SameBatch(b)
           /\ \A d, x : /\ Carried(d, x)' => Carried(d, x) /\ x # e
                        /\ Carried(d, x) /\ x # e => Carried(d, x)'
                        /\ Succeeds(d, x) /\ x # e => Succeeds(d, x)'
           /\ \A d \in Channels : d # c => e \notin Elems(withheld[d])
<1>0. AgentsOK /\ SteersRunning /\ OneCarrier /\ acks \subseteq Acks
    BY TypeParts DEF PlaceInv, QueueTypeOK
<1>1. acks' = acks \ {k}
    BY DEF AckSteer
<1>2. \A b \in Agents : SameBatch(b) /\ tasks'[b].steers = tasks[b].steers
  <2>1. CASE k.result = "fallback"
      BY <1>0, <2>1, SignalBatch DEF AckSteer
  <2>2. CASE k.result # "fallback"
      BY <2>2 DEF AckSteer, SameBatch
  <2> QED
      BY <2>1, <2>2
<1>3. c \in Channels /\ e \in Events
    BY <1>0 DEF Acks
<1>4. SteersRunning'
    BY <1>0, <1>2 DEF SteersRunning, SameBatch
<1>5. OneCarrier'
    BY <1>0, <1>1, <1>2 DEF OneCarrier
<1>6. \A b \in Agents : e \notin Elems(tasks'[b].steers)
    BY <1>0, <1>2 DEF OneCarrier
<1>7. \A l \in acks' : l.event # e /\ l \in acks
    BY <1>0, <1>1 DEF OneCarrier
<1>8. \A l \in acks : l.event # e => l \in acks'
    BY <1>1
<1>9. \A b \in Agents : tasks'[b].channel = tasks[b].channel /\ Elems(tasks'[b].steers) = Elems(tasks[b].steers)
    BY <1>2 DEF SameBatch
<1>10. ASSUME NEW d, NEW x, Carried(d, x)' PROVE Carried(d, x) /\ x # e
    BY <1>6, <1>7, <1>9, <1>10 DEF Carried
<1>11. ASSUME NEW d, NEW x, Carried(d, x), x # e PROVE Carried(d, x)'
    BY <1>8, <1>9, <1>11 DEF Carried
<1>12. ASSUME NEW d, NEW x, Succeeds(d, x), x # e PROVE Succeeds(d, x)'
    BY <1>8, <1>12 DEF Succeeds
<1>13. Carried(c, e)
    BY DEF Carried
<1>14. ASSUME NEW d \in Channels, d # c, e \in Elems(withheld[d]) PROVE FALSE
  <2>1. /\ <<"withheld", d>> \in Places /\ e \in Elems(At(<<"withheld", d>>))
        /\ ChannelAt(<<"withheld", d>>) = d
      BY <1>14, PlaceKinds, AtPlaces
  <2>2. d = c
      BY <1>13, <2>1 DEF PlaceInv, CarriedIsWithheld
  <2> QED
      BY <1>14, <2>2
<1> QED
    BY <1>2, <1>3, <1>4, <1>5, <1>10, <1>11, <1>12, <1>13, <1>14

\* An answer that gives nothing back: the event leaves the stores.
LEMMA AckTaken ==
    ASSUME PlaceInv, QueueTypeOK, QueueTypeOK', NEW k \in acks, AckSteer(k), NEW c, c = k.channel,
           queues' = queues \/ queues' = [queues EXCEPT ![c] = Without(@, k.event)],
           settled' = settled
    PROVE  PlaceInv'
<1>0. StoresOK /\ Apart /\ next \in Nat
    BY TypeParts DEF PlaceInv, QueueTypeOK
<1>1. PICK e : e = k.event
    OBVIOUS
<1>2. /\ SteersRunning' /\ OneCarrier' /\ c \in Channels
      /\ \A b \in Agents : SameBatch(b)
      /\ \A d, x : /\ Carried(d, x)' => Carried(d, x) /\ x # e
                   /\ Carried(d, x) /\ x # e => Carried(d, x)'
                   /\ Succeeds(d, x) /\ x # e => Succeeds(d, x)'
      /\ \A d \in Channels : d # c => e \notin Elems(withheld[d])
    BY <1>1, AckCarriers
<1>3. /\ withheld' = [withheld EXCEPT ![c] = Without(@, e)]
      /\ UNCHANGED <<cancelled, next, lapsed>>
    BY <1>1 DEF AckSteer, config
<1>4. queues'[c] = queues[c] \/ queues'[c] = Without(queues[c], e)
    BY <1>0, <1>1, <1>2 DEF StoresOK
<1>5. withheld'[c] = Without(withheld[c], e)
    BY <1>0, <1>2, <1>3 DEF StoresOK
<1>6. /\ Distinct(queues[c]) /\ Distinct(withheld[c])
      /\ queues[c] \in Seq(Events) /\ withheld[c] \in Seq(Events)
    BY <1>0, <1>2, StoresApart DEF StoresOK
<1>7. /\ Distinct(queues'[c]) /\ Elems(queues'[c]) \subseteq Elems(queues[c])
      /\ Distinct(withheld'[c]) /\ Elems(withheld'[c]) = Elems(withheld[c]) \ {e}
    BY <1>4, <1>5, <1>6, WithoutElems
<1> DEFINE q == <<"queue", c>>
           w == <<"withheld", c>>
<1>8. /\ At(q) = queues[c] /\ At(q)' = queues'[c] /\ At(w) = withheld[c] /\ At(w)' = withheld'[c]
      /\ ChannelAt(q)' = ChannelAt(q) /\ ChannelAt(w)' = ChannelAt(w)
    BY AtPlaces, AtPlacesPrime
<1>9. \A p \in Places : p # q /\ p # w => At(p)' = At(p) /\ ChannelAt(p)' = ChannelAt(p)
  <2>1. \A d \in Channels : d # c => queues'[d] = queues[d] /\ withheld'[d] = withheld[d]
                                     /\ cancelled'[d] = cancelled[d]
      BY <1>0, <1>2, <1>3 DEF StoresOK
  <2>2. \A p \in Places : p # q /\ p # w /\ p # <<"cancelled", c>>
            => At(p)' = At(p) /\ ChannelAt(p)' = ChannelAt(p)
      BY <1>2, <2>1, ElsewhereStores
  <2>3. \A p : p = <<"cancelled", c>> => At(p)' = At(p) /\ ChannelAt(p)' = ChannelAt(p)
      BY <1>3, AtPlaces, AtPlacesPrime
  <2> QED
      BY <2>2, <2>3
<1> HIDE DEF q, w
<1>10. \A p \in Places : /\ Distinct(At(p)')
                         /\ \A x \in Elems(At(p)') : x \in Elems(At(p)) /\ ChannelAt(p)' = ChannelAt(p)
    BY <1>0, <1>7, <1>8, <1>9 DEF Apart
<1>11. ASSUME NEW d \in Channels, NEW x \in Elems(withheld'[d]) PROVE x # e
  <2>1. CASE d = c
      BY <1>7, <1>11, <2>1
  <2>2. CASE d # c
    <3>1. withheld'[d] = withheld[d]
        BY <1>0, <1>3, <2>2 DEF StoresOK
    <3> QED
        BY <1>2, <1>11, <2>2, <3>1
  <2> QED
      BY <2>1, <2>2
<1>12. next <= next' /\ lapsed \subseteq lapsed'
    BY <1>0, <1>3
<1> QED
    BY <1>2, <1>10, <1>11, <1>12, ShrinkStep

\* What the cap keeps begins with the front of the queue.
LEMMA TrimFront ==
    ASSUME NEW s \in Seq(Events), NEW e \in Events
    PROVE  e \in Elems(Trim(<<e>> \o s))
<1> DEFINE t == <<e>> \o s
           n == Least(Len(t), MAX_PENDING_PER_CHANNEL)
<1>1. t \in Seq(Events) /\ t[1] = e /\ Len(t) = Len(s) + 1
    OBVIOUS
<1>2. Len(s) \in Nat
    OBVIOUS
<1> HIDE DEF t
<1>3. n \in 1..Len(t)
    BY <1>1, <1>2, QueueAssumption DEF Least
<1> HIDE DEF n
<1>4. 1 \in DOMAIN SubSeq(t, 1, n) /\ SubSeq(t, 1, n)[1] = e
    BY <1>1, <1>3
<1>5. Trim(t) = SubSeq(t, 1, n)
    BY DEF Trim, n
<1>6. e \in Elems(Trim(t))
    BY <1>4, <1>5 DEF Elems
<1> QED
    BY <1>6 DEF t

\* An answer that gives the withheld event back to the queue: it was not
\* settled, and no other answer is under way.
LEMMA AckGivenBack ==
    ASSUME PlaceInv, QueueTypeOK, QueueTypeOK', NEW k \in acks, AckSteer(k),
           k.result # "success", k.event \in Elems(withheld[k.channel])
    PROVE  PlaceInv'
<1>0. StoresOK /\ Apart /\ next \in Nat /\ OneCarrier /\ WithheldIsCarried
    BY TypeParts DEF PlaceInv, QueueTypeOK
<1>1. PICK c, e, s : c = k.channel /\ e = k.event /\ s = <<e>> \o queues[c]
    OBVIOUS
<1>2. /\ SteersRunning' /\ OneCarrier' /\ c \in Channels /\ e \in Events
      /\ \A b \in Agents : SameBatch(b)
      /\ \A d, x : /\ Carried(d, x)' => Carried(d, x) /\ x # e
                   /\ Carried(d, x) /\ x # e => Carried(d, x)'
                   /\ Succeeds(d, x) /\ x # e => Succeeds(d, x)'
      /\ \A d \in Channels : d # c => e \notin Elems(withheld[d])
    BY <1>1, AckCarriers
<1>3. /\ withheld' = [withheld EXCEPT ![c] = Without(@, e)]
      /\ queues' = [queues EXCEPT ![c] = Trim(s)] /\ settled' = settled \cup Trimmed(s)
      /\ UNCHANGED <<cancelled, next, lapsed>>
    BY <1>1 DEF AckSteer, config
<1>4. /\ Distinct(queues[c]) /\ Distinct(withheld[c]) /\ e \in Elems(withheld[c])
      /\ queues[c] \in Seq(Events) /\ withheld[c] \in Seq(Events)
      /\ Elems(queues[c]) \cap Elems(withheld[c]) = {}
    BY <1>0, <1>1, <1>2, StoresApart DEF StoresOK
<1>5. e \notin settled
  <2>1. ASSUME e \in settled PROVE FALSE
    <3>1. Succeeds(c, e)
        BY <1>0, <1>2, <1>4, <2>1 DEF WithheldIsCarried
    <3>2. PICK l \in acks : l.event = e /\ l.result = "success"
        BY <3>1 DEF Succeeds
    <3>3. l = k
        BY <1>0, <1>1, <3>2 DEF OneCarrier
    <3> QED
        BY <3>2, <3>3
  <2> QED
      BY <2>1
<1>6. s \in Seq(Events) /\ Elems(s) = {e} \cup Elems(queues[c]) /\ Distinct(s)
  <2> DEFINE u == <<e>>
  <2>1. u \in Seq(Events) /\ Elems(u) = {e} /\ Distinct(u)
      BY <1>2 DEF Elems, Distinct
  <2>2. s = u \o queues[c]
      BY <1>1
  <2> HIDE DEF u
  <2>3. Elems(u) \cap Elems(queues[c]) = {}
      BY <1>4, <2>1
  <2> QED
      BY <1>4, <2>1, <2>2, <2>3, ConcatElems, SeqTypes
<1>7. /\ Elems(s) = Elems(Trim(s)) \cup Trimmed(s)
      /\ Distinct(Trim(s)) /\ Elems(Trim(s)) \cap Trimmed(s) = {}
    BY <1>6, TrimElems
<1>8. e \in Elems(Trim(s)) /\ e \notin settled'
  <2>1. e \in Elems(Trim(s))
      BY <1>1, <1>2, <1>4, TrimFront
  <2> QED
      BY <1>3, <1>5, <1>7, <2>1
<1>9. Distinct(Without(withheld[c], e)) /\ Elems(Without(withheld[c], e)) = Elems(withheld[c]) \ {e}
    BY <1>4, WithoutElems
<1> DEFINE q == <<"queue", c>>
           w == <<"withheld", c>>
<1>10. /\ q \in Places /\ w \in Places /\ q # w /\ q[1] # "withheld"
       /\ At(q) = queues[c] /\ At(q)' = Trim(s) /\ At(w) = withheld[c] /\ At(w)' = Without(withheld[c], e)
       /\ ChannelAt(q)' = c /\ ChannelAt(q) = c /\ ChannelAt(w)' = c /\ ChannelAt(w) = c
    BY <1>0, <1>2, <1>3, PlaceKinds, AtPlaces, AtPlacesPrime DEF StoresOK
<1>11. \A p \in Places : p # q /\ p # w => At(p)' = At(p) /\ ChannelAt(p)' = ChannelAt(p)
  <2>1. \A d \in Channels : d # c => queues'[d] = queues[d] /\ withheld'[d] = withheld[d]
                                     /\ cancelled'[d] = cancelled[d]
      BY <1>0, <1>2, <1>3 DEF StoresOK
  <2>2. \A p \in Places : p # q /\ p # w /\ p # <<"cancelled", c>>
            => At(p)' = At(p) /\ ChannelAt(p)' = ChannelAt(p)
      BY <1>2, <2>1, ElsewhereStores
  <2>3. \A p : p = <<"cancelled", c>> => At(p)' = At(p) /\ ChannelAt(p)' = ChannelAt(p)
      BY <1>3, AtPlaces, AtPlacesPrime
  <2> QED
      BY <2>2, <2>3
<1> HIDE DEF q, w
<1>12. Apart'
  <2> DEFINE S == {q, w}
  <2>1. /\ S \in SUBSET Places /\ \A p \in Places : Elems(At(p)) \cap {} = {}
        /\ \A p \in Places \ S : At(p)' = At(p)
      BY <1>10, <1>11
  <2>2. \A p \in S : /\ Distinct(At(p)')
                     /\ \A x \in Elems(At(p)') : x \in {} \/ \E r \in S : x \in Elems(At(r))
      BY <1>4, <1>6, <1>7, <1>9, <1>10
  <2>3. \A p, r \in S : p # r => Elems(At(p)') \cap Elems(At(r)') = {}
      BY <1>4, <1>6, <1>7, <1>9, <1>10
  <2> HIDE DEF S
  <2> QED
      BY <1>0, <2>1, <2>2, <2>3, MoveApart
<1>13. next <= next' /\ lapsed \subseteq lapsed'
    BY <1>0, <1>3
<1>14. \A p \in Places : \A x \in Elems(At(p)') :
          \/ x = next /\ next < next'
          \/ \E r \in Places :
                /\ x \in Elems(At(r)) /\ ChannelAt(p)' = ChannelAt(r)
                /\ \/ p = r
                   \/ p[1] # "withheld" /\ r[1] # "withheld"
                   \/ p[1] # "withheld" /\ ChannelAt(r) \in lapsed'
                   \/ p[1] # "withheld" /\ x \notin settled' /\ \A d : ~ Carried(d, x)'
  <2> SUFFICES ASSUME NEW p \in Places, NEW x \in Elems(At(p)')
               PROVE  \E r \in Places :
                         /\ x \in Elems(At(r)) /\ ChannelAt(p)' = ChannelAt(r)
                         /\ \/ p = r
                            \/ p[1] # "withheld" /\ x \notin settled' /\ \A d : ~ Carried(d, x)'
      OBVIOUS
  <2>1. CASE p = q /\ x = e
    <3>1. x \in Elems(At(w)) /\ ChannelAt(p)' = ChannelAt(w) /\ w \in Places
        BY <1>4, <1>10, <2>1
    <3>2. p[1] # "withheld" /\ x \notin settled' /\ \A d : ~ Carried(d, x)'
        BY <1>2, <1>8, <1>10, <2>1
    <3> QED
        BY <3>1, <3>2
  <2>2. CASE p = q /\ x # e
    <3>1. x \in Elems(At(q))
        BY <1>6, <1>7, <1>10, <2>2
    <3> QED
        BY <1>10, <2>2, <3>1
  <2>3. CASE p = w
      BY <1>9, <1>10, <2>3
  <2>4. CASE p # q /\ p # w
      BY <1>11, <2>4
  <2> QED
      BY <2>1, <2>2, <2>3, <2>4
<1>15. ASSUME NEW x \in settled' \ settled
       PROVE  x < next' /\ \A p \in Places : x \notin Elems(At(p)')
  <2> DEFINE S == {q, w}
  <2>0. x \in Elems(queues[c]) /\ x \notin Elems(Trim(s))
      BY <1>3, <1>6, <1>7, <1>8
  <2>1. /\ S \in SUBSET Places /\ \A p \in Places \ S : At(p)' = At(p)
        /\ \A p \in S : x \notin Elems(At(p)')
      BY <1>4, <1>9, <1>10, <1>11, <2>0
  <2>2. \E p \in S : x \in Elems(At(p))
      BY <1>10, <2>0
  <2> HIDE DEF S
  <2> QED
      BY <1>13, <2>1, <2>2, SettledHere
<1>16. ASSUME NEW d \in Channels, NEW x \in Elems(withheld'[d]) PROVE x # e /\ x # next
  <2>1. x # e /\ x \in Elems(withheld[d])
    <3>1. CASE d = c
      <4>1. withheld'[c] = Without(withheld[c], e)
          BY <1>0, <1>2, <1>3 DEF StoresOK
      <4> QED
          BY <1>9, <1>16, <3>1, <4>1
    <3>2. CASE d # c
      <4>1. withheld'[d] = withheld[d]
          BY <1>0, <1>3, <3>2 DEF StoresOK
      <4> QED
          BY <1>2, <1>16, <3>2, <4>1
    <3> QED
        BY <3>1, <3>2
  <2>2. <<"withheld", d>> \in Places /\ At(<<"withheld", d>>) = withheld[d]
      BY PlaceKinds, AtPlaces
  <2>3. x < next
      BY <2>1, <2>2 DEF PlaceInv, Arrived
  <2> QED
      BY <1>0, <2>1, <2>3
<1>17. \A d \in Channels : \A x \in Elems(withheld'[d]) :
          /\ x = next \/ Carried(d, x) => Carried(d, x)'
          /\ Succeeds(d, x) => Succeeds(d, x)'
    BY <1>2, <1>16
<1> QED
    BY <1>2, <1>12, <1>13, <1>14, <1>15, <1>17, PlaceStep

\* Whatever the answer says.
LEMMA AckSteerPlaces ==
    ASSUME PlaceInv, QueueTypeOK, QueueTypeOK', NEW k \in acks, AckSteer(k)
    PROVE  PlaceInv'
<1>1. CASE k.result = "success"
  <2>1. queues' = [queues EXCEPT ![k.channel] = Without(@, k.event)] /\ settled' = settled
      BY <1>1 DEF AckSteer
  <2> QED
      BY <2>1, AckTaken
<1>2. CASE k.result # "success" /\ k.event \notin Elems(withheld[k.channel])
  <2>1. queues' = queues /\ settled' = settled
      BY <1>2 DEF AckSteer
  <2> QED
      BY <2>1, AckTaken
<1>3. CASE k.result # "success" /\ k.event \in Elems(withheld[k.channel])
    BY <1>3, AckGivenBack
<1> QED
    BY <1>1, <1>2, <1>3

-----------------------------------------------------------------------------
(* dispatch_pending.                                                       *)

\* Past its deadline, a channel gets its withheld events back while their
\* requests may still be answered: from here on it has lapsed.
LEMMA ExpirePlaces ==
    ASSUME PlaceInv, QueueTypeOK, QueueTypeOK', Expire
    PROVE  PlaceInv'
<1>0. StoresOK /\ Apart /\ next \in Nat /\ SteersRunning /\ OneCarrier /\ overdue \subseteq Channels
    BY TypeParts DEF PlaceInv, QueueTypeOK
<1>1. /\ lapsed' = lapsed \cup overdue
      /\ queues' = [c \in Channels |->
                      IF c \in overdue THEN Trim(withheld[c] \o queues[c]) ELSE queues[c]]
      /\ settled' = settled \cup UNION {Trimmed(withheld[c] \o queues[c]) : c \in overdue}
      /\ withheld' = [c \in Channels |-> IF c \in overdue THEN <<>> ELSE withheld[c]]
      /\ UNCHANGED <<cancelled, tasks, acks, next>>
    BY DEF Expire
<1>2. /\ SteersRunning' /\ OneCarrier'
      /\ \A d, e : (Carried(d, e)' <=> Carried(d, e)) /\ (Succeeds(d, e)' <=> Succeeds(d, e))
    BY <1>0, <1>1, SameCarriers
<1>3. ASSUME NEW c \in overdue
      PROVE  /\ queues'[c] = Trim(withheld[c] \o queues[c]) /\ withheld'[c] = <<>>
             /\ Distinct(queues'[c])
             /\ Elems(queues'[c]) \cup Trimmed(withheld[c] \o queues[c]) = Elems(queues[c]) \cup Elems(withheld[c])
             /\ Elems(queues'[c]) \cap Trimmed(withheld[c] \o queues[c]) = {}
  <2>1. /\ c \in Channels /\ Distinct(queues[c]) /\ Distinct(withheld[c])
        /\ queues[c] \in Seq(Events) /\ withheld[c] \in Seq(Events)
        /\ Elems(queues[c]) \cap Elems(withheld[c]) = {}
      BY <1>0, StoresApart DEF StoresOK
  <2> DEFINE s == withheld[c] \o queues[c]
  <2>2. s \in Seq(Events) /\ Distinct(s) /\ Elems(s) = Elems(withheld[c]) \cup Elems(queues[c])
      BY <2>1, ConcatElems, SeqTypes
  <2>3. queues'[c] = Trim(s) /\ withheld'[c] = <<>>
      BY <1>1, <2>1
  <2> HIDE DEF s
  <2>4. /\ Elems(s) = Elems(Trim(s)) \cup Trimmed(s)
        /\ Distinct(Trim(s)) /\ Elems(Trim(s)) \cap Trimmed(s) = {}
      BY <2>2, TrimElems
  <2> QED
      BY <2>2, <2>3, <2>4 DEF s
<1>4. \A c \in Channels : c \notin overdue => queues'[c] = queues[c] /\ withheld'[c] = withheld[c]
    BY <1>1
<1>5. Elems(<<>>) = {} /\ Distinct(<<>>)
    BY DEF Elems, Distinct
<1>6. \A c \in Channels : /\ Distinct(queues'[c]) /\ Distinct(withheld'[c])
                          /\ Elems(queues'[c]) \subseteq Elems(queues[c]) \cup Elems(withheld[c])
                          /\ Elems(withheld'[c]) \subseteq Elems(withheld[c])
                          /\ Elems(queues'[c]) \cap Elems(withheld'[c]) = {}
    BY <1>0, <1>3, <1>4, <1>5, StoresApart
<1>7. \A c, d \in Channels : c # d => /\ Elems(queues[c]) \cap Elems(queues[d]) = {}
                                      /\ Elems(queues[c]) \cap Elems(withheld[d]) = {}
                                      /\ Elems(withheld[c]) \cap Elems(withheld[d]) = {}
  <2> SUFFICES ASSUME NEW c \in Channels, NEW d \in Channels, c # d
               PROVE  /\ Elems(queues[c]) \cap Elems(queues[d]) = {}
                      /\ Elems(queues[c]) \cap Elems(withheld[d]) = {}
                      /\ Elems(withheld[c]) \cap Elems(withheld[d]) = {}
      OBVIOUS
  <2> DEFINE qc == <<"queue", c>>
             qd == <<"queue", d>>
             wc == <<"withheld", c>>
             wd == <<"withheld", d>>
  <2>1. /\ qc \in Places /\ qd \in Places /\ wc \in Places /\ wd \in Places
        /\ qc # qd /\ qc # wd /\ wc # wd
      BY PlaceKinds
  <2>2. At(qc) = queues[c] /\ At(qd) = queues[d] /\ At(wc) = withheld[c] /\ At(wd) = withheld[d]
      BY AtPlaces
  <2> HIDE DEF qc, qd, wc, wd
  <2> QED
      BY <1>0, <2>1, <2>2 DEF Apart
<1> DEFINE S == {"queue", "withheld"} \X Channels
<1>8. /\ S \in SUBSET Places
      /\ \A c \in Channels : <<"queue", c>> \in S /\ <<"withheld", c>> \in S
      /\ \A p \in S : \E c \in Channels : p = <<"queue", c>> \/ p = <<"withheld", c>>
    BY DEF Places
<1>9. \A p \in Places \ S : At(p)' = At(p) /\ ChannelAt(p)' = ChannelAt(p)
  <2> SUFFICES ASSUME NEW p \in Places \ S PROVE At(p)' = At(p) /\ ChannelAt(p)' = ChannelAt(p)
      OBVIOUS
  <2>1. CASE \E c \in Channels : p = <<"cancelled", c>>
      BY <1>1, <2>1, AtPlaces, AtPlacesPrime
  <2>2. CASE \E a \in Agents : p = <<"events", a>> \/ p = <<"merged", a>>
    <3>1. p[1] \in {"events", "merged"}
        BY <2>2
    <3>2. SameBatch(p[2])
        BY <1>1 DEF SameBatch
    <3> QED
        BY <3>1, <3>2, StaysPut
  <2> QED
      BY <1>8, <2>1, <2>2, PlaceKinds
<1> HIDE DEF S
<1>10. Apart'
  <2>1. \A p \in Places : Elems(At(p)) \cap {} = {}
      OBVIOUS
  <2>2. ASSUME NEW p \in S
        PROVE  /\ Distinct(At(p)')
               /\ \A e \in Elems(At(p)') : e \in {} \/ \E r \in S : e \in Elems(At(r))
    <3>1. CASE \E c \in Channels : p = <<"queue", c>>
      <4>1. PICK c \in Channels : p = <<"queue", c>>
          BY <3>1
      <4>2. At(p)' = queues'[c] /\ At(p) = queues[c] /\ At(<<"withheld", c>>) = withheld[c]
          BY <4>1, AtPlaces, AtPlacesPrime
      <4> QED
          BY <1>6, <1>8, <4>1, <4>2
    <3>2. CASE \E c \in Channels : p = <<"withheld", c>>
      <4>1. PICK c \in Channels : p = <<"withheld", c>>
          BY <3>2
      <4>2. At(p)' = withheld'[c] /\ At(p) = withheld[c]
          BY <4>1, AtPlaces, AtPlacesPrime
      <4> QED
          BY <1>6, <4>2
    <3> QED
        BY <1>8, <3>1, <3>2
  <2>3. ASSUME NEW p \in S, NEW r \in S, p # r PROVE Elems(At(p)') \cap Elems(At(r)') = {}
    <3>1. PICK c \in Channels : p = <<"queue", c>> \/ p = <<"withheld", c>>
        BY <1>8
    <3>2. PICK d \in Channels : r = <<"queue", d>> \/ r = <<"withheld", d>>
        BY <1>8
    <3>3. /\ (p = <<"queue", c>> /\ At(p)' = queues'[c]) \/ (p = <<"withheld", c>> /\ At(p)' = withheld'[c])
          /\ (r = <<"queue", d>> /\ At(r)' = queues'[d]) \/ (r = <<"withheld", d>> /\ At(r)' = withheld'[d])
        BY <3>1, <3>2, AtPlacesPrime
    <3>4. CASE c = d
      <4>1. \/ At(p)' = queues'[c] /\ At(r)' = withheld'[c]
            \/ At(p)' = withheld'[c] /\ At(r)' = queues'[c]
          BY <2>3, <3>3, <3>4
      <4> QED
          BY <1>6, <4>1
    <3>5. CASE c # d
      <4>1. /\ Elems(At(p)') \subseteq Elems(queues[c]) \cup Elems(withheld[c])
            /\ Elems(At(r)') \subseteq Elems(queues[d]) \cup Elems(withheld[d])
          BY <1>6, <3>3
      <4> QED
          BY <1>7, <3>5, <4>1
    <3> QED
        BY <3>4, <3>5
  <2>4. \A p \in Places \ S : At(p)' = At(p)
      BY <1>9
  <2> QED
      BY <1>0, <1>8, <2>1, <2>2, <2>3, <2>4, MoveApart
<1>11. next <= next' /\ lapsed \subseteq lapsed'
    BY <1>0, <1>1
<1>12. ASSUME NEW p \in Places, NEW e \in Elems(At(p)')
       PROVE  \E r \in Places :
                 /\ e \in Elems(At(r)) /\ ChannelAt(p)' = ChannelAt(r)
                 /\ p = r \/ (p[1] # "withheld" /\ ChannelAt(r) \in lapsed')
  <2>1. CASE p \notin S
      BY <1>9, <2>1
  <2>2. ASSUME NEW c \in Channels, p = <<"queue", c>>
        PROVE  \E r \in Places :
                  /\ e \in Elems(At(r)) /\ ChannelAt(p)' = ChannelAt(r)
                  /\ p = r \/ (p[1] # "withheld" /\ ChannelAt(r) \in lapsed')
    <3> DEFINE w == <<"withheld", c>>
    <3>1. /\ w \in Places /\ At(w) = withheld[c] /\ ChannelAt(w) = c /\ p[1] # "withheld"
          /\ At(p) = queues[c] /\ ChannelAt(p) = c /\ ChannelAt(p)' = c /\ At(p)' = queues'[c]
        BY <2>2, PlaceKinds, AtPlaces, AtPlacesPrime
    <3> HIDE DEF w
    <3>2. CASE e \in Elems(queues[c])
        BY <3>1, <3>2
    <3>3. CASE e \notin Elems(queues[c])
      <4>1. e \in Elems(withheld[c]) /\ c \in overdue
          BY <1>4, <1>6, <3>1, <3>3
      <4> QED
          BY <1>1, <3>1, <4>1
    <3> QED
        BY <3>2, <3>3
  <2>3. ASSUME NEW c \in Channels, p = <<"withheld", c>>
        PROVE  e \in Elems(At(p)) /\ ChannelAt(p)' = ChannelAt(p)
    <3>1. At(p)' = withheld'[c] /\ At(p) = withheld[c] /\ ChannelAt(p)' = ChannelAt(p)
        BY <2>3, AtPlaces, AtPlacesPrime
    <3> QED
        BY <1>6, <3>1
  <2> QED
      BY <1>8, <2>1, <2>2, <2>3
<1>13. ASSUME NEW e \in settled' \ settled
       PROVE  e < next' /\ \A p \in Places : e \notin Elems(At(p)')
  <2>1. PICK c \in overdue : e \in Trimmed(withheld[c] \o queues[c])
      BY <1>1
  <2>2. c \in Channels /\ e \in Elems(queues[c]) \cup Elems(withheld[c]) /\ e \notin Elems(queues'[c])
      BY <1>0, <1>3, <2>1
  <2>3. e \notin Elems(withheld'[c])
      BY <1>3, <1>5
  <2>4. \E r \in S : e \in Elems(At(r))
    <3>1. /\ <<"queue", c>> \in S /\ At(<<"queue", c>>) = queues[c]
          /\ <<"withheld", c>> \in S /\ At(<<"withheld", c>>) = withheld[c]
        BY <1>8, <2>2, AtPlaces
    <3> QED
        BY <2>2, <3>1
  <2>5. ASSUME NEW p \in S PROVE e \notin Elems(At(p)')
    <3>1. PICK d \in Channels : p = <<"queue", d>> \/ p = <<"withheld", d>>
        BY <1>8
    <3>2. At(p)' = queues'[d] \/ At(p)' = withheld'[d]
        BY <3>1, AtPlacesPrime
    <3>3. CASE d = c
        BY <2>2, <2>3, <3>2, <3>3
    <3>4. CASE d # c
        BY <1>6, <1>7, <2>2, <3>2, <3>4
    <3> QED
        BY <3>3, <3>4
  <2>6. \A p \in Places \ S : At(p)' = At(p)
      BY <1>9
  <2> QED
      BY <1>8, <1>11, <2>4, <2>5, <2>6, SettledHere
<1>14. ASSUME NEW d \in Channels, NEW x \in Elems(withheld'[d]) PROVE x # next
  <2>1. <<"withheld", d>> \in Places /\ At(<<"withheld", d>>) = withheld[d]
      BY PlaceKinds, AtPlaces
  <2>2. x \in Elems(withheld[d])
      BY <1>6
  <2>3. x < next
      BY <2>1, <2>2 DEF PlaceInv, Arrived
  <2> QED
      BY <1>0, <2>3
<1>15. \A p \in Places : \A e \in Elems(At(p)') :
          \/ e = next /\ next < next'
          \/ \E r \in Places :
                /\ e \in Elems(At(r)) /\ ChannelAt(p)' = ChannelAt(r)
                /\ \/ p = r
                   \/ p[1] # "withheld" /\ r[1] # "withheld"
                   \/ p[1] # "withheld" /\ ChannelAt(r) \in lapsed'
                   \/ p[1] # "withheld" /\ e \notin settled' /\ \A d : ~ Carried(d, e)'
    BY <1>12
<1>16. \A d \in Channels : \A x \in Elems(withheld'[d]) :
          /\ x = next \/ Carried(d, x) => Carried(d, x)'
          /\ Succeeds(d, x) => Succeeds(d, x)'
    BY <1>2, <1>14
<1> QED
    BY <1>2, <1>10, <1>11, <1>13, <1>15, <1>16, PlaceStep

\* Events move between the queue, the cancelled events and the batches of S.
LEMMA MoveStep ==
    ASSUME PlaceInv, QueueTypeOK, QueueTypeOK', NEW S \in SUBSET Places, \A p \in S : p[1] # "withheld",
           SteersRunning', OneCarrier',
           \A d, x : (Carried(d, x)' <=> Carried(d, x)) /\ (Succeeds(d, x)' <=> Succeeds(d, x)),
           withheld' = withheld, next' = next, lapsed' = lapsed,
           \A p \in Places \ S : At(p)' = At(p) /\ ChannelAt(p)' = ChannelAt(p),
           \A p \in S : /\ Distinct(At(p)')
                        /\ \A e \in Elems(At(p)') :
                              \E q \in S : e \in Elems(At(q)) /\ ChannelAt(p)' = ChannelAt(q),
           \A p, q \in S : p # q => Elems(At(p)') \cap Elems(At(q)') = {},
           \A e \in settled' \ settled : /\ \E q \in S : e \in Elems(At(q))
                                         /\ \A p \in S : e \notin Elems(At(p)')
    PROVE  PlaceInv'
<1>0. Apart /\ next \in Nat
    BY DEF PlaceInv, QueueTypeOK
<1>1. Apart'
  <2>1. \A p \in Places : Elems(At(p)) \cap {} = {}
      OBVIOUS
  <2>2. \A p \in S : /\ Distinct(At(p)')
                     /\ \A e \in Elems(At(p)') : e \in {} \/ \E q \in S : e \in Elems(At(q))
      OBVIOUS
  <2>3. \A p \in Places \ S : At(p)' = At(p)
      OBVIOUS
  <2> QED
      BY <1>0, <2>1, <2>2, <2>3, MoveApart
<1>2. next <= next' /\ lapsed \subseteq lapsed'
    BY <1>0
<1>3. \A p \in Places : \A e \in Elems(At(p)') :
         \/ e = next /\ next < next'
         \/ \E r \in Places :
               /\ e \in Elems(At(r)) /\ ChannelAt(p)' = ChannelAt(r)
               /\ \/ p = r
                  \/ p[1] # "withheld" /\ r[1] # "withheld"
                  \/ p[1] # "withheld" /\ ChannelAt(r) \in lapsed'
                  \/ p[1] # "withheld" /\ e \notin settled' /\ \A d : ~ Carried(d, e)'
  <2> SUFFICES ASSUME NEW p \in Places, NEW e \in Elems(At(p)')
               PROVE  \E r \in Places : /\ e \in Elems(At(r)) /\ ChannelAt(p)' = ChannelAt(r)
                                        /\ p = r \/ (p[1] # "withheld" /\ r[1] # "withheld")
      OBVIOUS
  <2>1. CASE p \in S
      BY <2>1
  <2>2. CASE p \notin S
      BY <2>2
  <2> QED
      BY <2>1, <2>2
<1>4. ASSUME NEW e \in settled' \ settled
      PROVE  e < next' /\ \A p \in Places : e \notin Elems(At(p)')
  <2>1. \A p \in Places \ S : At(p)' = At(p)
      OBVIOUS
  <2> QED
      BY <1>2, <2>1, SettledHere
<1>5. ASSUME NEW d \in Channels, NEW x \in Elems(withheld'[d]) PROVE x # next
  <2>1. <<"withheld", d>> \in Places /\ At(<<"withheld", d>>) = withheld[d]
      BY PlaceKinds, AtPlaces
  <2>2. x < next
      BY <2>1 DEF PlaceInv, Arrived
  <2> QED
      BY <1>0, <2>2
<1>6. \A d \in Channels : \A x \in Elems(withheld'[d]) :
         /\ x = next \/ Carried(d, x) => Carried(d, x)'
         /\ Succeeds(d, x) => Succeeds(d, x)'
    BY <1>5
<1> QED
    BY <1>1, <1>2, <1>3, <1>4, <1>6, PlaceStep

\* A batch of channel c: what it takes from the queue and the cancelled
\* events, and what it leaves.
Batched(c, events, merged, rest) ==
    /\ events \in Seq(Events) /\ merged \in Seq(Events) /\ rest \in Seq(Events)
    /\ Distinct(events) /\ Distinct(merged) /\ Distinct(rest)
    /\ Elems(events) \cap Elems(merged) = {} /\ Elems(events) \cap Elems(rest) = {}
    /\ Elems(merged) \cap Elems(rest) = {}
    /\ Elems(events) \cup Elems(merged) \cup Elems(rest) \subseteq Elems(queues[c]) \cup Elems(cancelled[c])

\* An idle agent takes the batch.
LEMMA ClaimPlaces ==
    ASSUME PlaceInv, QueueTypeOK, QueueTypeOK', NEW c \in Channels, NEW a \in Agents,
           NEW events, NEW merged, NEW rest, Batched(c, events, merged, rest),
           Flush(c), Claim(c, a, events, merged, rest)
    PROVE  PlaceInv'
<1>0. StoresOK /\ AgentsOK /\ SteersRunning /\ OneCarrier
    BY TypeParts DEF PlaceInv
<1>1. /\ cancelled' = [cancelled EXCEPT ![c] = <<>>] /\ UNCHANGED <<withheld, acks, next, lapsed>>
      /\ slots[a] = "idle" /\ tasks' = [tasks EXCEPT ![a] = Turn(c, events, merged)]
      /\ queues' = [queues EXCEPT ![c] = rest] /\ settled' = settled
    BY DEF Flush, Claim, config
<1>2. /\ tasks'[a] = Turn(c, events, merged) /\ \A b \in Agents : b # a => tasks'[b] = tasks[b]
      /\ tasks[a].phase = "none"
    BY <1>0, <1>1 DEF AgentsOK
<1>3. LET t == Turn(c, events, merged) IN
      /\ t.phase = "running" /\ t.steers = <<>> /\ t.channel = c /\ t.events = events /\ t.merged = merged
    BY DEF Turn, Task
<1>4. tasks[a].steers = <<>>
    BY <1>0, <1>2 DEF SteersRunning
<1>5. /\ SteersRunning' /\ OneCarrier'
      /\ \A d, x : (Carried(d, x)' <=> Carried(d, x)) /\ (Succeeds(d, x)' <=> Succeeds(d, x))
  <2>1. \A b \in Agents : /\ tasks'[b].steers = tasks[b].steers
                          /\ tasks[b].steers # <<>> =>
                                tasks'[b].channel = tasks[b].channel /\ tasks'[b].phase = tasks[b].phase
      BY <1>2, <1>3, <1>4
  <2> QED
      BY <1>0, <1>1, <2>1, SameCarriers
<1>6. HeldBatch(a)' /\ ~ HeldBatch(a)
    BY <1>2, <1>3 DEF HeldBatch
<1> DEFINE q == <<"queue", c>>
           x == <<"cancelled", c>>
           ev == <<"events", a>>
           mg == <<"merged", a>>
           S == {q, x, ev, mg}
<1>7. /\ q \in Places /\ x \in Places /\ ev \in Places /\ mg \in Places
      /\ q # x /\ q # ev /\ q # mg /\ x # ev /\ x # mg /\ ev # mg
      /\ q[1] # "withheld" /\ x[1] # "withheld" /\ ev[1] # "withheld" /\ mg[1] # "withheld"
    BY PlaceKinds
<1>8. /\ At(q) = queues[c] /\ At(x) = cancelled[c] /\ At(ev) = <<>> /\ At(mg) = <<>>
      /\ ChannelAt(q) = c /\ ChannelAt(x) = c
    BY <1>6, AtPlaces
<1>9. /\ At(q)' = rest /\ At(x)' = <<>> /\ ChannelAt(q)' = c /\ ChannelAt(x)' = c
    BY <1>0, <1>1, AtPlacesPrime DEF StoresOK
<1>10. At(ev)' = events /\ At(mg)' = merged /\ ChannelAt(ev)' = c /\ ChannelAt(mg)' = c
    BY <1>2, <1>3, <1>6, AtPlacesPrime
<1>11. \A p \in Places \ S : At(p)' = At(p) /\ ChannelAt(p)' = ChannelAt(p)
  <2>1. \A d \in Channels : d # c => queues'[d] = queues[d] /\ withheld'[d] = withheld[d]
                                     /\ cancelled'[d] = cancelled[d]
      BY <1>0, <1>1 DEF StoresOK
  <2>2. \A b \in Agents : b # a => SameBatch(b)
      BY <1>2 DEF SameBatch
  <2>3. \A p \in Places : p # q /\ p # <<"withheld", c>> /\ p # x /\ p # ev /\ p # mg
                          => At(p)' = At(p) /\ ChannelAt(p)' = ChannelAt(p)
      BY <2>1, <2>2, ElsewhereTurn
  <2>4. \A p : p = <<"withheld", c>> => At(p)' = At(p) /\ ChannelAt(p)' = ChannelAt(p)
      BY <1>1, AtPlaces, AtPlacesPrime
  <2> QED
      BY <2>3, <2>4
<1> HIDE DEF q, x, ev, mg
<1>12. Elems(<<>>) = {} /\ Distinct(<<>>)
    BY DEF Elems, Distinct
<1>13. \A p \in S : /\ Distinct(At(p)')
                    /\ \A e \in Elems(At(p)') :
                          \E r \in S : e \in Elems(At(r)) /\ ChannelAt(p)' = ChannelAt(r)
  <2>1. \A p \in S : Distinct(At(p)') /\ (Elems(At(p)') # {} => ChannelAt(p)' = c)
                     /\ Elems(At(p)') \subseteq Elems(queues[c]) \cup Elems(cancelled[c])
      BY <1>9, <1>10, <1>12 DEF Batched
  <2>2. ASSUME NEW e \in Elems(queues[c]) \cup Elems(cancelled[c])
        PROVE  \E r \in S : e \in Elems(At(r)) /\ ChannelAt(r) = c
      BY <1>8
  <2> HIDE DEF S
  <2> QED
      BY <2>1, <2>2
<1>14. \A p, r \in S : p # r => Elems(At(p)') \cap Elems(At(r)') = {}
    BY <1>9, <1>10, <1>12 DEF Batched
<1>15. S \in SUBSET Places /\ \A p \in S : p[1] # "withheld"
    BY <1>7
<1> HIDE DEF S
<1> QED
    BY <1>1, <1>5, <1>11, <1>13, <1>14, <1>15, MoveStep

\* No agent is idle: the events go back to the front of the queue.
LEMMA ExhaustedPlaces ==
    ASSUME PlaceInv, QueueTypeOK, QueueTypeOK', NEW c \in Channels,
           NEW events, NEW merged, NEW rest, Batched(c, events, merged, rest),
           Flush(c), Exhausted(c, events, rest)
    PROVE  PlaceInv'
<1>0. StoresOK /\ SteersRunning /\ OneCarrier
    BY TypeParts DEF PlaceInv
<1>1. PICK s : s = events \o rest
    OBVIOUS
<1>2. /\ cancelled' = [cancelled EXCEPT ![c] = <<>>] /\ UNCHANGED <<withheld, acks, next, lapsed>>
      /\ tasks' = tasks /\ queues' = [queues EXCEPT ![c] = Trim(s)] /\ settled' = settled \cup Trimmed(s)
    BY <1>1 DEF Flush, Exhausted, config
<1>3. /\ SteersRunning' /\ OneCarrier'
      /\ \A d, x : (Carried(d, x)' <=> Carried(d, x)) /\ (Succeeds(d, x)' <=> Succeeds(d, x))
    BY <1>0, <1>2, SameCarriers
<1>4. s \in Seq(Events) /\ Elems(s) = Elems(events) \cup Elems(rest) /\ Distinct(s)
    BY <1>1, ConcatElems, SeqTypes DEF Batched
<1>5. /\ Elems(s) = Elems(Trim(s)) \cup Trimmed(s)
      /\ Distinct(Trim(s)) /\ Elems(Trim(s)) \cap Trimmed(s) = {}
    BY <1>4, TrimElems
<1>6. Elems(s) \subseteq Elems(queues[c]) \cup Elems(cancelled[c])
    BY <1>4 DEF Batched
<1> DEFINE q == <<"queue", c>>
           x == <<"cancelled", c>>
           S == {q, x}
<1>7. /\ q \in Places /\ x \in Places /\ q # x /\ q[1] # "withheld" /\ x[1] # "withheld"
    BY PlaceKinds
<1>8. /\ At(q) = queues[c] /\ At(x) = cancelled[c] /\ ChannelAt(q) = c /\ ChannelAt(x) = c
    BY AtPlaces
<1>9. /\ At(q)' = Trim(s) /\ At(x)' = <<>> /\ ChannelAt(q)' = c /\ ChannelAt(x)' = c
    BY <1>0, <1>2, AtPlacesPrime DEF StoresOK
<1>10. \A p \in Places \ S : At(p)' = At(p) /\ ChannelAt(p)' = ChannelAt(p)
  <2>1. \A d \in Channels : d # c => queues'[d] = queues[d] /\ withheld'[d] = withheld[d]
                                     /\ cancelled'[d] = cancelled[d]
      BY <1>0, <1>2 DEF StoresOK
  <2>2. \A b \in Agents : SameBatch(b)
      BY <1>2 DEF SameBatch
  <2>3. \A p \in Places : p # q /\ p # <<"withheld", c>> /\ p # x
                          => At(p)' = At(p) /\ ChannelAt(p)' = ChannelAt(p)
      BY <2>1, <2>2, ElsewhereStores
  <2>4. \A p : p = <<"withheld", c>> => At(p)' = At(p) /\ ChannelAt(p)' = ChannelAt(p)
      BY <1>2, AtPlaces, AtPlacesPrime
  <2> QED
      BY <2>3, <2>4
<1> HIDE DEF q, x
<1>11. Elems(<<>>) = {} /\ Distinct(<<>>)
    BY DEF Elems, Distinct
<1>12. \A e \in Elems(s) : \E r \in S : e \in Elems(At(r)) /\ ChannelAt(r) = c
    BY <1>6, <1>8
<1>13. \A p \in S : /\ Distinct(At(p)')
                    /\ \A e \in Elems(At(p)') :
                          \E r \in S : e \in Elems(At(r)) /\ ChannelAt(p)' = ChannelAt(r)
  <2>1. \A p \in S : Distinct(At(p)') /\ ChannelAt(p)' = c /\ Elems(At(p)') \subseteq Elems(s)
      BY <1>5, <1>9, <1>11
  <2> HIDE DEF S
  <2> QED
      BY <1>12, <2>1
<1>14. \A p, r \in S : p # r => Elems(At(p)') \cap Elems(At(r)') = {}
    BY <1>9, <1>11
<1>15. S \in SUBSET Places /\ \A p \in S : p[1] # "withheld"
    BY <1>7
<1>16. \A e \in settled' \ settled : /\ \E r \in S : e \in Elems(At(r))
                                     /\ \A p \in S : e \notin Elems(At(p)')
    BY <1>2, <1>5, <1>9, <1>11, <1>12
<1> HIDE DEF S
<1> QED
    BY <1>2, <1>3, <1>10, <1>13, <1>14, <1>15, <1>16, MoveStep

\* What flush_next hands out was queued or cancelled.
LEMMA DispatchPlaces ==
    ASSUME PlaceInv, QueueTypeOK, QueueTypeOK', Dispatch
    PROVE  PlaceInv'
<1>0. StoresOK /\ Apart
    BY TypeParts DEF PlaceInv
<1>1. ASSUME NEW c \in Channels, NEW events, NEW merged, NEW rest,
             Batched(c, events, merged, rest), Hand(c, events, merged, rest)
      PROVE  PlaceInv'
    BY <1>1, ClaimPlaces, ExhaustedPlaces DEF Hand
<1>2. ASSUME NEW c \in Channels, FlushQueued(c) PROVE PlaceInv'
  <2>1. PICK q, x, n : q = queues[c] /\ x = cancelled[c] /\ n = Least(MAX_BATCH_EVENTS, Len(q))
      OBVIOUS
  <2>2. /\ q \in Seq(Events) /\ x \in Seq(Events) /\ Distinct(q) /\ Distinct(x)
        /\ Elems(q) \cap Elems(x) = {}
      BY <1>0, <2>1, StoresApart DEF StoresOK
  <2>3. /\ n \in 0..Len(q) /\ n + 1 \in 1..Len(q) + 1 /\ 1 \in 1..Len(q) + 1
        /\ Len(q) \in 0..Len(q)
      BY <2>1, <2>2, QueueAssumption DEF Least
  <2>4. PICK u, v : u = SubSeq(q, 1, n) /\ v = SubSeq(q, n + 1, Len(q))
      OBVIOUS
  <2>5. PICK events \in Sorted(u) : Hand(c, events, x, v)
      BY <1>2, <2>1, <2>4 DEF FlushQueued
  <2>6. u \in Seq(Events) /\ v \in Seq(Events)
      BY <2>2, <2>3, <2>4, SubSeqType
  <2>7. /\ Elems(q) = Elems(u) \cup Elems(v) /\ Distinct(u) /\ Distinct(v)
        /\ Elems(u) \cap Elems(v) = {}
      BY <2>2, <2>3, <2>4, SplitElems
  <2>8. events \in Seq(Events) /\ Elems(events) = Elems(u) /\ Distinct(events)
      BY <2>5, <2>6, <2>7, SortedType, SortedElems
  <2>9. Batched(c, events, x, v)
      BY <2>1, <2>2, <2>6, <2>7, <2>8 DEF Batched
  <2> QED
      BY <1>1, <2>5, <2>9
<1>3. ASSUME NEW c \in Channels, FlushCancelled(c) PROVE PlaceInv'
  <2>1. PICK q, x, z : q = queues[c] /\ x = cancelled[c] /\ z = <<>>
      OBVIOUS
  <2>2. /\ q \in Seq(Events) /\ x \in Seq(Events) /\ Distinct(q) /\ Distinct(x)
        /\ Elems(q) \cap Elems(x) = {}
      BY <1>0, <2>1, StoresApart DEF StoresOK
  <2>3. z \in Seq(Events) /\ Elems(z) = {} /\ Distinct(z)
      BY <2>1 DEF Elems, Distinct
  <2>4. Hand(c, x, z, q)
      BY <1>3, <2>1 DEF FlushCancelled
  <2>5. Batched(c, x, z, q)
      BY <2>1, <2>2, <2>3 DEF Batched
  <2> QED
      BY <1>1, <2>4, <2>5
<1>4. CASE FlushNothing
  <2>1. tasks' = tasks /\ acks' = acks /\ UNCHANGED <<queues, withheld, cancelled, settled, next, lapsed>>
      BY <1>4 DEF FlushNothing, stores, config
  <2> QED
      BY <2>1, StillStep
<1> QED
    BY <1>2, <1>3, <1>4, ExpirePlaces DEF Dispatch

\* A heartbeat turn has no batch.
LEMMA HeartbeatPlaces ==
    ASSUME PlaceInv, QueueTypeOK, QueueTypeOK', NEW a \in Agents, Heartbeat(a)
    PROVE  PlaceInv'
<1>0. AgentsOK /\ SteersRunning /\ OneCarrier /\ next \in Nat
    BY TypeParts DEF PlaceInv, QueueTypeOK
<1>1. /\ slots[a] = "idle" /\ tasks' = [tasks EXCEPT ![a] = Turn(NoChannel, <<>>, <<>>)]
      /\ UNCHANGED <<queues, withheld, cancelled, acks, next, lapsed, settled>>
    BY DEF Heartbeat, TimerStep, stores, config
<1>2. /\ tasks'[a] = Turn(NoChannel, <<>>, <<>>) /\ \A b \in Agents : b # a => tasks'[b] = tasks[b]
      /\ tasks[a].phase = "none"
    BY <1>0, <1>1 DEF AgentsOK
<1>3. LET t == Turn(NoChannel, <<>>, <<>>) IN
      /\ t.phase = "running" /\ t.steers = <<>> /\ t.events = <<>> /\ t.merged = <<>>
    BY DEF Turn, Task
<1>4. tasks[a].steers = <<>>
    BY <1>0, <1>2 DEF SteersRunning
<1>5. /\ SteersRunning' /\ OneCarrier'
      /\ \A d, x : (Carried(d, x)' <=> Carried(d, x)) /\ (Succeeds(d, x)' <=> Succeeds(d, x))
  <2>1. \A b \in Agents : /\ tasks'[b].steers = tasks[b].steers
                          /\ tasks[b].steers # <<>> =>
                                tasks'[b].channel = tasks[b].channel /\ tasks'[b].phase = tasks[b].phase
      BY <1>2, <1>3, <1>4
  <2> QED
      BY <1>0, <1>1, <2>1, SameCarriers
<1> DEFINE ev == <<"events", a>>
           mg == <<"merged", a>>
<1>6. At(ev)' = <<>> /\ At(mg)' = <<>>
    BY <1>2, <1>3, AtPlacesPrime
<1>7. \A p \in Places : p # ev /\ p # mg => At(p)' = At(p) /\ ChannelAt(p)' = ChannelAt(p)
  <2>1. \A b \in Agents : b # a => SameBatch(b)
      BY <1>2 DEF SameBatch
  <2> QED
      BY <1>1, <2>1, ElsewhereBatch
<1> HIDE DEF ev, mg
<1>8. Elems(<<>>) = {} /\ Distinct(<<>>)
    BY DEF Elems, Distinct
<1>9. \A p \in Places : /\ Distinct(At(p)')
                        /\ \A x \in Elems(At(p)') : x \in Elems(At(p)) /\ ChannelAt(p)' = ChannelAt(p)
    BY <1>6, <1>7, <1>8 DEF PlaceInv, Apart
<1>10. next <= next' /\ lapsed \subseteq lapsed' /\ settled' = settled
    BY <1>0, <1>1
<1> QED
    BY <1>5, <1>9, <1>10, ShrinkStep

\* The other timers do not touch events.
LEMMA TimersPlaces ==
    ASSUME PlaceInv, QueueTypeOK, QueueTypeOK', Timers
    PROVE  PlaceInv'
<1>1. ASSUME tasks' = tasks, acks' = acks,
             UNCHANGED <<queues, withheld, cancelled, settled, next, lapsed>>
      PROVE  PlaceInv'
    BY <1>1, StillStep
<1>2. CASE Maintain
    BY <1>1, <1>2 DEF Maintain, stores, config
<1>3. ASSUME NEW a \in Agents, Respawned(a) \/ RespawnFailed(a) PROVE PlaceInv'
    BY <1>1, <1>3 DEF Respawned, RespawnFailed, TimerStep, stores, config
<1>4. ASSUME NEW c \in Channels, BackoffElapses(c) \/ DeadlinePasses(c) PROVE PlaceInv'
    BY <1>1, <1>4 DEF BackoffElapses, DeadlinePasses, TimerStep, stores, config
<1> QED
    BY <1>2, <1>3, <1>4, HeartbeatPlaces DEF Timers

\* At the start nothing is anywhere.
LEMMA InitPlaces == Init => PlaceInv
<1> SUFFICES ASSUME Init PROVE PlaceInv
    OBVIOUS
<1>1. /\ queues = [c \in Channels |-> <<>>] /\ withheld = [c \in Channels |-> <<>>]
      /\ cancelled = [c \in Channels |-> <<>>] /\ tasks = [a \in Agents |-> NoTask]
      /\ acks = {} /\ settled = {}
    BY DEF Init
<1>2. NoTask.phase = "none" /\ NoTask.steers = <<>> /\ NoTask.events = <<>> /\ NoTask.merged = <<>>
    BY DEF NoTask, Task
<1>3. Elems(<<>>) = {} /\ Distinct(<<>>)
    BY DEF Elems, Distinct
<1>4. \A a \in Agents : tasks[a].steers = <<>> /\ tasks[a].events = <<>> /\ tasks[a].merged = <<>>
    BY <1>1, <1>2
<1>5. \A p \in Places : At(p) = <<>>
  <2> SUFFICES ASSUME NEW p \in Places PROVE At(p) = <<>>
      OBVIOUS
  <2>1. CASE \E c \in Channels : p = <<"queue", c>> \/ p = <<"withheld", c>> \/ p = <<"cancelled", c>>
      BY <1>1, <2>1, AtPlaces
  <2>2. CASE \E a \in Agents : p = <<"events", a>> \/ p = <<"merged", a>>
      BY <1>4, <2>2, AtPlaces
  <2> QED
      BY <2>1, <2>2, PlaceKinds
<1>6. \A c, e : ~ Carried(c, e)
    BY <1>1, <1>3, <1>4 DEF Carried
<1>7. SteersRunning /\ OneCarrier
    BY <1>1, <1>3, <1>4 DEF SteersRunning, OneCarrier
<1>8. Apart /\ Arrived /\ Unsettled /\ CarriedIsWithheld
    BY <1>1, <1>3, <1>5, <1>6 DEF Apart, Arrived, Unsettled, CarriedIsWithheld
<1>9. WithheldIsCarried
    BY <1>1, <1>3 DEF WithheldIsCarried
<1> QED
    BY <1>7, <1>8, <1>9 DEF PlaceInv

\* Every step keeps the invariant.
LEMMA PlacesInductive ==
    ASSUME PlaceInv, QueueTypeOK, QueueTypeOK', [Next]_queueVars
    PROVE  PlaceInv'
<1>1. CASE Next
    BY <1>1, FromRelayPlaces, AnswerSteerPlaces, TurnEndsPlaces, ResultsPlaces, AckSteerPlaces,
       DispatchPlaces, TimersPlaces DEF Next
<1>2. CASE UNCHANGED queueVars
  <2>1. tasks' = tasks /\ acks' = acks /\ UNCHANGED <<queues, withheld, cancelled, settled, next, lapsed>>
      BY <1>2 DEF queueVars
  <2> QED
      BY <2>1, StillStep
<1> QED
    BY <1>1, <1>2

\* Whatever the number of channels, agents and events: an event is in one
\* place at a time, and its steer request or the answer to it is unique.
THEOREM PlaceInvHolds == QueueSpec => []PlaceInv
<1>1. QueueTypeOK /\ QueueTypeOK' /\ PlaceInv /\ [Next]_queueVars => PlaceInv'
    BY PlacesInductive
<1>2. Init => PlaceInv
    BY InitPlaces
<1> QED
    BY <1>1, <1>2, QueueTyped, PTL DEF QueueSpec

\* No double delivery: no event is in two places or twice in one, and what a
\* turn, a steer or a documented drop has settled is in no queue and no batch,
\* while push, requeue, steering and its answers interleave in any way, for
\* every channel of which no turn outlasted its deadline.
THEOREM EventsSettledOnce == QueueSpec => []SettledOnce
<1>1. PlaceInv => SettledOnce
  <2> SUFFICES ASSUME PlaceInv PROVE SettledOnce
      OBVIOUS
  <2>1. Apart /\ Unsettled
      BY DEF PlaceInv
  <2>2. ASSUME NEW p \in Places, NEW q \in Places, NEW i \in DOMAIN At(p), NEW j \in DOMAIN At(q),
               At(p)[i] = At(q)[j]
        PROVE  p = q /\ i = j
    <3>1. At(p)[i] \in Elems(At(p)) /\ At(q)[j] \in Elems(At(q))
        BY DEF Elems
    <3>2. p = q
        BY <2>1, <2>2, <3>1 DEF Apart
    <3> QED
        BY <2>1, <2>2, <3>2 DEF Apart, Distinct
  <2> QED
      BY <2>1, <2>2 DEF SettledOnce, Unsettled
<1> QED
    BY <1>1, PlaceInvHolds, PTL

\* A withheld event always has a steer request or an answer on its way: no
\* exit of a turn, no removal and no deadline leaves it in the side table.
THEOREM SteersAnswered == QueueSpec => []NoOrphanedSteer
<1>1. PlaceInv => NoOrphanedSteer
  <2> SUFFICES ASSUME PlaceInv, NEW c \in Channels, NEW e \in Elems(withheld[c]),
                      ~ \E k \in acks : k.channel = c /\ k.event = e
               PROVE  \E a \in TasksOf(c) : e \in Elems(tasks[a].steers)
      BY DEF NoOrphanedSteer
  <2>1. Carried(c, e)
      BY DEF PlaceInv, WithheldIsCarried
  <2>2. PICK a \in Agents : tasks[a].channel = c /\ e \in Elems(tasks[a].steers)
      BY <2>1 DEF Carried
  <2>3. tasks[a].steers # <<>>
      BY <2>2 DEF Elems
  <2>4. tasks[a].phase = "running"
      BY <2>3 DEF PlaceInv, SteersRunning
  <2> QED
      BY <2>2, <2>4 DEF TasksOf
<1> QED
    BY <1>1, PlaceInvHolds, PTL

-----------------------------------------------------------------------------
(* What is never lost.                                                     *)

\* An event that is somewhere or was settled.
Kept(e) == e \in Held \cup settled

\* A success under way has settled its event.
SuccessSettled == \A k \in acks : k.result = "success" => k.event \in settled

\* A step after which what was settled, queued, withheld or in the events of
\* a batch is still kept, and an event that arrived as well.
NothingLost ==
    /\ settled \subseteq settled'
    /\ \A c \in Channels : \A e \in Elems(queues[c]) \cup Elems(withheld[c]) : Kept(e)'
    /\ \A a \in Agents : HeldBatch(a) => \A e \in Elems(tasks[a].events) : Kept(e)'
    /\ next' = next \/ (next' = next + 1 /\ \A e : e = next => Kept(e)')

\* After a step, what is in a store, in a batch or settled is kept.
LEMMA KeptPlacesPrime ==
    /\ \A c \in Channels : \A e \in Elems(queues'[c]) \cup Elems(withheld'[c]) \cup Elems(cancelled'[c]) : Kept(e)'
    /\ \A a \in Agents : HeldBatch(a)' => \A e \in BatchOf(tasks'[a]) : Kept(e)'
    /\ \A e \in settled' : Kept(e)'
<1>1. \A p \in Places : \A e \in Elems(At(p)') : Kept(e)'
    BY DEF Kept, Held
<1>2. ASSUME NEW c \in Channels, NEW e \in Elems(queues'[c]) \cup Elems(withheld'[c]) \cup Elems(cancelled'[c])
      PROVE  Kept(e)'
  <2>1. /\ <<"queue", c>> \in Places /\ <<"withheld", c>> \in Places /\ <<"cancelled", c>> \in Places
        /\ At(<<"queue", c>>)' = queues'[c] /\ At(<<"withheld", c>>)' = withheld'[c]
        /\ At(<<"cancelled", c>>)' = cancelled'[c]
      BY PlaceKinds, AtPlacesPrime
  <2> QED
      BY <1>1, <1>2, <2>1
<1>3. ASSUME NEW a \in Agents, HeldBatch(a)', NEW e \in BatchOf(tasks'[a]) PROVE Kept(e)'
  <2>1. /\ <<"events", a>> \in Places /\ <<"merged", a>> \in Places
        /\ At(<<"events", a>>)' = tasks'[a].events /\ At(<<"merged", a>>)' = tasks'[a].merged
      BY <1>3, PlaceKinds, AtPlacesPrime
  <2> QED
      BY <1>1, <1>3, <2>1 DEF BatchOf
<1> QED
    BY <1>2, <1>3 DEF Kept

\* The batches of turns stay as they are.
LEMMA BatchesStay ==
    ASSUME \A a \in Agents : SameBatch(a)
    PROVE  \A a \in Agents : HeldBatch(a) => \A e \in Elems(tasks[a].events) : Kept(e)'
<1> SUFFICES ASSUME NEW a \in Agents, HeldBatch(a), NEW e \in Elems(tasks[a].events) PROVE Kept(e)'
    OBVIOUS
<1>1. HeldBatch(a)'
    BY DEF HeldBatch, SameBatch
<1>2. e \in BatchOf(tasks'[a])
    BY DEF BatchOf, SameBatch
<1> QED
    BY <1>1, <1>2, KeptPlacesPrime

\* The stores stay as they are.
LEMMA StoresStay ==
    ASSUME queues' = queues, withheld' = withheld, settled \subseteq settled', next' = next,
           \A a \in Agents : HeldBatch(a) => \A e \in Elems(tasks[a].events) : Kept(e)'
    PROVE  NothingLost
BY KeptPlacesPrime DEF NothingLost

\* What makes room for a new event is settled.
LEMMA RoomKeeps ==
    ASSUME StoresOK, NEW c \in Channels, Accepted(c)
    PROVE  /\ settled \subseteq settled' /\ Room(c) \in Seq(Events)
           /\ Elems(queues[c]) \subseteq Elems(Room(c)) \cup settled'
<1>1. queues[c] \in Seq(Events)
    BY DEF StoresOK
<1>2. CASE Full(c)
  <2>1. queues[c] # <<>>
      BY <1>1, <1>2, QueueAssumption DEF Full
  <2>2. Room(c) = Tail(queues[c]) /\ settled' = settled \cup {Head(queues[c])}
      BY <1>2 DEF Room, Accepted
  <2>3. Tail(queues[c]) \in Seq(Events)
      BY <1>1, <2>1
  <2> QED
      BY <1>1, <2>1, <2>2, <2>3, TailElems
<1>3. CASE ~ Full(c)
    BY <1>1, <1>3 DEF Room, Accepted
<1> QED
    BY <1>2, <1>3

\* What the relay sends loses nothing.
LEMMA FromRelayLoses ==
    ASSUME QueueTypeOK, FromRelay
    PROVE  NothingLost
<1>0. StoresOK /\ AgentsOK /\ next \in Nat
    BY TypeParts DEF QueueTypeOK
<1>1. ASSUME NEW c \in Channels, Arrival(c) PROVE next' = next + 1 /\ next \in Events
    BY <1>0, <1>1, QueueAssumption DEF Arrival, Events, QueueTypeOK
<1>2. ASSUME NEW c \in Channels, PushRefused(c) PROVE NothingLost
  <2>1. /\ queues' = queues /\ withheld' = withheld /\ settled' = settled \cup {next}
        /\ tasks' = tasks /\ next' = next + 1
      BY <1>1, <1>2 DEF PushRefused
  <2>2. \A a \in Agents : SameBatch(a)
      BY <2>1 DEF SameBatch
  <2>3. \A e : e = next => Kept(e)'
      BY <2>1, KeptPlacesPrime
  <2> QED
      BY <2>1, <2>2, <2>3, BatchesStay, KeptPlacesPrime DEF NothingLost
<1>3. ASSUME NEW c \in Channels, Accepted(c), queues' = [queues EXCEPT ![c] = Append(Room(c), next)],
             withheld' = withheld, \A a \in Agents : SameBatch(a)
      PROVE  NothingLost
  <2>1. next' = next + 1 /\ next \in Events
      BY <1>1, <1>3 DEF Accepted
  <2>2. /\ settled \subseteq settled' /\ Room(c) \in Seq(Events)
        /\ Elems(queues[c]) \subseteq Elems(Room(c)) \cup settled'
      BY <1>0, <1>3, RoomKeeps
  <2>3. queues'[c] = Append(Room(c), next) /\ \A d \in Channels : d # c => queues'[d] = queues[d]
      BY <1>0, <1>3 DEF StoresOK
  <2>4. Elems(queues'[c]) = Elems(Room(c)) \cup {next}
      BY <2>1, <2>2, <2>3, AppendElems
  <2>5. \A e : e = next => Kept(e)'
      BY <2>4, KeptPlacesPrime
  <2>6. ASSUME NEW d \in Channels, NEW e \in Elems(queues[d]) \cup Elems(withheld[d]) PROVE Kept(e)'
    <3>1. CASE d = c
        BY <1>3, <2>2, <2>4, <2>6, <3>1, KeptPlacesPrime
    <3>2. CASE d # c
        BY <1>3, <2>3, <2>6, <3>2, KeptPlacesPrime
    <3> QED
        BY <3>1, <3>2
  <2> QED
      BY <1>3, <2>1, <2>2, <2>5, <2>6, BatchesStay DEF NothingLost
<1>4. ASSUME NEW c \in Channels, PushQueued(c) PROVE NothingLost
  <2>1. \A a \in Agents : SameBatch(a)
      BY <1>4 DEF PushQueued, SameBatch
  <2> QED
      BY <1>3, <1>4, <2>1 DEF PushQueued
<1>5. ASSUME NEW c \in Channels, NEW sig \in ModeGate, PushSignalled(c, sig) PROVE NothingLost
  <2>1. \A a \in Agents : SameBatch(a)
      BY <1>0, <1>5, SignalBatch DEF PushSignalled
  <2> QED
      BY <1>3, <1>5, <2>1 DEF PushSignalled
<1>6. ASSUME NEW c \in Channels, NEW a \in Agents, PushSteered(c, a) PROVE NothingLost
  <2>1. next' = next + 1 /\ next \in Events /\ Accepted(c)
      BY <1>1, <1>6 DEF PushSteered, Accepted
  <2>2. /\ settled \subseteq settled' /\ Elems(queues[c]) \subseteq Elems(Room(c)) \cup settled'
      BY <1>0, <2>1, RoomKeeps
  <2>3. /\ queues'[c] = Room(c) /\ \A d \in Channels : d # c => queues'[d] = queues[d]
        /\ withheld'[c] = Append(withheld[c], next) /\ \A d \in Channels : d # c => withheld'[d] = withheld[d]
      BY <1>0, <1>6 DEF PushSteered, StoresOK
  <2>4. Elems(withheld'[c]) = Elems(withheld[c]) \cup {next}
    <3>1. withheld[c] \in Seq(Events)
        BY <1>0 DEF StoresOK
    <3> QED
        BY <2>1, <2>3, <3>1, AppendElems
  <2>5. \A e : e = next => Kept(e)'
      BY <2>4, KeptPlacesPrime
  <2>6. ASSUME NEW d \in Channels, NEW e \in Elems(queues[d]) \cup Elems(withheld[d]) PROVE Kept(e)'
    <3>1. CASE d = c
        BY <2>2, <2>3, <2>4, <2>6, <3>1, KeptPlacesPrime
    <3>2. CASE d # c
        BY <2>3, <2>6, <3>2, KeptPlacesPrime
    <3> QED
        BY <3>1, <3>2
  <2>7. \A b \in Agents : SameBatch(b)
    <3>1. \A b \in Agents : tasks[b] \in Tasks
        BY <1>0 DEF AgentsOK
    <3> QED
        BY <1>0, <1>6, <3>1 DEF PushSteered, AgentsOK, Tasks, SameBatch
  <2> QED
      BY <2>1, <2>2, <2>5, <2>6, <2>7, BatchesStay DEF NothingLost
<1>7. ASSUME NEW c \in Channels, NEW sig \in Controls, Control(c, sig) PROVE NothingLost
  <2>1. \A a \in Agents : SameBatch(a)
      BY <1>0, <1>7, SignalBatch DEF Control
  <2>2. UNCHANGED <<queues, withheld, settled, next>>
      BY <1>7 DEF Control, Command, stores
  <2> QED
      BY <2>1, <2>2, BatchesStay, StoresStay
<1>8. ASSUME NEW c \in Channels, AddChannel(c) PROVE NothingLost
  <2>1. UNCHANGED <<queues, withheld, settled, next, tasks>>
      BY <1>8 DEF AddChannel, Command, stores
  <2>2. \A a \in Agents : SameBatch(a)
      BY <2>1 DEF SameBatch
  <2> QED
      BY <2>1, <2>2, BatchesStay, StoresStay
<1>9. ASSUME NEW c \in Channels, RemoveChannel(c) PROVE NothingLost
  <2>1. /\ settled' = settled \cup Elems(queues[c]) \cup Elems(withheld[c]) \cup Elems(cancelled[c])
        /\ \A d \in Channels : d # c => queues'[d] = queues[d] /\ withheld'[d] = withheld[d]
        /\ tasks' = tasks /\ next' = next
      BY <1>0, <1>9 DEF RemoveChannel, Command, StoresOK
  <2>2. \A a \in Agents : SameBatch(a)
      BY <2>1 DEF SameBatch
  <2>3. ASSUME NEW d \in Channels, NEW e \in Elems(queues[d]) \cup Elems(withheld[d]) PROVE Kept(e)'
    <3>1. CASE d = c
        BY <2>1, <2>3, <3>1, KeptPlacesPrime
    <3>2. CASE d # c
        BY <2>1, <2>3, <3>2, KeptPlacesPrime
    <3> QED
        BY <3>1, <3>2
  <2> QED
      BY <2>1, <2>2, <2>3, BatchesStay DEF NothingLost
<1> QED
    BY <1>2, <1>4, <1>5, <1>6, <1>7, <1>8, <1>9 DEF FromRelay

\* Neither an answered request nor the end of a turn loses anything.
LEMMA TaskLoses ==
    ASSUME QueueTypeOK, NEW a \in Agents,
           TurnEnds(a) \/ \E r \in {"success", "fallback", "release"} : AnswerSteer(a, r)
    PROVE  NothingLost
<1>0. AgentsOK
    BY TypeParts
<1>1. ASSUME NEW r, AnswerSteer(a, r) PROVE NothingLost
  <2>1. /\ tasks' = [tasks EXCEPT ![a].steers = Tail(@)] /\ UNCHANGED <<queues, withheld, next>>
        /\ settled \subseteq settled'
      BY <1>1 DEF AnswerSteer, TaskStep, stores
  <2>2. \A b \in Agents : tasks[b] \in Tasks
      BY <1>0 DEF AgentsOK
  <2>3. \A b \in Agents : SameBatch(b)
      BY <1>0, <2>1, <2>2 DEF AgentsOK, Tasks, SameBatch
  <2> QED
      BY <2>1, <2>3, BatchesStay, StoresStay
<1>2. ASSUME NEW o, NEW keep \in BOOLEAN, Ends(a, o, keep),
             settled' = IF keep THEN settled ELSE settled \cup BatchOf(tasks[a])
      PROVE  NothingLost
  <2>1. /\ tasks' = [tasks EXCEPT ![a].phase = "ended", ![a].steers = <<>>,
                                  ![a].outcome = o, ![a].keep = keep]
        /\ UNCHANGED <<queues, withheld, next>> /\ settled \subseteq settled'
      BY <1>2 DEF Ends, TaskStep, stores
  <2>2. \A b \in Agents : tasks[b] \in Tasks
      BY <1>0 DEF AgentsOK
  <2>3. /\ tasks'[a].phase = "ended" /\ tasks'[a].keep = keep /\ tasks'[a].events = tasks[a].events
        /\ \A b \in Agents : b # a => tasks'[b] = tasks[b]
      BY <1>0, <2>1, <2>2 DEF AgentsOK, Tasks
  <2>4. ASSUME NEW b \in Agents, HeldBatch(b), NEW e \in Elems(tasks[b].events) PROVE Kept(e)'
    <3>1. CASE b # a
      <4>1. HeldBatch(b)' /\ e \in BatchOf(tasks'[b])
          BY <2>3, <2>4, <3>1 DEF HeldBatch, BatchOf
      <4> QED
          BY <4>1, KeptPlacesPrime
    <3>2. CASE b = a /\ keep
      <4>1. HeldBatch(b)' /\ e \in BatchOf(tasks'[b])
          BY <2>3, <2>4, <3>2 DEF HeldBatch, BatchOf
      <4> QED
          BY <4>1, KeptPlacesPrime
    <3>3. CASE b = a /\ ~ keep
      <4>1. e \in settled'
          BY <1>2, <2>4, <3>3 DEF BatchOf
      <4> QED
          BY <4>1, KeptPlacesPrime
    <3> QED
        BY <3>1, <3>2, <3>3
  <2> QED
      BY <2>1, <2>4, StoresStay
<1>3. CASE TurnCompletes(a)
  <2>1. Ends(a, "ok", FALSE) /\ settled' = settled \cup BatchOf(tasks[a])
      BY <1>3 DEF TurnCompletes
  <2> QED
      BY <1>2, <2>1
<1>4. ASSUME NEW o, NEW keep \in BOOLEAN, EndsWithout(a, o, keep) PROVE NothingLost
    BY <1>2, <1>4 DEF EndsWithout
<1>5. ASSUME NEW o, TurnFails(a, o) PROVE NothingLost
  <2>1. PICK keep : keep = (dedup = "Queue" /\ tasks[a].channel # NoChannel)
      OBVIOUS
  <2>2. keep \in BOOLEAN /\ EndsWithout(a, o, keep)
      BY <1>5, <2>1 DEF TurnFails
  <2> QED
      BY <1>4, <2>2
<1>6. ASSUME NEW o, TurnCancelled(a, o) PROVE NothingLost
  <2>1. PICK keep : keep = (dedup = "Queue" /\ tasks[a].ctl # "Cancel")
      OBVIOUS
  <2>2. keep \in BOOLEAN /\ EndsWithout(a, o, keep)
      BY <1>6, <2>1 DEF TurnCancelled
  <2> QED
      BY <1>4, <2>2
<1> QED
    BY <1>1, <1>3, <1>5, <1>6 DEF TurnEnds

\* Collecting a turn loses none of the events of its batch.
LEMMA ResultsLose ==
    ASSUME QueueTypeOK, NEW a \in Agents, Results(a)
    PROVE  NothingLost
<1>0. StoresOK /\ AgentsOK
    BY TypeParts
<1>1. Collect(a)
    BY DEF Results, CollectHeartbeat, CollectDone, CollectCancelled, CollectHopeless,
           CollectRequeued, CollectDeadLettered
<1>2. /\ tasks[a].phase = "ended" /\ tasks[a] \in Tasks /\ withheld' = withheld /\ next' = next
      /\ \A b \in Agents : b # a => tasks'[b] = tasks[b]
    BY <1>0, <1>1 DEF Collect, AgentsOK
<1>3. HeldBatch(a) <=> tasks[a].keep
    BY <1>2 DEF HeldBatch, Tasks
<1>4. tasks[a].keep => tasks[a].channel \in Channels
    BY <1>0, <1>2 DEF AgentsOK, Tasks
<1>5. ASSUME \A e \in Elems(tasks[a].events) : tasks[a].keep => Kept(e)'
      PROVE  \A b \in Agents : HeldBatch(b) => \A e \in Elems(tasks[b].events) : Kept(e)'
  <2> SUFFICES ASSUME NEW b \in Agents, HeldBatch(b), NEW e \in Elems(tasks[b].events) PROVE Kept(e)'
      OBVIOUS
  <2>1. CASE b = a
      BY <1>3, <1>5, <2>1
  <2>2. CASE b # a
    <3>1. HeldBatch(b)' /\ e \in BatchOf(tasks'[b])
        BY <1>2, <2>2 DEF HeldBatch, BatchOf
    <3> QED
        BY <3>1, KeptPlacesPrime
  <2> QED
      BY <2>1, <2>2
<1>6. ASSUME queues' = queues, settled \subseteq settled', tasks[a].keep => BatchOf(tasks[a]) \subseteq settled'
      PROVE  NothingLost
  <2>1. \A e \in Elems(tasks[a].events) : tasks[a].keep => Kept(e)'
      BY <1>6, KeptPlacesPrime DEF BatchOf
  <2> QED
      BY <1>2, <1>5, <1>6, <2>1, StoresStay
<1>7. CASE CollectHeartbeat(a)
  <2>1. queues' = queues /\ settled' = settled /\ ~ tasks[a].keep
      BY <1>0, <1>7, <1>4, QueueAssumption DEF CollectHeartbeat
  <2> QED
      BY <1>6, <2>1
<1>8. CASE CollectDone(a)
    BY <1>6, <1>8 DEF CollectDone
<1>9. CASE CollectHopeless(a)
    BY <1>6, <1>9 DEF CollectHopeless
<1>10. CASE CollectDeadLettered(a)
    BY <1>6, <1>10 DEF CollectDeadLettered
<1>11. CASE CollectCancelled(a)
  <2>1. PICK c, ev, mg, x : c = tasks[a].channel /\ ev = tasks[a].events /\ mg = tasks[a].merged
                            /\ x = cancelled[c]
      OBVIOUS
  <2>2. /\ c \in Channels /\ cancelled' = [cancelled EXCEPT ![c] = x \o mg \o ev]
        /\ queues' = queues /\ settled' = settled
      BY <1>4, <1>11, <2>1 DEF CollectCancelled, HasBatch
  <2>3. x \in Seq(Events) /\ mg \in Seq(Events) /\ ev \in Seq(Events)
      BY <1>0, <1>2, <2>1, <2>2 DEF StoresOK, Tasks
  <2>4. x \o mg \in Seq(Events)
      BY <2>3, SeqTypes
  <2>5. cancelled'[c] = (x \o mg) \o ev
      BY <1>0, <2>2 DEF StoresOK
  <2>6. Elems(ev) \subseteq Elems(cancelled'[c])
      BY <2>3, <2>4, <2>5, ConcatElems
  <2>7. \A e \in Elems(tasks[a].events) : tasks[a].keep => Kept(e)'
      BY <2>1, <2>2, <2>6, KeptPlacesPrime
  <2> QED
      BY <1>2, <1>5, <2>2, <2>7, StoresStay
<1>12. CASE CollectRequeued(a)
  <2>1. PICK c, ev, q, s : c = tasks[a].channel /\ ev = tasks[a].events /\ q = queues[c] /\ s = ev \o q
      OBVIOUS
  <2>2. /\ c \in Channels /\ queues' = [queues EXCEPT ![c] = Trim(s)]
        /\ settled' = settled \cup Trimmed(s)
      BY <1>4, <1>12, <2>1 DEF CollectRequeued, Retried, HasBatch
  <2>3. q \in Seq(Events) /\ ev \in Seq(Events)
      BY <1>0, <1>2, <2>1, <2>2 DEF StoresOK, Tasks
  <2>4. s \in Seq(Events) /\ Elems(s) = Elems(ev) \cup Elems(q)
      BY <2>1, <2>3, ConcatElems, SeqTypes
  <2>5. Elems(s) = Elems(Trim(s)) \cup Trimmed(s)
      BY <2>4, TrimElems
  <2>6. queues'[c] = Trim(s) /\ \A d \in Channels : d # c => queues'[d] = queues[d]
      BY <1>0, <2>2 DEF StoresOK
  <2>7. \A e \in Elems(s) : Kept(e)'
      BY <2>2, <2>5, <2>6, KeptPlacesPrime
  <2>8. \A e \in Elems(tasks[a].events) : tasks[a].keep => Kept(e)'
      BY <2>1, <2>4, <2>7
  <2>9. ASSUME NEW d \in Channels, NEW e \in Elems(queues[d]) \cup Elems(withheld[d]) PROVE Kept(e)'
    <3>1. CASE e \in Elems(withheld[d])
        BY <1>2, <3>1, KeptPlacesPrime
    <3>2. CASE e \in Elems(queues[d]) /\ d = c
        BY <2>1, <2>4, <2>7, <3>2
    <3>3. CASE e \in Elems(queues[d]) /\ d # c
        BY <2>6, <3>3, KeptPlacesPrime
    <3> QED
        BY <2>9, <3>1, <3>2, <3>3
  <2> QED
      BY <1>2, <1>5, <2>2, <2>8, <2>9 DEF NothingLost
<1> QED
    BY <1>7, <1>8, <1>9, <1>10, <1>11, <1>12 DEF Results

\* An answer takes away only what it settled.
LEMMA AckSteerLoses ==
    ASSUME PlaceInv, SuccessSettled, QueueTypeOK, NEW k \in acks, AckSteer(k)
    PROVE  NothingLost
<1>0. StoresOK /\ Apart
    BY TypeParts DEF PlaceInv
<1>1. PICK c, e, s : c = k.channel /\ e = k.event /\ s = <<e>> \o queues[c]
    OBVIOUS
<1>2. c \in Channels /\ e \in Events /\ \A b \in Agents : SameBatch(b)
    BY <1>1, AckCarriers
<1>3. withheld' = [withheld EXCEPT ![c] = Without(@, e)] /\ next' = next
    BY <1>1 DEF AckSteer
<1>4. /\ Distinct(queues[c]) /\ Distinct(withheld[c])
      /\ queues[c] \in Seq(Events) /\ withheld[c] \in Seq(Events)
    BY <1>0, <1>2, StoresApart DEF StoresOK
<1>5. /\ withheld'[c] = Without(withheld[c], e)
      /\ \A d \in Channels : d # c => withheld'[d] = withheld[d]
    BY <1>0, <1>2, <1>3 DEF StoresOK
<1>6. Elems(withheld'[c]) = Elems(withheld[c]) \ {e}
    BY <1>4, <1>5, WithoutElems
<1>7. ASSUME settled \subseteq settled',
             \A d \in Channels : d # c => queues'[d] = queues[d],
             \A x \in Elems(queues[c]) : Kept(x)',
             e \in Elems(withheld[c]) => Kept(e)'
      PROVE  NothingLost
  <2>1. ASSUME NEW d \in Channels, NEW x \in Elems(queues[d]) \cup Elems(withheld[d]) PROVE Kept(x)'
    <3>1. CASE d = c
        BY <1>6, <1>7, <2>1, <3>1, KeptPlacesPrime
    <3>2. CASE d # c
        BY <1>5, <1>7, <2>1, <3>2, KeptPlacesPrime
    <3> QED
        BY <3>1, <3>2
  <2> QED
      BY <1>2, <1>3, <1>7, <2>1, BatchesStay DEF NothingLost
<1>8. CASE k.result = "success"
  <2>1. queues' = [queues EXCEPT ![c] = Without(@, e)] /\ settled' = settled
      BY <1>1, <1>8 DEF AckSteer
  <2>2. /\ queues'[c] = Without(queues[c], e) /\ \A d \in Channels : d # c => queues'[d] = queues[d]
      BY <1>0, <1>2, <2>1 DEF StoresOK
  <2>3. Elems(queues'[c]) = Elems(queues[c]) \ {e}
      BY <1>4, <2>2, WithoutElems
  <2>4. e \in settled'
      BY <1>1, <1>8, <2>1 DEF SuccessSettled
  <2> QED
      BY <1>2, <1>7, <2>1, <2>2, <2>3, <2>4, KeptPlacesPrime
<1>9. CASE k.result # "success" /\ e \notin Elems(withheld[c])
  <2>1. queues' = queues /\ settled' = settled
      BY <1>1, <1>9 DEF AckSteer
  <2> QED
      BY <1>2, <1>7, <1>9, <2>1, KeptPlacesPrime
<1>10. CASE k.result # "success" /\ e \in Elems(withheld[c])
  <2>1. queues' = [queues EXCEPT ![c] = Trim(s)] /\ settled' = settled \cup Trimmed(s)
      BY <1>1, <1>10 DEF AckSteer
  <2>2. /\ queues'[c] = Trim(s) /\ \A d \in Channels : d # c => queues'[d] = queues[d]
      BY <1>0, <1>2, <2>1 DEF StoresOK
  <2>3. s \in Seq(Events) /\ Elems(s) = {e} \cup Elems(queues[c])
    <3> DEFINE u == <<e>>
    <3>1. u \in Seq(Events) /\ Elems(u) = {e}
        BY <1>2 DEF Elems
    <3>2. s = u \o queues[c]
        BY <1>1
    <3> HIDE DEF u
    <3> QED
        BY <1>4, <3>1, <3>2, ConcatElems, SeqTypes
  <2>4. Elems(s) = Elems(Trim(s)) \cup Trimmed(s)
      BY <2>3, TrimElems
  <2>5. \A x \in Elems(s) : Kept(x)'
      BY <1>2, <2>1, <2>2, <2>4, KeptPlacesPrime
  <2> QED
      BY <1>7, <2>1, <2>2, <2>3, <2>5
<1> QED
    BY <1>8, <1>9, <1>10

\* The release of overdue channels, and batches for agents.
LEMMA DispatchLoses ==
    ASSUME PlaceInv, QueueTypeOK, Dispatch
    PROVE  NothingLost
<1>0. StoresOK /\ AgentsOK /\ Apart /\ overdue \subseteq Channels
    BY TypeParts DEF PlaceInv, QueueTypeOK
<1>1. CASE Expire
  <2>1. /\ queues' = [c \in Channels |->
                       IF c \in overdue THEN Trim(withheld[c] \o queues[c]) ELSE queues[c]]
        /\ settled' = settled \cup UNION {Trimmed(withheld[c] \o queues[c]) : c \in overdue}
        /\ withheld' = [c \in Channels |-> IF c \in overdue THEN <<>> ELSE withheld[c]]
        /\ UNCHANGED <<tasks, next>>
      BY <1>1 DEF Expire
  <2>2. \A a \in Agents : SameBatch(a)
      BY <2>1 DEF SameBatch
  <2>3. ASSUME NEW c \in Channels, NEW e \in Elems(queues[c]) \cup Elems(withheld[c]) PROVE Kept(e)'
    <3>1. CASE c \notin overdue
      <4>1. queues'[c] = queues[c] /\ withheld'[c] = withheld[c]
          BY <2>1, <3>1
      <4> QED
          BY <2>3, <4>1, KeptPlacesPrime
    <3>2. CASE c \in overdue
      <4>1. PICK s : s = withheld[c] \o queues[c]
          OBVIOUS
      <4>2. s \in Seq(Events) /\ Elems(s) = Elems(withheld[c]) \cup Elems(queues[c])
          BY <1>0, <4>1, ConcatElems, SeqTypes DEF StoresOK
      <4>3. Elems(s) = Elems(Trim(s)) \cup Trimmed(s)
          BY <4>2, TrimElems
      <4>4. queues'[c] = Trim(s) /\ Trimmed(s) \subseteq settled'
          BY <2>1, <3>2, <4>1
      <4> QED
          BY <2>3, <4>2, <4>3, <4>4, KeptPlacesPrime
    <3> QED
        BY <3>1, <3>2
  <2>4. settled \subseteq settled'
      BY <2>1
  <2> QED
      BY <2>1, <2>2, <2>3, <2>4, BatchesStay DEF NothingLost
<1>2. ASSUME NEW c \in Channels, NEW events, NEW merged, NEW rest, Batched(c, events, merged, rest),
             Elems(queues[c]) \subseteq Elems(events) \cup Elems(rest), Hand(c, events, merged, rest)
      PROVE  NothingLost
  <2>1. withheld' = withheld /\ next' = next
      BY <1>2 DEF Hand, Flush
  <2>2. ASSUME settled \subseteq settled', \A d \in Channels : d # c => queues'[d] = queues[d],
               \A e \in Elems(queues[c]) : Kept(e)',
               \A a \in Agents : HeldBatch(a) => \A e \in Elems(tasks[a].events) : Kept(e)'
        PROVE  NothingLost
    <3>1. ASSUME NEW d \in Channels, NEW e \in Elems(queues[d]) \cup Elems(withheld[d]) PROVE Kept(e)'
      <4>1. CASE e \in Elems(withheld[d])
          BY <2>1, <4>1, KeptPlacesPrime
      <4>2. CASE e \in Elems(queues[d]) /\ d = c
          BY <2>2, <4>2
      <4>3. CASE e \in Elems(queues[d]) /\ d # c
          BY <2>2, <4>3, KeptPlacesPrime
      <4> QED
          BY <3>1, <4>1, <4>2, <4>3
    <3> QED
        BY <2>1, <2>2, <3>1 DEF NothingLost
  <2>3. ASSUME NEW a \in Agents, Claim(c, a, events, merged, rest) PROVE NothingLost
    <3>1. /\ slots[a] = "idle" /\ tasks' = [tasks EXCEPT ![a] = Turn(c, events, merged)]
          /\ queues' = [queues EXCEPT ![c] = rest] /\ settled' = settled
        BY <2>3 DEF Claim
    <3>2. /\ tasks'[a] = Turn(c, events, merged) /\ \A b \in Agents : b # a => tasks'[b] = tasks[b]
          /\ tasks[a].phase = "none"
        BY <1>0, <3>1 DEF AgentsOK
    <3>3. tasks'[a].phase = "running" /\ tasks'[a].events = events
        BY <3>2 DEF Turn, Task
    <3>4. HeldBatch(a)' /\ ~ HeldBatch(a) /\ Elems(events) \subseteq BatchOf(tasks'[a])
        BY <3>2, <3>3 DEF HeldBatch, BatchOf
    <3>5. queues'[c] = rest /\ \A d \in Channels : d # c => queues'[d] = queues[d]
        BY <1>0, <3>1 DEF StoresOK
    <3>6. \A e \in Elems(queues[c]) : Kept(e)'
        BY <1>2, <3>4, <3>5, KeptPlacesPrime
    <3>7. ASSUME NEW b \in Agents, HeldBatch(b), NEW e \in Elems(tasks[b].events) PROVE Kept(e)'
      <4>1. b # a
          BY <3>4, <3>7
      <4>2. HeldBatch(b)' /\ e \in BatchOf(tasks'[b])
          BY <3>2, <3>7, <4>1 DEF HeldBatch, BatchOf
      <4> QED
          BY <4>2, KeptPlacesPrime
    <3> QED
        BY <2>2, <3>1, <3>5, <3>6, <3>7
  <2>4. CASE Exhausted(c, events, rest)
    <3>1. PICK s : s = events \o rest
        OBVIOUS
    <3>2. /\ tasks' = tasks /\ queues' = [queues EXCEPT ![c] = Trim(s)] /\ settled' = settled \cup Trimmed(s)
        BY <2>4, <3>1 DEF Exhausted
    <3>3. s \in Seq(Events) /\ Elems(s) = Elems(events) \cup Elems(rest)
        BY <1>2, <3>1, ConcatElems, SeqTypes DEF Batched
    <3>4. Elems(s) = Elems(Trim(s)) \cup Trimmed(s)
        BY <3>3, TrimElems
    <3>5. queues'[c] = Trim(s) /\ \A d \in Channels : d # c => queues'[d] = queues[d]
        BY <1>0, <3>2 DEF StoresOK
    <3>6. \A e \in Elems(queues[c]) : Kept(e)'
        BY <1>2, <3>2, <3>3, <3>4, <3>5, KeptPlacesPrime
    <3>7. \A a \in Agents : SameBatch(a)
        BY <3>2 DEF SameBatch
    <3> QED
        BY <2>2, <3>2, <3>5, <3>6, <3>7, BatchesStay
  <2> QED
      BY <1>2, <2>3, <2>4 DEF Hand
<1>3. ASSUME NEW c \in Channels, FlushQueued(c) PROVE NothingLost
  <2>1. PICK q, x, n : q = queues[c] /\ x = cancelled[c] /\ n = Least(MAX_BATCH_EVENTS, Len(q))
      OBVIOUS
  <2>2. /\ q \in Seq(Events) /\ x \in Seq(Events) /\ Distinct(q) /\ Distinct(x)
        /\ Elems(q) \cap Elems(x) = {}
      BY <1>0, <2>1, StoresApart DEF StoresOK
  <2>3. /\ n \in 0..Len(q) /\ n + 1 \in 1..Len(q) + 1 /\ 1 \in 1..Len(q) + 1
        /\ Len(q) \in 0..Len(q)
      BY <2>1, <2>2, QueueAssumption DEF Least
  <2>4. PICK u, v : u = SubSeq(q, 1, n) /\ v = SubSeq(q, n + 1, Len(q))
      OBVIOUS
  <2>5. PICK events \in Sorted(u) : Hand(c, events, x, v)
      BY <1>3, <2>1, <2>4 DEF FlushQueued
  <2>6. u \in Seq(Events) /\ v \in Seq(Events)
      BY <2>2, <2>3, <2>4, SubSeqType
  <2>7. /\ Elems(q) = Elems(u) \cup Elems(v) /\ Distinct(u) /\ Distinct(v)
        /\ Elems(u) \cap Elems(v) = {}
      BY <2>2, <2>3, <2>4, SplitElems
  <2>8. events \in Seq(Events) /\ Elems(events) = Elems(u) /\ Distinct(events)
      BY <2>5, <2>6, <2>7, SortedType, SortedElems
  <2>9. Batched(c, events, x, v)
      BY <2>1, <2>2, <2>6, <2>7, <2>8 DEF Batched
  <2> QED
      BY <1>2, <2>1, <2>5, <2>7, <2>8, <2>9
<1>4. ASSUME NEW c \in Channels, FlushCancelled(c) PROVE NothingLost
  <2>1. PICK q, x, z : q = queues[c] /\ x = cancelled[c] /\ z = <<>>
      OBVIOUS
  <2>2. /\ q \in Seq(Events) /\ x \in Seq(Events) /\ Distinct(q) /\ Distinct(x)
        /\ Elems(q) \cap Elems(x) = {}
      BY <1>0, <2>1, StoresApart DEF StoresOK
  <2>3. z \in Seq(Events) /\ Elems(z) = {} /\ Distinct(z)
      BY <2>1 DEF Elems, Distinct
  <2>4. Hand(c, x, z, q)
      BY <1>4, <2>1 DEF FlushCancelled
  <2>5. Batched(c, x, z, q)
      BY <2>1, <2>2, <2>3 DEF Batched
  <2> QED
      BY <1>2, <2>1, <2>4, <2>5
<1>5. CASE FlushNothing
  <2>1. UNCHANGED <<queues, withheld, settled, next, tasks>>
      BY <1>5 DEF FlushNothing, stores
  <2>2. \A a \in Agents : SameBatch(a)
      BY <2>1 DEF SameBatch
  <2> QED
      BY <2>1, <2>2, BatchesStay, StoresStay
<1> QED
    BY <1>1, <1>3, <1>4, <1>5 DEF Dispatch

\* Timers lose nothing.
LEMMA TimersLose ==
    ASSUME QueueTypeOK, Timers
    PROVE  NothingLost
<1>0. AgentsOK
    BY TypeParts
<1>1. UNCHANGED <<queues, withheld, settled, next>>
    BY DEF Timers, Maintain, Respawned, RespawnFailed, Heartbeat, BackoffElapses, DeadlinePasses,
           TimerStep, stores
<1>2. CASE tasks' = tasks
  <2>1. \A a \in Agents : SameBatch(a)
      BY <1>2 DEF SameBatch
  <2> QED
      BY <1>1, <2>1, BatchesStay, StoresStay
<1>3. ASSUME NEW a \in Agents, Heartbeat(a) PROVE NothingLost
  <2>1. /\ tasks[a].phase = "none" /\ \A b \in Agents : b # a => tasks'[b] = tasks[b]
      BY <1>0, <1>3 DEF Heartbeat, AgentsOK
  <2>2. ASSUME NEW b \in Agents, HeldBatch(b), NEW e \in Elems(tasks[b].events) PROVE Kept(e)'
    <3>1. b # a
        BY <2>1, <2>2 DEF HeldBatch
    <3>2. HeldBatch(b)' /\ e \in BatchOf(tasks'[b])
        BY <2>1, <2>2, <3>1 DEF HeldBatch, BatchOf
    <3> QED
        BY <3>2, KeptPlacesPrime
  <2> QED
      BY <1>1, <2>2, StoresStay
<1> QED
    BY <1>2, <1>3 DEF Timers, Maintain, Respawned, RespawnFailed, BackoffElapses, DeadlinePasses

\* No step loses what is not of a cancelled turn.
LEMMA StepLoses ==
    ASSUME PlaceInv, SuccessSettled, QueueTypeOK, [Next]_queueVars
    PROVE  NothingLost
<1>1. CASE Next
    BY <1>1, FromRelayLoses, TaskLoses, ResultsLose, AckSteerLoses, DispatchLoses, TimersLose DEF Next
<1>2. CASE UNCHANGED queueVars
  <2>1. UNCHANGED <<queues, withheld, settled, next, tasks>>
      BY <1>2 DEF queueVars
  <2>2. \A a \in Agents : SameBatch(a)
      BY <2>1 DEF SameBatch
  <2> QED
      BY <2>1, <2>2, BatchesStay, StoresStay
<1> QED
    BY <1>1, <1>2

\* Answers that report a success come from the step that settles the event.
LEMMA SuccessStays ==
    ASSUME PlaceInv, SuccessSettled, QueueTypeOK, [Next]_queueVars
    PROVE  SuccessSettled'
<1>0. settled \subseteq settled'
    BY StepLoses DEF NothingLost
<1>1. CASE acks' \subseteq acks
    BY <1>0, <1>1 DEF SuccessSettled
<1>2. ASSUME NEW a \in Agents, NEW r, AnswerSteer(a, r) PROVE SuccessSettled'
  <2>1. PICK e, k : e = Head(tasks[a].steers)
                    /\ k = [channel |-> tasks[a].channel, event |-> e, result |-> r]
      OBVIOUS
  <2>2. acks' = acks \cup {k} /\ (r = "success" => e \in settled')
      BY <1>2, <2>1 DEF AnswerSteer
  <2>3. k.result = r /\ k.event = e
      BY <2>1
  <2> QED
      BY <1>0, <2>2, <2>3 DEF SuccessSettled
<1>3. ASSUME NEW a \in Agents, TurnEnds(a) PROVE SuccessSettled'
  <2>1. acks' = acks \cup {[channel |-> tasks[a].channel, event |-> e, result |-> "release"] :
                              e \in Elems(tasks[a].steers)}
      BY <1>3 DEF TurnEnds, TurnCompletes, TurnFails, TurnCancelled, EndsWithout, Ends
  <2>2. \A k \in acks' : k \in acks \/ k.result = "release"
      BY <2>1
  <2> QED
      BY <1>0, <2>2 DEF SuccessSettled
<1>4. ASSUME NEW a \in Agents, Results(a) PROVE acks' = acks
    BY <1>4 DEF Results, CollectHeartbeat, CollectDone, CollectCancelled, CollectHopeless,
                CollectRequeued, CollectDeadLettered, Collect
<1>5. CASE FromRelay
    BY <1>1, <1>5 DEF FromRelay, PushRefused, PushQueued, PushSteered, PushSignalled, Accepted, Arrival,
                      Control, RemoveChannel, AddChannel, Command
<1>6. ASSUME NEW k \in acks, AckSteer(k) PROVE acks' \subseteq acks
    BY <1>6 DEF AckSteer
<1>7. CASE Dispatch
    BY <1>1, <1>7 DEF Dispatch, Expire, FlushQueued, FlushCancelled, FlushNothing, Hand, Flush
<1>8. CASE Timers
    BY <1>1, <1>8 DEF Timers, Maintain, Respawned, RespawnFailed, Heartbeat, BackoffElapses,
                      DeadlinePasses, TimerStep
<1>9. CASE UNCHANGED queueVars
    BY <1>1, <1>9 DEF queueVars
<1> QED
    BY <1>1, <1>2, <1>3, <1>4, <1>5, <1>6, <1>7, <1>8, <1>9 DEF Next

\* An answer that reports a success is about an event that was settled.
LEMMA SuccessSettledHolds == QueueSpec => []SuccessSettled
<1>1. Init => SuccessSettled
    BY DEF Init, SuccessSettled
<1>2. PlaceInv /\ QueueTypeOK /\ SuccessSettled /\ [Next]_queueVars => SuccessSettled'
    BY SuccessStays
<1> QED
    BY <1>1, <1>2, PlaceInvHolds, QueueTyped, PTL DEF QueueSpec

\* The places of the events a step may lose.
Interrupted(e) == \E p \in Places : p[1] \in {"cancelled", "merged"} /\ e \in Elems(At(p))

\* An event that is kept and not interrupted is still kept after a step.
LEMMA KeptStays ==
    ASSUME NothingLost, NEW e \in Held \cup settled, ~ Interrupted(e)
    PROVE  Kept(e)'
<1>1. CASE e \in settled
    BY <1>1, KeptPlacesPrime DEF NothingLost
<1>2. CASE e \in Held
  <2>1. PICK p \in Places : e \in Elems(At(p))
      BY <1>2 DEF Held
  <2>2. Elems(<<>>) = {}
      BY DEF Elems
  <2>3. p[1] \notin {"cancelled", "merged"}
      BY <2>1 DEF Interrupted
  <2>4. CASE \E c \in Channels : p = <<"queue", c>> \/ p = <<"withheld", c>>
      BY <2>1, <2>4, AtPlaces DEF NothingLost
  <2>5. CASE \E a \in Agents : p = <<"events", a>>
    <3>1. PICK a \in Agents : p = <<"events", a>>
        BY <2>5
    <3>2. At(p) = IF HeldBatch(a) THEN tasks[a].events ELSE <<>>
        BY <3>1, AtPlaces
    <3>3. HeldBatch(a) /\ e \in Elems(tasks[a].events)
        BY <2>1, <2>2, <3>2
    <3> QED
        BY <3>3 DEF NothingLost
  <2> QED
      BY <2>3, <2>4, <2>5, PlaceKinds
<1> QED
    BY <1>1, <1>2

\* The only events a step can lose are those of a turn that was cancelled,
\* in cancelled_batches or merged into a later batch: no race of pushes,
\* results, panics, steer answers and deadlines loses any other, in every
\* configuration of the harness.
THEOREM OnlyMergedAreLost == QueueSpec => LostIsMerged
<1> DEFINE Step == \A e \in Held \cup settled :
          \/ e \in Held' \cup settled'
          \/ \E p \in Places : p[1] \in {"cancelled", "merged"} /\ e \in Elems(At(p))
<1>1. PlaceInv /\ QueueTypeOK /\ SuccessSettled /\ [Next]_queueVars => Step
  <2> SUFFICES ASSUME PlaceInv, QueueTypeOK, SuccessSettled, [Next]_queueVars,
                      NEW e \in Held \cup settled, ~ Interrupted(e)
               PROVE  e \in Held' \cup settled'
      BY DEF Interrupted
  <2>1. Kept(e)'
      BY StepLoses, KeptStays
  <2> QED
      BY <2>1 DEF Kept
<1>2. PlaceInv /\ QueueTypeOK /\ SuccessSettled /\ [Next]_queueVars => [Step]_queueVars
    BY <1>1
<1> QED
    BY <1>2, PlaceInvHolds, QueueTyped, SuccessSettledHolds, PTL DEF QueueSpec, LostIsMerged

-----------------------------------------------------------------------------
(* A harness whose turns are not interrupted: mode_gate_signal answers     *)
(* "none" and the only control command is the owner's cancel.  Nothing is  *)
(* ever kept to be merged, and so nothing is lost.                         *)

\* No steering, no interrupt, no switch of the model.
Gentle == ModeGate \subseteq {"none"} /\ Controls \subseteq {"Cancel"}

\* A turn with nothing merged and no steer, whose batch does not come back
\* when it was cancelled.
CalmTask(t) ==
    /\ t.merged = <<>> /\ t.steers = <<>> /\ t.ctl \in {"open", "Cancel"}
    /\ t.outcome \in {"cancelled", "drain"} => ~ t.keep

\* Nothing waits for a merge.
Uninterrupted ==
    /\ acks = {}
    /\ \A c \in Channels : cancelled[c] = <<>>
    /\ \A a \in Agents : CalmTask(tasks[a])

\* A new turn without a batch to merge, and the absence of one, are calm.
LEMMA CalmTurns ==
    CalmTask(NoTask) /\ \A c, events, merged : merged = <<>> => CalmTask(Turn(c, events, merged))
BY DEF CalmTask, NoTask, Turn, Task

\* No event from the relay interrupts a turn.
LEMMA FromRelayCalm ==
    ASSUME Gentle, Uninterrupted, QueueTypeOK, FromRelay
    PROVE  Uninterrupted'
<1>0. StoresOK /\ AgentsOK
    BY TypeParts
<1>1. acks' = acks
    BY DEF FromRelay, PushRefused, PushQueued, PushSteered, PushSignalled, Accepted, Arrival,
           Control, RemoveChannel, AddChannel, Command
<1>2. ~ \E c \in Channels : \/ \E a \in Agents : PushSteered(c, a)
                            \/ \E sig \in ModeGate : PushSignalled(c, sig)
    BY DEF Gentle, PushSteered, PushSignalled
<1>3. \A c \in Channels : cancelled'[c] = <<>>
  <2>1. CASE cancelled' = cancelled
      BY <2>1 DEF Uninterrupted
  <2>2. ASSUME NEW c \in Channels, RemoveChannel(c) PROVE \A d \in Channels : cancelled'[d] = <<>>
    <3>1. cancelled' = [cancelled EXCEPT ![c] = <<>>]
        BY <2>2 DEF RemoveChannel
    <3> QED
        BY <1>0, <3>1 DEF StoresOK, Uninterrupted
  <2> QED
      BY <2>1, <2>2 DEF FromRelay, PushRefused, PushQueued, PushSteered, PushSignalled, Accepted,
                        Arrival, Control, AddChannel, stores
<1>4. ASSUME NEW a \in Agents PROVE CalmTask(tasks'[a])
  <2>1. CASE tasks' = tasks
      BY <2>1 DEF Uninterrupted
  <2>2. ASSUME NEW c \in Channels, NEW sig \in Controls, Control(c, sig), tasks' # tasks
        PROVE  CalmTask(tasks'[a])
    <3>1. sig = "Cancel" /\ Signal(c, sig)
        BY <2>2 DEF Gentle, Control
    <3>2. PICK b \in Agents : tasks' = [tasks EXCEPT ![b].ctl = IF @ = "open" THEN sig ELSE @]
        BY <2>2, <3>1 DEF Signal, TasksOf
    <3>3. CalmTask(tasks[a]) /\ tasks[a] \in Tasks /\ tasks \in [Agents -> Tasks]
        BY <1>0 DEF AgentsOK, Uninterrupted
    <3>4. CASE a # b
        BY <3>2, <3>3, <3>4
    <3>5. CASE a = b
      <4>1. tasks'[a] = [tasks[a] EXCEPT !.ctl = IF @ = "open" THEN sig ELSE @]
          BY <3>2, <3>3, <3>5
      <4>2. /\ tasks'[a].merged = tasks[a].merged /\ tasks'[a].steers = tasks[a].steers
            /\ tasks'[a].outcome = tasks[a].outcome /\ tasks'[a].keep = tasks[a].keep
            /\ tasks'[a].ctl \in {tasks[a].ctl, sig}
          BY <3>3, <4>1 DEF Tasks
      <4> QED
          BY <3>1, <3>3, <4>2 DEF CalmTask
    <3> QED
        BY <3>4, <3>5
  <2> QED
      BY <1>2, <2>1, <2>2 DEF FromRelay, PushRefused, PushQueued, RemoveChannel, AddChannel
<1> QED
    BY <1>1, <1>3, <1>4 DEF Uninterrupted

\* A turn that ends keeps no batch when it was cancelled.
LEMMA TurnEndsCalm ==
    ASSUME Uninterrupted, QueueTypeOK, NEW a \in Agents, TurnEnds(a)
    PROVE  Uninterrupted'
<1>0. AgentsOK
    BY TypeParts
<1>1. CalmTask(tasks[a]) /\ tasks[a] \in Tasks /\ tasks \in [Agents -> Tasks]
    BY <1>0 DEF AgentsOK, Uninterrupted
<1>2. ASSUME NEW o, NEW keep \in BOOLEAN, Ends(a, o, keep), o \in {"cancelled", "drain"} => ~ keep
      PROVE  Uninterrupted'
  <2>1. /\ tasks' = [tasks EXCEPT ![a].phase = "ended", ![a].steers = <<>>,
                                  ![a].outcome = o, ![a].keep = keep]
        /\ cancelled' = cancelled
        /\ acks' = acks \cup {[channel |-> tasks[a].channel, event |-> e, result |-> "release"] :
                                 e \in Elems(tasks[a].steers)}
      BY <1>2 DEF Ends, TaskStep, stores
  <2>2. Elems(tasks[a].steers) = {}
      BY <1>1 DEF CalmTask, Elems
  <2>3. acks' = {}
      BY <2>1, <2>2 DEF Uninterrupted
  <2>4. /\ tasks'[a].merged = <<>> /\ tasks'[a].steers = <<>> /\ tasks'[a].ctl = tasks[a].ctl
        /\ tasks'[a].outcome = o /\ tasks'[a].keep = keep
      BY <1>1, <2>1 DEF Tasks, CalmTask
  <2>5. CalmTask(tasks'[a])
      BY <1>1, <1>2, <2>4 DEF CalmTask
  <2>6. \A b \in Agents : b # a => tasks'[b] = tasks[b]
      BY <1>1, <2>1
  <2> QED
      BY <2>1, <2>3, <2>5, <2>6 DEF Uninterrupted
<1>3. CASE TurnCompletes(a)
    BY <1>2, <1>3 DEF TurnCompletes
<1>4. ASSUME NEW o, TurnFails(a, o) PROVE Uninterrupted'
  <2>1. PICK keep : keep = (dedup = "Queue" /\ tasks[a].channel # NoChannel)
      OBVIOUS
  <2>2. keep \in BOOLEAN /\ Ends(a, o, keep) /\ o \notin {"cancelled", "drain"}
      BY <1>4, <2>1 DEF TurnFails, EndsWithout
  <2> QED
      BY <1>2, <2>2
<1>5. ASSUME NEW o, TurnCancelled(a, o) PROVE Uninterrupted'
  <2>1. PICK keep : keep = (dedup = "Queue" /\ tasks[a].ctl # "Cancel")
      OBVIOUS
  <2>2. tasks[a].ctl = "Cancel"
      BY <1>1, <1>5 DEF TurnCancelled, CalmTask
  <2>3. keep \in BOOLEAN /\ Ends(a, o, keep) /\ ~ keep
      BY <1>5, <2>1, <2>2 DEF TurnCancelled, EndsWithout
  <2> QED
      BY <1>2, <2>3
<1> QED
    BY <1>3, <1>4, <1>5 DEF TurnEnds

\* No step interrupts a turn.
LEMMA StepCalm ==
    ASSUME Gentle, Uninterrupted, QueueTypeOK, [Next]_queueVars
    PROVE  Uninterrupted'
<1>0. StoresOK /\ AgentsOK
    BY TypeParts
<1>1. CASE UNCHANGED <<tasks, cancelled, acks>>
    BY <1>1 DEF Uninterrupted
<1>2. ASSUME NEW a \in Agents, NEW r, AnswerSteer(a, r) PROVE FALSE
    BY <1>2 DEF AnswerSteer, Uninterrupted, CalmTask
<1>3. ASSUME NEW a \in Agents, Results(a) PROVE Uninterrupted'
  <2>1. ~ CollectCancelled(a)
      BY DEF CollectCancelled, HasBatch, Uninterrupted, CalmTask
  <2>2. Collect(a) /\ cancelled' = cancelled
      BY <1>3, <2>1 DEF Results, CollectHeartbeat, CollectDone, CollectHopeless,
                        CollectRequeued, CollectDeadLettered
  <2>3. tasks' = [tasks EXCEPT ![a] = NoTask] /\ acks' = acks
      BY <2>2 DEF Collect
  <2>4. \A b \in Agents : tasks'[b] = IF b = a THEN NoTask ELSE tasks[b]
      BY <1>0, <2>3 DEF AgentsOK
  <2> QED
      BY <2>2, <2>3, <2>4, CalmTurns DEF Uninterrupted
<1>4. ASSUME NEW c \in Channels, NEW events, NEW rest, Hand(c, events, <<>>, rest)
      PROVE  Uninterrupted'
  <2>1. PICK z : z = <<>>
      OBVIOUS
  <2>2. Hand(c, events, z, rest)
      BY <1>4, <2>1
  <2>3. acks' = acks /\ cancelled' = [cancelled EXCEPT ![c] = <<>>]
      BY <2>2 DEF Hand, Flush
  <2>4. \A d \in Channels : cancelled'[d] = <<>>
      BY <1>0, <2>3 DEF StoresOK, Uninterrupted
  <2>5. CASE Exhausted(c, events, rest)
      BY <2>3, <2>4, <2>5 DEF Exhausted, Uninterrupted
  <2>6. ASSUME NEW a \in Agents, Claim(c, a, events, z, rest) PROVE Uninterrupted'
    <3>1. tasks' = [tasks EXCEPT ![a] = Turn(c, events, z)]
        BY <2>6 DEF Claim
    <3>2. \A b \in Agents : tasks'[b] = IF b = a THEN Turn(c, events, z) ELSE tasks[b]
        BY <1>0, <3>1 DEF AgentsOK
    <3> QED
        BY <2>1, <2>3, <2>4, <3>2, CalmTurns DEF Uninterrupted
  <2> QED
      BY <2>2, <2>5, <2>6 DEF Hand
<1>5. CASE Dispatch
  <2>1. CASE Expire
      BY <1>1, <2>1 DEF Expire
  <2>2. ASSUME NEW c \in Channels, FlushQueued(c) PROVE Uninterrupted'
    <3>1. cancelled[c] = <<>>
        BY DEF Uninterrupted
    <3> QED
        BY <1>4, <2>2, <3>1 DEF FlushQueued
  <2>3. ASSUME NEW c \in Channels, FlushCancelled(c) PROVE FALSE
      BY <2>3 DEF FlushCancelled, Leftovers, Uninterrupted
  <2>4. CASE FlushNothing
      BY <1>1, <2>4 DEF FlushNothing, stores
  <2> QED
      BY <1>5, <2>1, <2>2, <2>3, <2>4 DEF Dispatch
<1>6. CASE Timers
  <2>1. acks' = acks /\ cancelled' = cancelled
      BY <1>6 DEF Timers, Maintain, Respawned, RespawnFailed, Heartbeat, BackoffElapses,
                  DeadlinePasses, TimerStep, stores
  <2>2. ASSUME NEW a \in Agents, Heartbeat(a) PROVE Uninterrupted'
    <3>1. PICK z : z = <<>>
        OBVIOUS
    <3>2. tasks' = [tasks EXCEPT ![a] = Turn(NoChannel, z, z)]
        BY <2>2, <3>1 DEF Heartbeat
    <3>3. \A b \in Agents : tasks'[b] = IF b = a THEN Turn(NoChannel, z, z) ELSE tasks[b]
        BY <1>0, <3>2 DEF AgentsOK
    <3> QED
        BY <2>1, <3>1, <3>3, CalmTurns DEF Uninterrupted
  <2>3. CASE tasks' = tasks
      BY <1>1, <2>1, <2>3
  <2> QED
      BY <1>6, <2>2, <2>3 DEF Timers, Maintain, Respawned, RespawnFailed, BackoffElapses, DeadlinePasses
<1>7. CASE UNCHANGED queueVars
    BY <1>1, <1>7 DEF queueVars
<1>8. ASSUME NEW k \in acks PROVE FALSE
    BY DEF Uninterrupted
<1> QED
    BY <1>2, <1>3, <1>5, <1>6, <1>7, <1>8, FromRelayCalm, TurnEndsCalm DEF Next

\* The harness without interrupts never interrupts a turn.
LEMMA UninterruptedHolds == Gentle /\ QueueSpec => []Uninterrupted
<1> SUFFICES ASSUME Gentle PROVE QueueSpec => []Uninterrupted
    OBVIOUS
<1>1. Init => Uninterrupted
    BY CalmTurns DEF Init, Uninterrupted
<1>2. QueueTypeOK /\ Uninterrupted /\ [Next]_queueVars => Uninterrupted'
    BY StepCalm
<1> QED
    BY <1>1, <1>2, QueueTyped, PTL DEF QueueSpec

\* Nothing is lost where turns are not interrupted: every event that arrived
\* is queued, withheld, in a batch, or was settled, whatever requeues, panics,
\* expired deadlines, removals and an exhausted pool do.
THEOREM NothingSilentlyLost == Gentle /\ QueueSpec => []NoSilentLoss
<1> SUFFICES ASSUME Gentle PROVE QueueSpec => []NoSilentLoss
    OBVIOUS
<1>1. Init => NoSilentLoss
    BY DEF Init, NoSilentLoss, Events
<1>2. PlaceInv /\ QueueTypeOK /\ SuccessSettled /\ Uninterrupted /\ NoSilentLoss /\ [Next]_queueVars
      => NoSilentLoss'
  <2> SUFFICES ASSUME PlaceInv, QueueTypeOK, SuccessSettled, Uninterrupted, NoSilentLoss,
                      [Next]_queueVars, NEW e \in Events, e < next'
               PROVE  Kept(e)'
      BY DEF NoSilentLoss, Kept
  <2>1. NothingLost
      BY StepLoses
  <2>2. next \in Nat /\ e \in Nat
      BY DEF QueueTypeOK, Events
  <2>3. CASE e < next
    <3>1. e \in Held \cup settled
        BY <2>3 DEF NoSilentLoss
    <3>2. ~ Interrupted(e)
      <4> SUFFICES ASSUME NEW p \in Places, p[1] \in {"cancelled", "merged"} PROVE Elems(At(p)) = {}
          BY DEF Interrupted
      <4>1. Elems(<<>>) = {}
          BY DEF Elems
      <4>2. CASE \E c \in Channels : p = <<"cancelled", c>>
          BY <4>1, <4>2, AtPlaces DEF Uninterrupted
      <4>3. CASE \E a \in Agents : p = <<"merged", a>>
          BY <4>1, <4>3, AtPlaces DEF Uninterrupted, CalmTask
      <4> QED
          BY <4>2, <4>3, PlaceKinds
    <3> QED
        BY <2>1, <3>1, <3>2, KeptStays
  <2>4. CASE ~ (e < next)
    <3>1. e = next /\ next' = next + 1
        BY <2>1, <2>2, <2>4 DEF NothingLost
    <3>2. next' # next
        BY <2>2, <3>1
    <3> QED
        BY <2>1, <3>1, <3>2 DEF NothingLost
  <2> QED
      BY <2>3, <2>4
<1>3. QueueSpec => []Uninterrupted
    BY UninterruptedHolds
<1> QED
    BY <1>1, <1>2, <1>3, PlaceInvHolds, QueueTyped, SuccessSettledHolds, PTL DEF QueueSpec
=============================================================================
