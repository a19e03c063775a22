------------------------ MODULE PubSubTopics_proofs ------------------------
(***************************************************************************)
(* Proofs, for any set of topics, tasks and any channel capacity, that the *)
(* refcounts of PubSubTopics, its command channel and the subscriber task  *)
(* never lose a retained topic, and that the task's view of its            *)
(* subscriptions tracks the server's.                                      *)
(***************************************************************************)
EXTENDS PubSubTopics, SequenceTheorems, TLAPS

\* What a command in progress says of active_topics; with it ViewsAgree is
\* inductive.
CurrentAgrees ==
    /\ link # "up" => current = Idle
    /\ current.op = "Subscribe" => current.topic \in active
    /\ current.op = "Unsubscribe" => current.topic \notin active

IInv == TypeOK /\ RetainedIsCovered /\ ViewsAgree /\ CurrentAgrees

-----------------------------------------------------------------------------
\* Enqueuing a command keeps every command that was queued.
LEMMA AppendKeeps ==
    ASSUME NEW S, NEW s \in Seq(S), NEW e \in S, NEW i \in 1..Len(s)
    PROVE  i \in 1..Len(Append(s, e)) /\ Append(s, e)[i] = s[i]
OBVIOUS

\* The enqueued command is in the queue.
LEMMA AppendAdds ==
    ASSUME NEW S, NEW s \in Seq(S), NEW e \in S
    PROVE  Len(s) + 1 \in 1..Len(Append(s, e)) /\ Append(s, e)[Len(s) + 1] = e
OBVIOUS

\* Dequeuing keeps every command but the first.
LEMMA TailKeeps ==
    ASSUME NEW S, NEW s \in Seq(S), s # <<>>, NEW i \in 1..Len(s), s[i] # Head(s)
    PROVE  \E j \in 1..Len(Tail(s)) : Tail(s)[j] = s[i]
<1>1. i # 1 /\ i - 1 \in 1..Len(Tail(s))
  OBVIOUS
<1>2. Tail(s)[i - 1] = s[i]
  BY <1>1
<1> QED
  BY <1>1, <1>2

\* A queued command is one of the two constructors, and a stage of the task.
LEMMA CommandShape ==
    ASSUME NEW c \in Command
    PROVE  /\ c \in Stage
           /\ c.topic \in Topics
           /\ c.op = "Subscribe" => c = Subscribe(c.topic)
           /\ c.op = "UnsubscribeIfIdle" => c = UnsubscribeIfIdle(c.topic)
           /\ c.op \in {"Subscribe", "UnsubscribeIfIdle"}
BY DEF Command, Stage, Subscribe, UnsubscribeIfIdle

-----------------------------------------------------------------------------
\* Every variable keeps its type: TypeOK is inductive on its own.
LEMMA TypeStep == TypeOK /\ [Next]_vars => TypeOK'
<1> SUFFICES ASSUME TypeOK, [Next]_vars PROVE TypeOK'
  OBVIOUS
<1> USE DEF TypeOK, interestVars, taskVars
<1>1. CASE \E k \in Tasks, t \in Topics : RetainTopic(k, t)
  BY <1>1 DEF RetainTopic
<1>2. CASE \E t \in Topics : ReleaseTopic(t)
  BY <1>2 DEF ReleaseTopic
<1>3. CASE \E k \in Tasks : SendSubscribe(k)
  BY <1>3 DEF SendSubscribe, Subscribe, Command
<1>4. CASE \E t \in Topics : DebounceElapsed(t)
  BY <1>4 DEF DebounceElapsed, UnsubscribeIfIdle, Command
<1>5. CASE Connect
  BY <1>5 DEF Connect
<1>6. CASE \E t \in Topics : SubscribeInitial(t)
  BY <1>6 DEF SubscribeInitial
<1>7. CASE EnterLoop
  BY <1>7 DEF EnterLoop
<1>8. CASE RecvSubscribe
  <2>1. Head(cmds) \in Command /\ Tail(cmds) \in Seq(Command)
    BY <1>8 DEF RecvSubscribe
  <2> QED
    BY <1>8, <2>1, CommandShape DEF RecvSubscribe
<1>9. CASE SinkSubscribe
  BY <1>9 DEF SinkSubscribe, Stage, Idle
<1>10. CASE RecvUnsubscribeIfIdle
  <2>1. Head(cmds) \in Command /\ Tail(cmds) \in Seq(Command)
    BY <1>10 DEF RecvUnsubscribeIfIdle
  <2> QED
    BY <1>10, <2>1, CommandShape DEF RecvUnsubscribeIfIdle
<1>11. CASE CheckIdle
  BY <1>11 DEF CheckIdle, Stage, Idle, Unsubscribe
<1>12. CASE SinkUnsubscribe
  BY <1>12 DEF SinkUnsubscribe, Stage, Idle
<1>13. CASE Disconnect
  BY <1>13 DEF Disconnect
<1>14. CASE UNCHANGED vars
  BY <1>14 DEF vars
<1> QED
  BY <1>1, <1>2, <1>3, <1>4, <1>5, <1>6, <1>7, <1>8, <1>9, <1>10, <1>11,
     <1>12, <1>13, <1>14 DEF Next, Handlers, Sends, SubscriberTask

-----------------------------------------------------------------------------
\* No step of a handler, a timer or the subscriber task loses the only thing
\* that covers a retained topic.
LEMMA CoveredStep ==
    TypeOK /\ RetainedIsCovered /\ [Next]_vars => RetainedIsCovered'
<1> SUFFICES ASSUME TypeOK, RetainedIsCovered, [Next]_vars,
                    NEW t \in Topics, link' # "down", desired'[t] > 0
             PROVE  t \in active' \cup initial' \/ SubscribeOnItsWay(t)'
  BY DEF RetainedIsCovered
<1> USE DEF TypeOK, interestVars, taskVars
\* The cases in which neither the connection nor a queue loses anything.
<1>a. ASSUME link # "down", desired[t] > 0, active \cup initial \subseteq active' \cup initial',
             SubscribeOnItsWay(t) => SubscribeOnItsWay(t)'
      PROVE  t \in active' \cup initial' \/ SubscribeOnItsWay(t)'
  BY <1>a DEF RetainedIsCovered
<1>1. CASE \E k \in Tasks, u \in Topics : RetainTopic(k, u)
  <2> PICK k \in Tasks, u \in Topics : RetainTopic(k, u)
    BY <1>1
  <2>1. CASE desired[t] = 0
    <3>1. u = t /\ sending'[k] = t
      BY <2>1 DEF RetainTopic
    <3> QED
      BY <3>1 DEF SubscribeOnItsWay
  <2>2. CASE desired[t] > 0
    <3>1. \A j \in Tasks : sending[j] = t => sending'[j] = t
      BY PubSubAssumption DEF RetainTopic, PubSubAssumption
    <3> QED
      BY <1>a, <2>2, <3>1 DEF RetainTopic, SubscribeOnItsWay
  <2> QED
    BY <2>1, <2>2
<1>2. CASE \E u \in Topics : ReleaseTopic(u)
  BY <1>2, <1>a DEF ReleaseTopic, SubscribeOnItsWay
<1>3. CASE \E k \in Tasks : SendSubscribe(k)
  <2> PICK k \in Tasks : SendSubscribe(k)
    BY <1>3
  <2>1. Subscribe(sending[k]) \in Command /\ cmds' = Append(cmds, Subscribe(sending[k]))
    BY DEF SendSubscribe, Subscribe, Command
  <2>2. \A i \in 1..Len(cmds) : i \in 1..Len(cmds') /\ cmds'[i] = cmds[i]
    BY <2>1, AppendKeeps
  <2>3. sending[k] = t => \E i \in 1..Len(cmds') : cmds'[i] = Subscribe(t)
    BY <2>1, AppendAdds
  <2>4. \A j \in Tasks : j # k => sending'[j] = sending[j]
    BY DEF SendSubscribe
  <2> QED
    BY <1>a, <2>2, <2>3, <2>4 DEF SendSubscribe, SubscribeOnItsWay
<1>4. CASE \E u \in Topics : DebounceElapsed(u)
  <2> PICK u \in Topics : DebounceElapsed(u)
    BY <1>4
  <2>1. UnsubscribeIfIdle(u) \in Command /\ cmds' = Append(cmds, UnsubscribeIfIdle(u))
    BY DEF DebounceElapsed, UnsubscribeIfIdle, Command
  <2>2. \A i \in 1..Len(cmds) : i \in 1..Len(cmds') /\ cmds'[i] = cmds[i]
    BY <2>1, AppendKeeps
  <2> QED
    BY <1>a, <2>2 DEF DebounceElapsed, SubscribeOnItsWay
<1>5. CASE Connect
  BY <1>5 DEF Connect
<1>6. CASE \E u \in Topics : SubscribeInitial(u)
  BY <1>6, <1>a DEF SubscribeInitial, SubscribeOnItsWay
<1>7. CASE EnterLoop
  BY <1>7, <1>a DEF EnterLoop, SubscribeOnItsWay
<1>8. CASE RecvSubscribe
  <2>1. Head(cmds) \in Command /\ cmds # <<>> /\ cmds' = Tail(cmds)
    BY <1>8 DEF RecvSubscribe
  <2>2. CASE Head(cmds) = Subscribe(t)
    BY <1>8, <2>2 DEF RecvSubscribe, Subscribe
  <2>3. CASE Head(cmds) # Subscribe(t)
    <3>1. ASSUME NEW i \in 1..Len(cmds), cmds[i] = Subscribe(t)
          PROVE  \E j \in 1..Len(cmds') : cmds'[j] = Subscribe(t)
      BY <2>1, <2>3, <3>1, TailKeeps
    <3> QED
      BY <1>a, <1>8, <3>1 DEF RecvSubscribe, SubscribeOnItsWay
  <2> QED
    BY <2>2, <2>3
<1>9. CASE SinkSubscribe
  BY <1>9, <1>a DEF SinkSubscribe, SubscribeOnItsWay
<1>10. CASE RecvUnsubscribeIfIdle
  <2>1. Head(cmds) \in Command /\ cmds # <<>> /\ cmds' = Tail(cmds)
    BY <1>10 DEF RecvUnsubscribeIfIdle
  <2>2. Head(cmds) # Subscribe(t)
    BY <1>10 DEF RecvUnsubscribeIfIdle, Subscribe
  <2>3. ASSUME NEW i \in 1..Len(cmds), cmds[i] = Subscribe(t)
        PROVE  \E j \in 1..Len(cmds') : cmds'[j] = Subscribe(t)
    BY <2>1, <2>2, <2>3, TailKeeps
  <2> QED
    BY <1>a, <1>10, <2>3 DEF RecvUnsubscribeIfIdle, SubscribeOnItsWay
<1>11. CASE CheckIdle
  <2>1. t \in active => t \in active'
    BY <1>11 DEF CheckIdle
  <2> QED
    BY <1>11, <2>1 DEF CheckIdle, SubscribeOnItsWay, RetainedIsCovered
<1>12. CASE SinkUnsubscribe
  BY <1>12, <1>a DEF SinkUnsubscribe, SubscribeOnItsWay
<1>13. CASE Disconnect
  BY <1>13 DEF Disconnect
<1>14. CASE UNCHANGED vars
  BY <1>14, <1>a DEF vars, SubscribeOnItsWay
<1> QED
  BY <1>1, <1>2, <1>3, <1>4, <1>5, <1>6, <1>7, <1>8, <1>9, <1>10, <1>11,
     <1>12, <1>13, <1>14 DEF Next, Handlers, Sends, SubscriberTask

-----------------------------------------------------------------------------
\* active_topics and Redis change together, up to the one write in progress.
LEMMA ViewsStep ==
    TypeOK /\ ViewsAgree /\ CurrentAgrees /\ [Next]_vars
        => ViewsAgree' /\ CurrentAgrees'
<1> SUFFICES ASSUME TypeOK, ViewsAgree, CurrentAgrees, [Next]_vars
             PROVE  ViewsAgree' /\ CurrentAgrees'
  OBVIOUS
<1> USE DEF TypeOK, ViewsAgree, CurrentAgrees, interestVars, taskVars
<1>1. CASE \/ \E k \in Tasks, t \in Topics : RetainTopic(k, t)
           \/ \E t \in Topics : ReleaseTopic(t)
           \/ \E k \in Tasks : SendSubscribe(k)
           \/ \E t \in Topics : DebounceElapsed(t)
           \/ UNCHANGED vars
  BY <1>1 DEF RetainTopic, ReleaseTopic, SendSubscribe, DebounceElapsed, vars
<1>2. CASE Connect
  BY <1>2 DEF Connect, Idle
<1>3. CASE \E t \in Topics : SubscribeInitial(t)
  BY <1>3 DEF SubscribeInitial, Idle
<1>4. CASE EnterLoop
  BY <1>4 DEF EnterLoop, Idle
<1>5. CASE RecvSubscribe
  <2>1. Head(cmds) \in Command
    BY <1>5 DEF RecvSubscribe
  <2>2. Head(cmds) = Subscribe(Head(cmds).topic) /\ Head(cmds).topic \in Topics
    BY <1>5, <2>1, CommandShape DEF RecvSubscribe
  <2> QED
    BY <1>5, <2>2 DEF RecvSubscribe, Idle, Unsubscribe, Subscribe
<1>6. CASE SinkSubscribe
  BY <1>6 DEF SinkSubscribe, Idle, Subscribe, Unsubscribe
<1>7. CASE RecvUnsubscribeIfIdle
  BY <1>7 DEF RecvUnsubscribeIfIdle, Idle, Subscribe, Unsubscribe
<1>8. CASE CheckIdle
  BY <1>8 DEF CheckIdle, Idle, Subscribe, Unsubscribe
<1>9. CASE SinkUnsubscribe
  BY <1>9 DEF SinkUnsubscribe, Idle, Subscribe, Unsubscribe
<1>10. CASE Disconnect
  BY <1>10 DEF Disconnect, Idle
<1> QED
  BY <1>1, <1>2, <1>3, <1>4, <1>5, <1>6, <1>7, <1>8, <1>9, <1>10
     DEF Next, Handlers, Sends, SubscriberTask

-----------------------------------------------------------------------------
\* A fresh PubSubManager, with no topic retained, satisfies the invariant.
LEMMA InitIInv == Init => IInv
BY DEF Init, IInv, TypeOK, RetainedIsCovered, ViewsAgree, CurrentAgrees, Idle

\* No step of a handler, a timer or the subscriber task breaks the invariant.
LEMMA StepIInv == IInv /\ [Next]_vars => IInv'
BY TypeStep, CoveredStep, ViewsStep DEF IInv

\* The state of the topic refcounts, the command channel and the subscriber
\* task is well typed in every behaviour.
THEOREM TypeCorrect == Spec => []TypeOK
<1>1. IInv => TypeOK
  BY DEF IInv
<1> QED
  BY InitIInv, StepIInv, <1>1, PTL DEF Spec

\* While the Redis connection is up, a topic some handler retained is active,
\* in the snapshot being subscribed, or has a Subscribe on its way.
THEOREM RetainedCovered == Spec => []RetainedIsCovered
<1>1. IInv => RetainedIsCovered
  BY DEF IInv
<1> QED
  BY InitIInv, StepIInv, <1>1, PTL DEF Spec

\* active_topics and the server's subscriptions differ at most by the one
\* socket write the subscriber task is in the middle of.
THEOREM ViewsCorrect == Spec => []ViewsAgree
<1>1. IInv => ViewsAgree
  BY DEF IInv
<1> QED
  BY InitIInv, StepIInv, <1>1, PTL DEF Spec

=============================================================================
