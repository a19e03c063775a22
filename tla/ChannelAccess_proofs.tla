------------------------- MODULE ChannelAccess_proofs -------------------------
(***************************************************************************)
(* ChannelAccess implements AccessContract, for every set of people and    *)
(* handlers and every lifetime of the caches and handlers.                 *)
(*                                                                         *)
(* The argument bounds the age of knowledge.  An answer is right when it   *)
(* is read, so an answer that is wrong was overtaken by a change since,    *)
(* and the people it concerns have been quiet for no longer than the       *)
(* answer is old: at most the age of the handler that holds it, plus the   *)
(* lifetime of a cached answer and of the handler that cached it.          *)
(***************************************************************************)
EXTENDS ChannelAccess, TLAPS

Right(k, v) ==
    /\ k.of = "member"  => (v = "yes" <=> Member(k.who))
    /\ k.of = "access"  => (v = "yes" <=> Access(k.who))
    /\ k.of = "private" => (v = "no" <=> Open)

Concerned(k) == IF k.of = "private" THEN People ELSE {k.who}

\* Whoever holds the answer v about k holds a right one, or one that was
\* overtaken no longer than n ticks ago.
Knows(k, v, n) == v # "none" => Right(k, v) \/ \A p \in Concerned(k) : quiet[p] <= n

Limit == HandlerTime + CacheTTL

CacheKnows == \A k \in Keys : Knows(k, cache[k].val, HandlerTime + cache[k].age)

TaskKnows(x) ==
    /\ Looking(x) => Knows(KeyOf(x), x.read, x.age)
    /\ Knows(PrivateKey, x.row, x.age)
    /\ Knows(PrivateKey, x.vis, Limit + x.age)
    /\ x.pc = "confirm" => Knows(AccessKey(x.who), "no", Limit + x.age)
    /\ x.pc \in {"members", "member"} => Knows(PrivateKey, "yes", Limit + x.age)
    /\ \A p \in x.allowed : Access(p) \/ quiet[p] <= Limit + x.age
    /\ \A p \in x.refused : ~ Access(p) \/ quiet[p] <= Limit + x.age

Knowledge == CacheKnows /\ \A t \in Tasks : TaskKnows(tasks[t])

-----------------------------------------------------------------------------
(* Types.                                                                  *)

TaskRecord == [pc : Pcs, who : People \cup {NoOne}, age : 0..HandlerTime, row : Answers,
               vis : Answers, todo : SUBSET People, allowed : SUBSET People,
               refused : SUBSET People, read : Answers]

Named(x) == x.pc \in {"access", "confirm", "row", "gate", "member"} => x.who \in People

\* The idle record is a record of a task.
LEMMA IdleTyped == Idle \in TaskRecord /\ Named(Idle)
BY AccessAssumption DEF Idle, TaskRecord, Named, Pcs, Answers

\* The type invariant in terms of the records above.
LEMMA TaskTypes ==
    ASSUME AccessTypeOK, NEW t \in Tasks
    PROVE  tasks[t] \in TaskRecord /\ Named(tasks[t])
BY DEF AccessTypeOK, TaskRecord, Named

\* A lookup is about one of the keys.
LEMMA KeyTyped ==
    ASSUME NEW x \in TaskRecord, Named(x), Looking(x)
    PROVE  KeyOf(x) \in Keys
BY DEF KeyOf, Named, Looking, Keys, AccessKey, MemberKey, PrivateKey

\* A query answers yes or no.
LEMMA AnswerTyped == ASSUME NEW k PROVE Answer(k) \in {"yes", "no"}
BY DEF Answer

\* What a drop removes is among the keys.
LEMMA CoveredTyped == ASSUME NEW d PROVE Covered(d) \subseteq Keys
BY DEF Covered

\* The history keeps to the keys.
LEMMA MissedTyped ==
    ASSUME missed \subseteq Keys, NEW S, S \subseteq Keys, Missed(S)
    PROVE  (missed \subseteq Keys)'
BY DEF Missed

\* The variables a task does not write keep their types.
Others ==
    /\ members \subseteq People /\ visibility \in {"open", "private"} /\ deleted \in BOOLEAN
    /\ handlers \subseteq [op : {"Membership", "Flip", "ChannelDeleted"}, who : People \cup {NoOne},
                           evict : BOOLEAN]
    /\ messages \subseteq [op : {"Membership", "AccessibleAll", "Visibility", "ChannelDeleted"},
                           who : People \cup {NoOne}]
    /\ \A d \in handlers \cup messages : d.op = "Membership" => d.who \in People
    /\ writes \in 0..MaxWrites /\ quiet \in [People -> 0..Bound + 1]

CacheTyped == cache \in [Keys -> [val : Answers, age : 0..CacheTTL]] /\ missed \subseteq Keys

Rest == subs \subseteq People /\ granted \subseteq People /\ denied \subseteq People

TasksTyped == tasks \in [Tasks -> TaskRecord] /\ \A t \in Tasks : Named(tasks[t])

\* The type invariant, by what writes the variables.
LEMMA TypeParts == AccessTypeOK <=> Others /\ CacheTyped /\ Rest /\ TasksTyped
BY DEF AccessTypeOK, Others, CacheTyped, Rest, TasksTyped, TaskRecord, Named

\* The same of the next state.
LEMMA TypePartsNext == Others' /\ CacheTyped' /\ Rest' /\ TasksTyped' => AccessTypeOK'
BY DEF AccessTypeOK, Others, CacheTyped, Rest, TasksTyped, TaskRecord, Named

\* A task that moves to a typed record keeps the tasks typed.
LEMMA MovesTyped ==
    ASSUME TasksTyped, NEW t \in Tasks, NEW r \in TaskRecord, Named(r), Moves(t, r)
    PROVE  TasksTyped'
BY DEF TasksTyped, Moves, Named

\* A lookup keeps the cache typed.
LEMMA LearnsTyped ==
    ASSUME AccessTypeOK, NEW t \in Tasks, Looking(tasks[t]), NEW v \in {"yes", "no"}, Learns(t, v)
    PROVE  CacheTyped'
<1>1. tasks[t] \in TaskRecord /\ Named(tasks[t]) BY TaskTypes
<1>2. KeyOf(tasks[t]) \in Keys BY <1>1, KeyTyped
<1>3. CacheTyped BY TypeParts
<1>4. CASE UNCHANGED cached BY <1>3, <1>4 DEF CacheTyped, cached
<1>5. CASE /\ \/ cache' = cache
              \/ cache' = [cache EXCEPT ![KeyOf(tasks[t])] = [val |-> v, age |-> 0]]
           /\ Missed({KeyOf(tasks[t])})
  <2>1. (missed \subseteq Keys)' BY <1>2, <1>3, <1>5, MissedTyped DEF CacheTyped
  <2>2. [val |-> v, age |-> 0] \in [val : Answers, age : 0..CacheTTL]
        BY AccessAssumption DEF Answers
  <2> QED BY <1>2, <1>3, <1>5, <2>1, <2>2 DEF CacheTyped
<1> QED BY <1>4, <1>5 DEF Learns

\* A committed change keeps the types.
LEMMA CommitTyped ==
    ASSUME AccessTypeOK, NEW d, NEW S,
           d \in [op : {"Membership", "Flip", "ChannelDeleted"}, who : People \cup {NoOne},
                  evict : BOOLEAN],
           d.op = "Membership" => d.who \in People,
           Commit(d, S),
           (members \subseteq People /\ visibility \in {"open", "private"} /\ deleted \in BOOLEAN)'
    PROVE  AccessTypeOK'
<1>1. Others /\ CacheTyped /\ Rest /\ TasksTyped BY TypeParts
<1>2. CacheTyped'
  <2>1. (missed \subseteq Keys)' BY <1>1, MissedTyped DEF CacheTyped, Commit
  <2> QED BY <1>1, <2>1 DEF CacheTyped, Commit
<1>3. Rest' /\ TasksTyped' BY <1>1 DEF Rest, TasksTyped, Commit, Silent, Named
<1>4. \A m \in Published(d) :
        /\ m \in [op : {"Membership", "AccessibleAll", "Visibility", "ChannelDeleted"},
                  who : People \cup {NoOne}]
        /\ m.op = "Membership" => m.who \in People
      BY DEF Published
<1>5. (writes \in 0..MaxWrites /\ quiet \in [People -> 0..Bound + 1])'
      BY <1>1, AccessAssumption DEF Others, Commit, Bound
<1>6. Others' BY <1>1, <1>4, <1>5 DEF Others, Commit
<1> QED BY <1>2, <1>3, <1>6, TypePartsNext

\* A cache whose entries were dropped is a cache.
LEMMA DroppedTyped == ASSUME CacheTyped, NEW d PROVE Dropped(d) \in [Keys -> [val : Answers, age : 0..CacheTTL]]
BY AccessAssumption DEF CacheTyped, Dropped, Absent, Answers

\* The steps of Writes and Drops keep the types.
LEMMA OutsideTyped == ASSUME AccessTypeOK, Writes \/ Drops PROVE AccessTypeOK'
<1>0. Others /\ CacheTyped /\ Rest /\ TasksTyped BY TypeParts
<1>1. ASSUME NEW p \in People, AddMember(p) PROVE AccessTypeOK'
      BY <1>0, <1>1, CommitTyped DEF AddMember, Others
<1>2. ASSUME NEW p \in People, RemoveMember(p) PROVE AccessTypeOK'
      BY <1>0, <1>2, CommitTyped DEF RemoveMember, Others
<1>3. ASSUME NEW v \in {"open", "private"}, NEW w \in BOOLEAN, Flip(v, w) PROVE AccessTypeOK'
  <2>1. (w /\ v = "private") \in BOOLEAN OBVIOUS
  <2> QED BY <1>0, <1>3, <2>1, CommitTyped DEF Flip, Others
<1>4. ASSUME DeleteChannel PROVE AccessTypeOK'
      BY <1>0, <1>4, CommitTyped DEF DeleteChannel, Others
<1>5. ASSUME NEW d \in handlers, Invalidate(d) PROVE AccessTypeOK'
  <2>1. (missed \subseteq Keys)' BY <1>0, <1>5, MissedTyped DEF CacheTyped, Invalidate
  <2>2. CacheTyped' BY <1>0, <1>5, <2>1, DroppedTyped DEF CacheTyped, Invalidate
  <2>3. Others' BY <1>0, <1>5 DEF Others, Invalidate, database
  <2>4. Rest' /\ TasksTyped' BY <1>0, <1>5 DEF Rest, TasksTyped, Invalidate, Silent, Named
  <2> QED BY <2>2, <2>3, <2>4, TypePartsNext
<1>6. ASSUME NEW d \in messages, ApplyDrop(d) PROVE AccessTypeOK'
  <2>1. (missed \subseteq Keys)' BY <1>0, <1>6, MissedTyped DEF CacheTyped, ApplyDrop
  <2>2. CacheTyped' BY <1>0, <1>6, <2>1, DroppedTyped DEF CacheTyped, ApplyDrop
  <2>3. Others' BY <1>0, <1>6 DEF Others, ApplyDrop, database
  <2>4. Rest' /\ TasksTyped' BY <1>0, <1>6 DEF Rest, TasksTyped, ApplyDrop, Silent, Named
  <2> QED BY <2>2, <2>3, <2>4, TypePartsNext
<1>7. ASSUME NEW d \in messages, LoseDrop(d) PROVE AccessTypeOK'
  <2>1. (missed \subseteq Keys)' BY <1>0, <1>7, CoveredTyped, MissedTyped DEF CacheTyped, LoseDrop
  <2>2. CacheTyped' BY <1>0, <1>7, <2>1 DEF CacheTyped, LoseDrop
  <2>3. Others' BY <1>0, <1>7 DEF Others, LoseDrop, database
  <2>4. Rest' /\ TasksTyped' BY <1>0, <1>7 DEF Rest, TasksTyped, LoseDrop, Silent, Named
  <2> QED BY <2>2, <2>3, <2>4, TypePartsNext
<1> QED BY <1>1, <1>2, <1>3, <1>4, <1>5, <1>6, <1>7 DEF Writes, Drops

\* Time keeps the types.
LEMMA TickTyped == ASSUME AccessTypeOK, Tick PROVE AccessTypeOK'
<1>0. Others /\ CacheTyped /\ Rest /\ TasksTyped BY TypeParts
<1>1. (missed \subseteq Keys)' BY <1>0, MissedTyped DEF CacheTyped, Tick
<1>2. \A k \in Keys : Aged(cache[k]) \in [val : Answers, age : 0..CacheTTL]
      BY <1>0, AccessAssumption DEF CacheTyped, Aged, Absent, Answers
<1>3. CacheTyped' BY <1>1, <1>2 DEF CacheTyped, Tick
<1>4. ASSUME NEW t \in Tasks PROVE AgedTask(tasks[t]) \in TaskRecord /\ Named(AgedTask(tasks[t]))
  <2>1. tasks[t] \in TaskRecord /\ Named(tasks[t]) BY TaskTypes
  <2>2. CASE tasks[t] = Idle BY <2>1, <2>2 DEF AgedTask
  <2>3. CASE tasks[t] # Idle
        BY <2>1, <2>3, AccessAssumption DEF AgedTask, TaskRecord, Named, Tick
  <2> QED BY <2>2, <2>3
<1>5. TasksTyped' BY <1>4 DEF TasksTyped, Tick
<1>6. quiet' \in [People -> 0..Bound + 1] BY <1>0, AccessAssumption DEF Others, Tick, Bound
<1>7. Others' /\ Rest' BY <1>0, <1>6 DEF Others, Rest, Tick, Silent, database
<1> QED BY <1>3, <1>5, <1>7, TypePartsNext

\* A step of a task, by the record it moves to.
LEMMA StepTyped ==
    ASSUME AccessTypeOK, NEW t \in Tasks, NEW r \in TaskRecord, Named(r), TaskStep, Moves(t, r),
           CacheTyped', Rest'
    PROVE  AccessTypeOK'
<1>1. Others /\ CacheTyped /\ Rest /\ TasksTyped BY TypeParts
<1>2. Others' BY <1>1 DEF Others, TaskStep, database
<1>3. TasksTyped' BY <1>1, MovesTyped
<1> QED BY <1>2, <1>3, TypePartsNext

\* A task that goes on at another place keeps the types of its fields.
LEMMA AtTyped ==
    ASSUME AccessTypeOK, NEW t \in Tasks, NEW pc \in Pcs
    PROVE  /\ At(t, pc) \in TaskRecord
           /\ At(t, pc).who = tasks[t].who /\ At(t, pc).pc = pc /\ At(t, pc).read = "none"
           /\ At(t, pc).age = tasks[t].age /\ At(t, pc).row = tasks[t].row
           /\ At(t, pc).vis = tasks[t].vis /\ At(t, pc).todo = tasks[t].todo
           /\ At(t, pc).allowed = tasks[t].allowed /\ At(t, pc).refused = tasks[t].refused
<1>1. tasks[t] \in TaskRecord BY TaskTypes
<1> QED BY <1>1 DEF At, TaskRecord, Answers

\* Whom the gate of a fan-out lets through.
LEMMA GatedTyped ==
    ASSUME AccessTypeOK, NEW t \in Tasks, NEW v, NEW S \in SUBSET People
    PROVE  Gated(t, v, S) \in TaskRecord /\ Named(Gated(t, v, S))
<1>1. "send" \in Pcs /\ "members" \in Pcs BY DEF Pcs
<1>2. At(t, "send") \in TaskRecord /\ At(t, "members") \in TaskRecord BY <1>1, AtTyped
<1>3. At(t, "send").pc = "send" /\ At(t, "members").pc = "members" BY <1>1, AtTyped
<1> QED BY <1>2, <1>3 DEF Gated, TaskRecord, Answers, Named, Pcs

\* The steps of a task keep the types.
LEMMA TaskTyped == ASSUME AccessTypeOK, NEW t \in Tasks, TaskSteps(t) PROVE AccessTypeOK'
<1>0. Others /\ CacheTyped /\ Rest /\ TasksTyped BY TypeParts
<1>a. tasks[t] \in TaskRecord /\ Named(tasks[t]) BY TaskTypes
<1>c. ASSUME UNCHANGED cached PROVE CacheTyped' BY <1>0, <1>c DEF CacheTyped, cached
<1>s. ASSUME Silent, UNCHANGED subs PROVE Rest' BY <1>0, <1>s DEF Rest, Silent
<1>i. Idle \in TaskRecord /\ Named(Idle) BY IdleTyped
<1>1. CASE Ask(t)
  <2> DEFINE r == [tasks[t] EXCEPT !.read = Answer(KeyOf(tasks[t]))]
  <2>1. r \in TaskRecord /\ Named(r) BY <1>a, AnswerTyped DEF TaskRecord, Named, Answers
  <2>2. Moves(t, r) BY <1>0, <1>1 DEF Ask, Moves, TasksTyped
  <2> QED BY <1>1, <1>c, <1>s, <2>1, <2>2, StepTyped DEF Ask
<1>2. CASE LookupFails(t)
  <2> DEFINE r == IF tasks[t].pc = "member"
                  THEN [At(t, "members") EXCEPT !.todo = @ \ {tasks[t].who}]
                  ELSE IF tasks[t].pc = "row" THEN At(t, "gate") ELSE Idle
  <2>1. At(t, "members") \in TaskRecord /\ At(t, "gate") \in TaskRecord BY AtTyped DEF Pcs
  <2>2. /\ At(t, "gate").who = tasks[t].who
        /\ At(t, "members").pc = "members" /\ At(t, "gate").pc = "gate"
        BY AtTyped DEF Pcs
  <2>3. r \in TaskRecord /\ Named(r) BY <1>a, <1>i, <2>1, <2>2 DEF TaskRecord, Named
  <2> QED BY <1>2, <1>c, <1>s, <2>3, StepTyped DEF LookupFails
<1>3. ASSUME NEW v \in {"yes", "no"}, ReqAccess(t, v) PROVE AccessTypeOK'
  <2>1. CacheTyped' BY <1>3, LearnsTyped DEF ReqAccess, Looking
  <2>2. tasks[t].who \in People BY <1>3, <1>a DEF ReqAccess, Named
  <2>3. CASE Admits(t)
        BY <1>0, <1>3, <1>i, <2>1, <2>2, <2>3, StepTyped DEF Admits, Rest, ReqAccess
  <2>4. CASE Moves(t, At(t, "confirm")) /\ UNCHANGED subs /\ Silent
    <3>1. At(t, "confirm") \in TaskRecord /\ Named(At(t, "confirm")) BY <2>2, AtTyped DEF Pcs, Named
    <3> QED BY <1>3, <1>s, <2>1, <2>4, <3>1, StepTyped DEF ReqAccess
  <2> QED BY <1>3, <2>3, <2>4 DEF ReqAccess
<1>4. ASSUME NEW v \in {"yes", "no"}, ReqConfirm(t, v) PROVE AccessTypeOK'
  <2>1. CacheTyped' BY <1>4, LearnsTyped DEF ReqConfirm, Looking
  <2>2. tasks[t].who \in People BY <1>4, <1>a DEF ReqConfirm, Named
  <2>3. Rest' /\ Moves(t, Idle) BY <1>0, <1>4, <2>2 DEF Admits, Rest, ReqConfirm
  <2> QED BY <1>4, <1>i, <2>1, <2>3, StepTyped DEF ReqConfirm
<1>5. ASSUME NEW v \in {"yes", "no"}, IngestRow(t, v) PROVE AccessTypeOK'
  <2> DEFINE r == [At(t, "gate") EXCEPT !.row = v,
                      !.vis = IF cache[PrivateKey].val = "yes" THEN "yes" ELSE v]
  <2>1. CacheTyped' BY <1>5, LearnsTyped DEF IngestRow, Looking
  <2>2. At(t, "gate") \in TaskRecord /\ At(t, "gate").who = tasks[t].who BY AtTyped DEF Pcs
  <2>3. tasks[t].who \in People BY <1>5, <1>a DEF IngestRow, Named
  <2>4. r \in TaskRecord /\ Named(r) BY <2>2, <2>3 DEF TaskRecord, Named, Answers
  <2> QED BY <1>5, <1>s, <2>1, <2>4, StepTyped DEF IngestRow
<1> DEFINE m == [At(t, "match") EXCEPT !.who = NoOne, !.row = "none"]
<1>m. m \in TaskRecord /\ Named(m)
  <2>1. At(t, "match") \in TaskRecord /\ At(t, "match").pc = "match" BY AtTyped DEF Pcs
  <2> QED BY <2>1 DEF TaskRecord, Named, Answers
<1>6. ASSUME NEW v \in {"yes", "no"}, IngestGate(t, v) PROVE AccessTypeOK'
  <2>1. CacheTyped' BY <1>6, LearnsTyped DEF IngestGate, Looking
  <2>2. tasks[t].who \in People BY <1>6, <1>a DEF IngestGate, Named
  <2>3. Rest' BY <1>0, <1>6, <2>2 DEF Rest, IngestGate
  <2>4. Moves(t, m) \/ Moves(t, Idle) BY <1>6 DEF IngestGate
  <2> QED BY <1>6, <1>i, <1>m, <2>1, <2>3, <2>4, StepTyped DEF IngestGate
<1>7. CASE GateSkipped(t) BY <1>7, <1>c, <1>s, <1>m, StepTyped DEF GateSkipped
<1>8. CASE SpawnFanOut(t)
  <2> DEFINE r == [Idle EXCEPT !.pc = "match"]
  <2>1. r \in TaskRecord /\ Named(r) BY <1>i DEF TaskRecord, Named, Pcs
  <2> QED BY <1>8, <1>c, <1>s, <2>1, StepTyped DEF SpawnFanOut
<1>9. CASE Match(t)
  <2> DEFINE r == [At(t, "visibility") EXCEPT !.todo = subs]
  <2>1. At(t, "visibility") \in TaskRecord /\ At(t, "visibility").pc = "visibility" BY AtTyped DEF Pcs
  <2>2. r \in TaskRecord /\ Named(r) BY <1>0, <2>1 DEF TaskRecord, Named, Rest
  <2>3. Gated(t, tasks[t].vis, subs) \in TaskRecord /\ Named(Gated(t, tasks[t].vis, subs))
        BY <1>0, GatedTyped DEF Rest
  <2> QED BY <1>9, <1>c, <1>s, <2>2, <2>3, StepTyped DEF Match
<1>10. ASSUME NEW v \in {"yes", "no"}, FilterVisibility(t, v) PROVE AccessTypeOK'
  <2>1. CacheTyped' BY <1>10, LearnsTyped DEF FilterVisibility, Looking
  <2>2. tasks[t].todo \in SUBSET People BY <1>a DEF TaskRecord
  <2>3. Gated(t, v, tasks[t].todo) \in TaskRecord /\ Named(Gated(t, v, tasks[t].todo))
        BY <2>2, GatedTyped
  <2> QED BY <1>10, <1>s, <2>1, <2>3, StepTyped DEF FilterVisibility
<1>11. ASSUME NEW p \in People, FilterNext(t, p) PROVE AccessTypeOK'
  <2> DEFINE r == [At(t, "member") EXCEPT !.who = p]
  <2>1. At(t, "member") \in TaskRecord BY AtTyped DEF Pcs
  <2>2. r \in TaskRecord /\ Named(r) BY <2>1 DEF TaskRecord, Named
  <2> QED BY <1>11, <1>c, <1>s, <2>2, StepTyped DEF FilterNext
<1>12. ASSUME NEW v \in {"yes", "no"}, FilterMember(t, v) PROVE AccessTypeOK'
  <2> DEFINE p == tasks[t].who
             r == [At(t, "members") EXCEPT !.who = NoOne, !.todo = @ \ {p},
                      !.allowed = IF v = "yes" THEN @ \cup {p} ELSE @,
                      !.refused = IF v = "no" THEN @ \cup {p} ELSE @]
  <2>1. CacheTyped' BY <1>12, LearnsTyped DEF FilterMember, Looking
  <2>2. p \in People BY <1>12, <1>a DEF FilterMember, Named
  <2>3. At(t, "members") \in TaskRecord /\ At(t, "members").pc = "members" BY AtTyped DEF Pcs
  <2>4. r \in TaskRecord /\ Named(r) BY <2>2, <2>3 DEF TaskRecord, Named
  <2> QED BY <1>12, <1>s, <2>1, <2>4, StepTyped DEF FilterMember
<1>13. CASE Send(t)
  <2>1. Rest' BY <1>0, <1>13, <1>a DEF Rest, Send, TaskRecord
  <2> QED BY <1>13, <1>c, <1>i, <2>1, StepTyped DEF Send
<1>14. ASSUME NEW p \in People, SpawnReq(t, p) PROVE AccessTypeOK'
  <2> DEFINE r == [Idle EXCEPT !.pc = "access", !.who = p]
  <2>1. r \in TaskRecord /\ Named(r) BY <1>i DEF TaskRecord, Named, Pcs
  <2> QED BY <1>14, <1>c, <1>s, <2>1, StepTyped DEF SpawnReq
<1>15. ASSUME NEW p \in People, SpawnIngest(t, p) PROVE AccessTypeOK'
  <2> DEFINE r == [Idle EXCEPT !.pc = "row", !.who = p]
  <2>1. r \in TaskRecord /\ Named(r) BY <1>i DEF TaskRecord, Named, Pcs
  <2> QED BY <1>15, <1>c, <1>s, <2>1, StepTyped DEF SpawnIngest
<1> QED
  BY <1>1, <1>2, <1>3, <1>4, <1>5, <1>6, <1>7, <1>8, <1>9, <1>10, <1>11, <1>12, <1>13, <1>14, <1>15
  DEF TaskSteps

\* Every step keeps the types.
LEMMA StepsTyped == AccessTypeOK /\ [AccessNext]_accessVars => AccessTypeOK'
<1> SUFFICES ASSUME AccessTypeOK, [AccessNext]_accessVars PROVE AccessTypeOK' OBVIOUS
<1>1. ASSUME NEW p \in People, Unsubscribe(p) PROVE AccessTypeOK'
  <2>1. Others /\ CacheTyped /\ Rest /\ TasksTyped BY TypeParts
  <2>2. Others' /\ CacheTyped' /\ Rest' /\ TasksTyped'
        BY <1>1, <2>1 DEF Unsubscribe, Others, CacheTyped, Rest, TasksTyped, TaskStep, Silent,
                          database, cached, Named
  <2> QED BY <2>2, TypePartsNext
<1>2. CASE UNCHANGED accessVars
  <2>1. Others /\ CacheTyped /\ Rest /\ TasksTyped BY TypeParts
  <2>2. Others' /\ CacheTyped' /\ Rest' /\ TasksTyped'
        BY <1>2, <2>1 DEF accessVars, Others, CacheTyped, Rest, TasksTyped, Named
  <2> QED BY <2>2, TypePartsNext
<1> QED BY <1>1, <1>2, OutsideTyped, TickTyped, TaskTyped DEF AccessNext

\* The initial states are typed.
LEMMA InitTyped == AccessInit => AccessTypeOK
<1> SUFFICES ASSUME AccessInit PROVE AccessTypeOK OBVIOUS
<1>1. Rest /\ CacheTyped BY AccessAssumption DEF AccessInit, Rest, CacheTyped, Absent, Answers
<1>3. quiet \in [People -> 0..Bound + 1] BY AccessAssumption DEF AccessInit, Bound
<1>4. members \subseteq People /\ visibility \in {"open", "private"} /\ deleted \in BOOLEAN
      BY DEF AccessInit
<1>5. Others BY <1>3, <1>4, AccessAssumption DEF AccessInit, Others
<1>2. TasksTyped BY IdleTyped DEF AccessInit, TasksTyped
<1> QED BY <1>1, <1>2, <1>5, TypeParts

\* The state of the pod stays within its types: cached answers live no longer
\* than CacheTTL, handlers no longer than HandlerTime, and a handler that
\* looks somebody up knows whom.
THEOREM AccessTyped == AccessSpec => []AccessTypeOK
BY InitTyped, StepsTyped, PTL DEF AccessSpec

-----------------------------------------------------------------------------
(* Knowledge.                                                              *)

\* What is known of a person or a key stays known, e ticks older.
Carry(e) ==
    /\ \A k \in Keys, v \in Answers, n \in Nat : Knows(k, v, n) => Knows(k, v, n + e)'
    /\ \A p \in People, n \in Nat :
          /\ Access(p) \/ quiet[p] <= n => (Access(p) \/ quiet[p] <= n + e)'
          /\ ~ Access(p) \/ quiet[p] <= n => (~ Access(p) \/ quiet[p] <= n + e)'

\* A step that changes nothing about anybody.
LEMMA CarrySame == ASSUME AccessTypeOK, UNCHANGED <<members, visibility, deleted, quiet>> PROVE Carry(0)
<1>1. quiet \in [People -> Nat] BY DEF AccessTypeOK
<1> QED BY <1>1 DEF Carry, Knows, Right, Concerned, Access, Member, Open

\* A step that changes something about the people of S.
LEMMA CarryChange ==
    ASSUME AccessTypeOK, NEW S \in SUBSET People,
           quiet' = [p \in People |-> IF p \in S THEN 0 ELSE quiet[p]],
           \A p \in People \ S : Member(p)' <=> Member(p),
           S = People \/ (Open' <=> Open)
    PROVE  Carry(0)
<1>1. quiet \in [People -> Nat] BY DEF AccessTypeOK
<1>2. ASSUME NEW p \in People, NEW n \in Nat
      PROVE  /\ Access(p) \/ quiet[p] <= n => (Access(p) \/ quiet[p] <= n + 0)'
             /\ ~ Access(p) \/ quiet[p] <= n => (~ Access(p) \/ quiet[p] <= n + 0)'
      BY <1>1 DEF Access
<1>3. ASSUME NEW k \in Keys, NEW v \in Answers, NEW n \in Nat, Knows(k, v, n)
      PROVE  Knows(k, v, n + 0)'
  <2>1. CASE k.of = "private" BY <1>1, <1>3, <2>1 DEF Knows, Right, Concerned
  <2>2. CASE k.of # "private"
    <3>1. k.who \in People BY <2>2 DEF Keys, PrivateKey
    <3> QED BY <1>1, <1>3, <2>2, <3>1 DEF Knows, Right, Concerned, Access
  <2> QED BY <2>1, <2>2
<1> QED BY <1>2, <1>3 DEF Carry

\* A tick.
LEMMA CarryTick == ASSUME AccessTypeOK, Tick PROVE Carry(1)
<1>1. quiet \in [People -> Nat] BY DEF AccessTypeOK
<1>2. \A p \in People : quiet'[p] <= quiet[p] + 1 BY <1>1 DEF Tick
<1>3. quiet' \in [People -> Nat] BY <1>1 DEF Tick
<1>4. UNCHANGED <<members, visibility, deleted>> BY DEF Tick, database
<1>5. ASSUME NEW k \in Keys, NEW v \in Answers, NEW n \in Nat, Knows(k, v, n)
      PROVE  Knows(k, v, n + 1)'
  <2>1. Concerned(k) \subseteq People BY DEF Concerned, Keys, PrivateKey
  <2>2. CASE v = "none" \/ Right(k, v)
        BY <1>4, <2>2 DEF Knows, Right, Access, Member, Open
  <2>3. CASE \A p \in Concerned(k) : quiet[p] <= n
    <3>1. \A p \in Concerned(k) : quiet'[p] <= n + 1 BY <1>1, <1>2, <1>3, <2>1, <2>3
    <3> QED BY <3>1 DEF Knows, Concerned
  <2> QED BY <1>5, <2>2, <2>3 DEF Knows
<1>6. ASSUME NEW p \in People, NEW n \in Nat
      PROVE  /\ Access(p) \/ quiet[p] <= n => (Access(p) \/ quiet[p] <= n + 1)'
             /\ ~ Access(p) \/ quiet[p] <= n => (~ Access(p) \/ quiet[p] <= n + 1)'
      BY <1>1, <1>2, <1>3, <1>4 DEF Access, Member, Open
<1> QED BY <1>5, <1>6 DEF Carry

\* Older knowledge is weaker.
LEMMA KnowsLater ==
    ASSUME AccessTypeOK, NEW k \in Keys, NEW v, NEW n \in Nat, NEW m \in Nat, n <= m, Knows(k, v, n)
    PROVE  Knows(k, v, m)
<1>1. quiet \in [People -> Nat] BY DEF AccessTypeOK
<1>2. Concerned(k) \subseteq People BY DEF Concerned, Keys, PrivateKey
<1> QED BY <1>1, <1>2 DEF Knows

\* What a task knows stays known, with its age.
LEMMA TaskCarried ==
    ASSUME NEW x \in TaskRecord, Named(x), NEW e \in {0, 1}, Carry(e), TaskKnows(x)
    PROVE  TaskKnows([x EXCEPT !.age = x.age + e])'
<1> DEFINE y == [x EXCEPT !.age = x.age + e]
<1>1. /\ x.age \in Nat /\ Limit + x.age \in Nat /\ Limit \in Nat
      /\ x.read \in Answers /\ x.row \in Answers /\ x.vis \in Answers
      /\ x.allowed \subseteq People /\ x.refused \subseteq People
      BY AccessAssumption DEF TaskRecord, Limit
<1>2. /\ y.pc = x.pc /\ y.who = x.who /\ y.age = x.age + e /\ y.row = x.row /\ y.vis = x.vis
      /\ y.read = x.read /\ y.allowed = x.allowed /\ y.refused = x.refused
      BY DEF TaskRecord
<1>3. Limit + y.age = Limit + x.age + e BY <1>1, <1>2
<1>4. PrivateKey \in Keys /\ "no" \in Answers /\ "yes" \in Answers BY DEF Keys, Answers
<1>5. KeyOf(y) = KeyOf(x) /\ (Looking(y) <=> Looking(x)) BY <1>2 DEF KeyOf, Looking
<1>6. Looking(x) => KeyOf(x) \in Keys BY KeyTyped
<1>7. Looking(y) => Knows(KeyOf(y), y.read, y.age)'
      BY <1>1, <1>2, <1>5, <1>6 DEF TaskKnows, Carry
<1>8. Knows(PrivateKey, y.row, y.age)' /\ Knows(PrivateKey, y.vis, Limit + y.age)'
      BY <1>1, <1>2, <1>3, <1>4 DEF TaskKnows, Carry
<1>9. y.pc \in {"members", "member"} => Knows(PrivateKey, "yes", Limit + y.age)'
      BY <1>1, <1>2, <1>3, <1>4 DEF TaskKnows, Carry
<1>10. y.pc = "confirm" => Knows(AccessKey(y.who), "no", Limit + y.age)'
  <2>1. y.pc = "confirm" => AccessKey(y.who) \in Keys BY <1>2 DEF Named, AccessKey, Keys
  <2> QED BY <1>1, <1>2, <1>3, <1>4, <2>1 DEF TaskKnows, Carry
<1>11. /\ \A p \in y.allowed : (Access(p) \/ quiet[p] <= Limit + y.age)'
       /\ \A p \in y.refused : (~ Access(p) \/ quiet[p] <= Limit + y.age)'
       BY <1>1, <1>2, <1>3 DEF TaskKnows, Carry
<1> QED BY <1>7, <1>8, <1>9, <1>10, <1>11 DEF TaskKnows

\* An answer that a task learns is at most Limit old.
LEMMA Learned ==
    ASSUME AccessTypeOK, Knowledge, NEW t \in Tasks, Looking(tasks[t]), NEW v \in {"yes", "no"},
           Learns(t, v)
    PROVE  Knows(KeyOf(tasks[t]), v, Limit)
<1> DEFINE k == KeyOf(tasks[t])
<1>1. tasks[t] \in TaskRecord /\ Named(tasks[t]) BY TaskTypes
<1>2. k \in Keys BY <1>1, KeyTyped
<1>3. /\ tasks[t].age \in Nat /\ tasks[t].age <= HandlerTime /\ Limit \in Nat
      /\ HandlerTime <= Limit
      BY <1>1, AccessAssumption DEF TaskRecord, Limit
<1>4. CASE cache[k].val = v
  <2>1. cache[k].age \in 0..CacheTTL BY <1>2 DEF AccessTypeOK
  <2>2. HandlerTime + cache[k].age \in Nat /\ HandlerTime + cache[k].age <= Limit
        BY <2>1, AccessAssumption DEF Limit
  <2>3. Knows(k, v, HandlerTime + cache[k].age) BY <1>2, <1>4 DEF Knowledge, CacheKnows
  <2> QED BY <1>2, <1>3, <2>2, <2>3, KnowsLater
<1>5. CASE tasks[t].read = v
  <2>1. Knows(k, v, tasks[t].age) BY <1>5 DEF Knowledge, TaskKnows
  <2>2. tasks[t].age <= Limit BY <1>3, AccessAssumption
  <2> QED BY <1>2, <1>3, <2>1, <2>2, KnowsLater
<1> QED BY <1>4, <1>5 DEF Learns

\* The cache stays known when answers were dropped or a fresh one was cached.
LEMMA CacheCarried ==
    ASSUME AccessTypeOK, CacheKnows, Carry(0),
           \A k \in Keys : \/ cache'[k] = cache[k] \/ cache'[k].val = "none"
                           \/ /\ cache'[k].age = 0 /\ cache'[k].val \in Answers
                              /\ Knows(k, cache'[k].val, HandlerTime)
    PROVE  CacheKnows'
<1> SUFFICES ASSUME NEW k \in Keys PROVE Knows(k, cache[k].val, HandlerTime + cache[k].age)'
    BY DEF CacheKnows
<1>1. cache[k].age \in Nat /\ HandlerTime + cache[k].age \in Nat /\ cache[k].val \in Answers
      BY AccessAssumption DEF AccessTypeOK
<1>2. CASE cache'[k] = cache[k]
  <2>1. Knows(k, cache[k].val, HandlerTime + cache[k].age) BY DEF CacheKnows
  <2>2. \A v \in Answers, n \in Nat : Knows(k, v, n) => Knows(k, v, n + 0)' BY DEF Carry
  <2>3. HandlerTime + cache[k].age + 0 = HandlerTime + cache[k].age BY <1>1
  <2> QED BY <1>1, <1>2, <2>1, <2>2, <2>3 DEF Knows
<1>3. CASE cache'[k].val = "none" BY <1>3 DEF Knows
<1>4. CASE /\ cache'[k].age = 0 /\ cache'[k].val \in Answers /\ Knows(k, cache'[k].val, HandlerTime)
  <2>1. \A v \in Answers, n \in Nat : Knows(k, v, n) => Knows(k, v, n + 0)' BY DEF Carry
  <2>2. HandlerTime + 0 = HandlerTime /\ HandlerTime \in Nat BY AccessAssumption
  <2> QED BY <1>4, <2>1, <2>2 DEF Knows
<1> QED BY <1>2, <1>3, <1>4

\* A lookup keeps the cache known.
LEMMA LearnedCached ==
    ASSUME AccessTypeOK, Knowledge, NEW t \in Tasks, Looking(tasks[t]), NEW v \in {"yes", "no"},
           Learns(t, v), TaskStep
    PROVE  CacheKnows'
<1> DEFINE k == KeyOf(tasks[t])
<1>1. tasks[t] \in TaskRecord /\ Named(tasks[t]) BY TaskTypes
<1>2. k \in Keys BY <1>1, KeyTyped
<1>3. Carry(0) BY CarrySame DEF TaskStep, database
<1>4. CASE cache' = cache BY <1>3, <1>4, CacheCarried DEF Knowledge
<1>5. CASE /\ cache' = [cache EXCEPT ![k] = [val |-> v, age |-> 0]] /\ tasks[t].read = v
  <2>1. tasks[t].age \in Nat /\ tasks[t].age <= HandlerTime
        BY <1>1, AccessAssumption DEF TaskRecord
  <2>2. Knows(k, v, tasks[t].age) BY <1>5 DEF Knowledge, TaskKnows
  <2>3. Knows(k, v, HandlerTime) BY <1>2, <2>1, <2>2, KnowsLater, AccessAssumption
  <2>4. cache \in [Keys -> [val : Answers, age : 0..CacheTTL]] BY DEF AccessTypeOK
  <2>5. /\ cache'[k].val = v /\ cache'[k].age = 0
        /\ \A j \in Keys : j # k => cache'[j] = cache[j]
        BY <1>2, <1>5, <2>4
  <2>6. \A j \in Keys : \/ cache'[j] = cache[j] \/ cache'[j].val = "none"
                        \/ /\ cache'[j].age = 0 /\ cache'[j].val \in Answers
                           /\ Knows(j, cache'[j].val, HandlerTime)
        BY <2>3, <2>5 DEF Answers
  <2> QED BY <1>3, <2>6, CacheCarried DEF Knowledge
<1> QED BY <1>4, <1>5 DEF Learns, cached

\* A step of a task, by what the record it moves to knows.
LEMMA StepKnows ==
    ASSUME AccessTypeOK, Knowledge, NEW t \in Tasks, NEW r \in TaskRecord, Named(r), TaskStep,
           Moves(t, r), TaskKnows(r), CacheKnows'
    PROVE  Knowledge'
<1>1. Carry(0) BY CarrySame DEF TaskStep, database
<1>2. \A x \in TaskRecord : Named(x) /\ TaskKnows(x) => TaskKnows(x)'
  <2> SUFFICES ASSUME NEW x \in TaskRecord, Named(x), TaskKnows(x) PROVE TaskKnows(x)' OBVIOUS
  <2>1. TaskKnows([x EXCEPT !.age = x.age + 0])' BY <1>1, TaskCarried
  <2>2. [x EXCEPT !.age = x.age + 0] = x BY AccessAssumption DEF TaskRecord
  <2> QED BY <2>1, <2>2
<1>3. \A u \in Tasks : tasks[u] \in TaskRecord /\ Named(tasks[u]) BY TaskTypes
<1>4. tasks \in [Tasks -> TaskRecord] BY TypeParts DEF TasksTyped
<1>5. ASSUME NEW u \in Tasks PROVE TaskKnows(tasks[u])'
  <2>1. tasks'[u] = r \/ tasks'[u] = tasks[u] BY <1>4 DEF Moves
  <2>2. TaskKnows(r)' /\ TaskKnows(tasks[u]) BY <1>2 DEF Knowledge
  <2>3. PICK x \in TaskRecord : tasks'[u] = x /\ TaskKnows(x)'
        BY <1>2, <1>3, <2>1, <2>2 DEF Knowledge
  <2> QED BY <2>3 DEF TaskKnows
<1> QED BY <1>5 DEF Knowledge

\* What the steps of a task may say of a person.
Justified ==
    /\ \A p \in granted' : Access(p) \/ quiet[p] <= Bound
    /\ \A p \in denied' : ~ Access(p) \/ quiet[p] <= Bound

\* An idle task knows nothing.
LEMMA IdleKnows == TaskKnows(Idle)
BY DEF TaskKnows, Idle, Knows, Looking

\* The key of one person's membership or access.
LEMMA PersonKnown ==
    ASSUME NEW p \in People, NEW n
    PROVE  /\ Knows(MemberKey(p), "yes", n) => Access(p) \/ quiet[p] <= n
           /\ Knows(MemberKey(p), "no", n) => ~ Member(p) \/ quiet[p] <= n
           /\ Knows(AccessKey(p), "yes", n) => Access(p) \/ quiet[p] <= n
           /\ Knows(AccessKey(p), "no", n) => ~ Access(p) \/ quiet[p] <= n
           /\ Knows(PrivateKey, "no", n) => Access(p) \/ quiet[p] <= n
           /\ Knows(PrivateKey, "yes", n) => ~ Open \/ quiet[p] <= n
BY DEF Knows, Right, Concerned, Access, MemberKey, AccessKey, PrivateKey

\* The ages that occur are numbers within the bound.
LEMMA Ages ==
    ASSUME AccessTypeOK, NEW t \in Tasks
    PROVE  /\ tasks[t].age \in Nat /\ tasks[t].age <= HandlerTime
           /\ Limit \in Nat /\ Limit + tasks[t].age \in Nat /\ Limit <= Limit + tasks[t].age
           /\ Limit + tasks[t].age <= Bound /\ Limit <= Bound /\ tasks[t].age <= Bound
           /\ tasks[t].age <= Limit + tasks[t].age
           /\ Bound \in Nat /\ quiet \in [People -> Nat]
<1>1. tasks[t].age \in 0..HandlerTime BY TaskTypes DEF TaskRecord
<1>2. quiet \in [People -> Nat] BY DEF AccessTypeOK
<1> QED BY <1>1, <1>2, AccessAssumption DEF Limit, Bound

\* A fan-out past its first gate knows what let it through.
LEMMA GatedKnows ==
    ASSUME AccessTypeOK, Knowledge, NEW t \in Tasks, NEW v \in {"yes", "no"},
           NEW S \in SUBSET People, Knows(PrivateKey, v, Limit + tasks[t].age)
    PROVE  TaskKnows(Gated(t, v, S))
<1> DEFINE r == Gated(t, v, S)
<1>1. /\ At(t, "send") \in TaskRecord /\ At(t, "members") \in TaskRecord
      /\ At(t, "send").pc = "send" /\ At(t, "send").read = "none"
      /\ At(t, "send").age = tasks[t].age /\ At(t, "send").row = tasks[t].row
      /\ At(t, "send").refused = tasks[t].refused
      /\ At(t, "members").pc = "members" /\ At(t, "members").read = "none"
      /\ At(t, "members").age = tasks[t].age /\ At(t, "members").row = tasks[t].row
      /\ At(t, "members").allowed = tasks[t].allowed /\ At(t, "members").refused = tasks[t].refused
      BY AtTyped DEF Pcs
<1>2. TaskKnows(tasks[t]) BY DEF Knowledge
<1>3. CASE v = "no"
  <2>1. /\ r.pc = "send" /\ r.read = "none" /\ r.age = tasks[t].age /\ r.row = tasks[t].row
        /\ r.vis = "none" /\ r.allowed = S /\ r.refused = tasks[t].refused
        BY <1>1, <1>3 DEF Gated, TaskRecord
  <2>2. \A p \in S : Access(p) \/ quiet[p] <= Limit + tasks[t].age BY <1>3, PersonKnown
  <2> QED BY <1>2, <2>1, <2>2 DEF TaskKnows, Knows, Looking
<1>4. CASE v = "yes"
  <2>1. /\ r.pc = "members" /\ r.read = "none" /\ r.age = tasks[t].age /\ r.row = tasks[t].row
        /\ r.vis = "none" /\ r.allowed = tasks[t].allowed /\ r.refused = tasks[t].refused
        BY <1>1, <1>4 DEF Gated, TaskRecord
  <2>2. Knows(PrivateKey, r.vis, Limit + r.age) BY <2>1 DEF Knows
  <2>3. Looking(r) => Knows(KeyOf(r), r.read, r.age) BY <2>1 DEF Looking
  <2> QED BY <1>2, <1>4, <2>1, <2>2, <2>3 DEF TaskKnows
<1> QED BY <1>3, <1>4

\* Every step of a task keeps knowledge, and its verdicts are justified.
LEMMA TaskKnowledge ==
    ASSUME AccessTypeOK, Knowledge, NEW t \in Tasks, TaskSteps(t)
    PROVE  Knowledge' /\ Justified
<1>a. tasks[t] \in TaskRecord /\ Named(tasks[t]) BY TaskTypes
<1>b. TaskKnows(tasks[t]) BY DEF Knowledge
<1>c. ASSUME UNCHANGED cached, TaskStep PROVE CacheKnows'
  <2>1. Carry(0) BY <1>c, CarrySame DEF TaskStep, database
  <2> QED BY <1>c, <2>1, CacheCarried DEF Knowledge, cached
<1>i. Idle \in TaskRecord /\ Named(Idle) /\ TaskKnows(Idle) BY IdleTyped, IdleKnows
<1>j. ASSUME Silent PROVE Justified BY <1>j DEF Silent, Justified
<1>n. ASSUME NEW k, NEW n PROVE Knows(k, "none", n) BY DEF Knows
<1>1. CASE Ask(t)
  <2> DEFINE k == KeyOf(tasks[t])
             r == [tasks[t] EXCEPT !.read = Answer(k)]
  <2>1. r \in TaskRecord /\ Named(r) BY <1>a, AnswerTyped DEF TaskRecord, Named, Answers
  <2>2. Moves(t, r) BY <1>1, TypeParts DEF Ask, Moves, TasksTyped
  <2>3. /\ r.pc = tasks[t].pc /\ r.who = tasks[t].who /\ r.age = tasks[t].age
        /\ r.row = tasks[t].row /\ r.vis = tasks[t].vis /\ r.allowed = tasks[t].allowed
        /\ r.refused = tasks[t].refused /\ r.read = Answer(k)
        BY <1>a DEF TaskRecord
  <2>4. KeyOf(r) = k BY <2>3 DEF KeyOf
  <2>5. k.of = "private" => ~ deleted
        BY <1>1 DEF Ask, KeyOf, AccessKey, MemberKey, PrivateKey
  <2>6. visibility \in {"open", "private"} BY DEF AccessTypeOK
  <2>7. Right(k, Answer(k)) BY <2>5, <2>6 DEF Right, Answer, Open
  <2>8. TaskKnows(r)
    <3>1. Knows(KeyOf(r), r.read, r.age) BY <2>3, <2>4, <2>7 DEF Knows
    <3> QED BY <1>b, <2>3, <3>1 DEF TaskKnows
  <2> QED BY <1>1, <1>c, <1>j, <2>1, <2>2, <2>8, StepKnows DEF Ask
<1>2. CASE LookupFails(t)
  <2>1. CASE tasks[t].pc = "member"
    <3> DEFINE r == [At(t, "members") EXCEPT !.todo = @ \ {tasks[t].who}]
    <3>1. /\ At(t, "members") \in TaskRecord /\ At(t, "members").pc = "members"
          /\ At(t, "members").read = "none" /\ At(t, "members").age = tasks[t].age
          /\ At(t, "members").row = tasks[t].row /\ At(t, "members").vis = tasks[t].vis
          /\ At(t, "members").allowed = tasks[t].allowed
          /\ At(t, "members").refused = tasks[t].refused
          BY AtTyped DEF Pcs
    <3>2. /\ r.pc = "members" /\ r.read = "none" /\ r.age = tasks[t].age /\ r.row = tasks[t].row
          /\ r.vis = tasks[t].vis /\ r.allowed = tasks[t].allowed /\ r.refused = tasks[t].refused
          BY <3>1 DEF TaskRecord
    <3>3. r \in TaskRecord /\ Named(r) BY <3>1, <3>2 DEF TaskRecord, Named
    <3>4. TaskKnows(r) BY <1>b, <2>1, <3>2 DEF TaskKnows, Looking
    <3> QED BY <1>2, <1>c, <1>j, <2>1, <3>3, <3>4, StepKnows DEF LookupFails
  <2>2. CASE tasks[t].pc = "row"
    <3> DEFINE r == At(t, "gate")
    <3>1. /\ r \in TaskRecord /\ r.pc = "gate" /\ r.who = tasks[t].who /\ r.read = "none"
          /\ r.age = tasks[t].age /\ r.row = tasks[t].row /\ r.vis = tasks[t].vis
          /\ r.allowed = tasks[t].allowed /\ r.refused = tasks[t].refused
          BY AtTyped DEF Pcs
    <3>2. Named(r) BY <1>a, <2>2, <3>1 DEF Named
    <3>3. TaskKnows(r) BY <1>b, <1>n, <3>1 DEF TaskKnows
    <3>4. Moves(t, r) BY <1>2, <2>2 DEF LookupFails
    <3> QED BY <1>2, <1>c, <1>j, <3>1, <3>2, <3>3, <3>4, StepKnows DEF LookupFails
  <2>3. CASE tasks[t].pc \notin {"member", "row"}
        BY <1>2, <1>c, <1>i, <1>j, <2>3, StepKnows DEF LookupFails
  <2> QED BY <2>1, <2>2, <2>3
<1>3. ASSUME NEW v \in {"yes", "no"}, ReqAccess(t, v) PROVE Knowledge' /\ Justified
  <2>1. Looking(tasks[t]) /\ KeyOf(tasks[t]) = AccessKey(tasks[t].who) /\ tasks[t].who \in People
        BY <1>3, <1>a DEF ReqAccess, Looking, KeyOf, Named
  <2>2. Knows(AccessKey(tasks[t].who), v, Limit) BY <1>3, <2>1, Learned DEF ReqAccess
  <2>3. CacheKnows' BY <1>3, <2>1, LearnedCached DEF ReqAccess
  <2>4. CASE v = "yes"
    <3>1. Access(tasks[t].who) \/ quiet[tasks[t].who] <= Limit BY <2>1, <2>2, <2>4, PersonKnown
    <3>2. Justified BY <1>3, <2>1, <2>4, <3>1, Ages DEF ReqAccess, Admits, Justified
    <3> QED BY <1>3, <1>i, <2>3, <2>4, <3>2, StepKnows DEF ReqAccess, Admits
  <2>5. CASE v = "no"
    <3> DEFINE r == At(t, "confirm")
    <3>1. /\ r \in TaskRecord /\ r.pc = "confirm" /\ r.who = tasks[t].who /\ r.read = "none"
          /\ r.age = tasks[t].age /\ r.row = tasks[t].row /\ r.vis = tasks[t].vis
          /\ r.allowed = tasks[t].allowed /\ r.refused = tasks[t].refused
          BY AtTyped DEF Pcs
    <3>2. Named(r) BY <2>1, <3>1 DEF Named
    <3>3. AccessKey(tasks[t].who) \in Keys BY <2>1 DEF AccessKey, Keys
    <3>4. Knows(AccessKey(tasks[t].who), "no", Limit + tasks[t].age)
          BY <2>2, <2>5, <3>3, Ages, KnowsLater
    <3>5. TaskKnows(r) BY <1>b, <1>n, <3>1, <3>4 DEF TaskKnows
    <3>6. Moves(t, r) /\ Silent BY <1>3, <2>5 DEF ReqAccess
    <3> QED BY <1>3, <1>j, <2>3, <3>1, <3>2, <3>5, <3>6, StepKnows DEF ReqAccess
  <2> QED BY <2>4, <2>5
<1>4. ASSUME NEW v \in {"yes", "no"}, ReqConfirm(t, v) PROVE Knowledge' /\ Justified
  <2>1. Looking(tasks[t]) /\ KeyOf(tasks[t]) = MemberKey(tasks[t].who) /\ tasks[t].who \in People
        BY <1>4, <1>a DEF ReqConfirm, Looking, KeyOf, Named
  <2>2. Knows(MemberKey(tasks[t].who), v, Limit) BY <1>4, <2>1, Learned DEF ReqConfirm
  <2>3. CacheKnows' BY <1>4, <2>1, LearnedCached DEF ReqConfirm
  <2>4. Moves(t, Idle) BY <1>4 DEF ReqConfirm, Admits
  <2>5. Knows(AccessKey(tasks[t].who), "no", Limit + tasks[t].age)
        BY <1>4, <1>b DEF ReqConfirm, TaskKnows
  <2>6. v = "yes" => Access(tasks[t].who) \/ quiet[tasks[t].who] <= Bound
        BY <2>1, <2>2, PersonKnown, Ages
  <2>7. ~ Access(tasks[t].who) \/ quiet[tasks[t].who] <= Bound
        BY <2>1, <2>5, PersonKnown, Ages
  <2>8. Justified BY <1>4, <2>6, <2>7 DEF ReqConfirm, Admits, Justified
  <2> QED BY <1>4, <1>i, <2>3, <2>4, <2>8, StepKnows DEF ReqConfirm
<1>p. PrivateKey \in Keys BY DEF Keys
<1>5. ASSUME NEW v \in {"yes", "no"}, IngestRow(t, v) PROVE Knowledge' /\ Justified
  <2> DEFINE w == IF cache[PrivateKey].val = "yes" THEN "yes" ELSE v
             r == [At(t, "gate") EXCEPT !.row = v, !.vis = w]
  <2>1. Looking(tasks[t]) /\ KeyOf(tasks[t]) = PrivateKey /\ tasks[t].who \in People
        BY <1>5, <1>a DEF IngestRow, Looking, KeyOf, Named
  <2>2. CacheKnows' BY <1>5, <2>1, LearnedCached DEF IngestRow
  <2>3. Knows(PrivateKey, v, tasks[t].age)
        BY <1>5, <1>b, <2>1 DEF IngestRow, Learns, Uncached, TaskKnows
  <2>4. Knows(PrivateKey, v, Limit + tasks[t].age) BY <1>p, <2>3, Ages, KnowsLater
  <2>5. cache[PrivateKey].val = "yes" => Knows(PrivateKey, "yes", Limit + tasks[t].age)
    <3>1. cache[PrivateKey].age \in 0..CacheTTL BY <1>p DEF AccessTypeOK
    <3>2. /\ HandlerTime + cache[PrivateKey].age \in Nat
          /\ HandlerTime + cache[PrivateKey].age <= Limit + tasks[t].age
          BY <3>1, Ages, AccessAssumption DEF Limit
    <3>3. Knows(PrivateKey, cache[PrivateKey].val, HandlerTime + cache[PrivateKey].age)
          BY <1>p DEF Knowledge, CacheKnows
    <3> QED BY <1>p, <3>2, <3>3, Ages, KnowsLater
  <2>6. /\ At(t, "gate") \in TaskRecord /\ At(t, "gate").pc = "gate" /\ At(t, "gate").read = "none"
        /\ At(t, "gate").who = tasks[t].who /\ At(t, "gate").age = tasks[t].age
        /\ At(t, "gate").allowed = tasks[t].allowed /\ At(t, "gate").refused = tasks[t].refused
        BY AtTyped DEF Pcs
  <2>7. /\ r.pc = "gate" /\ r.read = "none" /\ r.who = tasks[t].who /\ r.age = tasks[t].age
        /\ r.row = v /\ r.vis = w /\ r.allowed = tasks[t].allowed /\ r.refused = tasks[t].refused
        BY <2>6 DEF TaskRecord
  <2>8. r \in TaskRecord /\ Named(r) BY <2>1, <2>6, <2>7 DEF TaskRecord, Named, Answers
  <2>9. Knows(PrivateKey, w, Limit + tasks[t].age) BY <2>4, <2>5
  <2>10. TaskKnows(r) BY <1>b, <1>n, <2>3, <2>7, <2>9 DEF TaskKnows
  <2> QED BY <1>5, <1>j, <2>2, <2>8, <2>10, StepKnows DEF IngestRow
<1> DEFINE m == [At(t, "match") EXCEPT !.who = NoOne, !.row = "none"]
<1>m. m \in TaskRecord /\ Named(m) /\ TaskKnows(m)
  <2>1. /\ At(t, "match") \in TaskRecord /\ At(t, "match").pc = "match"
        /\ At(t, "match").read = "none" /\ At(t, "match").age = tasks[t].age
        /\ At(t, "match").vis = tasks[t].vis
        /\ At(t, "match").allowed = tasks[t].allowed /\ At(t, "match").refused = tasks[t].refused
        BY AtTyped DEF Pcs
  <2>2. /\ m.pc = "match" /\ m.read = "none" /\ m.age = tasks[t].age /\ m.row = "none"
        /\ m.vis = tasks[t].vis /\ m.allowed = tasks[t].allowed /\ m.refused = tasks[t].refused
        BY <2>1 DEF TaskRecord
  <2>3. m \in TaskRecord /\ Named(m) BY <2>1, <2>2 DEF TaskRecord, Named, Answers
  <2>4. TaskKnows(m) BY <1>b, <1>n, <2>2 DEF TaskKnows, Looking
  <2> QED BY <2>3, <2>4
<1>6. ASSUME NEW v \in {"yes", "no"}, IngestGate(t, v) PROVE Knowledge' /\ Justified
  <2> DEFINE p == tasks[t].who
             open == IF tasks[t].row = "none" THEN Open ELSE tasks[t].row = "no"
  <2>1. Looking(tasks[t]) /\ KeyOf(tasks[t]) = MemberKey(p) /\ p \in People
        BY <1>6, <1>a DEF IngestGate, Looking, KeyOf, Named
  <2>2. CacheKnows' BY <1>6, <2>1, LearnedCached DEF IngestGate
  <2>3. Knows(MemberKey(p), v, Limit) BY <1>6, <2>1, Learned DEF IngestGate
  <2>4. Knows(PrivateKey, tasks[t].row, tasks[t].age) BY <1>b DEF TaskKnows
  <2>5. tasks[t].row \in {"none", "yes", "no"} BY <1>a DEF TaskRecord, Answers
  <2>6. v = "yes" \/ open => Access(p) \/ quiet[p] <= Bound
    <3>1. v = "yes" => Access(p) \/ quiet[p] <= Limit BY <2>1, <2>3, PersonKnown
    <3>2. open => Access(p) \/ quiet[p] <= tasks[t].age
          BY <2>1, <2>4, <2>5, PersonKnown DEF Access
    <3> QED BY <2>1, <3>1, <3>2, Ages
  <2>7. v = "no" /\ ~ open => ~ Access(p) \/ quiet[p] <= Bound
    <3>1. v = "no" => ~ Member(p) \/ quiet[p] <= Limit BY <2>1, <2>3, PersonKnown
    <3>2. ~ open => ~ Open \/ quiet[p] <= tasks[t].age
          BY <2>1, <2>4, <2>5, PersonKnown
    <3> QED BY <2>1, <3>1, <3>2, Ages DEF Access
  <2>8. \/ (v = "yes" \/ open) /\ granted' = {p} /\ denied' = {} /\ Moves(t, m)
        \/ v = "no" /\ ~ open /\ granted' = {} /\ denied' = {p} /\ Moves(t, Idle)
        BY <1>6 DEF IngestGate
  <2>9. Justified BY <2>6, <2>7, <2>8 DEF Justified
  <2> QED BY <1>6, <1>i, <1>m, <2>2, <2>8, <2>9, StepKnows DEF IngestGate
<1>7. CASE GateSkipped(t) BY <1>7, <1>c, <1>j, <1>m, StepKnows DEF GateSkipped
<1>8. CASE SpawnFanOut(t)
  <2> DEFINE r == [Idle EXCEPT !.pc = "match"]
  <2>1. r \in TaskRecord /\ Named(r) BY <1>i DEF TaskRecord, Named, Pcs
  <2>2. TaskKnows(r) BY DEF TaskKnows, Idle, Knows, Looking
  <2> QED BY <1>8, <1>c, <1>j, <2>1, <2>2, StepKnows DEF SpawnFanOut
<1>9. CASE Match(t)
  <2>1. subs \in SUBSET People BY DEF AccessTypeOK
  <2>2. CASE tasks[t].vis = "none"
    <3> DEFINE r == [At(t, "visibility") EXCEPT !.todo = subs]
    <3>1. /\ At(t, "visibility") \in TaskRecord /\ At(t, "visibility").pc = "visibility"
          /\ At(t, "visibility").read = "none" /\ At(t, "visibility").age = tasks[t].age
          /\ At(t, "visibility").row = tasks[t].row /\ At(t, "visibility").vis = tasks[t].vis
          /\ At(t, "visibility").allowed = tasks[t].allowed
          /\ At(t, "visibility").refused = tasks[t].refused
          BY AtTyped DEF Pcs
    <3>2. /\ r.pc = "visibility" /\ r.read = "none" /\ r.age = tasks[t].age
          /\ r.row = tasks[t].row /\ r.vis = tasks[t].vis /\ r.allowed = tasks[t].allowed
          /\ r.refused = tasks[t].refused
          BY <3>1 DEF TaskRecord
    <3>3. r \in TaskRecord /\ Named(r) BY <2>1, <3>1, <3>2 DEF TaskRecord, Named
    <3>4. TaskKnows(r) BY <1>b, <1>n, <3>2 DEF TaskKnows
    <3>5. Moves(t, r) BY <1>9, <2>2 DEF Match
    <3> QED BY <1>9, <1>c, <1>j, <3>3, <3>4, <3>5, StepKnows DEF Match
  <2>3. CASE tasks[t].vis # "none"
    <3> DEFINE r == Gated(t, tasks[t].vis, subs)
    <3>1. tasks[t].vis \in {"yes", "no"} BY <1>a, <2>3 DEF TaskRecord, Answers
    <3>2. Knows(PrivateKey, tasks[t].vis, Limit + tasks[t].age) BY <1>b DEF TaskKnows
    <3>3. TaskKnows(r) BY <2>1, <3>1, <3>2, GatedKnows
    <3>4. r \in TaskRecord /\ Named(r) BY <2>1, GatedTyped
    <3>5. Moves(t, r) BY <1>9, <2>3 DEF Match
    <3> QED BY <1>9, <1>c, <1>j, <3>3, <3>4, <3>5, StepKnows DEF Match
  <2> QED BY <2>2, <2>3
<1>10. ASSUME NEW v \in {"yes", "no"}, FilterVisibility(t, v) PROVE Knowledge' /\ Justified
  <2>1. Looking(tasks[t]) /\ KeyOf(tasks[t]) = PrivateKey
        BY <1>10 DEF FilterVisibility, Looking, KeyOf
  <2>2. CacheKnows' BY <1>10, <2>1, LearnedCached DEF FilterVisibility
  <2>3. Knows(PrivateKey, v, Limit) BY <1>10, <2>1, Learned DEF FilterVisibility
  <2>4. Knows(PrivateKey, v, Limit + tasks[t].age) BY <1>p, <2>3, Ages, KnowsLater
  <2>5. tasks[t].todo \in SUBSET People BY <1>a DEF TaskRecord
  <2>6. TaskKnows(Gated(t, v, tasks[t].todo)) BY <2>4, <2>5, GatedKnows
  <2>7. Gated(t, v, tasks[t].todo) \in TaskRecord /\ Named(Gated(t, v, tasks[t].todo))
        BY <2>5, GatedTyped
  <2> QED BY <1>10, <1>j, <2>2, <2>6, <2>7, StepKnows DEF FilterVisibility
<1>11. ASSUME NEW p \in People, FilterNext(t, p) PROVE Knowledge' /\ Justified
  <2> DEFINE r == [At(t, "member") EXCEPT !.who = p]
  <2>1. /\ At(t, "member") \in TaskRecord /\ At(t, "member").pc = "member"
        /\ At(t, "member").read = "none" /\ At(t, "member").age = tasks[t].age
        /\ At(t, "member").row = tasks[t].row /\ At(t, "member").vis = tasks[t].vis
        /\ At(t, "member").allowed = tasks[t].allowed /\ At(t, "member").refused = tasks[t].refused
        BY AtTyped DEF Pcs
  <2>2. /\ r.pc = "member" /\ r.read = "none" /\ r.age = tasks[t].age /\ r.row = tasks[t].row
        /\ r.vis = tasks[t].vis /\ r.allowed = tasks[t].allowed /\ r.refused = tasks[t].refused
        BY <2>1 DEF TaskRecord
  <2>3. r \in TaskRecord /\ Named(r) BY <2>1 DEF TaskRecord, Named
  <2>4. tasks[t].pc = "members" BY <1>11 DEF FilterNext
  <2>5. TaskKnows(r) BY <1>b, <1>n, <2>2, <2>4 DEF TaskKnows
  <2> QED BY <1>11, <1>c, <1>j, <2>3, <2>5, StepKnows DEF FilterNext
<1>12. ASSUME NEW v \in {"yes", "no"}, FilterMember(t, v) PROVE Knowledge' /\ Justified
  <2> DEFINE p == tasks[t].who
             a == IF v = "yes" THEN tasks[t].allowed \cup {p} ELSE tasks[t].allowed
             b == IF v = "no" THEN tasks[t].refused \cup {p} ELSE tasks[t].refused
             r == [At(t, "members") EXCEPT !.who = NoOne, !.todo = @ \ {p},
                      !.allowed = IF v = "yes" THEN @ \cup {p} ELSE @,
                      !.refused = IF v = "no" THEN @ \cup {p} ELSE @]
  <2>1. Looking(tasks[t]) /\ KeyOf(tasks[t]) = MemberKey(p) /\ p \in People
        BY <1>12, <1>a DEF FilterMember, Looking, KeyOf, Named
  <2>2. CacheKnows' BY <1>12, <2>1, LearnedCached DEF FilterMember
  <2>3. Knows(MemberKey(p), v, Limit) BY <1>12, <2>1, Learned DEF FilterMember
  <2>4. Knows(PrivateKey, "yes", Limit + tasks[t].age) BY <1>12, <1>b DEF FilterMember, TaskKnows
  <2>5. v = "yes" => Access(p) \/ quiet[p] <= Limit + tasks[t].age
    <3>1. v = "yes" => Access(p) \/ quiet[p] <= Limit BY <2>1, <2>3, PersonKnown
    <3> QED BY <2>1, <3>1, Ages
  <2>6. v = "no" => ~ Access(p) \/ quiet[p] <= Limit + tasks[t].age
    <3>1. v = "no" => ~ Member(p) \/ quiet[p] <= Limit BY <2>1, <2>3, PersonKnown
    <3>2. ~ Open \/ quiet[p] <= Limit + tasks[t].age BY <2>1, <2>4, PersonKnown
    <3> QED BY <2>1, <3>1, <3>2, Ages DEF Access
  <2>7. /\ At(t, "members") \in TaskRecord /\ At(t, "members").pc = "members"
        /\ At(t, "members").read = "none" /\ At(t, "members").age = tasks[t].age
        /\ At(t, "members").row = tasks[t].row /\ At(t, "members").vis = tasks[t].vis
        /\ At(t, "members").allowed = tasks[t].allowed
        /\ At(t, "members").refused = tasks[t].refused
        BY AtTyped DEF Pcs
  <2>8. /\ r.pc = "members" /\ r.read = "none" /\ r.age = tasks[t].age /\ r.row = tasks[t].row
        /\ r.vis = tasks[t].vis /\ r.allowed = a /\ r.refused = b
        BY <2>7 DEF TaskRecord
  <2>9. r \in TaskRecord /\ Named(r) BY <2>1, <2>7, <2>8 DEF TaskRecord, Named
  <2>10. /\ \A q \in a : Access(q) \/ quiet[q] <= Limit + tasks[t].age
         /\ \A q \in b : ~ Access(q) \/ quiet[q] <= Limit + tasks[t].age
         BY <1>b, <2>5, <2>6 DEF TaskKnows
  <2>11. TaskKnows(r) BY <1>b, <2>4, <2>8, <2>10 DEF TaskKnows, Looking
  <2>12. Moves(t, r) /\ TaskStep /\ Silent BY <1>12 DEF FilterMember
  <2> QED BY <1>j, <2>2, <2>9, <2>11, <2>12, StepKnows
<1>13. CASE Send(t)
  <2>1. /\ granted' = tasks[t].allowed /\ denied' = tasks[t].refused
        /\ tasks[t].allowed \subseteq People /\ tasks[t].refused \subseteq People
        BY <1>13, <1>a DEF Send, TaskRecord
  <2>2. Justified BY <1>b, <2>1, Ages DEF TaskKnows, Justified
  <2> QED BY <1>13, <1>c, <1>i, <2>2, StepKnows DEF Send
<1>14. ASSUME NEW p \in People, SpawnReq(t, p) PROVE Knowledge' /\ Justified
  <2> DEFINE r == [Idle EXCEPT !.pc = "access", !.who = p]
  <2>1. r \in TaskRecord /\ Named(r) BY <1>i DEF TaskRecord, Named, Pcs
  <2>2. TaskKnows(r) BY DEF TaskKnows, Idle, Knows
  <2> QED BY <1>14, <1>c, <1>j, <2>1, <2>2, StepKnows DEF SpawnReq
<1>15. ASSUME NEW p \in People, SpawnIngest(t, p) PROVE Knowledge' /\ Justified
  <2> DEFINE r == [Idle EXCEPT !.pc = "row", !.who = p]
  <2>1. r \in TaskRecord /\ Named(r) BY <1>i DEF TaskRecord, Named, Pcs
  <2>2. TaskKnows(r) BY DEF TaskKnows, Idle, Knows
  <2> QED BY <1>15, <1>c, <1>j, <2>1, <2>2, StepKnows DEF SpawnIngest
<1> QED
  BY <1>1, <1>2, <1>3, <1>4, <1>5, <1>6, <1>7, <1>8, <1>9, <1>10, <1>11, <1>12, <1>13, <1>14, <1>15
  DEF TaskSteps

-----------------------------------------------------------------------------
(* The refinement.                                                         *)

\* Tasks that no step touched keep what they know.
LEMMA TasksCarried ==
    ASSUME AccessTypeOK, Knowledge, Carry(0), UNCHANGED tasks
    PROVE  \A t \in Tasks : TaskKnows(tasks[t])'
<1> SUFFICES ASSUME NEW t \in Tasks PROVE TaskKnows(tasks[t])' OBVIOUS
<1>1. tasks[t] \in TaskRecord /\ Named(tasks[t]) BY TaskTypes
<1>2. PICK x \in TaskRecord : x = tasks[t] /\ Named(x) /\ TaskKnows(x) BY <1>1 DEF Knowledge
<1>3. TaskKnows([x EXCEPT !.age = x.age + 0])' BY <1>2, TaskCarried
<1>4. [x EXCEPT !.age = x.age + 0] = x BY AccessAssumption DEF TaskRecord
<1> QED BY <1>2, <1>3, <1>4 DEF TaskKnows

\* A committed change is a change of the contract.
LEMMA CommitChanges ==
    ASSUME AccessTypeOK, Knowledge, NEW d, NEW S \in SUBSET People, Commit(d, S),
           \A p \in People \ S : Member(p)' <=> Member(p),
           S = People \/ (Open' <=> Open)
    PROVE  Knowledge' /\ Contract!Change
<1>1. Carry(0) BY CarryChange DEF Commit
<1>2. CacheKnows' BY <1>1, CacheCarried DEF Knowledge, Commit
<1>3. Knowledge' BY <1>1, <1>2, TasksCarried DEF Knowledge, Commit
<1>4. \A p \in People \ S : Access(p)' <=> Access(p) BY DEF Access
<1>5. Contract!Change BY <1>4 DEF Contract!Change, Commit, Silent
<1> QED BY <1>3, <1>5

\* A step that changes nothing about anybody gives verdicts of the contract.
LEMMA GivesVerdicts ==
    ASSUME AccessTypeOK', UNCHANGED <<members, visibility, deleted, quiet>>, Justified
    PROVE  Contract!Verdicts
<1>1. granted' \subseteq People /\ denied' \subseteq People BY DEF AccessTypeOK
<1>2. \A p \in People : Access(p)' <=> Access(p) BY DEF Access, Member, Open
<1>3. {p \in People : Access(p)}' = {p \in People : Access(p)} BY <1>2
<1>4. /\ \A p \in granted' : Contract!MayGrant(p)
      /\ \A p \in denied' : Contract!MayDeny(p)
      BY <1>1 DEF Justified, Contract!MayGrant, Contract!MayDeny
<1> QED BY <1>1, <1>3, <1>4 DEF Contract!Verdicts

\* The steps of Writes and Drops.
LEMMA OutsideKnows ==
    ASSUME AccessTypeOK, AccessTypeOK', Knowledge, Writes \/ Drops
    PROVE  Knowledge' /\ (Contract!Change \/ Contract!Verdicts)
<1>1. ASSUME NEW p \in People, AddMember(p) PROVE Knowledge' /\ Contract!Change
  <2>1. \A q \in People \ {p} : Member(q)' <=> Member(q) BY <1>1 DEF AddMember, Member
  <2>2. Open' <=> Open BY <1>1 DEF AddMember, Open
  <2> QED BY <1>1, <2>1, <2>2, CommitChanges DEF AddMember
<1>2. ASSUME NEW p \in People, RemoveMember(p) PROVE Knowledge' /\ Contract!Change
  <2>1. \A q \in People \ {p} : Member(q)' <=> Member(q) BY <1>2 DEF RemoveMember, Member
  <2>2. Open' <=> Open BY <1>2 DEF RemoveMember, Open
  <2> QED BY <1>2, <2>1, <2>2, CommitChanges DEF RemoveMember
<1>3. ASSUME NEW v, NEW w, Flip(v, w) PROVE Knowledge' /\ Contract!Change
      BY <1>3, CommitChanges DEF Flip
<1>4. ASSUME DeleteChannel PROVE Knowledge' /\ Contract!Change
      BY <1>4, CommitChanges DEF DeleteChannel
<1>5. ASSUME NEW d, Invalidate(d) \/ ApplyDrop(d) \/ LoseDrop(d)
      PROVE  Knowledge' /\ Contract!Verdicts
  <2>1. UNCHANGED <<members, visibility, deleted, quiet>> /\ UNCHANGED tasks /\ Silent
        BY <1>5 DEF Invalidate, ApplyDrop, LoseDrop, database
  <2>2. Carry(0) BY <2>1, CarrySame
  <2>3. \A k \in Keys : cache'[k] = cache[k] \/ cache'[k].val = "none"
        BY <1>5 DEF Invalidate, ApplyDrop, LoseDrop, Dropped, Absent
  <2>4. CacheKnows' BY <2>2, <2>3, CacheCarried DEF Knowledge
  <2>5. Justified BY <2>1 DEF Silent, Justified
  <2> QED BY <2>1, <2>2, <2>4, <2>5, TasksCarried, GivesVerdicts DEF Knowledge
<1> QED BY <1>1, <1>2, <1>3, <1>4, <1>5 DEF Writes, Drops

\* A tick passes time in the contract.
LEMMA TickKnows == ASSUME AccessTypeOK, Knowledge, Tick PROVE Knowledge' /\ Contract!Pass
<1>1. Carry(1) BY CarryTick
<1>2. CacheKnows'
  <2> SUFFICES ASSUME NEW k \in Keys PROVE Knows(k, cache[k].val, HandlerTime + cache[k].age)'
      BY DEF CacheKnows
  <2>1. cache[k] \in [val : Answers, age : 0..CacheTTL] BY DEF AccessTypeOK
  <2>2. cache'[k] = Aged(cache[k]) BY DEF Tick
  <2>3. CASE Aged(cache[k]) = Absent BY <2>2, <2>3 DEF Absent, Knows
  <2>4. CASE Aged(cache[k]) = [cache[k] EXCEPT !.age = @ + 1]
    <3>1. cache'[k].val = cache[k].val /\ cache'[k].age = cache[k].age + 1 BY <2>1, <2>2, <2>4
    <3>2. Knows(k, cache[k].val, HandlerTime + cache[k].age) BY DEF Knowledge, CacheKnows
    <3>3. \A v \in Answers, n \in Nat : Knows(k, v, n) => Knows(k, v, n + 1)' BY <1>1 DEF Carry
    <3>4. /\ HandlerTime + cache[k].age \in Nat /\ cache[k].val \in Answers
          /\ HandlerTime + cache'[k].age = HandlerTime + cache[k].age + 1
          BY <2>1, <3>1, AccessAssumption
    <3> QED BY <3>1, <3>2, <3>3, <3>4 DEF Knows
  <2> QED BY <2>3, <2>4 DEF Aged
<1>3. ASSUME NEW t \in Tasks PROVE TaskKnows(tasks[t])'
  <2>1. PICK x \in TaskRecord : x = tasks[t] /\ Named(x) /\ TaskKnows(x)
        BY TaskTypes DEF Knowledge
  <2>2. tasks'[t] = AgedTask(x) BY <2>1 DEF Tick
  <2>3. CASE x = Idle BY <2>2, <2>3 DEF AgedTask, TaskKnows, Idle, Knows, Looking
  <2>4. CASE x # Idle
    <3>1. TaskKnows([x EXCEPT !.age = x.age + 1])' BY <1>1, <2>1, TaskCarried
    <3>2. tasks'[t] = [x EXCEPT !.age = x.age + 1] BY <2>2, <2>4 DEF AgedTask
    <3> QED BY <3>1, <3>2 DEF TaskKnows
  <2> QED BY <2>3, <2>4
<1>4. {p \in People : Access(p)}' = {p \in People : Access(p)}
      BY DEF Tick, database, Access, Member, Open
<1>5. Contract!Pass BY <1>4 DEF Contract!Pass, Contract!Later, Tick, Silent
<1> QED BY <1>2, <1>3, <1>5 DEF Knowledge

\* Every step keeps knowledge and is a step of the contract.
LEMMA StepsKnow ==
    AccessTypeOK /\ AccessTypeOK' /\ Knowledge /\ [AccessNext]_accessVars
        => Knowledge' /\ [Contract!Change \/ Contract!Verdicts \/ Contract!Pass]_(Contract!contractVars)
<1> SUFFICES ASSUME AccessTypeOK, AccessTypeOK', Knowledge, [AccessNext]_accessVars
             PROVE  /\ Knowledge'
                    /\ \/ Contract!Change \/ Contract!Verdicts \/ Contract!Pass
                       \/ UNCHANGED Contract!contractVars
    OBVIOUS
<1>1. CASE Writes \/ Drops BY <1>1, OutsideKnows
<1>2. CASE \E t \in Tasks : TaskSteps(t)
  <2>1. PICK t \in Tasks : TaskSteps(t) BY <1>2
  <2>2. Knowledge' /\ Justified BY <2>1, TaskKnowledge
  <2>3. TaskStep
        BY <2>1 DEF TaskSteps, Ask, LookupFails, ReqAccess, ReqConfirm, IngestRow, IngestGate,
                    FilterVisibility, FilterMember, GateSkipped, SpawnFanOut, Match, Send,
                    FilterNext, SpawnReq, SpawnIngest
  <2>4. UNCHANGED <<members, visibility, deleted, quiet>> BY <2>3 DEF TaskStep, database
  <2> QED BY <2>2, <2>4, GivesVerdicts
<1>3. CASE \E p \in People : Unsubscribe(p)
  <2>1. UNCHANGED <<members, visibility, deleted, quiet>> /\ UNCHANGED cache /\ UNCHANGED tasks /\ Silent
        BY <1>3 DEF Unsubscribe, TaskStep, database, cached
  <2>2. Carry(0) BY <2>1, CarrySame
  <2>3. CacheKnows' BY <2>1, <2>2, CacheCarried DEF Knowledge
  <2>4. Justified BY <2>1 DEF Silent, Justified
  <2> QED BY <2>1, <2>2, <2>3, <2>4, TasksCarried, GivesVerdicts DEF Knowledge
<1>4. CASE Tick BY <1>4, TickKnows
<1>5. CASE UNCHANGED accessVars
  <2>1. UNCHANGED <<members, visibility, deleted, quiet>> /\ UNCHANGED cache /\ UNCHANGED tasks
        BY <1>5 DEF accessVars
  <2>2. Carry(0) BY <2>1, CarrySame
  <2>3. CacheKnows' BY <2>1, <2>2, CacheCarried DEF Knowledge
  <2>4. UNCHANGED Contract!contractVars
        BY <1>5 DEF accessVars, Contract!contractVars, Access, Member, Open
  <2> QED BY <2>1, <2>2, <2>3, <2>4, TasksCarried DEF Knowledge
<1> QED BY <1>1, <1>2, <1>3, <1>4, <1>5 DEF AccessNext

\* Nothing is known at first, and the contract starts with any memberships.
LEMMA InitKnows == AccessInit => Knowledge /\ Contract!ContractInit
<1> SUFFICES ASSUME AccessInit PROVE Knowledge /\ Contract!ContractInit OBVIOUS
<1>1. CacheKnows BY DEF AccessInit, CacheKnows, Knows, Absent
<1>2. \A t \in Tasks : TaskKnows(tasks[t]) BY IdleKnows DEF AccessInit
<1>3. Contract!ContractInit BY DEF AccessInit, Contract!ContractInit
<1> QED BY <1>1, <1>2, <1>3 DEF Knowledge

\* The caches, the handlers and the drops between pods implement the contract:
\* a verdict of REQ, ingest or fan-out is wrong only about a person whose
\* access changed within the lifetime of a cached answer and of two handlers,
\* however many drops are lost and however lookups race with changes.
THEOREM VerdictsAreTimely == AccessSpec => VerdictsInTime
<1>1. AccessInit => AccessTypeOK /\ Knowledge /\ Contract!ContractInit BY InitTyped, InitKnows
<1>2. AccessTypeOK /\ Knowledge /\ [AccessNext]_accessVars
        => /\ AccessTypeOK' /\ Knowledge'
           /\ [Contract!Change \/ Contract!Verdicts \/ Contract!Pass]_(Contract!contractVars)
      BY StepsTyped, StepsKnow
<1> QED BY <1>1, <1>2, PTL DEF AccessSpec, VerdictsInTime, Contract!ContractSpec

-----------------------------------------------------------------------------
(* No change forgets a cached answer.                                      *)

\* A step whose new stale keys are covered by a drop or recorded keeps
\* staleness explained.
LEMMA StillExplained ==
    ASSUME StaleIsExplained, NEW S, Missed(S),
           \A k \in Keys : Stale(k)' =>
               \/ Stale(k) /\ \A d \in handlers \cup messages :
                                k \in Covered(d) => k \in S \/ d \in (handlers \cup messages)'
               \/ k \in S
               \/ \E d \in (handlers \cup messages)' : k \in Covered(d)
    PROVE  StaleIsExplained'
<1> SUFFICES ASSUME NEW k \in Keys, Stale(k)'
             PROVE  k \in missed' \/ \E d \in (handlers \cup messages)' : k \in Covered(d)
    BY DEF StaleIsExplained, Covered, Keys, MemberKey, AccessKey, PrivateKey
<1>1. k \in missed \/ k \in S => k \in missed' BY DEF Missed
<1> QED BY <1>1 DEF StaleIsExplained

\* A change makes stale only what its drops cover.
LEMMA CommitExplained ==
    ASSUME StaleIsExplained, NEW d, NEW S, Commit(d, S), d.op \in {"Membership", "Flip", "ChannelDeleted"},
           \A k \in Keys \ Covered(d) : Answer(k)' = Answer(k)
    PROVE  StaleIsExplained'
<1>1. \A k \in Covered(d) : \E m \in Published(d) : k \in Covered(m)
      BY DEF Covered, Published
<1>2. \A k \in Keys : Stale(k)' => Stale(k) \/ k \in Covered(d) BY DEF Stale, Commit
<1>3. handlers \cup messages \subseteq (handlers \cup messages)' BY DEF Commit
<1>4. d \in handlers' \/ Published(d) \subseteq messages' BY DEF Commit
<1>5. Missed({}) BY DEF Commit
<1> QED BY <1>1, <1>2, <1>3, <1>4, <1>5, StillExplained

\* Every step leaves staleness explained.
LEMMA StepsExplained == AccessTypeOK /\ StaleIsExplained /\ [AccessNext]_accessVars => StaleIsExplained'
<1> SUFFICES ASSUME AccessTypeOK, StaleIsExplained, [AccessNext]_accessVars PROVE StaleIsExplained'
    OBVIOUS
<1>1. ASSUME NEW p \in People, AddMember(p) \/ RemoveMember(p) PROVE StaleIsExplained'
  <2>1. PICK d, S : d.op = "Membership" /\ d.who = p /\ Commit(d, S) BY <1>1 DEF AddMember, RemoveMember
  <2>2. \A k \in Keys \ Covered(d) : Answer(k)' = Answer(k)
    <3> SUFFICES ASSUME NEW k \in Keys, k \notin Covered(d) PROVE Answer(k)' = Answer(k) OBVIOUS
    <3>1. k # MemberKey(p) /\ k # AccessKey(p) BY <2>1 DEF Covered
    <3>2. k = PrivateKey \/ (k.who \in People /\ k.who # p)
          BY <3>1 DEF Keys, MemberKey, AccessKey
    <3>3. k.of = "private" \/ k.who # p BY <3>2 DEF PrivateKey
    <3> QED BY <1>1, <3>3 DEF AddMember, RemoveMember, Answer, Access, Member, Open
  <2> QED BY <2>1, <2>2, CommitExplained
<1>2. ASSUME NEW v, NEW w, Flip(v, w) PROVE StaleIsExplained'
  <2>1. PICK d : d.op = "Flip" /\ Commit(d, People) BY <1>2 DEF Flip
  <2>2. \A k \in Keys \ Covered(d) : k.of = "member" BY <2>1 DEF Covered, Keys, PrivateKey
  <2>3. \A k \in Keys \ Covered(d) : Answer(k)' = Answer(k) BY <1>2, <2>2 DEF Flip, Answer, Member
  <2> QED BY <2>1, <2>3, CommitExplained
<1>3. ASSUME DeleteChannel PROVE StaleIsExplained'
  <2>1. PICK d : d.op = "ChannelDeleted" /\ Commit(d, People) BY <1>3 DEF DeleteChannel
  <2> QED BY <2>1, CommitExplained DEF Covered
<1>4. ASSUME NEW d, Invalidate(d) \/ ApplyDrop(d) PROVE StaleIsExplained'
  <2>1. /\ cache' = Dropped(d) /\ Missed({}) /\ UNCHANGED <<members, visibility, deleted>>
        /\ (handlers \cup messages) \ {d} \subseteq (handlers \cup messages)'
        BY <1>4 DEF Invalidate, ApplyDrop, database
  <2>2. \A k \in Keys : Stale(k)' => Stale(k) /\ k \notin Covered(d)
        BY <2>1 DEF Stale, Dropped, Absent, Answer, Access, Member, Open
  <2> QED BY <2>1, <2>2, StillExplained
<1>5. ASSUME NEW d, LoseDrop(d) PROVE StaleIsExplained'
  <2>1. /\ Missed(Covered(d)) /\ (handlers \cup messages) \ {d} \subseteq (handlers \cup messages)'
        BY <1>5 DEF LoseDrop
  <2>2. \A k \in Keys : Stale(k)' => Stale(k)
        BY <1>5 DEF LoseDrop, database, Stale, Answer, Access, Member, Open
  <2> QED BY <2>1, <2>2, StillExplained
<1>6. ASSUME Tick PROVE StaleIsExplained'
  <2>1. \A k \in Keys : cache'[k].val \in {"none", cache[k].val}
        BY <1>6 DEF Tick, Aged, Absent, AccessTypeOK
  <2>2. \A k \in Keys : Stale(k)' => Stale(k)
        BY <1>6, <2>1 DEF Tick, database, Stale, Answer, Access, Member, Open
  <2>3. Missed({}) /\ UNCHANGED <<handlers, messages>> BY <1>6 DEF Tick
  <2> QED BY <2>2, <2>3, StillExplained
<1>7. ASSUME UNCHANGED <<members, visibility, deleted, cache, missed, handlers, messages>>
      PROVE  StaleIsExplained'
      BY <1>7 DEF StaleIsExplained, Stale, Answer, Access, Member, Open, Covered
<1>8. ASSUME NEW t \in Tasks, NEW v \in {"yes", "no"}, Looking(tasks[t]), TaskStep, Learns(t, v)
      PROVE  StaleIsExplained'
  <2> DEFINE k == KeyOf(tasks[t])
  <2>1. UNCHANGED <<members, visibility, deleted, handlers, messages>> BY <1>8 DEF TaskStep, database
  <2>2. CASE UNCHANGED cached BY <1>7, <2>1, <2>2 DEF cached
  <2>3. CASE /\ cache' = cache \/ cache' = [cache EXCEPT ![k] = [val |-> v, age |-> 0]]
             /\ Missed({k})
    <3>1. \A j \in Keys : Stale(j)' => Stale(j) \/ j = k
          BY <2>1, <2>3 DEF AccessTypeOK, Stale, Answer, Access, Member, Open
    <3> QED BY <2>1, <2>3, <3>1, StillExplained
  <2> QED BY <1>8, <2>2, <2>3 DEF Learns
<1>9. ASSUME NEW t \in Tasks, TaskSteps(t) PROVE StaleIsExplained'
  <2>1. \/ TaskStep /\ UNCHANGED cached
        \/ \E v \in {"yes", "no"} : Looking(tasks[t]) /\ TaskStep /\ Learns(t, v)
        BY <1>9 DEF TaskSteps, Ask, LookupFails, ReqAccess, ReqConfirm, IngestRow, IngestGate,
                    FilterVisibility, FilterMember, GateSkipped, SpawnFanOut, Match, Send,
                    FilterNext, SpawnReq, SpawnIngest, Looking
  <2>2. CASE TaskStep /\ UNCHANGED cached BY <1>7, <2>2 DEF TaskStep, database, cached
  <2> QED BY <1>8, <2>1, <2>2
<1>10. ASSUME NEW p \in People, Unsubscribe(p) PROVE StaleIsExplained'
       BY <1>7, <1>10 DEF Unsubscribe, TaskStep, database, cached
<1>11. CASE UNCHANGED accessVars BY <1>7, <1>11 DEF accessVars
<1> QED BY <1>1, <1>2, <1>3, <1>4, <1>5, <1>6, <1>9, <1>10, <1>11 DEF AccessNext, Writes, Drops

\* A cached answer that is no longer true has a drop under way, or one that was
\* lost or came before a late answer: every change drops all that it affects.
THEOREM StalenessExplained == AccessSpec => []StaleIsExplained
<1>1. AccessInit => StaleIsExplained BY DEF AccessInit, StaleIsExplained, Stale, Absent
<1> QED BY <1>1, InitTyped, StepsTyped, StepsExplained, PTL DEF AccessSpec
=============================================================================
