--------------------- MODULE RelaySubscriptions_proofs ---------------------
(***************************************************************************)
(* Proofs, for any number of connections, subscription ids, handler        *)
(* permits and evictors, that the handlers of RelaySubscriptions use       *)
(* PubSubTopics as specified, that the topic refcounts cover every routed  *)
(* subscription, that a subscription its client was not told CLOSED of is  *)
(* routed and that a connection's subscriptions are bounded.               *)
(***************************************************************************)
EXTENDS RelaySubscriptions, PubSubTopics_proofs, FiniteSetTheorems

-----------------------------------------------------------------------------
(* Finite sets and their sizes. *)

\* There are finitely many subscriptions and finitely many places that owe a release.
LEMMA FiniteDomains == IsFiniteSet(Keys) /\ IsFiniteSet(Slots)
<1>1. IsFiniteSet({"req"}) /\ IsFiniteSet({"close"}) /\ IsFiniteSet({"cleanup"})
      /\ IsFiniteSet({"evict"})
  BY FS_Singleton
<1>2. IsFiniteSet(Keys) /\ IsFiniteSet(Evictors \X SubIds)
  BY FS_Product, SubscriptionsAssumption DEF Keys, SubscriptionsAssumption
<1>3. /\ IsFiniteSet({"req"} \X Tasks)
      /\ IsFiniteSet({"close"} \X Conns)
      /\ IsFiniteSet({"cleanup"} \X Keys)
      /\ IsFiniteSet({"evict"} \X (Evictors \X SubIds))
  BY <1>1, <1>2, FS_Product, SubscriptionsAssumption DEF SubscriptionsAssumption
<1> QED
  BY <1>2, <1>3, FS_Union DEF Slots

\* The sizes the invariant speaks of are natural numbers.
LEMMA CountsAreNat ==
    ASSUME NEW t
    PROVE  /\ IsFiniteSet(Routed(t)) /\ Cardinality(Routed(t)) \in Nat
           /\ IsFiniteSet(Owing(t)) /\ Cardinality(Owing(t)) \in Nat
           /\ IsFiniteSet(Retaining(t)) /\ Cardinality(Retaining(t)) \in Nat
<1>1. Routed(t) \in SUBSET Keys /\ Owing(t) \in SUBSET Slots /\ Retaining(t) \in SUBSET Tasks
  BY DEF Routed, Owing, Retaining
<1>2. IsFiniteSet(Tasks)
  BY SubscriptionsAssumption DEF SubscriptionsAssumption
<1>3. IsFiniteSet(Routed(t)) /\ IsFiniteSet(Owing(t)) /\ IsFiniteSet(Retaining(t))
  BY <1>1, <1>2, FS_Subset, FiniteDomains
<1> QED
  BY <1>3, FS_CardinalityType

\* A set gains at most the element that is added to it.
LEMMA AtMostOneMore ==
    ASSUME NEW S, IsFiniteSet(S), NEW x, NEW T, T \subseteq S \cup {x}
    PROVE  IsFiniteSet(T) /\ Cardinality(T) <= Cardinality(S) + 1
<1>1. IsFiniteSet(S \cup {x}) /\ Cardinality(S \cup {x}) <= Cardinality(S) + 1
  <2>1. Cardinality(S) \in Nat
    BY FS_CardinalityType
  <2> QED
    BY <2>1, FS_AddElement
<1>2. T \in SUBSET (S \cup {x})
  OBVIOUS
<1>3. IsFiniteSet(T) /\ Cardinality(T) <= Cardinality(S \cup {x})
  BY <1>1, <1>2, FS_Subset
<1>4. Cardinality(T) \in Nat /\ Cardinality(S) \in Nat /\ Cardinality(S \cup {x}) \in Nat
  BY <1>1, <1>3, FS_CardinalityType
<1> QED
  BY <1>1, <1>3, <1>4

\* Removing an element shrinks a set by one.
LEMMA OneLess ==
    ASSUME NEW S, IsFiniteSet(S), NEW x \in S
    PROVE  Cardinality(S \ {x}) = Cardinality(S) - 1
BY FS_RemoveElement

\* The subscriptions a cleanup removes are as many as the releases it owes.
LEMMA CleanupImage ==
    ASSUME NEW B, IsFiniteSet(B)
    PROVE  LET I == {"cleanup"} \X B
           IN  IsFiniteSet(I) /\ Cardinality(I) <= Cardinality(B)
<1> DEFINE I == {"cleanup"} \X B
           f == [o \in I |-> o[2]]
<1>1. f \in Injection(I, B)
  BY DEF Injection, IsInjective
<1> QED
  BY <1>1, FS_Injection

-----------------------------------------------------------------------------
(* Types. *)

Views == {"none", "requested", "open", "ended", "closed"}

\* A REQ task at work has a key and a topic, and moves to another step as such.
LEMMA ReqAtWork ==
    ASSUME req \in [Tasks -> ReqState \cup {NoReq}], NEW k \in Tasks, req[k].pc # "idle"
    PROVE  /\ req[k] \in ReqState
           /\ Key(k) \in Keys
           /\ req[k].topic \in Topics
           /\ req[k] # NoReq
           /\ \A p \in {"check", "access", "unregister", "register", "retain", "history"} :
                 [req EXCEPT ![k].pc = p] \in [Tasks -> ReqState \cup {NoReq}]
<1>1. req[k] \in ReqState /\ req[k] # NoReq
  BY DEF NoReq
<1>2. Key(k) \in Keys /\ req[k].topic \in Topics
  BY <1>1 DEF ReqState, Key, Keys
<1>3. ASSUME NEW p \in {"check", "access", "unregister", "register", "retain", "history"}
      PROVE  [req EXCEPT ![k].pc = p] \in [Tasks -> ReqState \cup {NoReq}]
  <2>1. [req[k] EXCEPT !.pc = p] \in ReqState
    BY <1>1 DEF ReqState
  <2> QED
    BY <2>1
<1> QED
  BY <1>1, <1>2, <1>3

\* So does a CLOSE in the receive loop ...
LEMMA CloseAtWork ==
    ASSUME recv \in [Conns -> CloseState \cup {NoClose}], NEW c \in Conns, recv[c].pc # "idle"
    PROVE  /\ <<c, recv[c].sub>> \in Keys
           /\ [recv EXCEPT ![c].pc = "ack"] \in [Conns -> CloseState \cup {NoClose}]
<1>1. recv[c] \in CloseState
  BY DEF NoClose
<1>2. recv[c].sub \in SubIds /\ [recv[c] EXCEPT !.pc = "ack"] \in CloseState
  BY <1>1 DEF CloseState
<1> QED
  BY <1>2 DEF Keys

\* ... and an eviction.
LEMMA EvictAtWork ==
    ASSUME evict \in [Evictors -> EvictState \cup {NoEvict}], NEW e \in Evictors,
           evict[e].pc # "idle"
    PROVE  /\ evict[e] \in EvictState
           /\ \A s \in SubIds : <<evict[e].conn, s>> \in Keys
           /\ \A p \in {"remove", "release"}, T \in SUBSET SubIds, G \in SUBSET SubIds :
                 [evict[e] EXCEPT !.pc = p, !.todo = T, !.got = G] \in EvictState
<1>1. evict[e] \in EvictState
  BY DEF NoEvict
<1> QED
  BY <1>1 DEF EvictState, Keys

\* Each handler has a slot of its own for the releases it owes.
LEMMA SlotsExist ==
    /\ \A k \in Tasks : <<"req", k>> \in Slots
    /\ \A c \in Conns : <<"close", c>> \in Slots
    /\ \A x \in Keys : <<"cleanup", x>> \in Slots
    /\ \A e \in Evictors, s \in SubIds : <<"evict", <<e, s>>>> \in Slots
BY DEF Slots

\* Sending a verdict to a client keeps the recorded verdicts well typed.
LEMMA TellType ==
    ASSUME view \in [Keys -> Views], NEW x \in Keys, NEW w \in Views, Tell(x, w)
    PROVE  view' \in [Keys -> Views]
BY DEF Tell

\* A relay without subscriptions and without running handlers is well typed.
LEMMA LifeTypeInit == LifeInit => LifeTypeOK
BY DEF LifeInit, LifeTypeOK

\* Every handler step keeps the types of the subscription state.
LEMMA LifeTypeStep == LifeTypeOK /\ [LifeNext]_allVars => LifeTypeOK'
<1> SUFFICES ASSUME LifeTypeOK, [LifeNext]_allVars PROVE LifeTypeOK'
  OBVIOUS
<1> USE DEF LifeTypeOK, GoTo
<1>0. view \in [Keys -> Views]
  BY DEF Views
<1>1. CASE \E x \in Keys, t \in Topics, k \in Tasks : SpawnReq(x, t, k)
  <2> PICK x \in Keys, t \in Topics, k \in Tasks : SpawnReq(x, t, k)
    BY <1>1
  <2>1. [pc |-> "check", conn |-> x[1], sub |-> x[2], topic |-> t] \in ReqState
    BY DEF ReqState, Keys
  <2> QED
    BY <2>1 DEF SpawnReq
<1>2. CASE \E x \in Keys : RefuseFrame(x)
  BY <1>2 DEF RefuseFrame, lifeVars
<1>3. CASE \E x \in Keys : CloseUnmap(x)
  <2> PICK x \in Keys : CloseUnmap(x)
    BY <1>3
  <2>1. [pc |-> "unregister", sub |-> x[2]] \in CloseState /\ x[1] \in Conns
    BY DEF CloseState, Keys
  <2> QED
    BY <2>1 DEF CloseUnmap
<1>4. CASE \E c \in Conns : LeaveLoop(c)
  BY <1>4 DEF LeaveLoop, lifeVars
<1>5. CASE \E e \in Evictors, c \in Conns, t \in Channels : EvictCollect(e, c, t)
  <2> PICK e \in Evictors, c \in Conns, t \in Channels : EvictCollect(e, c, t)
    BY <1>5
  <2> DEFINE ids == {s \in SubIds : registry[<<c, s>>] = t}
             new == [pc |-> "remove", conn |-> c, topic |-> t, todo |-> ids, got |-> {}]
  <2>1. new \in EvictState
    BY DEF EvictState
  <2> QED
    BY <2>1 DEF EvictCollect
<1>6. CASE \E k \in Tasks : ReqCheck(k)
  <2> PICK k \in Tasks : ReqCheck(k)
    BY <1>6
  <2>1. req[k].pc # "idle"
    BY DEF ReqCheck
  <2>2. Key(k) \in Keys /\ req[k].topic \in Topics
    BY <2>1, ReqAtWork
  <2>3. req' \in [Tasks -> ReqState \cup {NoReq}]
    BY <2>1, ReqAtWork DEF ReqCheck
  <2> QED
    BY <2>2, <2>3 DEF ReqCheck
<1>7. CASE \E k \in Tasks : ReqReturn(k)
  <2> PICK k \in Tasks : ReqReturn(k)
    BY <1>7
  <2>1. Key(k) \in Keys
    BY ReqAtWork DEF ReqReturn
  <2> DEFINE w == "ended"
  <2>2. w \in Views
    BY <1>0, <2>1 DEF Views
  <2>3. view' \in [Keys -> Views]
    BY <1>0, <2>1, <2>2, TellType DEF ReqReturn
  <2> QED
    BY <2>3 DEF ReqReturn, Views
<1>8. CASE \E k \in Tasks : ReqInsert(k)
  <2> PICK k \in Tasks : ReqInsert(k)
    BY <1>8
  <2>1. req[k].pc # "idle"
    BY DEF ReqInsert
  <2>2. Key(k) \in Keys /\ req[k].topic \in Topics
    BY <2>1, ReqAtWork
  <2>3. req' \in [Tasks -> ReqState \cup {NoReq}]
    BY <2>1, ReqAtWork DEF ReqInsert
  <2> QED
    BY <2>2, <2>3 DEF ReqInsert
<1>9. CASE \E k \in Tasks : ReqUnregister(k)
  <2> PICK k \in Tasks : ReqUnregister(k)
    BY <1>9
  <2>1. req[k].pc # "idle"
    BY DEF ReqUnregister
  <2>2. Key(k) \in Keys /\ req[k].topic \in Topics
    BY <2>1, ReqAtWork
  <2>3. req' \in [Tasks -> ReqState \cup {NoReq}]
    BY <2>1, ReqAtWork DEF ReqUnregister
  <2> QED
    BY <2>2, <2>3, SlotsExist DEF ReqUnregister
<1>10. CASE \E k \in Tasks : ReqRegister(k)
  <2> PICK k \in Tasks : ReqRegister(k)
    BY <1>10
  <2>1. req[k].pc # "idle"
    BY DEF ReqRegister
  <2>2. Key(k) \in Keys /\ req[k].topic \in Topics
    BY <2>1, ReqAtWork
  <2>3. req' \in [Tasks -> ReqState \cup {NoReq}]
    BY <2>1, ReqAtWork DEF ReqRegister
  <2> QED
    BY <2>2, <2>3 DEF ReqRegister
<1>11. CASE \E k \in Tasks : ReqRelease(k)
  BY <1>11, SlotsExist DEF ReqRelease, PayOff
<1>12. CASE \E k \in Tasks : ReqRetain(k)
  BY <1>12, ReqAtWork DEF ReqRetain, lifeVars
<1>13. CASE \E k \in Tasks : ReqSend(k)
  BY <1>13, ReqAtWork DEF ReqSend, lifeVars
<1>14. CASE \E k \in Tasks : ReqEose(k)
  <2> PICK k \in Tasks : ReqEose(k)
    BY <1>14
  <2>1. Key(k) \in Keys
    BY ReqAtWork DEF ReqEose
  <2> DEFINE w == IF view[Key(k)] = "requested" THEN "open" ELSE view[Key(k)]
  <2>2. w \in Views
    BY <1>0, <2>1 DEF Views
  <2>3. view' \in [Keys -> Views]
    BY <1>0, <2>1, <2>2, TellType DEF ReqEose
  <2> QED
    BY <2>3 DEF ReqEose, Views
<1>15. CASE \E c \in Conns : CloseUnregister(c)
  <2> PICK c \in Conns : CloseUnregister(c)
    BY <1>15
  <2>1. <<c, recv[c].sub>> \in Keys /\ <<"close", c>> \in Slots
        /\ [recv EXCEPT ![c].pc = "ack"] \in [Conns -> CloseState \cup {NoClose}]
    BY CloseAtWork, SlotsExist DEF CloseUnregister
  <2> QED
    BY <2>1 DEF CloseUnregister
<1>16. CASE \E c \in Conns : CloseRelease(c)
  BY <1>16, SlotsExist DEF CloseRelease, PayOff
<1>17. CASE \E c \in Conns : CloseAck(c)
  <2> PICK c \in Conns : CloseAck(c)
    BY <1>17
  <2>1. <<c, recv[c].sub>> \in Keys
    BY CloseAtWork DEF CloseAck
  <2>2. view' \in [Keys -> Views]
    BY <1>0, <2>1, TellType DEF CloseAck, Views
  <2> QED
    BY <2>2 DEF CloseAck, Views
<1>18. CASE \E c \in Conns : RemoveConnection(c)
  <2> PICK c \in Conns : RemoveConnection(c)
    BY <1>18
  <2>1. \A o \in Slots : o[1] = "cleanup" => o[2] \in Keys
    BY DEF Slots
  <2> QED
    BY <2>1 DEF RemoveConnection
<1>19. CASE \E c \in Conns : Deregister(c)
  BY <1>19 DEF Deregister, lifeVars
<1>20. CASE \E c \in Conns, s \in SubIds : CleanupRelease(<<c, s>>)
  <2> PICK c \in Conns, s \in SubIds : CleanupRelease(<<c, s>>)
    BY <1>20
  <2>1. <<"cleanup", <<c, s>>>> \in Slots
    BY SlotsExist DEF Keys
  <2> QED
    BY <2>1 DEF CleanupRelease, PayOff
<1>21. CASE \E e \in Evictors, s \in SubIds : EvictRemove(e, s)
  <2> PICK e \in Evictors, s \in SubIds : EvictRemove(e, s)
    BY <1>21
  <2> DEFINE x == <<evict[e].conn, s>>
             T == evict[e].todo \ {s}
             G == IF registry[x] = NoTopic THEN evict[e].got ELSE evict[e].got \cup {s}
  <2>1. evict[e] \in EvictState /\ x \in Keys /\ <<"evict", <<e, s>>>> \in Slots
    BY EvictAtWork, SlotsExist DEF EvictRemove
  <2>2. T \in SUBSET SubIds /\ G \in SUBSET SubIds /\ evict[e].pc = "remove"
    BY <2>1 DEF EvictState, EvictRemove
  <2>3. [evict[e] EXCEPT !.todo = T, !.got = G] \in EvictState
    BY <2>1, <2>2 DEF EvictState
  <2>4. evict' = [evict EXCEPT ![e] = [evict[e] EXCEPT !.todo = T, !.got = G]]
    BY DEF EvictRemove
  <2> QED
    BY <2>1, <2>3, <2>4 DEF EvictRemove
<1>22. CASE \E e \in Evictors, s \in SubIds : EvictRelease(e, s)
  <2> PICK e \in Evictors, s \in SubIds : EvictRelease(e, s)
    BY <1>22
  <2>1. evict[e] \in EvictState /\ <<evict[e].conn, s>> \in Keys
        /\ <<"evict", <<e, s>>>> \in Slots
    BY EvictAtWork, SlotsExist DEF EvictRelease
  <2>2. [evict[e] EXCEPT !.got = @ \ {s}] \in EvictState
    BY <2>1 DEF EvictState
  <2>3. evict' \in [Evictors -> EvictState \cup {NoEvict}]
    BY <2>2 DEF EvictRelease
  <2>4. view' \in [Keys -> Views]
    BY <1>0, <2>1, TellType DEF EvictRelease, Views
  <2> QED
    BY <2>1, <2>3, <2>4 DEF EvictRelease, PayOff, Views
<1>23. CASE \E e \in Evictors : EvictUnmap(e)
  <2> PICK e \in Evictors : EvictUnmap(e)
    BY <1>23
  <2>1. evict[e] \in EvictState
    BY EvictAtWork DEF EvictUnmap
  <2>2. [evict[e] EXCEPT !.pc = "release"] \in EvictState
    BY <2>1 DEF EvictState
  <2> QED
    BY <2>2 DEF EvictUnmap
<1>24. CASE \E e \in Evictors : EvictDone(e)
  BY <1>24 DEF EvictDone, lifeVars
<1>25. CASE PubSubStep
  BY <1>25 DEF PubSubStep, lifeVars
<1>26. CASE UNCHANGED allVars
  BY <1>26 DEF allVars, lifeVars
<1> QED
  BY <1>1, <1>2, <1>3, <1>4, <1>5, <1>6, <1>7, <1>8, <1>9, <1>10, <1>11, <1>12, <1>13, <1>14, <1>15, <1>16, <1>17, <1>18, <1>19, <1>20, <1>21, <1>22, <1>23, <1>24, <1>25, <1>26
     DEF LifeNext, Handling, Environment, ReqTask, RecvLoop, Cleanup, EvictTask

-----------------------------------------------------------------------------
(* The handlers are a client of PubSubTopics: each of their steps is one of its. *)

\* A step that pays a release off is a ReleaseTopic, or nothing if unretained.
LEMMA PayOffIsRelease ==
    ASSUME LifeTypeOK, NEW o \in Slots, PayOff(o)
    PROVE  /\ owed[o] \in Topics
           /\ \/ ReleaseTopic(owed[o]) /\ desired[owed[o]] > 0
              \/ UNCHANGED vars /\ ~(desired[owed[o]] > 0)
BY DEF PayOff, Owes, Release, LifeTypeOK

\* Whatever a handler does to the topic interest is retain_topic, release_topic or
\* a step of the subscriber task.
LEMMA StepIsTopicStep == LifeTypeOK /\ [LifeNext]_allVars => [Next]_vars
<1> SUFFICES ASSUME LifeTypeOK, [LifeNext]_allVars PROVE [Next]_vars
  OBVIOUS
<1> USE DEF Next, Handlers, Sends
<1>1. CASE UNCHANGED vars
  BY <1>1
<1>2. CASE \E k \in Tasks : ReqRetain(k)
  <2> PICK k \in Tasks : ReqRetain(k)
    BY <1>2
  <2>1. req[k].topic \in Topics
    BY ReqAtWork DEF ReqRetain, LifeTypeOK
  <2> QED
    BY <2>1 DEF ReqRetain
<1>3. CASE \E k \in Tasks : ReqSend(k)
  BY <1>3 DEF ReqSend
<1>4. CASE \E o \in Slots : PayOff(o)
  BY <1>4, PayOffIsRelease
<1>5. CASE PubSubStep
  BY <1>5 DEF PubSubStep
<1>6. \A k \in Tasks : ReqRelease(k) => \E o \in Slots : PayOff(o)
  BY SlotsExist DEF ReqRelease
<1>7. \A c \in Conns : CloseRelease(c) => \E o \in Slots : PayOff(o)
  BY SlotsExist DEF CloseRelease
<1>8. \A c \in Conns, s \in SubIds : CleanupRelease(<<c, s>>) => \E o \in Slots : PayOff(o)
  BY SlotsExist DEF CleanupRelease, Keys
<1>9. \A e \in Evictors, s \in SubIds : EvictRelease(e, s) => \E o \in Slots : PayOff(o)
  BY SlotsExist DEF EvictRelease
<1>10. ASSUME NEW k \in Tasks, ReqTask(k)
       PROVE  \/ UNCHANGED vars \/ ReqRetain(k) \/ ReqSend(k)
              \/ \E o \in Slots : PayOff(o)
  BY <1>6, <1>10 DEF ReqTask, ReqCheck, ReqReturn, ReqInsert, ReqUnregister, ReqRegister, ReqEose
<1>11. ASSUME NEW c \in Conns, RecvLoop(c) \/ Cleanup(c)
       PROVE  UNCHANGED vars \/ \E o \in Slots : PayOff(o)
  BY <1>7, <1>8, <1>11 DEF RecvLoop, Cleanup, CloseUnregister, CloseAck, RemoveConnection, Deregister
<1>12. ASSUME NEW e \in Evictors, EvictTask(e)
       PROVE  UNCHANGED vars \/ \E o \in Slots : PayOff(o)
  BY <1>9, <1>12 DEF EvictTask, EvictRemove, EvictUnmap, EvictDone
<1>13. Environment => UNCHANGED vars
  BY DEF Environment, SpawnReq, RefuseFrame, CloseUnmap, LeaveLoop, EvictCollect
<1>14. UNCHANGED allVars => UNCHANGED vars
  BY DEF allVars
<1> QED
  BY <1>1, <1>2, <1>3, <1>4, <1>5, <1>10, <1>11, <1>12, <1>13, <1>14 DEF LifeNext, Handling

\* The subscription state is well typed in every behaviour.
THEOREM LifeTypeCorrect == LifeSpec => []LifeTypeOK
BY LifeTypeInit, LifeTypeStep, PTL DEF LifeSpec

\* The request handlers, the cleanup and the evictions of RelaySubscriptions
\* retain and release topics as PubSubTopics specifies: what is proved of
\* PubSubTopics holds of the composed system.
THEOREM HandlersImplementTopics == LifeSpec => Spec
<1>1. LifeSpec => []LifeTypeOK
  BY LifeTypeCorrect
<1>2. LifeSpec => Init
  BY DEF LifeSpec, LifeInit
<1>3. LifeSpec => [][LifeNext]_allVars
  BY DEF LifeSpec
<1> QED
  BY <1>1, <1>2, <1>3, StepIsTopicStep, PTL DEF Spec

-----------------------------------------------------------------------------
(* The refcounts cover what is routed. *)

\* Before and after a step, the counted sets are finite.
LEMMA FiniteParts ==
    /\ \A T \in SUBSET Keys : IsFiniteSet(T) /\ Cardinality(T) \in Nat
    /\ \A T \in SUBSET Slots : IsFiniteSet(T) /\ Cardinality(T) \in Nat
    /\ \A T \in SUBSET Tasks : IsFiniteSet(T) /\ Cardinality(T) \in Nat
<1>1. IsFiniteSet(Tasks)
  BY SubscriptionsAssumption DEF SubscriptionsAssumption
<1> QED
  BY <1>1, FiniteDomains, FS_Subset, FS_CardinalityType

\* Taking x out of the registry and owing its release under o keeps the sum.
LEMMA MoveToOwed ==
    ASSUME LifeTypeOK, NEW t \in Topics, NEW x \in Keys, NEW o \in Slots,
           registry' = [registry EXCEPT ![x] = NoTopic],
           owed' = [owed EXCEPT ![o] = registry[x]]
    PROVE  Cardinality(Routed(t)') + Cardinality(Owing(t)')
               <= Cardinality(Routed(t)) + Cardinality(Owing(t))
<1> USE DEF LifeTypeOK
<1>1. NoTopic # t
  BY PubSubAssumption DEF PubSubAssumption
<1>2. Routed(t)' = Routed(t) \ {x}
  BY <1>1 DEF Routed
<1>3. /\ Routed(t) \in SUBSET Keys /\ Routed(t)' \in SUBSET Keys
      /\ Owing(t) \in SUBSET Slots /\ Owing(t)' \in SUBSET Slots
  BY DEF Routed, Owing
<1>4. /\ IsFiniteSet(Routed(t)) /\ Cardinality(Routed(t)) \in Nat
      /\ IsFiniteSet(Owing(t)) /\ Cardinality(Owing(t)) \in Nat
      /\ Cardinality(Routed(t)') \in Nat /\ Cardinality(Owing(t)') \in Nat
  BY <1>3, FiniteParts
<1>5. CASE registry[x] = t
  <2>1. x \in Routed(t)
    BY <1>5 DEF Routed
  <2>2. Cardinality(Routed(t)') = Cardinality(Routed(t)) - 1
    BY <1>2, <1>4, <2>1, OneLess
  <2>3. Owing(t)' \subseteq Owing(t) \cup {o}
    BY DEF Owing
  <2>4. Cardinality(Owing(t)') <= Cardinality(Owing(t)) + 1
    BY <1>4, <2>3, AtMostOneMore
  <2> QED
    BY <1>4, <2>2, <2>4
<1>6. CASE registry[x] # t
  <2>1. Routed(t)' = Routed(t)
    BY <1>2, <1>6 DEF Routed
  <2>2. Owing(t)' \in SUBSET Owing(t)
    BY <1>6 DEF Owing
  <2>3. Cardinality(Owing(t)') <= Cardinality(Owing(t))
    BY <1>4, <2>2, FS_Subset
  <2> QED
    BY <1>4, <2>1, <2>3
<1> QED
  BY <1>5, <1>6

\* Paying a release off takes at least as much from what is owed as from the
\* refcount.
LEMMA PayOffBalances ==
    ASSUME TypeOK, LifeTypeOK, NEW t \in Topics, NEW o \in Slots, PayOff(o)
    PROVE  /\ desired'[t] \in Nat
           /\ Cardinality(Owing(t)') - desired'[t] <= Cardinality(Owing(t)) - desired[t]
<1> USE DEF TypeOK, LifeTypeOK
<1>1. NoTopic # t
  BY PubSubAssumption DEF PubSubAssumption
<1>2. Owing(t)' = Owing(t) \ {o}
  BY <1>1 DEF Owing, PayOff
<1>3. Owing(t) \in SUBSET Slots
  BY DEF Owing
<1>4. IsFiniteSet(Owing(t)) /\ Cardinality(Owing(t)) \in Nat
  BY <1>3, FiniteParts
<1>5. CASE owed[o] = t
  <2>1. o \in Owing(t)
    BY <1>5 DEF Owing
  <2>2. Cardinality(Owing(t)') = Cardinality(Owing(t)) - 1
    BY <1>2, <1>4, <2>1, OneLess
  <2>3. /\ desired[t] \in Nat
        /\ \/ desired[t] > 0 /\ desired'[t] = desired[t] - 1
           \/ desired[t] = 0 /\ desired'[t] = 0
    BY <1>5, PayOffIsRelease DEF ReleaseTopic, vars
  <2> QED
    BY <1>4, <2>2, <2>3
<1>6. CASE owed[o] # t
  <2>1. Owing(t)' = Owing(t)
    BY <1>2, <1>6 DEF Owing
  <2>2. desired[t] \in Nat /\ desired'[t] = desired[t]
    BY <1>6, PayOffIsRelease DEF ReleaseTopic, vars
  <2> QED
    BY <1>4, <2>1, <2>2
<1> QED
  BY <1>5, <1>6

\* No step of a handler, a cleanup or an eviction lets the refcount of a topic
\* fall behind what is routed by it and owed to it.
LEMMA RefcountStep ==
    TypeOK /\ LifeTypeOK /\ RefcountCoversRouted /\ [LifeNext]_allVars
        => RefcountCoversRouted'
<1> SUFFICES ASSUME TypeOK, LifeTypeOK, RefcountCoversRouted, [LifeNext]_allVars,
                    NEW t \in Topics
             PROVE  Cardinality(Routed(t)') + Cardinality(Owing(t)')
                        <= desired'[t] + Cardinality(Retaining(t)')
  BY DEF RefcountCoversRouted
<1> DEFINE r == Cardinality(Routed(t))  o == Cardinality(Owing(t))
           q == Cardinality(Retaining(t))
<1>a. /\ Routed(t) \in SUBSET Keys /\ Routed(t)' \in SUBSET Keys
      /\ Owing(t) \in SUBSET Slots /\ Owing(t)' \in SUBSET Slots
      /\ Retaining(t) \in SUBSET Tasks /\ Retaining(t)' \in SUBSET Tasks
  BY DEF Routed, Owing, Retaining
<1>b. /\ r \in Nat /\ o \in Nat /\ q \in Nat /\ desired[t] \in Nat
      /\ r' \in Nat /\ o' \in Nat /\ q' \in Nat
      /\ IsFiniteSet(Routed(t)) /\ IsFiniteSet(Owing(t)) /\ IsFiniteSet(Retaining(t))
  BY <1>a, FiniteParts DEF TypeOK
<1>c. r + o <= desired[t] + q
  BY DEF RefcountCoversRouted
<1> HIDE DEF r, o, q
<1>d. SUFFICES r' + o' <= desired'[t] + q'
  BY DEF r, o, q
\* Steps that touch none of the four quantities.
<1>e. ASSUME UNCHANGED <<registry, owed, desired>>, Retaining(t)' = Retaining(t)
      PROVE  r' + o' <= desired'[t] + q'
  <2>1. Routed(t)' = Routed(t) /\ Owing(t)' = Owing(t)
    BY <1>e DEF Routed, Owing
  <2> QED
    BY <1>b, <1>c, <1>e, <2>1 DEF r, o, q
\* Steps that move a subscription from the registry to what is owed.
<1>f. ASSUME NEW x \in Keys, NEW z \in Slots, desired' = desired,
             Retaining(t)' = Retaining(t),
             registry' = [registry EXCEPT ![x] = NoTopic],
             owed' = [owed EXCEPT ![z] = registry[x]]
      PROVE  r' + o' <= desired'[t] + q'
  <2>1. r' + o' <= r + o
    BY <1>f, MoveToOwed DEF r, o
  <2>2. q' = q /\ desired'[t] = desired[t]
    BY <1>f DEF q
  <2>3. /\ r \in Nat /\ o \in Nat /\ q \in Nat /\ desired[t] \in Nat
        /\ r' \in Nat /\ o' \in Nat
    BY <1>b
  <2>4. ASSUME NEW a \in Nat, NEW b \in Nat, a + b <= r + o
        PROVE  a + b <= desired[t] + q
    BY <1>c, <2>3, <2>4
  <2>5. r' + o' <= desired[t] + q
    BY <2>1, <2>3, <2>4
  <2> QED
    BY <2>2, <2>5
\* Steps that pay a release off.
<1>g. ASSUME NEW z \in Slots, PayOff(z), UNCHANGED <<registry, req>>
      PROVE  r' + o' <= desired'[t] + q'
  <2>1. desired'[t] \in Nat /\ o' - desired'[t] <= o - desired[t]
    BY <1>g, PayOffBalances DEF o
  <2>2. r' = r /\ q' = q
    BY <1>g DEF r, q, Routed, Retaining
  <2> QED
    BY <1>b, <1>c, <2>1, <2>2
<1>1. CASE Environment
  <2>1. UNCHANGED <<registry, owed, desired>>
    BY <1>1 DEF Environment, SpawnReq, RefuseFrame, CloseUnmap, LeaveLoop, EvictCollect, vars
  <2>2. Retaining(t)' = Retaining(t)
    <3>1. CASE req' = req
      BY <3>1 DEF Retaining
    <3>2. CASE \E x \in Keys, u \in Topics, k \in Tasks : SpawnReq(x, u, k)
      BY <3>2 DEF SpawnReq, Retaining, NoReq, LifeTypeOK
    <3> QED
      BY <1>1, <3>1, <3>2 DEF Environment, RefuseFrame, CloseUnmap, LeaveLoop, EvictCollect
  <2> QED
    BY <1>e, <2>1, <2>2
<1>2. ASSUME NEW k \in Tasks,
             ReqCheck(k) \/ ReqReturn(k) \/ ReqInsert(k) \/ ReqEose(k)
      PROVE  r' + o' <= desired'[t] + q'
  <2>1. UNCHANGED <<registry, owed, desired>>
    BY <1>2 DEF ReqCheck, ReqReturn, ReqInsert, ReqEose, vars
  <2>2. Retaining(t)' = Retaining(t)
    <3>1. \A j \in Tasks : j # k => req'[j] = req[j]
      BY <1>2 DEF ReqCheck, ReqReturn, ReqInsert, ReqEose, GoTo, LifeTypeOK
    <3>2. req[k].pc # "retain"
      BY <1>2 DEF ReqCheck, ReqReturn, ReqInsert, ReqEose
    <3>3. CASE req' = [req EXCEPT ![k] = NoReq]
      BY <3>1, <3>2, <3>3 DEF Retaining, NoReq, LifeTypeOK
    <3>4. CASE GoTo(k, "access") \/ GoTo(k, "unregister")
      <4>1. req'[k].pc # "retain"
        <5>1. req[k].pc # "idle"
          BY <1>2 DEF ReqCheck, ReqInsert, ReqReturn, ReqEose
        <5>2. req[k] \in ReqState
          BY <5>1, ReqAtWork DEF LifeTypeOK
        <5> QED
          BY <3>4, <5>2 DEF GoTo, LifeTypeOK, ReqState
      <4> QED
        BY <3>1, <3>2, <4>1 DEF Retaining
    <3> QED
      BY <1>2, <3>3, <3>4 DEF ReqCheck, ReqReturn, ReqInsert, ReqEose
  <2> QED
    BY <1>e, <2>1, <2>2
<1>3. ASSUME NEW k \in Tasks, ReqUnregister(k)
      PROVE  r' + o' <= desired'[t] + q'
  <2>1. Key(k) \in Keys /\ <<"req", k>> \in Slots
    BY <1>3, ReqAtWork, SlotsExist DEF ReqUnregister, LifeTypeOK
  <2>2. Retaining(t)' = Retaining(t)
    BY <1>3 DEF ReqUnregister, GoTo, Retaining, LifeTypeOK
  <2> QED
    BY <1>3, <1>f, <2>1, <2>2 DEF ReqUnregister, vars
<1>4. ASSUME NEW k \in Tasks, ReqRegister(k)
      PROVE  r' + o' <= desired'[t] + q'
  <2>1. Key(k) \in Keys /\ req[k].topic \in Topics
    BY <1>4, ReqAtWork DEF ReqRegister, LifeTypeOK
  <2>2. o' = o /\ desired' = desired
    BY <1>4 DEF ReqRegister, vars, o, Owing
  <2>3. CASE req[k].topic = t
    <3>1. Routed(t)' \subseteq Routed(t) \cup {Key(k)}
      BY <1>4 DEF ReqRegister, Routed, LifeTypeOK
    <3>2. r' <= r + 1
      BY <1>b, <3>1, AtMostOneMore DEF r
    <3>3. Retaining(t)' = Retaining(t) \cup {k} /\ k \notin Retaining(t)
      BY <1>4, <2>3 DEF ReqRegister, GoTo, Retaining, LifeTypeOK
    <3>4. q' = q + 1
      BY <1>b, <3>3, FS_AddElement DEF q
    <3> QED
      BY <1>b, <1>c, <2>2, <3>2, <3>4
  <2>4. CASE req[k].topic # t
    <3>1. Routed(t)' \in SUBSET Routed(t)
      BY <1>4, <2>4 DEF ReqRegister, Routed, LifeTypeOK
    <3>2. r' <= r
      BY <1>b, <3>1, FS_Subset DEF r
    <3>3. Retaining(t)' = Retaining(t)
      BY <1>4, <2>4 DEF ReqRegister, GoTo, Retaining, LifeTypeOK
    <3> QED
      BY <1>b, <1>c, <2>2, <3>2, <3>3 DEF q
  <2> QED
    BY <2>3, <2>4
<1>5. ASSUME NEW k \in Tasks, ReqRetain(k)
      PROVE  r' + o' <= desired'[t] + q'
  <2>1. req[k].topic \in Topics
    BY <1>5, ReqAtWork DEF ReqRetain, LifeTypeOK
  <2>2. r' = r /\ o' = o
    BY <1>5 DEF ReqRetain, r, o, Routed, Owing
  <2>3. CASE req[k].topic = t
    <3>1. Retaining(t)' = Retaining(t) \ {k} /\ k \in Retaining(t)
      BY <1>5, <2>3 DEF ReqRetain, GoTo, Retaining, LifeTypeOK
    <3>2. q' = q - 1
      BY <1>b, <3>1, OneLess DEF q
    <3>3. desired'[t] = desired[t] + 1
      BY <1>5, <2>3 DEF ReqRetain, RetainTopic, TypeOK
    <3> QED
      BY <1>b, <1>c, <2>2, <3>2, <3>3
  <2>4. CASE req[k].topic # t
    <3>1. Retaining(t)' = Retaining(t)
      BY <1>5, <2>4 DEF ReqRetain, GoTo, Retaining, LifeTypeOK
    <3>2. desired'[t] = desired[t]
      BY <1>5, <2>1, <2>4 DEF ReqRetain, RetainTopic, TypeOK
    <3> QED
      BY <1>b, <1>c, <2>2, <3>1, <3>2 DEF q
  <2> QED
    BY <2>3, <2>4
<1>6. ASSUME NEW k \in Tasks, ReqRelease(k)
      PROVE  r' + o' <= desired'[t] + q'
  BY <1>6, <1>g, SlotsExist DEF ReqRelease
<1>7. ASSUME NEW k \in Tasks, ReqSend(k)
      PROVE  r' + o' <= desired'[t] + q'
  BY <1>7, <1>e DEF ReqSend, SendSubscribe, lifeVars, Retaining
<1>8. ASSUME NEW c \in Conns, CloseUnregister(c)
      PROVE  r' + o' <= desired'[t] + q'
  <2>1. <<c, recv[c].sub>> \in Keys /\ <<"close", c>> \in Slots
    BY <1>8, CloseAtWork, SlotsExist DEF CloseUnregister, LifeTypeOK
  <2>2. Retaining(t)' = Retaining(t) /\ desired' = desired
    BY <1>8 DEF CloseUnregister, Retaining, vars
  <2> QED
    BY <1>8, <1>f, <2>1, <2>2 DEF CloseUnregister
<1>9. ASSUME NEW c \in Conns, CloseRelease(c)
      PROVE  r' + o' <= desired'[t] + q'
  BY <1>9, <1>g, SlotsExist DEF CloseRelease
<1>10. ASSUME NEW c \in Conns, CloseAck(c) \/ Deregister(c)
       PROVE  r' + o' <= desired'[t] + q'
  BY <1>10, <1>e DEF CloseAck, Deregister, vars, Retaining
<1>11. ASSUME NEW c \in Conns, RemoveConnection(c)
       PROVE  r' + o' <= desired'[t] + q'
  <2> DEFINE B == {x \in Keys : x[1] = c /\ registry[x] = t}
             I == {"cleanup"} \X B
  <2>0. NoTopic # t
    BY PubSubAssumption DEF PubSubAssumption
  <2>1. Routed(t)' = Routed(t) \ B /\ B \in SUBSET Routed(t)
    BY <1>11, <2>0 DEF RemoveConnection, Routed
  <2>2. IsFiniteSet(B) /\ IsFiniteSet(I) /\ Cardinality(I) <= Cardinality(B)
    BY <1>b, <2>1, FS_Subset, CleanupImage
  <2>3. Cardinality(B) \in Nat /\ Cardinality(I) \in Nat
    BY <2>2, FS_CardinalityType
  <2>4. r' = r - Cardinality(B)
    <3>1. Routed(t) \cap B = B
      BY <2>1
    <3> QED
      BY <1>b, <2>1, <2>2, <3>1, FS_Difference DEF r
  <2>5. Owing(t)' \in SUBSET (Owing(t) \cup I)
    <3> SUFFICES ASSUME NEW z \in Owing(t)' PROVE z \in Owing(t) \cup I
      OBVIOUS
    <3>1. z \in Slots /\ owed'[z] = t
      BY DEF Owing
    <3>2. CASE z[1] = "cleanup" /\ z[2][1] = c
      <4>1. z[2] \in Keys /\ z = <<"cleanup", z[2]>>
        BY <3>1, <3>2 DEF Slots
      <4>2. registry[z[2]] = t
        BY <1>11, <3>1, <3>2 DEF RemoveConnection
      <4> QED
        BY <3>2, <4>1, <4>2
    <3>3. CASE ~(z[1] = "cleanup" /\ z[2][1] = c)
      BY <1>11, <3>1, <3>3 DEF RemoveConnection, Owing
    <3> QED
      BY <3>2, <3>3
  <2>6. o' <= o + Cardinality(I)
    <3>1. IsFiniteSet(Owing(t) \cup I)
          /\ Cardinality(Owing(t) \cup I) = o + Cardinality(I) - Cardinality(Owing(t) \cap I)
      BY <1>b, <2>2, FS_Union DEF o
    <3>2. IsFiniteSet(Owing(t) \cap I) /\ Cardinality(Owing(t) \cap I) \in Nat
      <4>1. Owing(t) \cap I \in SUBSET I
        OBVIOUS
      <4> QED
        BY <2>2, <4>1, FS_Subset, FS_CardinalityType
    <3>3. o' <= Cardinality(Owing(t) \cup I)
      BY <2>5, <3>1, FS_Subset DEF o
    <3> QED
      BY <1>b, <2>3, <3>1, <3>2, <3>3
  <2>7. q' = q /\ desired' = desired
    BY <1>11 DEF RemoveConnection, vars, q, Retaining
  <2> QED
    BY <1>b, <1>c, <2>2, <2>3, <2>4, <2>6, <2>7
<1>12. ASSUME NEW c \in Conns, NEW s \in SubIds, CleanupRelease(<<c, s>>)
       PROVE  r' + o' <= desired'[t] + q'
  <2>1. <<"cleanup", <<c, s>>>> \in Slots
    BY SlotsExist DEF Keys
  <2> QED
    BY <1>12, <1>g, <2>1 DEF CleanupRelease
<1>13. ASSUME NEW e \in Evictors, NEW s \in SubIds, EvictRemove(e, s)
       PROVE  r' + o' <= desired'[t] + q'
  <2>1. <<evict[e].conn, s>> \in Keys /\ <<"evict", <<e, s>>>> \in Slots
    BY <1>13, EvictAtWork, SlotsExist DEF EvictRemove, LifeTypeOK
  <2>2. Retaining(t)' = Retaining(t) /\ desired' = desired
    BY <1>13 DEF EvictRemove, Retaining, vars
  <2> QED
    BY <1>13, <1>f, <2>1, <2>2 DEF EvictRemove
<1>14. ASSUME NEW e \in Evictors, NEW s \in SubIds, EvictRelease(e, s)
       PROVE  r' + o' <= desired'[t] + q'
  BY <1>14, <1>g, SlotsExist DEF EvictRelease
<1>15. ASSUME NEW e \in Evictors, EvictUnmap(e) \/ EvictDone(e)
       PROVE  r' + o' <= desired'[t] + q'
  BY <1>15, <1>e DEF EvictUnmap, EvictDone, vars, Retaining
<1>16. CASE PubSubStep
  <2>1. desired' = desired
    BY <1>16 DEF PubSubStep, DebounceElapsed, SubscriberTask, Connect, SubscribeInitial,
          EnterLoop, RecvSubscribe, SinkSubscribe, RecvUnsubscribeIfIdle, CheckIdle,
          SinkUnsubscribe, Disconnect, interestVars
  <2> QED
    BY <1>16, <1>e, <2>1 DEF PubSubStep, lifeVars, Retaining
<1>17. CASE UNCHANGED allVars
  BY <1>17, <1>e DEF allVars, vars, lifeVars, Retaining
<1> QED
  BY <1>1, <1>2, <1>3, <1>4, <1>5, <1>6, <1>7, <1>8, <1>9, <1>10, <1>11, <1>12, <1>13,
     <1>14, <1>15, <1>16, <1>17
     DEF LifeNext, Handling, ReqTask, RecvLoop, Cleanup, EvictTask

-----------------------------------------------------------------------------
\* With no subscription registered and no release owed there is nothing to cover.
LEMMA RefcountInit == LifeInit => RefcountCoversRouted
<1> SUFFICES ASSUME LifeInit, NEW t \in Topics
             PROVE  Cardinality(Routed(t)) + Cardinality(Owing(t))
                        <= desired[t] + Cardinality(Retaining(t))
  BY DEF RefcountCoversRouted
<1>1. Routed(t) = {} /\ Owing(t) = {} /\ desired[t] = 0
  BY PubSubAssumption DEF Init, LifeInit, Routed, Owing, PubSubAssumption
<1>2. Cardinality(Retaining(t)) \in Nat
  BY CountsAreNat
<1> QED
  BY <1>1, <1>2, FS_EmptySet

\* Whatever the interleaving of REQ, CLOSE, cleanup and eviction, a topic's
\* refcount and the retains about to be made cover every subscription routed
\* by it and every release still owed: no release_topic comes too often.
THEOREM RefcountCorrect == LifeSpec => []RefcountCoversRouted
<1>1. LifeSpec => []TypeOK
  BY HandlersImplementTopics, TypeCorrect, PTL
<1>2. LifeSpec => LifeInit
  BY DEF LifeSpec
<1>3. LifeSpec => [][LifeNext]_allVars
  BY DEF LifeSpec
<1> QED
  BY <1>1, <1>2, <1>3, LifeTypeCorrect, RefcountInit, RefcountStep, PTL

\* A routed subscription has a refcount, or a REQ task that is about to retain.
LEMMA RoutedIsRetained ==
    ASSUME TypeOK, LifeTypeOK, RefcountCoversRouted, NEW t \in Topics, NEW x \in Keys,
           registry[x] = t
    PROVE  desired[t] > 0 \/ Retaining(t) # {}
<1>1. Routed(t) # {}
  BY DEF Routed
<1>2. Cardinality(Routed(t)) # 0
  BY <1>1, CountsAreNat, FS_EmptySet
<1>3. Cardinality(Retaining(t)) = 0 <=> Retaining(t) = {}
  BY CountsAreNat, FS_EmptySet
<1> QED
  BY <1>2, <1>3, CountsAreNat DEF RefcountCoversRouted, TypeOK

\* While Redis is connected, a subscription that fan-out would route to has its
\* topic subscribed, a Subscribe on its way, or a REQ task about to retain it.
THEOREM RoutedCovered == LifeSpec => []RoutedIsCovered
<1>1. TypeOK /\ LifeTypeOK /\ RefcountCoversRouted /\ RetainedIsCovered => RoutedIsCovered
  BY RoutedIsRetained DEF RoutedIsCovered, RetainedIsCovered
<1>2. LifeSpec => []TypeOK /\ []RetainedIsCovered
  BY HandlersImplementTopics, TypeCorrect, RetainedCovered, PTL
<1> QED
  BY <1>1, <1>2, LifeTypeCorrect, RefcountCorrect, PTL

-----------------------------------------------------------------------------
(* What the client was told and what is routed.                            *)
(*                                                                         *)
(* OpenIsRouted is inductive.  A step that takes a subscription out of the *)
(* registry leaves its mark where the invariant looks: a REQ task that has *)
(* yet to register, a CLOSE in the receive loop, an id an eviction has     *)
(* got, or a connection that is no longer open; and each of these marks is *)
(* taken away by a registration or together with the verdict.              *)

\* The client of x may count on it, and nobody is at work on it.
Live(x) ==
    /\ view[x] \in {"requested", "open"} /\ phase[x[1]] = "open"
    /\ ~BeingRequested(x) /\ ~BeingClosed(x) /\ ~BeingEvicted(x)

\* A subscription is a connection and an id.
LEMMA KeyParts ==
    /\ \A x \in Keys : x[1] \in Conns /\ x[2] \in SubIds /\ x = <<x[1], x[2]>>
    /\ \A c \in Conns, s \in SubIds : <<c, s>> \in Keys
BY DEF Keys

\* A REQ task that moves on keeps its subscription.
LEMMA GoToKeeps ==
    ASSUME LifeTypeOK, NEW k \in Tasks, req[k].pc # "idle",
           NEW p \in {"check", "access", "unregister", "register", "retain", "history"}, GoTo(k, p)
    PROVE  \A j \in Tasks : /\ Key(j)' = Key(j) /\ req'[j].conn = req[j].conn
                            /\ req'[j] = NoReq <=> req[j] = NoReq
                            /\ req'[j].pc = IF j = k THEN p ELSE req[j].pc
<1>1. req \in [Tasks -> ReqState \cup {NoReq}] /\ req[k] \in ReqState /\ req[k] # NoReq
  BY ReqAtWork DEF LifeTypeOK
<1>2. req' = [req EXCEPT ![k] = [req[k] EXCEPT !.pc = p]]
  BY <1>1 DEF GoTo
<1>3. [req[k] EXCEPT !.pc = p] \in ReqState
  BY <1>1 DEF ReqState
<1>4. \A j \in Tasks \ {k} : req'[j] = req[j]
  BY <1>1, <1>2
<1>5. /\ req'[k] = [req[k] EXCEPT !.pc = p]
      /\ req'[k].pc = p /\ req'[k].conn = req[k].conn /\ req'[k].sub = req[k].sub
  BY <1>1, <1>2 DEF ReqState
<1>6. req'[k] # NoReq
  BY <1>5 DEF NoReq
<1>7. ASSUME NEW j \in Tasks
      PROVE  /\ Key(j)' = Key(j) /\ req'[j].conn = req[j].conn
             /\ req'[j] = NoReq <=> req[j] = NoReq
             /\ req'[j].pc = IF j = k THEN p ELSE req[j].pc
  BY <1>1, <1>4, <1>5, <1>6 DEF Key
<1> QED
  BY <1>7

\* The invariant after a step, from what becomes of each subscription.
LEMMA StillRouted ==
    ASSUME OpenIsRouted,
           \A x \in Keys : \/ registry'[x] # NoTopic
                           \/ ~Live(x)'
                           \/ registry'[x] = registry[x] /\ Live(x)
    PROVE  OpenIsRouted'
BY DEF OpenIsRouted, Live

\* A step that changes neither what is routed nor what anybody was told, and in
\* which no REQ task passes its registration.
LEMMA QuietStep ==
    ASSUME OpenIsRouted, UNCHANGED <<phase, registry, recv, evict, view>>,
           \A x \in Keys : BeingRequested(x) => BeingRequested(x)'
    PROVE  OpenIsRouted'
<1>1. \A x : (BeingClosed(x)' <=> BeingClosed(x)) /\ (BeingEvicted(x)' <=> BeingEvicted(x))
  BY DEF BeingClosed, BeingEvicted
<1>2. \A x \in Keys : Live(x)' => Live(x)
  BY <1>1 DEF Live
<1> QED
  BY <1>2, StillRouted

\* A REQ task is at work on its subscription until it has registered it.
LEMMA MovesOn ==
    ASSUME LifeTypeOK, NEW k \in Tasks, req[k].pc # "idle",
           NEW p \in {"check", "access", "unregister", "register", "retain", "history"}, GoTo(k, p)
    PROVE  /\ p \in {"check", "access", "unregister", "register"} =>
                  \A x : x = Key(k) => BeingRequested(x)'
           /\ \A x : x # Key(k) => (BeingRequested(x)' <=> BeingRequested(x))
           /\ req[k].pc \in {"retain", "history"} =>
                  \A x : BeingRequested(x) => BeingRequested(x)'
<1>1. \A j \in Tasks : /\ Key(j)' = Key(j)
                       /\ req'[j].pc = IF j = k THEN p ELSE req[j].pc
  BY GoToKeeps
<1>2. \A x : BeingRequested(x)' <=>
          \E j \in Tasks : req'[j].pc \in {"check", "access", "unregister", "register"} /\ Key(j) = x
  BY <1>1 DEF BeingRequested
<1> QED
  BY <1>1, <1>2 DEF BeingRequested

\* register_scoped, in its two lock sections.
LEMMA RegisterVerdict ==
    ASSUME LifeTypeOK, OpenIsRouted, NEW k \in Tasks, ReqUnregister(k) \/ ReqRegister(k)
    PROVE  OpenIsRouted'
<1>1. /\ req[k].pc # "idle" /\ UNCHANGED <<phase, recv, evict, view>>
  BY DEF ReqUnregister, ReqRegister
<1>2. Key(k) \in Keys /\ req[k].topic \in Topics
  BY <1>1, ReqAtWork DEF LifeTypeOK
<1>3. PICK p \in {"register", "retain"} :
         /\ GoTo(k, p)
         /\ p = "retain" => registry'[Key(k)] # NoTopic
  BY <1>2, PubSubAssumption DEF ReqUnregister, ReqRegister, LifeTypeOK, PubSubAssumption
<1>4. \A x \in Keys : x # Key(k) => registry'[x] = registry[x]
  BY <1>2 DEF ReqUnregister, ReqRegister, LifeTypeOK
<1>5. /\ p = "register" => \A x : x = Key(k) => BeingRequested(x)'
      /\ \A x : x # Key(k) => (BeingRequested(x)' <=> BeingRequested(x))
  BY <1>1, <1>3, MovesOn
<1>6. \A x : (BeingClosed(x)' <=> BeingClosed(x)) /\ (BeingEvicted(x)' <=> BeingEvicted(x))
  BY <1>1 DEF BeingClosed, BeingEvicted
<1>7. ASSUME NEW x \in Keys
      PROVE  registry'[x] # NoTopic \/ ~Live(x)' \/ (registry'[x] = registry[x] /\ Live(x))
  <2>1. CASE x = Key(k)
    BY <2>1, <1>3, <1>5 DEF Live
  <2>2. CASE x # Key(k)
    BY <2>2, <1>1, <1>4, <1>5, <1>6 DEF Live
  <2> QED
    BY <2>1, <2>2
<1> QED
  BY <1>7, StillRouted

\* The end of a REQ task: an early return, or EOSE.
LEMMA ReturnVerdict ==
    ASSUME LifeTypeOK, OpenIsRouted, NEW k \in Tasks, ReqReturn(k) \/ ReqEose(k)
    PROVE  OpenIsRouted'
<1>1. /\ req[k].pc # "idle" /\ UNCHANGED <<phase, recv, evict, registry>>
      /\ req' = [req EXCEPT ![k] = NoReq]
  BY DEF ReqReturn, ReqEose
<1>2. Key(k) \in Keys
  BY <1>1, ReqAtWork DEF LifeTypeOK
<1>3. \A j \in Tasks : j # k => req'[j] = req[j] /\ Key(j)' = Key(j)
  BY <1>1 DEF LifeTypeOK, Key
<1>4. /\ \A x \in Keys : x # Key(k) => view'[x] = view[x]
      /\ phase[Key(k)[1]] = "open" =>
            \/ view'[Key(k)] = "ended"
            \/ /\ req[k].pc = "history"
               /\ view'[Key(k)] \in {"requested", "open"} => view[Key(k)] \in {"requested", "open"}
  BY <1>2 DEF ReqReturn, ReqEose, Tell, LifeTypeOK
<1>5. \A x : (BeingClosed(x)' <=> BeingClosed(x)) /\ (BeingEvicted(x)' <=> BeingEvicted(x))
  BY <1>1 DEF BeingClosed, BeingEvicted
<1>6. \A x : x # Key(k) \/ req[k].pc = "history" => (BeingRequested(x) => BeingRequested(x)')
  BY <1>3 DEF BeingRequested
<1>7. ASSUME NEW x \in Keys, Live(x)' PROVE Live(x)
  <2>1. CASE x # Key(k)
    BY <1>7, <2>1, <1>1, <1>4, <1>5, <1>6 DEF Live
  <2>2. CASE x = Key(k)
    BY <1>7, <2>2, <1>1, <1>4, <1>5, <1>6 DEF Live
  <2> QED
    BY <2>1, <2>2
<1> QED
  BY <1>1, <1>7, StillRouted

\* The frames of a client, whatever tasks are still at work on its earlier ones.
LEMMA FrameVerdict ==
    ASSUME LifeTypeOK, OpenIsRouted, NEW x \in Keys,
           \/ \E t \in Topics, k \in Tasks : SpawnReq(x, t, k)
           \/ RefuseFrame(x) \/ CloseUnmap(x)
    PROVE  OpenIsRouted'
<1>1. recv[x[1]] = NoClose /\ UNCHANGED <<phase, registry, evict>>
  BY DEF SpawnReq, RefuseFrame, CloseUnmap, MaySend
<1>2. x[1] \in Conns /\ x[2] \in SubIds /\ x = <<x[1], x[2]>>
  BY KeyParts
<1>3. \A y : BeingEvicted(y)' <=> BeingEvicted(y)
  BY <1>1 DEF BeingEvicted
<1>4. CASE \E t \in Topics, k \in Tasks : SpawnReq(x, t, k)
  <2> PICK t \in Topics, k \in Tasks : SpawnReq(x, t, k)
    BY <1>4
  <2>1. /\ req[k] = NoReq /\ recv' = recv /\ view' = [view EXCEPT ![x] = "requested"]
        /\ req' = [req EXCEPT ![k] = [pc |-> "check", conn |-> x[1], sub |-> x[2], topic |-> t]]
    BY DEF SpawnReq
  <2>2. /\ req'[k].pc = "check" /\ Key(k)' = x
        /\ \A j \in Tasks : j # k => req'[j] = req[j] /\ Key(j)' = Key(j)
    BY <2>1, <1>2 DEF Key, LifeTypeOK
  <2>3. \A y \in Keys : y # x => view'[y] = view[y]
    BY <2>1 DEF LifeTypeOK
  <2>4. \A y : BeingClosed(y)' <=> BeingClosed(y)
    BY <2>1 DEF BeingClosed
  <2>5. BeingRequested(x)'
    BY <2>2 DEF BeingRequested
  <2>6. req[k].pc = "idle"
    BY <2>1 DEF NoReq
  <2>7. \A y : BeingRequested(y) => BeingRequested(y)'
    BY <2>2, <2>6 DEF BeingRequested
  <2>8. \A y \in Keys : Live(y)' => Live(y)
    BY <1>1, <1>3, <2>3, <2>4, <2>5, <2>7 DEF Live
  <2> QED
    BY <1>1, <2>8, StillRouted
<1>5. CASE RefuseFrame(x)
  <2>1. /\ UNCHANGED <<req, recv>> /\ view'[x] = "ended"
        /\ \A y \in Keys : y # x => view'[y] = view[y]
    BY <1>5 DEF RefuseFrame, LifeTypeOK
  <2>2. \A y : (BeingClosed(y)' <=> BeingClosed(y)) /\ (BeingRequested(y)' <=> BeingRequested(y))
    BY <2>1 DEF BeingClosed, BeingRequested, Key
  <2>3. \A y \in Keys : Live(y)' => Live(y)
    BY <1>1, <1>3, <2>1, <2>2 DEF Live
  <2> QED
    BY <1>1, <2>3, StillRouted
<1>6. CASE CloseUnmap(x)
  <2>1. /\ UNCHANGED <<req, view>>
        /\ recv' = [recv EXCEPT ![x[1]] = [pc |-> "unregister", sub |-> x[2]]]
    BY <1>6 DEF CloseUnmap
  <2>2. \A c \in Conns : c # x[1] => recv'[c] = recv[c]
    BY <2>1, <1>2 DEF LifeTypeOK
  <2>3. \A y : BeingRequested(y)' <=> BeingRequested(y)
    BY <2>1 DEF BeingRequested, Key
  <2>4. \A y \in Keys : BeingClosed(y) => BeingClosed(y)'
    BY <2>2, <1>1, KeyParts DEF BeingClosed
  <2>5. \A y \in Keys : Live(y)' => Live(y)
    BY <1>1, <1>3, <2>1, <2>3, <2>4 DEF Live
  <2> QED
    BY <1>1, <2>5, StillRouted
<1> QED
  BY <1>4, <1>5, <1>6

\* A CLOSE in the receive loop, after the connection's own map.
LEMMA CloseVerdict ==
    ASSUME LifeTypeOK, OpenIsRouted, NEW c \in Conns, CloseUnregister(c) \/ CloseAck(c)
    PROVE  OpenIsRouted'
<1> DEFINE x == <<c, recv[c].sub>>
<1>1. recv[c].pc # "idle" /\ UNCHANGED <<phase, req, evict>>
  BY DEF CloseUnregister, CloseAck
<1>2. x \in Keys /\ x[1] = c /\ x[2] = recv[c].sub
  BY <1>1, CloseAtWork DEF LifeTypeOK
<1>3. recv[c] \in CloseState
  BY <1>1 DEF NoClose, LifeTypeOK
<1>4. \A y : (BeingEvicted(y)' <=> BeingEvicted(y)) /\ (BeingRequested(y)' <=> BeingRequested(y))
  BY <1>1 DEF BeingEvicted, BeingRequested, Key
<1>5. CASE CloseUnregister(c)
  <2>1. /\ view' = view /\ recv' = [recv EXCEPT ![c].pc = "ack"]
        /\ registry' = [registry EXCEPT ![x] = NoTopic]
    BY <1>5 DEF CloseUnregister
  <2>2. \A y \in Keys : y # x => registry'[y] = registry[y]
    BY <2>1, <1>2 DEF LifeTypeOK
  <2>3. /\ recv'[c].sub = recv[c].sub /\ recv'[c].pc = "ack"
        /\ \A d \in Conns : d # c => recv'[d] = recv[d]
    BY <2>1, <1>3 DEF LifeTypeOK, CloseState
  <2>4. recv'[c] # NoClose
    BY <2>3 DEF NoClose
  <2>5. \A y \in Keys : BeingClosed(y) => BeingClosed(y)'
    BY <2>3, <2>4, <1>3, KeyParts DEF BeingClosed
  <2>6. \A y \in Keys : y = x => BeingClosed(y)'
    BY <2>3, <2>4, <1>2 DEF BeingClosed
  <2> HIDE DEF x
  <2>7. \A y \in Keys : Live(y)' => y # x /\ Live(y)
    BY <1>1, <1>4, <2>1, <2>5, <2>6 DEF Live
  <2> QED
    BY <2>2, <2>7, StillRouted
<1>6. CASE CloseAck(c)
  <2>1. /\ registry' = registry /\ recv' = [recv EXCEPT ![c] = NoClose] /\ Tell(x, "closed")
    BY <1>6 DEF CloseAck
  <2>2. \A d \in Conns : d # c => recv'[d] = recv[d]
    BY <2>1 DEF LifeTypeOK
  <2>3. /\ phase[x[1]] = "open" => view'[x] = "closed"
        /\ \A y \in Keys : y # x => view'[y] = view[y]
    BY <2>1, <1>2 DEF Tell, LifeTypeOK
  <2>4. \A y \in Keys : y # x /\ BeingClosed(y) => BeingClosed(y)'
    <3> SUFFICES ASSUME NEW y \in Keys, y # x, BeingClosed(y)
                 PROVE  BeingClosed(y)'
      OBVIOUS
    <3>1. y[1] \in Conns /\ y = <<y[1], y[2]>>
      BY KeyParts
    <3>2. y[1] # c
      BY <3>1 DEF BeingClosed
    <3> QED
      BY <3>1, <3>2, <2>2 DEF BeingClosed
  <2> HIDE DEF x
  <2>5. \A y \in Keys : Live(y)' => Live(y)
    BY <1>1, <1>4, <2>3, <2>4 DEF Live
  <2> QED
    BY <2>1, <2>5, StillRouted
<1> QED
  BY <1>5, <1>6

\* The end of a connection: nothing it was told is promised any longer.
LEMMA HangUpVerdict ==
    ASSUME LifeTypeOK, OpenIsRouted, NEW c \in Conns,
           LeaveLoop(c) \/ RemoveConnection(c) \/ Deregister(c)
    PROVE  OpenIsRouted'
<1>1. UNCHANGED <<req, recv, evict, view>>
  BY DEF LeaveLoop, RemoveConnection, Deregister
<1>2. /\ phase'[c] # "open" /\ \A d \in Conns : d # c => phase'[d] = phase[d]
      /\ \A x \in Keys : x[1] # c => registry'[x] = registry[x]
  BY DEF LeaveLoop, RemoveConnection, Deregister, LifeTypeOK
<1>3. \A y : /\ BeingClosed(y)' <=> BeingClosed(y)
             /\ BeingEvicted(y)' <=> BeingEvicted(y)
             /\ BeingRequested(y)' <=> BeingRequested(y)
  BY <1>1 DEF BeingClosed, BeingEvicted, BeingRequested, Key
<1>4. \A x \in Keys : Live(x)' => Live(x) /\ registry'[x] = registry[x]
  BY <1>1, <1>2, <1>3, KeyParts DEF Live
<1> QED
  BY <1>4, StillRouted

\* An eviction: what it takes out of the registry is noted until the client is told.
LEMMA EvictVerdict ==
    ASSUME LifeTypeOK, OpenIsRouted, NEW e \in Evictors,
           \/ \E c \in Conns, t \in Channels : EvictCollect(e, c, t)
           \/ EvictTask(e)
    PROVE  OpenIsRouted'
<1>1. UNCHANGED <<phase, req, recv>>
  BY DEF EvictCollect, EvictTask, EvictRemove, EvictRelease, EvictUnmap, EvictDone
<1>2. \A y : (BeingClosed(y)' <=> BeingClosed(y)) /\ (BeingRequested(y)' <=> BeingRequested(y))
  BY <1>1 DEF BeingClosed, BeingRequested, Key
\* Registry and verdicts change only where the eviction is noted or told.
<1>4. SUFFICES
        /\ \A x \in Keys : registry'[x] \in {registry[x], NoTopic}
        /\ \A x \in Keys : view'[x] \in {view[x], "ended"}
        /\ \A x \in Keys : registry[x] # NoTopic /\ registry'[x] = NoTopic => BeingEvicted(x)'
        /\ \A x \in Keys : BeingEvicted(x) /\ phase[x[1]] = "open"
                               => BeingEvicted(x)' \/ view'[x] = "ended"
  <2>1. \A x \in Keys : Live(x)' => Live(x)
    BY <1>1, <1>2, <1>4 DEF Live
  <2>2. \A x \in Keys : Live(x)' => ~BeingEvicted(x)'
    BY DEF Live
  <2> QED
    BY <2>1, <2>2, <1>4, StillRouted DEF OpenIsRouted, Live
<1>5. CASE \E c \in Conns, t \in Channels : EvictCollect(e, c, t)
  <2>1. UNCHANGED <<registry, view>> /\ evict[e] = NoEvict
        /\ \A f \in Evictors : f # e => evict'[f] = evict[f]
    BY <1>5 DEF EvictCollect, LifeTypeOK
  <2>2. \A x : BeingEvicted(x) => BeingEvicted(x)'
    BY <2>1 DEF BeingEvicted
  <2> QED
    BY <2>1, <2>2
<1>6. CASE EvictUnmap(e) \/ EvictDone(e)
  <2>1. UNCHANGED <<registry, view>> /\ \A f \in Evictors : f # e => evict'[f] = evict[f]
    BY <1>6 DEF EvictUnmap, EvictDone, LifeTypeOK
  <2>2. evict[e].pc # "idle"
    BY <1>6 DEF EvictUnmap, EvictDone
  <2>3. evict[e] \in EvictState
    BY <2>2, EvictAtWork DEF LifeTypeOK
  <2>4. \/ evict[e].got = {}
        \/ evict'[e] # NoEvict /\ evict'[e].conn = evict[e].conn /\ evict'[e].got = evict[e].got
    <3>1. CASE EvictDone(e)
      BY <3>1 DEF EvictDone
    <3>2. CASE EvictUnmap(e)
      <4>1. evict'[e] = [evict[e] EXCEPT !.pc = "release"]
        BY <3>2 DEF EvictUnmap, LifeTypeOK
      <4>2. evict'[e].pc = "release" /\ evict'[e].conn = evict[e].conn /\ evict'[e].got = evict[e].got
        BY <4>1, <2>3 DEF EvictState
      <4>3. evict'[e] # NoEvict
        BY <4>2 DEF NoEvict
      <4> QED
        BY <4>2, <4>3
    <3> QED
      BY <1>6, <3>1, <3>2
  <2>5. \A x : BeingEvicted(x) => BeingEvicted(x)'
    BY <2>1, <2>4 DEF BeingEvicted
  <2> QED
    BY <2>1, <2>5
<1>7. CASE \E s \in SubIds : EvictRemove(e, s)
  <2> PICK s \in SubIds : EvictRemove(e, s)
    BY <1>7
  <2> DEFINE x == <<evict[e].conn, s>>
             G == IF registry[x] = NoTopic THEN evict[e].got ELSE evict[e].got \cup {s}
  <2>1. evict[e] \in EvictState /\ x \in Keys
    BY EvictAtWork DEF EvictRemove, LifeTypeOK
  <2>2. /\ view' = view /\ registry' = [registry EXCEPT ![x] = NoTopic]
        /\ evict' = [evict EXCEPT ![e] = [evict[e] EXCEPT !.todo = evict[e].todo \ {s}, !.got = G]]
    BY DEF EvictRemove
  <2>3. \A f \in Evictors : f # e => evict'[f] = evict[f]
    BY <2>2 DEF LifeTypeOK
  <2>4. /\ evict'[e].pc = evict[e].pc /\ evict'[e].conn = evict[e].conn /\ evict'[e].got = G
    BY <2>1, <2>2 DEF LifeTypeOK, EvictState
  <2>5. evict'[e] # NoEvict
    <3>1. evict[e].pc = "remove"
      BY DEF EvictRemove
    <3> QED
      BY <2>4, <3>1 DEF NoEvict
  <2>6. \A y : BeingEvicted(y) => BeingEvicted(y)'
    BY <2>3, <2>4, <2>5 DEF BeingEvicted
  <2>8. \A y \in Keys : y # x => registry'[y] = registry[y]
    BY <2>2 DEF LifeTypeOK
  <2>9. registry'[x] = NoTopic
    BY <2>1, <2>2 DEF LifeTypeOK
  <2> HIDE DEF x
  <2>10. \A y \in Keys : registry[y] # NoTopic /\ registry'[y] = NoTopic => BeingEvicted(y)'
    <3> SUFFICES ASSUME NEW y \in Keys, registry[y] # NoTopic, registry'[y] = NoTopic
                 PROVE  BeingEvicted(y)'
      OBVIOUS
    <3>1. y = x
      BY <2>8
    <3>2. y[1] = evict'[e].conn /\ y[2] = s /\ s \in evict'[e].got
      BY <3>1, <2>4 DEF x
    <3> QED
      BY <3>2, <2>5 DEF BeingEvicted
  <2> QED
    BY <2>2, <2>6, <2>8, <2>9, <2>10
<1>8. CASE \E s \in SubIds : EvictRelease(e, s)
  <2> PICK s \in SubIds : EvictRelease(e, s)
    BY <1>8
  <2> DEFINE x == <<evict[e].conn, s>>
  <2>1. evict[e] \in EvictState /\ x \in Keys
    BY EvictAtWork DEF EvictRelease, LifeTypeOK
  <2>2. /\ registry' = registry /\ Tell(x, "ended")
        /\ evict' = [evict EXCEPT ![e] = [evict[e] EXCEPT !.got = evict[e].got \ {s}]]
    BY DEF EvictRelease
  <2>3. \A f \in Evictors : f # e => evict'[f] = evict[f]
    BY <2>2 DEF LifeTypeOK
  <2>4. /\ evict'[e].pc = evict[e].pc /\ evict'[e].conn = evict[e].conn
        /\ evict'[e].got = evict[e].got \ {s}
    BY <2>1, <2>2 DEF LifeTypeOK, EvictState
  <2>5. evict'[e] # NoEvict
    BY <2>4 DEF NoEvict, EvictRelease
  <2>6. \A y \in Keys : BeingEvicted(y) => BeingEvicted(y)' \/ y = x
    BY <2>3, <2>4, <2>5, KeyParts DEF BeingEvicted
  <2>7. /\ phase[x[1]] = "open" => view'[x] = "ended"
        /\ \A y \in Keys : view'[y] \in {view[y], "ended"}
    BY <2>1, <2>2 DEF Tell, LifeTypeOK
  <2> HIDE DEF x
  <2> QED
    BY <2>2, <2>6, <2>7
<1> QED
  BY <1>5, <1>6, <1>7, <1>8 DEF EvictTask

\* Every step of a handler, a receive loop, a cleanup or an eviction keeps the verdicts true.
LEMMA VerdictStep ==
    ASSUME LifeTypeOK, OpenIsRouted, [LifeNext]_allVars
    PROVE  OpenIsRouted'
<1>1. CASE \E k \in Tasks : ReqCheck(k) \/ ReqInsert(k) \/ ReqRetain(k)
  <2> PICK k \in Tasks : ReqCheck(k) \/ ReqInsert(k) \/ ReqRetain(k)
    BY <1>1
  <2>1. PICK p \in {"access", "unregister", "history"} :
           /\ GoTo(k, p) /\ req[k].pc # "idle"
           /\ p = "history" => req[k].pc = "retain"
    BY DEF ReqCheck, ReqInsert, ReqRetain
  <2>2. UNCHANGED <<phase, registry, recv, evict, view>>
    BY DEF ReqCheck, ReqInsert, ReqRetain
  <2>3. /\ p # "history" => \A x : x = Key(k) => BeingRequested(x)'
        /\ \A x : x # Key(k) => (BeingRequested(x)' <=> BeingRequested(x))
        /\ p = "history" => \A x : BeingRequested(x) => BeingRequested(x)'
    BY <2>1, MovesOn
  <2>4. \A x \in Keys : BeingRequested(x) => BeingRequested(x)'
    BY <2>3
  <2> QED
    BY <2>2, <2>4, QuietStep
<1>2. CASE UNCHANGED <<phase, registry, recv, evict, view, req>>
  <2>1. \A x : BeingRequested(x)' <=> BeingRequested(x)
    BY <1>2 DEF BeingRequested, Key
  <2> QED
    BY <1>2, <2>1, QuietStep
<1>3. \/ \E k \in Tasks : ReqRelease(k) \/ ReqSend(k)
      \/ \E c \in Conns : CloseRelease(c)
      \/ \E x \in Keys : CleanupRelease(x)
      \/ PubSubStep \/ UNCHANGED allVars
      => UNCHANGED <<phase, registry, recv, evict, view, req>>
  BY DEF ReqRelease, ReqSend, CloseRelease, CleanupRelease, PubSubStep, allVars, lifeVars
<1>4. \A c \in Conns, s \in SubIds : <<c, s>> \in Keys
  BY KeyParts
<1>5. CASE Environment
  BY <1>5, FrameVerdict, HangUpVerdict, EvictVerdict DEF Environment
<1>6. CASE \E k \in Tasks : ReqTask(k)
  BY <1>6, <1>1, <1>2, <1>3, RegisterVerdict, ReturnVerdict DEF ReqTask
<1>7. CASE \E c \in Conns : RecvLoop(c) \/ Cleanup(c)
  BY <1>7, <1>2, <1>3, <1>4, CloseVerdict, HangUpVerdict DEF RecvLoop, Cleanup
<1>8. CASE \E e \in Evictors : EvictTask(e)
  BY <1>8, EvictVerdict
<1> QED
  BY <1>2, <1>3, <1>5, <1>6, <1>7, <1>8 DEF LifeNext, Handling

\* From its REQ to the CLOSE, the CLOSED or the hang-up, a subscription is routed
\* once its REQ tasks have registered, however REQs, CLOSEs, evictions and
\* cleanups interleave, of one id as of several.
THEOREM OpenRouted == LifeSpec => []OpenIsRouted
<1>1. LifeInit => OpenIsRouted
  BY DEF LifeInit, OpenIsRouted
<1>2. LifeTypeOK /\ OpenIsRouted /\ [LifeNext]_allVars => OpenIsRouted'
  BY VerdictStep
<1>3. LifeSpec => LifeInit /\ [][LifeNext]_allVars
  BY DEF LifeSpec
<1> QED
  BY <1>1, <1>2, <1>3, LifeTypeCorrect, PTL

-----------------------------------------------------------------------------
(* The subscription limit.                                                 *)
(*                                                                         *)
(* SubscriptionLimit is not inductive: REQ tasks that have passed the      *)
(* check will insert without another look.  Counting their subscriptions   *)
(* with the mapped ones gives the invariant: the task that passes finds    *)
(* fewer than MaxSubs mapped, and the others ahead of it are fewer than    *)
(* the permits.                                                            *)

Mapped(c)   == {x \in mapped : x[1] = c}
Admitted(c) == {k \in Tasks : req[k].pc = "access" /\ req[k].conn = c}
Claimed(c)  == Mapped(c) \cup {Key(k) : k \in Admitted(c)}

LimitInv == \A c \in Conns : Cardinality(Claimed(c)) <= MaxSubs + Cardinality(Tasks) - 1

\* What is claimed are subscriptions, finitely many.
LEMMA ClaimedFinite ==
    ASSUME LifeTypeOK, NEW c
    PROVE  /\ Claimed(c) \in SUBSET Keys /\ Mapped(c) \in SUBSET Keys
           /\ \A S \in SUBSET Claimed(c) : Cardinality(S) <= Cardinality(Claimed(c))
<1>1. \A k \in Admitted(c) : k \in Tasks /\ Key(k) \in Keys
  BY ReqAtWork DEF LifeTypeOK, Admitted
<1>2. Claimed(c) \in SUBSET Keys /\ Mapped(c) \in SUBSET Keys
  BY <1>1 DEF Claimed, Mapped, LifeTypeOK
<1>3. IsFiniteSet(Claimed(c))
  BY <1>2, FiniteParts
<1> QED
  BY <1>2, <1>3, FS_Subset

\* There are no more subscriptions of admitted REQs than permits.
LEMMA AdmittedBound ==
    ASSUME LifeTypeOK, NEW S, NEW P \in SUBSET Tasks, S = {Key(k) : k \in P}
    PROVE  IsFiniteSet(S) /\ Cardinality(S) <= Cardinality(Tasks)
<1> DEFINE f == [k \in P |-> Key(k)]
<1>1. IsFiniteSet(P) /\ IsFiniteSet(Tasks) /\ Cardinality(P) \in Nat /\ Cardinality(Tasks) \in Nat
  BY FiniteParts
<1>2. Cardinality(P) <= Cardinality(Tasks)
  BY <1>1, FS_Subset
<1>3. f \in Surjection(P, S)
  BY DEF Surjection
<1>4. IsFiniteSet(S) /\ Cardinality(S) <= Cardinality(P)
  BY <1>1, <1>3, FS_Surjection
<1>5. Cardinality(S) \in Nat
  BY <1>4, FS_CardinalityType
<1> QED
  BY <1>1, <1>2, <1>4, <1>5

\* The check of handle_req, under the lock of the connection's map.
LEMMA LimitCheck ==
    ASSUME LifeTypeOK, LifeTypeOK', LimitInv, NEW k \in Tasks, ReqCheck(k), NEW c \in Conns
    PROVE  Cardinality(Claimed(c)') <= MaxSubs + Cardinality(Tasks) - 1
<1> USE SubscriptionsAssumption
<1>1. /\ req[k].pc # "idle" /\ GoTo(k, "access") /\ mapped' = mapped /\ ~AtLimit(Key(k))
  BY DEF ReqCheck
<1>2. \A j \in Tasks : /\ Key(j)' = Key(j)
                       /\ req'[j].pc = IF j = k THEN "access" ELSE req[j].pc
  BY <1>1, GoToKeeps
<1>3. \A j \in Tasks : req'[j].conn = req[j].conn
  BY <1>1, GoToKeeps
<1>4. Admitted(c)' = Admitted(c) \cup (IF req[k].conn = c THEN {k} ELSE {})
  BY <1>2, <1>3 DEF Admitted
<1>5. Mapped(c)' = Mapped(c)
  BY <1>1 DEF Mapped
<1>6. Claimed(c)' = Claimed(c) \cup (IF req[k].conn = c THEN {Key(k)} ELSE {})
  <2>1. Claimed(c)' = Mapped(c)' \cup {Key(j)' : j \in Admitted(c)'}
    BY DEF Claimed
  <2>2. {Key(j)' : j \in Admitted(c)'} = {Key(j) : j \in Admitted(c)'}
    BY <1>2 DEF Admitted
  <2>3. {Key(j) : j \in Admitted(c)'} =
            {Key(j) : j \in Admitted(c)} \cup (IF req[k].conn = c THEN {Key(k)} ELSE {})
    BY <1>4
  <2> QED
    BY <2>1, <2>2, <2>3, <1>5 DEF Claimed
<1>7. CASE Claimed(c)' = Claimed(c)
  BY <1>7 DEF LimitInv
<1>8. CASE Claimed(c)' # Claimed(c)
  <2>1. req[k].conn = c /\ Key(k) \notin Claimed(c)
    BY <1>6, <1>8
  <2>2. Key(k)[1] = c /\ Key(k) \notin mapped
    BY <2>1 DEF Key, Claimed, Mapped
  <2>3. Mapped(c) = {y \in mapped : y[1] = Key(k)[1]}
    BY <2>2 DEF Mapped
  <2>4. ~(Cardinality(Mapped(c)) >= MaxSubs)
    BY <1>1, <2>2, <2>3 DEF AtLimit
  <2>5. Mapped(c) \in SUBSET Keys
    BY ClaimedFinite
  <2>6. IsFiniteSet(Mapped(c)) /\ Cardinality(Mapped(c)) \in Nat
    BY <2>5, FiniteParts
  <2> DEFINE P == Admitted(c)'
             S == {Key(j) : j \in P}
  <2>7. P \in SUBSET Tasks
    BY DEF Admitted
  <2>8. IsFiniteSet(S) /\ Cardinality(S) <= Cardinality(Tasks)
    BY <2>7, AdmittedBound
  <2>9. Claimed(c)' = Mapped(c) \cup S
    <3>1. Claimed(c)' = Mapped(c)' \cup {Key(j)' : j \in Admitted(c)'}
      BY DEF Claimed
    <3>2. {Key(j)' : j \in Admitted(c)'} = S
      BY <1>2 DEF Admitted
    <3> QED
      BY <3>1, <3>2, <1>5
  <2> HIDE DEF P, S
  <2>10. /\ Cardinality(Mapped(c) \cup S)
              = Cardinality(Mapped(c)) + Cardinality(S) - Cardinality(Mapped(c) \cap S)
         /\ Cardinality(Mapped(c) \cap S) \in Nat /\ Cardinality(S) \in Nat
    BY <2>6, <2>8, FS_Union, FS_Intersection, FS_CardinalityType
  <2>11. Cardinality(Tasks) \in Nat
    BY FS_CardinalityType
  <2> QED
    BY <2>4, <2>6, <2>8, <2>9, <2>10, <2>11
<1> QED
  BY <1>7, <1>8

\* No other step claims anything that was not claimed before.
LEMMA LimitStep ==
    ASSUME LifeTypeOK, LifeTypeOK', LimitInv, [LifeNext]_allVars
    PROVE  LimitInv'
<1> SUFFICES ASSUME NEW c \in Conns
             PROVE  Cardinality(Claimed(c)') <= MaxSubs + Cardinality(Tasks) - 1
  BY DEF LimitInv
<1>1. CASE \E k \in Tasks : ReqCheck(k)
  BY <1>1, LimitCheck
<1>2. CASE ~\E k \in Tasks : ReqCheck(k)
  <2>1. SUFFICES Claimed(c)' \subseteq Claimed(c)
    <3>1. Claimed(c)' \in SUBSET Keys /\ Claimed(c) \in SUBSET Keys
      BY <2>1, ClaimedFinite
    <3>2. Cardinality(Claimed(c)') <= Cardinality(Claimed(c))
      BY <2>1, ClaimedFinite
    <3>3. /\ Cardinality(Claimed(c)') \in Nat /\ Cardinality(Claimed(c)) \in Nat
          /\ Cardinality(Tasks) \in Nat /\ MaxSubs \in Nat
      BY <3>1, FiniteParts, SubscriptionsAssumption DEF SubscriptionsAssumption
    <3>4. Cardinality(Claimed(c)) <= MaxSubs + Cardinality(Tasks) - 1
      BY DEF LimitInv
    <3> QED
      BY <3>2, <3>3, <3>4
  \* A REQ task that was not admitted before is not admitted by the step.
  <2>2. ASSUME mapped' \subseteq mapped,
               \A k \in Tasks : req'[k].pc = "access" =>
                   req[k].pc = "access" /\ req'[k].conn = req[k].conn /\ Key(k)' = Key(k)
        PROVE  Claimed(c)' \subseteq Claimed(c)
    <3> SUFFICES ASSUME NEW x \in Claimed(c)' PROVE x \in Claimed(c)
      OBVIOUS
    <3>1. CASE x \in Mapped(c)'
      BY <3>1, <2>2 DEF Mapped, Claimed
    <3>2. CASE x \notin Mapped(c)'
      <4>1. PICK k \in Admitted(c)' : x = Key(k)'
        BY <3>2 DEF Claimed
      <4>2. k \in Admitted(c) /\ x = Key(k)
        BY <4>1, <2>2 DEF Admitted
      <4> QED
        BY <4>2 DEF Claimed
    <3> QED
      BY <3>1, <3>2
  <2>3. CASE \E k \in Tasks : ReqInsert(k)
    <3> PICK k \in Tasks : ReqInsert(k)
      BY <2>3
    <3>1. /\ req[k].pc = "access" /\ GoTo(k, "unregister") /\ mapped' = mapped \cup {Key(k)}
      BY DEF ReqInsert
    <3>2. \A j \in Tasks : /\ Key(j)' = Key(j)
                           /\ req'[j].pc = IF j = k THEN "unregister" ELSE req[j].pc
      BY <3>1, GoToKeeps
    <3>3. \A j \in Tasks : req'[j].conn = req[j].conn
      BY <3>1, GoToKeeps
    <3> SUFFICES ASSUME NEW x \in Claimed(c)' PROVE x \in Claimed(c)
      OBVIOUS
    <3>4. CASE x = Key(k) /\ x[1] = c
      BY <3>1, <3>4 DEF Claimed, Admitted, Key
    <3>5. CASE x \in mapped /\ x[1] = c
      BY <3>5 DEF Claimed, Mapped
    <3>6. CASE x \notin Mapped(c)'
      <4>1. PICK j \in Admitted(c)' : x = Key(j)'
        BY <3>6 DEF Claimed
      <4>2. j \in Admitted(c) /\ x = Key(j)
        BY <4>1, <3>2, <3>3 DEF Admitted
      <4> QED
        BY <4>2 DEF Claimed
    <3> QED
      BY <3>1, <3>4, <3>5, <3>6 DEF Mapped
  <2>4. CASE \E x \in Keys, t \in Topics, k \in Tasks : SpawnReq(x, t, k)
    <3> PICK x \in Keys, t \in Topics, k \in Tasks : SpawnReq(x, t, k)
      BY <2>4
    <3>1. /\ mapped' = mapped /\ req'[k].pc = "check"
          /\ \A j \in Tasks : j # k => req'[j] = req[j] /\ Key(j)' = Key(j)
      BY DEF SpawnReq, LifeTypeOK, Key
    <3> QED
      BY <3>1, <2>2
  <2>5. CASE \E k \in Tasks : ReqReturn(k) \/ ReqEose(k)
    <3> PICK k \in Tasks : ReqReturn(k) \/ ReqEose(k)
      BY <2>5
    <3>1. /\ mapped' = mapped /\ req' = [req EXCEPT ![k] = NoReq]
      BY DEF ReqReturn, ReqEose
    <3>2. /\ req'[k].pc = "idle"
          /\ \A j \in Tasks : j # k => req'[j] = req[j] /\ Key(j)' = Key(j)
      BY <3>1 DEF LifeTypeOK, Key, NoReq
    <3> QED
      BY <3>1, <3>2, <2>2
  <2>6. CASE \E k \in Tasks : ReqUnregister(k) \/ ReqRegister(k) \/ ReqRetain(k)
    <3> PICK k \in Tasks : ReqUnregister(k) \/ ReqRegister(k) \/ ReqRetain(k)
      BY <2>6
    <3>1. PICK p \in {"register", "retain", "history"} :
              req[k].pc # "idle" /\ GoTo(k, p) /\ mapped' = mapped
      BY DEF ReqUnregister, ReqRegister, ReqRetain
    <3>2. \A j \in Tasks : /\ Key(j)' = Key(j)
                           /\ req'[j].pc = IF j = k THEN p ELSE req[j].pc
      BY <3>1, GoToKeeps
    <3>3. \A j \in Tasks : j # k => req'[j] = req[j]
      BY <3>1 DEF GoTo, LifeTypeOK
    <3> QED
      BY <3>1, <3>2, <3>3, <2>2
  <2>7. CASE req' = req /\ mapped' \subseteq mapped
    BY <2>7, <2>2 DEF Key
  <2>8. \/ PubSubStep \/ UNCHANGED allVars
        \/ \E k \in Tasks : ReqRelease(k) \/ ReqSend(k)
        => req' = req /\ mapped' \subseteq mapped
    BY DEF ReqRelease, ReqSend, PubSubStep, allVars, lifeVars
  <2>9. \/ \E x \in Keys : RefuseFrame(x) \/ CloseUnmap(x)
        \/ \E d \in Conns : LeaveLoop(d)
        \/ \E e \in Evictors, d \in Conns, t \in Channels : EvictCollect(e, d, t)
        => req' = req /\ mapped' \subseteq mapped
    BY DEF RefuseFrame, CloseUnmap, LeaveLoop, EvictCollect
  <2>10. (\E d \in Conns : RecvLoop(d) \/ Cleanup(d)) => req' = req /\ mapped' \subseteq mapped
    BY DEF RecvLoop, Cleanup, CloseUnregister, CloseRelease, CloseAck, RemoveConnection,
       CleanupRelease, Deregister
  <2>11. (\E e \in Evictors : EvictTask(e)) => req' = req /\ mapped' \subseteq mapped
    BY DEF EvictTask, EvictRemove, EvictRelease, EvictUnmap, EvictDone
  <2> QED
    BY <1>2, <2>3, <2>4, <2>5, <2>6, <2>7, <2>8, <2>9, <2>10, <2>11
       DEF LifeNext, Handling, Environment, ReqTask
<1> QED
  BY <1>1, <1>2

\* Nothing is mapped and nobody is admitted at first.
LEMMA LimitInit == LifeInit => LimitInv
<1> SUFFICES ASSUME LifeInit, NEW c \in Conns
             PROVE  Cardinality(Claimed(c)) <= MaxSubs + Cardinality(Tasks) - 1
  BY DEF LimitInv
<1>1. Mapped(c) = {} /\ Admitted(c) = {}
  BY DEF LifeInit, Mapped, Admitted, NoReq
<1>2. Claimed(c) = {}
  BY <1>1 DEF Claimed
<1>3. Cardinality(Tasks) \in Nat /\ MaxSubs \in Nat \ {0}
  BY SubscriptionsAssumption, FS_CardinalityType DEF SubscriptionsAssumption
<1> QED
  BY <1>2, <1>3, FS_EmptySet

\* However many REQs pass the check together, and whether or not clients
\* pipeline, a connection holds at most MAX_SUBSCRIPTIONS subscriptions and one
\* for each of the other permits of the handler semaphore.
THEOREM SubscriptionsBounded == LifeSpec => []SubscriptionLimit
<1>1. ASSUME LifeTypeOK, LimitInv PROVE SubscriptionLimit
  <2> SUFFICES ASSUME NEW c \in Conns
               PROVE  Cardinality({x \in mapped : x[1] = c}) <= MaxSubs + Cardinality(Tasks) - 1
    BY DEF SubscriptionLimit
  <2>1. Mapped(c) \in SUBSET Claimed(c)
    BY DEF Claimed
  <2>2. Claimed(c) \in SUBSET Keys /\ Mapped(c) \in SUBSET Keys
        /\ Cardinality(Mapped(c)) <= Cardinality(Claimed(c))
    BY <1>1, <2>1, ClaimedFinite
  <2>3. Cardinality(Mapped(c)) \in Nat /\ Cardinality(Claimed(c)) \in Nat /\ Cardinality(Tasks) \in Nat
        /\ MaxSubs \in Nat
    BY <2>2, FiniteParts, SubscriptionsAssumption DEF SubscriptionsAssumption
  <2>4. Cardinality(Claimed(c)) <= MaxSubs + Cardinality(Tasks) - 1
    BY <1>1 DEF LimitInv
  <2> QED
    BY <2>2, <2>3, <2>4 DEF Mapped
<1>2. LifeTypeOK /\ LifeTypeOK' /\ LimitInv /\ [LifeNext]_allVars => LimitInv'
  BY LimitStep
<1>3. LifeSpec => LifeInit /\ [][LifeNext]_allVars
  BY DEF LifeSpec
<1> QED
  BY <1>1, <1>2, <1>3, LifeTypeCorrect, LimitInit, PTL
=============================================================================
