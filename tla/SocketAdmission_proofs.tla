----------------------- MODULE SocketAdmission_proofs -----------------------
(***************************************************************************)
(* Archival admission and graceful drain, for any number of pods, sockets  *)
(* and communities.                                                        *)
(*                                                                         *)
(* AdmissionInvariant is not inductive: a sweep in progress has to be      *)
(* followed.  A running socket of an archived community is still on the    *)
(* list of every sweep of its pod that began in the present era, and no    *)
(* sweep carries an era that is yet to come.  DrainInvariant likewise      *)
(* needs the list of drain_all while it is being worked off.               *)
(***************************************************************************)
EXTENDS SocketAdmission, TLAPS

\* A sweep, finished or not, belongs to the present era or to an earlier one.
ErasPast ==
    /\ \A q \in Sweepers : Busy(q) => sweep[q].era <= era[sweep[q].community]
    /\ \A p \in Pods, c \in Communities : swept[<<p, c>>] <= era[c]

\* What a sweep of the present era has visited no longer runs.
SweepFinds ==
    \A s \in Sockets, q \in Sweepers :
        /\ Running(s) /\ ~Active(CommunityOf[s])
        /\ Busy(q) /\ q[2] = PodOf[s]
        /\ sweep[q].community = CommunityOf[s] /\ sweep[q].era = era[CommunityOf[s]]
        => s \in sweep[q].todo

\* What drain_all has visited, or what has read the flag, is told to close.
DrainFinds ==
    \A s \in entries :
        draining[PodOf[s]] /\ sock[s] # "flag" => s \in cancelled \cup drainTodo[PodOf[s]]

AdmInv == AdmTypeOK /\ ErasPast /\ SweepFinds /\ AdmissionInvariant /\ DrainFinds

\* No sweep is mistaken for another: the idle record has no community.
LEMMA NoSweepDistinct ==
    \A c, e, t : [community |-> c, era |-> e, todo |-> t] # NoSweep
<1>1. \A c, e, t : DOMAIN [community |-> c, era |-> e, todo |-> t] = {"community", "era", "todo"}
    OBVIOUS
<1>2. DOMAIN NoSweep = {"todo"}
    BY DEF NoSweep
<1> QED
    BY <1>1, <1>2

\* Initially nothing is registered, swept or drained.
LEMMA AdmInitInv == AdmInit => AdmInv
BY AdmissionAssumption DEF AdmInit, AdmInv, AdmTypeOK, ErasPast, SweepFinds, AdmissionInvariant,
    DrainFinds, Busy, Running, Active
-----------------------------------------------------------------------------
\* What every step of a socket's own handler leaves alone.
LEMMA HandlerFrame ==
    ASSUME NEW s \in Sockets, Register(s) \/ Handler(s) \/ EndLoop(s)
    PROVE  UNCHANGED <<era, podVars>>
BY DEF Handler, Register, Admit, Refuse, StopEarly, AcquirePermit, InsertEntry, CheckDraining,
    EndLoop, Deregister

\* A handler's step keeps the types and the contents of the two registries.
LEMMA HandlerType ==
    ASSUME NEW s \in Sockets, AdmTypeOK, Register(s) \/ Handler(s) \/ EndLoop(s)
    PROVE  AdmTypeOK'
<1> USE DEF AdmTypeOK, GoOn, Exit
<1>0. UNCHANGED <<era, podVars>>
    BY HandlerFrame
<1>1. /\ sock' \in [Sockets -> {"new", "check", "admitted", "insert", "flag", "live", "closing", "gone"}]
      /\ registered' = {r \in Sockets : sock'[r] \notin {"new", "gone"}}
      /\ entries' = {r \in Sockets : sock'[r] \in {"flag", "live", "closing"}}
      /\ cancelled' \in SUBSET Sockets
  <2>1. CASE Register(s)
      BY <2>1 DEF Register
  <2>2. CASE Admit(s)
      BY <2>2 DEF Admit
  <2>3. CASE Refuse(s)
      BY <2>3 DEF Refuse
  <2>4. CASE StopEarly(s)
      BY <2>4 DEF StopEarly
  <2>5. CASE AcquirePermit(s)
      BY <2>5 DEF AcquirePermit
  <2>6. CASE InsertEntry(s)
      BY <2>6 DEF InsertEntry
  <2>7. CASE CheckDraining(s)
      BY <2>7 DEF CheckDraining
  <2>8. CASE EndLoop(s)
      BY <2>8 DEF EndLoop
  <2>9. CASE Deregister(s)
      BY <2>9 DEF Deregister
  <2> QED
      BY <2>1, <2>2, <2>3, <2>4, <2>5, <2>6, <2>7, <2>8, <2>9 DEF Handler
<1> QED
    BY <1>0, <1>1 DEF podVars

\* A handler's step starts no socket of an archived community: the only step
\* that makes a socket run is Admit, which has just read the row.
LEMMA HandlerRunning ==
    ASSUME NEW s \in Sockets, AdmTypeOK, Register(s) \/ Handler(s) \/ EndLoop(s),
           NEW r \in Sockets, Running(r)'
    PROVE  Running(r) \/ Active(CommunityOf[r])'
<1> USE DEF AdmTypeOK, GoOn, Exit, Running
<1>0. UNCHANGED era
    BY HandlerFrame
<1>1. CASE Admit(s)
    BY <1>0, <1>1 DEF Admit, Active
<1>2. CASE Register(s)
    BY <1>2 DEF Register
<1>3. CASE Refuse(s)
    BY <1>3 DEF Refuse
<1>4. CASE StopEarly(s)
    BY <1>4 DEF StopEarly
<1>5. CASE AcquirePermit(s)
    BY <1>5 DEF AcquirePermit
<1>6. CASE InsertEntry(s)
    BY <1>6 DEF InsertEntry
<1>7. CASE CheckDraining(s)
    BY <1>7 DEF CheckDraining
<1>8. CASE EndLoop(s)
    BY <1>8 DEF EndLoop
<1>9. CASE Deregister(s)
    BY <1>9 DEF Deregister
<1> QED
    BY <1>1, <1>2, <1>3, <1>4, <1>5, <1>6, <1>7, <1>8, <1>9 DEF Handler

\* A handler's step respects the drain: a socket leaves "flag" only by reading it.
LEMMA HandlerDrain ==
    ASSUME NEW s \in Sockets, AdmTypeOK, DrainFinds, Register(s) \/ Handler(s) \/ EndLoop(s)
    PROVE  DrainFinds'
<1> USE DEF AdmTypeOK, GoOn, Exit, DrainFinds
<1>0. UNCHANGED <<draining, drainTodo>>
    BY HandlerFrame DEF podVars
<1>1. CASE Register(s)
    BY <1>0, <1>1 DEF Register
<1>2. CASE Admit(s)
    BY <1>0, <1>2 DEF Admit
<1>3. CASE Refuse(s)
    BY <1>0, <1>3 DEF Refuse
<1>4. CASE StopEarly(s)
    BY <1>0, <1>4 DEF StopEarly
<1>5. CASE AcquirePermit(s)
    BY <1>0, <1>5 DEF AcquirePermit
<1>6. CASE InsertEntry(s)
    BY <1>0, <1>6 DEF InsertEntry
<1>7. CASE CheckDraining(s)
    BY <1>0, <1>7 DEF CheckDraining
<1>8. CASE EndLoop(s)
    BY <1>0, <1>8 DEF EndLoop
<1>9. CASE Deregister(s)
    BY <1>0, <1>9 DEF Deregister
<1> QED
    BY <1>1, <1>2, <1>3, <1>4, <1>5, <1>6, <1>7, <1>8, <1>9 DEF Handler

-----------------------------------------------------------------------------
\* A step of a socket's own handler preserves the invariant.
LEMMA HandlerStep ==
    ASSUME NEW s \in Sockets, AdmInv, Register(s) \/ Handler(s) \/ EndLoop(s)
    PROVE  AdmInv'
<1>0. AdmTypeOK /\ ErasPast /\ SweepFinds /\ AdmissionInvariant /\ DrainFinds
    BY DEF AdmInv
<1>1. UNCHANGED <<era, podVars>>
    BY HandlerFrame
<1>2. AdmTypeOK'
    BY <1>0, HandlerType
<1>3. DrainFinds'
    BY <1>0, HandlerDrain
<1>4. ErasPast'
    BY <1>0, <1>1 DEF ErasPast, Busy, podVars
<1>5. \A r \in Sockets : Running(r)' => Running(r) \/ Active(CommunityOf[r])'
    BY <1>0, HandlerRunning
<1>6. \A c \in Communities : Active(c)' = Active(c)
    BY <1>1 DEF Active
<1>7. SweepFinds'
  <2> SUFFICES ASSUME NEW r \in Sockets, NEW q \in Sweepers,
                      Running(r)', ~Active(CommunityOf[r])', Busy(q)', q[2] = PodOf[r],
                      sweep'[q].community = CommunityOf[r], sweep'[q].era = era'[CommunityOf[r]]
               PROVE  r \in sweep'[q].todo
      BY DEF SweepFinds
  <2>1. Running(r) /\ ~Active(CommunityOf[r])
      BY <1>5, <1>6, AdmissionAssumption
  <2> QED
      BY <1>0, <1>1, <2>1 DEF SweepFinds, Busy, podVars
<1>8. AdmissionInvariant'
  <2> SUFFICES ASSUME NEW r \in Sockets, ~Active(CommunityOf[r])',
                      swept'[<<PodOf[r], CommunityOf[r]>>] = era'[CommunityOf[r]], Running(r)'
               PROVE  FALSE
      BY DEF AdmissionInvariant
  <2>1. Running(r) /\ ~Active(CommunityOf[r])
      BY <1>5, <1>6, AdmissionAssumption
  <2> QED
      BY <1>0, <1>1, <2>1 DEF AdmissionInvariant, podVars
<1> QED
    BY <1>2, <1>3, <1>4, <1>7, <1>8 DEF AdmInv

\* A step of the row: a new era, with every sweep and every finished sweep in
\* the past.  Archive adds a sweep of the new era that lists the whole pod.
LEMMA ArchiveStep ==
    ASSUME NEW p \in Pods, NEW c \in Communities, AdmInv, Archive(p, c)
    PROVE  AdmInv'
<1>0. AdmTypeOK /\ ErasPast /\ SweepFinds /\ AdmissionInvariant /\ DrainFinds
    BY DEF AdmInv
<1> DEFINE a == <<"archive", p>>
<1>1. a \in Sweepers
    BY DEF Sweepers
<1>2. /\ era' \in [Communities -> Nat]
      /\ \A d \in Communities : era[d] <= era'[d]
      /\ \A d \in Communities : ~Active(d)' => \/ era'[d] = era[d] /\ ~Active(d)
                                               \/ era'[d] > era[d]
  <2>1. CASE Active(c)
    <3>1. era \in [Communities -> Nat] /\ era' = [era EXCEPT ![c] = @ + 1]
        BY <1>0, <2>1 DEF Archive, AdmTypeOK
    <3>2. \A d \in Communities : era'[d] = IF d = c THEN era[d] + 1 ELSE era[d]
        BY <3>1
    <3>3. \A d \in Communities : d # c => Active(d)' = Active(d)
        BY <3>2 DEF Active
    <3> QED
        BY <3>1, <3>2, <3>3
  <2>2. CASE ~Active(c)
      BY <1>0, <2>2 DEF Archive, AdmTypeOK, Active
  <2> QED
      BY <2>1, <2>2
<1>3. /\ sweep' = [sweep EXCEPT ![a] = [community |-> c, era |-> era'[c], todo |-> OnPod(p)]]
      /\ UNCHANGED <<sockVars, cancelled, inbox, unchecked, draining, drainTodo, swept>>
      /\ publishing' = [publishing EXCEPT ![p] = {c}]
      /\ archives' = archives + 1
    BY DEF Archive
<1>4. OnPod(p) \in SUBSET Sockets
    BY DEF OnPod
<1>5. AdmTypeOK'
    BY <1>0, <1>1, <1>2, <1>3, <1>4 DEF AdmTypeOK, sockVars
<1>6. \A q \in Sweepers : q # a => sweep'[q] = sweep[q]
    BY <1>0, <1>3 DEF AdmTypeOK
<1>7. sweep'[a] = [community |-> c, era |-> era'[c], todo |-> OnPod(p)]
    BY <1>0, <1>1, <1>3 DEF AdmTypeOK
<1>8. \A q \in Sweepers : Busy(q) => sweep[q].community \in Communities /\ sweep[q].era \in Nat
    BY <1>0 DEF AdmTypeOK, Busy
<1>9. ErasPast'
  <2>1. ASSUME NEW q \in Sweepers, Busy(q)' PROVE sweep'[q].era <= era'[sweep'[q].community]
    <3>1. CASE q = a
        BY <1>2, <1>7, <3>1
    <3>2. CASE q # a
      <4>1. Busy(q) /\ sweep'[q] = sweep[q]
          BY <1>6, <2>1, <3>2 DEF Busy
      <4>2. sweep[q].era <= era[sweep[q].community]
          BY <1>0, <4>1 DEF ErasPast
      <4>3. era[sweep[q].community] \in Nat /\ era'[sweep[q].community] \in Nat
          BY <1>0, <1>2, <1>8, <4>1 DEF AdmTypeOK
      <4> QED
          BY <1>2, <1>8, <4>1, <4>2, <4>3
    <3> QED
        BY <3>1, <3>2
  <2>2. ASSUME NEW r \in Pods, NEW d \in Communities PROVE swept'[<<r, d>>] <= era'[d]
    <3>1. swept[<<r, d>>] \in Nat /\ era[d] \in Nat /\ era'[d] \in Nat
        BY <1>0, <1>2 DEF AdmTypeOK
    <3> QED
        BY <1>0, <1>2, <1>3, <3>1 DEF ErasPast
  <2> QED
      BY <2>1, <2>2 DEF ErasPast
<1>10. \A r \in Sockets : Running(r)' = Running(r)
    BY <1>3 DEF Running, sockVars
<1>11. SweepFinds'
  <2> SUFFICES ASSUME NEW r \in Sockets, NEW q \in Sweepers,
                      Running(r)', ~Active(CommunityOf[r])', Busy(q)', q[2] = PodOf[r],
                      sweep'[q].community = CommunityOf[r], sweep'[q].era = era'[CommunityOf[r]]
               PROVE  r \in sweep'[q].todo
      BY DEF SweepFinds
  <2>1. CASE q = a
      BY <1>7, <2>1 DEF OnPod
  <2>2. CASE q # a
    <3>1. Busy(q) /\ sweep'[q] = sweep[q]
        BY <1>6, <2>2 DEF Busy
    <3>2. sweep[q].era <= era[CommunityOf[r]] /\ CommunityOf[r] \in Communities
        BY <1>0, <3>1, AdmissionAssumption DEF ErasPast
    <3>3. era'[CommunityOf[r]] = era[CommunityOf[r]] /\ ~Active(CommunityOf[r])
        BY <1>0, <1>2, <1>8, <3>1, <3>2 DEF AdmTypeOK
    <3> QED
        BY <1>0, <1>10, <3>1, <3>3 DEF SweepFinds
  <2> QED
      BY <2>1, <2>2
<1>12. AdmissionInvariant'
  <2> SUFFICES ASSUME NEW r \in Sockets, ~Active(CommunityOf[r])',
                      swept'[<<PodOf[r], CommunityOf[r]>>] = era'[CommunityOf[r]], Running(r)'
               PROVE  FALSE
      BY DEF AdmissionInvariant
  <2>1. PodOf[r] \in Pods /\ CommunityOf[r] \in Communities
      BY AdmissionAssumption
  <2>2. swept[<<PodOf[r], CommunityOf[r]>>] <= era[CommunityOf[r]]
      BY <1>0, <2>1 DEF ErasPast
  <2>3. era'[CommunityOf[r]] = era[CommunityOf[r]] /\ ~Active(CommunityOf[r])
      BY <1>0, <1>2, <1>3, <2>1, <2>2 DEF AdmTypeOK
  <2> QED
      BY <1>0, <1>3, <1>10, <2>3 DEF AdmissionInvariant
<1>13. DrainFinds'
    BY <1>0, <1>3 DEF DrainFinds, sockVars
<1> QED
    BY <1>5, <1>9, <1>11, <1>12, <1>13 DEF AdmInv

\* Unarchive opens an era in which no sweep has begun.
LEMMA UnarchiveStep ==
    ASSUME NEW c \in Communities, AdmInv, Unarchive(c)
    PROVE  AdmInv'
<1>0. AdmTypeOK /\ ErasPast /\ SweepFinds /\ AdmissionInvariant /\ DrainFinds
    BY DEF AdmInv
<1>1. era' = [era EXCEPT ![c] = @ + 1] /\ UNCHANGED <<sockVars, cancelled, podVars>> /\ ~Active(c)
    BY DEF Unarchive
<1>2. /\ era' \in [Communities -> Nat]
      /\ \A d \in Communities : era[d] <= era'[d] /\ (d # c => era'[d] = era[d])
      /\ era'[c] > era[c]
    BY <1>0, <1>1 DEF AdmTypeOK
<1>3. AdmTypeOK'
    BY <1>0, <1>1, <1>2 DEF AdmTypeOK, sockVars, podVars
<1>4. \A q \in Sweepers : Busy(q) => sweep[q].community \in Communities /\ sweep[q].era \in Nat
    BY <1>0 DEF AdmTypeOK, Busy
<1>5. UNCHANGED <<sweep, swept, sock, cancelled, entries, draining, drainTodo>>
    BY <1>1 DEF sockVars, podVars
<1>6. ErasPast'
  <2>1. ASSUME NEW q \in Sweepers, Busy(q)' PROVE sweep'[q].era <= era'[sweep'[q].community]
    <3>1. Busy(q) /\ sweep'[q] = sweep[q]
        BY <1>5, <2>1 DEF Busy
    <3>2. sweep[q].era <= era[sweep[q].community]
        BY <1>0, <3>1 DEF ErasPast
    <3> QED
        BY <1>0, <1>2, <1>4, <3>1, <3>2 DEF AdmTypeOK
  <2>2. ASSUME NEW r \in Pods, NEW d \in Communities PROVE swept'[<<r, d>>] <= era'[d]
    <3>1. swept[<<r, d>>] \in Nat /\ era[d] \in Nat /\ era'[d] \in Nat
        BY <1>0, <1>2 DEF AdmTypeOK
    <3> QED
        BY <1>0, <1>2, <1>5, <3>1 DEF ErasPast
  <2> QED
      BY <2>1, <2>2 DEF ErasPast
<1>7. \A r \in Sockets : Running(r)' = Running(r)
    BY <1>5 DEF Running
<1>8. \A d \in Communities : d # c => Active(d)' = Active(d)
    BY <1>2 DEF Active
<1>9. SweepFinds'
  <2> SUFFICES ASSUME NEW r \in Sockets, NEW q \in Sweepers,
                      Running(r)', ~Active(CommunityOf[r])', Busy(q)', q[2] = PodOf[r],
                      sweep'[q].community = CommunityOf[r], sweep'[q].era = era'[CommunityOf[r]]
               PROVE  r \in sweep'[q].todo
      BY DEF SweepFinds
  <2>1. Busy(q) /\ sweep'[q] = sweep[q] /\ CommunityOf[r] \in Communities
      BY <1>5, AdmissionAssumption DEF Busy
  <2>2. sweep[q].era <= era[CommunityOf[r]]
      BY <1>0, <2>1 DEF ErasPast
  <2>3. CommunityOf[r] # c
      BY <1>0, <1>2, <1>4, <2>1, <2>2 DEF AdmTypeOK
  <2> QED
      BY <1>0, <1>2, <1>7, <1>8, <2>1, <2>3 DEF SweepFinds
<1>10. AdmissionInvariant'
  <2> SUFFICES ASSUME NEW r \in Sockets, ~Active(CommunityOf[r])',
                      swept'[<<PodOf[r], CommunityOf[r]>>] = era'[CommunityOf[r]], Running(r)'
               PROVE  FALSE
      BY DEF AdmissionInvariant
  <2>1. PodOf[r] \in Pods /\ CommunityOf[r] \in Communities
      BY AdmissionAssumption
  <2>2. swept[<<PodOf[r], CommunityOf[r]>>] <= era[CommunityOf[r]]
      BY <1>0, <2>1 DEF ErasPast
  <2>3. CommunityOf[r] # c
      BY <1>0, <1>2, <1>5, <2>1, <2>2 DEF AdmTypeOK
  <2> QED
      BY <1>0, <1>2, <1>5, <1>7, <1>8, <2>1, <2>3 DEF AdmissionInvariant
<1>11. DrainFinds'
    BY <1>0, <1>5 DEF DrainFinds
<1> QED
    BY <1>3, <1>6, <1>9, <1>10, <1>11 DEF AdmInv

-----------------------------------------------------------------------------
\* What the invariant needs of a step that changes neither the row nor a
\* handler, sweeps nothing and drains nothing: its types.
LEMMA QuietStep ==
    ASSUME AdmInv, AdmTypeOK',
           UNCHANGED <<era, sock, cancelled, entries, sweep, swept, draining, drainTodo>>
    PROVE  AdmInv'
<1>1. ErasPast'
    BY DEF AdmInv, ErasPast, Busy
<1>2. SweepFinds'
    BY DEF AdmInv, SweepFinds, Busy, Running, Active
<1>3. AdmissionInvariant'
    BY DEF AdmInv, AdmissionInvariant, Running, Active
<1>4. DrainFinds'
    BY DEF AdmInv, DrainFinds
<1> QED
    BY <1>1, <1>2, <1>3, <1>4 DEF AdmInv

\* A disconnect_community that begins lists every socket of its pod.
LEMMA SweepStarts ==
    ASSUME NEW q \in Sweepers, NEW c \in Communities, AdmInv, AdmTypeOK',
           sweep' = [sweep EXCEPT ![q] = SweepOf(c, q[2])],
           UNCHANGED <<era, sock, cancelled, entries, swept, draining, drainTodo>>
    PROVE  AdmInv'
<1>0. AdmTypeOK /\ ErasPast /\ SweepFinds /\ AdmissionInvariant /\ DrainFinds
    BY DEF AdmInv
<1>1. sweep'[q] = [community |-> c, era |-> era[c], todo |-> OnPod(q[2])]
    BY <1>0 DEF AdmTypeOK, SweepOf
<1>2. \A o \in Sweepers : o # q => sweep'[o] = sweep[o]
    BY <1>0 DEF AdmTypeOK
<1>3. ErasPast'
  <2>1. ASSUME NEW o \in Sweepers, Busy(o)' PROVE sweep'[o].era <= era'[sweep'[o].community]
    <3>1. CASE o = q
        BY <1>0, <1>1, <3>1 DEF AdmTypeOK
    <3>2. CASE o # q
        BY <1>0, <1>2, <2>1, <3>2 DEF ErasPast, Busy
    <3> QED
        BY <3>1, <3>2
  <2> QED
      BY <1>0, <2>1 DEF ErasPast
<1>4. SweepFinds'
  <2> SUFFICES ASSUME NEW r \in Sockets, NEW o \in Sweepers,
                      Running(r)', ~Active(CommunityOf[r])', Busy(o)', o[2] = PodOf[r],
                      sweep'[o].community = CommunityOf[r], sweep'[o].era = era'[CommunityOf[r]]
               PROVE  r \in sweep'[o].todo
      BY DEF SweepFinds
  <2>1. CASE o = q
      BY <1>1, <2>1 DEF OnPod
  <2>2. CASE o # q
      BY <1>0, <1>2, <2>2 DEF SweepFinds, Busy, Running, Active
  <2> QED
      BY <2>1, <2>2
<1>5. AdmissionInvariant'
    BY <1>0 DEF AdmissionInvariant, Running, Active
<1>6. DrainFinds'
    BY <1>0 DEF DrainFinds
<1> QED
    BY <1>3, <1>4, <1>5, <1>6 DEF AdmInv

\* Publishing the archival touches mailboxes only.
LEMMA PublishStep ==
    ASSUME NEW p \in Pods, NEW c \in Communities, NEW got \in SUBSET Pods, AdmInv, Publish(p, c, got)
    PROVE  AdmInv'
<1>1. AdmTypeOK
    BY DEF AdmInv
<1>2. inbox' \in [Pods -> Seq(Communities)]
  <2>1. \A r \in Pods : Append(inbox[r], c) \in Seq(Communities) /\ inbox[r] \in Seq(Communities)
      BY <1>1 DEF AdmTypeOK
  <2> QED
      BY <2>1 DEF Publish
<1>3. AdmTypeOK'
    BY <1>1, <1>2 DEF Publish, AdmTypeOK, sockVars
<1> QED
    BY <1>3, QuietStep DEF Publish, sockVars

\* The conn-control consumer takes a command and begins its sweep.
LEMMA ControlStep ==
    ASSUME NEW p \in Pods, AdmInv, ControlRecv(p)
    PROVE  AdmInv'
<1> DEFINE q == <<"control", p>>
<1>1. q \in Sweepers /\ q[2] = p
    BY DEF Sweepers
<1>2. AdmTypeOK
    BY DEF AdmInv
<1>3. inbox[p] \in Seq(Communities) /\ inbox[p] # <<>>
    BY <1>2 DEF AdmTypeOK, ControlRecv
<1>4. Head(inbox[p]) \in Communities /\ Tail(inbox[p]) \in Seq(Communities)
    BY <1>3
<1>5. sweep' = [sweep EXCEPT ![q] = SweepOf(Head(inbox[p]), q[2])]
    BY <1>1 DEF ControlRecv
<1>6. SweepOf(Head(inbox[p]), p) \in [community : Communities, era : Nat, todo : SUBSET Sockets]
    BY <1>2, <1>4 DEF AdmTypeOK, SweepOf, OnPod
<1>7. AdmTypeOK'
    BY <1>1, <1>2, <1>4, <1>5, <1>6 DEF AdmTypeOK, ControlRecv, sockVars
<1> QED
    BY <1>1, <1>4, <1>5, <1>7, SweepStarts DEF ControlRecv, sockVars

\* A tick of the revalidator takes a list and nothing else.
LEMMA TickStep ==
    ASSUME NEW p \in Pods, AdmInv, RevalidateTick(p)
    PROVE  AdmInv'
<1>1. AdmTypeOK
    BY DEF AdmInv
<1>2. {CommunityOf[s] : s \in registered \cap OnPod(p)} \in SUBSET Communities
    BY <1>1, AdmissionAssumption DEF AdmTypeOK
<1>3. AdmTypeOK'
    BY <1>1, <1>2 DEF RevalidateTick, AdmTypeOK, sockVars
<1> QED
    BY <1>3, QuietStep DEF RevalidateTick, sockVars

\* The revalidator keeps an active community and sweeps an archived one.
LEMMA CheckStep ==
    ASSUME NEW p \in Pods, NEW c \in Communities, AdmInv, RevalidateCheck(p, c)
    PROVE  AdmInv'
<1> DEFINE q == <<"revalidate", p>>
<1>1. q \in Sweepers /\ q[2] = p
    BY DEF Sweepers
<1>2. AdmTypeOK
    BY DEF AdmInv
<1>3. CASE Active(c)
  <2>1. AdmTypeOK'
      BY <1>2, <1>3 DEF RevalidateCheck, AdmTypeOK, sockVars
  <2> QED
      BY <1>3, <2>1, QuietStep DEF RevalidateCheck, sockVars
<1>4. CASE ~Active(c)
  <2>1. sweep' = [sweep EXCEPT ![q] = SweepOf(c, q[2])]
      BY <1>1, <1>4 DEF RevalidateCheck
  <2>2. SweepOf(c, p) \in [community : Communities, era : Nat, todo : SUBSET Sockets]
      BY <1>2 DEF AdmTypeOK, SweepOf, OnPod
  <2>3. AdmTypeOK'
      BY <1>1, <1>2, <2>1, <2>2 DEF AdmTypeOK, RevalidateCheck, sockVars
  <2> QED
      BY <1>1, <2>1, <2>3, SweepStarts DEF RevalidateCheck, sockVars
<1> QED
    BY <1>3, <1>4

\* A failed query leaves the community for the next tick.
LEMMA ErrorStep ==
    ASSUME NEW p \in Pods, NEW c \in Communities, AdmInv, RevalidateError(p, c)
    PROVE  AdmInv'
<1>1. AdmTypeOK'
    BY DEF AdmInv, RevalidateError, AdmTypeOK, sockVars
<1> QED
    BY <1>1, QuietStep DEF RevalidateError, sockVars

-----------------------------------------------------------------------------
\* A visit of disconnect_community takes one socket off the list and fires its
\* token, unless it is not registered or not of the community, and then it does
\* not run for the community.
LEMMA VisitStep ==
    ASSUME NEW q \in Sweepers, NEW s \in Sockets, AdmInv, SweepVisit(q, s)
    PROVE  AdmInv'
<1>0. AdmTypeOK /\ ErasPast /\ SweepFinds /\ AdmissionInvariant /\ DrainFinds
    BY DEF AdmInv
<1>1. sweep[q] \in [community : Communities, era : Nat, todo : SUBSET Sockets]
    BY <1>0 DEF AdmTypeOK, SweepVisit, Busy
<1>2. sweep' = [sweep EXCEPT ![q] = [sweep[q] EXCEPT !.todo = @ \ {s}]]
    BY DEF SweepVisit
<1>3. /\ sweep'[q] = [sweep[q] EXCEPT !.todo = @ \ {s}]
      /\ \A o \in Sweepers : o # q => sweep'[o] = sweep[o]
    BY <1>0, <1>2 DEF AdmTypeOK
<1>4. /\ sweep'[q].community = sweep[q].community
      /\ sweep'[q].era = sweep[q].era
      /\ sweep'[q].todo = sweep[q].todo \ {s}
      /\ sweep'[q] \in [community : Communities, era : Nat, todo : SUBSET Sockets]
    BY <1>1, <1>3
<1>5. cancelled \subseteq cancelled' /\ cancelled' \in SUBSET Sockets
    BY <1>0 DEF AdmTypeOK, SweepVisit
<1>6. UNCHANGED <<era, sock, registered, entries, publishing, inbox, unchecked, draining, drainTodo,
                  swept, archives>>
    BY DEF SweepVisit, sockVars
<1>7. AdmTypeOK'
    BY <1>0, <1>2, <1>4, <1>5, <1>6 DEF AdmTypeOK
<1>8. Busy(q)
    BY DEF SweepVisit
<1>9. ErasPast'
  <2>1. ASSUME NEW o \in Sweepers, Busy(o)' PROVE sweep'[o].era <= era'[sweep'[o].community]
    <3>1. CASE o = q
        BY <1>0, <1>4, <1>6, <1>8, <3>1 DEF ErasPast
    <3>2. CASE o # q
        BY <1>0, <1>3, <1>6, <2>1, <3>2 DEF ErasPast, Busy
    <3> QED
        BY <3>1, <3>2
  <2> QED
      BY <1>0, <1>6, <2>1 DEF ErasPast
<1>10. \A r \in Sockets : Running(r)' => Running(r)
    BY <1>5, <1>6 DEF Running
<1>11. Running(s)' => CommunityOf[s] # sweep[q].community
    BY <1>0, <1>6 DEF Running, AdmTypeOK, SweepVisit
<1>12. SweepFinds'
  <2> SUFFICES ASSUME NEW r \in Sockets, NEW o \in Sweepers,
                      Running(r)', ~Active(CommunityOf[r])', Busy(o)', o[2] = PodOf[r],
                      sweep'[o].community = CommunityOf[r], sweep'[o].era = era'[CommunityOf[r]]
               PROVE  r \in sweep'[o].todo
      BY DEF SweepFinds
  <2>1. Running(r) /\ ~Active(CommunityOf[r])
      BY <1>6, <1>10 DEF Active
  <2>2. CASE o = q
    <3>1. r \in sweep[q].todo
        BY <1>0, <1>4, <1>6, <1>8, <2>1, <2>2 DEF SweepFinds
    <3>2. r # s
        BY <1>4, <1>11, <2>2
    <3> QED
        BY <1>4, <2>2, <3>1, <3>2
  <2>3. CASE o # q
      BY <1>0, <1>3, <1>6, <2>1, <2>3 DEF SweepFinds, Busy
  <2> QED
      BY <2>2, <2>3
<1>13. AdmissionInvariant'
    BY <1>0, <1>6, <1>10 DEF AdmissionInvariant, Active
<1>14. DrainFinds'
    BY <1>0, <1>5, <1>6 DEF DrainFinds
<1> QED
    BY <1>7, <1>9, <1>12, <1>13, <1>14 DEF AdmInv

\* A sweep that ends has an empty list, so what it promises holds.
LEMMA DoneStep ==
    ASSUME NEW q \in Sweepers, AdmInv, SweepDone(q)
    PROVE  AdmInv'
<1>0. AdmTypeOK /\ ErasPast /\ SweepFinds /\ AdmissionInvariant /\ DrainFinds
    BY DEF AdmInv
<1>1. sweep[q] \in [community : Communities, era : Nat, todo : SUBSET Sockets]
    BY <1>0 DEF AdmTypeOK, SweepDone, Busy
<1> DEFINE k == <<q[2], sweep[q].community>>
<1>2. q[2] \in Pods /\ sweep[q].community \in Communities /\ sweep[q].era \in Nat
      /\ k \in Pods \X Communities
    BY <1>1 DEF Sweepers
<1>3. swept' = [swept EXCEPT ![k] = IF sweep[q].era > swept[k] THEN sweep[q].era ELSE swept[k]]
    BY DEF SweepDone
<1>4. \A pc \in Pods \X Communities :
          swept'[pc] = swept[pc] \/ (pc = k /\ swept'[pc] = sweep[q].era)
  <2> SUFFICES ASSUME NEW pc \in Pods \X Communities
               PROVE  swept'[pc] = swept[pc] \/ (pc = k /\ swept'[pc] = sweep[q].era)
      OBVIOUS
  <2>0. swept \in [Pods \X Communities -> Nat]
      BY <1>0 DEF AdmTypeOK
  <2> HIDE DEF k
  <2>1. CASE pc = k
      BY <1>3, <2>0, <2>1
  <2>2. CASE pc # k
      BY <1>3, <2>0, <2>2
  <2> QED
      BY <2>1, <2>2
<1>5. UNCHANGED <<era, sock, registered, cancelled, entries, publishing, inbox, unchecked, draining,
                  drainTodo, archives>>
    BY DEF SweepDone, sockVars
<1>6. \A o \in Sweepers : Busy(o)' => sweep'[o] = sweep[o] /\ Busy(o)
    BY <1>0 DEF SweepDone, Busy, AdmTypeOK
<1>7. Busy(q) /\ sweep[q].todo = {}
    BY DEF SweepDone
<1>8. AdmTypeOK'
  <2>1. swept' \in [Pods \X Communities -> Nat]
      BY <1>0, <1>2, <1>3 DEF AdmTypeOK
  <2>2. sweep' = [sweep EXCEPT ![q] = NoSweep]
      BY DEF SweepDone
  <2> QED
      BY <1>0, <1>5, <2>1, <2>2 DEF AdmTypeOK
<1>9. ErasPast'
  <2>1. ASSUME NEW o \in Sweepers, Busy(o)' PROVE sweep'[o].era <= era'[sweep'[o].community]
      BY <1>0, <1>5, <1>6, <2>1 DEF ErasPast
  <2>2. ASSUME NEW p \in Pods, NEW c \in Communities PROVE swept'[<<p, c>>] <= era'[c]
    <3>1. CASE swept'[<<p, c>>] = swept[<<p, c>>]
        BY <1>0, <1>5, <3>1 DEF ErasPast
    <3>2. CASE <<p, c>> = k /\ swept'[<<p, c>>] = sweep[q].era
        BY <1>0, <1>5, <1>7, <3>2 DEF ErasPast
    <3> QED
        BY <1>4, <3>1, <3>2
  <2> QED
      BY <2>1, <2>2 DEF ErasPast
<1>10. SweepFinds'
    BY <1>0, <1>5, <1>6 DEF SweepFinds, Running, Active
<1>11. AdmissionInvariant'
  <2> SUFFICES ASSUME NEW r \in Sockets, ~Active(CommunityOf[r]), Running(r),
                      swept'[<<PodOf[r], CommunityOf[r]>>] = era[CommunityOf[r]]
               PROVE  FALSE
      BY <1>5 DEF AdmissionInvariant, Running, Active
  <2>1. <<PodOf[r], CommunityOf[r]>> \in Pods \X Communities
      BY AdmissionAssumption
  <2>2. CASE swept'[<<PodOf[r], CommunityOf[r]>>] = swept[<<PodOf[r], CommunityOf[r]>>]
      BY <1>0, <2>2 DEF AdmissionInvariant
  <2>3. CASE <<PodOf[r], CommunityOf[r]>> = k /\ swept'[<<PodOf[r], CommunityOf[r]>>] = sweep[q].era
    <3>1. r \in sweep[q].todo
        BY <1>0, <1>7, <2>3 DEF SweepFinds
    <3> QED
        BY <1>7, <3>1
  <2> QED
      BY <1>4, <2>1, <2>2, <2>3
<1>12. DrainFinds'
    BY <1>0, <1>5 DEF DrainFinds
<1> QED
    BY <1>8, <1>9, <1>10, <1>11, <1>12 DEF AdmInv

\* drain_all sets the flag before it looks at the first connection.
LEMMA StartDrainStep ==
    ASSUME NEW p \in Pods, AdmInv, StartDrain(p)
    PROVE  AdmInv'
<1>0. AdmTypeOK /\ ErasPast /\ SweepFinds /\ AdmissionInvariant /\ DrainFinds
    BY DEF AdmInv
<1>1. UNCHANGED <<era, sock, registered, cancelled, entries, sweep, publishing, inbox, unchecked,
                  swept, archives>>
    BY DEF StartDrain, sockVars
<1>2. AdmTypeOK'
    BY <1>0, <1>1 DEF AdmTypeOK, StartDrain, OnPod
<1>3. ErasPast' /\ SweepFinds' /\ AdmissionInvariant'
    BY <1>0, <1>1 DEF ErasPast, SweepFinds, AdmissionInvariant, Busy, Running, Active
<1>4. DrainFinds'
    BY <1>0, <1>1 DEF DrainFinds, AdmTypeOK, StartDrain, OnPod
<1> QED
    BY <1>2, <1>3, <1>4 DEF AdmInv

\* drain_all fires the token of every entry it meets.
LEMMA DrainVisitStep ==
    ASSUME NEW p \in Pods, NEW s \in Sockets, AdmInv, DrainVisit(p, s)
    PROVE  AdmInv'
<1>0. AdmTypeOK /\ ErasPast /\ SweepFinds /\ AdmissionInvariant /\ DrainFinds
    BY DEF AdmInv
<1>1. UNCHANGED <<era, sock, registered, entries, sweep, publishing, inbox, unchecked, draining,
                  swept, archives>>
    BY DEF DrainVisit, sockVars
<1>2. AdmTypeOK'
    BY <1>0, <1>1 DEF AdmTypeOK, DrainVisit
<1>3. \A r \in Sockets : Running(r)' => Running(r)
    BY <1>1 DEF Running, DrainVisit
<1>4. ErasPast'
    BY <1>0, <1>1 DEF ErasPast, Busy
<1>5. SweepFinds'
    BY <1>0, <1>1, <1>3 DEF SweepFinds, Busy, Active
<1>6. AdmissionInvariant'
    BY <1>0, <1>1, <1>3 DEF AdmissionInvariant, Active
<1>7. DrainFinds'
    BY <1>0, <1>1 DEF DrainFinds, AdmTypeOK, DrainVisit
<1> QED
    BY <1>2, <1>4, <1>5, <1>6, <1>7 DEF AdmInv

-----------------------------------------------------------------------------
\* The invariant is inductive: one step per action of the relay.
LEMMA AdmInductive == AdmInv /\ [AdmNext]_admVars => AdmInv'
<1> SUFFICES ASSUME AdmInv, [AdmNext]_admVars
             PROVE  AdmInv'
    OBVIOUS
<1>1. ASSUME NEW s \in Sockets, Register(s) \/ Handler(s) \/ EndLoop(s) PROVE AdmInv'
    BY <1>1, HandlerStep
<1>2. ASSUME NEW q \in Sweepers, Sweeping(q) PROVE AdmInv'
    BY <1>2, VisitStep, DoneStep DEF Sweeping
<1>3. ASSUME NEW p \in Pods, PodTasks(p) PROVE AdmInv'
    BY <1>3, PublishStep, ControlStep, TickStep, CheckStep, ErrorStep, DrainVisitStep DEF PodTasks
<1>4. CASE Operator
    BY <1>4, ArchiveStep, UnarchiveStep, StartDrainStep DEF Operator
<1>5. CASE UNCHANGED admVars
  <2>1. AdmTypeOK'
      BY <1>5 DEF AdmInv, AdmTypeOK, admVars
  <2> QED
      BY <1>5, <2>1, QuietStep DEF admVars
<1> QED
    BY <1>1, <1>2, <1>3, <1>4, <1>5 DEF AdmNext

\* Every behaviour of the pods keeps the inductive invariant.
LEMMA AdmInvHolds == AdmSpec => []AdmInv
<1>1. AdmInit => AdmInv
    BY AdmInitInv
<1>2. AdmInv /\ [AdmNext]_admVars => AdmInv'
    BY AdmInductive
<1> QED
    BY <1>1, <1>2, PTL DEF AdmSpec

\* The registry of a pod and its connection manager list exactly the handlers
\* between their registration and the drop of their guard.
THEOREM AdmTypeCorrect == AdmSpec => []AdmTypeOK
<1>1. AdmInv => AdmTypeOK
    BY DEF AdmInv
<1> QED
    BY <1>1, AdmInvHolds, PTL

\* A pod that has finished a sweep of an archived community runs none of its
\* sockets: run_registered_community_connection registers before it looks the
\* row up, so a socket the sweep misses reads the archival.
THEOREM AdmissionCorrect == AdmSpec => []AdmissionInvariant
<1>1. AdmInv => AdmissionInvariant
    BY DEF AdmInv
<1> QED
    BY <1>1, AdmInvHolds, PTL

\* No connection outlives drain_all unnoticed: ConnectionManager::register
\* inserts before it reads the flag, drain_all sets the flag before it iterates.
THEOREM DrainCorrect == AdmSpec => []DrainInvariant
<1>1. AdmInv => DrainInvariant
    BY DEF AdmInv, DrainFinds, DrainInvariant
<1> QED
    BY <1>1, AdmInvHolds, PTL

=============================================================================
