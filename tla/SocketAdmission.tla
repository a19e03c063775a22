--------------------------- MODULE SocketAdmission ---------------------------
(***************************************************************************)
(* How a WebSocket is admitted to a relay pod, and how the pods of a       *)
(* deployment close the sockets of an archived community and of a pod that *)
(* shuts down (buzz-relay state.rs, connection.rs, main.rs, operator.rs).  *)
(*                                                                         *)
(* A socket registers in its pod's CommunityConnectionRegistry, then asks  *)
(* the database whether its community is active, and later inserts itself  *)
(* into the pod's ConnectionManager.  Archival writes the row, sweeps the  *)
(* registry of its own pod and publishes a command that the other pods may *)
(* or may not receive; every pod revalidates its communities from time to  *)
(* time.  A sweep iterates a DashMap that changes under it, so it visits   *)
(* the sockets one by one.                                                 *)
(***************************************************************************)
EXTENDS Integers, Sequences, FiniteSets

CONSTANTS
    Pods,
    Sockets,
    Communities,
    PodOf,          \* the pod each socket is upgraded on
    CommunityOf,    \* the tenant its host resolves to
    MaxConns,       \* permits of a pod's connection semaphore
    MaxEras,        \* bound: archivals and restorations of a community
    MaxArchives     \* bound: archive requests in a behaviour

ASSUME AdmissionAssumption ==
    /\ PodOf \in [Sockets -> Pods]
    /\ CommunityOf \in [Sockets -> Communities]
    /\ IsFiniteSet(Sockets)
    /\ MaxConns \in Nat /\ MaxEras \in Nat /\ MaxArchives \in Nat

VARIABLES
    era,         \* the community row: archived in odd eras, active in even ones
    sock,        \* how far each socket's handler has come
    registered,  \* CommunityConnectionRegistry: sockets whose guard is alive
    cancelled,   \* sockets whose cancellation token has fired
    entries,     \* ConnectionManager.connections
    sweep,       \* the disconnect_community each sweeping task is in
    publishing,  \* the community whose archival a pod's API has yet to publish
    inbox,       \* commands the conn-control consumer of a pod has yet to take
    unchecked,   \* communities the revalidator of a pod has yet to look up
    draining,    \* the pod's sticky drain flag
    drainTodo,   \* sockets drain_all has yet to visit
    swept,       \* era of the last finished sweep of each pod and community
    archives     \* archive requests so far

admVars == <<era, sock, registered, cancelled, entries, sweep, publishing, inbox,
             unchecked, draining, drainTodo, swept, archives>>

Active(c) == era[c] % 2 = 0
OnPod(p)  == {s \in Sockets : PodOf[s] = p}

\* The tasks that call disconnect_community.
Sweepers == {"archive", "control", "revalidate"} \X Pods

NoSweep == [todo |-> {}]
SweepOf(c, p) == [community |-> c, era |-> era[c], todo |-> OnPod(p)]
Busy(q) == sweep[q] # NoSweep

AdmInit ==
    /\ era = [c \in Communities |-> 0]
    /\ sock = [s \in Sockets |-> "new"]
    /\ registered = {} /\ cancelled = {} /\ entries = {}
    /\ sweep = [q \in Sweepers |-> NoSweep]
    /\ publishing = [p \in Pods |-> {}]
    /\ inbox = [p \in Pods |-> <<>>]
    /\ unchecked = [p \in Pods |-> {}]
    /\ draining = [p \in Pods |-> FALSE]
    /\ drainTodo = [p \in Pods |-> {}]
    /\ swept = [pc \in Pods \X Communities |-> 0]
    /\ archives = 0

podVars == <<sweep, publishing, inbox, unchecked, draining, drainTodo, swept, archives>>

-----------------------------------------------------------------------------
(* The handler of one socket. *)

GoOn(s, to) == sock' = [sock EXCEPT ![s] = to]

\* The handler returns: the guard leaves the registry.
Exit(s) ==
    /\ GoOn(s, "gone")
    /\ registered' = registered \ {s}

\* Mutation: the socket is not listed while its community is looked up.
Register_Unlisted(s) ==
    /\ sock[s] = "new"
    /\ GoOn(s, "check")
    /\ UNCHANGED <<era, registered, cancelled, entries, podVars>>

Register(s) ==
    /\ sock[s] = "new"
    /\ GoOn(s, "check")
    /\ registered' = registered \cup {s}
    /\ UNCHANGED <<era, cancelled, entries, podVars>>

\* is_community_active answers Ok(true) ...
Admit(s) ==
    /\ sock[s] = "check"
    /\ Active(CommunityOf[s])
    /\ GoOn(s, "admitted")
    /\ UNCHANGED <<era, registered, cancelled, entries, podVars>>

\* ... or that the community is archived, or the query fails.
Refuse(s) ==
    /\ sock[s] = "check"
    /\ cancelled' = cancelled \cup {s}
    /\ Exit(s)
    /\ UNCHANGED <<era, entries, podVars>>

\* A token that fired meanwhile ends the handler before it runs.
StopEarly(s) ==
    /\ sock[s] = "admitted"
    /\ s \in cancelled
    /\ Exit(s)
    /\ UNCHANGED <<era, cancelled, entries, podVars>>

HasPermit == {"insert", "flag", "live", "closing"}

AcquirePermit(s) ==
    /\ sock[s] = "admitted"
    /\ s \notin cancelled
    /\ IF Cardinality({r \in OnPod(PodOf[s]) : sock[r] \in HasPermit}) < MaxConns
       THEN GoOn(s, "insert") /\ UNCHANGED <<registered, cancelled>>
       ELSE Exit(s) /\ cancelled' = cancelled \cup {s}
    /\ UNCHANGED <<era, entries, podVars>>

\* ConnectionManager::register inserts first ...
InsertEntry(s) ==
    /\ sock[s] = "insert"
    /\ entries' = entries \cup {s}
    /\ GoOn(s, "flag")
    /\ UNCHANGED <<era, registered, cancelled, podVars>>

\* Mutation: the flag is not read.
CheckDraining_Skipped(s) ==
    /\ sock[s] = "flag"
    /\ GoOn(s, "live")
    /\ UNCHANGED <<era, registered, cancelled, entries, podVars>>

\* ... and reads the drain flag afterwards.
CheckDraining(s) ==
    /\ sock[s] = "flag"
    /\ GoOn(s, "live")
    /\ cancelled' = IF draining[PodOf[s]] THEN cancelled \cup {s} ELSE cancelled
    /\ UNCHANGED <<era, registered, entries, podVars>>

\* The client hangs up, the connection fails a check of its own, or the
\* receive loop sees the token.
EndLoop(s) ==
    /\ sock[s] = "live"
    /\ GoOn(s, "closing")
    /\ cancelled' = cancelled \cup {s}
    /\ UNCHANGED <<era, registered, entries, podVars>>

\* Mutation: the connection manager keeps the entry.
Deregister_KeepsEntry(s) ==
    /\ sock[s] = "closing"
    /\ Exit(s)
    /\ UNCHANGED <<era, cancelled, entries, podVars>>

\* deregister; what follows only clears presence and drops permit and guard.
Deregister(s) ==
    /\ sock[s] = "closing"
    /\ entries' = entries \ {s}
    /\ Exit(s)
    /\ UNCHANGED <<era, cancelled, podVars>>

-----------------------------------------------------------------------------
(* Archival, on the pod that serves the operator's request. *)

sockVars == <<sock, registered, entries>>

\* The row is written; the sweep of the pod's own registry follows.  A repeated
\* request finds the row archived and sweeps again.
Archive(p, c) ==
    /\ ~Busy(<<"archive", p>>) /\ publishing[p] = {}
    /\ archives < MaxArchives
    /\ archives' = archives + 1
    /\ IF Active(c) THEN era[c] < MaxEras /\ era' = [era EXCEPT ![c] = @ + 1]
                    ELSE UNCHANGED era
    /\ sweep' = [sweep EXCEPT ![<<"archive", p>>] =
                    [community |-> c, era |-> era'[c], todo |-> OnPod(p)]]
    /\ publishing' = [publishing EXCEPT ![p] = {c}]
    /\ UNCHANGED <<sockVars, cancelled, inbox, unchecked, draining, drainTodo, swept>>

Unarchive(c) ==
    /\ ~Active(c)
    /\ era[c] < MaxEras
    /\ era' = [era EXCEPT ![c] = @ + 1]
    /\ UNCHANGED <<sockVars, cancelled, podVars>>

\* publish_conn_control: the pods in got have a subscriber that keeps up; the
\* others miss the command, as all do when the publish fails.
Publish(p, c, got) ==
    /\ c \in publishing[p] /\ ~Busy(<<"archive", p>>)
    /\ publishing' = [publishing EXCEPT ![p] = {}]
    /\ inbox' = [r \in Pods |-> IF r \in got THEN Append(inbox[r], c) ELSE inbox[r]]
    /\ UNCHANGED <<era, sockVars, cancelled, sweep, unchecked, draining, drainTodo, swept, archives>>

-----------------------------------------------------------------------------
(* disconnect_community, and the other two tasks that call it. *)

SweepVisit(q, s) ==
    /\ Busy(q)
    /\ s \in sweep[q].todo
    /\ sweep' = [sweep EXCEPT ![q].todo = @ \ {s}]
    /\ cancelled' = IF s \in registered /\ CommunityOf[s] = sweep[q].community
                    THEN cancelled \cup {s} ELSE cancelled
    /\ UNCHANGED <<era, sockVars, publishing, inbox, unchecked, draining, drainTodo, swept, archives>>

SweepDone(q) ==
    /\ Busy(q)
    /\ sweep[q].todo = {}
    /\ sweep' = [sweep EXCEPT ![q] = NoSweep]
    /\ swept' = [swept EXCEPT ![<<q[2], sweep[q].community>>] =
                    IF sweep[q].era > @ THEN sweep[q].era ELSE @]
    /\ UNCHANGED <<era, sockVars, cancelled, publishing, inbox, unchecked, draining, drainTodo, archives>>

ControlRecv(p) ==
    /\ ~Busy(<<"control", p>>)
    /\ inbox[p] # <<>>
    /\ inbox' = [inbox EXCEPT ![p] = Tail(@)]
    /\ sweep' = [sweep EXCEPT ![<<"control", p>>] = SweepOf(Head(inbox[p]), p)]
    /\ UNCHANGED <<era, sockVars, cancelled, publishing, unchecked, draining, drainTodo, swept, archives>>

\* A tick of the revalidator: bound_communities.
RevalidateTick(p) ==
    /\ unchecked[p] = {} /\ ~Busy(<<"revalidate", p>>)
    /\ unchecked' = [unchecked EXCEPT ![p] = {CommunityOf[s] : s \in registered \cap OnPod(p)}]
    /\ UNCHANGED <<era, sockVars, cancelled, sweep, publishing, inbox, draining, drainTodo, swept, archives>>

\* Mutation: an inactive community is noticed but not disconnected.
RevalidateCheck_LogsOnly(p, c) ==
    /\ c \in unchecked[p] /\ ~Busy(<<"revalidate", p>>)
    /\ unchecked' = [unchecked EXCEPT ![p] = @ \ {c}]
    /\ UNCHANGED <<era, sockVars, cancelled, sweep, publishing, inbox, draining, drainTodo, swept, archives>>

RevalidateCheck(p, c) ==
    /\ c \in unchecked[p] /\ ~Busy(<<"revalidate", p>>)
    /\ unchecked' = [unchecked EXCEPT ![p] = @ \ {c}]
    /\ sweep' = IF Active(c) THEN sweep
                ELSE [sweep EXCEPT ![<<"revalidate", p>>] = SweepOf(c, p)]
    /\ UNCHANGED <<era, sockVars, cancelled, publishing, inbox, draining, drainTodo, swept, archives>>

\* The query fails: the sockets are kept until the next tick.
RevalidateError(p, c) ==
    /\ c \in unchecked[p] /\ ~Busy(<<"revalidate", p>>)
    /\ unchecked' = [unchecked EXCEPT ![p] = @ \ {c}]
    /\ UNCHANGED <<era, sockVars, cancelled, sweep, publishing, inbox, draining, drainTodo, swept, archives>>

-----------------------------------------------------------------------------
(* drain_all, on a pod that shuts down. *)

StartDrain(p) ==
    /\ ~draining[p]
    /\ draining' = [draining EXCEPT ![p] = TRUE]
    /\ drainTodo' = [drainTodo EXCEPT ![p] = OnPod(p)]
    /\ UNCHANGED <<era, sockVars, cancelled, sweep, publishing, inbox, unchecked, swept, archives>>

DrainVisit(p, s) ==
    /\ s \in drainTodo[p]
    /\ drainTodo' = [drainTodo EXCEPT ![p] = @ \ {s}]
    /\ cancelled' = IF s \in entries THEN cancelled \cup {s} ELSE cancelled
    /\ UNCHANGED <<era, sockVars, sweep, publishing, inbox, unchecked, draining, swept, archives>>

-----------------------------------------------------------------------------
Handler(s) ==
    \/ Admit(s) \/ Refuse(s) \/ StopEarly(s) \/ AcquirePermit(s) \/ InsertEntry(s)
    \/ CheckDraining(s) \/ Deregister(s)

Sweeping(q) == SweepDone(q) \/ \E s \in Sockets : SweepVisit(q, s)

Operator ==
    \/ \E c \in Communities : Unarchive(c) \/ \E p \in Pods : Archive(p, c)
    \/ \E p \in Pods : StartDrain(p)

PodTasks(p) ==
    \/ \E c \in Communities, got \in SUBSET Pods : Publish(p, c, got)
    \/ ControlRecv(p)
    \/ RevalidateTick(p)
    \/ \E c \in Communities : RevalidateCheck(p, c) \/ RevalidateError(p, c)
    \/ \E s \in Sockets : DrainVisit(p, s)

AdmNext ==
    \/ \E s \in Sockets : Register(s) \/ Handler(s) \/ EndLoop(s)
    \/ \E q \in Sweepers : Sweeping(q)
    \/ \E p \in Pods : PodTasks(p)
    \/ Operator

AdmSpec == AdmInit /\ [][AdmNext]_admVars

\* Handlers and sweeps run on; the receive loop leaves once the token has fired;
\* the revalidator ticks for ever, and its queries do not fail every time.
AdmFairness ==
    /\ \A s \in Sockets : WF_admVars(Handler(s)) /\ WF_admVars(s \in cancelled /\ EndLoop(s))
    /\ \A q \in Sweepers : WF_admVars(Sweeping(q))
    /\ \A p \in Pods : /\ WF_admVars(RevalidateTick(p))
                       /\ \A c \in Communities : /\ SF_admVars(RevalidateCheck(p, c))
                                                 /\ WF_admVars(RevalidateCheck(p, c) \/ RevalidateError(p, c))

FairAdmSpec == AdmSpec /\ AdmFairness

-----------------------------------------------------------------------------
\* Types, and the two registries list exactly the handlers that are in the part
\* of their life the registries are for.
AdmTypeOK ==
    /\ era \in [Communities -> Nat]
    /\ sock \in [Sockets -> {"new", "check", "admitted", "insert", "flag", "live", "closing", "gone"}]
    /\ registered \in SUBSET Sockets
    /\ cancelled \in SUBSET Sockets
    /\ entries \in SUBSET Sockets
    /\ sweep \in [Sweepers -> [community : Communities, era : Nat, todo : SUBSET Sockets] \cup {NoSweep}]
    /\ publishing \in [Pods -> SUBSET Communities]
    /\ inbox \in [Pods -> Seq(Communities)]
    /\ unchecked \in [Pods -> SUBSET Communities]
    /\ draining \in [Pods -> BOOLEAN]
    /\ drainTodo \in [Pods -> SUBSET Sockets]
    /\ swept \in [Pods \X Communities -> Nat]
    /\ archives \in Nat
    /\ registered = {s \in Sockets : sock[s] \notin {"new", "gone"}}
    /\ entries = {s \in Sockets : sock[s] \in {"flag", "live", "closing"}}

\* Past the archival check and not told to stop.
Running(s) == sock[s] \in {"admitted", "insert", "flag", "live"} /\ s \notin cancelled

\* Archival admission: once a pod has finished a disconnect_community that began
\* after its community was archived, no socket of the community runs on the pod,
\* whether it registered before, during or after the sweep.
AdmissionInvariant ==
    \A s \in Sockets :
        /\ ~Active(CommunityOf[s])
        /\ swept[<<PodOf[s], CommunityOf[s]>>] = era[CommunityOf[s]]
        => ~Running(s)

\* Graceful shutdown: once drain_all has returned, every connection the manager
\* knows of is told to close, or is about to read the drain flag itself.
DrainInvariant ==
    \A s \in entries :
        draining[PodOf[s]] /\ drainTodo[PodOf[s]] = {} /\ sock[s] # "flag"
            => s \in cancelled

\* Every socket of a community that stays archived is closed in the end, on pods
\* that missed the disconnect command too.
ArchivedIsClosed ==
    \A s \in Sockets :
        <>[](~Active(CommunityOf[s])) => <>[](sock[s] \in {"new", "gone"})

=============================================================================
