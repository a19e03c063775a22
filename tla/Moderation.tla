------------------------------ MODULE Moderation ------------------------------
(***************************************************************************)
(* Live bans.  A moderation command (kinds 9040-9044) writes a restriction *)
(* row, then an audit row, and a ban then closes the member's sockets: the *)
(* ones of this pod at once, the others through a command published on     *)
(* Redis that nobody acknowledges.  Meanwhile members authenticate (two    *)
(* ban lookups, then other gates, then the key is listed with the          *)
(* connection manager) and submit events, whose ingest looks the           *)
(* restriction up once more.                                               *)
(*                                                                         *)
(* One community is modelled: every row and every socket carries its       *)
(* community and each lookup compares it.  Roles and the agents' owners    *)
(* are fixed.  One report stands for the moderation queue.  A scan of the  *)
(* connection table is one step: each socket is visited at one instant of  *)
(* it and no property relates the visits of two sockets.                   *)
(***************************************************************************)
EXTENDS Integers

CONSTANTS Keys,         \* public keys
          NoKey,        \* no owner, or no key known yet
          OwnerOf,      \* the owner an agent's auth tag proves, or NoKey
          Role,         \* relay_members.role: "owner", "admin" or "member"
          Pods,
          Sockets,
          PodOf,        \* the pod a connection is made to
          Commands,     \* slots for moderation commands being handled
          Writes,       \* slots for events being ingested
          MaxCommands   \* bound: commands issued in a behaviour

ASSUME NoKeyAssumption == NoKey \notin Keys

ASSUME ReportAssumption == "open" \notin Keys

ASSUME OwnerAssumption == OwnerOf \in [Keys -> Keys \cup {NoKey}]

ASSUME RoleAssumption == Role \in [Keys -> {"owner", "admin", "member"}]

ASSUME PodAssumption == PodOf \in [Sockets -> Pods]

ASSUME MaxCommandsAssumption == MaxCommands \in Nat

VARIABLES ban,       \* community_bans, ban part: "none", "active" or "expired"
          muted,     \* keys with muted_until in the future
          sock,      \* the connections
          cmd,       \* the moderation command handlers
          write,     \* the event handlers
          inbox,     \* disconnect commands on their way, per pod and key
          report,    \* "open", or the key that resolved it
          decisions, \* keys with an audit row that resolves the report
          replies,   \* notices sent to the reporter
          issued,    \* commands issued so far (bound)
          missed,    \* history: <<pod, key>> whose disconnect command was lost
          aborted    \* history: keys whose ban failed before it was enforced

vars == <<ban, muted, sock, cmd, write, inbox, report, decisions, replies,
          issued, missed, aborted>>

rows == <<ban, muted>>
queue == <<report, decisions, replies>>

----------------------------------------------------------------------------
\* restriction_state: an expired ban no longer counts, nor does a past timeout.

Banned(k) == ban[k] = "active"

Restricted(k) == Banned(k) \/ k \in muted

\* A connection.  `open' and `ownerOpen' are history: the key (the owner) has
\* been free of a ban at some instant since AUTH arrived.  `overtaken' is
\* history: a scan for the key ran while AUTH was past its look at the ban.

Closed == [phase |-> "closed", key |-> NoKey, owner |-> NoKey, open |-> TRUE,
           ownerOpen |-> TRUE, overtaken |-> FALSE]

Phases == {"closed", "pending", "self", "owner", "gates", "failed", "live"}

NoCommand == [stage |-> "idle", op |-> "none", actor |-> NoKey, target |-> NoKey,
              open |-> TRUE]

NoWrite == [stage |-> "idle", author |-> NoKey, open |-> TRUE]

Ops == {"ban", "unban", "timeout", "untimeout", "resolve"}

Stages == {"idle", "check", "write", "read", "audit", "enforce", "close"}

ModInit ==
    /\ ban = [k \in Keys |-> "none"]
    /\ muted = {}
    /\ sock = [s \in Sockets |-> Closed]
    /\ cmd = [c \in Commands |-> NoCommand]
    /\ write = [w \in Writes |-> NoWrite]
    /\ inbox = [p \in Pods |-> [k \in Keys |-> 0]]
    /\ report = "open"
    /\ decisions = {}
    /\ replies = 0
    /\ issued = 0
    /\ missed = {}
    /\ aborted = {}

----------------------------------------------------------------------------
\* disconnect_pubkey: every socket of the pod listed under the key is closed.
\* One whose authentication has passed the ban lookup is not listed yet.

Scanned(p, k) ==
    [s \in Sockets |->
        CASE PodOf[s] = p /\ sock[s].key = k /\ sock[s].phase = "live" -> Closed
          [] PodOf[s] = p /\ sock[s].key = k /\ sock[s].phase \in {"owner", "gates"}
                -> [sock[s] EXCEPT !.overtaken = TRUE]
          [] OTHER -> sock[s]]

\* Mutants: the notice is sent and the token not fired; the key stays listed
\* with a connection that was closed.

Scan_FrameOnly(p, k) == UNCHANGED sock

Scan_KeepsEntry(p, k) ==
    sock' = [s \in Sockets |->
        IF Scanned(p, k)[s] = Closed THEN [sock[s] EXCEPT !.phase = "closed"]
                                     ELSE Scanned(p, k)[s]]

Scan(p, k) == sock' = Scanned(p, k)

\* The ban on k ends, lifted or expired: history of the requests under way.

BanEnds(k, value) ==
    /\ ban' = [ban EXCEPT ![k] = value]
    /\ sock' = [s \in Sockets |->
                    [sock[s] EXCEPT !.open = IF sock[s].key = k THEN TRUE ELSE @,
                                    !.ownerOpen = IF sock[s].owner = k THEN TRUE ELSE @]]
    /\ write' = [w \in Writes |->
                    IF write[w].author = k /\ k \notin muted
                    THEN [write[w] EXCEPT !.open = TRUE] ELSE write[w]]
    /\ missed' = {m \in missed : m[2] # k}
    /\ aborted' = aborted \ {k}

TimeoutEnds(k) ==
    /\ muted' = muted \ {k}
    /\ write' = [w \in Writes |->
                    IF write[w].author = k /\ ~Banned(k)
                    THEN [write[w] EXCEPT !.open = TRUE] ELSE write[w]]

\* handle_auth runs in the receive loop, one at a time.

Connect(s) ==
    /\ sock[s].phase = "closed"
    /\ sock' = [sock EXCEPT ![s].phase = "pending"]
    /\ UNCHANGED <<rows, cmd, write, inbox, queue, issued, missed, aborted>>

\* The auth tag that proves an owner may be left out of the AUTH event.

Authenticate(s) ==
    /\ sock[s].phase = "pending"
    /\ \E k \in Keys : \E o \in {NoKey, OwnerOf[k]} :
          sock' = [sock EXCEPT ![s] =
                     [@ EXCEPT !.phase = "self", !.key = k, !.owner = o,
                               !.open = ~Banned(k),
                               !.ownerOpen = (o = NoKey \/ ~Banned(o))]]
    /\ UNCHANGED <<rows, cmd, write, inbox, queue, issued, missed, aborted>>

\* A ban or a failed lookup refuses and closes the socket.

Deny(s) == sock' = [sock EXCEPT ![s] = Closed]

\* Mutant: a failed lookup lets the key through.

CheckSelf_FailsOpen(s) ==
    /\ sock[s].phase = "self"
    /\ \/ sock' = [sock EXCEPT ![s].phase =
                      IF sock[s].owner = NoKey THEN "gates" ELSE "owner"]
       \/ Banned(sock[s].key) /\ Deny(s)
    /\ UNCHANGED <<rows, cmd, write, inbox, queue, issued, missed, aborted>>

CheckSelf(s) ==
    /\ sock[s].phase = "self"
    /\ \/ /\ ~Banned(sock[s].key)
          /\ sock' = [sock EXCEPT ![s].phase =
                        IF sock[s].owner = NoKey THEN "gates" ELSE "owner"]
       \/ Deny(s)
    /\ UNCHANGED <<rows, cmd, write, inbox, queue, issued, missed, aborted>>

CheckOwner(s) ==
    /\ sock[s].phase = "owner"
    /\ \/ /\ ~Banned(sock[s].owner)
          /\ sock' = [sock EXCEPT ![s].phase = "gates"]
       \/ Deny(s)
    /\ UNCHANGED <<rows, cmd, write, inbox, queue, issued, missed, aborted>>

\* A failed verification, the allowlist or the membership gate: a refusal keeps
\* the socket, unauthenticated for good.

GateRefuses(s) ==
    /\ sock[s].phase \in {"pending", "gates"}
    /\ sock' = [sock EXCEPT ![s] = [Closed EXCEPT !.phase = "failed"]]
    /\ UNCHANGED <<rows, cmd, write, inbox, queue, issued, missed, aborted>>

SetAuthenticatedPubkey(s) ==
    /\ sock[s].phase = "gates"
    /\ sock' = [sock EXCEPT ![s].phase = "live"]
    /\ UNCHANGED <<rows, cmd, write, inbox, queue, issued, missed, aborted>>

\* The peer, a timeout or the cancelled token ends the connection.

Leave(s) ==
    /\ sock[s].phase \in {"pending", "failed", "live"}
    /\ sock' = [sock EXCEPT ![s] = Closed]
    /\ UNCHANGED <<rows, cmd, write, inbox, queue, issued, missed, aborted>>

----------------------------------------------------------------------------
\* ingest_event.  Events come over a socket or over HTTP, whose requests carry
\* a signature of their own: any key may submit.

Submit(w) ==
    /\ write[w].stage = "idle"
    /\ \E k \in Keys : write' = [write EXCEPT ![w] =
            [stage |-> "gate", author |-> k, open |-> ~Restricted(k)]]
    /\ UNCHANGED <<rows, sock, cmd, inbox, queue, issued, missed, aborted>>

WriteGate(w) ==
    /\ write[w].stage = "gate"
    /\ write' = [write EXCEPT ![w] =
            IF Restricted(write[w].author) THEN NoWrite ELSE [@ EXCEPT !.stage = "passed"]]
    /\ UNCHANGED <<rows, sock, cmd, inbox, queue, issued, missed, aborted>>

WriteGateFails(w) ==
    /\ write[w].stage = "gate"
    /\ write' = [write EXCEPT ![w] = NoWrite]
    /\ UNCHANGED <<rows, sock, cmd, inbox, queue, issued, missed, aborted>>

\* The rest of the pipeline stores the event or rejects it for other reasons.

WriteEnds(w) ==
    /\ write[w].stage = "passed"
    /\ write' = [write EXCEPT ![w] = NoWrite]
    /\ UNCHANGED <<rows, sock, cmd, inbox, queue, issued, missed, aborted>>

----------------------------------------------------------------------------
\* handle_moderation_command.  `open' is history: the actor has been free of a
\* ban at some instant since the command arrived.  A resolution's target is the
\* report; the field is not used.

Issue(c) ==
    /\ cmd[c].stage = "idle"
    /\ issued < MaxCommands
    /\ issued' = issued + 1
    /\ \E op \in Ops, a \in Keys, t \in Keys :
          /\ op = "resolve" => t = a
          /\ cmd' = [cmd EXCEPT ![c] = [stage |-> "check", op |-> op, actor |-> a,
                                        target |-> t, open |-> ~Banned(a)]]
    /\ UNCHANGED <<rows, sock, write, inbox, queue, missed, aborted>>

\* authorize_moderation_action with decide_authority for kinds 9040-9044.

May(op, actor, target) ==
    \/ Role[actor] = "owner"
    \/ /\ Role[actor] = "admin"
       /\ op \in {"ban", "timeout"} => Role[target] = "member"

Goto(c, stage) == cmd' = [cmd EXCEPT ![c].stage = stage]

Ends(c) == cmd' = [cmd EXCEPT ![c] = NoCommand]

CheckActor(c) ==
    /\ cmd[c].stage = "check"
    /\ IF ~Banned(cmd[c].actor) /\ May(cmd[c].op, cmd[c].actor, cmd[c].target)
       THEN Goto(c, IF cmd[c].op = "resolve" THEN "read" ELSE "write")
       ELSE Ends(c)
    /\ UNCHANGED <<rows, sock, write, inbox, queue, issued, missed, aborted>>

\* A command that was admitted and then loses its database ends; a ban whose
\* row was written by then is left without its enforcement.

CommandFails(c) ==
    /\ cmd[c].stage \in Stages \ {"idle", "enforce"}
    /\ aborted' = IF cmd[c].op = "ban" /\ cmd[c].stage = "audit"
                  THEN aborted \cup {cmd[c].target} ELSE aborted
    /\ Ends(c)
    /\ UNCHANGED <<rows, sock, write, inbox, queue, issued, missed>>

WriteBan(c) ==
    /\ cmd[c].stage = "write"
    /\ cmd[c].op = "ban"
    /\ ban' = [ban EXCEPT ![cmd[c].target] = "active"]
    /\ Goto(c, "audit")
    /\ UNCHANGED <<muted, sock, write, inbox, queue, issued, missed, aborted>>

\* unban_member updates a row with banned = true, the expired ones too.  The
\* history of the commands under way changes with the ban.

Freed(k, commands) ==
    [c \in Commands |-> IF commands[c].actor = k
                        THEN [commands[c] EXCEPT !.open = TRUE] ELSE commands[c]]

WriteUnban(c) ==
    /\ cmd[c].stage = "write"
    /\ cmd[c].op = "unban"
    /\ IF ban[cmd[c].target] = "none"
       THEN /\ Ends(c)
            /\ UNCHANGED <<ban, sock, write, missed, aborted>>
       ELSE /\ cmd' = Freed(cmd[c].target, [cmd EXCEPT ![c].stage = "audit"])
            /\ BanEnds(cmd[c].target, "none")
    /\ UNCHANGED <<muted, inbox, queue, issued>>

WriteTimeout(c) ==
    /\ cmd[c].stage = "write"
    /\ cmd[c].op = "timeout"
    /\ muted' = muted \cup {cmd[c].target}
    /\ Goto(c, "audit")
    /\ UNCHANGED <<ban, sock, write, inbox, queue, issued, missed, aborted>>

WriteUntimeout(c) ==
    /\ cmd[c].stage = "write"
    /\ cmd[c].op = "untimeout"
    /\ IF cmd[c].target \in muted
       THEN Goto(c, "audit") /\ TimeoutEnds(cmd[c].target)
       ELSE Ends(c) /\ UNCHANGED <<muted, write>>
    /\ UNCHANGED <<ban, sock, inbox, queue, issued, missed, aborted>>

\* insert_audit; what follows it depends on the command.

Audit(c) ==
    /\ cmd[c].stage = "audit"
    /\ CASE cmd[c].op = "ban" -> Goto(c, "enforce")
         [] cmd[c].op = "resolve" -> Goto(c, "close")
         [] OTHER -> Ends(c)
    /\ decisions' = IF cmd[c].op = "resolve"
                    THEN decisions \cup {cmd[c].actor} ELSE decisions
    /\ UNCHANGED <<rows, sock, write, inbox, report, replies, issued, missed, aborted>>

\* disconnect_pubkey_clusterwide: this pod's sockets, then a command to every
\* pod, this one included.  A publish that fails is a command every pod loses.
\* The pod that handles the command is any: nothing depended on it so far.

\* Mutant: other pods are not told.

Enforce_LocalOnly(c) ==
    /\ cmd[c].stage = "enforce"
    /\ \E p \in Pods : Scan(p, cmd[c].target)
    /\ aborted' = aborted \ {cmd[c].target}
    /\ Ends(c)
    /\ UNCHANGED <<rows, write, inbox, queue, issued, missed>>

Enforce(c) ==
    /\ cmd[c].stage = "enforce"
    /\ \E p \in Pods : Scan(p, cmd[c].target)
    /\ inbox' = [p \in Pods |-> [inbox[p] EXCEPT ![cmd[c].target] = @ + 1]]
    /\ aborted' = aborted \ {cmd[c].target}
    /\ Ends(c)
    /\ UNCHANGED <<rows, write, queue, issued, missed>>

\* handle_resolve: the early check, the audit row (Audit), then the update that
\* only takes an open report, and the notice to the reporter, which may fail.

ReadReport(c) ==
    /\ cmd[c].stage = "read"
    /\ IF report = "open" THEN Goto(c, "audit") ELSE Ends(c)
    /\ UNCHANGED <<rows, sock, write, inbox, queue, issued, missed, aborted>>

\* Mutant: the update takes a report that is no longer open.

CloseReport_Unguarded(c) ==
    /\ cmd[c].stage = "close"
    /\ report' = cmd[c].actor
    /\ replies' \in {replies, replies + 1}
    /\ Ends(c)
    /\ UNCHANGED <<rows, sock, write, inbox, decisions, issued, missed, aborted>>

CloseReport(c) ==
    /\ cmd[c].stage = "close"
    /\ IF report = "open"
       THEN report' = cmd[c].actor /\ replies' \in {replies, replies + 1}
       ELSE UNCHANGED <<report, replies>>
    /\ Ends(c)
    /\ UNCHANGED <<rows, sock, write, inbox, decisions, issued, missed, aborted>>

----------------------------------------------------------------------------
\* The connection-control consumer of a pod.

Deliver(p, k) ==
    /\ inbox[p][k] > 0
    /\ inbox' = [inbox EXCEPT ![p][k] = @ - 1]
    /\ Scan(p, k)
    /\ missed' = missed \ {<<p, k>>}
    /\ UNCHANGED <<rows, cmd, write, queue, issued, aborted>>

\* A failed publish, a lagging consumer or a subscriber that is reconnecting.

LoseCommand(p, k) ==
    /\ inbox[p][k] > 0
    /\ inbox' = [inbox EXCEPT ![p][k] = @ - 1]
    /\ missed' = missed \cup {<<p, k>>}
    /\ UNCHANGED <<rows, sock, cmd, write, queue, issued, aborted>>

\* Time passes an expiration.

BanExpires(k) ==
    /\ ban[k] = "active"
    /\ BanEnds(k, "expired")
    /\ cmd' = Freed(k, cmd)
    /\ UNCHANGED <<muted, inbox, queue, issued>>

TimeoutExpires(k) ==
    /\ k \in muted
    /\ TimeoutEnds(k)
    /\ UNCHANGED <<ban, sock, cmd, inbox, queue, issued, missed, aborted>>

----------------------------------------------------------------------------
Authentication(s) ==
    \/ Connect(s) \/ Authenticate(s) \/ CheckSelf(s) \/ CheckOwner(s)
    \/ GateRefuses(s) \/ SetAuthenticatedPubkey(s) \/ Leave(s)

Ingest(w) ==
    \/ Submit(w) \/ WriteGate(w) \/ WriteGateFails(w) \/ WriteEnds(w)

Handling(c) ==
    \/ CheckActor(c) \/ CommandFails(c) \/ WriteBan(c) \/ WriteUnban(c)
    \/ WriteTimeout(c) \/ WriteUntimeout(c) \/ Audit(c) \/ Enforce(c)
    \/ ReadReport(c) \/ CloseReport(c)

Control(p, k) == Deliver(p, k) \/ LoseCommand(p, k)

ModNext ==
    \/ \E s \in Sockets : Authentication(s)
    \/ \E w \in Writes : Ingest(w)
    \/ \E c \in Commands : Issue(c) \/ Handling(c)
    \/ \E p \in Pods, k \in Keys : Control(p, k)
    \/ \E k \in Keys : BanExpires(k) \/ TimeoutExpires(k)

ModSpec == ModInit /\ [][ModNext]_vars

\* A handler that was spawned runs to its end, and the consumer of a pod goes on
\* while commands for it are on their way.

FairModSpec ==
    /\ ModSpec
    /\ \A c \in Commands : WF_vars(Handling(c))
    /\ \A p \in Pods : WF_vars(\E k \in Keys : Control(p, k))

----------------------------------------------------------------------------
\* Type invariant: a closed or unauthenticated connection has no key, and the
\* reporter's notices and the commands on their way come from issued commands.

ModTypeOK ==
    /\ ban \in [Keys -> {"none", "active", "expired"}]
    /\ muted \in SUBSET Keys
    /\ sock \in [Sockets -> [phase : Phases, key : Keys \cup {NoKey},
                             owner : Keys \cup {NoKey}, open : BOOLEAN,
                             ownerOpen : BOOLEAN, overtaken : BOOLEAN]]
    /\ \A s \in Sockets :
          sock[s].phase \in {"closed", "pending", "failed"} <=> sock[s].key = NoKey
    /\ cmd \in [Commands -> [stage : Stages, op : Ops \cup {"none"},
                             actor : Keys \cup {NoKey}, target : Keys \cup {NoKey},
                             open : BOOLEAN]]
    /\ \A c \in Commands : cmd[c].stage # "idle" =>
          cmd[c].op \in Ops /\ cmd[c].actor \in Keys /\ cmd[c].target \in Keys
    /\ write \in [Writes -> [stage : {"idle", "gate", "passed"},
                             author : Keys \cup {NoKey}, open : BOOLEAN]]
    /\ \A w \in Writes : write[w].stage # "idle" => write[w].author \in Keys
    /\ inbox \in [Pods -> [Keys -> Nat]]
    /\ report \in Keys \cup {"open"}
    /\ decisions \in SUBSET Keys
    /\ replies \in Nat
    /\ issued \in 0..MaxCommands
    /\ missed \in SUBSET (Pods \X Keys)
    /\ aborted \in SUBSET Keys

\* A restriction that is in force from the arrival of a request on is enforced
\* by it, whatever happens in between: no socket is admitted for a banned key
\* or the agent of a banned owner that shows its tag, no event of a restricted
\* author passes the write gate, and no banned actor's command gets to its
\* effect.  (auth.rs, ingest.rs and moderation_commands.rs look the row up
\* separately, and a failed lookup must refuse.)

RestrictionsHold ==
    /\ \A s \in Sockets : sock[s].phase \in {"gates", "live"} =>
          sock[s].open /\ sock[s].ownerOpen
    /\ \A w \in Writes : write[w].stage = "passed" => write[w].open
    /\ \A c \in Commands : cmd[c].stage \notin {"idle", "check"} => cmd[c].open

Survives(s) == sock[s].phase = "live" /\ Banned(sock[s].key)

\* The ways a session outlives a ban that is no longer being enforced: its AUTH
\* was past the ban lookup when the scan ran, its pod never got the command, or
\* the ban's handler failed after it had written the row.

Excused(s) ==
    \/ sock[s].overtaken
    \/ <<PodOf[s], sock[s].key>> \in missed
    \/ sock[s].key \in aborted

\* disconnect_pubkey_clusterwide reaches "everywhere, including live sessions"
\* but for those: a banned key's session is otherwise still to be met by the
\* ban's own handler or by a command on its way to the session's pod.

SurvivorIsExplained ==
    \A s \in Sockets : Survives(s) =>
        \/ Excused(s)
        \/ inbox[PodOf[s]][sock[s].key] > 0
        \/ \E c \in Commands : /\ cmd[c].op = "ban"
                               /\ cmd[c].target = sock[s].key
                               /\ cmd[c].stage \in {"audit", "enforce"}

\* Two moderators resolving the same report: it is closed once, by one that
\* left an audit row, and its reporter is told at most once.

ReportClosedOnce ==
    /\ replies <= IF report = "open" THEN 0 ELSE 1
    /\ report # "open" => report \in decisions

\* A session of a banned key does not stay: it ends, the ban ends, or one of
\* the excuses applies.

BansSettle ==
    \A s \in Sockets : Survives(s) ~> (~Survives(s) \/ Excused(s))

=============================================================================
