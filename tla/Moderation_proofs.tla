------------------------- MODULE Moderation_proofs -------------------------
(***************************************************************************)
(* Proofs about Moderation for every set of keys, pods, sockets, commands  *)
(* and writes.                                                             *)
(***************************************************************************)
EXTENDS Moderation, TLAPS

Sock == [phase : Phases, key : Keys \cup {NoKey}, owner : Keys \cup {NoKey},
         open : BOOLEAN, ownerOpen : BOOLEAN, overtaken : BOOLEAN]

\* What a scan leaves of a socket.

LEMMA ScanCases ==
    ASSUME NEW p \in Pods, NEW k \in Keys, ModTypeOK, Scan(p, k), NEW s \in Sockets
    PROVE  \/ sock'[s] = Closed
           \/ /\ sock'[s] = [sock[s] EXCEPT !.overtaken = TRUE]
              /\ sock[s].phase \in {"owner", "gates"}
           \/ /\ sock'[s] = sock[s]
              /\ PodOf[s] = p /\ sock[s].key = k =>
                    sock[s].phase \notin {"owner", "gates", "live"}
BY DEF Scan, Scanned, ModTypeOK

LEMMA ClosedTyped == Closed \in Sock
BY DEF Closed, Sock, Phases

LEMMA ScanTyped ==
    ASSUME NEW p \in Pods, NEW k \in Keys, ModTypeOK, Scan(p, k)
    PROVE  /\ sock' \in [Sockets -> Sock]
           /\ \A s \in Sockets :
                 sock'[s].phase \in {"closed", "pending", "failed"} <=> sock'[s].key = NoKey
<1>1. ASSUME NEW s \in Sockets
      PROVE  /\ sock'[s] \in Sock
             /\ sock'[s].phase \in {"closed", "pending", "failed"} <=> sock'[s].key = NoKey
  <2>1. sock[s] \in Sock
    BY DEF ModTypeOK, Sock
  <2>2. sock[s].phase \in {"closed", "pending", "failed"} <=> sock[s].key = NoKey
    BY DEF ModTypeOK
  <2>3. CASE sock'[s] = Closed
    BY <2>3, ClosedTyped DEF Closed
  <2>4. CASE /\ sock'[s] = [sock[s] EXCEPT !.overtaken = TRUE]
             /\ sock[s].phase \in {"owner", "gates"}
    BY <2>1, <2>2, <2>4 DEF Sock
  <2>5. CASE sock'[s] = sock[s]
    BY <2>1, <2>2, <2>5
  <2>6. QED
    BY <2>3, <2>4, <2>5, ScanCases
<1>2. sock' = [s \in Sockets |-> sock'[s]]
  BY DEF Scan, Scanned
<1>3. QED
  BY <1>1, <1>2

\* The end of a ban or of a timeout changes history only.

WriteOK(f) ==
    /\ f \in [Writes -> [stage : {"idle", "gate", "passed"},
                         author : Keys \cup {NoKey}, open : BOOLEAN]]
    /\ \A w \in Writes : f[w].stage # "idle" => f[w].author \in Keys

LEMMA OpenedTyped ==
    ASSUME NEW f, NEW g, WriteOK(f), g = [w \in Writes |-> g[w]],
           \A w \in Writes : g[w] = f[w] \/ g[w] = [f[w] EXCEPT !.open = TRUE]
    PROVE  WriteOK(g)
<1>1. ASSUME NEW w \in Writes
      PROVE  /\ g[w] \in [stage : {"idle", "gate", "passed"},
                           author : Keys \cup {NoKey}, open : BOOLEAN]
             /\ g[w].stage # "idle" => g[w].author \in Keys
  <2>1. f[w] \in [stage : {"idle", "gate", "passed"},
                  author : Keys \cup {NoKey}, open : BOOLEAN]
    BY DEF WriteOK
  <2>2. f[w].stage # "idle" => f[w].author \in Keys
    BY DEF WriteOK
  <2>3. CASE g[w] = f[w]
    BY <2>1, <2>2, <2>3
  <2>4. CASE g[w] = [f[w] EXCEPT !.open = TRUE]
    BY <2>1, <2>2, <2>4
  <2>5. QED
    BY <2>3, <2>4
<1>2. QED
  BY <1>1 DEF WriteOK

LEMMA BanEndsTyped ==
    ASSUME NEW k \in Keys, NEW v \in {"none", "expired"}, ModTypeOK, BanEnds(k, v)
    PROVE  /\ ban' \in [Keys -> {"none", "active", "expired"}]
           /\ sock' \in [Sockets -> Sock]
           /\ \A s \in Sockets :
                 sock'[s].phase \in {"closed", "pending", "failed"} <=> sock'[s].key = NoKey
           /\ write' \in [Writes -> [stage : {"idle", "gate", "passed"},
                                     author : Keys \cup {NoKey}, open : BOOLEAN]]
           /\ \A w \in Writes : write'[w].stage # "idle" => write'[w].author \in Keys
           /\ missed' \in SUBSET (Pods \X Keys)
           /\ aborted' \in SUBSET Keys
<1>1. /\ ban' \in [Keys -> {"none", "active", "expired"}]
      /\ missed' \in SUBSET (Pods \X Keys)
      /\ aborted' \in SUBSET Keys
  BY DEF BanEnds, ModTypeOK
<1>2. /\ write' \in [Writes -> [stage : {"idle", "gate", "passed"},
                               author : Keys \cup {NoKey}, open : BOOLEAN]]
      /\ \A w \in Writes : write'[w].stage # "idle" => write'[w].author \in Keys
  <2>1. WriteOK(write)
    BY DEF WriteOK, ModTypeOK
  <2>2. /\ write' = [w \in Writes |-> write'[w]]
        /\ \A w \in Writes : \/ write'[w] = write[w]
                             \/ write'[w] = [write[w] EXCEPT !.open = TRUE]
    BY DEF BanEnds
  <2>3. WriteOK(write')
    BY <2>1, <2>2, OpenedTyped
  <2>4. QED
    BY <2>3 DEF WriteOK
<1>3. ASSUME NEW s \in Sockets
      PROVE  /\ sock'[s] \in Sock
             /\ sock'[s].phase = sock[s].phase
             /\ sock'[s].key = sock[s].key
  <2>1. sock[s] \in Sock
    BY DEF ModTypeOK, Sock
  <2> DEFINE a == IF sock[s].key = k THEN TRUE ELSE sock[s].open
             b == IF sock[s].owner = k THEN TRUE ELSE sock[s].ownerOpen
  <2>2. a \in BOOLEAN /\ b \in BOOLEAN
    BY <2>1 DEF Sock
  <2>3. sock'[s] = [sock[s] EXCEPT !.open = a, !.ownerOpen = b]
    BY DEF BanEnds
  <2> HIDE DEF a, b
  <2>4. QED
    BY <2>1, <2>2, <2>3 DEF Sock
<1>4. sock' = [s \in Sockets |-> sock'[s]]
  BY DEF BanEnds
<1>5. QED
  BY <1>1, <1>2, <1>3, <1>4 DEF ModTypeOK

LEMMA TimeoutEndsTyped ==
    ASSUME NEW k \in Keys, ModTypeOK, TimeoutEnds(k)
    PROVE  /\ muted' \in SUBSET Keys
           /\ write' \in [Writes -> [stage : {"idle", "gate", "passed"},
                                     author : Keys \cup {NoKey}, open : BOOLEAN]]
           /\ \A w \in Writes : write'[w].stage # "idle" => write'[w].author \in Keys
<1>1. WriteOK(write)
  BY DEF WriteOK, ModTypeOK
<1>2. /\ write' = [w \in Writes |-> write'[w]]
      /\ \A w \in Writes : \/ write'[w] = write[w]
                           \/ write'[w] = [write[w] EXCEPT !.open = TRUE]
  BY DEF TimeoutEnds
<1>3. WriteOK(write')
  BY <1>1, <1>2, OpenedTyped
<1>4. muted' \in SUBSET Keys
  BY DEF TimeoutEnds, ModTypeOK
<1>5. QED
  BY <1>3, <1>4 DEF WriteOK

LEMMA FreedTyped ==
    ASSUME NEW k \in Keys, NEW f,
           f \in [Commands -> [stage : Stages, op : Ops \cup {"none"},
                               actor : Keys \cup {NoKey}, target : Keys \cup {NoKey},
                               open : BOOLEAN]],
           \A c \in Commands : f[c].stage # "idle" =>
               f[c].op \in Ops /\ f[c].actor \in Keys /\ f[c].target \in Keys
    PROVE  /\ Freed(k, f) \in [Commands -> [stage : Stages, op : Ops \cup {"none"},
                               actor : Keys \cup {NoKey}, target : Keys \cup {NoKey},
                               open : BOOLEAN]]
           /\ \A c \in Commands : Freed(k, f)[c].stage # "idle" =>
               /\ Freed(k, f)[c].op \in Ops
               /\ Freed(k, f)[c].actor \in Keys
               /\ Freed(k, f)[c].target \in Keys
BY DEF Freed

----------------------------------------------------------------------------
\* One lemma per group of actions.

LEMMA AuthenticationTyped ==
    ASSUME NEW s \in Sockets, ModTypeOK, Authentication(s)
    PROVE  ModTypeOK'
<1> USE ClosedTyped, OwnerAssumption, NoKeyAssumption
<1>0. sock \in [Sockets -> Sock] /\ sock[s] \in Sock
  BY DEF ModTypeOK, Sock
<1>1. ASSUME NEW r \in Sock, sock' = [sock EXCEPT ![s] = r],
             r.phase \in {"closed", "pending", "failed"} <=> r.key = NoKey,
             UNCHANGED <<rows, cmd, write, inbox, queue, issued, missed, aborted>>
      PROVE  ModTypeOK'
  <2>1. sock' \in [Sockets -> Sock]
    BY <1>0, <1>1
  <2>2. \A t \in Sockets :
          sock'[t].phase \in {"closed", "pending", "failed"} <=> sock'[t].key = NoKey
    BY <1>0, <1>1 DEF ModTypeOK
  <2>3. QED
    BY <1>1, <2>1, <2>2 DEF ModTypeOK, Sock, rows, queue
<1>2. CASE Connect(s)
  <2>1. sock' = [sock EXCEPT ![s] = [sock[s] EXCEPT !.phase = "pending"]]
    BY <1>2 DEF Connect
  <2>2. [sock[s] EXCEPT !.phase = "pending"] \in Sock
    BY <1>0 DEF Sock, Phases
  <2>3. [sock[s] EXCEPT !.phase = "pending"].key = NoKey
    BY <1>2, <1>0 DEF Connect, ModTypeOK, Sock
  <2>4. [sock[s] EXCEPT !.phase = "pending"].phase = "pending"
    BY <1>0 DEF Sock
  <2>5. QED
    BY <1>1, <1>2, <2>1, <2>2, <2>3, <2>4 DEF Connect
<1>3. CASE Authenticate(s)
  <2>1. PICK k \in Keys : \E o \in {NoKey, OwnerOf[k]} :
          sock' = [sock EXCEPT ![s] =
                     [sock[s] EXCEPT !.phase = "self", !.key = k, !.owner = o,
                               !.open = ~Banned(k),
                               !.ownerOpen = (o = NoKey \/ ~Banned(o))]]
    BY <1>3 DEF Authenticate
  <2>11. PICK o \in {NoKey, OwnerOf[k]} :
          sock' = [sock EXCEPT ![s] =
                     [sock[s] EXCEPT !.phase = "self", !.key = k, !.owner = o,
                               !.open = ~Banned(k),
                               !.ownerOpen = (o = NoKey \/ ~Banned(o))]]
    BY <2>1
  <2> DEFINE r == [sock[s] EXCEPT !.phase = "self", !.key = k, !.owner = o,
                               !.open = ~Banned(k),
                               !.ownerOpen = (o = NoKey \/ ~Banned(o))]
  <2>2. r \in Sock /\ r.phase = "self" /\ r.key = k
    BY <1>0 DEF Sock, Phases
  <2>3. k # NoKey
    OBVIOUS
  <2>4. QED
    BY <1>1, <1>3, <2>11, <2>2, <2>3 DEF Authenticate
<1>4. ASSUME NEW h \in Phases \ {"closed", "pending", "failed"},
             sock[s].phase \notin {"closed", "pending", "failed"},
             sock' = [sock EXCEPT ![s].phase = h],
             UNCHANGED <<rows, cmd, write, inbox, queue, issued, missed, aborted>>
      PROVE  ModTypeOK'
  <2> DEFINE r == [sock[s] EXCEPT !.phase = h]
  <2>1. r \in Sock /\ r.phase = h /\ r.key = sock[s].key
    BY <1>0 DEF Sock
  <2>2. sock[s].key # NoKey
    BY <1>4 DEF ModTypeOK
  <2>3. sock' = [sock EXCEPT ![s] = r]
    BY <1>4
  <2>4. QED
    BY <1>1, <1>4, <2>1, <2>2, <2>3
<1>5. ASSUME sock' = [sock EXCEPT ![s] = Closed],
             UNCHANGED <<rows, cmd, write, inbox, queue, issued, missed, aborted>>
      PROVE  ModTypeOK'
  BY <1>1, <1>5 DEF Closed
<1>6. CASE CheckSelf(s)
  BY <1>4, <1>5, <1>6 DEF CheckSelf, Deny, Phases
<1>7. CASE CheckOwner(s)
  BY <1>4, <1>5, <1>7 DEF CheckOwner, Deny, Phases
<1>8. CASE GateRefuses(s)
  <2> DEFINE r == [Closed EXCEPT !.phase = "failed"]
  <2>1. r \in Sock /\ r.phase = "failed" /\ r.key = NoKey
    BY DEF Closed, Sock, Phases
  <2>2. QED
    BY <1>1, <1>8, <2>1 DEF GateRefuses
<1>9. CASE SetAuthenticatedPubkey(s)
  BY <1>4, <1>9 DEF SetAuthenticatedPubkey, Phases
<1>10. CASE Leave(s)
  BY <1>5, <1>10 DEF Leave
<1>11. QED
  BY <1>2, <1>3, <1>6, <1>7, <1>8, <1>9, <1>10 DEF Authentication

LEMMA IngestTyped ==
    ASSUME NEW w \in Writes, ModTypeOK, Ingest(w)
    PROVE  ModTypeOK'
<1>1. CASE Submit(w)
  BY <1>1 DEF Submit, ModTypeOK, rows, queue
<1>2. CASE WriteGate(w)
  BY <1>2 DEF WriteGate, ModTypeOK, rows, queue, NoWrite
<1>3. CASE WriteGateFails(w)
  BY <1>3 DEF WriteGateFails, ModTypeOK, rows, queue, NoWrite
<1>4. CASE WriteEnds(w)
  BY <1>4 DEF WriteEnds, ModTypeOK, rows, queue, NoWrite
<1>5. QED
  BY <1>1, <1>2, <1>3, <1>4 DEF Ingest

CmdOK(f) ==
    /\ f \in [Commands -> [stage : Stages, op : Ops \cup {"none"},
                           actor : Keys \cup {NoKey}, target : Keys \cup {NoKey},
                           open : BOOLEAN]]
    /\ \A c \in Commands : f[c].stage # "idle" =>
          f[c].op \in Ops /\ f[c].actor \in Keys /\ f[c].target \in Keys

LEMMA GotoTyped ==
    ASSUME NEW c \in Commands, ModTypeOK, cmd[c].stage # "idle", NEW t \in Stages
    PROVE  /\ Goto(c, t) => CmdOK(cmd')
           /\ Ends(c) => CmdOK(cmd')
           /\ cmd[c].op \in Ops /\ cmd[c].actor \in Keys /\ cmd[c].target \in Keys
<1>1. Goto(c, t) => CmdOK(cmd')
  BY DEF ModTypeOK, Goto, CmdOK
<1>2. Ends(c) => CmdOK(cmd')
  BY DEF ModTypeOK, Ends, CmdOK, NoCommand, Stages
<1>3. QED
  BY <1>1, <1>2 DEF ModTypeOK

LEMMA CommandTyped ==
    ASSUME NEW c \in Commands, ModTypeOK, Issue(c) \/ Handling(c)
    PROVE  ModTypeOK'
<1>1. CASE Issue(c)
  <2>1. CmdOK(cmd')
    BY <1>1 DEF Issue, ModTypeOK, CmdOK, Stages
  <2>2. issued' \in 0..MaxCommands
    BY <1>1, MaxCommandsAssumption DEF Issue, ModTypeOK
  <2>3. QED
    BY <1>1, <2>1, <2>2 DEF Issue, ModTypeOK, CmdOK, rows, queue
<1>2. ASSUME cmd[c].stage # "idle"
      PROVE  Handling(c) => ModTypeOK'
  <2>0. cmd[c].op \in Ops /\ cmd[c].actor \in Keys /\ cmd[c].target \in Keys
    BY <1>2, GotoTyped DEF Stages
  <2>1. CASE CheckActor(c)
    <3>1. CmdOK(cmd')
      BY <1>2, <2>1, GotoTyped DEF CheckActor, Stages
    <3>2. QED
      BY <2>1, <3>1 DEF CheckActor, ModTypeOK, CmdOK, rows, queue
  <2>2. CASE CommandFails(c)
    <3>1. CmdOK(cmd')
      BY <1>2, <2>2, GotoTyped DEF CommandFails, Stages
    <3>2. QED
      BY <2>0, <2>2, <3>1 DEF CommandFails, ModTypeOK, CmdOK, rows, queue
  <2>3. CASE WriteBan(c)
    <3>1. CmdOK(cmd')
      BY <1>2, <2>3, GotoTyped DEF WriteBan, Stages
    <3>2. QED
      BY <2>0, <2>3, <3>1 DEF WriteBan, ModTypeOK, CmdOK, queue
  <2>4. CASE WriteUnban(c)
    <3>1. CASE ban[cmd[c].target] = "none"
      <4>1. CmdOK(cmd')
        BY <1>2, <2>4, <3>1, GotoTyped DEF WriteUnban, Stages
      <4>2. QED
        BY <2>4, <3>1, <4>1 DEF WriteUnban, ModTypeOK, CmdOK, queue
    <3>2. CASE ban[cmd[c].target] # "none"
      <4> DEFINE f == [cmd EXCEPT ![c].stage = "audit"]
      <4>1. CmdOK(f)
        <5>1. "audit" \in Stages
          BY DEF Stages
        <5>2. cmd \in [Commands -> [stage : Stages, op : Ops \cup {"none"},
                                    actor : Keys \cup {NoKey}, target : Keys \cup {NoKey},
                                    open : BOOLEAN]]
          BY DEF ModTypeOK
        <5>3. f \in [Commands -> [stage : Stages, op : Ops \cup {"none"},
                                  actor : Keys \cup {NoKey}, target : Keys \cup {NoKey},
                                  open : BOOLEAN]]
          BY <5>1, <5>2
        <5>4. ASSUME NEW d \in Commands, f[d].stage # "idle"
              PROVE  f[d].op \in Ops /\ f[d].actor \in Keys /\ f[d].target \in Keys
          <6>1. CASE d = c
            BY <2>0, <5>2, <6>1
          <6>2. CASE d # c
            <7>1. f[d] = cmd[d]
              BY <5>2, <6>2
            <7>2. QED
              BY <5>4, <7>1 DEF ModTypeOK
          <6>3. QED
            BY <6>1, <6>2
        <5>5. QED
          BY <5>3, <5>4 DEF CmdOK
      <4>2. CmdOK(Freed(cmd[c].target, f))
        BY <2>0, <4>1, FreedTyped DEF CmdOK
      <4>3. CmdOK(cmd') /\ BanEnds(cmd[c].target, "none")
        BY <2>4, <3>2, <4>2 DEF WriteUnban
      <4>4. UNCHANGED <<muted, inbox, queue, issued>>
        BY <2>4 DEF WriteUnban
      <4> HIDE DEF f
      <4>5. QED
        BY <2>0, <4>3, <4>4, BanEndsTyped DEF ModTypeOK, CmdOK, queue, Sock
    <3>3. QED
      BY <3>1, <3>2
  <2>5. CASE WriteTimeout(c)
    <3>1. CmdOK(cmd')
      BY <1>2, <2>5, GotoTyped DEF WriteTimeout, Stages
    <3>2. QED
      BY <2>0, <2>5, <3>1 DEF WriteTimeout, ModTypeOK, CmdOK, queue
  <2>6. CASE WriteUntimeout(c)
    <3>1. CmdOK(cmd')
      BY <1>2, <2>6, GotoTyped DEF WriteUntimeout, Stages
    <3>2. QED
      BY <2>0, <2>6, <3>1, TimeoutEndsTyped DEF WriteUntimeout, ModTypeOK, CmdOK, queue
  <2>7. CASE Audit(c)
    <3>1. CmdOK(cmd')
      BY <1>2, <2>7, GotoTyped DEF Audit, Stages
    <3>2. QED
      BY <2>0, <2>7, <3>1 DEF Audit, ModTypeOK, CmdOK, rows
  <2>8. CASE Enforce(c)
    <3>1. CmdOK(cmd')
      BY <1>2, <2>8, GotoTyped DEF Enforce, Stages
    <3>2. PICK p \in Pods : Scan(p, cmd[c].target)
      BY <2>8 DEF Enforce
    <3>3. inbox' \in [Pods -> [Keys -> Nat]]
      BY <2>0, <2>8 DEF Enforce, ModTypeOK
    <3>4. QED
      BY <2>0, <2>8, <3>1, <3>2, <3>3, ScanTyped
      DEF Enforce, ModTypeOK, CmdOK, rows, queue, Sock
  <2>9. CASE ReadReport(c)
    <3>1. CmdOK(cmd')
      BY <1>2, <2>9, GotoTyped DEF ReadReport, Stages
    <3>2. QED
      BY <2>9, <3>1 DEF ReadReport, ModTypeOK, CmdOK, rows, queue
  <2>10. CASE CloseReport(c)
    <3>1. CmdOK(cmd')
      BY <1>2, <2>10, GotoTyped DEF CloseReport, Stages
    <3>2. QED
      BY <2>0, <2>10, <3>1 DEF CloseReport, ModTypeOK, CmdOK, rows
  <2>11. QED
    BY <2>1, <2>2, <2>3, <2>4, <2>5, <2>6, <2>7, <2>8, <2>9, <2>10 DEF Handling
<1>3. Handling(c) => cmd[c].stage # "idle"
  BY DEF Handling, CheckActor, CommandFails, WriteBan, WriteUnban, WriteTimeout,
         WriteUntimeout, Audit, Enforce, ReadReport, CloseReport
<1>4. QED
  BY <1>1, <1>2, <1>3

LEMMA ControlTyped ==
    ASSUME NEW p \in Pods, NEW k \in Keys, ModTypeOK, Control(p, k)
    PROVE  ModTypeOK'
<1>1. inbox' \in [Pods -> [Keys -> Nat]]
  <2>1. inbox[p][k] \in Nat /\ inbox[p][k] > 0
    BY DEF Control, Deliver, LoseCommand, ModTypeOK
  <2>2. inbox' = [inbox EXCEPT ![p] = [inbox[p] EXCEPT ![k] = inbox[p][k] - 1]]
    BY DEF Control, Deliver, LoseCommand
  <2>3. [inbox[p] EXCEPT ![k] = inbox[p][k] - 1] \in [Keys -> Nat]
    BY <2>1 DEF ModTypeOK
  <2>4. QED
    BY <2>2, <2>3 DEF ModTypeOK
<1>2. CASE Deliver(p, k)
  BY <1>1, <1>2, ScanTyped DEF Deliver, ModTypeOK, rows, queue, Sock
<1>3. CASE LoseCommand(p, k)
  BY <1>1, <1>3 DEF LoseCommand, ModTypeOK, rows, queue
<1>4. QED
  BY <1>2, <1>3 DEF Control

LEMMA ExpiryTyped ==
    ASSUME NEW k \in Keys, ModTypeOK, BanExpires(k) \/ TimeoutExpires(k)
    PROVE  ModTypeOK'
<1>1. CASE BanExpires(k)
  <2>1. CmdOK(cmd')
    BY <1>1, FreedTyped DEF BanExpires, ModTypeOK, CmdOK
  <2>2. QED
    BY <1>1, <2>1, BanEndsTyped DEF BanExpires, ModTypeOK, CmdOK, queue, Sock
<1>2. CASE TimeoutExpires(k)
  BY <1>2, TimeoutEndsTyped DEF TimeoutExpires, ModTypeOK, queue
<1>3. QED
  BY <1>1, <1>2

\* Every connection, handler and message stays well-formed; a closed socket
\* gives up its key.

THEOREM ModTyped == ModSpec => []ModTypeOK
<1>1. ModInit => ModTypeOK
  BY NoKeyAssumption, MaxCommandsAssumption
  DEF ModInit, ModTypeOK, Closed, NoCommand, NoWrite, Phases, Stages
<1>2. ModTypeOK /\ [ModNext]_vars => ModTypeOK'
  <2> SUFFICES ASSUME ModTypeOK, [ModNext]_vars PROVE ModTypeOK'
    OBVIOUS
  <2>1. CASE ModNext
    BY <2>1, AuthenticationTyped, IngestTyped, CommandTyped, ControlTyped, ExpiryTyped
    DEF ModNext
  <2>2. CASE UNCHANGED vars
    BY <2>2 DEF vars, ModTypeOK
  <2>3. QED
    BY <2>1, <2>2
<1>3. QED
  BY <1>1, <1>2, PTL DEF ModSpec

----------------------------------------------------------------------------
\* Restrictions.  The inductive part: as long as a request has only met the
\* ban, the ban is still in force.

SocketHeld(s) ==
    /\ sock[s].key \in Keys => Banned(sock[s].key) \/ sock[s].open
    /\ sock[s].owner \in Keys => Banned(sock[s].owner) \/ sock[s].ownerOpen
    /\ sock[s].owner = NoKey => sock[s].ownerOpen
    /\ sock[s].phase \in {"owner", "gates", "live"} => sock[s].open
    /\ sock[s].phase \in {"gates", "live"} => sock[s].ownerOpen

WriteHeld(w) ==
    /\ write[w].author \in Keys => Restricted(write[w].author) \/ write[w].open
    /\ write[w].stage = "passed" => write[w].open

CommandHeld(c) ==
    /\ cmd[c].actor \in Keys => Banned(cmd[c].actor) \/ cmd[c].open
    /\ cmd[c].stage \notin {"idle", "check"} => cmd[c].open

Held ==
    /\ \A s \in Sockets : SocketHeld(s)
    /\ \A w \in Writes : WriteHeld(w)
    /\ \A c \in Commands : CommandHeld(c)

\* What a step of each kind does to the rows.

LEMMA RowSteps ==
    ASSUME ModTypeOK, [ModNext]_vars
    PROVE  \/ /\ \A k \in Keys : Banned(k) => Banned(k)'
              /\ muted \subseteq muted'
           \/ \E k \in Keys : \E v \in {"none", "expired"} : BanEnds(k, v) /\ UNCHANGED muted
           \/ \E k \in Keys : TimeoutEnds(k) /\ UNCHANGED ban
<1>1. CASE UNCHANGED vars
  BY <1>1 DEF vars, Banned
<1>2. ASSUME NEW s \in Sockets, Authentication(s)
      PROVE  UNCHANGED rows
  BY <1>2 DEF Authentication, Connect, Authenticate, CheckSelf, CheckOwner, GateRefuses,
              SetAuthenticatedPubkey, Leave
<1>3. ASSUME NEW w \in Writes, Ingest(w)
      PROVE  UNCHANGED rows
  BY <1>3 DEF Ingest, Submit, WriteGate, WriteGateFails, WriteEnds
<1>4. ASSUME NEW c \in Commands, Issue(c) \/ Handling(c)
      PROVE  \/ UNCHANGED rows
             \/ WriteBan(c)
             \/ WriteTimeout(c)
             \/ cmd[c].target \in Keys /\ BanEnds(cmd[c].target, "none") /\ UNCHANGED muted
             \/ cmd[c].target \in Keys /\ TimeoutEnds(cmd[c].target) /\ UNCHANGED ban
  <2>1. cmd[c].stage = "write" => cmd[c].target \in Keys
    BY DEF ModTypeOK
  <2>2. CASE WriteUnban(c)
    BY <2>1, <2>2 DEF WriteUnban, rows
  <2>3. CASE WriteUntimeout(c)
    BY <2>1, <2>3 DEF WriteUntimeout, rows
  <2>4. QED
    BY <1>4, <2>2, <2>3
    DEF Handling, Issue, CheckActor, CommandFails, Audit, Enforce, ReadReport, CloseReport
<1>5. ASSUME NEW c \in Commands, WriteBan(c) \/ WriteTimeout(c)
      PROVE  (\A k \in Keys : Banned(k) => Banned(k)') /\ muted \subseteq muted'
  BY <1>5 DEF WriteBan, WriteTimeout, Banned, ModTypeOK
<1>6. ASSUME NEW q \in Pods, NEW k \in Keys, Control(q, k)
      PROVE  UNCHANGED rows
  BY <1>6 DEF Control, Deliver, LoseCommand
<1>7. ASSUME NEW k \in Keys, BanExpires(k) \/ TimeoutExpires(k)
      PROVE  \/ BanEnds(k, "expired") /\ UNCHANGED muted
             \/ TimeoutEnds(k) /\ UNCHANGED ban
  BY <1>7 DEF BanExpires, TimeoutExpires
<1>8. UNCHANGED rows => (\A k \in Keys : Banned(k) => Banned(k)') /\ muted \subseteq muted'
  BY DEF rows, Banned
<1>9. QED
  BY <1>1, <1>2, <1>3, <1>4, <1>5, <1>6, <1>7, <1>8 DEF ModNext

LEMMA SocketUnderBanEnd ==
    ASSUME ModTypeOK, NEW k \in Keys, NEW v \in {"none", "expired"}, BanEnds(k, v),
           NEW s \in Sockets, SocketHeld(s)
    PROVE  SocketHeld(s)'
<1>1. sock[s] \in Sock
  BY DEF ModTypeOK, Sock
<1> DEFINE a == IF sock[s].key = k THEN TRUE ELSE sock[s].open
           b == IF sock[s].owner = k THEN TRUE ELSE sock[s].ownerOpen
<1>2. sock'[s] = [sock[s] EXCEPT !.open = a, !.ownerOpen = b]
  BY DEF BanEnds
<1>3. /\ sock'[s].key = sock[s].key
      /\ sock'[s].owner = sock[s].owner
      /\ sock'[s].phase = sock[s].phase
      /\ sock'[s].open = a
      /\ sock'[s].ownerOpen = b
  BY <1>1, <1>2 DEF Sock
<1>4. \A j \in Keys \ {k} : Banned(j) => Banned(j)'
  BY DEF BanEnds, Banned, ModTypeOK
<1>5. QED
  BY <1>3, <1>4 DEF SocketHeld

LEMMA SocketStep ==
    ASSUME ModTypeOK, [ModNext]_vars, NEW s \in Sockets, SocketHeld(s)
    PROVE  SocketHeld(s)'
<1>0. sock \in [Sockets -> Sock] /\ sock[s] \in Sock
  BY DEF ModTypeOK, Sock
<1>1. ASSUME sock'[s] = sock[s], \A k \in Keys : Banned(k) => Banned(k)'
      PROVE  SocketHeld(s)'
  BY <1>1 DEF SocketHeld
<1>2. ASSUME sock'[s] = Closed
      PROVE  SocketHeld(s)'
  BY <1>2, NoKeyAssumption DEF SocketHeld, Closed
<1>3. ASSUME NEW p \in Pods, NEW k \in Keys, Scan(p, k), UNCHANGED rows
      PROVE  SocketHeld(s)'
  <2>1. \A j \in Keys : Banned(j) => Banned(j)'
    BY <1>3 DEF rows, Banned
  <2>2. CASE sock'[s] = [sock[s] EXCEPT !.overtaken = TRUE]
    <3>1. /\ sock'[s].key = sock[s].key
          /\ sock'[s].owner = sock[s].owner
          /\ sock'[s].phase = sock[s].phase
          /\ sock'[s].open = sock[s].open
          /\ sock'[s].ownerOpen = sock[s].ownerOpen
      BY <1>0, <2>2 DEF Sock
    <3>2. QED
      BY <2>1, <3>1 DEF SocketHeld
  <2>3. QED
    BY <1>1, <1>2, <1>3, <2>1, <2>2, ScanCases
<1>4. ASSUME NEW t \in Sockets, Authentication(t)
      PROVE  SocketHeld(s)'
  <2>1. UNCHANGED rows
    BY <1>4 DEF Authentication, Connect, Authenticate, CheckSelf, CheckOwner, GateRefuses,
                SetAuthenticatedPubkey, Leave
  <2>2. \A j \in Keys : Banned(j)' <=> Banned(j)
    BY <2>1 DEF rows, Banned
  <2>3. CASE t # s
    <3>1. sock'[s] = sock[s]
      BY <1>0, <1>4, <2>3 DEF Authentication, Connect, Authenticate, CheckSelf, CheckOwner,
             GateRefuses, SetAuthenticatedPubkey, Leave, Deny
    <3>2. QED
      BY <1>1, <2>2, <3>1
  <2>4. CASE t = s
    <3>1. CASE Connect(s)
      <4>1. sock'[s] = [sock[s] EXCEPT !.phase = "pending"]
        BY <1>0, <3>1 DEF Connect
      <4>2. QED
        BY <1>0, <2>2, <4>1 DEF SocketHeld, Sock
    <3>2. CASE Authenticate(s)
      <4>1. PICK k \in Keys : \E o \in {NoKey, OwnerOf[k]} :
              sock'[s] = [sock[s] EXCEPT !.phase = "self", !.key = k, !.owner = o,
                               !.open = ~Banned(k),
                               !.ownerOpen = (o = NoKey \/ ~Banned(o))]
        BY <1>0, <3>2 DEF Authenticate
      <4>2. PICK o \in {NoKey, OwnerOf[k]} :
              sock'[s] = [sock[s] EXCEPT !.phase = "self", !.key = k, !.owner = o,
                               !.open = ~Banned(k),
                               !.ownerOpen = (o = NoKey \/ ~Banned(o))]
        BY <4>1
      <4>3. /\ sock'[s].key = k /\ sock'[s].owner = o /\ sock'[s].phase = "self"
            /\ sock'[s].open = ~Banned(k)
            /\ sock'[s].ownerOpen = (o = NoKey \/ ~Banned(o))
        BY <1>0, <4>2 DEF Sock
      <4>4. QED
        BY <2>2, <4>3, OwnerAssumption, NoKeyAssumption DEF SocketHeld
    <3>3. CASE CheckSelf(s)
      <4>1. CASE Deny(s)
        BY <1>0, <1>2, <4>1 DEF Deny
      <4>2. CASE ~Banned(sock[s].key) /\ sock' = [sock EXCEPT ![s].phase =
                        IF sock[s].owner = NoKey THEN "gates" ELSE "owner"]
        <5>1. sock[s].key \in Keys
          BY <1>0, <3>3 DEF CheckSelf, ModTypeOK, Sock
        <5>2. /\ sock'[s].key = sock[s].key
              /\ sock'[s].owner = sock[s].owner
              /\ sock'[s].open = sock[s].open
              /\ sock'[s].ownerOpen = sock[s].ownerOpen
              /\ sock'[s].phase = IF sock[s].owner = NoKey THEN "gates" ELSE "owner"
          BY <1>0, <4>2 DEF Sock
        <5>3. QED
          BY <2>2, <4>2, <5>1, <5>2 DEF SocketHeld
      <4>3. QED
        BY <3>3, <4>1, <4>2 DEF CheckSelf
    <3>4. CASE CheckOwner(s)
      <4>1. CASE Deny(s)
        BY <1>0, <1>2, <4>1 DEF Deny
      <4>2. CASE ~Banned(sock[s].owner) /\ sock' = [sock EXCEPT ![s].phase = "gates"]
        <5>1. sock[s].owner = NoKey \/ sock[s].owner \in Keys
          BY <1>0 DEF Sock
        <5>2. /\ sock'[s].key = sock[s].key
              /\ sock'[s].owner = sock[s].owner
              /\ sock'[s].open = sock[s].open
              /\ sock'[s].ownerOpen = sock[s].ownerOpen
              /\ sock'[s].phase = "gates"
          BY <1>0, <4>2 DEF Sock
        <5>3. sock[s].phase = "owner"
          BY <3>4 DEF CheckOwner
        <5>4. QED
          BY <2>2, <4>2, <5>1, <5>2, <5>3 DEF SocketHeld
      <4>3. QED
        BY <3>4, <4>1, <4>2 DEF CheckOwner
    <3>5. CASE GateRefuses(s)
      <4>1. sock'[s] = [Closed EXCEPT !.phase = "failed"]
        BY <1>0, <3>5 DEF GateRefuses
      <4>2. QED
        BY <4>1, NoKeyAssumption DEF SocketHeld, Closed
    <3>6. CASE SetAuthenticatedPubkey(s)
      <4>1. /\ sock'[s].key = sock[s].key
            /\ sock'[s].owner = sock[s].owner
            /\ sock'[s].open = sock[s].open
            /\ sock'[s].ownerOpen = sock[s].ownerOpen
            /\ sock'[s].phase = "live"
            /\ sock[s].phase = "gates"
        BY <1>0, <3>6 DEF SetAuthenticatedPubkey, Sock
      <4>2. QED
        BY <2>2, <4>1 DEF SocketHeld
    <3>7. CASE Leave(s)
      BY <1>0, <1>2, <3>7 DEF Leave
    <3>8. QED
      BY <1>4, <2>4, <3>1, <3>2, <3>3, <3>4, <3>5, <3>6, <3>7 DEF Authentication
  <2>5. QED
    BY <2>3, <2>4
<1>5. ASSUME NEW w \in Writes, Ingest(w)
      PROVE  UNCHANGED <<rows, sock>>
  BY <1>5 DEF Ingest, Submit, WriteGate, WriteGateFails, WriteEnds
<1>6. ASSUME NEW c \in Commands, Issue(c) \/ Handling(c)
      PROVE  \/ UNCHANGED sock
             \/ Enforce(c)
             \/ cmd[c].target \in Keys /\ BanEnds(cmd[c].target, "none")
  <2>1. CASE WriteUnban(c)
    BY <2>1 DEF WriteUnban, ModTypeOK
  <2>2. QED
    BY <1>6, <2>1
    DEF Handling, Issue, CheckActor, CommandFails, Audit, ReadReport, CloseReport,
        WriteBan, WriteTimeout, WriteUntimeout
<1>7. ASSUME NEW c \in Commands, Enforce(c)
      PROVE  SocketHeld(s)'
  <2>1. cmd[c].target \in Keys
    BY <1>7 DEF Enforce, ModTypeOK
  <2>2. QED
    BY <1>3, <1>7, <2>1 DEF Enforce
<1>8. ASSUME NEW p \in Pods, NEW k \in Keys, Control(p, k)
      PROVE  SocketHeld(s)'
  <2>1. CASE Deliver(p, k)
    BY <1>3, <2>1 DEF Deliver
  <2>2. CASE LoseCommand(p, k)
    BY <1>1, <2>2 DEF LoseCommand, rows, Banned
  <2>3. QED
    BY <1>8, <2>1, <2>2 DEF Control
<1>9. ASSUME UNCHANGED sock
      PROVE  SocketHeld(s)'
  <2>1. CASE \A k \in Keys : Banned(k) => Banned(k)'
    BY <1>1, <1>9, <2>1
  <2>2. CASE \E k \in Keys : \E v \in {"none", "expired"} : BanEnds(k, v)
    BY <2>2, SocketUnderBanEnd
  <2>3. CASE UNCHANGED ban
    BY <1>1, <1>9, <2>3 DEF Banned
  <2>4. QED
    BY <2>1, <2>2, <2>3, RowSteps
<1>10. ASSUME NEW k \in Keys, BanExpires(k) \/ TimeoutExpires(k)
      PROVE  SocketHeld(s)'
  <2>1. CASE BanExpires(k)
    BY <2>1, SocketUnderBanEnd DEF BanExpires
  <2>2. CASE TimeoutExpires(k)
    BY <1>9, <2>2 DEF TimeoutExpires
  <2>3. QED
    BY <1>10, <2>1, <2>2
<1>11. CASE UNCHANGED vars
  BY <1>9, <1>11 DEF vars
<1>12. CASE ModNext
  <2>1. ASSUME NEW c \in Commands, Issue(c) \/ Handling(c)
        PROVE  SocketHeld(s)'
    BY <1>6, <1>7, <1>9, <2>1, SocketUnderBanEnd
  <2>2. QED
    BY <1>4, <1>5, <1>8, <1>9, <1>10, <1>12, <2>1 DEF ModNext
<1>13. QED
  BY <1>11, <1>12

LEMMA WriteStep ==
    ASSUME ModTypeOK, [ModNext]_vars, NEW w \in Writes, WriteHeld(w)
    PROVE  WriteHeld(w)'
<1>0. write[w] \in [stage : {"idle", "gate", "passed"},
                    author : Keys \cup {NoKey}, open : BOOLEAN]
  BY DEF ModTypeOK
<1>1. ASSUME UNCHANGED write, \A k \in Keys : Restricted(k) => Restricted(k)'
      PROVE  WriteHeld(w)'
  BY <1>1 DEF WriteHeld
<1>2. ASSUME NEW k \in Keys, NEW v \in {"none", "expired"}, BanEnds(k, v), UNCHANGED muted
      PROVE  WriteHeld(w)'
  <2>1. \A j \in Keys \ {k} : Restricted(j) => Restricted(j)'
    BY <1>2 DEF BanEnds, Restricted, Banned, ModTypeOK
  <2>2. k \in muted => Restricted(k)'
    BY <1>2 DEF Restricted
  <2>3. CASE write[w].author = k /\ k \notin muted
    <3>1. write'[w] = [write[w] EXCEPT !.open = TRUE]
      BY <1>2, <2>3 DEF BanEnds
    <3>2. QED
      BY <1>0, <3>1 DEF WriteHeld
  <2>4. CASE ~(write[w].author = k /\ k \notin muted)
    <3>1. write'[w] = write[w]
      BY <1>2, <2>4 DEF BanEnds
    <3>2. QED
      BY <2>1, <2>2, <2>4, <3>1 DEF WriteHeld
  <2>5. QED
    BY <2>3, <2>4
<1>3. ASSUME NEW k \in Keys, TimeoutEnds(k), UNCHANGED ban
      PROVE  WriteHeld(w)'
  <2>1. \A j \in Keys \ {k} : Restricted(j) => Restricted(j)'
    BY <1>3 DEF TimeoutEnds, Restricted, Banned, ModTypeOK
  <2>2. Banned(k) => Restricted(k)'
    BY <1>3 DEF Restricted, Banned
  <2>3. CASE write[w].author = k /\ ~Banned(k)
    <3>1. write'[w] = [write[w] EXCEPT !.open = TRUE]
      BY <1>3, <2>3 DEF TimeoutEnds
    <3>2. QED
      BY <1>0, <3>1 DEF WriteHeld
  <2>4. CASE ~(write[w].author = k /\ ~Banned(k))
    <3>1. write'[w] = write[w]
      BY <1>3, <2>4 DEF TimeoutEnds
    <3>2. QED
      BY <2>1, <2>2, <2>4, <3>1 DEF WriteHeld
  <2>5. QED
    BY <2>3, <2>4
<1>4. ASSUME UNCHANGED write
      PROVE  WriteHeld(w)'
  <2>1. CASE (\A k \in Keys : Banned(k) => Banned(k)') /\ muted \subseteq muted'
    BY <1>1, <1>4, <2>1 DEF Restricted
  <2>2. QED
    BY <1>2, <1>3, <2>1, RowSteps
<1>5. ASSUME NEW u \in Writes, Ingest(u)
      PROVE  WriteHeld(w)'
  <2>1. UNCHANGED rows
    BY <1>5 DEF Ingest, Submit, WriteGate, WriteGateFails, WriteEnds
  <2>2. \A k \in Keys : Restricted(k)' <=> Restricted(k)
    BY <2>1 DEF rows, Restricted, Banned
  <2>3. write'[w] = write[w] => WriteHeld(w)'
    BY <2>2 DEF WriteHeld
  <2>4. write'[w] = NoWrite => WriteHeld(w)'
    BY NoKeyAssumption DEF WriteHeld, NoWrite
  <2>5. CASE Submit(u)
    <3>1. PICK k \in Keys : write' = [write EXCEPT ![u] =
            [stage |-> "gate", author |-> k, open |-> ~Restricted(k)]]
      BY <2>5 DEF Submit
    <3>2. CASE u = w
      <4>1. write'[w] = [stage |-> "gate", author |-> k, open |-> ~Restricted(k)]
        BY <3>1, <3>2 DEF ModTypeOK
      <4>2. write'[w].stage = "gate" /\ write'[w].author = k
        BY <4>1
      <4>3. write'[w].open = ~Restricted(k)
        BY <4>1
      <4>4. Restricted(write[w].author)' <=> Restricted(k)
        BY <2>2, <4>2
      <4>5. QED
        BY <4>2, <4>3, <4>4 DEF WriteHeld
    <3>3. CASE u # w
      BY <2>3, <3>1, <3>3 DEF ModTypeOK
    <3>4. QED
      BY <3>2, <3>3
  <2>6. CASE WriteGate(u)
    <3>1. CASE u = w
      <4>1. write[w].author \in Keys
        BY <2>6, <3>1 DEF WriteGate, ModTypeOK
      <4>2. CASE Restricted(write[w].author)
        BY <2>4, <2>6, <3>1, <4>2 DEF WriteGate, ModTypeOK
      <4>3. CASE ~Restricted(write[w].author)
        <5>1. write'[w] = [write[w] EXCEPT !.stage = "passed"]
          BY <2>6, <3>1, <4>3 DEF WriteGate, ModTypeOK
        <5>2. QED
          BY <1>0, <2>2, <4>1, <4>3, <5>1 DEF WriteHeld
      <4>4. QED
        BY <4>2, <4>3
    <3>2. CASE u # w
      BY <2>3, <2>6, <3>2 DEF WriteGate, ModTypeOK
    <3>3. QED
      BY <3>1, <3>2
  <2>7. CASE WriteGateFails(u) \/ WriteEnds(u)
    BY <2>3, <2>4, <2>7 DEF WriteGateFails, WriteEnds, ModTypeOK
  <2>8. QED
    BY <1>5, <2>5, <2>6, <2>7 DEF Ingest
<1>6. ASSUME NEW c \in Commands, Issue(c) \/ Handling(c)
      PROVE  \/ UNCHANGED write
             \/ cmd[c].target \in Keys /\ BanEnds(cmd[c].target, "none") /\ UNCHANGED muted
             \/ cmd[c].target \in Keys /\ TimeoutEnds(cmd[c].target) /\ UNCHANGED ban
  <2>1. CASE WriteUnban(c)
    BY <2>1 DEF WriteUnban, ModTypeOK
  <2>2. CASE WriteUntimeout(c)
    BY <2>2 DEF WriteUntimeout, ModTypeOK
  <2>3. QED
    BY <1>6, <2>1, <2>2
    DEF Handling, Issue, CheckActor, CommandFails, Audit, ReadReport, CloseReport,
        WriteBan, WriteTimeout, Enforce
<1>7. CASE UNCHANGED vars
  BY <1>4, <1>7 DEF vars
<1>8. CASE ModNext
  <2>1. ASSUME NEW c \in Commands, Issue(c) \/ Handling(c)
        PROVE  WriteHeld(w)'
    BY <1>2, <1>3, <1>4, <1>6, <2>1
  <2>2. ASSUME NEW s \in Sockets, Authentication(s)
        PROVE  UNCHANGED write
    BY <2>2 DEF Authentication, Connect, Authenticate, CheckSelf, CheckOwner, GateRefuses,
                SetAuthenticatedPubkey, Leave
  <2>3. ASSUME NEW q \in Pods, NEW k \in Keys, Control(q, k)
        PROVE  UNCHANGED write
    BY <2>3 DEF Control, Deliver, LoseCommand
  <2>4. ASSUME NEW k \in Keys, BanExpires(k) \/ TimeoutExpires(k)
        PROVE  WriteHeld(w)'
    BY <1>2, <1>3, <2>4 DEF BanExpires, TimeoutExpires
  <2>5. QED
    BY <1>4, <1>5, <1>8, <2>1, <2>2, <2>3, <2>4 DEF ModNext
<1>9. QED
  BY <1>7, <1>8

\* A command that is freed stays at its stage.

LEMMA FreedIs ==
    ASSUME NEW f, CmdOK(f), NEW k \in Keys, NEW c \in Commands
    PROVE  /\ Freed(k, f)[c].stage = f[c].stage
           /\ Freed(k, f)[c].op = f[c].op
           /\ Freed(k, f)[c].actor = f[c].actor
           /\ Freed(k, f)[c].target = f[c].target
           /\ f[c].open => Freed(k, f)[c].open
           /\ f[c].actor = k => Freed(k, f)[c].open
<1>1. f[c] \in [stage : Stages, op : Ops \cup {"none"}, actor : Keys \cup {NoKey},
                target : Keys \cup {NoKey}, open : BOOLEAN]
  BY DEF CmdOK
<1>2. Freed(k, f)[c] = f[c] \/ Freed(k, f)[c] = [f[c] EXCEPT !.open = TRUE]
  BY DEF Freed
<1>3. f[c].actor = k => Freed(k, f)[c] = [f[c] EXCEPT !.open = TRUE]
  BY DEF Freed
<1>4. QED
  BY <1>1, <1>2, <1>3

\* What a step does to the command slot c: other slots, and the end of a ban,
\* only change its history.

LEMMA SlotSteps ==
    ASSUME ModTypeOK, [ModNext]_vars, NEW c \in Commands
    PROVE  \/ cmd'[c] = cmd[c] /\ \A k \in Keys : Banned(k) => Banned(k)'
           \/ Issue(c)
           \/ Handling(c)
           \/ \E k \in Keys : \E v \in {"none", "expired"} :
                BanEnds(k, v) /\ cmd'[c] = Freed(k, cmd)[c]
<1>0. CmdOK(cmd)
  BY DEF ModTypeOK, CmdOK
<1>1. ASSUME NEW d \in Commands, d # c, Issue(d) \/ Handling(d)
      PROVE  \/ cmd'[c] = cmd[c] /\ \A k \in Keys : Banned(k) => Banned(k)'
             \/ \E k \in Keys : BanEnds(k, "none") /\ cmd'[c] = Freed(k, cmd)[c]
  <2>1. CASE WriteUnban(d)
    <3>1. CASE ban[cmd[d].target] = "none"
      BY <1>1, <2>1, <3>1 DEF WriteUnban, Ends, ModTypeOK, Banned
    <3>2. CASE ban[cmd[d].target] # "none"
      <4>1. cmd[d].target \in Keys
        BY <2>1 DEF WriteUnban, ModTypeOK
      <4>2. /\ BanEnds(cmd[d].target, "none")
            /\ cmd' = Freed(cmd[d].target, [cmd EXCEPT ![d].stage = "audit"])
        BY <2>1, <3>2 DEF WriteUnban
      <4>3. cmd'[c] = Freed(cmd[d].target, cmd)[c]
        BY <1>1, <4>2 DEF Freed, ModTypeOK
      <4>4. QED
        BY <4>1, <4>2, <4>3
    <3>3. QED
      BY <3>1, <3>2
  <2>2. CASE Issue(d)
    BY <1>1, <2>2 DEF Issue, ModTypeOK, rows, Banned
  <2>3. CASE WriteBan(d)
    BY <1>1, <2>3 DEF WriteBan, Goto, ModTypeOK, Banned
  <2>4. QED
    BY <1>1, <2>1, <2>2, <2>3
    DEF rows, Banned, Handling, CheckActor, CommandFails, Audit, ReadReport, CloseReport,
        WriteTimeout, WriteUntimeout, Enforce, Goto, Ends, ModTypeOK
<1>2. CASE UNCHANGED vars
  BY <1>2 DEF vars, Banned
<1>3. ASSUME NEW s \in Sockets, Authentication(s)
      PROVE  UNCHANGED <<cmd, rows>>
  BY <1>3 DEF Authentication, Connect, Authenticate, CheckSelf, CheckOwner, GateRefuses,
              SetAuthenticatedPubkey, Leave
<1>4. ASSUME NEW w \in Writes, Ingest(w)
      PROVE  UNCHANGED <<cmd, rows>>
  BY <1>4 DEF Ingest, Submit, WriteGate, WriteGateFails, WriteEnds
<1>5. ASSUME NEW q \in Pods, NEW k \in Keys, Control(q, k)
      PROVE  UNCHANGED <<cmd, rows>>
  BY <1>5 DEF Control, Deliver, LoseCommand
<1>6. ASSUME NEW k \in Keys, BanExpires(k) \/ TimeoutExpires(k)
      PROVE  UNCHANGED <<cmd, ban>> \/ (BanEnds(k, "expired") /\ cmd' = Freed(k, cmd))
  BY <1>6 DEF BanExpires, TimeoutExpires
<1>7. QED
  BY <1>1, <1>2, <1>3, <1>4, <1>5, <1>6 DEF ModNext, rows, Banned

LEMMA CommandStep ==
    ASSUME ModTypeOK, [ModNext]_vars, NEW c \in Commands, CommandHeld(c)
    PROVE  CommandHeld(c)'
<1>0. CmdOK(cmd)
  BY DEF ModTypeOK, CmdOK
<1>00. cmd[c] \in [stage : Stages, op : Ops \cup {"none"}, actor : Keys \cup {NoKey},
                   target : Keys \cup {NoKey}, open : BOOLEAN]
  BY DEF ModTypeOK
<1>1. ASSUME NEW k \in Keys, NEW v \in {"none", "expired"}, BanEnds(k, v),
             NEW f, CmdOK(f), cmd'[c] = Freed(k, f)[c], f[c].actor = cmd[c].actor,
             f[c].open = cmd[c].open,
             f[c].stage \notin {"idle", "check"} => cmd[c].stage \notin {"idle", "check"}
      PROVE  CommandHeld(c)'
  <2>1. \A j \in Keys \ {k} : Banned(j) => Banned(j)'
    BY <1>1 DEF BanEnds, Banned, ModTypeOK
  <2>2. QED
    BY <1>1, <2>1, FreedIs DEF CommandHeld
<1>2. ASSUME \A k \in Keys : Banned(k) => Banned(k)', NEW t \in Stages,
             cmd'[c] = [cmd[c] EXCEPT !.stage = t],
             t \notin {"idle", "check"} => cmd[c].open
      PROVE  CommandHeld(c)'
  BY <1>00, <1>2 DEF CommandHeld
<1>3. ASSUME cmd'[c] = NoCommand
      PROVE  CommandHeld(c)'
  BY <1>3, NoKeyAssumption DEF CommandHeld, NoCommand
<1>4. CASE Issue(c)
  <2>1. PICK op \in Ops, a \in Keys, t \in Keys :
          cmd' = [cmd EXCEPT ![c] = [stage |-> "check", op |-> op, actor |-> a,
                                     target |-> t, open |-> ~Banned(a)]]
    BY <1>4 DEF Issue
  <2>2. cmd'[c] = [stage |-> "check", op |-> op, actor |-> a, target |-> t,
                   open |-> ~Banned(a)]
    BY <2>1 DEF ModTypeOK
  <2>3. Banned(a)' <=> Banned(a)
    BY <1>4 DEF Issue, rows, Banned
  <2>4. cmd'[c].stage = "check" /\ cmd'[c].actor = a
    BY <2>2
  <2>5. cmd'[c].open = ~Banned(a)
    BY <2>2
  <2>6. Banned(cmd[c].actor)' <=> Banned(a)
    BY <2>3, <2>4
  <2>7. QED
    BY <2>4, <2>5, <2>6 DEF CommandHeld
<1>5. CASE WriteUnban(c)
  <2>1. CASE ban[cmd[c].target] = "none"
    BY <1>3, <1>5, <2>1 DEF WriteUnban, Ends, ModTypeOK
  <2>2. CASE ban[cmd[c].target] # "none"
    <3> DEFINE f == [cmd EXCEPT ![c].stage = "audit"]
    <3>1. cmd[c].target \in Keys /\ cmd[c].stage = "write"
      BY <1>5 DEF WriteUnban, ModTypeOK
    <3>2. CmdOK(f) /\ f[c].actor = cmd[c].actor /\ f[c].open = cmd[c].open
      BY <1>0, <3>1 DEF CmdOK, Stages
    <3>3. BanEnds(cmd[c].target, "none") /\ cmd' = Freed(cmd[c].target, f)
      BY <1>5, <2>2 DEF WriteUnban
    <3> HIDE DEF f
    <3>4. QED
      BY <1>1, <3>1, <3>2, <3>3
  <2>3. QED
    BY <2>1, <2>2
<1>6. CASE CheckActor(c)
  <2>1. \A k \in Keys : Banned(k)' <=> Banned(k)
    BY <1>6 DEF CheckActor, rows, Banned
  <2>2. cmd[c].actor \in Keys
    BY <1>6 DEF CheckActor, ModTypeOK
  <2>3. CASE Ends(c)
    BY <1>3, <2>3 DEF Ends, ModTypeOK
  <2>4. ASSUME NEW t \in {"read", "write"}, Goto(c, t), ~Banned(cmd[c].actor)
        PROVE  CommandHeld(c)'
    <3>1. cmd'[c] = [cmd[c] EXCEPT !.stage = t]
      BY <2>4 DEF Goto, ModTypeOK
    <3>2. cmd[c].open
      BY <2>2, <2>4 DEF CommandHeld
    <3>3. t \in Stages
      BY DEF Stages
    <3>4. QED
      BY <1>2, <2>1, <3>1, <3>2, <3>3
  <2>5. QED
    BY <1>6, <2>3, <2>4 DEF CheckActor
<1>7. CASE Handling(c) /\ ~WriteUnban(c) /\ ~CheckActor(c)
  <2>1. \/ Ends(c)
        \/ /\ \E t \in {"audit", "enforce", "close"} : Goto(c, t)
           /\ cmd[c].stage \notin {"idle", "check"}
           /\ \A k \in Keys : Banned(k) => Banned(k)'
    BY <1>7
    DEF Handling, CommandFails, Audit, ReadReport, CloseReport, WriteBan,
        WriteTimeout, WriteUntimeout, Enforce, ModTypeOK, rows, Banned
  <2>2. CASE Ends(c)
    BY <1>3, <2>2 DEF Ends, ModTypeOK
  <2>3. ASSUME NEW t \in {"audit", "enforce", "close"}, Goto(c, t),
               cmd[c].stage \notin {"idle", "check"},
               \A k \in Keys : Banned(k) => Banned(k)'
        PROVE  CommandHeld(c)'
    <3>1. cmd'[c] = [cmd[c] EXCEPT !.stage = t]
      BY <2>3 DEF Goto, ModTypeOK
    <3>2. cmd[c].open /\ t \in Stages
      BY <2>3 DEF CommandHeld, Stages
    <3>3. QED
      BY <1>2, <2>3, <3>1, <3>2
  <2>4. QED
    BY <2>1, <2>2, <2>3
<1>8. CASE cmd'[c] = cmd[c] /\ \A k \in Keys : Banned(k) => Banned(k)'
  BY <1>8 DEF CommandHeld
<1>9. ASSUME NEW k \in Keys, NEW v \in {"none", "expired"}, BanEnds(k, v),
             cmd'[c] = Freed(k, cmd)[c]
      PROVE  CommandHeld(c)'
  BY <1>0, <1>1, <1>9
<1>10. QED
  BY <1>4, <1>5, <1>6, <1>7, <1>8, <1>9, SlotSteps

\* No restriction that holds from a request's arrival on is overlooked by it
\* (the ban seam of handle_auth, the write gate of ingest_event and the actor
\* check of handle_moderation_command).

THEOREM RestrictionsAreHeld == ModSpec => []RestrictionsHold
<1>1. ModInit => Held
  BY NoKeyAssumption
  DEF ModInit, Held, SocketHeld, WriteHeld, CommandHeld, Closed, NoCommand, NoWrite
<1>2. ModTypeOK /\ Held /\ [ModNext]_vars => Held'
  BY SocketStep, WriteStep, CommandStep DEF Held
<1>3. Held => RestrictionsHold
  BY DEF Held, RestrictionsHold, SocketHeld, WriteHeld, CommandHeld
<1>4. QED
  BY <1>1, <1>2, <1>3, ModTyped, PTL DEF ModSpec

----------------------------------------------------------------------------
\* Live enforcement.  The inductive part speaks of the sockets whose AUTH is
\* past its look at the key's ban as well: nothing closes them in time, so the
\* reason has to be there before they are listed.

Enforcing(k) ==
    \E c \in Commands : /\ cmd[c].op = "ban"
                        /\ cmd[c].target = k
                        /\ cmd[c].stage \in {"audit", "enforce"}

Explained(s) ==
    sock[s].phase \in {"owner", "gates", "live"} /\ Banned(sock[s].key) =>
        Excused(s) \/ inbox[PodOf[s]][sock[s].key] > 0 \/ Enforcing(sock[s].key)

\* A socket that does not move stays explained if the reasons do not go away.

LEMMA StillExplained ==
    ASSUME NEW s \in Sockets, Explained(s), NEW k, sock[s].key = k,
           sock'[s].phase \in {"owner", "gates", "live"} =>
               /\ sock[s].phase \in {"owner", "gates", "live"}
               /\ sock'[s].key = sock[s].key
               /\ sock[s].overtaken => sock'[s].overtaken,
           Banned(k)' => Banned(k),
           <<PodOf[s], k>> \in missed => <<PodOf[s], k>> \in missed',
           k \in aborted => k \in aborted',
           inbox[PodOf[s]][k] > 0 => inbox'[PodOf[s]][k] > 0,
           Enforcing(k) => Enforcing(k)'
    PROVE  Explained(s)'
<1>1. CASE sock'[s].phase \notin {"owner", "gates", "live"}
  BY <1>1 DEF Explained
<1>2. CASE sock'[s].phase \in {"owner", "gates", "live"}
  <2>1. sock'[s].key = k /\ sock[s].phase \in {"owner", "gates", "live"}
    BY <1>2
  <2>2. Banned(k) => Excused(s) \/ inbox[PodOf[s]][k] > 0 \/ Enforcing(k)
    BY <2>1 DEF Explained
  <2>3. Excused(s) => Excused(s)'
    BY <1>2, <2>1 DEF Excused
  <2>4. Banned(k)' => Excused(s)' \/ inbox'[PodOf[s]][k] > 0 \/ Enforcing(k)'
    BY <2>2, <2>3
  <2>5. Banned(sock[s].key)' <=> Banned(k)'
    BY <2>1 DEF Banned
  <2>6. Enforcing(sock[s].key)' <=> Enforcing(k)'
    BY <2>1 DEF Enforcing
  <2>7. QED
    BY <2>1, <2>4, <2>5, <2>6 DEF Explained
<1>3. QED
  BY <1>1, <1>2

\* The handler that enforces a ban on k goes on doing so in every step but its
\* own failure and its own Enforce.

LEMMA StillEnforcing ==
    ASSUME ModTypeOK, [ModNext]_vars, NEW k \in Keys, Enforcing(k)
    PROVE  \/ Enforcing(k)'
           \/ \E c \in Commands : /\ cmd[c].op = "ban"
                                  /\ cmd[c].target = k
                                  /\ CommandFails(c) /\ cmd[c].stage = "audit"
           \/ \E c \in Commands : cmd[c].target = k /\ Enforce(c)
<1>1. PICK c \in Commands : /\ cmd[c].op = "ban"
                            /\ cmd[c].target = k
                            /\ cmd[c].stage \in {"audit", "enforce"}
  BY DEF Enforcing
<1>0. cmd[c] \in [stage : Stages, op : Ops \cup {"none"}, actor : Keys \cup {NoKey},
                  target : Keys \cup {NoKey}, open : BOOLEAN]
  BY DEF ModTypeOK
<1>2. CASE cmd'[c] = cmd[c]
  BY <1>1, <1>2 DEF Enforcing
<1>3. ASSUME NEW j \in Keys, cmd'[c] = Freed(j, cmd)[c]
      PROVE  Enforcing(k)'
  <2>1. CmdOK(cmd)
    BY DEF ModTypeOK, CmdOK
  <2>2. QED
    BY <1>1, <1>3, <2>1, FreedIs DEF Enforcing
<1>4. CASE Issue(c)
  BY <1>1, <1>4 DEF Issue
<1>5. CASE Handling(c)
  <2>1. CommandFails(c) \/ Audit(c) \/ Enforce(c)
    BY <1>1, <1>5 DEF Handling, CheckActor, WriteBan, WriteUnban, WriteTimeout,
                      WriteUntimeout, ReadReport, CloseReport
  <2>2. CASE CommandFails(c)
    BY <1>1, <2>2 DEF CommandFails
  <2>3. CASE Audit(c)
    <3>1. Goto(c, "enforce")
      BY <1>1, <2>3 DEF Audit
    <3>2. cmd'[c] = [cmd[c] EXCEPT !.stage = "enforce"]
      BY <3>1 DEF Goto, ModTypeOK
    <3>3. cmd'[c].stage = "enforce" /\ cmd'[c].op = "ban" /\ cmd'[c].target = k
      BY <1>0, <1>1, <3>2
    <3>4. QED
      BY <3>3 DEF Enforcing
  <2>4. QED
    BY <1>1, <2>1, <2>2, <2>3
<1>6. QED
  BY <1>2, <1>3, <1>4, <1>5, SlotSteps

LEMMA ExplainedUnderScan ==
    ASSUME ModTypeOK, NEW p \in Pods, NEW k \in Keys, Scan(p, k), NEW s \in Sockets,
           PodOf[s] = p, sock[s].key = k
    PROVE  Explained(s)'
<1>0. sock[s] \in Sock
  BY DEF ModTypeOK, Sock
<1>1. CASE sock'[s] = Closed
  BY <1>1 DEF Explained, Closed
<1>2. CASE sock'[s] = [sock[s] EXCEPT !.overtaken = TRUE]
  <2>1. sock'[s].overtaken
    BY <1>0, <1>2 DEF Sock
  <2>2. QED
    BY <2>1 DEF Explained, Excused
<1>3. CASE sock'[s] = sock[s] /\ sock[s].phase \notin {"owner", "gates", "live"}
  BY <1>3 DEF Explained
<1>4. QED
  BY <1>1, <1>2, <1>3, ScanCases

\* What a scan for another socket leaves of this one.

LEMMA ScanKeeps ==
    ASSUME ModTypeOK, NEW p \in Pods, NEW k \in Keys, Scan(p, k), NEW s \in Sockets
    PROVE  sock'[s].phase \in {"owner", "gates", "live"} =>
               /\ sock[s].phase \in {"owner", "gates", "live"}
               /\ sock'[s].key = sock[s].key
               /\ sock[s].overtaken => sock'[s].overtaken
<1>0. sock[s] \in Sock
  BY DEF ModTypeOK, Sock
<1>1. CASE sock'[s] = Closed
  BY <1>1 DEF Closed
<1>2. CASE sock'[s] = [sock[s] EXCEPT !.overtaken = TRUE]
  BY <1>0, <1>2 DEF Sock
<1>3. CASE sock'[s] = sock[s]
  BY <1>3
<1>4. QED
  BY <1>1, <1>2, <1>3, ScanCases

LEMMA AuthenticationExplained ==
    ASSUME ModTypeOK, NEW t \in Sockets, Authentication(t), [ModNext]_vars,
           NEW s \in Sockets, Explained(s)
    PROVE  Explained(s)'
<1>0. sock \in [Sockets -> Sock] /\ sock[s] \in Sock
  BY DEF ModTypeOK, Sock
<1>1. UNCHANGED <<rows, cmd, inbox, missed, aborted>>
  BY DEF Authentication, Connect, Authenticate, CheckSelf, CheckOwner, GateRefuses,
         SetAuthenticatedPubkey, Leave
<1>2. ASSUME sock'[s].phase \in {"owner", "gates", "live"} =>
                 /\ sock[s].phase \in {"owner", "gates", "live"}
                 /\ sock'[s].key = sock[s].key
                 /\ sock[s].overtaken => sock'[s].overtaken
      PROVE  Explained(s)'
  <2>1. \A k : /\ Banned(k)' => Banned(k)
               /\ Enforcing(k) => Enforcing(k)'
    BY <1>1 DEF rows, Banned, Enforcing
  <2>2. UNCHANGED <<inbox, missed, aborted>>
    BY <1>1
  <2>3. QED
    BY <1>2, <2>1, <2>2, StillExplained
<1>3. CASE t # s
  <2>1. sock'[s] = sock[s]
    BY <1>0, <1>3 DEF Authentication, Connect, Authenticate, CheckSelf, CheckOwner,
           GateRefuses, SetAuthenticatedPubkey, Leave, Deny
  <2>2. QED
    BY <1>2, <2>1
<1>4. CASE t = s
  <2>1. CASE Connect(s)
    <3>1. sock'[s].phase = "pending"
      BY <1>0, <2>1 DEF Connect, Sock
    <3>2. QED
      BY <1>2, <3>1
  <2>2. CASE Authenticate(s)
    <3>1. sock'[s].phase = "self"
      BY <1>0, <2>2 DEF Authenticate, Sock
    <3>2. QED
      BY <1>2, <3>1
  <2>3. CASE sock'[s] = Closed
    BY <1>2, <2>3 DEF Closed
  <2>4. CASE CheckSelf(s)
    <3>1. CASE ~Banned(sock[s].key) /\ sock' = [sock EXCEPT ![s].phase =
                        IF sock[s].owner = NoKey THEN "gates" ELSE "owner"]
      <4>1. sock'[s].key = sock[s].key
        BY <1>0, <3>1 DEF Sock
      <4>2. ~Banned(sock[s].key)'
        BY <1>1, <3>1, <4>1 DEF rows, Banned
      <4>3. QED
        BY <4>2 DEF Explained
    <3>2. QED
      BY <1>0, <2>3, <2>4, <3>1 DEF CheckSelf, Deny
  <2>5. ASSUME NEW h \in {"gates", "live"}, sock[s].phase \in {"owner", "gates"},
               sock' = [sock EXCEPT ![s].phase = h]
        PROVE  Explained(s)'
    <3>1. sock'[s].key = sock[s].key /\ sock'[s].overtaken = sock[s].overtaken
      BY <1>0, <2>5 DEF Sock
    <3>2. QED
      BY <1>2, <2>5, <3>1
  <2>6. CASE CheckOwner(s)
    BY <1>0, <2>3, <2>5, <2>6 DEF CheckOwner, Deny
  <2>7. CASE GateRefuses(s)
    <3>1. sock'[s].phase = "failed"
      BY <1>0, <2>7 DEF GateRefuses, Closed
    <3>2. QED
      BY <1>2, <3>1
  <2>8. CASE SetAuthenticatedPubkey(s)
    BY <2>5, <2>8 DEF SetAuthenticatedPubkey
  <2>9. CASE Leave(s)
    BY <1>0, <2>3, <2>9 DEF Leave
  <2>10. QED
    BY <1>4, <2>1, <2>2, <2>4, <2>6, <2>7, <2>8, <2>9 DEF Authentication
<1>5. QED
  BY <1>3, <1>4

LEMMA BanEndExplained ==
    ASSUME ModTypeOK, [ModNext]_vars, NEW k \in Keys, NEW v \in {"none", "expired"},
           BanEnds(k, v), UNCHANGED inbox, NEW s \in Sockets, Explained(s),
           \A j \in Keys : Enforcing(j) => Enforcing(j)'
    PROVE  Explained(s)'
<1>0. sock[s] \in Sock
  BY DEF ModTypeOK, Sock
<1> DEFINE a == IF sock[s].key = k THEN TRUE ELSE sock[s].open
           b == IF sock[s].owner = k THEN TRUE ELSE sock[s].ownerOpen
<1>1. sock'[s] = [sock[s] EXCEPT !.open = a, !.ownerOpen = b]
  BY DEF BanEnds
<1>2. /\ sock'[s].key = sock[s].key
      /\ sock'[s].phase = sock[s].phase
      /\ sock'[s].overtaken = sock[s].overtaken
  BY <1>0, <1>1 DEF Sock
<1>3. CASE sock[s].key = k
  <2>1. ~Banned(sock[s].key)'
    BY <1>2, <1>3 DEF BanEnds, Banned, ModTypeOK
  <2>2. QED
    BY <2>1 DEF Explained
<1>4. CASE sock[s].key # k /\ sock[s].key \in Keys
  <2>1. Banned(sock[s].key)' => Banned(sock[s].key)
    BY <1>2, <1>4 DEF BanEnds, Banned, ModTypeOK
  <2>2. <<PodOf[s], sock[s].key>> \in missed => <<PodOf[s], sock[s].key>> \in missed'
    BY <1>4 DEF BanEnds
  <2>3. sock[s].key \in aborted => sock[s].key \in aborted'
    BY <1>4 DEF BanEnds
  <2>4. QED
    BY <1>2, <1>4, <2>1, <2>2, <2>3 DEF Explained, Excused, Enforcing
<1>5. CASE sock[s].key \notin Keys
  <2>1. sock[s].phase \in {"closed", "pending", "failed"}
    BY <1>0, <1>5 DEF ModTypeOK, Sock
  <2>2. QED
    BY <1>2, <2>1 DEF Explained
<1>6. QED
  BY <1>3, <1>4, <1>5

LEMMA ScanExplained ==
    ASSUME ModTypeOK, NEW p \in Pods, NEW j \in Keys, Scan(p, j), UNCHANGED rows,
           NEW s \in Sockets, Explained(s),
           \A k \in Keys : PodOf[s] # p \/ k # j =>
               \/ inbox'[PodOf[s]][k] > 0
               \/ /\ <<PodOf[s], k>> \in missed => <<PodOf[s], k>> \in missed'
                  /\ k \in aborted => k \in aborted'
                  /\ inbox[PodOf[s]][k] > 0 => inbox'[PodOf[s]][k] > 0
                  /\ Enforcing(k) => Enforcing(k)'
    PROVE  Explained(s)'
<1>0. sock[s] \in Sock
  BY DEF ModTypeOK, Sock
<1>1. CASE PodOf[s] = p /\ sock[s].key = j
  BY <1>1, ExplainedUnderScan
<1>2. CASE sock[s].key \notin Keys
  <2>1. sock[s].phase \in {"closed", "pending", "failed"}
    BY <1>0, <1>2 DEF ModTypeOK, Sock
  <2>2. sock'[s].phase \notin {"owner", "gates", "live"}
    BY <2>1, ScanKeeps
  <2>3. QED
    BY <2>2 DEF Explained
<1>3. ASSUME NEW k \in Keys, sock[s].key = k, PodOf[s] # p \/ k # j
      PROVE  Explained(s)'
  <2>1. CASE inbox'[PodOf[s]][k] > 0
    <3>1. sock'[s].phase \in {"owner", "gates", "live"} => sock'[s].key = k
      BY <1>3, ScanKeeps
    <3>2. QED
      BY <2>1, <3>1 DEF Explained
  <2>2. CASE /\ <<PodOf[s], k>> \in missed => <<PodOf[s], k>> \in missed'
             /\ k \in aborted => k \in aborted'
             /\ inbox[PodOf[s]][k] > 0 => inbox'[PodOf[s]][k] > 0
             /\ Enforcing(k) => Enforcing(k)'
    <3>1. Banned(k)' => Banned(k)
      BY DEF rows, Banned
    <3>2. sock'[s].phase \in {"owner", "gates", "live"} =>
               /\ sock[s].phase \in {"owner", "gates", "live"}
               /\ sock'[s].key = sock[s].key
               /\ sock[s].overtaken => sock'[s].overtaken
      BY ScanKeeps
    <3>3. QED
      BY <1>3, <2>2, <3>1, <3>2, StillExplained
  <2>3. QED
    BY <1>3, <2>1, <2>2
<1>4. QED
  BY <1>1, <1>2, <1>3

LEMMA CommandExplained ==
    ASSUME ModTypeOK, NEW c \in Commands, Issue(c) \/ Handling(c), [ModNext]_vars,
           NEW s \in Sockets, Explained(s)
    PROVE  Explained(s)'
<1>0. sock[s] \in Sock
  BY DEF ModTypeOK, Sock
<1>1. CASE Enforce(c)
  <2>1. cmd[c].target \in Keys
    BY <1>1 DEF Enforce, ModTypeOK
  <2> DEFINE j == cmd[c].target
  <2>2. PICK p \in Pods : Scan(p, j)
    BY <1>1 DEF Enforce
  <2>3. PodOf[s] \in Pods
    BY PodAssumption
  <2>4. inbox'[PodOf[s]][j] > 0
    BY <1>1, <2>1, <2>3 DEF Enforce, ModTypeOK
  <2>5. ASSUME NEW k \in Keys, k # j
        PROVE  /\ <<PodOf[s], k>> \in missed => <<PodOf[s], k>> \in missed'
               /\ k \in aborted => k \in aborted'
               /\ inbox[PodOf[s]][k] > 0 => inbox'[PodOf[s]][k] > 0
               /\ Enforcing(k) => Enforcing(k)'
    <3>1. inbox'[PodOf[s]][k] = inbox[PodOf[s]][k]
      BY <1>1, <2>1, <2>3, <2>5 DEF Enforce, ModTypeOK
    <3>2. \A d \in Commands : d # c => cmd'[d] = cmd[d]
      BY <1>1 DEF Enforce, Ends, ModTypeOK
    <3>3. Enforcing(k) => Enforcing(k)'
      BY <2>5, <3>2 DEF Enforcing
    <3>4. QED
      BY <1>1, <2>5, <3>1, <3>3 DEF Enforce
  <2>6. UNCHANGED rows
    BY <1>1 DEF Enforce
  <2>7. QED
    BY <2>1, <2>2, <2>4, <2>5, <2>6, ScanExplained
<1>2. ASSUME ~Enforce(c), NEW k \in Keys, Enforcing(k)
      PROVE  Enforcing(k)' \/ k \in aborted'
  <2>1. \A d \in Commands : Enforce(d) => d = c
    <3>1. ASSUME NEW d \in Commands, d # c, Enforce(d)
          PROVE  FALSE
      <4>1. cmd'[d] = NoCommand /\ cmd[d].stage = "enforce"
        BY <3>1 DEF Enforce, Ends, ModTypeOK
      <4>2. cmd'[d].stage = cmd[d].stage
        <5>1. CASE WriteUnban(c) /\ ban[cmd[c].target] # "none"
          <6> DEFINE f == [cmd EXCEPT ![c].stage = "audit"]
          <6>1. CmdOK(f) /\ f[d] = cmd[d]
            BY <3>1, <5>1 DEF ModTypeOK, CmdOK, Stages, WriteUnban
          <6>2. cmd' = Freed(cmd[c].target, f) /\ cmd[c].target \in Keys
            BY <5>1 DEF WriteUnban, ModTypeOK
          <6> HIDE DEF f
          <6>3. QED
            BY <6>1, <6>2, FreedIs
        <5>2. CASE Issue(c)
          BY <3>1, <5>2 DEF Issue, ModTypeOK
        <5>3. QED
          BY <3>1, <5>1, <5>2
          DEF Handling, CheckActor, CommandFails, Audit, ReadReport, CloseReport, WriteBan,
              WriteUnban, WriteTimeout, WriteUntimeout, Enforce, Goto, Ends, ModTypeOK
      <4>3. QED
        BY <4>1, <4>2 DEF NoCommand
    <3>2. QED
      BY <3>1
  <2>2. QED
    BY <1>2, <2>1, StillEnforcing DEF CommandFails
<1>3. CASE WriteBan(c)
  <2>1. cmd[c].target \in Keys
    BY <1>3 DEF WriteBan, ModTypeOK
  <2>2. Enforcing(cmd[c].target)'
    <3>1. cmd[c] \in [stage : Stages, op : Ops \cup {"none"}, actor : Keys \cup {NoKey},
                      target : Keys \cup {NoKey}, open : BOOLEAN]
      BY DEF ModTypeOK
    <3>2. cmd'[c] = [cmd[c] EXCEPT !.stage = "audit"] /\ cmd[c].op = "ban"
      BY <1>3 DEF WriteBan, Goto, ModTypeOK
    <3>3. /\ cmd'[c].stage = "audit"
          /\ cmd'[c].op = "ban"
          /\ cmd'[c].target = cmd[c].target
      BY <3>1, <3>2
    <3>4. QED
      BY <3>3 DEF Enforcing
  <2>3. UNCHANGED <<sock, inbox, missed, aborted>>
    BY <1>3 DEF WriteBan
  <2>4. cmd'[c].target = cmd[c].target
    BY <1>3 DEF WriteBan, Goto, ModTypeOK
  <2>5. CASE sock[s].key = cmd[c].target
    BY <2>2, <2>3, <2>4, <2>5 DEF Explained
  <2>6. CASE sock[s].key # cmd[c].target
    <3>1. sock[s].key \in Keys => (Banned(sock[s].key)' => Banned(sock[s].key))
      BY <1>3, <2>3, <2>6 DEF WriteBan, Banned, ModTypeOK
    <3>2. ~Enforce(c)
      BY <1>3 DEF WriteBan, Enforce
    <3>3. sock[s].phase \in {"owner", "gates", "live"} => sock[s].key \in Keys
      BY <1>0 DEF ModTypeOK, Sock
    <3>4. QED
      BY <1>2, <2>3, <3>1, <3>2, <3>3 DEF Explained, Excused
  <2>7. QED
    BY <2>5, <2>6
<1>4. CASE WriteUnban(c) /\ ban[cmd[c].target] # "none"
  <2>1. /\ cmd[c].target \in Keys
        /\ BanEnds(cmd[c].target, "none")
        /\ UNCHANGED inbox
    BY <1>4 DEF WriteUnban, ModTypeOK
  <2>2. \A j \in Keys : Enforcing(j) => Enforcing(j)'
    <3> DEFINE f == [cmd EXCEPT ![c].stage = "audit"]
    <3>1. CmdOK(f) /\ cmd[c].op = "unban"
      BY <1>4 DEF ModTypeOK, CmdOK, Stages, WriteUnban
    <3>2. \A d \in Commands : d # c => f[d] = cmd[d]
      BY DEF ModTypeOK
    <3>3. cmd' = Freed(cmd[c].target, f)
      BY <1>4 DEF WriteUnban
    <3> HIDE DEF f
    <3>4. \A d \in Commands : d # c =>
            /\ cmd'[d].stage = cmd[d].stage
            /\ cmd'[d].op = cmd[d].op
            /\ cmd'[d].target = cmd[d].target
      BY <2>1, <3>1, <3>2, <3>3, FreedIs
    <3>5. QED
      BY <3>1, <3>4 DEF Enforcing
  <2>3. QED
    BY <2>1, <2>2, BanEndExplained
<1>5. CASE ~Enforce(c) /\ ~WriteBan(c) /\ ~(WriteUnban(c) /\ ban[cmd[c].target] # "none")
  <2>1. /\ UNCHANGED <<ban, sock, inbox, missed>>
        /\ aborted \subseteq aborted'
    BY <1>5
    DEF Handling, Issue, CheckActor, CommandFails, Audit, ReadReport, CloseReport,
        WriteUnban, WriteTimeout, WriteUntimeout, rows
  <2>2. sock[s].phase \in {"owner", "gates", "live"} => sock[s].key \in Keys
    BY <1>0 DEF ModTypeOK, Sock
  <2>3. QED
    BY <1>2, <1>5, <2>1, <2>2 DEF Explained, Excused, Banned
<1>6. QED
  BY <1>1, <1>3, <1>4, <1>5

LEMMA ControlExplained ==
    ASSUME ModTypeOK, NEW p \in Pods, NEW j \in Keys, Control(p, j),
           NEW s \in Sockets, Explained(s)
    PROVE  Explained(s)'
<1>0. sock[s] \in Sock
  BY DEF ModTypeOK, Sock
<1>1. PodOf[s] \in Pods
  BY PodAssumption
<1>2. ASSUME NEW k \in Keys, PodOf[s] # p \/ k # j
      PROVE  inbox'[PodOf[s]][k] = inbox[PodOf[s]][k]
  BY <1>1, <1>2 DEF Control, Deliver, LoseCommand, ModTypeOK
<1>3. CASE Deliver(p, j)
  <2>1. ASSUME NEW k \in Keys, PodOf[s] # p \/ k # j
        PROVE  /\ <<PodOf[s], k>> \in missed => <<PodOf[s], k>> \in missed'
               /\ k \in aborted => k \in aborted'
               /\ inbox[PodOf[s]][k] > 0 => inbox'[PodOf[s]][k] > 0
               /\ Enforcing(k) => Enforcing(k)'
    BY <1>2, <1>3, <2>1 DEF Deliver, Enforcing
  <2>2. Scan(p, j) /\ UNCHANGED rows
    BY <1>3 DEF Deliver
  <2>3. QED
    BY <2>1, <2>2, ScanExplained
<1>4. CASE LoseCommand(p, j)
  <2>1. /\ UNCHANGED <<rows, sock, cmd, aborted>>
        /\ missed' = missed \cup {<<p, j>>}
    BY <1>4 DEF LoseCommand
  <2>2. CASE sock[s].key = j /\ PodOf[s] = p
    BY <2>1, <2>2 DEF Explained, Excused
  <2>3. CASE sock[s].key \in Keys /\ ~(sock[s].key = j /\ PodOf[s] = p)
    BY <1>2, <2>1, <2>3 DEF Explained, Excused, Enforcing, Banned, rows
  <2>4. CASE sock[s].key \notin Keys
    BY <1>0, <2>1, <2>4 DEF Explained, ModTypeOK, Sock
  <2>5. QED
    BY <2>2, <2>3, <2>4
<1>5. QED
  BY <1>3, <1>4 DEF Control

LEMMA ExplainedStep ==
    ASSUME ModTypeOK, [ModNext]_vars, NEW s \in Sockets, Explained(s)
    PROVE  Explained(s)'
<1>1. ASSUME UNCHANGED <<ban, sock, cmd, inbox, missed, aborted>>
      PROVE  Explained(s)'
  BY <1>1 DEF Explained, Excused, Banned, Enforcing
<1>2. ASSUME NEW w \in Writes, Ingest(w)
      PROVE  UNCHANGED <<ban, sock, cmd, inbox, missed, aborted>>
  BY <1>2 DEF Ingest, Submit, WriteGate, WriteGateFails, WriteEnds, rows
<1>3. ASSUME NEW k \in Keys, BanExpires(k)
      PROVE  Explained(s)'
  <2>1. CmdOK(cmd)
    BY DEF ModTypeOK, CmdOK
  <2>2. \A j \in Keys : Enforcing(j) => Enforcing(j)'
    BY <1>3, <2>1, FreedIs DEF BanExpires, Enforcing
  <2>3. QED
    BY <1>3, <2>2, BanEndExplained DEF BanExpires
<1>4. ASSUME NEW k \in Keys, TimeoutExpires(k)
      PROVE  UNCHANGED <<ban, sock, cmd, inbox, missed, aborted>>
  BY <1>4 DEF TimeoutExpires
<1>5. CASE UNCHANGED vars
  BY <1>1, <1>5 DEF vars
<1>6. CASE ModNext
  BY <1>1, <1>2, <1>3, <1>4, <1>6, AuthenticationExplained, CommandExplained,
     ControlExplained
  DEF ModNext
<1>7. QED
  BY <1>5, <1>6

\* Live enforcement (disconnect_pubkey_clusterwide): a session of a banned key
\* that is still open is about to be closed, or belongs to one of the three
\* cases the fire-and-forget design admits.

THEOREM SurvivorsAreExplained == ModSpec => []SurvivorIsExplained
<1> DEFINE Inv == \A s \in Sockets : Explained(s)
<1>1. ModInit => Inv
  BY DEF ModInit, Explained, Closed
<1>2. ModTypeOK /\ Inv /\ [ModNext]_vars => Inv'
  BY ExplainedStep
<1>3. Inv => SurvivorIsExplained
  BY DEF Explained, SurvivorIsExplained, Survives, Enforcing
<1> HIDE DEF Inv
<1>4. QED
  BY <1>1, <1>2, <1>3, ModTyped, PTL DEF ModSpec

----------------------------------------------------------------------------
\* Reports.  A handler about to close the report has left its audit row.

Audited(c) == cmd[c].stage = "close" => cmd[c].actor \in decisions

LEMMA AuditedStep ==
    ASSUME ModTypeOK, [ModNext]_vars, NEW c \in Commands, Audited(c)
    PROVE  Audited(c)'
<1>0. cmd[c] \in [stage : Stages, op : Ops \cup {"none"}, actor : Keys \cup {NoKey},
                  target : Keys \cup {NoKey}, open : BOOLEAN]
  BY DEF ModTypeOK
<1>1. decisions \subseteq decisions'
  <2>1. ASSUME NEW d \in Commands, Issue(d) \/ Handling(d)
        PROVE  decisions \subseteq decisions'
    BY <2>1 DEF Handling, Issue, CheckActor, CommandFails, Audit, ReadReport, CloseReport,
                WriteBan, WriteUnban, WriteTimeout, WriteUntimeout, Enforce, queue
  <2>2. ASSUME NEW s \in Sockets, Authentication(s)
        PROVE  UNCHANGED queue
    BY <2>2 DEF Authentication, Connect, Authenticate, CheckSelf, CheckOwner, GateRefuses,
                SetAuthenticatedPubkey, Leave
  <2>3. ASSUME NEW w \in Writes, Ingest(w)
        PROVE  UNCHANGED queue
    BY <2>3 DEF Ingest, Submit, WriteGate, WriteGateFails, WriteEnds
  <2>4. ASSUME NEW q \in Pods, NEW k \in Keys, Control(q, k)
        PROVE  UNCHANGED queue
    BY <2>4 DEF Control, Deliver, LoseCommand
  <2>5. ASSUME NEW k \in Keys, BanExpires(k) \/ TimeoutExpires(k)
        PROVE  UNCHANGED queue
    BY <2>5 DEF BanExpires, TimeoutExpires
  <2>6. QED
    BY <2>1, <2>2, <2>3, <2>4, <2>5 DEF ModNext, queue, vars
<1>2. CASE cmd'[c] = cmd[c]
  BY <1>1, <1>2 DEF Audited
<1>3. ASSUME NEW j \in Keys, cmd'[c] = Freed(j, cmd)[c]
      PROVE  Audited(c)'
  <2>1. CmdOK(cmd)
    BY DEF ModTypeOK, CmdOK
  <2>2. QED
    BY <1>1, <1>3, <2>1, FreedIs DEF Audited
<1>4. CASE Issue(c)
  <2>1. cmd'[c].stage = "check"
    BY <1>4 DEF Issue, ModTypeOK
  <2>2. QED
    BY <2>1 DEF Audited
<1>5. CASE Ends(c)
  <2>1. cmd'[c].stage = "idle"
    BY <1>5 DEF Ends, NoCommand, ModTypeOK
  <2>2. QED
    BY <2>1 DEF Audited
<1>6. ASSUME NEW t \in Stages \ {"close"}, Goto(c, t)
      PROVE  Audited(c)'
  <2>1. cmd'[c].stage = t
    BY <1>0, <1>6 DEF Goto, ModTypeOK
  <2>2. QED
    BY <2>1 DEF Audited
<1>7. CASE Audit(c)
  <2>1. CASE cmd[c].op = "resolve"
    <3>1. cmd'[c] = [cmd[c] EXCEPT !.stage = "close"]
      BY <1>7, <2>1 DEF Audit, Goto, ModTypeOK
    <3>2. cmd'[c].actor = cmd[c].actor
      BY <1>0, <3>1
    <3>3. QED
      BY <1>7, <2>1, <3>2 DEF Audit, Audited
  <2>2. QED
    BY <1>5, <1>6, <1>7, <2>1 DEF Audit, Stages
<1>8. CASE WriteUnban(c)
  <2>1. CASE ban[cmd[c].target] # "none"
    <3> DEFINE f == [cmd EXCEPT ![c].stage = "audit"]
    <3>1. CmdOK(f) /\ f[c].stage = "audit" /\ cmd[c].target \in Keys
      BY <1>8 DEF ModTypeOK, CmdOK, Stages, WriteUnban
    <3>2. cmd' = Freed(cmd[c].target, f)
      BY <1>8, <2>1 DEF WriteUnban
    <3> HIDE DEF f
    <3>3. cmd'[c].stage = "audit"
      BY <3>1, <3>2, FreedIs
    <3>4. QED
      BY <3>3 DEF Audited
  <2>2. QED
    BY <1>5, <1>8, <2>1 DEF WriteUnban
<1>9. CASE Handling(c)
  BY <1>5, <1>6, <1>7, <1>8, <1>9
  DEF Handling, CheckActor, CommandFails, ReadReport, CloseReport, WriteBan,
      WriteTimeout, WriteUntimeout, Enforce, Stages
<1>10. QED
  BY <1>2, <1>3, <1>4, <1>9, SlotSteps

LEMMA ReportStep ==
    ASSUME ModTypeOK, [ModNext]_vars, \A c \in Commands : Audited(c), ReportClosedOnce
    PROVE  ReportClosedOnce'
<1>1. ASSUME UNCHANGED <<report, replies>>, decisions \subseteq decisions'
      PROVE  ReportClosedOnce'
  BY <1>1 DEF ReportClosedOnce
<1>2. ASSUME NEW c \in Commands, CloseReport(c)
      PROVE  ReportClosedOnce'
  <2>1. cmd[c].actor \in decisions /\ cmd[c].actor \in Keys
    BY <1>2 DEF CloseReport, Audited, ModTypeOK
  <2>2. CASE report = "open"
    <3>1. replies = 0
      BY <2>2 DEF ReportClosedOnce, ModTypeOK
    <3>2. QED
      BY <1>2, <2>1, <2>2, <3>1, ReportAssumption DEF CloseReport, ReportClosedOnce
  <2>3. CASE report # "open"
    BY <1>1, <1>2, <2>3 DEF CloseReport
  <2>4. QED
    BY <2>2, <2>3
<1>3. ASSUME NEW c \in Commands, Issue(c) \/ Handling(c), ~CloseReport(c)
      PROVE  UNCHANGED <<report, replies>> /\ decisions \subseteq decisions'
  BY <1>3 DEF Handling, Issue, CheckActor, CommandFails, Audit, ReadReport,
              WriteBan, WriteUnban, WriteTimeout, WriteUntimeout, Enforce, queue
<1>4. ASSUME NEW s \in Sockets, Authentication(s)
      PROVE  UNCHANGED queue
  BY <1>4 DEF Authentication, Connect, Authenticate, CheckSelf, CheckOwner, GateRefuses,
              SetAuthenticatedPubkey, Leave
<1>5. ASSUME NEW w \in Writes, Ingest(w)
      PROVE  UNCHANGED queue
  BY <1>5 DEF Ingest, Submit, WriteGate, WriteGateFails, WriteEnds
<1>6. ASSUME NEW q \in Pods, NEW k \in Keys, Control(q, k)
      PROVE  UNCHANGED queue
  BY <1>6 DEF Control, Deliver, LoseCommand
<1>7. ASSUME NEW k \in Keys, BanExpires(k) \/ TimeoutExpires(k)
      PROVE  UNCHANGED queue
  BY <1>7 DEF BanExpires, TimeoutExpires
<1>8. UNCHANGED queue => ReportClosedOnce'
  BY <1>1 DEF queue
<1>9. CASE UNCHANGED vars
  BY <1>8, <1>9 DEF vars, queue
<1>10. CASE ModNext
  BY <1>1, <1>2, <1>3, <1>4, <1>5, <1>6, <1>7, <1>8, <1>10 DEF ModNext
<1>11. QED
  BY <1>9, <1>10

\* Reports (handle_resolve): however many moderators resolve a report at once,
\* one closes it, with an audit row, and the reporter hears at most once.

THEOREM ReportsCloseOnce == ModSpec => []ReportClosedOnce
<1> DEFINE Inv == ReportClosedOnce /\ \A c \in Commands : Audited(c)
<1>1. ModInit => Inv
  BY DEF ModInit, ReportClosedOnce, Audited, NoCommand
<1>2. ModTypeOK /\ Inv /\ [ModNext]_vars => Inv'
  BY AuditedStep, ReportStep
<1>3. Inv => ReportClosedOnce
  OBVIOUS
<1> HIDE DEF Inv
<1>4. QED
  BY <1>1, <1>2, <1>3, ModTyped, PTL DEF ModSpec

============================================================================
