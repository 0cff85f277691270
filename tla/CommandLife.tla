------------------------------ MODULE CommandLife ------------------------------
(***************************************************************************)
(* The life of a command from CommandGateway.submit to its result, across  *)
(* the hub's module sessions (uii/hub/southbound.py, commands.py), the TCP *)
(* connections, and the reference module agent (uii/refmod.py) that        *)
(* executes it, buffers what it cannot send and redials.                   *)
(*                                                                         *)
(* One module, one hub.  The k-th connection the module opens is link k.   *)
(* A link that is not alive still holds what was delivered before it went; *)
(* each end notices the loss after it has read that.  Both ends may write  *)
(* to a link they do not know is gone.                                     *)
(*                                                                         *)
(* Abstractions: TELEM and PROGRESS only add evidence, so they are here    *)
(* only where one is read instead of ROLE_OK; the trust check and          *)
(* the quarantine, which precede every command, are not here; a drain()    *)
(* that waits for room and the 5 s limit on the dispatch future are left   *)
(* out (64 KiB of unsent commands); a command may be dispatched any time   *)
(* after it is stored, as an approved one is.                              *)
(***************************************************************************)
EXTENDS Naturals, Sequences, FiniteSets

CONSTANTS
    Commands,           \* command ids
    MaybeAborts,        \* bound: those that may be of type "abort"
    NoCommand,          \* a message about no command
    RingLimit,          \* maxlen of the agent's ring (500 in the code)
    MaxDials,           \* bound: connections the module opens
    MaxHubRestarts,     \* bound: stops and crashes of the hub process
    MaxModuleRestarts   \* bound: crashes of the agent process

ASSUME CommandAssumption ==
    /\ MaybeAborts \subseteq Commands
    /\ NoCommand \notin Commands
    /\ RingLimit \in Nat \ {0}
    /\ {MaxDials, MaxHubRestarts, MaxModuleRestarts} \subseteq Nat

VARIABLES
    trail,      \* the evidence about each command, in sequence order
    gate,       \* how far submit() is with each command
    sess,       \* ModuleSession.state per link
    inflight,   \* ModuleSession.commands per link
    current,    \* the link of hub.sessions[module_id], 0 when there is none
    alive,      \* whether link k still carries bytes
    up, down,   \* the bytes of link k, module to hub and hub to module
    phase,      \* where the agent's run() is
    writer,     \* the link behind the agent's self.writer, 0 when None
    task,       \* the agent's execute() task for each command
    ring,       \* the agent's buffer of unsent messages
    dials, hubRestarts, moduleRestarts

hubVars == <<trail, gate, sess, inflight, current>>
linkVars == <<alive, up, down>>
agentVars == <<phase, writer, task, ring>>
counters == <<dials, hubRestarts, moduleRestarts>>
vars == <<hubVars, linkVars, agentVars, counters>>

Links == 1..MaxDials

Message(t, c) == [t |-> t, command_id |-> c]
UpMessages == [t: {"ROLE_OK", "TELEM", "ACK", "NACK", "RESULT"},
               command_id: Commands \union {NoCommand}]
DownMessages == [t: {"HELLO_OK", "CMD"}, command_id: Commands \union {NoCommand}]

Init ==
    /\ trail = [c \in Commands |-> <<>>]
    /\ gate = [c \in Commands |-> "new"]
    /\ sess = [k \in Links |-> "none"]
    /\ inflight = [k \in Links |-> {}]
    /\ current = 0
    /\ alive = [k \in Links |-> FALSE]
    /\ up = [k \in Links |-> <<>>]
    /\ down = [k \in Links |-> <<>>]
    /\ phase = "offline"
    /\ writer = 0
    /\ task = [c \in Commands |-> "none"]
    /\ ring = <<>>
    /\ dials = 0
    /\ hubRestarts = 0
    /\ moduleRestarts = 0

-----------------------------------------------------------------------------
(* The gateway, in the thread of whoever submits or approves a command. *)

Record(c, kinds) == trail' = [trail EXCEPT ![c] = @ \o kinds]

(* Every check passed: the command is stored.  A submission that fails one *)
(* is audited before it has a command id and leaves nothing here.          *)
Admit(c) ==
    /\ gate[c] = "new"
    /\ current # 0
    /\ Record(c, <<"command">>)
    /\ gate' = [gate EXCEPT ![c] = "stored"]
    /\ UNCHANGED <<sess, inflight, current, linkVars, agentVars, counters>>

NotInFlight(k, c) == inflight[k] \ {c}

(* SouthboundHub.dispatch on the event loop: the session is whichever is   *)
(* in the map now.  Writing to a link that is gone either passes silently  *)
(* or raises, and then the command is taken back.                          *)
Dispatch(c) ==
    /\ gate[c] = "stored"
    /\ \/ /\ current = 0
          /\ gate' = [gate EXCEPT ![c] = "undelivered"]
          /\ UNCHANGED <<inflight, down>>
       \/ /\ current # 0
          /\ inflight' = [inflight EXCEPT ![current] = @ \union {c}]
          /\ down' = IF alive[current]
                     THEN [down EXCEPT ![current] = Append(@, Message("CMD", c))]
                     ELSE down
          /\ gate' = [gate EXCEPT ![c] = "sent"]
       \/ /\ current # 0
          /\ ~alive[current]
          /\ inflight' = [inflight EXCEPT ![current] = NotInFlight(current, c)]
          /\ gate' = [gate EXCEPT ![c] = "undelivered"]
          /\ UNCHANGED down
    /\ UNCHANGED <<trail, sess, current, alive, up, agentVars, counters>>

(* dispatch() returned False: the gateway appends the terminal result. *)
Undelivered(c) ==
    /\ gate[c] = "undelivered"
    /\ Record(c, <<"undelivered">>)
    /\ gate' = [gate EXCEPT ![c] = "done"]
    /\ UNCHANGED <<sess, inflight, current, linkVars, agentVars, counters>>

-----------------------------------------------------------------------------
(* A module session, one task of the event loop per link. *)

(* HELLO read, module trusted: HELLO_OK goes out. *)
HubGreets(k) ==
    /\ sess[k] = "dialled"
    /\ alive[k]
    /\ sess' = [sess EXCEPT ![k] = "adopting"]
    /\ down' = [down EXCEPT ![k] = Append(@, Message("HELLO_OK", NoCommand))]
    /\ UNCHANGED <<trail, gate, inflight, current, alive, up, agentVars, counters>>

HubAdopts(k) ==
    /\ sess[k] = "adopting"
    /\ up[k] # <<>>
    /\ Head(up[k]).t = "ROLE_OK"
    /\ sess' = [sess EXCEPT ![k] = "operational"]
    /\ current' = k
    /\ up' = [up EXCEPT ![k] = Tail(@)]
    /\ UNCHANGED <<trail, gate, inflight, alive, down, agentVars, counters>>

(* Anything but ROLE_OK, or nothing for 10 s: adoption-failed, and the hub *)
(* closes the connection with whatever else was on it.                     *)
HubRejects(k) ==
    /\ sess[k] = "adopting"
    /\ up[k] # <<>> => Head(up[k]).t # "ROLE_OK"
    /\ sess' = [sess EXCEPT ![k] = "closed"]
    /\ alive' = [alive EXCEPT ![k] = FALSE]
    /\ up' = [up EXCEPT ![k] = <<>>]
    /\ UNCHANGED <<trail, gate, inflight, current, down, agentVars, counters>>

Terminal == {"NACK", "RESULT"}

(* The envelopes _handle appends for a message: a rejection is terminal,   *)
(* so it is followed by its result at once.                                *)
Evidence(t) ==
    CASE t = "ACK" -> <<"ack">>
      [] t = "NACK" -> <<"nack", "rejected">>
      [] t = "RESULT" -> <<"succeeded">>

(* _handle: append the evidence; a terminal message takes the command out  *)
(* of this session's memory.                                               *)
HubReads(k) ==
    /\ sess[k] = "operational"
    /\ up[k] # <<>>
    /\ LET m == Head(up[k])
       IN  IF m.command_id \in Commands
           THEN /\ Record(m.command_id, Evidence(m.t))
                /\ inflight' = IF m.t \in Terminal
                               THEN [inflight EXCEPT ![k] = @ \ {m.command_id}]
                               ELSE inflight
           ELSE UNCHANGED <<trail, inflight>>
    /\ up' = [up EXCEPT ![k] = Tail(@)]
    /\ UNCHANGED <<gate, sess, current, alive, down, agentVars, counters>>

NobodyGivenUp(k) == {}                     \* mutant: no result for lost commands
GivenUp(k) == inflight[k]

(* readline() reports the end of the link.  A session that was operational *)
(* leaves the map, whoever is in it by now, and gives up its commands.     *)
HubNotices(k) ==
    /\ sess[k] \in {"dialled", "adopting", "operational"}
    /\ ~alive[k]
    /\ up[k] = <<>>
    /\ sess' = [sess EXCEPT ![k] = "closed"]
    /\ IF sess[k] = "operational"
       THEN /\ current' = 0
            /\ trail' = [c \in Commands |-> IF c \in GivenUp(k)
                                            THEN Append(trail[c], "lost") ELSE trail[c]]
            /\ inflight' = [inflight EXCEPT ![k] = {}]
       ELSE UNCHANGED <<current, trail, inflight>>
    /\ UNCHANGED <<gate, linkVars, agentVars, counters>>

(* The hub is stopped (draining: the sessions emit nothing) or killed, and *)
(* started again: evidence stays, sessions and submitting threads do not.  *)
HubRestart ==
    /\ hubRestarts < MaxHubRestarts
    /\ hubRestarts' = hubRestarts + 1
    /\ sess' = [k \in Links |-> IF sess[k] = "none" THEN "none" ELSE "closed"]
    /\ inflight' = [k \in Links |-> {}]
    /\ current' = 0
    /\ gate' = [c \in Commands |-> IF gate[c] \in {"stored", "undelivered"}
                                   THEN "abandoned" ELSE gate[c]]
    /\ alive' = [k \in Links |-> FALSE]
    /\ up' = [k \in Links |-> <<>>]
    /\ UNCHANGED <<trail, down, agentVars, dials, moduleRestarts>>

-----------------------------------------------------------------------------
(* The network. *)

LinkDrops(k) ==
    /\ alive[k]
    /\ alive' = [alive EXCEPT ![k] = FALSE]
    /\ \E i \in 0..Len(up[k]) : up' = [up EXCEPT ![k] = SubSeq(@, 1, i)]
    /\ \E j \in 0..Len(down[k]) : down' = [down EXCEPT ![k] = SubSeq(@, 1, j)]
    /\ UNCHANGED <<hubVars, agentVars, counters>>

-----------------------------------------------------------------------------
(* The agent: run() owns the connection, execute() tasks send through it.  *)

(* deque(maxlen=RingLimit): the oldest message gives way. *)
Kept(msgs) == IF Len(msgs) <= RingLimit THEN msgs
              ELSE SubSeq(msgs, Len(msgs) - RingLimit + 1, Len(msgs))

SentAndKept(m) ==                          \* mutant: buffered even when sent
    /\ up' = [up EXCEPT ![writer] = Append(@, m)]
    /\ ring' = Kept(Append(ring, m))
    /\ UNCHANGED writer
Sent(m) ==
    /\ up' = [up EXCEPT ![writer] = Append(@, m)]
    /\ UNCHANGED <<ring, writer>>

Buffered(m) ==
    /\ ring' = Kept(Append(ring, m))
    /\ writer' = 0
    /\ UNCHANGED up

(* send(): to the wire, or to the ring when there is no writer.  On a link *)
(* that is gone the write passes unnoticed and the bytes are lost, or it   *)
(* raises and the message is buffered.                                     *)
Send(m) ==
    IF writer = 0 THEN Buffered(m)
    ELSE IF alive[writer] THEN Sent(m)
    ELSE Buffered(m) \/ UNCHANGED <<up, ring, writer>>

Connected == phase \in {"hello", "adopted"}

(* open_connection and HELLO, which is always first on its link. *)
Dial ==
    /\ phase = "offline"
    /\ dials < MaxDials
    /\ dials' = dials + 1
    /\ alive' = [alive EXCEPT ![dials + 1] = TRUE]
    /\ sess' = [sess EXCEPT ![dials + 1] = "dialled"]
    /\ phase' = "hello"
    /\ writer' = dials + 1
    /\ UNCHANGED <<trail, gate, inflight, current, up, down, task, ring,
                   hubRestarts, moduleRestarts>>

(* What a task that dies with the process leaves behind. *)
AgentGone(nextPhase) ==
    /\ phase' = nextPhase
    /\ writer' = 0
    /\ task' = [c \in Commands |-> "none"]
    /\ ring' = <<>>

FlushedAndKept == ring                     \* mutant: ring.clear() forgotten
Flushed == <<>>

(* HELLO_OK arrives: ROLE_OK and the whole ring go out and the ring is     *)
(* cleared, whether or not the link still carries them.  When the ROLE_OK  *)
(* finds no writer, or its send raises, writing the ring to None ends the  *)
(* process.                                                                *)
AgentAdopted ==
    /\ phase = "hello"
    /\ down[dials] # <<>>
    /\ down' = [down EXCEPT ![dials] = Tail(@)]
    /\ \/ /\ writer # 0
          /\ phase' = "adopted"
          /\ up' = IF alive[dials]
                   THEN [up EXCEPT ![dials] =
                            @ \o <<Message("ROLE_OK", NoCommand)>> \o ring]
                   ELSE up
          /\ ring' = Flushed
          /\ UNCHANGED <<writer, task>>
       \/ /\ ~alive[dials]
          /\ AgentGone("dead")
          /\ UNCHANGED up
    /\ UNCHANGED <<hubVars, alive, counters>>

(* A CMD starts a task of its own.  What the command is matters here for   *)
(* the first time: a timeline or an abort.                                 *)
AgentReads ==
    /\ phase = "adopted"
    /\ down[dials] # <<>>
    /\ LET c == Head(down[dials]).command_id
       IN  \E kind \in {"timeline"} \union (IF c \in MaybeAborts THEN {"abort"} ELSE {}) :
                task' = [task EXCEPT ![c] = kind]
    /\ down' = [down EXCEPT ![dials] = Tail(@)]
    /\ UNCHANGED <<hubVars, alive, up, phase, writer, ring, counters>>

(* End of file, or no HELLO_OK for 10 s: back off and dial again. *)
AgentNotices ==
    /\ Connected
    /\ down[dials] = <<>>
    /\ ~alive[dials] \/ phase = "hello"
    /\ phase' = "offline"
    /\ writer' = 0
    /\ alive' = [alive EXCEPT ![dials] = FALSE]
    /\ UNCHANGED <<hubVars, up, down, task, ring, counters>>

AgentRestart ==
    /\ moduleRestarts < MaxModuleRestarts
    /\ moduleRestarts' = moduleRestarts + 1
    /\ AgentGone("offline")
    /\ alive' = [k \in Links |-> alive[k] /\ ~(Connected /\ k = dials)]
    /\ down' = [k \in Links |-> <<>>]
    /\ UNCHANGED <<hubVars, up, dials, hubRestarts>>

(* Telemetry or progress while the agent waits for HELLO_OK: its health    *)
(* loop and its captures do not know that the hub now expects ROLE_OK.     *)
(* Bound: one such message at the head of a link.                          *)
HealthTick ==
    /\ phase = "hello"
    /\ writer # 0
    /\ up[dials] = <<>>
    /\ Send(Message("TELEM", NoCommand))
    /\ UNCHANGED <<hubVars, alive, down, phase, task, counters>>

Busy == \E c \in Commands : task[c] = "running"

Accept(c) ==
    /\ \/ /\ task[c] = "timeline"
          /\ ~Busy
          /\ task' = [task EXCEPT ![c] = "running"]
       \/ /\ task[c] = "abort"
          /\ task' = [task EXCEPT ![c] = "aborting"]
    /\ Send(Message("ACK", c))
    /\ UNCHANGED <<hubVars, alive, down, phase, counters>>

(* Busy, unknown type or a bad parameter. *)
Decline(c) ==
    /\ task[c] = "timeline"
    /\ Send(Message("NACK", c))
    /\ task' = [task EXCEPT ![c] = "none"]
    /\ UNCHANGED <<hubVars, alive, down, phase, counters>>

Finish(c) ==
    /\ task[c] \in {"running", "aborting"}
    /\ Send(Message("RESULT", c))
    /\ task' = [task EXCEPT ![c] = "none"]
    /\ UNCHANGED <<hubVars, alive, down, phase, counters>>

-----------------------------------------------------------------------------
Gateway(c) == Dispatch(c) \/ Undelivered(c)
Session(k) == HubGreets(k) \/ HubAdopts(k) \/ HubReads(k) \/ HubNotices(k)
Execute(c) == Accept(c) \/ Decline(c) \/ Finish(c)
Agent == AgentAdopted \/ AgentReads \/ AgentNotices

Next ==
    \/ \E c \in Commands : Admit(c) \/ Gateway(c) \/ Execute(c)
    \/ \E k \in Links : Session(k) \/ HubRejects(k) \/ LinkDrops(k)
    \/ Agent \/ Dial \/ HealthTick \/ AgentRestart \/ HubRestart

Spec == Init /\ [][Next]_vars

(* Threads and tasks run on; the end of a link reaches the hub (the peer's *)
(* FIN or RST arrives: nothing in the hub times an idle session out).  No  *)
(* dial, submission, loss, restart or timeout is owed.                     *)
FairSpec ==
    /\ Spec
    /\ \A c \in Commands : WF_vars(Gateway(c)) /\ WF_vars(Execute(c))
    /\ \A k \in Links : WF_vars(Session(k))
    /\ WF_vars(AgentAdopted \/ AgentReads)

-----------------------------------------------------------------------------
TypeOK ==
    /\ trail \in [Commands -> Seq({"command", "ack", "nack", "rejected", "succeeded",
                                   "undelivered", "lost"})]
    /\ gate \in [Commands -> {"new", "stored", "sent", "undelivered",
                              "done", "abandoned"}]
    /\ sess \in [Links -> {"none", "dialled", "adopting", "operational", "closed"}]
    /\ inflight \in [Links -> SUBSET Commands]
    /\ {current, writer, dials} \subseteq 0..MaxDials
    /\ alive \in [Links -> BOOLEAN]
    /\ up \in [Links -> Seq(UpMessages)]
    /\ down \in [Links -> Seq(DownMessages)]
    /\ phase \in {"offline", "hello", "adopted", "dead"}
    /\ task \in [Commands -> {"none", "timeline", "abort", "running", "aborting"}]
    /\ ring \in Seq(UpMessages) /\ Len(ring) <= RingLimit
    /\ hubRestarts \in 0..MaxHubRestarts
    /\ moduleRestarts \in 0..MaxModuleRestarts

Answers == {"rejected", "succeeded"}
Results == {"undelivered", "lost", "rejected", "succeeded"}
ResultsAt(c) == {i \in DOMAIN trail[c] : trail[c][i] \in Results}
ResultCount(c) == Cardinality(ResultsAt(c))
Stored(c) == trail[c] # <<>>

(* The life of c as CommandPromise tells it; "broken" is none of its lives. *)
Life(c) ==
    LET at == ResultsAt(c)
        kinds == {trail[c][i] : i \in at}
    IN  CASE at = {} -> IF Stored(c) THEN "asked" ELSE "new"
          [] Cardinality(at) = 1 /\ kinds = {"undelivered"} -> "undelivered"
          [] Cardinality(at) = 1 /\ kinds = {"lost"} -> "lost"
          [] Cardinality(at) = 1 /\ kinds \subseteq Answers -> "answered"
          [] Cardinality(at) = 2 /\ (\E a \in Answers : kinds = {"lost", a}) -> "twice"
          [] OTHER -> "broken"

Promise == INSTANCE CommandPromise WITH life <- [c \in Commands |-> Life(c)]

(* The hub and the agent keep the promise through lost links, redials,     *)
(* buffered answers and restarts of either end: the module's verdict is    *)
(* recorded at most once, the hub gives a command up at most once, and a   *)
(* command reported undelivered is never answered (southbound.py:164-176   *)
(* and 256-275, commands.py:172-185, refmod.py:94-116 and 239-241).        *)
KeepsThePromise == Promise!Spec

(* No command slips through: until its result is stored, a stored command  *)
(* is with the submitting thread or in flight on a session that has not    *)
(* ended, unless a restart of the hub dropped it ("one result per command, *)
(* always", southbound.py:164).                                            *)
NothingForgotten ==
    \A c \in Commands :
        (Stored(c) /\ ResultCount(c) = 0 /\ hubRestarts = 0) =>
            \/ gate[c] \in {"stored", "undelivered"}
            \/ \E k \in Links : sess[k] = "operational" /\ c \in inflight[k]

(* Two results need two connections: as long as the module never redialled *)
(* a command has at most one, whatever is lost and in whichever order the  *)
(* two ends notice (commands.py:4-6).                                      *)
OneResultWithoutRedial ==
    dials <= 1 => \A c \in Commands : ResultCount(c) <= 1

(* The places of the agent's verdict on c, from the CMD it read onwards. *)
IsVerdict(m, c) == m.command_id = c /\ m.t \in Terminal
TaskPlace(c) == IF task[c] = "none" THEN {} ELSE {<<"task">>}
RingPlaces(c) == {<<"ring", i>> : i \in {j \in DOMAIN ring : IsVerdict(ring[j], c)}}
LinkPlaces(k, c) ==
    {<<"link", k, i>> : i \in {j \in DOMAIN up[k] : IsVerdict(up[k][j], c)}}
TrailPlaces(c) == {<<"trail", i>> : i \in {j \in DOMAIN trail[c] : trail[c][j] \in Answers}}
VerdictPlaces(c) ==
    TaskPlace(c) \union RingPlaces(c) \union TrailPlaces(c)
        \union UNION {LinkPlaces(k, c) : k \in Links}

(* The agent's verdict on a command exists once: in its task, its ring, on *)
(* one link, or in the evidence, never in two of them ("a healthy send     *)
(* leaves nothing to duplicate on the next reconnect", refmod.py:95).      *)
VerdictInOnePlace ==
    \A c \in Commands : \A p, q \in VerdictPlaces(c) : p = q

(* One instrument, one timeline at a time, however commands arrive over    *)
(* however many connections (refmod.py:133-136).                           *)
OneTimelineAtATime ==
    \A c, d \in Commands : task[c] = "running" /\ task[d] = "running" => c = d

(* Hub, links and agent agree on where every command is: nothing is        *)
(* forgotten, answered twice without a redial, kept in two places or run   *)
(* beside another timeline.                                                *)
Consistent ==
    /\ TypeOK
    /\ NothingForgotten
    /\ OneResultWithoutRedial
    /\ VerdictInOnePlace
    /\ OneTimelineAtATime

(* Every stored command ends: it gets a result unless the hub is restarted *)
(* ("a lost module still gets its one terminal result", commands.py:173).  *)
EndsUnlessRestarted ==
    \A c \in Commands : Stored(c) ~> (ResultCount(c) # 0 \/ hubRestarts > 0)

(* "exactly one `result` envelope" per admitted command (commands.py:6),   *)
(* its safety half: never two.                                             *)
AtMostOneResult == \A c \in Commands : ResultCount(c) <= 1

=============================================================================
