------------------------------- MODULE MqttShim -------------------------------
(***************************************************************************)
(* The MQTT shim (uii_analyzer/mqtt_shim.py): it gives one legacy unit a   *)
(* module's face.  Commands come from the hub over a TCP link and go to    *)
(* the unit over MQTT; the unit's action_status messages come back and are *)
(* translated into ACK, PROGRESS and RESULT.                               *)
(*                                                                         *)
(* The shim is one event loop.  An await on drain() may wait, and then     *)
(* other handlers and timers run first; that is the state "suspended".     *)
(*                                                                         *)
(* Abstractions: MQTT is QoS 0, so any publish may be lost, which stands   *)
(* for every outage of the broker, half-open ones included; the hub side   *)
(* is what CommandLife says of one session, with one link at a time (the   *)
(* hub notices the end of a link before the shim, which waits at least a   *)
(* second, dials again) and a dispatch that reaches it; quarantine is in   *)
(* Adoption; telemetry is here only where it displaces ROLE_OK.            *)
(***************************************************************************)
EXTENDS Naturals, Sequences, FiniteSets

CONSTANTS
    Requests,        \* command ids, which are also the unit's request_ids
    NoRequest,       \* a request_id the hub knows nothing of
    Steps,           \* progress steps of one action on the unit
    Room,            \* bound: status messages under way from the unit
    MaxDials,        \* bound: connections the shim opens
    MaxHubRestarts   \* bound: stops and crashes of the hub process

ASSUME ShimAssumption ==
    /\ NoRequest \notin Requests
    /\ {Steps, Room} \subseteq Nat \ {0}
    /\ {MaxDials, MaxHubRestarts} \subseteq Nat

VARIABLES
    trail,       \* the hub's evidence about each command, without progress
    shown,       \* the progress envelopes of each command, as step numbers
    hub,         \* the hub's session for the current link
    inflight,    \* ModuleSession.commands of that session
    alive,       \* whether the link still carries bytes
    up, down,    \* its bytes, shim to hub and hub to shim
    runAt,       \* where the task _run() is; "done" when there is none
    hubWriter,   \* whether self.writer is set
    silent,      \* offline_after_s have passed since self.last_seen
    pending,     \* the keys of self.pending
    acked,       \* p["acked"] of every command there ever was
    last,        \* p["last_progress"], 0 for None
    suspended,   \* _action_status tasks waiting in _ack's drain()
    actions,     \* commands under way to the unit
    statuses,    \* action_status messages under way to the shim
    working,     \* the request the unit executes, NoRequest when none
    step,        \* the progress of that request
    dials, hubRestarts

hubVars == <<trail, shown, hub, inflight>>
linkVars == <<alive, up, down>>
taskVars == <<runAt, silent>>
entryVars == <<pending, acked, last, suspended>>
unitVars == <<actions, statuses, working, step>>
counters == <<dials, hubRestarts>>
shimVars == <<hubVars, linkVars, taskVars, hubWriter, entryVars, unitVars, counters>>

Message(t, c, n) == [t |-> t, command_id |-> c, pct |-> n]
UpMessages == [t: {"TELEM", "ACK", "NACK", "PROGRESS", "RESULT"},
               command_id: Requests \union {NoRequest}, pct: 0..Steps]

Status(s, c, n) == [state |-> s, request_id |-> c, progress |-> n]
Statuses == [state: {"started", "progress", "completed", "rejected"},
             request_id: Requests \union {NoRequest}, progress: 0..Steps]

ShimInit ==
    /\ trail = [c \in Requests |-> <<>>]
    /\ shown = [c \in Requests |-> <<>>]
    /\ hub = "closed"
    /\ inflight = {}
    /\ alive = FALSE
    /\ up = <<>>
    /\ down = <<>>
    /\ runAt = "done"
    /\ hubWriter = FALSE
    /\ silent = TRUE
    /\ pending = {}
    /\ acked = [c \in Requests |-> FALSE]
    /\ last = [c \in Requests |-> 0]
    /\ suspended = <<>>
    /\ actions = <<>>
    /\ statuses = <<>>
    /\ working = NoRequest
    /\ step = 0
    /\ dials = 0
    /\ hubRestarts = 0

-----------------------------------------------------------------------------
(* The hub: one session of CommandLife. *)

(* A command is stored, held in flight and written to the link. *)
Submit(c) ==
    /\ trail[c] = <<>>
    /\ hub = "operational"
    /\ trail' = [trail EXCEPT ![c] = <<"command">>]
    /\ inflight' = inflight \union {c}
    /\ down' = IF alive THEN Append(down, c) ELSE down
    /\ UNCHANGED <<shown, hub, alive, up, taskVars, hubWriter, entryVars, unitVars,
                   counters>>

(* The handshake: ROLE_OK is the first thing the session reads. *)
HubAdopts ==
    /\ hub = "adopting"
    /\ runAt = "hello"
    /\ alive
    /\ up = <<>>
    /\ hub' = "operational"
    /\ runAt' = "adopted"
    /\ UNCHANGED <<trail, shown, inflight, linkVars, silent, hubWriter, entryVars,
                   unitVars, counters>>

(* ... or it is not: adoption-failed, and what else was sent is lost. *)
HubRejects ==
    /\ hub = "adopting"
    /\ up # <<>>
    /\ hub' = "closed"
    /\ alive' = FALSE
    /\ up' = <<>>
    /\ UNCHANGED <<trail, shown, inflight, down, taskVars, hubWriter, entryVars,
                   unitVars, counters>>

Evidence(t) ==
    CASE t = "ACK" -> <<"ack">>
      [] t = "NACK" -> <<"nack", "rejected">>
      [] t = "RESULT" -> <<"answered">>
      [] OTHER -> <<>>

Verdicts == {"NACK", "RESULT"}

HubReads ==
    /\ hub = "operational"
    /\ up # <<>>
    /\ LET m == Head(up)
       IN  IF m.command_id \in Requests
           THEN /\ trail' = [trail EXCEPT ![m.command_id] = @ \o Evidence(m.t)]
                /\ shown' = IF m.t = "PROGRESS"
                            THEN [shown EXCEPT ![m.command_id] = Append(@, m.pct)]
                            ELSE shown
                /\ inflight' = IF m.t \in Verdicts THEN inflight \ {m.command_id}
                               ELSE inflight
           ELSE UNCHANGED <<trail, shown, inflight>>
    /\ up' = Tail(up)
    /\ UNCHANGED <<hub, alive, down, taskVars, hubWriter, entryVars, unitVars, counters>>

(* The end of the link: the commands in flight get their result. *)
HubNotices ==
    /\ hub # "closed"
    /\ ~alive
    /\ up = <<>>
    /\ hub' = "closed"
    /\ trail' = [c \in Requests |-> IF c \in inflight THEN Append(trail[c], "lost")
                                    ELSE trail[c]]
    /\ inflight' = {}
    /\ UNCHANGED <<shown, linkVars, taskVars, hubWriter, entryVars, unitVars, counters>>

HubRestart ==
    /\ hubRestarts < MaxHubRestarts
    /\ hubRestarts' = hubRestarts + 1
    /\ hub' = "closed"
    /\ inflight' = {}
    /\ alive' = FALSE
    /\ up' = <<>>
    /\ UNCHANGED <<trail, shown, down, taskVars, hubWriter, entryVars, unitVars, dials>>

LinkDrops ==
    /\ alive
    /\ alive' = FALSE
    /\ \E i \in 0..Len(up) : up' = SubSeq(up, 1, i)
    /\ \E j \in 0..Len(down) : down' = SubSeq(down, 1, j)
    /\ UNCHANGED <<hubVars, taskVars, hubWriter, entryVars, unitVars, counters>>

-----------------------------------------------------------------------------
(* The shim's task _run(), and what keeps it alive. *)

(* _send: without a writer the message is dropped, there is no buffer.  On *)
(* a link that is gone the write is lost, noticed or not.                  *)
Send(m) ==
    IF hubWriter /\ alive
    THEN up' = Append(up, m) /\ UNCHANGED hubWriter
    ELSE hubWriter' \in {FALSE, hubWriter} /\ UNCHANGED up

(* Any MQTT message proves the unit alive and revives the task. *)
Seen ==
    /\ silent' = FALSE
    /\ runAt' = IF runAt = "done" THEN "dialling" ELSE runAt

(* A heartbeat becomes a health record.  Bound: it is sent as a message    *)
(* only while the hub expects ROLE_OK, and once.                           *)
Heartbeat ==
    /\ Seen
    /\ IF runAt = "hello" /\ up = <<>> THEN Send(Message("TELEM", NoRequest, 0))
       ELSE UNCHANGED <<up, hubWriter>>
    /\ UNCHANGED <<hubVars, alive, down, entryVars, unitVars, counters>>

FallsSilent ==
    /\ ~silent
    /\ silent' = TRUE
    /\ UNCHANGED <<hubVars, linkVars, runAt, hubWriter, entryVars, unitVars, counters>>

Connects ==
    /\ runAt = "dialling"
    /\ ~silent
    /\ hub = "closed"
    /\ dials < MaxDials
    /\ dials' = dials + 1
    /\ hub' = "adopting"
    /\ alive' = TRUE
    /\ up' = <<>>
    /\ down' = <<>>
    /\ runAt' = "hello"
    /\ hubWriter' = TRUE
    /\ UNCHANGED <<trail, shown, inflight, silent, entryVars, unitVars, hubRestarts>>

(* The unit is silent before there is a link: the task ends. *)
StaysAway ==
    /\ runAt = "dialling"
    /\ silent
    /\ runAt' = "done"
    /\ UNCHANGED <<hubVars, linkVars, silent, hubWriter, entryVars, unitVars, counters>>

ByeOnly == alive                           \* mutant: BYE, but the socket stays open
Closed == FALSE

(* The unit is silent on an adopted link: BYE, close, and the task ends.   *)
(* Whatever waited in drain() has gone out before BYE has.                 *)
SaysBye ==
    /\ runAt = "adopted"
    /\ silent
    /\ suspended = <<>>
    /\ runAt' = "done"
    /\ hubWriter' = FALSE
    /\ alive' = Closed
    /\ down' = <<>>
    /\ UNCHANGED <<hubVars, up, silent, entryVars, unitVars, counters>>

(* End of file: back off and dial again.  A drain() of the link that is    *)
(* gone has raised by then.                                                *)
Notices ==
    /\ runAt \in {"hello", "adopted"}
    /\ ~alive
    /\ down = <<>>
    /\ suspended = <<>>
    /\ runAt' = "dialling"
    /\ hubWriter' = FALSE
    /\ UNCHANGED <<hubVars, linkVars, silent, entryVars, unitVars, counters>>

-----------------------------------------------------------------------------
(* The pending table. *)

Unsaid(c) == UNCHANGED <<up, hubWriter>>   \* mutant: refused without a NACK
Refuse(c) == Send(Message("NACK", c, 0))

(* deliver: publish() returns True and the command is pending, or False    *)
(* and it is refused at once.  Either way the message has reached the unit *)
(* or has not: publish() can fail in drain(), after its write().           *)
(* Abstraction: a publish() that fails does so before the unit answers.    *)
(* Otherwise the message has left a buffer that still holds so much behind *)
(* it, of other units' commands, that drain() waits.                       *)
Deliver ==
    /\ runAt = "adopted"
    /\ down # <<>>
    /\ LET c == Head(down)
       IN  /\ actions' \in {Append(actions, c), actions}
           /\ \/ /\ pending' = pending \union {c}
                 /\ UNCHANGED <<up, hubWriter>>
              \/ /\ Refuse(c)
                 /\ UNCHANGED pending
    /\ down' = Tail(down)
    /\ UNCHANGED <<hubVars, alive, taskVars, acked, last, suspended, statuses,
                   working, step, counters>>

StillPending(c) == c \in pending           \* mutant: the timer ignores p["acked"]
Unanswered(c) == c \in pending /\ ~acked[c]

(* _ack_timeout, ack_timeout_s after the command was published. *)
AckTimeout(c) ==
    /\ Unanswered(c)
    /\ pending' = pending \ {c}
    /\ Refuse(c)
    /\ UNCHANGED <<hubVars, alive, down, taskVars, acked, last, suspended, unitVars,
                   counters>>

StaysPending(c) == pending                 \* mutant: get() instead of pop()
Settled(c) == pending \ {c}

Key(s) == s.progress

IsNews(s) == Key(s) # last[s.request_id]

(* _action_status once the ACK is out. *)
Translate(s) ==
    LET c == s.request_id
    IN  \/ /\ s.state = "started"
           /\ UNCHANGED <<pending, last, up, hubWriter>>
        \/ /\ s.state = "progress"
           /\ IF IsNews(s)
              THEN /\ last' = [last EXCEPT ![c] = Key(s)]
                   /\ Send(Message("PROGRESS", c, s.progress))
              ELSE UNCHANGED <<last, up, hubWriter>>
           /\ UNCHANGED pending
        \/ /\ s.state = "completed"
           /\ pending' = Settled(c)
           /\ Send(Message("RESULT", c, 0))
           /\ UNCHANGED last

(* _action_status: a request that is not pending is only recorded.  The    *)
(* first sign of acceptance sends the ACK, and its drain() may let others  *)
(* go first.                                                               *)
Handle ==
    /\ statuses # <<>>
    /\ LET s == Head(statuses)
           c == s.request_id
       IN  \/ /\ c \notin pending
              /\ UNCHANGED <<up, hubWriter, entryVars>>
           \/ /\ c \in pending
              /\ s.state = "rejected"
              /\ pending' = Settled(c)
              /\ Send(Message(IF acked[c] THEN "RESULT" ELSE "NACK", c, 0))
              /\ UNCHANGED <<acked, last, suspended>>
           \/ /\ c \in pending
              /\ s.state # "rejected"
              /\ ~acked[c]
              /\ acked' = [acked EXCEPT ![c] = TRUE]
              /\ Send(Message("ACK", c, 0))
              /\ suspended' = Append(suspended, s)
              /\ UNCHANGED <<pending, last>>
           \/ /\ c \in pending
              /\ s.state # "rejected"
              /\ acked[c]
              /\ Translate(s)
              /\ UNCHANGED <<acked, suspended>>
    /\ statuses' = Tail(statuses)
    /\ Seen
    /\ UNCHANGED <<hubVars, alive, down, actions, working, step, counters>>

(* The await in _ack returns. *)
Continue ==
    /\ suspended # <<>>
    /\ Translate(Head(suspended))
    /\ suspended' = Tail(suspended)
    /\ UNCHANGED <<hubVars, alive, down, taskVars, acked, unitVars, counters>>

-----------------------------------------------------------------------------
(* The unit and the broker, as tools/fake_legacy_unit.py stands in for     *)
(* them.  A status arrives or is lost.                                     *)

Publish(s) ==
    \/ /\ Len(statuses) < Room
       /\ statuses' = Append(statuses, s)
    \/ UNCHANGED statuses

UnitUnchanged == <<hubVars, linkVars, taskVars, hubWriter, entryVars, counters>>

(* Modes change at once; an action is refused while another one runs, or   *)
(* outside ENDPOINT; otherwise it starts.                                  *)
UnitReceives ==
    /\ actions # <<>>
    /\ actions' = Tail(actions)
    /\ LET c == Head(actions)
       IN  \/ /\ \E s \in {"completed", "rejected"} : Publish(Status(s, c, 0))
              /\ UNCHANGED <<working, step>>
           \/ /\ working = NoRequest
              /\ working' = c
              /\ step' = 0
              /\ Publish(Status("started", c, 0))
    /\ UNCHANGED UnitUnchanged

(* The gateway repeats a step about once a second. *)
UnitProgresses ==
    /\ working # NoRequest
    /\ \E n \in {step, step + 1} \cap 1..Steps :
           /\ step' = n
           /\ Publish(Status("progress", working, n))
    /\ UNCHANGED <<actions, working, UnitUnchanged>>

UnitCompletes ==
    /\ working # NoRequest
    /\ Publish(Status("completed", working, 0))
    /\ working' = NoRequest
    /\ step' = 0
    /\ UNCHANGED <<actions, UnitUnchanged>>

(* Power loss, or an action that stops without a word. *)
UnitRestarts ==
    /\ working # NoRequest
    /\ working' = NoRequest
    /\ step' = 0
    /\ UNCHANGED <<actions, statuses, UnitUnchanged>>

(* An action somebody started at the unit itself. *)
UnitActsLocally ==
    /\ statuses = <<>>
    /\ statuses' = <<Status("started", NoRequest, 0)>>
    /\ UNCHANGED <<actions, working, step, UnitUnchanged>>

-----------------------------------------------------------------------------
Hub == HubAdopts \/ HubRejects \/ HubReads \/ HubNotices
Task == Deliver \/ SaysBye \/ StaysAway \/ Notices
Unit == UnitReceives \/ UnitProgresses \/ UnitCompletes

ShimNext ==
    \/ \E c \in Requests : Submit(c) \/ AckTimeout(c)
    \/ Hub \/ HubRestart \/ LinkDrops
    \/ Task \/ Connects \/ Heartbeat \/ FallsSilent
    \/ Handle \/ Continue
    \/ Unit \/ UnitRestarts \/ UnitActsLocally

ShimSpec == ShimInit /\ [][ShimNext]_shimVars

(* What is ready to run on the two event loops runs, timers fire, and the  *)
(* end of a link reaches both.  The unit and the broker owe nothing.       *)
FairShimSpec ==
    /\ ShimSpec
    /\ \A c \in Requests : WF_shimVars(AckTimeout(c))
    /\ WF_shimVars(Hub) /\ WF_shimVars(Task) /\ WF_shimVars(Handle) /\ WF_shimVars(Continue)

-----------------------------------------------------------------------------
ShimTypeOK ==
    /\ trail \in [Requests -> Seq({"command", "ack", "nack", "rejected", "answered",
                                   "lost"})]
    /\ shown \in [Requests -> Seq(1..Steps)]
    /\ hub \in {"closed", "adopting", "operational"}
    /\ inflight \subseteq Requests
    /\ {alive, hubWriter, silent} \subseteq BOOLEAN
    /\ up \in Seq(UpMessages)
    /\ down \in Seq(Requests)
    /\ runAt \in {"done", "dialling", "hello", "adopted"}
    /\ pending \subseteq Requests
    /\ acked \in [Requests -> BOOLEAN]
    /\ last \in [Requests -> 0..Steps]
    /\ suspended \in Seq(Statuses)
    /\ actions \in Seq(Requests)
    /\ statuses \in Seq(Statuses) /\ Len(statuses) <= Room
    /\ working \in Requests \union {NoRequest}
    /\ step \in 0..Steps
    /\ dials \in 0..MaxDials
    /\ hubRestarts \in 0..MaxHubRestarts

Kinds(c) == {trail[c][i] : i \in DOMAIN trail[c]}
Answers == {"rejected", "answered"}
Results == Answers \union {"lost"}
ResultsAt(c) == {i \in DOMAIN trail[c] : trail[c][i] \in Results}

(* The life of c as CommandPromise tells it. *)
Life(c) ==
    LET at == ResultsAt(c)
        kinds == {trail[c][i] : i \in at}
    IN  CASE at = {} -> IF trail[c] = <<>> THEN "new" ELSE "asked"
          [] Cardinality(at) = 1 /\ kinds = {"lost"} -> "lost"
          [] Cardinality(at) = 1 /\ kinds \subseteq Answers -> "answered"
          [] Cardinality(at) = 2 /\ (\E a \in Answers : kinds = {"lost", a}) -> "twice"
          [] OTHER -> "broken"

Promise == INSTANCE CommandPromise WITH Commands <- Requests,
                                        life <- [c \in Requests |-> Life(c)]

(* Behind the shim too a command is answered at most once by the module    *)
(* and given up at most once by the hub, whichever of the timer, a refused *)
(* publish, a late or repeated status and a reconnect come together        *)
(* ("the hub gets its one terminal result", mqtt_shim.py:31).              *)
KeepsThePromise == Promise!Spec

(* What the shim acknowledged it never refuses, and the other way round:   *)
(* the timer and the unit's first status race for every command, with the  *)
(* ACK's await between them (mqtt_shim.py:380-389, 439-442, 466-479).      *)
AcceptanceIsFinal == \A c \in Requests : ~ {"ack", "nack"} \subseteq Kinds(c)

(* Over one link the hub never records the same progress twice in a row,   *)
(* although the unit repeats it and a later step can overtake the first    *)
(* one, which waits in its ACK's drain() ("PROGRESS is forwarded only when *)
(* (pct, message) changes", mqtt_shim.py:28).  A redial may lose the step  *)
(* between two that are the same.                                          *)
ProgressIsNews ==
    dials <= 1 =>
        \A c \in Requests : \A i \in 1..(Len(shown[c]) - 1) : shown[c][i] # shown[c][i + 1]

Underway(c) == \E i \in DOMAIN down : down[i] = c
VerdictSent(c) == \E i \in DOMAIN up : up[i].command_id = c /\ up[i].t \in Verdicts

(* As long as the link is up the shim has not dropped a command the hub    *)
(* holds in flight: it is still to be read, pending, or its verdict is on  *)
(* the link.  The shim keeps no other record of it (mqtt_shim.py:364-395). *)
InFlightIsSomewhere ==
    (hub = "operational" /\ alive) =>
        \A c \in inflight : Underway(c) \/ c \in pending \/ VerdictSent(c)

(* No command is open that nobody waits for: unless the hub was restarted, *)
(* what was submitted and has no result is in flight on the session that   *)
(* is in service, through every reconnect ("commands still in flight when  *)
(* the module disappeared get their terminal result now",                  *)
(* southbound.py:164-166).                                                 *)
OpenIsInFlight ==
    hubRestarts = 0 =>
        \A c \in Requests :
            (trail[c] # <<>> /\ ResultsAt(c) = {}) => hub = "operational" /\ c \in inflight

(* Shim and hub agree about every command while the timer, the unit's      *)
(* statuses and suspended answers interleave.                              *)
ShimConsistent ==
    /\ ShimTypeOK
    /\ AcceptanceIsFinal /\ ProgressIsNews
    /\ InFlightIsSomewhere /\ OpenIsInFlight

(* A unit that never answers does not leave its command open: it has a     *)
(* result, or was acknowledged, or the hub was restarted ("a command the   *)
(* unit never answers is NACKed after ack_timeout_s", mqtt_shim.py:30).    *)
EndsUnlessAccepted ==
    \A c \in Requests :
        trail[c] # <<>> ~> (ResultsAt(c) # {} \/ acked[c] \/ hubRestarts > 0)

(* A unit that stays silent is not in service for ever, whichever link the *)
(* task was on or opening when it fell silent ("says BYE after             *)
(* offline_after_s of silence, so `uii modules` reflects what is actually  *)
(* alive", mqtt_shim.py:21-22).                                            *)
SilentUnitLeaves == <>[]silent => []<>(hub # "operational")

=============================================================================
