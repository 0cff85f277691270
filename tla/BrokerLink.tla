------------------------------- MODULE BrokerLink -------------------------------
(***************************************************************************)
(* The MQTT client that carries the shim's commands and a legacy unit's    *)
(* telemetry: MQTTClient of uii_analyzer/mqtt_min.py, QoS 0 over one TCP   *)
(* connection that run() makes again for ever.  subscribe() and publish()  *)
(* are called by other tasks of the same loop: up to their drain() they    *)
(* are one step.                                                           *)
(*                                                                         *)
(* A connection is up, reset (the next read or write of the client fails)  *)
(* or half-open: the peer is gone and nothing says so but silence.         *)
(*                                                                         *)
(* Time: one tick is 0.3 keepalive, in which a broker that is there        *)
(* answers a ping.  Abstractions: packets are written and read whole;      *)
(* drain() never waits; the log and the two hooks, which the shim does not *)
(* set, are left out.                                                      *)
(***************************************************************************)
EXTENDS Naturals

CONSTANTS
    Filters,     \* topic filters the shim subscribes to
    MaxFaults    \* bound: connections that break, dials and greetings that fail

ASSUME BrokerLinkAssumption == MaxFaults \in Nat

VARIABLES
    run,         \* where run() is; "stopped" once an exception has left it
    conn,        \* the TCP connection
    connected,   \* self.connected
    subs,        \* self._subs
    owed,        \* what is left of list(self._subs) after a CONNACK
    heard,       \* the broker's subscriptions of this connection
    quiet,       \* ticks since the last packet was read
    idle,        \* ticks since the ping task slept
    pinging,     \* the ping task of this connection is there
    asked,       \* a PINGREQ the broker has not answered
    faults

wireVars == <<conn, heard, asked, faults>>
timeVars == <<quiet, idle>>
clientVars == <<run, connected, subs, owed, timeVars, pinging, wireVars>>

PingNever == 6                       \* mutant: the pings are too far apart
PingAfter == 2                       \* keepalive * 0.6
ReadTimeout == 5                     \* keepalive * 1.5

ClientInit ==
    /\ run = "dialing"
    /\ conn = "none"
    /\ connected = FALSE
    /\ subs = {}
    /\ owed = {}
    /\ heard = {}
    /\ quiet = 0
    /\ idle = 0
    /\ pinging = FALSE
    /\ asked = FALSE
    /\ faults = 0

-----------------------------------------------------------------------------
(* The network and the broker. *)

Breaks(how) ==
    /\ conn \in {"up", "half-open"} \ {how}
    /\ faults < MaxFaults
    /\ faults' = faults + 1
    /\ conn' = how
    /\ asked' = FALSE
    /\ UNCHANGED <<run, connected, subs, owed, heard, timeVars, pinging>>

(* What the client writes reaches a broker that is there. *)
Reaches(f) == heard' = IF conn = "up" THEN heard \union {f} ELSE heard

-----------------------------------------------------------------------------
(* run(): the connection is closed, and dialled again after a pause. *)

Lost ==
    /\ run' = "waiting"
    /\ connected' = FALSE
    /\ conn' = "none"
    /\ heard' = {}
    /\ owed' = {}
    /\ pinging' = FALSE
    /\ asked' = FALSE
    /\ quiet' = 0
    /\ idle' = 0

Redial ==
    /\ run = "waiting"
    /\ run' = "dialing"
    /\ UNCHANGED <<connected, subs, owed, timeVars, pinging, wireVars>>

(* Refused, unreachable or silent for ten seconds. *)
DialFails ==
    /\ run = "dialing"
    /\ faults < MaxFaults
    /\ faults' = faults + 1
    /\ Lost
    /\ UNCHANGED subs

Opens ==
    /\ run = "dialing"
    /\ run' = "greeting"
    /\ conn' = "up"
    /\ UNCHANGED <<connected, subs, owed, heard, timeVars, pinging, asked, faults>>

(* The broker refuses; or the connection is gone, at once or after ten seconds. *)
NoConnack ==
    /\ run = "greeting"
    /\ IF conn = "up" THEN faults < MaxFaults /\ faults' = faults + 1 ELSE UNCHANGED faults
    /\ Lost
    /\ UNCHANGED subs

(* Mutant: the broker is thought to remember the subscriptions. *)
ConnackForgets == connected' = TRUE /\ owed' = {}

(* connected is set before the subscriptions are looked at, in one step. *)
Connack == connected' = TRUE /\ owed' = subs

Accepted ==
    /\ run = "greeting"
    /\ conn = "up"
    /\ run' = "subscribing"
    /\ Connack
    /\ UNCHANGED <<subs, timeVars, pinging, wireVars>>

Resubscribe(f) ==
    /\ run = "subscribing"
    /\ f \in owed
    /\ conn # "reset"
    /\ owed' = owed \ {f}
    /\ Reaches(f)
    /\ UNCHANGED <<run, connected, subs, timeVars, pinging, conn, asked, faults>>

Subscribed ==
    /\ run = "subscribing"
    /\ owed = {}
    /\ run' = "reading"
    /\ pinging' = TRUE
    /\ UNCHANGED <<connected, subs, owed, timeVars, wireVars>>

-----------------------------------------------------------------------------
(* The reader and the ping task, by the clock. *)

(* A message or an answer is read; the callback of a message may raise,    *)
(* and nothing between it and the service catches that.                    *)
Reads ==
    /\ run = "reading"
    /\ conn = "up"
    /\ quiet' = 0
    /\ \/ asked /\ asked' = FALSE /\ UNCHANGED run
       \/ heard # {} /\ run' \in {"reading", "stopped"} /\ UNCHANGED asked
    /\ UNCHANGED <<connected, subs, owed, idle, pinging, conn, heard, faults>>

PingDue == pinging /\ idle = PingAfter

(* A write that raises ends the ping task, not the connection. *)
Ping ==
    /\ run = "reading"
    /\ PingDue
    /\ idle' = 0
    /\ pinging' = (conn # "reset")
    /\ asked' = (conn = "up")
    /\ UNCHANGED <<run, connected, subs, owed, quiet, conn, heard, faults>>

(* A tick: what is due is done before, and a broker that is there answered. *)
Tick ==
    /\ run = "reading"
    /\ ~PingDue
    /\ ~asked
    /\ quiet < ReadTimeout
    /\ quiet' = quiet + 1
    /\ idle' = IF pinging THEN idle + 1 ELSE idle
    /\ UNCHANGED <<run, connected, subs, owed, pinging, wireVars>>

(* Mutant: read() waits for ever. *)
OnlyReset == conn = "reset"

GivesUp == conn = "reset" \/ quiet = ReadTimeout

(* The read fails, or nothing was read for too long. *)
ReadFails ==
    /\ run = "reading"
    /\ GivesUp
    /\ Lost
    /\ UNCHANGED <<subs, faults>>

(* A subscription that cannot be written ends the connection too. *)
SubscribeFails ==
    /\ run = "subscribing"
    /\ conn = "reset"
    /\ owed # {}
    /\ Lost
    /\ UNCHANGED <<subs, faults>>

-----------------------------------------------------------------------------
(* The callers. *)

Subscribe(f) ==
    /\ f \notin subs
    /\ subs' = subs \union {f}
    /\ IF connected THEN Reaches(f) ELSE UNCHANGED heard
    /\ UNCHANGED <<run, connected, owed, timeVars, pinging, conn, asked, faults>>

(* publish() finds the connection broken; otherwise it changes nothing. *)
PublishFails ==
    /\ connected
    /\ conn = "reset"
    /\ connected' = FALSE
    /\ UNCHANGED <<run, subs, owed, timeVars, pinging, wireVars>>

-----------------------------------------------------------------------------

Run ==
    \/ Redial \/ NoConnack \/ Accepted \/ Subscribed
    \/ Ping \/ Tick \/ ReadFails \/ SubscribeFails
    \/ \E f \in Filters : Resubscribe(f)

ClientNext ==
    \/ Run \/ Opens \/ DialFails \/ Reads
    \/ Breaks("reset") \/ Breaks("half-open")
    \/ \E f \in Filters : Subscribe(f)
    \/ PublishFails

ClientSpec == ClientInit /\ [][ClientNext]_clientVars

(* The loop runs on, a dial in the end succeeds, a broker that is there    *)
(* answers.                                                                *)
ClientFairSpec ==
    /\ ClientSpec
    /\ WF_clientVars(Redial \/ NoConnack \/ Accepted \/ Subscribed \/ SubscribeFails)
    /\ \A f \in Filters : WF_clientVars(Resubscribe(f))
    /\ WF_clientVars(Ping) /\ WF_clientVars(Tick) /\ WF_clientVars(ReadFails)
    /\ WF_clientVars(Opens) /\ WF_clientVars(Reads)

-----------------------------------------------------------------------------

Flags == connected \in BOOLEAN /\ pinging \in BOOLEAN /\ asked \in BOOLEAN

ClientTypeOK ==
    /\ run \in {"waiting", "dialing", "greeting", "subscribing", "reading", "stopped"}
    /\ conn \in {"none", "up", "half-open", "reset"}
    /\ Flags
    /\ heard \subseteq subs /\ owed \subseteq subs
    /\ subs \subseteq Filters
    /\ quiet \in 0..ReadTimeout
    /\ idle \in 0..ReadTimeout + 1
    /\ faults \in 0..MaxFaults

(* While run() reads from a broker that is there, the broker knows every   *)
(* filter, whether it was asked for before, during or after the greeting,  *)
(* and publish() refuses nothing (run 160-164, subscribe 122-126).         *)
HearsAll ==
    /\ ClientTypeOK
    /\ (run = "reading" /\ conn = "up") => heard = subs /\ connected /\ pinging

(* The client never leaves a connection whose broker is there: its pings   *)
(* are answered before the read times out (lines 83, 187-192, 226-232).    *)
HealthyIsKept == [][(run = "reading" /\ run' = "waiting") => conn # "up"]_clientVars

(* A broken connection is noticed, half-open ones included, and replaced   *)
(* by one that hears every filter, unless a callback raised.               *)
ComesBack ==
    []<>(run = "stopped" \/ (run = "reading" /\ conn = "up" /\ heard = subs))

=============================================================================
