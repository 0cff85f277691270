-------------------------------- MODULE Adoption --------------------------------
(***************************************************************************)
(* How a unit joins the hub and leaves it: uii/hub/southbound.py with the  *)
(* trust list of config.py, the release call of api.py, the watchdog of    *)
(* extensions/detections/engine.py and the dialling half of uii/refmod.py. *)
(*                                                                         *)
(* Every connection is one ModuleSession task on the event loop; sessions  *)
(* are numbered in the order they were opened.  hub.sessions and           *)
(* hub.quarantined are maps by module id, so a unit that redials before    *)
(* the hub noticed the end of its old connection has two sessions and one  *)
(* entry.  The operator's release call holds a session it looked up in     *)
(* another thread, release() then trusts the serial in memory, saves the   *)
(* list and logs the release, each of which may fail and between which the *)
(* hub may die, and the watchdog thread judges, flags and logs a session   *)
(* in three steps the event loop runs between.                             *)
(*                                                                         *)
(* Abstractions: a unit stands for its module id, type and serial; each    *)
(* direction of a connection holds at most one unread message; "quiet for  *)
(* longer than the threshold" may hold of any session at any time; role    *)
(* and slot only travel along and are left out, and the role-vacant event  *)
(* goes with "removed"; what commands in flight get is in CommandLife.     *)
(***************************************************************************)
EXTENDS Naturals

CONSTANTS
    Units,         \* module ids, one physical unit each
    MaxSessions,   \* bound: connections opened
    MaxLosses,     \* bound: connections the network breaks
    MaxRestarts,   \* bound: restarts of the hub
    MaxCalls       \* bound: release calls

ASSUME AdoptionAssumption ==
    /\ 0 \notin Units
    /\ {MaxSessions, MaxLosses, MaxRestarts, MaxCalls} \subseteq Nat

VARIABLES
    profile,      \* what each unit is, the same in every HELLO
    state,        \* ModuleSession.state; "none" before the connection exists
    unitOf,       \* who opened the session, 0 before
    ended,        \* run() of the session has returned
    alive,        \* the connection still carries bytes
    said,         \* the unit's unread message
    reply,        \* the hub's unread message
    released,     \* ModuleSession._released
    call,         \* the release call that holds the session: how far it got
    sessions,     \* hub.sessions: module id -> session, 0 for none
    quarantined,  \* hub.quarantined
    registry,     \* hub.registry: the last identity event of each module id
    trusted,      \* config.trusted_serials
    trustFile,    \* data_dir/trust.json
    logged,       \* units a "released" identity envelope was stored for
    pardoned,     \* observes: units whose serial release() was ever to trust
    heard,        \* units whose telemetry was stored as evidence
    watch,        \* the watchdog: its step and the session it looks at
    link,         \* the session each unit believes it is on, 0 for none
    opened, losses, restarts, calls

peerVars == <<said, reply, alive, link>>
mapVars == <<sessions, quarantined, registry>>
trustVars == <<trusted, trustFile, logged, pardoned>>
counters == <<opened, losses, restarts, calls>>
vars == <<profile, state, unitOf, ended, released, call, heard, watch,
          peerVars, mapVars, trustVars, counters>>

Sessions == 1..MaxSessions
Idle == [step |-> "idle", s |-> 0]

(* A type in the hub's allowlist; a stranger with a serial, or without     *)
(* one; or a unit that speaks another protocol version.                    *)
Profiles == {"allowed", "stranger", "nameless", "foreign"}
Foreign == {u \in Units : profile[u] = "foreign"}
Nameless == {u \in Units : profile[u] = "nameless"}

Init ==
    /\ profile \in [Units -> Profiles]
    /\ state = [s \in Sessions |-> "none"]
    /\ unitOf = [s \in Sessions |-> 0]
    /\ ended = [s \in Sessions |-> FALSE]
    /\ alive = [s \in Sessions |-> FALSE]
    /\ said = [s \in Sessions |-> "nothing"]
    /\ reply = [s \in Sessions |-> "nothing"]
    /\ released = [s \in Sessions |-> FALSE]
    /\ call = [s \in Sessions |-> "none"]
    /\ sessions = [u \in Units |-> 0]
    /\ quarantined = [u \in Units |-> 0]
    /\ registry = [u \in Units |-> "unknown"]
    /\ trusted = {}
    /\ trustFile = {}
    /\ logged = {}
    /\ pardoned = {}
    /\ heard = {}
    /\ watch = Idle
    /\ link = [u \in Units |-> 0]
    /\ opened = 0
    /\ losses = 0
    /\ restarts = 0
    /\ calls = 0

-----------------------------------------------------------------------------
(* The unit (RefModule.run): dial, answer, wait for the end, dial again. *)

Dial(u) ==
    /\ link[u] = 0
    /\ opened < MaxSessions
    /\ opened' = opened + 1
    /\ link' = [link EXCEPT ![u] = opened + 1]
    /\ state' = [state EXCEPT ![opened + 1] = "CONNECTED"]
    /\ unitOf' = [unitOf EXCEPT ![opened + 1] = u]
    /\ alive' = [alive EXCEPT ![opened + 1] = TRUE]
    /\ said' = [said EXCEPT ![opened + 1] = "HELLO"]
    /\ UNCHANGED <<profile, ended, released, call, heard, watch, reply, mapVars,
                   trustVars, losses, restarts, calls>>

(* HELLO_OK is answered with ROLE_OK; QUARANTINE silences the unit until   *)
(* the release or the end of the connection, after which it dials again.   *)
UnitReads(u) ==
    /\ link[u] # 0
    /\ reply[link[u]] # "nothing"
    /\ reply' = [reply EXCEPT ![link[u]] = "nothing"]
    /\ CASE reply[link[u]] = "HELLO_OK" ->
                /\ said[link[u]] = "nothing"
                /\ said' = IF alive[link[u]] THEN [said EXCEPT ![link[u]] = "ROLE_OK"]
                                             ELSE said
                /\ UNCHANGED <<alive, link>>
         [] reply[link[u]] = "QUARANTINE" -> UNCHANGED <<said, alive, link>>
         [] reply[link[u]] = "QUARANTINE_RELEASED" ->
                /\ alive' = [alive EXCEPT ![link[u]] = FALSE]
                /\ link' = [link EXCEPT ![u] = 0]
                /\ UNCHANGED said
    /\ UNCHANGED <<profile, state, unitOf, ended, released, call, heard, watch,
                   mapVars, trustVars, counters>>

(* The health loop and running timelines send telemetry in every phase. *)
UnitSpeaks(u) ==
    /\ link[u] # 0
    /\ alive[link[u]]
    /\ said[link[u]] = "nothing"
    /\ said' = [said EXCEPT ![link[u]] = "TELEM"]
    /\ UNCHANGED <<profile, state, unitOf, ended, released, call, heard, watch,
                   reply, alive, link, mapVars, trustVars, counters>>

UnitNotices(u) ==
    /\ link[u] # 0
    /\ ~alive[link[u]]
    /\ reply[link[u]] = "nothing"
    /\ link' = [link EXCEPT ![u] = 0]
    /\ UNCHANGED <<profile, state, unitOf, ended, released, call, heard, watch,
                   said, reply, alive, mapVars, trustVars, counters>>

(* The connection breaks; unread bytes may be lost with it. *)
LinkDrops(s) ==
    /\ losses < MaxLosses
    /\ alive[s]
    /\ losses' = losses + 1
    /\ alive' = [alive EXCEPT ![s] = FALSE]
    /\ said' \in {said, [said EXCEPT ![s] = "nothing"]}
    /\ reply' \in {reply, [reply EXCEPT ![s] = "nothing"]}
    /\ UNCHANGED <<profile, state, unitOf, ended, released, call, heard, watch, link,
                   mapVars, trustVars, opened, restarts, calls>>

-----------------------------------------------------------------------------
(* ModuleSession.run, one action per message or end of file it waits for. *)

AnyTrusted(u) == TRUE                 \* mutant: VERIFYING without the trust check
ListedOnly(u) == profile[u] = "allowed"   \* mutant: trusted serials not consulted
IsTrusted(u) == profile[u] = "allowed" \/ u \in trusted

Accepted(u) == u \notin Foreign /\ IsTrusted(u)

Event(u, e) == registry' = [registry EXCEPT ![u] = e]

(* VERIFYING fails: into the quarantine map, then QUARANTINE is sent.  When *)
(* that send raises, the `finally` that leaves the map is never reached.    *)
Quarantine(s) ==
    /\ state[s] = "CONNECTED" /\ ~ended[s] /\ said[s] = "HELLO"
    /\ ~Accepted(unitOf[s])
    /\ said' = [said EXCEPT ![s] = "nothing"]
    /\ state' = [state EXCEPT ![s] = "QUARANTINED"]
    /\ quarantined' = [quarantined EXCEPT ![unitOf[s]] = s]
    /\ Event(unitOf[s], "quarantined")
    /\ \/ /\ alive[s]
          /\ reply' = [reply EXCEPT ![s] = "QUARANTINE"]
          /\ UNCHANGED ended
       \/ /\ ~alive[s]
          /\ ended' \in {ended, [ended EXCEPT ![s] = TRUE]}
          /\ UNCHANGED reply
    /\ UNCHANGED <<profile, unitOf, released, call, heard, watch, alive, link, sessions,
                   trustVars, counters>>

(* VERIFYING passes: HELLO_OK carries the role.  A send that raises ends   *)
(* the session as ADOPTING, without a word in the log.                     *)
Adopting(s) ==
    /\ state[s] = "CONNECTED" /\ ~ended[s] /\ said[s] = "HELLO"
    /\ Accepted(unitOf[s])
    /\ said' = [said EXCEPT ![s] = "nothing"]
    /\ state' = [state EXCEPT ![s] = "ADOPTING"]
    /\ Event(unitOf[s], "adopting")
    /\ \/ /\ alive[s]
          /\ reply' = [reply EXCEPT ![s] = "HELLO_OK"]
          /\ UNCHANGED ended
       \/ /\ ~alive[s]
          /\ ended' \in {ended, [ended EXCEPT ![s] = TRUE]}
          /\ UNCHANGED reply
    /\ UNCHANGED <<profile, unitOf, released, call, heard, watch, alive, link, sessions,
                   quarantined, trustVars, counters>>

Adopted(s) ==
    /\ state[s] = "ADOPTING" /\ ~ended[s] /\ said[s] = "ROLE_OK"
    /\ said' = [said EXCEPT ![s] = "nothing"]
    /\ state' = [state EXCEPT ![s] = "OPERATIONAL"]
    /\ sessions' = [sessions EXCEPT ![unitOf[s]] = s]
    /\ Event(unitOf[s], "adopted")
    /\ UNCHANGED <<profile, unitOf, ended, released, call, heard, watch, reply, alive,
                   link, quarantined, trustVars, counters>>

(* Another message, end of file or 10 s of silence instead of ROLE_OK. *)
AdoptionFails(s) ==
    /\ state[s] = "ADOPTING" /\ ~ended[s] /\ said[s] # "ROLE_OK"
    /\ state' = [state EXCEPT ![s] = "REMOVED"]
    /\ Event(unitOf[s], "adoption-failed")
    /\ ended' = [ended EXCEPT ![s] = TRUE]
    /\ alive' = [alive EXCEPT ![s] = FALSE]
    /\ said' = [said EXCEPT ![s] = "nothing"]
    /\ UNCHANGED <<profile, unitOf, released, call, heard, watch, reply, link, sessions,
                   quarantined, trustVars, counters>>

InService(s) == state[s] \in {"OPERATIONAL", "DEGRADED"} /\ ~ended[s]
Held(s) == state[s] \in {"QUARANTINED", "RELEASED"} /\ ~ended[s]

(* The operational loop: traffic ends a DEGRADED spell and is evidence. *)
Reads(s) ==
    /\ InService(s)
    /\ said[s] = "TELEM"
    /\ said' = [said EXCEPT ![s] = "nothing"]
    /\ heard' = heard \union {unitOf[s]}
    /\ IF state[s] = "DEGRADED"
       THEN /\ state' = [state EXCEPT ![s] = "OPERATIONAL"]
            /\ Event(unitOf[s], "recovered")
       ELSE UNCHANGED <<state, registry>>
    /\ UNCHANGED <<profile, unitOf, ended, released, call, watch, reply, alive, link,
                   sessions, quarantined, trustVars, counters>>

(* Powered but mute: what a held unit says is read and dropped. *)
Ignores(s) ==
    /\ Held(s) /\ ~released[s]
    /\ said[s] # "nothing"
    /\ said' = [said EXCEPT ![s] = "nothing"]
    /\ UNCHANGED <<profile, state, unitOf, ended, released, call, heard, watch, reply,
                   alive, link, mapVars, trustVars, counters>>

StaysMapped(map, u) == map            \* mutant: no pop in `finally`
Popped(map, u) == [map EXCEPT ![u] = 0]

(* End of file on an operational session: removed, and the map loses the   *)
(* module id, whichever session is under it by now.                        *)
Ends(s) ==
    /\ InService(s)
    /\ ~alive[s] /\ said[s] = "nothing"
    /\ state' = [state EXCEPT ![s] = "REMOVED"]
    /\ ended' = [ended EXCEPT ![s] = TRUE]
    /\ sessions' = Popped(sessions, unitOf[s])
    /\ Event(unitOf[s], "removed")
    /\ UNCHANGED <<profile, unitOf, released, call, heard, watch, peerVars,
                   quarantined, trustVars, counters>>

(* End of file, or whatever comes after a release: the quarantine lets go  *)
(* of the module id.                                                       *)
LetsGo(s) ==
    /\ Held(s)
    /\ IF released[s] THEN ~alive[s] \/ said[s] # "nothing"
                      ELSE ~alive[s] /\ said[s] = "nothing"
    /\ said' = [said EXCEPT ![s] = "nothing"]
    /\ ended' = [ended EXCEPT ![s] = TRUE]
    /\ alive' = [alive EXCEPT ![s] = FALSE]
    /\ quarantined' = Popped(quarantined, unitOf[s])
    /\ IF state[s] = "QUARANTINED"
       THEN /\ state' = [state EXCEPT ![s] = "REMOVED"]
            /\ Event(unitOf[s], "removed")
       ELSE UNCHANGED <<state, registry>>
    /\ UNCHANGED <<profile, unitOf, released, call, heard, watch, reply, link,
                   sessions, trustVars, counters>>

(* The connection broke before HELLO was read. *)
NeverSpoke(s) ==
    /\ state[s] = "CONNECTED" /\ ~ended[s] /\ said[s] = "nothing" /\ ~alive[s]
    /\ ended' = [ended EXCEPT ![s] = TRUE]
    /\ UNCHANGED <<profile, state, unitOf, released, call, heard, watch, peerVars,
                   mapVars, trustVars, counters>>

-----------------------------------------------------------------------------
(* The release call: POST /v1/modules/{id}/release. *)

(* The HTTP thread looks the session up ... *)
ReleaseCalled(u) ==
    /\ quarantined[u] # 0
    /\ call[quarantined[u]] = "none"
    /\ calls < MaxCalls
    /\ calls' = calls + 1
    /\ call' = [call EXCEPT ![quarantined[u]] = "asked"]
    /\ UNCHANGED <<profile, state, unitOf, ended, released, heard, watch, peerVars,
                   mapVars, trustVars, opened, losses, restarts>>

(* ... and the event loop runs release() on it, ended or not by then.  No  *)
(* other task runs before its first await, but the hub may die anywhere.   *)
LoopFree == \A s \in Sessions : call[s] \in {"none", "asked"}

(* trust_serial: the serial joins the list in memory ... *)
Trusts(s) ==
    /\ LoopFree
    /\ call[s] = "asked"
    /\ call' = [call EXCEPT ![s] = IF unitOf[s] \in Nameless THEN "saved" ELSE "trusted"]
    /\ trusted' = trusted \union ({unitOf[s]} \ Nameless)
    /\ pardoned' = pardoned \union ({unitOf[s]} \ Nameless)
    /\ UNCHANGED <<profile, state, unitOf, ended, released, heard, watch, peerVars,
                   mapVars, trustFile, logged, counters>>

(* ... and the whole list replaces the file.                               *)
Saves(s) ==
    /\ call[s] = "trusted"
    /\ call' = [call EXCEPT ![s] = "saved"]
    /\ trustFile' = trusted
    /\ UNCHANGED <<profile, state, unitOf, ended, released, heard, watch, peerVars,
                   mapVars, trusted, logged, pardoned, counters>>

(* The disk refuses: the call fails, and the list in memory stays longer.  *)
Ignored(s) == [call EXCEPT ![s] = "saved"]     \* mutant: `except OSError: pass`
Raised(s) == [call EXCEPT ![s] = "none"]
SaveFails(s) ==
    /\ call[s] = "trusted"
    /\ call' = Raised(s)
    /\ UNCHANGED <<profile, state, unitOf, ended, released, heard, watch, peerVars,
                   mapVars, trustVars, counters>>

(* The release is logged, the unit told and the connection closed; or the  *)
(* store refuses the envelope, and neither of it happens.                  *)
LogsRelease(s) ==
    /\ call[s] = "saved"
    /\ call' = [call EXCEPT ![s] = "none"]
    /\ released' = [released EXCEPT ![s] = TRUE]
    /\ state' = [state EXCEPT ![s] = "RELEASED"]
    /\ \/ /\ Event(unitOf[s], "released")
          /\ logged' = logged \union {unitOf[s]}
          /\ reply' = IF alive[s] THEN [reply EXCEPT ![s] = "QUARANTINE_RELEASED"]
                                  ELSE reply
          /\ alive' = [alive EXCEPT ![s] = FALSE]
       \/ UNCHANGED <<registry, logged, reply, alive>>
    /\ UNCHANGED <<profile, unitOf, ended, heard, watch, said, link, sessions,
                   quarantined, trusted, trustFile, pardoned, counters>>

Release(s) == Trusts(s) \/ Saves(s) \/ SaveFails(s) \/ LogsRelease(s)

-----------------------------------------------------------------------------
(* The watchdog thread of the detections engine: `if s.state ==            *)
(* "OPERATIONAL"`, `s.state = "DEGRADED"`, identity_event("degraded").     *)

WatchdogJudges(u) ==
    /\ watch = Idle
    /\ sessions[u] # 0
    /\ state[sessions[u]] = "OPERATIONAL"
    /\ watch' = [step |-> "judged", s |-> sessions[u]]
    /\ UNCHANGED <<profile, state, unitOf, ended, released, call, heard, peerVars,
                   mapVars, trustVars, counters>>

WatchdogFlags ==
    /\ watch.step = "judged"
    /\ state' = [state EXCEPT ![watch.s] = "DEGRADED"]
    /\ watch' = [watch EXCEPT !.step = "flagged"]
    /\ UNCHANGED <<profile, unitOf, ended, released, call, heard, peerVars, mapVars,
                   trustVars, counters>>

WatchdogLogs ==
    /\ watch.step = "flagged"
    /\ Event(unitOf[watch.s], "degraded")
    /\ watch' = Idle
    /\ UNCHANGED <<profile, state, unitOf, ended, released, call, heard, peerVars,
                   sessions, quarantined, trustVars, counters>>

(* The hub stops or dies and starts again: evidence and the trust file are *)
(* what is left, and every connection is gone.                             *)
HubRestart ==
    /\ restarts < MaxRestarts
    /\ restarts' = restarts + 1
    /\ state' = [s \in Sessions |-> IF state[s] = "none" THEN "none" ELSE "gone"]
    /\ ended' = [s \in Sessions |-> state[s] # "none"]
    /\ alive' = [s \in Sessions |-> FALSE]
    /\ said' = [s \in Sessions |-> "nothing"]
    /\ released' = [s \in Sessions |-> FALSE]
    /\ call' = [s \in Sessions |-> "none"]
    /\ sessions' = [u \in Units |-> 0]
    /\ quarantined' = [u \in Units |-> 0]
    /\ registry' = [u \in Units |-> "unknown"]
    /\ trusted' = trustFile
    /\ watch' = Idle
    /\ UNCHANGED <<profile, unitOf, heard, reply, link, trustFile, logged, pardoned,
                   opened, losses, calls>>

-----------------------------------------------------------------------------
Session(s) ==
    /\ LoopFree
    /\ \/ Quarantine(s) \/ Adopting(s) \/ Adopted(s) \/ Reads(s) \/ Ignores(s)
       \/ Ends(s) \/ LetsGo(s) \/ NeverSpoke(s)

GivesUp(s) == LoopFree /\ AdoptionFails(s)

Unit(u) == Dial(u) \/ UnitReads(u) \/ UnitNotices(u)

Watchdog == (\E u \in Units : WatchdogJudges(u)) \/ WatchdogFlags \/ WatchdogLogs

Next ==
    \/ \E u \in Units : Unit(u) \/ UnitSpeaks(u) \/ ReleaseCalled(u)
    \/ \E s \in Sessions :
            Session(s) \/ GivesUp(s) \/ Release(s) \/ LinkDrops(s)
    \/ Watchdog \/ HubRestart

Spec == Init /\ [][Next]_vars

(* Session tasks, release coroutines and the units' dial loops run on; the *)
(* end of a connection reaches both ends; nobody owes a release, a loss, a *)
(* judgement of the watchdog or a restart.                                 *)
FairSpec ==
    /\ Spec
    /\ \A u \in Units : WF_vars(Unit(u))
    /\ \A s \in Sessions : WF_vars(Session(s)) /\ WF_vars(Release(s))
    /\ \A s \in Sessions :
            WF_vars((~alive[s] \/ said[s] # "nothing") /\ GivesUp(s))

-----------------------------------------------------------------------------
TypeOK ==
    /\ profile \in [Units -> Profiles]
    /\ state \in [Sessions -> {"none", "CONNECTED", "QUARANTINED", "RELEASED",
                               "ADOPTING", "OPERATIONAL", "DEGRADED", "REMOVED", "gone"}]
    /\ unitOf \in [Sessions -> Units \union {0}]
    /\ ended \in [Sessions -> BOOLEAN]
    /\ alive \in [Sessions -> BOOLEAN]
    /\ released \in [Sessions -> BOOLEAN]
    /\ call \in [Sessions -> {"none", "asked", "trusted", "saved"}]
    /\ said \in [Sessions -> {"nothing", "HELLO", "ROLE_OK", "TELEM"}]
    /\ reply \in [Sessions -> {"nothing", "HELLO_OK", "QUARANTINE", "QUARANTINE_RELEASED"}]
    /\ sessions \in [Units -> {0} \union Sessions]
    /\ quarantined \in [Units -> {0} \union Sessions]
    /\ link \in [Units -> {0} \union Sessions]
    /\ registry \in [Units -> {"unknown", "quarantined", "adopting", "adopted",
                               "adoption-failed", "recovered", "removed", "released",
                               "degraded"}]
    /\ trustFile \subseteq trusted
    /\ trusted \subseteq pardoned
    /\ pardoned \subseteq Units \ Nameless
    /\ logged \union heard \subseteq Units
    /\ watch \in [step: {"idle", "judged", "flagged"}, s: {0} \union Sessions]
    /\ opened \in 0..MaxSessions /\ losses \in 0..MaxLosses /\ restarts \in 0..MaxRestarts
    /\ calls \in 0..MaxCalls

(* "QUARANTINED: powered, logged, mute" (southbound.py:17): no telemetry   *)
(* becomes evidence unless the unit speaks the protocol and its type is    *)
(* allowed or an operator released its serial, over any redials, releases  *)
(* that fail half-way and restarts.                                        *)
MuteUntilTrusted ==
    \A u \in heard : u \notin Foreign /\ (profile[u] = "allowed" \/ u \in pardoned)

(* "The serial is trusted persistently" (southbound.py:18): wherever a     *)
(* release fails or the hub dies in the middle of it, what the log calls   *)
(* released is in the file by then and is trusted after every restart.     *)
ReleaseIsDurable == logged \ Nameless \subseteq trustFile /\ logged \ Nameless \subseteq trusted

(* "Release is one logged call" (southbound.py:17): who is heard without   *)
(* being on the allowlist has a release in the log.  Not an invariant:     *)
(* AdoptionUnlogged.cfg shows a release that failed half-way.              *)
AdmittedIsLogged == \A u \in heard : profile[u] = "allowed" \/ u \in logged

(* The map hands commands only to a session of that module whose task is   *)
(* still reading, although sessions of one module overlap and each takes   *)
(* the module's entry away when it ends (southbound.py:137-159).           *)
SessionsAreServed ==
    \A u \in Units : sessions[u] # 0 =>
        /\ unitOf[sessions[u]] = u
        /\ InService(sessions[u])

(* The parts of Custody: one per session, per unit and for the watchdog. *)
Releasable(s) ==
    state[s] # "none" /\ (state[s] \in {"QUARANTINED", "RELEASED"} \/ ended[s])

SessionCustody(s) ==
    /\ state[s] # "none" <=> s <= opened
    /\ state[s] # "none" => unitOf[s] \in Units
    /\ state[s] \in {"ADOPTING", "OPERATIONAL", "DEGRADED"} => Accepted(unitOf[s])
    /\ call[s] # "none" => Releasable(s)
    /\ call[s] = "saved" => unitOf[s] \in trustFile \union Nameless
    /\ call[s] = "trusted" => unitOf[s] \in trusted

UnitCustody(u) ==
    /\ quarantined[u] # 0 => unitOf[quarantined[u]] = u /\ Releasable(quarantined[u])
    /\ u \in heard => u \notin Foreign /\ (profile[u] = "allowed" \/ u \in pardoned)

WatchCustody ==
    watch.step # "idle" =>
        /\ watch.s \in Sessions
        /\ Accepted(unitOf[watch.s])
        /\ state[watch.s] # "none"
        /\ watch.step = "judged" =>
                state[watch.s] \in {"OPERATIONAL", "DEGRADED"} \/ ended[watch.s]

(* The inductive strengthening of the invariants above: which              *)
(* sessions exist and whose they are, that only accepted units get past    *)
(* VERIFYING and stay accepted, and what a reference a release call, the   *)
(* quarantine map or the watchdog thread holds may point at, although the  *)
(* session moved on since (southbound.py:182-213, engine.py:168-180).      *)
Custody ==
    /\ \A s \in Sessions : SessionCustody(s)
    /\ \A u \in Units : UnitCustody(u)
    /\ WatchCustody
    /\ SessionsAreServed

(* Sessions, maps, trust and the references other threads hold agree.      *)
Sound == TypeOK /\ Custody

Served(u) == \E s \in Sessions : unitOf[s] = u /\ InService(s)

(* "Trust persists; recognized on sight" (docs/architecture.md:175): a     *)
(* unit in the trust file that speaks the right protocol and dials gets in, whatever *)
(* is lost or restarted on the way.  The last dial the bound allows is     *)
(* excused.                                                                *)
RecognizedOnSight ==
    \A u \in Units :
        (u \in trustFile \ Foreign /\ link[u] = 0) ~> (Served(u) \/ opened = MaxSessions)

(* Release: "the serial is trusted persistently, the module is told,       *)
(* reconnects, and is adopted" (southbound.py:17-19).                      *)
ReleasedGetsIn ==
    \A u \in Units :
        u \in logged \ (Foreign \union Nameless) ~> (Served(u) \/ opened = MaxSessions)

=============================================================================
