----------------------------- MODULE AdoptionProofs -----------------------------
(***************************************************************************)
(* Proofs about Adoption, for any units, any number of connections, losses *)
(* and restarts.                                                           *)
(***************************************************************************)
EXTENDS Adoption, TLAPS

(* Every variable keeps its type whatever sessions, units, releases, the   *)
(* watchdog and restarts do (southbound.py, config.py, engine.py:168-180). *)
LEMMA TypeInit == Init => TypeOK
    BY AdoptionAssumption DEF Init, TypeOK, Idle, Sessions

States == {"none", "CONNECTED", "QUARANTINED", "RELEASED", "ADOPTING", "OPERATIONAL",
           "DEGRADED", "REMOVED", "gone"}
Events == {"unknown", "quarantined", "adopting", "adopted", "adoption-failed", "recovered",
           "removed", "released", "degraded"}

LEMMA EventType ==
    ASSUME TypeOK, NEW u, NEW e \in Events, Event(u, e) PROVE registry' \in [Units -> Events]
<1>1. registry \in [Units -> Events]
  BY DEF TypeOK, Events
<1>. HIDE DEF Events
<1>. QED BY <1>1 DEF Event

LEMMA StateType ==
    ASSUME TypeOK, NEW s, NEW x \in States, state' = [state EXCEPT ![s] = x]
    PROVE  state' \in [Sessions -> States]
<1>1. state \in [Sessions -> States]
  BY DEF TypeOK, States
<1>. HIDE DEF States
<1>. QED BY <1>1

LEMMA TypeStep ==
    ASSUME TypeOK, Custody, [Next]_vars
    PROVE  TypeOK'
<1>. USE AdoptionAssumption DEF Sessions
<1>1. ASSUME NEW u \in Units, Dial(u) PROVE TypeOK'
  <2>1. opened + 1 \in Sessions /\ opened + 1 \in 0..MaxSessions
    BY <1>1 DEF Dial, TypeOK
  <2>2. /\ state' \in [Sessions -> {"none", "CONNECTED", "QUARANTINED", "RELEASED",
                          "ADOPTING", "OPERATIONAL", "DEGRADED", "REMOVED", "gone"}]
        /\ unitOf' \in [Sessions -> Units \union {0}]
        /\ alive' \in [Sessions -> BOOLEAN]
        /\ said' \in [Sessions -> {"nothing", "HELLO", "ROLE_OK", "TELEM"}]
        /\ link' \in [Units -> {0} \union Sessions]
    BY <1>1, <2>1 DEF Dial, TypeOK
  <2>. QED
    BY <1>1, <2>1, <2>2 DEF Dial, TypeOK, mapVars, trustVars, Nameless
<1>2. ASSUME NEW u \in Units, UnitReads(u) PROVE TypeOK'
  <2>1. /\ reply[link[u]] \in {"HELLO_OK", "QUARANTINE", "QUARANTINE_RELEASED"}
        /\ link[u] \in Sessions
    BY <1>2 DEF UnitReads, TypeOK
  <2>2. reply' \in [Sessions -> {"nothing", "HELLO_OK", "QUARANTINE",
                                  "QUARANTINE_RELEASED"}]
    BY <1>2 DEF UnitReads, TypeOK
  <2>3. /\ said' \in [Sessions -> {"nothing", "HELLO", "ROLE_OK", "TELEM"}]
        /\ alive' \in [Sessions -> BOOLEAN]
        /\ link' \in [Units -> {0} \union Sessions]
    <3>1. CASE reply[link[u]] = "HELLO_OK"
      <4>1. /\ UNCHANGED <<alive, link>>
            /\ said' = said \/ said' = [said EXCEPT ![link[u]] = "ROLE_OK"]
        <5>1. said' = IF alive[link[u]] THEN [said EXCEPT ![link[u]] = "ROLE_OK"] ELSE said
          BY <1>2, <3>1 DEF UnitReads
        <5>2. UNCHANGED <<alive, link>>
          BY <1>2, <3>1 DEF UnitReads
        <5>. QED
          BY <5>1, <5>2
      <4>. QED
        BY <4>1 DEF TypeOK
    <3>2. CASE reply[link[u]] = "QUARANTINE"
      BY <1>2, <2>1, <3>2 DEF UnitReads, TypeOK
    <3>3. CASE reply[link[u]] = "QUARANTINE_RELEASED"
      <4>1. /\ alive' = [alive EXCEPT ![link[u]] = FALSE]
            /\ link' = [link EXCEPT ![u] = 0]
            /\ said' = said
        BY <1>2, <3>3 DEF UnitReads
      <4>. QED
        BY <2>1, <4>1 DEF TypeOK
    <3>. QED
      BY <2>1, <3>1, <3>2, <3>3
  <2>. QED
    BY <1>2, <2>2, <2>3 DEF UnitReads, TypeOK, mapVars, trustVars, counters, Nameless
<1>3. ASSUME NEW u \in Units, UnitNotices(u) PROVE TypeOK'
  BY <1>3 DEF UnitNotices, TypeOK, mapVars, trustVars, counters, Nameless
<1>4. ASSUME NEW u \in Units, UnitSpeaks(u) PROVE TypeOK'
  BY <1>4 DEF UnitSpeaks, TypeOK, mapVars, trustVars, counters, Nameless
<1>5. ASSUME NEW u \in Units, ReleaseCalled(u) PROVE TypeOK'
  BY <1>5, SMTT(30) DEF ReleaseCalled, TypeOK, peerVars, mapVars, trustVars, counters, Nameless
<1>6. ASSUME NEW s \in Sessions, Quarantine(s) PROVE TypeOK'
  BY <1>6 DEF Quarantine, Event, TypeOK, trustVars, counters, Nameless
<1>7. ASSUME NEW s \in Sessions, Adopting(s) PROVE TypeOK'
  BY <1>7 DEF Adopting, Event, TypeOK, trustVars, counters, Nameless
<1>8. ASSUME NEW s \in Sessions, Adopted(s) PROVE TypeOK'
  BY <1>8 DEF Adopted, Event, TypeOK, trustVars, counters, Nameless
<1>9. ASSUME NEW s \in Sessions, Reads(s) PROVE TypeOK'
  <2>1. unitOf[s] \in Units
    BY <1>9 DEF Reads, InService, Custody, SessionCustody
  <2>2. state' \in [Sessions -> States] /\ registry' \in [Units -> Events]
    <3>1. state \in [Sessions -> States] /\ registry \in [Units -> Events]
      BY DEF TypeOK, States, Events
    <3>2. "OPERATIONAL" \in States /\ "recovered" \in Events
      BY DEF States, Events
    <3>. QED
      BY <1>9, <3>1, <3>2, EventType, StateType DEF Reads
  <2>3. said' \in [Sessions -> {"nothing", "HELLO", "ROLE_OK", "TELEM"}]
        /\ heard' \subseteq Units
    BY <1>9, <2>1 DEF Reads, TypeOK
  <2>. QED
    BY <1>9, <2>2, <2>3 DEF Reads, TypeOK, States, Events, trustVars, counters, Nameless
<1>10. ASSUME NEW s \in Sessions, Ignores(s) PROVE TypeOK'
  BY <1>10 DEF Ignores, TypeOK, mapVars, trustVars, counters, Nameless
<1>11. ASSUME NEW s \in Sessions, Ends(s) PROVE TypeOK'
  BY <1>11 DEF Ends, Popped, Event, TypeOK, peerVars, trustVars, counters, Nameless
<1>12. ASSUME NEW s \in Sessions, LetsGo(s) PROVE TypeOK'
  <2>1. state' \in [Sessions -> States] /\ registry' \in [Units -> Events]
    <3>1. state \in [Sessions -> States] /\ registry \in [Units -> Events]
      BY DEF TypeOK, States, Events
    <3>2. "REMOVED" \in States /\ "removed" \in Events
      BY DEF States, Events
    <3>. QED
      BY <1>12, <3>1, <3>2, EventType, StateType DEF LetsGo
  <2>2. /\ said' \in [Sessions -> {"nothing", "HELLO", "ROLE_OK", "TELEM"}]
        /\ ended' \in [Sessions -> BOOLEAN] /\ alive' \in [Sessions -> BOOLEAN]
        /\ quarantined' \in [Units -> {0} \union Sessions]
    BY <1>12 DEF LetsGo, Popped, TypeOK
  <2>. QED
    BY <1>12, <2>1, <2>2 DEF LetsGo, TypeOK, States, Events, trustVars, counters, Nameless
<1>13. ASSUME NEW s \in Sessions, NeverSpoke(s) PROVE TypeOK'
  BY <1>13 DEF NeverSpoke, TypeOK, peerVars, mapVars, trustVars, counters, Nameless
<1>14. ASSUME NEW s \in Sessions, AdoptionFails(s) PROVE TypeOK'
  BY <1>14 DEF AdoptionFails, Event, TypeOK, trustVars, counters, Nameless
<1>15. ASSUME NEW s \in Sessions, Release(s) PROVE TypeOK'
  <2>1. unitOf[s] \in Units
    BY <1>15 DEF Release, Trusts, Saves, SaveFails, LogsRelease, Custody, SessionCustody,
                 Releasable
  <2>2. CASE Trusts(s)
    BY <2>1, <2>2 DEF Trusts, TypeOK, peerVars, mapVars, counters, Nameless
  <2>3. CASE Saves(s)
    BY <2>3 DEF Saves, TypeOK, peerVars, mapVars, counters, Nameless
  <2>4. CASE SaveFails(s)
    BY <2>4 DEF SaveFails, Raised, TypeOK, peerVars, mapVars, trustVars, counters, Nameless
  <2>5. CASE LogsRelease(s)
    <3>1. state' \in [Sessions -> States] /\ registry' \in [Units -> Events]
      <4>1. state \in [Sessions -> States] /\ registry \in [Units -> Events]
        BY DEF TypeOK, States, Events
      <4>2. "RELEASED" \in States /\ "released" \in Events
        BY DEF States, Events
      <4>. QED
        BY <2>5, <4>1, <4>2, EventType, StateType DEF LogsRelease
    <3>1a. logged' \subseteq Units
      BY <2>1, <2>5 DEF LogsRelease, TypeOK
    <3>2. /\ call' = [call EXCEPT ![s] = "none"] /\ released' = [released EXCEPT ![s] = TRUE]
          /\ alive' = alive \/ alive' = [alive EXCEPT ![s] = FALSE]
          /\ reply' = reply \/ reply' = [reply EXCEPT ![s] = "QUARANTINE_RELEASED"]
      BY <2>5 DEF LogsRelease
    <3>2a. /\ call' \in [Sessions -> {"none", "asked", "trusted", "saved"}]
           /\ released' \in [Sessions -> BOOLEAN] /\ alive' \in [Sessions -> BOOLEAN]
      BY <3>2 DEF TypeOK
    <3>2b. reply' \in [Sessions -> {"nothing", "HELLO_OK", "QUARANTINE",
                                    "QUARANTINE_RELEASED"}]
      BY <3>2 DEF TypeOK
    <3>. QED
      BY <2>5, <3>1, <3>1a, <3>2a, <3>2b DEF LogsRelease, TypeOK, States, Events, counters, Nameless
  <2>. QED
    BY <1>15, <2>2, <2>3, <2>4, <2>5 DEF Release
<1>16. ASSUME NEW s \in Sessions, LinkDrops(s) PROVE TypeOK'
  <2>1. said' \in [Sessions -> {"nothing", "HELLO", "ROLE_OK", "TELEM"}]
    BY <1>16 DEF LinkDrops, TypeOK
  <2>2. reply' \in [Sessions -> {"nothing", "HELLO_OK", "QUARANTINE",
                                  "QUARANTINE_RELEASED"}]
    BY <1>16 DEF LinkDrops, TypeOK
  <2>3. alive' \in [Sessions -> BOOLEAN] /\ losses' \in 0..MaxLosses
    BY <1>16 DEF LinkDrops, TypeOK
  <2>. QED
    BY <1>16, <2>1, <2>2, <2>3 DEF LinkDrops, TypeOK, mapVars, trustVars, Nameless
<1>17. ASSUME NEW u \in Units, WatchdogJudges(u) PROVE TypeOK'
  BY <1>17 DEF WatchdogJudges, TypeOK, peerVars, mapVars, trustVars, counters, Nameless
<1>18. CASE WatchdogFlags
  BY <1>18 DEF WatchdogFlags, TypeOK, peerVars, mapVars, trustVars, counters, Nameless
<1>19. CASE WatchdogLogs
  BY <1>19 DEF WatchdogLogs, Idle, Event, TypeOK, peerVars, trustVars, counters, Nameless
<1>20. CASE HubRestart
  BY <1>20 DEF HubRestart, Idle, TypeOK, Nameless
<1>21. CASE UNCHANGED vars
  BY <1>21 DEF vars, peerVars, mapVars, trustVars, counters, TypeOK, Nameless
<1>. QED
  BY <1>1, <1>2, <1>3, <1>4, <1>5, <1>6, <1>7, <1>8, <1>9, <1>10, <1>11, <1>12,
     <1>13, <1>14, <1>15, <1>16, <1>17, <1>18, <1>19, <1>20, <1>21
  DEF Next, Unit, Session, GivesUp, Watchdog

-----------------------------------------------------------------------------
LEMMA CustodyInit == Init => Custody
    BY AdoptionAssumption
    DEF Init, Idle, Custody, SessionCustody, UnitCustody, WatchCustody, Releasable,
        SessionsAreServed, Sessions

(* A unit once accepted stays accepted until the hub restarts: its profile *)
(* never changes and no other step forgets a serial (config.py:99-105).    *)
LEMMA AcceptedStays ==
    ASSUME TypeOK, Custody, [Next]_vars, ~HubRestart, NEW u \in Units, Accepted(u)
    PROVE  Accepted(u)'
<1>1. profile' = profile
  BY DEF Next, Unit, Session, GivesUp, Watchdog, vars, Dial, UnitReads, UnitNotices,
         UnitSpeaks, ReleaseCalled, Quarantine, Adopting, Adopted, Reads, Ignores, Ends,
         LetsGo, NeverSpoke, AdoptionFails, Release, Trusts, Saves, SaveFails, LogsRelease,
         LinkDrops, WatchdogJudges, WatchdogFlags, WatchdogLogs
<1>2. trusted \subseteq trusted'
  <2>1. CASE UNCHANGED trustVars
    BY <2>1 DEF trustVars
  <2>2. ASSUME NEW s \in Sessions, Release(s) PROVE trusted \subseteq trusted'
    BY <2>2 DEF Release, Trusts, Saves, SaveFails, LogsRelease, trustVars
  <2>3. ASSUME NEW s \in Sessions, Session(s) \/ GivesUp(s) \/ LinkDrops(s)
        PROVE  UNCHANGED trustVars
    BY <2>3 DEF Session, GivesUp, Quarantine, Adopting, Adopted, Reads, Ignores, Ends,
                LetsGo, NeverSpoke, AdoptionFails, LinkDrops
  <2>4. ASSUME NEW v \in Units, Unit(v) \/ UnitSpeaks(v) \/ ReleaseCalled(v)
        PROVE  UNCHANGED trustVars
    BY <2>4 DEF Unit, Dial, UnitReads, UnitNotices, UnitSpeaks, ReleaseCalled
  <2>5. Watchdog \/ UNCHANGED vars => UNCHANGED trustVars
    BY DEF Watchdog, WatchdogJudges, WatchdogFlags, WatchdogLogs, vars
  <2>. QED
    BY <2>1, <2>2, <2>3, <2>4, <2>5 DEF Next
<1>. QED
  BY <1>1, <1>2 DEF Accepted, IsTrusted, Foreign

(* What Custody says of the hub does not depend on what is on the wire. *)
LEMMA CustodyOffTheWire ==
    ASSUME TypeOK, Custody,
           UNCHANGED <<profile, state, unitOf, ended, call, sessions, quarantined,
                       trusted, trustFile, pardoned, heard, watch, opened>>
    PROVE  Custody'
    BY DEF Custody, SessionCustody, UnitCustody, WatchCustody, Releasable, Accepted,
           IsTrusted, Foreign, Nameless, SessionsAreServed, InService

(* The hub's part of a step, one action at a time.  Accepted(u) is known   *)
(* to be kept, so each action answers only for the sessions and map        *)
(* entries it touches.                                                     *)
LEMMA CustodyStep ==
    ASSUME TypeOK, Custody, [Next]_vars
    PROVE  Custody'
<1>. USE AdoptionAssumption DEF Sessions
<1>r. CASE HubRestart
  <2>1. ASSUME NEW r \in Sessions PROVE SessionCustody(r)'
    BY <1>r DEF HubRestart, TypeOK, Custody, SessionCustody, Releasable, Nameless
  <2>2. ASSUME NEW v \in Units PROVE UnitCustody(v)'
    BY <1>r DEF HubRestart, TypeOK, Custody, UnitCustody, SessionCustody, Releasable, Foreign
  <2>3. WatchCustody'
    BY <1>r DEF HubRestart, TypeOK, Custody, WatchCustody, SessionCustody, Releasable, Idle
  <2>4. SessionsAreServed'
    BY <1>r DEF HubRestart, TypeOK, Custody, SessionsAreServed, InService
  <2>. QED
    BY <2>1, <2>2, <2>3, <2>4 DEF Custody
<1>n. SUFFICES ASSUME ~HubRestart PROVE Custody'
  BY <1>r
<1>k. \A u \in Units : Accepted(u) => Accepted(u)'
  BY <1>n, AcceptedStays
<1>1. ASSUME NEW u \in Units, Dial(u) PROVE Custody'
  <2>1. opened + 1 \in Sessions /\ state[opened + 1] = "none" /\ opened \in Nat
    <3>1. opened \in Nat /\ opened + 1 \in Sessions /\ ~(opened + 1 <= opened)
      BY <1>1 DEF Dial, TypeOK
    <3>2. state[opened + 1] # "none" <=> opened + 1 <= opened
      BY <3>1 DEF Custody, SessionCustody
    <3>. QED
      BY <3>1, <3>2
  <2>2. ASSUME NEW s \in Sessions PROVE SessionCustody(s)'
    BY <1>1, <1>k, <2>1 DEF Dial, trustVars, Nameless, TypeOK, Custody, SessionCustody, Releasable
  <2>3. ASSUME NEW v \in Units PROVE UnitCustody(v)'
    BY <1>1, <1>k, <2>1 DEF Dial, trustVars, TypeOK, Custody, UnitCustody, Releasable, mapVars, Foreign
  <2>4. WatchCustody'
    <3>1. CASE watch.step = "idle"
      BY <1>1, <3>1 DEF Dial, WatchCustody
    <3>2. CASE watch.step # "idle"
      <4>1. watch.s # opened + 1 /\ unitOf[watch.s] \in Units
        BY <2>1, <3>2 DEF Custody, WatchCustody, SessionCustody
      <4>. QED
        BY <1>1, <1>k, <3>2, <4>1 DEF Dial, TypeOK, Custody, WatchCustody
    <3>. QED
      BY <3>1, <3>2
  <2>5. SessionsAreServed'
    BY <1>1, <2>1 DEF Dial, TypeOK, Custody, SessionsAreServed, InService, mapVars
  <2>. QED
    BY <2>2, <2>3, <2>4, <2>5 DEF Custody
<1>2. ASSUME NEW s \in Sessions, Quarantine(s) PROVE Custody'
  <2>0. state[s] # "none" /\ unitOf[s] \in Units
    BY <1>2 DEF Quarantine, Custody, SessionCustody, InService, Held, Releasable
  <2>1. ASSUME NEW r \in Sessions PROVE SessionCustody(r)'
    <3>1. /\ state' = [state EXCEPT ![s] = "QUARANTINED"] /\ state[s] = "CONNECTED"
          /\ ended' \in {ended, [ended EXCEPT ![s] = TRUE]}
          /\ UNCHANGED <<profile, unitOf, call, trusted, trustFile, opened>>
      BY <1>2 DEF Quarantine, trustVars, counters
    <3>2. SessionCustody(r)
      BY DEF Custody
    <3>3. Nameless' = Nameless
      BY <3>1 DEF Nameless
    <3>4. CASE r # s
      <4>1. state'[r] = state[r] /\ (Releasable(r) => Releasable(r)')
        BY <3>1, <3>4 DEF TypeOK, Releasable
      <4>2. \A u \in Units : Accepted(u) => Accepted(u)'
        BY <1>k
      <4>3. Accepted(unitOf[r])' <=> \E u \in {unitOf[r]} : Accepted(u)'
        BY <3>1 DEF Accepted, IsTrusted, Foreign
      <4>. QED
        BY <3>1, <3>2, <3>3, <4>1, <4>2, <4>3 DEF SessionCustody
    <3>5. CASE r = s
      <4>1. state'[r] = "QUARANTINED" /\ Releasable(r)'
        BY <3>1, <3>5 DEF TypeOK, Releasable
      <4>. QED
        BY <2>0, <3>1, <3>2, <3>3, <3>5, <4>1 DEF SessionCustody
    <3>. QED
      BY <3>4, <3>5
  <2>2. ASSUME NEW v \in Units PROVE UnitCustody(v)'
    BY <1>2, <1>k, <2>0, SMTT(30) DEF Quarantine, trustVars, TypeOK, Custody, UnitCustody, SessionCustody, Releasable, Event, Foreign
  <2>3. WatchCustody'
    BY <1>2, <1>k, <2>0 DEF Quarantine, trustVars, TypeOK, Custody, WatchCustody, SessionCustody, Releasable
  <2>4. SessionsAreServed'
    <3>1. /\ state' = [state EXCEPT ![s] = "QUARANTINED"] /\ state[s] = "CONNECTED"
          /\ ended' \in {ended, [ended EXCEPT ![s] = TRUE]}
          /\ UNCHANGED <<unitOf, sessions>>
      BY <1>2 DEF Quarantine
    <3>2. ASSUME NEW u \in Units, sessions[u] # 0
          PROVE  /\ unitOf'[sessions[u]] = u
                 /\ state'[sessions[u]] \in {"OPERATIONAL", "DEGRADED"}
                 /\ ~ended'[sessions[u]]
      <4>1. sessions[u] \in Sessions /\ unitOf[sessions[u]] = u /\ InService(sessions[u])
        BY <3>2 DEF TypeOK, Custody, SessionsAreServed
      <4>2. sessions[u] # s
        BY <3>1, <4>1 DEF InService
      <4>. QED
        BY <3>1, <4>1, <4>2 DEF TypeOK, InService
    <3>. QED
      BY <3>1, <3>2 DEF SessionsAreServed, InService
  <2>. QED
    BY <2>1, <2>2, <2>3, <2>4 DEF Custody
<1>3. ASSUME NEW s \in Sessions, Adopting(s) PROVE Custody'
  <2>0. state[s] # "none" /\ unitOf[s] \in Units
    BY <1>3 DEF Adopting, Custody, SessionCustody, InService, Held, Releasable
  <2>1. ASSUME NEW r \in Sessions PROVE SessionCustody(r)'
    <3>1. /\ state' = [state EXCEPT ![s] = "ADOPTING"] /\ state[s] = "CONNECTED"
          /\ Accepted(unitOf[s]) /\ ended' \in {ended, [ended EXCEPT ![s] = TRUE]}
          /\ UNCHANGED <<profile, unitOf, call, trusted, trustFile, opened>>
      BY <1>3 DEF Adopting, trustVars, counters
    <3>2. CASE r # s
      <4>1. state'[r] = state[r] /\ (Releasable(r) => Releasable(r)')
        BY <3>1, <3>2 DEF TypeOK, Releasable
      <4>2. SessionCustody(r)
        BY DEF Custody
      <4>3. Accepted(unitOf[r])' <=> \E u \in {unitOf[r]} : Accepted(u)'
        BY <3>1 DEF Accepted, IsTrusted, Foreign
      <4>. QED
        BY <1>k, <3>1, <4>1, <4>2, <4>3 DEF SessionCustody, Nameless
    <3>3. CASE r = s
      <4>0. PICK u \in Units : u = unitOf[s]
        BY <2>0
      <4>1. state'[s] = "ADOPTING" /\ unitOf'[s] = u /\ Accepted(u)' /\ Nameless' = Nameless
        BY <1>k, <3>1, <4>0 DEF TypeOK, Nameless
      <4>2. call[s] # "none" => ended[s]
        BY <3>1 DEF Custody, SessionCustody, Releasable
      <4>3. ended[s] => ended'[s]
        BY <3>1 DEF TypeOK
      <4>4. SessionCustody(s)
        BY DEF Custody
      <4>5. /\ state'[s] # "none" <=> s <= opened'
            /\ state'[s] \in {"ADOPTING", "OPERATIONAL", "DEGRADED"} => Accepted(unitOf[s])'
        BY <3>1, <4>0, <4>1, <4>4 DEF SessionCustody
      <4>6. call'[s] # "none" => Releasable(s)'
        BY <3>1, <4>1, <4>2, <4>3 DEF Releasable
      <4>. QED
        BY <3>1, <3>3, <4>0, <4>1, <4>4, <4>5, <4>6 DEF SessionCustody
    <3>. QED
      BY <3>2, <3>3
  <2>2. ASSUME NEW v \in Units PROVE UnitCustody(v)'
    <3>1. /\ state' = [state EXCEPT ![s] = "ADOPTING"] /\ state[s] = "CONNECTED" /\ ~ended[s]
          /\ ended' \in {ended, [ended EXCEPT ![s] = TRUE]}
          /\ UNCHANGED <<profile, unitOf, quarantined, heard, pardoned>>
      BY <1>3 DEF Adopting, trustVars
    <3>2. UnitCustody(v) /\ Foreign' = Foreign
      BY <3>1 DEF Custody, Foreign
    <3>3. ASSUME NEW r \in Sessions, Releasable(r) PROVE Releasable(r)'
      <4>1. r # s
        BY <3>1, <3>3 DEF Releasable
      <4>2. state'[r] = state[r] /\ ended'[r] = ended[r]
        BY <3>1, <4>1 DEF TypeOK
      <4>. QED
        BY <3>3, <4>2 DEF Releasable
    <3>4. quarantined[v] # 0 => quarantined[v] \in Sessions
      BY DEF TypeOK
    <3>. QED
      BY <3>1, <3>2, <3>3, <3>4 DEF UnitCustody
  <2>3. WatchCustody'
    BY <1>3, <1>k, <2>0 DEF Adopting, trustVars, TypeOK, Custody, WatchCustody, SessionCustody, Releasable
  <2>4. SessionsAreServed'
    <3>1. state[s] = "CONNECTED" /\ sessions' = sessions /\ unitOf' = unitOf
      BY <1>3 DEF Adopting
    <3>2. \A r \in Sessions : r # s => state'[r] = state[r] /\ ended'[r] = ended[r]
      BY <1>3 DEF Adopting, TypeOK
    <3>. QED
      BY <3>1, <3>2 DEF TypeOK, Custody, SessionsAreServed, InService
  <2>. QED
    BY <2>1, <2>2, <2>3, <2>4 DEF Custody
<1>4. ASSUME NEW s \in Sessions, Adopted(s) PROVE Custody'
  <2>0. state[s] # "none" /\ unitOf[s] \in Units
    BY <1>4 DEF Adopted, Custody, SessionCustody, InService, Held, Releasable
  <2>1. ASSUME NEW r \in Sessions PROVE SessionCustody(r)'
    BY <1>4, <1>k, <2>0 DEF Adopted, trustVars, TypeOK, Custody, SessionCustody, Releasable, counters, Nameless
  <2>2. ASSUME NEW v \in Units PROVE UnitCustody(v)'
    BY <1>4, <1>k, <2>0 DEF Adopted, trustVars, TypeOK, Custody, UnitCustody, SessionCustody, Releasable, Foreign
  <2>3. WatchCustody'
    BY <1>4, <1>k, <2>0 DEF Adopted, trustVars, TypeOK, Custody, WatchCustody, SessionCustody, Releasable
  <2>4. SessionsAreServed'
    BY <1>4, <1>k, <2>0 DEF Adopted, trustVars, TypeOK, Custody, SessionsAreServed, InService, SessionCustody
  <2>. QED
    BY <2>1, <2>2, <2>3, <2>4 DEF Custody
<1>5. ASSUME NEW s \in Sessions, Reads(s) PROVE Custody'
  <2>0. state[s] # "none" /\ unitOf[s] \in Units
    BY <1>5 DEF Reads, Custody, SessionCustody, InService, Held, Releasable
  <2>1. ASSUME NEW r \in Sessions PROVE SessionCustody(r)'
    BY <1>5, <1>k, <2>0, SMTT(30) DEF Reads, trustVars, TypeOK, Custody, SessionCustody, Releasable, InService, counters, Nameless
  <2>2. ASSUME NEW v \in Units PROVE UnitCustody(v)'
    BY <1>5, <1>k, <2>0, SMTT(30) DEF Reads, trustVars, TypeOK, Custody, UnitCustody, SessionCustody, Releasable, InService,
        Accepted, IsTrusted, Foreign
  <2>3. WatchCustody'
    BY <1>5, <1>k, <2>0 DEF Reads, trustVars, TypeOK, Custody, WatchCustody, SessionCustody, Releasable, InService
  <2>4. SessionsAreServed'
    <3>1. /\ state' = state \/ state' = [state EXCEPT ![s] = "OPERATIONAL"]
          /\ UNCHANGED <<unitOf, ended, sessions>>
      BY <1>5 DEF Reads
    <3>. QED
      BY <3>1 DEF TypeOK, Custody, SessionsAreServed, InService
  <2>. QED
    BY <2>1, <2>2, <2>3, <2>4 DEF Custody
<1>6. ASSUME NEW s \in Sessions, Ends(s) PROVE Custody'
  <2>0. state[s] # "none" /\ unitOf[s] \in Units
    BY <1>6 DEF Ends, Custody, SessionCustody, InService, Held, Releasable
  <2>1. ASSUME NEW r \in Sessions PROVE SessionCustody(r)'
    BY <1>6, <1>k, <2>0 DEF Ends, trustVars, TypeOK, Custody, SessionCustody, Releasable, InService, counters, Nameless
  <2>2. ASSUME NEW v \in Units PROVE UnitCustody(v)'
    BY <1>6, <1>k, <2>0 DEF Ends, trustVars, TypeOK, Custody, UnitCustody, SessionCustody, Releasable, InService, Foreign
  <2>3. WatchCustody'
    BY <1>6, <1>k, <2>0 DEF Ends, trustVars, TypeOK, Custody, WatchCustody, SessionCustody, Releasable, InService
  <2>4. SessionsAreServed'
    BY <1>6, <1>k, <2>0 DEF Ends, trustVars, TypeOK, Custody, SessionsAreServed, InService, Popped
  <2>. QED
    BY <2>1, <2>2, <2>3, <2>4 DEF Custody
<1>7. ASSUME NEW s \in Sessions, LetsGo(s) PROVE Custody'
  <2>0. state[s] # "none" /\ unitOf[s] \in Units
    BY <1>7 DEF LetsGo, Custody, SessionCustody, InService, Held, Releasable
  <2>0a. /\ state[s] \in {"QUARANTINED", "RELEASED"}
         /\ state' \in {state, [state EXCEPT ![s] = "REMOVED"]}
         /\ ended' = [ended EXCEPT ![s] = TRUE]
         /\ UNCHANGED <<profile, unitOf, call, trusted, trustFile, opened, sessions>>
    BY <1>7 DEF LetsGo, Held, trustVars, counters
  <2>1. ASSUME NEW r \in Sessions PROVE SessionCustody(r)'
    <3>1. CASE r # s
      BY <1>k, <2>0a, <3>1, SMTT(30) DEF TypeOK, Custody, SessionCustody, Releasable, Nameless
    <3>2. CASE r = s
      BY <1>k, <2>0, <2>0a, <3>2 DEF TypeOK, Custody, SessionCustody, Releasable, Nameless
    <3>. QED
      BY <3>1, <3>2
  <2>2. ASSUME NEW v \in Units PROVE UnitCustody(v)'
    BY <1>7, <1>k, <2>0 DEF LetsGo, trustVars, TypeOK, Custody, UnitCustody, SessionCustody, Releasable, Held, Popped, Foreign
  <2>3. WatchCustody'
    BY <1>7, <1>k, <2>0 DEF LetsGo, trustVars, TypeOK, Custody, WatchCustody, SessionCustody, Releasable, Held
  <2>4. SessionsAreServed'
    <3>1. ASSUME NEW u \in Units, sessions[u] # 0
          PROVE  unitOf[sessions[u]] = u /\ InService(sessions[u])'
      <4>1. sessions[u] \in Sessions /\ sessions[u] # s /\ unitOf[sessions[u]] = u
            /\ InService(sessions[u])
        BY <2>0a, <3>1 DEF TypeOK, Custody, SessionsAreServed, InService
      <4>2. state'[sessions[u]] = state[sessions[u]] /\ ended'[sessions[u]] = ended[sessions[u]]
        BY <2>0a, <4>1 DEF TypeOK
      <4>. QED
        BY <2>0a, <4>1, <4>2 DEF InService
    <3>. QED
      BY <2>0a, <3>1 DEF SessionsAreServed, InService
  <2>. QED
    BY <2>1, <2>2, <2>3, <2>4 DEF Custody
<1>8. ASSUME NEW s \in Sessions, NeverSpoke(s) PROVE Custody'
  <2>0. state[s] # "none" /\ unitOf[s] \in Units
    BY <1>8 DEF NeverSpoke, Custody, SessionCustody, InService, Held, Releasable
  <2>1. ASSUME NEW r \in Sessions PROVE SessionCustody(r)'
    BY <1>8, <1>k, <2>0 DEF NeverSpoke, trustVars, TypeOK, Custody, SessionCustody, Releasable, counters, Nameless
  <2>2. ASSUME NEW v \in Units PROVE UnitCustody(v)'
    BY <1>8, <1>k, <2>0 DEF NeverSpoke, trustVars, TypeOK, Custody, UnitCustody, SessionCustody, Releasable, mapVars, Foreign
  <2>3. WatchCustody'
    BY <1>8, <1>k, <2>0 DEF NeverSpoke, trustVars, TypeOK, Custody, WatchCustody, SessionCustody, Releasable
  <2>4. SessionsAreServed'
    BY <1>8, <1>k, <2>0 DEF NeverSpoke, trustVars, TypeOK, Custody, SessionsAreServed, InService, mapVars
  <2>. QED
    BY <2>1, <2>2, <2>3, <2>4 DEF Custody
<1>9. ASSUME NEW s \in Sessions, AdoptionFails(s) PROVE Custody'
  <2>0. state[s] # "none" /\ unitOf[s] \in Units
    BY <1>9 DEF AdoptionFails, Custody, SessionCustody, InService, Held, Releasable
  <2>1. ASSUME NEW r \in Sessions PROVE SessionCustody(r)'
    BY <1>9, <1>k, <2>0 DEF AdoptionFails, trustVars, TypeOK, Custody, SessionCustody, Releasable, counters, Nameless
  <2>2. ASSUME NEW v \in Units PROVE UnitCustody(v)'
    BY <1>9, <1>k, <2>0 DEF AdoptionFails, trustVars, TypeOK, Custody, UnitCustody, SessionCustody, Releasable, Foreign
  <2>3. WatchCustody'
    BY <1>9, <1>k, <2>0 DEF AdoptionFails, trustVars, TypeOK, Custody, WatchCustody, SessionCustody, Releasable
  <2>4. SessionsAreServed'
    BY <1>9, <1>k, <2>0 DEF AdoptionFails, trustVars, TypeOK, Custody, SessionsAreServed, InService
  <2>. QED
    BY <2>1, <2>2, <2>3, <2>4 DEF Custody
<1>10. ASSUME NEW s \in Sessions, Trusts(s) \/ Saves(s) \/ SaveFails(s) PROVE Custody'
  <2>0. /\ state[s] # "none" /\ unitOf[s] \in Units /\ Releasable(s) /\ call[s] # "none"
        /\ trustFile \subseteq trustFile' /\ pardoned \subseteq pardoned'
        /\ trusted \subseteq trusted' /\ trustFile \subseteq trusted
        /\ call' \in [Sessions -> {"none", "asked", "trusted", "saved"}]
        /\ \A r \in Sessions : r # s => call'[r] = call[r]
        /\ UNCHANGED <<profile, state, unitOf, ended, heard, watch, sessions, quarantined,
                       opened>>
    BY <1>10 DEF Trusts, Saves, SaveFails, Raised, TypeOK, Custody, SessionCustody,
                 Releasable, trustVars, mapVars, counters
  <2>1. ASSUME NEW r \in Sessions PROVE SessionCustody(r)'
    <3>1. \/ r # s /\ call'[r] = call[r]
          \/ r = s /\ call'[s] = "none"
          \/ r = s /\ call'[s] = "trusted" /\ unitOf[s] \in trusted'
          \/ r = s /\ call'[s] = "saved" /\ unitOf[s] \in trustFile' \union Nameless
      BY <1>10, <2>0 DEF Trusts, Saves, SaveFails, Raised, TypeOK, Custody, SessionCustody,
                         trustVars
    <3>2. /\ SessionCustody(r) /\ Nameless' = Nameless /\ (Releasable(r)' <=> Releasable(r))
      BY <2>0 DEF Custody, Nameless, Releasable
    <3>. QED
      BY <1>k, <2>0, <3>1, <3>2 DEF SessionCustody
  <2>2. ASSUME NEW v \in Units PROVE UnitCustody(v)'
    BY <2>0 DEF Custody, UnitCustody, Releasable, Foreign
  <2>3. WatchCustody'
    BY <1>k, <2>0 DEF Custody, WatchCustody, SessionCustody
  <2>4. SessionsAreServed'
    BY <2>0 DEF Custody, SessionsAreServed, InService
  <2>. QED
    BY <2>1, <2>2, <2>3, <2>4 DEF Custody
<1>15. ASSUME NEW s \in Sessions, LogsRelease(s) PROVE Custody'
  <2>0. /\ state[s] # "none" /\ unitOf[s] \in Units /\ Releasable(s)
        /\ call' = [call EXCEPT ![s] = "none"] /\ state' = [state EXCEPT ![s] = "RELEASED"]
        /\ UNCHANGED <<profile, unitOf, ended, heard, watch, sessions, quarantined, opened,
                       trusted, trustFile, pardoned>>
    BY <1>15 DEF LogsRelease, TypeOK, Custody, SessionCustody, Releasable, counters
  <2>1. ASSUME NEW r \in Sessions PROVE SessionCustody(r)'
    BY <1>k, <2>0 DEF TypeOK, Custody, SessionCustody, Releasable, Nameless
  <2>2. ASSUME NEW v \in Units PROVE UnitCustody(v)'
    BY <2>0 DEF TypeOK, Custody, UnitCustody, Releasable, Foreign
  <2>3. WatchCustody'
    <3>1. CASE watch.step = "idle"
      BY <2>0, <3>1 DEF WatchCustody
    <3>2. CASE watch.step # "idle"
      <4>1. watch.s \in Sessions /\ unitOf[watch.s] \in Units
        BY <3>2 DEF Custody, WatchCustody, SessionCustody
      <4>2. watch.step = "judged" /\ watch.s = s => ended[s]
        BY <2>0, <3>2 DEF Custody, WatchCustody, Releasable
      <4>. QED
        BY <1>k, <2>0, <3>2, <4>1, <4>2 DEF TypeOK, Custody, WatchCustody
    <3>. QED
      BY <3>1, <3>2
  <2>4. SessionsAreServed'
    BY <2>0 DEF TypeOK, Custody, SessionsAreServed, InService, Releasable
  <2>. QED
    BY <2>1, <2>2, <2>3, <2>4 DEF Custody
<1>11. ASSUME NEW u \in Units, ReleaseCalled(u) PROVE Custody'
  <2>1. ASSUME NEW r \in Sessions PROVE SessionCustody(r)'
    BY <1>11, <1>k DEF ReleaseCalled, trustVars, TypeOK, Custody, SessionCustody, Releasable, UnitCustody, counters, Nameless
  <2>2. ASSUME NEW v \in Units PROVE UnitCustody(v)'
    BY <1>11, <1>k DEF ReleaseCalled, trustVars, TypeOK, Custody, UnitCustody, SessionCustody, Releasable, mapVars, Foreign
  <2>3. WatchCustody'
    BY <1>11, <1>k DEF ReleaseCalled, trustVars, TypeOK, Custody, WatchCustody, SessionCustody, Releasable
  <2>4. SessionsAreServed'
    BY <1>11, <1>k DEF ReleaseCalled, trustVars, TypeOK, Custody, SessionsAreServed, InService, mapVars
  <2>. QED
    BY <2>1, <2>2, <2>3, <2>4 DEF Custody
<1>12. ASSUME NEW u \in Units, WatchdogJudges(u) PROVE Custody'
  <2>1. ASSUME NEW r \in Sessions PROVE SessionCustody(r)'
    BY <1>12, <1>k DEF WatchdogJudges, trustVars, TypeOK, Custody, SessionCustody, Releasable, counters, Nameless
  <2>2. ASSUME NEW v \in Units PROVE UnitCustody(v)'
    BY <1>12, <1>k DEF WatchdogJudges, trustVars, TypeOK, Custody, UnitCustody, SessionCustody, Releasable, mapVars, Foreign
  <2>3. WatchCustody'
    BY <1>12, <1>k DEF WatchdogJudges, trustVars, TypeOK, Custody, WatchCustody, SessionCustody, Releasable, SessionsAreServed, InService
  <2>4. SessionsAreServed'
    BY <1>12, <1>k DEF WatchdogJudges, trustVars, TypeOK, Custody, SessionsAreServed, InService, mapVars
  <2>. QED
    BY <2>1, <2>2, <2>3, <2>4 DEF Custody
<1>13. CASE WatchdogFlags
  <2>1. ASSUME NEW r \in Sessions PROVE SessionCustody(r)'
    BY <1>13, <1>k DEF WatchdogFlags, trustVars, TypeOK, Custody, SessionCustody, Releasable, WatchCustody, counters, Nameless
  <2>2. ASSUME NEW v \in Units PROVE UnitCustody(v)'
    BY <1>13, <1>k DEF WatchdogFlags, trustVars, TypeOK, Custody, UnitCustody, WatchCustody, SessionCustody, Releasable, mapVars, Foreign
  <2>3. WatchCustody'
    BY <1>13, <1>k DEF WatchdogFlags, trustVars, TypeOK, Custody, WatchCustody, SessionCustody, Releasable
  <2>4. SessionsAreServed'
    BY <1>13, <1>k DEF WatchdogFlags, trustVars, TypeOK, Custody, SessionsAreServed, InService, WatchCustody, mapVars
  <2>. QED
    BY <2>1, <2>2, <2>3, <2>4 DEF Custody
<1>14. CASE WatchdogLogs
  <2>1. ASSUME NEW r \in Sessions PROVE SessionCustody(r)'
    BY <1>14, <1>k DEF WatchdogLogs, trustVars, TypeOK, Custody, SessionCustody, Releasable, counters, Nameless
  <2>2. ASSUME NEW v \in Units PROVE UnitCustody(v)'
    BY <1>14, <1>k DEF WatchdogLogs, trustVars, TypeOK, Custody, UnitCustody, SessionCustody, Releasable, Foreign
  <2>3. WatchCustody'
    BY <1>14, <1>k DEF WatchdogLogs, trustVars, TypeOK, Custody, WatchCustody, SessionCustody, Releasable, Idle
  <2>4. SessionsAreServed'
    BY <1>14, <1>k DEF WatchdogLogs, trustVars, TypeOK, Custody, SessionsAreServed, InService
  <2>. QED
    BY <2>1, <2>2, <2>3, <2>4 DEF Custody
<1>16. CASE \/ \E u \in Units : UnitReads(u) \/ UnitNotices(u) \/ UnitSpeaks(u)
            \/ \E s \in Sessions : Ignores(s) \/ LinkDrops(s)
            \/ UNCHANGED vars
  <2>1. UNCHANGED <<profile, state, unitOf, ended, call, sessions, quarantined,
                    trusted, trustFile, pardoned, heard, watch, opened>>
    BY <1>16 DEF UnitReads, UnitNotices, UnitSpeaks, Ignores, LinkDrops, vars,
                 mapVars, trustVars, counters
  <2>. QED
    BY <2>1, CustodyOffTheWire
<1>. QED
  BY <1>1, <1>2, <1>3, <1>4, <1>5, <1>6, <1>7, <1>8, <1>9, <1>10, <1>11, <1>12,
     <1>13, <1>14, <1>15, <1>16, <1>n
  DEF Next, Unit, Session, GivesUp, Release, Watchdog

-----------------------------------------------------------------------------
(* The types and the custody of every session, map entry and reference     *)
(* hold in every reachable state.                                          *)
LEMMA CustodyHolds == Spec => [](TypeOK /\ Custody)
<1>1. Init => TypeOK /\ Custody
  BY TypeInit, CustodyInit
<1>2. TypeOK /\ Custody /\ [Next]_vars => (TypeOK /\ Custody)'
  BY TypeStep, CustodyStep
<1>. QED
  BY <1>1, <1>2, PTL DEF Spec

(* The run's invariant: the types, and who owns every session, map entry   *)
(* and reference another thread holds (southbound.py:95-215).              *)
THEOREM AdoptionIsSound == Spec => []Sound
<1>1. TypeOK /\ Custody => Sound
  BY DEF Sound
<1>. QED
  BY <1>1, CustodyHolds, PTL

(* No telemetry of a unit that is neither on the allowlist nor ever        *)
(* released by an operator, or of one with another protocol version, ever  *)
(* becomes evidence (southbound.py:109-115 and 140-148).                   *)
THEOREM UntrustedIsMute == Spec => []MuteUntilTrusted
<1>1. TypeOK /\ Custody => MuteUntilTrusted
  BY DEF TypeOK, Custody, UnitCustody, MuteUntilTrusted
<1>. QED
  BY <1>1, CustodyHolds, PTL

(* A logged release is never forgotten, wherever a release fails and       *)
(* wherever the hub dies in it: the serial is in the file before the       *)
(* envelope is stored (southbound.py:199-205, config.py:99-105).           *)
THEOREM ReleaseIsNeverForgotten == Spec => []ReleaseIsDurable
<1>1. Init => ReleaseIsDurable
  BY DEF Init, ReleaseIsDurable
<1>2. TypeOK /\ Custody /\ ReleaseIsDurable /\ [Next]_vars => ReleaseIsDurable'
  <2>. SUFFICES ASSUME TypeOK, Custody, ReleaseIsDurable, [Next]_vars PROVE ReleaseIsDurable'
    OBVIOUS
  <2>1. ASSUME NEW s \in Sessions, LogsRelease(s) PROVE ReleaseIsDurable'
    <3>1. unitOf[s] \in trustFile \union Nameless
      BY <2>1 DEF LogsRelease, Custody, SessionCustody
    <3>. QED
      BY <2>1, <3>1 DEF LogsRelease, TypeOK, ReleaseIsDurable, Nameless
  <2>2. ASSUME NEW s \in Sessions, Trusts(s) \/ Saves(s) \/ SaveFails(s)
        PROVE  ReleaseIsDurable'
    BY <2>2 DEF Trusts, Saves, SaveFails, TypeOK, ReleaseIsDurable, Nameless, trustVars
  <2>3. CASE HubRestart
    BY <2>3 DEF HubRestart, ReleaseIsDurable, Nameless
  <2>4. CASE UNCHANGED <<profile, trustVars>>
    BY <2>4 DEF ReleaseIsDurable, Nameless, trustVars
  <2>. QED
    BY <2>1, <2>2, <2>3, <2>4
    DEF Next, Unit, Session, GivesUp, Release, Watchdog, vars, Dial, UnitReads,
        UnitNotices, UnitSpeaks, ReleaseCalled, Quarantine, Adopting, Adopted, Reads,
        Ignores, Ends, LetsGo, NeverSpoke, AdoptionFails, LinkDrops, WatchdogJudges,
        WatchdogFlags, WatchdogLogs
<1>. QED
  BY <1>1, <1>2, CustodyHolds, PTL DEF Spec

(* hub.sessions never hands a command to a session whose task has ended or *)
(* to another module's, however the sessions of a module overlap and       *)
(* whatever stale references are held (southbound.py:137, 155-159).        *)
THEOREM DispatchFindsALiveSession == Spec => []SessionsAreServed
<1>1. Custody => SessionsAreServed
  BY DEF Custody
<1>. QED
  BY <1>1, CustodyHolds, PTL

=============================================================================
