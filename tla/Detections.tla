------------------------------ MODULE Detections ------------------------------
(***************************************************************************)
(* The alert engine (extensions/detections/engine.py): one rule, evaluated *)
(* against every module, in the engine's thread.                           *)
(*                                                                         *)
(* The engine drains its subscription to the evidence, then evaluates the  *)
(* time-driven rules, and starts again.  Sessions come, go and change      *)
(* their process state in the event loop meanwhile, and an API thread      *)
(* acknowledges.  An alert changes first in memory, on the board, and is   *)
(* logged next, by an append that the store may refuse.                    *)
(*                                                                         *)
(* Abstractions: rules share nothing but the loop, so there is one, of any *)
(* type; the modules it selects hold its role and have its channel.  A     *)
(* reading is its place among the two thresholds.  Time is whether a       *)
(* debounce or a window has elapsed.  The watchdog is in Adoption, a full  *)
(* subscription in EvidenceStore, and a restart of the hub, which forgets  *)
(* the board, is a new behaviour.                                          *)
(***************************************************************************)
EXTENDS Naturals, Sequences

CONSTANTS
    Modules,        \* module ids
    Rules,          \* rules of the site, with the modules each selects
    Requests,       \* bound: API requests to acknowledge an alert, a thread each
    About,          \* the module each request names
    Count,          \* "count" of a quality_streak rule
    QueueBound,     \* bound: envelopes waiting in the subscription
    MaxRefusals,    \* bound: appends the store refuses
    Nobody          \* no module

Types == {"threshold", "stale_data", "quality_streak", "health_flag", "cal_overdue"}

ASSUME DetectionsAssumption ==
    /\ Rules \subseteq [type: Types, debounce: BOOLEAN, suppress: BOOLEAN,
                        modules: SUBSET Modules]
    /\ About \in [Requests -> Modules]
    /\ Count \in Nat \ {0}
    /\ {QueueBound, MaxRefusals} \subseteq Nat
    /\ Nobody \notin Modules

VARIABLES
    rule,       \* the rule of this behaviour
    inst,       \* self.instances: one alarm per module
    seen,       \* the modules in self._latest_obs
    health,     \* self._latest_health: whether the flag was hit
    sub,        \* the subscription's queue
    phase,      \* where the thread is
    todo,       \* the modules of this pass that are still to evaluate
    writing,    \* the append of _transition that is under way
    adopted,    \* southbound.sessions
    priming,    \* the sessions whose module_state is one to suppress in
    old,        \* modules whose last good reading, calibration, or the start, is too old
    acker,      \* where each request is in ack()
    log,        \* the last two alerts about each module in the evidence
    audited,    \* an acknowledgement was logged since the alert was last raised
    refusals

engineVars == <<inst, seen, health, sub, phase, todo, writing>>
sessionVars == <<adopted, priming>>
logVars == <<log, audited>>
vars == <<rule, engineVars, sessionVars, old, acker, logVars, refusals>>

Good == {"breach", "between", "clear"}

(* What a rule of each type listens to. *)
Readings(type) ==
    CASE type = "threshold" -> Good \union {"bad"}
      [] type \in {"stale_data", "quality_streak"} -> {"clear", "bad"}
      [] type = "health_flag" -> {"hit", "fine"}
      [] type = "cal_overdue" -> {}

NoAlert == [module |-> Nobody, to |-> "none"]
Alert(m, to) == [module |-> m, to |-> to]

FreshInstance == [state |-> "inactive", ripe |-> FALSE, acked |-> FALSE,
                  value |-> "none", streak |-> 0, heard |-> FALSE]

Init ==
    /\ rule \in Rules
    /\ inst = [m \in Modules |-> FreshInstance]
    /\ seen = {}
    /\ health = [m \in Modules |-> "none"]
    /\ sub = <<>>
    /\ phase = "drain"
    /\ todo = {}
    /\ writing = NoAlert
    /\ adopted = {}
    /\ priming = {}
    /\ old = {}
    /\ acker = [a \in Requests |-> "new"]
    /\ log = [m \in Modules |-> <<>>]
    /\ audited = [m \in Modules |-> FALSE]
    /\ refusals = 0

-----------------------------------------------------------------------------
(* The event loop: sessions, their process state and their telemetry. *)

Adopt(m) ==
    /\ m \in rule.modules \ adopted
    /\ adopted' = adopted \union {m}
    /\ priming' = priming \ {m}
    /\ UNCHANGED <<rule, engineVars, old, acker, logVars, refusals>>

Remove(m) ==
    /\ m \in adopted
    /\ adopted' = adopted \ {m}
    /\ UNCHANGED <<rule, engineVars, priming, old, acker, logVars, refusals>>

ModuleState(m) ==
    /\ m \in adopted
    /\ rule.suppress
    /\ priming' = IF m \in priming THEN priming \ {m} ELSE priming \union {m}
    /\ UNCHANGED <<rule, engineVars, adopted, old, acker, logVars, refusals>>

Telemetry(m) ==
    /\ m \in adopted
    /\ Len(sub) < QueueBound
    /\ \E r \in Readings(rule.type) : sub' = Append(sub, [module |-> m, reading |-> r])
    /\ UNCHANGED <<rule, inst, seen, health, phase, todo, writing, sessionVars, old,
                   acker, logVars, refusals>>

(* cal_overdue reads the newest calibration from the store. *)
Calibrated(m) ==
    /\ rule.type = "cal_overdue"
    /\ m \in adopted
    /\ old' = old \ {m}
    /\ UNCHANGED <<rule, engineVars, sessionVars, acker, logVars, refusals>>

(* Time. *)
GrowsOld(m) ==
    /\ rule.type \in {"stale_data", "cal_overdue"}
    /\ m \in rule.modules
    /\ old' = old \union {m}
    /\ UNCHANGED <<rule, engineVars, sessionVars, acker, logVars, refusals>>

Ripens(m) ==
    /\ inst[m].state = "pending"
    /\ inst' = [inst EXCEPT ![m].ripe = TRUE]
    /\ UNCHANGED <<rule, seen, health, sub, phase, todo, writing, sessionVars, old,
                   acker, logVars, refusals>>

-----------------------------------------------------------------------------
(* _transition up to its append; ins is the alarm before it. *)

KeptAck(ins) == ins.acked                  \* mutant: acked is not reset
Unacked(ins) == FALSE

BoardState(to) == IF to = "raised" THEN "active" ELSE "inactive"

Raise(m, ins) ==
    /\ inst' = [inst EXCEPT ![m] = [ins EXCEPT !.state = BoardState("raised"),
                                               !.acked = Unacked(ins)]]
    /\ writing' = Alert(m, "raised")
    /\ audited' = [audited EXCEPT ![m] = FALSE]

Clear(m, ins) ==
    /\ inst' = [inst EXCEPT ![m] = [ins EXCEPT !.state = BoardState("cleared")]]
    /\ writing' = Alert(m, "cleared")
    /\ UNCHANGED audited

Keep(m, ins) ==
    /\ inst' = [inst EXCEPT ![m] = ins]
    /\ UNCHANGED <<writing, audited>>

AnyTime(ins) == TRUE                       \* mutant: raised again on every pass
NotActive(ins) == ins.state # "active"

(* Nothing is pending longer than the debounce says; 0 is over at once. *)
Pending(ins) == [ins EXCEPT !.state = "pending", !.ripe = ~rule.debounce]

-----------------------------------------------------------------------------
(* _on_observation: the event-driven rules. *)

Suppressed(m) == rule.suppress /\ m \in adopted /\ m \in priming

OnlyCleared(r) == r = "clear"              \* mutant: a pending breach survives "between"
NoBreach(r) == r # "breach"

OnThreshold(m, r) ==
    LET ins == [inst[m] EXCEPT !.value = r]
    IN  \/ /\ r = "bad" \/ Suppressed(m)
           /\ Keep(m, inst[m])
        \/ /\ r \in Good /\ ~Suppressed(m)
           /\ \/ /\ ins.state = "inactive" /\ r = "breach"
                 /\ IF rule.debounce THEN Keep(m, Pending(ins)) ELSE Raise(m, Pending(ins))
              \/ /\ ins.state = "inactive" /\ r # "breach"
                 /\ Keep(m, ins)
              \/ /\ ins.state = "pending"
                 /\ Keep(m, IF NoBreach(r) THEN [ins EXCEPT !.state = "inactive"] ELSE ins)
              \/ /\ ins.state = "active"
                 /\ IF r = "clear" THEN Clear(m, ins) ELSE Keep(m, ins)

(* The streak is counted up to Count, which is all the rule asks. *)
OnQuality(m, r) ==
    LET n == IF r \in Good THEN 0 ELSE inst[m].streak + 1
        ins == [inst[m] EXCEPT !.streak = IF n > Count THEN Count ELSE n]
    IN  \/ /\ NotActive(ins) /\ n >= Count
           /\ Raise(m, ins)
        \/ /\ ins.state = "active" /\ r \in Good
           /\ Clear(m, ins)
        \/ /\ ins.state # "active" /\ n < Count
           /\ Keep(m, ins)
        \/ /\ ins.state = "active" /\ r \notin Good
           /\ Keep(m, ins)

OnFreshness(m, r) ==
    LET ins == [inst[m] EXCEPT !.heard = @ \/ r \in Good]
    IN  IF r \in Good /\ ins.state = "active" THEN Clear(m, ins) ELSE Keep(m, ins)

(* One envelope of the subscription. *)
Drain ==
    /\ phase = "drain"
    /\ writing = NoAlert
    /\ sub # <<>>
    /\ LET m == Head(sub).module
           r == Head(sub).reading
       IN  /\ \/ rule.type = "threshold" /\ OnThreshold(m, r)
              \/ rule.type = "quality_streak" /\ OnQuality(m, r)
              \/ rule.type = "stale_data" /\ OnFreshness(m, r)
              \/ rule.type = "health_flag" /\ Keep(m, inst[m])
           /\ old' = IF rule.type = "stale_data" /\ r \in Good THEN old \ {m} ELSE old
           /\ seen' = IF rule.type = "health_flag" THEN seen ELSE seen \union {m}
           /\ health' = IF rule.type = "health_flag" THEN [health EXCEPT ![m] = r]
                        ELSE health
    /\ sub' = Tail(sub)
    /\ UNCHANGED <<rule, phase, todo, sessionVars, acker, log, refusals>>

-----------------------------------------------------------------------------
(* _evaluate: the time-driven rules. *)

OnlyAdopted == adopted                     \* mutant: a module that is gone is not judged
Producers == seen \union adopted

(* Whom a pass is about is decided when it starts. *)
Concerned ==
    CASE rule.type = "threshold" -> {m \in Modules : inst[m].state = "pending"}
      [] rule.type = "stale_data" -> Producers
      [] rule.type \in {"cal_overdue", "health_flag"} -> adopted
      [] rule.type = "quality_streak" -> {}

Evaluate ==
    /\ phase = "drain"
    /\ writing = NoAlert
    /\ sub = <<>>
    /\ phase' = "evaluate"
    /\ todo' = Concerned
    /\ UNCHANGED <<rule, inst, seen, health, sub, writing, sessionVars, old, acker,
                   logVars, refusals>>

NeverSuperseded(m) == FALSE                \* mutant: a swap strands the old module's alert
(* Another module holds the role and has fresh data. *)
Superseded(m) ==
    \E s \in adopted : s # m /\ inst[s].heard /\ s \notin old

Promote(m) ==
    LET ins == inst[m]
    IN  IF ins.state = "pending" /\ ins.ripe THEN Raise(m, ins) ELSE Keep(m, ins)

JudgeFreshness(m) ==
    LET ins == inst[m]
    IN  \/ /\ m \notin adopted /\ Superseded(m)
           /\ IF ins.state = "active" THEN Clear(m, ins) ELSE Keep(m, ins)
        \/ /\ ~(m \notin adopted /\ Superseded(m))
           /\ IF NotActive(ins) /\ m \in old THEN Raise(m, ins) ELSE Keep(m, ins)

JudgeCalibration(m) ==
    LET ins == inst[m]
    IN  IF NotActive(ins) /\ m \in old THEN Raise(m, ins)
        ELSE IF ins.state = "active" /\ m \notin old THEN Clear(m, ins)
        ELSE Keep(m, ins)

JudgeHealth(m) ==
    LET ins == inst[m]
        hit == health[m] = "hit"
    IN  \/ health[m] = "none" /\ Keep(m, ins)
        \/ /\ health[m] # "none" /\ ins.state = "inactive"
           /\ Keep(m, IF hit THEN Pending(ins) ELSE ins)
        \/ /\ health[m] # "none" /\ ins.state = "pending"
           /\ IF ~hit THEN Keep(m, [ins EXCEPT !.state = "inactive"])
              ELSE IF ins.ripe THEN Raise(m, ins) ELSE Keep(m, ins)
        \/ /\ health[m] # "none" /\ ins.state = "active"
           /\ IF hit THEN Keep(m, ins) ELSE Clear(m, ins)

Judge(m) ==
    /\ phase = "evaluate"
    /\ writing = NoAlert
    /\ m \in todo
    /\ \/ rule.type = "threshold" /\ Promote(m)
       \/ rule.type = "stale_data" /\ JudgeFreshness(m)
       \/ rule.type = "cal_overdue" /\ JudgeCalibration(m)
       \/ rule.type = "health_flag" /\ JudgeHealth(m)
    /\ todo' = todo \ {m}
    /\ UNCHANGED <<rule, seen, health, sub, phase, sessionVars, old, acker, log,
                   refusals>>

(* The pass is over; the watchdog and the wait for the next tick follow. *)
PassOver ==
    /\ phase = "evaluate"
    /\ writing = NoAlert
    /\ todo = {}
    /\ phase' = "drain"
    /\ UNCHANGED <<rule, inst, seen, health, sub, todo, writing, sessionVars, old,
                   acker, logVars, refusals>>

-----------------------------------------------------------------------------
(* The append of _transition. *)

LastTwo(s) == IF Len(s) <= 2 THEN s ELSE SubSeq(s, Len(s) - 1, Len(s))

Write ==
    /\ writing # NoAlert
    /\ log' = [log EXCEPT ![writing.module] = LastTwo(Append(@, writing.to))]
    /\ writing' = NoAlert
    /\ UNCHANGED <<rule, inst, seen, health, sub, phase, todo, sessionVars, old, acker,
                   audited, refusals>>

(* The append raises: run() gives the rest of the pass up ... *)
Refused ==
    /\ writing # NoAlert
    /\ refusals < MaxRefusals
    /\ refusals' = refusals + 1
    /\ writing' = NoAlert
    /\ todo' = {}
    /\ phase' = "failed"
    /\ UNCHANGED <<rule, inst, seen, health, sub, sessionVars, old, acker, logVars>>

(* ... and reports it; when the report is refused too the thread ends. *)
Report ==
    /\ phase = "failed"
    /\ \/ phase' = "drain" /\ UNCHANGED refusals
       \/ /\ refusals < MaxRefusals
          /\ refusals' = refusals + 1
          /\ phase' = "dead"
    /\ UNCHANGED <<rule, inst, seen, health, sub, todo, writing, sessionVars, old, acker,
                   logVars>>

-----------------------------------------------------------------------------
(* ack(), in an HTTP thread: look, mark, log. *)

AckLooks(a) ==
    /\ acker[a] = "new"
    /\ inst[About[a]].state = "active" /\ ~inst[About[a]].acked
    /\ acker' = [acker EXCEPT ![a] = "looked"]
    /\ UNCHANGED <<rule, engineVars, sessionVars, old, logVars, refusals>>

AckMarks(a) ==
    /\ acker[a] = "looked"
    /\ inst' = [inst EXCEPT ![About[a]].acked = TRUE]
    /\ acker' = [acker EXCEPT ![a] = "marked"]
    /\ UNCHANGED <<rule, seen, health, sub, phase, todo, writing, sessionVars, old,
                   logVars, refusals>>

AckLogs(a) ==
    /\ acker[a] = "marked"
    /\ audited' = [audited EXCEPT ![About[a]] = TRUE]
    /\ acker' = [acker EXCEPT ![a] = "done"]
    /\ UNCHANGED <<rule, engineVars, sessionVars, old, log, refusals>>

-----------------------------------------------------------------------------
Engine ==
    \/ Drain \/ Evaluate \/ PassOver \/ Write \/ Report
    \/ \E m \in Modules : Judge(m)

Next ==
    \/ \E m \in Modules :
           \/ Adopt(m) \/ Remove(m) \/ ModuleState(m) \/ Telemetry(m)
           \/ Calibrated(m) \/ GrowsOld(m) \/ Ripens(m)
    \/ Engine \/ Refused
    \/ \E a \in Requests : AckLooks(a) \/ AckMarks(a) \/ AckLogs(a)

Spec == Init /\ [][Next]_vars

(* The engine's thread runs, and gets to the end of its queue: a tick      *)
(* takes out what came since the last one.                                 *)
FairSpec == Spec /\ WF_vars(Engine) /\ SF_vars(Evaluate)

-----------------------------------------------------------------------------
TypeOK ==
    /\ rule \in Rules
    /\ inst \in [Modules -> [state: {"inactive", "pending", "active"}, ripe: BOOLEAN,
                             acked: BOOLEAN, value: Good \union {"none"},
                             streak: 0..Count, heard: BOOLEAN]]
    /\ seen \subseteq Modules
    /\ health \in [Modules -> {"none", "hit", "fine"}]
    /\ sub \in Seq([module: Modules, reading: Readings(rule.type)])
    /\ Len(sub) <= QueueBound
    /\ phase \in {"drain", "evaluate", "failed", "dead"}
    /\ {todo, adopted, priming, old} \subseteq SUBSET Modules
    /\ writing \in [module: Modules, to: {"raised", "cleared"}] \union {NoAlert}
    /\ acker \in [Requests -> {"new", "looked", "marked", "done"}]
    /\ log \in [Modules -> Seq({"raised", "cleared"})]
    /\ audited \in [Modules -> BOOLEAN]
    /\ refusals \in 0..MaxRefusals

(* What the evidence says and what the board shows are the same: alerts    *)
(* about a module alternate, and the last one logged, or being logged, is  *)
(* the state of the alarm ("an alert that fired, cleared, or was           *)
(* acknowledged is part of the same hash-chained log", engine.py:6-8), as  *)
(* long as the store takes every append.                                   *)
BoardMatchesLog ==
    refusals = 0 =>
        \A m \in Modules :
            LET told == IF writing.module = m THEN LastTwo(Append(log[m], writing.to))
                        ELSE log[m]
            IN  /\ Len(told) = 2 => told[1] # told[2]
                /\ (inst[m].state = "active") <=> (told # <<>> /\ told[Len(told)] = "raised")

(* The board and the evidence agree about every module. *)
Sound == TypeOK /\ BoardMatchesLog

(* Hysteresis and debounce, over any sequence of readings, suppressed      *)
(* stretches and passes: an active alarm has not seen a clearing value, a  *)
(* pending one has seen breaches only, an inactive one none since          *)
(* (engine.py:241-258, 276-283).                                           *)
AlarmFollowsReadings ==
    rule.type = "threshold" =>
        \A m \in Modules :
            /\ inst[m].state = "active" => inst[m].value \in {"breach", "between"}
            /\ inst[m].state = "pending" => inst[m].value = "breach"
            /\ inst[m].state = "inactive" => inst[m].value # "breach"

(* Who shows as acknowledged was acknowledged since it was last raised: a  *)
(* thread that looked at an earlier occurrence still logs its mark ("ack   *)
(* resets on re-raise", docs/detections.md:135).                           *)
AckedIsAudited ==
    \A m \in Modules :
        (inst[m].state = "active" /\ inst[m].acked) =>
            audited[m] \/ \E a \in Requests : acker[a] = "marked" /\ About[a] = m

Raises(m) == inst[m].state # "active" /\ inst'[m].state = "active"

InDeclaredState(m) == rule.suppress /\ m \in adopted \cap priming

(* "rule evaluation holds while the module is in declared process states"  *)
(* (docs/detections.md:127-128, suppressed by design).                     *)
SuppressionHolds == [][\A m \in Modules : Raises(m) => ~InDeclaredState(m)]_vars

IsStaleRule == rule.type = "stale_data"
TakenOver(m) == \E s \in adopted \ {m} : inst[s].heard /\ s \notin old

(* A module that goes on being stale is on the board in the end, adopted   *)
(* or removed, unless another one took its role ("a REMOVED module is      *)
(* exactly when this must keep firing", engine.py:288).                    *)
StaleIsRaised ==
    \A m \in Modules :
        <>[](IsStaleRule /\ m \in old /\ m \in seen \union adopted /\ ~TakenOver(m)
                /\ phase # "dead") => <>[](inst[m].state = "active")

Swapped(m) == IsStaleRule /\ m \notin adopted /\ TakenOver(m)

(* ... and it leaves the board when another module holds the role and      *)
(* produces, if the module that went had ever produced itself              *)
(* (engine.py:298-306).                                                    *)
ProducerIsCleared ==
    \A m \in Modules :
        <>[](Swapped(m) /\ m \in seen /\ phase # "dead") => <>[](inst[m].state # "active")

(* "a swap cannot strand a stale alarm" (docs/detections.md:176). *)
NothingStranded ==
    \A m \in Modules : <>[](Swapped(m) /\ phase # "dead") => <>[](inst[m].state # "active")

=============================================================================
