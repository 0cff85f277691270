---------------------------------- MODULE Desk ----------------------------------
(***************************************************************************)
(* Who asks the analyzers for what: the scheduler's thread (extensions/    *)
(* scheduler/scheduler.py) and the people and agents on the HTTP API, all  *)
(* through CommandGateway.submit, status and cancel (uii/hub/commands.py). *)
(*                                                                         *)
(* One role with a cadence; the modules that may fill it come, go, redial  *)
(* and restart.  What the hub knows of a module is what the module last    *)
(* reported in this session.  A caller is between the checks of submit()   *)
(* and the next thing it does while it asks: modules, reports and other    *)
(* callers move in between.  A submission may also raise, before or after  *)
(* it stored its command (a refused append, or 5 s without room on the     *)
(* connection), and the hub may be restarted.                              *)
(*                                                                         *)
(* Abstractions: what CommandLife models of a command's way is one step    *)
(* (dispatched, read, ended, lost with its session); a command is a slot   *)
(* that may be used again once its command is done and nobody remembers    *)
(* it (one that is stuck, never to end, is done with in that sense); of    *)
(* parameters only whether they pass validate_params; the event     *)
(* "cal-required" only adds evidence.                                      *)
(***************************************************************************)
EXTENDS Naturals

(* Command types with declared preconditions (pimod.py manifest), and the rest. *)
Runs == {"calibrate", "sample"}
Types == Runs \union {"take_control", "abort"}

CONSTANTS
    Modules,       \* module ids that may fill the role
    Callers,       \* HTTP handler threads
    Scheduler,     \* the scheduler's thread
    Keys,          \* idempotency keys
    NoKey,         \* a submission without one
    Slots,         \* bound: commands remembered at a time, a set of numbers
    CallTypes,     \* bound: what the HTTP callers ask for
    MaxCalls,      \* bound: calls of the HTTP handlers
    MaxFaults,     \* bound: calls that raise plus restarts of modules and hub
    MayDefer       \* the policy may put a command before a human; bound: one at a time

ASSUME DeskAssumption ==
    /\ Scheduler \notin Callers
    /\ NoKey \notin Keys
    /\ Slots \subseteq Nat \ {0}
    /\ CallTypes \subseteq Runs
    /\ {MaxCalls, MaxFaults} \subseteq Nat
    /\ MayDefer \in BOOLEAN

Threads == Callers \union {Scheduler}
Unknown == "unknown"

VARIABLES
    sess,       \* hub.sessions: "up" or "gone"
    seen,       \* ModuleSession.mode and module_state
    dev,        \* the instrument: its mode, the slot it runs and what that is
    cal,        \* latest_calibration: "none", "fresh", "old"
    cmd,        \* the commands
    idem,       \* the keys in CommandGateway._idem
    thr,        \* the callers of the gateway
    pending, asked, due, todo,   \* the scheduler
    made,       \* observes: commands stored under each key
    excused,    \* observes: answers of a key that were forgotten, or overlapped
    missed,     \* observes: modules that may be in BRIDGE although the scheduler
                \* holds that they were asked for control
    calls, faults

schedVars == <<pending, asked, due, todo>>
fieldVars == <<sess, seen, dev, cal>>
watchVars == <<made, excused, missed>>
bounds == <<calls, faults>>
vars == <<fieldVars, cmd, idem, thr, schedVars, watchVars, bounds>>

(* late: the call began while another one under its key was under way. *)
Resting == [pc |-> "idle", m |-> "none", type |-> "none", key |-> NoKey, late |-> FALSE]

(* by: whose actor a command bears; told: who asked for it holds its id.   *)
Actor(t) == IF t = Scheduler THEN "scheduler" ELSE "api"
Unused == [st |-> "done", m |-> "none", type |-> "none", by |-> "api", told |-> FALSE]
Restarted == [mode |-> "BRIDGE", run |-> 0, type |-> "none"]

Init ==
    /\ sess = [m \in Modules |-> "gone"]
    /\ seen = [m \in Modules |-> [mode |-> Unknown, state |-> Unknown]]
    /\ dev = [m \in Modules |-> Restarted]
    /\ cal = [m \in Modules |-> "none"]
    /\ cmd = [i \in Slots |-> Unused]
    /\ idem = {}
    /\ thr = [t \in Threads |-> Resting]
    /\ pending = [m \in Modules |-> 0]
    /\ asked = {}
    /\ due = TRUE
    /\ todo = {}
    /\ made = [k \in Keys |-> 0]
    /\ excused = [k \in Keys |-> 0]
    /\ missed = {}
    /\ calls = 0
    /\ faults = 0

-----------------------------------------------------------------------------
(* The modules. *)

Open == {i \in Slots : cmd[i].st # "done"}
InUse(i) ==
    \/ cmd[i].st \notin {"done", "stuck"}
    \/ \E m \in Modules : pending[m] = i \/ dev[m].run = i

Adopted(m) ==
    /\ sess[m] = "gone"
    /\ sess' = [sess EXCEPT ![m] = "up"]
    /\ missed' = IF dev[m].mode = "BRIDGE" THEN missed ELSE missed \ {m}
    /\ UNCHANGED <<seen, dev, cal, cmd, idem, thr, schedVars, made, excused, bounds>>

Ended(i) == [cmd EXCEPT ![i] = Unused]

(* The session ends and gives up its commands; the module runs on, or was  *)
(* restarted, which is what ended the session.                             *)
SessionEnds(m) ==
    /\ sess[m] = "up"
    /\ sess' = [sess EXCEPT ![m] = "gone"]
    /\ cmd' = [i \in Slots |-> IF cmd[i].m = m /\ cmd[i].st \in {"sent", "running"}
                               THEN Unused ELSE cmd[i]]
    /\ seen' = [seen EXCEPT ![m] = [mode |-> Unknown, state |-> Unknown]]
    /\ todo' = todo \ {m}
    /\ missed' = missed \union {m}
    /\ \/ UNCHANGED <<dev, faults>>
       \/ /\ faults < MaxFaults
          /\ faults' = faults + 1
          /\ dev' = [dev EXCEPT ![m] = Restarted]
    /\ UNCHANGED <<cal, idem, thr, pending, asked, due, made, excused, calls>>

StateOf(d) == IF d.run = 0 THEN "idle" ELSE "running"

(* Health or state telemetry. *)
Reports(m) ==
    /\ sess[m] = "up"
    /\ seen' = [seen EXCEPT ![m] = [mode |-> dev[m].mode, state |-> StateOf(dev[m])]]
    /\ UNCHANGED <<sess, dev, cal, cmd, idem, thr, schedVars, watchVars, bounds>>

(* A module reads a command; what it changes is reported with the answer.  *)
Executes(i) ==
    /\ cmd[i].st = "sent"
    /\ LET m == cmd[i].m
           d == dev[m]
           now(nd) == /\ dev' = [dev EXCEPT ![m] = nd]
                      /\ seen' = [seen EXCEPT ![m] = [mode |-> nd.mode, state |-> StateOf(nd)]]
       IN  \/ /\ cmd[i].type = "take_control"
              /\ now([d EXCEPT !.mode = "ENDPOINT"])
              /\ cmd' = Ended(i)
           \/ /\ cmd[i].type \in Runs
              /\ d.mode = "ENDPOINT" /\ d.run = 0
              /\ now([d EXCEPT !.run = i, !.type = cmd[i].type])
              /\ cmd' = [cmd EXCEPT ![i].st = "running"]
           \/ /\ cmd[i].type \in Runs
              /\ d.mode # "ENDPOINT" \/ d.run # 0
              /\ cmd' = Ended(i)
              /\ UNCHANGED <<dev, seen>>
           \/ /\ cmd[i].type = "abort"
              /\ now([d EXCEPT !.run = 0, !.type = "none"])
              /\ cmd' = [j \in Slots |-> IF j \in {i, d.run} THEN Unused ELSE cmd[j]]
    /\ UNCHANGED <<sess, cal, idem, thr, schedVars, watchVars, bounds>>

(* The timeline ends.  A result that finds no session is dropped.  Any     *)
(* other is recorded, of whatever the hub made of its command meanwhile    *)
(* (southbound.py:277-285), and a calibration whose fit the hub can make   *)
(* becomes the latest one.                                                 *)
Finishes(m, fits) ==
    LET i == dev[m].run
    IN  /\ i # 0
        /\ dev' = [dev EXCEPT ![m] = [@ EXCEPT !.run = 0, !.type = "none"]]
        /\ IF sess[m] = "up"
           THEN /\ cmd' = Ended(i)
                /\ seen' = [seen EXCEPT ![m] = [mode |-> dev[m].mode, state |-> "idle"]]
                /\ cal' = IF dev[m].type = "calibrate" /\ fits
                          THEN [cal EXCEPT ![m] = "fresh"] ELSE cal
           ELSE UNCHANGED <<cmd, cal, seen>>
        /\ UNCHANGED <<sess, idem, thr, schedVars, watchVars, bounds>>

(* cal_max_age_s and sample_interval_s pass. *)
CalibrationAges(m) ==
    /\ cal[m] = "fresh"
    /\ cal' = [cal EXCEPT ![m] = "old"]
    /\ UNCHANGED <<sess, seen, dev, cmd, idem, thr, schedVars, watchVars, bounds>>

IntervalPasses ==
    /\ ~due
    /\ due' = TRUE
    /\ UNCHANGED <<fieldVars, cmd, idem, thr, pending, asked, todo, watchVars, bounds>>

-----------------------------------------------------------------------------
(* The gateway *)

(* Preconditions "mode:ENDPOINT" and "state:idle"; unknown values pass. *)
Passes(m, type) ==
    type \in Runs => /\ seen[m].mode \in {Unknown, "ENDPOINT"}
                     /\ seen[m].state \in {Unknown, "idle"}

Free == {i \in Slots : ~InUse(i)}
Fresh(i) == i \in Free /\ \A j \in Free : i <= j

Rests(t) == thr' = [thr EXCEPT ![t] = Resting]

(* What becomes of a command once stored. *)
Ways(t) ==
    {"sent"} \union (IF /\ MayDefer /\ t # Scheduler /\ thr[t].type # "abort"
                        /\ \A i \in Slots : cmd[i].st # "deferred"
                     THEN {"deferred"} ELSE {})

(* _submit: a rejection stores no command.                                 *)
Stores(t, i, st, told) ==
    LET q == thr[t]
    IN  /\ sess[q.m] = "up"
        /\ Passes(q.m, q.type)
        /\ Fresh(i)
        /\ cmd' = [cmd EXCEPT ![i] = [st |-> st, m |-> q.m, type |-> q.type,
                                      by |-> Actor(t), told |-> told]]

Stuck(m) == [Unused EXCEPT !.st = "stuck", !.m = m]

Strands(t, i) ==
    /\ sess[thr[t].m] = "up"
    /\ Passes(thr[t].m, thr[t].type)
    /\ Fresh(i)
    /\ cmd' = [cmd EXCEPT ![i] = Stuck(thr[t].m)]

(* _submit raises: the append of the command or of its rejection was       *)
(* refused and nothing is stored; or the command is, and then its number   *)
(* or the entry of its deferral was refused, its dispatch took 5 s and     *)
(* will still be made or not, or its module was gone and the result that   *)
(* says so was refused.  A command may be left stuck: nothing will end it, *)
(* and of it only the module counts that a cancel asks to abort.           *)
Raises(t) ==
    /\ faults < MaxFaults
    /\ faults' = faults + 1
    /\ Rests(t)

Strays(t) ==
    \E i \in Slots : Strands(t, i) \/ \E st \in Ways(t) : Stores(t, i, st, FALSE)

(* self._idem[key] = result: rejections are remembered as well. *)
Remembers(t) == idem' = IF thr[t].key = NoKey THEN idem ELSE idem \union {thr[t].key}

Counts(f, k) == IF k = NoKey THEN f ELSE [f EXCEPT ![k] = @ + 1]

Submits(t) ==
    /\ t \in Callers
    /\ thr[t].pc = "asking"
    /\ \/ /\ \E i \in Slots, st \in Ways(t) : Stores(t, i, st, TRUE)
          /\ made' = Counts(made, thr[t].key)
          /\ excused' = IF thr[t].late THEN Counts(excused, thr[t].key) ELSE excused
       \/ UNCHANGED <<cmd, made, excused>>   \* rejected: bad parameters included
    /\ Remembers(t)
    /\ Rests(t)
    /\ UNCHANGED <<fieldVars, schedVars, missed, bounds>>

(* The answer of a call that raises is not remembered. *)
SubmitRaises(t) ==
    /\ t \in Callers
    /\ thr[t].pc = "asking"
    /\ Raises(t)
    /\ \/ /\ Strays(t)
          /\ made' = Counts(made, thr[t].key)
          /\ excused' = Counts(excused, thr[t].key)
       \/ UNCHANGED <<cmd, made, excused>>
    /\ UNCHANGED <<fieldVars, idem, schedVars, missed, calls>>

(* A request has a thread of its own: which one does not matter. *)
Idle(t) == t = CHOOSE u \in Callers : thr[u].pc = "idle"

NeverKnown(k) == FALSE               \* mutant: the cache is not read
Known(k) == k \in idem

Overlaps(k) == \E t \in Callers : thr[t].pc = "asking" /\ thr[t].key = k

(* submit(): a known key is answered from the cache, in the same step. *)
Calls(t) ==
    /\ t \in Callers
    /\ thr[t].pc = "idle" /\ Idle(t)
    /\ calls < MaxCalls
    /\ calls' = calls + 1
    /\ \E m \in Modules, type \in CallTypes, k \in Keys :
           thr' = IF Known(k) THEN thr
                  ELSE [thr EXCEPT ![t] = [pc |-> "asking", m |-> m, type |-> type,
                                           key |-> k, late |-> Overlaps(k)]]
    /\ UNCHANGED <<fieldVars, cmd, idem, schedVars, watchVars, faults>>

(* 500 other keys later. *)
Evicted(k) ==
    /\ k \in idem
    /\ idem' = idem \ {k}
    /\ excused' = Counts(excused, k)
    /\ UNCHANGED <<fieldVars, cmd, thr, schedVars, made, missed, bounds>>

(* cancel(): the command has no result yet; its module is asked to abort   *)
(* whatever it runs by then.                                               *)
Cancels(t) ==
    /\ t \in Callers
    /\ thr[t].pc = "idle" /\ Idle(t)
    /\ calls < MaxCalls
    /\ calls' = calls + 1
    /\ \E i \in Open :
        /\ cmd[i].type # "abort"
        /\ thr' = [thr EXCEPT ![t] = [pc |-> "asking", m |-> cmd[i].m, type |-> "abort",
                                      key |-> NoKey, late |-> FALSE]]
    /\ UNCHANGED <<fieldVars, cmd, idem, schedVars, watchVars, faults>>

(* A human decides about a deferred command: Approvals has the details. *)
Decided(i) ==
    /\ cmd[i].st = "deferred"
    /\ \/ cmd' = Ended(i)
       \/ cmd' = IF sess[cmd[i].m] = "up" THEN [cmd EXCEPT ![i].st = "sent"]
                 ELSE Ended(i)
    /\ UNCHANGED <<fieldVars, idem, thr, schedVars, watchVars, bounds>>

-----------------------------------------------------------------------------
(* The scheduler *)

AllRemembered(present) == asked        \* mutant: absence is not noticed
StillPresent(present) == asked \intersect present

(* _tick: forget the modules that then visit those that are there. *)
Tick ==
    /\ todo = {}
    /\ thr[Scheduler] = Resting
    /\ LET present == {m \in Modules : sess[m] = "up"}
       IN  /\ asked' = StillPresent(present)
           /\ pending' = [m \in Modules |-> IF m \in present THEN pending[m] ELSE 0]
           /\ todo' = present
    /\ missed' = {m \in missed : sess[m] = "up"}
    /\ UNCHANGED <<fieldVars, cmd, idem, thr, due, made, excused, bounds>>

BusyWithNothing(m) == FALSE          \* mutant: what is in flight is not looked at
InFlight(m) == pending[m] # 0 /\ cmd[pending[m]].st # "done"

CalValid(m) == cal[m] = "fresh"

Wants(m, type) ==
    thr' = [thr EXCEPT ![Scheduler] = [pc |-> "asking", m |-> m, type |-> type,
                                       key |-> NoKey, late |-> FALSE]]

(* One module of the pass, up to the call of submit(). *)
Visits(m) ==
    /\ m \in todo
    /\ thr[Scheduler] = Resting
    /\ todo' = todo \ {m}
    /\ IF InFlight(m)
       THEN UNCHANGED <<pending, asked, due, thr>>
       ELSE /\ pending' = [pending EXCEPT ![m] = 0]
            /\ CASE seen[m].mode = "BRIDGE" ->
                        /\ IF m \notin asked
                           THEN asked' = asked \union {m} /\ Wants(m, "take_control")
                           ELSE UNCHANGED <<asked, thr>>
                        /\ UNCHANGED due
                 [] seen[m].mode # "BRIDGE" /\ seen[m].state \notin {Unknown, "idle"} ->
                        UNCHANGED <<asked, due, thr>>
                 [] seen[m].mode # "BRIDGE" /\ seen[m].state \in {Unknown, "idle"}
                        /\ ~CalValid(m) ->
                        /\ Wants(m, "calibrate")
                        /\ UNCHANGED <<asked, due>>
                 [] OTHER ->
                        /\ due' = FALSE
                        /\ IF due THEN Wants(m, "sample") ELSE UNCHANGED thr
                        /\ UNCHANGED asked
    /\ UNCHANGED <<fieldVars, cmd, idem, watchVars, bounds>>

(* _submit of the scheduler: only a stored command is remembered. *)
Schedules ==
    LET q == thr[Scheduler]
    IN  /\ q.pc = "asking"
        /\ \/ \E i \in Slots :
                /\ Stores(Scheduler, i, "sent", TRUE)
                /\ pending' = [pending EXCEPT ![q.m] = i]
           \/ /\ sess[q.m] = "gone" \/ ~Passes(q.m, q.type)
              /\ UNCHANGED <<cmd, pending>>
        /\ Rests(Scheduler)
        /\ UNCHANGED <<fieldVars, idem, asked, due, todo, watchVars, bounds>>

(* submit() raises into the pass: what was stored is not remembered, and   *)
(* the modules after this one are not visited (run, scheduler.py:57-63).   *)
(* Who was asked for control, or sampled, stays so.                        *)
ScheduleRaises ==
    LET q == thr[Scheduler]
    IN  /\ q.pc = "asking"
        /\ Raises(Scheduler)
        /\ Strays(Scheduler) \/ UNCHANGED cmd
        /\ todo' = {}
        /\ missed' = IF q.type = "take_control" THEN missed \union {q.m} ELSE missed
        /\ UNCHANGED <<fieldVars, idem, pending, asked, due, made, excused, calls>>

(* A query or an append of the pass itself is refused. *)
PassFails ==
    /\ thr[Scheduler] = Resting
    /\ todo # {}
    /\ faults < MaxFaults
    /\ faults' = faults + 1
    /\ todo' = {}
    /\ UNCHANGED <<fieldVars, cmd, idem, thr, pending, asked, due, watchVars, calls>>

-----------------------------------------------------------------------------
(* The hub dies and comes back: the keys, the approvals, the sessions and  *)
(* the scheduler's memory are gone, and what was open is held by nobody.   *)
HubRestart ==
    /\ faults < MaxFaults
    /\ faults' = faults + 1
    /\ sess' = [m \in Modules |-> "gone"]
    /\ seen' = [m \in Modules |-> [mode |-> Unknown, state |-> Unknown]]
    /\ cmd' = [i \in Slots |-> IF i \in Open
                               THEN Stuck(cmd[i].m) ELSE cmd[i]]
    /\ idem' = {}
    /\ excused' = [k \in Keys |-> IF k \in idem THEN excused[k] + 1 ELSE excused[k]]
    /\ thr' = [t \in Threads |-> Resting]
    /\ pending' = [m \in Modules |-> 0]
    /\ asked' = {}
    /\ due' = TRUE
    /\ todo' = {}
    /\ missed' = {}
    /\ UNCHANGED <<dev, cal, made, calls>>

-----------------------------------------------------------------------------
Engine == Tick \/ Schedules \/ \E m \in Modules : Visits(m)

Next ==
    \/ \E m \in Modules : Adopted(m) \/ SessionEnds(m) \/ Reports(m) \/ CalibrationAges(m)
    \/ \E m \in Modules, fits \in BOOLEAN : Finishes(m, fits)
    \/ \E i \in Slots : Executes(i) \/ Decided(i)
    \/ \E t \in Callers : Submits(t) \/ SubmitRaises(t) \/ Calls(t) \/ Cancels(t)
    \/ \E k \in Keys : Evicted(k)
    \/ Engine \/ IntervalPasses
    \/ ScheduleRaises \/ PassFails \/ HubRestart

Spec == Init /\ [][Next]_vars

(* The threads of the hub run on, time passes, and a module that stays     *)
(* reports, executes and ends what it runs; of its calibrations one in the *)
(* end gives a fit, again and again before it is too old.                  *)
FairSpec ==
    /\ Spec
    /\ WF_vars(Engine)
    /\ WF_vars(\E t \in Callers : Submits(t))
    /\ WF_vars(IntervalPasses)
    /\ \A m \in Modules : WF_vars(Reports(m)) /\ SF_vars(Finishes(m, TRUE))
    /\ WF_vars(\E i \in Slots : Executes(i))

-----------------------------------------------------------------------------
TypeOK ==
    /\ sess \in [Modules -> {"up", "gone"}]
    /\ seen \in [Modules -> [mode: {Unknown, "BRIDGE", "ENDPOINT"},
                             state: {Unknown, "idle", "running"}]]
    /\ dev \in [Modules -> [mode: {"BRIDGE", "ENDPOINT"}, run: Slots \union {0},
                            type: Runs \union {"none"}]]
    /\ cal \in [Modules -> {"none", "fresh", "old"}]
    /\ cmd \in [Slots -> [st: {"deferred", "sent", "running", "stuck", "done"},
                          m: Modules \union {"none"}, type: Types \union {"none"},
                          by: {"scheduler", "api"}, told: BOOLEAN]]
    /\ idem \subseteq Keys
    /\ thr \in [Threads -> [pc: {"idle", "asking"}, m: Modules \union {"none"},
                            type: Types \union {"none"}, key: Keys \union {NoKey},
                            late: BOOLEAN]]
    /\ pending \in [Modules -> Slots \union {0}]
    /\ {asked, todo, missed} \subseteq SUBSET Modules
    /\ due \in BOOLEAN
    /\ {made, excused} \subseteq [Keys -> Nat]

(* The scheduler never has two commands open at one module that it was     *)
(* told of, whatever callers, redials, lost sessions and restarts come     *)
(* between its ticks, and even one whose submission raised is never a      *)
(* sample of a module that was never calibrated (scheduler.py:7-9, 84-90). *)
Disciplined ==
    /\ TypeOK
    /\ \A i, j \in Open : (/\ cmd[i].by = "scheduler" /\ cmd[i].told
                           /\ cmd[j].by = "scheduler" /\ cmd[j].told
                           /\ cmd[i].m = cmd[j].m) => i = j
    /\ \A i \in Open : (cmd[i].by = "scheduler" /\ cmd[i].type = "sample")
                            => cal[cmd[i].m] # "none"

(* Under one idempotency key a call stores one command, and one more for   *)
(* each time that the gateway could not know the answer: it was evicted or *)
(* forgotten by a restart, the call raised after it had stored, or began   *)
(* while another one was under way (commands.py:98-116).  Every retry      *)
(* beyond those is answered from memory, in any order of calls, failures,  *)
(* evictions and restarts.                                                 *)
RetryIsSafe == \A k \in Keys : made[k] <= 1 + excused[k]

(* "Idempotency keys make retries safe", "so a retried command cannot run  *)
(* twice" (docs/agent-interface.md:53, 87): what the doc says of the code. *)
NeverTwice == \A k \in Keys : made[k] <= 1

Sampled ==
    \E i \in Slots : /\ cmd[i].by = "scheduler" /\ cmd[i].type = "sample"
                     /\ cmd[i].st \in {"sent", "running"}

Stays(m) == sess[m] = "up" /\ m \notin missed /\ cal[m] # "old"

(* "The moment a module is adopted into a role, the role's cadence resumes *)
(* against it" (scheduler.py:1-4): a module that stays, whatever redials,  *)
(* restarts, lost commands, cancels, foreign runs and calls that raised    *)
(* came before, is brought to ENDPOINT, calibrated and sampled on and on   *)
(* (<>[]Stays => []<>Sampled, in the form TLC checks at the least cost).   *)
(* Three excuses: it came back in BRIDGE between two ticks, the one        *)
(* request for control raised, and its calibration is too old before the   *)
(* sample is due.                                                          *)
CadenceResumes == \A m \in Modules : []<>(Stays(m) => Sampled)

(* The same without the first two: what the doc says of the code.          *)
AlwaysResumes ==
    \A m \in Modules : []<>((sess[m] = "up" /\ cal[m] # "old") => Sampled)

=============================================================================
