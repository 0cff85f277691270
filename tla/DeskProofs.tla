------------------------------- MODULE DeskProofs -------------------------------
(***************************************************************************)
(* The scheduler and the idempotency keys of the gateway, for any number   *)
(* of modules, callers, keys and commands, and any number of redials and   *)
(* restarts, of the hub too, and of calls that raise: the scheduler has at *)
(* most one command open at a module that it was told of, and never        *)
(* samples without a calibration; and under one key a call stores one      *)
(* command, and one more for each time the gateway lost the answer.        *)
(***************************************************************************)
EXTENDS Desk, TLAPS

(* An open command, and a caller who asks, name a module. *)
Meant ==
    /\ \A i \in Slots : cmd[i].st # "done" => cmd[i].m \in Modules
    /\ \A t \in Threads : thr[t].pc = "asking" => thr[t].m \in Modules /\ thr[t].type \in Types

(* What the scheduler has open and was told of is what it remembers, at a  *)
(* module that is there, and a sample has a calibration behind it.         *)
Own ==
    /\ \A i \in Slots :
        (cmd[i].st # "done" /\ cmd[i].by = "scheduler") =>
            /\ cmd[i].st \in {"sent", "running"}
            /\ cmd[i].told => pending[cmd[i].m] = i /\ sess[cmd[i].m] = "up"
            /\ cmd[i].type = "sample" => cal[cmd[i].m] # "none"
    /\ thr[Scheduler].key = NoKey
    /\ thr[Scheduler].pc = "asking" =>
            /\ pending[thr[Scheduler].m] = 0
            /\ thr[Scheduler].type = "sample" => cal[thr[Scheduler].m] # "none"

Asking(t, k) == thr[t].pc = "asking" /\ thr[t].key = k

(* A call that found nobody else asking under its key. *)
Prompt(t, k) == Asking(t, k) /\ ~thr[t].late

(* What one key may be worth: while its answer is not remembered, or a     *)
(* prompt call is about to store one, nothing has been stored that is not  *)
(* excused; and one call at a time is prompt.                              *)
Worth(k) ==
    /\ made[k] <= 1 + excused[k]
    /\ (k \notin idem \/ \E t \in Callers : Prompt(t, k)) => made[k] <= excused[k]
    /\ \A t, u \in Callers : Prompt(t, k) /\ Prompt(u, k) => t = u
Keyed == \A k \in Keys : Worth(k)

DevRec == [mode: {"BRIDGE", "ENDPOINT"}, run: Slots \union {0}, type: Runs \union {"none"}]
CmdRec == [st: {"deferred", "sent", "running", "stuck", "done"},
           m: Modules \union {"none"}, type: Types \union {"none"},
           by: {"scheduler", "api"}, told: BOOLEAN]
ThrRec == [pc: {"idle", "asking"}, m: Modules \union {"none"}, type: Types \union {"none"},
           key: Keys \union {NoKey}, late: BOOLEAN]

(* TypeOK without the one flag: a lemma of its own. *)
Fields ==
    /\ sess \in [Modules -> {"up", "gone"}]
    /\ seen \in [Modules -> [mode: {Unknown, "BRIDGE", "ENDPOINT"},
                             state: {Unknown, "idle", "running"}]]
    /\ dev \in [Modules -> DevRec]
    /\ cal \in [Modules -> {"none", "fresh", "old"}]
Cmds == cmd \in [Slots -> CmdRec]
Asks ==
    /\ thr \in [Threads -> ThrRec]
    /\ idem \subseteq Keys
    /\ made \in [Keys -> Nat]
    /\ excused \in [Keys -> Nat]
Sched ==
    /\ pending \in [Modules -> Slots \union {0}]
    /\ asked \subseteq Modules
    /\ todo \subseteq Modules
    /\ missed \subseteq Modules

Typed == Fields /\ Cmds /\ Asks /\ Sched
Inv == Typed /\ Meant /\ Own /\ Keyed

DueOK == due \in BOOLEAN

LEMMA DueStep == DueOK /\ [Next]_vars => DueOK'
<1>. SUFFICES ASSUME due \in BOOLEAN, [Next]_vars PROVE due' \in BOOLEAN
  BY DEF DueOK
<1>1. CASE UNCHANGED vars
  BY <1>1 DEF vars, schedVars
<1>2. ASSUME NEW m \in Modules, Visits(m) PROVE due' \in BOOLEAN
  <2>1. due' = due \/ due' = FALSE
    BY <1>2 DEF Visits
  <2>. QED BY <2>1
<1>3. CASE Tick
  BY <1>3 DEF Tick
<1>4. CASE Schedules
  BY <1>4 DEF Schedules
<1>5. CASE IntervalPasses
  BY <1>5 DEF IntervalPasses
<1>6. ASSUME NEW m \in Modules, Adopted(m) \/ SessionEnds(m) \/ Reports(m) \/ CalibrationAges(m)
      PROVE due' \in BOOLEAN
  BY <1>6 DEF Adopted, SessionEnds, Reports, CalibrationAges, schedVars
<1>7. ASSUME NEW m \in Modules, NEW fits \in BOOLEAN, Finishes(m, fits)
      PROVE due' \in BOOLEAN
  BY <1>7 DEF Finishes, schedVars
<1>8. ASSUME NEW i \in Slots, Executes(i) \/ Decided(i) PROVE due' \in BOOLEAN
  BY <1>8 DEF Executes, Decided, schedVars
<1>9. ASSUME NEW t \in Callers, Submits(t) \/ SubmitRaises(t) \/ Calls(t) \/ Cancels(t)
      PROVE due' \in BOOLEAN
  BY <1>9 DEF Submits, SubmitRaises, Calls, Cancels, schedVars
<1>10. ASSUME NEW k \in Keys, Evicted(k) PROVE due' \in BOOLEAN
  BY <1>10 DEF Evicted, schedVars
<1>11. CASE ScheduleRaises \/ PassFails \/ HubRestart
  BY <1>11 DEF ScheduleRaises, PassFails, HubRestart
<1>. QED BY <1>1, <1>2, <1>3, <1>4, <1>5, <1>6, <1>7, <1>8, <1>9, <1>10, <1>11 DEF Next, Engine

LEMMA RecordsAreTyped ==
    /\ Resting \in ThrRec /\ Resting.pc = "idle" /\ Resting.key = NoKey
    /\ Unused \in CmdRec /\ Unused.st = "done"
    /\ Restarted \in DevRec
    /\ \A m \in Modules : Stuck(m) \in CmdRec /\ Stuck(m).st = "stuck" /\ Stuck(m).m = m
                          /\ Stuck(m).by = "api" /\ ~Stuck(m).told
  BY DEF Resting, ThrRec, Unused, CmdRec, Restarted, DevRec, Stuck

LEMMA InitInv == Init => Inv /\ DueOK
<1>. SUFFICES ASSUME Init PROVE Inv /\ DueOK
  OBVIOUS
<1>1. Scheduler \in Threads
  BY DEF Threads
<1>2. Fields
  BY RecordsAreTyped DEF Init, Fields, Unknown
<1>3. Cmds
  BY RecordsAreTyped DEF Init, Cmds
<1>4. Asks /\ Sched
  BY RecordsAreTyped DEF Init, Asks, Sched
<1>5. Meant /\ Own
  BY <1>1, RecordsAreTyped DEF Init, Meant, Own
<1>6. Keyed
  BY RecordsAreTyped DEF Init, Keyed, Worth, Prompt, Asking, Threads
<1>. QED BY <1>2, <1>3, <1>4, <1>5, <1>6 DEF Inv, Typed, Init, DueOK

-----------------------------------------------------------------------------
(* Steps of the field leave the callers and their keys alone. *)
LEMMA KeysStand ==
    ASSUME Inv, UNCHANGED <<thr, idem, made, excused>>
    PROVE  Asks' /\ Keyed'
  BY DEF Inv, Typed, Asks, Keyed, Worth, Prompt, Asking

LEMMA AdoptedKeeps ==
    ASSUME Inv, NEW m \in Modules, Adopted(m) PROVE Inv'
<1>1. UNCHANGED <<seen, dev, cal, cmd, idem, thr, made, excused, pending, asked, todo>>
      /\ sess' = [sess EXCEPT ![m] = "up"] /\ missed' \subseteq missed
  BY DEF Adopted, schedVars
<1>2. Fields' /\ Cmds' /\ Sched'
  BY <1>1 DEF Inv, Typed, Fields, Cmds, Sched
<1>3. Meant' /\ Own'
  BY <1>1 DEF Inv, Typed, Fields, Meant, Own
<1>. QED BY <1>1, <1>2, <1>3, KeysStand DEF Inv, Typed

(* The session takes its commands with it, the scheduler's too. *)
LEMMA SessionEndsKeeps ==
    ASSUME Inv, NEW m \in Modules, SessionEnds(m) PROVE Inv'
<1>1. /\ sess' = [sess EXCEPT ![m] = "gone"]
      /\ cmd' = [i \in Slots |-> IF cmd[i].m = m /\ cmd[i].st \in {"sent", "running"}
                                 THEN Unused ELSE cmd[i]]
      /\ seen' = [seen EXCEPT ![m] = [mode |-> Unknown, state |-> Unknown]]
      /\ todo' = todo \ {m} /\ missed' = missed \union {m}
      /\ dev' = dev \/ dev' = [dev EXCEPT ![m] = Restarted]
      /\ UNCHANGED <<cal, idem, thr, pending, asked, made, excused>>
  BY DEF SessionEnds
<1>2. Fields'
  BY <1>1, RecordsAreTyped DEF Inv, Typed, Fields
<1>4. Cmds' /\ Sched'
  BY <1>1, RecordsAreTyped DEF Inv, Typed, Cmds, Sched
<1>5. \A i \in Slots : cmd'[i].st # "done" =>
            cmd'[i] = cmd[i] /\ (cmd[i].st \in {"sent", "running"} => cmd[i].m # m)
  BY <1>1, RecordsAreTyped
<1>6. Meant'
  BY <1>1, <1>5 DEF Inv, Meant
<1>7. Own'
  BY <1>1, <1>5 DEF Inv, Typed, Fields, Meant, Own
<1>. QED BY <1>1, <1>2, <1>4, <1>6, <1>7, KeysStand DEF Inv, Typed

LEMMA ReportsKeeps ==
    ASSUME Inv, NEW m \in Modules, Reports(m) PROVE Inv'
<1>1. /\ seen' = [seen EXCEPT ![m] = [mode |-> dev[m].mode, state |-> StateOf(dev[m])]]
      /\ UNCHANGED <<sess, dev, cal, cmd, idem, thr, pending, asked, todo, missed, made, excused>>
  BY DEF Reports, schedVars, watchVars
<1>2. Fields' /\ Cmds' /\ Sched'
  <2>1. /\ dev[m].mode \in {"BRIDGE", "ENDPOINT"} /\ StateOf(dev[m]) \in {"idle", "running"}
    BY DEF Inv, Typed, Fields, DevRec, StateOf
  <2>. QED BY <1>1, <2>1 DEF Inv, Typed, Fields, Cmds, Sched
<1>3. Meant' /\ Own'
  BY <1>1 DEF Inv, Meant, Own
<1>. QED BY <1>1, <1>2, <1>3, KeysStand DEF Inv, Typed

LEMMA AgesKeeps ==
    ASSUME Inv, NEW m \in Modules, CalibrationAges(m) PROVE Inv'
<1>1. /\ cal' = [cal EXCEPT ![m] = "old"]
      /\ UNCHANGED <<sess, seen, dev, cmd, idem, thr, pending, asked, todo, missed, made, excused>>
  BY DEF CalibrationAges, schedVars, watchVars
<1>2. Fields' /\ Cmds' /\ Sched'
  BY <1>1 DEF Inv, Typed, Fields, Cmds, Sched
<1>3. Meant' /\ Own'
  BY <1>1 DEF Inv, Typed, Fields, Meant, Own
<1>. QED BY <1>1, <1>2, <1>3, KeysStand DEF Inv, Typed

(* Commands that only end or move on are still the scheduler's own. *)
LEMMA CommandsEnd ==
    ASSUME Inv, Cmds',
           \A i \in Slots : cmd'[i].st # "done" =>
                /\ cmd[i].st # "done"
                /\ cmd'[i].m = cmd[i].m /\ cmd'[i].type = cmd[i].type
                /\ cmd'[i].by = cmd[i].by /\ cmd'[i].told = cmd[i].told
                /\ cmd'[i].st = cmd[i].st \/ cmd'[i].st = "running"
                   \/ (cmd[i].st = "deferred" /\ cmd'[i].st = "sent"),
           \A m \in Modules : cal[m] # "none" => cal'[m] # "none",
           UNCHANGED <<sess, pending, thr>>
    PROVE  Meant' /\ Own'
<1>1. Meant'
  BY DEF Inv, Meant
<1>2. Scheduler \in Threads
  BY DEF Threads
<1>3. Own'
  BY <1>2 DEF Inv, Meant, Own
<1>. QED BY <1>1, <1>3

LEMMA ExecutesKeeps ==
    ASSUME Inv, NEW i \in Slots, Executes(i) PROVE Inv'
<1>1. cmd[i].st = "sent" /\ cmd[i].m \in Modules
      /\ UNCHANGED <<sess, cal, idem, thr, pending, asked, todo, missed, made, excused>>
  BY DEF Executes, schedVars, watchVars, Inv, Meant
<1>2. PICK m \in Modules : m = cmd[i].m
  BY <1>1
<1>3. \/ UNCHANGED <<dev, seen>>
      \/ \E nd \in DevRec :
            /\ dev' = [dev EXCEPT ![m] = nd]
            /\ seen' = [seen EXCEPT ![m] = [mode |-> nd.mode, state |-> StateOf(nd)]]
  <2>1. dev[m] \in DevRec
    BY DEF Inv, Typed, Fields
  <2>2. /\ [dev[m] EXCEPT !.mode = "ENDPOINT"] \in DevRec
        /\ \A type \in Runs : [dev[m] EXCEPT !.run = i, !.type = type] \in DevRec
        /\ [dev[m] EXCEPT !.run = 0, !.type = "none"] \in DevRec
    BY <2>1 DEF DevRec
  <2>. HIDE DEF DevRec
  <2>. QED BY <1>2, <2>2 DEF Executes
<1>4. Fields'
  <2>1. CASE UNCHANGED <<dev, seen>>
    BY <1>1, <2>1 DEF Inv, Typed, Fields
  <2>2. ASSUME NEW nd \in DevRec,
               dev' = [dev EXCEPT ![m] = nd],
               seen' = [seen EXCEPT ![m] = [mode |-> nd.mode, state |-> StateOf(nd)]]
        PROVE  Fields'
    <3>1. StateOf(nd) \in {"idle", "running"} /\ nd.mode \in {"BRIDGE", "ENDPOINT"}
      BY DEF StateOf, DevRec
    <3>2. [mode |-> nd.mode, state |-> StateOf(nd)]
              \in [mode: {Unknown, "BRIDGE", "ENDPOINT"}, state: {Unknown, "idle", "running"}]
      BY <3>1
    <3>. QED BY <1>1, <2>2, <3>2 DEF Inv, Typed, Fields
  <2>. QED BY <1>3, <2>1, <2>2
<1>5. \/ cmd' = [cmd EXCEPT ![i] = Unused]
      \/ cmd' = [cmd EXCEPT ![i].st = "running"]
      \/ cmd' = [j \in Slots |-> IF j \in {i, dev[m].run} THEN Unused ELSE cmd[j]]
  BY <1>2 DEF Executes, Ended
<1>6. Cmds'
  BY <1>5, RecordsAreTyped DEF Inv, Typed, Cmds, CmdRec
<1>7. \A j \in Slots : cmd'[j].st # "done" =>
            /\ cmd[j].st # "done"
            /\ cmd'[j].m = cmd[j].m /\ cmd'[j].type = cmd[j].type /\ cmd'[j].by = cmd[j].by
            /\ cmd'[j].told = cmd[j].told
            /\ cmd'[j].st = cmd[j].st \/ cmd'[j].st = "running"
  BY <1>1, <1>5 DEF Unused, Inv, Typed, Cmds, CmdRec
<1>8. Meant' /\ Own'
  BY <1>1, <1>6, <1>7, CommandsEnd
<1>9. Sched'
  BY <1>1 DEF Inv, Typed, Sched
<1>. QED BY <1>1, <1>4, <1>6, <1>8, <1>9, KeysStand DEF Inv, Typed

(* A run that ends may leave a calibration, and never takes one away. *)
LEMMA FinishesKeeps ==
    ASSUME Inv, NEW m \in Modules, NEW fits \in BOOLEAN, Finishes(m, fits) PROVE Inv'
<1>1. PICK i \in Slots : i = dev[m].run
  BY DEF Finishes, Inv, Typed, Fields, DevRec
<1>2. /\ dev' = [dev EXCEPT ![m] = [@ EXCEPT !.run = 0, !.type = "none"]]
      /\ cmd' = [cmd EXCEPT ![i] = Unused] \/ cmd' = cmd
      /\ cal' = cal \/ cal' = [cal EXCEPT ![m] = "fresh"]
      /\ seen' = seen \/ seen' = [seen EXCEPT ![m] = [mode |-> dev[m].mode, state |-> "idle"]]
      /\ UNCHANGED <<sess, idem, thr, pending, asked, todo, missed, made, excused>>
  BY <1>1 DEF Finishes, Ended, schedVars, watchVars
<1>4. Fields'
  <2>1. dev[m] \in DevRec
    BY DEF Inv, Typed, Fields
  <2>2. [dev[m] EXCEPT !.run = 0, !.type = "none"] \in DevRec /\ dev[m].mode \in {"BRIDGE", "ENDPOINT"}
    BY <2>1 DEF DevRec
  <2>3. dev' \in [Modules -> DevRec]
    BY <1>2, <2>2 DEF Inv, Typed, Fields
  <2>4. seen' \in [Modules -> [mode: {Unknown, "BRIDGE", "ENDPOINT"},
                               state: {Unknown, "idle", "running"}]]
    BY <1>2, <2>2 DEF Inv, Typed, Fields
  <2>. QED BY <1>2, <2>3, <2>4 DEF Inv, Typed, Fields
<1>5. Cmds' /\ Sched'
  BY <1>2, RecordsAreTyped DEF Inv, Typed, Cmds, Sched
<1>6. \A j \in Slots : cmd'[j].st # "done" => cmd'[j] = cmd[j] /\ cmd[j].st # "done"
  BY <1>2 DEF Unused, Inv, Typed, Cmds, CmdRec
<1>7. \A n \in Modules : cal[n] # "none" => cal'[n] # "none"
  BY <1>2 DEF Inv, Typed, Fields
<1>8. Meant' /\ Own'
  BY <1>2, <1>5, <1>6, <1>7, CommandsEnd
<1>. QED BY <1>2, <1>4, <1>5, <1>8, KeysStand DEF Inv, Typed

LEMMA DecidedKeeps ==
    ASSUME Inv, NEW i \in Slots, Decided(i) PROVE Inv'
<1>1. /\ cmd[i].st = "deferred"
      /\ cmd' = [cmd EXCEPT ![i] = Unused] \/ cmd' = [cmd EXCEPT ![i].st = "sent"]
      /\ UNCHANGED <<sess, seen, dev, cal, idem, thr, pending, asked, todo, missed, made, excused>>
  BY DEF Decided, Ended, fieldVars, schedVars, watchVars
<1>2. Fields' /\ Sched'
  BY <1>1 DEF Inv, Typed, Fields, Sched
<1>3. Cmds'
  BY <1>1, RecordsAreTyped DEF Inv, Typed, Cmds, CmdRec
<1>4. \A j \in Slots : cmd'[j].st # "done" =>
            /\ cmd[j].st # "done"
            /\ cmd'[j].m = cmd[j].m /\ cmd'[j].type = cmd[j].type /\ cmd'[j].by = cmd[j].by
            /\ cmd'[j].told = cmd[j].told
            /\ cmd'[j].st = cmd[j].st \/ (cmd[j].st = "deferred" /\ cmd'[j].st = "sent")
  BY <1>1 DEF Unused, Inv, Typed, Cmds, CmdRec
<1>5. Meant' /\ Own'
  BY <1>1, <1>3, <1>4, CommandsEnd
<1>. QED BY <1>1, <1>2, <1>3, <1>5, KeysStand DEF Inv, Typed

-----------------------------------------------------------------------------
(* A command is stored in a slot nobody remembers; one that is stuck is    *)
(* nobody's.                                                               *)
LEMMA Stored ==
    ASSUME Inv, NEW t \in Threads, NEW i \in Slots, thr[t].pc = "asking",
           \/ \E st \in Ways(t), told \in BOOLEAN : Stores(t, i, st, told)
           \/ Strands(t, i)
    PROVE  /\ Cmds'
           /\ cmd[i].st \in {"done", "stuck"}
           /\ \A j \in Slots \ {i} : cmd'[j] = cmd[j]
           /\ cmd'[i].m = thr[t].m /\ thr[t].m \in Modules /\ sess[thr[t].m] = "up"
           /\ \/ cmd'[i].by = "api"
              \/ t = Scheduler /\ cmd'[i].st = "sent" /\ cmd'[i].type = thr[t].type
<1>1. sess[thr[t].m] = "up" /\ i \in Free
  BY DEF Stores, Strands, Fresh
<1>2. cmd[i].st \in {"done", "stuck"}
  BY <1>1 DEF Free, InUse
<1>3. thr[t].m \in Modules /\ thr[t].type \in Types
  BY DEF Inv, Meant
<1>4. PICK c \in CmdRec :
        /\ cmd' = [cmd EXCEPT ![i] = c]
        /\ c.m = thr[t].m
        /\ \/ c.by = "api"
           \/ t = Scheduler /\ c.st = "sent" /\ c.type = thr[t].type
  <2>1. CASE Strands(t, i)
    BY <1>3, <2>1, RecordsAreTyped DEF Strands
  <2>2. ASSUME NEW st \in Ways(t), NEW told \in BOOLEAN, Stores(t, i, st, told)
        PROVE  \E c \in CmdRec :
                    /\ cmd' = [cmd EXCEPT ![i] = c]
                    /\ c.m = thr[t].m
                    /\ \/ c.by = "api"
                       \/ t = Scheduler /\ c.st = "sent" /\ c.type = thr[t].type
    <3> DEFINE c == [st |-> st, m |-> thr[t].m, type |-> thr[t].type,
                     by |-> Actor(t), told |-> told]
    <3>1. st \in {"sent", "deferred"} /\ (t = Scheduler => st = "sent")
      BY DEF Ways
    <3>2. Actor(t) = "api" \/ (Actor(t) = "scheduler" /\ t = Scheduler)
      BY DEF Actor
    <3>3. c \in CmdRec /\ c.m = thr[t].m /\ c.by = Actor(t) /\ c.st = st /\ c.type = thr[t].type
      BY <1>3, <3>1, <3>2 DEF CmdRec
    <3>4. cmd' = [cmd EXCEPT ![i] = c]
      BY <2>2 DEF Stores
    <3>. HIDE DEF c
    <3>. QED BY <3>1, <3>2, <3>3, <3>4
  <2>. QED BY <2>1, <2>2
<1>5. cmd'[i] = c /\ \A j \in Slots \ {i} : cmd'[j] = cmd[j]
  BY <1>4 DEF Inv, Typed, Cmds
<1>6. Cmds'
  BY <1>4 DEF Inv, Typed, Cmds
<1>. QED BY <1>1, <1>2, <1>3, <1>4, <1>5, <1>6

(* A caller comes to rest, and no command of the scheduler's is touched. *)
LEMMA RestsKeeps ==
    ASSUME Inv, NEW t \in Callers, Rests(t), thr[t].pc = "asking",
           \/ cmd' = cmd
           \/ \E i \in Slots : \/ \E st \in Ways(t), told \in BOOLEAN : Stores(t, i, st, told)
                              \/ Strands(t, i),
           UNCHANGED <<fieldVars, pending, asked, todo, missed>>
    PROVE  /\ Fields' /\ Cmds' /\ Sched' /\ Meant' /\ Own'
           /\ thr' \in [Threads -> ThrRec]
           /\ \A u \in Callers, k \in Keys : Prompt(u, k)' => u # t /\ Prompt(u, k)
<1>1. t \in Threads /\ t # Scheduler /\ Scheduler \in Threads /\ NoKey \notin Keys
  BY DeskAssumption DEF Threads
<1>2. /\ thr'[t] = Resting
      /\ \A u \in Threads \ {t} : thr'[u] = thr[u]
      /\ thr' \in [Threads -> ThrRec]
  BY <1>1, RecordsAreTyped DEF Rests, Inv, Typed, Asks
<1>3. Fields' /\ Sched'
  BY DEF Inv, Typed, Fields, Sched, fieldVars
<1>4. Cmds' /\ Meant' /\ Own'
  <2>1. ASSUME NEW i \in Slots,
               \/ \E st \in Ways(t), told \in BOOLEAN : Stores(t, i, st, told)
               \/ Strands(t, i)
        PROVE Cmds' /\ Meant' /\ Own'
    <3>1. /\ Cmds'
          /\ cmd[i].st \in {"done", "stuck"}
          /\ \A j \in Slots \ {i} : cmd'[j] = cmd[j]
          /\ cmd'[i].m \in Modules /\ cmd'[i].by = "api"
      BY <1>1, <2>1, Stored
    <3>2. Meant'
      BY <1>1, <1>2, <3>1, RecordsAreTyped DEF Inv, Meant
    <3>3. Own'
      BY <1>1, <1>2, <3>1 DEF Inv, Own, fieldVars
    <3>. QED BY <3>1, <3>2, <3>3
  <2>2. CASE cmd' = cmd
    BY <1>1, <1>2, <2>2, RecordsAreTyped DEF Inv, Typed, Cmds, Meant, Own, fieldVars
  <2>. QED BY <2>1, <2>2
<1>5. \A u \in Callers, k \in Keys : Prompt(u, k)' => u # t /\ Prompt(u, k)
  BY <1>1, <1>2, RecordsAreTyped DEF Prompt, Asking, Threads
<1>. QED BY <1>2, <1>3, <1>4, <1>5

LEMMA CountsAre ==
    ASSUME NEW f \in [Keys -> Nat], NEW k \in Keys \union {NoKey}
    PROVE  /\ Counts(f, k) \in [Keys -> Nat]
           /\ \A j \in Keys : Counts(f, k)[j] = IF j = k THEN f[j] + 1 ELSE f[j]
  BY DeskAssumption DEF Counts

(* submit() of a request: a prompt call that stores one is remembered in   *)
(* the same step, and one that is not prompt is excused.                   *)
LEMMA SubmitsKeeps ==
    ASSUME Inv, NEW t \in Callers, Submits(t) PROVE Inv'
<1>1. t \in Threads
  BY DEF Threads
<1> DEFINE q == thr[t].key
<1>2. /\ thr[t].pc = "asking"
      /\ Rests(t)
      /\ idem' = IF q = NoKey THEN idem ELSE idem \union {q}
      /\ \/ /\ \E i \in Slots, st \in Ways(t) : Stores(t, i, st, TRUE)
            /\ made' = Counts(made, q)
            /\ excused' = IF thr[t].late THEN Counts(excused, q) ELSE excused
         \/ UNCHANGED <<cmd, made, excused>>
      /\ UNCHANGED <<fieldVars, pending, asked, todo, missed>>
  BY DEF Submits, Remembers, schedVars
<1>3. q \in Keys \union {NoKey} /\ thr[t].late \in BOOLEAN
  BY <1>1 DEF Inv, Typed, Asks, ThrRec
<1>4. made \in [Keys -> Nat] /\ excused \in [Keys -> Nat] /\ NoKey \notin Keys
  BY DeskAssumption DEF Inv, Typed, Asks
<1>5. /\ Fields' /\ Cmds' /\ Sched' /\ Meant' /\ Own'
      /\ thr' \in [Threads -> ThrRec]
      /\ \A u \in Callers, k \in Keys : Prompt(u, k)' => u # t /\ Prompt(u, k)
  BY <1>2, RestsKeeps
<1>. HIDE DEF q
<1>6. /\ Counts(made, q) \in [Keys -> Nat] /\ Counts(excused, q) \in [Keys -> Nat]
      /\ \A j \in Keys : Counts(made, q)[j] = IF j = q THEN made[j] + 1 ELSE made[j]
      /\ \A j \in Keys : Counts(excused, q)[j] = IF j = q THEN excused[j] + 1 ELSE excused[j]
  BY <1>3, <1>4, CountsAre
<1>7. Asks'
  BY <1>2, <1>3, <1>5, <1>6 DEF Inv, Typed, Asks
<1>8. ASSUME NEW k \in Keys PROVE Worth(k)'
  <2>1. Worth(k) /\ made[k] \in Nat /\ excused[k] \in Nat
    BY <1>4 DEF Inv, Keyed
  <2>2. \A u, v \in Callers : Prompt(u, k)' /\ Prompt(v, k)' => u = v
    BY <1>5, <2>1 DEF Worth
  <2>3. (\E u \in Callers : Prompt(u, k)') => (\E u \in Callers : Prompt(u, k)) /\ ~Prompt(t, k)
    BY <1>5, <2>1 DEF Worth
  <2>4. CASE k = q
    <3>1. k \in idem'
      BY <1>2, <1>4, <2>4
    <3>2. \/ made'[k] = made[k] + 1 /\ excused'[k] = IF thr[t].late THEN excused[k] + 1 ELSE excused[k]
          \/ made'[k] = made[k] /\ excused'[k] = excused[k]
      BY <1>2, <1>6, <2>4
    <3>3. Prompt(t, k) <=> ~thr[t].late
      BY <1>2, <2>4 DEF Prompt, Asking, q
    <3>4. made'[k] <= 1 + excused'[k]
      BY <1>3, <2>1, <3>2, <3>3 DEF Worth
    <3>5. (\E u \in Callers : Prompt(u, k)') => made'[k] <= excused'[k]
      BY <1>3, <2>1, <2>3, <3>2, <3>3 DEF Worth
    <3>. QED BY <2>2, <3>1, <3>4, <3>5 DEF Worth
  <2>5. CASE k # q
    <3>1. made'[k] = made[k] /\ excused'[k] = excused[k] /\ (k \in idem' <=> k \in idem)
      BY <1>2, <1>6, <2>5
    <3>. QED BY <2>1, <2>2, <2>3, <3>1 DEF Worth
  <2>. QED BY <2>4, <2>5
<1>. QED BY <1>5, <1>7, <1>8 DEF Inv, Typed, Keyed

(* What a call that raises has stored is excused in the same step. *)
LEMMA SubmitRaisesKeeps ==
    ASSUME Inv, NEW t \in Callers, SubmitRaises(t) PROVE Inv'
<1>1. t \in Threads
  BY DEF Threads
<1> DEFINE q == thr[t].key
<1>2. /\ thr[t].pc = "asking"
      /\ Rests(t)
      /\ idem' = idem
      /\ \/ Strays(t) /\ made' = Counts(made, q) /\ excused' = Counts(excused, q)
         \/ UNCHANGED <<cmd, made, excused>>
      /\ UNCHANGED <<fieldVars, pending, asked, todo, missed>>
  BY DEF SubmitRaises, Raises, schedVars
<1>3. q \in Keys \union {NoKey}
  BY <1>1 DEF Inv, Typed, Asks, ThrRec
<1>4. made \in [Keys -> Nat] /\ excused \in [Keys -> Nat]
  BY DEF Inv, Typed, Asks
<1>5. /\ Fields' /\ Cmds' /\ Sched' /\ Meant' /\ Own'
      /\ thr' \in [Threads -> ThrRec]
      /\ \A u \in Callers, k \in Keys : Prompt(u, k)' => u # t /\ Prompt(u, k)
  BY <1>2, RestsKeeps DEF Strays
<1>. HIDE DEF q
<1>6. /\ Counts(made, q) \in [Keys -> Nat] /\ Counts(excused, q) \in [Keys -> Nat]
      /\ \A j \in Keys : Counts(made, q)[j] = IF j = q THEN made[j] + 1 ELSE made[j]
      /\ \A j \in Keys : Counts(excused, q)[j] = IF j = q THEN excused[j] + 1 ELSE excused[j]
  BY <1>3, <1>4, CountsAre
<1>7. Asks'
  BY <1>2, <1>5, <1>6 DEF Inv, Typed, Asks
<1>8. ASSUME NEW k \in Keys PROVE Worth(k)'
  <2>1. Worth(k) /\ made[k] \in Nat /\ excused[k] \in Nat
    BY <1>4 DEF Inv, Keyed
  <2>2. \/ made'[k] = made[k] + 1 /\ excused'[k] = excused[k] + 1
        \/ made'[k] = made[k] /\ excused'[k] = excused[k]
    BY <1>2, <1>6
  <2>3. \A u \in Callers : Prompt(u, k)' => Prompt(u, k)
    BY <1>5
  <2>. QED BY <1>2, <2>1, <2>2, <2>3 DEF Worth
<1>. QED BY <1>5, <1>7, <1>8 DEF Inv, Typed, Keyed

(* A caller begins to ask: prompt if nobody else does under its key. *)
LEMMA AsksKeeps ==
    ASSUME Inv, NEW t \in Callers,
           NEW m \in Modules, NEW type \in Types, NEW k \in Keys \union {NoKey},
           NEW late \in BOOLEAN,
           thr' = [thr EXCEPT ![t] = [pc |-> "asking", m |-> m, type |-> type, key |-> k,
                                      late |-> late]],
           k # NoKey => k \notin idem /\ late = Overlaps(k),
           UNCHANGED <<fieldVars, cmd, idem, pending, asked, todo, missed, made, excused>>
    PROVE  Inv'
<1>1. t \in Threads /\ t # Scheduler /\ Scheduler \in Threads /\ NoKey \notin Keys
  BY DeskAssumption DEF Threads
<1> DEFINE q == [pc |-> "asking", m |-> m, type |-> type, key |-> k, late |-> late]
<1>2. q \in ThrRec
      /\ q.m \in Modules /\ q.type \in Types /\ q.pc = "asking" /\ q.key = k /\ q.late = late
  BY DEF ThrRec
<1>. HIDE DEF q
<1>3. thr' = [thr EXCEPT ![t] = q]
  BY DEF q
<1>4. /\ thr' \in [Threads -> ThrRec]
      /\ thr'[t] = q /\ \A u \in Threads \ {t} : thr'[u] = thr[u]
  BY <1>1, <1>2, <1>3 DEF Inv, Typed, Asks
<1>6. Fields' /\ Cmds' /\ Asks' /\ Sched'
  BY <1>4 DEF Inv, Typed, Fields, Cmds, Asks, Sched, fieldVars
<1>7. Meant' /\ Own'
  BY <1>1, <1>2, <1>4 DEF Inv, Meant, Own, fieldVars
<1>8. ASSUME NEW j \in Keys PROVE Worth(j)'
  <2>1. Worth(j)
    BY DEF Inv, Keyed
  <2>2. CASE j = k /\ ~late
    <3>1. \A u \in Callers : ~Asking(u, k)
      BY <1>1, <2>2 DEF Overlaps, Asking
    <3>2. \A u \in Callers : Prompt(u, k)' => u = t
      BY <1>4, <3>1 DEF Prompt, Asking, Threads
    <3>3. j \notin idem
      BY <1>1, <2>2
    <3>. QED BY <2>1, <2>2, <3>2, <3>3 DEF Worth
  <2>3. CASE j # k \/ late
    <3>1. \A u \in Callers : Prompt(u, j)' => Prompt(u, j)
      BY <1>2, <1>4, <2>3 DEF Prompt, Asking, Threads
    <3>. QED BY <2>1, <3>1 DEF Worth
  <2>. QED BY <2>2, <2>3
<1>. QED BY <1>6, <1>7, <1>8 DEF Inv, Typed, Keyed

LEMMA CallsKeeps ==
    ASSUME Inv, NEW t \in Callers, Calls(t) PROVE Inv'
<1>1. PICK m \in Modules, type \in CallTypes, k \in Keys :
        thr' = IF Known(k) THEN thr
               ELSE [thr EXCEPT ![t] = [pc |-> "asking", m |-> m, type |-> type,
                                        key |-> k, late |-> Overlaps(k)]]
  BY DEF Calls
<1>2. UNCHANGED <<fieldVars, cmd, idem, pending, asked, todo, missed, made, excused>>
  BY DEF Calls, schedVars, watchVars
<1>3. type \in Types /\ Overlaps(k) \in BOOLEAN
  BY DeskAssumption DEF Types, Overlaps
<1>4. CASE Known(k)
  <2>1. thr' = thr
    BY <1>1, <1>4
  <2>2. Typed' /\ Meant' /\ Own'
    BY <1>2, <2>1 DEF Inv, Typed, Fields, Cmds, Asks, Sched, Meant, Own, fieldVars
  <2>. QED BY <1>2, <2>1, <2>2, KeysStand DEF Inv
<1>5. CASE ~Known(k)
  BY <1>1, <1>2, <1>3, <1>5, AsksKeeps DEF Known
<1>. QED BY <1>4, <1>5

(* cancel() asks for an abort, without a key. *)
LEMMA CancelsKeeps ==
    ASSUME Inv, NEW t \in Callers, Cancels(t) PROVE Inv'
<1>1. PICK i \in Open :
        thr' = [thr EXCEPT ![t] = [pc |-> "asking", m |-> cmd[i].m, type |-> "abort",
                                   key |-> NoKey, late |-> FALSE]]
  BY DEF Cancels
<1>2. UNCHANGED <<fieldVars, cmd, idem, pending, asked, todo, missed, made, excused>>
  BY DEF Cancels, schedVars, watchVars
<1>3. cmd[i].m \in Modules /\ "abort" \in Types
  BY DEF Open, Inv, Meant, Types
<1>. QED BY <1>1, <1>2, <1>3, AsksKeeps

LEMMA EvictedKeeps ==
    ASSUME Inv, NEW k \in Keys, Evicted(k) PROVE Inv'
<1>1. /\ idem' = idem \ {k} /\ excused' = Counts(excused, k)
      /\ UNCHANGED <<fieldVars, cmd, thr, pending, asked, todo, made, missed>>
  BY DEF Evicted, schedVars
<1>2. made \in [Keys -> Nat] /\ excused \in [Keys -> Nat]
  BY DEF Inv, Typed, Asks
<1>3. excused' \in [Keys -> Nat]
      /\ \A j \in Keys : excused'[j] = IF j = k THEN excused[j] + 1 ELSE excused[j]
  BY <1>1, <1>2, CountsAre
<1>4. Typed' /\ Meant' /\ Own'
  BY <1>1, <1>3 DEF Inv, Typed, Fields, Cmds, Asks, Sched, Meant, Own, fieldVars
<1>5. ASSUME NEW j \in Keys PROVE Worth(j)'
  <2>1. Worth(j) /\ made[j] \in Nat /\ excused[j] \in Nat
    BY <1>2 DEF Inv, Keyed
  <2>2. \A u \in Callers : Prompt(u, j)' <=> Prompt(u, j)
    BY <1>1 DEF Prompt, Asking
  <2>. QED BY <1>1, <1>3, <2>1, <2>2 DEF Worth
<1>. QED BY <1>4, <1>5 DEF Inv, Keyed

-----------------------------------------------------------------------------
(* A module that is gone has no open command of the scheduler's, so the    *)
(* pass that forgets it forgets nothing that is open.                      *)
LEMMA TickKeeps ==
    ASSUME Inv, Tick PROVE Inv'
<1> DEFINE present == {m \in Modules : sess[m] = "up"}
<1>1. /\ thr[Scheduler] = Resting
      /\ asked' \subseteq asked /\ todo' = present /\ missed' \subseteq missed
      /\ pending' = [m \in Modules |-> IF m \in present THEN pending[m] ELSE 0]
      /\ UNCHANGED <<fieldVars, cmd, idem, thr, made, excused>>
  BY DEF Tick, StillPresent
<1>2. Fields' /\ Cmds' /\ Sched' /\ Meant'
  BY <1>1 DEF Inv, Typed, Fields, Cmds, Sched, Meant, fieldVars
<1>3. Own'
  BY <1>1, RecordsAreTyped DEF Inv, Meant, Own, fieldVars
<1>. QED BY <1>1, <1>2, <1>3, KeysStand DEF Inv, Typed

(* The scheduler asks only when nothing of its own is open at the module,  *)
(* and for a sample only after a look at the calibration.                  *)
LEMMA VisitsKeeps ==
    ASSUME Inv, NEW m \in Modules, Visits(m) PROVE Inv'
<1>1. /\ thr[Scheduler] = Resting /\ todo' = todo \ {m}
      /\ UNCHANGED <<fieldVars, cmd, idem, missed, made, excused>>
  BY DEF Visits, watchVars
<1>2. Scheduler \in Threads /\ Scheduler \notin Callers
  BY DeskAssumption DEF Threads
<1>3. CASE InFlight(m)
  <2>1. UNCHANGED <<pending, asked, thr>>
    BY <1>3 DEF Visits
  <2>2. Fields' /\ Cmds' /\ Sched' /\ Meant' /\ Own'
    BY <1>1, <2>1 DEF Inv, Typed, Fields, Cmds, Sched, Meant, Own, fieldVars
  <2>. QED BY <1>1, <2>1, <2>2, KeysStand DEF Inv, Typed
<1>4. CASE ~InFlight(m)
  <2>1. /\ pending' = [pending EXCEPT ![m] = 0] /\ asked' \subseteq asked \union {m}
        /\ \/ thr' = thr
           \/ \E type \in {"take_control", "calibrate", "sample"} :
                Wants(m, type) /\ (type = "sample" => CalValid(m))
    BY <1>4 DEF Visits
  <2>2. \A i \in Slots : (cmd[i].st # "done" /\ cmd[i].by = "scheduler" /\ cmd[i].told)
                            => cmd[i].m # m
    BY <1>4, DeskAssumption DEF InFlight, Inv, Own
  <2>3. Fields' /\ Cmds' /\ Sched'
    BY <1>1, <2>1 DEF Inv, Typed, Fields, Cmds, Sched, fieldVars
  <2>4. CASE thr' = thr
    <3>1. Meant' /\ Own'
      BY <1>1, <2>1, <2>2, <2>4, RecordsAreTyped DEF Inv, Typed, Sched, Meant, Own, fieldVars
    <3>. QED BY <1>1, <2>3, <2>4, <3>1, KeysStand DEF Inv, Typed
  <2>5. ASSUME NEW type \in {"take_control", "calibrate", "sample"},
               Wants(m, type), type = "sample" => CalValid(m)
        PROVE  Inv'
    <3> DEFINE q == [pc |-> "asking", m |-> m, type |-> type, key |-> NoKey, late |-> FALSE]
    <3>1. /\ q \in ThrRec
          /\ q.m = m /\ q.type = type /\ q.key = NoKey /\ q.pc = "asking" /\ type \in Types
      BY DEF ThrRec, Types, Runs
    <3>. HIDE DEF q
    <3>2. thr' = [thr EXCEPT ![Scheduler] = q]
      BY <2>5 DEF Wants, q
    <3>3. /\ thr' \in [Threads -> ThrRec]
          /\ thr'[Scheduler] = q /\ \A u \in Threads \ {Scheduler} : thr'[u] = thr[u]
      BY <1>2, <3>1, <3>2 DEF Inv, Typed, Asks
    <3>4. Asks'
      BY <1>1, <3>3 DEF Inv, Typed, Asks
    <3>5. Keyed'
      BY <1>1, <1>2, <3>3 DEF Inv, Keyed, Worth, Prompt, Asking, Threads
    <3>6. Meant'
      BY <1>1, <3>1, <3>3 DEF Inv, Meant
    <3>7. Own'
      <4>1. type = "sample" => cal[m] # "none"
        BY <2>5 DEF CalValid
      <4>2. \A i \in Slots : (cmd[i].st # "done" /\ cmd[i].by = "scheduler" /\ cmd[i].told) =>
                pending'[cmd[i].m] = pending[cmd[i].m]
        BY <2>1, <2>2 DEF Inv, Typed, Sched, Meant
      <4>3. pending'[m] = 0
        BY <2>1 DEF Inv, Typed, Sched
      <4>. QED BY <1>1, <3>1, <3>3, <4>1, <4>2, <4>3 DEF Inv, Own, fieldVars
    <3>. QED BY <2>3, <3>4, <3>5, <3>6, <3>7 DEF Inv, Typed
  <2>. QED BY <2>1, <2>4, <2>5
<1>. QED BY <1>3, <1>4

(* The scheduler comes to rest. *)
LEMMA SchedulerRests ==
    ASSUME Inv, Rests(Scheduler)
    PROVE  /\ thr' \in [Threads -> ThrRec]
           /\ thr'[Scheduler] = Resting
           /\ \A u \in Threads \ {Scheduler} : thr'[u] = thr[u]
           /\ UNCHANGED <<idem, made, excused>> => Asks' /\ Keyed'
<1>1. Scheduler \in Threads /\ Scheduler \notin Callers
  BY DeskAssumption DEF Threads
<1>2. /\ thr' \in [Threads -> ThrRec]
      /\ thr'[Scheduler] = Resting /\ \A u \in Threads \ {Scheduler} : thr'[u] = thr[u]
  BY <1>1, RecordsAreTyped DEF Rests, Inv, Typed, Asks
<1>3. ASSUME UNCHANGED <<idem, made, excused>> PROVE Asks' /\ Keyed'
  BY <1>1, <1>2, <1>3 DEF Inv, Typed, Asks, Keyed, Worth, Prompt, Asking, Threads
<1>. QED BY <1>2, <1>3

(* What the scheduler was told of it remembers in the same step. *)
LEMMA SchedulesKeeps ==
    ASSUME Inv, Schedules PROVE Inv'
<1>1. Scheduler \in Threads
  BY DEF Threads
<1>2. PICK m \in Modules : m = thr[Scheduler].m
  BY <1>1 DEF Schedules, Inv, Meant
<1>3. /\ thr[Scheduler].pc = "asking" /\ Rests(Scheduler)
      /\ UNCHANGED <<fieldVars, idem, asked, todo, missed, made, excused>>
  BY DEF Schedules, watchVars
<1>4. /\ thr'[Scheduler] = Resting /\ \A u \in Threads \ {Scheduler} : thr'[u] = thr[u]
      /\ Asks' /\ Keyed'
  BY <1>3, SchedulerRests
<1>6. Fields'
  BY <1>3 DEF Inv, Typed, Fields, fieldVars
<1>7. ASSUME NEW i \in Slots, Stores(Scheduler, i, "sent", TRUE),
             pending' = [pending EXCEPT ![m] = i]
      PROVE  Cmds' /\ Sched' /\ Meant' /\ Own'
  <2>0. "sent" \in Ways(Scheduler)
    BY DEF Ways
  <2>1. /\ Cmds'
        /\ \A j \in Slots \ {i} : cmd'[j] = cmd[j]
        /\ cmd'[i].m = m /\ sess[m] = "up"
        /\ \/ cmd'[i].by = "api"
           \/ cmd'[i].st = "sent" /\ cmd'[i].type = thr[Scheduler].type
    BY <1>1, <1>2, <1>3, <1>7, <2>0, Stored
  <2>2. Sched'
    BY <1>3, <1>7 DEF Inv, Typed, Sched
  <2>3. Meant'
    BY <1>4, <2>1, RecordsAreTyped DEF Inv, Meant
  <2>4. pending[m] = 0 /\ (thr[Scheduler].type = "sample" => cal[m] # "none")
    BY <1>2, <1>3 DEF Inv, Own
  <2>5. \A j \in Slots \ {i} : (cmd[j].st # "done" /\ cmd[j].by = "scheduler" /\ cmd[j].told) =>
            cmd[j].m # m /\ pending'[cmd[j].m] = pending[cmd[j].m]
    BY <1>7, <2>4, DeskAssumption DEF Inv, Typed, Sched, Meant, Own
  <2>6. pending'[m] = i
    BY <1>7 DEF Inv, Typed, Sched
  <2>7. Own'
    BY <1>3, <1>4, <2>1, <2>4, <2>5, <2>6, RecordsAreTyped DEF Inv, Own, fieldVars
  <2>. QED BY <2>1, <2>2, <2>3, <2>7
<1>8. ASSUME UNCHANGED <<cmd, pending>> PROVE Cmds' /\ Sched' /\ Meant' /\ Own'
  BY <1>3, <1>4, <1>8, RecordsAreTyped DEF Inv, Typed, Cmds, Sched, Meant, Own, fieldVars
<1>9. Cmds' /\ Sched' /\ Meant' /\ Own'
  BY <1>2, <1>7, <1>8 DEF Schedules
<1>. QED BY <1>4, <1>6, <1>9 DEF Inv, Typed

(* What raised into the pass the scheduler was never told of. *)
LEMMA ScheduleRaisesKeeps ==
    ASSUME Inv, ScheduleRaises PROVE Inv'
<1>1. Scheduler \in Threads
  BY DEF Threads
<1>2. PICK m \in Modules : m = thr[Scheduler].m
  BY <1>1 DEF ScheduleRaises, Inv, Meant
<1>3. /\ thr[Scheduler].pc = "asking" /\ Rests(Scheduler)
      /\ Strays(Scheduler) \/ UNCHANGED cmd
      /\ todo' = {} /\ missed' \in {missed, missed \union {m}}
      /\ UNCHANGED <<fieldVars, idem, pending, asked, made, excused>>
  BY <1>2 DEF ScheduleRaises, Raises
<1>4. /\ thr'[Scheduler] = Resting /\ \A u \in Threads \ {Scheduler} : thr'[u] = thr[u]
      /\ Asks' /\ Keyed'
  BY <1>3, SchedulerRests
<1>5. Fields' /\ Sched'
  BY <1>3 DEF Inv, Typed, Fields, Sched, fieldVars
<1>6. ASSUME NEW i \in Slots,
             Strands(Scheduler, i) \/ \E st \in Ways(Scheduler) : Stores(Scheduler, i, st, FALSE)
      PROVE  Cmds' /\ Meant' /\ Own'
  <2>1. /\ Cmds'
        /\ \A j \in Slots \ {i} : cmd'[j] = cmd[j]
        /\ cmd'[i].m = m
        /\ \/ cmd'[i].by = "api"
           \/ cmd'[i].st = "sent" /\ cmd'[i].type = thr[Scheduler].type
    BY <1>1, <1>2, <1>3, <1>6, Stored
  <2>2. ~cmd'[i].told
    <3>1. \A c : cmd' = [cmd EXCEPT ![i] = c] => cmd'[i] = c
      BY DEF Inv, Typed, Cmds
    <3>2. CASE Strands(Scheduler, i)
      BY <1>2, <3>1, <3>2, RecordsAreTyped DEF Strands
    <3>3. ASSUME NEW st, Stores(Scheduler, i, st, FALSE) PROVE ~cmd'[i].told
      BY <3>1, <3>3 DEF Stores
    <3>. QED BY <1>6, <3>2, <3>3
  <2>3. Meant'
    BY <1>4, <2>1, RecordsAreTyped DEF Inv, Meant
  <2>4. Own'
    BY <1>2, <1>3, <1>4, <2>1, <2>2, RecordsAreTyped DEF Inv, Own, fieldVars
  <2>. QED BY <2>1, <2>3, <2>4
<1>7. ASSUME UNCHANGED cmd PROVE Cmds' /\ Meant' /\ Own'
  BY <1>3, <1>4, <1>7, RecordsAreTyped DEF Inv, Typed, Cmds, Meant, Own, fieldVars
<1>8. Cmds' /\ Meant' /\ Own'
  BY <1>3, <1>6, <1>7 DEF Strays
<1>. QED BY <1>4, <1>5, <1>8 DEF Inv, Typed

LEMMA PassFailsKeeps ==
    ASSUME Inv, PassFails PROVE Inv'
<1>1. todo' = {} /\ UNCHANGED <<fieldVars, cmd, idem, thr, pending, asked, made, excused, missed>>
  BY DEF PassFails, watchVars
<1>2. Fields' /\ Cmds' /\ Sched' /\ Meant' /\ Own'
  BY <1>1 DEF Inv, Typed, Fields, Cmds, Sched, Meant, Own, fieldVars
<1>. QED BY <1>1, <1>2, KeysStand DEF Inv, Typed

(* A restart leaves nothing of the scheduler's, and excuses what it forgot. *)
LEMMA HubRestartKeeps ==
    ASSUME Inv, HubRestart PROVE Inv'
<1>1. /\ sess' = [m \in Modules |-> "gone"]
      /\ seen' = [m \in Modules |-> [mode |-> Unknown, state |-> Unknown]]
      /\ cmd' = [i \in Slots |-> IF i \in Open THEN Stuck(cmd[i].m) ELSE cmd[i]]
      /\ idem' = {}
      /\ excused' = [k \in Keys |-> IF k \in idem THEN excused[k] + 1 ELSE excused[k]]
      /\ thr' = [t \in Threads |-> Resting]
      /\ pending' = [m \in Modules |-> 0] /\ asked' = {} /\ todo' = {} /\ missed' = {}
      /\ UNCHANGED <<dev, cal, made>>
  BY DEF HubRestart
<1>2. Fields' /\ Sched'
  BY <1>1 DEF Inv, Typed, Fields, Sched
<1>3. \A i \in Slots : /\ cmd'[i] \in CmdRec
                       /\ cmd'[i].st # "done" => cmd'[i].m \in Modules /\ cmd'[i].by = "api"
  BY <1>1, RecordsAreTyped DEF Open, Inv, Typed, Cmds, Meant
<1>4. Cmds'
  BY <1>1, <1>3 DEF Cmds
<1>5. Scheduler \in Threads /\ \A t \in Threads : thr'[t] = Resting
  BY <1>1 DEF Threads
<1>6. Meant' /\ Own'
  BY <1>3, <1>5, RecordsAreTyped DEF Meant, Own
<1>7. made \in [Keys -> Nat] /\ excused \in [Keys -> Nat]
  BY DEF Inv, Typed, Asks
<1>8. Asks'
  BY <1>1, <1>7, RecordsAreTyped DEF Asks
<1>9. ASSUME NEW k \in Keys PROVE Worth(k)'
  <2>1. Worth(k) /\ made[k] \in Nat /\ excused[k] \in Nat
    BY <1>7 DEF Inv, Keyed
  <2>2. \A t \in Callers : ~Prompt(t, k)'
    BY <1>5, RecordsAreTyped DEF Prompt, Asking, Threads
  <2>. QED BY <1>1, <2>1, <2>2 DEF Worth
<1>. QED BY <1>2, <1>4, <1>6, <1>8, <1>9 DEF Inv, Typed, Keyed

LEMMA InvStep == Inv /\ [Next]_vars => Inv'
<1>. SUFFICES ASSUME Inv, [Next]_vars PROVE Inv'
  OBVIOUS
<1>1. CASE UNCHANGED vars \/ IntervalPasses
  <2>1. UNCHANGED <<fieldVars, cmd, idem, thr, pending, asked, todo, missed, made, excused>>
    BY <1>1 DEF vars, IntervalPasses, schedVars, watchVars
  <2>2. Fields' /\ Cmds' /\ Sched' /\ Meant' /\ Own'
    BY <2>1 DEF Inv, Typed, Fields, Cmds, Sched, Meant, Own, fieldVars
  <2>. QED BY <2>1, <2>2, KeysStand DEF Inv, Typed
<1>2. ASSUME NEW m \in Modules, Adopted(m) \/ SessionEnds(m) \/ Reports(m) \/ CalibrationAges(m)
      PROVE Inv'
  BY <1>2, AdoptedKeeps, SessionEndsKeeps, ReportsKeeps, AgesKeeps
<1>3. ASSUME NEW m \in Modules, NEW fits \in BOOLEAN, Finishes(m, fits) PROVE Inv'
  BY <1>3, FinishesKeeps
<1>4. ASSUME NEW i \in Slots, Executes(i) \/ Decided(i) PROVE Inv'
  BY <1>4, ExecutesKeeps, DecidedKeeps
<1>5. ASSUME NEW t \in Callers, Submits(t) \/ SubmitRaises(t) \/ Calls(t) \/ Cancels(t)
      PROVE Inv'
  BY <1>5, SubmitsKeeps, SubmitRaisesKeeps, CallsKeeps, CancelsKeeps
<1>6. ASSUME NEW k \in Keys, Evicted(k) PROVE Inv'
  BY <1>6, EvictedKeeps
<1>7. CASE Engine
  BY <1>7, TickKeeps, VisitsKeeps, SchedulesKeeps DEF Engine
<1>8. CASE ScheduleRaises \/ PassFails \/ HubRestart
  BY <1>8, ScheduleRaisesKeeps, PassFailsKeeps, HubRestartKeeps
<1>. QED BY <1>1, <1>2, <1>3, <1>4, <1>5, <1>6, <1>7, <1>8 DEF Next

(* The scheduler never has two commands open at one module that it was     *)
(* told of, and never samples a module that was never calibrated           *)
(* (scheduler.py:7-9, 84-90).                                              *)
THEOREM SchedulerIsDisciplined == Spec => []Disciplined
<1>1. Inv /\ DueOK => Disciplined
  <2>. SUFFICES ASSUME Inv, DueOK PROVE Disciplined
    OBVIOUS
  <2>1. TypeOK
    BY DEF Inv, Typed, Fields, Cmds, Asks, Sched, DueOK, TypeOK, DevRec, CmdRec, ThrRec
  <2>2. \A i, j \in Open : (/\ cmd[i].by = "scheduler" /\ cmd[i].told
                            /\ cmd[j].by = "scheduler" /\ cmd[j].told
                            /\ cmd[i].m = cmd[j].m) => i = j
    BY DEF Inv, Own, Open
  <2>3. \A i \in Open : (cmd[i].by = "scheduler" /\ cmd[i].type = "sample")
                            => cal[cmd[i].m] # "none"
    BY DEF Inv, Own, Open
  <2>. QED BY <2>1, <2>2, <2>3 DEF Disciplined
<1>. QED BY InitInv, InvStep, DueStep, <1>1, PTL DEF Spec

(* Under a key a call stores one command, and one more for each answer the *)
(* gateway lost: evicted, forgotten by a restart, raised over, or given to *)
(* a call that another one overlapped (commands.py:98-116).                *)
THEOREM RetriesAreSafe == Spec => []RetryIsSafe
<1>1. Inv => RetryIsSafe
  BY DEF Inv, Keyed, Worth, RetryIsSafe
<1>. QED BY InitInv, InvStep, <1>1, PTL DEF Spec

=============================================================================
