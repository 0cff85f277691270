--------------------------------- MODULE Pimod ---------------------------------
(***************************************************************************)
(* The agent of the real analyzer: uii_analyzer/pimod.py over the serial   *)
(* ports of hw.py.  It sits between the plant's PLC (port A) and the pumps *)
(* (port B): in BRIDGE it forwards the PLC's lines, in ENDPOINT it runs    *)
(* the method timelines the hub asks for.  Every command is an asyncio     *)
(* task of its own; run() owns the connection to the hub.  A task may be   *)
(* suspended in each send(), whose drain() can wait for room.              *)
(*                                                                         *)
(* send() has no buffer: without a writer the message is dropped; on a     *)
(* connection whose loss run() has not read yet it passes unnoticed, or    *)
(* drain() raises into whatever called it.                                 *)
(*                                                                         *)
(* Abstractions: telemetry and its ring only add evidence; of PROGRESS     *)
(* only that sending it may raise; the pump's replies, which BRIDGE hands  *)
(* to the PLC, move nothing; a wait between two events ends at any time;   *)
(* a capture is its name, so what was read, None when the ADC fails, is no *)
(* part of it, as it is no reason for the code to stop.                    *)
(***************************************************************************)
EXTENDS Timelines, FiniteSets

Types == Methods \union {"take_control", "bridge", "abort", "unknown"}

CONSTANTS
    Commands,    \* command ids
    NoCommand,   \* self.busy is None
    Asks,        \* bound: the types the hub may give each command
    Fitted,      \* bound: the analytes the unit may be configured for
    MaxAccidents \* bound: connections lost plus restarts of the agent

ASSUME PimodAssumption ==
    /\ NoCommand \notin Commands
    /\ Asks \in [Commands -> SUBSET Types]
    /\ Fitted \subseteq Analytes
    /\ MaxAccidents \in Nat

VARIABLES
    analyte,          \* ANALYTE of the environment
    phase,            \* where run() is
    link,             \* the connection: "none", "up", or "cut" and not noticed
    writer,           \* self.writer is set
    mode, latched,    \* self.mode, self.endpoint_latched
    busy, abort,      \* the command behind self.busy, self._abort
    task,             \* each command's execute() task
    pos, captures,    \* of the timeline under way: next event, captures so far
    answers,          \* what the hub got about each command
    driver,           \* who wrote to the pumps last since boot
    cuts, boots

runVars == <<phase, link, writer, cuts>>
controlVars == <<mode, latched>>
methodVars == <<busy, abort, pos, captures>>
vars == <<analyte, runVars, controlVars, methodVars, task, answers, driver, boots>>

Idle == [pc |-> "none", type |-> "none"]

Init ==
    /\ analyte \in Fitted
    /\ phase = "offline"
    /\ link = "none"
    /\ writer = FALSE
    /\ mode = "BRIDGE"
    /\ latched = FALSE
    /\ busy = NoCommand
    /\ abort = FALSE
    /\ task = [c \in Commands |-> Idle]
    /\ pos = 1
    /\ captures = <<>>
    /\ driver = "nobody"
    /\ answers = [c \in Commands |-> <<>>]
    /\ cuts = 0
    /\ boots = 0

-----------------------------------------------------------------------------
(* run(): dial, greet, be adopted or held in quarantine, read commands. *)

Dial ==
    /\ phase = "offline"
    /\ phase' = "hello"
    /\ link' = "up"
    /\ writer' = TRUE
    /\ UNCHANGED <<analyte, cuts, controlVars, methodVars, task, answers, driver, boots>>

(* Back to dialling: end of file, a refusal, a timeout, or a send of run() *)
(* itself that raised.                                                     *)
HangUp ==
    /\ phase \in {"hello", "held"} \/ (phase = "adopted" /\ link = "cut")
    /\ phase' = "offline"
    /\ link' = "none"
    /\ writer' = FALSE
    /\ UNCHANGED <<analyte, cuts, controlVars, methodVars, task, answers, driver, boots>>

(* HELLO_OK is answered with ROLE_OK; QUARANTINE holds the agent there. *)
Greeted ==
    /\ phase = "hello"
    /\ phase' \in {"adopted", "held"}
    /\ UNCHANGED <<analyte, link, writer, cuts, controlVars, methodVars, task,
                   answers, driver, boots>>

(* A CMD line becomes a task. *)
Read(c) ==
    /\ phase = "adopted"
    /\ link = "up"
    /\ task[c] = Idle
    /\ answers[c] = <<>>
    /\ \E t \in Asks[c] : task' = [task EXCEPT ![c] = [pc |-> "read", type |-> t]]
    /\ UNCHANGED <<analyte, runVars, controlVars, methodVars, answers, driver, boots>>

(* The hub stops or the network fails: the agent does not know yet. *)
Cut ==
    /\ link = "up"
    /\ cuts + boots < MaxAccidents
    /\ link' = "cut"
    /\ cuts' = cuts + 1
    /\ UNCHANGED <<analyte, phase, writer, controlVars, methodVars, task, answers,
                   driver, boots>>

(* A telemetry write that raises forgets the writer (_try_send). *)
TelemetryFails ==
    /\ writer
    /\ link = "cut"
    /\ writer' = FALSE
    /\ UNCHANGED <<analyte, phase, link, cuts, controlVars, methodVars, task, answers,
                   driver, boots>>

Restart ==
    /\ cuts + boots < MaxAccidents
    /\ boots' = boots + 1
    /\ phase' = "offline"
    /\ link' = "none"
    /\ writer' = FALSE
    /\ mode' = "BRIDGE"
    /\ latched' = FALSE
    /\ busy' = NoCommand
    /\ abort' = FALSE
    /\ task' = [c \in Commands |-> Idle]
    /\ pos' = 1
    /\ captures' = <<>>
    /\ driver' = "nobody"
    /\ UNCHANGED <<analyte, answers, cuts>>

-----------------------------------------------------------------------------
(* send() *)

Heard == writer /\ link = "up" /\ phase = "adopted"
MayRaise == writer /\ link = "cut"

Says(c, frames) ==
    answers' = IF Heard THEN [answers EXCEPT ![c] = @ \o frames] ELSE answers

Ack == [t |-> "ACK", status |-> "none", captures |-> <<>>]
Nack == [t |-> "NACK", status |-> "none", captures |-> <<>>]
Result(status, names) == [t |-> "RESULT", status |-> status, captures |-> names]

Moves(c, pc) == task' = [task EXCEPT ![c].pc = pc]

(* The send of task c raised: the task ends where it is. *)
Raises(c) ==
    /\ MayRaise
    /\ Moves(c, "dead")
    /\ UNCHANGED answers

-----------------------------------------------------------------------------
(* The serial side. *)

Forwards == mode = "BRIDGE"

(* A line of the PLC, handled on the loop: forwarded only in BRIDGE. *)
PlcLine ==
    /\ Forwards
    /\ driver' = "plant"
    /\ UNCHANGED <<analyte, runVars, controlVars, methodVars, task, answers, boots>>

-----------------------------------------------------------------------------
(* execute() *)

MaySetAlways(new) == TRUE              \* mutant: the latch is forgotten
MaySet(new) == ~(latched /\ mode = "ENDPOINT" /\ new # "ENDPOINT")

(* set_mode, then the ACK; the RESULT is the next step. *)
Authority(c) ==
    /\ task[c].pc = "read"
    /\ \/ /\ task[c].type = "take_control"
          /\ mode' = "ENDPOINT"
          /\ latched' = TRUE
          /\ (Says(c, <<Ack>>) /\ Moves(c, "acked")) \/ Raises(c)
       \/ /\ task[c].type = "bridge"
          /\ mode' = IF MaySet("BRIDGE") THEN "BRIDGE" ELSE mode
          /\ (Says(c, <<Ack>>) /\ Moves(c, IF MaySet("BRIDGE") THEN "acked" ELSE "refused"))
             \/ Raises(c)
          /\ UNCHANGED latched
    /\ UNCHANGED <<analyte, runVars, methodVars, driver, boots>>

(* The ACK of an abort comes first: when it raises nothing is aborted. *)
AbortAcked(c) ==
    /\ task[c] = [pc |-> "read", type |-> "abort"]
    /\ (Says(c, <<Ack>>) /\ Moves(c, "acked")) \/ Raises(c)
    /\ UNCHANGED <<analyte, runVars, controlVars, methodVars, driver, boots>>

(* The last step of the three short commands; abort looks at busy here. *)
ShortEnds(c) ==
    /\ task[c].pc \in {"acked", "refused"}
    /\ abort' = (abort \/ (task[c].type = "abort" /\ busy # NoCommand))
    /\ \/ /\ Says(c, <<Result(IF task[c].pc = "acked" THEN "succeeded" ELSE "failed", <<>>)>>)
          /\ Moves(c, "done")
       \/ Raises(c)
    /\ UNCHANGED <<analyte, runVars, controlVars, busy, pos, captures, driver, boots>>

FreeAlways == TRUE                     \* mutant: busy is not looked at
Free == busy = NoCommand

BadParams(c) == task[c].type = "calibrate"

Decline(c) ==
    /\ task[c].pc = "read"
    /\ \/ task[c].type = "unknown"
       \/ task[c].type \in Methods /\ (mode # "ENDPOINT" \/ ~Free \/ BadParams(c))
    /\ (Says(c, <<Nack>>) /\ Moves(c, "done")) \/ Raises(c)
    /\ UNCHANGED <<analyte, runVars, controlVars, methodVars, driver, boots>>

(* busy is set and the abort flag cleared before the ACK, and the try that *)
(* gives busy back begins after it.                                        *)
Start(c) ==
    /\ task[c].pc = "read"
    /\ task[c].type \in Methods
    /\ mode = "ENDPOINT"
    /\ Free
    /\ busy' = c
    /\ abort' = FALSE
    /\ pos' = 1
    /\ captures' = <<>>
    /\ (Says(c, <<Ack>>) /\ Moves(c, "running")) \/ Raises(c)
    /\ UNCHANGED <<analyte, runVars, controlVars, driver, boots>>

-----------------------------------------------------------------------------
(* _run_timeline(), and the finally of execute(). *)

Events(c) == Timeline(task[c].type, analyte)

Frees == busy' = NoCommand

(* The locals of _run_timeline go with it. *)
Forgets == pos' = 1 /\ captures' = <<>>

SilentAbort(status) ==                 \* mutant: an aborted run just returns
    IF status = "aborted" THEN <<>> ELSE <<Result(status, captures)>>
Verdict(status) == <<Result(status, captures)>>

(* The RESULT goes out, or its send raises: the instrument is free. *)
Ends(c, status) ==
    /\ Frees
    /\ Forgets
    /\ (Says(c, Verdict(status)) /\ Moves(c, "done")) \/ Raises(c)
    /\ UNCHANGED abort

Stopped == abort

(* The wait before the next event is over, and the run was aborted. *)
Aborted(c) ==
    /\ task[c].pc = "running"
    /\ pos <= Len(Events(c))
    /\ Stopped
    /\ Ends(c, "aborted")
    /\ UNCHANGED <<analyte, runVars, controlVars, driver, boots>>

(* The event is over; sending its PROGRESS may raise and end the run. *)
Goes(c, names) ==
    /\ \/ pos' = pos + 1 /\ captures' = names /\ UNCHANGED <<busy, task>>
       \/ MayRaise /\ Moves(c, "dead") /\ Frees /\ Forgets
    /\ UNCHANGED <<abort, answers>>

Known(c) == Events(c)[pos].id \in ST9[analyte]

(* A string to the pumps; the port may be closed, and then the run fails. *)
Pump(c) ==
    /\ task[c].pc = "running"
    /\ pos <= Len(Events(c))
    /\ ~Stopped
    /\ Events(c)[pos].type = "send"
    /\ \/ /\ Known(c)
          /\ driver' = "hub"
          /\ Goes(c, captures)
       \/ /\ Ends(c, "failed")
          /\ UNCHANGED driver
    /\ UNCHANGED <<analyte, runVars, controlVars, boots>>

Capture(c) ==
    /\ task[c].pc = "running"
    /\ pos <= Len(Events(c))
    /\ ~Stopped
    /\ Events(c)[pos].type = "adc"
    /\ Goes(c, Append(captures, Events(c)[pos].name))
    /\ UNCHANGED <<analyte, runVars, controlVars, driver, boots>>

Over(c) == pos > Len(Events(c))

(* The rest of the total time is slept without a look at the abort flag. *)
Succeed(c) ==
    /\ task[c].pc = "running"
    /\ Over(c)
    /\ Ends(c, "succeeded")
    /\ UNCHANGED <<analyte, runVars, controlVars, driver, boots>>

-----------------------------------------------------------------------------
Execute(c) ==
    \/ Authority(c) \/ AbortAcked(c) \/ ShortEnds(c) \/ Decline(c) \/ Start(c)
    \/ Aborted(c) \/ Pump(c) \/ Capture(c) \/ Succeed(c)

Next ==
    \/ \E c \in Commands : Read(c) \/ Execute(c)
    \/ Dial \/ HangUp \/ Greeted \/ Cut \/ TelemetryFails \/ Restart
    \/ PlcLine

Spec == Init /\ [][Next]_vars

(* The loop runs its tasks on; nothing is owed by the hub or the plant. *)
FairSpec == Spec /\ \A c \in Commands : WF_vars(Execute(c))

-----------------------------------------------------------------------------
Frames == [t: {"ACK", "NACK", "RESULT"},
           status: {"none", "succeeded", "failed", "aborted"},
           captures: Seq(UNION {{p[1], p[2]} : p \in UNION
                       {Pairs(m, a) : m \in Methods, a \in Analytes}})]

TypeOK ==
    /\ analyte \in Fitted
    /\ phase \in {"offline", "hello", "held", "adopted"}
    /\ link \in {"none", "up", "cut"}
    /\ writer \in BOOLEAN
    /\ mode \in {"BRIDGE", "ENDPOINT"}
    /\ {latched, abort} \subseteq BOOLEAN
    /\ busy \in Commands \union {NoCommand}
    /\ task \in [Commands -> [pc: {"none", "read", "acked", "refused", "running",
                                   "done", "dead"},
                              type: Types \union {"none"}]]
    /\ pos \in Nat
    /\ answers \in [Commands -> Seq(Frames)]
    /\ driver \in {"nobody", "plant", "hub"}

Running(c) == task[c].pc = "running"

(* One timeline at a time, in ENDPOINT only, and the instrument is busy    *)
(* exactly with it, except that a timeline whose ACK raised leaves busy    *)
(* set behind a task that is gone (pimod.py:246-253).                      *)
Consistent ==
    /\ TypeOK
    /\ latched <=> mode = "ENDPOINT"
    /\ writer => link # "none"
    /\ \A c \in Commands : Running(c) => busy = c /\ mode = "ENDPOINT"
    /\ busy # NoCommand => task[busy].pc \in {"running", "dead"}

(* The pumps obey one authority (pimod.py:10-14): once the hub has driven  *)
(* them no line of the plant reaches them until the agent is restarted,    *)
(* whatever commands and lines interleave (the latch, 176-188); and after  *)
(* an abort has reached the running timeline they get no further string    *)
(* and the detector is not read again (272-277).                           *)
PumpsObey ==
    [][/\ driver = "hub" /\ driver' = "plant" => boots' # boots
       /\ \A c \in Commands : Running(c) /\ abort => pos' \in {pos, 1}]_vars

Before(names, p) ==
    \E i, j \in DOMAIN names : i < j /\ names[i] = p[1] /\ names[j] = p[2]

(* A run reported as succeeded carries every capture the hub's fit or      *)
(* sample needs, the light before the reaction taken before the light      *)
(* after it, and was not cut short (timelines.py against interpret.py:61-75 *)
(* and interpret_full.py:24-33, 62-63).                                    *)
SucceededIsComplete ==
    \A c \in Commands : \A i \in DOMAIN answers[c] :
        (answers[c][i].status = "succeeded" /\ task[c].type \in Methods) =>
            /\ \A p \in Pairs(task[c].type, analyte) : Before(answers[c][i].captures, p)
            /\ Len(answers[c][i].captures) = 2 * Cardinality(Pairs(task[c].type, analyte))

Ended(c) == answers[c] # <<>> /\ answers[c][Len(answers[c])].t \in {"NACK", "RESULT"}

(* On a connection that holds, every command the agent reads gets its      *)
(* verdict: no path through execute() forgets it or waits for ever.        *)
EndsUnlessCut ==
    \A c \in Commands : task[c].pc = "read" ~> (Ended(c) \/ cuts > 0 \/ boots > 0)

(* "Actuation, safety interlocks, method step timing ... must survive hub  *)
(* loss" (docs/architecture.md:193): losing the hub never leaves the       *)
(* instrument occupied by nothing.                                         *)
BusyIsRunning == busy # NoCommand => Running(busy)

=============================================================================
