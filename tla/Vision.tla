--------------------------------- MODULE Vision ---------------------------------
(***************************************************************************)
(* A camera and what the hub makes of its frames: the module in            *)
(* uii_vision/campod.py, the interpreter on the hub's loop                 *)
(* (interpreter.py) and FoamService, the thread that judges streamed       *)
(* frames (service.py).  Both judge with the per-module ModuleVision that  *)
(* re_baseline, set_region and ptz change; no lock guards it.              *)
(*                                                                         *)
(* A frame is a number.  Its view is the number of moves the camera had    *)
(* made when it was taken; regions are numbered in the order they were     *)
(* set, after the one of the role config.                                  *)
(*                                                                         *)
(* Abstractions: the handler of a RESULT is one step; execute() waits only *)
(* where it sends PROGRESS, its ACK and set_cadence, set_exposure and abort *)
(* change nothing here (CommandLife has the protocol of commands, Adoption *)
(* that of sessions); what the models see in the pixels is free.           *)
(***************************************************************************)
EXTENDS Naturals, Sequences

CONSTANTS
    RingLimit,                      \* deque(maxlen=500)
    QueueLimit,                     \* the fan-out queue's maxsize
    MaxFrames, MaxMoves, MaxRegions, MaxCuts, MaxBoots  \* bounds

ASSUME VisionAssumption ==
    /\ RingLimit \in Nat \ {0}
    /\ QueueLimit \in Nat \ {0}
    /\ {MaxFrames, MaxMoves, MaxRegions, MaxCuts, MaxBoots} \subseteq Nat
    /\ MaxRegions > 0                 \* it counts the configured region

None == 0           \* no frame
Whole == 0          \* no region: roi None
Configured == 1     \* the region of the role config

VARIABLES
    role,           \* the slot's role: is it a belt-press dose camera?
    shot,           \* the view of each frame taken
    view,           \* moves made so far
    taking,         \* the frame of a capture that waits to send its RESULT
    stage,          \* campod's run(): "offline", "hello" or "adopted"
    knows,          \* self.role is set: kept until the process restarts
    writer, ring,   \* self.writer is set; self.ring
    link, wire,     \* the connection, and what is under way on it
    session,        \* southbound.sessions has the module
    mv,             \* VisionState.mods[module]
    queue,          \* FoamService.q
    foam,           \* where FoamService is with a frame
    readings,       \* what became of frames: appended, or counted in self.errors
    heard,          \* the last move the hub handled a result of since it booted
    forgot,         \* a seed has replaced a ModuleVision another thread had set
    cuts, boots, asked

cameraVars == <<shot, view, taking>>
agentVars == <<stage, knows, writer, ring>>
linkVars == <<link, wire>>
hubVars == <<session, mv, queue, foam, readings, heard, forgot>>
visionVars == <<role, cameraVars, agentVars, linkVars, hubVars, cuts, boots, asked>>

Frames == 1 .. MaxFrames
Regions == 0 .. MaxRegions

NoVision == [seeded |-> FALSE, region |-> Whole, base |-> None, baseRegion |-> Whole,
             required |-> FALSE]

(* ModuleVision(...): seeded from the role config of the session, if any. *)
Seed(served) == [seeded |-> TRUE, region |-> IF served THEN Configured ELSE Whole,
                 base |-> None, baseRegion |-> Whole, required |-> FALSE]

Resting == [pc |-> "idle", frame |-> None, after |-> 0, region |-> Whole, role |-> "none",
            served |-> FALSE, good |-> FALSE]

VisionInit ==
    /\ role \in {"foam-cam", "bfp-dose-cam"}
    /\ shot = <<>>
    /\ view = 0
    /\ taking = None
    /\ stage = "offline"
    /\ knows = FALSE
    /\ writer = FALSE
    /\ ring = <<>>
    /\ link = "none"
    /\ wire = <<>>
    /\ session = FALSE
    /\ mv = NoVision
    /\ queue = <<>>
    /\ foam = Resting
    /\ readings = {}
    /\ heard = 0
    /\ forgot = FALSE
    /\ cuts = 0
    /\ boots = 0
    /\ asked = Configured

-----------------------------------------------------------------------------
(* campod: what it writes, and its connection. *)

Frame(n, tied) == [kind |-> "frame", n |-> n, tied |-> tied]
Result(action, n) == [kind |-> action, n |-> n]

Ringed(s) == IF Len(s) > RingLimit THEN SubSeq(s, Len(s) - RingLimit + 1, Len(s)) ELSE s

(* _send_or_buffer and send: the connection, or the ring without one.  On  *)
(* a connection that is gone unnoticed a write may pass, and is lost.      *)
Writes(ms) ==
    \/ /\ writer
       /\ link = "up"
       /\ stage = "adopted"
       /\ wire' = wire \o ms
       /\ UNCHANGED <<agentVars, link>>
    \/ /\ writer
       /\ link = "cut"
       /\ UNCHANGED <<agentVars, linkVars>>
    \/ /\ ~writer \/ link = "cut"
       /\ writer' = FALSE
       /\ ring' = Ringed(ring \o ms)
       /\ UNCHANGED <<stage, knows, linkVars>>
    \/ \* written before ROLE_OK: the hub takes it for a failed adoption
       /\ writer
       /\ stage = "hello"
       /\ link = "up"
       /\ stage' = "offline"
       /\ writer' = FALSE
       /\ link' = "none"
       /\ UNCHANGED <<knows, ring, wire>>

Dial ==
    /\ stage = "offline"
    /\ stage' = "hello"
    /\ writer' = TRUE
    /\ link' = "up"
    /\ wire' = <<>>
    /\ UNCHANGED <<role, cameraVars, knows, ring, hubVars, cuts, boots, asked>>

(* HELLO_OK, ROLE_OK, then the ring is written out. *)
Adopted ==
    /\ stage = "hello"
    /\ link = "up"
    /\ stage' = "adopted"
    /\ knows' = TRUE
    /\ wire' = ring
    /\ ring' = <<>>
    /\ session' = TRUE
    /\ UNCHANGED <<role, cameraVars, writer, link, mv, queue, foam, readings, heard,
                   forgot, cuts, boots, asked>>

(* run() reads the end of the connection. *)
HangUp ==
    /\ stage # "offline"
    /\ link = "cut"
    /\ stage' = "offline"
    /\ link' = "none"
    /\ writer' = FALSE
    /\ UNCHANGED <<role, cameraVars, knows, ring, wire, hubVars, cuts, boots, asked>>

(* The network fails: what the hub has not read is lost. *)
Cut ==
    /\ link = "up"
    /\ cuts < MaxCuts
    /\ link' = "cut"
    /\ wire' = <<>>
    /\ cuts' = cuts + 1
    /\ UNCHANGED <<role, cameraVars, agentVars, hubVars, boots, asked>>

(* campod restarts: the ring is gone, the camera looks where it looked. *)
CameraRestart ==
    /\ cuts < MaxCuts
    /\ cuts' = cuts + 1
    /\ taking' = None
    /\ stage' = "offline"
    /\ knows' = FALSE
    /\ writer' = FALSE
    /\ ring' = <<>>
    /\ link' = "none"
    /\ wire' = <<>>
    /\ UNCHANGED <<role, shot, view, hubVars, boots, asked>>

-----------------------------------------------------------------------------
(* campod: frames and commands, which it may read off a connection that is *)
(* gone already.                                                           *)

(* The cadence stream. *)
Stream ==
    /\ Len(shot) < MaxFrames
    /\ knows
    /\ shot' = Append(shot, view)
    /\ Writes(<<Frame(Len(shot) + 1, FALSE)>>)
    /\ UNCHANGED <<role, view, taking, hubVars, cuts, boots, asked>>

(* execute: capture emits its frame, then waits to send PROGRESS. *)
Capture ==
    /\ stage = "adopted"
    /\ taking = None
    /\ Len(shot) < MaxFrames
    /\ shot' = Append(shot, view)
    /\ taking' = Len(shot) + 1
    /\ Writes(<<Frame(Len(shot) + 1, TRUE)>>)
    /\ UNCHANGED <<role, view, hubVars, cuts, boots, asked>>

Captured ==
    /\ taking # None
    /\ taking' = None
    /\ Writes(<<Result("capture", taking)>>)
    /\ UNCHANGED <<role, shot, view, hubVars, cuts, boots, asked>>

ReBaseline ==
    /\ stage = "adopted"
    /\ Len(shot) < MaxFrames
    /\ shot' = Append(shot, view)
    /\ Writes(<<Frame(Len(shot) + 1, TRUE), Result("re_baseline", Len(shot) + 1)>>)
    /\ UNCHANGED <<role, view, taking, hubVars, cuts, boots, asked>>

(* The view moves. *)
Ptz ==
    /\ stage = "adopted"
    /\ view < MaxMoves
    /\ view' = view + 1
    /\ Writes(<<Result("ptz", view + 1)>>)
    /\ UNCHANGED <<role, shot, taking, hubVars, cuts, boots, asked>>

(* The camera only echoes the region. *)
SetRegion ==
    /\ stage = "adopted"
    /\ asked < MaxRegions
    /\ asked' = asked + 1
    /\ Writes(<<Result("set_region", asked + 1)>>)
    /\ UNCHANGED <<role, cameraVars, hubVars, cuts, boots>>

-----------------------------------------------------------------------------
(* The hub: the interpreter on the loop. *)

(* VisionState.get by the session's own handler. *)
Known == IF mv.seeded THEN mv ELSE Seed(TRUE)

(* "after" is the last move the hub knew of when the frame came in. *)
Reading(n, after, by, model, region, named, base, good) ==
    [frame |-> n, after |-> after, by |-> by, model |-> model, region |-> region,
     named |-> named, base |-> base, good |-> good]

(* The requirement is not looked at. *)
PassesAnyway(vision, dose) == BOOLEAN

(* A foam reading says "none" while a re-baseline is due, or when the      *)
(* picture is bad; a dose reading never looks at it.                       *)
Passes(vision, dose) == IF dose \/ ~vision.required THEN BOOLEAN ELSE {FALSE}

(* The bytes are gone, or a model does not load: an event, no reading. *)
Missing(n, after, by) == Reading(n, after, by, "missing", Whole, Whole, None, FALSE)

(* interpret_frame for a capture, whole on the loop. *)
Interpret(n) ==
    /\ mv' = Known
    /\ \/ readings' = readings \union {Missing(n, heard, "loop")}
       \/ \E good \in Passes(Known, role = "bfp-dose-cam") :
            readings' = readings \union
                {Reading(n, heard, "loop", role, Known.region, Known.region, Known.base, good)}
    /\ UNCHANGED <<heard>>

SetBase(n) ==
    /\ mv' = [Known EXCEPT !.base = n, !.baseRegion = Known.region, !.required = FALSE]
    /\ UNCHANGED <<readings, heard>>

(* set_region does not ask for a new reference. *)
SetRoiQuietly(r) ==
    /\ mv' = [Known EXCEPT !.region = r]
    /\ UNCHANGED <<readings, heard>>

SetRoi(r) ==
    /\ mv' = [Known EXCEPT !.region = r, !.required = TRUE]
    /\ UNCHANGED <<readings, heard>>

Moved(v) ==
    /\ mv' = [Known EXCEPT !.required = TRUE]
    /\ heard' = v
    /\ UNCHANGED readings

(* The session reads a line: a RESULT is interpreted at once. *)
HandleResult ==
    /\ session
    /\ wire # <<>>
    /\ wire' = Tail(wire)
    /\ LET m == Head(wire) IN
         \/ m.kind = "capture" /\ Interpret(m.n)
         \/ m.kind = "re_baseline" /\ SetBase(m.n)
         \/ m.kind = "set_region" /\ SetRoi(m.n)
         \/ m.kind = "ptz" /\ Moved(m.n)
    /\ UNCHANGED <<role, cameraVars, agentVars, link, session, queue, foam, forgot,
                   cuts, boots, asked>>

(* Judging a capture raises: nothing catches it below the session. *)
JudgeRaises ==
    /\ session
    /\ wire # <<>>
    /\ Head(wire).kind = "capture"
    /\ cuts < MaxCuts
    /\ cuts' = cuts + 1
    /\ mv' = Known
    /\ session' = FALSE
    /\ link' = "cut"
    /\ wire' = <<>>
    /\ UNCHANGED <<role, cameraVars, agentVars, queue, foam, readings, heard, forgot,
                   boots, asked>>

(* TELEM is appended and offered to FoamService's queue, dropped when full. *)
HandleFrame ==
    /\ session
    /\ wire # <<>>
    /\ Head(wire).kind = "frame"
    /\ wire' = Tail(wire)
    /\ queue' = IF Len(queue) < QueueLimit
                THEN Append(queue, [kind |-> "frame", n |-> Head(wire).n,
                                    tied |-> Head(wire).tied, after |-> heard])
                ELSE queue
    /\ UNCHANGED <<role, cameraVars, agentVars, link, session, mv, foam, readings, heard,
                   forgot, cuts, boots, asked>>

SessionEnds ==
    /\ session
    /\ link # "up" \/ stage # "adopted"
    /\ session' = FALSE
    /\ UNCHANGED <<role, cameraVars, agentVars, linkVars, mv, queue, foam, readings,
                   heard, forgot, cuts, boots, asked>>

(* The hub restarts: VisionState, the queue and the thread start anew. *)
HubRestart ==
    /\ boots < MaxBoots
    /\ boots' = boots + 1
    /\ session' = FALSE
    /\ mv' = NoVision
    /\ queue' = <<>>
    /\ foam' = Resting
    /\ heard' = 0
    /\ forgot' = FALSE
    /\ wire' = <<>>
    /\ link' = IF link = "up" THEN "cut" ELSE link
    /\ UNCHANGED <<role, cameraVars, agentVars, readings, cuts, asked>>

-----------------------------------------------------------------------------
(* FoamService: one frame at a time. *)

(* A frame of a camera that has just gone is left aside. *)
TakesServed(m) == ~m.tied /\ session

(* A tied frame is the loop's; for another the session of the moment gives *)
(* role and role config, and VisionState.get looks.                        *)
Takes(m) == ~m.tied

Take ==
    /\ foam.pc = "idle"
    /\ queue # <<>>
    /\ queue' = Tail(queue)
    /\ foam' = IF Takes(Head(queue))
               THEN [pc |-> IF mv.seeded THEN "load" ELSE "seed",
                     frame |-> Head(queue).n, after |-> Head(queue).after, region |-> Whole,
                     role |-> IF session THEN role ELSE "none", served |-> session,
                     good |-> FALSE]
               ELSE foam
    /\ UNCHANGED <<role, cameraVars, agentVars, linkVars, session, mv, readings, heard,
                   forgot, cuts, boots, asked>>

(* It looked and found nothing, so it stores a seed, over whatever the     *)
(* loop has stored since.                                                  *)
StoreSeed ==
    /\ foam.pc = "seed"
    /\ mv' = Seed(foam.served)
    /\ forgot' = (forgot \/ mv.seeded)
    /\ foam' = [foam EXCEPT !.pc = "load"]
    /\ UNCHANGED <<role, cameraVars, agentVars, linkVars, session, queue, readings, heard,
                   cuts, boots, asked>>

(* The bytes are gone, or judging raises and run() counts an error. *)
FrameMissing ==
    /\ foam.pc \in {"load", "flag"}
    /\ readings' = readings \union {Missing(foam.frame, foam.after, "service")}
    /\ foam' = Resting
    /\ UNCHANGED <<role, cameraVars, agentVars, linkVars, session, mv, queue, heard,
                   forgot, cuts, boots, asked>>

(* A dose camera's frame goes whole to the dose model. *)
JudgeDose ==
    /\ foam.pc = "load"
    /\ foam.role = "bfp-dose-cam"
    /\ \E good \in Passes(mv, TRUE) : readings' = readings \union
           {Reading(foam.frame, foam.after, "service", "bfp-dose-cam", Whole, Whole, None,
                    good)}
    /\ foam' = Resting
    /\ UNCHANGED <<role, cameraVars, agentVars, linkVars, session, mv, queue, heard,
                   forgot, cuts, boots, asked>>

(* build_roi and detect: the region as it is now. *)
Measure ==
    /\ foam.pc = "load"
    /\ foam.role # "bfp-dose-cam"
    /\ foam' = [foam EXCEPT !.pc = "flag", !.region = mv.region]
    /\ UNCHANGED <<role, cameraVars, agentVars, linkVars, session, mv, queue, readings,
                   heard, forgot, cuts, boots, asked>>

(* permitted_use, and "none" while a re-baseline is due. *)
Flag ==
    /\ foam.pc = "flag"
    /\ \E good \in Passes(mv, FALSE) : foam' = [foam EXCEPT !.pc = "name", !.good = good]
    /\ UNCHANGED <<role, cameraVars, agentVars, linkVars, session, mv, queue, readings,
                   heard, forgot, cuts, boots, asked>>

(* The context names the region and the baseline as they are now. *)
Name ==
    /\ foam.pc = "name"
    /\ readings' = readings \union
           {Reading(foam.frame, foam.after, "service", "foam-cam", foam.region, mv.region,
                    mv.base, foam.good)}
    /\ foam' = Resting
    /\ UNCHANGED <<role, cameraVars, agentVars, linkVars, session, mv, queue, heard,
                   forgot, cuts, boots, asked>>

-----------------------------------------------------------------------------

FoamService == \/ Take \/ StoreSeed \/ FrameMissing \/ JudgeDose \/ Measure \/ Flag \/ Name

VisionNext ==
    \/ Dial \/ Adopted \/ HangUp \/ Cut \/ CameraRestart
    \/ Stream \/ Capture \/ Captured \/ ReBaseline \/ Ptz \/ SetRegion
    \/ HandleResult \/ JudgeRaises \/ HandleFrame \/ SessionEnds \/ HubRestart
    \/ FoamService

VisionSpec == VisionInit /\ [][VisionNext]_visionVars

(* The thread of FoamService keeps running. *)
FairVisionSpec == VisionSpec /\ WF_visionVars(FoamService)

-----------------------------------------------------------------------------

Messages == [kind : {"frame"}, n : Frames, tied : BOOLEAN]
    \union [kind : {"capture", "re_baseline"}, n : Frames]
    \union [kind : {"ptz"}, n : 1 .. MaxMoves]
    \union [kind : {"set_region"}, n : Regions]

VisionTypeOK ==
    /\ role \in {"foam-cam", "bfp-dose-cam"}
    /\ shot \in Seq(0 .. MaxMoves) /\ Len(shot) <= MaxFrames
    /\ view \in 0 .. MaxMoves
    /\ taking \in 0 .. Len(shot)
    /\ stage \in {"offline", "hello", "adopted"}
    /\ {knows, writer, session, forgot} \subseteq BOOLEAN
    /\ ring \in Seq(Messages) /\ Len(ring) <= RingLimit
    /\ wire \in Seq(Messages)
    /\ link \in {"none", "up", "cut"}
    /\ mv.base \in 0 .. Len(shot)
    /\ mv.region \in Regions
    /\ Len(queue) <= QueueLimit
    /\ foam.pc \in {"idle", "seed", "load", "flag", "name"}
    /\ heard \in 0 .. view

ViewOf(base) == IF base = None THEN 0 ELSE shot[base]

(* While no re-baseline is due, the reference scene was taken after every  *)
(* move the hub has heard of and recorded with the region in force: the    *)
(* order of execute(), ring and connection keeps a re_baseline from        *)
(* clearing a move it did not see (campod.py, interpreter.py).  Only a     *)
(* seed stored over the loop's work breaks it (forgot).                    *)
ReferenceIsCurrent ==
    (mv.seeded /\ ~mv.required /\ ~forgot) =>
        /\ heard <= ViewOf(mv.base)
        /\ \/ mv.base = None /\ mv.region \in {Whole, Configured}
           \/ mv.base # None /\ mv.baseRegion = mv.region

(* A frame that came in after the hub knew of a move is passed as good by  *)
(* foam CV only if the scene was re-baselined since, however long the      *)
(* frame waited in the queue and whatever the loop did while it was judged *)
(* (interpret_frame, FoamService.run).                                     *)
KnownMovesAreHeld ==
    [][\A r \in readings' \ readings :
          (r.good /\ r.model = "foam-cam" /\ ~forgot) => r.after <= ViewOf(r.base)]_visionVars

(* One frame, one interpretation, either way: over reconnections, restarts *)
(* and the two ways a frame comes in (interpret_frame_env, service.py).    *)
OneReadingPerFrame == \A r1, r2 \in readings : r1.frame = r2.frame => r1 = r2

(* What the hub measures against is what the camera shows, and every frame *)
(* is measured once.                                                       *)
Consistent == VisionTypeOK /\ ReferenceIsCurrent /\ OneReadingPerFrame

(* Every streamed frame FoamService was handed gets its reading, the event *)
(* that says why not, or is counted as an error, unless the hub restarts:  *)
(* checked for its first life, the next one starts from the same state     *)
(* (FoamService.run).                                                      *)
Waits(n) == \E i \in DOMAIN queue : queue[i].n = n /\ ~queue[i].tied
QueuedFramesAreJudged ==
    \A n \in Frames :
        (boots = 0 /\ Waits(n)) ~> ((\E r \in readings : r.frame = n) \/ boots > 0)

(* The module's docstring: a frame is never measured against a stale       *)
(* region, and a moved view is held until re_baseline clears it.  Of the   *)
(* streamed frames: FoamService reads region, requirement and baseline one *)
(* after another, of the moment it judges and not of the one the frame was *)
(* taken (interpreter.py, service.py).                                     *)
NeverStale ==
    \A r \in readings : (r.good /\ r.by = "service" /\ r.model = "foam-cam") =>
        r.region = r.named /\ shot[r.frame] = ViewOf(r.base)

=============================================================================
