------------------------------- MODULE Publishing -------------------------------
(***************************************************************************)
(* How frames leave the box, beside the sweeps of FrameStore: the          *)
(* publisher thread that posts a camera's newest frame and readings to the *)
(* plane (extensions/publish/publish.py), and the hourly job that bridges  *)
(* a belt press's key frames to the image archive                          *)
(* (uii_vision/tools/bfp_publish.py), which keeps its place in state.json. *)
(*                                                                         *)
(* The plane and the archive are external: the plane keeps the last frame  *)
(* it was sent and carries it forward, the archive keeps blobs and one     *)
(* document per id.                                                        *)
(*                                                                         *)
(* Abstractions: one camera; a token is there; readings are the observation *)
(* of some frame already judged; a request that timed out was handled or   *)
(* was not; an id is its frame (two in one second share one in the code).  *)
(* The job's review frames are left out: the rows _interpret_bfp writes    *)
(* carry no "models", without which select() never asks for a review.      *)
(***************************************************************************)
EXTENDS FrameStore

None == 0

VARIABLES
    judged,          \* the last frame with an observation of the hub's own
    post,            \* the publisher's request: "idle", or out with a payload
    sent,            \* _sent_hash[mid]
    plane,           \* what the plane shows: frame named, picture held
    blind,           \* frames named to the plane when their bytes were gone
    job, todo, upTo, \* bfp_publish: where main() is, its picks, its last row
    slots,           \* key_slots of the running job
    lastSeq, savedSlots, torn,  \* state.json, and whether it is readable
    blobs, docs,     \* the archive
    forgotten,       \* slots published that a job which died left state.json without,
                     \* rows of theirs still to be read (kept for the property only)
    failures

planeVars == <<post, sent, plane, blind>>
jobVars == <<job, todo, upTo, slots>>
savedVars == <<lastSeq, savedSlots, torn>>
archiveVars == <<blobs, docs, forgotten>>
vars == <<storeVars, judged, planeVars, jobVars, savedVars, archiveVars, failures>>

CONSTANTS
    KeptSlots,   \* how many keys select leaves in key_slots (14)
    MaxFailures  \* bound: requests and jobs that fail, restarts

(* A whole day's slots are kept: 12 of the 14, at KEY_EVERY_H = 2. *)
ASSUME PublishingAssumption ==
    KeptSlots \in Nat /\ (DayTicks - 1) \div KeyTicks < KeptSlots

NoPost == [pc |-> "idle", named |-> None, image |-> FALSE]

Init ==
    /\ StoreInit
    /\ judged = None
    /\ post = NoPost
    /\ sent = None
    /\ plane = [named |-> None, picture |-> None]
    /\ blind = {}
    /\ job = "idle"
    /\ todo = {}
    /\ upTo = None
    /\ slots = {}
    /\ lastSeq = None
    /\ savedSlots = {}
    /\ torn = FALSE
    /\ blobs = {}
    /\ docs = {}
    /\ forgotten = {}
    /\ failures = 0

-----------------------------------------------------------------------------

Store ==
    /\ StoreNext
    /\ UNCHANGED <<judged, planeVars, jobVars, savedVars, archiveVars, failures>>

(* The hub's models get to a frame (Vision). *)
Judge ==
    /\ \E f \in Observed : f > judged /\ judged' = f
    /\ UNCHANGED <<storeVars, planeVars, jobVars, savedVars, archiveVars, failures>>

-----------------------------------------------------------------------------
(* publish.py *)

Newest == Cardinality(Observed)

(* Mutant: the bytes go once. *)
FirstOnly(f) == f # None /\ sent = None

(* The bytes go only when the hash is not the one last accepted. *)
Fresh(f) == f # None /\ sent # f

(* tick: _frame, _readings; nothing to say is nothing posted. *)
Collect ==
    /\ post.pc = "idle"
    /\ Newest \in disk \/ judged # None
    /\ post' = [pc |-> "out", named |-> Newest, image |-> Fresh(Newest) /\ Newest \in disk]
    /\ blind' = blind \union ({Newest} \ disk)
    /\ UNCHANGED <<storeVars, judged, sent, plane, jobVars, savedVars, archiveVars,
                   failures>>

Taken == [named |-> post.named, picture |-> IF post.image THEN post.named ELSE plane.picture]

(* What is remembered once a post was answered. *)
Remembered == IF Fresh(post.named) THEN post.named ELSE sent

Answered ==
    /\ post.pc = "out"
    /\ plane' = Taken
    /\ sent' = Remembered
    /\ post' = NoPost
    /\ UNCHANGED <<storeVars, judged, blind, jobVars, savedVars, archiveVars, failures>>

(* HTTPError, no answer, or a timeout: the plane has it or it has not. *)
Fails ==
    /\ post.pc = "out"
    /\ failures < MaxFailures
    /\ failures' = failures + 1
    /\ plane' \in {plane, Taken}
    /\ post' = NoPost
    /\ UNCHANGED <<storeVars, judged, sent, blind, jobVars, savedVars, archiveVars>>

(* The hub restarts: what was accepted is forgotten, and what is out may   *)
(* still arrive.                                                           *)
HubRestart ==
    /\ failures < MaxFailures
    /\ failures' = failures + 1
    /\ plane' \in (IF post.pc = "out" THEN {plane, Taken} ELSE {plane})
    /\ post' = NoPost
    /\ sent' = None
    /\ UNCHANGED <<storeVars, judged, blind, jobVars, savedVars, archiveVars>>

-----------------------------------------------------------------------------
(* bfp_publish.py *)

(* new_observations: the rows after the last one. *)
NewRows == {f \in Observed : lastSeq < f /\ f <= judged}

(* The key slot of a row: its day, and which of the day's slots. *)
DaySlot(f) == <<Day(f), (at[f] % DayTicks) \div KeyTicks>>

(* select: the first row of every key slot not seen. *)
Select(rows) == {f \in rows : /\ DaySlot(f) \notin savedSlots
                              /\ \A g \in rows : g < f => DaySlot(g) # DaySlot(f)}

SlotsOf(frames) == {DaySlot(f) : f \in frames}

(* The keys are sorted as text, "10" and "11" before "2". *)
Text(n) == IF n < 10 THEN 11 * n ELSE 11 * (n \div 10) + 1 + (n % 10)
Sorts(s, t) == s[1] < t[1] \/ (s[1] = t[1] /\ Text(s[2]) < Text(t[2]))

(* Mutant: the newest keys go. *)
CutNewest(seen) == {s \in seen : Cardinality({t \in seen : Sorts(t, s)}) < KeptSlots}

(* What select leaves of the keys, before anything is published. *)
Cut(seen) == {s \in seen : Cardinality({t \in seen : Sorts(s, t)}) < KeptSlots}

Start ==
    /\ job = "idle"
    /\ ~torn
    /\ NewRows # {}
    /\ todo' = Select(NewRows)
    /\ slots' = Cut(savedSlots \union SlotsOf(Select(NewRows)))
    /\ upTo' = CHOOSE f \in NewRows : \A g \in NewRows : g <= f
    /\ job' = "next"
    /\ UNCHANGED <<storeVars, judged, planeVars, savedVars, archiveVars, failures>>

First == CHOOSE f \in todo : \A g \in todo : f <= g

(* The file is gone: the pick is passed over. *)
PassOver ==
    /\ job = "next"
    /\ todo # {}
    /\ First \notin disk
    /\ todo' = todo \ {First}
    /\ UNCHANGED <<storeVars, judged, planeVars, job, upTo, slots, savedVars, archiveVars,
                   failures>>

Upload ==
    /\ job = "next"
    /\ todo # {}
    /\ First \in disk
    /\ blobs' = blobs \union {First}
    /\ job' = "blob"
    /\ UNCHANGED <<storeVars, judged, planeVars, todo, upTo, slots, savedVars, docs,
                   forgotten, failures>>

CreateItem ==
    /\ job = "blob"
    /\ docs' = docs \union {First}
    /\ job' = "doc"
    /\ UNCHANGED <<storeVars, judged, planeVars, todo, upTo, slots, savedVars, blobs,
                   forgotten, failures>>

(* What json.dump(state) leaves of the slots: the run's that select kept,  *)
(* published or not.                                                       *)
SlotsSaved == slots

Save ==
    /\ job = "doc"
    /\ lastSeq' = First
    /\ savedSlots' = SlotsSaved
    /\ todo' = todo \ {First}
    /\ job' = "next"
    /\ UNCHANGED <<storeVars, judged, planeVars, upTo, slots, torn, archiveVars, failures>>

Finish ==
    /\ job = "next"
    /\ todo = {}
    /\ lastSeq' = upTo
    /\ savedSlots' = SlotsSaved
    /\ job' = "idle"
    /\ upTo' = None
    /\ slots' = {}
    /\ UNCHANGED <<storeVars, judged, planeVars, todo, torn, archiveVars, failures>>

(* Slots published and passed that state.json no longer has, with rows to come. *)
Lost == (SlotsOf({f \in docs : f <= lastSeq}) \ savedSlots) \intersect SlotsOf(NewRows)

(* A request raises, or the job is killed; while it writes state.json it   *)
(* may leave half of it.                                                   *)
JobDies ==
    /\ job # "idle"
    /\ failures < MaxFailures
    /\ failures' = failures + 1
    /\ job' = "idle"
    /\ todo' = {}
    /\ upTo' = None
    /\ slots' = {}
    /\ torn' \in (IF job = "doc" \/ (job = "next" /\ todo = {}) THEN BOOLEAN ELSE {torn})
    /\ forgotten' = forgotten \union Lost
    /\ UNCHANGED <<storeVars, judged, planeVars, lastSeq, savedSlots, blobs, docs>>

-----------------------------------------------------------------------------

Next ==
    \/ Store \/ Judge
    \/ Collect \/ Answered \/ Fails \/ HubRestart
    \/ Start \/ PassOver \/ Upload \/ CreateItem \/ Save \/ Finish \/ JobDies

Spec == Init /\ [][Next]_vars

(* The publisher's thread never dies and a request ends. *)
FairSpec == Spec /\ WF_vars(Collect) /\ WF_vars(Answered)

-----------------------------------------------------------------------------

TypeOK ==
    /\ judged \in Observed \union {None}
    /\ post \in [pc : {"idle", "out"}, named : Observed \union {None}, image : BOOLEAN]
    /\ sent \in Observed \union {None}
    /\ blind \subseteq Observed
    /\ job \in {"idle", "next", "blob", "doc"}
    /\ todo \union blobs \union docs \subseteq Observed
    /\ torn \in BOOLEAN

(* The picture a push leaves to be carried forward is that of the frame it *)
(* names, over lost answers and restarts of the hub, unless the bytes were *)
(* gone when it was read (tick of publish.py).                             *)
CarriedForward == plane.named \notin blind => plane.picture = plane.named

(* Every document of the archive has its image, however often the job      *)
(* fails and is run again, and a key slot has a second one only where a    *)
(* job that died had already cut the slot from the keys it saved, with     *)
(* rows of the slot still to be read (main, select).                       *)
ArchiveIsOrderly ==
    /\ docs \subseteq blobs
    /\ \A f, g \in docs : DaySlot(f) = DaySlot(g) => f = g \/ DaySlot(f) \in forgotten

(* Again and again the plane's picture is the newest frame's, unless its   *)
(* bytes are gone: a post that failed is made again (tick of publish.py).  *)
PlaneCatchesUp == []<>(Newest \in disk => plane.picture = Newest)

(* Plane and archive show what the camera saw. *)
Sound == TypeOK /\ StoreTypeOK /\ ArchiveIsOrderly /\ CarriedForward

(* bfp_publish.py's docstring: the first frame of every key slot is        *)
(* published.  The slots of picks not yet published are saved with the     *)
(* first one.                                                              *)
SlotsArePublished ==
    \A f \in disk : f <= lastSeq => DaySlot(f) \in SlotsOf(docs)

(* Its line 13: only the first frame of a key slot is published.  The keys *)
(* are cut before the publishing, and what a job that died did not cover   *)
(* is read again.                                                          *)
OneKeyFrame == \A f, g \in docs : DaySlot(f) = DaySlot(g) => f = g

=============================================================================
