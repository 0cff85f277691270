------------------------------- MODULE FrameStore -------------------------------
(***************************************************************************)
(* The frames on the box's disk and the two daily jobs that go over them:  *)
(* uii_vision/blobstore.py (put, get by hash), tools/digest.py (the few    *)
(* frames of a day worth sending) and tools/retain.py (which frames may    *)
(* go).  The jobs see frames through their observations in evidence.db and *)
(* the files; systemd orders the sweep after the digest.                   *)
(*                                                                         *)
(* A frame is a number in the order of their times, its bytes its hash.    *)
(* Time is a counter; a slot, a key slot and a day are runs of its ticks.  *)
(*                                                                         *)
(* Abstractions: put and the observation are one step, so the mtime a file *)
(* without one is aged by is its own time; no two frames have equal bytes; *)
(* a look stands for image quality and the regions' buckets; a manifest is *)
(* the set of its frames (crops, key images and sizes are left out).       *)
(***************************************************************************)
EXTENDS Naturals, FiniteSets

CONSTANTS
    FullFor, ThinFor,    \* FULL_DAYS, THIN_DAYS
    SlotTicks,           \* THIN_MIN
    KeyTicks,            \* KEY_EVERY_H
    DayTicks,
    MaxDigest,           \* MAX_FRAMES of the digest
    Looks, BadLook,      \* what a frame shows; of too low a quality
    Unsure,              \* looks the model has little confidence in (LOW_CONF)
    MaxTime, MaxFrames   \* bounds

ASSUME FrameStoreAssumption ==
    /\ {FullFor, ThinFor, MaxTime, MaxFrames, MaxDigest} \subseteq Nat
    /\ {SlotTicks, KeyTicks, DayTicks} \subseteq Nat \ {0}
    /\ FullFor <= ThinFor
    /\ Unsure \subseteq Looks

VARIABLES
    now,
    at, look,      \* of each frame observed so far
    disk,          \* the frames whose file exists
    manifests,     \* day -> the frames of its digest's manifest
    doomed         \* what a sweep has planned to remove and has not yet

storeVars == <<now, at, look, disk, manifests, doomed>>

Frames == 1 .. MaxFrames
Observed == DOMAIN at
Slot(f) == at[f] \div SlotTicks
KeySlot(f) == at[f] \div KeyTicks
Day(f) == at[f] \div DayTicks
Age(f) == now - at[f]

StoreInit ==
    /\ now = 0
    /\ at = <<>>
    /\ look = <<>>
    /\ disk = {}
    /\ manifests = <<>>
    /\ doomed = {}

Tick ==
    /\ now < MaxTime
    /\ now' = now + 1
    /\ UNCHANGED <<at, look, disk, manifests, doomed>>

(* put: the file under its hash, written beside and renamed; then the      *)
(* observation that names it.                                              *)
TakeFrame ==
    /\ Cardinality(Observed) < MaxFrames
    /\ \A f \in Observed : at[f] < now
    /\ LET f == Cardinality(Observed) + 1 IN
         /\ at' = [g \in 1 .. f |-> IF g = f THEN now ELSE at[g]]
         /\ \E l \in Looks : look' = [g \in 1 .. f |-> IF g = f THEN l ELSE look[g]]
         /\ disk' = disk \union {f}
    /\ UNCHANGED <<now, manifests, doomed>>

-----------------------------------------------------------------------------
(* digest.py: the frames of one local day. *)

Good(f) == look[f] # BadLook

Rows(day) == {f \in Observed : Day(f) = day /\ f \in disk}

Keyframes(rows) == {f \in rows : Good(f) /\ \A g \in rows :
                        (g < f /\ Good(g)) => KeySlot(g) # KeySlot(f)}

(* The bucket changed against the frame before, whatever its quality, or   *)
(* the model was unsure.                                                   *)
Changed(f, rows) == \E g \in rows : /\ g < f /\ \A h \in rows : h <= g \/ h >= f
                                    /\ look[g] # look[f]

Transitions(rows) == {f \in rows : Good(f) /\ (Changed(f, rows) \/ look[f] \in Unsure)}

(* The first n of s, in the order of time. *)
Earliest(s, n) == {f \in s : Cardinality({g \in s : g < f}) < n}

(* Transitions first, then keyframes, up to the cap. *)
Picked(rows) ==
    LET trans == Earliest(Transitions(rows), MaxDigest) IN
    trans \union Earliest(Keyframes(rows) \ trans, MaxDigest - Cardinality(trans))

Digest(day) ==
    /\ doomed = {}
    /\ day < now \div DayTicks
    /\ manifests' = [d \in DOMAIN manifests \union {day} |->
                        IF d = day THEN Picked(Rows(day)) ELSE manifests[d]]
    /\ UNCHANGED <<now, at, look, disk, doomed>>

-----------------------------------------------------------------------------
(* retain.py *)

(* digest_keep: every frame a manifest names. *)
Kept == UNION {manifests[d] : d \in DOMAIN manifests}

Full == {f \in disk : Age(f) <= FullFor} \ Kept
Thinned == {f \in disk : Age(f) > FullFor /\ Age(f) <= ThinFor} \ Kept
Gone == {f \in disk : Age(f) > ThinFor} \ Kept

FirstOfSlot(f, s) == \A g \in s : g < f => Slot(g) # Slot(f)

(* Mutant: no frame of a slot is spared the thinning. *)
SpareAll(s) == s

Spare(s) == {f \in s : ~FirstOfSlot(f, s)}

Expired == Gone \union Spare(Thinned)

(* The safety valve: the oldest days kept whole are thinned early, as many *)
(* as it takes to have room.                                               *)
Valve(days) ==
    LET old == Earliest({Day(f) : f \in Full}, days)
    IN UNION {Spare({f \in Full : Day(f) = d}) : d \in old}

PlanSweep ==
    /\ doomed = {}
    /\ \E days \in 0 .. MaxTime : doomed' = Expired \union Valve(days)
    /\ UNCHANGED <<now, at, look, disk, manifests>>

Remove(f) ==
    /\ f \in doomed
    /\ doomed' = doomed \ {f}
    /\ disk' = disk \ {f}
    /\ UNCHANGED <<now, at, look, manifests>>

(* The job is killed between two files. *)
SweepDies ==
    /\ doomed # {}
    /\ doomed' = {}
    /\ UNCHANGED <<now, at, look, disk, manifests>>

StoreNext ==
    \/ Tick \/ TakeFrame \/ PlanSweep \/ SweepDies
    \/ \E f \in Frames : Remove(f)
    \/ \E day \in 0 .. MaxTime : Digest(day)

-----------------------------------------------------------------------------

StoreTypeOK ==
    /\ now \in 0 .. MaxTime
    /\ at \in [Observed -> 0 .. MaxTime]
    /\ Observed \subseteq Frames
    /\ look \in [Observed -> Looks]
    /\ disk \subseteq Observed
    /\ doomed \subseteq disk
    /\ \A d \in DOMAIN manifests : Cardinality(manifests[d]) <= MaxDigest

(* While the whole of a slot is young enough to be kept thinned, one of its *)
(* frames is on the disk: over any number of sweeps, early thinning by the *)
(* valve and sweeps cut short (plan, main of retain.py).                   *)
SlotsKeepAFrame ==
    \A f \in Observed : now - SlotTicks * Slot(f) <= ThinFor =>
        \E g \in disk : Slot(g) = Slot(f)

(* At every age a frame named by a digest manifest is kept, the sweep      *)
(* coming after the digest (digest_keep of retain.py).                     *)
DigestsAreKept == Kept \subseteq disk

RetentionKeeps == SlotsKeepAFrame /\ DigestsAreKept

=============================================================================
