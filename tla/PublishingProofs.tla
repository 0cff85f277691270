---------------------------- MODULE PublishingProofs ----------------------------
(***************************************************************************)
(* What the retention of tools/retain.py spares, for any ages, slots, days *)
(* and caps, any number of frames, sweeps, digests, valve openings and     *)
(* killed jobs, beside the publisher and the archive job: a frame of every *)
(* slot that is young enough, and every frame a digest names.  And what    *)
(* the plane and the archive show for it.                                  *)
(***************************************************************************)
EXTENDS Publishing, WellFoundedInduction, FiniteSetTheorems, FunctionTheorems, TLAPS

Timed ==
    /\ now \in Nat
    /\ at \in [Observed -> Nat]
    /\ \E n \in Nat : Observed = 1 .. n
    /\ \A f \in Observed : at[f] <= now
    /\ disk \subseteq Observed
    /\ doomed \subseteq disk

Young(f) == now - SlotTicks * Slot(f) <= ThinFor

(* The planned sweep already leaves what the finished one must. *)
Spared == \A f \in Observed : Young(f) => \E g \in disk \ doomed : Slot(g) = Slot(f)
KeptSpared == Kept \subseteq disk \ doomed

Inv == Timed /\ Spared /\ KeptSpared

-----------------------------------------------------------------------------
(* A set of numbers with a member has a least one. *)
LEMMA Least ==
    ASSUME NEW S \in SUBSET Nat, S # {}
    PROVE  \E m \in S : \A k \in S : m <= k
<1> DEFINE R == OpToRel(<, Nat)
<1>1. IsWellFoundedOn(R, Nat)
  BY NatLessThanWellFounded
<1>2. R = {p \in Nat \X Nat : p[1] < p[2]}
  BY DEF OpToRel
<1>. HIDE DEF R
<1>3. PICK m \in S : \A k \in S : ~(<<k, m>> \in R)
  BY <1>1, WFMin
<1>4. ASSUME NEW k \in S PROVE m <= k
  <2>1. <<k, m>> \in Nat \X Nat /\ ~(k < m)
    BY <1>2, <1>3
  <2>. QED BY <2>1
<1>. QED BY <1>3, <1>4

(* A slot begins no later than what falls into it. *)
LEMMA Floor ==
    ASSUME NEW t \in Nat, NEW k \in Nat \ {0}
    PROVE  t \div k \in Nat /\ k * (t \div k) \in Nat /\ k * (t \div k) <= t
  OBVIOUS

(* No sweep plans to remove a frame that a manifest names, or that is of a *)
(* class it keeps.                                                         *)
LEMMA Planned ==
    ASSUME NEW days \in Nat, NEW g \in Expired \union Valve(days)
    PROVE  /\ g \in disk \ Kept
           /\ g \in Gone \/ g \in Spare(Thinned)
              \/ \E d \in {Day(f) : f \in Full} : g \in Spare({f \in Full : Day(f) = d})
<1>1. g \in Gone \/ g \in Spare(Thinned)
      \/ \E d \in {Day(f) : f \in Full} : g \in Spare({f \in Full : Day(f) = d})
  BY DEF Expired, Valve, Earliest
<1>2. g \in disk \ Kept
  BY <1>1 DEF Gone, Thinned, Full, Spare
<1>. QED BY <1>1, <1>2

(* The first frame of a slot survives in each of the three classes. *)
LEMMA PlanSpares ==
    ASSUME Inv, NEW days \in Nat, NEW f \in Observed, Young(f), doomed = {}
    PROVE  \E g \in disk \ (Expired \union Valve(days)) : Slot(g) = Slot(f)
<1> DEFINE Mates == {g \in disk : Slot(g) = Slot(f)}
<1>1. Mates # {} /\ Mates \in SUBSET Nat /\ Mates \subseteq Observed
  <2>1. Mates # {}
    BY DEF Inv, Spared
  <2>2. Observed \subseteq Nat
    BY DEF Inv, Timed
  <2>3. Mates \subseteq Observed
    BY DEF Inv, Timed
  <2>. QED BY <2>1, <2>2, <2>3
<1>2. ASSUME NEW g \in Mates PROVE Age(g) \in Int /\ Age(g) <= ThinFor
  <2>1. at[g] \in Nat /\ at[f] \in Nat /\ now \in Nat /\ SlotTicks \in Nat \ {0}
        /\ ThinFor \in Nat
    BY <1>1, FrameStoreAssumption DEF Inv, Timed
  <2>2. SlotTicks * Slot(g) \in Nat /\ SlotTicks * Slot(g) <= at[g]
    BY <2>1, Floor DEF Slot
  <2>3. now - SlotTicks * Slot(g) <= ThinFor
    BY DEF Young
  <2>. QED BY <2>1, <2>2, <2>3 DEF Age
<1>3. \A g \in Mates : g \notin Gone
  <2>1. ThinFor \in Nat
    BY FrameStoreAssumption
  <2>. QED BY <1>2, <2>1 DEF Gone
<1>. HIDE DEF Mates
<1>4. SUFFICES \E g \in Mates : g \notin Expired \union Valve(days)
  BY DEF Mates
<1>5. CASE \E g \in Mates : g \in Kept
  BY <1>5, Planned
<1>6. CASE Mates \intersect Thinned # {}
  <2>1. PICK g \in Mates \intersect Thinned : \A h \in Mates \intersect Thinned : g <= h
    BY <1>1, <1>6, Least
  <2>2. g \notin Spare(Thinned)
    <3>1. \A h \in Thinned : Slot(h) = Slot(g) => h \in Mates
      BY <2>1 DEF Mates, Thinned
    <3>2. \A h \in Thinned : h < g => Slot(h) # Slot(g)
      <4>1. g \in Nat /\ \A h \in Mates : h \in Nat
        BY <1>1, <2>1
      <4>2. ASSUME NEW h \in Thinned, h < g, Slot(h) = Slot(g) PROVE FALSE
        <5>1. h \in Mates \intersect Thinned
          BY <3>1, <4>2
        <5>2. g <= h /\ h \in Nat
          BY <2>1, <4>1, <5>1
        <5>. QED BY <4>1, <4>2, <5>2
      <4>. QED BY <4>2
    <3>. QED BY <3>2 DEF Spare, FirstOfSlot
  <2>3. g \notin Full
    <3>1. Age(g) \in Int /\ FullFor \in Nat /\ Age(g) > FullFor
      BY <1>2, <2>1, FrameStoreAssumption DEF Thinned
    <3>. QED BY <3>1 DEF Full
  <2>4. \A d : g \notin Spare({h \in Full : Day(h) = d})
    BY <2>3 DEF Spare
  <2>. QED BY <1>3, <2>1, <2>2, <2>4, Planned
<1>7. CASE Mates \intersect Thinned = {} /\ ~(\E g \in Mates : g \in Kept)
  <2>1. PICK g \in Mates : \A h \in Mates : g <= h
    BY <1>1, Least
  <2>2. \A d : g \notin Spare({h \in Full : Day(h) = d})
    <3>. SUFFICES ASSUME NEW d, g \in Spare({h \in Full : Day(h) = d}) PROVE FALSE
      OBVIOUS
    <3>1. PICK h \in Full : h < g /\ Slot(h) = Slot(g)
      BY DEF Spare, FirstOfSlot
    <3>2. h \in Mates
      BY <2>1, <3>1 DEF Mates, Full
    <3>3. g \in Nat /\ h \in Nat /\ g <= h
      BY <1>1, <2>1, <3>2
    <3>. QED BY <3>1, <3>3
  <2>3. g \notin Spare(Thinned)
    BY <1>7, <2>1 DEF Spare
  <2>. QED BY <1>3, <2>1, <2>2, <2>3, Planned
<1>. QED BY <1>5, <1>6, <1>7

-----------------------------------------------------------------------------
LEMMA TickKeeps ==
    ASSUME Inv, Tick PROVE Inv'
<1>1. now \in Nat /\ now' = now + 1 /\ UNCHANGED <<at, disk, manifests, doomed>>
  BY DEF Inv, Timed, Tick
<1>2. Timed'
  BY <1>1 DEF Inv, Timed, Observed
<1>3. ASSUME NEW f \in Observed, Young(f)' PROVE Young(f)
  <2>1. SlotTicks * Slot(f) \in Nat /\ ThinFor \in Nat /\ Slot(f)' = Slot(f)
    BY <1>1, Floor, FrameStoreAssumption DEF Inv, Timed, Slot
  <2>. QED BY <1>1, <1>3, <2>1 DEF Young
<1>4. Spared'
  BY <1>1, <1>3 DEF Inv, Spared, Observed, Slot
<1>5. KeptSpared'
  BY <1>1 DEF Inv, KeptSpared, Kept
<1>. QED BY <1>2, <1>4, <1>5 DEF Inv

LEMMA TakeFrameKeeps ==
    ASSUME Inv, TakeFrame PROVE Inv'
<1>1. PICK n \in Nat : Observed = 1 .. n
  BY DEF Inv, Timed
<1>2. Cardinality(Observed) = n
  BY <1>1, FS_Interval
<1>3. /\ at' = [g \in 1 .. (n + 1) |-> IF g = n + 1 THEN now ELSE at[g]]
      /\ disk' = disk \union {n + 1}
      /\ UNCHANGED <<now, manifests, doomed>>
  BY <1>2 DEF TakeFrame
<1>4. Observed' = 1 .. (n + 1) /\ at'[n + 1] = now /\ \A g \in Observed : at'[g] = at[g]
  BY <1>1, <1>3 DEF Observed
<1>5. n + 1 \notin Observed /\ Observed' = Observed \union {n + 1}
  BY <1>1, <1>4
<1>6. Timed'
  <2>1. at' \in [Observed' -> Nat]
    BY <1>1, <1>3, <1>4, <1>5 DEF Inv, Timed
  <2>2. ASSUME NEW f \in Observed' PROVE at'[f] <= now'
    <3>1. now \in Nat /\ now' = now
      BY <1>3 DEF Inv, Timed
    <3>2. CASE f = n + 1
      BY <1>4, <3>1, <3>2
    <3>3. CASE f \in Observed
      BY <1>4, <3>1, <3>3 DEF Inv, Timed
    <3>. QED BY <1>5, <3>2, <3>3
  <2>3. disk' \subseteq Observed' /\ doomed' \subseteq disk'
    BY <1>3, <1>5 DEF Inv, Timed
  <2>. QED BY <1>3, <1>4, <2>1, <2>2, <2>3 DEF Inv, Timed
<1>7. \A g \in Observed : Slot(g)' = Slot(g)
  BY <1>4 DEF Slot
<1>8. n + 1 \in disk' \ doomed'
  BY <1>3, <1>5 DEF Inv, Timed
<1>9. Spared'
  <2>. SUFFICES ASSUME NEW f \in Observed', Young(f)'
                PROVE  \E g \in disk' \ doomed' : Slot(g)' = Slot(f)'
    BY DEF Spared
  <2>1. CASE f = n + 1
    BY <1>8, <2>1
  <2>2. CASE f \in Observed
    <3>1. Young(f)
      BY <1>3, <1>7, <2>2 DEF Young
    <3>2. PICK g \in disk \ doomed : Slot(g) = Slot(f)
      BY <2>2, <3>1 DEF Inv, Spared
    <3>3. g \in disk' \ doomed' /\ g \in Observed
      BY <1>3, <3>2 DEF Inv, Timed
    <3>. QED BY <1>7, <2>2, <3>2, <3>3
  <2>. QED BY <1>5, <2>1, <2>2
<1>10. KeptSpared'
  BY <1>3 DEF Inv, KeptSpared, Kept
<1>. QED BY <1>6, <1>9, <1>10 DEF Inv

(* A digest names only frames that are there and not condemned. *)
LEMMA DigestKeeps ==
    ASSUME Inv, NEW day, Digest(day) PROVE Inv'
<1>1. /\ doomed = {} /\ UNCHANGED <<now, at, disk, doomed>>
      /\ manifests' = [d \in DOMAIN manifests \union {day} |->
                            IF d = day THEN Picked(Rows(day)) ELSE manifests[d]]
  BY DEF Digest
<1>2. Picked(Rows(day)) \subseteq disk
  BY DEF Picked, Rows, Earliest, Transitions, Keyframes
<1>3. Timed' /\ Spared'
  BY <1>1 DEF Inv, Timed, Spared, Observed, Young, Slot
<1>4. Kept' \subseteq Kept \union Picked(Rows(day))
  BY <1>1 DEF Kept
<1>5. KeptSpared'
  BY <1>1, <1>2, <1>4 DEF Inv, KeptSpared
<1>. QED BY <1>3, <1>5 DEF Inv

LEMMA PlanSweepKeeps ==
    ASSUME Inv, PlanSweep PROVE Inv'
<1>1. PICK days \in 0 .. MaxTime : doomed' = Expired \union Valve(days)
  BY DEF PlanSweep
<1>2. doomed = {} /\ UNCHANGED <<now, at, disk, manifests>>
  BY DEF PlanSweep
<1>3. \A g \in doomed' : g \in disk \ Kept
  BY <1>1, Planned
<1>4. Timed'
  BY <1>2, <1>3 DEF Inv, Timed, Observed
<1>5. \A f \in Observed : Young(f) => \E g \in disk \ doomed' : Slot(g) = Slot(f)
  BY <1>1, <1>2, PlanSpares
<1>6. Spared'
  BY <1>2, <1>5 DEF Spared, Observed, Young, Slot
<1>7. KeptSpared'
  BY <1>2, <1>3 DEF Inv, KeptSpared, Kept
<1>. QED BY <1>4, <1>6, <1>7 DEF Inv

(* What the sweep removes was planned; killed, it removes the less. *)
LEMMA SweepKeeps ==
    ASSUME Inv, SweepDies \/ \E f \in Frames : Remove(f) PROVE Inv'
<1>1. /\ UNCHANGED <<now, at, manifests>>
      /\ disk \ doomed \subseteq disk' \ doomed'
      /\ disk' \subseteq disk /\ doomed' \subseteq disk'
  BY DEF SweepDies, Remove, Inv, Timed
<1>2. Timed'
  BY <1>1 DEF Inv, Timed, Observed
<1>3. Spared'
  BY <1>1 DEF Inv, Spared, Observed, Young, Slot
<1>4. KeptSpared'
  BY <1>1 DEF Inv, KeptSpared, Kept
<1>. QED BY <1>2, <1>3, <1>4 DEF Inv

LEMMA InitInv == Init => Inv
<1>. SUFFICES ASSUME Init PROVE Inv
  OBVIOUS
<1>1. /\ now = 0 /\ at = <<>> /\ disk = {} /\ manifests = <<>> /\ doomed = {}
  BY DEF Init, StoreInit
<1>2. Observed = {} /\ Observed = 1 .. 0
  BY <1>1 DEF Observed
<1>3. Timed
  BY <1>1, <1>2 DEF Timed
<1>4. DOMAIN manifests = {}
  BY <1>1
<1>5. Spared /\ KeptSpared
  BY <1>2, <1>4 DEF Spared, KeptSpared, Kept
<1>. QED BY <1>3, <1>5 DEF Inv

LEMMA InvStep == Inv /\ [Next]_vars => Inv'
<1>. SUFFICES ASSUME Inv, [Next]_vars PROVE Inv'
  OBVIOUS
<1>1. CASE Store
  BY <1>1, TickKeeps, TakeFrameKeeps, DigestKeeps, PlanSweepKeeps, SweepKeeps
     DEF Store, StoreNext
<1>2. CASE UNCHANGED storeVars
  BY <1>2 DEF storeVars, Inv, Timed, Spared, KeptSpared, Kept, Observed, Young, Slot
<1>3. (Judge \/ Collect \/ Answered \/ Fails \/ HubRestart \/ Start \/ PassOver
       \/ Upload \/ CreateItem \/ Save \/ Finish \/ JobDies) => UNCHANGED storeVars
  BY DEF Judge, Collect, Answered, Fails, HubRestart, Start, PassOver, Upload,
         CreateItem, Save, Finish, JobDies
<1>4. UNCHANGED vars => UNCHANGED storeVars
  BY DEF vars
<1>. QED BY <1>1, <1>2, <1>3, <1>4 DEF Next

(* At any time every slot that is young enough still has a frame and every *)
(* frame a digest names is there (plan, digest_keep of tools/retain.py).   *)
THEOREM RetentionIsSafe == Spec => []RetentionKeeps
<1>1. Inv => RetentionKeeps
  BY DEF Inv, Spared, KeptSpared, Young, RetentionKeeps, SlotsKeepAFrame, DigestsAreKept
<1>. QED BY InitInv, InvStep, <1>1, PTL DEF Spec


-----------------------------------------------------------------------------
(* What the plane and the archive show.                                    *)

(* The picture the publisher believes the plane to hold it does hold, if   *)
(* that is still the newest frame; and a post that is out without bytes    *)
(* names the frame whose picture the plane has.                            *)
Pushing ==
    /\ sent <= Newest
    /\ (sent # None /\ sent = Newest /\ sent \notin blind) => plane.picture = sent
    /\ CarriedForward
    /\ post.pc = "out" =>
            /\ post.named \in Observed
            /\ sent <= post.named
            /\ post.image => Fresh(post.named)
            /\ (post.named \notin blind /\ Fresh(post.named)) => post.image
            /\ (post.named \notin blind /\ sent = post.named) =>
                    plane.picture = post.named

(* Frames come in the order of their times. *)
InOrder == \A f, g \in Observed : f < g => at[f] <= at[g]

(* What select() would pick for f's slot from the rows after the last one  *)
(* saved is f.                                                             *)
WouldPick(f) ==
    /\ lastSeq < f /\ f <= judged
    /\ \A g \in Observed : (lastSeq < g /\ g < f) => DaySlot(g) # DaySlot(f)

(* A slot of an earlier day than a frame's, and one with no row to come. *)
Behind(s, f) == f \in Observed /\ s[1] < Day(f)
Over(s) == Behind(s, judged) /\ \A g \in Observed : lastSeq < g => DaySlot(g) # s

JudgedFrames == {f \in Observed : f <= judged}

(* Where the job's rows end, and what its keys cover. *)
Running ==
    job # "idle" =>
        /\ upTo \in Observed /\ upTo <= judged
        /\ \A f \in todo \union docs :
               f <= upTo /\ (DaySlot(f) \in slots \union forgotten \/ Behind(DaySlot(f), upTo))

(* A document passed by has its slot in state.json, or no row of the slot  *)
(* is to come, or the job that cut it is still running.                    *)
Covered(f) ==
    \/ DaySlot(f) \in savedSlots \union forgotten
    \/ Over(DaySlot(f))
    \/ job # "idle" /\ savedSlots = slots

(* A frame picked, or archived and not passed by, would be picked again:   *)
(* so no second frame of its slot ever is, but for a slot forgotten.       *)
Archiving ==
    /\ lastSeq \in Observed \union {None} /\ lastSeq <= judged
    /\ savedSlots \union slots \subseteq SlotsOf(JudgedFrames)
    /\ \A f \in todo : WouldPick(f)
    /\ \A f \in docs : IF lastSeq < f THEN WouldPick(f) ELSE Covered(f)
    /\ Running
    /\ \A f, g \in todo \union docs :
           DaySlot(f) = DaySlot(g) => f = g \/ DaySlot(f) \in forgotten
    /\ docs \subseteq blobs
    /\ job \in {"blob", "doc"} => todo # {} /\ First \in blobs

Shows == TypeOK /\ StoreTypeOK /\ InOrder /\ Pushing /\ Archiving

(* The first n of a set of numbers are at most n. *)
LEMMA EarliestAreFew ==
    ASSUME NEW s \in SUBSET Nat, IsFiniteSet(s), NEW n \in Nat
    PROVE  IsFiniteSet(Earliest(s, n)) /\ Cardinality(Earliest(s, n)) <= n
<1> DEFINE E == Earliest(s, n)
           Before(f) == {g \in s : g < f}
           rank == [f \in E |-> Cardinality(Before(f))]
<1>1. \A f : IsFiniteSet(Before(f)) /\ Cardinality(Before(f)) \in Nat
  BY FS_Subset, FS_CardinalityType
<1>2. E \subseteq s /\ \A f \in E : Cardinality(Before(f)) < n
  BY DEF Earliest
<1>. HIDE DEF E
<1>3. rank \in [E -> 0 .. (n - 1)] /\ \A f \in E : rank[f] = Cardinality(Before(f))
  <2>. HIDE DEF Before
  <2>1. \A f \in E : Cardinality(Before(f)) \in 0 .. (n - 1)
    BY <1>1, <1>2
  <2>. QED BY <2>1
<1>. HIDE DEF rank
<1>4. ASSUME NEW f \in E, NEW g \in E, f < g PROVE rank[f] < rank[g]
  <2>1. f \in s /\ g \in s /\ f \in Nat /\ g \in Nat
    BY <1>2
  <2>2. \A h \in s : h < f => h < g
    BY <1>4, <2>1
  <2>3. Before(f) \in SUBSET Before(g)
    BY <2>2
  <2>4. f \in Before(g) /\ f \notin Before(f)
    BY <1>4, <2>1
  <2>5. Cardinality(Before(f)) <= Cardinality(Before(g))
        /\ (Cardinality(Before(g)) = Cardinality(Before(f)) => Before(f) = Before(g))
    BY <1>1, <2>3, FS_Subset
  <2>6. Cardinality(Before(f)) # Cardinality(Before(g))
    BY <2>4, <2>5
  <2>. QED BY <1>1, <1>3, <2>5, <2>6
<1>5. ASSUME NEW f \in E, NEW g \in E, rank[f] = rank[g] PROVE f = g
  <2>1. f \in Nat /\ g \in Nat /\ rank[f] \in Int /\ rank[g] \in Int
    BY <1>2, <1>3
  <2>2. ~(f < g) /\ ~(g < f)
    BY <1>4, <1>5, <2>1
  <2>. QED BY <2>1, <2>2
<1>6. rank \in Injection(E, 0 .. (n - 1))
  BY <1>3, <1>5, Fun_IsInj
<1>7. IsFiniteSet(0 .. (n - 1)) /\ Cardinality(0 .. (n - 1)) = n
  BY FS_Interval
<1>8. IsFiniteSet(E) /\ Cardinality(E) <= n
  BY <1>6, <1>7, FS_Injection
<1>. QED BY <1>8 DEF E

(* A digest names no more than its cap. *)
LEMMA DigestIsSmall ==
    ASSUME Inv, NEW day
    PROVE  Cardinality(Picked(Rows(day))) <= MaxDigest
<1> DEFINE rows == Rows(day)
           trans == Earliest(Transitions(rows), MaxDigest)
           rest == Keyframes(rows) \ trans
           keys == Earliest(rest, MaxDigest - Cardinality(trans))
<1>1. rows \in SUBSET Nat /\ IsFiniteSet(rows)
  <2>1. PICK n \in Nat : Observed = 1 .. n
    BY DEF Inv, Timed
  <2>2. IsFiniteSet(1 .. n)
    BY <2>1, FS_Interval
  <2>3. rows \in SUBSET (1 .. n)
    BY <2>1 DEF Rows
  <2>. QED BY <2>2, <2>3, FS_Subset
<1>2. MaxDigest \in Nat
  BY FrameStoreAssumption
<1>. HIDE DEF rows
<1>3. /\ Transitions(rows) \in SUBSET Nat /\ IsFiniteSet(Transitions(rows))
      /\ rest \in SUBSET Nat /\ IsFiniteSet(rest)
  <2>1. Transitions(rows) \in SUBSET rows /\ rest \in SUBSET rows
    BY DEF Transitions, Keyframes
  <2>. QED BY <1>1, <2>1, FS_Subset
<1>4. IsFiniteSet(trans) /\ Cardinality(trans) <= MaxDigest /\ Cardinality(trans) \in Nat
  BY <1>2, <1>3, EarliestAreFew, FS_CardinalityType
<1>. HIDE DEF trans, rest
<1>5. MaxDigest - Cardinality(trans) \in Nat
  BY <1>2, <1>4
<1>6. IsFiniteSet(keys) /\ Cardinality(keys) <= MaxDigest - Cardinality(trans)
      /\ Cardinality(keys) \in Nat
  BY <1>3, <1>5, EarliestAreFew, FS_CardinalityType
<1>. HIDE DEF keys
<1>7. Cardinality(trans \union keys)
        = Cardinality(trans) + Cardinality(keys) - Cardinality(trans \intersect keys)
  BY <1>4, <1>6, FS_Union
<1>8. Cardinality(trans \intersect keys) \in Nat
  <2>1. trans \intersect keys \in SUBSET trans
    OBVIOUS
  <2>. QED BY <1>4, <2>1, FS_Subset, FS_CardinalityType
<1>9. Cardinality(trans \union keys) <= MaxDigest
  BY <1>2, <1>4, <1>6, <1>7, <1>8
<1>. QED BY <1>9 DEF Picked, trans, keys, rest, rows

LEMMA StoreTyped ==
    ASSUME Inv, StoreTypeOK, Store PROVE StoreTypeOK'
<1>1. PICK n \in Nat : Observed = 1 .. n
  BY DEF Inv, Timed
<1>2. Cardinality(Observed) = n
  BY <1>1, FS_Interval
<1>. USE DEF StoreTypeOK
<1>3. MaxTime \in Nat /\ MaxFrames \in Nat
  BY FrameStoreAssumption
<1>4. CASE Tick
  BY <1>3, <1>4 DEF Tick, Observed
<1>5. CASE TakeFrame
  <2>1. PICK l \in Looks :
        /\ n < MaxFrames
        /\ at' = [g \in 1 .. (n + 1) |-> IF g = n + 1 THEN now ELSE at[g]]
        /\ look' = [g \in 1 .. (n + 1) |-> IF g = n + 1 THEN l ELSE look[g]]
        /\ disk' = disk \union {n + 1}
        /\ UNCHANGED <<now, manifests, doomed>>
    BY <1>2, <1>5 DEF TakeFrame
  <2>2. Observed' = 1 .. (n + 1)
    BY <2>1 DEF Observed
  <2>3. at' \in [Observed' -> 0 .. MaxTime]
    BY <1>1, <2>1, <2>2
  <2>4. look' \in [Observed' -> Looks]
    BY <1>1, <2>1, <2>2
  <2>5. Observed' \subseteq Frames
    BY <1>3, <2>1, <2>2 DEF Frames
  <2>6. disk' \subseteq Observed' /\ doomed' \subseteq disk'
    BY <1>1, <2>1, <2>2
  <2>. QED BY <2>1, <2>3, <2>4, <2>5, <2>6
<1>6. ASSUME NEW day, Digest(day) PROVE StoreTypeOK'
  <2>1. /\ UNCHANGED <<now, at, look, disk, doomed>>
        /\ manifests' = [d \in DOMAIN manifests \union {day} |->
                            IF d = day THEN Picked(Rows(day)) ELSE manifests[d]]
    BY <1>6 DEF Digest
  <2>2. \A d \in DOMAIN manifests' : Cardinality(manifests'[d]) <= MaxDigest
    BY <2>1, DigestIsSmall
  <2>. QED BY <2>1, <2>2 DEF Observed
<1>7. CASE PlanSweep
  <2>1. PICK days \in 0 .. MaxTime : doomed' = Expired \union Valve(days)
    BY <1>7 DEF PlanSweep
  <2>2. doomed' \subseteq disk
    BY <2>1, <1>3, Planned
  <2>. QED BY <1>7, <2>2 DEF PlanSweep, Observed
<1>8. CASE SweepDies \/ \E f \in Frames : Remove(f)
  BY <1>8 DEF SweepDies, Remove, Observed
<1>. QED BY <1>4, <1>5, <1>6, <1>7, <1>8 DEF Store, StoreNext

(* What a step of the store does to the frames seen: it adds the next one. *)
Onward ==
    /\ Newest \in Nat /\ Newest' \in Nat /\ Newest <= Newest' /\ Newest' <= Newest + 1
    /\ Observed = 1 .. Newest /\ Observed' = 1 .. Newest'
    /\ at \in [Observed -> Nat] /\ at' \in [Observed' -> Nat]
    /\ \A f \in Observed : at'[f] = at[f]
    /\ \A f \in Observed' \ Observed : \A g \in Observed : at[g] <= at'[f]

LEMMA StoreGoesOn ==
    ASSUME Inv, Store \/ UNCHANGED storeVars PROVE Onward
<1>1. PICK n \in Nat : Observed = 1 .. n
  BY DEF Inv, Timed
<1>2. Newest = n
  BY <1>1, FS_Interval DEF Newest
<1>3. CASE at' = at
  <2>1. Observed' = Observed
    BY <1>3 DEF Observed
  <2>2. Newest' = Newest
    BY <2>1 DEF Newest
  <2>3. at \in [Observed -> Nat]
    BY DEF Inv, Timed
  <2>. QED BY <1>1, <1>2, <1>3, <2>1, <2>2, <2>3 DEF Onward
<1>4. CASE TakeFrame
  <2>1. at' = [g \in 1 .. (n + 1) |-> IF g = n + 1 THEN now ELSE at[g]]
    BY <1>2, <1>4 DEF TakeFrame, Newest
  <2>2. Observed' = 1 .. (n + 1)
    BY <2>1 DEF Observed
  <2>3. Cardinality(1 .. (n + 1)) = n + 1
    BY FS_Interval
  <2>4. Newest' = n + 1
    BY <2>2, <2>3 DEF Newest
  <2>5. \A f \in Observed : at'[f] = at[f]
    BY <1>1, <2>1
  <2>6. /\ at \in [Observed -> Nat] /\ now \in Nat
        /\ \A g \in Observed : at[g] <= now
    BY DEF Inv, Timed
  <2>7. at' \in [Observed' -> Nat]
    BY <1>1, <2>1, <2>2, <2>6
  <2>8. \A f \in Observed' \ Observed : at'[f] = now
    BY <1>1, <2>1, <2>2
  <2>. QED BY <1>1, <1>2, <2>2, <2>4, <2>5, <2>6, <2>7, <2>8 DEF Onward
<1>5. at' = at \/ TakeFrame
  BY DEF Store, StoreNext, storeVars, Tick, PlanSweep, SweepDies, Remove, Digest
<1>. QED BY <1>3, <1>4, <1>5

-----------------------------------------------------------------------------
LEMMA TypesKeep ==
    ASSUME Inv, TypeOK, Pushing, Archiving, Onward, [Next]_vars PROVE TypeOK'
<1>. USE DEF TypeOK, planeVars, jobVars, savedVars, archiveVars
<1>1. Observed \subseteq Observed' /\ None \notin Observed
  BY DEF Onward, None
<1>2. CASE Store \/ UNCHANGED vars
  <2>1. UNCHANGED <<judged, post, sent, blind, job, todo, blobs, docs, torn>>
    BY <1>2 DEF Store, vars
  <2>. QED BY <1>1, <2>1
<1>3. CASE Judge
  <2>1. UNCHANGED <<post, sent, blind, job, todo, blobs, docs, torn>>
        /\ judged' \in Observed
    BY <1>3 DEF Judge
  <2>. QED BY <1>1, <2>1
<1>4. CASE Collect
  <2>1. /\ post' = [pc |-> "out", named |-> Newest,
                    image |-> Fresh(Newest) /\ Newest \in disk]
        /\ blind' = blind \union ({Newest} \ disk)
        /\ UNCHANGED <<judged, sent, job, todo, blobs, docs, torn>>
    BY <1>4 DEF Collect
  <2>2. Newest \in Observed
    <3>1. \E f : f \in Observed
      BY <1>4 DEF Collect, Inv, Timed
    <3>. QED BY <3>1 DEF Onward
  <2>3. (Fresh(Newest) /\ Newest \in disk) \in BOOLEAN
    BY DEF Fresh
  <2>. QED BY <1>1, <2>1, <2>2, <2>3
<1>5. CASE Answered \/ Fails \/ HubRestart
  <2>1. UNCHANGED <<judged, blind, job, todo, blobs, docs, torn>> /\ post' = NoPost
        /\ sent' \in {sent, None, Remembered}
    BY <1>5 DEF Answered, Fails, HubRestart
  <2>2. post' \in [pc : {"idle", "out"}, named : Observed' \union {None}, image : BOOLEAN]
    BY <2>1 DEF NoPost
  <2>3. Remembered \in Observed \union {None}
    BY DEF Remembered
  <2>. QED BY <1>1, <2>1, <2>2, <2>3
<1>6. CASE Start
  <2>1. Select(NewRows) \subseteq Observed
    BY DEF Select, NewRows
  <2>2. UNCHANGED <<judged, post, sent, blind, blobs, docs, torn>>
        /\ todo' = Select(NewRows) /\ job' = "next"
    BY <1>6 DEF Start
  <2>. QED BY <1>1, <2>1, <2>2
<1>7. CASE Upload \/ CreateItem
  <2>1. First \in Observed
    <3>1. First \in disk \/ (First \in blobs)
      BY <1>7 DEF Upload, CreateItem, Archiving
    <3>. QED BY <3>1 DEF Inv, Timed
  <2>2. UNCHANGED <<judged, post, sent, blind, todo, torn>>
        /\ job' \in {"blob", "doc"}
        /\ blobs' \subseteq blobs \union {First} /\ docs' \subseteq docs \union {First}
    BY <1>7 DEF Upload, CreateItem
  <2>. QED BY <1>1, <2>1, <2>2
<1>8. CASE PassOver \/ Save \/ Finish \/ JobDies
  <2>1. UNCHANGED <<judged, post, sent, blind, blobs, docs>>
        /\ job' \in {"idle", "next", "blob", "doc"} /\ todo' \subseteq todo
        /\ torn' \in BOOLEAN
    BY <1>8 DEF PassOver, Save, Finish, JobDies
  <2>. QED BY <1>1, <2>1
<1>. QED BY <1>2, <1>3, <1>4, <1>5, <1>6, <1>7, <1>8 DEF Next

(* The plane's picture is the one it was told the newest frame has.        *)
LEMMA PushingKeeps ==
    ASSUME Inv, TypeOK, Pushing, Onward, [Next]_vars PROVE Pushing'
<1>. USE DEF planeVars, jobVars, savedVars, archiveVars
<1>1. /\ Newest \in Nat /\ Newest' \in Nat /\ Newest <= Newest'
      /\ \A f \in Observed : f \in Nat \ {0} /\ f <= Newest
      /\ Observed \subseteq Observed' /\ None \notin Observed
  BY DEF Onward, None
<1>2. sent \in Nat /\ (sent = None \/ sent \in Observed)
  BY <1>1 DEF TypeOK, None
<1>3. Pushing
  OBVIOUS
<1>4. CASE UNCHANGED <<post, sent, plane, blind>>
  <2>1. sent <= Newest'
    BY <1>1, <1>2 DEF Pushing
  <2>2. sent = Newest' => sent = Newest
    BY <1>1, <1>2 DEF Pushing
  <2>3. \A f : Fresh(f)' <=> Fresh(f)
    BY <1>4 DEF Fresh
  <2>. QED BY <1>1, <1>4, <2>1, <2>2, <2>3 DEF Pushing, CarriedForward
<1>5. CASE Collect
  <2>1. /\ post' = [pc |-> "out", named |-> Newest,
                    image |-> Fresh(Newest) /\ Newest \in disk]
        /\ blind' = blind \union ({Newest} \ disk)
        /\ UNCHANGED <<sent, plane>> /\ at' = at
    BY <1>5 DEF Collect, storeVars
  <2>2. Newest' = Newest /\ Observed' = Observed
    BY <2>1 DEF Newest, Observed
  <2>3. Newest \in Observed
    <3>1. \E f : f \in Observed
      BY <1>5 DEF Collect, Inv, Timed, TypeOK
    <3>. QED BY <3>1 DEF Onward
  <2>4. /\ post'.pc = "out" /\ post'.named = Newest
        /\ post'.image <=> Fresh(Newest) /\ Newest \in disk
    BY <2>1
  <2>5. Fresh(Newest)' <=> Fresh(Newest)
    BY <2>1, <2>2 DEF Fresh
  <2>6. /\ Newest \notin blind' => Newest \in disk
        /\ \A f : f \notin blind' => f \notin blind
    BY <2>1
  <2>7. sent <= Newest /\ Newest # None
    BY <1>1, <2>3 DEF Pushing
  <2>8. CarriedForward'
    BY <2>1, <2>6 DEF Pushing, CarriedForward
  <2>9. (Newest \notin blind' /\ sent = Newest) => plane.picture = Newest
    BY <2>6, <2>7 DEF Pushing
  <2>10. (sent # None /\ sent = Newest /\ sent \notin blind') => plane.picture = sent
    BY <2>9
  <2>. QED BY <2>1, <2>2, <2>3, <2>4, <2>5, <2>6, <2>7, <2>8, <2>9, <2>10 DEF Pushing
<1>6. ASSUME post' = NoPost, blind' = blind, at' = at,
             sent' \in Nat, sent' <= Newest, CarriedForward',
             (sent' # None /\ sent' = Newest /\ sent' \notin blind) => plane'.picture = sent'
      PROVE  Pushing'
  <2>1. Newest' = Newest
    BY <1>6 DEF Newest, Observed
  <2>2. post'.pc = "idle"
    BY <1>6 DEF NoPost
  <2>. QED BY <1>6, <2>1, <2>2 DEF Pushing
<1>7. ASSUME post.pc = "out"
      PROVE  /\ post.named \in Nat /\ post.named <= Newest /\ post.named # None
             /\ Taken.named = post.named
             /\ Taken.picture = IF post.image THEN post.named ELSE plane.picture
             /\ post.named \notin blind => Taken.picture = post.named
  <2>1. post.named \in Observed
    BY <1>7 DEF Pushing
  <2>2. /\ Taken.named = post.named
        /\ Taken.picture = IF post.image THEN post.named ELSE plane.picture
    BY DEF Taken
  <2>3. post.named \in Nat /\ post.named <= Newest /\ post.named # None
    BY <1>1, <2>1
  <2>4. ASSUME post.named \notin blind PROVE Taken.picture = post.named
    <3>1. CASE Fresh(post.named)
      BY <1>7, <2>2, <2>4, <3>1 DEF Pushing
    <3>2. CASE ~Fresh(post.named)
      <4>1. sent = post.named
        BY <2>3, <3>2 DEF Fresh
      <4>2. plane.picture = post.named
        BY <1>7, <2>4, <4>1 DEF Pushing
      <4>. QED BY <2>2, <4>2
    <3>. QED BY <3>1, <3>2
  <2>. QED BY <2>2, <2>3, <2>4
<1>8. CASE Answered
  <2>1. /\ post.pc = "out" /\ plane' = Taken /\ sent' = Remembered /\ post' = NoPost
        /\ blind' = blind /\ at' = at
    BY <1>8 DEF Answered, storeVars
  <2>2. CarriedForward'
    BY <1>7, <2>1 DEF CarriedForward
  <2>3. sent' = post.named
    BY <1>7, <2>1 DEF Remembered, Fresh
  <2>. QED BY <1>6, <1>7, <2>1, <2>2, <2>3
<1>9. CASE Fails
  <2>1. /\ post.pc = "out" /\ plane' \in {plane, Taken} /\ sent' = sent /\ post' = NoPost
        /\ blind' = blind /\ at' = at
    BY <1>9 DEF Fails, storeVars
  <2>2. CarriedForward'
    BY <1>7, <2>1 DEF Pushing, CarriedForward
  <2>3. (sent # None /\ sent = Newest /\ sent \notin blind) => plane'.picture = sent
    <3>. SUFFICES ASSUME sent # None, sent = Newest, sent \notin blind
                  PROVE  plane'.picture = sent
      OBVIOUS
    <3>1. sent = post.named
      BY <1>1, <1>7, <2>1 DEF Pushing
    <3>. QED BY <1>7, <2>1, <3>1 DEF Pushing
  <2>4. sent <= Newest
    BY DEF Pushing
  <2>. QED BY <1>2, <1>6, <2>1, <2>2, <2>3, <2>4
<1>10. CASE HubRestart
  <2>1. /\ plane' = plane \/ (post.pc = "out" /\ plane' = Taken)
        /\ sent' = None /\ post' = NoPost /\ blind' = blind /\ at' = at
    BY <1>10 DEF HubRestart, storeVars
  <2>2. CarriedForward'
    BY <1>7, <2>1 DEF Pushing, CarriedForward
  <2>. QED BY <1>1, <1>6, <2>1, <2>2 DEF None
<1>11. (Store \/ Judge \/ Start \/ PassOver \/ Upload \/ CreateItem \/ Save \/ Finish
        \/ JobDies \/ UNCHANGED vars) => UNCHANGED <<post, sent, plane, blind>>
  BY DEF Store, Judge, Start, PassOver, Upload, CreateItem, Save, Finish, JobDies, vars
<1>. QED BY <1>4, <1>5, <1>8, <1>9, <1>10, <1>11 DEF Next

LEMMA OrderKeeps ==
    ASSUME InOrder, Onward PROVE InOrder'
<1>. SUFFICES ASSUME NEW f \in Observed', NEW g \in Observed', f < g
              PROVE  at'[f] <= at'[g]
  BY DEF InOrder
<1>1. f \in Observed
  BY DEF Onward
<1>2. CASE g \in Observed
  BY <1>1, <1>2 DEF InOrder, Onward
<1>3. CASE g \notin Observed
  BY <1>1, <1>3 DEF Onward
<1>. QED BY <1>2, <1>3

(* A later time is of no earlier run of ticks. *)
LEMMA DivisionOrders ==
    ASSUME NEW s \in Nat, NEW t \in Nat, s <= t, NEW k \in Nat \ {0}
    PROVE  s \div k \in Nat /\ t \div k \in Nat /\ s \div k <= t \div k
<1>1. ASSUME NEW i \in Nat
      PROVE  /\ i \div k \in Nat /\ k * (i \div k) \in Nat
             /\ k * (i \div k) <= i /\ i < k * (i \div k) + k
  OBVIOUS
<1>2. ASSUME NEW a \in Nat, NEW b \in Nat, a < b PROVE k * a + k <= k * b
  <2>1. PICK c \in Nat : b = a + 1 + c
    <3>1. b - a - 1 \in Nat /\ b = a + 1 + (b - a - 1)
      BY <1>2
    <3>. QED BY <3>1
  <2>2. k * b = k * a + k + k * c /\ k * c \in Nat /\ k * a \in Nat
    BY <2>1
  <2>. QED BY <2>2
<1>3. PICK a \in Nat, b \in Nat : a = t \div k /\ b = s \div k
  BY <1>1
<1>4. PICK p \in Nat, q \in Nat : p = k * a /\ q = k * b
  OBVIOUS
<1>5. q <= s /\ t < p + k
  BY <1>1, <1>3, <1>4
<1>6. a < b => p + k <= q
  BY <1>2, <1>4
<1>7. b <= a
  BY <1>5, <1>6
<1>. QED BY <1>3, <1>7

LEMMA DaysGoOn ==
    ASSUME InOrder, NEW n \in Nat, Observed = 1 .. n, at \in [Observed -> Nat],
           NEW f \in Observed, NEW g \in Observed, f <= g
    PROVE  Day(f) \in Nat /\ Day(g) \in Nat /\ Day(f) <= Day(g)
<1>1. at[f] <= at[g]
  BY DEF InOrder
<1>2. at[f] \in Nat /\ at[g] \in Nat /\ DayTicks \in Nat \ {0}
  BY FrameStoreAssumption
<1>. QED BY <1>1, <1>2, DivisionOrders DEF Day

(* The last of a day's slots. *)
LastOfDay == (DayTicks - 1) \div KeyTicks

LEMMA DaySlots ==
    ASSUME NEW f \in Observed, at \in [Observed -> Nat]
    PROVE  DaySlot(f) = <<Day(f), DaySlot(f)[2]>> /\ DaySlot(f)[2] \in 0 .. LastOfDay
           /\ DaySlot(f)[1] = Day(f)
<1>1. at[f] \in Nat /\ {DayTicks, KeyTicks} \subseteq Nat \ {0}
  BY FrameStoreAssumption
<1>2. at[f] % DayTicks \in Nat /\ DayTicks - 1 \in Nat /\ at[f] % DayTicks <= DayTicks - 1
  BY <1>1
<1>3. /\ (at[f] % DayTicks) \div KeyTicks \in Nat /\ LastOfDay \in Nat
      /\ (at[f] % DayTicks) \div KeyTicks <= LastOfDay
  BY <1>1, <1>2, DivisionOrders DEF LastOfDay
<1>. QED BY <1>3 DEF DaySlot

(* The cut takes no slot of the day reached: the keys of a whole day stay. *)
LEMMA CutIsBehind ==
    ASSUME InOrder, NEW n \in Nat, Observed = 1 .. n, at \in [Observed -> Nat],
           NEW u \in Observed,
           NEW seen \in SUBSET SlotsOf({f \in Observed : f <= u}),
           NEW s \in seen \ Cut(seen)
    PROVE  Behind(s, u)
<1> DEFINE D == Day(u)
           days == {<<D, j>> : j \in 0 .. LastOfDay}
           after == {t \in seen : Sorts(s, t)}
<1>1. /\ LastOfDay \in Nat /\ KeptSlots \in Nat /\ LastOfDay < KeptSlots /\ D \in Nat
  <2>1. {DayTicks, KeyTicks} \subseteq Nat \ {0}
    BY FrameStoreAssumption
  <2>2. LastOfDay \in Nat
    BY <2>1, DivisionOrders DEF LastOfDay
  <2>. QED BY <2>2, DaysGoOn, PublishingAssumption DEF LastOfDay
<1>2. ASSUME NEW t \in seen
      PROVE  t[1] \in Nat /\ t[1] <= D /\ (t[1] = D => t \in days)
  <2>1. PICK f \in Observed : f <= u /\ t = DaySlot(f)
    BY DEF SlotsOf
  <2>2. t = <<Day(f), t[2]>> /\ t[2] \in 0 .. LastOfDay /\ t[1] = Day(f)
    BY <2>1, DaySlots
  <2>3. Day(f) \in Nat /\ Day(f) <= D
    BY <2>1, DaysGoOn
  <2>. QED BY <2>2, <2>3
<1>3. IsFiniteSet(days) /\ Cardinality(days) <= LastOfDay + 1 /\ Cardinality(days) \in Nat
  <2> DEFINE h == [j \in 0 .. LastOfDay |-> <<D, j>>]
  <2>1. h \in Surjection(0 .. LastOfDay, days)
    BY DEF Surjection
  <2>2. IsFiniteSet(0 .. LastOfDay) /\ Cardinality(0 .. LastOfDay) = LastOfDay + 1
    <3>1. 0 \in Int /\ LastOfDay \in Int /\ ~(0 > LastOfDay)
      BY <1>1
    <3>. HIDE DEF h, days, D, after
    <3>2. IsFiniteSet(0 .. LastOfDay) /\ Cardinality(0 .. LastOfDay) = LastOfDay - 0 + 1
      BY <3>1, FS_Interval
    <3>. QED BY <1>1, <3>2
  <2>. HIDE DEF h, days
  <2>3. IsFiniteSet(days) /\ Cardinality(days) <= LastOfDay + 1
    BY <2>1, <2>2, FS_Surjection
  <2>. QED BY <2>3, FS_CardinalityType
<1>4. ASSUME s[1] = D PROVE FALSE
  <2>1. s \in days
    BY <1>2, <1>4
  <2>2. s \notin after
    <3>1. s[2] \in Nat
      BY <1>1, <2>1
    <3>2. Text(s[2]) \in Nat
      BY <3>1 DEF Text
    <3>. QED BY <1>1, <1>4, <3>2 DEF Sorts
  <2>3. \A t \in after : t \in days
    <3>. SUFFICES ASSUME NEW t \in after PROVE t \in days
      OBVIOUS
    <3>1. D < t[1] \/ D = t[1]
      BY <1>4 DEF Sorts
    <3>2. t[1] \in Nat /\ t[1] <= D
      BY <1>2
    <3>. QED BY <1>1, <1>2, <3>1, <3>2
  <2>. HIDE DEF days, after
  <2>4. IsFiniteSet(days \ {s}) /\ Cardinality(days \ {s}) = Cardinality(days) - 1
    BY <1>3, <2>1, FS_RemoveElement
  <2>5. after \in SUBSET (days \ {s})
    BY <2>2, <2>3
  <2>6. IsFiniteSet(after) /\ Cardinality(after) <= Cardinality(days \ {s})
    BY <2>4, <2>5, FS_Subset
  <2>7. Cardinality(after) \in Nat
    BY <2>6, FS_CardinalityType
  <2>8. Cardinality(after) < KeptSlots
    BY <1>1, <1>3, <2>4, <2>6, <2>7
  <2>. QED BY <2>8 DEF after, Cut
<1>5. s[1] \in Nat /\ s[1] <= D
  BY <1>2
<1>. QED BY <1>1, <1>4, <1>5 DEF Behind

(* The next pick is the least of them. *)
LEMMA FirstIsPicked ==
    ASSUME todo \in SUBSET Nat, todo # {} PROVE First \in todo /\ \A f \in todo : First <= f
  BY Least DEF First

(* Two frames of a slot are not both picked. *)
LEMMA PickedIsOne ==
    ASSUME Observed \in SUBSET Nat, NEW f \in Observed, NEW g \in Observed,
           WouldPick(f), WouldPick(g), DaySlot(f) = DaySlot(g)
    PROVE  f = g
<1>1. f \in Nat /\ g \in Nat
  OBVIOUS
<1>2. ~(f < g) /\ ~(g < f)
  BY DEF WouldPick
<1>. QED BY <1>1, <1>2

(* More frames and judgements take nothing from what the job relies on. *)
LEMMA ArchivingGoesOn ==
    ASSUME InOrder, InOrder', Onward, Archiving, TypeOK, judged' \in Observed' \union {None},
           judged <= judged',
           UNCHANGED <<job, todo, upTo, slots, lastSeq, savedSlots, blobs, docs, forgotten>>
    PROVE  Archiving'
<1>1. /\ Observed \in SUBSET Nat /\ Observed \subseteq Observed'
      /\ todo \union docs \subseteq Observed
      /\ judged \in Nat /\ judged' \in Nat /\ None \notin Observed /\ None \notin Observed'
      /\ \A f \in Observed : DaySlot(f)' = DaySlot(f) /\ Day(f)' = Day(f)
  BY DEF Onward, TypeOK, None, DaySlot, Day
<1>2. ASSUME NEW f \in Observed, WouldPick(f) PROVE WouldPick(f)'
  <2>1. /\ f \in Nat /\ f <= Newest /\ lastSeq' < f /\ f <= judged'
    BY <1>1, <1>2 DEF Onward, WouldPick
  <2>2. ASSUME NEW g \in Observed', lastSeq < g, g < f PROVE DaySlot(g)' # DaySlot(f)'
    <3>1. g \in Observed
      BY <2>1, <2>2 DEF Onward
    <3>. QED BY <1>1, <1>2, <2>2, <3>1 DEF WouldPick
  <2>. QED BY <2>1, <2>2 DEF WouldPick
<1>3. ASSUME NEW s, NEW u, Behind(s, u) PROVE u \in Observed' /\ s[1] < at'[u] \div DayTicks
  BY <1>1, <1>3 DEF Behind, Day
<1>4. ASSUME NEW s, s[1] \in Nat, Over(s) PROVE Over(s)'
  <2>1. PICK j \in Observed : j = judged
    BY <1>4 DEF Over, Behind
  <2>2. PICK k \in Observed' : k = judged' /\ j <= k
    BY <1>1, <2>1 DEF None
  <2>3. s[1] < Day(j)'
    BY <1>1, <1>4, <2>1 DEF Over, Behind
  <2>4. ASSUME NEW g \in Observed', j <= g
        PROVE  Day(j)' \in Nat /\ Day(g)' \in Nat /\ Day(j)' <= Day(g)'
    <3>1. at'[j] <= at'[g] /\ at'[j] \in Nat /\ at'[g] \in Nat
      <4>1. j \in Observed' /\ j \in Nat /\ g \in Nat /\ at' \in [Observed' -> Nat]
        BY <1>1, <2>1 DEF Onward
      <4>2. j = g \/ j < g
        BY <2>4, <4>1
      <4>. QED BY <4>1, <4>2 DEF InOrder
    <3>2. DayTicks \in Nat \ {0}
      BY FrameStoreAssumption
    <3>3. /\ at'[j] \div DayTicks \in Nat /\ at'[g] \div DayTicks \in Nat
          /\ at'[j] \div DayTicks <= at'[g] \div DayTicks
      BY <3>1, <3>2, DivisionOrders
    <3>. QED BY <3>3 DEF Day
  <2>5. s[1] < Day(k)'
    <3>1. Day(j)' \in Nat /\ Day(k)' \in Nat /\ Day(j)' <= Day(k)'
      BY <2>2, <2>4
    <3>. QED BY <1>4, <2>3, <3>1
  <2>6. ASSUME NEW g \in Observed', lastSeq < g PROVE DaySlot(g)' # s
    <3>1. CASE g \in Observed
      BY <1>1, <1>4, <2>6, <3>1 DEF Over
    <3>2. CASE g \notin Observed
      <4>1. j <= g
        BY <2>1, <3>2 DEF Onward
      <4>2. DaySlot(g)'[1] = Day(g)'
        BY DEF DaySlot, Day
      <4>. QED BY <2>3, <2>4, <4>1, <4>2
    <3>. QED BY <3>1, <3>2
  <2>. QED BY <2>2, <2>5, <2>6 DEF Over, Behind, Day
<1>5. SlotsOf(JudgedFrames) \subseteq SlotsOf(JudgedFrames)'
  BY <1>1 DEF SlotsOf, JudgedFrames
<1>6. lastSeq \in Observed' \union {None} /\ lastSeq <= judged'
  <2>1. lastSeq \in Nat
    BY <1>1 DEF Archiving, None
  <2>. QED BY <1>1, <2>1 DEF Archiving
<1>7. \A f \in docs : IF lastSeq < f THEN WouldPick(f)' ELSE Covered(f)'
  <2>1. \A f \in docs : Covered(f) => Covered(f)'
    <3>. SUFFICES ASSUME NEW f \in docs, Covered(f) PROVE Covered(f)'
      OBVIOUS
    <3>1. f \in Observed /\ DaySlot(f)' = DaySlot(f) /\ DaySlot(f)[1] \in Nat
      <4>1. Observed = 1 .. Newest /\ Newest \in Nat /\ at \in [Observed -> Nat]
        BY DEF Onward
      <4>2. f \in Observed
        BY <1>1
      <4>3. Day(f) \in Nat /\ DaySlot(f)[1] = Day(f)
        BY <4>1, <4>2, DaysGoOn DEF DaySlot
      <4>. QED BY <1>1, <4>2, <4>3
    <3>2. Over(DaySlot(f)) => \E s : s = DaySlot(f) /\ Over(s)'
      BY <1>4, <3>1
    <3>3. Over(DaySlot(f)) => Over(DaySlot(f))'
      BY <3>1, <3>2 DEF Over, Behind
    <3>. QED BY <3>1, <3>3 DEF Covered
  <2>. QED BY <1>1, <1>2, <2>1 DEF Archiving
<1>8. Running'
  <2>1. \A f \in todo \union docs : DaySlot(f)' = DaySlot(f)
    BY <1>1
  <2>2. SUFFICES ASSUME job # "idle"
                 PROVE  /\ upTo \in Observed' /\ upTo <= judged'
                        /\ \A f \in todo \union docs :
                              f <= upTo /\ (DaySlot(f) \in slots \union forgotten
                                            \/ Behind(DaySlot(f), upTo)')
    BY <2>1 DEF Running, Behind
  <2>3. /\ upTo \in Observed /\ upTo <= judged
        /\ \A f \in todo \union docs :
              f <= upTo /\ (DaySlot(f) \in slots \union forgotten \/ Behind(DaySlot(f), upTo))
    BY <2>2 DEF Archiving, Running
  <2>4. upTo \in Observed' /\ upTo <= judged'
    BY <1>1, <2>3
  <2>5. \A f \in todo \union docs : Behind(DaySlot(f), upTo) => Behind(DaySlot(f), upTo)'
    <3>1. \A f \in todo \union docs : Behind(DaySlot(f), upTo) =>
              upTo \in Observed' /\ DaySlot(f)[1] < at'[upTo] \div DayTicks
      BY <1>3
    <3>. QED BY <2>1, <3>1 DEF Behind, Day
  <2>. QED BY <2>3, <2>4, <2>5
<1>9. First' = First
  BY DEF First
<1>10. \A f, g \in todo \union docs :
           DaySlot(f)' = DaySlot(g)' => f = g \/ DaySlot(f)' \in forgotten
  BY <1>1 DEF Archiving
<1>11. \A f \in todo : WouldPick(f)'
  BY <1>1, <1>2 DEF Archiving
<1>12. /\ savedSlots \union slots \subseteq SlotsOf(JudgedFrames)'
       /\ docs \subseteq blobs /\ (job \in {"blob", "doc"} => todo # {} /\ First \in blobs)
  BY <1>5 DEF Archiving
<1>. QED BY <1>6, <1>7, <1>8, <1>9, <1>10, <1>11, <1>12 DEF Archiving

(* The job's own steps: no frame comes, no row is judged. *)
LEMMA SameFrames ==
    ASSUME at' = at, judged' = judged
    PROVE  /\ Observed' = Observed /\ JudgedFrames' = JudgedFrames
           /\ \A f : DaySlot(f)' = DaySlot(f) /\ Day(f)' = Day(f)
           /\ \A s, u : Behind(s, u)' <=> Behind(s, u)
           /\ lastSeq' = lastSeq => /\ \A f : WouldPick(f)' <=> WouldPick(f)
                                    /\ \A s : Over(s)' <=> Over(s)
           /\ \A S : SlotsOf(S)' = SlotsOf(S)
  BY DEF Observed, JudgedFrames, DaySlot, Day, Behind, WouldPick, Over, SlotsOf

LEMMA StartKeeps ==
    ASSUME InOrder, Onward, TypeOK, Archiving, Start PROVE Archiving'
<1> DEFINE picks == Select(NewRows)
           seen == savedSlots \union SlotsOf(picks)
<1>1. /\ Observed \in SUBSET Nat /\ todo \union docs \subseteq Observed
      /\ judged \in Nat /\ None \notin Observed /\ lastSeq \in Nat
      /\ Observed = 1 .. Newest /\ Newest \in Nat /\ at \in [Observed -> Nat]
  BY DEF Onward, TypeOK, None, Archiving
<1>2. /\ job = "idle" /\ NewRows # {} /\ todo' = picks /\ job' = "next"
      /\ slots' = Cut(seen) /\ upTo' = CHOOSE f \in NewRows : \A g \in NewRows : g <= f
      /\ UNCHANGED <<at, judged, lastSeq, savedSlots, blobs, docs, forgotten>>
  BY DEF Start, storeVars, archiveVars, savedVars
<1>3. ASSUME NEW f \in picks
      PROVE  f \in Observed /\ DaySlot(f) \notin savedSlots /\ WouldPick(f)
  <2>1. f \in NewRows /\ DaySlot(f) \notin savedSlots
        /\ \A g \in NewRows : g < f => DaySlot(g) # DaySlot(f)
    BY DEF Select
  <2>2. f \in Observed /\ lastSeq < f /\ f <= judged
    BY <2>1 DEF NewRows
  <2>3. ASSUME NEW g \in Observed, lastSeq < g, g < f PROVE DaySlot(g) # DaySlot(f)
    <3>1. g <= judged
      BY <1>1, <2>2, <2>3
    <3>2. g \in NewRows
      BY <2>3, <3>1 DEF NewRows
    <3>. QED BY <2>1, <2>3, <3>2
  <2>. QED BY <2>1, <2>2, <2>3 DEF WouldPick
<1>4. ASSUME NEW d \in Observed, WouldPick(d), DaySlot(d) \notin savedSlots
      PROVE  d \in picks
  <2>1. d \in NewRows
    BY <1>4 DEF WouldPick, NewRows
  <2>2. \A g \in NewRows : g < d => DaySlot(g) # DaySlot(d)
    BY <1>4 DEF WouldPick, NewRows
  <2>. QED BY <1>4, <2>1, <2>2 DEF Select
<1>. HIDE DEF picks
<1>5. upTo' = judged /\ judged \in Observed
  <2>1. PICK f \in NewRows : TRUE
    BY <1>2
  <2>2. f \in Observed /\ lastSeq < f /\ f <= judged
    BY <2>1 DEF NewRows
  <2>3. judged \in Observed
    BY <1>1, <2>2 DEF TypeOK, None
  <2>4. judged \in NewRows
    BY <1>1, <2>2, <2>3 DEF NewRows
  <2>5. \A g \in NewRows : g \in Nat /\ g <= judged
    BY <1>1 DEF NewRows
  <2>6. upTo' \in NewRows /\ \A g \in NewRows : g <= upTo'
    BY <1>2, <2>4, <2>5
  <2>7. judged <= upTo' /\ upTo' \in Nat /\ upTo' <= judged
    BY <2>4, <2>5, <2>6
  <2>. QED BY <1>1, <2>3, <2>7
<1>6. seen \subseteq SlotsOf(JudgedFrames)
  <2>1. SlotsOf(picks) \subseteq SlotsOf(JudgedFrames)
    BY <1>3 DEF SlotsOf, JudgedFrames, WouldPick
  <2>. QED BY <2>1 DEF Archiving
<1>7. \A s \in seen : s \in slots' \/ Behind(s, judged)
  <2>1. JudgedFrames = {f \in Observed : f <= judged}
    BY DEF JudgedFrames
  <2>. HIDE DEF seen
  <2>2. ASSUME NEW s \in seen \ Cut(seen) PROVE Behind(s, judged)
    BY <1>1, <1>5, <1>6, <2>1, CutIsBehind
  <2>. QED BY <1>2, <2>2
<1>8. ASSUME NEW f \in docs PROVE DaySlot(f) \in seen \union forgotten \/ Over(DaySlot(f))
  <2>1. CASE lastSeq < f
    <3>1. WouldPick(f)
      BY <2>1 DEF Archiving
    <3>2. DaySlot(f) \in savedSlots \/ f \in picks
      BY <1>1, <1>4, <3>1
    <3>. QED BY <3>2 DEF SlotsOf
  <2>2. CASE ~(lastSeq < f)
    <3>1. Covered(f)
      BY <2>2 DEF Archiving
    <3>. QED BY <1>2, <3>1 DEF Covered
  <2>. QED BY <2>1, <2>2
<1>9. \A f \in docs : f <= judged
  <2>. SUFFICES ASSUME NEW f \in docs PROVE f <= judged
    OBVIOUS
  <2>1. lastSeq <= judged /\ f \in Nat
    BY <1>1 DEF Archiving
  <2>2. CASE lastSeq < f
    BY <2>2 DEF Archiving, WouldPick
  <2>3. CASE ~(lastSeq < f)
    BY <1>1, <2>1, <2>3
  <2>. QED BY <2>2, <2>3
<1>10. Running'
  <2>1. ASSUME NEW f \in picks \union docs
        PROVE  f <= judged /\ (DaySlot(f) \in slots' \union forgotten
                               \/ Behind(DaySlot(f), judged))
    <3>1. CASE f \in picks
      <4>1. f <= judged
        BY <1>3, <3>1 DEF WouldPick
      <4>2. DaySlot(f) \in seen
        BY <3>1 DEF SlotsOf
      <4>. QED BY <1>7, <4>1, <4>2
    <3>2. CASE f \in docs
      BY <1>7, <1>8, <1>9, <3>2 DEF Over
    <3>. QED BY <3>1, <3>2
  <2>2. /\ Observed' = Observed /\ judged' = judged /\ \A f : DaySlot(f)' = DaySlot(f)
        /\ upTo' = judged /\ todo' \union docs' = picks \union docs /\ forgotten' = forgotten
        /\ judged \in Observed /\ judged <= judged
    BY <1>1, <1>2, <1>5, SameFrames
  <2>3. ASSUME NEW s, Behind(s, judged) PROVE Behind(s, upTo)'
    BY <1>2, <2>2, <2>3 DEF Behind, Day, Observed
  <2>. QED BY <2>1, <2>2, <2>3 DEF Running
<1>11. ASSUME NEW f \in docs, NEW g \in picks, DaySlot(f) = DaySlot(g)
       PROVE  f = g \/ DaySlot(f) \in forgotten
  <2>1. g \in Observed /\ DaySlot(g) \notin savedSlots /\ WouldPick(g) /\ lastSeq < g
    BY <1>3 DEF WouldPick
  <2>2. CASE lastSeq < f
    <3>1. WouldPick(f) /\ f \in Observed
      BY <1>1, <2>2 DEF Archiving
    <3>. QED BY <1>1, <1>11, <2>1, <3>1, PickedIsOne
  <2>3. CASE ~(lastSeq < f)
    <3>1. Covered(f)
      BY <2>3 DEF Archiving
    <3>2. ~Over(DaySlot(f))
      BY <1>11, <2>1 DEF Over
    <3>. QED BY <1>2, <1>11, <2>1, <3>1, <3>2 DEF Covered
  <2>. QED BY <2>2, <2>3
<1>12. ASSUME NEW f \in picks \union docs, NEW g \in picks \union docs,
              DaySlot(f) = DaySlot(g)
       PROVE  f = g \/ DaySlot(f) \in forgotten
  <2>1. CASE f \in docs /\ g \in docs
    BY <1>12, <2>1 DEF Archiving
  <2>2. CASE f \in picks /\ g \in picks
    <3>1. f \in Observed /\ g \in Observed /\ WouldPick(f) /\ WouldPick(g)
      BY <1>3, <2>2
    <3>. QED BY <1>1, <1>12, <3>1, PickedIsOne
  <2>3. CASE f \in docs /\ g \in picks
    BY <1>11, <1>12, <2>3
  <2>4. CASE f \in picks /\ g \in docs
    BY <1>11, <1>12, <2>4
  <2>. QED BY <2>1, <2>2, <2>3, <2>4
<1>13. \A f \in docs : IF lastSeq < f THEN WouldPick(f) ELSE Covered(f)'
  <2>1. \A f \in docs : Covered(f) => Covered(f)'
    BY <1>2, SameFrames DEF Covered
  <2>. QED BY <2>1 DEF Archiving
<1>14. slots' \subseteq seen
  BY <1>2 DEF Cut
<1>15. /\ lastSeq' \in Observed' \union {None} /\ lastSeq' <= judged'
       /\ savedSlots' \union slots' \subseteq SlotsOf(JudgedFrames)'
       /\ docs' \subseteq blobs'
  <2>1. SlotsOf(JudgedFrames)' = SlotsOf(JudgedFrames)
    BY <1>2, SameFrames DEF SlotsOf
  <2>. QED BY <1>2, <1>6, <1>14, <2>1, SameFrames DEF Archiving
<1>16. \A f \in todo' : WouldPick(f)'
  BY <1>2, <1>3, SameFrames
<1>17. \A f \in docs' : IF lastSeq' < f THEN WouldPick(f)' ELSE Covered(f)'
  BY <1>2, <1>13, SameFrames
<1>18. \A f, g \in todo' \union docs' :
           DaySlot(f)' = DaySlot(g)' => f = g \/ DaySlot(f)' \in forgotten'
  BY <1>2, <1>12, SameFrames
<1>. QED BY <1>2, <1>10, <1>15, <1>16, <1>17, <1>18 DEF Archiving

(* A step of the job that leaves its picks or one less, saves its keys or  *)
(* does not, and archives nothing.                                         *)
LEMMA SaveKeeps ==
    ASSUME InOrder, Onward, TypeOK, Archiving, PassOver \/ Save PROVE Archiving'
<1>1. /\ Observed \in SUBSET Nat /\ todo \union docs \subseteq Observed
      /\ judged \in Nat /\ None \notin Observed /\ lastSeq \in Nat
  BY DEF Onward, TypeOK, None, Archiving
<1>2. /\ todo # {} /\ todo' = todo \ {First} /\ job \in {"next", "doc"} /\ job' = "next"
      /\ UNCHANGED <<at, judged, upTo, slots, blobs, docs, forgotten>>
      /\ \/ lastSeq' = lastSeq /\ savedSlots' = savedSlots
         \/ lastSeq' = First /\ savedSlots' = slots
  BY DEF PassOver, Save, SlotsSaved, storeVars, archiveVars, savedVars, Archiving
<1>3. First \in todo /\ First \in Observed /\ First \in Nat /\ lastSeq < First
      /\ First <= judged /\ \A f \in todo : First <= f
  <2>1. todo \in SUBSET Nat
    BY <1>1
  <2>2. First \in todo /\ \A f \in todo : First <= f
    BY <1>2, <2>1, FirstIsPicked
  <2>. QED BY <1>1, <2>2 DEF Archiving, WouldPick
<1>4. /\ lastSeq' \in Observed \union {None} /\ lastSeq' <= judged
      /\ lastSeq <= lastSeq' /\ lastSeq' \in Nat
      /\ lastSeq' = lastSeq \/ lastSeq' = First
  BY <1>1, <1>2, <1>3 DEF Archiving
<1>5. ASSUME NEW f \in Observed, WouldPick(f), lastSeq' < f PROVE WouldPick(f)'
  <2>1. /\ f <= judged
        /\ \A g \in Observed : (lastSeq < g /\ g < f) => DaySlot(g) # DaySlot(f)
    BY <1>5 DEF WouldPick
  <2>2. \A g \in Observed : lastSeq' < g => lastSeq < g
    BY <1>1, <1>4
  <2>. QED BY <1>2, <1>5, <2>1, <2>2, SameFrames DEF WouldPick
<1>6. \A f \in todo' : WouldPick(f)'
  <2>. SUFFICES ASSUME NEW f \in todo' PROVE WouldPick(f)'
    OBVIOUS
  <2>1. f \in todo /\ f # First /\ f \in Observed /\ f \in Nat
    BY <1>1, <1>2
  <2>2. lastSeq' < f
    <3>1. lastSeq < f /\ First <= f
      BY <1>3, <2>1 DEF Archiving, WouldPick
    <3>. QED BY <1>1, <1>3, <1>4, <2>1, <3>1
  <2>. QED BY <1>5, <2>1, <2>2 DEF Archiving
<1>7. \A f \in docs' : IF lastSeq' < f THEN WouldPick(f)' ELSE Covered(f)'
  <2>. SUFFICES ASSUME NEW f \in docs PROVE IF lastSeq' < f THEN WouldPick(f)' ELSE Covered(f)'
    BY <1>2
  <2>1. f \in Observed /\ f \in Nat
    BY <1>1
  <2>2. CASE lastSeq' < f
    <3>1. lastSeq < f
      BY <1>1, <1>4, <2>1, <2>2
    <3>. QED BY <1>5, <2>1, <2>2, <3>1 DEF Archiving
  <2>3. CASE ~(lastSeq' < f) /\ savedSlots' = slots
    BY <1>2, <2>3 DEF Covered
  <2>4. CASE ~(lastSeq' < f) /\ lastSeq' = lastSeq /\ savedSlots' = savedSlots
    <3>1. Covered(f)
      BY <2>4 DEF Archiving
    <3>2. DaySlot(f)' = DaySlot(f) /\ (Over(DaySlot(f))' <=> Over(DaySlot(f)))
      BY <1>2, <2>4, SameFrames DEF Over, Behind, Day
    <3>. QED BY <1>2, <2>4, <3>1, <3>2 DEF Covered
  <2>. QED BY <1>2, <2>2, <2>3, <2>4
<1>8. Running'
  <2>1. /\ todo' \union docs' \subseteq todo \union docs /\ Observed' = Observed
        /\ \A f : DaySlot(f)' = DaySlot(f)
    BY <1>2, SameFrames
  <2>2. /\ upTo \in Observed /\ upTo <= judged
        /\ \A f \in todo \union docs :
              f <= upTo /\ (DaySlot(f) \in slots \union forgotten \/ Behind(DaySlot(f), upTo))
    BY <1>2 DEF Archiving, Running
  <2>3. ASSUME NEW s, Behind(s, upTo) PROVE Behind(s, upTo)'
    BY <1>2, <2>1, <2>3 DEF Behind, Day
  <2>. QED BY <1>2, <2>1, <2>2, <2>3 DEF Running
<1>9. \A f, g \in todo' \union docs' :
          DaySlot(f)' = DaySlot(g)' => f = g \/ DaySlot(f)' \in forgotten'
  <2>1. todo' \union docs' \subseteq todo \union docs
    BY <1>2
  <2>. QED BY <1>2, <2>1, SameFrames DEF Archiving
<1>10. /\ lastSeq' \in Observed' \union {None} /\ lastSeq' <= judged'
       /\ savedSlots' \union slots' \subseteq SlotsOf(JudgedFrames)'
       /\ docs' \subseteq blobs'
  <2>1. SlotsOf(JudgedFrames)' = SlotsOf(JudgedFrames)
    BY <1>2, SameFrames DEF SlotsOf
  <2>. QED BY <1>2, <1>4, <2>1, SameFrames DEF Archiving
<1>. QED BY <1>2, <1>6, <1>7, <1>8, <1>9, <1>10 DEF Archiving

(* Where the job ends, what it cut is behind its last row; where it dies,  *)
(* what it cut with rows to come is forgotten.                             *)
LEMMA EndKeeps ==
    ASSUME InOrder, Onward, TypeOK, Archiving, Finish \/ JobDies PROVE Archiving'
<1>1. /\ Observed \in SUBSET Nat /\ todo \union docs \subseteq Observed
      /\ judged \in Nat /\ None \notin Observed /\ lastSeq \in Nat
      /\ Observed = 1 .. Newest /\ Newest \in Nat /\ at \in [Observed -> Nat]
  BY DEF Onward, TypeOK, None, Archiving
<1>2. /\ todo' = {} /\ job # "idle" /\ job' = "idle" /\ slots' = {}
      /\ UNCHANGED <<at, judged, blobs, docs>>
      /\ \/ lastSeq' = upTo /\ savedSlots' = slots /\ forgotten' = forgotten
         \/ lastSeq' = lastSeq /\ savedSlots' = savedSlots
            /\ forgotten' = forgotten \union Lost
  BY DEF Finish, JobDies, SlotsSaved, storeVars, archiveVars, savedVars
<1>3. /\ upTo \in Observed /\ upTo <= judged /\ upTo \in Nat /\ judged \in Observed
      /\ \A f \in todo \union docs :
            f <= upTo /\ (DaySlot(f) \in slots \union forgotten \/ Behind(DaySlot(f), upTo))
  <2>1. /\ upTo \in Observed /\ upTo <= judged
        /\ \A f \in todo \union docs :
              f <= upTo /\ (DaySlot(f) \in slots \union forgotten
                            \/ Behind(DaySlot(f), upTo))
    BY <1>2 DEF Archiving, Running
  <2>2. judged \in Observed
    BY <1>1, <2>1 DEF TypeOK, None
  <2>. QED BY <1>1, <2>1, <2>2
<1>4. ASSUME NEW f \in Observed, Behind(DaySlot(f), upTo), NEW g \in Observed, upTo <= g
      PROVE  DaySlot(f)[1] < Day(g) /\ DaySlot(g) # DaySlot(f)
  <2>1. Day(f) \in Nat /\ DaySlot(f)[1] = Day(f) /\ DaySlot(g)[1] = Day(g)
    BY <1>1, DaysGoOn DEF DaySlot
  <2>2. Day(upTo) \in Nat /\ Day(g) \in Nat /\ Day(upTo) <= Day(g)
    BY <1>1, <1>3, <1>4, DaysGoOn
  <2>3. Day(f) < Day(upTo)
    BY <1>4, <2>1 DEF Behind
  <2>. QED BY <2>1, <2>2, <2>3
<1>5. ASSUME NEW f \in docs PROVE IF lastSeq' < f THEN WouldPick(f)' ELSE Covered(f)'
  <2>1. f \in Observed /\ f \in Nat /\ DaySlot(f)' = DaySlot(f) /\ f <= upTo
    BY <1>1, <1>2, <1>3, SameFrames
  <2>2. ASSUME Behind(DaySlot(f), upTo),
               \A g \in Observed : (lastSeq' < g /\ g < upTo) => DaySlot(g) # DaySlot(f)
        PROVE  Over(DaySlot(f))'
    <3>1. Behind(DaySlot(f), judged)
      BY <1>3, <1>4, <2>1, <2>2 DEF Behind
    <3>2. \A g \in Observed : lastSeq' < g => DaySlot(g) # DaySlot(f)
      <4>. SUFFICES ASSUME NEW g \in Observed, lastSeq' < g PROVE DaySlot(g) # DaySlot(f)
        OBVIOUS
      <4>1. g < upTo \/ upTo <= g
        BY <1>1, <1>3
      <4>. QED BY <1>4, <2>1, <2>2, <4>1
    <3>. QED BY <1>2, <3>1, <3>2, SameFrames DEF Over, Behind, Day
  <2>3. CASE lastSeq' = upTo /\ savedSlots' = slots /\ forgotten' = forgotten
    <3>1. ~(lastSeq' < f)
      BY <1>3, <2>1, <2>3
    <3>2. \A g \in Observed : ~(lastSeq' < g /\ g < upTo)
      BY <1>1, <1>3, <2>3
    <3>3. DaySlot(f) \in slots \union forgotten \/ Over(DaySlot(f))'
      BY <1>3, <2>2, <3>2
    <3>. QED BY <2>1, <2>3, <3>1, <3>3 DEF Covered
  <2>4. CASE lastSeq' = lastSeq /\ savedSlots' = savedSlots
             /\ forgotten' = forgotten \union Lost
    <3>1. CASE lastSeq < f
      BY <1>2, <2>1, <2>4, <3>1, SameFrames DEF Archiving
    <3>2. CASE ~(lastSeq < f)
      <4>1. Covered(f)
        BY <3>2 DEF Archiving
      <4>2. CASE DaySlot(f) \in savedSlots \union forgotten
        BY <2>1, <2>4, <3>2, <4>2 DEF Covered
      <4>3. CASE Over(DaySlot(f))
        <5>1. Over(DaySlot(f))'
          BY <1>2, <2>1, <2>4, <4>3, SameFrames DEF Over, Behind, Day
        <5>. QED BY <2>4, <3>2, <5>1 DEF Covered
      <4>4. CASE savedSlots = slots /\ DaySlot(f) \notin savedSlots \union forgotten
        <5>1. Behind(DaySlot(f), upTo)
          BY <1>3, <4>4
        <5>2. CASE DaySlot(f) \in SlotsOf(NewRows)
          <6>1. f <= lastSeq
            BY <1>1, <2>1, <3>2
          <6>2. DaySlot(f) \in Lost
            BY <4>4, <5>2, <6>1 DEF Lost, SlotsOf
          <6>. QED BY <2>1, <2>4, <3>2, <6>2 DEF Covered
        <5>3. CASE DaySlot(f) \notin SlotsOf(NewRows)
          <6>1. \A g \in Observed : (lastSeq < g /\ g < upTo) => g \in NewRows
            BY <1>1, <1>3 DEF NewRows
          <6>2. \A g \in Observed : (lastSeq' < g /\ g < upTo) => DaySlot(g) # DaySlot(f)
            BY <2>4, <5>3, <6>1 DEF SlotsOf
          <6>3. Over(DaySlot(f))'
            BY <2>2, <5>1, <6>2
          <6>. QED BY <2>4, <3>2, <6>3 DEF Covered
        <5>. QED BY <5>2, <5>3
      <4>. QED BY <4>1, <4>2, <4>3, <4>4 DEF Covered
    <3>. QED BY <3>1, <3>2
  <2>. QED BY <1>2, <2>3, <2>4
<1>6. \A f, g \in todo' \union docs' :
          DaySlot(f)' = DaySlot(g)' => f = g \/ DaySlot(f)' \in forgotten'
  <2>1. todo' \union docs' \subseteq todo \union docs /\ forgotten \subseteq forgotten'
    BY <1>2
  <2>. QED BY <1>2, <2>1, SameFrames DEF Archiving
<1>7. /\ lastSeq' \in Observed' \union {None} /\ lastSeq' <= judged'
      /\ savedSlots' \union slots' \subseteq SlotsOf(JudgedFrames)'
      /\ docs' \subseteq blobs'
  <2>1. SlotsOf(JudgedFrames)' = SlotsOf(JudgedFrames)
    BY <1>2, SameFrames DEF SlotsOf
  <2>2. lastSeq' \in Observed \union {None} /\ lastSeq' <= judged
    BY <1>2, <1>3 DEF Archiving
  <2>3. savedSlots' \union slots' \subseteq savedSlots \union slots
    BY <1>2
  <2>. QED BY <1>2, <2>1, <2>2, <2>3, SameFrames DEF Archiving
<1>8. Running'
  BY <1>2 DEF Running
<1>. QED BY <1>2, <1>5, <1>6, <1>7, <1>8 DEF Archiving

LEMMA ArchiveKeeps ==
    ASSUME InOrder, Onward, TypeOK, Archiving, Upload \/ CreateItem PROVE Archiving'
<1>1. /\ Observed \in SUBSET Nat /\ todo \union docs \subseteq Observed
  BY DEF Onward, TypeOK
<1>2. /\ UNCHANGED <<at, judged, todo, upTo, slots, lastSeq, savedSlots, forgotten>>
      /\ todo # {} /\ job # "idle" /\ job' \in {"blob", "doc"}
      /\ docs' \subseteq docs \union {First} /\ docs' \subseteq blobs'
      /\ First \in blobs'
  BY DEF Upload, CreateItem, storeVars, savedVars, Archiving
<1>3. First \in todo /\ First' = First
  BY <1>1, <1>2, FirstIsPicked DEF First
<1>4. todo' \union docs' \subseteq todo \union docs
  BY <1>2, <1>3
<1>5. /\ Observed' = Observed /\ \A f : DaySlot(f)' = DaySlot(f) /\ (WouldPick(f)' <=> WouldPick(f))
      /\ \A s : Over(s)' <=> Over(s)
  BY <1>2, SameFrames
<1>6. \A f \in docs' : IF lastSeq' < f THEN WouldPick(f)' ELSE Covered(f)'
  <2>. SUFFICES ASSUME NEW f \in docs' PROVE IF lastSeq < f THEN WouldPick(f)' ELSE Covered(f)'
    BY <1>2
  <2>1. CASE f = First
    BY <1>3, <1>5, <2>1 DEF Archiving, WouldPick
  <2>2. CASE f \in docs
    <3>1. Over(DaySlot(f))' <=> Over(DaySlot(f))
      BY <1>2, <1>5 DEF Over, Behind, Day
    <3>2. Covered(f) => Covered(f)'
      BY <1>2, <1>5, <3>1 DEF Covered
    <3>. QED BY <1>5, <2>2, <3>2 DEF Archiving
  <2>. QED BY <1>2, <2>1, <2>2
<1>7. Running'
  <2>1. /\ upTo \in Observed /\ upTo <= judged
        /\ \A f \in todo \union docs :
              f <= upTo /\ (DaySlot(f) \in slots \union forgotten \/ Behind(DaySlot(f), upTo))
    BY <1>2 DEF Archiving, Running
  <2>2. ASSUME NEW s, Behind(s, upTo) PROVE Behind(s, upTo)'
    BY <1>2, <1>5, <2>2 DEF Behind, Day
  <2>. QED BY <1>2, <1>4, <1>5, <2>1, <2>2 DEF Running
<1>8. \A f, g \in todo' \union docs' :
          DaySlot(f)' = DaySlot(g)' => f = g \/ DaySlot(f)' \in forgotten'
  BY <1>2, <1>4, <1>5 DEF Archiving
<1>9. /\ lastSeq' \in Observed' \union {None} /\ lastSeq' <= judged'
      /\ savedSlots' \union slots' \subseteq SlotsOf(JudgedFrames)'
      /\ \A f \in todo' : WouldPick(f)'
  <2>1. SlotsOf(JudgedFrames)' = SlotsOf(JudgedFrames)
    BY <1>2, SameFrames DEF SlotsOf
  <2>. QED BY <1>2, <1>5, <2>1 DEF Archiving
<1>. QED BY <1>2, <1>3, <1>6, <1>7, <1>8, <1>9 DEF Archiving

LEMMA ArchivingKeeps ==
    ASSUME Inv, TypeOK, InOrder, InOrder', Archiving, Onward, [Next]_vars PROVE Archiving'
<1>. USE DEF planeVars, jobVars, savedVars, archiveVars
<1>1. judged \in Nat /\ judged \in Observed' \union {None} /\ Observed' \in SUBSET Nat
  BY DEF Onward, TypeOK, None
<1>2. CASE UNCHANGED <<judged, job, todo, upTo, slots, lastSeq, savedSlots, blobs, docs,
                       forgotten>>
  BY <1>1, <1>2, ArchivingGoesOn
<1>3. CASE Judge
  <2>1. judged' \in Observed /\ judged' > judged /\ Observed \subseteq Observed'
        /\ UNCHANGED <<job, todo, upTo, slots, lastSeq, savedSlots, blobs, docs, forgotten>>
    BY <1>3 DEF Judge, Onward
  <2>2. judged <= judged'
    BY <1>1, <2>1
  <2>. QED BY <2>1, <2>2, ArchivingGoesOn
<1>4. (Store \/ Collect \/ Answered \/ Fails \/ HubRestart \/ UNCHANGED vars) =>
          UNCHANGED <<judged, job, todo, upTo, slots, lastSeq, savedSlots, blobs, docs,
                      forgotten>>
  BY DEF Store, Collect, Answered, Fails, HubRestart, vars
<1>. QED BY <1>2, <1>3, <1>4, StartKeeps, SaveKeeps, EndKeeps, ArchiveKeeps DEF Next

-----------------------------------------------------------------------------
LEMMA ShowsInit == Init => Shows
<1>. SUFFICES ASSUME Init PROVE Shows
  OBVIOUS
<1>1. /\ now = 0 /\ at = <<>> /\ look = <<>> /\ disk = {} /\ manifests = <<>> /\ doomed = {}
      /\ judged = None /\ post = NoPost /\ sent = None /\ blind = {}
      /\ plane = [named |-> None, picture |-> None]
      /\ job = "idle" /\ todo = {} /\ torn = FALSE /\ blobs = {} /\ docs = {}
      /\ lastSeq = None /\ savedSlots = {} /\ slots = {} /\ forgotten = {}
  BY DEF Init, StoreInit
<1>2. Observed = {} /\ DOMAIN manifests = {} /\ DOMAIN look = {}
  BY <1>1 DEF Observed
<1>3. Newest = 0
  BY <1>2, FS_EmptySet DEF Newest
<1>4. TypeOK
  BY <1>1, <1>2 DEF TypeOK, NoPost
<1>5. at \in [Observed -> 0 .. MaxTime] /\ look \in [Observed -> Looks]
  <2>1. look = [f \in Observed |-> look[f]] /\ at = [f \in Observed |-> at[f]]
    BY <1>1, <1>2
  <2>. QED BY <1>2, <2>1
<1>6. StoreTypeOK
  BY <1>1, <1>2, <1>5, FrameStoreAssumption DEF StoreTypeOK
<1>7. Pushing
  BY <1>1, <1>3 DEF Pushing, CarriedForward, NoPost, None
<1>8. Archiving
  BY <1>1 DEF Archiving, Running, None
<1>9. InOrder
  BY <1>2 DEF InOrder
<1>. QED BY <1>4, <1>6, <1>7, <1>8, <1>9 DEF Shows

LEMMA ShowsStep == Inv /\ Shows /\ [Next]_vars => Shows'
<1>. SUFFICES ASSUME Inv, Shows, [Next]_vars PROVE Shows'
  OBVIOUS
<1>1. Store \/ UNCHANGED storeVars
  BY DEF Next, vars, Judge, Collect, Answered, Fails, HubRestart, Start, PassOver,
         Upload, CreateItem, Save, Finish, JobDies
<1>2. Onward
  BY <1>1, StoreGoesOn
<1>3. StoreTypeOK'
  <2>1. CASE Store
    BY <2>1, StoreTyped DEF Shows
  <2>2. CASE UNCHANGED storeVars
    BY <2>2 DEF Shows, StoreTypeOK, storeVars, Observed
  <2>. QED BY <1>1, <2>1, <2>2
<1>4. TypeOK' /\ InOrder' /\ Pushing' /\ Archiving'
  BY <1>2, TypesKeep, OrderKeeps, PushingKeeps, ArchivingKeeps DEF Shows
<1>. QED BY <1>3, <1>4 DEF Shows

(* Over lost answers, restarts of the hub and jobs that die anywhere, the  *)
(* plane's picture is that of the frame it names, and the archive has an   *)
(* image for every document and a second one for a key slot only where a   *)
(* job that died had cut the slot from its keys with rows of it to come    *)
(* (tick of publish.py, select and main of bfp_publish.py).                *)
THEOREM PlaneAndArchiveAreSound == Spec => []Sound
<1>1. Shows => Sound
  BY DEF Shows, Sound, Pushing, Archiving, ArchiveIsOrderly
<1>. QED BY InitInv, InvStep, ShowsInit, ShowsStep, <1>1, PTL DEF Spec

=============================================================================
