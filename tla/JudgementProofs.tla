---------------------------- MODULE JudgementProofs ----------------------------
(***************************************************************************)
(* Proofs about how the hub judges what the modules send: Detections, for  *)
(* any set of modules, rules and requests, and Vision, for any number of   *)
(* frames, moves and regions and any size of ring and queue.               *)
(*                                                                         *)
(* Detections: every handler does one of three things to one alarm: it     *)
(* raises one that was not active, clears one that was, or leaves what the *)
(* board shows of it alone.  That is Transition; the properties of the     *)
(* board follow from it, and only AlarmFollowsReadings looks into the      *)
(* handlers again.                                                         *)
(*                                                                         *)
(* Vision: what is under way between camera and hub is in order (Line), a  *)
(* frame has one place where its reading may still come from (Single), and *)
(* what the hub holds is as current as what it has heard (Handled).        *)
(***************************************************************************)
EXTENDS Detections, Vision, SequenceTheorems, TLAPS

Alarms == [state: {"inactive", "pending", "active"}, ripe: BOOLEAN, acked: BOOLEAN,
           value: Good \union {"none"}, streak: 0..Count, heard: BOOLEAN]

Envelopes == [module: Modules, reading: Readings(rule.type)]
Words == {"raised", "cleared"}

Transition(m) ==
    \E ins \in Alarms :
        \/ inst[m].state # "active" /\ Raise(m, ins)
        \/ inst[m].state = "active" /\ Clear(m, ins)
        \/ /\ ins.acked = inst[m].acked
           /\ (ins.state = "active") <=> (inst[m].state = "active")
           /\ Keep(m, ins)

-----------------------------------------------------------------------------
(* What the handlers do to one alarm. *)

LEMMA RuleType ==
    ASSUME TypeOK
    PROVE  /\ rule.type \in Types
           /\ rule.debounce \in BOOLEAN
           /\ rule.suppress \in BOOLEAN
           /\ rule.modules \subseteq Modules
    BY DetectionsAssumption DEF TypeOK

LEMMA InstType ==
    ASSUME TypeOK, NEW m \in Modules
    PROVE  inst[m] \in Alarms
    BY DEF TypeOK, Alarms

LEMMA PendingType ==
    ASSUME TypeOK, NEW ins \in Alarms
    PROVE  /\ Pending(ins) \in Alarms
           /\ Pending(ins).state = "pending"
           /\ Pending(ins).acked = ins.acked
           /\ Pending(ins).value = ins.value
    BY RuleType DEF Pending, Alarms

LEMMA ThresholdTransition ==
    ASSUME TypeOK, NEW m \in Modules, NEW r, OnThreshold(m, r)
    PROVE  Transition(m)
<1>1. inst[m] \in Alarms
  BY InstType
<1>2. CASE Keep(m, inst[m])
  BY <1>1, <1>2 DEF Transition
<1>3. CASE r \in Good /\ ~Keep(m, inst[m])
  <2>. DEFINE ins == [inst[m] EXCEPT !.value = r]
  <2>1. /\ ins \in Alarms
        /\ ins.state = inst[m].state
        /\ ins.acked = inst[m].acked
    BY <1>1, <1>3 DEF Alarms
  <2>2. /\ Pending(ins) \in Alarms
        /\ Pending(ins).state = "pending"
        /\ Pending(ins).acked = inst[m].acked
    BY <2>1, PendingType
  <2>3. /\ [ins EXCEPT !.state = "inactive"] \in Alarms
        /\ [ins EXCEPT !.state = "inactive"].state = "inactive"
        /\ [ins EXCEPT !.state = "inactive"].acked = inst[m].acked
    BY <2>1 DEF Alarms
  <2>. HIDE DEF ins
  <2>4. \/ inst[m].state = "inactive" /\ (Keep(m, Pending(ins)) \/ Raise(m, Pending(ins)))
        \/ inst[m].state = "inactive" /\ Keep(m, ins)
        \/ inst[m].state = "pending" /\ (Keep(m, [ins EXCEPT !.state = "inactive"])
                                            \/ Keep(m, ins))
        \/ inst[m].state = "active" /\ (Clear(m, ins) \/ Keep(m, ins))
    BY <1>3, <2>1 DEF OnThreshold, ins
  <2>. QED
    BY <2>1, <2>2, <2>3, <2>4 DEF Transition
<1>. QED
  BY <1>2, <1>3 DEF OnThreshold

LEMMA QualityTransition ==
    ASSUME TypeOK, NEW m \in Modules, NEW r, OnQuality(m, r)
    PROVE  Transition(m)
<1>. DEFINE n == IF r \in Good THEN 0 ELSE inst[m].streak + 1
            ins == [inst[m] EXCEPT !.streak = IF n > Count THEN Count ELSE n]
<1>1. inst[m] \in Alarms
  BY InstType
<1>2. n \in Nat
  BY <1>1 DEF Alarms
<1>3. /\ ins \in Alarms
      /\ ins.state = inst[m].state
      /\ ins.acked = inst[m].acked
  <2>1. (IF n > Count THEN Count ELSE n) \in 0..Count
    BY <1>2, DetectionsAssumption
  <2>. QED
    BY <1>1, <2>1 DEF Alarms
<1>4. \/ NotActive(ins) /\ Raise(m, ins)
      \/ ins.state = "active" /\ Clear(m, ins)
      \/ Keep(m, ins)
  BY DEF OnQuality
<1>. QED
  BY <1>3, <1>4 DEF Transition, NotActive

LEMMA FreshnessTransition ==
    ASSUME TypeOK, NEW m \in Modules, NEW r, OnFreshness(m, r)
    PROVE  Transition(m)
<1>. DEFINE ins == [inst[m] EXCEPT !.heard = @ \/ r \in Good]
<1>1. inst[m] \in Alarms
  BY InstType
<1>2. /\ ins \in Alarms
      /\ ins.state = inst[m].state
      /\ ins.acked = inst[m].acked
  <2>1. (inst[m].heard \/ r \in Good) \in BOOLEAN
    OBVIOUS
  <2>. QED
    BY <1>1, <2>1 DEF Alarms
<1>3. \/ ins.state = "active" /\ Clear(m, ins)
      \/ Keep(m, ins)
  BY DEF OnFreshness
<1>. QED
  BY <1>2, <1>3 DEF Transition

LEMMA HealthTransition ==
    ASSUME TypeOK, NEW m \in Modules, JudgeHealth(m)
    PROVE  Transition(m)
<1>1. inst[m] \in Alarms
  BY InstType
<1>2. /\ Pending(inst[m]) \in Alarms
      /\ Pending(inst[m]).state = "pending"
      /\ Pending(inst[m]).acked = inst[m].acked
  BY <1>1, PendingType
<1>3. /\ [inst[m] EXCEPT !.state = "inactive"] \in Alarms
      /\ [inst[m] EXCEPT !.state = "inactive"].state = "inactive"
      /\ [inst[m] EXCEPT !.state = "inactive"].acked = inst[m].acked
  BY <1>1 DEF Alarms
<1>4. \/ Keep(m, inst[m])
      \/ inst[m].state = "inactive" /\ Keep(m, Pending(inst[m]))
      \/ inst[m].state = "pending" /\ Keep(m, [inst[m] EXCEPT !.state = "inactive"])
      \/ inst[m].state = "pending" /\ Raise(m, inst[m])
      \/ inst[m].state = "active" /\ Clear(m, inst[m])
  BY DEF JudgeHealth
<1>. QED
  BY <1>1, <1>2, <1>3, <1>4 DEF Transition

LEMMA JudgeTransition ==
    ASSUME TypeOK, NEW m \in Modules, Judge(m)
    PROVE  Transition(m)
<1>1. inst[m] \in Alarms
  BY InstType
<1>2. CASE Promote(m)
  BY <1>1, <1>2 DEF Promote, Transition
<1>3. CASE JudgeFreshness(m)
  BY <1>1, <1>3 DEF JudgeFreshness, NotActive, Transition
<1>4. CASE JudgeCalibration(m)
  BY <1>1, <1>4 DEF JudgeCalibration, NotActive, Transition
<1>5. CASE JudgeHealth(m)
  BY <1>5, HealthTransition
<1>. QED
  BY <1>2, <1>3, <1>4, <1>5 DEF Judge

LEMMA HeadType ==
    ASSUME TypeOK, sub # <<>>
    PROVE  /\ Head(sub).module \in Modules
           /\ Head(sub) \in Envelopes
           /\ Tail(sub) \in Seq(Envelopes)
           /\ Len(Tail(sub)) <= QueueBound
<1>1. sub \in Seq(Envelopes) /\ Len(sub) <= QueueBound /\ QueueBound \in Nat
  BY DetectionsAssumption DEF TypeOK, Envelopes
<1>2. Head(sub) \in Envelopes /\ Tail(sub) \in Seq(Envelopes)
  BY <1>1
<1>3. Len(Tail(sub)) = Len(sub) - 1 /\ Len(sub) \in Nat
  BY <1>1
<1>. QED
  BY <1>1, <1>2, <1>3 DEF Envelopes

LEMMA DrainTransition ==
    ASSUME TypeOK, Drain
    PROVE  Transition(Head(sub).module)
<1>. DEFINE m == Head(sub).module
            r == Head(sub).reading
<1>1. m \in Modules
  BY HeadType DEF Drain
<1>2. inst[m] \in Alarms
  BY <1>1, InstType
<1>3. OnThreshold(m, r) \/ OnQuality(m, r) \/ OnFreshness(m, r) \/ Keep(m, inst[m])
  BY DEF Drain
<1>4. CASE Keep(m, inst[m])
  BY <1>2, <1>4 DEF Transition
<1>. QED
  BY <1>1, <1>3, <1>4, ThresholdTransition, QualityTransition, FreshnessTransition

(* One alarm changes, and it stays an alarm. *)
LEMMA TransitionType ==
    ASSUME TypeOK, writing = NoAlert, NEW m \in Modules, Transition(m)
    PROVE  /\ inst' \in [Modules -> Alarms]
           /\ writing' \in [module: Modules, to: Words] \union {NoAlert}
           /\ audited' \in [Modules -> BOOLEAN]
<1>1. PICK ins \in Alarms : Raise(m, ins) \/ Clear(m, ins) \/ Keep(m, ins)
  BY DEF Transition
<1>2. inst \in [Modules -> Alarms] /\ audited \in [Modules -> BOOLEAN]
  BY DEF TypeOK, Alarms
<1>3. CASE Raise(m, ins)
  <2>1. [ins EXCEPT !.state = BoardState("raised"), !.acked = Unacked(ins)] \in Alarms
    BY DEF BoardState, Unacked, Alarms
  <2>. QED
    BY <1>2, <1>3, <2>1 DEF Raise, Alert, Words
<1>4. CASE Clear(m, ins)
  <2>1. [ins EXCEPT !.state = BoardState("cleared")] \in Alarms
    BY DEF BoardState, Alarms
  <2>. QED
    BY <1>2, <1>4, <2>1 DEF Clear, Alert, Words
<1>5. CASE Keep(m, ins)
  BY <1>2, <1>5 DEF Keep
<1>. QED
  BY <1>1, <1>3, <1>4, <1>5

-----------------------------------------------------------------------------
(* Types. *)

LEMMA TypeInit == Init => TypeOK
<1>. SUFFICES ASSUME Init PROVE TypeOK
  OBVIOUS
<1>1. FreshInstance \in Alarms
  BY DetectionsAssumption DEF FreshInstance, Alarms
<1>. QED
  BY <1>1, DetectionsAssumption DEF Init, TypeOK, Alarms

(* The log keeps words, and at most two of them. *)
LEMMA LastTwoType ==
    ASSUME NEW s \in Seq(Words), NEW x \in Words
    PROVE  LastTwo(Append(s, x)) \in Seq(Words)
<1>1. Append(s, x) \in Seq(Words)
  OBVIOUS
<1>2. CASE Len(Append(s, x)) <= 2
  BY <1>1, <1>2 DEF LastTwo
<1>3. CASE ~(Len(Append(s, x)) <= 2)
  <2>. DEFINE t == Append(s, x)
              k == Len(t) - 1
  <2>1. Len(t) \in Nat /\ Len(t) > 2
    BY <1>1, <1>3
  <2>2. \A i \in k..Len(t) : t[i] \in Words
    BY <1>1, <2>1
  <2>. HIDE DEF t
  <2>3. SubSeq(t, Len(t) - 1, Len(t)) \in Seq(Words)
    BY <2>1, <2>2, SubSeqProperties
  <2>. QED
    BY <1>3, <2>3 DEF LastTwo, t
<1>. QED
  BY <1>2, <1>3

(* The variables a step of the engine leaves alone, or moves by one. *)
LEMMA TypeStep == TypeOK /\ [Next]_vars => TypeOK'
<1>. SUFFICES ASSUME TypeOK, [Next]_vars PROVE TypeOK'
  OBVIOUS
<1>. USE DEF TypeOK, engineVars, sessionVars, logVars
<1>1. CASE UNCHANGED vars
  BY <1>1 DEF vars
<1>2. ASSUME NEW m \in Modules,
             Adopt(m) \/ Remove(m) \/ ModuleState(m) \/ Calibrated(m) \/ GrowsOld(m)
      PROVE  TypeOK'
  <2>1. rule.modules \subseteq Modules
    BY RuleType
  <2>2. CASE Adopt(m)
    BY <2>1, <2>2 DEF Adopt
  <2>3. CASE Remove(m)
    BY <2>3 DEF Remove
  <2>4. CASE ModuleState(m)
    BY <2>4 DEF ModuleState
  <2>5. CASE Calibrated(m)
    BY <2>5 DEF Calibrated
  <2>6. CASE GrowsOld(m)
    BY <2>6 DEF GrowsOld
  <2>. QED
    BY <1>2, <2>2, <2>3, <2>4, <2>5, <2>6
<1>3. ASSUME NEW m \in Modules, Telemetry(m)
      PROVE  TypeOK'
  <2>1. PICK r \in Readings(rule.type) :
            sub' = Append(sub, [module |-> m, reading |-> r])
    BY <1>3 DEF Telemetry
  <2>2. [module |-> m, reading |-> r] \in Envelopes
    BY <2>1 DEF Envelopes
  <2>3. sub' \in Seq(Envelopes) /\ Len(sub') <= QueueBound
    <3>1. sub \in Seq(Envelopes) /\ Len(sub) \in Nat /\ QueueBound \in Nat
      BY DetectionsAssumption DEF Envelopes
    <3>. QED
      BY <1>3, <2>1, <2>2, <3>1 DEF Telemetry
  <2>. QED
    BY <1>3, <2>3 DEF Telemetry, Envelopes
<1>4. ASSUME NEW m \in Modules, Ripens(m)
      PROVE  TypeOK'
  <2>1. [inst[m] EXCEPT !.ripe = TRUE] \in Alarms
    <3>1. inst[m] \in Alarms
      BY InstType
    <3>. HIDE DEF TypeOK
    <3>. QED BY <3>1 DEF Alarms
  <2>2. inst' = [inst EXCEPT ![m] = [inst[m] EXCEPT !.ripe = TRUE]]
    BY <1>4 DEF Ripens
  <2>3. inst' \in [Modules -> Alarms]
    BY <2>1, <2>2 DEF Alarms
  <2>. QED
    BY <1>4, <2>3 DEF Ripens, Alarms
<1>5. CASE Drain
  <2>1. /\ inst' \in [Modules -> Alarms]
        /\ writing' \in [module: Modules, to: Words] \union {NoAlert}
        /\ audited' \in [Modules -> BOOLEAN]
    BY <1>5, DrainTransition, HeadType, TransitionType DEF Drain
  <2>2. sub' \in Seq(Envelopes) /\ Len(sub') <= QueueBound
    BY <1>5, HeadType DEF Drain
  <2>3. /\ seen' \subseteq Modules
        /\ old' \subseteq Modules
    BY <1>5, HeadType DEF Drain
  <2>4. health' \in [Modules -> {"none", "hit", "fine"}]
    <3>1. CASE rule.type = "health_flag"
      <4>1. Head(sub).reading \in {"hit", "fine"}
        BY <1>5, <3>1, HeadType DEF Drain, Envelopes, Readings
      <4>. QED
        BY <1>5, <3>1, <4>1 DEF Drain
    <3>2. CASE rule.type # "health_flag"
      BY <1>5, <3>2 DEF Drain
    <3>. QED
      BY <3>1, <3>2
  <2>. QED
    BY <1>5, <2>1, <2>2, <2>3, <2>4 DEF Drain, Alarms, Envelopes, Words
<1>6. CASE Evaluate
  BY <1>6, RuleType DEF Evaluate, Concerned, Producers, Types
<1>7. CASE PassOver
  BY <1>7 DEF PassOver
<1>8. CASE Write
  <2>1. writing \in [module: Modules, to: Words]
    BY <1>8 DEF Write, Words
  <2>2. LastTwo(Append(log[writing.module], writing.to)) \in Seq(Words)
    BY <2>1, LastTwoType DEF Words
  <2>. QED
    BY <1>8, <2>1, <2>2 DEF Write, Words
<1>9. CASE Report
  BY <1>9, DetectionsAssumption DEF Report
<1>10. ASSUME NEW m \in Modules, Judge(m)
       PROVE  TypeOK'
  <2>1. /\ inst' \in [Modules -> Alarms]
        /\ writing' \in [module: Modules, to: Words] \union {NoAlert}
        /\ audited' \in [Modules -> BOOLEAN]
    BY <1>10, JudgeTransition, TransitionType DEF Judge
  <2>. QED
    BY <1>10, <2>1 DEF Judge, Alarms, Words
<1>11. CASE Refused
  BY <1>11, DetectionsAssumption DEF Refused
<1>12. ASSUME NEW a \in Requests, AckLooks(a) \/ AckMarks(a) \/ AckLogs(a)
       PROVE  TypeOK'
  <2>1. About[a] \in Modules
    BY DetectionsAssumption
  <2>2. CASE AckLooks(a)
    BY <2>2 DEF AckLooks
  <2>3. CASE AckMarks(a)
    <3>. DEFINE m == About[a]
    <3>1. [inst[m] EXCEPT !.acked = TRUE] \in Alarms
      <4>1. inst[m] \in Alarms
        BY <2>1, InstType
      <4>. HIDE DEF TypeOK, m
      <4>. QED BY <4>1 DEF Alarms
    <3>2. inst' = [inst EXCEPT ![m] = [inst[m] EXCEPT !.acked = TRUE]]
      BY <2>3 DEF AckMarks
    <3>3. inst' \in [Modules -> Alarms]
      BY <2>1, <3>1, <3>2 DEF Alarms
    <3>. QED
      BY <2>3, <3>3 DEF AckMarks, Alarms
  <2>4. CASE AckLogs(a)
    BY <2>1, <2>4 DEF AckLogs
  <2>. QED
    BY <1>12, <2>2, <2>3, <2>4
<1>. QED
  BY <1>1, <1>2, <1>3, <1>4, <1>5, <1>6, <1>7, <1>8, <1>9, <1>10, <1>11, <1>12
  DEF Next, Engine

(* Every variable has its type; no reading is queued that the rule does    *)
(* not listen to.                                                          *)
THEOREM TypeCorrect == Spec => []TypeOK
    BY TypeInit, TypeStep, PTL DEF Spec

-----------------------------------------------------------------------------
(* The board and the log. *)

Told(m) ==
    IF writing.module = m THEN LastTwo(Append(log[m], writing.to)) ELSE log[m]

LogIsShort == \A m \in Modules : Len(log[m]) <= 2

(* The last word is the one appended, and the one before it the last.      *)
LEMMA LastTwoAppend ==
    ASSUME NEW s \in Seq(Words), Len(s) <= 2, NEW x \in Words
    PROVE  LET t == LastTwo(Append(s, x))
           IN  /\ t # <<>> /\ Len(t) <= 2
               /\ t[Len(t)] = x
               /\ Len(t) = 2 => s # <<>> /\ t[1] = s[Len(s)]
<1>. DEFINE a == Append(s, x)
<1>1. /\ a \in Seq(Words) /\ Len(a) = Len(s) + 1 /\ Len(s) \in Nat
      /\ a[Len(a)] = x
      /\ \A i \in 1..Len(s) : a[i] = s[i]
  OBVIOUS
<1>2. CASE Len(s) < 2
  <2>1. LastTwo(a) = a
    BY <1>1, <1>2 DEF LastTwo
  <2>2. Len(a) = 2 => s # <<>> /\ a[1] = s[Len(s)]
    BY <1>1, <1>2
  <2>. QED
    BY <1>1, <1>2, <2>1, <2>2
<1>3. CASE Len(s) = 2
  <2>1. Len(a) = 3
    BY <1>1, <1>3
  <2>2. LastTwo(a) = SubSeq(a, 2, 3)
    BY <2>1 DEF LastTwo
  <2>3. \A i \in 2..3 : a[i] \in Words
    BY <1>1, <2>1
  <2>5. a[2] = s[Len(s)] /\ a[3] = x /\ s # <<>>
    BY <1>1, <1>3, <2>1
  <2>. HIDE DEF a
  <2>4. /\ SubSeq(a, 2, 3) \in Seq(Words)
        /\ Len(SubSeq(a, 2, 3)) = 2
        /\ SubSeq(a, 2, 3)[1] = a[2]
        /\ SubSeq(a, 2, 3)[2] = a[3]
    <3>1. /\ SubSeq(a, 2, 3) \in Seq(Words)
          /\ Len(SubSeq(a, 2, 3)) = 2
          /\ \A i \in 1 .. 3-2+1 : SubSeq(a, 2, 3)[i] = a[2+i-1]
      BY <2>3, SubSeqProperties
    <3>. QED
      BY <3>1
  <2>6. LastTwo(Append(s, x)) = SubSeq(a, 2, 3)
    BY <2>2 DEF a
  <2>7. SubSeq(a, 2, 3) # <<>>
    <3>1. Len(<<>>) # 2
      OBVIOUS
    <3>. QED
      BY <2>4, <3>1, Zenon
  <2>. QED
    BY <1>3, <2>4, <2>5, <2>6, <2>7
<1>4. Len(s) < 2 \/ Len(s) = 2
  <2>1. Len(s) \in Nat
    OBVIOUS
  <2>2. \A n \in Nat : n <= 2 => n < 2 \/ n = 2
    OBVIOUS
  <2>. QED
    BY <2>1, <2>2, Zenon
<1>. QED
  BY <1>2, <1>3, <1>4, Zenon

Agree(m) ==
    /\ Len(Told(m)) = 2 => Told(m)[1] # Told(m)[2]
    /\ (inst[m].state = "active") <=> (Told(m) # <<>> /\ Told(m)[Len(Told(m))] = "raised")

BoardInv ==
    /\ LogIsShort
    /\ refusals = 0 => \A m \in Modules : Agree(m)

LEMMA BoardInvImplies == BoardInv => BoardMatchesLog
    BY DEF BoardInv, Agree, Told, BoardMatchesLog

LEMMA Quiet ==
    ASSUME TypeOK, writing = NoAlert, NEW m \in Modules
    PROVE  Told(m) = log[m]
    BY DetectionsAssumption DEF NoAlert, Told

(* A transition starts with nothing being written, and appends the word    *)
(* that the board shows next.                                              *)
LEMMA BoardTransition ==
    ASSUME TypeOK, BoardInv, writing = NoAlert, log' = log, refusals' = refusals,
           NEW m \in Modules, Transition(m)
    PROVE  BoardInv'
<1>. SUFFICES ASSUME refusals = 0, NEW n \in Modules PROVE Agree(n)'
  BY DEF BoardInv, LogIsShort
<1>1. PICK ins \in Alarms :
          \/ inst[m].state # "active" /\ Raise(m, ins)
          \/ inst[m].state = "active" /\ Clear(m, ins)
          \/ /\ ins.acked = inst[m].acked
             /\ (ins.state = "active") <=> (inst[m].state = "active")
             /\ Keep(m, ins)
  BY DEF Transition
<1>2. /\ inst \in [Modules -> Alarms]
      /\ log[n] \in Seq(Words) /\ Len(log[n]) <= 2
      /\ Told(n) = log[n]
      /\ Agree(n)
  BY Quiet DEF TypeOK, Alarms, Words, BoardInv, LogIsShort
<1>3. CASE n # m
  <2>1. inst'[n] = inst[n] /\ (writing' = NoAlert \/ writing'.module = m)
    BY <1>1, <1>2, <1>3 DEF Raise, Clear, Keep, Alert
  <2>2. Told(n)' = log[n]
    BY <1>3, <2>1, DetectionsAssumption DEF Told, NoAlert
  <2>. QED
    BY <1>2, <2>1, <2>2 DEF Agree
<1>4. CASE n = m /\ inst[m].state # "active" /\ Raise(m, ins)
  <2>1. inst'[n].state = "active" /\ writing' = Alert(n, "raised")
    BY <1>2, <1>4 DEF Raise, BoardState, Alarms
  <2>2. Told(n)' = LastTwo(Append(log[n], "raised"))
    BY <2>1 DEF Told, Alert
  <2>3. log[n] # <<>> => log[n][Len(log[n])] # "raised"
    BY <1>2, <1>4 DEF Agree
  <2>. QED
    BY <1>2, <2>1, <2>2, <2>3, LastTwoAppend DEF Agree, Words
<1>5. CASE n = m /\ inst[m].state = "active" /\ Clear(m, ins)
  <2>1. inst'[n].state = "inactive" /\ writing' = Alert(n, "cleared")
    BY <1>2, <1>5 DEF Clear, BoardState, Alarms
  <2>2. Told(n)' = LastTwo(Append(log[n], "cleared"))
    BY <2>1 DEF Told, Alert
  <2>3. log[n] # <<>> /\ log[n][Len(log[n])] = "raised"
    BY <1>2, <1>5 DEF Agree
  <2>. QED
    BY <1>2, <2>1, <2>2, <2>3, LastTwoAppend DEF Agree, Words
<1>6. CASE n = m /\ (ins.state = "active" <=> inst[m].state = "active") /\ Keep(m, ins)
  <2>1. inst'[n] = ins /\ writing' = NoAlert
    BY <1>2, <1>6 DEF Keep
  <2>2. Told(n)' = log[n]
    BY <2>1, DetectionsAssumption DEF Told, NoAlert
  <2>. QED
    BY <1>2, <1>6, <2>1, <2>2 DEF Agree
<1>. QED
  BY <1>1, <1>3, <1>4, <1>5, <1>6

(* Whatever leaves the log, what is being written and the state of every   *)
(* alarm alone keeps them in agreement.                                    *)
LEMMA BoardUntouched ==
    ASSUME BoardInv, UNCHANGED <<writing, log, refusals>>,
           \A m \in Modules : inst'[m].state = inst[m].state
    PROVE  BoardInv'
    BY DEF BoardInv, LogIsShort, Agree, Told

LEMMA BoardStep == TypeOK /\ BoardInv /\ [Next]_vars => BoardInv'
<1>. SUFFICES ASSUME TypeOK, BoardInv, [Next]_vars PROVE BoardInv'
  OBVIOUS
<1>. USE DEF engineVars, sessionVars, logVars
<1>1. CASE UNCHANGED vars
  BY <1>1, BoardUntouched DEF vars
<1>2. ASSUME NEW m \in Modules,
             \/ Adopt(m) \/ Remove(m) \/ ModuleState(m) \/ Telemetry(m)
             \/ Calibrated(m) \/ GrowsOld(m)
      PROVE  BoardInv'
  BY <1>2, BoardUntouched
  DEF Adopt, Remove, ModuleState, Telemetry, Calibrated, GrowsOld
<1>3. ASSUME NEW m \in Modules, Ripens(m)
      PROVE  BoardInv'
  <2>1. \A n \in Modules : inst'[n].state = inst[n].state
    BY <1>3 DEF Ripens, TypeOK
  <2>. QED
    BY <1>3, <2>1, BoardUntouched DEF Ripens
<1>4. CASE Drain
  <2>1. Head(sub).module \in Modules
    BY <1>4, HeadType DEF Drain
  <2>. QED
    BY <1>4, <2>1, DrainTransition, BoardTransition DEF Drain
<1>5. CASE Evaluate \/ PassOver
  BY <1>5, BoardUntouched DEF Evaluate, PassOver
<1>6. ASSUME NEW m \in Modules, Judge(m)
      PROVE  BoardInv'
  BY <1>6, JudgeTransition, BoardTransition DEF Judge
<1>7. CASE Write
  <2>1. /\ writing \in [module: Modules, to: Words]
        /\ log \in [Modules -> Seq(Words)]
    BY <1>7 DEF Write, TypeOK, Words
  <2>2. \A n \in Modules : log'[n] = Told(n)
    BY <1>7, <2>1 DEF Write, Told
  <2>3. \A n \in Modules : Told(n)' = log'[n]
    BY <1>7, DetectionsAssumption DEF Write, Told, NoAlert
  <2>4. \A n \in Modules : Len(Told(n)) <= 2
    BY <2>1, LastTwoAppend DEF Told, BoardInv, LogIsShort
  <2>5. inst' = inst /\ refusals' = refusals
    BY <1>7 DEF Write
  <2>. QED
    BY <2>2, <2>3, <2>4, <2>5 DEF BoardInv, LogIsShort, Agree
<1>8. CASE Refused
  BY <1>8, DetectionsAssumption DEF Refused, BoardInv, LogIsShort, TypeOK
<1>9. CASE Report
  <2>1. UNCHANGED <<inst, writing, log>> /\ (refusals' = refusals \/ refusals' # 0)
    BY <1>9, DetectionsAssumption DEF Report, TypeOK
  <2>. QED
    BY <2>1 DEF BoardInv, LogIsShort, Agree, Told
<1>10. ASSUME NEW a \in Requests, AckLooks(a) \/ AckMarks(a) \/ AckLogs(a)
       PROVE  BoardInv'
  <2>1. \A n \in Modules : inst'[n].state = inst[n].state
    <3>1. CASE AckMarks(a)
      BY <3>1 DEF AckMarks, TypeOK
    <3>. QED
      BY <1>10, <3>1 DEF AckLooks, AckLogs
  <2>. QED
    BY <1>10, <2>1, BoardUntouched DEF AckLooks, AckMarks, AckLogs
<1>. QED
  BY <1>1, <1>2, <1>3, <1>4, <1>5, <1>6, <1>7, <1>8, <1>9, <1>10 DEF Next, Engine

LEMMA BoardInit == Init => BoardInv
    BY DetectionsAssumption
    DEF Init, FreshInstance, BoardInv, LogIsShort, Agree, Told, NoAlert

(* As long as the store takes every append, alerts about a module          *)
(* alternate in the evidence and its last word is what the board shows,    *)
(* whatever the sessions, the readings and the operators do.               *)
THEOREM BoardAndLogAgree == Spec => []BoardMatchesLog
<1>1. Init => TypeOK /\ BoardInv
  BY TypeInit, BoardInit
<1>2. TypeOK /\ BoardInv /\ [Next]_vars => (TypeOK /\ BoardInv)'
  BY TypeStep, BoardStep
<1>. QED
  BY <1>1, <1>2, BoardInvImplies, PTL DEF Spec

(* The run's invariant: the types, and the board that matches the log.     *)
THEOREM DetectionsAreSound == Spec => []Sound
<1>1. TypeOK /\ BoardMatchesLog => Sound
  BY DEF Sound
<1>. QED
  BY <1>1, TypeCorrect, BoardAndLogAgree, PTL

-----------------------------------------------------------------------------
(* Hysteresis and debounce. *)

Follows(m) ==
    /\ inst[m].state = "active" => inst[m].value \in {"breach", "between"}
    /\ inst[m].state = "pending" => inst[m].value = "breach"
    /\ inst[m].state = "inactive" => inst[m].value # "breach"

(* A step that keeps what Follows speaks of, or that sees to it for m.     *)
LEMMA FollowsTransition ==
    ASSUME TypeOK, AlarmFollowsReadings, rule.type = "threshold", NEW m \in Modules,
           NEW alarm, inst' = [inst EXCEPT ![m] = alarm],
           alarm.state = "active" => alarm.value \in {"breach", "between"},
           alarm.state = "pending" => alarm.value = "breach",
           alarm.state = "inactive" => alarm.value # "breach"
    PROVE  \A n \in Modules : Follows(n)'
<1>1. inst \in [Modules -> Alarms]
  BY DEF TypeOK, Alarms
<1>2. \A n \in Modules : inst'[n] = IF n = m THEN alarm ELSE inst[n]
  BY <1>1
<1>. QED
  BY <1>2 DEF AlarmFollowsReadings, Follows

LEMMA FollowsThreshold ==
    ASSUME TypeOK, AlarmFollowsReadings, rule.type = "threshold", NEW m \in Modules,
           NEW r \in Readings(rule.type), OnThreshold(m, r)
    PROVE  \A n \in Modules : Follows(n)'
<1>. DEFINE ins == [inst[m] EXCEPT !.value = r]
<1>1. inst[m] \in Alarms /\ Follows(m)
  BY InstType DEF AlarmFollowsReadings, Follows
<1>2. CASE Keep(m, inst[m])
  BY <1>1, <1>2, FollowsTransition DEF Keep, Follows
<1>3. CASE r \in Good /\ ~Keep(m, inst[m])
  <2>1. ins \in Alarms /\ ins.state = inst[m].state /\ ins.value = r
    BY <1>1, <1>3 DEF Alarms
  <2>2. Pending(ins) \in Alarms /\ Pending(ins).state = "pending" /\ Pending(ins).value = r
    BY <2>1, PendingType
  <2>. HIDE DEF ins
  <2>3. CASE inst[m].state = "inactive" /\ r = "breach" /\ Keep(m, Pending(ins))
    BY <2>2, <2>3, FollowsTransition DEF Keep
  <2>4. CASE inst[m].state = "inactive" /\ r = "breach" /\ Raise(m, Pending(ins))
    <3>. DEFINE alarm == [Pending(ins) EXCEPT !.state = BoardState("raised"),
                                               !.acked = Unacked(Pending(ins))]
    <3>1. alarm.state = "active" /\ alarm.value = "breach"
      BY <2>2, <2>4 DEF Alarms, BoardState
    <3>2. inst' = [inst EXCEPT ![m] = alarm]
      BY <2>4 DEF Raise
    <3>. HIDE DEF alarm
    <3>. QED
      BY <3>1, <3>2, FollowsTransition
  <2>5. CASE inst[m].state = "inactive" /\ r # "breach" /\ Keep(m, ins)
    BY <2>1, <2>5, FollowsTransition DEF Keep
  <2>6. CASE inst[m].state = "pending" /\ r # "breach"
                /\ Keep(m, [ins EXCEPT !.state = "inactive"])
    <3>1. /\ [ins EXCEPT !.state = "inactive"].state = "inactive"
          /\ [ins EXCEPT !.state = "inactive"].value = r
      BY <2>1 DEF Alarms
    <3>. QED
      BY <2>6, <3>1, FollowsTransition DEF Keep
  <2>7. CASE inst[m].state = "pending" /\ r = "breach" /\ Keep(m, ins)
    BY <2>1, <2>7, FollowsTransition DEF Keep
  <2>8. CASE inst[m].state = "active" /\ r = "clear" /\ Clear(m, ins)
    <3>. DEFINE alarm == [ins EXCEPT !.state = BoardState("cleared")]
    <3>1. alarm.state = "inactive" /\ alarm.value = "clear"
      BY <2>1, <2>8 DEF Alarms, BoardState
    <3>2. inst' = [inst EXCEPT ![m] = alarm]
      BY <2>8 DEF Clear
    <3>. HIDE DEF alarm
    <3>. QED
      BY <3>1, <3>2, FollowsTransition
  <2>9. CASE inst[m].state = "active" /\ r # "clear" /\ Keep(m, ins)
    <3>1. r \in {"breach", "between"}
      BY <1>3, <2>9 DEF Good
    <3>. QED
      BY <2>1, <2>9, <3>1, FollowsTransition DEF Keep
  <2>. QED
    BY <1>3, <2>1, <2>3, <2>4, <2>5, <2>6, <2>7, <2>8, <2>9
    DEF OnThreshold, NoBreach, ins
<1>. QED
  BY <1>2, <1>3 DEF OnThreshold

LEMMA FollowsStep == TypeOK /\ AlarmFollowsReadings /\ [Next]_vars => AlarmFollowsReadings'
<1>. SUFFICES ASSUME TypeOK, AlarmFollowsReadings, [Next]_vars, rule'.type = "threshold"
              PROVE  \A n \in Modules : Follows(n)'
  BY DEF AlarmFollowsReadings, Follows
<1>. USE DEF engineVars, sessionVars, logVars
<1>1. rule' = rule
  BY DEF Next, Engine, vars, Adopt, Remove, ModuleState, Telemetry, Calibrated, GrowsOld,
         Ripens, Drain, Evaluate, Judge, PassOver, Write, Refused, Report, AckLooks,
         AckMarks, AckLogs
<1>2. rule.type = "threshold" /\ \A n \in Modules : Follows(n)
  BY <1>1 DEF AlarmFollowsReadings, Follows
<1>3. ASSUME \A n \in Modules : /\ inst'[n].state = inst[n].state
                                /\ inst'[n].value = inst[n].value
      PROVE  \A n \in Modules : Follows(n)'
  BY <1>2, <1>3 DEF Follows
<1>4. CASE UNCHANGED inst
  BY <1>3, <1>4
<1>5. ASSUME NEW m \in Modules, Ripens(m)
      PROVE  \A n \in Modules : Follows(n)'
  BY <1>3, <1>5 DEF Ripens, TypeOK
<1>6. ASSUME NEW a \in Requests, AckMarks(a)
      PROVE  \A n \in Modules : Follows(n)'
  BY <1>3, <1>6 DEF AckMarks, TypeOK
<1>7. CASE Drain
  <2>1. /\ Head(sub).module \in Modules
        /\ Head(sub).reading \in Readings(rule.type)
    BY <1>7, HeadType DEF Drain, Envelopes
  <2>. QED
    BY <1>2, <1>7, <2>1, FollowsThreshold DEF Drain
<1>8. ASSUME NEW m \in Modules, Judge(m)
      PROVE  \A n \in Modules : Follows(n)'
  <2>1. Promote(m) /\ inst[m] \in Alarms /\ Follows(m)
    BY <1>2, <1>8, InstType DEF Judge
  <2>2. CASE Keep(m, inst[m])
    BY <1>2, <2>1, <2>2, FollowsTransition DEF Keep, Follows
  <2>3. CASE inst[m].state = "pending" /\ Raise(m, inst[m])
    <3>. DEFINE alarm == [inst[m] EXCEPT !.state = BoardState("raised"),
                                          !.acked = Unacked(inst[m])]
    <3>1. alarm.state = "active" /\ alarm.value = "breach"
      BY <2>1, <2>3 DEF Alarms, BoardState, Follows
    <3>2. inst' = [inst EXCEPT ![m] = alarm]
      BY <2>3 DEF Raise
    <3>. HIDE DEF alarm
    <3>. QED
      BY <1>2, <3>1, <3>2, FollowsTransition
  <2>. QED
    BY <2>1, <2>2, <2>3 DEF Promote
<1>9. \/ UNCHANGED inst
      \/ Drain
      \/ \E m \in Modules : Ripens(m) \/ Judge(m)
      \/ \E a \in Requests : AckMarks(a)
  BY DEF Next, Engine, vars, Adopt, Remove, ModuleState, Telemetry, Calibrated, GrowsOld,
         Evaluate, PassOver, Write, Refused, Report, AckLooks, AckLogs
<1>. QED
  BY <1>4, <1>5, <1>6, <1>7, <1>8, <1>9

LEMMA FollowsInit == Init => AlarmFollowsReadings
<1>1. FreshInstance.state = "inactive" /\ FreshInstance.value = "none"
  BY DEF FreshInstance
<1>2. Init => \A m \in Modules : inst[m] = FreshInstance
  BY DEF Init
<1>. QED
  BY <1>1, <1>2 DEF AlarmFollowsReadings

(* An active threshold alarm has not seen a clearing value since it was    *)
(* raised, a pending one has seen breaches only, and an inactive one none  *)
(* since, over any history of readings, suppression and passes.            *)
THEOREM HysteresisHolds == Spec => []AlarmFollowsReadings
<1>1. TypeOK /\ AlarmFollowsReadings /\ [Next]_vars => (TypeOK /\ AlarmFollowsReadings)'
  BY TypeStep, FollowsStep
<1>. QED
  BY <1>1, TypeInit, FollowsInit, PTL DEF Spec

-----------------------------------------------------------------------------
(* Acknowledgements. *)

Audited(m) ==
    (inst[m].state = "active" /\ inst[m].acked) =>
        audited[m] \/ \E a \in Requests : acker[a] = "marked" /\ About[a] = m

LEMMA AckTransition ==
    ASSUME TypeOK, AckedIsAudited, acker' = acker, NEW m \in Modules, Transition(m)
    PROVE  AckedIsAudited'
<1>. SUFFICES ASSUME NEW n \in Modules PROVE Audited(n)'
  BY DEF AckedIsAudited, Audited
<1>1. Audited(n) /\ inst \in [Modules -> Alarms] /\ audited \in [Modules -> BOOLEAN]
  BY DEF AckedIsAudited, Audited, TypeOK, Alarms
<1>2. PICK ins \in Alarms :
          \/ inst[m].state # "active" /\ Raise(m, ins)
          \/ inst[m].state = "active" /\ Clear(m, ins)
          \/ /\ ins.acked = inst[m].acked
             /\ (ins.state = "active") <=> (inst[m].state = "active")
             /\ Keep(m, ins)
  BY DEF Transition
<1>3. CASE n # m
  <2>1. inst'[n] = inst[n] /\ audited'[n] = audited[n]
    BY <1>1, <1>2, <1>3 DEF Raise, Clear, Keep
  <2>. QED
    BY <1>1, <2>1 DEF Audited
<1>4. CASE n = m /\ Raise(m, ins)
  <2>1. inst'[n].acked = FALSE
    BY <1>1, <1>4 DEF Raise, Unacked, Alarms
  <2>. QED
    BY <2>1 DEF Audited
<1>5. CASE n = m /\ Clear(m, ins)
  <2>1. inst'[n].state = "inactive"
    BY <1>1, <1>5 DEF Clear, BoardState, Alarms
  <2>. QED
    BY <2>1 DEF Audited
<1>6. CASE /\ n = m /\ ins.acked = inst[m].acked
           /\ (ins.state = "active") <=> (inst[m].state = "active")
           /\ Keep(m, ins)
  <2>1. inst'[n] = ins /\ audited' = audited
    BY <1>1, <1>6 DEF Keep
  <2>. QED
    BY <1>1, <1>6, <2>1 DEF Audited
<1>. QED
  BY <1>2, <1>3, <1>4, <1>5, <1>6

LEMMA AckStep == TypeOK /\ AckedIsAudited /\ [Next]_vars => AckedIsAudited'
<1>. SUFFICES ASSUME TypeOK, AckedIsAudited, [Next]_vars PROVE AckedIsAudited'
  OBVIOUS
<1>. USE DEF engineVars, sessionVars, logVars
<1>1. CASE UNCHANGED <<inst, acker, audited>>
  BY <1>1 DEF AckedIsAudited
<1>2. ASSUME NEW m \in Modules, Ripens(m)
      PROVE  AckedIsAudited'
  <2>1. /\ \A n \in Modules : /\ inst'[n].state = inst[n].state
                              /\ inst'[n].acked = inst[n].acked
        /\ acker' = acker /\ audited' = audited
    BY <1>2 DEF Ripens, TypeOK
  <2>. QED
    BY <2>1 DEF AckedIsAudited
<1>3. CASE Drain
  BY <1>3, HeadType, DrainTransition, AckTransition DEF Drain
<1>4. ASSUME NEW m \in Modules, Judge(m)
      PROVE  AckedIsAudited'
  BY <1>4, JudgeTransition, AckTransition DEF Judge
<1>5. ASSUME NEW b \in Requests, AckLooks(b)
      PROVE  AckedIsAudited'
  <2>1. /\ inst' = inst /\ audited' = audited
        /\ \A a \in Requests : acker[a] = "marked" => acker'[a] = "marked"
    BY <1>5 DEF AckLooks, TypeOK
  <2>. QED
    BY <2>1 DEF AckedIsAudited
<1>6. ASSUME NEW b \in Requests, AckMarks(b)
      PROVE  AckedIsAudited'
  <2>1. /\ acker'[b] = "marked" /\ audited' = audited
        /\ \A a \in Requests : acker[a] = "marked" => acker'[a] = "marked"
        /\ \A n \in Modules : n # About[b] => inst'[n] = inst[n]
    BY <1>6 DEF AckMarks, TypeOK
  <2>. QED
    BY <2>1 DEF AckedIsAudited
<1>7. ASSUME NEW b \in Requests, AckLogs(b)
      PROVE  AckedIsAudited'
  <2>1. /\ inst' = inst /\ About[b] \in Modules
        /\ audited'[About[b]] = TRUE
        /\ \A n \in Modules : n # About[b] => audited'[n] = audited[n]
        /\ \A a \in Requests : a # b => acker'[a] = acker[a]
    BY <1>7, DetectionsAssumption DEF AckLogs, TypeOK
  <2>. QED
    BY <2>1 DEF AckedIsAudited
<1>8. \/ UNCHANGED <<inst, acker, audited>>
      \/ Drain
      \/ \E m \in Modules : Ripens(m) \/ Judge(m)
      \/ \E b \in Requests : AckLooks(b) \/ AckMarks(b) \/ AckLogs(b)
  BY DEF Next, Engine, vars, Adopt, Remove, ModuleState, Telemetry, Calibrated, GrowsOld,
         Evaluate, PassOver, Write, Refused, Report
<1>. QED
  BY <1>1, <1>2, <1>3, <1>4, <1>5, <1>6, <1>7, <1>8

LEMMA AckInit == Init => AckedIsAudited
    BY DEF Init, FreshInstance, AckedIsAudited

(* An alert that shows as acknowledged has been, or is being, logged as    *)
(* acknowledged since it was last raised, however the look, the mark and   *)
(* the log of any number of requests fall between clears and raises.       *)
THEOREM AcknowledgementsAreAudited == Spec => []AckedIsAudited
<1>1. TypeOK /\ AckedIsAudited /\ [Next]_vars => (TypeOK /\ AckedIsAudited)'
  BY TypeStep, AckStep
<1>. QED
  BY <1>1, TypeInit, AckInit, PTL DEF Spec

-----------------------------------------------------------------------------
(* Vision. *)

(* What is under way names frames that were taken and moves that were      *)
(* made; neither a reference nor a move is behind a move sent before it.   *)
Brings == {"frame", "capture", "re_baseline"}
Tells == {"ptz", "re_baseline"}
Seen(m, taken) == IF m.kind = "ptz" THEN m.n ELSE taken[m.n]

Underway(s, taken, moves, known) ==
    /\ s \in Seq(Messages)
    /\ \A i \in DOMAIN s :
            /\ s[i].kind \in Brings => s[i].n \in DOMAIN taken
            /\ s[i].kind = "ptz" => s[i].n <= moves
            /\ s[i].kind \in Tells => known <= Seen(s[i], taken)
    /\ \A i, j \in DOMAIN s :
            (i < j /\ s[i].kind = "ptz" /\ s[j].kind \in Tells) =>
                s[i].n <= Seen(s[j], taken)

(* Only an adopted connection carries anything, and then the ring is out.  *)
Line ==
    /\ link = "up" => writer /\ stage \in {"hello", "adopted"}
    /\ wire # <<>> => link = "up" /\ stage = "adopted"
    /\ link = "up" /\ stage = "adopted" => ring = <<>>
    /\ Underway(wire, shot, view, heard)
    /\ Underway(ring, shot, view, heard)

(* Who is still to bring a reading of a frame. *)
Claiming(m) == m.kind = "capture" \/ (m.kind = "frame" /\ ~m.tied)
Claimed(s) == {s[i].n : i \in {j \in DOMAIN s : Claiming(s[j])}}
Distinct(s) ==
    \A i, j \in DOMAIN s :
        (Claiming(s[i]) /\ Claiming(s[j]) /\ s[i].n = s[j].n) => i = j

Taking == IF taking = None THEN {} ELSE {taking}
Held == IF foam.pc = "idle" THEN {} ELSE {foam.frame}
Judged == {r.frame : r \in readings}

Single ==
    /\ Distinct(wire) /\ Distinct(ring) /\ Distinct(queue)
    /\ Taking \cap (Claimed(wire) \union Claimed(ring)) = {}
    /\ Claimed(queue) \cap Held = {}
    /\ (Taking \union Claimed(wire) \union Claimed(ring))
            \cap (Claimed(queue) \union Held) = {}
    /\ (Taking \union Claimed(wire) \union Claimed(ring)) \cap Judged = {}
    /\ (Claimed(queue) \union Held) \cap Judged = {}
    /\ Claimed(queue) \union Held \union Judged \subseteq DOMAIN shot
    /\ OneReadingPerFrame

(* What the hub knows. *)
Handled ==
    /\ ~mv.seeded => mv = NoVision /\ heard = 0
    /\ ReferenceIsCurrent
    /\ \A i \in DOMAIN queue : queue[i].after <= heard
    /\ foam.pc # "idle" => foam.after <= heard
    /\ foam.pc \in {"load", "flag", "name"} => mv.seeded
    /\ (foam.pc = "name" /\ foam.good /\ ~forgot) => foam.after <= ViewOf(mv.base)

Offers == [kind : {"frame"}, n : Frames, tied : BOOLEAN, after : 0 .. MaxMoves]

Visions == [seeded : BOOLEAN, region : Regions, base : 0 .. MaxFrames,
            baseRegion : Regions, required : BOOLEAN]
Foams == [pc : {"idle", "seed", "load", "flag", "name"}, frame : 0 .. MaxFrames,
          after : 0 .. MaxMoves, region : Regions,
          role : {"none", "foam-cam", "bfp-dose-cam"}, served : BOOLEAN, good : BOOLEAN]

Typed ==
    /\ VisionTypeOK
    /\ mv \in Visions
    /\ queue \in Seq(Offers)
    /\ foam \in Foams
    /\ asked \in Nat

VisionInv == Typed /\ Line /\ Single /\ Handled

-----------------------------------------------------------------------------
(* Sequences of messages. *)

(* What the camera writes now. *)
Said(ms, taken, moves) ==
    /\ ms \in Seq(Messages)
    /\ \A i \in DOMAIN ms :
            /\ ms[i].kind \in Brings => ms[i].n \in DOMAIN taken
            /\ ms[i].kind = "ptz" => ms[i].n <= moves
            /\ ms[i].kind \in Tells => Seen(ms[i], taken) = moves

LEMMA ConcatIndex ==
    ASSUME NEW T, NEW s \in Seq(T), NEW ms \in Seq(T), NEW i \in DOMAIN (s \o ms)
    PROVE  \/ i \in DOMAIN s /\ (s \o ms)[i] = s[i]
           \/ /\ i > Len(s) /\ i - Len(s) \in DOMAIN ms
              /\ (s \o ms)[i] = ms[i - Len(s)]
  OBVIOUS

LEMMA UnderwayConcat ==
    ASSUME NEW s, NEW taken \in Seq(Nat), NEW moves \in Nat, NEW known \in Nat,
           Underway(s, taken, moves, known), known <= moves,
           NEW ms, Said(ms, taken, moves)
    PROVE  Underway(s \o ms, taken, moves, known)
<1>1. s \in Seq(Messages) /\ ms \in Seq(Messages) /\ s \o ms \in Seq(Messages)
  BY DEF Underway, Said
<1>. DEFINE w == s \o ms
<1>2. ASSUME NEW i \in DOMAIN w
      PROVE  \/ i \in DOMAIN s /\ w[i] = s[i]
             \/ i > Len(s) /\ i - Len(s) \in DOMAIN ms /\ w[i] = ms[i - Len(s)]
  BY <1>1, ConcatIndex
<1>3. \A i \in DOMAIN s, j \in Nat : j > Len(s) => i < j
  BY <1>1
<1>4. DOMAIN w \subseteq Nat /\ DOMAIN s \subseteq Nat /\ Len(s) \in Nat /\ DOMAIN s = 1..Len(s)
  BY <1>1
<1>. HIDE DEF w
<1>5. ASSUME NEW i \in DOMAIN w
      PROVE  /\ w[i].kind \in Brings => w[i].n \in DOMAIN taken
             /\ w[i].kind = "ptz" => w[i].n <= moves
             /\ w[i].kind \in Tells => known <= Seen(w[i], taken)
  <2>1. CASE i \in DOMAIN s /\ w[i] = s[i]
    BY <2>1 DEF Underway
  <2>2. CASE i - Len(s) \in DOMAIN ms /\ w[i] = ms[i - Len(s)]
    BY <2>2 DEF Said
  <2>. QED BY <1>2, <2>1, <2>2
<1>6. ASSUME NEW i \in DOMAIN w, NEW j \in DOMAIN w,
             i < j, w[i].kind = "ptz", w[j].kind \in Tells
      PROVE  w[i].n <= Seen(w[j], taken)
  <2>1. CASE j \in DOMAIN s /\ w[j] = s[j]
    <3>1. i \in DOMAIN s /\ w[i] = s[i]
      BY <1>2, <1>4, <1>6, <2>1
    <3>. QED BY <1>6, <2>1, <3>1 DEF Underway
  <2>2. CASE j - Len(s) \in DOMAIN ms /\ w[j] = ms[j - Len(s)]
    <3>1. Seen(w[j], taken) = moves
      BY <1>6, <2>2 DEF Said
    <3>. QED BY <1>5, <1>6, <3>1
  <2>. QED BY <1>2, <2>1, <2>2
<1>7. w \in Seq(Messages)
  BY <1>1 DEF w
<1>8. Underway(w, taken, moves, known)
  BY <1>5, <1>6, <1>7 DEF Underway
<1>. QED BY <1>8 DEF w

LEMMA Suffix ==
    ASSUME NEW T, NEW s \in Seq(T), NEW k \in 1..(Len(s) + 1)
    PROVE  /\ SubSeq(s, k, Len(s)) \in Seq(T)
           /\ Len(SubSeq(s, k, Len(s))) = Len(s) - k + 1
           /\ \A i \in DOMAIN SubSeq(s, k, Len(s)) :
                /\ i + k - 1 \in DOMAIN s
                /\ SubSeq(s, k, Len(s))[i] = s[i + k - 1]
  OBVIOUS

LEMMA UnderwaySuffix ==
    ASSUME NEW s, NEW taken \in Seq(Nat), NEW moves \in Nat, NEW known \in Nat,
           Underway(s, taken, moves, known), NEW k \in 1..(Len(s) + 1)
    PROVE  Underway(SubSeq(s, k, Len(s)), taken, moves, known)
<1>. DEFINE w == SubSeq(s, k, Len(s))
<1>1. s \in Seq(Messages)
  BY DEF Underway
<1>2. /\ w \in Seq(Messages)
      /\ \A i \in DOMAIN w : i + k - 1 \in DOMAIN s /\ w[i] = s[i + k - 1]
  BY <1>1, Suffix
<1>3. \A i, j \in DOMAIN w : i < j => i + k - 1 < j + k - 1
  BY <1>2
<1>. HIDE DEF w
<1>4. \A i \in DOMAIN w :
          /\ w[i].kind \in Brings => w[i].n \in DOMAIN taken
          /\ w[i].kind = "ptz" => w[i].n <= moves
          /\ w[i].kind \in Tells => known <= Seen(w[i], taken)
  BY <1>2 DEF Underway
<1>5. ASSUME NEW i \in DOMAIN w, NEW j \in DOMAIN w,
             i < j, w[i].kind = "ptz", w[j].kind \in Tells
      PROVE  w[i].n <= Seen(w[j], taken)
  <2>. DEFINE a == i + k - 1
  <2>. DEFINE b == j + k - 1
  <2>1. a \in DOMAIN s /\ b \in DOMAIN s /\ a < b /\ w[i] = s[a] /\ w[j] = s[b]
    BY <1>2, <1>3, <1>5
  <2>. HIDE DEF a, b
  <2>. QED BY <1>5, <2>1 DEF Underway
<1>6. Underway(w, taken, moves, known)
  BY <1>2, <1>4, <1>5 DEF Underway
<1>. QED BY <1>6 DEF w

(* Frames are taken, moves are made, and the hub forgets what it knew. *)
LEMMA UnderwayLater ==
    ASSUME NEW s, NEW taken \in Seq(Nat), NEW moves \in Nat, NEW known \in Nat,
           Underway(s, taken, moves, known),
           NEW more \in Seq(Nat), DOMAIN taken \subseteq DOMAIN more,
           \A n \in DOMAIN taken : more[n] = taken[n],
           NEW later \in Nat, moves <= later, NEW less \in Nat, less <= known
    PROVE  Underway(s, more, later, less)
<1>1. \A m \in Messages : m.n \in Nat
  BY VisionAssumption DEF Messages, Frames, Regions
<1>2. s \in Seq(Messages) /\ \A i \in DOMAIN s : s[i].n \in Nat
  BY <1>1 DEF Underway
<1>3. \A i \in DOMAIN s : s[i].kind \in Tells =>
          Seen(s[i], taken) \in Nat /\ Seen(s[i], more) = Seen(s[i], taken)
  BY <1>2 DEF Underway, Brings, Tells, Seen
<1>4. ASSUME NEW i \in DOMAIN s
      PROVE  /\ s[i].kind \in Brings => s[i].n \in DOMAIN more
             /\ s[i].kind = "ptz" => s[i].n <= later
             /\ s[i].kind \in Tells => less <= Seen(s[i], more)
  <2>1. s[i].kind \in Brings => s[i].n \in DOMAIN more
    BY DEF Underway
  <2>2. s[i].kind = "ptz" => s[i].n <= later
    <3>1. s[i].kind = "ptz" => s[i].n <= moves
      BY DEF Underway
    <3>. QED BY <1>2, <3>1
  <2>3. s[i].kind \in Tells => less <= Seen(s[i], more)
    <3>1. s[i].kind \in Tells => known <= Seen(s[i], taken)
      BY DEF Underway
    <3>. QED BY <1>3, <3>1
  <2>. QED BY <2>1, <2>2, <2>3
<1>5. \A i, j \in DOMAIN s :
          (i < j /\ s[i].kind = "ptz" /\ s[j].kind \in Tells) => s[i].n <= Seen(s[j], more)
  BY <1>3 DEF Underway
<1>. QED BY <1>2, <1>4, <1>5 DEF Underway

(* The hub reads of a move: what comes behind it has seen the move.        *)
LEMMA UnderwayMoved ==
    ASSUME NEW s, NEW taken \in Seq(Nat), NEW moves \in Nat, NEW known \in Nat,
           Underway(s, taken, moves, known), s # <<>>, Head(s).kind = "ptz"
    PROVE  Underway(Tail(s), taken, moves, Head(s).n)
<1>1. s \in Seq(Messages) /\ Len(s) \in Nat /\ Len(s) > 0
  BY DEF Underway
<1>2. Tail(s) = SubSeq(s, 2, Len(s)) /\ Head(s) = s[1] /\ 1 \in DOMAIN s
  BY <1>1
<1>. DEFINE w == SubSeq(s, 2, Len(s))
<1>3. Underway(w, taken, moves, known)
  BY <1>1, UnderwaySuffix
<1>4. \A i \in DOMAIN w : i + 1 \in DOMAIN s /\ w[i] = s[i + 1] /\ 1 < i + 1
  BY <1>1
<1>. HIDE DEF w
<1>5. \A i \in DOMAIN w : w[i].kind \in Tells => s[1].n <= Seen(w[i], taken)
  BY <1>2, <1>4 DEF Underway
<1>6. Underway(w, taken, moves, s[1].n)
  BY <1>3, <1>5 DEF Underway
<1>. QED BY <1>2, <1>6 DEF w

-----------------------------------------------------------------------------
(* Claims. *)

LEMMA ClaimedConcat ==
    ASSUME NEW T, NEW s \in Seq(T), NEW ms \in Seq(T)
    PROVE  /\ Claimed(s \o ms) \subseteq Claimed(s) \union Claimed(ms)
           /\ (Distinct(s) /\ Distinct(ms) /\ Claimed(s) \cap Claimed(ms) = {}) =>
                Distinct(s \o ms)
<1>. DEFINE w == s \o ms
<1>1. ASSUME NEW i \in DOMAIN w
      PROVE  \/ i \in DOMAIN s /\ w[i] = s[i]
             \/ i > Len(s) /\ i - Len(s) \in DOMAIN ms /\ w[i] = ms[i - Len(s)]
  BY ConcatIndex
<1>2. DOMAIN w \subseteq Nat /\ Len(s) \in Nat
  OBVIOUS
<1>. HIDE DEF w
<1>3. ASSUME NEW n \in Claimed(w) PROVE n \in Claimed(s) \union Claimed(ms)
  <2>1. PICK i \in DOMAIN w : Claiming(w[i]) /\ n = w[i].n
    BY DEF Claimed
  <2>. QED BY <1>1, <2>1 DEF Claimed
<1>4. ASSUME Distinct(s), Distinct(ms), Claimed(s) \cap Claimed(ms) = {},
             NEW i \in DOMAIN w, NEW j \in DOMAIN w,
             Claiming(w[i]), Claiming(w[j]), w[i].n = w[j].n
      PROVE  i = j
  <2>1. CASE i \in DOMAIN s /\ w[i] = s[i] /\ j \in DOMAIN s /\ w[j] = s[j]
    BY <1>4, <2>1 DEF Distinct
  <2>2. CASE /\ i - Len(s) \in DOMAIN ms /\ w[i] = ms[i - Len(s)]
             /\ j - Len(s) \in DOMAIN ms /\ w[j] = ms[j - Len(s)]
    <3>1. i - Len(s) = j - Len(s)
      BY <1>4, <2>2 DEF Distinct
    <3>. QED BY <1>2, <3>1
  <2>3. \A a \in DOMAIN s, b \in DOMAIN ms :
            ~(Claiming(s[a]) /\ Claiming(ms[b]) /\ s[a].n = ms[b].n)
    BY <1>4 DEF Claimed
  <2>. QED BY <1>1, <1>4, <2>1, <2>2, <2>3
<1>5. (Distinct(s) /\ Distinct(ms) /\ Claimed(s) \cap Claimed(ms) = {}) => Distinct(w)
  BY <1>4 DEF Distinct
<1>. QED BY <1>3, <1>5 DEF w

LEMMA ClaimedSuffix ==
    ASSUME NEW T, NEW s \in Seq(T), Distinct(s), NEW k \in 1..(Len(s) + 1)
    PROVE  /\ Claimed(SubSeq(s, k, Len(s))) \subseteq Claimed(s)
           /\ Distinct(SubSeq(s, k, Len(s)))
<1>. DEFINE w == SubSeq(s, k, Len(s))
<1>1. \A i \in DOMAIN w : i + k - 1 \in DOMAIN s /\ w[i] = s[i + k - 1]
  BY Suffix
<1>2. \A i, j \in DOMAIN w : i + k - 1 = j + k - 1 => i = j
  OBVIOUS
<1>. HIDE DEF w
<1>3. Claimed(w) \subseteq Claimed(s)
  BY <1>1 DEF Claimed
<1>4. Distinct(w)
  BY <1>1, <1>2 DEF Distinct
<1>. QED BY <1>3, <1>4 DEF w

LEMMA ClaimedHead ==
    ASSUME NEW T, NEW s \in Seq(T), Distinct(s), s # <<>>
    PROVE  /\ Claimed(Tail(s)) \subseteq Claimed(s)
           /\ Distinct(Tail(s))
           /\ Claiming(Head(s)) => Head(s).n \in Claimed(s) \ Claimed(Tail(s))
<1>1. Tail(s) = SubSeq(s, 2, Len(s)) /\ Head(s) = s[1] /\ 1 \in DOMAIN s /\ 2 \in 1..(Len(s) + 1)
  OBVIOUS
<1>2. \A i \in DOMAIN Tail(s) : i + 1 \in DOMAIN s /\ Tail(s)[i] = s[i + 1] /\ i + 1 # 1
  OBVIOUS
<1>3. Claimed(Tail(s)) \subseteq Claimed(s) /\ Distinct(Tail(s))
  BY <1>1, ClaimedSuffix
<1>4. ASSUME Claiming(s[1]) PROVE s[1].n \in Claimed(s) \ Claimed(Tail(s))
  <2>1. s[1].n \in Claimed(s)
    BY <1>1, <1>4 DEF Claimed
  <2>2. ASSUME s[1].n \in Claimed(Tail(s)) PROVE FALSE
    <3>1. PICK i \in DOMAIN Tail(s) : Claiming(Tail(s)[i]) /\ Tail(s)[i].n = s[1].n
      BY <2>2 DEF Claimed
    <3>. QED BY <1>1, <1>2, <1>4, <3>1 DEF Distinct
  <2>. QED BY <2>1, <2>2
<1>. QED BY <1>1, <1>3, <1>4

LEMMA ClaimedNone == Claimed(<<>>) = {} /\ Distinct(<<>>)
  BY DEF Claimed, Distinct

-----------------------------------------------------------------------------
(* What the camera writes, wherever it goes. *)

LEMMA RingedIsSuffix ==
    ASSUME NEW s \in Seq(Messages)
    PROVE  /\ \E k \in 1..(Len(s) + 1) : Ringed(s) = SubSeq(s, k, Len(s))
           /\ Ringed(s) \in Seq(Messages)
           /\ Len(Ringed(s)) <= RingLimit
<1>. USE VisionAssumption
<1>1. CASE Len(s) > RingLimit
  <2>. DEFINE k == Len(s) - RingLimit + 1
  <2>1. k \in 1..(Len(s) + 1)
    BY <1>1
  <2>2. Ringed(s) = SubSeq(s, k, Len(s))
    BY <1>1 DEF Ringed
  <2>3. SubSeq(s, k, Len(s)) \in Seq(Messages) /\ Len(SubSeq(s, k, Len(s))) = Len(s) - k + 1
    BY <2>1, Suffix
  <2>4. Len(s) - k + 1 = RingLimit
    OBVIOUS
  <2>. HIDE DEF k
  <2>. QED BY <2>1, <2>2, <2>3, <2>4
<1>2. CASE ~(Len(s) > RingLimit)
  <2>1. Ringed(s) = s /\ Len(s) <= RingLimit
    BY <1>2 DEF Ringed
  <2>2. 1 \in 1..(Len(s) + 1) /\ SubSeq(s, 1, Len(s)) = s
    OBVIOUS
  <2>. QED BY <2>1, <2>2
<1>. QED BY <1>1, <1>2

LEMMA WritesLine ==
    ASSUME Line, NEW ms, Writes(ms), heard' = heard,
           shot' \in Seq(Nat), view' \in Nat, heard \in Nat, heard <= view',
           Underway(wire, shot', view', heard), Underway(ring, shot', view', heard),
           Said(ms, shot', view')
    PROVE  Line'
<1>1. Underway(wire \o ms, shot', view', heard) /\ Underway(ring \o ms, shot', view', heard)
  BY UnderwayConcat
<1>2. CASE /\ writer /\ link = "up" /\ stage = "adopted"
           /\ wire' = wire \o ms /\ UNCHANGED <<agentVars, link>>
  BY <1>1, <1>2 DEF Line, agentVars
<1>3. CASE link = "cut" /\ UNCHANGED <<agentVars, linkVars>>
  BY <1>3 DEF Line, agentVars, linkVars
<1>4. CASE /\ ~writer \/ link = "cut"
           /\ ring' = Ringed(ring \o ms) /\ UNCHANGED <<stage, knows, linkVars>>
  <2>1. link # "up" /\ wire = <<>>
    BY <1>4 DEF Line
  <2>2. ring \o ms \in Seq(Messages)
    BY <1>1 DEF Underway
  <2>3. PICK k \in 1..(Len(ring \o ms) + 1) :
            Ringed(ring \o ms) = SubSeq(ring \o ms, k, Len(ring \o ms))
    BY <2>2, RingedIsSuffix
  <2>4. Underway(ring', shot', view', heard)
    BY <1>1, <1>4, <2>3, UnderwaySuffix
  <2>. QED BY <1>4, <2>1, <2>4 DEF Line, linkVars
<1>5. CASE /\ stage = "hello" /\ link' = "none" /\ UNCHANGED <<knows, ring, wire>>
  <2>1. wire = <<>>
    BY <1>5 DEF Line
  <2>. QED BY <1>5, <2>1 DEF Line
<1>. QED BY <1>2, <1>3, <1>4, <1>5 DEF Writes

LEMMA WritesTyped ==
    ASSUME VisionTypeOK, NEW ms \in Seq(Messages), Writes(ms)
    PROVE  /\ wire' \in Seq(Messages) /\ ring' \in Seq(Messages) /\ Len(ring') <= RingLimit
           /\ stage' \in {"offline", "hello", "adopted"}
           /\ link' \in {"none", "up", "cut"}
           /\ writer' \in BOOLEAN /\ knows' = knows
<1>1. /\ wire \in Seq(Messages) /\ ring \in Seq(Messages) /\ Len(ring) <= RingLimit
      /\ stage \in {"offline", "hello", "adopted"} /\ link \in {"none", "up", "cut"}
  BY DEF VisionTypeOK
<1>2. wire \o ms \in Seq(Messages) /\ ring \o ms \in Seq(Messages)
  BY <1>1
<1>3. Ringed(ring \o ms) \in Seq(Messages) /\ Len(Ringed(ring \o ms)) <= RingLimit
  BY <1>2, RingedIsSuffix
<1>4. writer' \in BOOLEAN
  <2>1. writer \in BOOLEAN
    BY DEF VisionTypeOK
  <2>2. writer' = writer \/ writer' = FALSE
    BY DEF Writes, agentVars
  <2>. QED BY <2>1, <2>2
<1>. QED BY <1>1, <1>2, <1>3, <1>4 DEF Writes, agentVars, linkVars

LEMMA WritesClaims ==
    ASSUME VisionTypeOK, NEW ms \in Seq(Messages), Writes(ms),
           Distinct(wire), Distinct(ring), Distinct(ms),
           Claimed(ms) \cap (Claimed(wire) \union Claimed(ring)) = {}
    PROVE  /\ Distinct(wire') /\ Distinct(ring')
           /\ Claimed(wire') \union Claimed(ring') \subseteq
                  Claimed(wire) \union Claimed(ring) \union Claimed(ms)
<1>1. wire \in Seq(Messages) /\ ring \in Seq(Messages)
  BY DEF VisionTypeOK
<1>2. /\ Distinct(wire \o ms) /\ Distinct(ring \o ms)
      /\ Claimed(wire \o ms) \subseteq Claimed(wire) \union Claimed(ms)
      /\ Claimed(ring \o ms) \subseteq Claimed(ring) \union Claimed(ms)
  BY <1>1, ClaimedConcat
<1>3. /\ Distinct(Ringed(ring \o ms))
      /\ Claimed(Ringed(ring \o ms)) \subseteq Claimed(ring) \union Claimed(ms)
  <2>1. ring \o ms \in Seq(Messages)
    BY <1>1
  <2>2. PICK k \in 1..(Len(ring \o ms) + 1) :
            Ringed(ring \o ms) = SubSeq(ring \o ms, k, Len(ring \o ms))
    BY <2>1, RingedIsSuffix
  <2>3. /\ Claimed(SubSeq(ring \o ms, k, Len(ring \o ms))) \subseteq Claimed(ring \o ms)
        /\ Distinct(SubSeq(ring \o ms, k, Len(ring \o ms)))
    BY <1>2, <2>1, ClaimedSuffix
  <2>. QED BY <1>2, <2>2, <2>3
<1>. QED BY <1>2, <1>3 DEF Writes, agentVars, linkVars

LEMMA ClaimedAreTaken ==
    ASSUME NEW s, NEW taken, NEW moves, NEW known, Underway(s, taken, moves, known)
    PROVE  Claimed(s) \subseteq DOMAIN taken
  BY DEF Underway, Claimed, Claiming, Brings

-----------------------------------------------------------------------------
(* The camera: frames and commands. *)

(* A frame more, or none. *)
Shoots == shot' = shot \/ (Len(shot) < MaxFrames /\ shot' = Append(shot, view))

LEMMA ShootsTyped ==
    ASSUME VisionTypeOK, Shoots
    PROVE  /\ shot \in Seq(Nat) /\ shot' \in Seq(Nat)
           /\ shot' \in Seq(0 .. MaxMoves) /\ Len(shot') <= MaxFrames
           /\ Len(shot) <= Len(shot') /\ Len(shot) \in Nat
           /\ DOMAIN shot \subseteq DOMAIN shot'
           /\ \A n \in DOMAIN shot : shot'[n] = shot[n]
<1>1. shot \in Seq(0 .. MaxMoves) /\ Len(shot) <= MaxFrames /\ view \in 0 .. MaxMoves
  BY DEF VisionTypeOK
<1>2. 0 .. MaxMoves \subseteq Nat /\ MaxMoves \in Nat /\ MaxFrames \in Nat
  BY VisionAssumption
<1>3. shot' \in Seq(0 .. MaxMoves) /\ Len(shot') <= MaxFrames
  BY <1>1, <1>2 DEF Shoots
<1>4. shot \in Seq(Nat) /\ shot' \in Seq(Nat)
  BY <1>1, <1>2, <1>3, SeqMonotonic
<1>5. /\ Len(shot) <= Len(shot') /\ Len(shot) \in Nat
      /\ DOMAIN shot \subseteq DOMAIN shot'
      /\ \A n \in DOMAIN shot : shot'[n] = shot[n]
  BY <1>1 DEF Shoots
<1>. QED BY <1>3, <1>4, <1>5

LEMMA CountTypes ==
    ASSUME VisionTypeOK
    PROVE  shot \in Seq(Nat) /\ Len(shot) \in Nat /\ view \in Nat /\ heard \in Nat
<1>1. shot \in Seq(0 .. MaxMoves) /\ view \in 0 .. MaxMoves /\ heard \in 0 .. view
  BY DEF VisionTypeOK
<1>2. MaxMoves \in Nat
  BY VisionAssumption
<1>3. 0 .. MaxMoves \subseteq Nat
  BY <1>2
<1>4. shot \in Seq(Nat)
  BY <1>1, <1>3, SeqMonotonic
<1>. QED BY <1>1, <1>2, <1>4

LEMMA ViewOfType ==
    ASSUME NEW base \in 0 .. Len(shot), shot \in Seq(Nat)
    PROVE  ViewOf(base) \in Nat
  BY DEF ViewOf, None

LEMMA HandledStays ==
    ASSUME VisionInv, Shoots, UNCHANGED hubVars
    PROVE  Handled'
<1>1. /\ shot \in Seq(Nat)
      /\ DOMAIN shot \subseteq DOMAIN shot'
      /\ \A n \in DOMAIN shot : shot'[n] = shot[n]
  BY ShootsTyped DEF VisionInv, Typed
<1>2. mv.base \in 0 .. Len(shot) /\ (mv.base # 0 => mv.base \in DOMAIN shot)
  BY <1>1 DEF VisionInv, Typed, VisionTypeOK
<1>3. ViewOf(mv.base)' = ViewOf(mv.base)
  BY <1>1, <1>2 DEF ViewOf, None, hubVars
<1>4. UNCHANGED <<mv, heard, queue, foam, forgot>>
  BY DEF hubVars
<1>5. ReferenceIsCurrent'
  BY <1>3, <1>4 DEF VisionInv, Handled, ReferenceIsCurrent
<1>. QED BY <1>3, <1>4, <1>5 DEF VisionInv, Handled

LEMMA CameraSays ==
    ASSUME VisionInv, Shoots, UNCHANGED <<role, hubVars>>,
           view' \in 0 .. MaxMoves, view <= view', asked' \in Nat,
           taking' \in 0 .. Len(shot'),
           NEW ms, Said(ms, shot', view'), Distinct(ms), Writes(ms),
           Taking' \cap Claimed(ms) = {},
           Taking' \union Claimed(ms) \subseteq Taking \union (DOMAIN shot' \ DOMAIN shot)
    PROVE  VisionInv'
<1>1. VisionTypeOK /\ Line /\ Single
  BY DEF VisionInv, Typed
<1>2. ms \in Seq(Messages)
  BY DEF Said
<1>3. /\ shot \in Seq(Nat) /\ shot' \in Seq(Nat)
      /\ shot' \in Seq(0 .. MaxMoves) /\ Len(shot') <= MaxFrames
      /\ Len(shot) <= Len(shot') /\ Len(shot) \in Nat
      /\ DOMAIN shot \subseteq DOMAIN shot'
      /\ \A n \in DOMAIN shot : shot'[n] = shot[n]
  BY <1>1, ShootsTyped
<1>4. view \in Nat /\ view' \in Nat /\ heard \in Nat /\ heard <= view
  BY <1>1, VisionAssumption DEF VisionTypeOK
<1>5. Underway(wire, shot', view', heard) /\ Underway(ring, shot', view', heard)
  <2>1. Underway(wire, shot, view, heard) /\ Underway(ring, shot, view, heard)
    BY <1>1 DEF Line
  <2>. QED BY <1>3, <1>4, <2>1, UnderwayLater
<1>6. UNCHANGED <<session, mv, queue, foam, readings, heard, forgot>>
  BY DEF hubVars
<1>7. Line'
  BY <1>1, <1>3, <1>4, <1>5, <1>6, WritesLine
<1>8. Typed'
  <2>1. /\ wire' \in Seq(Messages) /\ ring' \in Seq(Messages) /\ Len(ring') <= RingLimit
        /\ stage' \in {"offline", "hello", "adopted"}
        /\ link' \in {"none", "up", "cut"}
        /\ writer' \in BOOLEAN /\ knows' = knows
    BY <1>1, <1>2, WritesTyped
  <2>2. mv'.base \in 0 .. Len(shot')
    BY <1>1, <1>3, <1>6 DEF VisionTypeOK
  <2>3. heard' \in 0 .. view'
    BY <1>4, <1>6
  <2>4. {knows, writer, session, forgot}' \subseteq BOOLEAN
    BY <1>1, <1>6, <2>1 DEF VisionTypeOK
  <2>5. VisionTypeOK'
    BY <1>1, <1>3, <1>6, <2>1, <2>2, <2>3, <2>4 DEF VisionTypeOK
  <2>. QED BY <1>6, <2>5 DEF VisionInv, Typed
<1>9. Single'
  <2>. DEFINE before == Claimed(wire) \union Claimed(ring)
  <2>1. before \subseteq DOMAIN shot
    BY <1>1, ClaimedAreTaken DEF Line
  <2>2. Taking \cap before = {}
    BY <1>1 DEF Single
  <2>3. Claimed(ms) \cap before = {} /\ Taking' \cap before = {}
    BY <2>1, <2>2
  <2>4. /\ Distinct(wire') /\ Distinct(ring')
        /\ Claimed(wire') \union Claimed(ring') \subseteq before \union Claimed(ms)
    BY <1>1, <1>2, <2>3, WritesClaims DEF Single
  <2>5. /\ Claimed(queue)' = Claimed(queue) /\ Held' = Held /\ Judged' = Judged
        /\ Distinct(queue)' /\ OneReadingPerFrame'
    BY <1>1, <1>6 DEF Single, Claimed, Held, Judged, Distinct, OneReadingPerFrame
  <2>6. Claimed(queue) \union Held \union Judged \subseteq DOMAIN shot
    BY <1>1 DEF Single
  <2>7. /\ Claimed(queue) \cap Held = {}
        /\ (Taking \union before) \cap (Claimed(queue) \union Held) = {}
        /\ (Taking \union before) \cap Judged = {}
        /\ (Claimed(queue) \union Held) \cap Judged = {}
    BY <1>1 DEF Single
  <2>. HIDE DEF before
  <2>8. Taking' \cap (Claimed(wire') \union Claimed(ring')) = {}
    BY <2>3, <2>4
  <2>9. (Taking' \union Claimed(wire') \union Claimed(ring'))
            \cap (Claimed(queue) \union Held \union Judged) = {}
    BY <2>1, <2>4, <2>6, <2>7
  <2>. QED BY <1>3, <2>4, <2>5, <2>6, <2>7, <2>8, <2>9 DEF Single
<1>10. Handled'
  BY HandledStays DEF hubVars
<1>. QED BY <1>7, <1>8, <1>9, <1>10 DEF VisionInv

LEMMA MessageTypes ==
    /\ \A n \in Frames, tied \in BOOLEAN : Frame(n, tied) \in Messages
    /\ \A n \in Frames : Result("capture", n) \in Messages /\ Result("re_baseline", n) \in Messages
    /\ \A n \in 1 .. MaxMoves : Result("ptz", n) \in Messages
    /\ \A n \in Regions : Result("set_region", n) \in Messages
  BY DEF Frame, Result, Messages

LEMMA ClaimsOne ==
    ASSUME NEW m PROVE Distinct(<<m>>) /\ Claimed(<<m>>) = IF Claiming(m) THEN {m.n} ELSE {}
  BY DEF Distinct, Claimed

LEMMA ClaimsOf ==
    ASSUME NEW n
    PROVE  /\ Claimed(<<Frame(n, FALSE)>>) = {n} /\ Claimed(<<Frame(n, TRUE)>>) = {}
           /\ Claimed(<<Result("capture", n)>>) = {n}
           /\ Claimed(<<Result("ptz", n)>>) = {} /\ Claimed(<<Result("set_region", n)>>) = {}
<1>1. Claiming(Frame(n, FALSE)) /\ Frame(n, FALSE).n = n /\ ~Claiming(Frame(n, TRUE))
  BY DEF Claiming, Frame
<1>2. /\ Claiming(Result("capture", n)) /\ Result("capture", n).n = n
      /\ ~Claiming(Result("ptz", n)) /\ ~Claiming(Result("set_region", n))
  BY DEF Claiming, Result
<1>. QED BY <1>1, <1>2, ClaimsOne

(* Of one message, what Said asks. *)
LEMMA SaidOne ==
    ASSUME NEW m \in Messages, NEW taken, NEW moves,
           m.kind \in Brings => m.n \in DOMAIN taken,
           m.kind = "ptz" => m.n <= moves /\ m.n = moves,
           m.kind = "re_baseline" => taken[m.n] = moves
    PROVE  Said(<<m>>, taken, moves)
  BY DEF Said, Seen, Tells

LEMMA NewFrame ==
    ASSUME VisionTypeOK, Len(shot) < MaxFrames, shot' = Append(shot, view)
    PROVE  /\ Len(shot) + 1 \in Frames /\ Len(shot') = Len(shot) + 1
           /\ Len(shot) + 1 \in DOMAIN shot' /\ Len(shot) + 1 \notin DOMAIN shot
           /\ shot'[Len(shot) + 1] = view
           /\ Len(shot) + 1 # None
<1>1. /\ shot \in Seq(0 .. MaxMoves) /\ Len(shot) \in Nat /\ view \in 0 .. MaxMoves
      /\ MaxFrames \in Nat
  BY VisionAssumption DEF VisionTypeOK
<1>2. Len(shot) + 1 \in Frames /\ Len(shot) + 1 # None
  BY <1>1 DEF Frames, None
<1>3. /\ Len(shot') = Len(shot) + 1 /\ shot'[Len(shot) + 1] = view
      /\ Len(shot) + 1 \in DOMAIN shot' /\ Len(shot) + 1 \notin DOMAIN shot
  BY <1>1
<1>. QED BY <1>2, <1>3

LEMMA CameraTypes ==
    ASSUME VisionInv
    PROVE  /\ VisionTypeOK /\ asked \in Nat /\ view \in 0 .. MaxMoves /\ view \in Nat
           /\ taking \in 0 .. Len(shot) /\ Len(shot) \in Nat /\ Len(shot) <= MaxFrames
           /\ MaxMoves \in Nat /\ MaxFrames \in Nat
           /\ Taking \subseteq DOMAIN shot
<1>1. MaxMoves \in Nat /\ MaxFrames \in Nat
  BY VisionAssumption
<1>2. /\ VisionTypeOK /\ asked \in Nat /\ view \in 0 .. MaxMoves /\ shot \in Seq(0 .. MaxMoves)
      /\ taking \in 0 .. Len(shot) /\ Len(shot) <= MaxFrames
  BY DEF VisionInv, Typed, VisionTypeOK
<1>3. DOMAIN shot = 1 .. Len(shot) /\ Len(shot) \in Nat
  BY <1>2
<1>4. Taking \subseteq DOMAIN shot
  BY <1>2, <1>3 DEF Taking, None
<1>. QED BY <1>1, <1>2, <1>3, <1>4

LEMMA StreamKeeps == ASSUME VisionInv, Stream PROVE VisionInv'
<1>. DEFINE n == Len(shot) + 1
<1>. DEFINE ms == <<Frame(n, FALSE)>>
<1>1. /\ shot' = Append(shot, view) /\ Len(shot) < MaxFrames /\ Writes(ms)
      /\ UNCHANGED <<role, view, taking, hubVars, asked>>
  BY DEF Stream
<1>2. VisionTypeOK /\ asked \in Nat /\ view \in 0 .. MaxMoves /\ view \in Nat
      /\ taking \in 0 .. Len(shot) /\ Len(shot) \in Nat /\ Taking \subseteq DOMAIN shot
  BY CameraTypes
<1>3. n \in Frames /\ Len(shot') = n /\ n \in DOMAIN shot' /\ n \notin DOMAIN shot
  BY <1>1, <1>2, NewFrame
<1>4. Frame(n, FALSE) \in Messages /\ Frame(n, FALSE).kind = "frame" /\ Frame(n, FALSE).n = n
  BY <1>3, MessageTypes DEF Frame
<1>5. Said(ms, shot', view')
  BY <1>3, <1>4, SaidOne
<1>6. Claimed(ms) = {n} /\ Distinct(ms)
  BY ClaimsOf, ClaimsOne
<1>7. Taking' = Taking
  BY <1>1 DEF Taking
<1>8. taking' \in 0 .. Len(shot')
  BY <1>1, <1>2, <1>3
<1>. HIDE DEF n, ms
<1>. QED BY <1>1, <1>2, <1>3, <1>5, <1>6, <1>7, <1>8, CameraSays DEF Shoots

LEMMA CaptureKeeps == ASSUME VisionInv, Capture PROVE VisionInv'
<1>. DEFINE n == Len(shot) + 1
<1>. DEFINE ms == <<Frame(n, TRUE)>>
<1>1. /\ shot' = Append(shot, view) /\ Len(shot) < MaxFrames /\ Writes(ms) /\ taking' = n
      /\ UNCHANGED <<role, view, hubVars, asked>>
  BY DEF Capture
<1>2. VisionTypeOK /\ asked \in Nat /\ view \in 0 .. MaxMoves /\ view \in Nat /\ Len(shot) \in Nat
  BY CameraTypes
<1>3. n \in Frames /\ Len(shot') = n /\ n \in DOMAIN shot' /\ n \notin DOMAIN shot /\ n # None
  BY <1>1, <1>2, NewFrame
<1>4. Frame(n, TRUE) \in Messages /\ Frame(n, TRUE).kind = "frame" /\ Frame(n, TRUE).n = n
  BY <1>3, MessageTypes DEF Frame
<1>5. Said(ms, shot', view')
  BY <1>3, <1>4, SaidOne
<1>6. Claimed(ms) = {} /\ Distinct(ms)
  BY ClaimsOf, ClaimsOne
<1>7. Taking' = {n}
  BY <1>1, <1>3 DEF Taking
<1>8. taking' \in 0 .. Len(shot')
  BY <1>1, <1>2, <1>3
<1>. HIDE DEF n, ms
<1>. QED BY <1>1, <1>2, <1>3, <1>5, <1>6, <1>7, <1>8, CameraSays DEF Shoots

LEMMA CapturedKeeps == ASSUME VisionInv, Captured PROVE VisionInv'
<1>. DEFINE n == taking
<1>. DEFINE ms == <<Result("capture", n)>>
<1>1. /\ taking # None /\ taking' = None /\ Writes(ms)
      /\ UNCHANGED <<role, shot, view, hubVars, asked>>
  BY DEF Captured
<1>2. VisionTypeOK /\ asked \in Nat /\ view \in 0 .. MaxMoves /\ view \in Nat
      /\ taking \in 0 .. Len(shot) /\ Len(shot) \in Nat /\ Len(shot) <= MaxFrames
      /\ MaxFrames \in Nat
  BY CameraTypes
<1>3. n \in Frames /\ n \in DOMAIN shot
  BY <1>1, <1>2 DEF Frames, None, VisionTypeOK
<1>4. Result("capture", n) \in Messages /\ Result("capture", n).kind = "capture"
      /\ Result("capture", n).n = n
  BY <1>3, MessageTypes DEF Result
<1>5. Said(ms, shot', view')
  BY <1>1, <1>3, <1>4, SaidOne
<1>6. Claimed(ms) = {n} /\ Distinct(ms)
  BY ClaimsOf, ClaimsOne
<1>7. Taking' = {} /\ Taking = {n}
  BY <1>1 DEF Taking
<1>8. taking' \in 0 .. Len(shot')
  BY <1>1, <1>2 DEF None
<1>. HIDE DEF n, ms
<1>. QED BY <1>1, <1>2, <1>3, <1>5, <1>6, <1>7, <1>8, CameraSays DEF Shoots

LEMMA ReBaselineKeeps == ASSUME VisionInv, ReBaseline PROVE VisionInv'
<1>. DEFINE n == Len(shot) + 1
<1>. DEFINE a == Frame(n, TRUE)
<1>. DEFINE b == Result("re_baseline", n)
<1>. DEFINE ms == <<a, b>>
<1>1. /\ shot' = Append(shot, view) /\ Len(shot) < MaxFrames /\ Writes(ms)
      /\ UNCHANGED <<role, view, taking, hubVars, asked>>
  BY DEF ReBaseline
<1>2. VisionTypeOK /\ asked \in Nat /\ view \in 0 .. MaxMoves /\ view \in Nat
      /\ taking \in 0 .. Len(shot) /\ Len(shot) \in Nat /\ Taking \subseteq DOMAIN shot
  BY CameraTypes
<1>3. n \in Frames /\ Len(shot') = n /\ n \in DOMAIN shot' /\ shot'[n] = view
  BY <1>1, <1>2, NewFrame
<1>4. /\ a \in Messages /\ a.kind = "frame" /\ a.n = n /\ ~Claiming(a)
      /\ b \in Messages /\ b.kind = "re_baseline" /\ b.n = n /\ ~Claiming(b)
  BY <1>3, MessageTypes DEF Frame, Result, Claiming
<1>5. Taking' = Taking
  BY <1>1 DEF Taking
<1>6. taking' \in 0 .. Len(shot')
  BY <1>1, <1>2, <1>3
<1>. HIDE DEF n, a, b
<1>7. DOMAIN ms = {1, 2} /\ ms[1] = a /\ ms[2] = b /\ ms \in Seq(Messages)
  BY <1>4
<1>. HIDE DEF ms
<1>8. Said(ms, shot', view')
  BY <1>1, <1>3, <1>4, <1>7 DEF Said, Seen, Tells
<1>9. Claimed(ms) = {} /\ Distinct(ms)
  BY <1>4, <1>7 DEF Claimed, Distinct
<1>. QED BY <1>1, <1>2, <1>3, <1>5, <1>6, <1>8, <1>9, CameraSays DEF Shoots

LEMMA PtzKeeps == ASSUME VisionInv, Ptz PROVE VisionInv'
<1>. DEFINE n == view + 1
<1>. DEFINE ms == <<Result("ptz", n)>>
<1>1. /\ view < MaxMoves /\ view' = n /\ Writes(ms)
      /\ UNCHANGED <<role, shot, taking, hubVars, asked>>
  BY DEF Ptz
<1>2. VisionTypeOK /\ asked \in Nat /\ view \in 0 .. MaxMoves /\ view \in Nat
      /\ taking \in 0 .. Len(shot) /\ MaxMoves \in Nat /\ Taking \subseteq DOMAIN shot
  BY CameraTypes
<1>3. n \in 1 .. MaxMoves /\ view' \in 0 .. MaxMoves /\ view <= view' /\ n <= view'
  BY <1>1, <1>2
<1>4. Result("ptz", n) \in Messages /\ Result("ptz", n).kind = "ptz" /\ Result("ptz", n).n = n
  BY <1>3, MessageTypes DEF Result
<1>5. Said(ms, shot', view')
  BY <1>1, <1>3, <1>4, SaidOne DEF Brings
<1>6. Claimed(ms) = {} /\ Distinct(ms)
  BY ClaimsOf, ClaimsOne
<1>7. Taking' = Taking
  BY <1>1 DEF Taking
<1>. HIDE DEF n, ms
<1>. QED BY <1>1, <1>2, <1>3, <1>5, <1>6, <1>7, CameraSays DEF Shoots

LEMMA SetRegionKeeps == ASSUME VisionInv, SetRegion PROVE VisionInv'
<1>. DEFINE n == asked + 1
<1>. DEFINE ms == <<Result("set_region", n)>>
<1>1. /\ asked < MaxRegions /\ asked' = n /\ Writes(ms)
      /\ UNCHANGED <<role, shot, view, taking, hubVars>>
  BY DEF SetRegion, cameraVars
<1>2. VisionTypeOK /\ asked \in Nat /\ view \in 0 .. MaxMoves /\ view \in Nat
      /\ taking \in 0 .. Len(shot) /\ Taking \subseteq DOMAIN shot
  BY CameraTypes
<1>3. n \in Regions /\ n \in Nat
  BY <1>1, <1>2, VisionAssumption DEF Regions
<1>4. Result("set_region", n) \in Messages /\ Result("set_region", n).kind = "set_region"
  BY <1>3, MessageTypes DEF Result
<1>5. Said(ms, shot', view')
  BY <1>4, SaidOne DEF Brings
<1>6. Claimed(ms) = {} /\ Distinct(ms)
  BY ClaimsOf, ClaimsOne
<1>7. Taking' = Taking
  BY <1>1 DEF Taking
<1>. HIDE DEF n, ms
<1>. QED BY <1>1, <1>2, <1>3, <1>5, <1>6, <1>7, CameraSays DEF Shoots

-----------------------------------------------------------------------------
(* The connection, and the end of a session. *)

LEMMA HandledSame ==
    ASSUME Handled, UNCHANGED <<shot, mv, queue, foam, heard, forgot>>
    PROVE  Handled'
  BY DEF Handled, ReferenceIsCurrent, ViewOf

LEMMA SingleShrinks ==
    ASSUME Single, UNCHANGED <<shot, queue, foam, readings>>, Taking' \subseteq Taking,
           Distinct(wire'), Distinct(ring'),
           Claimed(wire') \union Claimed(ring') \subseteq Claimed(wire) \union Claimed(ring)
    PROVE  Single'
<1>1. /\ Claimed(queue)' = Claimed(queue) /\ Held' = Held /\ Judged' = Judged
      /\ Distinct(queue)' /\ OneReadingPerFrame'
  BY DEF Single, Claimed, Held, Judged, Distinct, OneReadingPerFrame
<1>. QED BY <1>1 DEF Single

LEMMA UnderwayNone ==
    ASSUME NEW taken, NEW moves, NEW known PROVE Underway(<<>>, taken, moves, known)
  BY DEF Underway

ConnectionSteps == Dial \/ Adopted \/ HangUp \/ Cut \/ CameraRestart \/ SessionEnds

LEMMA ConnectionKeeps == ASSUME VisionInv, ConnectionSteps PROVE VisionInv'
<1>. USE DEF ConnectionSteps
<1>1. Typed /\ VisionTypeOK /\ Line /\ Single /\ Handled
  BY DEF VisionInv, Typed
<1>2. UNCHANGED <<role, shot, view, mv, queue, foam, readings, heard, forgot, asked>>
  BY DEF Dial, Adopted, HangUp, Cut, CameraRestart, SessionEnds, cameraVars, hubVars
<1>3. Handled'
  BY <1>1, <1>2, HandledSame
<1>4. /\ wire' \in {wire, ring, <<>>} /\ ring' \in {ring, <<>>}
      /\ wire' = ring => ring' = <<>> \/ wire' = wire
      /\ taking' \in {taking, None}
  BY DEF Dial, Adopted, HangUp, Cut, CameraRestart, SessionEnds, cameraVars, agentVars, linkVars
<1>5. Single'
  <2>1. Taking' \subseteq Taking
    BY <1>4 DEF Taking
  <2>2. /\ Distinct(wire') /\ Distinct(ring')
        /\ Claimed(wire') \union Claimed(ring') \subseteq Claimed(wire) \union Claimed(ring)
    BY <1>1, <1>4, ClaimedNone DEF Single
  <2>. QED BY <1>1, <1>2, <2>1, <2>2, SingleShrinks
<1>6. Line'
  <2>1. /\ Underway(wire, shot, view, heard) /\ Underway(ring, shot, view, heard)
        /\ Underway(<<>>, shot, view, heard)
    BY <1>1, UnderwayNone DEF Line
  <2>2. Underway(wire', shot', view', heard') /\ Underway(ring', shot', view', heard')
    BY <1>2, <1>4, <2>1
  <2>3. /\ link' = "up" => writer' /\ stage' \in {"hello", "adopted"}
        /\ wire' # <<>> => link' = "up" /\ stage' = "adopted"
        /\ link' = "up" /\ stage' = "adopted" => ring' = <<>>
    <3>1. CASE Dial
      BY <1>1, <3>1 DEF Dial, Line
    <3>2. CASE Adopted
      BY <1>1, <3>2 DEF Adopted, Line
    <3>3. CASE HangUp
      BY <1>1, <3>3 DEF HangUp, Line
    <3>4. CASE Cut
      BY <1>1, <3>4 DEF Cut, Line, agentVars
    <3>5. CASE CameraRestart
      BY <1>1, <3>5 DEF CameraRestart, Line
    <3>6. CASE SessionEnds
      BY <1>1, <3>6 DEF SessionEnds, Line, agentVars, linkVars
    <3>. QED BY <3>1, <3>2, <3>3, <3>4, <3>5, <3>6
  <2>. QED BY <2>2, <2>3 DEF Line
<1>7. Typed'
  <2>1. stage' \in {"offline", "hello", "adopted"} /\ link' \in {"none", "up", "cut"}
    BY <1>1 DEF Dial, Adopted, HangUp, Cut, CameraRestart, SessionEnds, agentVars, linkVars,
                VisionTypeOK
  <2>2. {knows, writer, session, forgot}' \subseteq BOOLEAN
    <3>1. /\ knows' = knows \/ knows' = TRUE \/ knows' = FALSE
          /\ writer' = writer \/ writer' = TRUE \/ writer' = FALSE
          /\ session' = session \/ session' = TRUE \/ session' = FALSE
          /\ forgot' = forgot
      BY <1>2 DEF Dial, Adopted, HangUp, Cut, CameraRestart, SessionEnds, agentVars, hubVars
    <3>2. knows \in BOOLEAN /\ writer \in BOOLEAN /\ session \in BOOLEAN /\ forgot \in BOOLEAN
      BY <1>1 DEF VisionTypeOK
    <3>3. knows' \in BOOLEAN /\ writer' \in BOOLEAN /\ session' \in BOOLEAN /\ forgot' \in BOOLEAN
      BY <3>1, <3>2
    <3>. QED BY <3>3
  <2>3. /\ wire' \in Seq(Messages) /\ ring' \in Seq(Messages) /\ Len(ring') <= RingLimit
    <3>1. /\ wire \in Seq(Messages) /\ ring \in Seq(Messages) /\ Len(ring) <= RingLimit
          /\ <<>> \in Seq(Messages) /\ Len(<<>>) <= RingLimit
      BY <1>1, VisionAssumption DEF VisionTypeOK
    <3>. QED BY <1>4, <3>1
  <2>4. taking' \in 0 .. Len(shot')
    BY <1>1, <1>2, <1>4 DEF VisionTypeOK, None
  <2>5. VisionTypeOK'
    BY <1>1, <1>2, <2>1, <2>2, <2>3, <2>4 DEF VisionTypeOK
  <2>. QED BY <1>1, <1>2, <2>5 DEF Typed
<1>. QED BY <1>3, <1>5, <1>6, <1>7 DEF VisionInv

-----------------------------------------------------------------------------
(* The interpreter on the loop. *)

Current(v) ==
    (~v.required /\ ~forgot) =>
        /\ heard <= ViewOf(v.base)
        /\ \/ v.base = None /\ v.region \in {Whole, Configured}
           \/ v.base # None /\ v.baseRegion = v.region

LEMMA RegionTypes == Whole \in Regions /\ Configured \in Regions
  BY VisionAssumption DEF Regions, Whole, Configured

LEMMA SeedIs ==
    ASSUME NEW served
    PROVE  /\ Seed(served) \in Visions /\ Seed(served).seeded = TRUE
           /\ Seed(served).base = None /\ Seed(served).required = FALSE
           /\ Seed(served).region \in {Whole, Configured}
  BY RegionTypes, VisionAssumption DEF Seed, Visions, None

LEMMA KnownIs ==
    ASSUME VisionInv
    PROVE  /\ Known \in Visions /\ Known.seeded = TRUE
           /\ Known.base = mv.base /\ Known.base \in 0 .. Len(shot)
           /\ Current(Known)
<1>1. mv \in Visions /\ mv.base \in 0 .. Len(shot) /\ Len(shot) \in Nat
  BY DEF VisionInv, Typed, VisionTypeOK, Visions
<1>2. CASE mv.seeded
  <2>1. Known = mv
    BY <1>2 DEF Known
  <2>2. mv.seeded = TRUE
    BY <1>1, <1>2 DEF Visions
  <2>3. Current(mv)
    BY <1>2 DEF VisionInv, Handled, ReferenceIsCurrent, Current
  <2>. QED BY <1>1, <2>1, <2>2, <2>3
<1>3. CASE ~mv.seeded
  <2>1. Known = Seed(TRUE) /\ mv = NoVision /\ heard = 0
    BY <1>3 DEF Known, VisionInv, Handled
  <2>2. mv.base = None
    BY <2>1 DEF NoVision
  <2>3. ViewOf(None) = 0
    BY DEF ViewOf
  <2>4. Current(Known)
    <3>1. Known.base = None /\ Known.region \in {Whole, Configured}
      BY <2>1, SeedIs
    <3>2. heard <= ViewOf(Known.base)
      BY <2>1, <3>1 DEF ViewOf
    <3>. QED BY <3>1, <3>2 DEF Current
  <2>. QED BY <1>1, <2>1, <2>2, <2>4, SeedIs
<1>. QED BY <1>2, <1>3

(* What the loop keeps of a result, whatever it makes of it. *)
LEMMA HandledNow ==
    ASSUME VisionInv, UNCHANGED <<shot, queue, foam, forgot>>,
           mv'.seeded = TRUE, Current(mv)', heard' \in Nat, heard <= heard',
           (foam.pc = "name" /\ foam.good /\ ~forgot) => foam.after <= ViewOf(mv'.base)
    PROVE  Handled'
<1>1. heard \in Nat /\ Handled
  BY VisionAssumption DEF VisionInv, Typed, VisionTypeOK
<1>2. ReferenceIsCurrent'
  BY DEF ReferenceIsCurrent, Current
<1>3. \A i \in DOMAIN queue' : queue'[i].after <= heard'
  <2>1. \A i \in DOMAIN queue : queue[i].after \in Nat /\ queue[i].after <= heard
    <3>. SUFFICES ASSUME NEW i \in DOMAIN queue
                  PROVE  queue[i].after \in Nat /\ queue[i].after <= heard
      OBVIOUS
    <3>1. queue \in Seq(Offers)
      BY DEF VisionInv, Typed
    <3>2. queue[i] \in Offers
      BY <3>1
    <3>3. queue[i].after \in 0 .. MaxMoves
      BY <3>2 DEF Offers
    <3>. QED BY <1>1, <3>3, VisionAssumption DEF Handled
  <2>. QED BY <1>1, <2>1
<1>4. foam'.pc # "idle" => foam'.after <= heard'
  <2>1. foam.after \in Nat
    BY VisionAssumption DEF VisionInv, Typed, Foams
  <2>. QED BY <1>1, <2>1 DEF Handled
<1>5. ViewOf(mv.base)' = ViewOf(mv'.base)
  BY DEF ViewOf
<1>. QED BY <1>1, <1>2, <1>3, <1>4, <1>5 DEF Handled

(* One reading more. *)
LEMMA ReadingMore ==
    ASSUME OneReadingPerFrame, NEW r, r.frame \notin Judged, readings' = readings \union {r}
    PROVE  OneReadingPerFrame' /\ Judged' = Judged \union {r.frame}
<1>1. Judged' = Judged \union {r.frame}
  BY DEF Judged
<1>2. \A x \in readings : x.frame # r.frame
  BY DEF Judged
<1>3. OneReadingPerFrame'
  BY <1>2 DEF OneReadingPerFrame
<1>. QED BY <1>1, <1>3

LEMMA MessageIs ==
    ASSUME NEW m \in Messages
    PROVE  /\ m.n \in Nat
           /\ m.kind = "frame" => m.n \in Frames /\ m.tied \in BOOLEAN
           /\ m.kind = "set_region" => m.n \in Regions
           /\ m.kind = "ptz" => m.n \in 1 .. MaxMoves
  BY VisionAssumption DEF Messages, Frames, Regions

LEMMA FirstIs ==
    ASSUME VisionInv, wire # <<>>
    PROVE  /\ Head(wire) \in Messages /\ Tail(wire) \in Seq(Messages)
           /\ link = "up" /\ stage = "adopted" /\ ring = <<>>
           /\ Distinct(Tail(wire)) /\ Claimed(Tail(wire)) \subseteq Claimed(wire)
           /\ Claiming(Head(wire)) => Head(wire).n \in Claimed(wire) \ Claimed(Tail(wire))
           /\ Underway(Tail(wire), shot, view, heard)
           /\ Head(wire).kind \in Brings => Head(wire).n \in DOMAIN shot
           /\ Head(wire).kind = "ptz" => Head(wire).n <= view
           /\ Head(wire).kind \in Tells => heard <= Seen(Head(wire), shot)
           /\ shot \in Seq(Nat) /\ view \in Nat /\ heard \in 0 .. view
<1>1. VisionTypeOK /\ Line /\ Distinct(wire)
  BY DEF VisionInv, Typed, Single
<1>2. /\ wire \in Seq(Messages) /\ shot \in Seq(0 .. MaxMoves)
      /\ view \in 0 .. MaxMoves /\ heard \in 0 .. view
  BY <1>1 DEF VisionTypeOK
<1>3. /\ Head(wire) \in Messages /\ Tail(wire) \in Seq(Messages)
      /\ 1 \in DOMAIN wire /\ Head(wire) = wire[1]
      /\ Tail(wire) = SubSeq(wire, 2, Len(wire)) /\ 2 \in 1..(Len(wire) + 1)
  BY <1>2
<1>4. shot \in Seq(Nat) /\ view \in Nat /\ heard \in Nat
  BY <1>1, CountTypes
<1>5. Underway(wire, shot, view, heard)
  BY <1>1 DEF Line
<1>6. Underway(Tail(wire), shot, view, heard)
  BY <1>3, <1>4, <1>5, UnderwaySuffix
<1>7. /\ Head(wire).kind \in Brings => Head(wire).n \in DOMAIN shot
      /\ Head(wire).kind = "ptz" => Head(wire).n <= view
      /\ Head(wire).kind \in Tells => heard <= Seen(Head(wire), shot)
  BY <1>3, <1>5 DEF Underway
<1>8. link = "up" /\ stage = "adopted" /\ ring = <<>>
  BY <1>1 DEF Line
<1>. QED BY <1>1, <1>2, <1>3, <1>4, <1>6, <1>7, <1>8, ClaimedHead

(* A step of the loop that reads the first message and stores a vision.    *)
LEMMA LoopKeeps ==
    ASSUME VisionInv, wire # <<>>, wire' = Tail(wire),
           UNCHANGED <<role, cameraVars, agentVars, link, session, queue, foam, forgot, asked>>,
           mv' \in Visions, mv'.seeded = TRUE, mv'.base \in 0 .. Len(shot), Current(mv)',
           heard' \in 0 .. view, heard <= heard', Underway(Tail(wire), shot, view, heard'),
           (foam.pc = "name" /\ foam.good /\ ~forgot) => foam.after <= ViewOf(mv'.base),
           \/ readings' = readings
           \/ /\ Head(wire).kind = "capture"
              /\ \E r : r.frame = Head(wire).n /\ readings' = readings \union {r}
    PROVE  VisionInv'
<1>1. Typed /\ VisionTypeOK /\ Line /\ Single
  BY DEF VisionInv, Typed
<1>2. /\ Head(wire) \in Messages /\ Tail(wire) \in Seq(Messages)
      /\ link = "up" /\ stage = "adopted" /\ ring = <<>>
      /\ Distinct(Tail(wire)) /\ Claimed(Tail(wire)) \subseteq Claimed(wire)
      /\ Claiming(Head(wire)) => Head(wire).n \in Claimed(wire) \ Claimed(Tail(wire))
      /\ view \in Nat
  BY FirstIs
<1>3. UNCHANGED <<role, shot, view, taking, stage, knows, writer, ring, link, session, queue,
                  foam, forgot, asked>>
  BY DEF cameraVars, agentVars
<1>4. Handled'
  <2>1. heard' \in Nat
    BY <1>2
  <2>. QED BY <1>3, <2>1, HandledNow
<1>5. Typed'
  <2>1. mv'.region \in Regions
    BY DEF Visions
  <2>2. VisionTypeOK'
    BY <1>1, <1>2, <1>3, <2>1 DEF VisionTypeOK
  <2>. QED BY <1>1, <1>3, <2>2 DEF Typed, Visions
<1>6. Line'
  BY <1>1, <1>2, <1>3, UnderwayNone DEF Line
<1>7. Single'
  <2>1. Claimed(wire') \subseteq Claimed(wire) /\ Distinct(wire') /\ Taking' = Taking
    BY <1>2, <1>3 DEF Taking
  <2>2. CASE readings' = readings
    BY <1>1, <1>3, <2>1, <2>2, SingleShrinks DEF Single
  <2>3. ASSUME Head(wire).kind = "capture",
               NEW r, r.frame = Head(wire).n, readings' = readings \union {r}
        PROVE  Single'
    <3>1. r.frame \in Claimed(wire) /\ r.frame \notin Claimed(wire')
      BY <1>2, <2>3 DEF Claiming
    <3>2. Claimed(ring) = {} /\ Distinct(ring)
      BY <1>2, ClaimedNone
    <3>3. r.frame \notin Judged \union Taking \union Claimed(queue) \union Held
      BY <1>1, <3>1 DEF Single
    <3>4. OneReadingPerFrame' /\ Judged' = Judged \union {r.frame}
      BY <1>1, <2>3, <3>3, ReadingMore DEF Single
    <3>5. r.frame \in DOMAIN shot
      BY <1>1, <3>1, ClaimedAreTaken DEF Line
    <3>6. /\ Claimed(queue)' = Claimed(queue) /\ Held' = Held /\ Distinct(queue)'
          /\ Claimed(ring') = {} /\ Distinct(ring')
      BY <1>1, <1>3, <3>2 DEF Single, Held
    <3>7. /\ Claimed(queue) \cap Held = {} /\ Taking \cap Claimed(wire) = {}
          /\ (Taking \union Claimed(wire)) \cap (Claimed(queue) \union Held) = {}
          /\ (Taking \union Claimed(wire)) \cap Judged = {}
          /\ (Claimed(queue) \union Held) \cap Judged = {}
          /\ Claimed(queue) \union Held \union Judged \subseteq DOMAIN shot
      BY <1>1 DEF Single
    <3>8. (Taking \union Claimed(wire')) \cap (Judged \union {r.frame}) = {}
      BY <2>1, <3>1, <3>3, <3>7
    <3>9. (Claimed(queue) \union Held) \cap (Judged \union {r.frame}) = {}
      BY <3>3, <3>7
    <3>. QED BY <1>3, <2>1, <3>4, <3>5, <3>6, <3>7, <3>8, <3>9 DEF Single
  <2>. QED BY <2>2, <2>3
<1>. QED BY <1>4, <1>5, <1>6, <1>7 DEF VisionInv

(* What FoamService holds stays good with the baseline it is good for. *)
LEMMA FoamStays ==
    ASSUME VisionInv, foam.pc = "name", foam.good, ~forgot
    PROVE  foam.after <= ViewOf(Known.base) /\ foam.after \in Nat /\ foam.after <= heard
<1>1. Known = mv
  BY DEF VisionInv, Handled, Known
<1>2. foam.after \in Nat
  BY VisionAssumption DEF VisionInv, Typed, Foams
<1>. QED BY <1>1, <1>2 DEF VisionInv, Handled

LEMMA HandleResultKeeps == ASSUME VisionInv, HandleResult PROVE VisionInv'
<1>. DEFINE m == Head(wire)
<1>1. /\ wire # <<>> /\ wire' = Tail(wire)
      /\ UNCHANGED <<role, cameraVars, agentVars, link, session, queue, foam, forgot, asked>>
      /\ \/ m.kind = "capture" /\ Interpret(m.n)
         \/ m.kind = "re_baseline" /\ SetBase(m.n)
         \/ m.kind = "set_region" /\ SetRoi(m.n)
         \/ m.kind = "ptz" /\ Moved(m.n)
  BY DEF HandleResult
<1>2. /\ m \in Messages
      /\ Underway(Tail(wire), shot, view, heard)
      /\ m.kind \in Brings => m.n \in DOMAIN shot
      /\ m.kind = "ptz" => m.n <= view
      /\ m.kind \in Tells => heard <= Seen(m, shot)
      /\ shot \in Seq(Nat) /\ view \in Nat /\ heard \in 0 .. view
  BY <1>1, FirstIs
<1>3. /\ Known \in Visions /\ Known.seeded = TRUE
      /\ Known.base = mv.base /\ Known.base \in 0 .. Len(shot)
      /\ Current(Known)
  BY KnownIs
<1>4. heard <= heard /\ heard \in Nat
  BY <1>2
<1>5. UNCHANGED <<shot, forgot>> /\ Len(shot) <= MaxFrames /\ Len(shot) \in Nat /\ MaxFrames \in Nat
  BY <1>1, VisionAssumption DEF cameraVars, VisionInv, Typed, VisionTypeOK
<1>6. ASSUME m.kind = "capture", Interpret(m.n) PROVE VisionInv'
  <2>1. mv' = Known /\ heard' = heard
    BY <1>6 DEF Interpret
  <2>2. Current(mv)'
    BY <1>3, <1>5, <2>1 DEF Current, ViewOf
  <2>3. \E r : r.frame = m.n /\ readings' = readings \union {r}
    <3>1. CASE readings' = readings \union {Missing(m.n, heard, "loop")}
      BY <3>1 DEF Missing, Reading
    <3>2. ASSUME NEW good, readings' = readings \union
                {Reading(m.n, heard, "loop", role, Known.region, Known.region, Known.base, good)}
          PROVE  \E r : r.frame = m.n /\ readings' = readings \union {r}
      BY <3>2 DEF Reading
    <3>. QED BY <1>6, <3>1, <3>2 DEF Interpret
  <2>. QED BY <1>1, <1>2, <1>3, <1>4, <1>6, <2>1, <2>2, <2>3, FoamStays, LoopKeeps
<1>7. ASSUME m.kind = "re_baseline", SetBase(m.n) PROVE VisionInv'
  <2>1. heard' = heard /\ readings' = readings
    BY <1>7 DEF SetBase
  <2>2. /\ m.n \in DOMAIN shot /\ heard <= shot[m.n]
        /\ m.n \in 0 .. Len(shot) /\ m.n \in 0 .. MaxFrames
    BY <1>2, <1>5, <1>7 DEF Brings, Tells, Seen
  <2>3. mv' \in Visions /\ mv'.seeded = TRUE /\ mv'.base = m.n /\ mv'.baseRegion = mv'.region
    BY <1>3, <1>7, <2>2 DEF SetBase, Visions
  <2>4. ViewOf(mv'.base) = shot[m.n] /\ m.n # None
    BY <2>2, <2>3 DEF ViewOf, None
  <2>5. Current(mv)'
    BY <1>5, <2>1, <2>2, <2>3, <2>4 DEF Current, ViewOf
  <2>6. (foam.pc = "name" /\ foam.good /\ ~forgot) => foam.after <= ViewOf(mv'.base)
    <3>1. shot[m.n] \in Nat
      BY <1>2, <2>2
    <3>. QED BY <1>4, <2>2, <2>4, <3>1, FoamStays
  <2>. QED BY <1>1, <1>2, <1>4, <2>1, <2>2, <2>3, <2>5, <2>6, LoopKeeps
<1>8. ASSUME m.kind = "set_region", SetRoi(m.n) PROVE VisionInv'
  <2>1. heard' = heard /\ readings' = readings
    BY <1>8 DEF SetRoi
  <2>2. m.n \in Regions
    BY <1>2, <1>8, MessageIs
  <2>3. mv' \in Visions /\ mv'.seeded = TRUE /\ mv'.base = Known.base /\ mv'.required = TRUE
    BY <1>3, <1>8, <2>2 DEF SetRoi, Visions
  <2>4. Current(mv)'
    BY <2>3 DEF Current
  <2>. QED BY <1>1, <1>2, <1>3, <1>4, <2>1, <2>3, <2>4, FoamStays, LoopKeeps
<1>9. ASSUME m.kind = "ptz", Moved(m.n) PROVE VisionInv'
  <2>1. heard' = m.n /\ readings' = readings
    BY <1>9 DEF Moved
  <2>2. m.n \in Nat /\ m.n <= view /\ heard <= m.n
    BY <1>2, <1>9, MessageIs DEF Tells, Seen
  <2>3. mv' \in Visions /\ mv'.seeded = TRUE /\ mv'.base = Known.base /\ mv'.required = TRUE
    BY <1>3, <1>9 DEF Moved, Visions
  <2>4. Current(mv)'
    BY <2>3 DEF Current
  <2>5. Underway(Tail(wire), shot, view, heard')
    <3>1. Underway(wire, shot, view, heard)
      BY DEF VisionInv, Line
    <3>. QED BY <1>1, <1>2, <1>4, <1>9, <2>1, <3>1, UnderwayMoved
  <2>6. heard' \in 0 .. view /\ heard <= heard'
    BY <1>2, <2>1, <2>2
  <2>. QED BY <1>1, <1>3, <2>1, <2>3, <2>4, <2>5, <2>6, FoamStays, LoopKeeps
<1>. QED BY <1>1, <1>6, <1>7, <1>8, <1>9

LEMMA JudgeRaisesKeeps == ASSUME VisionInv, JudgeRaises PROVE VisionInv'
<1>1. /\ wire # <<>> /\ wire' = <<>> /\ mv' = Known /\ session' = FALSE /\ link' = "cut"
      /\ UNCHANGED <<role, shot, view, taking, stage, knows, writer, ring, queue, foam,
                     readings, heard, forgot, asked>>
  BY DEF JudgeRaises, cameraVars, agentVars
<1>2. Typed /\ VisionTypeOK /\ Line /\ Single
  BY DEF VisionInv, Typed
<1>3. /\ Known \in Visions /\ Known.seeded = TRUE
      /\ Known.base = mv.base /\ Known.base \in 0 .. Len(shot)
      /\ Current(Known)
  BY KnownIs
<1>4. heard \in Nat
  BY <1>2, CountTypes
<1>5. Handled'
  <2>1. Current(mv)'
    BY <1>1, <1>3 DEF Current, ViewOf
  <2>2. heard' \in Nat /\ heard <= heard'
    BY <1>1, <1>4
  <2>. QED BY <1>1, <1>3, <2>1, <2>2, FoamStays, HandledNow
<1>6. Line'
  BY <1>1, <1>2, UnderwayNone DEF Line
<1>7. Single'
  <2>1. Taking' = Taking
    BY <1>1 DEF Taking
  <2>. QED BY <1>1, <1>2, <2>1, ClaimedNone, SingleShrinks DEF Single
<1>8. Typed'
  <2>1. mv'.region \in Regions
    BY <1>1, <1>3 DEF Visions
  <2>2. {knows, writer, session, forgot}' \subseteq BOOLEAN
    BY <1>1, <1>2 DEF VisionTypeOK
  <2>3. wire' \in Seq(Messages)
    BY <1>1
  <2>4. VisionTypeOK'
    BY <1>1, <1>2, <1>3, <2>1, <2>2, <2>3 DEF VisionTypeOK
  <2>. QED BY <1>1, <1>2, <1>3, <2>4 DEF Typed, Visions
<1>. QED BY <1>5, <1>6, <1>7, <1>8 DEF VisionInv

-----------------------------------------------------------------------------
(* From the connection to the queue. *)

LEMMA HandleFrameKeeps == ASSUME VisionInv, HandleFrame PROVE VisionInv'
<1>. DEFINE m == Head(wire)
<1>. DEFINE offer == [kind |-> "frame", n |-> m.n, tied |-> m.tied, after |-> heard]
<1>1. /\ wire # <<>> /\ wire' = Tail(wire) /\ m.kind = "frame"
      /\ queue' = IF Len(queue) < QueueLimit THEN Append(queue, offer) ELSE queue
      /\ UNCHANGED <<role, shot, view, taking, stage, knows, writer, ring, link, session, mv,
                     foam, readings, heard, forgot, asked>>
  BY DEF HandleFrame, cameraVars, agentVars
<1>2. Typed /\ VisionTypeOK /\ Line /\ Single /\ Handled
  BY DEF VisionInv, Typed
<1>3. /\ m \in Messages /\ Tail(wire) \in Seq(Messages)
      /\ link = "up" /\ stage = "adopted" /\ ring = <<>>
      /\ Distinct(Tail(wire)) /\ Claimed(Tail(wire)) \subseteq Claimed(wire)
      /\ Claiming(m) => m.n \in Claimed(wire) \ Claimed(Tail(wire))
      /\ Underway(Tail(wire), shot, view, heard)
      /\ m.n \in DOMAIN shot
      /\ view \in Nat /\ heard \in 0 .. view
  BY <1>1, FirstIs DEF Brings
<1>4. m.n \in Frames /\ m.tied \in BOOLEAN
  BY <1>1, <1>3, MessageIs
<1>. HIDE DEF m
<1>5. offer \in Offers /\ offer.n = m.n /\ offer.after = heard /\ (Claiming(offer) <=> Claiming(m))
  <2>1. heard \in 0 .. MaxMoves
    BY <1>2, <1>3, VisionAssumption DEF VisionTypeOK
  <2>. QED BY <1>1, <1>4, <2>1 DEF Offers, Claiming
<1>. HIDE DEF offer
<1>6. /\ queue \in Seq(Offers) /\ Len(queue) <= QueueLimit /\ Len(queue) \in Nat
      /\ QueueLimit \in Nat
  BY <1>2, VisionAssumption DEF VisionTypeOK, Typed
<1>7. queue' \in Seq(Offers) /\ Len(queue') <= QueueLimit
  BY <1>1, <1>5, <1>6
<1>8. Typed'
  <2>1. VisionTypeOK'
    BY <1>1, <1>2, <1>3, <1>7 DEF VisionTypeOK
  <2>. QED BY <1>1, <1>2, <1>7, <2>1 DEF Typed
<1>9. Line'
  BY <1>1, <1>2, <1>3, UnderwayNone DEF Line
<1>10. Handled'
  <2>1. ASSUME NEW i \in DOMAIN queue' PROVE queue'[i].after <= heard
    <3>1. CASE queue' = queue
      BY <1>2, <2>1, <3>1 DEF Handled
    <3>2. CASE queue' = Append(queue, offer)
      <4>1. CASE i \in DOMAIN queue /\ queue'[i] = queue[i]
        BY <1>2, <4>1 DEF Handled
      <4>2. CASE queue'[i] = offer
        BY <1>3, <1>5, <4>2
      <4>. QED BY <1>6, <2>1, <3>2, <4>1, <4>2
    <3>. QED BY <1>1, <3>1, <3>2
  <2>. QED BY <1>1, <1>2, <2>1 DEF Handled, ReferenceIsCurrent, ViewOf
<1>11. Single'
  <2>1. Taking' = Taking /\ Held' = Held /\ Judged' = Judged /\ OneReadingPerFrame'
    BY <1>1, <1>2 DEF Taking, Held, Judged, Single, OneReadingPerFrame
  <2>2. /\ Claimed(queue) \cap Held = {} /\ Taking \cap Claimed(wire) = {} /\ Distinct(queue)
        /\ (Taking \union Claimed(wire)) \cap (Claimed(queue) \union Held) = {}
        /\ (Taking \union Claimed(wire)) \cap Judged = {}
        /\ (Claimed(queue) \union Held) \cap Judged = {}
        /\ Claimed(queue) \union Held \union Judged \subseteq DOMAIN shot
    BY <1>2 DEF Single
  <2>3. Claimed(ring') = {} /\ Distinct(ring')
    BY <1>1, <1>3, ClaimedNone
  <2>4. CASE queue' = queue
    BY <1>1, <1>3, <2>1, <2>2, <2>3, <2>4 DEF Single
  <2>5. CASE queue' = Append(queue, offer)
    <3>1. queue' = queue \o <<offer>> /\ <<offer>> \in Seq(Offers)
      BY <1>5, <1>6, <2>5
    <3>2. Distinct(<<offer>>) /\ Claimed(<<offer>>) = IF Claiming(m) THEN {m.n} ELSE {}
      BY <1>5, ClaimsOne
    <3>3. Claimed(queue) \cap Claimed(<<offer>>) = {}
      BY <1>3, <2>2, <3>2
    <3>4. Claimed(queue') \subseteq Claimed(queue) \union Claimed(<<offer>>) /\ Distinct(queue')
      BY <1>6, <2>2, <3>1, <3>2, <3>3, ClaimedConcat
    <3>5. CASE Claiming(m)
      <4>1. Claimed(queue') \subseteq Claimed(queue) \union {m.n}
        BY <3>2, <3>4, <3>5
      <4>2. m.n \in Claimed(wire) /\ m.n \notin Claimed(wire')
        BY <1>1, <1>3, <3>5
      <4>3. Claimed(wire') \subseteq Claimed(wire) /\ Distinct(wire')
        BY <1>1, <1>3
      <4>4. /\ Claimed(queue') \cap Held = {} /\ Taking \cap Claimed(wire') = {}
            /\ (Taking \union Claimed(wire')) \cap (Claimed(queue') \union Held) = {}
            /\ (Taking \union Claimed(wire')) \cap Judged = {}
            /\ (Claimed(queue') \union Held) \cap Judged = {}
            /\ Claimed(queue') \union Held \union Judged \subseteq DOMAIN shot
        BY <1>3, <2>2, <4>1, <4>2, <4>3
      <4>. QED BY <1>1, <2>1, <2>3, <3>4, <4>3, <4>4 DEF Single
    <3>6. CASE ~Claiming(m)
      <4>1. Claimed(queue') \subseteq Claimed(queue)
        BY <3>2, <3>4, <3>6
      <4>. QED BY <1>1, <1>3, <2>1, <2>2, <2>3, <3>4, <4>1 DEF Single
    <3>. QED BY <3>5, <3>6
  <2>. QED BY <1>1, <2>4, <2>5
<1>. QED BY <1>8, <1>9, <1>10, <1>11 DEF VisionInv

LEMMA RestingTypes == Resting \in Foams
  BY RegionTypes, VisionAssumption DEF Resting, None, Foams

LEMMA HubRestartKeeps == ASSUME VisionInv, HubRestart PROVE VisionInv'
<1>1. /\ session' = FALSE /\ mv' = NoVision /\ queue' = <<>> /\ foam' = Resting /\ heard' = 0
      /\ forgot' = FALSE /\ wire' = <<>> /\ link' = IF link = "up" THEN "cut" ELSE link
      /\ UNCHANGED <<role, shot, view, taking, stage, knows, writer, ring, readings, asked>>
  BY DEF HubRestart, cameraVars, agentVars
<1>2. Typed /\ VisionTypeOK /\ Line /\ Single
  BY DEF VisionInv, Typed
<1>3. NoVision \in Visions /\ NoVision.seeded = FALSE /\ NoVision.base = 0
  BY RegionTypes, VisionAssumption DEF NoVision, Visions, None
<1>4. Resting.pc = "idle"
  BY DEF Resting
<1>5. Handled'
  BY <1>1, <1>3, <1>4 DEF Handled, ReferenceIsCurrent
<1>6. shot \in Seq(Nat) /\ view \in Nat /\ heard \in Nat /\ Len(shot) \in Nat
  BY <1>2, CountTypes
<1>7. Line'
  <2>1. Underway(ring, shot, view, heard)
    BY <1>2 DEF Line
  <2>2. 0 \in Nat /\ 0 <= heard /\ view <= view
    BY <1>6
  <2>3. Underway(ring, shot, view, 0)
    BY <1>6, <2>1, <2>2, UnderwayLater
  <2>. QED BY <1>1, <2>3, UnderwayNone DEF Line
<1>8. Single'
  <2>1. Taking' = Taking /\ Held' = {} /\ Judged' = Judged /\ OneReadingPerFrame'
    BY <1>1, <1>2, <1>4 DEF Taking, Held, Judged, Single, OneReadingPerFrame
  <2>2. Claimed(queue') = {} /\ Distinct(queue') /\ Claimed(wire') = {} /\ Distinct(wire')
    BY <1>1, ClaimedNone
  <2>. QED BY <1>1, <1>2, <2>1, <2>2 DEF Single
<1>9. Typed'
  <2>1. mv'.base \in 0 .. Len(shot) /\ mv'.region \in Regions
    BY <1>1, <1>3, <1>6 DEF Visions
  <2>2. queue' \in Seq(Offers) /\ Len(queue') <= QueueLimit /\ wire' \in Seq(Messages)
    BY <1>1, VisionAssumption
  <2>3. {knows, writer, session, forgot}' \subseteq BOOLEAN
    BY <1>1, <1>2 DEF VisionTypeOK
  <2>4. link' \in {"none", "up", "cut"} /\ heard' \in 0 .. view /\ foam'.pc = "idle"
    BY <1>1, <1>2, <1>4, <1>6 DEF VisionTypeOK
  <2>5. VisionTypeOK'
    BY <1>1, <1>2, <2>1, <2>2, <2>3, <2>4 DEF VisionTypeOK
  <2>. QED BY <1>1, <1>2, <1>3, <2>2, <2>5, RestingTypes DEF Typed, Visions
<1>. QED BY <1>5, <1>7, <1>8, <1>9 DEF VisionInv

-----------------------------------------------------------------------------
(* FoamService. *)

LEMMA TakeKeeps == ASSUME VisionInv, Take PROVE VisionInv'
<1>. DEFINE m == Head(queue)
<1>. DEFINE taken == [pc |-> IF mv.seeded THEN "load" ELSE "seed",
                      frame |-> m.n, after |-> m.after, region |-> Whole,
                      role |-> IF session THEN role ELSE "none", served |-> session,
                      good |-> FALSE]
<1>1. /\ foam.pc = "idle" /\ queue # <<>> /\ queue' = Tail(queue)
      /\ foam' = IF ~m.tied THEN taken ELSE foam
      /\ UNCHANGED <<role, shot, view, taking, stage, knows, writer, ring, link, wire, session,
                     mv, readings, heard, forgot, asked>>
  BY DEF Take, Takes, cameraVars, agentVars, linkVars
<1>2. Typed /\ VisionTypeOK /\ Line /\ Single /\ Handled
  BY DEF VisionInv, Typed
<1>3. /\ queue \in Seq(Offers) /\ Len(queue) <= QueueLimit /\ Len(queue) \in Nat
      /\ QueueLimit \in Nat
  BY <1>2, VisionAssumption DEF VisionTypeOK, Typed
<1>4. /\ m \in Offers /\ m = queue[1] /\ 1 \in DOMAIN queue
      /\ queue' \in Seq(Offers) /\ Len(queue') <= QueueLimit
      /\ \A i \in DOMAIN queue' : i + 1 \in DOMAIN queue /\ queue'[i] = queue[i + 1]
  BY <1>1, <1>3
<1>5. /\ Claimed(queue') \subseteq Claimed(queue) /\ Distinct(queue')
      /\ Claiming(m) => m.n \in Claimed(queue) \ Claimed(queue')
  BY <1>1, <1>2, <1>3, ClaimedHead DEF Single
<1>6. m.n \in Frames /\ m.after \in 0 .. MaxMoves /\ m.after <= heard /\ (Claiming(m) <=> ~m.tied)
  BY <1>2, <1>4 DEF Offers, Claiming, Handled
<1>. HIDE DEF m
<1>7. /\ taken.pc = IF mv.seeded THEN "load" ELSE "seed"
      /\ taken.frame = m.n /\ taken.after = m.after /\ taken \in Foams
  <2>1. role \in {"foam-cam", "bfp-dose-cam"} /\ session \in BOOLEAN
    BY <1>2 DEF VisionTypeOK
  <2>2. m.n \in 0 .. MaxFrames
    BY <1>6, VisionAssumption DEF Frames
  <2>. QED BY <1>6, <2>1, <2>2, RegionTypes DEF Foams
<1>. HIDE DEF taken
<1>8. foam' \in Foams
  BY <1>1, <1>2, <1>7 DEF Typed, Foams
<1>9. Typed'
  <2>1. foam'.pc \in {"idle", "seed", "load", "flag", "name"}
    BY <1>8 DEF Foams
  <2>2. VisionTypeOK'
    BY <1>1, <1>2, <1>4, <2>1 DEF VisionTypeOK
  <2>. QED BY <1>1, <1>2, <1>4, <1>8, <2>2 DEF Typed, Foams
<1>10. Line'
  BY <1>1, <1>2 DEF Line
<1>11. Handled'
  <2>1. \A i \in DOMAIN queue' : queue'[i].after <= heard
    BY <1>2, <1>4 DEF Handled
  <2>2. ReferenceIsCurrent'
    BY <1>1, <1>2 DEF Handled, ReferenceIsCurrent, ViewOf
  <2>. QED BY <1>1, <1>2, <1>6, <1>7, <2>1, <2>2 DEF Handled
<1>12. Single'
  <2>1. Taking' = Taking /\ Judged' = Judged /\ OneReadingPerFrame' /\ Held = {}
    BY <1>1, <1>2 DEF Taking, Judged, Single, OneReadingPerFrame, Held
  <2>2. Held' \subseteq Claimed(queue) /\ Claimed(queue') \cap Held' = {}
    BY <1>1, <1>5, <1>6, <1>7 DEF Held
  <2>. QED BY <1>1, <1>2, <1>5, <2>1, <2>2 DEF Single
<1>. QED BY <1>9, <1>10, <1>11, <1>12 DEF VisionInv

(* It works on the frame it holds. *)
LEMMA FoamWorks ==
    ASSUME VisionInv, foam' \in Foams, foam.pc # "idle", foam'.pc # "idle",
           foam'.frame = foam.frame, Handled', mv' \in Visions, mv'.base \in 0 .. Len(shot),
           forgot' \in BOOLEAN,
           UNCHANGED <<role, shot, view, taking, stage, knows, writer, ring, link, wire, session,
                       queue, readings, heard, asked>>
    PROVE  VisionInv'
<1>1. Typed /\ VisionTypeOK /\ Line /\ Single
  BY DEF VisionInv, Typed
<1>2. Typed'
  <2>1. mv'.region \in Regions
    BY DEF Visions
  <2>2. foam'.pc \in {"idle", "seed", "load", "flag", "name"}
    BY DEF Foams
  <2>3. {knows, writer, session, forgot}' \subseteq BOOLEAN
    BY <1>1 DEF VisionTypeOK
  <2>4. VisionTypeOK'
    BY <1>1, <2>1, <2>2, <2>3 DEF VisionTypeOK
  <2>. QED BY <1>1, <2>4 DEF Typed, Foams, Visions
<1>3. Line'
  BY <1>1 DEF Line
<1>4. Single'
  <2>1. Taking' = Taking /\ Held' = Held /\ Judged' = Judged /\ OneReadingPerFrame'
    BY <1>1 DEF Taking, Held, Judged, Single, OneReadingPerFrame
  <2>. QED BY <1>1, <2>1 DEF Single
<1>. QED BY <1>2, <1>3, <1>4 DEF VisionInv

LEMMA StoreSeedKeeps == ASSUME VisionInv, StoreSeed PROVE VisionInv'
<1>1. /\ foam.pc = "seed" /\ mv' = Seed(foam.served) /\ forgot' = (forgot \/ mv.seeded)
      /\ foam' = [foam EXCEPT !.pc = "load"]
      /\ UNCHANGED <<role, shot, view, taking, stage, knows, writer, ring, link, wire, session,
                     queue, readings, heard, asked>>
  BY DEF StoreSeed, cameraVars, agentVars, linkVars
<1>2. foam \in Foams /\ VisionTypeOK /\ Handled /\ mv \in Visions
  BY DEF VisionInv, Typed, Foams, Visions
<1>3. /\ mv' \in Visions /\ mv'.seeded = TRUE /\ mv'.base = None
      /\ mv'.region \in {Whole, Configured}
  BY <1>1, SeedIs
<1>4. /\ foam' \in Foams /\ foam'.pc = "load" /\ foam'.frame = foam.frame
      /\ foam'.after = foam.after
  BY <1>1, <1>2 DEF Foams
<1>5. ReferenceIsCurrent'
  <2>1. ASSUME ~forgot' PROVE heard' = 0
    BY <1>1, <1>2, <2>1 DEF Handled
  <2>2. ViewOf(mv.base)' = 0
    BY <1>3 DEF ViewOf
  <2>3. 0 <= 0
    OBVIOUS
  <2>. QED BY <1>3, <2>1, <2>2, <2>3 DEF ReferenceIsCurrent
<1>6. Handled'
  BY <1>1, <1>2, <1>3, <1>4, <1>5 DEF Handled
<1>7. mv'.base \in 0 .. Len(shot) /\ forgot' \in BOOLEAN
  BY <1>1, <1>2, <1>3 DEF VisionTypeOK, None
<1>. QED BY <1>1, <1>3, <1>4, <1>6, <1>7, FoamWorks

LEMMA MeasureKeeps == ASSUME VisionInv, Measure PROVE VisionInv'
<1>1. /\ foam.pc = "load" /\ foam' = [foam EXCEPT !.pc = "flag", !.region = mv.region]
      /\ UNCHANGED <<role, shot, view, taking, stage, knows, writer, ring, link, wire, session,
                     mv, forgot, queue, readings, heard, asked>>
  BY DEF Measure, cameraVars, agentVars, linkVars
<1>2. foam \in Foams /\ VisionTypeOK /\ Handled /\ mv \in Visions
  BY DEF VisionInv, Typed, Foams, Visions
<1>3. /\ foam' \in Foams /\ foam'.pc = "flag" /\ foam'.frame = foam.frame
      /\ foam'.after = foam.after
  BY <1>1, <1>2 DEF Foams, VisionTypeOK
<1>4. Handled'
  BY <1>1, <1>2, <1>3 DEF Handled, ReferenceIsCurrent, ViewOf
<1>5. mv.base \in 0 .. Len(shot) /\ forgot \in BOOLEAN
  BY <1>2 DEF VisionTypeOK
<1>. QED BY <1>1, <1>2, <1>3, <1>4, <1>5, FoamWorks

LEMMA FlagKeeps == ASSUME VisionInv, Flag PROVE VisionInv'
<1>1. /\ foam.pc = "flag"
      /\ UNCHANGED <<role, shot, view, taking, stage, knows, writer, ring, link, wire, session,
                     mv, forgot, queue, readings, heard, asked>>
  BY DEF Flag, cameraVars, agentVars, linkVars
<1>2. PICK good \in Passes(mv, FALSE) : foam' = [foam EXCEPT !.pc = "name", !.good = good]
  BY DEF Flag
<1>3. foam \in Foams /\ VisionTypeOK /\ Handled /\ mv \in Visions
  BY DEF VisionInv, Typed, Foams, Visions
<1>4. good \in BOOLEAN /\ (mv.required => good = FALSE)
  BY DEF Passes
<1>5. /\ foam' \in Foams /\ foam'.pc = "name" /\ foam'.frame = foam.frame
      /\ foam'.after = foam.after
  BY <1>2, <1>3, <1>4 DEF Foams
<1>6. foam'.good = good
  BY <1>2, <1>3 DEF Foams
<1>7. mv.base \in 0 .. Len(shot) /\ forgot \in BOOLEAN
  BY <1>3 DEF VisionTypeOK
<1>8. (foam'.good /\ ~forgot) => foam.after <= ViewOf(mv.base)
  <2>1. SUFFICES ASSUME foam'.good, ~forgot PROVE foam.after <= ViewOf(mv.base)
    OBVIOUS
  <2>2. mv.seeded /\ ~mv.required
    BY <1>1, <1>3, <1>4, <1>6, <2>1 DEF Handled
  <2>3. heard <= ViewOf(mv.base) /\ foam.after <= heard
    BY <1>1, <1>3, <2>1, <2>2 DEF Handled, ReferenceIsCurrent
  <2>4. shot \in Seq(Nat) /\ heard \in Nat
    BY <1>3, CountTypes
  <2>5. ViewOf(mv.base) \in Nat
    BY <1>7, <2>4, ViewOfType
  <2>6. foam.after \in Nat
    BY <1>3, VisionAssumption DEF Foams
  <2>. QED BY <2>3, <2>4, <2>5, <2>6
<1>9. Handled'
  <2>1. ViewOf(mv.base)' = ViewOf(mv.base)
    BY <1>1 DEF ViewOf
  <2>2. ReferenceIsCurrent'
    BY <1>1, <1>3, <2>1 DEF Handled, ReferenceIsCurrent
  <2>. QED BY <1>1, <1>3, <1>5, <1>8, <2>1, <2>2 DEF Handled
<1>. QED BY <1>1, <1>3, <1>5, <1>7, <1>9, FoamWorks

(* The end of its work on a frame. *)
LEMMA FoamReads ==
    ASSUME VisionInv, foam.pc # "idle", foam' = Resting,
           NEW r, r.frame = foam.frame, readings' = readings \union {r},
           UNCHANGED <<role, cameraVars, agentVars, linkVars, session, mv, queue, heard, forgot,
                       asked>>
    PROVE  VisionInv'
<1>1. Typed /\ VisionTypeOK /\ Line /\ Single /\ Handled
  BY DEF VisionInv, Typed
<1>2. UNCHANGED <<role, shot, view, taking, stage, knows, writer, ring, link, wire, session,
                  mv, queue, heard, forgot, asked>>
  BY DEF cameraVars, agentVars, linkVars
<1>3. Resting.pc = "idle"
  BY DEF Resting
<1>4. Typed'
  <2>1. VisionTypeOK'
    BY <1>1, <1>2, <1>3 DEF VisionTypeOK
  <2>. QED BY <1>1, <1>2, <2>1, RestingTypes DEF Typed
<1>5. Line'
  BY <1>1, <1>2 DEF Line
<1>6. Handled'
  BY <1>1, <1>2, <1>3 DEF Handled, ReferenceIsCurrent, ViewOf
<1>7. Single'
  <2>1. Held = {foam.frame} /\ Held' = {} /\ Taking' = Taking
    BY <1>2, <1>3 DEF Held, Taking
  <2>2. foam.frame \notin Judged
    BY <1>1, <2>1 DEF Single
  <2>3. OneReadingPerFrame' /\ Judged' = Judged \union {foam.frame}
    BY <1>1, <2>2, ReadingMore DEF Single
  <2>. QED BY <1>1, <1>2, <2>1, <2>3 DEF Single
<1>. QED BY <1>4, <1>5, <1>6, <1>7 DEF VisionInv

LEMMA FoamEnds ==
    ASSUME VisionInv, FrameMissing \/ JudgeDose \/ Name PROVE VisionInv'
<1>1. CASE FrameMissing
  <2>1. Missing(foam.frame, foam.after, "service").frame = foam.frame
    BY DEF Missing, Reading
  <2>. QED BY <1>1, <2>1, FoamReads DEF FrameMissing
<1>2. CASE JudgeDose
  <2>1. PICK good : readings' = readings \union
            {Reading(foam.frame, foam.after, "service", "bfp-dose-cam", Whole, Whole, None, good)}
    BY <1>2 DEF JudgeDose
  <2>2. Reading(foam.frame, foam.after, "service", "bfp-dose-cam", Whole, Whole, None,
                good).frame = foam.frame
    BY DEF Reading
  <2>. QED BY <1>2, <2>1, <2>2, FoamReads DEF JudgeDose
<1>3. CASE Name
  <2>1. Reading(foam.frame, foam.after, "service", "foam-cam", foam.region, mv.region,
                mv.base, foam.good).frame = foam.frame
    BY DEF Reading
  <2>. QED BY <1>3, <2>1, FoamReads DEF Name
<1>. QED BY <1>1, <1>2, <1>3

-----------------------------------------------------------------------------

LEMMA VisionInitially == ASSUME VisionInit PROVE VisionInv
<1>1. /\ role \in {"foam-cam", "bfp-dose-cam"} /\ shot = <<>> /\ view = 0 /\ taking = 0
      /\ stage = "offline" /\ knows = FALSE /\ writer = FALSE /\ ring = <<>> /\ link = "none"
      /\ wire = <<>> /\ session = FALSE /\ mv = NoVision /\ queue = <<>> /\ foam = Resting
      /\ readings = {} /\ heard = 0 /\ forgot = FALSE /\ asked \in Nat
  BY DEF VisionInit, None, Configured
<1>2. NoVision \in Visions /\ NoVision.seeded = FALSE /\ NoVision.base = 0
  BY RegionTypes, VisionAssumption DEF NoVision, Visions, None
<1>3. Resting.pc = "idle"
  BY DEF Resting
<1>4. Typed
  <2>1. mv.base \in 0 .. Len(shot) /\ mv.region \in Regions
    BY <1>1, <1>2 DEF Visions
  <2>2. /\ shot \in Seq(0 .. MaxMoves) /\ wire \in Seq(Messages) /\ ring \in Seq(Messages)
        /\ queue \in Seq(Offers)
    BY <1>1
  <2>3. {knows, writer, session, forgot} \subseteq BOOLEAN
    BY <1>1
  <2>4. /\ Len(shot) <= MaxFrames /\ Len(ring) <= RingLimit /\ Len(queue) <= QueueLimit
        /\ view \in 0 .. MaxMoves /\ taking \in 0 .. Len(shot) /\ heard \in 0 .. view
    BY <1>1, VisionAssumption
  <2>5. VisionTypeOK
    BY <1>1, <1>3, <2>1, <2>2, <2>3, <2>4 DEF VisionTypeOK
  <2>. QED BY <1>1, <1>2, <2>2, <2>5, RestingTypes DEF Typed, Visions
<1>5. Line
  BY <1>1, UnderwayNone DEF Line
<1>6. Single
  <2>1. Taking = {} /\ Held = {} /\ Judged = {} /\ OneReadingPerFrame
    BY <1>1, <1>3 DEF Taking, None, Held, Judged, OneReadingPerFrame
  <2>2. /\ Claimed(queue) = {} /\ Claimed(wire) = {} /\ Claimed(ring) = {}
        /\ Distinct(queue) /\ Distinct(wire) /\ Distinct(ring)
    BY <1>1, ClaimedNone
  <2>. QED BY <2>1, <2>2 DEF Single
<1>7. Handled
  BY <1>1, <1>2, <1>3 DEF Handled, ReferenceIsCurrent
<1>. QED BY <1>4, <1>5, <1>6, <1>7 DEF VisionInv

LEMMA VisionStep == ASSUME VisionInv, [VisionNext]_visionVars PROVE VisionInv'
<1>1. CASE ConnectionSteps
  BY <1>1, ConnectionKeeps
<1>2. CASE Stream \/ Capture \/ Captured \/ ReBaseline \/ Ptz \/ SetRegion
  BY <1>2, StreamKeeps, CaptureKeeps, CapturedKeeps, ReBaselineKeeps, PtzKeeps, SetRegionKeeps
<1>3. CASE HandleResult \/ JudgeRaises \/ HandleFrame \/ HubRestart
  BY <1>3, HandleResultKeeps, JudgeRaisesKeeps, HandleFrameKeeps, HubRestartKeeps
<1>4. CASE FoamService
  BY <1>4, TakeKeeps, StoreSeedKeeps, MeasureKeeps, FlagKeeps, FoamEnds DEF FoamService
<1>5. CASE UNCHANGED visionVars
  <2>1. UNCHANGED <<role, shot, view, taking, stage, knows, writer, ring, link, wire, session,
                    mv, queue, foam, readings, heard, forgot, asked>>
    BY <1>5 DEF visionVars, cameraVars, agentVars, linkVars, hubVars
  <2>2. Typed /\ VisionTypeOK /\ Line /\ Single /\ Handled
    BY DEF VisionInv, Typed
  <2>3. Line'
    BY <2>1, <2>2 DEF Line
  <2>4. Single'
    <3>1. Taking' = Taking
      BY <2>1 DEF Taking
    <3>. QED BY <2>1, <2>2, <3>1, SingleShrinks DEF Single
  <2>5. Handled'
    BY <2>1, <2>2, HandledSame
  <2>6. VisionTypeOK'
    BY <2>1, <2>2 DEF VisionTypeOK
  <2>. QED BY <2>1, <2>2, <2>3, <2>4, <2>5, <2>6 DEF VisionInv, Typed
<1>. QED BY <1>1, <1>2, <1>3, <1>4, <1>5 DEF VisionNext, ConnectionSteps

LEMMA VisionInvariant == VisionSpec => []VisionInv
<1>1. VisionInit => VisionInv
  BY VisionInitially
<1>2. VisionInv /\ [VisionNext]_visionVars => VisionInv'
  BY VisionStep
<1>. QED BY <1>1, <1>2, PTL DEF VisionSpec

(* The hub's reference scene and the readings of the frames stay sound in  *)
(* every run: over restarts of camera and hub, cuts, the ring and the two  *)
(* ways a frame is judged (Consistent).                                    *)
THEOREM ReferenceAndReadings == VisionSpec => []Consistent
<1>1. VisionInv => Consistent
  BY DEF VisionInv, Typed, Handled, Single, Consistent
<1>. QED BY <1>1, VisionInvariant, PTL

(* A reading passes as good only against a reference that has seen every   *)
(* move the hub knew of when the frame came in (KnownMovesAreHeld).        *)
GoodOnesAreCurrent ==
    \A r \in readings' \ readings :
        (r.good /\ r.model = "foam-cam" /\ ~forgot) => r.after <= ViewOf(r.base)

LEMMA GoodOnes == ASSUME VisionInv, [VisionNext]_visionVars PROVE GoodOnesAreCurrent
<1>1. CASE UNCHANGED readings
  BY <1>1 DEF GoodOnesAreCurrent
<1>2. CASE HandleResult
  <2>1. SUFFICES ASSUME NEW n, Interpret(n), NEW r \in readings' \ readings,
                        r.good, r.model = "foam-cam", ~forgot
                 PROVE  r.after <= ViewOf(r.base)
    BY <1>2 DEF HandleResult, SetBase, SetRoi, Moved, GoodOnesAreCurrent
  <2>2. r # Missing(n, heard, "loop")
    BY <2>1 DEF Missing, Reading
  <2>3. PICK good \in Passes(Known, role = "bfp-dose-cam") :
            r = Reading(n, heard, "loop", role, Known.region, Known.region, Known.base, good)
    BY <2>1, <2>2 DEF Interpret
  <2>4. role = "foam-cam" /\ good = TRUE /\ r.after = heard /\ r.base = Known.base
    <3>1. r.model = role /\ r.good = good /\ r.after = heard /\ r.base = Known.base
      BY <2>3 DEF Reading
    <3>2. good \in BOOLEAN
      BY DEF Passes
    <3>. QED BY <2>1, <3>1, <3>2
  <2>5. ~Known.required
    BY <2>4 DEF Passes
  <2>. QED BY <2>1, <2>4, <2>5, KnownIs DEF Current
<1>3. CASE FrameMissing \/ JudgeDose
  <2>1. Missing(foam.frame, foam.after, "service").model = "missing"
    BY DEF Missing, Reading
  <2>2. CASE FrameMissing
    BY <2>1, <2>2 DEF FrameMissing, GoodOnesAreCurrent
  <2>3. CASE JudgeDose
    <3>1. PICK good : readings' = readings \union
              {Reading(foam.frame, foam.after, "service", "bfp-dose-cam", Whole, Whole, None, good)}
      BY <2>3 DEF JudgeDose
    <3>2. Reading(foam.frame, foam.after, "service", "bfp-dose-cam", Whole, Whole, None,
                  good).model = "bfp-dose-cam"
      BY DEF Reading
    <3>. QED BY <3>1, <3>2 DEF GoodOnesAreCurrent
  <2>. QED BY <1>3, <2>2, <2>3
<1>4. CASE Name
  <2>. DEFINE r == Reading(foam.frame, foam.after, "service", "foam-cam", foam.region,
                           mv.region, mv.base, foam.good)
  <2>1. r.good = foam.good /\ r.after = foam.after /\ r.base = mv.base
    BY DEF Reading
  <2>2. readings' = readings \union {r} /\ foam.pc = "name"
    BY <1>4 DEF Name
  <2>3. (foam.good /\ ~forgot) => foam.after <= ViewOf(mv.base)
    BY <2>2 DEF VisionInv, Handled
  <2>. HIDE DEF r
  <2>. QED BY <2>1, <2>2, <2>3 DEF GoodOnesAreCurrent
<1>. QED
  BY <1>1, <1>2, <1>3, <1>4
  DEF VisionNext, Dial, Adopted, HangUp, Cut, CameraRestart, Stream, Capture, Captured,
      ReBaseline, Ptz, SetRegion, JudgeRaises, HandleFrame, SessionEnds, HubRestart,
      FoamService, Take, StoreSeed, Measure, Flag, visionVars, hubVars

THEOREM HeldUntilReBaselined == VisionSpec => KnownMovesAreHeld
<1>1. VisionInv /\ [VisionNext]_visionVars => [GoodOnesAreCurrent]_visionVars
  BY GoodOnes
<1>. QED BY <1>1, VisionInvariant, PTL DEF VisionSpec, KnownMovesAreHeld, GoodOnesAreCurrent

=============================================================================
