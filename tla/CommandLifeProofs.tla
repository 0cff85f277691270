---------------------------- MODULE CommandLifeProofs ----------------------------
(***************************************************************************)
(* Where a command is between CommandGateway.submit and its result, for    *)
(* any commands, any number of connections and restarts and any ring: the  *)
(* hub, the links and the agent agree, and together they implement         *)
(* CommandPromise.  The argument follows one token per command: it is at   *)
(* the gateway, then a CMD on one link, a task, a verdict in the ring or   *)
(* on one link, and last a result in the evidence; or it is lost.          *)
(***************************************************************************)
EXTENDS CommandLife, FiniteSetTheorems, TLAPS

(* What a message about a command may be. *)
Spoken(m) == m.command_id \in Commands => m.t \in {"ACK", "NACK", "RESULT"}

Talk ==
    /\ \A k \in Links : \A i \in DOMAIN up[k] : Spoken(up[k][i])
    /\ \A i \in DOMAIN ring : Spoken(ring[i])

(* Only a session that is served has commands in flight, each on one.      *)
Sessions ==
    /\ current # 0 => sess[current] = "operational"
    /\ \A k \in Links : k > dials => sess[k] = "none"
    /\ \A k \in Links : inflight[k] # {} => sess[k] = "operational"
    /\ Connected => dials # 0

(* The evidence about c holds a result of one of these kinds; at most one. *)
Got(c, some) == \E i \in DOMAIN trail[c] : trail[c][i] \in some
Once(c, some) ==
    \A i, j \in DOMAIN trail[c] : trail[c][i] \in some /\ trail[c][j] \in some => i = j

InFlight(c, k) == c \in inflight[k]
Flying(c) == \E k \in Links : InFlight(c, k)

(* No message of the agent, and none to it, is about c. *)
NoUp(c) == \A k \in Links : \A i \in DOMAIN up[k] : up[k][i].command_id # c
NoDown(c) == \A k \in Links : \A i \in DOMAIN down[k] : down[k][i].command_id # c
NoRing(c) == \A i \in DOMAIN ring : ring[i].command_id # c

(* Nothing but the gateway and the evidence knows c. *)
Untouched(c) == task[c] = "none" /\ ~Flying(c) /\ NoUp(c) /\ NoDown(c) /\ NoRing(c)

(* How far submit() is decides what there can be of c. *)
Gate(c) ==
    /\ gate[c] = "new" <=> trail[c] = <<>>
    /\ gate[c] # "sent" => Untouched(c)
    /\ gate[c] \in {"stored", "undelivered", "abandoned"} => ~Got(c, Results)
    /\ gate[c] = "done" => Got(c, {"undelivered"}) /\ ~Got(c, {"lost"} \union Answers)
    /\ gate[c] = "sent" => ~Got(c, {"undelivered"})
    /\ gate[c] = "abandoned" => hubRestarts > 0

(* What the hub still waits for, and what the results say of the sessions. *)
Waiting(c) ==
    /\ \A k, l \in Links : InFlight(c, k) /\ InFlight(c, l) => k = l
    /\ gate[c] = "sent" /\ ~Got(c, Results) /\ hubRestarts = 0 => Flying(c)
    /\ Got(c, {"lost"}) => ~Flying(c) /\ dials # 0 /\ (dials = 1 => sess[1] = "closed")
    /\ Got(c, Answers) /\ dials <= 1 => ~Flying(c)
    /\ Got(c, {"lost"}) /\ Got(c, Answers) => dials > 1

Verdicts(c) == Once(c, {"undelivered"}) /\ Once(c, {"lost"}) /\ Once(c, Answers)

(* The places of the token of c beyond the gateway. *)
DownHas(c, k, i) == i \in DOMAIN down[k] /\ down[k][i].command_id = c
UpHas(c, k, i) == i \in DOMAIN up[k] /\ IsVerdict(up[k][i], c)
RingHas(c, i) == i \in DOMAIN ring /\ IsVerdict(ring[i], c)

AtTask(c) == task[c] # "none"
OnDown(c) == \E k \in Links : \E i \in DOMAIN down[k] : DownHas(c, k, i)
OnUp(c) == \E k \in Links : \E i \in DOMAIN up[k] : UpHas(c, k, i)
InRing(c) == \E i \in DOMAIN ring : RingHas(c, i)

OneDown(c) ==
    \A k, l \in Links : \A i \in DOMAIN down[k], j \in DOMAIN down[l] :
        DownHas(c, k, i) /\ DownHas(c, l, j) => k = l /\ i = j
OneUp(c) ==
    \A k, l \in Links : \A i \in DOMAIN up[k], j \in DOMAIN up[l] :
        UpHas(c, k, i) /\ UpHas(c, l, j) => k = l /\ i = j
OneInRing(c) == \A i, j \in DOMAIN ring : RingHas(c, i) /\ RingHas(c, j) => i = j

OnePlace(c) ==
    /\ OnDown(c) => ~AtTask(c) /\ ~OnUp(c) /\ ~InRing(c) /\ ~Got(c, Answers)
    /\ AtTask(c) => ~OnUp(c) /\ ~InRing(c) /\ ~Got(c, Answers)
    /\ InRing(c) => ~OnUp(c) /\ ~Got(c, Answers)
    /\ OnUp(c) => ~Got(c, Answers)
    /\ OneDown(c) /\ OneUp(c) /\ OneInRing(c)

Custody(c) == Gate(c) /\ Waiting(c) /\ Verdicts(c) /\ OnePlace(c)

Inv ==
    /\ TypeOK /\ Talk /\ Sessions /\ OneTimelineAtATime
    /\ \A c \in Commands : Custody(c)

-----------------------------------------------------------------------------
(* What the operators on message sequences do.                             *)

LEMMA Longer ==
    ASSUME NEW S, NEW s \in Seq(S), NEW x \in S
    PROVE  /\ Append(s, x) \in Seq(S)
           /\ Len(Append(s, x)) = Len(s) + 1
           /\ \A i \in 1..Len(s) : Append(s, x)[i] = s[i]
           /\ Append(s, x)[Len(s) + 1] = x
  OBVIOUS

LEMMA Rest ==
    ASSUME NEW S, NEW s \in Seq(S), s # <<>>
    PROVE  /\ Head(s) \in S /\ Head(s) = s[1]
           /\ Tail(s) \in Seq(S)
           /\ Len(s) \in Nat \ {0}
           /\ Len(Tail(s)) = Len(s) - 1
           /\ \A i \in 1..Len(s) - 1 : Tail(s)[i] = s[i + 1]
  OBVIOUS

LEMMA Prefix ==
    ASSUME NEW S, NEW s \in Seq(S), NEW n \in 0..Len(s)
    PROVE  /\ SubSeq(s, 1, n) \in Seq(S)
           /\ Len(SubSeq(s, 1, n)) = n
           /\ \A i \in 1..n : SubSeq(s, 1, n)[i] = s[i]
  OBVIOUS

LEMMA Joined ==
    ASSUME NEW S, NEW s \in Seq(S), NEW t \in Seq(S)
    PROVE  /\ s \o t \in Seq(S)
           /\ Len(s \o t) = Len(s) + Len(t)
           /\ \A i \in 1..Len(s) : (s \o t)[i] = s[i]
           /\ \A i \in 1..Len(t) : (s \o t)[Len(s) + i] = t[i]
  OBVIOUS

(* deque(maxlen): the new message is last, before it a suffix of the old. *)
LEMMA KeptRing ==
    ASSUME NEW s \in Seq(UpMessages), Len(s) <= RingLimit, NEW m \in UpMessages
    PROVE  LET r == Kept(Append(s, m))
           IN  /\ r \in Seq(UpMessages)
               /\ Len(r) \in 1..RingLimit
               /\ r[Len(r)] = m
               /\ Len(r) <= Len(s) + 1
               /\ \A i \in 1..Len(r) - 1 : r[i] = s[i + (Len(s) + 1 - Len(r))]
<1>. DEFINE a == Append(s, m)
<1>1. /\ a \in Seq(UpMessages) /\ Len(a) = Len(s) + 1 /\ Len(s) \in Nat
      /\ \A i \in 1..Len(s) : a[i] = s[i]
      /\ a[Len(s) + 1] = m
  BY Longer
<1>2. RingLimit \in Nat \ {0}
  BY CommandAssumption
<1>. HIDE DEF a
<1>3. CASE Len(a) <= RingLimit
  BY <1>1, <1>2, <1>3 DEF Kept, a
<1>4. CASE ~(Len(a) <= RingLimit)
  <2>. DEFINE r == SubSeq(a, 2, Len(a))
  <2>1. Len(a) - RingLimit + 1 = 2 /\ Len(a) = RingLimit + 1
    BY <1>1, <1>2, <1>4
  <2>2. /\ r \in Seq(UpMessages) /\ Len(r) = RingLimit
        /\ \A i \in 1..RingLimit : r[i] = a[i + 1]
    BY <1>1, <1>2, <2>1
  <2>3. Kept(a) = r
    BY <1>4, <2>1 DEF Kept
  <2>. HIDE DEF r
  <2>. QED BY <1>1, <1>2, <2>1, <2>2, <2>3 DEF a
<1>. QED BY <1>3, <1>4

LEMMA KeptOrNew ==
    ASSUME NEW s \in Seq(UpMessages), Len(s) <= RingLimit, NEW m \in UpMessages
    PROVE  LET r == Kept(Append(s, m))
           IN  /\ r \in Seq(UpMessages) /\ Len(r) \in 1..RingLimit
               /\ \E off \in Nat : \A i \in DOMAIN r :
                    \/ i + off \in DOMAIN s /\ r[i] = s[i + off]
                    \/ i = Len(r) /\ r[i] = m
<1>. DEFINE r == Kept(Append(s, m))
            off == Len(s) + 1 - Len(r)
<1>1. /\ r \in Seq(UpMessages) /\ Len(r) \in 1..RingLimit
      /\ r[Len(r)] = m
      /\ Len(r) <= Len(s) + 1
      /\ \A i \in 1..Len(r) - 1 : r[i] = s[i + off]
  BY KeptRing
<1>. HIDE DEF r
<1>2. off \in Nat /\ Len(s) \in Nat /\ Len(r) \in Nat
  BY <1>1
<1>3. ASSUME NEW i \in DOMAIN r, i # Len(r) PROVE i + off \in DOMAIN s /\ r[i] = s[i + off]
  <2>1. i \in 1..Len(r) - 1
    BY <1>1, <1>2, <1>3
  <2>2. i + off \in 1..Len(s)
    BY <1>2, <2>1
  <2>. QED BY <1>1, <2>1, <2>2, SMTT(30)
<1>. QED BY <1>1, <1>2, <1>3 DEF r

-----------------------------------------------------------------------------
(* The types, a group at a time.                                           *)

HubTyped ==
    /\ trail \in [Commands -> Seq({"command", "ack", "nack", "rejected", "succeeded",
                                   "undelivered", "lost"})]
    /\ gate \in [Commands -> {"new", "stored", "sent", "undelivered",
                              "done", "abandoned"}]
    /\ sess \in [Links -> {"none", "dialled", "adopting", "operational", "closed"}]
    /\ inflight \in [Links -> SUBSET Commands]
    /\ current \in 0..MaxDials
LinkTyped == up \in [Links -> Seq(UpMessages)] /\ down \in [Links -> Seq(DownMessages)]
AgentTyped ==
    /\ writer \in 0..MaxDials
    /\ phase \in {"offline", "hello", "adopted", "dead"}
    /\ task \in [Commands -> {"none", "timeline", "abort", "running", "aborting"}]
    /\ ring \in Seq(UpMessages) /\ Len(ring) <= RingLimit
Counted ==
    /\ dials \in 0..MaxDials
    /\ hubRestarts \in 0..MaxHubRestarts
    /\ moduleRestarts \in 0..MaxModuleRestarts
Alive == alive \in [Links -> BOOLEAN]

LEMMA TypeParts == TypeOK <=> HubTyped /\ LinkTyped /\ AgentTyped /\ Counted /\ Alive
  BY DEF TypeOK, HubTyped, LinkTyped, AgentTyped, Counted, Alive

LEMMA TypePartsNext ==
    TypeOK' <=> HubTyped' /\ LinkTyped' /\ AgentTyped' /\ Counted' /\ Alive'
  BY DEF TypeOK, HubTyped, LinkTyped, AgentTyped, Counted, Alive

LEMMA AliveStep == Alive /\ [Next]_vars => Alive'
<1>. SUFFICES ASSUME Alive, [Next]_vars PROVE Alive'
  OBVIOUS
<1>1. ASSUME NEW c \in Commands, Admit(c) \/ Gateway(c) \/ Execute(c) PROVE Alive'
  BY <1>1 DEF Admit, Gateway, Dispatch, Undelivered, Execute, Accept, Decline, Finish,
              linkVars, Alive
<1>2. ASSUME NEW k \in Links, Session(k) PROVE Alive'
  BY <1>2 DEF Session, HubGreets, HubAdopts, HubReads, HubNotices, linkVars, Alive
<1>3. ASSUME NEW k \in Links, HubRejects(k) \/ LinkDrops(k) PROVE Alive'
  BY <1>3 DEF HubRejects, LinkDrops, Alive
<1>4. CASE Agent
  BY <1>4 DEF Agent, AgentAdopted, AgentReads, AgentNotices, Alive
<1>5. CASE Dial
  BY <1>5 DEF Dial, Alive
<1>6. CASE HealthTick \/ AgentRestart \/ HubRestart
  BY <1>6 DEF HealthTick, AgentRestart, HubRestart, Alive
<1>7. CASE UNCHANGED vars
  BY <1>7 DEF vars, linkVars, Alive
<1>. QED BY <1>1, <1>2, <1>3, <1>4, <1>5, <1>6, <1>7 DEF Next

LEMMA CountedStep == Counted /\ [Next]_vars => Counted'
<1>. SUFFICES ASSUME Counted, [Next]_vars PROVE Counted'
  OBVIOUS
<1>. USE CommandAssumption DEF Counted
<1>1. ASSUME NEW c \in Commands, Admit(c) \/ Gateway(c) \/ Execute(c) PROVE Counted'
  BY <1>1 DEF Admit, Gateway, Dispatch, Undelivered, Execute, Accept, Decline, Finish,
              counters
<1>2. ASSUME NEW k \in Links, Session(k) \/ HubRejects(k) \/ LinkDrops(k) PROVE Counted'
  BY <1>2 DEF Session, HubGreets, HubAdopts, HubReads, HubNotices, HubRejects, LinkDrops,
              counters
<1>3. CASE Agent \/ HealthTick
  BY <1>3 DEF Agent, AgentAdopted, AgentReads, AgentNotices, HealthTick, counters
<1>4. CASE Dial
  BY <1>4 DEF Dial
<1>5. CASE AgentRestart \/ HubRestart
  BY <1>5 DEF AgentRestart, HubRestart
<1>6. CASE UNCHANGED vars
  BY <1>6 DEF vars, counters
<1>. QED BY <1>1, <1>2, <1>3, <1>4, <1>5, <1>6 DEF Next

Kinds == {"command", "ack", "nack", "rejected", "succeeded", "undelivered", "lost"}

(* What _handle appends: an answer only for a verdict, and then only one. *)
LEMMA EvidenceOf ==
    ASSUME NEW t \in {"ACK", "NACK", "RESULT"}, NEW s \in Seq(Kinds)
    PROVE  LET e == s \o Evidence(t)
           IN  /\ e \in Seq(Kinds) /\ e # <<>>
               /\ Len(s) \in Nat /\ Len(e) \in Nat /\ Len(s) < Len(e)
               /\ \A i \in 1..Len(s) : e[i] = s[i]
               /\ t \notin Terminal => \A i \in Len(s)+1..Len(e) : e[i] \notin Results
               /\ t \in Terminal =>
                    /\ \A i \in Len(s)+1..Len(e) - 1 : e[i] \notin Results
                    /\ e[Len(e)] \in Answers
<1>1. Evidence(t) \in Seq(Kinds) /\ Len(Evidence(t)) \in {1, 2}
  <2>1. CASE t = "ACK"
    BY <2>1 DEF Evidence, Kinds
  <2>2. CASE t = "NACK"
    BY <2>2 DEF Evidence, Kinds
  <2>3. CASE t = "RESULT"
    BY <2>3 DEF Evidence, Kinds
  <2>. QED BY <2>1, <2>2, <2>3
<1>2. /\ s \o Evidence(t) \in Seq(Kinds)
      /\ Len(s \o Evidence(t)) = Len(s) + Len(Evidence(t))
      /\ \A i \in 1..Len(s) : (s \o Evidence(t))[i] = s[i]
      /\ \A i \in 1..Len(Evidence(t)) : (s \o Evidence(t))[Len(s) + i] = Evidence(t)[i]
  BY <1>1, Joined
<1>3. CASE t = "ACK"
  BY <1>2, <1>3 DEF Evidence, Terminal, Results
<1>4. CASE t = "NACK"
  BY <1>2, <1>4 DEF Evidence, Terminal, Results, Answers
<1>5. CASE t = "RESULT"
  BY <1>2, <1>5 DEF Evidence, Terminal, Results, Answers
<1>. QED BY <1>3, <1>4, <1>5

LEMMA OneMore ==
    ASSUME NEW x \in Kinds, NEW s \in Seq(Kinds)
    PROVE  /\ s \o <<x>> \in Seq(Kinds)
           /\ Len(s \o <<x>>) = Len(s) + 1
           /\ \A i \in 1..Len(s) : (s \o <<x>>)[i] = s[i]
           /\ (s \o <<x>>)[Len(s) + 1] = x
  OBVIOUS

(* The head of an operational session's link says what _handle expects. *)
LEMMA HeadSpoken ==
    ASSUME LinkTyped, Talk, NEW k \in Links, up[k] # <<>>
    PROVE  Head(up[k]) \in UpMessages /\ Spoken(Head(up[k]))
<1>1. up[k] \in Seq(UpMessages)
  BY DEF LinkTyped
<1>2. Head(up[k]) = up[k][1] /\ 1 \in DOMAIN up[k] /\ Head(up[k]) \in UpMessages
  BY <1>1, Rest
<1>. QED BY <1>2 DEF Talk

LEMMA HubTypedStep == HubTyped /\ LinkTyped /\ Counted /\ Talk /\ [Next]_vars => HubTyped'
<1>. SUFFICES ASSUME HubTyped, LinkTyped, Counted, Talk, [Next]_vars PROVE HubTyped'
  OBVIOUS
<1>. USE DEF HubTyped
<1>1. ASSUME NEW c \in Commands, Admit(c) \/ Undelivered(c) PROVE HubTyped'
  <2>1. PICK x \in Kinds : trail' = [trail EXCEPT ![c] = trail[c] \o <<x>>]
    BY <1>1 DEF Admit, Undelivered, Record, Kinds
  <2>2. trail[c] \in Seq(Kinds)
    BY DEF Kinds
  <2>3. trail[c] \o <<x>> \in Seq(Kinds)
    BY <2>2, OneMore
  <2>4. trail' \in [Commands -> Seq(Kinds)]
    BY <2>1, <2>3 DEF Kinds
  <2>. QED BY <1>1, <2>4 DEF Admit, Undelivered, Kinds
<1>2. ASSUME NEW c \in Commands, Dispatch(c) PROVE HubTyped'
  <2>1. gate' \in [Commands -> {"new", "stored", "sent", "undelivered", "done", "abandoned"}]
    BY <1>2 DEF Dispatch
  <2>2. inflight' \in [Links -> SUBSET Commands]
    BY <1>2 DEF Dispatch, NotInFlight
  <2>. QED BY <1>2, <2>1, <2>2 DEF Dispatch
<1>3. ASSUME NEW c \in Commands, Execute(c) PROVE HubTyped'
  BY <1>3 DEF Execute, Accept, Decline, Finish, hubVars
<1>4. ASSUME NEW k \in Links, HubGreets(k) \/ HubAdopts(k) \/ HubRejects(k) PROVE HubTyped'
  BY <1>4 DEF HubGreets, HubAdopts, HubRejects, Links
<1>5. ASSUME NEW k \in Links, HubReads(k) PROVE HubTyped'
  <2>. DEFINE m == Head(up[k])
  <2>1. m \in UpMessages /\ Spoken(m)
    BY <1>5, HeadSpoken DEF HubReads
  <2>2. CASE m.command_id \in Commands
    <3>1. trail[m.command_id] \in Seq(Kinds)
      BY <2>2 DEF Kinds
    <3>2. trail[m.command_id] \o Evidence(m.t) \in Seq(Kinds)
      BY <2>1, <2>2, <3>1, EvidenceOf DEF Spoken
    <3>3. trail' = [trail EXCEPT ![m.command_id] = trail[m.command_id] \o Evidence(m.t)]
      BY <1>5, <2>2 DEF HubReads, Record
    <3>4. inflight' \in [Links -> SUBSET Commands]
      BY <1>5, <2>2 DEF HubReads
    <3>5. UNCHANGED <<gate, sess, current>>
      BY <1>5 DEF HubReads
    <3>. QED BY <3>2, <3>3, <3>4, <3>5 DEF Kinds
  <2>3. CASE m.command_id \notin Commands
    BY <1>5, <2>3 DEF HubReads
  <2>. QED BY <2>2, <2>3
<1>6. ASSUME NEW k \in Links, HubNotices(k) PROVE HubTyped'
  <2>1. \A c \in Commands : Append(trail[c], "lost") \in Seq(Kinds)
    BY DEF Kinds
  <2>2. trail' \in [Commands -> Seq(Kinds)]
    BY <1>6, <2>1 DEF HubNotices, Kinds
  <2>3. /\ sess' = [sess EXCEPT ![k] = "closed"] /\ gate' = gate
        /\ current' \in {0, current}
        /\ inflight' \in {inflight, [inflight EXCEPT ![k] = {}]}
    BY <1>6 DEF HubNotices
  <2>4. current' \in 0..MaxDials
    BY <2>3, CommandAssumption
  <2>5. inflight' \in [Links -> SUBSET Commands]
    BY <2>3
  <2>. QED BY <2>2, <2>3, <2>4, <2>5 DEF Kinds
<1>7. CASE HubRestart
  <2>1. sess' \in [Links -> {"none", "dialled", "adopting", "operational", "closed"}]
    BY <1>7 DEF HubRestart
  <2>2. gate' \in [Commands -> {"new", "stored", "sent", "undelivered", "done", "abandoned"}]
    BY <1>7 DEF HubRestart
  <2>3. current' \in 0..MaxDials /\ inflight' \in [Links -> SUBSET Commands] /\ trail' = trail
    BY <1>7, CommandAssumption DEF HubRestart
  <2>. QED BY <2>1, <2>2, <2>3
<1>8. ASSUME NEW k \in Links, LinkDrops(k) PROVE HubTyped'
  BY <1>8 DEF LinkDrops, hubVars
<1>9. CASE Agent \/ HealthTick \/ AgentRestart
  BY <1>9 DEF Agent, AgentAdopted, AgentReads, AgentNotices, HealthTick, AgentRestart, hubVars
<1>10. CASE Dial
  BY <1>10, CommandAssumption DEF Dial, Counted, Links
<1>11. CASE UNCHANGED vars
  BY <1>11 DEF vars, hubVars
<1>. QED BY <1>1, <1>2, <1>3, <1>4, <1>5, <1>6, <1>7, <1>8, <1>9, <1>10, <1>11
         DEF Next, Gateway, Session

-----------------------------------------------------------------------------
(* What an action may do to the messages: take some away, or send one.     *)

(* Every message of the new sequence was in the old one, in the old order. *)
Fewer(new, old) ==
    \E off \in Nat : \A i \in DOMAIN new : i + off \in DOMAIN old /\ new[i] = old[i + off]

LEMMA FewerKinds ==
    ASSUME NEW S, NEW s \in Seq(S)
    PROVE  /\ Fewer(s, s) /\ Fewer(<<>>, s)
           /\ s # <<>> => Fewer(Tail(s), s)
           /\ \A n \in 0..Len(s) : Fewer(SubSeq(s, 1, n), s)
<1>1. Fewer(s, s)
  <2>1. \A i \in DOMAIN s : i + 0 \in DOMAIN s /\ s[i] = s[i + 0]
    OBVIOUS
  <2>. QED BY <2>1 DEF Fewer
<1>2. Fewer(<<>>, s)
  <2>1. \A i \in DOMAIN <<>> : i + 0 \in DOMAIN s /\ <<>>[i] = s[i + 0]
    OBVIOUS
  <2>. QED BY <2>1 DEF Fewer
<1>3. ASSUME s # <<>> PROVE Fewer(Tail(s), s)
  <2>1. \A i \in DOMAIN Tail(s) : i + 1 \in DOMAIN s /\ Tail(s)[i] = s[i + 1]
    BY <1>3, Rest
  <2>. QED BY <2>1 DEF Fewer
<1>4. ASSUME NEW n \in 0..Len(s) PROVE Fewer(SubSeq(s, 1, n), s)
  <2>. DEFINE p == SubSeq(s, 1, n)
  <2>1. /\ p \in Seq(S) /\ Len(p) = n /\ Len(s) \in Nat
        /\ \A i \in 1..n : p[i] = s[i]
    BY Prefix
  <2>. HIDE DEF p
  <2>2. \A i \in DOMAIN p : i + 0 \in DOMAIN s /\ p[i] = s[i + 0]
    BY <2>1
  <2>3. Fewer(p, s)
    BY <2>2 DEF Fewer
  <2>. QED BY <2>3 DEF p
<1>. QED BY <1>1, <1>2, <1>3, <1>4

FewerUp == \A k \in Links : Fewer(up'[k], up[k])
FewerDown == \A k \in Links : Fewer(down'[k], down[k])
FewerRing == Fewer(ring', ring)

LEMMA FewerUpKeeps ==
    ASSUME LinkTyped, LinkTyped', FewerUp, NEW c \in Commands
    PROVE  /\ OnUp(c)' => OnUp(c)
           /\ OneUp(c) => OneUp(c)'
           /\ NoUp(c) => NoUp(c)'
<1>1. \A k \in Links : /\ up[k] \in Seq(UpMessages) /\ up'[k] \in Seq(UpMessages)
                       /\ DOMAIN up[k] \subseteq Nat /\ DOMAIN up'[k] \subseteq Nat
  BY DEF LinkTyped
<1>2. ASSUME NEW k \in Links, NEW off \in Nat,
             \A i \in DOMAIN up'[k] : i + off \in DOMAIN up[k] /\ up'[k][i] = up[k][i + off]
      PROVE  \A i \in DOMAIN up'[k] : UpHas(c, k, i)' => UpHas(c, k, i + off)
  BY <1>2 DEF UpHas, IsVerdict
<1>3. ASSUME OnUp(c)' PROVE OnUp(c)
  <2>1. PICK k \in Links : \E i \in DOMAIN up'[k] : UpHas(c, k, i)'
    BY <1>3 DEF OnUp
  <2>2. PICK off \in Nat :
            \A i \in DOMAIN up'[k] : i + off \in DOMAIN up[k] /\ up'[k][i] = up[k][i + off]
    BY DEF FewerUp, Fewer
  <2>3. PICK i \in DOMAIN up'[k] : UpHas(c, k, i)'
    BY <2>1
  <2>4. UpHas(c, k, i + off) /\ i + off \in DOMAIN up[k]
    BY <2>2, <2>3, <1>2
  <2>. QED BY <2>4 DEF OnUp
<1>4. ASSUME OneUp(c), NEW k \in Links, NEW l \in Links,
             NEW i \in DOMAIN up'[k], NEW j \in DOMAIN up'[l],
             UpHas(c, k, i)', UpHas(c, l, j)'
      PROVE  k = l /\ i = j
  <2>1. PICK off \in Nat :
            \A n \in DOMAIN up'[k] : n + off \in DOMAIN up[k] /\ up'[k][n] = up[k][n + off]
    BY DEF FewerUp, Fewer
  <2>2. PICK off2 \in Nat :
            \A n \in DOMAIN up'[l] : n + off2 \in DOMAIN up[l] /\ up'[l][n] = up[l][n + off2]
    BY DEF FewerUp, Fewer
  <2>3. UpHas(c, k, i + off) /\ UpHas(c, l, j + off2)
    BY <2>1, <2>2, <1>2, <1>4
  <2>4. k = l
    BY <2>1, <2>2, <2>3, <1>4 DEF OneUp
  <2>5. UpHas(c, l, j + off) /\ j + off \in DOMAIN up[l]
    BY <2>1, <2>4, <1>2, <1>4
  <2>6. i + off = j + off
    BY <2>1, <2>3, <2>4, <2>5, <1>4 DEF OneUp
  <2>. QED BY <2>4, <2>6, <1>1
<1>5. ASSUME NoUp(c) PROVE NoUp(c)'
  BY <1>5, <1>1 DEF NoUp, FewerUp, Fewer
<1>6. OneUp(c) => OneUp(c)'
  BY <1>4 DEF OneUp
<1>. QED BY <1>3, <1>5, <1>6

LEMMA FewerDownKeeps ==
    ASSUME LinkTyped, LinkTyped', FewerDown, NEW c \in Commands
    PROVE  /\ OnDown(c)' => OnDown(c)
           /\ OneDown(c) => OneDown(c)'
           /\ NoDown(c) => NoDown(c)'
<1>1. \A k \in Links : /\ down[k] \in Seq(DownMessages) /\ down'[k] \in Seq(DownMessages)
                       /\ DOMAIN down[k] \subseteq Nat /\ DOMAIN down'[k] \subseteq Nat
  BY DEF LinkTyped
<1>2. ASSUME NEW k \in Links, NEW off \in Nat,
             \A i \in DOMAIN down'[k] :
                i + off \in DOMAIN down[k] /\ down'[k][i] = down[k][i + off]
      PROVE  \A i \in DOMAIN down'[k] : DownHas(c, k, i)' => DownHas(c, k, i + off)
  BY <1>2 DEF DownHas
<1>3. ASSUME OnDown(c)' PROVE OnDown(c)
  <2>1. PICK k \in Links : \E i \in DOMAIN down'[k] : DownHas(c, k, i)'
    BY <1>3 DEF OnDown
  <2>2. PICK off \in Nat : \A i \in DOMAIN down'[k] :
                i + off \in DOMAIN down[k] /\ down'[k][i] = down[k][i + off]
    BY DEF FewerDown, Fewer
  <2>3. PICK i \in DOMAIN down'[k] : DownHas(c, k, i)'
    BY <2>1
  <2>4. DownHas(c, k, i + off) /\ i + off \in DOMAIN down[k]
    BY <2>2, <2>3, <1>2
  <2>. QED BY <2>4 DEF OnDown
<1>4. ASSUME OneDown(c), NEW k \in Links, NEW l \in Links,
             NEW i \in DOMAIN down'[k], NEW j \in DOMAIN down'[l],
             DownHas(c, k, i)', DownHas(c, l, j)'
      PROVE  k = l /\ i = j
  <2>1. PICK off \in Nat : \A n \in DOMAIN down'[k] :
                n + off \in DOMAIN down[k] /\ down'[k][n] = down[k][n + off]
    BY DEF FewerDown, Fewer
  <2>2. PICK off2 \in Nat : \A n \in DOMAIN down'[l] :
                n + off2 \in DOMAIN down[l] /\ down'[l][n] = down[l][n + off2]
    BY DEF FewerDown, Fewer
  <2>3. DownHas(c, k, i + off) /\ DownHas(c, l, j + off2)
    BY <2>1, <2>2, <1>2, <1>4
  <2>4. k = l
    BY <2>1, <2>2, <2>3, <1>4 DEF OneDown
  <2>5. DownHas(c, l, j + off) /\ j + off \in DOMAIN down[l]
    BY <2>1, <2>4, <1>2, <1>4
  <2>6. i + off = j + off
    BY <2>1, <2>3, <2>4, <2>5, <1>4 DEF OneDown
  <2>. QED BY <2>4, <2>6, <1>1
<1>5. ASSUME NoDown(c) PROVE NoDown(c)'
  BY <1>5, <1>1 DEF NoDown, FewerDown, Fewer
<1>6. OneDown(c) => OneDown(c)'
  BY <1>4 DEF OneDown
<1>. QED BY <1>3, <1>5, <1>6

(* One message more on one link. *)
LEMMA SentUp ==
    ASSUME LinkTyped, NEW w \in Links, NEW m \in UpMessages, NEW c \in Commands,
           up' = [up EXCEPT ![w] = Append(@, m)]
    PROVE  /\ up' \in [Links -> Seq(UpMessages)]
           /\ ~IsVerdict(m, c) => (OnUp(c)' => OnUp(c)) /\ (OneUp(c) => OneUp(c)')
           /\ ~OnUp(c) => OneUp(c)'
           /\ m.command_id # c => (NoUp(c) => NoUp(c)')
<1>1. /\ up[w] \in Seq(UpMessages) /\ up'[w] = Append(up[w], m)
      /\ \A k \in Links \ {w} : up'[k] = up[k]
  BY DEF LinkTyped
<1>2. /\ up'[w] \in Seq(UpMessages) /\ Len(up'[w]) = Len(up[w]) + 1 /\ Len(up[w]) \in Nat
      /\ \A i \in 1..Len(up[w]) : up'[w][i] = up[w][i]
      /\ up'[w][Len(up[w]) + 1] = m
  BY <1>1, Longer
<1>3. \A k \in Links : \A i \in DOMAIN up'[k] :
            \/ i \in DOMAIN up[k] /\ up'[k][i] = up[k][i]
            \/ k = w /\ i = Len(up[w]) + 1 /\ up'[k][i] = m
  BY <1>1, <1>2
<1>4. up' \in [Links -> Seq(UpMessages)]
  BY <1>2 DEF LinkTyped
<1>5. \A k \in Links : \A i \in DOMAIN up'[k] :
            UpHas(c, k, i)' => \/ i \in DOMAIN up[k] /\ UpHas(c, k, i)
                               \/ k = w /\ i = Len(up[w]) + 1 /\ IsVerdict(m, c)
  BY <1>3 DEF UpHas, IsVerdict
<1>6. ASSUME ~IsVerdict(m, c) PROVE (OnUp(c)' => OnUp(c)) /\ (OneUp(c) => OneUp(c)')
  BY <1>5, <1>6 DEF OnUp, OneUp
<1>7. ASSUME ~OnUp(c) PROVE OneUp(c)'
  BY <1>5, <1>7 DEF OnUp, OneUp
<1>8. ASSUME m.command_id # c PROVE NoUp(c) => NoUp(c)'
  BY <1>3, <1>8 DEF NoUp
<1>. QED BY <1>4, <1>6, <1>7, <1>8

(* One message more towards the agent. *)
LEMMA SentDown ==
    ASSUME LinkTyped, NEW w \in Links, NEW m \in DownMessages, NEW c \in Commands,
           down' = [down EXCEPT ![w] = Append(@, m)]
    PROVE  /\ down' \in [Links -> Seq(DownMessages)]
           /\ m.command_id # c => /\ OnDown(c)' => OnDown(c)
                                  /\ OneDown(c) => OneDown(c)'
                                  /\ NoDown(c) => NoDown(c)'
           /\ NoDown(c) => OneDown(c)'
<1>1. /\ down[w] \in Seq(DownMessages) /\ down'[w] = Append(down[w], m)
      /\ \A k \in Links \ {w} : down'[k] = down[k]
  BY DEF LinkTyped
<1>2. /\ down'[w] \in Seq(DownMessages) /\ Len(down'[w]) = Len(down[w]) + 1
      /\ Len(down[w]) \in Nat
      /\ \A i \in 1..Len(down[w]) : down'[w][i] = down[w][i]
      /\ down'[w][Len(down[w]) + 1] = m
  BY <1>1, Longer
<1>3. \A k \in Links : \A i \in DOMAIN down'[k] :
            \/ i \in DOMAIN down[k] /\ down'[k][i] = down[k][i]
            \/ k = w /\ i = Len(down[w]) + 1 /\ down'[k][i] = m
  BY <1>1, <1>2
<1>4. down' \in [Links -> Seq(DownMessages)]
  BY <1>2 DEF LinkTyped
<1>5. \A k \in Links : \A i \in DOMAIN down'[k] :
            DownHas(c, k, i)' => \/ i \in DOMAIN down[k] /\ DownHas(c, k, i)
                                 \/ k = w /\ i = Len(down[w]) + 1 /\ m.command_id = c
  BY <1>3 DEF DownHas
<1>6. ASSUME m.command_id # c
      PROVE  (OnDown(c)' => OnDown(c)) /\ (OneDown(c) => OneDown(c)') /\ (NoDown(c) => NoDown(c)')
  BY <1>3, <1>5, <1>6 DEF OnDown, OneDown, NoDown
<1>7. ASSUME NoDown(c) PROVE OneDown(c)'
  BY <1>5, <1>7 DEF NoDown, OneDown, DownHas
<1>. QED BY <1>4, <1>6, <1>7

(* One message more in the ring, and the oldest perhaps gone. *)
LEMMA BufferedRing ==
    ASSUME AgentTyped, NEW m \in UpMessages, NEW c \in Commands,
           ring' = Kept(Append(ring, m))
    PROVE  /\ ring' \in Seq(UpMessages) /\ Len(ring') <= RingLimit
           /\ ~IsVerdict(m, c) => (InRing(c)' => InRing(c)) /\ (OneInRing(c) => OneInRing(c)')
           /\ ~InRing(c) => OneInRing(c)'
           /\ m.command_id # c => (NoRing(c) => NoRing(c)')
           /\ Spoken(m) /\ (\A i \in DOMAIN ring : Spoken(ring[i]))
                    => \A i \in DOMAIN ring' : Spoken(ring'[i])
<1>1. /\ ring' \in Seq(UpMessages) /\ Len(ring') \in 1..RingLimit
      /\ \E off \in Nat : \A i \in DOMAIN ring' :
            \/ i + off \in DOMAIN ring /\ ring'[i] = ring[i + off]
            \/ i = Len(ring') /\ ring'[i] = m
  BY KeptOrNew DEF AgentTyped
<1>2. PICK off \in Nat : \A i \in DOMAIN ring' :
            \/ i + off \in DOMAIN ring /\ ring'[i] = ring[i + off]
            \/ i = Len(ring') /\ ring'[i] = m
  BY <1>1
<1>3. Len(ring') <= RingLimit
  BY <1>1, CommandAssumption
<1>4. \A i \in DOMAIN ring' :
            RingHas(c, i)' => \/ i + off \in DOMAIN ring /\ RingHas(c, i + off)
                              \/ i = Len(ring') /\ IsVerdict(m, c)
  BY <1>2 DEF RingHas, IsVerdict
<1>5. DOMAIN ring' \subseteq Nat
  BY <1>1
<1>6. ASSUME ~IsVerdict(m, c)
      PROVE  (InRing(c)' => InRing(c)) /\ (OneInRing(c) => OneInRing(c)')
  <2>1. InRing(c)' => InRing(c)
    BY <1>4, <1>6 DEF InRing
  <2>2. ASSUME OneInRing(c), NEW i \in DOMAIN ring', NEW j \in DOMAIN ring',
               RingHas(c, i)', RingHas(c, j)'
        PROVE  i = j
    <3>1. i + off = j + off
      BY <1>4, <1>6, <2>2 DEF OneInRing
    <3>. QED BY <3>1, <1>5
  <2>. QED BY <2>1, <2>2 DEF OneInRing
<1>7. ASSUME ~InRing(c) PROVE OneInRing(c)'
  BY <1>4, <1>7 DEF InRing, OneInRing
<1>8. ASSUME m.command_id # c PROVE NoRing(c) => NoRing(c)'
  BY <1>2, <1>8 DEF NoRing
<1>9. ASSUME Spoken(m), \A i \in DOMAIN ring : Spoken(ring[i])
      PROVE  \A i \in DOMAIN ring' : Spoken(ring'[i])
  BY <1>2, <1>9
<1>. QED BY <1>1, <1>3, <1>6, <1>7, <1>8, <1>9

(* What send() does with a message, whatever the link. *)
LEMMA SendKinds ==
    ASSUME AgentTyped, NEW m \in UpMessages, Send(m)
    PROVE  /\ writer' \in 0..MaxDials
           /\ \/ UNCHANGED <<up, ring>>
              \/ up' = up /\ ring' = Kept(Append(ring, m))
              \/ /\ ring' = ring
                 /\ \E w \in Links : up' = [up EXCEPT ![w] = Append(@, m)]
<1>0. writer \in 0..MaxDials /\ 0 \in 0..MaxDials
  BY CommandAssumption DEF AgentTyped
<1>1. CASE Buffered(m)
  BY <1>0, <1>1 DEF Buffered
<1>2. ASSUME writer # 0, Sent(m)
      PROVE  /\ writer' \in 0..MaxDials
             /\ ring' = ring
             /\ \E w \in Links : up' = [up EXCEPT ![w] = Append(@, m)]
  <2>1. writer \in Links
    BY <1>0, <1>2, CommandAssumption DEF Links
  <2>. QED BY <1>0, <1>2, <2>1 DEF Sent
<1>3. CASE UNCHANGED <<up, ring, writer>>
  BY <1>0, <1>3
<1>. QED BY <1>1, <1>2, <1>3 DEF Send

LEMMA Messages ==
    /\ \A c \in Commands, t \in {"ACK", "NACK", "RESULT"} :
            /\ Message(t, c) \in UpMessages /\ Spoken(Message(t, c))
            /\ Message(t, c).t = t /\ Message(t, c).command_id = c
    /\ \A t \in {"ROLE_OK", "TELEM"} :
            /\ Message(t, NoCommand) \in UpMessages /\ Spoken(Message(t, NoCommand))
            /\ Message(t, NoCommand).command_id = NoCommand
    /\ Message("HELLO_OK", NoCommand) \in DownMessages
    /\ Message("HELLO_OK", NoCommand).command_id = NoCommand
    /\ \A c \in Commands : Message("CMD", c) \in DownMessages /\ Message("CMD", c).command_id = c
    /\ NoCommand \notin Commands
  BY CommandAssumption DEF Message, UpMessages, DownMessages, Spoken

(* A send keeps the types and says what may be said. *)
LEMMA SendTyped ==
    ASSUME LinkTyped, AgentTyped, Talk, NEW m \in UpMessages, Spoken(m), Send(m)
    PROVE  /\ up' \in [Links -> Seq(UpMessages)]
           /\ ring' \in Seq(UpMessages) /\ Len(ring') <= RingLimit
           /\ writer' \in 0..MaxDials
           /\ Talk'
<1>1. writer' \in 0..MaxDials
  BY SendKinds
<1>2. CASE UNCHANGED <<up, ring>>
  BY <1>1, <1>2 DEF LinkTyped, AgentTyped, Talk, Spoken
<1>3. CASE up' = up /\ ring' = Kept(Append(ring, m))
  <2>1. ring' \in Seq(UpMessages) /\ Len(ring') <= RingLimit
    BY <1>3, KeptOrNew, CommandAssumption DEF AgentTyped
  <2>2. \A i \in DOMAIN ring' : Spoken(ring'[i])
    <3>1. \E off \in Nat : \A i \in DOMAIN ring' :
                \/ i + off \in DOMAIN ring /\ ring'[i] = ring[i + off]
                \/ i = Len(ring') /\ ring'[i] = m
      BY <1>3, KeptOrNew DEF AgentTyped
    <3>. QED BY <3>1 DEF Talk
  <2>. QED BY <1>1, <1>3, <2>1, <2>2 DEF LinkTyped, Talk, Spoken
<1>4. ASSUME NEW w \in Links, ring' = ring, up' = [up EXCEPT ![w] = Append(@, m)]
      PROVE  up' \in [Links -> Seq(UpMessages)] /\ Talk'
  <2>1. up[w] \in Seq(UpMessages)
    BY DEF LinkTyped
  <2>2. /\ Append(up[w], m) \in Seq(UpMessages)
        /\ \A i \in DOMAIN Append(up[w], m) :
                \/ i \in DOMAIN up[w] /\ Append(up[w], m)[i] = up[w][i]
                \/ Append(up[w], m)[i] = m
    BY <2>1
  <2>3. up' \in [Links -> Seq(UpMessages)]
    BY <1>4, <2>2 DEF LinkTyped
  <2>4. \A k \in Links : \A i \in DOMAIN up'[k] : Spoken(up'[k][i])
    BY <1>4, <2>2 DEF LinkTyped, Talk
  <2>. QED BY <1>4, <2>3, <2>4 DEF Talk, Spoken
<1>. QED BY <1>1, <1>2, <1>3, <1>4, SendKinds DEF AgentTyped

(* Taking messages away keeps what is said. *)
LEMMA FewerTalk ==
    ASSUME Talk, FewerUp, FewerRing
    PROVE  Talk'
  BY DEF Talk, FewerUp, FewerRing, Fewer, Spoken

LEMMA SameIsFewer ==
    ASSUME LinkTyped, AgentTyped
    PROVE  /\ up' = up => FewerUp
           /\ down' = down => FewerDown
           /\ ring' = ring => FewerRing
           /\ ring' = <<>> => FewerRing
<1>1. \A k \in Links : Fewer(up[k], up[k]) /\ Fewer(down[k], down[k])
  BY FewerKinds DEF LinkTyped
<1>2. Fewer(ring, ring) /\ Fewer(<<>>, ring)
  BY FewerKinds DEF AgentTyped
<1>. QED BY <1>1, <1>2 DEF FewerUp, FewerDown, FewerRing

(* The steps of the hub's sessions and of the network only take messages   *)
(* from the module away.                                                   *)
LEMMA HubTakes ==
    ASSUME LinkTyped, AgentTyped, NEW k \in Links,
           HubAdopts(k) \/ HubRejects(k) \/ HubReads(k)
    PROVE  /\ up' \in [Links -> Seq(UpMessages)] /\ FewerUp
           /\ UNCHANGED <<down, ring, phase, writer, task>>
<1>1. \A l \in Links : up[l] \in Seq(UpMessages)
  BY DEF LinkTyped
<1>2. \/ up' = [up EXCEPT ![k] = <<>>]
      \/ up[k] # <<>> /\ up' = [up EXCEPT ![k] = Tail(@)]
  BY DEF HubAdopts, HubRejects, HubReads
<1>3. \A l \in Links : up'[l] \in Seq(UpMessages) /\ Fewer(up'[l], up[l])
  <2>1. \A l \in Links : /\ Fewer(<<>>, up[l]) /\ Fewer(up[l], up[l])
                         /\ up[l] # <<>> => Tail(up[l]) \in Seq(UpMessages)
                                            /\ Fewer(Tail(up[l]), up[l])
    BY <1>1, FewerKinds, Rest
  <2>2. \A l \in Links : \/ up'[l] = up[l]
                         \/ up'[l] = <<>>
                         \/ up[l] # <<>> /\ up'[l] = Tail(up[l])
    BY <1>2 DEF LinkTyped
  <2>3. <<>> \in Seq(UpMessages)
    OBVIOUS
  <2>4. ASSUME NEW l \in Links PROVE up'[l] \in Seq(UpMessages) /\ Fewer(up'[l], up[l])
    <3>1. CASE up'[l] = up[l]
      BY <3>1, <1>1, <2>1
    <3>2. CASE up'[l] = <<>>
      BY <3>2, <2>1, <2>3
    <3>3. CASE up[l] # <<>> /\ up'[l] = Tail(up[l])
      BY <3>3, <2>1
    <3>. QED BY <3>1, <3>2, <3>3, <2>2
  <2>. QED BY <2>4
<1>4. up' \in [Links -> Seq(UpMessages)]
  BY <1>2, <1>3 DEF LinkTyped
<1>. QED BY <1>3, <1>4 DEF FewerUp, HubAdopts, HubRejects, HubReads, agentVars

LEMMA NetworkTakes ==
    ASSUME LinkTyped, AgentTyped, NEW k \in Links, LinkDrops(k)
    PROVE  LinkTyped' /\ FewerUp /\ FewerDown
<1>1. \A l \in Links : up[l] \in Seq(UpMessages) /\ down[l] \in Seq(DownMessages)
  BY DEF LinkTyped
<1>2. PICK i \in 0..Len(up[k]), j \in 0..Len(down[k]) :
            /\ up' = [up EXCEPT ![k] = SubSeq(@, 1, i)]
            /\ down' = [down EXCEPT ![k] = SubSeq(@, 1, j)]
  BY DEF LinkDrops
<1>3. \A l \in Links : /\ up'[l] \in Seq(UpMessages) /\ Fewer(up'[l], up[l])
                       /\ down'[l] \in Seq(DownMessages) /\ Fewer(down'[l], down[l])
  BY <1>1, <1>2, FewerKinds, Prefix DEF LinkTyped
<1>4. LinkTyped'
  BY <1>2, <1>3 DEF LinkTyped
<1>. QED BY <1>3, <1>4 DEF FewerUp, FewerDown

(* Reading a message from the hub takes it away. *)
LEMMA AgentTakes ==
    ASSUME LinkTyped, AgentTyped, NEW k \in Links, down[k] # <<>>,
           down' = [down EXCEPT ![k] = Tail(@)]
    PROVE  down' \in [Links -> Seq(DownMessages)] /\ FewerDown
<1>1. \A l \in Links : down[l] \in Seq(DownMessages)
  BY DEF LinkTyped
<1>2. \A l \in Links : down'[l] \in Seq(DownMessages) /\ Fewer(down'[l], down[l])
  BY <1>1, FewerKinds, Rest DEF LinkTyped
<1>3. down' \in [Links -> Seq(DownMessages)]
  BY <1>2 DEF LinkTyped
<1>. QED BY <1>2, <1>3 DEF FewerDown

LEMMA Flushing ==
    ASSUME NEW S, NEW s \in Seq(S), NEW x \in S, NEW t \in Seq(S)
    PROVE  LET n == Len(s) + 1
               u == s \o <<x>> \o t
           IN  /\ u \in Seq(S)
               /\ \A i \in DOMAIN u :
                    \/ i \in DOMAIN s /\ u[i] = s[i]
                    \/ u[i] = x
                    \/ i > n /\ i - n \in DOMAIN t /\ u[i] = t[i - n]
<1>. DEFINE v == s \o <<x>>
            n == Len(s) + 1
<1>1. /\ v \in Seq(S) /\ Len(v) = n /\ Len(s) \in Nat /\ Len(t) \in Nat
      /\ \A i \in 1..Len(s) : v[i] = s[i]
      /\ v[n] = x
  OBVIOUS
<1>. HIDE DEF v
<1>2. /\ v \o t \in Seq(S) /\ Len(v \o t) = Len(v) + Len(t)
      /\ \A i \in 1..Len(v) : (v \o t)[i] = v[i]
      /\ \A i \in 1..Len(t) : (v \o t)[Len(v) + i] = t[i]
  BY <1>1
<1>3. ASSUME NEW i \in DOMAIN (v \o t)
      PROVE  \/ i \in DOMAIN s /\ (v \o t)[i] = s[i]
             \/ (v \o t)[i] = x
             \/ i > n /\ i - n \in DOMAIN t /\ (v \o t)[i] = t[i - n]
  <2>1. i \in 1..n + Len(t)
    BY <1>1, <1>2
  <2>2. CASE i <= Len(s)
    BY <1>1, <1>2, <2>1, <2>2
  <2>3. CASE i = n
    BY <1>1, <1>2, <2>1, <2>3
  <2>4. CASE i > n
    <3>1. i - n \in 1..Len(t) /\ i = Len(v) + (i - n)
      BY <1>1, <2>1, <2>4
    <3>. QED BY <1>1, <1>2, <2>4, <3>1
  <2>. QED BY <1>1, <2>1, <2>2, <2>3, <2>4
<1>. QED BY <1>2, <1>3 DEF v

(* The flush: ROLE_OK and the whole ring follow what is on the link. *)
LEMMA FlushMoves ==
    ASSUME LinkTyped, AgentTyped, Talk, NEW k \in Links,
           up' = [up EXCEPT ![k] = @ \o <<Message("ROLE_OK", NoCommand)>> \o ring],
           ring' = <<>>
    PROVE  /\ up' \in [Links -> Seq(UpMessages)]
           /\ Talk'
           /\ \A c \in Commands :
                /\ OnUp(c)' => OnUp(c) \/ InRing(c)
                /\ OneUp(c) /\ OneInRing(c) /\ ~(OnUp(c) /\ InRing(c)) => OneUp(c)'
                /\ NoUp(c) /\ NoRing(c) => NoUp(c)'
<1>. DEFINE role == Message("ROLE_OK", NoCommand)
            n == Len(up[k]) + 1
<1>1. /\ up[k] \in Seq(UpMessages) /\ ring \in Seq(UpMessages)
      /\ role \in UpMessages /\ Spoken(role) /\ role.command_id = NoCommand
      /\ NoCommand \notin Commands
  BY Messages DEF LinkTyped, AgentTyped
<1>2. up'[k] = up[k] \o <<role>> \o ring /\ \A l \in Links \ {k} : up'[l] = up[l]
  BY DEF LinkTyped
<1>. HIDE DEF role
<1>3. /\ up[k] \o <<role>> \o ring \in Seq(UpMessages)
      /\ \A i \in DOMAIN (up[k] \o <<role>> \o ring) :
            \/ i \in DOMAIN up[k] /\ (up[k] \o <<role>> \o ring)[i] = up[k][i]
            \/ (up[k] \o <<role>> \o ring)[i] = role
            \/ /\ i > n /\ i - n \in DOMAIN ring
               /\ (up[k] \o <<role>> \o ring)[i] = ring[i - n]
  BY <1>1, Flushing
<1>4. up' \in [Links -> Seq(UpMessages)]
  BY <1>2, <1>3 DEF LinkTyped
<1>5. \A l \in Links : \A i \in DOMAIN up'[l] :
            \/ i \in DOMAIN up[l] /\ up'[l][i] = up[l][i]
            \/ l = k /\ up'[l][i] = role
            \/ l = k /\ i > n /\ i - n \in DOMAIN ring /\ up'[l][i] = ring[i - n]
  BY <1>2, <1>3
<1>6. Talk'
  BY <1>1, <1>5 DEF Talk, Spoken
<1>7. ASSUME NEW c \in Commands
      PROVE  \A l \in Links : \A i \in DOMAIN up'[l] : UpHas(c, l, i)' =>
                \/ i \in DOMAIN up[l] /\ UpHas(c, l, i)
                \/ l = k /\ i - n \in DOMAIN ring /\ RingHas(c, i - n)
  BY <1>1, <1>5 DEF UpHas, RingHas, IsVerdict
<1>8. \A l \in Links : DOMAIN up'[l] \subseteq Nat
  BY <1>4
<1>9. n \in Nat
  BY <1>1
<1>10. ASSUME NEW c \in Commands PROVE OnUp(c)' => OnUp(c) \/ InRing(c)
  BY <1>7, <1>10 DEF OnUp, InRing
<1>11. ASSUME NEW c \in Commands, OneUp(c), OneInRing(c), ~(OnUp(c) /\ InRing(c)),
              NEW l \in Links, NEW j \in Links,
              NEW x \in DOMAIN up'[l], NEW y \in DOMAIN up'[j],
              UpHas(c, l, x)', UpHas(c, j, y)'
       PROVE  l = j /\ x = y
  <2>1. CASE ~InRing(c)
    <3>1. UpHas(c, l, x) /\ x \in DOMAIN up[l] /\ UpHas(c, j, y) /\ y \in DOMAIN up[j]
      BY <1>7, <1>11, <2>1 DEF InRing
    <3>. QED BY <3>1, <1>11 DEF OneUp
  <2>2. CASE ~OnUp(c)
    <3>1. /\ l = k /\ x - n \in DOMAIN ring /\ RingHas(c, x - n)
          /\ j = k /\ y - n \in DOMAIN ring /\ RingHas(c, y - n)
      BY <1>7, <1>11, <2>2 DEF OnUp
    <3>2. x - n = y - n
      BY <3>1, <1>11 DEF OneInRing
    <3>. QED BY <3>1, <3>2, <1>8, <1>9
  <2>. QED BY <2>1, <2>2, <1>11
<1>12. ASSUME NEW c \in Commands, NoUp(c), NoRing(c) PROVE NoUp(c)'
  BY <1>1, <1>5, <1>12, SMTT(30) DEF NoUp, NoRing
<1>13. \A c \in Commands : OneUp(c) /\ OneInRing(c) /\ ~(OnUp(c) /\ InRing(c)) => OneUp(c)'
  BY <1>11 DEF OneUp
<1>. QED BY <1>4, <1>6, <1>10, <1>12, <1>13

(* The links, the agent's memory and what they hold keep their types.      *)
Typed == LinkTyped /\ AgentTyped /\ Talk

LEMMA TypedStep ==
    ASSUME HubTyped, Typed, Counted, Sessions, [Next]_vars
    PROVE  Typed'
<1>. USE DEF Typed
<1>0. (Connected => dials \in Links) /\ (writer # 0 => writer \in Links) /\ 0 \in 0..MaxDials
  BY CommandAssumption DEF Sessions, Counted, Links, AgentTyped
<1>1. ASSUME NEW c \in Commands, Admit(c) \/ Undelivered(c) PROVE Typed'
  BY <1>1 DEF Admit, Undelivered, linkVars, agentVars, LinkTyped, AgentTyped, Talk, Spoken
<1>2. ASSUME NEW c \in Commands, Dispatch(c) PROVE Typed'
  <2>1. CASE down' = down
    BY <1>2, <2>1 DEF Dispatch, agentVars, LinkTyped, AgentTyped, Talk, Spoken
  <2>2. CASE current # 0 /\ down' = [down EXCEPT ![current] = Append(@, Message("CMD", c))]
    <3>1. current \in Links
      BY <2>2, CommandAssumption DEF HubTyped, Links
    <3>2. down' \in [Links -> Seq(DownMessages)]
      BY <1>2, <2>2, <3>1, Messages, SentDown
    <3>. QED BY <1>2, <3>2 DEF Dispatch, agentVars, LinkTyped, AgentTyped, Talk, Spoken
  <2>. QED BY <1>2, <2>1, <2>2 DEF Dispatch
<1>3. ASSUME NEW k \in Links, HubGreets(k) PROVE Typed'
  <2>1. down' = [down EXCEPT ![k] = Append(@, Message("HELLO_OK", NoCommand))]
    BY <1>3 DEF HubGreets
  <2>2. Message("HELLO_OK", NoCommand) \in DownMessages
    BY Messages
  <2>3. Append(down[k], Message("HELLO_OK", NoCommand)) \in Seq(DownMessages)
    BY <2>2, Longer DEF LinkTyped
  <2>4. down' \in [Links -> Seq(DownMessages)]
    BY <2>1, <2>3 DEF LinkTyped
  <2>. QED BY <1>3, <2>4 DEF HubGreets, agentVars, LinkTyped, AgentTyped, Talk, Spoken
<1>4. ASSUME NEW k \in Links, HubAdopts(k) \/ HubRejects(k) \/ HubReads(k) PROVE Typed'
  <2>1. /\ up' \in [Links -> Seq(UpMessages)] /\ FewerUp
        /\ UNCHANGED <<down, ring, phase, writer, task>>
    BY <1>4, HubTakes
  <2>2. Talk'
    BY <2>1, FewerTalk, SameIsFewer
  <2>. QED BY <2>1, <2>2 DEF LinkTyped, AgentTyped
<1>5. ASSUME NEW k \in Links, HubNotices(k) PROVE Typed'
  BY <1>5 DEF HubNotices, linkVars, agentVars, LinkTyped, AgentTyped, Talk, Spoken
<1>6. CASE HubRestart
  BY <1>6 DEF HubRestart, agentVars, LinkTyped, AgentTyped, Talk, Spoken
<1>7. ASSUME NEW k \in Links, LinkDrops(k) PROVE Typed'
  <2>1. LinkTyped' /\ FewerUp /\ UNCHANGED agentVars
    BY <1>7, NetworkTakes DEF LinkDrops
  <2>2. Talk'
    BY <2>1, FewerTalk, SameIsFewer DEF agentVars
  <2>. QED BY <2>1, <2>2 DEF agentVars, AgentTyped
<1>8. CASE Dial
  BY <1>8, CommandAssumption DEF Dial, Counted, LinkTyped, AgentTyped, Talk, Spoken
<1>9. CASE AgentAdopted
  <2>1. down' \in [Links -> Seq(DownMessages)]
    BY <1>0, <1>9, AgentTakes DEF AgentAdopted, Connected
  <2>2. dials \in Links
    BY <1>0, <1>9 DEF AgentAdopted, Connected
  <2>3. CASE up' = [up EXCEPT ![dials] =
                        @ \o <<Message("ROLE_OK", NoCommand)>> \o ring] /\ ring' = <<>>
    <3>1. up' \in [Links -> Seq(UpMessages)] /\ Talk'
      BY <2>2, <2>3, FlushMoves
    <3>2. AgentTyped'
      BY <1>0, <1>9, <2>3, CommandAssumption DEF AgentAdopted, AgentGone, AgentTyped
    <3>. QED BY <2>1, <3>1, <3>2 DEF LinkTyped
  <2>4. CASE up' = up /\ ring' = <<>>
    <3>1. Talk'
      BY <2>4, FewerTalk, SameIsFewer
    <3>. QED BY <1>0, <1>9, <2>1, <2>4, <3>1, CommandAssumption
             DEF AgentAdopted, AgentGone, LinkTyped, AgentTyped
  <2>. QED BY <1>9, <2>3, <2>4 DEF AgentAdopted, AgentGone, Flushed
<1>10. CASE AgentReads
  <2>1. down' \in [Links -> Seq(DownMessages)]
    BY <1>0, <1>10, AgentTakes DEF AgentReads, Connected
  <2>2. task' \in [Commands -> {"none", "timeline", "abort", "running", "aborting"}]
    BY <1>10 DEF AgentReads, AgentTyped
  <2>. QED BY <1>10, <2>1, <2>2 DEF AgentReads, LinkTyped, AgentTyped, Talk, Spoken
<1>11. CASE AgentNotices
  BY <1>0, <1>11 DEF AgentNotices, LinkTyped, AgentTyped, Talk, Spoken
<1>12. CASE AgentRestart
  <2>1. Talk'
    BY <1>12, FewerTalk, SameIsFewer DEF AgentRestart, AgentGone
  <2>2. down' \in [Links -> Seq(DownMessages)]
    BY <1>12 DEF AgentRestart
  <2>3. AgentTyped'
    BY <1>0, <1>12, CommandAssumption DEF AgentRestart, AgentGone, AgentTyped
  <2>. QED BY <1>12, <2>1, <2>2, <2>3 DEF AgentRestart, LinkTyped
<1>13. CASE HealthTick
  <2>1. /\ up' \in [Links -> Seq(UpMessages)] /\ writer' \in 0..MaxDials /\ Talk'
        /\ ring' \in Seq(UpMessages) /\ Len(ring') <= RingLimit
    BY <1>13, Messages, SendTyped DEF HealthTick
  <2>. QED BY <1>13, <2>1 DEF HealthTick, LinkTyped, AgentTyped
<1>14. ASSUME NEW c \in Commands, Execute(c) PROVE Typed'
  <2>1. PICK t \in {"ACK", "NACK", "RESULT"} : Send(Message(t, c))
    BY <1>14 DEF Execute, Accept, Decline, Finish
  <2>2. /\ up' \in [Links -> Seq(UpMessages)] /\ writer' \in 0..MaxDials /\ Talk'
        /\ ring' \in Seq(UpMessages) /\ Len(ring') <= RingLimit
    BY <2>1, Messages, SendTyped
  <2>3. task' \in [Commands -> {"none", "timeline", "abort", "running", "aborting"}]
    BY <1>14 DEF Execute, Accept, Decline, Finish, AgentTyped
  <2>4. UNCHANGED <<down, phase>>
    BY <1>14 DEF Execute, Accept, Decline, Finish
  <2>. QED BY <2>2, <2>3, <2>4 DEF LinkTyped, AgentTyped
<1>15. CASE UNCHANGED vars
  BY <1>15 DEF vars, linkVars, agentVars, LinkTyped, AgentTyped, Talk, Spoken
<1>. QED BY <1>1, <1>2, <1>3, <1>4, <1>5, <1>6, <1>7, <1>8, <1>9, <1>10, <1>11, <1>12,
            <1>13, <1>14, <1>15 DEF Next, Gateway, Session, Agent

-----------------------------------------------------------------------------
(* The map entry is an operational session; what is in flight is with one. *)
LEMMA SessionsStep ==
    ASSUME HubTyped, Counted, AgentTyped, Sessions, [Next]_vars
    PROVE  Sessions'
<1>. USE DEF Sessions
<1>0. /\ \A k \in Links : k \in Nat /\ k # 0
      /\ dials \in Nat /\ MaxDials \in Nat
      /\ current # 0 => current \in Links
  BY CommandAssumption DEF HubTyped, Counted, Links
<1>1. ASSUME NEW c \in Commands, Admit(c) \/ Undelivered(c) \/ Execute(c) PROVE Sessions'
  BY <1>1 DEF Admit, Undelivered, Execute, Accept, Decline, Finish, agentVars, counters, hubVars,
              Connected
<1>2. ASSUME NEW c \in Commands, Dispatch(c) PROVE Sessions'
  <2>1. UNCHANGED <<sess, current, dials, phase>>
    BY <1>2 DEF Dispatch, agentVars, counters
  <2>2. \A k \in Links : inflight'[k] = inflight[k] \/ k = current
    BY <1>2 DEF Dispatch, HubTyped
  <2>. QED BY <1>0, <2>1, <2>2 DEF Connected
<1>3. ASSUME NEW k \in Links, HubGreets(k) PROVE Sessions'
  <2>1. /\ sess[k] = "dialled" /\ sess' = [sess EXCEPT ![k] = "adopting"]
        /\ UNCHANGED <<inflight, current, phase, dials>>
    BY <1>3 DEF HubGreets, agentVars, counters
  <2>. QED BY <1>0, <2>1 DEF Connected, HubTyped
<1>4. ASSUME NEW k \in Links, HubAdopts(k) PROVE Sessions'
  <2>1. /\ sess[k] = "adopting" /\ sess' = [sess EXCEPT ![k] = "operational"]
        /\ current' = k
        /\ UNCHANGED <<inflight, phase, dials>>
    BY <1>4 DEF HubAdopts, agentVars, counters
  <2>. QED BY <1>0, <2>1 DEF Connected, HubTyped
<1>5. ASSUME NEW k \in Links, HubRejects(k) PROVE Sessions'
  <2>1. /\ sess[k] = "adopting" /\ sess' = [sess EXCEPT ![k] = "closed"]
        /\ UNCHANGED <<inflight, current, phase, dials>>
    BY <1>5 DEF HubRejects, agentVars, counters
  <2>. QED BY <1>0, <2>1 DEF Connected, HubTyped
<1>6. ASSUME NEW k \in Links, HubReads(k) PROVE Sessions'
  <2>1. UNCHANGED <<sess, current, phase, dials>> /\ sess[k] = "operational"
    BY <1>6 DEF HubReads, agentVars, counters
  <2>2. \A l \in Links : inflight'[l] = inflight[l] \/ l = k
    BY <1>6 DEF HubReads, HubTyped
  <2>. QED BY <1>0, <2>1, <2>2 DEF Connected
<1>7. ASSUME NEW k \in Links, HubNotices(k) PROVE Sessions'
  <2>1. /\ sess' = [sess EXCEPT ![k] = "closed"]
        /\ UNCHANGED <<phase, dials>>
        /\ sess[k] # "none"
    BY <1>7 DEF HubNotices, agentVars, counters
  <2>2. CASE sess[k] = "operational"
    <3>1. current' = 0 /\ inflight' = [inflight EXCEPT ![k] = {}]
      BY <1>7, <2>2 DEF HubNotices
    <3>. QED BY <1>0, <2>1, <3>1 DEF Connected, HubTyped
  <2>3. CASE sess[k] # "operational"
    <3>1. UNCHANGED <<current, inflight>>
      BY <1>7, <2>3 DEF HubNotices
    <3>. QED BY <1>0, <2>1, <2>3, <3>1 DEF Connected, HubTyped
  <2>. QED BY <2>2, <2>3
<1>8. CASE HubRestart
  BY <1>8 DEF HubRestart, agentVars, Connected, HubTyped
<1>9. ASSUME NEW k \in Links, LinkDrops(k) PROVE Sessions'
  BY <1>9 DEF LinkDrops, hubVars, agentVars, counters, Connected
<1>10. CASE Dial
  <2>1. dials + 1 \in Links /\ dials' = dials + 1 /\ sess[dials + 1] = "none"
    BY <1>0, <1>10 DEF Dial, Links
  <2>2. sess' = [sess EXCEPT ![dials + 1] = "dialled"] /\ UNCHANGED <<inflight, current>>
    BY <1>10 DEF Dial
  <2>. QED BY <1>0, <2>1, <2>2 DEF HubTyped
<1>11. CASE Agent \/ HealthTick \/ AgentRestart
  <2>1. UNCHANGED <<sess, inflight, current, dials>>
    BY <1>11 DEF Agent, AgentAdopted, AgentReads, AgentNotices, HealthTick, AgentRestart,
                 hubVars, counters
  <2>2. Connected' => Connected
    BY <1>11 DEF Agent, AgentAdopted, AgentReads, AgentNotices, HealthTick, AgentRestart,
                 AgentGone, Connected
  <2>. QED BY <2>1, <2>2
<1>12. CASE UNCHANGED vars
  BY <1>12 DEF vars, hubVars, agentVars, counters, Connected
<1>. QED BY <1>1, <1>2, <1>3, <1>4, <1>5, <1>6, <1>7, <1>8, <1>9, <1>10, <1>11, <1>12
         DEF Next, Gateway, Session

(* A timeline is accepted only when none runs. *)
LEMMA TimelineStep ==
    ASSUME AgentTyped, OneTimelineAtATime, [Next]_vars
    PROVE  OneTimelineAtATime'
<1>. USE DEF OneTimelineAtATime
<1>1. ASSUME NEW c \in Commands, Accept(c) PROVE OneTimelineAtATime'
  <2>1. CASE ~Busy /\ task' = [task EXCEPT ![c] = "running"]
    BY <2>1 DEF Busy, AgentTyped
  <2>2. CASE task' = [task EXCEPT ![c] = "aborting"]
    BY <2>2 DEF AgentTyped
  <2>. QED BY <1>1, <2>1, <2>2 DEF Accept
<1>2. ASSUME NEW c \in Commands, Decline(c) \/ Finish(c) PROVE OneTimelineAtATime'
  <2>1. task' = [task EXCEPT ![c] = "none"]
    BY <1>2 DEF Decline, Finish
  <2>. QED BY <2>1 DEF AgentTyped
<1>3. CASE AgentReads
  <2>1. PICK kind \in {"timeline", "abort"} :
            task' = [task EXCEPT ![Head(down[dials]).command_id] = kind]
    BY <1>3 DEF AgentReads
  <2>. QED BY <2>1 DEF AgentTyped
<1>4. CASE AgentAdopted \/ AgentRestart
  BY <1>4 DEF AgentAdopted, AgentRestart, AgentGone
<1>5. CASE AgentNotices \/ HealthTick \/ Dial \/ HubRestart \/ UNCHANGED vars
  BY <1>5 DEF AgentNotices, HealthTick, Dial, HubRestart, vars, agentVars
<1>6. ASSUME NEW c \in Commands, Admit(c) \/ Gateway(c) PROVE OneTimelineAtATime'
  BY <1>6 DEF Admit, Gateway, Dispatch, Undelivered, agentVars
<1>7. ASSUME NEW k \in Links, Session(k) \/ HubRejects(k) \/ LinkDrops(k)
      PROVE  OneTimelineAtATime'
  BY <1>7 DEF Session, HubGreets, HubAdopts, HubReads, HubNotices, HubRejects, LinkDrops,
              agentVars
<1>. QED BY <1>1, <1>2, <1>3, <1>4, <1>5, <1>6, <1>7 DEF Next, Execute, Agent

-----------------------------------------------------------------------------
(* One command's custody: what stays true when a step leaves things alone. *)

LEMMA SameTrail ==
    ASSUME NEW c \in Commands, trail'[c] = trail[c]
    PROVE  /\ \A some : Got(c, some)' <=> Got(c, some)
           /\ Verdicts(c) => Verdicts(c)'
  BY DEF Got, Verdicts, Once

LEMMA GateFrame ==
    ASSUME NEW c \in Commands, Gate(c), trail'[c] = trail[c], gate'[c] = gate[c],
           hubRestarts' = hubRestarts,
           gate[c] # "sent" => (Untouched(c) => Untouched(c)')
    PROVE  Gate(c)'
  BY SameTrail DEF Gate

LEMMA WaitingFrame ==
    ASSUME NEW c \in Commands, Waiting(c), trail'[c] = trail[c], gate'[c] = gate[c],
           UNCHANGED <<inflight, dials, hubRestarts>>,
           1 \in Links /\ sess[1] = "closed" => sess'[1] = "closed",
           dials # 0 => 1 \in Links
    PROVE  Waiting(c)'
  BY SameTrail DEF Waiting, InFlight, Flying

LEMMA PlaceFrame ==
    ASSUME NEW c \in Commands, OnePlace(c),
           OnDown(c)' => OnDown(c), AtTask(c)' => AtTask(c), InRing(c)' => InRing(c),
           OnUp(c)' => OnUp(c), Got(c, Answers)' => Got(c, Answers),
           OneDown(c) => OneDown(c)', OneUp(c) => OneUp(c)', OneInRing(c) => OneInRing(c)'
    PROVE  OnePlace(c)'
  BY DEF OnePlace

(* Messages and the task that stay as they are. *)
LEMMA SamePlaces ==
    ASSUME NEW c \in Commands
    PROVE  /\ up' = up => /\ OnUp(c)' <=> OnUp(c)
                          /\ OneUp(c) => OneUp(c)'
                          /\ NoUp(c) => NoUp(c)'
           /\ down' = down => /\ OnDown(c)' <=> OnDown(c)
                              /\ OneDown(c) => OneDown(c)'
                              /\ NoDown(c) => NoDown(c)'
           /\ ring' = ring => /\ InRing(c)' <=> InRing(c)
                              /\ OneInRing(c) => OneInRing(c)'
                              /\ NoRing(c) => NoRing(c)'
           /\ ring' = <<>> => ~InRing(c)' /\ OneInRing(c)' /\ NoRing(c)'
           /\ task'[c] \in {task[c], "none"} => (AtTask(c)' => AtTask(c))
<1>1. ASSUME ring' = <<>> PROVE ~InRing(c)' /\ OneInRing(c)' /\ NoRing(c)'
  <2>1. DOMAIN ring' = {}
    BY <1>1
  <2>. QED BY <2>1 DEF InRing, OneInRing, NoRing
<1>2. ASSUME up' = up PROVE (OnUp(c)' <=> OnUp(c)) /\ (OneUp(c) => OneUp(c)') /\ (NoUp(c) => NoUp(c)')
  BY <1>2 DEF OnUp, OneUp, NoUp, UpHas, IsVerdict
<1>3. ASSUME down' = down
      PROVE  (OnDown(c)' <=> OnDown(c)) /\ (OneDown(c) => OneDown(c)') /\ (NoDown(c) => NoDown(c)')
  BY <1>3 DEF OnDown, OneDown, NoDown, DownHas
<1>4. ASSUME ring' = ring
      PROVE  (InRing(c)' <=> InRing(c)) /\ (OneInRing(c) => OneInRing(c)') /\ (NoRing(c) => NoRing(c)')
  BY <1>4 DEF InRing, OneInRing, NoRing, RingHas, IsVerdict
<1>5. task'[c] \in {task[c], "none"} => (AtTask(c)' => AtTask(c))
  BY DEF AtTask
<1>. QED BY <1>1, <1>2, <1>3, <1>4, <1>5

(* Nothing of c on its way means that the token of c is in none of them. *)
LEMMA Nowhere ==
    ASSUME NEW c \in Commands
    PROVE  /\ NoUp(c) => ~OnUp(c)
           /\ NoDown(c) => ~OnDown(c)
           /\ NoRing(c) => ~InRing(c)
           /\ OnDown(c) => ~NoDown(c)
  BY DEF NoUp, NoDown, NoRing, OnUp, OnDown, InRing, UpHas, DownHas, RingHas, IsVerdict

(* A step that only takes messages or the task away. *)
LEMMA Lossy ==
    ASSUME LinkTyped, LinkTyped', AgentTyped, NEW c \in Commands, Custody(c),
           up' = up \/ FewerUp, down' = down \/ FewerDown, ring' \in {ring, <<>>},
           task'[c] \in {task[c], "none"},
           trail'[c] = trail[c]
    PROVE  /\ OnePlace(c)'
           /\ Verdicts(c)'
           /\ Untouched(c) /\ inflight' = inflight => Untouched(c)'
<1>1. /\ OnUp(c)' => OnUp(c)
      /\ OneUp(c) => OneUp(c)'
      /\ NoUp(c) => NoUp(c)'
  BY FewerUpKeeps, SamePlaces
<1>2. /\ OnDown(c)' => OnDown(c)
      /\ OneDown(c) => OneDown(c)'
      /\ NoDown(c) => NoDown(c)'
  BY FewerDownKeeps, SamePlaces
<1>3. /\ InRing(c)' => InRing(c)
      /\ OneInRing(c) => OneInRing(c)'
      /\ NoRing(c) => NoRing(c)'
      /\ AtTask(c)' => AtTask(c)
  BY SamePlaces
<1>4. OnePlace(c)'
  BY <1>1, <1>2, <1>3, SameTrail, PlaceFrame DEF Custody
<1>5. Verdicts(c)'
  BY SameTrail DEF Custody
<1>6. Untouched(c) /\ inflight' = inflight => Untouched(c)'
  BY <1>1, <1>2, <1>3 DEF Untouched, AtTask, Flying, InFlight
<1>. QED BY <1>4, <1>5, <1>6

(* The same, with the gateway and the sessions' memory left alone: what    *)
(* the network and the agent lose.                                         *)
LEMMA LossyCustody ==
    ASSUME LinkTyped, LinkTyped', AgentTyped, HubTyped, Counted, NEW c \in Commands, Custody(c),
           up' = up \/ FewerUp, down' = down \/ FewerDown, ring' \in {ring, <<>>},
           task'[c] \in {task[c], "none"},
           UNCHANGED <<trail, gate, inflight, dials, hubRestarts>>,
           1 \in Links /\ sess[1] = "closed" => sess'[1] = "closed"
    PROVE  Custody(c)'
<1>1. /\ OnePlace(c)' /\ Verdicts(c)'
      /\ Untouched(c) => Untouched(c)'
  BY Lossy
<1>2. Gate(c)'
  BY <1>1, GateFrame DEF Custody
<1>3. dials # 0 => 1 \in Links
  BY CommandAssumption DEF Counted, Links
<1>4. Waiting(c)'
  BY <1>3, WaitingFrame DEF Custody
<1>. QED BY <1>1, <1>2, <1>4 DEF Custody

(* What is known before a step, and of the messages after it. *)
Known ==
    /\ HubTyped /\ Typed /\ Counted /\ Sessions
    /\ \A c \in Commands : Custody(c)

(* The steps that only take something away from every command's custody.   *)
LEMMA TakingSteps ==
    ASSUME Known, LinkTyped', NEW c \in Commands
    PROVE  /\ \A k \in Links : HubGreets(k) \/ HubAdopts(k) \/ HubRejects(k) \/ LinkDrops(k)
                                    => Custody(c)'
           /\ Dial \/ AgentNotices \/ AgentRestart \/ UNCHANGED vars => Custody(c)'
<1>. USE DEF Known, Typed
<1>1. ASSUME NEW k \in Links, HubGreets(k) PROVE Custody(c)'
  <2>1. down' = [down EXCEPT ![k] = Append(@, Message("HELLO_OK", NoCommand))]
    BY <1>1 DEF HubGreets
  <2>2. Message("HELLO_OK", NoCommand) \in DownMessages
        /\ Message("HELLO_OK", NoCommand).command_id # c
    BY Messages
  <2>3. /\ OnDown(c)' => OnDown(c)
        /\ OneDown(c) => OneDown(c)'
        /\ NoDown(c) => NoDown(c)'
    BY <2>1, <2>2, SentDown
  <2>4. /\ UNCHANGED <<trail, gate, inflight, up, ring, task, dials, hubRestarts>>
        /\ sess[k] = "dialled" /\ sess' = [sess EXCEPT ![k] = "adopting"]
    BY <1>1 DEF HubGreets, agentVars, counters
  <2>5. OnePlace(c)'
    BY <2>3, <2>4, SamePlaces, SameTrail, PlaceFrame DEF Custody
  <2>6. Untouched(c) => Untouched(c)'
    BY <2>3, <2>4, SamePlaces DEF Untouched, Flying, InFlight
  <2>7. Gate(c)'
    BY <2>4, <2>6, GateFrame DEF Custody
  <2>8. /\ 1 \in Links /\ sess[1] = "closed" => sess'[1] = "closed"
        /\ dials # 0 => 1 \in Links
    BY <2>4, CommandAssumption DEF HubTyped, Counted, Links
  <2>9. Waiting(c)'
    BY <2>4, <2>8, WaitingFrame DEF Custody
  <2>. QED BY <2>4, <2>5, <2>7, <2>9, SameTrail DEF Custody
<1>2. ASSUME NEW k \in Links, HubAdopts(k) \/ HubRejects(k) PROVE Custody(c)'
  <2>1. FewerUp /\ UNCHANGED <<down, ring, task>>
    BY <1>2, HubTakes
  <2>2. UNCHANGED <<trail, gate, inflight, dials, hubRestarts>>
    BY <1>2 DEF HubAdopts, HubRejects, counters
  <2>3. 1 \in Links /\ sess[1] = "closed" => sess'[1] = "closed"
    BY <1>2 DEF HubAdopts, HubRejects, HubTyped
  <2>. QED BY <2>1, <2>2, <2>3, LossyCustody
<1>3. ASSUME NEW k \in Links, LinkDrops(k) PROVE Custody(c)'
  <2>1. FewerUp /\ FewerDown
    BY <1>3, NetworkTakes
  <2>2. UNCHANGED <<ring, task, trail, gate, inflight, dials, hubRestarts, sess>>
    BY <1>3 DEF LinkDrops, hubVars, agentVars, counters
  <2>. QED BY <2>1, <2>2, LossyCustody
<1>4. CASE AgentNotices
  <2>1. UNCHANGED <<up, down, ring, task, trail, gate, inflight, dials, hubRestarts, sess>>
    BY <1>4 DEF AgentNotices, hubVars, counters
  <2>. QED BY <2>1, LossyCustody
<1>5. CASE AgentRestart
  <2>1. UNCHANGED <<up, trail, gate, inflight, dials, hubRestarts, sess>>
        /\ ring' = <<>> /\ task'[c] = "none" /\ down' = [k \in Links |-> <<>>]
    BY <1>5 DEF AgentRestart, AgentGone, hubVars
  <2>2. FewerDown
    <3>1. \A k \in Links : Fewer(<<>>, down[k])
      BY FewerKinds DEF LinkTyped
    <3>. QED BY <2>1, <3>1 DEF FewerDown
  <2>. QED BY <2>1, <2>2, LossyCustody
<1>6. CASE UNCHANGED vars
  <2>1. UNCHANGED <<up, down, ring, task, trail, gate, inflight, dials, hubRestarts, sess>>
    BY <1>6 DEF vars, hubVars, linkVars, agentVars, counters
  <2>. QED BY <2>1, LossyCustody
<1>7. CASE Dial
  <2>1. UNCHANGED <<up, down, ring, task, trail, gate, inflight, hubRestarts>>
    BY <1>7 DEF Dial
  <2>2. dials \in Nat /\ dials' = dials + 1 /\ sess[dials + 1] = "none"
    <3>1. dials + 1 \in Links
      BY <1>7, CommandAssumption DEF Dial, Counted, Links
    <3>. QED BY <1>7, <3>1, CommandAssumption DEF Dial, Counted, Sessions
  <2>3. OnePlace(c)' /\ Verdicts(c)' /\ (Untouched(c) => Untouched(c)')
    BY <2>1, Lossy
  <2>4. Gate(c)'
    BY <2>1, <2>3, GateFrame DEF Custody
  <2>5. Waiting(c)
    BY DEF Custody
  <2>6. Waiting(c)'
    <3>1. \A some : Got(c, some)' <=> Got(c, some)
      BY <2>1, SameTrail
    <3>2. /\ dials' # 0 /\ (dials # 0 => dials' # 1) /\ (dials' <= 1 => dials <= 1)
          /\ dials > 1 => dials' > 1
      BY <2>2
    <3>. QED BY <2>1, <2>5, <3>1, <3>2 DEF Waiting, Flying, InFlight
  <2>. QED BY <2>3, <2>4, <2>6 DEF Custody
<1>. QED BY <1>1, <1>2, <1>3, <1>4, <1>5, <1>6, <1>7

(* The hub's restart: what was with the gateway is abandoned, and what was *)
(* in flight is forgotten.                                                 *)
LEMMA RestartCustody ==
    ASSUME Known, LinkTyped', HubRestart, NEW c \in Commands
    PROVE  Custody(c)'
<1>. USE DEF Known, Typed
<1>1. /\ UNCHANGED <<trail, down, ring, task, dials>>
      /\ hubRestarts' = hubRestarts + 1
      /\ inflight' = [k \in Links |-> {}] /\ up' = [k \in Links |-> <<>>]
      /\ gate'[c] = IF gate[c] \in {"stored", "undelivered"} THEN "abandoned" ELSE gate[c]
  BY DEF HubRestart, agentVars
<1>2. FewerUp
  <2>1. \A k \in Links : Fewer(<<>>, up[k])
    BY FewerKinds DEF LinkTyped
  <2>. QED BY <1>1, <2>1 DEF FewerUp
<1>3. OnePlace(c)' /\ Verdicts(c)'
  BY <1>1, <1>2, Lossy
<1>4. ~Flying(c)' /\ \A k \in Links : ~InFlight(c, k)'
  BY <1>1 DEF Flying, InFlight
<1>5. Untouched(c) => Untouched(c)'
  BY <1>1, <1>2, <1>4, FewerUpKeeps, SamePlaces DEF Untouched
<1>6. hubRestarts' > 0
  BY <1>1 DEF Counted
<1>7. \A some : Got(c, some)' <=> Got(c, some)
  BY <1>1, SameTrail
<1>8. Gate(c)'
  <2>1. Gate(c) /\ gate[c] \in {"new", "stored", "sent", "undelivered", "done", "abandoned"}
    BY DEF Custody, HubTyped
  <2>. QED BY <2>1, <1>1, <1>5, <1>6, <1>7 DEF Gate
<1>9. Waiting(c)'
  <2>1. Waiting(c)
    BY DEF Custody
  <2>2. sess[1] = "closed" /\ 1 \in Links => sess'[1] = "closed"
    BY DEF HubRestart
  <2>3. dials # 0 => 1 \in Links
    BY CommandAssumption DEF Counted, Links
  <2>4. hubRestarts' # 0
    BY <1>6
  <2>. QED BY <2>1, <2>2, <2>3, <2>4, <1>1, <1>4, <1>7 DEF Waiting
<1>. QED BY <1>3, <1>8, <1>9 DEF Custody

(* The agent's steps touch neither the evidence nor the hub's memory.      *)
LEMMA AgentFrame ==
    ASSUME HubTyped, Counted, NEW c \in Commands, Custody(c),
           UNCHANGED <<hubVars, dials, hubRestarts>>,
           Untouched(c) => Untouched(c)', OnePlace(c)'
    PROVE  Custody(c)'
<1>1. UNCHANGED <<trail, gate, sess, inflight>>
  BY DEF hubVars
<1>2. Gate(c)'
  BY <1>1, GateFrame DEF Custody
<1>3. dials # 0 => 1 \in Links
  BY CommandAssumption DEF Counted, Links
<1>4. Waiting(c)'
  BY <1>1, <1>3, WaitingFrame DEF Custody
<1>. QED BY <1>1, <1>2, <1>4, SameTrail DEF Custody

(* The flush moves the verdict from the ring to the link; a process that   *)
(* ends loses it.                                                          *)
LEMMA AdoptedCustody ==
    ASSUME Known, LinkTyped', AgentAdopted, NEW c \in Commands
    PROVE  Custody(c)'
<1>. USE DEF Known, Typed
<1>1. /\ dials \in Links /\ down[dials] # <<>>
      /\ down' = [down EXCEPT ![dials] = Tail(@)]
      /\ UNCHANGED <<hubVars, dials, hubRestarts>>
  BY CommandAssumption DEF AgentAdopted, Connected, Sessions, Counted, Links, counters
<1>2. FewerDown
  BY <1>1, AgentTakes
<1>3. /\ OnDown(c)' => OnDown(c)
      /\ OneDown(c) => OneDown(c)'
      /\ NoDown(c) => NoDown(c)'
  BY <1>2, FewerDownKeeps
<1>4. /\ ring' = <<>>
      /\ task'[c] \in {task[c], "none"}
      /\ \/ up' = up
         \/ up' = [up EXCEPT ![dials] = @ \o <<Message("ROLE_OK", NoCommand)>> \o ring]
  BY DEF AgentAdopted, AgentGone, Flushed
<1>5. /\ ~InRing(c)' /\ OneInRing(c)' /\ NoRing(c)'
      /\ AtTask(c)' => AtTask(c)
  BY <1>4, SamePlaces
<1>6. OnePlace(c) /\ trail'[c] = trail[c]
  BY <1>1 DEF Custody, hubVars
<1>7. Got(c, Answers)' <=> Got(c, Answers)
  BY <1>6, SameTrail
<1>8. CASE up' = up
  <2>1. (OnUp(c)' <=> OnUp(c)) /\ (OneUp(c) => OneUp(c)') /\ (NoUp(c) => NoUp(c)')
    BY <1>8, SamePlaces
  <2>2. OnePlace(c)'
    BY <2>1, <1>3, <1>5, <1>6, <1>7 DEF OnePlace
  <2>3. Untouched(c) => Untouched(c)'
    BY <2>1, <1>1, <1>3, <1>4, <1>5 DEF Untouched, Flying, InFlight, hubVars
  <2>. QED BY <2>2, <2>3, <1>1, AgentFrame
<1>9. CASE up' = [up EXCEPT ![dials] = @ \o <<Message("ROLE_OK", NoCommand)>> \o ring]
  <2>1. /\ OnUp(c)' => OnUp(c) \/ InRing(c)
        /\ OneUp(c) /\ OneInRing(c) /\ ~(OnUp(c) /\ InRing(c)) => OneUp(c)'
        /\ NoUp(c) /\ NoRing(c) => NoUp(c)'
    BY <1>1, <1>4, <1>9, FlushMoves
  <2>2. OnePlace(c)'
    BY <2>1, <1>3, <1>5, <1>6, <1>7 DEF OnePlace
  <2>3. Untouched(c) => Untouched(c)'
    BY <2>1, <1>1, <1>3, <1>4, <1>5 DEF Untouched, Flying, InFlight, hubVars
  <2>. QED BY <2>2, <2>3, <1>1, AgentFrame
<1>. QED BY <1>4, <1>8, <1>9

(* Reading a CMD turns it into a task. *)
LEMMA ReadsCustody ==
    ASSUME Known, LinkTyped', AgentReads, NEW c \in Commands
    PROVE  Custody(c)'
<1>. USE DEF Known, Typed
<1>. DEFINE d == Head(down[dials]).command_id
<1>1. /\ dials \in Links /\ down[dials] # <<>>
      /\ down' = [down EXCEPT ![dials] = Tail(@)]
      /\ UNCHANGED <<hubVars, up, ring, dials, hubRestarts>>
  BY CommandAssumption DEF AgentReads, Connected, Sessions, Counted, Links, counters
<1>2. PICK kind \in {"timeline", "abort"} : task' = [task EXCEPT ![d] = kind]
  BY DEF AgentReads
<1>3. FewerDown
  BY <1>1, AgentTakes
<1>4. /\ OnDown(c)' => OnDown(c)
      /\ OneDown(c) => OneDown(c)'
      /\ NoDown(c) => NoDown(c)'
  BY <1>3, FewerDownKeeps
<1>5. OnePlace(c) /\ trail'[c] = trail[c]
  BY <1>1 DEF Custody, hubVars
<1>6. /\ Got(c, Answers)' <=> Got(c, Answers)
      /\ OnUp(c)' <=> OnUp(c)
      /\ InRing(c)' <=> InRing(c)
      /\ OneUp(c) => OneUp(c)'
      /\ OneInRing(c) => OneInRing(c)'
      /\ NoUp(c) => NoUp(c)'
      /\ NoRing(c) => NoRing(c)'
  BY <1>1, <1>5, SameTrail, SamePlaces
<1>7. CASE c # d
  <2>1. task'[c] = task[c]
    BY <1>2, <1>7 DEF AgentTyped
  <2>2. OnePlace(c)'
    BY <2>1, <1>4, <1>5, <1>6 DEF OnePlace, AtTask
  <2>3. Untouched(c) => Untouched(c)'
    BY <2>1, <1>1, <1>4, <1>6 DEF Untouched, Flying, InFlight, hubVars
  <2>. QED BY <2>2, <2>3, <1>1, AgentFrame
<1>8. CASE c = d
  <2>1. /\ down[dials] \in Seq(DownMessages)
        /\ 1 \in DOMAIN down[dials] /\ down[dials][1].command_id = c
        /\ Tail(down[dials]) \in Seq(DownMessages)
        /\ \A i \in DOMAIN Tail(down[dials]) :
                /\ i + 1 \in DOMAIN down[dials] /\ i + 1 # 1
                /\ Tail(down[dials])[i] = down[dials][i + 1]
    <3>1. down[dials] \in Seq(DownMessages)
      BY <1>1 DEF LinkTyped
    <3>. QED BY <1>1, <1>8, <3>1, Rest
  <2>2. DownHas(c, dials, 1)
    BY <2>1 DEF DownHas
  <2>3. OnDown(c)
    BY <2>1, <2>2, <1>1 DEF OnDown
  <2>4. down'[dials] = Tail(down[dials]) /\ \A k \in Links \ {dials} : down'[k] = down[k]
    BY <1>1 DEF LinkTyped
  <2>5. ASSUME NEW k \in Links, NEW i \in DOMAIN down'[k], DownHas(c, k, i)' PROVE FALSE
    <3>1. CASE k = dials
      <4>1. DownHas(c, dials, i + 1) /\ i + 1 \in DOMAIN down[dials] /\ i + 1 # 1
        BY <2>1, <2>4, <2>5, <3>1 DEF DownHas
      <4>2. OneDown(c) /\ 1 \in DOMAIN down[dials]
        BY <2>1, <1>5 DEF OnePlace
      <4>3. i + 1 = 1
        BY <4>1, <4>2, <2>2, <1>1 DEF OneDown
      <4>. QED BY <4>1, <4>3
    <3>2. CASE k # dials
      <4>1. DownHas(c, k, i) /\ i \in DOMAIN down[k]
        BY <2>4, <2>5, <3>2 DEF DownHas
      <4>. QED BY <4>1, <2>1, <2>2, <3>2, <1>1, <1>5 DEF OnePlace, OneDown
    <3>. QED BY <3>1, <3>2
  <2>6. ~OnDown(c)'
    BY <2>5 DEF OnDown
  <2>7. OnePlace(c)'
    BY <2>3, <2>6, <1>4, <1>5, <1>6 DEF OnePlace
  <2>8. ~Untouched(c)
    BY <2>3, Nowhere DEF Untouched
  <2>. QED BY <2>7, <2>8, <1>1, AgentFrame
<1>. QED BY <1>7, <1>8

(* What a send about another command, or one that is no verdict, leaves.   *)
LEMMA SendKeeps ==
    ASSUME LinkTyped, AgentTyped, NEW m \in UpMessages, Send(m), NEW c \in Commands
    PROVE  /\ ~IsVerdict(m, c) => /\ (OnUp(c)' => OnUp(c)) /\ (OneUp(c) => OneUp(c)')
                                  /\ (InRing(c)' => InRing(c))
                                  /\ (OneInRing(c) => OneInRing(c)')
           /\ m.command_id # c => (NoUp(c) => NoUp(c)') /\ (NoRing(c) => NoRing(c)')
           /\ ~OnUp(c) /\ ~InRing(c) /\ OneUp(c) /\ OneInRing(c) =>
                OneUp(c)' /\ OneInRing(c)' /\ ~(OnUp(c)' /\ InRing(c)')
<1>1. CASE UNCHANGED <<up, ring>>
  BY <1>1, SamePlaces
<1>2. CASE up' = up /\ ring' = Kept(Append(ring, m))
  BY <1>2, SamePlaces, BufferedRing
<1>3. ASSUME NEW w \in Links, ring' = ring, up' = [up EXCEPT ![w] = Append(@, m)]
      PROVE  /\ ~IsVerdict(m, c) => /\ (OnUp(c)' => OnUp(c)) /\ (OneUp(c) => OneUp(c)')
                                    /\ (InRing(c)' => InRing(c))
                                    /\ (OneInRing(c) => OneInRing(c)')
             /\ m.command_id # c => (NoUp(c) => NoUp(c)') /\ (NoRing(c) => NoRing(c)')
             /\ ~OnUp(c) /\ ~InRing(c) /\ OneUp(c) /\ OneInRing(c) =>
                  OneUp(c)' /\ OneInRing(c)' /\ ~(OnUp(c)' /\ InRing(c)')
  BY <1>3, SamePlaces, SentUp
<1>. QED BY <1>1, <1>2, <1>3, SendKinds

(* Telemetry, an ACK, and the verdict that ends the task.                  *)
LEMMA SpeakingCustody ==
    ASSUME Known, NEW c \in Commands, NEW d \in Commands, HealthTick \/ Execute(d)
    PROVE  Custody(c)'
<1>. USE DEF Known, Typed
<1>1. UNCHANGED <<hubVars, dials, hubRestarts, down>>
  BY DEF HealthTick, Execute, Accept, Decline, Finish, counters
<1>2. OnePlace(c) /\ trail'[c] = trail[c]
  BY <1>1 DEF Custody, hubVars
<1>3. /\ Got(c, Answers)' <=> Got(c, Answers)
      /\ OnDown(c)' <=> OnDown(c)
      /\ OneDown(c) => OneDown(c)'
      /\ NoDown(c) => NoDown(c)'
  BY <1>1, <1>2, SameTrail, SamePlaces
<1>4. ASSUME NEW m \in UpMessages, Send(m), ~IsVerdict(m, c), AtTask(c)' => AtTask(c),
             Untouched(c) => task'[c] = "none" /\ m.command_id # c
      PROVE  Custody(c)'
  <2>1. /\ (OnUp(c)' => OnUp(c)) /\ (OneUp(c) => OneUp(c)')
        /\ (InRing(c)' => InRing(c)) /\ (OneInRing(c) => OneInRing(c)')
        /\ m.command_id # c => (NoUp(c) => NoUp(c)') /\ (NoRing(c) => NoRing(c)')
    BY <1>4, SendKeeps
  <2>2. OnePlace(c)'
    BY <2>1, <1>2, <1>3, <1>4, PlaceFrame
  <2>3. Untouched(c) => Untouched(c)'
    BY <2>1, <1>1, <1>3, <1>4 DEF Untouched, Flying, InFlight, hubVars
  <2>. QED BY <2>2, <2>3, <1>1, AgentFrame
<1>5. CASE HealthTick
  <2>1. /\ Message("TELEM", NoCommand) \in UpMessages
        /\ Message("TELEM", NoCommand).command_id # c
    BY Messages
  <2>2. ~IsVerdict(Message("TELEM", NoCommand), c)
    BY <2>1 DEF IsVerdict
  <2>3. Send(Message("TELEM", NoCommand)) /\ task' = task
    BY <1>5 DEF HealthTick
  <2>. QED BY <2>1, <2>2, <2>3, <1>4 DEF AtTask, Untouched
<1>6. CASE Accept(d)
  <2>1. /\ Message("ACK", d) \in UpMessages /\ Message("ACK", d).command_id = d
        /\ Message("ACK", d).t = "ACK"
    BY Messages
  <2>2. ~IsVerdict(Message("ACK", d), c)
    BY <2>1 DEF IsVerdict, Terminal
  <2>3. /\ Send(Message("ACK", d))
        /\ task[d] # "none" /\ \A e \in Commands \ {d} : task'[e] = task[e]
    BY <1>6 DEF Accept, AgentTyped
  <2>. QED BY <2>1, <2>2, <2>3, <1>4 DEF AtTask, Untouched
<1>7. CASE Decline(d) \/ Finish(d)
  <2>1. PICK t \in {"NACK", "RESULT"} : Send(Message(t, d))
    BY <1>7 DEF Decline, Finish
  <2>2. Message(t, d) \in UpMessages /\ Message(t, d).command_id = d
    BY Messages
  <2>3. task[d] # "none" /\ task' = [task EXCEPT ![d] = "none"]
    BY <1>7 DEF Decline, Finish
  <2>4. CASE c # d
    <3>1. ~IsVerdict(Message(t, d), c) /\ task'[c] = task[c]
      BY <2>2, <2>3, <2>4 DEF IsVerdict, AgentTyped
    <3>. QED BY <2>1, <2>2, <2>4, <3>1, <1>4 DEF AtTask, Untouched
  <2>5. CASE c = d
    <3>1. AtTask(c) /\ ~AtTask(c)'
      BY <2>3, <2>5 DEF AtTask, AgentTyped
    <3>2. ~OnUp(c) /\ ~InRing(c) /\ ~OnDown(c) /\ ~Got(c, Answers)
      BY <3>1, <1>2 DEF OnePlace
    <3>3. OneUp(c)' /\ OneInRing(c)' /\ ~(OnUp(c)' /\ InRing(c)')
      BY <2>1, <2>2, <3>2, <1>2, SendKeeps DEF OnePlace
    <3>4. OnePlace(c)'
      BY <3>1, <3>2, <3>3, <1>2, <1>3 DEF OnePlace
    <3>5. ~Untouched(c)
      BY <3>1 DEF AtTask, Untouched
    <3>. QED BY <3>4, <3>5, <1>1, AgentFrame
  <2>. QED BY <2>4, <2>5
<1>. QED BY <1>5, <1>6, <1>7 DEF Execute

-----------------------------------------------------------------------------
(* The steps that add evidence.                                            *)

(* One envelope more about c: what the evidence holds then. *)
LEMMA Recorded ==
    ASSUME HubTyped, NEW c \in Commands, NEW x \in Kinds, trail'[c] = trail[c] \o <<x>>
    PROVE  /\ trail'[c] # <<>>
           /\ \A some \in SUBSET Kinds : Got(c, some)' <=> Got(c, some) \/ x \in some
           /\ \A some \in SUBSET Kinds : (x \in some => ~Got(c, some))
                                            => (Once(c, some) => Once(c, some)')
<1>1. trail[c] \in Seq(Kinds)
  BY DEF HubTyped, Kinds
<1>2. /\ trail'[c] \in Seq(Kinds)
      /\ Len(trail'[c]) = Len(trail[c]) + 1 /\ Len(trail[c]) \in Nat
      /\ \A i \in 1..Len(trail[c]) : trail'[c][i] = trail[c][i]
      /\ trail'[c][Len(trail[c]) + 1] = x
  BY <1>1, OneMore
<1>3. /\ \A i \in DOMAIN trail[c] : i \in DOMAIN trail'[c] /\ trail'[c][i] = trail[c][i]
      /\ \A i \in DOMAIN trail'[c] : \/ i \in DOMAIN trail[c]
                                     \/ i = Len(trail[c]) + 1
      /\ Len(trail[c]) + 1 \in DOMAIN trail'[c]
  BY <1>1, <1>2
<1>4. ASSUME NEW some \in SUBSET Kinds
      PROVE  Got(c, some)' <=> Got(c, some) \/ x \in some
  BY <1>2, <1>3 DEF Got
<1>5. ASSUME NEW some \in SUBSET Kinds, x \in some => ~Got(c, some), Once(c, some),
             NEW i \in DOMAIN trail'[c], NEW j \in DOMAIN trail'[c],
             trail'[c][i] \in some, trail'[c][j] \in some
      PROVE  i = j
  <2>1. CASE x \in some
    <3>1. i \notin DOMAIN trail[c] /\ j \notin DOMAIN trail[c]
      BY <1>3, <1>5, <2>1 DEF Got
    <3>. QED BY <1>3, <3>1
  <2>2. CASE x \notin some
    <3>1. i \in DOMAIN trail[c] /\ j \in DOMAIN trail[c]
      BY <1>2, <1>3, <1>5, <2>2
    <3>. QED BY <1>3, <1>5, <3>1 DEF Once
  <2>. QED BY <2>1, <2>2
<1>6. trail'[c] # <<>>
  BY <1>2
<1>7. \A some \in SUBSET Kinds : (x \in some => ~Got(c, some)) => (Once(c, some) => Once(c, some)')
  BY <1>5 DEF Once
<1>. QED BY <1>4, <1>6, <1>7

(* What _handle adds for a message of the agent. *)
LEMMA Answered ==
    ASSUME HubTyped, NEW c \in Commands, NEW t \in {"ACK", "NACK", "RESULT"},
           trail'[c] = trail[c] \o Evidence(t)
    PROVE  /\ trail'[c] # <<>>
           /\ \A some \in {{"undelivered"}, {"lost"}} :
                /\ Got(c, some)' <=> Got(c, some)
                /\ Once(c, some) => Once(c, some)'
           /\ t \notin Terminal => /\ Got(c, Answers)' <=> Got(c, Answers)
                                   /\ Once(c, Answers) => Once(c, Answers)'
           /\ t \in Terminal => /\ Got(c, Answers)'
                                /\ ~Got(c, Answers) => Once(c, Answers)'
<1>0. trail[c] \in Seq(Kinds)
  BY DEF HubTyped, Kinds
<1>1. /\ trail'[c] \in Seq(Kinds) /\ trail'[c] # <<>>
      /\ Len(trail[c]) \in Nat /\ Len(trail'[c]) \in Nat /\ Len(trail[c]) < Len(trail'[c])
      /\ \A i \in 1..Len(trail[c]) : trail'[c][i] = trail[c][i]
      /\ t \notin Terminal =>
            \A i \in Len(trail[c])+1..Len(trail'[c]) : trail'[c][i] \notin Results
      /\ t \in Terminal =>
            /\ \A i \in Len(trail[c])+1..Len(trail'[c]) - 1 : trail'[c][i] \notin Results
            /\ trail'[c][Len(trail'[c])] \in Answers
  <2>. DEFINE e == trail[c] \o Evidence(t)
  <2>1. /\ e \in Seq(Kinds) /\ e # <<>>
        /\ Len(trail[c]) \in Nat /\ Len(e) \in Nat /\ Len(trail[c]) < Len(e)
        /\ \A i \in 1..Len(trail[c]) : e[i] = trail[c][i]
        /\ t \notin Terminal => \A i \in Len(trail[c])+1..Len(e) : e[i] \notin Results
        /\ t \in Terminal =>
              /\ \A i \in Len(trail[c])+1..Len(e) - 1 : e[i] \notin Results
              /\ e[Len(e)] \in Answers
    BY <1>0, EvidenceOf
  <2>2. trail'[c] = e
    OBVIOUS
  <2>. HIDE DEF e
  <2>. QED BY <2>1, <2>2
<1>2. /\ \A i \in DOMAIN trail[c] : i \in DOMAIN trail'[c] /\ trail'[c][i] = trail[c][i]
      /\ \A i \in DOMAIN trail'[c] :
            \/ i \in DOMAIN trail[c]
            \/ trail'[c][i] \notin Results
            \/ t \in Terminal /\ i = Len(trail'[c]) /\ trail'[c][i] \in Answers
      /\ Len(trail'[c]) \in DOMAIN trail'[c]
      /\ Len(trail'[c]) \notin DOMAIN trail[c]
  <2>1. DOMAIN trail[c] = 1..Len(trail[c]) /\ DOMAIN trail'[c] = 1..Len(trail'[c])
    BY <1>0, <1>1
  <2>2. ASSUME NEW i \in DOMAIN trail'[c], i \notin DOMAIN trail[c]
        PROVE  \/ trail'[c][i] \notin Results
               \/ t \in Terminal /\ i = Len(trail'[c]) /\ trail'[c][i] \in Answers
    <3>1. i \in Len(trail[c])+1..Len(trail'[c])
      BY <1>1, <2>1, <2>2
    <3>2. CASE t \notin Terminal
      BY <1>1, <3>1, <3>2
    <3>3. CASE t \in Terminal
      <4>1. i = Len(trail'[c]) \/ i \in Len(trail[c])+1..Len(trail'[c]) - 1
        BY <1>1, <3>1
      <4>. QED BY <1>1, <3>3, <4>1
    <3>. QED BY <3>2, <3>3
  <2>. QED BY <1>1, <2>1, <2>2
<1>3. /\ Answers \subseteq Results /\ "undelivered" \in Results /\ "lost" \in Results
      /\ "undelivered" \notin Answers /\ "lost" \notin Answers
  BY DEF Answers, Results
<1>4. ASSUME NEW some \in {{"undelivered"}, {"lost"}, Answers},
             some = Answers => t \notin Terminal
      PROVE  (Got(c, some)' <=> Got(c, some)) /\ (Once(c, some) => Once(c, some)')
  <2>1. \A i \in DOMAIN trail'[c] : trail'[c][i] \in some => i \in DOMAIN trail[c]
    BY <1>2, <1>3, <1>4
  <2>. QED BY <1>2, <2>1 DEF Got, Once
<1>5. ASSUME t \in Terminal PROVE Got(c, Answers)' /\ (~Got(c, Answers) => Once(c, Answers)')
  <2>1. Got(c, Answers)'
    BY <1>1, <1>2, <1>5 DEF Got
  <2>2. ASSUME ~Got(c, Answers), NEW i \in DOMAIN trail'[c], trail'[c][i] \in Answers
        PROVE  i = Len(trail'[c])
    BY <1>2, <1>3, <2>2 DEF Got
  <2>. QED BY <2>1, <2>2 DEF Once
<1>6. \A some \in {{"undelivered"}, {"lost"}} :
            (Got(c, some)' <=> Got(c, some)) /\ (Once(c, some) => Once(c, some)')
  <2>1. "rejected" \in Answers /\ "rejected" \notin {"undelivered"} /\ "rejected" \notin {"lost"}
    BY DEF Answers
  <2>. QED BY <1>4, <2>1
<1>. QED BY <1>1, <1>4, <1>5, <1>6

(* What the evidence holds, by kind of result. *)
LEMMA GotParts ==
    ASSUME NEW c \in Commands
    PROVE  /\ Got(c, Results) <=> Got(c, {"undelivered"}) \/ Got(c, {"lost"}) \/ Got(c, Answers)
           /\ Got(c, {"lost"} \union Answers) <=> Got(c, {"lost"}) \/ Got(c, Answers)
  BY DEF Got, Results, Answers

LEMMA GotPartsNext ==
    ASSUME NEW c \in Commands
    PROVE  /\ Got(c, Results)'
                <=> Got(c, {"undelivered"})' \/ Got(c, {"lost"})' \/ Got(c, Answers)'
           /\ Got(c, {"lost"} \union Answers)' <=> Got(c, {"lost"})' \/ Got(c, Answers)'
  BY DEF Got, Results, Answers

(* A command the step is not about. *)
LEMMA Bystander ==
    ASSUME HubTyped, Counted, NEW c \in Commands, Custody(c),
           trail'[c] = trail[c], gate'[c] = gate[c],
           \A k \in Links : InFlight(c, k)' <=> InFlight(c, k),
           UNCHANGED <<dials, hubRestarts>>,
           1 \in Links /\ sess[1] = "closed" => sess'[1] = "closed",
           OnePlace(c)', Untouched(c) => Untouched(c)'
    PROVE  Custody(c)'
<1>1. Gate(c)'
  BY GateFrame DEF Custody
<1>2. dials # 0 => 1 \in Links
  BY CommandAssumption DEF Counted, Links
<1>3. Waiting(c)'
  <2>1. \A some : Got(c, some)' <=> Got(c, some)
    BY SameTrail
  <2>2. Flying(c)' <=> Flying(c)
    BY DEF Flying
  <2>. QED BY <1>2, <2>1, <2>2 DEF Waiting, Custody
<1>. QED BY <1>1, <1>3, SameTrail DEF Custody

(* The steps of the submitting thread that store an envelope.              *)
LEMMA StoringCustody ==
    ASSUME Known, NEW c \in Commands, NEW d \in Commands, Admit(d) \/ Undelivered(d)
    PROVE  Custody(c)'
<1>. USE DEF Known, Typed
<1>1. UNCHANGED <<up, down, ring, task, inflight, sess, dials, hubRestarts>>
  BY DEF Admit, Undelivered, linkVars, agentVars, counters
<1>2. /\ OnUp(c)' <=> OnUp(c)
      /\ OnDown(c)' <=> OnDown(c)
      /\ InRing(c)' <=> InRing(c)
      /\ (OneUp(c) => OneUp(c)') /\ (OneDown(c) => OneDown(c)')
      /\ (OneInRing(c) => OneInRing(c)')
      /\ (NoUp(c) => NoUp(c)') /\ (NoDown(c) => NoDown(c)') /\ (NoRing(c) => NoRing(c)')
      /\ AtTask(c)' <=> AtTask(c)
  <2>1. AtTask(c)' <=> AtTask(c)
    BY <1>1 DEF AtTask
  <2>. QED BY <1>1, <2>1, SamePlaces
<1>3. /\ \A k \in Links : InFlight(c, k)' <=> InFlight(c, k)
      /\ Flying(c)' <=> Flying(c)
  BY <1>1 DEF InFlight, Flying
<1>4. Untouched(c) => Untouched(c)'
  BY <1>1, <1>2, <1>3 DEF Untouched
<1>5. Gate(c) /\ Waiting(c) /\ Verdicts(c) /\ OnePlace(c)
  BY DEF Custody
<1>6. CASE c # d
  <2>1. trail'[c] = trail[c] /\ gate'[c] = gate[c]
    BY <1>6 DEF Admit, Undelivered, Record, HubTyped
  <2>2. Got(c, Answers)' <=> Got(c, Answers)
    BY <2>1, SameTrail
  <2>3. OnePlace(c)'
    BY <1>2, <1>5, <2>2, PlaceFrame
  <2>. QED BY <1>1, <1>3, <1>4, <2>1, <2>3, Bystander
<1>7. CASE c = d /\ Admit(d)
  <2>1. /\ gate[c] = "new" /\ gate'[c] = "stored"
        /\ trail'[c] = trail[c] \o <<"command">>
    BY <1>7 DEF Admit, Record, HubTyped
  <2>2. \A some : ~Got(c, some)
    <3>1. DOMAIN trail[c] = {}
      BY <1>5, <2>1 DEF Gate
    <3>. QED BY <3>1 DEF Got
  <2>3. /\ "command" \in Kinds
        /\ "command" \notin {"undelivered"} /\ "command" \notin {"lost"} /\ "command" \notin Answers
        /\ {"undelivered"} \in SUBSET Kinds /\ {"lost"} \in SUBSET Kinds /\ Answers \in SUBSET Kinds
    BY DEF Kinds, Answers
  <2>4. /\ trail'[c] # <<>>
        /\ ~Got(c, {"undelivered"})' /\ ~Got(c, {"lost"})' /\ ~Got(c, Answers)'
        /\ Verdicts(c)'
    BY <1>5, <2>1, <2>2, <2>3, Recorded DEF Verdicts
  <2>5. ~Got(c, Results)' /\ ~Got(c, {"lost"} \union Answers)'
    BY <2>4, GotPartsNext
  <2>6. Untouched(c)
    BY <1>5, <2>1 DEF Gate
  <2>7. Gate(c)'
    BY <1>4, <2>1, <2>4, <2>5, <2>6 DEF Gate
  <2>8. Waiting(c)'
    BY <1>3, <1>5, <2>1, <2>4, <2>5 DEF Waiting
  <2>9. OnePlace(c)'
    BY <1>2, <1>5, <2>4, PlaceFrame
  <2>. QED BY <2>4, <2>7, <2>8, <2>9 DEF Custody
<1>8. CASE c = d /\ Undelivered(d)
  <2>1. /\ gate[c] = "undelivered" /\ gate'[c] = "done"
        /\ trail'[c] = trail[c] \o <<"undelivered">>
    BY <1>8 DEF Undelivered, Record, HubTyped
  <2>2. Untouched(c) /\ ~Got(c, {"undelivered"}) /\ ~Got(c, {"lost"}) /\ ~Got(c, Answers)
    BY <1>5, <2>1, GotParts DEF Gate
  <2>3. /\ "undelivered" \in Kinds
        /\ "undelivered" \notin {"lost"} /\ "undelivered" \notin Answers
        /\ {"undelivered"} \in SUBSET Kinds /\ {"lost"} \in SUBSET Kinds /\ Answers \in SUBSET Kinds
    BY DEF Kinds, Answers
  <2>4. /\ trail'[c] # <<>>
        /\ Got(c, {"undelivered"})' /\ ~Got(c, {"lost"})' /\ ~Got(c, Answers)'
        /\ Verdicts(c)'
    BY <1>5, <2>1, <2>2, <2>3, Recorded DEF Verdicts
  <2>5. ~Got(c, {"lost"} \union Answers)'
    BY <2>4, GotPartsNext
  <2>6. Gate(c)'
    BY <1>4, <2>1, <2>2, <2>4, <2>5 DEF Gate
  <2>7. Waiting(c)'
    BY <1>3, <1>5, <2>1, <2>4 DEF Waiting
  <2>8. OnePlace(c)'
    BY <1>2, <1>5, <2>4, PlaceFrame
  <2>. QED BY <2>4, <2>6, <2>7, <2>8 DEF Custody
<1>. QED BY <1>6, <1>7, <1>8

(* Dispatch puts the command on the wire or leaves it undelivered. *)
LEMMA DispatchCustody ==
    ASSUME Known, NEW c \in Commands, NEW d \in Commands, Dispatch(d)
    PROVE  Custody(c)'
<1>. USE DEF Known, Typed
<1>1. UNCHANGED <<trail, sess, current, up, ring, task, dials, hubRestarts>>
  BY DEF Dispatch, agentVars, counters
<1>2. Gate(c) /\ Waiting(c) /\ Verdicts(c) /\ OnePlace(c)
  BY DEF Custody
<1>3. /\ \A some : Got(c, some)' <=> Got(c, some)
      /\ Verdicts(c)'
      /\ OnUp(c)' <=> OnUp(c)
      /\ InRing(c)' <=> InRing(c)
      /\ (OneUp(c) => OneUp(c)') /\ (OneInRing(c) => OneInRing(c)')
      /\ (NoUp(c) => NoUp(c)') /\ (NoRing(c) => NoRing(c)')
      /\ AtTask(c)' <=> AtTask(c)
  <2>1. AtTask(c)' <=> AtTask(c)
    BY <1>1 DEF AtTask
  <2>. QED BY <1>1, <1>2, <2>1, SameTrail, SamePlaces
<1>4. /\ current # 0 => current \in Links
      /\ gate[d] = "stored"
  BY CommandAssumption DEF HubTyped, Links, Dispatch
<1>5. \/ down' = down
      \/ current # 0 /\ down' = [down EXCEPT ![current] = Append(@, Message("CMD", d))]
  BY DEF Dispatch
<1>6. Message("CMD", d) \in DownMessages /\ Message("CMD", d).command_id = d
  BY Messages
<1>7. CASE c # d
  <2>1. gate'[c] = gate[c] /\ trail'[c] = trail[c]
    BY <1>1, <1>7 DEF Dispatch, HubTyped
  <2>2. \A k \in Links : InFlight(c, k)' <=> InFlight(c, k)
    <3>1. \A k \in Links :
            inflight'[k] \in {inflight[k], inflight[k] \union {d}, inflight[k] \ {d}}
      BY <1>4 DEF Dispatch, NotInFlight, HubTyped
    <3>. QED BY <3>1, <1>7 DEF InFlight
  <2>3. /\ OnDown(c)' => OnDown(c)
        /\ OneDown(c) => OneDown(c)'
        /\ NoDown(c) => NoDown(c)'
    BY <1>4, <1>5, <1>6, <1>7, SamePlaces, SentDown
  <2>4. OnePlace(c)'
    BY <1>2, <1>3, <2>3, PlaceFrame
  <2>5. Flying(c)' <=> Flying(c)
    BY <2>2 DEF Flying
  <2>6. Untouched(c) => Untouched(c)'
    BY <1>1, <1>3, <2>3, <2>5 DEF Untouched
  <2>. QED BY <1>1, <2>1, <2>2, <2>4, <2>6, Bystander
<1>8. CASE c = d
  <2>1. /\ Untouched(c) /\ trail[c] # <<>>
        /\ ~Got(c, Results) /\ ~Got(c, {"undelivered"}) /\ ~Got(c, {"lost"}) /\ ~Got(c, Answers)
    BY <1>2, <1>4, <1>8, GotParts DEF Gate
  <2>2. ~OnUp(c) /\ ~OnDown(c) /\ ~InRing(c) /\ ~AtTask(c) /\ ~Flying(c)
        /\ NoUp(c) /\ NoDown(c) /\ NoRing(c)
    BY <2>1, Nowhere DEF Untouched, AtTask
  <2>3. \A k \in Links : ~InFlight(c, k)
    BY <2>2 DEF Flying
  <2>4. OneDown(c)'
    BY <1>2, <1>4, <1>5, <1>6, <1>8, <2>2, SamePlaces, SentDown DEF OnePlace
  <2>5. OnePlace(c)'
    BY <1>2, <1>3, <2>1, <2>2, <2>4 DEF OnePlace
  <2>6. CASE /\ current # 0 /\ gate'[c] = "sent"
             /\ inflight' = [inflight EXCEPT ![current] = @ \union {c}]
    <3>1. \A k \in Links : InFlight(c, k)' <=> k = current
      BY <1>4, <2>3, <2>6 DEF InFlight, HubTyped
    <3>2. Flying(c)'
      BY <1>4, <2>6, <3>1 DEF Flying
    <3>3. Gate(c)'
      BY <1>1, <1>3, <2>1, <2>6 DEF Gate
    <3>4. Waiting(c)'
      BY <1>3, <2>1, <3>1, <3>2 DEF Waiting
    <3>. QED BY <1>3, <2>5, <3>3, <3>4 DEF Custody
  <2>7. CASE /\ gate'[c] = "undelivered" /\ down' = down
             /\ \A k \in Links : ~InFlight(c, k)'
    <3>1. ~Flying(c)' /\ NoDown(c)'
      BY <2>2, <2>7, SamePlaces DEF Flying
    <3>2. Untouched(c)'
      BY <1>1, <1>3, <2>1, <2>2, <3>1 DEF Untouched
    <3>3. Gate(c)'
      BY <1>1, <1>3, <2>1, <2>7, <3>2 DEF Gate
    <3>4. Waiting(c)'
      BY <1>3, <2>1, <2>7 DEF Waiting
    <3>. QED BY <1>3, <2>5, <3>3, <3>4 DEF Custody
  <2>8. \/ /\ current # 0 /\ gate'[c] = "sent"
           /\ inflight' = [inflight EXCEPT ![current] = @ \union {c}]
        \/ /\ gate'[c] = "undelivered" /\ down' = down
           /\ \A k \in Links : ~InFlight(c, k)'
    <3>1. \/ gate' = [gate EXCEPT ![c] = "undelivered"] /\ UNCHANGED <<inflight, down>>
          \/ /\ current # 0 /\ gate' = [gate EXCEPT ![c] = "sent"]
             /\ inflight' = [inflight EXCEPT ![current] = @ \union {c}]
          \/ /\ gate' = [gate EXCEPT ![c] = "undelivered"] /\ down' = down
             /\ current # 0
             /\ inflight' = [inflight EXCEPT ![current] = NotInFlight(current, c)]
      BY <1>8 DEF Dispatch
    <3>2. gate'[c] = "sent" \/ gate'[c] = "undelivered"
      BY <3>1 DEF HubTyped
    <3>3. CASE UNCHANGED <<inflight, down>> /\ gate' = [gate EXCEPT ![c] = "undelivered"]
      BY <2>3, <3>3 DEF InFlight, HubTyped
    <3>4. CASE /\ gate' = [gate EXCEPT ![c] = "undelivered"] /\ down' = down
               /\ current # 0
               /\ inflight' = [inflight EXCEPT ![current] = NotInFlight(current, c)]
      BY <1>4, <2>3, <3>4 DEF InFlight, HubTyped, NotInFlight
    <3>5. CASE /\ current # 0 /\ gate' = [gate EXCEPT ![c] = "sent"]
               /\ inflight' = [inflight EXCEPT ![current] = @ \union {c}]
      BY <3>5 DEF HubTyped
    <3>. QED BY <3>1, <3>3, <3>4, <3>5
  <2>. QED BY <2>6, <2>7, <2>8
<1>. QED BY <1>7, <1>8

(* A message of the agent is handled: its head leaves the link, and a      *)
(* verdict takes the command out of the session's memory.                  *)
LEMMA HandledCustody ==
    ASSUME Known, LinkTyped', NEW c \in Commands, NEW k \in Links, HubReads(k)
    PROVE  Custody(c)'
<1>. USE DEF Known, Typed
<1>. DEFINE m == Head(up[k])
<1>1. /\ UNCHANGED <<gate, sess, down, ring, task, dials, hubRestarts>>
      /\ sess[k] = "operational" /\ up[k] # <<>>
      /\ up' = [up EXCEPT ![k] = Tail(@)]
  BY DEF HubReads, agentVars, counters
<1>2. FewerUp
  BY HubTakes
<1>3. m \in UpMessages /\ Spoken(m)
  BY <1>1, HeadSpoken
<1>4. Gate(c) /\ Waiting(c) /\ Verdicts(c) /\ OnePlace(c)
  BY DEF Custody
<1>5. /\ OnUp(c)' => OnUp(c)
      /\ OnDown(c)' <=> OnDown(c)
      /\ InRing(c)' <=> InRing(c)
      /\ (OneUp(c) => OneUp(c)') /\ (OneDown(c) => OneDown(c)')
      /\ (OneInRing(c) => OneInRing(c)')
      /\ (NoUp(c) => NoUp(c)') /\ (NoDown(c) => NoDown(c)') /\ (NoRing(c) => NoRing(c)')
      /\ AtTask(c)' <=> AtTask(c)
  <2>1. AtTask(c)' <=> AtTask(c)
    BY <1>1 DEF AtTask
  <2>. QED BY <1>1, <1>2, <2>1, SamePlaces, FewerUpKeeps
<1>6. CASE m.command_id # c
  <2>1. trail'[c] = trail[c]
    BY <1>6 DEF HubReads, Record, HubTyped
  <2>2. \A l \in Links : InFlight(c, l)' <=> InFlight(c, l)
    <3>1. \A l \in Links : inflight'[l] \in {inflight[l], inflight[l] \ {m.command_id}}
      BY DEF HubReads, HubTyped
    <3>. QED BY <3>1, <1>6 DEF InFlight
  <2>3. Got(c, Answers)' <=> Got(c, Answers)
    BY <2>1, SameTrail
  <2>4. OnePlace(c)'
    BY <1>4, <1>5, <2>3, PlaceFrame
  <2>5. Flying(c)' <=> Flying(c)
    BY <2>2 DEF Flying
  <2>6. Untouched(c) => Untouched(c)'
    BY <1>1, <1>5, <2>5 DEF Untouched
  <2>. QED BY <1>1, <2>1, <2>2, <2>4, <2>6, Bystander
<1>7. CASE m.command_id = c
  <2>1. up[k] \in Seq(UpMessages)
    BY DEF LinkTyped
  <2>2. /\ 1 \in DOMAIN up[k] /\ up[k][1] = m
        /\ \A i \in DOMAIN Tail(up[k]) : /\ i + 1 \in DOMAIN up[k] /\ i + 1 # 1
                                         /\ Tail(up[k])[i] = up[k][i + 1]
    BY <1>1, <2>1, Rest
  <2>3. /\ ~Untouched(c)
        /\ gate[c] = "sent" /\ trail[c] # <<>>
    BY <1>4, <1>7, <2>2 DEF Gate, Untouched, NoUp
  <2>4. m.t \in {"ACK", "NACK", "RESULT"}
    BY <1>3, <1>7 DEF Spoken
  <2>5. trail'[c] = trail[c] \o Evidence(m.t)
    BY <1>7 DEF HubReads, Record, HubTyped
  <2>6. /\ trail'[c] # <<>>
        /\ Got(c, {"undelivered"})' <=> Got(c, {"undelivered"})
        /\ Got(c, {"lost"})' <=> Got(c, {"lost"})
        /\ Once(c, {"undelivered"}) => Once(c, {"undelivered"})'
        /\ Once(c, {"lost"}) => Once(c, {"lost"})'
        /\ m.t \notin Terminal => /\ Got(c, Answers)' <=> Got(c, Answers)
                                  /\ Once(c, Answers) => Once(c, Answers)'
        /\ m.t \in Terminal => /\ Got(c, Answers)'
                               /\ ~Got(c, Answers) => Once(c, Answers)'
    BY <2>4, <2>5, Answered
  <2>7. Gate(c)'
    BY <1>1, <1>4, <2>3, <2>6 DEF Gate
  <2>8. CASE m.t \notin Terminal
    <3>1. inflight' = inflight
      BY <1>7, <2>8 DEF HubReads
    <3>2. /\ \A l \in Links : InFlight(c, l)' <=> InFlight(c, l)
          /\ Flying(c)' <=> Flying(c)
      BY <3>1 DEF InFlight, Flying
    <3>3. Got(c, Results)' <=> Got(c, Results)
      BY <2>6, <2>8, GotParts, GotPartsNext
    <3>4. Waiting(c)'
      BY <1>1, <1>4, <2>6, <2>8, <3>2, <3>3 DEF Waiting
    <3>5. OnePlace(c)'
      BY <1>4, <1>5, <2>6, <2>8, PlaceFrame
    <3>6. Verdicts(c)'
      BY <1>4, <2>6, <2>8 DEF Verdicts
    <3>. QED BY <2>7, <3>4, <3>5, <3>6 DEF Custody
  <2>9. CASE m.t \in Terminal
    <3>1. UpHas(c, k, 1) /\ OnUp(c)
      BY <1>7, <2>2, <2>9 DEF UpHas, IsVerdict, OnUp
    <3>2. ~OnDown(c) /\ ~AtTask(c) /\ ~InRing(c) /\ ~Got(c, Answers)
          /\ OneUp(c) /\ OneDown(c) /\ OneInRing(c)
      BY <1>4, <3>1 DEF OnePlace
    <3>3. up'[k] = Tail(up[k]) /\ \A l \in Links \ {k} : up'[l] = up[l]
      BY <1>1 DEF LinkTyped
    <3>4. ASSUME NEW l \in Links, NEW i \in DOMAIN up'[l], UpHas(c, l, i)' PROVE FALSE
      <4>1. CASE l = k
        <5>1. UpHas(c, k, i + 1) /\ i + 1 \in DOMAIN up[k] /\ i + 1 # 1
          BY <2>2, <3>3, <3>4, <4>1 DEF UpHas, IsVerdict
        <5>2. i + 1 = 1
          BY <5>1, <2>2, <3>1, <3>2 DEF OneUp
        <5>. QED BY <5>1, <5>2
      <4>2. CASE l # k
        <5>1. UpHas(c, l, i) /\ i \in DOMAIN up[l]
          BY <3>3, <3>4, <4>2 DEF UpHas, IsVerdict
        <5>. QED BY <5>1, <2>2, <3>1, <3>2, <4>2 DEF OneUp
      <4>. QED BY <4>1, <4>2
    <3>5. ~OnUp(c)'
      BY <3>4 DEF OnUp
    <3>6. OnePlace(c)'
      BY <1>5, <3>2, <3>5 DEF OnePlace
    <3>7. Verdicts(c)'
      BY <1>4, <2>6, <2>9, <3>2 DEF Verdicts
    <3>8. inflight' = [inflight EXCEPT ![k] = @ \ {c}]
      BY <1>7, <2>9 DEF HubReads
    <3>9. \A l \in Links : InFlight(c, l)' <=> InFlight(c, l) /\ l # k
      BY <3>8 DEF InFlight, HubTyped
    <3>10. Flying(c)' => Flying(c)
      BY <3>9 DEF Flying
    <3>11. Got(c, Results)'
      BY <2>6, <2>9, GotPartsNext
    <3>12. dials <= 1 => ~Flying(c)'
      <4>1. ASSUME dials <= 1, NEW l \in Links, InFlight(c, l) PROVE l = k
        <5>1. sess[l] = "operational"
          BY <4>1 DEF InFlight, Sessions
        <5>2. ~(l > dials) /\ ~(k > dials)
          BY <5>1, <1>1 DEF Sessions
        <5>. QED BY <5>2, <4>1 DEF Counted, Links
      <4>. QED BY <4>1, <3>9 DEF Flying
    <3>13. Got(c, {"lost"}) => dials > 1
      <4>1. ~(k > dials) /\ dials \in Nat /\ k \in Nat /\ k # 0
        BY <1>1 DEF Sessions, Counted, Links
      <4>2. dials = 1 => k = 1
        BY <4>1
      <4>. QED BY <1>1, <1>4, <4>1, <4>2 DEF Waiting
    <3>14. Waiting(c)'
      BY <1>1, <1>4, <2>6, <3>9, <3>10, <3>11, <3>12, <3>13 DEF Waiting
    <3>. QED BY <2>7, <3>6, <3>7, <3>14 DEF Custody
  <2>. QED BY <2>8, <2>9
<1>. QED BY <1>6, <1>7

(* A served session ends: each command in flight on it is given up once.   *)
LEMMA NoticedCustody ==
    ASSUME Known, NEW c \in Commands, NEW k \in Links, HubNotices(k)
    PROVE  Custody(c)'
<1>. USE DEF Known, Typed
<1>1. /\ UNCHANGED <<gate, up, down, ring, task, dials, hubRestarts>>
      /\ sess[k] # "none" /\ sess' = [sess EXCEPT ![k] = "closed"]
  BY DEF HubNotices, linkVars, agentVars, counters
<1>2. /\ OnUp(c)' <=> OnUp(c)
      /\ OnDown(c)' <=> OnDown(c)
      /\ InRing(c)' <=> InRing(c)
      /\ (OneUp(c) => OneUp(c)') /\ (OneDown(c) => OneDown(c)')
      /\ (OneInRing(c) => OneInRing(c)')
      /\ (NoUp(c) => NoUp(c)') /\ (NoDown(c) => NoDown(c)') /\ (NoRing(c) => NoRing(c)')
      /\ AtTask(c)' <=> AtTask(c)
  <2>1. AtTask(c)' <=> AtTask(c)
    BY <1>1 DEF AtTask
  <2>. QED BY <1>1, <2>1, SamePlaces
<1>3. Gate(c) /\ Waiting(c) /\ Verdicts(c) /\ OnePlace(c)
  BY DEF Custody
<1>4. \A l \in Links : sess[l] = "closed" => sess'[l] = "closed"
  BY <1>1 DEF HubTyped
<1>5. CASE ~(sess[k] = "operational" /\ InFlight(c, k))
  <2>1. trail'[c] = trail[c]
    BY <1>5 DEF HubNotices, GivenUp, InFlight, HubTyped
  <2>2. \A l \in Links : InFlight(c, l)' <=> InFlight(c, l)
    <3>1. \A l \in Links : inflight'[l] = inflight[l] \/ (l = k /\ sess[k] = "operational"
                                                           /\ inflight'[l] = {})
      BY DEF HubNotices, HubTyped
    <3>. QED BY <3>1, <1>5 DEF InFlight
  <2>3. Flying(c)' <=> Flying(c)
    BY <2>2 DEF Flying
  <2>4. Got(c, Answers)' <=> Got(c, Answers)
    BY <2>1, SameTrail
  <2>5. OnePlace(c)'
    BY <1>2, <1>3, <2>4, PlaceFrame
  <2>6. Untouched(c) => Untouched(c)'
    BY <1>1, <1>2, <2>3 DEF Untouched
  <2>. QED BY <1>1, <1>4, <2>1, <2>2, <2>5, <2>6, Bystander
<1>6. CASE sess[k] = "operational" /\ InFlight(c, k)
  <2>1. /\ inflight' = [inflight EXCEPT ![k] = {}]
        /\ trail'[c] = trail[c] \o <<"lost">>
    <3>1. trail'[c] = Append(trail[c], "lost")
      BY <1>6 DEF HubNotices, GivenUp, InFlight, HubTyped
    <3>2. trail[c] \in Seq(Kinds)
      BY DEF HubTyped, Kinds
    <3>3. Append(trail[c], "lost") = trail[c] \o <<"lost">>
      BY <3>2
    <3>. QED BY <3>1, <3>3, <1>6 DEF HubNotices
  <2>2. Flying(c)
    BY <1>6 DEF Flying
  <2>3. ~Untouched(c) /\ ~Got(c, {"lost"})
    BY <1>3, <2>2 DEF Untouched, Waiting
  <2>4. gate[c] = "sent" /\ ~Got(c, {"undelivered"})
    BY <1>3, <2>3 DEF Gate
  <2>5. /\ "lost" \in Kinds
        /\ "lost" \notin {"undelivered"} /\ "lost" \notin Answers
        /\ {"undelivered"} \in SUBSET Kinds /\ {"lost"} \in SUBSET Kinds /\ Answers \in SUBSET Kinds
    BY DEF Kinds, Answers
  <2>6. /\ trail'[c] # <<>>
        /\ Got(c, {"lost"})' /\ ~Got(c, {"undelivered"})'
        /\ Got(c, Answers)' <=> Got(c, Answers)
    BY <2>1, <2>4, <2>5, Recorded
  <2>7. Verdicts(c)'
    BY <1>3, <2>1, <2>3, <2>5, Recorded DEF Verdicts
  <2>8. Got(c, Results)'
    BY <2>6, GotPartsNext
  <2>9. Gate(c)'
    BY <1>1, <1>3, <2>3, <2>4, <2>6 DEF Gate
  <2>10. \A l \in Links : ~InFlight(c, l)'
    BY <1>3, <1>6, <2>1 DEF Waiting, InFlight, HubTyped
  <2>11. ~Flying(c)'
    BY <2>10 DEF Flying
  <2>12. dials # 0 /\ (dials = 1 => k = 1)
    <3>1. ~(k > dials)
      BY <1>1 DEF Sessions
    <3>. QED BY <3>1 DEF Counted, Links
  <2>13. dials = 1 => sess'[1] = "closed"
    BY <1>1, <2>12 DEF HubTyped
  <2>14. Got(c, Answers) => dials > 1
    BY <1>3, <2>2 DEF Waiting, Counted
  <2>15. Waiting(c)'
    BY <1>1, <2>6, <2>8, <2>10, <2>11, <2>12, <2>13, <2>14 DEF Waiting
  <2>16. OnePlace(c)'
    BY <1>2, <1>3, <2>6, PlaceFrame
  <2>. QED BY <2>7, <2>9, <2>15, <2>16 DEF Custody
<1>. QED BY <1>5, <1>6

-----------------------------------------------------------------------------
LEMMA InitInv == Init => Inv
<1>. SUFFICES ASSUME Init PROVE Inv
  OBVIOUS
<1>. USE DEF Init
<1>1. TypeOK
  <2>1. HubTyped
    BY CommandAssumption DEF HubTyped
  <2>2. LinkTyped
    BY DEF LinkTyped
  <2>3. AgentTyped
    BY CommandAssumption DEF AgentTyped
  <2>4. Counted /\ Alive
    BY CommandAssumption DEF Counted, Alive
  <2>. QED BY <2>1, <2>2, <2>3, <2>4, TypeParts
<1>2. /\ \A k \in Links : DOMAIN up[k] = {} /\ DOMAIN down[k] = {}
      /\ DOMAIN ring = {}
      /\ \A c \in Commands : DOMAIN trail[c] = {}
  OBVIOUS
<1>3. Talk
  BY <1>2 DEF Talk
<1>4. Sessions
  BY <1>2 DEF Sessions, Connected
<1>5. OneTimelineAtATime
  BY DEF OneTimelineAtATime
<1>6. ASSUME NEW c \in Commands PROVE Custody(c)
  <2>1. /\ NoUp(c) /\ NoDown(c) /\ NoRing(c)
        /\ OneUp(c) /\ OneDown(c) /\ OneInRing(c)
    BY <1>2 DEF NoUp, NoDown, NoRing, OneUp, OneDown, OneInRing
  <2>2. /\ \A k \in Links : ~InFlight(c, k)
        /\ ~Flying(c)
        /\ ~AtTask(c)
    BY DEF InFlight, Flying, AtTask
  <2>3. /\ \A some : ~Got(c, some)
        /\ Verdicts(c)
    BY <1>2 DEF Got, Verdicts, Once
  <2>4. Untouched(c)
    BY <2>1, <2>2 DEF Untouched
  <2>5. Gate(c)
    BY <2>3, <2>4 DEF Gate
  <2>6. Waiting(c)
    BY <2>2, <2>3 DEF Waiting
  <2>7. OnePlace(c)
    BY <2>1, <2>2, <2>3, Nowhere DEF OnePlace
  <2>. QED BY <2>3, <2>5, <2>6, <2>7 DEF Custody
<1>. QED BY <1>1, <1>3, <1>4, <1>5, <1>6 DEF Inv

LEMMA InvStep == Inv /\ [Next]_vars => Inv'
<1>. SUFFICES ASSUME Inv, [Next]_vars PROVE Inv'
  OBVIOUS
<1>1. Known /\ Alive /\ OneTimelineAtATime
  BY TypeParts DEF Inv, Known, Typed
<1>2. HubTyped' /\ Typed' /\ Counted' /\ Alive' /\ Sessions' /\ OneTimelineAtATime'
  BY <1>1, HubTypedStep, TypedStep, CountedStep, AliveStep, SessionsStep, TimelineStep
     DEF Known, Typed
<1>3. LinkTyped'
  BY <1>2 DEF Typed
<1>4. TypeOK' /\ Talk'
  BY <1>2, TypePartsNext DEF Typed
<1>5. ASSUME NEW c \in Commands PROVE Custody(c)'
  <2>1. ASSUME NEW d \in Commands, Admit(d) \/ Gateway(d) \/ Execute(d) PROVE Custody(c)'
    BY <1>1, <2>1, StoringCustody, DispatchCustody, SpeakingCustody DEF Gateway
  <2>2. ASSUME NEW k \in Links, Session(k) \/ HubRejects(k) \/ LinkDrops(k) PROVE Custody(c)'
    BY <1>1, <1>3, <2>2, TakingSteps, HandledCustody, NoticedCustody DEF Session
  <2>3. CASE Agent
    BY <1>1, <1>3, <2>3, AdoptedCustody, ReadsCustody, TakingSteps DEF Agent
  <2>4. CASE Dial \/ AgentRestart \/ UNCHANGED vars
    BY <1>1, <1>3, <2>4, TakingSteps
  <2>5. CASE HealthTick
    BY <1>1, <2>5, SpeakingCustody
  <2>6. CASE HubRestart
    BY <1>1, <1>3, <2>6, RestartCustody
  <2>. QED BY <2>1, <2>2, <2>3, <2>4, <2>5, <2>6 DEF Next
<1>. QED BY <1>2, <1>4, <1>5 DEF Inv

(* The inductive invariant itself: every command's token is in one place   *)
(* and its evidence, the gateway and the sessions agree on which.          *)
THEOREM TokenInvariant == Spec => []Inv
<1>1. Init => Inv
  BY InitInv
<1>2. Inv /\ [Next]_vars => Inv'
  BY InvStep
<1>. QED BY <1>1, <1>2, PTL DEF Spec

-----------------------------------------------------------------------------
(* How many results there are. *)

LEMMA ResultNumbers ==
    ASSUME HubTyped, NEW c \in Commands
    PROVE  /\ IsFiniteSet(ResultsAt(c)) /\ ResultCount(c) \in Nat
           /\ ResultCount(c) = 0 <=> ~Got(c, Results)
           /\ ResultCount(c) <= 1 <=> Once(c, Results)
<1>1. ResultsAt(c) \subseteq 1..Len(trail[c]) /\ Len(trail[c]) \in Nat
  BY DEF HubTyped, ResultsAt
<1>2. IsFiniteSet(ResultsAt(c)) /\ ResultCount(c) \in Nat
  <2>1. IsFiniteSet(1..Len(trail[c]))
    BY <1>1, FS_Interval
  <2>2. IsFiniteSet(ResultsAt(c))
    BY <1>1, <2>1, FS_Subset
  <2>. QED BY <2>2, FS_CardinalityType DEF ResultCount
<1>3. ResultCount(c) = 0 <=> ResultsAt(c) = {}
  BY <1>2, FS_EmptySet DEF ResultCount
<1>4. ResultsAt(c) = {} <=> ~Got(c, Results)
  BY DEF ResultsAt, Got
<1>5. ASSUME Once(c, Results) PROVE ResultCount(c) <= 1
  <2>1. CASE ResultsAt(c) = {}
    BY <1>2, <1>3, <2>1
  <2>2. CASE ResultsAt(c) # {}
    <3>1. PICK i : i \in ResultsAt(c)
      BY <2>2
    <3>2. ResultsAt(c) = {i}
      BY <3>1, <1>5 DEF Once, ResultsAt
    <3>3. Cardinality({i}) = 1
      BY FS_Singleton
    <3>4. ResultCount(c) = 1
      BY <3>2, <3>3 DEF ResultCount
    <3>. QED BY <3>4
  <2>. QED BY <2>1, <2>2
<1>6. ASSUME ResultCount(c) <= 1 PROVE Once(c, Results)
  <2>1. CASE ResultCount(c) = 0
    BY <1>3, <1>4, <2>1 DEF Once, Got
  <2>2. CASE ResultCount(c) = 1
    <3>1. \E x : ResultsAt(c) = {x}
      BY <1>2, <2>2, FS_Singleton DEF ResultCount
    <3>. QED BY <3>1 DEF Once, ResultsAt
  <2>. QED BY <1>2, <1>6, <2>1, <2>2
<1>. QED BY <1>2, <1>3, <1>4, <1>5, <1>6

(* One kind of result, and that once, makes one result. *)
LEMMA OneKind ==
    ASSUME NEW c \in Commands, Verdicts(c),
           ~(Got(c, {"undelivered"}) /\ Got(c, {"lost"})),
           ~(Got(c, {"undelivered"}) /\ Got(c, Answers)),
           ~(Got(c, {"lost"}) /\ Got(c, Answers))
    PROVE  Once(c, Results)
  BY DEF Verdicts, Once, Got, Results, Answers

LEMMA InvNothingForgotten == Inv => NothingForgotten
<1>. SUFFICES ASSUME Inv, NEW c \in Commands,
                     Stored(c), ResultCount(c) = 0, hubRestarts = 0
              PROVE  \/ gate[c] \in {"stored", "undelivered"}
                     \/ \E k \in Links : sess[k] = "operational" /\ c \in inflight[k]
  BY DEF NothingForgotten
<1>1. HubTyped /\ Sessions /\ Gate(c) /\ Waiting(c)
  BY TypeParts DEF Inv, Custody
<1>2. ~Got(c, Results)
  BY <1>1, ResultNumbers
<1>3. gate[c] \in {"new", "stored", "sent", "undelivered", "done", "abandoned"}
  BY <1>1 DEF HubTyped
<1>4. ~Got(c, {"undelivered"})
  BY <1>2, GotParts
<1>5. gate[c] \notin {"new", "done", "abandoned"}
  BY <1>1, <1>4 DEF Gate, Stored
<1>6. CASE gate[c] = "sent"
  <2>1. PICK k \in Links : InFlight(c, k)
    BY <1>1, <1>2, <1>6 DEF Waiting, Flying
  <2>. QED BY <2>1, <1>1 DEF InFlight, Sessions
<1>. QED BY <1>3, <1>5, <1>6

LEMMA InvOneResult == Inv => OneResultWithoutRedial
<1>. SUFFICES ASSUME Inv, dials <= 1, NEW c \in Commands PROVE ResultCount(c) <= 1
  BY DEF OneResultWithoutRedial
<1>1. /\ HubTyped /\ dials \in Nat
      /\ Gate(c) /\ Waiting(c) /\ Verdicts(c)
      /\ gate[c] \in {"new", "stored", "sent", "undelivered", "done", "abandoned"}
  BY TypeParts, CommandAssumption DEF Inv, Custody, Counted, HubTyped
<1>2. /\ ~(Got(c, {"undelivered"}) /\ Got(c, {"lost"}))
      /\ ~(Got(c, {"undelivered"}) /\ Got(c, Answers))
  <2>1. gate[c] = "new" => \A some : ~Got(c, some)
    <3>1. gate[c] = "new" => DOMAIN trail[c] = {}
      BY <1>1 DEF Gate
    <3>. QED BY <3>1 DEF Got
  <2>. QED BY <1>1, <2>1, GotParts DEF Gate
<1>3. ~(Got(c, {"lost"}) /\ Got(c, Answers))
  BY <1>1 DEF Waiting
<1>4. Once(c, Results)
  BY <1>1, <1>2, <1>3, OneKind
<1>. QED BY <1>1, <1>4, ResultNumbers

(* A verdict's place is the task, a message, or a result. *)
LEMMA PlaceKinds ==
    ASSUME NEW c \in Commands, NEW p \in VerdictPlaces(c)
    PROVE  \/ AtTask(c) /\ p = <<"task">>
           \/ \E i \in DOMAIN ring : RingHas(c, i) /\ p = <<"ring", i>>
           \/ \E k \in Links : \E i \in DOMAIN up[k] : UpHas(c, k, i) /\ p = <<"link", k, i>>
           \/ \E i \in DOMAIN trail[c] : trail[c][i] \in Answers /\ p = <<"trail", i>>
<1>1. CASE p \in TaskPlace(c)
  BY <1>1 DEF TaskPlace, AtTask
<1>2. CASE p \in RingPlaces(c)
  BY <1>2 DEF RingPlaces, RingHas
<1>3. CASE p \in TrailPlaces(c)
  BY <1>3 DEF TrailPlaces
<1>4. ASSUME NEW k \in Links, p \in LinkPlaces(k, c)
      PROVE  \E i \in DOMAIN up[k] : UpHas(c, k, i) /\ p = <<"link", k, i>>
  BY <1>4 DEF LinkPlaces, UpHas
<1>. QED BY <1>1, <1>2, <1>3, <1>4 DEF VerdictPlaces

LEMMA InvOneVerdict == Inv => VerdictInOnePlace
<1>. SUFFICES ASSUME Inv, NEW c \in Commands,
                     NEW p \in VerdictPlaces(c), NEW q \in VerdictPlaces(c)
              PROVE  p = q
  BY DEF VerdictInOnePlace
<1>1. OnePlace(c) /\ Once(c, Answers)
  BY DEF Inv, Custody, Verdicts
<1>2. CASE AtTask(c)
  <2>1. ~OnUp(c) /\ ~InRing(c) /\ ~Got(c, Answers)
    BY <1>1, <1>2 DEF OnePlace
  <2>2. \A x \in VerdictPlaces(c) : x = <<"task">>
    BY <2>1, PlaceKinds DEF OnUp, InRing, Got
  <2>. QED BY <2>2
<1>3. CASE InRing(c)
  <2>1. ~OnUp(c) /\ ~AtTask(c) /\ ~Got(c, Answers) /\ OneInRing(c)
    BY <1>1, <1>3 DEF OnePlace
  <2>2. \A x \in VerdictPlaces(c) : \E i \in DOMAIN ring : RingHas(c, i) /\ x = <<"ring", i>>
    BY <2>1, PlaceKinds DEF OnUp, Got
  <2>. QED BY <2>1, <2>2 DEF OneInRing
<1>4. CASE OnUp(c)
  <2>1. ~InRing(c) /\ ~AtTask(c) /\ ~Got(c, Answers) /\ OneUp(c)
    BY <1>1, <1>4 DEF OnePlace
  <2>2. \A x \in VerdictPlaces(c) :
            \E k \in Links : \E i \in DOMAIN up[k] : UpHas(c, k, i) /\ x = <<"link", k, i>>
    BY <2>1, PlaceKinds DEF InRing, Got
  <2>. QED BY <2>1, <2>2 DEF OneUp
<1>5. CASE ~AtTask(c) /\ ~InRing(c) /\ ~OnUp(c)
  <2>1. \A x \in VerdictPlaces(c) :
            \E i \in DOMAIN trail[c] : trail[c][i] \in Answers /\ x = <<"trail", i>>
    BY <1>5, PlaceKinds DEF InRing, OnUp
  <2>. QED BY <1>1, <2>1 DEF Once
<1>. QED BY <1>2, <1>3, <1>4, <1>5

(* Hub, links and agent agree on every command: nothing stored is          *)
(* forgotten without a restart of the hub, one connection means one result,*)
(* and the agent's verdict is in one place, whatever is lost (commands.py, *)
(* southbound.py, refmod.py).                                              *)
THEOREM HubAndModuleAgree == Spec => []Consistent
<1>1. Inv => Consistent
  BY InvNothingForgotten, InvOneResult, InvOneVerdict DEF Inv, Consistent
<1>. QED BY <1>1, TokenInvariant, PTL

-----------------------------------------------------------------------------
(* The promise: what Life tells of a command, from what its evidence holds.*)

Tale(c) ==
    IF Got(c, {"undelivered"}) THEN "undelivered"
    ELSE IF Got(c, {"lost"}) THEN IF Got(c, Answers) THEN "twice" ELSE "lost"
    ELSE IF Got(c, Answers) THEN "answered"
    ELSE IF Stored(c) THEN "asked" ELSE "new"

(* No kind of result twice, and nothing beside "undelivered". *)
Settled(c) ==
    /\ Verdicts(c)
    /\ Got(c, {"undelivered"}) => ~Got(c, {"lost"}) /\ ~Got(c, Answers)

LEMMA InvSettles ==
    ASSUME HubTyped, NEW c \in Commands, Custody(c)
    PROVE  Settled(c)
<1>1. /\ Gate(c) /\ Verdicts(c)
      /\ gate[c] \in {"new", "stored", "sent", "undelivered", "done", "abandoned"}
  BY DEF Custody, HubTyped
<1>2. gate[c] = "new" => \A some : ~Got(c, some)
  <2>1. gate[c] = "new" => DOMAIN trail[c] = {}
    BY <1>1 DEF Gate
  <2>. QED BY <2>1 DEF Got
<1>. QED BY <1>1, <1>2, GotParts DEF Gate, Settled

LEMMA LifeIsTale ==
    ASSUME NEW c \in Commands, Settled(c)
    PROVE  Life(c) = Tale(c)
<1>. DEFINE at == ResultsAt(c)
            kinds == {trail[c][i] : i \in at}
<1>1. \A i \in at : trail[c][i] \in Results
  BY DEF ResultsAt
<1>2. \A i \in DOMAIN trail[c] : trail[c][i] \in Results => i \in at
  BY DEF ResultsAt
<1>3. /\ "undelivered" \in Results /\ "lost" \in Results /\ Answers \subseteq Results
      /\ "undelivered" \notin Answers /\ "lost" \notin Answers
      /\ Results = {"undelivered", "lost"} \union Answers
  BY DEF Results, Answers
<1>4. ASSUME NEW i, at = {i} PROVE Cardinality(at) = 1 /\ kinds = {trail[c][i]} /\ at # {}
  <2>1. Cardinality({i}) = 1
    BY FS_Singleton
  <2>. QED BY <1>4, <2>1
<1>5. CASE at = {}
  <2>1. ~Got(c, {"undelivered"}) /\ ~Got(c, {"lost"}) /\ ~Got(c, Answers)
    BY <1>2, <1>3, <1>5 DEF Got
  <2>2. Life(c) = IF Stored(c) THEN "asked" ELSE "new"
    <3>1. Cardinality(at) = 0
      BY <1>5, FS_EmptySet
    <3>. QED BY <1>5, <3>1 DEF Life
  <2>3. Tale(c) = IF Stored(c) THEN "asked" ELSE "new"
    BY <2>1 DEF Tale
  <2>. QED BY <2>2, <2>3
<1>6. CASE Got(c, {"undelivered"})
  <2>1. PICK i \in DOMAIN trail[c] : trail[c][i] = "undelivered"
    BY <1>6 DEF Got
  <2>2. at = {i}
    BY <1>1, <1>2, <1>3, <1>6, <2>1 DEF Settled, Verdicts, Once, Got, ResultsAt
  <2>3. Cardinality(at) = 1 /\ kinds = {"undelivered"} /\ at # {}
    BY <1>4, <2>1, <2>2
  <2>4. Tale(c) = "undelivered"
    BY <1>6 DEF Tale
  <2>5. kinds # {"lost"} /\ ~(kinds \subseteq Answers)
    BY <2>3, <1>3
  <2>. QED BY <2>3, <2>4, <2>5 DEF Life
<1>7. CASE Got(c, {"lost"}) /\ ~Got(c, Answers)
  <2>1. PICK i \in DOMAIN trail[c] : trail[c][i] = "lost"
    BY <1>7 DEF Got
  <2>2. at = {i}
    BY <1>1, <1>2, <1>3, <1>7, <2>1 DEF Settled, Verdicts, Once, Got, ResultsAt
  <2>3. Cardinality(at) = 1 /\ kinds = {"lost"} /\ at # {}
    BY <1>4, <2>1, <2>2
  <2>4. Tale(c) = "lost"
    BY <1>7 DEF Tale, Settled
  <2>5. kinds # {"undelivered"} /\ ~(kinds \subseteq Answers)
    BY <2>3, <1>3
  <2>. QED BY <2>3, <2>4, <2>5 DEF Life
<1>8. CASE Got(c, Answers) /\ ~Got(c, {"lost"})
  <2>1. PICK i \in DOMAIN trail[c] : trail[c][i] \in Answers
    BY <1>8 DEF Got
  <2>2. at = {i}
    BY <1>1, <1>2, <1>3, <1>8, <2>1 DEF Settled, Verdicts, Once, Got, ResultsAt
  <2>3. Cardinality(at) = 1 /\ kinds = {trail[c][i]} /\ at # {}
    BY <1>4, <2>1, <2>2
  <2>4. Tale(c) = "answered"
    BY <1>8 DEF Tale, Settled
  <2>5. kinds # {"undelivered"} /\ kinds # {"lost"} /\ kinds \subseteq Answers
    BY <2>1, <2>3, <1>3
  <2>. QED BY <2>3, <2>4, <2>5 DEF Life
<1>9. CASE Got(c, {"lost"}) /\ Got(c, Answers)
  <2>1. PICK i \in DOMAIN trail[c], j \in DOMAIN trail[c] :
            trail[c][i] = "lost" /\ trail[c][j] \in Answers
    BY <1>9 DEF Got
  <2>2. at = {i, j} /\ i # j
    BY <1>1, <1>2, <1>3, <1>9, <2>1 DEF Settled, Verdicts, Once, Got, ResultsAt
  <2>3. kinds = {"lost", trail[c][j]}
    BY <2>1, <2>2
  <2>4. Cardinality(at) = 2
    <3>1. Cardinality({i}) = 1 /\ IsFiniteSet({i})
      BY FS_Singleton
    <3>2. j \notin {i}
      BY <2>2
    <3>3. Cardinality({i} \union {j}) = Cardinality({i}) + 1
      BY <3>1, <3>2, FS_AddElement
    <3>4. at = {i} \union {j}
      BY <2>2
    <3>. QED BY <3>1, <3>3, <3>4
  <2>5. Tale(c) = "twice"
    BY <1>9 DEF Tale, Settled
  <2>6. at # {} /\ \E a \in Answers : kinds = {"lost", a}
    BY <2>1, <2>2, <2>3
  <2>. QED BY <2>4, <2>5, <2>6 DEF Life
<1>10. at = {} \/ Got(c, {"undelivered"}) \/ Got(c, {"lost"}) \/ Got(c, Answers)
  BY <1>1, <1>3 DEF Got, ResultsAt
<1>. QED BY <1>5, <1>6, <1>7, <1>8, <1>9, <1>10

LEMMA LifeIsTaleNext == \A c \in Commands : Settled(c)' => Life(c)' = Tale(c)'
<1>1. \A c \in Commands : Settled(c) => Life(c) = Tale(c)
  BY LifeIsTale
<1>2. (\A c \in Commands : Settled(c) => Life(c) = Tale(c))'
  BY <1>1, PTL
<1>. QED BY <1>2

LEMMA InvTales ==
    ASSUME Inv, Inv', NEW c \in Commands
    PROVE  Life(c) = Tale(c) /\ Life(c)' = Tale(c)'
<1>1. Settled(c)
  BY TypeParts, InvSettles DEF Inv
<1>2. Settled(c)'
  <2>1. Gate(c)' /\ Verdicts(c)'
    BY DEF Inv, Custody
  <2>2. gate'[c] \in {"new", "stored", "sent", "undelivered", "done", "abandoned"}
    BY DEF Inv, TypeOK
  <2>3. gate'[c] = "new" => \A some : ~Got(c, some)'
    <3>1. gate'[c] = "new" => DOMAIN trail'[c] = {}
      BY <2>1 DEF Gate
    <3>. QED BY <3>1 DEF Got
  <2>. QED BY <2>1, <2>2, <2>3, GotPartsNext DEF Gate, Settled
<1>. QED BY <1>1, <1>2, LifeIsTale, LifeIsTaleNext

Lives == [c \in Commands |-> Life(c)]

(* Evidence that stays leaves the life as it is. *)
LEMMA SameLife ==
    ASSUME NEW c \in Commands, trail'[c] = trail[c]
    PROVE  Life(c)' = Life(c)
  BY DEF Life, ResultsAt, Stored

(* The message a session reads is about a command that was sent, and a     *)
(* verdict is the first one.                                               *)
LEMMA HeadAbout ==
    ASSUME Known, NEW k \in Links, up[k] # <<>>,
           NEW c \in Commands, Head(up[k]).command_id = c
    PROVE  /\ gate[c] = "sent" /\ trail[c] # <<>>
           /\ Head(up[k]).t \in {"ACK", "NACK", "RESULT"}
           /\ Head(up[k]).t \in Terminal => ~Got(c, Answers)
<1>. USE DEF Known, Typed
<1>1. 1 \in DOMAIN up[k] /\ up[k][1] = Head(up[k])
  <2>1. up[k] \in Seq(UpMessages)
    BY DEF LinkTyped
  <2>. QED BY <2>1, Rest
<1>2. Gate(c) /\ OnePlace(c)
  BY DEF Custody
<1>3. ~Untouched(c)
  BY <1>1 DEF Untouched, NoUp
<1>4. Head(up[k]).t \in {"ACK", "NACK", "RESULT"}
  BY HeadSpoken DEF Spoken
<1>5. ASSUME Head(up[k]).t \in Terminal PROVE ~Got(c, Answers)
  <2>1. UpHas(c, k, 1)
    BY <1>1, <1>5 DEF UpHas, IsVerdict
  <2>. QED BY <1>1, <1>2, <2>1 DEF OnUp, OnePlace
<1>. QED BY <1>2, <1>3, <1>4, <1>5 DEF Gate

LEMMA Promised ==
    ASSUME Inv, Inv', [Next]_vars
    PROVE  [Promise!Next]_Lives
<1>0. /\ Known
      /\ \A c \in Commands : Custody(c) /\ Custody(c)' /\ Life(c) = Tale(c) /\ Life(c)' = Tale(c)'
  BY TypeParts, InvTales DEF Inv, Known, Typed
<1>1. /\ Lives' = [c \in Commands |-> Life(c)']
      /\ \A c \in Commands : Lives[c] = Life(c) /\ Lives'[c] = Life(c)'
  BY DEF Lives
<1>2. ASSUME trail' = trail PROVE Lives' = Lives
  BY <1>1, <1>2, SameLife DEF Lives
<1>3. ASSUME NEW c \in Commands, \A d \in Commands \ {c} : trail'[d] = trail[d]
      PROVE  Lives' = [Lives EXCEPT ![c] = Life(c)']
  BY <1>1, <1>3, SameLife DEF Lives
<1>4. ASSUME NEW c \in Commands, Admit(c) PROVE Promise!Next
  <2>1. /\ gate[c] = "new" /\ gate'[c] = "stored"
        /\ \A d \in Commands \ {c} : trail'[d] = trail[d]
    BY <1>0, <1>4 DEF Admit, Record, Known, HubTyped
  <2>2. Life(c) = "new"
    <3>1. trail[c] = <<>> /\ DOMAIN trail[c] = {}
      BY <1>0, <2>1 DEF Custody, Gate
    <3>2. \A some : ~Got(c, some)
      BY <3>1 DEF Got
    <3>. QED BY <1>0, <3>1, <3>2 DEF Tale, Stored
  <2>3. Life(c)' = "asked"
    <3>1. trail'[c] # <<>> /\ ~Got(c, Results)'
      BY <1>0, <2>1 DEF Custody, Gate
    <3>. QED BY <1>0, <3>1, GotPartsNext DEF Tale, Stored
  <2>4. Promise!Ask(c)
    BY <1>1, <1>3, <2>1, <2>2, <2>3 DEF Promise!Ask, Lives
  <2>. QED BY <2>4 DEF Promise!Next
<1>5. ASSUME NEW c \in Commands, Undelivered(c) PROVE Promise!Next
  <2>1. /\ gate[c] = "undelivered" /\ gate'[c] = "done"
        /\ \A d \in Commands \ {c} : trail'[d] = trail[d]
    BY <1>0, <1>5 DEF Undelivered, Record, Known, HubTyped
  <2>2. Life(c) = "asked"
    <3>1. trail[c] # <<>> /\ ~Got(c, Results)
      BY <1>0, <2>1 DEF Custody, Gate
    <3>. QED BY <1>0, <3>1, GotParts DEF Tale, Stored
  <2>3. Life(c)' = "undelivered"
    <3>1. Got(c, {"undelivered"})'
      BY <1>0, <2>1 DEF Custody, Gate
    <3>. QED BY <1>0, <3>1 DEF Tale
  <2>4. Promise!Undeliverable(c)
    BY <1>1, <1>3, <2>1, <2>2, <2>3 DEF Promise!Undeliverable, Lives
  <2>. QED BY <2>4 DEF Promise!Next
<1>6. ASSUME NEW k \in Links, HubReads(k) PROVE [Promise!Next]_Lives
  <2>1. CASE Head(up[k]).command_id \notin Commands
    BY <1>2, <1>6, <2>1 DEF HubReads
  <2>2. ASSUME NEW c \in Commands, Head(up[k]).command_id = c, NEW t, Head(up[k]).t = t
        PROVE  [Promise!Next]_Lives
    <3>1. /\ gate[c] = "sent" /\ trail[c] # <<>>
          /\ t \in {"ACK", "NACK", "RESULT"}
          /\ t \in Terminal => ~Got(c, Answers)
      BY <1>0, <1>6, <2>2, HeadAbout DEF HubReads
    <3>2. /\ trail'[c] = trail[c] \o Evidence(t)
          /\ \A d \in Commands \ {c} : trail'[d] = trail[d]
      BY <1>0, <1>6, <2>2 DEF HubReads, Record, Known, HubTyped
    <3>3. /\ trail'[c] # <<>>
          /\ Got(c, {"undelivered"})' <=> Got(c, {"undelivered"})
          /\ Got(c, {"lost"})' <=> Got(c, {"lost"})
          /\ t \notin Terminal => (Got(c, Answers)' <=> Got(c, Answers))
          /\ t \in Terminal => Got(c, Answers)'
      BY <1>0, <2>2, <3>1, <3>2, Answered DEF Known
    <3>4. ~Got(c, {"undelivered"})
      BY <1>0, <2>2, <3>1 DEF Custody, Gate
    <3>5. CASE t \notin Terminal
      <4>1. Life(c)' = Life(c)
        BY <1>0, <2>2, <3>1, <3>3, <3>5 DEF Tale, Stored
      <4>2. Lives' = Lives
        BY <1>1, <1>3, <2>2, <3>2, <4>1 DEF Lives
      <4>. QED BY <4>2
    <3>6. CASE t \in Terminal
      <4>1. \/ Life(c) = "asked" /\ Life(c)' = "answered"
            \/ Life(c) = "lost" /\ Life(c)' = "twice"
        BY <1>0, <2>2, <3>1, <3>3, <3>4, <3>6 DEF Tale, Stored
      <4>2. Promise!Answer(c)
        BY <1>1, <1>3, <2>2, <3>2, <4>1 DEF Promise!Answer, Lives
      <4>. QED BY <2>2, <4>2 DEF Promise!Next
    <3>. QED BY <3>5, <3>6
  <2>. QED BY <2>1, <2>2
<1>7. ASSUME NEW k \in Links, HubNotices(k) PROVE [Promise!Next]_Lives
  <2>1. CASE sess[k] # "operational"
    BY <1>2, <1>7, <2>1 DEF HubNotices
  <2>2. CASE sess[k] = "operational"
    <3>1. \A c \in Commands : /\ c \in inflight[k] => trail'[c] = Append(trail[c], "lost")
                              /\ c \notin inflight[k] => trail'[c] = trail[c]
      BY <1>7, <2>2 DEF HubNotices, GivenUp
    <3>2. inflight[k] \in SUBSET Commands
      BY <1>0 DEF Known, HubTyped
    <3>3. ASSUME NEW c \in Commands, c \in inflight[k]
          PROVE  \/ Life(c) = "asked" /\ Life(c)' = "lost"
                 \/ Life(c) = "answered" /\ Life(c)' = "twice"
      <4>1. trail[c] \in Seq(Kinds)
        BY <1>0 DEF Known, HubTyped, Kinds
      <4>2. trail'[c] = trail[c] \o <<"lost">>
        <5>1. Append(trail[c], "lost") = trail[c] \o <<"lost">>
          BY <4>1
        <5>. QED BY <3>1, <3>3, <5>1
      <4>3. Flying(c)
        BY <3>3 DEF Flying, InFlight
      <4>4. ~Untouched(c) /\ ~Got(c, {"lost"})
        BY <1>0, <4>3 DEF Untouched, Custody, Waiting
      <4>5. gate[c] = "sent" /\ ~Got(c, {"undelivered"}) /\ trail[c] # <<>>
        BY <1>0, <4>4 DEF Custody, Gate
      <4>6. /\ "lost" \in Kinds /\ "lost" \notin {"undelivered"} /\ "lost" \notin Answers
            /\ {"undelivered"} \in SUBSET Kinds /\ {"lost"} \in SUBSET Kinds
            /\ Answers \in SUBSET Kinds
        BY DEF Kinds, Answers
      <4>7. /\ Got(c, {"lost"})' /\ ~Got(c, {"undelivered"})'
            /\ Got(c, Answers)' <=> Got(c, Answers)
        BY <1>0, <4>2, <4>5, <4>6, Recorded DEF Known
      <4>. QED BY <1>0, <4>4, <4>5, <4>7 DEF Tale, Stored
    <3>4. ASSUME NEW c \in Commands, c \notin inflight[k] PROVE Life(c)' = Life(c)
      BY <3>1, <3>4, SameLife
    <3>5. CASE inflight[k] = {}
      <4>1. Lives' = Lives
        BY <1>1, <3>4, <3>5 DEF Lives
      <4>. QED BY <4>1
    <3>6. CASE inflight[k] # {}
      <4>1. \A c \in inflight[k] : Lives[c] \in {"asked", "answered"}
        BY <1>1, <3>2, <3>3
      <4>2. Lives' = [c \in Commands |->
                        IF c \notin inflight[k] THEN Lives[c]
                        ELSE IF Lives[c] = "asked" THEN "lost" ELSE "twice"]
        <5>1. \A c \in Commands :
                Life(c)' = IF c \notin inflight[k] THEN Lives[c]
                           ELSE IF Lives[c] = "asked" THEN "lost" ELSE "twice"
          BY <1>1, <3>3, <3>4
        <5>. QED BY <1>1, <5>1
      <4>3. Promise!GiveUp(inflight[k])
        BY <3>6, <4>1, <4>2 DEF Promise!GiveUp, Lives
      <4>. QED BY <3>2, <4>3 DEF Promise!Next
    <3>. QED BY <3>5, <3>6
  <2>. QED BY <2>1, <2>2
<1>8. ASSUME NEW c \in Commands, Dispatch(c) \/ Execute(c) PROVE Lives' = Lives
  BY <1>2, <1>8 DEF Dispatch, Execute, Accept, Decline, Finish, hubVars
<1>9. ASSUME NEW k \in Links, HubGreets(k) \/ HubAdopts(k) \/ HubRejects(k) \/ LinkDrops(k)
      PROVE  Lives' = Lives
  BY <1>2, <1>9 DEF HubGreets, HubAdopts, HubRejects, LinkDrops, hubVars
<1>10. CASE Agent \/ Dial \/ HealthTick \/ AgentRestart \/ HubRestart \/ UNCHANGED vars
  BY <1>2, <1>10 DEF Agent, AgentAdopted, AgentReads, AgentNotices, Dial, HealthTick,
                     AgentRestart, HubRestart, vars, hubVars
<1>. QED BY <1>4, <1>5, <1>6, <1>7, <1>8, <1>9, <1>10 DEF Next, Gateway, Session

(* The hub, the links and the agent together implement the promise made to *)
(* the submitter: one verdict of the module at most, one giving up at      *)
(* most, and nothing after "undelivered" (commands.py:172-185,             *)
(* southbound.py:164-176 and 256-275).                                     *)
THEOREM PromiseKept == Spec => KeepsThePromise
<1>1. Init => Promise!Init
  <2>1. ASSUME Init PROVE Lives = [c \in Commands |-> "new"]
    <3>1. ASSUME NEW c \in Commands PROVE Life(c) = "new"
      <4>1. trail[c] = <<>> /\ DOMAIN trail[c] = {}
        BY <2>1 DEF Init
      <4>2. \A some : ~Got(c, some)
        BY <4>1 DEF Got
      <4>3. Settled(c)
        BY <4>1, <4>2 DEF Settled, Verdicts, Once
      <4>. QED BY <4>1, <4>2, <4>3, LifeIsTale DEF Tale, Stored
    <3>. QED BY <3>1 DEF Lives
  <2>. QED BY <2>1 DEF Promise!Init, Lives
<1>2. Inv /\ Inv' /\ [Next]_vars => [Promise!Next]_Lives
  BY Promised
<1>3. Spec => []Inv
  BY TokenInvariant
<1>. QED BY <1>1, <1>2, <1>3, PTL DEF Spec, KeepsThePromise, Promise!Spec, Lives

=============================================================================
