----------------------------- MODULE AnalyzerProofs -----------------------------
(***************************************************************************)
(* The analyzer's side, uii_analyzer: three machines that share no state.  *)
(*                                                                         *)
(* BrokerLink: what run() of mqtt_min.py keeps for any set of filters and  *)
(* any number of faults: the broker hears every filter, and no connection  *)
(* whose broker is there is given up.                                      *)
(*                                                                         *)
(* Pimod: who drives the pumps, for any number of commands of any types,   *)
(* any timelines and any number of accidents: the plant never gets them    *)
(* back from the hub, no two timelines share them, and a run that is       *)
(* reported as succeeded read the light it had to, in order.               *)
(*                                                                         *)
(* MqttShim: what the hub learns of a command that a legacy unit executes, *)
(* for any number of commands, of messages under way and of redials: one   *)
(* verdict, one acknowledgement that stands, no step twice in a row, and   *)
(* the promise of CommandPromise.                                          *)
(***************************************************************************)
EXTENDS BrokerLink, Pimod, MqttShim, FiniteSetTheorems, TLAPS

(* Before run() reads, nothing of the connection has begun. *)
Starting ==
    /\ run \in {"waiting", "dialing"} => conn = "none"
    /\ run \in {"waiting", "dialing", "greeting"} => ~connected /\ heard = {}
    /\ run \in {"waiting", "dialing", "greeting", "subscribing"} =>
            quiet = 0 /\ idle = 0 /\ ~pinging /\ ~asked

(* What the broker was not told yet is still owed to it. *)
Telling ==
    /\ run = "reading" => owed = {}
    /\ (run \in {"subscribing", "reading"} /\ conn = "up") =>
            connected /\ subs \ owed \subseteq heard

(* The last packet is no older than the last ping, whose answer is due     *)
(* before the next tick.                                                   *)
Pinged ==
    /\ idle <= PingAfter
    /\ (run = "reading" /\ conn = "up") =>
            /\ pinging
            /\ asked => quiet <= PingAfter /\ idle = 0
            /\ ~asked => quiet <= idle

ClientInv == ClientTypeOK /\ Starting /\ Telling /\ Pinged

(* The variables that are true or false stay so: a lemma of its own, since *)
(* the steps below also count.                                             *)
LEMMA FlagsStep == Flags /\ [ClientNext]_clientVars => Flags'
<1>. SUFFICES ASSUME Flags, [ClientNext]_clientVars PROVE Flags'
  OBVIOUS
<1>. USE DEF Flags
<1>1. CASE UNCHANGED clientVars
  BY <1>1 DEF clientVars, timeVars, wireVars
<1>2. ASSUME NEW how \in {"reset", "half-open"}, Breaks(how) PROVE Flags'
  BY <1>2 DEF Breaks, timeVars
<1>3. ASSUME NEW f \in Filters, Resubscribe(f) PROVE Flags'
  BY <1>3 DEF Resubscribe, Reaches, timeVars
<1>4. ASSUME NEW f \in Filters, Subscribe(f) PROVE Flags'
  BY <1>4 DEF Subscribe, Reaches, timeVars
<1>5. CASE Redial
  BY <1>5 DEF Redial, timeVars, wireVars
<1>6. CASE DialFails
  BY <1>6 DEF DialFails, Lost
<1>7. CASE Opens
  BY <1>7 DEF Opens, timeVars
<1>8. CASE NoConnack
  BY <1>8 DEF NoConnack, Lost
<1>9. CASE Accepted
  BY <1>9 DEF Accepted, Connack, timeVars, wireVars
<1>10. CASE Subscribed
  BY <1>10 DEF Subscribed, timeVars, wireVars
<1>11. CASE Reads
  BY <1>11 DEF Reads
<1>12. CASE Ping
  BY <1>12 DEF Ping, PingDue
<1>13. CASE Tick
  BY <1>13 DEF Tick, PingDue, wireVars
<1>14. CASE ReadFails
  BY <1>14 DEF ReadFails, Lost
<1>15. CASE SubscribeFails
  BY <1>15 DEF SubscribeFails, Lost
<1>16. CASE PublishFails
  BY <1>16 DEF PublishFails, timeVars, wireVars
<1>. QED
  BY <1>1, <1>2, <1>3, <1>4, <1>5, <1>6, <1>7, <1>8, <1>9, <1>10, <1>11,
     <1>12, <1>13, <1>14, <1>15, <1>16 DEF ClientNext, Run

LEMMA ClientStart == ClientInit => ClientInv
<1>. SUFFICES ASSUME ClientInit PROVE ClientInv
  OBVIOUS
<1>1. Flags
  BY DEF ClientInit, Flags
<1>2. ClientTypeOK
  BY <1>1, BrokerLinkAssumption DEF ClientInit, ClientTypeOK, ReadTimeout
<1>3. Starting /\ Telling /\ Pinged
  BY DEF ClientInit, Starting, Telling, Pinged, PingAfter
<1>. QED
  BY <1>2, <1>3 DEF ClientInv

(* Closing the connection leaves nothing of it (mqtt_min.py:178-182).      *)
LEMMA LostKeeps ==
    ASSUME ClientInv, Lost, Flags', subs' = subs, faults' \in 0..MaxFaults
    PROVE  ClientInv'
<1>1. ClientTypeOK'
  BY DEF ClientInv, Lost, ClientTypeOK, ReadTimeout
<1>2. Starting' /\ Telling' /\ Pinged'
  BY DEF Lost, Starting, Telling, Pinged, PingAfter
<1>. QED
  BY <1>1, <1>2 DEF ClientInv

LEMMA ClientStep == ClientInv /\ [ClientNext]_clientVars => ClientInv'
<1>. SUFFICES ASSUME ClientInv, [ClientNext]_clientVars, Flags' PROVE ClientInv'
  BY FlagsStep DEF ClientInv, ClientTypeOK
<1>. USE BrokerLinkAssumption
     DEF ClientInv, ClientTypeOK, Starting, Telling, Pinged, PingAfter, ReadTimeout
<1>1. CASE UNCHANGED clientVars
  BY <1>1 DEF clientVars, timeVars, wireVars
<1>2. ASSUME NEW how \in {"reset", "half-open"}, Breaks(how) PROVE ClientInv'
  BY <1>2 DEF Breaks, timeVars
<1>3. ASSUME NEW f \in Filters, Resubscribe(f) PROVE ClientInv'
  BY <1>3 DEF Resubscribe, Reaches, timeVars
<1>4. ASSUME NEW f \in Filters, Subscribe(f) PROVE ClientInv'
  BY <1>4 DEF Subscribe, Reaches, timeVars
<1>5. CASE Redial
  BY <1>5 DEF Redial, timeVars, wireVars
<1>6. CASE DialFails
  BY <1>6, LostKeeps DEF DialFails
<1>7. CASE Opens
  BY <1>7 DEF Opens, timeVars
<1>8. CASE NoConnack
  BY <1>8, LostKeeps DEF NoConnack
<1>9. CASE Accepted
  BY <1>9 DEF Accepted, Connack, timeVars, wireVars
<1>10. CASE Subscribed
  BY <1>10 DEF Subscribed, timeVars, wireVars
<1>11. CASE Reads
  BY <1>11 DEF Reads
<1>12. CASE Ping
  <2>1. /\ pinging' <=> conn # "reset"
        /\ asked' <=> conn = "up"
    BY <1>12 DEF Ping
  <2>2. ClientTypeOK'
    BY <1>12 DEF Ping
  <2>3. Starting' /\ Telling'
    BY <1>12 DEF Ping
  <2>4. Pinged'
    BY <1>12, <2>1 DEF Ping, PingDue
  <2>. QED
    BY <2>2, <2>3, <2>4
<1>13. CASE Tick
  BY <1>13 DEF Tick, PingDue, wireVars
<1>14. CASE ReadFails
  BY <1>14, LostKeeps DEF ReadFails
<1>15. CASE SubscribeFails
  BY <1>15, LostKeeps DEF SubscribeFails
<1>16. CASE PublishFails
  BY <1>16 DEF PublishFails, timeVars, wireVars
<1>. QED
  BY <1>1, <1>2, <1>3, <1>4, <1>5, <1>6, <1>7, <1>8, <1>9, <1>10, <1>11,
     <1>12, <1>13, <1>14, <1>15, <1>16 DEF ClientNext, Run

-----------------------------------------------------------------------------
(* The broker knows every filter while run() reads from it, and publish()  *)
(* refuses nothing then (mqtt_min.py:122-140 and 160-164).                 *)
THEOREM EveryFilterIsHeard == ClientSpec => []HearsAll
<1>1. ClientInv => HearsAll
  BY DEF ClientInv, Telling, Pinged, ClientTypeOK, HearsAll
<1>. QED
  BY <1>1, ClientStart, ClientStep, PTL DEF ClientSpec

(* No connection whose broker is there is given up: the pings are answered *)
(* before the read times out (mqtt_min.py:83, 187-192 and 226-232).        *)
THEOREM HealthyConnectionsAreKept == ClientSpec => HealthyIsKept
<1>1. ClientInv /\ [ClientNext]_clientVars => [(run = "reading" /\ run' = "waiting") => conn # "up"]_clientVars
  <2>. SUFFICES ASSUME ClientInv, ClientNext, run = "reading", run' = "waiting"
                PROVE  conn # "up"
    OBVIOUS
  <2>1. ReadFails
    BY DEF ClientNext, Run, Breaks, Redial, DialFails, Opens, NoConnack, Accepted, Resubscribe,
           Subscribed, Reads, Ping, Tick, SubscribeFails, Subscribe, PublishFails
  <2>. QED
    BY <2>1 DEF ReadFails, GivesUp, ClientInv, Pinged, ClientTypeOK, PingAfter, ReadTimeout
<1>. QED
  BY <1>1, ClientStart, ClientStep, PTL DEF ClientSpec, HealthyIsKept

-----------------------------------------------------------------------------
(* Pimod: the timelines and the pumps. *)

TaskOK ==
    task \in [Commands -> [pc: {"none", "read", "acked", "refused", "running",
                                "done", "dead"},
                           type: Types \union {"none"}]]

(* The latch is what ENDPOINT means, and nothing of the hub's moves a pump *)
(* without it.                                                             *)
Latch ==
    /\ mode \in {"BRIDGE", "ENDPOINT"}
    /\ latched \in BOOLEAN
    /\ latched <=> mode = "ENDPOINT"
    /\ driver = "hub" => mode = "ENDPOINT"

(* The timeline under way is the one busy stands for. *)
OneTimeline == \A c \in Commands : Running(c) => busy = c /\ mode = "ENDPOINT"

Owned == TaskOK /\ Latch /\ OneTimeline
Inv == Owned /\ boots \in Nat

LEMMA InitInv == Init => Inv
<1>. SUFFICES ASSUME Init PROVE Inv
  OBVIOUS
<1>1. TaskOK /\ OneTimeline
  BY DEF Init, TaskOK, OneTimeline, Running, Idle
<1>2. Latch /\ boots \in Nat
  BY DEF Init, Latch
<1>. QED BY <1>1, <1>2 DEF Inv, Owned

(* A task of execute() is only ever moved to another place. *)
LEMMA TaskStep ==
    ASSUME TaskOK, NEW c \in Commands,
           NEW pc \in {"acked", "refused", "running", "done", "dead"}, Moves(c, pc)
    PROVE  /\ TaskOK'
           /\ task'[c].pc = pc
           /\ \A d \in Commands \ {c} : task'[d] = task[d]
  BY DEF TaskOK, Moves

LEMMA BootsStep == boots \in Nat /\ [Next]_vars => boots' \in Nat
<1>. SUFFICES ASSUME boots \in Nat, [Next]_vars PROVE boots' \in Nat
  OBVIOUS
<1>1. CASE Restart
  BY <1>1 DEF Restart
<1>2. ASSUME NEW c \in Commands, Read(c) \/ Execute(c) PROVE boots' = boots
  BY <1>2 DEF Read, Execute, Authority, AbortAcked, ShortEnds, Decline, Start,
              Aborted, Pump, Capture, Succeed
<1>3. CASE Dial \/ HangUp \/ Greeted \/ Cut \/ TelemetryFails \/ PlcLine
  BY <1>3 DEF Dial, HangUp, Greeted, Cut, TelemetryFails, PlcLine
<1>4. CASE UNCHANGED vars
  BY <1>4 DEF vars
<1>. QED BY <1>1, <1>2, <1>3, <1>4 DEF Next

LEMMA ReadKeeps ==
    ASSUME Owned, NEW c \in Commands, Read(c) PROVE Owned'
<1>1. TaskOK'
  <2>1. PICK t \in Asks[c] : task' = [task EXCEPT ![c] = [pc |-> "read", type |-> t]]
    BY DEF Read
  <2>2. t \in Types
    BY PimodAssumption
  <2>. QED BY <2>1, <2>2 DEF Owned, TaskOK
<1>2. \A d \in Commands : Running(d)' => Running(d)
  BY DEF Read, Running, Owned, TaskOK
<1>3. Latch'
  BY DEF Read, Owned, Latch, controlVars
<1>4. OneTimeline'
  BY <1>2 DEF Read, Owned, OneTimeline, Running, controlVars, methodVars
<1>. QED BY <1>1, <1>3, <1>4 DEF Owned

(* The short commands, and the refusal of a method: no timeline begins. *)
LEMMA ShortKeeps ==
    ASSUME Owned, NEW c \in Commands,
           AbortAcked(c) \/ ShortEnds(c) \/ Decline(c)
    PROVE  Owned'
<1>1. PICK pc \in {"acked", "done", "dead"} : Moves(c, pc)
  BY DEF AbortAcked, ShortEnds, Decline, Raises
<1>2. UNCHANGED <<mode, latched, busy, driver>>
  BY DEF AbortAcked, ShortEnds, Decline, controlVars, methodVars
<1>3. TaskOK' /\ task'[c].pc = pc /\ \A d \in Commands \ {c} : task'[d] = task[d]
  BY <1>1, TaskStep DEF Owned
<1>4. OneTimeline'
  BY <1>2, <1>3 DEF Owned, OneTimeline, Running
<1>5. Latch'
  BY <1>2 DEF Owned, Latch
<1>. QED BY <1>3, <1>4, <1>5 DEF Owned

(* set_mode: the way back to BRIDGE is barred once ENDPOINT is latched. *)
LEMMA AuthorityKeeps ==
    ASSUME Owned, NEW c \in Commands, Authority(c) PROVE Owned'
<1>1. PICK pc \in {"acked", "refused", "dead"} : Moves(c, pc)
  BY DEF Authority, Raises
<1>2. busy' = busy /\ driver' = driver
  BY DEF Authority, methodVars
<1>3. TaskOK' /\ task'[c].pc = pc /\ \A d \in Commands \ {c} : task'[d] = task[d]
  BY <1>1, TaskStep DEF Owned
<1>4. \/ mode' = "ENDPOINT" /\ latched' = TRUE
      \/ mode' = (IF MaySet("BRIDGE") THEN "BRIDGE" ELSE mode) /\ latched' = latched
  BY DEF Authority
<1>5. CASE mode' = "ENDPOINT" /\ latched' = TRUE
  <2>1. Latch'
    BY <1>5 DEF Latch
  <2>2. OneTimeline'
    BY <1>2, <1>3, <1>5 DEF Owned, OneTimeline, Running
  <2>. QED BY <1>3, <2>1, <2>2 DEF Owned
<1>6. CASE mode' = (IF MaySet("BRIDGE") THEN "BRIDGE" ELSE mode) /\ latched' = latched
  <2>1. mode' = mode
    BY <1>6 DEF MaySet, Owned, Latch
  <2>2. Latch'
    BY <1>2, <1>6, <2>1 DEF Owned, Latch
  <2>3. OneTimeline'
    BY <1>2, <1>3, <2>1 DEF Owned, OneTimeline, Running
  <2>. QED BY <1>3, <2>2, <2>3 DEF Owned
<1>. QED BY <1>4, <1>5, <1>6

(* A method starts only while no other has the instrument. *)
LEMMA StartKeeps ==
    ASSUME Owned, NEW c \in Commands, Start(c) PROVE Owned'
<1>1. PICK pc \in {"running", "dead"} : Moves(c, pc)
  BY DEF Start, Raises
<1>2. mode = "ENDPOINT" /\ busy = NoCommand /\ busy' = c /\ UNCHANGED <<mode, latched, driver>>
  BY DEF Start, Free, controlVars
<1>3. TaskOK' /\ task'[c].pc = pc /\ \A d \in Commands \ {c} : task'[d] = task[d]
  BY <1>1, TaskStep DEF Owned
<1>4. \A d \in Commands : ~Running(d)
  BY <1>2, PimodAssumption DEF Owned, OneTimeline
<1>5. OneTimeline'
  BY <1>2, <1>3, <1>4 DEF OneTimeline, Running
<1>6. Latch'
  BY <1>2 DEF Owned, Latch
<1>. QED BY <1>3, <1>5, <1>6 DEF Owned

(* An event of the timeline leaves it running, or ends it and frees the    *)
(* instrument; the pumps it drives are the hub's, for it runs in ENDPOINT. *)
LEMMA TimelineKeeps ==
    ASSUME Owned, NEW c \in Commands,
           Aborted(c) \/ Pump(c) \/ Capture(c) \/ Succeed(c)
    PROVE  Owned'
<1>1. Running(c) /\ UNCHANGED <<mode, latched>> /\ driver' \in {driver, "hub"}
  BY DEF Aborted, Pump, Capture, Succeed, Running, controlVars
<1>2. mode = "ENDPOINT" /\ busy = c
  BY <1>1 DEF Owned, OneTimeline
<1>3. Latch'
  BY <1>1, <1>2 DEF Owned, Latch
<1>4. \/ UNCHANGED <<busy, task>>
      \/ busy' = NoCommand /\ \E pc \in {"done", "dead"} : Moves(c, pc)
  BY DEF Aborted, Pump, Capture, Succeed, Ends, Goes, Raises, Frees
<1>5. CASE UNCHANGED <<busy, task>>
  BY <1>1, <1>3, <1>5 DEF Owned, TaskOK, OneTimeline, Running
<1>6. CASE busy' = NoCommand /\ \E pc \in {"done", "dead"} : Moves(c, pc)
  <2>1. PICK pc \in {"done", "dead"} : Moves(c, pc)
    BY <1>6
  <2>2. TaskOK' /\ task'[c].pc = pc /\ \A d \in Commands \ {c} : task'[d] = task[d]
    BY <2>1, TaskStep DEF Owned
  <2>3. \A d \in Commands \ {c} : ~Running(d)
    BY <1>2 DEF Owned, OneTimeline
  <2>4. OneTimeline'
    BY <2>2, <2>3 DEF OneTimeline, Running
  <2>. QED BY <1>3, <2>2, <2>4 DEF Owned
<1>. QED BY <1>4, <1>5, <1>6

(* run() and the plant's lines: only a restart touches the tasks. *)
LEMMA RunKeeps ==
    ASSUME Owned,
           Dial \/ HangUp \/ Greeted \/ Cut \/ TelemetryFails \/ Restart \/ PlcLine
    PROVE  Owned'
<1>1. CASE Restart
  <2>1. TaskOK' /\ OneTimeline'
    BY <1>1 DEF Restart, TaskOK, OneTimeline, Running, Idle
  <2>2. Latch'
    BY <1>1 DEF Restart, Latch
  <2>. QED BY <2>1, <2>2 DEF Owned
<1>2. CASE PlcLine
  <2>1. UNCHANGED <<task, mode, latched, busy>> /\ driver' = "plant"
    BY <1>2 DEF PlcLine, controlVars, methodVars
  <2>. QED BY <2>1 DEF Owned, TaskOK, Latch, OneTimeline, Running
<1>3. CASE Dial \/ HangUp \/ Greeted \/ Cut \/ TelemetryFails
  <2>1. UNCHANGED <<task, mode, latched, busy, driver>>
    BY <1>3 DEF Dial, HangUp, Greeted, Cut, TelemetryFails, controlVars, methodVars
  <2>. QED BY <2>1 DEF Owned, TaskOK, Latch, OneTimeline, Running
<1>. QED BY <1>1, <1>2, <1>3

LEMMA OwnedStep == Owned /\ [Next]_vars => Owned'
<1>. SUFFICES ASSUME Owned, [Next]_vars PROVE Owned'
  OBVIOUS
<1>1. CASE UNCHANGED vars
  BY <1>1 DEF vars, controlVars, methodVars, Owned, TaskOK, Latch, OneTimeline, Running
<1>2. ASSUME NEW c \in Commands, Read(c) PROVE Owned'
  BY <1>2, ReadKeeps
<1>3. ASSUME NEW c \in Commands, Execute(c) PROVE Owned'
  BY <1>3, AuthorityKeeps, ShortKeeps, StartKeeps, TimelineKeeps DEF Execute
<1>4. CASE Dial \/ HangUp \/ Greeted \/ Cut \/ TelemetryFails \/ Restart \/ PlcLine
  BY <1>4, RunKeeps
<1>. QED BY <1>1, <1>2, <1>3, <1>4 DEF Next

LEMMA InvStep == Inv /\ [Next]_vars => Inv'
  BY OwnedStep, BootsStep DEF Inv

(* One timeline at a time drives the pumps, and only in ENDPOINT: busy of  *)
(* execute() is never given to a second command (pimod.py:230-253).        *)
THEOREM TimelinesExclude == Spec => []OneTimeline
<1>1. Inv => OneTimeline
  BY DEF Inv, Owned
<1>. QED BY InitInv, InvStep, <1>1, PTL DEF Spec

(* A line of the plant reaches the pumps only in BRIDGE, where the hub has *)
(* never driven them since the boot.                                       *)
LEMMA PlantNeverReturns ==
    ASSUME Inv, [Next]_vars, driver = "hub", driver' = "plant"
    PROVE  boots' # boots
<1>1. mode = "ENDPOINT"
  BY DEF Inv, Owned, Latch
<1>2. ~PlcLine
  BY <1>1 DEF PlcLine, Forwards
<1>3. driver' # driver
  OBVIOUS
<1>4. ~UNCHANGED vars
  BY <1>3 DEF vars
<1>5. ASSUME NEW c \in Commands, Read(c) \/ Execute(c) PROVE FALSE
  BY <1>5, <1>3 DEF Read, Execute, Authority, AbortAcked, ShortEnds, Decline, Start,
                    Aborted, Pump, Capture, Succeed
<1>6. ~(Dial \/ HangUp \/ Greeted \/ Cut \/ TelemetryFails)
  BY <1>3 DEF Dial, HangUp, Greeted, Cut, TelemetryFails
<1>7. Restart => boots' # boots
  BY DEF Restart, Inv
<1>. QED BY <1>2, <1>4, <1>5, <1>6, <1>7 DEF Next

(* A step that goes on to the next event has looked at the abort flag. *)
LEMMA AbortHolds ==
    ASSUME [Next]_vars, NEW c \in Commands, Running(c), abort
    PROVE  pos' \in {pos, 1}
<1>1. CASE UNCHANGED vars
  BY <1>1 DEF vars, methodVars
<1>2. ASSUME NEW d \in Commands, Read(d) \/ Execute(d) PROVE pos' \in {pos, 1}
  BY <1>2 DEF Read, Execute, Authority, AbortAcked, ShortEnds, Decline, Start,
              Aborted, Pump, Capture, Succeed, Ends, Forgets, Stopped, methodVars
<1>3. CASE Dial \/ HangUp \/ Greeted \/ Cut \/ TelemetryFails \/ Restart \/ PlcLine
  BY <1>3 DEF Dial, HangUp, Greeted, Cut, TelemetryFails, Restart, PlcLine, methodVars
<1>. QED BY <1>1, <1>2, <1>3 DEF Next

(* The pumps obey one authority (pimod.py:10-14, 176-188, 272-277): after  *)
(* the hub has driven them no line of the plant moves them before a        *)
(* restart, and an aborted timeline goes no further.                       *)
THEOREM PumpsObeyOne == Spec => PumpsObey
<1> DEFINE Obeys ==
      /\ driver = "hub" /\ driver' = "plant" => boots' # boots
      /\ \A c \in Commands : Running(c) /\ abort => pos' \in {pos, 1}
<1>1. Inv /\ [Next]_vars => Obeys
  BY PlantNeverReturns, AbortHolds
<1>2. Inv /\ [Next]_vars => [Obeys]_vars
  BY <1>1
<1>. HIDE DEF Obeys
<1>3. Spec => [][Obeys]_vars
  BY InitInv, InvStep, <1>2, PTL DEF Spec
<1>. QED BY <1>3 DEF PumpsObey, Obeys

-----------------------------------------------------------------------------
(* Pimod: what a timeline leaves behind. *)

(* The events of a timeline that read the detector. *)
AdcAt(es) == {k \in DOMAIN es : es[k].type = "adc"}

(* A timeline takes the light before and after each of the reactions, and  *)
(* nothing else.                                                           *)
Covers(es, pairs) ==
    /\ DOMAIN es = 1..Len(es) /\ Len(es) \in Nat
    /\ \A p \in pairs : \E i, j \in AdcAt(es) :
            i < j /\ es[i].name = p[1] /\ es[j].name = p[2]
    /\ \A k \in AdcAt(es) : \E p \in pairs : es[k].name \in {p[1], p[2]}
    /\ Cardinality(AdcAt(es)) = 2 * Cardinality(pairs)

(* Sets of so many elements, all of them different. *)
LEMMA Two ==
    ASSUME NEW Q, NEW x, NEW y, Q = {x, y}, x # y
    PROVE  IsFiniteSet(Q) /\ Cardinality(Q) = 2
<1>1. IsFiniteSet({x}) /\ Cardinality({x}) = 1
  BY FS_Singleton
<1>2. Q = {x} \union {y} /\ y \notin {x}
  OBVIOUS
<1>. QED BY <1>1, <1>2, FS_AddElement

LEMMA Four ==
    ASSUME NEW Q, NEW a, NEW b, NEW c, NEW d, Q = {a, b, c, d},
           a # b, a # c, a # d, b # c, b # d, c # d
    PROVE  IsFiniteSet(Q) /\ Cardinality(Q) = 4
<1>1. IsFiniteSet({a, b}) /\ Cardinality({a, b}) = 2
  BY Two
<1>2. IsFiniteSet({a, b} \union {c}) /\ Cardinality({a, b} \union {c}) = 3
  BY <1>1, FS_AddElement
<1>3. Q = ({a, b} \union {c}) \union {d} /\ d \notin {a, b} \union {c}
  OBVIOUS
<1>. QED BY <1>2, <1>3, FS_AddElement

LEMMA Five ==
    ASSUME NEW Q, NEW a, NEW b, NEW c, NEW d, NEW e, Q = {a, b, c, d, e},
           a # b, a # c, a # d, a # e, b # c, b # d, b # e, c # d, c # e, d # e
    PROVE  IsFiniteSet(Q) /\ Cardinality(Q) = 5
<1>1. IsFiniteSet({a, b, c, d}) /\ Cardinality({a, b, c, d}) = 4
  BY Four
<1>2. Q = {a, b, c, d} \union {e} /\ e \notin {a, b, c, d}
  OBVIOUS
<1>. QED BY <1>1, <1>2, FS_AddElement

(* The tables of timelines.py, event by event. *)
LEMMA SampleNH4 == Covers(Sample["NH4"], SamplePairs["NH4"])
<1>. DEFINE es == Sample["NH4"]
<1>. DEFINE ps == SamplePairs["NH4"]
<1>1. DOMAIN es = 1..10 /\ Len(es) = 10
  BY DEF Sample
<1>2. /\ es[1].type = "send" /\ es[2].type = "send" /\ es[3].type = "send"
      /\ es[5].type = "send" /\ es[6].type = "send" /\ es[7].type = "send"
      /\ es[9].type = "send" /\ es[10].type = "send"
  BY DEF Sample, S
<1>3. /\ es[4].type = "adc" /\ es[8].type = "adc"
  BY DEF Sample, A
<1>4. /\ es[4].name = "NH4_SAMP_I0" /\ es[8].name = "NH4_SAMP_I1"
  BY DEF Sample, A
<1>5. ps = {<<"NH4_SAMP_I0", "NH4_SAMP_I1">>}
  BY DEF SamplePairs
<1>. HIDE DEF es, ps
<1>6. AdcAt(es) = {4, 8}
  BY <1>1, <1>2, <1>3 DEF AdcAt
<1>7. Cardinality(AdcAt(es)) = 2
  <2>1. 4 # 8
    OBVIOUS
  <2>2. Cardinality({4, 8}) = 2
    BY <2>1, Two, Zenon
  <2>. QED BY <1>6, <2>2
<1>8. Cardinality(ps) = 1
  BY <1>5, FS_Singleton
<1>9. \A p \in ps : \E i, j \in AdcAt(es) : i < j /\ es[i].name = p[1] /\ es[j].name = p[2]
  BY <1>4, <1>5, <1>6
<1>10. \A k \in AdcAt(es) : \E p \in ps : es[k].name \in {p[1], p[2]}
  BY <1>4, <1>5, <1>6
<1>11. Covers(es, ps)
  BY <1>1, <1>7, <1>8, <1>9, <1>10 DEF Covers
<1>. QED BY <1>11 DEF es, ps

LEMMA SampleNOX == Covers(Sample["NOX"], SamplePairs["NOX"])
<1>. DEFINE es == Sample["NOX"]
<1>. DEFINE ps == SamplePairs["NOX"]
<1>1. DOMAIN es = 1..16 /\ Len(es) = 16
  BY DEF Sample
<1>2. /\ es[1].type = "send" /\ es[2].type = "send" /\ es[3].type = "send"
      /\ es[5].type = "send" /\ es[6].type = "send" /\ es[7].type = "send"
      /\ es[9].type = "send" /\ es[10].type = "send" /\ es[12].type = "send"
      /\ es[13].type = "send" /\ es[15].type = "send" /\ es[16].type = "send"
  BY DEF Sample, S
<1>3. /\ es[4].type = "adc" /\ es[8].type = "adc" /\ es[11].type = "adc"
      /\ es[14].type = "adc"
  BY DEF Sample, A
<1>4. /\ es[4].name = "NOX_SAMP_I0" /\ es[8].name = "NO2_SAMP_I0"
      /\ es[11].name = "NO2_SAMP_I1" /\ es[14].name = "NOX_SAMP_I1"
  BY DEF Sample, A
<1>5. ps = {<<"NOX_SAMP_I0", "NOX_SAMP_I1">>, <<"NO2_SAMP_I0", "NO2_SAMP_I1">>}
  BY DEF SamplePairs
<1>. HIDE DEF es, ps
<1>6. AdcAt(es) = {4, 8, 11, 14}
  BY <1>1, <1>2, <1>3 DEF AdcAt
<1>7. Cardinality(AdcAt(es)) = 4
  <2>1. 4 # 8 /\ 4 # 11 /\ 4 # 14 /\ 8 # 11 /\ 8 # 14 /\ 11 # 14
    OBVIOUS
  <2>2. Cardinality({4, 8, 11, 14}) = 4
    BY <2>1, Four, Zenon
  <2>. QED BY <1>6, <2>2
<1>8. Cardinality(ps) = 2
  BY <1>5, Two
<1>9. \A p \in ps : \E i, j \in AdcAt(es) : i < j /\ es[i].name = p[1] /\ es[j].name = p[2]
  BY <1>4, <1>5, <1>6
<1>10. \A k \in AdcAt(es) : \E p \in ps : es[k].name \in {p[1], p[2]}
  BY <1>4, <1>5, <1>6
<1>11. Covers(es, ps)
  BY <1>1, <1>7, <1>8, <1>9, <1>10 DEF Covers
<1>. QED BY <1>11 DEF es, ps

LEMMA SamplePO4 == Covers(Sample["PO4"], SamplePairs["PO4"])
<1>. DEFINE es == Sample["PO4"]
<1>. DEFINE ps == SamplePairs["PO4"]
<1>1. DOMAIN es = 1..8 /\ Len(es) = 8
  BY DEF Sample
<1>2. /\ es[1].type = "send" /\ es[2].type = "send" /\ es[3].type = "send"
      /\ es[5].type = "send" /\ es[6].type = "send" /\ es[8].type = "send"
  BY DEF Sample, S
<1>3. /\ es[4].type = "adc" /\ es[7].type = "adc"
  BY DEF Sample, A
<1>4. /\ es[4].name = "PO4_SAMP_I0" /\ es[7].name = "PO4_SAMP_I1"
  BY DEF Sample, A
<1>5. ps = {<<"PO4_SAMP_I0", "PO4_SAMP_I1">>}
  BY DEF SamplePairs
<1>. HIDE DEF es, ps
<1>6. AdcAt(es) = {4, 7}
  BY <1>1, <1>2, <1>3 DEF AdcAt
<1>7. Cardinality(AdcAt(es)) = 2
  <2>1. 4 # 7
    OBVIOUS
  <2>2. Cardinality({4, 7}) = 2
    BY <2>1, Two, Zenon
  <2>. QED BY <1>6, <2>2
<1>8. Cardinality(ps) = 1
  BY <1>5, FS_Singleton
<1>9. \A p \in ps : \E i, j \in AdcAt(es) : i < j /\ es[i].name = p[1] /\ es[j].name = p[2]
  BY <1>4, <1>5, <1>6
<1>10. \A k \in AdcAt(es) : \E p \in ps : es[k].name \in {p[1], p[2]}
  BY <1>4, <1>5, <1>6
<1>11. Covers(es, ps)
  BY <1>1, <1>7, <1>8, <1>9, <1>10 DEF Covers
<1>. QED BY <1>11 DEF es, ps

LEMMA CalibrateNH4 == Covers(Calibrate["NH4"], FitPairs["NH4"])
<1>. DEFINE es == Calibrate["NH4"]
<1>. DEFINE ps == FitPairs["NH4"]
<1>1. DOMAIN es = 1..19 /\ Len(es) = 19
  BY DEF Calibrate
<1>2. /\ es[1].type = "send" /\ es[2].type = "send" /\ es[3].type = "send"
      /\ es[5].type = "send" /\ es[6].type = "send" /\ es[7].type = "send"
      /\ es[9].type = "send" /\ es[10].type = "send" /\ es[11].type = "send"
      /\ es[12].type = "send" /\ es[14].type = "send" /\ es[15].type = "send"
      /\ es[16].type = "send" /\ es[18].type = "send" /\ es[19].type = "send"
  BY DEF Calibrate, S
<1>3. /\ es[4].type = "adc" /\ es[8].type = "adc" /\ es[13].type = "adc"
      /\ es[17].type = "adc"
  BY DEF Calibrate, A
<1>4. /\ es[4].name = "NH4_CAL_DIW_I0" /\ es[8].name = "NH4_CAL_DIW_I1"
      /\ es[13].name = "NH4_CAL_STD_I0" /\ es[17].name = "NH4_CAL_STD_I1"
  BY DEF Calibrate, A
<1>5. ps = {<<"NH4_CAL_DIW_I0", "NH4_CAL_DIW_I1">>,
            <<"NH4_CAL_STD_I0", "NH4_CAL_STD_I1">>}
  BY DEF FitPairs
<1>. HIDE DEF es, ps
<1>6. AdcAt(es) = {4, 8, 13, 17}
  BY <1>1, <1>2, <1>3 DEF AdcAt
<1>7. Cardinality(AdcAt(es)) = 4
  <2>1. 4 # 8 /\ 4 # 13 /\ 4 # 17 /\ 8 # 13 /\ 8 # 17 /\ 13 # 17
    OBVIOUS
  <2>2. Cardinality({4, 8, 13, 17}) = 4
    BY <2>1, Four, Zenon
  <2>. QED BY <1>6, <2>2
<1>8. Cardinality(ps) = 2
  BY <1>5, Two
<1>9. \A p \in ps : \E i, j \in AdcAt(es) : i < j /\ es[i].name = p[1] /\ es[j].name = p[2]
  BY <1>4, <1>5, <1>6
<1>10. \A k \in AdcAt(es) : \E p \in ps : es[k].name \in {p[1], p[2]}
  BY <1>4, <1>5, <1>6
<1>11. Covers(es, ps)
  BY <1>1, <1>7, <1>8, <1>9, <1>10 DEF Covers
<1>. QED BY <1>11 DEF es, ps

LEMMA CalibrateNOX == Covers(Calibrate["NOX"], FitPairs["NOX"])
<1>. DEFINE es == Calibrate["NOX"]
<1>. DEFINE ps == FitPairs["NOX"]
<1>1. DOMAIN es = 1..39 /\ Len(es) = 39
  BY DEF Calibrate
<1>2. /\ es[1].type = "send" /\ es[2].type = "send" /\ es[3].type = "send"
      /\ es[5].type = "send" /\ es[6].type = "send" /\ es[7].type = "send"
      /\ es[9].type = "send" /\ es[10].type = "send" /\ es[12].type = "send"
      /\ es[13].type = "send" /\ es[15].type = "send" /\ es[16].type = "send"
      /\ es[17].type = "send" /\ es[18].type = "send" /\ es[20].type = "send"
  BY DEF Calibrate, S
<1>3. /\ es[21].type = "send" /\ es[22].type = "send" /\ es[24].type = "send"
      /\ es[25].type = "send" /\ es[27].type = "send" /\ es[28].type = "send"
      /\ es[30].type = "send" /\ es[31].type = "send" /\ es[32].type = "send"
      /\ es[34].type = "send" /\ es[35].type = "send" /\ es[36].type = "send"
      /\ es[38].type = "send" /\ es[39].type = "send"
  BY DEF Calibrate, S
<1>4. /\ es[4].type = "adc" /\ es[8].type = "adc" /\ es[11].type = "adc"
      /\ es[14].type = "adc" /\ es[19].type = "adc" /\ es[23].type = "adc"
      /\ es[26].type = "adc" /\ es[29].type = "adc" /\ es[33].type = "adc"
      /\ es[37].type = "adc"
  BY DEF Calibrate, A
<1>5. /\ es[4].name = "NOX_CAL_DIW_I0" /\ es[8].name = "NO2_CAL_DIW_I0"
      /\ es[11].name = "NO2_CAL_DIW_I1" /\ es[14].name = "NOX_CAL_DIW_I1"
      /\ es[19].name = "NOX_CAL_STD_I0" /\ es[23].name = "NO2_CAL_STD_I0"
      /\ es[26].name = "NO2_CAL_STD_I1" /\ es[29].name = "NOX_CAL_STD_I1"
      /\ es[33].name = "NOX_CAL_STD_I0_5X" /\ es[37].name = "NOX_CAL_STD_I1_5X"
  BY DEF Calibrate, A
<1>6. ps = {<<"NOX_CAL_DIW_I0", "NOX_CAL_DIW_I1">>,
            <<"NOX_CAL_STD_I0", "NOX_CAL_STD_I1">>,
            <<"NOX_CAL_STD_I0_5X", "NOX_CAL_STD_I1_5X">>,
            <<"NO2_CAL_DIW_I0", "NO2_CAL_DIW_I1">>,
            <<"NO2_CAL_STD_I0", "NO2_CAL_STD_I1">>}
  BY DEF FitPairs
<1>. HIDE DEF es, ps
<1>7. AdcAt(es) = {4, 8, 11, 14, 19, 23, 26, 29, 33, 37}
  BY <1>1, <1>2, <1>3, <1>4 DEF AdcAt
<1>8. Cardinality(AdcAt(es)) = 10
  <2>. DEFINE early == {4, 8, 11, 14, 19}
  <2>. DEFINE late == {23, 26, 29, 33, 37}
  <2>1. AdcAt(es) = early \union late /\ early \cap late = {}
    BY <1>7
  <2>. HIDE DEF early, late
  <2>2. IsFiniteSet(early) /\ Cardinality(early) = 5
    <3>1. /\ 4 # 8 /\ 4 # 11 /\ 4 # 14 /\ 4 # 19 /\ 8 # 11
          /\ 8 # 14 /\ 8 # 19 /\ 11 # 14 /\ 11 # 19 /\ 14 # 19
      OBVIOUS
    <3>. QED BY <3>1, Five, Zenon DEF early
  <2>3. IsFiniteSet(late) /\ Cardinality(late) = 5
    <3>1. /\ 23 # 26 /\ 23 # 29 /\ 23 # 33 /\ 23 # 37 /\ 26 # 29
          /\ 26 # 33 /\ 26 # 37 /\ 29 # 33 /\ 29 # 37 /\ 33 # 37
      OBVIOUS
    <3>. QED BY <3>1, Five, Zenon DEF late
  <2>. QED BY <2>1, <2>2, <2>3, FS_Union, FS_EmptySet
<1>9. Cardinality(ps) = 5
  BY <1>6, Five
<1>10. \A p \in ps : \E i, j \in AdcAt(es) : i < j /\ es[i].name = p[1] /\ es[j].name = p[2]
  BY <1>5, <1>6, <1>7
<1>11. \A k \in AdcAt(es) : \E p \in ps : es[k].name \in {p[1], p[2]}
  BY <1>5, <1>6, <1>7
<1>12. Covers(es, ps)
  BY <1>1, <1>8, <1>9, <1>10, <1>11 DEF Covers
<1>. QED BY <1>12 DEF es, ps

LEMMA CalibratePO4 == Covers(Calibrate["PO4"], FitPairs["PO4"])
<1>. DEFINE es == Calibrate["PO4"]
<1>. DEFINE ps == FitPairs["PO4"]
<1>1. DOMAIN es = 1..13 /\ Len(es) = 13
  BY DEF Calibrate
<1>2. /\ es[1].type = "send" /\ es[2].type = "send" /\ es[4].type = "send"
      /\ es[5].type = "send" /\ es[7].type = "send" /\ es[8].type = "send"
      /\ es[10].type = "send" /\ es[11].type = "send" /\ es[13].type = "send"
  BY DEF Calibrate, S
<1>3. /\ es[3].type = "adc" /\ es[6].type = "adc" /\ es[9].type = "adc"
      /\ es[12].type = "adc"
  BY DEF Calibrate, A
<1>4. /\ es[3].name = "PO4_CAL_DIW_I0" /\ es[6].name = "PO4_CAL_DIW_I1"
      /\ es[9].name = "PO4_CAL_STD_I0" /\ es[12].name = "PO4_CAL_STD_I1"
  BY DEF Calibrate, A
<1>5. ps = {<<"PO4_CAL_DIW_I0", "PO4_CAL_DIW_I1">>,
            <<"PO4_CAL_STD_I0", "PO4_CAL_STD_I1">>}
  BY DEF FitPairs
<1>. HIDE DEF es, ps
<1>6. AdcAt(es) = {3, 6, 9, 12}
  BY <1>1, <1>2, <1>3 DEF AdcAt
<1>7. Cardinality(AdcAt(es)) = 4
  <2>1. 3 # 6 /\ 3 # 9 /\ 3 # 12 /\ 6 # 9 /\ 6 # 12 /\ 9 # 12
    OBVIOUS
  <2>2. Cardinality({3, 6, 9, 12}) = 4
    BY <2>1, Four, Zenon
  <2>. QED BY <1>6, <2>2
<1>8. Cardinality(ps) = 2
  BY <1>5, Two
<1>9. \A p \in ps : \E i, j \in AdcAt(es) : i < j /\ es[i].name = p[1] /\ es[j].name = p[2]
  BY <1>4, <1>5, <1>6
<1>10. \A k \in AdcAt(es) : \E p \in ps : es[k].name \in {p[1], p[2]}
  BY <1>4, <1>5, <1>6
<1>11. Covers(es, ps)
  BY <1>1, <1>7, <1>8, <1>9, <1>10 DEF Covers
<1>. QED BY <1>11 DEF es, ps

(* Priming reads no light. *)
LEMMA PrimeAny == \A a \in Analytes : Covers(Prime[a], {})
<1>. SUFFICES ASSUME NEW a \in Analytes PROVE Covers(Prime[a], {})
  OBVIOUS
<1>. DEFINE es == Prime[a]
<1>1. DOMAIN es = 1..3 /\ Len(es) = 3
  BY DEF Prime, Analytes
<1>2. es[1].type = "send" /\ es[2].type = "send" /\ es[3].type = "send"
  <2>1. CASE a = "NH4"
    BY <2>1 DEF Prime, S
  <2>2. CASE a = "NOX"
    BY <2>2 DEF Prime, S
  <2>3. CASE a = "PO4"
    BY <2>3 DEF Prime, S
  <2>. QED BY <2>1, <2>2, <2>3 DEF Analytes
<1>. HIDE DEF es
<1>3. AdcAt(es) = {}
  BY <1>1, <1>2 DEF AdcAt
<1>4. Covers(es, {})
  BY <1>1, <1>3, FS_EmptySet DEF Covers
<1>. QED BY <1>4 DEF es

(* The timelines of timelines.py against the names of interpret.py: every  *)
(* method of every analyte reads the light it needs, once.                 *)
LEMMA TimelinesCover ==
    \A m \in Methods, a \in Analytes : Covers(Timeline(m, a), Pairs(m, a))
<1>. SUFFICES ASSUME NEW m \in Methods, NEW a \in Analytes
              PROVE  Covers(Timeline(m, a), Pairs(m, a))
  OBVIOUS
<1>1. CASE m = "prime"
  BY <1>1, PrimeAny DEF Timeline, Pairs
<1>2. CASE m = "calibrate"
  BY <1>2, CalibrateNH4, CalibrateNOX, CalibratePO4 DEF Timeline, Pairs, Analytes
<1>3. CASE m = "sample"
  BY <1>3, SampleNH4, SampleNOX, SamplePO4 DEF Timeline, Pairs, Analytes
<1>. QED BY <1>1, <1>2, <1>3 DEF Methods

(* How often the detector is read in the first n events. *)
Taken(es, n) == Cardinality(AdcAt(es) \cap (1..n))

LEMMA TakenCounts ==
    ASSUME NEW es, NEW n \in Nat
    PROVE  /\ IsFiniteSet(AdcAt(es) \cap (1..n))
           /\ Taken(es, n) \in Nat
           /\ Taken(es, 0) = 0
           /\ Taken(es, n + 1) =
                IF n + 1 \in AdcAt(es) THEN Taken(es, n) + 1 ELSE Taken(es, n)
<1>. DEFINE first == AdcAt(es) \cap (1..n)
<1>1. IsFiniteSet(1..n)
  BY FS_Interval
<1>2. IsFiniteSet(first)
  BY <1>1, FS_Subset, first \subseteq 1..n
<1>3. Cardinality(first) \in Nat
  BY <1>2, FS_CardinalityType
<1>4. AdcAt(es) \cap (1..0) = {}
  OBVIOUS
<1>5. CASE n + 1 \in AdcAt(es)
  <2>1. AdcAt(es) \cap (1..(n + 1)) = first \union {n + 1} /\ n + 1 \notin first
    BY <1>5
  <2>. HIDE DEF first
  <2>2. Cardinality(first \union {n + 1}) = Cardinality(first) + 1
    BY <1>2, <2>1, FS_AddElement
  <2>. QED BY <1>2, <1>3, <1>4, <1>5, <2>1, <2>2, FS_EmptySet DEF Taken, first
<1>6. CASE n + 1 \notin AdcAt(es)
  <2>1. AdcAt(es) \cap (1..(n + 1)) = first
    BY <1>6
  <2>. QED BY <1>2, <1>3, <1>4, <1>6, <2>1, FS_EmptySet DEF Taken
<1>. QED BY <1>5, <1>6

LEMMA TakenGrows ==
    ASSUME NEW es, NEW i \in Nat, NEW j \in AdcAt(es), j \in Nat, i < j
    PROVE  Taken(es, i) < Taken(es, j)
<1>. DEFINE early == AdcAt(es) \cap (1..i)
<1>. DEFINE late == AdcAt(es) \cap (1..j)
<1>1. IsFiniteSet(early) /\ IsFiniteSet(late)
  BY TakenCounts
<1>2. Cardinality(early) \in Nat /\ Cardinality(late) \in Nat
  BY <1>1, FS_CardinalityType
<1>3. early \subseteq late /\ j \in late /\ j \notin early
  OBVIOUS
<1>. HIDE DEF early, late
<1>4. Cardinality(early) <= Cardinality(late) /\ Cardinality(early) # Cardinality(late)
  BY <1>1, <1>3, FS_Subset
<1>5. Cardinality(early) < Cardinality(late)
  BY <1>2, <1>4
<1>. QED BY <1>5 DEF Taken, early, late

(* The captures after the first n events: the names of its readings, in    *)
(* their order.                                                            *)
Follows(names, es, n) ==
    /\ Len(names) = Taken(es, n)
    /\ \A k \in AdcAt(es) \cap (1..n) : names[Taken(es, k)] = es[k].name

Names == UNION {{p[1], p[2]} : p \in UNION
                    {Pairs(m, a) : m \in Methods, a \in Analytes}}

LEMMA NoneYet ==
    ASSUME NEW es PROVE <<>> \in Seq(Names) /\ Follows(<<>>, es, 0)
<1>1. Taken(es, 0) = 0
  BY TakenCounts
<1>. QED BY <1>1 DEF Follows

LEMMA FollowsOn ==
    ASSUME NEW es, NEW names \in Seq(Names), NEW n \in Nat, Follows(names, es, n),
           n + 1 \in DOMAIN es
    PROVE  /\ es[n + 1].type # "adc" => Follows(names, es, n + 1)
           /\ es[n + 1].type = "adc" => Follows(Append(names, es[n + 1].name), es, n + 1)
<1>1. CASE es[n + 1].type # "adc"
  <2>1. n + 1 \notin AdcAt(es)
    BY <1>1 DEF AdcAt
  <2>2. AdcAt(es) \cap (1..(n + 1)) = AdcAt(es) \cap (1..n)
    BY <2>1
  <2>. QED BY <1>1, <2>2 DEF Follows, Taken
<1>2. CASE es[n + 1].type = "adc"
  <2>. DEFINE more == Append(names, es[n + 1].name)
  <2>1. n + 1 \in AdcAt(es)
    BY <1>2 DEF AdcAt
  <2>2. Taken(es, n) \in Nat /\ Taken(es, n + 1) = Taken(es, n) + 1
    BY <2>1, TakenCounts
  <2>3. Len(names) = Taken(es, n)
    BY DEF Follows
  <2>4. Len(more) = Taken(es, n + 1) /\ more[Taken(es, n + 1)] = es[n + 1].name
    BY <2>2, <2>3
  <2>5. ASSUME NEW k \in AdcAt(es) \cap (1..n) PROVE more[Taken(es, k)] = es[k].name
    <3>1. names[Taken(es, k)] = es[k].name
      BY DEF Follows
    <3>2. Taken(es, k) \in Nat /\ Taken(es, k) < Taken(es, n + 1)
      <4>1. k \in Nat /\ k < n + 1 /\ n + 1 \in Nat
        OBVIOUS
      <4>2. Taken(es, k) \in Nat
        BY <4>1, TakenCounts
      <4>3. Taken(es, k) < Taken(es, n + 1)
        BY <4>1, <2>1, TakenGrows
      <4>. QED BY <4>2, <4>3
    <3>3. Taken(es, k) > 0
      <4>1. 0 < k /\ k \in AdcAt(es) /\ k \in Nat
        OBVIOUS
      <4>2. Taken(es, 0) = 0
        BY TakenCounts
      <4>. QED BY <4>1, <4>2, TakenGrows
    <3>4. Taken(es, k) \in 1..Len(names)
      BY <2>2, <2>3, <3>2, <3>3
    <3>. QED BY <3>1, <3>4
  <2>6. \A k \in AdcAt(es) \cap (1..(n + 1)) :
            k = n + 1 \/ k \in AdcAt(es) \cap (1..n)
    OBVIOUS
  <2>. HIDE DEF more
  <2>7. Follows(more, es, n + 1)
    BY <2>4, <2>5, <2>6 DEF Follows
  <2>. QED BY <1>2, <2>7 DEF more
<1>. QED BY <1>1, <1>2

(* What the fit or the sample on the hub asks of the captures. *)
Complete(names, pairs) ==
    /\ \A p \in pairs : Before(names, p)
    /\ Len(names) = 2 * Cardinality(pairs)

LEMMA FollowsToTheEnd ==
    ASSUME NEW es, NEW pairs, Covers(es, pairs),
           NEW names \in Seq(Names), Follows(names, es, Len(es))
    PROVE  Complete(names, pairs)
<1>1. DOMAIN es = 1..Len(es) /\ Len(es) \in Nat
  BY DEF Covers
<1>2. AdcAt(es) \cap (1..Len(es)) = AdcAt(es) /\ AdcAt(es) \subseteq Nat
  BY <1>1 DEF AdcAt
<1>3. Len(names) = Cardinality(AdcAt(es))
  BY <1>2 DEF Follows, Taken
<1>4. ASSUME NEW k \in AdcAt(es)
      PROVE  Taken(es, k) \in DOMAIN names /\ names[Taken(es, k)] = es[k].name
  <2>1. k \in Nat /\ 0 < k /\ k <= Len(es)
    BY <1>1 DEF AdcAt
  <2>2. Taken(es, 0) = 0 /\ Taken(es, k) \in Nat /\ Taken(es, Len(es)) \in Nat
    BY <1>1, <2>1, TakenCounts
  <2>3. 0 < Taken(es, k)
    BY <2>1, <2>2, TakenGrows
  <2>4. Taken(es, k) <= Taken(es, Len(es))
    <3>1. AdcAt(es) \cap (1..k) \subseteq AdcAt(es) \cap (1..Len(es))
      BY <1>1, <2>1
    <3>2. IsFiniteSet(AdcAt(es) \cap (1..Len(es)))
      BY <1>1, TakenCounts
    <3>. QED BY <3>1, <3>2, FS_Subset DEF Taken
  <2>5. Taken(es, k) \in 1..Len(names)
    BY <2>2, <2>3, <2>4 DEF Follows
  <2>. QED BY <1>2, <2>5 DEF Follows
<1>5. ASSUME NEW p \in pairs PROVE Before(names, p)
  <2>1. PICK i, j \in AdcAt(es) : i < j /\ es[i].name = p[1] /\ es[j].name = p[2]
    BY DEF Covers
  <2>2. Taken(es, i) < Taken(es, j)
    BY <1>2, <2>1, TakenGrows
  <2>. QED BY <1>4, <2>1, <2>2 DEF Before
<1>. QED BY <1>3, <1>5 DEF Complete, Covers

-----------------------------------------------------------------------------
(* Pimod: everything it keeps. *)

(* A connection is written to only while run() holds it. *)
Ports ==
    /\ analyte \in Fitted
    /\ phase \in {"offline", "hello", "held", "adopted"}
    /\ link \in {"none", "up", "cut"}
    /\ writer \in BOOLEAN
    /\ writer => link # "none"
    /\ driver \in {"nobody", "plant", "hub"}

LEMMA PortsStep == Ports /\ [Next]_vars => Ports'
<1>. SUFFICES ASSUME Ports, [Next]_vars PROVE Ports'
  OBVIOUS
<1>. USE DEF Ports
<1>1. CASE UNCHANGED vars
  BY <1>1 DEF vars, runVars
<1>2. ASSUME NEW c \in Commands, Read(c) PROVE Ports'
  BY <1>2 DEF Read, runVars
<1>3. ASSUME NEW c \in Commands, Execute(c) PROVE Ports'
  BY <1>3 DEF Execute, Authority, AbortAcked, ShortEnds, Decline, Start,
              Aborted, Pump, Capture, Succeed, runVars
<1>4. CASE Dial
  BY <1>4 DEF Dial
<1>5. CASE HangUp
  BY <1>5 DEF HangUp
<1>6. CASE Greeted
  BY <1>6 DEF Greeted
<1>7. CASE Cut
  BY <1>7 DEF Cut
<1>8. CASE TelemetryFails
  BY <1>8 DEF TelemetryFails
<1>9. CASE Restart
  BY <1>9 DEF Restart
<1>10. CASE PlcLine
  BY <1>10 DEF PlcLine, runVars
<1>. QED
  BY <1>1, <1>2, <1>3, <1>4, <1>5, <1>6, <1>7, <1>8, <1>9, <1>10 DEF Next

LEMMA AnalyteStays == [Next]_vars => analyte' = analyte
<1>. SUFFICES ASSUME [Next]_vars PROVE analyte' = analyte
  OBVIOUS
<1>1. CASE UNCHANGED vars
  BY <1>1 DEF vars
<1>2. ASSUME NEW c \in Commands, Read(c) \/ Execute(c) PROVE analyte' = analyte
  BY <1>2 DEF Read, Execute, Authority, AbortAcked, ShortEnds, Decline, Start,
              Aborted, Pump, Capture, Succeed
<1>3. CASE Dial \/ HangUp \/ Greeted \/ Cut \/ TelemetryFails \/ Restart \/ PlcLine
  BY <1>3 DEF Dial, HangUp, Greeted, Cut, TelemetryFails, Restart, PlcLine
<1>. QED BY <1>1, <1>2, <1>3 DEF Next

ShortTypes == {"take_control", "bridge", "abort"}

(* busy stands for the timeline under way, or for one whose ACK raised;    *)
(* the captures are those of the events that timeline has behind it.       *)
Instrument ==
    /\ abort \in BOOLEAN
    /\ busy \in Commands \union {NoCommand}
    /\ busy # NoCommand => task[busy].pc \in {"running", "dead"}
    /\ pos \in Nat \ {0}
    /\ captures \in Seq(Names)
    /\ \A c \in Commands : Running(c) =>
            /\ task[c].type \in Methods
            /\ pos <= Len(Events(c)) + 1
            /\ Follows(captures, Events(c), pos - 1)
    /\ \A c \in Commands : task[c].pc \in {"acked", "refused"} => task[c].type \in ShortTypes

(* What the hub was told, of a command that has run to its end. *)
Truthful(f, type) ==
    f.status = "succeeded" /\ type \in Methods =>
        Complete(f.captures, Pairs(type, analyte))

Told ==
    /\ answers \in [Commands -> Seq(Frames)]
    /\ \A c \in Commands : \A i \in DOMAIN answers[c] :
            Truthful(answers[c][i], task[c].type)

Whole == Owned /\ Ports /\ Instrument /\ Told

(* The invariant the run checks, in full. *)
LEMMA WholeIsConsistent == Whole => Consistent
<1>. SUFFICES ASSUME Whole PROVE Consistent
  OBVIOUS
<1>1. {latched, abort} \subseteq BOOLEAN
  BY DEF Whole, Owned, Latch, Instrument
<1>2. TypeOK
  BY <1>1 DEF TypeOK, Whole, Owned, TaskOK, Latch, Ports, Instrument, Told
<1>3. /\ latched <=> mode = "ENDPOINT"
      /\ \A c \in Commands : Running(c) => busy = c /\ mode = "ENDPOINT"
  BY DEF Whole, Owned, Latch, OneTimeline
<1>4. /\ writer => link # "none"
      /\ busy # NoCommand => task[busy].pc \in {"running", "dead"}
  BY DEF Whole, Ports, Instrument
<1>. QED BY <1>2, <1>3, <1>4 DEF Consistent

LEMMA WholeIsComplete == Whole => SucceededIsComplete
  BY DEF Whole, Told, Truthful, Complete, SucceededIsComplete

(* One more answer that is true, or none. *)
LEMMA TellsOne ==
    ASSUME Told, analyte' = analyte, NEW c \in Commands, NEW f \in Frames,
           Truthful(f, task[c].type),
           Says(c, <<f>>) \/ UNCHANGED answers,
           \A d \in Commands : task'[d].type = task[d].type
    PROVE  Told'
<1>1. CASE UNCHANGED answers
  BY <1>1 DEF Told, Truthful
<1>2. CASE answers' = [answers EXCEPT ![c] = @ \o <<f>>]
  <2>1. answers[c] \in Seq(Frames) /\ <<f>> \in Seq(Frames)
    BY DEF Told
  <2>2. answers'[c] = answers[c] \o <<f>> /\ answers'[c] \in Seq(Frames)
    BY <1>2, <2>1 DEF Told
  <2>3. \A d \in Commands \ {c} : answers'[d] = answers[d]
    BY <1>2 DEF Told
  <2>4. answers' \in [Commands -> Seq(Frames)]
    BY <1>2, <2>1, <2>2 DEF Told
  <2>5. ASSUME NEW i \in DOMAIN answers'[c]
        PROVE  answers'[c][i] = f \/ (i \in DOMAIN answers[c] /\ answers'[c][i] = answers[c][i])
    BY <2>1, <2>2
  <2>6. \A g : Truthful(g, task[c].type)' <=> Truthful(g, task[c].type)
    BY DEF Truthful
  <2>. QED BY <2>3, <2>4, <2>5 DEF Told, Truthful
<1>. QED BY <1>1, <1>2 DEF Says

LEMMA FrameTypes ==
    /\ Ack \in Frames /\ Nack \in Frames
    /\ \A status \in {"succeeded", "failed", "aborted"}, names \in Seq(Names) :
            Result(status, names) \in Frames
  BY DEF Ack, Nack, Result, Frames, Names

(* A step of the tasks that leaves the timeline alone. *)
LEMMA InstrumentStays ==
    ASSUME Owned, Instrument, analyte' = analyte, NEW c \in Commands,
           NEW pc \in {"acked", "refused", "done", "dead"}, Moves(c, pc),
           task[c].pc \notin {"running", "dead"},
           pc \in {"acked", "refused"} => task[c].type \in ShortTypes,
           abort' \in BOOLEAN, UNCHANGED <<busy, pos, captures>>
    PROVE  Instrument'
<1>1. task'[c].pc = pc /\ \A d \in Commands \ {c} : task'[d] = task[d]
  BY TaskStep DEF Owned
<1>2. task'[c].type = task[c].type
  BY DEF Owned, TaskOK, Moves
<1>3. busy' # NoCommand => task'[busy'].pc \in {"running", "dead"}
  BY <1>1 DEF Instrument
<1>4. ASSUME NEW d \in Commands, Running(d)'
      PROVE  Running(d) /\ task'[d] = task[d] /\ Events(d)' = Events(d)
  BY <1>1, <1>4 DEF Running, Events
<1>5. \A d \in Commands : task'[d].pc \in {"acked", "refused"} => task'[d].type \in ShortTypes
  BY <1>1, <1>2 DEF Instrument
<1>. QED BY <1>3, <1>4, <1>5 DEF Instrument

(* The timeline is over, in whatever way: the instrument is free again. *)
LEMMA InstrumentFreed ==
    ASSUME Owned, Instrument, NEW c \in Commands, Running(c),
           NEW pc \in {"done", "dead"}, Moves(c, pc), Frees, Forgets, abort' = abort
    PROVE  Instrument'
<1>1. task'[c].pc = pc /\ \A d \in Commands \ {c} : task'[d] = task[d]
  BY TaskStep DEF Owned
<1>2. \A d \in Commands : ~Running(d)'
  BY <1>1 DEF Owned, OneTimeline, Running
<1>3. <<>> \in Seq(Names)
  OBVIOUS
<1>. QED BY <1>1, <1>2, <1>3 DEF Instrument, Frees, Forgets

LEMMA TypesStay ==
    ASSUME TaskOK, NEW c \in Commands,
           UNCHANGED task \/ \E pc \in {"acked", "refused", "running", "done", "dead"} : Moves(c, pc)
    PROVE  \A d \in Commands : task'[d].type = task[d].type
  BY DEF TaskOK, Moves

Rest == Instrument /\ Told

LEMMA ReadRests ==
    ASSUME Owned, Rest, NEW c \in Commands, Read(c) PROVE Rest'
<1>1. PICK t \in Types : task' = [task EXCEPT ![c] = [pc |-> "read", type |-> t]]
  BY PimodAssumption DEF Read
<1>2. /\ task[c].pc = "none" /\ answers[c] = <<>>
      /\ UNCHANGED <<analyte, busy, abort, pos, captures, answers>>
  BY DEF Read, Idle, methodVars
<1>3. /\ task'[c].pc = "read"
      /\ \A d \in Commands \ {c} : task'[d] = task[d]
  BY <1>1 DEF Owned, TaskOK
<1>4. busy' # NoCommand => task'[busy'].pc \in {"running", "dead"}
  BY <1>2, <1>3 DEF Rest, Instrument
<1>5. ASSUME NEW d \in Commands, Running(d)'
      PROVE  Running(d) /\ task'[d] = task[d] /\ Events(d)' = Events(d)
  BY <1>2, <1>3, <1>5 DEF Running, Events
<1>6. Instrument'
  BY <1>2, <1>3, <1>4, <1>5 DEF Rest, Instrument
<1>7. ASSUME NEW d \in Commands, NEW i \in DOMAIN answers'[d]
      PROVE  Truthful(answers[d][i], task[d].type)'
  <2>1. d # c
    BY <1>2, <1>7
  <2>2. Truthful(answers[d][i], task[d].type)
    BY <1>2, <1>7 DEF Rest, Told
  <2>. QED BY <1>2, <1>3, <2>1, <2>2 DEF Truthful
<1>8. Told'
  BY <1>2, <1>7 DEF Rest, Told
<1>. QED BY <1>6, <1>8 DEF Rest

LEMMA ShortRests ==
    ASSUME Owned, Rest, NEW c \in Commands, AbortAcked(c) \/ ShortEnds(c) \/ Decline(c)
    PROVE  Rest'
<1>. USE DEF Rest
<1>1. /\ task[c].pc \in {"read", "acked", "refused"}
      /\ UNCHANGED <<analyte, busy, pos, captures>>
  BY DEF AbortAcked, ShortEnds, Decline, methodVars
<1>2. abort' \in BOOLEAN
  BY DEF AbortAcked, ShortEnds, Decline, methodVars, Instrument
<1>3. CASE AbortAcked(c)
  <2>1. task[c].type = "abort"
    BY <1>3 DEF AbortAcked
  <2>2. PICK pc \in {"acked", "dead"} : Moves(c, pc) /\ (Says(c, <<Ack>>) \/ UNCHANGED answers)
    BY <1>3 DEF AbortAcked, Raises
  <2>3. Instrument'
    BY <1>1, <1>2, <2>1, <2>2, InstrumentStays DEF ShortTypes
  <2>4. \A d \in Commands : task'[d].type = task[d].type
    BY <2>2, TypesStay DEF Owned
  <2>5. Truthful(Ack, task[c].type)
    BY DEF Truthful, Ack
  <2>. QED BY <1>1, <2>2, <2>3, <2>4, <2>5, TellsOne, FrameTypes
<1>4. CASE ShortEnds(c)
  <2>. DEFINE f == Result(IF task[c].pc = "acked" THEN "succeeded" ELSE "failed", <<>>)
  <2>1. PICK pc \in {"done", "dead"} : Moves(c, pc) /\ (Says(c, <<f>>) \/ UNCHANGED answers)
    BY <1>4 DEF ShortEnds, Raises
  <2>2. task[c].type \in ShortTypes
    BY <1>4 DEF ShortEnds, Instrument
  <2>3. Instrument'
    BY <1>1, <1>2, <2>1, InstrumentStays
  <2>4. \A d \in Commands : task'[d].type = task[d].type
    BY <2>1, TypesStay DEF Owned
  <2>5. Truthful(f, task[c].type)
    BY <2>2 DEF Truthful, ShortTypes, Methods
  <2>6. f \in Frames
    <3>1. <<>> \in Seq(Names)
      OBVIOUS
    <3>. QED BY <3>1, FrameTypes
  <2>. HIDE DEF f
  <2>. QED BY <1>1, <2>1, <2>3, <2>4, <2>5, <2>6, TellsOne
<1>5. CASE Decline(c)
  <2>1. PICK pc \in {"done", "dead"} : Moves(c, pc) /\ (Says(c, <<Nack>>) \/ UNCHANGED answers)
    BY <1>5 DEF Decline, Raises
  <2>2. Instrument'
    BY <1>1, <1>2, <2>1, InstrumentStays
  <2>3. \A d \in Commands : task'[d].type = task[d].type
    BY <2>1, TypesStay DEF Owned
  <2>4. Truthful(Nack, task[c].type)
    BY DEF Truthful, Nack
  <2>. QED BY <1>1, <2>1, <2>2, <2>3, <2>4, TellsOne, FrameTypes
<1>. QED BY <1>3, <1>4, <1>5

LEMMA AuthorityRests ==
    ASSUME Owned, Rest, NEW c \in Commands, Authority(c) PROVE Rest'
<1>. USE DEF Rest
<1>1. /\ task[c].pc = "read" /\ task[c].type \in ShortTypes
      /\ UNCHANGED <<analyte, busy, abort, pos, captures>>
  BY DEF Authority, methodVars, ShortTypes
<1>2. PICK pc \in {"acked", "refused", "dead"} :
          Moves(c, pc) /\ (Says(c, <<Ack>>) \/ UNCHANGED answers)
  BY DEF Authority, Raises
<1>3. abort' \in BOOLEAN
  BY <1>1 DEF Instrument
<1>4. Instrument'
  BY <1>1, <1>2, <1>3, InstrumentStays
<1>5. \A d \in Commands : task'[d].type = task[d].type
  BY <1>2, TypesStay DEF Owned
<1>6. Truthful(Ack, task[c].type)
  BY DEF Truthful, Ack
<1>. QED BY <1>1, <1>2, <1>4, <1>5, <1>6, TellsOne, FrameTypes

LEMMA Fits == Ports => analyte \in Analytes
  BY PimodAssumption DEF Ports

LEMMA StartRests ==
    ASSUME Owned, Ports, Rest, NEW c \in Commands, Start(c) PROVE Rest'
<1>. USE DEF Rest
<1>1. /\ task[c].type \in Methods /\ busy = NoCommand
      /\ busy' = c /\ abort' = FALSE /\ pos' = 1 /\ captures' = <<>>
      /\ analyte' = analyte
  BY DEF Start, Free
<1>2. PICK pc \in {"running", "dead"} :
          Moves(c, pc) /\ (Says(c, <<Ack>>) \/ UNCHANGED answers)
  BY DEF Start, Raises
<1>3. task'[c].pc = pc /\ \A d \in Commands \ {c} : task'[d] = task[d]
  BY <1>2, TaskStep DEF Owned
<1>4. \A d \in Commands : task'[d].type = task[d].type
  BY <1>2, TypesStay DEF Owned
<1>5. \A d \in Commands \ {c} : ~Running(d)'
  BY <1>1, <1>3, PimodAssumption DEF Owned, OneTimeline, Running
<1>6. /\ <<>> \in Seq(Names)
      /\ \A es : Follows(<<>>, es, 0)
  BY NoneYet
<1>7. Running(c)' => Follows(captures', Events(c)', pos' - 1)
  BY <1>1, <1>6
<1>8. pos' <= Len(Events(c)') + 1
  <2>1. Len(Timeline(task[c].type, analyte)) \in Nat
    BY <1>1, Fits, TimelinesCover DEF Covers
  <2>. QED BY <1>1, <1>4, <2>1 DEF Events
<1>9. \A d \in Commands : task'[d].pc \in {"acked", "refused"} => task'[d].type \in ShortTypes
  BY <1>2, <1>3 DEF Instrument
<1>10. Instrument'
  <2>1. abort' \in BOOLEAN
    BY <1>1
  <2>2. busy' \in Commands \union {NoCommand} /\ task'[busy'].pc \in {"running", "dead"}
    BY <1>1, <1>3
  <2>3. pos' \in Nat \ {0} /\ captures' \in Seq(Names)
    BY <1>1, <1>6
  <2>4. \A d \in Commands : Running(d)' =>
            /\ task'[d].type \in Methods
            /\ pos' <= Len(Events(d)') + 1
            /\ Follows(captures', Events(d)', pos' - 1)
    BY <1>1, <1>4, <1>5, <1>7, <1>8
  <2>. QED BY <1>9, <2>1, <2>2, <2>3, <2>4 DEF Instrument
<1>11. Truthful(Ack, task[c].type)
  BY DEF Truthful, Ack
<1>12. Told'
  BY <1>1, <1>2, <1>4, <1>11, TellsOne, FrameTypes
<1>. QED BY <1>10, <1>12

LEMMA RunRests ==
    ASSUME Owned, Rest,
           Dial \/ HangUp \/ Greeted \/ Cut \/ TelemetryFails \/ Restart \/ PlcLine
    PROVE  Rest'
<1>. USE DEF Rest
<1>1. CASE Restart
  <2>1. /\ busy' = NoCommand /\ abort' = FALSE /\ pos' = 1 /\ captures' = <<>>
        /\ answers' = answers /\ analyte' = analyte
        /\ task' = [c \in Commands |-> Idle]
    BY <1>1 DEF Restart
  <2>2. \A c \in Commands : task'[c].pc = "none" /\ task'[c].type = "none"
    BY <2>1 DEF Idle
  <2>3. captures' \in Seq(Names) /\ pos' \in Nat \ {0}
    BY <2>1
  <2>4. Instrument'
    <3>1. abort' \in BOOLEAN
      BY <2>1
    <3>2. \A c \in Commands : ~Running(c)' /\ task'[c].pc \notin {"acked", "refused"}
      BY <2>2 DEF Running
    <3>. QED BY <2>1, <2>3, <3>1, <3>2 DEF Instrument
  <2>5. Told'
    BY <2>1, <2>2 DEF Told, Truthful, Methods
  <2>. QED BY <2>4, <2>5
<1>2. CASE Dial \/ HangUp \/ Greeted \/ Cut \/ TelemetryFails \/ PlcLine
  <2>1. UNCHANGED <<analyte, task, answers, busy, abort, pos, captures>>
    BY <1>2 DEF Dial, HangUp, Greeted, Cut, TelemetryFails, PlcLine, methodVars
  <2>2. Instrument'
    BY <2>1 DEF Instrument, Running, Events
  <2>3. Told'
    BY <2>1 DEF Told, Truthful
  <2>. QED BY <2>2, <2>3
<1>. QED BY <1>1, <1>2

(* A timeline that is over, and one that has an event more behind it.      *)
LEMMA EndsRests ==
    ASSUME Owned, Rest, analyte' = analyte, NEW c \in Commands, Running(c),
           NEW status \in {"succeeded", "failed", "aborted"}, Ends(c, status),
           status = "succeeded" => Complete(captures, Pairs(task[c].type, analyte))
    PROVE  Rest'
<1>. DEFINE f == Result(status, captures)
<1>1. PICK pc \in {"done", "dead"} : Moves(c, pc) /\ (Says(c, <<f>>) \/ UNCHANGED answers)
  BY DEF Ends, Raises, Verdict
<1>2. Instrument'
  BY <1>1, InstrumentFreed DEF Ends, Rest
<1>3. \A d \in Commands : task'[d].type = task[d].type
  BY <1>1, TypesStay DEF Owned
<1>4. f \in Frames
  BY FrameTypes DEF Rest, Instrument
<1>5. Truthful(f, task[c].type)
  BY DEF Truthful, Result
<1>. HIDE DEF f
<1>6. Told'
  BY <1>1, <1>3, <1>4, <1>5, TellsOne DEF Rest
<1>. QED BY <1>2, <1>6 DEF Rest

LEMMA GoesRests ==
    ASSUME Owned, Rest, analyte' = analyte, NEW c \in Commands, Running(c),
           pos <= Len(Events(c)), Len(Events(c)) \in Nat,
           NEW names \in Seq(Names), Follows(names, Events(c), pos), Goes(c, names)
    PROVE  Rest'
<1>. USE DEF Rest
<1>1. UNCHANGED <<abort, answers>>
  BY DEF Goes
<1>2. CASE pos' = pos + 1 /\ captures' = names /\ UNCHANGED <<busy, task>>
  <2>1. pos' \in Nat \ {0} /\ pos' - 1 = pos /\ pos' <= Len(Events(c)) + 1
    BY <1>2 DEF Instrument
  <2>2. ASSUME NEW d \in Commands, Running(d)' PROVE d = c
    BY <1>2, <2>2 DEF Owned, OneTimeline, Running
  <2>3. Events(c)' = Events(c)
    BY <1>2 DEF Events
  <2>4. \A d \in Commands : Running(d)' =>
            /\ task'[d].type \in Methods
            /\ pos' <= Len(Events(d)') + 1
            /\ Follows(captures', Events(d)', pos' - 1)
    BY <1>2, <2>1, <2>2, <2>3 DEF Instrument
  <2>5. Instrument'
    BY <1>1, <1>2, <2>1, <2>4 DEF Instrument
  <2>6. Told'
    BY <1>1, <1>2 DEF Told, Truthful
  <2>. QED BY <2>5, <2>6
<1>3. CASE Moves(c, "dead") /\ Frees /\ Forgets
  <2>1. Instrument'
    BY <1>1, <1>3, InstrumentFreed
  <2>2. \A d \in Commands : task'[d].type = task[d].type
    BY <1>3, TypesStay DEF Owned
  <2>3. Told'
    BY <1>1, <2>2 DEF Told, Truthful
  <2>. QED BY <2>1, <2>3
<1>. QED BY <1>2, <1>3 DEF Goes

LEMMA TimelineRests ==
    ASSUME Owned, Ports, Rest, NEW c \in Commands,
           Aborted(c) \/ Pump(c) \/ Capture(c) \/ Succeed(c)
    PROVE  Rest'
<1>1. Running(c) /\ analyte' = analyte
  BY DEF Aborted, Pump, Capture, Succeed, Running
<1>2. /\ task[c].type \in Methods
      /\ pos \in Nat \ {0} /\ pos <= Len(Events(c)) + 1
      /\ captures \in Seq(Names) /\ Follows(captures, Events(c), pos - 1)
  BY <1>1 DEF Rest, Instrument
<1>. DEFINE es == Events(c)
<1>. DEFINE ps == Pairs(task[c].type, analyte)
<1>3. Covers(es, ps)
  BY <1>2, Fits, TimelinesCover DEF Events
<1>4. DOMAIN es = 1..Len(es) /\ Len(es) \in Nat
  BY <1>3 DEF Covers
<1>5. ASSUME pos <= Len(es)
      PROVE  /\ es[pos].type # "adc" => Follows(captures, es, pos)
             /\ es[pos].type = "adc" => Follows(Append(captures, es[pos].name), es, pos)
  <2>1. pos - 1 \in Nat /\ (pos - 1) + 1 = pos /\ pos \in DOMAIN es
    BY <1>2, <1>4, <1>5
  <2>. HIDE DEF es
  <2>2. Follows(captures, es, pos - 1)
    BY <1>2 DEF es
  <2>. DEFINE n == pos - 1
  <2>. HIDE DEF n
  <2>3. n \in Nat /\ n + 1 = pos /\ n + 1 \in DOMAIN es /\ Follows(captures, es, n)
    BY <2>1, <2>2 DEF n
  <2>4. /\ es[n + 1].type # "adc" => Follows(captures, es, n + 1)
        /\ es[n + 1].type = "adc" => Follows(Append(captures, es[n + 1].name), es, n + 1)
    BY <1>2, <2>3, FollowsOn
  <2>. QED BY <2>3, <2>4
<1>6. CASE Aborted(c)
  BY <1>1, <1>6, EndsRests DEF Aborted
<1>7. CASE Pump(c)
  <2>1. CASE Ends(c, "failed")
    BY <1>1, <2>1, EndsRests
  <2>2. CASE Goes(c, captures)
    <3>1. pos <= Len(es) /\ es[pos].type = "send"
      BY <1>7 DEF Pump
    <3>2. Follows(captures, es, pos)
      BY <1>5, <3>1
    <3>. QED BY <1>1, <1>2, <1>4, <2>2, <3>1, <3>2, GoesRests
  <2>. QED BY <1>7, <2>1, <2>2 DEF Pump
<1>8. CASE Capture(c)
  <2>. DEFINE more == Append(captures, es[pos].name)
  <2>1. pos <= Len(es) /\ es[pos].type = "adc" /\ Goes(c, more)
    BY <1>8 DEF Capture
  <2>2. Follows(more, es, pos)
    BY <1>5, <2>1
  <2>3. es[pos].name \in Names
    <3>1. pos \in AdcAt(es)
      BY <1>2, <1>4, <2>1 DEF AdcAt
    <3>2. PICK p \in ps : es[pos].name \in {p[1], p[2]}
      BY <1>3, <3>1 DEF Covers
    <3>3. p \in UNION {Pairs(m, a) : m \in Methods, a \in Analytes}
      BY <1>2, Fits
    <3>. QED BY <3>2, <3>3 DEF Names
  <2>4. more \in Seq(Names)
    BY <1>2, <2>3
  <2>. HIDE DEF more
  <2>. QED BY <1>1, <1>4, <2>1, <2>2, <2>4, GoesRests
<1>9. CASE Succeed(c)
  <2>1. pos > Len(es) /\ Ends(c, "succeeded")
    BY <1>9 DEF Succeed, Over
  <2>2. pos - 1 = Len(es)
    BY <1>2, <1>4, <2>1
  <2>3. Follows(captures, es, Len(es))
    BY <1>2, <2>2
  <2>. HIDE DEF es, ps
  <2>4. Complete(captures, ps)
    BY <1>2, <1>3, <2>3, FollowsToTheEnd
  <2>. QED BY <1>1, <2>1, <2>4, EndsRests DEF ps
<1>. QED BY <1>6, <1>7, <1>8, <1>9

LEMMA WholeInit == Init => Whole
<1>. SUFFICES ASSUME Init PROVE Whole
  OBVIOUS
<1>1. Owned
  BY InitInv DEF Inv
<1>2. Ports
  BY DEF Init, Ports
<1>3. Told
  BY DEF Init, Told
<1>4. Instrument
  <2>1. captures \in Seq(Names)
    BY DEF Init
  <2>3. abort \in BOOLEAN
    BY DEF Init
  <2>2. \A c \in Commands : task[c].pc = "none"
    BY DEF Init, Idle
  <2>. QED BY <2>1, <2>2, <2>3 DEF Init, Instrument, Running
<1>. QED BY <1>1, <1>2, <1>3, <1>4 DEF Whole, Rest

LEMMA WholeStep == Whole /\ [Next]_vars => Whole'
<1>. SUFFICES ASSUME Whole, [Next]_vars PROVE Whole'
  OBVIOUS
<1>1. Owned' /\ Ports'
  BY OwnedStep, PortsStep DEF Whole
<1>2. Owned /\ Ports /\ Rest
  BY DEF Whole, Rest
<1>3. CASE UNCHANGED vars
  <2>1. UNCHANGED <<analyte, task, answers, busy, abort, pos, captures>>
    BY <1>3 DEF vars, methodVars
  <2>2. Instrument'
    BY <1>2, <2>1 DEF Rest, Instrument, Running, Events
  <2>3. Told'
    BY <1>2, <2>1 DEF Rest, Told, Truthful
  <2>. QED BY <1>1, <2>2, <2>3 DEF Whole
<1>4. ASSUME NEW c \in Commands, Read(c) PROVE Rest'
  BY <1>2, <1>4, ReadRests
<1>5. ASSUME NEW c \in Commands, Execute(c) PROVE Rest'
  BY <1>2, <1>5, AuthorityRests, ShortRests, StartRests, TimelineRests DEF Execute
<1>6. ASSUME Dial \/ HangUp \/ Greeted \/ Cut \/ TelemetryFails \/ Restart \/ PlcLine
      PROVE  Rest'
  BY <1>2, <1>6, RunRests
<1>. QED BY <1>1, <1>3, <1>4, <1>5, <1>6 DEF Next, Whole, Rest

(* The state of the agent hangs together (pimod.py:176-188 and 230-307):   *)
(* the latch is what ENDPOINT means, a writer belongs to a connection, one *)
(* timeline runs and busy is its command's, or that of a task whose ACK    *)
(* raised.                                                                 *)
THEOREM AgentInvariant == Spec => []Consistent
BY WholeInit, WholeStep, WholeIsConsistent, PTL DEF Spec

(* For any commands of any types, on any of the analytes and through any   *)
(* number of accidents: a run reported as succeeded took every light its   *)
(* fit or sample is made from, in the order the reaction needs, and no     *)
(* other (pimod.py:255-303, timelines.py, interpret.py:61-75).             *)
THEOREM SuccessIsComplete == Spec => []SucceededIsComplete
BY WholeInit, WholeStep, WholeIsComplete, PTL DEF Spec

-----------------------------------------------------------------------------
(* MqttShim.  One command is one token: it is on the way to the shim,      *)
(* pending there, answered on the link or answered at the hub; and on the  *)
(* other side the unit still has it, works on it, or has said its end in   *)
(* one message.  The invariant below says so of every command, with the    *)
(* order of the PROGRESS on the link beside it.                            *)

(* What a message on the link, a command or a status is about. *)
Has(s, X) == \E i \in DOMAIN s : s[i] \in X
AtMostOne(s, X) == \A i, j \in DOMAIN s : s[i] \in X /\ s[j] \in X => i = j

Said(c, kinds) == {m \in UpMessages : m.command_id = c /\ m.t \in kinds}
EndOf(c) == {s \in Statuses : s.request_id = c /\ s.state \in {"completed", "rejected"}}
Weighty == {"ACK", "NACK", "RESULT"}

(* A step of the unit counts from 1. *)
Blank == {s \in Statuses : s.state = "progress" /\ s.progress = 0}
BlankUp == {m \in UpMessages : m.t = "PROGRESS" /\ m.pct = 0}
Counting == ~Has(statuses, Blank) /\ ~Has(suspended, Blank) /\ ~Has(up, BlankUp)

Linked ==
    /\ alive => hubWriter
    /\ hub # "operational" => inflight = {}
    /\ dials = 0 => ~alive /\ up = <<>> /\ \A c \in Requests : shown[c] = <<>>

(* The unit will end c, or said so, in one place. *)
EndsOnce(c) ==
    /\ AtMostOne(actions, {c})
    /\ AtMostOne(statuses, EndOf(c))
    /\ AtMostOne(suspended, EndOf(c))
    /\ Has(actions, {c}) =>
        working # c /\ ~Has(statuses, EndOf(c)) /\ ~Has(suspended, EndOf(c))
    /\ working = c => ~Has(statuses, EndOf(c)) /\ ~Has(suspended, EndOf(c))
    /\ Has(statuses, EndOf(c)) => ~Has(suspended, EndOf(c))
    /\ Has(suspended, EndOf(c)) => c \in pending /\ acked[c]

(* The shim has done nothing about c yet, nor has the unit. *)
Untouched(c) ==
    /\ c \notin pending /\ ~acked[c] /\ working # c
    /\ ~Has(up, Said(c, Weighty)) /\ ~Has(actions, {c}) /\ ~Has(statuses, EndOf(c))

(* One verdict: c is on its way, pending, answered on the link or answered.*)
Placed(c) ==
    /\ trail[c] = <<>> => Untouched(c) /\ ~Has(down, {c}) /\ c \notin inflight
    /\ Has(down, {c}) => Untouched(c) /\ ~Has(trail[c], Answers \union {"ack", "nack"})
    /\ AtMostOne(down, {c})
    /\ c \in pending => ~Has(up, Said(c, Verdicts)) /\ ~Has(trail[c], Answers)
    /\ Has(up, Said(c, Verdicts)) => ~Has(trail[c], Answers)
    /\ AtMostOne(up, Said(c, Verdicts))
    /\ AtMostOne(trail[c], Answers)
    /\ AtMostOne(trail[c], {"lost"})
    /\ c \in inflight => ~Has(trail[c], {"lost"})

Acknowledged(c) ==
    /\ Has(trail[c], {"ack"}) \/ Has(up, Said(c, {"ACK"})) => acked[c]
    /\ Has(trail[c], {"nack"}) \/ Has(up, Said(c, {"NACK"})) => ~acked[c] /\ c \notin pending

(* PROGRESS about c, on the link in the order of up, after what was shown. *)
Differ(u, X) ==
    \A i, j \in DOMAIN u :
        (i < j /\ u[i] \in X /\ u[j] \in X /\ \A k \in DOMAIN u : i < k /\ k < j => u[k] \notin X)
            => u[i].pct # u[j].pct
GoesOn(u, X, sh) ==
    \A i \in DOMAIN u :
        (u[i] \in X /\ (\A k \in DOMAIN u : k < i => u[k] \notin X) /\ sh # <<>>)
            => sh[Len(sh)] # u[i].pct
Latest(u, X, sh, n) ==
    /\ \A i \in DOMAIN u :
        (u[i] \in X /\ \A k \in DOMAIN u : i < k => u[k] \notin X) => u[i].pct = n
    /\ ~Has(u, X) /\ sh # <<>> => sh[Len(sh)] = n
NoRepeat(sh) == \A i \in 1..(Len(sh) - 1) : sh[i] # sh[i + 1]

InLine(u, X, sh) == NoRepeat(sh) /\ Differ(u, X) /\ GoesOn(u, X, sh)

News(c) ==
    LET X == Said(c, {"PROGRESS"})
    IN  dials <= 1 =>
            InLine(up, X, shown[c]) /\ (alive => Latest(up, X, shown[c], last[c]))

(* Every place c may be in, and every verdict about it, in one view. *)
Custody(c) == EndsOnce(c) /\ Placed(c) /\ Acknowledged(c)

(* On a link that is up the shim holds what the hub waits for. *)
Held(c) == Has(down, {c}) \/ c \in pending \/ Has(up, Said(c, Verdicts))
Somewhere(c) == hub = "operational" /\ alive /\ c \in inflight => Held(c)

(* The hub holds in flight what it has no result of. *)
Open(c) == trail[c] # <<>> /\ ~Has(trail[c], Answers) /\ ~Has(trail[c], {"lost"})
Waited(c) == hubRestarts = 0 /\ Open(c) => c \in inflight

ShimInv ==
    /\ ShimTypeOK /\ Counting /\ Linked
    /\ \A c \in Requests : Custody(c) /\ News(c) /\ Somewhere(c) /\ Waited(c)

-----------------------------------------------------------------------------
(* What taking from a queue and adding to it does to those facts.          *)

(* Nothing of X is in new that was not in old. *)
Thin(new, old, X) ==
    /\ Has(new, X) => Has(old, X)
    /\ AtMostOne(old, X) => AtMostOne(new, X)

LEMMA ThinByShift ==
    ASSUME NEW X, NEW new, NEW old, NEW off \in Nat, DOMAIN new \subseteq Nat,
           \A i \in DOMAIN new : i + off \in DOMAIN old /\ new[i] = old[i + off]
    PROVE  Thin(new, old, X)
<1>1. Has(new, X) => Has(old, X)
  BY DEF Has
<1>2. ASSUME AtMostOne(old, X), NEW i \in DOMAIN new, NEW j \in DOMAIN new,
             new[i] \in X, new[j] \in X
      PROVE  i = j
  <2>1. i + off = j + off
    BY <1>2 DEF AtMostOne
  <2>. QED BY <2>1
<1>3. AtMostOne(old, X) => AtMostOne(new, X)
  BY <1>2 DEF AtMostOne
<1>. QED BY <1>1, <1>3 DEF Thin

LEMMA Thinner ==
    ASSUME NEW T, NEW s \in Seq(T), NEW X
    PROVE  /\ Thin(s, s, X) /\ Thin(<<>>, s, X)
           /\ s # <<>> => Thin(Tail(s), s, X)
           /\ \A n \in 0..Len(s) : Thin(SubSeq(s, 1, n), s, X)
<1>1. Thin(s, s, X)
  BY DEF Thin
<1>2. Thin(<<>>, s, X)
  <2>1. \A i \in DOMAIN <<>> : i + 0 \in DOMAIN s /\ <<>>[i] = s[i + 0]
    OBVIOUS
  <2>2. DOMAIN <<>> \subseteq Nat
    OBVIOUS
  <2>. QED BY <2>1, <2>2, ThinByShift
<1>3. ASSUME s # <<>> PROVE Thin(Tail(s), s, X)
  <2>1. /\ Tail(s) \in Seq(T)
        /\ \A i \in DOMAIN Tail(s) : i + 1 \in DOMAIN s /\ Tail(s)[i] = s[i + 1]
    BY <1>3
  <2>2. DOMAIN Tail(s) \subseteq Nat
    BY <2>1
  <2>. QED BY <2>1, <2>2, ThinByShift
<1>4. ASSUME NEW n \in 0..Len(s) PROVE Thin(SubSeq(s, 1, n), s, X)
  <2>. DEFINE p == SubSeq(s, 1, n)
  <2>1. p \in Seq(T) /\ Len(p) = n /\ \A i \in 1..n : p[i] = s[i]
    OBVIOUS
  <2>. HIDE DEF p
  <2>2. DOMAIN p \subseteq Nat /\ \A i \in DOMAIN p : i + 0 \in DOMAIN s /\ p[i] = s[i + 0]
    BY <2>1
  <2>3. Thin(p, s, X)
    BY <2>2, ThinByShift
  <2>. QED BY <2>3 DEF p
<1>. QED BY <1>1, <1>2, <1>3, <1>4

LEMMA Grown ==
    ASSUME NEW T, NEW s \in Seq(T), NEW x \in T, NEW X
    PROVE  /\ Append(s, x) \in Seq(T)
           /\ x \notin X => Thin(Append(s, x), s, X)
           /\ Has(Append(s, x), X) <=> Has(s, X) \/ x \in X
           /\ AtMostOne(s, X) /\ ~Has(s, X) => AtMostOne(Append(s, x), X)
<1>. DEFINE a == Append(s, x)
<1>1. /\ a \in Seq(T) /\ Len(s) \in Nat
      /\ DOMAIN a = 1..(Len(s) + 1) /\ DOMAIN s = 1..Len(s)
      /\ \A i \in 1..Len(s) : a[i] = s[i]
      /\ a[Len(s) + 1] = x
  OBVIOUS
<1>. HIDE DEF a
<1>2. \A i \in DOMAIN a : i \in DOMAIN s \/ i = Len(s) + 1
  BY <1>1
<1>3. \A i \in DOMAIN s : i \in DOMAIN a /\ a[i] = s[i]
  BY <1>1
<1>4. Len(s) + 1 \in DOMAIN a
  BY <1>1
<1>5. Has(a, X) <=> Has(s, X) \/ x \in X
  BY <1>1, <1>2, <1>3, <1>4 DEF Has
<1>6. AtMostOne(s, X) /\ ~Has(s, X) => AtMostOne(a, X)
  BY <1>1, <1>2, <1>3 DEF Has, AtMostOne
<1>7. x \notin X => (AtMostOne(s, X) => AtMostOne(a, X))
  BY <1>1, <1>2, <1>3 DEF AtMostOne
<1>. QED BY <1>1, <1>5, <1>6, <1>7 DEF a, Thin

LEMMA TakenOff ==
    ASSUME NEW T, NEW s \in Seq(T), s # <<>>, NEW X
    PROVE  /\ Head(s) \in T /\ Tail(s) \in Seq(T) /\ Len(Tail(s)) = Len(s) - 1
           /\ Head(s) \in X => Has(s, X)
           /\ Head(s) \in X /\ AtMostOne(s, X) => ~Has(Tail(s), X)
           /\ Head(s) \notin X /\ Has(s, X) => Has(Tail(s), X)
<1>1. /\ Head(s) = s[1] /\ 1 \in DOMAIN s /\ Head(s) \in T /\ Tail(s) \in Seq(T)
      /\ Len(Tail(s)) = Len(s) - 1
      /\ \A i \in DOMAIN Tail(s) : i + 1 \in DOMAIN s /\ Tail(s)[i] = s[i + 1] /\ i + 1 # 1
      /\ \A i \in DOMAIN s : i # 1 => i - 1 \in DOMAIN Tail(s) /\ s[i] = Tail(s)[i - 1]
  OBVIOUS
<1>2. Head(s) \in X => Has(s, X)
  BY <1>1 DEF Has
<1>3. Head(s) \in X /\ AtMostOne(s, X) => ~Has(Tail(s), X)
  BY <1>1 DEF Has, AtMostOne
<1>4. Head(s) \notin X /\ Has(s, X) => Has(Tail(s), X)
  BY <1>1 DEF Has
<1>. QED BY <1>1, <1>2, <1>3, <1>4

LEMMA Chained ==
    ASSUME NEW T, NEW s \in Seq(T), NEW e \in Seq(T), NEW X
    PROVE  /\ s \o e \in Seq(T)
           /\ Has(s \o e, X) <=> Has(s, X) \/ Has(e, X)
           /\ AtMostOne(s, X) /\ ~Has(e, X) => AtMostOne(s \o e, X)
           /\ ~Has(s, X) /\ AtMostOne(e, X) => AtMostOne(s \o e, X)
<1>. DEFINE a == s \o e
<1>1. /\ a \in Seq(T) /\ Len(s) \in Nat /\ Len(e) \in Nat
      /\ DOMAIN a = 1..(Len(s) + Len(e)) /\ DOMAIN s = 1..Len(s) /\ DOMAIN e = 1..Len(e)
      /\ \A i \in 1..Len(s) : a[i] = s[i]
      /\ \A i \in 1..Len(e) : a[Len(s) + i] = e[i]
  OBVIOUS
<1>. HIDE DEF a
<1>2. \A i \in DOMAIN s : i \in DOMAIN a /\ a[i] = s[i]
  BY <1>1
<1>3. \A i \in DOMAIN e : Len(s) + i \in DOMAIN a /\ a[Len(s) + i] = e[i]
  BY <1>1
<1>4. \A i \in DOMAIN a : \/ i \in DOMAIN s /\ a[i] = s[i]
                          \/ i - Len(s) \in DOMAIN e /\ a[i] = e[i - Len(s)]
  <2>. SUFFICES ASSUME NEW i \in DOMAIN a, i \notin DOMAIN s
                PROVE  i - Len(s) \in DOMAIN e /\ a[i] = e[i - Len(s)]
    BY <1>2
  <2>1. i - Len(s) \in 1..Len(e) /\ i = Len(s) + (i - Len(s))
    BY <1>1
  <2>. QED BY <1>1, <2>1
<1>5. Has(a, X) <=> Has(s, X) \/ Has(e, X)
  BY <1>2, <1>3, <1>4 DEF Has
<1>6. AtMostOne(s, X) /\ ~Has(e, X) => AtMostOne(a, X)
  BY <1>4 DEF Has, AtMostOne
<1>7. ASSUME ~Has(s, X), AtMostOne(e, X), NEW i \in DOMAIN a, NEW j \in DOMAIN a,
             a[i] \in X, a[j] \in X
      PROVE  i = j
  <2>1. i - Len(s) = j - Len(s)
    BY <1>4, <1>7 DEF Has, AtMostOne
  <2>. QED BY <1>1, <2>1
<1>8. ~Has(s, X) /\ AtMostOne(e, X) => AtMostOne(a, X)
  BY <1>7 DEF AtMostOne
<1>. QED BY <1>1, <1>5, <1>6, <1>8 DEF a

LEMMA OneOrNone ==
    ASSUME NEW x, NEW X
    PROVE  /\ ~Has(<<>>, X) /\ AtMostOne(<<>>, X)
           /\ Has(<<x>>, X) <=> x \in X
           /\ AtMostOne(<<x>>, X)
<1>1. DOMAIN <<>> = {} /\ DOMAIN <<x>> = {1} /\ <<x>>[1] = x
  OBVIOUS
<1>. QED BY <1>1 DEF Has, AtMostOne

-----------------------------------------------------------------------------
(* The messages and what sending one does.                                 *)

LEMMA Bounds == Steps \in Nat \ {0} /\ Room \in Nat \ {0} /\ NoRequest \notin Requests
  BY ShimAssumption

LEMMA MessageMade ==
    ASSUME NEW t \in {"TELEM", "ACK", "NACK", "PROGRESS", "RESULT"},
           NEW c \in Requests \union {NoRequest}, NEW n \in 0..Steps
    PROVE  LET m == Message(t, c, n)
           IN  /\ m \in UpMessages
               /\ m \in BlankUp <=> t = "PROGRESS" /\ n = 0
               /\ \A d, kinds : m \in Said(d, kinds) <=> d = c /\ t \in kinds
<1>. DEFINE m == Message(t, c, n)
<1>1. m \in UpMessages /\ m.t = t /\ m.command_id = c /\ m.pct = n
  BY DEF Message, UpMessages
<1>. HIDE DEF m
<1>2. \A d, kinds : m \in Said(d, kinds) <=> d = c /\ t \in kinds
  BY <1>1 DEF Said
<1>3. m \in BlankUp <=> t = "PROGRESS" /\ n = 0
  BY <1>1 DEF BlankUp
<1>. QED BY <1>1, <1>2, <1>3 DEF m

LEMMA StatusMade ==
    ASSUME NEW s \in {"started", "progress", "completed", "rejected"},
           NEW c \in Requests \union {NoRequest}, NEW n \in 0..Steps
    PROVE  LET m == Status(s, c, n)
           IN  /\ m \in Statuses
               /\ m \in Blank <=> s = "progress" /\ n = 0
               /\ \A d : m \in EndOf(d) <=> d = c /\ s \in {"completed", "rejected"}
<1>. DEFINE m == Status(s, c, n)
<1>1. m \in Statuses /\ m.state = s /\ m.request_id = c /\ m.progress = n
  BY DEF Status, Statuses
<1>. HIDE DEF m
<1>2. \A d : m \in EndOf(d) <=> d = c /\ s \in {"completed", "rejected"}
  BY <1>1 DEF EndOf
<1>3. m \in Blank <=> s = "progress" /\ n = 0
  BY <1>1 DEF Blank
<1>. QED BY <1>1, <1>2, <1>3 DEF m

LEMMA Sent ==
    ASSUME up \in Seq(UpMessages), NEW m \in UpMessages, Send(m), NEW X
    PROVE  /\ up' \in Seq(UpMessages)
           /\ m \notin X => Thin(up', up, X)
           /\ Has(up', X) => Has(up, X) \/ m \in X
           /\ AtMostOne(up, X) /\ ~Has(up, X) => AtMostOne(up', X)
           /\ alive /\ hubWriter => (Has(up, X) \/ m \in X => Has(up', X))
<1>1. CASE hubWriter /\ alive
  <2>1. up' = Append(up, m)
    BY <1>1 DEF Send
  <2>2. /\ Append(up, m) \in Seq(UpMessages)
        /\ m \notin X => Thin(Append(up, m), up, X)
        /\ Has(Append(up, m), X) <=> Has(up, X) \/ m \in X
        /\ AtMostOne(up, X) /\ ~Has(up, X) => AtMostOne(Append(up, m), X)
    BY Grown
  <2>. QED BY <2>1, <2>2
<1>2. CASE ~(hubWriter /\ alive)
  <2>1. up' = up
    BY <1>2 DEF Send
  <2>. QED BY <1>2, <2>1, Thinner DEF Thin
<1>. QED BY <1>1, <1>2

LEMMA Published ==
    ASSUME statuses \in Seq(Statuses), Len(statuses) <= Room,
           NEW s \in Statuses, Publish(s), NEW X
    PROVE  /\ statuses' \in Seq(Statuses) /\ Len(statuses') <= Room
           /\ s \notin X => Thin(statuses', statuses, X)
           /\ Has(statuses', X) => Has(statuses, X) \/ s \in X
           /\ AtMostOne(statuses, X) /\ ~Has(statuses, X) => AtMostOne(statuses', X)
<1>1. CASE statuses' = statuses
  BY <1>1, Thinner DEF Thin
<1>2. CASE Len(statuses) < Room /\ statuses' = Append(statuses, s)
  <2>1. Len(Append(statuses, s)) = Len(statuses) + 1 /\ Len(statuses) \in Nat
    OBVIOUS
  <2>2. Len(statuses') <= Room
    BY <1>2, <2>1, Bounds
  <2>. QED BY <1>2, <2>2, Grown
<1>. QED BY <1>1, <1>2 DEF Publish

(* A status the shim reads, or comes back to. *)
LEMMA HeadStatus ==
    ASSUME NEW q \in Seq(Statuses), q # <<>>
    PROVE  LET s == Head(q)
           IN  /\ s \in Statuses
               /\ s.state \in {"started", "progress", "completed", "rejected"}
               /\ s.request_id \in Requests \union {NoRequest}
               /\ s.progress \in 0..Steps
               /\ Tail(q) \in Seq(Statuses)
               /\ ~Has(q, Blank) => (s.state = "progress" => s.progress # 0)
               /\ \A d : s \in EndOf(d) <=>
                    s.request_id = d /\ s.state \in {"completed", "rejected"}
<1>1. Head(q) \in Statuses /\ Tail(q) \in Seq(Statuses) /\ (Head(q) \in Blank => Has(q, Blank))
  BY TakenOff
<1>2. \A s \in Statuses : /\ s.state \in {"started", "progress", "completed", "rejected"}
                          /\ s.request_id \in Requests \union {NoRequest}
                          /\ s.progress \in 0..Steps
  BY DEF Statuses
<1>3. \A s \in Statuses : s.state = "progress" /\ s.progress = 0 => s \in Blank
  BY DEF Blank
<1>4. \A s \in Statuses : \A d : s \in EndOf(d) <=>
            s.request_id = d /\ s.state \in {"completed", "rejected"}
  BY DEF EndOf
<1>. QED BY <1>1, <1>2, <1>3, <1>4

LEMMA HeadUp ==
    ASSUME up \in Seq(UpMessages), up # <<>>
    PROVE  LET m == Head(up)
           IN  /\ m \in UpMessages
               /\ m.t \in {"TELEM", "ACK", "NACK", "PROGRESS", "RESULT"}
               /\ m.pct \in 0..Steps
               /\ Tail(up) \in Seq(UpMessages)
               /\ ~Has(up, BlankUp) => (m.t = "PROGRESS" => m.pct # 0)
               /\ \A d, kinds : m \in Said(d, kinds) <=> m.command_id = d /\ m.t \in kinds
<1>1. Head(up) \in UpMessages /\ Tail(up) \in Seq(UpMessages)
      /\ (Head(up) \in BlankUp => Has(up, BlankUp))
  BY TakenOff
<1>2. \A m \in UpMessages : m.t \in {"TELEM", "ACK", "NACK", "PROGRESS", "RESULT"}
                            /\ m.pct \in 0..Steps
  BY DEF UpMessages
<1>3. \A m \in UpMessages : m.t = "PROGRESS" /\ m.pct = 0 => m \in BlankUp
  BY DEF BlankUp
<1>4. \A m \in UpMessages : \A d, kinds :
            m \in Said(d, kinds) <=> m.command_id = d /\ m.t \in kinds
  BY DEF Said
<1>. QED BY <1>1, <1>2, <1>3, <1>4

-----------------------------------------------------------------------------
(* The types, a group of variables at a time.                              *)

EvidenceKinds == {"command", "ack", "nack", "rejected", "answered", "lost"}

HubTyped ==
    /\ trail \in [Requests -> Seq(EvidenceKinds)]
    /\ shown \in [Requests -> Seq(1..Steps)]
    /\ hub \in {"closed", "adopting", "operational"}
    /\ inflight \subseteq Requests
LinkTyped == up \in Seq(UpMessages) /\ ~Has(up, BlankUp) /\ down \in Seq(Requests)
TaskTyped == runAt \in {"done", "dialling", "hello", "adopted"}
EntryTyped ==
    /\ pending \subseteq Requests
    /\ acked \in [Requests -> BOOLEAN]
    /\ last \in [Requests -> 0..Steps]
    /\ suspended \in Seq(Statuses) /\ ~Has(suspended, Blank)
UnitTyped ==
    /\ actions \in Seq(Requests)
    /\ statuses \in Seq(Statuses) /\ Len(statuses) <= Room /\ ~Has(statuses, Blank)
    /\ working \in Requests \union {NoRequest}
    /\ step \in 0..Steps
ShimFlags == alive \in BOOLEAN /\ hubWriter \in BOOLEAN /\ silent \in BOOLEAN
ShimCounted == dials \in 0..MaxDials /\ hubRestarts \in 0..MaxHubRestarts

ShimTyped == HubTyped /\ LinkTyped /\ TaskTyped /\ EntryTyped /\ UnitTyped

LEMMA TypesAre == ShimTypeOK /\ Counting <=> ShimTyped /\ ShimFlags /\ ShimCounted
  BY DEF ShimTypeOK, Counting, ShimTyped, HubTyped, LinkTyped, TaskTyped, EntryTyped,
         UnitTyped, ShimFlags, ShimCounted, EvidenceKinds

LEMMA ShimFlagsStep == ShimFlags /\ [ShimNext]_shimVars => ShimFlags'
<1>. SUFFICES ASSUME ShimFlags, [ShimNext]_shimVars PROVE ShimFlags'
  OBVIOUS
<1>. USE DEF ShimFlags
<1>1. ASSUME NEW m, Send(m) PROVE hubWriter' \in BOOLEAN
  BY <1>1 DEF Send
<1>2. ASSUME NEW c \in Requests, Submit(c) PROVE ShimFlags'
  BY <1>2 DEF Submit, taskVars
<1>3. ASSUME NEW c \in Requests, AckTimeout(c) PROVE ShimFlags'
  BY <1>1, <1>3 DEF AckTimeout, Refuse, taskVars
<1>4. CASE HubAdopts \/ HubRejects \/ HubReads \/ HubNotices \/ HubRestart \/ LinkDrops
  BY <1>4 DEF HubAdopts, HubRejects, HubReads, HubNotices, HubRestart, LinkDrops,
              linkVars, taskVars
<1>5. CASE Connects \/ FallsSilent \/ StaysAway \/ SaysBye \/ Notices
  BY <1>5 DEF Connects, FallsSilent, StaysAway, SaysBye, Notices, Closed, linkVars
<1>6. CASE Heartbeat
  BY <1>1, <1>6 DEF Heartbeat, Seen
<1>7. CASE Deliver
  BY <1>1, <1>7 DEF Deliver, Refuse, taskVars
<1>8. ASSUME NEW s, Translate(s) PROVE hubWriter' \in BOOLEAN
  BY <1>1, <1>8 DEF Translate
<1>9. CASE Handle
  BY <1>1, <1>8, <1>9 DEF Handle, Seen
<1>10. CASE Continue
  BY <1>8, <1>10 DEF Continue, taskVars
<1>11. CASE UnitReceives \/ UnitProgresses \/ UnitCompletes \/ UnitRestarts \/ UnitActsLocally
  BY <1>11 DEF UnitReceives, UnitProgresses, UnitCompletes, UnitRestarts, UnitActsLocally,
               UnitUnchanged, linkVars, taskVars
<1>12. CASE UNCHANGED shimVars
  BY <1>12 DEF shimVars, linkVars, taskVars
<1>. QED BY <1>2, <1>3, <1>4, <1>5, <1>6, <1>7, <1>9, <1>10, <1>11, <1>12
         DEF ShimNext, Hub, Task, Unit

LEMMA ShimCountedStep == ShimCounted /\ [ShimNext]_shimVars => ShimCounted'
<1>. SUFFICES ASSUME ShimCounted, [ShimNext]_shimVars PROVE ShimCounted'
  OBVIOUS
<1>. USE ShimAssumption DEF ShimCounted, counters
<1>1. ASSUME NEW c \in Requests, Submit(c) \/ AckTimeout(c) PROVE ShimCounted'
  BY <1>1 DEF Submit, AckTimeout
<1>2. CASE Hub \/ LinkDrops
  BY <1>2 DEF Hub, HubAdopts, HubRejects, HubReads, HubNotices, LinkDrops
<1>3. CASE HubRestart \/ Connects
  BY <1>3 DEF HubRestart, Connects
<1>4. CASE Task \/ Heartbeat \/ FallsSilent \/ Handle \/ Continue
  BY <1>4 DEF Task, Deliver, SaysBye, StaysAway, Notices, Heartbeat, FallsSilent, Handle,
              Continue
<1>5. CASE Unit \/ UnitRestarts \/ UnitActsLocally
  BY <1>5 DEF Unit, UnitReceives, UnitProgresses, UnitCompletes, UnitRestarts,
              UnitActsLocally, UnitUnchanged
<1>6. CASE UNCHANGED shimVars
  BY <1>6 DEF shimVars
<1>. QED BY <1>1, <1>2, <1>3, <1>4, <1>5, <1>6 DEF ShimNext

(* What _handle records of a message. *)
LEMMA EvidenceIs ==
    ASSUME NEW t \in {"TELEM", "ACK", "NACK", "PROGRESS", "RESULT"}
    PROVE  /\ Evidence(t) \in Seq(EvidenceKinds)
           /\ Has(Evidence(t), {"ack"}) <=> t = "ACK"
           /\ Has(Evidence(t), {"nack"}) <=> t = "NACK"
           /\ Has(Evidence(t), Answers) <=> t \in Verdicts
           /\ ~Has(Evidence(t), {"lost"})
           /\ AtMostOne(Evidence(t), Answers)
           /\ Evidence(t) # <<>> <=> t \in Weighty
<1>. USE DEF Answers, Verdicts, Weighty, EvidenceKinds
<1>1. CASE t = "ACK"
  <2>1. Evidence(t) = <<"ack">>
    BY <1>1 DEF Evidence
  <2>2. /\ DOMAIN Evidence(t) = {1} /\ Evidence(t)[1] = "ack"
        /\ Evidence(t) \in Seq(EvidenceKinds) /\ Evidence(t) # <<>>
    BY <2>1
  <2>. QED BY <1>1, <2>2 DEF Has, AtMostOne
<1>2. CASE t = "RESULT"
  <2>1. Evidence(t) = <<"answered">>
    BY <1>2 DEF Evidence
  <2>2. /\ DOMAIN Evidence(t) = {1} /\ Evidence(t)[1] = "answered"
        /\ Evidence(t) \in Seq(EvidenceKinds) /\ Evidence(t) # <<>>
    BY <2>1
  <2>. QED BY <1>2, <2>2 DEF Has, AtMostOne
<1>3. CASE t = "NACK"
  <2>1. Evidence(t) = <<"nack", "rejected">>
    BY <1>3 DEF Evidence
  <2>2. /\ DOMAIN Evidence(t) = {1, 2}
        /\ Evidence(t)[1] = "nack" /\ Evidence(t)[2] = "rejected"
    BY <2>1
  <2>3. Evidence(t) \in Seq(EvidenceKinds) /\ Evidence(t) # <<>>
    BY <2>1
  <2>. QED BY <1>3, <2>2, <2>3 DEF Has, AtMostOne
<1>4. CASE t \in {"TELEM", "PROGRESS"}
  <2>1. Evidence(t) = <<>>
    BY <1>4 DEF Evidence
  <2>2. DOMAIN Evidence(t) = {} /\ Evidence(t) \in Seq(EvidenceKinds)
    BY <2>1
  <2>. QED BY <1>4, <2>1, <2>2 DEF Has, AtMostOne
<1>. QED BY <1>1, <1>2, <1>3, <1>4

LEMMA TaskTypedStep == TaskTyped /\ [ShimNext]_shimVars => TaskTyped'
<1>. SUFFICES ASSUME TaskTyped, [ShimNext]_shimVars PROVE TaskTyped'
  OBVIOUS
<1>. USE DEF TaskTyped, taskVars, Seen
<1>1. ASSUME NEW c \in Requests, Submit(c) \/ AckTimeout(c) PROVE TaskTyped'
  BY <1>1 DEF Submit, AckTimeout
<1>2. CASE Hub \/ HubRestart \/ LinkDrops
  BY <1>2 DEF Hub, HubAdopts, HubRejects, HubReads, HubNotices, HubRestart, LinkDrops
<1>3. CASE Task \/ Connects \/ Heartbeat \/ FallsSilent
  BY <1>3 DEF Task, Deliver, SaysBye, StaysAway, Notices, Connects, Heartbeat, FallsSilent
<1>4. CASE Handle \/ Continue
  BY <1>4 DEF Handle, Continue
<1>5. CASE Unit \/ UnitRestarts \/ UnitActsLocally
  BY <1>5 DEF Unit, UnitReceives, UnitProgresses, UnitCompletes, UnitRestarts,
              UnitActsLocally, UnitUnchanged
<1>6. CASE UNCHANGED shimVars
  BY <1>6 DEF shimVars
<1>. QED BY <1>1, <1>2, <1>3, <1>4, <1>5, <1>6 DEF ShimNext

(* HubReads, for the message it finds. *)
LEMMA ReadsUp ==
    ASSUME HubTyped, LinkTyped, HubReads
    PROVE  LET m == Head(up)
               c == m.command_id
           IN  /\ hub = "operational" /\ up # <<>> /\ up' = Tail(up)
               /\ UNCHANGED <<hub, alive, down, taskVars, hubWriter, entryVars, unitVars,
                              counters>>
               /\ c \notin Requests => UNCHANGED <<trail, shown, inflight>>
               /\ c \in Requests =>
                    /\ trail'[c] = trail[c] \o Evidence(m.t)
                    /\ trail' = [trail EXCEPT ![c] = trail[c] \o Evidence(m.t)]
                    /\ m.t = "PROGRESS" => shown' = [shown EXCEPT ![c] = Append(shown[c], m.pct)]
                    /\ m.t # "PROGRESS" => shown' = shown
                    /\ inflight' = IF m.t \in Verdicts THEN inflight \ {c} ELSE inflight
<1>. USE DEF HubTyped
<1>1. hub = "operational" /\ up # <<>> /\ up' = Tail(up)
      /\ UNCHANGED <<hub, alive, down, taskVars, hubWriter, entryVars, unitVars, counters>>
  BY DEF HubReads
<1>2. CASE Head(up).command_id \notin Requests
  BY <1>1, <1>2 DEF HubReads
<1>3. CASE Head(up).command_id \in Requests
  BY <1>1, <1>3 DEF HubReads
<1>. QED BY <1>2, <1>3

LEMMA HubTypedStep == HubTyped /\ LinkTyped /\ [ShimNext]_shimVars => HubTyped'
<1>. SUFFICES ASSUME HubTyped, LinkTyped, [ShimNext]_shimVars PROVE HubTyped'
  OBVIOUS
<1>1. ASSUME UNCHANGED hubVars PROVE HubTyped'
  BY <1>1 DEF HubTyped, hubVars
<1>2. ASSUME UNCHANGED <<trail, shown, inflight>>, hub' \in {"closed", "adopting", "operational"}
      PROVE  HubTyped'
  BY <1>2 DEF HubTyped
<1>3. ASSUME NEW c \in Requests, Submit(c) PROVE HubTyped'
  <2>1. <<"command">> \in Seq(EvidenceKinds)
    BY DEF EvidenceKinds
  <2>. QED BY <1>3, <2>1 DEF Submit, HubTyped
<1>4. CASE HubReads
  <2>. DEFINE m == Head(up)
              c == m.command_id
  <2>1. /\ m.t \in {"TELEM", "ACK", "NACK", "PROGRESS", "RESULT"} /\ m.pct \in 0..Steps
        /\ m.t = "PROGRESS" => m.pct # 0
    BY <1>4, HeadUp DEF LinkTyped, HubReads
  <2>2. CASE c \notin Requests
    BY <1>2, <1>4, <2>2, ReadsUp DEF HubTyped
  <2>3. CASE c \in Requests
    <3>1. trail[c] \o Evidence(m.t) \in Seq(EvidenceKinds)
      <4>1. trail[c] \in Seq(EvidenceKinds) /\ Evidence(m.t) \in Seq(EvidenceKinds)
        BY <2>1, <2>3, EvidenceIs DEF HubTyped
      <4>. QED BY <4>1
    <3>2. m.t = "PROGRESS" => Append(shown[c], m.pct) \in Seq(1..Steps)
      <4>1. m.t = "PROGRESS" => m.pct \in 1..Steps
        BY <2>1, Bounds
      <4>2. shown[c] \in Seq(1..Steps)
        BY <2>3 DEF HubTyped
      <4>. QED BY <4>1, <4>2
    <3>3. trail' \in [Requests -> Seq(EvidenceKinds)]
      BY <1>4, <2>3, <3>1, ReadsUp DEF HubTyped
    <3>4. shown' \in [Requests -> Seq(1..Steps)]
      BY <1>4, <2>3, <3>2, ReadsUp DEF HubTyped
    <3>5. hub' = hub /\ inflight' \subseteq Requests
      BY <1>4, <2>3, ReadsUp DEF HubTyped
    <3>. QED BY <3>3, <3>4, <3>5 DEF HubTyped
  <2>. QED BY <2>2, <2>3
<1>5. CASE HubNotices
  <2>1. \A c \in Requests : Append(trail[c], "lost") \in Seq(EvidenceKinds)
    BY DEF HubTyped, EvidenceKinds
  <2>2. trail' \in [Requests -> Seq(EvidenceKinds)]
    BY <1>5, <2>1 DEF HubNotices, HubTyped
  <2>. QED BY <1>5, <2>2 DEF HubNotices, HubTyped
<1>6. CASE HubAdopts \/ HubRejects \/ Connects
  BY <1>2, <1>6 DEF HubAdopts, HubRejects, Connects
<1>7. CASE HubRestart
  BY <1>7 DEF HubRestart, HubTyped
<1>8. ASSUME NEW c \in Requests, AckTimeout(c) PROVE HubTyped'
  BY <1>1, <1>8 DEF AckTimeout
<1>9. CASE LinkDrops \/ Task \/ Heartbeat \/ FallsSilent \/ Handle \/ Continue
  BY <1>1, <1>9 DEF LinkDrops, Task, Deliver, SaysBye, StaysAway, Notices, Heartbeat,
                    FallsSilent, Handle, Continue
<1>10. CASE Unit \/ UnitRestarts \/ UnitActsLocally
  BY <1>1, <1>10 DEF Unit, UnitReceives, UnitProgresses, UnitCompletes, UnitRestarts,
                     UnitActsLocally, UnitUnchanged
<1>11. CASE UNCHANGED shimVars
  BY <1>1, <1>11 DEF shimVars
<1>. QED BY <1>3, <1>4, <1>5, <1>6, <1>7, <1>8, <1>9, <1>10, <1>11 DEF ShimNext, Hub

UpTyped == up \in Seq(UpMessages) /\ ~Has(up, BlankUp)

LEMMA SendTyped ==
    ASSUME UpTyped, NEW t \in {"TELEM", "ACK", "NACK", "PROGRESS", "RESULT"},
           NEW c \in Requests \union {NoRequest}, NEW n \in 0..Steps,
           t = "PROGRESS" => n # 0, Send(Message(t, c, n))
    PROVE  UpTyped'
<1>. DEFINE m == Message(t, c, n)
<1>1. m \in UpMessages /\ m \notin BlankUp
  BY MessageMade
<1>. HIDE DEF m
<1>2. up' \in Seq(UpMessages) /\ (Has(up', BlankUp) => Has(up, BlankUp) \/ m \in BlankUp)
  BY <1>1, Sent DEF UpTyped, m
<1>. QED BY <1>1, <1>2 DEF UpTyped

(* What Translate leaves behind. *)
LEMMA Translates ==
    ASSUME UpTyped, NEW s \in Statuses, s.state = "progress" => s.progress # 0,
           Translate(s),
           pending \subseteq Requests, last \in [Requests -> 0..Steps]
    PROVE  UpTyped' /\ pending' \subseteq Requests /\ last' \in [Requests -> 0..Steps]
<1>1. s.request_id \in Requests \union {NoRequest} /\ s.progress \in 0..Steps /\ 0 \in 0..Steps
  BY Bounds DEF Statuses
<1>2. CASE s.state = "started"
  BY <1>2 DEF Translate, UpTyped
<1>3. CASE s.state = "progress"
  <2>1. UpTyped'
    <3>1. CASE IsNews(s)
      BY <1>1, <1>3, <3>1, SendTyped DEF Translate
    <3>2. CASE ~IsNews(s)
      BY <1>3, <3>2 DEF Translate, UpTyped
    <3>. QED BY <3>1, <3>2
  <2>2. last' \in [Requests -> 0..Steps]
    BY <1>1, <1>3 DEF Translate, Key
  <2>. QED BY <1>3, <2>1, <2>2 DEF Translate
<1>4. CASE s.state = "completed"
  BY <1>1, <1>4, SendTyped DEF Translate, Settled
<1>. QED BY <1>2, <1>3, <1>4 DEF Translate

(* What every step of the shim does with a status it reads.                *)
LEMMA Handles ==
    ASSUME Handle, EntryTyped, UnitTyped
    PROVE  LET s == Head(statuses)
               c == s.request_id
           IN  /\ statuses # <<>> /\ s \in Statuses /\ s.progress \in 0..Steps
               /\ s.state = "progress" => s.progress # 0
               /\ statuses' = Tail(statuses)
               /\ UNCHANGED <<hubVars, alive, down, actions, working, step, counters>>
               /\ \/ c \notin pending /\ UNCHANGED <<up, hubWriter, entryVars>>
                  \/ /\ c \in pending /\ c \in Requests
                     /\ \/ /\ s.state = "rejected"
                           /\ pending' = pending \ {c}
                           /\ Send(Message(IF acked[c] THEN "RESULT" ELSE "NACK", c, 0))
                           /\ UNCHANGED <<acked, last, suspended>>
                        \/ /\ s.state # "rejected" /\ ~acked[c]
                           /\ acked' = [acked EXCEPT ![c] = TRUE]
                           /\ Send(Message("ACK", c, 0))
                           /\ suspended' = Append(suspended, s)
                           /\ UNCHANGED <<pending, last>>
                        \/ /\ s.state # "rejected" /\ acked[c]
                           /\ Translate(s)
                           /\ UNCHANGED <<acked, suspended>>
<1>1. statuses # <<>>
  BY DEF Handle
<1>2. LET s == Head(statuses)
      IN  s \in Statuses /\ s.progress \in 0..Steps /\ (s.state = "progress" => s.progress # 0)
  BY <1>1, HeadStatus DEF UnitTyped
<1>. QED BY <1>1, <1>2 DEF Handle, Settled, EntryTyped

LEMMA UpTypedIs == LinkTyped <=> UpTyped /\ down \in Seq(Requests)
  BY DEF LinkTyped, UpTyped

LEMMA LinkTypedStep ==
    LinkTyped /\ EntryTyped /\ UnitTyped /\ [ShimNext]_shimVars => LinkTyped'
<1>. SUFFICES ASSUME LinkTyped, EntryTyped, UnitTyped, [ShimNext]_shimVars PROVE LinkTyped'
  OBVIOUS
<1>0. UpTyped /\ down \in Seq(Requests) /\ 0 \in 0..Steps
  BY UpTypedIs, Bounds
<1>1. ASSUME UNCHANGED <<up, down>> PROVE LinkTyped'
  BY <1>1 DEF LinkTyped
<1>2. ASSUME UpTyped', down' \in Seq(Requests) PROVE LinkTyped'
  BY <1>2 DEF LinkTyped, UpTyped
<1>3. ASSUME up' = <<>> PROVE UpTyped'
  <2>1. <<>> \in Seq(UpMessages) /\ ~Has(<<>>, BlankUp)
    BY DEF Has
  <2>. QED BY <1>3, <2>1 DEF UpTyped
<1>4. ASSUME NEW c \in Requests, Submit(c) PROVE LinkTyped'
  <2>1. down' \in Seq(Requests)
    BY <1>0, <1>4 DEF Submit
  <2>. QED BY <1>0, <1>2, <1>4, <2>1 DEF Submit, UpTyped
<1>5. ASSUME NEW c \in Requests, AckTimeout(c) PROVE LinkTyped'
  <2>1. UpTyped'
    BY <1>0, <1>5, SendTyped DEF AckTimeout, Refuse
  <2>. QED BY <1>0, <1>2, <1>5, <2>1 DEF AckTimeout
<1>6. CASE HubReads
  <2>1. up # <<>> /\ up' = Tail(up) /\ down' = down
    BY <1>6 DEF HubReads
  <2>2. Tail(up) \in Seq(UpMessages) /\ ~Has(Tail(up), BlankUp)
    BY <1>0, <2>1, TakenOff, Thinner DEF UpTyped, Thin
  <2>. QED BY <1>0, <1>2, <2>1, <2>2 DEF UpTyped
<1>7. CASE HubRejects \/ HubRestart \/ Connects
  <2>1. UpTyped'
    BY <1>3, <1>7 DEF HubRejects, HubRestart, Connects
  <2>2. down' = down \/ down' = <<>>
    BY <1>7 DEF HubRejects, HubRestart, Connects
  <2>3. down' \in Seq(Requests)
    <3>1. <<>> \in Seq(Requests)
      OBVIOUS
    <3>. QED BY <1>0, <2>2, <3>1, Zenon
  <2>. QED BY <1>2, <2>1, <2>3
<1>8. CASE HubAdopts \/ HubNotices \/ FallsSilent \/ StaysAway \/ Notices
  BY <1>1, <1>8 DEF HubAdopts, HubNotices, FallsSilent, StaysAway, Notices, linkVars
<1>9. CASE LinkDrops
  <2>1. PICK i \in 0..Len(up) : up' = SubSeq(up, 1, i)
    BY <1>9 DEF LinkDrops
  <2>2. PICK j \in 0..Len(down) : down' = SubSeq(down, 1, j)
    BY <1>9 DEF LinkDrops
  <2>3. down' \in Seq(Requests)
    BY <1>0, <2>2
  <2>4. up' \in Seq(UpMessages)
    BY <1>0, <2>1 DEF UpTyped
  <2>5. Thin(up', up, BlankUp)
    BY <1>0, <2>1, Thinner DEF UpTyped
  <2>. QED BY <1>0, <1>2, <2>3, <2>4, <2>5 DEF UpTyped, Thin
<1>10. CASE SaysBye
  <2>1. down' \in Seq(Requests) /\ up' = up
    BY <1>10 DEF SaysBye
  <2>. QED BY <1>0, <1>2, <2>1 DEF UpTyped
<1>11. CASE Heartbeat
  <2>1. down' = down
    BY <1>11 DEF Heartbeat
  <2>2. CASE Send(Message("TELEM", NoRequest, 0))
    BY <1>0, <1>2, <2>1, <2>2, SendTyped
  <2>3. CASE up' = up
    BY <1>1, <2>1, <2>3
  <2>. QED BY <1>11, <2>2, <2>3 DEF Heartbeat
<1>12. CASE Deliver
  <2>1. down # <<>> /\ down' = Tail(down) /\ Head(down) \in Requests /\ Tail(down) \in Seq(Requests)
    BY <1>0, <1>12, TakenOff DEF Deliver
  <2>2. CASE up' = up
    BY <1>0, <1>2, <2>1, <2>2 DEF UpTyped
  <2>3. CASE Refuse(Head(down))
    <3>1. UpTyped'
      BY <1>0, <2>1, <2>3, SendTyped DEF Refuse
    <3>. QED BY <1>2, <2>1, <3>1
  <2>. QED BY <1>12, <2>2, <2>3 DEF Deliver
<1>13. CASE Handle
  <2>. DEFINE s == Head(statuses)
              c == s.request_id
  <2>1. down' = down
    BY <1>13, Handles
  <2>2. CASE up' = up
    BY <1>1, <2>1, <2>2
  <2>3. CASE c \in Requests /\ Send(Message(IF acked[c] THEN "RESULT" ELSE "NACK", c, 0))
    <3>1. UpTyped'
      BY <1>0, <2>3, SendTyped
    <3>. QED BY <1>0, <1>2, <2>1, <3>1
  <2>4. CASE c \in Requests /\ Send(Message("ACK", c, 0))
    <3>1. UpTyped'
      BY <1>0, <2>4, SendTyped
    <3>. QED BY <1>0, <1>2, <2>1, <3>1
  <2>5. CASE c \in Requests /\ Translate(s)
    <3>1. s \in Statuses /\ (s.state = "progress" => s.progress # 0)
      BY <1>13, Handles
    <3>2. UpTyped'
      BY <1>0, <2>5, <3>1, Translates DEF EntryTyped
    <3>. QED BY <1>0, <1>2, <2>1, <3>2
  <2>. QED BY <1>13, <2>2, <2>3, <2>4, <2>5, Handles
<1>14. CASE Continue
  <2>. DEFINE s == Head(suspended)
  <2>1. s \in Statuses /\ (s.state = "progress" => s.progress # 0) /\ Translate(s) /\ down' = down
    BY <1>14, HeadStatus DEF Continue, EntryTyped
  <2>2. UpTyped'
    BY <1>0, <2>1, Translates DEF EntryTyped
  <2>. QED BY <1>0, <1>2, <2>1, <2>2
<1>15. CASE Unit \/ UnitRestarts \/ UnitActsLocally
  BY <1>1, <1>15 DEF Unit, UnitReceives, UnitProgresses, UnitCompletes, UnitRestarts,
                     UnitActsLocally, UnitUnchanged, linkVars
<1>16. CASE UNCHANGED shimVars
  BY <1>1, <1>16 DEF shimVars, linkVars
<1>. QED BY <1>4, <1>5, <1>6, <1>7, <1>8, <1>9, <1>10, <1>11, <1>12, <1>13, <1>14, <1>15, <1>16
         DEF ShimNext, Hub, Task

LEMMA EntryTypedStep ==
    LinkTyped /\ EntryTyped /\ UnitTyped /\ [ShimNext]_shimVars => EntryTyped'
<1>. SUFFICES ASSUME LinkTyped, EntryTyped, UnitTyped, [ShimNext]_shimVars PROVE EntryTyped'
  OBVIOUS
<1>0. UpTyped
  BY UpTypedIs
<1>1. ASSUME UNCHANGED entryVars PROVE EntryTyped'
  BY <1>1 DEF EntryTyped, entryVars
<1>2. ASSUME NEW c \in Requests, AckTimeout(c) PROVE EntryTyped'
  BY <1>2 DEF AckTimeout, EntryTyped
<1>3. CASE Deliver
  <2>1. down # <<>> /\ Head(down) \in Requests
    BY <1>3, TakenOff DEF Deliver, LinkTyped
  <2>2. pending' \subseteq Requests /\ UNCHANGED <<acked, last, suspended>>
    BY <1>3, <2>1 DEF Deliver, EntryTyped
  <2>. QED BY <2>2 DEF EntryTyped
<1>4. CASE Handle
  <2>. DEFINE s == Head(statuses)
              c == s.request_id
  <2>1. s \in Statuses /\ (s.state = "progress" => s.progress # 0)
    BY <1>4, Handles
  <2>2. CASE UNCHANGED entryVars
    BY <1>1, <2>2
  <2>3. CASE pending' = pending \ {c} /\ UNCHANGED <<acked, last, suspended>>
    BY <2>3 DEF EntryTyped
  <2>4. CASE /\ acked' = [acked EXCEPT ![c] = TRUE]
             /\ suspended' = Append(suspended, s) /\ UNCHANGED <<pending, last>>
    <3>1. s \notin Blank
      BY <2>1 DEF Blank
    <3>2. suspended' \in Seq(Statuses) /\ ~Has(suspended', Blank)
      BY <2>1, <2>4, <3>1, Grown DEF EntryTyped
    <3>. QED BY <2>4, <3>2 DEF EntryTyped
  <2>5. CASE Translate(s) /\ UNCHANGED <<acked, suspended>>
    <3>1. pending' \subseteq Requests /\ last' \in [Requests -> 0..Steps]
      BY <1>0, <2>1, <2>5, Translates DEF EntryTyped
    <3>. QED BY <2>5, <3>1 DEF EntryTyped
  <2>. QED BY <1>4, <2>2, <2>3, <2>4, <2>5, Handles
<1>5. CASE Continue
  <2>. DEFINE s == Head(suspended)
  <2>1. /\ suspended # <<>> /\ suspended' = Tail(suspended) /\ acked' = acked /\ Translate(s)
        /\ s \in Statuses /\ (s.state = "progress" => s.progress # 0)
    BY <1>5, HeadStatus DEF Continue, EntryTyped
  <2>2. pending' \subseteq Requests /\ last' \in [Requests -> 0..Steps]
    BY <1>0, <2>1, Translates DEF EntryTyped
  <2>3. suspended' \in Seq(Statuses) /\ ~Has(suspended', Blank)
    BY <2>1, TakenOff, Thinner DEF EntryTyped, Thin
  <2>. QED BY <2>1, <2>2, <2>3 DEF EntryTyped
<1>6. ASSUME NEW c \in Requests, Submit(c) PROVE EntryTyped'
  BY <1>1, <1>6 DEF Submit
<1>7. CASE Hub \/ HubRestart \/ LinkDrops
  BY <1>1, <1>7 DEF Hub, HubAdopts, HubRejects, HubReads, HubNotices, HubRestart, LinkDrops
<1>8. CASE SaysBye \/ StaysAway \/ Notices \/ Connects \/ Heartbeat \/ FallsSilent
  BY <1>1, <1>8 DEF SaysBye, StaysAway, Notices, Connects, Heartbeat, FallsSilent
<1>9. CASE Unit \/ UnitRestarts \/ UnitActsLocally
  BY <1>1, <1>9 DEF Unit, UnitReceives, UnitProgresses, UnitCompletes, UnitRestarts,
                    UnitActsLocally, UnitUnchanged
<1>10. CASE UNCHANGED shimVars
  BY <1>1, <1>10 DEF shimVars
<1>. QED BY <1>2, <1>3, <1>4, <1>5, <1>6, <1>7, <1>8, <1>9, <1>10 DEF ShimNext, Task

(* What the unit does with its next command. *)
LEMMA Receives ==
    ASSUME UnitTyped, UnitReceives
    PROVE  LET c == Head(actions)
           IN  /\ actions # <<>> /\ actions' = Tail(actions) /\ c \in Requests
               /\ UNCHANGED UnitUnchanged
               /\ \/ /\ \E s \in {"completed", "rejected"} : Publish(Status(s, c, 0))
                     /\ UNCHANGED <<working, step>>
                  \/ /\ working = NoRequest /\ working' = c /\ step' = 0
                     /\ Publish(Status("started", c, 0))
<1>1. actions # <<>>
  BY DEF UnitReceives
<1>2. Head(actions) \in Requests
  BY <1>1, TakenOff DEF UnitTyped
<1>. QED BY <1>1, <1>2 DEF UnitReceives

LEMMA PublishTyped ==
    ASSUME UnitTyped, NEW s \in {"started", "progress", "completed", "rejected"},
           NEW c \in Requests \union {NoRequest}, NEW n \in 0..Steps,
           s = "progress" => n # 0, Publish(Status(s, c, n))
    PROVE  /\ statuses' \in Seq(Statuses) /\ Len(statuses') <= Room
           /\ ~Has(statuses', Blank)
<1>. DEFINE m == Status(s, c, n)
<1>1. m \in Statuses /\ m \notin Blank
  BY StatusMade
<1>. HIDE DEF m
<1>2. /\ statuses' \in Seq(Statuses) /\ Len(statuses') <= Room
      /\ Has(statuses', Blank) => Has(statuses, Blank) \/ m \in Blank
  BY <1>1, Published DEF UnitTyped, m
<1>. QED BY <1>1, <1>2 DEF UnitTyped

LEMMA UnitTypedStep ==
    LinkTyped /\ UnitTyped /\ EntryTyped /\ [ShimNext]_shimVars => UnitTyped'
<1>. SUFFICES ASSUME LinkTyped, UnitTyped, EntryTyped, [ShimNext]_shimVars PROVE UnitTyped'
  OBVIOUS
<1>0. 0 \in 0..Steps /\ Steps \in Nat
  BY Bounds
<1>1. ASSUME UNCHANGED unitVars PROVE UnitTyped'
  BY <1>1 DEF UnitTyped, unitVars
<1>2. ASSUME statuses' \in Seq(Statuses), Len(statuses') <= Room, ~Has(statuses', Blank),
             actions' \in Seq(Requests), working' \in Requests \union {NoRequest},
             step' \in 0..Steps
      PROVE  UnitTyped'
  BY <1>2 DEF UnitTyped
<1>3. CASE Deliver
  <2>1. down # <<>> /\ Head(down) \in Requests
    BY <1>3, TakenOff DEF Deliver, LinkTyped
  <2>2. /\ actions' \in {Append(actions, Head(down)), actions}
        /\ UNCHANGED <<statuses, working, step>>
    BY <1>3 DEF Deliver
  <2>3. Append(actions, Head(down)) \in Seq(Requests)
    BY <2>1 DEF UnitTyped
  <2>. QED BY <2>2, <2>3 DEF UnitTyped
<1>4. CASE Handle
  <2>1. statuses # <<>> /\ statuses' = Tail(statuses) /\ UNCHANGED <<actions, working, step>>
    BY <1>4, Handles
  <2>2. /\ Tail(statuses) \in Seq(Statuses) /\ Len(Tail(statuses)) = Len(statuses) - 1
        /\ ~Has(Tail(statuses), Blank)
    BY <2>1, TakenOff, Thinner DEF UnitTyped, Thin
  <2>3. Len(Tail(statuses)) <= Room
    BY <2>2, Bounds DEF UnitTyped
  <2>. QED BY <2>1, <2>2, <2>3 DEF UnitTyped
<1>5. CASE UnitReceives
  <2>. DEFINE c == Head(actions)
  <2>1. actions # <<>> /\ actions' = Tail(actions) /\ c \in Requests
    BY <1>5, Receives
  <2>2. actions' \in Seq(Requests)
    BY <2>1, TakenOff DEF UnitTyped
  <2>3. CASE (\E s \in {"completed", "rejected"} : Publish(Status(s, c, 0)))
             /\ UNCHANGED <<working, step>>
    <3>1. statuses' \in Seq(Statuses) /\ Len(statuses') <= Room /\ ~Has(statuses', Blank)
      BY <1>0, <2>1, <2>3, PublishTyped
    <3>. QED BY <1>2, <2>2, <2>3, <3>1 DEF UnitTyped
  <2>4. CASE working' = c /\ step' = 0 /\ Publish(Status("started", c, 0))
    <3>1. statuses' \in Seq(Statuses) /\ Len(statuses') <= Room /\ ~Has(statuses', Blank)
      BY <1>0, <2>1, <2>4, PublishTyped
    <3>. QED BY <1>0, <1>2, <2>1, <2>2, <2>4, <3>1
  <2>. QED BY <1>5, <2>3, <2>4, Receives
<1>6. CASE UnitProgresses
  <2>1. PICK n \in {step, step + 1} \cap 1..Steps :
            step' = n /\ Publish(Status("progress", working, n))
    BY <1>6 DEF UnitProgresses
  <2>2. n \in 0..Steps /\ n # 0
    BY <1>0, <2>1
  <2>3. statuses' \in Seq(Statuses) /\ Len(statuses') <= Room /\ ~Has(statuses', Blank)
    BY <2>1, <2>2, PublishTyped DEF UnitTyped
  <2>. QED BY <1>2, <1>6, <2>1, <2>2, <2>3 DEF UnitProgresses, UnitTyped
<1>7. CASE UnitCompletes
  <2>1. statuses' \in Seq(Statuses) /\ Len(statuses') <= Room /\ ~Has(statuses', Blank)
    BY <1>0, <1>7, PublishTyped DEF UnitCompletes, UnitTyped
  <2>. QED BY <1>0, <1>2, <1>7, <2>1 DEF UnitCompletes, UnitTyped
<1>8. CASE UnitRestarts
  BY <1>0, <1>8 DEF UnitRestarts, UnitTyped
<1>9. CASE UnitActsLocally
  <2>. DEFINE m == Status("started", NoRequest, 0)
  <2>1. m \in Statuses /\ m \notin Blank
    BY <1>0, StatusMade
  <2>. HIDE DEF m
  <2>2. statuses' = <<m>> /\ UNCHANGED <<actions, working, step>>
    BY <1>9 DEF UnitActsLocally, m
  <2>3. <<m>> \in Seq(Statuses) /\ Len(<<m>>) = 1 /\ ~Has(<<m>>, Blank)
    BY <2>1, OneOrNone
  <2>. QED BY <2>2, <2>3, Bounds DEF UnitTyped
<1>10. ASSUME NEW c \in Requests, Submit(c) \/ AckTimeout(c) PROVE UnitTyped'
  BY <1>1, <1>10 DEF Submit, AckTimeout
<1>11. CASE Hub \/ HubRestart \/ LinkDrops
  BY <1>1, <1>11 DEF Hub, HubAdopts, HubRejects, HubReads, HubNotices, HubRestart, LinkDrops
<1>12. CASE SaysBye \/ StaysAway \/ Notices \/ Connects \/ Heartbeat \/ FallsSilent \/ Continue
  BY <1>1, <1>12 DEF SaysBye, StaysAway, Notices, Connects, Heartbeat, FallsSilent, Continue
<1>13. CASE UNCHANGED shimVars
  BY <1>1, <1>13 DEF shimVars
<1>. QED BY <1>3, <1>4, <1>5, <1>6, <1>7, <1>8, <1>9, <1>10, <1>11, <1>12, <1>13
         DEF ShimNext, Task, Unit

LEMMA ShimTypedStep == ShimTyped /\ [ShimNext]_shimVars => ShimTyped'
  BY HubTypedStep, LinkTypedStep, TaskTypedStep, EntryTypedStep, UnitTypedStep DEF ShimTyped

-----------------------------------------------------------------------------
(* One command and one step: the places the command may be in.             *)

(* The new queue is the old one, or what is left of it. *)
Short(new, old) ==
    \/ new = old \/ new = <<>> \/ (old # <<>> /\ new = Tail(old))
    \/ \E n \in 0..Len(old) : new = SubSeq(old, 1, n)

LEMMA Shorter ==
    ASSUME NEW T, NEW old \in Seq(T), NEW new, Short(new, old), NEW X
    PROVE  Thin(new, old, X)
<1>1. CASE new = old \/ new = <<>>
  BY <1>1, Thinner
<1>2. CASE old # <<>> /\ new = Tail(old)
  BY <1>2, Thinner
<1>3. ASSUME NEW n \in 0..Len(old), new = SubSeq(old, 1, n) PROVE Thin(new, old, X)
  BY <1>3, Thinner
<1>. QED BY <1>1, <1>2, <1>3 DEF Short

LEMMA HasMore ==
    ASSUME NEW s, NEW X, NEW R, X \subseteq R, Has(s, X)
    PROVE  Has(s, R)
  BY DEF Has

(* Nothing that matters of c is sent in this step. *)
UpThin(c) == \A kinds \in SUBSET Weighty : Thin(up', up, Said(c, kinds))

UnitThin(c) ==
    /\ Thin(actions', actions, {c})
    /\ Thin(statuses', statuses, EndOf(c))
    /\ Thin(suspended', suspended, EndOf(c))
    /\ working' = c => working = c

(* Nothing about c happens in this step, but that something may be lost.   *)
Spares(c) ==
    /\ trail'[c] = trail[c]
    /\ c \in inflight' => c \in inflight
    /\ c \in pending' <=> c \in pending
    /\ acked'[c] = acked[c]
    /\ UpThin(c) /\ UnitThin(c)
    /\ Thin(down', down, {c})

LEMMA Weights ==
    /\ {"ACK"} \in SUBSET Weighty /\ {"NACK"} \in SUBSET Weighty
    /\ Verdicts \in SUBSET Weighty /\ Weighty \in SUBSET Weighty
    /\ \A c : \A kinds \in SUBSET Weighty : Said(c, kinds) \subseteq Said(c, Weighty)
  BY DEF Weighty, Verdicts, Said

LEMMA Spared ==
    ASSUME NEW c \in Requests, Custody(c), Spares(c)
    PROVE  Custody(c)'
<1>1. /\ Thin(up', up, Said(c, {"ACK"})) /\ Thin(up', up, Said(c, {"NACK"}))
      /\ Thin(up', up, Said(c, Verdicts)) /\ Thin(up', up, Said(c, Weighty))
  BY Weights DEF Spares, UpThin
<1>2. EndsOnce(c)'
  BY DEF Custody, EndsOnce, Spares, UnitThin, Thin
<1>3. Untouched(c) => Untouched(c)'
  BY <1>1 DEF Untouched, Spares, UnitThin, Thin
<1>4. Placed(c)'
  BY <1>1, <1>3 DEF Custody, Placed, Spares, Thin
<1>5. Acknowledged(c)'
  BY <1>1 DEF Custody, Acknowledged, Spares, Thin
<1>. QED BY <1>2, <1>4, <1>5 DEF Custody

LEMMA UpShort ==
    ASSUME LinkTyped, Short(up', up), NEW c
    PROVE  UpThin(c)
  BY Shorter DEF UpThin, LinkTyped

(* A message about another command, or one that settles nothing. *)
LEMMA UpOther ==
    ASSUME LinkTyped, NEW t \in {"TELEM", "ACK", "NACK", "PROGRESS", "RESULT"},
           NEW d \in Requests \union {NoRequest}, NEW n \in 0..Steps,
           Send(Message(t, d, n)), NEW c, d # c \/ t \notin Weighty
    PROVE  UpThin(c)
<1>. DEFINE m == Message(t, d, n)
<1>. SUFFICES ASSUME NEW kinds \in SUBSET Weighty PROVE Thin(up', up, Said(c, kinds))
  BY DEF UpThin
<1>1. m \in UpMessages /\ m \notin Said(c, kinds)
  BY MessageMade
<1>. HIDE DEF m
<1>. QED BY <1>1, Sent DEF LinkTyped, m

(* The queues of the unit, as a step that is not about c leaves them. *)
LEMMA UnitSame ==
    ASSUME EntryTyped, UnitTyped, UNCHANGED unitVars, Short(suspended', suspended), NEW c
    PROVE  UnitThin(c)
<1>1. Thin(actions', actions, {c}) /\ Thin(statuses', statuses, EndOf(c))
  BY Thinner DEF UnitTyped, unitVars
<1>2. Thin(suspended', suspended, EndOf(c))
  BY Shorter DEF EntryTyped
<1>. QED BY <1>1, <1>2 DEF UnitThin, unitVars

LEMMA PublishOther ==
    ASSUME UnitTyped, NEW s \in {"started", "progress", "completed", "rejected"},
           NEW d \in Requests \union {NoRequest}, NEW n \in 0..Steps,
           Publish(Status(s, d, n)), NEW c, d # c \/ s \in {"started", "progress"}
    PROVE  Thin(statuses', statuses, EndOf(c))
<1>. DEFINE m == Status(s, d, n)
<1>1. m \in Statuses /\ m \notin EndOf(c)
  BY StatusMade
<1>. HIDE DEF m
<1>. QED BY <1>1, Published DEF UnitTyped, m

(* The steps that are about no command. *)
LEMMA SparingSteps ==
    ASSUME ShimTyped, NEW c \in Requests,
           \/ HubAdopts \/ HubRejects \/ HubRestart \/ LinkDrops \/ Heartbeat \/ FallsSilent
           \/ Connects \/ StaysAway \/ SaysBye \/ Notices
           \/ UnitProgresses \/ UnitRestarts \/ UnitActsLocally \/ UNCHANGED shimVars
    PROVE  Spares(c)
<1>0. HubTyped /\ LinkTyped /\ EntryTyped /\ UnitTyped /\ NoRequest \notin Requests /\ 0 \in 0..Steps
  BY Bounds DEF ShimTyped
<1>1. ASSUME UNCHANGED <<trail, entryVars, unitVars>>, inflight' = inflight \/ inflight' = {},
             UpThin(c), Short(down', down)
      PROVE  Spares(c)
  <2>1. Short(suspended', suspended)
    BY <1>1 DEF Short, entryVars
  <2>2. UnitThin(c)
    BY <1>0, <1>1, <2>1, UnitSame
  <2>3. Thin(down', down, {c})
    BY <1>0, <1>1, Shorter DEF LinkTyped
  <2>. QED BY <1>1, <2>2, <2>3 DEF Spares, entryVars
<1>2. ASSUME UNCHANGED <<trail, entryVars, unitVars>>, inflight' = inflight \/ inflight' = {},
             Short(up', up), Short(down', down)
      PROVE  Spares(c)
  BY <1>0, <1>1, <1>2, UpShort
<1>3. CASE HubAdopts \/ FallsSilent \/ StaysAway \/ Notices
  BY <1>2, <1>3 DEF HubAdopts, FallsSilent, StaysAway, Notices, linkVars, hubVars, Short
<1>4. CASE HubRejects \/ HubRestart
  BY <1>2, <1>4 DEF HubRejects, HubRestart, Short
<1>5. CASE Connects \/ SaysBye
  BY <1>2, <1>5 DEF Connects, SaysBye, Short, hubVars
<1>6. CASE LinkDrops
  <2>1. Short(up', up) /\ Short(down', down)
    BY <1>6 DEF LinkDrops, Short
  <2>. QED BY <1>2, <1>6, <2>1 DEF LinkDrops, hubVars
<1>7. CASE Heartbeat
  <2>1. UpThin(c)
    <3>1. CASE Send(Message("TELEM", NoRequest, 0))
      BY <1>0, <3>1, UpOther
    <3>2. CASE up' = up
      BY <1>0, <3>2, UpShort DEF Short
    <3>. QED BY <1>7, <3>1, <3>2 DEF Heartbeat
  <2>. QED BY <1>1, <1>7, <2>1 DEF Heartbeat, hubVars, Short
<1>8. ASSUME UNCHANGED <<actions, UnitUnchanged>>, working' = c => working = c,
             Thin(statuses', statuses, EndOf(c))
      PROVE  Spares(c)
  <2>1. Thin(actions', actions, {c}) /\ Thin(suspended', suspended, EndOf(c))
    BY <1>0, <1>8, Thinner DEF UnitTyped, EntryTyped, UnitUnchanged, entryVars
  <2>2. UpThin(c) /\ Thin(down', down, {c})
    <3>1. Short(up', up) /\ down' = down
      BY <1>8 DEF UnitUnchanged, linkVars, Short
    <3>. QED BY <1>0, <3>1, UpShort, Thinner DEF LinkTyped
  <2>. QED BY <1>8, <2>1, <2>2 DEF Spares, UnitThin, UnitUnchanged, hubVars, entryVars
<1>9. CASE UnitProgresses
  <2>1. PICK n \in {step, step + 1} \cap 1..Steps : Publish(Status("progress", working, n))
    BY <1>9 DEF UnitProgresses
  <2>2. n \in 0..Steps /\ working \in Requests \union {NoRequest}
    BY <1>0, <2>1, Bounds DEF UnitTyped
  <2>3. Thin(statuses', statuses, EndOf(c))
    BY <1>0, <2>1, <2>2, PublishOther
  <2>. QED BY <1>8, <1>9, <2>3 DEF UnitProgresses
<1>10. CASE UnitRestarts
  <2>1. Thin(statuses', statuses, EndOf(c))
    BY <1>0, <1>10, Thinner DEF UnitTyped, UnitRestarts
  <2>. QED BY <1>0, <1>8, <1>10, <2>1 DEF UnitRestarts
<1>11. CASE UnitActsLocally
  <2>. DEFINE m == Status("started", NoRequest, 0)
  <2>1. m \in Statuses /\ m \notin EndOf(c)
    BY <1>0, StatusMade
  <2>. HIDE DEF m
  <2>2. statuses' = <<m>>
    BY <1>11 DEF UnitActsLocally, m
  <2>3. Thin(<<m>>, statuses, EndOf(c))
    BY <2>1, OneOrNone DEF Thin
  <2>. QED BY <1>8, <1>11, <2>2, <2>3 DEF UnitActsLocally
<1>12. CASE UNCHANGED shimVars
  BY <1>2, <1>12 DEF shimVars, hubVars, linkVars, Short
<1>. QED BY <1>3, <1>4, <1>5, <1>6, <1>7, <1>9, <1>10, <1>11, <1>12

(* A queue that may have got one more. *)
LEMMA Added ==
    ASSUME NEW T, NEW old \in Seq(T), NEW x \in T, NEW new,
           new = Append(old, x) \/ new = old, NEW X
    PROVE  /\ x \notin X => Thin(new, old, X)
           /\ Has(new, X) => Has(old, X) \/ x \in X
           /\ Has(old, X) => Has(new, X)
           /\ AtMostOne(old, X) /\ ~Has(old, X) => AtMostOne(new, X)
<1>1. /\ x \notin X => Thin(Append(old, x), old, X)
      /\ Has(Append(old, x), X) <=> Has(old, X) \/ x \in X
      /\ AtMostOne(old, X) /\ ~Has(old, X) => AtMostOne(Append(old, x), X)
  BY Grown
<1>2. Thin(old, old, X)
  BY Thinner
<1>. QED BY <1>1, <1>2

LEMMA SubmitCustody ==
    ASSUME ShimTyped, NEW d \in Requests, Submit(d), NEW c \in Requests, Custody(c)
    PROVE  Custody(c)'
<1>0. HubTyped /\ LinkTyped /\ EntryTyped /\ UnitTyped
  BY DEF ShimTyped
<1>1. /\ UNCHANGED <<entryVars, unitVars, up>> /\ trail[d] = <<>>
      /\ trail' = [trail EXCEPT ![d] = <<"command">>]
      /\ inflight' = inflight \union {d}
      /\ down' = Append(down, d) \/ down' = down
  BY DEF Submit
<1>2. UpThin(c) /\ UnitThin(c)
  <2>1. Short(up', up) /\ Short(suspended', suspended)
    BY <1>1 DEF Short, entryVars
  <2>. QED BY <1>0, <1>1, <2>1, UpShort, UnitSame
<1>3. CASE c # d
  <2>1. Thin(down', down, {c})
    BY <1>0, <1>1, <1>3, Added DEF LinkTyped
  <2>2. Spares(c)
    BY <1>0, <1>1, <1>2, <1>3, <2>1 DEF Spares, HubTyped, entryVars
  <2>. QED BY <2>2, Spared
<1>4. CASE c = d
  <2>1. trail'[c] = <<"command">> /\ <<"command">> # <<>>
    BY <1>0, <1>1, <1>4 DEF HubTyped
  <2>2. /\ \A X : "command" \notin X => ~Has(trail'[c], X)
        /\ \A X : AtMostOne(trail'[c], X)
    BY <2>1, OneOrNone
  <2>3. Untouched(c) /\ ~Has(down, {c}) /\ trail[c] = <<>>
    BY <1>1, <1>4 DEF Custody, Placed
  <2>4. AtMostOne(down', {c})
    BY <1>0, <1>1, <1>4, <2>3, Added DEF LinkTyped, Custody, Placed
  <2>5. Untouched(c)' /\ EndsOnce(c)'
    BY <1>1, <2>3 DEF Untouched, Custody, EndsOnce, entryVars, unitVars
  <2>6. ~Has(up, Said(c, Verdicts)) /\ AtMostOne(up, Said(c, Verdicts))
    BY <2>3, HasMore, Weights DEF Untouched, Custody, Placed
  <2>7. Placed(c)'
    BY <1>1, <2>1, <2>2, <2>3, <2>4, <2>5, <2>6 DEF Placed, Untouched, entryVars, Answers
  <2>8. Acknowledged(c)'
    BY <1>1, <2>2 DEF Custody, Acknowledged, entryVars
  <2>. QED BY <2>5, <2>7, <2>8 DEF Custody
<1>. QED BY <1>3, <1>4

(* A pending command is answered: the token moves from pending to the link.*)
LEMMA VerdictOut ==
    ASSUME ShimTyped, NEW c \in Requests, Custody(c), c \in pending,
           NEW t \in Verdicts, t = "NACK" <=> ~acked[c],
           Send(Message(t, c, 0)), pending' = pending \ {c},
           acked' = acked, UNCHANGED <<trail, inflight, down, actions, working>>,
           Thin(statuses', statuses, EndOf(c)), Thin(suspended', suspended, EndOf(c)),
           ~Has(suspended', EndOf(c))
    PROVE  Custody(c)'
<1>. DEFINE m == Message(t, c, 0)
<1>0. LinkTyped /\ 0 \in 0..Steps /\ c \in Requests \union {NoRequest}
      /\ t \in {"TELEM", "ACK", "NACK", "PROGRESS", "RESULT"} /\ t \in {"NACK", "RESULT"}
  BY Bounds DEF ShimTyped, Verdicts
<1>1. m \in UpMessages /\ \A kinds : m \in Said(c, kinds) <=> t \in kinds
  BY <1>0, MessageMade
<1>. HIDE DEF m
<1>2. \A X : /\ m \notin X => Thin(up', up, X)
             /\ Has(up', X) => Has(up, X) \/ m \in X
             /\ AtMostOne(up, X) /\ ~Has(up, X) => AtMostOne(up', X)
  BY <1>0, <1>1, Sent DEF LinkTyped, m
<1>3. EndsOnce(c)'
  BY DEF Custody, EndsOnce, Thin
<1>4. /\ trail[c] # <<>> /\ ~Has(down, {c})
      /\ ~Has(up, Said(c, Verdicts)) /\ ~Has(trail[c], Answers)
  BY DEF Custody, Placed, Untouched
<1>5. AtMostOne(up', Said(c, Verdicts))
  BY <1>2, <1>4 DEF Custody, Placed
<1>6. Placed(c)'
  BY <1>4, <1>5 DEF Custody, Placed
<1>7. /\ Has(up', Said(c, {"ACK"})) => Has(up, Said(c, {"ACK"}))
      /\ Has(up', Said(c, {"NACK"})) => Has(up, Said(c, {"NACK"})) \/ t = "NACK"
  BY <1>0, <1>1, <1>2
<1>8. Acknowledged(c)'
  BY <1>7 DEF Custody, Acknowledged
<1>. QED BY <1>3, <1>6, <1>8 DEF Custody

LEMMA TimeoutCustody ==
    ASSUME ShimTyped, NEW d \in Requests, AckTimeout(d), NEW c \in Requests, Custody(c)
    PROVE  Custody(c)'
<1>0. HubTyped /\ LinkTyped /\ EntryTyped /\ UnitTyped /\ 0 \in 0..Steps
  BY Bounds DEF ShimTyped
<1>1. /\ d \in pending /\ ~acked[d] /\ pending' = pending \ {d}
      /\ Send(Message("NACK", d, 0))
      /\ UNCHANGED <<hubVars, alive, down, acked, last, suspended, unitVars>>
  BY DEF AckTimeout, Unanswered, Refuse
<1>2. CASE c # d
  <2>1. UpThin(c)
    BY <1>0, <1>1, <1>2, UpOther
  <2>2. Short(suspended', suspended)
    BY <1>1 DEF Short
  <2>3. UnitThin(c) /\ Thin(down', down, {c})
    BY <1>0, <1>1, <2>2, UnitSame, Thinner DEF LinkTyped
  <2>4. Spares(c)
    BY <1>1, <1>2, <2>1, <2>3 DEF Spares, hubVars
  <2>. QED BY <2>4, Spared
<1>3. CASE c = d
  <2>1. ~Has(suspended, EndOf(c))
    BY <1>1, <1>3 DEF Custody, EndsOnce
  <2>2. Thin(statuses', statuses, EndOf(c)) /\ Thin(suspended', suspended, EndOf(c))
    BY <1>0, <1>1, Thinner DEF UnitTyped, EntryTyped, unitVars
  <2>3. "NACK" \in Verdicts /\ UNCHANGED <<trail, inflight, down, actions, working>>
    BY <1>1 DEF Verdicts, hubVars, unitVars
  <2>. QED BY <1>1, <1>3, <2>1, <2>2, <2>3, VerdictOut
<1>. QED BY <1>2, <1>3

LEMMA ReadCustody ==
    ASSUME ShimTyped, HubReads, NEW c \in Requests, Custody(c)
    PROVE  Custody(c)'
<1>. DEFINE m == Head(up)
            d == m.command_id
<1>0. HubTyped /\ LinkTyped /\ EntryTyped /\ UnitTyped
  BY DEF ShimTyped
<1>1. /\ up # <<>> /\ up' = Tail(up) /\ up \in Seq(UpMessages)
      /\ UNCHANGED <<down, entryVars, unitVars>>
      /\ d \notin Requests => UNCHANGED <<trail, shown, inflight>>
      /\ d \in Requests =>
            /\ trail' = [trail EXCEPT ![d] = trail[d] \o Evidence(m.t)]
            /\ inflight' = IF m.t \in Verdicts THEN inflight \ {d} ELSE inflight
  BY <1>0, ReadsUp DEF LinkTyped
<1>2. /\ m.t \in {"TELEM", "ACK", "NACK", "PROGRESS", "RESULT"}
      /\ \A kinds : m \in Said(c, kinds) <=> d = c /\ m.t \in kinds
  BY <1>1, HeadUp
<1>3. UpThin(c) /\ UnitThin(c) /\ Thin(down', down, {c})
  <2>1. Short(up', up) /\ Short(suspended', suspended)
    BY <1>1 DEF Short, entryVars
  <2>. QED BY <1>0, <1>1, <2>1, UpShort, UnitSame, Thinner DEF LinkTyped
<1>4. CASE d # c
  <2>1. Spares(c)
    BY <1>0, <1>1, <1>3, <1>4 DEF Spares, HubTyped, entryVars
  <2>. QED BY <2>1, Spared
<1>5. CASE d = c
  <2>. DEFINE e == Evidence(m.t)
  <2>1. trail[c] \in Seq(EvidenceKinds) /\ e \in Seq(EvidenceKinds) /\ trail'[c] = trail[c] \o e
    BY <1>0, <1>1, <1>2, <1>5, EvidenceIs DEF HubTyped
  <2>2. CASE m.t \notin Weighty
    <3>1. e = <<>>
      BY <1>2, <2>2, EvidenceIs
    <3>2. trail'[c] = trail[c]
      <4>1. trail[c] \o <<>> = trail[c]
        BY <2>1
      <4>. QED BY <2>1, <3>1, <4>1, Zenon
    <3>3. Spares(c)
      BY <1>1, <1>3, <1>5, <2>2, <3>2 DEF Spares, entryVars, Verdicts, Weighty
    <3>. QED BY <3>3, Spared
  <2>3. CASE m.t \in Weighty
    <3>1. Has(up, Said(c, Weighty)) /\ trail[c] # <<>> /\ ~Has(down, {c})
      <4>1. Has(up, Said(c, Weighty))
        BY <1>1, <1>2, <1>5, <2>3, TakenOff
      <4>. QED BY <4>1 DEF Custody, Placed, Untouched
    <3>2. \A X : /\ Has(trail'[c], X) <=> Has(trail[c], X) \/ Has(e, X)
                 /\ AtMostOne(trail[c], X) /\ ~Has(e, X) => AtMostOne(trail'[c], X)
                 /\ ~Has(trail[c], X) /\ AtMostOne(e, X) => AtMostOne(trail'[c], X)
      BY <2>1, Chained
    <3>3. /\ Has(e, {"ack"}) <=> m.t = "ACK"
          /\ Has(e, {"nack"}) <=> m.t = "NACK"
          /\ Has(e, Answers) <=> m.t \in Verdicts
          /\ ~Has(e, {"lost"}) /\ AtMostOne(e, Answers)
      BY <1>2, EvidenceIs
    <3>4. trail'[c] # <<>>
      BY <2>1, <3>1
    <3>5. \A X : Thin(up', up, X)
      BY <1>1, Thinner
    <3>6. m.t \in Verdicts => /\ Has(up, Said(c, Verdicts)) /\ ~Has(up', Said(c, Verdicts))
                              /\ ~Has(trail[c], Answers) /\ c \notin pending
      <4>1. ASSUME m.t \in Verdicts
            PROVE  Has(up, Said(c, Verdicts)) /\ ~Has(up', Said(c, Verdicts))
        BY <1>1, <1>2, <1>5, <4>1, TakenOff DEF Custody, Placed
      <4>. QED BY <4>1 DEF Custody, Placed
    <3>7. /\ Has(trail'[c], Answers) <=> Has(trail[c], Answers) \/ m.t \in Verdicts
          /\ AtMostOne(trail'[c], Answers) /\ AtMostOne(trail'[c], {"lost"})
          /\ Has(trail'[c], {"lost"}) <=> Has(trail[c], {"lost"})
      BY <3>2, <3>3, <3>6 DEF Custody, Placed
    <3>8. Thin(up', up, Said(c, Verdicts)) /\ Thin(down', down, {c})
      BY <1>3, <3>5
    <3>9. pending' = pending /\ acked' = acked /\ inflight' \subseteq inflight /\ down' = down
      BY <1>1, <1>5 DEF entryVars
    <3>10. Placed(c)'
      BY <3>1, <3>4, <3>6, <3>7, <3>8, <3>9 DEF Custody, Placed, Thin
    <3>11. EndsOnce(c)'
      BY <1>3, <3>9 DEF Custody, EndsOnce, UnitThin, Thin
    <3>12. /\ m.t = "ACK" => Has(up, Said(c, {"ACK"}))
           /\ m.t = "NACK" => Has(up, Said(c, {"NACK"}))
      BY <1>1, <1>2, <1>5, TakenOff
    <3>13. Thin(up', up, Said(c, {"ACK"})) /\ Thin(up', up, Said(c, {"NACK"}))
      BY <3>5
    <3>14. Acknowledged(c)'
      BY <3>2, <3>3, <3>9, <3>12, <3>13 DEF Custody, Acknowledged, Thin
    <3>. QED BY <3>10, <3>11, <3>14 DEF Custody
  <2>. QED BY <2>2, <2>3
<1>. QED BY <1>4, <1>5

LEMMA NoticeCustody ==
    ASSUME ShimTyped, HubNotices, NEW c \in Requests, Custody(c)
    PROVE  Custody(c)'
<1>0. HubTyped /\ LinkTyped /\ EntryTyped /\ UnitTyped
  BY DEF ShimTyped
<1>1. /\ inflight' = {} /\ UNCHANGED <<up, down, entryVars, unitVars>>
      /\ trail'[c] = IF c \in inflight THEN Append(trail[c], "lost") ELSE trail[c]
  BY <1>0 DEF HubNotices, HubTyped, linkVars
<1>2. UpThin(c) /\ UnitThin(c) /\ Thin(down', down, {c})
  <2>1. Short(up', up) /\ Short(suspended', suspended)
    BY <1>1 DEF Short, entryVars
  <2>. QED BY <1>0, <1>1, <2>1, UpShort, UnitSame, Thinner DEF LinkTyped
<1>3. CASE c \notin inflight
  <2>1. Spares(c)
    BY <1>1, <1>2, <1>3 DEF Spares, entryVars
  <2>. QED BY <2>1, Spared
<1>4. CASE c \in inflight
  <2>0. trail[c] \in Seq(EvidenceKinds) /\ "lost" \in EvidenceKinds
    BY <1>0 DEF HubTyped, EvidenceKinds
  <2>1. /\ trail[c] \in Seq(EvidenceKinds) /\ "lost" \in EvidenceKinds
        /\ trail'[c] = Append(trail[c], "lost") /\ Append(trail[c], "lost") # <<>>
    <3>1. Append(trail[c], "lost") # <<>>
      BY <2>0
    <3>. QED BY <1>1, <1>4, <2>0, <3>1
  <2>2. \A X : /\ "lost" \notin X => Thin(trail'[c], trail[c], X)
               /\ AtMostOne(trail[c], X) /\ ~Has(trail[c], X) => AtMostOne(trail'[c], X)
    BY <2>1, Added
  <2>3. trail[c] # <<>> /\ ~Has(trail[c], {"lost"}) /\ trail'[c] # <<>>
    BY <1>4, <2>1 DEF Custody, Placed
  <2>4. /\ Thin(trail'[c], trail[c], Answers)
        /\ Thin(trail'[c], trail[c], Answers \union {"ack", "nack"})
        /\ Thin(trail'[c], trail[c], {"ack"}) /\ Thin(trail'[c], trail[c], {"nack"})
        /\ AtMostOne(trail'[c], {"lost"})
    BY <2>2, <2>3 DEF Custody, Placed, Answers
  <2>5. Untouched(c) => Untouched(c)'
    BY <1>1 DEF Untouched, entryVars, unitVars
  <2>6. Placed(c)'
    BY <1>1, <2>3, <2>4, <2>5 DEF Custody, Placed, Thin, entryVars
  <2>7. EndsOnce(c)' /\ Acknowledged(c)'
    BY <1>1, <2>4 DEF Custody, EndsOnce, Acknowledged, Thin, entryVars, unitVars
  <2>. QED BY <2>6, <2>7 DEF Custody
<1>. QED BY <1>3, <1>4

LEMMA DeliverCustody ==
    ASSUME ShimTyped, Deliver, NEW c \in Requests, Custody(c)
    PROVE  Custody(c)'
<1>. DEFINE d == Head(down)
<1>0. HubTyped /\ LinkTyped /\ EntryTyped /\ UnitTyped /\ 0 \in 0..Steps
  BY Bounds DEF ShimTyped
<1>1. /\ down # <<>> /\ down' = Tail(down) /\ down \in Seq(Requests) /\ d \in Requests
      /\ UNCHANGED <<hubVars, alive, acked, last, suspended, statuses, working, step>>
      /\ actions' \in {Append(actions, d), actions}
      /\ \/ pending' = pending \union {d} /\ up' = up
         \/ Send(Message("NACK", d, 0)) /\ UNCHANGED pending
  <2>1. down # <<>> /\ down \in Seq(Requests)
    BY <1>0 DEF Deliver, LinkTyped
  <2>2. d \in Requests
    BY <2>1, TakenOff
  <2>. QED BY <2>1, <2>2 DEF Deliver, Refuse
<1>2. Thin(down', down, {c}) /\ Thin(statuses', statuses, EndOf(c))
      /\ Thin(suspended', suspended, EndOf(c))
  BY <1>0, <1>1, Thinner DEF UnitTyped, EntryTyped
<1>3. CASE d # c
  <2>1. UpThin(c)
    <3>1. CASE up' = up
      BY <1>0, <3>1, UpShort DEF Short
    <3>2. CASE Send(Message("NACK", d, 0))
      BY <1>0, <1>1, <1>3, <3>2, UpOther
    <3>. QED BY <1>1, <3>1, <3>2
  <2>2. Thin(actions', actions, {c})
    <3>1. actions \in Seq(Requests) /\ (actions' = Append(actions, d) \/ actions' = actions)
      BY <1>0, <1>1 DEF UnitTyped
    <3>2. d \in Requests
      BY <1>1
    <3>. HIDE DEF d
    <3>3. \A X : d \notin X => Thin(actions', actions, X)
      BY <3>1, <3>2, Added
    <3>. QED BY <1>3, <3>3
  <2>3. Spares(c)
    BY <1>1, <1>2, <1>3, <2>1, <2>2 DEF Spares, UnitThin, hubVars
  <2>. QED BY <2>3, Spared
<1>4. CASE d = c
  <2>1. Has(down, {c}) /\ ~Has(down', {c}) /\ AtMostOne(down', {c})
    BY <1>1, <1>2, <1>4, TakenOff DEF Custody, Placed, Thin
  <2>2. /\ Untouched(c) /\ trail[c] # <<>>
        /\ ~Has(trail[c], Answers \union {"ack", "nack"})
    BY <2>1 DEF Custody, Placed
  <2>3. /\ ~Has(trail[c], Answers) /\ ~Has(trail[c], {"ack"}) /\ ~Has(trail[c], {"nack"})
        /\ ~Has(up, Said(c, Verdicts)) /\ ~Has(up, Said(c, {"ACK"}))
        /\ ~Has(up, Said(c, {"NACK"}))
    BY <2>2, HasMore, Weights DEF Untouched
  <2>4. ~Has(suspended, EndOf(c))
    BY <2>2 DEF Untouched, Custody, EndsOnce
  <2>5. trail' = trail /\ inflight' = inflight
    BY <1>1 DEF hubVars
  <2>6. EndsOnce(c)'
    <3>1. AtMostOne(actions', {c})
      <4>1. actions \in Seq(Requests) /\ (actions' = Append(actions, d) \/ actions' = actions)
        BY <1>0, <1>1 DEF UnitTyped
      <4>2. AtMostOne(actions, {c}) /\ ~Has(actions, {c})
        BY <2>2 DEF Untouched, Custody, EndsOnce
      <4>. QED BY <1>1, <4>1, <4>2, Added
    <3>. QED BY <1>1, <2>2, <2>4, <3>1 DEF Untouched, Custody, EndsOnce
  <2>7. CASE pending' = pending \union {d} /\ up' = up
    <3>1. Placed(c)'
      BY <2>1, <2>2, <2>3, <2>5, <2>7 DEF Custody, Placed
    <3>2. Acknowledged(c)'
      BY <2>3, <2>5, <2>7 DEF Acknowledged
    <3>. QED BY <2>6, <3>1, <3>2 DEF Custody
  <2>8. CASE Send(Message("NACK", d, 0)) /\ UNCHANGED pending
    <3>. DEFINE m == Message("NACK", d, 0)
    <3>1. m \in UpMessages /\ \A kinds : m \in Said(c, kinds) <=> "NACK" \in kinds
      BY <1>0, <1>1, <1>4, MessageMade
    <3>. HIDE DEF m
    <3>2. \A X : /\ Has(up', X) => Has(up, X) \/ m \in X
                 /\ AtMostOne(up, X) /\ ~Has(up, X) => AtMostOne(up', X)
      BY <1>0, <2>8, <3>1, Sent DEF LinkTyped, m
    <3>3. AtMostOne(up', Said(c, Verdicts))
      BY <2>3, <3>2 DEF Custody, Placed
    <3>4. c \notin pending' /\ ~acked'[c]
      BY <1>1, <2>2, <2>8 DEF Untouched
    <3>5. Placed(c)'
      BY <2>1, <2>2, <2>3, <2>5, <3>3, <3>4 DEF Custody, Placed
    <3>6. ~Has(up', Said(c, {"ACK"}))
      BY <2>3, <3>1, <3>2
    <3>7. Acknowledged(c)'
      BY <2>3, <2>5, <3>4, <3>6 DEF Acknowledged
    <3>. QED BY <2>6, <3>5, <3>7 DEF Custody
  <2>. QED BY <1>1, <2>7, <2>8
<1>. QED BY <1>3, <1>4

(* The rest of _action_status, for a status of a command that was accepted.*)
LEMMA TranslateCustody ==
    ASSUME ShimTyped, NEW s \in Statuses, Translate(s), NEW c \in Requests, Custody(c),
           acked' = acked, UNCHANGED <<trail, inflight, down, actions, working>>,
           Thin(statuses', statuses, EndOf(c)), Thin(suspended', suspended, EndOf(c)),
           s \in EndOf(c) => c \in pending /\ acked[c] /\ ~Has(suspended', EndOf(c))
    PROVE  Custody(c)'
<1>. DEFINE d == s.request_id
<1>0. LinkTyped /\ UnitTyped /\ d \in Requests \union {NoRequest} /\ s.progress \in 0..Steps
      /\ 0 \in 0..Steps
  BY Bounds DEF ShimTyped, Statuses
<1>1. ASSUME UpThin(c), c \in pending' <=> c \in pending PROVE Custody(c)'
  <2>1. Thin(down', down, {c}) /\ Thin(actions', actions, {c})
    BY <1>0, Thinner DEF LinkTyped, UnitTyped
  <2>2. Spares(c)
    BY <1>1, <2>1 DEF Spares, UnitThin
  <2>. QED BY <2>2, Spared
<1>2. CASE s.state = "started" \/ (s.state = "progress" /\ up' = up)
  <2>1. UpThin(c) /\ pending' = pending
    BY <1>0, <1>2, UpShort DEF Translate, Short
  <2>. QED BY <1>1, <2>1
<1>3. CASE s.state = "progress" /\ Send(Message("PROGRESS", d, s.progress))
  <2>1. UpThin(c)
    BY <1>0, <1>3, UpOther DEF Weighty
  <2>2. pending' = pending
    BY <1>3 DEF Translate
  <2>. QED BY <1>1, <2>1, <2>2
<1>4. CASE s.state = "completed"
  <2>1. pending' = pending \ {d} /\ Send(Message("RESULT", d, 0))
    BY <1>4 DEF Translate, Settled
  <2>2. CASE d # c
    <3>1. UpThin(c)
      BY <1>0, <2>1, <2>2, UpOther
    <3>. QED BY <1>1, <2>1, <2>2, <3>1
  <2>3. CASE d = c
    <3>1. s \in EndOf(c)
      BY <1>4, <2>3 DEF EndOf
    <3>2. "RESULT" \in Verdicts /\ "RESULT" # "NACK"
      BY DEF Verdicts
    <3>. QED BY <2>1, <2>3, <3>1, <3>2, VerdictOut
  <2>. QED BY <2>2, <2>3
<1>. QED BY <1>2, <1>3, <1>4 DEF Translate

LEMMA HandleCustody ==
    ASSUME ShimTyped, Handle, NEW c \in Requests, Custody(c)
    PROVE  Custody(c)'
<1>. DEFINE s == Head(statuses)
            d == s.request_id
<1>0. HubTyped /\ LinkTyped /\ EntryTyped /\ UnitTyped /\ 0 \in 0..Steps
  BY Bounds DEF ShimTyped
<1>1. /\ statuses # <<>> /\ s \in Statuses /\ statuses' = Tail(statuses)
      /\ UNCHANGED <<hubVars, alive, down, actions, working, step, counters>>
  BY <1>0, Handles
<1>2. /\ Thin(statuses', statuses, EndOf(c)) /\ Thin(actions', actions, {c})
      /\ Thin(down', down, {c}) /\ Thin(suspended, suspended, EndOf(c))
  BY <1>0, <1>1, Thinner DEF UnitTyped, LinkTyped, EntryTyped
<1>3. s \in EndOf(c) => Has(statuses, EndOf(c)) /\ ~Has(statuses', EndOf(c))
                        /\ ~Has(suspended, EndOf(c))
  <2>1. s \in EndOf(c) => Has(statuses, EndOf(c))
    BY <1>0, <1>1, TakenOff DEF UnitTyped
  <2>2. s \in EndOf(c) /\ AtMostOne(statuses, EndOf(c)) => ~Has(statuses', EndOf(c))
    BY <1>0, <1>1, TakenOff DEF UnitTyped
  <2>. QED BY <2>1, <2>2 DEF Custody, EndsOnce
<1>4. ASSUME UpThin(c), c \in pending' <=> c \in pending, acked'[c] = acked[c],
             Thin(suspended', suspended, EndOf(c))
      PROVE  Custody(c)'
  <2>1. Spares(c)
    BY <1>1, <1>2, <1>4 DEF Spares, UnitThin, hubVars
  <2>. QED BY <2>1, Spared
<1>5. CASE UNCHANGED <<up, hubWriter, entryVars>>
  <2>1. UpThin(c)
    BY <1>0, <1>5, UpShort DEF Short
  <2>. QED BY <1>2, <1>4, <1>5, <2>1 DEF entryVars
<1>6. CASE /\ d \in pending /\ d \in Requests /\ s.state = "rejected"
           /\ pending' = pending \ {d}
           /\ Send(Message(IF acked[d] THEN "RESULT" ELSE "NACK", d, 0))
           /\ UNCHANGED <<acked, last, suspended>>
  <2>1. CASE d # c
    <3>1. UpThin(c)
      BY <1>0, <1>6, <2>1, UpOther
    <3>. QED BY <1>2, <1>4, <1>6, <2>1, <3>1
  <2>2. CASE d = c
    <3>. DEFINE t == IF acked[d] THEN "RESULT" ELSE "NACK"
    <3>1. s \in EndOf(c)
      BY <1>1, <1>6, <2>2 DEF EndOf
    <3>2. t \in Verdicts /\ (t = "NACK" <=> ~acked[c])
      BY <2>2 DEF Verdicts
    <3>. HIDE DEF t
    <3>3. Send(Message(t, c, 0))
      BY <1>6, <2>2 DEF t
    <3>4. UNCHANGED <<trail, inflight, down, actions, working>>
      BY <1>1 DEF hubVars
    <3>5. ~Has(suspended', EndOf(c)) /\ Thin(suspended', suspended, EndOf(c))
          /\ acked' = acked /\ pending' = pending \ {c} /\ c \in pending
      BY <1>2, <1>3, <1>6, <2>2, <3>1
    <3>. QED BY <1>2, <3>2, <3>3, <3>4, <3>5, VerdictOut
  <2>. QED BY <2>1, <2>2
<1>7. CASE /\ d \in pending /\ d \in Requests /\ s.state # "rejected" /\ ~acked[d]
           /\ acked' = [acked EXCEPT ![d] = TRUE]
           /\ Send(Message("ACK", d, 0))
           /\ suspended' = Append(suspended, s)
           /\ UNCHANGED <<pending, last>>
  <2>1. /\ s \notin EndOf(c) => Thin(suspended', suspended, EndOf(c))
        /\ AtMostOne(suspended, EndOf(c)) /\ ~Has(suspended, EndOf(c))
              => AtMostOne(suspended', EndOf(c))
    BY <1>0, <1>1, <1>7, Added DEF EntryTyped
  <2>2. CASE d # c
    <3>1. UpThin(c)
      BY <1>0, <1>7, <2>2, UpOther
    <3>2. s \notin EndOf(c)
      BY <2>2 DEF EndOf
    <3>3. acked'[c] = acked[c]
      BY <1>0, <1>7, <2>2 DEF EntryTyped
    <3>. QED BY <1>4, <1>7, <2>1, <3>1, <3>2, <3>3
  <2>3. CASE d = c
    <3>. DEFINE m == Message("ACK", d, 0)
    <3>1. m \in UpMessages /\ \A kinds : m \in Said(c, kinds) <=> "ACK" \in kinds
      BY <1>0, <1>7, <2>3, MessageMade
    <3>. HIDE DEF m
    <3>2. \A X : m \notin X => Thin(up', up, X)
      BY <1>0, <1>7, <3>1, Sent DEF LinkTyped, m
    <3>3. Thin(up', up, Said(c, Verdicts)) /\ Thin(up', up, Said(c, {"NACK"}))
      BY <3>1, <3>2 DEF Verdicts
    <3>4. c \in pending' /\ pending' = pending /\ acked'[c]
      BY <1>0, <1>7, <2>3 DEF EntryTyped
    <3>5. AtMostOne(suspended', EndOf(c))
      BY <1>3, <2>1 DEF Custody, EndsOnce, Thin
    <3>6. EndsOnce(c)'
      BY <1>1, <1>2, <1>3, <2>1, <3>4, <3>5 DEF Custody, EndsOnce, Thin
    <3>7. trail[c] # <<>> /\ ~Has(down, {c})
      BY <3>4 DEF Custody, Placed, Untouched
    <3>8. Placed(c)'
      BY <1>1, <3>3, <3>4, <3>7 DEF Custody, Placed, Thin, hubVars
    <3>9. Acknowledged(c)'
      BY <1>1, <3>3, <3>4 DEF Custody, Acknowledged, Thin, hubVars
    <3>. QED BY <3>6, <3>8, <3>9 DEF Custody
  <2>. QED BY <2>2, <2>3
<1>8. CASE /\ d \in pending /\ d \in Requests /\ s.state # "rejected" /\ acked[d]
           /\ Translate(s) /\ UNCHANGED <<acked, suspended>>
  <2>1. s \in EndOf(c) => c \in pending /\ acked[c] /\ ~Has(suspended', EndOf(c))
    BY <1>3, <1>8 DEF EndOf
  <2>2. UNCHANGED <<trail, inflight, down, actions, working>>
    BY <1>1 DEF hubVars
  <2>3. Thin(suspended', suspended, EndOf(c)) /\ acked' = acked
    BY <1>2, <1>8
  <2>. QED BY <1>1, <1>2, <1>8, <2>1, <2>2, <2>3, TranslateCustody
<1>. QED BY <1>0, <1>5, <1>6, <1>7, <1>8, Handles

LEMMA ContinueCustody ==
    ASSUME ShimTyped, Continue, NEW c \in Requests, Custody(c)
    PROVE  Custody(c)'
<1>. DEFINE s == Head(suspended)
<1>0. EntryTyped /\ UnitTyped
  BY DEF ShimTyped
<1>1. /\ suspended # <<>> /\ suspended' = Tail(suspended) /\ Translate(s) /\ acked' = acked
      /\ UNCHANGED <<trail, inflight, down, actions, working, statuses>>
      /\ s \in Statuses
  BY <1>0, HeadStatus DEF Continue, EntryTyped, hubVars, unitVars
<1>2. Thin(statuses', statuses, EndOf(c)) /\ Thin(suspended', suspended, EndOf(c))
  BY <1>0, <1>1, Thinner DEF UnitTyped, EntryTyped
<1>3. s \in EndOf(c) => c \in pending /\ acked[c] /\ ~Has(suspended', EndOf(c))
  <2>1. s \in EndOf(c) => Has(suspended, EndOf(c))
    BY <1>0, <1>1, TakenOff DEF EntryTyped
  <2>2. s \in EndOf(c) /\ AtMostOne(suspended, EndOf(c)) => ~Has(suspended', EndOf(c))
    BY <1>0, <1>1, TakenOff DEF EntryTyped
  <2>. QED BY <2>1, <2>2 DEF Custody, EndsOnce
<1>. QED BY <1>1, <1>2, <1>3, TranslateCustody

(* The unit ends what it was asked, in a message that may be lost.         *)
LEMMA UnitCustody ==
    ASSUME ShimTyped, UnitReceives \/ UnitCompletes, NEW c \in Requests, Custody(c)
    PROVE  Custody(c)'
<1>0. HubTyped /\ LinkTyped /\ EntryTyped /\ UnitTyped /\ 0 \in 0..Steps
      /\ NoRequest \notin Requests
  BY Bounds DEF ShimTyped
<1>1. UNCHANGED <<trail, inflight, pending, acked, up, down, suspended>>
  BY DEF UnitReceives, UnitCompletes, UnitUnchanged, hubVars, linkVars, entryVars
<1>2. /\ UpThin(c) /\ Thin(down', down, {c})
      /\ Thin(suspended', suspended, EndOf(c))
  <2>1. Short(up', up)
    BY <1>1 DEF Short
  <2>. QED BY <1>0, <1>1, <2>1, UpShort, Thinner DEF LinkTyped, EntryTyped
<1>3. ASSUME Thin(actions', actions, {c}), Thin(statuses', statuses, EndOf(c)),
             working' = c => working = c
      PROVE  Custody(c)'
  <2>1. Spares(c)
    BY <1>1, <1>2, <1>3 DEF Spares, UnitThin
  <2>. QED BY <2>1, Spared
<1>4. ASSUME EndsOnce(c)', ~Untouched(c) PROVE Custody(c)'
  <2>1. trail[c] # <<>> /\ ~Has(down, {c})
    BY <1>4 DEF Custody, Placed
  <2>2. Placed(c)' /\ Acknowledged(c)'
    BY <1>1, <2>1 DEF Custody, Placed, Acknowledged
  <2>. QED BY <1>4, <2>2 DEF Custody
<1>5. CASE UnitReceives
  <2>. DEFINE d == Head(actions)
  <2>1. actions # <<>> /\ actions' = Tail(actions) /\ d \in Requests /\ actions \in Seq(Requests)
    BY <1>0, <1>5, Receives DEF UnitTyped
  <2>2. Thin(actions', actions, {c})
    BY <2>1, Thinner
  <2>3. CASE d # c
    <3>1. Thin(statuses', statuses, EndOf(c)) /\ (working' = c => working = c)
      <4>1. CASE \E s \in {"completed", "rejected"} :
                    Publish(Status(s, d, 0)) /\ UNCHANGED <<working, step>>
        BY <1>0, <2>1, <2>3, <4>1, PublishOther
      <4>2. CASE working' = d /\ Publish(Status("started", d, 0))
        BY <1>0, <2>1, <2>3, <4>2, PublishOther
      <4>. QED BY <1>0, <1>5, <4>1, <4>2, Receives
    <3>. QED BY <1>3, <2>2, <3>1
  <2>4. CASE d = c
    <3>1. Has(actions, {c}) /\ ~Has(actions', {c}) /\ AtMostOne(actions', {c})
      BY <2>1, <2>2, <2>4, TakenOff DEF Custody, EndsOnce, Thin
    <3>2. ~Untouched(c)
      BY <3>1 DEF Untouched
    <3>3. working # c /\ ~Has(statuses, EndOf(c)) /\ ~Has(suspended, EndOf(c))
          /\ AtMostOne(statuses, EndOf(c)) /\ AtMostOne(suspended, EndOf(c))
      BY <3>1 DEF Custody, EndsOnce
    <3>4. ASSUME NEW s \in {"completed", "rejected"}, Publish(Status(s, d, 0)), working' = working
          PROVE  EndsOnce(c)'
      <4>1. Status(s, d, 0) \in Statuses
        BY <1>0, <2>1, StatusMade
      <4>2. AtMostOne(statuses', EndOf(c))
        BY <1>0, <3>3, <3>4, <4>1, Published DEF UnitTyped
      <4>. QED BY <1>1, <3>1, <3>3, <3>4, <4>2 DEF EndsOnce
    <3>5. ASSUME working' = d, Publish(Status("started", d, 0)) PROVE EndsOnce(c)'
      <4>1. Thin(statuses', statuses, EndOf(c))
        BY <1>0, <2>1, <3>5, PublishOther
      <4>. QED BY <1>1, <3>1, <3>3, <4>1 DEF EndsOnce, Thin
    <3>6. EndsOnce(c)'
      BY <1>0, <1>5, <3>4, <3>5, Receives
    <3>. QED BY <1>4, <3>2, <3>6
  <2>. QED BY <2>3, <2>4
<1>6. CASE UnitCompletes
  <2>1. /\ working \in Requests /\ working' = NoRequest /\ actions' = actions
        /\ Publish(Status("completed", working, 0))
    BY <1>0, <1>6 DEF UnitCompletes, UnitTyped
  <2>2. Thin(actions', actions, {c})
    BY <1>0, <2>1, Thinner DEF UnitTyped
  <2>3. CASE working # c
    <3>1. Thin(statuses', statuses, EndOf(c))
      BY <1>0, <2>1, <2>3, PublishOther
    <3>. QED BY <1>0, <1>3, <2>1, <2>2, <3>1
  <2>4. CASE working = c
    <3>1. /\ ~Has(statuses, EndOf(c)) /\ ~Has(suspended, EndOf(c)) /\ ~Has(actions, {c})
          /\ AtMostOne(statuses, EndOf(c)) /\ AtMostOne(suspended, EndOf(c))
          /\ AtMostOne(actions, {c}) /\ ~Untouched(c)
      BY <2>4 DEF Custody, EndsOnce, Untouched
    <3>2. Status("completed", working, 0) \in Statuses
      BY <1>0, <2>1, StatusMade
    <3>3. AtMostOne(statuses', EndOf(c))
      BY <1>0, <2>1, <3>1, <3>2, Published DEF UnitTyped
    <3>4. working' # c
      BY <1>0, <2>1
    <3>5. EndsOnce(c)'
      BY <1>1, <2>1, <3>1, <3>3, <3>4 DEF EndsOnce
    <3>. QED BY <1>4, <3>1, <3>5
  <2>. QED BY <2>3, <2>4
<1>. QED BY <1>5, <1>6

LEMMA CustodyStep ==
    ShimTyped /\ [ShimNext]_shimVars => \A c \in Requests : Custody(c) => Custody(c)'
<1>. SUFFICES ASSUME ShimTyped, [ShimNext]_shimVars, NEW c \in Requests, Custody(c)
              PROVE  Custody(c)'
  OBVIOUS
<1>1. CASE \E d \in Requests : Submit(d) \/ AckTimeout(d)
  BY <1>1, SubmitCustody, TimeoutCustody
<1>2. CASE HubReads
  BY <1>2, ReadCustody
<1>3. CASE HubNotices
  BY <1>3, NoticeCustody
<1>4. CASE Deliver
  BY <1>4, DeliverCustody
<1>5. CASE Handle \/ Continue
  BY <1>5, HandleCustody, ContinueCustody
<1>6. CASE UnitReceives \/ UnitCompletes
  BY <1>6, UnitCustody
<1>7. CASE \/ HubAdopts \/ HubRejects \/ HubRestart \/ LinkDrops \/ Heartbeat \/ FallsSilent
           \/ Connects \/ StaysAway \/ SaysBye \/ Notices
           \/ UnitProgresses \/ UnitRestarts \/ UnitActsLocally \/ UNCHANGED shimVars
  BY <1>7, SparingSteps, Spared
<1>. QED BY <1>1, <1>2, <1>3, <1>4, <1>5, <1>6, <1>7 DEF ShimNext, Hub, Task, Unit

-----------------------------------------------------------------------------
(* The link, and what the shim holds of the commands in flight.            *)

LEMMA LinkedStep ==
    ASSUME Linked, ShimFlags, ShimCounted, [ShimNext]_shimVars
    PROVE  Linked'
<1>0. dials \in Nat
  BY ShimAssumption DEF ShimCounted
<1>1. ASSUME alive' = alive, hubWriter' = hubWriter \/ ~alive, inflight' = inflight, hub' = hub,
             shown' = shown, up' = up \/ alive, dials' = dials
      PROVE  Linked'
  BY <1>1 DEF Linked
<1>2. ASSUME NEW m, Send(m) PROVE (hubWriter' = hubWriter \/ ~alive) /\ (up' = up \/ alive)
  BY <1>2 DEF Send, Linked
<1>3. ASSUME NEW c \in Requests, Submit(c) PROVE Linked'
  BY <1>3 DEF Submit, Linked, counters
<1>4. ASSUME NEW c \in Requests, AckTimeout(c) PROVE Linked'
  <2>1. (hubWriter' = hubWriter \/ ~alive) /\ (up' = up \/ alive)
    BY <1>2, <1>4 DEF AckTimeout, Refuse
  <2>. QED BY <1>1, <1>4, <2>1 DEF AckTimeout, hubVars, counters
<1>5. CASE HubAdopts \/ HubRejects \/ HubNotices \/ HubRestart
  BY <1>5 DEF HubAdopts, HubRejects, HubNotices, HubRestart, Linked, linkVars, counters
<1>6. CASE HubReads
  BY <1>6 DEF HubReads, Linked, counters
<1>7. CASE LinkDrops
  BY <1>7 DEF LinkDrops, Linked, hubVars, counters
<1>8. CASE Connects
  BY <1>0, <1>8 DEF Connects, Linked
<1>9. CASE SaysBye \/ StaysAway \/ Notices \/ FallsSilent
  BY <1>9 DEF SaysBye, StaysAway, Notices, FallsSilent, Closed, Linked, hubVars, linkVars,
              counters
<1>10. CASE Heartbeat
  <2>1. (hubWriter' = hubWriter \/ ~alive) /\ (up' = up \/ alive)
    BY <1>2, <1>10 DEF Heartbeat
  <2>. QED BY <1>1, <1>10, <2>1 DEF Heartbeat, hubVars, counters
<1>11. CASE Deliver
  <2>1. (hubWriter' = hubWriter \/ ~alive) /\ (up' = up \/ alive)
    BY <1>2, <1>11 DEF Deliver, Refuse
  <2>. QED BY <1>1, <1>11, <2>1 DEF Deliver, hubVars, counters
<1>12. ASSUME NEW s, Translate(s) PROVE (hubWriter' = hubWriter \/ ~alive) /\ (up' = up \/ alive)
  BY <1>2, <1>12 DEF Translate
<1>13. CASE Handle
  <2>1. (hubWriter' = hubWriter \/ ~alive) /\ (up' = up \/ alive)
    BY <1>2, <1>12, <1>13 DEF Handle
  <2>. QED BY <1>1, <1>13, <2>1 DEF Handle, hubVars, counters
<1>14. CASE Continue
  <2>1. (hubWriter' = hubWriter \/ ~alive) /\ (up' = up \/ alive)
    BY <1>12, <1>14 DEF Continue
  <2>. QED BY <1>1, <1>14, <2>1 DEF Continue, hubVars, counters
<1>15. CASE Unit \/ UnitRestarts \/ UnitActsLocally
  BY <1>1, <1>15 DEF Unit, UnitReceives, UnitProgresses, UnitCompletes, UnitRestarts,
                     UnitActsLocally, UnitUnchanged, hubVars, linkVars, counters
<1>16. CASE UNCHANGED shimVars
  BY <1>1, <1>16 DEF shimVars, hubVars, linkVars, counters
<1>. QED BY <1>3, <1>4, <1>5, <1>6, <1>7, <1>8, <1>9, <1>10, <1>11, <1>13, <1>14, <1>15, <1>16
         DEF ShimNext, Hub, Task

(* Send on a link that is up keeps what is there and adds its message. *)
LEMMA SendHolds ==
    ASSUME LinkTyped, Linked, alive,
           NEW t \in {"TELEM", "ACK", "NACK", "PROGRESS", "RESULT"},
           NEW d \in Requests \union {NoRequest}, NEW n \in 0..Steps, Send(Message(t, d, n)),
           NEW c
    PROVE  /\ Has(up, Said(c, Verdicts)) => Has(up', Said(c, Verdicts))
           /\ d = c /\ t \in Verdicts => Has(up', Said(c, Verdicts))
<1>. DEFINE m == Message(t, d, n)
<1>1. m \in UpMessages /\ (d = c /\ t \in Verdicts => m \in Said(c, Verdicts))
  BY MessageMade
<1>. HIDE DEF m
<1>2. alive /\ hubWriter
  BY DEF Linked
<1>. QED BY <1>1, <1>2, Sent DEF LinkTyped, m

LEMMA TranslateHolds ==
    ASSUME LinkTyped, Linked, alive, NEW s \in Statuses, Translate(s), down' = down,
           NEW c \in Requests, Held(c)
    PROVE  Held(c)'
<1>. DEFINE d == s.request_id
<1>0. d \in Requests \union {NoRequest} /\ s.progress \in 0..Steps /\ 0 \in 0..Steps
      /\ "RESULT" \in Verdicts
  BY Bounds DEF Statuses, Verdicts
<1>1. CASE UNCHANGED <<pending, up>>
  BY <1>1 DEF Held
<1>2. CASE pending' = pending /\ Send(Message("PROGRESS", d, s.progress))
  BY <1>0, <1>2, SendHolds DEF Held
<1>3. CASE pending' = pending \ {d} /\ Send(Message("RESULT", d, 0))
  BY <1>0, <1>3, SendHolds DEF Held
<1>. QED BY <1>1, <1>2, <1>3 DEF Translate, Settled

LEMMA SomewhereStep ==
    ASSUME ShimTyped, Linked, [ShimNext]_shimVars, NEW c \in Requests, Somewhere(c),
           Custody(c)
    PROVE  Somewhere(c)'
<1>0. HubTyped /\ LinkTyped /\ EntryTyped /\ UnitTyped /\ 0 \in 0..Steps
      /\ "NACK" \in Verdicts /\ "RESULT" \in Verdicts
  BY Bounds DEF ShimTyped, Verdicts
<1>. SUFFICES ASSUME hub' = "operational", alive', c \in inflight' PROVE Held(c)'
  BY DEF Somewhere
<1>1. ASSUME hub = "operational", alive, c \in inflight, UNCHANGED <<pending, up, down>>
      PROVE  Held(c)'
  BY <1>1 DEF Somewhere, Held
<1>2. ASSUME NEW d \in Requests, Submit(d) PROVE Held(c)'
  <2>1. alive /\ hub = "operational" /\ UNCHANGED <<pending, up>> /\ down' = Append(down, d)
        /\ inflight' = inflight \union {d}
    BY <1>2 DEF Submit, entryVars
  <2>2. (Has(down, {c}) \/ c = d) => Has(down', {c})
    BY <1>0, <2>1, Grown DEF LinkTyped
  <2>. QED BY <2>1, <2>2 DEF Somewhere, Held
<1>3. ASSUME NEW d \in Requests, AckTimeout(d) PROVE Held(c)'
  <2>1. /\ hub = "operational" /\ alive /\ c \in inflight /\ down' = down
        /\ pending' = pending \ {d} /\ Send(Message("NACK", d, 0))
    BY <1>3 DEF AckTimeout, Refuse, hubVars
  <2>. QED BY <1>0, <2>1, SendHolds DEF Somewhere, Held
<1>4. CASE HubAdopts
  BY <1>4 DEF HubAdopts, Linked
<1>5. CASE HubReads
  <2>. DEFINE m == Head(up)
  <2>1. /\ hub = "operational" /\ alive /\ up # <<>> /\ up' = Tail(up)
        /\ pending' = pending /\ down' = down /\ up \in Seq(UpMessages)
        /\ c \in inflight /\ ~(m.command_id = c /\ m.t \in Verdicts)
    BY <1>0, <1>5, ReadsUp DEF entryVars, LinkTyped
  <2>2. m \notin Said(c, Verdicts)
    BY <2>1 DEF Said
  <2>3. Has(up, Said(c, Verdicts)) => Has(up', Said(c, Verdicts))
    BY <2>1, <2>2, TakenOff
  <2>. QED BY <2>1, <2>3 DEF Somewhere, Held
<1>6. CASE HubRejects \/ HubNotices \/ HubRestart \/ LinkDrops \/ Connects
  BY <1>6 DEF HubRejects, HubNotices, HubRestart, LinkDrops, Connects
<1>7. CASE SaysBye
  BY <1>7 DEF SaysBye, Closed
<1>8. CASE FallsSilent \/ StaysAway \/ Notices
  BY <1>1, <1>8 DEF FallsSilent, StaysAway, Notices, hubVars, linkVars, entryVars
<1>9. CASE Heartbeat
  <2>1. hub = "operational" /\ alive /\ c \in inflight /\ UNCHANGED <<down, pending>>
    BY <1>9 DEF Heartbeat, hubVars, entryVars
  <2>2. CASE Send(Message("TELEM", NoRequest, 0))
    BY <1>0, <2>1, <2>2, SendHolds DEF Somewhere, Held
  <2>3. CASE up' = up
    BY <1>1, <2>1, <2>3
  <2>. QED BY <1>9, <2>2, <2>3 DEF Heartbeat
<1>10. CASE Deliver
  <2>. DEFINE d == Head(down)
  <2>1. /\ hub = "operational" /\ alive /\ c \in inflight
        /\ down # <<>> /\ down' = Tail(down) /\ down \in Seq(Requests)
    BY <1>0, <1>10 DEF Deliver, hubVars, LinkTyped
  <2>2. d \in Requests /\ (d # c /\ Has(down, {c}) => Has(down', {c}))
    BY <2>1, TakenOff
  <2>3. CASE pending' = pending \union {d} /\ up' = up
    BY <2>1, <2>2, <2>3 DEF Somewhere, Held
  <2>4. CASE pending' = pending /\ Send(Message("NACK", d, 0))
    BY <1>0, <2>1, <2>2, <2>4, SendHolds DEF Somewhere, Held
  <2>. QED BY <1>10, <2>3, <2>4 DEF Deliver, Refuse
<1>11. CASE Handle
  <2>. DEFINE s == Head(statuses)
              d == s.request_id
  <2>1. hub = "operational" /\ alive /\ c \in inflight /\ down' = down /\ s \in Statuses
    BY <1>0, <1>11, Handles DEF hubVars
  <2>2. Held(c)
    BY <2>1 DEF Somewhere
  <2>3. CASE UNCHANGED <<up, hubWriter, entryVars>>
    BY <1>1, <2>1, <2>3 DEF entryVars
  <2>4. CASE /\ d \in Requests /\ pending' = pending \ {d}
             /\ Send(Message(IF acked[d] THEN "RESULT" ELSE "NACK", d, 0))
    BY <1>0, <2>1, <2>2, <2>4, SendHolds DEF Held
  <2>5. CASE d \in Requests /\ Send(Message("ACK", d, 0)) /\ pending' = pending
    BY <1>0, <2>1, <2>2, <2>5, SendHolds DEF Held
  <2>6. CASE Translate(s)
    BY <1>0, <2>1, <2>2, <2>6, TranslateHolds
  <2>. QED BY <1>0, <1>11, <2>3, <2>4, <2>5, <2>6, Handles
<1>12. CASE Continue
  <2>. DEFINE s == Head(suspended)
  <2>1. /\ hub = "operational" /\ alive /\ c \in inflight /\ down' = down
        /\ s \in Statuses /\ Translate(s)
    BY <1>0, <1>12, HeadStatus DEF Continue, hubVars, EntryTyped
  <2>2. Held(c)
    BY <2>1 DEF Somewhere
  <2>. QED BY <1>0, <2>1, <2>2, TranslateHolds
<1>13. CASE Unit \/ UnitRestarts \/ UnitActsLocally
  BY <1>1, <1>13 DEF Unit, UnitReceives, UnitProgresses, UnitCompletes, UnitRestarts,
                     UnitActsLocally, UnitUnchanged, hubVars, linkVars, entryVars
<1>14. CASE UNCHANGED shimVars
  BY <1>1, <1>14 DEF shimVars, hubVars, linkVars, entryVars
<1>. QED BY <1>2, <1>3, <1>4, <1>5, <1>6, <1>7, <1>8, <1>9, <1>10, <1>11, <1>12, <1>13, <1>14
         DEF ShimNext, Hub, Task

-----------------------------------------------------------------------------
(* What the hub waits for.                                                 *)

LEMMA WaitedStep ==
    ASSUME ShimTyped, ShimCounted, [ShimNext]_shimVars, NEW c \in Requests, Waited(c),
           Custody(c)
    PROVE  Waited(c)'
<1>0. HubTyped /\ LinkTyped /\ hubRestarts \in Nat
  BY ShimAssumption DEF ShimTyped, ShimCounted
<1>1. ASSUME UNCHANGED <<trail, inflight, hubRestarts>> PROVE Waited(c)'
  BY <1>1 DEF Waited, Open
<1>2. ASSUME NEW d \in Requests, Submit(d) PROVE Waited(c)'
  BY <1>0, <1>2 DEF Submit, HubTyped, Waited, Open, counters
<1>3. ASSUME NEW d \in Requests, AckTimeout(d) PROVE Waited(c)'
  BY <1>1, <1>3 DEF AckTimeout, hubVars, counters
<1>4. CASE HubReads
  <2>. DEFINE m == Head(up)
  <2>1. hubRestarts' = hubRestarts
    BY <1>0, <1>4, ReadsUp DEF counters
  <2>2. CASE m.command_id # c
    <3>1. trail'[c] = trail[c] /\ (c \in inflight => c \in inflight')
      BY <1>0, <1>4, <2>2, ReadsUp DEF HubTyped
    <3>. QED BY <2>1, <3>1 DEF Waited, Open
  <2>3. CASE m.command_id = c
    <3>. DEFINE e == Evidence(m.t)
    <3>1. /\ up # <<>> /\ up \in Seq(UpMessages)
          /\ m.t \in {"TELEM", "ACK", "NACK", "PROGRESS", "RESULT"}
          /\ \A kinds : m \in Said(c, kinds) <=> m.t \in kinds
      BY <1>0, <1>4, <2>3, HeadUp, ReadsUp DEF LinkTyped
    <3>2. /\ trail'[c] = trail[c] \o e
          /\ inflight' = IF m.t \in Verdicts THEN inflight \ {c} ELSE inflight
      BY <1>0, <1>4, <2>3, ReadsUp
    <3>3. /\ trail[c] \in Seq(EvidenceKinds) /\ e \in Seq(EvidenceKinds)
          /\ Has(e, Answers) <=> m.t \in Verdicts
          /\ e # <<>> <=> m.t \in Weighty
      BY <1>0, <3>1, EvidenceIs DEF HubTyped
    <3>. HIDE DEF e
    <3>4. \A X : Has(trail'[c], X) <=> Has(trail[c], X) \/ Has(e, X)
      BY <3>2, <3>3, Chained
    <3>5. trail[c] = <<>> => trail'[c] = <<>>
      <4>1. m.t \in Weighty => Has(up, Said(c, Weighty))
        BY <3>1, TakenOff
      <4>2. trail[c] = <<>> => e = <<>>
        BY <3>3, <4>1 DEF Custody, Placed, Untouched
      <4>3. <<>> \o <<>> = <<>>
        OBVIOUS
      <4>. QED BY <3>2, <4>2, <4>3
    <3>6. Open(c)' => Open(c) /\ m.t \notin Verdicts
      BY <3>3, <3>4, <3>5 DEF Open
    <3>. QED BY <2>1, <3>2, <3>6 DEF Waited
  <2>. QED BY <2>2, <2>3
<1>5. CASE HubNotices
  <2>1. hubRestarts' = hubRestarts
    BY <1>5 DEF HubNotices, counters
  <2>2. CASE c \in inflight
    <3>1. /\ trail[c] \in Seq(EvidenceKinds) /\ "lost" \in EvidenceKinds
          /\ trail'[c] = Append(trail[c], "lost")
      BY <1>0, <1>5, <2>2 DEF HubNotices, HubTyped, EvidenceKinds
    <3>2. Has(Append(trail[c], "lost"), {"lost"})
      BY <3>1, Grown
    <3>. QED BY <3>1, <3>2 DEF Waited, Open
  <2>3. CASE c \notin inflight
    <3>1. trail'[c] = trail[c]
      BY <1>0, <1>5, <2>3 DEF HubNotices, HubTyped
    <3>. QED BY <2>1, <2>3, <3>1 DEF Waited, Open
  <2>. QED BY <2>2, <2>3
<1>6. CASE HubRestart
  <2>1. hubRestarts' # 0
    BY <1>0, <1>6 DEF HubRestart
  <2>. QED BY <2>1 DEF Waited
<1>7. CASE HubAdopts \/ HubRejects \/ LinkDrops \/ Task \/ Connects \/ Heartbeat
           \/ FallsSilent \/ Handle \/ Continue
  BY <1>1, <1>7 DEF HubAdopts, HubRejects, LinkDrops, Task, Deliver, SaysBye, StaysAway,
                    Notices, Connects, Heartbeat, FallsSilent, Handle, Continue, hubVars,
                    counters
<1>8. CASE Unit \/ UnitRestarts \/ UnitActsLocally \/ UNCHANGED shimVars
  BY <1>1, <1>8 DEF Unit, UnitReceives, UnitProgresses, UnitCompletes, UnitRestarts,
                    UnitActsLocally, UnitUnchanged, shimVars, hubVars, counters
<1>. QED BY <1>2, <1>3, <1>4, <1>5, <1>6, <1>7, <1>8 DEF ShimNext, Hub

-----------------------------------------------------------------------------
(* PROGRESS about one command: what is shown, and what is on the link.     *)

LEMMA LinePrefix ==
    ASSUME NEW T, NEW u \in Seq(T), NEW n \in 0..Len(u), NEW X, NEW sh, InLine(u, X, sh)
    PROVE  InLine(SubSeq(u, 1, n), X, sh)
<1>. DEFINE p == SubSeq(u, 1, n)
<1>1. /\ DOMAIN p = 1..n /\ DOMAIN u = 1..Len(u) /\ n <= Len(u) /\ n \in Nat /\ Len(u) \in Nat
      /\ \A i \in 1..n : p[i] = u[i]
  OBVIOUS
<1>. HIDE DEF p
<1>2. /\ \A i \in DOMAIN p : i \in DOMAIN u /\ p[i] = u[i]
      /\ \A i \in DOMAIN p : \A k \in DOMAIN u : k < i => k \in DOMAIN p
  BY <1>1
<1>3. Differ(p, X)
  BY <1>2 DEF InLine, Differ
<1>4. GoesOn(p, X, sh)
  BY <1>2 DEF InLine, GoesOn
<1>. QED BY <1>3, <1>4 DEF InLine, p

LEMMA LineEmpty ==
    ASSUME NEW X, NEW sh, NoRepeat(sh)
    PROVE  InLine(<<>>, X, sh)
<1>1. DOMAIN <<>> = {}
  OBVIOUS
<1>. QED BY <1>1 DEF InLine, Differ, GoesOn

(* What another message leaves as it was. *)
LEMMA LineOther ==
    ASSUME NEW T, NEW u \in Seq(T), NEW x \in T, NEW X, x \notin X, NEW sh, InLine(u, X, sh)
    PROVE  /\ InLine(Append(u, x), X, sh)
           /\ \A n : Latest(u, X, sh, n) => Latest(Append(u, x), X, sh, n)
<1>. DEFINE a == Append(u, x)
<1>1. /\ DOMAIN a = 1..(Len(u) + 1) /\ DOMAIN u = 1..Len(u) /\ Len(u) \in Nat
      /\ \A i \in 1..Len(u) : a[i] = u[i]
      /\ a[Len(u) + 1] = x
  OBVIOUS
<1>. HIDE DEF a
<1>2. /\ \A i \in DOMAIN a : a[i] \in X => i \in DOMAIN u /\ a[i] = u[i]
      /\ \A i \in DOMAIN u : i \in DOMAIN a /\ a[i] = u[i]
  BY <1>1
<1>3. Differ(a, X)
  BY <1>2 DEF InLine, Differ
<1>4. GoesOn(a, X, sh)
  BY <1>2 DEF InLine, GoesOn
<1>5. ASSUME NEW n, Latest(u, X, sh, n) PROVE Latest(a, X, sh, n)
  BY <1>2, <1>5 DEF Latest, Has
<1>. QED BY <1>3, <1>4, <1>5 DEF InLine, a

(* What a new step adds: it is not the latest one over again. *)
LEMMA LineGrows ==
    ASSUME NEW T, NEW u \in Seq(T), NEW x \in T, NEW X, x \in X, NEW sh, InLine(u, X, sh),
           NEW n, Latest(u, X, sh, n), x.pct # n
    PROVE  InLine(Append(u, x), X, sh) /\ Latest(Append(u, x), X, sh, x.pct)
<1>. DEFINE a == Append(u, x)
            e == Len(u) + 1
<1>1. /\ DOMAIN a = 1..e /\ DOMAIN u = 1..Len(u) /\ Len(u) \in Nat
      /\ \A i \in 1..Len(u) : a[i] = u[i]
      /\ a[e] = x
  OBVIOUS
<1>. HIDE DEF a
<1>2. /\ \A i \in DOMAIN a : i = e \/ (i \in DOMAIN u /\ a[i] = u[i])
      /\ \A i \in DOMAIN u : i \in DOMAIN a /\ a[i] = u[i] /\ i < e
      /\ e \in DOMAIN a
      /\ \A i \in DOMAIN a : ~(e < i)
  BY <1>1
<1>3. ASSUME NEW i \in DOMAIN a, NEW j \in DOMAIN a, i < j, a[i] \in X, a[j] \in X,
             \A k \in DOMAIN a : i < k /\ k < j => a[k] \notin X
      PROVE  a[i].pct # a[j].pct
  <2>1. i \in DOMAIN u /\ a[i] = u[i]
    BY <1>2, <1>3
  <2>2. CASE j \in DOMAIN u
    BY <1>2, <1>3, <2>1, <2>2 DEF InLine, Differ
  <2>3. CASE j = e
    <3>1. \A k \in DOMAIN u : i < k => u[k] \notin X
      BY <1>2, <1>3, <2>3
    <3>2. u[i].pct = n
      BY <1>3, <2>1, <3>1 DEF Latest
    <3>. QED BY <1>1, <2>1, <2>3, <3>2
  <2>. QED BY <1>2, <2>2, <2>3
<1>4. Differ(a, X)
  BY <1>3 DEF Differ
<1>5. ASSUME NEW i \in DOMAIN a, a[i] \in X, \A k \in DOMAIN a : k < i => a[k] \notin X,
             sh # <<>>
      PROVE  sh[Len(sh)] # a[i].pct
  <2>1. CASE i \in DOMAIN u
    BY <1>2, <1>5, <2>1 DEF InLine, GoesOn
  <2>2. CASE i = e
    <3>1. ~Has(u, X)
      BY <1>2, <1>5, <2>2 DEF Has
    <3>. QED BY <1>1, <1>5, <2>2, <3>1 DEF Latest
  <2>. QED BY <1>2, <2>1, <2>2
<1>6. GoesOn(a, X, sh)
  BY <1>5 DEF GoesOn
<1>7. Latest(a, X, sh, x.pct)
  <2>1. Has(a, X)
    BY <1>1, <1>2 DEF Has
  <2>2. ASSUME NEW i \in DOMAIN a, a[i] \in X, \A k \in DOMAIN a : i < k => a[k] \notin X
        PROVE  a[i].pct = x.pct
    BY <1>1, <1>2, <2>2
  <2>. QED BY <2>1, <2>2 DEF Latest
<1>. QED BY <1>4, <1>6, <1>7 DEF InLine, a

(* What reading a message does. *)
LEMMA LineRead ==
    ASSUME NEW T, NEW u \in Seq(T), u # <<>>, NEW X, NEW sh, InLine(u, X, sh),
           Head(u) \notin X
    PROVE  /\ InLine(Tail(u), X, sh)
           /\ \A n : Latest(u, X, sh, n) => Latest(Tail(u), X, sh, n)
<1>. DEFINE t == Tail(u)
<1>1. /\ \A i \in DOMAIN t : i + 1 \in DOMAIN u /\ t[i] = u[i + 1] /\ i \in Nat
      /\ \A i \in DOMAIN u : u[i] \in X => \E q \in DOMAIN t : i = q + 1 /\ u[i] = t[q]
  <2>1. /\ DOMAIN u = 1..Len(u) /\ DOMAIN t = 1..(Len(u) - 1) /\ Len(u) \in Nat
        /\ \A i \in DOMAIN t : t[i] = u[i + 1]
        /\ u[1] \notin X
    OBVIOUS
  <2>. HIDE DEF t
  <2>2. ASSUME NEW i \in DOMAIN u, u[i] \in X
        PROVE  \E q \in DOMAIN t : i = q + 1 /\ u[i] = t[q]
    <3>1. i - 1 \in DOMAIN t /\ i = (i - 1) + 1
      BY <2>1, <2>2
    <3>. QED BY <2>1, <3>1
  <2>3. \A i \in DOMAIN t : i + 1 \in DOMAIN u /\ t[i] = u[i + 1] /\ i \in Nat
    BY <2>1
  <2>. QED BY <2>2, <2>3
<1>. HIDE DEF t
<1>2. ASSUME NEW i \in DOMAIN t, NEW j \in DOMAIN t, i < j, t[i] \in X, t[j] \in X,
             \A k \in DOMAIN t : i < k /\ k < j => t[k] \notin X
      PROVE  t[i].pct # t[j].pct
  <2>1. \A k \in DOMAIN u : i + 1 < k /\ k < j + 1 => u[k] \notin X
    BY <1>1, <1>2
  <2>2. i + 1 < j + 1
    BY <1>1, <1>2
  <2>. QED BY <1>1, <1>2, <2>1, <2>2 DEF InLine, Differ
<1>3. ASSUME NEW i \in DOMAIN t, t[i] \in X, \A k \in DOMAIN t : k < i => t[k] \notin X,
             sh # <<>>
      PROVE  sh[Len(sh)] # t[i].pct
  <2>1. \A k \in DOMAIN u : k < i + 1 => u[k] \notin X
    BY <1>1, <1>3
  <2>. QED BY <1>1, <1>3, <2>1 DEF InLine, GoesOn
<1>4. ASSUME NEW n, Latest(u, X, sh, n) PROVE Latest(t, X, sh, n)
  <2>1. ASSUME NEW i \in DOMAIN t, t[i] \in X, \A k \in DOMAIN t : i < k => t[k] \notin X
        PROVE  t[i].pct = n
    <3>1. \A k \in DOMAIN u : i + 1 < k => u[k] \notin X
      BY <1>1, <2>1
    <3>. QED BY <1>1, <1>4, <2>1, <3>1 DEF Latest
  <2>2. ~Has(t, X) => ~Has(u, X)
    BY <1>1 DEF Has
  <2>. QED BY <1>4, <2>1, <2>2 DEF Latest
<1>. QED BY <1>2, <1>3, <1>4 DEF InLine, Differ, GoesOn, t

LEMMA LineShown ==
    ASSUME NEW T, NEW u \in Seq(T), u # <<>>, NEW X, NEW V, NEW sh \in Seq(V),
           InLine(u, X, sh), Head(u) \in X, Head(u).pct \in V
    PROVE  LET more == Append(sh, Head(u).pct)
           IN  /\ InLine(Tail(u), X, more)
               /\ \A n : Latest(u, X, sh, n) => Latest(Tail(u), X, more, n)
<1>. DEFINE t == Tail(u)
            more == Append(sh, Head(u).pct)
<1>1. /\ \A i \in DOMAIN t : i + 1 \in DOMAIN u /\ t[i] = u[i + 1] /\ i \in Nat /\ 1 < i + 1
      /\ \A i \in DOMAIN u : i = 1 \/ \E q \in DOMAIN t : i = q + 1 /\ u[i] = t[q]
      /\ 1 \in DOMAIN u /\ u[1] = Head(u)
      /\ \A i \in DOMAIN u : ~(i < 1)
  <2>1. /\ DOMAIN u = 1..Len(u) /\ DOMAIN t = 1..(Len(u) - 1) /\ Len(u) \in Nat
        /\ \A i \in DOMAIN t : t[i] = u[i + 1]
        /\ 1 \in DOMAIN u /\ u[1] = Head(u)
    OBVIOUS
  <2>. HIDE DEF t
  <2>2. ASSUME NEW i \in DOMAIN u, i # 1
        PROVE  \E q \in DOMAIN t : i = q + 1 /\ u[i] = t[q]
    <3>1. i - 1 \in DOMAIN t /\ i = (i - 1) + 1
      BY <2>1, <2>2
    <3>. QED BY <2>1, <3>1
  <2>3. /\ \A i \in DOMAIN t : i + 1 \in DOMAIN u /\ t[i] = u[i + 1] /\ i \in Nat /\ 1 < i + 1
        /\ \A i \in DOMAIN u : ~(i < 1)
    BY <2>1
  <2>. QED BY <2>1, <2>2, <2>3
<1>2. /\ Len(more) = Len(sh) + 1 /\ Len(sh) \in Nat /\ more # <<>>
      /\ \A i \in 1..Len(sh) : more[i] = sh[i]
      /\ more[Len(sh) + 1] = Head(u).pct
      /\ Len(sh) # 0 => sh # <<>>
  <2>. DEFINE x == Head(u).pct
  <2>1. x \in V
    OBVIOUS
  <2>. HIDE DEF x
  <2>2. /\ Len(Append(sh, x)) = Len(sh) + 1 /\ Len(sh) \in Nat /\ Append(sh, x) # <<>>
        /\ \A i \in 1..Len(sh) : Append(sh, x)[i] = sh[i]
        /\ Append(sh, x)[Len(sh) + 1] = x
    BY <2>1
  <2>3. Len(sh) # 0 => sh # <<>>
    OBVIOUS
  <2>. QED BY <2>2, <2>3 DEF x
<1>. HIDE DEF t, more
<1>3. NoRepeat(more)
  <2>1. sh # <<>> => sh[Len(sh)] # u[1].pct
    BY <1>1 DEF InLine, GoesOn
  <2>2. ASSUME NEW i \in 1..(Len(more) - 1) PROVE more[i] # more[i + 1]
    <3>1. CASE i = Len(sh)
      BY <1>1, <1>2, <2>1, <2>2, <3>1
    <3>2. CASE i # Len(sh)
      <4>1. i \in 1..(Len(sh) - 1) /\ i \in 1..Len(sh) /\ i + 1 \in 1..Len(sh)
        BY <1>2, <2>2, <3>2
      <4>. QED BY <1>2, <4>1 DEF InLine, NoRepeat
    <3>. QED BY <3>1, <3>2
  <2>. QED BY <2>2 DEF NoRepeat
<1>4. ASSUME NEW i \in DOMAIN t, NEW j \in DOMAIN t, i < j, t[i] \in X, t[j] \in X,
             \A k \in DOMAIN t : i < k /\ k < j => t[k] \notin X
      PROVE  t[i].pct # t[j].pct
  <2>1. ASSUME NEW k \in DOMAIN u, i + 1 < k, k < j + 1 PROVE u[k] \notin X
    <3>1. k # 1
      BY <1>1, <2>1
    <3>2. PICK q \in DOMAIN t : k = q + 1 /\ u[k] = t[q]
      BY <1>1, <3>1
    <3>3. i < q /\ q < j
      BY <1>1, <2>1, <3>2
    <3>. QED BY <1>4, <3>2, <3>3
  <2>2. i + 1 < j + 1
    BY <1>1, <1>4
  <2>. QED BY <1>1, <1>4, <2>1, <2>2 DEF InLine, Differ
<1>5. ASSUME NEW i \in DOMAIN t, t[i] \in X, \A k \in DOMAIN t : k < i => t[k] \notin X
      PROVE  more[Len(more)] # t[i].pct
  <2>1. ASSUME NEW k \in DOMAIN u, 1 < k, k < i + 1 PROVE u[k] \notin X
    <3>1. PICK q \in DOMAIN t : k = q + 1 /\ u[k] = t[q]
      BY <1>1, <2>1
    <3>2. q < i
      BY <1>1, <2>1, <3>1
    <3>. QED BY <1>5, <3>1, <3>2
  <2>2. u[1].pct # u[i + 1].pct
    BY <1>1, <1>5, <2>1 DEF InLine, Differ
  <2>. QED BY <1>1, <1>2, <2>2
<1>6. ASSUME NEW n, Latest(u, X, sh, n) PROVE Latest(t, X, more, n)
  <2>1. ASSUME NEW i \in DOMAIN t, t[i] \in X, \A k \in DOMAIN t : i < k => t[k] \notin X
        PROVE  t[i].pct = n
    <3>1. \A k \in DOMAIN u : i + 1 < k => u[k] \notin X
      BY <1>1, <2>1
    <3>. QED BY <1>1, <1>6, <2>1, <3>1 DEF Latest
  <2>2. ASSUME ~Has(t, X) PROVE more[Len(more)] = n
    <3>1. \A k \in DOMAIN u : 1 < k => u[k] \notin X
      BY <1>1, <2>2 DEF Has
    <3>2. u[1].pct = n
      BY <1>1, <1>6, <3>1 DEF Latest
    <3>. QED BY <1>1, <1>2, <3>2
  <2>. QED BY <2>1, <2>2 DEF Latest
<1>. QED BY <1>3, <1>4, <1>5, <1>6 DEF InLine, Differ, GoesOn, t, more

(* A step after which the link says no more and no less about c's progress. *)
Quiet(c) ==
    LET X == Said(c, {"PROGRESS"})
    IN  \A sh : InLine(up, X, sh) =>
            InLine(up', X, sh) /\ \A n : Latest(up, X, sh, n) => Latest(up', X, sh, n)

LEMMA QuietSend ==
    ASSUME LinkTyped, NEW t \in {"TELEM", "ACK", "NACK", "PROGRESS", "RESULT"},
           NEW d \in Requests \union {NoRequest}, NEW n \in 0..Steps,
           Send(Message(t, d, n)), NEW c, d # c \/ t # "PROGRESS"
    PROVE  Quiet(c)
<1>. DEFINE m == Message(t, d, n)
            X == Said(c, {"PROGRESS"})
<1>1. m \in UpMessages /\ m \notin X
  BY MessageMade
<1>2. up' = up \/ up' = Append(up, m)
  BY DEF Send
<1>3. up \in Seq(UpMessages)
  BY DEF LinkTyped
<1>. HIDE DEF m, X
<1>. SUFFICES ASSUME NEW sh, InLine(up, X, sh)
              PROVE  InLine(up', X, sh) /\ \A k : Latest(up, X, sh, k) => Latest(up', X, sh, k)
  BY DEF Quiet, X
<1>4. /\ InLine(Append(up, m), X, sh)
      /\ \A k : Latest(up, X, sh, k) => Latest(Append(up, m), X, sh, k)
  BY <1>1, <1>3, LineOther
<1>. QED BY <1>2, <1>4

LEMMA NewsKept ==
    ASSUME NEW c \in Requests, News(c), Quiet(c), dials' = dials, alive' => alive,
           shown'[c] = shown[c], last'[c] = last[c]
    PROVE  News(c)'
  BY DEF News, Quiet

LEMMA TranslateNews ==
    ASSUME HubTyped, LinkTyped, EntryTyped, Linked, NEW s \in Statuses,
           s.state \in {"started", "progress", "completed"},
           Translate(s), UNCHANGED <<hubVars, alive, counters>>, NEW c \in Requests, News(c)
    PROVE  News(c)'
<1>. DEFINE d == s.request_id
            X == Said(c, {"PROGRESS"})
            m == Message("PROGRESS", c, s.progress)
<1>0. d \in Requests \union {NoRequest} /\ s.progress \in 0..Steps /\ 0 \in 0..Steps
  BY Bounds DEF Statuses
<1>1. UNCHANGED <<dials, alive, shown>>
  BY DEF hubVars, counters
<1>2. CASE UNCHANGED <<last, up>>
  <2>1. Quiet(c)
    BY <1>2 DEF Quiet
  <2>. QED BY <1>1, <1>2, <2>1, NewsKept
<1>3. CASE last' = last /\ Send(Message("RESULT", d, 0))
  BY <1>0, <1>1, <1>3, QuietSend, NewsKept
<1>4. ASSUME last' = [last EXCEPT ![d] = s.progress],
             Send(Message("PROGRESS", d, s.progress)), s.progress # last[d]
      PROVE  News(c)'
  <2>1. CASE d # c
    <3>1. Quiet(c)
      BY <1>0, <1>4, <2>1, QuietSend
    <3>2. last'[c] = last[c]
      BY <1>4, <2>1 DEF EntryTyped
    <3>. QED BY <1>1, <3>1, <3>2, NewsKept
  <2>2. CASE d = c /\ ~alive
    <3>1. up' = up
      BY <1>4, <2>2 DEF Send
    <3>. QED BY <1>1, <2>2, <3>1 DEF News
  <2>3. CASE d = c /\ alive
    <3>1. m \in UpMessages /\ m \in X /\ m.pct = s.progress
      BY <1>0, MessageMade DEF Message
    <3>2. up' = Append(up, m) /\ up \in Seq(UpMessages)
      BY <1>4, <2>3 DEF Send, Linked, LinkTyped
    <3>3. last'[c] = s.progress /\ s.progress # last[c]
      BY <1>4, <2>3 DEF EntryTyped
    <3>. HIDE DEF m, X
    <3>4. ASSUME dials <= 1 PROVE InLine(up', X, shown[c]) /\ Latest(up', X, shown[c], last'[c])
      <4>1. InLine(up, X, shown[c]) /\ Latest(up, X, shown[c], last[c])
        BY <2>3, <3>4 DEF News, X
      <4>. QED BY <3>1, <3>2, <3>3, <4>1, LineGrows
    <3>. QED BY <1>1, <3>4 DEF News, X
  <2>. QED BY <2>1, <2>2, <2>3
<1>. QED BY <1>2, <1>3, <1>4 DEF Translate, IsNews, Key

LEMMA NewsStep ==
    ASSUME ShimTyped, ShimCounted, Linked, [ShimNext]_shimVars, NEW c \in Requests, News(c)
    PROVE  News(c)'
<1>0. /\ HubTyped /\ LinkTyped /\ EntryTyped /\ UnitTyped /\ 0 \in 0..Steps
      /\ dials \in Nat
  BY Bounds, ShimAssumption DEF ShimTyped, ShimCounted
<1>. DEFINE X == Said(c, {"PROGRESS"})
<1>1. ASSUME UNCHANGED <<dials, shown, last, up>>, alive' => alive PROVE News(c)'
  <2>1. Quiet(c)
    BY <1>1 DEF Quiet
  <2>. QED BY <1>1, <2>1, NewsKept
<1>2. ASSUME NEW d \in Requests, Submit(d) PROVE News(c)'
  BY <1>1, <1>2 DEF Submit, entryVars, counters
<1>3. ASSUME NEW t \in {"TELEM", "ACK", "NACK", "RESULT"},
             NEW d \in Requests \union {NoRequest}, Send(Message(t, d, 0)),
             UNCHANGED <<dials, shown, last, alive>>
      PROVE  News(c)'
  BY <1>0, <1>3, QuietSend, NewsKept
<1>4. ASSUME NEW d \in Requests, AckTimeout(d) PROVE News(c)'
  BY <1>3, <1>4 DEF AckTimeout, Refuse, hubVars, counters
<1>5. CASE HubAdopts \/ HubNotices \/ StaysAway \/ SaysBye \/ Notices \/ FallsSilent
  BY <1>1, <1>5 DEF HubAdopts, HubNotices, StaysAway, SaysBye, Notices, FallsSilent, Closed,
                    hubVars, linkVars, entryVars, counters
<1>6. ASSUME alive' = FALSE, dials' = dials, shown' = shown,
             dials <= 1 => InLine(up', X, shown[c])
      PROVE  News(c)'
  BY <1>6 DEF News
<1>7. dials <= 1 => NoRepeat(shown[c])
  BY DEF News, InLine
<1>8. CASE HubRejects \/ HubRestart
  <2>1. dials <= 1 => InLine(<<>>, X, shown[c])
    BY <1>7, LineEmpty
  <2>2. up' = <<>>
    BY <1>8 DEF HubRejects, HubRestart
  <2>. QED BY <1>6, <1>8, <2>1, <2>2 DEF HubRejects, HubRestart, counters
<1>9. CASE LinkDrops
  <2>1. PICK n \in 0..Len(up) : up' = SubSeq(up, 1, n)
    BY <1>9 DEF LinkDrops
  <2>2. dials <= 1 => InLine(up, X, shown[c])
    BY DEF News
  <2>3. dials <= 1 => InLine(up', X, shown[c])
    BY <1>0, <2>1, <2>2, LinePrefix DEF LinkTyped
  <2>. QED BY <1>6, <1>9, <2>3 DEF LinkDrops, hubVars, counters
<1>10. CASE HubReads
  <2>. DEFINE h == Head(up)
  <2>1. /\ up # <<>> /\ up' = Tail(up) /\ UNCHANGED <<alive, dials, last>>
        /\ up \in Seq(UpMessages)
    BY <1>0, <1>10, ReadsUp DEF entryVars, counters, LinkTyped
  <2>2. h \in UpMessages /\ (h \in X <=> h.command_id = c /\ h.t = "PROGRESS")
    BY <1>0, <2>1, HeadUp
  <2>3. CASE h \in X
    <3>1. shown'[c] = Append(shown[c], h.pct) /\ shown[c] \in Seq(1..Steps)
      BY <1>0, <1>10, <2>2, <2>3, ReadsUp DEF HubTyped
    <3>2. h.pct \in 1..Steps
      BY <1>0, <2>1, <2>2, <2>3, HeadUp, Bounds DEF LinkTyped
    <3>. HIDE DEF X
    <3>3. ASSUME dials <= 1
          PROVE  InLine(up', X, shown'[c]) /\ (alive => Latest(up', X, shown'[c], last[c]))
      <4>1. InLine(up, X, shown[c]) /\ (alive => Latest(up, X, shown[c], last[c]))
        BY <3>3 DEF News, X
      <4>. QED BY <2>1, <2>3, <3>1, <3>2, <4>1, LineShown
    <3>. QED BY <2>1, <3>3 DEF News, X
  <2>4. CASE h \notin X
    <3>1. shown'[c] = shown[c]
      BY <1>0, <1>10, <2>2, <2>4, ReadsUp DEF HubTyped
    <3>. HIDE DEF X
    <3>2. Quiet(c)
      BY <2>1, <2>4, LineRead DEF Quiet, X
    <3>. QED BY <2>1, <3>1, <3>2, NewsKept
  <2>. QED BY <2>3, <2>4
<1>11. CASE Connects
  <2>1. dials' = dials + 1 /\ up' = <<>> /\ shown' = shown
    BY <1>11 DEF Connects
  <2>2. ASSUME dials = 0
        PROVE  InLine(<<>>, X, shown[c]) /\ \A n : Latest(<<>>, X, shown[c], n)
    <3>1. shown[c] = <<>> /\ NoRepeat(shown[c])
      BY <1>7, <2>2 DEF Linked
    <3>2. \A n : Latest(<<>>, X, shown[c], n)
      <4>1. DOMAIN <<>> = {}
        OBVIOUS
      <4>. QED BY <3>1, <4>1 DEF Latest
    <3>. QED BY <3>1, <3>2, LineEmpty
  <2>3. dials' <= 1 => dials = 0
    BY <1>0, <2>1
  <2>. QED BY <2>1, <2>2, <2>3 DEF News
<1>12. CASE Heartbeat
  <2>1. CASE Send(Message("TELEM", NoRequest, 0))
    BY <1>3, <1>12, <2>1 DEF Heartbeat, hubVars, entryVars, counters
  <2>2. CASE up' = up
    BY <1>1, <1>12, <2>2 DEF Heartbeat, hubVars, entryVars, counters
  <2>. QED BY <1>12, <2>1, <2>2 DEF Heartbeat
<1>13. CASE Deliver
  <2>1. Head(down) \in Requests /\ UNCHANGED <<dials, shown, last, alive>>
    BY <1>0, <1>13 DEF Deliver, LinkTyped, hubVars, counters
  <2>2. CASE Send(Message("NACK", Head(down), 0))
    BY <1>3, <2>1, <2>2
  <2>3. CASE up' = up
    BY <1>1, <2>1, <2>3
  <2>. QED BY <1>13, <2>2, <2>3 DEF Deliver, Refuse
<1>14. CASE Handle
  <2>. DEFINE s == Head(statuses)
              d == s.request_id
  <2>1. UNCHANGED <<hubVars, alive, counters>> /\ UNCHANGED <<dials, shown, alive>>
        /\ s \in Statuses
    BY <1>0, <1>14, Handles DEF hubVars, counters
  <2>2. CASE UNCHANGED <<up, hubWriter, entryVars>>
    BY <1>1, <2>1, <2>2 DEF entryVars
  <2>3. CASE /\ d \in Requests /\ last' = last
             /\ Send(Message(IF acked[d] THEN "RESULT" ELSE "NACK", d, 0))
    BY <1>3, <2>1, <2>3
  <2>4. CASE d \in Requests /\ Send(Message("ACK", d, 0)) /\ last' = last
    BY <1>3, <2>1, <2>4
  <2>5. CASE Translate(s)
    <3>1. s.state \in {"started", "progress", "completed"}
      BY <2>5 DEF Translate
    <3>. QED BY <1>0, <2>1, <2>5, <3>1, TranslateNews
  <2>. QED BY <1>0, <1>14, <2>2, <2>3, <2>4, <2>5, Handles
<1>15. CASE Continue
  <2>. DEFINE s == Head(suspended)
  <2>1. UNCHANGED <<hubVars, alive, counters>> /\ s \in Statuses /\ Translate(s)
        /\ s.state \in {"started", "progress", "completed"}
    BY <1>0, <1>15, HeadStatus DEF Continue, EntryTyped, Translate
  <2>. QED BY <1>0, <2>1, TranslateNews
<1>16. CASE Unit \/ UnitRestarts \/ UnitActsLocally
  BY <1>1, <1>16 DEF Unit, UnitReceives, UnitProgresses, UnitCompletes, UnitRestarts,
                     UnitActsLocally, UnitUnchanged, hubVars, linkVars, entryVars, counters
<1>17. CASE UNCHANGED shimVars
  BY <1>1, <1>17 DEF shimVars, hubVars, linkVars, entryVars, counters
<1>. QED BY <1>2, <1>4, <1>5, <1>8, <1>9, <1>10, <1>11, <1>12, <1>13, <1>14, <1>15, <1>16, <1>17
         DEF ShimNext, Hub, Task

-----------------------------------------------------------------------------
(* The invariant.                                                          *)

LEMMA ShimInitInv == ShimInit => ShimInv
<1>. SUFFICES ASSUME ShimInit PROVE ShimInv
  OBVIOUS
<1>. USE DEF ShimInit
<1>1. /\ \A X : ~Has(<<>>, X) /\ AtMostOne(<<>>, X)
      /\ \A T : <<>> \in Seq(T)
      /\ Len(<<>>) = 0
  <2>1. \A T : <<>> \in Seq(T)
    OBVIOUS
  <2>2. Len(<<>>) = 0
    OBVIOUS
  <2>3. \A X : ~Has(<<>>, X) /\ AtMostOne(<<>>, X)
    BY OneOrNone
  <2>. QED BY <2>1, <2>2, <2>3, Zenon
<1>2. /\ \A c \in Requests : trail[c] = <<>> /\ shown[c] = <<>> /\ acked[c] = FALSE
      /\ trail \in [Requests -> Seq(EvidenceKinds)]
      /\ shown \in [Requests -> Seq(1..Steps)]
  BY <1>1
<1>3. ShimTyped /\ ShimFlags /\ ShimCounted
  <2>1. HubTyped
    BY <1>2 DEF HubTyped
  <2>2. LinkTyped
    BY <1>1, Zenon DEF LinkTyped
  <2>3. EntryTyped
    <3>1. acked \in [Requests -> BOOLEAN] /\ last \in [Requests -> 0..Steps]
      BY Bounds
    <3>2. suspended \in Seq(Statuses) /\ ~Has(suspended, Blank)
      BY <1>1, Zenon
    <3>. QED BY <3>1, <3>2 DEF EntryTyped
  <2>4. UnitTyped
    <3>1. actions \in Seq(Requests) /\ statuses \in Seq(Statuses) /\ ~Has(statuses, Blank)
      BY <1>1, Zenon
    <3>2. Len(statuses) <= Room
      BY <1>1, Bounds
    <3>. QED BY <3>1, <3>2, Bounds DEF UnitTyped
  <2>5. TaskTyped /\ ShimFlags
    BY DEF TaskTyped, ShimFlags
  <2>6. ShimCounted
    BY ShimAssumption DEF ShimCounted
  <2>. QED BY <2>1, <2>2, <2>3, <2>4, <2>5, <2>6 DEF ShimTyped
<1>4. Linked
  BY <1>2 DEF Linked
<1>5. ASSUME NEW c \in Requests PROVE Custody(c) /\ News(c) /\ Somewhere(c) /\ Waited(c)
  <2>1. working # c
    BY Bounds
  <2>2. EndsOnce(c)
    BY <1>1, <2>1 DEF EndsOnce
  <2>3. Untouched(c) /\ Placed(c) /\ Acknowledged(c)
    BY <1>1, <1>2, <2>1 DEF Untouched, Placed, Acknowledged
  <2>4. NoRepeat(<<>>)
    BY DEF NoRepeat
  <2>5. News(c)
    BY <1>2, <2>4, LineEmpty DEF News
  <2>6. Somewhere(c) /\ Waited(c)
    BY <1>2 DEF Somewhere, Waited, Open
  <2>. QED BY <2>2, <2>3, <2>5, <2>6 DEF Custody
<1>. QED BY <1>3, <1>4, <1>5, TypesAre DEF ShimInv

LEMMA ShimInvStep == ShimInv /\ [ShimNext]_shimVars => ShimInv'
<1>. SUFFICES ASSUME ShimInv, [ShimNext]_shimVars PROVE ShimInv'
  OBVIOUS
<1>1. ShimTyped /\ ShimFlags /\ ShimCounted
  BY TypesAre DEF ShimInv
<1>2. ShimTyped' /\ ShimFlags' /\ ShimCounted'
  BY <1>1, ShimTypedStep, ShimFlagsStep, ShimCountedStep
<1>3. (ShimTypeOK /\ Counting)'
  <2>1. (ShimTyped /\ ShimFlags /\ ShimCounted => ShimTypeOK /\ Counting)'
    BY TypesAre, PTL
  <2>. QED BY <1>2, <2>1
<1>4. Linked'
  BY <1>1, LinkedStep DEF ShimInv
<1>5. ASSUME NEW c \in Requests PROVE (Custody(c) /\ News(c) /\ Somewhere(c) /\ Waited(c))'
  <2>1. Custody(c) /\ News(c) /\ Somewhere(c) /\ Waited(c) /\ Linked
    BY DEF ShimInv
  <2>2. Custody(c)'
    BY <1>1, <2>1, CustodyStep
  <2>3. News(c)'
    BY <1>1, <2>1, NewsStep
  <2>4. Somewhere(c)'
    BY <1>1, <2>1, SomewhereStep
  <2>5. Waited(c)'
    BY <1>1, <2>1, WaitedStep
  <2>. QED BY <2>2, <2>3, <2>4, <2>5
<1>. QED BY <1>3, <1>4, <1>5 DEF ShimInv

(* The token of every command behind the shim: one end on the unit's side, *)
(* one verdict on the hub's, and the progress on the link in line with the *)
(* progress shown (mqtt_shim.py:364-479).                                  *)
THEOREM ShimTokenInvariant == ShimSpec => []ShimInv
<1>1. ShimInit => ShimInv
  BY ShimInitInv
<1>2. ShimInv /\ [ShimNext]_shimVars => ShimInv'
  BY ShimInvStep
<1>. QED BY <1>1, <1>2, PTL DEF ShimSpec

(* Shim and hub agree on every command: an acknowledgement is final, a     *)
(* repeated step is not shown twice over one link, what the hub holds in   *)
(* flight is not forgotten while the link is up, and without a restart of  *)
(* the hub what has no result is in flight on the session in service, in   *)
(* every order of the timer, the statuses and the answers waiting in       *)
(* drain() (mqtt_shim.py:380-389, 439-479, southbound.py:164-176).         *)
THEOREM ShimAndHubAgree == ShimSpec => []ShimConsistent
<1>1. ASSUME ShimInv PROVE ShimConsistent
  <2>1. AcceptanceIsFinal
    <3>1. ASSUME NEW c \in Requests PROVE ~({"ack", "nack"} \subseteq Kinds(c))
      <4>1. Has(trail[c], {"ack"}) => acked[c]
        BY <1>1 DEF ShimInv, Custody, Acknowledged
      <4>2. Has(trail[c], {"nack"}) => ~acked[c]
        BY <1>1 DEF ShimInv, Custody, Acknowledged
      <4>3. /\ "ack" \in Kinds(c) => Has(trail[c], {"ack"})
            /\ "nack" \in Kinds(c) => Has(trail[c], {"nack"})
        BY DEF Kinds, Has
      <4>. QED BY <4>1, <4>2, <4>3
    <3>. QED BY <3>1 DEF AcceptanceIsFinal
  <2>2. ProgressIsNews
    BY <1>1 DEF ShimInv, News, InLine, NoRepeat, ProgressIsNews
  <2>3. InFlightIsSomewhere
    <3>1. ASSUME NEW c \in Requests, Held(c)
          PROVE  Underway(c) \/ c \in pending \/ VerdictSent(c)
      <4>1. Has(down, {c}) => Underway(c)
        BY DEF Has, Underway
      <4>2. Has(up, Said(c, Verdicts)) => VerdictSent(c)
        BY DEF Has, Said, VerdictSent
      <4>. QED BY <3>1, <4>1, <4>2 DEF Held
    <3>2. inflight \subseteq Requests
      BY <1>1 DEF ShimInv, ShimTypeOK
    <3>. QED BY <1>1, <3>1, <3>2 DEF ShimInv, Somewhere, InFlightIsSomewhere
  <2>4. OpenIsInFlight
    <3>1. ASSUME NEW c \in Requests, hubRestarts = 0, trail[c] # <<>>, ResultsAt(c) = {}
          PROVE  hub = "operational" /\ c \in inflight
      <4>1. ~Has(trail[c], Answers) /\ ~Has(trail[c], {"lost"})
        BY <3>1 DEF ResultsAt, Results, Has
      <4>2. c \in inflight
        BY <1>1, <3>1, <4>1 DEF ShimInv, Waited, Open
      <4>. QED BY <1>1, <4>2 DEF ShimInv, Linked
    <3>. QED BY <3>1 DEF OpenIsInFlight
  <2>. QED BY <1>1, <2>1, <2>2, <2>3, <2>4 DEF ShimConsistent, ShimInv
<1>. QED BY <1>1, ShimTokenInvariant, PTL

-----------------------------------------------------------------------------
(* The promise: what Life tells of a command, from what its evidence holds.*)

Tale(c) ==
    IF Has(trail[c], {"lost"})
    THEN IF Has(trail[c], Answers) THEN "twice" ELSE "lost"
    ELSE IF Has(trail[c], Answers) THEN "answered"
    ELSE IF trail[c] = <<>> THEN "new" ELSE "asked"

(* No kind of result twice. *)
OnceEach(c) == AtMostOne(trail[c], Answers) /\ AtMostOne(trail[c], {"lost"})

LEMMA LifeIsTale ==
    ASSUME NEW c \in Requests, OnceEach(c)
    PROVE  Life(c) = Tale(c)
<1>. DEFINE at == ResultsAt(c)
            kinds == {trail[c][i] : i \in at}
<1>1. \A i : i \in at <=> i \in DOMAIN trail[c] /\ trail[c][i] \in Answers \union {"lost"}
  BY DEF ResultsAt, Results
<1>2. "lost" \notin Answers
  BY DEF Answers
<1>3. Life(c) = CASE at = {} -> IF trail[c] = <<>> THEN "new" ELSE "asked"
                  [] Cardinality(at) = 1 /\ kinds = {"lost"} -> "lost"
                  [] Cardinality(at) = 1 /\ kinds \subseteq Answers -> "answered"
                  [] Cardinality(at) = 2 /\ (\E a \in Answers : kinds = {"lost", a}) -> "twice"
                  [] OTHER -> "broken"
  BY DEF Life
<1>4. ASSUME NEW i, at = {i} PROVE Cardinality(at) = 1 /\ kinds = {trail[c][i]} /\ at # {}
  <2>1. Cardinality({i}) = 1
    BY FS_Singleton
  <2>. QED BY <1>4, <2>1
<1>. HIDE DEF at
<1>5. CASE at = {}
  <2>1. ~Has(trail[c], {"lost"}) /\ ~Has(trail[c], Answers)
    BY <1>1, <1>5 DEF Has
  <2>2. Cardinality(at) = 0
    BY <1>5, FS_EmptySet
  <2>. QED BY <1>3, <1>5, <2>1, <2>2 DEF Tale
<1>6. CASE Has(trail[c], {"lost"}) /\ ~Has(trail[c], Answers)
  <2>1. PICK i \in DOMAIN trail[c] : trail[c][i] = "lost"
    BY <1>6 DEF Has
  <2>2. at = {i}
    BY <1>1, <1>6, <2>1 DEF OnceEach, AtMostOne, Has
  <2>3. Cardinality(at) = 1 /\ kinds = {"lost"} /\ at # {}
    BY <1>4, <2>1, <2>2
  <2>. QED BY <1>2, <1>3, <1>6, <2>3 DEF Tale
<1>7. CASE Has(trail[c], Answers) /\ ~Has(trail[c], {"lost"})
  <2>1. PICK i \in DOMAIN trail[c] : trail[c][i] \in Answers
    BY <1>7 DEF Has
  <2>2. at = {i}
    BY <1>1, <1>7, <2>1 DEF OnceEach, AtMostOne, Has
  <2>3. Cardinality(at) = 1 /\ kinds = {trail[c][i]} /\ at # {}
    BY <1>4, <2>2
  <2>4. kinds # {"lost"} /\ kinds \subseteq Answers
    BY <1>2, <2>1, <2>3
  <2>. QED BY <1>3, <1>7, <2>3, <2>4 DEF Tale
<1>8. CASE Has(trail[c], {"lost"}) /\ Has(trail[c], Answers)
  <2>1. PICK i \in DOMAIN trail[c], j \in DOMAIN trail[c] :
            trail[c][i] = "lost" /\ trail[c][j] \in Answers
    BY <1>8 DEF Has
  <2>2. at = {i, j} /\ i # j
    BY <1>1, <1>2, <2>1 DEF OnceEach, AtMostOne
  <2>3. kinds = {"lost", trail[c][j]}
    BY <2>1, <2>2
  <2>4. Cardinality(at) = 2
    <3>1. Cardinality({i}) = 1 /\ IsFiniteSet({i})
      BY FS_Singleton
    <3>2. Cardinality({i} \union {j}) = Cardinality({i}) + 1
      BY <2>2, <3>1, FS_AddElement
    <3>3. at = {i} \union {j}
      BY <2>2
    <3>. QED BY <3>1, <3>2, <3>3
  <2>5. at # {} /\ \E a \in Answers : kinds = {"lost", a}
    BY <2>1, <2>2, <2>3
  <2>. QED BY <1>3, <1>8, <2>4, <2>5 DEF Tale
<1>9. at = {} \/ Has(trail[c], {"lost"}) \/ Has(trail[c], Answers)
  BY <1>1 DEF Has
<1>. QED BY <1>5, <1>6, <1>7, <1>8, <1>9

LEMMA LifeIsTaleNext == \A c \in Requests : OnceEach(c)' => Life(c)' = Tale(c)'
<1>1. \A c \in Requests : OnceEach(c) => Life(c) = Tale(c)
  BY LifeIsTale
<1>2. (\A c \in Requests : OnceEach(c) => Life(c) = Tale(c))'
  BY <1>1, PTL
<1>. QED BY <1>2

LEMMA InvTales ==
    ASSUME ShimInv, ShimInv', NEW c \in Requests
    PROVE  Life(c) = Tale(c) /\ Life(c)' = Tale(c)'
<1>1. OnceEach(c) /\ OnceEach(c)'
  BY DEF ShimInv, Custody, Placed, OnceEach
<1>. QED BY <1>1, LifeIsTale, LifeIsTaleNext

Lives == [c \in Requests |-> Life(c)]

(* A step of the shim is a step of the promise, or tells nothing new.      *)
LEMMA ShimPromised ==
    ASSUME ShimInv, ShimInv', [ShimNext]_shimVars
    PROVE  [Promise!Next]_Lives
<1>0. /\ HubTyped /\ LinkTyped
      /\ \A c \in Requests : Custody(c) /\ Life(c) = Tale(c) /\ Life(c)' = Tale(c)'
  BY TypesAre, InvTales DEF ShimInv, ShimTyped
<1>1. /\ Lives' = [c \in Requests |-> Life(c)']
      /\ \A c \in Requests : Lives[c] = Life(c) /\ Lives'[c] = Life(c)'
  BY DEF Lives
<1>2. ASSUME NEW c \in Requests, trail'[c] = trail[c] PROVE Life(c)' = Life(c)
  BY <1>0, <1>2 DEF Tale
<1>3. ASSUME trail' = trail PROVE Lives' = Lives
  BY <1>1, <1>2, <1>3 DEF Lives
<1>4. ASSUME NEW c \in Requests, \A d \in Requests \ {c} : trail'[d] = trail[d]
      PROVE  Lives' = [Lives EXCEPT ![c] = Life(c)']
  BY <1>1, <1>2, <1>4 DEF Lives
<1>5. ASSUME NEW c \in Requests, Submit(c) PROVE [Promise!Next]_Lives
  <2>1. /\ trail[c] = <<>> /\ trail'[c] = <<"command">>
        /\ \A d \in Requests \ {c} : trail'[d] = trail[d]
    BY <1>0, <1>5 DEF Submit, HubTyped
  <2>2. Life(c) = "new"
    <3>1. \A X : ~Has(trail[c], X)
      BY <2>1, OneOrNone
    <3>. QED BY <1>0, <2>1, <3>1 DEF Tale
  <2>3. Life(c)' = "asked"
    <3>1. trail'[c] # <<>> /\ ~Has(trail'[c], {"lost"}) /\ ~Has(trail'[c], Answers)
      <4>1. \A X : "command" \notin X => ~Has(trail'[c], X)
        BY <2>1, OneOrNone
      <4>. QED BY <2>1, <4>1 DEF Answers
    <3>. QED BY <1>0, <3>1 DEF Tale
  <2>4. Promise!Ask(c)
    BY <1>1, <1>4, <2>1, <2>2, <2>3 DEF Promise!Ask, Lives
  <2>. QED BY <2>4 DEF Promise!Next
<1>6. CASE HubReads
  <2>. DEFINE m == Head(up)
              e == Evidence(m.t)
  <2>1. CASE m.command_id \notin Requests
    BY <1>3, <1>6, <2>1 DEF HubReads
  <2>2. ASSUME NEW c \in Requests, m.command_id = c PROVE [Promise!Next]_Lives
    <3>1. /\ up # <<>> /\ up \in Seq(UpMessages)
          /\ m.t \in {"TELEM", "ACK", "NACK", "PROGRESS", "RESULT"}
          /\ \A kinds : m \in Said(c, kinds) <=> m.t \in kinds
      BY <1>0, <1>6, <2>2, HeadUp, ReadsUp DEF LinkTyped
    <3>2. /\ trail'[c] = trail[c] \o e /\ trail[c] \in Seq(EvidenceKinds)
          /\ e \in Seq(EvidenceKinds)
          /\ \A d \in Requests \ {c} : trail'[d] = trail[d]
      BY <1>0, <1>6, <2>2, <3>1, ReadsUp, EvidenceIs DEF HubTyped
    <3>3. /\ Has(e, Answers) <=> m.t \in Verdicts
          /\ ~Has(e, {"lost"})
          /\ e # <<>> <=> m.t \in Weighty
      BY <3>1, EvidenceIs
    <3>. HIDE DEF e
    <3>4. /\ Has(trail'[c], {"lost"}) <=> Has(trail[c], {"lost"})
          /\ Has(trail'[c], Answers) <=> Has(trail[c], Answers) \/ m.t \in Verdicts
      <4>1. \A X : Has(trail[c] \o e, X) <=> Has(trail[c], X) \/ Has(e, X)
        BY <3>2, Chained
      <4>. QED BY <3>2, <3>3, <4>1
    <3>5. m.t \in Weighty => trail[c] # <<>>
      <4>1. m.t \in Weighty => Has(up, Said(c, Weighty))
        BY <3>1, TakenOff
      <4>. QED BY <1>0, <2>2, <4>1 DEF Custody, Placed, Untouched
    <3>6. trail'[c] = <<>> <=> trail[c] = <<>>
      <4>1. trail[c] # <<>> => trail[c] \o e # <<>>
        BY <3>2
      <4>2. trail[c] = <<>> => e = <<>>
        BY <3>3, <3>5
      <4>3. <<>> \o <<>> = <<>>
        OBVIOUS
      <4>. QED BY <3>2, <4>1, <4>2, <4>3
    <3>7. CASE m.t \notin Verdicts
      <4>1. Life(c)' = Life(c)
        BY <1>0, <2>2, <3>4, <3>6, <3>7 DEF Tale
      <4>2. Lives' = Lives
        BY <1>1, <1>4, <2>2, <3>2, <4>1 DEF Lives
      <4>. QED BY <4>2
    <3>8. CASE m.t \in Verdicts
      <4>1. ~Has(trail[c], Answers) /\ trail[c] # <<>>
        <5>1. Has(up, Said(c, Verdicts))
          BY <3>1, <3>8, TakenOff
        <5>2. m.t \in Weighty
          BY <3>8 DEF Verdicts, Weighty
        <5>. QED BY <1>0, <3>5, <5>1, <5>2 DEF Custody, Placed
      <4>2. \/ Life(c) = "asked" /\ Life(c)' = "answered"
            \/ Life(c) = "lost" /\ Life(c)' = "twice"
        BY <1>0, <3>4, <3>8, <4>1 DEF Tale
      <4>3. Promise!Answer(c)
        BY <1>1, <1>4, <3>2, <4>2 DEF Promise!Answer, Lives
      <4>. QED BY <4>3 DEF Promise!Next
    <3>. QED BY <3>7, <3>8
  <2>. QED BY <2>1, <2>2
<1>7. CASE HubNotices
  <2>1. \A c \in Requests : /\ c \in inflight => trail'[c] = Append(trail[c], "lost")
                            /\ c \notin inflight => trail'[c] = trail[c]
    BY <1>7 DEF HubNotices
  <2>2. inflight \in SUBSET Requests
    BY <1>0 DEF HubTyped
  <2>3. ASSUME NEW c \in Requests, c \in inflight
        PROVE  \/ Life(c) = "asked" /\ Life(c)' = "lost"
               \/ Life(c) = "answered" /\ Life(c)' = "twice"
    <3>1. trail[c] # <<>> /\ ~Has(trail[c], {"lost"})
      BY <1>0, <2>3 DEF Custody, Placed
    <3>2. /\ trail[c] \in Seq(EvidenceKinds) /\ "lost" \in EvidenceKinds
          /\ trail'[c] = Append(trail[c], "lost")
      BY <1>0, <2>1, <2>3 DEF HubTyped, EvidenceKinds
    <3>3. \A X : Has(trail'[c], X) <=> Has(trail[c], X) \/ "lost" \in X
      BY <3>2, Grown
    <3>4. Has(trail'[c], {"lost"}) /\ (Has(trail'[c], Answers) <=> Has(trail[c], Answers))
      BY <3>3 DEF Answers
    <3>. QED BY <1>0, <2>3, <3>1, <3>4 DEF Tale
  <2>4. ASSUME NEW c \in Requests, c \notin inflight PROVE Life(c)' = Life(c)
    BY <1>2, <2>1, <2>4
  <2>5. CASE inflight = {}
    <3>1. Lives' = Lives
      BY <1>1, <2>4, <2>5 DEF Lives
    <3>. QED BY <3>1
  <2>6. CASE inflight # {}
    <3>1. \A c \in inflight : Lives[c] \in {"asked", "answered"}
      BY <1>1, <2>2, <2>3
    <3>2. Lives' = [c \in Requests |->
                        IF c \notin inflight THEN Lives[c]
                        ELSE IF Lives[c] = "asked" THEN "lost" ELSE "twice"]
      <4>1. \A c \in Requests :
                Life(c)' = IF c \notin inflight THEN Lives[c]
                           ELSE IF Lives[c] = "asked" THEN "lost" ELSE "twice"
        BY <1>1, <2>3, <2>4
      <4>. QED BY <1>1, <4>1
    <3>3. Promise!GiveUp(inflight)
      BY <2>6, <3>1, <3>2 DEF Promise!GiveUp, Lives
    <3>. QED BY <2>2, <3>3 DEF Promise!Next
  <2>. QED BY <2>5, <2>6
<1>8. ASSUME NEW c \in Requests, AckTimeout(c) PROVE Lives' = Lives
  BY <1>3, <1>8 DEF AckTimeout, hubVars
<1>9. CASE HubAdopts \/ HubRejects \/ HubRestart \/ LinkDrops \/ Task \/ Connects \/ Heartbeat
           \/ FallsSilent \/ Handle \/ Continue
  BY <1>3, <1>9 DEF HubAdopts, HubRejects, HubRestart, LinkDrops, Task, Deliver, SaysBye,
                    StaysAway, Notices, Connects, Heartbeat, FallsSilent, Handle, Continue,
                    hubVars
<1>10. CASE Unit \/ UnitRestarts \/ UnitActsLocally \/ UNCHANGED shimVars
  BY <1>3, <1>10 DEF Unit, UnitReceives, UnitProgresses, UnitCompletes, UnitRestarts,
                     UnitActsLocally, UnitUnchanged, shimVars, hubVars
<1>. QED BY <1>5, <1>6, <1>7, <1>8, <1>9, <1>10 DEF ShimNext, Hub

(* Behind the shim the submitter's promise is kept as behind a module that *)
(* speaks for itself: one verdict at most, one giving up at most           *)
(* ("the hub gets its one terminal result", mqtt_shim.py:31).              *)
THEOREM ShimKeepsThePromise == ShimSpec => KeepsThePromise
<1>1. ShimInit => Promise!Init
  <2>1. ASSUME ShimInit PROVE Lives = [c \in Requests |-> "new"]
    <3>1. ASSUME NEW c \in Requests PROVE Life(c) = "new"
      <4>1. trail[c] = <<>> /\ \A X : ~Has(trail[c], X) /\ AtMostOne(trail[c], X)
        BY <2>1, OneOrNone DEF ShimInit
      <4>2. OnceEach(c)
        BY <4>1 DEF OnceEach
      <4>. QED BY <4>1, <4>2, LifeIsTale DEF Tale
    <3>. QED BY <3>1 DEF Lives
  <2>. QED BY <2>1 DEF Promise!Init, Lives
<1>2. ShimInv /\ ShimInv' /\ [ShimNext]_shimVars => [Promise!Next]_Lives
  BY ShimPromised
<1>. QED BY <1>1, <1>2, ShimTokenInvariant, PTL
         DEF ShimSpec, KeepsThePromise, Promise!Spec, Lives

=============================================================================
