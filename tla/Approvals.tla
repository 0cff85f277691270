-------------------------------- MODULE Approvals --------------------------------
(***************************************************************************)
(* The approval flow: GatewayPolicy of extensions/authority/__init__.py    *)
(* with the part of CommandGateway that calls it (uii/hub/commands.py).    *)
(*                                                                         *)
(* Every request to the API runs in a thread of its own and none takes a   *)
(* lock: `pending` and `_by_command` are plain dicts, and a thread may     *)
(* stop between looking an approval up and removing it.  Deadlines pass at *)
(* any time, but an approval expires only when some request looks.         *)
(*                                                                         *)
(* Abstractions: an approval id stands for its command; what happens after *)
(* the dispatch is in CommandLife; a dict that changes while a list is     *)
(* made of it (RuntimeError) is not modelled.                              *)
(***************************************************************************)
EXTENDS Authority, Sequences, FiniteSets

CONSTANTS
    Commands,       \* command ids
    Threads,        \* API handler threads
    NoRequest,      \* a command nobody submitted
    MaxRefusals,    \* bound: refused approvals logged per command
    MaxRestarts     \* bound: restarts of the hub

ASSUME ApprovalsAssumption ==
    /\ NoRequest \notin [actor: Actors, risk: Risks, ingress: Ingresses]
    /\ {MaxRefusals, MaxRestarts} \subseteq Nat

VARIABLES
    request,      \* what was asked for, per command
    pending,      \* GatewayPolicy.pending
    byCommand,    \* GatewayPolicy._by_command
    overdue,      \* pending approvals whose deadline has passed
    log,          \* the evidence about each command and who caused it
    handler,      \* what each thread is doing
    restarts

vars == <<request, pending, byCommand, overdue, log, handler, restarts>>

Entry(what, who) == [what |-> what, who |-> who]
Record(c, what, who) == log' = [log EXCEPT ![c] = Append(@, Entry(what, who))]

Idle == [step |-> "idle"]
At(step, c) == [step |-> step, c |-> c]
Now(t, h) == handler' = [handler EXCEPT ![t] = h]

Init ==
    /\ request = [c \in Commands |-> NoRequest]
    /\ pending = {}
    /\ byCommand = {}
    /\ overdue = {}
    /\ log = [c \in Commands |-> <<>>]
    /\ handler = [t \in Threads |-> Idle]
    /\ restarts = 0

-----------------------------------------------------------------------------
(* CommandGateway._submit from the policy's decision on. *)

Submit(t, c) ==
    /\ handler[t] = Idle
    /\ request[c] = NoRequest
    /\ \E a \in Actors, r \in Risks, i \in Ingresses :
        /\ request' = [request EXCEPT ![c] = [actor |-> a, risk |-> r, ingress |-> i]]
        /\ CASE Decide(a, r, i) = "reject-path" ->
                    UNCHANGED <<log, handler>>
             [] Decide(a, r, i) = "allow" ->
                    Record(c, "command", a) /\ Now(t, At("dispatch", c))
             [] Decide(a, r, i) = "approval" ->
                    Record(c, "command", a) /\ Now(t, At("defer", c))
    /\ UNCHANGED <<pending, byCommand, overdue, restarts>>

(* dispatch_env: from here on the module may run it. *)
Dispatch(t) ==
    /\ handler[t].step = "dispatch"
    /\ Record(handler[t].c, "dispatched", "hub")
    /\ Now(t, Idle)
    /\ UNCHANGED <<request, pending, byCommand, overdue, restarts>>

(* on_defer, first half: the approval is visible to other threads ... *)
Defer(t) ==
    /\ handler[t].step = "defer"
    /\ pending' = pending \union {handler[t].c}
    /\ Now(t, At("index", handler[t].c))
    /\ UNCHANGED <<request, byCommand, overdue, log, restarts>>

(* ... and second half: indexed by command, audited. *)
Index(t) ==
    /\ handler[t].step = "index"
    /\ byCommand' = byCommand \union {handler[t].c}
    /\ Record(handler[t].c, "approval-pending", request[handler[t].c].actor)
    /\ Now(t, Idle)
    /\ UNCHANGED <<request, pending, overdue, restarts>>

-----------------------------------------------------------------------------
(* decide_approval, list_approvals and command_state, which begin alike. *)

(* _expire lists the approvals that are past their deadline.  `wish` is    *)
(* what the request came for: some actor's decision about an approval that *)
(* can be seen, or just a look.                                            *)
Wishes == [c: pending, choice: {"approve", "deny"}, who: Actors] \union {Idle}
Arrive(t) ==
    /\ handler[t] = Idle
    /\ \E wish \in Wishes :
        Now(t, [step |-> "expire", victims |-> pending \cap overdue, wish |-> wish])
    /\ UNCHANGED <<request, pending, byCommand, overdue, log, restarts>>

StillPending(c) == c \in pending

(* One turn of the loop of _expire.  An approval another thread removed in *)
(* the meantime raises KeyError, which ends the request.                   *)
ExpireOne(t) ==
    /\ handler[t].step = "expire"
    /\ \E c \in handler[t].victims :
        IF StillPending(c)
        THEN /\ pending' = pending \ {c}
             /\ byCommand' = byCommand \ {c}
             /\ Record(c, "expired", "hub")
             /\ Now(t, [handler[t] EXCEPT !.victims = @ \ {c}])
        ELSE /\ Now(t, Idle)
             /\ UNCHANGED <<pending, byCommand, log>>
    /\ UNCHANGED <<request, overdue, restarts>>

(* How often the evidence says it of a command. *)
Times(c, what) == Cardinality({i \in DOMAIN log[c] : log[c][i].what = what})

(* After the loop: look the approval up and ask the matrix. *)
LookUp(t) ==
    /\ handler[t].step = "expire"
    /\ handler[t].victims = {}
    /\ LET w == handler[t].wish
       IN  IF w = Idle \/ (w # Idle /\ w.c \notin pending)
           THEN Now(t, Idle) /\ UNCHANGED log
           ELSE IF MayApprove(w.who, request[w.c].actor)
           THEN Now(t, [step |-> "remove", wish |-> w]) /\ UNCHANGED log
           ELSE /\ Times(w.c, "approval-refused") < MaxRefusals
                /\ Record(w.c, "approval-refused", w.who)
                /\ Now(t, Idle)
    /\ UNCHANGED <<request, pending, byCommand, overdue, restarts>>

Decided(c) == pending \ {c}

DeniedToo(choice) == "dispatch"        \* mutant: a denial is dispatched as well
AfterDecision(choice) == IF choice = "approve" THEN "dispatch" ELSE "reject"

(* Remove it, whether or not it is still there, and audit the decision. *)
Remove(t) ==
    /\ handler[t].step = "remove"
    /\ LET w == handler[t].wish
       IN  /\ pending' = Decided(w.c)
           /\ byCommand' = byCommand \ {w.c}
           /\ Record(w.c, IF w.choice = "approve" THEN "approval-granted"
                                                  ELSE "approval-denied", w.who)
           /\ Now(t, At(AfterDecision(w.choice), w.c))
    /\ UNCHANGED <<request, overdue, restarts>>

Reject(t) ==
    /\ handler[t].step = "reject"
    /\ Record(handler[t].c, "rejected", "hub")
    /\ Now(t, Idle)
    /\ UNCHANGED <<request, pending, byCommand, overdue, restarts>>

-----------------------------------------------------------------------------
(* 300 s after the request. *)
Deadline(c) ==
    /\ c \in pending \ overdue
    /\ overdue' = overdue \union {c}
    /\ UNCHANGED <<request, pending, byCommand, log, handler, restarts>>

(* Nothing of this is persisted but the evidence. *)
HubRestart ==
    /\ restarts < MaxRestarts
    /\ restarts' = restarts + 1
    /\ pending' = {}
    /\ byCommand' = {}
    /\ handler' = [t \in Threads |-> Idle]
    /\ UNCHANGED <<request, overdue, log>>

Work(t) ==
    \/ Dispatch(t) \/ Defer(t) \/ Index(t)
    \/ ExpireOne(t) \/ LookUp(t) \/ Remove(t) \/ Reject(t)

Next ==
    \/ \E t \in Threads : Work(t) \/ Arrive(t) \/ (\E c \in Commands : Submit(t, c))
    \/ \E c \in Commands : Deadline(c)
    \/ HubRestart

Spec == Init /\ [][Next]_vars

-----------------------------------------------------------------------------
Steps == {"idle", "dispatch", "defer", "index", "expire", "remove", "reject"}

HumanWishes == [c: Commands, choice: {"approve", "deny"},
                who: {a \in Actors : ClassOf[a] = "user"}]

TypeOK ==
    /\ request \in [Commands -> [actor: Actors, risk: Risks, ingress: Ingresses]
                                    \union {NoRequest}]
    /\ pending \subseteq Commands
    /\ byCommand \subseteq Commands
    /\ overdue \subseteq Commands
    /\ \A c \in Commands : \A i \in DOMAIN log[c] : log[c][i].who \in Actors \union {"hub"}
    /\ \A t \in Threads :
        /\ handler[t].step \in Steps
        /\ handler[t].step = "expire" => handler[t].victims \subseteq overdue
        /\ handler[t].step = "remove" => handler[t].wish \in HumanWishes
    /\ restarts \in 0..MaxRestarts

(* The least of what the actor's class and the path allow, said without    *)
(* decide(): the reference definition the code's comment gives (policy.py  *)
(* lines 3 and 19-31).                                                     *)
RunsAlone(q) ==
    /\ ~Exceeds(q.risk, MaxRisk[ClassOf[q.actor]])
    /\ ~Exceeds(q.risk, PathCeiling[q.ingress])
    /\ q.risk # "hazardous"

(* "effective permission = min(actor class, ingress path ceiling)": what   *)
(* reaches a module was within both, or a human other than the requester   *)
(* granted it before and the path allowed it, whatever requests, decisions *)
(* and deadlines interleave ("approval cannot launder it").                *)
DispatchIsAuthorized ==
    \A c \in Commands : \A i \in DOMAIN log[c] :
        log[c][i].what = "dispatched" =>
            \/ RunsAlone(request[c])
            \/ /\ ~Exceeds(request[c].risk, PathCeiling[request[c].ingress])
               /\ \E j \in 1..(i - 1) :
                    /\ log[c][j].what = "approval-granted"
                    /\ ClassOf[log[c][j].who] = "user"
                    /\ log[c][j].who # request[c].actor

(* Every deferred command that was sent or turned down was so by a logged  *)
(* decision of its own: no grant is spent twice and no denial turns into a *)
(* dispatch, however many humans decide at once.                           *)
EachDecisionActsOnce ==
    \A c \in Commands :
        (request[c] # NoRequest /\ ~RunsAlone(request[c])) =>
            /\ Times(c, "dispatched") <= Times(c, "approval-granted")
            /\ Times(c, "rejected") <= Times(c, "approval-denied")

(* An approval expires at most once, although every request that looks     *)
(* runs the expiry and two may hold the same list.                         *)
ExpiresOnce == \A c \in Commands : Times(c, "expired") <= 1

(* An approval that may still be decided has not expired, and its command  *)
(* was neither sent nor turned down: nothing is decided from a stale entry *)
(* that was put back.                                                      *)
PendingIsUndecided ==
    \A c \in pending :
        \A i \in DOMAIN log[c] :
            log[c][i].what \in {"command", "approval-pending", "approval-refused"}

(* However many humans decide, look and let deadlines pass at once, every  *)
(* end of an approval has a cause of its own and comes once.               *)
DecidedOnce == TypeOK /\ EachDecisionActsOnce /\ ExpiresOnce /\ PendingIsUndecided

(* "audit{approval-granted|denied} -> dispatch or terminal                 *)
(* result{rejected|expired}" (docs/architecture.md:284-286): one of these  *)
(* ends for each command.                                                  *)
OneOutcome ==
    \A c \in Commands :
        Times(c, "dispatched") + Times(c, "rejected") + Times(c, "expired") <= 1

=============================================================================
