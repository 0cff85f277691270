-------------------------------- MODULE Authority --------------------------------
(***************************************************************************)
(* The authority matrix of extensions/authority/policy.py: who may run     *)
(* what, arriving how.                                                     *)
(***************************************************************************)
EXTENDS Naturals

CONSTANTS
    Actors,          \* the values of trace.actor
    ClassOf,         \* actor_class of each: the prefix, "agent" when unknown
    MaxRisk,         \* authority: actor class -> risk it may run alone
    PathCeiling      \* path_ceilings: ingress -> absolute risk ceiling

Classes == {"user", "agent", "system", "plc"}
Risks == {"info", "routine", "disruptive", "hazardous"}
Ingresses == {"local", "ot", "cloud", "cellular"}

ASSUME AuthorityAssumption ==
    /\ ClassOf \in [Actors -> Classes]
    /\ MaxRisk \in [Classes -> Risks]
    /\ PathCeiling \in [Ingresses -> Risks]

RiskOrder == [info |-> 0, routine |-> 1, disruptive |-> 2, hazardous |-> 3]
Exceeds(risk, limit) == RiskOrder[risk] > RiskOrder[limit]

PathFirst(actor, risk, ingress) ==    \* mutant: hazardous asked before the path
    IF risk = "hazardous" THEN "approval"
    ELSE IF Exceeds(risk, PathCeiling[ingress]) THEN "reject-path"
    ELSE IF Exceeds(risk, MaxRisk[ClassOf[actor]]) THEN "approval" ELSE "allow"

(* AuthorityPolicy.decide: the path is absolute, hazardous always needs an *)
(* approval, and so does what the actor's class may not run alone.         *)
Decide(actor, risk, ingress) ==
    IF Exceeds(risk, PathCeiling[ingress]) THEN "reject-path"
    ELSE IF risk = "hazardous" \/ Exceeds(risk, MaxRisk[ClassOf[actor]])
         THEN "approval" ELSE "allow"

(* AuthorityPolicy.may_approve: a human, and not the one who asked. *)
MayApprove(approver, requester) ==
    ClassOf[approver] = "user" /\ approver # requester

=============================================================================
