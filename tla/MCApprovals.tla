------------------------------ MODULE MCApprovals ------------------------------
(***************************************************************************)
(* Model-checking instances of Approvals: two humans and an agent, with the *)
(* default matrix of policy.py.                                            *)
(***************************************************************************)
EXTENDS Approvals

CONSTANTS alice, bob, agent

MCActors == {alice, bob, agent}
MCClassOf ==
    [a \in MCActors |->
        CASE a \in {alice, bob} -> "user"
          [] a = agent -> "agent"]

(* DEFAULT_AUTHORITY and DEFAULT_PATH_CEILINGS. *)
MCMaxRisk ==
    [user |-> "disruptive", agent |-> "routine",
     system |-> "disruptive", plc |-> "routine"]
MCPathCeiling ==
    [local |-> "hazardous", ot |-> "routine",
     cloud |-> "disruptive", cellular |-> "routine"]

=============================================================================
