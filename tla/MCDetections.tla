----------------------------- MODULE MCDetections -----------------------------
(***************************************************************************)
(* Model-checking instance of Detections: a rule of every type for one     *)
(* module, and a stale_data rule for a role that changes hands.            *)
(***************************************************************************)
EXTENDS Detections

CONSTANTS m1, m2, r1

MCModules == {m1, m2}
MCAbout == [r \in {r1} |-> m1]

MCRule(type, debounce, suppress, modules) ==
    [type |-> type, debounce |-> debounce, suppress |-> suppress, modules |-> modules]

MCRules ==
    {MCRule("threshold", d, s, {m1}) : d \in BOOLEAN, s \in BOOLEAN}
        \union {MCRule("health_flag", d, FALSE, {m1}) : d \in BOOLEAN}
        \union {MCRule(t, FALSE, FALSE, {m1}) : t \in {"quality_streak", "cal_overdue"}}
        \union {MCRule("stale_data", FALSE, FALSE, {m1, m2})}

=============================================================================
