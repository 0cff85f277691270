----------------------------- MODULE CommandPromise -----------------------------
(***************************************************************************)
(* What the hub promises the submitter of a command, and nothing of how:   *)
(* the life of a command as the result envelopes in its evidence tell it.  *)
(*                                                                         *)
(*   new --> asked --> undelivered                                         *)
(*                 \-> answered  --\                                       *)
(*                 \-> lost       --> twice                                *)
(*                                                                         *)
(* A command the module never got is final.  A command the module got is   *)
(* answered by the module at most once and given up by the hub at most     *)
(* once, and both happen only when a connection was lost in between.       *)
(***************************************************************************)
CONSTANT Commands

VARIABLE life

Init == life = [c \in Commands |-> "new"]

(* The command envelope is stored. *)
Ask(c) ==
    /\ life[c] = "new"
    /\ life' = [life EXCEPT ![c] = "asked"]

(* The hub could not send it: the submitter gets the one result there is. *)
Undeliverable(c) ==
    /\ life[c] = "asked"
    /\ life' = [life EXCEPT ![c] = "undelivered"]

(* The module's own verdict arrives, late ones included. *)
Answer(c) ==
    \/ /\ life[c] = "asked"
       /\ life' = [life EXCEPT ![c] = "answered"]
    \/ /\ life[c] = "lost"
       /\ life' = [life EXCEPT ![c] = "twice"]

(* A connection ends and the commands in flight on it are given up. *)
GiveUp(batch) ==
    /\ batch # {}
    /\ \A c \in batch : life[c] \in {"asked", "answered"}
    /\ life' = [c \in Commands |->
                    IF c \notin batch THEN life[c]
                    ELSE IF life[c] = "asked" THEN "lost" ELSE "twice"]

Next ==
    \/ \E c \in Commands : Ask(c) \/ Undeliverable(c) \/ Answer(c)
    \/ \E batch \in SUBSET Commands : GiveUp(batch)

Spec == Init /\ [][Next]_life

=============================================================================
