------------------------------ MODULE KeyLedger ------------------------------
(***************************************************************************)
(* What the token roster promises about mint keys: a key leaves the pool   *)
(* once, ends up assigned to a token or lost, and is spent at most once.   *)
(* TokenRoster implements it with two files and no transaction.            *)
(***************************************************************************)
CONSTANT TokenKeys

VARIABLES status, spent

Init ==
    /\ status = [k \in TokenKeys |-> "free"]
    /\ spent = {}

\* Every key in one state moves to another; drawn keys stay together.
Move(K, from, to) ==
    /\ K # {} /\ \A k \in K : status[k] = from
    /\ status' = [k \in TokenKeys |-> IF k \in K THEN to ELSE status[k]]
    /\ UNCHANGED spent

Drawn == {k \in TokenKeys : status[k] = "drawn"}

Draw == Drawn = {} /\ \E K \in SUBSET TokenKeys : Move(K, "free", "drawn")
Assign == Move(Drawn, "drawn", "assigned")
Lose == Move(Drawn, "drawn", "lost")

Spend(k) ==
    /\ status[k] = "assigned" /\ k \notin spent
    /\ spent' = spent \cup {k}
    /\ UNCHANGED status

Next == Draw \/ Assign \/ Lose \/ \E k \in TokenKeys : Spend(k)

Spec == Init /\ [][Next]_<<status, spent>>
=============================================================================
