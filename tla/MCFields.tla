------------------------------ MODULE MCFields ------------------------------
EXTENDS Fields

MCKeys == {"posted", "Posted", "amount", "org", "memo"}
MCFold == [k \in MCKeys |-> IF k = "Posted" THEN "posted" ELSE k]
MCValues == {"n1", "n2", "t1"}
MCTakes == [posted |-> {"n1", "n2"}, amount |-> {"t1"}]

(* Every object of up to three members.                                    *)
MCObjects == UNION {[1 .. n -> Members] : n \in 0 .. 3}
=============================================================================
