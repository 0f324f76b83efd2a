----------------------------- MODULE MCNormalize -----------------------------
EXTENDS Normalize

MCStr == {"", " ", "a", " a", "b", "n"}

MCTrim == [s \in MCStr |-> CASE s = " " -> "" [] s = " a" -> "a" [] OTHER -> s]

(* Orgs with every field deciding in turn, two that share an id and differ *)
(* in name, two that share it once trimmed, and one with a name alone.     *)
MCOrgs ==
  {[id |-> i, domain |-> d, sfinUrl |-> u, name |-> m] :
     <<i, d, u, m>> \in
       {<<"a", "", "", "n">>, <<" a", "", "", "b">>, <<"a", "b", "", "">>,
        <<" ", "a", "b", "">>, <<"", "b", "", "n">>, <<"", "", "b", "n">>,
        <<"", " ", "", "n">>}}

Wire(id) == [connId |-> id, name |-> "n", of |-> Sent]

UpTo(n, S) == UNION {[1..k -> S] : k \in 0..n}

(* Up to three accounts, with and without an id of their own, after up to  *)
(* one connection the server sent (" a" is an id that is not trimmed).     *)
MCInputs ==
  [connections : UpTo(1, {Wire("a"), Wire(" a"), Wire("b")}),
   accounts : UpTo(3, [connId : {"", "a"}, org : MCOrgs \cup {NoOrg}])]
=============================================================================
