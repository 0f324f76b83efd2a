--------------------------- MODULE NormalizeProofs ---------------------------
(***************************************************************************)
(* The normalizer's safety for every set of strings, every way to trim     *)
(* them and every response.                                                *)
(***************************************************************************)
EXTENDS Normalize, TLAPS

(* What the loop keeps true: the map holds exactly the ids of the list, and*)
(* both lists have grown from their start by as many turns as were made.   *)
LoopState ==
  /\ seen = {connections[k].connId : k \in 1 .. Len(connections)}
  /\ Len(raw.connections) <= Len(connections)
  /\ Len(accounts) <= Len(raw.accounts)

IInv == TypeOK /\ LoopState /\ SynthesizedOnce /\ OrgsResolve

(* The accounts that brought the connections synthesized so far, in order; *)
(* it comes on top of IInv, which says what the map holds.                 *)
IsFirst(first) ==
  /\ first \in [1 .. Len(connections) - Len(raw.connections) -> 1 .. Len(accounts)]
  /\ \A n \in 1 .. Len(connections) - Len(raw.connections) :
       connections[Len(raw.connections) + n] = Synthesized(raw.accounts[first[n]].org)
  /\ \A i \in 1 .. Len(accounts) :
       Brings(i) <=> \E n \in 1 .. Len(connections) - Len(raw.connections) : first[n] = i
  /\ \A m, n \in 1 .. Len(connections) - Len(raw.connections) : m < n => first[m] < first[n]

Prefixed == \A k \in 1 .. Len(raw.connections) : connections[k] = raw.connections[k]

USE BlankAssumption, TrimAssumption, MarksAssumption

-----------------------------------------------------------------------------

LEMMA RawType ==
  ASSUME TypeOK
  PROVE  /\ raw.connections \in Seq(Connections)
         /\ raw.accounts \in Seq(RawAccounts)
BY InputsAssumption DEF TypeOK, Responses

(* deriveConnID returns a string, and so does orgDisplayName.              *)
LEMMA SynthesizedType ==
  ASSUME NEW org \in Orgs
  PROVE  /\ DeriveConnID(org) \in Str
         /\ Synthesized(org) \in Connections
         /\ Synthesized(org).connId = DeriveConnID(org)
<1>1. org.id \in Str /\ org.domain \in Str /\ org.sfinUrl \in Str /\ org.name \in Str
  BY DEF Orgs
<1>2. DeriveConnID(org) \in Str
  BY <1>1 DEF DeriveConnID
<1>3. OrgDisplayName(org) \in Str
  BY <1>1 DEF OrgDisplayName
<1> QED
  BY <1>2, <1>3 DEF Synthesized, Connections

(* The turn of the loop that is due is at an account of the response.      *)
LEMMA CurrentType ==
  ASSUME TypeOK, Len(accounts) < Len(raw.accounts)
  PROVE  /\ Current \in RawAccounts
         /\ Current = raw.accounts[Len(accounts) + 1]
         /\ Len(accounts) \in Nat /\ Len(raw.accounts) \in Nat
<1>1. /\ raw.accounts \in Seq(RawAccounts)
      /\ Len(accounts) \in Nat /\ Len(raw.accounts) \in Nat
  BY RawType DEF TypeOK
<1> QED
  BY <1>1 DEF Current

(* What every turn does to the accounts.                                   *)
LEMMA KeepType ==
  ASSUME TypeOK, Len(accounts) < Len(raw.accounts), Keep(Current)
  PROVE  /\ accounts' \in Seq([connId : Str])
         /\ Len(accounts') = Len(accounts) + 1
         /\ \A i \in 1 .. Len(accounts) : accounts'[i] = accounts[i]
         /\ accounts'[Len(accounts) + 1].connId =
              IF Current.org # NoOrg /\ Current.connId = Blank
              THEN DeriveConnID(Current.org) ELSE Current.connId
<1> DEFINE a == [connId |-> IF Current.org # NoOrg /\ Current.connId = Blank
                            THEN DeriveConnID(Current.org) ELSE Current.connId]
<1>1. Current.connId \in Str /\ Current.org \in Orgs \cup {NoOrg}
  BY CurrentType DEF RawAccounts
<1>2. a \in [connId : Str]
  BY <1>1, SynthesizedType
<1>3. accounts' = Append(accounts, a)
  BY DEF Keep
<1>4. a.connId = IF Current.org # NoOrg /\ Current.connId = Blank
                 THEN DeriveConnID(Current.org) ELSE Current.connId
  OBVIOUS
<1> HIDE DEF a
<1> QED
  BY <1>2, <1>3, <1>4 DEF TypeOK

LEMMA InitIInv == Init => IInv
<1> SUFFICES ASSUME Init PROVE IInv
  OBVIOUS
<1>1. raw.connections \in Seq(Connections) /\ raw.accounts \in Seq(RawAccounts)
  BY InputsAssumption DEF Init, Responses
<1>2. \A k \in 1 .. Len(raw.connections) : raw.connections[k].connId \in Str
  <2>1. \A k \in 1 .. Len(raw.connections) : raw.connections[k] \in Connections
    BY <1>1
  <2> QED
    BY <2>1 DEF Connections
<1>3. TypeOK
  BY <1>1, <1>2 DEF Init, TypeOK
<1>4. LoopState
  BY <1>1 DEF Init, LoopState
<1>5. SynthesizedOnce
  BY <1>1 DEF Init, SynthesizedOnce
<1>6. OrgsResolve
  BY DEF Init, OrgsResolve
<1> QED
  BY <1>3, <1>4, <1>5, <1>6 DEF IInv

(* A turn that adds a connection, whose id is in no connection before it.  *)
LEMMA AddIInv == IInv /\ AddConnection => IInv'
<1> SUFFICES ASSUME IInv, AddConnection PROVE IInv'
  OBVIOUS
<1> DEFINE d == DeriveConnID(Current.org)
           s == Synthesized(Current.org)
<1>1. /\ Current.org \in Orgs /\ Current \in RawAccounts
      /\ Current = raw.accounts[Len(accounts) + 1]
      /\ Len(accounts) \in Nat /\ Len(raw.accounts) \in Nat
      /\ raw.connections \in Seq(Connections)
      /\ raw.accounts \in Seq(RawAccounts)
  BY CurrentType, RawType DEF IInv, AddConnection, RawAccounts
<1>2. d \in Str /\ s \in Connections /\ s.connId = d
  BY <1>1, SynthesizedType
<1>3. /\ connections' = Append(connections, s) /\ seen' = seen \cup {d}
      /\ d \notin seen /\ d # Blank /\ raw' = raw
      /\ Len(accounts) < Len(raw.accounts) /\ Keep(Current)
  BY DEF AddConnection
<1> HIDE DEF d, s
<1>4. /\ Len(connections) \in Nat /\ Len(connections') = Len(connections) + 1
      /\ \A k \in 1 .. Len(connections) : connections'[k] = connections[k]
      /\ connections'[Len(connections) + 1] = s
      /\ connections' \in Seq(Connections)
  BY <1>2, <1>3 DEF IInv, TypeOK
<1>5. /\ accounts' \in Seq([connId : Str])
      /\ Len(accounts') = Len(accounts) + 1
      /\ \A i \in 1 .. Len(accounts) : accounts'[i] = accounts[i]
      /\ accounts'[Len(accounts) + 1].connId =
           IF Current.org # NoOrg /\ Current.connId = Blank THEN d ELSE Current.connId
  BY <1>3, KeepType DEF IInv, d
<1>6. TypeOK'
  BY <1>2, <1>3, <1>4, <1>5 DEF IInv, TypeOK
<1>7. LoopState'
  <2>1. seen' = {connections'[k].connId : k \in 1 .. Len(connections')}
    BY <1>2, <1>3, <1>4 DEF IInv, LoopState
  <2>2. Len(raw.connections) \in Nat /\ Len(raw.connections) <= Len(connections)
    BY <1>1 DEF IInv, LoopState
  <2>3. Len(raw'.connections) <= Len(connections') /\ Len(accounts') <= Len(raw'.accounts)
    BY <1>1, <1>3, <1>4, <1>5, <2>2
  <2> QED
    BY <2>1, <2>3 DEF LoopState
<1>8. SynthesizedOnce'
  <2>1. \A j \in 1 .. Len(connections) : connections[j].connId # d
    BY <1>3 DEF IInv, LoopState
  <2> QED
    BY <1>1, <1>2, <1>3, <1>4, <2>1 DEF IInv, SynthesizedOnce
<1>9. OrgsResolve'
  <2>0. /\ DOMAIN accounts = 1 .. Len(accounts) /\ DOMAIN connections = 1 .. Len(connections)
        /\ DOMAIN accounts' = 1 .. Len(accounts')
        /\ DOMAIN connections' = 1 .. Len(connections')
    BY <1>4, <1>5 DEF IInv, TypeOK
  <2> SUFFICES ASSUME NEW i \in 1 .. Len(accounts'),
                      raw.accounts[i].org # NoOrg,
                      DeriveConnID(raw.accounts[i].org) # Blank
               PROVE  /\ \E k \in 1 .. Len(connections') :
                           connections'[k].connId = DeriveConnID(raw.accounts[i].org)
                      /\ raw.accounts[i].connId = Blank =>
                           accounts'[i].connId = DeriveConnID(raw.accounts[i].org)
    BY <1>3, <2>0 DEF OrgsResolve
  <2>1. CASE i \in 1 .. Len(accounts)
    <3>1. /\ \E k \in 1 .. Len(connections) :
               connections[k].connId = DeriveConnID(raw.accounts[i].org)
          /\ raw.accounts[i].connId = Blank =>
               accounts[i].connId = DeriveConnID(raw.accounts[i].org)
      BY <2>0, <2>1 DEF IInv, OrgsResolve
    <3> QED
      BY <1>4, <1>5, <2>1, <3>1
  <2>2. CASE i = Len(accounts) + 1
    <3>1. raw.accounts[i] = Current /\ DeriveConnID(raw.accounts[i].org) = d
      BY <1>1, <2>2 DEF d
    <3>2. \E k \in 1 .. Len(connections') : connections'[k].connId = d
      BY <1>2, <1>4
    <3>3. raw.accounts[i].connId = Blank => accounts'[i].connId = d
      BY <1>2, <1>5, <2>2, <3>1
    <3> QED
      BY <3>1, <3>2, <3>3
  <2> QED
    BY <1>1, <1>5, <2>1, <2>2
<1> QED
  BY <1>6, <1>7, <1>8, <1>9 DEF IInv

(* A turn that adds none: the org's id, if it has one, is in the map.      *)
LEMMA NextAccountIInv == IInv /\ NextAccount => IInv'
<1> SUFFICES ASSUME IInv, NextAccount PROVE IInv'
  OBVIOUS
<1>1. /\ Current = raw.accounts[Len(accounts) + 1]
      /\ Len(accounts) \in Nat /\ Len(raw.accounts) \in Nat
      /\ Current.org # NoOrg => DeriveConnID(Current.org) \in seen \cup {Blank}
  BY CurrentType DEF IInv, NextAccount
<1>2. UNCHANGED <<raw, connections, seen>> /\ Len(accounts) < Len(raw.accounts)
  BY DEF NextAccount
<1>3. /\ accounts' \in Seq([connId : Str])
      /\ Len(accounts') = Len(accounts) + 1
      /\ \A i \in 1 .. Len(accounts) : accounts'[i] = accounts[i]
      /\ accounts'[Len(accounts) + 1].connId =
           IF Current.org # NoOrg /\ Current.connId = Blank
           THEN DeriveConnID(Current.org) ELSE Current.connId
  BY <1>2, KeepType DEF IInv, NextAccount
<1>4. TypeOK' /\ LoopState' /\ SynthesizedOnce'
  BY <1>1, <1>2, <1>3 DEF IInv, TypeOK, LoopState, SynthesizedOnce
<1>5. OrgsResolve'
  <2> SUFFICES ASSUME NEW i \in 1 .. Len(accounts'),
                      raw.accounts[i].org # NoOrg,
                      DeriveConnID(raw.accounts[i].org) # Blank
               PROVE  /\ \E k \in 1 .. Len(connections) :
                           connections[k].connId = DeriveConnID(raw.accounts[i].org)
                      /\ raw.accounts[i].connId = Blank =>
                           accounts'[i].connId = DeriveConnID(raw.accounts[i].org)
    BY <1>2, <1>3 DEF IInv, TypeOK, OrgsResolve
  <2>1. CASE i \in 1 .. Len(accounts)
    <3>1. /\ \E k \in 1 .. Len(connections) :
                connections[k].connId = DeriveConnID(raw.accounts[i].org)
          /\ raw.accounts[i].connId = Blank =>
                accounts[i].connId = DeriveConnID(raw.accounts[i].org)
      BY <2>1 DEF IInv, OrgsResolve
    <3>2. accounts'[i] = accounts[i]
      BY <1>3, <2>1
    <3> QED
      BY <3>1, <3>2
  <2>2. CASE i = Len(accounts) + 1
    BY <1>1, <1>3, <2>2 DEF IInv, LoopState
  <2> QED
    BY <1>1, <1>3, <2>1, <2>2
<1> QED
  BY <1>4, <1>5 DEF IInv

LEMMA InductiveIInv == Spec => []IInv
<1>1. IInv /\ [Next]_vars => IInv'
  <2>1. IInv /\ UNCHANGED vars => IInv'
    BY DEF vars, IInv, TypeOK, LoopState, SynthesizedOnce, OrgsResolve
  <2> QED
    BY <2>1, AddIInv, NextAccountIInv DEF Next
<1> QED
  BY InitIInv, <1>1, PTL DEF Spec

-----------------------------------------------------------------------------

(* The lists stay lists of accounts and connections.                       *)
THEOREM TypeCorrect == Spec => []TypeOK
BY InductiveIInv, PTL DEF IInv

(* normalizeAccountSet never synthesizes a connection without an id, nor   *)
(* one whose id a connection before it has.                                *)
THEOREM OneConnectionPerId == Spec => []SynthesizedOnce
BY InductiveIInv, PTL DEF IInv

(* normalizeAccountSet leaves no org with a derivable id without a         *)
(* connection, and no account of it without that id.                       *)
THEOREM OrgsAreResolved == Spec => []OrgsResolve
BY InductiveIInv, PTL DEF IInv

-----------------------------------------------------------------------------
(* What the connections say.                                               *)

(* The property in the terms of these proofs.                              *)
LEMMA DecidesForm ==
  ASSUME TypeOK
  PROVE  FirstAccountDecides <=> Prefixed /\ \E first : IsFirst(first)
<1>1. DOMAIN accounts = 1 .. Len(accounts)
  BY DEF TypeOK
<1> QED
  BY <1>1 DEF FirstAccountDecides, IsFirst, Prefixed

(* The account the loop is at brings a connection if and only if its org   *)
(* has an id that the map does not hold: the map has all that the response *)
(* and the earlier accounts brought, and nothing else.                     *)
LEMMA BringsNew ==
  ASSUME IInv, Len(accounts) < Len(raw.accounts), Prefixed,
         NEW first, IsFirst(first)
  PROVE  Brings(Len(accounts) + 1) <=>
           Current.org # NoOrg /\ DeriveConnID(Current.org) \notin seen \cup {Blank}
<1> DEFINE d == DeriveConnID(Current.org)
           N == Len(accounts)
<1>1. /\ Current = raw.accounts[N + 1] /\ N \in Nat
      /\ raw.connections \in Seq(Connections) /\ raw.accounts \in Seq(RawAccounts)
      /\ Len(raw.connections) \in Nat /\ Len(connections) \in Nat
      /\ Len(raw.connections) <= Len(connections)
      /\ DOMAIN connections = 1 .. Len(connections)
      /\ DOMAIN accounts = 1 .. N
      /\ DOMAIN raw.connections = 1 .. Len(raw.connections)
  BY CurrentType, RawType DEF IInv, TypeOK, LoopState
<1>2. seen = {connections[k].connId : k \in 1 .. Len(connections)}
  BY DEF IInv, LoopState
<1>3. ASSUME Current.org # NoOrg, d # Blank, d \notin seen PROVE Brings(N + 1)
  <2>1. \A k \in DOMAIN raw.connections : raw.connections[k].connId # d
    BY <1>1, <1>2, <1>3 DEF Prefixed
  <2>2. ASSUME NEW j \in 1 .. N, raw.accounts[j].org # NoOrg
        PROVE  DeriveConnID(raw.accounts[j].org) # d
    <3>1. DeriveConnID(raw.accounts[j].org) # Blank =>
            \E k \in 1 .. Len(connections) :
              connections[k].connId = DeriveConnID(raw.accounts[j].org)
      BY <1>1, <2>2 DEF IInv, OrgsResolve
    <3> QED
      BY <1>2, <1>3, <3>1
  <2>3. (N + 1) - 1 = N
    BY <1>1
  <2> QED
    BY <1>1, <1>3, <2>1, <2>2, <2>3 DEF Brings
<1>4. ASSUME Brings(N + 1), d \in seen PROVE FALSE
  <2>1. PICK k \in 1 .. Len(connections) : connections[k].connId = d
    BY <1>2, <1>4
  <2>2. \A j \in 1 .. N : raw.accounts[j].org # NoOrg => DeriveConnID(raw.accounts[j].org) # d
    <3>1. (N + 1) - 1 = N
      BY <1>1
    <3> QED
      BY <1>1, <1>4, <3>1 DEF Brings
  <2>3. CASE k <= Len(raw.connections)
    <3>1. k \in DOMAIN raw.connections /\ raw.connections[k].connId = d
      BY <1>1, <2>1, <2>3 DEF Prefixed
    <3> QED
      BY <1>1, <1>4, <3>1 DEF Brings
  <2>4. CASE k > Len(raw.connections)
    <3> DEFINE n == k - Len(raw.connections)
               made == Len(connections) - Len(raw.connections)
    <3>1. n \in 1 .. made /\ Len(raw.connections) + n = k
      BY <1>1, <2>4
    <3>2. /\ first[n] \in 1 .. N
          /\ connections[k] = Synthesized(raw.accounts[first[n]].org)
          /\ Brings(first[n])
      <4>1. first[n] \in 1 .. N
        BY <3>1 DEF IsFirst
      <4>2. connections[Len(raw.connections) + n] = Synthesized(raw.accounts[first[n]].org)
        BY <3>1 DEF IsFirst
      <4>3. Brings(first[n])
        BY <3>1, <4>1 DEF IsFirst
      <4> QED
        BY <3>1, <4>1, <4>2, <4>3
    <3>3. raw.accounts[first[n]].org # NoOrg
      BY <3>2 DEF Brings
    <3>4. connections[k].connId = DeriveConnID(raw.accounts[first[n]].org)
      BY <3>2 DEF Synthesized
    <3> QED
      BY <2>1, <2>2, <3>2, <3>3, <3>4
  <2> QED
    BY <1>1, <2>1, <2>3, <2>4
<1>5. Brings(N + 1) => Current.org # NoOrg /\ d # Blank
  BY <1>1 DEF Brings
<1> QED
  BY <1>3, <1>4, <1>5

LEMMA InitDecides == Init => FirstAccountDecides
<1> SUFFICES ASSUME Init PROVE FirstAccountDecides
  OBVIOUS
<1>1. TypeOK /\ raw.connections \in Seq(Connections)
  BY InitIInv, RawType DEF IInv
<1>2. Len(connections) - Len(raw.connections) = 0 /\ Len(accounts) = 0
  BY <1>1 DEF Init
<1>3. IsFirst([n \in {} |-> 0])
  <2>1. 1 .. Len(connections) - Len(raw.connections) = {} /\ 1 .. Len(accounts) = {}
    BY <1>2
  <2> QED
    BY <2>1 DEF IsFirst
<1>4. Prefixed
  BY DEF Init, Prefixed
<1> QED
  BY <1>1, <1>3, <1>4, DecidesForm

(* A turn that adds a connection adds its account to those that decide.    *)
LEMMA AddDecides == IInv /\ FirstAccountDecides /\ AddConnection => FirstAccountDecides'
<1> SUFFICES ASSUME IInv, FirstAccountDecides, AddConnection PROVE FirstAccountDecides'
  OBVIOUS
<1>1. TypeOK /\ TypeOK'
  BY AddIInv DEF IInv
<1>2. PICK first : Prefixed /\ IsFirst(first)
  BY <1>1, DecidesForm
<1> DEFINE N == Len(accounts)
           sent == Len(raw.connections)
           made == Len(connections) - sent
<1>3. /\ N \in Nat /\ sent \in Nat /\ made \in Nat /\ Len(connections) = sent + made
      /\ Current = raw.accounts[N + 1]
  BY CurrentType, RawType DEF IInv, TypeOK, LoopState, AddConnection
<1>4. /\ raw' = raw /\ Len(accounts') = N + 1
      /\ Len(connections') = Len(connections) + 1
      /\ \A k \in 1 .. Len(connections) : connections'[k] = connections[k]
      /\ connections'[Len(connections) + 1] = Synthesized(Current.org)
  <2>1. Current.org \in Orgs
    BY CurrentType DEF IInv, AddConnection, RawAccounts
  <2>2. Synthesized(Current.org) \in Connections
    BY <2>1, SynthesizedType
  <2>3. Len(accounts') = N + 1
    BY KeepType DEF IInv, AddConnection
  <2> QED
    BY <2>2, <2>3, <1>1 DEF AddConnection, TypeOK
<1>5. Brings(N + 1)
  BY <1>2, BringsNew DEF AddConnection
<1>6. Prefixed'
  BY <1>2, <1>3, <1>4 DEF Prefixed
<1>7. Len(connections') - Len(raw'.connections) = made + 1
  BY <1>3, <1>4
<1>8. first \in [1 .. made -> 1 .. N]
  BY <1>2 DEF IsFirst
<1>0. PICK later : later = [n \in 1 .. made + 1 |-> IF n = made + 1 THEN N + 1 ELSE first[n]]
  OBVIOUS
<1> HIDE DEF N, sent, made
<1>9. later \in [1 .. made + 1 -> 1 .. N + 1]
  BY <1>0, <1>3, <1>8
<1>10. \A n \in 1 .. made : later[n] = first[n] /\ first[n] \in 1 .. N
  BY <1>0, <1>3, <1>8
<1>11. later[made + 1] = N + 1
  BY <1>0, <1>3
<1>12. ASSUME NEW n \in 1 .. made + 1
       PROVE  connections'[sent + n] = Synthesized(raw.accounts[later[n]].org)
  <2>1. CASE n \in 1 .. made
    <3>1. connections[sent + n] = Synthesized(raw.accounts[first[n]].org)
      BY <1>2, <2>1 DEF IsFirst, N, sent, made
    <3>2. sent + n \in 1 .. Len(connections)
      BY <1>3, <2>1
    <3> QED
      BY <1>4, <1>10, <2>1, <3>1, <3>2
  <2>2. CASE n = made + 1
    <3>1. sent + n = Len(connections) + 1
      BY <1>3, <2>2
    <3> QED
      BY <1>3, <1>4, <1>11, <2>2, <3>1
  <2> QED
    BY <1>3, <2>1, <2>2
<1>13. ASSUME NEW i \in 1 .. N + 1
       PROVE  Brings(i) <=> \E n \in 1 .. made + 1 : later[n] = i
  <2>1. CASE i \in 1 .. N
    <3>1. Brings(i) <=> \E n \in 1 .. made : first[n] = i
      BY <1>2, <2>1 DEF IsFirst, N, sent, made
    <3>2. (\E n \in 1 .. made : first[n] = i) <=> \E n \in 1 .. made + 1 : later[n] = i
      BY <1>3, <1>10, <1>11, <2>1
    <3> QED
      BY <3>1, <3>2
  <2>2. CASE i = N + 1
    <3>1. made + 1 \in 1 .. made + 1
      BY <1>3
    <3> QED
      BY <1>5, <1>11, <2>2, <3>1
  <2> QED
    BY <1>3, <2>1, <2>2
<1>14. ASSUME NEW m \in 1 .. made + 1, NEW n \in 1 .. made + 1, m < n
       PROVE  later[m] < later[n]
  <2>1. m \in 1 .. made
    BY <1>3, <1>14
  <2>2. CASE n \in 1 .. made
    <3>1. first[m] < first[n]
      BY <1>2, <1>14, <2>1, <2>2 DEF IsFirst, sent, made
    <3> QED
      BY <1>10, <2>1, <2>2, <3>1
  <2>3. CASE n = made + 1
    <3>1. first[m] \in 1 .. N
      BY <1>10, <2>1
    <3> QED
      BY <1>3, <1>10, <1>11, <2>1, <2>3, <3>1
  <2> QED
    BY <1>3, <2>2, <2>3
<1>15. \A i : Brings(i)' <=> Brings(i)
  BY <1>4 DEF Brings
<1>16. IsFirst(later)'
  BY <1>4, <1>7, <1>9, <1>12, <1>13, <1>14, <1>15 DEF IsFirst, sent
<1>17. DOMAIN accounts' = 1 .. Len(accounts')
  BY <1>1 DEF TypeOK
<1> QED
  BY <1>6, <1>16, <1>17 DEF FirstAccountDecides, IsFirst, Prefixed

(* A turn that adds none is at an account that brings nothing.             *)
LEMMA NextAccountDecides == IInv /\ FirstAccountDecides /\ NextAccount => FirstAccountDecides'
<1> SUFFICES ASSUME IInv, FirstAccountDecides, NextAccount PROVE FirstAccountDecides'
  OBVIOUS
<1>1. TypeOK /\ TypeOK'
  BY NextAccountIInv DEF IInv
<1>2. PICK first : Prefixed /\ IsFirst(first)
  BY <1>1, DecidesForm
<1> DEFINE N == Len(accounts)
           made == Len(connections) - Len(raw.connections)
<1>3. N \in Nat /\ made \in Nat
  BY RawType DEF IInv, TypeOK, LoopState
<1>4. raw' = raw /\ connections' = connections /\ Len(accounts') = N + 1
  BY KeepType DEF IInv, NextAccount
<1>5. ~Brings(N + 1)
  BY <1>2, BringsNew DEF NextAccount
<1>6. Prefixed'
  BY <1>2, <1>4 DEF Prefixed
<1>7. first \in [1 .. made -> 1 .. N]
  BY <1>2 DEF IsFirst
<1>8. first \in [1 .. made -> 1 .. N + 1] /\ \A n \in 1 .. made : first[n] # N + 1
  BY <1>3, <1>7
<1>9. \A i \in 1 .. N + 1 : Brings(i) <=> \E n \in 1 .. made : first[n] = i
  <2>1. \A i \in 1 .. N : Brings(i) <=> \E n \in 1 .. made : first[n] = i
    BY <1>2 DEF IsFirst
  <2> QED
    BY <1>3, <1>5, <1>8, <2>1
<1>10. \A i : Brings(i)' <=> Brings(i)
  BY <1>4 DEF Brings
<1>11. /\ \A n \in 1 .. made :
            connections[Len(raw.connections) + n] = Synthesized(raw.accounts[first[n]].org)
       /\ \A m, n \in 1 .. made : m < n => first[m] < first[n]
  BY <1>2 DEF IsFirst
<1>12. IsFirst(first)'
  BY <1>4, <1>8, <1>9, <1>10, <1>11 DEF IsFirst
<1>13. DOMAIN accounts' = 1 .. Len(accounts')
  BY <1>1 DEF TypeOK
<1> QED
  BY <1>6, <1>12, <1>13 DEF FirstAccountDecides, IsFirst, Prefixed

(* normalizeAccountSet's connections are those that were sent and behind   *)
(* them, in the order of the accounts, one for each account that is the    *)
(* first of its org, saying what this account's org says.                  *)
THEOREM FirstAccountsDecide == Spec => []FirstAccountDecides
<1>1. IInv /\ FirstAccountDecides /\ [Next]_vars => FirstAccountDecides'
  <2>1. FirstAccountDecides /\ UNCHANGED vars => FirstAccountDecides'
    <3> SUFFICES ASSUME FirstAccountDecides, UNCHANGED vars PROVE FirstAccountDecides'
      OBVIOUS
    <3>1. raw' = raw /\ connections' = connections /\ accounts' = accounts
      BY DEF vars
    <3>2. \A i : Brings(i)' <=> Brings(i)
      BY <3>1 DEF Brings
    <3> QED
      BY <3>1, <3>2 DEF FirstAccountDecides
  <2> QED
    BY <2>1, AddDecides, NextAccountDecides DEF Next
<1> QED
  BY InductiveIInv, InitDecides, <1>1, PTL DEF Spec
=============================================================================
