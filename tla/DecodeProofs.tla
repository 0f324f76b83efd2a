---------------------------- MODULE DecodeProofs ----------------------------
(***************************************************************************)
(* The two decoders agree on every conforming response, whatever the set   *)
(* of responses: proofs about Decode.                                      *)
(***************************************************************************)
EXTENDS Decode, TLAPS

OrdinaryEntry(e) ==
  /\ e.form # "null"
  /\ e.form = "object" => {e.msg, e.message, e.description} \cap {"empty", "wrong"} = {}
  /\ ShownAsJSON(e) => e.spelling = "plain"

(* Where the messages are strings that are not empty, firstNonEmpty and the *)
(* chain of ?? choose the same one.                                        *)
LEMMA SameMessage ==
  ASSUME NEW e \in Entries, e.form = "object", OrdinaryEntry(e)
  PROVE  GoMessage(e) = NodeMessage(e) /\ NodeMessage(e) # "throws"
<1> DEFINE Kept == {"absent", "null", "text"}
<1>0. /\ e.msg \notin {"empty", "wrong"}
      /\ e.message \notin {"empty", "wrong"}
      /\ e.description \notin {"empty", "wrong"}
  BY DEF OrdinaryEntry
<1>1. e.msg \in Kept /\ e.message \in Kept /\ e.description \in Kept
  BY <1>0, SMT DEF Entries, MsgKinds
<1>2. CASE e.msg = "text"
  BY <1>1, <1>2, SMT DEF GoMessage, NodeMessage, OptStr
<1>3. CASE e.msg # "text" /\ e.message = "text"
  BY <1>1, <1>3, SMT DEF GoMessage, NodeMessage, OptStr
<1>4. CASE e.msg # "text" /\ e.message # "text" /\ e.description = "text"
  BY <1>1, <1>4, SMT DEF GoMessage, NodeMessage, OptStr
<1>5. CASE e.msg # "text" /\ e.message # "text" /\ e.description # "text"
  <2>1. GoMessage(e) = "json"
    <3>1. e.spelling = "plain"
      BY <1>5 DEF OrdinaryEntry, ShownAsJSON
    <3> QED
      BY <1>5, <3>1, SMT DEF GoMessage, CompactJSON
  <2>2. {e.msg, e.message, e.description} \subseteq {"absent", "null"}
    BY <1>1, <1>5
  <2>3. NodeMessage(e) = "json"
    BY <2>2, SMT DEF NodeMessage
  <2> QED
    BY <2>1, <2>3
<1> QED
  BY <1>2, <1>3, <1>4, <1>5

(* Both decoders make the same Error of such an entry, and Node does not   *)
(* throw.                                                                  *)
LEMMA SameError ==
  ASSUME NEW e \in Entries, OrdinaryEntry(e)
  PROVE  GoError(e) = NodeError(e) /\ NodeError(e).msg # "throws"
<1>1. e.form \in {"string", "object", "other"}
  BY SMT DEF OrdinaryEntry, Entries
<1>2. CASE e.form = "string"
  <2> DEFINE m == IF e.msg = "text" THEN "msg" ELSE ""
  <2>1. GoError(e) = [code |-> General, msg |-> m]
    BY <1>2, SMT DEF GoError
  <2>2. NodeError(e) = [code |-> General, msg |-> m]
    BY <1>2, SMT DEF NodeError
  <2>3. m # "throws"
    OBVIOUS
  <2> HIDE DEF m
  <2> QED
    BY <2>1, <2>2, <2>3
<1>3. CASE e.form = "object"
  <2>1. GoError(e) = [code |-> EntryCode(e), msg |-> GoMessage(e)]
    BY <1>3, SMT DEF GoError
  <2>2. NodeError(e) = [code |-> EntryCode(e), msg |-> NodeMessage(e)]
    BY <1>3, SMT DEF NodeError
  <2> QED
    BY <1>3, <2>1, <2>2, SameMessage
<1>4. CASE e.form = "other"
  <2>1. CompactJSON(e) = "json"
    BY <1>4 DEF OrdinaryEntry, ShownAsJSON, CompactJSON
  <2>2. NodeError(e) = [code |-> General, msg |-> "json"]
    BY <1>4, SMT DEF NodeError
  <2> QED
    BY <1>4, <2>1, <2>2, SMT DEF GoError
<1> QED
  BY <1>1, <1>2, <1>3, <1>4

(* A list of entries is a sequence of them.                                *)
LEMMA UsedType ==
  ASSUME NEW p \in PayloadType
  PROVE  Used(p) \in Seq(Entries)
BY SMT DEF PayloadType, Lists, Used

(* The two decoders have the same outcome on a conforming response.        *)
LEMMA SameOutcome ==
  ASSUME NEW p \in PayloadType, Conforming(p)
  PROVE  GoOutcome(p) = NodeOutcome(p)
<1>1. \A i \in 1 .. Len(Used(p)) :
        /\ Used(p)[i] \in Entries
        /\ GoError(Used(p)[i]) = NodeError(Used(p)[i])
        /\ NodeError(Used(p)[i]).msg # "throws"
  <2> TAKE i \in 1 .. Len(Used(p))
  <2>1. Used(p)[i] \in Entries
    BY UsedType
  <2>2. OrdinaryEntry(Used(p)[i])
    BY DEF Conforming, OrdinaryEntry
  <2> QED
    BY <2>1, <2>2, SameError
<1>2. GoErrors(p) = NodeErrors(p)
  BY <1>1, Zenon DEF GoErrors, NodeErrors
<1>3. \A t \in FieldTypes : p.fields[t] \in GoTakes(t) <=> p.fields[t] \in NodeTakes(t)
  <2> TAKE t \in FieldTypes
  <2>1. CASE t = "epoch"
    BY <2>1, SMT DEF Conforming, GoTakes, NodeTakes
  <2>2. CASE t # "epoch"
    BY <2>2, SMT DEF FieldTypes, GoTakes, NodeTakes
  <2> QED
    BY <2>1, <2>2
<1>4. /\ p.org \in GoTakes("record")
      /\ p.errors.kind \in GoTakes("list") /\ p.errors.kind \in NodeTakes("list")
      /\ p.errlist.kind \in GoTakes("list") <=> p.errlist.kind \in NodeTakes("list")
  BY SMT DEF Conforming, GoTakes, NodeTakes
<1> QED
  BY <1>1, <1>2, <1>3, <1>4, Zenon DEF GoOutcome, NodeOutcome

-----------------------------------------------------------------------------

(* What each decoder has left is the outcome of this very response.        *)
IInv ==
  /\ payload \in PayloadType
  /\ go \in {Pending, GoOutcome(payload)}
  /\ node \in {Pending, NodeOutcome(payload)}

LEMMA OutcomesDecided ==
  ASSUME NEW p \in PayloadType
  PROVE  GoOutcome(p).verdict # "pending" /\ NodeOutcome(p).verdict # "pending"
BY SMT DEF GoOutcome, NodeOutcome, Accepted, Rejected

(* Each decoder decides once, on the response it was given.                *)
LEMMA Inductive == Spec => []IInv
<1>1. Init => IInv
  BY PayloadsAssumption DEF Init, IInv
<1>2. IInv /\ [Next]_vars => IInv'
  BY DEF IInv, Next, GoDecodes, NodeDecodes, vars
<1> QED
  BY <1>1, <1>2, PTL DEF Spec

(* However the two decodes interleave, when both are done with a conforming*)
(* response they agree on the verdict, and on the code and the message of  *)
(* every error (ParseAccountSet, normalizeAccountSet).                     *)
THEOREM DecodersAgree == Spec => []SameOutcomeIfConforming
<1>1. IInv => SameOutcomeIfConforming
  <2> SUFFICES ASSUME IInv, Decoded, Conforming(payload)
               PROVE  go = node
    BY DEF SameOutcomeIfConforming
  <2>1. go # Pending /\ node # Pending
    BY DEF Decoded, Pending
  <2> QED
    BY <2>1, SameOutcome DEF IInv
<1> QED
  BY <1>1, Inductive, PTL

-----------------------------------------------------------------------------

CodeType == [prefix : Words, sub : Words]

Handled(c) == c \in KnownCodes \/ c.prefix \notin Prefixes

(* The general code and the naked codes are known.                         *)
LEMMA NakedKnown ==
  /\ General \in KnownCodes /\ General \in CodeType
  /\ \A p \in Prefixes : Code(p, "") \in KnownCodes
<1>1. \A p \in Prefixes : Code(p, "") \in KnownCodes
  BY DEF KnownCodes, Prefixes
<1>2. General \in KnownCodes
  BY <1>1 DEF General, Prefixes
<1>3. General \in CodeType
  BY WordsAssumption DEF General, Code, CodeType
<1> QED
  BY <1>1, <1>2, <1>3

(* The fallback gives a code that is handled, in the layer of the first.   *)
LEMMA NormalizedHandled ==
  ASSUME NEW c \in CodeType
  PROVE  /\ Normalized(c) \in CodeType /\ Handled(Normalized(c))
         /\ Normalized(c).prefix = c.prefix
<1>1. CASE c \in KnownCodes \/ c.prefix \notin Prefixes
  BY <1>1 DEF Normalized, Handled
<1>2. CASE ~(c \in KnownCodes \/ c.prefix \notin Prefixes)
  <2>1. Normalized(c) = Code(c.prefix, "") /\ c.prefix \in Prefixes
    BY <1>2 DEF Normalized
  <2>2. Code(c.prefix, "").prefix = c.prefix
    BY DEF Code
  <2>3. Code(c.prefix, "") \in CodeType
    BY WordsAssumption DEF Code, CodeType
  <2> QED
    BY <2>1, <2>2, <2>3, NakedKnown DEF Handled
<1> QED
  BY <1>1, <1>2

(* So does the code of an entry, and a known one is kept.                  *)
LEMMA EntryCodeHandled ==
  ASSUME NEW e \in Entries
  PROVE  /\ EntryCode(e) \in CodeType /\ Handled(EntryCode(e))
         /\ e.code # NoCode => EntryCode(e).prefix = e.code.prefix
         /\ e.code \in KnownCodes => EntryCode(e) = e.code
<1>0. NoCode \notin KnownCodes
  <2>1. NoCode.prefix = "" /\ \A c \in KnownCodes : c.prefix \in Prefixes
    BY DEF NoCode, Code, KnownCodes, Prefixes
  <2> QED
    BY <2>1 DEF Prefixes
<1>1. e.code \in CodeType
  BY DEF Entries, CodeType
<1>2. CASE e.code = NoCode
  BY <1>0, <1>2, NakedKnown DEF EntryCode, Handled
<1>3. CASE e.code # NoCode
  <2>1. EntryCode(e) = Normalized(e.code)
    BY <1>3 DEF EntryCode
  <2>2. e.code \in KnownCodes => Normalized(e.code) = e.code
    BY DEF Normalized
  <2> QED
    BY <1>1, <1>3, <2>1, <2>2, NormalizedHandled
<1> QED
  BY <1>2, <1>3

(* What an error may be made of.                                           *)
ErrorOf(err, e) ==
  /\ err.code \in CodeType /\ Handled(err.code)
  /\ e.form = "object" /\ e.code # NoCode => err.code.prefix = e.code.prefix
  /\ e.form = "object" /\ e.code \in KnownCodes => err.code = e.code

(* Go keeps the text an entry has, or its JSON.                            *)
LEMMA GoMessageKept ==
  ASSUME NEW e \in Entries
  PROVE  /\ GoMessage(e) \in Sources
         /\ GoMessage(e) \in {"json", "raw"} \/ (GoMessage(e) # "" /\ e[GoMessage(e)] = "text")
<1>1. CASE e.msg = "text"
  BY <1>1 DEF GoMessage, Sources
<1>2. CASE e.msg # "text" /\ e.message = "text"
  BY <1>2 DEF GoMessage, Sources
<1>3. CASE e.msg # "text" /\ e.message # "text" /\ e.description = "text"
  BY <1>3 DEF GoMessage, Sources
<1>4. CASE e.msg # "text" /\ e.message # "text" /\ e.description # "text"
  BY <1>4 DEF GoMessage, CompactJSON, Sources
<1> QED
  BY <1>1, <1>2, <1>3, <1>4

(* Go's error of an entry.                                                 *)
LEMMA GoErrorType ==
  ASSUME NEW e \in Entries
  PROVE  /\ GoError(e) \in [code : CodeType, msg : Sources] /\ ErrorOf(GoError(e), e)
         /\ e.form = "object" => GoError(e).msg = GoMessage(e)
<1>1. e.form \in {"string", "object", "null", "other"}
  BY DEF Entries
<1>2. CASE e.form = "object"
  <2>1. GoError(e) = [code |-> EntryCode(e), msg |-> GoMessage(e)]
    BY <1>2, SMT DEF GoError
  <2>2. EntryCode(e) \in CodeType /\ Handled(EntryCode(e)) /\ GoMessage(e) \in Sources
    BY EntryCodeHandled, GoMessageKept
  <2>3. ErrorOf(GoError(e), e)
    BY <2>1, <2>2, EntryCodeHandled DEF ErrorOf
  <2> QED
    BY <2>1, <2>2, <2>3
<1>3. CASE e.form # "object"
  <2>1. \E m \in Sources : GoError(e) = [code |-> General, msg |-> m]
    <3>1. CASE e.form = "string" /\ e.msg = "text"
      BY <3>1, SMT DEF GoError, Sources
    <3>2. CASE e.form = "string" /\ e.msg # "text"
      BY <3>2, SMT DEF GoError, Sources
    <3>3. CASE e.form = "null"
      BY <3>3, SMT DEF GoError, Sources
    <3>4. CASE e.form = "other"
      <4>1. GoError(e) = [code |-> General, msg |-> CompactJSON(e)]
        BY <3>4, SMT DEF GoError
      <4>2. CompactJSON(e) \in Sources
        BY DEF CompactJSON, Sources
      <4> QED
        BY <4>1, <4>2
    <3> QED
      BY <1>1, <1>3, <3>1, <3>2, <3>3, <3>4
  <2>2. PICK m \in Sources : GoError(e) = [code |-> General, msg |-> m]
    BY <2>1
  <2>3. General \in CodeType /\ General \in KnownCodes
    BY NakedKnown
  <2>4. GoError(e).code = General /\ GoError(e) \in [code : CodeType, msg : Sources]
    BY <2>2, <2>3
  <2> QED
    BY <1>3, <2>3, <2>4 DEF ErrorOf, Handled
<1> QED
  BY <1>2, <1>3

(* Node's, which throws or has a message.                                  *)
LEMMA NodeErrorType ==
  ASSUME NEW e \in Entries
  PROVE  /\ NodeError(e) \in [code : CodeType, msg : Sources \cup {"throws"}]
         /\ ErrorOf(NodeError(e), e)
<1>1. e.form \in {"string", "object", "null", "other"}
  BY DEF Entries
<1>2. CASE e.form = "object"
  <2>1. NodeError(e) = [code |-> EntryCode(e), msg |-> NodeMessage(e)]
    BY <1>2, SMT DEF NodeError
  <2>2. \A v, n : n \in Sources => OptStr(v, n) \in Sources \cup {"throws"}
    BY DEF OptStr, Sources
  <2>3. NodeMessage(e) \in Sources \cup {"throws"}
    <3>1. {"msg", "message", "description", "json"} \subseteq Sources
      BY DEF Sources
    <3> QED
      BY <2>2, <3>1, SMT DEF NodeMessage
  <2> QED
    BY <2>1, <2>3, EntryCodeHandled DEF ErrorOf
<1>3. CASE e.form # "object"
  <2>1. \E m \in Sources : NodeError(e) = [code |-> General, msg |-> m]
    <3>1. CASE e.form = "string" /\ e.msg = "text"
      BY <3>1, SMT DEF NodeError, Sources
    <3>2. CASE e.form = "string" /\ e.msg # "text"
      BY <3>2, SMT DEF NodeError, Sources
    <3>3. CASE e.form = "null"
      BY <3>3, SMT DEF NodeError, Sources
    <3>4. CASE e.form = "other"
      BY <3>4, SMT DEF NodeError, Sources
    <3> QED
      BY <1>1, <1>3, <3>1, <3>2, <3>3, <3>4
  <2>2. PICK m \in Sources : NodeError(e) = [code |-> General, msg |-> m]
    BY <2>1
  <2>3. General \in CodeType /\ General \in KnownCodes
    BY NakedKnown
  <2>4. NodeError(e).code = General /\ NodeError(e) \in [code : CodeType, msg : Sources]
    BY <2>2, <2>3
  <2> QED
    BY <1>3, <2>3, <2>4 DEF ErrorOf, Handled
<1> QED
  BY <1>2, <1>3

(* The lists of errors, entry by entry.                                    *)
LEMMA ErrorsType ==
  ASSUME NEW p \in PayloadType
  PROVE  /\ Len(Used(p)) \in Nat /\ \A i \in 1 .. Len(Used(p)) : Used(p)[i] \in Entries
         /\ GoErrors(p) \in Seq([code : CodeType, msg : Sources])
         /\ Len(GoErrors(p)) = Len(Used(p)) /\ Len(NodeErrors(p)) = Len(Used(p))
         /\ \A i \in 1 .. Len(Used(p)) :
              GoErrors(p)[i] = GoError(Used(p)[i]) /\ NodeErrors(p)[i] = NodeError(Used(p)[i])
         /\ (\A i \in 1 .. Len(Used(p)) : NodeError(Used(p)[i]).msg # "throws") =>
              NodeErrors(p) \in Seq([code : CodeType, msg : Sources])
<1>1. Len(Used(p)) \in Nat /\ \A i \in 1 .. Len(Used(p)) : Used(p)[i] \in Entries
  BY UsedType
<1>2. \A i \in 1 .. Len(Used(p)) : GoError(Used(p)[i]) \in [code : CodeType, msg : Sources]
  BY <1>1, GoErrorType
<1>3. ASSUME \A i \in 1 .. Len(Used(p)) : NodeError(Used(p)[i]).msg # "throws"
      PROVE  \A i \in 1 .. Len(Used(p)) : NodeError(Used(p)[i]) \in [code : CodeType, msg : Sources]
  BY <1>1, <1>3, NodeErrorType
<1> QED
  BY <1>1, <1>2, <1>3 DEF GoErrors, NodeErrors

(* What either decoder leaves is a verdict with the errors of an accepted  *)
(* response.                                                               *)
LEMMA OutcomeForms ==
  ASSUME NEW p
  PROVE  /\ GoOutcome(p) = Rejected \/ GoOutcome(p) = Accepted(GoErrors(p))
         /\ \/ NodeOutcome(p) = Rejected
            \/ /\ NodeOutcome(p) = Accepted(NodeErrors(p))
               /\ \A i \in 1 .. Len(Used(p)) : NodeError(Used(p)[i]).msg # "throws"
BY DEF GoOutcome, NodeOutcome

(* Both outcomes are verdicts with well formed errors; in particular none  *)
(* of Node's carries what it would throw on.                               *)
THEOREM TypeCorrect == Spec => []TypeOK
<1>1. IInv => TypeOK
  <2> SUFFICES ASSUME IInv PROVE TypeOK
    OBVIOUS
  <2>1. Pending \in Outcomes /\ Rejected \in Outcomes
    BY DEF Pending, Rejected, Outcomes
  <2>2. \A errs \in Seq([code : CodeType, msg : Sources]) : Accepted(errs) \in Outcomes
    BY DEF Accepted, Outcomes, CodeType
  <2> QED
    BY <2>1, <2>2, OutcomeForms, ErrorsType DEF IInv, TypeOK
<1> QED
  BY <1>1, Inductive, PTL

(* Go never drops the text of an error (firstNonEmpty, compactJSON).       *)
THEOREM GoKeepsEveryText == Spec => []GoKeepsText
<1>1. IInv => GoKeepsText
  <2> SUFFICES ASSUME IInv, go.verdict = "accepted" PROVE TextSurvives(go)
    BY DEF GoKeepsText, TextSurvives
  <2>1. go = Accepted(GoErrors(payload)) /\ go.errlist = GoErrors(payload)
    BY OutcomeForms DEF IInv, Pending, Rejected, Accepted
  <2>2. \A i \in 1 .. Len(Used(payload)) :
          LET e == Used(payload)[i]
              m == go.errlist[i].msg
          IN e.form = "object" => m \in {"json", "raw"} \/ (m # "" /\ e[m] = "text")
    <3> SUFFICES ASSUME NEW i \in 1 .. Len(Used(payload)), Used(payload)[i].form = "object"
                 PROVE  LET e == Used(payload)[i]
                            m == go.errlist[i].msg
                        IN m \in {"json", "raw"} \/ (m # "" /\ e[m] = "text")
      OBVIOUS
    <3>1. Used(payload)[i] \in Entries /\ go.errlist[i] = GoError(Used(payload)[i])
      BY <2>1, ErrorsType DEF IInv
    <3> QED
      BY <3>1, GoErrorType, GoMessageKept
  <2> QED
    BY <2>1, <2>2, ErrorsType DEF IInv, TextSurvives
<1> QED
  BY <1>1, Inductive, PTL

(* Whatever code a server sends, both SDKs hand on one that is handled.    *)
THEOREM EveryCodeIsHandled == Spec => []CodesAreHandled
<1>1. IInv => CodesAreHandled
  <2> SUFFICES ASSUME IInv, NEW out \in {go, node}, NEW i \in 1 .. Len(out.errlist)
               PROVE  ErrorOf(out.errlist[i], Used(payload)[i])
    BY DEF CodesAreHandled, ErrorOf, Handled
  <2>1. out # Pending /\ out # Rejected
    BY DEF Pending, Rejected
  <2>2. out = Accepted(GoErrors(payload)) \/ out = Accepted(NodeErrors(payload))
    BY <2>1, OutcomeForms DEF IInv
  <2>3. out.errlist = GoErrors(payload) \/ out.errlist = NodeErrors(payload)
    BY <2>2 DEF Accepted
  <2>4. i \in 1 .. Len(Used(payload))
    BY <2>3, ErrorsType DEF IInv
  <2>5. /\ Used(payload)[i] \in Entries
        /\ out.errlist[i] \in {GoError(Used(payload)[i]), NodeError(Used(payload)[i])}
    BY <2>3, <2>4, ErrorsType DEF IInv
  <2> QED
    BY <2>5, GoErrorType, NodeErrorType
<1> QED
  BY <1>1, Inductive, PTL

(* JSON is shown as JSON.stringify writes it, or the entry is not plain.   *)
LEMMA CompactJSONIs ==
  ASSUME NEW e \in Entries
  PROVE  CompactJSON(e) = "json" \/ (e.spelling = "other" /\ CompactJSON(e) = "raw")
BY DEF Entries, CompactJSON

(* The literal by a name.                                                 *)
NoText == ""

(* Node chooses the text that Go does, unless it is content with an empty  *)
(* one or throws; if there is none, both show the JSON.                    *)
LEMMA NodeMessageChosen ==
  ASSUME NEW e \in Entries, NodeMessage(e) # NoText, NodeMessage(e) # "throws"
  PROVE  \/ NodeMessage(e) = GoMessage(e)
         \/ e.spelling = "other" /\ NodeMessage(e) = "json" /\ GoMessage(e) = "raw"
<1>1. /\ OptStr("text", "msg") = "msg" /\ OptStr("text", "message") = "message"
      /\ OptStr("text", "description") = "description"
      /\ \A v, n : v # "text" => OptStr(v, n) \in {NoText, "throws"}
  BY DEF OptStr, NoText
<1>2. CASE e.msg \notin {"absent", "null"}
  <2>1. NodeMessage(e) = OptStr(e.msg, "msg")
    BY <1>2, SMT DEF NodeMessage
  <2>2. e.msg = "text"
    BY <1>1, <2>1
  <2> QED
    BY <1>1, <2>1, <2>2, SMT DEF GoMessage
<1>3. CASE e.msg \in {"absent", "null"} /\ e.message \notin {"absent", "null"}
  <2>1. NodeMessage(e) = OptStr(e.message, "message")
    BY <1>3, SMT DEF NodeMessage
  <2>2. e.message = "text"
    BY <1>1, <2>1
  <2> QED
    BY <1>1, <1>3, <2>1, <2>2, SMT DEF GoMessage
<1>4. CASE /\ e.msg \in {"absent", "null"} /\ e.message \in {"absent", "null"}
           /\ e.description \notin {"absent", "null"}
  <2>1. NodeMessage(e) = OptStr(e.description, "description")
    BY <1>4, SMT DEF NodeMessage
  <2>2. e.description = "text"
    BY <1>1, <2>1
  <2> QED
    BY <1>1, <1>4, <2>1, <2>2, SMT DEF GoMessage
<1>5. CASE {e.msg, e.message, e.description} \subseteq {"absent", "null"}
  <2>1. NodeMessage(e) = "json"
    BY <1>5, SMT DEF NodeMessage
  <2>2. GoMessage(e) = CompactJSON(e)
    BY <1>5, SMT DEF GoMessage
  <2> QED
    BY <2>1, <2>2, CompactJSONIs
<1> QED
  BY <1>2, <1>3, <1>4, <1>5

(* What an entry that Node does not throw on becomes in both.              *)
LEMMA EntryAlike ==
  ASSUME NEW e \in Entries, NodeError(e).msg # "throws"
  PROVE  /\ GoError(e).code = NodeError(e).code
         /\ \/ GoError(e).msg = NodeError(e).msg
            \/ e.form = "object" /\ NodeError(e).msg = NoText
            \/ e.form = "null"
            \/ e.spelling = "other" /\ GoError(e).msg = "raw" /\ NodeError(e).msg = "json"
<1>1. e.form \in {"string", "object", "null", "other"}
  BY DEF Entries
<1>2. CASE e.form = "string"
  BY <1>2, SameError DEF OrdinaryEntry, ShownAsJSON
<1>3. CASE e.form = "object"
  <2>1. GoError(e) = [code |-> EntryCode(e), msg |-> GoMessage(e)]
    BY <1>3, SMT DEF GoError
  <2>2. NodeError(e) = [code |-> EntryCode(e), msg |-> NodeMessage(e)]
    BY <1>3, SMT DEF NodeError
  <2>3. GoError(e).code = EntryCode(e) /\ GoError(e).msg = GoMessage(e)
    BY <2>1
  <2>4. NodeError(e).code = EntryCode(e) /\ NodeError(e).msg = NodeMessage(e)
    BY <2>2
  <2> QED
    BY <1>3, <2>3, <2>4, NodeMessageChosen
<1>4. CASE e.form = "null"
  <2>1. GoError(e) = [code |-> General, msg |-> NoText]
    BY <1>4, SMT DEF GoError, NoText
  <2>2. NodeError(e) = [code |-> General, msg |-> "json"]
    BY <1>4, SMT DEF NodeError
  <2>3. GoError(e).code = General
    BY <2>1
  <2>4. NodeError(e).code = General
    BY <2>2
  <2> QED
    BY <1>4, <2>3, <2>4
<1>5. CASE e.form = "other"
  <2>1. GoError(e) = [code |-> General, msg |-> CompactJSON(e)]
    BY <1>5, SMT DEF GoError
  <2>2. NodeError(e) = [code |-> General, msg |-> "json"]
    BY <1>5, SMT DEF NodeError
  <2> QED
    BY <2>1, <2>2, CompactJSONIs
<1> QED
  BY <1>1, <1>2, <1>3, <1>4, <1>5

(* Of the responses that are not conforming, too, those both accept are    *)
(* reported alike, up to Node's empty messages, null entries and JSON that *)
(* is not spelled as JavaScript spells it (normalizeErrors of both).       *)
THEOREM AcceptedIsAlike == Spec => []AcceptedAlike
<1>1. IInv => AcceptedAlike
  <2> SUFFICES ASSUME IInv, go.verdict = "accepted", node.verdict = "accepted" PROVE AcceptedAlike
    BY DEF AcceptedAlike
  <2>1. go.errlist = GoErrors(payload)
    BY OutcomeForms DEF IInv, Pending, Rejected, Accepted
  <2>2. /\ node.errlist = NodeErrors(payload)
        /\ \A i \in 1 .. Len(Used(payload)) : NodeError(Used(payload)[i]).msg # "throws"
    BY OutcomeForms DEF IInv, Pending, Rejected, Accepted
  <2>3. Len(go.errlist) = Len(Used(payload)) /\ Len(node.errlist) = Len(Used(payload))
    BY <2>1, <2>2, ErrorsType DEF IInv
  <2>4. \A i \in 1 .. Len(Used(payload)) :
          /\ Used(payload)[i] \in Entries
          /\ go.errlist[i] = GoError(Used(payload)[i])
          /\ node.errlist[i] = NodeError(Used(payload)[i])
    BY <2>1, <2>2, ErrorsType DEF IInv
  <2>5. \A i \in 1 .. Len(Used(payload)) :
          LET e == Used(payload)[i]
          IN /\ go.errlist[i].code = node.errlist[i].code
             /\ \/ go.errlist[i].msg = node.errlist[i].msg
                \/ e.form = "object" /\ node.errlist[i].msg = ""
                \/ e.form = "null"
                \/ /\ e.spelling = "other"
                   /\ go.errlist[i].msg = "raw" /\ node.errlist[i].msg = "json"
    <3> TAKE i \in 1 .. Len(Used(payload))
    <3> QED
      BY <2>2, <2>4, EntryAlike DEF NoText
  <2> QED
    BY <2>3, <2>5 DEF AcceptedAlike
<1> QED
  BY <1>1, Inductive, PTL
=============================================================================
