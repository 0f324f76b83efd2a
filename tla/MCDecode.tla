------------------------------ MODULE MCDecode ------------------------------
EXTENDS Decode

Plain == [t \in FieldTypes |-> "absent"]

(* At most two fields differ from an account without any.                  *)
OddFields ==
  {[[Plain EXCEPT ![t] = k] EXCEPT ![u] = l] : t, u \in FieldTypes, k, l \in Kinds}

Listing(k, items) == [kind |-> k, items |-> items]
None == Listing("absent", <<>>)

Entry(f, s, c, m, g, d) ==
  [form |-> f, spelling |-> s, code |-> c, msg |-> m, message |-> g, description |-> d]

Sample == Entry("object", "plain", Code("con", "auth"), "text", "absent", "absent")

OddLists == {Listing(k, <<>>) : k \in Kinds} \cup {Listing("array", <<Sample>>)}

Payload(f, o, l, m) == [fields |-> f, org |-> o, errlist |-> l, errors |-> m]

Codes == {NoCode, Code("con", "auth"), Code("con", "new"), Code("act", "none"),
          Code("other", "new"), Code("gen", "")}

AllEntries ==
  {Entry("object", s, c, m, g, d) :
     s \in {"plain", "other"}, c \in Codes, m, g, d \in MsgKinds}
    \cup {Entry(f, "plain", NoCode, m, "absent", "absent") :
            f \in {"string", "null", "other"}, m \in {"empty", "text"}}
    \cup {Entry("other", "other", NoCode, "empty", "absent", "absent")}

FewEntries ==
  {Entry("object", "plain", c, m, g, "absent") : c \in {NoCode, Code("con", "new")},
                                                 m, g \in {"absent", "text", "empty"}}
    \cup {Entry("string", "plain", NoCode, "text", "absent", "absent"),
           Entry("object", "other", NoCode, "absent", "absent", "absent")}

EntryPayloads ==
  {Payload(Plain, "absent", Listing("array", <<e>>), None) : e \in AllEntries}

(* Every pair of odd fields; every org, errlist and errors of each kind    *)
(* together with one odd field; every entry in errlist; pairs of entries,  *)
(* split over the two lists in every way.                                  *)
MCPayloads ==
  {Payload(f, "absent", None, None) : f \in OddFields}
    \cup {Payload([Plain EXCEPT !["string"] = k], o, l, m) :
            k \in {"absent", "whole"}, o \in Kinds, l, m \in OddLists}
    \cup EntryPayloads
    \cup {Payload(Plain, "object", l, Listing("array", <<e>>)) :
            e \in FewEntries, l \in {None} \cup {Listing("array", <<d>>) : d \in FewEntries}}
    \cup {Payload(Plain, "null", None, Listing("array", <<d, e>>)) : d, e \in FewEntries}

(* A message that hides another one, for the run that shows a disagreement.*)
ShadowPayloads ==
  {p \in EntryPayloads : LET e == p.errlist.items[1]
                         IN e.msg = "empty" /\ "text" \in {e.message, e.description}}
=============================================================================
