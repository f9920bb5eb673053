-------------------------- MODULE PushRequestProofs --------------------------
(***************************************************************************)
(* What Merge does, for any sets of services, namespaces and config types. *)
(***************************************************************************)
EXTENDS PushRequest, TLAPS

(* Merging a request into what is held gives a request. *)
LEMMA MergeType ==
    ASSUME NEW first \in PushRequests \cup {NoReq}, NEW other \in PushRequests
    PROVE  Merge(first, other) \in PushRequests
<1>1. CASE first = NoReq
  BY <1>1 DEF Merge
<1>2. CASE first # NoReq
  <2>1. first \in PushRequests /\ other # NoReq
    BY <1>2, PushRequestAssumption
  <2> QED
    BY <1>2, <2>1 DEF Merge, MergeScope, PushRequests
<1> QED BY <1>1, <1>2

(* The merged request carries the context of the request merged last. *)
LEMMA MergePush ==
    ASSUME NEW first \in PushRequests \cup {NoReq}, NEW other \in PushRequests
    PROVE  Merge(first, other).push = other.push
<1>1. other # NoReq
  BY PushRequestAssumption
<1> QED BY <1>1 DEF Merge

(* Merge loses nothing and adds nothing: the merged request asks for       *)
(* exactly what the two requests ask for, whatever mix of full and         *)
(* incremental, scoped and unscoped requests they are.                     *)
LEMMA MergeWants ==
    ASSUME NEW first \in PushRequests \cup {NoReq}, NEW other \in PushRequests
    PROVE  Wants(Merge(first, other)) = Wants(first) \cup Wants(other)
<1>1. other # NoReq
  BY PushRequestAssumption
<1>2. CASE first = NoReq
  BY <1>1, <1>2 DEF Merge, Wants
<1>3. CASE first # NoReq
  <2>1. first \in PushRequests
    BY <1>3
  <2> DEFINE merged == Merge(first, other)
  <2>2. merged \in PushRequests /\ merged # NoReq
    BY MergeType, PushRequestAssumption
  <2>3. /\ merged.full = (first.full \/ other.full)
        /\ merged.eds = IF merged.full THEN {} ELSE first.eds \cup other.eds
        /\ merged.namespaces = MergeScope(first.namespaces, other.namespaces)
        /\ merged.configs = MergeScope(first.configs, other.configs)
    BY <1>1, <1>3 DEF Merge
  <2>4. \A a, b, all : a \subseteq all /\ b \subseteq all =>
           Unscoped(MergeScope(a, b), all) = Unscoped(a, all) \cup Unscoped(b, all)
    BY DEF Unscoped, MergeScope
  <2>5. /\ Unscoped(merged.namespaces, Namespaces)
             = Unscoped(first.namespaces, Namespaces) \cup Unscoped(other.namespaces, Namespaces)
        /\ Unscoped(merged.configs, ConfigTypes)
             = Unscoped(first.configs, ConfigTypes) \cup Unscoped(other.configs, ConfigTypes)
    BY <2>1, <2>3, <2>4 DEF PushRequests
  <2>6. {merged.full} \cap {TRUE}
          = ({first.full} \cap {TRUE}) \cup ({other.full} \cap {TRUE})
    BY <2>1, <2>3 DEF PushRequests
  <2>7. (IF merged.full THEN Services ELSE merged.eds)
          = (IF first.full THEN Services ELSE first.eds)
              \cup (IF other.full THEN Services ELSE other.eds)
    BY <2>1, <2>3 DEF PushRequests
  <2>8. \A tag, A, B : Tagged(tag, A \cup B) = Tagged(tag, A) \cup Tagged(tag, B)
    BY DEF Tagged
  <2>9. /\ Wants(merged) =
               Tagged("full", {merged.full} \cap {TRUE})
                 \cup Tagged("eds", IF merged.full THEN Services ELSE merged.eds)
                 \cup Tagged("ns", Unscoped(merged.namespaces, Namespaces))
                 \cup Tagged("type", Unscoped(merged.configs, ConfigTypes))
        /\ Wants(first) =
               Tagged("full", {first.full} \cap {TRUE})
                 \cup Tagged("eds", IF first.full THEN Services ELSE first.eds)
                 \cup Tagged("ns", Unscoped(first.namespaces, Namespaces))
                 \cup Tagged("type", Unscoped(first.configs, ConfigTypes))
        /\ Wants(other) =
               Tagged("full", {other.full} \cap {TRUE})
                 \cup Tagged("eds", IF other.full THEN Services ELSE other.eds)
                 \cup Tagged("ns", Unscoped(other.namespaces, Namespaces))
                 \cup Tagged("type", Unscoped(other.configs, ConfigTypes))
    BY <1>1, <1>3, <2>2 DEF Wants
  <2> HIDE DEF merged
  <2> QED
    BY <2>5, <2>6, <2>7, <2>8, <2>9 DEF merged
<1> QED BY <1>2, <1>3

(* No request asks for more than there is. *)
LEMMA WantsBound ==
    ASSUME NEW r \in PushRequests
    PROVE  Wants(r) \subseteq AllWants
<1>1. /\ {r.full} \cap {TRUE} \subseteq {TRUE}
      /\ (IF r.full THEN Services ELSE r.eds) \subseteq Services
      /\ Unscoped(r.namespaces, Namespaces) \subseteq Namespaces
      /\ Unscoped(r.configs, ConfigTypes) \subseteq ConfigTypes
  BY DEF PushRequests, Unscoped
<1>2. \A tag, A, B : A \subseteq B => Tagged(tag, A) \subseteq Tagged(tag, B)
  BY DEF Tagged
<1>3. Wants(r) = {} \/ Wants(r) =
               Tagged("full", {r.full} \cap {TRUE})
                 \cup Tagged("eds", IF r.full THEN Services ELSE r.eds)
                 \cup Tagged("ns", Unscoped(r.namespaces, Namespaces))
                 \cup Tagged("type", Unscoped(r.configs, ConfigTypes))
  BY DEF Wants
<1> QED BY <1>1, <1>2, <1>3 DEF AllWants

=============================================================================
