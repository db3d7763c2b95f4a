------------------------------- MODULE Labels -------------------------------
(***************************************************************************)
(* Matching of label maps: which ConfigSets apply to a node                 *)
(* (internal/controller/common/common.go) and which labels gate a           *)
(* controller (pkg/common/labels).  A label map is a function from keys to  *)
(* values.                                                                 *)
(***************************************************************************)
EXTENDS FiniteSets, Naturals

(* matchers is not empty and labels has every one of its pairs.            *)
MatchAllLabels(labels, matchers) ==
  /\ DOMAIN matchers # {}
  /\ \A k \in DOMAIN matchers : k \in DOMAIN labels /\ labels[k] = matchers[k]

(* The keys of dest that labels has with the same value.                   *)
Matches(labels, dest) ==
  {k \in DOMAIN dest \cap DOMAIN labels : labels[k] = dest[k]}

(* And compares with the number of labels, not of the pairs asked for.     *)
LabelGate(logic, labels, dest) ==
  CASE logic = "AnyKey"    -> DOMAIN dest \cap DOMAIN labels # {}
    [] logic = "Or"        -> Matches(labels, dest) # {}
    [] logic = "NoneMatch" -> Matches(labels, dest) = {}
    [] logic = "And"       -> Cardinality(Matches(labels, dest)) = Cardinality(DOMAIN labels)
=============================================================================
