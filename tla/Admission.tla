------------------------------ MODULE Admission ------------------------------
(***************************************************************************)
(* The validating webhook (internal/webhook/node_validator.go): what the     *)
(* service account of a node may change.  A request has the operation, the  *)
(* hostname of the account, the resource, the name of the object and its     *)
(* old and new spec; NotNode stands for every account that is not a node's. *)
(***************************************************************************)
EXTENDS TLC

CONSTANT NotNode

Allowed == "allowed"
Denied  == "denied"

(* A node may not change a spec, touch a jail that is assigned to another    *)
(* node, or touch another node's ManagedNode.                              *)
Handle(req) ==
  IF req.operation # "UPDATE" \/ req.host = NotNode THEN Allowed
  ELSE IF req.old # req.new THEN Denied
  ELSE IF /\ req.resource = "jails"
          /\ req.new.nodeName # "" /\ req.new.nodeName # req.host THEN Denied
  ELSE IF req.resource = "managednodes" /\ req.name # req.host THEN Denied
  ELSE Allowed
=============================================================================
