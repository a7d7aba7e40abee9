-------------------------- MODULE MCActionExecution --------------------------
(* Small instances of ActionExecution for TLC.                              *)
EXTENDS ActionExecution, TLC

Approval(role) == [decision |-> "APPROVAL_REQUIRED", role |-> role]

(* The registry of build_default_action_registry, and two others: before it   *)
(* review could be asked for without approval, after it only by a MANAGER.     *)
Default ==
    [create_internal_recommendation |-> [decision |-> "SAFE", role |-> 0],
     update_campaign_metadata |-> Approval(RoleLevel.MANAGER),
     request_campaign_regeneration |-> Approval(RoleLevel.MANAGER),
     mark_for_manual_review |-> Approval(RoleLevel.REVIEWER)]

Trusting == [Default EXCEPT !.mark_for_manual_review = [decision |-> "SAFE", role |-> 0]]

Stricter == [Default EXCEPT !.mark_for_manual_review = Approval(RoleLevel.MANAGER)]

ForActions(registries) == {[a \in Action |-> r[a]] : r \in registries}

DefaultOnly == ForActions({Default})

AllReleases == ForActions({Trusting, Default, Stricter})

Symmetry == Permutations(Caller)
=============================================================================
