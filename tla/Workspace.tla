------------------------------ MODULE Workspace ------------------------------
(***************************************************************************)
(* What every business workspace command shares: it is refused on an       *)
(* archived workspace, and its transaction ends by raising the workspace's *)
(* revision.  Revisions only ever get compared for "has anything been      *)
(* committed since", so the model keeps the one comparison that outlives a *)
(* command: whether the last archive snapshot still describes the          *)
(* workspace.                                                              *)
(***************************************************************************)
VARIABLES
    workspaceStatus,   \* BusinessWorkspaceStatus
    archiveIntegrity   \* BusinessArchiveIntegrityStatus, derived in the code

workspaceVars == <<workspaceStatus, archiveIntegrity>>

WorkspaceTypeOK ==
    /\ workspaceStatus \in {"active", "archived"}
    /\ archiveIntegrity \in {"notCaptured", "ready", "stale"}

WorkspaceInit == workspaceStatus = "active" /\ archiveIntegrity = "notCaptured"

(* Mutant: an archived workspace still takes commands.                     *)
MutableAlways == TRUE

Mutable == workspaceStatus = "active"

(* bump_workspace: captured revision + 1 no longer equals the revision.    *)
Bump == /\ archiveIntegrity' = IF archiveIntegrity = "ready"
                               THEN "stale" ELSE archiveIntegrity
        /\ UNCHANGED workspaceStatus

==============================================================================
