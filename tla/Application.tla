------------------------------ MODULE Application ------------------------------
(***************************************************************************)
(* What the application keeps for its sessions: one of them open, shared   *)
(* and edited (SessionSlots), the groups they talk in (Groups), the        *)
(* attachments that wait for one (Drafts), the files of one (SessionFiles) *)
(* the folders they are in (Folders), and the data directory all of it is  *)
(* in, brought up to the present format before it opens (Migration).  The  *)
(* parts share no state but the existence of sessions, which each models   *)
(* for itself, so a behaviour is about one of them, chosen at its start;   *)
(* the others stand still.                                                 *)
(***************************************************************************)
EXTENDS SessionSlots, Groups, Drafts, SessionFiles, Folders, Migration

ASSUME ApplicationAssumption == Latest \in Versions

VARIABLE part

Part == {"slots", "groups", "drafts", "files", "folders", "directory"}

app_vars == <<slot_vars, group_vars, draft_vars, files_vars, folder_vars, migration_vars, part>>

ApplicationTypeOK ==
  SlotTypeOK /\ GroupTypeOK /\ DraftTypeOK /\ FilesTypeOK /\ FolderTypeOK /\ part \in Part

ApplicationInit ==
  /\ SlotInit /\ GroupInit /\ DraftInit /\ FilesInit /\ FolderInit /\ MigrationInit
  /\ part \in Part
  /\ part # "slots" => ~ stored
  /\ part # "files" => form = CHOOSE any \in FileForms : TRUE
  /\ part # "directory" => directory = Built(Latest, FALSE, FALSE, TRUE, {}, TRUE, "named")
  /\ part # "groups" => \A g \in Group : group[g].members = {}

ApplicationNext ==
  /\ \/ /\ part = "slots" /\ SlotNext
        /\ UNCHANGED <<group_vars, draft_vars, files_vars, folder_vars, migration_vars>>
     \/ /\ part = "groups" /\ GroupNext
        /\ UNCHANGED <<slot_vars, draft_vars, files_vars, folder_vars, migration_vars>>
     \/ /\ part = "drafts" /\ DraftNext
        /\ UNCHANGED <<slot_vars, group_vars, files_vars, folder_vars, migration_vars>>
     \/ /\ part = "files" /\ FilesNext
        /\ UNCHANGED <<slot_vars, group_vars, draft_vars, folder_vars, migration_vars>>
     \/ /\ part = "folders" /\ FolderNext
        /\ UNCHANGED <<slot_vars, group_vars, draft_vars, files_vars, migration_vars>>
     \/ /\ part = "directory" /\ MigrationNext
        /\ UNCHANGED <<slot_vars, group_vars, draft_vars, files_vars, folder_vars>>
  /\ UNCHANGED part

ApplicationSpec == ApplicationInit /\ [][ApplicationNext]_app_vars

=============================================================================
