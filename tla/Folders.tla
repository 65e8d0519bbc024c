-------------------------------- MODULE Folders --------------------------------
(***************************************************************************)
(* The arrangement of the list (storage/management/folders.rs): sessions,  *)
(* groups and folders each name the folder they are in.  Every operation   *)
(* is one transaction of the index; a request that names what has gone     *)
(* meanwhile is refused and changes nothing.                               *)
(***************************************************************************)
CONSTANTS
  Folder,   \* the identifiers of folders
  Item      \* sessions and groups

ASSUME FolderAssumption == Folder \cap Item = {} /\ {"root"} \cap (Folder \cup Item) = {}

VARIABLES
  folders,    \* the folders there are
  place_of    \* of each entry, the folder it is in, or the root

folder_vars == <<folders, place_of>>

Where == Folder \cup {"root"}

FolderTypeOK == folders \subseteq Folder /\ place_of \in [Folder \cup Item -> Where]

FolderInit ==
  /\ folders = {}
  /\ place_of = [e \in Folder \cup Item |-> "root"]

Entries == folders \cup Item
Places == folders \cup {"root"}

\* Mutant: only the folder itself is looked at.
WithinOne(f, ancestor) == f = ancestor

\* Whether f is the ancestor or inside it, found by climbing parents.
Within(f, ancestor) ==
  \A up \in SUBSET Where :
    f \in up /\ (\A g \in up \cap folders : place_of[g] \in up) => ancestor \in up

CreateFolder(f, parent) ==
  /\ f \notin folders
  /\ parent \in Places
  /\ folders' = folders \cup {f}
  /\ place_of' = [place_of EXCEPT ![f] = parent]

\* What it held goes to the folder it was in.
DeleteFolder(f) ==
  /\ f \in folders
  /\ folders' = folders \ {f}
  /\ place_of' = [e \in DOMAIN place_of |->
                    IF e = f THEN "root" ELSE IF place_of[e] = f THEN place_of[f] ELSE place_of[e]]

\* Together or not at all.
PlaceEntries(moved, where) ==
  /\ moved # {} /\ moved \subseteq Entries
  /\ where \in Places
  /\ \A f \in moved \cap folders : where \in folders => ~ Within(where, f)
  /\ place_of' = [e \in DOMAIN place_of |-> IF e \in moved THEN where ELSE place_of[e]]
  /\ UNCHANGED folders

FolderNext ==
  \/ \E f \in Folder, where \in Where : CreateFolder(f, where)
  \/ \E f \in Folder : DeleteFolder(f)
  \/ \E moved \in SUBSET (Folder \cup Item), where \in Where : PlaceEntries(moved, where)

FolderSpec == FolderInit /\ [][FolderNext]_folder_vars

-----------------------------------------------------------------------------
(* Properties. *)

\* Everything in the list can be reached from its root: no folder is inside itself, however many
\* moves and deletions it took, and nothing is in a folder that has gone (place, delete_folder).
ListIsATree ==
  /\ \A e \in Entries : place_of[e] \in Places
  /\ \A loop \in SUBSET folders :
       loop # {} => \E f \in loop : place_of[f] \notin loop

=============================================================================
