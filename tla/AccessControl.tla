---------------------------- MODULE AccessControl ----------------------------
(***************************************************************************)
(* The roles page: the list of roles, the dialog that creates or edits one *)
(* with permissions that depend on one another, and the requests behind    *)
(* it, whose answers act on whatever dialog is open when they arrive.      *)
(***************************************************************************)
EXTENDS Integers, FiniteSets

CONSTANTS
  Roles,      \* ids of roles, used and free
  Ticked,     \* the permissions whose boxes are clicked
  MaxSaves    \* requests under way

VARIABLES
  roles,      \* role -> its permissions on the server, {} for no role
  listed,     \* the same as last fetched
  roleDialog, \* [open, role being edited or "new", permissions ticked]
  deleting,   \* the role whose deletion is to be confirmed, or "none"
  saving      \* requests under way

rolesVars == <<roles, listed, roleDialog, deleting, saving>>

PermissionDependencies ==
  [ReadRecords |-> {}, ReviewRecords |-> {"ReadRecords"}, ManageReviews |-> {"ReviewRecords"},
   AddRecords |-> {"ReadRecords"},
   SyncRecordsFromCatalog |-> {"ReadRecords", "AddRecords", "ManageTasks"},
   ProcessRecords |-> {"ReadRecords"}, RunPartialRecordTasks |-> {"ReadRecords"},
   ManageTasks |-> {"ProcessRecords", "RunPartialRecordTasks"},
   ManageAllTasks |-> {"ManageTasks"}, ManageTaskSettings |-> {"ManageTasks"},
   ManageAccessControl |-> {}, ManageAppSettings |-> {}]

Permissions == DOMAIN PermissionDependencies

ASSUME RolesAssumption == Ticked \subseteq Permissions /\ MaxSaves \in Nat

\* Dependencies are three deep: two steps from the direct ones reach them all.
WithDirect(S) == S \cup UNION {PermissionDependencies[p] : p \in S}
GetAllDependencies(p) == WithDirect(WithDirect(PermissionDependencies[p]))

\* Those that need one removed go too, whichever of them takes them along.
WithDependents(selected, gone) ==
  gone \cup {p \in selected : PermissionDependencies[p] \cap gone # {}}
RemoveDependents(selected, removed) ==
  selected \ WithDependents(selected, WithDependents(selected, WithDependents(selected, {removed})))

\* Mutated TogglePermission: what the dependencies need is left out.
ToggleDirect(current, p) ==
  IF p \in current THEN RemoveDependents(current, p) ELSE current \cup {p} \cup PermissionDependencies[p]

TogglePermission(current, p) ==
  IF p \in current THEN RemoveDependents(current, p) ELSE current \cup {p} \cup GetAllDependencies(p)

Closed(S) == \A p \in S : PermissionDependencies[p] \subseteq S

Shut == [open |-> FALSE, role |-> "new", permissions |-> {}]

\* The server completes what it stores (resolve_permissions).
RolesInit ==
  /\ roles \in [Roles -> {{}} \cup {GetAllDependencies(p) \cup {p} : p \in Ticked}]
  /\ listed = roles /\ roleDialog = Shut /\ deleting = "none" /\ saving = {}
-----------------------------------------------------------------------------
NoDialog == ~roleDialog.open /\ deleting = "none"

\* Create, or the pencil of a listed role; opening resets the form.
OpenDialog ==
  /\ NoDialog
  /\ \E r \in {"new"} \cup {q \in Roles : listed[q] # {}} :
       roleDialog' = [open |-> TRUE, role |-> r, permissions |-> IF r = "new" THEN {} ELSE listed[r]]
  /\ UNCHANGED <<roles, listed, deleting, saving>>

CloseDialog == roleDialog.open /\ roleDialog' = Shut /\ UNCHANGED <<roles, listed, deleting, saving>>

RoleForm ==
  /\ roleDialog.open
  /\ \E p \in Ticked : roleDialog' = [roleDialog EXCEPT !.permissions = TogglePermission(@, p)]
  /\ UNCHANGED <<roles, listed, deleting, saving>>

\* The schema asks for one permission at least; nothing asks whether a save
\* is under way.
HandleSubmit ==
  /\ roleDialog.open /\ roleDialog.permissions # {} /\ Cardinality(saving) < MaxSaves
  /\ saving' = saving \cup {[role |-> roleDialog.role, permissions |-> roleDialog.permissions]}
  /\ UNCHANGED <<roles, listed, roleDialog, deleting>>

DeleteRole ==
  /\ Cardinality(saving) < MaxSaves
  /\ \/ /\ NoDialog /\ deleting' \in {q \in Roles : listed[q] # {}} /\ UNCHANGED saving
     \/ /\ deleting # "none" /\ deleting' = "none"
        /\ saving' \in {saving, saving \cup {[role |-> deleting, permissions |-> {}]}}
  /\ UNCHANGED <<roles, listed, roleDialog>>

\* The server applies it: a new role takes a free id.
Applied(s) ==
  IF s.role = "new"
  THEN {[roles EXCEPT ![r] = s.permissions] : r \in {q \in Roles : roles[q] = {}}}
  ELSE IF roles[s.role] = {} THEN {} ELSE {[roles EXCEPT ![s.role] = s.permissions]}

\* Success invalidates the list and closes the dialog of the day; a failure
\* leaves it open.
RoleAnswered ==
  \E s \in saving :
    /\ saving' = saving \ {s}
    /\ \/ /\ roles' \in Applied(s) /\ listed' = roles'
          /\ IF s.permissions = {} THEN UNCHANGED roleDialog
             ELSE roleDialog' = IF s.role = "new" THEN [roleDialog EXCEPT !.open = FALSE] ELSE Shut
          /\ deleting' = IF s.permissions = {} THEN "none" ELSE deleting
       \/ UNCHANGED <<roles, listed, roleDialog, deleting>>
-----------------------------------------------------------------------------
RolesNext ==
  OpenDialog \/ CloseDialog \/ RoleForm \/ HandleSubmit \/ DeleteRole \/ RoleAnswered

RolesSpec == RolesInit /\ [][RolesNext]_rolesVars
-----------------------------------------------------------------------------
\* No clicks make a role, shown or sent, that holds a permission without
\* those it depends on, directly or through others.
RoleClosed ==
  /\ Closed(roleDialog.permissions)
  /\ \A s \in saving : Closed(s.permissions)
===============================================================================
