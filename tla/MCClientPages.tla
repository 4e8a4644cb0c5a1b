---------------------------- MODULE MCClientPages ----------------------------
(***************************************************************************)
(* One run for the pages of the web client, which share no state: each     *)
(* behaviour is one of a page, with the others at rest.  The reviews have  *)
(* two: reviewers and a task at once, and a tab that moves about.          *)
(***************************************************************************)
EXTENDS RecordsPage, RecordTasks, MarcTable, AccessControl, SettingsForm, RecordReviews

VARIABLE part

vars == <<part, recordsVars, dialogVars, tableVars, rolesVars, settingsVars, reviewVars>>

V(k, o, x) == [kind |-> k, of |-> o, other |-> x]
R(i, b, h, vs) ==
  [id |-> i, hit |-> h, views |-> vs, facts |-> {<<"bases", b>>, <<"deleted", "false">>}]
MCCatalog ==
  <<R("r1", "A", TRUE, {V("authority", "X", "1")}),
    R("r2", "A", FALSE, {V("authority", "X", "2")}),
    R("r3", "B", TRUE, {}),
    R("r4", "B", TRUE, {V("comparison", "c", "9"), V("validation", "k", "none")}),
    R("r5", "A", TRUE, {V("comparison", "c", "8")})>>
MCFacets == DOMAIN FACET_TO_URL_PARAM
MCFacetValues ==
  [f \in MCFacets |-> CASE f = "base" -> {"A"}
                        [] f = "is_deleted" -> {"Deleted", "Active"}
                        [] f = "is_processed" -> {"Processed", "Unprocessed"}
                        [] OTHER -> {"v"}]

MCTicked == {"ReadRecords", "SyncRecordsFromCatalog", "ManageTasks", "ProcessRecords"}

\* AccessControl's dependencies against the recursions of the code, for every
\* set of permissions.
RECURSIVE Dependencies(_), Removed(_, _)
Dependencies(p) == PermissionDependencies[p] \cup UNION {Dependencies(d) : d \in PermissionDependencies[p]}
Removed(selected, removed) ==
  LET dependents == {p \in Permissions : removed \in PermissionDependencies[p]}
  IN FoldSet(LAMBDA p, left : IF p \in left THEN Removed(left, p) ELSE left,
             selected \ {removed}, dependents)

ASSUME RecursionsAgree ==
  \A p \in Permissions :
    /\ GetAllDependencies(p) = Dependencies(p)
    /\ \A S \in SUBSET Permissions : RemoveDependents(S, p) = Removed(S, p)

MCEdited ==
  [comparators |-> {"llm_enabled"}, process_records |-> {"target_bases"}, tasks |-> {"commit_interval"}]

MCContested == {<<"r1", "c">>}

\* Many requests, or fewer with a task and a loss; of the second record one
\* view, and next to the tab no sync, which to it is like a fetch; with a facet
\* chosen, one page size and one order.  The parts at rest start in one state.
Resting(p, s, t) == part # p => s = t

Init ==
  /\ part \in {"records", "tasks", "marc", "roles", "settings", "reviewers", "button"}
  /\ RecordsInit /\ Resting("records", url, Defaults)
  /\ TasksInit /\ Resting("tasks", info, [linkers |-> [l \in Linkers |-> {}], bases |-> {}, validators |-> {}])
  /\ part = "tasks" => info.validators # {} /\ info.bases = Bases
  /\ TableInit
  /\ Resting("marc", <<marc, targetOnly>>, <<[fixed |-> {}, fields |-> [t \in VariableTags |-> 0]], FALSE>>)
  /\ RolesInit /\ Resting("roles", roles, [r \in Roles |-> {}])
  /\ SettingsInit
  /\ Resting("settings", <<scope, saved>>, <<"tasks", [s \in Scopes |-> CHOOSE d \in Documents(s) : TRUE]>>)
  /\ ReviewsInit
  /\ reviews = IF part \in {"reviewers", "button"}
               THEN <<[rec |-> "r1", aspect |-> "c", by |-> "u1", status |-> "current"]>> ELSE <<>>
  /\ shown = [rec |-> "r1", aspect |-> IF part = "reviewers" THEN "c" ELSE "none"]
  /\ <<asked, lost, task.runs>> \in
       CASE part = "reviewers" -> {<<0, MaxLost, MaxTasks>>, <<1, 0, 0>>}
         [] part = "button" -> {<<1, MaxLost, MaxTasks>>, <<2, 0, 0>>}
         [] OTHER -> {<<0, 0, 0>>}

Next ==
  \/ /\ part = "records" /\ RecordsNext
     /\ url'.active # {} => url'.pageSize = 2 /\ url'.sort = "desc"
     /\ UNCHANGED <<part, dialogVars, tableVars, rolesVars, settingsVars, reviewVars>>
  \/ /\ part = "tasks" /\ TasksNext
     /\ info'.bases = info.bases /\ info'.validators = info.validators
     /\ UNCHANGED <<part, recordsVars, tableVars, rolesVars, settingsVars, reviewVars>>
  \/ part = "marc" /\ SelectResults /\ UNCHANGED <<part, recordsVars, dialogVars, rolesVars, settingsVars, reviewVars>>
  \/ part = "roles" /\ RolesNext /\ UNCHANGED <<part, recordsVars, dialogVars, tableVars, settingsVars, reviewVars>>
  \/ part = "settings" /\ SettingsNext /\ UNCHANGED <<part, recordsVars, dialogVars, tableVars, rolesVars, reviewVars>>
  \/ /\ part = "reviewers" => UNCHANGED <<shown, fetched>>
     /\ part \in {"reviewers", "button"} /\ ReviewsNext
     /\ shown'.rec = "r2" => shown'.aspect = "c"
     /\ part = "button" /\ task'.at # "idle" => task'.type # "SyncRecords"
     /\ UNCHANGED <<part, recordsVars, dialogVars, tableVars, rolesVars, settingsVars>>

Spec == Init /\ [][Next]_vars
===============================================================================
