----------------------------- MODULE SettingsForm -----------------------------
(***************************************************************************)
(* The settings page: one form at a time, for the scope chosen, over a     *)
(* document that the server keeps whole.  Refetched documents move the     *)
(* baseline of a form under the edits in progress.  The rows of the field  *)
(* arrays of catalog and authority-linkers are left out.                   *)
(***************************************************************************)
EXTENDS Integers, FiniteSetsExt, TLC

CONSTANTS
  Edited,         \* scope -> its fields that are edited, here or elsewhere
  Offered,        \* target bases of the enabled linkers
  Gone,           \* bases once offered
  MaxOtherSaves   \* documents saved by other administrators

VARIABLES
  saved,    \* scope -> its document on the server
  cached,   \* scope -> its document as last fetched, or Unknown
  scope,    \* activeScope
  form,     \* the form mounted, or NoForm
  asking,   \* pendingScope, or "none"
  posted,   \* the save under way, or NoSave
  others

settingsVars == <<saved, cached, scope, form, asking, posted, others>>
-----------------------------------------------------------------------------
(* What a field's input produces, what the schema accepts of it, and its   *)
(* value in the form of a document that lacks it.  An emptied number is 0. *)

Text(default) == [takes |-> {"", "x", "y"}, valid |-> {"x", "y"}, default |-> default]
Toggle(default) == [takes |-> BOOLEAN, valid |-> BOOLEAN, default |-> default]
NumberIn(lo, hi, default) ==
  [takes |-> {0, lo, hi, hi + 1}, valid |-> {n \in {0, lo, hi} : n >= lo}, default |-> default]
NumberFrom(lo) == [takes |-> {0, lo, lo + 1}, valid |-> {n \in {0, lo, lo + 1} : n >= lo}, default |-> lo]
Boxes(S) == [takes |-> SUBSET S, valid |-> (SUBSET S) \ {{}}, default |-> {}]

CatalogClientForm ==
  [base |-> Text(""), host |-> Text(""), endpoint |-> Text("x"), timeout |-> NumberIn(1, 300, 30),
   total_retry |-> NumberIn(0, 20, 5), retry_backoff_factor |-> NumberIn(0, 10, 1),
   system_number_pattern |-> Text("x"), oai_sets |-> Text(""), oai_identifier_template |-> Text("")]
TaskSettingsForm ==
  [progress_update_interval |-> NumberFrom(1), commit_interval |-> NumberFrom(1),
   analytics_rebuild_interval |-> NumberFrom(0)]
AuthorityLinkingSettingsForm == [api_url |-> Text("x")]
ComparisonSettingsForm ==
  [ollama_url |-> Text("x"), llm_enabled |-> Toggle(FALSE), nonstandard_llm_enabled |-> Toggle(FALSE),
   excellent_threshold |-> NumberIn(0, 100, 6), moderate_threshold |-> NumberIn(0, 100, 12)]
ValidationSettingsForm ==
  [url_to_pid_pattern |-> Text(""), url_to_pid_wrong_path_pattern |-> Text(""),
   url_to_pid_fallback_pattern |-> Text(""), link_text_pattern |-> Text(""),
   kramerius_host |-> Text(""), kramerius_client_url |-> Text(""), solr_cloud |-> Toggle(TRUE)]
\* A box for each base offered; a stored base without one stays ticked.
ProcessRecordsSettingsForm ==
  [target_bases |-> Boxes(Offered \cup Gone), authority_linkers |-> Boxes({"knihovny-cz"}),
   validators |-> Boxes({"kramerius-links"})]
MaintenanceSettingsForm ==
  [task_cleanup_enabled |-> Toggle(TRUE), task_cleanup_interval_hours |-> NumberIn(1, 720, 1),
   task_cleanup_max_age_days |-> NumberIn(1, 365, 1),
   sector_compaction_enabled |-> Toggle(TRUE), sector_compaction_interval_hours |-> NumberIn(1, 720, 1)]

SettingsForms ==
  [catalog |-> CatalogClientForm, tasks |-> TaskSettingsForm,
   authority_linkers |-> AuthorityLinkingSettingsForm, comparators |-> ComparisonSettingsForm,
   validators |-> ValidationSettingsForm, process_records |-> ProcessRecordsSettingsForm,
   maintenance |-> MaintenanceSettingsForm]

Scopes == DOMAIN Edited

ASSUME SettingsAssumption ==
  /\ MaxOtherSaves \in Nat /\ Offered \cap Gone = {} /\ Scopes \subseteq DOMAIN SettingsForms
  /\ \A s \in Scopes : Edited[s] \subseteq DOMAIN SettingsForms[s]

\* The documents the server stores, of the fields edited; the tool of a
\* scope may have no configuration yet.
Missing == [status |-> "missing"]
Unknown == [status |-> "unknown"]
Valid(s, doc) == \A f \in Edited[s] : doc[f] \in SettingsForms[s][f].valid
\* Every valid choice of a value for each of them.
FilledIn(s) ==
  FoldSet(LAMBDA f, docs : {doc @@ (f :> v) : doc \in docs, v \in SettingsForms[s][f].valid},
          {<<>>}, Edited[s])
Documents(s) ==
  {[f \in Edited[s] |-> choice[f]] : choice \in FilledIn(s)}
  \cup (IF s \in {"comparators", "validators", "authority_linkers"} THEN {Missing} ELSE {})

DefaultValues(s, data) ==
  IF data = Missing THEN [f \in Edited[s] |-> SettingsForms[s][f].default] ELSE data

NoForm == [draft |-> <<>>, base |-> <<>>, edited |-> {}]
NoSave == [scope |-> "none", doc |-> <<>>]
-----------------------------------------------------------------------------
(* The form: draft, baseline and the fields that react-hook-form holds     *)
(* for edited (dirtyFields).                                               *)

RenderForm(s, data) ==
  IF data = Unknown THEN NoForm
  ELSE [draft |-> DefaultValues(s, data), base |-> DefaultValues(s, data), edited |-> {}]

IsDirty == form.draft # form.base

\* Mutated NewBaseline: what is fetched replaces the draft.
NewBaselineOnly(values) == {[draft |-> values, base |-> values, edited |-> {}]}

\* The values prop with keepDirtyValues: edited fields keep the draft.
\* Whether one that now equals its baseline still counts as edited is left
\* open.
NewBaseline(values) ==
  LET draft == [f \in DOMAIN values |-> IF f \in form.edited THEN form.draft[f] ELSE values[f]]
  IN {[draft |-> draft, base |-> values, edited |-> e] :
        e \in {form.edited, {f \in form.edited : draft[f] # values[f]}}}

SettingsInit ==
  /\ saved \in [Scopes -> UNION {Documents(s) : s \in Scopes}]
  /\ \A s \in Scopes : saved[s] \in Documents(s)
  /\ cached = [s \in Scopes |-> Unknown]
  /\ scope \in Scopes /\ form = NoForm /\ asking = "none" /\ posted = NoSave /\ others = 0

Edit ==
  /\ form # NoForm /\ asking = "none"
  /\ \E f \in Edited[scope] :
       \E v \in SettingsForms[scope][f].takes \ {form.draft[f]} :
         /\ f = "target_bases" => form.draft[f] \cap Gone = v \cap Gone
         /\ form' = [form EXCEPT !.draft[f] = v,
                                 !.edited = IF v = form.base[f] THEN @ \ {f} ELSE @ \cup {f}]
  /\ UNCHANGED <<saved, cached, scope, asking, posted, others>>

\* A draft the schema refuses is told in a toast.
Save ==
  /\ IsDirty /\ posted = NoSave /\ asking = "none" /\ Valid(scope, form.draft)
  /\ posted' = [scope |-> scope, doc |-> form.draft]
  /\ UNCHANGED <<saved, cached, scope, form, asking, others>>

\* Success stores the document and invalidates the query of the scope shown
\* by then; it leaves the form alone.
SettingsAnswered ==
  /\ posted # NoSave
  /\ posted' = NoSave
  /\ saved' \in {saved, [saved EXCEPT ![posted.scope] = posted.doc]}
  /\ UNCHANGED <<cached, scope, form, asking, others>>

\* On mounting, after a save, when the window is focused: the scope shown.
Fetched ==
  /\ cached' = [cached EXCEPT ![scope] = saved[scope]]
  /\ IF form = NoForm THEN form' = RenderForm(scope, saved[scope])
     ELSE IF cached' = cached THEN UNCHANGED form
     ELSE form' \in NewBaseline(DefaultValues(scope, saved[scope]))
  /\ UNCHANGED <<saved, scope, asking, posted, others>>

OtherSaves ==
  /\ others < MaxOtherSaves /\ others' = others + 1
  /\ \E s \in Scopes : saved' \in {[saved EXCEPT ![s] = doc] : doc \in Documents(s) \ {saved[s], Missing}}
  /\ UNCHANGED <<cached, scope, form, asking, posted>>
-----------------------------------------------------------------------------
Switched(s) == scope' = s /\ form' = RenderForm(s, cached[s])

HandleScopeChange ==
  /\ asking = "none"
  /\ \E s \in Scopes \ {scope} :
       IF IsDirty THEN asking' = s /\ UNCHANGED <<scope, form>>
       ELSE Switched(s) /\ UNCHANGED asking
  /\ UNCHANGED <<saved, cached, posted, others>>

HandleDiscardAndSwitch ==
  /\ asking # "none" /\ Switched(asking) /\ asking' = "none"
  /\ UNCHANGED <<saved, cached, posted, others>>

KeepEditing ==
  asking # "none" /\ asking' = "none" /\ UNCHANGED <<saved, cached, scope, form, posted, others>>

Discard ==
  /\ IsDirty /\ asking = "none"
  /\ form' = RenderForm(scope, cached[scope])
  /\ UNCHANGED <<saved, cached, scope, asking, posted, others>>
-----------------------------------------------------------------------------
SettingsNext ==
  \/ Edit \/ Save \/ SettingsAnswered \/ Fetched \/ OtherSaves
  \/ HandleScopeChange \/ HandleDiscardAndSwitch \/ KeepEditing \/ Discard

SettingsSpec == SettingsInit /\ [][SettingsNext]_settingsVars
-----------------------------------------------------------------------------
\* Whatever is saved, answered or refetched meanwhile, an edit that differs
\* from the baseline is lost only when it is edited again or discarded, and
\* the page shows another scope only once nothing is unsaved or after asking.
DraftKept ==
  [][IsDirty =>
       \/ Edit \/ Discard \/ HandleDiscardAndSwitch
       \/ /\ scope' = scope
          /\ \A f \in DOMAIN form.draft :
               form.draft[f] # form.base[f] => form'.draft[f] = form.draft[f]]_settingsVars
===============================================================================
