----------------------------- MODULE RecordTasks -----------------------------
(***************************************************************************)
(* The dialogs that start tasks for the records of a filter, all of them   *)
(* (RecordTaskActions) or linking, comparison and validation by themselves *)
(* (AdvancedTaskActions).  They offer what system information lists, which *)
(* changes when an administrator edits the settings and the query is       *)
(* refetched, also while a dialog is open.                                 *)
(***************************************************************************)
EXTENDS Integers, Sequences, FiniteSets

CONSTANTS
  Linkers, Bases, Validators,
  MaxPosts,      \* requests under way
  MaxChanges     \* changes of the system information

ASSUME TasksAssumption == MaxPosts \in Nat /\ MaxChanges \in Nat

VARIABLES
  info,          \* enabled linkers with their target bases, bases, validators
  changes,
  dialog,        \* the dialog shown, or "none"
  picked,        \* its selections, kept when it is closed
  posts,         \* requests under way, with the dialog that sent them
  offered        \* pairs of a base and a linker offered since its dialog opened

dialogVars == <<info, changes, dialog, picked, posts, offered>>

Infos == [linkers : [Linkers -> SUBSET Bases], bases : SUBSET Bases, validators : SUBSET Validators]

Nobody == [base |-> "none", linkers |-> {}, comparisons |-> {}, validators |-> {}]

\* The one element of a singleton is chosen in advance.
Preselected(S) == IF Cardinality(S) = 1 THEN S ELSE {}

AvailableBases == UNION {info.linkers[l] : l \in Linkers}
Compatible(base) == {l \in Linkers : base \in info.linkers[l]}
Pairs(i) == {q \in Bases \X Linkers : q[1] \in i.linkers[q[2]]}

TasksInit ==
  /\ info \in Infos /\ changes = 0 /\ dialog = "none"
  /\ picked = Nobody /\ posts = {} /\ offered = {}

\* isBusy: a mutation of the component is pending.
IsBusy(d) == \E p \in posts : (p.task = "process") = (d = "process")
-----------------------------------------------------------------------------
Opened(d, p) ==
  /\ dialog = "none" /\ ~IsBusy(d)
  /\ dialog' = d /\ picked' = p
  /\ offered' = IF d = "link" THEN Pairs(info) ELSE offered
  /\ UNCHANGED <<info, changes, posts>>

OpenProcess == Opened("process", picked)

OpenCompare ==
  info.bases # {} /\ Opened("compare", [picked EXCEPT !.comparisons = Preselected(info.bases)])

\* Mutated WithBase: the linkers chosen for another base are kept.
WithBaseOnly(base) == [picked EXCEPT !.base = base]

WithBase(base) == [picked EXCEPT !.base = base, !.linkers = Preselected(Compatible(base))]

OpenLinkAuthorities ==
  Opened("link", IF Cardinality(AvailableBases) = 1
                 THEN WithBase(CHOOSE b \in AvailableBases : TRUE)
                 ELSE [picked EXCEPT !.base = "none", !.linkers = {}])

OpenValidate == Opened("validate", [picked EXCEPT !.validators = Preselected(info.validators)])

Picks(p) == picked' = p /\ UNCHANGED <<info, changes, dialog, posts, offered>>

Flipped(S, x) == IF x \in S THEN S \ {x} ELSE S \cup {x}

\* Choosing another base starts the selection of linkers anew.
SelectBase ==
  dialog = "link" /\ \E b \in AvailableBases \ {picked.base} : Picks(WithBase(b))
ToggleLinker ==
  /\ dialog = "link"
  /\ \E l \in Compatible(picked.base) : Picks([picked EXCEPT !.linkers = Flipped(@, l)])
ToggleBase ==
  /\ dialog = "compare"
  /\ \E b \in info.bases : Picks([picked EXCEPT !.comparisons = Flipped(@, b)])
ToggleValidator ==
  /\ dialog = "validate"
  /\ \E v \in info.validators : Picks([picked EXCEPT !.validators = Flipped(@, v)])

Cancel == dialog # "none" /\ dialog' = "none" /\ UNCHANGED <<info, changes, picked, posts, offered>>
-----------------------------------------------------------------------------
(* Confirming: one request, or one for each base compared with. *)

Post(ps) ==
  /\ posts' = posts \cup ps /\ Cardinality(posts') <= MaxPosts
  /\ dialog' = "none"
  /\ UNCHANGED <<info, changes, picked, offered>>

ConfirmProcess ==
  dialog = "process" /\ Post({[task |-> "process", base |-> "none", tools |-> {}]})
ConfirmCompare ==
  /\ dialog = "compare" /\ picked.comparisons # {}
  /\ Post({[task |-> "compare", base |-> b, tools |-> {}] : b \in picked.comparisons})
ConfirmLinkAuthorities ==
  /\ dialog = "link" /\ picked.base # "none" /\ picked.linkers # {}
  /\ Post({[task |-> "link", base |-> picked.base, tools |-> picked.linkers]})
ConfirmValidate ==
  /\ dialog = "validate" /\ picked.validators # {}
  /\ Post({[task |-> "validate", base |-> "none", tools |-> picked.validators]})

\* Success invalidates the list of tasks, an error is told in a toast; the
\* first error of a comparison ends the mutation, whatever the others do.
Answered ==
  /\ \E p \in posts :
       posts' \in {posts \ {p}, {q \in posts : {p.task, q.task} # {"compare"} /\ q # p}}
  /\ UNCHANGED <<info, changes, dialog, picked, offered>>

\* A refetch brings other settings.
InfoChanges ==
  /\ changes < MaxChanges /\ changes' = changes + 1
  /\ info' \in Infos \ {info} /\ offered' = offered \cup Pairs(info')
  /\ UNCHANGED <<dialog, picked, posts>>
-----------------------------------------------------------------------------
TasksNext ==
  \/ OpenProcess \/ OpenCompare \/ OpenLinkAuthorities \/ OpenValidate
  \/ SelectBase \/ ToggleLinker \/ ToggleBase \/ ToggleValidator \/ Cancel
  \/ ConfirmProcess \/ ConfirmCompare \/ ConfirmLinkAuthorities \/ ConfirmValidate
  \/ Answered \/ InfoChanges

TasksSpec == TasksInit /\ [][TasksNext]_dialogVars
-----------------------------------------------------------------------------
\* Whatever was chosen before, in this dialog or an earlier one, a linking
\* task asks only for linkers that the system offered for its base while the
\* dialog was open.
PostedFits ==
  \A p \in posts : p.task = "link" => p.tools # {} /\ {p.base} \X p.tools \subseteq offered
===============================================================================
