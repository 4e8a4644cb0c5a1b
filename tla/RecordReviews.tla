---------------------------- MODULE RecordReviews ----------------------------
(***************************************************************************)
(* The reviews of a record's aspects: the rows and their analytics on the  *)
(* server, statement by statement under READ COMMITTED, and the review     *)
(* button of one reviewer's tab, which decides what to ask for from        *)
(* reviews fetched earlier.  Other reviewers ask for anything at any time. *)
(*                                                                         *)
(* An aspect is a comparator or a validator; the carousel has one button   *)
(* for either kind, which stays mounted when the next record is shown in   *)
(* the same kind of view.  A call is a request of a button until its       *)
(* answer.  Notes are left out, and every result is one that needs a       *)
(* review.                                                                 *)
(***************************************************************************)
EXTENDS Integers, Sequences, FiniteSets

CONSTANTS
  Reviewed,    \* the records
  Comparators, Checkers,   \* the aspects: comparators and validators
  Reviewers,   \* users who may review
  Contested,   \* <<record, aspect>> that others review and whose record tasks change
  Me,          \* the one whose tab is modelled
  Managers,    \* those of them with ManageReviews
  Calls,       \* requests under way at once
  MaxRequests, \* creations and deletions asked for
  MaxTasks,    \* tasks that outdate reviews
  MaxLost      \* requests or answers that are lost

Aspects == Comparators \cup Checkers

ASSUME ReviewsAssumption ==
  /\ Comparators \cap Checkers = {} /\ "none" \notin Aspects
  /\ Me \in Reviewers /\ Managers \subseteq Reviewers /\ Contested \subseteq Reviewed \X Aspects
  /\ {MaxRequests, MaxTasks, MaxLost} \subseteq Nat

VARIABLES
  reviews,    \* the committed rows, in the order of their creation
  analytics,  \* record -> reviewed_aspects of its analytics row
  call,       \* call -> the request, or NoRequest
  task,       \* the task that changes results, and how often one has run
  shown,      \* the record and the aspect in the carousel
  fetched,     \* record -> its current reviews as fetched
  invalid,    \* records whose reviews are to be fetched
  asked,      \* requests made so far
  lost,       \* requests and answers lost so far
  overlapped, \* history: <<record, aspect>> created for next to a creation not seen
  lagging,    \* history: records whose last change no refresh followed, or an older one did
  told,       \* history: <<review, status>> that an answer confirmed
  missed      \* history: records whose change invalidated another's reviews

reviewVars ==
  <<reviews, analytics, call, task, shown, fetched, invalid, asked, lost, overlapped, lagging, told, missed>>
serverVars == <<reviews, analytics, task, overlapped, lagging>>
tabVars == <<shown, fetched, invalid, told, missed>>

Buttons == {Comparators, Checkers}
NoRequest == [at |-> "idle"]
Idle == [at |-> "idle", runs |-> 0]

\* What a statement sees: the committed current reviews of a record.
Current(r) == {i \in DOMAIN reviews : reviews[i].rec = r /\ reviews[i].status = "current"}
CurrentOf(r, a) == {i \in Current(r) : reviews[i].aspect = a}
ReviewedAspects(r) == {reviews[i].aspect : i \in Current(r)}

\* At most one review has been made before.
ReviewsInit ==
  /\ reviews \in {<<>>} \cup {<<x>> : x \in [rec : Reviewed, aspect : Aspects, by : Reviewers, status : {"current"}]}
  /\ analytics = [r \in Reviewed |-> ReviewedAspects(r)]
  /\ call = [c \in Calls |-> NoRequest] /\ task \in {[Idle EXCEPT !.runs = n] : n \in 0..MaxTasks}
  /\ shown \in [rec : Reviewed, aspect : Aspects \cup {"none"}]
  /\ fetched = [r \in Reviewed |-> {}] /\ invalid = Reviewed
  /\ asked \in 0..MaxRequests /\ lost \in 0..MaxLost /\ overlapped = {} /\ lagging = {} /\ told = {} /\ missed = {}

\* Rows that an open transaction has updated.
Locked(i) ==
  \/ task.at = "marked" /\ i \in task.ids
  \/ \E c \in Calls : call[c].at = "marked" /\ i \in call[c].ids

\* A committed change of a record's reviews: refreshes that have read before
\* it are overtaken.
WithStatus(ids, status) ==
  [i \in DOMAIN reviews |-> IF i \in ids THEN [reviews[i] EXCEPT !.status = status] ELSE reviews[i]]
Overtaking(r, calls) ==
  [c \in Calls |-> IF calls[c].at = "snapshot" /\ calls[c].rec = r
                   THEN [calls[c] EXCEPT !.old = TRUE] ELSE calls[c]]
-----------------------------------------------------------------------------
(* create_review *)

\* Mutated Scan: each reviewer supersedes their own review.
ScanOwn(c) ==
  /\ call[c].at = "sent" /\ call[c].kind = "create"
  /\ call' = [call EXCEPT ![c].at = "scanned",
                ![c].ids = {i \in CurrentOf(call[c].rec, call[c].aspect) : reviews[i].by = call[c].user}]
  /\ UNCHANGED <<serverVars, tabVars, asked, lost>>

\* supersede_current starts with the rows it sees ...
Scan(c) ==
  /\ call[c].at = "sent" /\ call[c].kind = "create"
  /\ call' = [call EXCEPT ![c].at = "scanned", ![c].ids = CurrentOf(call[c].rec, call[c].aspect)]
  /\ UNCHANGED <<serverVars, tabVars, asked, lost>>

\* ... waits for those that others have updated, and leaves out what is no
\* longer current then.
Mark(c) ==
  /\ call[c].at = "scanned" /\ \A i \in call[c].ids : ~Locked(i)
  /\ call' = [call EXCEPT ![c].at = "marked", ![c].ids = @ \cap Current(call[c].rec)]
  /\ UNCHANGED <<serverVars, tabVars, asked, lost>>

\* save() inserts the review and commits.
CommitCreate(c) ==
  LET q == call[c]
      key == <<q.rec, q.aspect>>
      others == {d \in Calls \ {c} : call[d].at \in {"scanned", "marked"} /\ <<call[d].rec, call[d].aspect>> = key}
      done == [d \in Calls |-> CASE d = c -> [q EXCEPT !.at = "stored", !.ids = {Len(reviews) + 1}]
                                 [] d \in others -> [call[d] EXCEPT !.raced = TRUE]
                                 [] OTHER -> call[d]]
  IN /\ q.at = "marked"
     /\ reviews' = Append(WithStatus(q.ids, "superseded"),
                          [rec |-> q.rec, aspect |-> q.aspect, by |-> q.user, status |-> "current"])
     /\ call' = Overtaking(q.rec, done)
     /\ overlapped' = IF q.raced THEN overlapped \cup {key} ELSE overlapped \ {key}
     /\ UNCHANGED <<analytics, task, lagging, tabVars, asked, lost>>

(* delete_review *)

Fails(c) == call' = [call EXCEPT ![c] = [@ EXCEPT !.at = "done", !.ids = {}, !.seen = {}, !.old = FALSE, !.ok = FALSE]]

\* find_current: nothing to delete, more than one row (one_or_none raises),
\* or somebody else's.
Find(c) ==
  LET q == call[c]  found == CurrentOf(q.rec, q.aspect)
  IN /\ q.at = "sent" /\ q.kind = "delete"
     /\ IF Cardinality(found) = 1 /\ (q.user \in Managers \/ \A i \in found : reviews[i].by = q.user)
        THEN call' = [call EXCEPT ![c].at = "found", ![c].ids = found]
        ELSE Fails(c)
     /\ UNCHANGED <<serverVars, tabVars, asked, lost>>

Superseded(c, next) ==
  /\ call[c].at = "found" /\ \A i \in call[c].ids : ~Locked(i)
  /\ reviews' = WithStatus(call[c].ids, "superseded")
  /\ call' = Overtaking(call[c].rec, [call EXCEPT ![c].at = next])
  /\ UNCHANGED <<analytics, task, overlapped, lagging, tabVars, asked, lost>>

\* Mutated CommitDelete: the analytics are left to the next rebuild.
CommitDeleteOnly(c) == Superseded(c, "done")

\* The row is updated by its key, whatever has become of its status.
CommitDelete(c) == Superseded(c, "stored")

(* upsert_records: one statement, which reads the reviews and writes the    *)
(* analytics row later, when nobody else holds it.                         *)

Snapshot(c) ==
  /\ call[c].at = "stored"
  /\ call' = [call EXCEPT ![c].at = "snapshot", ![c].seen = ReviewedAspects(call[c].rec), ![c].old = FALSE]
  /\ UNCHANGED <<serverVars, tabVars, asked, lost>>

Refresh(c) ==
  /\ call[c].at = "snapshot"
  /\ analytics' = [analytics EXCEPT ![call[c].rec] = call[c].seen]
  /\ lagging' = IF call[c].old THEN lagging \cup {call[c].rec} ELSE lagging \ {call[c].rec}
  /\ call' = [call EXCEPT ![c].at = "done", ![c].seen = {}, ![c].old = FALSE]
  /\ UNCHANGED <<reviews, task, overlapped, tabVars, asked, lost>>

\* The process or the connection dies: the open transaction is rolled back.
\* After the commit the review stays and its analytics may not follow.
Lose(c) ==
  /\ call[c].at # "idle" /\ (call[c].at = "done" => call[c].ok) /\ lost < MaxLost
  /\ lost' = lost + 1 /\ Fails(c) /\ UNCHANGED asked
  /\ lagging' = IF call[c].at \in {"stored", "snapshot"} THEN lagging \cup {call[c].rec} ELSE lagging
  /\ UNCHANGED <<reviews, analytics, task, overlapped, tabVars>>
-----------------------------------------------------------------------------
(* Tasks: outdate_current for changed results of an aspect or, when new     *)
(* bytes are fetched, for all of them.  ProcessRecords stands for the tasks *)
(* of the first kind, SyncRecords and FetchRecord for those of the second.  *)

ANALYTICS_REBUILD_TASK_TYPES == {"SyncRecords", "ProcessRecords"}
OutdatedAspects(type) == IF type = "ProcessRecords" THEN {{a} : a \in Aspects} ELSE {Aspects}

OutdateScan ==
  /\ task.at = "idle" /\ task.runs < MaxTasks
  /\ \E k \in Contested, type \in ANALYTICS_REBUILD_TASK_TYPES \cup {"FetchRecord"} :
       \E A \in OutdatedAspects(type) :
         task' = [at |-> "scanned", type |-> type, rec |-> k[1], runs |-> task.runs + 1,
                  ids |-> {i \in Current(k[1]) : reviews[i].aspect \in A}]
  /\ UNCHANGED <<reviews, analytics, overlapped, lagging, call, tabVars, asked, lost>>

OutdateMark ==
  /\ task.at = "scanned" /\ \A i \in task.ids : ~Locked(i)
  /\ task' = [task EXCEPT !.at = "marked", !.ids = @ \cap Current(task.rec)]
  /\ UNCHANGED <<reviews, analytics, overlapped, lagging, call, tabVars, asked, lost>>

OutdateCommit ==
  /\ task.at = "marked"
  /\ reviews' = WithStatus(task.ids, "outdated")
  /\ call' = Overtaking(task.rec, call)
  /\ task' = [task EXCEPT !.at = "committed"]
  /\ UNCHANGED <<analytics, overlapped, lagging, tabVars, asked, lost>>

\* The outcome's event, if it is not lost, makes the tab drop what it fetched.
Published ==
  /\ invalid' \in {invalid, Reviewed}
  /\ task' = [Idle EXCEPT !.runs = task.runs]

\* The record whose reviews the task has outdated.
Outdated == IF task.at = "committed" /\ task.ids # {} THEN {task.rec} ELSE {}

Unrefreshed ==
  /\ lagging' = lagging \cup Outdated
  /\ Published
  /\ UNCHANGED <<reviews, analytics, overlapped, call, shown, fetched, told, missed, asked, lost>>

\* rebuild_all locks the whole table: it waits for a refresh, and a refresh
\* for it.
TaskSucceeds ==
  /\ task.at = "committed" /\ task.type \in ANALYTICS_REBUILD_TASK_TYPES
  /\ \A c \in Calls : call[c].at # "snapshot"
  /\ analytics' = [r \in Reviewed |-> ReviewedAspects(r)] /\ lagging' = {}
  /\ Published
  /\ UNCHANGED <<reviews, overlapped, call, shown, fetched, told, missed, asked, lost>>

\* A fetch of one record is no type that rebuilds, and it upserts nothing.
FetchSucceeds ==
  /\ task.at = "committed" /\ task.type \notin ANALYTICS_REBUILD_TASK_TYPES
  /\ Unrefreshed

\* A task that fails, or whose rebuild does, leaves the analytics as they are,
\* although its commits stay.
TaskFails == task.at # "idle" /\ Unrefreshed
-----------------------------------------------------------------------------
(* Requests *)

Sent(q) ==
  LET free == {c \in Calls : call[c] = NoRequest}
  IN /\ free # {} /\ asked < MaxRequests /\ asked' = asked + 1
     /\ call' = [call EXCEPT ![CHOOSE c \in free : TRUE] = q]

Request(u, kind, r, a) ==
  [at |-> "sent", kind |-> kind, user |-> u, rec |-> r, aspect |-> a, target |-> r, bound |-> u = Me,
   ids |-> {}, seen |-> {}, old |-> FALSE, raced |-> FALSE, ok |-> TRUE]

OthersAsk ==
  /\ \E u \in Reviewers \ {Me}, k \in Contested, kind \in {"create", "delete"} :
       Sent(Request(u, kind, k[1], k[2]))
  /\ UNCHANGED <<serverVars, tabVars, lost>>

(* The tab.  The mounted button of a view, {} for none, is busy with the    *)
(* calls made since it was mounted.                                        *)

Button(view) == IF view.aspect = "none" THEN {} ELSE CHOOSE B \in Buttons : view.aspect \in B
IsPending(kind) == \E c \in Calls : call[c].at # "idle" /\ call[c].kind = kind /\ call[c].bound

CurrentReview == {i \in fetched[shown.rec] : reviews[i].aspect = shown.aspect}

\* "Mark as reviewed" is offered as long as no review has been fetched, also
\* before the first answer.
SubmitReview ==
  /\ shown.aspect # "none" /\ CurrentReview = {} /\ ~IsPending("create")
  /\ Sent(Request(Me, "create", shown.rec, shown.aspect))
  /\ UNCHANGED <<serverVars, tabVars, lost>>

\* "Remove" is offered for any review; the server knows whose it is.
HandleRemove ==
  /\ shown.aspect # "none" /\ CurrentReview # {} /\ ~IsPending("delete")
  /\ Sent(Request(Me, "delete", shown.rec, shown.aspect))
  /\ UNCHANGED <<serverVars, tabVars, lost>>

\* Another record or view.  A button that stays mounted passes its new record
\* on to its pending mutations, one that goes away leaves them as they are.
ReviewButton ==
  \E r \in Reviewed, a \in Aspects \cup {"none"} :
    LET view == [rec |-> r, aspect |-> a]
        stays == a # "none" /\ Button(view) = Button(shown)
    IN /\ view # shown /\ shown' = view
       /\ call' = [c \in Calls |->
            IF call[c].at # "idle" /\ call[c].bound
            THEN [call[c] EXCEPT !.bound = stays, !.target = IF stays THEN r ELSE @]
            ELSE call[c]]
       /\ UNCHANGED <<serverVars, fetched, invalid, told, missed, asked, lost>>

\* An invalidated query is fetched once its record is shown (none grows old
\* here).
UseRecordReviews ==
  LET r == shown.rec
  IN /\ r \in invalid /\ invalid' = invalid \ {r} /\ missed' = missed \ {r}
     /\ fetched' = [fetched EXCEPT ![r] = Current(r)]
     /\ UNCHANGED <<serverVars, shown, told, call, asked, lost>>

ReviewAnswered(c, invalidated) ==
  LET q == call[c]
  IN /\ q.at = "done" /\ call' = [call EXCEPT ![c] = NoRequest]
     /\ IF q.ok /\ q.user = Me
        THEN /\ invalid' = invalid \cup invalidated
             /\ missed' = missed \cup ({q.rec} \ {q.target})
             /\ told' = told \cup
                  {<<i, IF q.kind = "create" THEN "current" ELSE "superseded">> : i \in q.ids}
        ELSE UNCHANGED <<invalid, missed, told>>
     /\ UNCHANGED <<serverVars, shown, fetched, asked, lost>>

Target(c) == IF call[c].at = "idle" THEN {} ELSE {call[c].target}

\* Mutated OnSuccess: only creations invalidate the reviews.
OnSuccessOfCreate(c) == ReviewAnswered(c, IF IsPending("create") THEN Target(c) ELSE {})

\* onSuccess of the mutation: the reviews of the record it has by now.
OnSuccess(c) == ReviewAnswered(c, Target(c))
-----------------------------------------------------------------------------
ReviewsNext ==
  \/ \E c \in Calls :
       \/ Scan(c) \/ Mark(c) \/ CommitCreate(c) \/ Find(c) \/ CommitDelete(c)
       \/ Snapshot(c) \/ Refresh(c) \/ Lose(c) \/ OnSuccess(c)
  \/ OutdateScan \/ OutdateMark \/ OutdateCommit \/ TaskSucceeds \/ FetchSucceeds \/ TaskFails
  \/ OthersAsk \/ SubmitReview \/ HandleRemove \/ ReviewButton \/ UseRecordReviews

ReviewsSpec == ReviewsInit /\ [][ReviewsNext]_reviewVars
-----------------------------------------------------------------------------
\* An aspect has one current review, whatever reviewers, deletions and tasks
\* do at once, except after two creations for it overlapped, and then only
\* until the next one: supersede_current and the insert are no atomic step.
CurrentIsUnique ==
  \A r \in Reviewed, a \in Aspects :
    <<r, a>> \notin overlapped => Cardinality(CurrentOf(r, a)) <= 1

\* When no request or task is between its commit and its outcome, the
\* analytics name the aspects with a current review, except from a change that
\* no refresh followed, or one that had read before it, to the next refresh:
\* a request or a task died, a rebuild failed, or a single record was fetched
\* again, which outdates its reviews and refreshes nothing.
AnalyticsFollow ==
  \A r \in Reviewed \ (lagging \cup Outdated) :
    \/ analytics[r] = ReviewedAspects(r)
    \/ \E c \in Calls : call[c].at \in {"stored", "snapshot"} /\ call[c].rec = r

\* Reviewers see what was confirmed to them: the record shown has a created
\* review as long as it is current, and no deleted one, unless the record was
\* changed by a button that had moved on to another when the answer came.
OwnSeen ==
  LET r == shown.rec
  IN r \notin invalid \cup missed =>
       \A m \in told : reviews[m[1]].rec = r =>
         IF m[2] = "current"
         THEN reviews[m[1]].status = "current" => m[1] \in fetched[r]
         ELSE m[1] \notin fetched[r]
===============================================================================
