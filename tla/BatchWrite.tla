----------------------------- MODULE BatchWrite -----------------------------
(***************************************************************************)
(* The tasks that fetch many records, FetchBatchOfRecords and SyncRecords  *)
(* (app/catalog_records/tasks.py), with the helpers of ManagedTask that    *)
(* commit their work every few records (app/adapters/tasks.py).            *)
(*                                                                         *)
(* What such a task learns of a record goes two ways: the row of           *)
(* catalog_records and the outdating of reviews into its transaction, the  *)
(* bytes into a SectorBuffer in memory, which is written into the          *)
(* transaction just before it is committed.  The module is about the two   *)
(* staying together while records fail, while users review and while       *)
(* process_records runs.                                                   *)
(*                                                                         *)
(* The sector storage is taken to store and return what is given to it     *)
(* (see MarcSectors for when it does); no other task writes these bytes;   *)
(* every record has a sector of its own, which never fills up.             *)
(***************************************************************************)
EXTENDS Naturals, FiniteSets, Functions

CONSTANTS Records,
          Versions,           \* contents a record may have
          FlushInterval,      \* sector_flush_interval of the task settings
          AnalyticsInterval,  \* analytics_rebuild_interval, 0 for never
          MaxItems,           \* bound on the answers of the OAI server
          MaxFaults           \* bound on errors and crashes

ASSUME VersionsAssumption == Versions \subseteq Nat \ {0}
ASSUME IntervalsAssumption ==
  FlushInterval \in Nat \ {0} /\ AnalyticsInterval \in Nat
ASSUME BoundsAssumption == MaxItems \in Nat /\ MaxFaults \in Nat

VARIABLES meta,       \* meta[r]: the committed row of catalog_records
          bytes,      \* bytes[r]: the version whose bytes are stored, or 0
          processed,  \* processed[r]: the version processed_at is about, or 0
          review,     \* review[r]: the version the current review saw, or 0
          kind,       \* which of the two tasks runs; it never changes
          at,         \* where the task is
          items,      \* answers of the OAI server so far
          progress,   \* ctx.progress
          pending,    \* what the transaction has changed
          buffer,     \* the SectorBuffer: a version for some of the records
          process,    \* the record process_records has in hand, and its version
          got,        \* got[r]: the version last handled without error (history)
          early,      \* buffered records whose rows are committed (history)
          torn,       \* buffered records whose rows were rolled back (history)
          undone,     \* bytes committed after their row was rolled back (history)
          dropped,    \* records whose buffered bytes were lost (history)
          late,       \* records reviewed or processed too late (history)
          faults

stored == <<meta, bytes, processed, review>>
histories == <<got, early, torn, undone, dropped, late>>
vars == <<meta, bytes, processed, review, kind, at, items, progress, pending,
          buffer, process, got, early, torn, undone, dropped, late, faults>>

None == 0
Contents == Versions \cup {None}
Empty == [x \in {} |-> None]
Nothing == [rows |-> Empty, unprocessed |-> {}, outdated |-> {}]
NoProcess == <<>>

TypeOK ==
  /\ meta \in [Records -> {"absent", "live", "deleted"}]
  /\ bytes \in [Records -> Contents]
  /\ processed \in [Records -> Contents]
  /\ review \in [Records -> Contents]
  /\ kind \in {"FetchBatchOfRecords", "SyncRecords"}
  /\ at \in {"next", "try", "except", "failing", "success", "failure", "dead"}
  /\ items \in 0..MaxItems
  /\ progress \in 0..(2 * MaxItems)
  /\ DOMAIN pending.rows \subseteq Records
  /\ \A r \in DOMAIN pending.rows : pending.rows[r] \in {"live", "deleted"}
  /\ pending.unprocessed \cup pending.outdated \subseteq DOMAIN pending.rows
  /\ DOMAIN buffer \subseteq Records
  /\ \A r \in DOMAIN buffer : buffer[r] \in Versions
  /\ process \in {NoProcess} \cup (Records \X Versions)
  /\ got \in [Records -> Contents]
  /\ \A s \in {early, torn, undone, dropped, late} : s \subseteq Records
  /\ faults \in 0..MaxFaults

\* Some of the records are known, processed and reviewed.
Init ==
  /\ \E known \in SUBSET Records, first \in Versions :
       LET Of(v) == [r \in Records |-> IF r \in known THEN v ELSE None]
       IN  /\ meta = [r \in Records |-> IF r \in known THEN "live" ELSE "absent"]
           /\ bytes = Of(first)
           /\ processed = Of(first)
           /\ review = Of(first)
  /\ kind \in {"FetchBatchOfRecords", "SyncRecords"}
  /\ at = "next" /\ items = 0 /\ progress = 0
  /\ pending = Nothing /\ buffer = Empty
  /\ process = NoProcess
  /\ got = [r \in Records |-> None]
  /\ early = {} /\ torn = {} /\ undone = {} /\ dropped = {} /\ late = {}
  /\ faults = 0

-------------------------------------------------------------------------------
(* One record *)

\* f with x mapped to y, as dictionaries are written.
Put(f, x, y) == [z \in DOMAIN f \cup {x} |-> IF z = x THEN y ELSE f[z]]

Answered == items < MaxItems /\ items' = items + 1
Fails == faults < MaxFaults /\ faults' = faults + 1

\* find_by_base_and_system_number, which sees the task's own flushed row.
Exists(r) == r \in DOMAIN pending.rows \/ meta[r] # "absent"

\* old_marc is not None and old_marc != record._marc; read_marc sees no buffer.
Changes(r, v) == Exists(r) /\ bytes[r] \notin {None, v}

\* Mutated Saved: only known records have their rows saved,
SavedIfKnown(r, v) ==
  [pending EXCEPT !.rows = IF Exists(r) THEN Put(@, r, "live") ELSE @]

\* the review is kept,
SavedKeepingReview(r, v) ==
  [pending EXCEPT !.rows = Put(@, r, "live"),
                  !.unprocessed = @ \cup (IF Changes(r, v) THEN {r} ELSE {})]

\* processed_at is kept.
SavedStillProcessed(r, v) ==
  [pending EXCEPT !.rows = Put(@, r, "live"),
                  !.outdated = @ \cup (IF Changes(r, v) /\ review[r] # None
                                       THEN {r} ELSE {})]

\* save_record_metadata, and what follows buffer.add when the bytes change.
\* outdate_current locks the reviews it changes.
Saved(r, v) ==
  [rows |-> Put(pending.rows, r, "live"),
   unprocessed |-> pending.unprocessed \cup (IF Changes(r, v) THEN {r} ELSE {}),
   outdated |-> pending.outdated \cup
                  (IF Changes(r, v) /\ review[r] # None THEN {r} ELSE {})]

\* The OAI server answers with version v of record r.
Handle(r, v) ==
  /\ at = "next" /\ Answered
  /\ pending' = Saved(r, v)
  /\ buffer' = Put(buffer, r, v)
  /\ got' = [got EXCEPT ![r] = v]
  /\ early' = early \ {r}
  /\ torn' = torn \ {r}
  /\ at' = "try"
  /\ UNCHANGED <<stored, kind, progress, process, undone, dropped, late, faults>>

\* The record is deleted: its row is marked if there is one.
MarkDeleted(r) ==
  /\ at = "next" /\ kind = "SyncRecords" /\ Answered
  /\ pending' = IF Exists(r)
                THEN [pending EXCEPT !.rows = Put(@, r, "deleted")]
                ELSE pending
  /\ at' = "try"
  /\ UNCHANGED <<stored, kind, progress, buffer, process, histories, faults>>

\* The record is not found, or comes without MARC data; or, in a sync, its
\* fetching failed, which does not count as progress.
Miss ==
  /\ at = "next" /\ Answered
  /\ \/ at' = "try"
     \/ kind = "SyncRecords" /\ at' = "next"
  /\ UNCHANGED <<stored, kind, progress, pending, buffer, process, histories, faults>>

\* Mutated Raise: the buffer is emptied as well.
RaiseClearing(r, v, buffered) ==
  /\ at = "next" /\ Answered /\ Fails
  /\ pending' = Nothing
  /\ buffer' = Empty
  /\ got' = IF buffered THEN [got EXCEPT ![r] = None] ELSE got
  /\ early' = {} /\ torn' = {}
  /\ at' = "except"
  /\ UNCHANGED <<stored, kind, progress, process, undone, dropped, late>>

\* An error in the handling of record r, after its bytes were buffered if
\* buffered is true: the transaction is rolled back, the buffer stays.
Raise(r, v, buffered) ==
  /\ at = "next" /\ Answered /\ Fails
  /\ pending' = Nothing
  /\ buffer' = IF buffered THEN Put(buffer, r, v) ELSE buffer
  /\ got' = IF buffered THEN [got EXCEPT ![r] = None] ELSE got
  /\ early' = IF buffered THEN early \ {r} ELSE early
  /\ torn' = DOMAIN buffer' \ early'
  /\ at' = "except"
  /\ UNCHANGED <<stored, kind, progress, process, undone, dropped, late>>

\* list_records raises in the middle of a sync: the exception leaves the body.
ListFails ==
  /\ at = "next" /\ kind = "SyncRecords" /\ Fails
  /\ at' = "failing"
  /\ UNCHANGED <<stored, kind, items, progress, pending, buffer, process, histories>>

-------------------------------------------------------------------------------
(* Commits *)

\* What the transaction and the bytes b make of the four columns.
Stores(b) ==
  /\ meta' = [r \in Records |-> IF r \in DOMAIN pending.rows THEN pending.rows[r] ELSE meta[r]]
  /\ bytes' = [r \in Records |-> IF r \in DOMAIN b THEN b[r] ELSE bytes[r]]
  /\ processed' = [r \in Records |->
                     IF r \in pending.unprocessed THEN None ELSE processed[r]]
  /\ review' = [r \in Records |-> IF r \in pending.outdated THEN None ELSE review[r]]

\* Mutated CommitAll: before_commit is not called.
CommitUnflushed ==
  /\ Stores(Empty)
  /\ pending' = Nothing
  /\ early' = {} /\ torn' = {}
  /\ UNCHANGED <<buffer, undone, dropped>>

\* cycle_session and __aexit__: before_commit flushes the buffer, then commit.
CommitAll ==
  /\ Stores(buffer)
  /\ pending' = Nothing
  /\ buffer' = Empty
  /\ undone' = undone \cup torn
  /\ early' = {} /\ torn' = {}
  /\ dropped' = dropped \ DOMAIN buffer

\* rebuild_all commits the session it is given, without flushing the buffer.
CommitRows ==
  /\ Stores(Empty)
  /\ pending' = Nothing
  /\ early' = DOMAIN buffer \ torn
  /\ UNCHANGED <<buffer, torn, undone, dropped>>

\* A flush that fails has taken at least one sector out of the buffer, and a
\* commit that fails comes after all of them.
Loses(kept) ==
  /\ kept \subseteq DOMAIN buffer /\ (kept = DOMAIN buffer => kept = {})
  /\ buffer' = Restrict(buffer, kept)
  /\ early' = early \cap kept
  /\ dropped' = dropped \cup (DOMAIN buffer \ kept)

Counting == at \in {"try", "except"}
Due(interval) == interval > 0 /\ (progress + 1) % interval = 0

\* Mutated Counts: progress counts the record twice.
CountsTwice == progress' = progress + 2

Counts == progress' = progress + 1

\* handle_batch_progress_snippet: nothing is due,
Count ==
  /\ Counting /\ Counts
  /\ ~Due(FlushInterval) /\ ~Due(AnalyticsInterval)
  /\ at' = "next"
  /\ UNCHANGED <<stored, kind, items, pending, buffer, process, histories, faults>>

\* or the session is cycled, after which a rebuild finds nothing to commit,
Cycle ==
  /\ Counting /\ Counts
  /\ Due(FlushInterval)
  /\ CommitAll
  /\ at' = "next"
  /\ UNCHANGED <<kind, items, process, got, late, faults>>

\* or only the analytics are rebuilt,
Rebuild ==
  /\ Counting /\ Counts
  /\ ~Due(FlushInterval) /\ Due(AnalyticsInterval)
  /\ CommitRows
  /\ at' = "next"
  /\ UNCHANGED <<kind, items, process, got, late, faults>>

\* or cycling fails: inside try as the error of a record does, inside except
\* by leaving the body.
CycleFails ==
  /\ Counting /\ Counts
  /\ Due(FlushInterval) /\ Fails
  /\ \E kept \in SUBSET DOMAIN buffer : Loses(kept)
  /\ \/ at = "try" /\ at' = "except" /\ pending' = Nothing
                   /\ torn' = DOMAIN buffer' \ early'
     \/ at = "except" /\ at' = "failing" /\ UNCHANGED pending
                      /\ torn' = torn \cap DOMAIN buffer'
  /\ UNCHANGED <<stored, kind, items, process, got, undone, late>>

\* handle_final_batch_snippet, then __aexit__ with nothing left to commit.
Final ==
  /\ at = "next"
  /\ CommitAll
  /\ at' = "success"
  /\ UNCHANGED <<kind, items, progress, process, got, late, faults>>

FinalFails ==
  /\ at = "next" /\ Fails
  /\ \E kept \in SUBSET DOMAIN buffer : Loses(kept)
  /\ at' = "failing"
  /\ torn' = torn \cap DOMAIN buffer'
  /\ UNCHANGED <<stored, kind, items, progress, pending, process, got, undone, late>>

\* __aexit__ with an exception commits all the same.
FailureExit ==
  /\ at = "failing"
  /\ CommitAll
  /\ at' = "failure"
  /\ UNCHANGED <<kind, items, progress, process, got, late, faults>>

\* The worker dies, or __aexit__ raises because its transaction is aborted.
Crash ==
  /\ at \in {"next", "try", "except", "failing"} /\ Fails
  /\ pending' = Nothing /\ buffer' = Empty
  /\ early' = {} /\ torn' = {}
  /\ dropped' = dropped \cup DOMAIN buffer
  /\ at' = "dead"
  /\ UNCHANGED <<stored, kind, items, progress, process, got, undone, late>>

-------------------------------------------------------------------------------
(* Others *)

\* The task is about to replace what is stored of r.
Replaced(r) == r \in DOMAIN buffer /\ buffer[r] # bytes[r]

\* create_review by a user who sees results of what is stored of r.  It waits
\* for the transaction that has outdated the review it supersedes.
Review(r) ==
  /\ meta[r] # "absent" /\ bytes[r] # None
  /\ r \notin pending.outdated
  /\ review' = [review EXCEPT ![r] = bytes[r]]
  /\ late' = IF Replaced(r) THEN late \cup {r} ELSE late
  /\ UNCHANGED <<meta, bytes, processed, kind, at, items, progress, pending,
                 buffer, process, got, early, torn, undone, dropped, faults>>

\* process_records reads the bytes of a record,
ProcessBegin(r) ==
  /\ process = NoProcess
  /\ meta[r] # "absent" /\ bytes[r] # None
  /\ process' = <<r, bytes[r]>>
  /\ UNCHANGED <<stored, kind, at, items, progress, pending, buffer, histories, faults>>

\* and commits its results, which outdate the review if they are new.  It
\* waits for the transaction that has updated the row.
ProcessEnd ==
  /\ process # NoProcess
  /\ LET r == process[1]
         v == process[2]
     IN  /\ r \notin DOMAIN pending.rows
         /\ processed' = [processed EXCEPT ![r] = v]
         /\ \E kept \in {review[r], None} : review' = [review EXCEPT ![r] = kept]
         /\ late' = IF v # bytes[r] \/ Replaced(r) THEN late \cup {r} ELSE late
  /\ process' = NoProcess
  /\ UNCHANGED <<meta, bytes, kind, at, items, progress, pending, buffer, got,
                 early, torn, undone, dropped, faults>>

-------------------------------------------------------------------------------

Answer == \/ \E r \in Records : \/ MarkDeleted(r)
                                \/ \E v \in Versions :
                                     \/ Handle(r, v)
                                     \/ \E b \in BOOLEAN : Raise(r, v, b)
          \/ Miss \/ ListFails

Commits == Count \/ Cycle \/ Rebuild \/ CycleFails \/ Final \/ FinalFails \/ FailureExit

Next == \/ Answer \/ Commits \/ Crash
        \/ \E r \in Records : Review(r) \/ ProcessBegin(r)
        \/ ProcessEnd

Spec == Init /\ [][Next]_vars

-------------------------------------------------------------------------------
(* Properties *)

\* The batch is over.
Over == at \in {"success", "failure", "dead"}

\* A live row without bytes, for which get_marc raises, belongs to a record
\* whose bytes are in the buffer of the running task, or were lost there by a
\* failed flush or a crash.
MetaHasBytes ==
  \A r \in Records : meta[r] # "absent" /\ bytes[r] = None
                       => r \in dropped \/ (~Over /\ r \in DOMAIN buffer)

\* Bytes without a row, that no query finds, are left only by an error that
\* rolled the row back while the bytes were in the buffer.
BytesHaveMeta == \A r \in Records : meta[r] = "absent" => bytes[r] = None \/ r \in undone

\* A current review is of the bytes that are stored, unless it was written
\* while the task held newer bytes, or its outdating was rolled back.
ReviewsFollowBytes ==
  \A r \in Records : review[r] \in {None, bytes[r]} \/ r \in undone \cup late

\* A record marked as processed is processed as it is stored, with the same
\* exceptions.
ProcessedIsFresh ==
  \A r \in Records : processed[r] \in {None, bytes[r]} \/ r \in undone \cup late

\* A successful task has stored the last version of every record it handled,
\* unless a failed flush lost it; commits between the records and buffers that
\* survive a rollback notwithstanding.
NothingDropped ==
  at = "success" => \A r \in Records \ dropped : got[r] \in {None, bytes[r]}

\* current --> outdated when "underlying data changes", as in a sync
\* (docs/diagrams/review-lifecycle.puml): the current review of a record that
\* was handled without error is of its bytes, whatever happens to others.
ReviewOutdated ==
  \A r \in Records : got[r] # None => review[r] \in {None, bytes[r]} \/ r \in late
===============================================================================
