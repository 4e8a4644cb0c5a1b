-------------------------- MODULE RecordReviewsProofs --------------------------
(***************************************************************************)
(* Proofs about RecordReviews for every set of records, aspects and        *)
(* reviewers and every number of requests, tasks and losses: one current   *)
(* review of an aspect, analytics that follow, and a tab that shows what   *)
(* was confirmed to it.                                                    *)
(*                                                                         *)
(* All of them rest on one fact: rows stay what they are, and no status    *)
(* becomes current again (RowsKept).  What a request has read may          *)
(* therefore have become too large since, but only an insert makes it too  *)
(* small, and every insert tells the requests it concerns (raced, old).    *)
(***************************************************************************)
EXTENDS RecordReviews, FiniteSetTheorems, TLAPS

\* A row, a request under way and a task that outdates.
Rows == [rec : Reviewed, aspect : Aspects, by : Reviewers,
         status : {"current", "superseded", "outdated"}]
Requests == [at : {"sent", "scanned", "marked", "found", "stored", "snapshot", "done"},
             kind : {"create", "delete"}, user : Reviewers, rec : Reviewed, aspect : Aspects,
             target : Reviewed, bound : BOOLEAN, ids : SUBSET Nat, seen : SUBSET Aspects,
             old : BOOLEAN, raced : BOOLEAN, ok : BOOLEAN]
Outdatings == [at : {"scanned", "marked", "committed"},
               type : ANALYTICS_REBUILD_TASK_TYPES \cup {"FetchRecord"},
               rec : Reviewed, runs : Nat, ids : SUBSET Nat]

\* Type correctness.
ReviewsTypes ==
  /\ reviews \in Seq(Rows)
  /\ analytics \in [Reviewed -> SUBSET Aspects]
  /\ call \in [Calls -> Requests \cup {NoRequest}]
  /\ task \in [at : {"idle"}, runs : Nat] \cup Outdatings
  /\ shown \in [rec : Reviewed, aspect : Aspects \cup {"none"}]
  /\ fetched \in [Reviewed -> SUBSET Nat]
  /\ invalid \subseteq Reviewed /\ missed \subseteq Reviewed /\ lagging \subseteq Reviewed
  /\ told \subseteq Nat \X {"current", "superseded"}

\* The rows that a request or a task has in hand are of its record.
IdsOfRecord(q) == \A i \in q.ids : i \in DOMAIN reviews /\ reviews[i].rec = q.rec

\* A creation that has scanned has all current reviews, unless another one
\* has been committed since.
ScanIsCurrent(q) ==
  q.at \in {"scanned", "marked"} =>
    q.kind = "create" /\ (~q.raced => CurrentOf(q.rec, q.aspect) \subseteq q.ids)

\* A refresh has read what is current, unless it has been overtaken.
SnapshotIsFresh(q) == q.at = "snapshot" /\ ~q.old => q.seen = ReviewedAspects(q.rec)

\* A review that was deleted is not current.
DeletedIsGone(q) ==
  /\ q.at = "found" => q.kind = "delete"
  /\ q.at \in {"stored", "snapshot", "done"} /\ q.kind = "delete" =>
       \A i \in q.ids : reviews[i].status # "current"

RequestInv(q) == IdsOfRecord(q) /\ ScanIsCurrent(q) /\ SnapshotIsFresh(q) /\ DeletedIsGone(q)
RequestsInv == \A c \in Calls : \A q \in {call[c]} \ {NoRequest} : RequestInv(q)
OutdatingInv == \A t \in {task} : t.at # "idle" => IdsOfRecord(t)

\* Between its commit and its refresh.
Refreshing(c, r) == call[c].at \in {"stored", "snapshot"} /\ call[c].rec = r

\* CurrentIsUnique, without counting.
NoTwoCurrent ==
  \A r \in Reviewed, a \in Aspects : <<r, a>> \notin overlapped =>
    \A i, j \in CurrentOf(r, a) : i = j

\* What was confirmed is stored.
ToldIsStored ==
  \A m \in told : m[1] \in DOMAIN reviews /\ (m[2] # "current" => reviews[m[1]].status # "current")

\* OwnSeen for every record that the tab could show without fetching again.
SeenByTab ==
  \A r \in Reviewed \ (invalid \cup missed) : \A m \in told : reviews[m[1]].rec = r =>
    IF m[2] = "current" THEN reviews[m[1]].status = "current" => m[1] \in fetched[r]
                        ELSE m[1] \notin fetched[r]

\* The inductive invariant.
ReviewsInv == /\ ReviewsTypes /\ RequestsInv /\ OutdatingInv
              /\ NoTwoCurrent /\ AnalyticsFollow
              /\ ToldIsStored /\ SeenByTab

-------------------------------------------------------------------------------
(* The rows *)

\* A step keeps the rows of others and makes nothing current again.
RowsKept ==
  /\ reviews' \in Seq(Rows)
  /\ \A i \in DOMAIN reviews :
       /\ i \in DOMAIN reviews'
       /\ reviews'[i].rec = reviews[i].rec /\ reviews'[i].aspect = reviews[i].aspect
       /\ reviews'[i].by = reviews[i].by
       /\ reviews'[i].status = "current" => reviews[i].status = "current"

\* What the reads of a statement return.
LEMMA ReadFacts ==
  ASSUME reviews \in Seq(Rows), NEW r, NEW a
  PROVE  /\ \A i : i \in Current(r) <=>
              i \in DOMAIN reviews /\ reviews[i].rec = r /\ reviews[i].status = "current"
         /\ \A i : i \in CurrentOf(r, a) <=> i \in Current(r) /\ reviews[i].aspect = a
         /\ CurrentOf(r, a) \in SUBSET Nat /\ Current(r) \in SUBSET Nat
         /\ ReviewedAspects(r) \in SUBSET Aspects
  <1>1. \A i : i \in Current(r) <=>
          i \in DOMAIN reviews /\ reviews[i].rec = r /\ reviews[i].status = "current"
    BY DEF Current
  <1>2. \A i : i \in CurrentOf(r, a) <=> i \in Current(r) /\ reviews[i].aspect = a
    BY DEF CurrentOf
  <1>3. \A i \in DOMAIN reviews : i \in Nat /\ reviews[i].aspect \in Aspects
    <2>1. \A i \in DOMAIN reviews : i \in Nat /\ reviews[i] \in Rows
      OBVIOUS
    <2> QED BY <2>1 DEF Rows
  <1>4. ReviewedAspects(r) \in SUBSET Aspects
    BY <1>1, <1>3 DEF ReviewedAspects
  <1> QED BY <1>1, <1>2, <1>3, <1>4

\* Reads of rows that have not changed return the same.
LEMMA SameReads ==
  ASSUME reviews' = reviews, NEW r, NEW a
  PROVE  /\ Current(r)' = Current(r) /\ CurrentOf(r, a)' = CurrentOf(r, a)
         /\ ReviewedAspects(r)' = ReviewedAspects(r)
  BY DEF Current, CurrentOf, ReviewedAspects

\* A change of statuses changes nothing else.
LEMMA WithStatusFacts ==
  ASSUME reviews \in Seq(Rows), NEW ids, NEW status \in {"superseded", "outdated"}
  PROVE  /\ WithStatus(ids, status) \in Seq(Rows)
         /\ Len(WithStatus(ids, status)) = Len(reviews)
         /\ DOMAIN WithStatus(ids, status) = DOMAIN reviews
         /\ \A i \in DOMAIN reviews :
              /\ WithStatus(ids, status)[i].rec = reviews[i].rec
              /\ WithStatus(ids, status)[i].aspect = reviews[i].aspect
              /\ WithStatus(ids, status)[i].by = reviews[i].by
              /\ WithStatus(ids, status)[i].status = IF i \in ids THEN status ELSE reviews[i].status
  <1>1. \A i \in DOMAIN reviews : reviews[i] \in Rows
    OBVIOUS
  <1>2. \A i \in DOMAIN reviews : [reviews[i] EXCEPT !.status = status] \in Rows
    BY <1>1 DEF Rows
  <1>3. WithStatus(ids, status) \in Seq(Rows) /\ Len(WithStatus(ids, status)) = Len(reviews)
    BY <1>1, <1>2 DEF WithStatus
  <1>4. ASSUME NEW i \in DOMAIN reviews
        PROVE  /\ WithStatus(ids, status)[i].rec = reviews[i].rec
               /\ WithStatus(ids, status)[i].aspect = reviews[i].aspect
               /\ WithStatus(ids, status)[i].by = reviews[i].by
               /\ WithStatus(ids, status)[i].status = IF i \in ids THEN status ELSE reviews[i].status
    BY <1>1 DEF WithStatus, Rows
  <1> QED BY <1>3, <1>4 DEF WithStatus

\* Rows whose status changes leave the reads of other records alone, and no
\* read returns more than before.
LEMMA ChangedReads ==
  ASSUME reviews \in Seq(Rows), NEW ids, NEW status \in {"superseded", "outdated"},
         NEW rec, \A i \in ids : i \in DOMAIN reviews => reviews[i].rec = rec,
         reviews' = WithStatus(ids, status)
  PROVE  /\ RowsKept /\ DOMAIN reviews' = DOMAIN reviews
         /\ \A i \in ids : i \in DOMAIN reviews => reviews'[i].status # "current"
         /\ \A r, a : CurrentOf(r, a)' \subseteq CurrentOf(r, a)
         /\ \A r : r # rec => ReviewedAspects(r)' = ReviewedAspects(r)
  <1>1. RowsKept /\ DOMAIN reviews' = DOMAIN reviews
    BY WithStatusFacts DEF RowsKept
  <1>2. \A i \in ids : i \in DOMAIN reviews => reviews'[i].status # "current"
    BY WithStatusFacts
  <1>3. ASSUME NEW r, NEW a PROVE CurrentOf(r, a)' \subseteq CurrentOf(r, a)
    BY <1>1 DEF CurrentOf, Current, RowsKept
  <1>4. ASSUME NEW r, r # rec PROVE ReviewedAspects(r)' = ReviewedAspects(r)
    <2>1. Current(r)' = Current(r)
      BY <1>1, <1>4, WithStatusFacts DEF Current
    <2>2. \A i \in Current(r) : reviews'[i].aspect = reviews[i].aspect
      BY <1>1 DEF Current, RowsKept
    <2> QED BY <2>1, <2>2 DEF ReviewedAspects
  <1> QED BY <1>1, <1>2, <1>3, <1>4

\* An insert is read by those who ask for its record and its aspect.
LEMMA InsertedReads ==
  ASSUME reviews \in Seq(Rows), NEW row \in Rows, NEW ids,
         \A i \in ids : i \in DOMAIN reviews => reviews[i].rec = row.rec,
         reviews' = Append(WithStatus(ids, "superseded"), row)
  PROVE  /\ RowsKept /\ DOMAIN reviews' = DOMAIN reviews \cup {Len(reviews) + 1}
         /\ Len(reviews) + 1 \in Nat \ DOMAIN reviews /\ reviews'[Len(reviews) + 1] = row
         /\ \A i \in ids : i \in DOMAIN reviews => reviews'[i].status # "current"
         /\ \A r, a : r # row.rec \/ a # row.aspect => CurrentOf(r, a)' \subseteq CurrentOf(r, a)
         /\ \A r, a : CurrentOf(r, a)' \subseteq (CurrentOf(r, a) \ ids) \cup {Len(reviews) + 1}
         /\ \A r : r # row.rec => ReviewedAspects(r)' = ReviewedAspects(r)
  <1> DEFINE w == WithStatus(ids, "superseded")
             n == Len(reviews) + 1
  <1>1. /\ w \in Seq(Rows) /\ Len(w) = Len(reviews) /\ DOMAIN w = DOMAIN reviews
        /\ \A i \in DOMAIN reviews :
             /\ w[i].rec = reviews[i].rec /\ w[i].aspect = reviews[i].aspect
             /\ w[i].by = reviews[i].by
             /\ w[i].status = IF i \in ids THEN "superseded" ELSE reviews[i].status
    BY WithStatusFacts
  <1> HIDE DEF w
  <1>2. /\ reviews' \in Seq(Rows) /\ DOMAIN reviews' = DOMAIN reviews \cup {n}
        /\ n \in Nat \ DOMAIN reviews /\ reviews'[n] = row
        /\ \A i \in DOMAIN reviews : reviews'[i] = w[i]
    <2>1. reviews' = Append(w, row)
      BY DEF w
    <2>2. Append(w, row) \in Seq(Rows) /\ Len(Append(w, row)) = n
      BY <1>1
    <2>3. Append(w, row)[n] = row /\ \A i \in 1..Len(w) : Append(w, row)[i] = w[i]
      BY <1>1
    <2>4. DOMAIN reviews = 1..Len(reviews) /\ DOMAIN reviews' = 1..n /\ Len(reviews) \in Nat
      BY <2>1, <2>2
    <2>5. 1..n = (1..Len(reviews)) \cup {n} /\ n \in Nat \ (1..Len(reviews))
      BY <2>4
    <2>6. \A i \in DOMAIN reviews : reviews'[i] = w[i]
      BY <1>1, <2>1, <2>3, <2>4
    <2>7. reviews' \in Seq(Rows) /\ reviews'[n] = row
      BY <2>1, <2>2, <2>3
    <2> QED BY <2>4, <2>5, <2>6, <2>7
  <1>3. RowsKept
    BY <1>1, <1>2 DEF RowsKept
  <1>4. \A i \in ids : i \in DOMAIN reviews => reviews'[i].status # "current"
    BY <1>1, <1>2
  <1>5. ASSUME NEW r, NEW a
        PROVE  /\ r # row.rec \/ a # row.aspect => CurrentOf(r, a)' \subseteq CurrentOf(r, a)
               /\ CurrentOf(r, a)' \subseteq (CurrentOf(r, a) \ ids) \cup {n}
    BY <1>1, <1>2 DEF CurrentOf, Current
  <1>6. ASSUME NEW r, r # row.rec PROVE ReviewedAspects(r)' = ReviewedAspects(r)
    <2>1. \A i \in DOMAIN reviews : reviews[i].rec = r =>
            reviews'[i].rec = r /\ reviews'[i].status = reviews[i].status
      BY <1>1, <1>2, <1>6
    <2>2. \A i \in DOMAIN reviews' \ DOMAIN reviews : reviews'[i].rec # r
      BY <1>2, <1>6
    <2>3. Current(r)' = Current(r)
      BY <1>1, <1>2, <2>1, <2>2 DEF Current
    <2>4. \A i \in Current(r) : reviews'[i].aspect = reviews[i].aspect
      BY <1>1, <1>2 DEF Current
    <2> QED BY <2>3, <2>4 DEF ReviewedAspects
  <1> QED BY <1>2, <1>3, <1>4, <1>5, <1>6

-------------------------------------------------------------------------------
(* The requests *)

\* A request that has been overtaken keeps its invariant, and so does one that
\* need not know of a change of the rows.
LEMMA OvertakenKept ==
  ASSUME reviews \in Seq(Rows), RowsKept,
         NEW q \in Requests, NEW p \in Requests, RequestInv(q),
         p.at = q.at, p.kind = q.kind, p.rec = q.rec, p.aspect = q.aspect,
         p.ids = q.ids, p.seen = q.seen, q.raced => p.raced, q.old => p.old,
         q.at \in {"scanned", "marked"} /\ ~p.raced =>
           CurrentOf(q.rec, q.aspect)' \subseteq CurrentOf(q.rec, q.aspect),
         q.at = "snapshot" /\ ~p.old => ReviewedAspects(q.rec)' = ReviewedAspects(q.rec)
  PROVE  RequestInv(p)'
  <1>1. IdsOfRecord(p)'
    BY DEF IdsOfRecord, RequestInv, RowsKept
  <1>2. ScanIsCurrent(p)'
    BY DEF ScanIsCurrent, RequestInv
  <1>3. SnapshotIsFresh(p)'
    BY DEF SnapshotIsFresh, RequestInv
  <1>4. DeletedIsGone(p)'
    BY DEF DeletedIsGone, IdsOfRecord, RequestInv, RowsKept
  <1> QED BY <1>1, <1>2, <1>3, <1>4 DEF RequestInv

\* The step replaces one request.
Replaces(c, q) == call' = [d \in Calls |-> IF d = c THEN q ELSE call[d]]

\* The rows being the same, so is what holds of a request.
LEMMA SameRequestInv ==
  ASSUME reviews' = reviews, NEW q, RequestInv(q)
  PROVE  RequestInv(q)'
  BY DEF RequestInv, IdsOfRecord, ScanIsCurrent, SnapshotIsFresh, DeletedIsGone,
         CurrentOf, Current, ReviewedAspects

\* Without a change of the rows only the request that is replaced counts.
LEMMA OneReplaced ==
  ASSUME ReviewsTypes, RequestsInv, reviews' = reviews, NEW c \in Calls,
         NEW q \in Requests \cup {NoRequest}, Replaces(c, q), q # NoRequest => RequestInv(q)
  PROVE  call' \in [Calls -> Requests \cup {NoRequest}] /\ RequestsInv'
  <1>1. call' \in [Calls -> Requests \cup {NoRequest}]
    BY DEF Replaces, ReviewsTypes
  <1>2. ASSUME NEW d \in Calls, NEW p \in {call'[d]} \ {NoRequest} PROVE RequestInv(p)'
    <2>1. RequestInv(p)
      BY <1>2 DEF Replaces, RequestsInv, ReviewsTypes
    <2> QED BY <2>1, SameRequestInv
  <1> QED BY <1>1, <1>2 DEF RequestsInv

\* A step of a request that changes no rows leaves all of them right.
LEMMA RequestSteps ==
  ASSUME ReviewsTypes, RequestsInv, NEW c \in Calls,
         Scan(c) \/ Mark(c) \/ Find(c) \/ Snapshot(c) \/ Refresh(c) \/ Lose(c) \/ OnSuccess(c)
  PROVE  call' \in [Calls -> Requests \cup {NoRequest}] /\ RequestsInv'
  <1> DEFINE r == call[c].rec
             own == CurrentOf(r, call[c].aspect)
             With(q) == /\ q \in Requests \cup {NoRequest} /\ Replaces(c, q) /\ reviews' = reviews
                        /\ q # NoRequest => RequestInv(q)
  <1>0. ASSUME NEW q, With(q) PROVE call' \in [Calls -> Requests \cup {NoRequest}] /\ RequestsInv'
    BY <1>0, OneReplaced
  <1> USE DEF serverVars
  <1>1. call[c] \in Requests /\ RequestInv(call[c])
    BY DEF Scan, Mark, Find, Snapshot, Refresh, Lose, OnSuccess, ReviewAnswered, ReviewsTypes,
           RequestsInv, NoRequest
  <1>2. /\ own \in SUBSET Nat /\ Current(r) \in SUBSET Nat /\ ReviewedAspects(r) \in SUBSET Aspects
        /\ \A i \in Current(r) : i \in DOMAIN reviews /\ reviews[i].rec = r
        /\ own \subseteq Current(r)
    <2>1. reviews \in Seq(Rows)
      BY DEF ReviewsTypes
    <2>2. /\ own \in SUBSET Nat /\ Current(r) \in SUBSET Nat
          /\ ReviewedAspects(r) \in SUBSET Aspects
      BY <2>1, ReadFacts
    <2> QED BY <2>1, <2>2 DEF Current, CurrentOf
  <1>3. CASE Scan(c)
    <2> DEFINE q == [call[c] EXCEPT !.at = "scanned", !.ids = own]
    <2>1. Replaces(c, q) /\ reviews' = reviews /\ q \in Requests
      BY <1>1, <1>2, <1>3 DEF Scan, Replaces, ReviewsTypes, Requests
    <2>2. RequestInv(q)
      BY <1>1, <1>2, <1>3
      DEF Scan, RequestInv, IdsOfRecord, ScanIsCurrent, SnapshotIsFresh, DeletedIsGone, Requests
    <2> QED BY <1>0, <2>1, <2>2
  <1>4. CASE Mark(c)
    <2> DEFINE q == [call[c] EXCEPT !.at = "marked", !.ids = @ \cap Current(r)]
    <2>1. Replaces(c, q) /\ reviews' = reviews /\ q \in Requests
      BY <1>1, <1>2, <1>4 DEF Mark, Replaces, ReviewsTypes, Requests
    <2>2. RequestInv(q)
      BY <1>1, <1>2, <1>4
      DEF Mark, RequestInv, IdsOfRecord, ScanIsCurrent, SnapshotIsFresh, DeletedIsGone, Requests
    <2> QED BY <1>0, <2>1, <2>2
  <1>5. ASSUME Fails(c), reviews' = reviews
        PROVE  call' \in [Calls -> Requests \cup {NoRequest}] /\ RequestsInv'
    <2> DEFINE q == [call[c] EXCEPT !.at = "done", !.ids = {}, !.seen = {}, !.old = FALSE, !.ok = FALSE]
    <2>1. Replaces(c, q) /\ reviews' = reviews /\ q \in Requests
      BY <1>1, <1>5 DEF Fails, Replaces, ReviewsTypes, Requests
    <2>2. RequestInv(q)
      BY <1>1 DEF RequestInv, IdsOfRecord, ScanIsCurrent, SnapshotIsFresh, DeletedIsGone, Requests
    <2> QED BY <1>0, <2>1, <2>2
  <1>6. CASE Find(c)
    <2>1. CASE Fails(c)
      BY <1>5, <1>6, <2>1 DEF Find
    <2>2. CASE ~Fails(c)
      <3> DEFINE q == [call[c] EXCEPT !.at = "found", !.ids = own]
      <3>1. Replaces(c, q) /\ reviews' = reviews /\ q \in Requests
        BY <1>1, <1>2, <1>6, <2>2 DEF Find, Replaces, ReviewsTypes, Requests
      <3>2. RequestInv(q)
        BY <1>1, <1>2, <1>6
        DEF Find, RequestInv, IdsOfRecord, ScanIsCurrent, SnapshotIsFresh, DeletedIsGone, Requests
      <3> QED BY <1>0, <3>1, <3>2
    <2> QED BY <2>1, <2>2
  <1>7. CASE Snapshot(c)
    <2> DEFINE q == [call[c] EXCEPT !.at = "snapshot", !.seen = ReviewedAspects(r), !.old = FALSE]
    <2>1. Replaces(c, q) /\ reviews' = reviews /\ q \in Requests
      BY <1>1, <1>2, <1>7 DEF Snapshot, Replaces, ReviewsTypes, Requests
    <2>2. RequestInv(q)
      BY <1>1, <1>2, <1>7
      DEF Snapshot, RequestInv, IdsOfRecord, ScanIsCurrent, SnapshotIsFresh, DeletedIsGone, Requests
    <2> QED BY <1>0, <2>1, <2>2
  <1>8. CASE Refresh(c)
    <2> DEFINE q == [call[c] EXCEPT !.at = "done", !.seen = {}, !.old = FALSE]
    <2>1. Replaces(c, q) /\ reviews' = reviews /\ q \in Requests
      BY <1>1, <1>8 DEF Refresh, Replaces, ReviewsTypes, Requests
    <2>2. RequestInv(q)
      BY <1>1, <1>8
      DEF Refresh, RequestInv, IdsOfRecord, ScanIsCurrent, SnapshotIsFresh, DeletedIsGone, Requests
    <2> QED BY <1>0, <2>1, <2>2
  <1>9. CASE Lose(c)
    BY <1>5, <1>9 DEF Lose
  <1>10. CASE OnSuccess(c)
    <2>1. Replaces(c, NoRequest) /\ reviews' = reviews
      BY <1>10 DEF OnSuccess, ReviewAnswered, Replaces, ReviewsTypes
    <2> QED BY <1>0, <2>1
  <1> QED BY <1>3, <1>4, <1>6, <1>7, <1>8, <1>9, <1>10

\* A new request is one that has read nothing.
LEMMA NewRequest ==
  ASSUME ReviewsTypes, RequestsInv, reviews' = reviews,
         NEW u \in Reviewers, NEW k \in {"create", "delete"}, NEW r \in Reviewed, NEW a \in Aspects,
         Sent(Request(u, k, r, a))
  PROVE  \E c \in Calls : /\ call[c] = NoRequest /\ Replaces(c, Request(u, k, r, a))
                          /\ call' \in [Calls -> Requests \cup {NoRequest}] /\ RequestsInv'
  <1> DEFINE q == Request(u, k, r, a)
  <1>1. PICK c \in Calls : call[c] = NoRequest /\ Replaces(c, q)
    BY DEF Sent, Replaces, ReviewsTypes
  <1>2. q \in Requests
    BY DEF Request, Requests
  <1>3. RequestInv(q)
    BY DEF Request, RequestInv, IdsOfRecord, ScanIsCurrent, SnapshotIsFresh, DeletedIsGone
  <1> QED BY <1>1, <1>2, <1>3, OneReplaced

\* What a committed change of a record makes of the requests: those it
\* overtakes are told.
LEMMA OvertakingFacts ==
  ASSUME NEW r, NEW calls \in [Calls -> Requests \cup {NoRequest}]
  PROVE  /\ Overtaking(r, calls) \in [Calls -> Requests \cup {NoRequest}]
         /\ \A d \in Calls : calls[d] = NoRequest <=> Overtaking(r, calls)[d] = NoRequest
         /\ \A d \in Calls : calls[d] # NoRequest =>
              LET q == calls[d]  p == Overtaking(r, calls)[d]
              IN  /\ p.at = q.at /\ p.kind = q.kind /\ p.rec = q.rec /\ p.aspect = q.aspect
                  /\ p.ids = q.ids /\ p.seen = q.seen /\ p.raced = q.raced
                  /\ q.old => p.old
                  /\ (q.at = "snapshot" /\ q.rec = r) => p.old
  <1> DEFINE o == Overtaking(r, calls)
  <1>1. \A d \in Calls : o[d] = IF calls[d].at = "snapshot" /\ calls[d].rec = r
                                THEN [calls[d] EXCEPT !.old = TRUE] ELSE calls[d]
    BY DEF Overtaking
  <1>2. ASSUME NEW d \in Calls, calls[d] # NoRequest
        PROVE  /\ o[d] \in Requests
               /\ o[d].at = calls[d].at /\ o[d].kind = calls[d].kind /\ o[d].rec = calls[d].rec
               /\ o[d].aspect = calls[d].aspect /\ o[d].ids = calls[d].ids
               /\ o[d].seen = calls[d].seen /\ o[d].raced = calls[d].raced
               /\ calls[d].old => o[d].old
               /\ calls[d].at = "snapshot" /\ calls[d].rec = r => o[d].old
    <2>1. CASE calls[d].at = "snapshot" /\ calls[d].rec = r
      <3>1. calls[d] \in Requests
        BY <1>2
      <3>2. o[d] = [calls[d] EXCEPT !.old = TRUE]
        BY <1>1, <2>1
      <3> HIDE DEF o
      <3> QED BY <3>1, <3>2 DEF Requests
    <2>2. CASE ~(calls[d].at = "snapshot" /\ calls[d].rec = r)
      <3>1. calls[d] \in Requests
        BY <1>2
      <3>2. o[d] = calls[d]
        BY <1>1, <2>2
      <3> HIDE DEF o
      <3> QED BY <2>2, <3>1, <3>2
    <2> QED BY <2>1, <2>2
  <1>3. \A d \in Calls : calls[d] = NoRequest => o[d] = NoRequest
    BY <1>1 DEF NoRequest
  <1>4. NoRequest \notin Requests
    BY DEF NoRequest, Requests
  <1>5. o \in [Calls -> Requests \cup {NoRequest}]
    BY <1>2, <1>3 DEF Overtaking
  <1> QED BY <1>2, <1>3, <1>4, <1>5

\* Commits leave all requests right: what is inserted is told to those who
\* have scanned or read.
LEMMA CommitSteps ==
  ASSUME ReviewsTypes, RequestsInv, NEW c \in Calls, CommitCreate(c) \/ CommitDelete(c)
  PROVE  /\ call' \in [Calls -> Requests \cup {NoRequest}] /\ RequestsInv' /\ RowsKept
         /\ \A r : r # call[c].rec => ReviewedAspects(r)' = ReviewedAspects(r)
         /\ call[c].rec \in Reviewed /\ \A r : r = call[c].rec => Refreshing(c, r)'
         /\ \A d \in Calls, r \in Reviewed : Refreshing(d, r) => Refreshing(d, r)'
  <1> DEFINE q == call[c]
  <1>1. q \in Requests /\ RequestInv(q) /\ reviews \in Seq(Rows) /\ q # NoRequest
    BY DEF CommitCreate, CommitDelete, Superseded, ReviewsTypes, RequestsInv, NoRequest
  <1>2. \A i \in q.ids : i \in DOMAIN reviews /\ reviews[i].rec = q.rec
    BY <1>1 DEF RequestInv, IdsOfRecord
  <1>3. CASE CommitDelete(c)
    <2> DEFINE calls == [call EXCEPT ![c].at = "stored"]
    <2>1. reviews' = WithStatus(q.ids, "superseded") /\ call' = Overtaking(q.rec, calls)
      BY <1>3 DEF CommitDelete, Superseded
    <2>2. /\ RowsKept /\ \A r, a : CurrentOf(r, a)' \subseteq CurrentOf(r, a)
          /\ \A r : r # q.rec => ReviewedAspects(r)' = ReviewedAspects(r)
          /\ \A i \in q.ids : reviews'[i].status # "current"
      BY <1>1, <1>2, <2>1, ChangedReads
    <2>3. calls \in [Calls -> Requests \cup {NoRequest}]
      BY <1>1 DEF Requests, ReviewsTypes
    <2>4. \A d \in Calls : calls[d] = IF d = c THEN [q EXCEPT !.at = "stored"] ELSE call[d]
      BY DEF ReviewsTypes
    <2> HIDE DEF calls
    <2>5. /\ call' \in [Calls -> Requests \cup {NoRequest}]
          /\ \A d \in Calls : calls[d] = NoRequest <=> call'[d] = NoRequest
          /\ \A d \in Calls : calls[d] # NoRequest =>
               /\ call'[d].at = calls[d].at /\ call'[d].kind = calls[d].kind
               /\ call'[d].rec = calls[d].rec /\ call'[d].aspect = calls[d].aspect
               /\ call'[d].ids = calls[d].ids /\ call'[d].seen = calls[d].seen
               /\ call'[d].raced = calls[d].raced
               /\ calls[d].old => call'[d].old
               /\ (calls[d].at = "snapshot" /\ calls[d].rec = q.rec) => call'[d].old
      BY <2>1, <2>3, OvertakingFacts
    <2>6. ASSUME NEW d \in Calls \ {c}, NEW p \in {call'[d]} \ {NoRequest} PROVE RequestInv(p)'
      <3>1. calls[d] = call[d] /\ call[d] \in Requests /\ RequestInv(call[d]) /\ p \in Requests
        BY <2>4, <2>5, <2>6 DEF ReviewsTypes, RequestsInv
      <3>2. PICK o \in Requests : o = call[d]
        BY <3>1
      <3> QED BY <1>1, <2>2, <2>5, <2>6, <3>1, <3>2, OvertakenKept
    <2>7. ASSUME NEW p \in {call'[c]} \ {NoRequest} PROVE RequestInv(p)'
      <3>1. p.at = "stored" /\ p.rec = q.rec /\ p.ids = q.ids
        BY <1>1, <2>4, <2>5, <2>7 DEF Requests
      <3> QED BY <1>2, <2>2, <3>1
        DEF RequestInv, IdsOfRecord, ScanIsCurrent, SnapshotIsFresh, DeletedIsGone, RowsKept
    <2>8. call'[c].at = "stored" /\ call'[c].rec = q.rec /\ q.rec \in Reviewed
      <3>1. /\ calls[c].at = "stored" /\ calls[c].rec = q.rec /\ calls[c] # NoRequest
            /\ q.rec \in Reviewed
        BY <1>1, <2>4 DEF Requests, NoRequest
      <3> QED BY <2>5, <3>1
    <2>9. ASSUME NEW d \in Calls, NEW r \in Reviewed, Refreshing(d, r) PROVE Refreshing(d, r)'
      <3>1. call[d].at \in {"stored", "snapshot"} /\ call[d].rec = r
        BY <2>9 DEF Refreshing
      <3>2. d # c
        BY <1>3, <3>1 DEF CommitDelete, Superseded
      <3>3. calls[d] = call[d] /\ calls[d] # NoRequest
        BY <2>4, <3>1, <3>2 DEF NoRequest
      <3>4. call'[d].at = call[d].at /\ call'[d].rec = r
        BY <2>5, <3>1, <3>3
      <3> QED BY <3>1, <3>4 DEF Refreshing
    <2> QED BY <2>2, <2>5, <2>6, <2>7, <2>8, <2>9 DEF RequestsInv, Refreshing
  <1>4. CASE CommitCreate(c)
    <2> DEFINE n == Len(reviews) + 1
               row == [rec |-> q.rec, aspect |-> q.aspect, by |-> q.user, status |-> "current"]
               rival(d) == /\ call[d].at \in {"scanned", "marked"}
                           /\ call[d].rec = q.rec /\ call[d].aspect = q.aspect
               others == {d \in Calls \ {c} : call[d].at \in {"scanned", "marked"} /\
                                              <<call[d].rec, call[d].aspect>> = <<q.rec, q.aspect>>}
               calls == [d \in Calls |-> CASE d = c -> [q EXCEPT !.at = "stored", !.ids = {n}]
                                           [] d \in others -> [call[d] EXCEPT !.raced = TRUE]
                                           [] OTHER -> call[d]]
    <2>1. /\ reviews' = Append(WithStatus(q.ids, "superseded"), row)
          /\ call' = Overtaking(q.rec, calls) /\ q.at = "marked"
      BY <1>4 DEF CommitCreate
    <2>2. row \in Rows /\ row.rec = q.rec /\ row.aspect = q.aspect
      BY <1>1 DEF Rows, Requests
    <2>3. /\ RowsKept
          /\ n \in DOMAIN reviews' /\ n \in Nat /\ reviews'[n].rec = q.rec
          /\ \A r, a : r # q.rec \/ a # q.aspect => CurrentOf(r, a)' \subseteq CurrentOf(r, a)
          /\ \A r : r # q.rec => ReviewedAspects(r)' = ReviewedAspects(r)
      BY <1>1, <1>2, <2>1, <2>2, InsertedReads
    <2>4. ASSUME NEW d \in Calls
          PROVE  calls[d] = IF d = c THEN [q EXCEPT !.at = "stored", !.ids = {n}]
                            ELSE IF rival(d) THEN [call[d] EXCEPT !.raced = TRUE] ELSE call[d]
      OBVIOUS
    <2>5. calls \in [Calls -> Requests \cup {NoRequest}]
      <3>1. ASSUME NEW d \in Calls PROVE calls[d] \in Requests \cup {NoRequest}
        <4>1. [q EXCEPT !.at = "stored", !.ids = {n}] \in Requests
          BY <1>1, <2>3 DEF Requests
        <4>2. CASE rival(d)
          <5>1. call[d] \in Requests
            BY <4>2 DEF ReviewsTypes, NoRequest
          <5>2. [call[d] EXCEPT !.raced = TRUE] \in Requests
            BY <5>1 DEF Requests
          <5>3. calls[d] = IF d = c THEN [q EXCEPT !.at = "stored", !.ids = {n}]
                           ELSE [call[d] EXCEPT !.raced = TRUE]
            BY <2>4, <4>2
          <5> HIDE DEF calls, rival, row
          <5> QED BY <4>1, <5>2, <5>3
        <4>3. CASE ~rival(d)
          BY <2>4, <4>1, <4>3 DEF ReviewsTypes
        <4> QED BY <4>2, <4>3
      <3> QED BY <3>1
    <2> HIDE DEF calls
    <2>6. /\ call' \in [Calls -> Requests \cup {NoRequest}]
          /\ \A d \in Calls : calls[d] = NoRequest <=> call'[d] = NoRequest
          /\ \A d \in Calls : calls[d] # NoRequest =>
               /\ call'[d].at = calls[d].at /\ call'[d].kind = calls[d].kind
               /\ call'[d].rec = calls[d].rec /\ call'[d].aspect = calls[d].aspect
               /\ call'[d].ids = calls[d].ids /\ call'[d].seen = calls[d].seen
               /\ call'[d].raced = calls[d].raced
               /\ calls[d].old => call'[d].old
               /\ (calls[d].at = "snapshot" /\ calls[d].rec = q.rec) => call'[d].old
      BY <2>1, <2>5, OvertakingFacts
    <2>7. ASSUME NEW d \in Calls \ {c}, NEW p \in {call'[d]} \ {NoRequest} PROVE RequestInv(p)'
      <3>1. calls[d] \in Requests /\ p \in Requests
        BY <2>5, <2>6, <2>7
      <3>2. call[d] \in Requests /\ RequestInv(call[d])
        BY <2>4, <2>6, <2>7 DEF ReviewsTypes, RequestsInv, NoRequest
      <3>3. PICK o \in Requests : o = call[d]
        BY <3>2
      <3>4. calls[d] = IF rival(d) THEN [o EXCEPT !.raced = TRUE] ELSE o
        BY <2>4, <3>3
      <3>5. /\ calls[d].at = o.at /\ calls[d].kind = o.kind /\ calls[d].rec = o.rec
            /\ calls[d].aspect = o.aspect /\ calls[d].ids = o.ids /\ calls[d].seen = o.seen
            /\ calls[d].old = o.old
            /\ o.raced => calls[d].raced
            /\ rival(d) => calls[d].raced
        <4> HIDE DEF rival
        <4>1. CASE rival(d)
          BY <3>4, <4>1 DEF Requests
        <4>2. CASE ~rival(d)
          BY <3>4, <4>2
        <4> QED BY <4>1, <4>2
      <3>6. /\ p.at = o.at /\ p.kind = o.kind /\ p.rec = o.rec /\ p.aspect = o.aspect
            /\ p.ids = o.ids /\ p.seen = o.seen
            /\ o.raced => p.raced
            /\ o.old => p.old
            /\ rival(d) => p.raced
            /\ (o.at = "snapshot" /\ o.rec = q.rec) => p.old
        <4> HIDE DEF rival
        <4> QED BY <2>6, <2>7, <3>1, <3>5 DEF Requests, NoRequest
      <3>7. o.at \in {"scanned", "marked"} /\ ~p.raced =>
              CurrentOf(o.rec, o.aspect)' \subseteq CurrentOf(o.rec, o.aspect)
        BY <2>3, <3>3, <3>6
      <3>8. o.at = "snapshot" /\ ~p.old => ReviewedAspects(o.rec)' = ReviewedAspects(o.rec)
        BY <2>3, <3>6
      <3> QED BY <1>1, <2>3, <3>1, <3>2, <3>3, <3>6, <3>7, <3>8, OvertakenKept
    <2>8. ASSUME NEW p \in {call'[c]} \ {NoRequest} PROVE RequestInv(p)'
      <3>1. p.at = "stored" /\ p.rec = q.rec /\ p.ids = {n} /\ p.kind = "create"
        <4>1. q.kind = "create"
          BY <1>1, <2>1 DEF RequestInv, ScanIsCurrent
        <4>2. calls[c] = [q EXCEPT !.at = "stored", !.ids = {n}]
          BY <2>4
        <4>3. /\ calls[c].at = "stored" /\ calls[c].rec = q.rec /\ calls[c].ids = {n}
              /\ calls[c].kind = "create" /\ calls[c] # NoRequest
          BY <1>1, <4>1, <4>2 DEF Requests, NoRequest
        <4> QED BY <2>6, <2>8, <4>3
      <3> QED BY <2>3, <3>1
        DEF RequestInv, IdsOfRecord, ScanIsCurrent, SnapshotIsFresh, DeletedIsGone
    <2>9. call'[c].at = "stored" /\ call'[c].rec = q.rec /\ q.rec \in Reviewed
      <3>1. /\ calls[c].at = "stored" /\ calls[c].rec = q.rec /\ calls[c] # NoRequest
            /\ q.rec \in Reviewed
        BY <1>1, <2>4 DEF Requests, NoRequest
      <3> QED BY <2>6, <3>1
    <2>10. ASSUME NEW d \in Calls, NEW r \in Reviewed, Refreshing(d, r) PROVE Refreshing(d, r)'
      <3>1. call[d].at \in {"stored", "snapshot"} /\ call[d].rec = r
        BY <2>10 DEF Refreshing
      <3>2. d # c /\ ~rival(d)
        BY <2>1, <3>1
      <3>3. calls[d] = call[d] /\ calls[d] # NoRequest
        <4> HIDE DEF rival
        <4>1. calls[d] = call[d]
          BY <2>4, <3>2
        <4>2. call[d] # NoRequest
          BY <3>1 DEF NoRequest
        <4> QED BY <4>1, <4>2
      <3>4. call'[d].at = call[d].at /\ call'[d].rec = r
        BY <2>6, <3>1, <3>3
      <3> QED BY <3>1, <3>4 DEF Refreshing
    <2> QED BY <2>3, <2>6, <2>7, <2>8, <2>9, <2>10 DEF RequestsInv, Refreshing
  <1> QED BY <1>3, <1>4

\* A task that outdates leaves all requests right as well.
LEMMA OutdateCommitStep ==
  ASSUME ReviewsTypes, RequestsInv, OutdatingInv, OutdateCommit
  PROVE  /\ call' \in [Calls -> Requests \cup {NoRequest}] /\ RequestsInv' /\ RowsKept
         /\ task.rec \in Reviewed
         /\ \A r, a : CurrentOf(r, a)' \subseteq CurrentOf(r, a)
         /\ \A r : r \notin Outdated' => ReviewedAspects(r)' = ReviewedAspects(r)
         /\ \A d \in Calls, r \in Reviewed : Refreshing(d, r) => Refreshing(d, r)'
  <1>1. /\ reviews' = WithStatus(task.ids, "outdated") /\ call' = Overtaking(task.rec, call)
        /\ task \in Outdatings /\ reviews \in Seq(Rows)
    BY DEF OutdateCommit, ReviewsTypes
  <1>2. \A i \in task.ids : i \in DOMAIN reviews /\ reviews[i].rec = task.rec
    BY DEF OutdateCommit, OutdatingInv, IdsOfRecord
  <1>3. /\ RowsKept /\ \A r, a : CurrentOf(r, a)' \subseteq CurrentOf(r, a)
        /\ \A r : r # task.rec => ReviewedAspects(r)' = ReviewedAspects(r)
    BY <1>1, <1>2, ChangedReads
  <1>4. call \in [Calls -> Requests \cup {NoRequest}]
    BY DEF ReviewsTypes
  <1>5. /\ call' \in [Calls -> Requests \cup {NoRequest}]
        /\ \A d \in Calls : call[d] = NoRequest <=> call'[d] = NoRequest
        /\ \A d \in Calls : call[d] # NoRequest =>
             /\ call'[d].at = call[d].at /\ call'[d].kind = call[d].kind
             /\ call'[d].rec = call[d].rec /\ call'[d].aspect = call[d].aspect
             /\ call'[d].ids = call[d].ids /\ call'[d].seen = call[d].seen
             /\ call'[d].raced = call[d].raced
             /\ call[d].old => call'[d].old
             /\ (call[d].at = "snapshot" /\ call[d].rec = task.rec) => call'[d].old
    BY <1>1, <1>4, OvertakingFacts
  <1>6. ASSUME NEW d \in Calls, NEW p \in {call'[d]} \ {NoRequest} PROVE RequestInv(p)'
    <2>1. call[d] \in Requests /\ RequestInv(call[d]) /\ p \in Requests
      BY <1>4, <1>5, <1>6 DEF RequestsInv
    <2>2. PICK o \in Requests : o = call[d]
      BY <2>1
    <2> QED BY <1>1, <1>3, <1>5, <1>6, <2>1, <2>2, OvertakenKept
  <1>7. ASSUME NEW d \in Calls, NEW r \in Reviewed, Refreshing(d, r) PROVE Refreshing(d, r)'
    <2>1. call[d].at \in {"stored", "snapshot"} /\ call[d].rec = r /\ call[d] # NoRequest
      BY <1>7 DEF Refreshing, NoRequest
    <2> QED BY <1>5, <2>1 DEF Refreshing
  <1>8. task.rec \in Reviewed
    BY <1>1 DEF Outdatings
  <1>9. ASSUME NEW r, r \notin Outdated' PROVE ReviewedAspects(r)' = ReviewedAspects(r)
    <2>1. CASE r # task.rec
      BY <1>3, <2>1
    <2>2. CASE r = task.rec
      <3>1. task.ids = {}
        <4>1. task' = [task EXCEPT !.at = "committed"]
          BY DEF OutdateCommit
        <4>2. task'.at = "committed" /\ task'.rec = task.rec /\ task'.ids = task.ids
          BY <1>1, <4>1 DEF Outdatings
        <4> QED BY <1>9, <2>2, <4>2 DEF Outdated
      <3>2. reviews' = [i \in DOMAIN reviews |-> reviews[i]]
        BY <1>1, <3>1 DEF WithStatus
      <3>3. reviews' = reviews
        BY <1>1, <3>2
      <3> QED BY <3>3, SameReads
    <2> QED BY <2>1, <2>2
  <1> QED BY <1>3, <1>5, <1>6, <1>7, <1>8, <1>9 DEF RequestsInv

\* Moving on to another record concerns the buttons only.
LEMMA ReviewButtonStep ==
  ASSUME ReviewsTypes, RequestsInv, ReviewButton
  PROVE  /\ call' \in [Calls -> Requests \cup {NoRequest}] /\ RequestsInv'
         /\ shown' \in [rec : Reviewed, aspect : Aspects \cup {"none"}]
         /\ \A d \in Calls, r \in Reviewed : Refreshing(d, r) => Refreshing(d, r)'
  <1>1. PICK r \in Reviewed, a \in Aspects \cup {"none"}, stays \in BOOLEAN :
          /\ shown' = [rec |-> r, aspect |-> a]
          /\ call' = [c \in Calls |->
               IF call[c].at # "idle" /\ call[c].bound
               THEN [call[c] EXCEPT !.bound = stays, !.target = IF stays THEN r ELSE @]
               ELSE call[c]]
          /\ reviews' = reviews
    BY DEF ReviewButton, serverVars
  <1>2. ASSUME NEW c \in Calls
        PROVE  /\ call'[c] \in Requests \cup {NoRequest}
               /\ \A p \in {call'[c]} \ {NoRequest} : RequestInv(p)'
               /\ \A s \in Reviewed : Refreshing(c, s) => Refreshing(c, s)'
    <2>1. CASE call[c].at # "idle" /\ call[c].bound
      <3>1. call[c] \in Requests /\ RequestInv(call[c])
        BY <2>1 DEF ReviewsTypes, RequestsInv, NoRequest
      <3>2. PICK o \in Requests : o = call[c]
        BY <3>1
      <3>3. call'[c] = [o EXCEPT !.bound = stays, !.target = IF stays THEN r ELSE @]
        BY <1>1, <2>1, <3>2
      <3>4. PICK p : p = call'[c]
        OBVIOUS
      <3>5. /\ p \in Requests /\ p.at = o.at /\ p.kind = o.kind /\ p.rec = o.rec
            /\ p.aspect = o.aspect /\ p.ids = o.ids /\ p.seen = o.seen
            /\ p.raced = o.raced /\ p.old = o.old
        BY <3>3, <3>4 DEF Requests
      <3>6. RequestInv(p)
        BY <3>1, <3>2, <3>5
        DEF RequestInv, IdsOfRecord, ScanIsCurrent, SnapshotIsFresh, DeletedIsGone
      <3>7. RequestInv(p)'
        BY <1>1, <3>6, SameRequestInv
      <3> QED BY <3>2, <3>4, <3>5, <3>7 DEF Refreshing
    <2>2. CASE ~(call[c].at # "idle" /\ call[c].bound)
      <3>1. call'[c] = call[c]
        BY <1>1, <2>2
      <3>2. ASSUME NEW p \in {call'[c]} \ {NoRequest} PROVE RequestInv(p)'
        <4>1. RequestInv(p)
          BY <3>1, <3>2 DEF RequestsInv
        <4> QED BY <1>1, <4>1, SameRequestInv
      <3> QED BY <3>1, <3>2 DEF Refreshing, ReviewsTypes
    <2> QED BY <2>1, <2>2
  <1>3. call' \in [Calls -> Requests \cup {NoRequest}]
    BY <1>1, <1>2
  <1>4. shown' \in [rec : Reviewed, aspect : Aspects \cup {"none"}]
    BY <1>1
  <1> QED BY <1>2, <1>3, <1>4 DEF RequestsInv

-------------------------------------------------------------------------------
(* The invariant *)

\* What was confirmed and seen is not disturbed by rows that are kept.
LEMMA ToldKept ==
  ASSUME RowsKept, ToldIsStored, SeenByTab, UNCHANGED <<told, fetched, invalid, missed>>
  PROVE  ToldIsStored' /\ SeenByTab'
  BY DEF RowsKept, ToldIsStored, SeenByTab

\* Analytics that follow go on doing so as long as rows, analytics and tasks
\* stay as they are.
LEMMA FollowKept ==
  ASSUME AnalyticsFollow, UNCHANGED <<reviews, analytics, lagging>>,
         UNCHANGED task \/ UNCHANGED Outdated,
         \A d \in Calls, r \in Reviewed : Refreshing(d, r) => Refreshing(d, r)'
  PROVE  AnalyticsFollow'
  <1>1. Outdated' = Outdated
    BY DEF Outdated
  <1> QED BY <1>1, SameReads DEF AnalyticsFollow, Refreshing

\* So does the uniqueness, when nothing is committed.
LEMMA UniqueKept ==
  ASSUME NoTwoCurrent, UNCHANGED <<reviews, overlapped>>
  PROVE  NoTwoCurrent'
  BY SameReads DEF NoTwoCurrent

\* Rows that do not change are kept.
LEMMA SameRowsKept == ASSUME ReviewsTypes, UNCHANGED reviews PROVE RowsKept
  BY DEF ReviewsTypes, RowsKept

\* A task that does not change keeps rows of its record.
LEMMA SameTaskKept ==
  ASSUME OutdatingInv, RowsKept, UNCHANGED task
  PROVE  OutdatingInv'
  BY DEF OutdatingInv, IdsOfRecord, RowsKept

\* The initial states satisfy the invariant.
LEMMA InitReviewsInv == ReviewsInit => ReviewsInv
  <1> SUFFICES ASSUME ReviewsInit PROVE ReviewsInv
    OBVIOUS
  <1>1. reviews \in Seq(Rows) /\ Len(reviews) <= 1
    <2>1. CASE reviews = <<>>
      BY <2>1
    <2>2. ASSUME NEW x \in Rows, reviews = <<x>> PROVE reviews \in Seq(Rows) /\ Len(reviews) <= 1
      BY <2>2
    <2>3. reviews = <<>> \/ \E x \in Rows : reviews = <<x>>
      <3>1. [rec : Reviewed, aspect : Aspects, by : Reviewers, status : {"current"}] \subseteq Rows
        BY DEF Rows
      <3> QED BY <3>1 DEF ReviewsInit
    <2> QED BY <2>1, <2>2, <2>3
  <1>2. ReviewsTypes
    <2>1. analytics \in [Reviewed -> SUBSET Aspects]
      BY <1>1, ReadFacts DEF ReviewsInit
    <2>2. task \in [at : {"idle"}, runs : Nat]
      BY ReviewsAssumption DEF ReviewsInit, Idle
    <2> QED BY <1>1, <2>1, <2>2 DEF ReviewsInit, ReviewsTypes
  <1>3. RequestsInv /\ OutdatingInv
    BY DEF ReviewsInit, RequestsInv, OutdatingInv, Idle
  <1>4. NoTwoCurrent
    BY <1>1 DEF NoTwoCurrent, CurrentOf, Current
  <1>5. AnalyticsFollow /\ ToldIsStored /\ SeenByTab
    BY DEF ReviewsInit, AnalyticsFollow, ToldIsStored, SeenByTab
  <1> QED BY <1>2, <1>3, <1>4, <1>5 DEF ReviewsInv

\* Every step of a request, a task, another reviewer or the tab preserves it.
LEMMA NextReviewsInv == ReviewsInv /\ [ReviewsNext]_reviewVars => ReviewsInv'
  <1> SUFFICES ASSUME ReviewsInv, [ReviewsNext]_reviewVars PROVE ReviewsInv'
    OBVIOUS
  <1> USE ReviewsAssumption DEF serverVars, tabVars
  <1>0. /\ ReviewsTypes /\ RequestsInv /\ OutdatingInv /\ NoTwoCurrent /\ AnalyticsFollow
        /\ ToldIsStored /\ SeenByTab
    BY DEF ReviewsInv
  <1>1. ASSUME NEW c \in Calls, Scan(c) \/ Mark(c) \/ Find(c) \/ Snapshot(c) PROVE ReviewsInv'
    <2>1. UNCHANGED <<reviews, analytics, task, overlapped, lagging, shown, fetched, invalid, told, missed>>
      BY <1>1 DEF Scan, Mark, Find, Snapshot
    <2>2. call' \in [Calls -> Requests \cup {NoRequest}] /\ RequestsInv' /\ RowsKept
      BY <1>0, <1>1, <2>1, RequestSteps, SameRowsKept
    <2>3. \A d \in Calls, r \in Reviewed : Refreshing(d, r) => Refreshing(d, r)'
      BY <1>0, <1>1 DEF Refreshing, Scan, Mark, Find, Fails, Snapshot, ReviewsTypes, Requests, NoRequest
    <2>4. ReviewsTypes'
      BY <1>0, <2>1, <2>2 DEF ReviewsTypes
    <2>5. OutdatingInv' /\ NoTwoCurrent' /\ AnalyticsFollow' /\ ToldIsStored' /\ SeenByTab'
      BY <1>0, <2>1, <2>2, <2>3, SameTaskKept, UniqueKept, FollowKept, ToldKept
    <2> QED BY <2>2, <2>4, <2>5 DEF ReviewsInv
  <1>2. ASSUME NEW c \in Calls, Refresh(c) PROVE ReviewsInv'
    <2>1. UNCHANGED <<reviews, task, overlapped, shown, fetched, invalid, told, missed>>
      BY <1>2 DEF Refresh
    <2>2. call' \in [Calls -> Requests \cup {NoRequest}] /\ RequestsInv' /\ RowsKept
      BY <1>0, <1>2, <2>1, RequestSteps, SameRowsKept
    <2>3. call[c] \in Requests /\ SnapshotIsFresh(call[c])
      BY <1>0, <1>2 DEF Refresh, ReviewsTypes, RequestsInv, RequestInv, NoRequest
    <2>4. PICK r \in Reviewed, seen \in SUBSET Aspects :
            r = call[c].rec /\ seen = call[c].seen /\ analytics' = [analytics EXCEPT ![r] = seen]
      BY <1>2, <2>3 DEF Refresh, Requests
    <2>5. ReviewsTypes'
      BY <1>0, <1>2, <2>1, <2>2, <2>4 DEF Refresh, ReviewsTypes
    <2>6. AnalyticsFollow'
      <3> SUFFICES ASSUME NEW s \in Reviewed, s \notin lagging' \cup Outdated
                   PROVE  \/ analytics'[s] = ReviewedAspects(s)'
                          \/ \E d \in Calls : Refreshing(d, s)'
        BY <2>1 DEF AnalyticsFollow, Refreshing, Outdated
      <3>1. CASE s = r
        BY <1>0, <1>2, <2>1, <2>3, <2>4, <3>1, SameReads
        DEF Refresh, SnapshotIsFresh, ReviewsTypes
      <3>2. CASE s # r
        <4>1. s \notin lagging /\ analytics'[s] = analytics[s]
          BY <1>0, <1>2, <2>4, <3>2 DEF Refresh, ReviewsTypes
        <4>2. \A d \in Calls : Refreshing(d, s) => Refreshing(d, s)'
          BY <1>0, <1>2, <2>4, <3>2 DEF Refreshing, Refresh, ReviewsTypes
        <4> QED BY <1>0, <2>1, <4>1, <4>2, SameReads DEF AnalyticsFollow, Refreshing
      <3> QED BY <3>1, <3>2
    <2>7. OutdatingInv' /\ NoTwoCurrent' /\ ToldIsStored' /\ SeenByTab'
      BY <1>0, <2>1, <2>2, SameTaskKept, UniqueKept, ToldKept
    <2> QED BY <2>2, <2>5, <2>6, <2>7 DEF ReviewsInv
  <1>3. ASSUME NEW c \in Calls, Lose(c) PROVE ReviewsInv'
    <2>1. UNCHANGED <<reviews, analytics, task, overlapped, shown, fetched, invalid, told, missed>>
      BY <1>3 DEF Lose
    <2>2. call' \in [Calls -> Requests \cup {NoRequest}] /\ RequestsInv' /\ RowsKept
      BY <1>0, <1>3, <2>1, RequestSteps, SameRowsKept
    <2>3. call[c] \in Requests /\ call[c].rec \in Reviewed
      BY <1>0, <1>3 DEF Lose, ReviewsTypes, Requests, NoRequest
    <2>4. ReviewsTypes'
      BY <1>0, <1>3, <2>1, <2>2, <2>3 DEF Lose, ReviewsTypes
    <2>5. AnalyticsFollow'
      <3> SUFFICES ASSUME NEW s \in Reviewed, s \notin lagging' \cup Outdated
                   PROVE  \/ analytics'[s] = ReviewedAspects(s)'
                          \/ \E d \in Calls : Refreshing(d, s)'
        BY <2>1 DEF AnalyticsFollow, Refreshing, Outdated
      <3>1. s \notin lagging /\ ~Refreshing(c, s)
        BY <1>3 DEF Lose, Refreshing
      <3>2. \A d \in Calls : Refreshing(d, s) => Refreshing(d, s)'
        BY <1>0, <1>3, <3>1 DEF Refreshing, Lose, Fails, ReviewsTypes
      <3> QED BY <1>0, <2>1, <3>1, <3>2, SameReads DEF AnalyticsFollow, Refreshing
    <2>6. OutdatingInv' /\ NoTwoCurrent' /\ ToldIsStored' /\ SeenByTab'
      BY <1>0, <2>1, <2>2, SameTaskKept, UniqueKept, ToldKept
    <2> QED BY <2>2, <2>4, <2>5, <2>6 DEF ReviewsInv
  <1>4. ASSUME NEW c \in Calls, CommitCreate(c) \/ CommitDelete(c) PROVE ReviewsInv'
    <2>1. UNCHANGED <<analytics, task, lagging, shown, fetched, invalid, told, missed>>
      BY <1>4 DEF CommitCreate, CommitDelete, Superseded
    <2>2. /\ call' \in [Calls -> Requests \cup {NoRequest}] /\ RequestsInv' /\ RowsKept
          /\ \A r : r # call[c].rec => ReviewedAspects(r)' = ReviewedAspects(r)
          /\ call[c].rec \in Reviewed /\ \A r : r = call[c].rec => Refreshing(c, r)'
          /\ \A d \in Calls, r \in Reviewed : Refreshing(d, r) => Refreshing(d, r)'
      BY <1>0, <1>4, CommitSteps
    <2>3. ReviewsTypes'
      BY <1>0, <2>1, <2>2 DEF ReviewsTypes, RowsKept
    <2>4. AnalyticsFollow'
      <3> SUFFICES ASSUME NEW s \in Reviewed, s \notin lagging \cup Outdated
                   PROVE  \/ analytics[s] = ReviewedAspects(s)'
                          \/ \E d \in Calls : Refreshing(d, s)'
        BY <2>1 DEF AnalyticsFollow, Refreshing, Outdated
      <3>1. CASE s = call[c].rec
        BY <2>2, <3>1 DEF Refreshing
      <3>2. CASE s # call[c].rec
        <4>1. ReviewedAspects(s)' = ReviewedAspects(s)
          BY <2>2, <3>2
        <4>2. \/ analytics[s] = ReviewedAspects(s)
              \/ \E d \in Calls : Refreshing(d, s)
          <5>1. s \in Reviewed \ (lagging \cup Outdated)
            OBVIOUS
          <5> QED BY <1>0, <5>1 DEF AnalyticsFollow, Refreshing
        <4>3. (\E d \in Calls : Refreshing(d, s)) => \E d \in Calls : Refreshing(d, s)'
          BY <2>2
        <4> QED BY <4>1, <4>2, <4>3
      <3> QED BY <3>1, <3>2
    <2>5. NoTwoCurrent'
      <3>1. /\ call[c] \in Requests /\ reviews \in Seq(Rows)
            /\ \A i \in call[c].ids : i \in DOMAIN reviews /\ reviews[i].rec = call[c].rec
            /\ ScanIsCurrent(call[c])
        BY <1>0, <1>4
        DEF CommitCreate, CommitDelete, Superseded, ReviewsTypes, RequestsInv, RequestInv, IdsOfRecord, NoRequest
      <3>2. CASE CommitDelete(c)
        <4>1. \A r, a : CurrentOf(r, a)' \subseteq CurrentOf(r, a)
          BY <3>1, <3>2, ChangedReads DEF CommitDelete, Superseded
        <4> QED BY <1>0, <3>2, <4>1 DEF NoTwoCurrent, CommitDelete, Superseded
      <3>3. CASE CommitCreate(c)
        <4> DEFINE q == call[c]
                   row == [rec |-> q.rec, aspect |-> q.aspect, by |-> q.user, status |-> "current"]
        <4>1. /\ reviews' = Append(WithStatus(q.ids, "superseded"), row) /\ q.at = "marked"
              /\ overlapped' = IF q.raced THEN overlapped \cup {<<q.rec, q.aspect>>}
                                          ELSE overlapped \ {<<q.rec, q.aspect>>}
          BY <3>3 DEF CommitCreate
        <4>2. row \in Rows /\ row.rec = q.rec /\ row.aspect = q.aspect
          BY <3>1 DEF Rows, Requests
        <4>3. /\ \A r, a : r # q.rec \/ a # q.aspect => CurrentOf(r, a)' \subseteq CurrentOf(r, a)
              /\ \A r, a : CurrentOf(r, a)' \subseteq (CurrentOf(r, a) \ q.ids) \cup {Len(reviews) + 1}
          BY <3>1, <4>1, <4>2, InsertedReads
        <4>4. ASSUME NEW r \in Reviewed, NEW a \in Aspects, <<r, a>> \notin overlapped',
                     NEW i \in CurrentOf(r, a)', NEW j \in CurrentOf(r, a)'
              PROVE  i = j
          <5>1. CASE r = q.rec /\ a = q.aspect
            <6>1. ~q.raced
              BY <4>1, <4>4, <5>1
            <6>2. CurrentOf(r, a) \subseteq q.ids
              BY <3>1, <4>1, <5>1, <6>1 DEF ScanIsCurrent
            <6> QED BY <4>3, <4>4, <6>2
          <5>2. CASE ~(r = q.rec /\ a = q.aspect)
            BY <1>0, <4>1, <4>3, <4>4, <5>2 DEF NoTwoCurrent
          <5> QED BY <5>1, <5>2
        <4> QED BY <4>4 DEF NoTwoCurrent
      <3> QED BY <1>4, <3>2, <3>3
    <2>6. OutdatingInv' /\ ToldIsStored' /\ SeenByTab'
      BY <1>0, <2>1, <2>2, SameTaskKept, ToldKept
    <2> QED BY <2>2, <2>3, <2>4, <2>5, <2>6 DEF ReviewsInv
  <1>5. ASSUME NEW c \in Calls, OnSuccess(c) PROVE ReviewsInv'
    <2>1. UNCHANGED <<reviews, analytics, task, overlapped, lagging, shown, fetched>>
      BY <1>5 DEF OnSuccess, ReviewAnswered
    <2>2. call' \in [Calls -> Requests \cup {NoRequest}] /\ RequestsInv' /\ RowsKept
      BY <1>0, <1>5, <2>1, RequestSteps, SameRowsKept
    <2>3. /\ call[c] \in Requests /\ call[c].at = "done" /\ IdsOfRecord(call[c])
          /\ DeletedIsGone(call[c])
      BY <1>0, <1>5 DEF OnSuccess, ReviewAnswered, ReviewsTypes, RequestsInv, RequestInv, NoRequest
    <2>4. PICK q \in Requests : q = call[c]
      BY <2>3
    <2>5. \/ UNCHANGED <<invalid, missed, told>>
          \/ /\ invalid' = invalid \cup {q.target}
             /\ missed' = missed \cup ({q.rec} \ {q.target})
             /\ told' = told \cup
                  {<<i, IF q.kind = "create" THEN "current" ELSE "superseded">> : i \in q.ids}
      BY <1>5, <2>3, <2>4 DEF OnSuccess, ReviewAnswered, Target
    <2>6. q.target \in Reviewed /\ q.rec \in Reviewed /\ q.ids \in SUBSET Nat
      BY DEF Requests
    <2>7. ReviewsTypes'
      BY <1>0, <2>1, <2>2, <2>5, <2>6 DEF ReviewsTypes
    <2>8. AnalyticsFollow'
      <3>1. \A d \in Calls, r \in Reviewed : Refreshing(d, r) => Refreshing(d, r)'
        BY <1>0, <1>5, <2>3 DEF Refreshing, OnSuccess, ReviewAnswered, ReviewsTypes
      <3> QED BY <1>0, <2>1, <3>1, FollowKept
    <2>9. ToldIsStored'
      BY <1>0, <2>1, <2>3, <2>4, <2>5 DEF ToldIsStored, IdsOfRecord, DeletedIsGone, Requests
    <2>10. SeenByTab'
      BY <1>0, <2>1, <2>3, <2>4, <2>5, <2>6 DEF SeenByTab, IdsOfRecord
    <2>11. OutdatingInv' /\ NoTwoCurrent'
      BY <1>0, <2>1, <2>2, SameTaskKept, UniqueKept
    <2> QED BY <2>2, <2>7, <2>8, <2>9, <2>10, <2>11 DEF ReviewsInv
  <1>6. CASE OutdateScan \/ OutdateMark
    <2>1. UNCHANGED <<reviews, analytics, call, overlapped, lagging, shown, fetched, invalid, told, missed>>
      BY <1>6 DEF OutdateScan, OutdateMark
    <2>2. /\ task.at # "committed" /\ task'.at # "committed"
          /\ task' \in Outdatings /\ OutdatingInv'
      <3>1. CASE OutdateScan
        <4>1. PICK k \in Contested, type \in ANALYTICS_REBUILD_TASK_TYPES \cup {"FetchRecord"} :
                \E A \in OutdatedAspects(type) :
                  task' = [at |-> "scanned", type |-> type, rec |-> k[1], runs |-> task.runs + 1,
                           ids |-> {i \in Current(k[1]) : reviews[i].aspect \in A}]
          BY <3>1 DEF OutdateScan
        <4>5. PICK A \in OutdatedAspects(type) :
                task' = [at |-> "scanned", type |-> type, rec |-> k[1], runs |-> task.runs + 1,
                         ids |-> {i \in Current(k[1]) : reviews[i].aspect \in A}]
          BY <4>1
        <4>2. k[1] \in Reviewed /\ Current(k[1]) \in SUBSET Nat /\ task.runs \in Nat
          BY <1>0, ReadFacts DEF ReviewsTypes, Outdatings
        <4>3. task' \in Outdatings
          BY <4>2, <4>5 DEF Outdatings
        <4>4. OutdatingInv'
          BY <2>1, <4>5 DEF OutdatingInv, IdsOfRecord, Current
        <4> QED BY <3>1, <4>3, <4>4, <4>5 DEF OutdateScan
      <3>2. CASE OutdateMark
        <4>1. task \in Outdatings /\ task' = [task EXCEPT !.at = "marked", !.ids = @ \cap Current(task.rec)]
          BY <1>0, <3>2 DEF OutdateMark, ReviewsTypes
        <4>2. /\ task' \in Outdatings /\ task'.rec = task.rec /\ task'.ids \subseteq task.ids
              /\ task'.at = "marked"
          BY <4>1 DEF Outdatings
        <4>3. OutdatingInv'
          BY <1>0, <2>1, <3>2, <4>2 DEF OutdatingInv, IdsOfRecord, OutdateMark
        <4> QED BY <3>2, <4>2, <4>3 DEF OutdateMark
      <3> QED BY <1>6, <3>1, <3>2
    <2>3. RowsKept /\ RequestsInv'
      BY <1>0, <2>1, SameRowsKept, SameRequestInv DEF RequestsInv
    <2>4. ReviewsTypes'
      BY <1>0, <2>1, <2>2 DEF ReviewsTypes
    <2>5. NoTwoCurrent' /\ AnalyticsFollow' /\ ToldIsStored' /\ SeenByTab'
      BY <1>0, <2>1, <2>2, <2>3, UniqueKept, FollowKept, ToldKept DEF Refreshing, Outdated
    <2> QED BY <2>2, <2>3, <2>4, <2>5 DEF ReviewsInv
  <1>7. CASE OutdateCommit
    <2>1. /\ UNCHANGED <<analytics, overlapped, lagging, shown, fetched, invalid, told, missed>>
          /\ task' = [task EXCEPT !.at = "committed"] /\ task \in Outdatings /\ task.at # "idle"
      BY <1>0, <1>7 DEF OutdateCommit, ReviewsTypes
    <2>2. /\ call' \in [Calls -> Requests \cup {NoRequest}] /\ RequestsInv' /\ RowsKept
          /\ task.rec \in Reviewed
          /\ \A r, a : CurrentOf(r, a)' \subseteq CurrentOf(r, a)
          /\ \A r : r \notin Outdated' => ReviewedAspects(r)' = ReviewedAspects(r)
          /\ \A d \in Calls, r \in Reviewed : Refreshing(d, r) => Refreshing(d, r)'
      BY <1>0, <1>7, OutdateCommitStep
    <2>3. /\ task' \in Outdatings /\ task'.at = "committed" /\ task'.rec = task.rec
          /\ task'.ids = task.ids
      BY <2>1 DEF Outdatings
    <2>4. ReviewsTypes'
      BY <1>0, <2>1, <2>2, <2>3 DEF ReviewsTypes, RowsKept
    <2>5. AnalyticsFollow'
      <3>1. Outdated = {}
        BY <1>7 DEF OutdateCommit, Outdated
      <3> SUFFICES ASSUME NEW s \in Reviewed, s \notin lagging \cup Outdated'
                   PROVE  \/ analytics[s] = ReviewedAspects(s)'
                          \/ \E d \in Calls : Refreshing(d, s)'
        BY <2>1 DEF AnalyticsFollow, Refreshing
      <3> QED BY <1>0, <2>2, <3>1 DEF AnalyticsFollow, Refreshing
    <2>6. OutdatingInv'
      BY <1>0, <2>1, <2>2, <2>3 DEF OutdatingInv, IdsOfRecord, RowsKept
    <2>7. NoTwoCurrent'
      BY <1>0, <2>1, <2>2 DEF NoTwoCurrent
    <2> QED BY <1>0, <2>1, <2>2, <2>4, <2>5, <2>6, <2>7, ToldKept DEF ReviewsInv
  <1>8. CASE TaskSucceeds \/ FetchSucceeds \/ TaskFails
    <2>1. /\ UNCHANGED <<reviews, call, overlapped, shown, fetched, told, missed>>
          /\ invalid' \in {invalid, Reviewed} /\ task' = [Idle EXCEPT !.runs = task.runs]
      BY <1>8 DEF TaskSucceeds, FetchSucceeds, TaskFails, Unrefreshed, Published
    <2>2. task' \in [at : {"idle"}, runs : Nat]
      BY <1>0, <2>1 DEF ReviewsTypes, Outdatings, Idle
    <2>3. RowsKept /\ RequestsInv' /\ OutdatingInv'
      BY <1>0, <2>1, <2>2, SameRowsKept, SameRequestInv DEF RequestsInv, OutdatingInv
    <2>4. /\ analytics' \in [Reviewed -> SUBSET Aspects] /\ lagging' \subseteq Reviewed
          /\ AnalyticsFollow'
      <3>1. CASE TaskSucceeds
        <4>1. analytics' = [r \in Reviewed |-> ReviewedAspects(r)] /\ lagging' = {}
          BY <3>1 DEF TaskSucceeds
        <4>2. analytics' \in [Reviewed -> SUBSET Aspects]
          BY <1>0, <4>1, ReadFacts DEF ReviewsTypes
        <4> QED BY <2>1, <4>1, <4>2, SameReads DEF AnalyticsFollow
      <3>2. CASE Unrefreshed
        <4>1. analytics' = analytics /\ lagging' = lagging \cup Outdated /\ Outdated \subseteq Reviewed
          BY <1>0, <3>2 DEF Unrefreshed, Outdated, ReviewsTypes, Outdatings
        <4>2. Outdated' = {}
          BY <2>1 DEF Idle, Outdated
        <4> QED BY <1>0, <2>1, <4>1, <4>2, SameReads DEF AnalyticsFollow, ReviewsTypes
      <3> QED BY <1>8, <3>1, <3>2 DEF FetchSucceeds, TaskFails
    <2>5. ReviewsTypes'
      BY <1>0, <2>1, <2>2, <2>4 DEF ReviewsTypes
    <2>6. NoTwoCurrent' /\ ToldIsStored'
      BY <1>0, <2>1, <2>3, UniqueKept DEF ToldIsStored
    <2>7. SeenByTab'
      BY <1>0, <2>1 DEF SeenByTab, ReviewsTypes
    <2> QED BY <2>3, <2>4, <2>5, <2>6, <2>7 DEF ReviewsInv
  <1>9. CASE OthersAsk \/ SubmitReview \/ HandleRemove
    <2>1. UNCHANGED <<reviews, analytics, task, overlapped, lagging, shown, fetched, invalid, told, missed>>
      BY <1>9 DEF OthersAsk, SubmitReview, HandleRemove
    <2>2. PICK u \in Reviewers, k \in {"create", "delete"}, r \in Reviewed, a \in Aspects :
            Sent(Request(u, k, r, a))
      <3>1. CASE OthersAsk
        BY <3>1 DEF OthersAsk
      <3>2. CASE SubmitReview \/ HandleRemove
        <4>1. shown.rec \in Reviewed /\ shown.aspect \in Aspects
          BY <1>0, <3>2 DEF SubmitReview, HandleRemove, ReviewsTypes
        <4> QED BY <3>2, <4>1 DEF SubmitReview, HandleRemove
      <3> QED BY <1>9, <3>1, <3>2
    <2>3. PICK c \in Calls : /\ call[c] = NoRequest /\ Replaces(c, Request(u, k, r, a))
                             /\ call' \in [Calls -> Requests \cup {NoRequest}] /\ RequestsInv'
      BY <1>0, <2>1, <2>2, NewRequest
    <2>4. \A d \in Calls, s \in Reviewed : Refreshing(d, s) => Refreshing(d, s)'
      BY <2>3 DEF Refreshing, Replaces, NoRequest
    <2>5. RowsKept
      BY <1>0, <2>1, SameRowsKept
    <2>6. ReviewsTypes'
      BY <1>0, <2>1, <2>3 DEF ReviewsTypes
    <2>7. OutdatingInv' /\ NoTwoCurrent' /\ AnalyticsFollow' /\ ToldIsStored' /\ SeenByTab'
      BY <1>0, <2>1, <2>4, <2>5, SameTaskKept, UniqueKept, FollowKept, ToldKept
    <2> QED BY <2>3, <2>6, <2>7 DEF ReviewsInv
  <1>10. CASE ReviewButton
    <2>1. UNCHANGED <<reviews, analytics, task, overlapped, lagging, fetched, invalid, told, missed>>
      BY <1>10 DEF ReviewButton
    <2>2. /\ call' \in [Calls -> Requests \cup {NoRequest}] /\ RequestsInv' /\ RowsKept
          /\ shown' \in [rec : Reviewed, aspect : Aspects \cup {"none"}]
          /\ \A d \in Calls, r \in Reviewed : Refreshing(d, r) => Refreshing(d, r)'
      BY <1>0, <1>10, <2>1, ReviewButtonStep, SameRowsKept
    <2>3. ReviewsTypes'
      BY <1>0, <2>1, <2>2 DEF ReviewsTypes
    <2>4. OutdatingInv' /\ NoTwoCurrent' /\ AnalyticsFollow' /\ ToldIsStored' /\ SeenByTab'
      BY <1>0, <2>1, <2>2, SameTaskKept, UniqueKept, FollowKept, ToldKept
    <2> QED BY <2>2, <2>3, <2>4 DEF ReviewsInv
  <1>11. CASE UseRecordReviews
    <2>1. UNCHANGED <<reviews, analytics, task, overlapped, lagging, call, shown, told>>
      BY <1>11 DEF UseRecordReviews
    <2>2. PICK r \in Reviewed : /\ invalid' = invalid \ {r} /\ missed' = missed \ {r}
                                /\ fetched' = [fetched EXCEPT ![r] = Current(r)]
      BY <1>0, <1>11 DEF UseRecordReviews, ReviewsTypes
    <2>3. RowsKept /\ RequestsInv'
      BY <1>0, <2>1, SameRowsKept, SameRequestInv DEF RequestsInv
    <2>4. ReviewsTypes'
      BY <1>0, <2>1, <2>2, ReadFacts DEF ReviewsTypes
    <2>5. SeenByTab'
      <3> SUFFICES ASSUME NEW s \in Reviewed \ (invalid' \cup missed'), NEW m \in told,
                          reviews[m[1]].rec = s
                   PROVE  IF m[2] = "current"
                          THEN reviews[m[1]].status = "current" => m[1] \in fetched'[s]
                          ELSE m[1] \notin fetched'[s]
        BY <2>1 DEF SeenByTab
      <3>1. CASE s = r
        <4>1. fetched'[s] = Current(r)
          BY <1>0, <2>2, <3>1 DEF ReviewsTypes
        <4> QED BY <1>0, <3>1, <4>1 DEF ToldIsStored, Current
      <3>2. CASE s # r
        <4>1. fetched'[s] = fetched[s] /\ s \notin invalid \cup missed
          BY <1>0, <2>2, <3>2 DEF ReviewsTypes
        <4> QED BY <1>0, <4>1 DEF SeenByTab
      <3> QED BY <3>1, <3>2
    <2>6. OutdatingInv' /\ NoTwoCurrent' /\ AnalyticsFollow' /\ ToldIsStored'
      BY <1>0, <2>1, <2>3, SameTaskKept, UniqueKept, FollowKept DEF Refreshing, ToldIsStored
    <2> QED BY <2>3, <2>4, <2>5, <2>6 DEF ReviewsInv
  <1>12. CASE UNCHANGED reviewVars
    <2>1. RowsKept /\ RequestsInv'
      BY <1>0, <1>12, SameRowsKept, SameRequestInv DEF RequestsInv, reviewVars
    <2>2. ReviewsTypes'
      BY <1>0, <1>12 DEF ReviewsTypes, reviewVars
    <2>3. OutdatingInv' /\ NoTwoCurrent' /\ AnalyticsFollow' /\ ToldIsStored' /\ SeenByTab'
      BY <1>0, <1>12, <2>1, SameTaskKept, UniqueKept, FollowKept, ToldKept DEF reviewVars, Refreshing
    <2> QED BY <2>1, <2>2, <2>3 DEF ReviewsInv
  <1> QED
    BY <1>1, <1>2, <1>3, <1>4, <1>5, <1>6, <1>7, <1>8, <1>9, <1>10, <1>11, <1>12 DEF ReviewsNext

-------------------------------------------------------------------------------
\* The invariant holds throughout.
THEOREM ReviewsInvariant == ReviewsSpec => []ReviewsInv
  BY InitReviewsInv, NextReviewsInv, PTL DEF ReviewsSpec

\* At most one review of an aspect is current, unless two creations overlapped.
THEOREM OneCurrentReview == ReviewsSpec => []CurrentIsUnique
  <1>1. ASSUME ReviewsInv PROVE CurrentIsUnique
    <2> SUFFICES ASSUME NEW r \in Reviewed, NEW a \in Aspects, <<r, a>> \notin overlapped
                 PROVE  Cardinality(CurrentOf(r, a)) <= 1
      BY DEF CurrentIsUnique
    <2>1. \A i, j \in CurrentOf(r, a) : i = j
      BY <1>1 DEF ReviewsInv, NoTwoCurrent
    <2>2. CASE CurrentOf(r, a) = {}
      BY <2>2, FS_EmptySet
    <2>3. CASE CurrentOf(r, a) # {}
      <3>1. PICK i \in CurrentOf(r, a) : TRUE
        BY <2>3
      <3>2. CurrentOf(r, a) = {i}
        BY <2>1
      <3>3. Cardinality({i}) = 1
        BY FS_Singleton
      <3> QED BY <3>2, <3>3
    <2> QED BY <2>2, <2>3
  <1> QED BY <1>1, ReviewsInvariant, PTL

\* The analytics name the aspects with a current review, but while a refresh
\* is on its way, when it failed or was overtaken, or when a single record
\* was fetched again.
THEOREM AnalyticsKeepUp == ReviewsSpec => []AnalyticsFollow
  <1>1. ReviewsInv => AnalyticsFollow
    BY DEF ReviewsInv
  <1> QED BY <1>1, ReviewsInvariant, PTL

\* Reviewers see what was confirmed to them.
THEOREM ReviewersSeeTheirs == ReviewsSpec => []OwnSeen
  <1>1. ReviewsInv => OwnSeen
    BY DEF ReviewsInv, ReviewsTypes, SeenByTab, OwnSeen
  <1> QED BY <1>1, ReviewsInvariant, PTL

\* The history of reviews is kept: no step deletes a row, gives it to another
\* record, aspect or reviewer, or makes current again what was not.
THEOREM HistoryKept == ReviewsSpec => [][RowsKept]_reviewVars
  <1>1. ASSUME ReviewsInv, ReviewsNext PROVE RowsKept
    <2>0. ReviewsTypes /\ RequestsInv /\ OutdatingInv
      BY <1>1 DEF ReviewsInv
    <2>1. ASSUME NEW c \in Calls, CommitCreate(c) \/ CommitDelete(c) PROVE RowsKept
      BY <2>0, <2>1, CommitSteps
    <2>2. CASE OutdateCommit
      BY <2>0, <2>2, OutdateCommitStep
    <2>3. ASSUME NEW c \in Calls,
                 Scan(c) \/ Mark(c) \/ Find(c) \/ Snapshot(c) \/ Refresh(c) \/ Lose(c) \/ OnSuccess(c)
          PROVE  RowsKept
      BY <2>0, <2>3, SameRowsKept
      DEF Scan, Mark, Find, Snapshot, Refresh, Lose, OnSuccess, ReviewAnswered, serverVars
    <2>4. CASE \/ OutdateScan \/ OutdateMark \/ TaskSucceeds \/ FetchSucceeds \/ TaskFails
               \/ OthersAsk \/ SubmitReview \/ HandleRemove \/ ReviewButton \/ UseRecordReviews
      BY <2>0, <2>4, SameRowsKept
      DEF OutdateScan, OutdateMark, TaskSucceeds, FetchSucceeds, TaskFails, Unrefreshed, OthersAsk, SubmitReview,
          HandleRemove, ReviewButton, UseRecordReviews, serverVars
    <2> QED BY <1>1, <2>1, <2>2, <2>3, <2>4 DEF ReviewsNext
  <1> QED BY <1>1, ReviewsInvariant, PTL DEF ReviewsSpec
===============================================================================
