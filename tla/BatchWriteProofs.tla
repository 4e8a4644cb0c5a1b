--------------------------- MODULE BatchWriteProofs ---------------------------
(***************************************************************************)
(* Proofs about BatchWrite for every set of records and of versions, every *)
(* pair of intervals and every number of faults: a row, its bytes and its  *)
(* reviews stay together, with the exceptions the module names.            *)
(*                                                                         *)
(* The argument is about the buffered records.  A record gets into the     *)
(* buffer together with its row; they part when rebuild_all commits the    *)
(* row (early) or an error rolls it back (torn).  What is committed of a   *)
(* record is right if the buffer, once flushed, makes it right, and        *)
(* commits flush the buffer, or make the record early.                     *)
(***************************************************************************)
EXTENDS BatchWrite, TLAPS

\* The records whose row the transaction has, and those in the buffer.
Written == DOMAIN pending.rows
Buffered == DOMAIN buffer

\* The types, with the room that progress has left: two for a record that is
\* being counted, one once cycling the session has failed.
Types ==
  /\ TypeOK
  /\ pending = [rows |-> pending.rows, unprocessed |-> pending.unprocessed,
                outdated |-> pending.outdated]
  /\ items \in Nat /\ progress \in Nat
  /\ progress + (IF at = "try" THEN 2 ELSE IF at = "except" THEN 1 ELSE 0) <= 2 * items

\* A task that is over holds nothing.
OverIsEmpty == Over => Buffered = {}

\* The row of a buffered record is in the transaction, unless it was
\* committed or rolled back before.
BufferedHasRow ==
  /\ early \cap torn = {} /\ early \cup torn \subseteq Buffered
  /\ Buffered \ (early \cup torn) \subseteq Written

\* A row that was committed before its bytes is there, and was not changed
\* since.
EarlyHasRow ==
  \A r \in early : meta[r] # "absent" /\ r \notin pending.unprocessed \cup pending.outdated

\* A row, committed or not, has its bytes, or the buffer has or had them.
RowsHaveBytes ==
  \A r \in Records : r \in Written \/ meta[r] # "absent" =>
    bytes[r] # None \/ r \in Buffered \cup dropped

\* What is about to be replaced has no review and is not processed, or it
\* will have none when the transaction is committed.
ReplacedIsOutdated ==
  \A r \in Buffered \ torn : buffer[r] # bytes[r] =>
    \/ r \in undone \cup late
    \/ /\ r \in pending.outdated \/ review[r] = None
       /\ r \in pending.unprocessed \/ processed[r] = None

\* The version last handled is in the buffer, or stored.
GotIsKept ==
  /\ \A r \in Buffered : got[r] \in {None, buffer[r]}
  /\ \A r \in Records \ (Buffered \cup dropped) : got[r] \in {None, bytes[r]}

\* Only faults tear and lose anything.
FaultsAlone == faults = 0 => torn \cup undone \cup dropped = {}

\* The inductive invariant.
BatchInv == /\ Types /\ OverIsEmpty
            /\ BufferedHasRow /\ EarlyHasRow /\ RowsHaveBytes /\ BytesHaveMeta
            /\ ReplacedIsOutdated /\ ReviewsFollowBytes /\ ProcessedIsFresh
            /\ GotIsKept /\ FaultsAlone

-------------------------------------------------------------------------------
\* The initial states satisfy the invariant.
LEMMA InitBatchInv == Init => BatchInv
  <1> SUFFICES ASSUME Init PROVE BatchInv
    OBVIOUS
  <1> USE VersionsAssumption, BoundsAssumption DEF Init, Nothing, Empty, None, Contents
  <1>1. Types
    BY DEF Types, TypeOK, NoProcess
  <1>2. OverIsEmpty /\ BufferedHasRow /\ EarlyHasRow
    BY DEF OverIsEmpty, Over, BufferedHasRow, EarlyHasRow, Buffered
  <1>3. RowsHaveBytes /\ BytesHaveMeta
    BY DEF RowsHaveBytes, BytesHaveMeta, Written
  <1>4. ReplacedIsOutdated /\ ReviewsFollowBytes /\ ProcessedIsFresh
    BY DEF ReplacedIsOutdated, ReviewsFollowBytes, ProcessedIsFresh, Buffered
  <1>5. GotIsKept /\ FaultsAlone
    BY DEF GotIsKept, FaultsAlone, Buffered
  <1> QED BY <1>1, <1>2, <1>3, <1>4, <1>5 DEF BatchInv

\* Every answer, commit, fault and step of others preserves it.
LEMMA NextBatchInv == BatchInv /\ [Next]_vars => BatchInv'
  <1> SUFFICES ASSUME BatchInv, [Next]_vars PROVE BatchInv'
    OBVIOUS
  <1> USE VersionsAssumption, IntervalsAssumption, BoundsAssumption
      DEF BatchInv, Types, TypeOK, OverIsEmpty, Over, BufferedHasRow, EarlyHasRow,
          RowsHaveBytes, BytesHaveMeta, ReplacedIsOutdated, ReviewsFollowBytes,
          ProcessedIsFresh, GotIsKept, FaultsAlone, Written, Buffered, None, Contents,
          stored, histories
  <1>1. ASSUME NEW r \in Records, NEW v \in Versions, Handle(r, v) PROVE BatchInv'
    <2>1. (Types /\ OverIsEmpty)'
      BY <1>1 DEF Handle, Answered, Saved, Changes, Exists, Put
    <2>2. (BufferedHasRow /\ EarlyHasRow)'
      BY <1>1 DEF Handle, Answered, Saved, Changes, Exists, Put
    <2>3. (RowsHaveBytes /\ BytesHaveMeta)'
      BY <1>1 DEF Handle, Answered, Saved, Changes, Exists, Put
    <2>4. (ReplacedIsOutdated /\ ReviewsFollowBytes /\ ProcessedIsFresh)'
      BY <1>1 DEF Handle, Answered, Saved, Changes, Exists, Put
    <2>5. (GotIsKept /\ FaultsAlone)'
      BY <1>1 DEF Handle, Answered, Saved, Changes, Exists, Put
    <2> QED BY <2>1, <2>2, <2>3, <2>4, <2>5
  <1>2. ASSUME NEW r \in Records, MarkDeleted(r) PROVE BatchInv'
    BY <1>2 DEF MarkDeleted, Answered, Exists, Put
  <1>3. CASE Miss
    BY <1>3 DEF Miss, Answered
  <1>4. ASSUME NEW r \in Records, NEW v \in Versions, NEW b \in BOOLEAN,
               Raise(r, v, b)
        PROVE BatchInv'
    <2>1. (Types /\ OverIsEmpty)'
      BY <1>4 DEF Raise, Answered, Fails, Nothing, Empty, Put
    <2>2. (BufferedHasRow /\ EarlyHasRow)'
      BY <1>4 DEF Raise, Answered, Fails, Nothing, Empty, Put
    <2>3. (RowsHaveBytes /\ BytesHaveMeta)'
      BY <1>4 DEF Raise, Answered, Fails, Nothing, Empty, Put
    <2>4. (ReplacedIsOutdated /\ ReviewsFollowBytes /\ ProcessedIsFresh)'
      BY <1>4 DEF Raise, Answered, Fails, Nothing, Empty, Put
    <2>5. (GotIsKept /\ FaultsAlone)'
      BY <1>4 DEF Raise, Answered, Fails, Nothing, Empty, Put
    <2> QED BY <2>1, <2>2, <2>3, <2>4, <2>5
  <1>5. CASE ListFails
    BY <1>5 DEF ListFails, Fails
  <1>6. CASE Count
    BY <1>6 DEF Count, Counting, Counts
  <1>7. CASE Cycle
    <2>1. (Types /\ OverIsEmpty)'
      BY <1>7 DEF Cycle, Counting, Counts, CommitAll, Stores, Nothing, Empty
    <2>2. (BufferedHasRow /\ EarlyHasRow)'
      BY <1>7 DEF Cycle, Counting, Counts, CommitAll, Stores, Nothing, Empty
    <2>3. (RowsHaveBytes /\ BytesHaveMeta)'
      BY <1>7 DEF Cycle, Counting, Counts, CommitAll, Stores, Nothing, Empty
    <2>4. (ReplacedIsOutdated /\ ReviewsFollowBytes /\ ProcessedIsFresh)'
      BY <1>7 DEF Cycle, Counting, Counts, CommitAll, Stores, Nothing, Empty
    <2>5. (GotIsKept /\ FaultsAlone)'
      BY <1>7 DEF Cycle, Counting, Counts, CommitAll, Stores, Nothing, Empty
    <2> QED BY <2>1, <2>2, <2>3, <2>4, <2>5
  <1>8. CASE Rebuild
    <2>1. (Types /\ OverIsEmpty)'
      BY <1>8 DEF Rebuild, Counting, Counts, CommitRows, Stores, Nothing, Empty
    <2>2. (BufferedHasRow /\ EarlyHasRow)'
      BY <1>8 DEF Rebuild, Counting, Counts, CommitRows, Stores, Nothing, Empty
    <2>3. (RowsHaveBytes /\ BytesHaveMeta)'
      BY <1>8 DEF Rebuild, Counting, Counts, CommitRows, Stores, Nothing, Empty
    <2>4. (ReplacedIsOutdated /\ ReviewsFollowBytes /\ ProcessedIsFresh)'
      BY <1>8 DEF Rebuild, Counting, Counts, CommitRows, Stores, Nothing, Empty
    <2>5. (GotIsKept /\ FaultsAlone)'
      BY <1>8 DEF Rebuild, Counting, Counts, CommitRows, Stores, Nothing, Empty
    <2> QED BY <2>1, <2>2, <2>3, <2>4, <2>5
  <1>9. CASE CycleFails
    <2>1. PICK kept \in SUBSET DOMAIN buffer : Loses(kept)
      BY <1>9 DEF CycleFails
    <2>2. DOMAIN buffer' = kept /\ \A r \in kept : buffer'[r] = buffer[r]
      BY <2>1 DEF Loses, Restrict
    <2>3. CASE at = "try"
      <3>1. (Types /\ OverIsEmpty)'
        <4>1. pending' = Nothing /\ DOMAIN Nothing.rows = {}
          BY <2>3, <1>9 DEF CycleFails, Nothing, Empty
        <4>2. early' \cup torn' \cup dropped' \subseteq Records
          BY <1>9, <2>1, <2>2, <2>3 DEF CycleFails, Loses
        <4>3. TypeOK'
          BY <1>9, <2>2, <2>3, <4>1, <4>2 DEF CycleFails, Counts, Fails, Nothing
        <4> QED BY <1>9, <2>3, <4>1, <4>3 DEF CycleFails, Counts, Nothing
      <3>2. (BufferedHasRow /\ EarlyHasRow /\ RowsHaveBytes /\ BytesHaveMeta)'
        BY <1>9, <2>1, <2>2, <2>3 DEF CycleFails, Fails, Loses, Nothing, Empty
      <3>3. (ReplacedIsOutdated /\ ReviewsFollowBytes /\ ProcessedIsFresh)'
        BY <1>9, <2>1, <2>2, <2>3 DEF CycleFails, Loses, Nothing, Empty
      <3>4. (GotIsKept /\ FaultsAlone)'
        BY <1>9, <2>1, <2>2, <2>3 DEF CycleFails, Fails, Loses
      <3> QED BY <3>1, <3>2, <3>3, <3>4
    <2>4. CASE at = "except"
      <3>1. (Types /\ OverIsEmpty)'
        BY <1>9, <2>1, <2>2, <2>4 DEF CycleFails, Counts, Fails, Loses
      <3>2. (BufferedHasRow /\ EarlyHasRow /\ RowsHaveBytes /\ BytesHaveMeta)'
        BY <1>9, <2>1, <2>2, <2>4 DEF CycleFails, Fails, Loses
      <3>3. (ReplacedIsOutdated /\ ReviewsFollowBytes /\ ProcessedIsFresh)'
        BY <1>9, <2>1, <2>2, <2>4 DEF CycleFails, Loses
      <3>4. (GotIsKept /\ FaultsAlone)'
        BY <1>9, <2>1, <2>2, <2>4 DEF CycleFails, Fails, Loses
      <3> QED BY <3>1, <3>2, <3>3, <3>4
    <2> QED BY <1>9, <2>3, <2>4 DEF CycleFails, Counting
  <1>10. CASE Final
    <2>1. (Types /\ OverIsEmpty)'
      BY <1>10 DEF Final, CommitAll, Stores, Nothing, Empty
    <2>2. (BufferedHasRow /\ EarlyHasRow)'
      BY <1>10 DEF Final, CommitAll, Stores, Nothing, Empty
    <2>3. (RowsHaveBytes /\ BytesHaveMeta)'
      BY <1>10 DEF Final, CommitAll, Stores, Nothing, Empty
    <2>4. (ReplacedIsOutdated /\ ReviewsFollowBytes /\ ProcessedIsFresh)'
      BY <1>10 DEF Final, CommitAll, Stores, Nothing, Empty
    <2>5. (GotIsKept /\ FaultsAlone)'
      BY <1>10 DEF Final, CommitAll, Stores, Nothing, Empty
    <2> QED BY <2>1, <2>2, <2>3, <2>4, <2>5
  <1>11. CASE FinalFails
    <2>1. (Types /\ OverIsEmpty)'
      BY <1>11 DEF FinalFails, Fails, Loses, Restrict
    <2>2. (BufferedHasRow /\ EarlyHasRow)'
      BY <1>11 DEF FinalFails, Fails, Loses, Restrict
    <2>3. (RowsHaveBytes /\ BytesHaveMeta)'
      BY <1>11 DEF FinalFails, Fails, Loses, Restrict
    <2>4. (ReplacedIsOutdated /\ ReviewsFollowBytes /\ ProcessedIsFresh)'
      BY <1>11 DEF FinalFails, Fails, Loses, Restrict
    <2>5. (GotIsKept /\ FaultsAlone)'
      BY <1>11 DEF FinalFails, Fails, Loses, Restrict
    <2> QED BY <2>1, <2>2, <2>3, <2>4, <2>5
  <1>12. CASE FailureExit
    <2>1. (Types /\ OverIsEmpty)'
      BY <1>12 DEF FailureExit, CommitAll, Stores, Nothing, Empty
    <2>2. (BufferedHasRow /\ EarlyHasRow)'
      BY <1>12 DEF FailureExit, CommitAll, Stores, Nothing, Empty
    <2>3. (RowsHaveBytes /\ BytesHaveMeta)'
      BY <1>12 DEF FailureExit, CommitAll, Stores, Nothing, Empty
    <2>4. (ReplacedIsOutdated /\ ReviewsFollowBytes /\ ProcessedIsFresh)'
      BY <1>12 DEF FailureExit, CommitAll, Stores, Nothing, Empty
    <2>5. (GotIsKept /\ FaultsAlone)'
      BY <1>12 DEF FailureExit, CommitAll, Stores, Nothing, Empty
    <2> QED BY <2>1, <2>2, <2>3, <2>4, <2>5
  <1>13. CASE Crash
    <2>1. (Types /\ OverIsEmpty)'
      BY <1>13 DEF Crash, Fails, Nothing, Empty
    <2>2. (BufferedHasRow /\ EarlyHasRow)'
      BY <1>13 DEF Crash, Fails, Nothing, Empty
    <2>3. (RowsHaveBytes /\ BytesHaveMeta)'
      BY <1>13 DEF Crash, Fails, Nothing, Empty
    <2>4. (ReplacedIsOutdated /\ ReviewsFollowBytes /\ ProcessedIsFresh)'
      BY <1>13 DEF Crash, Fails, Nothing, Empty
    <2>5. (GotIsKept /\ FaultsAlone)'
      BY <1>13 DEF Crash, Fails, Nothing, Empty
    <2> QED BY <2>1, <2>2, <2>3, <2>4, <2>5
  <1>14. ASSUME NEW r \in Records, Review(r) PROVE BatchInv'
    <2>1. (Types /\ OverIsEmpty)'
      BY <1>14 DEF Review, Replaced
    <2>2. (BufferedHasRow /\ EarlyHasRow)'
      BY <1>14 DEF Review, Replaced
    <2>3. (RowsHaveBytes /\ BytesHaveMeta)'
      BY <1>14 DEF Review, Replaced
    <2>4. (ReplacedIsOutdated /\ ReviewsFollowBytes /\ ProcessedIsFresh)'
      BY <1>14 DEF Review, Replaced
    <2>5. (GotIsKept /\ FaultsAlone)'
      BY <1>14 DEF Review, Replaced
    <2> QED BY <2>1, <2>2, <2>3, <2>4, <2>5
  <1>15. ASSUME NEW r \in Records, ProcessBegin(r) PROVE BatchInv'
    BY <1>15 DEF ProcessBegin, NoProcess
  <1>16. CASE ProcessEnd
    <2>1. (Types /\ OverIsEmpty)'
      BY <1>16 DEF ProcessEnd, NoProcess, Replaced
    <2>2. (BufferedHasRow /\ EarlyHasRow)'
      BY <1>16 DEF ProcessEnd, NoProcess, Replaced
    <2>3. (RowsHaveBytes /\ BytesHaveMeta)'
      BY <1>16 DEF ProcessEnd, NoProcess, Replaced
    <2>4. (ReplacedIsOutdated /\ ReviewsFollowBytes /\ ProcessedIsFresh)'
      BY <1>16 DEF ProcessEnd, NoProcess, Replaced
    <2>5. (GotIsKept /\ FaultsAlone)'
      BY <1>16 DEF ProcessEnd, NoProcess, Replaced
    <2> QED BY <2>1, <2>2, <2>3, <2>4, <2>5
  <1>17. CASE UNCHANGED vars
    BY <1>17 DEF vars
  <1> HIDE DEF BatchInv, Types, TypeOK, OverIsEmpty, Over, BufferedHasRow, EarlyHasRow,
               RowsHaveBytes, BytesHaveMeta, ReplacedIsOutdated, ReviewsFollowBytes,
               ProcessedIsFresh, GotIsKept, FaultsAlone, Written, Buffered, None, Contents,
               stored, histories
  <1> QED
    BY <1>1, <1>2, <1>3, <1>4, <1>5, <1>6, <1>7, <1>8, <1>9,
       <1>10, <1>11, <1>12, <1>13, <1>14, <1>15, <1>16, <1>17
    DEF Next, Answer, Commits

-------------------------------------------------------------------------------
\* The invariant holds throughout.
THEOREM BatchInvariant == Spec => []BatchInv
  BY InitBatchInv, NextBatchInv, PTL DEF Spec

\* Type correctness, with progress bounded by the answers: the error path
\* counts a record once more, and no record more than twice.
THEOREM BatchTypeCorrect == Spec => []TypeOK
  <1>1. BatchInv => TypeOK
    BY DEF BatchInv, Types
  <1> QED BY <1>1, BatchInvariant, PTL

\* A row whose bytes are missing is a record in the buffer, or one whose bytes
\* a fault has lost.
THEOREM RowsKeepBytes == Spec => []MetaHasBytes
  <1>1. BatchInv => MetaHasBytes
    BY DEF BatchInv, Types, TypeOK, OverIsEmpty, RowsHaveBytes, MetaHasBytes, Buffered
  <1> QED BY <1>1, BatchInvariant, PTL

\* Bytes without a row come from a rollback only.
THEOREM BytesKeepRows == Spec => []BytesHaveMeta
  <1>1. BatchInv => BytesHaveMeta
    BY DEF BatchInv
  <1> QED BY <1>1, BatchInvariant, PTL

\* Current reviews are of the stored bytes, with the exceptions named.
THEOREM ReviewsStayFresh == Spec => []ReviewsFollowBytes
  <1>1. BatchInv => ReviewsFollowBytes
    BY DEF BatchInv
  <1> QED BY <1>1, BatchInvariant, PTL

\* Records marked as processed are processed as stored, with the same
\* exceptions.
THEOREM ProcessedStaysFresh == Spec => []ProcessedIsFresh
  <1>1. BatchInv => ProcessedIsFresh
    BY DEF BatchInv
  <1> QED BY <1>1, BatchInvariant, PTL

\* A successful task has stored what it handled: its buffer is empty, and
\* nothing left it but into the storage or by a fault.
THEOREM SuccessStoresAll == Spec => []NothingDropped
  <1>1. BatchInv => NothingDropped
    BY DEF BatchInv, OverIsEmpty, Over, GotIsKept, NothingDropped
  <1> QED BY <1>1, BatchInvariant, PTL

\* Without a fault there is one exception left, users and process_records
\* that are late: every row has or gets its bytes, all bytes have a row, and a
\* successful task has stored everything it handled.
FaultlessBatch ==
  faults = 0 => \A r \in Records :
    /\ meta[r] # "absent" => bytes[r] # None \/ (~Over /\ r \in DOMAIN buffer)
    /\ bytes[r] # None => meta[r] # "absent"
    /\ review[r] \in {None, bytes[r]} \/ r \in late
    /\ processed[r] \in {None, bytes[r]} \/ r \in late
    /\ at = "success" => got[r] \in {None, bytes[r]}

THEOREM FaultlessIsExact == Spec => []FaultlessBatch
  <1>1. ASSUME BatchInv PROVE FaultlessBatch
    <2> SUFFICES ASSUME faults = 0, NEW r \in Records
                 PROVE  /\ meta[r] # "absent" => bytes[r] # None \/ (~Over /\ r \in DOMAIN buffer)
                        /\ bytes[r] # None => meta[r] # "absent"
                        /\ review[r] \in {None, bytes[r]} \/ r \in late
                        /\ processed[r] \in {None, bytes[r]} \/ r \in late
                        /\ at = "success" => got[r] \in {None, bytes[r]}
      BY DEF FaultlessBatch
    <2>1. undone = {} /\ dropped = {}
      BY <1>1 DEF BatchInv, FaultsAlone
    <2>2. meta[r] # "absent" => bytes[r] # None \/ (~Over /\ r \in DOMAIN buffer)
      BY <1>1, <2>1 DEF BatchInv, OverIsEmpty, RowsHaveBytes, Buffered
    <2>3. bytes[r] # None => meta[r] # "absent"
      BY <1>1, <2>1 DEF BatchInv, BytesHaveMeta
    <2>4. /\ review[r] \in {None, bytes[r]} \/ r \in late
          /\ processed[r] \in {None, bytes[r]} \/ r \in late
      BY <1>1, <2>1 DEF BatchInv, ReviewsFollowBytes, ProcessedIsFresh
    <2>5. at = "success" => got[r] \in {None, bytes[r]}
      BY <1>1, <2>1 DEF BatchInv, OverIsEmpty, Over, GotIsKept
    <2> QED BY <2>2, <2>3, <2>4, <2>5
  <1> QED BY <1>1, BatchInvariant, PTL
===============================================================================
