----------------------------- MODULE MarcSectors -----------------------------
(***************************************************************************)
(* The storage of MARC records (app/adapters/marc_sectors.py and           *)
(* compact_sectors of app/maintenance/tasks.py): the bytes of up to        *)
(* SectorSize records concatenated in one row of marc_sectors, an offset   *)
(* and a length for each in marc_record_index, and a Redis cache of single *)
(* records.                                                                *)
(*                                                                         *)
(* The tasks that write (FetchRecord, FetchBatchOfRecords, SyncRecords,    *)
(* linking, processing, compaction) use sessions of their own under READ   *)
(* COMMITTED: every SELECT sees what is committed at that moment, a row    *)
(* read stays in the session, an UPDATE of a row waits for the transaction *)
(* that has updated it, and no SELECT locks anything.  A session here is   *)
(* one transaction: it ends with its commit or its rollback.               *)
(***************************************************************************)
EXTENDS Integers, FiniteSets, Sequences, Functions, Relation

CONSTANTS Records,     \* system numbers
          SectorSize,  \* SECTOR_SIZE
          Versions,    \* contents a record may have: version v is v bytes long
          Starts,      \* what may be stored at first: versions, 0 for none
          Puts,        \* what a session may write: versions of some records
          Writers,     \* sessions that write sectors
          Readers      \* sessions that only read

ASSUME RecordsAssumption == IsFiniteSet(Records) /\ Records \subseteq Nat
ASSUME SizesAssumption == /\ SectorSize \in Nat \ {0}
                          /\ Versions \subseteq Nat \ {0}
ASSUME InputsAssumption ==
  /\ Starts \subseteq [Records -> Versions \cup {0}]
  /\ \A put \in Puts : /\ DOMAIN put \subseteq Records /\ DOMAIN put # {}
                       /\ put \in [DOMAIN put -> Versions]

VARIABLES sectors,  \* sectors[s]: the committed row of marc_sectors
          index,    \* index[r]: the committed row of marc_record_index
          cache,    \* cache[r]: the Redis value of r, or NoBytes
          session,  \* session[w]: the transaction of writer w
          read,     \* read[q]: the call of read_marc of reader q
          stored,   \* stored[r]: the version last committed, 0 if none (history)
          raced,    \* sectors written from rows that had changed (history)
          crossed,  \* records cached from a read during a write (history)
          uncleared \* entries whose invalidation has failed (history)

vars == <<sectors, index, cache, session, read, stored, raced, crossed, uncleared>>
tables == <<sectors, index, stored>>

NoSector == [data |-> <<>>, count |-> 0]
NoRow == [offset |-> 0, length |-> 0]
NoBytes == <<>>

\* g, with what f says instead where it says something.
Over(f, g) == [x \in DOMAIN f \cup DOMAIN g |-> IF x \in DOMAIN f THEN f[x] ELSE g[x]]

\* sysno_to_sector_id.
SectorOf(r) == r \div SectorSize
Sectors == {SectorOf(r) : r \in Records}
InSector(s) == {r \in Records : SectorOf(r) = s}

\* The bytes of version v of record r.
Marc(r, v) == [i \in 1..v |-> <<r, v>>]

\* raw[offset : offset + length]: Python slices what there is.
Slice(data, row) ==
  LET end == row.offset + row.length
  IN  SubSeq(data, row.offset + 1, IF end <= Len(data) THEN end ELSE Len(data))

\* _parse_blob_with_index, from the rows that were selected.
Parsed(sector, rows) == [r \in DOMAIN rows |-> Slice(sector.data, rows[r])]

\* The bytes of the records of D: byte i of record x is <<x, i>>.
BytesOf(records, D) == UNION {{x} \X (1..Len(records[x])) : x \in D}

\* The offset of r: the bytes of the records with smaller system numbers.
Offset(records, r) == Cardinality(BytesOf(records, {x \in DOMAIN records : x < r}))

\* The index rows write_records_to_sector gives to the records,
Rows(records) ==
  [r \in DOMAIN records |->
     [offset |-> Offset(records, r), length |-> Len(records[r])]]

\* and their bytes, in the order of the system numbers.
Concatenated(records) ==
  LET rows == Rows(records)
      bytes == BytesOf(records, DOMAIN records)
      At(k) == CHOOSE b \in bytes : rows[b[1]].offset + b[2] = k
  IN  [k \in 1..Cardinality(bytes) |-> LET b == At(k) IN records[b[1]][b[2]]]

\* The row of the sector.
Image(records) == [data |-> Concatenated(records), count |-> Cardinality(DOMAIN records)]

\* The contents of a sector of which version[r] of each record is stored.
Contents(version, s) ==
  [r \in {x \in InSector(s) : version[x] # 0} |-> Marc(r, version[r])]

Idle == [at |-> "idle", kind |-> "put", todo |-> <<>>, put |-> <<>>,
         seen |-> NoSector, loaded |-> <<>>, dirty |-> <<>>, rows |-> <<>>]
Committed == [Idle EXCEPT !.at = "done"]
RolledBack == [Idle EXCEPT !.at = "failed"]
NoRead == [at |-> "idle", of |-> 0, row |-> NoRow, bytes |-> NoBytes]

\* Every sector is as a write of all its records leaves it.
Init == /\ stored \in Starts
        /\ sectors = [s \in Sectors |->
                        IF DOMAIN Contents(stored, s) = {} THEN NoSector
                                                ELSE Image(Contents(stored, s))]
        /\ index = [r \in Records |->
                      IF stored[r] = 0 THEN NoRow
                                       ELSE Rows(Contents(stored, SectorOf(r)))[r]]
        /\ cache = [r \in Records |-> NoBytes]
        /\ session = [w \in Writers |-> Idle]
        /\ read = [q \in Readers |-> NoRead]
        /\ raced = {}
        /\ crossed = {}
        /\ uncleared = {}

TypeOK ==
  LET Bytes == Seq(Records \X Versions)
      Row == [offset : Nat, length : Nat]
  IN  /\ sectors \in [Sectors -> [data : Bytes, count : 0..SectorSize]]
      /\ index \in [Records -> Row]
      /\ cache \in [Records -> Bytes]
      /\ stored \in [Records -> Versions \cup {0}]
      /\ raced \in SUBSET Sectors
      /\ crossed \in SUBSET Records
      /\ uncleared \in SUBSET Records
      /\ \A w \in Writers :
           /\ session[w].at \in {"idle", "begun", "half", "ready", "commit",
                                "done", "failed"}
           /\ session[w].kind \in {"put", "compact"}
           /\ session[w].todo \in Seq(Sectors)
           /\ session[w].put \in Puts \cup {<<>>}
           /\ DOMAIN session[w].dirty \subseteq Sectors
           /\ DOMAIN session[w].loaded \cup DOMAIN session[w].rows \subseteq Records
      /\ \A q \in Readers : /\ read[q].at \in {"idle", "looked", "sliced"}
                            /\ read[q].row \in Row
                            /\ read[q].bytes \in Bytes

-------------------------------------------------------------------------------
(* The statements of a writing session *)

\* The order in which the sectors of a buffer are written: that in which they
\* were first added to it.
Orders(S) == Bijection(1..Cardinality(S), S)

\* A transaction starts, either one that writes records (upsert_record_in_sector
\* and SectorBuffer.flush_all) or the compaction of one sector.
Begin(w) ==
  /\ session[w].at = "idle"
  /\ \/ \E put \in Puts : \E order \in Orders({SectorOf(r) : r \in DOMAIN put}) :
          session' = [session EXCEPT ![w] =
                        [Idle EXCEPT !.at = "begun", !.todo = order, !.put = put]]
     \/ \E s \in Sectors :
          /\ sectors[s] # NoSector
          /\ session' = [session EXCEPT ![w] =
                           [Idle EXCEPT !.at = "begun", !.todo = <<s>>, !.kind = "compact"]]
  /\ UNCHANGED <<tables, cache, read, raced, crossed, uncleared>>

Target(w) == Head(session[w].todo)

\* SELECT of the sector: first when records are written, where a sector that
\* does not exist needs no index rows, and after them in compact_sectors.
SelectSector(w) ==
  /\ session[w].at = IF session[w].kind = "put" THEN "begun" ELSE "half"
  /\ LET found == sectors[Target(w)]
     IN  session' = [session EXCEPT ![w] =
           [session[w] EXCEPT !.seen = found,
                     !.loaded = IF session[w].kind = "put" THEN <<>> ELSE @,
                     !.at = IF session[w].kind = "put" /\ found # NoSector
                            THEN "half" ELSE "ready"]]
  /\ UNCHANGED <<tables, cache, read, raced, crossed, uncleared>>

\* SELECT of the sector's index rows.
SelectRows(w) ==
  /\ session[w].at = IF session[w].kind = "put" THEN "half" ELSE "begun"
  /\ LET found == {r \in InSector(Target(w)) : index[r] # NoRow}
     IN  session' = [session EXCEPT ![w] =
           [session[w] EXCEPT !.loaded = Restrict(index, found),
                     !.at = IF session[w].kind = "put" THEN "ready" ELSE "half"]]
  /\ UNCHANGED <<tables, cache, read, raced, crossed, uncleared>>

\* The records of the sector that are to be written.  (Mutated NewRecords: the
\* sector is replaced by them.)
Buffered(w) ==
  [r \in {x \in DOMAIN session[w].put : SectorOf(x) = Target(w)} |->
     Marc(r, session[w].put[r])]

\* What the sector is to hold: what was read of it, with the new records.
NewRecords(w) ==
  Over(Buffered(w), Parsed(session[w].seen, session[w].loaded))

\* A session waits for another that has updated the sector it is to update;
\* SQLAlchemy sends no UPDATE when the row would not change.
Updates(w) == Image(NewRecords(w)) # session[w].seen
WaitsFor(w, v) == /\ v # w
                  /\ session[w].at = "ready"
                  /\ Target(w) \in DOMAIN session[v].dirty
                  /\ Updates(w)
Blocked(w) == \E v \in Writers : WaitsFor(w, v)

\* compact_sectors leaves alone a sector with as many rows as records.
Skips(w) == /\ session[w].kind = "compact"
            /\ Cardinality(DOMAIN session[w].loaded) = session[w].seen.count

\* The rows of marc_record_index the session is to write; a row it has not
\* read yet is read now.
RowsToWrite(w, new) ==
  LET rows == Rows(new)
  IN  [r \in DOMAIN rows |->
         [row |-> rows[r],
          was |-> IF r \in DOMAIN session[w].loaded THEN session[w].loaded[r] ELSE index[r]]]

\* Whether the session has read what is committed.
Current(w) == LET s == Target(w) IN
  /\ session[w].seen = sectors[s]
  /\ session[w].loaded = Restrict(index, {r \in InSector(s) : index[r] # NoRow})

Written(w) ==
  LET new == NewRecords(w) IN
  [session EXCEPT ![w] =
     [session[w] EXCEPT !.dirty = IF Image(new) # session[w].seen
                         THEN Over([s \in {Target(w)} |-> Image(new)], @) ELSE @,
               !.rows = Over(RowsToWrite(w, new), @),
               !.todo = Tail(@),
               !.at = IF Len(session[w].todo) > 1 THEN "begun" ELSE "commit"]]

CanWrite(w) == /\ session[w].at = "ready"
               /\ ~Blocked(w)
               /\ ~Skips(w)
               /\ session[w].seen = NoSector => sectors[Target(w)] = NoSector

\* Mutated Write: the cache is left alone.
WriteNotInvalidating(w) ==
  /\ CanWrite(w)
  /\ session' = Written(w)
  /\ raced' = IF Current(w) THEN raced ELSE raced \cup {Target(w)}
  /\ UNCHANGED <<tables, cache, read, crossed, uncleared>>

\* write_records_to_sector: the UPDATE or INSERT of the sector is sent, the
\* index rows are changed in the session, the cache entries of all the
\* records written are deleted, unless Redis fails: the error is swallowed.
Write(w) ==
  /\ CanWrite(w)
  /\ session' = Written(w)
  /\ LET new == DOMAIN NewRecords(w) IN
     \/ /\ cache' = [r \in Records |-> IF r \in new THEN NoBytes ELSE cache[r]]
        /\ uncleared' = uncleared \ new
     \/ /\ uncleared' = uncleared \cup {r \in new : cache[r] # NoBytes}
        /\ UNCHANGED cache
  /\ raced' = IF Current(w) THEN raced ELSE raced \cup {Target(w)}
  /\ UNCHANGED <<tables, read, crossed>>

\* A compaction that finds nothing to do.
Skip(w) == /\ session[w].at = "ready"
           /\ Skips(w)
           /\ session' = [session EXCEPT ![w] = Committed]
           /\ UNCHANGED <<tables, cache, read, raced, crossed, uncleared>>

\* The INSERT of a sector that another session has inserted meanwhile fails.
Conflict(w) == /\ session[w].at = "ready"
               /\ ~Blocked(w)
               /\ session[w].seen = NoSector /\ sectors[Target(w)] # NoSector
               /\ session' = [session EXCEPT ![w] = RolledBack]
               /\ UNCHANGED <<tables, cache, read, raced, crossed, uncleared>>

\* Of a row that was read, only the columns that change are updated.
Column(new, was, now) == IF new # was THEN new ELSE now
Flushed(r, change) ==
  IF change.was = NoRow THEN change.row
  ELSE [offset |-> Column(change.row.offset, change.was.offset, index[r].offset),
        length |-> Column(change.row.length, change.was.length, index[r].length)]

\* The index rows are flushed and the transaction commits.
Commit(w) ==
  /\ session[w].at = "commit"
  /\ sectors' = Over(session[w].dirty, sectors)
  /\ index' = [r \in Records |->
       IF r \in DOMAIN session[w].rows THEN Flushed(r, session[w].rows[r]) ELSE index[r]]
  /\ stored' = [r \in Records |->
       IF r \in DOMAIN session[w].put /\ SectorOf(r) \in DOMAIN session[w].dirty
       THEN session[w].put[r] ELSE stored[r]]
  /\ crossed' = crossed \cup {read[q].of : q \in {x \in Readers : read[x].at # "idle"}}
  /\ session' = [session EXCEPT ![w] = Committed]
  /\ UNCHANGED <<cache, read, raced, uncleared>>

\* PostgreSQL ends a deadlock by failing one of the sessions in the cycle.
Deadlocked(w) == TransitiveClosure([x, y \in Writers |-> WaitsFor(x, y)], Writers)[w, w]
Victim(w) == /\ Blocked(w)
             /\ Deadlocked(w)
             /\ session' = [session EXCEPT ![w] = RolledBack]
             /\ UNCHANGED <<tables, cache, read, raced, crossed, uncleared>>

\* Mutated Abort: the session is neither rolled back nor closed.
AbortLeftOpen(w) ==
  /\ session[w].at \in {"begun", "half", "ready", "commit"}
  /\ session' = [session EXCEPT ![w].at = "failed"]
  /\ UNCHANGED <<tables, cache, read, raced, crossed, uncleared>>

\* Any other error or the end of the process: rollback.
Abort(w) == /\ session[w].at \in {"begun", "half", "ready", "commit"}
            /\ session' = [session EXCEPT ![w] = RolledBack]
            /\ UNCHANGED <<tables, cache, read, raced, crossed, uncleared>>

-------------------------------------------------------------------------------
(* read_marc and the cache *)

\* The GET finds nothing, or fails, and the index row is selected; a record
\* without a row has no bytes, and that is not cached.
Look(q) == /\ read[q].at = "idle"
           /\ \E r \in Records :
                /\ index[r] # NoRow
                /\ read' = [read EXCEPT ![q] =
                              [NoRead EXCEPT !.at = "looked", !.of = r, !.row = index[r]]]
           /\ UNCHANGED <<tables, cache, session, raced, crossed, uncleared>>

\* The SELECT of the sector, whose data is sliced.
Cut(q) == /\ read[q].at = "looked"
          /\ LET found == Slice(sectors[SectorOf(read[q].of)].data, read[q].row)
             IN  read' = [read EXCEPT ![q] = [read[q] EXCEPT !.bytes = found, !.at = "sliced"]]
          /\ UNCHANGED <<tables, cache, session, raced, crossed, uncleared>>

\* Uncommitted changes to the sector of r.
InDoubt(r) == \E w \in Writers : SectorOf(r) \in DOMAIN session[w].dirty

\* SET with the TTL, which may fail; the bytes are returned.
Fill(q) ==
  /\ read[q].at = "sliced"
  /\ \/ /\ cache' = [cache EXCEPT ![read[q].of] = read[q].bytes]
        /\ crossed' = IF InDoubt(read[q].of) THEN crossed \cup {read[q].of} ELSE crossed
        /\ uncleared' = uncleared \ {read[q].of}
     \/ UNCHANGED <<cache, crossed, uncleared>>
  /\ read' = [read EXCEPT ![q] = NoRead]
  /\ UNCHANGED <<tables, session, raced>>

\* A session reads a record of a sector it has just written (processing
\* compares a record with the authority it has linked and stored before).
ReadOwn(w) ==
  \E r \in DOMAIN session[w].rows :
    /\ SectorOf(r) \in DOMAIN session[w].dirty
    /\ cache' = [cache EXCEPT ![r] =
         Slice(session[w].dirty[SectorOf(r)].data, session[w].rows[r].row)]
    /\ crossed' = crossed \cup {r}
    /\ UNCHANGED <<tables, session, read, raced, uncleared>>

\* The TTL of a cached record is over.
Expire(r) == /\ cache[r] # NoBytes
             /\ cache' = [cache EXCEPT ![r] = NoBytes]
             /\ uncleared' = uncleared \ {r}
             /\ UNCHANGED <<tables, session, read, raced, crossed>>

-------------------------------------------------------------------------------
\* What a session does by itself once it has begun.
Proceed(w) == \/ SelectSector(w) \/ SelectRows(w) \/ Write(w) \/ Skip(w)
              \/ Conflict(w) \/ Commit(w) \/ Victim(w)
Finish(q) == Cut(q) \/ Fill(q)

Next == \/ \E w \in Writers : Begin(w) \/ Proceed(w) \/ Abort(w) \/ ReadOwn(w)
        \/ \E q \in Readers : Look(q) \/ Finish(q)
        \/ \E r \in Records : Expire(r)

Spec == Init /\ [][Next]_vars

\* Sessions that have begun go on.
FairSpec == Spec /\ \A w \in Writers : WF_vars(Proceed(w))

-------------------------------------------------------------------------------
(* Properties *)

BytesMatch ==
  \A r \in Records : SectorOf(r) \notin raced =>
     Slice(sectors[SectorOf(r)].data, index[r]) = Marc(r, stored[r])

CountMatches ==
  \A s \in Sectors \ raced :
     sectors[s].count = Cardinality({r \in InSector(s) : index[r] # NoRow})

\* The tables are well-formed, a record is read as the bytes that were last
\* committed for it, whole and not mixed with its neighbours', and record_count
\* is the number of index rows, so that compact_sectors has something to do
\* only after a lost update: all unless two sessions wrote the sector from rows
\* that the other had changed.  Compactions change no record's bytes.
SectorSound == TypeOK /\ BytesMatch /\ CountMatches

\* A cached record is the committed one, unless a read of it overlapped a
\* write of its sector, its sector lost an update, or the entry is one that a
\* write could not delete and that has since neither expired nor been replaced.
CacheSound ==
  \A r \in Records \ (crossed \cup uncleared) : SectorOf(r) \notin raced =>
     cache[r] \in {NoBytes, Marc(r, stored[r])}

\* Sessions that wait for one another's sectors all come to their end.
SessionsEnd ==
  \A w \in Writers : session[w].at = "begun" ~> session[w].at \in {"done", "failed"}

\* "Writing a record should invalidate its cache entry", "Read again - should
\* get new data" (tests/integration/test_marc_cache.py:40,57): once every
\* write has been committed and no read is in progress, what the cache holds
\* is the committed record.
CacheIsFresh ==
  (/\ \A w \in Writers : session[w].at = "done"
   /\ \A q \in Readers : read[q].at = "idle"
   /\ uncleared = {})
  => \A r \in Records : cache[r] \in {NoBytes, Marc(r, stored[r])}
===============================================================================
