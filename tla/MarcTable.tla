------------------------------ MODULE MarcTable ------------------------------
(***************************************************************************)
(* The table of a MARC record in the carousel, next to the results of one  *)
(* validator or of one comparison: which result is shown at which row.     *)
(***************************************************************************)
EXTENDS Integers, Sequences, SequencesExt

CONSTANTS
  FixedTags, VariableTags,   \* MARC tags below 010 and from 010 on, as parseInt orders them
  MaxFields,                 \* how often a variable field is repeated
  MaxResults                 \* results shown with one record

ASSUME TableAssumption ==
  FixedTags \cap VariableTags = {} /\ MaxFields \in Nat /\ MaxResults \in Nat

VARIABLES
  marc,       \* [fixed : the fixed fields present, fields : tag -> how often]
  results,    \* the results of the annotation, in the order of the server
  annotation, \* "validation", "comparison" or "none"
  targetOnly  \* only the fields that results name are shown

tableVars == <<marc, results, annotation, targetOnly>>

Tags == FixedTags \cup VariableTags
General == -1      \* a result for no field in particular

Fields(m, tag) == IF tag \in DOMAIN m.fields THEN m.fields[tag] ELSE 0
ExistingTags(m) == m.fixed \cup {t \in VariableTags : Fields(m, t) > 0}

\* Validators name a variable field that they have seen, or none
\* (KrameriusLinks).
Seen(m, r) == r.index = General \/ (r.tag \in VariableTags /\ r.index < Fields(m, r.tag))

Records == [fixed : SUBSET FixedTags, fields : [VariableTags -> 0..MaxFields]]
Result == [tag : Tags, index : {General} \cup 0..(MaxFields - 1), id : 1..MaxResults]

TableInit ==
  marc \in Records /\ annotation = "none" /\ results = <<>> /\ targetOnly \in BOOLEAN

\* A view with results is chosen.  A sync or a fetch replaces the bytes and
\* leaves the results until the record is processed again: they are about the
\* record shown, or about what it was before.
SelectResults ==
  /\ annotation = "none" /\ annotation' \in {"validation", "comparison"}
  /\ results' \in {s \in BoundedSeq(Result, MaxResults) :
                     /\ \A i \in 1..Len(s) : s[i].id = i
                     /\ \E before \in Records : \A i \in 1..Len(s) : Seen(before, s[i])}
  /\ UNCHANGED <<marc, targetOnly>>

TableSpec == TableInit /\ [][SelectResults]_tableVars
-----------------------------------------------------------------------------
(* The rows: a tag, the number of the field or "general", what stands there. *)

Anywhere == 0..(MaxFields - 1) \cup {General}

Ids(tag, at) ==
  {results[i].id : i \in {j \in 1..Len(results) : results[j].tag = tag /\ results[j].index \in at}}
First(tag) ==
  LET named == SelectSeq(results, LAMBDA r : r.tag = tag)
  IN IF named = <<>> THEN {} ELSE {named[1].id}

\* Tags that only results name get an empty row.
MissingValidationTags ==
  IF annotation = "validation" THEN {results[i].tag : i \in 1..Len(results)} \ ExistingTags(marc) ELSE {}

MarcRow(tag, at, valid, compared) ==
  [tag |-> tag, at |-> at, ids |-> CASE annotation = "validation" -> valid
                                     [] annotation = "comparison" -> compared
                                     [] OTHER -> {}]

FixedRows == {MarcRow(t, 0, Ids(t, Anywhere), First(t)) : t \in marc.fixed}

FieldRows(t) ==
  {MarcRow(t, i, Ids(t, {i}), First(t)) : i \in 0..(Fields(marc, t) - 1)}

\* Mutated MissingRows: a result for no field in particular has no row.
MissingRowsFirst ==
  {MarcRow(t, 0, Ids(t, {0}), {}) : t \in MissingValidationTags}

MissingRows ==
  {MarcRow(t, 0, Ids(t, {0, General}), {}) : t \in MissingValidationTags}

GeneralRows ==
  {row \in {MarcRow(t, General, Ids(t, {General}), {})
              : t \in {u \in VariableTags : Fields(marc, u) > 0}} : row.ids # {}}

\* The checkbox without results filters nothing.
TargetTags ==
  IF targetOnly /\ results # <<>> THEN {results[i].tag : i \in 1..Len(results)} ELSE Tags

TableRows ==
  {row \in FixedRows \cup (UNION {FieldRows(t) : t \in VariableTags}) \cup MissingRows \cup GeneralRows :
     row.tag \in TargetTags}
-----------------------------------------------------------------------------
\* A repetition of a field that the record no longer has.  The first one keeps
\* a row, at the synthetic field of a missing tag.
FieldGone(r) == r.index >= Fields(marc, r.tag) /\ r.index > 0

\* Every result of a validator stands at exactly one row, and at the field it
\* is about, whether that field is there, repeated or missing; but a result of
\* earlier bytes that names a repetition which is gone is dropped in silence,
\* and no result of the record as shown ever is.
ResultsShownOnce ==
  annotation = "validation" =>
    \A i \in 1..Len(results) :
      IF FieldGone(results[i])
      THEN ~Seen(marc, results[i]) /\ \A row \in TableRows : results[i].id \notin row.ids
      ELSE \E row \in TableRows :
             /\ results[i].id \in row.ids /\ row.tag = results[i].tag
             /\ row.at = results[i].index \/ results[i].index = General
             /\ \A other \in TableRows \ {row} : results[i].id \notin other.ids
===============================================================================
