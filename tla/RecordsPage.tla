----------------------------- MODULE RecordsPage -----------------------------
(***************************************************************************)
(* The records page of the web client: one state in the URL shared by the  *)
(* plots (facets), the table and the carousel, and the views of it.        *)
(*                                                                         *)
(* The server's answers do not change here (LiveUpdates is about that);    *)
(* whether the answer to a query is in react-query's cache when it is      *)
(* asked for is left open, since it may have been dropped.  The effects    *)
(* that React runs after a change (the clamping of the index, the choice   *)
(* of another view) are part of the step that causes them.                 *)
(***************************************************************************)
EXTENDS Integers, Sequences, SequencesExt, FiniteSetsExt

CONSTANTS
  Catalog,     \* the records in the order of the server
  Facets,      \* the facets of the plots in use
  FacetValues, \* facet -> the values its chart may show
  PageSizes,
  DefaultPageSize, \* the one the browser remembers, or 25
  MaxFilters   \* facet values chosen at once

ASSUME FiltersAssumption == MaxFilters \in Nat /\ Len(Catalog) \in Nat
ASSUME PageSizesAssumption == PageSizes \subseteq Nat \ {0} /\ DefaultPageSize \in PageSizes

VARIABLES
  url,    \* the parameters in the address
  ready,  \* the search for them has been answered
  held,   \* what the table still shows of the search before: rows and total
  prev,   \* prevRecordId of the mounted RecordDetail, or "none"
  known   \* comparisons and validations of the record shown have been fetched

recordsVars == <<url, ready, held, prev, known>>

Nothing == [rows |-> 0, total |-> 0]
NoView == [kind |-> "marc", of |-> "none", other |-> "none"]

Defaults ==
  [tab |-> "plots", page |-> 1, pageSize |-> DefaultPageSize, sort |-> "desc", search |-> FALSE,
   active |-> {}, score |-> FALSE, recordId |-> "none", recordIndex |-> 0, view |-> NoView]
-----------------------------------------------------------------------------
(* The filter: chosen values are pairs of a parameter and a value. *)

FACET_TO_URL_PARAM ==
  [base |-> "bases", type_of_record |-> "typeOfRecord", bibliographic_level |-> "bibliographicLevel",
   is_deleted |-> "deleted", is_processed |-> "processed", review_status |-> "reviewStatuses",
   authority_link_linkers |-> "authorityLinkLinkers", authority_link_bases |-> "authorityLinkBases",
   comparison_bases |-> "comparisonBases", match_qualities |-> "matchQualities",
   field_explanations |-> "fieldExplanations", validators |-> "validators",
   validation_statuses |-> "validationStatuses", validation_target_tags |-> "validationTargetTags",
   validation_reasons |-> "validationReasons"]

BoolParams == {"deleted", "processed"}
BOOL_LABEL_TO_VALUE == [Deleted |-> "true", Active |-> "false", Processed |-> "true", Unprocessed |-> "false"]
LabelsOf == [deleted |-> {"Deleted", "Active"}, processed |-> {"Processed", "Unprocessed"}]

\* The charts of the flags show the labels that the server gives them.
ASSUME LabelsAssumption ==
  \A f \in Facets : FACET_TO_URL_PARAM[f] \in BoolParams =>
                       FacetValues[f] \subseteq LabelsOf[FACET_TO_URL_PARAM[f]]

\* What the request says: the lists by name, the two flags, score and record.
FilterKeys ==
  {"bases", "typeOfRecord", "bibliographicLevel", "deleted", "processed", "reviewStatuses",
   "authorityLinkLinkers", "authorityLinkBases", "comparisonBases", "matchQualities",
   "fieldExplanations", "validators", "validationStatuses", "validationTargetTags",
   "validationReasons"}

BuildRecordFilter(u) ==
  [pairs |-> {c \in u.active : c[1] \in FilterKeys}, search |-> u.search,
   score |-> u.score, recordId |-> u.recordId]

SearchPayload(u) == <<BuildRecordFilter(u), u.page, u.pageSize, u.sort>>

\* The server: values of one parameter are alternatives.
Hits(u) ==
  LET f == BuildRecordFilter(u)
      Fits(r) == /\ \A p \in {c[1] : c \in f.pairs} : \E c \in f.pairs : c[1] = p /\ c \in r.facts
                 /\ (f.search \/ f.score) => r.hit
                 /\ f.recordId \in {"none", r.id}
  IN {i \in 1..Len(Catalog) : Fits(Catalog[i])}

Total(u) == Cardinality(Hits(u))

\* The k-th record listed is the one with k of them up to it.
InOrder(hits, sort) ==
  LET UpTo(i) == hits \cap IF sort = "desc" THEN 1..i ELSE i..Len(Catalog)
  IN [k \in 1..Cardinality(hits) |-> Catalog[CHOOSE i \in hits : Cardinality(UpTo(i)) = k]]

PageOf(list, n, size) == SubSeq(list, (n - 1) * size + 1, Min({n * size, Len(list)}))

Found(u) == InOrder(Hits(u), u.sort)
Rows(u) == PageOf(Found(u), u.page, u.pageSize)
-----------------------------------------------------------------------------
(* The carousel's record and its views. *)

CarouselRecords(u, rdy) == IF rdy /\ u.tab = "carousel" THEN Rows(u) ELSE <<>>
CarouselIndex(u, rows) == Min({u.recordIndex, Max({0, Len(rows) - 1})})
Shown(u, rdy) ==
  LET rows == CarouselRecords(u, rdy)
  IN IF rows = <<>> THEN {} ELSE {rows[CarouselIndex(u, rows) + 1]}

\* The index is brought into the page once the page is there.
Clamp(u, rdy) ==
  LET rows == CarouselRecords(u, rdy)
  IN IF rows # <<>> /\ u.recordIndex >= Len(rows) THEN [u EXCEPT !.recordIndex = Len(rows) - 1] ELSE u

IsViewAvailable(v, r) == v = NoView \/ v \in r.views

\* The view kept, or one of the same base or comparator, or the record itself.
MatchingView(v, r) ==
  IF IsViewAvailable(v, r) THEN v
  ELSE LET like == {w \in r.views : w.kind = v.kind /\ w.of = v.of /\ v.kind # "validation"}
       IN IF like = {} THEN NoView ELSE CHOOSE w \in like : TRUE

\* A rendering of u: a newly mounted RecordDetail takes its record as it is;
\* one that stays waits for the details, then chooses the view.
RecordDetail(u, rdy, knw) ==
  IF Shown(u, rdy) = {}
  THEN url' = u /\ prev' = "none"
  ELSE LET r == CHOOSE x \in Shown(u, rdy) : TRUE
           changed == prev \notin {"none", r.id}
       IN /\ url' = IF changed /\ knw THEN [u EXCEPT !.view = MatchingView(@, r)] ELSE u
          /\ prev' = IF changed /\ ~knw THEN prev ELSE r.id

UseRecordsSearch(u, rdy) ==
  /\ ready' = rdy
  /\ held' = CASE u.tab # "table" -> Nothing
               [] rdy -> [rows |-> Len(Rows(u)), total |-> Total(u)]
               [] url.tab = "table" -> held
               [] OTHER -> Nothing

Render(u, rdy, knw) ==
  LET c == Clamp(u, rdy) IN
  /\ knw => Shown(c, rdy) # {}
  /\ Shown(c, rdy) = Shown(url, ready) => knw = known
  /\ known' = knw
  /\ UseRecordsSearch(c, rdy)
  /\ RecordDetail(c, rdy, knw)

\* New parameters; what they need is cached or not, unless it is what was there.
SetFilters(u) ==
  \E rdy, knw \in BOOLEAN :
    /\ SearchPayload(u) = SearchPayload(url) => rdy = ready
    /\ Render(u, rdy, knw)

SearchAnswered == ~ready /\ \E knw \in BOOLEAN : Render(url, TRUE, knw)

DetailsAnswered ==
  /\ ~known /\ Shown(url, ready) # {}
  /\ known' = TRUE /\ RecordDetail(url, ready, TRUE) /\ UNCHANGED <<ready, held>>
-----------------------------------------------------------------------------
(* Plots. *)

\* Mutated Toggled: the label of a flag is taken for its value.
ToggledAsList(u, facet, value) ==
  [u EXCEPT !.active = SymDiff(@, {<<FACET_TO_URL_PARAM[facet], value>>}), !.page = 1]

\* A click on a chart, a pill or a badge of the filter bar.
ToggledArray(u, c) == [u EXCEPT !.active = SymDiff(@, {c}), !.page = 1]
Toggled(u, facet, value) ==
  LET param == FACET_TO_URL_PARAM[facet] IN
  IF param \in BoolParams
  THEN LET target == <<param, BOOL_LABEL_TO_VALUE[value]>> IN
       [u EXCEPT !.active = {c \in @ : c[1] # param} \cup (IF target \in @ THEN {} ELSE {target}),
                 !.page = 1]
  ELSE ToggledArray(u, <<param, value>>)

GetActiveValues(u, facet) ==
  LET param == FACET_TO_URL_PARAM[facet] IN
  IF param \in BoolParams
  THEN {l \in LabelsOf[param] : <<param, BOOL_LABEL_TO_VALUE[l]>> \in u.active}
  ELSE {c[2] : c \in {d \in u.active : d[1] = param}}

ScoreRange(u, on) == [u EXCEPT !.score = on, !.page = 1]
WithoutRecord(u) == [u EXCEPT !.recordId = "none", !.recordIndex = 0]
ClearFilters(u) ==
  [u EXCEPT !.active = {}, !.score = FALSE, !.search = FALSE, !.page = 1, !.recordId = "none",
            !.recordIndex = 0, !.view = NoView]

\* A badge of the bar and the parameters after a click on its cross.
ActiveFiltersBar(u) ==
  (UNION {{[of |-> <<FACET_TO_URL_PARAM[f], IF FACET_TO_URL_PARAM[f] \in BoolParams
                                            THEN BOOL_LABEL_TO_VALUE[v] ELSE v>>,
            left |-> Toggled(u, f, v)] : v \in GetActiveValues(u, f)} : f \in DOMAIN FACET_TO_URL_PARAM})
  \cup (IF u.score THEN {[of |-> <<"score">>, left |-> ScoreRange(u, FALSE)]} ELSE {})
  \cup (IF u.recordId # "none" THEN {[of |-> <<"recordId">>, left |-> WithoutRecord(u)]} ELSE {})

\* What the sections of charts offer.  No chart is about target tags: they
\* come in a link.
Clicks(u, fs) == UNION {{Toggled(u, f, v) : v \in FacetValues[f]} : f \in fs \cap Facets}

ContextSection(u) ==
  Clicks(u, {"base", "authority_link_bases", "authority_link_linkers", "comparison_bases", "validators"})
  \cup (IF u.recordId # "none" THEN {WithoutRecord(u)} ELSE {})
RecordsSection(u) ==
  Clicks(u, {"is_deleted", "is_processed", "review_status", "type_of_record", "bibliographic_level"})
ComparisonSection(u) ==
  Clicks(u, {"match_qualities", "field_explanations"}) \cup {ScoreRange(u, on) : on \in BOOLEAN}
ValidationSection(u) == Clicks(u, {"validation_statuses", "validation_reasons"})

PlotsView ==
  /\ url.tab = "plots"
  /\ \/ \E u \in UNION {ContextSection(url), RecordsSection(url), ComparisonSection(url),
                        ValidationSection(url), {b.left : b \in ActiveFiltersBar(url)}} :
          Cardinality(u.active) <= MaxFilters /\ SetFilters(u)
     \/ ActiveFiltersBar(url) # {} /\ SetFilters(ClearFilters(url))
-----------------------------------------------------------------------------
(* Table. *)

TotalPages == (held.total + url.pageSize - 1) \div url.pageSize

RowClick ==
  \E i \in 0..(held.rows - 1) :
    LET to == [url EXCEPT !.tab = "carousel", !.recordIndex = i] IN
    \/ SetFilters(to)
    \/ \E r \in IF ready THEN {Rows(url)[i + 1]} ELSE ToSet(Catalog) :
         \E v \in r.views : SetFilters([to EXCEPT !.view = v])

TableView ==
  /\ url.tab = "table"
  /\ \/ url.page > 1 /\ SetFilters([url EXCEPT !.page = @ - 1])
     \/ url.page < TotalPages /\ SetFilters([url EXCEPT !.page = @ + 1])
     \/ SetFilters([url EXCEPT !.search = ~@, !.page = 1])
     \/ SetFilters([url EXCEPT !.sort = IF @ = "asc" THEN "desc" ELSE "asc", !.page = 1])
     \/ \E n \in PageSizes \ {url.pageSize} : SetFilters([url EXCEPT !.pageSize = n, !.page = 1])
     \/ url.recordId # "none" /\ SetFilters(WithoutRecord(url))
     \/ RowClick
-----------------------------------------------------------------------------
(* Carousel: while a page loads its keys act as if it had no records. *)

\* Mutated GoToPrev: to the start of the page before, not to its end.
GoToPrevStart ==
  LET i == CarouselIndex(url, CarouselRecords(url, ready)) IN
  \/ i > 0 /\ SetFilters([url EXCEPT !.recordIndex = i - 1])
  \/ i = 0 /\ url.page > 1 /\ SetFilters([url EXCEPT !.page = @ - 1, !.recordIndex = 0])

GoToPrev ==
  LET i == CarouselIndex(url, CarouselRecords(url, ready)) IN
  \/ i > 0 /\ SetFilters([url EXCEPT !.recordIndex = i - 1])
  \/ i = 0 /\ url.page > 1
     /\ SetFilters([url EXCEPT !.page = @ - 1, !.recordIndex = url.pageSize - 1])

GoToNext ==
  LET rows == CarouselRecords(url, ready)
      i == CarouselIndex(url, rows)
  IN \/ i < Len(rows) - 1 /\ SetFilters([url EXCEPT !.recordIndex = i + 1])
     \/ /\ i >= Len(rows) - 1 /\ ready /\ url.page * url.pageSize < Total(url)
        /\ SetFilters([url EXCEPT !.page = @ + 1, !.recordIndex = 0])

\* The list of views, once they are known, or the badges of the header.
SelectView ==
  \E r \in Shown(url, ready) : \E v \in r.views \cup {NoView} : SetFilters([url EXCEPT !.view = v])

CarouselView == url.tab = "carousel" /\ (GoToPrev \/ GoToNext \/ SelectView)
-----------------------------------------------------------------------------
\* The page opened plainly, by the link of a record or of a tag.
RecordsInit ==
  /\ url \in {Defaults} \cup
             {[Defaults EXCEPT !.active = {<<"validationTargetTags", v>>}] : v \in FacetValues["validation_target_tags"]} \cup
             {[Defaults EXCEPT !.tab = "carousel", !.recordId = Catalog[i].id] : i \in 1..Len(Catalog)}
  /\ ready = FALSE /\ held = Nothing /\ prev = "none" /\ known = FALSE

SetTab == \E t \in {"plots", "table", "carousel"} \ {url.tab} : SetFilters([url EXCEPT !.tab = t])

RecordsNext == PlotsView \/ TableView \/ CarouselView \/ SetTab \/ SearchAnswered \/ DetailsAnswered

RecordsSpec == RecordsInit /\ [][RecordsNext]_recordsVars
-----------------------------------------------------------------------------
\* Where in the whole result the carousel stands.
Position(u) == (u.page - 1) * u.pageSize + u.recordIndex

\* From a record that is shown, the carousel goes only to a neighbour in the
\* whole result, over the ends of pages too, and never past its ends.
MovesByOne ==
  [][(Shown(url, ready) # {} /\ url'.tab = "carousel") =>
       /\ Position(url') - Position(url) \in {-1, 0, 1}
       /\ Position(url') \in 0..(Total(url) - 1)]_recordsVars

\* Every restriction sent to the server, other than the text searched for,
\* has a badge in the bar, and its cross removes that restriction alone.
FilterShown ==
  url.tab = "plots" =>
    LET f == BuildRecordFilter(url)
        sent == f.pairs \cup (IF f.score THEN {<<"score">>} ELSE {})
                        \cup (IF f.recordId # "none" THEN {<<"recordId">>} ELSE {})
        bar == ActiveFiltersBar(url)
    IN /\ {b.of : b \in bar} = sent
       /\ \A b \in bar : LET g == BuildRecordFilter(b.left) IN
            /\ g.pairs = f.pairs \ {b.of} /\ g.search = f.search
            /\ g.score = (f.score /\ b.of # <<"score">>)
            /\ g.recordId = IF b.of = <<"recordId">> THEN "none" ELSE f.recordId
===============================================================================
