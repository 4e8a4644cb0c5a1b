--------------------------- MODULE ClientPagesProofs ---------------------------
(***************************************************************************)
(* Proofs about pages of the web client, for any settings, records,        *)
(* results, filters and numbers of requests: every filter in force has a   *)
(* badge that removes it, the keys of the carousel reach the neighbours of *)
(* a record, what the dialogs post was offered, every result of a          *)
(* validator stands at one row, roles keep what their permissions need,    *)
(* and an edit is not lost unasked.                                        *)
(***************************************************************************)
EXTENDS RecordsPage, RecordTasks, MarcTable, AccessControl, SettingsForm, FiniteSetTheorems,
        SequenceTheorems, TLAPS
-------------------------------------------------------------------------------
(* The filter of the records page: RecordsPage. *)

Parameters ==
  {"tab", "page", "pageSize", "sort", "search", "active", "score", "recordId", "recordIndex", "view"}

\* The chosen values are of parameters that are sent, and a flag has one value.
IsFilter(active) ==
  /\ \A c \in active : /\ c = <<c[1], c[2]>> /\ c[1] \in FilterKeys
                       /\ c[1] \in BoolParams => c[2] \in {"true", "false"}
  /\ \A c, d \in active : c[1] \in BoolParams /\ d[1] = c[1] => c = d

IsUrl(u) == u = [k \in Parameters |-> u[k]] /\ u.score \in BOOLEAN /\ IsFilter(u.active)

\* The inductive invariant.
UrlInv == IsUrl(url)

\* Facets and parameters name the same filters.
LEMMA FacetsAreParameters ==
  /\ \A f \in DOMAIN FACET_TO_URL_PARAM : FACET_TO_URL_PARAM[f] \in FilterKeys
  /\ \A p \in FilterKeys : \E f \in DOMAIN FACET_TO_URL_PARAM : FACET_TO_URL_PARAM[f] = p
  <1>1. \A f \in DOMAIN FACET_TO_URL_PARAM : FACET_TO_URL_PARAM[f] \in FilterKeys
    BY DEF FACET_TO_URL_PARAM, FilterKeys
  <1>2. \A p \in FilterKeys : \E f \in DOMAIN FACET_TO_URL_PARAM : FACET_TO_URL_PARAM[f] = p
    BY DEF FACET_TO_URL_PARAM, FilterKeys
  <1> QED BY <1>1, <1>2

\* The labels of a flag are those of its two values.
LEMMA LabelsAreValues ==
  ASSUME NEW p \in BoolParams
  PROVE  /\ p \in FilterKeys
         /\ \A l \in LabelsOf[p] : BOOL_LABEL_TO_VALUE[l] \in {"true", "false"}
         /\ \A v \in {"true", "false"} : \E l \in LabelsOf[p] : BOOL_LABEL_TO_VALUE[l] = v
  BY DEF BoolParams, LabelsOf, BOOL_LABEL_TO_VALUE, FilterKeys

\* Parameters other than the filter change freely.
LEMMA FilterUntouched ==
  ASSUME NEW u, IsUrl(u), NEW x, NEW k \in Parameters \ {"active", "score"}
  PROVE  /\ IsUrl([u EXCEPT ![k] = x])
         /\ [u EXCEPT ![k] = x].active = u.active /\ [u EXCEPT ![k] = x].score = u.score
  <1> DEFINE v == [u EXCEPT ![k] = x]
  <1>1. u = [j \in Parameters |-> u[j]]
    BY DEF IsUrl
  <1>2. v = [j \in Parameters |-> IF j = k THEN x ELSE u[j]]
    BY <1>1
  <1>3. "active" \in Parameters /\ "score" \in Parameters
    BY DEF Parameters
  <1>4. v.active = u.active /\ v.score = u.score /\ v = [j \in Parameters |-> v[j]]
    BY <1>2, <1>3
  <1> HIDE DEF v
  <1>5. IsUrl(v)
    BY <1>4 DEF IsUrl
  <1> QED BY <1>4, <1>5 DEF v

\* A click on a value of a facet: its badge goes or comes, the other values of
\* a flag go.
LEMMA ToggledIs ==
  ASSUME NEW u, IsUrl(u), NEW f \in DOMAIN FACET_TO_URL_PARAM, NEW v,
         FACET_TO_URL_PARAM[f] \in BoolParams => v \in LabelsOf[FACET_TO_URL_PARAM[f]]
  PROVE  LET p == FACET_TO_URL_PARAM[f]
             w == IF p \in BoolParams THEN BOOL_LABEL_TO_VALUE[v] ELSE v
             t == Toggled(u, f, v)
         IN /\ IsUrl(t) /\ t.search = u.search /\ t.score = u.score /\ t.recordId = u.recordId
            /\ <<p, w>> \in u.active => t.active = u.active \ {<<p, w>>}
  <1> DEFINE p == FACET_TO_URL_PARAM[f]
             w == IF p \in BoolParams THEN BOOL_LABEL_TO_VALUE[v] ELSE v
             t == Toggled(u, f, v)
             flag == {c \in u.active : c[1] # p} \cup (IF <<p, w>> \in u.active THEN {} ELSE {<<p, w>>})
             list == SymDiff(u.active, {<<p, w>>})
             active == IF p \in BoolParams THEN flag ELSE list
  <1>1. p \in FilterKeys
    BY FacetsAreParameters
  <1>2. p \in BoolParams => w \in {"true", "false"}
    BY LabelsAreValues
  <1>3. t = [u EXCEPT !.active = active, !.page = 1]
    BY DEF Toggled, ToggledArray
  <1>4. list = (u.active \cup {<<p, w>>}) \ (IF <<p, w>> \in u.active THEN {<<p, w>>} ELSE {})
    BY DEF SymDiff
  <1> HIDE DEF p, w, list
  <1>5. IsFilter(active)
    <2>1. CASE p \in BoolParams
      BY <1>1, <1>2, <2>1 DEF IsUrl, IsFilter
    <2>2. CASE p \notin BoolParams
      BY <1>1, <1>4, <2>2 DEF IsUrl, IsFilter
    <2> QED BY <2>1, <2>2
  <1>6. <<p, w>> \in u.active => active = u.active \ {<<p, w>>}
    <2>1. CASE p \in BoolParams
      BY <2>1 DEF IsUrl, IsFilter
    <2>2. CASE p \notin BoolParams
      BY <1>4, <2>2
    <2> QED BY <2>1, <2>2
  <1> HIDE DEF active, t
  <1>7. u = [k \in Parameters |-> u[k]]
    BY DEF IsUrl
  <1>8. t = [k \in Parameters |-> IF k = "active" THEN active ELSE IF k = "page" THEN 1 ELSE u[k]]
    BY <1>3, <1>7 DEF Parameters
  <1>9. /\ t.active = active /\ t.search = u.search /\ t.score = u.score /\ t.recordId = u.recordId
        /\ t = [k \in Parameters |-> t[k]]
    BY <1>8 DEF Parameters
  <1>10. IsUrl(t)
    BY <1>5, <1>9 DEF IsUrl
  <1> QED BY <1>6, <1>9, <1>10 DEF p, w, t

\* The score range, the record and the button that clears all.
LEMMA OthersAre ==
  ASSUME NEW u, IsUrl(u)
  PROVE  /\ \A on \in BOOLEAN : LET t == ScoreRange(u, on) IN
              IsUrl(t) /\ t.active = u.active /\ t.search = u.search /\ t.score = on /\ t.recordId = u.recordId
         /\ LET t == WithoutRecord(u) IN
              IsUrl(t) /\ t.active = u.active /\ t.search = u.search /\ t.score = u.score /\ t.recordId = "none"
         /\ IsUrl(ClearFilters(u))
  <1>1. u = [k \in Parameters |-> u[k]]
    BY DEF IsUrl
  <1>2. ASSUME NEW on \in BOOLEAN
        PROVE  LET t == ScoreRange(u, on) IN
               IsUrl(t) /\ t.active = u.active /\ t.search = u.search /\ t.score = on /\ t.recordId = u.recordId
    <2> DEFINE t == ScoreRange(u, on)
    <2>1. t = [k \in Parameters |-> IF k = "score" THEN on ELSE IF k = "page" THEN 1 ELSE u[k]]
      BY <1>1 DEF ScoreRange, Parameters
    <2> HIDE DEF t
    <2>2. /\ t = [k \in Parameters |-> t[k]] /\ t.active = u.active /\ t.search = u.search
          /\ t.score = on /\ t.recordId = u.recordId
      BY <2>1 DEF Parameters
    <2>3. IsUrl(t)
      BY <2>2 DEF IsUrl
    <2> QED BY <2>2, <2>3 DEF t
  <1>3. LET t == WithoutRecord(u) IN
        IsUrl(t) /\ t.active = u.active /\ t.search = u.search /\ t.score = u.score /\ t.recordId = "none"
    <2> DEFINE t == WithoutRecord(u)
    <2>1. t = [k \in Parameters |-> IF k = "recordId" THEN "none" ELSE IF k = "recordIndex" THEN 0 ELSE u[k]]
      BY <1>1 DEF WithoutRecord, Parameters
    <2> HIDE DEF t
    <2>2. /\ t = [k \in Parameters |-> t[k]] /\ t.active = u.active /\ t.search = u.search
          /\ t.score = u.score /\ t.recordId = "none"
      BY <2>1 DEF Parameters
    <2>3. IsUrl(t)
      BY <2>2 DEF IsUrl
    <2> QED BY <2>2, <2>3 DEF t
  <1>4. IsUrl(ClearFilters(u))
    <2> DEFINE t == ClearFilters(u)
    <2>1. t.active = {} /\ t.score = FALSE /\ DOMAIN t = Parameters /\ t = [k \in Parameters |-> t[k]]
      BY <1>1 DEF ClearFilters, Parameters
    <2> HIDE DEF t
    <2>2. IsUrl(t)
      BY <2>1 DEF IsUrl, IsFilter
    <2> QED BY <2>2 DEF t
  <1> QED BY <1>2, <1>3, <1>4

\* The values that a facet has active are those in the filter.
LEMMA ActiveValuesAre ==
  ASSUME NEW u, IsUrl(u), NEW f \in DOMAIN FACET_TO_URL_PARAM, NEW v \in GetActiveValues(u, f)
  PROVE  LET p == FACET_TO_URL_PARAM[f]
             w == IF p \in BoolParams THEN BOOL_LABEL_TO_VALUE[v] ELSE v
         IN (p \in BoolParams => v \in LabelsOf[p]) /\ <<p, w>> \in u.active
  <1> DEFINE p == FACET_TO_URL_PARAM[f]
  <1>1. CASE p \in BoolParams
    BY <1>1 DEF GetActiveValues
  <1>2. CASE p \notin BoolParams
    <2>1. PICK c \in u.active : c[1] = p /\ c[2] = v
      BY <1>2 DEF GetActiveValues
    <2>2. c = <<p, v>>
      BY <2>1 DEF IsUrl, IsFilter
    <2> QED BY <1>2, <2>2
  <1> QED BY <1>1, <1>2

\* A badge is of a chosen value, of the score range or of the record.
LEMMA BadgesAre ==
  ASSUME NEW u, IsUrl(u), NEW b \in ActiveFiltersBar(u)
  PROVE  \/ /\ b.of \in u.active /\ IsUrl(b.left) /\ b.left.active = u.active \ {b.of}
            /\ b.left.search = u.search /\ b.left.score = u.score /\ b.left.recordId = u.recordId
         \/ u.score /\ b = [of |-> <<"score">>, left |-> ScoreRange(u, FALSE)]
         \/ u.recordId # "none" /\ b = [of |-> <<"recordId">>, left |-> WithoutRecord(u)]
  <1> DEFINE Badge(f, v) ==
               [of |-> <<FACET_TO_URL_PARAM[f], IF FACET_TO_URL_PARAM[f] \in BoolParams
                                                THEN BOOL_LABEL_TO_VALUE[v] ELSE v>>,
                left |-> Toggled(u, f, v)]
  <1>1. \/ \E f \in DOMAIN FACET_TO_URL_PARAM : \E v \in GetActiveValues(u, f) : b = Badge(f, v)
        \/ u.score /\ b = [of |-> <<"score">>, left |-> ScoreRange(u, FALSE)]
        \/ u.recordId # "none" /\ b = [of |-> <<"recordId">>, left |-> WithoutRecord(u)]
    BY DEF ActiveFiltersBar
  <1>2. ASSUME NEW f \in DOMAIN FACET_TO_URL_PARAM, NEW v \in GetActiveValues(u, f), b = Badge(f, v)
        PROVE  /\ b.of \in u.active /\ IsUrl(b.left) /\ b.left.active = u.active \ {b.of}
               /\ b.left.search = u.search /\ b.left.score = u.score /\ b.left.recordId = u.recordId
    BY <1>2, ActiveValuesAre, ToggledIs
  <1> QED BY <1>1, <1>2

\* Whatever is chosen has a badge.
LEMMA EachHasBadge ==
  ASSUME NEW u, IsUrl(u), NEW c \in u.active
  PROVE  \E b \in ActiveFiltersBar(u) : b.of = c
  <1>1. c = <<c[1], c[2]>> /\ c[1] \in FilterKeys /\ (c[1] \in BoolParams => c[2] \in {"true", "false"})
    BY DEF IsUrl, IsFilter
  <1>2. PICK f \in DOMAIN FACET_TO_URL_PARAM : FACET_TO_URL_PARAM[f] = c[1]
    BY <1>1, FacetsAreParameters
  <1>3. PICK v : /\ v \in GetActiveValues(u, f)
                 /\ c[2] = IF c[1] \in BoolParams THEN BOOL_LABEL_TO_VALUE[v] ELSE v
    <2>1. CASE c[1] \in BoolParams
      <3>1. PICK l \in LabelsOf[c[1]] : BOOL_LABEL_TO_VALUE[l] = c[2]
        BY <1>1, <2>1, LabelsAreValues
      <3> QED BY <1>1, <1>2, <2>1, <3>1 DEF GetActiveValues
    <2>2. CASE c[1] \notin BoolParams
      BY <1>2, <2>2 DEF GetActiveValues
    <2> QED BY <2>1, <2>2
  <1> DEFINE b == [of |-> <<FACET_TO_URL_PARAM[f], IF FACET_TO_URL_PARAM[f] \in BoolParams
                                                   THEN BOOL_LABEL_TO_VALUE[v] ELSE v>>,
                   left |-> Toggled(u, f, v)]
  <1>4. b \in ActiveFiltersBar(u)
    BY <1>3 DEF ActiveFiltersBar
  <1>5. b.of = c
    BY <1>1, <1>2, <1>3
  <1> HIDE DEF b
  <1> QED BY <1>4, <1>5

\* A filter that is one shows all it sends.
LEMMA BarShowsFilter == UrlInv => FilterShown
  <1> SUFFICES ASSUME IsUrl(url) PROVE FilterShown
    BY DEF UrlInv
  <1> DEFINE f == BuildRecordFilter(url)
             sent == f.pairs \cup (IF f.score THEN {<<"score">>} ELSE {})
                             \cup (IF f.recordId # "none" THEN {<<"recordId">>} ELSE {})
             bar == ActiveFiltersBar(url)
  <1>1. ASSUME NEW u, IsUrl(u)
        PROVE  /\ BuildRecordFilter(u).pairs = u.active /\ BuildRecordFilter(u).search = u.search
               /\ BuildRecordFilter(u).score = u.score /\ BuildRecordFilter(u).recordId = u.recordId
    BY <1>1 DEF IsUrl, IsFilter, BuildRecordFilter
  <1>2. \A c \in url.active : c # <<"score">> /\ c # <<"recordId">>
    <2>1. \A x, y, z : Len(<<x, y>>) = 2 /\ Len(<<z>>) = 1
      OBVIOUS
    <2>2. \A c \in url.active : Len(c) = 2
      BY <2>1 DEF IsUrl, IsFilter
    <2> QED BY <2>1, <2>2
  <1>3. ASSUME NEW b \in bar PROVE b.of \in sent
    <2>1. /\ f.pairs = url.active /\ f.score = url.score /\ f.recordId = url.recordId
      BY <1>1
    <2>2. \/ b.of \in url.active
          \/ url.score /\ b.of = <<"score">>
          \/ url.recordId # "none" /\ b.of = <<"recordId">>
      <3>1. CASE b.of \in url.active
        BY <3>1
      <3>2. CASE url.score /\ b = [of |-> <<"score">>, left |-> ScoreRange(url, FALSE)]
        BY <3>2
      <3>3. CASE url.recordId # "none" /\ b = [of |-> <<"recordId">>, left |-> WithoutRecord(url)]
        BY <3>3
      <3> QED BY <1>3, <3>1, <3>2, <3>3, BadgesAre
    <2> HIDE DEF f
    <2> QED BY <2>1, <2>2
  <1>4. ASSUME NEW c \in sent PROVE \E b \in bar : b.of = c
    <2>1. CASE c \in f.pairs
      BY <1>1, <2>1, EachHasBadge
    <2>2. CASE c = <<"score">> /\ url.score
      <3>1. [of |-> <<"score">>, left |-> ScoreRange(url, FALSE)] \in bar
        BY <2>2 DEF ActiveFiltersBar
      <3> QED BY <2>2, <3>1
    <2>3. CASE c = <<"recordId">> /\ url.recordId # "none"
      <3>1. [of |-> <<"recordId">>, left |-> WithoutRecord(url)] \in bar
        BY <2>3 DEF ActiveFiltersBar
      <3> QED BY <2>3, <3>1
    <2> QED BY <1>1, <2>1, <2>2, <2>3
  <1>5. ASSUME NEW b \in bar
        PROVE  LET g == BuildRecordFilter(b.left) IN
               /\ g.pairs = f.pairs \ {b.of} /\ g.search = f.search
               /\ g.score = (f.score /\ b.of # <<"score">>)
               /\ g.recordId = IF b.of = <<"recordId">> THEN "none" ELSE f.recordId
    <2>1. url.score \in BOOLEAN
      BY DEF IsUrl
    <2> DEFINE g == BuildRecordFilter(b.left)
    <2>2. CASE /\ b.of \in url.active /\ IsUrl(b.left) /\ b.left.active = url.active \ {b.of}
               /\ b.left.search = url.search /\ b.left.score = url.score /\ b.left.recordId = url.recordId
      <3>1. g.pairs = f.pairs \ {b.of} /\ g.search = f.search /\ g.score = f.score /\ g.recordId = f.recordId
        BY <1>1, <2>2
      <3>2. b.of # <<"score">> /\ b.of # <<"recordId">> /\ f.score \in BOOLEAN
        BY <1>1, <1>2, <2>1, <2>2
      <3> HIDE DEF f, g
      <3>3. /\ g.pairs = f.pairs \ {b.of} /\ g.search = f.search
            /\ g.score = (f.score /\ b.of # <<"score">>)
            /\ g.recordId = IF b.of = <<"recordId">> THEN "none" ELSE f.recordId
        BY <3>1, <3>2
      <3> QED BY <3>3 DEF g
    <2>3. CASE url.score /\ b = [of |-> <<"score">>, left |-> ScoreRange(url, FALSE)]
      <3>1. b.of = <<"score">> /\ b.left = ScoreRange(url, FALSE) /\ <<"score">> # <<"recordId">>
        BY <2>3
      <3>2. /\ IsUrl(b.left) /\ b.left.active = url.active /\ b.left.search = url.search
            /\ b.left.score = FALSE /\ b.left.recordId = url.recordId
        <4>1. LET t == ScoreRange(url, FALSE) IN
                IsUrl(t) /\ t.active = url.active /\ t.search = url.search /\ t.score = FALSE
                /\ t.recordId = url.recordId
          BY OthersAre
        <4> QED BY <3>1, <4>1
      <3>3. g.pairs = f.pairs /\ g.search = f.search /\ g.score = FALSE /\ g.recordId = f.recordId
        BY <1>1, <3>2
      <3>4. b.of \notin f.pairs
        BY <1>1, <1>2, <3>1
      <3> HIDE DEF f, g
      <3>5. /\ g.pairs = f.pairs \ {b.of} /\ g.search = f.search
            /\ g.score = (f.score /\ b.of # <<"score">>)
            /\ g.recordId = IF b.of = <<"recordId">> THEN "none" ELSE f.recordId
        BY <3>1, <3>3, <3>4
      <3> QED BY <3>5 DEF g
    <2>4. CASE url.recordId # "none" /\ b = [of |-> <<"recordId">>, left |-> WithoutRecord(url)]
      <3>1. b.of = <<"recordId">> /\ b.left = WithoutRecord(url) /\ <<"score">> # <<"recordId">>
        BY <2>4
      <3>2. /\ IsUrl(b.left) /\ b.left.active = url.active /\ b.left.search = url.search
            /\ b.left.score = url.score /\ b.left.recordId = "none"
        BY <3>1, OthersAre
      <3>3. /\ g.pairs = f.pairs /\ g.search = f.search /\ g.score = f.score /\ g.recordId = "none"
            /\ f.score \in BOOLEAN
        BY <1>1, <2>1, <3>2
      <3>4. b.of \notin f.pairs
        BY <1>1, <1>2, <3>1
      <3> HIDE DEF f, g
      <3>5. /\ g.pairs = f.pairs \ {b.of} /\ g.search = f.search
            /\ g.score = (f.score /\ b.of # <<"score">>)
            /\ g.recordId = IF b.of = <<"recordId">> THEN "none" ELSE f.recordId
        BY <3>1, <3>3, <3>4
      <3> QED BY <3>5 DEF g
    <2> QED BY <2>2, <2>3, <2>4, BadgesAre
  <1> HIDE DEF f, sent, bar
  <1>6. {b.of : b \in bar} = sent
    BY <1>3, <1>4
  <1> QED BY <1>5, <1>6 DEF FilterShown, f, sent, bar

-------------------------------------------------------------------------------
\* What follows a change in the rendering leaves the filter alone: the view
\* that is kept or chosen.
LEMMA RenderKeepsFilter ==
  ASSUME NEW u, IsUrl(u), NEW rdy, NEW knw, RecordDetail(u, rdy, knw)
  PROVE  IsUrl(url')
  <1>1. CASE url' = u
    BY <1>1
  <1>2. ASSUME NEW v, url' = [u EXCEPT !.view = v] PROVE IsUrl(url')
    BY <1>2, FilterUntouched DEF Parameters
  <1>3. url' = u \/ \E v : url' = [u EXCEPT !.view = v]
    BY DEF RecordDetail
  <1> QED BY <1>1, <1>2, <1>3

\* So does the index that is clamped to the page.
LEMMA ClampKeepsFilter ==
  ASSUME NEW u, IsUrl(u), NEW rdy
  PROVE  IsUrl(Clamp(u, rdy))
  <1>1. Clamp(u, rdy) = u \/ \E i : Clamp(u, rdy) = [u EXCEPT !.recordIndex = i]
    BY DEF Clamp
  <1>2. ASSUME NEW i PROVE IsUrl([u EXCEPT !.recordIndex = i])
    BY FilterUntouched DEF Parameters
  <1> QED BY <1>1, <1>2

\* New parameters whose filter can be shown keep it so when they are rendered.
LEMMA SetKeepsFilter == ASSUME NEW u, IsUrl(u), SetFilters(u) PROVE UrlInv'
  <1>1. PICK rdy, knw \in BOOLEAN : Render(u, rdy, knw)
    BY DEF SetFilters
  <1>2. RecordDetail(Clamp(u, rdy), rdy, knw)
    BY <1>1 DEF Render
  <1>3. PICK c : c = Clamp(u, rdy)
    OBVIOUS
  <1>4. IsUrl(c)
    BY <1>3, ClampKeepsFilter
  <1> QED BY <1>2, <1>3, <1>4, RenderKeepsFilter DEF UrlInv, IsUrl

\* The parameters after a click that is not about the filter.
Moved(u) ==
  \/ u = WithoutRecord(url)
  \/ \E x : \/ u = [url EXCEPT !.tab = x] \/ u = [url EXCEPT !.page = x]
            \/ u = [url EXCEPT !.recordIndex = x] \/ u = [url EXCEPT !.view = x]
  \/ \E x : \/ u = [url EXCEPT !.sort = x, !.page = 1] \/ u = [url EXCEPT !.search = x, !.page = 1]
            \/ u = [url EXCEPT !.pageSize = x, !.page = 1]
  \/ \E x, y : u = [url EXCEPT !.page = x, !.recordIndex = y] \/ u = [url EXCEPT !.tab = x, !.recordIndex = y]
  \/ \E x, y, z : u = [[url EXCEPT !.tab = x, !.recordIndex = y] EXCEPT !.view = z]

\* Pages, records, views, tabs and texts are no part of the filter's values.
LEMMA MovesKeepFilter == ASSUME IsUrl(url), NEW u, Moved(u) PROVE IsUrl(u)
  <1>1. ASSUME NEW t, NEW v, IsUrl(t), v.active = t.active, v.score = t.score,
               v = [k \in Parameters |-> v[k]]
        PROVE  IsUrl(v)
    BY <1>1 DEF IsUrl
  <1>2. url = [k \in Parameters |-> url[k]]
    BY DEF IsUrl
  <1>3. CASE u = WithoutRecord(url)
    BY <1>3, OthersAre
  <1>4. ASSUME NEW x, \/ u = [url EXCEPT !.tab = x] \/ u = [url EXCEPT !.page = x]
                      \/ u = [url EXCEPT !.recordIndex = x] \/ u = [url EXCEPT !.view = x]
        PROVE  IsUrl(u)
    BY <1>4, FilterUntouched DEF Parameters
  <1>5. ASSUME NEW x, \/ u = [url EXCEPT !.sort = x, !.page = 1] \/ u = [url EXCEPT !.search = x, !.page = 1]
                      \/ u = [url EXCEPT !.pageSize = x, !.page = 1]
        PROVE  IsUrl(u)
    <2>1. u.active = url.active /\ u.score = url.score /\ u = [k \in Parameters |-> u[k]]
      BY <1>2, <1>5 DEF Parameters
    <2> QED BY <1>1, <2>1
  <1>6. ASSUME NEW x, NEW y, \/ u = [url EXCEPT !.page = x, !.recordIndex = y]
                             \/ u = [url EXCEPT !.tab = x, !.recordIndex = y]
        PROVE  IsUrl(u)
    <2>1. u.active = url.active /\ u.score = url.score /\ u = [k \in Parameters |-> u[k]]
      BY <1>2, <1>6 DEF Parameters
    <2> QED BY <1>1, <2>1
  <1>7. ASSUME NEW x, NEW y, NEW z, u = [[url EXCEPT !.tab = x, !.recordIndex = y] EXCEPT !.view = z]
        PROVE  IsUrl(u)
    <2>1. PICK to : to = [url EXCEPT !.tab = x, !.recordIndex = y]
      OBVIOUS
    <2>2. to.active = url.active /\ to.score = url.score /\ to = [k \in Parameters |-> to[k]]
      BY <1>2, <2>1 DEF Parameters
    <2>3. IsUrl(to)
      BY <1>1, <2>2
    <2> QED BY <1>7, <2>1, <2>3, FilterUntouched DEF Parameters
  <1>8. CASE \E x : \/ u = [url EXCEPT !.tab = x] \/ u = [url EXCEPT !.page = x]
                    \/ u = [url EXCEPT !.recordIndex = x] \/ u = [url EXCEPT !.view = x]
    BY <1>4, <1>8
  <1>9. CASE \E x : \/ u = [url EXCEPT !.sort = x, !.page = 1] \/ u = [url EXCEPT !.search = x, !.page = 1]
                    \/ u = [url EXCEPT !.pageSize = x, !.page = 1]
    BY <1>5, <1>9
  <1>10. CASE \E x, y : \/ u = [url EXCEPT !.page = x, !.recordIndex = y]
                        \/ u = [url EXCEPT !.tab = x, !.recordIndex = y]
    BY <1>6, <1>10
  <1>11. CASE \E x, y, z : u = [[url EXCEPT !.tab = x, !.recordIndex = y] EXCEPT !.view = z]
    BY <1>7, <1>11
  <1> QED BY <1>3, <1>8, <1>9, <1>10, <1>11 DEF Moved

\* Every step keeps the filter one that can be shown.
LEMMA NextUrlInv == UrlInv /\ [RecordsNext]_recordsVars => UrlInv'
  <1> SUFFICES ASSUME IsUrl(url), [RecordsNext]_recordsVars PROVE UrlInv'
    BY DEF UrlInv
  <1> USE DEF Parameters
  <1>1. CASE PlotsView
    <2>1. ASSUME NEW u, NEW fs, u \in Clicks(url, fs), fs \subseteq DOMAIN FACET_TO_URL_PARAM PROVE IsUrl(u)
      <3>1. PICK f \in fs \cap Facets : \E v \in FacetValues[f] : u = Toggled(url, f, v)
        BY <2>1 DEF Clicks
      <3>2. PICK v \in FacetValues[f] : u = Toggled(url, f, v)
        BY <3>1
      <3>3. f \in DOMAIN FACET_TO_URL_PARAM
        BY <2>1
      <3>4. FACET_TO_URL_PARAM[f] \in BoolParams => v \in LabelsOf[FACET_TO_URL_PARAM[f]]
        BY LabelsAssumption
      <3> QED BY <3>2, <3>3, <3>4, ToggledIs
    <2>2. ASSUME NEW u \in ContextSection(url) PROVE IsUrl(u)
      <3>1. CASE u = WithoutRecord(url)
        BY <3>1, OthersAre
      <3> DEFINE fs == {"base", "authority_link_bases", "authority_link_linkers", "comparison_bases", "validators"}
      <3>2. CASE u \in Clicks(url, fs)
        <4>1. fs \subseteq DOMAIN FACET_TO_URL_PARAM
          BY DEF FACET_TO_URL_PARAM
        <4> QED BY <2>1, <3>2, <4>1
      <3> QED BY <3>1, <3>2 DEF ContextSection
    <2>3. ASSUME NEW u \in RecordsSection(url) PROVE IsUrl(u)
      <3> DEFINE fs == {"is_deleted", "is_processed", "review_status", "type_of_record", "bibliographic_level"}
      <3>1. fs \subseteq DOMAIN FACET_TO_URL_PARAM
        BY DEF FACET_TO_URL_PARAM
      <3> QED BY <2>1, <3>1 DEF RecordsSection
    <2>4. ASSUME NEW u \in ComparisonSection(url) PROVE IsUrl(u)
      <3> DEFINE fs == {"match_qualities", "field_explanations"}
      <3>1. CASE u \in Clicks(url, fs)
        <4>1. fs \subseteq DOMAIN FACET_TO_URL_PARAM
          BY DEF FACET_TO_URL_PARAM
        <4> QED BY <2>1, <3>1, <4>1
      <3>2. ASSUME NEW on \in BOOLEAN, u = ScoreRange(url, on) PROVE IsUrl(u)
        BY <3>2, OthersAre
      <3> QED BY <3>1, <3>2 DEF ComparisonSection
    <2>5. ASSUME NEW u \in ValidationSection(url) PROVE IsUrl(u)
      <3> DEFINE fs == {"validation_statuses", "validation_reasons"}
      <3>1. fs \subseteq DOMAIN FACET_TO_URL_PARAM
        BY DEF FACET_TO_URL_PARAM
      <3> QED BY <2>1, <3>1 DEF ValidationSection
    <2>6. ASSUME NEW b \in ActiveFiltersBar(url) PROVE IsUrl(b.left)
      <3>1. CASE url.score /\ b = [of |-> <<"score">>, left |-> ScoreRange(url, FALSE)]
        BY <3>1, OthersAre
      <3>2. CASE url.recordId # "none" /\ b = [of |-> <<"recordId">>, left |-> WithoutRecord(url)]
        BY <3>2, OthersAre
      <3> QED BY <3>1, <3>2, BadgesAre
    <2>7. PICK u : /\ SetFilters(u)
                   /\ \/ u \in ContextSection(url) \/ u \in RecordsSection(url)
                      \/ u \in ComparisonSection(url) \/ u \in ValidationSection(url)
                      \/ (\E b \in ActiveFiltersBar(url) : u = b.left)
                      \/ u = ClearFilters(url)
      BY <1>1 DEF PlotsView
    <2>8. IsUrl(u)
      BY <2>2, <2>3, <2>4, <2>5, <2>6, <2>7, OthersAre
    <2> QED BY <2>7, <2>8, SetKeepsFilter
  <1>2. CASE TableView \/ CarouselView \/ SetTab
    <2>1. PICK u : SetFilters(u) /\ Moved(u)
      <3>1. CASE TableView
        <4>1. CASE RowClick
          <5>1. PICK i \in 0..(held.rows - 1) :
                  \/ SetFilters([url EXCEPT !.tab = "carousel", !.recordIndex = i])
                  \/ \E v : SetFilters([[url EXCEPT !.tab = "carousel", !.recordIndex = i] EXCEPT !.view = v])
            BY <4>1 DEF RowClick
          <5>2. Moved([url EXCEPT !.tab = "carousel", !.recordIndex = i])
            BY DEF Moved
          <5>3. ASSUME NEW v PROVE Moved([[url EXCEPT !.tab = "carousel", !.recordIndex = i] EXCEPT !.view = v])
            BY DEF Moved
          <5> QED BY <5>1, <5>2, <5>3
        <4>2. CASE ~RowClick
          <5>1. PICK n, t, o : \/ SetFilters([url EXCEPT !.page = n])
                               \/ SetFilters([url EXCEPT !.search = t, !.page = 1])
                               \/ SetFilters([url EXCEPT !.sort = o, !.page = 1])
                               \/ SetFilters([url EXCEPT !.pageSize = n, !.page = 1])
                               \/ SetFilters(WithoutRecord(url))
            BY <3>1, <4>2 DEF TableView
          <5>2. /\ Moved([url EXCEPT !.page = n]) /\ Moved([url EXCEPT !.search = t, !.page = 1])
                /\ Moved([url EXCEPT !.sort = o, !.page = 1]) /\ Moved([url EXCEPT !.pageSize = n, !.page = 1])
                /\ Moved(WithoutRecord(url))
            BY DEF Moved
          <5> QED BY <5>1, <5>2
        <4> QED BY <4>1, <4>2
      <3>2. CASE CarouselView
        <4>1. PICK n, i, v : \/ SetFilters([url EXCEPT !.recordIndex = i])
                             \/ SetFilters([url EXCEPT !.page = n, !.recordIndex = i])
                             \/ SetFilters([url EXCEPT !.view = v])
          BY <3>2 DEF CarouselView, GoToPrev, GoToNext, SelectView
        <4>2. /\ Moved([url EXCEPT !.recordIndex = i]) /\ Moved([url EXCEPT !.view = v])
              /\ Moved([url EXCEPT !.page = n, !.recordIndex = i])
          BY DEF Moved
        <4> QED BY <4>1, <4>2
      <3>3. CASE SetTab
        BY <3>3 DEF SetTab, Moved
      <3> QED BY <1>2, <3>1, <3>2, <3>3
    <2>2. IsUrl(u)
      BY <2>1, MovesKeepFilter
    <2> QED BY <2>1, <2>2, SetKeepsFilter
  <1>3. CASE SearchAnswered
    <2>1. PICK knw \in BOOLEAN : Render(url, TRUE, knw)
      BY <1>3 DEF SearchAnswered
    <2>2. RecordDetail(Clamp(url, TRUE), TRUE, knw)
      BY <2>1 DEF Render
    <2>3. PICK c : c = Clamp(url, TRUE)
      OBVIOUS
    <2>4. IsUrl(c)
      BY <2>3, ClampKeepsFilter
    <2> QED BY <2>2, <2>3, <2>4, RenderKeepsFilter DEF UrlInv, IsUrl
  <1>4. CASE DetailsAnswered
    <2>1. RecordDetail(url, ready, TRUE)
      BY <1>4 DEF DetailsAnswered
    <2>2. PICK u, rdy : u = url /\ rdy = ready
      OBVIOUS
    <2> QED BY <2>1, <2>2, RenderKeepsFilter DEF UrlInv, IsUrl
  <1>5. CASE UNCHANGED recordsVars
    BY <1>5 DEF recordsVars, UrlInv, IsUrl, IsFilter
  <1> QED BY <1>1, <1>2, <1>3, <1>4, <1>5 DEF RecordsNext

\* Every restriction that is sent has a badge, whose cross removes that one alone.
THEOREM FiltersAreShown == RecordsSpec => []FilterShown
  <1>1. RecordsInit => UrlInv
    <2> SUFFICES ASSUME RecordsInit PROVE IsUrl(url)
      BY DEF UrlInv
    <2>1. IsUrl(Defaults)
      BY DEF Defaults, IsUrl, IsFilter, Parameters
    <2>2. ASSUME NEW v PROVE IsUrl([Defaults EXCEPT !.active = {<<"validationTargetTags", v>>}])
      <3> DEFINE t == [Defaults EXCEPT !.active = {<<"validationTargetTags", v>>}]
      <3>1. t.active = {<<"validationTargetTags", v>>} /\ t.score = FALSE /\ t = [k \in Parameters |-> t[k]]
        BY DEF Defaults, Parameters
      <3>2. "validationTargetTags" \in FilterKeys \ BoolParams
        BY DEF FilterKeys, BoolParams
      <3> HIDE DEF t
      <3>3. IsFilter(t.active)
        BY <3>1, <3>2 DEF IsFilter
      <3>4. IsUrl(t)
        BY <3>1, <3>3 DEF IsUrl
      <3> QED BY <3>4 DEF t
    <2>3. ASSUME NEW r PROVE IsUrl([Defaults EXCEPT !.tab = "carousel", !.recordId = r])
      BY DEF Defaults, IsUrl, IsFilter, Parameters
    <2> QED BY <2>1, <2>2, <2>3 DEF RecordsInit
  <1> QED BY <1>1, NextUrlInv, BarShowsFilter, PTL DEF RecordsSpec
-------------------------------------------------------------------------------
(* The carousel: MovesByOne. *)

\* Parameters that name a place in the result.
IsPlace(u) ==
  /\ u = [k \in Parameters |-> u[k]]
  /\ u.page \in Nat \ {0} /\ u.pageSize \in PageSizes /\ u.recordIndex \in Nat

\* The index is that of a record of the page shown.
InPage(u, rdy) == CarouselRecords(u, rdy) # <<>> => u.recordIndex < Len(Rows(u))

\* The inductive invariant.
PlaceInv == IsPlace(url) /\ ready \in BOOLEAN /\ held.rows \in Nat /\ InPage(url, ready)

\* The lesser and the greater of two.
LEMMA LessOfTwo == ASSUME NEW a \in Int, NEW b \in Int
                   PROVE  /\ Min({a, b}) = IF a <= b THEN a ELSE b
                          /\ Max({a, b}) = IF a <= b THEN b ELSE a
  BY DEF Min, Max

\* The records that fit can be counted, and all are listed.
LEMMA TotalIsNat == ASSUME NEW u PROVE Total(u) \in Nat /\ Len(Found(u)) = Total(u)
  <1>1. IsFiniteSet(1..Len(Catalog)) /\ Hits(u) \subseteq 1..Len(Catalog)
    BY FS_Interval, FiltersAssumption DEF Hits
  <1>2. Cardinality(Hits(u)) \in Nat
    BY <1>1, FS_Subset, FS_CardinalityType
  <1>3. Len(Found(u)) = Cardinality(Hits(u))
    BY <1>2 DEF Found, InOrder
  <1> QED BY <1>2, <1>3 DEF Total

\* What is found depends on the filter and the order only.
LEMMA FoundBy ==
  ASSUME NEW u, NEW w, u.active = w.active, u.search = w.search, u.score = w.score,
         u.recordId = w.recordId, u.sort = w.sort
  PROVE  Total(u) = Total(w) /\ (u.page = w.page /\ u.pageSize = w.pageSize => Rows(u) = Rows(w))
  <1>1. BuildRecordFilter(u) = BuildRecordFilter(w)
    BY DEF BuildRecordFilter
  <1>2. Hits(u) = Hits(w)
    BY <1>1 DEF Hits
  <1>3. Found(u) = Found(w)
    BY <1>2 DEF Found
  <1> QED BY <1>2, <1>3 DEF Total, Rows

\* A page is full unless it is the last, and empty after that.
LEMMA RowsOfPage ==
  ASSUME NEW u, IsPlace(u)
  PROVE  /\ u.pageSize \in Nat \ {0} /\ (u.page - 1) * u.pageSize \in Nat
         /\ u.page * u.pageSize = (u.page - 1) * u.pageSize + u.pageSize
         /\ Len(Rows(u)) = IF Total(u) <= (u.page - 1) * u.pageSize THEN 0
                           ELSE IF Total(u) <= u.page * u.pageSize
                                THEN Total(u) - (u.page - 1) * u.pageSize
                           ELSE u.pageSize
         /\ Rows(u) = <<>> <=> Len(Rows(u)) = 0
  <1>1. u.pageSize \in Nat \ {0} /\ u.page \in Nat \ {0} /\ Total(u) \in Nat
    BY TotalIsNat, PageSizesAssumption DEF IsPlace
  <1>2. PICK n, p, t : n = u.pageSize /\ p = u.page /\ t = Total(u)
    OBVIOUS
  <1>3. n \in Nat \ {0} /\ p \in Nat \ {0} /\ t \in Nat
    BY <1>1, <1>2
  <1>4. (p - 1) * n \in Nat /\ p * n = (p - 1) * n + n
    <2>1. PICK q \in Nat : p = q + 1
      BY <1>3
    <2>2. q * n \in Nat /\ (q + 1) * n = q * n + n
      BY <1>3
    <2> QED BY <2>1, <2>2
  <1>5. PICK low \in Nat, high \in Nat : low = (p - 1) * n /\ high = p * n /\ high = low + n
    BY <1>3, <1>4
  <1> DEFINE m == low + 1
             last == IF high <= t THEN high ELSE t
             S == {Found(u)[i] : i \in m..last}
  <1>6. Rows(u) = SubSeq(Found(u), m, last)
    <2>1. (u.page - 1) * u.pageSize = low /\ u.page * u.pageSize = high /\ Total(u) = t
      BY <1>2, <1>5
    <2>2. Min({high, t}) = last /\ Len(Found(u)) = t
      BY <1>2, <1>3, LessOfTwo, TotalIsNat
    <2> HIDE DEF last
    <2> QED BY <2>1, <2>2 DEF Rows, PageOf
  <1>7. m \in Int /\ last \in Int
    BY <1>3, <1>5
  <1>8. \A i \in m..last : Found(u)[i] \in S
    OBVIOUS
  <1> HIDE DEF S, m, last
  <1>9. Rows(u) \in Seq(S) /\ Len(Rows(u)) = IF m <= last THEN last - m + 1 ELSE 0
    BY <1>6, <1>7, <1>8, SubSeqProperties
  <1>10. Rows(u) = <<>> <=> Len(Rows(u)) = 0
    BY <1>9, EmptySeq
  <1>11. Len(Rows(u)) = IF t <= low THEN 0 ELSE IF t <= high THEN t - low ELSE n
    BY <1>3, <1>5, <1>9 DEF m, last
  <1> QED BY <1>1, <1>2, <1>4, <1>5, <1>10, <1>11

\* The clamped index is in the page.
LEMMA ClampedInPage ==
  ASSUME NEW u, IsPlace(u), NEW rdy \in BOOLEAN
  PROVE  /\ IsPlace(Clamp(u, rdy)) /\ InPage(Clamp(u, rdy), rdy)
         /\ Clamp(u, rdy) \in {u, [u EXCEPT !.recordIndex = Len(Rows(u)) - 1]}
         /\ u.recordIndex < Len(Rows(u)) => Clamp(u, rdy) = u
  <1>0. Len(Rows(u)) \in Nat /\ (Rows(u) = <<>> <=> Len(Rows(u)) = 0)
    BY RowsOfPage, TotalIsNat
  <1>1. CASE CarouselRecords(u, rdy) # <<>> /\ u.recordIndex >= Len(CarouselRecords(u, rdy))
    <2>1. CarouselRecords(u, rdy) = Rows(u) /\ rdy /\ u.tab = "carousel"
      BY <1>1 DEF CarouselRecords
    <2>0. Len(Rows(u)) - 1 \in Nat /\ ~(u.recordIndex < Len(Rows(u)))
      <3>1. Rows(u) # <<>> /\ u.recordIndex >= Len(Rows(u)) /\ u.recordIndex \in Nat
        BY <1>1, <2>1 DEF IsPlace
      <3>2. Len(Rows(u)) # 0 /\ Len(Rows(u)) \in Nat
        BY <1>0, <3>1
      <3> QED BY <3>1, <3>2
    <2>2. PICK w : w = [u EXCEPT !.recordIndex = Len(Rows(u)) - 1]
      OBVIOUS
    <2>3. Clamp(u, rdy) = w
      BY <1>1, <2>1, <2>2 DEF Clamp
    <2>4. /\ w = [k \in Parameters |-> w[k]] /\ w.recordIndex = Len(Rows(u)) - 1
          /\ w.page = u.page /\ w.pageSize = u.pageSize /\ w.tab = u.tab
          /\ w.active = u.active /\ w.search = u.search /\ w.score = u.score
          /\ w.recordId = u.recordId /\ w.sort = u.sort
      BY <2>2 DEF IsPlace, Parameters
    <2>5. Rows(w) = Rows(u)
      BY <2>4, FoundBy
    <2>6. IsPlace(w)
      BY <2>0, <2>4 DEF IsPlace
    <2>7. InPage(w, rdy)
      BY <1>0, <2>4, <2>5 DEF InPage
    <2> QED BY <2>0, <2>2, <2>3, <2>6, <2>7
  <1>2. CASE ~(CarouselRecords(u, rdy) # <<>> /\ u.recordIndex >= Len(CarouselRecords(u, rdy)))
    <2>1. Clamp(u, rdy) = u
      BY <1>2 DEF Clamp
    <2>2. CarouselRecords(u, rdy) # <<>> => CarouselRecords(u, rdy) = Rows(u)
      BY DEF CarouselRecords
    <2> QED BY <1>0, <1>2, <2>1, <2>2 DEF InPage, IsPlace
  <1> QED BY <1>1, <1>2

\* A rendering changes the view at most.
LEMMA RenderedPlace ==
  ASSUME NEW c, NEW rdy \in BOOLEAN, NEW knw, RecordDetail(c, rdy, knw), IsPlace(c), InPage(c, rdy)
  PROVE  /\ IsPlace(url') /\ InPage(url', rdy) /\ Total(url') = Total(c)
         /\ url'.tab = c.tab /\ url'.page = c.page /\ url'.pageSize = c.pageSize
         /\ url'.recordIndex = c.recordIndex
  <1>1. url' = c \/ \E v : url' = [c EXCEPT !.view = v]
    BY DEF RecordDetail
  <1>2. PICK w : w = url'
    OBVIOUS
  <1>3. /\ w = [k \in Parameters |-> w[k]] /\ w.recordIndex = c.recordIndex
        /\ w.page = c.page /\ w.pageSize = c.pageSize /\ w.tab = c.tab
        /\ w.active = c.active /\ w.search = c.search /\ w.score = c.score
        /\ w.recordId = c.recordId /\ w.sort = c.sort
    BY <1>1, <1>2 DEF IsPlace, Parameters
  <1>4. Rows(w) = Rows(c) /\ Total(w) = Total(c)
    BY <1>3, FoundBy
  <1>5. IsPlace(w) /\ InPage(w, rdy)
    BY <1>3, <1>4 DEF IsPlace, InPage, CarouselRecords
  <1> QED BY <1>2, <1>3, <1>4, <1>5

\* New parameters are clamped and rendered.
LEMMA RenderPlace ==
  ASSUME PlaceInv, NEW u, IsPlace(u), NEW rdy \in BOOLEAN, NEW knw, Render(u, rdy, knw)
  PROVE  /\ PlaceInv'
         /\ url'.tab = u.tab /\ url'.page = u.page /\ url'.pageSize = u.pageSize
         /\ Total(url') = Total(u)
         /\ url'.recordIndex = Clamp(u, rdy).recordIndex
  <1>1. PICK c : c = Clamp(u, rdy)
    OBVIOUS
  <1>2. IsPlace(c) /\ InPage(c, rdy) /\ c \in {u, [u EXCEPT !.recordIndex = Len(Rows(u)) - 1]}
    BY <1>1, ClampedInPage
  <1>3. RecordDetail(c, rdy, knw) /\ UseRecordsSearch(c, rdy)
    BY <1>1 DEF Render
  <1>4. /\ c.tab = u.tab /\ c.page = u.page /\ c.pageSize = u.pageSize
        /\ c.active = u.active /\ c.search = u.search /\ c.score = u.score
        /\ c.recordId = u.recordId /\ c.sort = u.sort
    BY <1>2 DEF IsPlace, Parameters
  <1>5. Total(c) = Total(u)
    BY <1>4, FoundBy
  <1>6. Len(Rows(c)) \in Nat
    BY <1>2, RowsOfPage, TotalIsNat
  <1>7. ready' \in BOOLEAN /\ held'.rows \in Nat
    BY <1>3, <1>6 DEF UseRecordsSearch, Nothing, PlaceInv
  <1>8. ready' = rdy
    BY <1>3 DEF UseRecordsSearch
  <1>9. /\ IsPlace(url') /\ InPage(url', rdy) /\ Total(url') = Total(c)
        /\ url'.tab = c.tab /\ url'.page = c.page /\ url'.pageSize = c.pageSize
        /\ url'.recordIndex = c.recordIndex
    BY <1>2, <1>3, RenderedPlace
  <1> QED BY <1>1, <1>4, <1>5, <1>7, <1>8, <1>9 DEF PlaceInv

LEMMA SetPlace ==
  ASSUME PlaceInv, NEW u, IsPlace(u), SetFilters(u)
  PROVE  PlaceInv'
  BY RenderPlace DEF SetFilters

\* Parameters with another place, or changed otherwise.
MovedTo(u) ==
  \/ \E x : u = [url EXCEPT !.tab = x]
  \/ \E x : u = [url EXCEPT !.view = x]
  \/ \E n \in Nat \ {0} : u = [url EXCEPT !.page = n]
  \/ \E i \in Nat : u = [url EXCEPT !.recordIndex = i]
  \/ \E n \in Nat \ {0} : \E i \in Nat : u = [url EXCEPT !.page = n, !.recordIndex = i]
  \/ \E x : \E i \in Nat : u = [url EXCEPT !.tab = x, !.recordIndex = i]
  \/ \E x : \E n \in Nat \ {0} : u = [url EXCEPT !.active = x, !.page = n]
  \/ \E x : \E n \in Nat \ {0} : u = [url EXCEPT !.score = x, !.page = n]
  \/ \E x : \E n \in Nat \ {0} : u = [url EXCEPT !.search = x, !.page = n]
  \/ \E x : \E n \in Nat \ {0} : u = [url EXCEPT !.sort = x, !.page = n]
  \/ \E m \in PageSizes : \E n \in Nat \ {0} : u = [url EXCEPT !.pageSize = m, !.page = n]
  \/ \E x : \E i \in Nat : u = [url EXCEPT !.recordId = x, !.recordIndex = i]
  \/ \E x, y : \E i \in Nat : u = [[url EXCEPT !.tab = x, !.recordIndex = i] EXCEPT !.view = y]
  \/ u = ClearFilters(url)

\* They still name a place.
LEMMA MovedPlace == ASSUME IsPlace(url), NEW u, MovedTo(u) PROVE IsPlace(u)
  <1>1. ASSUME NEW x, u = [url EXCEPT !.tab = x] PROVE IsPlace(u)
    <2>1. u = [k \in Parameters |-> u[k]] /\ u.page = url.page /\ u.pageSize = url.pageSize /\ u.recordIndex = url.recordIndex
      BY <1>1 DEF IsPlace, Parameters
    <2> QED BY <2>1 DEF IsPlace
  <1>2. ASSUME NEW x, u = [url EXCEPT !.view = x] PROVE IsPlace(u)
    <2>1. u = [k \in Parameters |-> u[k]] /\ u.page = url.page /\ u.pageSize = url.pageSize /\ u.recordIndex = url.recordIndex
      BY <1>2 DEF IsPlace, Parameters
    <2> QED BY <2>1 DEF IsPlace
  <1>3. ASSUME NEW n \in Nat \ {0}, u = [url EXCEPT !.page = n] PROVE IsPlace(u)
    <2>1. u = [k \in Parameters |-> u[k]] /\ u.page = n /\ u.pageSize = url.pageSize /\ u.recordIndex = url.recordIndex
      BY <1>3 DEF IsPlace, Parameters
    <2> QED BY <2>1 DEF IsPlace
  <1>4. ASSUME NEW i \in Nat, u = [url EXCEPT !.recordIndex = i] PROVE IsPlace(u)
    <2>1. u = [k \in Parameters |-> u[k]] /\ u.page = url.page /\ u.pageSize = url.pageSize /\ u.recordIndex = i
      BY <1>4 DEF IsPlace, Parameters
    <2> QED BY <2>1 DEF IsPlace
  <1>5. ASSUME NEW n \in Nat \ {0}, NEW i \in Nat, u = [url EXCEPT !.page = n, !.recordIndex = i] PROVE IsPlace(u)
    <2>1. u = [k \in Parameters |-> u[k]] /\ u.page = n /\ u.pageSize = url.pageSize /\ u.recordIndex = i
      BY <1>5 DEF IsPlace, Parameters
    <2> QED BY <2>1 DEF IsPlace
  <1>6. ASSUME NEW x, NEW i \in Nat, u = [url EXCEPT !.tab = x, !.recordIndex = i] PROVE IsPlace(u)
    <2>1. u = [k \in Parameters |-> u[k]] /\ u.page = url.page /\ u.pageSize = url.pageSize /\ u.recordIndex = i
      BY <1>6 DEF IsPlace, Parameters
    <2> QED BY <2>1 DEF IsPlace
  <1>7. ASSUME NEW x, NEW n \in Nat \ {0}, u = [url EXCEPT !.active = x, !.page = n] PROVE IsPlace(u)
    <2>1. u = [k \in Parameters |-> u[k]] /\ u.page = n /\ u.pageSize = url.pageSize /\ u.recordIndex = url.recordIndex
      BY <1>7 DEF IsPlace, Parameters
    <2> QED BY <2>1 DEF IsPlace
  <1>8. ASSUME NEW x, NEW n \in Nat \ {0}, u = [url EXCEPT !.score = x, !.page = n] PROVE IsPlace(u)
    <2>1. u = [k \in Parameters |-> u[k]] /\ u.page = n /\ u.pageSize = url.pageSize /\ u.recordIndex = url.recordIndex
      BY <1>8 DEF IsPlace, Parameters
    <2> QED BY <2>1 DEF IsPlace
  <1>9. ASSUME NEW x, NEW n \in Nat \ {0}, u = [url EXCEPT !.search = x, !.page = n] PROVE IsPlace(u)
    <2>1. u = [k \in Parameters |-> u[k]] /\ u.page = n /\ u.pageSize = url.pageSize /\ u.recordIndex = url.recordIndex
      BY <1>9 DEF IsPlace, Parameters
    <2> QED BY <2>1 DEF IsPlace
  <1>10. ASSUME NEW x, NEW n \in Nat \ {0}, u = [url EXCEPT !.sort = x, !.page = n] PROVE IsPlace(u)
    <2>1. u = [k \in Parameters |-> u[k]] /\ u.page = n /\ u.pageSize = url.pageSize /\ u.recordIndex = url.recordIndex
      BY <1>10 DEF IsPlace, Parameters
    <2> QED BY <2>1 DEF IsPlace
  <1>11. ASSUME NEW m \in PageSizes, NEW n \in Nat \ {0}, u = [url EXCEPT !.pageSize = m, !.page = n] PROVE IsPlace(u)
    <2>1. u = [k \in Parameters |-> u[k]] /\ u.page = n /\ u.pageSize = m /\ u.recordIndex = url.recordIndex
      BY <1>11 DEF IsPlace, Parameters
    <2> QED BY <2>1 DEF IsPlace
  <1>12. ASSUME NEW x, NEW i \in Nat, u = [url EXCEPT !.recordId = x, !.recordIndex = i] PROVE IsPlace(u)
    <2>1. u = [k \in Parameters |-> u[k]] /\ u.page = url.page /\ u.pageSize = url.pageSize /\ u.recordIndex = i
      BY <1>12 DEF IsPlace, Parameters
    <2> QED BY <2>1 DEF IsPlace
  <1>13. ASSUME u = ClearFilters(url) PROVE IsPlace(u)
    <2>1. u = [k \in Parameters |-> u[k]] /\ u.page = 1 /\ u.pageSize = url.pageSize /\ u.recordIndex = 0
      BY <1>13 DEF IsPlace, Parameters, ClearFilters
    <2> QED BY <2>1 DEF IsPlace
  <1>14. ASSUME NEW x, NEW y, NEW i \in Nat, u = [[url EXCEPT !.tab = x, !.recordIndex = i] EXCEPT !.view = y] PROVE IsPlace(u)
    <2>1. u = [k \in Parameters |-> u[k]] /\ u.page = url.page /\ u.pageSize = url.pageSize /\ u.recordIndex = i
      BY <1>14 DEF IsPlace, Parameters
    <2> QED BY <2>1 DEF IsPlace
  <1> QED BY <1>1, <1>2, <1>3, <1>4, <1>5, <1>6, <1>7, <1>8, <1>9, <1>10, <1>11, <1>12, <1>13, <1>14 DEF MovedTo

\* What the sections of the plots offer names a place.
LEMMA ClickedMoves ==
  ASSUME NEW u, \/ \E f, v : u = Toggled(url, f, v)
                \/ \E on : u = ScoreRange(url, on)
                \/ u = WithoutRecord(url) \/ u = ClearFilters(url)
  PROVE  MovedTo(u)
  <1>0. 1 \in Nat \ {0} /\ 0 \in Nat
    OBVIOUS
  <1>1. ASSUME NEW f, NEW v, u = Toggled(url, f, v) PROVE MovedTo(u)
    <2>1. PICK a : u = [url EXCEPT !.active = a, !.page = 1]
      BY <1>1 DEF Toggled, ToggledArray
    <2> QED BY <1>0, <2>1 DEF MovedTo
  <1>2. ASSUME NEW on, u = ScoreRange(url, on) PROVE MovedTo(u)
    BY <1>0, <1>2 DEF ScoreRange, MovedTo
  <1>3. ASSUME u = WithoutRecord(url) PROVE MovedTo(u)
    BY <1>0, <1>3 DEF WithoutRecord, MovedTo
  <1> QED BY <1>1, <1>2, <1>3 DEF MovedTo

\* The index of the carousel is that in the address once the page is there.
LEMMA IndexIs ==
  ASSUME PlaceInv, NEW rows, rows = CarouselRecords(url, ready), NEW i, i = CarouselIndex(url, rows)
  PROVE  /\ i \in Nat /\ Len(rows) \in Nat
         /\ rows # <<>> => /\ ready /\ url.tab = "carousel" /\ rows = Rows(url)
                           /\ i = url.recordIndex /\ i < Len(rows)
  <1>1. rows = <<>> \/ rows = Rows(url)
    BY DEF CarouselRecords
  <1>2. Len(Rows(url)) \in Nat
    BY RowsOfPage, TotalIsNat DEF PlaceInv
  <1>3. Len(rows) \in Nat
    BY <1>1, <1>2
  <1>4. url.recordIndex \in Nat
    BY DEF PlaceInv, IsPlace
  <1>5. i = Min({url.recordIndex, Max({0, Len(rows) - 1})})
    BY DEF CarouselIndex
  <1>6. PICK last \in Int : last = Len(rows) - 1
    BY <1>3
  <1>7. PICK top \in Nat : top = Max({0, last}) /\ (last >= 0 => top = last)
    <2>1. Max({0, last}) = IF 0 <= last THEN last ELSE 0
      BY LessOfTwo
    <2> QED BY <2>1
  <1>10. PICK k \in Nat : k = url.recordIndex
    BY <1>4
  <1>11. i = IF k <= top THEN k ELSE top
    <2>1. i = Min({k, top})
      BY <1>5, <1>6, <1>7, <1>10
    <2> QED BY <2>1, LessOfTwo
  <1>8. CASE rows # <<>>
    <2>1. ready /\ url.tab = "carousel" /\ rows = Rows(url)
      BY <1>8 DEF CarouselRecords
    <2>2. url.recordIndex < Len(rows)
      BY <1>8, <2>1 DEF PlaceInv, InPage
    <2>3. k <= last /\ top = last
      BY <1>3, <1>6, <1>7, <1>10, <2>2
    <2>4. i = k
      BY <1>11, <2>3
    <2> QED BY <1>3, <1>10, <2>1, <2>2, <2>4
  <1>9. CASE rows = <<>>
    BY <1>3, <1>9, <1>11
  <1> QED BY <1>8, <1>9

\* Every step keeps the index in the page.
LEMMA NextPlaceInv == PlaceInv /\ [RecordsNext]_recordsVars => PlaceInv'
  <1> SUFFICES ASSUME PlaceInv, [RecordsNext]_recordsVars PROVE PlaceInv'
    OBVIOUS
  <1>0. IsPlace(url) /\ url.page \in Nat \ {0} /\ url.pageSize \in Nat \ {0} /\ url.recordIndex \in Nat
    BY PageSizesAssumption DEF PlaceInv, IsPlace
  <1>one. 1 \in Nat \ {0} /\ 0 \in Nat
    OBVIOUS
  <1>1. CASE PlotsView
    <2>1. PICK u : /\ SetFilters(u)
                   /\ \/ u \in ContextSection(url) \/ u \in RecordsSection(url)
                      \/ u \in ComparisonSection(url) \/ u \in ValidationSection(url)
                      \/ (\E b \in ActiveFiltersBar(url) : u = b.left)
                      \/ u = ClearFilters(url)
      BY <1>1 DEF PlotsView
    <2>2. ASSUME NEW fs, u \in Clicks(url, fs) PROVE \E f, v : u = Toggled(url, f, v)
      BY <2>2 DEF Clicks
    <2>3. ASSUME NEW b \in ActiveFiltersBar(url)
          PROVE  \/ \E f, v : b.left = Toggled(url, f, v)
                 \/ b.left = ScoreRange(url, FALSE) \/ b.left = WithoutRecord(url)
      <3> DEFINE Badge(f, v) ==
                   [of |-> <<FACET_TO_URL_PARAM[f], IF FACET_TO_URL_PARAM[f] \in BoolParams
                                                    THEN BOOL_LABEL_TO_VALUE[v] ELSE v>>,
                    left |-> Toggled(url, f, v)]
      <3>1. \/ \E f \in DOMAIN FACET_TO_URL_PARAM : \E v \in GetActiveValues(url, f) : b = Badge(f, v)
            \/ b = [of |-> <<"score">>, left |-> ScoreRange(url, FALSE)]
            \/ b = [of |-> <<"recordId">>, left |-> WithoutRecord(url)]
        BY DEF ActiveFiltersBar
      <3>2. ASSUME NEW f, NEW v, b = Badge(f, v) PROVE b.left = Toggled(url, f, v)
        BY <3>2
      <3>3. ASSUME NEW x, NEW y, b = [of |-> x, left |-> y] PROVE b.left = y
        BY <3>3
      <3> HIDE DEF Badge
      <3> QED BY <3>1, <3>2, <3>3
    <2>4. \/ \E f, v : u = Toggled(url, f, v)
          \/ \E on : u = ScoreRange(url, on)
          \/ u = WithoutRecord(url) \/ u = ClearFilters(url)
      <3>1. CASE u \in ContextSection(url)
        BY <2>2, <3>1 DEF ContextSection
      <3>2. CASE u \in RecordsSection(url)
        BY <2>2, <3>2 DEF RecordsSection
      <3>3. CASE u \in ComparisonSection(url)
        BY <2>2, <3>3 DEF ComparisonSection
      <3>4. CASE u \in ValidationSection(url)
        BY <2>2, <3>4 DEF ValidationSection
      <3> QED BY <2>1, <2>3, <3>1, <3>2, <3>3, <3>4
    <2> QED BY <1>0, <2>1, <2>4, ClickedMoves, MovedPlace, SetPlace
  <1>2. CASE TableView
    <2>1. CASE url.page > 1 /\ SetFilters([url EXCEPT !.page = @ - 1])
      <3>1. PICK n \in Nat \ {0} : n = url.page - 1
        BY <1>0, <2>1
      <3>2. MovedTo([url EXCEPT !.page = n])
        BY DEF MovedTo
      <3> QED BY <1>0, <2>1, <3>1, <3>2, MovedPlace, SetPlace
    <2>2. CASE SetFilters([url EXCEPT !.page = @ + 1])
      <3>1. PICK n \in Nat \ {0} : n = url.page + 1
        BY <1>0
      <3>2. MovedTo([url EXCEPT !.page = n])
        BY DEF MovedTo
      <3> QED BY <1>0, <2>2, <3>1, <3>2, MovedPlace, SetPlace
    <2>3. ASSUME NEW x, \/ SetFilters([url EXCEPT !.search = x, !.page = 1])
                        \/ SetFilters([url EXCEPT !.sort = x, !.page = 1])
          PROVE  PlaceInv'
      <3>1. MovedTo([url EXCEPT !.search = x, !.page = 1]) /\ MovedTo([url EXCEPT !.sort = x, !.page = 1])
        BY <1>one DEF MovedTo
      <3> QED BY <1>0, <2>3, <3>1, MovedPlace, SetPlace
    <2>4. ASSUME NEW n \in PageSizes, SetFilters([url EXCEPT !.pageSize = n, !.page = 1]) PROVE PlaceInv'
      <3>1. MovedTo([url EXCEPT !.pageSize = n, !.page = 1])
        BY <1>one DEF MovedTo
      <3> QED BY <1>0, <2>4, <3>1, MovedPlace, SetPlace
    <2>5. CASE SetFilters(WithoutRecord(url))
      BY <1>0, <2>5, ClickedMoves, MovedPlace, SetPlace
    <2>6. CASE RowClick
      <3>1. PICK i \in 0..(held.rows - 1) :
              \/ SetFilters([url EXCEPT !.tab = "carousel", !.recordIndex = i])
              \/ \E v : SetFilters([[url EXCEPT !.tab = "carousel", !.recordIndex = i] EXCEPT !.view = v])
        BY <2>6 DEF RowClick
      <3>2. i \in Nat
        BY DEF PlaceInv
      <3>3. MovedTo([url EXCEPT !.tab = "carousel", !.recordIndex = i])
        BY <3>2 DEF MovedTo
      <3>4. ASSUME NEW v PROVE MovedTo([[url EXCEPT !.tab = "carousel", !.recordIndex = i] EXCEPT !.view = v])
        BY <3>2 DEF MovedTo
      <3> QED BY <1>0, <3>1, <3>3, <3>4, MovedPlace, SetPlace
    <2> QED BY <1>2, <2>1, <2>2, <2>3, <2>4, <2>5, <2>6 DEF TableView
  <1> DEFINE rows == CarouselRecords(url, ready)
             i == CarouselIndex(url, rows)
  <1>3. i \in Nat /\ Len(rows) \in Nat
    BY IndexIs
  <1>4. CASE CarouselView
    <2> HIDE DEF i
    <2>1. ASSUME i > 0, SetFilters([url EXCEPT !.recordIndex = i - 1]) PROVE PlaceInv'
      <3>1. PICK k \in Nat : k = i - 1
        BY <1>3, <2>1
      <3>2. MovedTo([url EXCEPT !.recordIndex = k])
        BY DEF MovedTo
      <3> QED BY <1>0, <2>1, <3>1, <3>2, MovedPlace, SetPlace
    <2>2. ASSUME url.page > 1, SetFilters([url EXCEPT !.page = @ - 1, !.recordIndex = url.pageSize - 1])
          PROVE  PlaceInv'
      <3>1. PICK n \in Nat \ {0}, k \in Nat : n = url.page - 1 /\ k = url.pageSize - 1
        BY <1>0, <2>2
      <3>2. MovedTo([url EXCEPT !.page = n, !.recordIndex = k])
        BY DEF MovedTo
      <3> QED BY <1>0, <2>2, <3>1, <3>2, MovedPlace, SetPlace
    <2>3. ASSUME SetFilters([url EXCEPT !.recordIndex = i + 1]) PROVE PlaceInv'
      <3>1. PICK k \in Nat : k = i + 1
        BY <1>3, <2>3
      <3>2. MovedTo([url EXCEPT !.recordIndex = k])
        BY DEF MovedTo
      <3> QED BY <1>0, <2>3, <3>1, <3>2, MovedPlace, SetPlace
    <2>4. ASSUME SetFilters([url EXCEPT !.page = @ + 1, !.recordIndex = 0]) PROVE PlaceInv'
      <3>1. PICK n \in Nat \ {0} : n = url.page + 1
        BY <1>0
      <3>2. MovedTo([url EXCEPT !.page = n, !.recordIndex = 0])
        BY <1>one DEF MovedTo
      <3> QED BY <1>0, <2>4, <3>1, <3>2, MovedPlace, SetPlace
    <2>5. ASSUME NEW v, SetFilters([url EXCEPT !.view = v]) PROVE PlaceInv'
      <3>1. MovedTo([url EXCEPT !.view = v])
        BY DEF MovedTo
      <3> QED BY <1>0, <2>5, <3>1, MovedPlace, SetPlace
    <2>6. CASE GoToPrev
      BY <2>1, <2>2, <2>6 DEF GoToPrev, i
    <2>7. CASE GoToNext
      BY <2>3, <2>4, <2>7 DEF GoToNext, i
    <2>8. CASE SelectView
      BY <2>5, <2>8 DEF SelectView
    <2> QED BY <1>4, <2>6, <2>7, <2>8 DEF CarouselView
  <1>5. CASE SetTab
    <2>1. PICK t : SetFilters([url EXCEPT !.tab = t])
      BY <1>5 DEF SetTab
    <2>2. MovedTo([url EXCEPT !.tab = t])
      BY DEF MovedTo
    <2> QED BY <1>0, <2>1, <2>2, MovedPlace, SetPlace
  <1>6. CASE SearchAnswered
    BY <1>0, <1>6, RenderPlace DEF SearchAnswered
  <1>7. CASE DetailsAnswered
    <2>1. RecordDetail(url, ready, TRUE) /\ UNCHANGED <<ready, held>>
      BY <1>7 DEF DetailsAnswered
    <2>2. IsPlace(url) /\ InPage(url, ready) /\ ready \in BOOLEAN
      BY DEF PlaceInv
    <2>3. IsPlace(url') /\ InPage(url', ready)
      BY <2>1, <2>2, RenderedPlace
    <2> QED BY <2>1, <2>3 DEF PlaceInv
  <1>8. CASE UNCHANGED recordsVars
    <2>1. url' = url /\ ready' = ready /\ held' = held
      BY <1>8 DEF recordsVars
    <2> QED BY <2>1 DEF PlaceInv
  <1> QED BY <1>1, <1>2, <1>4, <1>5, <1>6, <1>7, <1>8 DEF RecordsNext

\* From a record that is shown, the carousel goes to a neighbour or stays.
LEMMA MoveIsByOne ==
  ASSUME PlaceInv, [RecordsNext]_recordsVars, Shown(url, ready) # {}, url'.tab = "carousel"
  PROVE  /\ Position(url') - Position(url) \in {-1, 0, 1}
         /\ Position(url') \in 0..(Total(url) - 1)
  <1> DEFINE rows == CarouselRecords(url, ready)
             i == CarouselIndex(url, rows)
  <1>1. rows # <<>>
    BY DEF Shown
  <1>2. /\ ready /\ url.tab = "carousel" /\ rows = Rows(url) /\ i = url.recordIndex
        /\ i \in Nat /\ i < Len(Rows(url))
    BY <1>1, IndexIs
  <1>3. IsPlace(url) /\ url.page \in Nat \ {0} /\ url.pageSize \in PageSizes /\ url.recordIndex \in Nat
    BY DEF PlaceInv, IsPlace
  <1>20. Len(Rows(url)) \in Nat
    BY <1>3, RowsOfPage, TotalIsNat
  <1>21. PICK place \in Nat, len \in Nat : place = i /\ place = url.recordIndex
                                         /\ len = Len(Rows(url)) /\ len = Len(rows) /\ place < len
    BY <1>2, <1>20
  <1> HIDE DEF i, rows
  <1>4. PICK n, t, low, high, p :
          n = url.pageSize /\ t = Total(url) /\ low = (url.page - 1) * url.pageSize
          /\ high = url.page * url.pageSize /\ p = Position(url)
    OBVIOUS
  <1>5. n \in Nat \ {0} /\ t \in Nat /\ low \in Nat /\ high = low + n
    BY <1>3, <1>4, RowsOfPage, TotalIsNat
  <1>6. len = IF t <= low THEN 0 ELSE IF t <= high THEN t - low ELSE n
    BY <1>3, <1>4, <1>21, RowsOfPage
  <1>7. p = low + place
    BY <1>4, <1>21 DEF Position
  <1>8. p \in 0..(t - 1) /\ low < t
    BY <1>5, <1>6, <1>7, <1>21
  \* A step to u, in whose page the index is, goes to the place of u.
  <1>9. ASSUME NEW u, MovedTo(u), SetFilters(u), u.recordIndex < Len(Rows(u))
        PROVE  /\ url'.tab = u.tab /\ url'.page = u.page /\ url'.pageSize = u.pageSize
               /\ url'.recordIndex = u.recordIndex
    <2>1. PICK rdy \in BOOLEAN, knw \in BOOLEAN : Render(u, rdy, knw)
      BY <1>9 DEF SetFilters
    <2>2. IsPlace(u)
      BY <1>3, <1>9, MovedPlace
    <2>3. Clamp(u, rdy) = u
      BY <1>9, <2>2, ClampedInPage
    <2> QED BY <2>1, <2>2, <2>3, RenderPlace
  <1> SUFFICES Position(url') - p \in {-1, 0, 1} /\ Position(url') \in 0..(t - 1)
    BY <1>4
  <1>10. CASE url'.page = url.page /\ url'.pageSize = url.pageSize /\ url'.recordIndex = url.recordIndex
    <2>1. Position(url') = p
      BY <1>4, <1>10 DEF Position
    <2> QED BY <1>5, <1>8, <2>1
  <1>11. CASE PlotsView \/ TableView \/ SearchAnswered
    BY <1>2, <1>11 DEF PlotsView, TableView, SearchAnswered
  <1>12. CASE SetTab
    <2>1. PICK x : x # "carousel" /\ SetFilters([url EXCEPT !.tab = x])
      BY <1>2, <1>12 DEF SetTab
    <2>2. PICK u : u = [url EXCEPT !.tab = x]
      OBVIOUS
    <2>3. MovedTo(u) /\ u.tab = x
      BY <1>3, <2>2 DEF MovedTo, IsPlace, Parameters
    <2>4. PICK rdy \in BOOLEAN, knw \in BOOLEAN : Render(u, rdy, knw)
      BY <2>1, <2>2 DEF SetFilters
    <2>5. url'.tab = x
      BY <1>3, <2>3, <2>4, MovedPlace, RenderPlace
    <2> QED BY <2>1, <2>5
  <1>13. CASE DetailsAnswered
    <2>1. RecordDetail(url, ready, TRUE) /\ InPage(url, ready) /\ ready \in BOOLEAN
      BY <1>13 DEF DetailsAnswered, PlaceInv
    <2>2. url'.page = url.page /\ url'.pageSize = url.pageSize /\ url'.recordIndex = url.recordIndex
      BY <1>3, <2>1, RenderedPlace
    <2> QED BY <1>10, <2>2
  <1>14. CASE SelectView
    <2>1. PICK v : SetFilters([url EXCEPT !.view = v])
      BY <1>14 DEF SelectView
    <2>2. PICK u : u = [url EXCEPT !.view = v]
      OBVIOUS
    <2>3. MovedTo(u)
      BY <2>2 DEF MovedTo
    <2>4. /\ u.page = url.page /\ u.pageSize = url.pageSize /\ u.recordIndex = url.recordIndex
          /\ u.active = url.active /\ u.search = url.search /\ u.score = url.score
          /\ u.recordId = url.recordId /\ u.sort = url.sort
      BY <1>3, <2>2 DEF IsPlace, Parameters
    <2>5. Rows(u) = Rows(url)
      BY <2>4, FoundBy
    <2>6. u.recordIndex < Len(Rows(u))
      BY <1>2, <2>4, <2>5
    <2> QED BY <1>9, <1>10, <2>1, <2>2, <2>3, <2>4, <2>6
  \* A step within the page,
  <1>15. ASSUME NEW k \in Nat, k \in {place - 1, place + 1}, k < len, SetFilters([url EXCEPT !.recordIndex = k])
         PROVE  Position(url') - p \in {-1, 0, 1} /\ Position(url') \in 0..(t - 1)
    <2>1. PICK u : u = [url EXCEPT !.recordIndex = k]
      OBVIOUS
    <2>2. MovedTo(u)
      BY <2>1 DEF MovedTo
    <2>3. /\ u.page = url.page /\ u.pageSize = url.pageSize /\ u.recordIndex = k
          /\ u.active = url.active /\ u.search = url.search /\ u.score = url.score
          /\ u.recordId = url.recordId /\ u.sort = url.sort
      BY <1>3, <2>1 DEF IsPlace, Parameters
    <2>4. Rows(u) = Rows(url)
      BY <2>3, FoundBy
    <2>5. url'.page = url.page /\ url'.pageSize = url.pageSize /\ url'.recordIndex = k
      BY <1>9, <1>15, <1>21, <2>1, <2>2, <2>3, <2>4
    <2>6. Position(url') = low + k
      BY <1>4, <2>5 DEF Position
    <2>7. low + len <= t
      BY <1>5, <1>6, <1>21
    <2>8. low + k \in 0..(t - 1)
      BY <1>5, <1>15, <1>21, <2>7
    <2>9. (low + k) - p \in {-1, 0, 1}
      BY <1>5, <1>7, <1>15, <1>21
    <2> QED BY <1>4, <2>6, <2>8, <2>9
  \* and over its ends.
  <1>16. ASSUME NEW m \in Nat \ {0}, NEW k \in Nat, SetFilters([url EXCEPT !.page = m, !.recordIndex = k]),
                \/ place = 0 /\ m = url.page - 1 /\ k = n - 1
                \/ place >= len - 1 /\ m = url.page + 1 /\ k = 0 /\ high < t
         PROVE  Position(url') - p \in {-1, 0, 1} /\ Position(url') \in 0..(t - 1)
    <2>1. PICK u : u = [url EXCEPT !.page = m, !.recordIndex = k]
      OBVIOUS
    <2>2. MovedTo(u)
      BY <2>1 DEF MovedTo
    <2>3. /\ u.page = m /\ u.pageSize = n /\ u.recordIndex = k
          /\ u.active = url.active /\ u.search = url.search /\ u.score = url.score
          /\ u.recordId = url.recordId /\ u.sort = url.sort
      BY <1>3, <1>4, <2>1 DEF IsPlace, Parameters
    <2>4. IsPlace(u) /\ Total(u) = t
      BY <1>3, <1>4, <2>2, <2>3, MovedPlace, FoundBy
    <2>5. PICK first, next : first = (m - 1) * n /\ next = m * n
      OBVIOUS
    <2>6. /\ first \in Nat /\ next = first + n
          /\ Len(Rows(u)) = IF t <= first THEN 0 ELSE IF t <= next THEN t - first ELSE n
      BY <2>3, <2>4, <2>5, RowsOfPage
    <2>7. CASE place = 0 /\ m = url.page - 1 /\ k = n - 1
      <3>1. next = low
        BY <1>4, <2>5, <2>7
      <3>2. k < Len(Rows(u))
        BY <1>5, <1>8, <2>6, <2>7, <3>1
      <3>3. url'.page = m /\ url'.pageSize = n /\ url'.recordIndex = k
        BY <1>9, <1>16, <2>1, <2>2, <2>3, <3>2
      <3>4. Position(url') = first + k
        BY <2>5, <3>3 DEF Position
      <3> QED BY <1>5, <1>7, <1>8, <2>6, <2>7, <3>1, <3>4
    <2>8. CASE place >= len - 1 /\ m = url.page + 1 /\ k = 0 /\ high < t
      <3>1. first = high
        <4>1. m - 1 = url.page
          BY <1>3, <2>8
        <4> QED BY <1>4, <2>5, <4>1
      <3>2. k < Len(Rows(u))
        BY <1>5, <2>6, <2>8, <3>1
      <3>3. url'.page = m /\ url'.pageSize = n /\ url'.recordIndex = k
        BY <1>9, <1>16, <2>1, <2>2, <2>3, <3>2
      <3>4. Position(url') = high
        BY <2>5, <2>6, <2>8, <3>1, <3>3 DEF Position
      <3>5. place = n - 1
        BY <1>5, <1>6, <1>21, <2>8
      <3> QED BY <1>5, <1>7, <2>8, <3>4, <3>5
    <2> QED BY <1>16, <2>7, <2>8
  <1>17. CASE GoToPrev
    <2>1. \/ place > 0 /\ SetFilters([url EXCEPT !.recordIndex = place - 1])
          \/ /\ place = 0 /\ url.page > 1
             /\ SetFilters([url EXCEPT !.page = url.page - 1, !.recordIndex = url.pageSize - 1])
      BY <1>17, <1>21 DEF GoToPrev, i, rows
    <2>2. CASE place > 0 /\ SetFilters([url EXCEPT !.recordIndex = place - 1])
      <3>1. PICK k \in Nat : k = place - 1 /\ k < len
        BY <1>21, <2>2
      <3> QED BY <1>15, <2>2, <3>1
    <2>3. CASE /\ place = 0 /\ url.page > 1
               /\ SetFilters([url EXCEPT !.page = url.page - 1, !.recordIndex = url.pageSize - 1])
      <3>1. PICK m \in Nat \ {0}, k \in Nat : m = url.page - 1 /\ k = url.pageSize - 1 /\ k = n - 1
        BY <1>3, <1>4, <1>5, <2>3
      <3> QED BY <1>16, <2>3, <3>1
    <2> QED BY <2>1, <2>2, <2>3
  <1>18. CASE GoToNext
    <2>1. \/ place < len - 1 /\ SetFilters([url EXCEPT !.recordIndex = place + 1])
          \/ /\ place >= len - 1 /\ high < t
             /\ SetFilters([url EXCEPT !.page = url.page + 1, !.recordIndex = 0])
      BY <1>4, <1>18, <1>21 DEF GoToNext, i, rows
    <2>2. CASE place < len - 1 /\ SetFilters([url EXCEPT !.recordIndex = place + 1])
      <3>1. PICK k \in Nat : k = place + 1 /\ k < len
        BY <1>21, <2>2
      <3> QED BY <1>15, <2>2, <3>1
    <2>3. CASE /\ place >= len - 1 /\ high < t
               /\ SetFilters([url EXCEPT !.page = url.page + 1, !.recordIndex = 0])
      <3>1. PICK m \in Nat \ {0}, k \in Nat : m = url.page + 1 /\ k = 0
        BY <1>3
      <3> QED BY <1>16, <2>3, <3>1
    <2> QED BY <2>1, <2>2, <2>3
  <1>19. CASE UNCHANGED recordsVars
    BY <1>10, <1>19 DEF recordsVars
  <1> QED BY <1>11, <1>12, <1>13, <1>14, <1>17, <1>18, <1>19 DEF RecordsNext, CarouselView

\* The initial states satisfy the invariant.
LEMMA InitPlaceInv == RecordsInit => PlaceInv
  <1> SUFFICES ASSUME RecordsInit PROVE PlaceInv
    OBVIOUS
  <1> DEFINE Plain(u) == /\ u = [k \in Parameters |-> u[k]] /\ u.page = 1 /\ u.pageSize = DefaultPageSize
                         /\ u.recordIndex = 0
  <1>3. Plain(Defaults)
    BY DEF Defaults, Parameters
  <1>4. ASSUME NEW a PROVE Plain([Defaults EXCEPT !.active = a])
    BY DEF Defaults, Parameters
  <1>5. ASSUME NEW r PROVE Plain([Defaults EXCEPT !.tab = "carousel", !.recordId = r])
    BY DEF Defaults, Parameters
  <1> HIDE DEF Plain
  <1>6. Plain(url)
    BY <1>3, <1>4, <1>5 DEF RecordsInit
  <1>1. /\ url = [k \in Parameters |-> url[k]] /\ url.page = 1 /\ url.pageSize = DefaultPageSize
        /\ url.recordIndex = 0
    BY <1>6 DEF Plain
  <1>2. ready = FALSE /\ held = Nothing
    BY DEF RecordsInit
  <1>7. IsPlace(url)
    BY <1>1, PageSizesAssumption DEF IsPlace
  <1>8. CarouselRecords(url, ready) = <<>> /\ held.rows = 0
    BY <1>2 DEF CarouselRecords, Nothing
  <1>9. InPage(url, ready)
    BY <1>8, Zenon DEF InPage
  <1>10. ready \in BOOLEAN
    BY <1>2
  <1>11. held.rows \in Nat
    BY <1>8
  <1> QED BY <1>7, <1>9, <1>10, <1>11, Zenon DEF PlaceInv

\* The keys of the carousel reach the neighbours of a record in the whole
\* result, whatever the page sizes, and pass neither end.
THEOREM CarouselMovesByOne == RecordsSpec => MovesByOne
  <1>1. PlaceInv /\ [RecordsNext]_recordsVars =>
          [(Shown(url, ready) # {} /\ url'.tab = "carousel") =>
             /\ Position(url') - Position(url) \in {-1, 0, 1}
             /\ Position(url') \in 0..(Total(url) - 1)]_recordsVars
    BY MoveIsByOne
  <1> QED BY <1>1, InitPlaceInv, NextPlaceInv, PTL DEF RecordsSpec, MovesByOne
-------------------------------------------------------------------------------
(* The table of a record: MarcTable. *)

\* The inductive invariant: the results are numbered, and about variable
\* fields or no field in particular, whether the record has these or not.
TableInv ==
  /\ marc \in Records /\ results \in Seq(Result)
  /\ \A i \in 1..Len(results) :
       results[i].id = i /\ (results[i].index = General \/ results[i].tag \in VariableTags)

\* The results with given ids are those found at a tag and the places named.
LEMMA IdsAre ==
  ASSUME TableInv, NEW tag, NEW at
  PROVE  Ids(tag, at) = {i \in 1..Len(results) : results[i].tag = tag /\ results[i].index \in at}
  BY DEF TableInv, Ids

\* The rows are of four kinds, some of them filtered away.
LEMMA KindsOfRows ==
  ASSUME NEW row
  PROVE  row \in TableRows <=>
           /\ row.tag \in TargetTags
           /\ \/ row \in FixedRows \/ row \in MissingRows \/ row \in GeneralRows
              \/ \E t \in VariableTags : row \in FieldRows(t)
  BY DEF TableRows

\* The rows with a validator's results, kind by kind.
LEMMA RowsAre ==
  ASSUME TableInv, annotation = "validation", NEW row \in TableRows
  PROVE  \/ /\ row.tag \in marc.fixed
            /\ row = [tag |-> row.tag, at |-> 0, ids |-> Ids(row.tag, Anywhere)]
         \/ /\ row.tag \in VariableTags /\ row.at \in 0..(Fields(marc, row.tag) - 1)
            /\ row = [tag |-> row.tag, at |-> row.at, ids |-> Ids(row.tag, {row.at})]
         \/ /\ row.tag \in MissingValidationTags
            /\ row = [tag |-> row.tag, at |-> 0, ids |-> Ids(row.tag, {0, General})]
         \/ /\ row.tag \in VariableTags /\ Fields(marc, row.tag) > 0
            /\ row = [tag |-> row.tag, at |-> General, ids |-> Ids(row.tag, {General})]
  <1>1. \/ row \in FixedRows \/ row \in MissingRows \/ row \in GeneralRows
        \/ \E t \in VariableTags : row \in FieldRows(t)
    BY KindsOfRows
  <1>2. CASE row \in FixedRows
    <2>1. PICK t \in marc.fixed : row = [tag |-> t, at |-> 0, ids |-> Ids(t, Anywhere)]
      BY <1>2 DEF FixedRows, MarcRow
    <2> QED BY <2>1
  <1>3. ASSUME NEW t \in VariableTags, row \in FieldRows(t)
        PROVE  /\ row.tag \in VariableTags /\ row.at \in 0..(Fields(marc, row.tag) - 1)
               /\ row = [tag |-> row.tag, at |-> row.at, ids |-> Ids(row.tag, {row.at})]
    <2>1. PICK i \in 0..(Fields(marc, t) - 1) : row = [tag |-> t, at |-> i, ids |-> Ids(t, {i})]
      BY <1>3 DEF FieldRows, MarcRow
    <2>2. row.tag = t /\ row.at = i
      BY <2>1
    <2> QED BY <2>1, <2>2
  <1>4. CASE row \in MissingRows
    <2>1. PICK t \in MissingValidationTags : row = [tag |-> t, at |-> 0, ids |-> Ids(t, {0, General})]
      BY <1>4 DEF MissingRows, MarcRow
    <2> QED BY <2>1
  <1>5. CASE row \in GeneralRows
    <2>1. PICK t \in VariableTags :
            Fields(marc, t) > 0 /\ row = [tag |-> t, at |-> General, ids |-> Ids(t, {General})]
      BY <1>5 DEF GeneralRows, MarcRow
    <2> QED BY <2>1
  <1> QED BY <1>1, <1>2, <1>3, <1>4, <1>5

\* A tag is shown in one way: as a fixed field, as a repeated one, or missing.
LEMMA TagsApart ==
  ASSUME marc \in Records, NEW t
  PROVE  /\ t \in marc.fixed => t \notin VariableTags /\ t \notin MissingValidationTags
         /\ t \in VariableTags /\ Fields(marc, t) > 0 => t \notin MissingValidationTags
         /\ t \in VariableTags => Fields(marc, t) \in Nat
  <1>1. marc.fixed \subseteq FixedTags
    BY DEF Records
  <1>2. t \in VariableTags => Fields(marc, t) \in Nat
    BY TableAssumption DEF Records, Fields
  <1> QED BY <1>1, <1>2, TableAssumption DEF MissingValidationTags, ExistingTags

\* Each result has one row, whichever way its tag is shown, unless its field
\* is gone.
LEMMA ShownOnce == TableInv => ResultsShownOnce
  <1> SUFFICES ASSUME TableInv, annotation = "validation", NEW i \in 1..Len(results)
               PROVE  IF FieldGone(results[i])
                      THEN /\ ~Seen(marc, results[i])
                           /\ \A row \in TableRows : results[i].id \notin row.ids
                      ELSE \E row \in TableRows :
                             /\ results[i].id \in row.ids /\ row.tag = results[i].tag
                             /\ row.at = results[i].index \/ results[i].index = General
                             /\ \A other \in TableRows \ {row} : results[i].id \notin other.ids
    BY DEF ResultsShownOnce
  <1>1. /\ marc \in Records /\ results[i] \in Result /\ results[i].id = i
        /\ results[i].index = General \/ results[i].tag \in VariableTags
    BY DEF TableInv
  <1> DEFINE t == results[i].tag
             k == results[i].index
  <1>2. t \in Tags /\ k \in Anywhere /\ General \notin 0..(MaxFields - 1)
    BY <1>1, TableAssumption DEF Result, Anywhere, General
  <1>3. t \in TargetTags
    BY <1>2 DEF TargetTags
  \* Where a result is shown, it has the tag and one of the places of the row.
  <1>4. ASSUME NEW tag, NEW at PROVE i \in Ids(tag, at) <=> tag = t /\ k \in at
    <2>1. Ids(tag, at) = {j \in 1..Len(results) : results[j].tag = tag /\ results[j].index \in at}
      BY IdsAre
    <2> QED BY <2>1
  <1>5. /\ k = General \/ (t \in VariableTags /\ k \in 0..(MaxFields - 1))
        /\ t \in VariableTags => Fields(marc, t) \in Nat
        /\ k \in Int /\ General \notin Nat
    <2>1. t \in VariableTags => Fields(marc, t) \in Nat
      BY <1>1, TagsApart
    <2> QED BY <1>1, <1>2, <2>1, TableAssumption DEF Anywhere, General
  <1>6. ASSUME NEW row \in TableRows, i \in row.ids
        PROVE  \/ t \in marc.fixed /\ row = [tag |-> t, at |-> 0, ids |-> Ids(t, Anywhere)]
               \/ /\ t \in VariableTags /\ k \in 0..(Fields(marc, t) - 1)
                  /\ row = [tag |-> t, at |-> k, ids |-> Ids(t, {k})]
               \/ t \in MissingValidationTags /\ row = [tag |-> t, at |-> 0, ids |-> Ids(t, {0, General})]
               \/ /\ t \in VariableTags /\ Fields(marc, t) > 0 /\ k = General
                  /\ row = [tag |-> t, at |-> General, ids |-> Ids(t, {General})]
    <2>1. CASE row.tag \in marc.fixed /\ row = [tag |-> row.tag, at |-> 0, ids |-> Ids(row.tag, Anywhere)]
      <3>1. i \in Ids(row.tag, Anywhere)
        BY <1>6, <2>1
      <3>2. row.tag = t
        BY <1>4, <3>1
      <3> QED BY <2>1, <3>2
    <2>2. CASE /\ row.tag \in VariableTags /\ row.at \in 0..(Fields(marc, row.tag) - 1)
               /\ row = [tag |-> row.tag, at |-> row.at, ids |-> Ids(row.tag, {row.at})]
      <3>1. i \in Ids(row.tag, {row.at})
        BY <1>6, <2>2
      <3>2. row.tag = t /\ row.at = k
        BY <1>4, <3>1
      <3> QED BY <2>2, <3>2
    <2>3. CASE /\ row.tag \in MissingValidationTags
               /\ row = [tag |-> row.tag, at |-> 0, ids |-> Ids(row.tag, {0, General})]
      <3>1. i \in Ids(row.tag, {0, General})
        BY <1>6, <2>3
      <3>2. row.tag = t
        BY <1>4, <3>1
      <3> QED BY <2>3, <3>2
    <2>4. CASE /\ row.tag \in VariableTags /\ Fields(marc, row.tag) > 0
               /\ row = [tag |-> row.tag, at |-> General, ids |-> Ids(row.tag, {General})]
      <3>1. i \in Ids(row.tag, {General})
        BY <1>6, <2>4
      <3>2. row.tag = t /\ k = General
        BY <1>4, <3>1
      <3> QED BY <2>4, <3>2
    <2> QED BY <1>6, <2>1, <2>2, <2>3, <2>4, RowsAre
  <1>7. CASE t \in marc.fixed /\ ~FieldGone(results[i])
    <2> DEFINE row == [tag |-> t, at |-> 0, ids |-> Ids(t, Anywhere)]
    <2>1. row \in TableRows
      BY <1>3, <1>7 DEF TableRows, FixedRows, MarcRow
    <2>2. i \in row.ids /\ k = General
      BY <1>1, <1>2, <1>4, <1>5, <1>7, TagsApart
    <2>3. \A other \in TableRows : i \in other.ids => other = row
      BY <1>1, <1>6, <1>7, TagsApart
    <2> QED BY <1>1, <1>7, <2>1, <2>2, <2>3
  <1>8. CASE t \in VariableTags /\ Fields(marc, t) > 0 /\ k # General /\ ~FieldGone(results[i])
    <2> DEFINE row == [tag |-> t, at |-> k, ids |-> Ids(t, {k})]
    <2>1. k \in 0..(Fields(marc, t) - 1)
      BY <1>5, <1>8, TableAssumption DEF FieldGone
    <2>2. row \in FieldRows(t)
      BY <2>1 DEF FieldRows, MarcRow
    <2>3. row \in TableRows
      BY <1>3, <1>8, <2>2 DEF TableRows
    <2>4. i \in row.ids
      BY <1>4
    <2>5. \A other \in TableRows : i \in other.ids => other = row
      BY <1>1, <1>6, <1>8, TagsApart
    <2> QED BY <1>1, <1>8, <2>3, <2>4, <2>5
  <1>9. CASE t \in VariableTags /\ Fields(marc, t) > 0 /\ k = General
    <2> DEFINE row == [tag |-> t, at |-> General, ids |-> Ids(t, {General})]
    <2>1. i \in row.ids
      BY <1>4, <1>9
    <2>2. row \in GeneralRows
      BY <1>9, <2>1 DEF GeneralRows, MarcRow
    <2>3. row \in TableRows
      <3>1. row.tag = t
        OBVIOUS
      <3> HIDE DEF row
      <3> QED BY <1>3, <2>2, <3>1, KindsOfRows
    <2>4. General \notin 0..(Fields(marc, t) - 1)
      BY DEF General
    <2>5. \A other \in TableRows : i \in other.ids => other = row
      BY <1>1, <1>6, <1>9, <2>4, TagsApart
    <2>6. ~FieldGone(results[i])
      BY <1>9 DEF FieldGone, General
    <2> QED BY <1>1, <1>9, <2>1, <2>3, <2>5, <2>6
  <1>10. CASE /\ t \notin marc.fixed /\ (t \in VariableTags => ~(Fields(marc, t) > 0))
              /\ ~FieldGone(results[i])
    <2> DEFINE row == [tag |-> t, at |-> 0, ids |-> Ids(t, {0, General})]
    <2>1. t \in MissingValidationTags
      BY <1>10 DEF MissingValidationTags, ExistingTags
    <2>2. k \in {0, General}
      <3>1. CASE t \in VariableTags
        BY <1>5, <1>10, <3>1, TableAssumption DEF FieldGone
      <3> QED BY <1>5, <3>1
    <2>3. row \in TableRows
      <3>1. row.tag = t /\ row \in MissingRows
        BY <2>1 DEF MissingRows, MarcRow
      <3> HIDE DEF row
      <3> QED BY <1>3, <3>1, KindsOfRows
    <2>4. i \in row.ids
      BY <1>4, <2>2
    <2>5. \A other \in TableRows : i \in other.ids => other = row
      <3> SUFFICES ASSUME NEW other \in TableRows, i \in other.ids PROVE other = row
        OBVIOUS
      <3>1. ~(t \in VariableTags /\ Fields(marc, t) > 0)
        BY <1>10
      <3>2. ~(t \in VariableTags /\ k \in 0..(Fields(marc, t) - 1))
        BY <1>5, <3>1
      <3> HIDE DEF t, k
      <3> QED BY <1>6, <1>10, <3>1, <3>2
    <2> QED BY <1>1, <1>10, <2>2, <2>3, <2>4, <2>5
  \* A repetition that is gone is at no row of its tag, and it was not seen in
  \* this record.
  <1>11. CASE FieldGone(results[i])
    <2>1. t \in VariableTags /\ k > 0 /\ k >= Fields(marc, t) /\ k # General
      BY <1>5, <1>11 DEF FieldGone, General
    <2>2. ~Seen(marc, results[i])
      BY <1>5, <2>1, TableAssumption DEF Seen
    <2>3. ASSUME NEW row \in TableRows, i \in row.ids PROVE FALSE
      <3>1. t \notin marc.fixed /\ k \notin 0..(Fields(marc, t) - 1) /\ k \notin {0, General}
        <4>1. t \notin marc.fixed
          BY <1>1, <2>1, TagsApart
        <4> QED BY <1>5, <2>1, <4>1
      <3>2. row.ids = Ids(t, {0, General})
        <4>1. row = [tag |-> t, at |-> 0, ids |-> Ids(t, {0, General})]
          <5> HIDE DEF t, k
          <5> QED BY <1>6, <2>1, <2>3, <3>1
        <4> QED BY <4>1
      <3> QED BY <1>4, <2>3, <3>1, <3>2
    <2> QED BY <1>1, <1>11, <2>2, <2>3
  <1> QED BY <1>7, <1>8, <1>9, <1>10, <1>11

\* Every result of a validator stands at exactly one row, at its field, but
\* those of earlier bytes about a repetition that is gone.
THEOREM EveryResultShownOnce == TableSpec => []ResultsShownOnce
  <1>1. TableInit => TableInv
    BY DEF TableInit, TableInv
  <1>2. TableInv /\ [SelectResults]_tableVars => TableInv'
    <2> SUFFICES ASSUME TableInv, [SelectResults]_tableVars PROVE TableInv'
      OBVIOUS
    <2>1. CASE SelectResults
      <3>1. PICK n \in 0..MaxResults : results' \in [1..n -> Result]
        BY <2>1 DEF SelectResults, BoundedSeq, SeqOf
      <3>2. results' \in Seq(Result)
        BY <3>1, TableAssumption
      <3> QED BY <2>1, <3>2 DEF SelectResults, TableInv, Seen
    <2>2. CASE UNCHANGED tableVars
      BY <2>2 DEF tableVars, TableInv
    <2> QED BY <2>1, <2>2
  <1> QED BY <1>1, <1>2, ShownOnce, PTL DEF TableSpec
-------------------------------------------------------------------------------
(* The dialogs that start tasks: RecordTasks. *)

PickedType ==
  [base : Bases \cup {"none"}, linkers : SUBSET Linkers,
   comparisons : SUBSET Bases, validators : SUBSET Validators]

\* While the dialog of linking is open, what the system offers by now has been
\* offered, and so has what is picked: that may be offered no more.
PickedFits ==
  dialog = "link" =>
    /\ Pairs(info) \subseteq offered
    /\ \A l \in picked.linkers : <<picked.base, l>> \in offered

\* The inductive invariant.
TasksInv == info \in Infos /\ picked \in PickedType /\ PickedFits /\ PostedFits

\* The initial states satisfy the invariant.
LEMMA InitTasksInv == TasksInit => TasksInv
  BY DEF TasksInit, TasksInv, PickedType, PickedFits, PostedFits, Nobody

\* What is chosen in advance is among what can be chosen.
LEMMA PreselectedIn == ASSUME NEW S PROVE Preselected(S) \subseteq S
  BY DEF Preselected

\* A linker compatible with a base is offered for it.
LEMMA CompatiblePairs ==
  ASSUME info \in Infos, NEW b, NEW l \in Compatible(b)
  PROVE  l \in Linkers /\ b \in Bases /\ <<b, l>> \in Pairs(info)
  <1>1. l \in Linkers /\ b \in info.linkers[l] /\ info.linkers[l] \subseteq Bases
    BY DEF Infos, Compatible
  <1> QED BY <1>1 DEF Pairs

\* Choosing a base leaves only linkers that are offered for it.
LEMMA WithBaseFits ==
  ASSUME info \in Infos, picked \in PickedType, NEW b \in AvailableBases
  PROVE  /\ WithBase(b) \in PickedType
         /\ \A l \in WithBase(b).linkers : <<WithBase(b).base, l>> \in Pairs(info)
  <1>1. Preselected(Compatible(b)) \subseteq Compatible(b)
    BY PreselectedIn
  <1>2. b \in Bases
    BY DEF AvailableBases, Infos
  <1>3. Preselected(Compatible(b)) \subseteq Linkers
    BY <1>1, CompatiblePairs
  <1>4. WithBase(b) \in PickedType
    BY <1>2, <1>3 DEF WithBase, PickedType
  <1>5. WithBase(b).base = b /\ WithBase(b).linkers = Preselected(Compatible(b))
    BY DEF WithBase, PickedType
  <1>6. ASSUME NEW l \in WithBase(b).linkers PROVE <<WithBase(b).base, l>> \in Pairs(info)
    <2>1. l \in Compatible(b)
      BY <1>1, <1>5, <1>6
    <2>2. <<b, l>> \in Pairs(info)
      BY <2>1, CompatiblePairs
    <2> QED BY <1>5, <2>2
  <1> QED BY <1>4, <1>6

\* Every click, answer and refetch preserves the invariant.
LEMMA NextTasksInv == TasksInv /\ [TasksNext]_dialogVars => TasksInv'
  <1> SUFFICES ASSUME TasksInv, [TasksNext]_dialogVars PROVE TasksInv'
    OBVIOUS
  <1>0. info \in Infos /\ picked \in PickedType /\ PickedFits /\ PostedFits
    BY DEF TasksInv
  \* A dialog opens.  That of linking opens only when none of its tasks is under way.
  <1>1. ASSUME NEW d \in {"process", "compare", "validate"}, NEW p \in PickedType, Opened(d, p)
        PROVE  TasksInv'
    BY <1>0, <1>1 DEF Opened, TasksInv, PickedFits, PostedFits
  <1>2. ASSUME NEW p \in PickedType, Opened("link", p),
               \A l \in p.linkers : <<p.base, l>> \in Pairs(info)
        PROVE  TasksInv'
    <2>1. posts' = posts /\ info' = info /\ picked' = p /\ offered' = Pairs(info)
      BY <1>2 DEF Opened
    <2>2. \A q \in posts : q.task # "link"
      BY <1>2 DEF Opened, IsBusy
    <2>3. PostedFits'
      BY <2>1, <2>2 DEF PostedFits
    <2>4. PickedFits'
      BY <1>2, <2>1 DEF PickedFits, Pairs
    <2> QED BY <1>0, <2>1, <2>3, <2>4 DEF TasksInv
  <1>3. CASE OpenProcess
    BY <1>0, <1>1, <1>3 DEF OpenProcess
  <1>4. CASE OpenCompare
    <2>1. [picked EXCEPT !.comparisons = Preselected(info.bases)] \in PickedType
      BY <1>0, PreselectedIn DEF PickedType, Infos
    <2> QED BY <1>1, <1>4, <2>1 DEF OpenCompare
  <1>5. CASE OpenValidate
    <2>1. [picked EXCEPT !.validators = Preselected(info.validators)] \in PickedType
      BY <1>0, PreselectedIn DEF PickedType, Infos
    <2> QED BY <1>1, <1>5, <2>1 DEF OpenValidate
  <1>6. CASE OpenLinkAuthorities
    <2>1. CASE Cardinality(AvailableBases) = 1
      <3>1. AvailableBases # {}
        BY <2>1, FS_EmptySet
      <3>2. PICK b \in AvailableBases : b = CHOOSE c \in AvailableBases : TRUE
        BY <3>1
      <3>3. Opened("link", WithBase(b))
        BY <1>6, <2>1, <3>2 DEF OpenLinkAuthorities
      <3> QED BY <1>0, <1>2, <3>3, WithBaseFits
    <2>2. CASE Cardinality(AvailableBases) # 1
      <3> DEFINE p == [picked EXCEPT !.base = "none", !.linkers = {}]
      <3>1. p \in PickedType /\ p.linkers = {}
        BY <1>0 DEF PickedType
      <3>2. Opened("link", p)
        BY <1>6, <2>2 DEF OpenLinkAuthorities
      <3> QED BY <1>2, <3>1, <3>2
    <2> QED BY <2>1, <2>2
  \* A choice in the open dialog.
  <1>7. ASSUME NEW p \in PickedType, Picks(p),
               dialog = "link" => \A l \in p.linkers : <<p.base, l>> \in offered
        PROVE  TasksInv'
    BY <1>0, <1>7 DEF Picks, TasksInv, PickedFits, PostedFits, Pairs
  <1>8. CASE SelectBase
    <2>1. PICK b \in AvailableBases : Picks(WithBase(b)) /\ dialog = "link"
      BY <1>8 DEF SelectBase
    <2>2. \A l \in WithBase(b).linkers : <<WithBase(b).base, l>> \in offered
      BY <1>0, <2>1, WithBaseFits DEF PickedFits
    <2> QED BY <1>0, <1>7, <2>1, <2>2, WithBaseFits
  <1>9. CASE ToggleLinker
    <2>1. PICK l \in Compatible(picked.base) :
            dialog = "link" /\ Picks([picked EXCEPT !.linkers = Flipped(picked.linkers, l)])
      BY <1>9 DEF ToggleLinker
    <2>2. l \in Linkers /\ <<picked.base, l>> \in offered
      BY <1>0, <2>1, CompatiblePairs DEF PickedFits
    <2>3. [picked EXCEPT !.linkers = Flipped(picked.linkers, l)] \in PickedType
      BY <1>0, <2>2 DEF PickedType, Flipped
    <2>4. \A k \in Flipped(picked.linkers, l) : <<picked.base, k>> \in offered
      BY <1>0, <2>1, <2>2 DEF PickedFits, Flipped
    <2> QED BY <1>0, <1>7, <2>1, <2>3, <2>4 DEF PickedType
  <1>10. CASE ToggleBase
    <2>1. PICK b \in info.bases :
            dialog = "compare" /\ Picks([picked EXCEPT !.comparisons = Flipped(picked.comparisons, b)])
      BY <1>10 DEF ToggleBase
    <2>2. [picked EXCEPT !.comparisons = Flipped(picked.comparisons, b)] \in PickedType
      BY <1>0 DEF PickedType, Flipped, Infos
    <2> QED BY <1>7, <2>1, <2>2
  <1>11. CASE ToggleValidator
    <2>1. PICK v \in info.validators :
            dialog = "validate" /\ Picks([picked EXCEPT !.validators = Flipped(picked.validators, v)])
      BY <1>11 DEF ToggleValidator
    <2>2. [picked EXCEPT !.validators = Flipped(picked.validators, v)] \in PickedType
      BY <1>0 DEF PickedType, Flipped, Infos
    <2> QED BY <1>7, <2>1, <2>2
  <1>12. CASE Cancel
    BY <1>0, <1>12 DEF Cancel, TasksInv, PickedFits, PostedFits
  \* A request is sent: one for linking asks for what was picked.
  <1>13. ASSUME NEW ps, Post(ps),
                \A p \in ps : p.task = "link" => p.tools # {} /\ {p.base} \X p.tools \subseteq offered
         PROVE  TasksInv'
    BY <1>0, <1>13 DEF Post, TasksInv, PickedFits, PostedFits
  <1>14. CASE ConfirmProcess
    BY <1>13, <1>14 DEF ConfirmProcess
  <1>15. CASE ConfirmCompare
    BY <1>13, <1>15 DEF ConfirmCompare
  <1>16. CASE ConfirmLinkAuthorities
    <2>1. picked.linkers # {} /\ {picked.base} \X picked.linkers \subseteq offered
      BY <1>0, <1>16 DEF ConfirmLinkAuthorities, PickedFits
    <2> QED BY <1>13, <1>16, <2>1 DEF ConfirmLinkAuthorities
  <1>17. CASE ConfirmValidate
    BY <1>13, <1>17 DEF ConfirmValidate
  <1>18. CASE Answered
    <2>1. posts' \subseteq posts /\ UNCHANGED <<info, changes, dialog, picked, offered>>
      BY <1>18 DEF Answered
    <2> QED BY <1>0, <2>1 DEF TasksInv, PickedFits, PostedFits, Pairs
  <1>19. CASE InfoChanges
    <2>1. /\ info' \in Infos /\ offered' = offered \cup Pairs(info')
          /\ dialog' = dialog /\ picked' = picked /\ posts' = posts
      BY <1>19 DEF InfoChanges
    <2>2. PickedFits'
      BY <1>0, <2>1 DEF PickedFits, Pairs
    <2>3. PostedFits'
      BY <1>0, <2>1 DEF PostedFits
    <2> QED BY <1>0, <2>1, <2>2, <2>3 DEF TasksInv
  <1>20. CASE UNCHANGED dialogVars
    BY <1>0, <1>20 DEF dialogVars, TasksInv, PickedFits, PostedFits, Pairs
  <1> QED BY <1>3, <1>4, <1>5, <1>6, <1>8, <1>9, <1>10, <1>11, <1>12, <1>14, <1>15, <1>16, <1>17,
             <1>18, <1>19, <1>20 DEF TasksNext

\* A linking task asks only for linkers that were offered for its base while
\* its dialog was open.
THEOREM PostsWereOffered == TasksSpec => []PostedFits
  <1>1. TasksInv => PostedFits
    BY DEF TasksInv
  <1> QED BY <1>1, InitTasksInv, NextTasksInv, PTL DEF TasksSpec
-------------------------------------------------------------------------------
(* The roles page: AccessControl. *)

\* How many steps of dependencies lead on from a permission.
Depth ==
  [ReadRecords |-> 0, ReviewRecords |-> 1, ManageReviews |-> 2, AddRecords |-> 1,
   SyncRecordsFromCatalog |-> 3, ProcessRecords |-> 1, RunPartialRecordTasks |-> 1,
   ManageTasks |-> 2, ManageAllTasks |-> 3, ManageTaskSettings |-> 3,
   ManageAccessControl |-> 0, ManageAppSettings |-> 0]

\* No circle, and no chain of more than three.
LEMMA DependenciesAreShallow ==
  ASSUME NEW p \in Permissions
  PROVE  /\ PermissionDependencies[p] \subseteq Permissions /\ Depth[p] \in 0..3
         /\ \A d \in PermissionDependencies[p] : Depth[d] < Depth[p]
  <1>1. p \in {"ReadRecords", "ReviewRecords", "ManageReviews", "AddRecords", "SyncRecordsFromCatalog",
               "ProcessRecords", "RunPartialRecordTasks", "ManageTasks", "ManageAllTasks",
               "ManageTaskSettings", "ManageAccessControl", "ManageAppSettings"}
    BY DEF Permissions, PermissionDependencies
  <1>2. PermissionDependencies[p] \subseteq Permissions
    BY <1>1 DEF Permissions, PermissionDependencies
  <1>3. Depth[p] \in 0..3
    BY <1>1 DEF Depth
  <1>4. \A d \in PermissionDependencies[p] : Depth[d] < Depth[p]
    BY <1>1 DEF PermissionDependencies, Depth
  <1> QED BY <1>2, <1>3, <1>4

\* The sets of permissions that hold all their permissions depend on.
ClosedSets == {S \in SUBSET Permissions : Closed(S)}

\* A permission with all it depends on needs no other.
LEMMA DependenciesAreClosed ==
  ASSUME NEW p \in Permissions
  PROVE  GetAllDependencies(p) \in ClosedSets /\ GetAllDependencies(p) \cup {p} \in ClosedSets
  <1> DEFINE D(q) == PermissionDependencies[q]
             one == D(p)
             two == WithDirect(one)
             three == WithDirect(two)
  <1>1. one \subseteq Permissions /\ two = one \cup UNION {D(q) : q \in one}
    BY DependenciesAreShallow DEF WithDirect
  <1>2. two \subseteq Permissions /\ three = two \cup UNION {D(q) : q \in two}
    BY <1>1, DependenciesAreShallow DEF WithDirect
  <1>3. three \subseteq Permissions /\ GetAllDependencies(p) = three
    BY <1>2, DependenciesAreShallow DEF GetAllDependencies
  <1>4. one \subseteq two /\ two \subseteq three
    BY <1>1, <1>2
  <1>5. ASSUME NEW q \in three PROVE D(q) \subseteq three
    <2>1. CASE q \in two
      BY <1>2, <2>1
    <2>2. CASE q \notin two
      <3>1. PICK r \in two : q \in D(r)
        BY <1>2, <2>2
      <3>2. r \notin one
        BY <1>1, <2>2, <3>1
      <3>3. PICK s \in one : r \in D(s)
        BY <1>1, <3>1, <3>2
      <3>4. /\ Depth[q] < Depth[r] /\ Depth[r] < Depth[s] /\ Depth[s] < Depth[p]
            /\ Depth[q] \in 0..3 /\ Depth[r] \in 0..3 /\ Depth[s] \in 0..3 /\ Depth[p] \in 0..3
        BY <1>1, <1>2, <1>3, <3>1, <3>3, DependenciesAreShallow
      <3>5. Depth[q] = 0
        BY <3>4
      <3>6. \A d \in D(q) : Depth[d] < 0 /\ Depth[d] \in 0..3
        BY <1>3, <3>5, DependenciesAreShallow
      <3>7. D(q) = {}
        BY <3>6
      <3> QED BY <3>7
    <2> QED BY <2>1, <2>2
  <1> HIDE DEF two, three
  <1>6. three \in ClosedSets
    BY <1>3, <1>5 DEF ClosedSets, Closed
  <1>7. three \cup {p} \in ClosedSets
    BY <1>3, <1>4, <1>5 DEF ClosedSets, Closed
  <1> QED BY <1>3, <1>6, <1>7

\* What stays needs nothing that goes.
LEMMA RemainderIsClosed ==
  ASSUME NEW S \in ClosedSets, NEW p \in Permissions
  PROVE  RemoveDependents(S, p) \in ClosedSets
  <1> DEFINE D(q) == PermissionDependencies[q]
             one == WithDependents(S, {p})
             two == WithDependents(S, one)
             three == WithDependents(S, two)
  <1>1. S \subseteq Permissions /\ \A q \in S : D(q) \subseteq S
    BY DEF ClosedSets, Closed
  <1>2. one = {p} \cup {q \in S : D(q) \cap {p} # {}}
    BY DEF WithDependents
  <1>3. two = one \cup {q \in S : D(q) \cap one # {}}
    BY DEF WithDependents
  <1>4. three = two \cup {q \in S : D(q) \cap two # {}}
    BY DEF WithDependents
  <1> HIDE DEF one, two, three
  <1>5. ASSUME NEW q \in S, q \notin three, NEW d \in D(q), d \in three PROVE FALSE
    <2>1. d \notin two
      BY <1>4, <1>5
    <2>2. PICK e \in D(d) : e \in two /\ d \in S
      BY <1>4, <1>5, <2>1
    <2>3. e \notin one
      BY <1>3, <2>1, <2>2
    <2>4. PICK f \in D(e) : f \in one /\ e \in S
      BY <1>3, <2>2, <2>3
    <2>5. f # p
      BY <1>2, <2>3, <2>4
    <2>6. p \in D(f) /\ f \in S
      BY <1>2, <2>4, <2>5
    <2>7. /\ Depth[p] < Depth[f] /\ Depth[f] < Depth[e] /\ Depth[e] < Depth[d] /\ Depth[d] < Depth[q]
          /\ Depth[p] \in 0..3 /\ Depth[f] \in 0..3 /\ Depth[e] \in 0..3 /\ Depth[d] \in 0..3
          /\ Depth[q] \in 0..3
      BY <1>1, <1>5, <2>2, <2>4, <2>6, DependenciesAreShallow
    <2> QED BY <2>7
  <1>6. RemoveDependents(S, p) = S \ three
    BY DEF RemoveDependents, one, two, three
  <1>7. \A q \in S \ three : D(q) \subseteq S \ three
    BY <1>1, <1>5
  <1> QED BY <1>1, <1>6, <1>7 DEF ClosedSets, Closed

\* A click leaves a closed set closed.
LEMMA ToggledIsClosed ==
  ASSUME NEW S \in ClosedSets, NEW p \in Permissions
  PROVE  TogglePermission(S, p) \in ClosedSets
  <1>1. GetAllDependencies(p) \cup {p} \in ClosedSets
    BY DependenciesAreClosed
  <1>2. S \cup {p} \cup GetAllDependencies(p) \in ClosedSets
    BY <1>1 DEF ClosedSets, Closed
  <1> QED BY <1>2, RemainderIsClosed DEF TogglePermission

\* The inductive invariant: every role stored, listed, edited or sent is closed.
RolesInv ==
  /\ roles \in [Roles -> ClosedSets] /\ listed \in [Roles -> ClosedSets]
  /\ roleDialog \in [open : BOOLEAN, role : Roles \cup {"new"}, permissions : ClosedSets]
  /\ deleting \in Roles \cup {"none"}
  /\ saving \subseteq [role : Roles \cup {"new"}, permissions : ClosedSets]

\* The initial states satisfy the invariant.
LEMMA InitRolesInv == RolesInit => RolesInv
  <1> SUFFICES ASSUME RolesInit PROVE RolesInv
    OBVIOUS
  <1>1. {} \in ClosedSets
    BY DEF ClosedSets, Closed
  <1>2. \A p \in Ticked : GetAllDependencies(p) \cup {p} \in ClosedSets
    BY DependenciesAreClosed, RolesAssumption
  <1>3. ({{}} \cup {GetAllDependencies(p) \cup {p} : p \in Ticked}) \subseteq ClosedSets
    BY <1>1, <1>2
  <1> DEFINE start == {{}} \cup {GetAllDependencies(p) \cup {p} : p \in Ticked}
  <1>4. roles \in [Roles -> start] /\ listed = roles
    BY DEF RolesInit
  <1> HIDE DEF start
  <1>5. start \subseteq ClosedSets
    BY <1>3 DEF start
  <1>6. roles \in [Roles -> ClosedSets] /\ listed \in [Roles -> ClosedSets]
    BY <1>4, <1>5
  <1>7. /\ roleDialog \in [open : BOOLEAN, role : Roles \cup {"new"}, permissions : ClosedSets]
        /\ deleting \in Roles \cup {"none"} /\ saving = {}
    BY <1>1 DEF RolesInit, Shut
  <1> QED BY <1>6, <1>7 DEF RolesInv

\* Every click and answer preserves it, whatever dialog is open when it comes.
LEMMA NextRolesInv == RolesInv /\ [RolesNext]_rolesVars => RolesInv'
  <1> SUFFICES ASSUME RolesInv, [RolesNext]_rolesVars PROVE RolesInv'
    OBVIOUS
  <1>0. {} \in ClosedSets /\ Shut \in [open : BOOLEAN, role : Roles \cup {"new"}, permissions : ClosedSets]
    BY DEF ClosedSets, Closed, Shut
  <1>1. CASE OpenDialog
    <2>1. PICK r \in Roles \cup {"new"} :
            roleDialog' = [open |-> TRUE, role |-> r, permissions |-> IF r = "new" THEN {} ELSE listed[r]]
      BY <1>1 DEF OpenDialog
    <2> QED BY <1>0, <1>1, <2>1 DEF OpenDialog, RolesInv
  <1>2. CASE CloseDialog
    BY <1>0, <1>2 DEF CloseDialog, RolesInv
  <1>3. CASE RoleForm
    <2>1. PICK p \in Ticked : roleDialog' = [roleDialog EXCEPT !.permissions = TogglePermission(roleDialog.permissions, p)]
      BY <1>3 DEF RoleForm
    <2>2. TogglePermission(roleDialog.permissions, p) \in ClosedSets
      BY ToggledIsClosed, RolesAssumption DEF RolesInv
    <2> QED BY <1>3, <2>1, <2>2 DEF RoleForm, RolesInv
  <1>4. CASE HandleSubmit
    BY <1>4 DEF HandleSubmit, RolesInv
  <1>5. CASE DeleteRole
    <2>1. CASE deleting' \in {q \in Roles : listed[q] # {}} /\ UNCHANGED saving
      BY <1>5, <2>1 DEF DeleteRole, RolesInv
    <2>2. CASE /\ deleting # "none" /\ deleting' = "none"
               /\ saving' \in {saving, saving \cup {[role |-> deleting, permissions |-> {}]}}
      <3>1. deleting \in Roles
        BY <2>2 DEF RolesInv
      <3>2. [role |-> deleting, permissions |-> {}] \in [role : Roles \cup {"new"}, permissions : ClosedSets]
        BY <1>0, <3>1
      <3>3. saving' \subseteq [role : Roles \cup {"new"}, permissions : ClosedSets]
        BY <2>2, <3>2 DEF RolesInv
      <3> QED BY <1>5, <2>2, <3>3 DEF DeleteRole, RolesInv
    <2> QED BY <1>5, <2>1, <2>2 DEF DeleteRole
  <1>6. CASE RoleAnswered
    <2>1. PICK s \in saving :
            /\ saving' = saving \ {s}
            /\ \/ /\ roles' \in Applied(s) /\ listed' = roles'
                  /\ roleDialog' \in {roleDialog, [roleDialog EXCEPT !.open = FALSE], Shut}
                  /\ deleting' \in {"none", deleting}
               \/ UNCHANGED <<roles, listed, roleDialog, deleting>>
      BY <1>6 DEF RoleAnswered
    <2>2. s.role \in Roles \cup {"new"} /\ s.permissions \in ClosedSets
      BY DEF RolesInv
    <2>3. \A q \in Applied(s) : q \in [Roles -> ClosedSets]
      BY <2>2 DEF Applied, RolesInv
    <2> QED BY <1>0, <2>1, <2>3 DEF RolesInv
  <1>7. CASE UNCHANGED rolesVars
    BY <1>7 DEF rolesVars, RolesInv
  <1> QED BY <1>1, <1>2, <1>3, <1>4, <1>5, <1>6, <1>7 DEF RolesNext

\* No clicks, in any order, make a role that lacks what its permissions need.
THEOREM RolesStayClosed == RolesSpec => []RoleClosed
  <1>1. RolesInv => RoleClosed
    BY DEF RolesInv, RoleClosed, ClosedSets
  <1> QED BY <1>1, InitRolesInv, NextRolesInv, PTL DEF RolesSpec
-------------------------------------------------------------------------------
(* The forms of the settings: SettingsForm. *)

\* A document, or what a form makes of one, has a value for each field.
IsValues(s, d) == d = [f \in Edited[s] |-> d[f]]
IsDocument(s, d) == d = Missing \/ IsValues(s, d)

\* A form holds all fields in which draft and baseline differ for edited.
IsForm(s, x) ==
  /\ x = [draft |-> x.draft, base |-> x.base, edited |-> x.edited]
  /\ IsValues(s, x.draft) /\ IsValues(s, x.base)
  /\ \A f \in Edited[s] : x.draft[f] # x.base[f] => f \in x.edited

\* The inductive invariant.
SettingsInv ==
  /\ scope \in Scopes /\ asking \in Scopes \cup {"none"}
  /\ saved = [s \in Scopes |-> saved[s]] /\ (\A s \in Scopes : IsDocument(s, saved[s]))
  /\ cached = [s \in Scopes |-> cached[s]]
  /\ \A s \in Scopes : cached[s] = Unknown \/ IsDocument(s, cached[s])
  /\ posted = NoSave \/ (posted.scope \in Scopes /\ IsValues(posted.scope, posted.doc))
  /\ form = NoForm \/ IsForm(scope, form)

\* What the server may store is a document.
LEMMA DocumentsAre == ASSUME NEW s, NEW d \in Documents(s) PROVE IsDocument(s, d)
  <1>1. CASE d \in {[f \in Edited[s] |-> choice[f]] : choice \in FilledIn(s)}
    <2>1. PICK choice \in FilledIn(s) : d = [f \in Edited[s] |-> choice[f]]
      BY <1>1
    <2>2. \A f \in Edited[s] : d[f] = choice[f]
      BY <2>1
    <2> QED BY <2>1, <2>2 DEF IsDocument, IsValues
  <1>2. CASE d = Missing
    BY <1>2 DEF IsDocument
  <1> QED BY <1>1, <1>2 DEF Documents

\* A document gives a form all its values, that is, one without edits.
LEMMA DefaultsAre == ASSUME NEW s, NEW d, IsDocument(s, d) PROVE IsValues(s, DefaultValues(s, d))
  <1>1. CASE d = Missing
    <2> DEFINE v == [f \in Edited[s] |-> SettingsForms[s][f].default]
    <2>1. DefaultValues(s, d) = v
      BY <1>1 DEF DefaultValues
    <2>2. \A f \in Edited[s] : v[f] = SettingsForms[s][f].default
      OBVIOUS
    <2>3. v = [f \in Edited[s] |-> v[f]]
      BY <2>2
    <2> HIDE DEF v
    <2> QED BY <2>1, <2>3 DEF IsValues
  <1>2. CASE d # Missing
    BY <1>2 DEF DefaultValues, IsDocument
  <1> QED BY <1>1, <1>2

\* A form that is mounted or reset has no edits.
LEMMA RenderedIs ==
  ASSUME NEW s, NEW d, d = Unknown \/ IsDocument(s, d)
  PROVE  RenderForm(s, d) = NoForm \/ IsForm(s, RenderForm(s, d))
  <1>1. CASE d = Unknown
    BY <1>1 DEF RenderForm
  <1>2. CASE d # Unknown
    <2>1. PICK v : v = DefaultValues(s, d)
      OBVIOUS
    <2>2. IsValues(s, v)
      BY <1>2, <2>1, DefaultsAre
    <2>3. RenderForm(s, d) = [draft |-> v, base |-> v, edited |-> {}]
      BY <1>2, <2>1 DEF RenderForm
    <2> QED BY <2>2, <2>3 DEF IsForm
  <1> QED BY <1>1, <1>2

\* A new baseline leaves the edits as they are.
LEMMA BaselineMoved ==
  ASSUME IsForm(scope, form), NEW values, IsValues(scope, values), NEW x \in NewBaseline(values)
  PROVE  /\ IsForm(scope, x)
         /\ \A f \in Edited[scope] : form.draft[f] # form.base[f] => x.draft[f] = form.draft[f]
  <1> DEFINE draft == [f \in DOMAIN values |-> IF f \in form.edited THEN form.draft[f] ELSE values[f]]
  <1>1. PICK e \in {form.edited, {f \in form.edited : draft[f] # values[f]}} :
          x = [draft |-> draft, base |-> values, edited |-> e]
    BY DEF NewBaseline
  <1>2. DOMAIN values = Edited[scope]
    BY DEF IsValues
  <1>3. \A f \in Edited[scope] : draft[f] = IF f \in form.edited THEN form.draft[f] ELSE values[f]
    BY <1>2
  <1>4. IsValues(scope, draft)
    BY <1>2, <1>3 DEF IsValues
  <1> HIDE DEF draft
  <1>5. x.draft = draft /\ x.base = values /\ x.edited = e
    BY <1>1
  <1>6. \A f \in Edited[scope] : draft[f] # values[f] => f \in e
    BY <1>1, <1>3
  <1>7. IsForm(scope, x)
    BY <1>1, <1>4, <1>5, <1>6 DEF IsForm
  <1> QED BY <1>3, <1>5, <1>7 DEF IsForm

\* The initial states satisfy the invariant.
LEMMA InitSettingsInv == SettingsInit => SettingsInv
  <1> SUFFICES ASSUME SettingsInit PROVE SettingsInv
    OBVIOUS
  <1>1. \A s \in Scopes : IsDocument(s, saved[s])
    BY DocumentsAre DEF SettingsInit
  <1>2. saved = [s \in Scopes |-> saved[s]]
    BY DEF SettingsInit
  <1>3. cached = [s \in Scopes |-> cached[s]] /\ \A s \in Scopes : cached[s] = Unknown
    BY DEF SettingsInit
  <1> QED BY <1>1, <1>2, <1>3 DEF SettingsInit, SettingsInv

\* Every step preserves the invariant.
LEMMA NextSettings ==
  ASSUME SettingsInv, SettingsNext
  PROVE  SettingsInv'
  <1>0. /\ scope \in Scopes /\ asking \in Scopes \cup {"none"}
        /\ saved = [s \in Scopes |-> saved[s]] /\ (\A s \in Scopes : IsDocument(s, saved[s]))
        /\ cached = [s \in Scopes |-> cached[s]]
        /\ \A s \in Scopes : cached[s] = Unknown \/ IsDocument(s, cached[s])
        /\ posted = NoSave \/ (posted.scope \in Scopes /\ IsValues(posted.scope, posted.doc))
        /\ form = NoForm \/ IsForm(scope, form)
    BY DEF SettingsInv
  \* Most steps change the form, or nothing but it and the scope.
  <1>1. ASSUME UNCHANGED <<saved, cached, posted>>, scope' \in Scopes, asking' \in Scopes \cup {"none"},
               form' = NoForm \/ IsForm(scope', form')
        PROVE  SettingsInv'
    BY <1>0, <1>1 DEF SettingsInv, IsDocument, IsValues
  <1>2. CASE Edit
    <2> DEFINE Becomes(f, v) ==
                 form' = [form EXCEPT !.draft[f] = v,
                                      !.edited = IF v = form.base[f] THEN form.edited \ {f} ELSE form.edited \cup {f}]
    <2>0. PICK f \in Edited[scope] : \E v : Becomes(f, v)
      BY <1>2 DEF Edit
    <2>1. PICK v : Becomes(f, v)
      BY <2>0
    <2>2. IsForm(scope, form)
      BY <1>0, <1>2 DEF Edit
    <2>3. form' = [draft |-> [form.draft EXCEPT ![f] = v], base |-> form.base,
                   edited |-> IF v = form.base[f] THEN form.edited \ {f} ELSE form.edited \cup {f}]
      BY <2>1, <2>2 DEF IsForm
    <2>4. form.draft = [g \in Edited[scope] |-> form.draft[g]]
      BY <2>2 DEF IsForm, IsValues
    <2>5. PICK draft : draft = [form.draft EXCEPT ![f] = v]
      OBVIOUS
    <2>6. draft = [g \in Edited[scope] |-> IF g = f THEN v ELSE form.draft[g]]
      BY <2>4, <2>5
    <2>7. draft[f] = v /\ \A g \in Edited[scope] \ {f} : draft[g] = form.draft[g]
      BY <2>6
    <2>8. IsValues(scope, draft)
      BY <2>6, <2>7 DEF IsValues
    <2>9. form'.draft = draft /\ form'.base = form.base
          /\ form'.edited = IF v = form.base[f] THEN form.edited \ {f} ELSE form.edited \cup {f}
      BY <2>3, <2>5
    <2>10. \A g \in Edited[scope] : draft[g] # form.base[g] => g \in form'.edited
      BY <2>2, <2>7, <2>9 DEF IsForm
    <2>11. IsForm(scope, form')
      BY <2>2, <2>3, <2>5, <2>8, <2>9, <2>10 DEF IsForm
    <2> QED BY <1>0, <1>1, <1>2, <2>11 DEF Edit
  <1>3. CASE Save
    <2>1. /\ UNCHANGED <<saved, cached, scope, form, asking>> /\ posted'.scope = scope
          /\ posted'.doc = form.draft /\ form.draft # form.base
      BY <1>3 DEF Save, IsDirty
    <2>2. form # NoForm
      BY <2>1 DEF NoForm
    <2>3. IsValues(scope, form.draft)
      BY <1>0, <2>2 DEF IsForm
    <2> QED BY <1>0, <2>1, <2>3 DEF SettingsInv, IsDocument, IsValues
  <1>4. CASE SettingsAnswered
    <2>1. /\ UNCHANGED <<cached, scope, form, asking>> /\ posted' = NoSave
          /\ posted.scope \in Scopes /\ IsValues(posted.scope, posted.doc)
          /\ saved' \in {saved, [saved EXCEPT ![posted.scope] = posted.doc]}
      BY <1>0, <1>4 DEF SettingsAnswered
    <2>2. saved' = [s \in Scopes |-> saved'[s]] /\ \A s \in Scopes : IsDocument(s, saved'[s])
      <3>1. CASE saved' = saved
        BY <1>0, <3>1
      <3>2. CASE saved' = [saved EXCEPT ![posted.scope] = posted.doc]
        <4>1. saved' = [s \in Scopes |-> IF s = posted.scope THEN posted.doc ELSE saved[s]]
          BY <1>0, <3>2
        <4> QED BY <1>0, <2>1, <4>1 DEF IsDocument
      <3> QED BY <2>1, <3>1, <3>2
    <2> QED BY <1>0, <2>1, <2>2 DEF SettingsInv
  <1>5. CASE OtherSaves
    <2>0. PICK s \in Scopes : \E d \in Documents(s) : saved' = [saved EXCEPT ![s] = d]
      BY <1>5 DEF OtherSaves
    <2>1. PICK d \in Documents(s) : saved' = [saved EXCEPT ![s] = d]
      BY <2>0
    <2>2. saved' = [t \in Scopes |-> IF t = s THEN d ELSE saved[t]]
      BY <1>0, <2>1
    <2>3. saved' = [t \in Scopes |-> saved'[t]] /\ \A t \in Scopes : IsDocument(t, saved'[t])
      BY <1>0, <2>1, <2>2, DocumentsAre
    <2>4. UNCHANGED <<cached, scope, form, asking, posted>>
      BY <1>5 DEF OtherSaves
    <2> QED BY <1>0, <2>3, <2>4 DEF SettingsInv
  <1>6. CASE Fetched
    <2>1. cached' = [s \in Scopes |-> IF s = scope THEN saved[scope] ELSE cached[s]]
      BY <1>0, <1>6 DEF Fetched
    <2>2. /\ cached' = [s \in Scopes |-> cached'[s]]
          /\ \A s \in Scopes : cached'[s] = Unknown \/ IsDocument(s, cached'[s])
      BY <1>0, <2>1
    <2>3. form' = NoForm \/ IsForm(scope, form')
      <3>1. IsDocument(scope, saved[scope])
        BY <1>0
      <3>2. CASE form' = RenderForm(scope, saved[scope])
        BY <3>1, <3>2, RenderedIs
      <3>3. CASE form' = form
        BY <1>0, <3>3
      <3>4. CASE form # NoForm /\ form' \in NewBaseline(DefaultValues(scope, saved[scope]))
        BY <1>0, <3>1, <3>4, BaselineMoved, DefaultsAre
      <3> QED BY <1>6, <3>2, <3>3, <3>4 DEF Fetched
    <2>4. UNCHANGED <<saved, scope, asking, posted>>
      BY <1>6 DEF Fetched
    <2> QED BY <1>0, <2>2, <2>3, <2>4 DEF SettingsInv
  <1>7. ASSUME NEW s \in Scopes, Switched(s), UNCHANGED <<saved, cached, posted>>,
               asking' \in Scopes \cup {"none"}
        PROVE  SettingsInv'
    <2>1. form' = NoForm \/ IsForm(s, form')
      BY <1>0, <1>7, RenderedIs DEF Switched
    <2> QED BY <1>1, <1>7, <2>1 DEF Switched
  <1>8. CASE HandleScopeChange
    <2>1. PICK s \in Scopes :
            \/ asking' = s /\ UNCHANGED <<scope, form>>
            \/ Switched(s) /\ UNCHANGED asking
      BY <1>8 DEF HandleScopeChange
    <2>2. UNCHANGED <<saved, cached, posted>>
      BY <1>8 DEF HandleScopeChange
    <2>3. CASE asking' = s /\ UNCHANGED <<scope, form>>
      BY <1>0, <1>1, <2>2, <2>3
    <2>4. CASE Switched(s) /\ UNCHANGED asking
      BY <1>0, <1>7, <2>2, <2>4
    <2> QED BY <2>1, <2>3, <2>4
  <1>9. CASE HandleDiscardAndSwitch
    BY <1>0, <1>7, <1>9 DEF HandleDiscardAndSwitch
  <1>10. CASE KeepEditing
    BY <1>0, <1>1, <1>10 DEF KeepEditing
  <1>11. CASE Discard
    <2>1. form' = NoForm \/ IsForm(scope, form')
      BY <1>0, <1>11, RenderedIs DEF Discard
    <2> QED BY <1>0, <1>1, <1>11, <2>1 DEF Discard
  <1> QED BY <1>2, <1>3, <1>4, <1>5, <1>6, <1>8, <1>9, <1>10, <1>11 DEF SettingsNext

\* So does a step of something else.
LEMMA StutterSettings == SettingsInv /\ UNCHANGED settingsVars => SettingsInv'
  BY DEF settingsVars, SettingsInv, IsDocument, IsValues, IsForm

\* The edits that differ from the baseline outlive all that happens meanwhile:
\* a save, its answer, a refetch, another administrator and another scope asked for.
LEMMA EditsKept ==
  ASSUME SettingsInv, SettingsNext, IsDirty, ~Edit, ~Discard, ~HandleDiscardAndSwitch
  PROVE  /\ scope' = scope
         /\ \A f \in DOMAIN form.draft :
              form.draft[f] # form.base[f] => form'.draft[f] = form.draft[f]
  <1>1. form # NoForm
    BY DEF IsDirty, NoForm
  <1>2. IsForm(scope, form) /\ DOMAIN form.draft = Edited[scope]
    BY <1>1 DEF SettingsInv, IsForm, IsValues
  <1>3. CASE UNCHANGED <<scope, form>>
    BY <1>3
  <1>4. CASE Fetched
    <2>1. CASE form' = form
      BY <1>4, <2>1 DEF Fetched
    <2>2. CASE form' \in NewBaseline(DefaultValues(scope, saved[scope]))
      <3>1. IsValues(scope, DefaultValues(scope, saved[scope]))
        BY DefaultsAre DEF SettingsInv
      <3> QED BY <1>2, <1>4, <2>2, <3>1, BaselineMoved DEF Fetched
    <2> QED BY <1>1, <1>4, <2>1, <2>2 DEF Fetched
  <1>5. CASE Save \/ SettingsAnswered \/ OtherSaves \/ KeepEditing
    BY <1>3, <1>5 DEF Save, SettingsAnswered, OtherSaves, KeepEditing
  <1>6. CASE HandleScopeChange
    BY <1>3, <1>6 DEF HandleScopeChange
  <1> QED BY <1>4, <1>5, <1>6 DEF SettingsNext

\* An edit is lost only when it is edited again or discarded, and the page
\* leaves a scope only when nothing is unsaved or after asking.
THEOREM EditsAreKept == SettingsSpec => DraftKept
  <1>1. SettingsInv /\ [SettingsNext]_settingsVars => SettingsInv'
    BY NextSettings, StutterSettings
  <1>2. SettingsInv /\ [SettingsNext]_settingsVars =>
          [IsDirty =>
             \/ Edit \/ Discard \/ HandleDiscardAndSwitch
             \/ /\ scope' = scope
                /\ \A f \in DOMAIN form.draft :
                     form.draft[f] # form.base[f] => form'.draft[f] = form.draft[f]]_settingsVars
    BY EditsKept
  <1> QED BY <1>1, <1>2, InitSettingsInv, PTL DEF SettingsSpec, DraftKept
===============================================================================
