\* Five pages, five records, two linkers, bases and roles, two reviewers.
SPECIFICATION Spec
CONSTANTS
  Catalog <- MCCatalog
  Facets <- MCFacets
  FacetValues <- MCFacetValues
  PageSizes = {2, 3}
  DefaultPageSize = 2
  MaxFilters = 1
  Linkers = {"l1", "l2"}
  Bases = {"b1", "b2"}
  Validators = {"v1"}
  MaxPosts = 2
  MaxChanges = 1
  FixedTags = {1}
  VariableTags = {2, 3}
  MaxFields = 2
  MaxResults = 2
  Roles = {"r1", "r2"}
  Ticked <- MCTicked
  MaxSaves = 1
  Edited <- MCEdited
  Offered = {"b1"}
  Gone = {"b2"}
  MaxOtherSaves = 1
  Reviewed = {"r1", "r2"}
  Comparators = {"c"}
  Checkers = {"k"}
  Reviewers = {"u1", "u2"}
  Managers = {"u2"}
  Contested <- MCContested
  Me = "u1"
  Calls = {"q1", "q2"}
  MaxRequests = 3
  MaxTasks = 1
  MaxLost = 1
INVARIANTS
  FilterShown
  PostedFits
  ResultsShownOnce
  RoleClosed
  CurrentIsUnique
  AnalyticsFollow
  OwnSeen
PROPERTIES
  MovesByOne
  DraftKept
CHECK_DEADLOCK FALSE
