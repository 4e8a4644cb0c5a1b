\* A Pending published after the outcome of its task.
SPECIFICATION LiveSpec
CONSTANTS
  MaxLosses = 2
  MaxCommits = 1
  MaxRevokes = 0
INVARIANTS
  OutcomeShown
CHECK_DEADLOCK FALSE
