SPECIFICATION LegacySpec
CONSTANTS
  Kinds = {"article", "topic", "event", "page", "style", "snippetdir"}
  Dirs = 3
  Leaves = 1
  MaxDir = 6
  MaxLeaf = 3
  MaxJobs = 1
  MaxChanges = 1
  MaxRefused = 2
  Unused = Unused
  Gone = Gone
  NoJob = NoJob
INVARIANTS CopyIsFaithful CopyStaysApart SuccessIsComplete
CHECK_DEADLOCK FALSE
