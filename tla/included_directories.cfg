SPECIFICATION Spec
CONSTANTS
  i = i
  j = j
  Session = {i, j}
  Sources <- CircleOnly
  Inside <- PartOf
  None = None
  Malformed = Malformed
  NoTable = NoTable
  Old <- Olds
  Metadata <- MetadataTypes
  MetaIndexed = {"metadata_creator"}
  MaxCalls = 2
  MayCrash = TRUE
  MayFail = TRUE
INVARIANT IncludedDirectoriesAreRead
CHECK_DEADLOCK FALSE
SYMMETRY Alike
