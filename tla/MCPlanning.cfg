\* Every depends_on of up to two entries over three units and one ID that is none, all or unit 2;
\* three writers of a document and one edit; one unit of a feature has no specification, one
\* specification no unit; an archive of one file and two directories.
SPECIFICATION AllSpec
CONSTANTS
  Units = {1, 2, 3}
  Others = {4}
  Targets = {0, 2}
  MaxDeps = 2
  Writers = {w1, w2, w3}
  Original = Original
  Trees <- MCTrees
  MaxEdits = 1
  MaxIterations = 2
  PushRetries = 1
  MaxTriggers = 2
  FeatureSpecs = {"a", "b"}
  FeatureUnits = {"a", "c"}
  ArchiveSpecs = {"spec"}
  ArchiveUnits = {"u", "v"}
SYMMETRY Alike
INVARIANTS
  VerdictIsRight
  OrderIsTopological
  StateIsTrue
  WorkFromRemote
  ValidationIsRight
  UpdatesAreKept
  ArchiveIsPublished
CHECK_DEADLOCK FALSE
