\* Two calls in flight, which are also the downloads that can race for the file's
\* cache path; two of: a setUpDrive call, moves, a deletion.
SPECIFICATION ViewSpec
SYMMETRY CallSymmetry
CONSTANTS
  ra = ra
  rb = rb
  a = a
  f = f
  Ids = {ra, rb, a, f}
  NoId = NoId
  Roots = {ra, rb}
  Folders = {ra, rb, a}
  Trees <- SomeTrees
  Calls = {c1, c2}
  Publishers = {c1, c2}
  Paths = {f}
  Nobody = Nobody
  MaxGen = 1
  MaxMoves = 2
  MaxDeletes = 1
  MaxChanges = 2
INVARIANTS ScopeIsReachability DownloadsStayInScope SuccessMeansPublished RowsAreUsable
