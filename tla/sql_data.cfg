\* The data array that a handler is given.
CONSTANTS
  q1 = q1
  q2 = q2
  q3 = q3
  j1 = j1
  j2 = j2
  j3 = j3
  NoQuery = NoQuery
  NoJob = NoJob
  Query <- TwoQueries
  Job <- TwoJobs
SPECIFICATION Spec
INVARIANT OwnData
