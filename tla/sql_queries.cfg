\* Three queries and as many jobs as they can need.
CONSTANTS
  q1 = q1
  q2 = q2
  q3 = q3
  j1 = j1
  j2 = j2
  j3 = j3
  NoQuery = NoQuery
  NoJob = NoJob
  Query <- ThreeQueries
  Job <- ThreeJobs
SPECIFICATION FairSpec
INVARIANTS TypeOK OnePlace OwnResult
PROPERTIES KeepsPromise EachAnswered
