CONSTANTS
  a = a
  b = b
  c = c
  p = p
  q = q
  ghost = ghost
  Unknown = ghost
  Streams <- MCStreams
  Providers <- MCProviders
  Graphs <- MCGraphs
  Limits <- MCLimits
  Strategies <- MCStrategies
  MaxWave = 4
SPECIFICATION FairSpec
INVARIANTS UpstreamsLanded SlotsUsed
PROPERTIES CommandReturns
\* a graph with a cycle is raised to the bound and stays there
CHECK_DEADLOCK FALSE
