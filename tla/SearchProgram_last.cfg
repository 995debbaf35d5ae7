CONSTANTS
  k1 = k1  k2 = k2  k3 = k3  k4 = k4
  d1 = d1  d2 = d2  d3 = d3
  Keywords <- MCKeywords
  Ids <- MCIds
  db <- MCdb
  tags <- MCtags
  Programs = {"disjunctive"}
  Files <- MCFiles
  n_q_kw = 2
  n_iterations = 2
  NUM_CLAUSE = 2
  UIntSpan = 8
SPECIFICATION Spec
INVARIANTS EveryMkwSearched
