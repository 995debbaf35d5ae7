\* Words of two slots, so that a row of three leaves a padded one; a counter
\* that wraps within such a row.
CONSTANTS
  Keywords = {k1, k2, k3}
  Ids = {d1, d2, d3}
  k1 = k1
  k2 = k2
  k3 = k3
  d1 = d1
  d2 = d2
  d3 = d3
  Nil = Nil
  Junk = Junk
  Databases <- MCDatabases
  Queries <- MCQueries
  BloomIdx <- MCBloomIdx
  N_threads = 2
  N_max_ids = 3
  CounterSpan = 2
  N_bits = 9
  MaxSetUps = 2
SPECIFICATION Spec
INVARIANTS TypeOK SearchExact SearchPromised AnswerStored IInv
CHECK_DEADLOCK FALSE
