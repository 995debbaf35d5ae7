\* The constants of EDB.cfg, one set-up.
CONSTANTS
  Keywords = {k1, k2, k3}
  Ids = {d1, d2, d3}
  k1 = k1
  k2 = k2
  k3 = k3
  d1 = d1
  d2 = d2
  d3 = d3
  Nil = Nil
  Junk = Junk
  Databases <- MCDatabases
  Queries <- MCQueries
  BloomIdx <- MCBloomIdx
  N_threads = 2
  N_max_ids = 3
  CounterSpan = 2
  N_bits = 9
  MaxSetUps = 1
SPECIFICATION Spec
INVARIANT SingleKeyword
CHECK_DEADLOCK FALSE
