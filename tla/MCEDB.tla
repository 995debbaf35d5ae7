------------------------------- MODULE MCEDB -------------------------------
(* Three keywords and three ids for TLC: rows of one to three ids, and two *)
(* hash functions that both confuse one pair with others.                  *)
EXTENDS EDB, TLC

CONSTANTS k1, k2, k3, d1, d2, d3

MCDatabases ==
  {(k1 :> r @@ k2 :> s) :
     r \in {<<d1>>, <<d2, d1>>, <<d1, d2, d3>>}, s \in {<<d2>>, <<d1, d2>>, <<d3, d1>>}}
  \cup {(k1 :> <<d3, d1>> @@ k2 :> <<d1, d2, d3>> @@ k3 :> <<d1>>)}

MCQueries == {<<k1>>, <<k1, k2>>, <<k2, k1>>, <<k1, k3, k2>>}

(* Each hash function gives the pair of k2 and d2 the position of another  *)
(* pair: it is found in a filter that holds both of those.                 *)
MCBloomIdx ==
  LET kws == <<k1, k2, k3>>
      ids == <<d1, d2, d3>>
      pos(t) == CHOOSE x \in 0..8 : t = <<kws[x \div 3 + 1], ids[(x % 3) + 1]>>
  IN [h \in 0..1 |-> [t \in {k1, k2, k3} \X {d1, d2, d3} |->
        IF t = <<k2, d2>> THEN pos(<<k1, IF h = 0 THEN d1 ELSE d2>>) ELSE pos(t)]]

=============================================================================
