------------------------- MODULE ConjunctiveSearch -------------------------
(***************************************************************************)
(* What one conjunctive search answers, as a function of the plain data:   *)
(* the promise of EDB_Search that the programs around it build on.  EDB    *)
(* shows that the scheme keeps it, SearchProgram uses it for a whole call. *)
(***************************************************************************)
EXTENDS Integers, Sequences

(* The ids of a row.                                                       *)
RowIds(row) == {row[p] : p \in DOMAIN row}

(* The answer to keywords ws: the ids of the first keyword's row whose tags*)
(* with the other keywords are in the filter.  A search for one keyword    *)
(* finds the first id of its row only: the pointer into the row advances   *)
(* only where there are cross keywords to test.                            *)
Found(db, tags, ws) ==
  IF Len(ws) = 1
  THEN {db[ws[1]][1]}
  ELSE {d \in RowIds(db[ws[1]]) : \A q \in 2..Len(ws) : <<ws[q], d>> \in tags}

(* The maximal runs of equal elements, as pairs of first and last position.*)
Runs(bins) ==
  {r \in (1..Len(bins)) \X (1..Len(bins)) :
     /\ r[1] <= r[2]
     /\ \A p \in r[1]..r[2] : bins[p] = bins[r[1]]
     /\ r[1] # 1 => bins[r[1]-1] # bins[r[1]]
     /\ r[2] # Len(bins) => bins[r[2]+1] # bins[r[1]]}

(* A vector lists the meta-keywords of a disjunction (tv) with their bin   *)
(* indices (bv).  The disjunctive program searches the runs of equal index,*)
(* but not a last one of length 1, and unites the answers in a line.       *)
Bin(v) == [p \in DOMAIN v |-> v[p].bv]

(* Mutant of Searched: the last run is dropped whatever its length.        *)
SearchedBeforeLast(v) == {r \in Runs(Bin(v)) : r[2] # Len(v)}

Searched(v) == Runs(Bin(v)) \ {<<Len(v), Len(v)>>}

Part(v, r) == [p \in 1..(r[2] - r[1] + 1) |-> v[r[1] + p - 1].tv]

LineOf(db, tags, v) == UNION {Found(db, tags, Part(v, r)) : r \in Searched(v)}
=============================================================================
