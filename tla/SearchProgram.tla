--------------------------- MODULE SearchProgram ---------------------------
(***************************************************************************)
(* The main functions of the four sse_search programs, which call          *)
(* EDB_Search and write a line of result ids per query.                    *)
(*                                                                         *)
(*   disjunctive  reads a file of test vectors.  A vector lists the meta-  *)
(*                keywords of a disjunction with their bin indices; those  *)
(*                of one bin are searched together, the bins are united.   *)
(*   cnf          the same for the clauses of a formula, intersected.      *)
(*   conjunctive  draws n_q_kw keywords at random, n_iterations times.     *)
(*   dnf          the same for the clauses of a formula, united.           *)
(*                                                                         *)
(* A call of EDB_Search is one step that yields Found.  Times, and the     *)
(* counts derived from the results, are left out.                          *)
(***************************************************************************)
EXTENDS ConjunctiveSearch, FiniteSets

CONSTANTS Keywords, Ids,
          db,            (* the encrypted database: a row for each keyword *)
          tags,          (* cross tags in the Bloom filter                 *)
          Programs,      (* the programs considered                        *)
          Files,         (* files of test vectors                          *)
          n_q_kw,        (* keywords drawn for a query                     *)
          n_iterations,  (* queries drawn                                  *)
          NUM_CLAUSE,    (* clauses of a formula                           *)
          UIntSpan       (* values of unsigned int, 2^32                   *)

VectorPrograms == {"disjunctive", "cnf"}
DrawPrograms   == {"conjunctive", "dnf"}

ASSUME SizesAssumption ==
  /\ Programs \subseteq VectorPrograms \cup DrawPrograms
  /\ n_q_kw \in Nat \ {0} /\ n_iterations \in Nat
  /\ NUM_CLAUSE \in Nat \ {0}
  /\ "cnf" \in Programs => NUM_CLAUSE = 2  (* it reads lines 2*i+n_clause *)
  /\ UIntSpan \in Nat \ {0, 1}

ASSUME DatabaseAssumption ==
  /\ DOMAIN db = Keywords
  /\ \A k \in Keywords : db[k] \in Seq(Ids) /\ db[k] # <<>>

(* Meta-keywords (row_tv_data) with their bins (row_bv_data).              *)
Vectors == Seq([tv : Keywords, bv : Nat])

(* The number of vectors in a file is an unsigned int.                     *)
ASSUME FilesAssumption ==
  \A f \in Files : f \in Seq(Vectors) /\ Len(f) < UIntSpan

VARIABLES
  program, file,      (* which program runs, and on which file             *)
  pc,
  i, n_clause,        (* loop counters: lines, clauses of a line           *)
  vec, j,             (* current vector and position in it, from 1         *)
  mkws,               (* meta-keywords collected since the last search     *)
  row_vec,            (* keywords of the latest search                     *)
  result_union,       (* ids of the vector so far                          *)
  result_final,       (* ids of the formula so far                         *)
  clauses,            (* queries of the line that is being written         *)
  res_id, res_query   (* lines of the output files                         *)

scanVars == <<vec, j, mkws, row_vec, result_union>>
outVars  == <<result_final, clauses, res_id, res_query>>
vars == <<program, file, pc, i, n_clause, scanVars, outVars>>

Init ==
  /\ program \in Programs
  /\ IF program \in VectorPrograms THEN file \in Files ELSE file = <<>>
  /\ pc = "line"
  /\ i = 0 /\ n_clause = 0
  /\ vec = <<>> /\ j = 1 /\ mkws = <<>> /\ row_vec = <<>>
  /\ result_union = {} /\ result_final = {} /\ clauses = <<>>
  /\ res_id = <<>> /\ res_query = <<>>

Formulas == {"cnf", "dnf"}
Clauses  == IF program \in Formulas THEN NUM_CLAUSE ELSE 1

(* Mutant of LoopBound: a line for every vector, or for every two.         *)
LoopBoundWhole ==
  CASE program \in DrawPrograms -> n_iterations
    [] program = "disjunctive"  -> Len(file)
    [] OTHER                    -> Len(file) \div 2

(* i < n_testvectors/2-1 is computed without a sign.                       *)
LoopBound ==
  CASE program \in DrawPrograms -> n_iterations
    [] program = "disjunctive"  -> Len(file)
    [] OTHER                    -> (Len(file) \div 2 - 1) % UIntSpan

-----------------------------------------------------------------------------
(* disjunctive and cnf                                                     *)

RowIndex == IF program = "cnf" THEN 2 * i + n_clause ELSE i

Loading ==
  /\ pc = "line" /\ program \in VectorPrograms
  /\ i < LoopBound /\ n_clause < Clauses

(* Mutant of LoadVector: the loop over the vector goes on where it was.    *)
LoadVectorStay ==
  /\ Loading /\ RowIndex < Len(file)
  /\ vec' = file[RowIndex + 1]
  /\ mkws' = <<>> /\ result_union' = {}
  /\ pc' = "scan"
  /\ UNCHANGED <<program, file, i, n_clause, j, row_vec, outVars>>

(* Mutant of LoadVector: result_union is not cleared.                      *)
LoadVectorKeep ==
  /\ Loading /\ RowIndex < Len(file)
  /\ vec' = file[RowIndex + 1]
  /\ j' = 1 /\ mkws' = <<>>
  /\ pc' = "scan"
  /\ UNCHANGED <<program, file, i, n_clause, row_vec, result_union, outVars>>

(* A vector of the file is loaded.                                          *)
LoadVector ==
  /\ Loading /\ RowIndex < Len(file)
  /\ vec' = file[RowIndex + 1]
  /\ j' = 1 /\ mkws' = <<>> /\ result_union' = {}
  /\ pc' = "scan"
  /\ UNCHANGED <<program, file, i, n_clause, row_vec, outVars>>

(* raw_tv_data.at throws where there is no vector.                         *)
LoadThrows ==
  /\ Loading /\ RowIndex >= Len(file)
  /\ pc' = "thrown"
  /\ UNCHANGED <<program, file, i, n_clause, scanVars, outVars>>

(* The meta-keyword at j has a neighbour in its bin.                       *)
SameAsNext     == vec[j].bv = vec[j+1].bv
SameAsPrevious == vec[j-1].bv = vec[j].bv

Push ==
  /\ pc = "scan" /\ j < Len(vec) /\ SameAsNext
  /\ mkws' = Append(mkws, vec[j].tv)
  /\ j' = j + 1
  /\ UNCHANGED <<program, file, pc, i, n_clause, vec, row_vec, result_union,
                 outVars>>

(* Mutant of Search: only the results for the latest bin remain.           *)
SearchReplace(ws) ==
  /\ row_vec' = ws
  /\ result_union' = Found(db, tags, ws)
  /\ mkws' = <<>>
  /\ j' = j + 1
  /\ UNCHANGED <<program, file, pc, i, n_clause, vec, outVars>>

(* A search for ws, united with the results for the bins before.           *)
Search(ws) ==
  /\ row_vec' = ws
  /\ result_union' = result_union \cup Found(db, tags, ws)
  /\ mkws' = <<>>
  /\ j' = j + 1
  /\ UNCHANGED <<program, file, pc, i, n_clause, vec, outVars>>

SearchBin ==
  /\ pc = "scan" /\ j < Len(vec) /\ ~ SameAsNext
  /\ Search(Append(mkws, vec[j].tv))

SearchLastBin ==
  /\ pc = "scan" /\ j = Len(vec) /\ j > 1 /\ SameAsPrevious
  /\ Search(Append(mkws, vec[j].tv))

(* The last meta-keyword is alone in its bin.  It is printed, but what is  *)
(* searched is row_vec as the search before has left it.                   *)
SearchAgain ==
  /\ pc = "scan" /\ j = Len(vec) /\ j > 1 /\ ~ SameAsPrevious
  /\ Search(row_vec \o mkws)

(* The only meta-keyword of a vector: row_bv_data.at(j-1) throws.          *)
ScanThrows ==
  /\ pc = "scan" /\ j = Len(vec) /\ j = 1
  /\ pc' = "thrown"
  /\ UNCHANGED <<program, file, i, n_clause, scanVars, outVars>>

WriteVector ==
  /\ pc = "scan" /\ j = Len(vec) + 1 /\ program = "disjunctive"
  /\ res_id' = Append(res_id, result_union)
  /\ i' = i + 1
  /\ pc' = "line"
  /\ UNCHANGED <<program, file, n_clause, scanVars, result_final, clauses,
                 res_query>>

(* Mutant of Intersections: the first clause is taken as it is.            *)
IntersectionsSeeded(a, b) == IF b = {} THEN {a} ELSE {a \cap b}

(* set_intersection of a sorted range with one in any order finds some of  *)
(* the common elements, and all of them if the second has at most one.     *)
Intersections(a, b) ==
  IF Cardinality(b) <= 1 THEN {a \cap b} ELSE SUBSET (a \cap b)

CombineClause ==
  /\ pc = "scan" /\ j = Len(vec) + 1 /\ program = "cnf"
  /\ result_final' \in Intersections(result_union, result_final)
  /\ n_clause' = n_clause + 1
  /\ pc' = "line"
  /\ UNCHANGED <<program, file, i, scanVars, clauses, res_id, res_query>>

-----------------------------------------------------------------------------
(* conjunctive and dnf: a query is drawn                                   *)

Draws == [1..n_q_kw -> Keywords]

(* kw_frequency, as db_util.py counts it.                                  *)
Frequency(k) == Len(db[k])

(* The keywords of draw d by frequency; freq_map keeps the latest keyword  *)
(* of a frequency.                                                         *)
Ordered(d, q) ==
  /\ \A p \in 1..Len(q)-1 : Frequency(q[p]) < Frequency(q[p+1])
  /\ RowIds(q) = {d[p] : p \in {r \in 1..n_q_kw :
                            \A s \in r+1..n_q_kw :
                              Frequency(d[s]) # Frequency(d[r])}}

Queries == UNION {[1..m -> Keywords] : m \in 1..n_q_kw}

Drawing ==
  /\ pc = "line" /\ program \in DrawPrograms
  /\ i < LoopBound /\ n_clause < Clauses

SearchClause(q) ==
  /\ Drawing
  /\ Len(q) = n_q_kw /\ \E d \in Draws : Ordered(d, q)
  /\ row_vec' = q
  /\ result_final' = result_final \cup Found(db, tags, q)
  /\ clauses' = Append(clauses, q)
  /\ n_clause' = n_clause + 1
  /\ UNCHANGED <<program, file, pc, i, vec, j, mkws, result_union, res_id,
                 res_query>>

(* Too few frequencies: conjunctive goes on with the next query, dnf with  *)
(* the next clause of the formula.                                         *)
SkipClause(q) ==
  /\ Drawing
  /\ Len(q) < n_q_kw /\ \E d \in Draws : Ordered(d, q)
  /\ IF program = "dnf"
     THEN n_clause' = n_clause + 1 /\ UNCHANGED i
     ELSE i' = i + 1 /\ UNCHANGED n_clause
  /\ UNCHANGED <<program, file, pc, scanVars, outVars>>

-----------------------------------------------------------------------------
(* Mutant of WriteLine: the result is kept for the next line.              *)
WriteLineKeep ==
  /\ pc = "line" /\ i < LoopBound
  /\ program # "disjunctive" /\ n_clause = Clauses
  /\ res_id' = Append(res_id, result_final)
  /\ res_query' = IF program = "cnf" THEN res_query
                  ELSE Append(res_query, clauses)
  /\ clauses' = <<>>
  /\ i' = i + 1 /\ n_clause' = 0
  /\ UNCHANGED <<program, file, pc, scanVars, result_final>>

(* The result of a formula, or of a conjunction.                           *)
WriteLine ==
  /\ pc = "line" /\ i < LoopBound
  /\ program # "disjunctive" /\ n_clause = Clauses
  /\ res_id' = Append(res_id, result_final)
  /\ res_query' = IF program = "cnf" THEN res_query
                  ELSE Append(res_query, clauses)
  /\ result_final' = {} /\ clauses' = <<>>
  /\ i' = i + 1 /\ n_clause' = 0
  /\ UNCHANGED <<program, file, pc, scanVars>>

Finish ==
  /\ pc = "line" /\ i >= LoopBound
  /\ pc' = "done"
  /\ UNCHANGED <<program, file, i, n_clause, scanVars, outVars>>

Terminated ==
  /\ pc \in {"done", "thrown"}
  /\ UNCHANGED vars

Next ==
  \/ LoadVector \/ LoadThrows
  \/ Push \/ SearchBin \/ SearchLastBin \/ SearchAgain \/ ScanThrows
  \/ WriteVector \/ CombineClause
  \/ \E q \in Queries : SearchClause(q) \/ SkipClause(q)
  \/ WriteLine \/ Finish
  \/ Terminated

Spec == Init /\ [][Next]_vars

-----------------------------------------------------------------------------
(* Properties                                                              *)

(* The union over some runs of the search for the run's meta-keywords.     *)
AnswerOf(v, R) == UNION {Found(db, tags, Part(v, r)) : r \in R}

TypeOK ==
  /\ program \in Programs /\ file \in Files \cup {<<>>}
  /\ pc \in {"line", "scan", "done", "thrown"}
  /\ i \in Nat /\ n_clause \in 0..Clauses
  /\ vec \in Vectors /\ j \in 1..Len(vec)+1
  /\ mkws \in Seq(Keywords) /\ row_vec \in Seq(Keywords)
  /\ result_union \subseteq Ids /\ result_final \subseteq Ids
  /\ clauses \in Seq(Seq(Keywords))
  /\ res_id \in Seq(SUBSET Ids)
  /\ res_query \in Seq(Seq(Seq(Keywords)))

(* A line of the disjunctive program is the union, over the bins of its    *)
(* vector, of the search for the bin's meta-keywords, a last bin of one    *)
(* meta-keyword left out; the cnf program writes only empty lines.  Neither*)
(* the order of bins nor what an earlier vector left behind matters.       *)
LinesExact ==
  \A l \in 1..Len(res_id) :
    /\ program = "disjunctive" =>
         res_id[l] = LineOf(db, tags, file[l])
    /\ program = "cnf" => res_id[l] = {}

(* A clause that has been scanned, of either program, has the answer of its*)
(* vector: cnf loses it only by the intersection.                          *)
ClauseExact ==
  pc = "scan" /\ j = Len(vec) + 1 => result_union = LineOf(db, tags, vec)

(* The lines of res_id and res_query belong together: the ids of a line are*)
(* the union of the searches for the queries beside it, each of n_q_kw     *)
(* keywords in strictly ascending frequency, and one for conjunctive.      *)
LinesMatchQueries ==
  program \in DrawPrograms =>
    /\ Len(res_query) = Len(res_id)
    /\ \A l \in 1..Len(res_id) :
         /\ res_id[l] = UNION {Found(db, tags, q) : q \in RowIds(res_query[l])}
         /\ program = "conjunctive" => Len(res_query[l]) = 1
         /\ \A q \in RowIds(res_query[l]) :
              /\ Len(q) = n_q_kw
              /\ \A p \in 1..Len(q)-1 : Frequency(q[p]) < Frequency(q[p+1])

(* A program that reads vectors writes a line for each vector, cnf for each*)
(* pair but the last, and ends early only at a vector of one meta-keyword, *)
(* or in cnf at a file of fewer than two vectors.                          *)
EndsWhere ==
  program \in VectorPrograms =>
    /\ Len(res_id) = i
    /\ pc = "done" =>
         /\ i = IF program = "cnf" THEN Len(file) \div 2 - 1 ELSE Len(file)
         /\ \A l \in 1..(IF program = "cnf" THEN 2 * i ELSE i) :
              Len(file[l]) # 1
    /\ pc = "thrown" =>
         \/ /\ RowIndex < Len(file)
            /\ Len(file[RowIndex + 1]) = 1
            /\ \A l \in 1..RowIndex : Len(file[l]) # 1
         \/ program = "cnf" /\ Len(file) < 2

-----------------------------------------------------------------------------
(* The inductive invariant                                                 *)

(* A run reaches over the position before j if j has the same bin.  Then   *)
(* mkws holds its part before j, otherwise nothing.                        *)
Collected ==
  IF 1 < j /\ j <= Len(vec) /\ vec[j-1].bv = vec[j].bv
  THEN \E a \in 1..j-1 :
         /\ \A p \in a..j : vec[p].bv = vec[a].bv
         /\ a # 1 => vec[a-1].bv # vec[a].bv
         /\ mkws = Part(vec, <<a, j-1>>)
  ELSE mkws = <<>>

(* The runs that end before j have been searched, and if j starts another, *)
(* row_vec is the latest search.                                           *)
Scanning ==
  pc = "scan" =>
    /\ program \in VectorPrograms /\ i < LoopBound /\ n_clause < Clauses
    /\ RowIndex < Len(file) /\ vec = file[RowIndex + 1]
    /\ j > 1 => Len(vec) # 1
    /\ Collected
    /\ result_union = AnswerOf(vec, {r \in Searched(vec) : r[2] < j})
    /\ (1 < j /\ j <= Len(vec) /\ mkws = <<>>) =>
         row_vec # <<>> /\ Found(db, tags, row_vec) \subseteq result_union

(* Nothing is carried from one line to the next.                           *)
Lines ==
  /\ program \in DrawPrograms =>
       /\ result_final = UNION {Found(db, tags, q) : q \in RowIds(clauses)}
       /\ \A q \in RowIds(clauses) :
            /\ Len(q) = n_q_kw
            /\ \A p \in 1..Len(q)-1 : Frequency(q[p]) < Frequency(q[p+1])
       /\ program = "conjunctive" => Len(clauses) = n_clause
  /\ program \in VectorPrograms => result_final = {}
  /\ program = "disjunctive" => n_clause = 0

(* How far the file has been read.                                         *)
FileRead ==
  program \in VectorPrograms =>
    /\ file \in Files
    /\ i = 0 \/ i <= IF program = "cnf" THEN Len(file) \div 2 - 1 ELSE Len(file)
    /\ program = "cnf" /\ Len(file) < 2 => i = 0 /\ n_clause <= Len(file)
    /\ \A l \in 1..RowIndex : Len(file[l]) # 1

IInv ==
  /\ TypeOK /\ Scanning /\ Lines /\ FileRead
  /\ LinesExact /\ ClauseExact /\ LinesMatchQueries /\ EndsWhere

-----------------------------------------------------------------------------
(* What the programs promise and do not do                                 *)

(* What the disjunctive program promises: every meta-keyword of a vector is*)
(* searched with those of its bin.                                         *)
EveryMkwSearched ==
  program = "disjunctive" =>
    \A l \in 1..Len(res_id) :
      AnswerOf(file[l], Runs(Bin(file[l]))) \subseteq res_id[l]

(* What the cnf program promises: a line holds the ids common to its two   *)
(* clauses.                                                                *)
FormulaAnswered ==
  program = "cnf" =>
    \A l \in 1..Len(res_id) :
      LET Clause(c) == LineOf(db, tags, file[2*l-2+c])
      IN Clause(1) \cap Clause(2) \subseteq res_id[l]
=============================================================================
