------------------------ MODULE SearchProgramProofs ------------------------
(***************************************************************************)
(* Proofs about SearchProgram, for every database, filter and file.        *)
(***************************************************************************)
EXTENDS SearchProgram, SequenceTheorems, FiniteSetTheorems, TLAPS

(* A function on 1..n is a sequence.                                       *)
LEMMA SeqOf ==
  ASSUME NEW S, NEW m \in Nat, NEW f \in [1..m -> S]
  PROVE  f \in Seq(S) /\ Len(f) = m
<1>1. f \in Seq(S)
  BY SeqDef
<1>2. DOMAIN f = 1..m
  OBVIOUS
<1>3. Len(f) \in Nat /\ DOMAIN f = 1..Len(f)
  BY <1>1, LenProperties
<1> QED  BY <1>1, <1>2, <1>3

-----------------------------------------------------------------------------
(* Runs and parts of a vector                                              *)

(* The type of a vector's entries, and its bins.                           *)
LEMMA VectorType ==
  ASSUME NEW v \in Vectors
  PROVE  /\ Len(v) \in Nat /\ DOMAIN v = 1..Len(v)
         /\ \A p \in 1..Len(v) : v[p].tv \in Keywords /\ v[p].bv \in Nat
         /\ Len(Bin(v)) = Len(v)
         /\ \A p \in 1..Len(v) : Bin(v)[p] = v[p].bv
<1>1. /\ Len(v) \in Nat /\ DOMAIN v = 1..Len(v)
      /\ v \in [1..Len(v) -> [tv : Keywords, bv : Nat]]
  BY LenProperties DEF Vectors
<1>2. \A p \in 1..Len(v) : v[p].tv \in Keywords /\ v[p].bv \in Nat
  BY <1>1
<1>3. /\ DOMAIN Bin(v) = 1..Len(v)
      /\ \A p \in 1..Len(v) : Bin(v)[p] = v[p].bv
  BY <1>1 DEF Bin
<1>4. Bin(v) \in [1..Len(v) -> Nat]
  BY <1>1, <1>2, <1>3 DEF Bin
<1>5. Len(Bin(v)) = Len(v)
  BY <1>1, <1>4, SeqOf
<1> QED  BY <1>1, <1>2, <1>3, <1>5

(* What a run of a vector is.                                              *)
LEMMA RunOf ==
  ASSUME NEW v \in Vectors, NEW a, NEW z
  PROVE  <<a, z>> \in Runs(Bin(v)) <=>
           /\ a \in 1..Len(v) /\ z \in 1..Len(v) /\ a <= z
           /\ \A p \in a..z : v[p].bv = v[a].bv
           /\ a # 1 => v[a-1].bv # v[a].bv
           /\ z # Len(v) => v[z+1].bv # v[a].bv
<1> DEFINE B == Bin(v)
<1>1. /\ Len(v) \in Nat /\ Len(B) = Len(v)
      /\ \A p \in 1..Len(v) : B[p] = v[p].bv
  BY VectorType
<1> HIDE DEF B
<1>2. <<a, z>> \in Runs(B) <=>
        /\ a \in 1..Len(v) /\ z \in 1..Len(v) /\ a <= z
        /\ \A p \in a..z : B[p] = B[a]
        /\ a # 1 => B[a-1] # B[a]
        /\ z # Len(v) => B[z+1] # B[a]
  BY <1>1 DEF Runs
<1>3. SUFFICES ASSUME a \in 1..Len(v), z \in 1..Len(v), a <= z
      PROVE  /\ (\A p \in a..z : B[p] = B[a]) <=> (\A p \in a..z : v[p].bv = v[a].bv)
             /\ (a # 1 => B[a-1] # B[a]) <=> (a # 1 => v[a-1].bv # v[a].bv)
             /\ (z # Len(v) => B[z+1] # B[a]) <=> (z # Len(v) => v[z+1].bv # v[a].bv)
  BY <1>2 DEF B
<1>4. B[a] = v[a].bv /\ \A p \in a..z : B[p] = v[p].bv
  BY <1>1, <1>3
<1>5. a # 1 => B[a-1] = v[a-1].bv
  BY <1>1, <1>3
<1>6. z # Len(v) => B[z+1] = v[z+1].bv
  BY <1>1, <1>3
<1> QED  BY <1>4, <1>5, <1>6

(* Every run is a pair.                                                    *)
LEMMA RunPair ==
  ASSUME NEW v \in Vectors, NEW r \in Runs(Bin(v))
  PROVE  r = <<r[1], r[2]>> /\ r[1] \in 1..Len(v) /\ r[2] \in 1..Len(v)
BY VectorType DEF Runs

(* At most one run ends at a position.                                     *)
LEMMA RunsEnd ==
  ASSUME NEW v \in Vectors, NEW r \in Runs(Bin(v)), NEW s \in Runs(Bin(v)),
         r[2] = s[2]
  PROVE  r = s
<1>0. Len(v) \in Nat
  BY VectorType
<1>1. /\ r = <<r[1], r[2]>> /\ r[1] \in 1..Len(v) /\ r[2] \in 1..Len(v)
      /\ s = <<s[1], s[2]>> /\ s[1] \in 1..Len(v)
  BY RunPair
<1>2. /\ <<r[1], r[2]>> \in Runs(Bin(v))
      /\ <<s[1], r[2]>> \in Runs(Bin(v))
  BY <1>1
<1>3. /\ r[1] <= r[2] /\ s[1] <= r[2]
      /\ \A p \in r[1]..r[2] : v[p].bv = v[r[1]].bv
      /\ \A p \in s[1]..r[2] : v[p].bv = v[s[1]].bv
      /\ r[1] # 1 => v[r[1]-1].bv # v[r[1]].bv
      /\ s[1] # 1 => v[s[1]-1].bv # v[s[1]].bv
  BY <1>2, RunOf
<1>4. ~ r[1] < s[1]
  <2> SUFFICES ASSUME r[1] < s[1] PROVE FALSE
    OBVIOUS
  <2>1. s[1] # 1 /\ s[1] - 1 \in r[1]..r[2] /\ s[1] \in r[1]..r[2]
    BY <1>0, <1>1, <1>3
  <2> QED  BY <2>1, <1>3
<1>5. ~ s[1] < r[1]
  <2> SUFFICES ASSUME s[1] < r[1] PROVE FALSE
    OBVIOUS
  <2>1. r[1] # 1 /\ r[1] - 1 \in s[1]..r[2] /\ r[1] \in s[1]..r[2]
    BY <1>0, <1>1, <1>3
  <2> QED  BY <2>1, <1>3
<1>6. r[1] = s[1]
  BY <1>0, <1>1, <1>4, <1>5
<1> QED  BY <1>1, <1>6

(* The part of a run grows at its end.                                     *)
LEMMA PartGrows ==
  ASSUME NEW v \in Vectors, NEW a \in 1..Len(v), NEW z \in a..Len(v)
  PROVE  /\ Part(v, <<a, z>>) = Append(Part(v, <<a, z-1>>), v[z].tv)
         /\ Part(v, <<a, z>>) \in Seq(Keywords) /\ Part(v, <<a, z>>) # <<>>
         /\ a = z => Part(v, <<a, z-1>>) = <<>>
<1> DEFINE P == Part(v, <<a, z>>)
           Q == Part(v, <<a, z-1>>)
<1>1. Len(v) \in Nat /\ \A p \in 1..Len(v) : v[p].tv \in Keywords
  BY VectorType
<1>2. /\ P = [p \in 1..(z - a + 1) |-> v[a + p - 1].tv]
      /\ Q = [p \in 1..(z - 1 - a + 1) |-> v[a + p - 1].tv]
  BY DEF Part
<1>3. z - 1 - a + 1 = z - a /\ z - a \in Nat /\ z - a + 1 \in Nat
  BY <1>1
<1> HIDE DEF P, Q
<1>4. /\ Q \in [1..(z - a) -> Keywords] /\ P \in [1..(z - a + 1) -> Keywords]
      /\ \A p \in 1..(z - a + 1) : P[p] = v[a + p - 1].tv
      /\ \A p \in 1..(z - a) : Q[p] = v[a + p - 1].tv
  <2>1. ASSUME NEW p \in 1..(z - a + 1) PROVE v[a + p - 1].tv \in Keywords
    BY <1>1, <1>3
  <2>2. 1..(z - a) \subseteq 1..(z - a + 1)
    BY <1>3
  <2> QED  BY <1>2, <1>3, <2>1, <2>2
<1>5. /\ Q \in Seq(Keywords) /\ Len(Q) = z - a
      /\ P \in Seq(Keywords) /\ Len(P) = z - a + 1
  BY <1>3, <1>4, SeqOf
<1>6. v[z].tv \in Keywords
  BY <1>1
<1>7. /\ Append(Q, v[z].tv) \in Seq(Keywords)
      /\ Len(Append(Q, v[z].tv)) = z - a + 1
      /\ \A p \in 1..(z - a) : Append(Q, v[z].tv)[p] = Q[p]
      /\ Append(Q, v[z].tv)[z - a + 1] = v[z].tv
  <2> DEFINE t == v[z].tv
  <2> HIDE DEF t
  <2>1. t \in Keywords
    BY <1>6 DEF t
  <2>2. /\ Append(Q, t) \in Seq(Keywords)
        /\ Len(Append(Q, t)) = Len(Q) + 1
        /\ \A p \in 1..Len(Q) : Append(Q, t)[p] = Q[p]
        /\ Append(Q, t)[Len(Q) + 1] = t
    BY <2>1, <1>5, AppendProperties
  <2> QED  BY <2>2, <1>5 DEF t
<1>8. ASSUME NEW p \in 1..(z - a + 1) PROVE P[p] = Append(Q, v[z].tv)[p]
  <2>1. CASE p \in 1..(z - a)
    <3>1. P[p] = v[a + p - 1].tv /\ Q[p] = v[a + p - 1].tv
      BY <2>1, <1>4
    <3> QED  BY <2>1, <3>1, <1>7
  <2>2. CASE p = z - a + 1
    <3>1. a + p - 1 = z
      BY <2>2
    <3>2. P[p] = v[z].tv
      BY <3>1, <1>4
    <3> QED  BY <2>2, <3>2, <1>7
  <2>3. p \in 1..(z - a) \/ p = z - a + 1
    BY <1>3
  <2> QED  BY <2>1, <2>2, <2>3
<1>9. P = Append(Q, v[z].tv)
  BY <1>5, <1>7, <1>8, SeqEqual
<1>10. P # <<>>
  BY <1>5, <1>3
<1>11. a = z => Q = <<>>
  BY <1>5, EmptySeq
<1> QED  BY <1>5, <1>9, <1>10, <1>11 DEF P, Q

(* A search finds ids of the database.                                     *)
LEMMA FoundIds ==
  ASSUME NEW ws \in Seq(Keywords), ws # <<>>
  PROVE  Found(db, tags, ws) \subseteq Ids
<1>1. ws[1] \in Keywords
  BY EmptySeq
<1>2. db[ws[1]] \in Seq(Ids) /\ db[ws[1]] # <<>>
  BY <1>1, DatabaseAssumption
<1>3. db[ws[1]][1] \in Ids /\ RowIds(db[ws[1]]) \subseteq Ids
  BY <1>2, EmptySeq DEF RowIds
<1> QED  BY <1>3 DEF Found

(* Of the runs that end before n+1, one that ends at n is the only one that*)
(* does not end before n.                                                  *)
LEMMA AnswerGrows ==
  ASSUME NEW v \in Vectors, NEW n \in 1..Len(v),
         NEW s \in Searched(v), s[2] = n
  PROVE  AnswerOf(v, {r \in Searched(v) : r[2] < n + 1})
           = AnswerOf(v, {r \in Searched(v) : r[2] < n})
               \cup Found(db, tags, Part(v, s))
<1>1. \A r \in Searched(v) : r[2] \in 1..Len(v)
  BY RunPair DEF Searched
<1>2. \A r \in Searched(v) : r[2] = n => r = s
  BY RunsEnd DEF Searched
<1>3. Len(v) \in Nat
  BY VectorType
<1>4. {r \in Searched(v) : r[2] < n + 1} = {r \in Searched(v) : r[2] < n} \cup {s}
  BY <1>1, <1>2, <1>3
<1> QED  BY <1>4 DEF AnswerOf

(* Where no run that is searched ends, the answer stays.                   *)
LEMMA AnswerStays ==
  ASSUME NEW v \in Vectors, NEW n \in 1..Len(v),
         \A r \in Searched(v) : r[2] # n
  PROVE  AnswerOf(v, {r \in Searched(v) : r[2] < n + 1})
           = AnswerOf(v, {r \in Searched(v) : r[2] < n})
<1>1. \A r \in Searched(v) : r[2] \in 1..Len(v)
  BY RunPair DEF Searched
<1>2. Len(v) \in Nat
  BY VectorType
<1>3. {r \in Searched(v) : r[2] < n + 1} = {r \in Searched(v) : r[2] < n}
  BY <1>1, <1>2
<1> QED  BY <1>3

(* In the end all the runs that are searched have been.                    *)
LEMMA AnswerWhole ==
  ASSUME NEW v \in Vectors
  PROVE  /\ {r \in Searched(v) : r[2] < Len(v) + 1} = Searched(v)
         /\ {r \in Searched(v) : r[2] < 1} = {}
<1>1. \A r \in Searched(v) : r[2] \in 1..Len(v)
  BY RunPair DEF Searched
<1>2. Len(v) \in Nat
  BY VectorType
<1> QED  BY <1>1, <1>2

-----------------------------------------------------------------------------
(* Files and loops                                                         *)

LEMMA FileType ==
  ASSUME TypeOK
  PROVE  /\ file \in Seq(Vectors) /\ Len(file) \in Nat /\ Len(file) < UIntSpan
         /\ \A l \in 1..Len(file) : file[l] \in Vectors
<1>1. file \in Seq(Vectors) /\ Len(file) < UIntSpan
  <2>1. CASE file \in Files
    BY <2>1, FilesAssumption
  <2>2. CASE file = <<>>
    BY <2>2, EmptySeq, SizesAssumption
  <2> QED  BY <2>1, <2>2 DEF TypeOK
<1> QED  BY <1>1, LenProperties, ElementOfSeq

(* The bounds of the outer loops; that of cnf wraps for fewer than two     *)
(* vectors.                                                                *)
LEMMA Bounds ==
  ASSUME TypeOK
  PROVE  /\ program = "disjunctive" => LoopBound = Len(file) /\ Clauses = 1
         /\ program = "cnf" =>
              /\ Clauses = 2
              /\ Len(file) >= 2 => LoopBound = Len(file) \div 2 - 1
              /\ Len(file) < 2 => LoopBound = UIntSpan - 1
         /\ program \in DrawPrograms => LoopBound = n_iterations
         /\ program = "conjunctive" => Clauses = 1
         /\ LoopBound \in Nat /\ Clauses \in Nat \ {0}
         /\ 2 * (Len(file) \div 2) <= Len(file)
         /\ Len(file) \div 2 \in Nat
         /\ Len(file) < 2 => Len(file) \div 2 = 0
         /\ Len(file) >= 2 => Len(file) \div 2 >= 1
         /\ program \in {"disjunctive", "cnf", "conjunctive", "dnf"}
<1>1. Len(file) \in Nat /\ Len(file) < UIntSpan
  BY FileType
<1>2. /\ 2 * (Len(file) \div 2) <= Len(file)
      /\ Len(file) \div 2 \in Nat
      /\ Len(file) < 2 => Len(file) \div 2 = 0
      /\ Len(file) >= 2 => Len(file) \div 2 >= 1
  BY <1>1
<1>3. UIntSpan \in Nat /\ UIntSpan >= 2 /\ n_iterations \in Nat
      /\ NUM_CLAUSE \in Nat \ {0}
  BY SizesAssumption
<1>4. \A x \in Nat : x < UIntSpan => x % UIntSpan = x
  BY <1>3
<1>5. (0 - 1) % UIntSpan = UIntSpan - 1
  BY <1>3
<1>6. program \in {"disjunctive", "cnf", "conjunctive", "dnf"}
  BY SizesAssumption DEF TypeOK, VectorPrograms, DrawPrograms
<1>7. CASE program = "disjunctive"
  BY <1>7, <1>1, <1>2 DEF LoopBound, Clauses, Formulas, DrawPrograms
<1>8. CASE program = "cnf"
  <2>1. NUM_CLAUSE = 2
    BY <1>8, SizesAssumption DEF TypeOK
  <2>2. LoopBound = (Len(file) \div 2 - 1) % UIntSpan /\ Clauses = 2
    BY <1>8, <2>1 DEF LoopBound, Clauses, Formulas, DrawPrograms
  <2>3. Len(file) < 2 => LoopBound = UIntSpan - 1
    BY <2>2, <1>2, <1>5
  <2>4. Len(file) >= 2 => LoopBound = Len(file) \div 2 - 1
    <3>1. SUFFICES ASSUME Len(file) >= 2
                   PROVE  (Len(file) \div 2 - 1) % UIntSpan = Len(file) \div 2 - 1
      BY <2>2
    <3>2. Len(file) \div 2 - 1 \in Nat /\ Len(file) \div 2 - 1 < UIntSpan
      BY <3>1, <1>1, <1>2, <1>3
    <3> QED  BY <3>2, <1>4
  <2> QED  BY <1>8, <2>2, <2>3, <2>4, <1>1, <1>2, <1>3 DEF DrawPrograms
<1>9. CASE program \in DrawPrograms
  BY <1>9, <1>3, <1>2 DEF LoopBound, Clauses, Formulas, DrawPrograms
<1> QED  BY <1>6, <1>7, <1>8, <1>9 DEF DrawPrograms

-----------------------------------------------------------------------------
(* One round of the scan                                                   *)

LEMMA ScanFacts ==
  ASSUME TypeOK, Scanning, pc = "scan"
  PROVE  /\ vec \in Vectors /\ Len(vec) \in Nat /\ j \in 1..Len(vec)+1
         /\ \A p \in 1..Len(vec) : vec[p].tv \in Keywords /\ vec[p].bv \in Nat
         /\ mkws \in Seq(Keywords) /\ row_vec \in Seq(Keywords)
         /\ program \in {"disjunctive", "cnf"}
         /\ i < LoopBound /\ n_clause < Clauses
         /\ RowIndex < Len(file) /\ vec = file[RowIndex + 1]
BY VectorType DEF TypeOK, Scanning, VectorPrograms

(* The run that j belongs to, up to j.                                     *)
LEMMA RunUpTo ==
  ASSUME TypeOK, Scanning, pc = "scan", j <= Len(vec)
  PROVE  \E a \in 1..j :
           /\ \A p \in a..j : vec[p].bv = vec[a].bv
           /\ a # 1 => vec[a-1].bv # vec[a].bv
           /\ Append(mkws, vec[j].tv) = Part(vec, <<a, j>>)
           /\ (j > 1 /\ vec[j-1].bv = vec[j].bv) => a < j
<1>0. /\ vec \in Vectors /\ Len(vec) \in Nat /\ j \in 1..Len(vec)
      /\ Collected
  BY ScanFacts DEF Scanning
<1>1. CASE 1 < j /\ vec[j-1].bv = vec[j].bv
  <2>1. PICK a \in 1..j-1 :
          /\ \A p \in a..j : vec[p].bv = vec[a].bv
          /\ a # 1 => vec[a-1].bv # vec[a].bv
          /\ mkws = Part(vec, <<a, j-1>>)
    BY <1>0, <1>1 DEF Collected
  <2>2. a \in 1..Len(vec) /\ j \in a..Len(vec) /\ a \in 1..j /\ a < j
    BY <1>0
  <2>3. Part(vec, <<a, j>>) = Append(mkws, vec[j].tv)
    BY <1>0, <2>1, <2>2, PartGrows
  <2> QED  BY <2>1, <2>2, <2>3
<1>2. CASE ~ (1 < j /\ vec[j-1].bv = vec[j].bv)
  <2>1. mkws = <<>>
    BY <1>0, <1>2 DEF Collected
  <2>2. j \in j..Len(vec) /\ j \in 1..j
    BY <1>0
  <2>3. Part(vec, <<j, j>>) = Append(mkws, vec[j].tv)
    BY <1>0, <2>1, <2>2, PartGrows
  <2>4. \A p \in j..j : vec[p].bv = vec[j].bv
    BY <1>0
  <2>5. j # 1 => vec[j-1].bv # vec[j].bv
    BY <1>0, <1>2
  <2> QED  BY <1>2, <2>2, <2>3, <2>4, <2>5
<1> QED  BY <1>1, <1>2

(* If the bin ends at j, and j is not a last meta-keyword alone, the search*)
(* for it is the one that was missing.                                     *)
LEMMA BinSearched ==
  ASSUME TypeOK, Scanning, pc = "scan", j <= Len(vec),
         \/ j < Len(vec) /\ ~ SameAsNext
         \/ j = Len(vec) /\ j > 1 /\ SameAsPrevious
  PROVE  LET ws == Append(mkws, vec[j].tv)
         IN /\ ws \in Seq(Keywords) /\ ws # <<>>
            /\ result_union \cup Found(db, tags, ws)
                 = AnswerOf(vec, {r \in Searched(vec) : r[2] < j + 1})
<1>0. /\ vec \in Vectors /\ Len(vec) \in Nat /\ j \in 1..Len(vec)
  BY ScanFacts
<1>1. PICK a \in 1..j :
           /\ \A p \in a..j : vec[p].bv = vec[a].bv
           /\ a # 1 => vec[a-1].bv # vec[a].bv
           /\ Append(mkws, vec[j].tv) = Part(vec, <<a, j>>)
           /\ (j > 1 /\ vec[j-1].bv = vec[j].bv) => a < j
  BY RunUpTo
<1>2. a \in 1..Len(vec) /\ j \in a..Len(vec) /\ a <= j /\ j \in a..j
  BY <1>0
<1>3. j # Len(vec) => vec[j+1].bv # vec[a].bv
  BY <1>0, <1>1, <1>2 DEF SameAsNext
<1>4. <<a, j>> \in Runs(Bin(vec))
  BY <1>0, <1>1, <1>2, <1>3, RunOf
<1>5. <<a, j>> # <<Len(vec), Len(vec)>>
  BY <1>0, <1>1 DEF SameAsPrevious
<1>6. <<a, j>> \in Searched(vec) /\ <<a, j>>[2] = j
  BY <1>4, <1>5 DEF Searched
<1>7. result_union = AnswerOf(vec, {r \in Searched(vec) : r[2] < j})
  BY DEF Scanning
<1>8. AnswerOf(vec, {r \in Searched(vec) : r[2] < j + 1})
        = AnswerOf(vec, {r \in Searched(vec) : r[2] < j})
            \cup Found(db, tags, Part(vec, <<a, j>>))
  BY <1>0, <1>6, AnswerGrows
<1>9. Part(vec, <<a, j>>) \in Seq(Keywords) /\ Part(vec, <<a, j>>) # <<>>
  BY <1>0, <1>2, PartGrows
<1> QED  BY <1>1, <1>7, <1>8, <1>9

(* Within a bin, no run ends.                                              *)
LEMMA NoEndWithin ==
  ASSUME NEW v \in Vectors, NEW n \in 1..Len(v)-1, v[n].bv = v[n+1].bv,
         NEW r \in Searched(v)
  PROVE  r[2] # n
<1>0. Len(v) \in Nat
  BY VectorType
<1>1. /\ r = <<r[1], r[2]>> /\ r[1] \in 1..Len(v) /\ r[2] \in 1..Len(v)
      /\ r \in Runs(Bin(v))
  BY RunPair DEF Searched
<1>2. <<r[1], r[2]>> \in Runs(Bin(v))
  BY <1>1
<1>3. /\ r[1] <= r[2]
      /\ \A p \in r[1]..r[2] : v[p].bv = v[r[1]].bv
      /\ r[2] # Len(v) => v[r[2]+1].bv # v[r[1]].bv
  BY <1>2, RunOf
<1>4. r[2] \in r[1]..r[2]
  BY <1>0, <1>1, <1>3
<1>5. v[r[2]].bv = v[r[1]].bv
  BY <1>3, <1>4
<1>6. SUFFICES ASSUME r[2] = n PROVE FALSE
  OBVIOUS
<1>7. n # Len(v)
  BY <1>0
<1> QED  BY <1>3, <1>5, <1>6, <1>7

(* No run that is searched ends at a last meta-keyword alone.              *)
LEMMA NoEndAlone ==
  ASSUME NEW v \in Vectors, Len(v) > 1, v[Len(v)-1].bv # v[Len(v)].bv,
         NEW r \in Searched(v)
  PROVE  r[2] # Len(v)
<1>0. Len(v) \in Nat
  BY VectorType
<1>1. /\ r = <<r[1], r[2]>> /\ r[1] \in 1..Len(v) /\ r[2] \in 1..Len(v)
      /\ r \in Runs(Bin(v)) /\ r # <<Len(v), Len(v)>>
  BY RunPair DEF Searched
<1>2. <<r[1], r[2]>> \in Runs(Bin(v))
  BY <1>1
<1>3. /\ r[1] <= r[2]
      /\ \A p \in r[1]..r[2] : v[p].bv = v[r[1]].bv
  BY <1>2, RunOf
<1>4. SUFFICES ASSUME r[2] = Len(v) PROVE FALSE
  OBVIOUS
<1>5. r[1] < Len(v)
  BY <1>0, <1>1, <1>3, <1>4
<1>6. Len(v) - 1 \in r[1]..r[2] /\ Len(v) \in r[1]..r[2]
  BY <1>0, <1>1, <1>4, <1>5
<1> QED  BY <1>3, <1>6

(* A last meta-keyword alone adds nothing.                                 *)
LEMMA NothingAdded ==
  ASSUME TypeOK, Scanning, pc = "scan", j = Len(vec), j > 1, ~ SameAsPrevious
  PROVE  /\ row_vec \o mkws = row_vec /\ row_vec # <<>>
         /\ result_union \cup Found(db, tags, row_vec)
              = AnswerOf(vec, {r \in Searched(vec) : r[2] < j + 1})
<1>0. /\ vec \in Vectors /\ Len(vec) \in Nat /\ j \in 1..Len(vec)
      /\ row_vec \in Seq(Keywords)
  BY ScanFacts
<1>1. mkws = <<>>
  BY <1>0 DEF Scanning, Collected, SameAsPrevious
<1>2. row_vec # <<>> /\ Found(db, tags, row_vec) \subseteq result_union
  BY <1>0, <1>1 DEF Scanning
<1>3. result_union = AnswerOf(vec, {r \in Searched(vec) : r[2] < j})
  BY DEF Scanning
<1>4. \A r \in Searched(vec) : r[2] # j
  BY <1>0, NoEndAlone DEF SameAsPrevious
<1>5. AnswerOf(vec, {r \in Searched(vec) : r[2] < j + 1})
        = AnswerOf(vec, {r \in Searched(vec) : r[2] < j})
  BY <1>0, <1>4, AnswerStays
<1>6. row_vec \o mkws = row_vec
  BY <1>0, <1>1, ConcatEmptySeq
<1> QED  BY <1>2, <1>3, <1>5, <1>6

(* The three branches that search.                                         *)
LEMMA SearchStep ==
  ASSUME TypeOK, Scanning, SearchBin \/ SearchLastBin \/ SearchAgain
  PROVE  /\ pc = "scan" /\ j \in 1..Len(vec)
         /\ j = 1 => Len(vec) # 1
         /\ j < Len(vec) => vec[j].bv # vec[j+1].bv
         /\ \E ws \in Seq(Keywords) :
              /\ ws # <<>> /\ Search(ws)
              /\ result_union \cup Found(db, tags, ws)
                   = AnswerOf(vec, {r \in Searched(vec) : r[2] < j + 1})
<1>0. pc = "scan"
  BY DEF SearchBin, SearchLastBin, SearchAgain
<1>1. /\ vec \in Vectors /\ Len(vec) \in Nat /\ j \in 1..Len(vec)+1
      /\ \A p \in 1..Len(vec) : vec[p].tv \in Keywords /\ vec[p].bv \in Nat
      /\ row_vec \in Seq(Keywords)
  BY <1>0, ScanFacts
<1>2. CASE SearchBin
  <2>1. j < Len(vec) /\ ~ SameAsNext /\ Search(Append(mkws, vec[j].tv))
    BY <1>2 DEF SearchBin
  <2>2. /\ Append(mkws, vec[j].tv) \in Seq(Keywords)
        /\ Append(mkws, vec[j].tv) # <<>>
        /\ result_union \cup Found(db, tags, Append(mkws, vec[j].tv))
             = AnswerOf(vec, {r \in Searched(vec) : r[2] < j + 1})
    BY <1>0, <1>1, <2>1, BinSearched
  <2>3. j \in 1..Len(vec) /\ (j = 1 => Len(vec) # 1)
    <3>1. PICK n \in Nat : n = Len(vec)
      BY <1>1
    <3>2. j \in 1..n+1 /\ j < n
      BY <1>1, <2>1, <3>1
    <3> QED  BY <3>1, <3>2
  <2>4. j < Len(vec) => vec[j].bv # vec[j+1].bv
    BY <2>1 DEF SameAsNext
  <2> QED  BY <1>0, <2>1, <2>2, <2>3, <2>4
<1>3. CASE SearchLastBin
  <2>1. j = Len(vec) /\ j > 1 /\ SameAsPrevious /\ Search(Append(mkws, vec[j].tv))
    BY <1>3 DEF SearchLastBin
  <2>2. /\ Append(mkws, vec[j].tv) \in Seq(Keywords)
        /\ Append(mkws, vec[j].tv) # <<>>
        /\ result_union \cup Found(db, tags, Append(mkws, vec[j].tv))
             = AnswerOf(vec, {r \in Searched(vec) : r[2] < j + 1})
    BY <1>0, <1>1, <2>1, BinSearched
  <2>3. j \in 1..Len(vec) /\ (j = 1 => Len(vec) # 1) /\ ~ j < Len(vec)
    BY <1>1, <2>1
  <2> QED  BY <1>0, <2>1, <2>2, <2>3
<1>4. CASE SearchAgain
  <2>1. j = Len(vec) /\ j > 1 /\ ~ SameAsPrevious /\ Search(row_vec \o mkws)
    BY <1>4 DEF SearchAgain
  <2>2. /\ row_vec \o mkws = row_vec /\ row_vec # <<>>
        /\ result_union \cup Found(db, tags, row_vec)
             = AnswerOf(vec, {r \in Searched(vec) : r[2] < j + 1})
    BY <1>0, <2>1, NothingAdded
  <2> QED  BY <1>0, <1>1, <2>1, <2>2
<1> QED  BY <1>2, <1>3, <1>4

-----------------------------------------------------------------------------
(* Types                                                                   *)

LEMMA TypeInit == Init => TypeOK
<1> SUFFICES ASSUME Init PROVE TypeOK
  OBVIOUS
<1>1. vec \in Vectors /\ j \in 1..Len(vec)+1
  BY EmptySeq DEF Init, Vectors
<1>2. /\ mkws \in Seq(Keywords) /\ row_vec \in Seq(Keywords)
      /\ clauses \in Seq(Seq(Keywords)) /\ res_id \in Seq(SUBSET Ids)
      /\ res_query \in Seq(Seq(Seq(Keywords)))
  BY EmptySeq DEF Init
<1>3. n_clause \in 0..Clauses
  BY SizesAssumption DEF Init, Clauses
<1> QED  BY <1>1, <1>2, <1>3 DEF Init, TypeOK

(* The parts of TypeOK that the scan changes.                              *)
LEMMA TypeScan ==
  ASSUME TypeOK, Scanning,
         LoadVector \/ Push \/ SearchBin \/ SearchLastBin \/ SearchAgain
  PROVE  /\ vec' \in Vectors /\ j' \in 1..Len(vec')+1
         /\ mkws' \in Seq(Keywords) /\ row_vec' \in Seq(Keywords)
         /\ result_union' \subseteq Ids
<1>1. mkws \in Seq(Keywords) /\ row_vec \in Seq(Keywords) /\ result_union \subseteq Ids
  BY DEF TypeOK
<1>2. CASE LoadVector
  <2>1. RowIndex + 1 \in 1..Len(file)
    <3>1. RowIndex \in Nat
      BY DEF TypeOK, RowIndex
    <3> QED  BY <1>2, <3>1, FileType DEF LoadVector
  <2>2. vec' \in Vectors /\ j' = 1 /\ mkws' = <<>> /\ row_vec' = row_vec /\ result_union' = {}
    BY <1>2, <2>1, FileType DEF LoadVector
  <2>3. Len(vec') \in Nat
    BY <2>2, VectorType
  <2> QED  BY <1>1, <2>2, <2>3, EmptySeq
<1>3. CASE Push
  <2>1. pc = "scan" /\ j < Len(vec) /\ vec' = vec /\ row_vec' = row_vec
        /\ result_union' = result_union /\ j' = j + 1
        /\ mkws' = Append(mkws, vec[j].tv)
    BY <1>3 DEF Push
  <2>2. /\ vec \in Vectors /\ Len(vec) \in Nat /\ j \in 1..Len(vec)+1
        /\ \A p \in 1..Len(vec) : vec[p].tv \in Keywords
    BY <2>1, ScanFacts
  <2>3. vec[j].tv \in Keywords
    BY <2>1, <2>2
  <2>4. mkws' \in Seq(Keywords)
    BY <1>1, <2>1, <2>3, AppendProperties
  <2> QED  BY <1>1, <2>1, <2>2, <2>4
<1>4. CASE SearchBin \/ SearchLastBin \/ SearchAgain
  <2>1. PICK ws \in Seq(Keywords) : ws # <<>> /\ Search(ws)
    BY <1>4, SearchStep
  <2>2. pc = "scan" /\ j \in 1..Len(vec)
    BY <1>4, SearchStep
  <2>3. vec \in Vectors /\ Len(vec) \in Nat
    BY <2>2, ScanFacts
  <2>4. Found(db, tags, ws) \subseteq Ids
    BY <2>1, FoundIds
  <2>5. /\ row_vec' = ws /\ mkws' = <<>> /\ j' = j + 1 /\ vec' = vec
        /\ result_union' = result_union \cup Found(db, tags, ws)
    BY <2>1 DEF Search
  <2> QED  BY <1>1, <2>1, <2>2, <2>3, <2>4, <2>5, EmptySeq
<1> QED  BY <1>2, <1>3, <1>4

(* Which actions change what else.                                         *)
LEMMA TypeStep == TypeOK /\ Scanning /\ [Next]_vars => TypeOK'
<1> SUFFICES ASSUME TypeOK, Scanning, [Next]_vars PROVE TypeOK'
  OBVIOUS
<1>1. /\ program \in Programs /\ file \in Files \cup {<<>>}
      /\ i \in Nat /\ n_clause \in 0..Clauses
      /\ vec \in Vectors /\ j \in 1..Len(vec)+1
      /\ mkws \in Seq(Keywords) /\ row_vec \in Seq(Keywords)
      /\ result_union \subseteq Ids /\ result_final \subseteq Ids
      /\ clauses \in Seq(Seq(Keywords))
      /\ res_id \in Seq(SUBSET Ids)
      /\ res_query \in Seq(Seq(Seq(Keywords)))
      /\ pc \in {"line", "scan", "done", "thrown"}
  BY DEF TypeOK
<1>2. Clauses \in Nat \ {0}
  BY Bounds
<1>3. ASSUME program' = program PROVE Clauses' = Clauses
  BY <1>3 DEF Clauses
<1>4. CASE LoadVector \/ Push \/ SearchBin \/ SearchLastBin \/ SearchAgain
  <2>1. /\ vec' \in Vectors /\ j' \in 1..Len(vec')+1
        /\ mkws' \in Seq(Keywords) /\ row_vec' \in Seq(Keywords)
        /\ result_union' \subseteq Ids
    BY <1>4, TypeScan
  <2>2. /\ program' = program /\ file' = file /\ i' = i /\ n_clause' = n_clause
        /\ pc' = "scan"
        /\ UNCHANGED outVars
    BY <1>4 DEF LoadVector, Push, SearchBin, SearchLastBin, SearchAgain, Search
  <2> QED  BY <1>1, <1>3, <2>1, <2>2 DEF TypeOK, outVars
<1>5. CASE LoadThrows \/ ScanThrows \/ Finish
  BY <1>1, <1>3, <1>5 DEF LoadThrows, ScanThrows, Finish, TypeOK, scanVars, outVars
<1>6. CASE WriteVector
  <2>1. res_id' \in Seq(SUBSET Ids)
    BY <1>1, <1>6, AppendProperties DEF WriteVector
  <2> QED  BY <1>1, <1>3, <1>6, <2>1 DEF WriteVector, TypeOK, scanVars
<1>7. CASE CombineClause
  <2>1. result_final' \subseteq result_union
    BY <1>7 DEF CombineClause, Intersections
  <2>2. n_clause' \in 0..Clauses
    BY <1>1, <1>2, <1>7, ScanFacts DEF CombineClause
  <2> QED  BY <1>1, <1>3, <1>7, <2>1, <2>2 DEF CombineClause, TypeOK, scanVars
<1>8. ASSUME NEW q \in Queries, SearchClause(q) \/ SkipClause(q) PROVE TypeOK'
  <2>1. n_clause < Clauses
    BY <1>8 DEF SearchClause, SkipClause, Drawing
  <2>2. q \in Seq(Keywords) /\ q # <<>>
    <3>1. PICK m \in 1..n_q_kw : q \in [1..m -> Keywords]
      BY <1>8 DEF Queries
    <3>2. q \in Seq(Keywords) /\ Len(q) = m
      BY <3>1, SizesAssumption, SeqOf
    <3> QED  BY <3>1, <3>2, EmptySeq
  <2>3. CASE SearchClause(q)
    <3>1. Found(db, tags, q) \subseteq Ids
      BY <2>2, FoundIds
    <3>2. clauses' \in Seq(Seq(Keywords))
      BY <1>1, <2>2, <2>3, AppendProperties DEF SearchClause
    <3> QED  BY <1>1, <1>2, <1>3, <2>1, <2>2, <2>3, <3>1, <3>2 DEF SearchClause, TypeOK
  <2>4. CASE SkipClause(q)
    BY <1>1, <1>2, <1>3, <2>1, <2>4 DEF SkipClause, TypeOK, scanVars, outVars
  <2> QED  BY <1>8, <2>3, <2>4
<1>9. CASE WriteLine
  <2>1. res_id' \in Seq(SUBSET Ids)
    BY <1>1, <1>9, AppendProperties DEF WriteLine
  <2>2. res_query' \in Seq(Seq(Seq(Keywords)))
    BY <1>1, <1>9, AppendProperties DEF WriteLine
  <2> QED  BY <1>1, <1>2, <1>3, <1>9, <2>1, <2>2, EmptySeq DEF WriteLine, TypeOK, scanVars
<1>10. CASE UNCHANGED vars
  BY <1>1, <1>3, <1>10 DEF TypeOK, vars, scanVars, outVars
<1> QED
  BY <1>4, <1>5, <1>6, <1>7, <1>8, <1>9, <1>10 DEF Next, Terminated

-----------------------------------------------------------------------------
(* The scan                                                                *)

LEMMA SameLoops ==
  ASSUME UNCHANGED <<program, file, i, n_clause>>
  PROVE  /\ LoopBound' = LoopBound /\ Clauses' = Clauses
         /\ RowIndex' = RowIndex
BY DEF LoopBound, Clauses, RowIndex

LEMMA ScanningLoad == TypeOK /\ LoadVector => Scanning'
<1> SUFFICES ASSUME TypeOK, LoadVector PROVE Scanning'
  OBVIOUS
<1>1. /\ UNCHANGED <<program, file, i, n_clause>>
      /\ vec' = file[RowIndex + 1] /\ j' = 1 /\ mkws' = <<>>
      /\ result_union' = {}
      /\ program \in VectorPrograms /\ i < LoopBound /\ n_clause < Clauses
      /\ RowIndex < Len(file)
  BY DEF LoadVector, Loading
<1>2. vec' \in Vectors
  <2>1. RowIndex \in Nat
    BY DEF TypeOK, RowIndex
  <2> QED  BY <1>1, <2>1, FileType
<1>3. Collected'
  BY <1>1 DEF Collected
<1>4. result_union' = AnswerOf(vec', {r \in Searched(vec') : r[2] < j'})
  <2>1. {r \in Searched(vec') : r[2] < 1} = {}
    BY <1>2, AnswerWhole
  <2> QED  BY <1>1, <2>1 DEF AnswerOf
<1>5. LoopBound' = LoopBound /\ Clauses' = Clauses /\ RowIndex' = RowIndex
  BY <1>1, SameLoops
<1> QED  BY <1>1, <1>3, <1>4, <1>5 DEF Scanning

LEMMA ScanningPush == TypeOK /\ Scanning /\ Push => Scanning'
<1> SUFFICES ASSUME TypeOK, Scanning, Push PROVE Scanning'
  OBVIOUS
<1>1. /\ UNCHANGED <<program, file, i, n_clause, vec, row_vec, result_union>>
      /\ pc = "scan" /\ j < Len(vec) /\ SameAsNext
      /\ mkws' = Append(mkws, vec[j].tv) /\ j' = j + 1
  BY DEF Push
<1>2. /\ vec \in Vectors /\ Len(vec) \in Nat /\ j \in 1..Len(vec)-1
      /\ vec[j].bv = vec[j+1].bv
      /\ \A p \in 1..Len(vec) : vec[p].tv \in Keywords
      /\ mkws \in Seq(Keywords)
  BY <1>1, ScanFacts DEF SameAsNext
<1>3. PICK a \in 1..j :
           /\ \A p \in a..j : vec[p].bv = vec[a].bv
           /\ a # 1 => vec[a-1].bv # vec[a].bv
           /\ Append(mkws, vec[j].tv) = Part(vec, <<a, j>>)
           /\ (j > 1 /\ vec[j-1].bv = vec[j].bv) => a < j
  <2>1. j <= Len(vec)
    BY <1>2
  <2> QED  BY <1>1, <2>1, RunUpTo
<1>4. Collected'
  <2>1. \A p \in a..j+1 : vec[p].bv = vec[a].bv
    <3>0. j \in a..j
      BY <1>2
    <3>1. vec[j].bv = vec[a].bv
      BY <1>3, <3>0
    <3> SUFFICES ASSUME NEW p \in a..j+1 PROVE vec[p].bv = vec[a].bv
      OBVIOUS
    <3>2. CASE p = j + 1
      BY <1>2, <3>1, <3>2
    <3>3. CASE p \in a..j
      BY <1>3, <3>3
    <3>4. p = j + 1 \/ p \in a..j
      BY <1>2
    <3> QED  BY <3>2, <3>3, <3>4
  <2>2. a \in 1..j'-1 /\ j' - 1 = j
    BY <1>1, <1>2
  <2>3. \A p \in a..j' : vec'[p].bv = vec'[a].bv
    BY <1>1, <2>1
  <2>4. a # 1 => vec'[a-1].bv # vec'[a].bv
    BY <1>1, <1>3
  <2>5. mkws' = Part(vec', <<a, j'-1>>)
    BY <1>1, <1>3, <2>2
  <2>6. 1 < j' /\ j' <= Len(vec') /\ vec'[j'-1].bv = vec'[j'].bv
    BY <1>1, <1>2
  <2> QED  BY <2>2, <2>3, <2>4, <2>5, <2>6 DEF Collected
<1>5. result_union' = AnswerOf(vec', {r \in Searched(vec') : r[2] < j'})
  <2>1. \A r \in Searched(vec) : r[2] # j
    BY <1>2, NoEndWithin
  <2>2. AnswerOf(vec, {r \in Searched(vec) : r[2] < j + 1})
          = AnswerOf(vec, {r \in Searched(vec) : r[2] < j})
    BY <1>2, <2>1, AnswerStays
  <2>3. result_union = AnswerOf(vec, {r \in Searched(vec) : r[2] < j})
    BY <1>1 DEF Scanning
  <2> QED  BY <1>1, <2>2, <2>3
<1>6. mkws' # <<>>
  <2>1. vec[j].tv \in Keywords
    BY <1>2
  <2>2. Len(mkws') = Len(mkws) + 1 /\ Len(mkws) \in Nat
    BY <1>1, <1>2, <2>1, AppendProperties, LenProperties
  <2> QED  BY <2>2, EmptySeq
<1>7. LoopBound' = LoopBound /\ Clauses' = Clauses /\ RowIndex' = RowIndex
  BY <1>1, SameLoops
<1>8. Len(vec') # 1
  BY <1>1, <1>2
<1> QED  BY <1>1, <1>4, <1>5, <1>6, <1>7, <1>8 DEF Scanning

LEMMA ScanningSearch ==
  TypeOK /\ Scanning /\ (SearchBin \/ SearchLastBin \/ SearchAgain) => Scanning'
<1> SUFFICES ASSUME TypeOK, Scanning, SearchBin \/ SearchLastBin \/ SearchAgain
             PROVE  Scanning'
  OBVIOUS
<1>1. /\ pc = "scan" /\ j \in 1..Len(vec)
      /\ j = 1 => Len(vec) # 1
      /\ j < Len(vec) => vec[j].bv # vec[j+1].bv
  BY SearchStep
<1>2. PICK ws \in Seq(Keywords) :
        /\ ws # <<>> /\ Search(ws)
        /\ result_union \cup Found(db, tags, ws)
             = AnswerOf(vec, {r \in Searched(vec) : r[2] < j + 1})
  BY SearchStep
<1>3. /\ row_vec' = ws /\ mkws' = <<>> /\ j' = j + 1
      /\ result_union' = result_union \cup Found(db, tags, ws)
      /\ UNCHANGED <<program, file, i, n_clause, vec, pc>>
  BY <1>2 DEF Search
<1>4. Len(vec) \in Nat /\ (j > 1 => Len(vec) # 1)
  BY <1>1, ScanFacts DEF Scanning
<1>5. Collected'
  <2>1. ~ (1 < j' /\ j' <= Len(vec') /\ vec'[j'-1].bv = vec'[j'].bv)
    BY <1>1, <1>3, <1>4
  <2> QED  BY <1>3, <2>1 DEF Collected
<1>6. result_union' = AnswerOf(vec', {r \in Searched(vec') : r[2] < j'})
  BY <1>2, <1>3
<1>7. row_vec' # <<>> /\ Found(db, tags, row_vec') \subseteq result_union'
  BY <1>2, <1>3
<1>8. LoopBound' = LoopBound /\ Clauses' = Clauses /\ RowIndex' = RowIndex
  BY <1>3, SameLoops
<1>9. Len(vec') # 1
  BY <1>1, <1>3, <1>4
<1> QED  BY <1>1, <1>3, <1>5, <1>6, <1>7, <1>8, <1>9 DEF Scanning

LEMMA ScanningStep == TypeOK /\ Scanning /\ [Next]_vars => Scanning'
<1> SUFFICES ASSUME TypeOK, Scanning, [Next]_vars PROVE Scanning'
  OBVIOUS
<1>1. CASE pc' # "scan"
  BY <1>1 DEF Scanning
<1>2. CASE LoadVector
  BY <1>2, ScanningLoad
<1>3. CASE Push
  BY <1>3, ScanningPush
<1>4. CASE SearchBin \/ SearchLastBin \/ SearchAgain
  BY <1>4, ScanningSearch
<1>5. CASE UNCHANGED vars
  <2>1. UNCHANGED <<program, file, i, n_clause, pc, scanVars>>
    BY <1>5 DEF vars
  <2>2. LoopBound' = LoopBound /\ Clauses' = Clauses /\ RowIndex' = RowIndex
    BY <2>1, SameLoops
  <2> QED  BY <2>1, <2>2 DEF Scanning, Collected, scanVars
<1> QED
  BY <1>1, <1>2, <1>3, <1>4, <1>5
     DEF Next, Terminated, LoadThrows, ScanThrows, WriteVector, CombineClause,
         SearchClause, SkipClause, Drawing, WriteLine, Finish

(* A clause that has been scanned has the answer of its vector.            *)
LEMMA ScannedClause == TypeOK /\ Scanning => ClauseExact
<1> SUFFICES ASSUME TypeOK, Scanning PROVE ClauseExact
  OBVIOUS
<1> SUFFICES ASSUME pc = "scan", j = Len(vec) + 1
             PROVE  result_union = LineOf(db, tags, vec)
  BY DEF ClauseExact
<1>1. vec \in Vectors
  BY ScanFacts
<1>2. {r \in Searched(vec) : r[2] < Len(vec) + 1} = Searched(vec)
  BY <1>1, AnswerWhole
<1>3. result_union = AnswerOf(vec, {r \in Searched(vec) : r[2] < j})
  BY DEF Scanning
<1> QED  BY <1>2, <1>3 DEF LineOf, AnswerOf

-----------------------------------------------------------------------------
(* What is carried from clause to clause                                   *)

(* The elements of a sequence that grows.                                  *)
LEMMA RowIdsAppend ==
  ASSUME NEW S, NEW s \in Seq(S), NEW e \in S
  PROVE  RowIds(Append(s, e)) = RowIds(s) \cup {e}
<1>1. /\ Append(s, e) \in Seq(S) /\ Len(s) \in Nat
      /\ Len(Append(s, e)) = Len(s) + 1
      /\ \A p \in 1..Len(s) : Append(s, e)[p] = s[p]
      /\ Append(s, e)[Len(s) + 1] = e
  BY AppendProperties, LenProperties
<1>2. DOMAIN s = 1..Len(s) /\ DOMAIN Append(s, e) = 1..Len(s)+1
  BY <1>1, LenProperties
<1>3. 1..Len(s)+1 = 1..Len(s) \cup {Len(s)+1}
  BY <1>1
<1> QED  BY <1>1, <1>2, <1>3 DEF RowIds

LEMMA LinesStep == TypeOK /\ Scanning /\ Lines /\ [Next]_vars => Lines'
<1> SUFFICES ASSUME TypeOK, Scanning, Lines, [Next]_vars PROVE Lines'
  OBVIOUS
<1>0. /\ program \in {"disjunctive", "cnf", "conjunctive", "dnf"}
      /\ clauses \in Seq(Seq(Keywords))
  BY Bounds DEF TypeOK
<1>1. CASE UNCHANGED <<program, result_final, clauses, n_clause>>
  BY <1>1 DEF Lines
<1>2. CASE CombineClause
  <2>1. result_final = {} /\ program = "cnf" /\ program' = program
    BY <1>2 DEF CombineClause, Lines, VectorPrograms
  <2>2. Cardinality({}) = 0
    BY FS_EmptySet
  <2>3. result_final' = {}
    BY <1>2, <2>1, <2>2 DEF CombineClause, Intersections
  <2> QED  BY <2>1, <2>3 DEF Lines, VectorPrograms, DrawPrograms
<1>3. ASSUME NEW q \in Queries, SearchClause(q) PROVE Lines'
  <2>1. /\ program \in DrawPrograms /\ program' = program
        /\ result_final' = result_final \cup Found(db, tags, q)
        /\ clauses' = Append(clauses, q)
        /\ n_clause' = n_clause + 1
        /\ Len(q) = n_q_kw
        /\ \A p \in 1..Len(q)-1 : Frequency(q[p]) < Frequency(q[p+1])
    BY <1>3 DEF SearchClause, Drawing, Ordered
  <2>2. q \in Seq(Keywords)
    BY <1>3, SizesAssumption, SeqOf DEF Queries
  <2>3. RowIds(clauses') = RowIds(clauses) \cup {q}
    BY <1>0, <2>1, <2>2, RowIdsAppend
  <2>4. program = "conjunctive" => Len(clauses') = n_clause'
    BY <1>0, <2>1, <2>2, AppendProperties DEF Lines
  <2>5. /\ result_final = UNION {Found(db, tags, r) : r \in RowIds(clauses)}
        /\ \A r \in RowIds(clauses) :
            /\ Len(r) = n_q_kw
            /\ \A p \in 1..Len(r)-1 : Frequency(r[p]) < Frequency(r[p+1])
    BY <2>1 DEF Lines
  <2>6. result_final' = UNION {Found(db, tags, r) : r \in RowIds(clauses')}
    BY <2>1, <2>3, <2>5
  <2>7. \A r \in RowIds(clauses') :
            /\ Len(r) = n_q_kw
            /\ \A p \in 1..Len(r)-1 : Frequency(r[p]) < Frequency(r[p+1])
    BY <2>1, <2>3, <2>5
  <2> QED
    BY <2>1, <2>4, <2>6, <2>7 DEF Lines, VectorPrograms, DrawPrograms, Frequency
<1>4. ASSUME NEW q \in Queries, SkipClause(q) PROVE Lines'
  <2>1. /\ program \in DrawPrograms /\ program' = program
        /\ result_final' = result_final /\ clauses' = clauses
        /\ program # "dnf" => n_clause' = n_clause
    BY <1>4 DEF SkipClause, Drawing, outVars
  <2> QED  BY <2>1 DEF Lines, VectorPrograms, DrawPrograms
<1>5. CASE WriteLine
  <2>1. /\ program' = program /\ result_final' = {} /\ clauses' = <<>>
        /\ n_clause' = 0
    BY <1>5 DEF WriteLine
  <2>2. RowIds(clauses') = {} /\ Len(clauses') = 0
    BY <2>1 DEF RowIds
  <2> QED  BY <2>1, <2>2 DEF Lines
<1> QED
  BY <1>1, <1>2, <1>3, <1>4, <1>5
     DEF Next, Terminated, vars, LoadVector, LoadThrows, Push, SearchBin,
         SearchLastBin, SearchAgain, Search, ScanThrows, WriteVector, Finish,
         outVars

-----------------------------------------------------------------------------
(* How far the file has been read                                          *)

LEMMA FileReadStep ==
  TypeOK /\ Scanning /\ FileRead /\ Lines /\ [Next]_vars => FileRead'
<1> SUFFICES ASSUME TypeOK, Scanning, FileRead, Lines, [Next]_vars PROVE FileRead'
  OBVIOUS
<1>0. /\ program \in {"disjunctive", "cnf", "conjunctive", "dnf"}
      /\ i \in Nat /\ n_clause \in Nat /\ Len(file) \in Nat
  BY Bounds, FileType DEF TypeOK
<1>1. CASE UNCHANGED <<program, file, i, n_clause>>
  <2>1. RowIndex' = RowIndex
    BY <1>1, SameLoops
  <2> QED  BY <1>1, <2>1 DEF FileRead
<1>2. CASE WriteVector
  <2>1. /\ program = "disjunctive" /\ UNCHANGED <<program, file, n_clause>>
        /\ pc = "scan" /\ i' = i + 1 /\ j = Len(vec) + 1
    BY <1>2 DEF WriteVector
  <2>2. /\ i < Len(file) /\ vec = file[i+1] /\ Len(vec) # 1
    <3>1. i < LoopBound /\ vec = file[RowIndex + 1]
      BY <2>1, ScanFacts
    <3>2. Len(vec) \in Nat /\ (j > 1 => Len(vec) # 1)
      BY <2>1, ScanFacts DEF Scanning
    <3>3. LoopBound = Len(file) /\ RowIndex = i
      BY <2>1, Bounds DEF RowIndex
    <3>4. Len(vec) # 1
      <4>1. SUFFICES ASSUME Len(vec) = 1 PROVE FALSE
        OBVIOUS
      <4>2. j = 2
        BY <2>1, <4>1
      <4> QED  BY <3>2, <4>1, <4>2
    <3> QED  BY <3>1, <3>3, <3>4
  <2>3. RowIndex = i /\ RowIndex' = i + 1
    BY <2>1 DEF RowIndex
  <2>4. \A l \in 1..i : Len(file[l]) # 1
    BY <2>1, <2>3 DEF FileRead, VectorPrograms
  <2>5. \A l \in 1..i+1 : Len(file[l]) # 1
    BY <1>0, <2>2, <2>4
  <2> QED
    BY <1>0, <2>1, <2>2, <2>3, <2>5 DEF FileRead, VectorPrograms
<1>3. CASE CombineClause
  <2>1. /\ program = "cnf" /\ UNCHANGED <<program, file, i>>
        /\ pc = "scan" /\ n_clause' = n_clause + 1 /\ j = Len(vec) + 1
    BY <1>3 DEF CombineClause
  <2>2. RowIndex = 2 * i + n_clause /\ RowIndex' = RowIndex + 1
    BY <1>0, <2>1 DEF RowIndex
  <2>3. RowIndex < Len(file) /\ Len(file[RowIndex + 1]) # 1
    <3>1. RowIndex < Len(file) /\ vec = file[RowIndex + 1]
      BY <2>1, ScanFacts
    <3>2. Len(vec) \in Nat /\ j = Len(vec) + 1 /\ (j > 1 => Len(vec) # 1)
      BY <2>1, ScanFacts DEF Scanning
    <3>3. Len(vec) # 1
      BY ONLY <3>2
    <3> QED  BY ONLY <3>1, <3>3
  <2>4. \A l \in 1..RowIndex : Len(file[l]) # 1
    BY <2>1 DEF FileRead, VectorPrograms
  <2>5. \A l \in 1..RowIndex + 1 : Len(file[l]) # 1
    BY <1>0, <2>2, <2>3, <2>4
  <2>6. Len(file) < 2 => i = 0 /\ n_clause + 1 <= Len(file)
    BY <1>0, <2>1, <2>2, <2>3 DEF FileRead, VectorPrograms
  <2> QED
    BY <1>0, <2>1, <2>2, <2>5, <2>6 DEF FileRead, VectorPrograms
<1>4. CASE WriteLine
  <2>1. CASE program = "cnf"
    <3>1. /\ UNCHANGED <<program, file>> /\ i < LoopBound
          /\ n_clause = Clauses /\ i' = i + 1 /\ n_clause' = 0
      BY <1>4 DEF WriteLine
    <3>2. Clauses = 2
      BY <2>1, Bounds
    <3>3. Len(file) >= 2
      BY <1>0, <2>1, <3>1, <3>2 DEF FileRead, VectorPrograms
    <3>4. LoopBound = Len(file) \div 2 - 1 /\ Len(file) \div 2 \in Nat
      BY <2>1, <3>3, Bounds
    <3>5. RowIndex = 2 * i + 2 /\ RowIndex' = 2 * (i + 1)
      BY <2>1, <3>1, <3>2 DEF RowIndex
    <3>6. RowIndex' = RowIndex
      BY <1>0, <3>5
    <3>7. i + 1 <= Len(file) \div 2 - 1
      BY <1>0, <3>1, <3>4
    <3> QED
      BY <1>0, <2>1, <3>1, <3>3, <3>6, <3>7 DEF FileRead, VectorPrograms
  <2>2. CASE program # "cnf"
    BY <1>0, <1>4, <2>2 DEF WriteLine, FileRead, VectorPrograms
  <2> QED  BY <2>1, <2>2
<1>5. ASSUME NEW q \in Queries, SearchClause(q) \/ SkipClause(q) PROVE FileRead'
  BY <1>5 DEF SearchClause, SkipClause, Drawing, DrawPrograms, FileRead,
              VectorPrograms
<1> QED
  BY <1>1, <1>2, <1>3, <1>4, <1>5
     DEF Next, Terminated, vars, LoadVector, LoadThrows, Push, SearchBin,
         SearchLastBin, SearchAgain, Search, ScanThrows, Finish

-----------------------------------------------------------------------------
(* The lines                                                               *)

LEMMA LinesExactStep ==
  TypeOK /\ Scanning /\ Lines /\ LinesExact /\ EndsWhere /\ [Next]_vars => LinesExact'
<1> SUFFICES ASSUME TypeOK, Scanning, Lines, LinesExact, EndsWhere, [Next]_vars
             PROVE  LinesExact'
  OBVIOUS
<1>0. /\ program \in {"disjunctive", "cnf", "conjunctive", "dnf"}
      /\ res_id \in Seq(SUBSET Ids) /\ Len(res_id) \in Nat
      /\ result_union \subseteq Ids /\ result_final \subseteq Ids
  BY Bounds, LenProperties DEF TypeOK
<1>1. CASE UNCHANGED <<program, file, res_id>>
  BY <1>1 DEF LinesExact
<1>2. CASE WriteVector
  <2>1. /\ program = "disjunctive" /\ UNCHANGED <<program, file>>
        /\ pc = "scan" /\ j = Len(vec) + 1
        /\ res_id' = Append(res_id, result_union)
    BY <1>2 DEF WriteVector
  <2>2. Len(res_id) = i
    BY <2>1 DEF EndsWhere, VectorPrograms
  <2>3. vec = file[i + 1]
    BY <2>1, ScanFacts DEF RowIndex
  <2>4. result_union = LineOf(db, tags, vec)
    BY <2>1, ScannedClause DEF ClauseExact
  <2>5. /\ Len(res_id') = i + 1 /\ res_id'[i + 1] = result_union
        /\ \A l \in 1..i : res_id'[l] = res_id[l]
    BY <1>0, <2>1, <2>2, AppendProperties
  <2>6. ASSUME NEW l \in 1..i+1
        PROVE  res_id'[l] = LineOf(db, tags, file[l])
    <3>1. CASE l = i + 1
      BY <2>3, <2>4, <2>5, <3>1
    <3>2. CASE l \in 1..i
      <4>1. res_id'[l] = res_id[l]
        BY <2>5, <3>2
      <4>2. res_id[l] = LineOf(db, tags, file[l])
        BY <2>1, <2>2, <3>2 DEF LinesExact
      <4> QED  BY <4>1, <4>2
    <3>3. l = i + 1 \/ l \in 1..i
      BY <1>0, <2>2
    <3> QED  BY <3>1, <3>2, <3>3
  <2>7. LinesExact' <=> \A l \in 1..i+1 :
                          res_id'[l] = LineOf(db, tags, file[l])
    BY <2>1, <2>5 DEF LinesExact, LineOf, Searched, Bin, Part
  <2> QED  BY <2>6, <2>7
<1>3. CASE WriteLine
  <2>1. /\ program # "disjunctive" /\ UNCHANGED <<program, file>>
        /\ res_id' = Append(res_id, result_final)
    BY <1>3 DEF WriteLine
  <2>2. /\ Len(res_id') = Len(res_id) + 1
        /\ res_id'[Len(res_id) + 1] = result_final
        /\ \A l \in 1..Len(res_id) : res_id'[l] = res_id[l]
    BY <1>0, <2>1, AppendProperties
  <2>3. ASSUME program = "cnf", NEW l \in 1..Len(res_id) + 1
        PROVE  res_id'[l] = {}
    <3>1. result_final = {}
      BY <2>3 DEF Lines, VectorPrograms
    <3>2. CASE l = Len(res_id) + 1
      BY <2>2, <3>1, <3>2
    <3>3. CASE l \in 1..Len(res_id)
      BY <2>2, <2>3, <3>3 DEF LinesExact
    <3> QED  BY <1>0, <3>2, <3>3
  <2> QED  BY <2>1, <2>2, <2>3 DEF LinesExact
<1> QED
  BY <1>1, <1>2, <1>3
     DEF Next, Terminated, vars, LoadVector, LoadThrows, Push, SearchBin,
         SearchLastBin, SearchAgain, Search, ScanThrows, CombineClause,
         SearchClause, SkipClause, Finish, outVars

LEMMA QueriesStep ==
  TypeOK /\ Lines /\ LinesMatchQueries /\ [Next]_vars => LinesMatchQueries'
<1> SUFFICES ASSUME TypeOK, Lines, LinesMatchQueries, [Next]_vars
             PROVE  LinesMatchQueries'
  OBVIOUS
<1>0. /\ program \in {"disjunctive", "cnf", "conjunctive", "dnf"}
      /\ res_id \in Seq(SUBSET Ids) /\ Len(res_id) \in Nat
      /\ res_query \in Seq(Seq(Seq(Keywords))) /\ clauses \in Seq(Seq(Keywords))
      /\ result_final \subseteq Ids
      /\ program = "conjunctive" => Clauses = 1
  BY Bounds, LenProperties DEF TypeOK
<1>1. CASE UNCHANGED <<program, res_id, res_query>>
  BY <1>1 DEF LinesMatchQueries, Frequency
<1>2. CASE program' = program /\ program \notin DrawPrograms
  BY <1>2 DEF LinesMatchQueries
<1>3. CASE WriteLine /\ program \in DrawPrograms
  <2>1. /\ program \in DrawPrograms /\ program' = program
        /\ n_clause = Clauses
        /\ res_id' = Append(res_id, result_final)
        /\ res_query' = Append(res_query, clauses)
    BY <1>3 DEF WriteLine, DrawPrograms
  <2> DEFINE N == Len(res_id)
             Good(ids, qs) ==
               /\ ids = UNION {Found(db, tags, q) : q \in RowIds(qs)}
               /\ program = "conjunctive" => Len(qs) = 1
               /\ \A q \in RowIds(qs) :
                    /\ Len(q) = n_q_kw
                    /\ \A p \in 1..Len(q)-1 : Frequency(q[p]) < Frequency(q[p+1])
  <2>2. Len(res_query) = N /\ \A l \in 1..N : Good(res_id[l], res_query[l])
    BY <2>1 DEF LinesMatchQueries
  <2>3. /\ Len(res_id') = N + 1 /\ res_id'[N + 1] = result_final
        /\ \A l \in 1..N : res_id'[l] = res_id[l]
    BY <1>0, <2>1, AppendProperties
  <2>4. /\ Len(res_query') = N + 1 /\ res_query'[N + 1] = clauses
        /\ \A l \in 1..N : res_query'[l] = res_query[l]
    BY <1>0, <2>1, <2>2, AppendProperties
  <2>5. Good(result_final, clauses)
    BY <1>0, <2>1 DEF Lines
  <2> HIDE DEF Good
  <2>6. ASSUME NEW l \in 1..N+1 PROVE Good(res_id'[l], res_query'[l])
    <3>1. CASE l = N + 1
      BY <2>3, <2>4, <2>5, <3>1
    <3>2. CASE l \in 1..N
      BY <2>2, <2>3, <2>4, <3>2
    <3> QED  BY <1>0, <3>1, <3>2
  <2> QED
    BY <2>1, <2>3, <2>4, <2>6 DEF LinesMatchQueries, Good, Frequency
<1> QED
  BY <1>1, <1>2, <1>3
     DEF Next, Terminated, vars, LoadVector, LoadThrows, Push, SearchBin,
         SearchLastBin, SearchAgain, Search, ScanThrows, WriteVector,
         CombineClause, SearchClause, SkipClause, WriteLine, Finish, outVars,
         DrawPrograms

LEMMA EndsWhereStep ==
  TypeOK /\ Scanning /\ FileRead /\ Lines /\ EndsWhere /\ [Next]_vars => EndsWhere'
<1> SUFFICES ASSUME TypeOK, Scanning, FileRead, Lines, EndsWhere, [Next]_vars,
                    program \in VectorPrograms
             PROVE  EndsWhere'
  BY DEF EndsWhere, Next, Terminated, vars, LoadVector, LoadThrows, Push,
         SearchBin, SearchLastBin, SearchAgain, Search, ScanThrows, WriteVector,
         CombineClause, SearchClause, SkipClause, WriteLine, Finish
<1>0. /\ program \in {"disjunctive", "cnf"}
      /\ i \in Nat /\ n_clause \in Nat /\ Len(file) \in Nat /\ Len(res_id) = i
      /\ res_id \in Seq(SUBSET Ids) /\ result_union \subseteq Ids
      /\ result_final \subseteq Ids
  BY FileType DEF TypeOK, EndsWhere, VectorPrograms
<1>1. CASE UNCHANGED <<program, file, i, n_clause, pc, res_id>>
  <2>1. RowIndex' = RowIndex
    BY <1>1, SameLoops
  <2> QED  BY <1>1, <2>1 DEF EndsWhere
<1>2. CASE pc' \in {"line", "scan"} /\ res_id' = res_id /\ i' = i
  BY <1>0, <1>2 DEF EndsWhere
<1>3. CASE WriteVector
  <2>1. Len(res_id') = i' /\ pc' = "line"
    BY <1>0, <1>3, AppendProperties DEF WriteVector
  <2> QED  BY <2>1 DEF EndsWhere
<1>4. CASE WriteLine
  <2>1. Len(res_id') = i' /\ pc' = "line"
    BY <1>0, <1>4, AppendProperties DEF WriteLine
  <2> QED  BY <2>1 DEF EndsWhere
<1>5. CASE LoadThrows
  <2>1. /\ UNCHANGED <<program, file, i, n_clause, res_id>> /\ pc' = "thrown"
        /\ i < LoopBound /\ n_clause < Clauses /\ RowIndex >= Len(file)
    BY <1>5 DEF LoadThrows, Loading, outVars
  <2>2. program # "disjunctive"
    BY <1>0, <2>1, Bounds DEF RowIndex
  <2>3. Len(file) < 2
    <3>1. SUFFICES ASSUME Len(file) >= 2 PROVE FALSE
      BY <1>0
    <3>2. /\ LoopBound = Len(file) \div 2 - 1 /\ Clauses = 2
          /\ 2 * (Len(file) \div 2) <= Len(file) /\ Len(file) \div 2 \in Nat
      BY <1>0, <2>2, <3>1, Bounds
    <3>3. RowIndex = 2 * i + n_clause
      BY <1>0, <2>2 DEF RowIndex
    <3> QED  BY <1>0, <2>1, <3>2, <3>3
  <2> QED  BY <1>0, <2>1, <2>2, <2>3 DEF EndsWhere
<1>6. CASE ScanThrows
  <2>1. /\ UNCHANGED <<program, file, i, n_clause, res_id>> /\ pc' = "thrown"
        /\ pc = "scan" /\ Len(vec) = 1
    BY <1>6 DEF ScanThrows, outVars
  <2>2. RowIndex < Len(file) /\ vec = file[RowIndex + 1]
    BY <2>1, ScanFacts
  <2>3. \A l \in 1..RowIndex : Len(file[l]) # 1
    BY DEF FileRead
  <2>4. RowIndex' = RowIndex
    BY <2>1, SameLoops
  <2> QED  BY <1>0, <2>1, <2>2, <2>3, <2>4 DEF EndsWhere
<1>7. CASE Finish
  <2>1. /\ UNCHANGED <<program, file, i, n_clause, res_id>> /\ pc' = "done"
        /\ i >= LoopBound
    BY <1>7 DEF Finish, outVars
  <2>2. \A l \in 1..RowIndex : Len(file[l]) # 1
    BY DEF FileRead
  <2>3. i = 0 \/ i <= IF program = "cnf" THEN Len(file) \div 2 - 1 ELSE Len(file)
    BY DEF FileRead
  <2>4. CASE program = "disjunctive"
    <3>1. RowIndex = i /\ LoopBound = Len(file)
      BY <2>4, Bounds DEF RowIndex
    <3>2. i = Len(file)
      BY <1>0, <2>1, <2>3, <2>4, <3>1
    <3> QED  BY <1>0, <2>1, <2>2, <2>4, <3>1, <3>2 DEF EndsWhere
  <2>5. CASE program = "cnf"
    <3>1. RowIndex = 2 * i + n_clause
      BY <2>5 DEF RowIndex
    <3>2. UIntSpan \in Nat /\ UIntSpan >= 2
      BY SizesAssumption
    <3>3. Len(file) >= 2
      <4>1. SUFFICES ASSUME Len(file) < 2 PROVE FALSE
        BY <1>0
      <4>2. i = 0
        BY <2>5, <4>1 DEF FileRead
      <4>3. LoopBound = UIntSpan - 1
        BY <2>5, <4>1, Bounds
      <4> QED  BY <2>1, <3>2, <4>2, <4>3
    <3>4. /\ LoopBound = Len(file) \div 2 - 1 /\ Len(file) \div 2 \in Nat
          /\ Len(file) \div 2 >= 1
      BY <2>5, <3>3, Bounds
    <3>5. i = Len(file) \div 2 - 1
      BY <1>0, <2>1, <2>3, <2>5, <3>4
    <3>6. \A l \in 1..2 * i : Len(file[l]) # 1
      BY <1>0, <2>2, <3>1
    <3> QED  BY <1>0, <2>1, <2>5, <3>5, <3>6 DEF EndsWhere
  <2> QED  BY <1>0, <2>4, <2>5
<1>8. ~ \E q \in Queries : SearchClause(q) \/ SkipClause(q)
  BY DEF SearchClause, SkipClause, Drawing, DrawPrograms, VectorPrograms
<1> QED
  BY <1>1, <1>2, <1>3, <1>4, <1>5, <1>6, <1>7, <1>8
     DEF Next, Terminated, vars, LoadVector, Push, SearchBin, SearchLastBin,
         SearchAgain, Search, CombineClause, outVars

-----------------------------------------------------------------------------
(* The theorems                                                            *)

LEMMA InitInv == Init => IInv
<1> SUFFICES ASSUME Init PROVE IInv
  OBVIOUS
<1>1. TypeOK
  BY TypeInit
<1>2. Scanning /\ ClauseExact
  BY DEF Init, Scanning, ClauseExact
<1>3. RowIds(<<>>) = {} /\ Len(<<>>) = 0
  BY DEF RowIds
<1>4. Lines
  BY <1>3 DEF Init, Lines
<1>5. RowIndex = 0 \/ RowIndex = i
  BY DEF Init, RowIndex
<1>6. FileRead
  BY <1>1, <1>5, FileType DEF Init, FileRead
<1>7. LinesExact /\ LinesMatchQueries /\ EndsWhere
  BY <1>3 DEF Init, LinesExact, LinesMatchQueries, EndsWhere
<1> QED  BY <1>1, <1>2, <1>4, <1>6, <1>7 DEF IInv

LEMMA NextInv == IInv /\ [Next]_vars => IInv'
<1> SUFFICES ASSUME IInv, [Next]_vars PROVE IInv'
  OBVIOUS
<1>1. /\ TypeOK /\ Scanning /\ Lines /\ FileRead
      /\ LinesExact /\ ClauseExact /\ LinesMatchQueries /\ EndsWhere
  BY DEF IInv
<1>2. TypeOK' /\ Scanning'
  BY <1>1, TypeStep, ScanningStep
<1>3. ClauseExact'
  BY <1>2, ScannedClause, PTL
<1>4. Lines' /\ FileRead'
  BY <1>1, LinesStep, FileReadStep
<1>5. LinesExact' /\ LinesMatchQueries' /\ EndsWhere'
  BY <1>1, LinesExactStep, QueriesStep, EndsWhereStep
<1> QED  BY <1>2, <1>3, <1>4, <1>5 DEF IInv

(* The inductive invariant holds, for every database, filter, set of files *)
(* and number of keywords and iterations.                                  *)
THEOREM Invariance == Spec => []IInv
BY InitInv, NextInv, PTL DEF Spec

(* The programs keep to their types.                                       *)
THEOREM TypeCorrect == Spec => []TypeOK
<1>1. IInv => TypeOK
  BY DEF IInv
<1> QED  BY <1>1, Invariance, PTL

(* A line of the disjunctive program is exactly the union over the bins of *)
(* its vector, a last meta-keyword alone left out; cnf lines are empty.    *)
THEOREM LinesAreExact == Spec => []LinesExact
<1>1. IInv => LinesExact
  BY DEF IInv
<1> QED  BY <1>1, Invariance, PTL

(* Every clause that has been scanned has the answer of its vector.        *)
THEOREM ClausesAreExact == Spec => []ClauseExact
<1>1. IInv => ClauseExact
  BY DEF IInv
<1> QED  BY <1>1, Invariance, PTL

(* Lines of ids belong to the queries on the same line of res_query.       *)
THEOREM QueriesBelong == Spec => []LinesMatchQueries
<1>1. IInv => LinesMatchQueries
  BY DEF IInv
<1> QED  BY <1>1, Invariance, PTL

(* Where the programs that read vectors end, and after how many lines.     *)
THEOREM Endings == Spec => []EndsWhere
<1>1. IInv => EndsWhere
  BY DEF IInv
<1> QED  BY <1>1, Invariance, PTL
=============================================================================
