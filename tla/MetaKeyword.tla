---------------------------- MODULE MetaKeyword ----------------------------
(***************************************************************************)
(* The meta-keyword construction of disjunctive/database (and its copy in  *)
(* cnf/database): DB_GenMKW builds the meta-keyword database that the      *)
(* scheme encrypts, DB_ConvertQueryToMetaKeyword turns a disjunction of    *)
(* keywords into the conjunctions of meta-keywords to search for.          *)
(*                                                                         *)
(* Keywords are positions 0..N_KW-1, cut into bins of bin_stride.  A       *)
(* meta-keyword of a bin is a string with one gap of zeros: it stands for  *)
(* the disjunction of the bin's keywords outside the gap.  A disjunction   *)
(* is the union over the bins of the intersection over the maximal gaps    *)
(* between queried keywords.  The result may hold more ids than match.     *)
(***************************************************************************)
EXTENDS Integers, Sequences, SequencesExt, ConjunctiveSearch

CONSTANTS N_KW,        (* keywords of the plain database                   *)
          bin_stride,  (* keywords in a bin                                *)
          Ids          (* document ids                                     *)

ASSUME KeywordsAssumption == N_KW \in Nat \ {0} /\ bin_stride \in Nat \ {0}
ASSUME IdsAssumption == IsFiniteSet(Ids)

N_BINS == N_KW \div bin_stride + (IF N_KW % bin_stride = 0 THEN 0 ELSE 1)

(* The code tells an incomplete last bin by N_KW % N_BINS, which is not the*)
(* same as N_KW % bin_stride: with 4 keywords in strides of 3 the last     *)
(* boundary would be 6.  The sizes in use (6043 in strides of 5 and of 10) *)
(* keep clear of it.                                                       *)
ASSUME StrideAssumption == N_KW % N_BINS = 0 => N_KW % bin_stride = 0

Positions == 0..N_KW-1
Bins == 1..N_BINS

(* Mutant of bin_boundaries: the last bin is as long as the others.        *)
bin_boundariesMultiples == [b \in Bins |-> b * bin_stride]

bin_boundaries ==
  [b \in Bins |-> IF N_KW % N_BINS = 0 \/ b < N_BINS
                  THEN b * bin_stride ELSE N_KW]

(* The first position of a bin, and all of them.                           *)
Lo(c) == IF c = 1 THEN 0 ELSE bin_boundaries[c-1]
PositionsOf(c) == Lo(c)..bin_boundaries[c]-1

(* A meta-keyword is a string of length len, the end of its bin, with 1 at *)
(* the positions ones.  It also stands for its SHA-256 digest.             *)
Names == [len : 1..N_KW, ones : SUBSET Positions]

(* The string of the bin lo..n-1 that has zeros from a to z-1 only.        *)
GapName(lo, a, z, n) == [len |-> n, ones |-> (lo..a-1) \cup (z..n-1)]

AllZeroOrOne(m, lo) == m.ones \in {{}, lo..m.len-1}

VARIABLES
  raw_db,             (* ids of each keyword                               *)
  query,              (* queried positions                                 *)
  pc,
  b, prev,            (* bin of the loop and the end of the bin before     *)
  db_mkw, meta_db,    (* generated meta-keywords and their ids             *)
  i, start_i, mkw_bin,(* DB_find_MKW: position, start of gap, gaps found   *)
  hw_vec, bin_temp,   (* meta-keywords of the query and their bin indices  *)
  bin_uni,            (* union of the intersections so far                 *)
  s_vec, ra           (* result by meta-keywords, and by keywords          *)

genVars  == <<db_mkw, meta_db>>
scanVars == <<i, start_i, mkw_bin>>
outVars  == <<hw_vec, bin_temp, bin_uni>>
resVars  == <<s_vec, ra>>
vars == <<raw_db, query, pc, b, prev, genVars, scanVars, outVars, resVars>>

Init ==
  /\ raw_db \in [Positions -> SUBSET Ids]
  /\ query \in SUBSET Positions
  /\ pc = "generate" /\ b = 1 /\ prev = 0
  /\ db_mkw = {} /\ meta_db = [m \in {} |-> {}]
  /\ i = 0 /\ start_i = 0 /\ mkw_bin = <<>>
  /\ hw_vec = <<>> /\ bin_temp = <<>> /\ bin_uni = {}
  /\ s_vec = {} /\ ra = {}

NextBin == b' = b + 1 /\ prev' = bin_boundaries[b]

InBin == prev..bin_boundaries[b]-1

-----------------------------------------------------------------------------
(* DB_GenMKW                                                               *)

(* Mutant of BinNames: gaps stop before the last keyword of the bin.       *)
BinNamesShort(lo, n) ==
  {m \in {GapName(lo, g[1], g[2], n) :
             g \in {h \in (lo..n-1) \X (lo+1..n-1) : h[1] < h[2]}} :
     ~ AllZeroOrOne(m, lo)}

(* Every gap of the bin, except those that leave no 1.                     *)
BinNames(lo, n) ==
  {m \in {GapName(lo, g[1], g[2], n) :
             g \in {h \in (lo..n-1) \X (lo+1..n) : h[1] < h[2]}} :
     ~ AllZeroOrOne(m, lo)}

GenBin ==
  /\ pc = "generate" /\ b <= N_BINS
  /\ db_mkw' = db_mkw \cup BinNames(prev, bin_boundaries[b])
  /\ NextBin
  /\ UNCHANGED <<raw_db, query, pc, meta_db, scanVars, outVars, resVars>>

IdsOf(S) == UNION {raw_db[k] : k \in S}

(* The ids of every meta-keyword; then a query is converted.               *)
GenIds ==
  /\ pc = "generate" /\ b > N_BINS
  /\ meta_db' = [m \in db_mkw |-> IdsOf(m.ones)]
  /\ b' = 1 /\ prev' = 0
  /\ pc' = "bin"
  /\ UNCHANGED <<raw_db, query, db_mkw, scanVars, outVars, resVars>>

-----------------------------------------------------------------------------
(* DB_ConvertQueryToMetaKeyword, with DB_find_MKW unrolled                 *)

SkipBin ==
  /\ pc = "bin" /\ b <= N_BINS
  /\ InBin \cap query = {}
  /\ NextBin
  /\ UNCHANGED <<raw_db, query, pc, genVars, scanVars, outVars, resVars>>

StartBin ==
  /\ pc = "bin" /\ b <= N_BINS
  /\ InBin \cap query # {}
  /\ i' = prev /\ start_i' = prev
  /\ mkw_bin' = <<>>
  /\ pc' = "scan"
  /\ UNCHANGED <<raw_db, query, b, prev, genVars, outVars, resVars>>

(* The gap from start_i to z-1 is recorded, unless it is empty.            *)
EmitGap(z) ==
  LET m == GapName(prev, start_i, z, bin_boundaries[b])
  IN mkw_bin' = IF AllZeroOrOne(m, prev) THEN mkw_bin ELSE Append(mkw_bin, m)

ScanUnqueried ==
  /\ pc = "scan" /\ i < bin_boundaries[b] /\ i \notin query
  /\ i' = i + 1
  /\ UNCHANGED <<raw_db, query, pc, b, prev, genVars, start_i, mkw_bin,
                 outVars, resVars>>

(* Mutant of ScanQueried: the next gap starts at the queried keyword.      *)
ScanQueriedStay ==
  /\ pc = "scan" /\ i < bin_boundaries[b] /\ i \in query
  /\ EmitGap(i)
  /\ start_i' = i
  /\ i' = i + 1
  /\ UNCHANGED <<raw_db, query, pc, b, prev, genVars, outVars, resVars>>

ScanQueried ==
  /\ pc = "scan" /\ i < bin_boundaries[b] /\ i \in query
  /\ EmitGap(i)
  /\ start_i' = i + 1
  /\ i' = i + 1
  /\ UNCHANGED <<raw_db, query, pc, b, prev, genVars, outVars, resVars>>

(* Mutant of ScanTail: no gap after the last queried keyword.              *)
ScanTailNone ==
  /\ pc = "scan" /\ i = bin_boundaries[b]
  /\ pc' = "lookup"
  /\ UNCHANGED <<raw_db, query, b, prev, genVars, scanVars, outVars, resVars>>

ScanTail ==
  /\ pc = "scan" /\ i = bin_boundaries[b]
  /\ EmitGap(i)
  /\ pc' = "lookup"
  /\ UNCHANGED <<raw_db, query, b, prev, genVars, i, start_i, outVars,
                 resVars>>

(* The row of meta_db read for a name: one that is not found is reported,  *)
(* and the index of the name before, or an uninitialized one, is used.     *)
Rows == {r \in [1..Len(mkw_bin) -> db_mkw] :
           \A k \in DOMAIN r : mkw_bin[k] \in db_mkw => r[k] = mkw_bin[k]}

Intersection(rows) ==
  {d \in Ids : \A k \in 1..Len(mkw_bin) : d \in meta_db[rows[k]]}

(* Mutant of Lookup: the ids of a bin replace those of the bins before.    *)
LookupReplace ==
  /\ pc = "lookup" /\ mkw_bin # <<>>
  /\ \E rows \in Rows : bin_uni' = Intersection(rows)
  /\ hw_vec' = hw_vec \o mkw_bin
  /\ bin_temp' = bin_temp
       \o [k \in 1..Len(mkw_bin) |-> bin_boundaries[b] \div bin_stride]
  /\ pc' = "bin"
  /\ NextBin
  /\ UNCHANGED <<raw_db, query, genVars, scanVars, resVars>>

(* Mutant of Lookup: one index for all the meta-keywords of the bin.       *)
LookupTagOnce ==
  /\ pc = "lookup" /\ mkw_bin # <<>>
  /\ \E rows \in Rows : bin_uni' = bin_uni \cup Intersection(rows)
  /\ hw_vec' = hw_vec \o mkw_bin
  /\ bin_temp' = Append(bin_temp, bin_boundaries[b] \div bin_stride)
  /\ pc' = "bin"
  /\ NextBin
  /\ UNCHANGED <<raw_db, query, genVars, scanVars, resVars>>

Lookup ==
  /\ pc = "lookup" /\ mkw_bin # <<>>
  /\ \E rows \in Rows : bin_uni' = bin_uni \cup Intersection(rows)
  /\ hw_vec' = hw_vec \o mkw_bin
  /\ bin_temp' = bin_temp
       \o [k \in 1..Len(mkw_bin) |-> bin_boundaries[b] \div bin_stride]
  /\ pc' = "bin"
  /\ NextBin
  /\ UNCHANGED <<raw_db, query, genVars, scanVars, resVars>>

(* getIntersection reads sets[0] of an empty vector: the process dies.     *)
LookupNothing ==
  /\ pc = "lookup" /\ mkw_bin = <<>>
  /\ pc' = "crashed"
  /\ UNCHANGED <<raw_db, query, b, prev, genVars, scanVars, outVars, resVars>>

(* The query is converted; resultact computes the ids that really match.   *)
Answer ==
  /\ pc = "bin" /\ b > N_BINS
  /\ s_vec' = bin_uni
  /\ ra' = IdsOf(query)
  /\ pc' = "answered"
  /\ UNCHANGED <<raw_db, query, b, prev, genVars, scanVars, outVars>>

Next ==
  \/ GenBin \/ GenIds
  \/ SkipBin \/ StartBin
  \/ ScanUnqueried \/ ScanQueried \/ ScanTail
  \/ Lookup \/ LookupNothing
  \/ Answer

Spec == Init /\ [][Next]_vars

-----------------------------------------------------------------------------
(* Properties                                                              *)

(* Every variable keeps its type: the loops stay inside the bins and read  *)
(* no keyword beyond N_KW, neither of the database nor of the query.       *)
TypeOK ==
  /\ raw_db \in [Positions -> SUBSET Ids]
  /\ query \subseteq Positions
  /\ pc \in {"generate", "bin", "scan", "lookup", "answered", "crashed"}
  /\ b \in 1..N_BINS+1
  /\ prev \in 0..N_KW
  /\ db_mkw \subseteq Names
  /\ meta_db \in [IF pc = "generate" THEN {} ELSE db_mkw -> SUBSET Ids]
  /\ i \in 0..N_KW /\ start_i \in 0..N_KW
  /\ mkw_bin \in Seq(Names)
  /\ hw_vec \in Seq(Names)
  /\ bin_temp \in Seq(Nat)
  /\ bin_uni \subseteq Ids /\ s_vec \subseteq Ids /\ ra \subseteq Ids

(* The ids that the construction cannot tell from matches: those of two    *)
(* keywords of one bin, one on either side of a queried one.               *)
Between(c) ==
  {d \in Ids : \E p, q, r \in PositionsOf(c) :
     /\ p < q /\ q < r /\ q \in query
     /\ d \in raw_db[p] /\ d \in raw_db[r]}

(* The result of a disjunction holds every matching id, and what else it   *)
(* holds occurs in its bin on both sides of a queried keyword.             *)
ResultExact ==
  pc = "answered" => s_vec = ra \cup UNION {Between(c) : c \in Bins}

(* "Could not find meta-keyword!" is never printed: every meta-keyword the *)
(* conversion of a query forms has been generated.                         *)
AllGenerated ==
  pc = "lookup" => \A k \in 1..Len(mkw_bin) : mkw_bin[k] \in db_mkw

(* The conversion dies of the queries that have every keyword of some bin, *)
(* whose disjunction no meta-keyword of the bin stands for, and of no other*)
CrashOnWholeBin ==
  LET whole == \E c \in Bins : PositionsOf(c) \subseteq query
  IN (pc = "crashed" => whole) /\ (pc = "answered" => ~ whole)

(* The bin index written beside a meta-keyword is the index of its bucket: *)
(* two meta-keywords of a query have equal indices iff they are of one     *)
(* bucket, whose meta-keywords have the same length.                       *)
BinIndex ==
  /\ Len(bin_temp) = Len(hw_vec)
  /\ \A k, l \in 1..Len(hw_vec) :
       bin_temp[k] = bin_temp[l] <=> hw_vec[k].len = hw_vec[l].len

ShortLast == N_KW % bin_stride # 0

(* What the bin indices do tell: two meta-keywords of a query have equal   *)
(* indices iff they are of one bucket, or of the last bucket, if that is   *)
(* shorter than the stride, and the one before it.                         *)
BinTags ==
  /\ Len(bin_temp) = Len(hw_vec)
  /\ \A k, l \in 1..Len(hw_vec) :
       bin_temp[k] = bin_temp[l] <=>
         \/ hw_vec[k].len = hw_vec[l].len
         \/ /\ ShortLast
            /\ \A p \in {k, l} : \E c \in Bins :
                 c >= N_BINS - 1 /\ hw_vec[p].len = bin_boundaries[c]

Queried(c) == \E p \in PositionsOf(c) : p \in query

(* What the search program makes of the two vectors: the union over the    *)
(* runs of equal indices of the intersection of the rows.                  *)
FoundTogether ==
  UNION {{d \in Ids : \A k \in r[1]..r[2] : d \in meta_db[hw_vec[k]]} :
           r \in Runs(bin_temp)}

(* A program that searches the meta-keywords of a converted query together *)
(* where their indices are equal finds no more than the conversion found,  *)
(* and all of it unless the last bin is short and it and the bin before it *)
(* are both queried.                                                       *)
SearchesGive ==
  pc = "answered" =>
    /\ FoundTogether \subseteq s_vec
    /\ \/ s_vec \subseteq FoundTogether
       \/ /\ ShortLast
          /\ \A c \in {N_BINS - 1, N_BINS} : c \in Bins /\ Queried(c)

(* Query_processing writes the two vectors of a query into the line of one *)
(* file each, from which the search program reads them.                    *)
Vector == [k \in 1..Len(hw_vec) |-> [tv |-> hw_vec[k], bv |-> bin_temp[k]]]

(* The meta-keyword database as the scheme stores it: its ids in some order*)
(* and a filter that nothing collides in.                                  *)
MetaRows == [m \in db_mkw |-> SetToSeq(meta_db[m])]
MetaTags == {t \in db_mkw \X Ids : t[2] \in meta_db[t[1]]}

(* A bin of which a queried keyword lies between two that are not.         *)
Split(c) ==
  \E p, q, r \in PositionsOf(c) :
    p < q /\ q < r /\ q \in query /\ {p, r} \cap query = {}

(* The bins whose meta-keywords are taken for those of a neighbour.        *)
Confused(c) ==
  /\ ShortLast /\ c \in {N_BINS - 1, N_BINS}
  /\ \A e \in {N_BINS - 1, N_BINS} : e \in Bins /\ Queried(e)

(* A search for one meta-keyword reads the first id of its row.            *)
RowsRead ==
  \A r \in Searched(Vector) : r[1] = r[2] => meta_db[hw_vec[r[1]]] # {}

(* What the disjunctive program writes for a query, from the plain database*)
(* to the line of ids: nothing but the result of the conversion, and of it *)
(* all the ids that match in a bin, unless the bin's unqueried keywords are*)
(* consecutive, so that it has one meta-keyword only, or its meta-keywords *)
(* are taken for those of a neighbour.                                     *)
LineAnswers ==
  (pc = "answered" /\ RowsRead) =>
    LET line == LineOf(MetaRows, MetaTags, Vector)
    IN /\ line \subseteq s_vec
       /\ \A c \in Bins : Split(c) /\ ~ Confused(c) =>
            IdsOf(query \cap PositionsOf(c)) \subseteq line

-----------------------------------------------------------------------------
(* The inductive invariant                                                 *)

BinInv ==
  /\ prev = Lo(b)
  /\ pc \in {"scan", "lookup", "crashed"} => b \in Bins
  /\ pc = "answered" => b = N_BINS + 1

GenInv ==
  /\ pc = "generate" =>
       db_mkw = UNION {BinNames(Lo(c), bin_boundaries[c]) : c \in 1..b-1}
  /\ pc # "generate" =>
       /\ db_mkw = UNION {BinNames(Lo(c), bin_boundaries[c]) : c \in Bins}
       /\ meta_db = [m \in db_mkw |-> IdsOf(m.ones)]

(* A maximal run of keywords of bin b that are not queried.                *)
IsGap(a, z) ==
  /\ prev <= a /\ a < z /\ z <= bin_boundaries[b]
  /\ \A p \in a..z-1 : p \notin query
  /\ a = prev \/ a - 1 \in query
  /\ z = bin_boundaries[b] \/ z \in query

OnlyGaps ==
  \A k \in 1..Len(mkw_bin) : \E a, z \in 0..N_KW :
    IsGap(a, z) /\ mkw_bin[k] = GapName(prev, a, z, bin_boundaries[b])

(* Every keyword of the bin below z is queried or in a gap found.          *)
GapsBelow(z) ==
  \A p \in prev..z-1 :
    p \in query \/ \E k \in 1..Len(mkw_bin) : p \notin mkw_bin[k].ones

ScanInv ==
  /\ pc \in {"scan", "lookup"} =>
       (\E p \in PositionsOf(b) : p \in query) /\ OnlyGaps
  /\ pc = "scan" =>
       /\ prev <= start_i /\ start_i <= i /\ i <= bin_boundaries[b]
       /\ \A p \in start_i..i-1 : p \notin query
       /\ start_i = prev \/ start_i - 1 \in query
       /\ GapsBelow(start_i)
  /\ pc = "lookup" => GapsBelow(bin_boundaries[b])

Matching(z) == {d \in Ids : \E q \in query : q < z /\ d \in raw_db[q]}

UnionInv ==
  /\ pc = "generate" => bin_uni = {}
  /\ pc \in {"bin", "scan", "lookup"} =>
       bin_uni = Matching(prev) \cup UNION {Between(c) : c \in 1..b-1}

WholeInv ==
  /\ pc \in {"bin", "scan", "lookup", "answered"} =>
       \A c \in 1..b-1 : \E p \in PositionsOf(c) : p \notin query
  /\ pc = "crashed" => PositionsOf(b) \subseteq query

TagInv ==
  /\ Len(bin_temp) = Len(hw_vec)
  /\ \A k \in 1..Len(hw_vec) :
       /\ bin_temp[k] = hw_vec[k].len \div bin_stride
       /\ \E c \in Bins : hw_vec[k].len = bin_boundaries[c]

(* The meta-keywords of bin c are those from a to z.                       *)
Block(c, a, z) ==
  /\ a <= z
  /\ \A k \in 1..Len(hw_vec) :
       hw_vec[k].len = bin_boundaries[c] <=> k \in a..z

(* The ids found by all the meta-keywords of bin c.                        *)
BinFound(c) ==
  {d \in Ids : \A k \in 1..Len(hw_vec) :
     hw_vec[k].len = bin_boundaries[c] => d \in meta_db[hw_vec[k]]}

(* The meta-keywords of a bin follow one another, and give its part of the *)
(* result.                                                                 *)
BlockInv ==
  /\ pc = "generate" => Len(hw_vec) = 0
  /\ pc # "generate" =>
       /\ \A k \in 1..Len(hw_vec) : \E c \in 1..b-1 :
            Queried(c) /\ hw_vec[k].len = bin_boundaries[c]
       /\ \A c \in 1..b-1 :
            Queried(c) => \E a, z \in 1..Len(hw_vec) : Block(c, a, z)
       /\ bin_uni = UNION {BinFound(c) : c \in {x \in 1..b-1 : Queried(x)}}
  /\ pc = "answered" => s_vec = bin_uni

(* The k-th meta-keyword of the query is that of a gap of bin c.           *)
OfGap(k, c) ==
  \E a, z \in 0..N_KW :
    /\ Lo(c) <= a /\ a < z /\ z <= bin_boundaries[c]
    /\ \A p \in a..z-1 : p \notin query
    /\ hw_vec[k] = GapName(Lo(c), a, z, bin_boundaries[c])

(* A meta-keyword of bin c has keyword p in its gap.                       *)
InGap(c, p) ==
  \E k \in 1..Len(hw_vec) :
    hw_vec[k].len = bin_boundaries[c] /\ p \notin hw_vec[k].ones

(* The meta-keywords of the query were generated, and those of a bin it    *)
(* touches stand for gaps that hold every unqueried keyword and no other.  *)
NamesInv ==
  pc # "generate" =>
    /\ \A k \in 1..Len(hw_vec) :
         hw_vec[k] \in db_mkw /\ \E c \in 1..b-1 : OfGap(k, c)
    /\ \A c \in 1..b-1 : Queried(c) =>
         \A p \in PositionsOf(c) : p \in query \/ InGap(c, p)

(* Every loop of the construction has done its work for the bins before b  *)
(* and, in the scan, for the gaps before start_i.                          *)
IInv ==
  /\ TypeOK /\ BinInv /\ GenInv /\ ScanInv
  /\ UnionInv /\ WholeInv /\ TagInv /\ BlockInv /\ NamesInv
  /\ ResultExact

=============================================================================
