------------------------- MODULE MetaKeywordProofs --------------------------
(***************************************************************************)
(* Proofs about MetaKeyword, for every number of keywords, stride (but for *)
(* StrideAssumption), database and query.  The scan of a bin finds exactly *)
(* the maximal gaps between queried keywords (OnlyGaps, GapsBelow); two    *)
(* keywords in different gaps have a queried one between them, and so the  *)
(* intersection over the gaps is what BinResult says it is.                *)
(***************************************************************************)
EXTENDS MetaKeyword, SequenceTheorems, FiniteSetTheorems, TLAPS

-----------------------------------------------------------------------------
(* Bins                                                                    *)

LEMMA DivMod == ASSUME NEW n \in Nat, NEW s \in Nat \ {0}
                PROVE  /\ n \div s \in Nat /\ n % s \in 0..s-1
                       /\ n = (n \div s) * s + (n % s)
<1>1. n \div s \in Nat /\ n % s \in 0..s-1
  OBVIOUS
<1>2. n = (n \div s) * s + (n % s)
  OBVIOUS
<1> QED
  BY <1>1, <1>2

LEMMA Multiples == ASSUME NEW s \in Nat \ {0}, NEW p \in Nat, NEW q \in Nat, p <= q
                   PROVE  /\ p * s \in Nat /\ p * s <= q * s
                          /\ (p + 1) * s = p * s + s
  OBVIOUS

(* The bins cut the keywords into consecutive intervals.                   *)
LEMMA BinsPartition ==
  /\ N_BINS \in Nat \ {0}
  /\ Lo(1) = 0 /\ Lo(N_BINS + 1) = N_KW
  /\ \A c \in Bins : /\ Lo(c) \in Nat /\ bin_boundaries[c] \in Nat
                     /\ Lo(c) < bin_boundaries[c]
                     /\ bin_boundaries[c] <= N_KW
                     /\ Lo(c + 1) = bin_boundaries[c]
                     /\ PositionsOf(c) \subseteq Positions
                     /\ Lo(c) = (c - 1) * bin_stride
                     /\ bin_boundaries[c] = IF c = N_BINS THEN N_KW
                                            ELSE c * bin_stride
<1> DEFINE d == N_KW \div bin_stride
           r == N_KW % bin_stride
<1>1. d \in Nat /\ r \in 0..bin_stride-1 /\ N_KW = d * bin_stride + r
  BY DivMod, KeywordsAssumption
<1>2. N_BINS = IF r = 0 THEN d ELSE d + 1
  BY <1>1 DEF N_BINS
<1>3. r = 0 => d # 0
  BY <1>1, KeywordsAssumption
<1>4. N_BINS \in Nat \ {0}
  BY <1>1, <1>2, <1>3
<1>5. r # 0 => N_KW % N_BINS # 0
  BY StrideAssumption
<1> HIDE DEF d, r
<1>6. \A c \in Bins : bin_boundaries[c] = IF c = N_BINS THEN N_KW ELSE c * bin_stride
  <2> SUFFICES ASSUME NEW c \in Bins
               PROVE  bin_boundaries[c] =
                        IF c = N_BINS THEN N_KW ELSE c * bin_stride
    OBVIOUS
  <2>1. CASE r = 0
    <3>1. N_BINS = d /\ N_KW = d * bin_stride
      BY <2>1, <1>1, <1>2, KeywordsAssumption
    <3>2. c = N_BINS => c * bin_stride = N_KW
      BY <3>1
    <3>3. c # N_BINS => c < N_BINS
      BY <1>4 DEF Bins
    <3> QED
      BY <3>2, <3>3 DEF bin_boundaries
  <2>2. CASE r # 0
    BY <2>2, <1>4, <1>5 DEF bin_boundaries, Bins
  <2> QED
    BY <2>1, <2>2
<1>7. Lo(1) = 0
  BY DEF Lo
<1>8. Lo(N_BINS + 1) = N_KW
  BY <1>4, <1>6 DEF Lo, Bins
<1>9. ASSUME NEW c \in Bins
      PROVE  /\ Lo(c) \in Nat /\ bin_boundaries[c] \in Nat
             /\ Lo(c) < bin_boundaries[c] /\ bin_boundaries[c] <= N_KW
             /\ Lo(c + 1) = bin_boundaries[c]
             /\ Lo(c) = (c - 1) * bin_stride
  <2>1. c \in Nat /\ 1 <= c /\ c <= N_BINS
    BY <1>4, <1>9 DEF Bins
  <2>2. Lo(c) = (c - 1) * bin_stride
    <3>1. CASE c = 1
      BY <3>1, KeywordsAssumption DEF Lo
    <3>2. CASE c # 1
      <4>1. c - 1 \in Bins /\ c - 1 # N_BINS
        BY <2>1, <3>2, <1>4 DEF Bins
      <4> QED
        BY <4>1, <3>2, <1>6 DEF Lo
    <3> QED
      BY <3>1, <3>2
  <2>3. /\ (c - 1) * bin_stride \in Nat
        /\ c * bin_stride = (c - 1) * bin_stride + bin_stride
    BY <2>1, KeywordsAssumption, Multiples
  <2>4. CASE c # N_BINS
    <3>1. c * bin_stride <= d * bin_stride
      BY <2>1, <2>4, <1>1, <1>2, KeywordsAssumption, Multiples
    <3>2. d * bin_stride \in Nat
      BY <1>1, KeywordsAssumption
    <3> QED
      BY <2>1, <2>2, <2>3, <2>4, <3>1, <3>2, <1>1, <1>6, KeywordsAssumption DEF Lo
  <2>5. CASE c = N_BINS
    <3>1. CASE r = 0
      BY <3>1, <2>1, <2>2, <2>3, <2>5, <1>1, <1>2, <1>6, KeywordsAssumption DEF Lo
    <3>2. CASE r # 0
      <4>1. c - 1 = d
        BY <3>2, <2>1, <2>5, <1>1, <1>2
      <4>2. d * bin_stride \in Nat
        BY <1>1, KeywordsAssumption
      <4> QED
        BY <3>2, <4>1, <4>2, <2>1, <2>2, <2>5, <1>1, <1>6, KeywordsAssumption DEF Lo
    <3> QED
      BY <3>1, <3>2
  <2> QED
    BY <2>4, <2>5
<1>10. ASSUME NEW c \in Bins PROVE PositionsOf(c) \subseteq Positions
  BY <1>9, KeywordsAssumption DEF PositionsOf, Positions
<1> QED
  BY <1>4, <1>6, <1>7, <1>8, <1>9, <1>10

(* No two bins have one end.                                               *)
LEMMA BoundariesDiffer ==
  ASSUME NEW c \in Bins, NEW e \in Bins, bin_boundaries[c] = bin_boundaries[e]
  PROVE  c = e
<1>1. ASSUME NEW x \in Bins, NEW y \in Bins, x < y
      PROVE  bin_boundaries[x] < bin_boundaries[y]
  <2>1. x \in Nat /\ y - 1 \in Nat /\ x <= y - 1 /\ x # N_BINS
    BY <1>1, BinsPartition DEF Bins
  <2>2. x * bin_stride <= (y - 1) * bin_stride
    BY <2>1, KeywordsAssumption, Multiples
  <2>3. bin_boundaries[x] <= Lo(y)
    BY <2>1, <2>2, BinsPartition
  <2> QED
    BY <2>3, BinsPartition
<1>2. c \in Nat /\ e \in Nat
  BY BinsPartition DEF Bins
<1>3. bin_boundaries[c] \in Nat
  BY BinsPartition
<1>4. ~ (c < e) /\ ~ (e < c)
  BY <1>1, <1>3
<1> QED
  BY <1>2, <1>4

(* The bin index that is written for the end of a bin.                     *)
LEMMA TagOfBin ==
  ASSUME NEW c \in Bins
  PROVE  bin_boundaries[c] \div bin_stride =
           IF ShortLast /\ c = N_BINS THEN N_BINS - 1 ELSE c
<1> DEFINE d == N_KW \div bin_stride
           r == N_KW % bin_stride
<1>1. d \in Nat /\ r \in 0..bin_stride-1 /\ N_KW = d * bin_stride + r
  BY DivMod, KeywordsAssumption
<1>2. N_BINS = IF r = 0 THEN d ELSE d + 1
  BY <1>1 DEF N_BINS
<1>3. c \in Nat
  BY BinsPartition DEF Bins
<1>4. (c * bin_stride) \div bin_stride = c
  BY <1>3, KeywordsAssumption
<1>5. CASE c # N_BINS
  BY <1>4, <1>5, BinsPartition
<1>6. CASE c = N_BINS
  <2>1. bin_boundaries[c] = N_KW
    BY <1>6, BinsPartition
  <2> QED
    BY <1>1, <1>2, <1>6, <2>1 DEF ShortLast
<1> QED
  BY <1>5, <1>6

LEMMA BinIndices == /\ Bins = 1..N_BINS
                    /\ \A c \in Bins : c \in Nat /\ c >= 1 /\ 1..c-1 \subseteq Bins
                    /\ \A c \in Bins : 1..(c+1)-1 = (1..c-1) \cup {c}
                    /\ 1..(N_BINS + 1)-1 = Bins
  BY BinsPartition DEF Bins

-----------------------------------------------------------------------------
(* Meta-keywords                                                           *)

LEMMA GapNameType ==
  ASSUME NEW lo \in Nat, NEW n \in Nat, NEW a \in Nat, NEW z \in Nat,
         lo <= a, a <= z, z <= n, lo < n, n <= N_KW
  PROVE  /\ GapName(lo, a, z, n) \in Names
         /\ GapName(lo, a, z, n).len = n
         /\ GapName(lo, a, z, n).ones = (lo..a-1) \cup (z..n-1)
<1>1. n \in 1..N_KW
  BY KeywordsAssumption
<1>2. (lo..a-1) \cup (z..n-1) \in SUBSET Positions
  BY KeywordsAssumption DEF Positions
<1> QED
  BY <1>1, <1>2 DEF GapName, Names

LEMMA BinNamesType == ASSUME NEW c \in Bins
                      PROVE  BinNames(Lo(c), bin_boundaries[c]) \subseteq Names
<1> DEFINE lo == Lo(c)
           n == bin_boundaries[c]
<1>1. lo \in Nat /\ n \in Nat /\ lo < n /\ n <= N_KW
  BY BinsPartition
<1>2. ASSUME NEW g \in (lo..n-1) \X (lo+1..n), g[1] < g[2]
      PROVE  GapName(lo, g[1], g[2], n) \in Names
  <2>1. g[1] \in lo..n-1 /\ g[2] \in lo+1..n
    OBVIOUS
  <2> HIDE DEF lo, n
  <2>2. /\ g[1] \in Nat /\ g[2] \in Nat
        /\ lo <= g[1] /\ g[1] <= g[2] /\ g[2] <= n
    BY <1>1, <1>2, <2>1
  <2> QED
    BY <1>1, <2>2, GapNameType
<1> HIDE DEF lo, n
<1>3. BinNames(lo, n) \subseteq Names
  BY <1>2 DEF BinNames
<1> QED
  BY <1>3 DEF lo, n

(* A gap that leaves a 1 is among the generated meta-keywords of its bin.  *)
LEMMA GapGenerated ==
  ASSUME NEW lo \in Nat, NEW n \in Nat, NEW a \in Nat, NEW z \in Nat,
         lo <= a, a < z, z <= n, n <= N_KW, GapName(lo, a, z, n).ones # {}
  PROVE  GapName(lo, a, z, n) \in BinNames(lo, n)
<1>1. <<a, z>> \in {h \in (lo..n-1) \X (lo+1..n) : h[1] < h[2]}
  OBVIOUS
<1>2. GapName(lo, a, z, n) \in
        {GapName(lo, g[1], g[2], n) :
           g \in {h \in (lo..n-1) \X (lo+1..n) : h[1] < h[2]}}
  BY <1>1
<1>3. ~ AllZeroOrOne(GapName(lo, a, z, n), lo)
  <2>1. a \in lo..n-1 /\ a \notin (lo..a-1) \cup (z..n-1)
    OBVIOUS
  <2>2. /\ GapName(lo, a, z, n).len = n
        /\ GapName(lo, a, z, n).ones = (lo..a-1) \cup (z..n-1)
    BY GapNameType
  <2> QED
    BY <2>1, <2>2 DEF AllZeroOrOne
<1> QED
  BY <1>2, <1>3 DEF BinNames

-----------------------------------------------------------------------------
(* The scan of a bin                                                       *)

(* What holds of the bin of the loop while it is scanned.                  *)
LEMMA BinOfLoop ==
  ASSUME TypeOK, BinInv, b \in Bins
  PROVE  /\ prev \in Nat /\ bin_boundaries[b] \in Nat
         /\ prev < bin_boundaries[b] /\ bin_boundaries[b] <= N_KW
         /\ PositionsOf(b) = prev..bin_boundaries[b]-1
         /\ InBin = PositionsOf(b)
         /\ Lo(b + 1) = bin_boundaries[b]
         /\ b + 1 \in 1..N_BINS+1
         /\ PositionsOf(b) \subseteq Positions
<1>1. prev = Lo(b)
  BY DEF BinInv
<1>2. b \in Nat /\ 1 <= b /\ b <= N_BINS /\ N_BINS \in Nat
  BY BinsPartition DEF Bins
<1> QED
  BY <1>1, <1>2, BinsPartition DEF PositionsOf, InBin

LEMMA IdsOfMember == ASSUME NEW S, NEW d
                     PROVE  d \in IdsOf(S) <=> \E p \in S : d \in raw_db[p]
  BY DEF IdsOf

(* A meta-keyword found is the name of a gap.                              *)
LEMMA FoundGap ==
  ASSUME TypeOK, BinInv, b \in Bins, OnlyGaps, NEW k \in 1..Len(mkw_bin)
  PROVE  \E a, z \in 0..N_KW :
           /\ IsGap(a, z)
           /\ mkw_bin[k] = GapName(prev, a, z, bin_boundaries[b])
           /\ mkw_bin[k].ones = (prev..a-1) \cup (z..bin_boundaries[b]-1)
<1> DEFINE n == bin_boundaries[b]
<1>1. PICK a \in 0..N_KW, z \in 0..N_KW :
        IsGap(a, z) /\ mkw_bin[k] = GapName(prev, a, z, n)
  BY DEF OnlyGaps
<1>2. prev \in Nat /\ n \in Nat /\ prev < n /\ n <= N_KW
  BY BinOfLoop
<1>3. a \in Nat /\ z \in Nat
  BY KeywordsAssumption
<1>4. prev <= a /\ a < z /\ z <= n
  BY <1>1 DEF IsGap
<1> HIDE DEF n
<1>5. mkw_bin[k].ones = (prev..a-1) \cup (z..n-1)
  BY <1>1, <1>2, <1>3, <1>4, GapNameType
<1> QED
  BY <1>1, <1>5 DEF n

(* A gap found has zeros at keywords that are not queried, and a keyword   *)
(* of the bin that is not queried either is in the gap or has a queried one*)
(* between itself and every keyword of the gap.                            *)
LEMMA GapShape ==
  ASSUME TypeOK, BinInv, b \in Bins, OnlyGaps,
         NEW k \in 1..Len(mkw_bin), NEW p \in PositionsOf(b),
         p \notin mkw_bin[k].ones
  PROVE  /\ p \notin query
         /\ \A r \in PositionsOf(b) :
              (r \notin query /\ r \in mkw_bin[k].ones) =>
                \E q \in query : \/ p < q /\ q < r
                                 \/ r < q /\ q < p
<1> DEFINE n == bin_boundaries[b]
<1>1. PICK a \in 0..N_KW, z \in 0..N_KW :
        IsGap(a, z) /\ mkw_bin[k].ones = (prev..a-1) \cup (z..n-1)
  BY FoundGap
<1>2. /\ prev \in Nat /\ n \in Nat /\ prev < n /\ n <= N_KW
      /\ PositionsOf(b) = prev..n-1
  BY BinOfLoop
<1>3. a \in Nat /\ z \in Nat
  BY KeywordsAssumption
<1>4. /\ prev <= a /\ a < z /\ z <= n
      /\ \A x \in a..z-1 : x \notin query
      /\ a = prev \/ a - 1 \in query
      /\ z = n \/ z \in query
  BY <1>1 DEF IsGap
<1> HIDE DEF n
<1>6. p \in a..z-1
  BY <1>1, <1>2, <1>3, <1>4
<1>7. p \notin query
  BY <1>4, <1>6
<1>8. ASSUME NEW r \in PositionsOf(b), r \notin query, r \in mkw_bin[k].ones
      PROVE  \E q \in query : (p < q /\ q < r) \/ (r < q /\ q < p)
  <2>1. CASE r \in prev..a-1
    <3>1. a - 1 \in query
      BY <2>1, <1>2, <1>3, <1>4
    <3>2. r # a - 1
      BY <3>1, <1>8
    <3>3. r < a - 1 /\ a - 1 < p
      BY <2>1, <3>2, <1>2, <1>3, <1>6
    <3> QED
      BY <3>1, <3>3
  <2>2. CASE r \in z..n-1
    <3>1. z \in query
      BY <2>2, <1>2, <1>3, <1>4
    <3>2. r # z
      BY <3>1, <1>8
    <3>3. p < z /\ z < r
      BY <2>2, <3>2, <1>2, <1>3, <1>6
    <3> QED
      BY <3>1, <3>3
  <2> QED
    BY <2>1, <2>2, <1>1, <1>8
<1> QED
  BY <1>7, <1>8

(* Every meta-keyword found by the scan has been generated.                *)
LEMMA FoundGenerated ==
  ASSUME IInv, pc = "lookup", NEW k \in 1..Len(mkw_bin)
  PROVE  mkw_bin[k] \in db_mkw
<1> DEFINE n == bin_boundaries[b]
<1>0. TypeOK /\ BinInv /\ OnlyGaps /\ b \in Bins
  BY DEF IInv, BinInv, ScanInv
<1>1. PICK a \in 0..N_KW, z \in 0..N_KW :
        /\ IsGap(a, z)
        /\ mkw_bin[k] = GapName(prev, a, z, n)
        /\ mkw_bin[k].ones = (prev..a-1) \cup (z..n-1)
  BY <1>0, FoundGap
<1>2. /\ prev \in Nat /\ n \in Nat /\ prev < n /\ n <= N_KW
      /\ PositionsOf(b) = prev..n-1
  BY <1>0, BinOfLoop
<1>3. a \in Nat /\ z \in Nat
  BY KeywordsAssumption
<1>4. /\ prev <= a /\ a < z /\ z <= n
      /\ \A x \in a..z-1 : x \notin query
  BY <1>1 DEF IsGap
<1>5. PICK p \in PositionsOf(b) : p \in query
  BY DEF IInv, ScanInv
<1> HIDE DEF n
<1>7. p \in mkw_bin[k].ones
  <2>1. p \in prev..n-1 /\ p \notin a..z-1
    BY <1>2, <1>4, <1>5
  <2> QED
    BY <2>1, <1>1, <1>2, <1>3, <1>4
<1>8. mkw_bin[k] \in BinNames(prev, n)
  <2>1. GapName(prev, a, z, n).ones # {}
    BY <1>1, <1>7
  <2> QED
    BY <2>1, <1>1, <1>2, <1>3, <1>4, GapGenerated
<1>9. prev = Lo(b)
  BY <1>0 DEF BinInv
<1>10. db_mkw = UNION {BinNames(Lo(c), bin_boundaries[c]) : c \in Bins}
  BY DEF IInv, GenInv
<1> QED
  BY <1>0, <1>8, <1>9, <1>10 DEF n

(* The intersection of a bin: the ids of its queried keywords and those    *)
(* between which the gaps do not tell.                                     *)
LEMMA BinResult ==
  ASSUME IInv, pc = "lookup", mkw_bin # <<>>, NEW rows \in Rows
  PROVE  Intersection(rows) =
           {d \in Ids : \E q \in PositionsOf(b) : q \in query /\ d \in raw_db[q]}
             \cup Between(b)
<1>0. /\ TypeOK /\ BinInv /\ OnlyGaps /\ b \in Bins
      /\ GapsBelow(bin_boundaries[b])
  BY DEF IInv, BinInv, ScanInv
<1>1. /\ PositionsOf(b) = prev..bin_boundaries[b]-1
      /\ PositionsOf(b) \subseteq Positions
      /\ prev \in Nat /\ bin_boundaries[b] \in Nat
      /\ bin_boundaries[b] <= N_KW /\ prev < bin_boundaries[b]
  BY <1>0, BinOfLoop
<1>2. \A k \in 1..Len(mkw_bin) : rows[k] = mkw_bin[k]
  BY FoundGenerated DEF Rows
<1>3. mkw_bin \in Seq(Names)
  BY <1>0 DEF TypeOK
<1>4. \A k \in 1..Len(mkw_bin) :
        /\ mkw_bin[k].ones \subseteq PositionsOf(b)
        /\ meta_db[rows[k]] = IdsOf(mkw_bin[k].ones)
  <2> SUFFICES ASSUME NEW k \in 1..Len(mkw_bin)
               PROVE  /\ mkw_bin[k].ones \subseteq PositionsOf(b)
                      /\ meta_db[rows[k]] = IdsOf(mkw_bin[k].ones)
    OBVIOUS
  <2>1. PICK a \in 0..N_KW, z \in 0..N_KW :
          /\ IsGap(a, z)
          /\ mkw_bin[k].ones = (prev..a-1) \cup (z..bin_boundaries[b]-1)
    BY <1>0, FoundGap
  <2>3. mkw_bin[k].ones \subseteq PositionsOf(b)
    BY <2>1, <1>1, KeywordsAssumption DEF IsGap
  <2>4. mkw_bin[k] \in db_mkw
    BY FoundGenerated
  <2>5. meta_db = [m \in db_mkw |-> IdsOf(m.ones)]
    BY DEF IInv, GenInv
  <2> QED
    BY <2>3, <2>4, <2>5, <1>2
<1>5. \A d : d \in Intersection(rows) <=>
        d \in Ids /\ \A k \in 1..Len(mkw_bin) :
                      \E p \in mkw_bin[k].ones : d \in raw_db[p]
  <2>1. \A k \in 1..Len(mkw_bin) : \A d :
          d \in meta_db[rows[k]] <=> \E p \in mkw_bin[k].ones : d \in raw_db[p]
    BY <1>4, IdsOfMember
  <2> QED
    BY <2>1 DEF Intersection
<1>6. 1 \in 1..Len(mkw_bin)
  BY <1>3, EmptySeq
<1>7. ASSUME NEW d \in Intersection(rows),
             ~ \E q \in PositionsOf(b) : q \in query /\ d \in raw_db[q]
      PROVE  d \in Between(b)
  <2>1. d \in Ids
    BY <1>5, <1>7
  <2>2. PICK p \in mkw_bin[1].ones : d \in raw_db[p]
    BY <1>5, <1>6, <1>7
  <2>3. p \in PositionsOf(b) /\ p \notin query
    BY <2>2, <1>4, <1>6, <1>7
  <2>4. PICK k \in 1..Len(mkw_bin) : p \notin mkw_bin[k].ones
    BY <2>3, <1>0, <1>1 DEF GapsBelow
  <2>5. PICK r \in mkw_bin[k].ones : d \in raw_db[r]
    BY <2>4, <1>5, <1>7
  <2>6. r \in PositionsOf(b) /\ r \notin query
    BY <2>5, <1>4, <1>7
  <2>7. PICK q \in query : (p < q /\ q < r) \/ (r < q /\ q < p)
    BY <2>3, <2>4, <2>6, <1>0, GapShape
  <2>8. q \in PositionsOf(b)
    <3>1. q \in Int
      BY <1>0, KeywordsAssumption DEF TypeOK, Positions
    <3> QED
      BY <3>1, <2>3, <2>6, <2>7, <1>1
  <2> QED
    BY <2>1, <2>2, <2>3, <2>5, <2>6, <2>7, <2>8 DEF Between
<1>8. ASSUME NEW d \in Ids, NEW q \in PositionsOf(b), q \in query, d \in raw_db[q]
      PROVE  d \in Intersection(rows)
  <2>1. \A k \in 1..Len(mkw_bin) : q \in mkw_bin[k].ones
    BY <1>0, <1>8, GapShape
  <2> QED
    BY <2>1, <1>5, <1>8
<1>9. ASSUME NEW d \in Between(b) PROVE d \in Intersection(rows)
  <2>1. PICK p \in PositionsOf(b), q \in PositionsOf(b), r \in PositionsOf(b) :
          /\ p < q /\ q < r /\ q \in query
          /\ d \in raw_db[p] /\ d \in raw_db[r]
    BY DEF Between
  <2>2. d \in Ids
    BY DEF Between
  <2>3. ASSUME NEW k \in 1..Len(mkw_bin)
        PROVE  p \in mkw_bin[k].ones \/ r \in mkw_bin[k].ones
    <3>1. PICK a \in 0..N_KW, z \in 0..N_KW :
            /\ IsGap(a, z)
            /\ mkw_bin[k].ones = (prev..a-1) \cup (z..bin_boundaries[b]-1)
      BY <1>0, FoundGap
    <3>3. q \notin a..z-1
      BY <2>1, <3>1 DEF IsGap
    <3> QED
      BY <2>1, <3>1, <3>3, <1>1, KeywordsAssumption
  <2> QED
    BY <2>1, <2>2, <2>3, <1>5
<1>10. \A d \in Between(b) : d \in Ids
  BY DEF Between
<1> QED
  BY <1>5, <1>7, <1>8, <1>9, <1>10

-----------------------------------------------------------------------------
(* The inductive invariant                                                 *)

LEMMA InitIInv == Init => IInv
<1> SUFFICES ASSUME Init PROVE IInv
  OBVIOUS
<1>1. /\ N_BINS \in Nat \ {0} /\ Lo(1) = 0
  BY BinsPartition
<1>2. 1..1-1 = {}
  OBVIOUS
<1>3. TypeOK
  BY <1>1, EmptySeq, KeywordsAssumption DEF Init, TypeOK
<1>4. BinInv /\ WholeInv /\ ScanInv /\ ResultExact
  BY <1>1 DEF Init, BinInv, WholeInv, ScanInv, ResultExact
<1>5. GenInv /\ UnionInv
  BY <1>2 DEF Init, GenInv, UnionInv
<1>6. TagInv /\ BlockInv /\ NamesInv
  BY DEF Init, TagInv, BlockInv, NamesInv
<1> QED
  BY <1>3, <1>4, <1>5, <1>6 DEF IInv

(* The part of the invariant on the generated database is kept by every    *)
(* step of the conversion of a query.                                      *)
LEMMA GenKept ==
  ASSUME GenInv, pc # "generate", pc' # "generate", UNCHANGED <<raw_db, genVars>>
  PROVE  GenInv'
  BY DEF GenInv, genVars, IdsOf

LEMMA TagKept == ASSUME TagInv, UNCHANGED outVars PROVE TagInv'
  BY DEF TagInv, outVars

LEMMA BlockKept ==
  ASSUME BlockInv, pc # "generate", pc' \notin {"generate", "answered"},
         UNCHANGED <<query, b, meta_db, outVars>>
  PROVE  BlockInv'
<1>1. \A c : Queried(c)' <=> Queried(c)
  BY DEF Queried
<1>2. \A c, a, z : Block(c, a, z)' <=> Block(c, a, z)
  BY DEF Block, outVars
<1>3. \A c : BinFound(c)' = BinFound(c)
  BY DEF BinFound, outVars
<1> QED
  BY <1>1, <1>2, <1>3 DEF BlockInv, outVars

LEMMA NamesKept ==
  ASSUME NamesInv, pc # "generate",
         UNCHANGED <<query, b, db_mkw, hw_vec>>
  PROVE  NamesInv'
<1>1. /\ \A c : Queried(c)' <=> Queried(c)
      /\ \A c, p : InGap(c, p)' <=> InGap(c, p)
      /\ \A k, c : OfGap(k, c)' <=> OfGap(k, c)
  BY DEF Queried, InGap, OfGap
<1> QED
  BY <1>1 DEF NamesInv

LEMMA UnionKept ==
  ASSUME UnionInv, pc \in {"bin", "scan", "lookup"}, pc' \in {"scan", "lookup"},
         UNCHANGED <<raw_db, query, b, prev, outVars>>
  PROVE  UnionInv'
  BY DEF UnionInv, Matching, Between, outVars

LEMMA WholeKept ==
  ASSUME WholeInv, pc \in {"bin", "scan", "lookup"},
         pc' \in {"bin", "scan", "lookup", "answered"}, UNCHANGED <<query, b>>
  PROVE  WholeInv'
  BY DEF WholeInv

LEMMA StepGenBin == IInv /\ GenBin => IInv'
<1> SUFFICES ASSUME IInv, GenBin PROVE IInv'
  OBVIOUS
<1>0. /\ TypeOK /\ BinInv /\ b \in Bins
      /\ raw_db' = raw_db /\ query' = query /\ pc = "generate" /\ pc' = pc
      /\ b' = b + 1 /\ prev' = bin_boundaries[b] /\ meta_db' = meta_db
      /\ i' = i /\ start_i' = start_i /\ mkw_bin' = mkw_bin
      /\ hw_vec' = hw_vec /\ bin_temp' = bin_temp /\ bin_uni' = bin_uni
      /\ s_vec' = s_vec /\ ra' = ra
  <2>1. b <= N_BINS /\ b \in 1..N_BINS+1
    BY DEF GenBin, IInv, TypeOK
  <2> QED
    BY <2>1, BinsPartition
       DEF GenBin, NextBin, scanVars, outVars, resVars, IInv, Bins
<1>1. /\ bin_boundaries[b] \in Nat /\ bin_boundaries[b] <= N_KW
      /\ Lo(b + 1) = bin_boundaries[b] /\ b + 1 \in 1..N_BINS+1
  BY <1>0, BinOfLoop
<1>2. db_mkw' = db_mkw \cup BinNames(Lo(b), bin_boundaries[b])
  BY <1>0 DEF GenBin, BinInv
<1>3. TypeOK'
  <2>1. db_mkw' \subseteq Names
    BY <1>0, <1>2, BinNamesType DEF TypeOK
  <2>2. meta_db' \in [{} -> SUBSET Ids]
    BY <1>0 DEF TypeOK
  <2> QED
    BY <1>0, <1>1, <2>1, <2>2, KeywordsAssumption DEF TypeOK
<1>4. BinInv' /\ WholeInv' /\ ScanInv' /\ ResultExact'
  BY <1>0, <1>1 DEF BinInv, WholeInv, ScanInv, ResultExact
<1>5. GenInv'
  <2>1. 1..(b+1)-1 = (1..b-1) \cup {b}
    BY <1>0, BinIndices
  <2>2. db_mkw = UNION {BinNames(Lo(c), bin_boundaries[c]) : c \in 1..b-1}
    BY <1>0 DEF IInv, GenInv
  <2>3. db_mkw' = UNION {BinNames(Lo(c), bin_boundaries[c]) : c \in 1..b'-1}
    BY <1>0, <1>2, <2>1, <2>2
  <2> QED
    BY <1>0, <2>3 DEF GenInv
<1>6. UnionInv' /\ TagInv' /\ BlockInv' /\ NamesInv'
  BY <1>0 DEF IInv, UnionInv, TagInv, BlockInv, NamesInv
<1> QED
  BY <1>3, <1>4, <1>5, <1>6 DEF IInv

LEMMA StepGenIds == IInv /\ GenIds => IInv'
<1> SUFFICES ASSUME IInv, GenIds PROVE IInv'
  OBVIOUS
<1>0. /\ TypeOK /\ BinInv /\ b = N_BINS + 1
      /\ raw_db' = raw_db /\ query' = query /\ pc = "generate" /\ pc' = "bin"
      /\ b' = 1 /\ prev' = 0 /\ db_mkw' = db_mkw
      /\ meta_db' = [m \in db_mkw |-> IdsOf(m.ones)]
      /\ i' = i /\ start_i' = start_i /\ mkw_bin' = mkw_bin
      /\ hw_vec' = hw_vec /\ bin_temp' = bin_temp /\ bin_uni' = bin_uni
      /\ s_vec' = s_vec /\ ra' = ra
  <2>1. b > N_BINS /\ b \in 1..N_BINS+1 /\ N_BINS \in Nat
    BY BinsPartition DEF GenIds, IInv, TypeOK
  <2> QED
    BY <2>1 DEF GenIds, scanVars, outVars, resVars, IInv
<1>1. N_BINS \in Nat \ {0} /\ Lo(1) = 0 /\ 1..1-1 = {}
  BY BinsPartition
<1>2. TypeOK'
  <2>1. \A m \in db_mkw : IdsOf(m.ones) \subseteq Ids
    BY <1>0 DEF TypeOK, Names, IdsOf
  <2>2. meta_db' \in [db_mkw' -> SUBSET Ids]
    BY <1>0, <2>1
  <2> QED
    BY <1>0, <1>1, <2>2, KeywordsAssumption DEF TypeOK
<1>3. BinInv' /\ WholeInv' /\ ScanInv' /\ ResultExact'
  BY <1>0, <1>1 DEF BinInv, WholeInv, ScanInv, ResultExact
<1>4. GenInv'
  <2>1. db_mkw = UNION {BinNames(Lo(c), bin_boundaries[c]) : c \in Bins}
    BY <1>0, BinIndices DEF IInv, GenInv
  <2> QED
    BY <1>0, <2>1 DEF GenInv, IdsOf
<1>5. UnionInv'
  <2>1. bin_uni = {}
    BY <1>0 DEF IInv, UnionInv
  <2>2. Matching(0)' = {}
    <3>1. \A q \in query : ~ (q < 0)
      BY <1>0, KeywordsAssumption DEF TypeOK, Positions
    <3> QED
      BY <3>1, <1>0 DEF Matching
  <2> QED
    BY <1>0, <1>1, <2>1, <2>2 DEF UnionInv
<1>6. TagInv'
  BY <1>0, TagKept DEF IInv, outVars
<1>7. BlockInv'
  <2>1. Len(hw_vec') = 0 /\ bin_uni' = {}
    BY <1>0 DEF IInv, BlockInv, UnionInv
  <2>2. 1..b'-1 = {} /\ 1..Len(hw_vec') = {}
    BY <1>0, <2>1
  <2> QED
    BY <1>0, <2>1, <2>2 DEF BlockInv
<1>8. NamesInv'
  <2>1. 1..b'-1 = {} /\ 1..Len(hw_vec') = {}
    BY <1>0 DEF IInv, BlockInv
  <2> QED
    BY <2>1 DEF NamesInv
<1> QED
  BY <1>2, <1>3, <1>4, <1>5, <1>6, <1>7, <1>8 DEF IInv

(* A bin whose keywords below its end add nothing to the result, if none of*)
(* them is queried.                                                        *)
LEMMA MatchingNext ==
  ASSUME TypeOK, BinInv, b \in Bins
  PROVE  Matching(bin_boundaries[b]) =
           Matching(prev) \cup
           {d \in Ids : \E q \in PositionsOf(b) : q \in query /\ d \in raw_db[q]}
<1>1. /\ prev \in Nat /\ bin_boundaries[b] \in Nat
      /\ prev < bin_boundaries[b]
      /\ PositionsOf(b) = prev..bin_boundaries[b]-1
  BY BinOfLoop
<1>2. \A q \in query : q \in Nat
  BY KeywordsAssumption DEF TypeOK, Positions
<1>3. \A q \in query : q < bin_boundaries[b] <=> (q < prev \/ q \in PositionsOf(b))
  BY <1>1, <1>2
<1> QED
  BY <1>3 DEF Matching

LEMMA StepSkipBin == IInv /\ SkipBin => IInv'
<1> SUFFICES ASSUME IInv, SkipBin PROVE IInv'
  OBVIOUS
<1>0. /\ TypeOK /\ BinInv /\ b \in Bins
      /\ raw_db' = raw_db /\ query' = query /\ pc = "bin" /\ pc' = pc
      /\ b' = b + 1 /\ prev' = bin_boundaries[b]
      /\ db_mkw' = db_mkw /\ meta_db' = meta_db
      /\ i' = i /\ start_i' = start_i /\ mkw_bin' = mkw_bin
      /\ hw_vec' = hw_vec /\ bin_temp' = bin_temp /\ bin_uni' = bin_uni
      /\ s_vec' = s_vec /\ ra' = ra
      /\ InBin \cap query = {}
  <2>1. b <= N_BINS /\ b \in 1..N_BINS+1
    BY DEF SkipBin, IInv, TypeOK
  <2> QED
    BY <2>1, BinsPartition
       DEF SkipBin, NextBin, genVars, scanVars, outVars, resVars, IInv, Bins
<1>1. /\ bin_boundaries[b] \in Nat /\ bin_boundaries[b] <= N_KW
      /\ prev \in Nat /\ prev < bin_boundaries[b]
      /\ Lo(b + 1) = bin_boundaries[b] /\ b + 1 \in 1..N_BINS+1
      /\ PositionsOf(b) = prev..bin_boundaries[b]-1
      /\ \A p \in PositionsOf(b) : p \notin query
      /\ 1..(b+1)-1 = (1..b-1) \cup {b}
  BY <1>0, BinOfLoop, BinIndices
<1>2. TypeOK'
  BY <1>0, <1>1, KeywordsAssumption DEF TypeOK
<1>3. BinInv' /\ ScanInv' /\ ResultExact'
  BY <1>0, <1>1 DEF BinInv, ScanInv, ResultExact
<1>4. GenInv' /\ TagInv'
  BY <1>0, GenKept, TagKept DEF IInv, outVars, genVars
<1>5. WholeInv'
  <2>1. prev \in PositionsOf(b)
    BY <1>1
  <2>2. \A c \in 1..b-1 : \E p \in PositionsOf(c) : p \notin query
    BY <1>0 DEF IInv, WholeInv
  <2> QED
    BY <1>0, <1>1, <2>1, <2>2 DEF WholeInv
<1>6. UnionInv'
  <2>1. Matching(bin_boundaries[b]) = Matching(prev) /\ Between(b) = {}
    BY <1>0, <1>1, MatchingNext DEF Between
  <2>2. bin_uni = Matching(prev) \cup UNION {Between(c) : c \in 1..b-1}
    BY <1>0 DEF IInv, UnionInv
  <2>3. bin_uni = Matching(bin_boundaries[b])
                    \cup UNION {Between(c) : c \in 1..(b+1)-1}
    BY <1>1, <2>1, <2>2
  <2> QED
    BY <1>0, <2>3 DEF UnionInv, Matching, Between
<1>7. BlockInv'
  <2>1. ~ Queried(b) /\ \A c : Queried(c)' <=> Queried(c)
    BY <1>0, <1>1 DEF Queried
  <2>2. /\ \A c, x, z : Block(c, x, z)' <=> Block(c, x, z)
        /\ \A c : BinFound(c)' = BinFound(c)
    BY <1>0 DEF Block, BinFound
  <2>3. {x \in 1..b'-1 : Queried(x)'} = {x \in 1..b-1 : Queried(x)}
    BY <1>0, <1>1, <2>1
  <2> QED
    BY <1>0, <1>1, <2>1, <2>2, <2>3 DEF IInv, BlockInv
<1>8. NamesInv'
  <2>1. ~ Queried(b) /\ \A c : Queried(c)' <=> Queried(c)
    BY <1>0, <1>1 DEF Queried
  <2>2. /\ \A c, p : InGap(c, p)' <=> InGap(c, p)
        /\ \A k, c : OfGap(k, c)' <=> OfGap(k, c)
    BY <1>0 DEF InGap, OfGap
  <2> QED
    BY <1>0, <1>1, <2>1, <2>2 DEF IInv, NamesInv
<1> QED
  BY <1>2, <1>3, <1>4, <1>5, <1>6, <1>7, <1>8 DEF IInv

LEMMA StepStartBin == IInv /\ StartBin => IInv'
<1> SUFFICES ASSUME IInv, StartBin PROVE IInv'
  OBVIOUS
<1>0. /\ TypeOK /\ BinInv /\ b \in Bins
      /\ raw_db' = raw_db /\ query' = query /\ pc = "bin" /\ pc' = "scan"
      /\ b' = b /\ prev' = prev /\ db_mkw' = db_mkw /\ meta_db' = meta_db
      /\ i' = prev /\ start_i' = prev /\ mkw_bin' = <<>>
      /\ hw_vec' = hw_vec /\ bin_temp' = bin_temp /\ bin_uni' = bin_uni
      /\ s_vec' = s_vec /\ ra' = ra
      /\ InBin \cap query # {}
  <2>1. b <= N_BINS /\ b \in 1..N_BINS+1
    BY DEF StartBin, IInv, TypeOK
  <2> QED
    BY <2>1, BinsPartition DEF StartBin, genVars, outVars, resVars, IInv, Bins
<1>1. /\ prev \in Nat /\ bin_boundaries[b] \in Nat /\ prev < bin_boundaries[b]
      /\ bin_boundaries[b] <= N_KW
      /\ \E p \in PositionsOf(b) : p \in query
  BY <1>0, BinOfLoop
<1>2. TypeOK'
  BY <1>0, <1>1, EmptySeq, KeywordsAssumption DEF TypeOK
<1>3. BinInv' /\ ResultExact'
  BY <1>0, <1>1 DEF BinInv, ResultExact
<1>4. ScanInv'
  <2>1. Len(mkw_bin') = 0
    BY <1>0
  <2>2. OnlyGaps' /\ GapsBelow(prev)'
    BY <1>0, <1>1, <2>1 DEF OnlyGaps, GapsBelow
  <2> QED
    BY <1>0, <1>1, <2>2 DEF ScanInv, GapsBelow
<1>5. GenInv' /\ TagInv' /\ BlockInv' /\ NamesInv' /\ UnionInv' /\ WholeInv'
  BY <1>0, GenKept, TagKept, BlockKept, NamesKept, UnionKept, WholeKept
     DEF IInv, outVars, genVars
<1> QED
  BY <1>2, <1>3, <1>4, <1>5 DEF IInv

(* Recording the gap before z, where the scan stands at a queried keyword  *)
(* or at the end of the bin: nothing but gaps is recorded, and no keyword  *)
(* below z is left out.                                                    *)
LEMMA EmitFacts ==
  ASSUME TypeOK, BinInv, ScanInv, b \in Bins, pc = "scan",
         EmitGap(i), i = bin_boundaries[b] \/ i \in query,
         UNCHANGED <<query, b, prev>>
  PROVE  /\ mkw_bin' \in Seq(Names)
         /\ OnlyGaps'
         /\ \A p \in prev..i-1 :
              p \in query \/ \E k \in 1..Len(mkw_bin') : p \notin mkw_bin'[k].ones
<1> DEFINE n == bin_boundaries[b]
           m == GapName(prev, start_i, i, n)
<1>1. /\ prev \in Nat /\ n \in Nat /\ prev < n /\ n <= N_KW
      /\ PositionsOf(b) = prev..n-1
  BY BinOfLoop
<1>2. /\ OnlyGaps /\ GapsBelow(start_i)
      /\ prev <= start_i /\ start_i <= i /\ i <= n
      /\ \A p \in start_i..i-1 : p \notin query
      /\ start_i = prev \/ start_i - 1 \in query
      /\ \E p \in PositionsOf(b) : p \in query
      /\ i \in Nat /\ start_i \in Nat
  BY KeywordsAssumption DEF ScanInv, TypeOK
<1>3. /\ mkw_bin \in Seq(Names)
      /\ mkw_bin' = IF AllZeroOrOne(m, prev) THEN mkw_bin ELSE Append(mkw_bin, m)
  BY DEF EmitGap, TypeOK
<1>3a. i = n \/ i \in query
  OBVIOUS
<1>4. m \in Names /\ m.len = n /\ m.ones = (prev..start_i-1) \cup (i..n-1)
  <2> HIDE DEF n
  <2> QED
    BY <1>1, <1>2, GapNameType
<1> HIDE DEF n, m
<1>5. CASE start_i = i
  <2>1. m.ones = prev..n-1
    BY <1>1, <1>2, <1>4, <1>5
  <2>2. mkw_bin' = mkw_bin
    BY <2>1, <1>3, <1>4 DEF AllZeroOrOne
  <2>3. OnlyGaps'
    BY <2>2, <1>2 DEF OnlyGaps, IsGap
  <2> QED
    BY <2>2, <2>3, <1>2, <1>3, <1>5 DEF GapsBelow
<1>6. CASE start_i < i
  <2>1. PICK q \in prev..n-1 : q \in query
    BY <1>1, <1>2
  <2>2. q \in m.ones
    <3>1. q \notin start_i..i-1
      BY <2>1, <1>2
    <3> QED
      BY <2>1, <3>1, <1>1, <1>2, <1>4
  <2>3. start_i \in prev..n-1 /\ start_i \notin m.ones
    BY <1>1, <1>2, <1>4, <1>6
  <2>4. ~ AllZeroOrOne(m, prev)
    BY <2>2, <2>3, <1>4 DEF AllZeroOrOne
  <2>5. /\ mkw_bin' \in Seq(Names) /\ Len(mkw_bin') = Len(mkw_bin) + 1
        /\ Len(mkw_bin) \in Nat
        /\ mkw_bin'[Len(mkw_bin) + 1] = m
        /\ \A k \in 1..Len(mkw_bin) : mkw_bin'[k] = mkw_bin[k]
    BY <2>4, <1>3, <1>4, AppendProperties, LenProperties
  <2>6. IsGap(start_i, i)
    BY <1>2, <1>3a, <1>6 DEF IsGap, n
  <2>7. OnlyGaps'
    <3>1. ASSUME NEW k \in 1..Len(mkw_bin')
          PROVE  \E a, z \in 0..N_KW :
                   IsGap(a, z) /\ mkw_bin'[k] = GapName(prev, a, z, n)
      <4>1. CASE k \in 1..Len(mkw_bin)
        BY <4>1, <2>5, <1>2 DEF OnlyGaps, n
      <4>2. CASE k = Len(mkw_bin) + 1
        <5>1. start_i \in 0..N_KW /\ i \in 0..N_KW
          BY DEF TypeOK
        <5> QED
          BY <4>2, <5>1, <2>5, <2>6 DEF m
      <4> QED
        BY <4>1, <4>2, <2>5
    <3> QED
      BY <3>1 DEF OnlyGaps, IsGap, n
  <2>8. ASSUME NEW p \in prev..i-1, p \notin query
        PROVE  \E k \in 1..Len(mkw_bin') : p \notin mkw_bin'[k].ones
    <3>1. CASE p < start_i
      <4>1. p \in prev..start_i-1
        BY <3>1, <1>1, <1>2
      <4>2. PICK k \in 1..Len(mkw_bin) : p \notin mkw_bin[k].ones
        BY <4>1, <2>8, <1>2 DEF GapsBelow
      <4> QED
        BY <4>2, <2>5
    <3>2. CASE p >= start_i
      <4>1. p \notin m.ones
        BY <3>2, <1>1, <1>2, <1>4
      <4> QED
        BY <4>1, <2>5
    <3> QED
      BY <3>1, <3>2, <1>1, <1>2
  <2> QED
    BY <2>5, <2>7, <2>8
<1> QED
  BY <1>2, <1>5, <1>6

LEMMA StepScanUnqueried == IInv /\ ScanUnqueried => IInv'
<1> SUFFICES ASSUME IInv, ScanUnqueried PROVE IInv'
  OBVIOUS
<1>0. /\ TypeOK /\ BinInv /\ ScanInv /\ b \in Bins
      /\ raw_db' = raw_db /\ query' = query /\ pc = "scan" /\ pc' = pc
      /\ b' = b /\ prev' = prev /\ db_mkw' = db_mkw /\ meta_db' = meta_db
      /\ i' = i + 1 /\ start_i' = start_i /\ mkw_bin' = mkw_bin
      /\ hw_vec' = hw_vec /\ bin_temp' = bin_temp /\ bin_uni' = bin_uni
      /\ s_vec' = s_vec /\ ra' = ra
      /\ i < bin_boundaries[b] /\ i \notin query
  BY DEF ScanUnqueried, genVars, outVars, resVars, IInv, BinInv
<1>1. /\ prev \in Nat /\ bin_boundaries[b] \in Nat
      /\ bin_boundaries[b] <= N_KW /\ i \in Nat /\ start_i \in Nat
  BY <1>0, BinOfLoop, KeywordsAssumption DEF TypeOK
<1>2. TypeOK'
  BY <1>0, <1>1, KeywordsAssumption DEF TypeOK
<1>3. BinInv' /\ ResultExact'
  BY <1>0 DEF BinInv, ResultExact
<1>4. ScanInv'
  <2>1. OnlyGaps' /\ GapsBelow(start_i)'
    BY <1>0 DEF ScanInv, OnlyGaps, IsGap, GapsBelow
  <2>2. \A p \in start_i..(i+1)-1 : p \notin query
    BY <1>0, <1>1 DEF ScanInv
  <2> QED
    BY <1>0, <1>1, <2>1, <2>2 DEF ScanInv, GapsBelow
<1>5. GenInv' /\ TagInv' /\ BlockInv' /\ NamesInv' /\ UnionInv' /\ WholeInv'
  BY <1>0, GenKept, TagKept, BlockKept, NamesKept, UnionKept, WholeKept
     DEF IInv, outVars, genVars
<1> QED
  BY <1>2, <1>3, <1>4, <1>5 DEF IInv

LEMMA StepScanQueried == IInv /\ ScanQueried => IInv'
<1> SUFFICES ASSUME IInv, ScanQueried PROVE IInv'
  OBVIOUS
<1>0. /\ TypeOK /\ BinInv /\ ScanInv /\ b \in Bins
      /\ raw_db' = raw_db /\ query' = query /\ pc = "scan" /\ pc' = pc
      /\ b' = b /\ prev' = prev /\ db_mkw' = db_mkw /\ meta_db' = meta_db
      /\ i' = i + 1 /\ start_i' = i + 1 /\ EmitGap(i)
      /\ hw_vec' = hw_vec /\ bin_temp' = bin_temp /\ bin_uni' = bin_uni
      /\ s_vec' = s_vec /\ ra' = ra
      /\ i < bin_boundaries[b] /\ i \in query
  BY DEF ScanQueried, genVars, outVars, resVars, IInv, BinInv
<1>1. /\ prev \in Nat /\ bin_boundaries[b] \in Nat
      /\ bin_boundaries[b] <= N_KW /\ i \in Nat /\ prev <= i
  BY <1>0, BinOfLoop, KeywordsAssumption DEF TypeOK, ScanInv
<1>2. /\ mkw_bin' \in Seq(Names)
      /\ OnlyGaps'
      /\ \A p \in prev..i-1 :
           p \in query \/ \E k \in 1..Len(mkw_bin') : p \notin mkw_bin'[k].ones
  BY <1>0, EmitFacts
<1>3. TypeOK'
  BY <1>0, <1>1, <1>2, KeywordsAssumption DEF TypeOK
<1>4. BinInv' /\ ResultExact'
  BY <1>0 DEF BinInv, ResultExact
<1>5. ScanInv'
  <2>1. \A p \in prev..(i+1)-1 :
          p \in query \/ \E k \in 1..Len(mkw_bin') : p \notin mkw_bin'[k].ones
    BY <1>0, <1>1, <1>2
  <2>2. GapsBelow(start_i)'
    BY <2>1, <1>0 DEF GapsBelow
  <2>3. (i + 1) - 1 \in query /\ prev <= i + 1 /\ i + 1 <= bin_boundaries[b]
    BY <1>0, <1>1
  <2> QED
    BY <1>0, <1>1, <1>2, <2>2, <2>3 DEF ScanInv, GapsBelow
<1>6. GenInv' /\ TagInv' /\ BlockInv' /\ NamesInv' /\ UnionInv' /\ WholeInv'
  BY <1>0, GenKept, TagKept, BlockKept, NamesKept, UnionKept, WholeKept
     DEF IInv, outVars, genVars
<1> QED
  BY <1>3, <1>4, <1>5, <1>6 DEF IInv

LEMMA StepScanTail == IInv /\ ScanTail => IInv'
<1> SUFFICES ASSUME IInv, ScanTail PROVE IInv'
  OBVIOUS
<1>0. /\ TypeOK /\ BinInv /\ ScanInv /\ b \in Bins
      /\ raw_db' = raw_db /\ query' = query /\ pc = "scan" /\ pc' = "lookup"
      /\ b' = b /\ prev' = prev /\ db_mkw' = db_mkw /\ meta_db' = meta_db
      /\ i' = i /\ start_i' = start_i /\ EmitGap(i)
      /\ hw_vec' = hw_vec /\ bin_temp' = bin_temp /\ bin_uni' = bin_uni
      /\ s_vec' = s_vec /\ ra' = ra
      /\ i = bin_boundaries[b]
  BY DEF ScanTail, genVars, outVars, resVars, IInv, BinInv
<1>1. /\ mkw_bin' \in Seq(Names)
      /\ OnlyGaps'
      /\ \A p \in prev..i-1 :
           p \in query \/ \E k \in 1..Len(mkw_bin') : p \notin mkw_bin'[k].ones
  BY <1>0, EmitFacts
<1>2. TypeOK'
  BY <1>0, <1>1 DEF TypeOK
<1>3. BinInv' /\ ResultExact'
  BY <1>0 DEF BinInv, ResultExact
<1>4. ScanInv'
  BY <1>0, <1>1 DEF ScanInv, GapsBelow
<1>5. GenInv' /\ TagInv' /\ BlockInv' /\ NamesInv' /\ UnionInv' /\ WholeInv'
  BY <1>0, GenKept, TagKept, BlockKept, NamesKept, UnionKept, WholeKept
     DEF IInv, outVars, genVars
<1> QED
  BY <1>2, <1>3, <1>4, <1>5 DEF IInv

\* Where the two halves of a concatenation are (the insert calls at
\* dis_query_process.cpp:338-339).
LEMMA ConcatParts ==
  ASSUME NEW S, NEW s \in Seq(S), NEW t \in Seq(S)
  PROVE  /\ Len(s \o t) = Len(s) + Len(t)
         /\ \A k \in 1..Len(s) : (s \o t)[k] = s[k]
         /\ \A k \in Len(s)+1..Len(s)+Len(t) : (s \o t)[k] = t[k - Len(s)]
  BY ConcatProperties, LenProperties

LEMMA StepLookup == IInv /\ Lookup => IInv'
<1> SUFFICES ASSUME IInv, Lookup PROVE IInv'
  OBVIOUS
<1> DEFINE n == bin_boundaries[b]
           tags == [k \in 1..Len(mkw_bin) |-> n \div bin_stride]
<1>0. /\ TypeOK /\ BinInv /\ ScanInv /\ b \in Bins /\ mkw_bin # <<>>
      /\ raw_db' = raw_db /\ query' = query /\ pc = "lookup" /\ pc' = "bin"
      /\ b' = b + 1 /\ prev' = n
      /\ db_mkw' = db_mkw /\ meta_db' = meta_db
      /\ i' = i /\ start_i' = start_i /\ mkw_bin' = mkw_bin
      /\ hw_vec' = hw_vec \o mkw_bin /\ bin_temp' = bin_temp \o tags
      /\ s_vec' = s_vec /\ ra' = ra
  BY DEF Lookup, NextBin, genVars, scanVars, resVars, IInv, BinInv
<1>1. PICK rows \in Rows : bin_uni' = bin_uni \cup Intersection(rows)
  BY DEF Lookup
<1>2. /\ n \in Nat /\ n <= N_KW /\ prev \in Nat /\ prev < n
      /\ Lo(b + 1) = n /\ b + 1 \in 1..N_BINS+1
      /\ PositionsOf(b) = prev..n-1
      /\ 1..(b+1)-1 = (1..b-1) \cup {b}
  BY <1>0, BinOfLoop, BinIndices
<1>3. mkw_bin \in Seq(Names) /\ Len(mkw_bin) \in Nat /\ 1 \in 1..Len(mkw_bin)
  BY <1>0, EmptySeq, LenProperties DEF TypeOK
<1>4. OnlyGaps
  BY <1>0 DEF ScanInv
<1>5. tags \in Seq(Nat) /\ Len(tags) = Len(mkw_bin)
  <2>1. n \div bin_stride \in Nat
    BY <1>2, KeywordsAssumption, DivMod
  <2> HIDE DEF n
  <2> QED
    BY <1>3, <2>1
<1> HIDE DEF n, tags
<1>6. TypeOK'
  <2>1. hw_vec' \in Seq(Names) /\ bin_temp' \in Seq(Nat)
    BY <1>0, <1>3, <1>5, ConcatProperties DEF TypeOK
  <2>2. bin_uni' \subseteq Ids
    BY <1>0, <1>1 DEF TypeOK, Intersection
  <2>3. b' \in 1..N_BINS+1 /\ prev' \in 0..N_KW
    BY <1>0, <1>2, KeywordsAssumption DEF n
  <2> QED
    BY <1>0, <2>1, <2>2, <2>3 DEF TypeOK
<1>7. BinInv' /\ ScanInv' /\ ResultExact'
  BY <1>0, <1>2 DEF BinInv, ScanInv, ResultExact
<1>8. GenInv'
  BY <1>0, GenKept DEF IInv, genVars
<1>9. WholeInv'
  <2>1. PICK a \in 0..N_KW, z \in 0..N_KW : IsGap(a, z)
    BY <1>0, <1>3, <1>4, FoundGap
  <2>2. a \in prev..n-1 /\ a \notin query
    BY <2>1, <1>2 DEF IsGap, n
  <2>3. \A c \in 1..b-1 : \E p \in PositionsOf(c) : p \notin query
    BY <1>0 DEF IInv, WholeInv
  <2> QED
    BY <1>0, <1>2, <2>2, <2>3 DEF WholeInv
<1>10. UnionInv'
  <2>1. bin_uni = Matching(prev) \cup UNION {Between(c) : c \in 1..b-1}
    BY <1>0 DEF IInv, UnionInv
  <2>2. Matching(n) =
          Matching(prev) \cup
          {d \in Ids : \E q \in PositionsOf(b) : q \in query /\ d \in raw_db[q]}
    BY <1>0, MatchingNext DEF n
  <2>3. Intersection(rows) =
          {d \in Ids : \E q \in PositionsOf(b) : q \in query /\ d \in raw_db[q]}
            \cup Between(b)
    BY <1>0, BinResult
  <2>4. bin_uni' = Matching(n) \cup UNION {Between(c) : c \in 1..(b+1)-1}
    BY <1>1, <1>2, <2>1, <2>2, <2>3
  <2> QED
    BY <1>0, <2>4 DEF UnionInv, Matching, Between
<1>11. TagInv'
  <2>1. /\ Len(bin_temp) = Len(hw_vec) /\ Len(hw_vec) \in Nat
        /\ bin_temp \in Seq(Nat) /\ hw_vec \in Seq(Names)
        /\ \A k \in 1..Len(hw_vec) :
             /\ bin_temp[k] = hw_vec[k].len \div bin_stride
             /\ \E c \in Bins : hw_vec[k].len = bin_boundaries[c]
    BY <1>0, LenProperties DEF IInv, TagInv, TypeOK
  <2>2. /\ Len(hw_vec') = Len(hw_vec) + Len(mkw_bin)
        /\ Len(bin_temp') = Len(hw_vec) + Len(mkw_bin)
        /\ \A k \in 1..Len(hw_vec) :
             hw_vec'[k] = hw_vec[k] /\ bin_temp'[k] = bin_temp[k]
        /\ \A k \in Len(hw_vec)+1..Len(hw_vec)+Len(mkw_bin) :
             /\ hw_vec'[k] = mkw_bin[k - Len(hw_vec)]
             /\ bin_temp'[k] = tags[k - Len(hw_vec)]
    <3>1. /\ hw_vec \in Seq(Names) /\ mkw_bin \in Seq(Names)
          /\ bin_temp \in Seq(Nat) /\ tags \in Seq(Nat)
      BY <1>3, <1>5, <2>1
    <3>2. /\ Len(hw_vec') = Len(hw_vec) + Len(mkw_bin)
          /\ \A k \in 1..Len(hw_vec) : hw_vec'[k] = hw_vec[k]
          /\ \A k \in Len(hw_vec)+1..Len(hw_vec)+Len(mkw_bin) :
               hw_vec'[k] = mkw_bin[k - Len(hw_vec)]
      BY <1>0, <3>1, ConcatParts
    <3>3. /\ Len(bin_temp') = Len(bin_temp) + Len(tags)
          /\ \A k \in 1..Len(bin_temp) : bin_temp'[k] = bin_temp[k]
          /\ \A k \in Len(bin_temp)+1..Len(bin_temp)+Len(tags) :
               bin_temp'[k] = tags[k - Len(bin_temp)]
      BY <1>0, <3>1, ConcatParts
    <3>4. Len(bin_temp) = Len(hw_vec) /\ Len(tags) = Len(mkw_bin)
      BY <1>5, <2>1
    <3> HIDE DEF tags
    <3> QED
      BY <3>2, <3>3, <3>4
  <2>3. \A k \in 1..Len(mkw_bin) :
          mkw_bin[k].len = n /\ tags[k] = n \div bin_stride
    <3>1. ASSUME NEW k \in 1..Len(mkw_bin) PROVE mkw_bin[k].len = n
      <4>1. PICK a \in 0..N_KW, z \in 0..N_KW :
              IsGap(a, z) /\ mkw_bin[k] = GapName(prev, a, z, n)
        BY <1>4 DEF OnlyGaps, n
      <4> QED
        BY <4>1 DEF GapName
    <3> QED
      BY <3>1 DEF tags
  <2>4. ASSUME NEW k \in 1..Len(hw_vec')
        PROVE  /\ bin_temp'[k] = hw_vec'[k].len \div bin_stride
               /\ \E c \in Bins : hw_vec'[k].len = bin_boundaries[c]
    <3>1. CASE k \in 1..Len(hw_vec)
      BY <3>1, <2>1, <2>2
    <3>2. CASE k \in Len(hw_vec)+1..Len(hw_vec)+Len(mkw_bin)
      <4>1. k - Len(hw_vec) \in 1..Len(mkw_bin)
        BY <3>2, <2>1, <1>3
      <4>2. hw_vec'[k].len = n /\ bin_temp'[k] = n \div bin_stride
        BY <3>2, <4>1, <2>2, <2>3
      <4> QED
        BY <4>2, <1>0 DEF n
    <3> QED
      BY <3>1, <3>2, <2>1, <2>2, <1>3
  <2> QED
    BY <2>2, <2>4 DEF TagInv
<1>12. BlockInv'
  <2>0. PICK L \in Nat, M \in Nat, B \in Bins :
          L = Len(hw_vec) /\ M = Len(mkw_bin) /\ B = b /\ n = bin_boundaries[B]
    BY <1>0, <1>3, LenProperties DEF TypeOK, n
  <2>1. /\ hw_vec \in Seq(Names) /\ L \in Nat /\ M \in Nat
        /\ \A k \in 1..L : \E c \in 1..b-1 :
             Queried(c) /\ hw_vec[k].len = bin_boundaries[c]
        /\ \A c \in 1..b-1 : Queried(c) => \E a, z \in 1..L : Block(c, a, z)
        /\ bin_uni = UNION {BinFound(c) : c \in {x \in 1..b-1 : Queried(x)}}
    BY <1>0, <1>3, <2>0 DEF IInv, BlockInv, TypeOK
  <2>2. /\ Len(hw_vec') = L + M
        /\ \A k \in 1..L : hw_vec'[k] = hw_vec[k]
        /\ \A k \in L+1..L+M : hw_vec'[k] = mkw_bin[k - L]
    BY <1>0, <1>3, <2>0, <2>1, ConcatParts
  <2>3. \A k \in 1..M : mkw_bin[k].len = n
    <3> TAKE k \in 1..M
    <3>1. PICK a \in 0..N_KW, z \in 0..N_KW :
            IsGap(a, z) /\ mkw_bin[k] = GapName(prev, a, z, n)
      BY <1>4, <2>0 DEF OnlyGaps, n
    <3> QED
      BY <3>1 DEF GapName
  <2>4. 1 \in 1..M
    BY <1>3, <2>0
  <2>5. \A k \in L+1..L+M : k - L \in 1..M
    BY <2>1
  <2>6. \A k \in 1..L+M : k \in 1..L \/ k \in L+1..L+M
    BY <2>1
  <2>7. \A c \in 1..b-1 : c \in Bins /\ bin_boundaries[c] # n
    <3> TAKE c \in 1..b-1
    <3>1. c \in Bins /\ c # b
      BY <1>0, BinIndices
    <3> QED
      BY <1>0, <3>1, BoundariesDiffer DEF n
  <2>8. \A k \in 1..L : hw_vec'[k].len = hw_vec[k].len /\ hw_vec[k].len # n
    BY <2>1, <2>2, <2>7
  <2>9. \A k \in L+1..L+M : hw_vec'[k].len = n
    BY <2>2, <2>3, <2>5
  <2>10. Queried(B) /\ \A c : Queried(c)' <=> Queried(c)
    BY <1>0, <2>0 DEF ScanInv, Queried
  <2>11. 1..b'-1 = (1..b-1) \cup {B}
    BY <1>0, <1>2, <2>0
  <2>12. ASSUME NEW k \in 1..L+M
         PROVE  \E c \in 1..b'-1 : Queried(c)' /\ hw_vec'[k].len = bin_boundaries[c]
    <3>1. CASE k \in 1..L
      <4>1. PICK c \in 1..b-1 : Queried(c) /\ hw_vec[k].len = bin_boundaries[c]
        BY <2>1, <3>1
      <4>2. hw_vec'[k].len = bin_boundaries[c]
        BY <2>8, <3>1, <4>1
      <4> QED
        BY <2>10, <2>11, <4>1, <4>2
    <3>2. CASE k \in L+1..L+M
      BY <2>0, <2>9, <2>10, <2>11, <3>2
    <3> QED
      BY <2>6, <3>1, <3>2
  <2>13. ASSUME NEW c \in 1..b'-1, Queried(c)
         PROVE  \E a, z \in 1..L+M : Block(c, a, z)'
    <3>1. CASE c \in 1..b-1
      <4>1. PICK a \in 1..L, z \in 1..L : Block(c, a, z)
        BY <2>1, <2>13, <3>1
      <4>2. a \in 1..L+M /\ z \in 1..L+M /\ a <= z
        BY <2>1, <4>1 DEF Block
      <4>3. \A k \in 1..L : hw_vec'[k].len = bin_boundaries[c] <=> k \in a..z
        BY <2>0, <2>8, <4>1 DEF Block
      <4>4. \A k \in L+1..L+M : hw_vec'[k].len # bin_boundaries[c] /\ k \notin a..z
        BY <2>1, <2>7, <2>9, <3>1
      <4>5. \A k \in 1..L+M : hw_vec'[k].len = bin_boundaries[c] <=> k \in a..z
        BY <2>6, <4>3, <4>4
      <4>6. Block(c, a, z)'
        BY <2>2, <4>2, <4>5 DEF Block
      <4> QED
        BY <4>2, <4>6
    <3>2. CASE c = B
      <4>1. L+1 \in 1..L+M /\ L+M \in 1..L+M /\ L+1 <= L+M
        BY <2>1, <2>4
      <4>2. \A k \in 1..L+M : hw_vec'[k].len = n <=> k \in L+1..L+M
        <5>1. \A k \in 1..L : k \notin L+1..L+M
          BY <2>1
        <5> QED
          BY <2>6, <2>8, <2>9, <5>1
      <4>3. Block(c, L+1, L+M)'
        BY <2>0, <2>2, <3>2, <4>1, <4>2 DEF Block
      <4> QED
        BY <4>1, <4>3
    <3> QED
      BY <1>0, <1>2, <2>0, <3>1, <3>2
  <2>14. \A c \in 1..b-1 : BinFound(c)' = BinFound(c)
    <3> TAKE c \in 1..b-1
    <3>1. \A d : (\A k \in 1..L+M : hw_vec'[k].len = bin_boundaries[c]
                                       => d \in meta_db[hw_vec'[k]])
                 <=> (\A k \in 1..L : hw_vec[k].len = bin_boundaries[c]
                                         => d \in meta_db[hw_vec[k]])
      <4>1. \A k \in 1..L : k \in 1..L+M
        BY <2>1
      <4> QED
        BY <2>2, <2>6, <2>7, <2>8, <2>9, <4>1
    <3> QED
      BY <1>0, <2>0, <2>2, <3>1 DEF BinFound
  <2>15. BinFound(B)' = Intersection(rows)
    <3>1. \A k \in 1..M : rows[k] = mkw_bin[k]
      BY <1>0, <2>0, FoundGenerated DEF Rows
    <3>2. \A k \in 1..M : L + k \in L+1..L+M /\ L + k \in 1..L+M /\ (L + k) - L = k
      BY <2>1
    <3>3. ASSUME NEW d
          PROVE  (\A k \in 1..L+M : hw_vec'[k].len = n => d \in meta_db[hw_vec'[k]])
                   <=> (\A k \in 1..M : d \in meta_db[rows[k]])
      <4>1. ASSUME \A k \in 1..L+M : hw_vec'[k].len = n => d \in meta_db[hw_vec'[k]],
                   NEW k \in 1..M
            PROVE  d \in meta_db[rows[k]]
        <5>1. hw_vec'[L + k] = mkw_bin[k] /\ hw_vec'[L + k].len = n
          BY <2>2, <2>9, <3>2
        <5>2. d \in meta_db[hw_vec'[L + k]]
          BY <3>2, <4>1, <5>1
        <5> QED
          BY <3>1, <5>1, <5>2
      <4>2. ASSUME \A k \in 1..M : d \in meta_db[rows[k]],
                   NEW k \in 1..L+M, hw_vec'[k].len = n
            PROVE  d \in meta_db[hw_vec'[k]]
        <5>1. k \in L+1..L+M
          BY <2>6, <2>8, <4>2
        <5>2. k - L \in 1..M /\ hw_vec'[k] = mkw_bin[k - L]
          BY <2>2, <2>5, <5>1
        <5> QED
          BY <3>1, <4>2, <5>2
      <4> QED
        BY <4>1, <4>2
    <3>4. BinFound(B)' =
            {d \in Ids : \A k \in 1..L+M : hw_vec'[k].len = n
                                              => d \in meta_db[hw_vec'[k]]}
      BY <1>0, <2>0, <2>2 DEF BinFound
    <3> QED
      BY <2>0, <3>3, <3>4 DEF Intersection
  <2>16. bin_uni' = UNION {BinFound(c)' : c \in {x \in 1..b'-1 : Queried(x)'}}
    <3>1. {x \in 1..b'-1 : Queried(x)'} = {x \in 1..b-1 : Queried(x)} \cup {B}
      BY <2>10, <2>11
    <3>2. bin_uni' = (UNION {BinFound(c) : c \in {x \in 1..b-1 : Queried(x)}})
                       \cup BinFound(B)'
      BY <1>1, <2>1, <2>15
    <3>3. UNION {BinFound(c)' : c \in {x \in 1..b-1 : Queried(x)} \cup {B}}
            = (UNION {BinFound(c) : c \in {x \in 1..b-1 : Queried(x)}})
                \cup BinFound(B)'
      BY <2>14
    <3> QED
      BY <3>1, <3>2, <3>3
  <2> QED
    BY <1>0, <2>2, <2>10, <2>12, <2>13, <2>16 DEF BlockInv
<1>13. NamesInv'
  <2>0. PICK L \in Nat, M \in Nat, B \in Bins :
          L = Len(hw_vec) /\ M = Len(mkw_bin) /\ B = b /\ n = bin_boundaries[B]
    BY <1>0, <1>3, LenProperties DEF TypeOK, n
  <2>1. /\ hw_vec \in Seq(Names)
        /\ \A k \in 1..L : hw_vec[k] \in db_mkw /\ \E c \in 1..b-1 : OfGap(k, c)
        /\ \A c \in 1..b-1 : Queried(c) =>
             \A p \in PositionsOf(c) : p \in query \/ InGap(c, p)
    BY <1>0, <2>0 DEF IInv, NamesInv, TypeOK
  <2>2. /\ Len(hw_vec') = L + M
        /\ \A k \in 1..L : hw_vec'[k] = hw_vec[k]
        /\ \A k \in L+1..L+M : hw_vec'[k] = mkw_bin[k - L]
    BY <1>0, <1>3, <2>0, <2>1, ConcatParts
  <2>3. /\ \A k \in 1..L+M : k \in 1..L \/ k \in L+1..L+M
        /\ \A k \in L+1..L+M : k - L \in 1..M
        /\ \A k \in 1..M : L + k \in L+1..L+M /\ L + k \in 1..L+M
        /\ \A k \in 1..M : (L + k) - L = k
        /\ \A k \in 1..L : k \in 1..L+M
    BY <2>0
  <2>4. 1..b'-1 = (1..b-1) \cup {B}
    BY <1>0, <1>2, <2>0
  <2>5. ASSUME NEW k \in 1..L+M
        PROVE  hw_vec'[k] \in db_mkw /\ \E c \in 1..b'-1 : OfGap(k, c)'
    <3>1. CASE k \in 1..L
      <4>1. PICK c \in 1..b-1 : OfGap(k, c)
        BY <2>1, <3>1
      <4>2. OfGap(k, c)'
        BY <1>0, <2>2, <3>1, <4>1 DEF OfGap
      <4> QED
        BY <2>1, <2>2, <2>4, <3>1, <4>2
    <3>2. CASE k \in L+1..L+M
      <4>1. k - L \in 1..M /\ hw_vec'[k] = mkw_bin[k - L]
        BY <2>2, <2>3, <3>2
      <4>2. mkw_bin[k - L] \in db_mkw
        BY <1>0, <2>0, <4>1, FoundGenerated
      <4>3. PICK a \in 0..N_KW, z \in 0..N_KW :
              IsGap(a, z) /\ mkw_bin[k - L] = GapName(prev, a, z, n)
        BY <1>4, <2>0, <4>1 DEF OnlyGaps, n
      <4>4. prev = Lo(B)
        BY <1>0, <2>0 DEF BinInv
      <4>5. OfGap(k, B)'
        BY <1>0, <2>0, <4>1, <4>3, <4>4 DEF OfGap, IsGap
      <4> QED
        BY <2>4, <4>1, <4>2, <4>5
    <3> QED
      BY <2>3, <3>1, <3>2
  <2>6. \A c : Queried(c)' <=> Queried(c)
    BY <1>0 DEF Queried
  <2>7. ASSUME NEW c \in 1..b'-1, Queried(c), NEW p \in PositionsOf(c), p \notin query
        PROVE  InGap(c, p)'
    <3>1. CASE c \in 1..b-1
      <4>1. InGap(c, p)
        BY <2>1, <2>7, <3>1
      <4> QED
        BY <2>0, <2>2, <2>3, <4>1 DEF InGap
    <3>2. CASE c = B
      <4>1. GapsBelow(n) /\ p \in prev..n-1
        BY <1>0, <1>2, <2>0, <2>7, <3>2 DEF ScanInv, n
      <4>2. PICK k \in 1..M : p \notin mkw_bin[k].ones
        BY <2>0, <2>7, <4>1 DEF GapsBelow
      <4>3. hw_vec'[L + k] = mkw_bin[k]
        BY <2>2, <2>3
      <4>4. mkw_bin[k].len = n
        <5>1. PICK a \in 0..N_KW, z \in 0..N_KW :
                IsGap(a, z) /\ mkw_bin[k] = GapName(prev, a, z, n)
          BY <1>4, <2>0 DEF OnlyGaps, n
        <5> QED
          BY <5>1 DEF GapName
      <4> QED
        BY <2>0, <2>2, <2>3, <3>2, <4>2, <4>3, <4>4 DEF InGap
    <3> QED
      BY <2>4, <3>1, <3>2
  <2> QED
    BY <1>0, <2>2, <2>5, <2>6, <2>7 DEF NamesInv
<1> QED
  BY <1>6, <1>7, <1>8, <1>9, <1>10, <1>11, <1>12, <1>13 DEF IInv

LEMMA StepLookupNothing == IInv /\ LookupNothing => IInv'
<1> SUFFICES ASSUME IInv, LookupNothing PROVE IInv'
  OBVIOUS
<1>0. /\ TypeOK /\ BinInv /\ ScanInv /\ b \in Bins
      /\ raw_db' = raw_db /\ query' = query /\ pc = "lookup" /\ pc' = "crashed"
      /\ b' = b /\ prev' = prev /\ db_mkw' = db_mkw /\ meta_db' = meta_db
      /\ i' = i /\ start_i' = start_i /\ mkw_bin' = mkw_bin /\ mkw_bin = <<>>
      /\ hw_vec' = hw_vec /\ bin_temp' = bin_temp /\ bin_uni' = bin_uni
      /\ s_vec' = s_vec /\ ra' = ra
  BY DEF LookupNothing, genVars, scanVars, outVars, resVars, IInv, BinInv
<1>1. TypeOK' /\ BinInv' /\ ScanInv' /\ ResultExact'
  BY <1>0 DEF TypeOK, BinInv, ScanInv, ResultExact
<1>2. GenInv' /\ TagInv' /\ BlockInv' /\ NamesInv'
  BY <1>0, GenKept, TagKept, BlockKept, NamesKept DEF IInv, outVars, genVars
<1>3. UnionInv'
  BY <1>0 DEF UnionInv
<1>4. WholeInv'
  <2>1. Len(mkw_bin) = 0 /\ GapsBelow(bin_boundaries[b])
    BY <1>0 DEF ScanInv
  <2>2. PositionsOf(b) \subseteq query
    BY <2>1, <1>0, BinOfLoop DEF GapsBelow
  <2> QED
    BY <1>0, <2>2 DEF WholeInv
<1> QED
  BY <1>1, <1>2, <1>3, <1>4 DEF IInv

LEMMA StepAnswer == IInv /\ Answer => IInv'
<1> SUFFICES ASSUME IInv, Answer PROVE IInv'
  OBVIOUS
<1>0. /\ TypeOK /\ BinInv /\ b = N_BINS + 1
      /\ raw_db' = raw_db /\ query' = query /\ pc = "bin" /\ pc' = "answered"
      /\ b' = b /\ prev' = prev /\ db_mkw' = db_mkw /\ meta_db' = meta_db
      /\ i' = i /\ start_i' = start_i /\ mkw_bin' = mkw_bin
      /\ hw_vec' = hw_vec /\ bin_temp' = bin_temp /\ bin_uni' = bin_uni
      /\ s_vec' = bin_uni /\ ra' = IdsOf(query)
  <2>1. b > N_BINS /\ b \in 1..N_BINS+1 /\ N_BINS \in Nat
    BY BinsPartition DEF Answer, IInv, TypeOK
  <2> QED
    BY <2>1 DEF Answer, genVars, scanVars, outVars, IInv
<1>1. IdsOf(query) = Matching(prev) /\ IdsOf(query) \subseteq Ids
  <2>1. prev = N_KW
    BY <1>0, BinsPartition DEF BinInv
  <2>2. \A q \in query : q < prev /\ raw_db[q] \subseteq Ids
    BY <1>0, <2>1, KeywordsAssumption DEF TypeOK, Positions
  <2> QED
    BY <2>2 DEF IdsOf, Matching
<1>2. TypeOK'
  BY <1>0, <1>1 DEF TypeOK
<1>3. BinInv' /\ ScanInv' /\ UnionInv'
  BY <1>0 DEF BinInv, ScanInv, UnionInv
<1>4. GenInv' /\ TagInv' /\ WholeInv' /\ NamesInv'
  BY <1>0, GenKept, TagKept, WholeKept, NamesKept DEF IInv, outVars, genVars
<1>5. ResultExact'
  <2>1. bin_uni = Matching(prev) \cup UNION {Between(c) : c \in 1..b-1}
    BY <1>0 DEF IInv, UnionInv
  <2>2. s_vec' = ra' \cup UNION {Between(c) : c \in Bins}
    BY <2>1, <1>0, <1>1, BinIndices
  <2> QED
    BY <1>0, <2>2 DEF ResultExact, Between
<1>6. BlockInv'
  <2>1. /\ \A c : Queried(c)' <=> Queried(c)
        /\ \A c, x, z : Block(c, x, z)' <=> Block(c, x, z)
        /\ \A c : BinFound(c)' = BinFound(c)
    BY <1>0 DEF Queried, Block, BinFound
  <2> QED
    BY <1>0, <2>1 DEF IInv, BlockInv
<1> QED
  BY <1>2, <1>3, <1>4, <1>5, <1>6 DEF IInv

LEMMA StepStutter == IInv /\ UNCHANGED vars => IInv'
<1> SUFFICES ASSUME IInv, UNCHANGED vars PROVE IInv'
  OBVIOUS
<1> USE DEF vars, genVars, scanVars, outVars, resVars
<1>1. TypeOK' /\ BinInv'
  BY DEF IInv, TypeOK, BinInv
<1>2. GenInv'
  BY DEF IInv, GenInv, IdsOf
<1>3. ScanInv'
  BY DEF IInv, ScanInv, OnlyGaps, GapsBelow, IsGap
<1>4. UnionInv' /\ ResultExact'
  BY DEF IInv, UnionInv, Matching, Between, ResultExact
<1>5. WholeInv' /\ TagInv'
  BY DEF IInv, WholeInv, TagInv
<1>6. /\ \A c : Queried(c)' <=> Queried(c)
      /\ \A c, x, z : Block(c, x, z)' <=> Block(c, x, z)
      /\ \A c : BinFound(c)' = BinFound(c)
  BY DEF Queried, Block, BinFound
<1>7. BlockInv'
  BY <1>6 DEF IInv, BlockInv
<1>8. NamesInv'
  <2>1. /\ \A c, p : InGap(c, p)' <=> InGap(c, p)
        /\ \A k, c : OfGap(k, c)' <=> OfGap(k, c)
    BY DEF InGap, OfGap
  <2> QED
    BY <1>6, <2>1 DEF IInv, NamesInv
<1> QED
  BY <1>1, <1>2, <1>3, <1>4, <1>5, <1>7, <1>8 DEF IInv

(* The loops of the construction maintain their invariants.                *)
THEOREM Invariance == Spec => []IInv
<1>1. Init => IInv
  BY InitIInv
<1>2. IInv /\ [Next]_vars => IInv'
  BY StepGenBin, StepGenIds, StepSkipBin, StepStartBin, StepScanUnqueried,
     StepScanQueried, StepScanTail, StepLookup, StepLookupNothing, StepAnswer,
     StepStutter
     DEF Next
<1> QED
  BY <1>1, <1>2, PTL DEF Spec

-----------------------------------------------------------------------------
(* Properties                                                              *)

(* Types, and that no loop of the construction leaves its arrays.          *)
THEOREM TypeCorrect == Spec => []TypeOK
<1>1. IInv => TypeOK
  BY DEF IInv
<1> QED
  BY <1>1, Invariance, PTL

(* A disjunction loses no matching id, and gains only ids that occur in a  *)
(* bin on both sides of a queried keyword.                                 *)
THEOREM Exact == Spec => []ResultExact
<1>1. IInv => ResultExact
  BY DEF IInv
<1> QED
  BY <1>1, Invariance, PTL

(* No query asks for a meta-keyword that was not generated.                *)
THEOREM Generated == Spec => []AllGenerated
<1>1. IInv => AllGenerated
  BY FoundGenerated DEF AllGenerated
<1> QED
  BY <1>1, Invariance, PTL

(* The conversion dies of a query that has a whole bin, and only of those. *)
THEOREM WholeBin == Spec => []CrashOnWholeBin
<1>1. IInv => CrashOnWholeBin
  <2> SUFFICES ASSUME IInv PROVE CrashOnWholeBin
    OBVIOUS
  <2>1. pc = "crashed" => \E c \in Bins : PositionsOf(c) \subseteq query
    BY DEF IInv, BinInv, WholeInv
  <2>2. pc = "answered" => ~ \E c \in Bins : PositionsOf(c) \subseteq query
    BY BinIndices DEF IInv, BinInv, WholeInv
  <2> QED
    BY <2>1, <2>2 DEF CrashOnWholeBin
<1> QED
  BY <1>1, Invariance, PTL

(* Equal bin indices mean equal bins, or a short last bin and the one      *)
(* before it.                                                              *)
THEOREM TagsTell == Spec => []BinTags
<1>1. IInv => BinTags
  <2> SUFFICES ASSUME IInv,
                      NEW k \in 1..Len(hw_vec), NEW l \in 1..Len(hw_vec)
               PROVE  bin_temp[k] = bin_temp[l] <=>
                        \/ hw_vec[k].len = hw_vec[l].len
                        \/ /\ ShortLast
                           /\ \A p \in {k, l} : \E c \in Bins :
                                c >= N_BINS - 1 /\ hw_vec[p].len = bin_boundaries[c]
    BY DEF BinTags, IInv, TagInv
  <2>1. PICK c \in Bins : /\ hw_vec[k].len = bin_boundaries[c]
                          /\ bin_temp[k] = bin_boundaries[c] \div bin_stride
    BY DEF IInv, TagInv
  <2>2. PICK e \in Bins : /\ hw_vec[l].len = bin_boundaries[e]
                          /\ bin_temp[l] = bin_boundaries[e] \div bin_stride
    BY DEF IInv, TagInv
  <2>3. hw_vec[k].len = hw_vec[l].len <=> c = e
    BY <2>1, <2>2, BoundariesDiffer
  <2>4. (\A p \in {k, l} : \E x \in Bins :
           x >= N_BINS - 1 /\ hw_vec[p].len = bin_boundaries[x])
          <=> c >= N_BINS - 1 /\ e >= N_BINS - 1
    BY <2>1, <2>2, BoundariesDiffer
  <2>5. /\ bin_temp[k] = IF ShortLast /\ c = N_BINS THEN N_BINS - 1 ELSE c
        /\ bin_temp[l] = IF ShortLast /\ e = N_BINS THEN N_BINS - 1 ELSE e
    BY <2>1, <2>2, TagOfBin
  <2>6. /\ N_BINS \in Nat /\ c \in Nat /\ e \in Nat
        /\ c <= N_BINS /\ e <= N_BINS
    BY BinsPartition DEF Bins
  <2>7. bin_temp[k] = bin_temp[l] <=>
          c = e \/ (ShortLast /\ c >= N_BINS - 1 /\ e >= N_BINS - 1)
    BY <2>5, <2>6
  <2> QED
    BY <2>3, <2>4, <2>7
<1> QED
  BY <1>1, Invariance, PTL

(* What the invariant says of a converted query.                           *)
LEMMA AnsweredFacts ==
  ASSUME IInv, pc = "answered"
  PROVE  /\ Len(hw_vec) \in Nat /\ Len(bin_temp) = Len(hw_vec)
         /\ \A k \in 1..Len(hw_vec) :
              /\ bin_temp[k] = hw_vec[k].len \div bin_stride
              /\ \E c \in Bins : Queried(c) /\ hw_vec[k].len = bin_boundaries[c]
         /\ \A c \in Bins :
              Queried(c) => \E a, z \in 1..Len(hw_vec) : Block(c, a, z)
         /\ s_vec = UNION {BinFound(c) : c \in {x \in Bins : Queried(x)}}
<1>1. 1..b-1 = Bins
  BY BinIndices DEF IInv, BinInv
<1>2. Len(hw_vec) \in Nat /\ Len(bin_temp) = Len(hw_vec)
  BY LenProperties DEF IInv, TypeOK, TagInv
<1> QED
  BY <1>1, <1>2 DEF IInv, TagInv, BlockInv

(* A run of equal indices holds all the meta-keywords of some queried bin. *)
LEMMA RunHoldsBlock ==
  ASSUME IInv, pc = "answered", NEW r \in Runs(bin_temp)
  PROVE  /\ r[1] \in 1..Len(hw_vec) /\ r[2] \in 1..Len(hw_vec) /\ r[1] <= r[2]
         /\ \E c \in Bins :
              /\ Queried(c)
              /\ \A k \in 1..Len(hw_vec) :
                   hw_vec[k].len = bin_boundaries[c] => k \in r[1]..r[2]
<1> DEFINE N == Len(hw_vec)
<1>0. /\ N \in Nat /\ Len(bin_temp) = N
      /\ \A k \in 1..N :
           /\ bin_temp[k] = hw_vec[k].len \div bin_stride
           /\ \E c \in Bins : Queried(c) /\ hw_vec[k].len = bin_boundaries[c]
      /\ \A c \in Bins : Queried(c) => \E a, z \in 1..N : Block(c, a, z)
  BY AnsweredFacts
<1>1. PICK p \in 1..N, q \in 1..N :
        /\ r[1] = p /\ r[2] = q /\ p <= q
        /\ p # 1 => bin_temp[p-1] # bin_temp[p]
        /\ q # N => bin_temp[q+1] # bin_temp[p]
  BY <1>0 DEF Runs
<1>2. PICK c \in Bins : Queried(c) /\ hw_vec[p].len = bin_boundaries[c]
  BY <1>0
<1>3. PICK a \in 1..N, z \in 1..N : Block(c, a, z)
  BY <1>0, <1>2
<1> HIDE DEF N
<1>4. N \in Nat /\ a \in Nat /\ z \in Nat /\ p \in Nat /\ q \in Nat
  BY <1>0
<1>5. /\ \A k \in 1..N : hw_vec[k].len = bin_boundaries[c] <=> k \in a..z
      /\ p \in a..z
  BY <1>2, <1>3 DEF Block, N
<1>6. \A k \in a..z : k \in 1..N /\ bin_temp[k] = bin_temp[p]
  <2>1. \A k \in a..z : k \in 1..N
    BY <1>4
  <2>2. \A k \in a..z : hw_vec[k].len = hw_vec[p].len
    BY <1>2, <1>5, <2>1
  <2> QED
    BY <1>0, <1>5, <2>1, <2>2
<1>7. p = a
  <2> SUFFICES ASSUME a < p PROVE FALSE
    BY <1>4, <1>5
  <2>1. p - 1 \in a..z /\ p # 1
    BY <1>4, <1>5
  <2> QED
    BY <1>1, <1>6, <2>1
<1>8. z <= q
  <2> SUFFICES ASSUME q < z PROVE FALSE
    BY <1>4
  <2>1. q + 1 \in a..z /\ q # N
    BY <1>1, <1>4, <1>7
  <2> QED
    BY <1>1, <1>6, <2>1
<1>9. \A k \in a..z : k \in r[1]..r[2]
  BY <1>1, <1>4, <1>7, <1>8
<1> QED
  BY <1>1, <1>2, <1>5, <1>9 DEF N

(* Unless a bin is taken for its neighbour, its meta-keywords are one run  *)
(* of equal indices.                                                       *)
LEMMA BlockIsRun ==
  ASSUME IInv, pc = "answered", NEW c \in Bins, Queried(c), ~ Confused(c)
  PROVE  \E a, z \in 1..Len(hw_vec) :
           /\ a <= z /\ <<a, z>> \in Runs(bin_temp)
           /\ \A k \in 1..Len(hw_vec) :
                hw_vec[k].len = bin_boundaries[c] <=> k \in a..z
<1> DEFINE N == Len(hw_vec)
<1>1. /\ N \in Nat /\ Len(bin_temp) = N
      /\ \A k \in 1..N :
           /\ bin_temp[k] = hw_vec[k].len \div bin_stride
           /\ \E e \in Bins : Queried(e) /\ hw_vec[k].len = bin_boundaries[e]
      /\ \E a, z \in 1..N : Block(c, a, z)
  BY AnsweredFacts
<1>2. PICK a \in 1..N, z \in 1..N : Block(c, a, z)
  BY <1>1
<1> HIDE DEF N
<1>3. N \in Nat /\ a \in Nat /\ z \in Nat /\ a <= z
  BY <1>1, <1>2 DEF Block
<1>4. \A k \in 1..N : hw_vec[k].len = bin_boundaries[c] <=> k \in a..z
  BY <1>2 DEF Block, N
<1>5. \A k \in a..z : k \in 1..N /\ hw_vec[k].len = bin_boundaries[c]
  <2>1. \A k \in a..z : k \in 1..N
    BY <1>3
  <2> QED
    BY <1>4, <2>1
<1>6. \A k \in a..z : bin_temp[k] = bin_boundaries[c] \div bin_stride
  BY <1>1, <1>5
<1>7. ASSUME NEW k \in 1..N, k \notin a..z
      PROVE  bin_temp[k] # bin_boundaries[c] \div bin_stride
  <2>1. PICK e \in Bins : Queried(e) /\ hw_vec[k].len = bin_boundaries[e]
    BY <1>1
  <2>2. e # c
    BY <1>4, <1>7, <2>1
  <2>3. bin_temp[k] = bin_boundaries[e] \div bin_stride
    BY <1>1, <2>1
  <2>4. /\ N_BINS \in Nat /\ c \in Nat /\ e \in Nat
        /\ c <= N_BINS /\ e <= N_BINS
    BY BinsPartition DEF Bins
  <2> SUFFICES ASSUME bin_temp[k] = bin_boundaries[c] \div bin_stride
               PROVE  FALSE
    OBVIOUS
  <2>5. (IF ShortLast /\ e = N_BINS THEN N_BINS - 1 ELSE e)
          = (IF ShortLast /\ c = N_BINS THEN N_BINS - 1 ELSE c)
    BY <2>3, TagOfBin
  <2>6. /\ ShortLast
        /\ (e = N_BINS /\ c = N_BINS - 1) \/ (c = N_BINS /\ e = N_BINS - 1)
    BY <2>2, <2>4, <2>5
  <2> QED
    BY <2>1, <2>6 DEF Confused
<1>8. a - 1 \in 1..N => a - 1 \notin a..z
  BY <1>3
<1>9. z + 1 \in 1..N => z + 1 \notin a..z
  BY <1>3
<1>10. /\ a # 1 => a - 1 \in 1..N
       /\ z # N => z + 1 \in 1..N
       /\ a \in a..z
  BY <1>3
<1>11. /\ \A k \in a..z : bin_temp[k] = bin_temp[a]
       /\ a # 1 => bin_temp[a-1] # bin_temp[a]
       /\ z # N => bin_temp[z+1] # bin_temp[a]
  BY <1>6, <1>7, <1>8, <1>9, <1>10
<1>12. <<a, z>> \in Runs(bin_temp)
  BY <1>1, <1>3, <1>11 DEF Runs
<1> QED
  BY <1>3, <1>4, <1>12 DEF N

(* A program that searches together the meta-keywords of equal index finds *)
(* what the conversion found, or less if the last bin is short and queried *)
(* together with the bin before it.                                        *)
THEOREM SearchesAgree == Spec => []SearchesGive
<1> DEFINE both == /\ ShortLast
                   /\ \A c \in {N_BINS - 1, N_BINS} : c \in Bins /\ Queried(c)
<1>1. ASSUME IInv, pc = "answered", NEW r \in Runs(bin_temp), NEW d \in Ids,
             \A k \in r[1]..r[2] : d \in meta_db[hw_vec[k]]
      PROVE  d \in s_vec
  <2>1. PICK c \in Bins :
          /\ Queried(c)
          /\ \A k \in 1..Len(hw_vec) :
               hw_vec[k].len = bin_boundaries[c] => k \in r[1]..r[2]
    BY <1>1, RunHoldsBlock
  <2>2. d \in BinFound(c)
    BY <1>1, <2>1 DEF BinFound
  <2> QED
    BY <1>1, <2>1, <2>2, AnsweredFacts
<1>2. ASSUME IInv, pc = "answered", ~ both, NEW d \in s_vec
      PROVE  d \in FoundTogether
  <2>1. PICK c \in Bins : Queried(c) /\ d \in BinFound(c)
    BY <1>2, AnsweredFacts
  <2>2. PICK a \in 1..Len(hw_vec), z \in 1..Len(hw_vec) :
          /\ a <= z /\ <<a, z>> \in Runs(bin_temp)
          /\ \A k \in 1..Len(hw_vec) :
               hw_vec[k].len = bin_boundaries[c] <=> k \in a..z
    BY <1>2, <2>1, BlockIsRun DEF Confused
  <2>3. \A k \in a..z : k \in 1..Len(hw_vec)
    BY <1>2, AnsweredFacts
  <2>4. d \in Ids /\ \A k \in a..z : d \in meta_db[hw_vec[k]]
    BY <2>1, <2>2, <2>3 DEF BinFound
  <2>5. d \in {y \in Ids : \A k \in <<a, z>>[1]..<<a, z>>[2] : y \in meta_db[hw_vec[k]]}
    BY <2>4
  <2> QED
    BY <2>2, <2>5 DEF FoundTogether
<1>3. IInv => SearchesGive
  BY <1>1, <1>2 DEF SearchesGive, FoundTogether
<1> QED
  BY <1>3, Invariance, PTL

(* Where the stride divides the number of keywords, the bin index written  *)
(* for a meta-keyword is that of its bucket.                               *)
THEOREM EvenBinIndex == ASSUME N_KW % bin_stride = 0
                        PROVE  Spec => []BinIndex
<1>1. ASSUME IInv PROVE BinIndex
  <2>1. N_BINS \in Nat /\ N_KW = N_BINS * bin_stride
    <3>1. N_BINS = N_KW \div bin_stride
      BY KeywordsAssumption DEF N_BINS
    <3> QED
      BY <3>1, KeywordsAssumption, DivMod
  <2>2. \A c \in Bins : bin_boundaries[c] = c * bin_stride /\ c \in Nat
    <3> SUFFICES ASSUME NEW c \in Bins
                 PROVE  bin_boundaries[c] = c * bin_stride /\ c \in Nat
      OBVIOUS
    <3>1. c \in Nat /\ (c < N_BINS \/ c = N_BINS)
      BY <2>1 DEF Bins
    <3> QED
      BY <3>1, <2>1 DEF bin_boundaries
  <2>3. \A c \in Nat : (c * bin_stride) \div bin_stride = c
    BY KeywordsAssumption
  <2>4. /\ Len(bin_temp) = Len(hw_vec)
        /\ \A k \in 1..Len(hw_vec) :
             /\ bin_temp[k] = hw_vec[k].len \div bin_stride
             /\ \E c \in Bins : hw_vec[k].len = bin_boundaries[c]
    BY <1>1 DEF IInv, TagInv
  <2>5. \A k \in 1..Len(hw_vec) :
          \E c \in Nat : hw_vec[k].len = c * bin_stride /\ bin_temp[k] = c
    BY <2>2, <2>3, <2>4
  <2> QED
    BY <2>4, <2>5 DEF BinIndex
<1>2. IInv => BinIndex
  BY <1>1
<1> QED
  BY <1>2, Invariance, PTL

(* The listing of a finite set of ids holds these ids.                     *)
LEMMA Listed ==
  ASSUME NEW S, IsFiniteSet(S)
  PROVE  /\ RowIds(SetToSeq(S)) = S
         /\ S # {} => SetToSeq(S)[1] \in S
<1> DEFINE n == Cardinality(S)
           s == SetToSeq(S)
<1>1. PICK m \in Nat : ExistsBijection(1..m, S)
  BY FS_NatBijection
<1>2. n = m
  BY <1>1, FS_CountingElements
<1>3. \E f \in [1..n -> S] : IsInjective(f)
  BY <1>1, <1>2 DEF ExistsBijection, Bijection, Injection
<1>4. s \in [1..n -> S] /\ IsInjective(s)
  BY <1>3 DEF SetToSeq
<1>5. IsFiniteSet(1..n) /\ Cardinality(1..n) = n
  <2>1. 1 \in Int /\ n \in Int /\ n \in Nat
    BY <1>2
  <2> QED  BY <2>1, FS_Interval
<1> HIDE DEF s
<1>6. s \in Injection(1..n, S)
  BY <1>4 DEF Injection
<1>7. s \in Surjection(1..n, S)
  BY <1>5, <1>6, FS_Injection
<1>8. \A d \in S : \E p \in 1..n : s[p] = d
  BY <1>7 DEF Surjection
<1>9. RowIds(s) = S
  BY <1>4, <1>8 DEF RowIds
<1>10. ASSUME S # {} PROVE s[1] \in S
  <2>1. n \in Nat /\ \E p \in 1..n : TRUE
    BY <1>2, <1>8, <1>10
  <2>2. 1 \in 1..n
    BY <2>1
  <2> QED  BY <1>4, <2>2
<1> QED
  BY <1>9, <1>10 DEF s


(* The rows that are searched, and what a search for meta-keywords ws finds*)
(* in them: ids that all of ws have, and all of these if ws are two or more*)
LEMMA FoundInRows ==
  ASSUME IInv, pc = "answered", NEW ws \in Seq(db_mkw), ws # <<>>,
         Len(ws) = 1 => meta_db[ws[1]] # {}
  PROVE  /\ \A d \in Found(MetaRows, MetaTags, ws) :
              d \in Ids /\ \A q \in 1..Len(ws) : d \in meta_db[ws[q]]
         /\ Len(ws) # 1 =>
              \A d : (\A q \in 1..Len(ws) : d \in meta_db[ws[q]]) =>
                d \in Found(MetaRows, MetaTags, ws)
<1>0. PICK n \in Nat : n = Len(ws)
  BY LenProperties
<1>1. 1 \in 1..n /\ \A q \in 1..n : ws[q] \in db_mkw
  <2>1. n # 0
    BY <1>0, EmptySeq
  <2> QED
    BY <1>0, <2>1, ElementOfSeq
<1>2. meta_db \in [db_mkw -> SUBSET Ids]
  BY DEF IInv, TypeOK
<1>3. \A m \in db_mkw : /\ RowIds(MetaRows[m]) = meta_db[m]
                        /\ meta_db[m] # {} => MetaRows[m][1] \in meta_db[m]
  <2> TAKE m \in db_mkw
  <2>1. IsFiniteSet(meta_db[m])
    BY <1>2, IdsAssumption, FS_Subset
  <2> QED
    BY <2>1, Listed DEF MetaRows
<1>4. \A m \in db_mkw, d \in Ids : <<m, d>> \in MetaTags <=> d \in meta_db[m]
  BY DEF MetaTags
<1>5. CASE n = 1
  <2>1. Found(MetaRows, MetaTags, ws) = {MetaRows[ws[1]][1]}
    BY <1>0, <1>5 DEF Found
  <2>2. MetaRows[ws[1]][1] \in meta_db[ws[1]]
    BY <1>0, <1>1, <1>3, <1>5
  <2>3. \A q \in 1..n : q = 1
    BY <1>5
  <2> QED
    BY <1>0, <1>1, <1>2, <1>5, <2>1, <2>2, <2>3
<1>6. CASE n # 1
  <2>1. Found(MetaRows, MetaTags, ws)
          = {d \in meta_db[ws[1]] : \A q \in 2..n : <<ws[q], d>> \in MetaTags}
    BY <1>0, <1>1, <1>3, <1>6 DEF Found
  <2>2. \A q \in 1..n : q = 1 \/ q \in 2..n
    OBVIOUS
  <2>3. \A q \in 2..n : q \in 1..n
    OBVIOUS
  <2>4. \A m \in db_mkw : meta_db[m] \subseteq Ids
    BY <1>2
  <2> QED
    BY <1>0, <1>1, <1>4, <2>1, <2>2, <2>3, <2>4
<1> QED
  BY <1>5, <1>6

(* The vector written for a converted query, and the meta-keywords of one  *)
(* of its runs.                                                            *)
LEMMA VectorFacts ==
  ASSUME IInv, pc = "answered"
  PROVE  /\ Len(Vector) = Len(hw_vec) /\ Bin(Vector) = bin_temp
         /\ Searched(Vector) = Runs(bin_temp) \ {<<Len(hw_vec), Len(hw_vec)>>}
         /\ \A a, z \in 1..Len(hw_vec) : a <= z =>
              /\ Part(Vector, <<a, z>>) \in Seq(db_mkw)
              /\ Len(Part(Vector, <<a, z>>)) = z - a + 1
              /\ \A k \in a..z : /\ k - a + 1 \in 1..z - a + 1
                                 /\ Part(Vector, <<a, z>>)[k - a + 1] = hw_vec[k]
              /\ \A p \in 1..z - a + 1 :
                   /\ a + p - 1 \in a..z
                   /\ Part(Vector, <<a, z>>)[p] = hw_vec[a + p - 1]
<1>0. PICK n \in Nat : n = Len(hw_vec)
  BY AnsweredFacts
<1>1. /\ Len(bin_temp) = n /\ bin_temp \in Seq(Nat)
      /\ \A k \in 1..n : hw_vec[k] \in db_mkw
  BY <1>0, AnsweredFacts DEF IInv, TypeOK, NamesInv
<1>2. /\ DOMAIN Vector = 1..n /\ Len(Vector) = n
      /\ \A k \in 1..n : Vector[k].tv = hw_vec[k] /\ Vector[k].bv = bin_temp[k]
  BY <1>0 DEF Vector
<1>3. Bin(Vector) = bin_temp
  <2>1. DOMAIN bin_temp = 1..n
    BY <1>1, LenProperties
  <2>2. bin_temp = [k \in DOMAIN bin_temp |-> bin_temp[k]]
    BY <1>1
  <2> QED
    BY <1>2, <2>1, <2>2 DEF Bin
<1>4. Searched(Vector) = Runs(bin_temp) \ {<<n, n>>}
  BY <1>2, <1>3 DEF Searched
<1>5. ASSUME NEW a \in 1..n, NEW z \in 1..n, a <= z
      PROVE  /\ Part(Vector, <<a, z>>) \in Seq(db_mkw)
             /\ Len(Part(Vector, <<a, z>>)) = z - a + 1
             /\ \A k \in a..z : /\ k - a + 1 \in 1..z - a + 1
                                /\ Part(Vector, <<a, z>>)[k - a + 1] = hw_vec[k]
             /\ \A p \in 1..z - a + 1 :
                  /\ a + p - 1 \in a..z
                  /\ Part(Vector, <<a, z>>)[p] = hw_vec[a + p - 1]
  <2>1. PICK m \in Nat : m = z - a + 1
    BY <1>5
  <2>2. \A p \in 1..m : a + p - 1 \in a..z /\ a + p - 1 \in 1..n
    BY <1>5, <2>1
  <2>3. \A k \in a..z : k - a + 1 \in 1..m /\ a + (k - a + 1) - 1 = k
    BY <1>5, <2>1
  <2>4. Part(Vector, <<a, z>>) = [p \in 1..m |-> hw_vec[a + p - 1]]
    BY <1>2, <2>1, <2>2 DEF Part
  <2>5. [p \in 1..m |-> hw_vec[a + p - 1]] \in Seq(db_mkw)
    BY <1>1, <2>2
  <2>6. Len([p \in 1..m |-> hw_vec[a + p - 1]]) = m
    OBVIOUS
  <2>7. /\ Part(Vector, <<a, z>>) \in Seq(db_mkw)
        /\ Len(Part(Vector, <<a, z>>)) = m
        /\ \A p \in 1..m : Part(Vector, <<a, z>>)[p] = hw_vec[a + p - 1]
    BY <2>4, <2>5, <2>6
  <2>8. \A k \in a..z : Part(Vector, <<a, z>>)[k - a + 1] = hw_vec[k]
    BY <2>3, <2>7
  <2> QED
    BY <2>1, <2>2, <2>3, <2>7, <2>8
<1> QED
  BY <1>0, <1>2, <1>3, <1>4, <1>5

(* A bin in which a queried keyword lies between two that are not has two  *)
(* meta-keywords, and all of them have the ids of its queried keywords.    *)
LEMMA SplitBin ==
  ASSUME IInv, pc = "answered", NEW c \in Bins, Queried(c)
  PROVE  /\ \A k \in 1..Len(hw_vec) : hw_vec[k].len = bin_boundaries[c] =>
              IdsOf(query \cap PositionsOf(c)) \subseteq meta_db[hw_vec[k]]
         /\ Split(c) => \E k, l \in 1..Len(hw_vec) :
              /\ k # l
              /\ hw_vec[k].len = bin_boundaries[c]
              /\ hw_vec[l].len = bin_boundaries[c]
<1> DEFINE n == bin_boundaries[c]
<1>0. /\ Lo(c) \in Nat /\ n \in Nat /\ Lo(c) < n /\ n <= N_KW
      /\ PositionsOf(c) = Lo(c)..n-1 /\ PositionsOf(c) \subseteq Positions
  BY BinsPartition DEF PositionsOf
<1>1. /\ \A k \in 1..Len(hw_vec) :
           hw_vec[k] \in db_mkw /\ \E e \in Bins : OfGap(k, e)
      /\ \A p \in PositionsOf(c) : p \in query \/ InGap(c, p)
      /\ meta_db = [m \in db_mkw |-> IdsOf(m.ones)]
  <2>1. 1..b-1 = Bins
    BY BinIndices DEF IInv, BinInv
  <2> QED
    BY <2>1 DEF IInv, NamesInv, GenInv
<1> HIDE DEF n
<1>2. ASSUME NEW k \in 1..Len(hw_vec), hw_vec[k].len = n
      PROVE  \E a, z \in Nat :
               /\ Lo(c) <= a /\ a < z /\ z <= n
               /\ \A p \in a..z-1 : p \notin query
               /\ hw_vec[k].ones = (Lo(c)..a-1) \cup (z..n-1)
  <2>1. PICK e \in Bins : OfGap(k, e)
    BY <1>1
  <2>2. PICK a \in 0..N_KW, z \in 0..N_KW :
          /\ Lo(e) <= a /\ a < z /\ z <= bin_boundaries[e]
          /\ \A p \in a..z-1 : p \notin query
          /\ hw_vec[k] = GapName(Lo(e), a, z, bin_boundaries[e])
    BY <2>1 DEF OfGap
  <2>3. hw_vec[k].len = bin_boundaries[e]
    BY <2>2 DEF GapName
  <2>4. e = c
    BY <1>2, <2>3, BoundariesDiffer DEF n
  <2>5. hw_vec[k].ones = (Lo(c)..a-1) \cup (z..n-1)
    BY <2>2, <2>4 DEF GapName, n
  <2>6. a \in Nat /\ z \in Nat
    BY KeywordsAssumption
  <2> QED
    BY <2>2, <2>4, <2>5, <2>6 DEF n
<1>3. ASSUME NEW k \in 1..Len(hw_vec), hw_vec[k].len = n,
             NEW q \in query, q \in PositionsOf(c)
      PROVE  q \in hw_vec[k].ones
  <2>1. PICK a \in Nat, z \in Nat :
          /\ Lo(c) <= a /\ a < z /\ z <= n
          /\ \A p \in a..z-1 : p \notin query
          /\ hw_vec[k].ones = (Lo(c)..a-1) \cup (z..n-1)
    BY <1>2, <1>3
  <2>2. q \in Lo(c)..n-1 /\ q \notin a..z-1
    BY <1>0, <1>3, <2>1
  <2>3. q \in Lo(c)..a-1 \/ q \in z..n-1
    BY <1>0, <2>1, <2>2
  <2> QED
    BY <2>1, <2>3
<1>4. ASSUME NEW k \in 1..Len(hw_vec), hw_vec[k].len = n
      PROVE  IdsOf(query \cap PositionsOf(c)) \subseteq meta_db[hw_vec[k]]
  BY <1>1, <1>3, <1>4 DEF IdsOf
<1>5. ASSUME Split(c)
      PROVE  \E k, l \in 1..Len(hw_vec) :
               k # l /\ hw_vec[k].len = n /\ hw_vec[l].len = n
  <2>1. PICK p \in PositionsOf(c), q \in PositionsOf(c), r \in PositionsOf(c) :
          p < q /\ q < r /\ q \in query /\ p \notin query /\ r \notin query
    BY <1>5 DEF Split
  <2>2. PICK k \in 1..Len(hw_vec) : hw_vec[k].len = n /\ p \notin hw_vec[k].ones
    BY <1>1, <2>1 DEF InGap, n
  <2>3. PICK l \in 1..Len(hw_vec) : hw_vec[l].len = n /\ r \notin hw_vec[l].ones
    BY <1>1, <2>1 DEF InGap, n
  <2>4. PICK a \in Nat, z \in Nat :
          /\ Lo(c) <= a /\ a < z /\ z <= n
          /\ \A x \in a..z-1 : x \notin query
          /\ hw_vec[k].ones = (Lo(c)..a-1) \cup (z..n-1)
    BY <1>2, <2>2
  <2>5. p \in Nat /\ q \in Nat /\ r \in Nat /\ p \in Lo(c)..n-1 /\ r \in Lo(c)..n-1
    BY <1>0, <2>1
  <2>6. p \in a..z-1 /\ q \notin a..z-1
    <3>1. p \notin Lo(c)..a-1 /\ p \notin z..n-1
      BY <2>2, <2>4
    <3> QED
      BY <1>0, <2>1, <2>4, <2>5, <3>1
  <2>7. r \in z..n-1
    BY <1>0, <2>1, <2>4, <2>5, <2>6
  <2>8. r \in hw_vec[k].ones
    BY <2>4, <2>7
  <2> QED
    BY <2>2, <2>3, <2>8
<1> QED
  BY <1>4, <1>5 DEF n

(* The line written for a disjunction holds nothing but the result of the  *)
(* conversion, and every id that matches in a bin in which a queried       *)
(* keyword lies between two others, unless the bin is taken for another.   *)
THEOREM LineAnswered == Spec => []LineAnswers
<1> DEFINE line == LineOf(MetaRows, MetaTags, Vector)
           N == Len(hw_vec)
<1>1. ASSUME IInv, pc = "answered", RowsRead, NEW d \in line
      PROVE  d \in s_vec
  <2>1. PICK r \in Searched(Vector) : d \in Found(MetaRows, MetaTags, Part(Vector, r))
    BY <1>1 DEF LineOf
  <2>2. r \in Runs(bin_temp)
    BY <1>1, <2>1, VectorFacts
  <2>3. PICK a \in 1..N, z \in 1..N : r = <<a, z>> /\ r[1] = a /\ r[2] = z /\ a <= z
    <3>1. Len(bin_temp) = N
      BY <1>1, AnsweredFacts
    <3> QED
      BY <2>2, <3>1 DEF Runs
  <2>4. PICK c \in Bins :
          /\ Queried(c)
          /\ \A k \in 1..N : hw_vec[k].len = bin_boundaries[c] => k \in a..z
    BY <1>1, <2>2, <2>3, RunHoldsBlock
  <2>5. PICK ws \in Seq(db_mkw) :
          /\ ws = Part(Vector, r) /\ Len(ws) = z - a + 1
          /\ \A k \in a..z : /\ k - a + 1 \in 1..z - a + 1
                             /\ ws[k - a + 1] = hw_vec[k]
          /\ \A p \in 1..z - a + 1 :
               a + p - 1 \in a..z /\ ws[p] = hw_vec[a + p - 1]
    BY <1>1, <2>3, VectorFacts
  <2>6. N \in Nat
    BY <1>1, AnsweredFacts
  <2> HIDE DEF N
  <2>7. ws # <<>> /\ 1 \in 1..z - a + 1 /\ a + 1 - 1 = a
    <3>1. a \in Nat /\ z \in Nat /\ z - a + 1 # 0
      BY <2>3, <2>6
    <3> QED
      BY <2>3, <2>5, <3>1, EmptySeq
  <2>8. Len(ws) = 1 => meta_db[ws[1]] # {}
    <3>1. Len(ws) = 1 => r[1] = r[2]
      BY <2>3, <2>5, <2>6
    <3>2. r[1] = r[2] => meta_db[hw_vec[a]] # {}
      BY <1>1, <2>1, <2>3 DEF RowsRead
    <3>3. ws[1] = hw_vec[a]
      BY <2>5, <2>7
    <3> QED
      BY <3>1, <3>2, <3>3
  <2>9. d \in Ids /\ \A q \in 1..Len(ws) : d \in meta_db[ws[q]]
    BY <1>1, <2>1, <2>5, <2>7, <2>8, FoundInRows
  <2>10. \A k \in a..z : d \in meta_db[hw_vec[k]]
    BY <2>5, <2>9
  <2>11. d \in BinFound(c)
    BY <2>4, <2>9, <2>10 DEF BinFound, N
  <2> QED
    BY <1>1, <2>4, <2>11, AnsweredFacts
<1>2. ASSUME IInv, pc = "answered", NEW c \in Bins, Split(c), ~ Confused(c),
             NEW d \in IdsOf(query \cap PositionsOf(c))
      PROVE  d \in line
  <2>1. Queried(c)
    BY <1>2 DEF Split, Queried
  <2>2. PICK a \in 1..N, z \in 1..N :
          /\ a <= z /\ <<a, z>> \in Runs(bin_temp)
          /\ \A k \in 1..N : hw_vec[k].len = bin_boundaries[c] <=> k \in a..z
    BY <1>2, <2>1, BlockIsRun
  <2>3. PICK k \in 1..N, l \in 1..N :
          /\ k # l
          /\ hw_vec[k].len = bin_boundaries[c]
          /\ hw_vec[l].len = bin_boundaries[c]
    BY <1>2, <2>1, SplitBin
  <2>4. \A x \in 1..N : hw_vec[x].len = bin_boundaries[c] => d \in meta_db[hw_vec[x]]
    BY <1>2, <2>1, SplitBin
  <2>5. PICK ws \in Seq(db_mkw) :
          /\ ws = Part(Vector, <<a, z>>) /\ Len(ws) = z - a + 1
          /\ \A p \in 1..z - a + 1 :
               a + p - 1 \in a..z /\ ws[p] = hw_vec[a + p - 1]
    BY <1>2, <2>2, VectorFacts
  <2>6. N \in Nat
    BY <1>2, AnsweredFacts
  <2> HIDE DEF N
  <2>7. a \in Nat /\ z \in Nat /\ a < z /\ \A x \in a..z : x \in 1..N
    <3>1. k \in a..z /\ l \in a..z /\ k # l
      BY <2>2, <2>3
    <3> QED
      BY <2>6, <3>1
  <2>8. ws # <<>> /\ Len(ws) # 1
    <3>1. z - a + 1 # 0 /\ z - a + 1 # 1
      BY <2>7
    <3> QED
      BY <2>5, <3>1, EmptySeq
  <2>9. \A q \in 1..Len(ws) : d \in meta_db[ws[q]]
    BY <2>2, <2>4, <2>5, <2>7
  <2>10. d \in Found(MetaRows, MetaTags, Part(Vector, <<a, z>>))
    BY <1>2, <2>5, <2>8, <2>9, FoundInRows
  <2>11. <<a, z>> \in Searched(Vector)
    <3>1. <<a, z>> # <<N, N>>
      BY <2>6, <2>7
    <3> QED
      BY <1>2, <2>2, <3>1, VectorFacts DEF N
  <2> QED
    BY <2>10, <2>11 DEF LineOf
<1>3. IInv => LineAnswers
  BY <1>1, <1>2 DEF LineAnswers
<1> QED
  BY <1>3, Invariance, PTL
=============================================================================
