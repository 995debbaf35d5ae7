----------------------------- MODULE TSetProofs -----------------------------
(***************************************************************************)
(* Proofs about TSet, for every hash, number of threads and row length.    *)
(* The keys are injective within the arrays (KeyInjective), because JIDX   *)
(* counts the earlier entries of the bucket and never wraps; the invariant *)
(* IInv then ties every value to the row and position it was stored for.   *)
(***************************************************************************)
EXTENDS TSet, FiniteSetTheorems, TLAPS

(* Arithmetic of words and of counters.                                    *)
LEMMA ModRange == ASSUME NEW a \in Nat, NEW p \in Nat \ {0}
                  PROVE  a % p \in 0..p-1
  OBVIOUS

LEMMA ModSmall == ASSUME NEW p \in Nat \ {0}, NEW a \in 0..p-1
                  PROVE  a % p = a
  OBVIOUS

LEMMA ProductOrder == ASSUME NEW p \in Nat \ {0}, NEW a \in Nat, NEW b \in Nat,
                             a * p < b * p
                      PROVE  (a + 1) * p <= b * p
<1>1. a < b
  <2>1. SUFFICES ASSUME b <= a PROVE FALSE
    OBVIOUS
  <2>2. b * p <= a * p
    BY <2>1
  <2> QED
    BY <2>2
<1>2. (a + 1) <= b
  BY <1>1
<1> QED
  BY <1>2

LEMMA ProductCancel == ASSUME NEW p \in Nat \ {0}, NEW a \in Nat, NEW b \in Nat,
                              a * p <= b * p
                       PROVE  a <= b
  OBVIOUS

LEMMA WordsCover == /\ N_words \in Nat /\ N_max_id_words \in Nat
                    /\ N_max_ids <= N_max_id_words
<1> DEFINE d == N_max_ids \div N_threads
           m == N_max_ids % N_threads
<1>1. d \in Nat /\ m \in 0..N_threads-1
  BY SizeAssumption
<1>2. N_max_ids = d * N_threads + m
  BY SizeAssumption
<1> HIDE DEF d, m
<1>3. CASE m = 0
  BY <1>1, <1>2, <1>3, SizeAssumption DEF N_words, N_max_id_words, d, m
<1>4. CASE m # 0
  <2>1. N_words = d + 1
    BY <1>1, <1>4 DEF N_words, d, m
  <2>2. (d + 1) * N_threads = d * N_threads + N_threads
    BY <1>1, SizeAssumption
  <2>3. d * N_threads \in Nat
    BY <1>1, SizeAssumption
  <2> QED
    BY <1>1, <1>2, <2>1, <2>2, <2>3, SizeAssumption DEF N_max_id_words
<1> QED
  BY <1>3, <1>4

-----------------------------------------------------------------------------
(* Keys                                                                    *)

LEMMA DigestType == ASSUME NEW k \in Keywords, NEW n \in Nat
                    PROVE  Digest(k, n) \in Digests /\ BucketOf(k, n) \in Buckets
  BY ModRange, SpanAssumption, BucketAssumption DEF Digest, Digests, BucketOf

LEMMA CountType == ASSUME NEW k, NEW n \in Nat, NEW b
                   PROVE  /\ IsFiniteSet(InBucket(k, n, b))
                          /\ Cardinality(InBucket(k, n, b)) \in 0..n
<1>1. IsFiniteSet(0..n-1) /\ Cardinality(0..n-1) = n
  BY FS_Interval
<1>2. InBucket(k, n, b) \subseteq 0..n-1
  BY DEF InBucket
<1> QED
  BY <1>1, <1>2, FS_Subset, FS_CardinalityType

(* Counting one more entry is what CountBucket does.                       *)
LEMMA CountNext == ASSUME NEW k \in Keywords, NEW n \in Nat,
                          FreeB = Counted(k, n)
                   PROVE  /\ NextKey(k, n) = KeyOf(k, n)
                          /\ CountBucket(k, n) = Counted(k, n + 1)
<1> DEFINE b0 == BucketOf(k, n)
<1>1. b0 \in Buckets
  BY DigestType
<1>2. NextKey(k, n) = KeyOf(k, n)
  BY <1>1 DEF NextKey, KeyOf, Counted
<1>3. ASSUME NEW b \in Buckets
      PROVE  Cardinality(InBucket(k, n + 1, b)) =
               Cardinality(InBucket(k, n, b)) + (IF b = b0 THEN 1 ELSE 0)
  <2>1. 0..(n+1)-1 = (0..n-1) \cup {n}
    OBVIOUS
  <2>2. CASE b = b0
    <3>1. InBucket(k, n + 1, b) = InBucket(k, n, b) \cup {n}
      BY <2>1, <2>2 DEF InBucket
    <3>2. n \notin InBucket(k, n, b)
      BY DEF InBucket
    <3> QED
      BY <2>2, <3>1, <3>2, CountType, FS_AddElement
  <2>3. CASE b # b0
    <3>1. InBucket(k, n + 1, b) = InBucket(k, n, b)
      BY <2>1, <2>3 DEF InBucket
    <3> QED
      BY <2>3, <3>1, CountType
  <2> QED
    BY <2>2, <2>3
<1>4. CountBucket(k, n) = [b \in Buckets |-> FreeB[b] + (IF b = b0 THEN 1 ELSE 0)]
  BY <1>1, CountType DEF CountBucket, Counted
<1> QED
  BY <1>2, <1>3, <1>4 DEF Counted

LEMMA CountZero == ASSUME NEW k
                   PROVE  [b \in Buckets |-> 0] = Counted(k, 0)
<1>1. \A b : InBucket(k, 0, b) = {}
  BY DEF InBucket
<1> QED
  BY <1>1, FS_EmptySet DEF Counted

LEMMA KeyType == ASSUME NEW k \in Keywords, NEW n \in Nat
                 PROVE  KeyOf(k, n) \in Keys /\ KeyOf(k, n).lbl = Digest(k, n)
<1>1. Cardinality(InBucket(k, n, BucketOf(k, n))) \in Nat
  BY CountType
<1> QED
  BY <1>1, DigestType, ModRange, SpanAssumption DEF KeyOf, Keys

(* Within the arrays no two entries of any rows share a key.               *)
LEMMA KeyInjective ==
  ASSUME NEW k1 \in Keywords, NEW k2 \in Keywords,
         NEW m \in Cells, NEW n \in Cells, KeyOf(k1, m) = KeyOf(k2, n)
  PROVE  k1 = k2 /\ m = n
<1>0. m \in Nat /\ n \in Nat /\ m < JIdxSpan /\ n < JIdxSpan
  BY WordsCover, RoomAssumption, SpanAssumption DEF Cells
<1>1. k1 = k2
  BY <1>0, KeyType DEF Digest
<1>2. ASSUME NEW k \in Keywords, NEW p \in Nat, NEW q \in Nat,
             p < q, q < JIdxSpan, KeyOf(k, p) = KeyOf(k, q)
      PROVE  FALSE
  <2> DEFINE b == BucketOf(k, p)
             P == InBucket(k, p, b)
             Q == InBucket(k, q, b)
  <2>1. BucketOf(k, q) = b
    BY <1>2 DEF KeyOf
  <2>2. /\ IsFiniteSet(P) /\ Cardinality(P) \in 0..p
        /\ IsFiniteSet(Q) /\ Cardinality(Q) \in 0..q
    BY CountType
  <2>3. P \cup {p} \subseteq Q /\ p \notin P
    BY <1>2 DEF InBucket
  <2>4. Cardinality(P) + 1 <= Cardinality(Q)
    <3>1. IsFiniteSet(P \cup {p}) /\ Cardinality(P \cup {p}) = Cardinality(P) + 1
      BY <2>2, <2>3, FS_AddElement
    <3> HIDE DEF P, Q
    <3> QED
      BY <2>2, <2>3, <3>1, FS_Subset
  <2>5. Cardinality(P) % JIdxSpan = Cardinality(Q) % JIdxSpan
    BY <1>2, <2>1 DEF KeyOf
  <2>6. Cardinality(P) % JIdxSpan = Cardinality(P) /\ Cardinality(Q) % JIdxSpan = Cardinality(Q)
    BY <1>2, <2>2, ModSmall, SpanAssumption
  <2> QED
    BY <2>2, <2>4, <2>5, <2>6
<1> QED
  BY <1>0, <1>1, <1>2

-----------------------------------------------------------------------------
(* The invariant, action by action                                         *)

LEMMA InitInv == Init => IInv
<1> SUFFICES ASSUME Init PROVE IInv
  OBVIOUS
<1>1. 0 \in Slots /\ 0 \in 0..N_max_id_words /\ 0 \in 0..N_max_ids
  BY SizeAssumption, WordsCover DEF Slots
<1>2. eidx \in Rows
  <2>1. eidx \in [{} -> 1..N_max_ids]
    BY DEF Init
  <2> QED
    BY <2>1 DEF Rows
<1>3. TypeOK
  BY <1>1, <1>2, SetUpsAssumption DEF Init, TypeOK
<1>4. Genuine /\ FrontFirst
  BY KeyType, SizeAssumption DEF Init, Genuine, FrontFirst, SettingUp
<1> QED
  BY <1>3, <1>4 DEF Init, IInv, Control, SettingUp, Retrieving, StoredRows,
       Words, Decodes, Progress, RetrieveExact, RetrieveInBounds, OwnEntries, TornRow

(* The rows of the file.                                                   *)
LEMMA RowType == ASSUME TypeOK, NEW k \in DOMAIN eidx
                 PROVE  /\ k \in Keywords
                        /\ eidx[k] \in 1..N_max_ids
                        /\ \A m \in 0..eidx[k]-1 : m \in Cells /\ m \in Nat
<1>1. PICK K \in SUBSET Keywords : eidx \in [K -> 1..N_max_ids]
  BY DEF TypeOK, Rows
<1> QED
  BY <1>1, WordsCover, SizeAssumption DEF Cells

(* Set-up actions leave the results of the last retrieval alone.           *)
LEMMA ResultsKept ==
  ASSUME IInv, UNCHANGED retrieveVars, pc' \notin {"key", "query", "decode", "returned", "overrun"}
  PROVE  /\ Words' /\ Decodes' /\ Progress'
         /\ RetrieveExact' /\ RetrieveInBounds' /\ OwnEntries' /\ TornRow'
  BY DEF IInv, retrieveVars, Words, Decodes, Progress, Retrieving, RetrieveExact,
         RetrieveInBounds, OwnEntries, TornRow

LEMMA SetUpStartInv == ASSUME IInv, NEW db \in Rows, SetUpStart(db) PROVE IInv'
<1> USE DEF SetUpStart
<1>1. TypeOK'
  <2>1. TypeOK
    BY DEF IInv
  <2>2. version' \in 0..MaxSetUps
    BY <2>1, SetUpsAssumption DEF TypeOK
  <2>3. eidx' \in Rows /\ pending' \subseteq DOMAIN eidx'
    OBVIOUS
  <2> QED
    BY <2>1, <2>2, <2>3 DEF TypeOK, retrieveVars
<1>2. Control'
  BY DEF IInv, TypeOK, Control, SettingUp, Retrieving, retrieveVars
<1>3. Genuine'
  BY DEF IInv, Genuine
<1>4. FrontFirst'
  <2>1. ASSUME NEW key \in Keys, redis[key] # Nil
        PROVE  redis[key].ent.ver \in Nat /\ redis[key].ent.ver <= version
    BY <2>1, SetUpsAssumption DEF IInv, FrontFirst, TypeOK, Values, Entries
  <2> QED
    BY <2>1 DEF IInv, TypeOK, FrontFirst, SettingUp
<1>5. StoredRows'
  BY DEF IInv, StoredRows
<1>6. /\ Words' /\ Decodes' /\ Progress'
      /\ RetrieveExact' /\ RetrieveInBounds' /\ OwnEntries' /\ TornRow'
  BY ResultsKept
<1> QED
  BY <1>1, <1>2, <1>3, <1>4, <1>5, <1>6 DEF IInv

LEMMA RowStartInv == ASSUME IInv, NEW k \in Keywords, RowStart(k) PROVE IInv'
<1> USE DEF RowStart
<1>0. TypeOK
  BY DEF IInv
<1>1. TypeOK'
  <2>1. FreeB' \in [Buckets -> Nat] /\ 0 \in 0..N_max_ids
    BY SizeAssumption
  <2> QED
    BY <1>0, <2>1 DEF TypeOK, retrieveVars
<1>2. Control'
  <2>1. k \in DOMAIN eidx /\ 0 < eidx[k]
    BY <1>0, RowType DEF TypeOK
  <2>2. FreeB' = Counted(k, 0)
    BY CountZero
  <2> QED
    BY <2>1, <2>2 DEF IInv, Control, SettingUp, Retrieving, retrieveVars
<1>3. Genuine'
  BY DEF IInv, Genuine
<1>4. FrontFirst'
  <2>1. (\A q \in Keywords : \A n \in 0..N_max_ids-1 : \A m \in 0..n-1 :
          (redis[KeyOf(q, m)] # Nil /\ redis[KeyOf(q, n)] # Nil) =>
            redis[KeyOf(q, m)].ent.ver >= redis[KeyOf(q, n)].ent.ver)'
    BY DEF IInv, FrontFirst
  <2>2. (\A key \in Keys : redis[key] # Nil =>
           /\ redis[key].ent.ver <= version
           /\ (SettingUp /\ redis[key].ent.ver = version) =>
                /\ redis[key].ent.kw \notin pending
                /\ (pc = "entry" /\ redis[key].ent.kw = row) => redis[key].ent.idx < i)'
    BY DEF IInv, FrontFirst, SettingUp
  <2> QED
    BY <2>1, <2>2 DEF FrontFirst
<1>5. StoredRows'
  <2>1. ASSUME NEW q \in DOMAIN eidx \ (pending' \cup {k})
        PROVE  StoredUpTo(q, eidx[q])'
    BY <2>1 DEF IInv, StoredRows, StoredUpTo, RowValue, LastFlag, Current
  <2>2. StoredUpTo(row, i)'
    BY DEF StoredUpTo
  <2>3. ~complete
    BY DEF IInv, Control, SettingUp
  <2> QED
    BY <2>1, <2>2, <2>3 DEF StoredRows
<1>6. /\ Words' /\ Decodes' /\ Progress'
      /\ RetrieveExact' /\ RetrieveInBounds' /\ OwnEntries' /\ TornRow'
  BY ResultsKept
<1> QED
  BY <1>1, <1>2, <1>3, <1>4, <1>5, <1>6 DEF IInv

LEMMA SetUpEndInv == ASSUME IInv, SetUpEnd PROVE IInv'
<1> USE DEF SetUpEnd
<1>1. TypeOK'
  BY DEF IInv, TypeOK, retrieveVars
<1>2. Control'
  BY DEF IInv, Control, SettingUp, Retrieving, retrieveVars
<1>3. Genuine'
  BY DEF IInv, Genuine
<1>4. FrontFirst'
  BY DEF IInv, FrontFirst, SettingUp
<1>5. StoredRows'
  BY DEF IInv, StoredRows, StoredUpTo, RowValue, LastFlag, Current
<1>6. /\ Words' /\ Decodes' /\ Progress'
      /\ RetrieveExact' /\ RetrieveInBounds' /\ OwnEntries' /\ TornRow'
  BY ResultsKept
<1> QED
  BY <1>1, <1>2, <1>3, <1>4, <1>5, <1>6 DEF IInv

LEMMA SetUpCrashInv == ASSUME IInv, SetUpCrash PROVE IInv'
<1> USE DEF SetUpCrash, setupVars
<1>1. TypeOK'
  BY DEF IInv, TypeOK, retrieveVars
<1>2. Control'
  BY DEF IInv, Control, SettingUp, Retrieving, retrieveVars
<1>3. Genuine'
  BY DEF IInv, Genuine
<1>4. FrontFirst'
  BY DEF IInv, FrontFirst, SettingUp
<1>5. StoredRows'
  BY DEF IInv, Control, SettingUp, StoredRows
<1>6. /\ Words' /\ Decodes' /\ Progress'
      /\ RetrieveExact' /\ RetrieveInBounds' /\ OwnEntries' /\ TornRow'
  BY ResultsKept
<1> QED
  BY <1>1, <1>2, <1>3, <1>4, <1>5, <1>6 DEF IInv

LEMMA FlushInv == ASSUME IInv, Flush PROVE IInv'
<1> USE DEF Flush
<1>1. TypeOK'
  BY DEF IInv, TypeOK, retrieveVars
<1>2. Control'
  BY DEF IInv, Control, SettingUp, Retrieving, retrieveVars
<1>3. Genuine' /\ FrontFirst'
  <2>1. ASSUME NEW q \in Keywords, NEW n \in Nat PROVE redis'[KeyOf(q, n)] = Nil
    BY <2>1, KeyType
  <2> QED
    BY <2>1, SizeAssumption DEF Genuine, FrontFirst
<1>4. StoredRows'
  BY DEF StoredRows
<1>5. /\ Words' /\ Decodes' /\ Progress'
      /\ RetrieveExact' /\ RetrieveInBounds' /\ OwnEntries' /\ TornRow'
  BY DEF IInv, retrieveVars, Words, Decodes, Progress, Retrieving, RetrieveExact,
         RetrieveInBounds, OwnEntries, TornRow
<1> QED
  BY <1>1, <1>2, <1>3, <1>4, <1>5 DEF IInv

(* Storing entry i of the current row.                                     *)
LEMMA SetEntryInv == ASSUME IInv, SetEntry PROVE IInv'
<1> DEFINE key0 == KeyOf(row, i)
<1> USE DEF SetEntry
<1>0. /\ TypeOK
      /\ row \in Keywords /\ row \in DOMAIN eidx \ pending
      /\ eidx[row] \in 1..N_max_ids /\ i \in Nat /\ i < eidx[row] /\ i \in Cells
      /\ ~complete /\ version \in 1..MaxSetUps
      /\ FreeB = Counted(row, i)
  <2>1. TypeOK
    BY DEF IInv
  <2>2. row \in DOMAIN eidx \ pending /\ i < eidx[row] /\ ~complete /\ version > 0
        /\ FreeB = Counted(row, i)
    BY DEF IInv, Control, SettingUp
  <2>3. i \in Nat /\ version \in 1..MaxSetUps
    BY <2>1, <2>2, SetUpsAssumption DEF TypeOK
  <2>4. row \in Keywords /\ eidx[row] \in 1..N_max_ids
        /\ \A m \in 0..eidx[row]-1 : m \in Cells
    BY <2>1, <2>2, RowType
  <2> QED
    BY <2>1, <2>2, <2>3, <2>4
<1>1. /\ key0 \in Keys /\ key0.lbl = Digest(row, i)
      /\ redis' = [redis EXCEPT ![key0] = RowValue(row, i)]
      /\ FreeB' = Counted(row, i + 1)
  BY <1>0, KeyType, CountNext
<1>2. RowValue(row, i) \in Values /\ RowValue(row, i) # Nil
  BY <1>0, DigestType, SizeAssumption, NilAssumption DEF RowValue, LastFlag, Current, Values, Entries
<1>3. /\ redis'[key0] = RowValue(row, i)
      /\ \A key \in Keys \ {key0} : redis'[key] = redis[key]
  BY <1>0, <1>1 DEF TypeOK
<1>4. ASSUME NEW q \in Keywords, NEW m \in Cells, q # row \/ m # i
      PROVE  redis'[KeyOf(q, m)] = redis[KeyOf(q, m)]
  <2>1. KeyOf(q, m) # key0
    BY <1>0, <1>4, KeyInjective
  <2>2. KeyOf(q, m) \in Keys
    BY KeyType, WordsCover DEF Cells
  <2> QED
    BY <1>3, <2>1, <2>2
<1>5. TypeOK'
  <2>1. redis' \in [Keys -> Values \cup {Nil}]
    BY <1>0, <1>1, <1>2 DEF TypeOK
  <2>2. FreeB' \in [Buckets -> Nat]
    BY <1>0, <1>1, CountType DEF Counted
  <2>3. i' \in 0..N_max_ids /\ pc' \in {"row", "entry"}
    BY <1>0, SizeAssumption
  <2> QED
    BY <1>0, <2>1, <2>2, <2>3 DEF TypeOK, retrieveVars
<1>6. Control'
  <2>1. pc' = "entry" => /\ row' \in DOMAIN eidx' \ pending'
                         /\ i' < eidx'[row']
                         /\ FreeB' = Counted(row', i')
    BY <1>0, <1>1
  <2>2. SettingUp' /\ ~complete' /\ version' > 0 /\ ~Retrieving'
    BY <1>0 DEF SettingUp, Retrieving
  <2>3. rcnt' > 0 => target' \in Keywords
    BY DEF IInv, Control, retrieveVars
  <2> QED
    BY <2>1, <2>2, <2>3 DEF Control
<1>7. Genuine'
  <2>1. RowValue(row, i).ent.kw = row /\ RowValue(row, i).ent.idx = i /\ RowValue(row, i).pad = key0.lbl
    BY <1>1 DEF RowValue, Current
  <2> QED
    BY <1>3, <2>1 DEF IInv, Genuine
<1>8. FrontFirst'
  <2>1. RowValue(row, i).ent.kw = row /\ RowValue(row, i).ent.idx = i /\ RowValue(row, i).ent.ver = version
    BY DEF RowValue, Current
  <2>2. \A key \in Keys : redis[key] # Nil => redis[key].ent.ver <= version
    BY DEF IInv, FrontFirst
  <2>3. ASSUME NEW q \in Keywords, NEW n \in 0..N_max_ids-1, NEW m \in 0..n-1,
               redis'[KeyOf(q, m)] # Nil, redis'[KeyOf(q, n)] # Nil
        PROVE  redis'[KeyOf(q, m)].ent.ver >= redis'[KeyOf(q, n)].ent.ver
    <3>0. m \in Cells /\ n \in Cells /\ m \in 0..N_max_ids-1 /\ m # n
      BY WordsCover, SizeAssumption DEF Cells
    <3>1. CASE q = row /\ n = i
      <4>0. StoredUpTo(row, i) /\ m \in 0..i-1
        BY <3>1 DEF IInv, StoredRows
      <4>1. redis[KeyOf(row, m)].ent = Current(row, m)
        <5>1. redis[KeyOf(row, m)] = RowValue(row, m)
          BY <4>0 DEF StoredUpTo
        <5> QED
          BY <5>1 DEF RowValue
      <4>2. redis'[KeyOf(q, m)] = redis[KeyOf(q, m)]
        BY <1>4, <3>0, <3>1
      <4> QED
        BY <1>0, <1>3, <2>1, <3>1, <4>1, <4>2 DEF Current
    <3>2. CASE q = row /\ m = i
      <4>1. redis'[KeyOf(q, n)] = redis[KeyOf(q, n)]
        BY <1>4, <3>0, <3>2
      <4>2. KeyOf(q, n) \in Keys
        BY KeyType, <3>0, WordsCover DEF Cells
      <4> QED
        BY <1>0, <1>3, <2>1, <2>2, <2>3, <3>2, <4>1, <4>2
    <3>3. CASE q # row \/ (m # i /\ n # i)
      BY <1>4, <2>3, <3>0, <3>3 DEF IInv, FrontFirst
    <3> QED
      BY <3>1, <3>2, <3>3
  <2>4. ASSUME NEW key \in Keys, redis'[key] # Nil
        PROVE  /\ redis'[key].ent.ver <= version
               /\ redis'[key].ent.ver = version =>
                    /\ redis'[key].ent.kw \notin pending
                    /\ (pc' = "entry" /\ redis'[key].ent.kw = row)
                         => redis'[key].ent.idx < i + 1
    <3>1. CASE key = key0
      BY <1>0, <1>3, <2>1, <3>1
    <3>2. CASE key # key0
      <4>1. redis'[key] = redis[key] /\ redis[key] # Nil
        BY <1>3, <2>4, <3>2
      <4>2. redis[key].ent.idx \in Nat
        BY <1>0, <4>1, SizeAssumption DEF TypeOK, Values, Entries
      <4> QED
        BY <1>0, <4>1, <4>2 DEF IInv, FrontFirst, SettingUp
    <3> QED
      BY <3>1, <3>2
  <2> QED
    BY <2>3, <2>4 DEF FrontFirst
<1>9. StoredRows'
  <2>1. ASSUME NEW q \in DOMAIN eidx \ (pending \cup {row})
        PROVE  StoredUpTo(q, eidx[q])'
    <3>1. q \in Keywords /\ \A m \in 0..eidx[q]-1 : m \in Cells
      BY <1>0, RowType
    <3>2. StoredUpTo(q, eidx[q])
      BY DEF IInv, StoredRows
    <3>3. \A m \in 0..eidx[q]-1 : redis'[KeyOf(q, m)] = redis[KeyOf(q, m)]
      BY <1>4, <2>1, <3>1
    <3> QED
      BY <3>2, <3>3 DEF StoredUpTo, RowValue, LastFlag, Current
  <2>2. ASSUME NEW m \in 0..i
        PROVE  redis'[KeyOf(row, m)] = RowValue(row, m)'
    <3>1. RowValue(row, m)' = RowValue(row, m)
      BY DEF RowValue, LastFlag, Current
    <3>2. CASE m = i
      BY <1>3, <3>1, <3>2
    <3>3. CASE m # i
      <4>1. m \in 0..i-1 /\ m \in Cells
        BY <1>0, <3>3, WordsCover DEF Cells
      <4>2. StoredUpTo(row, i)
        BY DEF IInv, StoredRows
      <4>3. redis'[KeyOf(row, m)] = redis[KeyOf(row, m)]
        BY <1>0, <1>4, <3>3, <4>1
      <4> QED
        BY <3>1, <4>1, <4>2, <4>3 DEF StoredUpTo
    <3> QED
      BY <3>2, <3>3
  <2>3. StoredUpTo(row, i)'
    BY <1>0, <2>2 DEF StoredUpTo
  <2>4. CASE pc' = "entry"
    BY <1>0, <2>1, <2>3, <2>4 DEF StoredRows
  <2>5. CASE pc' = "row"
    <3>1. StoredUpTo(row, eidx[row])'
      BY <1>0, <2>3, <2>5
    <3> QED
      BY <1>0, <2>1, <2>5, <3>1 DEF StoredRows
  <2> QED
    BY <2>4, <2>5
<1>10. /\ Words' /\ Decodes' /\ Progress'
       /\ RetrieveExact' /\ RetrieveInBounds' /\ OwnEntries' /\ TornRow'
  BY ResultsKept
<1> QED
  BY <1>5, <1>6, <1>7, <1>8, <1>9, <1>10 DEF IInv

(* Retrieval leaves the store and the set-up's variables alone.            *)
LEMMA StoreKept ==
  ASSUME IInv, UNCHANGED <<redis, setupVars>>, ~SettingUp'
  PROVE  Genuine' /\ FrontFirst' /\ StoredRows'
<1>1. Genuine'
  BY DEF IInv, Genuine
<1>2. FrontFirst'
  BY DEF IInv, FrontFirst, setupVars
<1>3. StoredRows'
  BY DEF IInv, StoredRows, StoredUpTo, RowValue, LastFlag, Current, setupVars, SettingUp
<1> QED
  BY <1>1, <1>2, <1>3

LEMMA RetrieveStartInv == ASSUME IInv, NEW k \in Keywords, RetrieveStart(k) PROVE IInv'
<1> USE DEF RetrieveStart
<1>0. TypeOK /\ 0 \in Slots /\ 0 \in 0..N_max_id_words /\ N_threads \in Nat \ {0}
      /\ N_max_id_words \in Nat /\ N_words \in Nat
  BY SizeAssumption, WordsCover DEF IInv, Slots
<1>1. TypeOK'
  <2>1. /\ FreeB' \in [Buckets -> Nat]
        /\ keys' \in [Slots -> Keys \cup {NoKey}]
        /\ res' \in [Slots -> Values \cup {Nil}]
        /\ tv' \in [Cells -> Entries \cup {Zero, Junk}]
    OBVIOUS
  <2> QED
    BY <1>0, <2>1 DEF TypeOK, setupVars
<1>2. Control'
  BY DEF IInv, Control, SettingUp, Retrieving, setupVars
<1>3. Genuine' /\ FrontFirst' /\ StoredRows'
  BY StoreKept DEF SettingUp
<1>4. Words'
  <2>1. FreeB' = Counted(k, 0)
    BY CountZero
  <2>2. 0 \in 0..N_words /\ 0 = 0 * N_threads
    BY <1>0
  <2> QED
    BY <1>0, <2>1, <2>2 DEF Words
<1>5. Decodes' /\ OwnEntries' /\ TornRow'
  BY DEF Decodes, OwnEntries, TornRow
<1>6. Progress'
  <2>1. \A q \in DOMAIN eidx : eidx[q] > 0
    BY <1>0, RowType, SizeAssumption
  <2> QED
    BY <2>1 DEF Progress, setupVars
<1>7. RetrieveExact' /\ RetrieveInBounds'
  BY DEF RetrieveExact, RetrieveInBounds
<1> QED
  BY <1>1, <1>2, <1>3, <1>4, <1>5, <1>6, <1>7 DEF IInv

(* The key of slot ni of the next word.                                    *)
LEMMA RetrieveKeyInv == ASSUME IInv, RetrieveKey PROVE IInv'
<1> USE DEF RetrieveKey
<1>0. /\ TypeOK /\ target \in Keywords /\ N_threads \in Nat \ {0}
      /\ rcnt \in Nat /\ ni \in 0..N_threads-1 /\ N_max_id_words \in Nat
      /\ FreeB = Counted(target, rcnt + ni)
      /\ \A s \in 0..ni-1 : keys[s] = KeyOf(target, rcnt + s)
      /\ \E q \in 0..N_words : rcnt = q * N_threads
  <2>1. TypeOK /\ Control /\ Words
    BY DEF IInv
  <2> QED
    BY <2>1, SizeAssumption, WordsCover DEF Control, Retrieving, Words, TypeOK, Slots
<1>1. /\ FreeB' = Counted(target, rcnt + ni + 1)
      /\ keys' = [keys EXCEPT ![ni] = KeyOf(target, rcnt + ni)]
      /\ KeyOf(target, rcnt + ni) \in Keys
  <2>1. rcnt + ni \in Nat
    BY <1>0
  <2>2. /\ NextKey(target, rcnt + ni) = KeyOf(target, rcnt + ni)
        /\ CountBucket(target, rcnt + ni) = Counted(target, rcnt + ni + 1)
    BY <1>0, <2>1, CountNext
  <2> QED
    BY <1>0, <2>1, <2>2, KeyType
<1>2. TypeOK'
  <2>1. FreeB' \in [Buckets -> Nat]
    BY <1>0, <1>1, CountType DEF Counted
  <2>2. keys' \in [Slots -> Keys \cup {NoKey}]
    BY <1>0, <1>1 DEF TypeOK
  <2>3. ni' \in Slots /\ pc' \in {"key", "query"}
    BY <1>0 DEF Slots
  <2> QED
    BY <1>0, <2>1, <2>2, <2>3 DEF TypeOK, setupVars
<1>3. Control'
  BY DEF IInv, Control, SettingUp, Retrieving, setupVars
<1>4. Genuine' /\ FrontFirst' /\ StoredRows'
  BY StoreKept DEF SettingUp
<1>5. Words'
  <2>1. ASSUME NEW s \in 0..ni PROVE keys'[s] = KeyOf(target, rcnt + s)
    <3>1. s \in Slots /\ DOMAIN keys = Slots /\ ni \in Slots
      BY <1>0 DEF TypeOK, Slots
    <3>2. CASE s = ni
      BY <1>1, <3>1, <3>2
    <3>3. CASE s # ni
      <4>1. s \in 0..ni-1
        BY <1>0, <3>3
      <4> QED
        BY <1>0, <1>1, <3>1, <3>3, <4>1
    <3> QED
      BY <3>2, <3>3
  <2>2. CASE ni + 1 < N_threads
    <3>1. /\ ni' = ni + 1 /\ rcnt' = rcnt /\ target' = target /\ pc' = "key"
          /\ rcnt' + ni' = rcnt + ni + 1 /\ rcnt + ni + 1 <= N_max_id_words
          /\ 0..ni'-1 = 0..ni
      BY <1>0, <2>2
    <3>2. /\ rcnt' + ni' <= N_max_id_words
          /\ FreeB' = Counted(target', rcnt' + ni')
          /\ \A s \in 0..ni'-1 : keys'[s] = KeyOf(target', rcnt' + s)
      BY <1>1, <2>1, <3>1
    <3> QED
      BY <1>0, <3>1, <3>2 DEF Words
  <2>3. CASE ~(ni + 1 < N_threads)
    <3>1. ni = N_threads - 1
      BY <1>0, <2>3
    <3> QED
      BY <1>0, <1>1, <2>1, <2>3, <3>1 DEF Words, Slots
  <2> QED
    BY <2>2, <2>3
<1>6. /\ Decodes' /\ Progress' /\ OwnEntries' /\ TornRow'
      /\ RetrieveExact' /\ RetrieveInBounds'
  <2>1. Retrieving /\ pc' \in {"key", "query"}
    BY DEF Retrieving
  <2> QED
    BY <2>1 DEF IInv, Decodes, Progress, OwnEntries, TornRow,
         RetrieveExact, RetrieveInBounds, Current, setupVars
<1> QED
  BY <1>2, <1>3, <1>4, <1>5, <1>6 DEF IInv

LEMMA RetrieveOverrunInv == ASSUME IInv, RetrieveOverrun PROVE IInv'
<1> USE DEF RetrieveOverrun, retrieveVars
<1>1. TypeOK' /\ Control'
  BY DEF IInv, TypeOK, Control, SettingUp, Retrieving, setupVars
<1>2. Genuine' /\ FrontFirst' /\ StoredRows'
  BY StoreKept DEF SettingUp
<1>3. RetrieveInBounds'
  <2> SUFFICES ASSUME complete, target \in DOMAIN eidx PROVE FALSE
    BY DEF RetrieveInBounds, setupVars
  <2>1. rcnt < eidx[target] /\ eidx[target] \in 1..N_max_ids
    BY RowType DEF IInv, Progress, Retrieving
  <2>2. PICK q \in 0..N_words : rcnt = q * N_threads
    BY DEF IInv, Words
  <2>3. rcnt < N_words * N_threads
    BY <2>1, WordsCover, SizeAssumption DEF IInv, TypeOK, N_max_id_words
  <2>4. (q + 1) * N_threads <= N_words * N_threads
    BY <2>2, <2>3, ProductOrder, SizeAssumption, WordsCover
  <2>5. (q + 1) * N_threads = rcnt + N_threads
    BY <2>2, SizeAssumption, WordsCover
  <2>6. rcnt + N_threads <= N_max_id_words
    BY <2>4, <2>5 DEF N_max_id_words
  <2>7. rcnt \in Nat /\ ni \in 0..N_threads-1
    BY WordsCover DEF IInv, TypeOK, Slots
  <2> QED
    BY <2>6, <2>7, SizeAssumption, WordsCover
<1>4. /\ Words' /\ Decodes' /\ Progress' /\ RetrieveExact' /\ OwnEntries' /\ TornRow'
  BY DEF IInv, Words, Decodes, Progress, Retrieving, RetrieveExact, OwnEntries, TornRow
<1> QED
  BY <1>1, <1>2, <1>3, <1>4 DEF IInv

LEMMA RetrieveQueryInv == ASSUME IInv, RetrieveQuery PROVE IInv'
<1> USE DEF RetrieveQuery
<1>0. /\ TypeOK /\ target \in Keywords /\ rcnt \in Nat /\ ni = 0
      /\ \A s \in Slots : keys[s] = KeyOf(target, rcnt + s)
      /\ N_threads \in Nat \ {0} /\ N_max_id_words \in Nat
  <2>1. TypeOK /\ Control /\ Words
    BY DEF IInv
  <2> QED
    BY <2>1, SizeAssumption, WordsCover DEF Control, Retrieving, Words, TypeOK
<1>1. \A s \in Slots : /\ redis[keys[s]] \in Values \cup {Nil}
                       /\ redis[keys[s]] = redis[KeyOf(target, rcnt + s)]
  <2>1. \A s \in Slots : s \in Nat /\ KeyOf(target, rcnt + s) \in Keys
    BY <1>0, KeyType DEF Slots
  <2> QED
    BY <1>0, <2>1 DEF TypeOK
<1>2. TypeOK'
  BY <1>0, <1>1 DEF TypeOK, setupVars
<1>3. Control'
  BY DEF IInv, Control, SettingUp, Retrieving, setupVars
<1>4. Genuine' /\ FrontFirst' /\ StoredRows'
  BY StoreKept DEF SettingUp
<1>5. Words'
  <2>1. \A s \in Slots : res'[s] = redis'[KeyOf(target, rcnt - ni + s)]
    BY <1>0, <1>1
  <2> QED
    BY <1>0, <2>1 DEF IInv, Words
<1>6. /\ Decodes' /\ Progress' /\ OwnEntries' /\ TornRow'
      /\ RetrieveExact' /\ RetrieveInBounds'
  BY DEF IInv, Decodes, Progress, Retrieving, OwnEntries, TornRow,
         RetrieveExact, RetrieveInBounds, Current, setupVars
<1> QED
  BY <1>2, <1>3, <1>4, <1>5, <1>6 DEF IInv

LEMMA RetrieveCrashInv == ASSUME IInv, RetrieveCrash PROVE IInv'
<1> USE DEF RetrieveCrash, retrieveVars
<1>1. TypeOK' /\ Control'
  BY DEF IInv, TypeOK, Control, SettingUp, Retrieving, setupVars
<1>2. Genuine' /\ FrontFirst' /\ StoredRows'
  BY StoreKept DEF SettingUp
<1>3. /\ Words' /\ Decodes' /\ Progress'
      /\ RetrieveExact' /\ RetrieveInBounds' /\ OwnEntries' /\ TornRow'
  BY ResultsKept
<1> QED
  BY <1>1, <1>2, <1>3 DEF IInv

(* Decoding slot ni, the entry at position rcnt.                           *)
LEMMA RetrieveDecodeInv == ASSUME IInv, RetrieveDecode PROVE IInv'
<1> DEFINE v == redis[KeyOf(target, rcnt)]
<1>0. /\ TypeOK /\ target \in Keywords /\ N_threads \in Nat \ {0}
      /\ rcnt \in Nat /\ ni \in 0..N_threads-1 /\ ni \in Slots
      /\ N_max_id_words \in Nat /\ N_max_ids <= N_max_id_words
      /\ pc = "decode" /\ ni <= rcnt /\ rcnt - ni + N_threads <= N_max_id_words
      /\ \A s \in Slots : res[s] = redis[KeyOf(target, rcnt - ni + s)]
  <2>1. TypeOK /\ Control /\ Words /\ pc = "decode"
    BY DEF IInv, RetrieveDecode
  <2> QED
    BY <2>1, SizeAssumption, WordsCover DEF Control, Retrieving, Words, TypeOK, Slots
<1>1. /\ rcnt \in Cells /\ rcnt + 1 \in 0..N_max_id_words
      /\ res[ni] = v /\ v \in Values \cup {Nil}
      /\ KeyOf(target, rcnt) \in Keys /\ KeyOf(target, rcnt).lbl = Digest(target, rcnt)
  <2>1. rcnt \in Cells /\ rcnt - ni + ni = rcnt /\ rcnt + 1 \in 0..N_max_id_words
    BY <1>0 DEF Cells
  <2>2. KeyOf(target, rcnt) \in Keys /\ KeyOf(target, rcnt).lbl = Digest(target, rcnt)
    BY <1>0, KeyType
  <2>3. res[ni] = redis[KeyOf(target, rcnt - ni + ni)]
    BY <1>0
  <2>4. res[ni] = v
    BY <2>1, <2>3
  <2> QED
    BY <1>0, <2>1, <2>2, <2>4 DEF TypeOK
(* A value found there belongs to this very entry.                         *)
<1>2. v # Nil => /\ v.pad = Digest(target, rcnt)
                 /\ v \in Values /\ v.ent \in Entries
                 /\ v.ent.kw = target /\ v.ent.idx = rcnt /\ rcnt \in 0..N_max_ids-1
  <2> SUFFICES ASSUME v # Nil
               PROVE  /\ v.pad = Digest(target, rcnt)
                      /\ v \in Values /\ v.ent \in Entries
                      /\ v.ent.kw = target /\ v.ent.idx = rcnt /\ rcnt \in 0..N_max_ids-1
    OBVIOUS
  <2>1. v \in Values
    BY <1>1
  <2>2. v.ent \in Entries /\ v.ent.kw \in Keywords /\ v.ent.idx \in 0..N_max_ids-1
    BY <2>1 DEF Values, Entries
  <2>3. KeyOf(target, rcnt) = KeyOf(v.ent.kw, v.ent.idx) /\ v.pad = KeyOf(target, rcnt).lbl
    BY <1>1 DEF IInv, Genuine
  <2>4. v.ent.idx \in Cells
    BY <1>0, <2>2, SizeAssumption DEF Cells
  <2>5. v.ent.kw = target /\ v.ent.idx = rcnt
    BY <1>0, <1>1, <2>2, <2>3, <2>4, KeyInjective
  <2> QED
    BY <1>1, <2>1, <2>2, <2>3, <2>5
<1>3. PICK d \in Decoded(ni, rcnt) :
        /\ tv' = [tv EXCEPT ![rcnt] = d.ent]
        /\ rcnt' = rcnt + 1
        /\ \/ d.last = 1 /\ pc' = "returned" /\ UNCHANGED ni
           \/ d.last = 0 /\ ni + 1 < N_threads /\ ni' = ni + 1 /\ UNCHANGED pc
           \/ d.last = 0 /\ ni + 1 = N_threads /\ ni' = 0 /\ pc' = "key"
  BY DEF RetrieveDecode
<1>4. UNCHANGED <<redis, FreeB, eidx, version, complete, pending, row, i, target, keys, res>>
  BY DEF RetrieveDecode, setupVars
<1>5. \/ v # Nil /\ d.ent = v.ent /\ d.last = v.last
      \/ v = Nil /\ d.ent = Junk
  BY <1>1, <1>2, <1>3 DEF Decoded
<1>6. /\ tv'[rcnt] = d.ent
      /\ \A n \in 0..rcnt-1 : tv'[n] = tv[n]
  <2>1. DOMAIN tv = Cells /\ \A n \in 0..rcnt-1 : n \in Cells /\ n # rcnt
    BY <1>0, <1>1 DEF TypeOK, Cells
  <2> QED
    BY <1>1, <1>3, <2>1
<1>7. pc' \in {"decode", "key", "returned"} /\ ni' \in Slots /\ 0..rcnt'-1 = (0..rcnt-1) \cup {rcnt}
  BY <1>0, <1>3 DEF Slots
<1>8. TypeOK'
  <2>1. tv' \in [Cells -> Entries \cup {Zero, Junk}]
    BY <1>0, <1>2, <1>3, <1>5 DEF TypeOK
  <2> QED
    BY <1>0, <1>1, <1>3, <1>4, <1>7, <2>1 DEF TypeOK
<1>9. Control'
  BY <1>0, <1>4, <1>7 DEF IInv, Control, SettingUp, Retrieving
<1>10. Genuine' /\ FrontFirst' /\ StoredRows'
  BY <1>4, <1>7, StoreKept DEF SettingUp, setupVars
<1>11. Words'
  <2>1. FreeB = Counted(target, rcnt - ni + N_threads)
        /\ \E q \in 0..N_words : rcnt - ni = q * N_threads
    BY <1>0 DEF IInv, Words
  <2>2. CASE pc' = "decode"
    <3>1. ni' = ni + 1 /\ rcnt' = rcnt + 1 /\ rcnt' - ni' = rcnt - ni /\ ni' <= rcnt'
      BY <1>0, <1>3, <2>2
    <3> QED
      BY <1>0, <1>4, <2>1, <2>2, <3>1 DEF Words
  <2>3. CASE pc' = "key"
    <3>1. ni' = 0 /\ rcnt' = rcnt - ni + N_threads /\ rcnt' + ni' = rcnt - ni + N_threads
      BY <1>0, <1>3, <2>3
    <3>2. PICK q \in 0..N_words : rcnt - ni = q * N_threads
      BY <2>1
    <3>3. rcnt' = (q + 1) * N_threads
      BY <1>0, <3>1, <3>2, WordsCover
    <3>4. q + 1 \in 0..N_words
      <4>1. (q + 1) * N_threads <= N_words * N_threads
        BY <1>0, <3>1, <3>3 DEF N_max_id_words
      <4>2. q + 1 <= N_words
        BY <1>0, <4>1, ProductCancel, WordsCover
      <4> QED
        BY <4>2, WordsCover
    <3>5. FreeB' = Counted(target', rcnt' + ni') /\ rcnt' + ni' <= N_max_id_words
      BY <1>0, <1>4, <2>1, <3>1
    <3> QED
      BY <2>3, <3>1, <3>3, <3>4, <3>5 DEF Words
  <2>4. CASE pc' = "returned"
    BY <2>4 DEF Words
  <2> QED
    BY <1>7, <2>2, <2>3, <2>4
<1>12. Decodes'
  <2>1. \A n \in 0..rcnt-1 :
          IF redis[KeyOf(target, n)] = Nil THEN tv[n] = Junk
          ELSE tv[n] = redis[KeyOf(target, n)].ent /\ redis[KeyOf(target, n)].last = 0
    BY <1>0 DEF IInv, Decodes, Retrieving
  <2>2. pc' # "returned" => d.last = 0
    BY <1>3
  <2>3. redis' = redis /\ target' = target
    BY <1>4
  <2> QED
    BY <1>5, <1>6, <1>7, <2>1, <2>2, <2>3 DEF Decodes, Retrieving, KeyOf
<1>13. ASSUME complete, target \in DOMAIN eidx
       PROVE  /\ rcnt < eidx[target] /\ eidx[target] \in Nat
              /\ \A n \in 0..rcnt : tv'[n] = Current(target, n)
              /\ d.last = LastFlag(target, rcnt)
  <2>1. rcnt < eidx[target] /\ \A n \in 0..rcnt-1 : tv[n] = Current(target, n)
    BY <1>0, <1>13 DEF IInv, Progress, Retrieving
  <2>2. eidx[target] \in Nat /\ eidx[target] <= N_max_ids
    BY <1>0, <1>13, RowType
  <2>3. v = RowValue(target, rcnt)
    <3>1. StoredUpTo(target, eidx[target]) /\ rcnt \in 0..eidx[target]-1
      BY <1>0, <1>13, <2>1, <2>2 DEF IInv, StoredRows
    <3> QED
      BY <3>1 DEF StoredUpTo
  <2>4. v # Nil
    <3>1. version \in 1..MaxSetUps /\ rcnt \in 0..N_max_ids-1
      BY <1>0, <1>13, <2>1, <2>2, SetUpsAssumption, SizeAssumption DEF IInv, Control, TypeOK
    <3>2. RowValue(target, rcnt) \in Values
      BY <1>0, <3>1, DigestType DEF RowValue, LastFlag, Current, Values, Entries
    <3> QED
      BY <2>3, <3>2, NilAssumption
  <2>5. d.ent = Current(target, rcnt) /\ d.last = LastFlag(target, rcnt)
    BY <1>5, <2>3, <2>4 DEF RowValue
  <2> QED
    BY <1>0, <1>6, <2>1, <2>2, <2>5
<1>14. Progress'
  <2> SUFFICES ASSUME complete, target \in DOMAIN eidx, pc' \in {"decode", "key"}
               PROVE  rcnt' < eidx[target] /\ \A n \in 0..rcnt'-1 : tv'[n] = Current(target, n)'
    BY <1>4, <1>7 DEF Progress, Retrieving
  <2>1. d.last = 0
    BY <1>3
  <2>2. rcnt # eidx[target] - 1
    BY <1>13, <2>1 DEF LastFlag
  <2> QED
    BY <1>0, <1>3, <1>4, <1>13, <2>2 DEF Current
<1>15. RetrieveExact'
  <2> SUFFICES ASSUME complete, target \in DOMAIN eidx, pc' = "returned"
               PROVE  rcnt' = eidx[target] /\ \A n \in 0..rcnt'-1 : tv'[n] = Current(target, n)'
    BY <1>4 DEF RetrieveExact
  <2>1. d.last = 1
    BY <1>0, <1>3
  <2>2. rcnt = eidx[target] - 1
    BY <1>13, <2>1 DEF LastFlag
  <2> QED
    BY <1>0, <1>3, <1>4, <1>13, <2>2 DEF Current
<1>16. RetrieveInBounds'
  BY <1>7 DEF RetrieveInBounds
<1>17. OwnEntries'
  BY <1>2, <1>4, <1>5, <1>6, <1>7 DEF IInv, OwnEntries
<1>18. TornRow'
  <2>1. ASSUME NEW m \in 0..rcnt-1, tv[m] # Junk, d.ent # Junk
        PROVE  tv[m].ver >= d.ent.ver
    <3>1. redis[KeyOf(target, m)] # Nil /\ tv[m] = redis[KeyOf(target, m)].ent
      BY <1>0, <2>1 DEF IInv, Decodes, Retrieving
    <3>2. v # Nil /\ d.ent = v.ent /\ rcnt \in 0..N_max_ids-1
      BY <1>2, <1>5, <2>1
    <3> QED
      BY <1>0, <3>1, <3>2 DEF IInv, FrontFirst
  <2>2. ASSUME NEW n \in 0..rcnt, NEW m \in 0..n-1
        PROVE  tv'[m] = Junk \/ tv'[n] = Junk \/ tv'[m].ver >= tv'[n].ver
    <3>1. m \in 0..rcnt-1
      BY <1>0
    <3>2. CASE n = rcnt
      BY <1>6, <2>1, <3>1, <3>2
    <3>3. CASE n # rcnt
      <4>1. n \in 0..rcnt-1
        BY <1>0, <3>3
      <4> QED
        BY <1>6, <3>1, <4>1 DEF IInv, TornRow
    <3> QED
      BY <3>2, <3>3
  <2>3. 0..rcnt'-1 = 0..rcnt
    BY <1>0, <1>3
  <2> QED
    BY <2>2, <2>3 DEF TornRow
<1> QED
  BY <1>8, <1>9, <1>10, <1>11, <1>12, <1>14, <1>15, <1>16, <1>17, <1>18 DEF IInv

LEMMA NextInv == IInv /\ [Next]_vars => IInv'
<1> SUFFICES ASSUME IInv, [Next]_vars PROVE IInv'
  OBVIOUS
<1>1. ASSUME NEW db \in Rows, SetUpStart(db) PROVE IInv'
  BY <1>1, SetUpStartInv
<1>2. ASSUME NEW k \in Keywords, RowStart(k) PROVE IInv'
  BY <1>2, RowStartInv
<1>3. CASE SetEntry
  BY <1>3, SetEntryInv
<1>4. CASE SetUpEnd
  BY <1>4, SetUpEndInv
<1>5. CASE SetUpCrash
  BY <1>5, SetUpCrashInv
<1>6. CASE Flush
  BY <1>6, FlushInv
<1>7. ASSUME NEW k \in Keywords, RetrieveStart(k) PROVE IInv'
  BY <1>7, RetrieveStartInv
<1>8. CASE RetrieveKey
  BY <1>8, RetrieveKeyInv
<1>9. CASE RetrieveOverrun
  BY <1>9, RetrieveOverrunInv
<1>10. CASE RetrieveQuery
  BY <1>10, RetrieveQueryInv
<1>11. CASE RetrieveCrash
  BY <1>11, RetrieveCrashInv
<1>12. CASE RetrieveDecode
  BY <1>12, RetrieveDecodeInv
<1>13. CASE UNCHANGED vars
  <2>1. TypeOK' /\ Control'
    BY <1>13 DEF vars, setupVars, retrieveVars, IInv, TypeOK, Control, SettingUp, Retrieving
  <2>2. Genuine' /\ FrontFirst' /\ StoredRows'
    BY <1>13 DEF vars, setupVars, IInv, Genuine, FrontFirst, StoredRows, StoredUpTo,
         RowValue, LastFlag, Current, SettingUp
  <2>3. Words' /\ Decodes' /\ Progress'
    BY <1>13 DEF vars, setupVars, retrieveVars, IInv, Words, Decodes, Progress, Retrieving,
         Current
  <2>4. RetrieveExact' /\ RetrieveInBounds' /\ OwnEntries' /\ TornRow'
    BY <1>13 DEF vars, setupVars, retrieveVars, IInv, RetrieveExact, RetrieveInBounds,
         OwnEntries, TornRow, Current
  <2> QED
    BY <2>1, <2>2, <2>3, <2>4 DEF IInv
<1> QED
  BY <1>1, <1>2, <1>3, <1>4, <1>5, <1>6, <1>7, <1>8, <1>9, <1>10, <1>11, <1>12, <1>13
     DEF Next, SetUpStep, RetrieveStep

-----------------------------------------------------------------------------
(* The inductive invariant holds in every reachable state: TSet_SetUp and  *)
(* TSet_Retrieve count entries per bucket alike, so they compute the same  *)
(* keys.                                                                   *)
THEOREM Invariance == Spec => []IInv
  BY InitInv, NextInv, PTL DEF Spec

(* Every variable keeps its type; counters and cursors stay within the     *)
(* arrays of TSet_SetUp and TSet_Retrieve.                                 *)
THEOREM TypeCorrect == Spec => []TypeOK
<1>1. IInv => TypeOK
  BY DEF IInv
<1> QED
  BY <1>1, Invariance, PTL

(* TSet_Retrieve returns exactly the row that the last completed set-up    *)
(* stored, for every hash, word size and row length.                       *)
THEOREM Exact == Spec => []RetrieveExact
<1>1. IInv => RetrieveExact
  BY DEF IInv
<1> QED
  BY <1>1, Invariance, PTL

(* For such a row TSet_Retrieve's loop never leaves its arrays.            *)
THEOREM InBounds == Spec => []RetrieveInBounds
<1>1. IInv => RetrieveInBounds
  BY DEF IInv
<1> QED
  BY <1>1, Invariance, PTL

(* Whatever crashes, repeated set-ups and flushes left in Redis, no entry  *)
(* of another keyword or position is ever decoded.                         *)
THEOREM Own == Spec => []OwnEntries
<1>1. IInv => OwnEntries
  BY DEF IInv
<1> QED
  BY <1>1, Invariance, PTL

(* A row that a crash left half rewritten reads as newer entries followed  *)
(* by older ones.                                                          *)
THEOREM Torn == Spec => []TornRow
<1>1. IInv => TornRow
  BY DEF IInv
<1> QED
  BY <1>1, Invariance, PTL

(* No redis.set of a set-up replaces an entry the same set-up stored: the  *)
(* keys of its entries are distinct.                                       *)
THEOREM DistinctKeys == Spec => NoOverwrite
<1> DEFINE Kept == \A key \in Keys :
                     (redis'[key] # redis[key] /\ redis[key] # Nil /\ redis'[key] # Nil)
                       => redis[key].ent.ver < redis'[key].ent.ver
<1>1. IInv /\ [Next]_vars => [Kept]_vars
  <2> SUFFICES ASSUME IInv, [Next]_vars PROVE Kept
    OBVIOUS
  <2>1. CASE SetEntry
    <3> SUFFICES ASSUME NEW key \in Keys, redis'[key] # redis[key], redis[key] # Nil
                 PROVE  redis[key].ent.ver < redis'[key].ent.ver
      OBVIOUS
    <3>1. /\ TypeOK /\ row \in DOMAIN eidx \ pending /\ i < eidx[row]
          /\ FreeB = Counted(row, i) /\ pc = "entry"
      BY <2>1 DEF IInv, Control, SetEntry
    <3>2. row \in Keywords /\ i \in Nat /\ i \in Cells
      <4>1. row \in Keywords /\ eidx[row] \in 1..N_max_ids /\ \A m \in 0..eidx[row]-1 : m \in Cells
        BY <3>1, RowType
      <4>2. i \in Nat
        BY <3>1 DEF TypeOK
      <4>3. i \in 0..eidx[row]-1
        BY <3>1, <4>1, <4>2, SizeAssumption
      <4> QED
        BY <4>1, <4>2, <4>3
    <3>3. redis' = [redis EXCEPT ![KeyOf(row, i)] = RowValue(row, i)]
      BY <2>1, <3>1, <3>2, CountNext DEF SetEntry
    <3>4. key = KeyOf(row, i) /\ redis'[key].ent.ver = version
      <4>1. key = KeyOf(row, i) /\ redis'[key] = RowValue(row, i)
        BY <3>1, <3>3 DEF TypeOK
      <4> QED
        BY <4>1 DEF RowValue, Current
    <3>5. redis[key].ent.kw = row /\ redis[key].ent.idx = i
      <4>1. redis[key] \in Values
        BY <3>1 DEF TypeOK
      <4>2. redis[key].ent.kw \in Keywords /\ redis[key].ent.idx \in 0..N_max_ids-1
        BY <4>1 DEF Values, Entries
      <4>3. redis[key].ent.idx \in Cells
        BY <4>2, WordsCover, SizeAssumption DEF Cells
      <4>4. key = KeyOf(redis[key].ent.kw, redis[key].ent.idx)
        BY DEF IInv, Genuine
      <4> QED
        BY <3>2, <3>4, <4>2, <4>3, <4>4, KeyInjective
    <3>6. redis[key].ent.ver \in Nat /\ version \in Nat
      BY <3>1, SetUpsAssumption DEF TypeOK, Values, Entries
    <3>7. redis[key].ent.ver <= version /\ redis[key].ent.ver # version
      BY <3>1, <3>2, <3>5 DEF IInv, FrontFirst, SettingUp
    <3> QED
      BY <3>4, <3>6, <3>7
  <2>2. CASE Flush
    BY <2>2 DEF Flush
  <2>3. CASE redis' = redis
    BY <2>3
  <2> QED
    BY <2>1, <2>2, <2>3 DEF Next, SetUpStep, RetrieveStep, SetUpStart, RowStart,
       SetUpEnd, SetUpCrash, RetrieveStart, RetrieveKey, RetrieveOverrun,
       RetrieveQuery, RetrieveCrash, RetrieveDecode, vars
<1>2. NoOverwrite <=> [][Kept]_vars
  BY DEF NoOverwrite
<1> QED
  BY <1>1, <1>2, Invariance, PTL DEF Spec

-----------------------------------------------------------------------------
(* TSet implements RowStore                                                *)

(* Each cell of a row is the value under one key, apart from its pad.      *)
LEMMA CellValue == ASSUME NEW k \in Keywords, NEW n \in Cells
                   PROVE  /\ KeyTable[k][n] = KeyOf(k, n) /\ KeyOf(k, n) \in Keys
                          /\ n \in Nat
<1>1. n \in Nat
  BY WordsCover DEF Cells
<1> QED
  BY <1>1, KeyType DEF KeyTable

LEMMA StoreInit == Init => Store!Init
<1> SUFFICES ASSUME Init PROVE Store!Init
  OBVIOUS
<1>1. \A k \in Keywords, n \in Cells : CellOf(k, n) = Nil
  BY CellValue DEF Init, CellOf
<1>2. ReplyOf = Nil
  BY DEF Init, ReplyOf
<1> QED
  BY <1>1, <1>2 DEF Store!Init, Store!Cells, Cells

(* redis.set fills the cell of its row and position and no other.          *)
LEMMA StorePut == ASSUME IInv, SetEntry PROVE Store!Next
<1> SUFFICES ASSUME NEW r, NEW j, r = row, j = i PROVE Store!Next
  OBVIOUS
<1> DEFINE v == [last |-> LastFlag(row, i), ent |-> Current(row, i)]
<1>1. /\ TypeOK /\ row \in DOMAIN eidx \ pending /\ i < eidx[row]
      /\ FreeB = Counted(row, i) /\ pc = "entry" /\ version > 0
  BY DEF IInv, Control, SetEntry, SettingUp
<1>2. /\ row \in Keywords /\ i \in Nat /\ i \in Cells /\ i \in 0..N_max_ids-1
  <2>1. row \in Keywords /\ eidx[row] \in 1..N_max_ids /\ \A m \in 0..eidx[row]-1 : m \in Cells
    BY <1>1, RowType
  <2>2. i \in Nat
    BY <1>1 DEF TypeOK
  <2>3. i \in 0..eidx[row]-1
    BY <1>1, <2>1, <2>2, SizeAssumption
  <2> QED
    BY <2>1, <2>2, <2>3, SizeAssumption
<1>3. /\ redis' = [redis EXCEPT ![KeyOf(row, i)] = RowValue(row, i)]
      /\ pc' # "returned"
  BY <1>1, <1>2, CountNext DEF SetEntry
<1>4. v.last \in {0, 1} /\ v.ent \in Entries /\ v \in Store!Values
  <2>1. version \in 1..MaxSetUps
    BY <1>1, SetUpsAssumption DEF TypeOK
  <2> QED
    BY <1>2, <2>1 DEF LastFlag, Current, Entries, Store!Values
<1>5. RowValue(row, i) # Nil
  <2>1. RowValue(row, i) \in Values
    BY <1>2, <1>4, DigestType DEF RowValue, Values
  <2> QED
    BY <2>1, NilAssumption
<1>6. CellOf(r, j)' = v
  <2>1. redis'[KeyOf(row, i)] = RowValue(row, i)
    BY <1>1, <1>2, <1>3, CellValue DEF TypeOK
  <2>2. CellOf(r, j)' = [last |-> RowValue(row, i).last, ent |-> RowValue(row, i).ent]
    BY <1>2, <1>5, <2>1, CellValue DEF CellOf
  <2> QED
    BY <2>2 DEF RowValue
<1>7. \A k \in Keywords, n \in Cells :
        CellOf(k, n)' = IF k = r /\ n = j THEN v ELSE CellOf(k, n)
  <2> SUFFICES ASSUME NEW k \in Keywords, NEW n \in Cells, ~ (k = r /\ n = j)
               PROVE  CellOf(k, n)' = CellOf(k, n)
    BY <1>6
  <2>1. KeyOf(k, n) # KeyOf(row, i)
    BY <1>2, KeyInjective
  <2>2. redis'[KeyOf(k, n)] = redis[KeyOf(k, n)]
    BY <1>1, <1>3, <2>1, CellValue DEF TypeOK
  <2> QED
    BY <2>2, CellValue DEF CellOf
<1>8. ReplyOf = Nil /\ ReplyOf' = Nil
  BY <1>1, <1>3 DEF ReplyOf
<1> HIDE DEF v
<1>9. Store!PutSome(r, j)
  BY <1>2, <1>4, <1>6, <1>7, <1>8 DEF Store!PutSome, Store!Put
<1> QED
  BY <1>2, <1>9 DEF Store!Next, Store!Cells, Cells

(* The last entry of a retrieval is the first flagged cell of the row.     *)
LEMMA StoreRetrieve ==
  ASSUME IInv, RetrieveDecode, pc' = "returned"
  PROVE  Store!Next
<1> DEFINE v(n) == redis[KeyOf(target, n)]
<1>1. /\ TypeOK /\ target \in Keywords /\ pc = "decode" /\ rcnt \in Nat
      /\ ni \in Slots /\ ni <= rcnt /\ rcnt \in Cells
      /\ res[ni] = v(rcnt)
  <2>1. TypeOK /\ Control /\ Words /\ pc = "decode"
    BY DEF IInv, RetrieveDecode
  <2>2. /\ target \in Keywords /\ rcnt \in Nat /\ ni \in 0..N_threads-1
        /\ N_threads \in Nat \ {0} /\ N_max_id_words \in Nat
        /\ ni <= rcnt /\ rcnt - ni + N_threads <= N_max_id_words
        /\ \A s \in Slots : res[s] = redis[KeyOf(target, rcnt - ni + s)]
    BY <2>1, SizeAssumption, WordsCover DEF Control, Retrieving, Words, TypeOK, Slots
  <2>3. rcnt - ni + ni = rcnt /\ rcnt \in Cells /\ ni \in Slots
    BY <2>2 DEF Cells, Slots
  <2> QED
    BY <2>1, <2>2, <2>3
<1>2. \A n \in 0..rcnt : n \in Cells
  BY <1>1, WordsCover DEF Cells
<1>3. v(rcnt) # Nil => v(rcnt).pad = Digest(target, rcnt)
  BY <1>1, <1>2, CellValue, KeyType DEF IInv, Genuine
<1>4. /\ redis' = redis /\ target' = target /\ rcnt' = rcnt + 1
      /\ \E d \in Decoded(ni, rcnt) : d.last = 1 /\ tv' = [tv EXCEPT ![rcnt] = d.ent]
  BY <1>1 DEF RetrieveDecode
<1>5. PICK d \in Decoded(ni, rcnt) : d.last = 1 /\ tv' = [tv EXCEPT ![rcnt] = d.ent]
  BY <1>4
<1>6. IF v(rcnt) = Nil THEN d.ent = Junk ELSE d.ent = v(rcnt).ent /\ v(rcnt).last = 1
  BY <1>1, <1>3, <1>5 DEF Decoded
<1>7. \A n \in 0..rcnt-1 :
        IF v(n) = Nil THEN tv[n] = Junk ELSE tv[n] = v(n).ent /\ v(n).last = 0
  BY <1>1 DEF IInv, Decodes, Retrieving
<1>8. \A n \in 0..rcnt : tv'[n] = IF v(n) = Nil THEN Junk ELSE v(n).ent
  <2>1. tv'[rcnt] = d.ent /\ \A n \in 0..rcnt-1 : tv'[n] = tv[n]
    BY <1>1, <1>2, <1>5 DEF TypeOK
  <2> QED
    BY <1>1, <1>6, <1>7, <2>1
<1>9. \A n \in 0..rcnt : CellOf(target, n) =
        IF v(n) = Nil THEN Nil ELSE [last |-> v(n).last, ent |-> v(n).ent]
  BY <1>1, <1>2, CellValue DEF CellOf
<1>10. \A n \in 0..rcnt : v(n) # Nil => [last |-> v(n).last, ent |-> v(n).ent] # Nil
  <2> SUFFICES ASSUME NEW n \in 0..rcnt, v(n) # Nil
               PROVE  [last |-> v(n).last, ent |-> v(n).ent] # Nil
    OBVIOUS
  <2>1. v(n) \in Values
    BY <1>1, <1>2, CellValue DEF TypeOK
  <2>2. [last |-> v(n).last, ent |-> v(n).ent] \in [last : {0, 1}, ent : Entries]
    BY <2>1 DEF Values
  <2> QED
    BY <2>2, NilAssumption
<1>11. \A n \in 0..rcnt :
         /\ (CellOf(target, n) = Nil) <=> (v(n) = Nil)
         /\ v(n) # Nil => /\ CellOf(target, n).ent = v(n).ent
                          /\ CellOf(target, n).last = v(n).last
  BY <1>9, <1>10
<1> HIDE DEF v
<1> DEFINE rows == [k \in Keywords |-> [n \in Cells |-> CellOf(k, n)]]
<1>12. \A n \in 0..rcnt : rows[target][n] = CellOf(target, n)
  BY <1>1, <1>2
<1> HIDE DEF rows
<1>13. /\ \A m \in 0..rcnt-1 : rows[target][m] # Nil => rows[target][m].last = 0
       /\ rows[target][rcnt] # Nil => rows[target][rcnt].last = 1
  <2>1. 0..rcnt-1 \subseteq 0..rcnt /\ rcnt \in 0..rcnt
    BY <1>1
  <2> QED
    BY <1>6, <1>7, <1>11, <1>12, <2>1
<1>14. \A n \in 0..rcnt :
         (IF rows[target][n] = Nil THEN Junk ELSE rows[target][n].ent) = tv'[n]
  BY <1>8, <1>11, <1>12
<1>15. ReplyOf' = [kw |-> target, row |-> [m \in 0..rcnt |->
                     IF rows[target][m] = Nil THEN Junk ELSE rows[target][m].ent]]
  <2>1. 0..rcnt'-1 = 0..rcnt
    BY <1>1, <1>4
  <2>2. ReplyOf' = [kw |-> target, row |-> [n \in 0..rcnt |-> tv'[n]]]
    BY <1>4, <2>1 DEF ReplyOf
  <2> QED
    BY <1>14, <2>2
<1>16. rows' = rows
  BY <1>4 DEF rows, CellOf
<1>17. Store!Retrieve(target)
  BY <1>1, <1>13, <1>15, <1>16
     DEF Store!Retrieve, Store!EndsAt, Store!Read, Store!Cells, Cells, rows
<1> QED
  BY <1>1, <1>17 DEF Store!Next

(* The rest of TSet leaves the cells alone; it has no reply to give.       *)
LEMMA StoreForget ==
  ASSUME redis' = redis, pc' # "returned"
  PROVE  Store!Forget
<1>1. \A k \in Keywords, n \in Cells : CellOf(k, n)' = CellOf(k, n)
  BY DEF CellOf
<1>2. ReplyOf' = Nil
  BY DEF ReplyOf
<1> QED
  BY <1>1, <1>2 DEF Store!Forget

LEMMA StoreClear == ASSUME IInv, Flush PROVE Store!Clear
<1>1. \A k \in Keywords, n \in Cells : CellOf(k, n)' = Nil
  BY CellValue DEF Flush, CellOf
<1>2. ReplyOf' = ReplyOf
  BY DEF Flush, ReplyOf, retrieveVars
<1> QED
  BY <1>1, <1>2 DEF Store!Clear, Store!Cells, Cells

LEMMA StoreStep == IInv /\ [Next]_vars => [Store!Next]_Store!vars
<1> SUFFICES ASSUME IInv, [Next]_vars PROVE Store!Next \/ UNCHANGED Store!vars
  BY DEF Store!vars
<1>1. CASE SetEntry
  BY <1>1, StorePut
<1>2. CASE Flush
  BY <1>2, StoreClear DEF Store!Next
<1>3. CASE RetrieveDecode
  <2>1. CASE pc' = "returned"
    BY <1>3, <2>1, StoreRetrieve
  <2>2. CASE pc' # "returned"
    BY <1>3, <2>2, StoreForget DEF RetrieveDecode, Store!Next
  <2> QED
    BY <2>1, <2>2
<1>4. CASE UNCHANGED vars
  <2>1. \A k \in Keywords, n \in Cells : CellOf(k, n)' = CellOf(k, n)
    BY <1>4 DEF CellOf, vars
  <2>2. ReplyOf' = ReplyOf
    BY <1>4 DEF ReplyOf, vars, retrieveVars
  <2> QED
    BY <2>1, <2>2 DEF Store!vars
<1>5. ASSUME redis' = redis, pc' # "returned" PROVE Store!Next
  BY <1>5, StoreForget DEF Store!Next
<1>6. CASE \/ \E db \in Rows : SetUpStart(db)
           \/ \E k \in Keywords : RowStart(k) \/ RetrieveStart(k)
           \/ SetUpEnd \/ SetUpCrash \/ RetrieveKey \/ RetrieveOverrun
           \/ RetrieveQuery \/ RetrieveCrash
  <2>1. redis' = redis /\ pc' # "returned"
    BY <1>6 DEF SetUpStart, RowStart, RetrieveStart, SetUpEnd, SetUpCrash, RetrieveKey,
       RetrieveOverrun, RetrieveQuery, RetrieveCrash
  <2> QED
    BY <1>5, <2>1
<1> QED
  BY <1>1, <1>2, <1>3, <1>4, <1>6 DEF Next, SetUpStep, RetrieveStep

(* TSet_SetUp and TSet_Retrieve keep what EDB_SetUp and EDB_Search rely on:*)
(* every step of theirs is a step of RowStore, or invisible there.         *)
THEOREM Refinement == Spec => ImplementsRowStore
<1>1. Spec => Store!Init /\ [][Store!Next]_Store!vars
  BY StoreInit, StoreStep, Invariance, PTL DEF Spec
<1> QED
  BY <1>1 DEF ImplementsRowStore, Store!Spec

=============================================================================
