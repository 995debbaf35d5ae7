----------------------------- MODULE EDBProofs -----------------------------
(***************************************************************************)
(* Proofs about EDB, for all databases, queries, filters and numbers of    *)
(* threads, and any sequence of set-ups, crashes and searches.  IInv ties  *)
(* the store and the filter file to the plain database, row by row and     *)
(* hash by hash while a set-up is running, and ESET to the retrieved row,  *)
(* entry by entry; the answer follows when a search ends.                  *)
(***************************************************************************)
EXTENDS EDB, SequenceTheorems, TLAPS

(* The arrays hold every row of the configured length.                     *)
LEMMA WordsCover == /\ N_max_id_words \in Nat
                    /\ N_max_ids <= N_max_id_words
<1> DEFINE d == N_max_ids \div N_threads
           m == N_max_ids % N_threads
<1>1. d \in Nat /\ m \in 0..N_threads-1
  BY SizeAssumption
<1>2. N_max_ids = d * N_threads + m
  BY SizeAssumption
<1> HIDE DEF d, m
<1>3. CASE m = 0
  BY <1>1, <1>2, <1>3, SizeAssumption DEF N_words, N_max_id_words, d, m
<1>4. CASE m # 0
  <2>1. N_words = d + 1
    BY <1>1, <1>4 DEF N_words, d, m
  <2>2. (d + 1) * N_threads = d * N_threads + N_threads
    BY <1>1, SizeAssumption
  <2>3. d * N_threads \in Nat
    BY <1>1, SizeAssumption
  <2> QED
    BY <1>1, <1>2, <2>1, <2>2, <2>3, SizeAssumption DEF N_max_id_words
<1> QED
  BY <1>3, <1>4

-----------------------------------------------------------------------------
(* Rows, entries, queries and filters                                      *)

LEMMA IdRowType ==
  ASSUME NEW s \in IdRows
  PROVE  /\ s \in Seq(Ids) /\ Len(s) \in 1..N_max_ids
         /\ DOMAIN s = 1..Len(s)
         /\ Len(s) <= N_max_id_words
         /\ \A p, q \in 1..Len(s) : s[p] = s[q] => p = q
<1>1. PICK m \in 1..N_max_ids : s \in [1..m -> Ids]
  BY DEF IdRows
<1>2. m \in Nat /\ s \in Seq(Ids)
  BY <1>1, SeqDef, SizeAssumption
<1>3. Len(s) = m /\ DOMAIN s = 1..m
  BY <1>1, <1>2
<1>4. \A p, q \in DOMAIN s : s[p] = s[q] => p = q
  BY DEF IdRows
<1> QED
  BY <1>1, <1>2, <1>3, <1>4, WordsCover, SizeAssumption

LEMMA DatabaseType ==
  ASSUME NEW db \in Databases
  PROVE  DOMAIN db \subseteq Keywords /\ \A k \in DOMAIN db : db[k] \in IdRows
<1>1. PICK K \in SUBSET Keywords : db \in [K -> IdRows]
  BY DatabasesAssumption
<1> QED
  BY <1>1

LEMMA QueryType ==
  ASSUME NEW q \in Queries
  PROVE  /\ q \in Seq(Keywords) /\ Len(q) \in Nat \ {0}
         /\ q[1] \in Keywords
<1>1. PICK m \in 1..N_threads+1 : q \in [1..m -> Keywords]
  BY QueriesAssumption
<1>2. m \in Nat \ {0} /\ q \in Seq(Keywords)
  BY <1>1, SeqDef, SizeAssumption
<1>3. Len(q) = m
  BY <1>1, <1>2
<1> QED
  BY <1>1, <1>2, <1>3

LEMMA EntryType ==
  ASSUME NEW k \in Keywords, NEW m \in Nat, NEW d \in Ids
  PROVE  Entry(k, m, d) \in Entries
<1>1. m % CounterSpan \in 0..CounterSpan-1
  BY SizeAssumption
<1>2. Z(k, m) \in Keywords \X (0..CounterSpan-1)
  BY <1>1 DEF Z
<1> QED
  BY <1>2 DEF Entry, Entries

(* What the set-up stores for a row of its database.                       *)
LEMMA RowValueType ==
  ASSUME NEW k \in Keywords, k \in DOMAIN widxdb, widxdb[k] \in IdRows,
         NEW c \in 0..Len(widxdb[k])-1
  PROVE  /\ c \in Cells /\ c + 1 \in 1..Len(widxdb[k])
         /\ RowValue(k, c) \in Values
         /\ RowValue(k, c) # Nil
         /\ RowValue(k, c).ent = Entry(k, c, widxdb[k][c + 1])
         /\ RowValue(k, c).ent.id = widxdb[k][c + 1]
         /\ RowValue(k, c).last = 1 <=> c = Len(widxdb[k]) - 1
<1>1. /\ Len(widxdb[k]) \in Nat /\ Len(widxdb[k]) <= N_max_id_words
      /\ widxdb[k] \in Seq(Ids)
  BY IdRowType, SizeAssumption
<1>2. c \in Cells /\ c \in Nat /\ c + 1 \in 1..Len(widxdb[k])
  BY <1>1, WordsCover DEF Cells
<1>3. widxdb[k][c + 1] \in Ids
  BY <1>1, <1>2
<1>4. Entry(k, c, widxdb[k][c + 1]) \in Entries
  BY <1>2, <1>3, EntryType
<1>5. RowValue(k, c) \in Values
  BY <1>4 DEF RowValue, Values
<1>6. /\ RowValue(k, c).ent = Entry(k, c, widxdb[k][c + 1])
      /\ RowValue(k, c).last = 1 <=> c = Len(widxdb[k]) - 1
  BY DEF RowValue
<1>7. Entry(k, c, widxdb[k][c + 1]).id = widxdb[k][c + 1]
  BY DEF Entry
<1> QED
  BY <1>2, <1>5, <1>6, <1>7, NilAssumption

LEMMA TagBitsType ==
  ASSUME NEW db
  PROVE  TagBits(db) \in [Hashes -> SUBSET Bits]
<1>1. \A h \in Hashes, t \in Pairs(db) : BloomIdx[h][t] \in Bits
  BY BloomAssumption DEF Pairs
<1> QED
  BY <1>1 DEF TagBits

(* The filter of a database holds the tags of its pairs, and what collides.*)
LEMMA FilterHolds ==
  ASSUME NEW db, NEW t
  PROVE  InFilter(TagBits(db), t) <=> Collides(db, t)
BY DEF InFilter, TagBits, Collides

LEMMA StoreNames == Store!Cells = Cells /\ Store!Values = Values
BY DEF Store!Cells, Store!Values, Cells, Values

-----------------------------------------------------------------------------
LEMMA InitInvariant == Init => IInv
<1> SUFFICES ASSUME Init PROVE IInv
  OBVIOUS
<1>1. /\ widxdb = [k \in {} |-> <<>>] /\ complete = FALSE /\ setups = 0
      /\ rows = [k \in Keywords |-> [c \in Cells |-> Nil]] /\ reply = Nil
      /\ bloomfilter_file = NoBits /\ pc = "idle" /\ BF = NoBits
      /\ pending = {} /\ row = Nil /\ i = 0
      /\ query = <<>> /\ n = 0 /\ ptr = 0 /\ eset = <<>> /\ uidx = <<>>
  BY StoreNames DEF Init, Store!Init
<1>2. NoBits \in [Hashes -> SUBSET Bits]
  BY DEF NoBits
<1>3. TypeOK
  <2>1. DOMAIN widxdb = {}
    BY <1>1
  <2>2. rows \in [Keywords -> [Cells -> Values \cup {Nil}]]
    BY <1>1
  <2>3. setups \in 0..MaxSetUps
    BY <1>1, SizeAssumption
  <2>4. query \in Seq(Keywords) /\ eset \in Seq(Entries \cup {Junk})
        /\ uidx \in Seq(Ids \cup {Junk})
    BY <1>1
  <2> QED
    BY <1>1, <1>2, <2>1, <2>2, <2>3, <2>4 DEF TypeOK
<1>4. Control /\ StoredRows /\ FilterFile
  BY <1>1 DEF Control, StoredRows, FilterFile, SettingUp, HasReply, Searching
<1>5. Genuine
  BY <1>1 DEF Genuine
<1>6. /\ RowRead /\ Tested
      /\ SearchExact /\ SearchPromised /\ AnswerStored
  BY <1>1 DEF RowRead, Tested, SearchExact, SearchPromised, AnswerStored, HasReply
<1> QED
  BY <1>3, <1>4, <1>5, <1>6 DEF IInv

-----------------------------------------------------------------------------
(* sse_setup                                                               *)

(* The parts of the invariant about answers speak of a search only.        *)
LEMMA NoReply ==
  ASSUME pc' \notin {"entry", "answered"}
  PROVE  /\ RowRead' /\ Tested'
         /\ SearchExact' /\ SearchPromised' /\ AnswerStored'
BY DEF RowRead, Tested, SearchExact, SearchPromised, AnswerStored, HasReply

LEMMA SetUpStartStep ==
  ASSUME IInv, NEW db \in Databases, SetUpStart(db)
  PROVE  IInv'
<1> USE DEF SetUpStart, storeVars, searchVars
<1>1. DOMAIN db \subseteq Keywords /\ \A k \in DOMAIN db : db[k] \in IdRows
  BY DatabaseType
<1>2. NoBits \in [Hashes -> SUBSET Bits]
  BY DEF NoBits
<1>3. setups' \in 0..MaxSetUps
  BY SizeAssumption DEF IInv, TypeOK
<1>4. TypeOK'
  BY <1>1, <1>2, <1>3 DEF IInv, TypeOK
<1>5. Control' /\ FilterFile'
  BY DEF Control, FilterFile, SettingUp, HasReply, Searching
<1>6. Genuine'
  BY DEF IInv, Genuine
<1>7. StoredRows'
  BY DEF StoredRows, Stored
<1> QED
  BY <1>4, <1>5, <1>6, <1>7, NoReply DEF IInv

LEMMA RowStartStep ==
  ASSUME IInv, NEW k \in Keywords, RowStart(k)
  PROVE  IInv'
<1> USE DEF RowStart, storeVars, searchVars
<1>1. k \in DOMAIN widxdb /\ widxdb[k] \in IdRows /\ Len(widxdb[k]) > 0
  BY IdRowType DEF IInv, TypeOK
<1>2. TypeOK'
  BY <1>1 DEF IInv, TypeOK
<1>3. Control'
  BY <1>1 DEF IInv, Control, SettingUp, HasReply
<1>4. FilterFile'
  BY DEF IInv, FilterFile, Control, SettingUp, Searching
<1>5. Genuine'
  BY DEF IInv, Genuine
<1>6. pending' \cup {row'} = pending
  OBVIOUS
<1>7. StoredUpTo(row, i)'
  BY DEF StoredUpTo
<1>8. StoredRows'
  BY <1>6, <1>7 DEF IInv, StoredRows, Stored, StoredUpTo, RowValue, Control, SettingUp
<1> QED
  BY <1>2, <1>3, <1>4, <1>5, <1>8, NoReply DEF IInv

LEMMA StoreEntryStep ==
  ASSUME IInv, StoreEntry
  PROVE  IInv'
<1> USE DEF StoreEntry, searchVars
<1> DEFINE L == Len(widxdb[row])
<1>1. /\ row \in DOMAIN widxdb \ pending /\ row \in Keywords
      /\ widxdb[row] \in IdRows /\ L \in Nat
      /\ i \in 0..L-1
  BY IdRowType, SizeAssumption DEF IInv, TypeOK, Control
<1>2. /\ i \in Cells /\ RowValue(row, i) \in Values /\ RowValue(row, i) # Nil
      /\ i + 1 \in 1..L
      /\ RowValue(row, i).ent = Entry(row, i, widxdb[row][i + 1])
      /\ RowValue(row, i).ent.id = widxdb[row][i + 1]
  BY <1>1, RowValueType
<1>3. /\ rows' = [rows EXCEPT ![row][i] = RowValue(row, i)]
      /\ reply' = reply
  BY DEF Store!Put
<1>4. /\ rows' \in [Keywords -> [Cells -> Values \cup {Nil}]]
      /\ \A k \in Keywords, c \in Cells :
           rows'[k][c] = IF k = row /\ c = i THEN RowValue(row, i) ELSE rows[k][c]
  BY <1>1, <1>2, <1>3 DEF IInv, TypeOK
<1>5. TypeOK'
  BY <1>1, <1>3, <1>4 DEF IInv, TypeOK
<1>6. Control'
  BY <1>1, <1>2 DEF IInv, Control, SettingUp, HasReply
<1>7. FilterFile'
  BY DEF IInv, FilterFile, Control, SettingUp, Searching
<1>8. Genuine'
  BY <1>2, <1>4 DEF IInv, Genuine
<1>9. \A k \in DOMAIN widxdb : \A c \in 0..Len(widxdb[k])-1 :
        k \in Keywords /\ c \in Cells
  BY RowValueType DEF IInv, TypeOK
<1>10. \A k \in DOMAIN widxdb \ {row} :
         StoredUpTo(k, Len(widxdb[k])) => StoredUpTo(k, Len(widxdb[k]))'
  BY <1>4, <1>9 DEF StoredUpTo, RowValue
<1>11. \A c \in 0..(i+1)-1 : rows'[row][c] = RowValue(row, c)
  <2>1. StoredUpTo(row, i)
    BY DEF IInv, StoredRows
  <2> SUFFICES ASSUME NEW c \in 0..(i+1)-1 PROVE rows'[row][c] = RowValue(row, c)
    OBVIOUS
  <2>2. c \in Cells
    BY <1>1, <1>9
  <2>3. rows'[row][c] = IF c = i THEN RowValue(row, i) ELSE rows[row][c]
    BY <1>1, <1>4, <2>2
  <2>4. CASE c = i
    BY <2>3, <2>4
  <2>5. CASE c # i
    <3>1. c \in 0..i-1
      BY <1>1, <2>5
    <3>2. rows[row][c] = RowValue(row, c)
      BY <2>1, <3>1 DEF StoredUpTo
    <3> QED
      BY <2>3, <2>5, <3>2
  <2> QED
    BY <2>4, <2>5
<1>12. StoredUpTo(row, i)'
  BY <1>11 DEF StoredUpTo, RowValue
<1>13. Stored(DOMAIN widxdb \ (pending \cup {row}))'
  BY <1>10 DEF IInv, StoredRows, Stored
<1>14. StoredRows'
  <2>1. ~ complete'
    BY DEF IInv, Control, SettingUp
  <2>2. CASE i + 1 = L
    <3>1. StoredUpTo(row, Len(widxdb[row]))'
      BY <1>12, <2>2
    <3>2. Stored(DOMAIN widxdb \ pending)'
      BY <1>13, <3>1 DEF Stored
    <3> QED
      BY <2>1, <2>2, <3>2 DEF StoredRows
  <2>3. CASE i + 1 # L
    BY <1>12, <1>13, <2>1, <2>3 DEF StoredRows
  <2> QED
    BY <2>2, <2>3
<1> QED
  BY <1>5, <1>6, <1>7, <1>8, <1>14, NoReply DEF IInv
LEMMA FillBloomStep ==
  ASSUME IInv, FillBloom
  PROVE  IInv'
<1> USE DEF FillBloom, setupVars, storeVars, searchVars
<1>1. TypeOK'
  BY TagBitsType DEF IInv, TypeOK
<1>2. Control'
  BY DEF IInv, Control, SettingUp, HasReply
<1>3. FilterFile'
  BY DEF IInv, FilterFile, Control, SettingUp, Searching, TagBits, Pairs
<1>4. Genuine'
  BY DEF IInv, Genuine
<1>5. Stored(DOMAIN widxdb)
  BY DEF IInv, StoredRows, Stored
<1>6. StoredRows'
  BY <1>5 DEF StoredRows, Stored, StoredUpTo, RowValue
<1> QED
  BY <1>1, <1>2, <1>3, <1>4, <1>6, NoReply DEF IInv

(* The steps that write the file leave the database and the store alone.   *)
LEMMA FileStep ==
  ASSUME IInv, pc \in {"open", "file"}, pc' \in {"file", "idle"},
         UNCHANGED <<widxdb, setups, pending, row, storeVars, BF, searchVars>>,
         complete' \in BOOLEAN, complete' => pc' = "idle",
         i' \in Nat, bloomfilter_file' \in [Hashes -> SUBSET Bits],
         FilterFile'
  PROVE  IInv'
<1> USE DEF storeVars, searchVars
<1>1. TypeOK'
  BY DEF IInv, TypeOK
<1>2. Control'
  BY DEF IInv, Control, SettingUp, HasReply
<1>3. Genuine'
  BY DEF IInv, Genuine
<1>4. Stored(DOMAIN widxdb)
  BY DEF IInv, StoredRows
<1>5. StoredRows'
  BY <1>4 DEF StoredRows, Stored, StoredUpTo, RowValue
<1> QED
  BY <1>1, <1>2, <1>3, <1>5, NoReply DEF IInv

LEMMA OpenFileStep ==
  ASSUME IInv, OpenFile
  PROVE  IInv'
<1>1. NoBits \in [Hashes -> SUBSET Bits]
  BY DEF NoBits
<1>2. complete = FALSE /\ BF = TagBits(widxdb)
  BY DEF IInv, TypeOK, Control, FilterFile, SettingUp, OpenFile
<1>3. FilterFile'
  BY <1>2, SizeAssumption DEF OpenFile, FilterFile, Searching, TagBits, Pairs, N_HASH
<1> QED
  BY <1>1, <1>2, <1>3, FileStep DEF OpenFile

LEMMA WriteBFRowStep ==
  ASSUME IInv, WriteBFRow
  PROVE  IInv'
<1>1. /\ complete = FALSE /\ BF = TagBits(widxdb)
      /\ \A h \in 0..i-1 : bloomfilter_file[h] = BF[h]
  BY DEF IInv, TypeOK, Control, FilterFile, SettingUp, WriteBFRow
<1>2. /\ i \in Hashes /\ i \in Nat /\ N_HASH \in Nat
      /\ bloomfilter_file \in [Hashes -> SUBSET Bits]
      /\ BF \in [Hashes -> SUBSET Bits]
  BY SizeAssumption DEF IInv, TypeOK, WriteBFRow, Hashes, N_HASH
<1>3. bloomfilter_file' \in [Hashes -> SUBSET Bits]
  BY <1>2 DEF WriteBFRow
<1>4. \A h \in 0..(i+1)-1 : bloomfilter_file'[h] = BF[h]
  <2> TAKE h \in 0..(i+1)-1
  <2>1. h \in Hashes
    BY <1>2 DEF Hashes, WriteBFRow
  <2>2. CASE h = i
    BY <1>2, <2>2 DEF WriteBFRow
  <2>3. CASE h # i
    BY <1>1, <1>2, <2>1, <2>3 DEF WriteBFRow
  <2> QED
    BY <2>2, <2>3
<1>5. i' = i + 1 /\ i' <= N_HASH /\ i' \in Nat
  BY <1>2 DEF WriteBFRow
<1>6. \A h \in 0..i'-1 : bloomfilter_file'[h] = BF'[h]
  BY <1>4, <1>5 DEF WriteBFRow
<1>7. BF' = TagBits(widxdb')
  BY <1>1 DEF WriteBFRow
<1>8. FilterFile'
  BY <1>1, <1>5, <1>6, <1>7 DEF WriteBFRow, FilterFile, Searching, N_HASH
<1> QED
  BY <1>1, <1>3, <1>5, <1>8, FileStep DEF WriteBFRow

LEMMA SetUpEndStep ==
  ASSUME IInv, SetUpEnd
  PROVE  IInv'
<1>1. /\ BF = TagBits(widxdb) /\ i \in Nat
      /\ \A h \in 0..i-1 : bloomfilter_file[h] = BF[h]
      /\ bloomfilter_file \in [Hashes -> SUBSET Bits]
      /\ BF \in [Hashes -> SUBSET Bits]
  BY DEF IInv, TypeOK, FilterFile, SetUpEnd
<1>2. bloomfilter_file = TagBits(widxdb)
  BY <1>1 DEF Hashes, SetUpEnd
<1>3. FilterFile'
  BY <1>2 DEF SetUpEnd, FilterFile, Searching, TagBits, Pairs
<1> QED
  BY <1>1, <1>3, FileStep DEF SetUpEnd

LEMMA SetUpCrashStep ==
  ASSUME IInv, SetUpCrash
  PROVE  IInv'
<1> USE DEF SetUpCrash, setupVars, storeVars, searchVars
<1>1. ~ complete
  BY DEF IInv, Control, SettingUp
<1>2. bloomfilter_file' \in [Hashes -> SUBSET Bits]
  <2>1. /\ bloomfilter_file \in [Hashes -> SUBSET Bits]
        /\ BF \in [Hashes -> SUBSET Bits]
    BY DEF IInv, TypeOK
  <2>2. CASE UNCHANGED bloomfilter_file
    BY <2>1, <2>2
  <2>3. CASE /\ pc = "file" /\ i < N_HASH
             /\ \E p \in Bits : bloomfilter_file' =
                  [bloomfilter_file EXCEPT ![i] = {x \in BF[i] : x < p}]
    <3>1. i \in Hashes
      BY <2>3, SizeAssumption DEF IInv, TypeOK, Hashes, N_HASH
    <3> QED
      BY <2>1, <2>3, <3>1
  <2> QED
    BY <2>2, <2>3
<1>3. TypeOK'
  BY <1>2 DEF IInv, TypeOK
<1>4. Control' /\ FilterFile' /\ StoredRows'
  BY <1>1 DEF Control, FilterFile, StoredRows, SettingUp, HasReply, Searching
<1>5. Genuine'
  BY DEF IInv, Genuine
<1> QED
  BY <1>3, <1>4, <1>5, NoReply DEF IInv

LEMMA CleanStep ==
  ASSUME IInv, Clean
  PROVE  IInv'
<1> USE DEF Clean, searchVars
<1>1. /\ rows' = [k \in Keywords |-> [c \in Cells |-> Nil]]
      /\ reply' = reply
  BY StoreNames DEF Store!Clear
<1>2. NoBits \in [Hashes -> SUBSET Bits]
  BY DEF NoBits
<1>3. TypeOK'
  BY <1>1, <1>2 DEF IInv, TypeOK
<1>4. Control' /\ FilterFile' /\ StoredRows'
  BY DEF Control, FilterFile, StoredRows, SettingUp, HasReply, Searching
<1>5. Genuine'
  BY <1>1 DEF Genuine
<1> QED
  BY <1>3, <1>4, <1>5, NoReply DEF IInv

-----------------------------------------------------------------------------
(* sse_search                                                              *)

(* A search leaves the database, the store and the filter file alone.      *)
LEMMA SearchKeeps ==
  ASSUME IInv, ~ SettingUp, ~ SettingUp',
         UNCHANGED <<setupVars, rows, bloomfilter_file>>,
         Searching' => BF' = bloomfilter_file
  PROVE  Genuine' /\ StoredRows' /\ FilterFile'
<1> USE DEF setupVars
<1>1. Genuine'
  BY DEF IInv, Genuine
<1>2. complete => Stored(DOMAIN widxdb)
  BY DEF IInv, StoredRows
<1>3. StoredRows'
  BY <1>2 DEF StoredRows, Stored, StoredUpTo, RowValue, SettingUp
<1>4. complete => bloomfilter_file = TagBits(widxdb)
  BY DEF IInv, FilterFile
<1>5. FilterFile'
  BY <1>4 DEF FilterFile, SettingUp, TagBits, Pairs
<1> QED
  BY <1>1, <1>3, <1>5

LEMMA OpenSearchStep ==
  ASSUME IInv, OpenSearch
  PROVE  IInv'
<1> USE DEF OpenSearch, setupVars, storeVars, searchVars
<1>1. TypeOK' /\ Control'
  BY DEF IInv, TypeOK, Control, SettingUp, HasReply
<1>2. Genuine' /\ StoredRows' /\ FilterFile'
  BY SearchKeeps DEF SettingUp
<1> QED
  BY <1>1, <1>2, NoReply DEF IInv

LEMMA QueryStep ==
  ASSUME IInv, NEW q \in Queries, Query(q)
  PROVE  IInv'
<1> USE DEF Query, setupVars
<1>1. reply' = Nil /\ rows' = rows
  BY DEF Store!Forget
<1>2. q \in Seq(Keywords) /\ <<>> \in Seq(Entries \cup {Junk})
      /\ <<>> \in Seq(Ids \cup {Junk})
  BY QueryType
<1>3. TypeOK'
  BY <1>1, <1>2 DEF IInv, TypeOK
<1>4. Control'
  BY DEF Control, SettingUp, HasReply
<1>5. Genuine' /\ StoredRows' /\ FilterFile'
  BY <1>1, SearchKeeps DEF IInv, FilterFile, SettingUp, Searching
<1> QED
  BY <1>3, <1>4, <1>5, NoReply DEF IInv

(* Both ends of a search program.                                          *)
LEMMA ExitStep ==
  ASSUME IInv, Searching, Exit
  PROVE  IInv'
<1> USE DEF Exit, setupVars
<1>1. reply' = Nil /\ rows' = rows
  BY DEF Store!Forget
<1>2. <<>> \in Seq(Keywords) /\ <<>> \in Seq(Entries \cup {Junk})
      /\ <<>> \in Seq(Ids \cup {Junk})
  OBVIOUS
<1>3. TypeOK'
  BY <1>1, <1>2 DEF IInv, TypeOK
<1>4. Control'
  BY DEF Control, SettingUp, HasReply
<1>5. Genuine' /\ StoredRows' /\ FilterFile'
  BY <1>1, SearchKeeps DEF SettingUp, Searching
<1> QED
  BY <1>3, <1>4, <1>5, NoReply DEF IInv

LEMMA RetrieveRowStep ==
  ASSUME IInv, RetrieveRow
  PROVE  IInv'
<1> USE DEF RetrieveRow, setupVars, searchVars
<1>0. query \in Queries /\ query[1] \in Keywords
  BY QueryType DEF IInv, Control
<1>1. PICK m \in Cells :
        /\ Store!EndsAt(query[1], m)
        /\ reply' = [kw |-> query[1],
                     row |-> [c \in 0..m |-> Store!Read(query[1], c)]]
  BY StoreNames DEF Store!Retrieve
<1>2. rows' = rows
  BY DEF Store!Retrieve
<1>3. m \in Nat /\ \A c \in 0..m : c \in Cells
  BY <1>1, WordsCover DEF Cells
<1>4. \A c \in 0..m : Store!Read(query[1], c) \in Entries \cup {Junk}
  BY <1>0, <1>3 DEF IInv, TypeOK, Store!Read, Values
<1>5. /\ reply'.row = [c \in 0..m |-> Store!Read(query[1], c)]
      /\ reply' = [kw |-> query[1], row |-> reply'.row]
  BY <1>1
<1>6. reply'.row \in [0..m -> Entries \cup {Junk}]
  BY <1>4, <1>5
<1>7. IsReply'
  BY <1>1, <1>5, <1>6 DEF IsReply
<1>8. TypeOK'
  BY <1>2, <1>7 DEF IInv, TypeOK
<1>9. Control'
  BY <1>0 DEF Control, SettingUp
<1>10. Genuine' /\ StoredRows' /\ FilterFile'
  BY <1>2, SearchKeeps DEF IInv, FilterFile, SettingUp, Searching
<1>11. RowRead'
  BY <1>1, <1>2, <1>5 DEF RowRead, Store!EndsAt, Store!Read
<1>12. n = 0 /\ ptr = 0 /\ eset = <<>>
  BY DEF IInv, Control
<1>13. 0 \in DOMAIN reply'.row
  BY <1>3, <1>5
<1>14. Tested'
  BY <1>12, <1>13 DEF Tested, HasReply, NWords
<1>15. SearchExact' /\ SearchPromised' /\ AnswerStored'
  BY DEF SearchExact, SearchPromised, AnswerStored
<1> QED
  BY <1>8, <1>9, <1>10, <1>11, <1>14, <1>15 DEF IInv

(* What has been retrieved, cell by cell.                                  *)
LEMMA ReplyFacts ==
  ASSUME IInv, HasReply
  PROVE  \E m \in Cells :
           /\ DOMAIN reply.row = 0..m
           /\ Store!EndsAt(query[1], m)
           /\ \A c \in 0..m :
                /\ c \in Cells /\ reply.row[c] \in Entries \cup {Junk}
                /\ reply.row[c] # Junk =>
                     /\ rows[query[1]][c] # Nil
                     /\ rows[query[1]][c].ent = reply.row[c]
                     /\ reply.row[c] = Entry(query[1], c, reply.row[c].id)
<1>1. PICK m \in Cells :
        /\ DOMAIN reply.row = 0..m
        /\ Store!EndsAt(query[1], m)
        /\ \A c \in 0..m : reply.row[c] = Store!Read(query[1], c)
  BY DEF IInv, RowRead
<1>2. query[1] \in Keywords
  BY QueryType DEF IInv, Control
<1>3. \A c \in 0..m : c \in Cells
  BY WordsCover DEF Cells
<1>4. \A c \in 0..m : reply.row[c] \in Entries \cup {Junk}
  BY <1>1, <1>2, <1>3 DEF IInv, TypeOK, Store!Read, Values
<1>5. \A c \in 0..m : reply.row[c] # Junk =>
        /\ rows[query[1]][c] # Nil
        /\ rows[query[1]][c].ent = reply.row[c]
  BY <1>1 DEF Store!Read
<1>6. \A c \in 0..m : reply.row[c] # Junk =>
        reply.row[c] = Entry(query[1], c, reply.row[c].id)
  BY <1>2, <1>3, <1>5 DEF IInv, Genuine
<1> QED
  BY <1>1, <1>3, <1>4, <1>5, <1>6

(* After a completed set-up that is the row of the plain database.         *)
LEMMA CompleteRow ==
  ASSUME IInv, HasReply, complete, query[1] \in DOMAIN widxdb
  PROVE  LET k == query[1]
         IN  /\ DOMAIN reply.row = 0..Len(widxdb[k])-1
             /\ \A c \in DOMAIN reply.row :
                  /\ c + 1 \in 1..Len(widxdb[k])
                  /\ reply.row[c] \in Entries /\ reply.row[c] # Junk
                  /\ reply.row[c].id = widxdb[k][c + 1]
<1> DEFINE k == query[1]
           L == Len(widxdb[k])
<1>1. PICK m \in Cells :
        /\ DOMAIN reply.row = 0..m
        /\ Store!EndsAt(k, m)
        /\ \A c \in 0..m : reply.row[c] = Store!Read(k, c)
  BY DEF IInv, RowRead
<1>2. k \in Keywords /\ widxdb[k] \in IdRows
  BY DEF IInv, TypeOK
<1>3. L \in Nat \ {0} /\ m \in Nat
  BY <1>2, IdRowType, WordsCover, SizeAssumption DEF Cells
<1>4. \A c \in 0..L-1 :
        /\ rows[k][c] = RowValue(k, c) /\ RowValue(k, c) # Nil
        /\ RowValue(k, c).last = 1 <=> c = L - 1
        /\ RowValue(k, c) \in Values
        /\ RowValue(k, c).ent.id = widxdb[k][c + 1]
  BY <1>2, RowValueType DEF IInv, StoredRows, Stored, StoredUpTo
<1>5. m <= L - 1
  <2> SUFFICES ASSUME L - 1 < m PROVE FALSE
    BY <1>3
  <2>1. L - 1 \in 0..m-1 /\ L - 1 \in 0..L-1
    BY <1>3
  <2>2. rows[k][L - 1].last = 1 /\ rows[k][L - 1] # Nil
    BY <1>4, <2>1
  <2> QED
    BY <1>1, <2>1, <2>2 DEF Store!EndsAt
<1>6. m = L - 1
  <2>1. m \in 0..L-1
    BY <1>3, <1>5
  <2>2. rows[k][m].last = 1
    BY <1>1, <1>4, <2>1 DEF Store!EndsAt
  <2> QED
    BY <1>4, <2>1, <2>2
<1>7. ASSUME NEW c \in 0..L-1
      PROVE  /\ c + 1 \in 1..L
             /\ reply.row[c] \in Entries /\ reply.row[c] # Junk
             /\ reply.row[c].id = widxdb[k][c + 1]
  <2>1. rows[k][c] # Nil /\ rows[k][c] \in Values /\ rows[k][c].ent.id = widxdb[k][c + 1]
    BY <1>4
  <2>2. reply.row[c] = rows[k][c].ent
    BY <1>1, <1>6, <2>1 DEF Store!Read
  <2>3. rows[k][c].ent \in Entries
    BY <2>1 DEF Values
  <2> QED
    BY <1>3, <2>1, <2>2, <2>3, JunkAssumption
<1> QED
  BY <1>1, <1>6, <1>7

LEMMA PassesAll ==
  ASSUME NEW e
  PROVE  Passes(e) <=> \A q \in 2..Len(query) : InFilter(BF, <<query[q], e.id>>)
BY DEF Passes, Cross

(* The outcome of a round of the loop for an entry that was computed for   *)
(* this place: it is kept exactly if it passes.                            *)
LEMMA TestOutcome ==
  ASSUME IInv, TestEntry
  PROVE  LET e == reply.row[n]
         IN  IF NWords = 0
             THEN eset' = Append(eset, reply.row[0]) /\ ptr' = 0
             ELSE /\ ptr' = n + 1
                  /\ \/ eset' = Append(eset, e) /\ (e # Junk => Passes(e))
                     \/ eset' = eset /\ (e # Junk => ~ Passes(e))
<1>1. /\ n \in DOMAIN reply.row /\ n \in Nat
      /\ ptr = IF NWords = 0 THEN 0 ELSE n
  BY DEF IInv, TypeOK, Tested, TestEntry
<1>2. CASE NWords = 0
  BY <1>1, <1>2 DEF TestEntry
<1>3. CASE NWords # 0
  <2> DEFINE e == reply.row[n]
  <2>1. ptr = n /\ ptr' = n + 1
    BY <1>1, <1>3 DEF TestEntry
  <2>2. PICK match \in Matches(e) :
          eset' = IF match THEN Append(eset, e) ELSE eset
    BY <1>3, <2>1 DEF TestEntry
  <2>3. match \in BOOLEAN
    BY <2>2 DEF Matches
  <2>4. e # Junk => e = Entry(query[1], n, e.id)
    BY <1>1, ReplyFacts DEF HasReply, TestEntry
  <2>5. e # Junk => e.xid = e.id /\ e.z = Z(query[1], ptr)
    BY <2>1, <2>4 DEF Entry
  <2>6. e # Junk =>
          (match <=> \A q \in 2..Len(query) : InFilter(BF, <<query[q], e.id>>))
    BY <2>2, <2>5 DEF Matches
  <2>7. e # Junk => (match <=> Passes(e))
    BY <2>6, PassesAll
  <2>8. CASE match
    BY <1>3, <2>1, <2>2, <2>7, <2>8
  <2>9. CASE ~ match
    BY <1>3, <2>1, <2>2, <2>7, <2>9
  <2> QED
    BY <2>8, <2>9
<1> QED
  BY <1>2, <1>3

LEMMA TestEntryTested ==
  ASSUME IInv, TestEntry
  PROVE  Tested' /\ eset' \in Seq(Entries \cup {Junk}) /\ ptr' \in Nat
<1> USE DEF TestEntry, setupVars, storeVars
<1>1. PICK m \in Cells :
        /\ DOMAIN reply.row = 0..m /\ m \in Nat
        /\ \A c \in 0..m : reply.row[c] \in Entries \cup {Junk}
  <2>1. HasReply
    BY DEF HasReply
  <2>2. \A c \in Cells : c \in Nat
    BY WordsCover DEF Cells
  <2> QED
    BY <2>1, <2>2, ReplyFacts
<1>2. /\ n \in 0..m /\ n \in Nat /\ 0 \in 0..m
      /\ eset \in Seq(Entries \cup {Junk}) /\ Len(eset) \in Nat
  BY <1>1 DEF IInv, TypeOK
<1>3. /\ \A j \in 1..Len(eset) :
            /\ \E c \in 0..n-1 : c \in DOMAIN reply.row /\ eset[j] = reply.row[c]
            /\ eset[j] # Junk => Passes(eset[j])
      /\ NWords > 0 =>
           \A c \in 0..n-1 :
             (/\ c \in DOMAIN reply.row /\ reply.row[c] # Junk
              /\ Passes(reply.row[c]))
               => \E j \in 1..Len(eset) : eset[j] = reply.row[c]
      /\ NWords = 0 => /\ Len(eset) = n
                       /\ \A j \in 1..Len(eset) : eset[j] = reply.row[0]
      /\ (NWords > 0 /\ complete /\ query[1] \in DOMAIN widxdb) =>
           \A j, l \in 1..Len(eset) : eset[j].id = eset[l].id => j = l
  BY DEF IInv, Tested, HasReply
<1>4. NWords \in Nat
  BY QueryType DEF NWords, IInv, Control, HasReply
<1>5. PICK x \in 0..n :
        \/ /\ eset' = Append(eset, reply.row[x])
           /\ reply.row[x] # Junk => Passes(reply.row[x])
           /\ IF NWords > 0 THEN x = n ELSE x = 0
        \/ /\ eset' = eset /\ NWords > 0 /\ x = n
           /\ reply.row[x] # Junk => ~ Passes(reply.row[x])
  <2>1. CASE NWords = 0
    <3>1. Len(query) = 1
      BY <2>1, QueryType DEF NWords, IInv, Control, HasReply
    <3>2. Cross = {}
      BY <3>1 DEF Cross
    <3>3. Passes(reply.row[0])
      BY <3>2 DEF Passes
    <3>4. eset' = Append(eset, reply.row[0])
      BY <2>1, TestOutcome
    <3> QED
      BY <1>2, <2>1, <3>3, <3>4
  <2>2. CASE NWords # 0
    BY <1>2, <1>4, <2>2, TestOutcome
  <2> QED
    BY <2>1, <2>2
<1> DEFINE e == reply.row[x]
<1>6. x \in 0..m /\ e \in Entries \cup {Junk}
  BY <1>1, <1>2
<1>7. /\ eset' \in Seq(Entries \cup {Junk})
      /\ Len(eset') \in {Len(eset), Len(eset) + 1}
      /\ \A j \in 1..Len(eset) : eset'[j] = eset[j]
      /\ Len(eset') = Len(eset) + 1 =>
           eset'[Len(eset) + 1] = e /\ (e # Junk => Passes(e))
  <2>1. CASE eset' = Append(eset, e) /\ (e # Junk => Passes(e))
    BY <1>2, <1>6, <2>1, AppendProperties
  <2>2. CASE eset' = eset
    BY <1>2, <2>2
  <2> QED
    BY <1>5, <2>1, <2>2
<1>8. \A j \in 1..Len(eset') : j \in 1..Len(eset) \/ j = Len(eset) + 1
  BY <1>2, <1>7
<1>9. ptr' \in Nat /\ ptr' = IF NWords = 0 THEN 0 ELSE n + 1
  BY <1>2, TestOutcome
<1>10. \A j \in 1..Len(eset') :
         /\ \E c \in 0..n : c \in DOMAIN reply.row /\ eset'[j] = reply.row[c]
         /\ eset'[j] # Junk => Passes(eset'[j])
  <2> TAKE j \in 1..Len(eset')
  <2>1. CASE j \in 1..Len(eset)
    <3>1. PICK c \in 0..n-1 : c \in DOMAIN reply.row /\ eset[j] = reply.row[c]
      BY <1>3, <2>1
    <3>2. c \in 0..n
      BY <1>2
    <3>3. eset'[j] = eset[j] /\ (eset[j] # Junk => Passes(eset[j]))
      BY <1>3, <1>7, <2>1
    <3> QED
      BY <3>1, <3>2, <3>3
  <2>2. CASE j = Len(eset) + 1 /\ j \notin 1..Len(eset)
    <3>1. Len(eset') = Len(eset) + 1
      BY <1>2, <1>7, <2>2
    <3> QED
      BY <1>1, <1>5, <1>6, <1>7, <2>2, <3>1
  <2> QED
    BY <1>8, <2>1, <2>2
<1>11. ASSUME NWords > 0, NEW c \in 0..n, c \in DOMAIN reply.row,
              reply.row[c] # Junk, Passes(reply.row[c])
       PROVE  \E j \in 1..Len(eset') : eset'[j] = reply.row[c]
  <2>1. CASE c \in 0..n-1
    <3>1. PICK j \in 1..Len(eset) : eset[j] = reply.row[c]
      BY <1>3, <1>11, <2>1
    <3> QED
      BY <1>2, <1>7, <3>1
  <2>2. CASE c = n
    <3>1. x = n /\ eset' = Append(eset, e)
      BY <1>5, <1>11, <2>2
    <3>2. Len(eset') = Len(eset) + 1 /\ eset'[Len(eset) + 1] = e
      BY <1>2, <1>6, <3>1, AppendProperties
    <3> QED
      BY <1>2, <2>2, <3>1, <3>2
  <2> QED
    BY <1>2, <2>1, <2>2
<1>12. ASSUME NWords > 0, complete, query[1] \in DOMAIN widxdb,
              NEW j \in 1..Len(eset'), NEW l \in 1..Len(eset'),
              eset'[j].id = eset'[l].id, j < l
       PROVE  FALSE
  <2>1. j \in 1..Len(eset)
    BY <1>2, <1>7, <1>12
  <2>2. CASE l \in 1..Len(eset)
    <3>1. eset[j].id = eset[l].id
      BY <1>7, <1>12, <2>1, <2>2
    <3>2. j = l
      BY <1>3, <1>12, <2>1, <2>2, <3>1
    <3>3. j \in Nat
      BY <1>2, <2>1
    <3> QED
      BY <1>12, <3>2, <3>3
  <2>3. CASE l \notin 1..Len(eset)
    <3>1. l = Len(eset) + 1 /\ Len(eset') = Len(eset) + 1
      BY <1>2, <1>7, <2>3
    <3>2. x = n /\ eset'[l] = reply.row[n]
      BY <1>5, <1>7, <1>12, <3>1
    <3>3. PICK c \in 0..n-1 : c \in DOMAIN reply.row /\ eset[j] = reply.row[c]
      BY <1>3, <2>1
    <3>4. eset'[j] = reply.row[c]
      BY <1>7, <2>1, <3>3
    <3>5. /\ widxdb[query[1]] \in IdRows
          /\ c + 1 \in 1..Len(widxdb[query[1]]) /\ n + 1 \in 1..Len(widxdb[query[1]])
          /\ reply.row[c].id = widxdb[query[1]][c + 1]
          /\ reply.row[n].id = widxdb[query[1]][n + 1]
      BY <1>12, <3>3, CompleteRow DEF IInv, TypeOK, HasReply
    <3>6. c + 1 = n + 1
      BY <1>12, <3>2, <3>4, <3>5, IdRowType
    <3> QED
      BY <1>2, <3>3, <3>6
  <2> QED
    BY <2>2, <2>3
<1>13. (NWords > 0 /\ complete /\ query[1] \in DOMAIN widxdb) =>
         \A j, l \in 1..Len(eset') : eset'[j].id = eset'[l].id => j = l
  <2> SUFFICES ASSUME NWords > 0, complete, query[1] \in DOMAIN widxdb,
                      NEW j \in 1..Len(eset'), NEW l \in 1..Len(eset'),
                      eset'[j].id = eset'[l].id
               PROVE  j = l
    OBVIOUS
  <2>1. ~ (j < l) /\ ~ (l < j)
    BY <1>12
  <2> QED
    BY <1>2, <1>7, <2>1
<1>14. /\ n' = n + 1 /\ n'-1 = n /\ pc' = "entry" /\ UNCHANGED <<reply, query, BF, complete, widxdb>>
       /\ 0..n'-1 = 0..n
  BY <1>2
<1>15. NWords' = NWords /\ (\A y : Passes(y)' <=> Passes(y))
  BY <1>14 DEF NWords, Passes, Cross, InFilter
<1>16. n' \in DOMAIN reply.row \/ n'-1 \in DOMAIN reply.row
  BY <1>1, <1>2, <1>14
<1>17. NWords > 0 =>
         \A c \in 0..n :
           (/\ c \in DOMAIN reply.row /\ reply.row[c] # Junk
            /\ Passes(reply.row[c]))
             => \E j \in 1..Len(eset') : eset'[j] = reply.row[c]
  BY <1>11
<1>18. ASSUME NWords = 0
       PROVE  /\ Len(eset') = n + 1
              /\ \A j \in 1..Len(eset') : eset'[j] = reply.row[0]
  <2>1. x = 0 /\ eset' = Append(eset, e)
    BY <1>4, <1>5, <1>18
  <2>2. Len(eset') = Len(eset) + 1
    BY <1>2, <1>6, <2>1, AppendProperties
  <2>3. Len(eset') = n + 1
    BY <1>3, <1>18, <2>2
  <2>4. \A j \in 1..Len(eset') : eset'[j] = reply.row[0]
    BY <1>3, <1>7, <1>8, <1>18, <2>1, <2>2
  <2> QED
    BY <2>3, <2>4
<1>19. Tested'
  BY <1>9, <1>10, <1>13, <1>14, <1>15, <1>16, <1>17, <1>18 DEF Tested
<1> QED
  BY <1>7, <1>9, <1>19

LEMMA TestEntryStep ==
  ASSUME IInv, TestEntry
  PROVE  IInv'
<1>1. UNCHANGED <<setupVars, storeVars, bloomfilter_file, pc, BF, query, uidx>>
      /\ n' = n + 1 /\ pc = "entry"
  BY DEF TestEntry
<1> USE DEF setupVars, storeVars
<1>2. n' \in Nat
  BY <1>1 DEF IInv, TypeOK
<1>3. IsReply'
  BY <1>1 DEF IInv, TypeOK, IsReply
<1>4. TypeOK'
  BY <1>1, <1>2, <1>3, TestEntryTested DEF IInv, TypeOK
<1>5. Control'
  BY <1>1 DEF IInv, Control, SettingUp, HasReply
<1>6. Genuine' /\ StoredRows' /\ FilterFile'
  BY <1>1, SearchKeeps DEF IInv, FilterFile, SettingUp, Searching
<1>7. RowRead'
  BY <1>1 DEF IInv, RowRead, HasReply, Store!EndsAt, Store!Read
<1>8. SearchExact' /\ SearchPromised' /\ AnswerStored'
  BY <1>1 DEF SearchExact, SearchPromised, AnswerStored
<1> QED
  BY <1>4, <1>5, <1>6, <1>7, <1>8, TestEntryTested DEF IInv

(* What SearchEnd decrypts.                                                *)
LEMMA FoundEntry ==
  ASSUME IInv, SearchEnd, NEW j \in 1..Len(eset)
  PROVE  /\ eset[j] \in Entries \cup {Junk}
         /\ uidx'[j] = Decrypted(eset[j])
         /\ eset[j] = Junk => uidx'[j] = Junk
         /\ eset[j] # Junk =>
              /\ uidx'[j] = eset[j].id /\ uidx'[j] \in Ids
              /\ Passes(eset[j])
         /\ \E c \in DOMAIN reply.row : eset[j] = reply.row[c]
<1>1. HasReply /\ uidx'[j] = Decrypted(eset[j])
  BY DEF SearchEnd, HasReply
<1>2. PICK c \in DOMAIN reply.row : eset[j] = reply.row[c]
  BY <1>1 DEF IInv, Tested
<1>3. eset[j] # Junk => Passes(eset[j])
  BY <1>1 DEF IInv, Tested
<1>4. /\ eset[j] \in Entries \cup {Junk}
      /\ eset[j] # Junk => eset[j] = Entry(query[1], c, eset[j].id)
  BY <1>1, <1>2, ReplyFacts
<1>5. eset[j] # Junk => eset[j].ke = query[1] /\ eset[j].id \in Ids
  BY <1>4 DEF Entry, Entries
<1> QED
  BY <1>1, <1>2, <1>3, <1>4, <1>5 DEF Decrypted

LEMMA SearchEndExact ==
  ASSUME IInv, SearchEnd
  PROVE  SearchExact'
<1>1. /\ HasReply /\ UNCHANGED <<setupVars, bloomfilter_file, BF, query>>
      /\ uidx' = [j \in 1..Len(eset) |-> Decrypted(eset[j])]
      /\ n \notin DOMAIN reply.row
  BY DEF SearchEnd, HasReply
<1> SUFFICES ASSUME complete, query[1] \in DOMAIN widxdb, NWords > 0
             PROVE  /\ Result' = {d \in RowOf(query[1]) :
                                    \A w \in Cross : Collides(widxdb, <<w, d>>)}
                    /\ \A j, l \in 1..Len(uidx') : uidx'[j] = uidx'[l] => j = l
  <2>1. NWords' = NWords /\ Cross' = Cross
    BY <1>1 DEF NWords, Cross
  <2>2. RowOf(query[1])' = RowOf(query[1])
    BY <1>1 DEF RowOf, setupVars
  <2> QED
    BY <1>1, <2>1, <2>2 DEF SearchExact, setupVars
<1> DEFINE k == query[1]
           L == Len(widxdb[k])
           matches == {d \in RowOf(k) : \A w \in Cross : Collides(widxdb, <<w, d>>)}
<1>2. eset \in Seq(Entries \cup {Junk}) /\ Len(eset) \in Nat
  BY DEF IInv, TypeOK
<1>3. Len(uidx') = Len(eset)
  BY <1>1, <1>2
<1>4. /\ DOMAIN reply.row = 0..L-1 /\ L \in Nat \ {0}
      /\ \A c \in 0..L-1 :
           /\ c + 1 \in 1..L
           /\ reply.row[c] # Junk /\ reply.row[c].id = widxdb[k][c + 1]
  <2>1. widxdb[k] \in IdRows
    BY DEF IInv, TypeOK
  <2>2. L \in Nat \ {0}
    BY <2>1, IdRowType, SizeAssumption
  <2> QED
    BY <1>1, <2>2, CompleteRow
<1>5. n \in Nat /\ n - 1 \in 0..L-1 /\ 0..n-1 = 0..L-1
  BY <1>1, <1>4 DEF IInv, TypeOK, Tested, SearchEnd
<1>6. ASSUME NEW e
      PROVE  Passes(e) <=> \A w \in Cross : Collides(widxdb, <<w, e.id>>)
  <2>1. BF = TagBits(widxdb)
    BY <1>1 DEF IInv, FilterFile, Searching, HasReply
  <2> QED
    BY <2>1, FilterHolds DEF Passes
<1>7. ASSUME NEW j \in 1..Len(eset)
      PROVE  uidx'[j] = eset[j].id /\ uidx'[j] \in matches
  <2>1. PICK c \in 0..L-1 : eset[j] = reply.row[c]
    BY <1>4, FoundEntry
  <2>2. eset[j].id = widxdb[k][c + 1] /\ eset[j] # Junk
    BY <1>4, <2>1
  <2>3. uidx'[j] = eset[j].id /\ Passes(eset[j])
    BY <2>2, FoundEntry
  <2>4. eset[j].id \in RowOf(k)
    BY <1>4, <2>2 DEF RowOf
  <2> QED
    BY <1>6, <2>3, <2>4
<1>8. ASSUME NEW d \in matches
      PROVE  \E j \in 1..Len(eset) : uidx'[j] = d
  <2>1. PICK p \in 1..L : widxdb[k][p] = d
    BY DEF RowOf
  <2>2. p - 1 \in 0..L-1 /\ (p - 1) + 1 = p
    BY <1>4
  <2>3. reply.row[p - 1] # Junk /\ reply.row[p - 1].id = d
    BY <1>4, <2>1, <2>2
  <2>4. Passes(reply.row[p - 1])
    BY <1>6, <2>3
  <2>5. p - 1 \in 0..n-1 /\ p - 1 \in DOMAIN reply.row
    BY <1>4, <1>5, <2>2
  <2>6. PICK j \in 1..Len(eset) : eset[j] = reply.row[p - 1]
    BY <1>1, <2>3, <2>4, <2>5 DEF IInv, Tested
  <2> QED
    BY <1>7, <2>3, <2>6
<1>9. Result' = matches
  <2>1. Result' = {uidx'[j] : j \in 1..Len(uidx')}
    BY DEF Result
  <2> QED
    BY <1>3, <1>7, <1>8, <2>1
<1>10. \A j, l \in 1..Len(eset) : eset[j].id = eset[l].id => j = l
  BY <1>1 DEF IInv, Tested
<1> QED
  BY <1>3, <1>7, <1>9, <1>10

(* The answer in the words of ConjunctiveSearch.                           *)
LEMMA SearchEndPromised ==
  ASSUME IInv, SearchEnd
  PROVE  SearchPromised'
<1>1. /\ HasReply /\ UNCHANGED <<widxdb, complete, query>> /\ pc' = "answered"
      /\ uidx' = [j \in 1..Len(eset) |-> Decrypted(eset[j])]
      /\ n \notin DOMAIN reply.row
  BY DEF SearchEnd, HasReply, setupVars
<1> DEFINE tags == {t \in XTags : Collides(widxdb, t)}
           k == query[1]
<1> SUFFICES ASSUME complete, k \in DOMAIN widxdb
             PROVE  Result' = Found(widxdb, tags, query)
  <2>1. tags' = tags
    BY <1>1 DEF Collides, Pairs
  <2>2. Found(widxdb, tags, query)' = Found(widxdb, tags, query)
    BY <1>1, <2>1 DEF Found, RowIds
  <2> QED
    BY <1>1, <2>2 DEF SearchPromised
<1>2. /\ query \in Seq(Keywords) /\ Len(query) \in Nat \ {0}
      /\ widxdb[k] \in Seq(Ids) /\ DOMAIN widxdb[k] = 1..Len(widxdb[k])
      /\ Len(widxdb[k]) \in Nat \ {0}
  <2>1. query \in Queries /\ widxdb[k] \in IdRows
    BY <1>1 DEF IInv, TypeOK, Control
  <2> QED
    BY <2>1, QueryType, IdRowType, SizeAssumption
<1>3. Len(query) = 1 <=> NWords = 0
  <2>1. Len(query) \in Nat
    BY <1>2
  <2> QED
    BY <2>1 DEF NWords
<1>4. NWords \in Nat
  BY <1>2 DEF NWords
<1>5. CASE NWords > 0
  <2>1. Result' = {d \in RowOf(k) : \A w \in Cross : Collides(widxdb, <<w, d>>)}
    <3>1. Result' = {d \in RowOf(k) : \A w \in Cross : Collides(widxdb, <<w, d>>)}'
      BY <1>1, <1>5, SearchEndExact DEF SearchExact, NWords
    <3>2. RowOf(k)' = RowOf(k) /\ Cross' = Cross
      BY <1>1 DEF RowOf, Cross
    <3> QED
      BY <1>1, <3>1, <3>2 DEF Collides, Pairs
  <2>2. RowIds(widxdb[k]) = RowOf(k) /\ RowOf(k) \subseteq Ids
    BY <1>2 DEF RowIds, RowOf
  <2>3. Len(query) # 1 /\ \A q \in 2..Len(query) : query[q] \in Keywords
    <3>1. \A q \in 2..Len(query) : q \in 1..Len(query)
      BY <1>2
    <3>2. \A q \in 1..Len(query) : query[q] \in Keywords
      BY <1>2
    <3> QED
      BY <1>5, <1>3, <3>1, <3>2
  <2>4. ASSUME NEW d \in RowOf(k)
        PROVE  (\A w \in Cross : Collides(widxdb, <<w, d>>))
                 <=> \A q \in 2..Len(query) : <<query[q], d>> \in tags
    <3>1. \A q \in 2..Len(query) : <<query[q], d>> \in XTags
      BY <2>2, <2>3 DEF XTags
    <3> QED
      BY <3>1 DEF Cross
  <2>5. Found(widxdb, tags, query)
          = {d \in RowOf(k) : \A q \in 2..Len(query) : <<query[q], d>> \in tags}
    BY <2>2, <2>3 DEF Found
  <2> HIDE DEF tags
  <2> QED
    BY <2>1, <2>4, <2>5
<1>6. CASE ~ (NWords > 0)
  <2>1. Len(query) = 1 /\ NWords = 0
    BY <1>6, <1>3, <1>4
  <2>2. /\ DOMAIN reply.row = 0..Len(widxdb[k])-1
        /\ reply.row[0] \in Entries /\ reply.row[0] # Junk
        /\ reply.row[0].id = widxdb[k][1]
    <3>1. 0 \in 0..Len(widxdb[k])-1
      BY <1>2
    <3>2. 0 + 1 = 1
      OBVIOUS
    <3> QED
      BY <1>1, <3>1, <3>2, CompleteRow
  <2>3. Len(eset) = n /\ \A j \in 1..Len(eset) : eset[j] = reply.row[0]
    BY <1>1, <2>1 DEF IInv, Tested
  <2>4. n \in Nat /\ n >= 1
    BY <1>1, <2>2 DEF IInv, TypeOK, Tested, SearchEnd
  <2>5. Len(uidx') = Len(eset)
    BY <1>1, <2>3, <2>4
  <2>6. \A j \in 1..Len(eset) : uidx'[j] = widxdb[k][1]
    BY <2>2, <2>3, FoundEntry
  <2>7. 1 \in 1..Len(eset)
    BY <2>3, <2>4
  <2>8. Result' = {uidx'[j] : j \in 1..Len(uidx')}
    BY DEF Result
  <2>9. Result' = {widxdb[k][1]}
    BY <2>5, <2>6, <2>7, <2>8
  <2> QED
    BY <2>1, <2>9 DEF Found
<1> QED
  BY <1>5, <1>6

LEMMA SearchEndStored ==
  ASSUME IInv, SearchEnd
  PROVE  AnswerStored'
<1>1. /\ HasReply /\ UNCHANGED <<rows, bloomfilter_file, query>>
      /\ uidx' = [j \in 1..Len(eset) |-> Decrypted(eset[j])]
  BY DEF SearchEnd, HasReply, storeVars
<1> SUFFICES ASSUME NEW d \in Result', d # Junk
             PROVE  /\ \E c \in Cells : /\ rows[query[1]][c] # Nil
                                        /\ rows[query[1]][c].ent.id = d
                    /\ \A w \in Cross : InFilter(bloomfilter_file, <<w, d>>)
  BY <1>1 DEF AnswerStored, Cross, InFilter
<1>2. Len(uidx') = Len(eset)
  BY <1>1 DEF IInv, TypeOK
<1>3. PICK j \in 1..Len(eset) : uidx'[j] = d
  BY <1>2 DEF Result
<1>4. eset[j] # Junk /\ eset[j].id = d /\ Passes(eset[j])
  BY <1>3, FoundEntry
<1>5. PICK c \in DOMAIN reply.row : eset[j] = reply.row[c]
  BY FoundEntry
<1>6. c \in Cells /\ rows[query[1]][c] # Nil /\ rows[query[1]][c].ent = eset[j]
  BY <1>1, <1>4, <1>5, ReplyFacts
<1>7. BF = bloomfilter_file
  BY <1>1 DEF IInv, FilterFile, Searching, HasReply
<1> QED
  BY <1>4, <1>6, <1>7 DEF Passes

LEMMA SearchEndStep ==
  ASSUME IInv, SearchEnd
  PROVE  IInv'
<1>1. /\ UNCHANGED <<setupVars, storeVars, bloomfilter_file, BF, query, n, ptr, eset>>
      /\ pc = "entry" /\ pc' = "answered" /\ n \notin DOMAIN reply.row
      /\ uidx' = [j \in 1..Len(eset) |-> Decrypted(eset[j])]
  BY DEF SearchEnd
<1> USE DEF setupVars, storeVars
<1>2. uidx' \in Seq(Ids \cup {Junk})
  <2>1. Len(eset) \in Nat
    BY DEF IInv, TypeOK
  <2>2. \A j \in 1..Len(eset) : Decrypted(eset[j]) \in Ids \cup {Junk}
    <3> TAKE j \in 1..Len(eset)
    <3> QED
      BY FoundEntry
  <2>3. uidx' \in [1..Len(eset) -> Ids \cup {Junk}]
    BY <1>1, <2>2
  <2> QED
    BY <2>1, <2>3, SeqDef
<1>3. IsReply'
  BY <1>1 DEF IInv, TypeOK, IsReply
<1>4. TypeOK'
  BY <1>1, <1>2, <1>3 DEF IInv, TypeOK
<1>5. Control'
  BY <1>1 DEF IInv, Control, SettingUp, HasReply
<1>6. Genuine' /\ StoredRows' /\ FilterFile'
  BY <1>1, SearchKeeps DEF IInv, FilterFile, SettingUp, Searching
<1>7. RowRead'
  BY <1>1 DEF IInv, RowRead, HasReply, Store!EndsAt, Store!Read
<1>8. NWords' = NWords /\ (\A y : Passes(y)' <=> Passes(y))
  BY <1>1 DEF NWords, Passes, Cross, InFilter
<1>9. Tested'
  BY <1>1, <1>8 DEF IInv, Tested, HasReply
<1> QED
  BY <1>4, <1>5, <1>6, <1>7, <1>9, SearchEndExact, SearchEndPromised,
     SearchEndStored DEF IInv

-----------------------------------------------------------------------------
LEMMA StepInvariant ==
  ASSUME IInv, [Next]_vars
  PROVE  IInv'
<1>1. CASE UNCHANGED vars
  <2>1. UNCHANGED <<widxdb, complete, setups, rows, reply, bloomfilter_file, pc, BF,
                    pending, row, i, query, n, ptr, eset, uidx>>
    BY <1>1 DEF vars, setupVars, storeVars, searchVars
  <2>2. TypeOK' /\ Control'
    BY <2>1 DEF IInv, TypeOK, IsReply, Control, SettingUp, HasReply
  <2>3. Genuine'
    BY <2>1 DEF IInv, Genuine
  <2>4. StoredRows' /\ FilterFile'
    BY <2>1 DEF IInv, StoredRows, Stored, StoredUpTo, RowValue, FilterFile,
                Searching, TagBits, Pairs
  <2>5. RowRead'
    BY <2>1 DEF IInv, RowRead, HasReply, Store!EndsAt, Store!Read
  <2>6. NWords' = NWords /\ Cross' = Cross /\ Result' = Result
        /\ \A y : Passes(y)' <=> Passes(y)
    BY <2>1 DEF NWords, Cross, Result, Passes, InFilter
  <2>7. Tested'
    BY <2>1, <2>6 DEF IInv, Tested, HasReply
  <2>8. RowOf(query[1])' = RowOf(query[1])
    BY <2>1 DEF RowOf
  <2>9. SearchExact'
    BY <2>1, <2>6, <2>8 DEF IInv, SearchExact
  <2>10. AnswerStored'
    BY <2>1, <2>6 DEF IInv, AnswerStored, InFilter
  <2>11. SearchPromised'
    BY <2>1, <2>6 DEF IInv, SearchPromised, Found, RowIds, Collides, Pairs
  <2> QED
    BY <2>2, <2>3, <2>4, <2>5, <2>7, <2>9, <2>10, <2>11 DEF IInv
<1>2. CASE SetUpStep
  <2>1. CASE \E db \in Databases : SetUpStart(db)
    BY <2>1, SetUpStartStep
  <2>2. CASE \E k \in Keywords : RowStart(k)
    BY <2>2, RowStartStep
  <2> QED
    BY <1>2, <2>1, <2>2, StoreEntryStep, FillBloomStep, OpenFileStep,
       WriteBFRowStep, SetUpEndStep, SetUpCrashStep, CleanStep DEF SetUpStep
<1>3. CASE SearchStep
  <2>1. CASE \E q \in Queries : Query(q)
    BY <2>1, QueryStep
  <2>2. CASE RetrieveDies
    BY <2>2, ExitStep DEF RetrieveDies, Searching
  <2>3. CASE CloseSearch
    BY <2>3, ExitStep DEF CloseSearch, Searching
  <2> QED
    BY <1>3, <2>1, <2>2, <2>3, OpenSearchStep, RetrieveRowStep, TestEntryStep,
       SearchEndStep DEF SearchStep
<1> QED
  BY <1>1, <1>2, <1>3 DEF Next

(* The inductive invariant: store and filter file follow the database of   *)
(* the latest set-up, and ESET the retrieved row.                          *)
THEOREM Invariance == Spec => []IInv
<1>1. Init => IInv
  BY InitInvariant
<1>2. IInv /\ [Next]_vars => IInv'
  BY StepInvariant
<1> QED
  BY <1>1, <1>2, PTL DEF Spec

(* Every variable of the set-up and search programs keeps its type.        *)
THEOREM TypeCorrect == Spec => []TypeOK
<1>1. IInv => TypeOK
  BY DEF IInv
<1> QED
  BY <1>1, Invariance, PTL

(* After a completed set-up EDB_Search returns, once each, exactly the ids *)
(* of the first row that match or collide in the Bloom filter.             *)
THEOREM Exact == Spec => []SearchExact
<1>1. IInv => SearchExact
  BY DEF IInv
<1> QED
  BY <1>1, Invariance, PTL

(* After a completed set-up EDB_Search answers what ConjunctiveSearch finds*)
(* in the plain database, for one keyword as for several.                  *)
THEOREM Promised == Spec => []SearchPromised
<1>1. IInv => SearchPromised
  BY DEF IInv
<1> QED
  BY <1>1, Invariance, PTL

(* Whatever set-ups were interrupted, EDB_Search returns only ids that are *)
(* stored in the first row and whose tags the filter file holds.           *)
THEOREM AnswersStored == Spec => []AnswerStored
<1>1. IInv => AnswerStored
  BY DEF IInv
<1> QED
  BY <1>1, Invariance, PTL

=============================================================================
