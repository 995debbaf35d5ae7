-------------------------------- MODULE EDB --------------------------------
(***************************************************************************)
(* The encrypted database of mainwindow.cpp and the programs around it.    *)
(* sse_setup runs EDB_SetUp: the plain database becomes an encrypted index *)
(* in Redis and a Bloom filter of cross tags, written to a file last.      *)
(* sse_search reads the filter once and runs EDB_Search for every query:   *)
(* it retrieves the row of the first keyword, tests each entry against the *)
(* other keywords in the filter and decrypts the entries that pass.        *)
(*                                                                         *)
(* Rows are kept by RowStore, which TSet implements.  A value computed from*)
(* a keyword, an id or a counter by PRF, AES or curve arithmetic stands for*)
(* what it was computed from; the product of a token (kx * z) and an entry *)
(* (xid / z) is a cross tag exactly if their z are equal.  The programs run*)
(* one at a time, as README.md:139 says; sse_setup may be killed anywhere. *)
(***************************************************************************)
EXTENDS Integers, Sequences, ConjunctiveSearch

CONSTANTS Keywords, Ids,
          Databases,    (* plain databases the set-up may be given         *)
          Queries,      (* keyword sequences asked for                     *)
          N_threads, N_max_ids,
          CounterSpan,  (* values of the two-byte entry counter, 65536     *)
          N_bits,       (* positions of the filter per hash function       *)
          BloomIdx,     (* position of a cross tag for each hash function  *)
          Nil, Junk,
          MaxSetUps     (* bound of the model: runs of the set-up program  *)

ASSUME SizeAssumption ==
  /\ N_threads \in Nat \ {0} /\ N_max_ids \in Nat \ {0}
  /\ CounterSpan \in Nat \ {0} /\ N_bits \in Nat \ {0}
  /\ MaxSetUps \in Nat

N_words == N_max_ids \div N_threads
             + (IF N_max_ids % N_threads = 0 THEN 0 ELSE 1)
N_max_id_words == N_words * N_threads

(* One hash function per thread: N_HASH = N_threads.                       *)
N_HASH == N_threads
Hashes == 0..N_HASH-1
Bits   == 0..N_bits-1
XTags  == Keywords \X Ids

ASSUME BloomAssumption == BloomIdx \in [Hashes -> [XTags -> Bits]]

(* A row lists the ids of a keyword, each once.                            *)
IdRows == {s \in UNION {[1..m -> Ids] : m \in 1..N_max_ids} :
             \A p, q \in DOMAIN s : s[p] = s[q] => p = q}
ASSUME DatabasesAssumption ==
  Databases \subseteq UNION {[K -> IdRows] : K \in SUBSET Keywords}

(* One word of the pool holds all the cross keywords ("Assumed that NWords *)
(* is less than n threads").                                               *)
ASSUME QueriesAssumption ==
  Queries \subseteq UNION {[1..m -> Keywords] : m \in 1..N_threads+1}

(* Mutant of Z: the counter is not cut to two bytes.                       *)
ZWide(k, n) == <<k, n>>

(* The keyword with the counter in its last two bytes, under KZ.           *)
Z(k, n) == <<k, n % CounterSpan>>

(* Entry n of a row: YID = xid / z, and EC, the id under the key of k.     *)
Entry(k, n, d) == [xid |-> d, z |-> Z(k, n), ke |-> k, id |-> d]
Entries == [xid : Ids, z : Keywords \X (0..CounterSpan-1), ke : Keywords, id : Ids]
Cells   == 0..N_max_id_words-1
Values  == [last : {0, 1}, ent : Entries]

ASSUME NilAssumption == Nil \notin Values /\ Nil \notin Keywords
ASSUME JunkAssumption == Junk \notin Entries \cup Ids

VARIABLES
  widxdb, complete,  (* plain database of the latest set-up; did it end    *)
  setups,            (* number of set-ups so far                           *)
  rows, reply,       (* the row store                                      *)
  bloomfilter_file,
  pc,                (* control of the only program that runs              *)
  BF,                (* the filter in the memory of that program           *)
  pending, row, i,   (* set-up: rows to store, current row, loop counter   *)
  query, n, ptr,     (* search: the query, loop counter, current entry     *)
  eset, uidx         (* entries that passed; their ids, decrypted          *)

storeVars  == <<rows, reply>>
setupVars  == <<widxdb, complete, setups, pending, row, i>>
searchVars == <<query, n, ptr, eset, uidx>>
vars == <<setupVars, storeVars, bloomfilter_file, pc, BF, searchVars>>

Store == INSTANCE RowStore WITH Room <- N_max_id_words, Contents <- Entries

NoBits == [h \in Hashes |-> {}]

Init ==
  /\ widxdb = [k \in {} |-> <<>>] /\ complete = FALSE /\ setups = 0
  /\ Store!Init
  /\ bloomfilter_file = NoBits
  /\ pc = "idle"
  /\ BF = NoBits
  /\ pending = {} /\ row = Nil /\ i = 0
  /\ query = <<>> /\ n = 0 /\ ptr = 0
  /\ eset = <<>> /\ uidx = <<>>

-----------------------------------------------------------------------------
(* sse_setup                                                               *)

(* Sys_Init; EDB_SetUp reads the plain database and writes the encrypted   *)
(* index file, which only TSet_SetUp reads, in the same run.               *)
SetUpStart(db) ==
  /\ pc = "idle" /\ setups < MaxSetUps
  /\ widxdb' = db /\ complete' = FALSE /\ setups' = setups + 1
  /\ BF' = NoBits
  /\ pending' = DOMAIN db
  /\ pc' = "row"
  /\ UNCHANGED <<storeVars, bloomfilter_file, row, i, searchVars>>

RowStart(k) ==
  /\ pc = "row" /\ k \in pending
  /\ row' = k /\ i' = 0
  /\ pending' = pending \ {k}
  /\ pc' = "store"
  /\ UNCHANGED <<widxdb, complete, setups, storeVars, bloomfilter_file, BF,
                 searchVars>>

RowValue(k, c) ==
  [last |-> IF c = Len(widxdb[k]) - 1 THEN 1 ELSE 0,
   ent  |-> Entry(k, c, widxdb[k][c + 1])]

(* TSet_SetUp stores entry i of the row.                                   *)
StoreEntry ==
  /\ pc = "store"
  /\ Store!Put(row, i, RowValue(row, i))
  /\ i' = i + 1
  /\ pc' = IF i' = Len(widxdb[row]) THEN "row" ELSE "store"
  /\ UNCHANGED <<widxdb, complete, setups, pending, row, bloomfilter_file, BF,
                 searchVars>>

(* The cross tags of a database, and their positions in a filter.          *)
Pairs(db) == {t \in XTags : /\ t[1] \in DOMAIN db
                            /\ \E p \in 1..Len(db[t[1]]) : db[t[1]][p] = t[2]}

(* Mutant of TagBits: the last id of a row is dropped.                     *)
TagBitsShort(db) ==
  [h \in Hashes |->
     {BloomIdx[h][t] : t \in {u \in Pairs(db) :
                               db[u[1]][Len(db[u[1]])] # u[2]}}]

TagBits(db) == [h \in Hashes |-> {BloomIdx[h][t] : t \in Pairs(db)}]

(* The second half of EDB_SetUp.                                           *)
FillBloom ==
  /\ pc = "row" /\ pending = {}
  /\ BF' = TagBits(widxdb)
  /\ pc' = "open"
  /\ UNCHANGED <<setupVars, storeVars, bloomfilter_file, searchVars>>

(* BloomFilter_WriteBFtoFile: the old file is gone ...                     *)
OpenFile ==
  /\ pc = "open"
  /\ bloomfilter_file' = NoBits
  /\ i' = 0
  /\ pc' = "file"
  /\ UNCHANGED <<widxdb, complete, setups, pending, row, storeVars, BF,
                 searchVars>>

(* ... and written again, hash function by hash function.                  *)
WriteBFRow ==
  /\ pc = "file" /\ i < N_HASH
  /\ bloomfilter_file' = [bloomfilter_file EXCEPT ![i] = BF[i]]
  /\ i' = i + 1
  /\ UNCHANGED <<widxdb, complete, setups, pending, row, storeVars, pc, BF,
                 searchVars>>

(* Mutant of SetUpEnd: the filter of the last hash function is not written.*)
SetUpEndShort ==
  /\ pc = "file" /\ i = N_HASH - 1
  /\ complete' = TRUE
  /\ pc' = "idle"
  /\ UNCHANGED <<widxdb, setups, pending, row, i, storeVars, bloomfilter_file,
                 BF, searchVars>>

SetUpEnd ==
  /\ pc = "file" /\ i = N_HASH
  /\ complete' = TRUE
  /\ pc' = "idle"
  /\ UNCHANGED <<widxdb, setups, pending, row, i, storeVars, bloomfilter_file,
                 BF, searchVars>>

(* sse_setup is killed, perhaps within a line-by-line write of the filter. *)
SetUpCrash ==
  /\ pc \in {"row", "store", "open", "file"}
  /\ \/ UNCHANGED bloomfilter_file
     \/ /\ pc = "file" /\ i < N_HASH
        /\ \E p \in Bits :
             bloomfilter_file' =
               [bloomfilter_file EXCEPT ![i] = {x \in BF[i] : x < p}]
  /\ pc' = "idle"
  /\ UNCHANGED <<setupVars, storeVars, BF, searchVars>>

(* By hand: redis-cli flushall, rm bloom_filter.dat (make clean_all).      *)
Clean ==
  /\ pc = "idle"
  /\ Store!Clear
  /\ bloomfilter_file' = NoBits
  /\ complete' = FALSE
  /\ UNCHANGED <<widxdb, setups, pending, row, i, pc, BF, searchVars>>

-----------------------------------------------------------------------------
(* sse_search                                                              *)

(* Sys_Init and BloomFilter_ReadBFfromFile: what a short or missing file   *)
(* does not hold stays zero.                                               *)
OpenSearch ==
  /\ pc = "idle"
  /\ BF' = bloomfilter_file
  /\ pc' = "ready"
  /\ UNCHANGED <<setupVars, storeVars, bloomfilter_file, searchVars>>

Query(q) ==
  /\ pc \in {"ready", "answered"}
  /\ query' = q /\ n' = 0 /\ ptr' = 0
  /\ eset' = <<>> /\ uidx' = <<>>
  /\ Store!Forget
  /\ pc' = "retrieve"
  /\ UNCHANGED <<setupVars, bloomfilter_file, BF>>

NWords == Len(query) - 1

(* TSet_GetTag and TSet_Retrieve.                                          *)
RetrieveRow ==
  /\ pc = "retrieve"
  /\ Store!Retrieve(query[1])
  /\ pc' = "entry"
  /\ UNCHANGED <<setupVars, bloomfilter_file, BF, searchVars>>

(* The program's memory is gone; Redis and the file are not.               *)
Exit ==
  /\ query' = <<>> /\ n' = 0 /\ ptr' = 0
  /\ eset' = <<>> /\ uidx' = <<>>
  /\ Store!Forget
  /\ pc' = "idle"
  /\ UNCHANGED <<setupVars, bloomfilter_file, BF>>

(* A worker dereferences the value of a cell that is not there: cells are  *)
(* read a word at a time, up to the word with the flagged one.             *)
RetrieveDies ==
  /\ pc = "retrieve"
  /\ \E c \in Cells :
       /\ rows[query[1]][c] = Nil
       /\ \A m \in 0..(c \div N_threads) * N_threads - 1 :
            rows[query[1]][m] # Nil => rows[query[1]][m].last = 0
  /\ Exit

InFilter(bf, t) == \A h \in Hashes : BloomIdx[h][t] \in bf[h]

(* Mutant of Matches: the outcome of the last cross keyword counts.        *)
MatchesLast(e) ==
  IF e = Junk THEN BOOLEAN
  ELSE {/\ e.z = Z(query[1], ptr)
        /\ NWords > 0 => InFilter(BF, <<query[Len(query)], e.xid>>)}

(* Mutant of Matches: one cross keyword in the filter is enough.           *)
MatchesAny(e) ==
  IF e = Junk THEN BOOLEAN
  ELSE {/\ e.z = Z(query[1], ptr)
        /\ NWords > 0 =>
             \E q \in 2..Len(query) : InFilter(BF, <<query[q], e.xid>>)}

(* Whether every tag of entry e is in the filter: the tag of cross keyword *)
(* q is formed only if the entry's z is that of the counter at ptr.  An    *)
(* undecodable entry gives tags of any value.                              *)
Matches(e) ==
  IF e = Junk THEN BOOLEAN
  ELSE {/\ e.z = Z(query[1], ptr)
        /\ \A q \in 2..Len(query) : InFilter(BF, <<query[q], e.xid>>)}

(* One round of the loop over the row: the pointers into the row and the   *)
(* tokens advance only where there are cross keywords.                     *)
TestEntry ==
  /\ pc = "entry" /\ n \in DOMAIN reply.row
  /\ LET e == reply.row[ptr]
     IN IF NWords = 0
        THEN /\ eset' = Append(eset, e)
             /\ UNCHANGED ptr
        ELSE /\ \E match \in Matches(e) :
                  eset' = IF match THEN Append(eset, e) ELSE eset
             /\ ptr' = ptr + 1
  /\ n' = n + 1
  /\ UNCHANGED <<setupVars, storeVars, bloomfilter_file, pc, BF, query, uidx>>

(* Decryption under the key of the first keyword.                          *)
Decrypted(e) == IF e # Junk /\ e.ke = query[1] THEN e.id ELSE Junk

SearchEnd ==
  /\ pc = "entry" /\ n \notin DOMAIN reply.row
  /\ uidx' = [j \in 1..Len(eset) |-> Decrypted(eset[j])]
  /\ pc' = "answered"
  /\ UNCHANGED <<setupVars, storeVars, bloomfilter_file, BF, query, n, ptr, eset>>

CloseSearch ==
  /\ pc \in {"ready", "answered"}
  /\ Exit

-----------------------------------------------------------------------------
SetUpStep ==
  \/ \E db \in Databases : SetUpStart(db)
  \/ \E k \in Keywords : RowStart(k)
  \/ StoreEntry
  \/ FillBloom \/ OpenFile \/ WriteBFRow
  \/ SetUpEnd \/ SetUpCrash
  \/ Clean

SearchStep ==
  \/ OpenSearch
  \/ \E q \in Queries : Query(q)
  \/ RetrieveRow \/ RetrieveDies
  \/ TestEntry \/ SearchEnd
  \/ CloseSearch

Next == SetUpStep \/ SearchStep

Spec == Init /\ [][Next]_vars

-----------------------------------------------------------------------------
(* Properties                                                              *)

RowOf(k) == {widxdb[k][p] : p \in 1..Len(widxdb[k])}
Result   == {uidx[j] : j \in 1..Len(uidx)}
Cross    == {query[q] : q \in 2..Len(query)}

IsReply == /\ reply = [kw |-> query[1], row |-> reply.row]
           /\ \E c \in Cells : reply.row \in [0..c -> Entries \cup {Junk}]

TypeOK ==
  /\ DOMAIN widxdb \subseteq Keywords
  /\ \A k \in DOMAIN widxdb : widxdb[k] \in IdRows
  /\ complete \in BOOLEAN /\ setups \in 0..MaxSetUps
  /\ rows \in [Keywords -> [Cells -> Values \cup {Nil}]]
  /\ IF pc \in {"entry", "answered"} THEN IsReply ELSE reply = Nil
  /\ bloomfilter_file \in [Hashes -> SUBSET Bits]
  /\ BF \in [Hashes -> SUBSET Bits]
  /\ pc \in {"idle", "row", "store", "open", "file", "ready", "retrieve",
              "entry", "answered"}
  /\ pending \subseteq DOMAIN widxdb
  /\ row \in Keywords \cup {Nil}
  /\ i \in Nat
  /\ query \in Seq(Keywords)
  /\ n \in Nat /\ ptr \in Nat
  /\ eset \in Seq(Entries \cup {Junk})
  /\ uidx \in Seq(Ids \cup {Junk})

(* A tag collides in the filter of db: for each hash function some pair of *)
(* the database has its position.                                          *)
Collides(db, t) ==
  \A h \in Hashes : \E u \in Pairs(db) : BloomIdx[h][u] = BloomIdx[h][t]

(* After a completed set-up, whatever crashes and set-ups came before it,  *)
(* a search for two keywords or more returns, each once, the ids of the    *)
(* first keyword's row whose pairs with the other keywords are in the      *)
(* database or collide with pairs that are: no match is missed.            *)
SearchExact ==
  (pc = "answered" /\ complete /\ query[1] \in DOMAIN widxdb /\ NWords > 0) =>
    /\ Result = {d \in RowOf(query[1]) : \A w \in Cross : Collides(widxdb, <<w, d>>)}
    /\ \A j, l \in 1..Len(uidx) : uidx[j] = uidx[l] => j = l

(* After a completed set-up a search keeps the promise that the programs   *)
(* around EDB_Search are modelled on, for one keyword as for several: it   *)
(* answers what ConjunctiveSearch finds in the plain database, with the    *)
(* tags of the database and those that collide with them.                  *)
SearchPromised ==
  (pc = "answered" /\ complete /\ query[1] \in DOMAIN widxdb) =>
    Result = Found(widxdb, {t \in XTags : Collides(widxdb, t)}, query)

(* Even over what an interrupted set-up has left, an id is returned only if*)
(* Redis holds it in the first keyword's row and the filter file holds its *)
(* tags with all the other keywords.                                       *)
AnswerStored ==
  pc = "answered" =>
    \A d \in Result \ {Junk} :
      /\ \E c \in Cells : rows[query[1]][c] # Nil /\ rows[query[1]][c].ent.id = d
      /\ \A w \in Cross : InFilter(bloomfilter_file, <<w, d>>)

(* A search for one keyword returns its row.                               *)
SingleKeyword ==
  (pc = "answered" /\ complete /\ query[1] \in DOMAIN widxdb /\ NWords = 0) =>
    Result = RowOf(query[1])

-----------------------------------------------------------------------------
(* The inductive invariant                                                 *)

SettingUp == pc \in {"row", "store", "open", "file"}
HasReply  == pc \in {"entry", "answered"}
Searching == pc \in {"ready", "retrieve", "entry", "answered"}

Control ==
  /\ SettingUp => ~ complete
  /\ pc = "store" => /\ row \in DOMAIN widxdb \ pending
                     /\ i < Len(widxdb[row])
  /\ pc = "retrieve" \/ HasReply => query \in Queries
  /\ pc = "retrieve" => n = 0 /\ ptr = 0 /\ eset = <<>>

(* Every entry in the store was computed for its own cell.                 *)
Genuine ==
  \A k \in Keywords, c \in Cells :
    rows[k][c] # Nil => rows[k][c].ent = Entry(k, c, rows[k][c].ent.id)

StoredUpTo(k, m) == \A c \in 0..m-1 : rows[k][c] = RowValue(k, c)
Stored(K) == \A k \in K : StoredUpTo(k, Len(widxdb[k]))

StoredRows ==
  /\ complete \/ pc \in {"open", "file"} => Stored(DOMAIN widxdb)
  /\ pc = "row" => Stored(DOMAIN widxdb \ pending)
  /\ pc = "store" => /\ Stored(DOMAIN widxdb \ (pending \cup {row}))
                     /\ StoredUpTo(row, i)

(* The file follows the filter in memory, then the other way round.        *)
FilterFile ==
  /\ pc \in {"open", "file"} => BF = TagBits(widxdb)
  /\ pc = "file" => i <= N_HASH /\ \A h \in 0..i-1 : bloomfilter_file[h] = BF[h]
  /\ complete => bloomfilter_file = TagBits(widxdb)
  /\ Searching => BF = bloomfilter_file

RowRead ==
  HasReply =>
    \E m \in Cells :
      /\ DOMAIN reply.row = 0..m
      /\ Store!EndsAt(query[1], m)
      /\ \A c \in 0..m : reply.row[c] = Store!Read(query[1], c)

Passes(e) == \A w \in Cross : InFilter(BF, <<w, e.id>>)

(* eset holds the entries before n that pass the filter, and of those that *)
(* cannot be decoded any.                                                  *)
Tested ==
  /\ pc = "entry" =>
       /\ n \in DOMAIN reply.row \/ n - 1 \in DOMAIN reply.row
       /\ ptr = IF NWords = 0 THEN 0 ELSE n
  /\ pc = "answered" => n \notin DOMAIN reply.row
  /\ HasReply =>
       /\ \A j \in 1..Len(eset) :
            /\ \E c \in 0..n-1 : c \in DOMAIN reply.row /\ eset[j] = reply.row[c]
            /\ eset[j] # Junk => Passes(eset[j])
       /\ NWords > 0 =>
            \A c \in 0..n-1 :
              (/\ c \in DOMAIN reply.row /\ reply.row[c] # Junk
               /\ Passes(reply.row[c]))
                => \E j \in 1..Len(eset) : eset[j] = reply.row[c]
       /\ NWords = 0 => /\ Len(eset) = n
                        /\ \A j \in 1..Len(eset) : eset[j] = reply.row[0]
       /\ (NWords > 0 /\ complete /\ query[1] \in DOMAIN widxdb) =>
            \A j, l \in 1..Len(eset) : eset[j].id = eset[l].id => j = l

IInv ==
  /\ TypeOK /\ Control
  /\ Genuine /\ StoredRows /\ FilterFile
  /\ RowRead /\ Tested
  /\ SearchExact /\ SearchPromised /\ AnswerStored

=============================================================================
