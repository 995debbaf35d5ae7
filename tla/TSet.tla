-------------------------------- MODULE TSet --------------------------------
(***************************************************************************)
(* The encrypted multimap of mainwindow.cpp: TSet_SetUp, run by sse_setup, *)
(* stores every row of the encrypted index in Redis, one key per entry;    *)
(* TSet_Retrieve, run by sse_search, recomputes the keys of a keyword's    *)
(* row, N_threads at a time, until it decodes an entry flagged as the last.*)
(*                                                                         *)
(* The key of entry i is cut from the digest of (stag, i & 0xFF): a bucket *)
(* of two bytes and a label; between them goes JIDX, the number of earlier *)
(* entries of the row in that bucket, because entries 256 apart have the   *)
(* same digest.  The digest also gives the pad that hides the entry.  The  *)
(* keys are fixed in the source, so setting up again rewrites the same     *)
(* Redis keys; the server is flushed only by hand.                         *)
(***************************************************************************)
EXTENDS Integers, FiniteSets

CONSTANTS Keywords,
          Buckets,    (* values of the first two bytes of a digest         *)
          Bucket,     (* the bucket of the digest of <<keyword, i & 0xFF>> *)
          IndexSpan,  (* distinct values of the index byte, 256 in the code*)
          JIdxSpan,   (* distinct values of JIDX, 65536 in the code        *)
          N_threads,
          N_max_ids,  (* the longest row, as configured                    *)
          Nil,        (* no value under a Redis key                        *)
          Zero,       (* a slot that memset cleared                        *)
          Junk,       (* what decoding an absent value yields              *)
          MaxSetUps   (* bound of the model: runs of the set-up program    *)

ASSUME SpanAssumption ==
  IndexSpan \in Nat \ {0} /\ JIdxSpan \in Nat \ {0}
ASSUME SizeAssumption ==
  N_threads \in Nat \ {0} /\ N_max_ids \in Nat \ {0}
ASSUME BucketAssumption ==
  Bucket \in [Keywords \X (0..IndexSpan-1) -> Buckets]
ASSUME SetUpsAssumption == MaxSetUps \in Nat

(* Mutant of N_words: the incomplete last word is forgotten.               *)
N_wordsDown == N_max_ids \div N_threads

(* Rows are padded to whole words of N_threads slots; the arrays of both   *)
(* functions have room for N_max_id_words slots.                           *)
N_words == N_max_ids \div N_threads
             + (IF N_max_ids % N_threads = 0 THEN 0 ELSE 1)
N_max_id_words == N_words * N_threads
Slots == 0..N_threads-1
Cells == 0..N_max_id_words-1

(* No row has more entries than JIDX can count.                            *)
ASSUME RoomAssumption == N_max_id_words <= JIdxSpan

(* The digest of entry i of k's row stands for all that is cut from it.    *)
Digests == Keywords \X (0..IndexSpan-1)
Digest(k, i) == <<k, i % IndexSpan>>

Keys == [bidx : Buckets, jidx : 0..JIdxSpan-1, lbl : Digests]

(* An entry of the encrypted index is told apart by the row and position it*)
(* was computed for and by the run of EDB_SetUp that wrote it.             *)
Entries == [kw : Keywords, idx : 0..N_max_ids-1, ver : 1..MaxSetUps]
Values  == [pad : Digests, last : {0, 1}, ent : Entries]

ASSUME NilAssumption ==
  Nil \notin Values /\ Nil \notin Keywords /\ Nil \notin [last : {0, 1}, ent : Entries]
ASSUME JunkAssumption == Junk \notin Entries

VARIABLES
  redis,            (* the Redis server                                    *)
  eidx, version,    (* the file eidxdb.csv: length of each row; its writer *)
  pc,               (* control of the only program that runs               *)
  complete,         (* the last run of TSet_SetUp reached its end          *)
  pending, row, i,  (* TSet_SetUp: rows to store, current row and entry    *)
  FreeB,            (* entries seen per bucket, of set-up or of retrieval  *)
  target, keys, res,(* TSet_Retrieve: keyword, word of keys and of results *)
  ni, tv, rcnt      (* slot in the word; decoded entries and their number  *)

setupVars    == <<eidx, version, complete, pending, row, i>>
retrieveVars == <<target, keys, res, ni, tv, rcnt>>
vars == <<redis, pc, FreeB, setupVars, retrieveVars>>

Rows == UNION {[K -> 1..N_max_ids] : K \in SUBSET Keywords}

NoKey == [bidx |-> Nil, jidx |-> 0, lbl |-> Nil]

Init ==
  /\ redis = [key \in Keys |-> Nil]
  /\ eidx = [k \in {} |-> 0]
  /\ version = 0
  /\ pc = "idle"
  /\ complete = FALSE
  /\ pending = {} /\ row = Nil /\ i = 0
  /\ FreeB = [b \in Buckets |-> 0]
  /\ target = Nil
  /\ keys = [s \in Slots |-> NoKey]
  /\ res = [s \in Slots |-> Nil]
  /\ ni = 0
  /\ tv = [s \in Cells |-> Zero]
  /\ rcnt = 0

(* The key of entry n of k's row, given the entries counted so far.        *)
BucketOf(k, n) == Bucket[Digest(k, n)]

NextKey(k, n) ==
  [bidx |-> BucketOf(k, n),
   jidx |-> FreeB[BucketOf(k, n)] % JIdxSpan,
   lbl  |-> Digest(k, n)]

CountBucket(k, n) == [FreeB EXCEPT ![BucketOf(k, n)] = @ + 1]

-----------------------------------------------------------------------------
(* TSet_SetUp                                                              *)

(* EDB_SetUp has written a new eidxdb.csv; TSet_SetUp has read its rows.   *)
SetUpStart(db) ==
  /\ pc \in {"idle", "returned"} /\ version < MaxSetUps
  /\ eidx' = db
  /\ version' = version + 1
  /\ pending' = DOMAIN db
  /\ complete' = FALSE
  /\ pc' = "row"
  /\ UNCHANGED <<redis, FreeB, row, i, retrieveVars>>

(* Mutant of RowStart: the counters go on from the row before.             *)
RowStartKeepFreeB(k) ==
  /\ pc = "row" /\ k \in pending
  /\ row' = k
  /\ i' = 0
  /\ pending' = pending \ {k}
  /\ pc' = "entry"
  /\ UNCHANGED <<redis, FreeB, eidx, version, complete, retrieveVars>>

(* The next row of the file: digests computed, counters cleared.           *)
RowStart(k) ==
  /\ pc = "row" /\ k \in pending
  /\ row' = k
  /\ i' = 0
  /\ pending' = pending \ {k}
  /\ FreeB' = [b \in Buckets |-> 0]
  /\ pc' = "entry"
  /\ UNCHANGED <<redis, eidx, version, complete, retrieveVars>>

(* Entry n of k's row in the current file, and the value stored for it.    *)
Current(k, n) == [kw |-> k, idx |-> n, ver |-> version]
LastFlag(k, n) == IF n = eidx[k] - 1 THEN 1 ELSE 0
RowValue(k, n) ==
  [pad |-> Digest(k, n), last |-> LastFlag(k, n), ent |-> Current(k, n)]

(* Mutant of SetEntry: JIDX does not count the entries of the bucket.      *)
SetEntryNoCount ==
  /\ pc = "entry"
  /\ redis' = [redis EXCEPT ![NextKey(row, i)] = RowValue(row, i)]
  /\ i' = i + 1
  /\ pc' = IF i' = eidx[row] THEN "row" ELSE "entry"
  /\ UNCHANGED <<FreeB, eidx, version, complete, pending, row, retrieveVars>>

(* Mutant of SetEntry: the row is stored from its last entry down.         *)
SetEntryBackwards ==
  /\ pc = "entry"
  /\ LET n == eidx[row] - 1 - i
         before == {m \in 0..n-1 : BucketOf(row, m) = BucketOf(row, n)}
         key == [NextKey(row, n) EXCEPT !.jidx = Cardinality(before) % JIdxSpan]
     IN redis' = [redis EXCEPT ![key] = RowValue(row, n)]
  /\ FreeB' = CountBucket(row, i)
  /\ i' = i + 1
  /\ pc' = IF i' = eidx[row] THEN "row" ELSE "entry"
  /\ UNCHANGED <<eidx, version, complete, pending, row, retrieveVars>>

(* Mutant of SetEntry: the loop runs once too often.                       *)
SetEntryOneMore ==
  /\ pc = "entry"
  /\ redis' = [redis EXCEPT ![NextKey(row, i)] = RowValue(row, i)]
  /\ FreeB' = CountBucket(row, i)
  /\ i' = i + 1
  /\ pc' = IF i = eidx[row] THEN "row" ELSE "entry"
  /\ UNCHANGED <<eidx, version, complete, pending, row, retrieveVars>>

(* One entry of the row: redis.set(key, value).                            *)
SetEntry ==
  /\ pc = "entry"
  /\ redis' = [redis EXCEPT ![NextKey(row, i)] = RowValue(row, i)]
  /\ FreeB' = CountBucket(row, i)
  /\ i' = i + 1
  /\ pc' = IF i' = eidx[row] THEN "row" ELSE "entry"
  /\ UNCHANGED <<eidx, version, complete, pending, row, retrieveVars>>

SetUpEnd ==
  /\ pc = "row" /\ pending = {}
  /\ complete' = TRUE
  /\ pc' = "idle"
  /\ UNCHANGED <<redis, FreeB, eidx, version, pending, row, i, retrieveVars>>

(* The set-up program is killed; Redis keeps what was set.                 *)
SetUpCrash ==
  /\ pc \in {"row", "entry"}
  /\ pc' = "idle"
  /\ UNCHANGED <<redis, FreeB, setupVars, retrieveVars>>

(* The operator flushes the server between two programs.                   *)
Flush ==
  /\ pc \in {"idle", "returned"}
  /\ redis' = [key \in Keys |-> Nil]
  /\ complete' = FALSE
  /\ UNCHANGED <<pc, FreeB, eidx, version, pending, row, i, retrieveVars>>

-----------------------------------------------------------------------------
(* TSet_Retrieve                                                           *)

RetrieveStart(k) ==
  /\ pc \in {"idle", "returned"}
  /\ target' = k
  /\ FreeB' = [b \in Buckets |-> 0]
  /\ keys' = [s \in Slots |-> NoKey]
  /\ res' = [s \in Slots |-> Nil]
  /\ tv' = [s \in Cells |-> Zero]
  /\ rcnt' = 0
  /\ ni' = 0
  /\ pc' = "key"
  /\ UNCHANGED <<redis, setupVars>>

(* Mutant of RetrieveKey: the counters do not follow those of set-up.      *)
RetrieveKeyNoCount ==
  /\ pc = "key"
  /\ rcnt + ni < N_max_id_words
  /\ keys' = [keys EXCEPT ![ni] = NextKey(target, rcnt + ni)]
  /\ IF ni + 1 < N_threads
       THEN ni' = ni + 1 /\ UNCHANGED pc
       ELSE ni' = 0 /\ pc' = "query"
  /\ UNCHANGED <<redis, FreeB, setupVars, target, res, tv, rcnt>>

(* The key of slot ni of the next word; digests of whole words exist only  *)
(* for N_max_id_words entries.                                             *)
RetrieveKey ==
  /\ pc = "key"
  /\ rcnt + ni < N_max_id_words
  /\ keys' = [keys EXCEPT ![ni] = NextKey(target, rcnt + ni)]
  /\ FreeB' = CountBucket(target, rcnt + ni)
  /\ IF ni + 1 < N_threads
       THEN ni' = ni + 1 /\ UNCHANGED pc
       ELSE ni' = 0 /\ pc' = "query"
  /\ UNCHANGED <<redis, setupVars, target, res, tv, rcnt>>

(* The loop reads past the arrays: undefined from here on.                 *)
RetrieveOverrun ==
  /\ pc = "key"
  /\ rcnt + ni >= N_max_id_words
  /\ pc' = "overrun"
  /\ UNCHANGED <<redis, FreeB, setupVars, retrieveVars>>

(* MGDB_QUERY: every worker gets the value of its slot's key.              *)
RetrieveQuery ==
  /\ pc = "query"
  /\ res' = [s \in Slots |-> redis[keys[s]]]
  /\ pc' = "decode"
  /\ UNCHANGED <<redis, FreeB, setupVars, target, keys, ni, tv, rcnt>>

(* A worker dereferences the empty optional of a missing key and dies.     *)
RetrieveCrash ==
  /\ pc = "query"
  /\ \E s \in Slots : redis[keys[s]] = Nil
  /\ pc' = "idle"
  /\ UNCHANGED <<redis, FreeB, setupVars, retrieveVars>>

(* What slot s decodes to, for the digest of entry n: an absent value, or  *)
(* one under another pad, gives an arbitrary flag and content.             *)
Decoded(s, n) ==
  IF res[s] # Nil /\ res[s].pad = Digest(target, n)
  THEN {[last |-> res[s].last, ent |-> res[s].ent]}
  ELSE [last : {0, 1}, ent : {Junk}]

(* Slot ni is decoded and appended; the flag ends the retrieval.           *)
RetrieveDecode ==
  /\ pc = "decode"
  /\ \E d \in Decoded(ni, rcnt) :
       /\ tv' = [tv EXCEPT ![rcnt] = d.ent]
       /\ rcnt' = rcnt + 1
       /\ \/ d.last = 1 /\ pc' = "returned" /\ UNCHANGED ni
          \/ d.last = 0 /\ ni + 1 < N_threads /\ ni' = ni + 1 /\ UNCHANGED pc
          \/ d.last = 0 /\ ni + 1 = N_threads /\ ni' = 0 /\ pc' = "key"
  /\ UNCHANGED <<redis, FreeB, setupVars, target, keys, res>>

-----------------------------------------------------------------------------
SetUpStep ==
  \/ \E db \in Rows \ {[k \in {} |-> 0]} : SetUpStart(db)
  \/ \E k \in Keywords : RowStart(k)
  \/ SetEntry
  \/ SetUpEnd
  \/ SetUpCrash
  \/ Flush

RetrieveStep ==
  \/ \E k \in Keywords : RetrieveStart(k)
  \/ RetrieveKey
  \/ RetrieveOverrun
  \/ RetrieveQuery
  \/ RetrieveCrash
  \/ RetrieveDecode

Next == SetUpStep \/ RetrieveStep

Spec == Init /\ [][Next]_vars

-----------------------------------------------------------------------------
(* Properties                                                              *)

TypeOK ==
  /\ redis \in [Keys -> Values \cup {Nil}]
  /\ version \in 0..MaxSetUps
  /\ eidx \in Rows
  /\ pc \in {"idle", "row", "entry", "key", "query", "decode", "returned",
              "overrun"}
  /\ complete \in BOOLEAN
  /\ pending \subseteq DOMAIN eidx
  /\ row \in Keywords \cup {Nil}
  /\ i \in 0..N_max_ids
  /\ FreeB \in [Buckets -> Nat]
  /\ target \in Keywords \cup {Nil}
  /\ keys \in [Slots -> Keys \cup {NoKey}]
  /\ res \in [Slots -> Values \cup {Nil}]
  /\ ni \in Slots
  /\ tv \in [Cells -> Entries \cup {Zero, Junk}]
  /\ rcnt \in 0..N_max_id_words

(* After a completed set-up, retrieving a keyword of the file returns its  *)
(* row: every entry, once, in order, and nothing of another row, whatever  *)
(* was in Redis before and wherever a digest repeats or buckets collide.   *)
RetrieveExact ==
  (pc = "returned" /\ complete /\ target \in DOMAIN eidx) =>
    /\ rcnt = eidx[target]
    /\ \A n \in 0..rcnt-1 : tv[n] = Current(target, n)

(* ... and never leaves the arrays it works in.                            *)
RetrieveInBounds ==
  (complete /\ target \in DOMAIN eidx) => pc # "overrun"

(* Even from a store that crashed, repeated or partial set-ups have left,  *)
(* what is decoded at position n was stored for that keyword and position, *)
(* unless the key was missing.                                             *)
OwnEntries ==
  \A n \in 0..rcnt-1 :
    tv[n] = Junk \/ (tv[n].kw = target /\ tv[n].idx = n)

(* Such a row is torn only one way: entries of a newer set-up come first.  *)
TornRow ==
  \A n \in 0..rcnt-1 : \A m \in 0..n-1 :
    tv[m] = Junk \/ tv[n] = Junk \/ tv[m].ver >= tv[n].ver

(* No set-up overwrites an entry it has itself stored.                     *)
NoOverwrite ==
  [][\A key \in Keys :
       (redis'[key] # redis[key] /\ redis[key] # Nil /\ redis'[key] # Nil)
         => redis[key].ent.ver < redis'[key].ent.ver]_vars

(* The key of entry n of k's row, whoever computes it: JIDX is the number  *)
(* of earlier entries in its bucket.                                       *)
InBucket(k, n, b) == {m \in 0..n-1 : BucketOf(k, m) = b}
KeyOf(k, n) ==
  [bidx |-> BucketOf(k, n),
   jidx |-> Cardinality(InBucket(k, n, BucketOf(k, n))) % JIdxSpan,
   lbl  |-> Digest(k, n)]

KeyTable == [k \in Keywords |-> [n \in Cells |-> KeyOf(k, n)]]

(* Cell n of k's row, and what a finished retrieval has returned.          *)
CellOf(k, n) ==
  LET v == redis[KeyTable[k][n]]
  IN IF v = Nil THEN Nil ELSE [last |-> v.last, ent |-> v.ent]
ReplyOf ==
  IF pc = "returned"
  THEN [kw |-> target, row |-> [n \in 0..rcnt-1 |-> tv[n]]]
  ELSE Nil

(* Buckets, labels and words are invisible to EDB_SetUp and EDB_Search:    *)
(* redis.set fills one cell and no other, and a retrieval, word by word    *)
(* with padding, reads the cells of one row up to the flagged one.         *)
Store == INSTANCE RowStore
           WITH Room <- N_max_id_words, Contents <- Entries,
                rows <- [k \in Keywords |-> [n \in Cells |-> CellOf(k, n)]],
                reply <- ReplyOf
ImplementsRowStore == Store!Spec

-----------------------------------------------------------------------------
(* The inductive invariant behind the properties                           *)

Counted(k, n) == [b \in Buckets |-> Cardinality(InBucket(k, n, b))]

(* The first n entries of k's row are in the store.                        *)
StoredUpTo(k, n) ==
  \A m \in 0..n-1 : redis[KeyOf(k, m)] = RowValue(k, m)

SettingUp  == pc \in {"row", "entry"}
Retrieving == pc \in {"key", "query", "decode"}

Control ==
  /\ SettingUp => ~complete /\ version > 0
  /\ pc = "entry" => /\ row \in DOMAIN eidx \ pending
                     /\ i < eidx[row]
                     /\ FreeB = Counted(row, i)
  /\ complete => version > 0
  /\ rcnt > 0 \/ Retrieving => target \in Keywords

(* Every value is under the key of its own row and position.               *)
Genuine ==
  \A key \in Keys : redis[key] # Nil =>
    /\ key = KeyOf(redis[key].ent.kw, redis[key].ent.idx)
    /\ redis[key].pad = key.lbl

(* Rows are stored front to back, the current one not beyond entry i.      *)
FrontFirst ==
  /\ \A k \in Keywords : \A n \in 0..N_max_ids-1 : \A m \in 0..n-1 :
       (redis[KeyOf(k, m)] # Nil /\ redis[KeyOf(k, n)] # Nil) =>
         redis[KeyOf(k, m)].ent.ver >= redis[KeyOf(k, n)].ent.ver
  /\ \A key \in Keys : redis[key] # Nil =>
       /\ redis[key].ent.ver <= version
       /\ (SettingUp /\ redis[key].ent.ver = version) =>
            /\ redis[key].ent.kw \notin pending
            /\ (pc = "entry" /\ redis[key].ent.kw = row) => redis[key].ent.idx < i

StoredRows ==
  /\ complete => \A k \in DOMAIN eidx : StoredUpTo(k, eidx[k])
  /\ pc = "row" => \A k \in DOMAIN eidx \ pending : StoredUpTo(k, eidx[k])
  /\ pc = "entry" =>
       /\ \A k \in DOMAIN eidx \ (pending \cup {row}) : StoredUpTo(k, eidx[k])
       /\ StoredUpTo(row, i)

(* The keys of the word in hand follow the entries already decoded.        *)
Words ==
  /\ pc = "key" =>
       /\ rcnt + ni <= N_max_id_words
       /\ FreeB = Counted(target, rcnt + ni)
       /\ \A s \in 0..ni-1 : keys[s] = KeyOf(target, rcnt + s)
       /\ \E q \in 0..N_words : rcnt = q * N_threads
  /\ pc = "query" =>
       /\ ni = 0 /\ rcnt + N_threads <= N_max_id_words
       /\ FreeB = Counted(target, rcnt + N_threads)
       /\ \A s \in Slots : keys[s] = KeyOf(target, rcnt + s)
       /\ \E q \in 0..N_words : rcnt = q * N_threads
  /\ pc = "decode" =>
       /\ ni <= rcnt /\ rcnt - ni + N_threads <= N_max_id_words
       /\ FreeB = Counted(target, rcnt - ni + N_threads)
       /\ \A s \in Slots : res[s] = redis[KeyOf(target, rcnt - ni + s)]
       /\ \E q \in 0..N_words : rcnt - ni = q * N_threads

(* What was decoded so far is what the store holds, none of it the last.   *)
Decodes ==
  Retrieving =>
    \A n \in 0..rcnt-1 :
      IF redis[KeyOf(target, n)] = Nil THEN tv[n] = Junk
      ELSE /\ tv[n] = redis[KeyOf(target, n)].ent
           /\ redis[KeyOf(target, n)].last = 0

Progress ==
  (Retrieving /\ complete /\ target \in DOMAIN eidx) =>
    /\ rcnt < eidx[target]
    /\ \A n \in 0..rcnt-1 : tv[n] = Current(target, n)

IInv ==
  /\ TypeOK /\ Control
  /\ Genuine /\ FrontFirst /\ StoredRows
  /\ Words /\ Decodes /\ Progress
  /\ RetrieveExact /\ RetrieveInBounds /\ OwnEntries /\ TornRow

=============================================================================
