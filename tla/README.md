# TLA+ models of TWINSSE

This directory models the searchable-encryption programs of TWINSSE: how a plain
keyword-to-document database becomes an encrypted one, how searches read it back, and how a
disjunction of keywords becomes a set of conjunctive searches. The models are checked with TLC
and proved with TLAPS. Paths below are relative to the repository; `mainwindow.cpp` means
`src/conjunctive/mainwindow.cpp`, of which the other sub-projects hold copies that differ only in
output and comments.

## 1. The system

### 1.1 Programs and data flow

```
 plain db (.dat) --> disjunctive/database: DB_GenMKW, Query_processing
                          |                      |
                  meta-keyword db          test vectors (meta-keywords, bin indices)
                          |                      |
 sse_setup: EDB_SetUp --> eidxdb.csv --> TSet_SetUp --> Redis
            EDB_SetUp --> Bloom filter --> bloom_filter.dat
                                                 |
 sse_search: reads bloom_filter.dat, then per query EDB_Search --> TSet_Retrieve --> Redis
```

`sse_setup` and `sse_search` are separate processes, started by hand one after the other; what
passes between them is Redis and the filter file. Inside each process one main thread computes
everything and hands batches of `N_threads` equal operations (AES, hash, curve multiplication,
inversion, Redis reads) to a pool of worker threads. The operations bear the name `FPGA_*`.

### 1.2 Components

| component | state | operations | interacts through | what makes it correct |
|---|---|---|---|---|
| Worker pool (`mainwindow.cpp` 23-223, 1309-1563) | `nWorkerCount`, `nCurrentIteration`, `processed`, `*GL_OPCODE`, the `GL_*` buffers, one iteration number per worker | the `FPGA_*` calls, `MGDB_QUERY`, `WorkerThread`, `ReleaseThreads` | a mutex, two condition variables, buffers without lock | a call returns its own results in every slot; no slot is touched by two threads at once; everything terminates |
| TSet (908-1305) | Redis keys `BIDX.JIDX.LBL`, bucket counters `FreeB` | `TSet_SetUp`, `TSet_GetTag`, `TSet_Retrieve` | Redis, the worker pool | rows come back exactly as they were stored, in order, and end where they end |
| EDB (225-905) | plain database, encrypted rows, the query's tokens | `EDB_SetUp`, `EDB_Search` | TSet, Bloom filter, pool | a search returns the documents that have every keyword |
| Bloom filter (`bloom_filter.cpp`) | a byte per position and hash function; the file | `_Init`, `_Set`, `_Match_N`, `_WriteBFtoFile`, `_ReadBFfromFile` | file between programs | no match is lost; only collisions are added |
| Set-up program (`sse_setup.cpp`) | control | main | all of the above | order of the writes; what a run that was cut short leaves |
| Meta-keywords (`disjunctive/database/gen_mkw.cpp`, `dis_query_process.cpp`; copies in `cnf/database`) | bins, meta-keyword database, test vectors | `DB_GenMKW`, `DB_find_MKW`, `DB_ConvertQueryToMetaKeyword`, `resultact` | files | the searches together return every matching document; the bin index tells the searches apart |
| Search programs (`sse_search.cpp` of conjunctive, disjunctive, dnf, cnf) | current bin or clause, union or intersection of results, output files | main | `EDB_Search`, test-vector files | each bin or clause is searched once, results are combined as the formula says, and the lines of the output files belong together |
| Database files (`DB_ReadFromFileToDatabase`, `DB_WriteFromDatabaseToFile` in `gen_mkw.cpp`) | plain and meta-keyword database | read, write | files | both databases speak of the same ids |
| Arithmetic of the cross tags (`ecc_x25519.cpp`, `ECC_MUL`, `ECC_FPINV`) | points of the ladder | `ScalarMul`, `DoubleAndAdd` | EDB, through the pool | set-up and search arrive at one tag |
| Ciphers, hashes, text (`aes.cpp`, `rawdatautil.cpp`, BLAKE3) | none | pure functions | - | not modelled |

### 1.3 What is hard

* **Concurrency**: main reads and writes the shared buffers and the opcode without the mutex; only
  the countdown and the iteration numbers order the two sides. A worker also reads `processed`
  without the mutex, at its loop test.
* **Partial set-ups**: Redis keys are written one by one, the filter file last and line by line.
  Keys of the scheme are constants, so a second set-up writes over the first one's keys.
* **Reading without checks**: a row ends where its flag says; padding slots of the last word are
  queried although nothing is there; a missing Redis key is dereferenced (`mainwindow.cpp:205`);
  a missing or short filter file reads as zeros.
* **Counters cut to one or two bytes**: the digest index, `JIDX` and the counter in `Z`.
* **Boundaries**: the last bin, the last word of a row, a bin that is queried whole, a search for a
  single keyword, a test vector of one meta-keyword, a file of fewer than two, bit 0 of a scalar.
* **Variables that outlive an iteration**: the vectors and unions of the search programs are declared
  outside of the loops over lines, clauses and bins, and cleared in some branches only.

The complete list, each at its line and with the properties that cover it or the reason why none
does, is `hazards` in `PROJECT.json`.

## 2. The modules

| module | models | role |
|---|---|---|
| `ParallelBatch` | what callers of the pool rely on: a call is accepted, then answered slot by slot | abstract specification |
| `WorkerPool` | main, workers and everything they share | implements `ParallelBatch` |
| `RowStore` | what `EDB_SetUp` and `EDB_Search` rely on: a cell per keyword and position | abstract specification |
| `TSet` | `TSet_SetUp`, `TSet_Retrieve`, Redis | implements `RowStore` |
| `ConjunctiveSearch` | what callers of `EDB_Search` rely on: its answer as a function of the plain data; runs of equal bin indices; the line the disjunctive program makes of a vector | shared definitions |
| `EDB` | `EDB_SetUp`, `EDB_Search`, Bloom filter, their crashes | composed with `RowStore` by `INSTANCE`, shown to answer as `ConjunctiveSearch` says |
| `SearchProgram` | the main functions of the four search programs | calls `ConjunctiveSearch` |
| `MetaKeyword` | meta-keyword generation and query conversion | one action per loop body; related to what searches by `Runs` give, and to the line of `ConjunctiveSearch` |
| `MetaFile` | ids between the plain and the meta-keyword database file | conversions |
| `CrossTag` | ladder, inversion and products behind one cross tag | arithmetic on a small curve |
| `MC*` | constants for TLC | |
| `*Proofs` | theorems | each extends its module |
| `NumberFacts` | integers, divisibility, finite recursion and induction | lemmas for `CrossTagProofs` |

The composition is layered. `EDB` uses the row store through the actions of `RowStore` and knows
nothing of buckets, labels or Redis keys (of words only that a missing cell of the word being read
may end the process); `TSet` is shown to implement exactly those actions. `EDB` and
`TSet` in turn treat a call of the pool as one step, which is what `ParallelBatch` promises and
`WorkerPool` implements. Upwards, `SearchProgram` takes a call of `EDB_Search` as one step that yields
`Found` of `ConjunctiveSearch`, which is the invariant `SearchPromised` of `EDB`; `MetaKeyword` shows
with `SearchesGive` that the unions over the runs of equal bin index are the result of the conversion, and
with `LineAnswers` what comes out at the far end: it takes the vector that a query is converted to, the
rows of the meta-keyword database and a filter in which nothing collides, and compares `LineOf`, the line
`SearchProgram` is shown to write (`LinesExact`), with the ids that match.
`EDB` multiplies by pairing factors; `CrossTag` shows that the arithmetic compares as these pairs do.

### WorkerPool

`mpc` and `wpc[w]` are the program counters. A critical section is one step if it touches nothing
but what `mrun` protects; every access outside of the mutex is a step of its own: the copy into the
input buffers (`Call`), the opcode written while `mrun` is held (`Publish`), `notify_all`
(`NotifyAll`), the wait (`AwaitComplete`), the reset of the opcode (`ResetOpcode`), the copy out
(`Collect`); the worker's loop test (`TestProcessed`), its wait (`AwaitData`), the read of the
opcode (`Fetch`), the operation (`Run`), the decrement (`Finish`) and `notify_one` (`NotifyOne`).
Both waits can wake for nothing. The content of a slot is the pair of operation and input it was
computed from. `ReleaseThreads` is `Release`, the same wait, and `Join`. The nine calls (`FPGA_*` and
`MGDB_QUERY`, `mainwindow.cpp:1309-1563`) differ in their opcode and buffers only, which are the argument
and `Unit`; the actions are mapped to the first of them. `*GL_OPCODE` is not initialised, and neither is
`opcode` in `Init`: a release before any call may perform an operation. `ReleaseIsIdle` says that no
other release does; of that one nothing is claimed.

### TSet and RowStore

`redis` is a function from keys (bucket, `JIDX`, label) to values. `RowStart` takes the next row
of the index file and clears `FreeB`, `SetEntry` is one `redis.set`, `SetUpCrash` ends the process
between any two of them, `Flush` is `redis-cli flushall`. A retrieval goes word by word:
`RetrieveKey` for every slot, `RetrieveQuery` for the batch, `RetrieveDecode` slot by slot until the
flag of the last entry. A slot whose key is missing makes the worker dereference an empty optional
(undefined): either the process ends (`RetrieveCrash`) or the slot holds junk that decodes to
anything (`Junk`). A digest is the pair of keyword and index byte, so entries `IndexSpan` apart
share one; whole-label collisions of the hash are left out.

`RowStore` has one cell per keyword and position. `Put` fills one, `Retrieve` returns the cells up to
the first that is flagged, an empty cell being readable as junk with either flag. The refinement
maps a cell to the value under the key of that position.

### EDB

A value that PRF, AES or curve arithmetic computes from a keyword, an id or a counter stands for
what it was computed from. So an entry `[xid, z, ke, id]` is the pair YID = xid/z and EC = id
encrypted for keyword `ke`; a token kx*z times the entry is the cross tag of keyword and id exactly
if both z are equal. `z` is the keyword with the counter modulo `CounterSpan` (two bytes). The group
order used for inversion and multiplication is the order of the curve's base point, and all five
keys of the scheme are the same constant; neither matters here beyond the algebra above.

Set-up: `SetUpStart` (read the database, encrypt the rows), `RowStart` and `StoreEntry` (the calls of
TSet_SetUp), `FillBloom`, `OpenFile` (truncates), `WriteBFRow` per hash function, `SetUpEnd`.
`SetUpCrash` ends it anywhere, also within the lines of one hash function. Search: `OpenSearch`
reads the file, `Query`, `RetrieveRow`, `TestEntry` (one round of the loop over the row, with the
pointers advanced as the code advances them), `SearchEnd` (decryption), `CloseSearch`;
`RetrieveDies` ends the process at a missing key. `Clean` is the flush and removal by hand.
`BloomIdx` is an arbitrary function from tags to positions, so any collisions are possible.

### MetaKeyword

Keywords are positions. `GenBin`/`GenIds` are DB_GenMKW; `SkipBin`, `StartBin`, `ScanUnqueried`,
`ScanQueried`, `ScanTail` are the loops of the conversion with DB_find_MKW unrolled; `Lookup` reads
the meta-database and intersects; `LookupNothing` is the read of `sets[0]` of an empty vector, at
which the process dies; `Answer` ends a query. In the repository's `main.cpp` the bins are 5 wide
for generation and 10 for queries and the writing of the database is commented out, so that the two
are run with edited constants; the model uses one stride for both. The vectors of frequencies are
read by no program and left out.

### SearchProgram

`program` says which of the four mains runs. `disjunctive` and `cnf` read `file`, a sequence of
vectors of meta-keywords `tv` with bin indices `bv`; `LoadVector` begins a vector, and each round of
the loop over it is one of `Push` (more of the bin follows), `SearchBin` (a bin ends), `SearchLastBin`,
`SearchAgain` (the last meta-keyword is alone in its bin: the search before is repeated) and
`ScanThrows` (`at(j-1)` with j = 0). The files of test vectors, bin indices and queries are taken to have
one line for each vector, as `Query_processing` writes them, so that of the `at` on a line number only
that on the test vectors can throw first (`LoadThrows`); files put together by hand are not modelled.
`WriteVector`, `CombineClause` and `WriteLine` end a vector, a
clause, a line. The union of results is kept as a set; `std::set_intersection` is called by cnf with
a range that need not be sorted, so that `Intersections` is any of the sets it can then find.
`conjunctive` and `dnf` draw keywords at random: `SearchClause(q)` and `SkipClause(q)` take any q that
some draw leads to, in the order of a map keyed by frequency, where equal frequencies fall together.
`LoopBound` is computed in 32 bits without a sign (`UIntSpan`).

### CrossTag

For one keyword and one id: `EncodeEntry` computes y = xid/z, then `FormXtag`, `FormToken` and `FormTag`
each call `ScalarMul`, whose loop is `LadderOne`, `LadderZero` and `LadderEnd`. The numbers are those of
a curve of the same form over 37 elements; the reference is addition of points by chord and tangent.
Zero has one bit, as `mpz_sizeinbase` counts. Assumed of the constants are the
equation of the curve and the order of the base point (`CurveAssumption`), that raising to m - 2 inverts
modulo both moduli (`FermatAssumption`), and that chord and tangent add associatively on the multiples of
the base point (`GroupAssumption`). TLC evaluates all of them for the curve of the run.
Two opposite values of z give one tag, as the x coordinate is all that is kept. In `EDB` z decides
alone: z has 128 bits and the order 253, so that no two values of z are opposite.

### MetaFile

`ReadLine` reads a line of the plain file with `stoll`, `GenIds` unites the lines of each meta-keyword,
`WriteRow` writes its ids in hexadecimal.

## 3. The runs

| run | question | instance | why it is enough |
|---|---|---|---|
| `pool` | are the unlocked accesses of main safe, is anybody counted twice or lapped, can all threads wait for one another, is `ParallelBatch` implemented; does every call return, and the release if no worker is between decrement and loop test | 3 workers, operations 1, 8, 9, 2 batches, 2 calls and the release | 1 and 9 share a unit, 8 has its own; with 3 workers some can be finished, some asleep and some late; two calls and the release meet a straggler of the one before |
| `pool_release` | does `ReleaseThreads`, called after a call has returned, always return (no) | 2 workers, 1 call | smallest counterexample |
| `tset` | is a row read back exactly, and what does a torn one look like; is `RowStore` implemented | 2 keywords, 2 buckets, rows up to 3, words of 2, 2 index values, 2 set-ups | entries 0 and 2 share a digest, both keywords share a bucket, the last word is padded, the second set-up shortens rows or crashes |
| `edb` | what does a search return, after completed, repeated and interrupted set-ups | 3 keywords, 3 ids, 10 databases, 4 queries, 2 hash functions with one colliding pair, counter modulo 2, 2 set-ups | the counter wraps within a row of 3, the colliding pair is a false positive in some databases and not in others, a query has two cross keywords |
| `edb_single` | does a search for one keyword return its row (no) | the same, 1 set-up | |
| `metakw` | is the union of the intersections right, which queries make the conversion die, what do the bin indices tell, is the result what searches grouped by them give, and what does the line of a disjunction hold | 8 keywords in bins of 3, every query, every database of one id | two whole bins and a short one of two, which shares its index with the bin before; ids are independent of each other |
| `metakw_tags` | does it otherwise (no) | 5 keywords in bins of 3 | last bin shorter than the stride |
| `search` | does each program write the lines its queries call for, and where does it throw | 4 keywords, 3 ids, a wrong tag, files of up to 4 vectors of six shapes and of up to 6 of two of them, 2 draws of 2 keywords, 2 clauses | shapes: one bin, last bin of two, last bin of one, the same bin twice, one meta-keyword, none; two keywords of equal frequency; 3 bits instead of 32 make the loop bound wrap |
| `search_last` | is every meta-keyword of a vector searched (no) | the same, disjunctive | |
| `search_cnf` | is a cnf formula answered (no) | the same, cnf | |
| `crosstag` | do set-up and search form one tag | curve over 37 elements, base point of order 11, all scalars | scalars of 1 to 4 bits with every pattern below 11; cofactor 4; two different moduli |
| `metafile` | are the ids of the plain database those of the meta-keyword database (no) | 2 keywords, 4 ids of 3 digits | |

Deadlock is checked in the runs of `SearchProgram`, whose end is a step. It is not in the others because the
programs end: when the bounded number of calls or
set-ups is used up there may be no next step. That the pool's threads never all wait for one another is the
invariant `NobodyStuck` instead, which does not count a spurious wakeup as progress, as TLC's own check
would; that each call returns is a liveness property.

### Bounds

`MaxCalls` (calls of the pool before the release), `MaxSetUps` (runs of the set-up program) and the length
of the files in `Files` bound the models; every other parameter is a size of the system. The theorems
hold for all values of them.

### Fairness

`FairSpec` of `WorkerPool` is weak fairness of main's steps and of each worker's: a thread that can
run is eventually scheduled. Nothing is assumed of spurious wakeups, and main is free to make calls
or to release, in any order. A waiting thread is enabled only after a notification, so a lost wakeup
would show. The other modules state safety only: their programs are sequential and bounded by their
inputs.

### The properties that say most

* `CountMatchesPending`, `BuffersOwned`, `NoWorkerLapped`: the countdown is the number of workers that
  still owe a decrement, which is what makes main's unlocked accesses safe, the deletion of the
  buffers included, and every publication reach everybody.
* `NobodyStuck`: if every thread sleeps, is kept out by the mutex or waits in a join, then the pool is
  freed or its release waits for a worker that left at the loop test. No notification is ever sent too
  early, and the stranded release is the only deadlock the pool has.
* `ImplementsBatch`, `ImplementsRowStore`: the concurrent pool is a batch service, the bucketed,
  padded store is an array of cells.
* `RetrieveExact`, `OwnEntries`, `TornRow`, `NoOverwrite`: a completed set-up is read back exactly
  whatever was in Redis before; otherwise rows never mix, and a torn row has newer entries first.
* `SearchExact`: after a completed set-up a search of two or more keywords returns each matching id
  once, and beyond these only ids whose tag collides with tags of the database under every hash
  function. `AnswerStored` holds even after an interrupted one. `SearchPromised` says the same as a
  function of the plain data, for one keyword too: what `SearchProgram` builds on.
* `ResultExact`: the searches of a disjunction return every match, and what else they return has
  keywords on both sides of a queried one, within a bin. `CrashOnWholeBin`: the conversion dies of a
  query that holds a whole bin and of no other. `AllGenerated`: no name is looked up that was not
  generated. `BinTags` and `SearchesGive`: searching the meta-keywords of equal bin index together gives
  the result of the conversion, except where a short last bin and the one before are both queried.
* `LineAnswers`: from the plain database to the line of ids of the disjunctive program. The line holds
  nothing but the result of the conversion; and a match of a bin is in it, if some queried keyword of the
  bin has unqueried ones on both sides, and the bin is not confused with its neighbour. The condition is
  what the code leaves: a bin whose unqueried keywords are consecutive has a single meta-keyword, of whose
  row a search returns the first id only or, if it is the last of the vector, is not made at all
  (`SingleKeyword`, `EveryMkwSearched`).
* `LinesExact`, `ClauseExact`: what a line or clause holds depends on its own vector only, whatever was
  scanned before, although the branch for a last meta-keyword repeats a search of before: that search
  adds nothing. `LinesMatchQueries`: in the two programs that draw, the lines of the two output files
  belong together. `EndsWhere`: which inputs make a program throw, and that no others do.
* `LadderRight`, `TagsMeet`: after each bit the two points of the ladder are consecutive multiples of the
  base, at infinity and for a scalar of zero as well; set-up and search meet in one tag exactly if
  their z agree up to sign.

### Where the code and what is said of it differ

* `ReleaseReturns` (`mainwindow.cpp:173`), of a release after at least one call, which is what the set-up
  program makes: a worker that has done its decrement for the last call and reads `processed` at its loop
  test leaves without decrementing for the release, and `ReleaseThreads` waits for ever for the count to
  reach zero. `QuietReleaseReturns` shows that this window is the only one.
* `BinIndex` (`dis_query_process.cpp:336`): if the last bin is shorter than the stride its index is
  that of the bin before, and the search program, which groups meta-keywords by index, would
  intersect across bins.
* `SingleKeyword` (`mainwindow.cpp:862`): with no cross keyword the pointer into the row does not
  advance, so the first id is returned once for each entry. Line 706 asks what happens in that case,
  and the disjunctive search makes such calls for a bin with one meta-keyword.
* `EveryMkwSearched` (`disjunctive/sse_search.cpp:458`): a last meta-keyword alone in its bin is printed as
  queried but not searched, so its documents are missing from the line. The cnf program has the same
  branch.
* `FormulaAnswered` (`cnf/sse_search.cpp:502`): the intersection over the clauses starts from an empty set,
  so that every line of the cnf program is empty.
* `IdsPreserved` (`disjunctive/database/gen_mkw.cpp:129`): ids are read in decimal up to the first letter
  and written in hexadecimal; of the 9689 ids of `db6k.dat` 2626 remain.

## 4. The proofs

Each `*Proofs` module proves that its `IInv` is inductive (a lemma per action, a step per conjunct)
and derives the properties from it. TLC checks the same `IInv` as an invariant of a run.

**WorkerPoolProofs**, for any finite non-empty set of workers (`WorkersAssumption`,
`OpcodesAssumption`, `NoneAssumption`, `CallsAssumption`). `CountMatchesPending` alone is not
inductive: that the count is zero must say something of where each worker is. `InStep` relates a
worker's private iteration number and control to main's iteration, `MainControl` says what main may
conclude at each place (nobody is pending when it touches the buffers), `Exchange` what the slots
hold while a call is served. `NoWakeupLost` says of every sleeper that what it waits for has not come or
its notification is still to be sent, and that nobody goes to sleep after its work for the release.
Proved: type correctness (the count never passes zero), `CountCorrect`, `NoSharedAccess`, `IdleRelease`,
the action property `Lockstep`, `NoDeadlock`, `QuietRelease`, and `Refinement` to `ParallelBatch`. For `NoDeadlock`, a main
that sleeps while no worker is about to notify it has a positive count, so `CountMatchesPending` names a
worker it waits for, which can only have left; a main that joins waits for a worker that
`NoWakeupLost` does not let sleep. `QuietRelease` is the safety half of `QuietReleaseReturns`: that no
worker which owes a decrement is still on its way to the loop test is stable, and then the release cannot
be stranded. Both theorems speak of the guards of the actions written out; `ENABLED` is beyond the prover.

**TSetProofs**, for any hash into buckets, any number of threads, any row length
(`SpanAssumption`, `SizeAssumption`, `BucketAssumption`, `SetUpsAssumption`, `RoomAssumption`:
`JIDX` does not wrap within the arrays, `NilAssumption`, `JunkAssumption`). The key lemma is
`KeyInjective`: although digests repeat, no two entries of any rows have the same Redis key, because
`JIDX` counts earlier entries of the bucket. On it rest `Genuine` (a value is under the key of its
own row and position), `FrontFirst` (rows are stored from the front) and `Words`/`Decodes` (retrieval
follows the same counters). Proved: `Exact`, `InBounds`, `Own`, `Torn`, `DistinctKeys`, and
`Refinement` to `RowStore`.

**EDBProofs**, for all databases with rows within the configured length, all queries whose cross
keywords fit one word (the assumption the comments of lines 815 and 837 state), any filter
(`BloomAssumption`) and any counter width. `SearchExact` speaks of the moment of the answer;
`IInv` adds that store (`Genuine`, `StoredRows`) and file (`FilterFile`) follow the database row by
row and hash by hash, that the retrieved row is the stored one (`RowRead`), and that after n rounds
`eset` is what passes among the first n entries (`Tested`; n copies of the first one if there is
nothing to pass). Proved: `TypeCorrect`, `Exact`, `Promised`, `AnswersStored`.

**MetaKeywordProofs**, for any number of keywords and any stride (`KeywordsAssumption`, and
`StrideAssumption`, which excludes the sizes for which the code's test of an incomplete last bin,
`N_KW % N_BINS`, is wrong; the sizes in use are not among them). `ScanInv` says that the gaps found
so far are the maximal runs below the scan position, `UnionInv` that the union is right for the bins
before, `BlockInv` that the meta-keywords of a bin follow one another in the output and give its part
of the union. Proved: `ResultExact`, `AllGenerated`, `CrashOnWholeBin`, `BinTags`, `SearchesGive` and,
if the stride divides the number of keywords, `BinIndex`. `SearchesGive` needs that runs of equal
index are exactly the blocks of bins, but for a short last bin, whose block joins the one before.

**SearchProgramProofs**, for any database of non-empty rows, any filter, any files and number of
iterations (`SizesAssumption`, `DatabaseAssumption`, `FilesAssumption`). `LinesExact` is not inductive
within a vector: `Scanning` says that the runs that end before `j` have been searched, `Collected` that
`mkws` is the part of the current run before `j`, and that where a run begins `row_vec` is a search
whose ids are in the union already, for which reason repeating it changes nothing. `Lines` says that
nothing is carried from line to line, `FileRead` how far the file is read. Proved: `TypeCorrect`,
`LinesAreExact`, `ClausesAreExact`, `QueriesBelong`, `Endings`.

`LineAnswers` needs two facts more (`NamesInv`): every meta-keyword of a converted query is that of a gap
of its bin without queried keywords (`OfGap`), and every unqueried keyword of a queried bin is in the gap
of some meta-keyword of the bin (`InGap`). From the first, all meta-keywords of a bin have the ids of its
queried keywords; from both, two unqueried keywords with a queried one between them are in different gaps,
so that the bin has two meta-keywords and is searched by intersection (`SplitBin`). `BlockIsRun` and
`RunHoldsBlock` relate bins and runs of indices, `FoundInRows` and `VectorFacts` what a search for a run
finds; the rows may be in any order, `SetToSeq` being one (`IdsAssumption`: the ids are finitely many).

**CrossTagProofs**, for every curve of the form y^2 = x^3 + A x^2 + x, every base point and every scalar,
from `ModuliAssumption`, `CurveAssumption`, `FermatAssumption` and `GroupAssumption`. What is assumed is
the number theory that the code's author took from the literature; everything the code adds to it is
proved. `AddClosed`: chord and tangent stay on the curve. `MulSameX`: multiples of the base point have one
x coordinate exactly if they are equal or opposite. `DoubleStands`, `SumStands`, together `LadderStep`:
the formulas of `DoubleAndAdd` double and add, also where a point is at infinity, where the two points are
equal or opposite, and where an x coordinate is zero. `AffineRight`: the final inversion gives the x
coordinate, and 0 for infinity. The inductive invariant says of the row that it inverts z (`RowRight`), of
the products formed so far which multiple of the base point they are of (`ProductsRight`), of a running
`ScalarMul` that its arguments are those of the product to be formed (`CallRight`), and of the ladder that
its points stand for the multiples by the bits done and by one more (`LadderRight`). Proved:
`TypeCorrect`, `LadderMultiplies`, `TagsMeetExactly`. The powers and multiples are recursive functions;
`NumberFacts` proves, from the library's well-foundedness of the naturals, induction over an interval
stated for sets instead of predicates, and from it that recursion over an interval defines a function,
division with remainder, and the arithmetic of residues.

**Model-checked only**: the liveness properties (`EveryCallReturns`, `QuietReleaseReturns`), which are
beyond the prover; `MetaFile`, whose only run is a violation; and the violations of the other runs.
Every invariant and every other action property of a passing run is a theorem.

## 5. Not modelled

* AES, BLAKE3 and conversions between bytes and hexadecimal text: functions represented by their
  arguments. `strtoul` on the unterminated `temp[2]` of `BloomFilter_ReadBFfromFile`, `ScalarMul` and
  the conversions is taken to read two digits.
* Reading configuration files, and the parsing of database lines by `EDB_SetUp`. Preconditions of the
  inputs are assumptions: rows within `N_max_ids`, each id once in a row, a trailing comma on each line
  (the parser drops the token that ends the line). A keyword on two lines is excluded as well.
* `Query_processing`: what is typed in, the random draw and the four files it writes; `SearchProgram`
  takes any files. Timing output, the precision measurement, scripts.
* `cnf/main.cpp`, an earlier program that no Makefile builds.
* The copies of `mainwindow.cpp`, `bloom_filter.cpp`, `ecc_x25519.cpp` and `gen_mkw.cpp` in the other
  sub-projects, since they are the same code. With the four copies of BLAKE3 they are the greater part
  of the repository: the lines that the models are mapped to are some 8% of all,
  but most of what the repository's authors wrote once.

## 6. Plan

Done, in this order: `WorkerPool` with `ParallelBatch`; `TSet`; `MetaKeyword`; `RowStore` as the
interface between `TSet` and `EDB`; `EDB` over it; `ConjunctiveSearch` with `SearchProgram` above it;
the join of `MetaKeyword` with the search programs (`SearchesGive`); `CrossTag`; `MetaFile`; the
theorems of each but the last; the line of a disjunction from the plain database on (`LineAnswers`).

Next:

1. `Query_processing`: that line n of the four files it writes belongs to one query, and joined with
   `SearchProgram` that a written file is one the programs do not throw at.
2. A refinement of `SearchProgram` composed with `EDB` by `INSTANCE`, in place of the invariant
   `SearchPromised` that connects them now.
3. Sizes for which the test of an incomplete last bin fails (`gen_mkw.cpp:158`), as a run of its own.
