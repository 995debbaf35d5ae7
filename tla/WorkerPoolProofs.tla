-------------------------- MODULE WorkerPoolProofs --------------------------
(***************************************************************************)
(* Proofs about WorkerPool for any finite set of workers, any operations   *)
(* and any number of calls: IInv is inductive, the safety properties       *)
(* follow from it, and the pool implements ParallelBatch.                  *)
(***************************************************************************)
EXTENDS WorkerPool, FiniteSetTheorems, TLAPS

(* Zero is the count of exactly the empty set of pending workers.          *)
LEMMA PendingEmpty ==
  ASSUME IInv, nCurrentIteration > 0, nWorkerCount = 0, NEW w \in Workers
  PROVE  ~Pending(w)
<1> DEFINE P == {v \in Workers : Pending(v)}
<1>1. IsFiniteSet(P)
  BY FS_Subset, WorkersAssumption
<1>2. Cardinality(P) = 0
  BY DEF IInv, CountMatchesPending
<1>3. P = {}
  BY <1>1, <1>2, FS_EmptySet
<1> QED
  BY <1>3

(* The thread count is a positive number.                                  *)
LEMMA ThreadCount == N_threads \in Nat \ {0}
BY FS_CardinalityType, FS_EmptySet, WorkersAssumption DEF N_threads

LEMMA InitInv == Init => IInv
<1> SUFFICES ASSUME Init PROVE IInv
  OBVIOUS
<1> USE ThreadCount, OpcodesAssumption
<1>1. TypeOK
  <2>1. Blank \in Cells
    BY DEF Blank, Cells
  <2>2. /\ inbuf \in [Units -> [Workers -> Batches \cup {None}]]
        /\ outbuf \in [Units -> [Workers -> Cells]]
    BY <2>1 DEF Init
  <2>3. nWorkerCount \in 0..N_threads /\ nCurrentIteration \in Nat
    BY DEF Init
  <2>4. /\ opcode \in Opcodes \cup {0} /\ call \in Cells
        /\ result \in [Workers -> Cells]
        /\ fetched \in [Workers -> Opcodes \cup {0}]
    BY <2>1 DEF Init
  <2>5. /\ mrun \in BOOLEAN /\ processed \in BOOLEAN
        /\ mpc \in MainPC /\ wpc \in [Workers -> WorkerPC]
        /\ nNextIteration \in [Workers -> Nat]
    BY DEF Init, MainPC, WorkerPC
  <2> QED
    BY <2>2, <2>3, <2>4, <2>5 DEF TypeOK
<1>2. \A w \in Workers : InStep(w) /\ ~Pending(w)
  BY DEF Init, InStep, Pending
<1>3. CountMatchesPending /\ MainControl /\ Exchange /\ OpcodeReset /\ FreedAfterExit
  BY <1>2 DEF Init, CountMatchesPending, MainControl, Exchange, OpcodeReset,
              FreedAfterExit
<1>4. NoWakeupLost
  BY DEF Init, NoWakeupLost
<1> QED
  BY <1>1, <1>2, <1>3, <1>4 DEF IInv

(* Every operation works in one of the buffers.                            *)
LEMMA UnitType == \A op : Unit(op) \in Units
BY DEF Unit, Units

-----------------------------------------------------------------------------
(* Steps of main                                                           *)

LEMMA CallInv ==
  ASSUME IInv, NEW op \in Opcodes, NEW data \in Batches, Call(op, data)
  PROVE  IInv'
<1> USE DEF IInv, Call
<1>1. TypeOK'
  <2>1. call' \in Cells
    BY DEF Cells
  <2>2. [w \in Workers |-> Blank] \in [Workers -> Cells]
    BY DEF Blank, Cells
  <2>3. outbuf' \in [Units -> [Workers -> Cells]]
    BY <2>2, UnitType DEF TypeOK
  <2>4. inbuf' \in [Units -> [Workers -> Batches \cup {None}]]
    BY UnitType DEF TypeOK
  <2> QED
    BY <2>1, <2>3, <2>4 DEF TypeOK, counters, workerVars, MainPC
<1>2. \A w \in Workers : InStep(w)' /\ (Pending(w)' <=> Pending(w))
  BY DEF InStep, Pending, counters, workerVars
<1>3. CountMatchesPending'
  BY DEF CountMatchesPending, Pending, counters, workerVars
<1>4. MainControl'
  BY <1>2 DEF MainControl, counters, workerVars
<1>5. Exchange'
  BY UnitType DEF Exchange, MainControl, TypeOK, counters
<1>6. OpcodeReset' /\ FreedAfterExit'
  BY DEF OpcodeReset, FreedAfterExit, MainControl, counters
<1>7. NoWakeupLost'
  BY DEF NoWakeupLost, counters, workerVars
<1> QED
  BY <1>1, <1>2, <1>3, <1>4, <1>5, <1>6, <1>7

(* Publishing, or releasing, makes every worker pending and the countdown  *)
(* start at their number.                                                  *)
LEMMA NextIteration ==
  ASSUME IInv, \A w \in Workers : ~Pending(w),
         nCurrentIteration' = nCurrentIteration + 1,
         nWorkerCount' = N_threads,
         UNCHANGED workerVars,
         processed => processed'
  PROVE  /\ \A w \in Workers : InStep(w)' /\ nNextIteration[w] = nCurrentIteration'
         /\ \A w \in Workers : wpc[w] \in {"test", "lock", "waiting", "notify", "exit"}
         /\ CountMatchesPending'
<1>1. \A w \in Workers :
        /\ nNextIteration[w] = nCurrentIteration'
        /\ wpc[w] \in {"test", "lock", "waiting", "notify", "exit"}
  BY DEF IInv, InStep, Pending, TypeOK, WorkerPC
<1>2. \A w \in Workers : Pending(w)' /\ InStep(w)'
  BY <1>1 DEF IInv, InStep, Pending, TypeOK, workerVars
<1>3. CountMatchesPending'
  <2>1. {w \in Workers : Pending(w)}' = Workers
    BY <1>2
  <2> QED
    BY <2>1 DEF CountMatchesPending, N_threads
<1> QED
  BY <1>1, <1>2, <1>3

LEMMA PublishInv == ASSUME IInv, Publish PROVE IInv'
<1> USE DEF IInv, Publish
<1>1. TypeOK'
  <2>1. call.op \in Opcodes
    BY DEF Exchange, MainControl
  <2>2. nWorkerCount' \in 0..N_threads /\ nCurrentIteration' \in Nat
    BY ThreadCount DEF TypeOK
  <2>3. opcode' \in Opcodes \cup {0}
    BY <2>1
  <2> QED
    BY <2>2, <2>3 DEF TypeOK, buffers, workerVars, MainPC
<1>2. /\ \A w \in Workers : InStep(w)' /\ nNextIteration[w] = nCurrentIteration'
      /\ \A w \in Workers : wpc[w] \in {"test", "lock", "waiting", "notify", "exit"}
      /\ CountMatchesPending'
  BY NextIteration DEF MainControl
<1>3. MainControl'
  BY DEF MainControl, TypeOK
<1>4. Exchange'
  BY <1>2 DEF Exchange, MainControl, TypeOK, buffers, workerVars
<1>5. OpcodeReset' /\ FreedAfterExit'
  BY DEF OpcodeReset, FreedAfterExit, MainControl
<1>6. NoWakeupLost'
  BY DEF NoWakeupLost, MainControl, workerVars
<1> QED
  BY <1>1, <1>2, <1>3, <1>4, <1>5, <1>6

LEMMA ReleaseInv == ASSUME IInv, Release PROVE IInv'
<1> USE DEF IInv, Release
<1>1. TypeOK'
  BY ThreadCount DEF TypeOK, buffers, workerVars, MainPC
<1>2. /\ \A w \in Workers : InStep(w)' /\ nNextIteration[w] = nCurrentIteration'
      /\ \A w \in Workers : wpc[w] \in {"test", "lock", "waiting", "notify", "exit"}
      /\ CountMatchesPending'
  BY NextIteration DEF MainControl
<1>3. MainControl'
  BY DEF MainControl, TypeOK
<1>4. Exchange'
  BY DEF Exchange
<1>5. OpcodeReset' /\ FreedAfterExit'
  BY <1>2 DEF OpcodeReset, FreedAfterExit, MainControl, TypeOK, workerVars
<1>6. NoWakeupLost'
  BY <1>2 DEF NoWakeupLost, workerVars, TypeOK
<1> QED
  BY <1>1, <1>2, <1>3, <1>4, <1>5, <1>6

(* A wakeup moves a waiting worker back to its lock and nothing else.      *)
LEMMA NotifyAllInv == ASSUME IInv, NotifyAll PROVE IInv'
<1> USE DEF IInv, NotifyAll
<1>1. TypeOK'
  BY DEF TypeOK, counters, buffers, MainPC, WorkerPC
<1>2. \A w \in Workers : InStep(w)' /\ (Pending(w)' <=> Pending(w))
  BY DEF InStep, Pending, counters, TypeOK, MainControl
<1>3. CountMatchesPending'
  <2>1. {w \in Workers : Pending(w)}' = {w \in Workers : Pending(w)}
    BY <1>2
  <2> QED
    BY <2>1 DEF CountMatchesPending, counters
<1>4. MainControl'
  BY DEF MainControl, counters
<1>5. Exchange'
  BY DEF Exchange, TypeOK, counters, buffers
<1>6. OpcodeReset' /\ FreedAfterExit'
  BY DEF OpcodeReset, FreedAfterExit, counters, TypeOK
<1>7. NoWakeupLost'
  BY DEF NoWakeupLost, counters, TypeOK
<1> QED
  BY <1>1, <1>2, <1>3, <1>4, <1>5, <1>6, <1>7

(* When the countdown is 0, no worker is pending, so every slot is filled. *)
LEMMA AwaitCompleteInv == ASSUME IInv, AwaitComplete PROVE IInv'
<1> USE DEF IInv, AwaitComplete
<1>1. TypeOK'
  BY DEF TypeOK, counters, buffers, workerVars, MainPC
<1>2. \A w \in Workers : InStep(w)' /\ (Pending(w)' <=> Pending(w))
  BY DEF InStep, Pending, counters, workerVars
<1>3. CountMatchesPending'
  BY DEF CountMatchesPending, Pending, counters, workerVars
<1>4. nWorkerCount = 0 => \A w \in Workers : ~Pending(w)
  BY PendingEmpty DEF MainControl
<1>5. MainControl'
  BY <1>2, <1>4 DEF MainControl, counters
<1>6. Exchange'
  <2>1. CASE mpc' \in {"waiting", "join"}
    BY <2>1 DEF Exchange, MainControl, counters, buffers, workerVars
  <2>2. CASE mpc' = "reset"
    <3>1. \A w \in Workers :
             nNextIteration[w] = nCurrentIteration + 1 /\ wpc[w] # "run"
      BY <1>4, <2>2 DEF InStep, Pending
    <3> QED
      BY <2>2, <3>1 DEF Exchange, MainControl, counters, buffers, workerVars
  <2> QED
    BY <2>1, <2>2
<1>7. OpcodeReset' /\ FreedAfterExit'
  BY DEF OpcodeReset, FreedAfterExit, MainControl, counters, workerVars
<1>8. NoWakeupLost'
  BY DEF NoWakeupLost, counters, workerVars
<1> QED
  BY <1>1, <1>2, <1>3, <1>5, <1>6, <1>7, <1>8

LEMMA ResetOpcodeInv == ASSUME IInv, ResetOpcode PROVE IInv'
<1> USE DEF IInv, ResetOpcode
<1>1. TypeOK'
  BY DEF TypeOK, counters, buffers, workerVars, MainPC
<1>2. \A w \in Workers : InStep(w)' /\ (Pending(w)' <=> Pending(w))
  BY DEF InStep, Pending, counters, workerVars
<1>3. CountMatchesPending'
  BY DEF CountMatchesPending, Pending, counters, workerVars
<1>4. MainControl'
  BY <1>2 DEF MainControl, counters
<1>5. Exchange'
  BY DEF Exchange, counters, buffers, workerVars
<1>6. OpcodeReset' /\ FreedAfterExit'
  BY DEF OpcodeReset, FreedAfterExit, MainControl, counters, workerVars
<1>7. NoWakeupLost'
  BY DEF NoWakeupLost, counters, workerVars
<1> QED
  BY <1>1, <1>2, <1>3, <1>4, <1>5, <1>6, <1>7

LEMMA CollectInv == ASSUME IInv, Collect PROVE IInv'
<1> USE DEF IInv, Collect
<1>1. TypeOK'
  BY UnitType DEF TypeOK, counters, buffers, workerVars, MainPC
<1>2. \A w \in Workers : InStep(w)' /\ (Pending(w)' <=> Pending(w))
  BY DEF InStep, Pending, counters, workerVars
<1>3. CountMatchesPending'
  BY DEF CountMatchesPending, Pending, counters, workerVars
<1>4. MainControl'
  BY <1>2 DEF MainControl, counters
<1>5. Exchange'
  BY DEF Exchange, counters, buffers, workerVars
<1>6. OpcodeReset' /\ FreedAfterExit'
  BY DEF OpcodeReset, FreedAfterExit, MainControl, counters, workerVars
<1>7. NoWakeupLost'
  BY DEF NoWakeupLost, counters, workerVars
<1> QED
  BY <1>1, <1>2, <1>3, <1>4, <1>5, <1>6, <1>7

LEMMA JoinInv == ASSUME IInv, Join PROVE IInv'
<1> USE DEF IInv, Join
<1>1. TypeOK'
  BY DEF TypeOK, counters, buffers, workerVars, MainPC
<1>2. \A w \in Workers : InStep(w)' /\ (Pending(w)' <=> Pending(w))
  BY DEF InStep, Pending, counters, workerVars
<1>3. CountMatchesPending'
  BY DEF CountMatchesPending, Pending, counters, workerVars
<1>4. MainControl' /\ Exchange'
  BY DEF MainControl, Exchange, counters
<1>5. OpcodeReset' /\ FreedAfterExit'
  BY DEF OpcodeReset, FreedAfterExit, MainControl, counters, workerVars
<1>6. NoWakeupLost'
  BY DEF NoWakeupLost, counters, workerVars
<1> QED
  BY <1>1, <1>2, <1>3, <1>4, <1>5, <1>6

LEMMA SpuriousWakeMainInv == ASSUME IInv, SpuriousWakeMain PROVE IInv'
<1> USE DEF IInv, SpuriousWakeMain
<1>1. TypeOK'
  BY DEF TypeOK, counters, buffers, workerVars, MainPC
<1>2. \A w \in Workers : InStep(w)' /\ (Pending(w)' <=> Pending(w))
  BY DEF InStep, Pending, counters, workerVars
<1>3. CountMatchesPending'
  BY DEF CountMatchesPending, Pending, counters, workerVars
<1>4. MainControl' /\ Exchange'
  BY DEF MainControl, Exchange, counters, buffers, workerVars
<1>5. OpcodeReset' /\ FreedAfterExit'
  BY DEF OpcodeReset, FreedAfterExit, MainControl, counters, workerVars
<1>6. NoWakeupLost'
  BY DEF NoWakeupLost, counters, workerVars
<1> QED
  BY <1>1, <1>2, <1>3, <1>4, <1>5, <1>6

-----------------------------------------------------------------------------
(* Steps of a worker                                                       *)

(* Steps that move one worker's control between the points outside a batch,*)
(* and change nothing else, keep the invariant.                            *)
LEMMA IdleMove ==
  ASSUME IInv, NEW w \in Workers, NEW next \in {"exit", "lock", "waiting", "fetch"},
         wpc[w] \in {"test", "lock", "waiting"},
         wpc' = [wpc EXCEPT ![w] = next],
         next = "exit" => processed,
         next = "fetch" => nCurrentIteration = nNextIteration[w],
         next = "waiting" => wpc[w] = "lock" /\ nCurrentIteration # nNextIteration[w],
         next = "lock" => ~processed \/ wpc[w] = "waiting",
         UNCHANGED <<mrun, counters, opcode, buffers, mainVars,
                     nNextIteration, fetched>>
  PROVE  IInv'
<1> USE DEF IInv
<1>1. TypeOK'
  BY DEF TypeOK, counters, buffers, mainVars, WorkerPC
<1>2. \A v \in Workers : InStep(v)' /\ (Pending(v)' <=> Pending(v))
  BY DEF InStep, Pending, counters, mainVars, TypeOK, MainControl
<1>3. CountMatchesPending'
  <2>1. {v \in Workers : Pending(v)}' = {v \in Workers : Pending(v)}
    BY <1>2
  <2> QED
    BY <2>1 DEF CountMatchesPending, counters
<1>4. MainControl'
  BY <1>2 DEF MainControl, counters, mainVars
<1>5. Exchange'
  BY DEF Exchange, counters, buffers, mainVars, TypeOK
<1>6. OpcodeReset' /\ FreedAfterExit'
  BY DEF OpcodeReset, FreedAfterExit, counters, mainVars, TypeOK
<1>7. NoWakeupLost'
  <2>1. \A v \in Workers \ {w} : wpc'[v] = wpc[v]
    BY DEF TypeOK
  <2>2. wpc'[w] = next
    BY DEF TypeOK
  <2>3. \A v \in Workers : wpc[v] = "notify" => wpc'[v] = "notify"
    BY <2>1, <2>2
  <2>4. (mpc = "waiting" /\ nWorkerCount = 0)' => \E v \in Workers : wpc'[v] = "notify"
    BY <2>3 DEF NoWakeupLost, counters, mainVars
  <2>5. \A v \in Workers :
          /\ (wpc[v] = "waiting" /\ nNextIteration[v] = nCurrentIteration)'
               => (mpc = "notify")'
          /\ (processed /\ nNextIteration[v] = nCurrentIteration + 1)'
               => wpc'[v] \notin {"lock", "waiting"}
    BY <2>1, <2>2 DEF NoWakeupLost, counters, mainVars
  <2> QED
    BY <2>4, <2>5 DEF NoWakeupLost
<1> QED
  BY <1>1, <1>2, <1>3, <1>4, <1>5, <1>6, <1>7

LEMMA TestProcessedInv ==
  ASSUME IInv, NEW w \in Workers, TestProcessed(w) PROVE IInv'
BY IdleMove DEF TestProcessed

LEMMA AwaitDataInv ==
  ASSUME IInv, NEW w \in Workers, AwaitData(w) PROVE IInv'
BY IdleMove DEF AwaitData

LEMMA SpuriousWakeWorkerInv ==
  ASSUME IInv, NEW w \in Workers, SpuriousWakeWorker(w) PROVE IInv'
BY IdleMove DEF SpuriousWakeWorker

(* The worker takes the current iteration: its number catches up, and the  *)
(* opcode it reads is the one published, since main resets it only when no *)
(* worker is pending.                                                      *)
LEMMA FetchInv ==
  ASSUME IInv, NEW w \in Workers, Fetch(w) PROVE IInv'
<1> USE DEF IInv, Fetch
<1>1. TypeOK'
  BY DEF TypeOK, counters, buffers, mainVars, WorkerPC
<1>2. nNextIteration[w] = nCurrentIteration
  BY DEF InStep
<1>3. \A v \in Workers : InStep(v)' /\ (Pending(v)' <=> Pending(v))
  BY <1>2 DEF InStep, Pending, counters, TypeOK
<1>4. CountMatchesPending'
  <2>1. {v \in Workers : Pending(v)}' = {v \in Workers : Pending(v)}
    BY <1>3
  <2> QED
    BY <2>1 DEF CountMatchesPending, counters
<1>5. MainControl'
  BY <1>3 DEF MainControl, counters, mainVars
<1>6. Exchange'
  BY DEF Exchange, counters, buffers, mainVars, TypeOK
<1>7. OpcodeReset' /\ FreedAfterExit'
  BY DEF OpcodeReset, FreedAfterExit, counters, mainVars, TypeOK
<1>8. NoWakeupLost'
  BY DEF NoWakeupLost, counters, mainVars, TypeOK
<1> QED
  BY <1>1, <1>3, <1>4, <1>5, <1>6, <1>7, <1>8

(* The worker fills its slot of the unit the call uses.                    *)
LEMMA RunInv ==
  ASSUME IInv, NEW w \in Workers, Run(w) PROVE IInv'
<1> USE DEF IInv, Run
<1> DEFINE value == [op   |-> fetched[w],
                     data |-> inbuf[Unit(fetched[w])][w]]
<1>1. value \in Cells
  BY UnitType DEF TypeOK, Cells
<1>2. outbuf' \in [Units -> [Workers -> Cells]]
  BY <1>1, UnitType DEF TypeOK
<1>3. TypeOK'
  BY <1>2 DEF TypeOK, counters, mainVars, WorkerPC
<1>4. \A v \in Workers : InStep(v)' /\ (Pending(v)' <=> Pending(v))
  BY DEF InStep, Pending, counters, TypeOK
<1>5. CountMatchesPending'
  <2>1. {v \in Workers : Pending(v)}' = {v \in Workers : Pending(v)}
    BY <1>4
  <2> QED
    BY <2>1 DEF CountMatchesPending, counters
<1>6. MainControl'
  BY <1>4 DEF MainControl, counters, mainVars
<1>7. Pending(w) /\ mpc \notin {"reset", "collect", "ready", "publish"}
  BY DEF InStep, Pending, MainControl
<1>8. Exchange'
  <2>1. CASE processed
    BY <1>7, <2>1 DEF Exchange, counters, mainVars
  <2>2. CASE ~processed
    <3>1. mpc \in {"notify", "wait", "waiting"}
      BY <1>7, <2>2 DEF MainControl, TypeOK, MainPC
    <3>2. /\ fetched[w] = call.op /\ call.op # 0
          /\ inbuf[Unit(call.op)][w] = call.data
          /\ call \in [op : Opcodes, data : Batches]
      BY <2>2, <3>1, OpcodesAssumption DEF Exchange
    <3>3. value = call
      BY <3>2
    <3>4. outbuf' = [outbuf EXCEPT ![Unit(call.op)][w] = call]
      BY <3>2, <3>3
    <3>5. /\ outbuf'[Unit(call.op)][w] = call
          /\ \A v \in Workers \ {w} :
               outbuf'[Unit(call.op)][v] = outbuf[Unit(call.op)][v]
      BY <3>4, UnitType DEF TypeOK
    <3> QED
      BY <2>2, <3>1, <3>5 DEF Exchange, counters, mainVars, TypeOK
  <2> QED
    BY <2>1, <2>2
<1>9. OpcodeReset' /\ FreedAfterExit'
  BY DEF OpcodeReset, FreedAfterExit, counters, mainVars, TypeOK
<1>10. NoWakeupLost'
  BY DEF NoWakeupLost, counters, mainVars, TypeOK
<1> QED
  BY <1>3, <1>4, <1>5, <1>6, <1>8, <1>9, <1>10

(* The decrement removes exactly this worker from the pending ones.        *)
LEMMA FinishInv ==
  ASSUME IInv, NEW w \in Workers, Finish(w) PROVE IInv'
<1> USE DEF IInv, Finish
<1> DEFINE P == {v \in Workers : Pending(v)}
<1>1. /\ w \in P /\ nCurrentIteration > 0
      /\ nNextIteration[w] = nCurrentIteration + 1
  BY DEF InStep, Pending, TypeOK
<1>2. \A v \in Workers : InStep(v)' /\ (Pending(v)' <=> Pending(v) /\ v # w)
  BY <1>1 DEF InStep, Pending, TypeOK
<1>3. /\ IsFiniteSet(P) /\ Cardinality(P) \in Nat
      /\ Cardinality(P \ {w}) = Cardinality(P) - 1
      /\ Cardinality(P \ {w}) \in Nat
  BY <1>1, FS_Subset, FS_RemoveElement, FS_CardinalityType, WorkersAssumption
<1>4. nWorkerCount' = Cardinality(P \ {w}) /\ nWorkerCount' \in 0..N_threads
  BY <1>1, <1>3, ThreadCount DEF CountMatchesPending, TypeOK
<1>5. CountMatchesPending'
  <2>1. {v \in Workers : Pending(v)}' = P \ {w}
    BY <1>2
  <2> QED
    BY <1>4, <2>1 DEF CountMatchesPending
<1>6. TypeOK'
  <2>1. wpc' \in [Workers -> WorkerPC]
    BY DEF TypeOK, WorkerPC
  <2> QED
    BY <1>4, <2>1 DEF TypeOK, buffers, mainVars
<1>7. MainControl'
  BY <1>2 DEF MainControl, mainVars
<1>8. Exchange'
  BY <1>1 DEF Exchange, buffers, mainVars, TypeOK
<1>9. OpcodeReset' /\ FreedAfterExit'
  BY DEF OpcodeReset, FreedAfterExit, mainVars, TypeOK
<1>10. NoWakeupLost'
  BY DEF NoWakeupLost, mainVars, TypeOK
<1> QED
  BY <1>2, <1>5, <1>6, <1>7, <1>8, <1>9, <1>10

LEMMA NotifyOneInv ==
  ASSUME IInv, NEW w \in Workers, NotifyOne(w) PROVE IInv'
<1> USE DEF IInv, NotifyOne
<1>1. TypeOK'
  BY DEF TypeOK, counters, buffers, MainPC, WorkerPC
<1>2. \A v \in Workers : InStep(v)' /\ (Pending(v)' <=> Pending(v))
  BY DEF InStep, Pending, counters, TypeOK
<1>3. CountMatchesPending'
  <2>1. {v \in Workers : Pending(v)}' = {v \in Workers : Pending(v)}
    BY <1>2
  <2> QED
    BY <2>1 DEF CountMatchesPending, counters
<1>4. MainControl'
  BY <1>2 DEF MainControl, counters
<1>5. Exchange'
  BY DEF Exchange, counters, buffers, TypeOK
<1>6. OpcodeReset' /\ FreedAfterExit'
  BY DEF OpcodeReset, FreedAfterExit, MainControl, counters, TypeOK
<1>7. NoWakeupLost'
  BY DEF NoWakeupLost, counters, TypeOK
<1> QED
  BY <1>1, <1>2, <1>3, <1>4, <1>5, <1>6, <1>7

-----------------------------------------------------------------------------
(* Theorems                                                                *)

LEMMA StepInv == IInv /\ [Next]_vars => IInv'
<1> SUFFICES ASSUME IInv, [Next]_vars PROVE IInv'
  OBVIOUS
<1>1. ASSUME NEW op \in Opcodes, NEW data \in Batches, Call(op, data) PROVE IInv'
  BY <1>1, CallInv
<1>2. CASE Release
  BY <1>2, ReleaseInv
<1>3. CASE MainStep
  BY <1>3, PublishInv, NotifyAllInv, AwaitCompleteInv, ResetOpcodeInv,
     CollectInv, JoinInv DEF MainStep
<1>4. ASSUME NEW w \in Workers, WorkerStep(w) PROVE IInv'
  BY <1>4, TestProcessedInv, AwaitDataInv, FetchInv, RunInv, FinishInv,
     NotifyOneInv DEF WorkerStep
<1>5. CASE SpuriousWakeMain
  BY <1>5, SpuriousWakeMainInv
<1>6. ASSUME NEW w \in Workers, SpuriousWakeWorker(w) PROVE IInv'
  BY <1>6, SpuriousWakeWorkerInv
<1>7. CASE UNCHANGED vars
  BY <1>7 DEF vars, counters, buffers, mainVars, workerVars, IInv, TypeOK,
     InStep, CountMatchesPending, Pending, MainControl, Exchange, OpcodeReset,
     FreedAfterExit, NoWakeupLost
<1> QED
  BY <1>1, <1>2, <1>3, <1>4, <1>5, <1>6, <1>7 DEF Next

(* The inductive invariant holds of every behaviour of the pool.           *)
THEOREM Invariance == Spec => []IInv
BY InitInv, StepInv, PTL DEF Spec

(* Every variable keeps its type; in particular the unsigned nWorkerCount  *)
(* never wraps below 0.                                                    *)
THEOREM TypeCorrect == Spec => []TypeOK
<1>1. IInv => TypeOK
  BY DEF IInv
<1> QED
  BY <1>1, Invariance, PTL

(* The countdown always equals the number of workers that owe a decrement. *)
THEOREM CountCorrect == Spec => []CountMatchesPending
<1>1. IInv => CountMatchesPending
  BY DEF IInv
<1> QED
  BY <1>1, Invariance, PTL

(* Main's unlocked accesses to the buffers and the opcode never coincide   *)
(* with a worker's, and the buffers outlive the workers.                   *)
THEOREM NoSharedAccess == Spec => []BuffersOwned
<1>1. IInv => BuffersOwned
  BY DEF IInv, BuffersOwned, MainControl, InStep, Pending
<1> QED
  BY <1>1, Invariance, PTL

(* A countdown that has not reached 0 waits for some worker.               *)
LEMMA SomePending ==
  ASSUME IInv, nCurrentIteration > 0, nWorkerCount # 0
  PROVE  \E w \in Workers : Pending(w)
<1>1. CASE {w \in Workers : Pending(w)} = {}
  BY <1>1, FS_EmptySet DEF IInv, CountMatchesPending
<1> QED
  BY <1>1

(* The pool has no deadlock: when no thread can go on by itself, the       *)
(* buffers are freed, or the release waits for a worker that has left.     *)
THEOREM NoDeadlock == Spec => []NobodyStuck
<1>1. ASSUME IInv, mpc # "freed", ~MainCanMove,
             \A w \in Workers : ~WorkerCanMove(w)
      PROVE  Stranded
  <2>1. ~mrun /\ mpc \in {"waiting", "join"}
    BY <1>1 DEF IInv, MainControl, MainCanMove, TypeOK, MainPC
  <2>2. \A w \in Workers : wpc[w] \in {"waiting", "exit"}
    BY <1>1, <2>1 DEF WorkerCanMove, IInv, TypeOK, WorkerPC
  <2>3. \A w \in Workers : Pending(w) => wpc[w] = "exit"
    BY <1>1, <2>1, <2>2 DEF Pending, IInv, NoWakeupLost
  <2>4. mpc = "waiting"
    <3> SUFFICES ASSUME mpc = "join" PROVE FALSE
      BY <2>1
    <3>1. PICK w \in Workers : wpc[w] = "waiting"
      BY <1>1, <2>2 DEF MainCanMove
    <3>2. processed /\ nNextIteration[w] = nCurrentIteration + 1
      BY <1>1, <2>3, <3>1 DEF IInv, MainControl, InStep, Pending
    <3> QED
      BY <1>1, <3>1, <3>2 DEF IInv, NoWakeupLost
  <2>5. nCurrentIteration > 0 /\ nWorkerCount # 0
    BY <1>1, <2>2, <2>4 DEF IInv, MainControl, NoWakeupLost
  <2>6. PICK w \in Workers : Pending(w)
    BY <1>1, <2>5, SomePending
  <2> QED
    BY <1>1, <2>3, <2>4, <2>6 DEF Stranded, IInv, InStep
<1>2. IInv => NobodyStuck
  BY <1>1 DEF NobodyStuck
<1> QED
  BY <1>2, Invariance, PTL

(* The release is on, and no worker that owes a decrement can still come   *)
(* to its loop test before it.                                             *)
Quiet ==
  processed /\ \A w \in Workers : Pending(w) => wpc[w] \notin {"notify", "test", "exit"}

(* A release that starts when every worker has passed its loop test, and   *)
(* so is quiet, stays so until the end, and then nothing keeps the threads *)
(* from going on: the loop test is the only place where it can be stranded.*)
THEOREM QuietRelease ==
  Spec => [][Quiet => Quiet']_vars /\ [](Quiet /\ mpc # "freed" =>
                                          MainCanMove \/ \E w \in Workers : WorkerCanMove(w))
<1>1. IInv /\ [Next]_vars => [Quiet => Quiet']_vars
  <2> SUFFICES ASSUME IInv, Next, Quiet PROVE Quiet'
    OBVIOUS
  <2> USE DEF Quiet
  <2>1. /\ ~(mpc \in {"ready", "publish"}) /\ nCurrentIteration \in Nat
        /\ \A w \in Workers : /\ nNextIteration[w] \in Nat
                              /\ wpc[w] \in {"run", "done"} =>
                                   nNextIteration[w] = nCurrentIteration + 1
    BY DEF IInv, MainControl, InStep, TypeOK
  <2>2. CASE Release \/ \E op \in Opcodes, data \in Batches : Call(op, data)
    BY <2>1, <2>2 DEF Release, Call
  <2>3. CASE MainStep
    BY <2>1, <2>3 DEF MainStep, Publish, NotifyAll, AwaitComplete, ResetOpcode,
       Collect, Join, Pending, counters, workerVars, IInv, TypeOK
  <2>4. ASSUME NEW w \in Workers, WorkerStep(w) PROVE Quiet'
    <3>1. wpc \in [Workers -> WorkerPC] /\ nNextIteration \in [Workers -> Nat]
      BY DEF IInv, TypeOK
    <3>2. \A v \in Workers \ {w} : (Pending(v)' <=> Pending(v)) /\ wpc'[v] = wpc[v]
      BY <2>4, <3>1 DEF WorkerStep, TestProcessed, AwaitData, Fetch, Run, Finish,
         NotifyOne, Pending, counters
    <3>3. Pending(w)' => wpc'[w] \notin {"notify", "test", "exit"}
      <4>1. CASE AwaitData(w) \/ Fetch(w) \/ Run(w)
        BY <3>1, <4>1 DEF AwaitData, Fetch, Run
      <4>2. CASE TestProcessed(w) \/ NotifyOne(w)
        <5>1. ~Pending(w) /\ nNextIteration[w] # nCurrentIteration
          BY <4>2 DEF TestProcessed, NotifyOne, Pending
        <5>2. UNCHANGED <<nNextIteration, nCurrentIteration>> /\ wpc'[w] \in {"test", "exit", "lock"}
          BY <3>1, <4>2 DEF TestProcessed, NotifyOne, counters
        <5>3. wpc'[w] \notin {"run", "done"}
          BY <5>2
        <5> QED
          BY <5>1, <5>2, <5>3 DEF Pending
      <4>3. CASE Finish(w)
        <5>1. /\ nNextIteration'[w] = nCurrentIteration' + 1
              /\ wpc'[w] \in {"notify", "test"} /\ nCurrentIteration' \in Nat
          BY <2>1, <3>1, <4>3 DEF Finish
        <5> QED
          BY <5>1 DEF Pending
      <4> QED
        BY <2>4, <4>1, <4>2, <4>3 DEF WorkerStep
    <3>4. processed'
      BY <2>4 DEF WorkerStep, TestProcessed, AwaitData, Fetch, Run, Finish,
         NotifyOne, counters
    <3> QED
      BY <3>2, <3>3, <3>4
  <2>5. CASE SpuriousWakeMain
    BY <2>5 DEF SpuriousWakeMain, Pending, counters, workerVars
  <2>6. ASSUME NEW w \in Workers, SpuriousWakeWorker(w) PROVE Quiet'
    BY <2>6 DEF SpuriousWakeWorker, Pending, counters, IInv, TypeOK
  <2> QED
    BY <2>2, <2>3, <2>4, <2>5, <2>6 DEF Next
<1>2. NobodyStuck /\ Quiet /\ mpc # "freed" =>
        MainCanMove \/ \E w \in Workers : WorkerCanMove(w)
  BY DEF NobodyStuck, Stranded, Quiet
<1> QED
  BY <1>1, <1>2, Invariance, NoDeadlock, PTL DEF Spec

(* Releasing a pool that has served a call performs no operation.          *)
THEOREM IdleRelease == Spec => []ReleaseIsIdle
<1>1. IInv => ReleaseIsIdle
  BY DEF IInv, OpcodeReset, ReleaseIsIdle
<1> QED
  BY <1>1, Invariance, PTL

(* No batch is published before every worker has finished the one before.  *)
THEOREM Lockstep == Spec => NoWorkerLapped
<1>1. IInv /\ [Next]_vars =>
        [nCurrentIteration' # nCurrentIteration =>
           \A w \in Workers : nNextIteration[w] = nCurrentIteration']_vars
  <2> SUFFICES ASSUME IInv, Next, nCurrentIteration' # nCurrentIteration
               PROVE  \A w \in Workers : nNextIteration[w] = nCurrentIteration'
    OBVIOUS
  <2>1. Publish \/ Release
    BY DEF Next, Call, MainStep, NotifyAll, AwaitComplete, ResetOpcode, Collect,
       Join, WorkerStep, TestProcessed, AwaitData, Fetch, Run, Finish, NotifyOne,
       SpuriousWakeMain, SpuriousWakeWorker, counters
  <2>2. /\ \A w \in Workers : ~Pending(w)
        /\ nCurrentIteration' = nCurrentIteration + 1
    BY <2>1 DEF IInv, MainControl, Publish, Release
  <2> QED
    BY <2>2 DEF IInv, InStep, Pending
<1> QED
  BY <1>1, Invariance, PTL DEF Spec, NoWorkerLapped

(* The pool implements the batch service: what a call returns is its own   *)
(* operation applied to its own input, in every slot.                      *)
THEOREM Refinement == Spec => ImplementsBatch
<1>1. Init => Batch!Init
  BY DEF Init, Batch!Init, Blank, Batch!Blank
<1>2. IInv /\ [Next]_vars => [Batch!Next]_(Batch!vars)
  <2> SUFFICES ASSUME IInv, [Next]_vars PROVE [Batch!Next]_(Batch!vars)
    OBVIOUS
  <2> USE DEF Batch!vars
  <2>1. ASSUME NEW op \in Opcodes, NEW data \in Batches, Call(op, data)
        PROVE  Batch!Submit(op, data)
    BY <2>1 DEF Call, Batch!Submit, IInv, MainControl, counters
  <2>2. CASE Release
    BY <2>2 DEF Release, Batch!Next, Batch!Close, IInv, MainControl
  <2>3. CASE Collect
    <3>1. outbuf[Unit(call.op)] = [w \in Workers |-> call]
      BY <2>3, UnitType DEF Collect, IInv, Exchange, TypeOK
    <3> QED
      BY <2>3, <3>1 DEF Collect, Batch!Next, Batch!Complete, IInv, MainControl, counters
  <2>4. CASE Publish \/ NotifyAll \/ AwaitComplete \/ ResetOpcode \/ Join
    BY <2>4 DEF Publish, NotifyAll, AwaitComplete, ResetOpcode, Join, counters,
       IInv, MainControl
  <2>5. ASSUME NEW w \in Workers, WorkerStep(w)
        PROVE  UNCHANGED Batch!vars
    BY <2>5 DEF WorkerStep, TestProcessed, AwaitData, Fetch, Run, Finish,
       NotifyOne, counters, mainVars
  <2>6. ASSUME NEW w \in Workers, SpuriousWakeWorker(w)
        PROVE  UNCHANGED Batch!vars
    BY <2>6 DEF SpuriousWakeWorker, counters, mainVars
  <2>7. CASE SpuriousWakeMain
    BY <2>7 DEF SpuriousWakeMain, counters
  <2>8. CASE UNCHANGED vars
    BY <2>8 DEF vars, counters, mainVars
  <2> QED
    BY <2>1, <2>2, <2>3, <2>4, <2>5, <2>6, <2>7, <2>8
       DEF Next, MainStep, Batch!Next
<1> QED
  BY <1>1, <1>2, Invariance, PTL DEF Spec, ImplementsBatch, Batch!Spec

=============================================================================
