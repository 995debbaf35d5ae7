----------------------------- MODULE WorkerPool -----------------------------
(***************************************************************************)
(* The thread pool of mainwindow.cpp: one main thread, which runs EDB_SetUp *)
(* or EDB_Search and calls FPGA_* / MGDB_QUERY, and N_threads workers.  The *)
(* threads share the mutex mrun, the condition variables dataReady and     *)
(* workComplete, the counters nWorkerCount and nCurrentIteration, the flag *)
(* processed, the word *GL_OPCODE and one input and one output buffer per  *)
(* functional unit, of which worker w owns slot w.                         *)
(*                                                                         *)
(* A critical section that touches only what mrun protects is one step.    *)
(* What the code reads or writes outside mrun (processed in the loop test, *)
(* *GL_OPCODE, the slots) has a step of its own.  The initial state is the *)
(* return of SetUpThreads: the workers are created, none has run yet.      *)
(***************************************************************************)
EXTENDS Integers, FiniteSets

CONSTANTS Workers,  (* the worker threads                                  *)
          Opcodes,  (* the operations main asks for                        *)
          Batches,  (* the contents of an input batch                      *)
          None,     (* uninitialised or zeroed content                     *)
          MaxCalls  (* bound of the model: calls made before ReleaseThreads*)

ASSUME WorkersAssumption == IsFiniteSet(Workers) /\ Workers # {}
ASSUME OpcodesAssumption == Opcodes \subseteq 1..9
ASSUME NoneAssumption    == None \notin Batches
ASSUME CallsAssumption   == MaxCalls \in Nat

N_threads == Cardinality(Workers)

VARIABLES
  mrun,               (* TRUE while main holds the mutex between two steps *)
  nWorkerCount, nCurrentIteration, processed,
  opcode,             (* *GL_OPCODE                                        *)
  inbuf, outbuf,      (* the GL_* buffers: unit, then slot                 *)
  mpc, call, result,  (* main: control, arguments, what was copied out     *)
  wpc, nNextIteration, fetched   (* worker: control and locals             *)

mainVars   == <<mpc, call, result>>
workerVars == <<wpc, nNextIteration, fetched>>
buffers    == <<inbuf, outbuf>>
counters   == <<nWorkerCount, nCurrentIteration, processed>>
vars == <<mrun, counters, opcode, buffers, mainVars, workerVars>>

(* Arguments of a call, and content of an output slot: an operation and    *)
(* what it was applied to.                                                 *)
Cells == [op : Opcodes \cup {0}, data : Batches \cup {None}]
Blank == [op |-> 0, data |-> None]
Units == {"AES", "HASH", "BLM", "PRD", "INV", "SMP", "MGDB"}

(* The buffers an operation works in: AES and PRF share theirs, and so do  *)
(* the two scalar multiplications.                                         *)
Unit(op) ==
  CASE op \in {1, 9} -> "AES"
    [] op = 2        -> "HASH"
    [] op = 3        -> "BLM"
    [] op = 4        -> "PRD"
    [] op = 5        -> "INV"
    [] op \in {6, 7} -> "SMP"
    [] OTHER         -> "MGDB"

MainPC   == {"ready", "publish", "notify", "wait", "waiting", "reset",
             "collect", "join", "freed"}
WorkerPC == {"test", "lock", "waiting", "fetch", "run", "done", "notify",
             "exit"}

Init ==
  /\ mrun = FALSE
  /\ nWorkerCount = N_threads
  /\ nCurrentIteration = 0
  /\ processed = FALSE
  /\ opcode \in Opcodes \cup {0}        \* new unsigned int: not initialised
  /\ inbuf  = [u \in Units |-> [w \in Workers |-> None]]
  /\ outbuf = [u \in Units |-> [w \in Workers |-> Blank]]
  /\ mpc = "ready"
  /\ call = Blank
  /\ result = [w \in Workers |-> Blank]
  /\ wpc = [w \in Workers |-> "test"]
  /\ nNextIteration = [w \in Workers |-> 1]
  /\ fetched = [w \in Workers |-> 0]

-----------------------------------------------------------------------------
(* Main: FPGA_* and MGDB_QUERY                                             *)

(* Mutant of Call: the input buffer keeps the previous call's arguments.   *)
CallNoCopy(op, data) ==
  /\ mpc = "ready" /\ ~mrun /\ nCurrentIteration < MaxCalls
  /\ mrun' = TRUE
  /\ mpc' = "publish"
  /\ call' = [op |-> op, data |-> data]
  /\ outbuf' = [outbuf EXCEPT ![Unit(op)] = [w \in Workers |-> Blank]]
  /\ UNCHANGED <<counters, opcode, inbuf, result, workerVars>>

(* Lock mrun; zero the output buffer and copy the arguments in.            *)
Call(op, data) ==
  /\ mpc = "ready" /\ ~mrun /\ nCurrentIteration < MaxCalls
  /\ mrun' = TRUE
  /\ mpc' = "publish"
  /\ call' = [op |-> op, data |-> data]
  /\ inbuf'  = [inbuf  EXCEPT ![Unit(op)] = [w \in Workers |-> data]]
  /\ outbuf' = [outbuf EXCEPT ![Unit(op)] = [w \in Workers |-> Blank]]
  /\ UNCHANGED <<counters, opcode, result, workerVars>>

(* Set the opcode and the counters; unlock.                                *)
Publish ==
  /\ mpc = "publish"
  /\ opcode' = call.op
  /\ nWorkerCount' = N_threads
  /\ nCurrentIteration' = nCurrentIteration + 1
  /\ mrun' = FALSE
  /\ mpc' = "notify"
  /\ UNCHANGED <<processed, buffers, call, result, workerVars>>

(* Mutant of NotifyAll: notify_one.                                        *)
NotifyAllOne ==
  /\ mpc = "notify"
  /\ \/ \E w \in Workers : /\ wpc[w] = "waiting"
                           /\ wpc' = [wpc EXCEPT ![w] = "lock"]
     \/ /\ \A w \in Workers : wpc[w] # "waiting"
        /\ UNCHANGED wpc
  /\ mpc' = "wait"
  /\ UNCHANGED <<mrun, counters, opcode, buffers, call, result,
                 nNextIteration, fetched>>

(* dataReady.notify_all()                                                  *)
NotifyAll ==
  /\ mpc = "notify"
  /\ wpc' = [w \in Workers |-> IF wpc[w] = "waiting" THEN "lock" ELSE wpc[w]]
  /\ mpc' = "wait"
  /\ UNCHANGED <<mrun, counters, opcode, buffers, call, result,
                 nNextIteration, fetched>>

(* Mutant of AwaitComplete: wait without a predicate.                      *)
AwaitCompleteOnce ==
  /\ mpc = "wait" /\ ~mrun
  /\ mpc' \in {"waiting", IF processed THEN "join" ELSE "reset"}
  /\ UNCHANGED <<mrun, counters, opcode, buffers, call, result, workerVars>>

(* workComplete.wait(lock, nWorkerCount == 0), under mrun; the wait of     *)
(* ReleaseThreads is followed by the joins, a call's by the reset.         *)
AwaitComplete ==
  /\ mpc = "wait" /\ ~mrun
  /\ \/ nWorkerCount = 0 /\ processed  /\ mpc' = "join"
     \/ nWorkerCount = 0 /\ ~processed /\ mpc' = "reset"
     \/ nWorkerCount # 0 /\ mpc' = "waiting"
  /\ UNCHANGED <<mrun, counters, opcode, buffers, call, result, workerVars>>

(* Mutant of ResetOpcode: the opcode of the call stays.                    *)
ResetOpcodeSkipped ==
  /\ mpc = "reset"
  /\ mpc' = "collect"
  /\ UNCHANGED <<mrun, counters, opcode, buffers, call, result, workerVars>>

(* *GL_OPCODE = 0, without the lock.                                       *)
ResetOpcode ==
  /\ mpc = "reset"
  /\ opcode' = 0
  /\ mpc' = "collect"
  /\ UNCHANGED <<mrun, counters, buffers, call, result, workerVars>>

(* Copy the output buffer to the caller, without the lock; return.         *)
Collect ==
  /\ mpc = "collect"
  /\ result' = outbuf[Unit(call.op)]
  /\ mpc' = "ready"
  /\ UNCHANGED <<mrun, counters, opcode, buffers, call, workerVars>>

-----------------------------------------------------------------------------
(* Main: ReleaseThreads                                                    *)

(* Mutant of Release: the workers are not given an iteration to wake for.  *)
ReleaseNoIteration ==
  /\ mpc = "ready" /\ ~mrun
  /\ nWorkerCount' = N_threads
  /\ processed' = TRUE
  /\ mpc' = "notify"
  /\ UNCHANGED <<mrun, nCurrentIteration, opcode, buffers, call, result,
                 workerVars>>

Release ==
  /\ mpc = "ready" /\ ~mrun
  /\ nWorkerCount' = N_threads
  /\ processed' = TRUE
  /\ nCurrentIteration' = nCurrentIteration + 1
  /\ mpc' = "notify"
  /\ UNCHANGED <<mrun, opcode, buffers, call, result, workerVars>>

(* Mutant of Join: the buffers are deleted without joining the threads.    *)
JoinSkipped ==
  /\ mpc = "join"
  /\ mpc' = "freed"
  /\ UNCHANGED <<mrun, counters, opcode, buffers, call, result, workerVars>>

(* Join every thread and delete the buffers.                               *)
Join ==
  /\ mpc = "join"
  /\ \A w \in Workers : wpc[w] = "exit"
  /\ mpc' = "freed"
  /\ UNCHANGED <<mrun, counters, opcode, buffers, call, result, workerVars>>

-----------------------------------------------------------------------------
(* WorkerThread                                                            *)

(* while(!processed), read without the lock.                               *)
TestProcessed(w) ==
  /\ wpc[w] = "test"
  /\ wpc' = [wpc EXCEPT ![w] = IF processed THEN "exit" ELSE "lock"]
  /\ UNCHANGED <<mrun, counters, opcode, buffers, mainVars,
                 nNextIteration, fetched>>

(* Mutant of AwaitData: wait without a predicate.                          *)
AwaitDataOnce(w) ==
  /\ wpc[w] = "lock" /\ ~mrun
  /\ \E next \in {"fetch", "waiting"} : wpc' = [wpc EXCEPT ![w] = next]
  /\ UNCHANGED <<mrun, counters, opcode, buffers, mainVars,
                 nNextIteration, fetched>>

(* dataReady.wait(lock, nCurrentIteration == nNextIteration); lock.unlock()*)
AwaitData(w) ==
  /\ wpc[w] = "lock" /\ ~mrun
  /\ wpc' = [wpc EXCEPT ![w] =
               IF nCurrentIteration = nNextIteration[w]
               THEN "fetch" ELSE "waiting"]
  /\ UNCHANGED <<mrun, counters, opcode, buffers, mainVars,
                 nNextIteration, fetched>>

(* ++nNextIteration, then the opcode tests, without the lock.              *)
Fetch(w) ==
  /\ wpc[w] = "fetch"
  /\ nNextIteration' = [nNextIteration EXCEPT ![w] = @ + 1]
  /\ fetched' = [fetched EXCEPT ![w] = opcode]
  /\ wpc' = [wpc EXCEPT ![w] = "run"]
  /\ UNCHANGED <<mrun, counters, opcode, buffers, mainVars>>

(* The operation on the worker's slot; opcode 0 sleeps a millisecond.      *)
Run(w) ==
  /\ wpc[w] = "run"
  /\ wpc' = [wpc EXCEPT ![w] = "done"]
  /\ outbuf' = IF fetched[w] = 0 THEN outbuf
               ELSE [outbuf EXCEPT ![Unit(fetched[w])][w] =
                       [op   |-> fetched[w],
                        data |-> inbuf[Unit(fetched[w])][w]]]
  /\ UNCHANGED <<mrun, counters, opcode, inbuf, mainVars,
                 nNextIteration, fetched>>

(* lock.lock(); --nWorkerCount == 0 decides whether to notify.             *)
Finish(w) ==
  /\ wpc[w] = "done" /\ ~mrun
  /\ nWorkerCount' = nWorkerCount - 1
  /\ wpc' = [wpc EXCEPT ![w] = IF nWorkerCount' = 0 THEN "notify" ELSE "test"]
  /\ UNCHANGED <<mrun, nCurrentIteration, processed, opcode, buffers,
                 mainVars, nNextIteration, fetched>>

(* workComplete.notify_one(), after the unlock.                            *)
NotifyOne(w) ==
  /\ wpc[w] = "notify"
  /\ wpc' = [wpc EXCEPT ![w] = "test"]
  /\ mpc' = IF mpc = "waiting" THEN "wait" ELSE mpc
  /\ UNCHANGED <<mrun, counters, opcode, buffers, call, result,
                 nNextIteration, fetched>>

(* std::condition_variable::wait may return without a notification.        *)
SpuriousWakeMain ==
  /\ mpc = "waiting"
  /\ mpc' = "wait"
  /\ UNCHANGED <<mrun, counters, opcode, buffers, call, result, workerVars>>

SpuriousWakeWorker(w) ==
  /\ wpc[w] = "waiting"
  /\ wpc' = [wpc EXCEPT ![w] = "lock"]
  /\ UNCHANGED <<mrun, counters, opcode, buffers, mainVars,
                 nNextIteration, fetched>>

-----------------------------------------------------------------------------
MainStep ==
  Publish \/ NotifyAll \/ AwaitComplete \/ ResetOpcode \/ Collect \/ Join

WorkerStep(w) ==
  \/ TestProcessed(w) \/ AwaitData(w) \/ Fetch(w)
  \/ Run(w) \/ Finish(w) \/ NotifyOne(w)

Next ==
  \/ \E op \in Opcodes, data \in Batches : Call(op, data)
  \/ Release
  \/ MainStep
  \/ \E w \in Workers : WorkerStep(w)
  \/ SpuriousWakeMain
  \/ \E w \in Workers : SpuriousWakeWorker(w)

Spec == Init /\ [][Next]_vars

(* Every thread that can run eventually does.  Nothing makes main call or  *)
(* release, and nothing makes a spurious wakeup happen.                    *)
Fairness == WF_vars(MainStep) /\ \A w \in Workers : WF_vars(WorkerStep(w))

FairSpec == Spec /\ Fairness

-----------------------------------------------------------------------------
(* Properties                                                              *)

TypeOK ==
  /\ mrun \in BOOLEAN /\ processed \in BOOLEAN
  /\ nWorkerCount \in 0..N_threads
  /\ nCurrentIteration \in Nat
  /\ opcode \in Opcodes \cup {0}
  /\ inbuf \in [Units -> [Workers -> Batches \cup {None}]]
  /\ outbuf \in [Units -> [Workers -> Cells]]
  /\ mpc \in MainPC
  /\ call \in Cells
  /\ result \in [Workers -> Cells]
  /\ wpc \in [Workers -> WorkerPC]
  /\ nNextIteration \in [Workers -> Nat]
  /\ fetched \in [Workers -> Opcodes \cup {0}]

(* Worker w owes a decrement of nWorkerCount for the current iteration.    *)
Pending(w) ==
  \/ nNextIteration[w] = nCurrentIteration
  \/ nNextIteration[w] = nCurrentIteration + 1 /\ wpc[w] \in {"run", "done"}

(* Once a batch was published, the countdown equals the number of workers  *)
(* that still owe a decrement for it: none is counted twice, none is       *)
(* skipped, whatever the order of wakeups and loop tests.                  *)
CountMatchesPending ==
  nCurrentIteration > 0 =>
    nWorkerCount = Cardinality({w \in Workers : Pending(w)})

(* ReleaseThreads deletes the buffers only when every worker has returned. *)
FreedAfterExit ==
  mpc = "freed" => \A w \in Workers : wpc[w] = "exit"

(* Main writes the input buffers, the opcode and the output buffers, and   *)
(* reads the results, only while no worker reads or writes them, although  *)
(* neither side holds the mutex when it does (the reset, the copy out);    *)
(* and it deletes them only when no worker is left.                        *)
BuffersOwned ==
  /\ mpc \in {"publish", "reset", "collect"} =>
       \A w \in Workers : wpc[w] \notin {"fetch", "run"}
  /\ FreedAfterExit

(* A thread that can go on by itself: it is neither asleep, nor kept out by *)
(* the mutex, nor waiting in a join.                                       *)
MainCanMove ==
  \/ mpc \in {"publish", "notify", "reset", "collect"}
  \/ mpc \in {"ready", "wait"} /\ ~mrun
  \/ mpc = "join" /\ \A w \in Workers : wpc[w] = "exit"
WorkerCanMove(w) ==
  \/ wpc[w] \in {"test", "fetch", "run", "notify"}
  \/ wpc[w] \in {"lock", "done"} /\ ~mrun

(* The release waits for a worker that has left.                           *)
Stranded ==
  processed /\ mpc = "waiting" /\ \E w \in Workers : wpc[w] = "exit" /\ Pending(w)

(* The threads never all wait for one another, nor sleep while what they   *)
(* wait for has come, unless ReleaseThreads waits for a worker that left   *)
(* at its loop test: no spurious wakeup is needed for the pool to go on.   *)
NobodyStuck ==
  \/ mpc = "freed" \/ Stranded
  \/ MainCanMove
  \/ \E w \in Workers : WorkerCanMove(w)

(* The extra iteration by which ReleaseThreads wakes the workers performs  *)
(* no operation, provided some call was made before: the opcode is then 0. *)
ReleaseIsIdle ==
  \A w \in Workers :
    (processed /\ nCurrentIteration > 1 /\ wpc[w] = "run") => fetched[w] = 0

(* A batch is published only after every worker has finished the one       *)
(* before: no worker is lapped, so none ever misses an iteration.          *)
NoWorkerLapped ==
  [][nCurrentIteration' # nCurrentIteration =>
       \A w \in Workers : nNextIteration[w] = nCurrentIteration']_vars

(* The worker w is in step with main: it waits for the current iteration,   *)
(* works on it, or has finished it.                                        *)
InStep(w) ==
  /\ nNextIteration[w] \in {nCurrentIteration, nCurrentIteration + 1}
  /\ nCurrentIteration = 0 =>
       nNextIteration[w] = 1 /\ wpc[w] \in {"test", "lock", "waiting"}
  /\ wpc[w] = "fetch" => nNextIteration[w] = nCurrentIteration
  /\ wpc[w] \in {"run", "done"} => nNextIteration[w] = nCurrentIteration + 1
  /\ wpc[w] = "exit" => processed

(* Where main is, and what it may conclude there.                          *)
MainControl ==
  /\ mrun <=> mpc = "publish"
  /\ processed => mpc \in {"notify", "wait", "waiting", "join", "freed"}
  /\ mpc \in {"join", "freed"} => processed
  /\ mpc \notin {"ready", "publish"} => nCurrentIteration > 0
  /\ mpc \in {"ready", "publish", "reset", "collect"} =>
       \A w \in Workers : ~Pending(w)

(* While a call is served, its operation and input are in place; a worker  *)
(* that has finished has left this call's value in its slot.               *)
Exchange ==
  /\ (~processed /\ mpc # "ready") => call \in [op : Opcodes, data : Batches]
  /\ (~processed /\ mpc \in {"publish", "notify", "wait", "waiting"}) =>
       \A w \in Workers : inbuf[Unit(call.op)][w] = call.data
  /\ (~processed /\ mpc \in {"notify", "wait", "waiting"}) =>
       /\ opcode = call.op
       /\ \A w \in Workers :
            /\ wpc[w] = "run" => fetched[w] = call.op
            /\ (nNextIteration[w] = nCurrentIteration + 1 /\ wpc[w] # "run") =>
                 outbuf[Unit(call.op)][w] = call
  /\ mpc \in {"reset", "collect"} =>
       \A w \in Workers : outbuf[Unit(call.op)][w] = call

(* Between calls, and throughout the release of a pool that served one,    *)
(* the opcode is 0.                                                        *)
OpcodeReset ==
  /\ mpc = "collect" => opcode = 0
  /\ (mpc \in {"ready", "publish"} /\ nCurrentIteration > 0) => opcode = 0
  /\ (processed /\ nCurrentIteration > 1) =>
       opcode = 0 /\ \A w \in Workers : wpc[w] = "run" => fetched[w] = 0

(* Whoever sleeps has nothing to wake for, or its notification is on the   *)
(* way; and nobody goes to sleep after its work for the release.           *)
NoWakeupLost ==
  /\ (mpc = "waiting" /\ nWorkerCount = 0) => \E w \in Workers : wpc[w] = "notify"
  /\ \A w \in Workers :
       /\ (wpc[w] = "waiting" /\ nNextIteration[w] = nCurrentIteration) =>
            mpc = "notify"
       /\ (processed /\ nNextIteration[w] = nCurrentIteration + 1) =>
            wpc[w] \notin {"lock", "waiting"}

(* The inductive invariant from which the properties above follow: main's  *)
(* unlocked accesses are safe because the counter, the workers' private    *)
(* iteration numbers and main's control agree at every step.               *)
IInv ==
  /\ TypeOK
  /\ \A w \in Workers : InStep(w)
  /\ CountMatchesPending
  /\ MainControl
  /\ Exchange
  /\ OpcodeReset
  /\ FreedAfterExit
  /\ NoWakeupLost

(* The pool implements the service its callers rely on.                    *)
Batch == INSTANCE ParallelBatch
           WITH Slots <- Workers,
                phase <- IF processed THEN "closed"
                         ELSE IF mpc = "ready" THEN "idle" ELSE "busy"
ImplementsBatch == Batch!Spec

(* Every call returns: no wakeup is lost, whether it comes early, late or  *)
(* for nothing.                                                            *)
EveryCallReturns == (mpc = "publish") ~> (mpc = "ready")

(* ReleaseThreads returns if it is called when every worker has passed its *)
(* loop test: only a worker still on its way to that test can see the flag *)
(* and leave without the decrement that main then waits for.               *)
QuietReleaseReturns ==
  (processed /\ mpc = "notify" /\ \A w \in Workers : wpc[w] \in {"lock", "waiting"})
    ~> (mpc = "freed")

(* ReleaseThreads returns after calls were made, as the set-up program does *)
(* before Sys_Clear, so that the program ends.  It does not hold: a worker  *)
(* that has finished the last call may leave at its loop test.             *)
ReleaseReturns == (processed /\ nCurrentIteration > 1) ~> (mpc = "freed")

=============================================================================
