--------------------------- MODULE ParallelBatch ---------------------------
(***************************************************************************)
(* What the FPGA_* functions and MGDB_QUERY of mainwindow.cpp promise      *)
(* their callers: a call applies one operation to every slot of its input  *)
(* batch and returns all the results; calls are served one at a time, and  *)
(* none is served once the service is closed.  How threads do it is the    *)
(* subject of WorkerPool, which implements this specification.             *)
(***************************************************************************)
CONSTANTS Slots,    (* one slot of the batch per thread                    *)
          Opcodes,  (* operations a caller may ask for                     *)
          Batches,  (* contents of an input batch                          *)
          None      (* no content: an uninitialised or a zeroed slot       *)

VARIABLES phase,    (* "idle", "busy" or "closed"                          *)
          call,     (* the arguments of the latest call                    *)
          result    (* what the latest completed call returned, per slot   *)

vars == <<phase, call, result>>

Blank == [op |-> 0, data |-> None]

Init ==
  /\ phase = "idle"
  /\ call = Blank
  /\ result = [s \in Slots |-> Blank]

Submit(op, data) ==
  /\ phase = "idle"
  /\ phase' = "busy"
  /\ call' = [op |-> op, data |-> data]
  /\ UNCHANGED result

(* Every slot holds this operation's value on this call's input.           *)
Complete ==
  /\ phase = "busy"
  /\ phase' = "idle"
  /\ result' = [s \in Slots |-> call]
  /\ UNCHANGED call

Close ==
  /\ phase = "idle"
  /\ phase' = "closed"
  /\ UNCHANGED <<call, result>>

Next ==
  \/ \E op \in Opcodes, data \in Batches : Submit(op, data)
  \/ Complete
  \/ Close

Spec == Init /\ [][Next]_vars

=============================================================================
