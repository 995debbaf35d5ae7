----------------------------- MODULE RowStore -----------------------------
(***************************************************************************)
(* What TSet_SetUp and TSet_Retrieve of mainwindow.cpp promise EDB_SetUp   *)
(* and EDB_Search: one cell per keyword and position; each call of the     *)
(* set-up fills one cell, a retrieval reads a keyword's cells from the     *)
(* first to the first that is flagged as the last.  A cell that was never  *)
(* filled reads as junk with either flag.  How rows become Redis keys is   *)
(* the subject of TSet, which implements this specification.               *)
(***************************************************************************)
EXTENDS Integers

CONSTANTS Keywords,
          Room,      (* cells of a row                                     *)
          Contents,  (* what a cell may hold                               *)
          Nil,       (* an empty cell, and no reply                        *)
          Junk       (* what an empty cell reads as                        *)

VARIABLES rows,      (* the cells                                          *)
          reply      (* what the latest retrieval returned                 *)

vars == <<rows, reply>>

Cells  == 0..Room-1
Values == [last : {0, 1}, ent : Contents]

Init ==
  /\ rows = [k \in Keywords |-> [n \in Cells |-> Nil]]
  /\ reply = Nil

Put(k, n, v) ==
  /\ rows' = [rows EXCEPT ![k][n] = v]
  /\ UNCHANGED reply

Clear ==
  /\ rows' = [k \in Keywords |-> [n \in Cells |-> Nil]]
  /\ UNCHANGED reply

(* The cells before the last one read are not flagged, that one is.        *)
EndsAt(k, n) ==
  /\ \A m \in 0..n-1 : rows[k][m] # Nil => rows[k][m].last = 0
  /\ rows[k][n] # Nil => rows[k][n].last = 1

Read(k, n) == IF rows[k][n] = Nil THEN Junk ELSE rows[k][n].ent

Retrieve(k) ==
  /\ \E n \in Cells :
       /\ EndsAt(k, n)
       /\ reply' = [kw |-> k, row |-> [m \in 0..n |-> Read(k, m)]]
  /\ UNCHANGED rows

Forget ==
  /\ reply' = Nil
  /\ UNCHANGED rows

(* Some value is put into some cell.                                       *)
PutSome(k, n) ==
  /\ rows'[k][n] \in Values
  /\ Put(k, n, rows'[k][n])

Next ==
  \/ \E k \in Keywords, n \in Cells : PutSome(k, n)
  \/ Clear
  \/ \E k \in Keywords : Retrieve(k)
  \/ Forget

Spec == Init /\ [][Next]_vars

=============================================================================
