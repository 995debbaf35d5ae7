------------------------------ MODULE MetaFile ------------------------------
(***************************************************************************)
(* From the plain database file to the file of the meta-keyword database:  *)
(* DB_ReadFromFileToDatabase, the ids that DB_GenMKW gives a meta-keyword, *)
(* and DB_WriteFromDatabaseToFile.  Ids are hexadecimal in both files and  *)
(* numbers in between.  Which meta-keywords there are is in MetaKeyword.   *)
(***************************************************************************)
EXTENDS Integers, Sequences

CONSTANTS N_KW,        (* lines of the plain database                      *)
          ID_HEX_LEN,  (* digits of an id                                  *)
          Tokens       (* ids that occur, as sequences of digits 0..15     *)

Keywords == 1..N_KW

(* A meta-keyword stands for some of the keywords.                         *)
MetaKeywords == SUBSET Keywords \ {{}}

VARIABLES
  plain_file,          (* ids of each line                                 *)
  raw_db,              (* numbers read from the lines so far               *)
  meta_db,             (* numbers of each meta-keyword                     *)
  meta_file,           (* ids of the meta-keywords written so far          *)
  pc

vars == <<plain_file, raw_db, meta_db, meta_file, pc>>

Empty == [m \in {} |-> {}]

Init ==
  /\ plain_file \in [Keywords -> SUBSET Tokens]
  /\ raw_db = <<>> /\ meta_db = Empty /\ meta_file = Empty
  /\ pc = "read"

(* The value of the first k digits in the given base.                      *)
Value(t, k, base) ==
  LET val[n \in 0..k] == IF n = 0 THEN 0 ELSE base * val[n-1] + t[n]
  IN val[k]

(* stoll reads decimal digits up to the first letter ...                   *)
Digits(t) ==
  CHOOSE k \in 0..ID_HEX_LEN :
    /\ \A j \in 1..k : t[j] <= 9
    /\ k < ID_HEX_LEN => t[k+1] > 9
stoll(t) == Value(t, Digits(t), 10)

(* ... and throws if there are none.                                       *)
ReadLine ==
  LET line == plain_file[Len(raw_db) + 1]
  IN /\ pc = "read" /\ Len(raw_db) < N_KW
     /\ \/ /\ \A t \in line : Digits(t) > 0
           /\ raw_db' = Append(raw_db, {stoll(t) : t \in line})
           /\ UNCHANGED pc
        \/ /\ \E t \in line : Digits(t) = 0
           /\ pc' = "thrown"
           /\ UNCHANGED raw_db
     /\ UNCHANGED <<plain_file, meta_db, meta_file>>

GenIds ==
  /\ pc = "read" /\ Len(raw_db) = N_KW
  /\ meta_db' = [m \in MetaKeywords |-> UNION {raw_db[k] : k \in m}]
  /\ pc' = "write"
  /\ UNCHANGED <<plain_file, raw_db, meta_file>>

(* std::hex with setw(ID_HEX_LEN) and setfill('0')                         *)
Hex(p) == [j \in 1..ID_HEX_LEN |-> (p \div 16^(ID_HEX_LEN - j)) % 16]

WriteRow(m) ==
  /\ pc = "write" /\ m \notin DOMAIN meta_file
  /\ meta_file' = [x \in DOMAIN meta_file \cup {m} |->
                     IF x = m THEN {Hex(p) : p \in meta_db[m]}
                     ELSE meta_file[x]]
  /\ UNCHANGED <<plain_file, raw_db, meta_db, pc>>

Next == ReadLine \/ GenIds \/ \E m \in MetaKeywords : WriteRow(m)

Spec == Init /\ [][Next]_vars

-----------------------------------------------------------------------------
(* A row of the meta-keyword database holds the ids that the plain         *)
(* database has for its keywords, so that the two databases speak of the   *)
(* same documents.  It does not hold: an id is read up to its first letter *)
(* in decimal, and written in hexadecimal.                                 *)
IdsPreserved ==
  \A m \in DOMAIN meta_file :
    meta_file[m] = UNION {plain_file[k] : k \in m}

=============================================================================
