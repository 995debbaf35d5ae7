-------------------------- MODULE MCSearchProgram --------------------------
(***************************************************************************)
(* Four meta-keywords with rows of one, two, two and three ids, a filter   *)
(* that also holds one wrong tag, and vectors of every shape of bins.      *)
(***************************************************************************)
EXTENDS SearchProgram, TLC

CONSTANTS k1, k2, k3, k4, d1, d2, d3

MCKeywords == {k1, k2, k3, k4}
MCIds      == {d1, d2, d3}

MCdb == (k1 :> <<d1, d2>>) @@ (k2 :> <<d2>>)
          @@ (k3 :> <<d2, d3, d1>>) @@ (k4 :> <<d3, d1>>)

MCtags == {t \in MCKeywords \X MCIds : t[2] \in RowIds(MCdb[t[1]])}
            \cup {<<k2, d3>>}

Entry(k, b) == [tv |-> k, bv |-> b]
Whole   == <<Entry(k1, 1), Entry(k3, 1)>>
Mixed   == <<Entry(k1, 1), Entry(k4, 2), Entry(k2, 2)>>
LastOne == <<Entry(k3, 1), Entry(k4, 1), Entry(k2, 2)>>
Apart   == <<Entry(k1, 1), Entry(k4, 2), Entry(k1, 1)>>
Single  == <<Entry(k4, 1)>>
Shapes  == {Whole, Mixed, LastOne, Apart, Single, <<>>}

Upto(n, S) == UNION {[1..m -> S] : m \in 0..n}
MCFiles == Upto(4, Shapes) \cup Upto(6, {Mixed, LastOne})
=============================================================================
