---------------------------- MODULE MCQueryTurn ----------------------------
(* The main query may stream two calls in a turn, a child one: enough for  *)
(* results out of order and for pauses of two queries in the table.        *)
EXTENDS QueryTurn

=============================================================================
