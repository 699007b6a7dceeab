--------------------------- MODULE CopyContract ---------------------------
(***************************************************************************)
(* What COPY ... TO promises a reader of the file it writes, with no       *)
(* layout, strings, mutex or order of writes: rows are accepted, and the   *)
(* table of exactly the accepted rows appears in one step, unless the COPY *)
(* failed.                                                                 *)
(***************************************************************************)
EXTENDS Sequences

CONSTANT Rows          \* the rows as a reader sees them

VARIABLES
  accepted,            \* the rows taken from the query, in their order
  table,               \* what a reader of the file sees
  failed               \* the COPY has thrown

vars == <<accepted, table, failed>>

Unreadable == [ok |-> FALSE, rows |-> <<>>]

Init ==
  /\ accepted = <<>>
  /\ table = Unreadable
  /\ failed = FALSE

Accept ==
  /\ table = Unreadable
  /\ \E r \in Rows : accepted' = Append(accepted, r)
  /\ UNCHANGED <<table, failed>>

Publish ==
  /\ table = Unreadable
  /\ ~failed
  /\ table' = [ok |-> TRUE, rows |-> accepted]
  /\ UNCHANGED <<accepted, failed>>

Fail ==
  /\ table = Unreadable
  /\ failed' = TRUE
  /\ UNCHANGED <<accepted, table>>

Next == Accept \/ Publish \/ Fail

Spec == Init /\ [][Next]_vars
=============================================================================
