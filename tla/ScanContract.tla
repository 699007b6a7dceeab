---------------------------- MODULE ScanContract ----------------------------
(***************************************************************************)
(* What read_dta promises to the query engine, with no threads, ranges,    *)
(* buffers or locks: the rows that satisfy the pushed-down filter are      *)
(* handed out in non-empty chunks, no row twice, and the scan reports its  *)
(* end only when every one of them has been handed out.  A scan that       *)
(* failed may still hand out rows but never reports its end.               *)
(***************************************************************************)
EXTENDS FiniteSets

CONSTANT Rows          \* the observations of the file

VARIABLES
  wanted,              \* the rows that satisfy the filter
  delivered,           \* the rows handed out so far
  status               \* "open", "complete" or "failed"

vars == <<wanted, delivered, status>>

Init ==
  /\ wanted \in SUBSET Rows
  /\ delivered = {}
  /\ status = "open"

Deliver ==
  /\ status # "complete"
  /\ \E chunk \in SUBSET (wanted \ delivered) :
       /\ chunk # {}
       /\ delivered' = delivered \cup chunk
  /\ UNCHANGED <<wanted, status>>

Complete ==
  /\ status = "open"
  /\ delivered = wanted
  /\ status' = "complete"
  /\ UNCHANGED <<wanted, delivered>>

Fail ==
  /\ status = "open"
  /\ status' = "failed"
  /\ UNCHANGED <<wanted, delivered>>

Next == Deliver \/ Complete \/ Fail

Spec == Init /\ [][Next]_vars
=============================================================================
