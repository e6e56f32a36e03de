---------------------------- MODULE OrderedScan ----------------------------
(***************************************************************************)
(* What a range scan of a B-tree promises its caller (btree.rs, scan_from  *)
(* and walk_leaves): the records it is asked for, each once and in key     *)
(* order, up to the one at which the caller stops; the scan may fail at    *)
(* any point, and has then delivered a prefix.                             *)
(***************************************************************************)
EXTENDS Naturals, Sequences

CONSTANT Records       \* what a tree may hold

VARIABLES
    expected,          \* the records to deliver, in order
    delivered,         \* those delivered so far
    status             \* "running", "ok" or "failed"

Init == expected \in Seq(Records) /\ delivered = <<>> /\ status = "running"

Deliver ==
    /\ status = "running" /\ Len(delivered) < Len(expected)
    /\ delivered' = Append(delivered, expected[Len(delivered) + 1])
    /\ \/ status' = status
       \/ delivered' = expected /\ status' = "ok"   \* the caller stops at the last
    /\ UNCHANGED expected

Finish ==
    /\ status = "running" /\ Len(delivered) = Len(expected)
    /\ status' = "ok" /\ UNCHANGED <<expected, delivered>>

Fail == status = "running" /\ status' = "failed" /\ UNCHANGED <<expected, delivered>>

Next == Deliver \/ Finish \/ Fail

Spec == Init /\ [][Next]_<<expected, delivered, status>>
============================================================================
