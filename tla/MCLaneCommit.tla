---------------------------- MODULE MCLaneCommit ----------------------------
(* Small instances of LaneCommit for TLC.                                  *)
EXTENDS LaneCommit

CONSTANTS l1, l2
=============================================================================
