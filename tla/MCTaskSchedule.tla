--------------------------- MODULE MCTaskSchedule ---------------------------
(* Small instances of TaskSchedule for TLC *)
EXTENDS TaskSchedule

CONSTANTS report, digest, review

Both    == {report, digest}   \* one of each kind
OneOff == {report}
Digests == {digest}
Two     == {digest, review}   \* two at an interval
NoSchedules == {}
=============================================================================
