---------------------------- MODULE MCSleepCache ----------------------------
(* Instances of SleepCache for TLC. *)
EXTENDS SleepLocking
=============================================================================
