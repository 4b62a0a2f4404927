---------------------------- MODULE MCPollQueue -----------------------------
(* Instance of PollQueue for TLC, with room for sound tasks in each batch. *)
EXTENDS PollQueue

CONSTANTS t1, t2, t3

ThreeTasks == {t1, t2, t3}
OneStuck   == {t1}
=============================================================================
