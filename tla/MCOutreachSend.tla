--------------------------- MODULE MCOutreachSend ---------------------------
(***************************************************************************)
(* TLC's instances of OutreachSend.  "server" stands for the event loop of *)
(* the MCP/admin process, "job" for one of its background threads and      *)
(* "worker" for the worker process.                                        *)
(***************************************************************************)
EXTENDS OutreachSend, TLC

\* Threads that approve (a Sheets sync does) and run cycles, but no tool, are
\* interchangeable; for runs that check no liveness.
CycleSymmetry == Permutations((Approvers \cap Workers) \ Callers)
=============================================================================
