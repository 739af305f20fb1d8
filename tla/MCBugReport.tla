---------------------------- MODULE MCBugReport ----------------------------
(* Two threads and two of the five signals: faults while another thread is *)
(* in the handler, and within a handler of the same or the other signal.   *)
EXTENDS BugReport

CONSTANTS t1, t2, SIGABRT, SIGSEGV

MCTids == {t1, t2}
MCSignals == <<SIGABRT, SIGSEGV>>
============================================================================
