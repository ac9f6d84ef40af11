----------------------------- MODULE MCLogWriter -----------------------------
(* Threads that log while the file is moved away: the instances of LogWriter.  *)
EXTENDS LogWriter
=============================================================================
