---------------------------- MODULE MCWriterLock ----------------------------
(* The instance of WriterLock for TLC: MCWriterLock.cfg gives the threads. *)
EXTENDS WriterLock

=============================================================================
