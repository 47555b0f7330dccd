----------------------------- MODULE MCFileLogPipe -----------------------------
(* Small instances of FileLogPipe for TLC. *)
EXTENDS FileLogPipe

SecondLine == {2}
=============================================================================
