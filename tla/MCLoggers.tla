----------------------------- MODULE MCLoggers -----------------------------
(* Two threads, two names.                                                  *)
EXTENDS Loggers, TLC

Alike == Permutations(Threads) \cup Permutations(Names)
=============================================================================
