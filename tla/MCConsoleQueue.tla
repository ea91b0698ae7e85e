--------------------------- MODULE MCConsoleQueue ---------------------------
(* Small instances of ConsoleQueue for TLC.                                *)
EXTENDS ConsoleQueue, TLC

CONSTANTS w1, w2, c1
=============================================================================
