--------------------------- MODULE MCConsoleLines ---------------------------
(* A command of two letters, and lines of up to two characters more than    *)
(* the longer of the two buffers holds.                                     *)
EXTENDS ConsoleLines

CONSTANTS a, b

MCCommand == <<a, b>>
=============================================================================
