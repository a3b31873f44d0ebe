--------------------------- MODULE MCStackLineReader ---------------------------
(***************************************************************************)
(* Files for StackLineReader: every file of up to ShortFile bytes, NULs    *)
(* included, read in any portions and with errors; and every text of up to *)
(* LongFile bytes more, read in full.                                      *)
(***************************************************************************)
EXTENDS StackLineReader

CONSTANTS ShortFile, LongFile

Sequences(S, lengths) == UNION {[1 .. n -> S] : n \in lengths}

MCShort == Sequences(Byte, 0 .. ShortFile)
MCContents == MCShort \cup Sequences(Byte \ {NUL}, ShortFile + 1 .. LongFile)
===============================================================================
