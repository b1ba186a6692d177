---------------------------- MODULE SerialStream ----------------------------
(***************************************************************************)
(* What a testcase may rely on at the panel's end of the serial line: the  *)
(* bytes that AqualinkD writes are handed over in the order written, none  *)
(* lost and none twice, and in the portions that the expectations ask for, *)
(* however the reads cut them.                                             *)
(***************************************************************************)
EXTENDS Naturals, Sequences

CONSTANT Byte

VARIABLES
  written,  \* all bytes AqualinkD has written
  handed    \* the bytes that expectations have returned

streamVars == <<written, handed>>

StreamInit == written = <<>> /\ handed = <<>>

Arrive ==
  /\ \E b \in Byte : written' = Append(written, b)
  /\ UNCHANGED handed

HandOver ==
  /\ \E n \in Len(handed) + 1 .. Len(written) : handed' = SubSeq(written, 1, n)
  /\ UNCHANGED written

StreamSpec == StreamInit /\ [][Arrive \/ HandOver]_streamVars
=============================================================================
