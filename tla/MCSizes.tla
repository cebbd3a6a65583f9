------------------------------- MODULE MCSizes ------------------------------
(***************************************************************************)
(* Instances of Sizes: a machine of 200 KiB, of which the last digit is a  *)
(* tenth of a KiB.                                                         *)
(***************************************************************************)
EXTENDS Sizes

KiB == 1024

\* 50 bytes are less than half a tenth of a KiB and cost nothing, 100 bytes cost
\* a tenth.
SizesMixed == {50, 100, 9 * KiB + 700, 100 * KiB}
=============================================================================
