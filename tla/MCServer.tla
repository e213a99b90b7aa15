------------------------------ MODULE MCServer ------------------------------
(***************************************************************************)
(* Server for TLC: the numbers as texts, the bytes of an unwritten buffer. *)
(***************************************************************************)
EXTENDS Server

\* Stop, run, stop and a number without meaning, all of one digit.
OneDigit == { <<0>>, <<1>>, <<2>>, <<5>> }

\* Run and stop, and a longer number.
MixedLength == { <<0>>, <<1>>, <<5, 0>> }

\* The fill of a Debug build (0xCC) ends a number.
DebugFill == {EndOfText}

Samples == {0, 10}

OneSample == {10}
=============================================================================
