-------------------------- MODULE MCTransferQueue --------------------------
(***************************************************************************)
(* TransferQueue for TLC: small buffers, requests of three sizes, or those *)
(* of the shipped program.                                                 *)
(***************************************************************************)
EXTENDS TransferQueue

CONSTANTS m1, m2

MCChild == {m1, m2}

\* A command without data, one with data out and one with data in, of each
\* module: two of the sizes reach the buffer's end exactly.
MCRequest ==
    { [child |-> c, tx |-> s[1], rx |-> s[2]] :
        c \in MCChild, s \in {<<2, 2>>, <<4, 2>>, <<2, 6>>} }

\* The sizes of the shipped program: the EXCHANGE command of a CM001 with a
\* PWM output board (4 bytes out) and a sensor (16 bytes in) or encoder (14
\* bytes in) input board, each with command or status and checksum.
RealRequest ==
    { [child |-> m1, tx |-> 6, rx |-> 18], [child |-> m2, tx |-> 6, rx |-> 16] }
=============================================================================
