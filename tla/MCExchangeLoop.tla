--------------------------- MODULE MCExchangeLoop ---------------------------
(***************************************************************************)
(* Model values for ExchangeLoop.  -32750 is one key from the lower end    *)
(* of a short, 950 one from the upper limit of the output.                 *)
(***************************************************************************)
EXTENDS ExchangeLoop

MCJunk == {-32750, 950}
=============================================================================
