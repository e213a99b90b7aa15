---------------------------- MODULE ExchangeLoop ----------------------------
(***************************************************************************)
(* Exchange() of Ex.cpp, the loop that drives one CM001 from the keyboard: *)
(* look for a key, load the outputs, exchange them; when it is left, load  *)
(* zero and exchange once more.                                            *)
(*                                                                         *)
(* Port A has an input board; port B any of the three output boards, whose *)
(* registers out stands for.  As in Server, an exchange is served, fails   *)
(* with or without the module having got its frame, and leaves a request   *)
(* in the hub's queue when it fails.                                       *)
(***************************************************************************)
EXTENDS Integers, Sequences

CONSTANTS
    Board,     \* the boards that can be on port B
    Junk,      \* what iVal0 and iVal1 can hold when they are not set
    Capacity,  \* requests that fit in the transfer queue of the hub
    MaxLeft,   \* requests that TestCM, before it, can leave in the queue
    MaxKeys    \* bound: keys pressed

ShortMin == -32768
ShortMax == 32767
Register == ShortMin .. ShortMax  \* the values of a short

Key == {"8", "2", "5", "ESC"}

ASSUME LoopAssumption ==
    /\ Board \subseteq {"pwm", "da", "pio"}
    /\ Junk \subseteq Int
    /\ Capacity \in Nat \ {0}
    /\ MaxLeft \in 0 .. Capacity
    /\ MaxKeys \in Nat

VARIABLES
    pc,        \* "keys", "exchange", "zero", "last" or "done"
    loop,      \* the condition of the loop
    iVal0,     \* the output asked for on the first channel
    iVal1,     \* and on the second
    board,     \* Module00.bBoardID_PB
    out,       \* PwmBoard, DaBoard or PioBoardB of Module00
    driven,    \* what the module has at its output pins
    left,      \* requests in the hub's queue when the loop is entered
    retained,  \* requests in the hub's queue that were not served
    queued,    \* the registers that those of them carry that are exchanges
    result,    \* what the latest exchange has returned
    keys,      \* keys pressed that _getch has not read
    pressed    \* number of keys pressed

valVars == <<iVal0, iVal1>>
queueVars == <<left, retained, queued>>
keyVars == <<keys, pressed>>
vars == <<pc, loop, valVars, board, out, driven, queueVars, result, keyVars>>

-----------------------------------------------------------------------------

ShortOfRange(i) == i  \* mutant: the width is left out

\* The conversion of an int to a short.
Short(i) == ((i + 32768) % 65536) - 32768

\* One register per channel; a PIO board has one data word.  Module00 is a
\* global object, so they are zero at first.
ZeroRegisters(b) == IF b = "pwm" THEN <<0, 0>> ELSE <<0>>

\* SetData, for the board on port B.  The outputs of a PIO board do not
\* depend on the values: its ten pins, all outputs, are complemented.
Loaded(v0, v1) ==
    CASE board = "pwm" -> <<Short(v0), Short(v1)>>
      [] board = "da"  -> <<Short(v0)>>
      [] board = "pio" -> <<1023 - out[1]>>

Init ==
    /\ pc = "keys"
    /\ loop = TRUE
    /\ iVal0 \in Junk /\ iVal1 \in Junk
    /\ board \in Board
    /\ out = ZeroRegisters(board)
    /\ driven = out
    /\ left \in 0 .. MaxLeft
    /\ retained = left /\ queued = {}
    /\ result = TRUE
    /\ keys = <<>> /\ pressed = 0

\* iVal0 after a key: only the upper end of the range is kept.
Adjusted(key) ==
    CASE key = "8" -> IF iVal0 + 100 > 1023 THEN 1023 ELSE iVal0 + 100
      [] key = "2" -> iVal0 - 100
      [] key = "5" -> 0
      [] key = "ESC" -> iVal0

\* mutant: all keys are read, and only the last one is looked at.
KeyFlush ==
    /\ pc = "keys"
    /\ IF keys = <<>>
       THEN UNCHANGED <<loop, iVal0, keys>>
       ELSE /\ iVal0' = Adjusted(keys[Len(keys)])
            /\ loop' = (keys[Len(keys)] # "ESC")
            /\ keys' = <<>>
    /\ out' = IF keys = <<>> THEN Loaded(iVal0, iVal1)
                             ELSE Loaded(Adjusted(keys[Len(keys)]), iVal1)
    /\ pc' = "exchange"
    /\ UNCHANGED <<iVal1, board, driven, queueVars, result, pressed>>

\* A turn of the loop up to Exchange: at most one key is read, and the
\* outputs are loaded.
KeyAndSetData ==
    /\ pc = "keys"
    /\ IF keys = <<>>
       THEN UNCHANGED <<loop, iVal0, keys>>
       ELSE /\ iVal0' = Adjusted(Head(keys))
            /\ loop' = (Head(keys) # "ESC")
            /\ keys' = Tail(keys)
    /\ out' = Loaded(iVal0', iVal1)
    /\ pc' = "exchange"
    /\ UNCHANGED <<iVal1, board, driven, queueVars, result, pressed>>

\* Module00.Exchange(TRUE), in the loop or behind it.  The hub serves what
\* earlier calls have left in the queue first.  A PIO board answers with its
\* pins, which are all outputs.
Served ==
    /\ retained < Capacity
    /\ result' = TRUE
    /\ retained' = 0 /\ queued' = {}
    /\ driven' = out

\* It fails, with none, a part or all of the frame carried out.  If the
\* reply came, but with an error of the module, the queue is emptied.
Failed ==
    /\ retained < Capacity
    /\ result' = FALSE
    /\ \/ retained' = retained + 1 /\ queued' = queued \cup {out}
       \/ retained' = 0 /\ queued' = {}
    /\ driven' \in {driven, out} \cup queued

\* The request does not fit in the queue.
Refused ==
    /\ retained = Capacity
    /\ result' = FALSE
    /\ UNCHANGED <<retained, queued, driven>>

\* mutant: a failure is ignored, as main does.
TurnGoesOn ==
    /\ pc = "exchange"
    /\ Served \/ Failed \/ Refused
    /\ loop' = loop
    /\ pc' = IF loop' THEN "keys" ELSE "zero"
    /\ UNCHANGED <<valVars, board, out, left, keyVars>>

\* The rest of a turn: a failure ends the loop as the ESC key does.
Turn ==
    /\ pc = "exchange"
    /\ Served \/ Failed \/ Refused
    /\ loop' = (loop /\ result')
    /\ pc' = IF loop' THEN "keys" ELSE "zero"
    /\ UNCHANGED <<valVars, board, out, left, keyVars>>

\* mutant: the second channel keeps its value.
ZeroDataOneChannel ==
    /\ pc = "zero"
    /\ out' = Loaded(0, iVal1)
    /\ pc' = "last"
    /\ UNCHANGED <<loop, valVars, board, driven, queueVars, result,
                   keyVars>>

\* SetData( &Module00, 0, 0 ).
ZeroData ==
    /\ pc = "zero"
    /\ out' = Loaded(0, 0)
    /\ pc' = "last"
    /\ UNCHANGED <<loop, valVars, board, driven, queueVars, result,
                   keyVars>>

\* The exchange behind the loop.
LastExchange ==
    /\ pc = "last"
    /\ Served \/ Failed \/ Refused
    /\ loop' = (loop /\ result')
    /\ pc' = "done"
    /\ UNCHANGED <<valVars, board, out, left, keyVars>>

LoopNext == KeyAndSetData \/ Turn \/ ZeroData \/ LastExchange

PressKey ==
    /\ pressed < MaxKeys
    /\ pressed' = pressed + 1
    /\ \E key \in Key : keys' = Append(keys, key)
    /\ UNCHANGED <<pc, loop, valVars, board, out, driven, queueVars,
                   result>>

Next == LoopNext \/ PressKey

Spec == Init /\ [][Next]_vars

\* The loop never waits: _getch is only called after _kbhit, and an
\* exchange ends with the timeout of the hub at the latest.
FairSpec == Spec /\ WF_vars(LoopNext)

-----------------------------------------------------------------------------

\* Every variable has its type.
TypeOK ==
    /\ pc \in {"keys", "exchange", "zero", "last", "done"}
    /\ loop \in BOOLEAN
    /\ iVal0 \in Int /\ iVal1 \in Int
    /\ board \in Board
    /\ out \in Seq(Register) /\ driven \in Seq(Register)
    /\ left \in 0 .. MaxLeft /\ retained \in 0 .. Capacity
    /\ queued \subseteq Seq(Register)
    /\ result \in BOOLEAN
    /\ keys \in Seq(Key) /\ pressed \in Nat

\* Whatever way the loop was left, with requests still in the hub's queue
\* or not, the module is at zero when the exchange behind the loop has
\* returned TRUE.  (A PIO board is not: SetData ignores its values and
\* complements the data.)
ZeroAtEnd ==
    pc = "done" /\ result /\ board # "pio" => \A i \in DOMAIN driven : driven[i] = 0

\* A failure ends the loop, so that the loop never fills the hub's queue:
\* when zero is to be sent, there is at most the exchange that has failed
\* besides what was left before.
QueueStaysOpen ==
    /\ retained > left => ~loop
    /\ pc # "done" => retained <= left + 1

\* An ESC that was pressed ends the loop, however many keys are pressed
\* before or after it.
EscEnds ==
    (\E i \in DOMAIN keys : keys[i] = "ESC") ~> pc = "done"
=============================================================================
