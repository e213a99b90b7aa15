------------------------------- MODULE Server -------------------------------
(***************************************************************************)
(* The program of Ex.cpp: main opens the hub and one CM001, accepts one    *)
(* TCP client, the Unity application, and then repeats: exchange data with *)
(* the module, load the next output, receive a number from the client,     *)
(* turn it into an output, filter the sensors, answer, poll the ESC key.   *)
(*                                                                         *)
(* The variables are those of main.  The three sensor channels are treated *)
(* alike and so are the two PWM channels: one of each is kept.  The module *)
(* has any input board on port A and a PWM board on port B, and it may     *)
(* still drive what an earlier run of the program has left.                *)
(*                                                                         *)
(* The client's text is kept as digits, since how it piles up in buffer is *)
(* what matters: a number is the digits up to the first other character.   *)
(* (A fraction only makes the text longer, as a further digit does here.)  *)
(* The exchange is the one that ModuleBus has in detail; here it is served *)
(* or fails, and a failed one stays in the hub's queue until one is        *)
(* served.  The hub serves a frame while main waits for it or never.       *)
(***************************************************************************)
EXTENDS Integers, Sequences, SequencesExt

CONSTANTS
    Message,      \* the numbers that the client sends, as texts
    BUFFER_SIZE,  \* size of buffer
    FreshByte,    \* what an element of buffer can hold before it is written
    Sample,       \* the values that a sensor can have
    Board,        \* the boards that can be on port A
    Capacity,     \* exchanges that fit in the transfer queue of the hub
    MaxStream,    \* bound: bytes sent and not yet received
    MaxFaults     \* bound: exchanges that fail

Digit == 0 .. 9
EndOfText == -1  \* any character that does not continue a number
Run == 1013      \* the output that number 1 stands for

ASSUME ServerAssumption ==
    /\ BUFFER_SIZE \in Nat \ {0}
    /\ FreshByte \subseteq Digit \cup {EndOfText}
    /\ Message \subseteq Seq(Digit) \ {<<>>}
    /\ Sample \subseteq Nat
    /\ Board \subseteq {"sensor", "enc", "pio"}
    /\ Capacity \in Nat \ {0}
    /\ MaxStream \in Nat
    /\ MaxFaults \in Nat

VARIABLES
    pc,           \* the step main is at
    bBoardID_PA,  \* Module00.bBoardID_PA, or "unknown"
    iVal,         \* iVal0, iVal1: the output asked for
    sPwm,         \* Module00.PwmBoard: the output the next exchange sends
    wSensor,      \* Module00.SensorBoard: the sample of the last reply
    Sensor,       \* the copy that IndecateData makes
    read_Sensor,  \* the filtered value that is sent to the client
    buffer,       \* the bytes received, never cleared
    receive_num,  \* the number main has read in buffer
    motor,        \* what the module drives
    retained,     \* exchanges in the hub's queue that were not served
    queued,       \* the outputs that they carry
    stream,       \* bytes on their way from the client
    sent,         \* the client's latest message
    awaiting,     \* the client waits for an answer
    client,       \* "none" yet, "connected", or "gone": it has closed its
                  \* end, or accept has returned no socket
    esc,          \* the ESC key is down
    faults,       \* exchanges that have failed
    quiet         \* exchanges served since the start, or since iVal was
                  \* last set from another value to 0, counted up to 2

moduleVars == <<sPwm, wSensor, motor, retained, queued>>
clientVars == <<stream, sent, awaiting, client>>
vars == <<pc, bBoardID_PA, iVal, Sensor, read_Sensor, buffer, receive_num,
          moduleVars, clientVars, esc, faults, quiet>>

-----------------------------------------------------------------------------

\* std::stod: the value of the leading digits of a text.
Number(text) ==
    LET read[i \in 0 .. Len(text)] ==
            IF i = 0 THEN 0
            ELSE IF \E j \in 1 .. i : text[j] = EndOfText THEN read[i - 1]
            ELSE 10 * read[i - 1] + text[i]
    IN  read[Len(text)]

Init ==
    /\ pc = "openHub"
    /\ bBoardID_PA = "unknown"
    /\ iVal = 0 /\ sPwm = 0 /\ motor \in {0, Run}
    /\ wSensor = 0 /\ Sensor = 0 /\ read_Sensor = 0
    /\ buffer \in [1 .. BUFFER_SIZE -> FreshByte]
    /\ receive_num = 0
    /\ retained = 0 /\ queued = {}
    /\ stream = <<>> /\ sent = <<>> /\ awaiting = FALSE /\ client = "none"
    /\ esc = FALSE
    /\ faults = 0
    /\ quiet = 0

-----------------------------------------------------------------------------

\* ScModule.Open(CM_MASTER_ID): main returns when there is no hub.
OpenHub ==
    /\ pc = "openHub"
    /\ pc' \in {"openModule", "closed"}
    /\ UNCHANGED <<bBoardID_PA, iVal, Sensor, read_Sensor, buffer,
                   receive_num, moduleVars, clientVars, esc, faults, quiet>>

\* Module00.Open, which is TRUE when the configuration has come.  The hub's
\* queue is then empty, whatever became of CM_OPEN.
OpenModule ==
    /\ pc = "openModule"
    /\ \/ bBoardID_PA' \in Board /\ pc' = "accept"
       \/ bBoardID_PA' = bBoardID_PA /\ pc' = "closed"
    /\ UNCHANGED <<iVal, Sensor, read_Sensor, buffer, receive_num, moduleVars,
                   clientVars, esc, faults, quiet>>

\* accept blocks until a client has come, even one that has gone again.
Accept ==
    /\ pc = "accept"
    /\ client # "none"
    /\ pc' = "exchange"
    /\ UNCHANGED <<bBoardID_PA, iVal, Sensor, read_Sensor, buffer,
                   receive_num, moduleVars, clientVars, esc, faults, quiet>>

\* One of bind, listen and accept fails (the port is in use, say).  No result
\* is looked at: main goes on without a client, and recv will not block.
AcceptFails ==
    /\ pc = "accept"
    /\ client = "none"
    /\ client' = "gone"
    /\ pc' = "exchange"
    /\ UNCHANGED <<bBoardID_PA, iVal, Sensor, read_Sensor, buffer,
                   receive_num, moduleVars, stream, sent, awaiting, esc,
                   faults, quiet>>

-----------------------------------------------------------------------------

\* Module00.Exchange(TRUE): the module drives sPwm and returns a sample.
ExchangeServed ==
    /\ pc = "exchange"
    /\ retained < Capacity
    /\ motor' = sPwm
    /\ wSensor' \in Sample
    /\ retained' = 0 /\ queued' = {}
    /\ quiet' = IF quiet < 2 THEN quiet + 1 ELSE quiet
    /\ pc' = "setData"
    /\ UNCHANGED <<bBoardID_PA, iVal, sPwm, Sensor, read_Sensor, buffer,
                   receive_num, clientVars, esc, faults>>

\* It fails.  The module may have got none of the frame, or a part, or all
\* of it, and the frame starts with what earlier exchanges have left.  If
\* the reply came, but with an error of the module, the queue is emptied
\* all the same, and the sample of a reply of the right size is taken before
\* its status is.  main sets loop to FALSE, which nothing reads, and goes on.
ExchangeFails ==
    /\ pc = "exchange"
    /\ retained < Capacity
    /\ faults < MaxFaults
    /\ faults' = faults + 1
    /\ \/ /\ retained' = retained + 1 /\ queued' = queued \cup {sPwm}
          /\ wSensor' = wSensor
       \/ /\ retained' = 0 /\ queued' = {}
          /\ wSensor' \in Sample \cup {wSensor}
    /\ motor' \in {motor, sPwm} \cup queued
    /\ pc' = "setData"
    /\ UNCHANGED <<bBoardID_PA, iVal, sPwm, Sensor, read_Sensor, buffer,
                   receive_num, clientVars, esc, quiet>>

\* The queue of the hub is full of what earlier exchanges left in it.
ExchangeRefused ==
    /\ pc = "exchange"
    /\ retained = Capacity
    /\ pc' = "setData"
    /\ UNCHANGED <<bBoardID_PA, iVal, Sensor, read_Sensor, buffer,
                   receive_num, moduleVars, clientVars, esc, faults, quiet>>

\* mutant: 0 is taken for "no new output".
SetDataUnlessZero ==
    /\ pc = "setData"
    /\ sPwm' = IF iVal = 0 THEN sPwm ELSE iVal
    /\ Sensor' = IF bBoardID_PA = "sensor" THEN wSensor ELSE Sensor
    /\ pc' = "recv"
    /\ UNCHANGED <<bBoardID_PA, iVal, read_Sensor, buffer, receive_num,
                   wSensor, motor, retained, queued, clientVars, esc, faults,
                   quiet>>

\* SetData loads the output that the next exchange will send; IndecateData
\* copies the sample of a sensor board.
SetData ==
    /\ pc = "setData"
    /\ sPwm' = iVal
    /\ Sensor' = IF bBoardID_PA = "sensor" THEN wSensor ELSE Sensor
    /\ pc' = "recv"
    /\ UNCHANGED <<bBoardID_PA, iVal, read_Sensor, buffer, receive_num,
                   wSensor, motor, retained, queued, clientVars, esc, faults,
                   quiet>>

\* recv blocks until there is something, which it puts over the start of
\* buffer.  At the end of the stream it leaves buffer alone; numrcv is not
\* looked at.
Recv ==
    /\ pc = "recv"
    /\ \/ \E n \in 1 .. BUFFER_SIZE :
              /\ n <= Len(stream)
              /\ buffer' = [i \in 1 .. BUFFER_SIZE |->
                                IF i <= n THEN stream[i] ELSE buffer[i]]
              /\ stream' = SubSeq(stream, n + 1, Len(stream))
       \/ stream = <<>> /\ client = "gone" /\ UNCHANGED <<buffer, stream>>
    /\ pc' = "handle"
    /\ UNCHANGED <<bBoardID_PA, iVal, Sensor, read_Sensor, receive_num,
                   moduleVars, sent, awaiting, client, esc, faults, quiet>>

\* stod throws when the text does not start as a number: nothing catches it
\* and the program ends.
Abort ==
    /\ pc = "handle"
    /\ buffer[1] = EndOfText
    /\ pc' = "aborted"
    /\ UNCHANGED <<bBoardID_PA, iVal, Sensor, read_Sensor, buffer,
                   receive_num, moduleVars, clientVars, esc, faults, quiet>>

\* mutant: other numbers are outputs.
NextValRaw(number) == CASE number = 1 -> Run
                        [] number \in {0, 2} -> 0
                        [] number \notin {0, 1, 2} -> number

\* What main makes of the number: 1 is run, 0 and 2 are stop, any other
\* number changes nothing.
NextVal(number) == CASE number = 1 -> Run
                     [] number \in {0, 2} -> 0
                     [] number \notin {0, 1, 2} -> iVal

FilterGains(old, sample) == (9 * old + 2 * sample) \div 10  \* mutant: weights

\* The low-pass filter int(read_Sensor * 0.9 + (x / 10) * 0.1), where x is
\* ten times Sensor.
Filter(old, sample) == (9 * old + sample) \div 10

\* From std::stod to send.
Handle ==
    /\ pc = "handle"
    /\ buffer[1] # EndOfText
    /\ receive_num' = Number(buffer)
    /\ iVal' = NextVal(Number(buffer))
    /\ quiet' = IF iVal # 0 /\ iVal' = 0 THEN 0 ELSE quiet
    /\ read_Sensor' = Filter(read_Sensor, Sensor)
    /\ awaiting' = FALSE
    /\ pc' = "poll"
    /\ UNCHANGED <<bBoardID_PA, Sensor, buffer, moduleVars, stream, sent,
                   client, esc, faults>>

\* mutant: the key is looked at only while the motor is stopped.
PollWhenStopped ==
    /\ pc = "poll"
    /\ pc' = IF esc /\ iVal = 0 THEN "closed" ELSE "exchange"
    /\ UNCHANGED <<bBoardID_PA, iVal, Sensor, read_Sensor, buffer,
                   receive_num, moduleVars, clientVars, esc, faults, quiet>>

\* GetKeyState(VK_ESCAPE), the only way out of the loop.
Poll ==
    /\ pc = "poll"
    /\ pc' = IF esc THEN "closed" ELSE "exchange"
    /\ UNCHANGED <<bBoardID_PA, iVal, Sensor, read_Sensor, buffer,
                   receive_num, moduleVars, clientVars, esc, faults, quiet>>

MainNext ==
    \/ OpenHub \/ OpenModule \/ Accept
    \/ ExchangeServed \/ ExchangeFails \/ ExchangeRefused
    \/ SetData \/ Recv \/ Abort \/ Handle \/ Poll

-----------------------------------------------------------------------------

Connect ==
    /\ pc = "accept"
    /\ client = "none"
    /\ client' = "connected"
    /\ UNCHANGED <<pc, bBoardID_PA, iVal, Sensor, read_Sensor, buffer,
                   receive_num, moduleVars, stream, sent, awaiting, esc,
                   faults, quiet>>

\* The client sends its next number once the previous one is answered.
ClientSend ==
    /\ client = "connected" /\ ~awaiting
    /\ \E m \in Message :
           /\ Len(stream) + Len(m) <= MaxStream
           /\ stream' = stream \o m
           /\ sent' = m
    /\ awaiting' = TRUE
    /\ UNCHANGED <<pc, bBoardID_PA, iVal, Sensor, read_Sensor, buffer,
                   receive_num, moduleVars, client, esc, faults, quiet>>

Disconnect ==
    /\ client = "connected"
    /\ client' = "gone"
    /\ UNCHANGED <<pc, bBoardID_PA, iVal, Sensor, read_Sensor, buffer,
                   receive_num, moduleVars, stream, sent, awaiting, esc,
                   faults, quiet>>

PressEsc ==
    /\ ~esc
    /\ esc' = TRUE
    /\ UNCHANGED <<pc, bBoardID_PA, iVal, Sensor, read_Sensor, buffer,
                   receive_num, moduleVars, clientVars, faults, quiet>>

Next == MainNext \/ AcceptFails \/ Connect \/ ClientSend \/ Disconnect
        \/ PressEsc

Spec == Init /\ [][Next]_vars

\* main runs whenever it is not blocked in accept or recv.
MainSpec == Spec /\ WF_vars(MainNext)

\* Moreover a client comes and goes on sending while it is connected.
FedSpec == MainSpec /\ WF_vars(Connect) /\ WF_vars(ClientSend)

-----------------------------------------------------------------------------

\* Every variable has its type.
TypeOK ==
    /\ pc \in {"openHub", "openModule", "accept", "exchange", "setData",
               "recv", "handle", "poll", "closed", "aborted"}
    /\ bBoardID_PA \in Board \cup {"unknown"}
    /\ iVal \in {0, Run} /\ sPwm \in {0, Run} /\ motor \in {0, Run}
    /\ wSensor \in Nat /\ Sensor \in Nat /\ read_Sensor \in Nat
    /\ buffer \in [1 .. BUFFER_SIZE -> Digit \cup {EndOfText}]
    /\ receive_num \in Nat
    /\ retained \in 0 .. Capacity /\ queued \subseteq {0, Run}
    /\ stream \in Seq(Digit)
    /\ sent \in Message \cup {<<>>}
    /\ awaiting \in BOOLEAN /\ client \in {"none", "connected", "gone"}
    /\ esc \in BOOLEAN
    /\ faults \in 0 .. MaxFaults
    /\ quiet \in 0 .. 2

\* The output lags: Ex.cpp exchanges before it loads the new output, so the
\* first exchange after a stop number still drives the motor.  The second
\* one that is served stops it, and it stays stopped until the client asks
\* for it to run, whatever exchanges fail in between.  So it is after a start
\* with a motor that an earlier run of the program has left running.
StopsWithTheSecond == iVal = 0 /\ quiet = 2 => motor = 0

\* Ex.cpp:314 "Unityからdouble型の数値が送られてきたときはこのままでよい":
\* the number read is the number sent, at least when the client's latest text
\* has come whole and stands at the start of buffer, with nothing received
\* behind it.  What an earlier, longer text has left in buffer follows it.
NumberIsTheSent ==
    (/\ pc = "poll" /\ client = "connected" /\ ~awaiting
     /\ stream = <<>>
     /\ Len(sent) <= BUFFER_SIZE
     /\ \A i \in 1 .. Len(sent) : buffer[i] = sent[i])
    => receive_num = Number(sent)

\* The filtered value moves towards the sample and never past it: the
\* rounding of the filter cannot make the client see a value outside the
\* range of what was measured.
FilterBetween ==
    [][ \/ read_Sensor' \in read_Sensor .. Sensor
        \/ read_Sensor' \in Sensor .. read_Sensor ]_vars

\* A request to stop eventually stops the motor, unless the client asks for
\* it to run again, the program ends, or failed exchanges have filled the
\* hub's queue: then the motor keeps its output for ever.  It takes a client
\* that goes on sending, and failures that come to an end (MaxFaults): the
\* second exchange that is served after the request stops the motor.
StopReachesMotor ==
    iVal = 0 ~> \/ motor = 0 \/ iVal # 0
                \/ pc \in {"closed", "aborted"}
                \/ retained = Capacity

\* Ex.cpp:358 "サーバを閉じたいときにはESCを押す": ESC ends the server.  It
\* takes a client that goes on sending, since the key is only looked at
\* between two numbers.
EscEnds == esc ~> pc \in {"closed", "aborted"}

\* Ex.cpp:310 "サーバ（Unityから文字が送られて来なければ終了）": the server
\* ends when the client is gone.
DisconnectEnds == client = "gone" ~> pc \in {"closed", "aborted"}
=============================================================================
