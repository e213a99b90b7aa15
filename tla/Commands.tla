------------------------------ MODULE Commands ------------------------------
(***************************************************************************)
(* The commands of one CM001 object: the wrappers of Transceive in         *)
(* ControlModule, MotorController and CM001, with what each of them does   *)
(* before and after the transfer, the memory its reply is copied to, and   *)
(* the checksum that guards the reply.                                     *)
(*                                                                         *)
(* A reply is a sequence of bytes, as in the code.  The link is simpler    *)
(* than in ModuleBus: a frame is served up to some point and its reply     *)
(* comes, or nothing of it ever comes; a byte of a section may be damaged. *)
(* Sizes of frames are left to TransferQueue: here any request may be      *)
(* refused when the queue is not empty.                                    *)
(*                                                                         *)
(* External: the module carries out requests that bear its id, answers     *)
(* with its status, or refuses with a status and no data; to a request     *)
(* with another id the hub answers CM_REPLY_NO.                            *)
(***************************************************************************)
EXTENDS Integers, Sequences, SequencesExt

CONSTANTS
    Used,       \* names of the commands that are called
    Id,         \* ids that a module can be given
    Version,    \* what the module answers to CM_GET_VER
    Config,     \* what it answers to CM001_GET_CONFIG, six bytes
    MaxCalls,   \* bound: calls of Transceive
    MaxFaults   \* bound: faults of link and module

Byte == 0 .. 255

ASSUME CommandsAssumption ==
    /\ Id \subseteq Byte /\ 0 \in Id /\ Version \in Byte
    /\ Config \in [1 .. 6 -> Byte]
    /\ MaxCalls \in Nat /\ MaxFaults \in Nat

\* The number of a frame stamps the data of its answers, byte by byte.
ASSUME StampAssumption == MaxCalls \in Byte

VARIABLES
    pc,        \* "idle", "hub", "deliver", or "config": CM001::Open is
               \* between its two commands
    opened,    \* pParentModule is set
    cell,      \* the memory that replies are copied to
    bStatus, ExtMode, wReqRxSize, pReserveBuffer,  \* of the object
    current,   \* the latest call: command, argument, number, and whether an
               \* exchange was outstanding (ExtMode) when it was made
    queue,     \* requests in the hub's queue, those of failed calls first
    todo,      \* requests of the frame that the hub has still to serve
    reply,     \* sections that the object has not received
    id,        \* the id that the module answers to
    motor,     \* the latest command for the motor that it carried out
    told,      \* call |-> "none", "open", what it returned, or "unsent"
    executed,  \* call |-> how often the module has carried it out
    forged,    \* calls whose refusal was damaged on the way
    asked,     \* the latest call of a command for the motor
    suspect,   \* history: bID may not be what the module answers to
    faults     \* faults so far

objVars == <<opened, cell, bStatus, ExtMode, wReqRxSize, pReserveBuffer>>
moduleVars == <<id, motor, executed>>
vars == <<pc, objVars, current, queue, todo, reply, moduleVars, told, forged,
          asked, suspect, faults>>

-----------------------------------------------------------------------------

CM_NORMAL == 100
CM_NAK == 101
CM_REPLY_NO == 120
CM_REPLY_SUM_ERROR == 123
MC_SENSOR_ERROR == 150

\* A command: its number, the bytes of data in its reply, and where the
\* reply is copied to: a member of the object, a local variable of the
\* wrapper, a structure of the caller, or nowhere.
Command(name, code, rx, dest) ==
    [name |-> name, code |-> code, rx |-> rx, dest |-> dest]

\* The sizes of the structures that come as replies: their fields are floats,
\* a status of four bytes, a long, and the eight words of the sensor board.
SizeOfFloat == 4
SizeOfCmParam == 3 * SizeOfFloat
SizeOfCtrlParam == 8 * SizeOfFloat
SizeOfMotorParam == 8 * SizeOfFloat
SizeOfData == 4 + 3 * SizeOfFloat + 4
SizeOfSensor == 8 * 2

\* GetParam passes the address of its argument, which is on the stack.  (What
\* the bytes that do not fit there overwrite is not modelled.)
BaseCommands ==
    { Command("CM_CLOSE", 1, 1, "local"), Command("CM_RESET", 2, 0, "none"),
      Command("CM_PING", 3, 1, "local"), Command("CM_SET_ID", 4, 0, "none"),
      Command("CM_GET_ID", 5, 1, "bID"), Command("CM_GET_VER", 6, 1, "bVersion"),
      Command("CM_BLINK", 7, 0, "none"), Command("CM_SET_PARAM", 9, 0, "none"),
      Command("CM_GET_PARAM", 10, SizeOfCmParam, "stack") }

CommandOpen == Command("CM_OPEN", 0, 1, "local")

MotorCommands ==
    { Command("MC_STOP", 20, 0, "none"),
      Command("MC_SET_CTRL_PARAM", 22, 0, "none"),
      Command("MC_GET_CTRL_PARAM", 23, SizeOfCtrlParam, "caller"),
      Command("MC_SET_MOTOR_PARAM", 24, 0, "none"),
      Command("MC_GET_MOTOR_PARAM", 25, SizeOfMotorParam, "caller"),
      Command("MC_SET_POSITION", 26, SizeOfData, "Data"),
      Command("MC_SET_VELOCITY", 27, SizeOfData, "Data"),
      Command("MC_SET_TORQUE", 28, SizeOfData, "Data"),
      Command("MC_SET_DUTY", 29, SizeOfData, "Data"),
      Command("MC_GET_DATA", 30, SizeOfData, "Data"),
      Command("MC_CLEAR_DATA", 31, 0, "none"),
      Command("MC_SET_POS_SENSOR", 32, 0, "none"),
      Command("MC_ADJUST_ENC", 33, 0, "none"),
      Command("MC_SIM_MOTOR", 34, 0, "none"),
      Command("MC_TEST_MODE", 35, 0, "none") }

CommandGetConfig == Command("CM001_GET_CONFIG", 50, 6, "local")

\* CM001::Exchange(), with a sensor board: sInputDataSize is 16.
CommandExchange == Command("CM001_EXCHANGE", 150, SizeOfSensor, "local")

AllCommands == BaseCommands \cup MotorCommands \cup
            { CommandOpen, CommandGetConfig, CommandExchange }

\* The wrapper compares the reply with the number of the command.
Echoed == {"CM_OPEN", "CM_CLOSE", "CM_PING"}

\* The commands that say what the motor is to do: those of MotorController
\* that stop or drive it, and the exchange, which carries the outputs.
ForMotor == {"MC_STOP", "MC_SET_POSITION", "MC_SET_VELOCITY",
             "MC_SET_TORQUE", "MC_SET_DUTY", "CM001_EXCHANGE"}

-----------------------------------------------------------------------------

SumUnbounded(bytes) == FoldLeft(+, 0, bytes)  \* mutant: wider than a byte

\* A BYTE to which another is added.
Plus(a, b) == (a + b) % 256

SumFromSecond(bytes) == FoldLeft(Plus, 0, Tail(bytes))  \* mutant: from 1 on

\* What the loop has added up behind the last byte.
Sum(bytes) ==
    LET sum[i \in 0 .. Len(bytes)] ==
            IF i = 0 THEN 0 ELSE Plus(sum[i - 1], bytes[i])
    IN  sum[Len(bytes)]

AddCheckSum(bytes) == Append(bytes, Sum(bytes))

CheckSum(buf) == Last(buf) = Sum(Front(buf))

Section(data, status) == AddCheckSum(Append(data, status))

StatusOf(section) == section[Len(section) - 1]

DataOf(section) == SubSeq(section, 1, Len(section) - 2)

\* What the module answers to command c in the frame of call n.  A sample
\* or a parameter block is told apart by its command and its frame.
Pattern(c, n) == [i \in 1 .. c.rx |-> IF i = 1 THEN c.code ELSE n]

Payload(c, n) ==
    CASE c.name \in Echoed -> <<c.code>>
      [] c.name = "CM_GET_ID" -> <<id>>
      [] c.name = "CM_GET_VER" -> <<Version>>
      [] c.name = "CM001_GET_CONFIG" -> Config
      [] c.name \notin Echoed \cup {"CM_GET_ID", "CM_GET_VER",
                                    "CM001_GET_CONFIG"} -> Pattern(c, n)

Zeros(k) == [i \in 1 .. k |-> 0]

\* Memory that nothing was copied to.
Unwritten == <<>>

Init ==
    /\ pc = "idle"
    /\ opened = FALSE
    /\ cell = [bID |-> Zeros(1), bVersion |-> Zeros(1), Data |-> Zeros(SizeOfData),
               config |-> Zeros(6), board |-> Zeros(SizeOfSensor), local |-> Unwritten,
               caller |-> Unwritten, stack |-> Unwritten]
    /\ bStatus = CM_NORMAL /\ ExtMode = FALSE
    /\ wReqRxSize = 0 /\ pReserveBuffer = "none"
    /\ current = [cmd |-> CommandOpen, arg |-> 0, n |-> 0, armed |-> FALSE]
    /\ queue = <<>> /\ todo = <<>> /\ reply = <<>>
    /\ id \in Id /\ motor = 0
    /\ told = [n \in 1 .. MaxCalls |-> "none"]
    /\ executed = [n \in 1 .. MaxCalls |-> 0]
    /\ forged = {} /\ asked = 0 /\ suspect = TRUE /\ faults = 0

-----------------------------------------------------------------------------

\* A call of command c has returned, with this value.  CM001::Open goes on
\* whatever ControlModule::Open has returned.  What was copied into bID by a
\* GetID that failed is only doubtful if the frame held the answer to another
\* command of one byte.
MixesBytes(c) == c.name = "CM_GET_ID" /\ pc = "deliver" /\
    \E i \in DOMAIN queue : queue[i].cmd.rx = 1 /\ queue[i].cmd # c

Answer(c, n, value) ==
    /\ told' = [told EXCEPT ![n] = value]
    /\ pc' = IF c.name = "CM_OPEN" THEN "config" ELSE "idle"
    /\ suspect' = IF value = "TRUE" /\ n \notin forged THEN FALSE
                  ELSE suspect \/ c.name \in {"CM_SET_ID", "CM_OPEN"}
                       \/ MixesBytes(c)

\* ControlModule::Transceive with a parent, up to the write of the frame.
\* An Exchange sets ExtMode first.  Transfer refuses the request or takes it
\* and sends all that is in the queue.
Transceive(c, arg, to) ==
    LET n == current.n + 1
        r == [cmd |-> c, arg |-> arg, to |-> to, n |-> n]
    IN
    /\ current.n < MaxCalls
    /\ current' = [cmd |-> c, arg |-> arg, n |-> n,
                   armed |-> ExtMode /\ c # CommandExchange]
    /\ ExtMode' = (ExtMode \/ c = CommandExchange)
    /\ pReserveBuffer' = c.dest
    /\ wReqRxSize' = c.rx + 2
    /\ asked' = IF c.name \in ForMotor THEN n ELSE asked
    /\ \/ /\ queue # <<>>
          /\ Answer(c, n, "FALSE")
          /\ UNCHANGED <<queue, todo>>
       \/ /\ queue' = Append(queue, r)
          /\ todo' = queue'
          /\ told' = [told EXCEPT ![n] = "open"]
          /\ pc' = "hub"
          /\ UNCHANGED suspect
    /\ UNCHANGED <<bStatus, reply, moduleVars, forged, faults>>

\* What is local to the wrapper, or new in the caller, is not written yet.
NewLocals == [cell EXCEPT !.local = Unwritten, !.caller = Unwritten,
                          !.stack = Unwritten]

\* The call of a wrapper.  The sizes of an exchange are those of the
\* configuration: it is only called when they are known.
Call(c, arg) ==
    /\ pc = "idle" /\ opened
    /\ c # CommandOpen
    /\ c = CommandExchange => cell.config = Config
    /\ cell' = NewLocals
    /\ Transceive(c, arg, cell.bID)
    /\ UNCHANGED opened

\* CM001::Open: ControlModule::Open sets parent and id and sends CM_OPEN.
Open(i) ==
    /\ pc = "idle"
    /\ opened' = TRUE
    /\ cell' = [NewLocals EXCEPT !.bID = <<i>>]
    /\ Transceive(CommandOpen, 0, <<i>>)

\* CM001::Open goes on with GetConfig.
OpenGoesOn ==
    /\ pc = "config"
    /\ cell' = NewLocals
    /\ Transceive(CommandGetConfig, 0, cell.bID)
    /\ UNCHANGED opened

\* Without a parent Transceive does nothing and returns TRUE; the wrapper
\* takes that for success.
CallUnopened(c, arg) ==
    /\ pc = "idle" /\ ~opened
    /\ c # CommandOpen
    /\ current.n < MaxCalls
    /\ current' = [cmd |-> c, arg |-> arg, n |-> current.n + 1, armed |-> FALSE]
    /\ ExtMode' = (ExtMode \/ c = CommandExchange)
    /\ told' = [told EXCEPT ![current.n + 1] = "unsent"]
    /\ cell' = CASE c.name = "CM_SET_ID" -> [NewLocals EXCEPT !.bID = <<arg>>]
                 [] c = CommandGetConfig -> [NewLocals EXCEPT !.config = Unwritten]
                 [] c.name # "CM_SET_ID" /\ c # CommandGetConfig -> NewLocals
    /\ UNCHANGED <<pc, opened, bStatus, wReqRxSize, pReserveBuffer, queue,
                   todo, reply, moduleVars, forged, asked, suspect, faults>>

-----------------------------------------------------------------------------

\* The section that the hub passes on, intact or with one byte damaged.
Damage == {1, 255}

SendSection(s, isRefusal, cost) ==
    \/ /\ reply' = Append(reply, s)
       /\ faults' = faults + cost
       /\ UNCHANGED forged
    \/ /\ \E i \in {1, Len(s) - 1, Len(s)}, d \in Damage :
              reply' = Append(reply, [s EXCEPT ![i] = Plus(@, d)])
       /\ faults' = faults + cost + 1
       /\ forged' = IF isRefusal THEN forged \cup {Head(todo).n} ELSE forged

\* The module carries out the next request of the frame.
Carry(status) ==
    LET r == Head(todo) IN
    /\ pc = "hub" /\ todo # <<>>
    /\ r.to = <<id>>
    /\ executed' = [executed EXCEPT ![r.n] = @ + 1]
    /\ id' = IF r.cmd.name = "CM_SET_ID" THEN r.arg ELSE id
    /\ motor' = IF r.cmd.name \in ForMotor THEN r.n ELSE motor
    /\ SendSection(Section(Payload(r.cmd, current.n), status), FALSE,
                   IF status = CM_NORMAL THEN 0 ELSE 1)
    /\ faults' <= MaxFaults
    /\ todo' = Tail(todo)
    /\ UNCHANGED <<pc, objVars, current, queue, told, asked, suspect>>

\* The module refuses it, or there is no module with that id.
Decline ==
    LET r == Head(todo) IN
    /\ pc = "hub" /\ todo # <<>>
    /\ IF r.to = <<id>> THEN SendSection(Section(<<>>, CM_NAK), TRUE, 1)
                        ELSE SendSection(Section(<<>>, CM_REPLY_NO), TRUE, 0)
    /\ faults' <= MaxFaults
    /\ todo' = Tail(todo)
    /\ UNCHANGED <<pc, objVars, current, queue, moduleVars, told, asked,
                   suspect>>

\* Nothing of the reply comes, or not in time: the requests stay queued.
Fail ==
    /\ pc = "hub"
    /\ faults < MaxFaults
    /\ faults' = faults + 1
    /\ Answer(current.cmd, current.n, "FALSE")
    /\ todo' = <<>> /\ reply' = <<>>
    /\ UNCHANGED <<objVars, current, queue, moduleVars, forged, asked>>

-----------------------------------------------------------------------------

\* mutant: a section of any size is verified and copied.
ReceiveAnySize(s) ==
    IF ~CheckSum(s)
    THEN bStatus' = CM_REPLY_SUM_ERROR /\ UNCHANGED <<cell, ExtMode>>
    ELSE /\ bStatus' = StatusOf(s)
         /\ IF Len(s) > 2 /\ (ExtMode \/ pReserveBuffer # "none")
            THEN /\ cell' = [cell EXCEPT ![IF ExtMode THEN "board"
                                           ELSE pReserveBuffer] = DataOf(s)]
                 /\ ExtMode' = FALSE
            ELSE UNCHANGED <<cell, ExtMode>>

\* CM001::Receive.  A section of another size than that of the latest
\* request only leaves its status, which is not verified.
Receive(s) ==
    IF Len(s) # wReqRxSize
    THEN bStatus' = StatusOf(s) /\ UNCHANGED <<cell, ExtMode>>
    ELSE IF ~CheckSum(s)
    THEN bStatus' = CM_REPLY_SUM_ERROR /\ UNCHANGED <<cell, ExtMode>>
    ELSE /\ bStatus' = StatusOf(s)
         /\ IF Len(s) > 2
            THEN /\ cell' = [cell EXCEPT ![IF ExtMode THEN "board"
                                           ELSE pReserveBuffer] = DataOf(s)]
                 /\ ExtMode' = FALSE
            ELSE UNCHANGED <<cell, ExtMode>>

\* The whole reply has come: the reply loop of Transfer.
Deliver ==
    /\ pc = "deliver" \/ (pc = "hub" /\ todo = <<>>)
    /\ reply # <<>>
    /\ pc' = "deliver"
    /\ Receive(Head(reply))
    /\ reply' = Tail(reply)
    /\ UNCHANGED <<opened, wReqRxSize, pReserveBuffer, current, queue, todo,
                   moduleVars, told, forged, asked, suspect, faults>>

\* What the wrapper returns once Transfer has returned TRUE: the status in
\* the object, and the comparison of the echo, if there is any.  A byte that
\* was not written may have any value.
Results ==
    IF bStatus # CM_NORMAL THEN {"FALSE"}
    ELSE IF current.cmd.name \in Echoed
    THEN CASE cell.local = Unwritten -> {"TRUE", "FALSE"}
           [] cell.local = <<current.cmd.code>> -> {"TRUE"}
           [] cell.local \notin {Unwritten, <<current.cmd.code>>} -> {"FALSE"}
    ELSE {"TRUE"}

\* mutant: SetID leaves bID to a later GetID.
StoredNoId ==
    IF current.cmd = CommandGetConfig THEN [cell EXCEPT !.config = cell.local]
    ELSE cell

\* What the wrapper does when it has succeeded.
Stored ==
    CASE current.cmd.name = "CM_SET_ID" -> [cell EXCEPT !.bID = <<current.arg>>]
      [] current.cmd = CommandGetConfig -> [cell EXCEPT !.config = cell.local]
      [] current.cmd.name # "CM_SET_ID" /\ current.cmd # CommandGetConfig -> cell

\* mutant: the queue is not emptied.
ReturnKeepsQueue ==
    /\ pc = "deliver" /\ reply = <<>>
    /\ \E value \in Results :
           /\ Answer(current.cmd, current.n, value)
           /\ cell' = IF value = "TRUE" THEN Stored ELSE cell
    /\ UNCHANGED <<opened, bStatus, ExtMode, wReqRxSize, pReserveBuffer,
                   current, queue, todo, reply, moduleVars, forged, asked,
                   faults>>

\* Transfer empties the queue, and the wrapper returns.
Return ==
    /\ pc = "deliver" /\ reply = <<>>
    /\ \E value \in Results :
           /\ Answer(current.cmd, current.n, value)
           /\ cell' = IF value = "TRUE" THEN Stored ELSE cell
    /\ queue' = <<>>
    /\ UNCHANGED <<opened, bStatus, ExtMode, wReqRxSize, pReserveBuffer,
                   current, todo, reply, moduleVars, forged, asked, faults>>

Next ==
    \/ \E c \in AllCommands :
           /\ c.name \in Used
           /\ \E arg \in (IF c.name = "CM_SET_ID" THEN Id ELSE {0}) :
                  Call(c, arg) \/ CallUnopened(c, arg)
    \/ \E i \in Id : Open(i)
    \/ OpenGoesOn
    \/ \E status \in {CM_NORMAL, MC_SENSOR_ERROR} : Carry(status)
    \/ Decline \/ Fail \/ Deliver \/ Return

Spec == Init /\ [][Next]_vars

-----------------------------------------------------------------------------

\* Every variable has its type.
TypeOK ==
    /\ pc \in {"idle", "hub", "deliver", "config"}
    /\ opened \in BOOLEAN /\ ExtMode \in BOOLEAN
    /\ bStatus \in Byte /\ wReqRxSize \in Nat
    /\ current.n \in 0 .. MaxCalls
    /\ reply \in Seq(Seq(Byte))
    /\ id \in Id /\ motor \in 0 .. MaxCalls /\ asked \in 0 .. MaxCalls
    /\ told \in [1 .. MaxCalls -> {"none", "open", "TRUE", "FALSE", "unsent"}]
    /\ executed \in [1 .. MaxCalls -> Nat]
    /\ forged \subseteq 1 .. MaxCalls
    /\ suspect \in BOOLEAN /\ faults \in 0 .. MaxFaults

\* Object and module agree on the id between calls, except after a SetID or
\* an Open that returned FALSE, or a GetID that did so with the answer to
\* another one-byte command in its frame, and until a call returns TRUE.
\* (ControlModule.h:253: a SetID that failed is still in the queue and takes
\* effect in the frame of some later command.)
AddressKnown == pc = "idle" /\ opened /\ ~suspect => cell.bID = <<id>>

Answered(n) == n > 0 /\ told[n] = "TRUE" /\ n \notin forged

\* Where the reply to a command belongs.  For GetParam it is the caller's
\* structure, as in MotorController, although the code passes another place.
Target(c) ==
    CASE c = CommandExchange -> "board"
      [] c = CommandGetConfig -> "config"
      [] c.name = "CM_GET_PARAM" -> "caller"
      [] c \notin {CommandExchange, CommandGetConfig}
         /\ c.name # "CM_GET_PARAM" -> c.dest

InPlace == cell[Target(current.cmd)] = Payload(current.cmd, current.n)

\* A command with data in its reply has returned TRUE.
HasReply ==
    /\ pc = "idle" /\ Answered(current.n) /\ ~current.armed
    /\ current.cmd.rx > 0

\* A call that returned TRUE has the module's answer to its own command, of
\* its own frame, where it belongs, whatever answers to earlier commands were
\* in the frame; unless an exchange was outstanding, or a refusal was damaged
\* into a success.  GetParam is excepted: see ParamReachesCaller.
OwnReply == HasReply /\ current.cmd.name # "CM_GET_PARAM" => InPlace

\* SC02.cpp:229 "Copy received data to registrated pointers": the parameters
\* that GetParam asks for reach the structure of its caller when it returns
\* TRUE.  (ControlModule.h:284 registers the address of the pointer.)
ParamReachesCaller == HasReply /\ current.cmd.name = "CM_GET_PARAM" => InPlace

\* Nothing that was damaged on the way is ever copied: the checksum finds
\* every damage of one byte, and no path around it copies data.
Genuine ==
    { Unwritten, <<Version>>, Config, Zeros(1), Zeros(6), Zeros(SizeOfSensor),
      Zeros(SizeOfData) }
    \cup { <<i>> : i \in Id }
    \cup { <<c.code>> : c \in { d \in AllCommands : d.name \in Echoed } }
    \cup { Pattern(c, n) : c \in AllCommands, n \in 1 .. MaxCalls }

NothingDamaged == \A place \in DOMAIN cell : cell[place] \in Genuine

\* When the latest command for the motor has returned TRUE, it is what the
\* motor does, and nothing that failed earlier can change that, while commands
\* that are not for the motor are called: a stop that was confirmed holds, in
\* spite of exchanges that were given up before it.
MotorAsTold == Answered(asked) => motor = asked

\* What callers are told: a damaged refusal that is taken for success
\* counts as no answer, and so does a command that was never sent.
AsTold ==
    [n \in 1 .. MaxCalls |->
        IF (n \in forged /\ told[n] = "TRUE") \/ told[n] = "unsent"
        THEN "FALSE" ELSE told[n]]

Service == INSTANCE CommandService WITH
    Number <- 1 .. MaxCalls, told <- AsTold, executed <- executed

\* TRUE means carried out exactly once, in spite of requests that failed
\* calls leave in the queue and later calls repeat.
ImplementsService == Service!Spec
=============================================================================
