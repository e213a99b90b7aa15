# Models of the SC02 / CM001 motor server

The repository is a Windows console program (`src/virtual_contest/`). It opens
an SC02 serial hub over USB, talks through it to CM001 control modules (a
sensor or encoder board on port A, a PWM, DA or PIO board on port B), and
serves one TCP client, a Unity application. The client sends numbers that mean
run or stop and gets filtered sensor values back.

Line numbers below are those of `src/virtual_contest/`.

## 1. Inventory

| Part | State it keeps | Operations | Correct when |
| --- | --- | --- | --- |
| Transfer queue of the hub object (`SC02::Transfer`) | `bComDeviceCount`, `iTxBufCount`, `iRxBufCount`, `pChildModule`, `TransferTxBuffer` | queue a request, flush, refuse, error return | nothing is written past the buffers; section i of a reply goes to the object of request i; an accepted request is not lost |
| Module objects (`ControlModule`, `CM001`) | `bStatus`, `wReqRxSize`, `pReserveBuffer`, `ExtMode`, board objects | `Transceive`, `Exchange` (two forms), queries, settings, `Receive` | TRUE means that the module carried the command out and that its reply is where the caller looks |
| Hub transceive (`SC02::Transceive`) | `TxBuffer`, `RxBuffer`, `TransferRxBuffer` | write, read with a 20 s timeout, short reads | a reply is taken for that of its own frame |
| Hub handle (`SC02::Open`, `DeviceOpen`, `Close`) | `hUSB`, `bID`, events | open by id, close, destruct | `hUSB` tells what is open; only the asked-for device stays open |
| Server (`main` in Ex.cpp) | `iVal0/1`, `PwmBoard`, `Sensor`, `read_Sensor*`, `buffer` | open hub and module, accept; exchange, SetData, recv, parse, filter, send, ESC | a stop reaches the motor, also one that an earlier run has left driven; the number read is the number sent (it is not always: `server_text`); ESC and a disconnect end it |
| Keyboard loop (`Exchange()` in Ex.cpp) | `iVal0/1` | keys, exchange, zero on exit | leaving it, by ESC or a failure, leaves the outputs of a PWM or DA board at zero |
| Commands (`MotorController`, `ControlModule`) | `bID`, `bVersion` | about thirty one-line wrappers of `Transceive` | object and module agree on the id; TRUE means carried out once, with the answer to this command where the caller looks (not so for `GetParam`: `commands_param`); a stop that was confirmed holds |
| Checksum (`AddCheckSum`, `CheckSum`) | none | add and verify a sum mod 256 | no damaged byte reaches the caller as data |
| Time measurement (`Measurement.cpp`) | time stamps | start, lap, wait, save, print | (only printed by the loops) |
| External: USB link, hub and module firmware, Unity client | frames and bytes under way | serve, answer, delay, refuse, reset; send, close | |

**How they interact.** Everything in the program runs on one thread. A module
method calls `ControlModule::Transceive`, which calls `Transfer` of the parent,
the hub object, with a pointer to itself. `Transfer` with `RightNow` calls
`SC02::Transceive`, and then calls back `Receive` of every object in the frame.
The concurrency is with what is outside: the hub serves frames and sends
replies while the program waits, gives up waiting, or has gone on; the client
sends, is silent or goes away while the program is anywhere in its loop.

**What is hard.** Requests that stay in the queue after an error and go out
again with later ones; a reply that comes after its timeout; one `ExtMode`, one
`pReserveBuffer` and one `wReqRxSize` per object for many outstanding requests;
return values that are ignored; the output that is sent one cycle after it was
chosen; a text buffer that is never cleared. `PROJECT.json` lists each hazard at
its line with the properties that cover it.

## 2. Modules

| Module | Models | Uses |
| --- | --- | --- |
| `TransferQueue` | `SC02::Transfer`, split where it calls `Transceive` | |
| `ModuleBus` | modules, hub transceive, reply loop, link and hub | `Queue == INSTANCE TransferQueue` |
| `CommandService` | what a module promises its caller, no more | |
| `Commands` | the command wrappers, `Receive` and the checksum, for one module | `Service == INSTANCE CommandService WITH told <- AsTold, ...` |
| `Server` | `main`: start-up, accept, loop, with its client | the exchange of `ModuleBus` reduced to served, failed or refused |
| `HubHandle` | `SC02::Open`, `DeviceOpen`, `Close`, constructor and destructor | |
| `ExchangeLoop` | `Exchange()` of Ex.cpp with `SetData` | the exchange, as in `Server` |
| `MC*` | constants and model values for TLC | the module they are named after |
| `*Proofs` | theorems | the module they are named after, `TLAPS` |
| `ReplyProofs` | theorems about what a call on the bus returns | `ModuleBusProofs` |
| `AnswerProofs` | theorems about the checksum and what answers leave in an object | `CommandsProofs` |

### TransferQueue

Bytes are counted, not stored. A request is a record with its object and the
two sizes that `ControlModule::Transceive` computes. `sections` is what
`TransferTxBuffer` encodes, and `Accounting` compares the two byte counters of
the code with the sizes in it. `Refuse`, `Defer`, `StartTransceive`, `EndProcess`
and `TransceiveError` are the exits of `Transfer`: too large, queued, the call
of `Transceive`, its success and its failure. A refusal has side effects in the
code (the slot is written, a first request sets the counters to 1 and 0) and so
it has them here. The guard `bComDeviceCount == 256` (line 175) compares a BYTE
with 256, never holds, and is left out; that the counter does not wrap is a
consequence of the size checks, and proved.

### ModuleBus

One call runs at a time: `Call` (a method up to the write), `WriteFile`,
`ReadFull` or `ReadTimeout`, one `DeliverSection` per section, `Return`; or
`WriteOrReadError`. The hub steps `Serve`, `CloseReply` and `DropFrame` happen
in between at any point. A reply byte is a cell that says which frame, request,
result and byte it is; `Intact` finds a whole section at a position of
`TransferRxBuffer`, and a position without one yields `Garbage`: any status,
and any data if a reply with data is expected. Kinds of command stand for the
wrappers: *exchange*, *raw*, *query* (a reply into a local variable) and *set*
(no data).

Nondeterminism for undefined or unknown values: the status byte in front of
`RxBuffer` after an empty read, the checksum byte that ends a reply that is cut
after a section, the status byte of a damaged section. The results of a request
are: carried out (*ok*), an error of the module (*err*), refused (*nak*), and
each of these with a byte damaged on the way (*corrupt*, or *forged* for a
refusal). `Receive` looks at the checksum only when the section has the size
that the object expects; the status of any other is taken as it is, so a damaged
refusal may be taken for a success. `forged` is a history variable with the
calls whose refusals were damaged.

`clean` is a history variable: no earlier frame or reply was under way when the
frame was written, and the read was not given up while the hub was at work.
Without it almost nothing holds, since replies carry nothing that the code
compares with the request. `TrueMeansServed`, `ExchangeFresh` and
`QueryDelivered` say what holds with it, for calls that are not in `forged`.
`GoneOnlyByBacklog` and `StepsBackInRepeat` do without both. The latter is about
the requests that an error leaves in the queue, and the frames that are carried
out after they were given up: a module's output can go back to that of an older
call, but only while a frame is served in which the newer request follows.

### CommandService and Commands

`ModuleBus` has the bus with many modules and kinds of command; `Commands` has
one module and its commands as they are: number, reply size, and where the
reply is copied to (a member, a local variable, the caller's structure, the
stack in the case of `GetParam`, or nowhere). `Target` is where it belongs.
The two differ for `GetParam`, which `OwnReply` excepts and `commands_param`
shows; what its 12 bytes overwrite on the stack is not modelled. `Call` and `Open` are a wrapper up
to the end of `Transceive`'s request, `Carry` and `Decline` the module and the
hub, `Deliver` one `Receive` of the reply loop, `Return` the rest of the wrapper
with `Stored`, the members it sets; `OpenGoesOn` is the second command of
`CM001::Open`, which is sent whatever became of the first. Reply sections are
byte sequences with the checksum of the code (`Sum`, a recursive function over
the bytes that adds as a BYTE does); a fault loses a reply, adds an
error of the module, refuses a request, or adds 1 or 255 (as a byte, -1) to the
first byte, the status or the checksum of a section. Sizes of frames are
`TransferQueue`'s; here a request may always be refused when others wait.

The link of `Commands` is kinder than that of `ModuleBus`: a frame that timed
out is served up to a point before the call returns and never later, and its
reply is lost. What a late reply can do is `ModuleBus`'s subject.

Three things the code cannot tell are kept in history variables and named in
the properties: a refusal that was damaged on the way (`forged`: a section of
another size leaves its status unverified, line 98 of CM001.cpp, so a damaged
CM_NAK or CM_REPLY_NO can become CM_NORMAL), a call made with an exchange
outstanding (`current.armed`, the subject of `bus_query`), and doubt about the
id (`suspect`: after a `SetID` or `Open` that returned FALSE, and after a
`GetID` that did so with the answer to another one-byte command in its frame,
until some call returns TRUE).

`ForMotor` are the commands that say what the motor is to do: those of
`MotorController` that stop or drive it, and the exchange, which carries the
outputs of the boards.

`CommandService` is two functions, what each call was told and how often it
was carried out. `AsTold` maps a call that was never sent for lack of a
parent, and a damaged refusal taken for success, to FALSE.

### Server

`OpenHub` and `OpenModule` succeed or end the program (`HubHandle` and
`Commands` have their details). `Accept` waits for a client; `AcceptFails` is
any failure of `bind`, `listen` or `accept`, none of which is looked at: `recv`
then returns at once, as it does after a disconnect. The motor may be driven at
the start, since no way out of the loop sends zero: this is how a restart after
ESC, or after the exception of `stod`, enters the model.

Then one action per step of the loop. `ExchangeServed`, `ExchangeFails` and
`ExchangeRefused` are what `Module00.Exchange(TRUE)` can do as `ModuleBus` has
it, for one module: `retained` is the number of exchanges in the hub's queue,
`Capacity` how many fit, `queued` the outputs they carry. A failing exchange may
still have any part of its frame carried out, the retained requests included,
and one whose reply is an error of the module empties the queue (the sample of
such a reply is taken all the same, since data is copied before the status is
looked at). The late
execution of a frame after its timeout is not in this module; `ModuleBus` has
it. The client's text is kept as digits because the bytes that stay in `buffer`
change the number that is read (`Number`, a recursive function over the
characters). `quiet` counts served exchanges since the start or
the last change to stop.

### HubHandle

One action per outcome of `DeviceOpen` and one each for the start of `Open`,
`Close` and the destructor. A handle is the number of its device. The answers
to `GetID` are its id, a lone status byte (accepted by `Transceive` as a short
reply, so that its value, `CM_NORMAL`, becomes the id) and none (`bID` keeps
what an earlier hub has left, 0 at first). The object is opened only while it
is not open, as main does; the events of overlapped mode are left out. After an
`Open` that tried a device and failed, `hUSB` is not NULL, and what relies on it (line 44, line
130) uses an invalid or closed handle: `HandleTellsOpen` says that this is the
only such case.

### ExchangeLoop

`KeyAndSetData` is a turn up to the exchange, `Turn` the exchange and the test
of `loop`, `ZeroData` and `LastExchange` the code behind it. Port A has an
input board. `Junk` is what the two uninitialised ints hold; in a build with
run-time checks the program may stop there instead. `left` counts the requests
that `TestCM`, whose results are ignored, can leave in the queue (two: its
version query and its ping, or its blink). `Short` is the conversion to the
16-bit registers. The function is only called from code behind the first
`return` of `main`; it is modelled as the loop that the comments there describe
as the basic use of the module.

## 3. Runs

| Run | Shows | Bounds |
| --- | --- | --- |
| `queue` | all six properties of the queue | 40-byte buffers: up to four small requests, one size reaches the end exactly, then the wedge |
| `queue_frame` (violation) | a reply of exactly 256 bytes passes the check of `Transfer`, and `Transceive` reads 257 | the real sizes, two modules |
| `bus` | what TRUE guarantees, and when a module can go back to an older output | 2 modules, 3 exchanges and queries, 2 faults, a queue of three exchanges (two and a query are refused) |
| `bus_live` | every call returns; the guarantees for all kinds of command | 2 modules, 2 calls, 2 faults |
| `commands` | TRUE means carried out once and with the command's own answer; the id is known; nothing damaged is copied; a confirmed stop holds; the commands implement `CommandService` | `Open` (two commands) and three more calls in any order, 2 faults, 2 ids, seven commands: one of each kind of reply and argument |
| `commands_param` (violation) | `GetParam` returns TRUE and its caller's structure is unwritten | `Open` and one more call, no fault |
| `bus_query` (violation) | `GetConfig` after `Exchange(FALSE)` returns TRUE with an unwritten buffer | 1 module, no fault |
| `server` | two served exchanges stop the motor, also one that an earlier run has left driven; the filter stays in range; stop and ESC are eventually obeyed | numbers of one and two digits, received in any pieces, whose bytes stay in the buffer; queue of 2, 2 failures: the queue can fill; sensor and encoder board |
| `server_text` (violation) | 50, then 1, each received whole and answered: the second is read as 10 | no failures |
| `server_gone` (violation) | a client that has gone leaves `main` running on its last number | no failures |
| `handle` | only the device that `Open` returned TRUE for is open, and it has the id asked for if it told one | three hubs, each of them may be missing, busy or silent at each attempt; targets with and without a hub |
| `loop` | zero is the last output, the queue stays open, ESC ends the loop | 3 keys, queue of 3 with up to 2 left, initial values next to both limits |

**Why the bounds are enough.** Three calls are the smallest number at which a
frame holds two retained requests and the caller's own, which is where the
per-object fields (`ExtMode`, `pReserveBuffer`, `wReqRxSize`) can be wrong in
combination; two modules are what it takes for a reply to reach an object other
than the caller's. `ExchangeIn` and `QueryIn` differ, as all sizes of the
program do (14 or 16 bytes for an exchange; 1, 6, 12, 20 or 32 for a query). In `commands`
the three calls behind `Open` let any pair of commands follow a third that may
have left its request in the queue, and two faults leave up to two requests in
the frame of the last call; the checksum is checked for the damage of one byte of a section at a time,
which is what a sum can find. In the
server a queue of two stands for eleven (sensor) or twelve (encoder)
exchanges. The filter is checked on samples 0 and 10, so that all its roundings
occur, and proved for all. Three hubs are enough for an id that is left from
an earlier hub to be compared with that of a later one. In `loop` the queue of
three is full after the two requests left before and one failure, so that the
last exchange is also refused.

**Fairness.** `ModuleBus`: the calling thread goes on (`ReadFile` has a
timeout), and the hub goes on with a frame it has. `Server`: `main` goes on
unless it is blocked in `accept` or `recv`; `FedSpec` adds that a client comes
and goes on sending while it is connected, which the program does not control: it is the assumption under which
`StopReachesMotor` and `EscEnds` hold. Without it neither does: with no client,
or a silent one, `main` waits in `accept` or `recv` and never looks at the key.
`StopReachesMotor` also needs failures to end, as the bound on them
makes them: only an exchange that is served can stop the motor.
`ExchangeLoop`: the loop never waits, since `_getch` follows `_kbhit` and an
exchange ends with its timeout.
`StopReachesMotor` excepts a queue that is full: it stays so
(`WedgeIsPermanent`), and the motor keeps its output.

`CHECK_DEADLOCK FALSE` is set where the calls are bounded or the program may
end or wait for ever.

**Mutants.** Every property of a passing run has a mutant of the code that
breaks it; the mutants are the definitions marked `mutant` next to what they
replace.

## 4. Proofs

Every invariant and every action property that a passing run checks is also a
theorem, for every value of the constants that the modules' assumptions allow.

* `TransferQueueProofs`: type correctness, `BufferBounds`, `ReplyRouting`,
  `Accounting`, `AcceptedNeverLost`, `WedgeIsPermanent` for every set of
  requests and all sizes with `RequestAssumption` and `SizeAssumption` (sizes of
  requests are positive; the buffer is no larger than a BYTE counts).
  `ReplyRouting` is not inductive: the counter could wrap. `CountBelowBytes`
  adds that there are fewer requests than bytes in the frame. `Accounting` rests
  on `TotalsWithOne`: one more request adds its own size to the total.
* `ModuleBusProofs`: type correctness of the bus, and `GoneOnlyByBacklog`, from
  `BusInv`, which says where each pointer of an object and each request of a
  frame comes from (each step of the bus being one of the queue or none,
  the queue's invariants are used as they are); and `StepsBackInRepeat`, from
  `RepeatInv`: the queue and every frame on the wire hold their requests in the
  order of the calls, and whenever one of them has a request older than what a
  module has carried out, it has that newer one, too.
* `ReplyProofs`: `TrueMeansServed`, `ExchangeFresh` and `QueryDelivered`, each
  with its exception for a damaged refusal. None of
  them is inductive: they speak of a call that has returned, and the code then
  knows no more than a status byte. `ReadingInv` follows the reply while it
  comes: the bytes so far are the sections of the first k requests, each of
  the size that its result gives it, the hub still has the other requests in
  the same order, and no section starts behind the place it would have if all
  requests were carried out. So the read can end on a whole reply only, in
  spite of its accepting short ones. `DeliveringInv` follows the reply loop
  through the sections and says what they have left in the caller's object.
* `CommandsProofs`: `MotorAsTold`, and that the commands implement
  `CommandService`, for any commands, ids, and numbers of calls and faults; what
  the service promises (`TrueMeansOnce`) then holds of the commands. The code
  knows no more than one status byte when a call returns, so `CmdInv` ties it to
  the latest request: that request is the last of the frame (`RequestsOK`), and
  when the frame is served it was carried out once, or its refusal was damaged,
  or the last status that the object has or will receive is not `CM_NORMAL`
  (`RepliesOK`). Requests that wait were never answered TRUE, and none of them is
  for the motor once the latest command for the motor was answered. The proof
  does not need the checksum: what protects the caller is that `Receive` keeps
  the status of the last section and that `Transfer` empties the queue.
* `AnswerProofs`: what does need the checksum. `DamageFound` says that a section
  of any length with one byte changed by any amount does not pass `CheckSum`.
  Three invariants follow, each on top of the one before. `DataInv` adds the
  types and that what passes the checksum is the payload of some request of the
  frame: type correctness and `NothingDamaged`. `OwnInv` adds that the last
  section is that of the latest request (`LastOK`) and which answer an
  outstanding exchange takes (`FrameOK`): `OwnReply`. `AddressInv` adds who
  knows the id: between calls nothing waits that could change it (`SettledOK`),
  a request that was carried out was addressed to the module under its id
  (`SentOK`, `ServedOK`), and a frame that cannot unsettle the id leaves it
  known even when its call fails (`KnownOK`): `AddressKnown`.
* `ServerProofs`: type correctness, `StopsWithTheSecond` and `FilterBetween`, for
  all texts, samples, buffer contents and numbers of failures. `OutputLoaded`
  relates the loaded output to the number of served exchanges and the place in
  the loop; `QueueLoaded` says the same of the outputs in the hub's queue, which
  a failing exchange may still have carried out. `NumberIsTheSent` is false
  (`server_text`).
* `HubHandleProofs`: type correctness, `OnlyTheOneOpen`, `OpensTheTarget` and
  `HandleTellsOpen` for every number of hubs and all ids. They are inductive
  together with the types: what a loop finds open depends on what the one
  before left.
* `ExchangeLoopProofs`: `QueueStaysOpen` (with the bound by place of
  `QueueInv`), `ZeroAtEnd` (with zero loaded when the last exchange is made)
  and type correctness (the registers fit 16 bits whatever the ints hold; a PIO
  board's word is always all zeros or all ones, which `TypeInv` adds), for any
  room in the queue, any number of keys and any initial values.

**Sums and texts.** `Sum`, `Number` and `Total` are recursive functions. The
library's induction theorems take an operator as a parameter and cannot be used
by the installed provers, so facts about them are proved by induction on *sets*
of numbers (`NatSetInduction`, from the well-founded order of the natural
numbers): running values exist (`RunningSums`, `RunningValues`,
`RunningTotals`) and the recursive function is the running value at its end.

**Assumptions.** They are those of the modules (`RequestAssumption`,
`SizeAssumption`, `BusAssumption`, `ServerAssumption`, `CommandsAssumption`,
`StampAssumption`, ...), which TLC evaluates in the runs. `BusAssumption` says
that the kinds of command are the four of the module, that a reply with data
has at least a byte of it, and that the buffer is no larger than a BYTE counts.
`StampAssumption` bounds the number of calls by 255: a payload in `Commands` is
told apart by the number of its call, which is one byte of it. `AnswerProofs`
uses it; `CommandsProofs` does not.

**Only model-checked.** Liveness (`CallReturns`, `StopReachesMotor`, both
`EscEnds`), which rests on fairness and is out of the prover's reach. The
properties of the violation runs are false of the code.

## 5. Not modelled

* **`ResetModules` and the overlapped mode of the hub object**: nothing calls
  the one or asks for the other.
* **Boards**: `Server` has a PWM board on port B and any input board on port A,
  `ExchangeLoop` any board on port B and an input board on port A. DA and PIO
  boards in `Server` would follow the same path through `SetData` and add
  registers, no control. A PIO board on port A adds a data word with one
  output pin, which each turn complements twice (lines 102 and 108).
* **`Measurement.cpp`**: the time stamps that the loops take are only printed;
  `MES_Save`, `MES_WaitNextTime` and `MES_PrintData` have no caller.
* **`Server.cpp`**: the whole file is commented out.
* **`TestSC`, `TestCM`** and the code of `main` behind its first `return`: what
  they can leave in the hub's queue is `left` in `ExchangeLoop`.
* **`ftd2xx.h`**: vendored declarations; the functions behind them are external
  actions. Console output and error texts are left out everywhere.

What could follow: the exchange of `Server` and `ExchangeLoop` as a refinement
of `ModuleBus` with one module, which its late frames and unwritten replies
make more than a renaming; commands on the bus of several modules.
