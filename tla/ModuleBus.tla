----------------------------- MODULE ModuleBus -----------------------------
(***************************************************************************)
(* Several CM001 modules that share one SC02 hub object: ControlModule and *)
(* CM001 (Transceive, Exchange, Receive), SC02 (Transceive and the reply   *)
(* loop of Transfer) and, outside the program, the USB link and the hub.   *)
(*                                                                         *)
(* The program is one thread: a call of a module runs until it returns,    *)
(* the hub and the link run beside it.  The transfer queue is the one of   *)
(* TransferQueue.                                                          *)
(*                                                                         *)
(* Abstracted: a byte of a reply is a cell that says of which frame and    *)
(* request it is, and which byte of the section.  Commands are four kinds: *)
(*   "exchange"  CM001::Exchange(RightNow), reply into the board objects   *)
(*   "raw"       CM001::Exchange(out, in, RightNow), reply into a buffer   *)
(*               of the user, who is supposed to keep it                   *)
(*   "query"     a command with a reply into a local variable (GetConfig,  *)
(*               Ping, Open, Close)                                        *)
(*   "set"       a command without data in the reply (SetParam, Blink)     *)
(* Only the first two have a RightNow argument.                            *)
(*                                                                         *)
(* External: the hub takes the frames in the order they were written,      *)
(* serves the requests of a frame in order and sends the section of each   *)
(* as it gets it, then its own status byte.  A module that does not accept *)
(* a request answers with a status byte and checksum only.  A fault may    *)
(* damage one byte of what a module answers, on its line to the hub; the   *)
(* header of a section is the hub's own.                                   *)
(***************************************************************************)
EXTENDS Integers, Sequences, SequencesExt

CONSTANTS Child, NoChild, SC_BUF_SIZE, BYTE_SIZE, TX_HEADER, RX_HEADER,
          Kind,        \* the kinds of command that are used
          ExchangeIn,  \* sInputDataSize of every module
          QueryIn,     \* bytes of data in the reply to a query
          MaxCalls,    \* bound: calls of the modules' methods
          MaxFaults    \* bound: faults of the link, the hub and the modules

\* Two kinds of command have data in the reply; the sizes of SC02.h and of
\* BYTE are as weak as the proofs need them.
ASSUME BusAssumption ==
    /\ NoChild \notin Child
    /\ Kind \subseteq {"exchange", "raw", "query", "set"}
    /\ {ExchangeIn, QueryIn} \subseteq Nat \ {0}
    /\ SC_BUF_SIZE \in Nat \ {0}
    /\ BYTE_SIZE \in Nat
    /\ SC_BUF_SIZE <= BYTE_SIZE
    /\ {TX_HEADER, RX_HEADER} \subseteq Nat
    /\ {MaxCalls, MaxFaults} \subseteq Nat

VARIABLES
    bComDeviceCount, iTxBufCount, iRxBufCount, pChildModule, sections,
    countByte, transceiving, returned,   \* of TransferQueue
    mod,       \* the ControlModule and CM001 fields of every module
    phase,     \* where the calling thread is: idle, write, read, deliver
    current,   \* the latest call, by number, and the state it found
    answer,    \* what the latest call returned, FALSE while it runs
    idx, pos,  \* the reply loop: section to deliver, and where it starts
    image,     \* TransferRxBuffer
    buffer,    \* call number |-> what was copied to the call's own buffer
    dead,      \* calls whose buffer, already gone, was written
    wire,      \* frames the hub has still to serve, in part or whole
    pipe,      \* reply bytes not yet read
    out,       \* the call whose output the module drives
    served,    \* calls that a module carried out and answered CM_NORMAL
    forged,    \* calls that a module refused with an answer that was damaged
    clean,     \* no earlier frame or reply was under way at the write, and
               \* the read was not given up while the hub was at work
    faults     \* faults so far

queueVars == <<bComDeviceCount, iTxBufCount, iRxBufCount, pChildModule,
               sections, countByte, transceiving, returned>>
linkVars == <<wire, pipe, out, served, forged>>
loopVars == <<idx, pos, image>>
dataVars == <<buffer, dead>>
vars == <<queueVars, mod, phase, current, answer, loopVars, dataVars,
          linkVars, clean, faults>>

-----------------------------------------------------------------------------

DataIn(kind) == CASE kind \in {"exchange", "raw"} -> ExchangeIn
                  [] kind = "query" -> QueryIn
                  [] kind = "set" -> 0

\* The request that ControlModule::Transceive passes to Transfer: command
\* and checksum go out, status and checksum come back.
Req(m, kind, n) == [child |-> m, kind |-> kind, call |-> n,
                    tx |-> 2, rx |-> DataIn(kind) + 2]

Request == { Req(m, kind, n) : m \in Child, kind \in Kind, n \in 1 .. MaxCalls }

Queue == INSTANCE TransferQueue

\* A section of a reply: the answer to request r in frame f.  A refusal has
\* no data.  A cell with byte 0 is the status byte of the hub.
Refusal == {"nak", "forged"}

SectionSize(r, result) == IF result \in Refusal THEN 2 ELSE r.rx

Cell(f, r, result, k) ==
    [frame |-> f, call |-> r.call, size |-> SectionSize(r, result),
     result |-> result, byte |-> k]

Section(f, r, result) ==
    [k \in 1 .. RX_HEADER + SectionSize(r, result) |-> Cell(f, r, result, k)]

HubStatus(f, result) ==
    [frame |-> f, call |-> 0, size |-> 0, result |-> result, byte |-> 0]

\* What a buffer can hold: nothing of the bus, a sample (the answer to a
\* call, in a frame), or bytes that are no answer.
Nothing == [frame |-> 0, call |-> 0]
Garbage == [frame |-> -1, call |-> -1]

CanFail == faults < MaxFaults

Init ==
    /\ Queue!Init
    /\ mod = [m \in Child |-> [bStatus |-> "CM_NORMAL", wReqRxSize |-> 0,
                               ExtMode |-> FALSE, pReserveBuffer |-> 0,
                               kept |-> FALSE, board |-> Nothing]]
    /\ phase = "idle"
    /\ current = [child |-> NoChild, kind |-> "none", call |-> 0,
                  armed |-> FALSE]
    /\ answer = FALSE
    /\ idx = 0 /\ pos = 0 /\ image = <<>>
    /\ buffer = [n \in 1 .. MaxCalls |-> Nothing]
    /\ dead = {}
    /\ wire = <<>> /\ pipe = <<>>
    /\ out = [m \in Child |-> 0]
    /\ served = {}
    /\ forged = {}
    /\ clean = TRUE
    /\ faults = 0

-----------------------------------------------------------------------------

\* A method of module m up to the write of the frame: CM001::Exchange sets
\* ExtMode, ControlModule::Transceive its reply buffer and size, before
\* Transfer decides whether the request is taken.  With RightNow = FALSE
\* the status that is returned is the one some earlier call has left.
Call(m, kind, RightNow) ==
    LET r == Req(m, kind, current.call + 1)
    IN
    /\ phase = "idle"
    /\ current.call < MaxCalls
    /\ current' = [child |-> m, kind |-> kind, call |-> r.call,
                   armed |-> mod[m].ExtMode]
    /\ mod' = [mod EXCEPT ![m].ExtMode = @ \/ kind = "exchange",
                          ![m].pReserveBuffer = r.call,
                          ![m].kept = (kind = "raw"),
                          ![m].wReqRxSize = r.rx]
    /\ \/ /\ Queue!Refuse(r)
          /\ answer' = FALSE
          /\ phase' = phase
       \/ /\ ~RightNow
          /\ Queue!Defer(r)
          /\ answer' = (mod[m].bStatus = "CM_NORMAL")
          /\ phase' = phase
       \/ /\ RightNow
          /\ Queue!StartTransceive(r)
          /\ answer' = FALSE
          /\ phase' = "write"
    /\ UNCHANGED <<loopVars, dataVars, linkVars, clean, faults>>

\* mutant: a call that fails takes its own request back.
FailTakesBack ==
    /\ transceiving
    /\ transceiving' = FALSE
    /\ returned' = FALSE
    /\ bComDeviceCount' = bComDeviceCount - 1
    /\ iTxBufCount' = iTxBufCount - TX_HEADER - Last(sections).tx
    /\ iRxBufCount' = iRxBufCount - RX_HEADER - Last(sections).rx
    /\ sections' = Front(sections)
    /\ answer' = FALSE
    /\ phase' = "idle"
    /\ UNCHANGED <<pChildModule, countByte, mod, current, loopVars, dataVars>>

\* SC02::Transceive returns FALSE, so does Transfer, so does the method.
Fail ==
    /\ Queue!TransceiveError
    /\ answer' = FALSE
    /\ phase' = "idle"
    /\ UNCHANGED <<mod, current, loopVars, dataVars>>

\* FT_W32_WriteFile succeeds: the frame is on its way to the hub.
WriteFile ==
    /\ phase = "write"
    /\ wire' = Append(wire, [frame |-> current.call, todo |-> sections])
    /\ phase' = "read"
    /\ clean' = (wire = <<>> /\ pipe = <<>>)
    /\ UNCHANGED <<queueVars, mod, current, answer, loopVars, dataVars,
                   pipe, out, served, forged, faults>>

\* hUSB is NULL, or FT_W32_WriteFile or FT_W32_ReadFile fails.
WriteOrReadError ==
    /\ phase \in {"write", "read"}
    /\ CanFail
    /\ faults' = faults + 1
    /\ Fail
    /\ UNCHANGED <<linkVars, clean>>

\* The size SC02::Transceive asks FT_W32_ReadFile for: it adds the hub's
\* status byte.
wSize == iRxBufCount + 1

\* Fewer bytes than asked for have come.
ShortButSome == Len(pipe) \in 1 .. wSize - 1  \* mutant: no timeout without any

Short == Len(pipe) < wSize

\* mutant: the hub's status byte is copied with the reply.
AcceptWithStatus(n) ==
    /\ image' = (IF n < Len(pipe) THEN SubSeq(pipe, 1, n + 1) ELSE pipe)
                  \o SubSeq(image, n + 2, Len(image))
    /\ idx' = 0
    /\ pos' = 1
    /\ phase' = "deliver"
    /\ UNCHANGED <<queueVars, mod, current, answer, dataVars>>

\* memcpy of the first n bytes read to TransferRxBuffer, and on to the
\* reply loop of Transfer.  What the buffer held beyond n stays.
Accept(n) ==
    /\ image' = SubSeq(pipe, 1, n) \o SubSeq(image, n + 1, Len(image))
    /\ idx' = 0
    /\ pos' = 1
    /\ phase' = "deliver"
    /\ UNCHANGED <<queueVars, mod, current, answer, dataVars>>

\* As many bytes as asked for: the hub's status byte, the last, is not
\* looked at and not copied.
ReadFull ==
    /\ phase = "read"
    /\ Len(pipe) >= wSize
    /\ Accept(wSize - 1)
    /\ pipe' = SubSeq(pipe, wSize + 1, Len(pipe))
    /\ UNCHANGED <<wire, out, served, forged, clean, faults>>

\* The 20 s timeout: fewer bytes than asked for.  They are accepted when
\* the last one equals CM_NORMAL.  That byte is a hub status, or the last
\* byte of a section, its checksum, which may have any value; with no byte
\* at all it is the byte of memory before RxBuffer.
LastByteNormal ==
    IF pipe = <<>> \/ Last(pipe).byte # 0
    THEN BOOLEAN
    ELSE {Last(pipe).result = "ok"}

ReadTimeout ==
    /\ phase = "read"
    /\ Short
    /\ wire # <<>> => CanFail
    /\ faults' = IF wire = <<>> THEN faults ELSE faults + 1
    /\ clean' = (clean /\ wire = <<>>)
    /\ \/ TRUE \in LastByteNormal /\ Accept(Len(pipe))
       \/ FALSE \in LastByteNormal /\ Fail
    /\ pipe' = <<>>
    /\ UNCHANGED <<wire, out, served, forged>>

-----------------------------------------------------------------------------

\* mutant: the reply always goes to the boards.
CopyToBoard(m, sample, status) ==
    /\ mod' = [mod EXCEPT ![m].board = sample, ![m].ExtMode = FALSE,
                          ![m].bStatus = status]
    /\ UNCHANGED dataVars

\* mutant: the reply never goes to the boards.
CopyToBuffer(m, sample, status) ==
    LET n == mod[m].pReserveBuffer
        isGone == n # current.call /\ ~mod[m].kept
    IN  /\ mod' = [mod EXCEPT ![m].bStatus = status]
        /\ buffer' = [buffer EXCEPT ![n] = sample]
        /\ dead' = IF isGone THEN dead \cup {n} ELSE dead

\* memcpy of a sample by Receive: to the board objects while ExtMode is
\* set, which clears it, else to pReserveBuffer, the buffer of the module's
\* latest call.  Once that call has returned the buffer is gone, unless it
\* is one that the user keeps.
Copy(m, sample, status) ==
    LET n == mod[m].pReserveBuffer
        isGone == n # current.call /\ ~mod[m].kept
    IN  IF mod[m].ExtMode
        THEN /\ mod' = [mod EXCEPT ![m].board = sample,
                                   ![m].ExtMode = FALSE,
                                   ![m].bStatus = status]
             /\ UNCHANGED dataVars
        ELSE /\ mod' = [mod EXCEPT ![m].bStatus = status]
             /\ buffer' = [buffer EXCEPT ![n] = sample]
             /\ dead' = IF isGone THEN dead \cup {n} ELSE dead

SetStatus(m, status) ==
    /\ mod' = [mod EXCEPT ![m].bStatus = status]
    /\ UNCHANGED dataVars

StatusOf(result) == IF result = "ok" THEN "CM_NORMAL" ELSE "error"

Damaged(result) == result \in {"corrupt", "forged"}

\* CM001::Receive of an intact section with head cell c.  On a size
\* mismatch the status byte is taken without a look at the checksum, so
\* that a damaged one may read as any; data is copied before the status is
\* looked at.
Receive(m, c) ==
    IF c.size # mod[m].wReqRxSize
    THEN IF Damaged(c.result)
         THEN \E s \in {"CM_NORMAL", "error"} : SetStatus(m, s)
         ELSE SetStatus(m, StatusOf(c.result))
    ELSE CASE Damaged(c.result) -> SetStatus(m, "error")
           [] ~Damaged(c.result) /\ c.size = 2 ->
                  SetStatus(m, StatusOf(c.result))
           [] ~Damaged(c.result) /\ c.size # 2 ->
                  Copy(m, [frame |-> c.frame, call |-> c.call],
                       StatusOf(c.result))

\* Receive of bytes that are not a section: any size, status and data, but
\* data is only copied in the size that the module expects.
ReceiveGarbage(m) ==
    \E s \in {"CM_NORMAL", "error"} :
        \/ SetStatus(m, s)
        \/ mod[m].wReqRxSize > 2 /\ Copy(m, Garbage, s)

\* A whole section of a reply starts at position pos of TransferRxBuffer.
Intact ==
    /\ pos \in 1 .. Len(image)
    /\ image[pos].byte = 1
    /\ LET c == image[pos]
           n == RX_HEADER + c.size
       IN  /\ pos + n - 1 <= Len(image)
           /\ \A k \in 1 .. n : image[pos + k - 1] = [c EXCEPT !.byte = k]

\* One turn of the reply loop of Transfer: section idx goes to the object
\* in slot idx, whatever port and id it carries.  Past a section that is
\* none the position is lost (pos = 0).
DeliverSection ==
    /\ phase = "deliver"
    /\ idx < bComDeviceCount
    /\ idx' = idx + 1
    /\ \/ /\ Intact
          /\ Receive(pChildModule[idx], image[pos])
          /\ pos' = pos + RX_HEADER + image[pos].size
       \/ /\ ~Intact
          /\ ReceiveGarbage(pChildModule[idx])
          /\ pos' = 0
    /\ UNCHANGED <<queueVars, phase, current, answer, image, linkVars, clean,
                   faults>>

\* mutant: the method returns what Transfer returned.
ReturnTransfer ==
    /\ phase = "deliver"
    /\ idx = bComDeviceCount
    /\ Queue!EndProcess
    /\ answer' = returned'
    /\ phase' = "idle"
    /\ idx' = 0 /\ pos' = 0
    /\ UNCHANGED <<mod, current, image, dataVars, linkVars, clean, faults>>

\* Transfer empties the queue and the method returns its own status.
Return ==
    /\ phase = "deliver"
    /\ idx = bComDeviceCount
    /\ Queue!EndProcess
    /\ answer' = (mod[current.child].bStatus = "CM_NORMAL")
    /\ phase' = "idle"
    /\ idx' = 0 /\ pos' = 0
    /\ UNCHANGED <<mod, current, image, dataVars, linkVars, clean, faults>>

-----------------------------------------------------------------------------

\* The hub has the next request of the oldest frame served.  "err" is a
\* full-size answer with an error status, "corrupt" one of which a byte was
\* damaged, "nak" a refusal without data: the request is not carried out;
\* "forged" is a refusal of which a byte was damaged.
Serve(result) ==
    /\ wire # <<>>
    /\ Head(wire).todo # <<>>
    /\ result # "ok" => CanFail
    /\ faults' = IF result = "ok" THEN faults ELSE faults + 1
    /\ LET f == Head(wire)
           r == Head(f.todo)
       IN  /\ pipe' = pipe \o Section(f.frame, r, result)
           /\ wire' = <<[f EXCEPT !.todo = Tail(@)]>> \o Tail(wire)
           /\ out' = IF r.kind \in {"exchange", "raw"} /\ result \notin Refusal
                     THEN [out EXCEPT ![r.child] = r.call] ELSE out
           /\ served' = IF result = "ok" THEN served \cup {r.call} ELSE served
           /\ forged' = IF result = "forged" THEN forged \cup {r.call}
                        ELSE forged
    /\ UNCHANGED <<queueVars, mod, phase, current, answer, loopVars, dataVars,
                   clean>>

\* The hub closes the reply with its status byte.
CloseReply(result) ==
    /\ wire # <<>>
    /\ Head(wire).todo = <<>>
    /\ result # "ok" => CanFail
    /\ faults' = IF result = "ok" THEN faults ELSE faults + 1
    /\ pipe' = Append(pipe, HubStatus(Head(wire).frame, result))
    /\ wire' = Tail(wire)
    /\ UNCHANGED <<queueVars, mod, phase, current, answer, loopVars, dataVars,
                   out, served, forged, clean>>

\* The hub is reset and drops the rest of a frame.
DropFrame ==
    /\ wire # <<>>
    /\ CanFail
    /\ faults' = faults + 1
    /\ wire' = Tail(wire)
    /\ clean' = FALSE
    /\ UNCHANGED <<queueVars, mod, phase, current, answer, loopVars, dataVars,
                   pipe, out, served, forged>>

HubNext ==
    \/ \E result \in {"ok", "err", "corrupt", "nak", "forged"} : Serve(result)
    \/ \E result \in {"ok", "err"} : CloseReply(result)
    \/ DropFrame

ProgramStep ==
    WriteFile \/ WriteOrReadError \/ ReadFull \/ ReadTimeout
    \/ DeliverSection \/ Return

CallNext ==
    \E m \in Child, kind \in Kind :
        \/ Call(m, kind, TRUE)
        \/ kind \in {"exchange", "raw"} /\ Call(m, kind, FALSE)

Next == CallNext \/ ProgramStep \/ HubNext

Spec == Init /\ [][Next]_vars

\* The thread that is in a call goes on (a read ends at its timeout), and
\* the hub goes on with the frame it has.
Fairness == WF_vars(ProgramStep) /\ WF_vars(HubNext)

FairSpec == Spec /\ Fairness

-----------------------------------------------------------------------------

Sample == { Nothing, Garbage } \cup
          [frame : 1 .. MaxCalls, call : 1 .. MaxCalls]

ModuleObject ==
    [bStatus : {"CM_NORMAL", "error"}, wReqRxSize : Nat, ExtMode : BOOLEAN,
     pReserveBuffer : 0 .. MaxCalls, kept : BOOLEAN, board : Sample]

Result == {"ok", "err", "corrupt", "nak", "forged"}

ReplyCell ==
    [frame : 1 .. MaxCalls, call : 1 .. MaxCalls, size : Nat \ {0},
     result : Result, byte : Nat \ {0}]
    \cup
    [frame : 1 .. MaxCalls, call : {0}, size : {0}, result : Result,
     byte : {0}]

Frame == [frame : 1 .. MaxCalls, todo : Seq(Request)]

\* Every variable has its type.
TypeOK ==
    /\ Queue!TypeOK
    /\ mod \in [Child -> ModuleObject]
    /\ phase \in {"idle", "write", "read", "deliver"}
    /\ current \in [child : Child \cup {NoChild}, kind : Kind \cup {"none"},
                   call : 0 .. MaxCalls, armed : BOOLEAN]
    /\ answer \in BOOLEAN
    /\ idx \in 0 .. BYTE_SIZE - 1
    /\ pos \in 0 .. Len(image) + 1
    /\ image \in Seq(ReplyCell) /\ Len(image) <= SC_BUF_SIZE
    /\ wire \in Seq(Frame) /\ pipe \in Seq(ReplyCell)
    /\ buffer \in [1 .. MaxCalls -> Sample]
    /\ dead \subseteq 1 .. MaxCalls
    /\ out \in [Child -> 0 .. MaxCalls]
    /\ served \subseteq 1 .. MaxCalls
    /\ forged \subseteq 1 .. MaxCalls
    /\ clean \in BOOLEAN
    /\ faults \in 0 .. MaxFaults

\* The latest call sent its frame, has returned TRUE, and no reply of an
\* earlier frame can have been mistaken for one of its own.
Done ==
    /\ phase = "idle" /\ answer
    /\ current.call > 0 /\ sections = <<>>
    /\ clean

\* A call that returns TRUE was carried out by the module, although the
\* return value is only the status that the last of possibly many sections
\* left in the object, among them retained requests of the same module with
\* sizes that no longer match.  The one exception is a refusal of this very
\* request that was damaged: its size is not the one expected, and its
\* status is taken unverified (CM001.cpp:95-107).  And the call leaves
\* nothing behind: no frame of an older command can still reach a module
\* after it.
TrueMeansServed ==
    Done => /\ current.call \in served \cup forged
            /\ current.kind \in {"exchange", "raw"}
                   /\ current.call \notin forged =>
                   out[current.child] = current.call
            /\ wire = <<>> /\ pipe = <<>>

\* After an Exchange that returns TRUE, and of which no damaged refusal came,
\* the board objects hold a sample taken for the frame of this very call: no
\* older sample survives in them, also when the frame carried retained
\* exchanges or queries of that module, refused, damaged or not.
ExchangeFresh ==
    Done /\ current.kind = "exchange" /\ current.call \notin forged =>
        mod[current.child].board.frame = current.call

\* A query that returns TRUE, and of which no damaged refusal came, has its
\* own reply in its buffer, provided that no exchange of that module was
\* outstanding when it was called.
QueryDelivered ==
    Done /\ current.kind = "query" /\ ~current.armed
        /\ current.call \notin forged =>
        buffer[current.call] = [frame |-> current.call, call |-> current.call]

\* SC02.cpp:229 "Copy received data to registrated pointers": a query that
\* returns TRUE has its own reply in its buffer.
QueryGetsItsReply ==
    Done /\ current.kind = "query" =>
        buffer[current.call] = [frame |-> current.call, call |-> current.call]

\* Whatever the link delivers, a reply is copied to a buffer that is gone
\* only for a module other than the caller's that has several requests in
\* the frame, or one that is no exchange.  So modules that are only
\* exchanged, each at most once between two transfers that succeed, are
\* safe.
QueuedOf(m) == { i \in DOMAIN sections : sections[i].child = m }

GoneOnlyByBacklog ==
    [][ dead' # dead =>
          LET m == pChildModule[idx]
          IN  /\ m # current.child
              /\ \/ \E i, j \in QueuedOf(m) : i # j
                 \/ \E i \in QueuedOf(m) : sections[i].kind # "exchange"
      ]_vars

\* A frame that was given up may still be carried out, and its requests are
\* repeated in front of later ones (SC02.cpp:224-227), so an output that a
\* module has left behind can come back.  But a module goes back to an older
\* output only while the hub works through a frame in which the newer one
\* still follows: whatever calls fail, and whichever replies come late or
\* never, a frame leaves the older output behind only if the newer request is
\* refused in it, or the hub drops the rest.
StepsBackInRepeat ==
    [][ \A m \in Child :
          out'[m] < out[m] =>
              \E i \in DOMAIN Head(wire).todo :
                  Head(wire).todo[i].call = out[m]
      ]_vars

\* A call of a module returns, whatever link, hub and modules do.
CallReturns == phase # "idle" ~> phase = "idle"
=============================================================================
