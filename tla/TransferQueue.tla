--------------------------- MODULE TransferQueue ---------------------------
(***************************************************************************)
(* The transfer queue of the SC02 hub object: SC02::Transfer in SC02.cpp.  *)
(*                                                                         *)
(* Every command of a child module reaches the hub through Transfer, which *)
(* appends it to one outgoing frame.  A call with RightNow = FALSE leaves  *)
(* it there; a call with RightNow = TRUE hands the whole frame to          *)
(* SC02::Transceive and, if that succeeds, gives each child its section of *)
(* the reply and empties the queue.  If Transceive fails, Transfer returns *)
(* FALSE and the queue keeps everything that is in it.                     *)
(*                                                                         *)
(* Transfer is split where it calls Transceive, so that a module that      *)
(* models the link can put its own steps between the two halves.  Bytes    *)
(* are counted, not stored: a request is a record with at least the fields *)
(* child, tx and rx (the sizes that ControlModule::Transceive computes).   *)
(***************************************************************************)
EXTENDS Integers, Sequences

CONSTANTS
    Child,         \* the ControlModule objects that use the hub
    NoChild,       \* content of a slot of pChildModule never written
    Request,       \* the requests that the children may pass to Transfer
    SC_BUF_SIZE,   \* size of TransferTxBuffer and TransferRxBuffer
    BYTE_SIZE,     \* number of values of a BYTE: bComDeviceCount wraps here
    TX_HEADER,     \* bytes before the data in the frame: port, id, two sizes
    RX_HEADER      \* bytes before the data in the reply: port, id, one size

\* Transceive always sends a command byte and asks for a status byte, so
\* neither size of a request is ever zero.
ASSUME RequestAssumption ==
    /\ NoChild \notin Child
    /\ \A r \in Request : /\ r.child \in Child
                          /\ r.tx \in Nat \ {0}
                          /\ r.rx \in Nat \ {0}

\* The sizes of SC02.h and of BYTE (256 and 256), as weakly as the proofs
\* need them.
ASSUME SizeAssumption ==
    /\ SC_BUF_SIZE \in Nat \ {0}
    /\ BYTE_SIZE \in Nat
    /\ SC_BUF_SIZE <= BYTE_SIZE
    /\ TX_HEADER \in Nat
    /\ RX_HEADER \in Nat

VARIABLES
    bComDeviceCount,   \* number of queued requests, a BYTE
    iTxBufCount,       \* bytes of the frame so far, 0 when none was started
    iRxBufCount,       \* bytes of reply the frame will produce
    pChildModule,      \* slot i: the object that gets section i of the reply
    sections,          \* the requests encoded in TransferTxBuffer, in order
    countByte,         \* TransferTxBuffer[0], the count the hub will read
    transceiving,      \* Transfer is inside its call of Transceive
    returned           \* what the latest Transfer to end returned

queueVars == <<bComDeviceCount, iTxBufCount, iRxBufCount, pChildModule,
               sections, countByte, transceiving, returned>>

-----------------------------------------------------------------------------

\* The frame and reply sizes if request r joins the queue.  The first
\* request of a frame also pays for the count byte.
SizeWithTx(r) ==
    (IF iTxBufCount = 0 THEN 1 ELSE iTxBufCount) + TX_HEADER + r.tx

SizeWithRxNoHeader(r) ==  \* mutant: the header of the section is forgotten
    (IF iTxBufCount = 0 THEN 0 ELSE iRxBufCount) + r.rx

SizeWithRx(r) ==
    (IF iTxBufCount = 0 THEN 0 ELSE iRxBufCount) + RX_HEADER + r.rx

FitsPastCount(r) ==  \* mutant: the count byte is forgotten
    SizeWithTx(r) <= SC_BUF_SIZE + 1 /\ SizeWithRx(r) <= SC_BUF_SIZE

Fits(r) == SizeWithTx(r) <= SC_BUF_SIZE /\ SizeWithRx(r) <= SC_BUF_SIZE

Init ==
    /\ bComDeviceCount = 0
    /\ iTxBufCount = 0
    /\ iRxBufCount = 0
    /\ pChildModule = [i \in 0 .. BYTE_SIZE - 1 |-> NoChild]
    /\ sections = <<>>
    /\ countByte = 0
    /\ transceiving = FALSE
    /\ returned = TRUE

\* mutant: a refusal takes back a request that was not counted yet.
RefuseTakesBack(r) ==
    /\ ~transceiving
    /\ ~Fits(r)
    /\ bComDeviceCount' = bComDeviceCount - 1
    /\ returned' = FALSE
    /\ UNCHANGED <<iTxBufCount, iRxBufCount, pChildModule, sections,
                   countByte, transceiving>>

\* mutant: a refusal starts a new frame.
RefuseRestarts(r) ==
    /\ ~transceiving
    /\ ~Fits(r)
    /\ iTxBufCount' = 1
    /\ iRxBufCount' = 0
    /\ returned' = FALSE
    /\ UNCHANGED <<bComDeviceCount, pChildModule, sections, countByte,
                   transceiving>>

\* Transfer(r) when one of the two size checks fails.  The slot of
\* pChildModule is written before the checks, and a first request has
\* already set the counters to 1 and 0.  (The guard bComDeviceCount == 256
\* of the code compares a BYTE with 256 and never holds.)
Refuse(r) ==
    /\ ~transceiving
    /\ ~Fits(r)
    /\ pChildModule' = [pChildModule EXCEPT ![bComDeviceCount] = r.child]
    /\ iTxBufCount' = IF iTxBufCount = 0 THEN 1 ELSE iTxBufCount
    /\ iRxBufCount' = IF iTxBufCount = 0 THEN 0 ELSE iRxBufCount
    /\ returned' = FALSE
    /\ UNCHANGED <<bComDeviceCount, sections, countByte, transceiving>>

\* The part of Transfer(r) that both values of RightNow share: the request
\* is appended to the frame and its object to pChildModule.
Enqueue(r) ==
    /\ ~transceiving
    /\ Fits(r)
    /\ pChildModule' = [pChildModule EXCEPT ![bComDeviceCount] = r.child]
    /\ sections' = Append(sections, r)
    /\ iTxBufCount' = SizeWithTx(r)
    /\ iRxBufCount' = SizeWithRx(r)
    /\ bComDeviceCount' = (bComDeviceCount + 1) % BYTE_SIZE

\* Transfer(r) with RightNow = FALSE.
Defer(r) ==
    /\ Enqueue(r)
    /\ returned' = TRUE
    /\ UNCHANGED <<countByte, transceiving>>

\* Transfer(r) with RightNow = TRUE, up to its call of Transceive.
StartTransceive(r) ==
    /\ Enqueue(r)
    /\ countByte' = bComDeviceCount'
    /\ transceiving' = TRUE
    /\ UNCHANGED returned

\* mutant: the count of requests is not reset.
EndProcessKeepsCount ==
    /\ transceiving
    /\ iTxBufCount' = 0
    /\ iRxBufCount' = 0
    /\ sections' = <<>>
    /\ transceiving' = FALSE
    /\ returned' = TRUE
    /\ UNCHANGED <<bComDeviceCount, pChildModule, countByte>>

\* Transceive succeeded: the reply has been handed out, the queue is empty.
EndProcess ==
    /\ transceiving
    /\ bComDeviceCount' = 0
    /\ iTxBufCount' = 0
    /\ iRxBufCount' = 0
    /\ sections' = <<>>
    /\ transceiving' = FALSE
    /\ returned' = TRUE
    /\ UNCHANGED <<pChildModule, countByte>>

\* mutant: an error empties the queue.
TransceiveErrorClears ==
    /\ transceiving
    /\ bComDeviceCount' = 0
    /\ iTxBufCount' = 0
    /\ iRxBufCount' = 0
    /\ sections' = <<>>
    /\ transceiving' = FALSE
    /\ returned' = FALSE
    /\ UNCHANGED <<pChildModule, countByte>>

\* Transceive failed: Transfer returns at once and resets nothing.
TransceiveError ==
    /\ transceiving
    /\ transceiving' = FALSE
    /\ returned' = FALSE
    /\ UNCHANGED <<bComDeviceCount, iTxBufCount, iRxBufCount, pChildModule,
                   sections, countByte>>

Next ==
    \/ \E r \in Request : Refuse(r) \/ Defer(r) \/ StartTransceive(r)
    \/ EndProcess
    \/ TransceiveError

Spec == Init /\ [][Next]_queueVars

-----------------------------------------------------------------------------

\* Every variable has its type; a BYTE stays a BYTE.
TypeOK ==
    /\ bComDeviceCount \in 0 .. BYTE_SIZE - 1
    /\ iTxBufCount \in Nat
    /\ iRxBufCount \in Nat
    /\ pChildModule \in [0 .. BYTE_SIZE - 1 -> Child \cup {NoChild}]
    /\ sections \in Seq(Request)
    /\ countByte \in 0 .. BYTE_SIZE - 1
    /\ transceiving \in BOOLEAN
    /\ returned \in BOOLEAN

\* Whatever is queued, refused, failed and queued again, the frame under
\* construction and the reply it asks for stay within the hub's transfer
\* buffers: no memcpy of Transfer ever leaves TransferTxBuffer.
BufferBounds ==
    /\ iTxBufCount <= SC_BUF_SIZE
    /\ iRxBufCount <= SC_BUF_SIZE

\* Section i of the reply is handed to the object whose request is section
\* i of the frame.  The replies carry no identification that the code
\* checks, so this correspondence between three places that are updated
\* separately (the count, pChildModule and the frame) is all that keeps
\* replies apart.  It has to survive refused and failed transfers, after
\* which slots are overwritten and old requests stay in front of new ones.
ReplyRouting ==
    /\ bComDeviceCount = Len(sections)
    /\ transceiving => countByte = Len(sections)
    /\ \A i \in 1 .. Len(sections) : pChildModule[i - 1] = sections[i].child

\* The sum of some sizes and of what they come on top of.
Total(start, sizes) ==
    LET sum[i \in 0 .. Len(sizes)] ==
            IF i = 0 THEN start ELSE sum[i - 1] + sizes[i]
    IN  sum[Len(sizes)]

TxSizes(requests) ==
    [i \in 1 .. Len(requests) |-> TX_HEADER + requests[i].tx]

RxSizes(requests) ==
    [i \in 1 .. Len(requests) |-> RX_HEADER + requests[i].rx]

\* The counters are the sizes of what is queued, also after failed and
\* refused transfers; only an unused frame may have one count byte or none.
Accounting ==
    /\ \/ iTxBufCount = Total(1, TxSizes(sections))
       \/ sections = <<>> /\ iTxBufCount = 0
    /\ iRxBufCount = Total(0, RxSizes(sections))

\* A request that Transfer accepted leaves the queue only with all the
\* others and only in a Transfer that returns TRUE: an error return loses
\* nothing and reorders nothing.
AcceptedNeverLost ==
    [][ sections' # sections =>
          \/ \E r \in Request : sections' = Append(sections, r)
          \/ sections' = <<>> /\ transceiving /\ returned' ]_queueVars

\* No request fits any more and no Transceive is under way.
Wedged == ~transceiving /\ \A r \in Request : ~Fits(r)

\* A wedged queue stays wedged: since a request must first fit for the
\* frame to be sent, and only a sent frame empties the queue, the object
\* never communicates again, however healthy the link has become.
WedgeIsPermanent == [][Wedged => Wedged']_queueVars

\* SC02.cpp:178 "Check transmit data size" and SC02.cpp:134 "Add Command":
\* the frame and reply as SC02::Transceive builds them, which puts a command
\* byte in front of the frame and expects a status byte behind the reply,
\* fit its own buffers of the same SC_BUF_SIZE bytes.
FrameFitsTransceive ==
    transceiving => /\ 1 + iTxBufCount <= SC_BUF_SIZE
                    /\ iRxBufCount + 1 <= SC_BUF_SIZE
=============================================================================
