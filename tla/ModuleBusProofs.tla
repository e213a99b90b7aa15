-------------------------- MODULE ModuleBusProofs --------------------------
(***************************************************************************)
(* Proofs about ModuleBus for any modules, sizes, numbers of calls and     *)
(* faults.                                                                 *)
(*                                                                         *)
(* First, the invariant proved of the transfer queue (IInv) holds of the   *)
(* hub's queue here; then the reply loop and the objects; last, in which   *)
(* order the hub can see the requests.                                     *)
(***************************************************************************)
EXTENDS ModuleBus, SequenceTheorems, TLAPS

QP == INSTANCE TransferQueueProofs

CallsCounted == current.call \in 0 .. MaxCalls

LEMMA InitCallsCounted == Init => CallsCounted
  BY BusAssumption DEF Init, CallsCounted

LEMMA NextCallsCounted == CallsCounted /\ [Next]_vars => CallsCounted'
  <1> SUFFICES ASSUME CallsCounted, [Next]_vars
               PROVE  CallsCounted'
    OBVIOUS
  <1>1. CASE current' = current
    BY <1>1 DEF CallsCounted
  <1>2. ASSUME NEW m \in Child, NEW kind \in Kind, NEW now \in BOOLEAN,
               Call(m, kind, now)
        PROVE  CallsCounted'
    BY <1>2, BusAssumption DEF Call, Req, CallsCounted
  <1>3. CASE CallNext
    BY <1>2, <1>3 DEF CallNext
  <1>4. CASE ProgramStep
    BY <1>1, <1>4
    DEF ProgramStep, WriteFile, WriteOrReadError, ReadFull, ReadTimeout,
        DeliverSection, Return, Accept, Fail
  <1>5. CASE HubNext \/ UNCHANGED vars
    BY <1>1, <1>5 DEF HubNext, Serve, CloseReply, DropFrame, vars
  <1> QED
    BY <1>3, <1>4, <1>5 DEF Next

\* Every step of the bus is a step of the queue or leaves the queue alone.
LEMMA StepOfQueue ==
    ASSUME CallsCounted, [Next]_vars
    PROVE  [Queue!Next]_(Queue!queueVars)
  <1>1. CASE UNCHANGED queueVars
    BY <1>1 DEF queueVars, Queue!queueVars
  <1>2. ASSUME NEW m \in Child, NEW kind \in Kind, NEW now \in BOOLEAN,
               Call(m, kind, now)
        PROVE  Queue!Next
    <2> DEFINE r == Req(m, kind, current.call + 1)
    <2>1. r \in Request
      BY <1>2, BusAssumption DEF Call, CallsCounted, Request
    <2>2. Queue!Refuse(r) \/ Queue!Defer(r) \/ Queue!StartTransceive(r)
      BY <1>2 DEF Call
    <2> QED
      BY <2>1, <2>2 DEF Queue!Next
  <1>3. CASE CallNext
    BY <1>2, <1>3 DEF CallNext
  <1>4. CASE WriteOrReadError \/ ReadTimeout
    BY <1>1, <1>4 DEF WriteOrReadError, ReadTimeout, Accept, Fail, Queue!Next
  <1>5. CASE Return
    BY <1>5 DEF Return, Queue!Next
  <1>6. CASE WriteFile \/ ReadFull \/ DeliverSection
    BY <1>1, <1>6 DEF WriteFile, ReadFull, DeliverSection, Accept
  <1>7. CASE HubNext \/ UNCHANGED vars
    BY <1>1, <1>7 DEF HubNext, Serve, CloseReply, DropFrame, vars
  <1> QED
    BY <1>3, <1>4, <1>5, <1>6, <1>7 DEF Next, ProgramStep

-----------------------------------------------------------------------------

\* What is in a request, and the sizes that the kinds of command have.
LEMMA RequestFacts ==
    ASSUME NEW r \in Request
    PROVE  /\ r.child \in Child /\ r.kind \in Kind /\ r.call \in 1 .. MaxCalls
           /\ r.tx = 2 /\ r.rx = DataIn(r.kind) + 2
           /\ r.rx \in Nat /\ r.rx >= 2
           /\ r.kind \in {"exchange", "raw", "query"} => r.rx > 2
  <1>1. PICK m \in Child, kind \in Kind, n \in 1 .. MaxCalls :
            r = Req(m, kind, n)
    BY DEF Request
  <1>2. /\ DataIn(kind) \in Nat
        /\ kind \in {"exchange", "raw", "query"} => DataIn(kind) > 0
    <2>1. CASE kind \in {"exchange", "raw"}
      <3>1. DataIn(kind) = ExchangeIn
        BY <2>1 DEF DataIn
      <3> QED
        BY <3>1, BusAssumption
    <2>2. CASE kind = "query"
      <3>1. DataIn(kind) = QueryIn
        BY <2>2 DEF DataIn
      <3> QED
        BY <3>1, BusAssumption
    <2>3. CASE kind = "set"
      <3>1. DataIn(kind) = 0
        BY <2>3 DEF DataIn
      <3> QED
        BY <2>3, <3>1
    <2> QED
      BY <2>1, <2>2, <2>3, BusAssumption
  <1>3. /\ r.child = m /\ r.kind = kind /\ r.call = n
        /\ r.tx = 2 /\ r.rx = DataIn(kind) + 2
    BY <1>1 DEF Req
  <1> QED
    BY <1>2, <1>3

LEMMA QueueAssumptions == QP!RequestAssumption /\ QP!SizeAssumption
  <1>1. \A r \in Request : /\ r.child \in Child
                           /\ r.tx \in Nat \ {0} /\ r.rx \in Nat \ {0}
    BY RequestFacts
  <1> QED
    BY <1>1, BusAssumption DEF QP!RequestAssumption, QP!SizeAssumption

\* The inductive invariant of TransferQueueProofs, for the queue of the bus.
QueueInv == QP!IInv

LEMMA SameQueue == /\ Queue!Init <=> QP!Init
                   /\ Queue!Next <=> QP!Next
                   /\ Queue!TypeOK <=> QP!TypeOK
  <1>1. Queue!Next <=> QP!Next
    BY DEF Queue!Next, QP!Next, Queue!Refuse, QP!Refuse, Queue!Defer,
           QP!Defer, Queue!StartTransceive, QP!StartTransceive,
           Queue!EndProcess, QP!EndProcess, Queue!TransceiveError,
           QP!TransceiveError, Queue!Enqueue, QP!Enqueue, Queue!Fits,
           QP!Fits, Queue!SizeWithTx, QP!SizeWithTx, Queue!SizeWithRx,
           QP!SizeWithRx
  <1> QED
    BY <1>1 DEF Queue!Init, QP!Init, Queue!TypeOK, QP!TypeOK

LEMMA InitQueueInv == Init => QueueInv
  BY SameQueue, QueueAssumptions, QP!InitIInv DEF Init, QueueInv

LEMMA NextQueueInv ==
    QueueInv /\ CallsCounted /\ [Next]_vars => QueueInv'
  <1>1. QP!IInv /\ [QP!Next]_(QP!queueVars) => QP!IInv'
    BY QueueAssumptions, QP!NextIInv
  <1>2. UNCHANGED Queue!queueVars => UNCHANGED QP!queueVars
    BY DEF Queue!queueVars, QP!queueVars
  <1>3. CallsCounted /\ [Next]_vars => [Queue!Next]_(Queue!queueVars)
    BY StepOfQueue
  <1>4. Queue!Next => QP!Next
    BY SameQueue
  <1> QED
    BY <1>1, <1>2, <1>3, <1>4 DEF QueueInv

\* What the proofs below use of the queue.
LEMMA QueueFacts ==
    ASSUME QueueInv
    PROVE  /\ Queue!TypeOK
           /\ sections \in Seq(Request)
           /\ bComDeviceCount = Len(sections)
           /\ Len(sections) \in Nat /\ Len(sections) <= BYTE_SIZE - 1
           /\ iTxBufCount \in Nat
           /\ iTxBufCount = 0 => Len(sections) = 0
           /\ iRxBufCount \in Nat /\ iRxBufCount <= SC_BUF_SIZE
           /\ \A i \in 1 .. Len(sections) :
                  pChildModule[i - 1] = sections[i].child
           /\ \A i \in 1 .. Len(sections) : sections[i] \in Request
  <1>1. Queue!TypeOK
    BY SameQueue DEF QueueInv, QP!IInv
  <1>2. /\ sections \in Seq(Request)
        /\ bComDeviceCount \in 0 .. BYTE_SIZE - 1
        /\ iTxBufCount \in Nat /\ iRxBufCount \in Nat
    BY <1>1 DEF Queue!TypeOK
  <1>3. /\ bComDeviceCount = Len(sections)
        /\ \A i \in 1 .. Len(sections) :
               pChildModule[i - 1] = sections[i].child
    BY DEF QueueInv, QP!IInv, QP!ReplyRouting
  <1>4. iRxBufCount <= SC_BUF_SIZE
    BY DEF QueueInv, QP!IInv, QP!BufferBounds
  <1>5. iTxBufCount = 0 => Len(sections) = 0
    BY <1>2 DEF QueueInv, QP!IInv, QP!CountBelowBytes
  <1> QED
    BY <1>1, <1>2, <1>3, <1>4, <1>5, BusAssumption

-----------------------------------------------------------------------------

\* The reply loop only runs in phase "deliver" and within the slots in use;
\* the object of every queued request has a reply buffer.
LoopInv ==
    /\ idx <= Len(sections)
    /\ phase # "deliver" => idx = 0 /\ pos = 0
    /\ \A i \in 1 .. Len(sections) :
           mod[sections[i].child].pReserveBuffer \in 1 .. MaxCalls

\* While a method runs, its request is the last of the frame and the object
\* expects the reply to it.
CallerInv ==
    phase # "idle" =>
        /\ transceiving
        /\ current.child \in Child /\ current.kind \in Kind
        /\ current.call \in 1 .. MaxCalls
        /\ Len(sections) > 0
        /\ sections[Len(sections)] =
               Req(current.child, current.kind, current.call)
        /\ mod[current.child].pReserveBuffer = current.call
        /\ mod[current.child].wReqRxSize = DataIn(current.kind) + 2
        /\ current.kind = "query" /\ ~current.armed =>
               ~mod[current.child].ExtMode

\* A module with an exchange in the frame has ExtMode set until the reply
\* loop hands it a section.
BoardsWait ==
    \A i \in idx + 1 .. Len(sections) :
        /\ sections[i].kind = "exchange"
        /\ \A j \in 1 .. idx : sections[j].child # sections[i].child
        => mod[sections[i].child].ExtMode

BusInv == QueueInv /\ TypeOK /\ LoopInv /\ CallerInv /\ BoardsWait

\* What a call of a method changes, up to the write.
LEMMA CallEffect ==
    ASSUME BusInv, NEW m \in Child, NEW kind \in Kind, NEW now \in BOOLEAN,
           Call(m, kind, now)
    PROVE  LET r == Req(m, kind, current.call + 1) IN
           /\ r \in Request /\ r.child = m /\ r.kind = kind
           /\ r.call = current.call + 1 /\ r.call \in 1 .. MaxCalls
           /\ current' = [child |-> m, kind |-> kind, call |-> r.call,
                          armed |-> mod[m].ExtMode]
           /\ mod' \in [Child -> ModuleObject]
           /\ \A x \in Child : x # m => mod'[x] = mod[x]
           /\ mod'[m].ExtMode <=> mod[m].ExtMode \/ kind = "exchange"
           /\ mod'[m].pReserveBuffer = r.call
           /\ mod'[m].wReqRxSize = r.rx
           /\ phase = "idle" /\ answer' \in BOOLEAN
  <1> DEFINE r == Req(m, kind, current.call + 1)
  <1>1. current.call \in 0 .. MaxCalls /\ current.call < MaxCalls
    BY DEF Call, BusInv, TypeOK
  <1>2. current.call + 1 \in 1 .. MaxCalls
    BY <1>1, BusAssumption
  <1>3. /\ r \in Request /\ r.child = m /\ r.kind = kind
        /\ r.call = current.call + 1
    BY <1>2 DEF Request, Req
  <1>4. r.rx \in Nat
    BY <1>3, RequestFacts
  <1>5. mod' = [mod EXCEPT ![m].ExtMode = @ \/ kind = "exchange",
                           ![m].pReserveBuffer = r.call,
                           ![m].kept = (kind = "raw"),
                           ![m].wReqRxSize = r.rx]
    BY DEF Call
  <1>6. mod \in [Child -> ModuleObject]
    BY DEF BusInv, TypeOK
  <1>7. /\ mod' \in [Child -> ModuleObject]
        /\ \A x \in Child : x # m => mod'[x] = mod[x]
        /\ mod'[m].ExtMode <=> mod[m].ExtMode \/ kind = "exchange"
        /\ mod'[m].pReserveBuffer = r.call
        /\ mod'[m].wReqRxSize = r.rx
    <2> DEFINE ext == mod[m].ExtMode \/ kind = "exchange"
    <2> DEFINE obj == [mod[m] EXCEPT !.ExtMode = ext,
                                     !.pReserveBuffer = r.call,
                                     !.kept = (kind = "raw"),
                                     !.wReqRxSize = r.rx]
    <2>1. mod[m] \in ModuleObject
      BY <1>6
    <2>2. ext \in BOOLEAN /\ (kind = "raw") \in BOOLEAN
      OBVIOUS
    <2>3. r.call \in 0 .. MaxCalls
      BY <1>2, <1>3
    <2>4. mod' = [mod EXCEPT ![m] = obj]
      BY <1>5, <1>6
    <2> HIDE DEF ext
    <2>5. /\ obj \in ModuleObject
          /\ obj.ExtMode = ext /\ obj.pReserveBuffer = r.call
          /\ obj.wReqRxSize = r.rx
      BY <1>4, <2>1, <2>2, <2>3 DEF ModuleObject
    <2> HIDE DEF obj
    <2>6. /\ mod' \in [Child -> ModuleObject] /\ mod'[m] = obj
          /\ \A x \in Child : x # m => mod'[x] = mod[x]
      BY <1>6, <2>4, <2>5
    <2> QED
      BY <2>5, <2>6 DEF ext
  <1>8. /\ current' = [child |-> m, kind |-> kind, call |-> r.call,
                       armed |-> mod[m].ExtMode]
        /\ phase = "idle" /\ answer' \in BOOLEAN
    BY DEF Call
  <1> QED
    BY <1>2, <1>3, <1>7, <1>8

\* The request of a call joins the queue, or nothing does.
LEMMA CallQueued ==
    ASSUME NEW m \in Child, NEW kind \in Kind, NEW now \in BOOLEAN,
           Call(m, kind, now)
    PROVE  LET r == Req(m, kind, current.call + 1) IN
           \/ /\ sections' = sections
              /\ answer' = FALSE /\ phase' = "idle"
              /\ iRxBufCount' = IF iTxBufCount = 0 THEN 0 ELSE iRxBufCount
           \/ /\ sections' = Append(sections, r)
              /\ phase' # "idle" => phase' = "write" /\ transceiving'
              /\ iRxBufCount' = (IF iTxBufCount = 0 THEN 0
                                 ELSE iRxBufCount) + RX_HEADER + r.rx
  BY DEF Call, Queue!Refuse, Queue!Defer, Queue!StartTransceive,
         Queue!Enqueue, Queue!SizeWithRx

\* What a section of the reply may change in an object and the buffers.
ReplyTaken(m) ==
    /\ mod' \in [Child -> ModuleObject]
    /\ \A x \in Child : x # m => mod'[x] = mod[x]
    /\ mod'[m].pReserveBuffer = mod[m].pReserveBuffer
    /\ mod'[m].wReqRxSize = mod[m].wReqRxSize
    /\ mod'[m].ExtMode => mod[m].ExtMode
    /\ buffer' \in [1 .. MaxCalls -> Sample]
    /\ dead' \subseteq 1 .. MaxCalls
    /\ dead' # dead => /\ ~mod[m].ExtMode
                       /\ mod[m].pReserveBuffer # current.call

LEMMA CopyEffect ==
    ASSUME TypeOK, NEW m \in Child, mod[m].pReserveBuffer \in 1 .. MaxCalls,
           NEW sample \in Sample, NEW status \in {"CM_NORMAL", "error"},
           Copy(m, sample, status)
    PROVE  /\ ReplyTaken(m)
           /\ mod'[m].bStatus = status
           /\ mod[m].ExtMode => mod'[m].board = sample
           /\ ~mod[m].ExtMode =>
                  /\ mod'[m].board = mod[m].board
                  /\ buffer'[mod[m].pReserveBuffer] = sample
  <1>1. /\ mod \in [Child -> ModuleObject]
        /\ buffer \in [1 .. MaxCalls -> Sample]
        /\ dead \subseteq 1 .. MaxCalls
    BY DEF TypeOK
  <1>2. mod[m] \in ModuleObject
    BY <1>1
  <1>3. CASE mod[m].ExtMode
    <2> DEFINE obj == [mod[m] EXCEPT !.board = sample, !.ExtMode = FALSE,
                                     !.bStatus = status]
    <2>1. mod' = [mod EXCEPT ![m] = obj] /\ UNCHANGED dataVars
      BY <1>1, <1>3 DEF Copy
    <2>2. /\ obj \in ModuleObject
          /\ obj.pReserveBuffer = mod[m].pReserveBuffer
          /\ obj.wReqRxSize = mod[m].wReqRxSize
          /\ obj.ExtMode = FALSE /\ obj.bStatus = status
          /\ obj.board = sample
      BY <1>2 DEF ModuleObject
    <2> HIDE DEF obj
    <2>3. /\ mod' \in [Child -> ModuleObject] /\ mod'[m] = obj
          /\ \A x \in Child : x # m => mod'[x] = mod[x]
      BY <1>1, <2>1, <2>2
    <2> QED
      BY <1>1, <1>3, <2>1, <2>2, <2>3 DEF ReplyTaken, dataVars
  <1>4. CASE ~mod[m].ExtMode
    <2> DEFINE obj == [mod[m] EXCEPT !.bStatus = status]
    <2> DEFINE n == mod[m].pReserveBuffer
    <2>1. /\ mod' = [mod EXCEPT ![m] = obj]
          /\ buffer' = [buffer EXCEPT ![n] = sample]
          /\ dead' = IF n # current.call /\ ~mod[m].kept
                     THEN dead \cup {n} ELSE dead
      BY <1>1, <1>4 DEF Copy
    <2>2. /\ obj \in ModuleObject
          /\ obj.pReserveBuffer = n
          /\ obj.wReqRxSize = mod[m].wReqRxSize
          /\ obj.ExtMode = mod[m].ExtMode /\ obj.bStatus = status
          /\ obj.board = mod[m].board
      BY <1>2 DEF ModuleObject
    <2> HIDE DEF obj
    <2>3. /\ mod' \in [Child -> ModuleObject] /\ mod'[m] = obj
          /\ \A x \in Child : x # m => mod'[x] = mod[x]
      BY <1>1, <2>1, <2>2
    <2>4. buffer' \in [1 .. MaxCalls -> Sample] /\ buffer'[n] = sample
      BY <1>1, <2>1
    <2>5. dead' \subseteq 1 .. MaxCalls /\ (dead' # dead => n # current.call)
      BY <1>1, <2>1
    <2> QED
      BY <1>4, <2>2, <2>3, <2>4, <2>5 DEF ReplyTaken
  <1> QED
    BY <1>3, <1>4

LEMMA SetStatusEffect ==
    ASSUME TypeOK, NEW m \in Child, NEW status \in {"CM_NORMAL", "error"},
           SetStatus(m, status)
    PROVE  /\ ReplyTaken(m)
           /\ mod'[m].bStatus = status
           /\ mod'[m].ExtMode = mod[m].ExtMode
           /\ mod'[m].board = mod[m].board
  <1> DEFINE obj == [mod[m] EXCEPT !.bStatus = status]
  <1>1. /\ mod \in [Child -> ModuleObject]
        /\ buffer \in [1 .. MaxCalls -> Sample]
        /\ dead \subseteq 1 .. MaxCalls
    BY DEF TypeOK
  <1>2. mod[m] \in ModuleObject
    BY <1>1
  <1>3. mod' = [mod EXCEPT ![m] = obj] /\ UNCHANGED dataVars
    BY DEF SetStatus
  <1>4. /\ obj \in ModuleObject
        /\ obj.pReserveBuffer = mod[m].pReserveBuffer
        /\ obj.wReqRxSize = mod[m].wReqRxSize
        /\ obj.ExtMode = mod[m].ExtMode /\ obj.bStatus = status
        /\ obj.board = mod[m].board
    BY <1>2 DEF ModuleObject
  <1> HIDE DEF obj
  <1>5. /\ mod' \in [Child -> ModuleObject] /\ mod'[m] = obj
        /\ \A x \in Child : x # m => mod'[x] = mod[x]
    BY <1>1, <1>3, <1>4
  <1> QED
    BY <1>1, <1>3, <1>4, <1>5 DEF ReplyTaken, dataVars

\* A turn of the reply loop gives its section, whatever it is, to the object
\* of the request in its place.
LEMMA DeliverEffect ==
    ASSUME BusInv, DeliverSection
    PROVE  LET m == pChildModule[idx] IN
           /\ phase = "deliver" /\ idx \in Nat /\ idx < Len(sections)
           /\ m \in Child /\ m = sections[idx + 1].child
           /\ ReplyTaken(m)
           /\ idx' = idx + 1
           /\ pos' \in 0 .. Len(image) + 1
  <1> DEFINE m == pChildModule[idx]
  <1>1. /\ phase = "deliver" /\ idx' = idx + 1
        /\ idx < Len(sections) /\ idx \in 0 .. BYTE_SIZE - 1
        /\ Len(sections) \in Nat /\ sections \in Seq(Request)
    BY QueueFacts DEF DeliverSection, BusInv, TypeOK
  <1>2. idx \in Nat /\ idx + 1 \in 1 .. Len(sections)
    BY <1>1
  <1>3. /\ m = sections[idx + 1].child /\ sections[idx + 1] \in Request
        /\ m \in Child
    <2>1. pChildModule[(idx + 1) - 1] = sections[idx + 1].child
      BY <1>2, QueueFacts DEF BusInv
    <2>2. (idx + 1) - 1 = idx
      BY <1>2
    <2> QED
      BY <1>1, <1>2, <2>1, <2>2, RequestFacts
  <1>4. mod[m].pReserveBuffer \in 1 .. MaxCalls
    BY <1>2, <1>3 DEF BusInv, LoopInv
  <1>5. TypeOK
    BY DEF BusInv
  <1>6. /\ image \in Seq(ReplyCell) /\ Len(image) \in Nat
        /\ pos \in 0 .. Len(image) + 1
    BY DEF BusInv, TypeOK
  <1>7. CASE Intact
    <2> DEFINE c == image[pos]
    <2>1. /\ pos \in 1 .. Len(image) /\ c.byte = 1
          /\ pos + (RX_HEADER + c.size) - 1 <= Len(image)
      BY <1>7 DEF Intact
    <2>2. c \in ReplyCell
      BY <1>6, <2>1
    <2>3. /\ c.size \in Nat
          /\ c.frame \in 1 .. MaxCalls /\ c.call \in 1 .. MaxCalls
          /\ c.result \in Result
      BY <2>1, <2>2 DEF ReplyCell
    <2> HIDE DEF c
    <2>4. /\ [frame |-> c.frame, call |-> c.call] \in Sample
          /\ StatusOf(c.result) \in {"CM_NORMAL", "error"}
      BY <2>3 DEF Sample, StatusOf
    <2>5. pos' = pos + RX_HEADER + c.size /\ Receive(m, c)
      BY <1>7 DEF DeliverSection, c
    <2>6. pos' \in 0 .. Len(image) + 1
      <3>1. RX_HEADER \in Nat
        BY BusAssumption
      <3> QED
        BY <1>6, <2>1, <2>3, <2>5, <3>1, SMTT(15)
    <2>7. \/ \E s \in {"CM_NORMAL", "error"} : SetStatus(m, s)
          \/ Copy(m, [frame |-> c.frame, call |-> c.call],
                  StatusOf(c.result))
      BY <2>4, <2>5 DEF Receive
    <2>8. ReplyTaken(m)
      BY <1>3, <1>4, <1>5, <2>4, <2>7, CopyEffect, SetStatusEffect
    <2> QED
      BY <1>1, <1>2, <1>3, <2>6, <2>8
  <1>8. CASE ~Intact
    <2>1. pos' = 0 /\ ReceiveGarbage(m)
      BY <1>8 DEF DeliverSection
    <2>2. Garbage \in Sample
      BY DEF Sample
    <2>3. ReplyTaken(m)
      BY <1>3, <1>4, <1>5, <2>1, <2>2, CopyEffect, SetStatusEffect
      DEF ReceiveGarbage
    <2> QED
      BY <1>1, <1>2, <1>3, <1>6, <2>1, <2>3
  <1> QED
    BY <1>7, <1>8

\* What has been read replaces the first bytes of TransferRxBuffer.
LEMMA AcceptEffect ==
    ASSUME TypeOK, NEW n \in 0 .. Len(pipe), n <= SC_BUF_SIZE, Accept(n)
    PROVE  /\ image' \in Seq(ReplyCell)
           /\ Len(image') <= SC_BUF_SIZE /\ n <= Len(image')
           /\ \A i \in 1 .. n : image'[i] = pipe[i]
  <1> DEFINE head == SubSeq(pipe, 1, n)
  <1> DEFINE tail == SubSeq(image, n + 1, Len(image))
  <1>1. /\ pipe \in Seq(ReplyCell) /\ image \in Seq(ReplyCell)
        /\ Len(image) <= SC_BUF_SIZE
        /\ Len(pipe) \in Nat /\ Len(image) \in Nat
    BY DEF TypeOK
  <1>2. /\ head \in Seq(ReplyCell) /\ Len(head) = n
        /\ \A i \in 1 .. n : head[i] = pipe[i]
    <2>1. \A i \in 1 .. n : pipe[i] \in ReplyCell
      BY <1>1
    <2>2. n \in Int /\ 1 \in Int
      BY <1>1
    <2>3. /\ head \in Seq(ReplyCell)
          /\ Len(head) = IF 1 <= n THEN n - 1 + 1 ELSE 0
          /\ \A i \in 1 .. n - 1 + 1 : head[i] = pipe[1 + i - 1]
      BY <2>1, <2>2, SubSeqProperties
    <2> HIDE DEF head
    <2> QED
      BY <1>1, <2>3
  <1>3. /\ tail \in Seq(ReplyCell)
        /\ Len(tail) = IF n + 1 <= Len(image) THEN Len(image) - n ELSE 0
    <2>1. \A i \in n + 1 .. Len(image) : image[i] \in ReplyCell
      BY <1>1
    <2>2. n + 1 \in Int /\ Len(image) \in Int
      BY <1>1
    <2>3. /\ tail \in Seq(ReplyCell)
          /\ Len(tail) = IF n + 1 <= Len(image)
                         THEN Len(image) - (n + 1) + 1 ELSE 0
      BY <2>1, <2>2, SubSeqProperties
    <2> HIDE DEF tail
    <2> QED
      BY <1>1, <2>3
  <1>4. image' = head \o tail
    BY DEF Accept
  <1> HIDE DEF head, tail
  <1>5. /\ image' \in Seq(ReplyCell)
        /\ Len(image') = Len(head) + Len(tail)
        /\ \A i \in 1 .. Len(head) + Len(tail) :
               image'[i] = IF i <= Len(head) THEN head[i]
                           ELSE tail[i - Len(head)]
    BY <1>2, <1>3, <1>4, ConcatProperties
  <1>6. Len(tail) \in Nat /\ n \in Nat
    BY <1>1, <1>3
  <1>7. n <= n + Len(tail) /\ n + Len(tail) <= SC_BUF_SIZE
    BY <1>1, <1>3, <1>6
  <1>8. \A i \in 1 .. n : image'[i] = pipe[i]
    <2> TAKE i \in 1 .. n
    <2>1. i <= n /\ i \in 1 .. n + Len(tail)
      BY <1>6
    <2> QED
      BY <1>2, <1>5, <2>1
  <1> QED
    BY <1>2, <1>5, <1>7, <1>8

\* No section is longer than the one its request asks for.
LEMMA SectionSizes ==
    ASSUME NEW r \in Request, NEW result
    PROVE  /\ SectionSize(r, result) \in Nat /\ SectionSize(r, result) >= 2
           /\ SectionSize(r, result) <= r.rx /\ r.rx \in Nat
           /\ result \notin Refusal => SectionSize(r, result) = r.rx
  BY RequestFacts DEF SectionSize

\* The section of a reply as a sequence of bytes.
LEMMA SectionBytes ==
    ASSUME NEW f \in 1 .. MaxCalls, NEW r \in Request, NEW result \in Result
    PROVE  /\ Section(f, r, result) \in Seq(ReplyCell)
           /\ Len(Section(f, r, result)) =
                  RX_HEADER + SectionSize(r, result)
           /\ \A k \in 1 .. RX_HEADER + SectionSize(r, result) :
                  Section(f, r, result)[k] = Cell(f, r, result, k)
  <1> DEFINE n == RX_HEADER + SectionSize(r, result)
  <1>1. SectionSize(r, result) \in Nat /\ SectionSize(r, result) >= 2
    BY SectionSizes
  <1>2. n \in Nat
    BY <1>1, BusAssumption
  <1>3. ASSUME NEW k \in 1 .. n
        PROVE  Cell(f, r, result, k) \in ReplyCell
    <2>1. k \in Nat \ {0} /\ SectionSize(r, result) \in Nat \ {0}
      BY <1>1, <1>2
    <2>2. r.call \in 1 .. MaxCalls
      BY RequestFacts
    <2> QED
      BY <2>1, <2>2 DEF Cell, ReplyCell
  <1>4. Section(f, r, result) = [k \in 1 .. n |-> Cell(f, r, result, k)]
    BY DEF Section
  <1> HIDE DEF n
  <1>5. Section(f, r, result) \in [1 .. n -> ReplyCell]
    BY <1>3, <1>4
  <1>6. /\ Section(f, r, result) \in Seq(ReplyCell)
        /\ Len(Section(f, r, result)) = n
    BY <1>2, <1>5, SeqDef, LenProperties
  <1> QED
    BY <1>1, <1>4, <1>6 DEF n

\* What the hub does when it serves the next request of its oldest frame.
LEMMA ServeEffect ==
    ASSUME BusInv, NEW result \in Result, Serve(result)
    PROVE  LET f == Head(wire)
               r == Head(f.todo)
           IN
           /\ wire # <<>> /\ f \in Frame /\ f = wire[1] /\ f.todo # <<>>
           /\ r \in Request /\ r = f.todo[1]
           /\ pipe' \in Seq(ReplyCell)
           /\ Len(pipe') = Len(pipe) + RX_HEADER + SectionSize(r, result)
           /\ \A i \in 1 .. Len(pipe) : pipe'[i] = pipe[i]
           /\ \A k \in 1 .. RX_HEADER + SectionSize(r, result) :
                  pipe'[Len(pipe) + k] = Cell(f.frame, r, result, k)
           /\ wire' \in Seq(Frame) /\ Len(wire') = Len(wire)
           /\ wire'[1] = [f EXCEPT !.todo = Tail(f.todo)]
           /\ \A k \in 2 .. Len(wire) : wire'[k] = wire[k]
           /\ out' \in [Child -> 0 .. MaxCalls]
           /\ served' \subseteq 1 .. MaxCalls
           /\ forged' \subseteq 1 .. MaxCalls
  <1> DEFINE f == Head(wire)
  <1> DEFINE r == Head(f.todo)
  <1>1. /\ wire \in Seq(Frame) /\ pipe \in Seq(ReplyCell)
        /\ out \in [Child -> 0 .. MaxCalls] /\ served \subseteq 1 .. MaxCalls
        /\ forged \subseteq 1 .. MaxCalls
        /\ Len(pipe) \in Nat /\ Len(wire) \in Nat
    BY DEF BusInv, TypeOK
  <1>2. /\ wire # <<>> /\ f.todo # <<>>
        /\ pipe' = pipe \o Section(f.frame, r, result)
        /\ wire' = <<[f EXCEPT !.todo = Tail(f.todo)]>> \o Tail(wire)
        /\ out' = IF r.kind \in {"exchange", "raw"} /\ result \notin Refusal
                  THEN [out EXCEPT ![r.child] = r.call] ELSE out
        /\ served' = IF result = "ok" THEN served \cup {r.call} ELSE served
        /\ forged' = IF result = "forged" THEN forged \cup {r.call} ELSE forged
    BY DEF Serve
  <1>3. f \in Frame /\ f = wire[1]
    BY <1>1, <1>2
  <1>4. /\ f.frame \in 1 .. MaxCalls /\ f.todo \in Seq(Request)
    BY <1>3 DEF Frame
  <1>5. r \in Request /\ r = f.todo[1]
    BY <1>2, <1>4
  <1>6. r.child \in Child /\ r.call \in 1 .. MaxCalls
    BY <1>5, RequestFacts
  <1>7. /\ out' \in [Child -> 0 .. MaxCalls] /\ served' \subseteq 1 .. MaxCalls
        /\ forged' \subseteq 1 .. MaxCalls
    <2>1. r.call \in 0 .. MaxCalls
      BY <1>6
    <2> QED
      BY <1>1, <1>2, <1>6, <2>1
  <1>8. /\ pipe' \in Seq(ReplyCell)
        /\ Len(pipe') = Len(pipe) + RX_HEADER + SectionSize(r, result)
        /\ \A i \in 1 .. Len(pipe) : pipe'[i] = pipe[i]
        /\ \A k \in 1 .. RX_HEADER + SectionSize(r, result) :
               pipe'[Len(pipe) + k] = Cell(f.frame, r, result, k)
    <2> DEFINE s == Section(f.frame, r, result)
    <2> DEFINE size == SectionSize(r, result)
    <2> DEFINE n == RX_HEADER + size
    <2>1. /\ s \in Seq(ReplyCell) /\ Len(s) = n /\ size \in Nat
          /\ \A k \in 1 .. n : s[k] = Cell(f.frame, r, result, k)
      BY <1>4, <1>5, SectionBytes, SectionSizes
    <2>2. RX_HEADER \in Nat
      BY BusAssumption
    <2> HIDE DEF s, size
    <2>3. n \in Nat /\ Len(pipe) + n = Len(pipe) + RX_HEADER + size
      BY <1>1, <2>1, <2>2
    <2> HIDE DEF n
    <2>4. pipe' = pipe \o s
      BY <1>2 DEF s
    <2>5. /\ pipe' \in Seq(ReplyCell) /\ Len(pipe') = Len(pipe) + Len(s)
          /\ \A i \in 1 .. Len(pipe) + Len(s) :
                 pipe'[i] = IF i <= Len(pipe) THEN pipe[i]
                            ELSE s[i - Len(pipe)]
      BY <1>1, <2>1, <2>4, ConcatProperties
    <2>6. ASSUME NEW k \in 1 .. n
          PROVE  pipe'[Len(pipe) + k] = Cell(f.frame, r, result, k)
      <3>1. /\ Len(pipe) + k \in 1 .. Len(pipe) + Len(s)
            /\ ~(Len(pipe) + k <= Len(pipe))
            /\ (Len(pipe) + k) - Len(pipe) = k
        BY <1>1, <2>1, <2>3
      <3>2. pipe'[Len(pipe) + k] = s[k]
        BY <2>5, <3>1
      <3> QED
        BY <2>1, <3>2
    <2>7. \A i \in 1 .. Len(pipe) : pipe'[i] = pipe[i]
      BY <1>1, <2>1, <2>3, <2>5
    <2>8. Len(pipe') = Len(pipe) + RX_HEADER + size
      BY <2>1, <2>3, <2>5
    <2> QED
      <3>1. \A k \in 1 .. RX_HEADER + size :
                pipe'[Len(pipe) + k] = Cell(f.frame, r, result, k)
        BY <2>6 DEF n
      <3> QED
        BY <2>5, <2>7, <2>8, <3>1 DEF size
  <1>9. /\ wire' \in Seq(Frame) /\ Len(wire') = Len(wire)
        /\ wire'[1] = [f EXCEPT !.todo = Tail(f.todo)]
        /\ \A k \in 2 .. Len(wire) : wire'[k] = wire[k]
    <2> DEFINE g == [f EXCEPT !.todo = Tail(f.todo)]
    <2>1. g \in Frame
      <3>1. Tail(f.todo) \in Seq(Request)
        BY <1>2, <1>4
      <3> QED
        BY <1>3, <3>1 DEF Frame
    <2> HIDE DEF g
    <2>2. <<g>> \in Seq(Frame) /\ Len(<<g>>) = 1 /\ <<g>>[1] = g
      BY <2>1
    <2>3. Tail(wire) \in Seq(Frame) /\ Len(Tail(wire)) = Len(wire) - 1
      BY <1>1, <1>2
    <2>4. wire' = <<g>> \o Tail(wire)
      BY <1>2 DEF g
    <2>5. /\ wire' \in Seq(Frame)
          /\ Len(wire') = Len(<<g>>) + Len(Tail(wire))
          /\ \A i \in 1 .. Len(<<g>>) + Len(Tail(wire)) :
                 wire'[i] = IF i <= Len(<<g>>) THEN <<g>>[i]
                            ELSE Tail(wire)[i - Len(<<g>>)]
      BY <2>2, <2>3, <2>4, ConcatProperties
    <2>6. Len(Tail(wire)) \in Nat
      BY <2>3
    <2>7. Len(wire') = Len(wire) /\ wire'[1] = g
      BY <1>1, <2>2, <2>3, <2>5, <2>6
    <2>8. ASSUME NEW k \in 2 .. Len(wire)
          PROVE  wire'[k] = wire[k]
      <3>1. /\ k \in 1 .. 1 + Len(Tail(wire)) /\ ~(k <= 1)
            /\ k - 1 \in 1 .. Len(wire) - 1 /\ (k - 1) + 1 = k
        BY <1>1, <2>3
      <3>2. wire'[k] = Tail(wire)[k - 1]
        BY <2>2, <2>5, <3>1
      <3>3. Tail(wire)[k - 1] = wire[(k - 1) + 1]
        BY <1>1, <1>2, <3>1, HeadTailProperties
      <3> QED
        BY <3>1, <3>2, <3>3
    <2> QED
      BY <2>5, <2>7, <2>8 DEF g
  <1> QED
    BY <1>2, <1>3, <1>5, <1>7, <1>8, <1>9

LEMMA CloseReplyEffect ==
    ASSUME BusInv, NEW result \in {"ok", "err"}, CloseReply(result)
    PROVE  /\ wire # <<>> /\ wire[1].todo = <<>>
           /\ wire' = Tail(wire) /\ wire' \in Seq(Frame)
           /\ pipe' \in Seq(ReplyCell) /\ Len(pipe') = Len(pipe) + 1
           /\ \A i \in 1 .. Len(pipe) : pipe'[i] = pipe[i]
  <1>1. wire \in Seq(Frame) /\ pipe \in Seq(ReplyCell)
    BY DEF BusInv, TypeOK
  <1>2. /\ wire # <<>> /\ Head(wire).todo = <<>>
        /\ pipe' = Append(pipe, HubStatus(Head(wire).frame, result))
        /\ wire' = Tail(wire)
    BY DEF CloseReply
  <1>3. Head(wire) = wire[1] /\ wire[1] \in Frame
    BY <1>1, <1>2
  <1>4. HubStatus(Head(wire).frame, result) \in ReplyCell
    BY <1>3 DEF HubStatus, ReplyCell, Result, Frame
  <1> QED
    BY <1>1, <1>2, <1>3, <1>4, AppendProperties

-----------------------------------------------------------------------------

\* The queue's part of the invariant after a step.
LEMMA QueueAfter ==
    ASSUME QueueInv'
    PROVE  /\ Queue!TypeOK' /\ sections' \in Seq(Request)
           /\ Len(sections') \in Nat /\ Len(sections') <= BYTE_SIZE - 1
  <1>1. Queue!TypeOK'
    BY DEF QueueInv, QP!IInv, QP!TypeOK, Queue!TypeOK
  <1>2. sections' \in Seq(Request) /\ bComDeviceCount' \in 0 .. BYTE_SIZE - 1
    BY <1>1 DEF Queue!TypeOK
  <1>3. bComDeviceCount' = Len(sections')
    BY DEF QueueInv, QP!IInv, QP!ReplyRouting
  <1> QED
    BY <1>1, <1>2, <1>3, BusAssumption

LEMMA InitBusInv == Init => BusInv
  <1> SUFFICES ASSUME Init PROVE BusInv
    OBVIOUS
  <1>1. QueueInv
    BY InitQueueInv
  <1>2. sections = <<>> /\ Len(sections) = 0
    BY DEF Init, Queue!Init
  <1>3. TypeOK
    <2>1. Queue!TypeOK
      BY <1>1, QueueFacts
    <2>2. Nothing \in Sample /\ 0 \in 0 .. MaxCalls /\ 0 \in 0 .. MaxFaults
      BY BusAssumption DEF Sample
    <2>3. mod \in [Child -> ModuleObject]
      BY <2>2 DEF Init, ModuleObject
    <2>4. 0 \in 0 .. BYTE_SIZE - 1
      BY BusAssumption
    <2> QED
      <3>1. /\ <<>> \in Seq(ReplyCell) /\ <<>> \in Seq(Frame)
            /\ Len(<<>>) <= SC_BUF_SIZE /\ 0 \in 0 .. Len(<<>>) + 1
        BY BusAssumption
      <3>2. current \in [child : Child \cup {NoChild},
                        kind : Kind \cup {"none"},
                        call : 0 .. MaxCalls, armed : BOOLEAN]
        BY <2>2 DEF Init
      <3>3. /\ buffer \in [1 .. MaxCalls -> Sample]
            /\ out \in [Child -> 0 .. MaxCalls]
        BY <2>2 DEF Init
      <3> QED
        BY <2>1, <2>2, <2>3, <2>4, <3>1, <3>2, <3>3 DEF Init, TypeOK
  <1>4. LoopInv /\ CallerInv /\ BoardsWait
    BY <1>2 DEF Init, LoopInv, CallerInv, BoardsWait
  <1> QED
    BY <1>1, <1>3, <1>4 DEF BusInv

LEMMA CallBusInv ==
    ASSUME BusInv, QueueInv', NEW m \in Child, NEW kind \in Kind,
           NEW now \in BOOLEAN, Call(m, kind, now)
    PROVE  BusInv'
  <1> DEFINE n == Len(sections)
  <1> DEFINE r == Req(m, kind, current.call + 1)
  <1>1. /\ r \in Request /\ r.child = m /\ r.kind = kind
        /\ r.call = current.call + 1 /\ r.call \in 1 .. MaxCalls
        /\ current' = [child |-> m, kind |-> kind, call |-> r.call,
                       armed |-> mod[m].ExtMode]
        /\ mod' \in [Child -> ModuleObject]
        /\ \A x \in Child : x # m => mod'[x] = mod[x]
        /\ mod'[m].ExtMode <=> mod[m].ExtMode \/ kind = "exchange"
        /\ mod'[m].pReserveBuffer = r.call
        /\ mod'[m].wReqRxSize = r.rx
        /\ phase = "idle" /\ answer' \in BOOLEAN
    BY CallEffect
  <1>2. \/ /\ sections' = sections
           /\ answer' = FALSE /\ phase' = "idle"
        \/ /\ sections' = Append(sections, r)
           /\ phase' # "idle" => phase' = "write" /\ transceiving'
    BY CallQueued
  <1>3. UNCHANGED <<idx, pos, image, buffer, dead, wire, pipe, out, served,
                    forged, clean, faults>>
    BY DEF Call, loopVars, dataVars, linkVars
  <1>4. /\ sections \in Seq(Request) /\ n \in Nat
        /\ \A i \in 1 .. n : sections[i] \in Request
        /\ \A i \in 1 .. n : sections[i].child \in Child
    BY QueueFacts, RequestFacts DEF BusInv
  <1>5. r = Req(current'.child, current'.kind, current'.call)
    BY <1>1
  <1>6. r.rx = DataIn(kind) + 2
    BY <1>1, RequestFacts
  <1>7. idx = 0 /\ pos = 0
    BY <1>1 DEF BusInv, LoopInv
  <1>8. \/ /\ Len(sections') = n
           /\ phase' = "idle" /\ sections' = sections
        \/ /\ Len(sections') = n + 1 /\ sections'[n + 1] = r
           /\ \A i \in 1 .. n : sections'[i] = sections[i]
           /\ phase' # "idle" => phase' = "write" /\ transceiving'
    BY <1>1, <1>2, <1>4, AppendProperties, SMTT(15)
  <1> HIDE DEF n, r
  <1>9. ASSUME NEW i \in 1 .. Len(sections')
        PROVE  \/ i \in 1 .. n /\ sections'[i] = sections[i]
               \/ sections'[i] = r
    BY <1>4, <1>8
  <1>10. TypeOK'
    <2>1. Queue!TypeOK'
      BY QueueAfter
    <2>2. current' \in [child : Child \cup {NoChild}, kind : Kind \cup {"none"},
                        call : 0 .. MaxCalls, armed : BOOLEAN]
      <3>1. mod[m].ExtMode \in BOOLEAN
        BY DEF BusInv, TypeOK, ModuleObject
      <3>2. r.call \in 0 .. MaxCalls
        BY <1>1
      <3> QED
        BY <1>1, <3>1, <3>2
    <2>3. phase' \in {"idle", "write", "read", "deliver"}
      BY <1>8
    <2> QED
      BY <1>1, <1>3, <2>1, <2>2, <2>3 DEF BusInv, TypeOK
  <1>11. LoopInv'
    <2>1. ASSUME NEW i \in 1 .. Len(sections')
          PROVE  mod'[sections'[i].child].pReserveBuffer \in 1 .. MaxCalls
      <3>1. CASE sections'[i].child = m
        BY <1>1, <3>1
      <3>2. CASE sections'[i].child # m
        <4>1. i \in 1 .. n /\ sections'[i] = sections[i]
          BY <1>1, <1>9, <3>2
        <4>2. mod'[sections[i].child] = mod[sections[i].child]
          BY <1>1, <1>4, <3>2, <4>1
        <4> QED
          BY <4>1, <4>2 DEF BusInv, LoopInv, n
      <3> QED
        BY <3>1, <3>2
    <2>2. idx' <= Len(sections')
      BY <1>3, <1>4, <1>7, <1>8
    <2> QED
      BY <1>3, <1>7, <2>1, <2>2 DEF LoopInv
  <1>12. CallerInv'
    <2> SUFFICES ASSUME phase' # "idle"
                 PROVE  CallerInv'
      BY DEF CallerInv
    <2>1. /\ Len(sections') = n + 1 /\ sections'[n + 1] = r
          /\ transceiving'
      BY <1>8
    <2>2. Len(sections') > 0 /\ sections'[Len(sections')] = r
      BY <1>4, <2>1
    <2>3. kind = "query" /\ ~mod[m].ExtMode => ~mod'[m].ExtMode
      BY <1>1
    <2> QED
      BY <1>1, <1>5, <1>6, <2>1, <2>2, <2>3 DEF CallerInv
  <1>13. BoardsWait'
    <2> SUFFICES ASSUME NEW i \in 1 .. Len(sections'),
                        sections'[i].kind = "exchange"
                 PROVE  mod'[sections'[i].child].ExtMode
      BY <1>3, <1>7 DEF BoardsWait
    <2>1. CASE sections'[i] = r
      BY <1>1, <2>1
    <2>2. CASE i \in 1 .. n /\ sections'[i] = sections[i]
      <3>1. mod[sections[i].child].ExtMode
        BY <1>4, <1>7, <2>2 DEF BusInv, BoardsWait, n
      <3>2. CASE sections[i].child = m
        BY <1>1, <2>2, <3>1, <3>2
      <3>3. CASE sections[i].child # m
        BY <1>1, <1>4, <2>2, <3>1, <3>3
      <3> QED
        BY <3>2, <3>3
    <2> QED
      BY <1>9, <2>1, <2>2
  <1> QED
    BY <1>10, <1>11, <1>12, <1>13 DEF BusInv

\* A step outside the reply loop that changes neither objects nor requests,
\* among them those of the hub.
LEMMA QuietBusInv ==
    ASSUME BusInv, QueueInv', TypeOK',
           UNCHANGED <<sections, mod, current, idx, pos>>,
           phase' # "idle" => phase # "idle" /\ transceiving' = transceiving,
           phase' = phase \/ "deliver" \notin {phase, phase'}
    PROVE  BusInv'
  <1>1. LoopInv'
    BY DEF BusInv, LoopInv
  <1>2. CallerInv'
    BY DEF BusInv, CallerInv
  <1>3. BoardsWait'
    BY DEF BusInv, BoardsWait
  <1> QED
    BY <1>1, <1>2, <1>3 DEF BusInv

LEMMA HubBusInv ==
    ASSUME BusInv, QueueInv', HubNext
    PROVE  BusInv'
  <1> DEFINE LinkTyped ==
        /\ wire' \in Seq(Frame) /\ pipe' \in Seq(ReplyCell)
        /\ out' \in [Child -> 0 .. MaxCalls] /\ served' \subseteq 1 .. MaxCalls
        /\ forged' \subseteq 1 .. MaxCalls
        /\ clean' \in BOOLEAN /\ faults' \in 0 .. MaxFaults
  <1>1. UNCHANGED <<queueVars, mod, phase, current, answer, loopVars, dataVars>>
    BY DEF HubNext, Serve, CloseReply, DropFrame
  <1>2. /\ faults \in 0 .. MaxFaults /\ MaxFaults \in Nat
        /\ clean \in BOOLEAN /\ wire \in Seq(Frame) /\ pipe \in Seq(ReplyCell)
        /\ out \in [Child -> 0 .. MaxCalls] /\ served \subseteq 1 .. MaxCalls
        /\ forged \subseteq 1 .. MaxCalls
    BY BusAssumption DEF BusInv, TypeOK
  <1>3. ASSUME NEW result \in Result, Serve(result)
        PROVE  LinkTyped
    <2>1. clean' \in BOOLEAN /\ faults' \in 0 .. MaxFaults
      <3>1. /\ faults' = faults \/ (faults' = faults + 1 /\ faults < MaxFaults)
            /\ clean' = clean
        BY <1>3 DEF Serve, CanFail
      <3> QED
        BY <1>2, <3>1
    <2>2. /\ wire' \in Seq(Frame) /\ pipe' \in Seq(ReplyCell)
          /\ out' \in [Child -> 0 .. MaxCalls]
          /\ served' \subseteq 1 .. MaxCalls /\ forged' \subseteq 1 .. MaxCalls
      BY <1>3, ServeEffect
    <2> QED
      BY <2>1, <2>2
  <1>4. ASSUME NEW result \in {"ok", "err"}, CloseReply(result)
        PROVE  LinkTyped
    <2>1. /\ faults' = faults \/ (faults' = faults + 1 /\ faults < MaxFaults)
          /\ UNCHANGED <<clean, out, served, forged>>
      BY <1>4 DEF CloseReply, CanFail
    <2>2. faults' \in 0 .. MaxFaults
      BY <1>2, <2>1
    <2>3. wire' \in Seq(Frame) /\ pipe' \in Seq(ReplyCell)
      BY <1>4, CloseReplyEffect
    <2> QED
      BY <1>2, <2>1, <2>2, <2>3
  <1>5. ASSUME DropFrame
        PROVE  LinkTyped
    <2>1. /\ wire # <<>> /\ wire' = Tail(wire)
          /\ faults < MaxFaults /\ faults' = faults + 1
          /\ clean' = FALSE /\ UNCHANGED <<pipe, out, served, forged>>
      BY <1>5 DEF DropFrame, CanFail
    <2>2. wire' \in Seq(Frame)
      <3>1. wire \in Seq(Frame)
        BY <1>2
      <3> QED
        BY <2>1, <3>1, HeadTailProperties
    <2>3. faults' \in 0 .. MaxFaults
      BY <1>2, <2>1
    <2> QED
      BY <1>2, <2>1, <2>2, <2>3
  <1>6. LinkTyped
    BY <1>3, <1>4, <1>5 DEF HubNext, Result
  <1>7. TypeOK'
    <2>1. Queue!TypeOK'
      BY QueueAfter
    <2> QED
      BY <1>1, <1>6, <2>1 DEF BusInv, TypeOK, loopVars, dataVars
  <1>8. UNCHANGED <<sections, transceiving, mod, current, idx, pos, phase>>
    BY <1>1 DEF queueVars, loopVars
  <1> QED
    BY <1>7, <1>8, QuietBusInv

LEMMA WriteFileBusInv ==
    ASSUME BusInv, QueueInv', WriteFile
    PROVE  BusInv'
  <1>1. /\ phase = "write" /\ phase' = "read"
        /\ wire' = Append(wire, [frame |-> current.call, todo |-> sections])
        /\ clean' = (wire = <<>> /\ pipe = <<>>)
        /\ UNCHANGED <<queueVars, mod, current, answer, loopVars, dataVars,
                       pipe, out, served, forged, faults>>
    BY DEF WriteFile
  <1>2. [frame |-> current.call, todo |-> sections] \in Frame
    <2>1. sections \in Seq(Request)
      BY QueueFacts DEF BusInv
    <2>2. current.call \in 1 .. MaxCalls
      BY <1>1 DEF BusInv, CallerInv
    <2> QED
      BY <2>1, <2>2 DEF Frame
  <1>3. wire' \in Seq(Frame)
    BY <1>1, <1>2, AppendProperties DEF BusInv, TypeOK
  <1>4. TypeOK'
    <2>1. Queue!TypeOK'
      BY QueueAfter
    <2>2. clean' \in BOOLEAN
      BY <1>1
    <2> QED
      BY <1>1, <1>3, <2>1, <2>2 DEF BusInv, TypeOK, loopVars, dataVars
  <1>5. UNCHANGED <<sections, transceiving, mod, current, idx, pos>>
    BY <1>1 DEF queueVars, loopVars
  <1> QED
    BY <1>1, <1>4, <1>5, QuietBusInv

\* The method returns with an error.
LEMMA FailBusInv ==
    ASSUME BusInv, QueueInv', Fail, phase \in {"write", "read"},
           UNCHANGED <<wire, out, served, forged>>, pipe' \in Seq(ReplyCell),
           clean' \in BOOLEAN, faults' \in 0 .. MaxFaults
    PROVE  BusInv'
  <1>1. /\ phase' = "idle" /\ answer' = FALSE /\ sections' = sections
        /\ UNCHANGED <<mod, current, loopVars, dataVars>>
    BY DEF Fail, Queue!TransceiveError
  <1>2. TypeOK'
    <2>1. Queue!TypeOK'
      BY QueueAfter
    <2> QED
      BY <1>1, <2>1 DEF BusInv, TypeOK, loopVars, dataVars
  <1>3. UNCHANGED <<sections, mod, current, idx, pos>>
    BY <1>1 DEF loopVars
  <1> QED
    BY <1>1, <1>2, <1>3, QuietBusInv

\* The reply goes to the loop.
LEMMA AcceptBusInv ==
    ASSUME BusInv, QueueInv', phase = "read",
           NEW n \in 0 .. Len(pipe), n <= iRxBufCount, Accept(n),
           UNCHANGED <<wire, out, served, forged>>, pipe' \in Seq(ReplyCell),
           clean' \in BOOLEAN, faults' \in 0 .. MaxFaults
    PROVE  BusInv'
  <1>1. /\ idx' = 0 /\ pos' = 1 /\ phase' = "deliver"
        /\ UNCHANGED <<queueVars, mod, current, answer, dataVars>>
    BY DEF Accept
  <1>2. /\ n <= SC_BUF_SIZE /\ Len(sections) \in Nat
        /\ Len(sections) <= BYTE_SIZE - 1
    <2>1. /\ iRxBufCount \in Nat /\ iRxBufCount <= SC_BUF_SIZE
          /\ Len(sections) \in Nat /\ Len(sections) <= BYTE_SIZE - 1
      BY QueueFacts DEF BusInv
    <2>2. n \in Nat
      BY DEF BusInv, TypeOK
    <2> QED
      BY <2>1, <2>2, BusAssumption
  <1>3. image' \in Seq(ReplyCell) /\ Len(image') <= SC_BUF_SIZE
    BY <1>2, AcceptEffect DEF BusInv
  <1>4. TypeOK'
    <2>1. Queue!TypeOK'
      BY QueueAfter
    <2>2. idx' \in 0 .. BYTE_SIZE - 1 /\ pos' \in 0 .. Len(image') + 1
      BY <1>1, <1>2, <1>3, BusAssumption
    <2> QED
      BY <1>1, <1>3, <2>1, <2>2 DEF BusInv, TypeOK, dataVars
  <1>5. UNCHANGED <<sections, transceiving, mod, current>>
    BY <1>1 DEF queueVars
  <1>6. idx = 0
    BY DEF BusInv, LoopInv
  <1>7. LoopInv'
    BY <1>1, <1>2, <1>5 DEF BusInv, LoopInv
  <1>8. CallerInv'
    BY <1>1, <1>5 DEF BusInv, CallerInv
  <1>9. BoardsWait'
    BY <1>1, <1>5, <1>6 DEF BusInv, BoardsWait
  <1> QED
    BY <1>4, <1>7, <1>8, <1>9 DEF BusInv

LEMMA ReadFullBusInv ==
    ASSUME BusInv, QueueInv', ReadFull
    PROVE  BusInv'
  <1>1. /\ phase = "read" /\ Len(pipe) >= wSize /\ Accept(wSize - 1)
        /\ pipe' = SubSeq(pipe, wSize + 1, Len(pipe))
        /\ UNCHANGED <<wire, out, served, forged, clean, faults>>
    BY DEF ReadFull
  <1>2. iRxBufCount \in Nat
    BY QueueFacts DEF BusInv
  <1>3. /\ pipe \in Seq(ReplyCell) /\ Len(pipe) \in Nat
        /\ clean \in BOOLEAN /\ faults \in 0 .. MaxFaults
    BY DEF BusInv, TypeOK
  <1>4. /\ wSize - 1 = iRxBufCount /\ wSize + 1 \in Int
        /\ iRxBufCount \in 0 .. Len(pipe) /\ wSize + 1 >= 1
    BY <1>1, <1>2, <1>3 DEF wSize
  <1>5. pipe' \in Seq(ReplyCell)
    <2>1. \A i \in wSize + 1 .. Len(pipe) : pipe[i] \in ReplyCell
      BY <1>3, <1>4
    <2> QED
      BY <1>1, <1>3, <1>4, <2>1, SubSeqProperties
  <1>6. Accept(iRxBufCount)
    BY <1>1, <1>4
  <1>7. iRxBufCount <= iRxBufCount
    BY <1>2
  <1> QED
    BY <1>1, <1>3, <1>4, <1>5, <1>6, <1>7, AcceptBusInv

LEMMA ReadTimeoutBusInv ==
    ASSUME BusInv, QueueInv', ReadTimeout
    PROVE  BusInv'
  <1>1. /\ phase = "read" /\ Len(pipe) < wSize
        /\ Accept(Len(pipe)) \/ Fail
        /\ pipe' = <<>> /\ UNCHANGED <<wire, out, served, forged>>
        /\ clean' = (clean /\ wire = <<>>)
        /\ faults' = faults \/ (faults' = faults + 1 /\ faults < MaxFaults)
    BY DEF ReadTimeout, Short, CanFail
  <1>2. /\ iRxBufCount \in Nat /\ Len(pipe) \in Nat
        /\ faults \in 0 .. MaxFaults /\ MaxFaults \in Nat
    BY QueueFacts, BusAssumption DEF BusInv, TypeOK
  <1>3. /\ pipe' \in Seq(ReplyCell) /\ clean' \in BOOLEAN
        /\ faults' \in 0 .. MaxFaults
    BY <1>1, <1>2
  <1>4. Len(pipe) \in 0 .. Len(pipe) /\ Len(pipe) <= iRxBufCount
    BY <1>1, <1>2 DEF wSize
  <1>5. CASE Accept(Len(pipe))
    BY <1>1, <1>3, <1>4, <1>5, AcceptBusInv
  <1>6. CASE Fail
    BY <1>1, <1>3, <1>6, FailBusInv
  <1> QED
    BY <1>1, <1>5, <1>6

LEMMA WriteOrReadErrorBusInv ==
    ASSUME BusInv, QueueInv', WriteOrReadError
    PROVE  BusInv'
  <1>1. /\ phase \in {"write", "read"} /\ Fail
        /\ UNCHANGED <<wire, pipe, out, served, forged, clean>>
        /\ faults' = faults + 1 /\ faults < MaxFaults
    BY DEF WriteOrReadError, CanFail, linkVars
  <1>2. /\ faults \in 0 .. MaxFaults /\ MaxFaults \in Nat
        /\ pipe \in Seq(ReplyCell) /\ clean \in BOOLEAN
    BY BusAssumption DEF BusInv, TypeOK
  <1>3. faults' \in 0 .. MaxFaults
    BY <1>1, <1>2
  <1> QED
    BY <1>1, <1>2, <1>3, FailBusInv

LEMMA DeliverBusInv ==
    ASSUME BusInv, QueueInv', DeliverSection
    PROVE  BusInv'
  <1> DEFINE m == pChildModule[idx]
  <1> DEFINE n == Len(sections)
  <1>1. /\ phase = "deliver" /\ idx \in Nat /\ idx < n
        /\ m \in Child /\ m = sections[idx + 1].child
        /\ ReplyTaken(m)
        /\ idx' = idx + 1
        /\ pos' \in 0 .. Len(image) + 1
    BY DeliverEffect
  <1>2. UNCHANGED <<queueVars, phase, current, answer, image, linkVars, clean,
                    faults>>
    BY DEF DeliverSection
  <1>3. sections' = sections /\ transceiving' = transceiving
    BY <1>2 DEF queueVars
  <1>4. /\ n \in Nat /\ n <= BYTE_SIZE - 1 /\ BYTE_SIZE \in Nat
        /\ \A i \in 1 .. n : sections[i].child \in Child
    BY QueueFacts, RequestFacts, BusAssumption DEF BusInv
  <1> HIDE DEF m, n
  <1>5. /\ mod' \in [Child -> ModuleObject]
        /\ \A x \in Child : x # m => mod'[x] = mod[x]
        /\ mod'[m].pReserveBuffer = mod[m].pReserveBuffer
        /\ mod'[m].wReqRxSize = mod[m].wReqRxSize
        /\ mod'[m].ExtMode => mod[m].ExtMode
        /\ buffer' \in [1 .. MaxCalls -> Sample]
        /\ dead' \subseteq 1 .. MaxCalls
    BY <1>1 DEF ReplyTaken
  <1>6. TypeOK'
    <2>1. Queue!TypeOK'
      BY QueueAfter
    <2>2. idx' \in 0 .. BYTE_SIZE - 1
      BY <1>1, <1>4
    <2> QED
      BY <1>1, <1>2, <1>5, <2>1, <2>2 DEF BusInv, TypeOK, linkVars
  <1>7. \A x \in Child : /\ mod'[x].pReserveBuffer = mod[x].pReserveBuffer
                         /\ mod'[x].wReqRxSize = mod[x].wReqRxSize
                         /\ mod'[x].ExtMode => mod[x].ExtMode
    BY <1>5
  <1>8. LoopInv'
    <2>1. ASSUME NEW i \in 1 .. n
          PROVE  mod'[sections[i].child].pReserveBuffer \in 1 .. MaxCalls
      BY <1>4, <1>7 DEF BusInv, LoopInv, n
    <2>2. idx' <= n
      BY <1>1, <1>4
    <2> QED
      BY <1>1, <1>2, <1>3, <2>1, <2>2 DEF LoopInv, n
  <1>9. CallerInv'
    BY <1>1, <1>2, <1>3, <1>7 DEF BusInv, CallerInv
  <1>10. BoardsWait'
    <2> SUFFICES ASSUME NEW i \in idx' + 1 .. n,
                        sections[i].kind = "exchange",
                        \A j \in 1 .. idx' : sections[j].child # sections[i].child
                 PROVE  mod'[sections[i].child].ExtMode
      BY <1>3 DEF BoardsWait, n
    <2>1. /\ i \in idx + 1 .. n /\ i \in 1 .. n
          /\ idx + 1 \in 1 .. idx' /\ 1 .. idx \subseteq 1 .. idx'
      BY <1>1, <1>4
    <2>2. mod[sections[i].child].ExtMode
      BY <2>1 DEF BusInv, BoardsWait, n
    <2>3. sections[i].child # m
      BY <1>1, <2>1
    <2> QED
      BY <1>4, <1>5, <2>1, <2>2, <2>3
  <1> QED
    BY <1>6, <1>8, <1>9, <1>10 DEF BusInv

LEMMA ReturnBusInv ==
    ASSUME BusInv, QueueInv', Return
    PROVE  BusInv'
  <1>1. /\ phase' = "idle" /\ idx' = 0 /\ pos' = 0
        /\ answer' \in BOOLEAN /\ sections' = <<>> /\ Len(sections') = 0
        /\ UNCHANGED <<mod, current, image, dataVars, linkVars, clean, faults>>
    BY DEF Return, Queue!EndProcess
  <1>2. TypeOK'
    <2>1. Queue!TypeOK'
      BY QueueAfter
    <2>2. 0 \in 0 .. BYTE_SIZE - 1 /\ 0 \in 0 .. Len(image) + 1
      BY BusAssumption DEF BusInv, TypeOK
    <2> QED
      BY <1>1, <2>1, <2>2 DEF BusInv, TypeOK, dataVars, linkVars
  <1>3. LoopInv' /\ CallerInv' /\ BoardsWait'
    BY <1>1 DEF LoopInv, CallerInv, BoardsWait
  <1> QED
    BY <1>2, <1>3 DEF BusInv

LEMMA NextBusInv == BusInv /\ [Next]_vars => BusInv'
  <1> SUFFICES ASSUME BusInv, [Next]_vars
               PROVE  BusInv'
    OBVIOUS
  <1>1. QueueInv'
    BY NextQueueInv DEF BusInv, TypeOK, CallsCounted
  <1>2. CASE CallNext
    BY <1>1, <1>2, CallBusInv DEF CallNext
  <1>3. CASE HubNext
    BY <1>1, <1>3, HubBusInv
  <1>4. CASE ProgramStep
    BY <1>1, <1>4, WriteFileBusInv, WriteOrReadErrorBusInv, ReadFullBusInv,
       ReadTimeoutBusInv, DeliverBusInv, ReturnBusInv DEF ProgramStep
  <1>5. CASE UNCHANGED vars
    <2>1. TypeOK'
      BY <1>5
      DEF vars, queueVars, loopVars, dataVars, linkVars, BusInv, TypeOK,
          Queue!TypeOK
    <2> QED
      BY <1>1, <1>5, <2>1, QuietBusInv DEF vars, queueVars, loopVars
  <1> QED
    BY <1>2, <1>3, <1>4, <1>5 DEF Next

LEMMA BusInvariant == Spec => []BusInv
  BY InitBusInv, NextBusInv, PTL DEF Spec

\* Objects, buffers, reply and link keep their types; in particular the
\* reply loop never leaves TransferRxBuffer, and a reply never ends before
\* it starts, whatever the hub sends.
THEOREM TypeCorrect == Spec => []TypeOK
  <1>1. BusInv => TypeOK
    BY DEF BusInv
  <1> QED
    BY <1>1, BusInvariant, PTL

\* A reply reaches a buffer that is gone only for a module, not the
\* caller's, with several requests in the frame or one that is no exchange.
THEOREM GoneBuffers == Spec => GoneOnlyByBacklog
  <1> DEFINE Backlog ==
        LET m == pChildModule[idx]
        IN  /\ m # current.child
            /\ \/ \E i, j \in QueuedOf(m) : i # j
               \/ \E i \in QueuedOf(m) : sections[i].kind # "exchange"
  <1>1. BusInv /\ [Next]_vars => [dead' # dead => Backlog]_vars
    <2> SUFFICES ASSUME BusInv, Next, dead' # dead
                 PROVE  Backlog
      OBVIOUS
    <2> DEFINE m == pChildModule[idx]
    <2>1. DeliverSection
      <3>1. ASSUME NEW x \in Child, NEW kind \in Kind, NEW now \in BOOLEAN,
                   Call(x, kind, now)
            PROVE  UNCHANGED dataVars
        BY <3>1 DEF Call
      <3>2. CallNext => UNCHANGED dataVars
        BY <3>1 DEF CallNext
      <3>3. HubNext => UNCHANGED dataVars
        BY DEF HubNext, Serve, CloseReply, DropFrame
      <3>4. WriteFile \/ WriteOrReadError \/ ReadFull \/ ReadTimeout \/ Return
                => UNCHANGED dataVars
        BY DEF WriteFile, WriteOrReadError, ReadFull, ReadTimeout, Return,
               Accept, Fail
      <3>5. UNCHANGED dataVars => dead' = dead
        BY DEF dataVars
      <3> QED
        BY <3>2, <3>3, <3>4, <3>5 DEF Next, ProgramStep
    <2>2. /\ phase = "deliver" /\ idx \in Nat /\ idx < Len(sections)
          /\ m \in Child /\ m = sections[idx + 1].child
          /\ ~mod[m].ExtMode /\ mod[m].pReserveBuffer # current.call
      BY <2>1, DeliverEffect DEF ReplyTaken
    <2>3. m # current.child
      BY <2>2 DEF BusInv, CallerInv
    <2>4. /\ sections \in Seq(Request) /\ Len(sections) \in Nat
          /\ DOMAIN sections = 1 .. Len(sections)
      BY QueueFacts DEF BusInv
    <2>5. idx + 1 \in QueuedOf(m)
      BY <2>2, <2>4 DEF QueuedOf
    <2>6. CASE \E j \in 1 .. idx : sections[j].child = sections[idx + 1].child
      <3>1. PICK j \in 1 .. idx : sections[j].child = m
        BY <2>2, <2>6
      <3>2. j \in QueuedOf(m) /\ j # idx + 1
        BY <2>2, <2>4, <3>1 DEF QueuedOf
      <3> QED
        BY <2>3, <2>5, <3>2
    <2>7. CASE \A j \in 1 .. idx : sections[j].child # sections[idx + 1].child
      <3>1. idx + 1 \in idx + 1 .. Len(sections)
        BY <2>2, <2>4
      <3>2. sections[idx + 1].kind # "exchange"
        BY <2>2, <2>7, <3>1 DEF BusInv, BoardsWait
      <3> QED
        BY <2>3, <2>5, <3>2
    <2> QED
      BY <2>6, <2>7
  <1> QED
    BY <1>1, BusInvariant, PTL DEF Spec, GoneOnlyByBacklog

-----------------------------------------------------------------------------

(***************************************************************************)
(* In which order the hub sees the requests.  A request stays in the queue *)
(* until a transfer succeeds, so a sequence of requests, queued or on the  *)
(* link, that was written after call c was sent and still holds an older   *)
(* call holds c as well, behind it.                                        *)
(***************************************************************************)
Calls(s) == { s[i].call : i \in 1 .. Len(s) }

Follows(c, s) == \A q \in Calls(s) : q < c => c \in Calls(s)

InOrder(s) == \A i, j \in 1 .. Len(s) : i < j => s[i].call < s[j].call

\* The queue against the outputs.
QueueRepeats ==
    /\ InOrder(sections)
    /\ \A c \in Calls(sections) : c <= current.call
    /\ \A m \in Child : out[m] <= current.call /\ Follows(out[m], sections)

\* A frame against the outputs, the queue and the frames behind it.
FrameRepeats(k) ==
    /\ InOrder(wire[k].todo)
    /\ \A m \in Child : Follows(out[m], wire[k].todo)
    /\ \A c \in Calls(wire[k].todo) :
           /\ c <= current.call /\ Follows(c, sections)
           /\ \A l \in k + 1 .. Len(wire) : Follows(c, wire[l].todo)

RepeatInv == QueueRepeats /\ \A k \in 1 .. Len(wire) : FrameRepeats(k)

LEMMA CallsAreNumbers ==
    ASSUME NEW s \in Seq(Request)
    PROVE  /\ \A i \in 1 .. Len(s) : s[i].call \in Nat
           /\ \A c \in Calls(s) : c \in Nat
  <1>1. ASSUME NEW i \in 1 .. Len(s)
        PROVE  s[i].call \in Nat
    <2>1. s[i] \in Request
      OBVIOUS
    <2> QED
      BY <2>1, RequestFacts, BusAssumption
  <1> QED
    BY <1>1 DEF Calls

LEMMA LinkIsTyped ==
    ASSUME TypeOK
    PROVE  /\ current.call \in Nat /\ \A m \in Child : out[m] \in Nat
           /\ \A k \in 1 .. Len(wire) :
                  /\ wire[k].todo \in Seq(Request)
                  /\ \A c \in Calls(wire[k].todo) : c \in Nat
  <1>1. current.call \in 0 .. MaxCalls /\ out \in [Child -> 0 .. MaxCalls]
    BY DEF TypeOK
  <1>2. current.call \in Nat /\ \A m \in Child : out[m] \in Nat
    BY <1>1, BusAssumption
  <1>3. ASSUME NEW k \in 1 .. Len(wire)
        PROVE  wire[k].todo \in Seq(Request)
    <2>1. wire \in Seq(Frame)
      BY DEF TypeOK
    <2>2. wire[k] \in Frame
      BY <2>1
    <2> QED
      BY <2>2 DEF Frame
  <1> QED
    BY <1>2, <1>3, CallsAreNumbers

\* What the hub has still to do of a frame after its first request.
LEMMA RestInOrder ==
    ASSUME NEW s \in Seq(Request), s # <<>>, InOrder(s)
    PROVE  /\ InOrder(Tail(s)) /\ Calls(Tail(s)) \subseteq Calls(s)
           /\ s[1].call \in Calls(s)
           /\ \A q \in Calls(Tail(s)) : s[1].call < q
           /\ \A c \in Calls(s) : c = s[1].call \/ c \in Calls(Tail(s))
  <1> DEFINE n == Len(s)
  <1>1. /\ n \in Nat \ {0} /\ Len(Tail(s)) = n - 1
        /\ \A i \in 1 .. n - 1 : Tail(s)[i] = s[i + 1]
    BY EmptySeq, HeadTailProperties
  <1> HIDE DEF n
  <1>2. ASSUME NEW i \in 1 .. n - 1
        PROVE  /\ Tail(s)[i].call \in Calls(s) /\ s[1].call < Tail(s)[i].call
    <2>1. i + 1 \in 1 .. n /\ 1 \in 1 .. n /\ 1 < i + 1
      BY <1>1
    <2> QED
      BY <1>1, <2>1 DEF Calls, InOrder, n
  <1>3. InOrder(Tail(s))
    <2> SUFFICES ASSUME NEW i \in 1 .. n - 1, NEW j \in 1 .. n - 1, i < j
                 PROVE  Tail(s)[i].call < Tail(s)[j].call
      BY <1>1 DEF InOrder
    <2>1. i + 1 \in 1 .. n /\ j + 1 \in 1 .. n /\ i + 1 < j + 1
      BY <1>1
    <2> QED
      BY <1>1, <2>1 DEF InOrder, n
  <1>4. ASSUME NEW i \in 1 .. n, i # 1
        PROVE  s[i].call \in Calls(Tail(s))
    <2>1. i - 1 \in 1 .. n - 1 /\ (i - 1) + 1 = i
      BY <1>1, <1>4
    <2>2. Tail(s)[i - 1] = s[i]
      BY <1>1, <2>1
    <2> QED
      BY <1>1, <2>1, <2>2 DEF Calls
  <1>5. s[1].call \in Calls(s)
    BY <1>1 DEF Calls, n
  <1> QED
    BY <1>1, <1>2, <1>3, <1>4, <1>5 DEF Calls, n

LEMMA RestFollows ==
    ASSUME NEW s \in Seq(Request), s # <<>>, InOrder(s), NEW c \in Nat,
           Follows(c, s)
    PROVE  Follows(c, Tail(s))
  <1> SUFFICES ASSUME NEW q \in Calls(Tail(s)), q < c
               PROVE  c \in Calls(Tail(s))
    BY DEF Follows
  <1>1. /\ q \in Calls(s) /\ s[1].call < q
        /\ \A x \in Calls(s) : x = s[1].call \/ x \in Calls(Tail(s))
    BY RestInOrder
  <1>2. c \in Calls(s)
    BY <1>1 DEF Follows
  <1>3. s[1].call \in Nat /\ q \in Nat
    BY <1>1, RestInOrder, CallsAreNumbers
  <1> QED
    BY <1>1, <1>2, <1>3

LEMMA AppendedInOrder ==
    ASSUME NEW s \in Seq(Request), InOrder(s), NEW r \in Request,
           \A c \in Calls(s) : c < r.call
    PROVE  InOrder(Append(s, r)) /\ Calls(Append(s, r)) = Calls(s) \cup {r.call}
  <1> DEFINE n == Len(s)
  <1> DEFINE t == Append(s, r)
  <1>1. /\ n \in Nat /\ Len(t) = n + 1 /\ t[n + 1] = r
        /\ \A i \in 1 .. n : t[i] = s[i]
    BY AppendProperties
  <1> HIDE DEF n, t
  <1>2. ASSUME NEW i \in 1 .. n + 1, i # n + 1
        PROVE  i \in 1 .. n
    BY <1>1, <1>2
  <1>3. InOrder(t)
    <2> SUFFICES ASSUME NEW i \in 1 .. n + 1, NEW j \in 1 .. n + 1, i < j
                 PROVE  t[i].call < t[j].call
      BY <1>1 DEF InOrder
    <2>1. i \in 1 .. n
      BY <1>1
    <2>2. CASE j = n + 1
      BY <1>1, <2>1, <2>2 DEF Calls, n
    <2>3. CASE j # n + 1
      BY <1>1, <1>2, <2>1, <2>3 DEF InOrder, n
    <2> QED
      BY <2>2, <2>3
  <1>4. Calls(t) = Calls(s) \cup {r.call}
    <2>1. n + 1 \in 1 .. n + 1 /\ \A i \in 1 .. n : i \in 1 .. n + 1
      BY <1>1
    <2> QED
      BY <1>1, <1>2, <2>1 DEF Calls, n
  <1> QED
    BY <1>3, <1>4 DEF t

LEMMA InitRepeatInv == Init => RepeatInv
  <1> SUFFICES ASSUME Init PROVE RepeatInv
    OBVIOUS
  <1>1. /\ sections = <<>> /\ wire = <<>> /\ Len(sections) = 0
        /\ Len(wire) = 0 /\ current.call = 0 /\ \A m \in Child : out[m] = 0
    BY DEF Init, Queue!Init
  <1>2. InOrder(sections) /\ Calls(sections) = {}
    BY <1>1 DEF InOrder, Calls
  <1> QED
    BY <1>1, <1>2 DEF RepeatInv, QueueRepeats, Follows

LEMMA QuietRepeatInv ==
    ASSUME RepeatInv, UNCHANGED <<sections, wire, out, current>>
    PROVE  RepeatInv'
  BY DEF RepeatInv, QueueRepeats, FrameRepeats

\* A new request is younger than all that there is.
LEMMA CallRepeatInv ==
    ASSUME BusInv, RepeatInv, NEW m \in Child, NEW kind \in Kind,
           NEW now \in BOOLEAN, Call(m, kind, now)
    PROVE  RepeatInv'
  <1> DEFINE r == Req(m, kind, current.call + 1)
  <1>1. /\ r \in Request /\ r.call = current.call + 1
        /\ current'.call = current.call + 1 /\ UNCHANGED <<wire, out>>
        /\ current.call \in Nat
    <2>1. UNCHANGED <<wire, out>>
      BY DEF Call, linkVars
    <2>2. current.call \in Nat
      BY LinkIsTyped DEF BusInv
    <2> QED
      BY <2>1, <2>2, CallEffect
  <1>2. sections' = sections \/ sections' = Append(sections, r)
    BY CallQueued
  <1>3. /\ sections \in Seq(Request) /\ \A c \in Calls(sections) : c \in Nat
        /\ \A x \in Child : out[x] \in Nat
        /\ \A k \in 1 .. Len(wire) : \A c \in Calls(wire[k].todo) : c \in Nat
    <2>1. sections \in Seq(Request)
      BY QueueFacts DEF BusInv
    <2> QED
      BY <2>1, CallsAreNumbers, LinkIsTyped DEF BusInv
  <1> HIDE DEF r
  <1>4. /\ InOrder(sections') /\ Calls(sections) \subseteq Calls(sections')
        /\ \A c \in Calls(sections') : c \in Calls(sections) \/ c = r.call
    <2>1. \A c \in Calls(sections) : c < r.call
      BY <1>1, <1>3 DEF RepeatInv, QueueRepeats
    <2> QED
      BY <1>1, <1>2, <1>3, <2>1, AppendedInOrder DEF RepeatInv, QueueRepeats
  <1>5. ASSUME NEW c \in Nat, c <= current.call, Follows(c, sections)
        PROVE  Follows(c, sections')
    BY <1>1, <1>4, <1>5 DEF Follows
  <1>6. QueueRepeats'
    <2>1. \A c \in Calls(sections') : c <= current'.call
      BY <1>1, <1>3, <1>4 DEF RepeatInv, QueueRepeats
    <2>2. ASSUME NEW x \in Child
          PROVE  out[x] <= current'.call /\ Follows(out[x], sections')
      BY <1>1, <1>3, <1>5 DEF RepeatInv, QueueRepeats
    <2> QED
      BY <1>1, <1>4, <2>1, <2>2 DEF QueueRepeats
  <1>7. ASSUME NEW k \in 1 .. Len(wire)
        PROVE  FrameRepeats(k)'
    <2>1. FrameRepeats(k)
      BY DEF RepeatInv
    <2>2. ASSUME NEW c \in Calls(wire[k].todo)
          PROVE  c <= current'.call /\ Follows(c, sections')
      <3>1. c \in Nat
        BY <1>3
      <3>2. c <= current.call /\ Follows(c, sections)
        BY <2>1 DEF FrameRepeats
      <3> QED
        BY <1>1, <1>5, <3>1, <3>2
    <2> QED
      BY <1>1, <2>1, <2>2 DEF FrameRepeats
  <1> QED
    BY <1>1, <1>6, <1>7 DEF RepeatInv

\* The queue becomes the youngest frame.
LEMMA WriteFileRepeatInv ==
    ASSUME BusInv, RepeatInv, WriteFile
    PROVE  RepeatInv'
  <1> DEFINE n == Len(wire)
  <1> DEFINE f == [frame |-> current.call, todo |-> sections]
  <1>1. wire' = Append(wire, f) /\ UNCHANGED <<sections, out, current>>
    BY DEF WriteFile, queueVars
  <1>2. /\ n \in Nat /\ Len(wire') = n + 1 /\ wire'[n + 1].todo = sections
        /\ \A k \in 1 .. n : wire'[k] = wire[k]
    BY <1>1, AppendProperties DEF BusInv, TypeOK
  <1> HIDE DEF n, f
  <1>3. ASSUME NEW k \in 1 .. n + 1, k # n + 1
        PROVE  k \in 1 .. n
    BY <1>2, <1>3
  <1>4. ASSUME NEW k \in 1 .. n + 1
        PROVE  FrameRepeats(k)'
    <2>1. CASE k = n + 1
      <3>1. \A l \in k + 1 .. Len(wire') : FALSE
        BY <1>2, <2>1
      <3>2. \A c \in Calls(sections) : Follows(c, sections)
        BY DEF Follows
      <3> QED
        BY <1>1, <1>2, <2>1, <3>1, <3>2
           DEF RepeatInv, QueueRepeats, FrameRepeats
    <2>2. CASE k # n + 1
      <3>1. k \in 1 .. n /\ FrameRepeats(k) /\ wire'[k] = wire[k]
        BY <1>2, <1>3, <2>2 DEF RepeatInv, n
      <3>2. ASSUME NEW c \in Calls(wire[k].todo), NEW l \in k + 1 .. n + 1
            PROVE  Follows(c, wire'[l].todo)
        <4>1. CASE l = n + 1
          BY <1>2, <3>1, <4>1 DEF FrameRepeats
        <4>2. CASE l # n + 1
          <5>1. l \in k + 1 .. n /\ l \in 1 .. n
            BY <1>2, <3>1, <4>2
          <5> QED
            BY <1>2, <3>1, <5>1 DEF FrameRepeats, n
        <4> QED
          BY <4>1, <4>2
      <3> QED
        BY <1>1, <1>2, <3>1, <3>2 DEF FrameRepeats
    <2> QED
      BY <2>1, <2>2
  <1>5. QueueRepeats'
    BY <1>1 DEF RepeatInv, QueueRepeats
  <1> QED
    BY <1>2, <1>4, <1>5 DEF RepeatInv

\* The oldest frame is done with.
LEMMA FrameGoneRepeatInv ==
    ASSUME BusInv, RepeatInv, wire # <<>>, wire' = Tail(wire),
           UNCHANGED <<sections, out, current>>
    PROVE  RepeatInv'
  <1> DEFINE n == Len(wire)
  <1>1. /\ n \in Nat \ {0} /\ Len(wire') = n - 1
        /\ \A k \in 1 .. n - 1 : wire'[k] = wire[k + 1]
    BY EmptySeq, HeadTailProperties DEF BusInv, TypeOK
  <1> HIDE DEF n
  <1>2. ASSUME NEW k \in 1 .. n - 1
        PROVE  FrameRepeats(k)'
    <2>1. k + 1 \in 1 .. n /\ FrameRepeats(k + 1) /\ wire'[k] = wire[k + 1]
      <3>1. k + 1 \in 1 .. n
        BY <1>1
      <3> QED
        BY <1>1, <3>1 DEF RepeatInv, n
    <2>2. ASSUME NEW c \in Calls(wire[k + 1].todo), NEW l \in k + 1 .. n - 1
          PROVE  Follows(c, wire'[l].todo)
      <3>1. l + 1 \in (k + 1) + 1 .. n /\ l \in 1 .. n - 1
        BY <1>1
      <3> QED
        BY <1>1, <2>1, <3>1 DEF FrameRepeats, n
    <2> QED
      BY <1>1, <2>1, <2>2 DEF FrameRepeats
  <1>3. QueueRepeats'
    BY DEF RepeatInv, QueueRepeats
  <1> QED
    BY <1>1, <1>2, <1>3 DEF RepeatInv

\* What the hub does to the outputs when it serves a request.
LEMMA ServeOut ==
    ASSUME BusInv, NEW result \in Result, Serve(result), NEW m \in Child
    PROVE  out'[m] = out[m] \/ out'[m] = wire[1].todo[1].call
  <1> DEFINE r == Head(Head(wire).todo)
  <1>1. r = wire[1].todo[1] /\ r \in Request
    BY ServeEffect
  <1>2. out' = out \/ out' = [out EXCEPT ![r.child] = r.call]
    BY DEF Serve
  <1>3. out \in [Child -> 0 .. MaxCalls]
    BY DEF BusInv, TypeOK
  <1> HIDE DEF r
  <1> QED
    BY <1>1, <1>2, <1>3

\* A request is served: it is the oldest of its frame, and becomes an output.
LEMMA ServeRepeatInv ==
    ASSUME BusInv, RepeatInv, NEW result \in Result, Serve(result)
    PROVE  RepeatInv'
  <1> DEFINE n == Len(wire)
  <1> DEFINE todo == wire[1].todo
  <1> DEFINE p == todo[1].call
  <1>1. UNCHANGED <<sections, current>>
    BY DEF Serve, queueVars
  <1>2. /\ n \in Nat \ {0} /\ Len(wire') = n
        /\ todo \in Seq(Request) /\ todo # <<>>
        /\ wire'[1].todo = Tail(todo)
        /\ \A k \in 2 .. n : wire'[k] = wire[k]
    <2>1. /\ wire # <<>> /\ wire[1] \in Frame /\ todo # <<>>
          /\ Len(wire') = n
          /\ wire'[1] = [wire[1] EXCEPT !.todo = Tail(todo)]
          /\ \A k \in 2 .. n : wire'[k] = wire[k]
      <3> DEFINE f == Head(wire)
      <3>1. /\ wire # <<>> /\ f \in Frame /\ f = wire[1] /\ f.todo # <<>>
            /\ Len(wire') = Len(wire)
            /\ wire'[1] = [f EXCEPT !.todo = Tail(f.todo)]
            /\ \A k \in 2 .. Len(wire) : wire'[k] = wire[k]
        BY ServeEffect
      <3> HIDE DEF f
      <3> QED
        BY <3>1
    <2>2. n \in Nat \ {0}
      BY <2>1, EmptySeq DEF BusInv, TypeOK
    <2> QED
      BY <2>1, <2>2 DEF Frame
  <1>3. FrameRepeats(1) /\ p \in Calls(todo) /\ p \in Nat
    <2>1. FrameRepeats(1)
      BY <1>2 DEF RepeatInv
    <2> QED
      BY <1>2, <2>1, RestInOrder, CallsAreNumbers DEF FrameRepeats
  <1>4. \A m \in Child : (out'[m] = out[m] \/ out'[m] = p) /\ out[m] \in Nat
    BY ServeOut, LinkIsTyped DEF BusInv
  <1> HIDE DEF n, todo, p
  <1>5. /\ InOrder(Tail(todo)) /\ Calls(Tail(todo)) \subseteq Calls(todo)
        /\ \A q \in Calls(Tail(todo)) : p < q /\ q \in Nat
    <2>1. InOrder(todo)
      BY <1>3 DEF FrameRepeats, todo
    <2> QED
      BY <1>2, <2>1, RestInOrder, CallsAreNumbers DEF p
  <1>6. QueueRepeats'
    <2>1. p <= current.call /\ Follows(p, sections)
      BY <1>3 DEF FrameRepeats, todo
    <2> QED
      BY <1>1, <1>4, <2>1 DEF RepeatInv, QueueRepeats
  <1>7. FrameRepeats(1)'
    <2>1. ASSUME NEW m \in Child
          PROVE  Follows(out'[m], Tail(todo))
      <3>1. Follows(out[m], Tail(todo))
        BY <1>2, <1>3, <1>4, RestFollows DEF FrameRepeats, todo
      <3>2. Follows(p, Tail(todo))
        BY <1>3, <1>5 DEF Follows
      <3> QED
        BY <1>4, <3>1, <3>2
    <2>2. ASSUME NEW c \in Calls(Tail(todo))
          PROVE  /\ c <= current.call /\ Follows(c, sections)
                 /\ \A l \in 1 + 1 .. n : Follows(c, wire'[l].todo)
      <3>1. c \in Calls(todo)
        BY <1>5
      <3>2. \A l \in 1 + 1 .. n : l \in 2 .. n
        BY <1>2
      <3> QED
        BY <1>2, <1>3, <3>1, <3>2 DEF FrameRepeats, n, todo
    <2> QED
      BY <1>1, <1>2, <1>5, <2>1, <2>2 DEF FrameRepeats
  <1>8. ASSUME NEW k \in 2 .. n
        PROVE  FrameRepeats(k)'
    <2>1. FrameRepeats(k) /\ wire'[k] = wire[k]
      BY <1>2 DEF RepeatInv, n
    <2>2. Follows(p, wire[k].todo)
      <3>1. k \in 1 + 1 .. Len(wire)
        BY <1>2 DEF n
      <3> QED
        BY <1>3, <3>1 DEF FrameRepeats, todo
    <2>3. \A m \in Child : Follows(out'[m], wire[k].todo)
      BY <1>4, <2>1, <2>2 DEF FrameRepeats
    <2>4. \A l \in k + 1 .. n : wire'[l] = wire[l]
      BY <1>2
    <2> QED
      BY <1>1, <1>2, <2>1, <2>3, <2>4 DEF FrameRepeats, n
  <1> QED
    <2>1. \A k \in 1 .. n : k = 1 \/ k \in 2 .. n
      BY <1>2
    <2> QED
      BY <1>2, <1>6, <1>7, <1>8, <2>1 DEF RepeatInv

LEMMA NextRepeatInv == BusInv /\ RepeatInv /\ [Next]_vars => RepeatInv'
  <1> SUFFICES ASSUME BusInv, RepeatInv, [Next]_vars
               PROVE  RepeatInv'
    OBVIOUS
  <1>1. CASE CallNext
    BY <1>1, CallRepeatInv DEF CallNext
  <1>2. CASE WriteFile
    BY <1>2, WriteFileRepeatInv
  <1>3. CASE WriteOrReadError \/ ReadFull \/ ReadTimeout \/ DeliverSection
    <2>1. UNCHANGED <<sections, wire, out, current>>
      BY <1>3 DEF WriteOrReadError, ReadFull, ReadTimeout, DeliverSection,
                  Accept, Fail, Queue!TransceiveError, queueVars, linkVars
    <2> QED
      BY <2>1, QuietRepeatInv
  <1>4. CASE Return
    <2>1. sections' = <<>> /\ UNCHANGED <<wire, out, current>>
      BY <1>4 DEF Return, Queue!EndProcess, linkVars
    <2>2. InOrder(sections') /\ Calls(sections') = {}
      BY <2>1 DEF InOrder, Calls
    <2> QED
      BY <2>1, <2>2 DEF RepeatInv, QueueRepeats, FrameRepeats, Follows
  <1>5. ASSUME NEW result \in Result, Serve(result)
        PROVE  RepeatInv'
    BY <1>5, ServeRepeatInv
  <1>6. ASSUME NEW result \in {"ok", "err"}, CloseReply(result)
        PROVE  RepeatInv'
    BY <1>6, FrameGoneRepeatInv DEF CloseReply, queueVars
  <1>7. CASE DropFrame
    BY <1>7, FrameGoneRepeatInv DEF DropFrame, queueVars
  <1>8. CASE HubNext
    BY <1>5, <1>6, <1>7, <1>8 DEF HubNext, Result
  <1>9. CASE UNCHANGED vars
    BY <1>9, QuietRepeatInv DEF vars, queueVars, linkVars
  <1> QED
    BY <1>1, <1>2, <1>3, <1>4, <1>8, <1>9 DEF Next, ProgramStep

\* Whatever calls fail and frames are given up, a module goes back to an
\* older output only on the way through a frame in which the newer one
\* follows: SC02::Transfer keeps what a failed transfer has sent.
THEOREM OldOutputOnlyInRepeat == Spec => StepsBackInRepeat
  <1> DEFINE Repeat(m) ==
        \E i \in DOMAIN Head(wire).todo : Head(wire).todo[i].call = out[m]
  <1>1. BusInv /\ RepeatInv /\ [Next]_vars =>
            [\A m \in Child : out'[m] < out[m] => Repeat(m)]_vars
    <2> SUFFICES ASSUME BusInv, RepeatInv, Next, NEW m \in Child,
                        out'[m] < out[m]
                 PROVE  Repeat(m)
      OBVIOUS
    <2>1. PICK result \in Result : Serve(result)
      <3>1. out' # out
        BY DEF BusInv, TypeOK
      <3>2. CallNext => out' = out
        BY DEF CallNext, Call, linkVars
      <3>3. ProgramStep => out' = out
        BY DEF ProgramStep, WriteFile, WriteOrReadError, ReadFull,
               ReadTimeout, DeliverSection, Return, linkVars
      <3>4. (\E x \in {"ok", "err"} : CloseReply(x)) \/ DropFrame => out' = out
        BY DEF CloseReply, DropFrame
      <3> QED
        BY <3>1, <3>2, <3>3, <3>4 DEF Next, HubNext, Result
    <2>2. /\ wire # <<>> /\ Head(wire) = wire[1] /\ wire[1] \in Frame
          /\ wire[1].todo # <<>>
      BY <2>1, ServeEffect
    <2>3. /\ wire[1].todo \in Seq(Request) /\ 1 \in 1 .. Len(wire)
      <3>1. wire \in Seq(Frame)
        BY DEF BusInv, TypeOK
      <3> QED
        BY <2>2, <3>1, EmptySeq DEF Frame
    <2>4. /\ FrameRepeats(1) /\ out'[m] = wire[1].todo[1].call
      <3>1. out[m] \in Nat
        BY LinkIsTyped DEF BusInv
      <3> QED
        BY <2>1, <2>3, <3>1, ServeOut DEF RepeatInv
    <2>5. out'[m] \in Calls(wire[1].todo)
      BY <2>2, <2>3, <2>4, RestInOrder DEF FrameRepeats
    <2>6. out[m] \in Calls(wire[1].todo)
      BY <2>4, <2>5 DEF FrameRepeats, Follows
    <2> QED
      BY <2>2, <2>3, <2>6 DEF Calls
  <1>2. Spec => []RepeatInv
    BY InitRepeatInv, NextRepeatInv, BusInvariant, PTL DEF Spec
  <1> QED
    BY <1>1, <1>2, BusInvariant, PTL DEF Spec, StepsBackInRepeat

=============================================================================
