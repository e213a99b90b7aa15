------------------------ MODULE TransferQueueProofs ------------------------
(***************************************************************************)
(* Proofs about TransferQueue for every set of requests and all sizes that *)
(* satisfy RequestAssumption and SizeAssumption.                           *)
(*                                                                         *)
(* ReplyRouting is not inductive: nothing in it keeps the BYTE counter     *)
(* bComDeviceCount from wrapping.  CountBelowBytes adds the reason: every  *)
(* queued request takes at least one byte of the frame besides the count   *)
(* byte, so there are fewer requests than bytes, and the bytes are bounded *)
(* by BufferBounds.                                                        *)
(*                                                                         *)
(* Accounting speaks of sums over the queue, which are recursive           *)
(* functions: that one more request adds its size to them is proved by     *)
(* induction on sets of numbers.                                           *)
(***************************************************************************)
EXTENDS TransferQueue, WellFoundedInduction, SequenceTheorems, TLAPS

\* Fewer requests than bytes of the frame, the count byte included.
CountBelowBytes ==
    Len(sections) < IF iTxBufCount = 0 THEN 1 ELSE iTxBufCount

IInv == TypeOK /\ BufferBounds /\ ReplyRouting /\ CountBelowBytes

\* A BYTE that stays below its limit does not wrap.
LEMMA ModSmall == \A x, n \in Nat : x < n => x % n = x
  BY SMT

\* A slot of pChildModule that holds the object of a queued request is a
\* slot of the array, and not the one the next Transfer writes.
LEMMA QueuedSlots ==
    ASSUME IInv, NEW i \in 1 .. Len(sections)
    PROVE  i - 1 \in 0 .. BYTE_SIZE - 1 /\ i - 1 # bComDeviceCount
  <1>1. /\ bComDeviceCount = Len(sections) /\ Len(sections) \in Nat
        /\ bComDeviceCount \in 0 .. BYTE_SIZE - 1
    BY DEF IInv, TypeOK, ReplyRouting
  <1> QED
    BY <1>1, SizeAssumption

\* What appending a request does to the counters when it fits: the sizes
\* grow within the buffers, and the BYTE counter does not wrap.
LEMMA EnqueueCounts ==
    ASSUME IInv, NEW r \in Request, Enqueue(r)
    PROVE  /\ iTxBufCount' \in Nat /\ iTxBufCount' <= SC_BUF_SIZE
           /\ iRxBufCount' \in Nat /\ iRxBufCount' <= SC_BUF_SIZE
           /\ Len(sections') = Len(sections) + 1
           /\ Len(sections') < iTxBufCount'
           /\ bComDeviceCount' = bComDeviceCount + 1
           /\ bComDeviceCount' \in 0 .. BYTE_SIZE - 1
  <1>1. r.tx \in Nat \ {0} /\ r.rx \in Nat \ {0}
    BY RequestAssumption
  <1>2. /\ iTxBufCount' = SizeWithTx(r) /\ SizeWithTx(r) <= SC_BUF_SIZE
        /\ iRxBufCount' = SizeWithRx(r) /\ SizeWithRx(r) <= SC_BUF_SIZE
        /\ bComDeviceCount' = (bComDeviceCount + 1) % BYTE_SIZE
    BY DEF Enqueue, Fits
  <1>3. /\ iTxBufCount \in Nat /\ iRxBufCount \in Nat
        /\ bComDeviceCount = Len(sections) /\ Len(sections) \in Nat
    BY DEF IInv, TypeOK, ReplyRouting
  <1>4. /\ iTxBufCount' \in Nat /\ iTxBufCount' <= SC_BUF_SIZE
        /\ iRxBufCount' \in Nat /\ iRxBufCount' <= SC_BUF_SIZE
    <2>1. SizeWithTx(r) \in Nat /\ SizeWithRx(r) \in Nat
      BY <1>1, <1>3, SizeAssumption DEF SizeWithTx, SizeWithRx
    <2> QED
      BY <1>2, <2>1
  <1>5. Len(sections') = Len(sections) + 1
    BY DEF IInv, TypeOK, Enqueue
  <1>6. Len(sections) + 1 < SizeWithTx(r)
    <2>1. Len(sections) < IF iTxBufCount = 0 THEN 1 ELSE iTxBufCount
      BY DEF IInv, CountBelowBytes
    <2> QED
      BY <1>1, <1>3, <2>1, SizeAssumption DEF SizeWithTx
  <1>7. Len(sections') < iTxBufCount'
    BY <1>2, <1>5, <1>6
  <1>8. bComDeviceCount + 1 < BYTE_SIZE
    BY <1>2, <1>3, <1>4, <1>6, SizeAssumption
  <1>9. bComDeviceCount' = bComDeviceCount + 1
    BY <1>2, <1>3, <1>8, ModSmall, SizeAssumption
  <1> QED
    BY <1>3, <1>4, <1>5, <1>7, <1>8, <1>9, SizeAssumption

\* Appending a request keeps slots and sections in correspondence.
LEMMA EnqueueRoutes ==
    ASSUME IInv, NEW r \in Request, Enqueue(r)
    PROVE  /\ sections' \in Seq(Request)
           /\ pChildModule' \in [0 .. BYTE_SIZE - 1 -> Child \cup {NoChild}]
           /\ bComDeviceCount' = Len(sections')
           /\ \A i \in 1 .. Len(sections') :
                  pChildModule'[i - 1] = sections'[i].child
  <1>1. sections' = Append(sections, r) /\ sections' \in Seq(Request)
    BY DEF IInv, TypeOK, Enqueue
  <1>2. pChildModule' = [pChildModule EXCEPT ![bComDeviceCount] = r.child]
    BY DEF Enqueue
  <1>3. pChildModule' \in [0 .. BYTE_SIZE - 1 -> Child \cup {NoChild}]
    BY <1>2, RequestAssumption DEF IInv, TypeOK
  <1>4. bComDeviceCount' = Len(sections')
    BY EnqueueCounts DEF IInv, ReplyRouting
  <1>5. ASSUME NEW i \in 1 .. Len(sections')
        PROVE  pChildModule'[i - 1] = sections'[i].child
    <2>1. CASE i = Len(sections) + 1
      BY <1>1, <1>2, <2>1 DEF IInv, TypeOK, ReplyRouting
    <2>2. CASE i # Len(sections) + 1
      <3>1. Len(sections) \in Nat /\ bComDeviceCount = Len(sections)
        BY DEF IInv, TypeOK, ReplyRouting
      <3>2. i \in 1 .. Len(sections)
        BY <2>2, <3>1, EnqueueCounts
      <3>3. sections'[i] = sections[i]
        BY <1>1, <3>2 DEF IInv, TypeOK
      <3>4. i - 1 \in 0 .. BYTE_SIZE - 1 /\ i - 1 # bComDeviceCount
        BY <3>2, QueuedSlots
      <3>5. pChildModule'[i - 1] = pChildModule[i - 1]
        BY <1>2, <3>4 DEF IInv, TypeOK
      <3> QED
        BY <3>2, <3>3, <3>5 DEF IInv, ReplyRouting
    <2> QED
      BY <2>1, <2>2
  <1> QED
    BY <1>1, <1>3, <1>4, <1>5

LEMMA InitIInv == Init => IInv
  BY SizeAssumption
  DEF Init, IInv, TypeOK, BufferBounds, ReplyRouting, CountBelowBytes

LEMMA NextIInv == IInv /\ [Next]_queueVars => IInv'
  <1> SUFFICES ASSUME IInv, [Next]_queueVars
               PROVE  IInv'
    OBVIOUS
  <1>1. ASSUME NEW r \in Request, Refuse(r)
        PROVE  IInv'
    <2>1. /\ sections' = sections
          /\ bComDeviceCount' = bComDeviceCount
          /\ pChildModule' =
                 [pChildModule EXCEPT ![bComDeviceCount] = r.child]
          /\ transceiving = FALSE /\ transceiving' = FALSE
      BY <1>1 DEF Refuse, IInv, TypeOK
    <2>2. TypeOK'
      <3>1. iTxBufCount' \in Nat /\ iRxBufCount' \in Nat
        BY <1>1 DEF IInv, TypeOK, Refuse
      <3>2. pChildModule' \in [0 .. BYTE_SIZE - 1 -> Child \cup {NoChild}]
        BY <2>1, RequestAssumption DEF IInv, TypeOK
      <3>3. returned' \in BOOLEAN /\ countByte' = countByte
        BY <1>1 DEF Refuse
      <3> QED
        BY <2>1, <3>1, <3>2, <3>3 DEF IInv, TypeOK
    <2>3. BufferBounds'
      BY <1>1, SizeAssumption DEF IInv, TypeOK, BufferBounds, Refuse
    <2>4. CountBelowBytes'
      BY <1>1 DEF IInv, TypeOK, CountBelowBytes, Refuse
    <2>5. ASSUME NEW i \in 1 .. Len(sections)
          PROVE  pChildModule'[i - 1] = sections[i].child
      <3>1. pChildModule'[i - 1] = pChildModule[i - 1]
        BY <2>1, QueuedSlots DEF IInv, TypeOK
      <3> QED
        BY <3>1 DEF IInv, ReplyRouting
    <2>6. ReplyRouting'
      BY <2>1, <2>5 DEF IInv, ReplyRouting
    <2> QED
      BY <2>2, <2>3, <2>4, <2>6 DEF IInv
  <1>2. ASSUME NEW r \in Request, Defer(r)
        PROVE  IInv'
    <2>1. Enqueue(r) /\ returned' = TRUE
          /\ countByte' = countByte /\ transceiving' = FALSE
      BY <1>2 DEF Defer, Enqueue, IInv, TypeOK
    <2>2. TypeOK'
      BY <2>1, EnqueueCounts, EnqueueRoutes DEF IInv, TypeOK
    <2>3. BufferBounds'
      BY <2>1, EnqueueCounts DEF BufferBounds
    <2>4. ReplyRouting'
      BY <2>1, EnqueueRoutes DEF ReplyRouting
    <2>5. CountBelowBytes'
      BY <2>1, EnqueueCounts, EnqueueRoutes DEF CountBelowBytes
    <2> QED
      BY <2>2, <2>3, <2>4, <2>5 DEF IInv
  <1>3. ASSUME NEW r \in Request, StartTransceive(r)
        PROVE  IInv'
    <2>1. Enqueue(r) /\ returned' = returned
          /\ countByte' = bComDeviceCount' /\ transceiving' = TRUE
      BY <1>3 DEF StartTransceive
    <2>2. TypeOK'
      BY <2>1, EnqueueCounts, EnqueueRoutes DEF IInv, TypeOK
    <2>3. BufferBounds'
      BY <2>1, EnqueueCounts DEF BufferBounds
    <2>4. ReplyRouting'
      BY <2>1, EnqueueRoutes DEF ReplyRouting
    <2>5. CountBelowBytes'
      BY <2>1, EnqueueCounts, EnqueueRoutes DEF CountBelowBytes
    <2> QED
      BY <2>2, <2>3, <2>4, <2>5 DEF IInv
  <1>4. CASE EndProcess
    <2>1. Len(sections') = 0 /\ sections' \in Seq(Request)
      BY <1>4 DEF EndProcess
    <2>2. TypeOK'
      BY <1>4, <2>1, SizeAssumption DEF EndProcess, IInv, TypeOK
    <2>3. BufferBounds' /\ CountBelowBytes'
      BY <1>4, <2>1, SizeAssumption
      DEF EndProcess, BufferBounds, CountBelowBytes
    <2>4. ReplyRouting'
      BY <1>4, <2>1 DEF EndProcess, ReplyRouting
    <2> QED
      BY <2>2, <2>3, <2>4 DEF IInv
  <1>5. CASE TransceiveError
    BY <1>5
    DEF TransceiveError, IInv, TypeOK, BufferBounds, ReplyRouting,
        CountBelowBytes
  <1>6. CASE UNCHANGED queueVars
    BY <1>6
    DEF queueVars, IInv, TypeOK, BufferBounds, ReplyRouting, CountBelowBytes
  <1> QED
    BY <1>1, <1>2, <1>3, <1>4, <1>5, <1>6 DEF Next

LEMMA InductiveInvariant == Spec => []IInv
  BY InitIInv, NextIInv, PTL DEF Spec

\* SC02::Transfer keeps every field of the hub object well typed.
THEOREM TypeCorrect == Spec => []TypeOK
  <1>1. IInv => TypeOK
    BY DEF IInv
  <1> QED
    BY <1>1, InductiveInvariant, PTL

\* SC02::Transfer never writes beyond TransferTxBuffer, and never asks for
\* more reply than TransferRxBuffer holds, whatever sequence of accepted,
\* refused and failed transfers came before.
THEOREM BuffersBounded == Spec => []BufferBounds
  <1>1. IInv => BufferBounds
    BY DEF IInv
  <1> QED
    BY <1>1, InductiveInvariant, PTL

\* The count sent to the hub, the sections of the frame and the objects that
\* wait for their reply always agree; in particular bComDeviceCount never
\* wraps, so its unreachable guard in the code is not missed.
THEOREM RepliesRouted == Spec => []ReplyRouting
  <1>1. IInv => ReplyRouting
    BY DEF IInv
  <1> QED
    BY <1>1, InductiveInvariant, PTL

\* A request once accepted is dropped by no error path of SC02::Transfer.
THEOREM NothingLost == Spec => AcceptedNeverLost
  <1> DEFINE Kept ==
        sections' # sections =>
          \/ \E r \in Request : sections' = Append(sections, r)
          \/ sections' = <<>> /\ transceiving /\ returned'
  <1>1. [Next]_queueVars => [Kept]_queueVars
    <2> SUFFICES ASSUME Next PROVE Kept
      OBVIOUS
    <2>1. ASSUME NEW r \in Request, Refuse(r) PROVE Kept
      BY <2>1 DEF Refuse
    <2>2. ASSUME NEW r \in Request, Defer(r) PROVE Kept
      BY <2>2 DEF Defer, Enqueue
    <2>3. ASSUME NEW r \in Request, StartTransceive(r) PROVE Kept
      BY <2>3 DEF StartTransceive, Enqueue
    <2>4. CASE EndProcess
      BY <2>4 DEF EndProcess
    <2>5. CASE TransceiveError
      BY <2>5 DEF TransceiveError
    <2> QED
      BY <2>1, <2>2, <2>3, <2>4, <2>5 DEF Next
  <1> QED
    BY <1>1, PTL DEF Spec, AcceptedNeverLost

\* Once SC02::Transfer refuses every request it refuses them for ever.
THEOREM WedgedForEver == Spec => WedgeIsPermanent
  <1>1. IInv /\ [Next]_queueVars => [Wedged => Wedged']_queueVars
    <2> SUFFICES ASSUME IInv, Next, Wedged PROVE Wedged'
      OBVIOUS
    <2>1. PICK r \in Request : Refuse(r)
      BY DEF Next, Wedged, Defer, StartTransceive, Enqueue, EndProcess,
             TransceiveError
    <2>2. ASSUME NEW q \in Request PROVE ~Fits(q)'
      <3>1. ~Fits(q)
        BY DEF Wedged
      <3>2. q.tx \in Nat /\ q.rx \in Nat
        BY RequestAssumption
      <3> QED
        BY <2>1, <3>1, <3>2, SizeAssumption
        DEF Refuse, Fits, SizeWithTx, SizeWithRx, IInv, TypeOK
    <2> QED
      BY <2>1, <2>2 DEF Wedged, Refuse
  <1> QED
    BY <1>1, InductiveInvariant, PTL DEF Spec, WedgeIsPermanent
-----------------------------------------------------------------------------

LEMMA LessInOrder ==
    ASSUME NEW i \in Nat, NEW j \in Nat
    PROVE  <<i, j>> \in OpToRel(<, Nat) <=> i < j
  BY DEF OpToRel

\* Induction for a set of numbers.
LEMMA NatSetInduction ==
    ASSUME NEW T \in SUBSET Nat, 0 \in T, \A n \in T : n + 1 \in T
    PROVE  T = Nat
  <1> DEFINE R == OpToRel(<, Nat)
  <1> DEFINE U == Nat \ T
  <1>1. SUFFICES ASSUME U # {} PROVE FALSE
    OBVIOUS
  <1>2. IsWellFoundedOn(R, Nat)
    BY NatLessThanWellFounded
  <1> HIDE DEF R
  <1>3. \E x \in U : \A y \in U : <<y, x>> \notin R
    BY <1>1, <1>2, WFMin
  <1> USE DEF R
  <1>4. PICK x \in U : \A y \in U : <<y, x>> \notin R
    BY <1>3
  <1>5. x # 0 /\ x - 1 \in Nat /\ x - 1 < x
    OBVIOUS
  <1>6. x - 1 \notin U
    BY <1>4, <1>5, LessInOrder
  <1> QED
    BY <1>5, <1>6

\* The sums of the first sizes.
LEMMA RunningTotals ==
    ASSUME NEW start \in Nat, NEW w \in Seq(Nat)
    PROVE  \E v \in [0 .. Len(w) -> Nat] :
              /\ v[0] = start
              /\ \A i \in 1 .. Len(w) : v[i] = v[i - 1] + w[i]
  <1> DEFINE Totals(k) == \E v \in [0 .. k -> Nat] :
                            /\ v[0] = start
                            /\ \A i \in 1 .. k : v[i] = v[i - 1] + w[i]
  <1> DEFINE T == { k \in Nat : k <= Len(w) => Totals(k) }
  <1>1. Totals(0)
    <2>1. PICK v : v = [i \in 0 .. 0 |-> start]
      OBVIOUS
    <2>2. v \in [0 .. 0 -> Nat] /\ v[0] = start
      BY <2>1
    <2> QED
      BY <2>2
  <1>2. ASSUME NEW k \in Nat, k + 1 <= Len(w), Totals(k)
        PROVE  Totals(k + 1)
    <2>1. PICK v \in [0 .. k -> Nat] :
              /\ v[0] = start
              /\ \A i \in 1 .. k : v[i] = v[i - 1] + w[i]
      BY <1>2
    <2>2. PICK x : x = [i \in 0 .. k + 1 |->
                          IF i = k + 1 THEN v[k] + w[k + 1] ELSE v[i]]
      OBVIOUS
    <2>3. w[k + 1] \in Nat /\ v[k] \in Nat
      BY <1>2
    <2>4. x \in [0 .. k + 1 -> Nat] /\ x[0] = start
      BY <2>1, <2>2, <2>3
    <2>5. ASSUME NEW i \in 1 .. k + 1
          PROVE  x[i] = x[i - 1] + w[i]
      BY <2>1, <2>2
    <2> QED
      BY <2>4, <2>5
  <1> HIDE DEF Totals
  <1>3. T = Nat
    <2>1. 0 \in T
      BY <1>1
    <2>2. ASSUME NEW k \in T PROVE k + 1 \in T
      BY <1>2
    <2> HIDE DEF T
    <2>3. T \in SUBSET Nat
      BY DEF T
    <2> QED
      BY <2>1, <2>2, <2>3, NatSetInduction
  <1>4. Totals(Len(w))
    BY <1>3
  <1> QED
    BY <1>4 DEF Totals

LEMMA TotalIs ==
    ASSUME NEW start, NEW w
    PROVE  Total(start, w) = (CHOOSE f : f = [i \in 0 .. Len(w) |->
                         IF i = 0 THEN start ELSE f[i - 1] + w[i]])[Len(w)]
  BY DEF Total

\* Running sums end with the total.
LEMMA TotalRuns ==
    ASSUME NEW start \in Nat, NEW w \in Seq(Nat),
           NEW v \in [0 .. Len(w) -> Nat],
           v[0] = start,
           \A i \in 1 .. Len(w) : v[i] = v[i - 1] + w[i]
    PROVE  Total(start, w) = v[Len(w)]
  <1> DEFINE n == Len(w)
  <1> DEFINE Def(f) == f = [i \in 0 .. n |->
                         IF i = 0 THEN start ELSE f[i - 1] + w[i]]
  <1>1. n \in Nat
    OBVIOUS
  <1>2. Def(v)
    <2> HIDE DEF n
    <2>1. \A i \in 1 .. n : v[i] = v[i - 1] + w[i]
      BY DEF n
    <2>2. \A i \in 0 .. n : v[i] = IF i = 0 THEN start ELSE v[i - 1] + w[i]
      BY <1>1, <2>1
    <2>3. v \in [0 .. n -> Nat]
      BY DEF n
    <2> QED
      BY <2>2, <2>3
  <1>3. PICK f : f = CHOOSE g : Def(g)
    OBVIOUS
  <1>4. Def(f)
    BY <1>2, <1>3
  <1>5. Total(start, w) = f[n]
    BY <1>3, TotalIs
  <1> DEFINE T == { k \in Nat : k <= n => f[k] = v[k] }
  <1>6. f[0] = start /\ \A i \in 1 .. n : f[i] = f[i - 1] + w[i]
    BY <1>1, <1>4
  <1>7. \A i \in 1 .. n : v[i] = v[i - 1] + w[i]
    OBVIOUS
  <1> HIDE DEF n, Def
  <1>8. T = Nat
    <2>1. 0 \in T
      BY <1>6
    <2>2. ASSUME NEW k \in T PROVE k + 1 \in T
      <3> SUFFICES ASSUME k + 1 <= n PROVE f[k + 1] = v[k + 1]
        OBVIOUS
      <3>1. k \in Nat /\ k + 1 \in 1 .. n /\ f[k] = v[k] /\ (k + 1) - 1 = k
        BY <1>1
      <3>2. f[k + 1] = f[k] + w[k + 1] /\ v[k + 1] = v[k] + w[k + 1]
        BY <1>6, <1>7, <3>1
      <3> QED
        BY <3>1, <3>2
    <2> HIDE DEF T
    <2>3. T \in SUBSET Nat
      BY DEF T
    <2> QED
      BY <2>1, <2>2, <2>3, NatSetInduction
  <1>9. f[n] = v[n]
    BY <1>1, <1>8
  <1> QED
    BY <1>5, <1>9 DEF n

LEMMA TotalOfNone ==
    ASSUME NEW start \in Nat, NEW w \in Seq(Nat), Len(w) = 0
    PROVE  Total(start, w) = start
  <1>1. PICK v \in [0 .. Len(w) -> Nat] :
            /\ v[0] = start
            /\ \A i \in 1 .. Len(w) : v[i] = v[i - 1] + w[i]
    BY RunningTotals
  <1>2. Total(start, w) = v[Len(w)]
    BY <1>1, TotalRuns
  <1> QED
    BY <1>1, <1>2

\* One more size adds itself to the total.
LEMMA TotalOfMore ==
    ASSUME NEW start \in Nat, NEW w \in Seq(Nat), NEW u \in Seq(Nat),
           Len(u) = Len(w) + 1, \A i \in 1 .. Len(w) : u[i] = w[i]
    PROVE  Total(start, u) = Total(start, w) + u[Len(u)]
  <1>1. PICK v \in [0 .. Len(u) -> Nat] :
            /\ v[0] = start
            /\ \A i \in 1 .. Len(u) : v[i] = v[i - 1] + u[i]
    BY RunningTotals
  <1>2. Total(start, u) = v[Len(u)]
    BY <1>1, TotalRuns
  <1> DEFINE n == Len(w)
  <1>3. /\ n \in Nat /\ Len(u) = n + 1
        /\ v \in [0 .. n + 1 -> Nat]
        /\ \A i \in 1 .. n + 1 : v[i] = v[i - 1] + u[i]
    BY <1>1
  <1>4. v[n + 1] = v[n] + u[n + 1]
    <2>1. n + 1 \in 1 .. n + 1 /\ (n + 1) - 1 = n
      BY <1>3
    <2> HIDE DEF n
    <2> QED
      BY <1>3, <2>1
  <1>5. PICK x : x = [i \in 0 .. n |-> v[i]]
    OBVIOUS
  <1>6. x \in [0 .. n -> Nat] /\ x[0] = start
        /\ \A i \in 1 .. n : x[i] = x[i - 1] + w[i]
    BY <1>1, <1>3, <1>5
  <1>7. Total(start, w) = x[n]
    BY <1>6, TotalRuns
  <1>8. x[n] = v[n]
    BY <1>3, <1>5
  <1> QED
    BY <1>2, <1>3, <1>4, <1>7, <1>8

LEMMA SizesAreNat ==
    ASSUME NEW s \in Seq(Request)
    PROVE  /\ TxSizes(s) \in Seq(Nat) /\ Len(TxSizes(s)) = Len(s)
           /\ RxSizes(s) \in Seq(Nat) /\ Len(RxSizes(s)) = Len(s)
           /\ Len(s) \in Nat
           /\ \A i \in 1 .. Len(s) : /\ TxSizes(s)[i] = TX_HEADER + s[i].tx
                                     /\ RxSizes(s)[i] = RX_HEADER + s[i].rx
  <1>1. PICK n \in Nat : n = Len(s)
    OBVIOUS
  <1>2. \A i \in 1 .. n : s[i] \in Request
    BY <1>1
  <1>3. \A i \in 1 .. n : /\ TX_HEADER + s[i].tx \in Nat
                          /\ RX_HEADER + s[i].rx \in Nat
    BY <1>2, RequestAssumption, SizeAssumption
  <1>4. TxSizes(s) \in [1 .. n -> Nat] /\ RxSizes(s) \in [1 .. n -> Nat]
    BY <1>1, <1>3 DEF TxSizes, RxSizes
  <1>5. /\ TxSizes(s) \in Seq(Nat) /\ Len(TxSizes(s)) = n
        /\ RxSizes(s) \in Seq(Nat) /\ Len(RxSizes(s)) = n
    BY <1>4
  <1> QED
    BY <1>1, <1>5 DEF TxSizes, RxSizes

\* A request that joins adds its sizes to both totals.
LEMMA TotalsWithOne ==
    ASSUME NEW s \in Seq(Request), NEW r \in Request
    PROVE  /\ Total(1, TxSizes(Append(s, r))) =
                  Total(1, TxSizes(s)) + (TX_HEADER + r.tx)
           /\ Total(0, RxSizes(Append(s, r))) =
                  Total(0, RxSizes(s)) + (RX_HEADER + r.rx)
  <1>1. PICK t \in Seq(Request) : t = Append(s, r)
    BY AppendProperties
  <1>2. PICK n \in Nat : n = Len(s)
    OBVIOUS
  <1>3. Len(t) = n + 1 /\ t[n + 1] = r /\ \A i \in 1 .. n : t[i] = s[i]
    BY <1>1, <1>2
  <1>4. /\ TxSizes(s) \in Seq(Nat) /\ Len(TxSizes(s)) = n
        /\ TxSizes(t) \in Seq(Nat) /\ Len(TxSizes(t)) = n + 1
        /\ RxSizes(s) \in Seq(Nat) /\ Len(RxSizes(s)) = n
        /\ RxSizes(t) \in Seq(Nat) /\ Len(RxSizes(t)) = n + 1
    BY <1>2, <1>3, SizesAreNat
  <1>5. \A i \in 1 .. n : /\ TxSizes(t)[i] = TxSizes(s)[i]
                          /\ RxSizes(t)[i] = RxSizes(s)[i]
    <2> TAKE i \in 1 .. n
    <2>1. i \in 1 .. Len(s) /\ i \in 1 .. Len(t) /\ t[i] = s[i]
      BY <1>2, <1>3
    <2> QED
      BY <2>1, SizesAreNat
  <1>6. /\ TxSizes(t)[n + 1] = TX_HEADER + r.tx
        /\ RxSizes(t)[n + 1] = RX_HEADER + r.rx
    <2>1. n + 1 \in 1 .. Len(t)
      BY <1>3
    <2> QED
      BY <1>3, <2>1, SizesAreNat
  <1>7. Total(1, TxSizes(t)) = Total(1, TxSizes(s)) + TxSizes(t)[n + 1]
    <2>1. PICK u \in Seq(Nat), w \in Seq(Nat) :
              u = TxSizes(t) /\ w = TxSizes(s)
      BY <1>4
    <2>2. Len(u) = Len(w) + 1 /\ \A i \in 1 .. Len(w) : u[i] = w[i]
      BY <1>4, <1>5, <2>1
    <2>3. Total(1, u) = Total(1, w) + u[Len(u)]
      BY <2>2, TotalOfMore
    <2> QED
      BY <1>4, <2>1, <2>3
  <1>8. Total(0, RxSizes(t)) = Total(0, RxSizes(s)) + RxSizes(t)[n + 1]
    <2>1. PICK u \in Seq(Nat), w \in Seq(Nat) :
              u = RxSizes(t) /\ w = RxSizes(s)
      BY <1>4
    <2>2. Len(u) = Len(w) + 1 /\ \A i \in 1 .. Len(w) : u[i] = w[i]
      BY <1>4, <1>5, <2>1
    <2>3. Total(0, u) = Total(0, w) + u[Len(u)]
      BY <2>2, TotalOfMore
    <2> QED
      BY <1>4, <2>1, <2>3
  <1> QED
    BY <1>1, <1>6, <1>7, <1>8

LEMMA TotalsOfNone ==
    Total(1, TxSizes(<<>>)) = 1 /\ Total(0, RxSizes(<<>>)) = 0
  <1>1. <<>> \in Seq(Request) /\ Len(<<>>) = 0
    OBVIOUS
  <1> QED
    BY <1>1, SizesAreNat, TotalOfNone

LEMMA EnqueueAccounts ==
    ASSUME IInv, Accounting, NEW r \in Request, Enqueue(r)
    PROVE  Accounting'
  <1>1. /\ sections \in Seq(Request) /\ sections' = Append(sections, r)
        /\ iTxBufCount \in Nat /\ iRxBufCount \in Nat
        /\ iTxBufCount' = SizeWithTx(r) /\ iRxBufCount' = SizeWithRx(r)
        /\ r.tx \in Nat /\ r.rx \in Nat
        /\ TX_HEADER \in Nat /\ RX_HEADER \in Nat
    BY RequestAssumption, SizeAssumption DEF IInv, TypeOK, Enqueue
  <1>2. /\ Total(1, TxSizes(sections')) =
               Total(1, TxSizes(sections)) + (TX_HEADER + r.tx)
        /\ Total(0, RxSizes(sections')) =
               Total(0, RxSizes(sections)) + (RX_HEADER + r.rx)
    BY <1>1, TotalsWithOne
  <1>3. CASE iTxBufCount = 0
    <2>1. Len(sections) < 1
      BY <1>3 DEF IInv, CountBelowBytes
    <2>2. sections = <<>>
      BY <1>1, <2>1
    <2>3. Total(1, TxSizes(sections)) = 1 /\ Total(0, RxSizes(sections)) = 0
      BY <2>2, TotalsOfNone
    <2>4. /\ SizeWithTx(r) = 1 + (TX_HEADER + r.tx)
          /\ SizeWithRx(r) = 0 + (RX_HEADER + r.rx)
      BY <1>1, <1>3, SMTT(15) DEF SizeWithTx, SizeWithRx
    <2> QED
      BY <1>1, <1>2, <2>3, <2>4 DEF Accounting
  <1>4. CASE iTxBufCount # 0
    <2>1. /\ Total(1, TxSizes(sections)) = iTxBufCount
          /\ Total(0, RxSizes(sections)) = iRxBufCount
      BY <1>4 DEF Accounting
    <2>2. /\ SizeWithTx(r) = iTxBufCount + TX_HEADER + r.tx
          /\ SizeWithRx(r) = iRxBufCount + RX_HEADER + r.rx
      BY <1>4 DEF SizeWithTx, SizeWithRx
    <2>3. /\ SizeWithTx(r) = iTxBufCount + (TX_HEADER + r.tx)
          /\ SizeWithRx(r) = iRxBufCount + (RX_HEADER + r.rx)
      BY <1>1, <2>2
    <2> QED
      BY <1>1, <1>2, <2>1, <2>3 DEF Accounting
  <1> QED
    BY <1>3, <1>4

LEMMA RefuseAccounts ==
    ASSUME IInv, Accounting, NEW r \in Request, Refuse(r)
    PROVE  Accounting'
  <1>1. UNCHANGED sections
        /\ iTxBufCount' = (IF iTxBufCount = 0 THEN 1 ELSE iTxBufCount)
        /\ iRxBufCount' = (IF iTxBufCount = 0 THEN 0 ELSE iRxBufCount)
    BY DEF Refuse
  <1>2. CASE iTxBufCount = 0
    <2>1. Len(sections) < 1 /\ sections \in Seq(Request)
      BY <1>2 DEF IInv, CountBelowBytes, TypeOK
    <2>2. sections = <<>>
      BY <2>1
    <2>3. Total(1, TxSizes(sections)) = 1 /\ Total(0, RxSizes(sections)) = 0
      BY <2>2, TotalsOfNone
    <2> QED
      BY <1>1, <1>2, <2>3 DEF Accounting
  <1>3. CASE iTxBufCount # 0
    BY <1>1, <1>3 DEF Accounting
  <1> QED
    BY <1>2, <1>3

LEMMA NextAccounting == IInv /\ Accounting /\ [Next]_queueVars => Accounting'
  <1> SUFFICES ASSUME IInv, Accounting, [Next]_queueVars
               PROVE  Accounting'
    OBVIOUS
  <1>1. ASSUME NEW r \in Request, Refuse(r)
        PROVE  Accounting'
    BY <1>1, RefuseAccounts
  <1>2. ASSUME NEW r \in Request, Defer(r) \/ StartTransceive(r)
        PROVE  Accounting'
    BY <1>2, EnqueueAccounts DEF Defer, StartTransceive
  <1>3. CASE EndProcess
    <2>1. sections' = <<>> /\ iTxBufCount' = 0 /\ iRxBufCount' = 0
      BY <1>3 DEF EndProcess
    <2> QED
      BY <2>1, TotalsOfNone DEF Accounting
  <1>4. CASE TransceiveError \/ UNCHANGED queueVars
    BY <1>4 DEF TransceiveError, queueVars, Accounting
  <1> QED
    BY <1>1, <1>2, <1>3, <1>4 DEF Next

\* The counters that SC02::Transfer checks against the size of its buffers
\* are the sizes of what is in them, after any number of requests that were
\* queued, refused, sent or kept by a failure.
THEOREM CountersTrue == Spec => []Accounting
  <1>1. Init => Accounting
    <2> SUFFICES ASSUME Init PROVE Accounting
      OBVIOUS
    <2> QED
      BY TotalsOfNone DEF Init, Accounting
  <1> QED
    BY <1>1, NextAccounting, InductiveInvariant, PTL DEF Spec
=============================================================================
