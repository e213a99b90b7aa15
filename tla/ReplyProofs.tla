---------------------------- MODULE ReplyProofs ----------------------------
(***************************************************************************)
(* Proofs that a call of a module that returns TRUE was carried out and    *)
(* has its own reply, for any modules, sizes, numbers of calls and faults. *)
(*                                                                         *)
(* The code checks neither the port and id nor the number of the sections, *)
(* nor the length of the reply, and the return value is only the status    *)
(* that the last section left in the object.  The invariant is the reason  *)
(* why that is enough when no older reply was under way: what has come so  *)
(* far are the sections of the first k requests, each of the size its      *)
(* result gives it, the hub has the others in the same order, and the      *)
(* shortest complete reply is the only one that the read can end with.     *)
(***************************************************************************)
EXTENDS ModuleBusProofs

\* Where the sections would start if every request were carried out: after
\* as many bytes as the queue has counted.
Asked(full) ==
    /\ full \in [1 .. Len(sections) + 1 -> Nat] /\ full[1] = 1
    /\ \A i \in 1 .. Len(sections) :
           full[i + 1] = full[i] + RX_HEADER + sections[i].rx
    /\ \A i \in 1 .. Len(sections) + 1 : full[i] <= iRxBufCount + 1
    /\ full[Len(sections) + 1] = iRxBufCount + 1

AskedInv == \E full : Asked(full)

\* The bytes begin with the sections of the first k requests of the frame of
\* the current call, answered with res and starting at start.
Reply(k, res, start, bytes) ==
    /\ res \in [1 .. Len(sections) -> Result]
    /\ start \in [1 .. Len(sections) + 1 -> Nat \ {0}] /\ start[1] = 1
    /\ \A i \in 1 .. k :
           start[i + 1] = start[i] + (RX_HEADER + SectionSize(sections[i], res[i]))
    /\ \A i \in 1 .. k + 1 : start[i] <= Len(bytes) + 1
    /\ \A i \in 1 .. k : \A j \in 1 .. RX_HEADER + SectionSize(sections[i], res[i]) :
           bytes[start[i] + j - 1] = Cell(current.call, sections[i], res[i], j)

\* What the hub has done when it answered k requests with res.
CarriedOut(k, res) ==
    /\ \A i \in 1 .. k : /\ res[i] = "ok" => sections[i].call \in served
                         /\ res[i] = "forged" => sections[i].call \in forged
    /\ k = Len(sections) /\ res[k] \notin Refusal
       /\ current.kind \in {"exchange", "raw"} =>
           out[current.child] = current.call

\* What the hub has still to do: the other requests and its status byte, or
\* nothing.
UnderWay(k, start) ==
    \/ /\ Len(wire) = 1 /\ wire[1].frame = current.call
       /\ Len(wire[1].todo) = Len(sections) - k
       /\ \A i \in 1 .. Len(sections) - k :
              wire[1].todo[i] = sections[k + i]
       /\ Len(pipe) = start[k + 1] - 1
    \/ /\ wire = <<>> /\ k = Len(sections)
       /\ Len(pipe) = start[k + 1]

Coming(k, res, start, full) ==
    /\ k \in 0 .. Len(sections)
    /\ Reply(k, res, start, pipe) /\ CarriedOut(k, res) /\ UnderWay(k, start)
    /\ Asked(full) /\ \A i \in 1 .. k + 1 : start[i] <= full[i]

ReadingInv ==
    phase = "read" /\ clean =>
        \E k, res, start, full : Coming(k, res, start, full)

\* What the loop has done with the reply when section idx is the next.
Delivered(res, start) ==
    /\ Reply(Len(sections), res, start, image)
    /\ CarriedOut(Len(sections), res)
    /\ pos = start[idx + 1]
    /\ idx = Len(sections) =>
           /\ mod[current.child].bStatus = "CM_NORMAL" =>
                  res[idx] \in {"ok", "forged"}
           /\ res[idx] = "ok" /\ current.kind = "exchange" =>
                  mod[current.child].board.frame = current.call
           /\ res[idx] = "ok" /\ current.kind = "query" /\ ~current.armed =>
                  buffer[current.call] =
                      [frame |-> current.call, call |-> current.call]

DeliveringInv ==
    phase = "deliver" /\ clean =>
        /\ wire = <<>> /\ pipe = <<>>
        /\ current.kind = "exchange" =>
               \/ mod[current.child].ExtMode
               \/ mod[current.child].board.frame = current.call
        /\ \E res, start : Delivered(res, start)

DoneInv == TrueMeansServed /\ ExchangeFresh /\ QueryDelivered

ReplyInv == BusInv /\ AskedInv /\ ReadingInv /\ DeliveringInv /\ DoneInv

-----------------------------------------------------------------------------

LEMMA InitReplyInv == Init => ReplyInv
  <1> SUFFICES ASSUME Init PROVE ReplyInv
    OBVIOUS
  <1>1. /\ sections = <<>> /\ Len(sections) = 0 /\ iRxBufCount = 0
        /\ phase = "idle" /\ answer = FALSE
    BY DEF Init, Queue!Init
  <1>2. AskedInv
    <2> DEFINE full == [i \in 1 .. 1 |-> 1]
    <2>1. Asked(full)
      BY <1>1 DEF Asked
    <2> QED
      BY <2>1 DEF AskedInv
  <1>3. ReadingInv /\ DeliveringInv /\ DoneInv
    BY <1>1 DEF ReadingInv, DeliveringInv, DoneInv, TrueMeansServed,
                ExchangeFresh, QueryDelivered, Done
  <1> QED
    BY <1>2, <1>3, InitBusInv DEF ReplyInv

\* A request that joins the queue adds its section to the bytes asked for.
LEMMA CallAsked ==
    ASSUME BusInv, AskedInv, NEW m \in Child, NEW kind \in Kind,
           NEW now \in BOOLEAN, Call(m, kind, now)
    PROVE  AskedInv'
  <1> DEFINE r == Req(m, kind, current.call + 1)
  <1> DEFINE n == Len(sections)
  <1>1. PICK full : Asked(full)
    BY DEF AskedInv
  <1>2. \/ /\ sections' = sections
           /\ iRxBufCount' = IF iTxBufCount = 0 THEN 0 ELSE iRxBufCount
        \/ /\ sections' = Append(sections, r)
           /\ iRxBufCount' = (IF iTxBufCount = 0 THEN 0
                              ELSE iRxBufCount) + RX_HEADER + r.rx
    BY CallQueued
  <1>3. /\ sections \in Seq(Request) /\ n \in Nat /\ iRxBufCount \in Nat
        /\ iTxBufCount = 0 => n = 0
    BY QueueFacts DEF BusInv
  <1>4. r \in Request
    BY CallEffect
  <1>5. r.rx \in Nat /\ RX_HEADER \in Nat
    BY <1>4, RequestFacts, BusAssumption
  <1> HIDE DEF r
  <1>6. /\ full \in [1 .. n + 1 -> Nat] /\ full[1] = 1
        /\ \A i \in 1 .. n : full[i + 1] = full[i] + RX_HEADER + sections[i].rx
        /\ \A i \in 1 .. n + 1 : full[i] <= iRxBufCount + 1
        /\ full[n + 1] = iRxBufCount + 1
    BY <1>1 DEF Asked
  <1>7. (IF iTxBufCount = 0 THEN 0 ELSE iRxBufCount) = iRxBufCount
    BY <1>3, <1>6
  <1>8. CASE sections' = sections /\ iRxBufCount' = iRxBufCount
    BY <1>1, <1>8 DEF AskedInv, Asked
  <1>9. CASE /\ sections' = Append(sections, r)
             /\ iRxBufCount' = iRxBufCount + RX_HEADER + r.rx
    <2>1. /\ Len(sections') = n + 1 /\ sections'[n + 1] = r
          /\ \A i \in 1 .. n : sections'[i] = sections[i]
      BY <1>3, <1>4, <1>9, AppendProperties
    <2> HIDE DEF n
    <2>0. PICK next : next = [i \in 1 .. n + 2 |->
                                 IF i = n + 2
                                 THEN full[n + 1] + RX_HEADER + r.rx
                                 ELSE full[i]]
      OBVIOUS
    <2>2. /\ next \in [1 .. n + 2 -> Nat]
          /\ next[n + 2] = full[n + 1] + RX_HEADER + r.rx
          /\ \A i \in 1 .. n + 1 : next[i] = full[i]
      BY <1>3, <1>5, <1>6, <2>0
    <2>3. next[1] = 1 /\ next[n + 2] = iRxBufCount' + 1
      <3>1. 1 \in 1 .. n + 1
        BY <1>3
      <3>2. next[1] = 1
        BY <1>6, <2>2, <3>1
      <3>3. next[n + 2] = iRxBufCount + 1 + RX_HEADER + r.rx
        BY <1>6, <2>2
      <3>4. iRxBufCount' + 1 = iRxBufCount + 1 + RX_HEADER + r.rx
        BY <1>3, <1>5, <1>9
      <3> QED
        BY <3>2, <3>3, <3>4
    <2>4. ASSUME NEW i \in 1 .. n + 1
          PROVE  next[i + 1] = next[i] + RX_HEADER + sections'[i].rx
      <3>1. CASE i = n + 1
        BY <1>3, <2>1, <2>2, <3>1
      <3>2. CASE i # n + 1
        <4>1. i \in 1 .. n /\ i + 1 \in 1 .. n + 1
          BY <1>3, <3>2
        <4> QED
          BY <1>6, <2>1, <2>2, <4>1
      <3> QED
        BY <3>1, <3>2
    <2>5. ASSUME NEW i \in 1 .. n + 2
          PROVE  next[i] <= iRxBufCount' + 1
      <3>1. CASE i = n + 2
        BY <1>3, <1>5, <2>3, <1>9, <3>1
      <3>2. CASE i # n + 2
        <4>1. i \in 1 .. n + 1
          BY <1>3, <3>2
        <4>2. next[i] <= iRxBufCount + 1 /\ next[i] \in Nat
          BY <1>6, <2>2, <4>1
        <4> QED
          BY <1>3, <1>5, <1>9, <4>2
      <3> QED
        BY <3>1, <3>2
    <2>6. (n + 1) + 1 = n + 2
      BY <1>3
    <2>7. Asked(next)'
      BY <2>1, <2>2, <2>3, <2>4, <2>5, <2>6 DEF Asked
    <2> QED
      BY <2>7 DEF AskedInv
  <1> QED
    BY <1>2, <1>7, <1>8, <1>9

\* Steps that leave the queue's counters alone.
LEMMA QuietAsked ==
    ASSUME AskedInv, UNCHANGED <<sections, iRxBufCount>>
    PROVE  AskedInv'
  BY DEF AskedInv, Asked

LEMMA ReturnAsked ==
    ASSUME Return
    PROVE  AskedInv'
  <1>1. sections' = <<>> /\ Len(sections') = 0 /\ iRxBufCount' = 0
    BY DEF Return, Queue!EndProcess
  <1>2. PICK full : full = [i \in 1 .. 1 |-> 1]
    OBVIOUS
  <1>3. Asked(full)'
    BY <1>1, <1>2 DEF Asked
  <1> QED
    BY <1>3 DEF AskedInv

-----------------------------------------------------------------------------

\* The frame is on its way, nothing of the reply has come.
LEMMA WriteFileReading ==
    ASSUME BusInv, AskedInv, WriteFile
    PROVE  ReadingInv'
  <1> DEFINE n == Len(sections)
  <1> SUFFICES ASSUME clean'
               PROVE  (\E k, res, start, full : Coming(k, res, start, full))'
    BY DEF ReadingInv
  <1>1. PICK full : Asked(full)
    BY DEF AskedInv
  <1>2. PICK res : res = [i \in 1 .. n |-> "ok"]
    OBVIOUS
  <1>3. PICK start : start = [i \in 1 .. n + 1 |-> 1]
    OBVIOUS
  <1>4. /\ wire = <<>> /\ pipe = <<>> /\ pipe' = pipe
        /\ wire' = Append(wire, [frame |-> current.call, todo |-> sections])
        /\ sections' = sections /\ iRxBufCount' = iRxBufCount
        /\ UNCHANGED <<current, out, served, forged>>
    BY DEF WriteFile, queueVars
  <1>5. n \in Nat /\ sections \in Seq(Request)
    BY QueueFacts DEF BusInv
  <1>6. n > 0
    BY DEF WriteFile, BusInv, CallerInv
  <1>7. /\ Len(wire') = 1 /\ wire'[1].frame = current.call
        /\ wire'[1].todo = sections
    BY <1>4
  <1> HIDE DEF n
  <1>8. Reply(0, res, start, pipe)'
    <2>1. /\ res \in [1 .. n -> Result]
          /\ start \in [1 .. n + 1 -> Nat \ {0}] /\ start[1] = 1
      BY <1>2, <1>3, <1>5 DEF Result
    <2> QED
      BY <1>4, <2>1 DEF Reply, n
  <1>9. CarriedOut(0, res)'
    BY <1>4, <1>6 DEF CarriedOut, n
  <1>10. UnderWay(0, start)'
    <2>1. start[1] = 1 /\ Len(pipe') = 0 /\ n - 0 = n
      BY <1>3, <1>4, <1>5
    <2>2. \A i \in 1 .. n : wire'[1].todo[i] = sections[0 + i]
      BY <1>5, <1>7
    <2>3. Len(wire'[1].todo) = n
      BY <1>7 DEF n
    <2> QED
      BY <1>4, <1>7, <2>1, <2>2, <2>3 DEF UnderWay, n
  <1>11. /\ Asked(full)' /\ 0 \in 0 .. n
         /\ \A i \in 1 .. 0 + 1 : start[i] <= full[i]
    <2>1. Asked(full)'
      BY <1>1, <1>4 DEF Asked
    <2>2. full[1] = 1 /\ start[1] = 1
      BY <1>1, <1>3, <1>5 DEF Asked
    <2> QED
      BY <1>5, <2>1, <2>2
  <1>12. Coming(0, res, start, full)'
    BY <1>4, <1>8, <1>9, <1>10, <1>11 DEF Coming, n
  <1> QED
    BY <1>12

\* The hub serves a request of the current frame: one more section is there.
LEMMA ServeReading ==
    ASSUME BusInv, ReadingInv, NEW result \in Result, Serve(result),
           phase = "read", clean
    PROVE  ReadingInv'
  <1> DEFINE n == Len(sections)
  <1> SUFFICES (\E k, res, start, full : Coming(k, res, start, full))'
    BY DEF ReadingInv
  <1>1. PICK k, res, start, full : Coming(k, res, start, full)
    BY DEF ReadingInv
  <1>2. /\ UNCHANGED <<sections, iRxBufCount, current, mod, phase, clean>>
        /\ wire # <<>>
    BY DEF Serve, queueVars
  <1>3. /\ n \in Nat /\ k \in 0 .. n /\ RX_HEADER \in Nat
        /\ \A i \in 1 .. n : sections[i] \in Request
        /\ pipe \in Seq(ReplyCell) /\ Len(pipe) \in Nat
    BY <1>1, QueueFacts, BusAssumption DEF Coming, BusInv, TypeOK
  <1>4. /\ Len(wire) = 1 /\ wire[1].frame = current.call
        /\ Len(wire[1].todo) = n - k
        /\ \A i \in 1 .. n - k : wire[1].todo[i] = sections[k + i]
        /\ Len(pipe) = start[k + 1] - 1
    BY <1>1, <1>2 DEF Coming, UnderWay
  <1>5. /\ wire[1] \in Frame /\ Head(wire) = wire[1] /\ wire[1].todo # <<>>
        /\ wire[1].todo \in Seq(Request)
        /\ Head(wire[1].todo) = wire[1].todo[1]
    <2>1. /\ Head(wire) \in Frame /\ Head(wire) = wire[1]
          /\ Head(wire).todo # <<>>
          /\ Head(Head(wire).todo) = Head(wire).todo[1]
      BY ServeEffect
    <2>2. wire[1].todo \in Seq(Request)
      BY <2>1 DEF Frame
    <2> QED
      BY <2>1, <2>2
  <1>6. k < n /\ Head(wire[1].todo) = sections[k + 1]
    <2>1. Len(wire[1].todo) > 0
      BY <1>5, EmptySeq
    <2>2. k < n /\ 1 \in 1 .. n - k
      BY <1>3, <1>4, <2>1
    <2> QED
      BY <1>4, <1>5, <2>2
  <1>7. PICK r : r = sections[k + 1]
    OBVIOUS
  <1>8. /\ k + 1 \in 1 .. n /\ r \in Request
        /\ SectionSize(r, result) \in Nat
        /\ SectionSize(r, result) <= r.rx /\ r.rx \in Nat
        /\ result \notin Refusal => SectionSize(r, result) = r.rx
    <2>1. k + 1 \in 1 .. n
      BY <1>3, <1>6
    <2>2. r \in Request
      BY <1>3, <1>7, <2>1
    <2> QED
      BY <2>1, <2>2, SectionSizes
  <1>9. PICK size : size = RX_HEADER + SectionSize(r, result)
    OBVIOUS
  <1>10. size \in Nat /\ size <= RX_HEADER + r.rx
    BY <1>3, <1>8, <1>9
  <1>11. /\ Len(pipe') = Len(pipe) + size
         /\ \A i \in 1 .. Len(pipe) : pipe'[i] = pipe[i]
         /\ \A j \in 1 .. size :
                pipe'[Len(pipe) + j] = Cell(current.call, r, result, j)
         /\ Len(wire') = Len(wire)
         /\ wire'[1] = [wire[1] EXCEPT !.todo = Tail(wire[1].todo)]
    <2>1. /\ Len(pipe') = Len(pipe) + RX_HEADER + SectionSize(r, result)
          /\ \A i \in 1 .. Len(pipe) : pipe'[i] = pipe[i]
          /\ \A j \in 1 .. RX_HEADER + SectionSize(r, result) :
                 pipe'[Len(pipe) + j] = Cell(current.call, r, result, j)
          /\ Len(wire') = Len(wire)
          /\ wire'[1] = [wire[1] EXCEPT !.todo = Tail(wire[1].todo)]
      <3> DEFINE f == Head(wire)
      <3> DEFINE q == Head(f.todo)
      <3>1. /\ Len(pipe') = Len(pipe) + RX_HEADER + SectionSize(q, result)
            /\ \A i \in 1 .. Len(pipe) : pipe'[i] = pipe[i]
            /\ \A j \in 1 .. RX_HEADER + SectionSize(q, result) :
                   pipe'[Len(pipe) + j] = Cell(f.frame, q, result, j)
            /\ Len(wire') = Len(wire)
            /\ wire'[1] = [f EXCEPT !.todo = Tail(f.todo)]
        BY ServeEffect
      <3>2. f = wire[1] /\ f.frame = current.call
        BY <1>4, <1>5
      <3>3. q = r
        BY <1>5, <1>6, <1>7
      <3> HIDE DEF f, q
      <3> QED
        BY <3>1, <3>2, <3>3
    <2>2. Len(pipe) + RX_HEADER + SectionSize(r, result) = Len(pipe) + size
      BY <1>3, <1>8, <1>9
    <2> QED
      BY <1>9, <2>1, <2>2
  <1>12. PICK res2 : res2 = [res EXCEPT ![k + 1] = result]
    OBVIOUS
  <1>13. PICK start2 : start2 = [start EXCEPT ![k + 2] = start[k + 1] + size]
    OBVIOUS
  <1> HIDE DEF n
  <1>14. /\ res \in [1 .. n -> Result]
         /\ start \in [1 .. n + 1 -> Nat \ {0}] /\ start[1] = 1
         /\ \A i \in 1 .. k : start[i + 1] =
                start[i] + (RX_HEADER + SectionSize(sections[i], res[i]))
         /\ \A i \in 1 .. k + 1 : start[i] <= Len(pipe) + 1
         /\ \A i \in 1 .. k :
               \A j \in 1 .. RX_HEADER + SectionSize(sections[i], res[i]) :
                  pipe[start[i] + j - 1] =
                      Cell(current.call, sections[i], res[i], j)
    BY <1>1 DEF Coming, Reply, n
  <1>15. /\ res2 \in [1 .. n -> Result] /\ res2[k + 1] = result
         /\ \A i \in 1 .. k : res2[i] = res[i]
    BY <1>3, <1>8, <1>12, <1>14
  <1>16. start[k + 1] = Len(pipe) + 1
    <2>1. start[k + 1] \in Nat
      BY <1>8, <1>3, <1>14
    <2> QED
      BY <1>4, <2>1
  <1>17. /\ start2 \in [1 .. n + 1 -> Nat \ {0}]
         /\ start2[k + 2] = start[k + 1] + size
         /\ \A i \in 1 .. k + 1 : start2[i] = start[i]
    <2>1. /\ k + 2 \in 1 .. n + 1
          /\ \A i \in 1 .. k + 1 : i \in 1 .. n + 1 /\ i # k + 2
      BY <1>3, <1>8
    <2>2. start[k + 1] + size \in Nat \ {0}
      BY <1>3, <1>10, <1>16
    <2> QED
      BY <1>13, <1>14, <2>1, <2>2
  <1>18. Len(pipe') = start2[k + 2] - 1
    BY <1>3, <1>10, <1>11, <1>16, <1>17
  <1>19. ASSUME NEW i \in 1 .. k + 1
         PROVE  start2[i + 1] =
                    start2[i] + (RX_HEADER + SectionSize(sections[i], res2[i]))
    <2>1. CASE i = k + 1
      <3>1. i + 1 = k + 2
        BY <1>3, <2>1
      <3> QED
        BY <1>7, <1>9, <1>15, <1>17, <2>1, <3>1
    <2>2. CASE i # k + 1
      <3>1. i \in 1 .. k /\ i + 1 \in 1 .. k + 1
        BY <1>3, <2>2
      <3> QED
        BY <1>14, <1>15, <1>17, <3>1
    <2> QED
      BY <2>1, <2>2
  <1>20. ASSUME NEW i \in 1 .. (k + 1) + 1
         PROVE  start2[i] <= Len(pipe') + 1 /\ start2[i] <= full[i]
    <2>1. /\ full \in [1 .. n + 1 -> Nat]
          /\ full[(k + 1) + 1] = full[k + 1] + RX_HEADER + r.rx
          /\ \A j \in 1 .. k + 1 : start[j] <= full[j]
      BY <1>1, <1>7, <1>8 DEF Coming, Asked, n
    <2>2. CASE i = k + 2
      <3>1. /\ start2[i] = start[k + 1] + size /\ k + 1 \in 1 .. k + 1
            /\ full[i] = full[k + 1] + RX_HEADER + r.rx
            /\ k + 1 \in 1 .. n + 1
        BY <1>3, <1>17, <2>1, <2>2
      <3>2. /\ start[k + 1] <= full[k + 1] /\ full[k + 1] \in Nat
            /\ start[k + 1] \in Nat
        BY <1>14, <2>1, <3>1
      <3>3. RX_HEADER \in Nat /\ r.rx \in Nat /\ Len(pipe) \in Nat
        BY <1>3, <1>8
      <3>4. /\ start[k + 1] = Len(pipe) + 1 /\ size \in Nat
            /\ size <= RX_HEADER + r.rx /\ Len(pipe') = Len(pipe) + size
        BY <1>10, <1>11, <1>16
      <3> QED
        BY <3>1, <3>2, <3>3, <3>4, SMTT(15)
    <2>3. CASE i # k + 2
      <3>1. i \in 1 .. k + 1 /\ i \in 1 .. n + 1
        BY <1>3, <1>8, <2>3
      <3>2. start2[i] = start[i] /\ start[i] <= Len(pipe) + 1
            /\ start[i] <= full[i] /\ start[i] \in Nat
        BY <1>14, <1>17, <2>1, <3>1
      <3> QED
        BY <1>3, <1>10, <1>11, <3>2, SMTT(15)
    <2> QED
      BY <2>2, <2>3
  <1>21. ASSUME NEW i \in 1 .. k + 1,
                NEW j \in 1 .. RX_HEADER + SectionSize(sections[i], res2[i])
         PROVE  pipe'[start2[i] + j - 1] =
                    Cell(current.call, sections[i], res2[i], j)
    <2>1. CASE i = k + 1
      <3>1. j \in 1 .. size /\ start2[i] = start[k + 1]
        BY <1>3, <1>7, <1>9, <1>15, <1>17, <2>1
      <3>2. start2[i] + j - 1 = Len(pipe) + j
        BY <1>3, <1>10, <1>16, <3>1
      <3> QED
        BY <1>7, <1>11, <1>15, <2>1, <3>1, <3>2
    <2>2. CASE i # k + 1
      <3>1. i \in 1 .. k /\ i \in 1 .. k + 1 /\ i + 1 \in 1 .. k + 1
            /\ i \in 1 .. n /\ i \in 1 .. n + 1
        BY <1>3, <1>8, <2>2
      <3>2. res2[i] = res[i] /\ start2[i] = start[i]
        BY <1>15, <1>17, <3>1
      <3>3. /\ start[i] \in Nat \ {0}
            /\ start[i + 1] =
                  start[i] + (RX_HEADER + SectionSize(sections[i], res[i]))
            /\ start[i + 1] <= Len(pipe) + 1
        BY <1>14, <3>1
      <3>4. RX_HEADER + SectionSize(sections[i], res[i]) \in Nat
        <4>1. sections[i] \in Request
          BY <1>3, <3>1
        <4>2. SectionSize(sections[i], res[i]) \in Nat
          BY <4>1, SectionSizes
        <4> QED
          BY <1>3, <4>2
      <3>5. start[i] + j - 1 \in 1 .. Len(pipe)
        BY <1>3, <3>2, <3>3, <3>4
      <3> QED
        <4>1. pipe'[start[i] + j - 1] = pipe[start[i] + j - 1]
          BY <1>11, <3>5
        <4> QED
          BY <1>14, <3>1, <3>2, <4>1
    <2> QED
      BY <2>1, <2>2
  <1>22. Reply(k + 1, res2, start2, pipe)'
    BY <1>2, <1>15, <1>17, <1>19, <1>20, <1>21, <1>14, <1>3 DEF Reply, n
  <1>23. CarriedOut(k + 1, res2)'
    <2>1. /\ \A i \in 1 .. k :
                 /\ res[i] = "ok" => sections[i].call \in served
                 /\ res[i] = "forged" => sections[i].call \in forged
          /\ served' = IF result = "ok" THEN served \cup {r.call} ELSE served
          /\ forged' = IF result = "forged" THEN forged \cup {r.call}
                       ELSE forged
          /\ out' = IF r.kind \in {"exchange", "raw"} /\ result \notin Refusal
                    THEN [out EXCEPT ![r.child] = r.call] ELSE out
      BY <1>1, <1>5, <1>6, <1>7 DEF Coming, CarriedOut, Serve
    <2>2. ASSUME NEW i \in 1 .. k + 1
          PROVE  /\ res2[i] = "ok" => sections[i].call \in served'
                 /\ res2[i] = "forged" => sections[i].call \in forged'
      <3>1. CASE i = k + 1
        BY <1>7, <1>15, <2>1, <3>1
      <3>2. CASE i # k + 1
        <4>1. i \in 1 .. k
          BY <1>3, <3>2
        <4> QED
          BY <1>15, <2>1, <4>1
      <3> QED
        BY <3>1, <3>2
    <2>3. ASSUME k + 1 = n, result \notin Refusal,
                 current.kind \in {"exchange", "raw"}
          PROVE  out'[current.child] = current.call
      <3>1. r = Req(current.child, current.kind, current.call)
        BY <1>7, <2>3 DEF BusInv, CallerInv, n
      <3>2. /\ r.child = current.child /\ r.kind = current.kind
            /\ r.call = current.call
        BY <3>1 DEF Req
      <3>3. out \in [Child -> 0 .. MaxCalls] /\ current.child \in Child
        BY DEF BusInv, TypeOK, CallerInv
      <3> QED
        BY <2>1, <2>3, <3>2, <3>3
    <2> QED
      BY <1>2, <1>15, <2>2, <2>3 DEF CarriedOut, n
  <1>24. UnderWay(k + 1, start2)'
    <2> DEFINE todo == wire[1].todo
    <2>1. /\ wire'[1].frame = current.call /\ wire'[1].todo = Tail(todo)
      BY <1>4, <1>5, <1>11 DEF Frame
    <2>2. /\ todo \in Seq(Request) /\ todo # <<>> /\ Len(todo) = n - k
          /\ \A i \in 1 .. n - k : todo[i] = sections[k + i]
      BY <1>4, <1>5 DEF n
    <2> HIDE DEF todo
    <2>3. /\ Len(Tail(todo)) = (n - k) - 1
          /\ \A i \in 1 .. (n - k) - 1 : Tail(todo)[i] = todo[i + 1]
      BY <2>2, HeadTailProperties
    <2>4. (n - k) - 1 = n - (k + 1)
      BY <1>3
    <2>5. ASSUME NEW i \in 1 .. n - (k + 1)
          PROVE  Tail(todo)[i] = sections[(k + 1) + i]
      <3>1. i + 1 \in 1 .. n - k /\ k + (i + 1) = (k + 1) + i
        BY <1>3
      <3> QED
        BY <2>2, <2>3, <2>4, <3>1
    <2>6. (k + 1) + 1 = k + 2 /\ Len(wire') = 1
      BY <1>3, <1>4, <1>11
    <2> QED
      BY <1>2, <1>18, <2>1, <2>3, <2>4, <2>5, <2>6 DEF UnderWay, n
  <1>25. Asked(full)'
    BY <1>1, <1>2 DEF Coming, Asked
  <1>26. Coming(k + 1, res2, start2, full)'
    <2>1. k + 1 \in 0 .. n
      BY <1>3, <1>6
    <2> QED
      BY <1>2, <1>20, <1>22, <1>23, <1>24, <1>25, <2>1 DEF Coming, n
  <1> QED
    BY <1>26

\* The hub's status byte ends the reply, and nothing else is under way.
LEMMA CloseReading ==
    ASSUME BusInv, ReadingInv, NEW result \in {"ok", "err"},
           CloseReply(result), phase = "read", clean
    PROVE  ReadingInv'
  <1> DEFINE n == Len(sections)
  <1> SUFFICES (\E k, res, start, full : Coming(k, res, start, full))'
    BY DEF ReadingInv
  <1>1. PICK k, res, start, full : Coming(k, res, start, full)
    BY DEF ReadingInv
  <1>2. /\ UNCHANGED <<sections, iRxBufCount, current, out, served, forged>>
        /\ wire # <<>> /\ wire[1].todo = <<>> /\ wire' = Tail(wire)
        /\ Len(pipe') = Len(pipe) + 1
        /\ \A i \in 1 .. Len(pipe) : pipe'[i] = pipe[i]
    BY CloseReplyEffect DEF CloseReply, queueVars
  <1>3. /\ n \in Nat /\ k \in 0 .. n /\ RX_HEADER \in Nat
        /\ \A i \in 1 .. n : sections[i] \in Request
        /\ Len(pipe) \in Nat /\ wire \in Seq(Frame)
    BY <1>1, QueueFacts, BusAssumption DEF Coming, BusInv, TypeOK
  <1>4. /\ Len(wire) = 1 /\ Len(wire[1].todo) = n - k
        /\ Len(pipe) = start[k + 1] - 1
    BY <1>1, <1>2 DEF Coming, UnderWay
  <1>5. k = n
    <2>1. Len(wire[1].todo) = 0
      BY <1>2
    <2> QED
      BY <1>3, <1>4, <2>1
  <1>6. wire' = <<>>
    <2>1. Len(Tail(wire)) = 0 /\ Tail(wire) \in Seq(Frame)
      BY <1>2, <1>3, <1>4, HeadTailProperties
    <2> QED
      BY <1>2, <2>1, EmptySeq
  <1> HIDE DEF n
  <1>7. /\ res \in [1 .. n -> Result]
        /\ start \in [1 .. n + 1 -> Nat \ {0}] /\ start[1] = 1
        /\ \A i \in 1 .. k : start[i + 1] =
               start[i] + (RX_HEADER + SectionSize(sections[i], res[i]))
        /\ \A i \in 1 .. k + 1 : start[i] <= Len(pipe) + 1
        /\ \A i \in 1 .. k :
              \A j \in 1 .. RX_HEADER + SectionSize(sections[i], res[i]) :
                 pipe[start[i] + j - 1] =
                     Cell(current.call, sections[i], res[i], j)
    BY <1>1 DEF Coming, Reply, n
  <1>8. Reply(k, res, start, pipe)'
    <2>1. ASSUME NEW i \in 1 .. k + 1
          PROVE  start[i] <= Len(pipe') + 1
      <3>1. i \in 1 .. n + 1
        BY <1>3, <1>5
      <3>2. start[i] <= Len(pipe) + 1 /\ start[i] \in Nat
        BY <1>7, <3>1
      <3> QED
        BY <1>2, <1>3, <3>2
    <2>2. ASSUME NEW i \in 1 .. k,
                 NEW j \in 1 .. RX_HEADER + SectionSize(sections[i], res[i])
          PROVE  pipe'[start[i] + j - 1] =
                     Cell(current.call, sections[i], res[i], j)
      <3>1. /\ i \in 1 .. n /\ i \in 1 .. n + 1 /\ i + 1 \in 1 .. k + 1
        BY <1>3, <1>5
      <3>2. /\ start[i] \in Nat \ {0}
            /\ start[i + 1] =
                  start[i] + (RX_HEADER + SectionSize(sections[i], res[i]))
            /\ start[i + 1] <= Len(pipe) + 1
        BY <1>7, <3>1
      <3>3. SectionSize(sections[i], res[i]) \in Nat
        BY <1>3, <3>1, SectionSizes
      <3>4. start[i] + j - 1 \in 1 .. Len(pipe)
        BY <1>3, <3>2, <3>3
      <3>5. pipe'[start[i] + j - 1] = pipe[start[i] + j - 1]
        BY <1>2, <3>4
      <3>6. pipe[start[i] + j - 1] =
                Cell(current.call, sections[i], res[i], j)
        BY <1>7
      <3> QED
        BY <3>5, <3>6
    <2> QED
      BY <1>2, <1>7, <2>1, <2>2 DEF Reply, n
  <1>9. CarriedOut(k, res)'
    BY <1>1, <1>2 DEF Coming, CarriedOut
  <1>10. UnderWay(k, start)'
    <2>1. start[k + 1] \in Nat
      BY <1>3, <1>5, <1>7
    <2>2. Len(pipe') = start[k + 1]
      BY <1>2, <1>3, <1>4, <2>1
    <2> QED
      BY <1>2, <1>5, <1>6, <2>2 DEF UnderWay, n
  <1>11. Coming(k, res, start, full)'
    BY <1>1, <1>2, <1>8, <1>9, <1>10 DEF Coming, Asked
  <1> QED
    BY <1>11

LEMMA HubReading ==
    ASSUME BusInv, ReadingInv, HubNext
    PROVE  ReadingInv'
  <1>1. phase' = phase
    BY DEF HubNext, Serve, CloseReply, DropFrame
  <1>2. CASE DropFrame
    BY <1>2 DEF DropFrame, ReadingInv
  <1>3. ASSUME NEW result \in Result, Serve(result)
        PROVE  ReadingInv'
    <2>1. clean' = clean
      BY <1>3 DEF Serve
    <2> QED
      BY <1>1, <1>3, <2>1, ServeReading DEF ReadingInv
  <1>4. ASSUME NEW result \in {"ok", "err"}, CloseReply(result)
        PROVE  ReadingInv'
    <2>1. clean' = clean
      BY <1>4 DEF CloseReply
    <2> QED
      BY <1>1, <1>4, <2>1, CloseReading DEF ReadingInv
  <1> QED
    BY <1>2, <1>3, <1>4 DEF HubNext, Result

-----------------------------------------------------------------------------

\* The whole reply, at most without the hub's status byte, goes to the loop.
LEMMA AcceptReply ==
    ASSUME BusInv, NEW res, NEW start, NEW full,
           Coming(Len(sections), res, start, full),
           NEW m \in 0 .. Len(pipe), m <= iRxBufCount,
           \A i \in 1 .. Len(sections) + 1 : start[i] <= m + 1,
           phase = "read", Accept(m), UNCHANGED <<out, served, forged>>
    PROVE  Delivered(res, start)'
  <1> DEFINE n == Len(sections)
  <1>1. /\ UNCHANGED <<sections, current>> /\ idx' = 0 /\ pos' = 1
    BY DEF Accept, queueVars
  <1>2. /\ n \in Nat /\ RX_HEADER \in Nat /\ iRxBufCount \in Nat
        /\ \A i \in 1 .. n : sections[i] \in Request
        /\ iRxBufCount <= SC_BUF_SIZE /\ SC_BUF_SIZE \in Nat
        /\ Len(pipe) \in Nat /\ n > 0
    BY QueueFacts, BusAssumption DEF BusInv, TypeOK, CallerInv
  <1>3. m <= SC_BUF_SIZE /\ m \in Nat
    BY <1>2
  <1>4. /\ Len(image') \in Nat /\ m <= Len(image')
        /\ \A i \in 1 .. m : image'[i] = pipe[i]
    <2>1. /\ image' \in Seq(ReplyCell) /\ m <= Len(image')
          /\ \A i \in 1 .. m : image'[i] = pipe[i]
      BY <1>3, AcceptEffect DEF BusInv
    <2> QED
      BY <2>1
  <1> HIDE DEF n
  <1>5. /\ res \in [1 .. n -> Result]
        /\ start \in [1 .. n + 1 -> Nat \ {0}] /\ start[1] = 1
        /\ \A i \in 1 .. n : start[i + 1] =
               start[i] + (RX_HEADER + SectionSize(sections[i], res[i]))
        /\ \A i \in 1 .. n :
              \A j \in 1 .. RX_HEADER + SectionSize(sections[i], res[i]) :
                 pipe[start[i] + j - 1] =
                     Cell(current.call, sections[i], res[i], j)
        /\ \A i \in 1 .. n + 1 : start[i] <= m + 1
    BY DEF Coming, Reply, n
  <1>6. Reply(n, res, start, image)'
    <2>1. ASSUME NEW i \in 1 .. n + 1
          PROVE  start[i] <= Len(image') + 1
      <3>1. start[i] <= m + 1 /\ start[i] \in Nat
        BY <1>5
      <3> QED
        BY <1>3, <1>4, <3>1
    <2>2. ASSUME NEW i \in 1 .. n,
                 NEW j \in 1 .. RX_HEADER + SectionSize(sections[i], res[i])
          PROVE  image'[start[i] + j - 1] =
                     Cell(current.call, sections[i], res[i], j)
      <3>1. i \in 1 .. n + 1 /\ i + 1 \in 1 .. n + 1
        BY <1>2
      <3>2. /\ start[i] \in Nat \ {0}
            /\ start[i + 1] =
                  start[i] + (RX_HEADER + SectionSize(sections[i], res[i]))
            /\ start[i + 1] <= m + 1
        BY <1>5, <3>1
      <3>3. SectionSize(sections[i], res[i]) \in Nat
        BY <1>2, SectionSizes
      <3>4. start[i] + j - 1 \in 1 .. m
        <4>1. PICK b, e, k : /\ b = start[i] /\ e = start[i + 1]
                             /\ k = SectionSize(sections[i], res[i])
          OBVIOUS
        <4>2. /\ b \in Nat \ {0} /\ k \in Nat /\ RX_HEADER \in Nat
              /\ m \in Nat /\ j \in 1 .. RX_HEADER + k
              /\ e = b + (RX_HEADER + k) /\ e <= m + 1
          BY <1>2, <1>3, <3>2, <3>3, <4>1, BusAssumption
        <4>3. b + j - 1 \in 1 .. m
          BY <4>2
        <4> QED
          BY <4>1, <4>3
      <3> QED
        BY <1>4, <1>5, <3>4
    <2> QED
      BY <1>1, <1>5, <2>1, <2>2 DEF Reply, n
  <1>7. CarriedOut(n, res)'
    BY <1>1 DEF Coming, CarriedOut, n
  <1>8. pos' = start[idx' + 1] /\ idx' # n
    BY <1>1, <1>2, <1>5
  <1> QED
    BY <1>1, <1>6, <1>7, <1>8 DEF Delivered, n

\* The read of a clean reply ends with all of it.
LEMMA ReadDelivering ==
    ASSUME BusInv, ReadingInv, ReadFull \/ ReadTimeout, phase' = "deliver",
           clean'
    PROVE  DeliveringInv'
  <1> DEFINE n == Len(sections)
  <1>1. /\ phase = "read" /\ clean /\ n \in Nat /\ Len(pipe) \in Nat
        /\ iRxBufCount \in Nat /\ pipe \in Seq(ReplyCell)
        /\ UNCHANGED <<wire, out, served, forged>>
    <2>1. /\ phase = "read" /\ UNCHANGED <<wire, out, served, forged>>
          /\ clean' = clean \/ clean' = (clean /\ wire = <<>>)
      BY DEF ReadFull, ReadTimeout
    <2>2. /\ n \in Nat /\ Len(pipe) \in Nat /\ iRxBufCount \in Nat
          /\ pipe \in Seq(ReplyCell)
      BY QueueFacts DEF BusInv, TypeOK
    <2> QED
      BY <2>1, <2>2
  <1>2. PICK k, res, start, full : Coming(k, res, start, full)
    BY <1>1 DEF ReadingInv
  <1>3. /\ k \in 0 .. n
        /\ start \in [1 .. n + 1 -> Nat \ {0}]
        /\ full \in [1 .. n + 1 -> Nat]
        /\ \A i \in 1 .. n + 1 : full[i] <= iRxBufCount + 1
        /\ \A i \in 1 .. k + 1 : start[i] <= full[i]
        /\ \A i \in 1 .. k + 1 : start[i] <= Len(pipe) + 1
    BY <1>2 DEF Coming, Reply, Asked
  <1> HIDE DEF n
  <1>4. ASSUME NEW i \in 1 .. k + 1
        PROVE  /\ start[i] \in Nat /\ start[i] <= iRxBufCount + 1
               /\ start[i] <= Len(pipe) + 1
    <2>1. i \in 1 .. n + 1
      BY <1>1, <1>3
    <2>2. start[i] <= full[i] /\ full[i] <= iRxBufCount + 1 /\ full[i] \in Nat
          /\ start[i] \in Nat
      BY <1>3, <2>1
    <2> QED
      BY <1>1, <1>3, <2>2
  <1>5. k + 1 \in 1 .. k + 1
    BY <1>3
  <1>6. wire = <<>> /\ k = n /\ Len(pipe) = start[k + 1]
    <2> SUFFICES ASSUME wire # <<>> PROVE FALSE
      BY <1>2 DEF Coming, UnderWay, n
    <2>1. ReadFull
      BY DEF ReadTimeout
    <2>2. Len(pipe) >= iRxBufCount + 1
      BY <2>1 DEF ReadFull, wSize
    <2>3. Len(pipe) = start[k + 1] - 1
      BY <1>2 DEF Coming, UnderWay
    <2> QED
      BY <1>1, <1>4, <1>5, <2>2, <2>3
  <1>7. Delivered(res, start)' /\ pipe' = <<>>
    <2>1. Coming(n, res, start, full)
      BY <1>2, <1>6
    <2>2. CASE ReadFull
      <3>1. /\ Len(pipe) >= wSize /\ Accept(wSize - 1)
            /\ pipe' = SubSeq(pipe, wSize + 1, Len(pipe))
        BY <2>2 DEF ReadFull
      <3>2. wSize - 1 = iRxBufCount /\ wSize = iRxBufCount + 1
        BY <1>1 DEF wSize
      <3>3. Len(pipe) = wSize /\ iRxBufCount \in 0 .. Len(pipe)
        BY <1>1, <1>4, <1>5, <1>6, <3>1, <3>2
      <3>4. pipe' = <<>>
        <4>1. Len(pipe) < wSize + 1 /\ wSize + 1 \in Int /\ Len(pipe) \in Int
          BY <1>1, <3>2, <3>3
        <4> QED
          BY <3>1, <4>1, SubSeqEmpty
      <3>5. \A i \in 1 .. n + 1 : start[i] <= iRxBufCount + 1
        BY <1>4, <1>6
      <3>6. Accept(iRxBufCount) /\ iRxBufCount <= iRxBufCount
        BY <1>1, <3>1, <3>2
      <3> QED
        BY <1>1, <2>1, <3>3, <3>4, <3>5, <3>6, AcceptReply DEF n
    <2>3. CASE ReadTimeout
      <3>1. /\ Len(pipe) < wSize /\ Accept(Len(pipe)) /\ pipe' = <<>>
        BY <2>3 DEF ReadTimeout, Short, Fail
      <3>2. Len(pipe) <= iRxBufCount /\ Len(pipe) \in 0 .. Len(pipe)
        BY <1>1, <3>1 DEF wSize
      <3>3. \A i \in 1 .. n + 1 : start[i] <= Len(pipe) + 1
        BY <1>4, <1>6
      <3> QED
        BY <1>1, <2>1, <3>1, <3>2, <3>3, AcceptReply DEF n
    <2> QED
      BY <2>2, <2>3
  <1>8. current.kind = "exchange" => mod[current.child].ExtMode
    <2> SUFFICES ASSUME current.kind = "exchange"
                 PROVE  mod[current.child].ExtMode
      OBVIOUS
    <2>1. /\ n > 0 /\ sections[n] = Req(current.child, "exchange", current.call)
          /\ idx = 0
      BY <1>1 DEF BusInv, CallerInv, LoopInv, n
    <2>2. /\ n \in idx + 1 .. n /\ sections[n].kind = "exchange"
          /\ sections[n].child = current.child
      BY <1>1, <2>1 DEF Req
    <2> QED
      BY <2>1, <2>2 DEF BusInv, BoardsWait, n
  <1>9. UNCHANGED <<mod, current>>
    BY DEF ReadFull, ReadTimeout, Accept, Fail
  <1> QED
    BY <1>1, <1>6, <1>7, <1>8, <1>9 DEF DeliveringInv

-----------------------------------------------------------------------------

\* In a clean reply the loop finds every section whole and in its place.
LEMMA SectionInPlace ==
    ASSUME BusInv, DeliverSection, NEW res, NEW start, Delivered(res, start)
    PROVE  /\ Intact
           /\ image[pos] = Cell(current.call, sections[idx + 1],
                                res[idx + 1], 1)
           /\ pos' = start[(idx + 1) + 1]
  <1> DEFINE n == Len(sections)
  <1> DEFINE i == idx + 1
  <1>1. /\ n \in Nat /\ idx \in Nat /\ idx < n /\ RX_HEADER \in Nat
        /\ \A j \in 1 .. n : sections[j] \in Request
        /\ image \in Seq(ReplyCell) /\ Len(image) \in Nat
    <2>1. idx \in Nat /\ idx < n
      BY DeliverEffect
    <2>2. /\ n \in Nat /\ \A j \in 1 .. n : sections[j] \in Request
      BY QueueFacts DEF BusInv
    <2>3. image \in Seq(ReplyCell) /\ Len(image) \in Nat
      BY DEF BusInv, TypeOK
    <2> QED
      BY <2>1, <2>2, <2>3, BusAssumption
  <1> HIDE DEF n
  <1>2. i \in 1 .. n /\ i \in 1 .. n + 1 /\ i + 1 \in 1 .. n + 1
    BY <1>1
  <1>3. PICK size : size = RX_HEADER + SectionSize(sections[i], res[i])
    OBVIOUS
  <1>4. /\ pos = start[i] /\ start[i] \in Nat \ {0}
        /\ start[i + 1] = start[i] + size
        /\ start[i + 1] <= Len(image) + 1
        /\ \A j \in 1 .. size :
               image[start[i] + j - 1] =
                   Cell(current.call, sections[i], res[i], j)
    BY <1>2, <1>3 DEF Delivered, Reply, n
  <1>5. SectionSize(sections[i], res[i]) \in Nat /\ size \in Nat /\ size >= 2
    <2>1. /\ SectionSize(sections[i], res[i]) \in Nat
          /\ SectionSize(sections[i], res[i]) >= 2
      BY <1>1, <1>2, SectionSizes
    <2> QED
      BY <1>1, <1>3, <2>1
  <1>6. image[pos] = Cell(current.call, sections[i], res[i], 1)
    <2>1. 1 \in 1 .. size /\ start[i] + 1 - 1 = pos
      BY <1>4, <1>5
    <2> QED
      BY <1>4, <2>1
  <1>7. /\ image[pos].byte = 1
        /\ image[pos].size = SectionSize(sections[i], res[i])
    BY <1>6 DEF Cell
  <1>8. Intact
    <2>1. RX_HEADER + image[pos].size = size
      BY <1>3, <1>7
    <2>2. pos \in 1 .. Len(image) /\ pos + size - 1 <= Len(image)
      BY <1>1, <1>4, <1>5
    <2>3. ASSUME NEW k \in 1 .. size
          PROVE  image[pos + k - 1] = [image[pos] EXCEPT !.byte = k]
      <3>1. image[pos + k - 1] = Cell(current.call, sections[i], res[i], k)
        BY <1>4
      <3> QED
        BY <1>6, <3>1 DEF Cell
    <2> QED
      BY <1>7, <2>1, <2>2, <2>3 DEF Intact
  <1>9. pos' = start[i + 1]
    <2>1. pos' = pos + RX_HEADER + image[pos].size
      BY <1>8 DEF DeliverSection
    <2> QED
      BY <1>1, <1>3, <1>4, <1>5, <1>7, <2>1
  <1> QED
    BY <1>6, <1>8, <1>9

\* What the caller's object makes of a section of the reply.
LEMMA CallerReceives ==
    ASSUME BusInv, phase = "deliver", NEW m, m = current.child,
           mod[m].pReserveBuffer \in 1 .. MaxCalls,
           NEW r \in Request, NEW result \in Result,
           NEW c, c = Cell(current.call, r, result, 1), Receive(m, c),
           current.kind = "exchange" =>
               mod[m].ExtMode \/ mod[m].board.frame = current.call
    PROVE  /\ current.kind = "exchange" =>
                  mod'[m].ExtMode \/ mod'[m].board.frame = current.call
           /\ r = Req(current.child, current.kind, current.call) =>
                  /\ mod'[m].bStatus = "CM_NORMAL" => result \in {"ok", "forged"}
                  /\ result = "ok" /\ current.kind = "exchange" =>
                         mod'[m].board.frame = current.call
                  /\ result = "ok" /\ current.kind = "query"
                         /\ ~current.armed =>
                         buffer'[current.call] =
                             [frame |-> current.call, call |-> current.call]
  <1> DEFINE sample == [frame |-> c.frame, call |-> c.call]
  <1>1. /\ m \in Child /\ TypeOK /\ current.call \in 1 .. MaxCalls
        /\ mod[m].pReserveBuffer = current.call
        /\ mod[m].wReqRxSize = DataIn(current.kind) + 2
        /\ current.kind = "query" /\ ~current.armed => ~mod[m].ExtMode
        /\ current.kind \in Kind
    BY DEF BusInv, CallerInv
  <1>2. /\ c.frame = current.call /\ c.call = r.call /\ c.result = result
        /\ c.size = SectionSize(r, result)
    BY DEF Cell
  <1>3. /\ sample \in Sample /\ sample.frame = current.call
        /\ sample = [frame |-> current.call, call |-> r.call]
    <2>1. r.call \in 1 .. MaxCalls
      BY RequestFacts
    <2> QED
      BY <1>1, <1>2, <2>1 DEF Sample
  <1> HIDE DEF sample
  <1>4. /\ StatusOf(result) \in {"CM_NORMAL", "error"}
        /\ StatusOf(result) = "CM_NORMAL" => result = "ok"
    BY DEF StatusOf
  <1>5. \/ \E s \in {"CM_NORMAL", "error"} : SetStatus(m, s)
        \/ Copy(m, sample, StatusOf(result))
    BY <1>2, <1>4 DEF Receive, sample
  <1>6. current.kind = "exchange" =>
            mod'[m].ExtMode \/ mod'[m].board.frame = current.call
    <2>1. CASE \E s \in {"CM_NORMAL", "error"} : SetStatus(m, s)
      <3>1. /\ mod'[m].ExtMode = mod[m].ExtMode
            /\ mod'[m].board = mod[m].board
        BY <1>1, <2>1, SetStatusEffect
      <3> QED
        BY <3>1
    <2>2. CASE Copy(m, sample, StatusOf(result))
      <3>1. /\ mod[m].ExtMode => mod'[m].board = sample
            /\ ~mod[m].ExtMode => mod'[m].board = mod[m].board
        BY <1>1, <1>3, <1>4, <2>2, CopyEffect
      <3> QED
        BY <1>3, <3>1
    <2> QED
      BY <1>5, <2>1, <2>2
  <1>7. ASSUME r = Req(current.child, current.kind, current.call)
        PROVE  /\ mod'[m].bStatus = "CM_NORMAL" => result \in {"ok", "forged"}
               /\ result = "ok" /\ current.kind = "exchange" =>
                      mod'[m].board.frame = current.call
               /\ result = "ok" /\ current.kind = "query" /\ ~current.armed =>
                      buffer'[current.call] =
                          [frame |-> current.call, call |-> current.call]
    <2>1. /\ r.rx = mod[m].wReqRxSize /\ r.kind = current.kind
          /\ r.call = current.call
      BY <1>1, <1>7 DEF Req
    <2>2. CASE result \notin {"ok", "forged"}
      <3>1. result = "nak" => StatusOf(result) = "error" /\ ~Damaged(result)
        BY DEF StatusOf, Damaged
      <3>2. c.size # mod[m].wReqRxSize => result = "nak"
        BY <1>2, <2>1, <2>2, SectionSizes DEF Refusal
      <3>3. SetStatus(m, "error") \/ Copy(m, sample, "error")
        BY <1>2, <2>2, <3>1, <3>2 DEF Receive, StatusOf, sample
      <3>4. mod'[m].bStatus = "error"
        BY <1>1, <1>3, <3>3, SetStatusEffect, CopyEffect
      <3> QED
        BY <2>2, <3>4
    <2>3. CASE result = "ok" /\ current.kind \in {"exchange", "query"}
      <3>1. c.size = mod[m].wReqRxSize /\ c.size # 2
        BY <1>2, <2>1, <2>3, SectionSizes, RequestFacts DEF Refusal
      <3>2. Copy(m, sample, StatusOf(result))
        BY <1>2, <2>3, <3>1 DEF Receive, Damaged, sample
      <3>3. /\ mod[m].ExtMode => mod'[m].board = sample
            /\ ~mod[m].ExtMode => /\ mod'[m].board = mod[m].board
                                  /\ buffer'[current.call] = sample
        BY <1>1, <1>3, <1>4, <3>2, CopyEffect
      <3>4. current.kind = "exchange" => mod'[m].board.frame = current.call
        BY <1>3, <3>3
      <3>5. current.kind = "query" /\ ~current.armed =>
                buffer'[current.call] =
                    [frame |-> current.call, call |-> current.call]
        BY <1>1, <1>3, <2>1, <3>3
      <3> QED
        BY <2>3, <3>4, <3>5
    <2>4. CASE result = "ok" /\ current.kind \notin {"exchange", "query"}
      BY <2>4
    <2>5. CASE result = "forged"
      BY <2>5
    <2> QED
      BY <2>2, <2>3, <2>4, <2>5
  <1> QED
    BY <1>6, <1>7

\* A turn of the loop: the section goes to the object that asked for it, and
\* the last one is the caller's.
LEMMA DeliverDelivering ==
    ASSUME BusInv, DeliveringInv, DeliverSection
    PROVE  DeliveringInv'
  <1> DEFINE n == Len(sections)
  <1> DEFINE m == pChildModule[idx]
  <1> SUFFICES ASSUME clean PROVE DeliveringInv'
    BY DEF DeliveringInv, DeliverSection
  <1>1. /\ phase = "deliver"
        /\ UNCHANGED <<sections, current, image, wire, pipe, out, served,
                       forged, clean, phase>>
    BY DEF DeliverSection, queueVars, linkVars
  <1>2. /\ wire = <<>> /\ pipe = <<>>
        /\ current.kind = "exchange" =>
               mod[current.child].ExtMode
               \/ mod[current.child].board.frame = current.call
    BY <1>1 DEF DeliveringInv
  <1>3. PICK res, start : Delivered(res, start)
    BY <1>1 DEF DeliveringInv
  <1>4. /\ idx \in Nat /\ idx < n /\ idx' = idx + 1 /\ ReplyTaken(m)
        /\ m \in Child /\ m = sections[idx + 1].child
    BY DeliverEffect
  <1>5. /\ n \in Nat /\ idx + 1 \in 1 .. n
        /\ sections[idx + 1] \in Request
        /\ mod[m].pReserveBuffer \in 1 .. MaxCalls
        /\ sections[n] = Req(current.child, current.kind, current.call)
        /\ current.child \in Child
    <2>1. n \in Nat /\ \A i \in 1 .. n : sections[i] \in Request
      BY QueueFacts DEF BusInv
    <2>2. idx + 1 \in 1 .. n
      BY <1>4, <2>1
    <2>3. /\ \A i \in 1 .. n :
                 mod[sections[i].child].pReserveBuffer \in 1 .. MaxCalls
          /\ sections[n] = Req(current.child, current.kind, current.call)
          /\ current.child \in Child
      BY <1>1 DEF BusInv, LoopInv, CallerInv
    <2> HIDE DEF n, m
    <2> QED
      BY <1>4, <2>1, <2>2, <2>3
  <1>6. /\ Intact /\ pos' = start[(idx + 1) + 1]
        /\ image[pos] =
               Cell(current.call, sections[idx + 1], res[idx + 1], 1)
    BY <1>3, SectionInPlace
  <1>7. Receive(m, image[pos])
    BY <1>6 DEF DeliverSection
  <1>8. res[idx + 1] \in Result
    BY <1>3, <1>5 DEF Delivered, Reply
  <1> HIDE DEF n, m
  <1>9. CASE m = current.child
    <2>1. PICK r : r = sections[idx + 1]
      OBVIOUS
    <2>2. PICK result : result = res[idx + 1]
      OBVIOUS
    <2>3. /\ current.kind = "exchange" =>
                 mod'[m].ExtMode \/ mod'[m].board.frame = current.call
          /\ r = Req(current.child, current.kind, current.call) =>
                 /\ mod'[m].bStatus = "CM_NORMAL" =>
                        result \in {"ok", "forged"}
                 /\ result = "ok" /\ current.kind = "exchange" =>
                        mod'[m].board.frame = current.call
                 /\ result = "ok" /\ current.kind = "query"
                        /\ ~current.armed =>
                        buffer'[current.call] =
                            [frame |-> current.call, call |-> current.call]
      <3>1. PICK c : c = Cell(current.call, r, result, 1)
        OBVIOUS
      <3>2. Receive(m, c)
        BY <1>6, <1>7, <2>1, <2>2, <3>1
      <3>3. r \in Request /\ result \in Result
        BY <1>5, <1>8, <2>1, <2>2
      <3> QED
        BY <1>1, <1>2, <1>5, <1>9, <3>1, <3>2, <3>3, CallerReceives
    <2>4. Delivered(res, start)'
      <3>1. (idx + 1 = n) =>
                r = Req(current.child, current.kind, current.call)
        BY <1>5, <2>1
      <3> QED
        BY <1>1, <1>3, <1>4, <1>6, <1>9, <2>2, <2>3, <3>1
           DEF Delivered, Reply, CarriedOut, n
    <2> QED
      BY <1>1, <1>2, <1>9, <2>3, <2>4 DEF DeliveringInv
  <1>10. CASE m # current.child
    <2>1. mod'[current.child] = mod[current.child]
      BY <1>4, <1>5, <1>10 DEF ReplyTaken
    <2>2. idx + 1 # n
      BY <1>4, <1>5, <1>10 DEF Req
    <2>3. Delivered(res, start)'
      BY <1>1, <1>3, <1>4, <1>6, <2>2 DEF Delivered, Reply, CarriedOut, n
    <2> QED
      BY <1>1, <1>2, <2>1, <2>3 DEF DeliveringInv
  <1> QED
    BY <1>9, <1>10

\* While a clean reply is delivered no frame is left for the hub.
LEMMA HubDelivering ==
    ASSUME DeliveringInv, HubNext
    PROVE  DeliveringInv'
  <1>1. wire # <<>> /\ phase' = phase
    BY DEF HubNext, Serve, CloseReply, DropFrame
  <1>2. clean' => clean
    BY DEF HubNext, Serve, CloseReply, DropFrame
  <1> QED
    BY <1>1, <1>2 DEF DeliveringInv

-----------------------------------------------------------------------------

\* The call returns TRUE only if the last section, its own, said so.
LEMMA ReturnDone ==
    ASSUME BusInv, DeliveringInv, Return
    PROVE  DoneInv'
  <1> DEFINE n == Len(sections)
  <1> SUFFICES ASSUME clean, answer' PROVE DoneInv'
    BY DEF DoneInv, TrueMeansServed, ExchangeFresh, QueryDelivered, Done,
           Return
  <1>1. /\ phase = "deliver" /\ idx = bComDeviceCount
        /\ mod[current.child].bStatus = "CM_NORMAL"
        /\ UNCHANGED <<mod, current, buffer, wire, pipe, out, served,
                       forged>>
    BY DEF Return, dataVars, linkVars
  <1>2. wire = <<>> /\ pipe = <<>>
    BY <1>1 DEF DeliveringInv
  <1>3. PICK res, start : Delivered(res, start)
    BY <1>1 DEF DeliveringInv
  <1>4. /\ n \in Nat /\ n > 0 /\ idx = n
        /\ sections[n] = Req(current.child, current.kind, current.call)
    BY <1>1, QueueFacts DEF BusInv, CallerInv
  <1>5. /\ res[n] \in {"ok", "forged"} /\ n \in 1 .. n
        /\ sections[n].call = current.call
        /\ res[n] = "ok" /\ current.kind = "exchange" =>
               mod[current.child].board.frame = current.call
        /\ res[n] = "ok" /\ current.kind = "query" /\ ~current.armed =>
               buffer[current.call] =
                   [frame |-> current.call, call |-> current.call]
    BY <1>1, <1>3, <1>4 DEF Delivered, Req
  <1>6. /\ res[n] = "ok" => current.call \in served
        /\ res[n] = "forged" => current.call \in forged
        /\ res[n] = "ok" /\ current.kind \in {"exchange", "raw"} =>
               out[current.child] = current.call
    BY <1>3, <1>5 DEF Delivered, CarriedOut, Refusal
  <1> QED
    BY <1>1, <1>2, <1>5, <1>6
       DEF DoneInv, TrueMeansServed, ExchangeFresh, QueryDelivered

\* A call that is refused or fails returns FALSE, one that is deferred has
\* its request in the queue, one that is sent has not returned.
LEMMA CallDone ==
    ASSUME BusInv, NEW m \in Child, NEW kind \in Kind, NEW now \in BOOLEAN,
           Call(m, kind, now)
    PROVE  DoneInv'
  <1> DEFINE r == Req(m, kind, current.call + 1)
  <1>1. sections \in Seq(Request) /\ r \in Request
    BY QueueFacts, CallEffect DEF BusInv
  <1>2. answer' = FALSE \/ sections' = Append(sections, r)
    BY CallQueued
  <1> HIDE DEF r
  <1>3. answer' = FALSE \/ sections' # <<>>
    BY <1>1, <1>2, AppendProperties
  <1> QED
    BY <1>3 DEF DoneInv, TrueMeansServed, ExchangeFresh, QueryDelivered, Done

\* With no frame on the link, the hub has nothing to do.
LEMMA HubDone ==
    ASSUME DoneInv, HubNext
    PROVE  DoneInv'
  <1>1. wire # <<>> /\ UNCHANGED <<phase, answer, current, sections>>
    BY DEF HubNext, Serve, CloseReply, DropFrame, queueVars
  <1>2. clean' => clean
    BY DEF HubNext, Serve, CloseReply, DropFrame
  <1> QED
    BY <1>1, <1>2
       DEF DoneInv, TrueMeansServed, ExchangeFresh, QueryDelivered, Done

-----------------------------------------------------------------------------

LEMMA NextReplyInv == ReplyInv /\ [Next]_vars => ReplyInv'
  <1> SUFFICES ASSUME ReplyInv, [Next]_vars PROVE ReplyInv'
    OBVIOUS
  <1> USE DEF ReplyInv
  <1>1. BusInv'
    BY NextBusInv
  <1>2. ASSUME NEW m \in Child, NEW kind \in Kind, NEW now \in BOOLEAN,
               Call(m, kind, now)
        PROVE  ReplyInv'
    <2>1. AskedInv' /\ DoneInv'
      BY <1>2, CallAsked, CallDone
    <2>2. phase' \in {"idle", "write"}
      BY <1>2 DEF Call
    <2> QED
      BY <1>1, <2>1, <2>2 DEF ReadingInv, DeliveringInv
  <1>3. CASE WriteFile
    <2>1. phase' = "read" /\ UNCHANGED <<sections, iRxBufCount>>
      BY <1>3 DEF WriteFile, queueVars
    <2>2. ReadingInv' /\ AskedInv'
      BY <1>3, <2>1, WriteFileReading, QuietAsked
    <2> QED
      BY <1>1, <2>1, <2>2 DEF DeliveringInv, DoneInv, TrueMeansServed,
                              ExchangeFresh, QueryDelivered, Done
  <1>4. ASSUME Fail
        PROVE  ReplyInv'
    <2>1. /\ phase' = "idle" /\ answer' = FALSE
          /\ UNCHANGED <<sections, iRxBufCount>>
      BY <1>4 DEF Fail, Queue!TransceiveError
    <2>2. AskedInv'
      BY <2>1, QuietAsked
    <2> QED
      BY <1>1, <2>1, <2>2
         DEF ReadingInv, DeliveringInv, DoneInv, TrueMeansServed,
             ExchangeFresh, QueryDelivered, Done
  <1>5. ASSUME ReadFull \/ ReadTimeout, NEW n, Accept(n)
        PROVE  ReplyInv'
    <2>1. phase' = "deliver" /\ UNCHANGED <<sections, iRxBufCount>>
      BY <1>5 DEF Accept, queueVars
    <2>2. AskedInv'
      BY <2>1, QuietAsked
    <2>3. DeliveringInv'
      BY <1>5, <2>1, ReadDelivering DEF DeliveringInv
    <2> QED
      BY <1>1, <2>1, <2>2, <2>3
         DEF ReadingInv, DoneInv, TrueMeansServed, ExchangeFresh,
             QueryDelivered, Done
  <1>6. CASE WriteOrReadError
    BY <1>4, <1>6 DEF WriteOrReadError
  <1>7. CASE ReadFull
    BY <1>5, <1>7 DEF ReadFull
  <1>8. CASE ReadTimeout
    BY <1>4, <1>5, <1>8 DEF ReadTimeout
  <1>9. CASE DeliverSection
    <2>1. /\ phase = "deliver" /\ phase' = phase
          /\ UNCHANGED <<sections, iRxBufCount>>
      BY <1>9 DEF DeliverSection, queueVars
    <2>2. AskedInv' /\ DeliveringInv'
      BY <1>9, <2>1, QuietAsked, DeliverDelivering
    <2> QED
      BY <1>1, <2>1, <2>2 DEF ReadingInv, DoneInv, TrueMeansServed,
                              ExchangeFresh, QueryDelivered, Done
  <1>10. CASE Return
    <2>1. phase' = "idle"
      BY <1>10 DEF Return
    <2>2. AskedInv' /\ DoneInv'
      BY <1>10, ReturnAsked, ReturnDone
    <2> QED
      BY <1>1, <2>1, <2>2 DEF ReadingInv, DeliveringInv
  <1>11. CASE HubNext
    <2>1. UNCHANGED <<sections, iRxBufCount>>
      BY <1>11 DEF HubNext, Serve, CloseReply, DropFrame, queueVars
    <2>2. AskedInv'
      BY <2>1, QuietAsked
    <2> QED
      BY <1>1, <1>11, <2>2, HubReading, HubDelivering, HubDone
  <1>12. CASE UNCHANGED vars
    <2>1. UNCHANGED <<sections, iRxBufCount, mod, phase, current, answer,
                      idx, pos, image, buffer, wire, pipe, out, served,
                      forged, clean>>
      BY <1>12 DEF vars, queueVars, linkVars, loopVars, dataVars
    <2>2. AskedInv'
      BY <2>1, QuietAsked
    <2>3. ReadingInv'
      <3> SUFFICES ASSUME ReadingInv, phase = "read", clean
                   PROVE  (\E k, res, start, full :
                               Coming(k, res, start, full))'
        BY <2>1 DEF ReadingInv
      <3>1. PICK k, res, start, full : Coming(k, res, start, full)
        BY DEF ReadingInv
      <3>2. Asked(full)' /\ CarriedOut(k, res)' /\ UnderWay(k, start)'
        BY <2>1, <3>1 DEF Coming, Asked, CarriedOut, UnderWay
      <3>3. Reply(k, res, start, pipe)'
        BY <2>1, <3>1 DEF Coming, Reply
      <3>4. Coming(k, res, start, full)'
        BY <2>1, <3>1, <3>2, <3>3 DEF Coming
      <3> QED
        BY <3>4
    <2>4. DeliveringInv'
      <3> SUFFICES ASSUME phase = "deliver", clean
                   PROVE  DeliveringInv'
        BY <2>1 DEF DeliveringInv
      <3>1. PICK res, start : Delivered(res, start)
        BY DEF DeliveringInv
      <3>2. CarriedOut(Len(sections), res)'
        BY <2>1, <3>1 DEF Delivered, CarriedOut
      <3>3. Reply(Len(sections), res, start, image)'
        BY <2>1, <3>1 DEF Delivered, Reply
      <3>4. Delivered(res, start)'
        BY <2>1, <3>1, <3>2, <3>3 DEF Delivered
      <3> QED
        BY <2>1, <3>4 DEF DeliveringInv
    <2>5. DoneInv'
      BY <2>1 DEF DoneInv, TrueMeansServed, ExchangeFresh, QueryDelivered,
                  Done
    <2> QED
      BY <1>1, <2>2, <2>3, <2>4, <2>5
  <1>13. CASE CallNext
    BY <1>2, <1>13 DEF CallNext
  <1>14. CASE ProgramStep
    BY <1>3, <1>6, <1>7, <1>8, <1>9, <1>10, <1>14 DEF ProgramStep
  <1> QED
    BY <1>11, <1>12, <1>13, <1>14 DEF Next

LEMMA ReplyInvariant == Spec => []ReplyInv
  BY InitReplyInv, NextReplyInv, PTL DEF Spec

\* ControlModule::Transceive returns TRUE for a request that was sent only if
\* the module carried it out, or its refusal was damaged, and then no frame
\* and no reply is under way, provided that none was when the frame was
\* written.
THEOREM ServedWhenTrue == Spec => []TrueMeansServed
  BY ReplyInvariant, PTL DEF ReplyInv, DoneInv

\* CM001::Exchange that returns TRUE, its refusal not damaged, leaves in the
\* boards a sample that was taken for its own frame.
THEOREM FreshExchange == Spec => []ExchangeFresh
  BY ReplyInvariant, PTL DEF ReplyInv, DoneInv

\* A command with a reply into a local variable that returns TRUE has the
\* reply to this very command there, unless an exchange was outstanding or
\* its refusal was damaged.
THEOREM OwnQueryReply == Spec => []QueryDelivered
  BY ReplyInvariant, PTL DEF ReplyInv, DoneInv

=============================================================================
