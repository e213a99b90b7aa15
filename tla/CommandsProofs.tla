--------------------------- MODULE CommandsProofs ---------------------------
(***************************************************************************)
(* Proofs that the commands of a CM001 object implement CommandService and *)
(* that a command for the motor which was answered TRUE holds, for any set *)
(* of commands, any number of calls and faults, and any module.            *)
(*                                                                         *)
(* What the object knows when it returns is one status byte.  The          *)
(* invariant ties that byte to the latest request: it is the last of the   *)
(* frame, so that its section is the last one received, and the section of *)
(* an undamaged refusal never leaves CM_NORMAL.                            *)
(***************************************************************************)
EXTENDS Commands, TLAPS

IsSeq(s) == \E S : s \in Seq(S)

LEMMA AppendIsSeq ==
    ASSUME NEW s, IsSeq(s), NEW e
    PROVE  /\ IsSeq(Append(s, e))
           /\ Append(s, e) # <<>>
           /\ Len(s) \in Nat /\ DOMAIN s = 1 .. Len(s)
           /\ Len(Append(s, e)) = Len(s) + 1
           /\ DOMAIN Append(s, e) = 1 .. Len(s) + 1
           /\ Append(s, e)[Len(s) + 1] = e
           /\ \A i \in 1 .. Len(s) : Append(s, e)[i] = s[i]
           /\ Last(Append(s, e)) = e
  <1>1. PICK S : s \in Seq(S)
    BY DEF IsSeq
  <1>2. s \in Seq(S \cup {e}) /\ e \in S \cup {e}
    BY <1>1
  <1>3. Append(s, e) \in Seq(S \cup {e})
    BY <1>2
  <1>4. IsSeq(Append(s, e))
    BY <1>3 DEF IsSeq
  <1>5. /\ Len(s) \in Nat /\ DOMAIN s = 1 .. Len(s)
        /\ Len(Append(s, e)) = Len(s) + 1
        /\ DOMAIN Append(s, e) = 1 .. Len(s) + 1
        /\ Append(s, e)[Len(s) + 1] = e
        /\ \A i \in 1 .. Len(s) : Append(s, e)[i] = s[i]
    BY <1>2
  <1>6. Append(s, e) # <<>>
    BY <1>2, <1>5
  <1> QED
    BY <1>4, <1>5, <1>6 DEF Last

LEMMA TailIsSeq ==
    ASSUME NEW s, IsSeq(s), s # <<>>
    PROVE  /\ IsSeq(Tail(s))
           /\ Len(s) \in Nat \ {0} /\ DOMAIN s = 1 .. Len(s)
           /\ Head(s) = s[1]
           /\ Len(Tail(s)) = Len(s) - 1
           /\ DOMAIN Tail(s) = 1 .. Len(s) - 1
           /\ \A i \in 1 .. Len(s) - 1 : Tail(s)[i] = s[i + 1]
           /\ IF Len(s) = 1 THEN Tail(s) = <<>> /\ Last(s) = Head(s)
                            ELSE Tail(s) # <<>> /\ Last(Tail(s)) = Last(s)
  <1>1. PICK S : s \in Seq(S)
    BY DEF IsSeq
  <1>2. Tail(s) \in Seq(S)
    BY <1>1
  <1>3. IsSeq(Tail(s))
    BY <1>2 DEF IsSeq
  <1>4. /\ Len(s) \in Nat \ {0} /\ DOMAIN s = 1 .. Len(s)
        /\ Head(s) = s[1]
        /\ Len(Tail(s)) = Len(s) - 1
        /\ DOMAIN Tail(s) = 1 .. Len(s) - 1
        /\ \A i \in 1 .. Len(s) - 1 : Tail(s)[i] = s[i + 1]
    BY <1>1, <1>2
  <1>5. CASE Len(s) = 1
    BY <1>1, <1>2, <1>3, <1>4, <1>5 DEF Last
  <1>6. CASE Len(s) # 1
    <2>1. Len(s) - 1 \in 1 .. Len(s) - 1
      BY <1>4, <1>6
    <2>2. Tail(s)[Len(s) - 1] = s[Len(s)]
      BY <1>4, <2>1
    <2>3. Last(Tail(s)) = Last(s)
      BY <1>4, <2>2 DEF Last
    <2>4. Tail(s) # <<>>
      BY <1>4, <1>6
    <2> QED
      BY <1>3, <1>4, <1>6, <2>3, <2>4
  <1> QED
    BY <1>3, <1>4, <1>5, <1>6

-----------------------------------------------------------------------------

\* The section of a refusal, as long as it is not damaged: its status is
\* that of the refusal, and so is what Receive leaves of it in the object.
LEMMA RefusalStatus ==
    ASSUME NEW status
    PROVE  StatusOf(Section(<<>>, status)) = status
  <1> DEFINE sum == Sum(<<status>>)
  <1>1. Append(<<>>, status) = <<status>>
    OBVIOUS
  <1>2. Section(<<>>, status) = Append(<<status>>, sum)
    BY <1>1 DEF Section, AddCheckSum
  <1>3. IsSeq(<<status>>) /\ Len(<<status>>) = 1
    <2>1. <<status>> \in Seq({status})
      OBVIOUS
    <2> QED
      BY <2>1 DEF IsSeq
  <1> HIDE DEF sum
  <1>4. /\ Len(Append(<<status>>, sum)) = 2
        /\ Append(<<status>>, sum)[1] = status
    BY <1>3, AppendIsSeq
  <1>5. Len(Append(<<status>>, sum)) - 1 = 1
    BY <1>4
  <1>6. StatusOf(Append(<<status>>, sum)) = status
    BY <1>4, <1>5, Zenon DEF StatusOf
  <1> QED
    BY <1>2, <1>6

LEMMA ReceiveStatus ==
    ASSUME NEW s, Receive(s), StatusOf(s) # CM_NORMAL
    PROVE  bStatus' # CM_NORMAL
  BY DEF Receive, CM_NORMAL, CM_REPLY_SUM_ERROR

-----------------------------------------------------------------------------

\* Calls are counted, and nothing is known of a call that was not made.
CallsOK ==
    /\ pc \in {"idle", "hub", "deliver", "config"}
    /\ current.n \in 0 .. MaxCalls
    /\ told \in [1 .. MaxCalls -> {"none", "open", "TRUE", "FALSE", "unsent"}]
    /\ executed \in [1 .. MaxCalls -> Nat]
    /\ asked \in 0 .. current.n
    /\ \A k \in 1 .. MaxCalls : k > current.n => told[k] = "none"
                                                 /\ executed[k] = 0
    /\ asked = current.n /\ asked > 0 => current.cmd.name \in ForMotor
    /\ pc \in {"hub", "deliver"} => current.n > 0 /\ told[current.n] = "open"

\* Requests that can still be carried out were not answered TRUE, and none
\* of them is for the motor once the latest command for it was answered.
Waiting(requests) ==
    \A i \in DOMAIN requests :
        /\ requests[i].n \in 1 .. current.n
        /\ told[requests[i].n] \in {"open", "FALSE"}
        /\ requests[i].cmd.name \in ForMotor => ~Answered(asked)

\* The latest request is the last of the frame.
RequestsOK ==
    /\ IsSeq(queue) /\ Waiting(queue)
    /\ IsSeq(todo) /\ Waiting(todo)
    /\ pc # "hub" => todo = <<>>
    /\ todo # <<>> =>
           /\ todo[Len(todo)].n = current.n
           /\ todo[Len(todo)].cmd = current.cmd
           /\ executed[current.n] = 0
           /\ \A i \in 1 .. Len(todo) - 1 : todo[i].n # current.n

\* Once the frame is served, the latest request was carried out once, or its
\* refusal was damaged, or what is left of its answer is not CM_NORMAL.
Done == executed[current.n] = 1 /\ (asked = current.n => motor = asked)

Refused == IF reply = <<>> THEN bStatus # CM_NORMAL
                           ELSE StatusOf(Last(reply)) # CM_NORMAL

RepliesOK ==
    /\ IsSeq(reply)
    /\ pc = "deliver" \/ (pc = "hub" /\ todo = <<>>) =>
           Done \/ current.n \in forged \/ Refused

CmdInv == CallsOK /\ RequestsOK /\ RepliesOK /\ MotorAsTold

LEMMA EmptyIsSeq == IsSeq(<<>>)
  <1>1. <<>> \in Seq({})
    OBVIOUS
  <1> QED
    BY <1>1 DEF IsSeq

LEMMA InitCmdInv == Init => CmdInv
  <1> SUFFICES ASSUME Init PROVE CmdInv
    OBVIOUS
  <1> USE CommandsAssumption, EmptyIsSeq DEF Init
  <1>1. CallsOK
    BY DEF CallsOK
  <1>2. RequestsOK
    BY DEF RequestsOK, Waiting
  <1>3. RepliesOK
    BY DEF RepliesOK
  <1>4. MotorAsTold
    BY DEF MotorAsTold, Answered
  <1> QED
    BY <1>1, <1>2, <1>3, <1>4 DEF CmdInv

-----------------------------------------------------------------------------

\* A request that is refused or written keeps the invariant.
LEMMA TransceiveInv ==
    ASSUME CmdInv, NEW c, NEW arg, NEW to, pc \in {"idle", "config"},
           Transceive(c, arg, to)
    PROVE  CmdInv'
  <1> DEFINE n == current.n + 1
             r == [cmd |-> c, arg |-> arg, to |-> to, n |-> n]
  <1>1. /\ current.n \in 0 .. MaxCalls /\ current.n < MaxCalls
        /\ n \in 1 .. MaxCalls /\ n > current.n
        /\ current'.n = n /\ current'.cmd = c
        /\ asked' = IF c.name \in ForMotor THEN n ELSE asked
        /\ reply' = reply /\ motor' = motor /\ executed' = executed
        /\ forged' = forged
    BY CommandsAssumption, SMTT(15)
    DEF CmdInv, CallsOK, Transceive, moduleVars
  <1>2. /\ told[n] = "none" /\ executed[n] = 0
        /\ asked \in 0 .. current.n
        /\ \A k \in 1 .. MaxCalls : k > n => told[k] = "none"
                                             /\ executed[k] = 0
    BY <1>1, CommandsAssumption DEF CmdInv, CallsOK
  <1>3. \E v \in {"open", "FALSE"} : told' = [told EXCEPT ![n] = v]
    BY DEF Transceive, Answer
  <1>4. /\ told' \in [1 .. MaxCalls ->
                         {"none", "open", "TRUE", "FALSE", "unsent"}]
        /\ told'[n] \in {"open", "FALSE"}
        /\ \A k \in 1 .. MaxCalls : k # n => told'[k] = told[k]
    BY <1>1, <1>3 DEF CmdInv, CallsOK
  <1>5. pc' \in {"idle", "config", "hub"} /\ (pc' = "hub" => told'[n] = "open")
    <2>1. told \in [1 .. MaxCalls ->
                         {"none", "open", "TRUE", "FALSE", "unsent"}]
      BY DEF CmdInv, CallsOK
    <2> QED
      BY <1>1, <2>1 DEF Transceive, Answer
  <1>6. Answered(asked)' => Answered(asked) /\ asked' = asked
    <2>1. CASE c.name \in ForMotor
      BY <1>1, <1>4, <2>1 DEF Answered
    <2>2. CASE c.name \notin ForMotor
      BY <1>1, <1>2, <1>4, <2>2, CommandsAssumption DEF Answered
    <2> QED
      BY <2>1, <2>2
  <1>7. CallsOK'
    <2>1. asked' \in 0 .. current'.n
      BY <1>1, <1>2
    <2>2. asked' = current'.n /\ asked' > 0 => current'.cmd.name \in ForMotor
      BY <1>1, <1>2
    <2>3. \A k \in 1 .. MaxCalls : k > current'.n => told'[k] = "none"
                                                    /\ executed'[k] = 0
      BY <1>1, <1>2, <1>4
    <2> QED
      BY <1>1, <1>4, <1>5, <2>1, <2>2, <2>3 DEF CallsOK, CmdInv
  <1> DEFINE W(q) == \A i \in DOMAIN q :
                         /\ q[i].n \in 1 .. current'.n
                         /\ told'[q[i].n] \in {"open", "FALSE"}
                         /\ q[i].cmd.name \in ForMotor => ~Answered(asked)'
  <1>8. ASSUME NEW q, Waiting(q) PROVE W(q)
    <2> SUFFICES ASSUME NEW i \in DOMAIN q
                 PROVE  /\ q[i].n \in 1 .. current'.n
                        /\ told'[q[i].n] \in {"open", "FALSE"}
                        /\ q[i].cmd.name \in ForMotor => ~Answered(asked)'
      OBVIOUS
    <2>1. /\ q[i].n \in 1 .. current.n
          /\ told[q[i].n] \in {"open", "FALSE"}
          /\ q[i].cmd.name \in ForMotor => ~Answered(asked)
      BY <1>8 DEF Waiting
    <2>2. \A k \in 1 .. current.n : k \in 1 .. MaxCalls /\ k # n /\ k \in 1 .. n
      BY <1>1, CommandsAssumption
    <2>3. q[i].n \in 1 .. MaxCalls /\ q[i].n # n /\ q[i].n \in 1 .. n
      BY <2>1, <2>2, Zenon
    <2> QED
      BY <1>1, <1>4, <1>6, <2>1, <2>3
  <1>9. W(queue) /\ IsSeq(queue) /\ todo = <<>> /\ pc # "hub"
    BY <1>8 DEF CmdInv, RequestsOK
  <1>10. RequestsOK' /\ (pc' = "hub" => todo' # <<>>)
    <2>1. CASE queue' = queue /\ todo' = todo /\ pc' # "hub"
      <3>1. W(queue')
        BY <1>9, <2>1
      <3>2. todo' = <<>> /\ W(<<>>)
        BY <1>9, <2>1
      <3>3. IsSeq(queue') /\ IsSeq(todo')
        BY <1>9, <2>1, EmptyIsSeq
      <3>4. Waiting(queue)' /\ Waiting(todo)'
        BY <3>1, <3>2 DEF Waiting
      <3> QED
        BY <2>1, <3>2, <3>3, <3>4 DEF RequestsOK
    <2>2. CASE queue' = Append(queue, r) /\ todo' = queue' /\ pc' = "hub"
      <3>1. /\ IsSeq(queue') /\ queue' # <<>>
            /\ Len(queue') = Len(queue) + 1 /\ Len(queue) \in Nat
            /\ DOMAIN queue' = 1 .. Len(queue) + 1
            /\ DOMAIN queue = 1 .. Len(queue)
            /\ queue'[Len(queue) + 1] = r
            /\ \A i \in 1 .. Len(queue) : queue'[i] = queue[i]
        BY <1>9, <2>2, AppendIsSeq
      <3>2. /\ r.n \in 1 .. current'.n
            /\ told'[r.n] \in {"open", "FALSE"}
            /\ r.cmd.name \in ForMotor => ~Answered(asked)'
        BY <1>1, <1>4 DEF Answered
      <3> HIDE DEF r
      <3>3. W(queue')
        BY <1>9, <3>1, <3>2
      <3>4. todo'[Len(todo')].n = current'.n /\ todo'[Len(todo')].cmd = current'.cmd
        BY <1>1, <2>2, <3>1 DEF r
      <3>5. executed'[current'.n] = 0
        BY <1>1, <1>2
      <3>6. \A i \in 1 .. Len(todo') - 1 : todo'[i].n # current'.n
        <4> SUFFICES ASSUME NEW i \in 1 .. Len(todo') - 1
                     PROVE  todo'[i].n # current'.n
          OBVIOUS
        <4>1. i \in DOMAIN queue /\ todo'[i] = queue[i]
          BY <2>2, <3>1
        <4>2. queue[i].n \in 1 .. current.n
          BY <4>1 DEF CmdInv, RequestsOK, Waiting
        <4> QED
          BY <1>1, <4>1, <4>2
      <3> QED
        BY <2>2, <3>1, <3>3, <3>4, <3>5, <3>6 DEF RequestsOK, Waiting
    <2>3. \/ queue' = queue /\ todo' = todo /\ pc' # "hub"
          \/ queue' = Append(queue, r) /\ todo' = queue' /\ pc' = "hub"
      BY DEF Transceive, Answer
    <2> QED
      BY <2>1, <2>2, <2>3
  <1>11. RepliesOK'
    BY <1>1, <1>5, <1>10 DEF CmdInv, RepliesOK
  <1>12. MotorAsTold'
    BY <1>1, <1>6 DEF CmdInv, MotorAsTold
  <1> QED
    BY <1>7, <1>10, <1>11, <1>12 DEF CmdInv

LEMMA UnopenedInv ==
    ASSUME CmdInv, NEW c, NEW arg, CallUnopened(c, arg)
    PROVE  CmdInv'
  <1> DEFINE n == current.n + 1
  <1>1. /\ current.n \in 0 .. MaxCalls /\ n \in 1 .. MaxCalls
        /\ current'.n = n /\ asked \in 0 .. current.n
        /\ told' = [told EXCEPT ![n] = "unsent"]
        /\ UNCHANGED <<pc, bStatus, queue, todo, reply, id, motor, executed,
                       forged, asked>>
        /\ pc = "idle"
    BY CommandsAssumption DEF CmdInv, CallsOK, CallUnopened, moduleVars
  <1>2. /\ told' \in [1 .. MaxCalls ->
                         {"none", "open", "TRUE", "FALSE", "unsent"}]
        /\ \A k \in 1 .. MaxCalls : k # n => told'[k] = told[k]
    BY <1>1 DEF CmdInv, CallsOK
  <1>3. \A k \in 1 .. current.n : k \in 1 .. MaxCalls /\ k # n /\ k \in 1 .. n
    BY <1>1, CommandsAssumption
  <1>4. Answered(asked)' <=> Answered(asked)
    BY <1>1, <1>2, <1>3 DEF Answered
  <1>5. CallsOK'
    <2>1. ASSUME NEW k \in 1 .. MaxCalls, k > n
          PROVE  told'[k] = "none" /\ executed'[k] = 0
      <3>1. k > current.n /\ k # n
        BY <1>1, <2>1, CommandsAssumption
      <3>2. told[k] = "none" /\ executed[k] = 0
        BY <2>1, <3>1 DEF CmdInv, CallsOK
      <3> QED
        BY <1>1, <1>2, <2>1, <3>1, <3>2
    <2>2. asked' \in 0 .. n /\ asked' # n
      BY <1>1
    <2> QED
      BY <1>1, <1>2, <2>1, <2>2 DEF CmdInv, CallsOK
  <1>6. todo = <<>>
    BY <1>1 DEF CmdInv, RequestsOK
  <1>7. Waiting(queue)' /\ Waiting(todo)'
    <2>1. Waiting(queue)'
      <3> SUFFICES ASSUME NEW i \in DOMAIN queue
                   PROVE  /\ queue[i].n \in 1 .. current'.n
                          /\ told'[queue[i].n] \in {"open", "FALSE"}
                          /\ queue[i].cmd.name \in ForMotor => ~Answered(asked)'
        BY <1>1 DEF Waiting
      <3>1. /\ queue[i].n \in 1 .. current.n
            /\ told[queue[i].n] \in {"open", "FALSE"}
            /\ queue[i].cmd.name \in ForMotor => ~Answered(asked)
        BY DEF CmdInv, RequestsOK, Waiting
      <3> QED
        BY <1>1, <1>2, <1>3, <1>4, <3>1
    <2>2. Waiting(todo)'
      BY <1>1, <1>6 DEF Waiting
    <2> QED
      BY <2>1, <2>2
  <1>8. RequestsOK'
    BY <1>1, <1>6, <1>7 DEF CmdInv, RequestsOK
  <1>9. RepliesOK' /\ MotorAsTold'
    BY <1>1, <1>4 DEF CmdInv, RepliesOK, MotorAsTold
  <1> QED
    BY <1>5, <1>8, <1>9 DEF CmdInv

-----------------------------------------------------------------------------

\* What the next request of the frame is.
LEMMA NextRequest ==
    ASSUME CmdInv, todo # <<>>
    PROVE  /\ pc = "hub" /\ told[current.n] = "open"
           /\ current.n \in 1 .. MaxCalls
           /\ Head(todo).n \in 1 .. current.n
           /\ Head(todo).n \in 1 .. MaxCalls
           /\ told[Head(todo).n] \in {"open", "FALSE"}
           /\ Head(todo).cmd.name \in ForMotor => ~Answered(asked)
           /\ executed[current.n] = 0
           /\ IF Tail(todo) = <<>>
              THEN Head(todo).n = current.n /\ Head(todo).cmd = current.cmd
              ELSE Head(todo).n # current.n
  <1>1. /\ Len(todo) \in Nat \ {0} /\ DOMAIN todo = 1 .. Len(todo)
        /\ Head(todo) = todo[1]
        /\ Len(Tail(todo)) = Len(todo) - 1
        /\ Len(todo) = 1 <=> Tail(todo) = <<>>
    <2>1. IsSeq(todo)
      BY DEF CmdInv, RequestsOK
    <2> QED
      BY <2>1, TailIsSeq
  <1>2. pc = "hub" /\ told[current.n] = "open" /\ current.n \in 1 .. MaxCalls
    BY CommandsAssumption DEF CmdInv, RequestsOK, CallsOK
  <1>3. 1 \in DOMAIN todo
    BY <1>1
  <1>4. /\ Head(todo).n \in 1 .. current.n
        /\ told[Head(todo).n] \in {"open", "FALSE"}
        /\ Head(todo).cmd.name \in ForMotor => ~Answered(asked)
    BY <1>1, <1>3 DEF CmdInv, RequestsOK, Waiting
  <1>5. Head(todo).n \in 1 .. MaxCalls
    <2>1. \A k \in 1 .. current.n : k \in 1 .. MaxCalls
      BY <1>2, CommandsAssumption
    <2> QED
      BY <1>4, <2>1
  <1>6. CASE Len(todo) = 1
    BY <1>1, <1>2, <1>4, <1>5, <1>6 DEF CmdInv, RequestsOK
  <1>7. CASE Len(todo) # 1
    <2>1. 1 \in 1 .. Len(todo) - 1
      BY <1>1, <1>7
    <2> QED
      BY <1>1, <1>2, <1>4, <1>5, <1>7, <2>1 DEF CmdInv, RequestsOK
  <1> QED
    BY <1>6, <1>7

\* The requests behind it stay as they are.
LEMMA RequestsAfter ==
    ASSUME CmdInv, todo # <<>>, todo' = Tail(todo), pc' = pc,
           UNCHANGED <<current, queue, told>>,
           Answered(asked)' => Answered(asked),
           Tail(todo) # <<>> => executed'[current.n] = 0
    PROVE  RequestsOK'
  <1>1. /\ IsSeq(Tail(todo))
        /\ Len(todo) \in Nat \ {0} /\ DOMAIN todo = 1 .. Len(todo)
        /\ Len(Tail(todo)) = Len(todo) - 1
        /\ DOMAIN Tail(todo) = 1 .. Len(todo) - 1
        /\ \A i \in 1 .. Len(todo) - 1 : Tail(todo)[i] = todo[i + 1]
        /\ Len(todo) = 1 <=> Tail(todo) = <<>>
    <2>1. IsSeq(todo)
      BY DEF CmdInv, RequestsOK
    <2> QED
      BY <2>1, TailIsSeq
  <1>2. Waiting(queue)'
    BY DEF CmdInv, RequestsOK, Waiting
  <1>3. Waiting(todo)'
    <2> SUFFICES ASSUME NEW i \in 1 .. Len(todo) - 1
                 PROVE  /\ todo[i + 1].n \in 1 .. current.n
                        /\ told[todo[i + 1].n] \in {"open", "FALSE"}
                        /\ todo[i + 1].cmd.name \in ForMotor => ~Answered(asked)'
      BY <1>1 DEF Waiting
    <2>1. i + 1 \in DOMAIN todo
      BY <1>1
    <2> QED
      BY <2>1 DEF CmdInv, RequestsOK, Waiting
  <1>4. ASSUME Tail(todo) # <<>>
        PROVE  /\ todo'[Len(todo')].n = current'.n
               /\ todo'[Len(todo')].cmd = current'.cmd
               /\ executed'[current'.n] = 0
               /\ \A i \in 1 .. Len(todo') - 1 : todo'[i].n # current'.n
    <2>1. Len(todo) # 1
      BY <1>1, <1>4
    <2>2. Len(todo) - 1 \in 1 .. Len(todo) - 1 /\ Len(todo) - 1 + 1 = Len(todo)
      BY <1>1, <2>1
    <2>3. todo'[Len(todo')] = todo[Len(todo)]
      BY <1>1, <2>2
    <2>4. ASSUME NEW i \in 1 .. Len(todo') - 1 PROVE todo'[i].n # current'.n
      <3>1. i \in 1 .. Len(todo) - 1 /\ i + 1 \in 1 .. Len(todo) - 1
        BY <1>1
      <3>2. todo'[i] = todo[i + 1]
        BY <1>1, <3>1
      <3> QED
        BY <3>1, <3>2 DEF CmdInv, RequestsOK
    <2> QED
      BY <1>4, <2>3, <2>4 DEF CmdInv, RequestsOK
  <1>5. IsSeq(queue') /\ IsSeq(todo') /\ pc' = "hub"
    BY <1>1, NextRequest DEF CmdInv, RequestsOK
  <1> QED
    BY <1>2, <1>3, <1>4, <1>5 DEF RequestsOK

LEMMA CarryInv ==
    ASSUME CmdInv, NEW status, Carry(status)
    PROVE  CmdInv'
  <1> DEFINE r == Head(todo)
  <1>1. /\ todo # <<>> /\ todo' = Tail(todo)
        /\ executed' = [executed EXCEPT ![r.n] = @ + 1]
        /\ motor' = IF r.cmd.name \in ForMotor THEN r.n ELSE motor
        /\ UNCHANGED <<pc, bStatus, current, queue, told, asked>>
    BY DEF Carry, objVars
  <1>2. forged' = forged /\ \E s : reply' = Append(reply, s)
    BY DEF Carry, SendSection
  <1>3. /\ r.n \in 1 .. MaxCalls /\ current.n \in 1 .. MaxCalls
        /\ r.n \in 1 .. current.n
        /\ r.cmd.name \in ForMotor => ~Answered(asked)
        /\ executed[current.n] = 0
        /\ IF todo' = <<>> THEN r.n = current.n /\ r.cmd = current.cmd
                           ELSE r.n # current.n
    BY <1>1, NextRequest
  <1> HIDE DEF r
  <1>4. Answered(asked)' <=> Answered(asked)
    BY <1>1, <1>2 DEF Answered
  <1>5. /\ executed' \in [1 .. MaxCalls -> Nat]
        /\ executed'[current.n] = IF todo' = <<>> THEN 1 ELSE 0
        /\ \A k \in 1 .. MaxCalls : k > current.n => executed'[k] = 0
    <2>1. /\ executed \in [1 .. MaxCalls -> Nat]
          /\ \A k \in 1 .. MaxCalls : k > current.n => executed[k] = 0
      BY DEF CmdInv, CallsOK
    <2>2. executed[r.n] + 1 \in Nat
      BY <1>3, <2>1
    <2>3. executed' \in [1 .. MaxCalls -> Nat]
      <3>1. executed' = [executed EXCEPT ![r.n] = executed[r.n] + 1]
        BY <1>1
      <3> QED
        BY <2>1, <2>2, <3>1
    <2>4. executed'[current.n] = IF todo' = <<>> THEN 1 ELSE 0
      <3>1. CASE r.n = current.n
        BY <1>1, <1>3, <2>1, <3>1
      <3>2. CASE r.n # current.n
        BY <1>1, <1>3, <2>1, <3>2
      <3> QED
        BY <3>1, <3>2
    <2>5. ASSUME NEW k \in 1 .. MaxCalls, k > current.n
          PROVE  executed'[k] = 0
      <3>1. k # r.n
        BY <1>3, <2>5
      <3> QED
        BY <1>1, <2>1, <2>5, <3>1
    <2> QED
      BY <2>3, <2>4, <2>5
  <1>6. CallsOK'
    BY <1>1, <1>5 DEF CmdInv, CallsOK
  <1>7. RequestsOK'
    BY <1>1, <1>4, <1>5, RequestsAfter
  <1>8. IsSeq(reply')
    BY <1>2, AppendIsSeq DEF CmdInv, RepliesOK
  <1>9. todo' = <<>> => Done'
    <2> SUFFICES ASSUME todo' = <<>> PROVE Done'
      OBVIOUS
    <2>1. executed'[current'.n] = 1
      BY <1>1, <1>5
    <2>2. ASSUME asked' = current'.n PROVE motor' = asked'
      <3>1. asked = current.n /\ asked > 0
        BY <1>1, <1>3, <2>2
      <3>2. current.cmd.name \in ForMotor
        BY <3>1 DEF CmdInv, CallsOK
      <3> QED
        BY <1>1, <1>3, <3>1, <3>2
    <2> QED
      BY <2>1, <2>2 DEF Done
  <1>10. RepliesOK'
    <2>1. pc' = "hub"
      BY <1>1, NextRequest
    <2> QED
      BY <1>8, <1>9, <2>1 DEF RepliesOK
  <1>11. MotorAsTold'
    BY <1>1, <1>3, <1>4 DEF CmdInv, MotorAsTold
  <1> QED
    BY <1>6, <1>7, <1>10, <1>11 DEF CmdInv

LEMMA DeclineInv ==
    ASSUME CmdInv, Decline
    PROVE  CmdInv'
  <1> DEFINE r == Head(todo)
  <1>1. /\ todo # <<>> /\ todo' = Tail(todo)
        /\ UNCHANGED <<pc, bStatus, current, queue, told, asked, executed,
                       motor>>
    BY DEF Decline, objVars, moduleVars
  <1>2. \E status \in {CM_NAK, CM_REPLY_NO}, cost \in {0, 1} :
            SendSection(Section(<<>>, status), TRUE, cost)
    BY DEF Decline
  <1>3. PICK status \in {CM_NAK, CM_REPLY_NO}, cost \in {0, 1} :
            SendSection(Section(<<>>, status), TRUE, cost)
    BY <1>2
  <1>4. \/ reply' = Append(reply, Section(<<>>, status)) /\ forged' = forged
        \/ /\ \E s : reply' = Append(reply, s)
           /\ forged' = forged \cup {r.n}
    BY <1>3 DEF SendSection
  <1>5. /\ executed[current.n] = 0
        /\ todo' = <<>> => r.n = current.n
    BY <1>1, NextRequest
  <1> HIDE DEF r
  <1>6. Answered(asked)' => Answered(asked)
    BY <1>1, <1>4 DEF Answered
  <1>7. CallsOK'
    BY <1>1 DEF CmdInv, CallsOK
  <1>8. RequestsOK'
    BY <1>1, <1>5, <1>6, RequestsAfter
  <1>9. IsSeq(reply')
    BY <1>4, AppendIsSeq DEF CmdInv, RepliesOK
  <1>10. todo' = <<>> => current'.n \in forged' \/ Refused'
    <2>1. CASE reply' = Append(reply, Section(<<>>, status)) /\ forged' = forged
      <3>1. reply' # <<>> /\ Last(reply') = Section(<<>>, status)
        BY <2>1, AppendIsSeq DEF CmdInv, RepliesOK
      <3>2. StatusOf(Last(reply')) = status
        BY <3>1, RefusalStatus
      <3>3. status # CM_NORMAL
        BY DEF CM_NORMAL, CM_NAK, CM_REPLY_NO
      <3> QED
        BY <3>1, <3>2, <3>3 DEF Refused
    <2>2. CASE forged' = forged \cup {r.n}
      BY <1>1, <1>5, <2>2
    <2> QED
      BY <1>4, <2>1, <2>2
  <1>11. RepliesOK'
    <2>1. pc' = "hub"
      BY <1>1, NextRequest
    <2> QED
      BY <1>9, <1>10, <2>1 DEF RepliesOK
  <1>12. MotorAsTold'
    BY <1>1, <1>6 DEF CmdInv, MotorAsTold
  <1> QED
    BY <1>7, <1>8, <1>11, <1>12 DEF CmdInv

-----------------------------------------------------------------------------

\* What holds when the answer of the current call is all that changes.
LEMMA AnswerInv ==
    ASSUME CmdInv, NEW value \in {"TRUE", "FALSE"}, pc \in {"hub", "deliver"},
           Answer(current.cmd, current.n, value),
           UNCHANGED <<current, executed, asked, motor, forged>>,
           value = "TRUE" => Done \/ current.n \in forged
    PROVE  CallsOK' /\ MotorAsTold' /\ pc' \in {"idle", "config"}
  <1>1. current.n \in 1 .. MaxCalls /\ told[current.n] = "open"
    BY CommandsAssumption DEF CmdInv, CallsOK
  <1>2. /\ told' = [told EXCEPT ![current.n] = value]
        /\ pc' \in {"idle", "config"}
    BY DEF Answer
  <1>3. /\ told' \in [1 .. MaxCalls ->
                         {"none", "open", "TRUE", "FALSE", "unsent"}]
        /\ told'[current.n] = value
        /\ \A k \in 1 .. MaxCalls : k # current.n => told'[k] = told[k]
    BY <1>1, <1>2 DEF CmdInv, CallsOK
  <1>4. CallsOK'
    BY <1>2, <1>3 DEF CmdInv, CallsOK
  <1>5. MotorAsTold'
    <2> SUFFICES ASSUME Answered(asked)' PROVE motor = asked
      BY DEF MotorAsTold
    <2>1. asked > 0 /\ told'[asked] = "TRUE" /\ asked \notin forged
      BY DEF Answered
    <2>2. asked \in 1 .. MaxCalls
      BY <2>1, CommandsAssumption DEF CmdInv, CallsOK
    <2>3. CASE asked = current.n
      BY <1>3, <2>1, <2>3 DEF Done
    <2>4. CASE asked # current.n
      <3>1. Answered(asked)
        BY <1>3, <2>1, <2>2, <2>4 DEF Answered
      <3> QED
        BY <3>1 DEF CmdInv, MotorAsTold
    <2> QED
      BY <2>3, <2>4
  <1> QED
    BY <1>2, <1>4, <1>5

LEMMA FailInv ==
    ASSUME CmdInv, Fail
    PROVE  CmdInv'
  <1>1. /\ pc = "hub" /\ Answer(current.cmd, current.n, "FALSE")
        /\ UNCHANGED <<current, executed, asked, motor, forged, queue>>
        /\ todo' = <<>> /\ reply' = <<>>
    BY DEF Fail, moduleVars
  <1>2. CallsOK' /\ MotorAsTold' /\ pc' \in {"idle", "config"}
    BY <1>1, AnswerInv
  <1>3. /\ told' = [told EXCEPT ![current.n] = "FALSE"]
        /\ current.n \in 1 .. MaxCalls
    BY <1>1, CommandsAssumption DEF Answer, CmdInv, CallsOK
  <1>4. Answered(asked)' => Answered(asked)
    <2>1. asked \in 0 .. current.n /\ told \in [1 .. MaxCalls ->
                         {"none", "open", "TRUE", "FALSE", "unsent"}]
      BY DEF CmdInv, CallsOK
    <2>2. asked > 0 => asked \in 1 .. MaxCalls
      BY <1>3, <2>1, CommandsAssumption
    <2> QED
      BY <1>1, <1>3, <2>1, <2>2 DEF Answered
  <1>5. Waiting(queue)'
    <2> SUFFICES ASSUME NEW i \in DOMAIN queue
                 PROVE  /\ queue[i].n \in 1 .. current.n
                        /\ told'[queue[i].n] \in {"open", "FALSE"}
                        /\ queue[i].cmd.name \in ForMotor => ~Answered(asked)'
      BY <1>1 DEF Waiting
    <2>1. /\ queue[i].n \in 1 .. current.n
          /\ told[queue[i].n] \in {"open", "FALSE"}
          /\ queue[i].cmd.name \in ForMotor => ~Answered(asked)
      BY DEF CmdInv, RequestsOK, Waiting
    <2>2. told \in [1 .. MaxCalls ->
                         {"none", "open", "TRUE", "FALSE", "unsent"}]
      BY DEF CmdInv, CallsOK
    <2>3. \A k \in 1 .. current.n : k \in 1 .. MaxCalls
      BY <1>3, CommandsAssumption
    <2> QED
      BY <1>3, <1>4, <2>1, <2>2, <2>3
  <1>6. RequestsOK' /\ RepliesOK'
    <2>1. Waiting(todo)'
      BY <1>1 DEF Waiting
    <2> QED
      BY <1>1, <1>2, <1>5, <2>1, EmptyIsSeq DEF CmdInv, RequestsOK, RepliesOK
  <1> QED
    BY <1>2, <1>6 DEF CmdInv

LEMMA DeliverInv ==
    ASSUME CmdInv, Deliver
    PROVE  CmdInv'
  <1>1. /\ pc = "deliver" \/ (pc = "hub" /\ todo = <<>>)
        /\ reply # <<>> /\ reply' = Tail(reply) /\ pc' = "deliver"
        /\ Receive(Head(reply))
        /\ UNCHANGED <<current, queue, todo, executed, motor, told, forged,
                       asked>>
    BY DEF Deliver, moduleVars
  <1>2. todo = <<>>
    BY <1>1 DEF CmdInv, RequestsOK
  <1>3. CallsOK'
    BY <1>1 DEF CmdInv, CallsOK
  <1>4. Waiting(queue)' /\ Waiting(todo)' /\ MotorAsTold'
    BY <1>1, <1>2 DEF CmdInv, RequestsOK, Waiting, Answered, MotorAsTold
  <1>5. RequestsOK'
    BY <1>1, <1>2, <1>4 DEF CmdInv, RequestsOK
  <1>6. /\ IsSeq(reply')
        /\ Len(reply) = 1 => reply' = <<>> /\ Last(reply) = Head(reply)
        /\ Len(reply) # 1 => reply' # <<>> /\ Last(reply') = Last(reply)
    <2>1. IsSeq(reply)
      BY DEF CmdInv, RepliesOK
    <2> QED
      BY <1>1, <2>1, TailIsSeq
  <1>7. Refused => Refused'
    <2> SUFFICES ASSUME StatusOf(Last(reply)) # CM_NORMAL PROVE Refused'
      BY <1>1 DEF Refused
    <2>1. CASE Len(reply) = 1
      BY <1>1, <1>6, <2>1, ReceiveStatus DEF Refused
    <2>2. CASE Len(reply) # 1
      BY <1>6, <2>2 DEF Refused
    <2> QED
      BY <2>1, <2>2
  <1>8. Done \/ current.n \in forged \/ Refused
    BY <1>1 DEF CmdInv, RepliesOK
  <1>9. RepliesOK'
    BY <1>1, <1>6, <1>7, <1>8 DEF RepliesOK, Done
  <1> QED
    BY <1>3, <1>4, <1>5, <1>9 DEF CmdInv

\* When a call returns TRUE, its command was carried out, or its refusal
\* was damaged.
LEMMA TrueMeansDone ==
    ASSUME CmdInv, pc = "deliver", reply = <<>>, "TRUE" \in Results
    PROVE  Done \/ current.n \in forged
  <1>1. bStatus = CM_NORMAL
    BY DEF Results
  <1> QED
    BY <1>1 DEF CmdInv, RepliesOK, Refused

LEMMA ReturnInv ==
    ASSUME CmdInv, Return
    PROVE  CmdInv'
  <1>1. /\ pc = "deliver" /\ reply = <<>> /\ queue' = <<>>
        /\ UNCHANGED <<current, todo, reply, executed, motor, forged, asked>>
    BY DEF Return, moduleVars
  <1>2. PICK value \in Results : Answer(current.cmd, current.n, value)
    BY DEF Return
  <1>3. value \in {"TRUE", "FALSE"}
    BY <1>2 DEF Results
  <1>4. CallsOK' /\ MotorAsTold' /\ pc' \in {"idle", "config"}
    BY <1>1, <1>2, <1>3, TrueMeansDone, AnswerInv
  <1>5. todo = <<>>
    BY <1>1 DEF CmdInv, RequestsOK
  <1>6. Waiting(queue)' /\ Waiting(todo)'
    BY <1>1, <1>5 DEF Waiting
  <1>7. RequestsOK' /\ RepliesOK'
    BY <1>1, <1>4, <1>5, <1>6, EmptyIsSeq DEF RequestsOK, RepliesOK
  <1> QED
    BY <1>4, <1>7 DEF CmdInv

LEMMA StepCmdInv == CmdInv /\ [Next]_vars => CmdInv'
  <1> SUFFICES ASSUME CmdInv, [Next]_vars PROVE CmdInv'
    OBVIOUS
  <1>1. ASSUME NEW c, NEW arg, Call(c, arg) PROVE CmdInv'
    <2>1. pc \in {"idle", "config"} /\ Transceive(c, arg, cell.bID)
      BY <1>1 DEF Call
    <2> QED
      BY <2>1, TransceiveInv
  <1>2. ASSUME NEW i, Open(i) PROVE CmdInv'
    <2>1. pc \in {"idle", "config"} /\ Transceive(CommandOpen, 0, <<i>>)
      BY <1>2 DEF Open
    <2> QED
      BY <2>1, TransceiveInv
  <1>3. CASE OpenGoesOn
    <2>1. pc \in {"idle", "config"} /\ Transceive(CommandGetConfig, 0, cell.bID)
      BY <1>3 DEF OpenGoesOn
    <2> QED
      BY <2>1, TransceiveInv
  <1>4. CASE UNCHANGED vars
    <2>1. UNCHANGED <<pc, bStatus, current, queue, todo, reply, motor,
                      executed, told, forged, asked>>
      BY <1>4 DEF vars, objVars, moduleVars
    <2> QED
      BY <2>1
      DEF CmdInv, CallsOK, RequestsOK, RepliesOK, MotorAsTold, Waiting,
          Answered, Done, Refused
  <1> QED
    BY <1>1, <1>2, <1>3, <1>4, UnopenedInv, CarryInv, DeclineInv, FailInv,
       DeliverInv, ReturnInv
    DEF Next

LEMMA CmdInvariant == Spec => []CmdInv
  BY InitCmdInv, StepCmdInv, PTL DEF Spec

\* When the latest command for the motor was answered TRUE, the motor does
\* what it says, whatever requests failed before it and whatever other
\* commands follow: a confirmed Stop holds.
THEOREM MotorObeys == Spec => []MotorAsTold
  <1>1. CmdInv => MotorAsTold
    BY DEF CmdInv
  <1> QED
    BY <1>1, CmdInvariant, PTL

-----------------------------------------------------------------------------

\* An answer changes what its own caller is told.
LEMMA AsToldStep ==
    ASSUME CmdInv, NEW n \in 1 .. MaxCalls, NEW v,
           told' = [told EXCEPT ![n] = v], forged' = forged
    PROVE  AsTold' = [AsTold EXCEPT ![n] =
                         IF (n \in forged /\ v = "TRUE") \/ v = "unsent"
                         THEN "FALSE" ELSE v]
  BY DEF CmdInv, CallsOK, AsTold

LEMMA CallsService ==
    ASSUME CmdInv, NEW v \in {"open", "FALSE", "unsent"},
           current.n < MaxCalls, executed' = executed, forged' = forged,
           told' = [told EXCEPT ![current.n + 1] = v]
    PROVE  Service!Next
  <1> DEFINE n == current.n + 1
  <1>1. n \in 1 .. MaxCalls /\ told[n] = "none"
    <2>1. /\ current.n \in 0 .. MaxCalls
          /\ \A k \in 1 .. MaxCalls : k > current.n => told[k] = "none"
      BY DEF CmdInv, CallsOK
    <2>2. n \in 1 .. MaxCalls /\ n > current.n
      BY <2>1, CommandsAssumption
    <2> QED
      BY <2>1, <2>2
  <1>2. AsTold[n] = "none"
    BY <1>1 DEF AsTold
  <1>3. AsTold' = [AsTold EXCEPT ![n] = IF v = "unsent" THEN "FALSE" ELSE v]
    BY <1>1, AsToldStep
  <1> HIDE DEF n
  <1>4. Service!Ask(n) \/ Service!Refuse(n)
    BY <1>2, <1>3 DEF Service!Ask, Service!Refuse
  <1> QED
    BY <1>1, <1>4 DEF Service!Next

LEMMA AnswersService ==
    ASSUME CmdInv, NEW value \in {"TRUE", "FALSE"}, pc \in {"hub", "deliver"},
           told' = [told EXCEPT ![current.n] = value],
           executed' = executed, forged' = forged,
           value = "TRUE" => Done \/ current.n \in forged
    PROVE  Service!Next
  <1> DEFINE n == current.n
  <1>1. n \in 1 .. MaxCalls /\ told[n] = "open"
    BY CommandsAssumption DEF CmdInv, CallsOK
  <1>2. AsTold[n] = "open"
    BY <1>1 DEF AsTold
  <1>3. AsTold' = [AsTold EXCEPT ![n] =
                     IF n \in forged /\ value = "TRUE" THEN "FALSE" ELSE value]
    BY <1>1, AsToldStep
  <1>4. CASE value = "FALSE" \/ n \in forged
    <2>1. AsTold' = [AsTold EXCEPT ![n] = "FALSE"]
      BY <1>3, <1>4
    <2>2. Service!AnswerFalse(n)
      BY <1>2, <2>1 DEF Service!AnswerFalse
    <2> QED
      BY <1>1, <2>2 DEF Service!Next
  <1>5. CASE value = "TRUE" /\ n \notin forged
    <2>1. AsTold' = [AsTold EXCEPT ![n] = "TRUE"] /\ executed[n] = 1
      BY <1>3, <1>5 DEF Done
    <2>2. Service!AnswerTrue(n)
      BY <1>2, <2>1 DEF Service!AnswerTrue
    <2> QED
      BY <1>1, <2>2 DEF Service!Next
  <1> QED
    BY <1>4, <1>5

LEMMA CarryService ==
    ASSUME CmdInv, NEW status, Carry(status)
    PROVE  Service!Next
  <1> DEFINE n == Head(todo).n
  <1>1. /\ todo # <<>> /\ executed' = [executed EXCEPT ![n] = @ + 1]
        /\ told' = told /\ forged' = forged
    BY DEF Carry, SendSection
  <1>2. n \in 1 .. MaxCalls /\ told[n] \in {"open", "FALSE"}
    BY <1>1, NextRequest
  <1> HIDE DEF n
  <1>3. AsTold' = AsTold
    BY <1>1 DEF AsTold
  <1>4. AsTold[n] \in {"open", "FALSE"}
    BY <1>2 DEF AsTold
  <1>5. Service!Execute(n)
    BY <1>1, <1>3, <1>4 DEF Service!Execute
  <1> QED
    BY <1>2, <1>5 DEF Service!Next

\* A refusal tells the caller nothing yet, damaged or not.
LEMMA DeclineService ==
    ASSUME CmdInv, Decline
    PROVE  UNCHANGED <<AsTold, executed>>
  <1> DEFINE n == Head(todo).n
  <1>1. /\ todo # <<>> /\ executed' = executed /\ told' = told
        /\ forged' \in {forged, forged \cup {n}}
    BY DEF Decline, SendSection, moduleVars
  <1>2. told[n] # "TRUE"
    BY <1>1, NextRequest
  <1> HIDE DEF n
  <1>3. \A k \in 1 .. MaxCalls :
            (k \in forged' /\ told'[k] = "TRUE")
                <=> (k \in forged /\ told[k] = "TRUE")
    BY <1>1, <1>2
  <1>4. AsTold' = AsTold
    BY <1>1, <1>3 DEF AsTold
  <1> QED
    BY <1>1, <1>4

LEMMA StepOfService ==
    ASSUME CmdInv, [Next]_vars
    PROVE  [Service!Next]_<<AsTold, executed>>
  <1>1. ASSUME NEW c, NEW arg, NEW to, pc \in {"idle", "config"},
               Transceive(c, arg, to)
        PROVE  Service!Next
    <2>1. /\ current.n < MaxCalls
          /\ executed' = executed /\ forged' = forged
          /\ \E v \in {"open", "FALSE"} :
                 told' = [told EXCEPT ![current.n + 1] = v]
      BY <1>1 DEF Transceive, Answer, moduleVars
    <2> QED
      BY <2>1, CallsService
  <1>2. ASSUME NEW c, NEW arg, Call(c, arg) PROVE Service!Next
    <2>1. pc \in {"idle", "config"} /\ Transceive(c, arg, cell.bID)
      BY <1>2 DEF Call
    <2> QED
      BY <1>1, <2>1
  <1>3. ASSUME NEW i, Open(i) PROVE Service!Next
    <2>1. pc \in {"idle", "config"} /\ Transceive(CommandOpen, 0, <<i>>)
      BY <1>3 DEF Open
    <2> QED
      BY <1>1, <2>1
  <1>4. CASE OpenGoesOn
    <2>1. pc \in {"idle", "config"} /\ Transceive(CommandGetConfig, 0, cell.bID)
      BY <1>4 DEF OpenGoesOn
    <2> QED
      BY <1>1, <2>1
  <1>5. ASSUME NEW c, NEW arg, CallUnopened(c, arg) PROVE Service!Next
    <2>1. /\ current.n < MaxCalls
          /\ executed' = executed /\ forged' = forged
          /\ told' = [told EXCEPT ![current.n + 1] = "unsent"]
      BY <1>5 DEF CallUnopened, moduleVars
    <2> QED
      BY <2>1, CallsService
  <1>6. CASE Fail
    <2>1. /\ pc = "hub" /\ told' = [told EXCEPT ![current.n] = "FALSE"]
          /\ executed' = executed /\ forged' = forged
      BY <1>6 DEF Fail, Answer, moduleVars
    <2> QED
      BY <2>1, AnswersService
  <1>7. CASE Return
    <2>1. /\ pc = "deliver" /\ reply = <<>>
          /\ executed' = executed /\ forged' = forged
      BY <1>7 DEF Return, moduleVars
    <2>2. PICK value \in Results : told' = [told EXCEPT ![current.n] = value]
      BY <1>7 DEF Return, Answer
    <2>3. value \in {"TRUE", "FALSE"}
      BY <2>2 DEF Results
    <2> QED
      BY <2>1, <2>2, <2>3, TrueMeansDone, AnswersService
  <1>8. CASE Deliver \/ UNCHANGED vars
    <2>1. UNCHANGED <<told, executed, forged>>
      BY <1>8 DEF Deliver, vars, moduleVars
    <2> QED
      BY <2>1 DEF AsTold
  <1> QED
    BY <1>2, <1>3, <1>4, <1>5, <1>6, <1>7, <1>8, CarryService, DeclineService
    DEF Next

\* The commands implement CommandService: TRUE means carried out exactly
\* once, although a failed call leaves its request in the hub's queue and
\* every later call sends it again.
THEOREM CommandsImplementService == Spec => ImplementsService
  <1>1. Init => Service!Init
    BY DEF Init, Service!Init, AsTold
  <1> QED
    BY <1>1, CmdInvariant, StepOfService, PTL
    DEF Spec, ImplementsService, Service!Spec

LEMMA ServiceKeepsOnce ==
    ASSUME Service!TypeOK, Service!TrueMeansOnce,
           [Service!Next]_<<AsTold, executed>>
    PROVE  Service!TypeOK' /\ Service!TrueMeansOnce'
  <1> USE DEF Service!TypeOK, Service!TrueMeansOnce
  <1>1. CASE UNCHANGED <<AsTold, executed>>
    BY <1>1
  <1>2. ASSUME NEW n \in 1 .. MaxCalls, Service!Execute(n)
        PROVE  Service!TypeOK' /\ Service!TrueMeansOnce'
    BY <1>2 DEF Service!Execute
  <1>3. ASSUME NEW n \in 1 .. MaxCalls,
               \/ Service!Ask(n) \/ Service!Refuse(n)
               \/ Service!AnswerTrue(n) \/ Service!AnswerFalse(n)
        PROVE  Service!TypeOK' /\ Service!TrueMeansOnce'
    BY <1>3
    DEF Service!Ask, Service!Refuse, Service!AnswerTrue, Service!AnswerFalse
  <1> QED
    BY <1>1, <1>2, <1>3 DEF Service!Next

\* What the service promises holds of the commands: a command whose caller
\* was told TRUE has been carried out once, and stays so.
THEOREM CarriedOutOnce == Spec => []Service!TrueMeansOnce
  <1>1. Service!Init => Service!TypeOK /\ Service!TrueMeansOnce
    BY DEF Service!Init, Service!TypeOK, Service!TrueMeansOnce
  <1>2. Service!Spec => []Service!TrueMeansOnce
    BY <1>1, ServiceKeepsOnce, PTL DEF Service!Spec
  <1> QED
    BY <1>2, CommandsImplementService, PTL DEF ImplementsService
=============================================================================
