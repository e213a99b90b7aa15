---------------------------- MODULE ServerProofs ----------------------------
(***************************************************************************)
(* Proofs about main for all texts, samples, buffer contents and any       *)
(* number of failures: the second served exchange stops the motor, the     *)
(* filter never overshoots, and every variable keeps its type.             *)
(*                                                                         *)
(* StopsWithTheSecond is not inductive: the exchange drives what SetData   *)
(* loaded a cycle before.  OutputLoaded says when PwmBoard has caught up   *)
(* with a stop: after one served exchange, once SetData has run again.     *)
(* QueueLoaded says the same of the exchanges that wait in the hub's       *)
(* queue, which a failing exchange can still have executed.                *)
(*                                                                         *)
(* What std::stod makes of a text is a recursive function over its         *)
(* characters; that it is a number is proved by induction on sets of       *)
(* numbers.                                                                *)
(***************************************************************************)
EXTENDS Server, WellFoundedInduction, SequenceTheorems, TLAPS

QuietOK == quiet \in 0 .. 2

\* The output that the next exchange sends is 0.
OutputLoaded ==
    iVal = 0 /\ (quiet = 2 \/ (quiet = 1 /\ pc # "setData")) => sPwm = 0

\* The exchanges that wait in the hub's queue carry no other output.
QueueLoaded == iVal = 0 /\ quiet # 0 => queued \subseteq {0}

IInv == QuietOK /\ OutputLoaded /\ QueueLoaded /\ StopsWithTheSecond

LEMMA InitIInv == Init => IInv
  BY DEF Init, IInv, QuietOK, OutputLoaded, QueueLoaded, StopsWithTheSecond

\* The steps of main keep the invariant.
LEMMA MainIInv == IInv /\ MainNext => IInv'
  <1> SUFFICES ASSUME IInv, MainNext
               PROVE  IInv'
    OBVIOUS
  <1> USE DEF IInv, QuietOK, OutputLoaded, QueueLoaded, StopsWithTheSecond
  <1>1. CASE ExchangeServed
    BY <1>1 DEF ExchangeServed
  <1>2. CASE ExchangeFails
    BY <1>2 DEF ExchangeFails
  <1>3. CASE ExchangeRefused
    BY <1>3 DEF ExchangeRefused, moduleVars
  <1>4. CASE SetData
    BY <1>4 DEF SetData
  <1>5. CASE Recv
    BY <1>5 DEF Recv, moduleVars
  <1>6. CASE Abort
    BY <1>6 DEF Abort, moduleVars
  <1>7. CASE Handle
    <2>1. /\ pc = "handle" /\ pc' = "poll"
          /\ sPwm' = sPwm /\ motor' = motor /\ queued' = queued
      BY <1>7 DEF Handle, moduleVars
    <2>2. CASE iVal # 0 /\ iVal' = 0
      <3>1. quiet' = 0
        BY <1>7, <2>2 DEF Handle
      <3> QED
        BY <3>1
    <2>3. CASE ~(iVal # 0 /\ iVal' = 0)
      <3>1. quiet' = quiet
        BY <1>7, <2>3 DEF Handle
      <3> QED
        BY <2>1, <2>3, <3>1
    <2> QED
      BY <2>2, <2>3
  <1>8. CASE Poll
    BY <1>8 DEF Poll, moduleVars
  <1>9. CASE OpenHub \/ OpenModule \/ Accept
    BY <1>9 DEF OpenHub, OpenModule, Accept, moduleVars
  <1> QED
    BY <1>1, <1>2, <1>3, <1>4, <1>5, <1>6, <1>7, <1>8, <1>9 DEF MainNext

LEMMA NextIInv == IInv /\ [Next]_vars => IInv'
  <1> SUFFICES ASSUME IInv, [Next]_vars
               PROVE  IInv'
    OBVIOUS
  <1>1. CASE MainNext
    BY <1>1, MainIInv
  <1>2. CASE UNCHANGED <<pc, iVal, quiet, moduleVars>>
    BY <1>2
    DEF IInv, QuietOK, OutputLoaded, QueueLoaded, StopsWithTheSecond,
        moduleVars
  <1>3. CASE Connect \/ ClientSend \/ Disconnect \/ PressEsc \/ UNCHANGED vars
    BY <1>2, <1>3 DEF Connect, ClientSend, Disconnect, PressEsc, vars
  <1>4. CASE AcceptFails
    BY <1>4
    DEF AcceptFails, IInv, QuietOK, OutputLoaded, QueueLoaded,
        StopsWithTheSecond, moduleVars
  <1> QED
    BY <1>1, <1>3, <1>4 DEF Next

\* Whatever the client sends and however many exchanges fail, main drives
\* the motor with 0 from the second served exchange after a stop number on.
THEOREM StopIsObeyed == Spec => []StopsWithTheSecond
  <1>1. IInv => StopsWithTheSecond
    BY DEF IInv
  <1> QED
    BY <1>1, InitIInv, NextIInv, PTL DEF Spec

-----------------------------------------------------------------------------

\* The low-pass filter stays between its old value and the sample: its
\* truncation to int never overshoots.
LEMMA FilterLemma ==
    ASSUME NEW old \in Nat, NEW sample \in Nat
    PROVE  /\ Filter(old, sample) \in Nat
           /\ old <= sample => Filter(old, sample) \in old .. sample
           /\ sample <= old => Filter(old, sample) \in sample .. old
  BY DEF Filter

SamplesOK == wSensor \in Nat /\ Sensor \in Nat /\ read_Sensor \in Nat

LEMMA NextSamplesOK == SamplesOK /\ [Next]_vars => SamplesOK'
  <1> SUFFICES ASSUME SamplesOK, [Next]_vars
               PROVE  SamplesOK'
    OBVIOUS
  <1> USE DEF SamplesOK
  <1>1. CASE UNCHANGED <<wSensor, Sensor, read_Sensor>>
    BY <1>1
  <1>2. CASE ExchangeServed \/ ExchangeFails
    BY <1>2, ServerAssumption DEF ExchangeServed, ExchangeFails
  <1>3. CASE SetData
    BY <1>3 DEF SetData
  <1>4. CASE Handle
    <2>1. Filter(read_Sensor, Sensor) \in Nat
      BY FilterLemma
    <2> QED
      BY <1>4, <2>1 DEF Handle, moduleVars
  <1>5. CASE ExchangeRefused \/ Recv \/ Abort \/ Poll
    BY <1>1, <1>5 DEF ExchangeRefused, Recv, Abort, Poll, moduleVars
  <1>6. CASE Connect \/ ClientSend \/ Disconnect \/ PressEsc \/ UNCHANGED vars
    BY <1>1, <1>6
    DEF Connect, ClientSend, Disconnect, PressEsc, vars, moduleVars
  <1>7. CASE OpenHub \/ OpenModule \/ Accept \/ AcceptFails
    BY <1>1, <1>7 DEF OpenHub, OpenModule, Accept, AcceptFails, moduleVars
  <1> QED
    BY <1>2, <1>3, <1>4, <1>5, <1>6, <1>7 DEF Next, MainNext

\* What the client is told is never outside the range of the samples that
\* the exchanges brought.
THEOREM FilterNeverOvershoots == Spec => FilterBetween
  <1> DEFINE Between == \/ read_Sensor' \in read_Sensor .. Sensor
                        \/ read_Sensor' \in Sensor .. read_Sensor
  <1>1. Init => SamplesOK
    BY DEF Init, SamplesOK
  <1>2. SamplesOK /\ [Next]_vars => [Between]_vars
    <2> SUFFICES ASSUME SamplesOK, Next PROVE Between
      OBVIOUS
    <2>1. CASE read_Sensor' = read_Sensor
      BY <2>1 DEF SamplesOK
    <2>2. CASE Handle
      <3>1. read_Sensor' = Filter(read_Sensor, Sensor)
        BY <2>2 DEF Handle
      <3>2. read_Sensor \in Nat /\ Sensor \in Nat
        BY DEF SamplesOK
      <3>3. read_Sensor <= Sensor \/ Sensor <= read_Sensor
        BY <3>2
      <3> QED
        BY <3>1, <3>2, <3>3, FilterLemma
    <2>3. CASE Next /\ ~Handle
      BY <2>1, <2>3
      DEF Next, MainNext, OpenHub, OpenModule, Accept, AcceptFails,
          ExchangeServed, ExchangeFails, ExchangeRefused, SetData, Recv,
          Abort, Poll, Connect, ClientSend, Disconnect, PressEsc, moduleVars
    <2> QED
      BY <2>2, <2>3
  <1> QED
    BY <1>1, <1>2, NextSamplesOK, PTL DEF Spec, FilterBetween
-----------------------------------------------------------------------------

LEMMA LessInOrder ==
    ASSUME NEW i \in Nat, NEW j \in Nat
    PROVE  <<i, j>> \in OpToRel(<, Nat) <=> i < j
  BY DEF OpToRel

\* Induction for a set of numbers.
LEMMA NatSetInduction ==
    ASSUME NEW T \in SUBSET Nat, 0 \in T, \A n \in T : n + 1 \in T
    PROVE  T = Nat
  <1> DEFINE R == OpToRel(<, Nat)
  <1> DEFINE U == Nat \ T
  <1>1. SUFFICES ASSUME U # {} PROVE FALSE
    OBVIOUS
  <1>2. IsWellFoundedOn(R, Nat)
    BY NatLessThanWellFounded
  <1> HIDE DEF R
  <1>3. \E x \in U : \A y \in U : <<y, x>> \notin R
    BY <1>1, <1>2, WFMin
  <1> USE DEF R
  <1>4. PICK x \in U : \A y \in U : <<y, x>> \notin R
    BY <1>3
  <1>5. x # 0 /\ x - 1 \in Nat /\ x - 1 < x
    OBVIOUS
  <1>6. x - 1 \notin U
    BY <1>4, <1>5, LessInOrder
  <1> QED
    BY <1>5, <1>6

Character == Digit \cup {EndOfText}

\* What character i of a text makes of the value read so far.
Read(text, i, value) ==
    IF \E j \in 1 .. i : text[j] = EndOfText THEN value
    ELSE 10 * value + text[i]

LEMMA ReadIsNat ==
    ASSUME NEW s, NEW i \in Nat \ {0}, s[i] \in Character, NEW v \in Nat
    PROVE  Read(s, i, v) \in Nat
  <1>1. CASE s[i] = EndOfText
    BY <1>1 DEF Read
  <1>2. CASE s[i] # EndOfText
    <2>1. s[i] \in Nat
      BY <1>2 DEF Character, Digit
    <2> QED
      BY <2>1 DEF Read
  <1> QED
    BY <1>1, <1>2

LEMMA NumberIs ==
    ASSUME NEW s
    PROVE  Number(s) = (CHOOSE f : f = [i \in 0 .. Len(s) |->
                           IF i = 0 THEN 0 ELSE Read(s, i, f[i - 1])])[Len(s)]
  BY DEF Number, Read

\* The values that std::stod has read after each character.
LEMMA RunningValues ==
    ASSUME NEW s \in Seq(Character)
    PROVE  \E v \in [0 .. Len(s) -> Nat] :
              /\ v[0] = 0
              /\ \A i \in 1 .. Len(s) : v[i] = Read(s, i, v[i - 1])
  <1> DEFINE Values(k) == \E v \in [0 .. k -> Nat] :
                            /\ v[0] = 0
                            /\ \A i \in 1 .. k : v[i] = Read(s, i, v[i - 1])
  <1> DEFINE T == { k \in Nat : k <= Len(s) => Values(k) }
  <1>1. Values(0)
    <2>1. PICK v : v = [i \in 0 .. 0 |-> 0]
      OBVIOUS
    <2>2. v \in [0 .. 0 -> Nat] /\ v[0] = 0
      BY <2>1
    <2> QED
      BY <2>2
  <1>2. ASSUME NEW k \in Nat, k + 1 <= Len(s), Values(k)
        PROVE  Values(k + 1)
    <2>1. PICK v \in [0 .. k -> Nat] :
              /\ v[0] = 0
              /\ \A i \in 1 .. k : v[i] = Read(s, i, v[i - 1])
      BY <1>2
    <2>2. PICK w : w = [i \in 0 .. k + 1 |->
                          IF i = k + 1 THEN Read(s, k + 1, v[k]) ELSE v[i]]
      OBVIOUS
    <2>3. s[k + 1] \in Character /\ v[k] \in Nat
      BY <1>2
    <2>4. Read(s, k + 1, v[k]) \in Nat
      BY <2>3, ReadIsNat
    <2>5. w \in [0 .. k + 1 -> Nat] /\ w[0] = 0
      BY <2>1, <2>2, <2>4
    <2>6. ASSUME NEW i \in 1 .. k + 1
          PROVE  w[i] = Read(s, i, w[i - 1])
      BY <2>1, <2>2
    <2> QED
      BY <2>5, <2>6
  <1> HIDE DEF Values
  <1>3. T = Nat
    <2>1. 0 \in T
      BY <1>1
    <2>2. ASSUME NEW k \in T PROVE k + 1 \in T
      BY <1>2
    <2> HIDE DEF T
    <2>3. T \in SUBSET Nat
      BY DEF T
    <2> QED
      BY <2>1, <2>2, <2>3, NatSetInduction
  <1>4. Values(Len(s))
    BY <1>3
  <1> QED
    BY <1>4 DEF Values

LEMMA NumberReads ==
    ASSUME NEW s \in Seq(Character)
    PROVE  \E v \in [0 .. Len(s) -> Nat] :
              /\ v[0] = 0
              /\ \A i \in 1 .. Len(s) : v[i] = Read(s, i, v[i - 1])
              /\ Number(s) = v[Len(s)]
  <1> DEFINE n == Len(s)
  <1>1. PICK v \in [0 .. n -> Nat] :
              /\ v[0] = 0
              /\ \A i \in 1 .. n : v[i] = Read(s, i, v[i - 1])
    BY RunningValues
  <1> DEFINE Def(f) == f = [i \in 0 .. n |->
                         IF i = 0 THEN 0 ELSE Read(s, i, f[i - 1])]
  <1>2. Def(v)
    <2>1. n \in Nat
      OBVIOUS
    <2> HIDE DEF n
    <2>2. \A i \in 0 .. n : v[i] = IF i = 0 THEN 0 ELSE Read(s, i, v[i - 1])
      BY <1>1, <2>1
    <2> QED
      BY <1>1, <2>2
  <1>3. PICK f : f = CHOOSE g : Def(g)
    OBVIOUS
  <1>4. Def(f)
    BY <1>2, <1>3
  <1>5. Number(s) = f[n]
    BY <1>3, NumberIs
  <1> DEFINE T == { k \in Nat : k <= n => f[k] = v[k] }
  <1>6. n \in Nat
    OBVIOUS
  <1>7. f[0] = 0 /\ \A i \in 1 .. n : f[i] = Read(s, i, f[i - 1])
    BY <1>4, <1>6
  <1> HIDE DEF n, Def
  <1>8. T = Nat
    <2>1. 0 \in T
      BY <1>1, <1>7
    <2>2. ASSUME NEW k \in T PROVE k + 1 \in T
      <3> SUFFICES ASSUME k + 1 <= n PROVE f[k + 1] = v[k + 1]
        OBVIOUS
      <3>1. k \in Nat /\ k + 1 \in 1 .. n /\ f[k] = v[k] /\ (k + 1) - 1 = k
        BY <1>6
      <3>2. f[k + 1] = Read(s, k + 1, f[k]) /\ v[k + 1] = Read(s, k + 1, v[k])
        BY <1>1, <1>7, <3>1
      <3> QED
        BY <3>1, <3>2
    <2> HIDE DEF T
    <2>3. T \in SUBSET Nat
      BY DEF T
    <2> QED
      BY <2>1, <2>2, <2>3, NatSetInduction
  <1>9. f[n] = v[n]
    BY <1>6, <1>8
  <1> QED
    BY <1>1, <1>5, <1>9 DEF n

LEMMA NumberIsNat ==
    ASSUME NEW s \in Seq(Character)
    PROVE  Number(s) \in Nat
  <1>1. PICK v \in [0 .. Len(s) -> Nat] : Number(s) = v[Len(s)]
    BY NumberReads
  <1>2. Len(s) \in 0 .. Len(s)
    OBVIOUS
  <1> QED
    BY <1>1, <1>2

-----------------------------------------------------------------------------

LEMMA BufferIsText ==
    ASSUME TypeOK
    PROVE  /\ buffer \in Seq(Character) /\ Len(buffer) = BUFFER_SIZE
           /\ BUFFER_SIZE \in Nat \ {0}
           /\ \A i \in 1 .. BUFFER_SIZE : buffer[i] \in Character
  BY ServerAssumption DEF TypeOK, Character

LEMMA InitTypeOK == Init => TypeOK
  <1> SUFFICES ASSUME Init PROVE TypeOK
    OBVIOUS
  <1>1. buffer \in [1 .. BUFFER_SIZE -> Digit \cup {EndOfText}]
    BY ServerAssumption DEF Init
  <1>2. stream \in Seq(Digit) /\ sent \in Message \cup {<<>>}
    BY DEF Init
  <1>3. /\ retained \in 0 .. Capacity /\ faults \in 0 .. MaxFaults
        /\ quiet \in 0 .. 2 /\ queued \subseteq {0, Run}
        /\ wSensor \in Nat /\ Sensor \in Nat /\ read_Sensor \in Nat
        /\ receive_num \in Nat
    BY ServerAssumption DEF Init
  <1>4. /\ pc = "openHub" /\ bBoardID_PA = "unknown" /\ client = "none"
        /\ iVal = 0 /\ sPwm = 0 /\ motor \in {0, Run}
        /\ awaiting = FALSE /\ esc = FALSE
    BY DEF Init
  <1> QED
    BY <1>1, <1>2, <1>3, <1>4 DEF TypeOK

LEMMA ExchangeTypeOK ==
    ASSUME TypeOK, ExchangeServed \/ ExchangeFails \/ ExchangeRefused
    PROVE  TypeOK'
  <1>1. CASE ExchangeServed
    BY <1>1, ServerAssumption DEF ExchangeServed, TypeOK, clientVars
  <1>2. CASE ExchangeFails
    <2>1. retained' \in 0 .. Capacity /\ faults' \in 0 .. MaxFaults
      BY <1>2, ServerAssumption DEF ExchangeFails, TypeOK
    <2>2. queued' \subseteq {0, Run} /\ motor' \in {0, Run}
      BY <1>2 DEF ExchangeFails, TypeOK
    <2>3. wSensor' \in Nat
      BY <1>2, ServerAssumption DEF ExchangeFails, TypeOK
    <2> QED
      BY <1>2, <2>1, <2>2, <2>3 DEF ExchangeFails, TypeOK, clientVars
  <1>3. CASE ExchangeRefused
    BY <1>3 DEF ExchangeRefused, TypeOK, moduleVars, clientVars
  <1> QED
    BY <1>1, <1>2, <1>3

LEMMA RecvTypeOK ==
    ASSUME TypeOK, Recv
    PROVE  TypeOK'
  <1>1. /\ buffer' \in [1 .. BUFFER_SIZE -> Digit \cup {EndOfText}]
        /\ stream' \in Seq(Digit)
    <2>1. CASE UNCHANGED <<buffer, stream>>
      BY <2>1 DEF TypeOK
    <2>2. ASSUME NEW n \in 1 .. BUFFER_SIZE, n <= Len(stream),
                 buffer' = [i \in 1 .. BUFFER_SIZE |->
                                IF i <= n THEN stream[i] ELSE buffer[i]],
                 stream' = SubSeq(stream, n + 1, Len(stream))
          PROVE  /\ buffer' \in [1 .. BUFFER_SIZE -> Digit \cup {EndOfText}]
                 /\ stream' \in Seq(Digit)
      <3>1. stream \in Seq(Digit) /\ BUFFER_SIZE \in Nat
            /\ buffer \in [1 .. BUFFER_SIZE -> Digit \cup {EndOfText}]
        BY ServerAssumption DEF TypeOK
      <3>2. \A i \in 1 .. n : stream[i] \in Digit
        BY <2>2, <3>1
      <3>3. \A i \in 1 .. BUFFER_SIZE : i <= n => i \in 1 .. n
        BY <2>2, <3>1
      <3>4. buffer' \in [1 .. BUFFER_SIZE -> Digit \cup {EndOfText}]
        BY <2>2, <3>1, <3>2, <3>3
      <3>5. stream' \in Seq(Digit)
        BY <2>2, <3>1
      <3> QED
        BY <3>4, <3>5
    <2> QED
      BY <2>1, <2>2 DEF Recv
  <1> QED
    BY <1>1 DEF Recv, TypeOK, moduleVars

LEMMA HandleTypeOK ==
    ASSUME TypeOK, Handle
    PROVE  TypeOK'
  <1>1. Number(buffer) \in Nat
    BY BufferIsText, NumberIsNat
  <1>2. NextVal(Number(buffer)) \in {0, Run}
    BY <1>1 DEF NextVal, TypeOK
  <1>3. Filter(read_Sensor, Sensor) \in Nat
    BY FilterLemma DEF TypeOK
  <1>4. receive_num' \in Nat /\ iVal' \in {0, Run} /\ read_Sensor' \in Nat
        /\ quiet' \in 0 .. 2
    BY <1>1, <1>2, <1>3 DEF Handle, TypeOK
  <1> QED
    BY <1>4 DEF Handle, TypeOK, moduleVars

LEMMA ClientTypeOK ==
    ASSUME TypeOK, Connect \/ ClientSend \/ Disconnect \/ PressEsc
    PROVE  TypeOK'
  <1>1. CASE Connect \/ Disconnect
    <2>1. client' \in {"none", "connected", "gone"}
      BY <1>1 DEF Connect, Disconnect
    <2>2. UNCHANGED <<pc, bBoardID_PA, iVal, Sensor, read_Sensor, buffer,
                      receive_num, moduleVars, stream, sent, awaiting, esc,
                      faults, quiet>>
      BY <1>1 DEF Connect, Disconnect
    <2> QED
      BY <2>1, <2>2 DEF TypeOK, moduleVars
  <1>2. CASE ClientSend
    <2>1. PICK m \in Message : stream' = stream \o m /\ sent' = m
      BY <1>2 DEF ClientSend
    <2>2. m \in Seq(Digit)
      BY ServerAssumption
    <2>3. stream' \in Seq(Digit)
      BY <2>1, <2>2 DEF TypeOK
    <2> QED
      BY <1>2, <2>1, <2>3 DEF ClientSend, TypeOK, moduleVars
  <1>3. CASE PressEsc
    BY <1>3 DEF PressEsc, TypeOK, moduleVars, clientVars
  <1> QED
    BY <1>1, <1>2, <1>3

LEMMA NextTypeOK == TypeOK /\ [Next]_vars => TypeOK'
  <1> SUFFICES ASSUME TypeOK, [Next]_vars
               PROVE  TypeOK'
    OBVIOUS
  <1>1. CASE OpenHub \/ OpenModule \/ Accept \/ AcceptFails
    <2>1. /\ pc' \in {"openModule", "accept", "exchange", "closed"}
          /\ bBoardID_PA' \in Board \cup {"unknown"}
          /\ client' \in {"none", "connected", "gone"}
      BY <1>1
      DEF OpenHub, OpenModule, Accept, AcceptFails, TypeOK, clientVars
    <2>2. UNCHANGED <<iVal, Sensor, read_Sensor, buffer, receive_num,
                      moduleVars, stream, sent, awaiting, esc, faults, quiet>>
      BY <1>1 DEF OpenHub, OpenModule, Accept, AcceptFails, clientVars
    <2> QED
      BY <2>1, <2>2 DEF TypeOK, moduleVars
  <1>2. CASE ExchangeServed \/ ExchangeFails \/ ExchangeRefused
    BY <1>2, ExchangeTypeOK
  <1>3. CASE SetData
    BY <1>3 DEF SetData, TypeOK, clientVars
  <1>4. CASE Recv
    BY <1>4, RecvTypeOK
  <1>5. CASE Handle
    BY <1>5, HandleTypeOK
  <1>6. CASE Abort \/ Poll
    BY <1>6 DEF Abort, Poll, TypeOK, moduleVars, clientVars
  <1>7. CASE Connect \/ ClientSend \/ Disconnect \/ PressEsc
    BY <1>7, ClientTypeOK
  <1>8. CASE UNCHANGED vars
    BY <1>8 DEF vars, TypeOK, moduleVars, clientVars
  <1> QED
    BY <1>1, <1>2, <1>3, <1>4, <1>5, <1>6, <1>7, <1>8 DEF Next, MainNext

\* main keeps each of its variables in its type, whatever numbers come.
THEOREM TypeCorrect == Spec => []TypeOK
  BY InitTypeOK, NextTypeOK, PTL DEF Spec

=============================================================================
