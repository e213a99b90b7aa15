------------------------- MODULE ExchangeLoopProofs -------------------------
(***************************************************************************)
(* Proofs about ExchangeLoop, for all initial contents of iVal0 and iVal1, *)
(* any number of keys and any room in the hub's queue.                     *)
(***************************************************************************)
EXTENDS ExchangeLoop, TLAPS

\* What the loop has left in the queue, by the place it is at: nothing while
\* it goes round, and what failed last once it is left.
QueueInv ==
    /\ left \in Nat /\ retained \in Nat
    /\ pc \in {"keys", "exchange"} => retained <= left
    /\ QueueStaysOpen

\* ZeroAtEnd holds because zero is loaded when the last exchange is made.
ZeroInv ==
    /\ board \in {"pwm", "da", "pio"}
    /\ pc = "last" /\ board # "pio" => \A i \in DOMAIN out : out[i] = 0
    /\ ZeroAtEnd

LEMMA InitQueue == Init => QueueInv
  BY LoopAssumption DEF Init, QueueInv, QueueStaysOpen

LEMMA StepQueue == QueueInv /\ [Next]_vars => QueueInv'
<1> SUFFICES ASSUME QueueInv, [Next]_vars PROVE QueueInv'
  OBVIOUS
<1> USE DEF QueueInv, QueueStaysOpen
<1>1. CASE KeyAndSetData
  BY <1>1 DEF KeyAndSetData, queueVars
<1>2. CASE Turn
  <2>1. left' = left /\ pc = "exchange" /\ retained <= left
    BY <1>2 DEF Turn
  <2>2. loop' => result' /\ pc' = "keys"
    BY <1>2 DEF Turn
  <2>3. ~loop' => pc' = "zero"
    BY <1>2 DEF Turn
  <2>4. \/ retained' = 0
        \/ retained' \in {retained, retained + 1} /\ ~result'
    BY <1>2 DEF Turn, Served, Failed, Refused
  <2>5. QED
    BY <2>1, <2>2, <2>3, <2>4
<1>3. CASE ZeroData
  BY <1>3 DEF ZeroData, queueVars
<1>4. CASE LastExchange
  <2>1. left' = left /\ pc' = "done" /\ (loop' => result')
    BY <1>4 DEF LastExchange
  <2>2. \/ retained' = 0
        \/ retained' \in {retained, retained + 1} /\ ~result'
    BY <1>4 DEF LastExchange, Served, Failed, Refused
  <2>3. QED
    BY <2>1, <2>2
<1>5. CASE PressKey
  BY <1>5 DEF PressKey, queueVars
<1>6. CASE UNCHANGED vars
  BY <1>6 DEF vars, queueVars
<1>7. QED
  BY <1>1, <1>2, <1>3, <1>4, <1>5, <1>6 DEF Next, LoopNext

\* A failure ends the loop of Exchange(), so that the loop itself never
\* fills the hub's queue and zero can still be sent.
THEOREM LoopLeavesQueueOpen == Spec => []QueueStaysOpen
<1>1. QueueInv => QueueStaysOpen
  BY DEF QueueInv
<1>2. QED
  BY <1>1, InitQueue, StepQueue, PTL DEF Spec

-----------------------------------------------------------------------------

LEMMA ShortOfZero == Short(0) = 0
  BY DEF Short

LEMMA InitZero == Init => ZeroInv
  BY LoopAssumption DEF Init, ZeroInv, ZeroAtEnd

LEMMA StepZero == ZeroInv /\ [Next]_vars => ZeroInv'
<1> SUFFICES ASSUME ZeroInv, [Next]_vars PROVE ZeroInv'
  OBVIOUS
<1> USE DEF ZeroInv, ZeroAtEnd
<1>1. CASE KeyAndSetData
  BY <1>1 DEF KeyAndSetData
<1>2. CASE Turn
  BY <1>2 DEF Turn
<1>3. CASE ZeroData
  <2>1. CASE board = "pio"
    BY <1>3, <2>1 DEF ZeroData
  <2>2. CASE board = "pwm"
    <3>1. out' = <<0, 0>>
      BY <1>3, <2>2, ShortOfZero DEF ZeroData, Loaded
    <3>2. QED
      BY <1>3, <3>1 DEF ZeroData
  <2>3. CASE board = "da"
    <3>1. out' = <<0>>
      BY <1>3, <2>3, ShortOfZero DEF ZeroData, Loaded
    <3>2. QED
      BY <1>3, <3>1 DEF ZeroData
  <2>4. QED
    BY <2>1, <2>2, <2>3
<1>4. CASE LastExchange
  BY <1>4 DEF LastExchange, Served, Failed, Refused
<1>5. CASE PressKey
  BY <1>5 DEF PressKey
<1>6. CASE UNCHANGED vars
  BY <1>6 DEF vars
<1>7. QED
  BY <1>1, <1>2, <1>3, <1>4, <1>5, <1>6 DEF Next, LoopNext

\* Whatever way the loop is left, a module with a PWM or DA board has zero
\* at its outputs when the exchange behind the loop has returned TRUE.
THEOREM ZeroIsSent == Spec => []ZeroAtEnd
<1>1. ZeroInv => ZeroAtEnd
  BY DEF ZeroInv
<1>2. QED
  BY <1>1, InitZero, StepZero, PTL DEF Spec

-----------------------------------------------------------------------------

\* The data word of a PIO board is zero or has all ten pins set.
PioWords == {<<0>>, <<1023>>}

TypeInv == TypeOK /\ (board = "pio" => out \in PioWords)

LEMMA InRegister ==
    ASSUME NEW k \in Int, -32768 <= k, k <= 32767
    PROVE  k \in Register
<1>1. ShortMin \in Int /\ ShortMax \in Int /\ ShortMin <= k /\ k <= ShortMax
  BY DEF ShortMin, ShortMax
<1>2. QED
  BY <1>1 DEF Register

LEMMA ShortInRange ==
    ASSUME NEW i \in Int
    PROVE  Short(i) \in Register
<1> DEFINE r == (i + 32768) % 65536
<1>1. r \in Int /\ 0 <= r /\ r <= 65535
  OBVIOUS
<1>2. Short(i) = r - 32768
  BY DEF Short
<1> HIDE DEF r
<1>3. r - 32768 \in Int /\ -32768 <= r - 32768 /\ r - 32768 <= 32767
  BY <1>1
<1>4. QED
  BY <1>2, <1>3, InRegister

LEMMA PioWordsFit == PioWords \subseteq Seq(Register)
<1>1. 0 \in Register /\ 1023 \in Register
  BY InRegister
<1>2. QED
  BY <1>1 DEF PioWords

LEMMA LoadedInRange ==
    ASSUME TypeInv, NEW v0 \in Int, NEW v1 \in Int
    PROVE  /\ Loaded(v0, v1) \in Seq(Register)
           /\ board = "pio" => Loaded(v0, v1) \in PioWords
<1>1. board \in {"pwm", "da", "pio"}
  BY LoopAssumption DEF TypeInv, TypeOK
<1>2. CASE board = "pwm"
  BY <1>2, ShortInRange DEF Loaded
<1>3. CASE board = "da"
  BY <1>3, ShortInRange DEF Loaded
<1>4. CASE board = "pio"
  <2>1. 1023 - out[1] \in {0, 1023}
    <3>1. out = <<0>> \/ out = <<1023>>
      BY <1>4 DEF TypeInv, PioWords
    <3>2. out[1] = 0 \/ out[1] = 1023
      BY <3>1
    <3>3. QED
      BY <3>2
  <2>2. Loaded(v0, v1) = <<1023 - out[1]>>
    BY <1>4 DEF Loaded
  <2>3. Loaded(v0, v1) \in PioWords
    BY <2>1, <2>2 DEF PioWords
  <2>4. QED
    BY <2>3, PioWordsFit
<1>5. QED
  BY <1>1, <1>2, <1>3, <1>4

LEMMA InitType == Init => TypeInv
<1> SUFFICES ASSUME Init PROVE TypeInv
  OBVIOUS
<1>1. out \in {<<0>>, <<0, 0>>} /\ driven = out
      /\ (board = "pio" => out = <<0>>)
  BY DEF Init, ZeroRegisters
<1>2. out \in Seq(Register)
  <2>1. 0 \in Register
    BY InRegister
  <2>2. <<0>> \in Seq(Register) /\ <<0, 0>> \in Seq(Register)
    BY <2>1
  <2>3. QED
    BY <1>1, <2>2
<1>3. left \in 0 .. MaxLeft /\ retained \in 0 .. Capacity
  BY LoopAssumption DEF Init
<1>4. board = "pio" => out \in PioWords
  BY <1>1 DEF PioWords
<1>5. /\ pc \in {"keys", "exchange", "zero", "last", "done"}
      /\ loop \in BOOLEAN /\ result \in BOOLEAN
      /\ iVal0 \in Int /\ iVal1 \in Int /\ board \in Board
      /\ queued \subseteq Seq(Register)
      /\ keys \in Seq(Key) /\ pressed \in Nat
  BY LoopAssumption DEF Init
<1>6. QED
  BY <1>1, <1>2, <1>3, <1>4, <1>5 DEF TypeInv, TypeOK

\* The exchange drives registers that were loaded, and counts what it leaves
\* in the hub's queue.
LEMMA ExchangeTypes ==
    ASSUME TypeInv, Served \/ Failed \/ Refused
    PROVE  /\ driven' \in Seq(Register)
           /\ retained' \in 0 .. Capacity
           /\ queued' \subseteq Seq(Register)
           /\ result' \in BOOLEAN
<1>0. /\ Capacity \in Nat /\ retained \in 0 .. Capacity
      /\ out \in Seq(Register) /\ driven \in Seq(Register)
      /\ queued \subseteq Seq(Register)
  BY LoopAssumption DEF TypeInv, TypeOK
<1>1. CASE Served
  BY <1>0, <1>1 DEF Served
<1>2. CASE Failed
  <2>1. retained' \in 0 .. Capacity
    BY <1>0, <1>2 DEF Failed
  <2>2. driven' \in Seq(Register) /\ queued' \subseteq Seq(Register)
    BY <1>0, <1>2 DEF Failed
  <2>3. QED
    BY <1>2, <2>1, <2>2 DEF Failed
<1>3. CASE Refused
  BY <1>0, <1>3 DEF Refused
<1>4. QED
  BY <1>1, <1>2, <1>3

LEMMA StepType == TypeInv /\ [Next]_vars => TypeInv'
<1> SUFFICES ASSUME TypeInv, [Next]_vars PROVE TypeInv'
  OBVIOUS
<1>1. CASE KeyAndSetData
  <2>1. ASSUME NEW key \in Key PROVE Adjusted(key) \in Int
    BY DEF Adjusted, Key, TypeInv, TypeOK
  <2>2. iVal0' \in Int /\ loop' \in BOOLEAN /\ keys' \in Seq(Key)
    <3>1. CASE keys = <<>>
      BY <1>1, <3>1 DEF KeyAndSetData, TypeInv, TypeOK
    <3>2. CASE keys # <<>>
      <4>1. Head(keys) \in Key /\ Tail(keys) \in Seq(Key)
        BY <3>2 DEF TypeInv, TypeOK
      <4>2. QED
        BY <1>1, <2>1, <3>2, <4>1 DEF KeyAndSetData
    <3>3. QED
      BY <3>1, <3>2
  <2>3. /\ out' \in Seq(Register)
        /\ board = "pio" => out' \in PioWords
    <3>1. out' = Loaded(iVal0', iVal1) /\ iVal1 \in Int
      BY <1>1 DEF KeyAndSetData, TypeInv, TypeOK
    <3>2. QED
      BY <2>2, <3>1, LoadedInRange
  <2>4. QED
    BY <1>1, <2>2, <2>3 DEF KeyAndSetData, queueVars, TypeInv, TypeOK
<1>2. CASE Turn \/ LastExchange
  <2>1. Served \/ Failed \/ Refused
    BY <1>2 DEF Turn, LastExchange
  <2>2. /\ driven' \in Seq(Register)
        /\ retained' \in 0 .. Capacity
        /\ queued' \subseteq Seq(Register)
        /\ result' \in BOOLEAN
    BY <2>1, ExchangeTypes
  <2>3. /\ loop' \in BOOLEAN
        /\ pc' \in {"keys", "exchange", "zero", "last", "done"}
        /\ UNCHANGED <<valVars, board, out, left, keyVars>>
    BY <1>2, <2>2 DEF Turn, LastExchange
  <2>4. QED
    BY <2>2, <2>3 DEF valVars, keyVars, TypeInv, TypeOK
<1>3. CASE ZeroData
  <2>1. /\ out' \in Seq(Register)
        /\ board = "pio" => out' \in PioWords
    BY <1>3, LoadedInRange DEF ZeroData
  <2>2. QED
    BY <1>3, <2>1
    DEF ZeroData, valVars, queueVars, keyVars, TypeInv, TypeOK
<1>4. CASE PressKey
  <2>1. keys' \in Seq(Key) /\ pressed' \in Nat
    BY <1>4 DEF PressKey, TypeInv, TypeOK
  <2>2. QED
    BY <1>4, <2>1 DEF PressKey, valVars, queueVars, TypeInv, TypeOK
<1>5. CASE UNCHANGED vars
  BY <1>5 DEF vars, valVars, queueVars, keyVars, TypeInv, TypeOK
<1>6. QED
  BY <1>1, <1>2, <1>3, <1>4, <1>5 DEF Next, LoopNext

\* The registers always fit their 16 bits, and the queue count its queue.
THEOREM LoopTypeCorrect == Spec => []TypeOK
<1>1. TypeInv => TypeOK
  BY DEF TypeInv
<1>2. QED
  BY <1>1, InitType, StepType, PTL DEF Spec
=============================================================================
