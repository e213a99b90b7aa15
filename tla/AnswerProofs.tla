----------------------------- MODULE AnswerProofs ----------------------------
(***************************************************************************)
(* Proofs of what the answers to its commands leave in a CM001 object, for *)
(* any set of commands, ids and faults.                                    *)
(*                                                                         *)
(* First the checksum: the sum of a section with one damaged byte is not   *)
(* the one that the section carries.  The sum is a recursive function over *)
(* the bytes; facts about it are proved by induction on sets of numbers,   *)
(* which rests on the well-founded order of the natural numbers.           *)
(*                                                                         *)
(* Then the object: every answer that its checksum lets through is the     *)
(* payload of a request of the frame, and the last one is the caller's.    *)
(* Last the id: while there is no doubt about it, no frame changes it on   *)
(* one side only.                                                          *)
(***************************************************************************)
EXTENDS CommandsProofs, WellFoundedInduction, SequenceTheorems

LEMMA LessInOrder ==
    ASSUME NEW i \in Nat, NEW j \in Nat
    PROVE  <<i, j>> \in OpToRel(<, Nat) <=> i < j
  BY DEF OpToRel

\* Induction for a set of numbers.
LEMMA NatSetInduction ==
    ASSUME NEW T \in SUBSET Nat, 0 \in T, \A n \in T : n + 1 \in T
    PROVE  T = Nat
  <1> DEFINE R == OpToRel(<, Nat)
  <1> DEFINE U == Nat \ T
  <1>1. SUFFICES ASSUME U # {} PROVE FALSE
    OBVIOUS
  <1>2. IsWellFoundedOn(R, Nat)
    BY NatLessThanWellFounded
  <1> HIDE DEF R
  <1>3. \E x \in U : \A y \in U : <<y, x>> \notin R
    BY <1>1, <1>2, WFMin
  <1> USE DEF R
  <1>4. PICK x \in U : \A y \in U : <<y, x>> \notin R
    BY <1>3
  <1>5. x # 0 /\ x - 1 \in Nat /\ x - 1 < x
    OBVIOUS
  <1>6. x - 1 \notin U
    BY <1>4, <1>5, LessInOrder
  <1> QED
    BY <1>5, <1>6

-----------------------------------------------------------------------------

LEMMA PlusIs ==
    ASSUME NEW a \in Byte, NEW b \in Byte
    PROVE  /\ Plus(a, b) = IF a + b < 256 THEN a + b ELSE a + b - 256
           /\ Plus(a, b) \in Byte
  <1>1. a \in Int /\ b \in Int /\ 0 <= a + b /\ a + b <= 510
    BY DEF Byte
  <1>2. PICK x : x = a + b
    OBVIOUS
  <1>3. x \in 0 .. 510
    BY <1>1, <1>2
  <1>4. x % 256 = IF x < 256 THEN x ELSE x - 256
    BY <1>3
  <1>5. Plus(a, b) = IF x < 256 THEN x ELSE x - 256
    BY <1>2, <1>4 DEF Plus
  <1>6. Plus(a, b) \in Byte
    BY <1>3, <1>5 DEF Byte
  <1> QED
    BY <1>1, <1>2, <1>5, <1>6

LEMMA PlusOfThree ==
    ASSUME NEW a \in Byte, NEW d \in Byte, NEW x \in Byte,
           NEW p, NEW q, NEW r,
           p = Plus(a, d), q = Plus(a, x), r = Plus(x, d)
    PROVE  Plus(p, x) = Plus(q, d) /\ Plus(a, r) = Plus(q, d)
  <1>1. /\ p \in Byte /\ q \in Byte /\ r \in Byte
        /\ p = IF a + d < 256 THEN a + d ELSE a + d - 256
        /\ q = IF a + x < 256 THEN a + x ELSE a + x - 256
        /\ r = IF x + d < 256 THEN x + d ELSE x + d - 256
    BY PlusIs
  <1>2. /\ Plus(p, x) = IF p + x < 256 THEN p + x ELSE p + x - 256
        /\ Plus(q, d) = IF q + d < 256 THEN q + d ELSE q + d - 256
        /\ Plus(a, r) = IF a + r < 256 THEN a + r ELSE a + r - 256
    <2>1. p \in Byte /\ q \in Byte /\ r \in Byte
      BY <1>1
    <2> QED
      BY <2>1, PlusIs
  <1>3. /\ {a, d, x, p, q, r} \subseteq Int
        /\ 0 <= a /\ a < 256 /\ 0 <= d /\ d < 256 /\ 0 <= x /\ x < 256
    BY <1>1 DEF Byte
  <1> QED
    BY <1>1, <1>2, <1>3

\* Adding bytes is associative, and their order does not matter: what a byte
\* is changed by, the sums behind it are changed by.
LEMMA PlusAssoc ==
    ASSUME NEW a \in Byte, NEW x \in Byte, NEW d \in Byte
    PROVE  Plus(a, Plus(x, d)) = Plus(Plus(a, x), d)
  <1>1. PICK p, q, r : p = Plus(a, d) /\ q = Plus(a, x) /\ r = Plus(x, d)
    OBVIOUS
  <1>2. Plus(a, r) = Plus(q, d)
    BY <1>1, PlusOfThree
  <1> QED
    BY <1>1, <1>2

LEMMA PlusSwap ==
    ASSUME NEW a \in Byte, NEW d \in Byte, NEW x \in Byte
    PROVE  Plus(Plus(a, d), x) = Plus(Plus(a, x), d)
  <1>1. PICK p, q, r : p = Plus(a, d) /\ q = Plus(a, x) /\ r = Plus(x, d)
    OBVIOUS
  <1>2. Plus(p, x) = Plus(q, d)
    BY <1>1, PlusOfThree
  <1> QED
    BY <1>1, <1>2

LEMMA Changed ==
    ASSUME NEW a \in Byte, NEW d \in 1 .. 255
    PROVE  Plus(a, d) # a /\ Plus(a, d) \in Byte
  <1>1. d \in Byte /\ a \in 0 .. 255
    BY DEF Byte
  <1>2. /\ Plus(a, d) = IF a + d < 256 THEN a + d ELSE a + d - 256
        /\ Plus(a, d) \in Byte
    BY <1>1, PlusIs
  <1> QED
    BY <1>1, <1>2

LEMMA SumIs ==
    ASSUME NEW b
    PROVE  Sum(b) = (CHOOSE f : f = [i \in 0 .. Len(b) |->
                         IF i = 0 THEN 0 ELSE Plus(f[i - 1], b[i])])[Len(b)]
  BY DEF Sum

LEMMA RunningSums ==
    ASSUME NEW b \in Seq(Byte)
    PROVE  \E s \in [0 .. Len(b) -> Byte] :
              /\ s[0] = 0
              /\ \A i \in 1 .. Len(b) : s[i] = Plus(s[i - 1], b[i])
  <1> DEFINE Sums(k) == \E s \in [0 .. k -> Byte] :
                            /\ s[0] = 0
                            /\ \A i \in 1 .. k : s[i] = Plus(s[i - 1], b[i])
  <1> DEFINE T == { k \in Nat : k <= Len(b) => Sums(k) }
  <1>1. Sums(0)
    <2>1. PICK s : s = [i \in 0 .. 0 |-> 0]
      OBVIOUS
    <2>2. s \in [0 .. 0 -> Byte] /\ s[0] = 0
      BY <2>1 DEF Byte
    <2> QED
      BY <2>2
  <1>2. ASSUME NEW k \in Nat, k + 1 <= Len(b), Sums(k)
        PROVE  Sums(k + 1)
    <2>1. PICK s \in [0 .. k -> Byte] :
              /\ s[0] = 0
              /\ \A i \in 1 .. k : s[i] = Plus(s[i - 1], b[i])
      BY <1>2
    <2>2. PICK t : t = [i \in 0 .. k + 1 |->
                          IF i = k + 1 THEN Plus(s[k], b[k + 1]) ELSE s[i]]
      OBVIOUS
    <2>3. b[k + 1] \in Byte /\ s[k] \in Byte
      BY <1>2
    <2>4. Plus(s[k], b[k + 1]) \in Byte
      BY <2>3, PlusIs
    <2>5. t \in [0 .. k + 1 -> Byte] /\ t[0] = 0
      BY <2>1, <2>2, <2>4
    <2>6. ASSUME NEW i \in 1 .. k + 1
          PROVE  t[i] = Plus(t[i - 1], b[i])
      BY <2>1, <2>2
    <2> QED
      BY <2>5, <2>6
  <1> HIDE DEF Sums
  <1>3. T = Nat
    <2>1. 0 \in T
      BY <1>1
    <2>2. ASSUME NEW k \in T PROVE k + 1 \in T
      BY <1>2
    <2> HIDE DEF T
    <2>3. T \in SUBSET Nat
      BY DEF T
    <2> QED
      BY <2>1, <2>2, <2>3, NatSetInduction
  <1>4. Sums(Len(b))
    BY <1>3
  <1> QED
    BY <1>4 DEF Sums

LEMMA SumRuns ==
    ASSUME NEW b \in Seq(Byte)
    PROVE  \E s \in [0 .. Len(b) -> Byte] :
              /\ s[0] = 0
              /\ \A i \in 1 .. Len(b) : s[i] = Plus(s[i - 1], b[i])
              /\ Sum(b) = s[Len(b)]
  <1> DEFINE n == Len(b)
  <1>1. PICK s \in [0 .. n -> Byte] :
              /\ s[0] = 0
              /\ \A i \in 1 .. n : s[i] = Plus(s[i - 1], b[i])
    BY RunningSums
  <1> DEFINE Def(f) == f = [i \in 0 .. n |->
                         IF i = 0 THEN 0 ELSE Plus(f[i - 1], b[i])]
  <1>2. Def(s)
    <2>1. n \in Nat
      OBVIOUS
    <2> HIDE DEF n
    <2>2. \A i \in 0 .. n : s[i] = IF i = 0 THEN 0 ELSE Plus(s[i - 1], b[i])
      BY <1>1, <2>1
    <2> QED
      BY <1>1, <2>2
  <1>3. PICK f : f = CHOOSE g : Def(g)
    OBVIOUS
  <1>4. Def(f)
    BY <1>2, <1>3
  <1>5. Sum(b) = f[n]
    BY <1>3, SumIs
  <1> DEFINE T == { k \in Nat : k <= n => f[k] = s[k] }
  <1>6. n \in Nat
    OBVIOUS
  <1>7. /\ f[0] = 0
        /\ \A i \in 1 .. n : f[i] = Plus(f[i - 1], b[i])
    BY <1>4, <1>6
  <1> HIDE DEF n, Def
  <1>8. T = Nat
    <2>1. 0 \in T
      BY <1>1, <1>7
    <2>2. ASSUME NEW k \in T PROVE k + 1 \in T
      <3> SUFFICES ASSUME k + 1 <= n PROVE f[k + 1] = s[k + 1]
        OBVIOUS
      <3>1. k \in Nat /\ k + 1 \in 1 .. n /\ f[k] = s[k] /\ (k + 1) - 1 = k
        BY <1>6
      <3>2. f[k + 1] = Plus(f[k], b[k + 1]) /\ s[k + 1] = Plus(s[k], b[k + 1])
        BY <1>1, <1>7, <3>1
      <3> QED
        BY <3>1, <3>2
    <2> HIDE DEF T
    <2>3. T \in SUBSET Nat
      BY DEF T
    <2> QED
      BY <2>1, <2>2, <2>3, NatSetInduction
  <1>9. f[n] = s[n]
    BY <1>6, <1>8
  <1> QED
    BY <1>1, <1>5, <1>9 DEF n

\* A byte that is changed by d changes the sum by d.
LEMMA DamagedSum ==
    ASSUME NEW b \in Seq(Byte), NEW k \in 1 .. Len(b), NEW d \in 1 .. 255
    PROVE  /\ Sum(b) \in Byte
           /\ Sum([b EXCEPT ![k] = Plus(@, d)]) = Plus(Sum(b), d)
  <1> DEFINE n == Len(b)
  <1>1. PICK c : c = [b EXCEPT ![k] = Plus(@, d)]
    OBVIOUS
  <1>2. /\ c \in Seq(Byte) /\ Len(c) = n /\ c[k] = Plus(b[k], d)
        /\ \A i \in 1 .. n : i # k => c[i] = b[i]
        /\ n \in Nat /\ \A i \in 1 .. n : b[i] \in Byte
    <2>1. b[k] \in Byte
      OBVIOUS
    <2>2. Plus(b[k], d) \in Byte /\ Plus(b[k], d) # b[k]
      BY <2>1, Changed
    <2> QED
      BY <1>1, <2>2
  <1>3. PICK s \in [0 .. n -> Byte] :
            /\ s[0] = 0
            /\ \A i \in 1 .. n : s[i] = Plus(s[i - 1], b[i])
            /\ Sum(b) = s[n]
    BY SumRuns
  <1>4. PICK t \in [0 .. n -> Byte] :
            /\ t[0] = 0
            /\ \A i \in 1 .. n : t[i] = Plus(t[i - 1], c[i])
            /\ Sum(c) = t[n]
    <2> HIDE DEF n
    <2> QED
      BY <1>2, SumRuns
  <1> DEFINE T == { i \in Nat : i <= n =>
                      t[i] = IF i < k THEN s[i] ELSE Plus(s[i], d) }
  <1> HIDE DEF n
  <1>5. k \in 1 .. n
    BY DEF n
  <1>6. T = Nat
    <2>1. 0 \in T
      BY <1>3, <1>4, <1>5
    <2>2. d \in Byte
      BY DEF Byte
    <2>3. ASSUME NEW i \in T PROVE i + 1 \in T
      <3> SUFFICES ASSUME i + 1 <= n
                   PROVE  t[i + 1] = IF i + 1 < k THEN s[i + 1]
                                     ELSE Plus(s[i + 1], d)
        OBVIOUS
      <3>1. /\ i \in 0 .. n /\ i + 1 \in 1 .. n /\ (i + 1) - 1 = i
            /\ t[i] = IF i < k THEN s[i] ELSE Plus(s[i], d)
        BY <1>2
      <3>2. /\ s[i + 1] = Plus(s[i], b[i + 1])
            /\ t[i + 1] = Plus(t[i], c[i + 1])
            /\ s[i] \in Byte /\ b[i + 1] \in Byte
        BY <1>2, <1>3, <1>4, <3>1
      <3>3. CASE i + 1 < k
        <4>1. c[i + 1] = b[i + 1] /\ t[i] = s[i]
          BY <1>2, <1>5, <3>1, <3>3
        <4> QED
          BY <3>2, <3>3, <4>1
      <3>4. CASE i + 1 = k
        <4>1. c[i + 1] = Plus(b[i + 1], d) /\ t[i] = s[i]
          BY <1>2, <1>5, <3>1, <3>4
        <4>2. Plus(s[i], Plus(b[i + 1], d))
                  = Plus(Plus(s[i], b[i + 1]), d)
          BY <2>2, <3>2, PlusAssoc
        <4>3. t[i + 1] = Plus(s[i + 1], d)
          BY <3>2, <4>1, <4>2
        <4>4. ~(i + 1 < k)
          BY <1>5, <3>1, <3>4
        <4> QED
          BY <4>3, <4>4
      <3>5. CASE i + 1 > k
        <4>1. c[i + 1] = b[i + 1] /\ t[i] = Plus(s[i], d)
          BY <1>2, <1>5, <3>1, <3>5
        <4>2. Plus(Plus(s[i], d), b[i + 1])
                  = Plus(Plus(s[i], b[i + 1]), d)
          BY <2>2, <3>2, PlusSwap
        <4>3. t[i + 1] = Plus(s[i + 1], d)
          BY <3>2, <4>1, <4>2
        <4>4. ~(i + 1 < k)
          BY <1>5, <3>1, <3>5
        <4> QED
          BY <4>3, <4>4
      <3> QED
        BY <3>1, <1>5, <3>3, <3>4, <3>5
    <2> HIDE DEF T
    <2>4. T \in SUBSET Nat
      BY DEF T
    <2> QED
      BY <2>1, <2>3, <2>4, NatSetInduction
  <1>7. t[n] = Plus(s[n], d)
    BY <1>2, <1>5, <1>6
  <1> QED
    BY <1>1, <1>2, <1>3, <1>4, <1>7

-----------------------------------------------------------------------------

\* What a section is made of.
LEMMA SectionFacts ==
    ASSUME NEW p \in Seq(Byte), NEW status \in Byte,
           NEW s, s = Section(p, status)
    PROVE  /\ s \in Seq(Byte) /\ Len(s) = Len(p) + 2 /\ Len(p) \in Nat
           /\ CheckSum(s)
           /\ StatusOf(s) = status /\ DataOf(s) = p
  <1>1. PICK q : q = Append(p, status)
    OBVIOUS
  <1>2. /\ q \in Seq(Byte) /\ Len(q) = Len(p) + 1 /\ Len(p) \in Nat
        /\ q[Len(p) + 1] = status
        /\ \A i \in 1 .. Len(p) : q[i] = p[i]
    BY <1>1, AppendProperties
  <1>3. PICK sum : sum = Sum(q)
    OBVIOUS
  <1>4. sum \in Byte
    BY <1>2, <1>3, SumRuns
  <1>5. s = Append(q, sum)
    BY <1>1, <1>3 DEF Section, AddCheckSum
  <1>6. /\ s \in Seq(Byte) /\ Len(s) = Len(p) + 2
        /\ s[Len(p) + 2] = sum
        /\ \A i \in 1 .. Len(p) + 1 : s[i] = q[i]
    BY <1>2, <1>4, <1>5, AppendProperties
  <1>7. SubSeq(s, 1, Len(p) + 1) = q
    BY <1>2, <1>6
  <1>8. SubSeq(s, 1, Len(p)) = p
    BY <1>2, <1>6
  <1>9. CheckSum(s)
    <2>1. Len(s) - 1 = Len(p) + 1
      BY <1>2, <1>6
    <2>2. Front(s) = q /\ Last(s) = sum
      BY <1>6, <1>7, <2>1 DEF Front, Last
    <2> QED
      BY <1>3, <2>2 DEF CheckSum
  <1>10. StatusOf(s) = status
    <2>1. Len(s) - 1 = Len(p) + 1 /\ Len(p) + 1 \in 1 .. Len(p) + 1
      BY <1>2, <1>6
    <2> QED
      BY <1>2, <1>6, <2>1 DEF StatusOf
  <1>11. DataOf(s) = p
    <2>1. Len(s) - 2 = Len(p)
      BY <1>2, <1>6
    <2> QED
      BY <1>8, <2>1 DEF DataOf
  <1> QED
    BY <1>2, <1>6, <1>9, <1>10, <1>11

\* ControlModule::CheckSum finds every section of which one byte has come
\* with another value, be it data, status or the checksum itself.
THEOREM DamageFound ==
    ASSUME NEW s \in Seq(Byte), Len(s) > 0, CheckSum(s),
           NEW k \in 1 .. Len(s), NEW d \in 1 .. 255
    PROVE  ~CheckSum([s EXCEPT ![k] = Plus(@, d)])
  <1>1. PICK t : t = [s EXCEPT ![k] = Plus(@, d)]
    OBVIOUS
  <1>2. PICK n : n = Len(s)
    OBVIOUS
  <1>3. /\ n \in Nat \ {0} /\ k \in 1 .. n
        /\ s[k] \in Byte /\ s[n] \in Byte
    BY <1>2
  <1>4. Plus(s[k], d) \in Byte /\ Plus(s[k], d) # s[k]
    BY <1>3, Changed
  <1>5. /\ t \in Seq(Byte) /\ Len(t) = n /\ t[k] = Plus(s[k], d)
        /\ \A i \in 1 .. n : i # k => t[i] = s[i]
    BY <1>1, <1>2, <1>4
  <1>6. PICK b : b = SubSeq(s, 1, n - 1)
    OBVIOUS
  <1>7. PICK c : c = SubSeq(t, 1, n - 1)
    OBVIOUS
  <1>8. /\ b \in Seq(Byte) /\ Len(b) = n - 1
        /\ \A i \in 1 .. n - 1 : b[i] = s[i]
    BY <1>2, <1>3, <1>6
  <1>9. /\ c \in Seq(Byte) /\ Len(c) = n - 1
        /\ \A i \in 1 .. n - 1 : c[i] = t[i]
    BY <1>3, <1>5, <1>7
  <1>10. CheckSum(s) <=> s[n] = Sum(b)
    BY <1>2, <1>6 DEF CheckSum, Front, Last
  <1>11. CheckSum(t) <=> t[n] = Sum(c)
    BY <1>5, <1>7 DEF CheckSum, Front, Last
  <1>12. CASE k = n
    <2>1. c = b
      BY <1>3, <1>5, <1>8, <1>9, <1>12
    <2> QED
      BY <1>1, <1>4, <1>5, <1>10, <1>11, <1>12, <2>1
  <1>13. CASE k # n
    <2>1. k \in 1 .. Len(b)
      BY <1>3, <1>8, <1>13
    <2>2. c = [b EXCEPT ![k] = Plus(@, d)]
      BY <1>3, <1>5, <1>8, <1>9, <1>13, <2>1, SMTT(15)
    <2>3. Sum(b) \in Byte /\ Sum(c) = Plus(Sum(b), d)
      <3>1. /\ Sum(b) \in Byte
            /\ Sum([b EXCEPT ![k] = Plus(@, d)]) = Plus(Sum(b), d)
        BY <1>8, <2>1, DamagedSum
      <3> QED
        BY <2>2, <3>1
    <2>4. Sum(c) # Sum(b)
      BY <2>3, Changed
    <2> QED
      BY <1>1, <1>3, <1>5, <1>10, <1>11, <1>13, <2>4
  <1> QED
    BY <1>12, <1>13

-----------------------------------------------------------------------------

Place == {"bID", "bVersion", "Data", "config", "board", "local", "caller",
          "stack"}

LEMMA CommandFacts ==
    ASSUME NEW c \in AllCommands
    PROVE  /\ c.code \in Byte /\ c.rx \in Nat
           /\ c.dest \in Place \cup {"none"} /\ (c.rx > 0 => c.dest \in Place)
           /\ c.rx = 16 => c = CommandExchange
           /\ c.name \in Echoed => c.rx = 1 /\ c.dest = "local"
           /\ c.name = "CM_GET_ID" => c.rx = 1
           /\ c.dest = "bID" <=> c.name = "CM_GET_ID"
           /\ c.name = "CM_GET_VER" => c.rx = 1
           /\ c.name = "CM001_GET_CONFIG" <=> c = CommandGetConfig
           /\ c = CommandGetConfig => c.rx = 6 /\ c.dest = "local"
           /\ c.name = "CM_SET_ID" => c.rx = 0
           /\ c.name = "CM_OPEN" <=> c = CommandOpen
           /\ c.dest \notin {"board", "config"}
  <1> USE DEF Command, Place, Echoed, Byte, CommandExchange,
              CommandGetConfig, CommandOpen, SizeOfFloat, SizeOfCmParam,
              SizeOfCtrlParam, SizeOfMotorParam, SizeOfData, SizeOfSensor
  <1>1. CASE c \in BaseCommands
    BY <1>1 DEF BaseCommands
  <1>2. CASE c \in MotorCommands
    BY <1>2 DEF MotorCommands
  <1>3. CASE c \in {CommandOpen, CommandGetConfig, CommandExchange}
    BY <1>3
  <1> QED
    BY <1>1, <1>2, <1>3 DEF AllCommands

LEMMA ThreeCommands ==
    /\ CommandExchange \in AllCommands /\ CommandExchange.rx = 16
    /\ CommandExchange.dest = "local"
    /\ CommandExchange.name = "CM001_EXCHANGE"
    /\ CommandGetConfig \in AllCommands /\ CommandOpen \in AllCommands
    /\ CommandGetConfig.name = "CM001_GET_CONFIG"
    /\ CommandOpen.name = "CM_OPEN"
    /\ CommandGetConfig # CommandExchange /\ CommandOpen # CommandExchange
  BY DEF AllCommands, CommandExchange, CommandGetConfig, CommandOpen, Command,
         SizeOfSensor

\* What a command is answered with, at any time within the frame of call n.
Payloads(c, n) == IF c.name = "CM_GET_ID" THEN { <<i>> : i \in Id }
                  ELSE { Payload(c, n) }

LEMMA PayloadFacts ==
    ASSUME NEW c \in AllCommands, NEW n \in 1 .. MaxCalls, id \in Id
    PROVE  /\ Payload(c, n) \in Seq(Byte) /\ Len(Payload(c, n)) = c.rx
           /\ Payload(c, n) \in Genuine
           /\ Payload(c, n) \in Payloads(c, n)
           /\ Payloads(c, n) \subseteq Genuine
           /\ c.name = "CM_GET_ID" => Payload(c, n) = <<id>>
           /\ c.name = "CM001_EXCHANGE" => Payload(c, n) = Pattern(c, n)
  <1>1. n \in Byte /\ c.code \in Byte /\ c.rx \in Nat /\ id \in Byte
    <2>1. n \in Byte
      BY StampAssumption DEF Byte
    <2> QED
      BY <2>1, CommandFacts, CommandsAssumption
  <1>2. CASE c.name \in Echoed
    <2>1. Payload(c, n) = <<c.code>> /\ c.rx = 1 /\ c.name # "CM_GET_ID"
          /\ c.name # "CM001_EXCHANGE"
      BY <1>2, CommandFacts DEF Payload, Echoed
    <2>2. <<c.code>> \in Genuine
      BY <1>2 DEF Genuine
    <2> QED
      BY <1>1, <2>1, <2>2 DEF Payloads
  <1>3. CASE c.name = "CM_GET_ID"
    <2>1. Payload(c, n) = <<id>> /\ c.rx = 1
      BY <1>3, CommandFacts DEF Payload, Echoed
    <2>2. <<id>> \in Genuine /\ { <<i>> : i \in Id } \subseteq Genuine
      BY DEF Genuine
    <2> QED
      BY <1>1, <1>3, <2>1, <2>2 DEF Payloads
  <1>4. CASE c.name = "CM_GET_VER"
    <2>1. Payload(c, n) = <<Version>> /\ c.rx = 1 /\ Version \in Byte
      BY <1>4, CommandFacts, CommandsAssumption DEF Payload, Echoed
    <2>2. <<Version>> \in Genuine
      BY DEF Genuine
    <2> QED
      BY <1>4, <2>1, <2>2 DEF Payloads
  <1>5. CASE c.name = "CM001_GET_CONFIG"
    <2>1. Payload(c, n) = Config /\ c.rx = 6
      BY <1>5, CommandFacts DEF Payload, Echoed
    <2>2. Config \in Seq(Byte) /\ Len(Config) = 6
      <3>1. Config = [i \in 1 .. 6 |-> Config[i]]
            /\ \A i \in 1 .. 6 : Config[i] \in Byte
        BY CommandsAssumption
      <3> QED
        BY <3>1
    <2>3. Config \in Genuine
      BY DEF Genuine
    <2> QED
      BY <1>5, <2>1, <2>2, <2>3 DEF Payloads
  <1>6. CASE c.name \notin Echoed \cup {"CM_GET_ID", "CM_GET_VER",
                                        "CM001_GET_CONFIG"}
    <2>1. Payload(c, n) = Pattern(c, n)
      BY <1>6 DEF Payload
    <2>2. Pattern(c, n) \in Seq(Byte) /\ Len(Pattern(c, n)) = c.rx
      BY <1>1 DEF Pattern
    <2>3. Pattern(c, n) \in Genuine
      BY DEF Genuine
    <2> QED
      BY <1>6, <2>1, <2>2, <2>3 DEF Payloads
  <1> QED
    BY <1>2, <1>3, <1>4, <1>5, <1>6

-----------------------------------------------------------------------------

\* The types of what CmdInv says nothing of.
DataType ==
    /\ opened \in BOOLEAN /\ ExtMode \in BOOLEAN /\ suspect \in BOOLEAN
    /\ bStatus \in Byte /\ wReqRxSize \in Nat
    /\ reply \in Seq(Seq(Byte))
    /\ id \in Id /\ motor \in 0 .. MaxCalls
    /\ forged \subseteq 1 .. MaxCalls /\ faults \in 0 .. MaxFaults

Proper(r) == r.cmd \in AllCommands /\ (r.cmd.name = "CM_SET_ID" => r.arg \in Id)

InFrame == pc \in {"hub", "deliver"}

\* Data that the checksum lets through is the payload of a request of the
\* frame.
Accounted(s) ==
    CheckSum(s) /\ Len(s) > 2 =>
        \E j \in DOMAIN queue :
            /\ Len(s) = queue[j].cmd.rx + 2
            /\ DataOf(s) \in Payloads(queue[j].cmd, current.n)

DataOK ==
    /\ Proper(current)
    /\ \A i \in DOMAIN queue : Proper(queue[i])
    /\ \A i \in DOMAIN todo : \E j \in DOMAIN queue : todo[i] = queue[j]
    /\ cell \in [Place -> Genuine]
    /\ pc # "idle" => opened
    /\ ~InFrame => reply = <<>>
    /\ \A i \in DOMAIN reply : Len(reply[i]) >= 2 /\ Accounted(reply[i])

DataInv == CmdInv /\ DataType /\ DataOK

LEMMA DataInvType == DataInv => TypeOK /\ NothingDamaged
  <1> SUFFICES ASSUME DataInv PROVE TypeOK /\ NothingDamaged
    OBVIOUS
  <1>1. asked \in 0 .. MaxCalls
    BY CommandsAssumption DEF DataInv, CmdInv, CallsOK
  <1>2. TypeOK
    BY <1>1 DEF DataInv, CmdInv, CallsOK, DataType, TypeOK
  <1>3. NothingDamaged
    BY DEF DataInv, DataOK, NothingDamaged
  <1> QED
    BY <1>2, <1>3

LEMMA GenuineFacts ==
    /\ Unwritten \in Genuine
    /\ {Zeros(1), Zeros(6), Zeros(SizeOfSensor), Zeros(SizeOfData)}
           \subseteq Genuine
    /\ \A i \in Id : <<i>> \in Genuine
  BY DEF Genuine

LEMMA InitDataInv == Init => DataInv
  <1> SUFFICES ASSUME Init PROVE DataInv
    OBVIOUS
  <1>1. CmdInv
    BY InitCmdInv
  <1>2. DataType
    <2>1. /\ CM_NORMAL \in Byte /\ reply \in Seq(Seq(Byte))
          /\ 0 \in 0 .. MaxCalls /\ 0 \in 0 .. MaxFaults
      BY CommandsAssumption DEF Init, CM_NORMAL, Byte
    <2> QED
      BY <2>1 DEF Init, DataType
  <1>3. DataOK
    <2>1. Proper(current)
      BY ThreeCommands DEF Init, Proper
    <2>2. cell \in [Place -> Genuine]
      BY GenuineFacts DEF Init, Place
    <2> QED
      BY <2>1, <2>2 DEF Init, DataOK, InFrame
  <1> QED
    BY <1>1, <1>2, <1>3 DEF DataInv

-----------------------------------------------------------------------------

LEMMA NewLocalsFacts ==
    ASSUME cell \in [Place -> Genuine]
    PROVE  /\ NewLocals \in [Place -> Genuine]
           /\ \A i \in Id : [NewLocals EXCEPT !.bID = <<i>>] \in [Place -> Genuine]
           /\ [NewLocals EXCEPT !.config = Unwritten] \in [Place -> Genuine]
  BY GenuineFacts DEF NewLocals, Place

\* What the start of a command changes.
LEMMA TransceiveEffect ==
    ASSUME DataInv, NEW c, NEW arg, NEW to, Transceive(c, arg, to)
    PROVE  LET n == current.n + 1
               r == [cmd |-> c, arg |-> arg, to |-> to, n |-> n]
           IN
           /\ current' = [cmd |-> c, arg |-> arg, n |-> n,
                          armed |-> ExtMode /\ c # CommandExchange]
           /\ ExtMode' = (ExtMode \/ c = CommandExchange)
           /\ wReqRxSize' = c.rx + 2 /\ pReserveBuffer' = c.dest
           /\ n \in 1 .. MaxCalls
           /\ UNCHANGED <<bStatus, reply, id, motor, executed, forged, faults>>
           /\ suspect' \in BOOLEAN
           /\ \/ /\ Answer(c, n, "FALSE")
                 /\ pc' = IF c.name = "CM_OPEN" THEN "config" ELSE "idle"
                 /\ UNCHANGED <<queue, todo>>
              \/ /\ queue' = Append(queue, r) /\ todo' = queue'
                 /\ pc' = "hub" /\ suspect' = suspect
  <1>1. current.n + 1 \in 1 .. MaxCalls
    BY CommandsAssumption DEF Transceive, DataInv, CmdInv, CallsOK
  <1>2. suspect \in BOOLEAN
    BY DEF DataInv, DataType
  <1>3. Answer(c, current.n + 1, "FALSE") => suspect' \in BOOLEAN
    BY <1>2 DEF Answer, MixesBytes
  <1> QED
    BY <1>1, <1>2, <1>3 DEF Transceive, moduleVars, Answer

LEMMA TransceiveData ==
    ASSUME DataInv, CmdInv', NEW c \in AllCommands, NEW arg, NEW to,
           c.name = "CM_SET_ID" => arg \in Id,
           ~InFrame, Transceive(c, arg, to),
           opened', opened' \in BOOLEAN, cell' \in [Place -> Genuine]
    PROVE  DataInv'
  <1> DEFINE n == current.n + 1
             r == [cmd |-> c, arg |-> arg, to |-> to, n |-> n]
  <1>1. /\ current' = [cmd |-> c, arg |-> arg, n |-> n,
                       armed |-> ExtMode /\ c # CommandExchange]
        /\ ExtMode' = (ExtMode \/ c = CommandExchange)
        /\ wReqRxSize' = c.rx + 2
        /\ UNCHANGED <<bStatus, reply, id, motor, executed, forged, faults>>
        /\ suspect' \in BOOLEAN
        /\ \/ UNCHANGED <<queue, todo>>
           \/ queue' = Append(queue, r) /\ todo' = queue'
    BY TransceiveEffect
  <1>2. c.rx + 2 \in Nat
    BY CommandFacts
  <1>3. DataType'
    BY <1>1, <1>2 DEF DataInv, DataType
  <1>4. reply = <<>> /\ IsSeq(queue)
    BY DEF DataInv, DataOK, CmdInv, RequestsOK
  <1>5. Proper(current') /\ Proper(r)
    BY <1>1 DEF Proper
  <1> HIDE DEF r
  <1>6. /\ \A i \in DOMAIN queue' : Proper(queue'[i])
        /\ \A i \in DOMAIN todo' : \E j \in DOMAIN queue' : todo'[i] = queue'[j]
    <2>1. CASE UNCHANGED <<queue, todo>>
      BY <2>1 DEF DataInv, DataOK
    <2>2. CASE queue' = Append(queue, r) /\ todo' = queue'
      <3>1. /\ Len(queue) \in Nat /\ DOMAIN queue = 1 .. Len(queue)
            /\ DOMAIN queue' = 1 .. Len(queue) + 1
            /\ queue'[Len(queue) + 1] = r
            /\ \A i \in 1 .. Len(queue) : queue'[i] = queue[i]
        BY <1>4, <2>2, AppendIsSeq
      <3>2. \A i \in 1 .. Len(queue) : Proper(queue[i])
        BY <3>1 DEF DataInv, DataOK
      <3>3. \A i \in 1 .. Len(queue) + 1 : Proper(queue'[i])
        BY <1>5, <3>1, <3>2
      <3> QED
        BY <2>2, <3>1, <3>3
    <2> QED
      BY <1>1, <2>1, <2>2
  <1>7. DataOK'
    BY <1>1, <1>4, <1>5, <1>6 DEF DataOK, Proper
  <1> QED
    BY <1>3, <1>7 DEF DataInv

LEMMA UnopenedData ==
    ASSUME DataInv, CmdInv', NEW c \in AllCommands, NEW arg,
           c.name = "CM_SET_ID" => arg \in Id, CallUnopened(c, arg)
    PROVE  DataInv'
  <1>1. /\ current'.cmd = c /\ current'.arg = arg /\ pc = "idle"
        /\ ExtMode' = (ExtMode \/ c = CommandExchange)
        /\ UNCHANGED <<pc, opened, bStatus, wReqRxSize, queue, todo, reply,
                       id, motor, forged, suspect, faults>>
    BY DEF CallUnopened, moduleVars
  <1>2. cell' \in [Place -> Genuine]
    <2>1. cell \in [Place -> Genuine]
      BY DEF DataInv, DataOK
    <2>2. \/ c.name = "CM_SET_ID" /\ cell' = [NewLocals EXCEPT !.bID = <<arg>>]
          \/ cell' = [NewLocals EXCEPT !.config = Unwritten]
          \/ cell' = NewLocals
      <3>1. CASE c.name = "CM_SET_ID"
        BY <3>1, ThreeCommands DEF CallUnopened
      <3>2. CASE c = CommandGetConfig
        BY <3>2, ThreeCommands DEF CallUnopened
      <3>3. CASE c.name # "CM_SET_ID" /\ c # CommandGetConfig
        BY <3>3 DEF CallUnopened
      <3> QED
        BY <3>1, <3>2, <3>3
    <2> QED
      BY <2>1, <2>2, NewLocalsFacts
  <1>3. DataType'
    BY <1>1 DEF DataInv, DataType
  <1>4. DataOK'
    BY <1>1, <1>2 DEF DataInv, DataOK, Proper, InFrame
  <1> QED
    BY <1>3, <1>4 DEF DataInv

-----------------------------------------------------------------------------

\* What the hub passes on of the answer of a module.
LEMMA SentSection ==
    ASSUME NEW p \in Seq(Byte), NEW status \in Byte, NEW refusal \in BOOLEAN,
           NEW cost \in {0, 1}, faults \in Nat,
           SendSection(Section(p, status), refusal, cost)
    PROVE  \E s \in Seq(Byte) :
               /\ reply' = Append(reply, s) /\ Len(s) = Len(p) + 2
               /\ CheckSum(s) => DataOf(s) = p
               /\ \/ forged' = forged /\ StatusOf(s) = status
                  \/ forged' = IF refusal THEN forged \cup {Head(todo).n}
                               ELSE forged
               /\ faults' \in Nat
  <1>1. PICK s : s = Section(p, status)
    OBVIOUS
  <1>2. /\ s \in Seq(Byte) /\ Len(s) = Len(p) + 2 /\ Len(p) \in Nat
        /\ CheckSum(s) /\ StatusOf(s) = status /\ DataOf(s) = p
    BY <1>1, SectionFacts
  <1>3. CASE reply' = Append(reply, s) /\ faults' = faults + cost
             /\ forged' = forged
    BY <1>2, <1>3
  <1>4. CASE /\ \E i \in {1, Len(s) - 1, Len(s)}, d \in Damage :
                    reply' = Append(reply, [s EXCEPT ![i] = Plus(@, d)])
             /\ faults' = faults + cost + 1
             /\ forged' = IF refusal THEN forged \cup {Head(todo).n}
                          ELSE forged
    <2>1. PICK i \in {1, Len(s) - 1, Len(s)}, d \in Damage :
              reply' = Append(reply, [s EXCEPT ![i] = Plus(@, d)])
      BY <1>4
    <2>2. i \in 1 .. Len(s) /\ d \in 1 .. 255 /\ Len(s) > 0
      BY <1>2, <2>1 DEF Damage
    <2>3. PICK t : t = [s EXCEPT ![i] = Plus(@, d)]
      OBVIOUS
    <2>4. ~CheckSum(t)
      BY <1>2, <2>2, <2>3, DamageFound
    <2>5. t \in Seq(Byte) /\ Len(t) = Len(s)
      <3>1. s[i] \in Byte
        BY <1>2, <2>2
      <3>2. Plus(s[i], d) \in Byte
        BY <2>2, <3>1, Changed
      <3> QED
        BY <1>2, <2>2, <2>3, <3>2
    <2>6. faults' \in Nat
      BY <1>4
    <2> QED
      BY <1>2, <1>4, <2>1, <2>3, <2>4, <2>5, <2>6
  <1> QED
    BY <1>1, <1>3, <1>4 DEF SendSection

LEMMA AccountedStays ==
    ASSUME NEW s, Accounted(s), UNCHANGED <<queue, current>>
    PROVE  Accounted(s)'
  <1> SUFFICES ASSUME CheckSum(s), Len(s) > 2
               PROVE  \E j \in DOMAIN queue :
                          /\ Len(s) = queue[j].cmd.rx + 2
                          /\ DataOf(s) \in Payloads(queue[j].cmd, current.n)'
    BY DEF Accounted
  <1>1. PICK j \in DOMAIN queue :
            /\ Len(s) = queue[j].cmd.rx + 2
            /\ DataOf(s) \in Payloads(queue[j].cmd, current.n)
    BY DEF Accounted
  <1>2. Payloads(queue[j].cmd, current.n)' = Payloads(queue[j].cmd, current.n)
    BY DEF Payloads, Payload
  <1> QED
    BY <1>1, <1>2

\* A section more.
LEMMA RepliesData ==
    ASSUME DataInv, NEW s \in Seq(Byte), Len(s) >= 2, Accounted(s),
           reply' = Append(reply, s), UNCHANGED <<queue, current>>
    PROVE  /\ reply' \in Seq(Seq(Byte))
           /\ \A i \in DOMAIN reply' :
                  Len(reply'[i]) >= 2 /\ Accounted(reply[i])'
  <1>1. reply \in Seq(Seq(Byte))
    BY DEF DataInv, DataType
  <1>2. /\ reply' \in Seq(Seq(Byte)) /\ Len(reply) \in Nat
        /\ DOMAIN reply = 1 .. Len(reply)
        /\ DOMAIN reply' = 1 .. Len(reply) + 1
        /\ reply'[Len(reply) + 1] = s
        /\ \A i \in 1 .. Len(reply) : reply'[i] = reply[i]
    BY <1>1
  <1>3. ASSUME NEW i \in DOMAIN reply'
        PROVE  Len(reply'[i]) >= 2 /\ Accounted(reply[i])'
    <2>1. Len(reply'[i]) >= 2 /\ Accounted(reply'[i])
      <3>1. CASE i = Len(reply) + 1
        BY <1>2, <3>1
      <3>2. CASE i # Len(reply) + 1
        <4>1. i \in DOMAIN reply /\ reply'[i] = reply[i]
          BY <1>2, <1>3, <3>2
        <4> QED
          BY <4>1 DEF DataInv, DataOK
      <3> QED
        BY <3>1, <3>2
    <2>2. PICK t : t = reply'[i]
      OBVIOUS
    <2>3. Accounted(t)'
      BY <2>1, <2>2, AccountedStays
    <2> QED
      BY <2>1, <2>2, <2>3 DEF Accounted
  <1> QED
    BY <1>2, <1>3

\* The next request of the frame, and those behind it.
LEMMA NextData ==
    ASSUME DataInv, todo # <<>>
    PROVE  /\ \E j \in DOMAIN queue : Head(todo) = queue[j]
           /\ Proper(Head(todo))
           /\ \A i \in DOMAIN Tail(todo) :
                  \E j \in DOMAIN queue : Tail(todo)[i] = queue[j]
  <1>1. IsSeq(todo)
    BY DEF DataInv, CmdInv, RequestsOK
  <1>2. /\ Len(todo) \in Nat \ {0} /\ DOMAIN todo = 1 .. Len(todo)
        /\ Head(todo) = todo[1]
        /\ DOMAIN Tail(todo) = 1 .. Len(todo) - 1
        /\ \A i \in 1 .. Len(todo) - 1 : Tail(todo)[i] = todo[i + 1]
    BY <1>1, TailIsSeq
  <1>3. /\ 1 \in DOMAIN todo
        /\ \A i \in DOMAIN Tail(todo) : i + 1 \in DOMAIN todo
    BY <1>2
  <1>4. \E j \in DOMAIN queue : Head(todo) = queue[j]
    BY <1>2, <1>3 DEF DataInv, DataOK
  <1>5. Proper(Head(todo))
    BY <1>4 DEF DataInv, DataOK, Proper
  <1>6. \A i \in DOMAIN Tail(todo) :
            \E j \in DOMAIN queue : Tail(todo)[i] = queue[j]
    BY <1>2, <1>3 DEF DataInv, DataOK
  <1> QED
    BY <1>4, <1>5, <1>6

\* Once a request is served, its section is accounted for.
LEMMA ServedData ==
    ASSUME DataInv, CmdInv', todo # <<>>, todo' = Tail(todo),
           UNCHANGED <<pc, objVars, current, queue, suspect>>,
           NEW s \in Seq(Byte), reply' = Append(reply, s), Len(s) >= 2,
           Accounted(s),
           id' \in Id, motor' \in 0 .. MaxCalls, forged' \subseteq 1 .. MaxCalls,
           faults' \in 0 .. MaxFaults
    PROVE  DataInv'
  <1>1. UNCHANGED <<opened, cell, bStatus, ExtMode, wReqRxSize>>
    BY DEF objVars
  <1>2. /\ reply' \in Seq(Seq(Byte))
        /\ \A i \in DOMAIN reply' :
               Len(reply'[i]) >= 2 /\ Accounted(reply[i])'
    BY RepliesData
  <1>3. pc = "hub"
    BY NextRequest DEF DataInv
  <1>4. DataType'
    BY <1>1, <1>2 DEF DataInv, DataType
  <1>5. \A i \in DOMAIN todo' : \E j \in DOMAIN queue' : todo'[i] = queue'[j]
    BY NextData
  <1>6. DataOK'
    BY <1>1, <1>2, <1>3, <1>5 DEF DataInv, DataOK, Proper, InFrame
  <1> QED
    BY <1>4, <1>6 DEF DataInv

LEMMA CarryData ==
    ASSUME DataInv, CmdInv', NEW status \in {CM_NORMAL, MC_SENSOR_ERROR},
           Carry(status)
    PROVE  DataInv'
  <1> DEFINE r == Head(todo)
             cost == IF status = CM_NORMAL THEN 0 ELSE 1
  <1>1. /\ todo # <<>> /\ todo' = Tail(todo)
        /\ UNCHANGED <<pc, objVars, current, queue, suspect>>
        /\ id' = IF r.cmd.name = "CM_SET_ID" THEN r.arg ELSE id
        /\ motor' = IF r.cmd.name \in ForMotor THEN r.n ELSE motor
        /\ faults' <= MaxFaults
        /\ SendSection(Section(Payload(r.cmd, current.n), status), FALSE, cost)
    BY DEF Carry
  <1>2. r.n \in 1 .. MaxCalls /\ current.n \in 1 .. MaxCalls
    BY <1>1, NextRequest DEF DataInv
  <1>3. Proper(r) /\ \E j \in DOMAIN queue : r = queue[j]
    BY <1>1, NextData
  <1>4. id \in Id /\ faults \in Nat /\ motor \in 0 .. MaxCalls
        /\ forged \subseteq 1 .. MaxCalls
    BY DEF DataInv, DataType
  <1> HIDE DEF r
  <1>5. PICK c, n, p : c = r.cmd /\ n = current.n /\ p = Payload(c, n)
    OBVIOUS
  <1>6. c \in AllCommands /\ n \in 1 .. MaxCalls
    BY <1>2, <1>3, <1>5 DEF Proper
  <1>7. /\ p \in Seq(Byte) /\ Len(p) = c.rx /\ c.rx \in Nat
        /\ p \in Payloads(c, n)
    BY <1>4, <1>5, <1>6, PayloadFacts, CommandFacts
  <1>8. status \in Byte /\ cost \in {0, 1}
    BY DEF CM_NORMAL, MC_SENSOR_ERROR, Byte
  <1> HIDE DEF cost
  <1>9. SendSection(Section(p, status), FALSE, cost)
    BY <1>1, <1>5
  <1>10. PICK s \in Seq(Byte) :
             /\ reply' = Append(reply, s) /\ Len(s) = Len(p) + 2
             /\ CheckSum(s) => DataOf(s) = p
             /\ forged' = forged /\ faults' \in Nat
    BY <1>4, <1>7, <1>8, <1>9, SentSection
  <1>11. Accounted(s) /\ Len(s) >= 2
    BY <1>3, <1>5, <1>7, <1>10 DEF Accounted
  <1>12. faults' \in 0 .. MaxFaults
    BY <1>1, <1>10, CommandsAssumption
  <1>13. id' \in Id /\ motor' \in 0 .. MaxCalls
    BY <1>1, <1>2, <1>3, <1>4, CommandsAssumption DEF Proper
  <1> QED
    BY <1>1, <1>4, <1>10, <1>11, <1>12, <1>13, ServedData

LEMMA DeclineData ==
    ASSUME DataInv, CmdInv', Decline
    PROVE  DataInv'
  <1> DEFINE n == Head(todo).n
  <1>1. /\ todo # <<>> /\ todo' = Tail(todo)
        /\ UNCHANGED <<pc, objVars, current, queue, suspect, id, motor>>
        /\ faults' <= MaxFaults
        /\ \E status \in {CM_NAK, CM_REPLY_NO}, cost \in {0, 1} :
               SendSection(Section(<<>>, status), TRUE, cost)
    BY DEF Decline, moduleVars
  <1>2. PICK status \in {CM_NAK, CM_REPLY_NO}, cost \in {0, 1} :
            SendSection(Section(<<>>, status), TRUE, cost)
    BY <1>1
  <1>3. n \in 1 .. MaxCalls
    BY <1>1, NextRequest DEF DataInv
  <1>4. id \in Id /\ faults \in Nat /\ motor \in 0 .. MaxCalls
        /\ forged \subseteq 1 .. MaxCalls
    BY DEF DataInv, DataType
  <1>5. status \in Byte
    BY DEF CM_NAK, CM_REPLY_NO, Byte
  <1> HIDE DEF n
  <1>6. PICK p : p = <<>>
    OBVIOUS
  <1>7. p \in Seq(Byte) /\ Len(p) = 0
    BY <1>6
  <1>8. SendSection(Section(p, status), TRUE, cost)
    BY <1>2, <1>6
  <1>9. PICK s \in Seq(Byte) :
            /\ reply' = Append(reply, s) /\ Len(s) = 2
            /\ forged' = forged \/ forged' = forged \cup {Head(todo).n}
            /\ faults' \in Nat
    <2>1. PICK refusal \in BOOLEAN : refusal = TRUE
      OBVIOUS
    <2>2. SendSection(Section(p, status), refusal, cost)
      BY <1>8, <2>1
    <2>3. \E s \in Seq(Byte) :
              /\ reply' = Append(reply, s) /\ Len(s) = Len(p) + 2
              /\ CheckSum(s) => DataOf(s) = p
              /\ \/ forged' = forged /\ StatusOf(s) = status
                 \/ forged' = IF refusal THEN forged \cup {Head(todo).n}
                              ELSE forged
              /\ faults' \in Nat
      BY <1>4, <1>5, <1>7, <2>2, SentSection
    <2> QED
      BY <1>7, <2>1, <2>3
  <1>10. Accounted(s)
    BY <1>9 DEF Accounted
  <1>11. faults' \in 0 .. MaxFaults
    BY <1>1, <1>9, CommandsAssumption
  <1>12. forged' \subseteq 1 .. MaxCalls
    BY <1>3, <1>4, <1>9 DEF n
  <1>13. /\ todo # <<>> /\ todo' = Tail(todo)
         /\ UNCHANGED <<pc, objVars, current, queue, suspect>>
         /\ reply' = Append(reply, s) /\ Len(s) >= 2
    BY <1>1, <1>9
  <1>14. id' \in Id /\ motor' \in 0 .. MaxCalls
    BY <1>1, <1>4
  <1> QED
    BY <1>10, <1>11, <1>12, <1>13, <1>14, ServedData

LEMMA FailData ==
    ASSUME DataInv, CmdInv', Fail
    PROVE  DataInv'
  <1>1. /\ UNCHANGED <<opened, cell, bStatus, ExtMode, wReqRxSize, current,
                       queue, id, motor, forged>>
        /\ faults < MaxFaults /\ faults' = faults + 1
        /\ todo' = <<>> /\ reply' = <<>> /\ pc = "hub"
        /\ Answer(current.cmd, current.n, "FALSE")
    BY DEF Fail, objVars, moduleVars
  <1>2. suspect' \in BOOLEAN
    BY <1>1 DEF Answer, DataInv, DataType, MixesBytes
  <1>3. faults' \in 0 .. MaxFaults /\ reply' \in Seq(Seq(Byte))
    BY <1>1, CommandsAssumption DEF DataInv, DataType
  <1>4. DataType'
    BY <1>1, <1>2, <1>3 DEF DataInv, DataType
  <1>5. opened
    BY <1>1 DEF DataInv, DataOK
  <1>6. DataOK'
    BY <1>1, <1>5 DEF DataInv, DataOK, Proper
  <1> QED
    BY <1>4, <1>6 DEF DataInv

-----------------------------------------------------------------------------

\* What a section does to the object.
LEMMA ReceiveEffect ==
    ASSUME NEW s \in Seq(Byte), Len(s) >= 2, Receive(s)
    PROVE  /\ bStatus' \in Byte
           /\ bStatus' = CM_NORMAL => StatusOf(s) = CM_NORMAL
           /\ \/ /\ UNCHANGED <<cell, ExtMode>>
                 /\ bStatus' = CM_NORMAL /\ Len(s) = wReqRxSize =>
                        Len(s) = 2
              \/ /\ Len(s) > 2 /\ Len(s) = wReqRxSize /\ CheckSum(s)
                 /\ ExtMode' = FALSE
                 /\ cell' = [cell EXCEPT ![IF ExtMode THEN "board"
                                           ELSE pReserveBuffer] = DataOf(s)]
  <1>1. StatusOf(s) \in Byte /\ (Len(s) > 2 \/ Len(s) = 2)
    <2>1. Len(s) \in Nat /\ DOMAIN s = 1 .. Len(s)
          /\ \A i \in DOMAIN s : s[i] \in Byte
      OBVIOUS
    <2>2. Len(s) - 1 \in DOMAIN s /\ (Len(s) > 2 \/ Len(s) = 2)
      BY <2>1
    <2> QED
      BY <2>1, <2>2 DEF StatusOf
  <1>2. CM_REPLY_SUM_ERROR # CM_NORMAL /\ CM_REPLY_SUM_ERROR \in Byte
    BY DEF CM_REPLY_SUM_ERROR, CM_NORMAL, Byte
  <1> QED
    BY <1>1, <1>2, Zenon DEF Receive

\* What is left of the reply.
LEMMA ReplyTail ==
    ASSUME DataInv, reply # <<>>
    PROVE  /\ Head(reply) \in Seq(Byte) /\ Len(Head(reply)) >= 2
           /\ Accounted(Head(reply)) /\ Head(reply) = reply[1]
           /\ 1 \in DOMAIN reply
           /\ Tail(reply) \in Seq(Seq(Byte))
           /\ \A i \in DOMAIN Tail(reply) : i + 1 \in DOMAIN reply
                                           /\ Tail(reply)[i] = reply[i + 1]
           /\ IF Tail(reply) = <<>> THEN Head(reply) = Last(reply)
                                    ELSE Last(Tail(reply)) = Last(reply)
  <1>1. reply \in Seq(Seq(Byte)) /\ IsSeq(reply)
    BY DEF DataInv, DataType, CmdInv, RepliesOK
  <1>2. /\ Len(reply) \in Nat \ {0} /\ DOMAIN reply = 1 .. Len(reply)
        /\ Head(reply) = reply[1]
        /\ DOMAIN Tail(reply) = 1 .. Len(reply) - 1
        /\ \A i \in 1 .. Len(reply) - 1 : Tail(reply)[i] = reply[i + 1]
        /\ IF Len(reply) = 1
           THEN Tail(reply) = <<>> /\ Last(reply) = Head(reply)
           ELSE Tail(reply) # <<>> /\ Last(Tail(reply)) = Last(reply)
    BY <1>1, TailIsSeq
  <1>3. 1 \in DOMAIN reply /\ Tail(reply) \in Seq(Seq(Byte))
    BY <1>1, <1>2
  <1>4. \A i \in DOMAIN Tail(reply) : i + 1 \in DOMAIN reply
    BY <1>2
  <1>5. Head(reply) \in Seq(Byte)
    BY <1>1, <1>2, <1>3
  <1>6. Len(reply[1]) >= 2 /\ Accounted(reply[1])
    BY <1>3 DEF DataInv, DataOK
  <1>7. Len(Head(reply)) >= 2 /\ Accounted(Head(reply))
    BY <1>2, <1>6
  <1> QED
    BY <1>2, <1>3, <1>4, <1>5, <1>7

LEMMA DeliverData ==
    ASSUME DataInv, CmdInv', Deliver
    PROVE  DataInv'
  <1>1. /\ reply # <<>> /\ reply' = Tail(reply) /\ pc' = "deliver" /\ InFrame
        /\ Receive(Head(reply))
        /\ UNCHANGED <<opened, wReqRxSize, pReserveBuffer, current, queue, todo,
                       id, motor, forged, suspect, faults>>
    BY DEF Deliver, moduleVars, InFrame
  <1>2. PICK s : s = Head(reply)
    OBVIOUS
  <1>3. /\ s \in Seq(Byte) /\ Len(s) >= 2 /\ Accounted(s)
        /\ reply' \in Seq(Seq(Byte))
        /\ \A i \in DOMAIN reply' : i + 1 \in DOMAIN reply
                                    /\ reply'[i] = reply[i + 1]
    BY <1>1, <1>2, ReplyTail
  <1>4. /\ bStatus' \in Byte
        /\ \/ UNCHANGED <<cell, ExtMode>>
           \/ /\ Len(s) > 2 /\ CheckSum(s) /\ ExtMode' = FALSE
              /\ \E place : cell' = [cell EXCEPT ![place] = DataOf(s)]
    BY <1>1, <1>2, <1>3, ReceiveEffect
  <1>5. CheckSum(s) /\ Len(s) > 2 => DataOf(s) \in Genuine
    <2> SUFFICES ASSUME CheckSum(s), Len(s) > 2 PROVE DataOf(s) \in Genuine
      OBVIOUS
    <2>1. PICK j \in DOMAIN queue :
              DataOf(s) \in Payloads(queue[j].cmd, current.n)
      BY <1>3 DEF Accounted
    <2>2. PICK c, n : c = queue[j].cmd /\ n = current.n
      OBVIOUS
    <2>3. c \in AllCommands
      BY <2>2 DEF DataInv, DataOK, Proper
    <2>4. n \in 1 .. MaxCalls
      BY <1>1, <2>2, CommandsAssumption DEF DataInv, CmdInv, CallsOK, InFrame
    <2>5. Payloads(c, n) \subseteq Genuine
      BY <2>3, <2>4, PayloadFacts DEF DataInv, DataType
    <2> QED
      BY <2>1, <2>2, <2>5
  <1>6. cell' \in [Place -> Genuine] /\ ExtMode' \in BOOLEAN
    <2>1. cell \in [Place -> Genuine] /\ ExtMode \in BOOLEAN
      BY DEF DataInv, DataOK, DataType
    <2> QED
      BY <1>4, <1>5, <2>1
  <1>7. DataType'
    BY <1>1, <1>3, <1>4, <1>6 DEF DataInv, DataType
  <1>8. ASSUME NEW i \in DOMAIN reply'
        PROVE  Len(reply'[i]) >= 2 /\ Accounted(reply[i])'
    <2>1. PICK t : t = reply'[i]
      OBVIOUS
    <2>2. Len(t) >= 2 /\ Accounted(t)
      BY <1>3, <1>8, <2>1 DEF DataInv, DataOK
    <2>3. Accounted(t)'
      BY <1>1, <2>2, AccountedStays
    <2> QED
      BY <2>1, <2>2, <2>3 DEF Accounted
  <1>9. DataOK'
    BY <1>1, <1>6, <1>8 DEF DataInv, DataOK, Proper, InFrame
  <1> QED
    BY <1>7, <1>9 DEF DataInv

LEMMA ReturnData ==
    ASSUME DataInv, CmdInv', Return
    PROVE  DataInv'
  <1>1. /\ pc = "deliver" /\ reply = <<>> /\ queue' = <<>>
        /\ UNCHANGED <<opened, bStatus, ExtMode, wReqRxSize, current, todo,
                       reply, id, motor, forged, faults>>
    BY DEF Return, moduleVars
  <1>2. PICK value \in Results : /\ Answer(current.cmd, current.n, value)
                                 /\ cell' \in {cell, Stored}
    BY DEF Return
  <1>3. suspect' \in BOOLEAN
    BY <1>2 DEF Answer, DataInv, DataType, MixesBytes
  <1>4. Stored \in [Place -> Genuine]
    <2>1. cell \in [Place -> Genuine] /\ cell["local"] \in Genuine
      BY DEF DataInv, DataOK, Place
    <2>2. current.cmd.name = "CM_SET_ID" => <<current.arg>> \in Genuine
      BY GenuineFacts DEF DataInv, DataOK, Proper
    <2>3. current.cmd.name = "CM_SET_ID" => current.cmd # CommandGetConfig
      BY ThreeCommands
    <2>4. CASE current.cmd.name = "CM_SET_ID"
      BY <2>1, <2>2, <2>4 DEF Stored
    <2>5. CASE current.cmd = CommandGetConfig
      BY <2>1, <2>3, <2>5 DEF Stored
    <2>6. CASE current.cmd.name # "CM_SET_ID" /\ current.cmd # CommandGetConfig
      BY <2>1, <2>6 DEF Stored
    <2> QED
      BY <2>4, <2>5, <2>6
  <1>5. cell' \in [Place -> Genuine]
    BY <1>2, <1>4 DEF DataInv, DataOK
  <1>6. todo = <<>>
    BY <1>1 DEF DataInv, CmdInv, RequestsOK
  <1>7. DataType'
    BY <1>1, <1>3 DEF DataInv, DataType
  <1>8. DataOK'
    BY <1>1, <1>5, <1>6 DEF DataInv, DataOK, Proper, InFrame
  <1> QED
    BY <1>7, <1>8 DEF DataInv

\* The three ways to start a command with a parent.
LEMMA StartData ==
    ASSUME DataInv, CmdInv'
    PROVE  /\ \A c \in AllCommands : \A arg :
                  (c.name = "CM_SET_ID" => arg \in Id) /\ Call(c, arg)
                      => DataInv'
           /\ \A i \in Id : Open(i) => DataInv'
           /\ OpenGoesOn => DataInv'
  <1>1. cell \in [Place -> Genuine]
    BY DEF DataInv, DataOK
  <1>2. ASSUME NEW c \in AllCommands, NEW arg, Call(c, arg),
               c.name = "CM_SET_ID" => arg \in Id
        PROVE  DataInv'
    <2>1. /\ pc = "idle" /\ opened /\ opened' = opened /\ cell' = NewLocals
          /\ Transceive(c, arg, cell.bID)
      BY <1>2 DEF Call
    <2>2. cell' \in [Place -> Genuine] /\ ~InFrame
      BY <1>1, <2>1, NewLocalsFacts DEF InFrame
    <2>3. opened' /\ opened' \in BOOLEAN
      BY <2>1 DEF DataInv, DataType
    <2> QED
      BY <1>2, <2>1, <2>2, <2>3, TransceiveData
  <1>3. ASSUME NEW i \in Id, Open(i) PROVE DataInv'
    <2>1. /\ pc = "idle" /\ opened' = TRUE
          /\ cell' = [NewLocals EXCEPT !.bID = <<i>>]
          /\ Transceive(CommandOpen, 0, <<i>>)
      BY <1>3 DEF Open
    <2>2. cell' \in [Place -> Genuine] /\ ~InFrame
      BY <1>1, <2>1, NewLocalsFacts DEF InFrame
    <2>3. CommandOpen \in AllCommands /\ CommandOpen.name # "CM_SET_ID"
      BY ThreeCommands
    <2> QED
      BY <2>1, <2>2, <2>3, TransceiveData
  <1>4. ASSUME OpenGoesOn PROVE DataInv'
    <2>1. /\ pc = "config" /\ opened' = opened /\ cell' = NewLocals
          /\ Transceive(CommandGetConfig, 0, cell.bID)
      BY <1>4 DEF OpenGoesOn
    <2>2. cell' \in [Place -> Genuine] /\ ~InFrame
      BY <1>1, <2>1, NewLocalsFacts DEF InFrame
    <2>3. opened' /\ opened' \in BOOLEAN
      BY <2>1 DEF DataInv, DataType, DataOK
    <2>4. CommandGetConfig \in AllCommands /\ CommandGetConfig.name # "CM_SET_ID"
      BY ThreeCommands
    <2> QED
      BY <2>1, <2>2, <2>3, <2>4, TransceiveData
  <1> QED
    BY <1>2, <1>3, <1>4

LEMMA StillData ==
    ASSUME DataInv, CmdInv', UNCHANGED vars
    PROVE  DataInv'
  <1>1. UNCHANGED <<pc, opened, cell, bStatus, ExtMode, wReqRxSize, current,
                    queue, todo, reply, id, motor, forged, suspect, faults>>
    BY DEF vars, objVars, moduleVars
  <1>2. DataType'
    BY <1>1 DEF DataInv, DataType
  <1>3. \A i \in DOMAIN reply' : Len(reply'[i]) >= 2 /\ Accounted(reply[i])'
    BY <1>1 DEF DataInv, DataOK, Accounted, Payloads, Payload
  <1>4. DataOK'
    BY <1>1, <1>3 DEF DataInv, DataOK, Proper, InFrame
  <1> QED
    BY <1>2, <1>4 DEF DataInv

LEMMA StepDataInv == DataInv /\ [Next]_vars => DataInv'
  <1> SUFFICES ASSUME DataInv, [Next]_vars PROVE DataInv'
    OBVIOUS
  <1>1. CmdInv'
    BY StepCmdInv DEF DataInv
  <1>2. ASSUME NEW c \in AllCommands,
               NEW arg \in (IF c.name = "CM_SET_ID" THEN Id ELSE {0}),
               Call(c, arg) \/ CallUnopened(c, arg)
        PROVE  DataInv'
    <2>1. c.name = "CM_SET_ID" => arg \in Id
      OBVIOUS
    <2> QED
      BY <1>1, <1>2, <2>1, StartData, UnopenedData
  <1> QED
    BY <1>1, <1>2, StartData, StillData, CarryData, DeclineData, FailData,
       DeliverData, ReturnData
    DEF Next

LEMMA DataInvariant == Spec => []DataInv
  BY InitDataInv, StepDataInv, PTL DEF Spec

\* Every variable has its type, whatever is called and whatever is damaged.
THEOREM TypeCorrect == Spec => []TypeOK
  BY DataInvariant, DataInvType, PTL

\* What an object keeps of its answers is what the module has sent, or what
\* was there before: the size and the sum let nothing damaged through.
THEOREM OnlyGenuine == Spec => []NothingDamaged
  BY DataInvariant, DataInvType, PTL

-----------------------------------------------------------------------------

\* What the frame of the latest call is received with.  An exchange that is
\* outstanding takes the next answer of its size, whosever it is: it is only
\* the call's own one that is behind it in the same frame.
FrameOK ==
    InFrame =>
        /\ wReqRxSize = current.cmd.rx + 2
        /\ pReserveBuffer = current.cmd.dest
        /\ queue # <<>>
        /\ Last(queue).cmd = current.cmd /\ Last(queue).arg = current.arg
        /\ todo # <<>> => Last(todo) = Last(queue)
        /\ current.cmd # CommandExchange /\ ~current.armed => ~ExtMode
        /\ current.cmd = CommandExchange =>
               ExtMode \/ cell["board"] = Pattern(CommandExchange, current.n)

LEMMA FrameCall ==
    ASSUME DataInv, InFrame
    PROVE  /\ current.n \in 1 .. MaxCalls /\ current.cmd \in AllCommands
           /\ told[current.n] = "open" /\ id \in Id
  BY CommandsAssumption
  DEF DataInv, CmdInv, CallsOK, DataOK, DataType, Proper, InFrame

\* What the next section of the reply changes.
LEMMA DeliverEffect ==
    ASSUME DataInv, Deliver
    PROVE  /\ InFrame /\ InFrame' /\ pc' = "deliver" /\ todo = <<>>
           /\ UNCHANGED <<opened, wReqRxSize, pReserveBuffer, current, queue,
                          todo, id, motor, executed, told, forged, suspect>>
           /\ \E s \in Seq(Byte) :
                /\ 1 \in DOMAIN reply /\ s = reply[1]
                /\ Len(s) >= 2 /\ Accounted(s)
                /\ \A i \in DOMAIN reply' : i + 1 \in DOMAIN reply
                                            /\ reply'[i] = reply[i + 1]
                /\ reply # <<>>
                /\ IF reply' = <<>> THEN s = Last(reply)
                                    ELSE Last(reply') = Last(reply)
                /\ bStatus' = CM_NORMAL => StatusOf(s) = CM_NORMAL
                /\ \/ /\ UNCHANGED <<cell, ExtMode>>
                      /\ bStatus' = CM_NORMAL /\ Len(s) = wReqRxSize =>
                             Len(s) = 2
                   \/ /\ Len(s) > 2 /\ Len(s) = wReqRxSize /\ CheckSum(s)
                      /\ ExtMode' = FALSE
                      /\ cell' = [cell EXCEPT ![IF ExtMode THEN "board"
                                               ELSE pReserveBuffer] = DataOf(s)]
  <1>1. /\ InFrame /\ InFrame' /\ pc' = "deliver" /\ reply # <<>>
        /\ reply' = Tail(reply) /\ Receive(Head(reply))
        /\ UNCHANGED <<opened, wReqRxSize, pReserveBuffer, current, queue,
                       todo, id, motor, executed, told, forged, suspect>>
    BY DEF Deliver, InFrame, moduleVars
  <1>2. todo = <<>>
    BY DEF Deliver, DataInv, CmdInv, RequestsOK
  <1>3. PICK s : s = Head(reply)
    OBVIOUS
  <1>4. /\ s \in Seq(Byte) /\ Len(s) >= 2 /\ Accounted(s) /\ s = reply[1]
        /\ 1 \in DOMAIN reply
        /\ \A i \in DOMAIN reply' : i + 1 \in DOMAIN reply
                                    /\ reply'[i] = reply[i + 1]
        /\ IF reply' = <<>> THEN s = Last(reply)
                            ELSE Last(reply') = Last(reply)
    BY <1>1, <1>3, ReplyTail
  <1>5. Receive(s)
    BY <1>1, <1>3
  <1> HIDE <1>3
  <1>6. /\ bStatus' = CM_NORMAL => StatusOf(s) = CM_NORMAL
        /\ \/ /\ UNCHANGED <<cell, ExtMode>>
              /\ bStatus' = CM_NORMAL /\ Len(s) = wReqRxSize => Len(s) = 2
           \/ /\ Len(s) > 2 /\ Len(s) = wReqRxSize /\ CheckSum(s)
              /\ ExtMode' = FALSE
              /\ cell' = [cell EXCEPT ![IF ExtMode THEN "board"
                                        ELSE pReserveBuffer] = DataOf(s)]
    BY <1>4, <1>5, ReceiveEffect
  <1> QED
    BY <1>1, <1>2, <1>4, <1>6, Zenon

\* The start of a frame, with its request as the last one.
LEMMA TransceiveFrame ==
    ASSUME DataInv, NEW c \in AllCommands, NEW arg, NEW to, ~InFrame,
           Transceive(c, arg, to)
    PROVE  /\ FrameOK'
           /\ reply' = <<>> /\ id' = id /\ executed' = executed
           /\ current'.cmd = c /\ current'.arg = arg
           /\ current'.n = current.n + 1 /\ current'.n \in 1 .. MaxCalls
           /\ \/ /\ ~InFrame' /\ queue' = queue
                 /\ pc' = (IF c.name = "CM_OPEN" THEN "config" ELSE "idle")
                 /\ Answer(c, current.n + 1, "FALSE")
              \/ /\ pc' = "hub" /\ InFrame' /\ todo' # <<>> /\ suspect' = suspect
                 /\ Last(queue').to = to
                 /\ \A i \in DOMAIN queue' :
                        \/ i \in DOMAIN queue /\ queue'[i] = queue[i]
                        \/ queue'[i].cmd = c
  <1> DEFINE n == current.n + 1
             r == [cmd |-> c, arg |-> arg, to |-> to, n |-> n]
  <1>1. /\ current' = [cmd |-> c, arg |-> arg, n |-> n,
                       armed |-> ExtMode /\ c # CommandExchange]
        /\ ExtMode' = (ExtMode \/ c = CommandExchange)
        /\ wReqRxSize' = c.rx + 2 /\ pReserveBuffer' = c.dest
        /\ n \in 1 .. MaxCalls
        /\ UNCHANGED <<reply, id, executed>>
        /\ \/ /\ Answer(c, n, "FALSE")
              /\ pc' = IF c.name = "CM_OPEN" THEN "config" ELSE "idle"
              /\ UNCHANGED <<queue, todo>>
           \/ /\ queue' = Append(queue, r) /\ todo' = queue'
              /\ pc' = "hub" /\ suspect' = suspect
    BY TransceiveEffect
  <1>2. reply = <<>> /\ IsSeq(queue)
    BY DEF DataInv, DataOK, CmdInv, RequestsOK
  <1>3. CASE Answer(c, n, "FALSE") /\ queue' = queue
             /\ pc' = IF c.name = "CM_OPEN" THEN "config" ELSE "idle"
    <2>1. ~InFrame'
      BY <1>3 DEF InFrame
    <2> QED
      BY <1>1, <1>2, <1>3, <2>1 DEF FrameOK
  <1>4. CASE queue' = Append(queue, r) /\ todo' = queue' /\ pc' = "hub"
             /\ suspect' = suspect
    <2>1. /\ queue' # <<>> /\ Last(queue') = r
          /\ \A i \in DOMAIN queue' :
                 \/ i \in DOMAIN queue /\ queue'[i] = queue[i]
                 \/ queue'[i] = r
      <3>1. PICK e : e = r
        OBVIOUS
      <3>2. /\ queue' # <<>> /\ Len(queue) \in Nat
            /\ DOMAIN queue = 1 .. Len(queue)
            /\ DOMAIN queue' = 1 .. Len(queue) + 1
            /\ queue'[Len(queue) + 1] = e /\ Last(queue') = e
            /\ \A i \in 1 .. Len(queue) : queue'[i] = queue[i]
        BY <1>2, <1>4, <3>1, AppendIsSeq
      <3> QED
        BY <3>1, <3>2
    <2>2. InFrame'
      BY <1>4 DEF InFrame
    <2>3. FrameOK'
      <3>1. /\ current'.cmd = c /\ current'.arg = arg
            /\ Last(queue').cmd = c /\ Last(queue').arg = arg
        BY <1>1, <2>1
      <3>2. current'.armed <=> ExtMode /\ c # CommandExchange
        BY <1>1
      <3>3. /\ c # CommandExchange /\ ~current'.armed => ~ExtMode'
            /\ c = CommandExchange => ExtMode'
        BY <1>1, <3>2
      <3> QED
        BY <1>1, <1>4, <2>1, <3>1, <3>3, Zenon DEF FrameOK
    <2> QED
      BY <1>1, <1>2, <1>4, <2>1, <2>2, <2>3
  <1> QED
    BY <1>1, <1>3, <1>4

\* Within the frame only the requests that are left and the memory change.
LEMMA ServeFrame ==
    ASSUME DataInv, FrameOK, todo # <<>>, todo' = Tail(todo),
           UNCHANGED <<pc, objVars, current, queue>>
    PROVE  /\ FrameOK' /\ InFrame /\ InFrame'
           /\ todo' = <<>> => Head(todo) = Last(queue)
  <1>1. pc = "hub" /\ IsSeq(todo)
    BY NextRequest DEF DataInv, CmdInv, RequestsOK
  <1>2. IF todo' = <<>> THEN Last(todo) = Head(todo)
                        ELSE Last(todo') = Last(todo)
    BY <1>1, TailIsSeq
  <1>3. UNCHANGED <<cell, ExtMode, wReqRxSize, pReserveBuffer>>
    BY DEF objVars
  <1> QED
    BY <1>1, <1>2, <1>3 DEF FrameOK, InFrame

LEMMA DeliverFrame ==
    ASSUME DataInv, FrameOK, Deliver
    PROVE  FrameOK'
  <1>1. /\ InFrame /\ InFrame' /\ pc' = "deliver" /\ todo = <<>>
        /\ UNCHANGED <<wReqRxSize, pReserveBuffer, current, queue, todo>>
    BY DeliverEffect
  <1>2. PICK s \in Seq(Byte) :
            /\ Accounted(s)
            /\ \/ UNCHANGED <<cell, ExtMode>>
               \/ /\ Len(s) > 2 /\ Len(s) = wReqRxSize /\ CheckSum(s)
                  /\ ExtMode' = FALSE
                  /\ cell' = [cell EXCEPT ![IF ExtMode THEN "board"
                                           ELSE pReserveBuffer] = DataOf(s)]
    BY DeliverEffect
  <1>3. ExtMode' => ExtMode
    BY <1>2
  <1>4. ASSUME current.cmd = CommandExchange
        PROVE  ExtMode' \/ cell'["board"] = Pattern(CommandExchange, current.n)
    <2>1. CASE UNCHANGED <<cell, ExtMode>>
      BY <1>1, <1>4, <2>1 DEF FrameOK
    <2>2. CASE /\ Len(s) > 2 /\ Len(s) = wReqRxSize /\ CheckSum(s)
               /\ cell' = [cell EXCEPT ![IF ExtMode THEN "board"
                                        ELSE pReserveBuffer] = DataOf(s)]
      <3>1. wReqRxSize = 18 /\ pReserveBuffer = "local"
        BY <1>1, <1>4, ThreeCommands DEF FrameOK
      <3>2. PICK j \in DOMAIN queue :
                /\ Len(s) = queue[j].cmd.rx + 2
                /\ DataOf(s) \in Payloads(queue[j].cmd, current.n)
        BY <1>2, <2>2 DEF Accounted
      <3>3. PICK c, n : c = queue[j].cmd /\ n = current.n
        OBVIOUS
      <3>4. c \in AllCommands /\ c.rx = 16
        <4>1. c \in AllCommands
          BY <3>3 DEF DataInv, DataOK, Proper
        <4>2. c.rx \in Nat /\ c.rx + 2 = 18
          BY <2>2, <3>1, <3>2, <3>3, <4>1, CommandFacts
        <4> QED
          BY <4>1, <4>2
      <3>5. c = CommandExchange
        BY <3>4, CommandFacts
      <3>6. n \in 1 .. MaxCalls /\ id \in Id
        BY <1>1, <3>3, FrameCall
      <3>7. DataOf(s) = Pattern(CommandExchange, n)
        BY <3>2, <3>3, <3>4, <3>5, <3>6, PayloadFacts, ThreeCommands
        DEF Payloads
      <3>8. "board" \in DOMAIN cell
        BY DEF DataInv, DataOK, Place
      <3>9. CASE ExtMode
        BY <2>2, <3>3, <3>7, <3>8, <3>9
      <3>10. CASE ~ExtMode
        <4>1. cell'["board"] = cell["board"]
          BY <2>2, <3>1, <3>8, <3>10
        <4> QED
          BY <1>1, <1>4, <3>10, <4>1 DEF FrameOK
      <3> QED
        BY <3>9, <3>10
    <2> QED
      BY <1>2, <2>1, <2>2
  <1> QED
    BY <1>1, <1>3, <1>4 DEF FrameOK

-----------------------------------------------------------------------------

\* The section of the latest request: its answer, or a refusal that leaves
\* its status, unless that was damaged.
OwnSection(s) ==
    \/ /\ Len(s) = current.cmd.rx + 2 /\ executed[current.n] = 1
       /\ CheckSum(s) => DataOf(s) = Payload(current.cmd, current.n)
    \/ /\ Len(s) = 2
       /\ current.n \in forged \/ StatusOf(s) # CM_NORMAL

Received(c) == IF c = CommandExchange THEN "board" ELSE c.dest

\* What the latest request has left is a success.
Taken == bStatus = CM_NORMAL /\ current.n \notin forged

\* It is the last section, and it is what the object has when the whole reply
\* has been received.
LastOK == InFrame /\ todo = <<>> /\ reply # <<>> => OwnSection(Last(reply))

TakenOK ==
    pc = "deliver" /\ reply = <<>> /\ Taken /\ ~current.armed
        /\ current.cmd.rx > 0 =>
            cell[Received(current.cmd)] = Payload(current.cmd, current.n)

OwnInv == DataInv /\ FrameOK /\ LastOK /\ TakenOK /\ OwnReply

\* A payload only changes with the id, and only that of GetID.
LEMMA PayloadStays ==
    ASSUME NEW c, NEW n, id' = id \/ c.name # "CM_GET_ID"
    PROVE  Payload(c, n)' = Payload(c, n)
  <1>1. CASE id' = id
    BY <1>1 DEF Payload
  <1>2. CASE c.name # "CM_GET_ID"
    BY <1>2 DEF Payload
  <1> QED
    BY <1>1, <1>2

LEMMA InitOwnInv == Init => OwnInv
  <1> SUFFICES ASSUME Init PROVE OwnInv
    OBVIOUS
  <1>1. pc = "idle" /\ ~InFrame /\ current.n = 0
    BY DEF Init, InFrame
  <1> QED
    BY <1>1, InitDataInv
    DEF OwnInv, FrameOK, LastOK, TakenOK, OwnReply, HasReply, Answered

\* A start of a command answers nothing yet.
LEMMA TransceiveOwn ==
    ASSUME OwnInv, DataInv', NEW c \in AllCommands, NEW arg, NEW to, ~InFrame,
           Transceive(c, arg, to)
    PROVE  OwnInv'
  <1>1. /\ FrameOK' /\ reply' = <<>> /\ current'.n = current.n + 1
        /\ current'.n \in 1 .. MaxCalls
        /\ \/ ~InFrame' /\ Answer(c, current.n + 1, "FALSE")
           \/ pc' = "hub" /\ todo' # <<>>
    BY TransceiveFrame DEF OwnInv
  <1>2. told \in [1 .. MaxCalls ->
                     {"none", "open", "TRUE", "FALSE", "unsent"}]
    BY DEF OwnInv, DataInv, CmdInv, CallsOK
  <1>3. LastOK' /\ TakenOK'
    BY <1>1 DEF LastOK, TakenOK, InFrame
  <1>4. OwnReply'
    <2>1. CASE Answer(c, current.n + 1, "FALSE")
      <3>1. told'[current'.n] = "FALSE"
        BY <1>1, <1>2, <2>1 DEF Answer
      <3> QED
        BY <3>1 DEF OwnReply, HasReply, Answered
    <2>2. CASE pc' = "hub"
      BY <2>2 DEF OwnReply, HasReply
    <2> QED
      BY <1>1, <2>1, <2>2
  <1> QED
    BY <1>1, <1>3, <1>4 DEF OwnInv

LEMMA UnopenedOwn ==
    ASSUME OwnInv, DataInv', NEW c, NEW arg, CallUnopened(c, arg)
    PROVE  OwnInv'
  <1>1. pc' = "idle" /\ current'.n = current.n + 1
        /\ told' = [told EXCEPT ![current.n + 1] = "unsent"]
    BY DEF CallUnopened
  <1>2. /\ told \in [1 .. MaxCalls ->
                        {"none", "open", "TRUE", "FALSE", "unsent"}]
        /\ current'.n \in 0 .. MaxCalls /\ current.n \in 0 .. MaxCalls
    BY DEF OwnInv, DataInv, CmdInv, CallsOK
  <1>3. current.n + 1 \in 1 .. MaxCalls
    BY <1>1, <1>2, CommandsAssumption
  <1>4. told'[current'.n] = "unsent"
    BY <1>1, <1>2, <1>3
  <1> QED
    BY <1>1, <1>4
    DEF OwnInv, FrameOK, LastOK, TakenOK, OwnReply, HasReply, Answered,
        InFrame

LEMMA CarryOwn ==
    ASSUME OwnInv, DataInv', NEW status \in {CM_NORMAL, MC_SENSOR_ERROR},
           Carry(status)
    PROVE  OwnInv'
  <1> DEFINE r == Head(todo)
             cost == IF status = CM_NORMAL THEN 0 ELSE 1
  <1>1. /\ todo # <<>> /\ todo' = Tail(todo)
        /\ UNCHANGED <<pc, objVars, current, queue>>
        /\ executed' = [executed EXCEPT ![r.n] = @ + 1]
        /\ id' = IF r.cmd.name = "CM_SET_ID" THEN r.arg ELSE id
        /\ SendSection(Section(Payload(r.cmd, current.n), status), FALSE, cost)
    BY DEF Carry
  <1>2. /\ FrameOK' /\ InFrame
    BY <1>1, ServeFrame DEF OwnInv
  <1>3. pc = "hub" /\ pc' = "hub"
    BY <1>1, NextRequest DEF OwnInv, DataInv
  <1>4. TakenOK' /\ OwnReply'
    BY <1>3 DEF TakenOK, OwnReply, HasReply
  <1>5. ASSUME todo' = <<>> PROVE OwnSection(Last(reply))'
    <2>1. /\ r.n = current.n /\ r.cmd = current.cmd /\ executed[r.n] = 0
          /\ r.n \in 1 .. MaxCalls
      BY <1>1, <1>5, NextRequest DEF OwnInv, DataInv
    <2>2. executed'[current'.n] = 1
      BY <1>1, <2>1 DEF OwnInv, DataInv, CmdInv, CallsOK
    <2> HIDE DEF r
    <2>3. PICK c, n, p : c = current.cmd /\ n = current.n /\ p = Payload(c, n)
      OBVIOUS
    <2>4. c \in AllCommands /\ n \in 1 .. MaxCalls /\ id \in Id
      BY <1>2, <2>3, FrameCall DEF OwnInv
    <2>5. p \in Seq(Byte) /\ Len(p) = c.rx
      BY <2>3, <2>4, PayloadFacts
    <2>6. status \in Byte /\ cost \in {0, 1} /\ faults \in Nat
      BY DEF CM_NORMAL, MC_SENSOR_ERROR, Byte, OwnInv, DataInv, DataType
    <2> HIDE DEF cost
    <2>7. SendSection(Section(p, status), FALSE, cost)
      BY <1>1, <2>1, <2>3
    <2>8. PICK s \in Seq(Byte) :
              /\ reply' = Append(reply, s) /\ Len(s) = Len(p) + 2
              /\ CheckSum(s) => DataOf(s) = p
      BY <2>5, <2>6, <2>7, SentSection
    <2>9. Last(reply') = s
      BY <2>8, AppendIsSeq DEF OwnInv, DataInv, CmdInv, RepliesOK
    <2>10. Payload(c, n)' = Payload(c, n)
      <3>1. id' = id \/ c.name # "CM_GET_ID"
        BY <1>1, <2>1, <2>3
      <3> QED
        BY <3>1, PayloadStays
    <2>11. Payload(current.cmd, current.n)' = p
      BY <1>1, <2>3, <2>10
    <2> QED
      BY <1>1, <2>2, <2>3, <2>5, <2>8, <2>9, <2>11 DEF OwnSection
  <1>6. LastOK'
    BY <1>5 DEF LastOK
  <1> QED
    BY <1>2, <1>4, <1>6 DEF OwnInv

LEMMA DeclineOwn ==
    ASSUME OwnInv, DataInv', Decline
    PROVE  OwnInv'
  <1>1. /\ todo # <<>> /\ todo' = Tail(todo)
        /\ UNCHANGED <<pc, objVars, current, queue>>
        /\ \E status \in {CM_NAK, CM_REPLY_NO}, cost \in {0, 1} :
               SendSection(Section(<<>>, status), TRUE, cost)
    BY DEF Decline, moduleVars
  <1>2. FrameOK' /\ InFrame
    BY <1>1, ServeFrame DEF OwnInv
  <1>3. pc = "hub" /\ pc' = "hub"
    BY <1>1, NextRequest DEF OwnInv, DataInv
  <1>4. TakenOK' /\ OwnReply'
    BY <1>3 DEF TakenOK, OwnReply, HasReply
  <1>5. ASSUME todo' = <<>> PROVE OwnSection(Last(reply))'
    <2>1. PICK status \in {CM_NAK, CM_REPLY_NO}, cost \in {0, 1} :
              SendSection(Section(<<>>, status), TRUE, cost)
      BY <1>1
    <2>2. Head(todo).n = current.n /\ current'.n = current.n
      BY <1>1, <1>5, NextRequest DEF OwnInv, DataInv
    <2>3. PICK p : p = <<>>
      OBVIOUS
    <2>4. PICK refusal \in BOOLEAN : refusal = TRUE
      OBVIOUS
    <2>5. p \in Seq(Byte) /\ Len(p) = 0 /\ status \in Byte /\ faults \in Nat
          /\ status # CM_NORMAL
      BY <2>3
      DEF CM_NAK, CM_REPLY_NO, CM_NORMAL, Byte, OwnInv, DataInv, DataType
    <2>6. SendSection(Section(p, status), refusal, cost)
      BY <2>1, <2>3, <2>4
    <2>7. \E s \in Seq(Byte) :
              /\ reply' = Append(reply, s) /\ Len(s) = Len(p) + 2
              /\ CheckSum(s) => DataOf(s) = p
              /\ \/ forged' = forged /\ StatusOf(s) = status
                 \/ forged' = IF refusal THEN forged \cup {Head(todo).n}
                              ELSE forged
              /\ faults' \in Nat
      BY <2>5, <2>6, SentSection
    <2>8. PICK s \in Seq(Byte) :
              /\ reply' = Append(reply, s) /\ Len(s) = 2
              /\ current'.n \in forged' \/ StatusOf(s) # CM_NORMAL
      BY <2>2, <2>4, <2>5, <2>7
    <2>9. Last(reply') = s
      BY <2>8, AppendIsSeq DEF OwnInv, DataInv, CmdInv, RepliesOK
    <2> QED
      BY <2>8, <2>9 DEF OwnSection
  <1>6. LastOK'
    BY <1>5 DEF LastOK
  <1> QED
    BY <1>2, <1>4, <1>6 DEF OwnInv

LEMMA FailOwn ==
    ASSUME OwnInv, DataInv', Fail
    PROVE  OwnInv'
  <1>1. /\ pc = "hub" /\ current' = current
        /\ Answer(current.cmd, current.n, "FALSE")
    BY DEF Fail
  <1>2. /\ told \in [1 .. MaxCalls ->
                        {"none", "open", "TRUE", "FALSE", "unsent"}]
        /\ current.n \in 1 .. MaxCalls
    BY <1>1, CommandsAssumption DEF OwnInv, DataInv, CmdInv, CallsOK
  <1>3. told'[current'.n] = "FALSE" /\ ~InFrame'
    BY <1>1, <1>2 DEF Answer, InFrame
  <1> QED
    BY <1>3
    DEF OwnInv, FrameOK, LastOK, TakenOK, OwnReply, HasReply, Answered,
        InFrame

\* When the whole reply has been received and has left a success, the latest
\* request was carried out, and its own answer was the last one to be copied.
LEMMA LastSection ==
    ASSUME OwnInv, Deliver, reply' = <<>>, Taken', current.cmd.rx > 0
    PROVE  \E s \in Seq(Byte) :
              /\ executed[current.n] = 1 /\ reply # <<>> /\ s = reply[1]
              /\ Len(s) = current.cmd.rx + 2 /\ CheckSum(s)
              /\ DataOf(s) = Payload(current.cmd, current.n)
              /\ cell' = [cell EXCEPT ![IF ExtMode THEN "board"
                                        ELSE current.cmd.dest] = DataOf(s)]
  <1>1. /\ InFrame /\ todo = <<>>
        /\ UNCHANGED <<pReserveBuffer, current, forged>>
    BY DeliverEffect DEF OwnInv
  <1>2. PICK s \in Seq(Byte) :
            /\ reply # <<>> /\ s = reply[1] /\ s = Last(reply)
            /\ StatusOf(s) = CM_NORMAL /\ bStatus' = CM_NORMAL
            /\ \/ Len(s) = wReqRxSize => Len(s) = 2
               \/ /\ Len(s) > 2 /\ Len(s) = wReqRxSize /\ CheckSum(s)
                  /\ cell' = [cell EXCEPT ![IF ExtMode THEN "board"
                                           ELSE pReserveBuffer] = DataOf(s)]
    BY DeliverEffect DEF OwnInv, Taken
  <1>3. OwnSection(s)
    BY <1>1, <1>2 DEF OwnInv, LastOK
  <1>4. current.n \notin forged
    BY <1>1 DEF Taken
  <1>5. /\ Len(s) = current.cmd.rx + 2 /\ executed[current.n] = 1
        /\ CheckSum(s) => DataOf(s) = Payload(current.cmd, current.n)
    BY <1>2, <1>3, <1>4 DEF OwnSection
  <1>6. wReqRxSize = current.cmd.rx + 2 /\ pReserveBuffer = current.cmd.dest
    BY <1>1 DEF OwnInv, FrameOK
  <1>7. Len(s) # 2
    <2>1. current.cmd.rx \in Nat
      BY <1>1, FrameCall, CommandFacts DEF OwnInv
    <2> QED
      BY <1>5, <2>1
  <1> QED
    BY <1>2, <1>5, <1>6, <1>7

LEMMA DeliverOwn ==
    ASSUME OwnInv, DataInv', Deliver
    PROVE  OwnInv'
  <1>1. /\ InFrame /\ todo = <<>> /\ pc' = "deliver"
        /\ UNCHANGED <<current, todo, id, executed, forged>>
    BY DeliverEffect DEF OwnInv
  <1>2. FrameOK'
    BY DeliverFrame DEF OwnInv
  <1>3. OwnReply'
    BY <1>1 DEF OwnReply, HasReply
  <1>4. LastOK'
    <2> SUFFICES ASSUME reply' # <<>> PROVE OwnSection(Last(reply))'
      BY DEF LastOK
    <2>1. reply # <<>> /\ Last(reply') = Last(reply)
      BY DeliverEffect DEF OwnInv
    <2>2. OwnSection(Last(reply))
      BY <1>1, <2>1 DEF OwnInv, LastOK
    <2>3. Payload(current.cmd, current.n)' = Payload(current.cmd, current.n)
      BY <1>1 DEF Payload
    <2> QED
      BY <1>1, <2>1, <2>2, <2>3 DEF OwnSection
  <1>5. TakenOK'
    <2> SUFFICES ASSUME reply' = <<>>, Taken', ~current.armed, current.cmd.rx > 0
                 PROVE  cell'[Received(current.cmd)]
                            = Payload(current.cmd, current.n)
      <3>1. Payload(current.cmd, current.n)' = Payload(current.cmd, current.n)
        BY <1>1 DEF Payload
      <3>2. Received(current.cmd)' = Received(current.cmd)
        BY <1>1 DEF Received
      <3> QED
        BY <1>1, <3>1, <3>2 DEF TakenOK
    <2>1. PICK s \in Seq(Byte) :
              /\ DataOf(s) = Payload(current.cmd, current.n)
              /\ cell' = [cell EXCEPT ![IF ExtMode THEN "board"
                                        ELSE current.cmd.dest] = DataOf(s)]
      BY LastSection
    <2>2. DOMAIN cell = Place /\ "board" \in Place
      BY DEF OwnInv, DataInv, DataOK, Place
    <2>3. /\ current.cmd \in AllCommands /\ current.n \in 1 .. MaxCalls
          /\ id \in Id /\ current.cmd.dest \in Place
      BY <1>1, FrameCall, CommandFacts DEF OwnInv
    <2>4. CASE current.cmd # CommandExchange
      <3>1. ~ExtMode
        BY <1>1, <2>4 DEF OwnInv, FrameOK
      <3> QED
        BY <2>1, <2>2, <2>3, <2>4, <3>1 DEF Received
    <2>5. CASE current.cmd = CommandExchange
      <3>1. Payload(current.cmd, current.n)
                = Pattern(CommandExchange, current.n)
        <4>1. PICK c, n : c = current.cmd /\ n = current.n
          OBVIOUS
        <4>2. Payload(c, n) = Pattern(c, n)
          BY <2>3, <2>5, <4>1, PayloadFacts, ThreeCommands
        <4> QED
          BY <2>5, <4>1, <4>2
      <3>2. CASE ExtMode
        BY <2>1, <2>2, <2>5, <3>2 DEF Received
      <3>3. CASE ~ExtMode
        <4>1. cell["board"] = Pattern(CommandExchange, current.n)
          BY <1>1, <2>5, <3>3 DEF OwnInv, FrameOK
        <4>2. cell'["board"] = cell["board"]
          BY <2>1, <2>2, <2>5, <3>3, ThreeCommands
        <4> QED
          BY <2>5, <3>1, <4>1, <4>2 DEF Received
      <3> QED
        BY <3>2, <3>3
    <2> QED
      BY <2>4, <2>5
  <1> QED
    BY <1>2, <1>3, <1>4, <1>5 DEF OwnInv

LEMMA ReturnOwn ==
    ASSUME OwnInv, DataInv', Return
    PROVE  OwnInv'
  <1>1. /\ pc = "deliver" /\ reply = <<>> /\ InFrame
        /\ UNCHANGED <<bStatus, current, reply, id, forged>>
    BY DEF Return, moduleVars, InFrame
  <1>2. PICK value \in Results :
            /\ Answer(current.cmd, current.n, value)
            /\ cell' = IF value = "TRUE" THEN Stored ELSE cell
    BY DEF Return
  <1>3. ~InFrame'
    BY <1>2 DEF Answer, InFrame
  <1>4. OwnReply'
    <2> SUFFICES ASSUME Answered(current.n)', ~current.armed,
                        current.cmd.rx > 0, current.cmd.name # "CM_GET_PARAM"
                 PROVE  cell'[Target(current.cmd)]
                            = Payload(current.cmd, current.n)
      <3>1. Payload(current.cmd, current.n)' = Payload(current.cmd, current.n)
        BY <1>1 DEF Payload
      <3>2. Target(current.cmd)' = Target(current.cmd)
        BY <1>1 DEF Target
      <3> QED
        BY <1>1, <3>1, <3>2 DEF OwnReply, HasReply, InPlace
    <2>1. /\ current.n \in 1 .. MaxCalls /\ current.cmd \in AllCommands
          /\ told \in [1 .. MaxCalls ->
                          {"none", "open", "TRUE", "FALSE", "unsent"}]
      BY <1>1, FrameCall DEF OwnInv, DataInv, CmdInv, CallsOK
    <2>2. value = "TRUE" /\ current.n \notin forged
      BY <1>1, <1>2, <2>1 DEF Answered, Answer
    <2>3. Taken
      BY <1>2, <2>2 DEF Results, Taken
    <2>4. cell[Received(current.cmd)] = Payload(current.cmd, current.n)
      BY <1>1, <2>3 DEF OwnInv, TakenOK
    <2>5. current.cmd.name # "CM_SET_ID"
      <3>1. current.cmd.name = "CM_SET_ID" => current.cmd.rx = 0
        BY <2>1, CommandFacts
      <3> QED
        BY <3>1
    <2>6. CASE current.cmd = CommandGetConfig
      <3>1. /\ cell["local"] = Payload(current.cmd, current.n)
            /\ CommandGetConfig # CommandExchange
        BY <2>4, <2>6, CommandFacts, ThreeCommands DEF Received
      <3>2. cell' = [cell EXCEPT !.config = cell.local]
        BY <1>2, <2>2, <2>5, <2>6 DEF Stored
      <3>3. "config" \in DOMAIN cell
        BY DEF OwnInv, DataInv, DataOK, Place
      <3> QED
        BY <2>6, <3>1, <3>2, <3>3 DEF Target
    <2>7. CASE current.cmd # CommandGetConfig
      <3>1. cell' = cell
        BY <1>2, <2>2, <2>5, <2>7 DEF Stored
      <3>2. Target(current.cmd) = Received(current.cmd)
        <4>1. CASE current.cmd = CommandExchange
          BY <4>1, ThreeCommands DEF Target, Received
        <4>2. CASE current.cmd # CommandExchange
          BY <2>7, <4>2 DEF Target, Received
        <4> QED
          BY <4>1, <4>2
      <3> QED
        BY <2>4, <3>1, <3>2
    <2> QED
      BY <2>6, <2>7
  <1> QED
    BY <1>3, <1>4 DEF OwnInv, FrameOK, LastOK, TakenOK, InFrame

LEMMA StillOwn ==
    ASSUME OwnInv, DataInv', UNCHANGED vars
    PROVE  OwnInv'
  <1>1. UNCHANGED <<pc, cell, bStatus, ExtMode, wReqRxSize, pReserveBuffer,
                    current, queue, todo, reply, id, executed, told, forged>>
    BY DEF vars, objVars, moduleVars
  <1>2. Payload(current.cmd, current.n)' = Payload(current.cmd, current.n)
    BY <1>1 DEF Payload
  <1>3. FrameOK'
    BY <1>1 DEF OwnInv, FrameOK, InFrame
  <1>4. LastOK'
    BY <1>1, <1>2 DEF OwnInv, LastOK, OwnSection, InFrame
  <1>5. TakenOK'
    BY <1>1, <1>2 DEF OwnInv, TakenOK, Taken, Received
  <1>6. OwnReply'
    BY <1>1, <1>2
    DEF OwnInv, OwnReply, HasReply, InPlace, Answered, Target
  <1> QED
    BY <1>3, <1>4, <1>5, <1>6 DEF OwnInv

LEMMA StepOwnInv == OwnInv /\ [Next]_vars => OwnInv'
  <1> SUFFICES ASSUME OwnInv, [Next]_vars PROVE OwnInv'
    OBVIOUS
  <1>1. DataInv'
    BY StepDataInv DEF OwnInv
  <1>2. ASSUME NEW c \in AllCommands, NEW arg, Call(c, arg) PROVE OwnInv'
    <2>1. ~InFrame /\ Transceive(c, arg, cell.bID)
      BY <1>2 DEF Call, InFrame
    <2> QED
      BY <1>1, <2>1, TransceiveOwn
  <1>3. ASSUME NEW i \in Id, Open(i) PROVE OwnInv'
    <2>1. ~InFrame /\ Transceive(CommandOpen, 0, <<i>>)
      BY <1>3 DEF Open, InFrame
    <2> QED
      BY <1>1, <2>1, TransceiveOwn, ThreeCommands
  <1>4. CASE OpenGoesOn
    <2>1. ~InFrame /\ Transceive(CommandGetConfig, 0, cell.bID)
      BY <1>4 DEF OpenGoesOn, InFrame
    <2> QED
      BY <1>1, <2>1, TransceiveOwn, ThreeCommands
  <1> QED
    BY <1>1, <1>2, <1>3, <1>4, UnopenedOwn, StillOwn, CarryOwn, DeclineOwn,
       FailOwn, DeliverOwn, ReturnOwn
    DEF Next

LEMMA OwnInvariant == Spec => []OwnInv
  BY InitOwnInv, StepOwnInv, PTL DEF Spec

\* A call that has returned TRUE has the module's answer to its own command,
\* where it belongs, although answers to the requests that failed calls left
\* behind were in the same frame, and were copied before it.
\* GetParam is the exception: its answer never comes to the caller.
THEOREM OwnAnswer == Spec => []OwnReply
  <1>1. OwnInv => OwnReply
    BY DEF OwnInv
  <1> QED
    BY <1>1, OwnInvariant, PTL

-----------------------------------------------------------------------------

NoSetId == \A i \in DOMAIN queue : queue[i].cmd.name # "CM_SET_ID"

OnlyGetId == \A i \in DOMAIN queue :
                 queue[i].cmd.rx = 1 => queue[i].cmd.name = "CM_GET_ID"

\* One-byte answers that have still to come are the id.
TellId == \A i \in DOMAIN reply :
              CheckSum(reply[i]) /\ Len(reply[i]) = 3 =>
                  DataOf(reply[i]) = <<id>>

\* Between calls, nothing is on its way to change the id again.
SettledOK == ~InFrame /\ opened /\ ~suspect => cell["bID"] = <<id>> /\ NoSetId

\* A request that was carried out has found the module under its id.
ServedOK == InFrame /\ todo = <<>> /\ executed[current.n] = 1 =>
                IF current.cmd.name = "CM_SET_ID" THEN id = current.arg
                ELSE Last(queue).to = <<id>>

\* The latest request bears the id of the object, until GetID has written it.
SentOK == InFrame /\ (current.cmd.name # "CM_GET_ID" \/ ExtMode \/ pc = "hub")
              => cell["bID"] = Last(queue).to

\* In the frame of a call that cannot unsettle it, the id stays known, even
\* if the call should fail.
KnownOK ==
    InFrame /\ ~suspect /\ current.cmd.name \notin {"CM_SET_ID", "CM_OPEN"} =>
        /\ Last(queue).to = <<id>> /\ NoSetId
        /\ current.cmd.name = "CM_GET_ID" /\ OnlyGetId =>
               cell["bID"] = <<id>> /\ TellId

\* A GetID that is a success has brought the id.
AskedOK == pc = "deliver" /\ reply = <<>> /\ current.cmd.name = "CM_GET_ID"
               /\ Taken => cell["bID"] = <<id>>

AddressInv == OwnInv /\ SettledOK /\ ServedOK /\ SentOK /\ KnownOK /\ AskedOK

LEMMA InitAddressInv == Init => AddressInv
  <1> SUFFICES ASSUME Init PROVE AddressInv
    OBVIOUS
  <1>1. pc = "idle" /\ ~InFrame /\ suspect
    BY DEF Init, InFrame
  <1> QED
    BY <1>1, InitOwnInv
    DEF AddressInv, SettledOK, ServedOK, SentOK, KnownOK, AskedOK

\* A command is sent to the id that the object has; only Open sets it.
LEMMA TransceiveAddress ==
    ASSUME AddressInv, OwnInv', NEW c \in AllCommands, NEW arg, NEW to,
           ~InFrame, Transceive(c, arg, to), cell'["bID"] = to,
           c.name # "CM_OPEN" => opened /\ cell["bID"] = to
    PROVE  AddressInv'
  <1>1. /\ reply' = <<>> /\ id' = id
        /\ current'.cmd = c
        /\ \/ /\ ~InFrame' /\ queue' = queue
              /\ pc' = (IF c.name = "CM_OPEN" THEN "config" ELSE "idle")
              /\ Answer(c, current.n + 1, "FALSE")
           \/ /\ pc' = "hub" /\ InFrame' /\ todo' # <<>> /\ suspect' = suspect
              /\ Last(queue').to = to
              /\ \A i \in DOMAIN queue' :
                     \/ i \in DOMAIN queue /\ queue'[i] = queue[i]
                     \/ queue'[i].cmd = c
    BY TransceiveFrame DEF AddressInv, OwnInv
  <1>2. CASE /\ ~InFrame' /\ queue' = queue
             /\ pc' = (IF c.name = "CM_OPEN" THEN "config" ELSE "idle")
             /\ Answer(c, current.n + 1, "FALSE")
    <2>1. ASSUME ~suspect'
          PROVE  ~suspect /\ c.name # "CM_OPEN"
      BY <1>2, <2>1 DEF Answer
    <2>2. ASSUME ~suspect' PROVE cell'["bID"] = <<id'>> /\ NoSetId'
      BY <1>1, <1>2, <2>1, <2>2 DEF AddressInv, SettledOK, NoSetId
    <2>3. pc' # "deliver"
      BY <1>2
    <2> QED
      BY <1>2, <2>2, <2>3
      DEF AddressInv, SettledOK, ServedOK, SentOK, KnownOK, AskedOK
  <1>3. CASE /\ pc' = "hub" /\ InFrame' /\ todo' # <<>> /\ suspect' = suspect
             /\ Last(queue').to = to
             /\ \A i \in DOMAIN queue' :
                    \/ i \in DOMAIN queue /\ queue'[i] = queue[i]
                    \/ queue'[i].cmd = c
    <2>1. ASSUME ~suspect', c.name \notin {"CM_SET_ID", "CM_OPEN"}
          PROVE  to = <<id'>> /\ NoSetId'
      <3>1. cell["bID"] = <<id>> /\ NoSetId
        BY <1>3, <2>1 DEF AddressInv, SettledOK
      <3> QED
        BY <1>1, <1>3, <2>1, <3>1 DEF NoSetId
    <2>2. TellId'
      BY <1>1 DEF TellId
    <2>3. KnownOK'
      BY <1>1, <1>3, <2>1, <2>2 DEF KnownOK
    <2> QED
      BY <1>3, <2>3 DEF AddressInv, SettledOK, ServedOK, SentOK, AskedOK
  <1> QED
    BY <1>1, <1>2, <1>3

LEMMA UnopenedAddress ==
    ASSUME AddressInv, OwnInv', NEW c, NEW arg, CallUnopened(c, arg)
    PROVE  AddressInv'
  <1>1. pc' = "idle" /\ ~opened' /\ ~InFrame'
    BY DEF CallUnopened, InFrame
  <1> QED
    BY <1>1 DEF AddressInv, SettledOK, ServedOK, SentOK, KnownOK, AskedOK

LEMMA TellMore ==
    ASSUME IsSeq(reply), NEW s, reply' = Append(reply, s), id' = id, TellId,
           CheckSum(s) /\ Len(s) = 3 => DataOf(s) = <<id>>
    PROVE  TellId'
  <1>1. /\ Len(reply) \in Nat /\ DOMAIN reply = 1 .. Len(reply)
        /\ DOMAIN reply' = 1 .. Len(reply) + 1
        /\ reply'[Len(reply) + 1] = s
        /\ \A i \in 1 .. Len(reply) : reply'[i] = reply[i]
    BY AppendIsSeq
  <1>2. ASSUME NEW i \in DOMAIN reply', CheckSum(reply'[i]), Len(reply'[i]) = 3
        PROVE  DataOf(reply'[i]) = <<id>>
    <2>1. CASE i = Len(reply) + 1
      BY <1>1, <1>2, <2>1
    <2>2. CASE i # Len(reply) + 1
      <3>1. i \in DOMAIN reply /\ reply'[i] = reply[i]
        BY <1>1, <1>2, <2>2
      <3> QED
        BY <1>2, <3>1 DEF TellId
    <2> QED
      BY <2>1, <2>2
  <1> QED
    BY <1>2 DEF TellId

LEMMA CarryAddress ==
    ASSUME AddressInv, OwnInv', NEW status \in {CM_NORMAL, MC_SENSOR_ERROR},
           Carry(status)
    PROVE  AddressInv'
  <1> DEFINE r == Head(todo)
             cost == IF status = CM_NORMAL THEN 0 ELSE 1
  <1>1. /\ todo # <<>> /\ todo' = Tail(todo) /\ r.to = <<id>>
        /\ UNCHANGED <<pc, objVars, current, queue, suspect>>
        /\ id' = IF r.cmd.name = "CM_SET_ID" THEN r.arg ELSE id
        /\ executed' = [executed EXCEPT ![r.n] = @ + 1]
        /\ SendSection(Section(Payload(r.cmd, current.n), status), FALSE, cost)
    BY DEF Carry
  <1>2. /\ InFrame /\ InFrame'
        /\ todo' = <<>> => r = Last(queue)
    BY <1>1, ServeFrame DEF AddressInv, OwnInv
  <1>3. /\ pc = "hub" /\ pc' = "hub"
        /\ r.n \in 1 .. MaxCalls /\ current.n \in 1 .. MaxCalls
        /\ executed[current.n] = 0
        /\ IF todo' = <<>> THEN r.n = current.n /\ r.cmd = current.cmd
                           ELSE r.n # current.n
    BY <1>1, NextRequest DEF AddressInv, OwnInv, DataInv
  <1>4. cell' = cell /\ ExtMode' = ExtMode
    BY <1>1 DEF objVars
  <1>5. ServedOK'
    <2> SUFFICES ASSUME todo' = <<>>
                 PROVE  IF current.cmd.name = "CM_SET_ID" THEN id' = current.arg
                        ELSE Last(queue).to = <<id'>>
      BY <1>1 DEF ServedOK
    <2>1. r = Last(queue) /\ r.cmd = current.cmd /\ r.arg = current.arg
      BY <1>2, <1>3 DEF AddressInv, OwnInv, FrameOK
    <2> QED
      BY <1>1, <2>1
  <1>6. SentOK'
    BY <1>1, <1>2, <1>3, <1>4 DEF AddressInv, SentOK
  <1>7. KnownOK'
    <2> SUFFICES ASSUME ~suspect,
                        current.cmd.name \notin {"CM_SET_ID", "CM_OPEN"}
                 PROVE  /\ Last(queue).to = <<id'>> /\ NoSetId
                        /\ current.cmd.name = "CM_GET_ID" /\ OnlyGetId =>
                               cell["bID"] = <<id'>> /\ TellId'
      BY <1>1, <1>4 DEF KnownOK, NoSetId, OnlyGetId
    <2>1. Last(queue).to = <<id>> /\ NoSetId
      BY <1>2 DEF AddressInv, KnownOK
    <2>2. PICK j \in DOMAIN queue : r = queue[j]
      BY <1>1, NextData DEF AddressInv, OwnInv
    <2>3. id' = id
      BY <1>1, <2>1, <2>2 DEF NoSetId
    <2>4. ASSUME current.cmd.name = "CM_GET_ID", OnlyGetId
          PROVE  cell["bID"] = <<id'>> /\ TellId'
      <3>1. cell["bID"] = <<id>> /\ TellId
        BY <1>2, <2>4 DEF AddressInv, KnownOK
      <3>2. PICK c, n, p : c = r.cmd /\ n = current.n /\ p = Payload(c, n)
        OBVIOUS
      <3>3. c \in AllCommands /\ (c.rx = 1 => c.name = "CM_GET_ID")
        <4>1. Proper(queue[j])
          BY DEF AddressInv, OwnInv, DataInv, DataOK
        <4> QED
          BY <2>2, <2>4, <3>2, <4>1 DEF OnlyGetId, Proper
      <3>4. id \in Id /\ faults \in Nat /\ IsSeq(reply)
        BY DEF AddressInv, OwnInv, DataInv, DataType, CmdInv, RepliesOK
      <3>5. /\ p \in Seq(Byte) /\ Len(p) = c.rx
            /\ c.name = "CM_GET_ID" => p = <<id>>
        BY <1>3, <3>2, <3>3, <3>4, PayloadFacts
      <3>6. status \in Byte /\ cost \in {0, 1}
        BY DEF CM_NORMAL, MC_SENSOR_ERROR, Byte
      <3> HIDE DEF r, cost
      <3>7. SendSection(Section(p, status), FALSE, cost)
        BY <1>1, <3>2
      <3>8. PICK s \in Seq(Byte) :
                /\ reply' = Append(reply, s) /\ Len(s) = Len(p) + 2
                /\ CheckSum(s) => DataOf(s) = p
        BY <3>4, <3>5, <3>6, <3>7, SentSection
      <3>9. ASSUME CheckSum(s), Len(s) = 3 PROVE DataOf(s) = <<id>>
        <4>1. PICK k \in Nat : k = Len(p)
          BY <3>5
        <4>2. k + 2 = 3
          BY <3>8, <3>9, <4>1, Zenon
        <4>3. c.rx = 1
          BY <3>5, <4>1, <4>2
        <4> QED
          BY <3>3, <3>5, <3>8, <3>9, <4>3, Zenon
      <3>10. TellId'
        BY <2>3, <3>1, <3>4, <3>8, <3>9, TellMore
      <3> QED
        BY <2>3, <3>1, <3>10
    <2> QED
      BY <2>1, <2>3, <2>4
  <1> QED
    BY <1>2, <1>3, <1>5, <1>6, <1>7 DEF AddressInv, SettledOK, AskedOK

LEMMA DeclineAddress ==
    ASSUME AddressInv, OwnInv', Decline
    PROVE  AddressInv'
  <1>1. /\ todo # <<>> /\ todo' = Tail(todo)
        /\ UNCHANGED <<pc, objVars, current, queue, suspect, id, executed>>
        /\ \E status \in {CM_NAK, CM_REPLY_NO}, cost \in {0, 1} :
               SendSection(Section(<<>>, status), TRUE, cost)
    BY DEF Decline, moduleVars
  <1>2. InFrame /\ InFrame'
    BY <1>1, ServeFrame DEF AddressInv, OwnInv
  <1>3. pc = "hub" /\ pc' = "hub" /\ executed[current.n] = 0
    BY <1>1, NextRequest DEF AddressInv, OwnInv, DataInv
  <1>4. cell' = cell /\ ExtMode' = ExtMode
    BY <1>1 DEF objVars
  <1>5. ASSUME TellId PROVE TellId'
    <2>1. PICK status \in {CM_NAK, CM_REPLY_NO}, cost \in {0, 1} :
              SendSection(Section(<<>>, status), TRUE, cost)
      BY <1>1
    <2>2. PICK p : p = <<>>
      OBVIOUS
    <2>3. PICK refusal \in BOOLEAN : refusal = TRUE
      OBVIOUS
    <2>4. p \in Seq(Byte) /\ Len(p) = 0 /\ status \in Byte /\ faults \in Nat
      BY <2>2
      DEF CM_NAK, CM_REPLY_NO, Byte, AddressInv, OwnInv, DataInv, DataType
    <2>5. SendSection(Section(p, status), refusal, cost)
      BY <2>1, <2>2, <2>3
    <2>6. \E s \in Seq(Byte) :
              /\ reply' = Append(reply, s) /\ Len(s) = Len(p) + 2
              /\ CheckSum(s) => DataOf(s) = p
              /\ \/ forged' = forged /\ StatusOf(s) = status
                 \/ forged' = IF refusal THEN forged \cup {Head(todo).n}
                              ELSE forged
              /\ faults' \in Nat
      BY <2>4, <2>5, SentSection
    <2>7. PICK s \in Seq(Byte) : reply' = Append(reply, s) /\ Len(s) = 2
      BY <2>4, <2>6
    <2>8. IsSeq(reply)
      BY DEF AddressInv, OwnInv, DataInv, CmdInv, RepliesOK
    <2>9. Len(s) # 3 /\ id' = id
      BY <1>1, <2>7
    <2> QED
      BY <1>5, <2>7, <2>8, <2>9, TellMore, Zenon
  <1>6. ServedOK'
    BY <1>1, <1>3 DEF ServedOK
  <1>7. SentOK'
    BY <1>1, <1>2, <1>3, <1>4 DEF AddressInv, SentOK
  <1>8. KnownOK'
    BY <1>1, <1>2, <1>4, <1>5
    DEF AddressInv, KnownOK, NoSetId, OnlyGetId
  <1> QED
    BY <1>2, <1>3, <1>6, <1>7, <1>8 DEF AddressInv, SettledOK, AskedOK

\* Of the commands, GetID alone has its answer written to the id.
LEMMA DeliverAddress ==
    ASSUME AddressInv, OwnInv', Deliver
    PROVE  AddressInv'
  <1>1. /\ InFrame /\ InFrame' /\ pc' = "deliver" /\ todo = <<>>
        /\ UNCHANGED <<current, queue, todo, id, executed, forged, suspect>>
    BY DeliverEffect DEF AddressInv, OwnInv
  <1>2. PICK s \in Seq(Byte) :
            /\ 1 \in DOMAIN reply /\ s = reply[1]
            /\ \A i \in DOMAIN reply' : i + 1 \in DOMAIN reply
                                        /\ reply'[i] = reply[i + 1]
            /\ \/ UNCHANGED <<cell, ExtMode>>
               \/ /\ Len(s) = wReqRxSize /\ CheckSum(s) /\ ExtMode' = FALSE
                  /\ cell' = [cell EXCEPT ![IF ExtMode THEN "board"
                                           ELSE pReserveBuffer] = DataOf(s)]
    BY DeliverEffect DEF AddressInv, OwnInv
  <1>3. /\ current.cmd \in AllCommands /\ "bID" \in DOMAIN cell
        /\ pReserveBuffer = current.cmd.dest
        /\ wReqRxSize = current.cmd.rx + 2
    BY <1>1, FrameCall
    DEF AddressInv, OwnInv, FrameOK, DataInv, DataOK, Place
  <1>4. \/ cell'["bID"] = cell["bID"]
        \/ /\ current.cmd.name = "CM_GET_ID" /\ ~ExtMode /\ Len(s) = 3
           /\ CheckSum(s) /\ cell'["bID"] = DataOf(s)
    <2>1. CASE UNCHANGED <<cell, ExtMode>>
      BY <2>1
    <2>2. CASE /\ Len(s) = wReqRxSize /\ CheckSum(s)
               /\ cell' = [cell EXCEPT ![IF ExtMode THEN "board"
                                        ELSE pReserveBuffer] = DataOf(s)]
      <3>1. CASE ExtMode \/ pReserveBuffer # "bID"
        BY <1>3, <2>2, <3>1
      <3>2. CASE ~ExtMode /\ pReserveBuffer = "bID"
        <4>1. current.cmd.name = "CM_GET_ID" /\ current.cmd.rx = 1
          BY <1>3, <3>2, CommandFacts
        <4> QED
          BY <1>3, <2>2, <3>2, <4>1
      <3> QED
        BY <3>1, <3>2
    <2> QED
      BY <1>2, <2>1, <2>2
  <1>5. ServedOK'
    BY <1>1 DEF AddressInv, ServedOK
  <1>6. SentOK'
    <2> SUFFICES ASSUME current.cmd.name # "CM_GET_ID" \/ ExtMode'
                 PROVE  cell'["bID"] = Last(queue).to
      BY <1>1 DEF SentOK
    <2>1. ExtMode' => ExtMode
      BY <1>2
    <2>2. cell["bID"] = Last(queue).to
      BY <1>1, <2>1 DEF AddressInv, SentOK
    <2>3. cell'["bID"] = cell["bID"]
      BY <1>4, <2>1
    <2> QED
      BY <2>2, <2>3
  <1>7. KnownOK'
    <2>1. ASSUME TellId PROVE TellId' /\ (CheckSum(s) /\ Len(s) = 3 =>
                                               DataOf(s) = <<id>>)
      BY <1>1, <1>2, <2>1 DEF TellId
    <2>2. NoSetId' <=> NoSetId
      BY <1>1 DEF NoSetId
    <2>3. OnlyGetId' <=> OnlyGetId
      BY <1>1 DEF OnlyGetId
    <2>4. ASSUME ~suspect, current.cmd.name \notin {"CM_SET_ID", "CM_OPEN"}
          PROVE  /\ Last(queue).to = <<id>> /\ NoSetId
                 /\ current.cmd.name = "CM_GET_ID" /\ OnlyGetId =>
                        cell'["bID"] = <<id>> /\ TellId'
      BY <1>1, <1>4, <2>1, <2>4 DEF AddressInv, KnownOK
    <2> QED
      BY <1>1, <2>2, <2>3, <2>4 DEF KnownOK
  <1>8. AskedOK'
    <2> SUFFICES ASSUME reply' = <<>>, current.cmd.name = "CM_GET_ID", Taken'
                 PROVE  cell'["bID"] = <<id>>
      BY <1>1 DEF AskedOK
    <2>1. current.cmd.rx = 1 /\ current.cmd.dest = "bID"
      BY <1>3, CommandFacts
    <2>2. \E t \in Seq(Byte) :
              /\ executed[current.n] = 1
              /\ DataOf(t) = Payload(current.cmd, current.n)
              /\ cell' = [cell EXCEPT ![IF ExtMode THEN "board"
                                        ELSE current.cmd.dest] = DataOf(t)]
      <3>1. current.cmd.rx > 0
        BY <2>1
      <3> QED
        BY <3>1, LastSection DEF AddressInv
    <2>3. Payload(current.cmd, current.n) = <<id>>
      <3>1. PICK c, n : c = current.cmd /\ n = current.n
        OBVIOUS
      <3>2. c \in AllCommands /\ n \in 1 .. MaxCalls /\ id \in Id
        BY <1>1, <3>1, FrameCall DEF AddressInv, OwnInv
      <3>3. Payload(c, n) = <<id>>
        BY <2>1, <3>1, <3>2, PayloadFacts
      <3> QED
        BY <3>1, <3>3
    <2>4. CASE ~ExtMode
      BY <1>3, <2>1, <2>2, <2>3, <2>4
    <2>5. CASE ExtMode
      <3>1. cell["bID"] = Last(queue).to
        BY <1>1, <2>5 DEF AddressInv, SentOK
      <3>2. Last(queue).to = <<id>>
        BY <1>1, <2>2 DEF AddressInv, ServedOK
      <3>3. cell'["bID"] = cell["bID"]
        BY <1>3, <2>2, <2>5
      <3> QED
        BY <3>1, <3>2, <3>3
    <2> QED
      BY <2>4, <2>5
  <1> QED
    BY <1>1, <1>5, <1>6, <1>7, <1>8 DEF AddressInv, SettledOK

LEMMA FailAddress ==
    ASSUME AddressInv, OwnInv', Fail
    PROVE  AddressInv'
  <1>1. /\ pc = "hub" /\ InFrame
        /\ UNCHANGED <<opened, cell, queue, id>>
        /\ Answer(current.cmd, current.n, "FALSE")
    BY DEF Fail, objVars, moduleVars, InFrame
  <1>2. pc' \in {"idle", "config"} /\ ~InFrame'
    BY <1>1 DEF Answer, InFrame
  <1>3. ASSUME ~suspect' PROVE cell["bID"] = <<id>> /\ NoSetId
    <2>1. ~suspect /\ current.cmd.name \notin {"CM_SET_ID", "CM_OPEN"}
      BY <1>1, <1>3 DEF Answer
    <2>2. Last(queue).to = <<id>> /\ NoSetId
      BY <1>1, <2>1 DEF AddressInv, KnownOK
    <2>3. cell["bID"] = Last(queue).to
      BY <1>1 DEF AddressInv, SentOK
    <2> QED
      BY <2>2, <2>3
  <1>4. SettledOK'
    BY <1>1, <1>3 DEF SettledOK, NoSetId
  <1> QED
    BY <1>2, <1>4 DEF AddressInv, ServedOK, SentOK, KnownOK, AskedOK

LEMMA ReturnAddress ==
    ASSUME AddressInv, OwnInv', Return
    PROVE  AddressInv'
  <1>1. /\ pc = "deliver" /\ reply = <<>> /\ InFrame /\ queue' = <<>>
        /\ UNCHANGED <<opened, id>>
    BY DEF Return, moduleVars, InFrame
  <1>2. PICK value \in Results :
            /\ Answer(current.cmd, current.n, value)
            /\ cell' = IF value = "TRUE" THEN Stored ELSE cell
    BY DEF Return
  <1>3. pc' \in {"idle", "config"} /\ ~InFrame'
    BY <1>2 DEF Answer, InFrame
  <1>4. todo = <<>> /\ "bID" \in DOMAIN cell
    BY <1>1 DEF AddressInv, OwnInv, DataInv, DataOK, CmdInv, RequestsOK, Place
  <1>5. ASSUME current.cmd.name # "CM_SET_ID" PROVE cell'["bID"] = cell["bID"]
    <2>1. Stored["bID"] = cell["bID"]
      <3>1. CASE current.cmd = CommandGetConfig
        BY <1>4, <1>5, <3>1 DEF Stored
      <3>2. CASE current.cmd # CommandGetConfig
        BY <1>5, <3>2 DEF Stored
      <3> QED
        BY <3>1, <3>2
    <2> QED
      BY <1>2, <2>1
  <1>6. ASSUME value = "TRUE", current.n \notin forged
        PROVE  cell'["bID"] = <<id>>
    <2>1. Taken
      BY <1>2, <1>6 DEF Results, Taken
    <2>2. executed[current.n] = 1
      BY <1>1, <1>2, <1>6, TrueMeansDone DEF AddressInv, OwnInv, DataInv, Done
    <2>3. CASE current.cmd.name = "CM_SET_ID"
      <3>1. id = current.arg
        BY <1>1, <1>4, <2>2, <2>3 DEF AddressInv, ServedOK
      <3>2. cell' = [cell EXCEPT !.bID = <<current.arg>>]
        <4>1. current.cmd # CommandGetConfig
          BY <2>3, ThreeCommands
        <4> QED
          BY <1>2, <1>6, <2>3, <4>1 DEF Stored
      <3> QED
        BY <1>4, <3>1, <3>2
    <2>4. CASE current.cmd.name = "CM_GET_ID"
      BY <1>1, <1>5, <2>1, <2>4 DEF AddressInv, AskedOK
    <2>5. CASE current.cmd.name \notin {"CM_SET_ID", "CM_GET_ID"}
      <3>1. Last(queue).to = <<id>>
        BY <1>1, <1>4, <2>2, <2>5 DEF AddressInv, ServedOK
      <3> QED
        BY <1>1, <1>5, <2>5, <3>1 DEF AddressInv, SentOK
    <2> QED
      BY <2>3, <2>4, <2>5
  <1>7. ASSUME ~(value = "TRUE" /\ current.n \notin forged), ~suspect'
        PROVE  cell'["bID"] = <<id>>
    <2>1. /\ ~suspect /\ current.cmd.name \notin {"CM_SET_ID", "CM_OPEN"}
          /\ ~MixesBytes(current.cmd)
      BY <1>2, <1>7 DEF Answer
    <2>2. CASE current.cmd.name = "CM_GET_ID"
      <3>1. OnlyGetId
        BY <1>1, <2>1, <2>2 DEF MixesBytes, OnlyGetId
      <3>2. cell["bID"] = <<id>>
        BY <1>1, <2>1, <2>2, <3>1 DEF AddressInv, KnownOK
      <3> QED
        BY <1>5, <2>2, <3>2
    <2>3. CASE current.cmd.name # "CM_GET_ID"
      BY <1>1, <1>5, <2>1, <2>3 DEF AddressInv, KnownOK, SentOK
    <2> QED
      BY <2>2, <2>3
  <1>8. NoSetId'
    BY <1>1 DEF NoSetId
  <1>9. SettledOK'
    BY <1>1, <1>6, <1>7, <1>8 DEF SettledOK
  <1> QED
    BY <1>3, <1>9 DEF AddressInv, ServedOK, SentOK, KnownOK, AskedOK

LEMMA StillAddress ==
    ASSUME AddressInv, OwnInv', UNCHANGED vars
    PROVE  AddressInv'
  <1>1. UNCHANGED <<pc, opened, cell, bStatus, ExtMode, current, queue, todo,
                    reply, id, executed, forged, suspect>>
    BY DEF vars, objVars, moduleVars
  <1>2. SettledOK' /\ ServedOK' /\ SentOK' /\ AskedOK'
    BY <1>1
    DEF AddressInv, SettledOK, ServedOK, SentOK, AskedOK, NoSetId, Taken,
        InFrame
  <1>3. KnownOK'
    BY <1>1 DEF AddressInv, KnownOK, NoSetId, OnlyGetId, TellId, InFrame
  <1> QED
    BY <1>2, <1>3 DEF AddressInv

LEMMA StepAddressInv == AddressInv /\ [Next]_vars => AddressInv'
  <1> SUFFICES ASSUME AddressInv, [Next]_vars PROVE AddressInv'
    OBVIOUS
  <1>1. OwnInv'
    BY StepOwnInv DEF AddressInv
  <1>2. "bID" \in DOMAIN cell /\ NewLocals["bID"] = cell["bID"]
    BY DEF AddressInv, OwnInv, DataInv, DataOK, Place, NewLocals
  <1>3. ASSUME NEW c \in AllCommands, NEW arg, Call(c, arg) PROVE AddressInv'
    <2>1. /\ ~InFrame /\ opened /\ cell' = NewLocals
          /\ Transceive(c, arg, cell["bID"])
      BY <1>3 DEF Call, InFrame
    <2> QED
      BY <1>1, <1>2, <2>1, TransceiveAddress
  <1>4. ASSUME NEW i \in Id, Open(i) PROVE AddressInv'
    <2>1. /\ ~InFrame /\ cell' = [NewLocals EXCEPT !.bID = <<i>>]
          /\ Transceive(CommandOpen, 0, <<i>>)
      BY <1>4 DEF Open, InFrame
    <2>2. cell'["bID"] = <<i>>
      BY <1>2, <2>1 DEF NewLocals
    <2> QED
      BY <1>1, <2>1, <2>2, TransceiveAddress, ThreeCommands
  <1>5. CASE OpenGoesOn
    <2>1. /\ ~InFrame /\ pc = "config" /\ cell' = NewLocals
          /\ Transceive(CommandGetConfig, 0, cell["bID"])
      BY <1>5 DEF OpenGoesOn, InFrame
    <2>2. opened
      BY <2>1 DEF AddressInv, OwnInv, DataInv, DataOK
    <2> QED
      BY <1>1, <1>2, <2>1, <2>2, TransceiveAddress, ThreeCommands
  <1> QED
    BY <1>1, <1>3, <1>4, <1>5, UnopenedAddress, StillAddress, CarryAddress,
       DeclineAddress, FailAddress, DeliverAddress, ReturnAddress
    DEF Next

LEMMA AddressInvariant == Spec => []AddressInv
  BY InitAddressInv, StepAddressInv, PTL DEF Spec

\* Between calls the object knows the id of its module, whatever has failed,
\* as long as no SetID or Open has, and no GetID with other one-byte answers
\* in its frame, since a call last returned TRUE.
THEOREM IdKnown == Spec => []AddressKnown
  <1>1. AddressInv => AddressKnown
    BY DEF AddressInv, SettledOK, AddressKnown, InFrame
  <1> QED
    BY <1>1, AddressInvariant, PTL

=============================================================================
