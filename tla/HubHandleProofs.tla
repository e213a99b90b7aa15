-------------------------- MODULE HubHandleProofs --------------------------
(***************************************************************************)
(* Proofs about HubHandle, for every number of hubs and all their ids.     *)
(***************************************************************************)
EXTENDS HubHandle, TLAPS

\* The three properties hold each other up: what Open finds open depends on
\* what a failed loop has left, and what Close leaves open on hUSB.
HandleInv == TypeOK /\ OnlyTheOneOpen /\ OpensTheTarget /\ HandleTellsOpen

LEMMA InitHandle == Init => HandleInv
  BY HubAssumption
  DEF Init, HandleInv, TypeOK, OnlyTheOneOpen, OpensTheTarget,
      HandleTellsOpen, Device, NULL, Id

LEMMA StepHandle == HandleInv /\ [Next]_vars => HandleInv'
<1> SUFFICES ASSUME HandleInv, [Next]_vars PROVE HandleInv'
  OBVIOUS
<1> USE HubAssumption
    DEF HandleInv, TypeOK, OnlyTheOneOpen, OpensTheTarget, HandleTellsOpen,
        NULL, INVALID_HANDLE_VALUE, Device
<1>1. CASE Open
  <2>1. PICK n \in 0 .. N : dwNumDevice' = n
    BY <1>1 DEF Open
  <2>2. pc' = (IF n = 0 THEN "failed" ELSE "opening") /\ opened' = {}
    BY <1>1, <2>1 DEF Open
  <2>3. /\ dwIndex' \in 1 .. dwNumDevice' + 1
        /\ pc' \in {"opening", "open"} => dwIndex' <= dwNumDevice'
    BY <1>1, <2>1, <2>2 DEF Open
  <2>4. TypeOK'
    BY <1>1, <2>2, <2>3 DEF Open
  <2>5. QED
    BY <2>2, <2>4
<1>2. CASE CannotOpen
  BY <1>2 DEF CannotOpen, NextDevice
<1>3. CASE OpenAny
  BY <1>3 DEF OpenAny
<1>4. CASE \E answer \in {"id", "status", "none"} : OpenAsked(answer)
  <2>1. PICK answer \in {"id", "status", "none"} : OpenAsked(answer)
    BY <1>4
  <2>2. dwIndex \in Device /\ opened = {}
    BY <2>1 DEF OpenAsked
  <2>3. IdRead(answer) \in Id
    BY <2>2 DEF IdRead, Id
  <2>4. CASE bTargetID = bID'
    BY <2>1, <2>2, <2>3, <2>4 DEF OpenAsked, IdRead
  <2>5. CASE bTargetID # bID'
    BY <2>1, <2>2, <2>3, <2>5 DEF OpenAsked, NextDevice
  <2>6. QED BY <2>4, <2>5
<1>5. CASE Close
  BY <1>5 DEF Close
<1>6. CASE Destroy
  BY <1>6 DEF Destroy
<1>7. CASE UNCHANGED vars
  BY <1>7 DEF vars
<1>8. QED
  BY <1>1, <1>2, <1>3, <1>4, <1>5, <1>6, <1>7 DEF Next

LEMMA HandleInvariant == Spec => []HandleInv
  BY InitHandle, StepHandle, PTL DEF Spec

\* The handle, the id and the place of the loop over the devices are always
\* of their types: the loop never tries a device that is not listed.
THEOREM TypeCorrect == Spec => []TypeOK
<1>1. HandleInv => TypeOK
  BY DEF HandleInv
<1>2. QED
  BY <1>1, HandleInvariant, PTL

\* SC02::Open leaves no device open but the one that it returns TRUE for.
THEOREM NoDeviceLeftOpen == Spec => []OnlyTheOneOpen
<1>1. HandleInv => OnlyTheOneOpen
  BY DEF HandleInv
<1>2. QED
  BY <1>1, HandleInvariant, PTL

\* A hub that has told its id is the one that SC02::Open was asked for.
THEOREM TargetOpened == Spec => []OpensTheTarget
<1>1. HandleInv => OpensTheTarget
  BY DEF HandleInv
<1>2. QED
  BY <1>1, HandleInvariant, PTL

\* hUSB tells Transceive and the destructor whether a device is open,
\* except after a failed Open.
THEOREM HandleTellsWhatIsOpen == Spec => []HandleTellsOpen
<1>1. HandleInv => HandleTellsOpen
  BY DEF HandleInv
<1>2. QED
  BY <1>1, HandleInvariant, PTL
=============================================================================
