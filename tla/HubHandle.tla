----------------------------- MODULE HubHandle -----------------------------
(***************************************************************************)
(* The USB handle of the SC02 hub object: Open with its loop over          *)
(* DeviceOpen, Close, constructor and destructor (SC02.cpp).               *)
(*                                                                         *)
(* The object is used as in Ex.cpp: it is not opened while it is open, nor *)
(* closed unless it is.  A handle is the number of the device it is open   *)
(* for, since no device can be opened twice at a time.                     *)
(* External: the FTDI driver and the hubs.  The driver lists some of the   *)
(* devices, each can be opened or not at each attempt, and a hub answers   *)
(* GetID, or with its status only, or not at all.                          *)
(***************************************************************************)
EXTENDS Integers

CONSTANTS
    N,            \* the number of devices there can be
    IdOf,         \* device |-> the id of its hub
    Target,       \* the ids asked for
    CM_MASTER_ID, \* the id that stands for any hub
    CM_NORMAL     \* status of a command that was carried out

Device == 1 .. N
NULL == 0
INVALID_HANDLE_VALUE == -1
Id == {IdOf[d] : d \in Device} \cup {0, CM_NORMAL}

ASSUME HubAssumption ==
    /\ N \in Nat
    /\ IdOf \in [Device -> Nat]

VARIABLES
    pc,          \* "closed", "opening", "open", "failed" (Open has
                 \* returned FALSE) or "gone" (destroyed)
    bTargetID,   \* argument of the latest Open
    dwNumDevice, \* devices listed at the latest Open
    dwIndex,     \* the device its loop is at
    hUSB,        \* the handle field
    bID,         \* the id field, 0 at first since the object is global
    reply,       \* what has come for the latest GetID
    opened       \* devices open in the driver

vars == <<pc, bTargetID, dwNumDevice, dwIndex, hUSB, bID, reply, opened>>

-----------------------------------------------------------------------------

Init ==
    /\ pc = "closed"
    /\ bTargetID = CM_MASTER_ID
    /\ dwNumDevice = 0
    /\ dwIndex = 1
    /\ hUSB = NULL
    /\ bID = 0
    /\ reply = "none"
    /\ opened = {}

\* SC02::Open up to its loop.
Open ==
    /\ pc \in {"closed", "failed"}
    /\ bTargetID' \in Target \cup {CM_MASTER_ID}
    /\ dwNumDevice' \in 0 .. N
    /\ dwIndex' = 1
    /\ pc' = IF dwNumDevice' = 0 THEN "failed" ELSE "opening"
    /\ UNCHANGED <<hUSB, bID, reply, opened>>

\* mutant: the loop runs once more.
NextDeviceAfterLast ==
    /\ dwIndex' = dwIndex + 1
    /\ pc' = IF dwIndex <= dwNumDevice THEN "opening" ELSE "failed"

\* The end of a turn of the loop in which DeviceOpen has returned FALSE.
NextDevice ==
    /\ dwIndex' = dwIndex + 1
    /\ pc' = IF dwIndex < dwNumDevice THEN "opening" ELSE "failed"

\* DeviceOpen when FT_W32_CreateFile gives INVALID_HANDLE_VALUE.
CannotOpen ==
    /\ pc = "opening"
    /\ hUSB' = INVALID_HANDLE_VALUE
    /\ NextDevice
    /\ UNCHANGED <<bTargetID, dwNumDevice, bID, reply, opened>>

\* DeviceOpen without a target: any device will do, and none is asked.
OpenAny ==
    /\ pc = "opening"
    /\ bTargetID = CM_MASTER_ID
    /\ hUSB' = dwIndex
    /\ opened' = opened \cup {dwIndex}
    /\ pc' = "open"
    /\ UNCHANGED <<bTargetID, dwNumDevice, dwIndex, bID, reply>>

\* bID after GetID.  A reply that is only the status CM_NORMAL is accepted
\* as a short one, and its byte is copied to bID.  Without a reply, or after
\* an error of the driver, bID is what it was.
IdRead(answer) ==
    CASE answer = "id"     -> IdOf[dwIndex]
      [] answer = "status" -> CM_NORMAL
      [] answer = "none"   -> bID

\* mutant: the ids are compared before GetID.
OpenAskedLate(answer) ==
    /\ pc = "opening"
    /\ bTargetID # CM_MASTER_ID
    /\ hUSB' = dwIndex
    /\ reply' = answer
    /\ bID' = IdRead(answer)
    /\ IF bTargetID = bID
       THEN opened' = opened \cup {dwIndex} /\ pc' = "open" /\ dwIndex' = dwIndex
       ELSE opened' = opened /\ NextDevice
    /\ UNCHANGED <<bTargetID, dwNumDevice>>

\* mutant: a device with another id is left open.
OpenAskedLeaves(answer) ==
    /\ pc = "opening"
    /\ bTargetID # CM_MASTER_ID
    /\ hUSB' = dwIndex
    /\ reply' = answer
    /\ bID' = IdRead(answer)
    /\ opened' = opened \cup {dwIndex}
    /\ IF bTargetID = IdRead(answer) THEN pc' = "open" /\ dwIndex' = dwIndex
                                     ELSE NextDevice
    /\ UNCHANGED <<bTargetID, dwNumDevice>>

\* DeviceOpen with a target.  The result of GetID is ignored, only bID is
\* compared.  A device with another id is closed again, but stays in hUSB.
OpenAsked(answer) ==
    /\ pc = "opening"
    /\ bTargetID # CM_MASTER_ID
    /\ hUSB' = dwIndex
    /\ reply' = answer
    /\ bID' = IdRead(answer)
    /\ IF bTargetID = bID'
       THEN opened' = opened \cup {dwIndex} /\ pc' = "open" /\ dwIndex' = dwIndex
       ELSE opened' = opened /\ NextDevice
    /\ UNCHANGED <<bTargetID, dwNumDevice>>

\* mutant: hUSB is not reset.
CloseKeepsHandle ==
    /\ pc = "open"
    /\ opened' = opened \ {hUSB}
    /\ pc' = "closed"
    /\ UNCHANGED <<bTargetID, dwNumDevice, dwIndex, hUSB, bID, reply>>

\* SC02::Close.
Close ==
    /\ pc = "open"
    /\ opened' = opened \ {hUSB}
    /\ hUSB' = NULL
    /\ pc' = "closed"
    /\ UNCHANGED <<bTargetID, dwNumDevice, dwIndex, bID, reply>>

\* SC02::~SC02, which closes whatever is in hUSB.
Destroy ==
    /\ pc \in {"closed", "failed", "open"}
    /\ opened' = opened \ {hUSB}
    /\ hUSB' = NULL
    /\ pc' = "gone"
    /\ UNCHANGED <<bTargetID, dwNumDevice, dwIndex, bID, reply>>

Next ==
    \/ Open
    \/ CannotOpen
    \/ OpenAny
    \/ \E answer \in {"id", "status", "none"} : OpenAsked(answer)
    \/ Close
    \/ Destroy

Spec == Init /\ [][Next]_vars

-----------------------------------------------------------------------------

\* Every variable has its type, and the loop only tries devices listed.
TypeOK ==
    /\ pc \in {"closed", "opening", "open", "failed", "gone"}
    /\ bTargetID \in Target \cup {CM_MASTER_ID}
    /\ dwNumDevice \in 0 .. N
    /\ dwIndex \in 1 .. dwNumDevice + 1
    /\ pc \in {"opening", "open"} => dwIndex <= dwNumDevice
    /\ hUSB \in Device \cup {NULL, INVALID_HANDLE_VALUE}
    /\ bID \in Id
    /\ reply \in {"id", "status", "none"}
    /\ opened \subseteq Device

\* Whatever devices were tried, could not be opened or had another id, none
\* but the one that Open returned TRUE for is open: devices are opened for
\* exclusive use, and nobody could open one that was left behind.
OnlyTheOneOpen ==
    opened = IF pc = "open" THEN {hUSB} ELSE {}

\* An Open that returns TRUE has found the hub with the id asked for, unless
\* that hub has not told its id: the id that is compared is then that of an
\* earlier hub, or any.
OpensTheTarget ==
    pc = "open" /\ bTargetID # CM_MASTER_ID =>
        bID = bTargetID /\ (reply = "id" => IdOf[hUSB] = bTargetID)

\* Transceive and the destructor take it that nothing is open if hUSB is
\* NULL and that hUSB is open if not.  So it is, except after an Open that
\* has failed: hUSB is then invalid or a handle that is closed already.
HandleTellsOpen ==
    pc \notin {"opening", "failed"} =>
        opened = IF hUSB = NULL THEN {} ELSE {hUSB}
=============================================================================
