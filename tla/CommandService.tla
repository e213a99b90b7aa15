--------------------------- MODULE CommandService ---------------------------
(***************************************************************************)
(* What a control module promises its caller, and no more: a command that  *)
(* is answered TRUE was carried out once and is never carried out again; a *)
(* command that is answered FALSE may have been carried out, and may still *)
(* be, any number of times.                                                *)
(***************************************************************************)
EXTENDS Naturals

CONSTANT Number  \* the calls of methods, by number

VARIABLES
    told,      \* call |-> "none", "open", or what it was answered
    executed   \* call |-> how often the module has carried it out

Init ==
    /\ told = [n \in Number |-> "none"]
    /\ executed = [n \in Number |-> 0]

Ask(n) ==
    /\ told[n] = "none"
    /\ told' = [told EXCEPT ![n] = "open"]
    /\ UNCHANGED executed

\* The command does not even reach the link.
Refuse(n) ==
    /\ told[n] = "none"
    /\ told' = [told EXCEPT ![n] = "FALSE"]
    /\ UNCHANGED executed

Execute(n) ==
    /\ told[n] \in {"open", "FALSE"}
    /\ executed' = [executed EXCEPT ![n] = @ + 1]
    /\ UNCHANGED told

AnswerTrue(n) ==
    /\ told[n] = "open"
    /\ executed[n] = 1
    /\ told' = [told EXCEPT ![n] = "TRUE"]
    /\ UNCHANGED executed

AnswerFalse(n) ==
    /\ told[n] = "open"
    /\ told' = [told EXCEPT ![n] = "FALSE"]
    /\ UNCHANGED executed

Next == \E n \in Number : Ask(n) \/ Refuse(n) \/ Execute(n)
                        \/ AnswerTrue(n) \/ AnswerFalse(n)

Spec == Init /\ [][Next]_<<told, executed>>

TypeOK ==
    /\ told \in [Number -> {"none", "open", "TRUE", "FALSE"}]
    /\ executed \in [Number -> Nat]

\* A call that was answered TRUE was carried out once, now and for ever: a
\* request that an error leaves in the queue (SC02.cpp:226) is repeated, one
\* that was answered TRUE is not.
TrueMeansOnce == \A n \in Number : told[n] = "TRUE" => executed[n] = 1
=============================================================================
