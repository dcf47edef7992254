---------------------------------- MODULE Poll ----------------------------------
(***************************************************************************)
(* What a call of GetOrders promises the actualize task: it asks about a    *)
(* set of numbers, each number gets one answer, and only a call whose       *)
(* numbers are all answered counts as complete.  The worker pool            *)
(* implements it; ActualizeTask, whose GetOrder and ReceiveStatus are the   *)
(* Answer and Finish of this module, is written against it.                 *)
(***************************************************************************)
EXTENDS Naturals, FiniteSets

CONSTANT Numbers     \* the numbers a call may ask about

VARIABLES
    phase,      \* "idle", "asking", or "complete" until the caller goes on
    asked,      \* the numbers of the running call
    answered,   \* those answered so far
    answers     \* how many answers the caller has counted

pollVars == <<phase, asked, answered, answers>>

PollInit == phase = "idle" /\ asked = {} /\ answered = {} /\ answers = 0

Ask(S) ==
    /\ phase = "idle"
    /\ phase' = "asking"
    /\ asked' = S
    /\ UNCHANGED <<answered, answers>>

\* An answer is about a number of this call that has none yet.
AnswerNumber(n) ==
    /\ phase = "asking"
    /\ n \in asked \ answered
    /\ answered' = answered \cup {n}
    /\ answers' = answers + 1
    /\ UNCHANGED <<phase, asked>>

Forget == asked' = {} /\ answered' = {} /\ answers' = 0

Finish == phase = "asking" /\ answered = asked /\ phase' = "complete" /\ Forget

\* The call returns early, and its caller gives up the cycle.
Abandon == phase = "asking" /\ phase' = "idle" /\ Forget

\* The caller has used the answers.
GoOn == phase = "complete" /\ phase' = "idle" /\ UNCHANGED <<asked, answered, answers>>

PollNext ==
    \/ \E S \in SUBSET Numbers : Ask(S)
    \/ \E n \in Numbers : AnswerNumber(n)
    \/ Finish \/ Abandon \/ GoOn

PollSpec == PollInit /\ [][PollNext]_pollVars
=============================================================================
