------------------------------ MODULE Requests ------------------------------
(***************************************************************************)
(* Requests that are answered by a function of what they come with: one is  *)
(* chosen at the start, and its answer is given once.                       *)
(***************************************************************************)
CONSTANT Pending    \* not answered yet

VARIABLES
    task,       \* what is asked for: task.op says of which function
    answer      \* what it is answered with

requestVars == <<task, answer>>

AnswerWith(op, value) ==
    task.op = op /\ answer = Pending /\ answer' = value /\ UNCHANGED task

Answered(op) == task.op = op /\ answer # Pending
=============================================================================
