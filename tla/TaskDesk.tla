------------------------------ MODULE TaskDesk ------------------------------
(***************************************************************************)
(* What whoever submits tasks is promised by the agent on the terminal,    *)
(* without processes, files or threads: a task is taken once; it is        *)
(* executed at most once, and not after it was answered; only a refusal    *)
(* may come without an execution; a task has one answer, and what is filed *)
(* of it is that answer; and only a task that was taken is called known.   *)
(* Taken tasks may stay without execution, answer or file for ever.        *)
(***************************************************************************)
EXTENDS Naturals, Sequences

CONSTANTS Tasks, Results, Refusal

VARIABLES
  taken,       \* tasks that were taken
  executions,  \* executions of each task
  answers,     \* answers given for each task
  filed,       \* the answer of each task that is on file, "none" before
  known        \* tasks that were called known when they came again

deskVars == <<taken, executions, answers, filed, known>>

Take(t) ==
  /\ t \notin taken
  /\ taken' = taken \cup {t}
  /\ UNCHANGED <<executions, answers, filed, known>>

Perform(t) ==
  /\ t \in taken /\ executions[t] = 0 /\ answers[t] = <<>>
  /\ executions' = [executions EXCEPT ![t] = 1]
  /\ UNCHANGED <<taken, answers, filed, known>>

Reply(t) ==
  /\ t \in taken /\ answers[t] = <<>>
  /\ \E result \in Results :
       /\ executions[t] = 0 => result = Refusal
       /\ answers' = [answers EXCEPT ![t] = <<result>>]
  /\ UNCHANGED <<taken, executions, filed, known>>

File(t) ==
  /\ answers[t] # <<>> /\ filed[t] = "none"
  /\ filed' = [filed EXCEPT ![t] = answers[t][1]]
  /\ UNCHANGED <<taken, executions, answers, known>>

CallKnown(t) ==
  /\ t \in taken
  /\ known' = known \cup {t}
  /\ UNCHANGED <<taken, executions, answers, filed>>

Init ==
  /\ taken = {} /\ known = {}
  /\ executions = [t \in Tasks |-> 0]
  /\ answers = [t \in Tasks |-> <<>>]
  /\ filed = [t \in Tasks |-> "none"]

Next == \E t \in Tasks : Take(t) \/ Perform(t) \/ Reply(t) \/ File(t) \/ CallKnown(t)

Spec == Init /\ [][Next]_deskVars

=============================================================================
