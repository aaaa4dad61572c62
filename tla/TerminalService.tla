--------------------------- MODULE TerminalService ---------------------------
(***************************************************************************)
(* DroneAgentService on a terminal: JSON lines on standard input, answers  *)
(* on standard output, JsonTaskStore on disk so that a task is not run     *)
(* twice, and the thread of RealStateMonitor that publishes AGENT_STATE on *)
(* the same output.                                                        *)
(*                                                                         *)
(* The records in memory equal the file: put changes both, and a put that  *)
(* fails ends the process.  The telemetry a task is checked against is     *)
(* arbitrary.  A single thread handles the lines, so the BUSY answer of    *)
(* _handle_payload is never given (TypeOK); it is left out.  So is the     *)
(* answer EXECUTOR_UNAVAILABLE (drone_agent_service.py:227-235): the       *)
(* program that makes the service, run_terminal_agent.py, gives it an      *)
(* executor whenever the mode is "dry-run".                                *)
(***************************************************************************)
EXTENDS Naturals, Sequences

CONSTANTS
  Tasks,     \* task ids addressed to this agent
  Junk,      \* any other line: malformed, invalid, or for another agent
  Mode,      \* "dry-run" or "readonly"
  Faults,    \* what may go wrong, among "kill", "interrupt", "pipe", "disk", "encode", "executor"
  MaxLines,  \* lines submitted
  MaxRuns    \* times the process is started

ASSUME TaskAssumption == Junk \notin Tasks
ASSUME ModeAssumption == Mode \in {"dry-run", "readonly"}

VARIABLES
  phase,       \* what the main thread does next
  current,     \* the task it handles, or Junk
  work_state,  \* of the service
  records,     \* status of each task in the store, "none" if there is no record
  executions,  \* how often each task was given to the executor
  answers,     \* final results published for each task
  duplicates,  \* tasks that were answered with DUPLICATE
  inbox,       \* lines on standard input
  lines,       \* lines submitted so far
  input_open,  \* standard input is open
  pipe,        \* standard output can be written
  monitor,     \* the thread of the monitor
  callback,    \* the monitor has a publish callback
  stop_event,  \* the monitor was asked to stop
  spoken,      \* "none", "AGENT_STARTED" or "AGENT_STOPPED"
  runs         \* processes started so far

task_vars    == <<current, work_state, records, executions, answers, duplicates>>
input_vars   == <<inbox, lines, input_open>>
monitor_vars == <<monitor, callback, stop_event>>
process_vars == <<pipe, spoken, runs>>
tvars        == <<phase, task_vars, input_vars, monitor_vars, process_vars>>

Final == {"COMPLETED", "FAILED", "REJECTED"}

Handling == {"received", "execute", "running", "store"}

InTry == Handling \cup {"receive"}  \* the phases inside the try of run

-----------------------------------------------------------------------------
(* Store and output                                                        *)

NotStored(task, status) ==  \* a mistake: only results are stored
  IF status \in Final THEN [records EXCEPT ![task] = status] ELSE records

Stored(task, status) == [records EXCEPT ![task] = status]

\* put fails before the file is replaced; the exception ends run.
Put(task, status, next) ==
  \/ records' = Stored(task, status) /\ phase' = next
  \/ "disk" \in Faults /\ phase' = "stop_callback" /\ UNCHANGED records

-----------------------------------------------------------------------------
(* run and _handle_payload                                                 *)

Start ==
  /\ phase = "down" /\ runs < MaxRuns
  /\ phase' = "start"
  /\ runs' = runs + 1
  /\ monitor' = "polling" /\ callback' = FALSE /\ stop_event' = FALSE
  /\ pipe' = TRUE /\ spoken' = "none"
  /\ inbox' = <<>> /\ input_open' = TRUE
  /\ current' = Junk /\ work_state' = "IDLE"
  /\ UNCHANGED <<records, executions, answers, duplicates, lines>>

\* AGENT_STARTED and the first AGENT_STATE.  Outside the try an exception ends
\* the process.
Announce ==
  /\ phase = "start"
  /\ phase' = IF pipe THEN "set_callback" ELSE "down"
  /\ spoken' = IF pipe THEN "AGENT_STARTED" ELSE spoken
  /\ monitor' = IF pipe THEN monitor ELSE "off"
  /\ UNCHANGED <<task_vars, input_vars, callback, stop_event, pipe, runs>>

SetCallback ==
  /\ phase = "set_callback"
  /\ phase' = "receive"
  /\ callback' = TRUE
  /\ UNCHANGED <<task_vars, input_vars, monitor, stop_event, process_vars>>

\* PROTOCOL_ERROR or TASK_IGNORED
HandleJunk ==
  /\ phase = "receive" /\ inbox # <<>> /\ Head(inbox) = Junk
  /\ inbox' = Tail(inbox)
  /\ phase' = IF pipe THEN "receive" ELSE "stop_callback"
  /\ UNCHANGED <<task_vars, lines, input_open, monitor_vars, process_vars>>

HandleDuplicate ==
  /\ phase = "receive" /\ inbox # <<>> /\ Head(inbox) \in Tasks
  /\ records[Head(inbox)] # "none"
  /\ inbox' = Tail(inbox)
  /\ IF pipe
       THEN duplicates' = duplicates \cup {Head(inbox)} /\ phase' = "receive"
       ELSE phase' = "stop_callback" /\ UNCHANGED duplicates
  /\ UNCHANGED <<current, work_state, records, executions, answers>>
  /\ UNCHANGED <<lines, input_open, monitor_vars, process_vars>>

HandleNew ==
  /\ phase = "receive" /\ inbox # <<>> /\ Head(inbox) \in Tasks
  /\ records[Head(inbox)] = "none"
  /\ inbox' = Tail(inbox)
  /\ current' = Head(inbox)
  /\ Put(Head(inbox), "RECEIVED", "received")
  /\ UNCHANGED <<work_state, executions, answers, duplicates>>
  /\ UNCHANGED <<lines, input_open, monitor_vars, process_vars>>

Answered(status) == [answers EXCEPT ![current] = Append(@, status)]

RefuseSilently ==  \* a mistake: the refusal is not published
  /\ phase = "received"
  /\ phase' = "receive"
  /\ UNCHANGED <<task_vars, input_vars, monitor_vars, process_vars>>

\* The snapshot of the monitor does not allow the task, or the mode does not.
Refuse ==
  /\ phase = "received"
  /\ IF pipe
       THEN answers' = Answered("REJECTED") /\ phase' = "store"
       ELSE phase' = "stop_callback" /\ UNCHANGED answers
  /\ UNCHANGED <<current, work_state, records, executions, duplicates>>
  /\ UNCHANGED <<input_vars, monitor_vars, process_vars>>

Admit ==
  /\ phase = "received"
  /\ Mode = "dry-run"
  /\ work_state' = "BUSY"
  /\ Put(current, "IN_PROGRESS", "execute")
  /\ UNCHANGED <<current, executions, answers, duplicates>>
  /\ UNCHANGED <<input_vars, monitor_vars, process_vars>>

Execute ==
  /\ phase = "execute"
  /\ executions' = [executions EXCEPT ![current] = @ + 1]
  /\ phase' = "running"
  /\ UNCHANGED <<current, work_state, records, answers, duplicates>>
  /\ UNCHANGED <<input_vars, monitor_vars, process_vars>>

AnsweredTwice(status) ==  \* a mistake: the executor has sent its result already
  [answers EXCEPT ![current] = @ \o <<"COMPLETED", status>>]

AnsweredAfterError(status) == Answered(status)

FreedAfterwards == "IDLE"

\* The executor returned, its result is published, and finally frees the service.
Return ==
  /\ phase = "running" /\ pipe
  /\ \E status \in Final : answers' = Answered(status)
  /\ work_state' = FreedAfterwards
  /\ phase' = "store"
  /\ UNCHANGED <<current, records, executions, duplicates>>
  /\ UNCHANGED <<input_vars, monitor_vars, process_vars>>

\* The executor raised, or its result cannot be encoded: FAILED is published
\* instead.
ReturnError ==
  /\ phase = "running" /\ pipe
  /\ Faults \cap {"executor", "encode"} # {}
  /\ answers' = AnsweredAfterError("FAILED")
  /\ work_state' = FreedAfterwards
  /\ phase' = "store"
  /\ UNCHANGED <<current, records, executions, duplicates>>
  /\ UNCHANGED <<input_vars, monitor_vars, process_vars>>

\* Neither the result nor the error can be published.
ReturnUnheard ==
  /\ phase = "running" /\ ~pipe
  /\ work_state' = FreedAfterwards
  /\ phase' = "stop_callback"
  /\ UNCHANGED <<current, records, executions, answers, duplicates>>
  /\ UNCHANGED <<input_vars, monitor_vars, process_vars>>

ResultClaimed(task) == "COMPLETED"  \* a mistake: every handled task is recorded as done

ResultOf(task) == answers[task][Len(answers[task])]

StoreResult ==
  /\ phase = "store"
  /\ Put(current, ResultOf(current), "receive")
  /\ UNCHANGED <<current, work_state, executions, answers, duplicates>>
  /\ UNCHANGED <<input_vars, monitor_vars, process_vars>>

EndOfInput ==
  /\ phase = "receive" /\ inbox = <<>> /\ ~input_open
  /\ phase' = "stop_callback"
  /\ UNCHANGED <<task_vars, input_vars, monitor_vars, process_vars>>

CallbackKept == callback  \* a mistake: the callback stays set

CallbackCleared == FALSE

ClearCallback ==
  /\ phase = "stop_callback"
  /\ callback' = CallbackCleared
  /\ phase' = "stop_monitor"
  /\ UNCHANGED <<task_vars, input_vars, monitor, stop_event, process_vars>>

SetStopEvent ==
  /\ phase = "stop_monitor"
  /\ stop_event' = TRUE
  /\ phase' = "join"
  /\ UNCHANGED <<task_vars, input_vars, monitor, callback, process_vars>>

JoinForEver ==  \* a mistake: join without a timeout
  /\ phase = "join"
  /\ monitor = "ended"
  /\ phase' = "say_stopped"
  /\ UNCHANGED <<task_vars, input_vars, monitor_vars, process_vars>>

\* join waits a second, longer than one AGENT_STATE takes to be written; a state
\* provider that hangs outlasts it.
Join ==
  /\ phase = "join"
  /\ monitor \in {"ended", "polling"}
  /\ phase' = "say_stopped"
  /\ UNCHANGED <<task_vars, input_vars, monitor_vars, process_vars>>

SayStopped ==
  /\ phase = "say_stopped"
  /\ spoken' = IF pipe THEN "AGENT_STOPPED" ELSE spoken
  /\ phase' = "exit"
  /\ UNCHANGED <<task_vars, input_vars, monitor_vars, pipe, runs>>

Exit ==
  /\ phase = "exit"
  /\ phase' = "down"
  /\ monitor' = "off"
  /\ UNCHANGED <<task_vars, input_vars, callback, stop_event, process_vars>>

Main ==
  \/ Announce \/ SetCallback
  \/ HandleJunk \/ HandleDuplicate \/ HandleNew
  \/ Refuse \/ Admit \/ Execute \/ Return \/ ReturnError \/ ReturnUnheard \/ StoreResult
  \/ EndOfInput \/ ClearCallback \/ SetStopEvent \/ Join \/ SayStopped \/ Exit

-----------------------------------------------------------------------------
(* The thread of the monitor                                               *)

NextRound == IF stop_event THEN "ended" ELSE "polling"

\* The provider has returned; the callback is read under the lock, the interval
\* may not be over yet.
Poll ==
  /\ monitor = "polling"
  /\ \/ callback /\ monitor' = "publishing"
     \/ stop_event /\ monitor' = "ended"
  /\ UNCHANGED <<phase, task_vars, input_vars, callback, stop_event, process_vars>>

\* AGENT_STATE is published; an exception is swallowed.
PublishState ==
  /\ monitor = "publishing"
  /\ monitor' = NextRound
  /\ UNCHANGED <<phase, task_vars, input_vars, callback, stop_event, process_vars>>

-----------------------------------------------------------------------------
(* Environment                                                             *)

Submit ==
  /\ phase # "down" /\ input_open /\ lines < MaxLines
  /\ \E line \in Tasks \cup {Junk} : inbox' = Append(inbox, line)
  /\ lines' = lines + 1
  /\ UNCHANGED <<phase, task_vars, input_open, monitor_vars, process_vars>>

CloseInput ==
  /\ phase # "down" /\ input_open
  /\ input_open' = FALSE
  /\ UNCHANGED <<phase, task_vars, inbox, lines, monitor_vars, process_vars>>

ClosePipe ==
  /\ "pipe" \in Faults
  /\ phase # "down" /\ pipe
  /\ pipe' = FALSE
  /\ UNCHANGED <<phase, task_vars, input_vars, monitor_vars, spoken, runs>>

\* KeyboardInterrupt: except Exception lets it through, finally frees the service.
Interrupt ==
  /\ "interrupt" \in Faults
  /\ phase \in InTry
  /\ phase' = "stop_callback"
  /\ work_state' = IF phase = "running" THEN FreedAfterwards ELSE work_state
  /\ UNCHANGED <<current, records, executions, answers, duplicates>>
  /\ UNCHANGED <<input_vars, monitor_vars, process_vars>>

Kill ==
  /\ "kill" \in Faults
  /\ phase # "down"
  /\ phase' = "down"
  /\ monitor' = "off"
  /\ UNCHANGED <<task_vars, input_vars, callback, stop_event, process_vars>>

Init ==
  /\ phase = "down" /\ current = Junk /\ work_state = "IDLE"
  /\ records = [t \in Tasks |-> "none"]
  /\ executions = [t \in Tasks |-> 0]
  /\ answers = [t \in Tasks |-> <<>>]
  /\ duplicates = {}
  /\ inbox = <<>> /\ lines = 0 /\ input_open = TRUE
  /\ pipe = TRUE
  /\ monitor = "off" /\ callback = FALSE /\ stop_event = FALSE
  /\ spoken = "none" /\ runs = 0

Next == Start \/ Main \/ Poll \/ PublishState \/ Submit \/ CloseInput \/ ClosePipe \/ Interrupt \/ Kill

\* The main thread runs, and the monitor writes what it has begun to publish; the
\* state provider may hang for ever.
Spec == Init /\ [][Next]_tvars /\ WF_tvars(Main) /\ WF_tvars(PublishState)

-----------------------------------------------------------------------------
(* Properties                                                              *)

\* Type invariant; the service is free whenever it takes a line, so line 186 of
\* drone_agent_service.py never answers BUSY.
TypeOK ==
  /\ phase \in InTry \cup {"down", "start", "set_callback", "stop_callback", "stop_monitor",
                           "join", "say_stopped", "exit"}
  /\ current \in Tasks \cup {Junk} /\ (phase \in Handling => current \in Tasks)
  /\ work_state \in {"IDLE", "BUSY"} /\ (phase = "receive" => work_state = "IDLE")
  /\ records \in [Tasks -> Final \cup {"none", "RECEIVED", "IN_PROGRESS"}]
  /\ executions \in [Tasks -> Nat]
  /\ answers \in [Tasks -> Seq(Final)]
  /\ duplicates \subseteq Tasks
  /\ inbox \in Seq(Tasks \cup {Junk}) /\ lines \in Nat
  /\ input_open \in BOOLEAN /\ pipe \in BOOLEAN
  /\ monitor \in {"off", "polling", "publishing", "ended"}
  /\ callback \in BOOLEAN /\ stop_event \in BOOLEAN
  /\ spoken \in {"none", "AGENT_STARTED", "AGENT_STOPPED"} /\ runs \in Nat

\* What the sender of the tasks sees of this state (TaskDesk).
Desk ==
  INSTANCE TaskDesk WITH
    Results <- Final, Refusal <- "REJECTED",
    taken   <- {t \in Tasks : records[t] # "none"},
    filed   <- [t \in Tasks |-> IF records[t] \in Final THEN records[t] ELSE "none"],
    known   <- duplicates

\* docs/TERMINAL_JSON_AGENT.md and drone_agent_service.py:172-262: whatever is
\* submitted again, and wherever a process dies between two writes, a task is
\* executed once at most and before its only answer, an answer other than a refusal
\* follows an execution, and the store repeats the answer that was given.
KeepsDesk == Desk!Spec

\* docs/TERMINAL_JSON_AGENT.md: a task id that was submitted again is never
\* executed again, also not by a later process.
ExecutedOnce == \A t \in Tasks : executions[t] <= 1

\* docs/TERMINAL_JSON_AGENT.md: a task gets one result, over all submissions,
\* processes and errors.
AnsweredAtMostOnce == \A t \in Tasks : Len(answers[t]) <= 1

\* The stored result is one that was published, so original_record of a DUPLICATE
\* never tells a result the first submission did not get.
RecordIsAnswer == \A t \in Tasks : records[t] \in Final => answers[t] = <<records[t]>>

\* The monitor's AGENT_STATE comes after AGENT_STARTED and before AGENT_STOPPED.
StatesInBetween == monitor = "publishing" => spoken = "AGENT_STARTED"

\* drone_agent_service.py:180: DUPLICATE is said of a task that was handled.
DuplicateWasHandled == \A t \in duplicates : answers[t] # <<>>

\* A task that is being handled gets its result, unless the process ends before.
EveryTaskAnswered ==
  \A t \in Tasks :
    phase \in Handling /\ current = t ~> answers[t] # <<>> \/ phase \notin InTry

\* Once the input is closed the service stops, also when a fault has ended it early
\* or the state provider hangs.
Stops == ~input_open ~> phase = "down"

=============================================================================
