------------------------ MODULE TerminalServiceProofs ------------------------
(***************************************************************************)
(* Proofs about TerminalService, for any tasks, faults and bounds.  The    *)
(* record of a task is written before anything is done with it, so how far *)
(* its handling has come can be read off the record and the phase of the   *)
(* main thread; that is Progress, and it survives the death of a process   *)
(* because no action but a step of that handling touches it.               *)
(***************************************************************************)
EXTENDS TerminalService, TLAPS

Untouched(t) == executions[t] = 0 /\ answers[t] = <<>>

\* What the store says of a task, whoever handles it.
Recorded ==
  \A t \in Tasks :
    /\ records[t] = "none" => Untouched(t)
    /\ executions[t] <= 1
    /\ Len(answers[t]) <= 1
    /\ records[t] \in Final => answers[t] = <<records[t]>>

\* What the main thread knows of the task it handles.
Handled ==
  /\ phase = "received" => records[current] = "RECEIVED" /\ Untouched(current)
  /\ phase = "execute" => records[current] = "IN_PROGRESS" /\ Untouched(current)
  /\ phase = "running" => /\ records[current] = "IN_PROGRESS" /\ answers[current] = <<>>
                          /\ executions[current] = 1
  /\ phase = "store" => /\ records[current] \in {"RECEIVED", "IN_PROGRESS"}
                        /\ Len(answers[current]) = 1

\* When the monitor may publish.
Spoken ==
  /\ monitor = "off" <=> phase = "down"
  /\ callback => phase \in InTry \cup {"stop_callback", "down"}
  /\ monitor = "publishing" => phase \in InTry \cup {"stop_callback", "stop_monitor", "join"}
  /\ phase \in InTry \cup {"set_callback", "stop_callback", "stop_monitor", "join", "say_stopped"}
       => spoken = "AGENT_STARTED"

\* The type invariant in the two parts the provers treat differently, strengthened
\* by the phases in which the service is free.
TypeFlags ==
  /\ input_open \in BOOLEAN /\ pipe \in BOOLEAN
  /\ callback \in BOOLEAN /\ stop_event \in BOOLEAN

TypeData ==
  /\ phase \in InTry \cup {"down", "start", "set_callback", "stop_callback", "stop_monitor",
                           "join", "say_stopped", "exit"}
  /\ current \in Tasks \cup {Junk} /\ (phase \in Handling => current \in Tasks)
  /\ work_state \in {"IDLE", "BUSY"}
  /\ phase \in {"start", "set_callback", "receive", "received", "store"} => work_state = "IDLE"
  /\ records \in [Tasks -> Final \cup {"none", "RECEIVED", "IN_PROGRESS"}]
  /\ executions \in [Tasks -> Nat]
  /\ answers \in [Tasks -> Seq(Final)]
  /\ duplicates \subseteq Tasks
  /\ inbox \in Seq(Tasks \cup {Junk}) /\ lines \in Nat
  /\ monitor \in {"off", "polling", "publishing", "ended"}
  /\ spoken \in {"none", "AGENT_STARTED", "AGENT_STOPPED"} /\ runs \in Nat

Inv == TypeFlags /\ TypeData /\ Recorded /\ Handled /\ Spoken

USE TaskAssumption

\* Between two steps of the handling nothing about a task changes.
LEMMA ElsewhereKept ==
  ASSUME Recorded, UNCHANGED <<current, records, executions, answers>>,
         phase' \notin Handling \/ (Handled /\ phase' = phase)
  PROVE  Recorded' /\ Handled'
BY DEF Recorded, Handled, Untouched, Handling

LEMMA TypeParts == TypeFlags /\ TypeData => TypeOK
BY Zenon DEF TypeOK, TypeFlags, TypeData

LEMMA InitInv == Init => Inv
<1> SUFFICES ASSUME Init PROVE Inv
  OBVIOUS
<1>1. TypeFlags
  BY Zenon DEF Init, TypeFlags
<1>2. TypeData
  BY DEF Init, TypeData, InTry, Handling, Final
<1>3. Recorded /\ Handled
  BY DEF Init, Recorded, Handled, Untouched, Final
<1>4. Spoken
  BY DEF Init, Spoken, InTry, Handling
<1> QED
  BY <1>1, <1>2, <1>3, <1>4 DEF Inv

\* The flags, by the actions that set them.
LEMMA FlagsKept == TypeFlags /\ [Next]_tvars => TypeFlags'
<1> SUFFICES ASSUME TypeFlags, [Next]_tvars PROVE TypeFlags'
  OBVIOUS
<1> USE DEF TypeFlags
<1>1. CASE Start
  BY <1>1, Zenon DEF Start
<1>10. CASE CloseInput \/ ClosePipe
  BY <1>10, Zenon DEF CloseInput, ClosePipe, input_vars, monitor_vars, process_vars
<1>2. CASE Announce \/ SetCallback \/ ClearCallback \/ SetStopEvent
  BY <1>2, Zenon DEF Announce, SetCallback, ClearCallback, CallbackCleared, SetStopEvent,
                     input_vars, process_vars
<1>3. CASE HandleJunk \/ HandleDuplicate \/ HandleNew
  BY <1>3, Zenon DEF HandleJunk, HandleDuplicate, HandleNew, monitor_vars, process_vars
<1>4. CASE Refuse \/ Admit \/ Execute \/ StoreResult
  BY <1>4, Zenon DEF Refuse, Admit, Execute, StoreResult, input_vars, monitor_vars, process_vars
<1>5. CASE Return \/ ReturnError \/ ReturnUnheard
  BY <1>5, Zenon DEF Return, ReturnError, ReturnUnheard, input_vars, monitor_vars, process_vars
<1>6. CASE EndOfInput \/ Join \/ SayStopped \/ Exit
  BY <1>6, Zenon DEF EndOfInput, Join, SayStopped, Exit, input_vars, monitor_vars, process_vars
<1>7. CASE Poll \/ PublishState \/ Submit
  BY <1>7, Zenon DEF Poll, PublishState, Submit, input_vars, monitor_vars, process_vars
<1>8. CASE Interrupt \/ Kill
  BY <1>8, Zenon DEF Interrupt, Kill, input_vars, monitor_vars, process_vars
<1>9. CASE UNCHANGED tvars
  BY <1>9, Zenon DEF tvars, input_vars, monitor_vars, process_vars
<1> QED
  BY <1>1, <1>2, <1>3, <1>4, <1>5, <1>6, <1>7, <1>8, <1>9, <1>10, Zenon DEF Next, Main

\* What the sequences of the model do to their types.
LEMMA InboxTaken ==
  ASSUME inbox \in Seq(Tasks \cup {Junk}), inbox # <<>>
  PROVE  Tail(inbox) \in Seq(Tasks \cup {Junk}) /\ Head(inbox) \in Tasks \cup {Junk}
OBVIOUS

LEMMA InboxGrown ==
  ASSUME inbox \in Seq(Tasks \cup {Junk}), NEW line \in Tasks \cup {Junk}
  PROVE  Append(inbox, line) \in Seq(Tasks \cup {Junk})
OBVIOUS

LEMMA OneMoreAnswer ==
  ASSUME answers \in [Tasks -> Seq(Final)], current \in Tasks, NEW status \in Final
  PROVE  /\ Answered(status) \in [Tasks -> Seq(Final)]
         /\ Answered(status)[current] = Append(answers[current], status)
         /\ \A t \in Tasks : t # current => Answered(status)[t] = answers[t]
BY DEF Answered

LEMMA FirstAnswer ==
  ASSUME Recorded, NEW status \in Final, current \in Tasks,
         records[current] \in {"RECEIVED", "IN_PROGRESS"},
         answers'[current] = <<status>>,
         \A t \in Tasks : t # current => answers'[t] = answers[t],
         phase' = "store", UNCHANGED <<current, records, executions>>
  PROVE  Recorded' /\ Handled'
<1>1. ASSUME NEW t \in Tasks
      PROVE  /\ records'[t] = "none" => executions'[t] = 0 /\ answers'[t] = <<>>
             /\ executions'[t] <= 1
             /\ Len(answers'[t]) <= 1
             /\ records'[t] \in Final => answers'[t] = <<records'[t]>>
  <2>1. CASE t = current
    <3>1. records'[t] \in {"RECEIVED", "IN_PROGRESS"} /\ executions'[t] <= 1
      BY <2>1 DEF Recorded
    <3>2. answers'[t] = <<status>>
      BY <2>1
    <3>3. Len(answers'[t]) <= 1
      BY <3>2
    <3> QED
      BY <3>1, <3>2, <3>3 DEF Final
  <2>2. CASE t # current
    BY <2>2 DEF Recorded, Untouched
  <2> QED
    BY <2>1, <2>2
<1>2. Recorded'
  BY <1>1 DEF Recorded, Untouched
<1> QED
  BY <1>2 DEF Handled

LEMMA OnlyAnswer ==
  ASSUME NEW task, answers[task] \in Seq(Final), Len(answers[task]) = 1
  PROVE  ResultOf(task) \in Final /\ answers[task] = <<ResultOf(task)>>
BY DEF ResultOf

\* The rest, by the actions.
LEMMA DataKept == TypeData /\ Handled /\ [Next]_tvars => TypeData'
<1> SUFFICES ASSUME TypeData, Handled, [Next]_tvars PROVE TypeData'
  OBVIOUS
<1> USE DEF TypeData, InTry, Handling, Final
<1>1. CASE Start
  BY <1>1 DEF Start
<1>2. CASE Announce \/ SetCallback
  <2>1. UNCHANGED <<current, work_state, records, executions, answers, duplicates, inbox, lines, runs>>
    BY <1>2, Zenon DEF Announce, SetCallback, task_vars, input_vars, process_vars
  <2>2. /\ phase' \in {"set_callback", "down", "receive"}
        /\ monitor' \in {monitor, "off"} /\ spoken' \in {spoken, "AGENT_STARTED"}
        /\ phase \in {"start", "set_callback"}
    BY <1>2 DEF Announce, SetCallback, monitor_vars, process_vars
  <2> QED
    BY <2>1, <2>2
<1>3. CASE HandleJunk \/ HandleDuplicate
  <2>1. UNCHANGED <<current, work_state, records, executions, answers, lines, monitor, spoken, runs>>
    BY <1>3, Zenon DEF HandleJunk, HandleDuplicate, task_vars, monitor_vars, process_vars
  <2>2. /\ phase = "receive" /\ phase' \in {"receive", "stop_callback"}
        /\ inbox # <<>> /\ inbox' = Tail(inbox)
        /\ duplicates' \subseteq Tasks
    BY <1>3 DEF HandleJunk, HandleDuplicate, task_vars
  <2> QED
    BY <2>1, <2>2, InboxTaken
<1>4. CASE HandleNew
  <2>1. UNCHANGED <<work_state, executions, answers, duplicates, lines, monitor, spoken, runs>>
    BY <1>4, Zenon DEF HandleNew, monitor_vars, process_vars
  <2>2. /\ phase = "receive" /\ phase' \in {"received", "stop_callback"}
        /\ inbox # <<>> /\ inbox' = Tail(inbox)
        /\ current' \in Tasks
        /\ records' \in [Tasks -> Final \cup {"none", "RECEIVED", "IN_PROGRESS"}]
    BY <1>4 DEF HandleNew, Put, Stored
  <2> QED
    BY <2>1, <2>2, InboxTaken
<1>5. CASE Refuse
  <2>1. UNCHANGED <<current, work_state, records, executions, duplicates, inbox, lines, monitor, spoken, runs>>
    BY <1>5, Zenon DEF Refuse, input_vars, monitor_vars, process_vars
  <2>2. phase = "received" /\ phase' \in {"store", "stop_callback"}
    BY <1>5 DEF Refuse
  <2>3. answers' = answers \/ answers' = Answered("REJECTED")
    BY <1>5 DEF Refuse
  <2>4. answers' \in [Tasks -> Seq(Final)]
    BY <2>2, <2>3, OneMoreAnswer
  <2> QED
    BY <2>1, <2>2, <2>4
<1>6. CASE Admit
  BY <1>6 DEF Admit, Put, Stored, input_vars, monitor_vars, process_vars
<1>7. CASE Execute
  BY <1>7 DEF Execute, input_vars, monitor_vars, process_vars
<1>8. CASE Return \/ ReturnError \/ ReturnUnheard
  <2>1. UNCHANGED <<current, records, executions, duplicates, inbox, lines, monitor, spoken, runs>>
    BY <1>8, Zenon DEF Return, ReturnError, ReturnUnheard, input_vars, monitor_vars, process_vars
  <2>2. phase = "running" /\ phase' \in {"store", "stop_callback"} /\ work_state' = "IDLE"
    BY <1>8 DEF Return, ReturnError, ReturnUnheard, FreedAfterwards
  <2>3. answers' = answers \/ \E status \in Final : answers' = Answered(status)
    BY <1>8 DEF Return, ReturnError, ReturnUnheard, AnsweredAfterError
  <2>4. answers' \in [Tasks -> Seq(Final)]
    BY <2>2, <2>3, OneMoreAnswer
  <2> QED
    BY <2>1, <2>2, <2>4
<1>9. CASE StoreResult
  <2>1. ResultOf(current) \in Final
    BY <1>9, OnlyAnswer DEF StoreResult, Handled
  <2>2. UNCHANGED <<current, work_state, executions, answers, duplicates, inbox, lines, monitor, spoken, runs>>
    BY <1>9, Zenon DEF StoreResult, input_vars, monitor_vars, process_vars
  <2>3. /\ phase = "store" /\ phase' \in {"receive", "stop_callback"}
        /\ records' \in [Tasks -> Final \cup {"none", "RECEIVED", "IN_PROGRESS"}]
    BY <1>9, <2>1 DEF StoreResult, Put, Stored
  <2> QED
    BY <2>2, <2>3
<1>10. CASE EndOfInput \/ ClearCallback \/ SetStopEvent \/ Join \/ SayStopped \/ Exit
  BY <1>10 DEF EndOfInput, ClearCallback, CallbackCleared, SetStopEvent, Join, SayStopped, Exit,
               task_vars, input_vars, monitor_vars, process_vars
<1>11. CASE Poll \/ PublishState
  BY <1>11 DEF Poll, PublishState, NextRound, task_vars, input_vars, process_vars
<1>12. CASE Submit
  <2>1. PICK line \in Tasks \cup {Junk} : inbox' = Append(inbox, line)
    BY <1>12 DEF Submit
  <2>2. inbox' \in Seq(Tasks \cup {Junk})
    BY <2>1, InboxGrown
  <2> QED
    BY <1>12, <2>2 DEF Submit, task_vars, monitor_vars, process_vars
<1>15. CASE CloseInput \/ ClosePipe
  BY <1>15 DEF CloseInput, ClosePipe, task_vars, input_vars, monitor_vars, process_vars
<1>13. CASE Interrupt \/ Kill
  BY <1>13 DEF Interrupt, Kill, FreedAfterwards, task_vars, input_vars, monitor_vars, process_vars
<1>14. CASE UNCHANGED tvars
  BY <1>14 DEF tvars, task_vars, input_vars, monitor_vars, process_vars
<1> QED
  BY <1>1, <1>2, <1>3, <1>4, <1>5, <1>6, <1>7, <1>8, <1>9, <1>10, <1>11, <1>12, <1>13, <1>14, <1>15
     DEF Next, Main

\* The record of a task and the phase keep telling how far it has come.
LEMMA ProgressKept == TypeData /\ Recorded /\ Handled /\ [Next]_tvars => Recorded' /\ Handled'
<1> SUFFICES ASSUME TypeData, Recorded, Handled, [Next]_tvars PROVE Recorded' /\ Handled'
  OBVIOUS
<1>1. CASE Start
  BY <1>1 DEF Start, Recorded, Handled, Untouched
<1>2. CASE Announce \/ SetCallback \/ HandleJunk \/ HandleDuplicate
  BY <1>2, ElsewhereKept
     DEF Announce, SetCallback, HandleJunk, HandleDuplicate, Handling, task_vars
<1>3. CASE HandleNew
  BY <1>3 DEF HandleNew, Put, Stored, TypeData, Recorded, Handled, Untouched, Final, Handling
<1>4. CASE Refuse
  <2>1. /\ current \in Tasks /\ records[current] = "RECEIVED" /\ Untouched(current)
        /\ UNCHANGED <<current, records, executions>>
    BY <1>4 DEF Refuse, TypeData, Handled, Handling
  <2>2. CASE phase' = "store" /\ answers' = Answered("REJECTED")
    <3>1. answers'[current] = <<"REJECTED">> /\ \A t \in Tasks : t # current => answers'[t] = answers[t]
      BY <2>1, <2>2, OneMoreAnswer DEF Untouched, TypeData, Final
    <3> QED
      BY <2>1, <2>2, <3>1, FirstAnswer DEF Final
  <2>3. CASE phase' = "stop_callback" /\ answers' = answers
    BY <2>1, <2>3, ElsewhereKept DEF Handling
  <2> QED
    BY <1>4, <2>2, <2>3 DEF Refuse
<1>5. CASE Admit
  BY <1>5 DEF Admit, Put, Stored, TypeData, Recorded, Handled, Untouched, Final, Handling
<1>6. CASE Execute
  BY <1>6 DEF Execute, TypeData, Recorded, Handled, Untouched, Final, Handling
<1>7. CASE Return \/ ReturnError
  <2>1. PICK status \in Final : answers' = Answered(status)
    BY <1>7 DEF Return, ReturnError, AnsweredAfterError, Final
  <2>2. current \in Tasks /\ answers[current] = <<>> /\ records[current] = "IN_PROGRESS"
    BY <1>7 DEF Return, ReturnError, TypeData, Handled, Handling
  <2>3. answers'[current] = <<status>> /\ \A t \in Tasks : t # current => answers'[t] = answers[t]
    BY <2>1, <2>2, OneMoreAnswer DEF TypeData
  <2>4. phase' = "store" /\ UNCHANGED <<current, records, executions>>
    BY <1>7 DEF Return, ReturnError
  <2> QED
    BY <2>2, <2>3, <2>4, FirstAnswer
<1>8. CASE StoreResult
  <2>1. current \in Tasks /\ answers[current] \in Seq(Final) /\ Len(answers[current]) = 1
    BY <1>8 DEF StoreResult, Handled, TypeData, Handling
  <2>2. answers[current] = <<ResultOf(current)>> /\ ResultOf(current) \in Final
    BY <2>1, OnlyAnswer
  <2> QED
    BY <1>8, <2>1, <2>2 DEF StoreResult, Put, Stored, TypeData, Recorded, Handled, Untouched, Final, Handling
<1>9. CASE ReturnUnheard \/ EndOfInput \/ ClearCallback \/ SetStopEvent \/ Join \/ SayStopped \/ Exit
  BY <1>9, ElsewhereKept
     DEF ReturnUnheard, EndOfInput, ClearCallback, SetStopEvent, Join, SayStopped, Exit, Handling, task_vars
<1>10. CASE Poll \/ PublishState \/ Submit \/ CloseInput \/ ClosePipe
  BY <1>10, ElsewhereKept DEF Poll, PublishState, Submit, CloseInput, ClosePipe, task_vars
<1>11. CASE Interrupt \/ Kill
  BY <1>11, ElsewhereKept DEF Interrupt, Kill, Handling, task_vars
<1>12. CASE UNCHANGED tvars
  BY <1>12, ElsewhereKept DEF tvars, task_vars
<1> QED
  BY <1>1, <1>2, <1>3, <1>4, <1>5, <1>6, <1>7, <1>8, <1>9, <1>10, <1>11, <1>12 DEF Next, Main

\* The callback is only there, and the monitor only publishes, inside the session.
LEMMA SpokenKept == Spoken /\ TypeFlags /\ [Next]_tvars => Spoken'
<1> SUFFICES ASSUME Spoken, TypeFlags, [Next]_tvars PROVE Spoken'
  OBVIOUS
<1> USE DEF Spoken, InTry, Handling
<1>1. CASE Start
  BY <1>1 DEF Start
<1>2. CASE Announce \/ SetCallback
  BY <1>2 DEF Announce, SetCallback, TypeFlags, monitor_vars, process_vars
<1>3. CASE HandleJunk \/ HandleDuplicate \/ HandleNew
  BY <1>3 DEF HandleJunk, HandleDuplicate, HandleNew, Put, monitor_vars, process_vars
<1>4. CASE Refuse \/ Admit \/ Execute
  BY <1>4 DEF Refuse, Admit, Execute, Put, monitor_vars, process_vars
<1>5. CASE Return \/ ReturnError \/ ReturnUnheard \/ StoreResult
  BY <1>5 DEF Return, ReturnError, ReturnUnheard, StoreResult, Put, monitor_vars, process_vars
<1>6. CASE EndOfInput \/ ClearCallback \/ SetStopEvent
  BY <1>6 DEF EndOfInput, ClearCallback, CallbackCleared, SetStopEvent, monitor_vars, process_vars
<1>7. CASE Join \/ SayStopped \/ Exit
  BY <1>7 DEF Join, SayStopped, Exit, monitor_vars, process_vars
<1>8. CASE Poll \/ PublishState
  BY <1>8 DEF Poll, PublishState, NextRound, process_vars
<1>9. CASE Submit \/ CloseInput \/ ClosePipe
  BY <1>9 DEF Submit, CloseInput, ClosePipe, monitor_vars, process_vars
<1>10. CASE Interrupt \/ Kill
  BY <1>10 DEF Interrupt, Kill, monitor_vars, process_vars
<1>11. CASE UNCHANGED tvars
  BY <1>11 DEF tvars, monitor_vars, process_vars
<1> QED
  BY <1>1, <1>2, <1>3, <1>4, <1>5, <1>6, <1>7, <1>8, <1>9, <1>10, <1>11 DEF Next, Main

\* The invariant the results below are read from.
THEOREM ServiceInvariance == Spec => []Inv
<1>1. Inv /\ [Next]_tvars => Inv'
  BY FlagsKept, DataKept, ProgressKept, SpokenKept DEF Inv
<1> QED
  BY InitInv, <1>1, PTL DEF Spec

\* The types of the model; in particular the service is free whenever it takes a line.
THEOREM ServiceTypes == Spec => []TypeOK
BY ServiceInvariance, TypeParts, PTL DEF Inv

\* However processes die and tasks are submitted again, the executor gets a task
\* at most once.
THEOREM NeverExecutedAgain == Spec => []ExecutedOnce
<1>1. Inv => ExecutedOnce
  BY DEF Inv, Recorded, ExecutedOnce
<1> QED
  BY ServiceInvariance, <1>1, PTL

\* No task gets two results, however often a process dies between publishing one
\* and storing it.
THEOREM OneAnswer == Spec => []AnsweredAtMostOnce
<1>1. Inv => AnsweredAtMostOnce
  BY DEF Inv, Recorded, AnsweredAtMostOnce
<1> QED
  BY ServiceInvariance, <1>1, PTL

\* The store never tells a result that was not published.
THEOREM StoredWasPublished == Spec => []RecordIsAnswer
<1>1. Inv => RecordIsAnswer
  BY DEF Inv, Recorded, RecordIsAnswer
<1> QED
  BY ServiceInvariance, <1>1, PTL

\* The monitor only publishes between AGENT_STARTED and AGENT_STOPPED.
THEOREM NothingAfterStopped == Spec => []StatesInBetween
<1>1. Inv => StatesInBetween
  BY DEF Inv, Spoken, StatesInBetween, InTry, Handling
<1> QED
  BY ServiceInvariance, <1>1, PTL

-----------------------------------------------------------------------------
(* The service implements TaskDesk: each action is one of its steps or      *)
(* none.  The death of a process is none, because what the desk remembers   *)
(* is on disk or was said.                                                  *)

Taken == {t \in Tasks : records[t] # "none"}

Filed == [t \in Tasks |-> IF records[t] \in Final THEN records[t] ELSE "none"]

LEMMA DeskSteps ==
  ASSUME NEW t \in Tasks, Desk!Take(t) \/ Desk!Perform(t) \/ Desk!Reply(t) \/ Desk!File(t) \/ Desk!CallKnown(t)
  PROVE  Desk!Next
BY DEF Desk!Next

LEMMA NothingAtDesk ==
  ASSUME UNCHANGED <<records, executions, answers, duplicates>>
  PROVE  UNCHANGED Desk!deskVars
<1>1. Taken' = Taken /\ Filed' = Filed
  BY DEF Taken, Filed
<1> QED BY <1>1 DEF Desk!deskVars, Taken, Filed

\* A record that is made or goes on without being final.
LEMMA RecordMade ==
  ASSUME TypeData, NEW t \in Tasks, NEW status \in {"RECEIVED", "IN_PROGRESS"},
         records[t] \notin Final, records' = Stored(t, status)
  PROVE  Taken' = Taken \cup {t} /\ Filed' = Filed
<1>1. \A s \in Tasks : records'[s] = IF s = t THEN status ELSE records[s]
  BY DEF Stored, TypeData
<1>2. status \notin Final /\ status # "none"
  BY DEF Final
<1> QED BY <1>1, <1>2 DEF Taken, Filed

LEMMA TakesAtDesk == TypeData /\ HandleNew => [Desk!Next]_Desk!deskVars
<1> SUFFICES ASSUME TypeData, HandleNew PROVE [Desk!Next]_Desk!deskVars
  OBVIOUS
<1> DEFINE t == Head(inbox)
<1>1. /\ t \in Tasks /\ records[t] = "none" /\ UNCHANGED <<executions, answers, duplicates>>
      /\ records' = Stored(t, "RECEIVED") \/ records' = records
  BY DEF HandleNew, Put
<1> HIDE DEF t
<1>2. CASE records' = records
  BY <1>1, <1>2, NothingAtDesk
<1>3. CASE records' = Stored(t, "RECEIVED")
  <2>1. Taken' = Taken \cup {t} /\ Filed' = Filed
    BY <1>1, <1>3, RecordMade DEF Final
  <2>2. t \notin Taken
    BY <1>1 DEF Taken
  <2> QED BY <1>1, <2>1, <2>2, DeskSteps DEF Desk!Take, Taken, Filed
<1> QED BY <1>1, <1>2, <1>3

LEMMA AdmitsAtDesk == TypeData /\ Handled /\ Admit => UNCHANGED Desk!deskVars
<1> SUFFICES ASSUME TypeData, Handled, Admit PROVE UNCHANGED Desk!deskVars
  OBVIOUS
<1>1. /\ current \in Tasks /\ records[current] = "RECEIVED" /\ UNCHANGED <<executions, answers, duplicates>>
      /\ records' = Stored(current, "IN_PROGRESS") \/ records' = records
  BY DEF Admit, Put, TypeData, Handled, Handling
<1>2. CASE records' = records
  BY <1>1, <1>2, NothingAtDesk
<1>3. CASE records' = Stored(current, "IN_PROGRESS")
  <2>1. Taken' = Taken \cup {current} /\ Filed' = Filed /\ current \in Taken
    BY <1>1, <1>3, RecordMade DEF Final, Taken
  <2> QED BY <1>1, <2>1 DEF Desk!deskVars, Taken, Filed
<1> QED BY <1>1, <1>2, <1>3

LEMMA PerformsAtDesk == TypeData /\ Handled /\ Execute => Desk!Next
<1> SUFFICES ASSUME TypeData, Handled, Execute PROVE Desk!Next
  OBVIOUS
<1>1. /\ current \in Tasks /\ records[current] = "IN_PROGRESS"
      /\ executions[current] = 0 /\ answers[current] = <<>>
      /\ executions' = [executions EXCEPT ![current] = 1]
      /\ UNCHANGED <<records, answers, duplicates>>
  BY DEF Execute, TypeData, Handled, Untouched, Handling
<1>2. current \in Taken /\ Taken' = Taken /\ Filed' = Filed
  BY <1>1 DEF Taken, Filed
<1> QED BY <1>1, <1>2, DeskSteps DEF Desk!Perform, Taken, Filed

LEMMA RepliesAtDesk ==
  ASSUME TypeData, current \in Tasks, records[current] # "none", answers[current] = <<>>,
         NEW status \in Final, executions[current] = 0 => status = "REJECTED",
         answers' = Answered(status), UNCHANGED <<records, executions, duplicates>>
  PROVE  Desk!Next
<1>1. current \in Taken /\ Taken' = Taken /\ Filed' = Filed
  BY DEF Taken, Filed
<1>2. answers' = [answers EXCEPT ![current] = <<status>>]
  BY DEF Answered
<1> QED BY <1>1, <1>2, DeskSteps DEF Desk!Reply, Taken, Filed

LEMMA FilesAtDesk == TypeData /\ Handled /\ StoreResult => [Desk!Next]_Desk!deskVars
<1> SUFFICES ASSUME TypeData, Handled, StoreResult PROVE [Desk!Next]_Desk!deskVars
  OBVIOUS
<1>1. /\ current \in Tasks /\ records[current] \in {"RECEIVED", "IN_PROGRESS"}
      /\ answers[current] \in Seq(Final) /\ Len(answers[current]) = 1
      /\ UNCHANGED <<executions, answers, duplicates>>
      /\ records' = Stored(current, ResultOf(current)) \/ records' = records
  BY DEF StoreResult, Put, TypeData, Handled, Handling
<1>2. CASE records' = records
  BY <1>1, <1>2, NothingAtDesk
<1>3. CASE records' = Stored(current, ResultOf(current))
  <2>1. ResultOf(current) \in Final /\ ResultOf(current) = answers[current][1] /\ answers[current] # <<>>
    BY <1>1, OnlyAnswer DEF ResultOf
  <2>2. \A s \in Tasks : records'[s] = IF s = current THEN ResultOf(current) ELSE records[s]
    BY <1>1, <1>3 DEF Stored, TypeData
  <2>3. records[current] \notin Final /\ records[current] # "none" /\ ResultOf(current) # "none"
    BY <1>1, <2>1 DEF Final
  <2>4. Taken' = Taken
    BY <2>2, <2>3 DEF Taken
  <2>5. Filed' = [Filed EXCEPT ![current] = answers[current][1]] /\ Filed[current] = "none"
    BY <1>1, <2>1, <2>2, <2>3 DEF Filed
  <2> QED BY <1>1, <2>1, <2>4, <2>5, DeskSteps DEF Desk!File, Taken, Filed
<1> QED BY <1>1, <1>2, <1>3

LEMMA RepeatsAtDesk == TypeData /\ HandleDuplicate => [Desk!Next]_Desk!deskVars
<1> SUFFICES ASSUME TypeData, HandleDuplicate PROVE [Desk!Next]_Desk!deskVars
  OBVIOUS
<1> DEFINE t == Head(inbox)
<1>1. /\ t \in Tasks /\ records[t] # "none" /\ UNCHANGED <<records, executions, answers>>
      /\ duplicates' = duplicates \cup {t} \/ duplicates' = duplicates
  BY DEF HandleDuplicate
<1> HIDE DEF t
<1>2. CASE duplicates' = duplicates
  BY <1>1, <1>2, NothingAtDesk
<1>3. CASE duplicates' = duplicates \cup {t}
  <2>1. t \in Taken /\ Taken' = Taken /\ Filed' = Filed
    BY <1>1 DEF Taken, Filed
  <2> QED BY <1>1, <1>3, <2>1, DeskSteps DEF Desk!CallKnown, Taken, Filed
<1> QED BY <1>1, <1>2, <1>3

LEMMA StepAtDesk == TypeData /\ Handled /\ [Next]_tvars => [Desk!Next]_Desk!deskVars
<1> SUFFICES ASSUME TypeData, Handled, [Next]_tvars PROVE [Desk!Next]_Desk!deskVars
  OBVIOUS
<1>1. CASE HandleNew \/ HandleDuplicate \/ Admit \/ Execute \/ StoreResult
  BY <1>1, TakesAtDesk, RepeatsAtDesk, AdmitsAtDesk, PerformsAtDesk, FilesAtDesk
<1>2. CASE Refuse
  <2>1. /\ current \in Tasks /\ records[current] = "RECEIVED" /\ answers[current] = <<>>
        /\ executions[current] = 0 /\ UNCHANGED <<records, executions, duplicates>>
        /\ answers' = Answered("REJECTED") \/ answers' = answers
    BY <1>2 DEF Refuse, TypeData, Handled, Untouched, Handling
  <2>2. CASE answers' = answers
    BY <2>1, <2>2, NothingAtDesk
  <2>3. CASE answers' = Answered("REJECTED")
    BY <2>1, <2>3, RepliesAtDesk DEF Final
  <2> QED BY <2>1, <2>2, <2>3
<1>3. CASE Return \/ ReturnError
  <2>1. PICK status \in Final : answers' = Answered(status)
    BY <1>3 DEF Return, ReturnError, AnsweredAfterError, Final
  <2>2. /\ current \in Tasks /\ records[current] = "IN_PROGRESS" /\ answers[current] = <<>>
        /\ executions[current] = 1 /\ UNCHANGED <<records, executions, duplicates>>
    BY <1>3 DEF Return, ReturnError, TypeData, Handled, Handling
  <2> QED BY <2>1, <2>2, RepliesAtDesk
<1>4. CASE Start \/ Announce \/ SetCallback \/ HandleJunk
  BY <1>4, NothingAtDesk DEF Start, Announce, SetCallback, HandleJunk, task_vars
<1>5. CASE ReturnUnheard \/ EndOfInput \/ ClearCallback \/ SetStopEvent \/ Join \/ SayStopped \/ Exit
  BY <1>5, NothingAtDesk
     DEF ReturnUnheard, EndOfInput, ClearCallback, SetStopEvent, Join, SayStopped, Exit, task_vars
<1>6. CASE Poll \/ PublishState \/ Submit \/ CloseInput \/ ClosePipe \/ Interrupt \/ Kill
  BY <1>6, NothingAtDesk
     DEF Poll, PublishState, Submit, CloseInput, ClosePipe, Interrupt, Kill, task_vars
<1>7. CASE UNCHANGED tvars
  BY <1>7, NothingAtDesk DEF tvars, task_vars
<1> QED BY <1>1, <1>2, <1>3, <1>4, <1>5, <1>6, <1>7 DEF Next, Main

\* Whatever is submitted, refused, killed or interrupted, the service does nothing
\* that TaskDesk does not allow: every task is executed at most once and before its
\* only answer, and the store repeats that answer.
THEOREM ServiceIsDesk == Spec => KeepsDesk
<1>1. Init => Desk!Init
  <2> SUFFICES ASSUME Init PROVE Desk!Init
    OBVIOUS
  <2>1. \A t \in Tasks : records[t] = "none"
    BY DEF Init
  <2>2. Taken = {} /\ Filed = [t \in Tasks |-> "none"]
    BY <2>1 DEF Taken, Filed, Final
  <2> QED BY <2>2 DEF Init, Desk!Init, Taken, Filed
<1>2. Inv /\ [Next]_tvars => [Desk!Next]_Desk!deskVars
  BY StepAtDesk DEF Inv
<1> QED BY <1>1, <1>2, ServiceInvariance, PTL DEF Spec, KeepsDesk, Desk!Spec

=============================================================================
