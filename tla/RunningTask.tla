---------------------------- MODULE RunningTask ----------------------------
(***************************************************************************)
(* One run of a workflow: the state machine of core/task/task_description.py *)
(* with the chain of its commands (execute_task_commands), its row in the   *)
(* database, and the subscribers it sends actions to.                       *)
(*                                                                          *)
(* Steps are 1..N, every step has a message type of its own; state 0 is the *)
(* start state and N + 1 the end state.  A command is known by the step on  *)
(* whose entry it is issued; the events task_started, task_start and        *)
(* task_end, which nothing below reacts to, are left out or pass by.        *)
(***************************************************************************)
EXTENDS Naturals, FiniteSets, Sequences, Functions

CONSTANTS
    N,            \* number of steps
    Action,       \* Action[i]: "perform" | "emit" | "wait" | "execute"
    OnError,      \* OnError[i]: "Continue" | "Stop"
    Subs,         \* ids of subscribers
    Offered,      \* Offered[s]: the steps subscriber s subscribes to
    Blocking,     \* subscribers with wait_for_completion
    Unasked,      \* Unasked[s]: the steps s may answer although it has no action of them
    Faults,       \* subset of {"disconnect", "resubscribe", "fail"}
    MaxCrashes,   \* bound on restarts
    MaxChain      \* bound on command batches that timeouts and unasked answers pile up

ASSUME StepAssumption ==
    /\ N \in Nat \ {0}
    /\ Action \in [1..N -> {"perform", "emit", "wait", "execute"}]
    /\ OnError \in [1..N -> {"Continue", "Stop"}]

ASSUME SubscriberAssumption ==
    /\ Offered \in [Subs -> SUBSET (1..N)]
    /\ Blocking \subseteq Subs
    /\ Unasked \in [Subs -> SUBSET (1..N)]
    /\ Faults \subseteq {"disconnect", "resubscribe", "fail"}

ASSUME BoundAssumption == MaxCrashes \in Nat /\ MaxChain \in Nat

VARIABLES
    wi,             \* the RunningTask: machine and current StepState
    registered,     \* wi is in TaskHandler.tasks
    chain,          \* command batches in the order update_task chains them
    row,            \* the row of running_task_db
    subscriptions,  \* SubscriptionHandler: the steps each subscriber handles
    opening,        \* channels of a connection that is not on the bus yet
    listening,      \* channels a connected subscriber listens to
    inbox,          \* actions a subscriber has received and not answered
    crashes,        \* number of restarts so far
    ran,            \* history: commands executed on the CLI
    sent,           \* history: the last step whose command has been issued
    missed          \* history: actions issued while a connection was being opened

vars == <<wi, registered, chain, row, subscriptions, opening, listening, inbox, crashes,
          ran, sent, missed>>
env == <<subscriptions, opening, listening>>

End == N + 1
Nobody == [s \in {} |-> {}]

-----------------------------------------------------------------------------
(* The state machine *)

\* Subscribers as the handler knows them now: a Subscriber is its id and its
\* subscriptions.
subscribers_by_event(i) ==
    [s \in {x \in Subs : i \in subscriptions[x]} |-> subscriptions[s]]

answered(m, i) == {x.sub : x \in {y \in m.received : y.kind # "event" /\ y.step = i}}

\* Mutation: an answer to any step counts.
missing_of_any_step(m, i, wait_for) == (DOMAIN wait_for \cap Blocking) \ {x.sub : x \in m.received}

missing(m, i, wait_for) == (DOMAIN wait_for \cap Blocking) \ answered(m, i)

\* current_step_done of the four kinds of StepState.  The flags belong to the
\* current state; a state ahead has the subscribers it gets when it is entered.
TimedOut(m, i) == i = m.state /\ m.timed_out
WaitFor(m, i) == IF i = m.state THEN m.wait_for ELSE subscribers_by_event(i)

\* Mutations: the first answer will do; a step does not time out.
PerformActionDone_any(m, i) ==
    \/ TimedOut(m, i)
    \/ ~m.is_error /\ (answered(m, i) # {} \/ WaitFor(m, i) = Nobody)
PerformActionDone_patient(m, i) == ~m.is_error /\ missing(m, i, WaitFor(m, i)) = {}

PerformActionDone(m, i) ==
    \/ TimedOut(m, i)
    \/ ~m.is_error /\ missing(m, i, WaitFor(m, i)) = {}

WaitForEventDone(m, i) ==
    TimedOut(m, i) \/ [kind |-> "event", step |-> i, sub |-> ""] \in m.received

\* Mutation: the timeout of a command counts.
ExecuteCommandDone_late(m, i) == i = m.state /\ (m.execution_done \/ m.timed_out)

ExecuteCommandDone(m, i) == i = m.state /\ m.execution_done

EmitEventDone(m, i) == ~TimedOut(m, i)

current_step_done(m, i) ==
    \/ i = 0
    \/ /\ i \in 1..N
       /\ CASE Action[i] = "perform" -> PerformActionDone(m, i)
            [] Action[i] = "wait"    -> WaitForEventDone(m, i)
            [] Action[i] = "execute" -> ExecuteCommandDone(m, i)
            [] Action[i] = "emit"    -> EmitEventDone(m, i)

\* Where the loop of move_to_next_state comes to rest.
next_state(m) ==
    CHOOSE j \in m.state..End :
        /\ ~current_step_done(m, j)
        /\ \A k \in m.state..(j - 1) : current_step_done(m, k)

\* begin_step: entering a state refreshes its subscribers, flags and clock.
begin_step(m, i) ==
    [m EXCEPT !.state = i, !.timed_out = FALSE, !.execution_done = FALSE, !.late = FALSE,
              !.wait_for = IF i \in 1..N /\ Action[i] = "perform" THEN subscribers_by_event(i)
                           ELSE Nobody]

\* Mutation: the machine does not move.
move_to_next_state_never(m) == m

move_to_next_state(m) ==
    IF next_state(m) = m.state THEN m ELSE begin_step(m, next_state(m))

\* The commands move_to_next_state returns: one for every state it enters.
resulting_commands(m) == [k \in 1..(next_state(m) - m.state) |-> m.state + k]

is_active(m) == m.state # End

\* RunningTask.end
end(m) == IF is_active(m) THEN [begin_step(m, End) EXCEPT !.is_error = TRUE] ELSE m

\* The current state is a PerformActionState.
performing == is_active(wi) /\ Action[wi.state] = "perform"

\* Mutation: any earlier answer of the subscriber counts as the acknowledgement.
pending_action_for_acked(s) ==
    IF /\ performing
       /\ s \in DOMAIN wi.wait_for /\ wi.wait_for[s] = subscriptions[s]
       /\ s \notin {x.sub : x \in wi.received}
    THEN {wi.state} ELSE {}

\* RunningTask.pending_action_for compares whole Subscriber objects.
pending_action_for(s) ==
    IF /\ performing
       /\ s \in DOMAIN wi.wait_for /\ wi.wait_for[s] = subscriptions[s]
       /\ s \notin answered(wi, wi.state)
    THEN {wi.state} ELSE {}

Batch(cmds, msg) == [cmds |-> cmds, ran |-> {}, msg |-> msg, stored |-> FALSE, was |-> TRUE,
                     failed |-> FALSE]

\* What the row holds of a run.
exported(m) == [state |-> m.state, wait_for |-> DOMAIN m.wait_for]

NewTask == [state |-> 0, is_error |-> FALSE, timed_out |-> FALSE, execution_done |-> FALSE,
            late |-> FALSE, wait_for |-> Nobody, received |-> {}]

\* RunningTask.empty, and the row that start_task_directly inserts.
Init == /\ subscriptions = Offered
        /\ wi = move_to_next_state(NewTask)
        /\ chain = <<Batch(resulting_commands(NewTask), {})>>
        /\ registered = TRUE
        /\ row = [stored |-> TRUE, saved |-> exported(wi), received |-> {}, since |-> wi.state]
        /\ opening = [s \in Subs |-> {}]
        /\ listening \in [Subs -> {{}}] \cup {Offered}
        /\ inbox = [s \in Subs |-> {}]
        /\ crashes = 0
        /\ ran = {}
        /\ sent = 0
        /\ missed = [s \in Subs |-> {}]

-----------------------------------------------------------------------------
(* execute_task_commands *)

\* Mutation: the new batch does not wait for the ones before.
execute_task_commands_now(cmds, msg) == chain' = <<Batch(cmds, msg)>> \o chain

\* A new batch goes to the end of the chain: execute_in_order.
execute_task_commands(cmds, msg) == chain' = Append(chain, Batch(cmds, msg))

\* One command of the first batch: an action reaches the subscribers that
\* listen at this moment, a CLI command is executed.
execute_command ==
    /\ chain # <<>> /\ ~Head(chain).failed
    /\ Head(chain).cmds # <<>>
    /\ LET k   == Head(Head(chain).cmds)
           cli == IF k \in 1..N /\ Action[k] = "execute" THEN {k} ELSE {}
       IN  /\ chain' = [chain EXCEPT ![1].cmds = Tail(@), ![1].ran = @ \cup cli]
           /\ ran' = ran \cup cli
           /\ sent' = k
           /\ inbox' = [s \in Subs |-> IF k \in 1..N /\ Action[k] = "perform" /\ k \in listening[s]
                                       THEN inbox[s] \cup {k} ELSE inbox[s]]
           /\ missed' = [s \in Subs |-> missed[s] \cup (opening[s] \cap {k})]
    /\ UNCHANGED <<env, wi, registered, row, crashes>>

\* A CLI command raises: update_task holds the exception, and every batch behind it, which
\* awaits update_task first, raises it as well.  Nothing of the chain is executed or stored
\* any more, and the watcher does not get past it.
command_fails ==
    /\ "fail" \in Faults
    /\ chain # <<>> /\ ~Head(chain).failed
    /\ Head(chain).cmds # <<>>
    /\ LET k == Head(Head(chain).cmds) IN k \in 1..N /\ Action[k] = "execute"
    /\ chain' = [chain EXCEPT ![1].failed = TRUE]
    /\ UNCHANGED <<env, wi, registered, row, inbox, crashes, ran, sent, missed>>

\* Mutation: the answer is not stored with the state.
update_state_without_message(msg) == row' = [row EXCEPT !.saved = exported(wi)]

\* RunningTaskDb.update_state; step_started_at is not part of the update.
update_state(msg) == row' = [row EXCEPT !.saved = exported(wi), !.received = @ \cup msg]

\* All commands of the batch are executed: the state is stored, or the row of
\* an ended run deleted.
store_running_task_state ==
    /\ chain # <<>>
    /\ Head(chain).cmds = <<>> /\ ~Head(chain).stored
    /\ IF is_active(wi) THEN update_state(Head(chain).msg)
       ELSE row' = [row EXCEPT !.stored = @ /\ ~registered]
    /\ chain' = [chain EXCEPT ![1].stored = TRUE, ![1].was = is_active(wi)]
    /\ UNCHANGED <<env, wi, registered, inbox, crashes, ran, sent, missed>>

\* Then the run is told the results, which may move it on.
handle_command_results ==
    LET b == Head(chain)
        m == IF wi.state \in b.ran THEN [wi EXCEPT !.execution_done = TRUE] ELSE wi
        cmds == resulting_commands(m)
    IN  /\ chain # <<>>
        /\ b.stored
        /\ wi' = move_to_next_state(m)
        /\ chain' = IF cmds = <<>> THEN Tail(chain) ELSE Append(Tail(chain), Batch(cmds, {}))
        /\ row' = [row EXCEPT !.stored = @ /\ ~(cmds = <<>> /\ b.was /\ ~is_active(wi) /\ registered)]
        /\ UNCHANGED <<env, registered, inbox, crashes, ran, sent, missed>>

-----------------------------------------------------------------------------
(* Answers, events and timeouts *)

\* An answer of a connected subscriber takes the action out of its hands.  The API accepts
\* answers at any time: twice, after a connection was lost, or to what was sent before a
\* restart.
Answer(s, i) == /\ listening[s] # {}
                /\ i \in inbox[s] \/ (i \in Unasked[s] /\ Len(chain) < MaxChain)
                /\ inbox' = [inbox EXCEPT ![s] = @ \ {i}]

handle_action_done(s, i) ==
    LET done == [kind |-> "done", step |-> i, sub |-> s]
        m    == [wi EXCEPT !.received = @ \cup {done}]
    IN  /\ Answer(s, i)
        /\ IF registered
           THEN /\ wi' = move_to_next_state(m)
                /\ execute_task_commands(resulting_commands(m), {done})
           ELSE UNCHANGED <<wi, chain>>
        /\ UNCHANGED <<env, registered, row, crashes, ran, sent, missed>>

\* handle_error: ignored outside of a PerformAction step, although the message
\* is stored; counted as an answer, or the end of the run.
handle_action_error(s, i) ==
    LET err == [kind |-> "error", step |-> i, sub |-> s]
        m   == [wi EXCEPT !.received = @ \cup {err}]
    IN  /\ Answer(s, i)
        /\ \/ ~registered /\ UNCHANGED <<wi, chain>>
           \/ /\ registered
              /\ ~performing
              /\ UNCHANGED wi
              /\ execute_task_commands(<<>>, {err})
           \/ /\ registered /\ performing
              /\ IF OnError[wi.state] = "Continue"
                 THEN /\ wi' = move_to_next_state(m)
                      /\ execute_task_commands(resulting_commands(m), {err})
                 ELSE /\ wi' = end(wi)
                      /\ execute_task_commands(<<>>, {err})
        /\ UNCHANGED <<env, registered, row, crashes, ran, sent, missed>>

\* The event a WaitForEvent step waits for.
handle_event ==
    LET event == [kind |-> "event", step |-> wi.state, sub |-> ""]
        m     == [wi EXCEPT !.received = @ \cup {event}]
    IN  /\ registered /\ is_active(wi)
        /\ Action[wi.state] = "wait"
        /\ wi' = move_to_next_state(m)
        /\ execute_task_commands(resulting_commands(m), {event})
        /\ UNCHANGED <<env, registered, row, inbox, crashes, ran, sent, missed>>

\* Time: the current step has lasted longer than its timeout.
Overdue ==
    /\ registered /\ is_active(wi) /\ ~wi.late
    /\ wi' = [wi EXCEPT !.late = TRUE]
    /\ UNCHANGED <<env, registered, chain, row, inbox, crashes, ran, sent, missed>>

\* check_overdue_tasks at a run that has timed out.  A command step that may
\* continue ignores the timeout and only stores its state once more.
check_timeout ==
    LET m == [wi EXCEPT !.timed_out = TRUE]
    IN  /\ registered /\ is_active(wi) /\ wi.late
        /\ \/ /\ OnError[wi.state] = "Continue"
              /\ Len(chain) < MaxChain
              /\ wi' = move_to_next_state(m)
              /\ execute_task_commands(resulting_commands(m), {})
              /\ UNCHANGED row
           \/ /\ OnError[wi.state] = "Stop"
              /\ wi' = end(m)
              /\ row' = [row EXCEPT !.stored = FALSE]
              /\ UNCHANGED chain
        /\ UNCHANGED <<env, registered, inbox, crashes, ran, sent, missed>>

\* check_overdue_tasks at a run that is over and whose commands are executed.
delete_running_task ==
    /\ registered /\ ~is_active(wi) /\ chain = <<>>
    /\ registered' = FALSE
    /\ row' = [row EXCEPT !.stored = FALSE]
    /\ UNCHANGED <<env, wi, chain, inbox, crashes, ran, sent, missed>>

-----------------------------------------------------------------------------
(* Crash and start_interrupted_tasks *)

\* Mutation: the command of the restored step counts as executed.
restored_done(late) ==
    [NewTask EXCEPT !.state = row.saved.state, !.received = row.received, !.late = late,
                    !.execution_done = TRUE,
                    !.wait_for = [s \in row.saved.wait_for
                                          \cap DOMAIN subscribers_by_event(row.saved.state)
                                    |-> subscriptions[s]]]

\* reset_state: the machine as the row describes it.
restored(late) ==
    [NewTask EXCEPT !.state = row.saved.state, !.received = row.received, !.late = late,
                    !.wait_for = [s \in row.saved.wait_for
                                          \cap DOMAIN subscribers_by_event(row.saved.state)
                                    |-> subscriptions[s]]]

\* The clock of the restored step is the one of the step in which the row was
\* inserted: the timeout of a later step may seem to have passed.
RestoredLate == IF row.saved.state = row.since THEN {wi.late /\ wi.state = row.since}
                ELSE BOOLEAN

\* The process dies with everything but the database.  The restored run moves
\* on if it can, what it would emit is dropped, a command is executed again.
start_interrupted_tasks ==
    /\ crashes < MaxCrashes
    /\ crashes' = crashes + 1
    /\ opening' = [s \in Subs |-> {}]
    /\ listening' = [s \in Subs |-> {}]
    /\ inbox' = [s \in Subs |-> {}]
    /\ registered' = row.stored
    /\ \/ /\ row.stored
          /\ \E late \in RestoredLate : wi' = move_to_next_state(restored(late))
          /\ IF is_active(wi') /\ Action[wi'.state] = "execute"
             THEN chain' = <<Batch(<<wi'.state>>, {})>> /\ sent' = wi'.state - 1
             ELSE chain' = <<>> /\ sent' = wi'.state
       \/ /\ ~row.stored
          /\ chain' = <<>>
          /\ UNCHANGED <<wi, sent>>
    /\ UNCHANGED <<subscriptions, row, ran, missed>>

-----------------------------------------------------------------------------
(* Subscribers: Api.handle_subscribed and the subscription handler *)

\* The pending actions are looked up and sent when the connection is opened.
handle_subscribed(s) ==
    /\ listening[s] = {} /\ opening[s] = {}
    /\ subscriptions[s] # {}
    /\ opening' = [opening EXCEPT ![s] = subscriptions[s]]
    /\ inbox' = [inbox EXCEPT ![s] = IF registered THEN pending_action_for(s) ELSE {}]
    /\ missed' = [missed EXCEPT ![s] = {}]
    /\ UNCHANGED <<wi, registered, chain, row, subscriptions, listening, crashes, ran, sent>>

\* MessageBus.subscribe: only then does the subscriber hear of new actions.
subscribe(s) ==
    /\ opening[s] # {}
    /\ listening' = [listening EXCEPT ![s] = opening[s]]
    /\ opening' = [opening EXCEPT ![s] = {}]
    /\ UNCHANGED <<wi, registered, chain, row, subscriptions, inbox, crashes, ran, sent, missed>>

disconnect(s) ==
    /\ "disconnect" \in Faults
    /\ listening[s] # {}
    /\ listening' = [listening EXCEPT ![s] = {}]
    /\ inbox' = [inbox EXCEPT ![s] = {}]
    /\ UNCHANGED <<wi, registered, chain, row, subscriptions, opening, crashes, ran, sent, missed>>

\* add_subscription and remove_subscription, which may come at any time.
update_subscriptions(s, i) ==
    /\ "resubscribe" \in Faults
    /\ i \in Offered[s]
    /\ subscriptions' = [subscriptions EXCEPT ![s] = IF i \in @ THEN @ \ {i} ELSE @ \cup {i}]
    /\ UNCHANGED <<wi, registered, chain, row, opening, listening, inbox, crashes, ran, sent, missed>>

Next == \/ execute_command \/ command_fails \/ store_running_task_state \/ handle_command_results
        \/ handle_event \/ Overdue \/ check_timeout \/ delete_running_task
        \/ start_interrupted_tasks
        \/ \E s \in Subs :
             \/ handle_subscribed(s) \/ subscribe(s) \/ disconnect(s)
             \/ \E i \in 1..N : \/ handle_action_done(s, i) \/ handle_action_error(s, i)
                              \/ update_subscriptions(s, i)

Spec == Init /\ [][Next]_vars

\* The event loop serves the chain and the watcher, and time passes; nothing
\* is assumed of subscribers and events.
Fairness == /\ WF_vars(execute_command \/ store_running_task_state \/ handle_command_results)
            /\ WF_vars(check_timeout) /\ WF_vars(delete_running_task) /\ WF_vars(Overdue)
            /\ \A s \in Subs : WF_vars(subscribe(s))

FairSpec == Spec /\ Fairness

-----------------------------------------------------------------------------
(* Properties *)

Messages == [kind : {"done", "error"}, step : 1..N, sub : Subs]
              \cup [kind : {"event"}, step : 1..N, sub : {""}]

\* Every variable has the type its Python counterpart has.
TypeOK == /\ wi.state \in 1..End
          /\ {wi.is_error, wi.timed_out, wi.execution_done, wi.late} \subseteq BOOLEAN
          /\ DOMAIN wi.wait_for \subseteq Subs
          /\ wi.received \subseteq Messages /\ row.received \subseteq Messages
          /\ row.saved \in [state : 1..End, wait_for : SUBSET Subs]
          /\ registered \in BOOLEAN /\ row.stored \in BOOLEAN
          /\ \A x \in {subscriptions, opening, listening, inbox, missed} : x \in [Subs -> SUBSET (1..N)]
          /\ \A k \in 1..Len(chain) : Range(chain[k].cmds) \subseteq 1..End
          /\ ran \subseteq 1..N /\ sent \in 0..End

\* Nothing that the machine wants done is lost, doubled or done out of order,
\* however answers, timeouts and command results interleave: the commands that
\* wait in the chain are those of the steps between the last one issued and
\* the current one, each once, in the order of the steps.
CommandsInOrder ==
    registered /\ ~wi.is_error =>
      /\ UNION {Range(chain[k].cmds) : k \in DOMAIN chain} = (sent + 1)..wi.state
      /\ \A k \in DOMAIN chain : \A i, j \in DOMAIN chain[k].cmds :
           i < j => chain[k].cmds[i] < chain[k].cmds[j]
      /\ \A k, l \in DOMAIN chain : k < l =>
           \A x \in Range(chain[k].cmds), y \in Range(chain[l].cmds) : x < y

\* A run only gets past an ExecuteCommand step after its command has been
\* executed, whatever times out, fails or restarts in between.
ExecutedBeforePassed ==
    ~wi.is_error => \A i \in 1..(wi.state - 1) : Action[i] = "execute" => i \in ran

\* An active run has a row that is never ahead of it, and that is up to date
\* with the machine whenever the chain is empty and the run was not restored: a
\* restart then takes up the same step and loses no answer.
RowIsCurrent ==
    registered /\ is_active(wi) =>
      /\ row.stored /\ row.saved.state <= wi.state
      /\ chain = <<>> => wi.received \subseteq row.received
      /\ chain = <<>> /\ crashes = 0 => row.saved = exported(wi)

\* Every answer a run still waits for is under way: the subscriber holds the
\* action, or it is in the chain, or the subscriber is not connected and gets
\* it as a pending action when it is.  Only an action issued while the
\* subscriber was opening its connection can be missed.
ActionsReachSubscribers ==
    registered /\ performing =>
      \A s \in missing(wi, wi.state, wi.wait_for) :
        wi.state \in inbox[s] \cup missed[s] \/ sent < wi.state \/ listening[s] = {}

\* A PerformAction step that is passed without a timeout has the answer of each
\* blocking subscriber that was subscribed to it when it was entered; a restart
\* only lets go of the ones that have unsubscribed since.
PassedWithAnswers ==
    [][\A i \in 1..N :
         wi.state = i /\ wi'.state > i /\ Action[i] = "perform" /\ ~wi.late /\ ~wi'.is_error
           => {s \in DOMAIN wi.wait_for \cap Blocking :
                 crashes' = crashes \/ i \in subscriptions[s]} \subseteq answered(wi', i)]_vars

\* The run keeps the promise of WorkflowRun: whatever answers, times out, crashes and is
\* restored from the row (move_to_next_state, store_running_task_state, reset_state,
\* start_interrupted_tasks).
Run == INSTANCE WorkflowRun WITH
           Last <- N, Commands <- {i \in 1..N : Action[i] = "execute"},
           at <- wi.state, failed <- wi.is_error, known <- registered,
           kept <- row.stored, saved <- row.saved.state, executed <- ran
RunKept == Run!Spec

\* Every run comes to its end and is removed, although subscribers need not
\* answer and events need not come.
RunEnds == <>[]~registered

\* "update the step started time, whenever a new state is entered": a restart
\* does not make a step overdue that has just been entered.
RestartKeepsClock ==
    [][crashes' # crashes /\ row.saved.state = wi.state /\ wi'.state = wi.state
         => (wi'.late => wi.late)]_vars
=============================================================================
