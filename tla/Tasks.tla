-------------------------------- MODULE Tasks --------------------------------
(***************************************************************************)
(* The background task DAG and the pressure controller                     *)
(* (crates/temnion-runtime, M9), driven by workers that ask for the ready  *)
(* tasks, mark one running and mark it completed or failed.  A worker's    *)
(* list may be out of date when it acts on it.                             *)
(***************************************************************************)
EXTENDS Integers, Sequences, SequencesExt, FiniteSetsExt, TLC, HistoryFilter

CONSTANTS
    Workers,
    Limits,         \* foreground_queue_limit
    Depths,         \* queue depths the foreground reports
    Classes,        \* TaskClass, by number: Seal 4 ... Maintenance 0
    MaxTask         \* bound: tasks added

VARIABLES
    tasks,          \* the tasks by id: class, status, dependencies
    limit, depth,   \* PressureController
    taken           \* worker -> the task it took from ready_tasks, if any

taskVars == <<tasks, limit, depth, taken>>

TasksInit ==
    /\ tasks = <<>>
    /\ limit \in Limits
    /\ depth = 0
    /\ taken = [w \in Workers |-> None]

(* add_task: the dependencies exist, so that has_cycle never finds one.    *)
AddTask(class, deps) ==
    /\ Len(tasks) < MaxTask
    /\ deps \subseteq DOMAIN tasks
    /\ tasks' = Append(tasks, [class |-> class, status |-> "Pending", deps |-> deps])
    /\ UNCHANGED <<limit, depth, taken>>

(* Mutant: a queue without a limit counts as full.                         *)
PressureLevel_ZeroIsFull ==
    IF limit = 0 THEN 3
    ELSE Cardinality({t \in {40, 70, 90} : (depth * 100) \div limit >= t})

(* Normal 0, Moderate 1, High 2, Critical 3.                               *)
PressureLevel ==
    IF limit = 0 THEN 0
    ELSE Cardinality({t \in {40, 70, 90} : (depth * 100) \div limit >= t})

ShouldThrottle == PressureLevel >= 2

ShouldYield(class) ==
    CASE PressureLevel = 3 -> TRUE
      [] PressureLevel = 2 -> class # 4
      [] PressureLevel = 1 -> class <= 2
      [] OTHER             -> FALSE

DepsCompleted(t) == \A d \in tasks[t].deps : tasks[d].status = "Completed"

(* By class, the highest first, then by id.                                *)
ReadyTasks ==
    SetToSortSeq({t \in DOMAIN tasks : tasks[t].status = "Pending" /\ DepsCompleted(t)},
        LAMBDA a, b : \/ tasks[a].class > tasks[b].class
                      \/ tasks[a].class = tasks[b].class /\ a < b)

Take(w) ==
    /\ taken[w] = None
    /\ ~ShouldThrottle
    /\ ReadyTasks # <<>>
    /\ taken' = [taken EXCEPT ![w] = Some(Head(ReadyTasks))]
    /\ UNCHANGED <<tasks, limit, depth>>

(* mark_running looks at the dependencies and not at the task's own        *)
(* status: a task another worker has finished starts again.                *)
MarkRunning(w) ==
    \E t \in taken[w] :
        /\ tasks[t].status # "Running"
        /\ DepsCompleted(t)
        /\ tasks' = [tasks EXCEPT ![t].status = "Running"]
        /\ UNCHANGED <<limit, depth, taken>>

(* The task is running already: mark_running changes nothing, and the      *)
(* prerequisites may be running again: TaskPrerequisitesNotMet.            *)
GiveUp(w) ==
    \E t \in taken[w] :
        /\ ~DepsCompleted(t)
        /\ tasks[t].status # "Running"
        /\ taken' = [taken EXCEPT ![w] = None]
        /\ UNCHANGED <<tasks, limit, depth>>

(* mark_completed, mark_failed.  A task that should yield gets no further. *)
Mark(w, status) ==
    \E t \in taken[w] :
        /\ ~ShouldYield(tasks[t].class)
        /\ tasks[t].status = "Running"
        /\ tasks' = [tasks EXCEPT ![t].status = status]
        /\ taken' = [taken EXCEPT ![w] = None]
        /\ UNCHANGED <<limit, depth>>

SetQueueDepth(d) ==
    /\ d # depth
    /\ depth' = d
    /\ UNCHANGED <<tasks, limit, taken>>

Work(w) == Take(w) \/ MarkRunning(w) \/ GiveUp(w) \/ Mark(w, "Completed")

TasksNext ==
    \/ \E class \in Classes, deps \in SUBSET (1..MaxTask) : AddTask(class, deps)
    \/ \E w \in Workers : Work(w) \/ Mark(w, "Failed")
    \/ \E d \in Depths : SetQueueDepth(d)

(* Workers keep asking and finish what they run whenever the pressure lets *)
(* them, and the foreground queue runs empty again and again.              *)
TasksFairness ==
    /\ \A w \in Workers : SF_taskVars(Work(w))
    /\ WF_taskVars(SetQueueDepth(0))

-----------------------------------------------------------------------------
Status(t, status) == t \in DOMAIN tasks /\ tasks[t].status = status

(* Work is never stuck: with workers that go on and a foreground that      *)
(* lets up now and then, every task completes unless a task has failed     *)
(* (add_task, ready_tasks, mark_running, pressure_level).                  *)
TasksComplete ==
    \A t \in 1..MaxTask :
        t \in DOMAIN tasks ~> (Status(t, "Completed") \/ \E s \in 1..MaxTask : Status(s, "Failed"))
=============================================================================
