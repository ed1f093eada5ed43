------------------------------ MODULE TaskList ------------------------------
(***************************************************************************)
(* The task list of a swarm: a Redis hash of tasks with a status each      *)
(* (activities/p2p.go), and the questions the lead asks of a copy of it    *)
(* (workflows/swarm_workflow.go).  A list is a function from the tasks to  *)
(* their status; a task that is not in the hash is "absent".               *)
(***************************************************************************)
EXTENDS FiniteSets

CONSTANTS
    Tasks,      \* the task ids the lead may create
    Deps        \* Deps[t]: the depends_on of t

ASSUME DepsAssumption == IsFiniteSet(Tasks) /\ Deps \in [Tasks -> SUBSET Tasks]

Status == {"absent", "pending", "in_progress", "completed"}
TaskLists == [Tasks -> Status]
EmptyList == [t \in Tasks |-> "absent"]

ValidateStatusTransition(from, to) ==
    <<from, to>> \in {<<"pending", "in_progress">>, <<"pending", "completed">>,
                      <<"in_progress", "completed">>, <<"in_progress", "in_progress">>,
                      <<"completed", "in_progress">>}

(* UpdateTaskStatus for the tasks of S, each on its own: an absent task    *)
(* and a transition that is not allowed are refused and change nothing.    *)
UpdateTaskStatus(list, S, to) ==
    [t \in Tasks |-> IF t \in S /\ ValidateStatusTransition(list[t], to)
                     THEN to ELSE list[t]]

(* InitTaskList overwrites what is there, CreateTask does not.             *)
InitTaskList(list, S) == [t \in Tasks |-> IF t \in S THEN "pending" ELSE list[t]]

CreateTask(list, t) == IF list[t] = "absent" THEN [list EXCEPT ![t] = "pending"] ELSE list

(* A task that is not in the list has no dependencies.                     *)
TaskHasUnmetDeps_Started(t, list) ==
    list[t] # "absent" /\ \E d \in Deps[t] : list[d] \in {"absent", "pending"}

TaskHasUnmetDeps(t, list) ==
    /\ list[t] # "absent"
    /\ \E d \in Deps[t] : list[d] # "completed"

HasAssignablePendingTask(list) ==
    \E t \in Tasks : list[t] = "pending" /\ ~TaskHasUnmetDeps(t, list)

Unfinished(list) == {t \in Tasks : list[t] \in {"pending", "in_progress"}}

=============================================================================
