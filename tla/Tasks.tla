-------------------------------- MODULE Tasks --------------------------------
(***************************************************************************)
(* The task ledger (server/orchestrator.go).  Claiming a task, setting its *)
(* status and deleting it each read the record first, decide by what they  *)
(* read whether the caller may, and then write the whole record back or    *)
(* delete its key.                                                         *)
(***************************************************************************)
EXTENDS Requests

CONSTANTS
    Task,       \* tasks that may be filed
    Human,      \* members
    Bot,        \* their agents
    OwnerOf,    \* the owner of each agent
    Operator    \* members who are system administrators

ASSUME OwnersOK == OwnerOf \in [Bot -> Human] /\ Operator \subseteq Human

VARIABLES
    task,       \* per task: its record, by whom it was filed and claimed
    deleted,    \* history: the tasks a deletion has removed
    revivable   \* history: those removed while a request had read them

taskVars == <<task, deleted, revivable>>

NoTask == [status |-> "absent", creator |-> "nobody", claimer |-> "nobody"]
Worker == Human \cup Bot

TaskRecord == [status : {"open", "claimed", "done"}, creator : Human,
               claimer : Worker \cup {"nobody"}]

TasksTypeOK ==
    /\ task \in [Task -> TaskRecord \cup {NoTask}]
    /\ deleted \subseteq Task /\ revivable \subseteq deleted
    /\ \A c \in Call : call[c].at # "free" =>
         /\ call[c].at = "read" /\ call[c].op \in {"put", "delete"}
         /\ call[c].on \in Task /\ call[c].by \in Worker
         /\ call[c].op = "put" => call[c].got \in TaskRecord

TasksInit ==
    /\ CallsInit
    /\ task = [t \in Task |-> NoTask]
    /\ deleted = {} /\ revivable = {}

\* The owner of w, when w is an agent.
Owns(h, w) == w \in Bot /\ OwnerOf[w] = h

\* handleCreateTask; each task is filed under an id of its own.
FileTask(t, h) ==
    /\ task[t] = NoTask /\ t \notin deleted
    /\ task' = [task EXCEPT ![t] = [status |-> "open", creator |-> h,
                                    claimer |-> "nobody"]]
    /\ UNCHANGED <<callVars, deleted, revivable>>

Found_Always(t) == t \in deleted \/ task[t] # NoTask   \* mutant: a missing record is taken for an empty one

\* getTask finds the record.
Found(t) == task[t] # NoTask

\* handleClaimTask up to the write: for oneself or for an agent one owns.
ClaimTask(c, t, h, w) ==
    /\ Found(t)
    /\ w = h \/ Owns(h, w) \/ h \in Operator
    /\ Arrive(c, "put", "read", t, h,
              [task[t] EXCEPT !.status = "claimed", !.claimer = w])
    /\ UNCHANGED <<lapses, taskVars>>

\* The creator, the claimer and its owner, and operators.
MayUpdate(h, r) ==
    h = r.creator \/ h = r.claimer \/ Owns(h, r.claimer) \/ h \in Operator

WithStatus(r, s) ==
    IF s = "open" THEN [r EXCEPT !.status = s, !.claimer = "nobody"]
    ELSE [r EXCEPT !.status = s]

\* handleTaskStatus up to the write.
SetStatus(c, t, h, s) ==
    /\ Found(t) /\ MayUpdate(h, task[t])
    /\ Arrive(c, "put", "read", t, h, WithStatus(task[t], s))
    /\ UNCHANGED <<lapses, taskVars>>

\* handleDeleteTask up to the deletion.
DeleteTask(c, t, h) ==
    /\ Found(t)
    /\ h = task[t].creator \/ h \in Operator
    /\ Arrive(c, "delete", "read", t, h, "nothing")
    /\ UNCHANGED <<lapses, taskVars>>

\* putTask: the record as it was read, with the change.
PutTask(c) ==
    /\ At(c, "put", "read")
    /\ Ends(c)
    /\ \/ task' = [task EXCEPT ![call[c].on] = call[c].got] /\ UNCHANGED lapses
       \/ Lapse /\ UNCHANGED task
    /\ UNCHANGED <<ncalls, deleted, revivable>>

\* A request under way has read the record and will write it.
ReadByOther(t) == \E c \in Call : At(c, "put", "read") /\ call[c].on = t

RemoveTask(c) ==
    /\ At(c, "delete", "read")
    /\ Ends(c)
    /\ LET t == call[c].on
       IN  \/ /\ task' = [task EXCEPT ![t] = NoTask]
              /\ deleted' = deleted \cup {t}
              /\ revivable' = IF ReadByOther(t) THEN revivable \cup {t}
                              ELSE revivable
              /\ UNCHANGED lapses
           \/ Lapse /\ UNCHANGED taskVars
    /\ UNCHANGED ncalls

TasksRestart == CallsCutOff /\ UNCHANGED taskVars

TasksNext ==
    \/ \E t \in Task, h \in Human : FileTask(t, h)
    \/ \E c \in Call, t \in Task, h \in Worker :
         \/ \E w \in Worker : ClaimTask(c, t, h, w)
         \/ \E s \in {"open", "claimed", "done"} : SetStatus(c, t, h, s)
         \/ DeleteTask(c, t, h)
    \/ \E c \in Call : PutTask(c) \/ RemoveTask(c)
    \/ TasksRestart

TasksSpec == TasksInit /\ [][TasksNext]_<<callVars, taskVars>>

-----------------------------------------------------------------------------
(* A deleted task comes back only when a request had read it before it was *)
(* deleted; no request that begins later finds it.                         *)
DeletedStaysDeleted ==
    \A t \in deleted : task[t] # NoTask => t \in revivable
=============================================================================
