------------------------------ MODULE TrashBin ------------------------------
(***************************************************************************)
(* The trash bin: projects and accounts that have been deleted stay there, *)
(* hidden, until a scheduled task empties them or someone puts them back.  *)
(* Requests that move objects in and out, the periodic task of each row,   *)
(* the celery workers that empty them, with their retries, and the         *)
(* garbage collector interleave over the same rows.                        *)
(***************************************************************************)
EXTENDS Naturals, FiniteSets

CONSTANTS
    Accounts,
    Projects,
    Owner,        \* Owner[p]: the account that owns project p
    Clients,      \* web workers
    Workers,      \* celery workers
    FirstPk,      \* FirstPk[k]: next primary key of the table of kind k
    MaxRows,      \* MaxRows[k]: bound on the rows ever created in the table of kind k
    MaxRetries,   \* retries of a task before it fails
    MaxDoubled,   \* bound on `doubled`: past it no account is sent again while its task is around
    EmptyManually,  \* accounts wait for an admin: ACCOUNT_TRASH_GRACE_PERIOD is -1
    Unreliable    \* the kinds of task whose calls to KoBoCAT may fail

Kinds == {"account", "project"}
Objects == Accounts \cup Projects
Kind(o) == IF o \in Accounts THEN "account" ELSE "project"
OfKind(k) == IF k = "account" THEN Accounts ELSE Projects

ASSUME TrashAssumption ==
    /\ Accounts \cap Projects = {}
    /\ IsFiniteSet(Accounts) /\ IsFiniteSet(Projects)
    /\ Owner \in [Projects -> Accounts]
    /\ FirstPk \in [Kinds -> Nat \ {0}]
    /\ MaxRows \in [Kinds -> Nat]
    /\ MaxRetries \in Nat
    /\ MaxDoubled \in Nat
    /\ EmptyManually \in BOOLEAN
    /\ Unreliable \subseteq Kinds

VARIABLES
    trash,      \* trash[o]: the row of object o in its table, or NoRow
    next,       \* the next primary key of each table
    hidden,     \* objects flagged pending_delete (projects), inactive (accounts)
    gone,       \* objects deleted for good
    periodic,   \* rows of PeriodicTask: the task they run and their unique name
    enabled,    \* the tasks celery beat has still to fire
    queue,      \* messages waiting for a worker
    job,        \* the running tasks, at most one per worker
    request,    \* the requests being served, at most one per client
    doubled     \* history: the tasks of accounts that an admin has sent although
                \* there was one already, with beat, in a message or at work

beatVars == <<periodic, enabled>>
vars == <<trash, next, hidden, gone, beatVars, queue, job, request, doubled>>

\* A task is the emptying of one row of one table.
Tasks == UNION {{k} \X (FirstPk[k] .. FirstPk[k] + MaxRows[k] - 1) : k \in Kinds}
Messages == [task: Tasks, tries: 0 .. MaxRetries]

\* The name of a periodic task says what is deleted, and whether entirely.
Periodic == [task: Tasks, name: Objects \X BOOLEAN]

TrashStatuses == {"pending", "in_progress", "retry", "failed"}
NoRow == [pk |-> 0, status |-> "none", retain |-> TRUE]
Row == [pk: Nat \ {0}, status: TrashStatuses, retain: BOOLEAN]

\* delete: past the transaction that flags the row IN_PROGRESS; schedule: about to
\* delete the periodic task; retry, fail: in a signal handler.
Job == [by: Workers, obj: Objects, task: Tasks, tries: 0 .. MaxRetries,
        pc: {"delete", "schedule", "retry", "fail"}]

\* toggle: about to write the flags; trash: about to move the rows.
Request == [by: Clients, objs: SUBSET Objects, kind: Kinds,
            act: {"delete", "undelete"}, pc: {"toggle", "trash"},
            retain: BOOLEAN]

TypeOK ==
    /\ trash \in [Objects -> Row \cup {NoRow}]
    /\ next \in [Kinds -> Nat]
    /\ hidden \subseteq Objects
    /\ gone \subseteq Objects
    /\ periodic \subseteq Periodic
    /\ enabled \subseteq {x.task : x \in periodic}
    /\ queue \subseteq Messages
    /\ job \subseteq Job
    /\ request \subseteq Request
    /\ doubled \subseteq {t \in Tasks : t[1] = "account"}

Init ==
    /\ trash = [o \in Objects |-> NoRow]
    /\ next = FirstPk
    /\ hidden = {}
    /\ gone = {}
    /\ periodic = {}
    /\ enabled = {}
    /\ queue = {}
    /\ job = {}
    /\ request = {}
    /\ doubled = {}

Status(o) == trash[o].status
InTrash(o) == trash[o] # NoRow
TaskOf(o) == <<Kind(o), trash[o].pk>>
Owned(u) == {p \in Projects : Owner[p] = u}

\* The object whose row has the task's primary key in the task's table.
RowsOf(task) == {o \in Objects : InTrash(o) /\ TaskOf(o) = task}
WithStatus(objs, s) ==
    [o \in Objects |-> IF o \in objs THEN [trash[o] EXCEPT !.status = s] ELSE trash[o]]
Without(objs) == [o \in Objects |-> IF o \in objs THEN NoRow ELSE trash[o]]

----------------------------------------------------------------------------
(* Requests *)

\* A project is toggled first in both directions; an account that is deleted is
\* moved to the trash first.  Only accounts are deleted without a placeholder;
\* they are put back from the list of the trash.
Ask(c, k, objs, act, retain) ==
    /\ \A r \in request : r.by # c
    /\ objs \subseteq OfKind(k) \ gone
    /\ k = "project" \/ act = "undelete" => retain
    /\ k = "account" /\ act = "undelete" => \A o \in objs : InTrash(o)
    /\ request' = request \cup
         {[by |-> c, objs |-> objs, kind |-> k, act |-> act, retain |-> retain,
           pc |-> IF k = "account" /\ act = "delete" THEN "trash" ELSE "toggle"]}
    /\ UNCHANGED <<trash, next, hidden, gone, beatVars, queue, job, doubled>>

Finish(r) == request' = request \ {r}
At(r, pc) == request' = (request \ {r}) \cup {[r EXCEPT !.pc = pc]}

\* `toggle_asset_statuses`, `toggle_user_statuses`.
ToggleStatuses(r) ==
    /\ r.pc = "toggle"
    /\ hidden' = IF r.act = "delete" THEN hidden \cup (r.objs \ gone)
                                     ELSE hidden \ r.objs
    /\ IF r.kind = "account" /\ r.act = "delete" THEN Finish(r) ELSE At(r, "trash")
    /\ UNCHANGED <<trash, next, gone, beatVars, queue, job, doubled>>

\* The assets are read again when their rows are written; the users are not.
Targets(r) == IF r.kind = "project" THEN r.objs \ gone ELSE r.objs

\* Mutant: a total deletion supersedes a row whatever its status.
SupersededAny(r) == IF r.retain THEN {} ELSE {o \in Targets(r) : InTrash(o)}

\* A total deletion supersedes a request to retain a placeholder.
Superseded(r) ==
    IF r.retain THEN {}
    ELSE {o \in Targets(r) : Status(o) \in {"pending", "failed"} /\ trash[o].retain}

\* A total deletion has no grace period, and projects are never left to an admin.
Manually(k, retain) == EmptyManually /\ k = "account" /\ retain

CreateRows(r, pk) ==
    LET new == {[task |-> <<r.kind, pk[o]>>, name |-> <<o, r.retain>>] : o \in DOMAIN pk}
    IN  /\ trash' = [o \in Objects |->
                       IF o \in DOMAIN pk
                       THEN [pk |-> pk[o], status |-> "pending",
                             retain |-> r.retain]
                       ELSE trash[o]]
        /\ next' = [next EXCEPT ![r.kind] = @ + Cardinality(DOMAIN pk)]
        /\ periodic' = periodic \cup new
        /\ enabled' = IF Manually(r.kind, r.retain) THEN enabled
                      ELSE enabled \cup {x.task : x \in new}

\* Nothing stands in the way of a row for the object: neither a row nor a periodic
\* task of that name.
Creatable(o, r) ==
    /\ o \notin gone
    /\ InTrash(o) => o \in Superseded(r)
    /\ \A x \in periodic : x.name # <<o, r.retain>>

\* `move_to_trash`, one transaction: the rows of all the objects or of none.
MoveToTrash(r) ==
    LET objs == Targets(r)
        pks == next[r.kind] .. next[r.kind] + Cardinality(objs) - 1
    IN  /\ r.pc = "trash"
        /\ r.act = "delete"
        /\ IF \A o \in objs : Creatable(o, r)
           THEN /\ next[r.kind] + Cardinality(objs) <= FirstPk[r.kind] + MaxRows[r.kind]
                /\ \E pk \in [objs -> pks] :
                     /\ \A o, q \in objs : pk[o] = pk[q] => o = q
                     /\ CreateRows(r, pk)
                /\ IF r.kind = "project" THEN Finish(r) ELSE At(r, "toggle")
           ELSE Finish(r) /\ UNCHANGED <<trash, next, beatVars>>
        /\ UNCHANGED <<hidden, gone, queue, job, doubled>>

\* `put_back`, one transaction: nothing unless every row is still PENDING.
PutBack(r) ==
    LET objs == Targets(r)
        tasks == {TaskOf(o) : o \in objs}
    IN  /\ r.pc = "trash"
        /\ r.act = "undelete"
        /\ IF \A o \in objs : Status(o) = "pending"
           THEN /\ trash' = Without(objs)
                /\ periodic' = {x \in periodic : x.task \notin tasks}
                /\ enabled' = enabled \ tasks
           ELSE UNCHANGED <<trash, beatVars>>
        /\ Finish(r)
        /\ UNCHANGED <<next, hidden, gone, queue, job, doubled>>

\* A user deletes their own account: rows and flags in one transaction.
RemoveOwnAccount(u) ==
    LET r == [kind |-> "account", objs |-> {u}, retain |-> TRUE]
    IN  /\ u \notin hidden \cup gone
        /\ Creatable(u, r)
        /\ next["account"] < FirstPk["account"] + MaxRows["account"]
        /\ CreateRows(r, [o \in {u} |-> next["account"]])
        /\ hidden' = hidden \cup {u}
        /\ UNCHANGED <<gone, queue, job, request, doubled>>

\* The task is with celery beat, in a message, or at work.
Around(task) ==
    task \in enabled \/ (\E m \in queue : m.task = task) \/ (\E j \in job : j.task = task)

\* "Empty trash" in the admin, whatever the state of the row; the projects of an
\* inactive account are not listed there.
EmptyTrash(o) ==
    /\ InTrash(o)
    /\ o \in Projects => Owner[o] \notin hidden
    /\ o \in Accounts /\ Around(TaskOf(o)) => Cardinality(doubled) < MaxDoubled
    /\ queue' = queue \cup {[task |-> TaskOf(o), tries |-> 0]}
    /\ doubled' = IF o \in Accounts /\ Around(TaskOf(o)) THEN doubled \cup {TaskOf(o)} ELSE doubled
    /\ UNCHANGED <<trash, next, hidden, gone, beatVars, job, request>>

----------------------------------------------------------------------------
(* The tasks `empty_project` and `empty_account` *)

Idle(w) == \A j \in job : j.by # w
GoTo(j, pc) == job' = (job \ {j}) \cup {[j EXCEPT !.pc = pc]}
Leave(j) == job' = job \ {j}
Begin(w, o, m, pc) ==
    job' = job \cup {[by |-> w, obj |-> o, task |-> m.task, tries |-> m.tries, pc |-> pc]}

\* A message is taken; a retry waits for the handler to return (a minute at least).
Take(w, m) ==
    /\ m \in queue
    /\ Idle(w)
    /\ \A j \in job : j.task = m.task => j.pc # "retry"

\* The row does not exist any more, or is being emptied: nothing is done.
DropMessage(w, m) ==
    /\ Take(w, m)
    /\ \A o \in RowsOf(m.task) : Status(o) = "in_progress"
    /\ queue' = queue \ {m}
    /\ UNCHANGED <<trash, next, hidden, gone, beatVars, job, request, doubled>>

\* "Ensure there are no running other project trash tasks".
Waits(o) == \E p \in Projects : Owner[p] = o /\ Status(p) = "in_progress"

\* Mutant: the status is not read under the lock.
StartEmptyingAnyway(w, m, o) ==
    /\ Take(w, m)
    /\ o \in RowsOf(m.task)
    /\ ~Waits(o)
    /\ trash' = WithStatus({o}, "in_progress")
    /\ queue' = queue \ {m}
    /\ Begin(w, o, m, "delete")
    /\ UNCHANGED <<next, hidden, gone, beatVars, request, doubled>>

\* The transaction that flags the row IN_PROGRESS.
StartEmptying(w, m, o) ==
    /\ Take(w, m)
    /\ o \in RowsOf(m.task)
    /\ Status(o) # "in_progress"
    /\ ~Waits(o)
    /\ trash' = WithStatus({o}, "in_progress")
    /\ queue' = queue \ {m}
    /\ Begin(w, o, m, "delete")
    /\ UNCHANGED <<next, hidden, gone, beatVars, request, doubled>>

\* `autoretry_for`: the same message again, then the retry handler; after the last
\* retry, the failure handler.
AfterError(m) ==
    IF m.tries < MaxRetries
    THEN [again |-> {[m EXCEPT !.tries = @ + 1]}, pc |-> "retry"]
    ELSE [again |-> {}, pc |-> "fail"]

\* `TrashTaskInProgressError`: "let them finish and retry later".
PostponeAccount(w, m, o) ==
    /\ Take(w, m)
    /\ o \in RowsOf(m.task)
    /\ Status(o) # "in_progress"
    /\ Waits(o)
    /\ queue' = (queue \ {m}) \cup AfterError(m).again
    /\ Begin(w, o, m, AfterError(m).pc)
    /\ UNCHANGED <<trash, next, hidden, gone, beatVars, request, doubled>>

\* `delete_asset`; the rows of the trash go with the asset.
DeleteAsset(j, p) ==
    /\ j.pc = "delete"
    /\ p = j.obj \/ (p \in Owned(j.obj) \ gone)
    /\ gone' = gone \cup {p}
    /\ trash' = Without({p})
    /\ IF p = j.obj THEN GoTo(j, "schedule") ELSE UNCHANGED job
    /\ UNCHANGED <<next, hidden, beatVars, queue, request, doubled>>

\* The user is deleted, or replaced with a placeholder: its row goes either way.
DeleteAccount(j) ==
    /\ j.pc = "delete"
    /\ j.obj \in Accounts
    /\ Owned(j.obj) \subseteq gone
    /\ gone' = gone \cup {j.obj}
    /\ trash' = Without({j.obj})
    /\ GoTo(j, "schedule")
    /\ UNCHANGED <<next, hidden, beatVars, queue, request, doubled>>

\* KoBoCAT does not answer (retried) or answers with an error (not retried).
CallFails(j) ==
    LET m == [task |-> j.task, tries |-> j.tries]
    IN  /\ Kind(j.obj) \in Unreliable
        /\ j.pc = "delete"
        /\ \/ queue' = queue \cup AfterError(m).again /\ GoTo(j, AfterError(m).pc)
           \/ UNCHANGED queue /\ GoTo(j, "fail")
        /\ UNCHANGED <<trash, next, hidden, gone, beatVars, request, doubled>>

\* The project was deleted meanwhile with its owner's account.
AssetVanished(j) ==
    /\ j.pc = "delete"
    /\ j.obj \in gone
    /\ GoTo(j, "fail")
    /\ UNCHANGED <<trash, next, hidden, gone, beatVars, queue, request, doubled>>

RemoveSchedule(j) ==
    /\ j.pc = "schedule"
    /\ periodic' = {x \in periodic : x.task # j.task}
    /\ enabled' = enabled \ {j.task}
    /\ Leave(j)
    /\ UNCHANGED <<trash, next, hidden, gone, queue, request, doubled>>

\* Mutant: the retry handler of the accounts looks the key up in the wrong table.
HandleRetryInProjects(j) ==
    /\ j.pc = "retry"
    /\ trash' = WithStatus(RowsOf(<<"project", j.task[2]>>), "retry")
    /\ Leave(j)
    /\ UNCHANGED <<next, hidden, gone, beatVars, queue, request, doubled>>

\* Both retry handlers look the key up in the table of the accounts.
HandleRetry(j) ==
    /\ j.pc = "retry"
    /\ trash' = WithStatus(RowsOf(<<"account", j.task[2]>>), "retry")
    /\ Leave(j)
    /\ UNCHANGED <<next, hidden, gone, beatVars, queue, request, doubled>>

\* Mutant: the row in memory is saved again, though it has been deleted meanwhile.
HandleFailureUpsert(j) ==
    /\ j.pc = "fail"
    /\ trash' = [trash EXCEPT ![j.obj].status = "failed"]
    /\ Leave(j)
    /\ UNCHANGED <<next, hidden, gone, beatVars, queue, request, doubled>>

HandleFailure(j) ==
    /\ j.pc = "fail"
    /\ trash' = WithStatus(RowsOf(j.task), "failed")
    /\ Leave(j)
    /\ UNCHANGED <<next, hidden, gone, beatVars, queue, request, doubled>>

----------------------------------------------------------------------------
(* Celery beat *)

\* The grace period is over: a one-off task is sent and disabled.
FireTask(task) ==
    /\ task \in enabled
    /\ queue' = queue \cup {[task |-> task, tries |-> 0]}
    /\ enabled' = enabled \ {task}
    /\ UNCHANGED <<trash, next, hidden, gone, periodic, job, request, doubled>>

\* Mutant: the orphans of one table are looked up in the other.
OrphansOfOther == {x \in periodic : RowsOf(<<"account", x.task[2]>>) = {}}
Orphans == {x \in periodic : RowsOf(x.task) = {}}

\* `garbage_collector`.
CollectGarbage ==
    /\ Orphans # {}
    /\ periodic' = periodic \ Orphans
    /\ enabled' = enabled \ {x.task : x \in Orphans}
    /\ UNCHANGED <<trash, next, hidden, gone, queue, job, request, doubled>>

----------------------------------------------------------------------------
TaskStep(j) ==
    \/ \E p \in Projects : DeleteAsset(j, p)
    \/ DeleteAccount(j)
    \/ AssetVanished(j)
    \/ RemoveSchedule(j)
    \/ HandleRetry(j)
    \/ HandleFailure(j)

TakeStep(w, m) ==
    \/ DropMessage(w, m)
    \/ \E o \in Objects : StartEmptying(w, m, o) \/ PostponeAccount(w, m, o)

RequestStep(r) == ToggleStatuses(r) \/ MoveToTrash(r) \/ PutBack(r)

NewRequest(c) ==
    \E k \in Kinds, act \in {"delete", "undelete"}, retain \in BOOLEAN :
      \E objs \in (SUBSET OfKind(k)) \ {{}} : Ask(c, k, objs, act, retain)

Next ==
    \/ \E c \in Clients : NewRequest(c)
    \/ \E r \in request : RequestStep(r)
    \/ \E u \in Accounts : RemoveOwnAccount(u)
    \/ \E o \in Objects : EmptyTrash(o)
    \/ \E w \in Workers, m \in Messages : TakeStep(w, m)
    \/ \E j \in job : TaskStep(j) \/ CallFails(j)
    \/ \E task \in Tasks : FireTask(task)
    \/ CollectGarbage

Spec == Init /\ [][Next]_vars

\* Workers and celery beat keep running, and no message is overtaken for ever.
Fairness ==
    /\ \A w \in Workers : WF_vars(\E j \in job : j.by = w /\ TaskStep(j))
    /\ WF_vars(\E task \in Tasks : FireTask(task))
    /\ \A m \in Messages : SF_vars(\E w \in Workers : TakeStep(w, m))

FairSpec == Spec /\ Fairness

----------------------------------------------------------------------------
(* Safety *)

\* A row that is PENDING will be emptied: its periodic task exists (enabled
\* unless the row is to be emptied by hand), or it has fired already and its
\* message is on its way.  Neither the garbage collector, nor a put-back, nor a
\* total deletion that supersedes another may take that away.
PendingIsScheduled ==
    \A o \in Objects : Status(o) = "pending" =>
        /\ \E x \in periodic : x.task = TaskOf(o)
        /\ \/ Manually(Kind(o), trash[o].retain)
           \/ Around(TaskOf(o))

\* However often the task of a project is queued (by celery beat, by the admin),
\* no two workers empty the project at the same time.
OneWorkerPerProject ==
    \A j, k \in job :
        j.task = k.task /\ j.obj \in Projects /\ j.pc = "delete" /\ k.pc = "delete" => j = k

\* What has been put back is safe: whatever is deleted for good has, at that
\* moment, a row past PENDING, its own or its owner's, and `put_back` removes
\* only rows that are PENDING.  The exception is an account that an admin empties
\* by hand although its task is scheduled, sent or at work: a postponed copy of it
\* writes RETRY or FAILED over the row that another copy has flagged IN_PROGRESS,
\* so the row may be emptied twice, superseded, and its successor put back, while
\* the account is being deleted.
DeletedFromTrashOnly ==
    [][\A o \in gone' \ gone :
         \/ \E q \in {o} \cup {u \in Accounts : o \in Owned(u)} :
              Status(q) \in {"in_progress", "retry", "failed"}
         \/ \E j \in job : j.pc = "delete" /\ j.task \in doubled /\ o \in {j.obj} \cup Owned(j.obj)]_vars

----------------------------------------------------------------------------
(* Liveness *)

\* "Projects and accounts stay in trash for `grace_period` and then are
\* hard-deleted when their related scheduled task runs": a project that waits for
\* its task ends deleted, put back, or reported as FAILED.
ProjectsAreEmptied ==
    \A p \in Projects : Status(p) = "pending" ~> Status(p) \in {"none", "failed"}

\* The same of accounts, however often KoBoCAT fails to answer or the task waits
\* for the account's projects.
AccountsAreEmptied ==
    \A u \in Accounts :
        Status(u) = "pending" /\ ~Manually("account", trash[u].retain) ~> Status(u) \in {"none", "failed"}
=============================================================================
