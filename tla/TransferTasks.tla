---------------------------- MODULE TransferTasks ----------------------------
(***************************************************************************)
(* The background tasks of a transfer: the celery queue, the workers that  *)
(* run `async_task` with its failure and retry handlers, and the periodic  *)
(* tasks that restart or fail the rows left IN_PROGRESS.                   *)
(***************************************************************************)
EXTENDS TransferRows

CONSTANTS
    Users,       \* the accounts
    Sender,      \* Sender[i], Recipient[i]: the two parties of invite i
    Recipient,
    FirstOwner,  \* owner of each project at the start
    MaxQueue,    \* bound on the copies of a message the rescheduler may add
    Faults       \* the faults the instance allows, of FaultNames

FaultNames == {"error", "timeout", "kill", "crash", "webcrash"}

ASSUME TasksAssumption ==
    /\ Sender \in [Invites -> Users]
    /\ Recipient \in [Invites -> Users]
    /\ FirstOwner \in [Assets -> Users]
    /\ MaxQueue \in Nat
    /\ Faults \subseteq FaultNames

VARIABLES
    queue,    \* how many copies of each message <<transfer, subtask>> wait
    job,      \* the running `async_task`s, at most one per worker
    stuck,    \* the rows `mark_stuck_tasks_as_failed` has read and not updated
    old,      \* invites whose rows are older than the STUCK threshold
    owner,    \* owner of each project
    loc,      \* loc[a][ty]: the account under which the data of a is filed
    done      \* history: subtasks whose work has run to its end at least once

taskVars == <<queue, job, stuck, old, loc, done>>

Messages == Transfers \X Subtasks

\* begin: about to flag the row IN_PROGRESS; work; mark: about to write SUCCESS;
\* commit: in `update_status`; chain: about to queue ATTACHMENTS; fail, killed:
\* in a failure handler.
Job == [by: Workers, t: Transfers, ty: Subtasks,
        pc: {"begin", "work", "mark", "commit", "chain", "fail", "killed"}]

TasksTypeOK ==
    /\ queue \in [Messages -> Nat]
    /\ job \subseteq Job
    /\ stuck \subseteq Messages
    /\ old \subseteq Invites
    /\ owner \in [Assets -> Users]
    /\ loc \in [Assets -> [Subtasks -> Users]]
    /\ done \in [Transfers -> SUBSET Subtasks]

TasksInit ==
    /\ queue = [m \in Messages |-> 0]
    /\ job = {}
    /\ stuck = {}
    /\ old = {}
    /\ owner = FirstOwner
    /\ loc = [a \in Assets |-> [ty \in Subtasks |-> owner[a]]]
    /\ done = [t \in Transfers |-> {}]

----------------------------------------------------------------------------
Idle(w) == \A j \in job : j.by # w
GoTo(j, pc) == job' = (job \ {j}) \cup {[j EXCEPT !.pc = pc]}
Leave(j) == job' = job \ {j}
Enqueue(t, ty) == queue' = [queue EXCEPT ![<<t, ty>>] = @ + 1]

\* Mutant: a task runs without a message.
StartTaskUnasked(w, t, ty) ==
    /\ Idle(w)
    /\ queue' = [queue EXCEPT ![<<t, ty>>] = @ - 1]
    /\ job' = job \cup {[by |-> w, t |-> t, ty |-> ty, pc |-> "begin"]}
    /\ UNCHANGED <<rowVars, stuck, old, owner, loc, done>>

\* A worker takes a message (which acknowledges it) and reads `transfer.status`.
StartTask(w, t, ty) ==
    LET pc == IF st[t]["global"] = "in_progress" THEN "begin" ELSE "fail"
    IN  /\ Idle(w)
        /\ queue[<<t, ty>>] > 0
        /\ queue' = [queue EXCEPT ![<<t, ty>>] = @ - 1]
        /\ job' = job \cup {[by |-> w, t |-> t, ty |-> ty, pc |-> pc]}
        /\ UNCHANGED <<rowVars, stuck, old, owner, loc, done>>

BeginTask(j) ==
    /\ j.pc = "begin"
    /\ KeepInProgress(j.t, j.ty)
    /\ GoTo(j, "work")
    /\ UNCHANGED <<queue, stuck, old, owner, loc, done>>

\* The subtask has done its work; its success is still to be recorded.
Finished(j) ==
    /\ GoTo(j, "mark")
    /\ done' = [done EXCEPT ![j.t] = @ \cup {j.ty}]
    /\ UNCHANGED <<rowVars, queue, stuck, old, owner>>

CannotFinish(j) ==
    /\ GoTo(j, "fail")
    /\ UNCHANGED <<rowVars, queue, stuck, old, owner, loc, done>>

\* `rewrite_mongo_userform_id`: files the submissions found under the sender
\* under whoever owns the project now; a rewrite that modifies nothing it
\* matched is an error.
RewriteSubmissions(j) ==
    LET a == j.t[2]
        matched == loc[a]["submissions"] = Sender[j.t[1]]
        modified == matched /\ owner[a] # Sender[j.t[1]]
    IN  /\ j.pc = "work"
        /\ j.ty = "submissions"
        /\ IF matched /\ ~modified
           THEN CannotFinish(j)
           ELSE /\ loc' = IF matched
                          THEN [loc EXCEPT ![a]["submissions"] = owner[a]]
                          ELSE loc
                /\ Finished(j)

\* Mutant: the two names swapped in `get_target_folder`.
RelocateBackwards(t, ty) ==
    LET a == t[2]
    IN  IF loc[a][ty] # owner[a] /\ loc[a][ty] = Recipient[t[1]]
        THEN [loc EXCEPT ![a][ty] = Sender[t[1]]]
        ELSE loc

\* Files not in the owner's folder go from the sender's to the recipient's: the
\* folder name is replaced, so a file kept elsewhere stays where it is.
Relocate(t, ty) ==
    LET a == t[2]
    IN  IF loc[a][ty] # owner[a] /\ loc[a][ty] = Sender[t[1]]
        THEN [loc EXCEPT ![a][ty] = Recipient[t[1]]]
        ELSE loc

\* `move_attachments`: needs the SUBMISSIONS row, and looks the attachments up
\* through the submissions filed under the owner.
MoveAttachments(j) ==
    LET a == j.t[2]
        found == loc[a]["submissions"] = owner[a]
    IN  /\ j.pc = "work"
        /\ j.ty = "attachments"
        /\ IF st[j.t]["submissions"] = "success"
           THEN /\ loc' = IF found THEN Relocate(j.t, "attachments") ELSE loc
                /\ Finished(j)
           ELSE CannotFinish(j)

MoveMediaFiles(j) ==
    /\ j.pc = "work"
    /\ j.ty = "media_files"
    /\ loc' = Relocate(j.t, "media_files")
    /\ Finished(j)

\* `_mark_task_as_successful`.
MarkSuccessful(j) ==
    /\ j.pc = "mark"
    /\ BeginUpdate(j.by, j.t, j.ty, "success")
    /\ GoTo(j, "commit")
    /\ UNCHANGED <<queue, stuck, old, owner, loc, done>>

\* `async_task_failure` (and `async_task_retry`).
MarkFailed(j) ==
    /\ j.pc = "fail"
    /\ BeginUpdate(j.by, j.t, j.ty, "failed")
    /\ GoTo(j, "commit")
    /\ UNCHANGED <<queue, stuck, old, owner, loc, done>>

CommitTask(j) ==
    /\ j.pc = "commit"
    /\ \E x \in txn :
         /\ x.by = j.by
         /\ CommitUpdate(x)
         /\ IF x.val = "success" /\ j.ty = "submissions"
            THEN GoTo(j, "chain")
            ELSE Leave(j)
    /\ UNCHANGED <<queue, stuck, old, owner, loc, done>>

\* SUBMISSIONS done: queue ATTACHMENTS.
ChainAttachments(j) ==
    /\ j.pc = "chain"
    /\ Enqueue(j.t, "attachments")
    /\ Leave(j)
    /\ UNCHANGED <<rowVars, stuck, old, owner, loc, done>>

\* The transfer has been deleted: the row is not found, by the handler neither.
RowVanished(j) ==
    /\ j.pc \in {"begin", "mark", "fail", "killed"}
    /\ ~Exists(j.t)
    /\ Leave(j)
    /\ UNCHANGED <<rowVars, queue, stuck, old, owner, loc, done>>

----------------------------------------------------------------------------
(* Faults *)

\* The body of `async_task` runs, not one of its handlers.
InBody(j) ==
    /\ j.pc \in {"begin", "work", "mark", "commit", "chain"}
    /\ \A x \in txn : x.by = j.by => x.val = "success"

\* Any exception of the storage, of MongoDB or of the broker.
TaskError(j) ==
    /\ "error" \in Faults
    /\ j.pc \in {"work", "chain"}
    /\ CannotFinish(j)

\* SoftTimeLimitExceeded: celery queues the same message again, then calls the
\* retry handler, which writes FAILED.
SoftTimeout(j) ==
    /\ "timeout" \in Faults
    /\ InBody(j)
    /\ Enqueue(j.t, j.ty)
    /\ GoTo(j, "fail")
    /\ Rollback(j.by)
    /\ UNCHANGED <<invite, st, stuck, old, owner, loc, done>>

\* The worker process is killed (OOM) and its parent reports a SIGKILL.  The few
\* milliseconds a handler runs are left out.
Killed(j) ==
    /\ "kill" \in Faults
    /\ InBody(j)
    /\ GoTo(j, "killed")
    /\ Rollback(j.by)
    /\ UNCHANGED <<invite, st, queue, stuck, old, owner, loc, done>>

KilledHandler(j) ==
    /\ j.pc = "killed"
    /\ KeepInProgress(j.t, j.ty)
    /\ Leave(j)
    /\ UNCHANGED <<queue, stuck, old, owner, loc, done>>

\* The container restarts: no handler runs, the message is already acknowledged.
ContainerCrash(j) ==
    /\ "crash" \in Faults
    /\ Leave(j)
    /\ Rollback(j.by)
    /\ UNCHANGED <<invite, st, queue, stuck, old, owner, loc, done>>

----------------------------------------------------------------------------
(* Periodic tasks *)

\* Twelve hours pass: the rows, created with the invite, are past the threshold.
Age(i) ==
    /\ Live(i)
    /\ i \notin old
    /\ old' = old \cup {i}
    /\ UNCHANGED <<rowVars, queue, job, stuck, owner, loc, done>>

\* Mutant: the date filter of the rescheduler.
RecentStuckRows ==
    {m \in Messages : st[m[1]][m[2]] = "in_progress" /\ m[1][1] \notin old}
StuckRows == {m \in Messages : st[m[1]][m[2]] = "in_progress" /\ m[1][1] \in old}
BeatIdle == \A x \in txn : x.by # "beat"

\* `mark_stuck_tasks_as_failed`: reads the rows, then updates them one by one.
ScanStuck ==
    /\ stuck = {}
    /\ BeatIdle
    /\ StuckRows # {}
    /\ stuck' = StuckRows
    /\ UNCHANGED <<rowVars, queue, job, old, owner, loc, done>>

MarkStuck(t, ty) ==
    /\ <<t, ty>> \in stuck
    /\ BeatIdle
    /\ BeginUpdate("beat", t, ty, "failed")
    /\ stuck' = stuck \ {<<t, ty>>}
    /\ UNCHANGED <<queue, job, old, owner, loc, done>>

CommitStuck(x) ==
    /\ x.by = "beat"
    /\ CommitUpdate(x)
    /\ UNCHANGED <<queue, job, stuck, old, owner, loc, done>>

\* The rows it has read are gone, or its process dies: the task ends there.
AbandonStuck ==
    /\ \/ \E m \in stuck : ~Exists(m[1]) /\ BeatIdle
       \/ "crash" \in Faults /\ (stuck # {} \/ ~BeatIdle)
    /\ stuck' = {}
    /\ Rollback("beat")
    /\ UNCHANGED <<invite, st, queue, job, old, owner, loc, done>>

\* `task_rescheduler`: a row IN_PROGRESS without a heart beat for ten minutes
\* (any row may be) is run again, whether or not its task is still running.
Reschedule(t, ty) ==
    /\ st[t][ty] = "in_progress"
    /\ t[1] \notin old
    /\ \A s \in Subtasks : queue[<<t, s>>] < MaxQueue
    /\ Enqueue(t, ty)
    /\ UNCHANGED <<rowVars, job, stuck, old, owner, loc, done>>
=============================================================================
