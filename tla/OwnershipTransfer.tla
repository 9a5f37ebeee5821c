-------------------------- MODULE OwnershipTransfer --------------------------
(***************************************************************************)
(* Project ownership transfers as a whole: requests, workers and periodic  *)
(* tasks interleave over the shared rows.                                  *)
(***************************************************************************)
EXTENDS TransferRequests

vars == <<rowVars, taskVars, owner, requestVars>>

TypeOK == RowsTypeOK /\ TasksTypeOK /\ RequestsTypeOK

Init == RowsInit /\ TasksInit /\ RequestsInit

TaskStep(j) ==
    \/ BeginTask(j)
    \/ RewriteSubmissions(j)
    \/ MoveAttachments(j)
    \/ MoveMediaFiles(j)
    \/ MarkSuccessful(j)
    \/ MarkFailed(j)
    \/ CommitTask(j)
    \/ ChainAttachments(j)
    \/ RowVanished(j)
    \/ KilledHandler(j)

TaskFault(j) == TaskError(j) \/ SoftTimeout(j) \/ Killed(j) \/ ContainerCrash(j)

StuckStep ==
    \/ ScanStuck
    \/ \E m \in Messages : MarkStuck(m[1], m[2])
    \/ \E x \in txn : CommitStuck(x)
    \/ AbandonStuck

RequestStep(r) ==
    \/ CreateInvite(r)
    \/ SaveStatus(r)
    \/ \E a \in Assets : CancelRows(r, a) \/ CheckPending(r, a)
    \/ BeginTransfer(r)
    \/ ReassignProject(r)
    \/ DelayTask(r)
    \/ FailTransfer(r)
    \/ EndRequest(r)

NewRequest(c, i) ==
    \/ ValidateCreate(c, i)
    \/ \E act \in {"accept", "decline", "cancel"} : ValidateUpdate(c, i, act)

TaskNext ==
    \/ \E w \in Workers, m \in Messages : StartTask(w, m[1], m[2])
    \/ \E j \in job : TaskStep(j) \/ TaskFault(j)
    \/ \E i \in Invites : Age(i)
    \/ StuckStep
    \/ \E m \in Messages : Reschedule(m[1], m[2])

RequestNext ==
    \/ \E c \in Clients, i \in Invites : NewRequest(c, i)
    \/ \E r \in request : RequestStep(r) \/ TransferError(r) \/ WebCrash(r)
    \/ ScanExpired
    \/ WriteExpired
    \/ \E i \in Invites : DeleteInvite(i)
    \/ \E a \in Assets : TrashAsset(a)

Next == (TaskNext /\ UNCHANGED requestVars) \/ RequestNext

Spec == Init /\ [][Next]_vars

----------------------------------------------------------------------------
(* Safety *)

\* The subtasks a transfer consists of: a draft has neither submissions nor
\* attachments to move.
Required(t) == IF t[2] \in Deployed THEN Subtasks ELSE {"media_files"}

\* A transfer is reported successful (GLOBAL row) only once each of its
\* subtasks has run to its end, although two `update_status` transactions may
\* overlap, rows may be failed or restarted behind a running task's back, and
\* the GLOBAL value is decided from rows read before the commit.
SuccessMeansDone ==
    \A t \in Transfers : st[t]["global"] = "success" => Required(t) \subseteq done[t]

\* `_update_invite_status` flags an invite COMPLETE only when the work of all
\* its transfers has been done, whichever request or task writes the invite
\* in between.
CompleteMeansDone ==
    \A i \in Invites : invite[i] = "complete" =>
        \A t \in TransfersOf(i) : Required(t) \subseteq done[t]

\* A COMPLETE invite has no transfer that is not (or no longer) successful: the
\* GLOBAL row and the invite change together, under the lock of the invite.  The
\* exception: an invite that two requests had loaded as PENDING, of which the
\* second may begin (or cancel) a transfer once more.
CompleteMeansSuccess ==
    \A i \in Invites \ contested : invite[i] = "complete" =>
        \A t \in TransfersOf(i) : st[t]["global"] = "success"

\* A task works on `asset.owner`: none may be queued or running before the
\* transaction that reassigns the project has been committed.
TasksFollowReassign ==
    /\ \A m \in Messages : queue[m] > 0 => m[1] \in moved
    /\ \A j \in job : j.t \in moved

\* A project is never reassigned by a transfer whose rows still say PENDING:
\* a second accept of the same invite could not be told from the first.
ReassignIsRecorded ==
    \A t \in moved : st[t]["global"] # "pending"

\* The transfer is the only one ever offered of its project.
Only(t) == \A u \in Transfers : u[2] = t[2] => u = t

\* With no other transfer of the project, success means that the data is filed
\* under the new owner, the one the project has now.
SuccessMeansMoved ==
    \A t \in Transfers : Only(t) /\ st[t]["global"] = "success" =>
        /\ owner[t[2]] = Recipient[t[1]]
        /\ \A ty \in Required(t) : loc[t[2]][ty] = Recipient[t[1]]

\* Once the three rows are SUCCESS and nobody is updating them, the transfer is
\* a SUCCESS too.  Two workers that finish together break this: each decides
\* from rows read before the other commits.
AllDoneMeansSuccess ==
    \A t \in Transfers :
        AllFree(t) /\ (\A ty \in Subtasks : st[t][ty] = "success")
          => st[t]["global"] = "success"

\* "Only the sender can cancel an invite, if only if the invite is still
\* pending": a cancelled invite has transferred nothing.
CancelledNeverTransfers ==
    \A i \in Invites : invite[i] = "cancelled" => TransfersOf(i) \cap moved = {}

\* "This task restarts previous tasks which have been stopped accidentally": it
\* does not undo those that have ended.  A transfer that has succeeded before the
\* STUCK threshold is not turned into a failure (its rows may be deleted later).
RestartKeepsSuccess ==
    [][\A t \in Transfers : st[t]["global"] = "success" /\ t[1] \notin old =>
          st'[t]["global"] \in {"success", "none"}]_vars

----------------------------------------------------------------------------
(* Refinement *)

\* The GLOBAL row is what is reported of a transfer.
Contract == INSTANCE TransferContract WITH
    report <- [t \in Transfers |-> st[t]["global"]],
    answer <- invite,
    work <- done,
    moved <- moved

\* Rows, transactions, tasks and requests keep what a transfer promises: success
\* is reported when the work is done, work follows the project, the project
\* follows the report, and an invite is offered once and settled by its transfers.
KeepsContract == Contract!Spec

----------------------------------------------------------------------------
(* Inductive invariants: what the safety properties above rest on. *)

\* Every record of a success, whether it is committed, still in a transaction,
\* or about to be written by a task, is one of a subtask that has run.
WorkRecorded ==
    /\ \A t \in Transfers, ty \in Subtasks :
         st[t][ty] = "success" /\ ty \in Required(t) => ty \in done[t]
    /\ \A j \in job : j.pc = "mark" => j.ty \in done[j.t]
    /\ \A x \in txn : x.val = "success" => x.ty \in done[x.t]
    /\ \A x \in txn : x.out = "success" => Required(x.t) \subseteq done[x.t]
    /\ SuccessMeansDone
    /\ CompleteMeansDone

\* Whatever may queue a task (a request past the reassignment, a row that the
\* rescheduler finds IN_PROGRESS, a running task) is one of a moved project.
ReassignComesFirst ==
    /\ TasksFollowReassign
    /\ \A t \in Transfers, ty \in Subtasks :
         st[t][ty] = "in_progress" => t \in moved
    /\ \A r \in request :
         r.pc \in {"submissions", "media_files"} => Cur(r) \in moved

\* A transfer has its rows for as long as its invite exists, an open transaction
\* keeps them there, and a request past the check has left PENDING behind.
RowsFollowInvite ==
    /\ \A t \in Transfers : Exists(t) <=> Live(t[1])
    /\ \A x \in txn : Exists(x.t)
    /\ \A r \in request : r.pc # "create" => invite[r.i] # "none"
    /\ \A r \in request :
         r.pc \in {"reassign", "submissions", "media_files", "fail"}
           => st[Cur(r)]["global"] # "pending"
    /\ \A t \in moved : invite[t[1]] # "none"
    /\ ReassignIsRecorded

\* The transfers that a request has not begun yet.
Ahead(r) == {<<r.i, a>> : a \in r.left} \cup IF r.pc = "begin" THEN {Cur(r)} ELSE {}

\* An invite that is still PENDING has not been begun.
PendingIsUntouched ==
    \A i \in Invites : invite[i] = "pending" =>
        \A t \in TransfersOf(i) : st[t]["global"] = "pending" /\ t \notin moved

\* An invite that is not contested is in the hands of one request, which has not
\* begun what it is still to begin.
OneRequestBegins ==
    /\ \A r \in request : r.pc \notin {"create", "save"} => invite[r.i] # "pending"
    /\ \A r \in request : r.pc \in {"begin", "reassign"} => r.cur \notin r.left
    /\ \A r \in request : r.i \notin contested =>
         /\ \A q \in request : q.i = r.i => q = r
         /\ \A t \in Ahead(r) : t \notin moved /\ st[t]["global"] \in {"pending", "none"}

\* No transfer is begun a second time: rows that are updated are those of projects
\* that have moved, and nothing else is offered or about to be begun.
BegunOnce ==
    /\ PendingIsUntouched
    /\ OneRequestBegins
    /\ \A m \in stuck : m[1] \in moved
    /\ \A x \in txn : x.t \in moved
    /\ CompleteMeansSuccess

\* Where the data of the project of t is: with its first owner until it is moved,
\* then with the sender or the recipient, and with the recipient when the subtask
\* has run.
DataOf(t) ==
    LET a == t[2]
        i == t[1]
    IN  /\ \/ invite[i] # "none"
           \/ \E r \in request : r.i = i
           => FirstOwner[a] = Sender[i]
        /\ t \notin moved =>
             /\ done[t] = {}
             /\ owner[a] = FirstOwner[a]
             /\ \A ty \in Subtasks : loc[a][ty] = FirstOwner[a]
        /\ t \in moved =>
             /\ owner[a] = Recipient[i]
             /\ \A ty \in Subtasks : loc[a][ty] \in {Sender[i], Recipient[i]}
             /\ \A ty \in Required(t) \cap done[t] : loc[a][ty] = Recipient[i]

\* The data of each project that was offered once follows its transfer.
DataFollows == \A t \in Transfers : Only(t) => DataOf(t)

----------------------------------------------------------------------------
(* Liveness: the workers, the web server and celery beat keep running. *)

Fairness ==
    /\ WF_vars(\E j \in job : TaskStep(j) /\ UNCHANGED requestVars)
    /\ WF_vars(\E w \in Workers, m \in Messages :
                  StartTask(w, m[1], m[2]) /\ UNCHANGED requestVars)
    /\ WF_vars(StuckStep /\ UNCHANGED requestVars)
    /\ WF_vars(\E i \in Invites : Age(i) /\ UNCHANGED requestVars)
    /\ WF_vars(\E r \in request : RequestStep(r))

FairSpec == Spec /\ Fairness

\* A transfer in progress ends: tasks that are killed, fail or time out are
\* restarted or, when the rows are old, flagged as failed.
TransferResolves ==
    \A t \in Transfers :
        st[t]["global"] = "in_progress" ~> st[t]["global"] # "in_progress"
=============================================================================
