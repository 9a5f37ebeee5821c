----------------------- MODULE OwnershipTransferProofs -----------------------
(***************************************************************************)
(* Theorems about OwnershipTransfer for every set of invites, projects,    *)
(* users, workers and clients.                                             *)
(*                                                                         *)
(* What a reported success rests on: a transfer, or an invite, is reported *)
(* successful only when its work has been done, and no task runs before    *)
(* its project has been reassigned.                                        *)
(*                                                                         *)
(* What is promised: rows, transactions, tasks and requests implement      *)
(* TransferContract.                                                       *)
(*                                                                         *)
(* What an outcome says of the rest: a COMPLETE invite has only successful *)
(* transfers, unless two requests had it in hand at a time, and a          *)
(* successful transfer of a project that was offered once has given the    *)
(* project and its data to the recipient.                                  *)
(***************************************************************************)
EXTENDS OwnershipTransfer, TLAPS

----------------------------------------------------------------------------
(* 1. Facts about the operators on the rows. *)

\* Every transfer is one of its own invite, and has one row of each type.
LEMMA TransfersFacts ==
    \A t \in Transfers : t[1] \in Invites /\ t[2] \in Assets /\ t = <<t[1], t[2]>>
  BY DEF Transfers

LEMMA SubtaskNames ==
    /\ Subtasks = {"submissions", "attachments", "media_files"}
    /\ StatusTypes = {"submissions", "attachments", "media_files", "global"}
  BY DEF Subtasks, StatusTypes

\* The status computed for an invite is a legal one, or the one it had.
LEMMA InviteAfterType ==
    ASSUME NEW i, NEW rows
    PROVE  InviteAfter(i, rows) \in InviteStatuses \cup {invite[i]}
  BY DEF InviteAfter, InviteStatuses

LEMMA ParentStatusType ==
    ASSUME NEW t, NEW ty, NEW v
    PROVE  ParentStatus(t, ty, v) \in {"none", "success", "failed"}
  BY DEF ParentStatus

\* Writing the GLOBAL row keeps the rows and the invite well typed.
LEMMA SetGlobalType ==
    ASSUME RowsTypeOK, NEW t \in Transfers, NEW v \in TransferStatuses,
           NEW rows \in [Transfers -> [StatusTypes -> TransferStatuses \cup {"none"}]],
           SetGlobal(t, v, rows)
    PROVE  /\ invite' \in [Invites -> InviteStatuses \cup {"none", "deleted"}]
           /\ st' \in [Transfers -> [StatusTypes -> TransferStatuses \cup {"none"}]]
<1> DEFINE after == [rows EXCEPT ![t]["global"] = v]
<1>1. after \in [Transfers -> [StatusTypes -> TransferStatuses \cup {"none"}]]
  BY SubtaskNames
<1>2. InviteAfter(t[1], after) \in InviteStatuses \cup {"none", "deleted"}
  BY InviteAfterType, TransfersFacts DEF RowsTypeOK
<1>3. QED
  BY <1>1, <1>2, TransfersFacts DEF SetGlobal, RowsTypeOK

LEMMA CommitType ==
    ASSUME RowsTypeOK, NEW x \in txn, CommitUpdate(x)
    PROVE  RowsTypeOK'
<1> DEFINE written == [st EXCEPT ![x.t][x.ty] = x.val]
<1>1. x \in Update
  BY DEF RowsTypeOK
<1>2. written \in [Transfers -> [StatusTypes -> TransferStatuses \cup {"none"}]]
  BY <1>1, SubtaskNames DEF RowsTypeOK, Update, TransferStatuses
<1>3. txn' \subseteq Update
  BY DEF RowsTypeOK, CommitUpdate
<1>4. CASE x.out = "none"
  BY <1>2, <1>3, <1>4 DEF RowsTypeOK, CommitUpdate
<1>5. CASE x.out # "none"
  <2>1. SetGlobal(x.t, x.out, written)
    BY <1>5 DEF CommitUpdate
  <2>2. x.t \in Transfers /\ x.out \in TransferStatuses
    BY <1>1, <1>5 DEF Update, TransferStatuses
  <2> HIDE DEF written
  <2>3. QED
    BY <1>2, <1>3, <2>1, <2>2, SetGlobalType DEF RowsTypeOK
<1>6. QED
  BY <1>4, <1>5

LEMMA BeginUpdateType ==
    ASSUME RowsTypeOK, NEW a \in Actors, NEW t \in Transfers, NEW ty \in Subtasks,
           NEW v \in {"success", "failed"}, BeginUpdate(a, t, ty, v)
    PROVE  RowsTypeOK'
  BY ParentStatusType DEF RowsTypeOK, BeginUpdate, Update

LEMMA KeepInProgressType ==
    ASSUME RowsTypeOK, NEW t \in Transfers, NEW ty \in Subtasks,
           KeepInProgress(t, ty)
    PROVE  RowsTypeOK'
<1>1. "in_progress" \in TransferStatuses /\ ty \in StatusTypes
  BY SubtaskNames DEF TransferStatuses
<1>2. QED
  BY <1>1 DEF RowsTypeOK, KeepInProgress

----------------------------------------------------------------------------
(* 2. Type correctness, one lemma for the steps of each group of actions. *)

\* A job that moves on, or leaves, stays a job of the same worker and row.
LEMMA JobMoves ==
    ASSUME job \subseteq Job, NEW j \in job,
           NEW pc \in {"begin", "work", "mark", "commit", "chain", "fail", "killed"}
    PROVE  /\ GoTo(j, pc) => job' \subseteq Job
           /\ Leave(j) => job' \subseteq Job
           /\ j.by \in Workers /\ j.t \in Transfers /\ j.ty \in Subtasks
  BY DEF Job, GoTo, Leave

LEMMA QueueGrows ==
    ASSUME queue \in [Messages -> Nat], NEW t \in Transfers, NEW ty \in Subtasks,
           Enqueue(t, ty)
    PROVE  queue' \in [Messages -> Nat]
  BY DEF Messages, Enqueue

LEMMA RollbackType ==
    ASSUME txn \subseteq Update, NEW actor, Rollback(actor)
    PROVE  txn' \subseteq Update
  BY DEF Rollback

\* Refiling one kind of data of one project, under the owner or the recipient.
LEMMA LocType ==
    ASSUME TasksTypeOK, NEW t \in Transfers, NEW ty \in Subtasks
    PROVE  /\ [loc EXCEPT ![t[2]][ty] = owner[t[2]]]
                \in [Assets -> [Subtasks -> Users]]
           /\ Relocate(t, ty) \in [Assets -> [Subtasks -> Users]]
  BY TransfersFacts, TasksAssumption DEF TasksTypeOK, Relocate

LEMMA FinishedType ==
    ASSUME TypeOK, NEW j \in job, UNCHANGED requestVars
    PROVE  /\ Finished(j) /\ loc' \in [Assets -> [Subtasks -> Users]] => TypeOK'
           /\ CannotFinish(j) => TypeOK'
<1>1. j.t \in Transfers /\ j.ty \in Subtasks
  BY JobMoves DEF TypeOK, TasksTypeOK
<1>2. RequestsTypeOK'
  BY DEF TypeOK, RequestsTypeOK, requestVars
<1>3. QED
  BY <1>1, <1>2, JobMoves
  DEF Finished, CannotFinish, TypeOK, TasksTypeOK, RowsTypeOK, rowVars

LEMMA TaskStepType ==
    ASSUME TypeOK, NEW j \in job, TaskStep(j), UNCHANGED requestVars
    PROVE  TypeOK'
<1> USE DEF TypeOK
<1>0. j.by \in Workers /\ j.t \in Transfers /\ j.ty \in Subtasks
  BY JobMoves DEF TasksTypeOK
<1>0a. RequestsTypeOK'
  BY DEF RequestsTypeOK, requestVars
<1>1. CASE BeginTask(j)
  BY <1>0, <1>0a, <1>1, KeepInProgressType, JobMoves
  DEF BeginTask, TasksTypeOK
<1>2. CASE RewriteSubmissions(j)
  <2>1. CASE CannotFinish(j)
    BY <2>1, FinishedType
  <2> DEFINE refiled == [loc EXCEPT ![j.t[2]]["submissions"] = owner[j.t[2]]]
  <2>2. refiled \in [Assets -> [Subtasks -> Users]]
    BY <1>0, LocType, SubtaskNames
  <2> HIDE DEF refiled
  <2>3. CASE Finished(j) /\ loc' \in {loc, refiled}
    BY <2>2, <2>3, FinishedType DEF TasksTypeOK
  <2>4. CannotFinish(j) \/ (Finished(j) /\ loc' \in {loc, refiled})
    BY <1>2 DEF RewriteSubmissions, refiled
  <2>5. QED
    BY <2>1, <2>3, <2>4
<1>3. CASE MoveAttachments(j)
  <2>1. CASE CannotFinish(j)
    BY <2>1, FinishedType
  <2>2. CASE Finished(j) /\ loc' \in {loc, Relocate(j.t, "attachments")}
    BY <1>0, <2>2, FinishedType, LocType, SubtaskNames DEF TasksTypeOK
  <2>3. QED
    BY <1>3, <2>1, <2>2 DEF MoveAttachments
<1>4. CASE MoveMediaFiles(j)
  BY <1>0, <1>4, FinishedType, LocType, SubtaskNames DEF MoveMediaFiles
<1>5. CASE MarkSuccessful(j)
  BY <1>0, <1>0a, <1>5, BeginUpdateType, JobMoves
  DEF MarkSuccessful, TasksTypeOK, Actors
<1>6. CASE MarkFailed(j)
  BY <1>0, <1>0a, <1>6, BeginUpdateType, JobMoves
  DEF MarkFailed, TasksTypeOK, Actors
<1>7. CASE CommitTask(j)
  BY <1>0, <1>0a, <1>7, CommitType, JobMoves DEF CommitTask, TasksTypeOK
<1>8. CASE ChainAttachments(j)
  BY <1>0, <1>0a, <1>8, JobMoves, QueueGrows, SubtaskNames
  DEF ChainAttachments, TasksTypeOK, RowsTypeOK, rowVars
<1>9. CASE RowVanished(j)
  BY <1>0, <1>0a, <1>9, JobMoves DEF RowVanished, TasksTypeOK, RowsTypeOK, rowVars
<1>10. CASE KilledHandler(j)
  BY <1>0, <1>0a, <1>10, KeepInProgressType, JobMoves
  DEF KilledHandler, TasksTypeOK
<1>11. QED
  BY <1>1, <1>2, <1>3, <1>4, <1>5, <1>6, <1>7, <1>8, <1>9, <1>10 DEF TaskStep

LEMMA TaskFaultType ==
    ASSUME TypeOK, NEW j \in job, TaskFault(j), UNCHANGED requestVars
    PROVE  TypeOK'
<1> USE DEF TypeOK
<1>0. j.by \in Workers /\ j.t \in Transfers /\ j.ty \in Subtasks
  BY JobMoves DEF TasksTypeOK
<1>0a. RequestsTypeOK'
  BY DEF RequestsTypeOK, requestVars
<1>1. CASE TaskError(j)
  BY <1>0, <1>0a, <1>1, JobMoves
  DEF TaskError, CannotFinish, TasksTypeOK, RowsTypeOK, rowVars
<1>2. CASE SoftTimeout(j)
  BY <1>0, <1>0a, <1>2, JobMoves, QueueGrows, RollbackType
  DEF SoftTimeout, TasksTypeOK, RowsTypeOK
<1>3. CASE Killed(j)
  BY <1>0, <1>0a, <1>3, JobMoves, RollbackType DEF Killed, TasksTypeOK, RowsTypeOK
<1>4. CASE ContainerCrash(j)
  BY <1>0, <1>0a, <1>4, JobMoves, RollbackType
  DEF ContainerCrash, TasksTypeOK, RowsTypeOK
<1>5. QED
  BY <1>1, <1>2, <1>3, <1>4 DEF TaskFault

\* The periodic tasks, the passage of time and the start of a task.
LEMMA BeatType ==
    ASSUME TypeOK, UNCHANGED requestVars,
           \/ \E w \in Workers, m \in Messages : StartTask(w, m[1], m[2])
           \/ \E i \in Invites : Age(i)
           \/ StuckStep
           \/ \E m \in Messages : Reschedule(m[1], m[2])
    PROVE  TypeOK'
<1> USE DEF TypeOK
<1>0. RequestsTypeOK'
  BY DEF RequestsTypeOK, requestVars
<1>m. \A m \in Messages : m[1] \in Transfers /\ m[2] \in Subtasks
  BY DEF Messages
<1>1. CASE \E w \in Workers, m \in Messages : StartTask(w, m[1], m[2])
  <2>1. PICK w \in Workers, m \in Messages : StartTask(w, m[1], m[2])
    BY <1>1
  <2>2. job' \subseteq Job
    BY <1>m, <2>1 DEF StartTask, TasksTypeOK, Job
  <2>3. queue' \in [Messages -> Nat]
    BY <1>m, <2>1 DEF StartTask, TasksTypeOK, Messages
  <2>4. QED
    BY <1>0, <2>1, <2>2, <2>3 DEF StartTask, TasksTypeOK, RowsTypeOK, rowVars
<1>2. CASE \E i \in Invites : Age(i)
  BY <1>0, <1>2 DEF Age, TasksTypeOK, RowsTypeOK, rowVars
<1>3. CASE StuckStep
  <2>1. CASE ScanStuck
    BY <1>0, <2>1 DEF ScanStuck, StuckRows, TasksTypeOK, RowsTypeOK, rowVars
  <2>2. CASE \E m \in Messages : MarkStuck(m[1], m[2])
    BY <1>0, <1>m, <2>2, BeginUpdateType DEF MarkStuck, TasksTypeOK, Actors
  <2>3. CASE \E x \in txn : CommitStuck(x)
    BY <1>0, <2>3, CommitType DEF CommitStuck, TasksTypeOK
  <2>4. CASE AbandonStuck
    BY <1>0, <2>4, RollbackType DEF AbandonStuck, TasksTypeOK, RowsTypeOK
  <2>5. QED
    BY <1>3, <2>1, <2>2, <2>3, <2>4 DEF StuckStep
<1>4. CASE \E m \in Messages : Reschedule(m[1], m[2])
  BY <1>0, <1>m, <1>4, QueueGrows DEF Reschedule, TasksTypeOK, RowsTypeOK, rowVars
<1>5. QED
  BY <1>1, <1>2, <1>3, <1>4

\* What the requests are, and what becomes of them when one moves on or ends.
RequestsOK ==
    /\ request \subseteq Request
    /\ \A r \in request : r.cur \in Scope[r.i] /\ r.left \subseteq Scope[r.i]

LEMMA RequestMoves ==
    ASSUME RequestsTypeOK, NEW r \in request
    PROVE  /\ r.i \in Invites /\ Cur(r) \in Transfers
           /\ \A a \in r.left : <<r.i, a>> \in Transfers
           /\ Finish(r) => RequestsOK'
           /\ \A pc \in {"create", "save", "loop", "begin", "reassign",
                         "submissions", "media_files", "fail"} :
                At(r, pc) => RequestsOK'
  BY DEF RequestsTypeOK, RequestsOK, Request, Finish, At, Cur, Transfers

LEMMA OpenType ==
    ASSUME RequestsTypeOK, NEW c \in Clients, NEW i \in Invites,
           NEW act \in {"accept", "decline", "cancel"},
           NEW pc \in {"create", "save"}, Open(c, i, act, pc)
    PROVE  RequestsOK' /\ contested' \subseteq Invites
<1>0. contested' \subseteq Invites
  BY DEF Open, RequestsTypeOK
<1>1. PICK new \in Request :
         /\ request' = request \cup {new}
         /\ new.i = i /\ new.cur \in Scope[i] /\ new.left = Scope[i]
  <2>1. Scope[i] \subseteq Assets /\ Scope[i] # {}
    BY RowsAssumption
  <2> DEFINE first == CHOOSE a \in Scope[i] : TRUE
             new == [by |-> c, i |-> i, act |-> act, pc |-> pc,
                     left |-> Scope[i], cur |-> first]
  <2>2. first \in Scope[i]
    BY <2>1
  <2>3. request' = request \cup {new}
    BY DEF Open
  <2> HIDE DEF first
  <2>4. new \in Request /\ new.i = i /\ new.cur \in Scope[i] /\ new.left = Scope[i]
    BY <2>1, <2>2 DEF Request
  <2>5. QED
    BY <2>3, <2>4
<1>2. QED
  BY <1>0, <1>1 DEF RequestsTypeOK, RequestsOK

\* The steps of a request, of a client and of the other writers of the invites.
LEMMA RequestStepType ==
    ASSUME TypeOK, NEW r \in request, RequestStep(r) \/ TransferError(r) \/ WebCrash(r)
    PROVE  TypeOK'
<1> USE DEF TypeOK
<1>0. /\ r.i \in Invites /\ Cur(r) \in Transfers
      /\ \A a \in r.left : <<r.i, a>> \in Transfers
  BY RequestMoves
<1>1. CASE CreateInvite(r)
  <2>1. RequestsOK'
    BY <1>1, RequestMoves DEF CreateInvite
  <2>2. RowsTypeOK'
    BY <1>1 DEF CreateInvite, RowsTypeOK, InviteStatuses, TransferStatuses
  <2>3. QED
    BY <1>1, <2>1, <2>2
    DEF CreateInvite, TasksTypeOK, taskVars, RequestsTypeOK, RequestsOK
<1>2. CASE SaveStatus(r)
  <2>1. StatusSaved[r.act] \in InviteStatuses
    BY DEF StatusSaved, InviteStatuses, RequestsTypeOK, Request
  <2>2. RequestsOK'
    BY <1>2, RequestMoves DEF SaveStatus
  <2>3. RowsTypeOK'
    BY <1>0, <1>2, <2>1 DEF SaveStatus, RowsTypeOK
  <2>4. QED
    BY <1>2, <2>2, <2>3
    DEF SaveStatus, TasksTypeOK, taskVars, RequestsTypeOK, RequestsOK
<1>3. CASE \E a \in Assets : CancelRows(r, a)
  <2>1. PICK a \in Assets : CancelRows(r, a)
    BY <1>3
  <2>2. RequestsOK'
    BY <2>1 DEF CancelRows, RequestsTypeOK, RequestsOK, Request
  <2>3. RowsTypeOK'
    BY <1>0, <2>1 DEF CancelRows, RowsTypeOK, TransferStatuses
  <2>4. QED
    BY <2>1, <2>2, <2>3
    DEF CancelRows, TasksTypeOK, taskVars, RequestsTypeOK, RequestsOK
<1>4. CASE \E a \in Assets : CheckPending(r, a)
  <2>1. PICK a \in Assets : CheckPending(r, a)
    BY <1>4
  <2>2. RequestsOK'
    <3>1. CASE Finish(r)
      BY <3>1, RequestMoves
    <3>2. CASE request' = (request \ {r}) \cup
              {[r EXCEPT !.pc = "begin", !.cur = a, !.left = @ \ {a}]}
      <4> DEFINE q == [r EXCEPT !.pc = "begin", !.cur = a, !.left = @ \ {a}]
      <4>1. a \in r.left /\ r \in Request /\ r.left \subseteq Scope[r.i]
        BY <2>1 DEF CheckPending, RequestsTypeOK
      <4>2. q \in Request /\ q.i = r.i /\ q.cur = a /\ q.left = r.left \ {a}
        BY <4>1 DEF Request
      <4>3. request' = (request \ {r}) \cup {q}
        BY <3>2
      <4> HIDE DEF q
      <4>4. QED
        BY <4>1, <4>2, <4>3 DEF RequestsTypeOK, RequestsOK
    <3>3. QED
      BY <2>1, <3>1, <3>2 DEF CheckPending
  <2>3. QED
    BY <2>1, <2>2
    DEF CheckPending, RowsTypeOK, rowVars, TasksTypeOK, taskVars,
        RequestsTypeOK, RequestsOK
<1>5. CASE BeginTransfer(r)
  <2>1. RequestsOK'
    BY <1>5, RequestMoves DEF BeginTransfer
  <2>2. RowsTypeOK'
    BY <1>0, <1>5, SetGlobalType DEF BeginTransfer, RowsTypeOK, TransferStatuses
  <2>3. QED
    BY <1>5, <2>1, <2>2
    DEF BeginTransfer, TasksTypeOK, taskVars, RequestsTypeOK, RequestsOK
<1>6. CASE ReassignProject(r)
  <2>1. RequestsOK'
    BY <1>6, RequestMoves DEF ReassignProject
  <2>2. RowsTypeOK'
    BY <1>0, <1>6, SubtaskNames DEF ReassignProject, RowsTypeOK, TransferStatuses
  <2>3. r.cur \in Assets /\ Recipient[r.i] \in Users
    BY <1>0, TasksAssumption DEF RequestsTypeOK, Request
  <2>4. QED
    BY <1>0, <1>6, <2>1, <2>2, <2>3
    DEF ReassignProject, TasksTypeOK, taskVars, RequestsTypeOK, RequestsOK
<1>7. CASE DelayTask(r)
  <2>1. RequestsOK'
    BY <1>7, RequestMoves DEF DelayTask
  <2>2. queue' \in [Messages -> Nat]
    BY <1>0, <1>7, QueueGrows, SubtaskNames DEF DelayTask, TasksTypeOK
  <2>3. QED
    BY <1>7, <2>1, <2>2
    DEF DelayTask, RowsTypeOK, rowVars, TasksTypeOK, RequestsTypeOK, RequestsOK
<1>8. CASE FailTransfer(r)
  <2>1. RequestsOK'
    BY <1>8, RequestMoves DEF FailTransfer
  <2>2. RowsTypeOK'
    BY <1>0, <1>8, SetGlobalType DEF FailTransfer, RowsTypeOK, TransferStatuses
  <2>3. QED
    BY <1>8, <2>1, <2>2
    DEF FailTransfer, TasksTypeOK, taskVars, RequestsTypeOK, RequestsOK
<1>9. CASE EndRequest(r) \/ TransferError(r) \/ WebCrash(r)
  BY <1>9, RequestMoves
  DEF EndRequest, TransferError, WebCrash, RowsTypeOK, rowVars, TasksTypeOK,
      taskVars, RequestsTypeOK, RequestsOK
<1>10. QED
  BY <1>1, <1>2, <1>3, <1>4, <1>5, <1>6, <1>7, <1>8, <1>9 DEF RequestStep

LEMMA OtherWritersType ==
    ASSUME TypeOK,
           \/ \E c \in Clients, i \in Invites : NewRequest(c, i)
           \/ ScanExpired \/ WriteExpired
           \/ \E i \in Invites : DeleteInvite(i)
           \/ \E a \in Assets : TrashAsset(a)
    PROVE  TypeOK'
<1> USE DEF TypeOK
<1>1. CASE \E c \in Clients, i \in Invites : NewRequest(c, i)
  <2>1. PICK c \in Clients, i \in Invites : NewRequest(c, i)
    BY <1>1
  <2>2. RequestsOK' /\ contested' \subseteq Invites
    BY <2>1, OpenType DEF NewRequest, ValidateCreate, ValidateUpdate
  <2>3. QED
    BY <2>1, <2>2
    DEF NewRequest, ValidateCreate, ValidateUpdate, RowsTypeOK, rowVars,
        TasksTypeOK, taskVars, RequestsTypeOK, RequestsOK
<1>2. CASE ScanExpired
  BY <1>2 DEF ScanExpired, RowsTypeOK, rowVars, TasksTypeOK, taskVars, RequestsTypeOK
<1>3. CASE WriteExpired
  BY <1>3 DEF WriteExpired, RowsTypeOK, InviteStatuses, TasksTypeOK, taskVars,
              RequestsTypeOK
<1>4. CASE \E i \in Invites : DeleteInvite(i)
  BY <1>4 DEF DeleteInvite, RowsTypeOK, TasksTypeOK, taskVars, RequestsTypeOK,
              requestVars
<1>5. CASE \E a \in Assets : TrashAsset(a)
  BY <1>5 DEF TrashAsset, RowsTypeOK, InviteStatuses, TasksTypeOK, taskVars,
              RequestsTypeOK, requestVars
<1>6. QED
  BY <1>1, <1>2, <1>3, <1>4, <1>5

\* Type correctness of the whole system.
THEOREM TypeCorrect == Spec => []TypeOK
<1>1. Init => TypeOK
  BY TasksAssumption
  DEF Init, TypeOK, RowsInit, RowsTypeOK, TasksInit, TasksTypeOK, RequestsInit,
      RequestsTypeOK
<1>2. TypeOK /\ [Next]_vars => TypeOK'
  <2> SUFFICES ASSUME TypeOK, [Next]_vars
               PROVE  TypeOK'
    OBVIOUS
  <2>1. CASE TaskNext /\ UNCHANGED requestVars
    BY <2>1, TaskStepType, TaskFaultType, BeatType DEF TaskNext
  <2>2. CASE RequestNext
    BY <2>2, RequestStepType, OtherWritersType DEF RequestNext
  <2>3. CASE UNCHANGED vars
    BY <2>3
    DEF vars, TypeOK, RowsTypeOK, rowVars, TasksTypeOK, taskVars, RequestsTypeOK,
        requestVars
  <2>4. QED
    BY <2>1, <2>2, <2>3 DEF Next
<1>3. QED
  BY <1>1, <1>2, PTL DEF Spec

----------------------------------------------------------------------------
(* 3. WorkRecorded: which steps write a success, and what they rely on. *)

LEMMA RequiredSubtasks == \A t : Required(t) \subseteq Subtasks
  BY SubtaskNames DEF Required

\* A step that records no new success and completes no task preserves it.
LEMMA WorkKept ==
    ASSUME WorkRecorded, done' = done, txn' \subseteq txn,
           \A j \in job' : j.pc = "mark" => j \in job,
           \A t \in Transfers, ty \in StatusTypes :
             st'[t][ty] = "success" =>
               st[t][ty] = "success" \/ ty \in Subtasks \ Required(t),
           \A i \in Invites :
             invite'[i] = "complete" =>
               \/ invite[i] = "complete"
               \/ \A t \in TransfersOf(i) : st'[t]["global"] = "success"
    PROVE  WorkRecorded'
<1>1. SuccessMeansDone'
  BY SubtaskNames DEF WorkRecorded, SuccessMeansDone
<1>2. CompleteMeansDone'
  BY <1>1 DEF WorkRecorded, CompleteMeansDone, SuccessMeansDone, TransfersOf
<1>3. QED
  BY <1>1, <1>2, SubtaskNames DEF WorkRecorded

\* Writing the GLOBAL row completes an invite only with all its transfers.
LEMMA SetGlobalCompletes ==
    ASSUME RowsTypeOK, NEW t \in Transfers, NEW v, NEW rows, SetGlobal(t, v, rows)
    PROVE  \A i \in Invites :
             invite'[i] = "complete" =>
               \/ invite[i] = "complete"
               \/ \A u \in TransfersOf(i) : st'[u]["global"] = "success"
  BY TransfersFacts DEF SetGlobal, InviteAfter, RowsTypeOK

\* ... and, unless it writes SUCCESS, makes no transfer successful.
LEMMA SetGlobalKeepsWork ==
    ASSUME TypeOK, WorkRecorded, UNCHANGED <<done, txn, job>>,
           NEW t \in Transfers, NEW v \in TransferStatuses \ {"success"},
           SetGlobal(t, v, st)
    PROVE  WorkRecorded'
<1>1. RowsTypeOK
  BY DEF TypeOK
<1>2. \A u \in Transfers, ty \in StatusTypes :
        st'[u][ty] = "success" => st[u][ty] = "success"
  BY <1>1 DEF SetGlobal, RowsTypeOK
<1>3. QED
  BY <1>1, <1>2, SetGlobalCompletes, WorkKept

\* A task whose work has run to its end is the first to know.
LEMMA FinishedRecords ==
    ASSUME TypeOK, WorkRecorded, NEW j \in job, Finished(j)
    PROVE  WorkRecorded'
<1>1. j.t \in Transfers /\ j.ty \in Subtasks
  BY JobMoves DEF TypeOK, TasksTypeOK
<1>2. /\ \A t \in Transfers : done[t] \subseteq done'[t]
      /\ j.ty \in done'[j.t]
  BY <1>1 DEF Finished, TypeOK, TasksTypeOK
<1>3. UNCHANGED <<st, invite, txn>>
  BY DEF Finished, rowVars
<1>4. \A k \in job' : k.pc = "mark" => k \in job \/ (k.t = j.t /\ k.ty = j.ty)
  BY DEF Finished, GoTo, TypeOK, TasksTypeOK, Job
<1>5. \A k \in job : k.t \in Transfers
  BY DEF TypeOK, TasksTypeOK, Job
<1>6. \A x \in txn : x.t \in Transfers
  BY DEF TypeOK, RowsTypeOK, Update
<1>7. \A k \in job' : k.pc = "mark" => k.ty \in done'[k.t]
  BY <1>2, <1>4, <1>5 DEF WorkRecorded
<1>8. SuccessMeansDone' /\ CompleteMeansDone'
  BY <1>2, <1>3
  DEF WorkRecorded, SuccessMeansDone, CompleteMeansDone, TransfersOf, Transfers
<1>9. QED
  BY <1>2, <1>3, <1>6, <1>7, <1>8 DEF WorkRecorded

\* `update_status` decides on SUCCESS only when the three subtasks have run.
LEMMA BeginUpdateRecords ==
    ASSUME TypeOK, WorkRecorded, UNCHANGED done,
           \A j \in job' : j.pc = "mark" => j \in job,
           NEW a, NEW t \in Transfers, NEW ty \in Subtasks,
           NEW v \in {"success", "failed"}, v = "success" => ty \in done[t],
           BeginUpdate(a, t, ty, v)
    PROVE  WorkRecorded'
<1> DEFINE new == [by |-> a, t |-> t, ty |-> ty, val |-> v,
                   out |-> ParentStatus(t, ty, v)]
<1>1. txn' = txn \cup {new} /\ UNCHANGED <<st, invite>>
  BY DEF BeginUpdate
<1>2. ParentStatus(t, ty, v) = "success" =>
        \A s \in Subtasks : s # ty => st[t][s] = "success"
  BY SubtaskNames DEF ParentStatus, TypeOK, RowsTypeOK
<1>3. ParentStatus(t, ty, v) = "success" => v = "success"
  BY SubtaskNames DEF ParentStatus, TypeOK, RowsTypeOK
<1>4. new.out = "success" => Required(new.t) \subseteq done[new.t]
  BY <1>2, <1>3, RequiredSubtasks DEF WorkRecorded
<1>5. new.val = "success" => new.ty \in done[new.t]
  OBVIOUS
<1> HIDE DEF new
<1>6. SuccessMeansDone' /\ CompleteMeansDone'
  BY <1>1 DEF WorkRecorded, SuccessMeansDone, CompleteMeansDone
<1>7. QED
  BY <1>1, <1>4, <1>5, <1>6 DEF WorkRecorded

\* The commit writes what the transaction has decided.
LEMMA CommitRecords ==
    ASSUME TypeOK, WorkRecorded, UNCHANGED done,
           \A j \in job' : j.pc = "mark" => j \in job,
           NEW x \in txn, CommitUpdate(x)
    PROVE  WorkRecorded'
<1> DEFINE written == [st EXCEPT ![x.t][x.ty] = x.val]
<1>1. RowsTypeOK /\ x.t \in Transfers /\ x.ty \in Subtasks
  BY DEF TypeOK, RowsTypeOK, Update
<1>2. txn' \subseteq txn
  BY DEF CommitUpdate
<1>3. \A t \in Transfers, ty \in StatusTypes :
        \/ st'[t][ty] = st[t][ty]
        \/ t = x.t /\ ty = x.ty /\ st'[t][ty] = x.val
        \/ t = x.t /\ ty = "global" /\ st'[t][ty] = x.out
  BY <1>1, SubtaskNames DEF CommitUpdate, SetGlobal, RowsTypeOK
<1>4. \A t \in Transfers, ty \in Subtasks :
        st'[t][ty] = "success" /\ ty \in Required(t) => ty \in done[t]
  BY <1>3, SubtaskNames DEF WorkRecorded
<1>5. SuccessMeansDone'
  BY <1>3, <1>1, SubtaskNames DEF WorkRecorded, SuccessMeansDone
<1>6. \A i \in Invites :
        invite'[i] = "complete" =>
          \/ invite[i] = "complete"
          \/ \A u \in TransfersOf(i) : st'[u]["global"] = "success"
  <2>1. CASE x.out = "none"
    BY <2>1 DEF CommitUpdate
  <2>2. CASE x.out # "none"
    BY <1>1, <2>2, SetGlobalCompletes DEF CommitUpdate
  <2>3. QED
    BY <2>1, <2>2
<1>7. CompleteMeansDone'
  BY <1>5, <1>6
  DEF WorkRecorded, CompleteMeansDone, SuccessMeansDone, TransfersOf
<1>8. QED
  BY <1>2, <1>4, <1>5, <1>7 DEF WorkRecorded

LEMMA KeepInProgressKeepsWork ==
    ASSUME TypeOK, WorkRecorded, UNCHANGED done,
           \A j \in job' : j.pc = "mark" => j \in job,
           NEW t \in Transfers, NEW ty \in Subtasks, KeepInProgress(t, ty)
    PROVE  WorkRecorded'
<1>1. /\ UNCHANGED <<txn, invite>>
      /\ \A u \in Transfers, s \in StatusTypes :
           st'[u][s] = "success" => st[u][s] = "success"
  BY DEF KeepInProgress, TypeOK, RowsTypeOK
<1>2. QED
  BY <1>1, WorkKept

----------------------------------------------------------------------------
(* Every step preserves WorkRecorded. *)

LEMMA TaskWork ==
    ASSUME TypeOK, WorkRecorded, NEW j \in job, TaskStep(j) \/ TaskFault(j)
    PROVE  WorkRecorded'
<1>0. j.t \in Transfers /\ j.ty \in Subtasks
  BY JobMoves DEF TypeOK, TasksTypeOK
<1>moves. \A pc : pc # "mark" /\ (GoTo(j, pc) \/ Leave(j)) =>
            \A k \in job' : k.pc = "mark" => k \in job
  BY DEF GoTo, Leave, TypeOK, TasksTypeOK, Job
<1>quiet. ASSUME UNCHANGED <<st, invite, done>>, txn' \subseteq txn,
                 NEW pc, pc # "mark", GoTo(j, pc) \/ Leave(j)
          PROVE  WorkRecorded'
  BY <1>moves, <1>quiet, WorkKept
<1>1. CASE BeginTask(j)
  BY <1>0, <1>1, <1>moves, KeepInProgressKeepsWork DEF BeginTask
<1>2. CASE RewriteSubmissions(j) \/ MoveAttachments(j) \/ MoveMediaFiles(j)
  <2>1. CASE CannotFinish(j)
    BY <2>1, <1>quiet DEF CannotFinish, rowVars
  <2>2. QED
    BY <1>2, <2>1, FinishedRecords
    DEF RewriteSubmissions, MoveAttachments, MoveMediaFiles
<1>3. CASE MarkSuccessful(j)
  BY <1>0, <1>3, <1>moves, BeginUpdateRecords DEF MarkSuccessful, WorkRecorded
<1>4. CASE MarkFailed(j)
  BY <1>0, <1>4, <1>moves, BeginUpdateRecords DEF MarkFailed
<1>5. CASE CommitTask(j)
  BY <1>5, <1>moves, CommitRecords DEF CommitTask
<1>6. CASE ChainAttachments(j) \/ RowVanished(j)
  BY <1>6, <1>quiet DEF ChainAttachments, RowVanished, rowVars
<1>7. CASE KilledHandler(j)
  BY <1>0, <1>7, <1>moves, KeepInProgressKeepsWork DEF KilledHandler
<1>8. CASE TaskFault(j)
  BY <1>8, <1>quiet
  DEF TaskFault, TaskError, CannotFinish, SoftTimeout, Killed, ContainerCrash,
      Rollback, rowVars
<1>9. QED
  BY <1>1, <1>2, <1>3, <1>4, <1>5, <1>6, <1>7, <1>8 DEF TaskStep

LEMMA BeatWork ==
    ASSUME TypeOK, WorkRecorded,
           \/ \E w \in Workers, m \in Messages : StartTask(w, m[1], m[2])
           \/ \E i \in Invites : Age(i)
           \/ StuckStep
           \/ \E m \in Messages : Reschedule(m[1], m[2])
    PROVE  WorkRecorded'
<1>1. CASE \E w \in Workers, m \in Messages : StartTask(w, m[1], m[2])
  <2>1. UNCHANGED <<st, invite, txn, done>>
    BY <1>1 DEF StartTask, rowVars
  <2>2. \A k \in job' : k.pc = "mark" => k \in job
    BY <1>1 DEF StartTask
  <2>3. QED
    BY <2>1, <2>2, WorkKept
<1>2. CASE \E m \in Messages : MarkStuck(m[1], m[2])
  <2>1. PICK m \in Messages : MarkStuck(m[1], m[2])
    BY <1>2
  <2>2. m[1] \in Transfers /\ m[2] \in Subtasks
    BY DEF Messages
  <2>3. QED
    BY <2>1, <2>2, BeginUpdateRecords DEF MarkStuck
<1>3. CASE \E x \in txn : CommitStuck(x)
  BY <1>3, CommitRecords DEF CommitStuck
<1>4. CASE \/ \E i \in Invites : Age(i)
           \/ ScanStuck
           \/ AbandonStuck
           \/ \E m \in Messages : Reschedule(m[1], m[2])
  <2>1. UNCHANGED <<st, invite, done, job>> /\ txn' \subseteq txn
    BY <1>4 DEF Age, ScanStuck, AbandonStuck, Reschedule, Rollback, rowVars
  <2>2. QED
    BY <2>1, WorkKept
<1>5. QED
  BY <1>1, <1>2, <1>3, <1>4 DEF StuckStep

LEMMA RequestWork ==
    ASSUME TypeOK, WorkRecorded, RequestNext
    PROVE  WorkRecorded'
<1>0. UNCHANGED <<done, txn, job>>
  BY DEF RequestNext, NewRequest, ValidateCreate, ValidateUpdate, RequestStep,
         CreateInvite, SaveStatus, CancelRows, CheckPending, BeginTransfer,
         ReassignProject, DelayTask, FailTransfer, EndRequest, TransferError,
         WebCrash, ScanExpired, WriteExpired, DeleteInvite, TrashAsset,
         rowVars, taskVars
<1>kept. ASSUME \A t \in Transfers, ty \in StatusTypes :
                  st'[t][ty] = "success" =>
                    st[t][ty] = "success" \/ ty \in Subtasks \ Required(t),
                \A i \in Invites :
                  invite'[i] = "complete" => invite[i] = "complete"
         PROVE  WorkRecorded'
  BY <1>0, <1>kept, WorkKept
<1>1. CASE \E c \in Clients, i \in Invites : NewRequest(c, i)
  BY <1>1, <1>kept DEF NewRequest, ValidateCreate, ValidateUpdate, rowVars
<1>2. CASE \E r \in request : RequestStep(r)
  <2>1. PICK r \in request : RequestStep(r)
    BY <1>2
  <2>2. /\ r.i \in Invites /\ Cur(r) \in Transfers
        /\ \A a \in r.left : <<r.i, a>> \in Transfers
    BY RequestMoves DEF TypeOK
  <2>3. CASE CreateInvite(r)
    BY <2>3, <1>kept DEF CreateInvite, TypeOK, RowsTypeOK
  <2>4. CASE SaveStatus(r)
    <3>1. StatusSaved[r.act] # "complete"
      BY DEF StatusSaved, TypeOK, RequestsTypeOK, Request
    <3>2. QED
      BY <2>4, <3>1, <1>kept DEF SaveStatus, TypeOK, RowsTypeOK
  <2>5. CASE \E a \in Assets : CancelRows(r, a)
    BY <2>2, <2>5, <1>kept DEF CancelRows, TypeOK, RowsTypeOK
  <2>6. CASE BeginTransfer(r)
    BY <1>0, <1>kept, <2>2, <2>6, SetGlobalKeepsWork
    DEF BeginTransfer, TransferStatuses
  <2>7. CASE ReassignProject(r)
    <3>1. CASE r.cur \in Deployed
      BY <2>7, <3>1, <1>kept DEF ReassignProject
    <3>2. CASE r.cur \notin Deployed
      <4>1. Subtasks \ Required(Cur(r)) = {"submissions", "attachments"}
        BY <3>2, SubtaskNames DEF Required, Cur
      <4>2. \A t \in Transfers, ty \in StatusTypes :
              st'[t][ty] = "success" =>
                st[t][ty] = "success" \/ ty \in Subtasks \ Required(t)
        BY <2>2, <2>7, <3>2, <4>1 DEF ReassignProject, TypeOK, RowsTypeOK
      <4>3. QED
        BY <2>7, <4>2, <1>kept DEF ReassignProject
    <3>3. QED
      BY <3>1, <3>2
  <2>8. CASE FailTransfer(r)
    BY <1>0, <1>kept, <2>2, <2>8, SetGlobalKeepsWork
    DEF FailTransfer, TransferStatuses
  <2>9. CASE DelayTask(r) \/ EndRequest(r) \/ (\E a \in Assets : CheckPending(r, a))
    BY <2>9, <1>kept DEF DelayTask, EndRequest, CheckPending, rowVars
  <2>10. QED
    BY <2>1, <2>3, <2>4, <2>5, <2>6, <2>7, <2>8, <2>9 DEF RequestStep
<1>3. CASE \E r \in request : TransferError(r) \/ WebCrash(r)
  BY <1>3, <1>kept DEF TransferError, WebCrash, rowVars
<1>4. CASE ScanExpired \/ WriteExpired
  BY <1>4, <1>kept DEF ScanExpired, WriteExpired, rowVars
<1>5. CASE \E i \in Invites : DeleteInvite(i)
  BY <1>5, <1>kept DEF DeleteInvite, TypeOK, RowsTypeOK
<1>6. CASE \E a \in Assets : TrashAsset(a)
  BY <1>6, <1>kept DEF TrashAsset
<1>7. QED
  BY <1>1, <1>2, <1>3, <1>4, <1>5, <1>6 DEF RequestNext

\* No success is ever recorded of a subtask that has not run.
THEOREM WorkIsRecorded == Spec => []WorkRecorded
<1>1. Init => WorkRecorded
  BY SubtaskNames
  DEF Init, RowsInit, TasksInit, WorkRecorded, SuccessMeansDone, CompleteMeansDone
<1>2. TypeOK /\ WorkRecorded /\ [Next]_vars => WorkRecorded'
  <2> SUFFICES ASSUME TypeOK, WorkRecorded, [Next]_vars
               PROVE  WorkRecorded'
    OBVIOUS
  <2>1. CASE TaskNext
    BY <2>1, TaskWork, BeatWork DEF TaskNext
  <2>2. CASE RequestNext
    BY <2>2, RequestWork
  <2>3. CASE UNCHANGED vars
    BY <2>3, WorkKept DEF vars, rowVars, taskVars
  <2>4. QED
    BY <2>1, <2>2, <2>3 DEF Next
<1>3. QED
  BY <1>1, <1>2, TypeCorrect, PTL DEF Spec

\* A transfer whose GLOBAL row is SUCCESS has run each of its subtasks to the
\* end, whatever overlaps, fails, restarts or is deleted meanwhile.
THEOREM SuccessIsEarned == Spec => []SuccessMeansDone
<1>1. WorkRecorded => SuccessMeansDone
  BY DEF WorkRecorded
<1>2. QED
  BY <1>1, WorkIsRecorded, PTL

\* A COMPLETE invite has had the work of all its transfers done.
THEOREM CompletionIsEarned == Spec => []CompleteMeansDone
<1>1. WorkRecorded => CompleteMeansDone
  BY DEF WorkRecorded
<1>2. QED
  BY <1>1, WorkIsRecorded, PTL

----------------------------------------------------------------------------
(* 4. ReassignComesFirst: what may queue or run a task. *)

\* A step that starts nothing and flags no subtask IN_PROGRESS preserves it.
LEMMA FirstKept ==
    ASSUME ReassignComesFirst, moved \subseteq moved',
           \A m \in Messages : queue'[m] > 0 => queue[m] > 0 \/ m[1] \in moved,
           \A j \in job' : j.t \in moved,
           \A t \in Transfers, ty \in Subtasks :
             st'[t][ty] = "in_progress" => st[t][ty] = "in_progress" \/ t \in moved,
           \A r \in request' :
             r.pc \in {"submissions", "media_files"} => Cur(r) \in moved'
    PROVE  ReassignComesFirst'
  BY DEF ReassignComesFirst, TasksFollowReassign, Messages, Cur

\* Queueing a task of a moved project.
LEMMA EnqueueMoved ==
    ASSUME TypeOK, NEW t \in Transfers, NEW ty \in Subtasks, Enqueue(t, ty)
    PROVE  \A m \in Messages : queue'[m] > 0 => queue[m] > 0 \/ m[1] = t
  BY DEF Enqueue, TypeOK, TasksTypeOK, Messages

\* A transaction writes only SUCCESS or FAILED into the row of a subtask.
LEMMA CommitWritesEnd ==
    ASSUME TypeOK, NEW x \in txn, CommitUpdate(x)
    PROVE  \A t \in Transfers, ty \in Subtasks :
             st'[t][ty] = "in_progress" => st[t][ty] = "in_progress"
<1>1. x.val # "in_progress" /\ x.t \in Transfers /\ x.ty \in Subtasks
  BY DEF TypeOK, RowsTypeOK, Update
<1>2. QED
  BY <1>1, SubtaskNames DEF CommitUpdate, SetGlobal, TypeOK, RowsTypeOK

LEMMA SetGlobalSparesSubtasks ==
    ASSUME TypeOK, NEW t \in Transfers, NEW v, SetGlobal(t, v, st)
    PROVE  \A u \in Transfers, ty \in Subtasks : st'[u][ty] = st[u][ty]
  BY SubtaskNames DEF SetGlobal, TypeOK, RowsTypeOK

LEMMA TaskFirst ==
    ASSUME TypeOK, ReassignComesFirst, UNCHANGED requestVars,
           NEW j \in job, TaskStep(j) \/ TaskFault(j)
    PROVE  ReassignComesFirst'
<1>0. /\ j.t \in Transfers /\ j.ty \in Subtasks
      /\ j.t \in moved
      /\ \A k \in job : k.t \in moved
      /\ UNCHANGED <<moved, request>>
  BY JobMoves DEF TypeOK, TasksTypeOK, requestVars, ReassignComesFirst,
                  TasksFollowReassign
<1>1. \A k \in job' : k.t \in moved
  <2>1. \A pc : GoTo(j, pc) => \A k \in job' : k.t \in moved
    BY <1>0 DEF GoTo, TypeOK, TasksTypeOK, Job
  <2>2. Leave(j) => \A k \in job' : k.t \in moved
    BY <1>0 DEF Leave
  <2>3. (\E pc : GoTo(j, pc)) \/ Leave(j)
    BY DEF TaskStep, TaskFault, BeginTask, RewriteSubmissions, MoveAttachments,
           MoveMediaFiles, MarkSuccessful, MarkFailed, CommitTask,
           ChainAttachments, RowVanished, KilledHandler, TaskError, SoftTimeout,
           Killed, ContainerCrash, Finished, CannotFinish
  <2>4. QED
    BY <2>1, <2>2, <2>3
<1>2. \A r \in request' :
        r.pc \in {"submissions", "media_files"} => Cur(r) \in moved'
  BY <1>0 DEF ReassignComesFirst, Cur
<1>3. CASE BeginTask(j) \/ KilledHandler(j)
  <2>1. UNCHANGED queue /\ KeepInProgress(j.t, j.ty)
    BY <1>3 DEF BeginTask, KilledHandler
  <2>2. \A t \in Transfers, ty \in Subtasks :
          st'[t][ty] = "in_progress" => st[t][ty] = "in_progress" \/ t \in moved
    BY <1>0, <2>1 DEF KeepInProgress, TypeOK, RowsTypeOK
  <2>3. QED
    BY <1>0, <1>1, <1>2, <2>1, <2>2, FirstKept
<1>4. CASE CommitTask(j)
  <2>1. \A t \in Transfers, ty \in Subtasks :
          st'[t][ty] = "in_progress" => st[t][ty] = "in_progress"
    BY <1>4, CommitWritesEnd DEF CommitTask
  <2>2. UNCHANGED queue
    BY <1>4 DEF CommitTask
  <2>3. QED
    BY <1>0, <1>1, <1>2, <2>1, <2>2, FirstKept
<1>5. CASE ChainAttachments(j) \/ SoftTimeout(j)
  <2>1. UNCHANGED st /\ (Enqueue(j.t, "attachments") \/ Enqueue(j.t, j.ty))
    BY <1>5 DEF ChainAttachments, SoftTimeout, rowVars
  <2>2. \A m \in Messages : queue'[m] > 0 => queue[m] > 0 \/ m[1] \in moved
    BY <1>0, <2>1, EnqueueMoved, SubtaskNames
  <2>3. QED
    BY <1>0, <1>1, <1>2, <2>1, <2>2, FirstKept
<1>6. CASE \/ RewriteSubmissions(j) \/ MoveAttachments(j) \/ MoveMediaFiles(j)
           \/ MarkSuccessful(j) \/ MarkFailed(j) \/ RowVanished(j)
           \/ TaskError(j) \/ Killed(j) \/ ContainerCrash(j)
  <2>1. UNCHANGED <<st, queue>>
    BY <1>6
    DEF RewriteSubmissions, MoveAttachments, MoveMediaFiles, Finished,
        CannotFinish, MarkSuccessful, MarkFailed, BeginUpdate, RowVanished,
        TaskError, Killed, ContainerCrash, rowVars
  <2>2. QED
    BY <1>0, <1>1, <1>2, <2>1, FirstKept
<1>7. QED
  BY <1>3, <1>4, <1>5, <1>6 DEF TaskStep, TaskFault

LEMMA BeatFirst ==
    ASSUME TypeOK, ReassignComesFirst, UNCHANGED requestVars,
           \/ \E w \in Workers, m \in Messages : StartTask(w, m[1], m[2])
           \/ \E i \in Invites : Age(i)
           \/ StuckStep
           \/ \E m \in Messages : Reschedule(m[1], m[2])
    PROVE  ReassignComesFirst'
<1>0. /\ \A k \in job : k.t \in moved
      /\ UNCHANGED moved
      /\ \A r \in request' :
           r.pc \in {"submissions", "media_files"} => Cur(r) \in moved'
      /\ \A m \in Messages : m[1] \in Transfers /\ m[2] \in Subtasks
                             /\ m = <<m[1], m[2]>>
  BY DEF requestVars, ReassignComesFirst, TasksFollowReassign, Messages, Cur
<1>1. CASE \E w \in Workers, m \in Messages : StartTask(w, m[1], m[2])
  <2>1. PICK w \in Workers, m \in Messages : StartTask(w, m[1], m[2])
    BY <1>1
  <2>2. queue[m] > 0 /\ queue' = [queue EXCEPT ![m] = @ - 1] /\ UNCHANGED st
    BY <1>0, <2>1 DEF StartTask, rowVars
  <2>3. m[1] \in moved
    BY <2>2 DEF ReassignComesFirst, TasksFollowReassign
  <2>4. \A k \in job' : k.t \in moved
    BY <1>0, <2>1, <2>3 DEF StartTask
  <2>5. \A n \in Messages : queue'[n] > 0 => queue[n] > 0
    BY <2>2 DEF TypeOK, TasksTypeOK
  <2>6. QED
    BY <1>0, <2>2, <2>4, <2>5, FirstKept
<1>2. CASE \E x \in txn : CommitStuck(x)
  <2>1. \A t \in Transfers, ty \in Subtasks :
          st'[t][ty] = "in_progress" => st[t][ty] = "in_progress"
    BY <1>2, CommitWritesEnd DEF CommitStuck
  <2>2. UNCHANGED <<queue, job>>
    BY <1>2 DEF CommitStuck
  <2>3. QED
    BY <1>0, <2>1, <2>2, FirstKept
<1>3. CASE \E m \in Messages : Reschedule(m[1], m[2])
  <2>1. PICK m \in Messages : Reschedule(m[1], m[2])
    BY <1>3
  <2>2. m[1] \in moved /\ UNCHANGED <<st, job>> /\ Enqueue(m[1], m[2])
    BY <1>0, <2>1 DEF Reschedule, ReassignComesFirst, rowVars
  <2>3. \A n \in Messages : queue'[n] > 0 => queue[n] > 0 \/ n[1] \in moved
    BY <1>0, <2>2, EnqueueMoved
  <2>4. QED
    BY <1>0, <2>2, <2>3, FirstKept
<1>4. CASE \/ \E i \in Invites : Age(i)
           \/ ScanStuck
           \/ \E m \in Messages : MarkStuck(m[1], m[2])
           \/ AbandonStuck
  <2>1. UNCHANGED <<st, queue, job>>
    BY <1>4 DEF Age, ScanStuck, MarkStuck, BeginUpdate, AbandonStuck, rowVars
  <2>2. QED
    BY <1>0, <2>1, FirstKept
<1>5. QED
  BY <1>1, <1>2, <1>3, <1>4 DEF StuckStep

\* A request that moves to pc, or ends, breaks nothing unless it gets to queue
\* the tasks of a project it has not moved.
LEMMA RequestMovesFirst ==
    ASSUME TypeOK, ReassignComesFirst, NEW r \in request, moved \subseteq moved',
           NEW pc, pc \in {"submissions", "media_files"} => Cur(r) \in moved',
           At(r, pc) \/ Finish(r)
    PROVE  \A q \in request' :
             q.pc \in {"submissions", "media_files"} => Cur(q) \in moved'
<1>1. \A q \in request :
        q.pc \in {"submissions", "media_files"} => Cur(q) \in moved'
  BY DEF ReassignComesFirst
<1>2. r \in Request
  BY DEF TypeOK, RequestsTypeOK
<1> DEFINE next == [r EXCEPT !.pc = pc]
<1>3. next.pc = pc /\ Cur(next) = Cur(r)
  BY <1>2 DEF Request, Cur
<1>4. request' = (request \ {r}) \cup {next} \/ request' = request \ {r}
  BY DEF At, Finish
<1> HIDE DEF next
<1>5. QED
  BY <1>1, <1>3, <1>4

LEMMA RequestFirst ==
    ASSUME TypeOK, ReassignComesFirst, RequestNext
    PROVE  ReassignComesFirst'
<1>0. /\ \A k \in job : k.t \in moved
      /\ \A q \in request :
           q.pc \in {"submissions", "media_files"} => Cur(q) \in moved
      /\ UNCHANGED job
  BY DEF ReassignComesFirst, TasksFollowReassign, RequestNext, NewRequest,
         ValidateCreate, ValidateUpdate, RequestStep, CreateInvite, SaveStatus,
         CancelRows, CheckPending, BeginTransfer, ReassignProject, DelayTask,
         FailTransfer, EndRequest, TransferError, WebCrash, ScanExpired,
         WriteExpired, DeleteInvite, TrashAsset, taskVars
<1>rows. ASSUME UNCHANGED <<queue, moved>>,
                \A t \in Transfers, ty \in Subtasks :
                  st'[t][ty] = "in_progress" => st[t][ty] = "in_progress",
                \A q \in request' :
                  q.pc \in {"submissions", "media_files"} => Cur(q) \in moved'
         PROVE  ReassignComesFirst'
  BY <1>0, <1>rows, FirstKept
<1>1. CASE \E c \in Clients, i \in Invites : NewRequest(c, i)
  <2>1. PICK c \in Clients, i \in Invites : NewRequest(c, i)
    BY <1>1
  <2>2. \A q \in request' : q \in request \/ q.pc \in {"create", "save"}
    BY <2>1 DEF NewRequest, ValidateCreate, ValidateUpdate, Open
  <2>3. UNCHANGED <<queue, moved, st>>
    BY <2>1 DEF NewRequest, ValidateCreate, ValidateUpdate, rowVars, taskVars
  <2>4. \A q \in request' :
          q.pc \in {"submissions", "media_files"} => Cur(q) \in moved'
    BY <1>0, <2>2, <2>3 DEF Cur
  <2>5. QED
    BY <1>rows, <2>3, <2>4
<1>2. CASE \E r \in request : RequestStep(r) \/ TransferError(r) \/ WebCrash(r)
  <2>1. PICK r \in request : RequestStep(r) \/ TransferError(r) \/ WebCrash(r)
    BY <1>2
  <2>2. /\ r.i \in Invites /\ Cur(r) \in Transfers
        /\ \A a \in r.left : <<r.i, a>> \in Transfers
    BY RequestMoves DEF TypeOK
  <2>3. CASE CreateInvite(r)
    <3>1. UNCHANGED <<queue, moved>> /\ (At(r, "save") \/ Finish(r))
      BY <2>3 DEF CreateInvite, taskVars
    <3>2. \A t \in Transfers, ty \in Subtasks :
            st'[t][ty] = "in_progress" => st[t][ty] = "in_progress"
      BY <2>3, SubtaskNames DEF CreateInvite
    <3>3. QED
      BY <1>rows, <3>1, <3>2, RequestMovesFirst
  <2>4. CASE SaveStatus(r)
    <3>1. UNCHANGED <<queue, moved, st>> /\ (At(r, "loop") \/ Finish(r))
      BY <2>4 DEF SaveStatus, taskVars
    <3>2. QED
      BY <1>rows, <3>1, RequestMovesFirst
  <2>5. CASE \E a \in Assets : CancelRows(r, a)
    <3>1. PICK a \in Assets : CancelRows(r, a)
      BY <2>5
    <3>2. \A t \in Transfers, ty \in Subtasks :
            st'[t][ty] = "in_progress" => st[t][ty] = "in_progress"
      BY <2>2, <3>1, SubtaskNames DEF CancelRows, TypeOK, RowsTypeOK
    <3>3. UNCHANGED <<queue, moved>>
      BY <3>1 DEF CancelRows, taskVars
    <3>4. \A q \in request' : q \in request \/ q.pc = "loop"
      BY <3>1 DEF CancelRows, TypeOK, RequestsTypeOK, Request
    <3>5. QED
      BY <1>0, <1>rows, <3>2, <3>3, <3>4 DEF Cur
  <2>6. CASE \E a \in Assets : CheckPending(r, a)
    <3>1. PICK a \in Assets : CheckPending(r, a)
      BY <2>6
    <3>2. \A q \in request' : q \in request \/ q.pc = "begin"
      BY <3>1 DEF CheckPending, Finish, TypeOK, RequestsTypeOK, Request
    <3>3. UNCHANGED <<queue, moved, st>>
      BY <3>1 DEF CheckPending, rowVars, taskVars
    <3>4. QED
      BY <1>0, <1>rows, <3>2, <3>3 DEF Cur
  <2>7. CASE BeginTransfer(r) \/ FailTransfer(r)
    <3>1. UNCHANGED <<queue, moved>> /\ (At(r, "reassign") \/ Finish(r))
      BY <2>7 DEF BeginTransfer, FailTransfer, taskVars
    <3>2. \A t \in Transfers, ty \in Subtasks : st'[t][ty] = st[t][ty]
      BY <2>2, <2>7, SetGlobalSparesSubtasks DEF BeginTransfer, FailTransfer
    <3>3. QED
      BY <1>rows, <3>1, <3>2, RequestMovesFirst
  <2>8. CASE ReassignProject(r)
    <3>1. /\ UNCHANGED queue
          /\ moved' = moved \cup {Cur(r)}
          /\ At(r, "submissions") \/ At(r, "media_files")
      BY <2>8 DEF ReassignProject, taskVars
    <3>2. \A t \in Transfers, ty \in Subtasks :
            st'[t][ty] = "in_progress" => st[t][ty] = "in_progress"
      BY <2>2, <2>8, SubtaskNames DEF ReassignProject, TypeOK, RowsTypeOK
    <3>3. \A q \in request' :
            q.pc \in {"submissions", "media_files"} => Cur(q) \in moved'
      BY <3>1, RequestMovesFirst
    <3>4. QED
      BY <1>0, <3>1, <3>2, <3>3, FirstKept
  <2>9. CASE DelayTask(r)
    <3>1. /\ UNCHANGED <<st, moved>>
          /\ Cur(r) \in moved
          /\ Enqueue(Cur(r), r.pc) /\ r.pc \in Subtasks
          /\ At(r, "media_files") \/ At(r, "loop")
      BY <1>0, <2>9, SubtaskNames DEF DelayTask, rowVars
    <3>2. \A m \in Messages : queue'[m] > 0 => queue[m] > 0 \/ m[1] \in moved
      BY <2>2, <3>1, EnqueueMoved
    <3>3. \A q \in request' :
            q.pc \in {"submissions", "media_files"} => Cur(q) \in moved'
      BY <3>1, RequestMovesFirst
    <3>4. QED
      BY <1>0, <3>1, <3>2, <3>3, FirstKept
  <2>10. CASE EndRequest(r) \/ TransferError(r) \/ WebCrash(r)
    <3>1. UNCHANGED <<queue, moved, st>> /\ (At(r, "fail") \/ Finish(r))
      BY <2>10 DEF EndRequest, TransferError, WebCrash, rowVars, taskVars
    <3>2. QED
      BY <1>rows, <3>1, RequestMovesFirst
  <2>11. QED
    BY <2>1, <2>3, <2>4, <2>5, <2>6, <2>7, <2>8, <2>9, <2>10 DEF RequestStep
<1>3. CASE ScanExpired \/ WriteExpired \/ (\E a \in Assets : TrashAsset(a))
  BY <1>0, <1>3, <1>rows
  DEF ScanExpired, WriteExpired, TrashAsset, rowVars, taskVars, requestVars, Cur
<1>4. CASE \E i \in Invites : DeleteInvite(i)
  <2>1. \A t \in Transfers, ty \in Subtasks :
          st'[t][ty] = "in_progress" => st[t][ty] = "in_progress"
    BY <1>4, SubtaskNames DEF DeleteInvite
  <2>2. QED
    BY <1>0, <1>4, <1>rows, <2>1 DEF DeleteInvite, taskVars, requestVars, Cur
<1>5. QED
  BY <1>1, <1>2, <1>3, <1>4 DEF RequestNext

\* The project is reassigned before anything is done for its transfer.
THEOREM ReassignIsFirst == Spec => []ReassignComesFirst
<1>1. Init => ReassignComesFirst
  BY SubtaskNames
  DEF Init, RowsInit, TasksInit, RequestsInit, ReassignComesFirst,
      TasksFollowReassign
<1>2. TypeOK /\ ReassignComesFirst /\ [Next]_vars => ReassignComesFirst'
  <2> SUFFICES ASSUME TypeOK, ReassignComesFirst, [Next]_vars
               PROVE  ReassignComesFirst'
    OBVIOUS
  <2>1. CASE TaskNext /\ UNCHANGED requestVars
    BY <2>1, TaskFirst, BeatFirst DEF TaskNext
  <2>2. CASE RequestNext
    BY <2>2, RequestFirst
  <2>3. CASE UNCHANGED vars
    BY <2>3
    DEF vars, rowVars, taskVars, requestVars, ReassignComesFirst,
        TasksFollowReassign, Cur
  <2>4. QED
    BY <2>1, <2>2, <2>3 DEF Next
<1>3. QED
  BY <1>1, <1>2, TypeCorrect, PTL DEF Spec

\* No task is queued or running of a project that has not been reassigned.
THEOREM TasksAreFollowing == Spec => []TasksFollowReassign
<1>1. ReassignComesFirst => TasksFollowReassign
  BY DEF ReassignComesFirst
<1>2. QED
  BY <1>1, ReassignIsFirst, PTL

----------------------------------------------------------------------------
(* 5. RowsFollowInvite: the rows of an invite come and go with it. *)

\* A step that neither adds nor removes rows or invites preserves it, provided
\* that no request, and no project, gets past the check without its rows.
LEMMA InviteKept ==
    ASSUME TypeOK', RowsFollowInvite,
           \A t \in Transfers :
             /\ st'[t]["global"] = "none" <=> st[t]["global"] = "none"
             /\ st'[t]["global"] = "pending" => st[t]["global"] = "pending",
           \A i \in Invites :
             /\ invite'[i] = "none" <=> invite[i] = "none"
             /\ invite'[i] = "deleted" <=> invite[i] = "deleted",
           \A x \in txn' : Exists(x.t),
           \A r \in request' :
             /\ r.pc # "create" => invite[r.i] # "none"
             /\ r.pc \in {"reassign", "submissions", "media_files", "fail"}
                  => st'[Cur(r)]["global"] # "pending",
           \A t \in moved' : invite[t[1]] # "none" /\ st'[t]["global"] # "pending"
    PROVE  RowsFollowInvite'
<1>1. /\ \A x \in txn' : x.t \in Transfers
      /\ \A r \in request' : r.i \in Invites /\ Cur(r) \in Transfers
      /\ moved' \subseteq Transfers
  BY DEF TypeOK, RowsTypeOK, Update, RequestsTypeOK, Request, Cur, Transfers
<1>2. /\ (\A t \in Transfers : Exists(t) <=> Live(t[1]))'
      /\ (\A x \in txn : Exists(x.t))'
  BY <1>1, TransfersFacts DEF RowsFollowInvite, Exists, Live
<1>3. /\ (\A r \in request : r.pc # "create" => invite[r.i] # "none")'
      /\ (\A t \in moved : invite[t[1]] # "none")'
  BY <1>1, TransfersFacts
<1>4. /\ (\A r \in request :
            r.pc \in {"reassign", "submissions", "media_files", "fail"}
              => st[Cur(r)]["global"] # "pending")'
      /\ ReassignIsRecorded'
  BY DEF ReassignIsRecorded, Cur
<1>5. QED
  BY <1>2, <1>3, <1>4 DEF RowsFollowInvite

\* In particular one of a task, which leaves the requests alone.
LEMMA InviteKeptByTask ==
    ASSUME TypeOK, TypeOK', RowsFollowInvite, UNCHANGED requestVars,
           \A t \in Transfers :
             /\ st'[t]["global"] = "none" <=> st[t]["global"] = "none"
             /\ st'[t]["global"] = "pending" => st[t]["global"] = "pending",
           \A i \in Invites :
             /\ invite'[i] = "none" <=> invite[i] = "none"
             /\ invite'[i] = "deleted" <=> invite[i] = "deleted",
           \A x \in txn' : Exists(x.t)
    PROVE  RowsFollowInvite'
<1>1. UNCHANGED <<request, moved>>
  BY DEF requestVars
<1>2. /\ \A r \in request : Cur(r) \in Transfers
      /\ moved \subseteq Transfers
  BY DEF TypeOK, RequestsTypeOK, Request, Cur, Transfers
<1>3. \A r \in request' :
        /\ r.pc # "create" => invite[r.i] # "none"
        /\ r.pc \in {"reassign", "submissions", "media_files", "fail"}
             => st'[Cur(r)]["global"] # "pending"
  BY <1>1, <1>2 DEF RowsFollowInvite
<1>4. \A t \in moved' : invite[t[1]] # "none" /\ st'[t]["global"] # "pending"
  BY <1>1, <1>2 DEF RowsFollowInvite, ReassignIsRecorded
<1>5. QED
  BY <1>3, <1>4, InviteKept

\* The GLOBAL row of a transfer that has one is overwritten, never removed.
LEMMA SetGlobalKeepsRows ==
    ASSUME TypeOK, RowsFollowInvite, NEW t \in Transfers, Exists(t),
           NEW v \in TransferStatuses \ {"pending"},
           NEW rows \in [Transfers -> [StatusTypes -> TransferStatuses \cup {"none"}]],
           \A u \in Transfers : rows[u]["global"] = st[u]["global"],
           SetGlobal(t, v, rows)
    PROVE  /\ \A u \in Transfers :
                st'[u]["global"] = IF u = t THEN v ELSE st[u]["global"]
           /\ \A i \in Invites :
                /\ invite'[i] = "none" <=> invite[i] = "none"
                /\ invite'[i] = "deleted" <=> invite[i] = "deleted"
<1> DEFINE after == [rows EXCEPT ![t]["global"] = v]
<1>1. \A u \in Transfers :
        after[u]["global"] = IF u = t THEN v ELSE st[u]["global"]
  BY SubtaskNames
<1>2. st' = after /\ invite' = [invite EXCEPT ![t[1]] = InviteAfter(t[1], after)]
  BY DEF SetGlobal
<1> HIDE DEF after
<1>3. Live(t[1])
  BY DEF RowsFollowInvite
<1>4. InviteAfter(t[1], after) \notin {"none", "deleted"}
  BY <1>3 DEF InviteAfter, Live
<1>5. QED
  BY <1>1, <1>2, <1>3, <1>4, TransfersFacts DEF Live, TypeOK, RowsTypeOK

\* What a transaction has written of the subtask leaves the GLOBAL rows as read.
LEMMA WrittenRows ==
    ASSUME TypeOK, NEW x \in txn
    PROVE  LET written == [st EXCEPT ![x.t][x.ty] = x.val]
           IN  /\ written \in [Transfers -> [StatusTypes -> TransferStatuses \cup {"none"}]]
               /\ \A u \in Transfers : written[u]["global"] = st[u]["global"]
<1>1. x.t \in Transfers /\ x.ty \in Subtasks /\ x.val \in TransferStatuses
  BY DEF TypeOK, RowsTypeOK, Update, TransferStatuses
<1>2. QED
  BY <1>1, SubtaskNames DEF TypeOK, RowsTypeOK

LEMMA CommitKeepsRows ==
    ASSUME TypeOK, RowsFollowInvite, NEW x \in txn, CommitUpdate(x)
    PROVE  /\ \A u \in Transfers :
                \/ st'[u]["global"] = st[u]["global"]
                \/ st[u]["global"] # "none" /\ st'[u]["global"] \in {"success", "failed"}
           /\ \A i \in Invites :
                /\ invite'[i] = "none" <=> invite[i] = "none"
                /\ invite'[i] = "deleted" <=> invite[i] = "deleted"
           /\ \A y \in txn' : Exists(y.t)
<1> DEFINE written == [st EXCEPT ![x.t][x.ty] = x.val]
<1>1. /\ x.t \in Transfers /\ Exists(x.t)
      /\ x.out \in {"none", "success", "failed"}
  BY DEF TypeOK, RowsTypeOK, Update, RowsFollowInvite
<1>2. /\ written \in [Transfers -> [StatusTypes -> TransferStatuses \cup {"none"}]]
      /\ \A u \in Transfers : written[u]["global"] = st[u]["global"]
  BY WrittenRows
<1>3. \A y \in txn' : Exists(y.t)
  BY DEF CommitUpdate, RowsFollowInvite
<1>4. CASE x.out = "none"
  BY <1>2, <1>3, <1>4 DEF CommitUpdate
<1>5. CASE x.out # "none"
  <2>1. SetGlobal(x.t, x.out, written)
    BY <1>5 DEF CommitUpdate
  <2>2. x.out \in TransferStatuses \ {"pending"}
    BY <1>1, <1>5 DEF TransferStatuses
  <2> HIDE DEF written
  <2>3. QED
    BY <1>1, <1>2, <1>3, <1>5, <2>1, <2>2, SetGlobalKeepsRows DEF Exists
<1>6. QED
  BY <1>4, <1>5

LEMMA KeepInProgressKeepsRows ==
    ASSUME TypeOK, RowsFollowInvite, NEW t \in Transfers, NEW ty \in Subtasks,
           KeepInProgress(t, ty)
    PROVE  /\ \A u \in Transfers : st'[u]["global"] = st[u]["global"]
           /\ UNCHANGED <<invite, txn>>
           /\ \A x \in txn' : Exists(x.t)
  BY SubtaskNames DEF KeepInProgress, TypeOK, RowsTypeOK, RowsFollowInvite

LEMMA TaskKeepsInvite ==
    ASSUME TypeOK, TypeOK', RowsFollowInvite, TaskNext, UNCHANGED requestVars
    PROVE  RowsFollowInvite'
<1>quiet. ASSUME UNCHANGED <<st, invite>>, \A x \in txn' : Exists(x.t)
          PROVE  RowsFollowInvite'
  BY <1>quiet, InviteKeptByTask
<1>same. ASSUME UNCHANGED <<st, invite>>, txn' \subseteq txn
         PROVE  RowsFollowInvite'
  BY <1>same, <1>quiet DEF RowsFollowInvite
<1>1. ASSUME NEW j \in job, TaskStep(j) \/ TaskFault(j)
      PROVE  RowsFollowInvite'
  <2>0. j.t \in Transfers /\ j.ty \in Subtasks
    BY JobMoves DEF TypeOK, TasksTypeOK
  <2>1. CASE BeginTask(j) \/ KilledHandler(j)
    BY <2>0, <2>1, KeepInProgressKeepsRows, InviteKeptByTask
    DEF BeginTask, KilledHandler
  <2>2. CASE MarkSuccessful(j) \/ MarkFailed(j)
    <3>1. UNCHANGED <<st, invite>> /\ \A x \in txn' : Exists(x.t)
      BY <2>2 DEF MarkSuccessful, MarkFailed, BeginUpdate, RowsFollowInvite
    <3>2. QED
      BY <3>1, <1>quiet
  <2>3. CASE CommitTask(j)
    <3>1. PICK x \in txn : CommitUpdate(x)
      BY <2>3 DEF CommitTask
    <3>2. QED
      BY <3>1, CommitKeepsRows, InviteKeptByTask
  <2>4. CASE \/ RewriteSubmissions(j) \/ MoveAttachments(j) \/ MoveMediaFiles(j)
             \/ ChainAttachments(j) \/ RowVanished(j) \/ TaskFault(j)
    BY <2>4, <1>same
    DEF RewriteSubmissions, MoveAttachments, MoveMediaFiles, Finished,
        CannotFinish, ChainAttachments, RowVanished, TaskFault, TaskError,
        SoftTimeout, Killed, ContainerCrash, Rollback, rowVars
  <2>5. QED
    BY <1>1, <2>1, <2>2, <2>3, <2>4 DEF TaskStep
<1>2. CASE \E m \in Messages : MarkStuck(m[1], m[2])
  <2>1. UNCHANGED <<st, invite>> /\ \A x \in txn' : Exists(x.t)
    BY <1>2 DEF MarkStuck, BeginUpdate, RowsFollowInvite
  <2>2. QED
    BY <2>1, <1>quiet
<1>3. CASE \E x \in txn : CommitStuck(x)
  <2>1. PICK x \in txn : CommitUpdate(x)
    BY <1>3 DEF CommitStuck
  <2>2. QED
    BY <2>1, CommitKeepsRows, InviteKeptByTask
<1>4. CASE \/ \E w \in Workers, m \in Messages : StartTask(w, m[1], m[2])
           \/ \E i \in Invites : Age(i)
           \/ ScanStuck
           \/ AbandonStuck
           \/ \E m \in Messages : Reschedule(m[1], m[2])
  <2>1. UNCHANGED <<st, invite>> /\ txn' \subseteq txn
    BY <1>4 DEF StartTask, Age, ScanStuck, AbandonStuck, Reschedule, Rollback, rowVars
  <2>2. QED
    BY <2>1, <1>same
<1>5. QED
  BY <1>1, <1>2, <1>3, <1>4 DEF TaskNext, StuckStep

\* The requests that have passed the check, and those that have been created.
Past(r) == r.pc \in {"reassign", "submissions", "media_files", "fail"}

\* A request that moves to pc, or ends: what it must have done to get there.
LEMMA RequestKeepsInvite ==
    ASSUME TypeOK, RowsFollowInvite, NEW r \in request, NEW pc, pc # "create",
           At(r, pc) \/ Finish(r),
           r.pc = "create" => Finish(r),
           pc \in {"reassign", "submissions", "media_files", "fail"} =>
             Finish(r) \/ st'[Cur(r)]["global"] # "pending",
           \A t \in Transfers :
             st'[t]["global"] = "pending" => st[t]["global"] = "pending"
    PROVE  \A q \in request' :
             /\ q.pc # "create" => invite[q.i] # "none"
             /\ Past(q) => st'[Cur(q)]["global"] # "pending"
<1>1. \A q \in request : /\ q.pc # "create" => invite[q.i] # "none"
                         /\ Past(q) => st'[Cur(q)]["global"] # "pending"
  BY RequestMoves DEF RowsFollowInvite, Past, TypeOK
<1>2. CASE Finish(r)
  BY <1>1, <1>2 DEF Finish
<1>3. CASE ~Finish(r)
  <2> DEFINE next == [r EXCEPT !.pc = pc]
  <2>1. r \in Request
    BY DEF TypeOK, RequestsTypeOK
  <2>2. next.pc = pc /\ next.i = r.i /\ Cur(next) = Cur(r)
    BY <2>1 DEF Request, Cur
  <2>3. request' = (request \ {r}) \cup {next}
    BY <1>3 DEF At
  <2>4. invite[r.i] # "none"
    BY <1>1, <1>3
  <2> HIDE DEF next
  <2>5. QED
    BY <1>1, <1>3, <2>2, <2>3, <2>4 DEF Past
<1>4. QED
  BY <1>2, <1>3

\* An invite is created, with its rows, by the one request for it.
LEMMA CreateKeepsInvite ==
    ASSUME TypeOK, TypeOK', RowsFollowInvite, NEW r \in request, CreateInvite(r)
    PROVE  RowsFollowInvite'
<1>1. /\ r.pc = "create" /\ r.i \in Invites /\ invite[r.i] = "none"
      /\ UNCHANGED <<txn, moved>>
      /\ At(r, "save") \/ Finish(r)
  BY RequestMoves DEF CreateInvite, TypeOK, RowsAssumption, RequestsTypeOK, Request
<1>2. \A i \in Invites : invite'[i] = IF i = r.i THEN "pending" ELSE invite[i]
  BY DEF CreateInvite, TypeOK, RowsTypeOK
<1>3. \A t \in Transfers :
        st'[t]["global"] = IF t[1] = r.i THEN "pending" ELSE st[t]["global"]
  BY SubtaskNames DEF CreateInvite
<1>4. /\ \A x \in txn : x.t \in Transfers
      /\ \A q \in request : q.i \in Invites /\ Cur(q) \in Transfers /\ Cur(q)[1] = q.i
      /\ moved \subseteq Transfers
  BY DEF TypeOK, RowsTypeOK, Update, RequestsTypeOK, Request, Cur, Transfers
<1>5. \A t \in Transfers : Exists(t)' <=> Live(t[1])'
  BY <1>2, <1>3, TransfersFacts DEF RowsFollowInvite, Exists, Live
<1>6. \A x \in txn' : Exists(x.t)'
  BY <1>1, <1>3, <1>4 DEF RowsFollowInvite, Exists
<1>7. \A q \in request' :
        q \in request \/ (q.pc = "save" /\ q.i = r.i)
  BY <1>1 DEF At, Finish, TypeOK, RequestsTypeOK, Request
<1>8. \A q \in request' : q.pc # "create" => invite'[q.i] # "none"
  BY <1>1, <1>2, <1>4, <1>7 DEF RowsFollowInvite
<1>9. \A q \in request' : Past(q) => st'[Cur(q)]["global"] # "pending"
  BY <1>1, <1>3, <1>4, <1>7 DEF RowsFollowInvite, Past
<1>10. \A t \in moved' : invite'[t[1]] # "none" /\ st'[t]["global"] # "pending"
  BY <1>1, <1>2, <1>3, <1>4, TransfersFacts DEF RowsFollowInvite, ReassignIsRecorded
<1>11. QED
  BY <1>5, <1>6, <1>8, <1>9, <1>10
  DEF RowsFollowInvite, ReassignIsRecorded, Exists, Live, Past, Cur

\* ... and deleted with them, when nobody is updating them.
LEMMA DeleteKeepsInvite ==
    ASSUME TypeOK, TypeOK', RowsFollowInvite, NEW d \in Invites, DeleteInvite(d)
    PROVE  RowsFollowInvite'
<1>1. /\ UNCHANGED <<txn, moved, request>>
      /\ \A i \in Invites : invite'[i] = IF i = d THEN "deleted" ELSE invite[i]
  BY DEF DeleteInvite, TypeOK, RowsTypeOK, requestVars
<1>2. \A t \in Transfers :
        st'[t]["global"] = IF t[1] = d THEN "none" ELSE st[t]["global"]
  BY SubtaskNames DEF DeleteInvite
<1>3. /\ \A x \in txn : x.t \in Transfers /\ x.ty \in Subtasks
      /\ \A q \in request : q.i \in Invites /\ Cur(q) \in Transfers
      /\ moved \subseteq Transfers
  BY DEF TypeOK, RowsTypeOK, Update, RequestsTypeOK, Request, Cur, Transfers
<1>4. \A t \in Transfers : Exists(t)' <=> Live(t[1])'
  BY <1>1, <1>2, TransfersFacts DEF RowsFollowInvite, Exists, Live
<1>5. \A x \in txn : x.t[1] # d
  BY <1>3 DEF DeleteInvite, TransfersOf, AllFree, Free
<1>6. \A x \in txn' : Exists(x.t)'
  BY <1>1, <1>2, <1>3, <1>5 DEF RowsFollowInvite, Exists
<1>7. \A q \in request' : /\ q.pc # "create" => invite'[q.i] # "none"
                          /\ Past(q) => st'[Cur(q)]["global"] # "pending"
  BY <1>1, <1>2, <1>3 DEF RowsFollowInvite, Past
<1>8. \A t \in moved' : invite'[t[1]] # "none" /\ st'[t]["global"] # "pending"
  BY <1>1, <1>2, <1>3, TransfersFacts DEF RowsFollowInvite, ReassignIsRecorded
<1>9. QED
  BY <1>4, <1>6, <1>7, <1>8
  DEF RowsFollowInvite, ReassignIsRecorded, Exists, Live, Past, Cur

LEMMA RequestsKeepInvite ==
    ASSUME TypeOK, TypeOK', RowsFollowInvite, RequestNext
    PROVE  RowsFollowInvite'
<1>0. \A q \in request : /\ q.i \in Invites /\ Cur(q) \in Transfers
                         /\ q.pc # "create" => invite[q.i] # "none"
                         /\ Past(q) => st[Cur(q)]["global"] # "pending"
  BY RequestMoves DEF TypeOK, RowsFollowInvite, Past
<1>m. \A t \in moved : /\ t \in Transfers /\ invite[t[1]] # "none"
                       /\ st[t]["global"] # "pending"
  BY DEF TypeOK, RequestsTypeOK, RowsFollowInvite, ReassignIsRecorded
<1>x. \A x \in txn : Exists(x.t)
  BY DEF RowsFollowInvite
<1>rows. ASSUME UNCHANGED <<txn, moved>>,
                \A t \in Transfers :
                  /\ st'[t]["global"] = "none" <=> st[t]["global"] = "none"
                  /\ st'[t]["global"] = "pending" => st[t]["global"] = "pending",
                \A i \in Invites :
                  /\ invite'[i] = "none" <=> invite[i] = "none"
                  /\ invite'[i] = "deleted" <=> invite[i] = "deleted",
                \A q \in request' :
                  /\ q.pc # "create" => invite[q.i] # "none"
                  /\ Past(q) => st'[Cur(q)]["global"] # "pending"
         PROVE  RowsFollowInvite'
  BY <1>m, <1>x, <1>rows, InviteKept DEF Past
<1>1. CASE \E c \in Clients, i \in Invites : NewRequest(c, i)
  <2>1. PICK c \in Clients, i \in Invites : NewRequest(c, i)
    BY <1>1
  <2>2. UNCHANGED <<st, invite, txn, moved>>
    BY <2>1 DEF NewRequest, ValidateCreate, ValidateUpdate, rowVars
  <2>3. \A q \in request' :
          \/ q \in request
          \/ q.pc = "create"
          \/ q.pc = "save" /\ q.i = i /\ invite[i] = "pending"
    BY <2>1 DEF NewRequest, ValidateCreate, ValidateUpdate, Open
  <2>4. QED
    BY <1>0, <1>rows, <2>2, <2>3 DEF Past
<1>2. CASE \E r \in request : RequestStep(r) \/ TransferError(r) \/ WebCrash(r)
  <2>1. PICK r \in request : RequestStep(r) \/ TransferError(r) \/ WebCrash(r)
    BY <1>2
  <2>2. r.i \in Invites /\ Cur(r) \in Transfers
    BY <1>0
  <2>3. CASE CreateInvite(r)
    BY <2>3, CreateKeepsInvite
  <2>4. CASE SaveStatus(r)
    <3>1. /\ UNCHANGED <<st, txn, moved>>
          /\ r.pc = "save"
          /\ At(r, "loop") \/ Finish(r)
      BY <2>4 DEF SaveStatus
    <3>2. StatusSaved[r.act] \in InviteStatuses
      BY DEF StatusSaved, InviteStatuses, TypeOK, RequestsTypeOK, Request
    <3>3. \A i \in Invites : /\ invite'[i] = "none" <=> invite[i] = "none"
                             /\ invite'[i] = "deleted" <=> invite[i] = "deleted"
      BY <2>2, <2>4, <3>2 DEF SaveStatus, Live, InviteStatuses, TypeOK, RowsTypeOK
    <3>4. QED
      BY <1>rows, <3>1, <3>3, RequestKeepsInvite
  <2>5. CASE \E a \in Assets : CancelRows(r, a)
    <3>1. PICK a \in Assets : CancelRows(r, a)
      BY <2>5
    <3>2. UNCHANGED <<invite, txn, moved>> /\ a \in r.left
      BY <3>1 DEF CancelRows
    <3>3. <<r.i, a>> \in Transfers
      BY <3>2, RequestMoves DEF TypeOK
    <3>4. \A t \in Transfers :
            /\ st'[t]["global"] = "none" <=> st[t]["global"] = "none"
            /\ st'[t]["global"] = "pending" => st[t]["global"] = "pending"
      BY <3>1, <3>3, SubtaskNames DEF CancelRows, Exists, TypeOK, RowsTypeOK
    <3>5. \A q \in request' : q \in request \/ (q.pc = "loop" /\ q.i = r.i)
      BY <3>1 DEF CancelRows, TypeOK, RequestsTypeOK, Request
    <3>6. r.pc # "create"
      BY <3>1 DEF CancelRows
    <3>7. \A q \in request' : /\ q.pc # "create" => invite[q.i] # "none"
                              /\ Past(q) => st'[Cur(q)]["global"] # "pending"
      BY <1>0, <3>4, <3>5, <3>6 DEF Past
    <3>8. QED
      BY <1>rows, <3>2, <3>4, <3>7
  <2>6. CASE \E a \in Assets : CheckPending(r, a)
    <3>1. PICK a \in Assets : CheckPending(r, a)
      BY <2>6
    <3>2. UNCHANGED <<st, invite, txn, moved>> /\ r.pc = "loop"
      BY <3>1 DEF CheckPending, rowVars
    <3>3. \A q \in request' : q \in request \/ (q.pc = "begin" /\ q.i = r.i)
      BY <3>1 DEF CheckPending, Finish, TypeOK, RequestsTypeOK, Request
    <3>4. QED
      BY <1>0, <1>rows, <3>2, <3>3 DEF Past
  <2>7. CASE BeginTransfer(r) \/ FailTransfer(r)
    <3>1. /\ UNCHANGED <<txn, moved>> /\ r.pc \in {"begin", "fail"}
          /\ At(r, "reassign") \/ Finish(r)
      BY <2>7 DEF BeginTransfer, FailTransfer
    <3>2. CASE ~Exists(Cur(r))
      <4>1. UNCHANGED <<st, invite>> /\ Finish(r)
        BY <2>7, <3>2 DEF BeginTransfer, FailTransfer
      <4>2. QED
        BY <1>rows, <3>1, <4>1, RequestKeepsInvite
    <3>3. CASE Exists(Cur(r))
      <4>1. PICK v \in {"in_progress", "failed"} : SetGlobal(Cur(r), v, st)
        BY <2>7, <3>3 DEF BeginTransfer, FailTransfer
      <4>2. v \in TransferStatuses \ {"pending"}
        BY DEF TransferStatuses
      <4>3. /\ \A u \in Transfers :
                 st'[u]["global"] = IF u = Cur(r) THEN v ELSE st[u]["global"]
            /\ \A i \in Invites :
                 /\ invite'[i] = "none" <=> invite[i] = "none"
                 /\ invite'[i] = "deleted" <=> invite[i] = "deleted"
        BY <2>2, <3>3, <4>1, <4>2, SetGlobalKeepsRows DEF TypeOK, RowsTypeOK
      <4>4. /\ \A t \in Transfers :
                 /\ st'[t]["global"] = "none" <=> st[t]["global"] = "none"
                 /\ st'[t]["global"] = "pending" => st[t]["global"] = "pending"
            /\ st'[Cur(r)]["global"] # "pending"
        BY <2>2, <3>3, <4>3 DEF Exists
      <4>5. QED
        BY <1>rows, <3>1, <4>3, <4>4, RequestKeepsInvite
    <3>4. QED
      BY <3>2, <3>3
  <2>8. CASE ReassignProject(r)
    <3>1. /\ UNCHANGED <<invite, txn>> /\ r.pc = "reassign"
          /\ moved' = moved \cup {Cur(r)}
          /\ At(r, "submissions") \/ At(r, "media_files")
      BY <2>8 DEF ReassignProject
    <3>2. \A t \in Transfers : st'[t]["global"] = st[t]["global"]
      BY <2>2, <2>8, SubtaskNames DEF ReassignProject, TypeOK, RowsTypeOK
    <3>3. invite[r.i] # "none" /\ st[Cur(r)]["global"] # "pending"
      BY <1>0, <3>1 DEF Past
    <3>4. \A q \in request' : /\ q.pc # "create" => invite[q.i] # "none"
                              /\ Past(q) => st'[Cur(q)]["global"] # "pending"
      BY <2>2, <3>1, <3>2, <3>3, RequestKeepsInvite
    <3>5. \A t \in moved' : invite[t[1]] # "none" /\ st'[t]["global"] # "pending"
      BY <1>m, <2>2, <3>1, <3>2, <3>3 DEF Cur
    <3>6. QED
      BY <1>x, <3>1, <3>2, <3>4, <3>5, InviteKept DEF Past
  <2>9. CASE DelayTask(r) \/ TransferError(r)
    <3>1. /\ UNCHANGED <<st, invite, txn, moved>> /\ Past(r)
          /\ At(r, "media_files") \/ At(r, "loop") \/ At(r, "fail")
      BY <2>9 DEF DelayTask, TransferError, rowVars, Past
    <3>2. st'[Cur(r)]["global"] # "pending" /\ r.pc # "create"
      BY <1>0, <3>1 DEF Past
    <3>3. QED
      BY <1>rows, <3>1, <3>2, RequestKeepsInvite
  <2>10. CASE EndRequest(r) \/ WebCrash(r)
    <3>1. UNCHANGED <<st, invite, txn, moved>> /\ Finish(r)
      BY <2>10 DEF EndRequest, WebCrash, rowVars
    <3>2. QED
      BY <1>0, <1>rows, <3>1 DEF Finish
  <2>11. QED
    BY <2>1, <2>3, <2>4, <2>5, <2>6, <2>7, <2>8, <2>9, <2>10 DEF RequestStep
<1>3. CASE ScanExpired \/ WriteExpired \/ (\E a \in Assets : TrashAsset(a))
  <2>1. UNCHANGED <<st, txn, moved, request>>
    BY <1>3 DEF ScanExpired, WriteExpired, TrashAsset, rowVars, requestVars
  <2>2. \A i \in Invites : /\ invite'[i] = "none" <=> invite[i] = "none"
                           /\ invite'[i] = "deleted" <=> invite[i] = "deleted"
    BY <1>3 DEF ScanExpired, WriteExpired, TrashAsset, Live, rowVars
  <2>3. QED
    BY <1>0, <1>rows, <2>1, <2>2
<1>4. CASE \E i \in Invites : DeleteInvite(i)
  BY <1>4, DeleteKeepsInvite
<1>5. QED
  BY <1>1, <1>2, <1>3, <1>4 DEF RequestNext

\* The rows of a transfer are there exactly while its invite is.
THEOREM InviteHasRows == Spec => []RowsFollowInvite
<1>1. Init => RowsFollowInvite
  BY SubtaskNames, TransfersFacts
  DEF Init, RowsInit, TasksInit, RequestsInit, RowsFollowInvite, Exists, Live,
      ReassignIsRecorded
<1>2. TypeOK /\ TypeOK' /\ RowsFollowInvite /\ [Next]_vars => RowsFollowInvite'
  <2> SUFFICES ASSUME TypeOK, TypeOK', RowsFollowInvite, [Next]_vars
               PROVE  RowsFollowInvite'
    OBVIOUS
  <2>1. CASE TaskNext /\ UNCHANGED requestVars
    BY <2>1, TaskKeepsInvite
  <2>2. CASE RequestNext
    BY <2>2, RequestsKeepInvite
  <2>3. CASE UNCHANGED vars
    BY <2>3, InviteKeptByTask DEF vars, rowVars, taskVars, RowsFollowInvite
  <2>4. QED
    BY <2>1, <2>2, <2>3 DEF Next
<1>3. QED
  BY <1>1, <1>2, TypeCorrect, PTL DEF Spec

\* No project is reassigned by a transfer that still looks PENDING.
THEOREM ReassignLeavesPending == Spec => []ReassignIsRecorded
<1>1. RowsFollowInvite => ReassignIsRecorded
  BY DEF RowsFollowInvite
<1>2. QED
  BY <1>1, InviteHasRows, PTL

----------------------------------------------------------------------------
(* 6. The refinement: what each step is a step of, in TransferContract. *)

LEMMA ContractNames ==
    /\ Contract!Transfers = Transfers
    /\ Contract!Subtasks = Subtasks
    /\ \A i : Contract!TransfersOf(i) = TransfersOf(i)
    /\ \A t : Contract!Required(t) = Required(t)
  BY DEF Contract!Transfers, Contract!Subtasks, Contract!TransfersOf,
         Contract!Required, Transfers, Subtasks, TransfersOf, Required

\* What is reported, of all transfers.
Reports == [t \in Transfers |-> st[t]["global"]]

LEMMA ContractStutters ==
    ASSUME UNCHANGED <<invite, done, moved>>,
           \A t \in Transfers : st'[t]["global"] = st[t]["global"]
    PROVE  UNCHANGED Contract!vars
  BY DEF Contract!vars

\* Writing the GLOBAL row with its invite reports the transfer.
LEMMA SetGlobalReports ==
    ASSUME TypeOK, RowsFollowInvite, UNCHANGED <<done, moved>>,
           NEW t \in Transfers, Exists(t),
           NEW v \in {"in_progress", "failed", "success"},
           v = "success" => Required(t) \subseteq done[t],
           NEW rows \in [Transfers -> [StatusTypes -> TransferStatuses \cup {"none"}]],
           \A u \in Transfers : rows[u]["global"] = st[u]["global"],
           SetGlobal(t, v, rows)
    PROVE  Contract!Next
<1> DEFINE after == [rows EXCEPT ![t]["global"] = v]
<1>1. v \in TransferStatuses \ {"pending"}
  BY DEF TransferStatuses
<1>2. \A u \in Transfers :
        st'[u]["global"] = IF u = t THEN v ELSE st[u]["global"]
  BY <1>1, SetGlobalKeepsRows
<1>3. Reports' = [Reports EXCEPT ![t] = v]
  BY <1>2 DEF Reports
<1>4. /\ st' = after
      /\ invite' = [invite EXCEPT ![t[1]] = InviteAfter(t[1], after)]
  BY DEF SetGlobal
<1>5. \A u \in TransfersOf(t[1]) : after[u]["global"] = Reports'[u]
  BY <1>4 DEF Reports, TransfersOf
<1> HIDE DEF after
<1>6. invite' = [invite EXCEPT ![t[1]] =
                   IF \E u \in TransfersOf(t[1]) : Reports'[u] = "failed" THEN "failed"
                   ELSE IF \A u \in TransfersOf(t[1]) : Reports'[u] = "success"
                   THEN "complete"
                   ELSE IF invite[t[1]] = "pending" THEN "in_progress"
                   ELSE invite[t[1]]]
  BY <1>4, <1>5 DEF InviteAfter
<1>7. Reports[t] # "none"
  BY DEF Reports, Exists
<1>8. Contract!Report(t, v)
  BY <1>3, <1>6, <1>7, ContractNames DEF Contract!Report, Reports
<1>9. QED
  BY <1>8, ContractNames DEF Contract!Next

LEMMA CommitReports ==
    ASSUME TypeOK, WorkRecorded, RowsFollowInvite, UNCHANGED <<done, moved>>,
           NEW x \in txn, CommitUpdate(x)
    PROVE  [Contract!Next]_(Contract!vars)
<1> DEFINE written == [st EXCEPT ![x.t][x.ty] = x.val]
<1>1. /\ x.t \in Transfers /\ Exists(x.t)
      /\ x.out \in {"none", "success", "failed"}
      /\ x.out = "success" => Required(x.t) \subseteq done[x.t]
  BY DEF TypeOK, RowsTypeOK, Update, RowsFollowInvite, WorkRecorded
<1>2. /\ written \in [Transfers -> [StatusTypes -> TransferStatuses \cup {"none"}]]
      /\ \A u \in Transfers : written[u]["global"] = st[u]["global"]
  BY WrittenRows
<1>3. CASE x.out = "none"
  BY <1>2, <1>3, ContractStutters DEF CommitUpdate
<1>4. CASE x.out # "none"
  <2>1. SetGlobal(x.t, x.out, written)
    BY <1>4 DEF CommitUpdate
  <2>2. x.out \in {"in_progress", "failed", "success"}
    BY <1>1, <1>4
  <2> HIDE DEF written
  <2>3. QED
    BY <1>1, <1>2, <2>1, <2>2, SetGlobalReports
<1>5. QED
  BY <1>3, <1>4

\* A task reports what its transaction decided, and its work once it is done:
\* the project has been moved before.
LEMMA TasksImplement ==
    ASSUME TypeOK, WorkRecorded, ReassignComesFirst, RowsFollowInvite,
           TaskNext, UNCHANGED requestVars
    PROVE  [Contract!Next]_(Contract!vars)
<1>0. UNCHANGED moved
  BY DEF requestVars
<1>quiet. ASSUME UNCHANGED <<st, invite, done>>
          PROVE  [Contract!Next]_(Contract!vars)
  BY <1>0, <1>quiet, ContractStutters
<1>work. ASSUME NEW j \in job, Finished(j)
         PROVE  [Contract!Next]_(Contract!vars)
  <2>1. j.t \in Transfers /\ j.ty \in Subtasks /\ j.t \in moved
    BY JobMoves DEF TypeOK, TasksTypeOK, ReassignComesFirst, TasksFollowReassign
  <2>2. Contract!Work(j.t, j.ty)
    BY <1>0, <1>work, <2>1 DEF Finished, rowVars, Contract!Work
  <2>3. QED
    BY <2>1, <2>2, ContractNames DEF Contract!Next
<1>1. ASSUME NEW j \in job, TaskStep(j) \/ TaskFault(j)
      PROVE  [Contract!Next]_(Contract!vars)
  <2>1. CASE BeginTask(j) \/ KilledHandler(j)
    <3>1. j.t \in Transfers /\ j.ty \in Subtasks
      BY JobMoves DEF TypeOK, TasksTypeOK
    <3>2. KeepInProgress(j.t, j.ty) /\ UNCHANGED done
      BY <2>1 DEF BeginTask, KilledHandler
    <3>3. QED
      BY <1>0, <3>1, <3>2, KeepInProgressKeepsRows, ContractStutters
  <2>2. CASE RewriteSubmissions(j) \/ MoveAttachments(j) \/ MoveMediaFiles(j)
    <3>1. CASE CannotFinish(j)
      BY <3>1, <1>quiet DEF CannotFinish, rowVars
    <3>2. QED
      BY <2>2, <3>1, <1>work
      DEF RewriteSubmissions, MoveAttachments, MoveMediaFiles
  <2>3. CASE CommitTask(j)
    <3>1. PICK x \in txn : CommitUpdate(x)
      BY <2>3 DEF CommitTask
    <3>2. QED
      BY <1>0, <2>3, <3>1, CommitReports DEF CommitTask
  <2>4. CASE \/ MarkSuccessful(j) \/ MarkFailed(j) \/ ChainAttachments(j)
             \/ RowVanished(j) \/ TaskFault(j)
    BY <2>4, <1>quiet
    DEF MarkSuccessful, MarkFailed, BeginUpdate, ChainAttachments, RowVanished,
        TaskFault, TaskError, CannotFinish, SoftTimeout, Killed, ContainerCrash,
        rowVars
  <2>5. QED
    BY <1>1, <2>1, <2>2, <2>3, <2>4 DEF TaskStep
<1>2. CASE \E x \in txn : CommitStuck(x)
  <2>1. PICK x \in txn : CommitStuck(x)
    BY <1>2
  <2>2. QED
    BY <1>0, <2>1, CommitReports DEF CommitStuck
<1>3. CASE \/ \E w \in Workers, m \in Messages : StartTask(w, m[1], m[2])
           \/ \E i \in Invites : Age(i)
           \/ ScanStuck
           \/ \E m \in Messages : MarkStuck(m[1], m[2])
           \/ AbandonStuck
           \/ \E m \in Messages : Reschedule(m[1], m[2])
  BY <1>3, <1>quiet
  DEF StartTask, Age, ScanStuck, MarkStuck, BeginUpdate, AbandonStuck, Reschedule,
      rowVars
<1>4. QED
  BY <1>1, <1>2, <1>3 DEF TaskNext, StuckStep

\* A bulk or single reply to live invites.
LEMMA RepliesImplement ==
    ASSUME TypeOK, UNCHANGED <<st, done, moved>>, NEW S \in SUBSET Invites,
           NEW s \in {"in_progress", "declined", "cancelled", "expired"},
           \A i \in S : Live(i),
           invite' = [i \in Invites |-> IF i \in S THEN s ELSE invite[i]]
    PROVE  Contract!Next
<1>1. Contract!Reply(S, s)
  BY DEF Contract!Reply, Live
<1>2. QED
  BY <1>1 DEF Contract!Next

\* A request offers, answers, begins, moves, cancels or fails; the other writers
\* answer for the recipient or remove the invite.
LEMMA RequestsImplement ==
    ASSUME TypeOK, RowsFollowInvite, RequestNext
    PROVE  [Contract!Next]_(Contract!vars)
<1>0. UNCHANGED done
  BY DEF RequestNext, NewRequest, ValidateCreate, ValidateUpdate, RequestStep,
         CreateInvite, SaveStatus, CancelRows, CheckPending, BeginTransfer,
         ReassignProject, DelayTask, FailTransfer, EndRequest, TransferError,
         WebCrash, ScanExpired, WriteExpired, DeleteInvite, TrashAsset, taskVars
<1>quiet. ASSUME UNCHANGED <<st, invite, moved>>
          PROVE  [Contract!Next]_(Contract!vars)
  BY <1>0, <1>quiet, ContractStutters
<1>1. CASE \E c \in Clients, i \in Invites : NewRequest(c, i)
  BY <1>1, <1>quiet DEF NewRequest, ValidateCreate, ValidateUpdate, rowVars
<1>2. CASE \E r \in request : RequestStep(r) \/ TransferError(r) \/ WebCrash(r)
  <2>1. PICK r \in request : RequestStep(r) \/ TransferError(r) \/ WebCrash(r)
    BY <1>2
  <2>2. r.i \in Invites /\ Cur(r) \in Transfers
    BY RequestMoves DEF TypeOK
  <2>3. CASE CreateInvite(r)
    <3>1. /\ invite[r.i] = "none" /\ UNCHANGED moved
          /\ invite' = [invite EXCEPT ![r.i] = "pending"]
      BY <2>2, <2>3, RowsAssumption DEF CreateInvite
    <3>2. Reports' = [t \in Transfers |-> IF t[1] = r.i THEN "pending" ELSE Reports[t]]
      BY <2>3, SubtaskNames DEF CreateInvite, Reports
    <3>3. Contract!Offer(r.i)
      BY <1>0, <3>1, <3>2, ContractNames DEF Contract!Offer, Reports
    <3>4. QED
      BY <2>2, <3>3 DEF Contract!Next
  <2>4. CASE SaveStatus(r)
    <3>1. CASE Live(r.i)
      <4>1. /\ UNCHANGED <<st, moved>>
            /\ invite' = [invite EXCEPT ![r.i] = StatusSaved[r.act]]
        BY <2>4, <3>1 DEF SaveStatus
      <4> DEFINE S == {r.i}
                 s == StatusSaved[r.act]
      <4>2. s \in {"in_progress", "declined", "cancelled", "expired"}
        BY DEF StatusSaved, TypeOK, RequestsTypeOK, Request
      <4>3. invite' = [i \in Invites |-> IF i \in S THEN s ELSE invite[i]]
        BY <4>1 DEF TypeOK, RowsTypeOK
      <4>4. S \in SUBSET Invites /\ \A i \in S : Live(i)
        BY <2>2, <3>1
      <4> HIDE DEF S, s
      <4>5. QED
        BY <1>0, <4>1, <4>2, <4>3, <4>4, RepliesImplement
    <3>2. CASE ~Live(r.i)
      BY <1>quiet, <2>4, <3>2 DEF SaveStatus
    <3>3. QED
      BY <3>1, <3>2
  <2>5. CASE \E a \in Assets : CancelRows(r, a)
    <3>1. PICK a \in Assets : CancelRows(r, a)
      BY <2>5
    <3> DEFINE t == <<r.i, a>>
    <3>2. t \in Transfers /\ UNCHANGED <<invite, moved>>
      BY <3>1, RequestMoves DEF CancelRows, TypeOK
    <3>3. CASE ~Exists(t)
      BY <1>quiet, <3>1, <3>2, <3>3 DEF CancelRows
    <3>4. CASE Exists(t)
      <4>1. st' = [st EXCEPT ![t] = [ty \in StatusTypes |-> "cancelled"]]
        BY <3>1, <3>4 DEF CancelRows
      <4> HIDE DEF t
      <4>2. Reports' = [Reports EXCEPT ![t] = "cancelled"]
        BY <3>2, <4>1, SubtaskNames DEF Reports, TypeOK, RowsTypeOK
      <4>3. Contract!Cancel(t)
        BY <1>0, <3>2, <3>4, <4>2 DEF Contract!Cancel, Reports, Exists
      <4>4. QED
        BY <3>2, <4>3, ContractNames DEF Contract!Next
    <3>5. QED
      BY <3>3, <3>4
  <2>6. CASE BeginTransfer(r) \/ FailTransfer(r)
    <3>1. UNCHANGED moved
      BY <2>6 DEF BeginTransfer, FailTransfer
    <3>2. CASE ~Exists(Cur(r))
      BY <1>quiet, <2>6, <3>1, <3>2 DEF BeginTransfer, FailTransfer
    <3>3. CASE Exists(Cur(r))
      <4>1. PICK v \in {"in_progress", "failed"} : SetGlobal(Cur(r), v, st)
        BY <2>6, <3>3 DEF BeginTransfer, FailTransfer
      <4>2. QED
        BY <1>0, <2>2, <3>1, <3>3, <4>1, SetGlobalReports DEF TypeOK, RowsTypeOK
    <3>4. QED
      BY <3>2, <3>3
  <2>7. CASE ReassignProject(r)
    <3>1. /\ UNCHANGED invite /\ r.pc = "reassign"
          /\ moved' = moved \cup {Cur(r)}
      BY <2>7 DEF ReassignProject
    <3>2. \A t \in Transfers : st'[t]["global"] = st[t]["global"]
      BY <2>2, <2>7, SubtaskNames DEF ReassignProject, TypeOK, RowsTypeOK
    <3>3. Reports' = Reports /\ Reports[Cur(r)] # "pending"
      BY <2>2, <3>1, <3>2 DEF Reports, RowsFollowInvite
    <3>4. Contract!Move(Cur(r))
      BY <1>0, <3>1, <3>3 DEF Contract!Move, Reports
    <3>5. QED
      BY <2>2, <3>4, ContractNames DEF Contract!Next
  <2>8. CASE \/ \E a \in Assets : CheckPending(r, a)
             \/ DelayTask(r) \/ EndRequest(r) \/ TransferError(r) \/ WebCrash(r)
    BY <1>quiet, <2>8
    DEF CheckPending, DelayTask, EndRequest, TransferError, WebCrash, rowVars
  <2>9. QED
    BY <2>1, <2>3, <2>4, <2>5, <2>6, <2>7, <2>8 DEF RequestStep
<1>3. CASE ScanExpired
  BY <1>3, <1>quiet DEF ScanExpired, rowVars
<1>4. CASE WriteExpired
  <2> DEFINE S == {i \in Invites : i \in expiring /\ Live(i)}
  <2>1. invite' = [i \in Invites |-> IF i \in S THEN "expired" ELSE invite[i]]
    BY <1>4 DEF WriteExpired
  <2>2. S \in SUBSET Invites /\ \A i \in S : Live(i)
    OBVIOUS
  <2>3. UNCHANGED <<st, moved>>
    BY <1>4 DEF WriteExpired
  <2> HIDE DEF S
  <2>4. QED
    BY <1>0, <2>1, <2>2, <2>3, RepliesImplement
<1>5. CASE \E a \in Assets : TrashAsset(a)
  <2>1. PICK a \in Assets : TrashAsset(a)
    BY <1>5
  <2> DEFINE S == {i \in Invites : invite[i] = "pending" /\ a \in Scope[i]}
  <2>2. invite' = [i \in Invites |-> IF i \in S THEN "cancelled" ELSE invite[i]]
    BY <2>1 DEF TrashAsset
  <2>3. S \in SUBSET Invites /\ \A i \in S : Live(i)
    BY DEF Live
  <2>4. UNCHANGED <<st, moved>>
    BY <2>1 DEF TrashAsset, requestVars
  <2> HIDE DEF S
  <2>5. QED
    BY <1>0, <2>2, <2>3, <2>4, RepliesImplement
<1>6. CASE \E i \in Invites : DeleteInvite(i)
  <2>1. PICK i \in Invites : DeleteInvite(i)
    BY <1>6
  <2>2. Reports' = [t \in Transfers |-> IF t[1] = i THEN "none" ELSE Reports[t]]
    BY <2>1, SubtaskNames DEF DeleteInvite, Reports
  <2>3. Contract!Forget(i)
    BY <1>0, <2>1, <2>2, ContractNames
    DEF DeleteInvite, Contract!Forget, Reports, Live, requestVars
  <2>4. QED
    BY <2>3 DEF Contract!Next
<1>7. QED
  BY <1>1, <1>2, <1>3, <1>4, <1>5, <1>6 DEF RequestNext

\* The rows, transactions, tasks and requests of a transfer keep its contract.
THEOREM ContractIsKept == Spec => KeepsContract
<1>1. Init => Contract!Init
  BY SubtaskNames, ContractNames
  DEF Init, RowsInit, TasksInit, RequestsInit, Contract!Init
<1>2. /\ TypeOK /\ WorkRecorded /\ ReassignComesFirst /\ RowsFollowInvite
      /\ [Next]_vars
      => [Contract!Next]_(Contract!vars)
  <2> SUFFICES ASSUME TypeOK, WorkRecorded, ReassignComesFirst, RowsFollowInvite,
                      [Next]_vars
               PROVE  [Contract!Next]_(Contract!vars)
    OBVIOUS
  <2>1. CASE TaskNext /\ UNCHANGED requestVars
    BY <2>1, TasksImplement
  <2>2. CASE RequestNext
    BY <2>2, RequestsImplement
  <2>3. CASE UNCHANGED vars
    BY <2>3, ContractStutters DEF vars, rowVars, taskVars, requestVars
  <2>4. QED
    BY <2>1, <2>2, <2>3 DEF Next
<1>3. QED
  BY <1>1, <1>2, TypeCorrect, WorkIsRecorded, ReassignIsFirst, InviteHasRows, PTL
  DEF Spec, KeepsContract, Contract!Spec

----------------------------------------------------------------------------
(* 7. BegunOnce: no transfer of an uncontested invite is begun twice. *)

\* Writing the GLOBAL row offers nothing again, and completes or leaves COMPLETE
\* an invite only with all its transfers.
LEMMA SetGlobalSettles ==
    ASSUME TypeOK, RowsFollowInvite, CompleteMeansSuccess, UNCHANGED contested,
           NEW t \in Transfers, Exists(t),
           NEW v \in {"in_progress", "success", "failed"},
           v = "in_progress" /\ t[1] \notin contested => st[t]["global"] # "success",
           NEW rows \in [Transfers -> [StatusTypes -> TransferStatuses \cup {"none"}]],
           \A u \in Transfers : rows[u]["global"] = st[u]["global"],
           SetGlobal(t, v, rows)
    PROVE  /\ \A u \in Transfers :
                st'[u]["global"] = IF u = t THEN v ELSE st[u]["global"]
           /\ \A i \in Invites : invite'[i] = "pending" => invite[i] = "pending"
           /\ invite'[t[1]] # "pending"
           /\ CompleteMeansSuccess'
<1> DEFINE after == [rows EXCEPT ![t]["global"] = v]
<1>1. v \in TransferStatuses \ {"pending"}
  BY DEF TransferStatuses
<1>2. \A u \in Transfers :
        st'[u]["global"] = IF u = t THEN v ELSE st[u]["global"]
  BY <1>1, SetGlobalKeepsRows
<1>3. st' = after /\ invite' = [invite EXCEPT ![t[1]] = InviteAfter(t[1], after)]
  BY DEF SetGlobal
<1> HIDE DEF after
<1>4. InviteAfter(t[1], after) # "pending"
  BY DEF InviteAfter
<1>5. \A i \in Invites :
        invite'[i] = IF i = t[1] THEN InviteAfter(t[1], after) ELSE invite[i]
  BY <1>3, TransfersFacts DEF TypeOK, RowsTypeOK
<1>6. ASSUME NEW i \in Invites \ contested, invite'[i] = "complete",
             NEW u \in TransfersOf(i)
      PROVE  st'[u]["global"] = "success"
  <2>1. u \in Transfers /\ u[1] = i
    BY DEF TransfersOf
  <2>2. CASE i # t[1]
    BY <1>2, <1>5, <1>6, <2>1, <2>2 DEF CompleteMeansSuccess
  <2>3. CASE i = t[1]
    <3>1. InviteAfter(t[1], after) = "complete"
      BY <1>5, <1>6, <2>3
    <3>2. CASE \A w \in TransfersOf(t[1]) : after[w]["global"] = "success"
      BY <1>3, <2>3, <3>2
    <3>3. CASE ~ \A w \in TransfersOf(t[1]) : after[w]["global"] = "success"
      <4>1. /\ invite[t[1]] = "complete"
            /\ \A w \in TransfersOf(t[1]) : after[w]["global"] # "failed"
        BY <3>1, <3>3 DEF InviteAfter
      <4>2. \A w \in TransfersOf(t[1]) : st[w]["global"] = "success"
        BY <2>3, <4>1 DEF CompleteMeansSuccess
      <4>3. t \in TransfersOf(t[1])
        BY DEF TransfersOf
      <4>4. v # "failed" /\ v # "in_progress"
        BY <1>2, <1>3, <2>3, <4>1, <4>2, <4>3
      <4>5. QED
        BY <1>2, <2>1, <2>3, <4>2, <4>4
    <3>4. QED
      BY <3>2, <3>3
  <2>4. QED
    BY <2>2, <2>3
<1>7. CompleteMeansSuccess'
  BY <1>6 DEF CompleteMeansSuccess, TransfersOf
<1>8. QED
  BY <1>2, <1>4, <1>5, <1>7, TransfersFacts

\* A step of a task, which writes the GLOBAL rows of moved projects only.
LEMMA OnceKeptByTask ==
    ASSUME TypeOK, BegunOnce, UNCHANGED requestVars,
           \A t \in Transfers : st'[t]["global"] = st[t]["global"] \/ t \in moved,
           \A i \in Invites : invite'[i] = "pending" => invite[i] = "pending",
           \A m \in stuck' : m[1] \in moved,
           \A x \in txn' : x.t \in moved,
           CompleteMeansSuccess'
    PROVE  BegunOnce'
<1>1. UNCHANGED <<request, moved, contested>>
  BY DEF requestVars
<1>2. \A r \in request : /\ r.i \in Invites
                         /\ Ahead(r) \subseteq Transfers
  BY RequestMoves DEF Ahead, TypeOK
<1>3. PendingIsUntouched'
  BY <1>1 DEF BegunOnce, PendingIsUntouched, TransfersOf
<1>4. OneRequestBegins'
  BY <1>1, <1>2 DEF BegunOnce, OneRequestBegins, Ahead, Cur
<1>5. QED
  BY <1>1, <1>3, <1>4 DEF BegunOnce

LEMMA CommitSettles ==
    ASSUME TypeOK, RowsFollowInvite, BegunOnce, UNCHANGED <<requestVars, stuck>>,
           NEW x \in txn, CommitUpdate(x)
    PROVE  BegunOnce'
<1> DEFINE written == [st EXCEPT ![x.t][x.ty] = x.val]
<1>1. /\ x.t \in Transfers /\ Exists(x.t) /\ x.t \in moved
      /\ x.out \in {"none", "success", "failed"}
  BY DEF TypeOK, RowsTypeOK, Update, RowsFollowInvite, BegunOnce
<1>2. /\ written \in [Transfers -> [StatusTypes -> TransferStatuses \cup {"none"}]]
      /\ \A u \in Transfers : written[u]["global"] = st[u]["global"]
  BY WrittenRows
<1>3. /\ \A m \in stuck' : m[1] \in moved
      /\ \A y \in txn' : y.t \in moved
      /\ UNCHANGED contested
      /\ CompleteMeansSuccess
  BY DEF CommitUpdate, BegunOnce, requestVars
<1>4. CASE x.out = "none"
  <2>1. UNCHANGED invite /\ \A u \in Transfers : st'[u]["global"] = st[u]["global"]
    BY <1>2, <1>4 DEF CommitUpdate
  <2>2. CompleteMeansSuccess'
    BY <1>3, <2>1 DEF CompleteMeansSuccess, TransfersOf
  <2>3. QED
    BY <1>3, <2>1, <2>2, OnceKeptByTask
<1>5. CASE x.out # "none"
  <2>1. SetGlobal(x.t, x.out, written)
    BY <1>5 DEF CommitUpdate
  <2>2. x.out \in {"in_progress", "success", "failed"} /\ x.out # "in_progress"
    BY <1>1, <1>5
  <2> HIDE DEF written
  <2>3. /\ \A u \in Transfers :
             st'[u]["global"] = IF u = x.t THEN x.out ELSE st[u]["global"]
        /\ \A i \in Invites : invite'[i] = "pending" => invite[i] = "pending"
        /\ CompleteMeansSuccess'
    BY <1>1, <1>2, <1>3, <2>1, <2>2, SetGlobalSettles
  <2>4. QED
    BY <1>1, <1>3, <2>3, OnceKeptByTask
<1>6. QED
  BY <1>4, <1>5

LEMMA TaskKeepsOnce ==
    ASSUME TypeOK, ReassignComesFirst, RowsFollowInvite, BegunOnce,
           TaskNext, UNCHANGED requestVars
    PROVE  BegunOnce'
<1>0. /\ \A j \in job : j.t \in Transfers /\ j.ty \in Subtasks /\ j.t \in moved
      /\ \A x \in txn : x.t \in moved
      /\ \A m \in stuck : m[1] \in moved
      /\ UNCHANGED contested
  BY JobMoves DEF TypeOK, TasksTypeOK, ReassignComesFirst, TasksFollowReassign,
                  BegunOnce, requestVars
<1>rows. ASSUME UNCHANGED invite,
                \A t \in Transfers : st'[t]["global"] = st[t]["global"],
                \A m \in stuck' : m[1] \in moved,
                \A x \in txn' : x.t \in moved
         PROVE  BegunOnce'
  <2>1. CompleteMeansSuccess'
    BY <1>0, <1>rows DEF BegunOnce, CompleteMeansSuccess, TransfersOf
  <2>2. QED
    BY <1>rows, <2>1, OnceKeptByTask
<1>1. ASSUME NEW j \in job, TaskStep(j) \/ TaskFault(j)
      PROVE  BegunOnce'
  <2>1. CASE BeginTask(j) \/ KilledHandler(j)
    <3>1. KeepInProgress(j.t, j.ty) /\ UNCHANGED stuck
      BY <2>1 DEF BeginTask, KilledHandler
    <3>2. QED
      BY <1>0, <1>rows, <3>1, KeepInProgressKeepsRows
  <2>2. CASE MarkSuccessful(j) \/ MarkFailed(j)
    BY <1>0, <1>rows, <2>2 DEF MarkSuccessful, MarkFailed, BeginUpdate
  <2>3. CASE CommitTask(j)
    BY <2>3, CommitSettles DEF CommitTask
  <2>4. CASE \/ RewriteSubmissions(j) \/ MoveAttachments(j) \/ MoveMediaFiles(j)
             \/ ChainAttachments(j) \/ RowVanished(j) \/ TaskFault(j)
    <3>1. UNCHANGED <<st, invite, stuck>> /\ txn' \subseteq txn
      BY <2>4
      DEF RewriteSubmissions, MoveAttachments, MoveMediaFiles, Finished,
          CannotFinish, ChainAttachments, RowVanished, TaskFault, TaskError,
          SoftTimeout, Killed, ContainerCrash, Rollback, rowVars
    <3>2. QED
      BY <1>0, <1>rows, <3>1
  <2>5. QED
    BY <1>1, <2>1, <2>2, <2>3, <2>4 DEF TaskStep
<1>2. CASE ScanStuck
  <2>1. \A m \in stuck' : m[1] \in moved
    BY <1>2 DEF ScanStuck, StuckRows, Messages, ReassignComesFirst
  <2>2. QED
    BY <1>0, <1>2, <1>rows, <2>1 DEF ScanStuck, rowVars
<1>3. CASE \E m \in Messages : MarkStuck(m[1], m[2])
  <2>1. PICK m \in Messages : MarkStuck(m[1], m[2])
    BY <1>3
  <2>2. m[1] \in moved
    BY <1>0, <2>1 DEF MarkStuck
  <2>3. QED
    BY <1>0, <1>rows, <2>1, <2>2 DEF MarkStuck, BeginUpdate
<1>4. CASE \E x \in txn : CommitStuck(x)
  BY <1>4, CommitSettles DEF CommitStuck
<1>5. CASE \/ \E w \in Workers, m \in Messages : StartTask(w, m[1], m[2])
           \/ \E i \in Invites : Age(i)
           \/ AbandonStuck
           \/ \E m \in Messages : Reschedule(m[1], m[2])
  <2>1. UNCHANGED <<st, invite>> /\ stuck' \subseteq stuck /\ txn' \subseteq txn
    BY <1>5 DEF StartTask, Age, AbandonStuck, Reschedule, Rollback, rowVars
  <2>2. QED
    BY <1>0, <1>rows, <2>1
<1>6. QED
  BY <1>1, <1>2, <1>3, <1>4, <1>5 DEF TaskNext, StuckStep

\* A request that becomes `next`, or ends, with no more ahead of it than before.
LEMMA OnceKeptByRequest ==
    ASSUME TypeOK, TypeOK', BegunOnce, NEW r \in request, NEW next,
           \/ request' = (request \ {r}) \cup {next}
           \/ request' = request \ {r},
           UNCHANGED <<contested, txn, stuck>>, moved \subseteq moved',
           next.i = r.i,
           next.pc \notin {"create", "save"} => invite'[r.i] # "pending",
           next.pc \in {"begin", "reassign"} => next.cur \notin next.left,
           Ahead(next) \subseteq Ahead(r),
           \A t \in Ahead(next) :
             r.i \notin contested =>
               t \notin moved' /\ st'[t]["global"] \in {"pending", "none"},
           \A t \in Transfers : t[1] # r.i =>
             /\ t \in moved' => t \in moved
             /\ st'[t]["global"] = st[t]["global"],
           \A i \in Invites : invite'[i] = "pending" =>
             /\ invite[i] = "pending"
             /\ i = r.i => \A t \in TransfersOf(i) :
                             st'[t]["global"] = "pending" /\ t \notin moved',
           CompleteMeansSuccess'
    PROVE  BegunOnce'
<1>1. \A q \in request : /\ q.i \in Invites /\ Ahead(q) \subseteq Transfers
                         /\ \A t \in Ahead(q) : t[1] = q.i
  BY DEF Ahead, Cur, Transfers, TypeOK, RequestsTypeOK, Request
<1>2. \A q \in request' : q = next \/ (q \in request /\ q # r)
  OBVIOUS
<1>3. PendingIsUntouched'
  BY DEF BegunOnce, PendingIsUntouched, TransfersOf
<1>4. \A q \in request' : q.pc \notin {"create", "save"} => invite'[q.i] # "pending"
  BY <1>1, <1>2 DEF BegunOnce, OneRequestBegins
<1>5. \A q \in request' : q.pc \in {"begin", "reassign"} => q.cur \notin q.left
  BY <1>2 DEF BegunOnce, OneRequestBegins
<1>6. ASSUME NEW q \in request', q.i \notin contested
      PROVE  /\ \A p \in request' : p.i = q.i => p = q
             /\ \A t \in Ahead(q) :
                  t \notin moved' /\ st'[t]["global"] \in {"pending", "none"}
  <2>1. CASE q = next
    BY <1>2, <1>6, <2>1 DEF BegunOnce, OneRequestBegins
  <2>2. CASE q \in request /\ q # r
    <3>1. q.i # r.i
      BY <1>6, <2>2 DEF BegunOnce, OneRequestBegins
    <3>2. QED
      BY <1>1, <1>2, <1>6, <2>2, <3>1 DEF BegunOnce, OneRequestBegins
  <2>3. QED
    BY <1>2, <2>1, <2>2
<1>7. OneRequestBegins'
  BY <1>4, <1>5, <1>6 DEF OneRequestBegins, Ahead, Cur
<1>8. QED
  BY <1>3, <1>7 DEF BegunOnce

\* A client's new request for an invite: the first to have it in hand, or else the
\* invite is contested.
LEMMA OpenKeepsOnce ==
    ASSUME TypeOK, TypeOK', RowsFollowInvite, BegunOnce,
           NEW c \in Clients, NEW i \in Invites, NewRequest(c, i)
    PROVE  BegunOnce'
<1>1. PICK new : /\ request' = request \cup {new}
                 /\ new.i = i /\ new.pc \in {"create", "save"}
  <2> DEFINE asked(act, pc) == [by |-> c, i |-> i, act |-> act, pc |-> pc,
                                left |-> Scope[i], cur |-> CHOOSE a \in Scope[i] : TRUE]
  <2>1. \A act, pc : Open(c, i, act, pc) => request' = request \cup {asked(act, pc)}
    BY DEF Open
  <2>2. \A act, pc : asked(act, pc).i = i /\ asked(act, pc).pc = pc
    OBVIOUS
  <2> HIDE DEF asked
  <2>3. PICK act \in {"accept", "decline", "cancel"}, pc \in {"create", "save"} :
          Open(c, i, act, pc)
    BY DEF NewRequest, ValidateCreate, ValidateUpdate
  <2>4. QED
    BY <2>1, <2>2, <2>3
<1>2. /\ UNCHANGED <<invite, st, txn, stuck, moved>>
      /\ contested' = IF \E r \in request : r.i = i THEN contested \cup {i} ELSE contested
      /\ invite[i] \in {"none", "pending"}
  BY RowsAssumption
  DEF NewRequest, ValidateCreate, ValidateUpdate, Open, rowVars, taskVars
<1>3. \A q \in request' : Ahead(q) \subseteq Transfers /\ \A t \in Ahead(q) : t[1] = q.i
  BY DEF Ahead, Cur, Transfers, TypeOK, RequestsTypeOK, Request
<1>4. \A t \in Transfers : t[1] = i =>
        t \notin moved /\ st[t]["global"] \in {"pending", "none"}
  BY <1>2 DEF RowsFollowInvite, Exists, Live, BegunOnce, PendingIsUntouched, TransfersOf
<1>5. PendingIsUntouched' /\ CompleteMeansSuccess'
  BY <1>2 DEF BegunOnce, PendingIsUntouched, CompleteMeansSuccess, TransfersOf
<1>6. \A q \in request' : /\ q.pc \notin {"create", "save"} => invite'[q.i] # "pending"
                          /\ q.pc \in {"begin", "reassign"} => q.cur \notin q.left
  BY <1>1, <1>2 DEF BegunOnce, OneRequestBegins
<1>7. ASSUME NEW q \in request', q.i \notin contested'
      PROVE  /\ \A p \in request' : p.i = q.i => p = q
             /\ \A t \in Ahead(q) :
                  t \notin moved' /\ st'[t]["global"] \in {"pending", "none"}
  <2>1. CASE q.i = i
    <3>1. \A r \in request : r.i # i
      BY <1>2, <1>7, <2>1
    <3>2. QED
      BY <1>1, <1>2, <1>3, <1>4, <2>1, <3>1
  <2>2. CASE q.i # i
    <3>1. q \in request /\ q.i \notin contested
      BY <1>1, <1>2, <1>7, <2>2
    <3>2. QED
      BY <1>1, <1>2, <2>2, <3>1 DEF BegunOnce, OneRequestBegins
  <2>3. QED
    BY <2>1, <2>2
<1>8. OneRequestBegins'
  BY <1>6, <1>7 DEF OneRequestBegins, Ahead, Cur
<1>9. QED
  BY <1>2, <1>5, <1>8 DEF BegunOnce

\* The steps of a request that write no row.
LEMMA QuietRequestKeepsOnce ==
    ASSUME TypeOK, TypeOK', BegunOnce, NEW r \in request, NEW next,
           \/ request' = (request \ {r}) \cup {next}
           \/ request' = request \ {r},
           UNCHANGED <<st, invite, contested, txn, stuck, moved>>,
           next.i = r.i, r.pc \notin {"create", "save"},
           next.pc \in {"begin", "reassign"} => next.cur \notin next.left,
           Ahead(next) \subseteq Ahead(r)
    PROVE  BegunOnce'
<1>1. CompleteMeansSuccess'
  BY DEF BegunOnce, CompleteMeansSuccess, TransfersOf
<1>2. invite[r.i] # "pending"
  BY DEF BegunOnce, OneRequestBegins
<1>3. QED
  BY <1>1, <1>2, OnceKeptByRequest DEF BegunOnce, OneRequestBegins

LEMMA RequestStepKeepsOnce ==
    ASSUME TypeOK, TypeOK', RowsFollowInvite, BegunOnce, NEW r \in request,
           RequestStep(r) \/ TransferError(r) \/ WebCrash(r)
    PROVE  BegunOnce'
<1>0. /\ r.i \in Invites /\ Cur(r) \in Transfers /\ Cur(r)[1] = r.i
      /\ \A a \in r.left : <<r.i, a>> \in Transfers
      /\ r \in Request
      /\ \A t \in Ahead(r) : t \in Transfers /\ t[1] = r.i
  BY DEF Ahead, Cur, Transfers, TypeOK, RequestsTypeOK, Request
<1> DEFINE to(pc) == [r EXCEPT !.pc = pc]
<1>to. \A pc : /\ At(r, pc) => request' = (request \ {r}) \cup {to(pc)}
               /\ to(pc).i = r.i /\ to(pc).pc = pc
               /\ to(pc).cur = r.cur /\ to(pc).left = r.left
               /\ pc # "begin" => Ahead(to(pc)) \subseteq Ahead(r)
               /\ pc # "begin" => Ahead(to(pc)) = {<<r.i, a>> : a \in r.left}
  BY <1>0 DEF At, Ahead, Request
<1> HIDE DEF to
<1>1. CASE CreateInvite(r)
  <2>1. /\ r.pc = "create" /\ invite[r.i] = "none"
        /\ UNCHANGED <<txn, moved, stuck, contested>>
        /\ At(r, "save") \/ Finish(r)
    BY <1>0, <1>1, RowsAssumption DEF CreateInvite, taskVars
  <2>2. /\ \A i \in Invites : invite'[i] = IF i = r.i THEN "pending" ELSE invite[i]
        /\ \A t \in Transfers :
             st'[t]["global"] = IF t[1] = r.i THEN "pending" ELSE st[t]["global"]
    BY <1>1, SubtaskNames DEF CreateInvite, TypeOK, RowsTypeOK
  <2>3. \A t \in Transfers : t[1] = r.i => t \notin moved
    BY <2>1 DEF RowsFollowInvite
  <2>4. CompleteMeansSuccess'
    BY <2>1, <2>2 DEF BegunOnce, CompleteMeansSuccess, TransfersOf
  <2>5. PendingIsUntouched'
    BY <2>1, <2>2, <2>3, TransfersFacts DEF BegunOnce, PendingIsUntouched, TransfersOf
  <2>6. \A q \in request' : q \in request \/ (q = to("save"))
    BY <1>to, <2>1 DEF Finish
  <2>7. \A q \in request : /\ Ahead(q) \subseteq Transfers
                           /\ q.i \in Invites
    BY RequestMoves DEF Ahead, TypeOK
  <2>8. \A q \in request : q.pc # "create" => invite[q.i] # "none"
    BY DEF RowsFollowInvite
  <2>9. \A q \in request' : /\ q.pc \notin {"create", "save"} => invite'[q.i] # "pending"
                            /\ q.pc \in {"begin", "reassign"} => q.cur \notin q.left
    BY <1>to, <2>1, <2>2, <2>6, <2>7, <2>8 DEF BegunOnce, OneRequestBegins
  <2>10. ASSUME NEW q \in request', q.i \notin contested
         PROVE  /\ \A p \in request' : p.i = q.i => p = q
                /\ \A t \in Ahead(q) :
                     t \notin moved' /\ st'[t]["global"] \in {"pending", "none"}
    <3>1. r \notin request' \/ to("save") = r
      BY <1>to, <2>1 DEF Finish
    <3>2. \A p \in request' : p.i = q.i => p = q
      BY <1>to, <2>6, <2>10, <3>1 DEF BegunOnce, OneRequestBegins
    <3>3. \A t \in Ahead(q) : t \in Transfers /\ (q \in request \/ t \in Ahead(r))
      BY <1>0, <1>to, <2>6, <2>7
    <3>4. \A t \in Ahead(q) : t \notin moved /\ st[t]["global"] \in {"pending", "none"}
      BY <1>to, <2>6, <2>10, <3>3 DEF BegunOnce, OneRequestBegins
    <3>5. QED
      BY <2>1, <2>2, <3>2, <3>3, <3>4
  <2>11. OneRequestBegins'
    BY <2>1, <2>9, <2>10 DEF OneRequestBegins, Ahead, Cur
  <2>12. QED
    BY <2>1, <2>4, <2>5, <2>11 DEF BegunOnce
<1>2. CASE SaveStatus(r)
  <2>1. /\ UNCHANGED <<st, txn, stuck, moved, contested>> /\ r.pc = "save"
        /\ At(r, "loop") \/ Finish(r)
    BY <1>2 DEF SaveStatus, taskVars
  <2>2. StatusSaved[r.act] \notin {"pending", "complete"}
    BY <1>0 DEF StatusSaved, Request
  <2>3. \A i \in Invites : \/ invite'[i] = invite[i]
                           \/ i = r.i /\ invite'[i] \notin {"pending", "complete"}
    BY <1>0, <1>2, <2>2 DEF SaveStatus, TypeOK, RowsTypeOK
  <2>4. CompleteMeansSuccess'
    BY <2>1, <2>3 DEF BegunOnce, CompleteMeansSuccess, TransfersOf
  <2>5. At(r, "loop") => invite'[r.i] # "pending"
    <3>1. CASE Live(r.i)
      BY <1>0, <1>2, <2>2, <3>1 DEF SaveStatus, TypeOK, RowsTypeOK
    <3>2. CASE ~Live(r.i)
      BY <1>2, <3>2 DEF SaveStatus, Live
    <3>3. QED
      BY <3>1, <3>2
  <2>6. \A i \in Invites : invite'[i] = "pending" =>
          /\ invite[i] = "pending"
          /\ i = r.i => \A t \in TransfersOf(i) :
                          st'[t]["global"] = "pending" /\ t \notin moved'
    BY <2>1, <2>3 DEF BegunOnce, PendingIsUntouched
  <2>7. \A t \in Ahead(to("loop")) : r.i \notin contested =>
          t \notin moved' /\ st'[t]["global"] \in {"pending", "none"}
    BY <1>to, <2>1 DEF BegunOnce, OneRequestBegins
  <2>8. CASE At(r, "loop")
    BY <1>to, <2>1, <2>4, <2>5, <2>6, <2>7, <2>8, OnceKeptByRequest
  <2>9. CASE Finish(r)
    <3>1. /\ to("save").pc = "save" /\ to("save").i = r.i
          /\ Ahead(to("save")) \subseteq Ahead(r)
      BY <1>to
    <3>2. \A t \in Ahead(to("save")) : r.i \notin contested =>
            t \notin moved' /\ st'[t]["global"] \in {"pending", "none"}
      BY <2>1, <3>1 DEF BegunOnce, OneRequestBegins
    <3>3. request' = request \ {r}
      BY <2>9 DEF Finish
    <3>4. QED
      BY <2>1, <2>4, <2>6, <3>1, <3>2, <3>3, OnceKeptByRequest
  <2>10. QED
    BY <2>1, <2>8, <2>9
<1>3. CASE \E a \in Assets : CancelRows(r, a)
  <2>1. PICK a \in Assets : CancelRows(r, a)
    BY <1>3
  <2> DEFINE next == [r EXCEPT !.left = @ \ {a}]
  <2>2. /\ r.pc = "loop" /\ a \in r.left
        /\ UNCHANGED <<invite, txn, stuck, moved, contested>>
        /\ request' = (request \ {r}) \cup {next}
    BY <2>1 DEF CancelRows, taskVars
  <2>3. /\ next.i = r.i /\ next.pc = "loop" /\ next.left = r.left \ {a}
        /\ Ahead(next) = {<<r.i, b>> : b \in r.left \ {a}}
        /\ Ahead(next) \subseteq Ahead(r)
        /\ <<r.i, a>> \in Ahead(r)
    BY <1>0, <2>2 DEF Request, Ahead
  <2> HIDE DEF next
  <2>4. \A t \in Transfers : \/ st'[t]["global"] = st[t]["global"]
                             \/ t = <<r.i, a>>
    BY <1>0, <2>1, <2>2, SubtaskNames DEF CancelRows, TypeOK, RowsTypeOK
  <2>5. r.i \notin contested => st[<<r.i, a>>]["global"] # "success"
    BY <2>3 DEF BegunOnce, OneRequestBegins
  <2>6. CompleteMeansSuccess'
    BY <1>0, <2>2, <2>4, <2>5 DEF BegunOnce, CompleteMeansSuccess, TransfersOf
  <2>7. invite[r.i] # "pending"
    BY <2>2 DEF BegunOnce, OneRequestBegins
  <2>8. \A t \in Ahead(next) : r.i \notin contested =>
          t \notin moved' /\ st'[t]["global"] \in {"pending", "none"}
    BY <1>0, <2>2, <2>3, <2>4 DEF BegunOnce, OneRequestBegins
  <2>9. \A t \in Transfers : t[1] # r.i =>
          (t \in moved' => t \in moved) /\ st'[t]["global"] = st[t]["global"]
    BY <2>2, <2>4
  <2>10. QED
    BY <2>2, <2>3, <2>6, <2>7, <2>8, <2>9, OnceKeptByRequest
<1>4. CASE \E a \in Assets : CheckPending(r, a)
  <2>1. PICK a \in Assets : CheckPending(r, a)
    BY <1>4
  <2> DEFINE next == [r EXCEPT !.pc = "begin", !.cur = a, !.left = @ \ {a}]
  <2>2. /\ r.pc = "loop" /\ a \in r.left
        /\ UNCHANGED <<st, invite, txn, stuck, moved, contested>>
        /\ request' = (request \ {r}) \cup {next} \/ request' = request \ {r}
    BY <2>1 DEF CheckPending, rowVars, taskVars, Finish
  <2>3. /\ next.i = r.i /\ next.cur \notin next.left
        /\ Ahead(next) \subseteq Ahead(r)
    BY <1>0, <2>2 DEF Request, Ahead, Cur
  <2> HIDE DEF next
  <2>4. QED
    BY <2>2, <2>3, QuietRequestKeepsOnce
<1>5. CASE BeginTransfer(r)
  <2>1. /\ r.pc = "begin"
        /\ UNCHANGED <<txn, stuck, moved, contested>>
        /\ Cur(r) \in Ahead(r)
    BY <1>5 DEF BeginTransfer, taskVars, Ahead
  <2>2. CASE ~Exists(Cur(r))
    <3>1. UNCHANGED <<st, invite>> /\ request' = request \ {r}
      BY <1>5, <2>2 DEF BeginTransfer, Finish
    <3>2. QED
      BY <1>to, <2>1, <3>1, QuietRequestKeepsOnce
  <2>3. CASE Exists(Cur(r))
    <3>1. SetGlobal(Cur(r), "in_progress", st) /\ At(r, "reassign")
      BY <1>5, <2>3 DEF BeginTransfer
    <3>2. r.i \notin contested => st[Cur(r)]["global"] # "success"
      BY <2>1 DEF BegunOnce, OneRequestBegins
    <3>3. /\ \A t \in Transfers : st'[t]["global"] =
                 IF t = Cur(r) THEN "in_progress" ELSE st[t]["global"]
          /\ \A i \in Invites : invite'[i] = "pending" => invite[i] = "pending"
          /\ CompleteMeansSuccess'
          /\ invite'[r.i] # "pending"
      BY <1>0, <2>1, <2>3, <3>1, <3>2, SetGlobalSettles DEF BegunOnce, TypeOK, RowsTypeOK
    <3>4. r.cur \notin r.left
      BY <2>1 DEF BegunOnce, OneRequestBegins
    <3>5. \A t \in Ahead(to("reassign")) : t # Cur(r)
      BY <1>to, <3>4 DEF Cur
    <3>6. \A t \in Ahead(to("reassign")) : r.i \notin contested =>
            t \notin moved' /\ st'[t]["global"] \in {"pending", "none"}
      BY <1>0, <1>to, <2>1, <3>3, <3>5 DEF BegunOnce, OneRequestBegins
    <3>7. \A t \in Transfers : t[1] # r.i =>
            (t \in moved' => t \in moved) /\ st'[t]["global"] = st[t]["global"]
      BY <1>0, <2>1, <3>3
    <3>8. QED
      BY <1>to, <2>1, <3>1, <3>3, <3>4, <3>6, <3>7, OnceKeptByRequest
  <2>4. QED
    BY <2>2, <2>3
<1>6. CASE ReassignProject(r)
  <2>1. /\ UNCHANGED <<invite, txn, stuck, contested>> /\ r.pc = "reassign"
        /\ moved' = moved \cup {Cur(r)}
    BY <1>6 DEF ReassignProject, taskVars
  <2>2. PICK pc \in {"submissions", "media_files"} : At(r, pc)
    BY <1>6 DEF ReassignProject
  <2>3. \A t \in Transfers : st'[t]["global"] = st[t]["global"]
    BY <1>0, <1>6, SubtaskNames DEF ReassignProject, TypeOK, RowsTypeOK
  <2>4. CompleteMeansSuccess'
    BY <2>1, <2>3 DEF BegunOnce, CompleteMeansSuccess, TransfersOf
  <2>5. r.cur \notin r.left /\ invite[r.i] # "pending"
    BY <2>1 DEF BegunOnce, OneRequestBegins
  <2>6. \A t \in Ahead(to(pc)) : r.i \notin contested =>
          t \notin moved' /\ st'[t]["global"] \in {"pending", "none"}
    BY <1>0, <1>to, <2>1, <2>3, <2>5 DEF BegunOnce, OneRequestBegins, Cur
  <2>7. \A t \in Transfers : t[1] # r.i =>
          (t \in moved' => t \in moved) /\ st'[t]["global"] = st[t]["global"]
    BY <1>0, <2>1, <2>3
  <2>8. QED
    BY <1>to, <2>1, <2>2, <2>4, <2>5, <2>6, <2>7, OnceKeptByRequest
<1>7. CASE FailTransfer(r)
  <2>1. /\ r.pc = "fail" /\ request' = request \ {r}
        /\ UNCHANGED <<txn, stuck, moved, contested>>
    BY <1>7 DEF FailTransfer, taskVars, Finish
  <2>2. CASE ~Exists(Cur(r))
    <3>1. UNCHANGED <<st, invite>>
      BY <1>7, <2>2 DEF FailTransfer
    <3>2. QED
      BY <1>to, <2>1, <3>1, QuietRequestKeepsOnce
  <2>3. CASE Exists(Cur(r))
    <3>1. SetGlobal(Cur(r), "failed", st)
      BY <1>7, <2>3 DEF FailTransfer
    <3>2. /\ \A t \in Transfers : st'[t]["global"] =
                 IF t = Cur(r) THEN "failed" ELSE st[t]["global"]
          /\ \A i \in Invites : invite'[i] = "pending" => invite[i] = "pending"
          /\ CompleteMeansSuccess'
          /\ invite'[r.i] # "pending"
      BY <1>0, <2>1, <2>3, <3>1, SetGlobalSettles DEF BegunOnce, TypeOK, RowsTypeOK
    <3> DEFINE ended == [r EXCEPT !.pc = "fail", !.left = {}]
    <3>3. ended.i = r.i /\ ended.pc = "fail" /\ Ahead(ended) = {}
      BY <1>0 DEF Request, Ahead
    <3> HIDE DEF ended
    <3>4. \A t \in Transfers : t[1] # r.i =>
            (t \in moved' => t \in moved) /\ st'[t]["global"] = st[t]["global"]
      BY <1>0, <2>1, <3>2
    <3>5. QED
      BY <2>1, <3>2, <3>3, <3>4, OnceKeptByRequest
  <2>4. QED
    BY <2>2, <2>3
<1>8. CASE DelayTask(r) \/ TransferError(r)
  <2>1. /\ UNCHANGED <<st, invite, txn, stuck, moved, contested>>
        /\ r.pc \in {"reassign", "submissions", "media_files"}
        /\ \E pc \in {"media_files", "loop", "fail"} : At(r, pc)
    BY <1>8 DEF DelayTask, TransferError, rowVars, taskVars
  <2>2. QED
    BY <1>to, <2>1, QuietRequestKeepsOnce
<1>9. CASE EndRequest(r) \/ WebCrash(r)
  <2>1. /\ UNCHANGED <<st, invite, txn, stuck, moved, contested>>
        /\ request' = request \ {r}
    BY <1>9 DEF EndRequest, WebCrash, rowVars, taskVars, Finish
  <2>2. CompleteMeansSuccess'
    BY <2>1 DEF BegunOnce, CompleteMeansSuccess, TransfersOf
  <2>3. \A q \in request' : q \in request /\ q.i \in Invites /\ Ahead(q) \subseteq Transfers
    BY <2>1, RequestMoves DEF Ahead, TypeOK
  <2>4. PendingIsUntouched' /\ OneRequestBegins'
    BY <2>1, <2>3
    DEF BegunOnce, PendingIsUntouched, OneRequestBegins, TransfersOf, Ahead, Cur
  <2>5. QED
    BY <2>1, <2>2, <2>4 DEF BegunOnce
<1>10. QED
  BY <1>1, <1>2, <1>3, <1>4, <1>5, <1>6, <1>7, <1>8, <1>9 DEF RequestStep

LEMMA RequestsKeepOnce ==
    ASSUME TypeOK, TypeOK', RowsFollowInvite, BegunOnce, RequestNext
    PROVE  BegunOnce'
<1>1. CASE \E c \in Clients, i \in Invites : NewRequest(c, i)
  BY <1>1, OpenKeepsOnce
<1>2. CASE \E r \in request : RequestStep(r) \/ TransferError(r) \/ WebCrash(r)
  BY <1>2, RequestStepKeepsOnce
<1>3. CASE ScanExpired \/ WriteExpired \/ (\E a \in Assets : TrashAsset(a))
  <2>1. /\ UNCHANGED <<st, txn, stuck, request, moved, contested>>
        /\ \A i \in Invites : invite'[i] = invite[i] \/ invite'[i] \in {"expired", "cancelled"}
    BY <1>3 DEF ScanExpired, WriteExpired, TrashAsset, rowVars, taskVars, requestVars
  <2>2. \A q \in request : q.i \in Invites
    BY RequestMoves DEF TypeOK
  <2>3. CompleteMeansSuccess'
    BY <2>1 DEF BegunOnce, CompleteMeansSuccess, TransfersOf
  <2>4. PendingIsUntouched' /\ OneRequestBegins'
    BY <2>1, <2>2
    DEF BegunOnce, PendingIsUntouched, OneRequestBegins, TransfersOf, Ahead, Cur
  <2>5. QED
    BY <2>1, <2>3, <2>4 DEF BegunOnce
<1>4. CASE \E i \in Invites : DeleteInvite(i)
  <2>1. PICK d \in Invites : DeleteInvite(d)
    BY <1>4
  <2>2. /\ UNCHANGED <<txn, stuck, request, moved, contested>>
        /\ \A i \in Invites : invite'[i] = IF i = d THEN "deleted" ELSE invite[i]
        /\ \A t \in Transfers :
             st'[t]["global"] = IF t[1] = d THEN "none" ELSE st[t]["global"]
    BY <2>1, SubtaskNames DEF DeleteInvite, TypeOK, RowsTypeOK, taskVars, requestVars
  <2>3. \A q \in request : q.i \in Invites /\ Ahead(q) \subseteq Transfers
    BY RequestMoves DEF Ahead, TypeOK
  <2>4. CompleteMeansSuccess'
    BY <2>2 DEF BegunOnce, CompleteMeansSuccess, TransfersOf
  <2>5. PendingIsUntouched' /\ OneRequestBegins'
    BY <2>2, <2>3
    DEF BegunOnce, PendingIsUntouched, OneRequestBegins, TransfersOf, Ahead, Cur
  <2>6. QED
    BY <2>2, <2>4, <2>5 DEF BegunOnce
<1>5. QED
  BY <1>1, <1>2, <1>3, <1>4 DEF RequestNext

\* No transfer of an uncontested invite is begun twice, and none that has been
\* offered only has a task, a transaction or a stuck row.
THEOREM TransfersBeginOnce == Spec => []BegunOnce
<1>1. Init => BegunOnce
  BY DEF Init, RowsInit, TasksInit, RequestsInit, BegunOnce, PendingIsUntouched,
         OneRequestBegins, CompleteMeansSuccess
<1>2. /\ TypeOK /\ TypeOK' /\ ReassignComesFirst /\ RowsFollowInvite /\ BegunOnce
      /\ [Next]_vars
      => BegunOnce'
  <2> SUFFICES ASSUME TypeOK, TypeOK', ReassignComesFirst, RowsFollowInvite, BegunOnce,
                      [Next]_vars
               PROVE  BegunOnce'
    OBVIOUS
  <2>1. CASE TaskNext /\ UNCHANGED requestVars
    BY <2>1, TaskKeepsOnce
  <2>2. CASE RequestNext
    BY <2>2, RequestsKeepOnce
  <2>3. CASE UNCHANGED vars
    <3>1. /\ UNCHANGED <<st, invite, requestVars>>
          /\ \A m \in stuck' : m[1] \in moved
          /\ \A x \in txn' : x.t \in moved
      BY <2>3 DEF vars, rowVars, taskVars, BegunOnce
    <3>2. CompleteMeansSuccess'
      BY <3>1 DEF requestVars, BegunOnce, CompleteMeansSuccess, TransfersOf
    <3>3. QED
      BY <3>1, <3>2, OnceKeptByTask
  <2>4. QED
    BY <2>1, <2>2, <2>3 DEF Next
<1>3. QED
  BY <1>1, <1>2, TypeCorrect, ReassignIsFirst, InviteHasRows, PTL DEF Spec

\* `_update_invite_status` leaves no COMPLETE invite with a transfer that is not
\* successful, unless two requests had the invite in hand at a time.
THEOREM CompletionIsWhole == Spec => []CompleteMeansSuccess
<1>1. BegunOnce => CompleteMeansSuccess
  BY DEF BegunOnce
<1>2. QED
  BY <1>1, TransfersBeginOnce, PTL

----------------------------------------------------------------------------
(* 8. DataFollows: where the data of a project is that was offered once. *)

\* A step that leaves the data of the project alone, and offers it only when the
\* sender is the first owner.
LEMMA DataKept ==
    ASSUME NEW t \in Transfers, DataOf(t),
           done'[t] = done[t], owner'[t[2]] = owner[t[2]], loc'[t[2]] = loc[t[2]],
           t \in moved' <=> t \in moved,
           \/ invite'[t[1]] # "none"
           \/ \E r \in request' : r.i = t[1]
           => \/ invite[t[1]] # "none"
              \/ \E r \in request : r.i = t[1]
              \/ FirstOwner[t[2]] = Sender[t[1]]
    PROVE  DataOf(t)'
  BY DEF DataOf, Required

\* A step that touches no data, and brings up no invite but those in hand.
LEMMA DataKeptAll ==
    ASSUME DataFollows, UNCHANGED <<owner, loc, done, moved>>,
           \A i \in Invites :
             \/ invite'[i] # "none"
             \/ \E r \in request' : r.i = i
             => invite[i] # "none" \/ \E r \in request : r.i = i
    PROVE  DataFollows'
  BY DataKept, TransfersFacts DEF DataFollows, Only

\* A subtask that has run has filed its data under the recipient.
LEMMA WorkFollows ==
    ASSUME TypeOK, ReassignComesFirst, DataFollows, UNCHANGED <<request, moved>>,
           NEW j \in job, Finished(j),
           loc' = loc \/ \E u \in Users : loc' = [loc EXCEPT ![j.t[2]][j.ty] = u],
           Only(j.t) =>
             /\ loc'[j.t[2]][j.ty] \in {Sender[j.t[1]], Recipient[j.t[1]]}
             /\ j.ty \in Required(j.t) => loc'[j.t[2]][j.ty] = Recipient[j.t[1]]
    PROVE  DataFollows'
<1>0. /\ j.t \in Transfers /\ j.ty \in Subtasks /\ j.t \in moved
      /\ j.t[2] \in Assets
  BY JobMoves, TransfersFacts DEF TypeOK, TasksTypeOK, ReassignComesFirst,
                                  TasksFollowReassign
<1>1. /\ UNCHANGED <<invite, owner>>
      /\ \A t \in Transfers :
           done'[t] = IF t = j.t THEN done[t] \cup {j.ty} ELSE done[t]
  BY <1>0 DEF Finished, rowVars, TypeOK, TasksTypeOK
<1>2. \A a \in Assets, ty \in Subtasks :
        loc'[a][ty] = loc[a][ty] \/ (a = j.t[2] /\ ty = j.ty)
  <2>1. loc \in [Assets -> [Subtasks -> Users]]
    BY DEF TypeOK, TasksTypeOK
  <2>2. ASSUME NEW b, NEW s, NEW u, loc' = [loc EXCEPT ![b][s] = u]
        PROVE  \A a \in Assets, ty \in Subtasks :
                 loc'[a][ty] = loc[a][ty] \/ (a = b /\ ty = s)
    BY <2>1, <2>2
  <2>3. CASE loc' = loc
    BY <2>3
  <2>4. CASE \E u \in Users : loc' = [loc EXCEPT ![j.t[2]][j.ty] = u]
    <3>1. PICK u \in Users : loc' = [loc EXCEPT ![j.t[2]][j.ty] = u]
      BY <2>4
    <3>2. QED
      BY <2>2, <3>1
  <2>5. QED
    BY <2>3, <2>4
<1>3. ASSUME NEW t \in Transfers, Only(t)
      PROVE  DataOf(t)'
  <2>1. t[2] \in Assets /\ DataOf(t)
    BY <1>3, TransfersFacts DEF DataFollows
  <2>2. CASE t = j.t
    <3>1. \A ty \in Subtasks : loc'[t[2]][ty] \in {Sender[t[1]], Recipient[t[1]]}
      BY <1>0, <1>2, <1>3, <2>1, <2>2 DEF DataOf
    <3>2. \A ty \in Required(t) \cap done'[t] : loc'[t[2]][ty] = Recipient[t[1]]
      <4>1. SUFFICES ASSUME NEW ty \in Required(t) \cap done'[t]
                     PROVE  loc'[t[2]][ty] = Recipient[t[1]]
        OBVIOUS
      <4>2. CASE ty = j.ty
        BY <1>3, <2>2, <4>1, <4>2
      <4>3. CASE ty # j.ty
        <5>1. ty \in Required(t) \cap done[t] /\ ty \in Subtasks
          BY <1>1, <2>2, <4>1, <4>3, RequiredSubtasks
        <5>2. loc'[t[2]][ty] = loc[t[2]][ty]
          BY <1>2, <2>1, <4>3, <5>1
        <5>3. QED
          BY <1>0, <2>1, <2>2, <5>1, <5>2 DEF DataOf
      <4>4. QED
        BY <4>2, <4>3
    <3>3. Required(t)' = Required(t)
      BY DEF Required
    <3>4. t \in moved' /\ owner'[t[2]] = Recipient[t[1]]
      BY <1>0, <1>1, <2>1, <2>2 DEF DataOf
    <3>5. \/ invite'[t[1]] # "none"
          \/ \E r \in request' : r.i = t[1]
          => FirstOwner[t[2]] = Sender[t[1]]
      BY <1>1, <2>1 DEF DataOf
    <3>6. QED
      BY <3>1, <3>2, <3>3, <3>4, <3>5 DEF DataOf
  <2>3. CASE t # j.t
    <3>1. t[2] # j.t[2]
      BY <1>0, <1>3, <2>3 DEF Only
    <3>2. \A ty \in Subtasks : loc'[t[2]][ty] = loc[t[2]][ty]
      BY <1>2, <2>1, <3>1
    <3>3. done'[t] = done[t]
      BY <1>1, <2>3
    <3>4. QED
      BY <1>1, <2>1, <3>2, <3>3, RequiredSubtasks DEF DataOf, Required
  <2>4. QED
    BY <2>2, <2>3
<1>4. QED
  BY <1>3 DEF DataFollows, Only

LEMMA TaskKeepsData ==
    ASSUME TypeOK, TypeOK', WorkRecorded, ReassignComesFirst, DataFollows,
           RowsFollowInvite, TaskNext, UNCHANGED requestVars
    PROVE  DataFollows'
<1>0. UNCHANGED <<request, moved>>
  BY DEF requestVars
<1>quiet. ASSUME UNCHANGED <<owner, loc, done>>,
                 \A i \in Invites : invite'[i] # "none" => invite[i] # "none"
          PROVE  DataFollows'
  BY <1>0, <1>quiet, DataKeptAll
<1>1. ASSUME NEW j \in job, TaskStep(j) \/ TaskFault(j)
      PROVE  DataFollows'
  <2>0. /\ j.t \in Transfers /\ j.ty \in Subtasks /\ j.t \in moved
        /\ j.t[2] \in Assets /\ j.t[1] \in Invites
    BY JobMoves, TransfersFacts DEF TypeOK, TasksTypeOK, ReassignComesFirst,
                                    TasksFollowReassign
  <2>1. Only(j.t) =>
          /\ owner[j.t[2]] = Recipient[j.t[1]]
          /\ \A ty \in Subtasks : loc[j.t[2]][ty] \in {Sender[j.t[1]], Recipient[j.t[1]]}
          /\ \A ty \in Required(j.t) \cap done[j.t] : loc[j.t[2]][ty] = Recipient[j.t[1]]
    BY <2>0 DEF DataFollows, DataOf
  <2>u. owner[j.t[2]] \in Users /\ Recipient[j.t[1]] \in Users
    BY <2>0, TasksAssumption DEF TypeOK, TasksTypeOK
  <2>n. j.ty = "submissions" \/ j.ty = "attachments" \/ j.ty = "media_files"
    BY <2>0, SubtaskNames
  <2>l. loc \in [Assets -> [Subtasks -> Users]]
    BY DEF TypeOK, TasksTypeOK
  <2>2. CASE RewriteSubmissions(j) /\ ~CannotFinish(j)
    <3>1. /\ Finished(j)
          /\ j.ty = "submissions"
          /\ loc' = IF loc[j.t[2]]["submissions"] = Sender[j.t[1]]
                    THEN [loc EXCEPT ![j.t[2]]["submissions"] = owner[j.t[2]]]
                    ELSE loc
      BY <2>2 DEF RewriteSubmissions
    <3>2. Only(j.t) => loc'[j.t[2]]["submissions"] = Recipient[j.t[1]]
      BY <2>0, <2>1, <2>l, <3>1, SubtaskNames
    <3>3. QED
      BY <1>0, <2>2, <2>u, <3>1, <3>2, WorkFollows
  <2>3. CASE MoveAttachments(j) /\ ~CannotFinish(j)
    <3>1. /\ Finished(j)
          /\ j.ty = "attachments"
          /\ loc' = IF loc[j.t[2]]["submissions"] = owner[j.t[2]]
                    THEN Relocate(j.t, "attachments") ELSE loc
          /\ st[j.t]["submissions"] = "success"
      BY <2>3 DEF MoveAttachments
    <3>2. Only(j.t) /\ "attachments" \in Required(j.t) =>
            loc[j.t[2]]["submissions"] = Recipient[j.t[1]]
      BY <2>0, <2>1, <3>1, SubtaskNames DEF WorkRecorded, Required
    <3>3. Only(j.t) =>
            /\ loc'[j.t[2]]["attachments"] \in {Sender[j.t[1]], Recipient[j.t[1]]}
            /\ "attachments" \in Required(j.t) =>
                 loc'[j.t[2]]["attachments"] = Recipient[j.t[1]]
      BY <2>0, <2>1, <2>l, <3>1, <3>2, SubtaskNames DEF Relocate
    <3>4. loc' = loc \/ \E u \in Users : loc' = [loc EXCEPT ![j.t[2]][j.ty] = u]
      BY <2>u, <3>1 DEF Relocate
    <3>5. QED
      BY <1>0, <2>3, <3>1, <3>3, <3>4, WorkFollows
  <2>4. CASE MoveMediaFiles(j)
    <3>1. j.ty = "media_files" /\ loc' = Relocate(j.t, "media_files") /\ Finished(j)
      BY <2>4, <2>n DEF MoveMediaFiles
    <3>2. Only(j.t) => loc'[j.t[2]]["media_files"] = Recipient[j.t[1]]
      BY <2>0, <2>1, <2>l, <3>1, SubtaskNames DEF Relocate
    <3>3. loc' = loc \/ \E u \in Users : loc' = [loc EXCEPT ![j.t[2]][j.ty] = u]
      BY <2>u, <3>1 DEF Relocate
    <3>4. QED
      BY <1>0, <3>1, <3>2, <3>3, WorkFollows
  <2>5. CASE CannotFinish(j)
    BY <1>quiet, <2>5 DEF CannotFinish, rowVars
  <2>6. CASE CommitTask(j)
    <3>1. PICK x \in txn : CommitUpdate(x)
      BY <2>6 DEF CommitTask
    <3>2. \A i \in Invites : invite'[i] # "none" => invite[i] # "none"
      BY <3>1, CommitKeepsRows
    <3>3. QED
      BY <1>quiet, <2>6, <3>2 DEF CommitTask
  <2>7. CASE \/ BeginTask(j) \/ KilledHandler(j) \/ MarkSuccessful(j) \/ MarkFailed(j)
             \/ ChainAttachments(j) \/ RowVanished(j) \/ TaskFault(j)
    BY <1>quiet, <2>7
    DEF BeginTask, KilledHandler, KeepInProgress, MarkSuccessful, MarkFailed,
        BeginUpdate, ChainAttachments, RowVanished, TaskFault, TaskError,
        CannotFinish, SoftTimeout, Killed, ContainerCrash, rowVars
  <2>8. QED
    BY <1>1, <2>2, <2>3, <2>4, <2>5, <2>6, <2>7
    DEF TaskStep, RewriteSubmissions, MoveAttachments
<1>2. CASE \E x \in txn : CommitStuck(x)
  <2>1. \A i \in Invites : invite'[i] # "none" => invite[i] # "none"
    BY <1>2, CommitKeepsRows DEF CommitStuck
  <2>2. QED
    BY <1>2, <1>quiet, <2>1 DEF CommitStuck
<1>3. CASE \/ \E w \in Workers, m \in Messages : StartTask(w, m[1], m[2])
           \/ \E i \in Invites : Age(i)
           \/ ScanStuck
           \/ \E m \in Messages : MarkStuck(m[1], m[2])
           \/ AbandonStuck
           \/ \E m \in Messages : Reschedule(m[1], m[2])
  BY <1>3, <1>quiet
  DEF StartTask, Age, ScanStuck, MarkStuck, BeginUpdate, AbandonStuck, Reschedule,
      rowVars
<1>4. QED
  BY <1>1, <1>2, <1>3 DEF TaskNext, StuckStep

\* The project is given to the recipient, by the only transfer that offers it.
LEMMA ReassignKeepsData ==
    ASSUME TypeOK, DataFollows, RowsFollowInvite, NEW r \in request,
           ReassignProject(r)
    PROVE  DataFollows'
<1>0. r.i \in Invites /\ Cur(r) \in Transfers /\ r.cur \in Assets /\ r \in Request
  BY RequestMoves DEF TypeOK, RequestsTypeOK, Request
<1>1. /\ UNCHANGED <<invite, loc, done>>
      /\ moved' = moved \cup {Cur(r)}
      /\ \A a \in Assets : owner'[a] = IF a = r.cur THEN Recipient[r.i] ELSE owner[a]
      /\ invite[r.i] # "none"
  BY DEF ReassignProject, taskVars, TypeOK, TasksTypeOK, RowsFollowInvite
<1>2. \A q \in request' : \E p \in request : p.i = q.i
  BY <1>0 DEF ReassignProject, At, Request
<1>3. ASSUME NEW t \in Transfers, Only(t)
      PROVE  DataOf(t)'
  <2>1. t[2] \in Assets /\ DataOf(t) /\ \A ty \in Required(t) : ty \in Subtasks
    BY <1>3, TransfersFacts, RequiredSubtasks DEF DataFollows
  <2>2. CASE t = Cur(r)
    <3>1. t[1] = r.i /\ t[2] = r.cur
      BY <2>2 DEF Cur
    <3>2. FirstOwner[t[2]] = Sender[t[1]]
      BY <1>1, <2>1, <3>1 DEF DataOf
    <3>3. t \in moved' /\ owner'[t[2]] = Recipient[t[1]]
      BY <1>1, <2>1, <2>2, <3>1
    <3>4. CASE t \in moved
      BY <1>1, <2>1, <3>2, <3>3, <3>4 DEF DataOf, Required
    <3>5. CASE t \notin moved
      BY <1>1, <2>1, <3>2, <3>3, <3>5 DEF DataOf, Required
    <3>6. QED
      BY <3>4, <3>5
  <2>3. CASE t # Cur(r)
    <3>1. t[2] # r.cur
      BY <1>0, <1>3, <2>3 DEF Only, Cur
    <3>2. owner'[t[2]] = owner[t[2]] /\ (t \in moved' <=> t \in moved)
      BY <1>1, <2>1, <2>3, <3>1
    <3>3. QED
      BY <1>1, <1>2, <2>1, <3>2, DataKept
  <2>4. QED
    BY <2>2, <2>3
<1>4. QED
  BY <1>3 DEF DataFollows, Only

\* Only the owner may offer a project.
LEMMA OpenKeepsData ==
    ASSUME TypeOK, DataFollows, RowsFollowInvite,
           NEW c \in Clients, NEW i \in Invites, NewRequest(c, i)
    PROVE  DataFollows'
<1>1. UNCHANGED <<invite, owner, loc, done, moved>>
  BY DEF NewRequest, ValidateCreate, ValidateUpdate, rowVars, taskVars
<1>2. \A q \in request' : q \in request \/ q.i = i
  BY DEF NewRequest, ValidateCreate, ValidateUpdate, Open
<1>3. ASSUME NEW t \in Transfers, Only(t)
      PROVE  DataOf(t)'
  <2>1. DataOf(t) /\ t[2] \in Scope[t[1]]
    BY <1>3 DEF DataFollows, Transfers
  <2>2. CASE t[1] = i
    <3>1. CASE invite[i] = "none"
      <4>1. \A a \in Scope[i] : owner[a] = Sender[i]
        BY <3>1 DEF NewRequest, ValidateCreate, ValidateUpdate
      <4>2. t \notin moved
        BY <2>2, <3>1 DEF RowsFollowInvite
      <4>3. FirstOwner[t[2]] = Sender[t[1]]
        BY <2>1, <2>2, <4>1, <4>2 DEF DataOf
      <4>4. QED
        BY <1>1, <2>1, <4>3, DataKept
    <3>2. CASE invite[i] # "none"
      BY <1>1, <2>1, <2>2, <3>2, DataKept
    <3>3. QED
      BY <3>1, <3>2
  <2>3. CASE t[1] # i
    BY <1>1, <1>2, <2>1, <2>3, DataKept
  <2>4. QED
    BY <2>2, <2>3
<1>4. QED
  BY <1>3 DEF DataFollows, Only

LEMMA RequestsKeepData ==
    ASSUME TypeOK, DataFollows, RowsFollowInvite, RequestNext
    PROVE  DataFollows'
<1>1. CASE \E c \in Clients, i \in Invites : NewRequest(c, i)
  BY <1>1, OpenKeepsData
<1>2. CASE \E r \in request : ReassignProject(r)
  BY <1>2, ReassignKeepsData
<1>3. CASE \E r \in request : \/ RequestStep(r) /\ ~ReassignProject(r)
                              \/ TransferError(r) \/ WebCrash(r)
  <2>1. PICK r \in request : \/ RequestStep(r) /\ ~ReassignProject(r)
                             \/ TransferError(r) \/ WebCrash(r)
    BY <1>3
  <2>2. r \in Request /\ r.i \in Invites /\ Cur(r) \in Transfers
    BY RequestMoves DEF TypeOK, RequestsTypeOK
  <2>3. UNCHANGED <<owner, loc, done, moved>>
    BY <2>1
    DEF RequestStep, CreateInvite, SaveStatus, CancelRows, CheckPending, BeginTransfer,
        DelayTask, FailTransfer, EndRequest, TransferError, WebCrash, taskVars
  <2>4. \A q \in request' : \E p \in request : p.i = q.i
    <3>1. \A next : next.i = r.i /\ request' = (request \ {r}) \cup {next} =>
            \A q \in request' : \E p \in request : p.i = q.i
      OBVIOUS
    <3>2. \A pc : At(r, pc) => \A q \in request' : \E p \in request : p.i = q.i
      BY <2>2, <3>1 DEF At, Request
    <3>3. Finish(r) => \A q \in request' : \E p \in request : p.i = q.i
      BY DEF Finish
    <3>4. \A a : CancelRows(r, a) \/ CheckPending(r, a) =>
            \A q \in request' : \E p \in request : p.i = q.i
      BY <2>2, <3>1, <3>3 DEF CancelRows, CheckPending, Request
    <3>5. QED
      BY <2>1, <3>2, <3>3, <3>4
      DEF RequestStep, CreateInvite, SaveStatus, BeginTransfer, DelayTask,
          FailTransfer, EndRequest, TransferError, WebCrash
  <2>5. \A i \in Invites : invite'[i] # "none" => invite[i] # "none" \/ i = r.i
    BY <2>1, <2>2, TransfersFacts
    DEF RequestStep, CreateInvite, SaveStatus, CancelRows, CheckPending, BeginTransfer,
        DelayTask, FailTransfer, EndRequest, TransferError, WebCrash, SetGlobal, Cur,
        rowVars, TypeOK, RowsTypeOK
  <2>6. QED
    BY <2>3, <2>4, <2>5, DataKeptAll
<1>4. CASE \/ ScanExpired \/ WriteExpired
           \/ (\E i \in Invites : DeleteInvite(i)) \/ (\E a \in Assets : TrashAsset(a))
  <2>1. UNCHANGED <<owner, loc, done, moved, request>>
    BY <1>4 DEF ScanExpired, WriteExpired, DeleteInvite, TrashAsset, taskVars, requestVars
  <2>2. \A i \in Invites : invite'[i] # "none" => invite[i] # "none"
    BY <1>4
    DEF ScanExpired, WriteExpired, DeleteInvite, TrashAsset, Live, rowVars, TypeOK,
        RowsTypeOK
  <2>3. QED
    BY <2>1, <2>2, DataKeptAll
<1>5. QED
  BY <1>1, <1>2, <1>3, <1>4 DEF RequestNext

\* The data of a project that was offered once is with its first owner, then with
\* the sender or the recipient, and with the recipient when its subtask has run.
THEOREM DataFollowsTransfer == Spec => []DataFollows
<1>1. Init => DataFollows
  <2> SUFFICES ASSUME Init, NEW t \in Transfers
               PROVE  DataOf(t)
    BY DEF DataFollows
  <2>1. t[1] \in Invites /\ t[2] \in Assets
    BY TransfersFacts
  <2>2. QED
    BY <2>1, TasksAssumption
    DEF Init, RowsInit, TasksInit, RequestsInit, DataOf
<1>2. /\ TypeOK /\ TypeOK' /\ WorkRecorded /\ ReassignComesFirst /\ RowsFollowInvite
      /\ DataFollows /\ [Next]_vars
      => DataFollows'
  <2> SUFFICES ASSUME TypeOK, TypeOK', WorkRecorded, ReassignComesFirst,
                      RowsFollowInvite, DataFollows, [Next]_vars
               PROVE  DataFollows'
    OBVIOUS
  <2>1. CASE TaskNext /\ UNCHANGED requestVars
    BY <2>1, TaskKeepsData
  <2>2. CASE RequestNext
    BY <2>2, RequestsKeepData
  <2>3. CASE UNCHANGED vars
    BY <2>3, DataKeptAll DEF vars, rowVars, taskVars, requestVars
  <2>4. QED
    BY <2>1, <2>2, <2>3 DEF Next
<1>3. QED
  BY <1>1, <1>2, TypeCorrect, WorkIsRecorded, ReassignIsFirst, InviteHasRows, PTL
  DEF Spec

\* A reported success of a project that was offered once means that the recipient
\* owns it and that its data is filed under the recipient.
THEOREM SuccessMovesData == Spec => []SuccessMeansMoved
<1>1. DataFollows /\ SuccessMeansDone => SuccessMeansMoved
  <2> SUFFICES ASSUME DataFollows, SuccessMeansDone, NEW t \in Transfers, Only(t),
                      st[t]["global"] = "success"
               PROVE  /\ owner[t[2]] = Recipient[t[1]]
                      /\ \A ty \in Required(t) : loc[t[2]][ty] = Recipient[t[1]]
    BY DEF SuccessMeansMoved
  <2>1. Required(t) \subseteq done[t] /\ DataOf(t)
    BY DEF DataFollows, SuccessMeansDone
  <2>2. "media_files" \in Required(t)
    BY SubtaskNames DEF Required
  <2>3. t \in moved
    BY <2>1, <2>2 DEF DataOf
  <2>4. QED
    BY <2>1, <2>3 DEF DataOf
<1>2. QED
  BY <1>1, DataFollowsTransfer, SuccessIsEarned, PTL
=============================================================================
