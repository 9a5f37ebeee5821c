---------------------------- MODULE TransferRows ----------------------------
(***************************************************************************)
(* The rows of the project-ownership transfer: one status per invite, and  *)
(* per transfer (one invite, one project) four status rows, one for each   *)
(* background subtask and the GLOBAL one that sums them up.                *)
(*                                                                         *)
(* PostgreSQL runs at READ COMMITTED, so a transaction that updates one    *)
(* row and reads its siblings is two steps here: BeginUpdate (the row is   *)
(* locked, the siblings are read, the outcome is decided) and CommitUpdate *)
(* (every write becomes visible at once).                                  *)
(***************************************************************************)
EXTENDS Naturals, FiniteSets

CONSTANTS
    Assets,      \* the projects
    Deployed,    \* those that have a deployment (the others are drafts)
    Invites,     \* primary keys of the invites, in the order of creation
    Scope,       \* Scope[i]: the projects that invite i offers
    Workers      \* the celery worker processes

Subtasks == {"submissions", "attachments", "media_files"}
StatusTypes == Subtasks \cup {"global"}

TransferStatuses == {"pending", "in_progress", "success", "failed", "cancelled"}
InviteStatuses == {"pending", "in_progress", "complete", "failed",
                   "cancelled", "declined", "expired"}

\* A transfer is identified by its invite and its project.
Transfers == {t \in Invites \X Assets : t[2] \in Scope[t[1]]}
TransfersOf(i) == {t \in Transfers : t[1] = i}

\* Whoever runs `update_status`: a worker, or the periodic task of celery beat.
Actors == Workers \cup {"beat"}

ASSUME RowsAssumption ==
    /\ Deployed \subseteq Assets
    /\ Invites \subseteq Nat
    /\ Scope \in [Invites -> (SUBSET Assets) \ {{}}]
    /\ "beat" \notin Workers

VARIABLES
    invite,   \* status of each invite; "none" before, "deleted" after its row
    st,       \* st[t][ty]: status row ty of transfer t; "none" without a row
    txn       \* the open transactions of `update_status`, one per actor

rowVars == <<invite, st, txn>>

Update == [by: Actors, t: Transfers, ty: Subtasks,
           val: {"success", "failed"}, out: {"none", "success", "failed"}]

RowsTypeOK ==
    /\ invite \in [Invites -> InviteStatuses \cup {"none", "deleted"}]
    /\ st \in [Transfers -> [StatusTypes -> TransferStatuses \cup {"none"}]]
    /\ txn \subseteq Update

RowsInit ==
    /\ invite = [i \in Invites |-> "none"]
    /\ st = [t \in Transfers |-> [ty \in StatusTypes |-> "none"]]
    /\ txn = {}

----------------------------------------------------------------------------
Live(i) == invite[i] \notin {"none", "deleted"}
Exists(t) == st[t]["global"] # "none"

\* Nobody holds the lock of row ty of transfer t.
Free(t, ty) == \A x \in txn : x.t # t \/ x.ty # ty
AllFree(t) == \A ty \in Subtasks : Free(t, ty)

\* Mutant: a transfer that has not begun does not hold the invite back.
InviteAfterHasty(i, rows) ==
    CASE \E t \in TransfersOf(i) : rows[t]["global"] = "failed" -> "failed"
      [] \A t \in TransfersOf(i) : rows[t]["global"] \in {"success", "pending"} ->
           "complete"
      [] OTHER -> "in_progress"

\* `_update_invite_status`: the invite's next status once the rows are `rows`.
\* The invite row is locked meanwhile, so it is read and written in one step.
InviteAfter(i, rows) ==
    IF \E t \in TransfersOf(i) : rows[t]["global"] = "failed" THEN "failed"
    ELSE IF \A t \in TransfersOf(i) : rows[t]["global"] = "success" THEN "complete"
    ELSE IF invite[i] = "pending" THEN "in_progress" ELSE invite[i]

\* Mutant: a write that fails the transfer forgets the invite.
SetGlobalQuietly(t, v, rows) ==
    LET after == [rows EXCEPT ![t]["global"] = v]
    IN  /\ st' = after
        /\ invite' = IF v = "failed"
                     THEN invite
                     ELSE [invite EXCEPT ![t[1]] = InviteAfter(t[1], after)]

\* The setter of `Transfer.status`: GLOBAL row and invite in one transaction,
\* on top of the rows `rows` the same transaction has written before.
SetGlobal(t, v, rows) ==
    LET after == [rows EXCEPT ![t]["global"] = v]
    IN  /\ st' = after
        /\ invite' = [invite EXCEPT ![t[1]] = InviteAfter(t[1], after)]

\* Mutant: a row not begun counts as done.
ParentStatusHasty(t, ty, v) ==
    LET seen == [st[t] EXCEPT ![ty] = v]
    IN  CASE \E s \in Subtasks : seen[s] = "failed" -> "failed"
          [] \A s \in Subtasks : seen[s] \in {"success", "pending"} -> "success"
          [] OTHER -> "none"

\* `update_transfer_status`: the GLOBAL value called for by what the transaction
\* sees, that is its own write and the committed rows of the other subtasks.
ParentStatus(t, ty, v) ==
    LET seen == [st[t] EXCEPT ![ty] = v]
    IN  IF \E s \in Subtasks : seen[s] = "failed" THEN "failed"
        ELSE IF \A s \in Subtasks : seen[s] = "success" THEN "success"
        ELSE "none"

\* `update_status` with SUCCESS or FAILED, up to the write of the GLOBAL row.
BeginUpdate(actor, t, ty, v) ==
    /\ Exists(t)
    /\ Free(t, ty)
    /\ txn' = txn \cup {[by |-> actor, t |-> t, ty |-> ty, val |-> v,
                         out |-> ParentStatus(t, ty, v)]}
    /\ UNCHANGED <<invite, st>>

CommitUpdate(x) ==
    LET written == [st EXCEPT ![x.t][x.ty] = x.val]
    IN  /\ txn' = txn \ {x}
        /\ IF x.out = "none"
           THEN st' = written /\ UNCHANGED invite
           ELSE SetGlobal(x.t, x.out, written)

\* `update_status` with IN_PROGRESS leaves the parent alone: one step.
KeepInProgress(t, ty) ==
    /\ Exists(t)
    /\ Free(t, ty)
    /\ st' = [st EXCEPT ![t][ty] = "in_progress"]
    /\ UNCHANGED <<invite, txn>>

\* A session that dies rolls back.
Rollback(actor) == txn' = {x \in txn : x.by # actor}
=============================================================================
