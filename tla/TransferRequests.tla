-------------------------- MODULE TransferRequests --------------------------
(***************************************************************************)
(* The invites: the web requests that create, accept, decline and cancel   *)
(* them, the trash bin that cancels them, and the periodic tasks that      *)
(* expire and delete them.  Requests are not atomic: each is a record that *)
(* moves from one database access to the next.                             *)
(***************************************************************************)
EXTENDS TransferTasks

CONSTANTS
    Clients,      \* web workers: so many requests are served at a time
    AutoAccept    \* PROJECT_OWNERSHIP_AUTO_ACCEPT_INVITES

ASSUME RequestsAssumption == AutoAccept \in BOOLEAN

VARIABLES
    request,    \* the requests being served, at most one per client
    expiring,   \* the invites `mark_as_expired` has read and not updated
    moved,      \* history: transfers that have reassigned their project
    contested   \* history: invites that two requests had in hand at a time

requestVars == <<request, expiring, moved, contested>>

Request == [by: Clients, i: Invites,
            act: {"accept", "decline", "cancel"},
            pc: {"create", "save", "loop", "begin", "reassign", "submissions",
                 "media_files", "fail"},
            left: SUBSET Assets, cur: Assets]

RequestsTypeOK ==
    /\ request \subseteq Request
    /\ \A r \in request : r.cur \in Scope[r.i] /\ r.left \subseteq Scope[r.i]
    /\ expiring \subseteq Invites
    /\ moved \subseteq Transfers
    /\ contested \subseteq Invites

RequestsInit ==
    /\ request = {}
    /\ expiring = {}
    /\ moved = {}
    /\ contested = {}

----------------------------------------------------------------------------
At(r, pc) == request' = (request \ {r}) \cup {[r EXCEPT !.pc = pc]}
Finish(r) == request' = request \ {r}
Open(c, i, act, pc) ==
    /\ \A r \in request : r.by # c
    /\ request' = request \cup
         {[by |-> c, i |-> i, act |-> act, pc |-> pc, left |-> Scope[i],
           cur |-> CHOOSE a \in Scope[i] : TRUE]}
    /\ contested' = IF \E r \in request : r.i = i THEN contested \cup {i} ELSE contested
Cur(r) == <<r.i, r.cur>>

\* `validate_assets`: the asset's latest transfer, when the same user sent it,
\* must have been declined, cancelled or have expired.
LatestAllows(i, a) ==
    LET ids == {j \in Invites : Live(j) /\ a \in Scope[j]}
    IN  \A j \in ids :
          (\A k \in ids : k <= j) /\ Sender[j] = Sender[i]
             => invite[j] \in {"declined", "cancelled", "expired"}

\* Primary keys grow: the invites still to come have the highest numbers.
ValidateCreate(c, i) ==
    /\ \A j \in Invites : j >= i => invite[j] = "none"
    /\ \A r \in request : r.i # i
    /\ \A a \in Scope[i] : owner[a] = Sender[i] /\ LatestAllows(i, a)
    /\ Open(c, i, "accept", "create")
    /\ UNCHANGED <<rowVars, taskVars, owner, expiring, moved>>

\* `create`, after which an auto-accepted invite goes on to `update`, as ACCEPTED.
CreateInvite(r) ==
    /\ r.pc = "create"
    /\ \A j \in Invites : j >= r.i => invite[j] = "none"
    /\ \A q \in request : q.pc = "create" => q.i >= r.i
    /\ invite' = [invite EXCEPT ![r.i] = "pending"]
    /\ st' = [t \in Transfers |->
                IF t[1] = r.i THEN [ty \in StatusTypes |-> "pending"] ELSE st[t]]
    /\ IF AutoAccept THEN At(r, "save") ELSE Finish(r)
    /\ UNCHANGED <<txn, taskVars, owner, expiring, moved, contested>>

\* `validate_status`: the invite, as it was loaded, is pending.
ValidateUpdate(c, i, act) ==
    /\ invite[i] = "pending"
    /\ Open(c, i, act, "save")
    /\ UNCHANGED <<rowVars, taskVars, owner, expiring, moved>>

StatusSaved == [accept |-> "in_progress", decline |-> "declined",
                cancel |-> "cancelled"]

\* `update` saves the status without reading the row again; saving a deleted
\* row is an error.
SaveStatus(r) ==
    /\ r.pc = "save"
    /\ IF Live(r.i)
       THEN /\ invite' = [invite EXCEPT ![r.i] = StatusSaved[r.act]]
            /\ At(r, "loop")
       ELSE UNCHANGED invite /\ Finish(r)
    /\ UNCHANGED <<st, txn, taskVars, owner, expiring, moved, contested>>

\* Not accepted: the four rows of each transfer become CANCELLED.
CancelRows(r, a) ==
    /\ r.pc = "loop"
    /\ r.act # "accept"
    /\ a \in r.left
    /\ AllFree(<<r.i, a>>)
    /\ st' = IF Exists(<<r.i, a>>)
             THEN [st EXCEPT ![<<r.i, a>>] = [ty \in StatusTypes |-> "cancelled"]]
             ELSE st
    /\ request' = (request \ {r}) \cup {[r EXCEPT !.left = @ \ {a}]}
    /\ UNCHANGED <<invite, txn, taskVars, owner, expiring, moved, contested>>

\* Mutant: goes on without flagging the transfer IN_PROGRESS.
CheckPendingOnly(r, a) ==
    /\ r.pc = "loop"
    /\ r.act = "accept"
    /\ a \in r.left
    /\ IF st[<<r.i, a>>]["global"] = "pending"
       THEN request' = (request \ {r}) \cup
              {[r EXCEPT !.pc = "reassign", !.cur = a, !.left = @ \ {a}]}
       ELSE Finish(r)
    /\ UNCHANGED <<rowVars, taskVars, owner, expiring, moved, contested>>

\* Accepted: `transfer_project` raises unless the GLOBAL row is PENDING.
CheckPending(r, a) ==
    /\ r.pc = "loop"
    /\ r.act = "accept"
    /\ a \in r.left
    /\ IF st[<<r.i, a>>]["global"] = "pending"
       THEN request' = (request \ {r}) \cup
              {[r EXCEPT !.pc = "begin", !.cur = a, !.left = @ \ {a}]}
       ELSE Finish(r)
    /\ UNCHANGED <<rowVars, taskVars, owner, expiring, moved, contested>>

\* Mutant: the tasks are queued before the project is reassigned.
BeginTransferAndDelay(r) ==
    /\ r.pc = "begin"
    /\ Exists(Cur(r))
    /\ SetGlobal(Cur(r), "in_progress", st)
    /\ At(r, "media_files")
    /\ UNCHANGED <<txn, taskVars, owner, expiring, moved, contested>>

BeginTransfer(r) ==
    /\ r.pc = "begin"
    /\ IF Exists(Cur(r))
       THEN SetGlobal(Cur(r), "in_progress", st) /\ At(r, "reassign")
       ELSE UNCHANGED <<st, invite>> /\ Finish(r)
    /\ UNCHANGED <<txn, taskVars, owner, expiring, moved, contested>>

\* The transaction that gives the project to the recipient.  Nothing of a draft
\* needs moving but its media files: the two other rows become SUCCESS at once.
ReassignProject(r) ==
    LET hasDeployment == r.cur \in Deployed
    IN  /\ r.pc = "reassign"
        /\ owner' = [owner EXCEPT ![r.cur] = Recipient[r.i]]
        /\ moved' = moved \cup {Cur(r)}
        /\ IF hasDeployment
           THEN /\ UNCHANGED st
                /\ At(r, "submissions")
           ELSE /\ AllFree(Cur(r))
                /\ st' = IF Exists(Cur(r))
                         THEN [st EXCEPT ![Cur(r)]["submissions"] = "success",
                                         ![Cur(r)]["attachments"] = "success"]
                         ELSE st
                /\ At(r, "media_files")
        /\ UNCHANGED <<invite, txn, taskVars, expiring, contested>>

\* `async_task.delay`, first for the submissions, then for the media files.
DelayTask(r) ==
    /\ r.pc \in {"submissions", "media_files"}
    /\ Enqueue(Cur(r), r.pc)
    /\ At(r, IF r.pc = "submissions" THEN "media_files" ELSE "loop")
    /\ UNCHANGED <<rowVars, job, stuck, old, loc, done, owner, expiring,
                   moved, contested>>

\* An exception after the GLOBAL row was flagged: the `finally` block.
TransferError(r) ==
    /\ "error" \in Faults
    /\ r.pc \in {"reassign", "submissions", "media_files"}
    /\ At(r, "fail")
    /\ UNCHANGED <<rowVars, taskVars, owner, expiring, moved, contested>>

FailTransfer(r) ==
    /\ r.pc = "fail"
    /\ IF Exists(Cur(r))
       THEN SetGlobal(Cur(r), "failed", st)
       ELSE UNCHANGED <<st, invite>>
    /\ Finish(r)
    /\ UNCHANGED <<txn, taskVars, owner, expiring, moved, contested>>

EndRequest(r) ==
    /\ r.pc = "loop"
    /\ r.left = {}
    /\ Finish(r)
    /\ UNCHANGED <<rowVars, taskVars, owner, expiring, moved, contested>>

WebCrash(r) ==
    /\ "webcrash" \in Faults
    /\ Finish(r)
    /\ UNCHANGED <<rowVars, taskVars, owner, expiring, moved, contested>>

----------------------------------------------------------------------------
(* Other writers of the invites.  Expiry (14 days) and retention (30 days)  *)
(* are longer than the STUCK threshold: they concern old invites only.      *)

\* `mark_as_expired` reads the pending invites it will expire ...
ScanExpired ==
    LET due == {i \in old : invite[i] = "pending"}
    IN  /\ expiring = {}
        /\ due # {}
        /\ expiring' \in (SUBSET due) \ {{}}
        /\ UNCHANGED <<rowVars, taskVars, owner, request, moved, contested>>

\* ... and updates them in bulk, whatever has become of them.
WriteExpired ==
    /\ expiring # {}
    /\ invite' = [i \in Invites |->
                    IF i \in expiring /\ Live(i) THEN "expired" ELSE invite[i]]
    /\ expiring' = {}
    /\ UNCHANGED <<st, txn, taskVars, owner, request, moved, contested>>

\* `garbage_collector`: the rows go with the invite.
DeleteInvite(i) ==
    /\ Live(i)
    /\ i \in old
    /\ invite[i] # "failed"
    /\ \A t \in TransfersOf(i) : AllFree(t)
    /\ invite' = [invite EXCEPT ![i] = "deleted"]
    /\ st' = [t \in Transfers |->
                IF t[1] = i THEN [ty \in StatusTypes |-> "none"] ELSE st[t]]
    /\ UNCHANGED <<txn, taskVars, owner, requestVars>>

\* `toggle_asset_statuses`, when the project is moved to the trash: its pending
\* invites are cancelled, their rows are not.
TrashAsset(a) ==
    LET hit == {i \in Invites : invite[i] = "pending" /\ a \in Scope[i]}
    IN  /\ hit # {}
        /\ invite' = [i \in Invites |->
                        IF i \in hit THEN "cancelled" ELSE invite[i]]
        /\ UNCHANGED <<st, txn, taskVars, owner, requestVars>>
=============================================================================
