# A TLA+ model of KPI (KoboToolbox)

KPI is the Django application behind KoboToolbox: projects ("assets"), their forms,
permissions and deployments, and the jobs around them. Submissions live in KoBoCAT (a
second Django application with a PostgreSQL database of its own) and in MongoDB; files in
a storage bucket; background work runs in celery workers, on a schedule kept by celery
beat. Nothing coordinates these parts but rows of the database, most of them read, held in
memory and written back without a lock. The rows, and the order in which requests, tasks
and periodic tasks touch them, are what is modelled here.

Source paths below are relative to `src/`; `PO/` stands for `kobo/apps/project_ownership/`,
`TB/` for `kobo/apps/trash_bin/` and `DB/` for `kpi/deployment_backends/`.

## 1. Inventory

| Component | State | Operations | What makes it hard | What makes it correct |
|---|---|---|---|---|
| **Ownership transfer** (`PO/`) | invite; per project a transfer with four status rows (GLOBAL, SUBMISSIONS, ATTACHMENTS, MEDIA_FILES); owner of the project; where submissions and files are filed | create, accept, decline, cancel an invite; `async_task` and its signal handlers; rescheduler, stuck marker, expiry, garbage collector; the trash bin cancels invites | two transactions aggregating sibling rows at READ COMMITTED, killed workers, duplicated tasks, several requests on one invite | success means that the work is done and the data is with the new owner; a transfer in progress ends; a project is reassigned once |
| **Trash bin** (`TB/`, callers in `kpi/serializers/v2/asset.py`, `hub/admin/extend_user.py`, `kpi/views/current_user.py`) | rows of ProjectTrash and AccountTrash, their periodic tasks, the flags of projects and users | delete, undelete, total deletion, empty by hand, `empty_project`, `empty_account`, their handlers, garbage collector | one row emptied through several messages, put-back against deletion, retries against a status that says "in progress" | what waits is scheduled, what is put back survives, what is due is deleted |
| **Object permissions** (`kpi/mixins/object_permission.py`, `kpi/models/asset.py`, the two assignment serializers) | rows (user, permission, deny, inherited) per asset, filters of partial permissions, parents | `assign_perm`, `remove_perm`, bulk lists, copy, move, recalculation for descendants | implied, contradictory and inherited permissions in nested calls both ways; a request cache | closed under implication, never contradictory, the owner keeps all, children agree with parents |
| **KoBoCAT permission copy** (`DB/kc_access/`) | permissions of the second database | written by each nested call | a change that misses one | what KPI grants on submissions KoBoCAT grants |
| **REST services** (`kobo/apps/hook/`) | hooks; a log per (hook, submission): status, tries | signal, send with retries, retry of one log, retry of all | the log is read and written back by whoever sends; no unique key | SUCCESS is an accepted delivery; nothing is given up early or stays PENDING |
| **Exports** (`kpi/models/import_export_task.py`, `kpi/tasks.py`) | task rows, stored files | run, mark stuck ones, remove the excess, delete | each task's housekeeping loads other rows and saves or deletes them later | COMPLETE has its file, the limit is kept, an export ends |
| **Form media** (`DB/kobocat_backend.py: sync_media_files`) | asset files, KoBoCAT's metadata | upload, delete, sync | two stores, two lists read once, partial failure | both hold the same files; what was not KPI's stays |
| **Assets, versions, deployment** (`kpi/models/asset.py`, `DB/mixin.py`) | asset row, versions, KoBoCAT's form | save, deploy, redeploy, archive, Enketo links, bulk toggles | no transaction: load, talk to KoBoCAT, save whole | what is published is a version, and the one recorded |
| **Supplementary details** (`kobo/apps/subsequences/`) | transcripts, revisions, translation slots | revise, ask for a translation, poll, store | a lock in the requests, none in the task | a transcript is not lost; a translation is of its own field |
| **Submissions through KoBoCAT** (`kpi/views/v2/data.py`, `DB/base_backend.py`) | submissions, audit log | delete, set the validation status; one, a list, a query, all; partial permissions | who is meant is looked up three times while data arrive | only what is meant and allowed changes; the audit log is true |
| **Paired data** (`kpi/models/paired_data.py`, `kpi/views/v2/paired_data.py`) | link, cached XML file | link, change, unlink, fetch; the source stops sharing | the cache is voided before the link is saved; exports in flight | the cache is of the link and shows only what is shared |
| **Usage counters, accounts/MFA, organizations/billing, project views, audit log, languages, reports, query parser, front end** | - | thin layers, reads or pure formatting | - | - |

Interactions. A request writes rows and queues messages; a worker takes a message (which
acknowledges it), reads the rows and writes them through short transactions; celery beat
reads rows and queues messages or writes rows itself. The trash bin cancels pending
invites (`TB/models/project.py:84`) and flips a project's deployment flags, a transfer
changes the owner on which tasks and permissions depend, a deployment copies the
permissions to KoBoCAT and queues the media synchronisation, and deleting an asset deletes
the rows that refer to it. `PROJECT.json` lists the hazards of this code, each at its line.

## 2. Modules and the code they stand for

    TransferContract     what a transfer promises
    TransferRows         rows and transactions       PO/models/transfer.py, invite.py, choices.py
      TransferTasks      queue, workers, beat        PO/tasks.py, utils.py
        TransferRequests invites and requests        PO/serializers/invite.py
          OwnershipTransfer          composition, properties, inductive invariants, refinement
            OwnershipTransferProofs      types, safety, OwnershipTransfer implements
                                         TransferContract, what COMPLETE and SUCCESS say
            MCOwnershipTransfer          instances for TLC
    TrashBin             rows, tasks, requests       TB/tasks.py, utils.py, admin.py and callers
      TrashBinProofs, MCTrashBin
    AccessRules          one user and one asset      kpi/models/asset.py (tables), assign_perm, remove_perm
      ObjectPermissions  collections, requests       kpi/mixins/object_permission.py, serializers
        ObjectPermissionsProofs, MCObjectPermissions
    HookDelivery         REST services               kobo/apps/hook/
    ExportTasks          asynchronous exports        kpi/models/import_export_task.py
    MediaSync            form media                  DB/kobocat_backend.py:1130
    AssetDeployment      versions and deployment     kpi/models/asset.py, DB/mixin.py
    SupplementalDetails  transcripts, translations   kobo/apps/subsequences/
    SubmissionRequests   deletion, validation status kpi/views/v2/data.py, DB/base_backend.py
    PairedData           linked projects             kpi/models/paired_data.py, views/v2/paired_data.py
      MCProjectServices  the seven of them for TLC
    BackgroundJobsProofs       about HookDelivery and ExportTasks
    AssetDeploymentProofs      about AssetDeployment and MediaSync
    ProjectRequestsProofs      about SubmissionRequests, PairedData and SupplementalDetails
      ProjectServicesProofs    about MCProjectServices: the seven of them together
    FiniteRecursion            lemmas on recursive functions, for the proofs

The modules of the transfer extend one another, because they share the rows: each adds its
own variables, type invariant and actions, and `OwnershipTransfer` conjoins them. The seven
services share no state that a property speaks of; `MCProjectServices` runs each of them,
chosen by `focus` in the initial state, in one run.

An operator whose comment begins with *Mutant* is a plausible wrong form of the definition
after it. It is used only to see that the properties notice.

### Transfer

- `invite[i]`, `st[t][ty]`: the status columns of `Invite` and `TransferStatus`. A transfer
  is a pair of an invite and a project. "none" stands for the absence of a row, "deleted"
  for an invite that the garbage collector removed.
- `txn`: open transactions of `TransferStatus.update_status` (`transfer.py:349-386`). The
  row is locked and the siblings are read in `BeginUpdate`; row, GLOBAL row and invite are
  written in `CommitUpdate`. Only the own row is locked, so transactions on sibling rows
  overlap, as they do in PostgreSQL at READ COMMITTED. With the status IN_PROGRESS the
  code leaves the parent alone, and one step (`KeepInProgress`) is enough.
- `queue`, `job`: the broker, as a count of copies of each message, and the running
  `async_task`s, each with a program counter: begin, work, mark, commit, chain, and the two
  kinds of failure handler. Faults (`TaskError`, `SoftTimeout`, `Killed`,
  `ContainerCrash`) are separate actions that an instance may switch on by the constant
  `Faults`.
- `stuck`, `old`: `mark_stuck_tasks_as_failed` reads a list of rows and updates them one by
  one later. An invite is `old` once the threshold has passed since its *creation*, which
  is what `date_created__lte` (`tasks.py:194`) tests.
- `owner`, `loc`: the owner of each project and the account under which its submissions,
  attachments and media files are filed; `done` and `moved` are history variables.
- `request`: an HTTP request between two of its database accesses. The status is validated
  when the invite is loaded and saved later without a lock.
- `expiring`: the same of `mark_as_expired`.

Abstractions. A deployed project has data. A row IN_PROGRESS may have been quiet for ten
minutes at any time (what the rescheduler tests). Expiry and retention, 14 and 30 days, are
longer than the stuck threshold, so they concern old invites only. The retry of a soft
time-out is queued at once; the limit on retries is not reached. The SIGKILL of a worker
while it runs a failure handler is left out. Permissions, e-mails, in-app messages,
counters and the KoBoCAT flag `suspend_submissions` are left out (the flag is set and reset
inside one transaction and is never visible outside). Each invite's parties and projects
are fixed by the instance.

`TransferContract` states the same in terms of what the parties see and what really
happens: `report[t]` and `answer[i]` against `work[t]` and `moved`. A success is reported
only when the work is done, work follows the move, the move follows the report that the
transfer has begun, an invite is offered once and settled by its transfers. The mapping
(`Contract` in `OwnershipTransfer`) takes `report` from the GLOBAL row, `answer` from the
invite and `work` and `moved` from the histories; queue, transactions, requests and subtask
rows are hidden. It allows a success to be overwritten and a move under a cancelled invite,
because the code does both (section 3).

### Trash bin

- `trash[o]`: the row of object `o` in the table of its kind: primary key, status and
  `retain_placeholder`. The key matters, because a message carries the key only and
  `empty_project_retry` looks it up in the wrong table. `next` numbers the rows.
- `hidden`, `gone`: flags written by `toggle_asset_statuses` / `toggle_user_statuses`, and
  objects hard-deleted. A deletion removes the trash row by cascade.
- `periodic`, `enabled`: rows of `PeriodicTask` with their unique name, and those that
  celery beat has still to fire (a one-off task is disabled when it is sent). They outlive
  their trash row until the task's last step or `garbage_collector` removes them.
- `queue`, `job`, `request`: as above. `job` begins after the transaction that locks the
  row, tests its status and flags it IN_PROGRESS; `retry` and `fail` are the signal
  handlers, which run after that transaction and take the lock again.
- A request toggles the flags and moves the rows in two transactions; the order of the two
  is the other one for an account that is deleted.
- "Empty trash" in the admin sends another message for a row, of a project or an account,
  whatever its state. `doubled` is the history of the accounts' tasks that were sent so while
  there was one already.

Abstractions. The names of projects and users do not change. A placeholder is not put in
the trash again. Audit logs, archiving (`toggle_delete=False`) and worker crashes are left
out. `move_to_trash`, `put_back` and `garbage_collector`, one transaction each, are one step.

### Permissions

`AccessRules` has the tables of the `Asset` class (assignable, implied, contradictory,
heritable permissions) and, for the rows `x` about one user and one asset, what
`assign_perm`, its denying form and `remove_perm` with all their nested calls make of them:
`Granting`, `Denying`, `Revoking`. A record of sets stands for the rows, as their unique
key makes them; `filters` is the row of the partial permission, reduced to the permissions
it filters (never empty when written); `kc` is KoBoCAT's copy. `Filtering` and `Unfiltered`
are `_update_partial_permissions`, which nested calls reach too (`MeetsDenial`).

`ObjectPermissions` adds the users, the tree of collections and the requests:
`access[a][u]`, `parent[a]`, `deployed`, and `lagging`, the history of children whose
collection changed without passing it on. Each request is one step, as it is one
transaction; the order in which nested calls and rows are taken is inside it. The request
cache of `__get_all_object_permissions` is a choice: a revocation passes on the rows as
they were unless a denial was saved or the user is a superuser (`RemovePerm`, `cached`).
`Descended` is the recursion over the children, by a function over the assets.

Abstractions. The owner of an asset does not change here. Which submissions a filter
selects is left out; the filters of two users do not mix. Model-level permissions, labels
and the read-only helpers are left out. KPI's and KoBoCAT's transactions commit together.

### Project services

- `HookDelivery`. `logs[d]` are the rows of a (hook, submission), several when two first
  sends overlap. A sender posts, reads the log, and writes the row it read back
  (`Post`, `ReadLog`, `SaveLog`), with the tries of that copy; `sends[d][n]` counts celery's
  retries. `RetryAll` / `MarkPending` / `StartRetryAll` are the bulk retry in its three
  pieces; a log is marked as pending and its retry queued in one step, so a process that dies
  between the two is left out. Payloads, endpoints and report e-mails are data.
- `ExportTasks`. Exports are numbered in the order they are requested; `aged` says which
  have passed the age limit. `run[e]` is the task with the rows it has loaded: first those
  that look stuck, then its own work, then those in excess. Saving an instance writes the
  whole row back, so a loaded copy may undo what happened meanwhile. Deletion by the user
  removes the files, then the rows.
- `MediaSync`. `asset_files` and `kc` are the two stores; a task reads KoBoCAT's list and
  then KPI's, once, and sends a request per file. KoBoCAT refuses a second file of a name
  and does not find one that is gone, which ends the task. An upload looks for its name when
  it is validated and is saved later (`uploading`), with nothing held in between and no unique
  key, so two uploads of a name that overlap leave two live files. Uploads made directly to
  KoBoCAT are actions too.
- `AssetDeployment`. One survey: `asset` (the row), `versions` in the order of
  `date_modified`, `form` (KoBoCAT's). A request holds the copy it loaded: an edit saves the
  whole row and then makes the version; a deployment builds the form from its copy and the
  latest version, sends it, reads the latest version again, marks it, and saves the whole
  row; archiving and Enketo links save parts. `BreakOff` is KoBoCAT not answering or a
  killed process between any two steps.
- `SupplementalDetails`. `details` per field: a transcript with revisions and one slot for
  a translation. A request names any of the fields, in the order of its JSON, with a
  transcript, a slot or both for each; `Edits` is the set of requests that users send, any
  set that the schema admits. A slot is stored as it was sent, whatever its status and text;
  `claimed` is the history of those that do not ask for a translation. A request takes the
  row's lock, compiles its edit and runs the loop over the fields that have a request pending;
  a long text is left to a task (`operations`) that polls, then reads and saves the row
  without the lock.
- `SubmissionRequests`. `answer[s]` is what a query can tell of a submission. A request
  lists what it will log (with the permission to view), validates itself against the partial
  permission, narrows its target, and sends ids or the query as it came, which KoBoCAT
  resolves against what it has then (`Strike`); the log is written after. `rights` is what
  the user's filters select, fixed for the request. A single deletion whose submission is not
  seen ends there; in the code it goes on, and one that arrives meanwhile is deleted and its
  log entry raises (left out; the history `touched` exempts such a submission anyway).
- `PairedData`. A link (`uid`, fields), the source's sharing, one file per link in `cache`.
  Changing a link voids the file, then saves the link; a fetch loads link and source, looks
  the file up, exports and stores it. `Allowed` and `Exported` are `allowed_fields` and
  `strip_nodes`; a content is represented by what it was made from.

## 3. What each run checks

| Run | Instance | Result |
|---|---|---|
| `transfer_pipeline` | one deployed form, one invite accepted at once, two workers, kills and crashes, one copy added by the rescheduler | `SuccessMeansDone`, `TasksFollowReassign`, `SuccessMeansMoved` hold |
| `transfer_invites` | one invite for two drafts, two requests at a time that may die between any two accesses, expiry, deletion, trash | `CompleteMeansDone`, `CompleteMeansSuccess`, `ReassignIsRecorded` hold |
| `transfer_live` | one worker with errors, soft time-outs and kills, under fairness | `TransferResolves` and the refinement `KeepsContract` hold |
| `lost_completion` | two workers, no fault | `AllDoneMeansSuccess` is violated |
| `cancel_race` | two requests on one invite | `CancelledNeverTransfers` is violated |
| `late_duplicate` | one worker, two copies | `RestartKeepsSuccess` is violated |
| `crash_recovery` | one worker that may crash, under fairness | `TransferResolves` is violated |
| `trash_bin` | an account and its project, two workers, failing calls, retries, an account sent twice, two rows of the account in turn | `PendingIsScheduled`, `OneWorkerPerProject`, `DeletedFromTrashOnly` hold |
| `trash_live` | the same with one row each, under fairness | `AccountsAreEmptied` holds |
| `trash_retry` | KoBoCAT may not answer `empty_project` | `ProjectsAreEmptied` is violated |
| `permissions` | a collection with a template, a survey of somebody else that moves in and out of it and gets deployed, a user and the public | `OwnerHasAll`, `ImpliedHeld`, `NoContradiction`, `PartialHasFilters`, `KcComplete`, `InheritanceFollows`, `BulkGivesWhatItLists` hold |
| `project_services` | each of the seven services with two senders, tasks or requests at a time | see below |

`project_services`, by service: **hooks** `SuccessMeansAccepted` (although stale rows are
written back), `GivesUpLate` (no FAILED before all retries), `QuietMeansSettled` (celery's
and the log's counts end together), `PendingIsRetriable` (under fairness no log stays
PENDING where no user can retry it); **exports** `CompleteHasFile`, `LimitIsKept`,
`CompleteIsFinal`, `ExportsEnd`; **media** `MirrorsWhenAlone` (one undisturbed task repairs
whatever failed or overlapping ones left), `DirectFilesStay`; **deployment**
`PublishedIsVersioned`, `AgreeWhenSerial`; **details** `TranscriptsAreKept`, `SlotsAreTrue`;
**submissions** `AuditMatchesDeletions`, `ChangesAreMeant`; **pairing** `CacheFollowsLink`.
`ServicesTypeOK` is the type invariant of the service in focus.

Each property names its exceptions in its comment: they are what the code gets wrong or
leaves open, and are described below.

The violated properties are what a docstring, the API's documentation or a test says:

1. *Lost completion* (`transfer.py:375`). Two tasks that finish together each decide while
   the other's row is still IN_PROGRESS for them; all rows are SUCCESS, the GLOBAL one
   stays IN_PROGRESS and no periodic task looks at it.
2. *Cancel after accept* (`serializers/invite.py:230`). A project is transferred under an
   invite that ends CANCELLED. The same window lets a late accept reset a declined invite.
3. *Late duplicate* (`PO/tasks.py:255`). The rescheduler queues a copy of a slow task; taken
   after success, the copy finds the GLOBAL row not IN_PROGRESS, raises, and its failure
   handler turns the finished transfer and its invite into failures.
4. *Lost message* (`PO/tasks.py:258`). Only IN_PROGRESS rows are restarted or failed: a worker
   that dies before it flags its row, or between SUBMISSIONS and the queueing of
   ATTACHMENTS, leaves a PENDING row that nobody looks for.
5. *Wrong table* (`TB/tasks.py:255`). The project's row stays IN_PROGRESS and each later
   task returns at once; where an account's row has the same key, that row is set to RETRY
   instead. The passing runs keep the keys of the two tables apart (`ApartPks`).

### Seen while modelling, without a run of its own

*Transfer and trash.* The retry handler of a transfer writes FAILED, so the retry can only
raise (`PO/tasks.py:106`); `max_retry` at `PO/tasks.py:34` is not an option of celery;
`transfer_counters_ownership` adds the storage to and subtracts it from the same profile
(`DB/kobocat_backend.py:1309`); two invites created at once for one project both pass
`validate_assets`; two accepting requests on one invite begin a transfer twice, the second
time after it may have succeeded and completed the invite (hence `contested`, the history of
such invites, in `CompleteMeansSuccess`); a project transferred twice in a row leaves the
files that were still to be moved with the intermediate owner (hence `Only(t)` in `SuccessMeansMoved`); a handler of
a postponed `empty_account` may overwrite the IN_PROGRESS of another delivery when an admin
empties an account whose task is around already: the row says RETRY or FAILED while the
account is being deleted, a total deletion supersedes it or a put-back follows, and the
account is deleted all the same (TLC reaches it; `DeletedFromTrashOnly` exempts the accounts
of `doubled` tasks, and only those); flags and rows of the trash may disagree after a refused
undelete.

*Permissions.* A denial of managing an asset deletes the filters while the partial
permission stays (`asset.py:1310`; revoke an inherited `change_asset`, grant it again, save,
revoke it again, or copy both rows), although "If perm = PERM_PARTIAL_SUBMISSIONS, it must
be accompanied by partial_perms"; a revocation on a collection that denies nothing passes
the revoked permission on from the request cache; `copy_permissions_from` recalculates the
descendants before the target's own inheritance, its result depends on the order of the
rows, and a denied partial permission makes it fail; revoking, granting and revoking an
inherited permission again loses the denial; revoking `view_asset` where the partial
permission is denied already is refused (`Refused`); an inherited row that a denial
overrides counts as existing for a bulk request; granting the partial permission leaves
KoBoCAT's; a collection changed while an asset is moved into it is a write skew.

*REST services.* Two first sends that overlap make two logs, and every later send fails
(MultipleObjectsReturned); a SUCCESS may be overwritten by a stale FAILED; the bulk retry
does not renew the date of the logs, so they may be sent twice.

*Exports.* The stale full save of a stuck export can lose a result or bring a deleted row
back, and exceed the limit with it; files are left without a row; an old queued export is
marked as failed before it has run and is then never run; a synchronous export deletes the
old file before it commits.

*Media.* Two uploads of one name that overlap leave two live files (`asset_file.py:154` looks
before the view saves): KoBoCAT refuses the second one, even with the same content, and every
task ends there until one of them is deleted, which is why `MirrorsWhenAlone` asks for
unique names when the task begins. Overlapping tasks stop one another; a file uploaded directly is deleted when its
hash differs (`DB/kobocat_backend.py:1175`) although a comment says it cannot be.

*Deployment.* The version marked as deployed may not be the one published or stamped when
an edit slips in; a deployment's final save overwrites a concurrent edit, an edit's save
undoes an archiving; an Enketo id is stored with the status of an old copy; an edit that
breaks off leaves content without a version; a crash after `connect` leaves a form for which
every later first deployment is refused; archiving all of a user's projects without a list
takes the drafts too.

*Details.* The schema of a request admits the statuses `in_progress` and `complete` with any
value (`actions/translation.py:110`) and `actions/base.py:49` stores them as sent: a slot may
say that a task is at work where there is none, or hold a text that is not a translation
(`SlotsAreTrue` exempts the slots that a user has sent so, and only those). The first field in progress raises UnboundLocalError, or the text of another
field is translated into the slot; the task saves without the lock; the deletion mark is
stored literally when there is nothing to delete; a deletion drops the revisions.

*Submissions.* The comment at `views/v2/data.py:351` says that a partial user's request is
rejected, but a query is narrowed, and the log then names submissions that were not deleted
(`spared`); an arrival between the two reads refuses a legitimate request; a deletion by
query may include unlogged arrivals.

*Paired data.* A link whose fields are none of those shared exports all of them
(`allowed_fields` is empty and `strip_nodes` tests `len(nodes_to_keep)`); an export in flight
stores the file again after a change or deletion of the link; two first fetches collide on
the file's unique uid; narrowing what the source shares does not void the cache.

### Bounds

*Transfer.* One invite: transfers of different invites meet only in the project's owner and
files, and the code is known to be wrong there (above). One project is enough for the four
rows of a transfer, two for the aggregation into the invite. Two workers are the most that
work on one transfer at a time without duplicates (SUBMISSIONS and MEDIA_FILES); with them
every pair of `update_status` transactions overlaps. `MaxQueue` bounds only the copies that
the rescheduler adds, never those the code queues itself; one makes a duplicate run beside
the original and two after it.

*Trash bin.* `MaxRows` rows per table let an account be deleted, superseded or put back and
deleted again, `MaxRetries` = 1 reaches both the retry and the failure handler, and one
client serves one request at a time beside the account's owner, the admin, beat and the
collector. In `trash_bin` KoBoCAT fails for accounts only (715,000 states; checked alone with
both: two million): a project that failed just stays IN_PROGRESS (5. above) and its account
waits. `trash_live` has the failures of both. `MaxDoubled` bounds how many accounts' tasks an admin sends although they are around:
one in `trash_bin` and `trash_retry`, which reaches the exemption of `DeletedFromTrashOnly`;
none in `trash_live`, where an admin sends accounts only when their task is not around (with
one, `AccountsAreEmptied` was checked alone: 422,000 states). Whatever the bound,
and also where the keys of the tables collide, `DeletedFromTrashOnly` is proved (section 4).

*Permissions* (about 100,000 states). A collection with two children, one that stays in it
and one that comes and goes; carol gets there by inheritance, by direct grants and by bulk
lists, with a filter that implies others; the public has a flag in KoBoCAT. `Granted` and
`Lists` are chosen so that every rule of implication, contradiction and inheritance fires
and requests of any length follow one another: nothing bounds their number.

*Services* (about 460,000 states). Two senders, tasks, requests or posters are the least
that overlap, and each property is about pairs. `MaxRetries` = 1 has a first and a last
retry; `MaxExports` = 1 with two exports puts one in excess; two uploads, one direct action
and two tasks let a file be replaced while another task runs (two file names were checked
alone, 288,000 states); three requests on a survey let an edit and a deployment overlap after
a first one (four were checked alone); three posts overlap on two fields, with every
transcript and its deletion, a translation asked for in either field, slots sent as complete
and as in progress, and one request for both fields in the other order, which makes the loop
carry a translation over from one field to the other (`crossed`); three submissions are one that
is asked for, one that is not and one that arrives; three visits are a fetch beside a change
and a fetch after it (four were checked alone, 89,000 states); one link at a time is all the
file of a uid can tell apart. `FieldLists` has the empty list, which means all, disjoint
lists and overlapping ones.

Runs set `CHECK_DEADLOCK FALSE` because the system rests when all invites are settled,
everything is deleted or the bounds on requests are used up. Symmetry is used for workers and
clients only, and in runs without liveness properties.

### Fairness

Workers take messages and finish the step they are at, celery beat runs its periodic
tasks, time passes, and the web server finishes its requests: weak fairness of each. That
is what the supervisor of the containers and the schedule give. Faults, user requests and the
rescheduler (which may find every row fresh) are not fair. In the trash bin each message is
eventually taken (strong fairness per message, as the worker it needs is busy now and
then): the broker is a queue. `AccountsAreEmptied` needs no fairness of KoBoCAT: retries
run out and the row ends FAILED. REST services: a sender at work goes on, a waiting message
is taken, time passes. Exports: each task goes on unless it is killed, which `ExportsEnd`
exempts; nobody deletes for certain. Nothing else is assumed fair, and nothing else is
claimed to happen.

## 4. What is proved

For every value of the constants that satisfies the assumptions of the modules (projects,
invites, users, workers, clients, submissions and faults, finite or not unless an assumption
says so):

| Module | Theorems | State |
|---|---|---|
| `OwnershipTransferProofs` | `TypeCorrect`, `SuccessIsEarned`, `CompletionIsEarned`, `TasksAreFollowing` | `TypeOK`, `SuccessMeansDone`, `CompleteMeansDone`, `TasksFollowReassign` |
| | `ReassignLeavesPending`, `ContractIsKept` | `ReassignIsRecorded`, and `Spec => KeepsContract` |
| | `TransfersBeginOnce`, `CompletionIsWhole`, `DataFollowsTransfer`, `SuccessMovesData` | `BegunOnce`, `CompleteMeansSuccess`, where the data of a project is at every moment, `SuccessMeansMoved` |
| `TrashBinProofs` | `TrashTypeCorrect`, `PendingStaysScheduled`, `ProjectsHaveOneWorker`, `DeletedWhileInTrash` | `TypeOK`, `PendingIsScheduled`, `OneWorkerPerProject`, `DeletedFromTrashOnly` |
| `ObjectPermissionsProofs` | `PermissionsTypeCorrect`, `OwnersKeepAll`, `ImpliedAreHeld`, `NothingContradicts`, `PartialIsFiltered`, `KobocatIsComplete`, `InheritanceIsFollowed`, `BulkRequestsGive` | `TypeOK`, `OwnerHasAll`, `ImpliedHeld`, `NoContradiction`, `PartialHasFilters`, `KcComplete`, `InheritanceFollows`, `BulkGivesWhatItLists` |
| | `AssigningKeepsSound`, `DenyingKeepsSound`, `RevokingKeepsSound`, `InheritingKeepsSound`, `SoundRowsAreRight` | about the operators of `AccessRules` |
| `BackgroundJobsProofs` | `HooksTypeCorrect`, `SuccessIsAccepted`, `TriesAreCounted`, `DeliveriesAreRetried`, `QuietIsSettled` | `HooksTypeOK`, `SuccessMeansAccepted`, `TriesAreMade` and `FailedIsTired`, `GivesUpLate`, `QuietMeansSettled` |
| | `ExportsTypeCorrect`, `CompleteExportsHaveFiles`, `CompleteExportsAreFew`, `CompleteExportsStay` | `ExportsTypeOK`, `CompleteHasFile`, `LimitIsKept`, `CompleteIsFinal` |
| `AssetDeploymentProofs` | `DeploymentTypeCorrect`, `PublishedHasVersion`, `SerialRequestsAgree` | `DeploymentTypeOK`, `PublishedIsVersioned`, `AgreeWhenSerial` |
| | `MediaTypeCorrect`, `AloneIsMirrored`, `DirectFilesAreKept` | `MediaTypeOK`, `MirrorsWhenAlone`, `DirectFilesStay` |
| `ProjectRequestsProofs` | `SubmissionsTypeCorrect`, `RequestsChangeTheirOwn`, `AuditIsRight` | `SubmissionsTypeOK`, `ChangesAreMeant`, `AuditMatchesDeletions` |
| | `PairedDataTypeCorrect`, `CacheIsFaithful` | `PairedTypeOK`, `CacheFollowsLink` |
| | `DetailsTypeCorrect`, `DetailsAreTrue`, `TranscriptsStay`, `SlotsStayTrue` | `DetailsTypeOK`, `DetailsInv`, `TranscriptsAreKept`, `SlotsAreTrue` |
| `ProjectServicesProofs` | `ServicesRunApart`, `ServicesTypeCorrect` | `ServicesSpec` implies the specification of each service; `ServicesTypeOK` |

The assumptions say what the constants stand for: bounds are numbers; the assets of the
permissions and the objects of the trash are finite sets; owners, places, lists and filters
are of the assets and users there are; and marks for "nothing there" are not among the values
they replace (`DetailsAssumption`: no text is the mark of an absent or emptied record,
`NoPoster` is no request). `EditsAssumption` says only that each request is one the schema
admits.

`DeletedWhileInTrash` holds whatever the keys of the two tables are, although the retry
handler may write over the row of an account whose key collides.

The arguments:

- *Success of a transfer.* `SuccessMeansDone` is not inductive: a GLOBAL row becomes SUCCESS
  because a transaction decided so earlier, from rows that were SUCCESS then and may not be
  any more. What survives the interleaving is that work done stays done. `WorkRecorded` says
  so of every place where a success is written down or about to be: the rows, the
  transactions in flight (their own value and the outcome they have decided) and the tasks
  between their work and their mark. `ReassignComesFirst` adds to `TasksFollowReassign` the
  two other sources of a message: a row IN_PROGRESS, which the rescheduler turns into one,
  and a request past the reassignment.
- *Refinement.* Every step that writes a GLOBAL row or an invite must be a `Report`, `Reply`,
  `Offer`, `Forget` or `Cancel` of the contract. That needs to know which rows go with which
  invite, and that a request past the check has left PENDING behind: `RowsFollowInvite`
  (`InviteHasRows`).
- *Outcome of a transfer.* `CompleteMeansSuccess` needs that a transfer is begun once: a second
  accepting request would put a successful one back to IN_PROGRESS. What an uncontested
  request has still to begin is therefore PENDING or untouched by it (`BegunOnce`). For
  `SuccessMeansMoved` the places of the data are followed from the reassignment on: what a
  transfer has not moved yet is where it was, what it has moved stays, because no other
  transfer of the project is begun (`Only`), and SUCCESS means all three kinds were moved.
- *Trash.* Primary keys are given once and counted; a periodic task or message of a key is of
  the object whose row has it; a task at work, of a project, has the row locked or flagged,
  so a second one returns at once. The step that would break `PendingIsScheduled`, a PENDING
  row whose periodic task is removed, happens only with the row. What is deleted has its row
  at that moment, past PENDING: the task of an account that is not `doubled` is in one place at
  a time, with beat, in a message or with a worker (`InOnePlace`), so nobody rewrites the row of an account under
  way; a second task of a project may, but only to RETRY, which a restore or a total deletion
  does not take, or finds the project gone (`RowsAreHeld`).
- *REST services.* Every copy of a row is true: the rows, the row a sender holds, and those a
  bulk retry has loaded say SUCCESS only of accepted deliveries, so writing any of them back
  is safe, however old. `GivesUpLate` counts: the tries of each copy, plus the attempts that
  senders have made and not logged yet, are at most the attempts made (`TriesAreMade`). A step
  that adds a try to a row takes it out of its sender's hands, so an attempt is not counted
  twice by a late copy; and a row that is FAILED, or a copy of it, has counted more than
  `MaxRetries` (`FailedIsTired`), as long as there is a single one. `QuietMeansSettled` follows
  a delivery that nobody has disturbed (`InOrder`): it is in one place at a time, waiting with
  celery, with one sender or on the list of one bulk retry, and in the first two celery's
  count of the retries is the log's count of the tries, so both end with the same attempt.
- *Exports.* The limit is kept although each task lists what is in excess, erases it later and
  completes after that, or fails at any point. Counting the COMPLETE rows is not inductive,
  since those that will be removed are still there; what is: for every choice of tasks that
  will fail, the exports that are COMPLETE or will be, less those listed by a task that does
  not fail, are at most the limit. When a task fails that was one of the choices. Numbering
  makes the newest ones the least, hence the lemmas on least elements and cardinalities.
- *Deployment.* The content of every copy, of the row and of the form is accounted for: by a
  version, by a request about to make one, or by one that broke off before
  (`ContentIsAccounted`); versions are only added or moved. `SerialRequestsAgree` says what the
  three copies (row, versions, form) have in common at each place of the only request under
  way (`UnderWay`); at rest they agree.
- *Media.* A task that runs alone is described by what its two lists account for (`Settling`):
  every file of KPI and every row of KoBoCAT is right already, or on a list, or the file is
  still to be sent, as long as the names were unique when it began and no upload has been
  saved since. A file that is sent gets a new key; that there is one left, which no task
  remembers, is a pigeonhole argument over the bounds on uploads, direct actions and tasks.
- *Submissions.* For a submission that nothing has touched, what a request has listed,
  allowed and narrowed to is still right when KoBoCAT looks it up.
- *Paired data.* A request that changes the link and one in flight are either alone or
  recorded as overlapping; alone, the file is empty or of the link from the moment the change
  begins until it ends, and what a fetch has in hand is of the link.
- *Supplementary details.* While a request compiles its edit and works through the fields it
  holds the row, so the copy it stores is what was stored with its own edit added, unless a
  task wrote in between; a task that has overwritten nothing stores what it has just read,
  with its translation added (`DetailsInv`). Slots that users send are stored with the mark
  `claimed`, so the invariant does not depend on which requests are sent. The loop over the fields carries a text from one
  field to the next: after any number of rounds each slot is true of its field or the field is
  recorded as crossed, and no transcript has changed.
- *Services together.* Each step of `MCProjectServices` is a step of one service and stutters
  for the other six, so a behaviour of all is one of each.
- *Permissions.* The rows of a user who is not the owner are `Sound` when they begin (none)
  and stay so under each operation, whatever the order of nested calls: grants closed under
  implication and disjoint from denials, viewing never denied without changing, what
  contradicts the partial permission never denied without managing, and filters unless
  managing is denied. Denials as a whole are not closed, because granting the partial
  permission lifts some of them; that is why `Closed` asks for two cases only.
  `SoundRowsAreRight` reads `ImpliedHeld`, `NoContradiction` and `PartialHasFilters` off sound
  rows. Every request is made of these operations: bulk lists (`Replacing`) and copies fold
  them over a finite set, and `Descended` recurses over the children. What a recursive
  function computes is only known once it is known to exist (`FiniteRecursion`); the
  collections have no cycles (a move of one into itself fails and is undone), so the
  recursions are over well-founded relations on finite sets. For inheritance two
  things are then followed through each request: what a user inherits is within what he has
  on the collection (`Within`), and a request that touches a collection leaves its children
  following it or records them as `lagging`. For `BulkGivesWhatItLists` the two folds of a bulk
  request are followed entry by entry: a removal takes the listed permission and what implies
  it, and leaves what the rows still have of the list (`RemovalsLeave`); an addition gives its
  permission and what it implies, and takes nothing that is listed (`AdditionsGive`). The
  invariant is indexed by the set of entries folded so far, since nothing fixes their order.

The inductive invariants that are not obvious were checked by TLC on the instances of the
runs before they were proved. Trying to prove `InheritanceFollows` found a mistake of the model:
a copy from an asset without rows passes nothing on to the descendants, so those that lagged
still do (`some` in `CopyPermissions`). Trying to prove `BulkGivesWhatItLists` found one of the
property: for a list that contradicts itself, which the serializer accepts (the partial
permission beside viewing all submissions), the result depends on the order of a set. The
property exempts such lists, and the run now has one.

`FiniteRecursion` has what these proofs share. A recursive function is known to solve its
equation only once a solution is known to exist: `RecursionExists` gives one along any relation
that arrives at a base in finitely many steps, `InductionAlong` carries a property along it, and
`CountingArrives` is the case of the numbers up to `n` (loops, retries, folds).

Every invariant that a passing run checks is proved. Only model-checked: all liveness
(`TransferResolves` and the other temporal properties with fairness; TLAPS 1.4.5 proves neither
liveness under fairness nor ENABLED). The properties of the five runs that expect a violation
are false of the code.

## 5. Not modelled, and what is left

- *Not modelled.* Several languages, qualitative analysis and the polling transcription of
  the supplementary details; editing, duplicating and bulk updates of submissions, which
  KoBoCAT resolves; snapshots, cloning, libraries and the content of forms; the files of
  paired data and map layers among the media; imports, synchronous exports and the files'
  content; the isolation of concurrent permission requests, about which the code says nothing
  beyond "one transaction"; worker crashes in the trash bin.
- *Nothing to model.* Accounts and MFA, organizations and billing, project views, languages
  and reports are thin layers over libraries, reads or append-only writes; usage counters are
  single SQL statements; the query parser and the front end are formatting and presentation.
  Serializers, views, settings, migrations and admin pages of this kind are most of the
  code's 55,000 lines: no property of a protocol would tell them apart, which is why the
  mapped lines are a small share of the whole.
- *Left.* A second link and a second source in `PairedData`; imports beside exports; the crash between
  the commits of KoBoCAT's database and KPI's.
