---------------------------- MODULE HookDelivery ----------------------------
(***************************************************************************)
(* The REST services: each submission is sent to the hooks of its project, *)
(* by a celery task that retries, and logged.  A log is read, and written  *)
(* back as a whole later, by whoever sends: the task, the request of a     *)
(* user who retries one log, the task that retries all logs of a hook.     *)
(***************************************************************************)
EXTENDS Naturals, Sequences, FiniteSets

CONSTANTS
    Hooks,         \* the REST services of a project
    Submissions,
    MaxRetries,    \* HOOK_MAX_RETRIES
    Senders,       \* celery workers and web workers
    MaxSignals,    \* bound: the signals KoBoCAT sends
    MaxRequests    \* bound: the requests of users

ASSUME HooksAssumption == MaxRetries \in Nat /\ MaxSignals \in Nat /\ MaxRequests \in Nat

VARIABLES
    hook,        \* the state of each hook
    logs,        \* logs[d]: the rows of delivery d, in the order of creation
    sends,       \* sends[d][n]: `service_definition_task`s waiting for their n-th retry
    retries,     \* the waiting `retry_all_task`s, each with its logs
    sender,      \* the tasks and requests that are at work, at most one per sender
    signals, requests,   \* how many there have been
    posts,       \* history: how often each delivery has been attempted
    accepted,    \* history: the deliveries that their endpoint has accepted
    disturbed    \* history: those whose task was killed, or was not the only sender

hookVars == <<hook, logs, sends, retries, sender, signals, requests, posts,
              accepted, disturbed>>

Deliveries == Hooks \X Submissions
LogStatuses == {"pending", "failed", "success"}
Row == [status: LogStatuses, tries: Nat, old: BOOLEAN]
LogCopy == [d: Deliveries, k: Nat \ {0}, row: Row]
New == [status |-> "pending", tries |-> 0, old |-> FALSE]

\* check: a log found retriable is about to be flagged PENDING; mark: so are all
\* logs of a hook; post; log: about to read the log; save: about to write it
\* (row k, 0 for a new one); raised: the log could not be read.
Sender == [by: Senders, kind: {"auto", "retry"}, d: Deliveries, n: Nat, ok: BOOLEAN,
           k: Nat, row: Row, left: SUBSET LogCopy,
           pc: {"check", "mark", "post", "log", "save", "raised"}]

HooksTypeOK ==
    /\ hook \in [Hooks -> {"active", "disabled", "deleted"}]
    /\ logs \in [Deliveries -> Seq(Row)]
    /\ sends \in [Deliveries -> [0 .. MaxRetries -> Nat]]
    /\ retries \subseteq [n: Nat, rows: SUBSET (Deliveries \X (Nat \ {0}))]
    /\ sender \subseteq Sender
    /\ signals \in Nat /\ requests \in Nat
    /\ posts \in [Deliveries -> Nat]
    /\ accepted \subseteq Deliveries
    /\ disturbed \subseteq Deliveries

HooksInit ==
    /\ hook = [h \in Hooks |-> "active"]
    /\ logs = [d \in Deliveries |-> << >>]
    /\ sends = [d \in Deliveries |-> [n \in 0 .. MaxRetries |-> 0]]
    /\ retries = {}
    /\ sender = {}
    /\ signals = 0 /\ requests = 0
    /\ posts = [d \in Deliveries |-> 0]
    /\ accepted = {}
    /\ disturbed = {}

----------------------------------------------------------------------------
Rows(h) == UNION {{d} \X DOMAIN logs[d] : d \in {h} \X Submissions}
Idle(w) == \A j \in sender : j.by # w
Concerned(j) == {j.d} \cup {x.d : x \in j.left}
Busy(d) ==
    \/ \E n \in 0 .. MaxRetries : sends[d][n] > 0
    \/ \E m \in retries : \E x \in m.rows : x[1] = d
    \/ \E j \in sender : d \in Concerned(j)
Becomes(j, next) == sender' = (sender \ {j}) \cup {next}
Leave(j) == sender' = sender \ {j}

\* Mutant: a log left PENDING by a task that died is never retried.
CanRetryFailed(row) == row.status = "failed"

\* `can_retry`, of a hook that is active: a log that is still PENDING after the
\* time all automatic retries take may be retried.
CanRetry(row) ==
    \/ row.status = "failed"
    \/ row.status = "pending" /\ row.old

\* Mutants: a try too few, a try too many, a log given up as sent, one not counted.
WrittenEarly(j) ==
    [status |-> IF j.ok THEN "success"
                ELSE IF j.row.tries + 1 >= MaxRetries THEN "failed"
                ELSE j.row.status,
     tries |-> j.row.tries + 1,
     old |-> FALSE]
WrittenLate(j) ==
    [status |-> IF j.ok THEN "success"
                ELSE IF j.row.tries > MaxRetries THEN "failed"
                ELSE j.row.status,
     tries |-> j.row.tries + 1,
     old |-> FALSE]
WrittenHopeful(j) ==
    [status |-> IF j.row.tries >= MaxRetries THEN "success" ELSE j.row.status,
     tries |-> j.row.tries + 1,
     old |-> FALSE]
WrittenNegative(j) ==
    [status |-> IF j.ok THEN "success" ELSE "failed",
     tries |-> j.row.tries - 1,
     old |-> FALSE]

\* `save_log`: what becomes of the row that was read.
Written(j) ==
    [status |-> IF j.ok THEN "success"
                ELSE IF j.row.tries >= MaxRetries THEN "failed"
                ELSE j.row.status,
     tries |-> j.row.tries + 1,
     old |-> FALSE]

\* `change_status`: the row as it was loaded, with another status.
Restated(j, status) == [j.row EXCEPT !.status = status, !.old = FALSE]

\* `retry_all_task` goes on to the next log it has loaded.
Proceed(j) ==
    IF j.left = {}
    THEN Leave(j)
    ELSE \E x \in j.left :
           Becomes(j, [j EXCEPT !.d = x.d, !.k = x.k, !.row = x.row, !.pc = "post",
                                !.left = @ \ {x}])

----------------------------------------------------------------------------
(* Sending *)

\* `call_services`: every active hook without a log of the submission sends it.
Signal(s) ==
    LET called == {d \in Deliveries : /\ d[2] = s
                                      /\ hook[d[1]] = "active"
                                      /\ logs[d] = << >>}
    IN  /\ signals < MaxSignals
        /\ called # {}
        /\ signals' = signals + 1
        /\ sends' = [d \in Deliveries |->
                       IF d \in called THEN [sends[d] EXCEPT ![0] = @ + 1] ELSE sends[d]]
        /\ disturbed' = disturbed \cup {d \in called : Busy(d)}
        /\ UNCHANGED <<hook, logs, retries, sender, requests, posts, accepted>>

\* `service_definition_task` starts; without its hook it fails at once.
StartSend(w, d, n) ==
    /\ Idle(w)
    /\ sends[d][n] > 0
    /\ sends' = [sends EXCEPT ![d][n] = @ - 1]
    /\ sender' = IF hook[d[1]] = "deleted"
                 THEN sender
                 ELSE sender \cup
                        {[by |-> w, kind |-> "auto", d |-> d, n |-> n, ok |-> FALSE,
                          k |-> 0, row |-> New, left |-> {}, pc |-> "post"]}
    /\ UNCHANGED <<hook, logs, retries, signals, requests, posts, accepted, disturbed>>

\* The data are loaded and posted: the endpoint accepts them, or anything fails.
Post(j) ==
    /\ j.pc = "post"
    /\ posts' = [posts EXCEPT ![j.d] = @ + 1]
    /\ \E ok \in BOOLEAN :
         /\ accepted' = IF ok THEN accepted \cup {j.d} ELSE accepted
         /\ Becomes(j, [j EXCEPT !.pc = "log", !.ok = ok])
    /\ UNCHANGED <<hook, logs, sends, retries, signals, requests, disturbed>>

\* The log of the delivery is read; there may be none yet, or too many.
ReadLog(j) ==
    LET rows == logs[j.d]
    IN  /\ j.pc = "log"
        /\ Becomes(j,
             IF Len(rows) = 0 THEN [j EXCEPT !.pc = "save", !.k = 0, !.row = New]
             ELSE IF Len(rows) = 1
             THEN [j EXCEPT !.pc = "save", !.k = 1, !.row = rows[1]]
             ELSE [j EXCEPT !.pc = "raised"])
        /\ UNCHANGED <<hook, logs, sends, retries, signals, requests, posts, accepted,
                       disturbed>>

\* After the log is written, an automatic task that has failed is retried later;
\* a retry that does not find its log again ends there.
FollowUp(j) ==
    IF j.kind = "retry"
    THEN /\ UNCHANGED sends
         /\ IF hook[j.d[1]] = "deleted" THEN Leave(j) ELSE Proceed(j)
    ELSE /\ sends' = IF j.ok \/ j.n = MaxRetries
                     THEN sends
                     ELSE [sends EXCEPT ![j.d][j.n + 1] = @ + 1]
         /\ Leave(j)

SaveLog(j) ==
    /\ j.pc = "save"
    /\ logs' = IF hook[j.d[1]] = "deleted" THEN logs
               ELSE IF j.k = 0
               THEN [logs EXCEPT ![j.d] = Append(@, Written(j))]
               ELSE [logs EXCEPT ![j.d][j.k] = Written(j)]
    /\ FollowUp(j)
    /\ UNCHANGED <<hook, retries, signals, requests, posts, accepted, disturbed>>

\* Two logs of one delivery: the task fails, without a retry, and the retry of a
\* log flags that log FAILED.
LogRaised(j) ==
    /\ j.pc = "raised"
    /\ IF j.kind = "auto" \/ hook[j.d[1]] = "deleted"
       THEN UNCHANGED logs /\ Leave(j)
       ELSE /\ logs' = [logs EXCEPT ![j.d][j.k] = Restated(j, "failed")]
            /\ Proceed(j)
    /\ UNCHANGED <<hook, sends, retries, signals, requests, posts, accepted, disturbed>>

----------------------------------------------------------------------------
(* The requests of users *)

\* The log is loaded and found retriable ...
RetryLog(w, d, k) ==
    /\ Idle(w)
    /\ requests < MaxRequests
    /\ hook[d[1]] = "active"
    /\ CanRetry(logs[d][k])
    /\ requests' = requests + 1
    /\ sender' = sender \cup
         {[by |-> w, kind |-> "retry", d |-> d, n |-> 0, ok |-> FALSE, k |-> k,
           row |-> logs[d][k], left |-> {}, pc |-> "check"]}
    /\ disturbed' = IF Busy(d) THEN disturbed \cup {d} ELSE disturbed
    /\ UNCHANGED <<hook, logs, sends, retries, signals, posts, accepted>>

\* ... flagged PENDING, as it was loaded, and sent by the request itself.
ChangeStatus(j) ==
    /\ j.pc = "check"
    /\ IF hook[j.d[1]] = "deleted"
       THEN UNCHANGED logs /\ Leave(j)
       ELSE /\ logs' = [logs EXCEPT ![j.d][j.k] = Restated(j, "pending")]
            /\ Becomes(j, [j EXCEPT !.row = Restated(j, "pending"), !.pc = "post"])
    /\ UNCHANGED <<hook, sends, retries, signals, requests, posts, accepted, disturbed>>

\* All retriable logs of a hook are listed ...
RetryAll(w, h) ==
    LET found == {x \in Rows(h) : CanRetry(logs[x[1]][x[2]])}
        first == CHOOSE x \in found : TRUE
    IN  /\ Idle(w)
        /\ requests < MaxRequests
        /\ hook[h] = "active"
        /\ found # {}
        /\ requests' = requests + 1
        /\ sender' = sender \cup
             {[by |-> w, kind |-> "retry", d |-> first[1], n |-> requests, ok |-> FALSE,
               k |-> first[2], row |-> New, pc |-> "mark",
               left |-> {[d |-> x[1], k |-> x[2], row |-> New] : x \in found}]}
        /\ disturbed' = disturbed \cup {d \in Deliveries : Busy(d) /\ \E x \in found : x[1] = d}
        /\ UNCHANGED <<hook, logs, sends, retries, signals, posts, accepted>>

\* ... flagged PENDING, without a new date, and handed to celery.
MarkPending(j) ==
    LET rows == {<<x.d, x.k>> : x \in j.left}
    IN  /\ j.pc = "mark"
        /\ logs' = [d \in Deliveries |->
                      [k \in DOMAIN logs[d] |->
                         IF <<d, k>> \in rows
                         THEN [logs[d][k] EXCEPT !.status = "pending"]
                         ELSE logs[d][k]]]
        /\ retries' = retries \cup {[n |-> j.n, rows |-> rows]}
        /\ Leave(j)
        /\ UNCHANGED <<hook, sends, signals, requests, posts, accepted, disturbed>>

\* `retry_all_task` loads its logs, once.
StartRetryAll(w, m) ==
    LET loaded == {[d |-> x[1], k |-> x[2], row |-> logs[x[1]][x[2]]] :
                     x \in {x \in m.rows : x[2] \in DOMAIN logs[x[1]]}}
    IN  /\ Idle(w)
        /\ retries' = retries \ {m}
        /\ IF loaded = {} THEN UNCHANGED sender
           ELSE \E x \in loaded :
                  sender' = sender \cup
                    {[by |-> w, kind |-> "retry", d |-> x.d, n |-> 0, ok |-> FALSE,
                      k |-> x.k, row |-> x.row, left |-> loaded \ {x}, pc |-> "post"]}
        /\ UNCHANGED <<hook, logs, sends, signals, requests, posts, accepted, disturbed>>

ToggleHook(h) ==
    /\ requests < MaxRequests
    /\ requests' = requests + 1
    /\ hook[h] # "deleted"
    /\ hook' = [hook EXCEPT ![h] = IF @ = "active" THEN "disabled" ELSE "active"]
    /\ UNCHANGED <<logs, sends, retries, sender, signals, posts, accepted, disturbed>>

\* The logs go with the hook.
DeleteHook(h) ==
    /\ requests < MaxRequests
    /\ requests' = requests + 1
    /\ hook[h] # "deleted"
    /\ hook' = [hook EXCEPT ![h] = "deleted"]
    /\ logs' = [d \in Deliveries |-> IF d[1] = h THEN << >> ELSE logs[d]]
    /\ UNCHANGED <<sends, retries, sender, signals, posts, accepted, disturbed>>

----------------------------------------------------------------------------
(* The passage of time, and faults *)

\* The time all automatic retries take has passed since the log was written.
AgeLog(d, k) ==
    /\ ~logs[d][k].old
    /\ \A j \in sender : d \notin Concerned(j)
    /\ logs' = [logs EXCEPT ![d][k].old = TRUE]
    /\ UNCHANGED <<hook, sends, retries, sender, signals, requests, posts, accepted,
                   disturbed>>

\* The process is killed: its message has been acknowledged.
KillSender(j) ==
    /\ Leave(j)
    /\ disturbed' = disturbed \cup Concerned(j)
    /\ UNCHANGED <<hook, logs, sends, retries, signals, requests, posts, accepted>>

SenderStep(j) ==
    \/ Post(j) \/ ReadLog(j) \/ SaveLog(j) \/ LogRaised(j)
    \/ ChangeStatus(j) \/ MarkPending(j)

StartStep(w) ==
    \/ \E d \in Deliveries, n \in 0 .. MaxRetries : StartSend(w, d, n)
    \/ \E m \in retries : StartRetryAll(w, m)

TimeStep == \E d \in Deliveries : \E k \in DOMAIN logs[d] : AgeLog(d, k)

HooksNext ==
    \/ \E s \in Submissions : Signal(s)
    \/ \E j \in sender : SenderStep(j) \/ KillSender(j)
    \/ \E w \in Senders :
         \/ StartStep(w)
         \/ \E d \in Deliveries : \E k \in DOMAIN logs[d] : RetryLog(w, d, k)
         \/ \E h \in Hooks : RetryAll(w, h)
    \/ \E h \in Hooks : ToggleHook(h) \/ DeleteHook(h)
    \/ TimeStep

HooksSpec == HooksInit /\ [][HooksNext]_hookVars

----------------------------------------------------------------------------
(* Properties *)

\* A log says SUCCESS only of what its endpoint has accepted, although the row a
\* sender writes back may be older than the last one written.
SuccessMeansAccepted ==
    \A d \in Deliveries : \A k \in DOMAIN logs[d] :
        logs[d][k].status = "success" => d \in accepted

\* "It retries n times": a delivery is not given up before all its automatic
\* retries, whoever else retries it; a second log of it is another matter.
GivesUpLate ==
    \A d \in Deliveries :
        Len(logs[d]) = 1 /\ logs[d][1].status = "failed" => posts[d] > MaxRetries

\* Once nothing is waiting or at work, the log is not left PENDING: celery's
\* count of the retries and the log's count of the tries end together.
QuietMeansSettled ==
    \A d \in Deliveries \ disturbed :
        ~Busy(d) => \A k \in DOMAIN logs[d] : logs[d][k].status # "pending"

----------------------------------------------------------------------------
(* Inductive invariants *)

\* The attempts that have been made and that the log does not count yet.
InHand(d) == {j \in sender : j.d = d /\ j.pc \in {"log", "save", "raised"}}
Counted(d, row) == row.tries + Cardinality(InHand(d)) <= posts[d]

\* The tries of a log, and of every copy of it, have been made, those in hand
\* apart: so what is written back does not count an attempt twice.
TriesAreMade ==
    /\ \A d \in Deliveries :
         Counted(d, New) /\ \A k \in DOMAIN logs[d] : Counted(d, logs[d][k])
    /\ \A j \in sender : Counted(j.d, j.row) /\ \A x \in j.left : Counted(x.d, x.row)

\* A delivery that has not two logs, nor lost its hook.
Single(d) == hook[d[1]] # "deleted" /\ Len(logs[d]) <= 1
Tired(d, row) == Single(d) /\ row.status = "failed" => row.tries > MaxRetries

\* A log of one that is FAILED, and every copy of it, has counted all the tries.
FailedIsTired ==
    /\ \A d \in Deliveries : \A k \in DOMAIN logs[d] : Tired(d, logs[d][k])
    /\ \A j \in sender :
         /\ Tired(j.d, j.row) /\ \A x \in j.left : Tired(x.d, x.row)
         /\ j.pc = "raised" => ~Single(j.d)

DeletedHaveNoLogs == \A d \in Deliveries : hook[d[1]] = "deleted" => logs[d] = << >>

----------------------------------------------------------------------------
HooksFairness ==
    /\ WF_hookVars(\E j \in sender : SenderStep(j))
    /\ WF_hookVars(\E w \in Senders : StartStep(w))
    /\ WF_hookVars(TimeStep)

\* A log does not stay PENDING for ever out of reach: "if log is still pending
\* after 3 times, there was an issue, we allow the retry".
PendingIsRetriable ==
    \A d \in Deliveries :
        []<>(\A k \in DOMAIN logs[d] : logs[d][k].status = "pending" => CanRetry(logs[d][k]))
=============================================================================
