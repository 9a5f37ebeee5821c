-------------------------- MODULE TransferContract ---------------------------
(***************************************************************************)
(* What a transfer of projects promises to its two parties, without rows,  *)
(* transactions, tasks or requests: what is reported of each transfer and  *)
(* of the invite, and what has really happened to the project.             *)
(***************************************************************************)
CONSTANTS
    Assets,      \* the projects
    Deployed,    \* those that have submissions and attachments to move
    Invites,
    Scope        \* Scope[i]: the projects that invite i offers

VARIABLES
    report,    \* report[t]: the status of transfer t; "none" without one
    answer,    \* answer[i]: the status of invite i, "none" before and "deleted" after
    work,      \* work[t]: the subtasks that have run to their end
    moved      \* the transfers that have given the project to the recipient

vars == <<report, answer, work, moved>>

Transfers == {t \in Invites \X Assets : t[2] \in Scope[t[1]]}
TransfersOf(i) == {t \in Transfers : t[1] = i}
Subtasks == {"submissions", "attachments", "media_files"}
Required(t) == IF t[2] \in Deployed THEN Subtasks ELSE {"media_files"}

Init ==
    /\ report = [t \in Transfers |-> "none"]
    /\ answer = [i \in Invites |-> "none"]
    /\ work = [t \in Transfers |-> {}]
    /\ moved = {}

\* An invite is offered once.
Offer(i) ==
    /\ answer[i] = "none"
    /\ answer' = [answer EXCEPT ![i] = "pending"]
    /\ report' = [t \in Transfers |-> IF t[1] = i THEN "pending" ELSE report[t]]
    /\ UNCHANGED <<work, moved>>

\* Invites are accepted, declined, cancelled or expire, some of them together.
\* Nobody declares one complete or failed.
Reply(S, s) ==
    /\ s \in {"in_progress", "declined", "cancelled", "expired"}
    /\ \A i \in S : answer[i] \notin {"none", "deleted"}
    /\ answer' = [i \in Invites |-> IF i \in S THEN s ELSE answer[i]]
    /\ UNCHANGED <<report, work, moved>>

\* The transfer is reported as begun, failed or successful, the last only when
\* all its work is done, and the invite follows from the reports of its transfers.
Report(t, s) ==
    LET i == t[1]
    IN  /\ report[t] # "none"
        /\ s \in {"in_progress", "failed", "success"}
        /\ s = "success" => Required(t) \subseteq work[t]
        /\ report' = [report EXCEPT ![t] = s]
        /\ answer' = [answer EXCEPT ![i] =
                        IF \E u \in TransfersOf(i) : report'[u] = "failed" THEN "failed"
                        ELSE IF \A u \in TransfersOf(i) : report'[u] = "success" THEN "complete"
                        ELSE IF answer[i] = "pending" THEN "in_progress" ELSE answer[i]]
        /\ UNCHANGED <<work, moved>>

Cancel(t) ==
    /\ report[t] # "none"
    /\ report' = [report EXCEPT ![t] = "cancelled"]
    /\ UNCHANGED <<answer, work, moved>>

\* The project changes hands after the transfer is reported as begun ...
Move(t) ==
    /\ report[t] # "pending"
    /\ moved' = moved \cup {t}
    /\ UNCHANGED <<report, answer, work>>

\* ... and its data follows the project, never the other way round.
Work(t, ty) ==
    /\ t \in moved
    /\ work' = [work EXCEPT ![t] = @ \cup {ty}]
    /\ UNCHANGED <<report, answer, moved>>

Forget(i) ==
    /\ answer[i] \notin {"none", "deleted"}
    /\ answer' = [answer EXCEPT ![i] = "deleted"]
    /\ report' = [t \in Transfers |-> IF t[1] = i THEN "none" ELSE report[t]]
    /\ UNCHANGED <<work, moved>>

Next ==
    \/ \E i \in Invites : Offer(i) \/ Forget(i)
    \/ \E S \in SUBSET Invites, s \in {"in_progress", "declined", "cancelled", "expired"} :
          Reply(S, s)
    \/ \E t \in Transfers :
         \/ \E s \in {"in_progress", "failed", "success"} : Report(t, s)
         \/ Cancel(t)
         \/ Move(t)
         \/ \E ty \in Subtasks : Work(t, ty)

Spec == Init /\ [][Next]_vars
=============================================================================
