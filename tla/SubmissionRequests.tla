------------------------- MODULE SubmissionRequests -------------------------
(***************************************************************************)
(* Deleting submissions, and setting their validation status (the statuses *)
(* themselves are left out).  KPI decides which submissions a request is   *)
(* about and KoBoCAT acts on them, later: submissions arrive and change in *)
(* between.  A deletion is logged by KPI, from a list it makes before and  *)
(* writes after KoBoCAT has answered.                                      *)
(***************************************************************************)
EXTENDS Naturals

CONSTANTS
    Instances,     \* those there are, and those that may arrive
    Answers,       \* what a query can tell apart
    FirstAnswer,   \* the answers of the submissions there are at first
    PartialRights, \* what partial permissions let see and let act upon
    Chosen,        \* the sets of submissions that requests name
    Queried,       \* the answers that requests ask for
    Clients,       \* the requests that may be in progress at a time
    MaxCalls,      \* bound: the requests in all
    MaxChanges     \* bound: arrivals and edits

ASSUME SubmissionsAssumption ==
    /\ DOMAIN FirstAnswer \subseteq Instances
    /\ \A s \in DOMAIN FirstAnswer : FirstAnswer[s] \in Answers
    /\ \A r \in PartialRights : r.act \subseteq r.view /\ r.view \subseteq Instances
    /\ Chosen \subseteq (SUBSET Instances) \ {{}}
    /\ Queried \subseteq Answers
    /\ MaxCalls \in Nat /\ MaxChanges \in Nat

VARIABLES
    answer,      \* the answer of each submission in KoBoCAT, or Missing
    logged,      \* those of which the audit log says that they were deleted
    call,        \* what each request does
    calls, changes,   \* how many there have been
    gone,        \* history: the submissions that were deleted
    touched,     \* history: those that changed while a request was in progress
    cut,         \* history: those deleted by requests that broke off after that
    spared,      \* history: those a deletion listed though its user may only see them
    strayed      \* history: those changed by a request that did not mean them

submissionVars ==
    <<answer, logged, call, calls, changes, gone, touched, cut, spared, strayed>>

Missing == "missing"
Stored == {s \in Instances : answer[s] # Missing}

\* A request names submissions, has a query, or confirms that it means all; "one" is
\* the endpoint of a single submission.
Targets ==
    [by: {"one"}, ids: {{s} : s \in UNION Chosen}] \cup [by: {"ids"}, ids: Chosen]
        \cup [by: {"query"}, value: Queried] \cup {[by |-> "all"]}
ByIds(target) == target.by \in {"one", "ids"}
Means(target, s) ==
    /\ ByIds(target) => s \in target.ids
    /\ target.by = "query" => answer[s] = target.value
Matching(target) == {s \in Stored : Means(target, s)}

\* The submissions that a user may see, and those that they may act upon: all of
\* them, or what the filters of the partial permission select.
FullAccess == [partial |-> FALSE, view |-> Instances, act |-> Instances]
Rights ==
    {FullAccess} \cup {[partial |-> TRUE, view |-> r.view, act |-> r.act] : r \in PartialRights}

Waiting == [at |-> "idle"]
CallPlaces == {"list", "validate", "narrow", "send", "log"}

\* `asked` is the target as received, `target` what goes to KoBoCAT; `listed` are
\* the submissions to log, `struck` those that were deleted.
Call == [at: CallPlaces, kind: {"delete", "status"}, rights: Rights,
         asked: Targets, target: Targets \cup [by: {"ids"}, ids: SUBSET Instances],
         listed: SUBSET Instances, allowed: SUBSET Instances, struck: SUBSET Instances]

SubmissionsTypeOK ==
    /\ answer \in [Instances -> Answers \cup {Missing}]
    /\ call \in [Clients -> Call \cup {Waiting}]
    /\ calls \in 0 .. MaxCalls /\ changes \in 0 .. MaxChanges
    /\ gone \cap Stored = {}
    /\ logged \cup gone \cup touched \cup cut \cup spared \cup strayed \subseteq Instances

SubmissionsInit ==
    /\ answer = [s \in Instances |->
                   IF s \in DOMAIN FirstAnswer THEN FirstAnswer[s] ELSE Missing]
    /\ logged = {} /\ gone = {}
    /\ call = [c \in Clients |-> Waiting]
    /\ calls = 0 /\ changes = 0
    /\ touched = {} /\ cut = {} /\ spared = {} /\ strayed = {}

----------------------------------------------------------------------------
(* The views: DataViewSet.bulk, destroy, validation_status(es) *)

\* A partial permission that selects nothing passes the permission class too.
Receive(c, kind, rights, target) ==
    /\ call[c] = Waiting
    /\ calls < MaxCalls
    /\ calls' = calls + 1
    /\ call' = [call EXCEPT ![c] =
         [at |-> IF kind = "delete" THEN "list" ELSE "validate", kind |-> kind,
          rights |-> rights, asked |-> target, target |-> target,
          listed |-> {}, allowed |-> {}, struck |-> {}]]
    /\ UNCHANGED <<answer, logged, changes, gone, touched, cut, spared, strayed>>

OnlyCalls == UNCHANGED <<answer, logged, calls, changes, gone, touched, spared, strayed>>
Return(c) == call' = [call EXCEPT ![c] = Waiting]
Refuse(c) == Return(c) /\ OnlyCalls /\ UNCHANGED cut

\* Mutant: only a query is looked up.
ListQueried(c) ==
    LET listed == {s \in Matching(call[c].asked) \cap call[c].rights.view : ~ByIds(call[c].asked)}
    IN  /\ call[c].at = "list"
        /\ call' = [call EXCEPT ![c].at = "validate", ![c].listed = listed]
        /\ OnlyCalls /\ UNCHANGED cut

\* What is to be logged: what the user may see of it.
List(c) ==
    LET listed == Matching(call[c].asked) \cap call[c].rights.view
    IN  /\ call[c].at = "list"
        /\ IF call[c].asked.by = "one" /\ listed = {} THEN Return(c)
           ELSE call' = [call EXCEPT ![c].at = "validate", ![c].listed = listed]
        /\ OnlyCalls /\ UNCHANGED cut

----------------------------------------------------------------------------
(* validate_access_with_partial_perms *)

Validate(c) ==
    LET allowed == Stored \cap call[c].rights.act
        asked == call[c].asked
    IN  /\ call[c].at = "validate"
        /\ \/ /\ ~call[c].rights.partial
              /\ call' = [call EXCEPT ![c].at = "send"]
           \/ /\ call[c].rights.partial /\ ByIds(asked)
              /\ call' = [call EXCEPT ![c].at = "narrow"]
           \/ /\ call[c].rights.partial /\ asked.by = "query" /\ allowed # {}
              /\ call' = [call EXCEPT ![c].at = "narrow", ![c].allowed = allowed]
           \/ /\ call[c].rights.partial /\ asked.by = "all" /\ allowed # {}
              /\ call' = [call EXCEPT ![c].at = "send",
                                      ![c].target = [by |-> "ids", ids |-> allowed]]
           \/ /\ call[c].rights.partial /\ ~ByIds(asked) /\ allowed = {}
              /\ Return(c)
        /\ OnlyCalls /\ UNCHANGED cut

Requested(c, visible) == Matching(call[c].asked) \cap visible

\* Instances named must all be there and allowed; a query is narrowed to what is,
\* and refused if something has arrived since the allowed ones were read.
IsGranted(c, requested) ==
    /\ requested # {}
    /\ IF ByIds(call[c].asked) THEN requested = call[c].asked.ids
       ELSE requested \subseteq call[c].allowed

NarrowTo(c, requested) ==
    /\ call[c].at = "narrow"
    /\ IF IsGranted(c, requested)
       THEN call' = [call EXCEPT ![c].at = "send",
                                 ![c].target = [by |-> "ids", ids |-> requested]]
       ELSE Return(c)
    /\ OnlyCalls /\ UNCHANGED cut

\* Mutant: the submissions are looked up with the permission to view them.
NarrowToSeen(c) == NarrowTo(c, Requested(c, call[c].rights.view))
Narrow(c) == NarrowTo(c, Requested(c, call[c].rights.act))

----------------------------------------------------------------------------
(* KoBoCAT's part, and the audit log *)

\* KoBoCAT looks up what it has now.
Strike(c) ==
    LET struck == Matching(call[c].target)
        deleting == call[c].kind = "delete"
    IN  /\ call[c].at = "send"
        /\ answer' = [s \in Instances |->
                        IF deleting /\ s \in struck THEN Missing ELSE answer[s]]
        /\ gone' = IF deleting THEN gone \cup struck ELSE gone
        /\ spared' = IF deleting THEN spared \cup (call[c].listed \ call[c].rights.act) ELSE spared
        /\ strayed' = strayed \cup
             {s \in struck : s \notin call[c].rights.act \/ ~Means(call[c].asked, s)}
        /\ IF deleting /\ (call[c].asked.by = "one" => struck # {})
           THEN call' = [call EXCEPT ![c].at = "log", ![c].struck = struck]
           ELSE Return(c)
        /\ UNCHANGED <<logged, calls, changes, touched, cut>>

KobocatRefuses(c) == call[c].at = "send" /\ Refuse(c)

WriteLog(c) ==
    /\ call[c].at = "log"
    /\ logged' = logged \cup call[c].listed
    /\ Return(c)
    /\ UNCHANGED <<answer, calls, changes, gone, touched, cut, spared, strayed>>

\* The process is killed, or KoBoCAT's answer does not come back.
LoseCall(c) ==
    /\ call[c] # Waiting
    /\ cut' = cut \cup call[c].struck
    /\ Return(c)
    /\ OnlyCalls

----------------------------------------------------------------------------
(* Meanwhile, in KoBoCAT *)

Touch(s) ==
    /\ changes < MaxChanges
    /\ changes' = changes + 1
    /\ touched' = IF \A c \in Clients : call[c] = Waiting THEN touched ELSE touched \cup {s}
    /\ UNCHANGED <<logged, call, calls, gone, cut, spared, strayed>>

Arrive(s, a) ==
    /\ answer[s] = Missing /\ s \notin gone
    /\ answer' = [answer EXCEPT ![s] = a]
    /\ Touch(s)

Edit(s, a) ==
    /\ answer[s] \notin {Missing, a}
    /\ answer' = [answer EXCEPT ![s] = a]
    /\ Touch(s)

SubmissionsNext ==
    \/ \E c \in Clients :
         \/ \E kind \in {"delete", "status"}, rights \in Rights, target \in Targets :
              Receive(c, kind, rights, target)
         \/ List(c) \/ Validate(c) \/ Narrow(c)
         \/ Strike(c) \/ KobocatRefuses(c) \/ WriteLog(c) \/ LoseCall(c)
    \/ \E s \in Instances, a \in Answers : Arrive(s, a) \/ Edit(s, a)

SubmissionsSpec == SubmissionsInit /\ [][SubmissionsNext]_submissionVars

----------------------------------------------------------------------------
(* Properties *)

\* The audit log and the deletions agree, whatever requests overlap: what is gone
\* is logged or about to be, and what is logged is gone.  The exceptions are the
\* submissions that arrived or changed while a request was in progress, those of a
\* request that broke off between KoBoCAT's answer and the log, and those that a
\* user may see but not delete, which a query lists too.
AuditMatchesDeletions ==
    \A s \in Instances \ (touched \cup cut) :
        /\ s \in gone =>
             s \in logged \/ \E c \in Clients : call[c].at = "log" /\ s \in call[c].listed
        /\ s \in logged => s \in gone \/ s \in spared

\* A request changes only submissions that it is about and that its user's filters
\* select, although KoBoCAT is sent ids, or the query as it came, and looks them up
\* again; only one that was edited in between may not be meant any more.
ChangesAreMeant == strayed \subseteq touched
=============================================================================
