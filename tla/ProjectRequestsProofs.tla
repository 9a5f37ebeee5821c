------------------------ MODULE ProjectRequestsProofs ------------------------
(***************************************************************************)
(* Requests that overlap around a project: those about its submissions,    *)
(* for every set of submissions, rights and concurrent requests, and those *)
(* for its paired data, for every set of questions, field lists and        *)
(* requests, and edits of the supplementary details of a submission.       *)
(*                                                                         *)
(* Submissions.  Requests change only what they are about and what their   *)
(* user's filters select, and the audit log agrees with the deletions.     *)
(* KPI decides what a request is about, and lists what is to be logged,    *)
(* before KoBoCAT acts.  The argument is that what it has decided stays    *)
(* right: a submission that has not changed since still answers the query  *)
(* as it did, or has been deleted, and is then never deleted again.        *)
(*                                                                         *)
(* Paired data.  The cache follows the link.  CacheFollowsLink is not      *)
(* inductive.  A request that changes the link has emptied the cache       *)
(* before it saves, so a full cache must be known to be impossible by      *)
(* then; a request that fetches the file carries the fields to the cache,  *)
(* so they must be those of the link; and what excuses the rest, the       *)
(* overlap, has to be known of every two requests in progress.             *)
(*                                                                         *)
(* Supplementary details.  A request has the row locked from when it reads *)
(* it until it has saved, so its copy is what is stored, with its edit; a  *)
(* task has not, but has overwritten nothing if what it read is what is    *)
(* stored.  Between the two is the loop over the fields that asks for      *)
(* translations: it keeps the transcripts, and each slot is what it was,   *)
(* has a task queued, or shows the translation of the field's own text,    *)
(* unless the loop carried it over from another field.                     *)
(***************************************************************************)
EXTENDS SubmissionRequests, PairedData, SupplementalDetails, FiniteRecursion, SequenceTheorems,
        TLAPS

(* 1. Submissions: decided early, and still right *)

\* Of a submission that has not changed since, the list that a deletion made is
\* right: it has what the request is about and the user may see.
ListIsRight(r) ==
    \A s \in Instances \ touched :
        /\ s \in Stored => (s \in r.listed <=> Means(r.asked, s) /\ s \in r.rights.view)
        /\ s \in r.listed => s \in Stored \cup gone

\* So are the ids that KoBoCAT is sent; of a user with full access it is sent the
\* request as it came.
TargetIsRight(r) ==
    \/ ~r.rights.partial /\ r.target = r.asked
    \/ /\ r.target.by = "ids" /\ r.target.ids \subseteq r.rights.act
       /\ \A s \in Stored \ touched :
            s \in r.target.ids <=> Means(r.asked, s) /\ s \in r.rights.act

CallIsRight(r) ==
    /\ r.at \in {"list", "validate", "narrow"} => r.target = r.asked
    /\ r.at \in {"validate", "narrow", "send"} /\ r.kind = "delete" => ListIsRight(r)
    /\ r.at = "send" => TargetIsRight(r)
    /\ r.at = "log" => \A s \in r.listed \ touched : s \in gone \cup spared

\* What is gone is logged, or about to be by the request that deleted it.
LogFollows ==
    \A s \in Instances \ (touched \cup cut) :
        /\ s \in gone =>
             \/ s \in logged
             \/ \E c \in Clients : call[c].at = "log" /\ s \in call[c].listed \cap call[c].struck
        /\ s \in logged => s \in gone \cup spared

SubmissionsInv ==
    /\ SubmissionsTypeOK
    /\ ChangesAreMeant
    /\ \A c \in Clients : CallIsRight(call[c])
    /\ LogFollows

----------------------------------------------------------------------------
(* Rights, and the requests that a step leaves alone *)

LEMMA RightsFacts ==
    ASSUME NEW r \in Rights
    PROVE  /\ r.view \subseteq Instances /\ r.act \subseteq r.view
           /\ ~r.partial => r.act = Instances /\ r.view = Instances
  BY SubmissionsAssumption DEF Rights, FullAccess

\* A submission is as it was, or it is known to have changed, or it is deleted.
ChangeIsKnown ==
    /\ touched \subseteq touched' /\ gone \subseteq gone' /\ spared \subseteq spared'
    /\ \A s \in Instances \ touched' :
         answer'[s] = answer[s] \/ (answer'[s] = Missing /\ s \in gone')

LEMMA CallStaysRight ==
    ASSUME ChangeIsKnown, NEW r, CallIsRight(r)
    PROVE  CallIsRight(r)'
<1>1. ASSUME NEW s \in Instances \ touched', s \in Stored'
      PROVE  s \in Stored \ touched /\ \A t : Means(t, s)' <=> Means(t, s)
  BY <1>1 DEF ChangeIsKnown, Stored, Means, ByIds
<1>2. ASSUME NEW s \in Instances \ touched', s \in Stored \cup gone
      PROVE  s \in Stored' \cup gone' /\ s \in Instances \ touched
  BY <1>2 DEF ChangeIsKnown, Stored
<1>3. ListIsRight(r) => ListIsRight(r)'
  BY <1>1, <1>2 DEF ListIsRight, ChangeIsKnown
<1>4. Stored' \subseteq Instances
  BY DEF Stored
<1>5. TargetIsRight(r) => TargetIsRight(r)'
  BY <1>1, <1>4 DEF TargetIsRight
<1>6. (\A s \in r.listed \ touched : s \in gone \cup spared)
        => \A s \in r.listed \ touched' : s \in gone' \cup spared'
  BY DEF ChangeIsKnown
<1>7. QED
  BY <1>3, <1>5, <1>6 DEF CallIsRight

\* One request goes on; the others are as right as they were.
LEMMA OthersStayRight ==
    ASSUME SubmissionsInv, ChangeIsKnown, NEW c \in Clients, NEW r,
           call' = [call EXCEPT ![c] = r], CallIsRight(r)'
    PROVE  \A d \in Clients : CallIsRight(call[d])'
<1> TAKE d \in Clients
<1>1. CASE d = c
  <2>1. call'[d] = r
    BY <1>1 DEF SubmissionsInv, SubmissionsTypeOK
  <2>2. QED
    BY <2>1
<1>2. CASE d # c
  <2>1. call'[d] = call[d]
    BY <1>2 DEF SubmissionsInv, SubmissionsTypeOK
  <2>2. CallIsRight(call[d])
    BY DEF SubmissionsInv
  <2>3. PICK q : q = call[d]
    OBVIOUS
  <2>4. CallIsRight(q)'
    BY <2>2, <2>3, CallStaysRight
  <2>5. QED
    BY <2>1, <2>3, <2>4
<1>3. QED
  BY <1>1, <1>2

----------------------------------------------------------------------------
(* The steps of a request that change nothing in KoBoCAT *)

\* A request goes on, or ends; if it was about to log, what it deleted is cut.
LEMMA KpiStep ==
    ASSUME SubmissionsInv, NEW c \in Clients, NEW r \in Call \cup {Waiting},
           call' = [call EXCEPT ![c] = r], CallIsRight(r),
           UNCHANGED <<answer, logged, gone, touched, spared, strayed, changes>>,
           calls' \in 0 .. MaxCalls, cut' \subseteq Instances,
           cut \subseteq cut', call[c].at = "log" => call[c].struck \subseteq cut'
    PROVE  SubmissionsInv'
<1>1. SubmissionsTypeOK'
  BY DEF SubmissionsInv, SubmissionsTypeOK, Stored
<1>2. ChangesAreMeant'
  BY DEF SubmissionsInv, ChangesAreMeant
<1>3. ChangeIsKnown
  BY DEF ChangeIsKnown
<1>4. \A d \in Clients : CallIsRight(call[d])'
  BY <1>3, CallStaysRight, OthersStayRight
<1>5. LogFollows'
  <2>1. \A d \in Clients : d # c => call'[d] = call[d]
    BY DEF SubmissionsInv, SubmissionsTypeOK
  <2>2. ASSUME NEW s \in Instances \ (touched' \cup cut'), s \in gone, s \notin logged
        PROVE  \E d \in Clients : call'[d].at = "log" /\ s \in call'[d].listed \cap call'[d].struck
    <3>1. PICK d \in Clients : call[d].at = "log" /\ s \in call[d].listed \cap call[d].struck
      BY <2>2 DEF SubmissionsInv, LogFollows
    <3>2. d # c
      BY <2>2, <3>1
    <3>3. QED
      BY <2>1, <3>1, <3>2
  <2>3. QED
    BY <2>2 DEF SubmissionsInv, LogFollows
<1>6. QED
  BY <1>1, <1>2, <1>4, <1>5 DEF SubmissionsInv

LEMMA WaitingIsRight == Waiting \in Call \cup {Waiting} /\ Waiting.at = "idle" /\ CallIsRight(Waiting)
  BY DEF Waiting, CallIsRight

LEMMA CallFacts ==
    ASSUME SubmissionsInv, NEW c \in Clients, call[c].at # "idle"
    PROVE  call[c] \in Call /\ call[c].rights \in Rights /\ CallIsRight(call[c])
  BY DEF SubmissionsInv, SubmissionsTypeOK, Waiting, Call

\* An ended request leaves nothing behind, unless it was about to log.
LEMMA ReturnKeeps ==
    ASSUME SubmissionsInv, NEW c \in Clients, Return(c), OnlyCalls, cut' \subseteq Instances,
           cut \subseteq cut', call[c].at = "log" => call[c].struck \subseteq cut'
    PROVE  SubmissionsInv'
<1>1. call' = [call EXCEPT ![c] = Waiting]
      /\ UNCHANGED <<answer, logged, gone, touched, spared, strayed, changes>> /\ calls' \in 0 .. MaxCalls
  BY DEF Return, OnlyCalls, SubmissionsInv, SubmissionsTypeOK
<1>2. QED
  BY <1>1, WaitingIsRight, KpiStep

LEMMA ReceiveKeeps ==
    ASSUME SubmissionsInv, NEW c \in Clients, NEW kind \in {"delete", "status"},
           NEW rights \in Rights, NEW target \in Targets, Receive(c, kind, rights, target)
    PROVE  SubmissionsInv'
<1> DEFINE r == [at |-> IF kind = "delete" THEN "list" ELSE "validate", kind |-> kind,
                 rights |-> rights, asked |-> target, target |-> target,
                 listed |-> {}, allowed |-> {}, struck |-> {}]
<1>1. r \in Call /\ CallIsRight(r)
  BY DEF Call, CallPlaces, CallIsRight
<1>2. call' = [call EXCEPT ![c] = r] /\ call[c].at = "idle" /\ cut' = cut
      /\ UNCHANGED <<answer, logged, gone, touched, spared, strayed, changes>>
  BY DEF Receive, Waiting
<1>3. calls' \in 0 .. MaxCalls /\ cut \subseteq Instances
  BY SubmissionsAssumption DEF Receive, SubmissionsInv, SubmissionsTypeOK
<1> HIDE DEF r
<1>4. QED
  BY <1>1, <1>2, <1>3, KpiStep

LEMMA ListKeeps == ASSUME SubmissionsInv, NEW c \in Clients, List(c) PROVE SubmissionsInv'
<1> DEFINE listed == Matching(call[c].asked) \cap call[c].rights.view
           r == [call[c] EXCEPT !.at = "validate", !.listed = listed]
<1>1. /\ call[c].at = "list" /\ OnlyCalls /\ cut' = cut
      /\ Return(c) \/ call' = [call EXCEPT ![c] = r]
  BY DEF List
<1>2. call[c] \in Call /\ call[c].rights \in Rights /\ CallIsRight(call[c])
  BY <1>1, CallFacts
<1>3. \A s : s \in listed <=> s \in Stored /\ Means(call[c].asked, s) /\ s \in call[c].rights.view
  BY DEF Matching
<1>4. listed \in SUBSET Instances
  BY <1>3 DEF Stored
<1> HIDE DEF listed
<1>5. r \in Call /\ r.at = "validate" /\ r.listed = listed /\ r.asked = call[c].asked
      /\ r.target = call[c].target /\ r.rights = call[c].rights
  BY <1>2, <1>4 DEF Call, CallPlaces
<1> HIDE DEF r
<1>6. ListIsRight(r)
  BY <1>3, <1>5 DEF ListIsRight
<1>7. CallIsRight(r)
  BY <1>1, <1>2, <1>5, <1>6 DEF CallIsRight
<1>8. cut' \subseteq Instances /\ calls' \in 0 .. MaxCalls
      /\ UNCHANGED <<answer, logged, gone, touched, spared, strayed, changes>>
  BY <1>1 DEF SubmissionsInv, SubmissionsTypeOK, OnlyCalls
<1>9. QED
  BY <1>1, <1>5, <1>7, <1>8, KpiStep, ReturnKeeps

\* A request is narrowed, or sent, as it was listed.
LEMMA GoesOn ==
    ASSUME SubmissionsInv, NEW c \in Clients, NEW r \in Call, OnlyCalls, cut' = cut,
           call' = [call EXCEPT ![c] = r],
           r.kind = call[c].kind, r.asked = call[c].asked, r.rights = call[c].rights,
           r.listed = call[c].listed, call[c].at \in {"validate", "narrow"},
           \/ r.at = "narrow" /\ r.target = call[c].target
           \/ r.at = "send" /\ TargetIsRight(r)
    PROVE  SubmissionsInv'
<1>1. CallIsRight(call[c])
  BY CallFacts
<1>2. call[c].kind = "delete" => ListIsRight(r)
  BY <1>1 DEF CallIsRight, ListIsRight
<1>3. CallIsRight(r)
  BY <1>1, <1>2 DEF CallIsRight
<1>4. cut' \subseteq Instances /\ calls' \in 0 .. MaxCalls
      /\ UNCHANGED <<answer, logged, gone, touched, spared, strayed, changes>>
  BY DEF SubmissionsInv, SubmissionsTypeOK, OnlyCalls
<1>5. QED
  BY <1>3, <1>4, KpiStep

LEMMA ValidateKeeps == ASSUME SubmissionsInv, NEW c \in Clients, Validate(c) PROVE SubmissionsInv'
<1> DEFINE allowed == Stored \cap call[c].rights.act
<1>1. call[c].at = "validate" /\ OnlyCalls /\ cut' = cut
  BY DEF Validate
<1>2. call[c] \in Call /\ call[c].rights \in Rights /\ CallIsRight(call[c])
  BY <1>1, CallFacts
<1>3. call[c].target = call[c].asked
  BY <1>1, <1>2 DEF CallIsRight
<1>4. allowed \in SUBSET Instances /\ allowed \subseteq call[c].rights.act
  BY DEF Stored
<1>5. CASE ~call[c].rights.partial /\ call' = [call EXCEPT ![c].at = "send"]
  <2> DEFINE r == [call[c] EXCEPT !.at = "send"]
  <2>1. r \in Call /\ r.at = "send" /\ r.kind = call[c].kind /\ r.asked = call[c].asked
        /\ r.rights = call[c].rights /\ r.listed = call[c].listed /\ r.target = call[c].target
    BY <1>2 DEF Call, CallPlaces
  <2>2. call' = [call EXCEPT ![c] = r]
    BY <1>5
  <2> HIDE DEF r
  <2>3. TargetIsRight(r)
    BY <1>3, <1>5, <2>1 DEF TargetIsRight
  <2>4. QED
    BY <1>1, <2>1, <2>2, <2>3, GoesOn
<1>6. CASE call' = [call EXCEPT ![c].at = "narrow"]
  <2> DEFINE r == [call[c] EXCEPT !.at = "narrow"]
  <2>1. r \in Call /\ r.at = "narrow" /\ r.kind = call[c].kind /\ r.asked = call[c].asked
        /\ r.rights = call[c].rights /\ r.listed = call[c].listed /\ r.target = call[c].target
    BY <1>2 DEF Call, CallPlaces
  <2>2. call' = [call EXCEPT ![c] = r]
    BY <1>6
  <2> HIDE DEF r
  <2>3. QED
    BY <1>1, <2>1, <2>2, GoesOn
<1>7. CASE call' = [call EXCEPT ![c].at = "narrow", ![c].allowed = allowed]
  <2> DEFINE r == [call[c] EXCEPT !.at = "narrow", !.allowed = allowed]
  <2>1. call' = [call EXCEPT ![c] = r]
    BY <1>7
  <2> HIDE DEF allowed
  <2>2. r \in Call /\ r.at = "narrow" /\ r.kind = call[c].kind /\ r.asked = call[c].asked
        /\ r.rights = call[c].rights /\ r.listed = call[c].listed /\ r.target = call[c].target
    BY <1>2, <1>4 DEF Call, CallPlaces
  <2> HIDE DEF r
  <2>3. QED
    BY <1>1, <2>1, <2>2, GoesOn
<1>8. CASE call[c].asked.by = "all"
           /\ call' = [call EXCEPT ![c].at = "send", ![c].target = [by |-> "ids", ids |-> allowed]]
  <2> DEFINE target == [by |-> "ids", ids |-> allowed]
             r == [call[c] EXCEPT !.at = "send", !.target = target]
  <2>1. target \in [by: {"ids"}, ids: SUBSET Instances]
    BY <1>4
  <2>2. target.by = "ids" /\ target.ids = allowed
    OBVIOUS
  <2>3. call' = [call EXCEPT ![c] = r]
    BY <1>8
  <2> HIDE DEF target
  <2>4. r \in Call /\ r.at = "send" /\ r.kind = call[c].kind /\ r.asked = call[c].asked
        /\ r.rights = call[c].rights /\ r.listed = call[c].listed /\ r.target = target
    BY <1>2, <2>1 DEF Call, CallPlaces
  <2> HIDE DEF r
  <2>5. \A s : Means(call[c].asked, s)
    BY <1>8 DEF Means, ByIds
  <2>6. TargetIsRight(r)
    BY <2>2, <2>4, <2>5 DEF TargetIsRight
  <2>7. QED
    BY <1>1, <2>3, <2>4, <2>6, GoesOn
<1>9. CASE Return(c)
  BY <1>1, <1>9, ReturnKeeps DEF SubmissionsInv, SubmissionsTypeOK
<1>10. QED
  BY <1>5, <1>6, <1>7, <1>8, <1>9 DEF Validate

LEMMA NarrowKeeps == ASSUME SubmissionsInv, NEW c \in Clients, Narrow(c) PROVE SubmissionsInv'
<1> DEFINE ids == Requested(c, call[c].rights.act)
           target == [by |-> "ids", ids |-> ids]
           r == [call[c] EXCEPT !.at = "send", !.target = target]
<1>1. /\ call[c].at = "narrow" /\ OnlyCalls /\ cut' = cut
      /\ Return(c) \/ call' = [call EXCEPT ![c] = r]
  BY DEF Narrow, NarrowTo
<1>2. call[c] \in Call /\ CallIsRight(call[c])
  BY <1>1, CallFacts
<1>3. \A s : s \in ids <=> s \in Stored /\ Means(call[c].asked, s) /\ s \in call[c].rights.act
  BY DEF Requested, Matching
<1>4. target.by = "ids" /\ target.ids = ids /\ target \in [by: {"ids"}, ids: SUBSET Instances]
  BY <1>3 DEF Stored
<1> HIDE DEF ids, target
<1>5. r \in Call /\ r.at = "send" /\ r.kind = call[c].kind /\ r.asked = call[c].asked
      /\ r.rights = call[c].rights /\ r.listed = call[c].listed /\ r.target = target
  BY <1>2, <1>4 DEF Call, CallPlaces
<1> HIDE DEF r
<1>6. TargetIsRight(r)
  BY <1>3, <1>4, <1>5 DEF TargetIsRight
<1>7. QED
  BY <1>1, <1>5, <1>6, GoesOn, ReturnKeeps DEF SubmissionsInv, SubmissionsTypeOK

----------------------------------------------------------------------------
(* KoBoCAT's part, and the audit log *)

LEMMA StrikeKeeps == ASSUME SubmissionsInv, NEW c \in Clients, Strike(c) PROVE SubmissionsInv'
<1> DEFINE struck == Matching(call[c].target)
           deleting == call[c].kind = "delete"
           r == [call[c] EXCEPT !.at = "log", !.struck = struck]
<1>1. /\ call[c].at = "send"
      /\ answer' = [s \in Instances |-> IF deleting /\ s \in struck THEN Missing ELSE answer[s]]
      /\ gone' = IF deleting THEN gone \cup struck ELSE gone
      /\ spared' = IF deleting THEN spared \cup (call[c].listed \ call[c].rights.act) ELSE spared
      /\ strayed' = strayed \cup
            {s \in struck : s \notin call[c].rights.act \/ ~Means(call[c].asked, s)}
      /\ UNCHANGED <<logged, calls, changes, touched, cut>>
      /\ \/ deleting /\ call' = [call EXCEPT ![c] = r]
         \/ (deleting => struck = {}) /\ call' = [call EXCEPT ![c] = Waiting]
  BY DEF Strike, Return
<1>2. call[c] \in Call /\ call[c].rights \in Rights /\ CallIsRight(call[c])
  BY <1>1, CallFacts
<1>3. struck \subseteq Stored /\ Stored \subseteq Instances
      /\ \A s : s \in struck <=> s \in Stored /\ Means(call[c].target, s)
  BY DEF Matching, Stored
<1>4. TargetIsRight(call[c]) /\ (deleting => ListIsRight(call[c]))
  BY <1>1, <1>2 DEF CallIsRight
<1>5. /\ struck \subseteq call[c].rights.act
      /\ \A s \in Stored \ touched :
           s \in struck <=> Means(call[c].asked, s) /\ s \in call[c].rights.act
  <2>1. CASE ~call[c].rights.partial /\ call[c].target = call[c].asked
    BY <1>2, <1>3, <2>1, RightsFacts
  <2>2. CASE /\ call[c].target.by = "ids" /\ call[c].target.ids \subseteq call[c].rights.act
             /\ \A s \in Stored \ touched :
                  s \in call[c].target.ids <=> Means(call[c].asked, s) /\ s \in call[c].rights.act
    <3>1. \A s : Means(call[c].target, s) <=> s \in call[c].target.ids
      BY <2>2 DEF Means, ByIds
    <3>2. QED
      BY <1>3, <2>2, <3>1
  <2>3. QED
    BY <1>4, <2>1, <2>2 DEF TargetIsRight
<1> HIDE DEF struck
<1>6. ChangeIsKnown
  BY <1>1, <1>3 DEF ChangeIsKnown
<1>7. r \in Call /\ r.at = "log" /\ r.listed = call[c].listed /\ r.struck = struck
  BY <1>2, <1>3 DEF Call, CallPlaces
<1> HIDE DEF r
<1>8. SubmissionsTypeOK'
  <2>1. answer' \in [Instances -> Answers \cup {Missing}]
    BY <1>1 DEF SubmissionsInv, SubmissionsTypeOK
  <2>2. call' \in [Clients -> Call \cup {Waiting}]
    BY <1>1, <1>7, WaitingIsRight DEF SubmissionsInv, SubmissionsTypeOK
  <2>3. gone' \cap Stored' = {}
    BY <1>1 DEF SubmissionsInv, SubmissionsTypeOK, Stored
  <2>4. call[c].listed \subseteq Instances
    BY <1>2 DEF Call
  <2>5. gone' \subseteq Instances /\ spared' \subseteq Instances /\ strayed' \subseteq Instances
    BY <1>1, <1>3, <2>4 DEF SubmissionsInv, SubmissionsTypeOK
  <2>6. QED
    BY <1>1, <2>1, <2>2, <2>3, <2>5 DEF SubmissionsInv, SubmissionsTypeOK
<1>9. ChangesAreMeant'
  BY <1>1, <1>3, <1>5 DEF SubmissionsInv, ChangesAreMeant
<1>10. ASSUME deleting, NEW s \in call[c].listed \ touched PROVE s \in gone' \cup spared'
  <2>1. s \in Instances
    BY <1>2 DEF Call
  <2>2. CASE s \in gone \/ s \notin call[c].rights.act
    BY <1>1, <1>10, <2>2
  <2>3. CASE s \notin gone /\ s \in call[c].rights.act
    <3>1. s \in Stored /\ Means(call[c].asked, s)
      BY <1>4, <1>10, <2>1, <2>3 DEF ListIsRight
    <3>2. QED
      BY <1>1, <1>5, <1>10, <2>3, <3>1
  <2>4. QED
    BY <2>2, <2>3
<1>11. \A d \in Clients : CallIsRight(call[d])'
  <2>1. PICK q : q = r
    OBVIOUS
  <2>2. deleting => CallIsRight(q)'
    BY <1>1, <1>7, <1>10, <2>1 DEF CallIsRight
  <2>3. CASE deleting /\ call' = [call EXCEPT ![c] = r]
    BY <1>6, <2>1, <2>2, <2>3, OthersStayRight
  <2>4. CASE call' = [call EXCEPT ![c] = Waiting]
    <3>1. CallIsRight(Waiting)'
      BY DEF CallIsRight, Waiting
    <3>2. QED
      BY <1>6, <2>4, <3>1, OthersStayRight
  <2>5. QED
    BY <1>1, <2>3, <2>4
<1>12. LogFollows'
  <2>1. \A d \in Clients : d # c => call'[d] = call[d]
    BY <1>1 DEF SubmissionsInv, SubmissionsTypeOK
  <2>2. ASSUME NEW s \in Instances \ (touched \cup cut), s \in gone', s \notin logged
        PROVE  \E d \in Clients : call'[d].at = "log" /\ s \in call'[d].listed \cap call'[d].struck
    <3>1. CASE s \in gone
      <4>1. PICK d \in Clients : call[d].at = "log" /\ s \in call[d].listed \cap call[d].struck
        BY <2>2, <3>1 DEF SubmissionsInv, LogFollows
      <4>2. QED
        BY <1>1, <2>1, <4>1
    <3>2. CASE s \notin gone
      <4>1. deleting /\ s \in struck
        BY <1>1, <2>2, <3>2
      <4>2. Means(call[c].asked, s) /\ s \in call[c].rights.act /\ s \in Stored
        BY <1>3, <1>5, <2>2, <4>1
      <4>3. s \in call[c].rights.view
        BY <1>2, <4>2, RightsFacts
      <4>4. s \in call[c].listed
        BY <1>4, <2>2, <4>1, <4>2, <4>3 DEF ListIsRight
      <4>5. call'[c] = r
        BY <1>1, <4>1 DEF SubmissionsInv, SubmissionsTypeOK
      <4>6. QED
        BY <1>7, <4>1, <4>4, <4>5
    <3>3. QED
      BY <3>1, <3>2
  <2>3. \A s \in Instances \ (touched \cup cut) : s \in logged' => s \in gone' \cup spared'
    BY <1>1 DEF SubmissionsInv, LogFollows
  <2>4. QED
    BY <1>1, <2>2, <2>3 DEF LogFollows
<1>13. QED
  BY <1>8, <1>9, <1>11, <1>12 DEF SubmissionsInv

LEMMA WriteLogKeeps == ASSUME SubmissionsInv, NEW c \in Clients, WriteLog(c) PROVE SubmissionsInv'
<1>1. /\ call[c].at = "log" /\ logged' = logged \cup call[c].listed
      /\ call' = [call EXCEPT ![c] = Waiting]
      /\ UNCHANGED <<answer, calls, changes, gone, touched, cut, spared, strayed>>
  BY DEF WriteLog, Return
<1>2. call[c] \in Call /\ CallIsRight(call[c])
  BY <1>1, CallFacts
<1>3. call[c].listed \subseteq Instances
      /\ \A s \in call[c].listed \ touched : s \in gone \cup spared
  BY <1>1, <1>2 DEF Call, CallIsRight
<1>4. SubmissionsTypeOK' /\ ChangesAreMeant' /\ ChangeIsKnown
  BY <1>1, <1>3, WaitingIsRight
     DEF SubmissionsInv, SubmissionsTypeOK, Stored, ChangesAreMeant, ChangeIsKnown
<1>5. \A d \in Clients : CallIsRight(call[d])'
  <2>1. CallIsRight(Waiting)'
    BY DEF CallIsRight, Waiting
  <2>2. QED
    BY <1>1, <1>4, <2>1, OthersStayRight
<1>6. LogFollows'
  <2>1. \A d \in Clients : d # c => call'[d] = call[d]
    BY <1>1 DEF SubmissionsInv, SubmissionsTypeOK
  <2>2. ASSUME NEW s \in Instances \ (touched \cup cut), s \in gone, s \notin logged'
        PROVE  \E d \in Clients : call'[d].at = "log" /\ s \in call'[d].listed \cap call'[d].struck
    <3>1. PICK d \in Clients : call[d].at = "log" /\ s \in call[d].listed \cap call[d].struck
      BY <1>1, <2>2 DEF SubmissionsInv, LogFollows
    <3>2. QED
      BY <1>1, <2>1, <2>2, <3>1
  <2>3. \A s \in Instances \ (touched \cup cut) : s \in logged' => s \in gone \cup spared
    BY <1>1, <1>3 DEF SubmissionsInv, LogFollows
  <2>4. QED
    BY <1>1, <2>2, <2>3 DEF LogFollows
<1>7. QED
  BY <1>4, <1>5, <1>6 DEF SubmissionsInv

----------------------------------------------------------------------------
(* What changes in KoBoCAT meanwhile *)

LEMMA TouchKeeps ==
    ASSUME SubmissionsInv, NEW s \in Instances, NEW a \in Answers,
           answer' = [answer EXCEPT ![s] = a], s \notin gone, Touch(s)
    PROVE  SubmissionsInv'
<1>1. /\ changes < MaxChanges /\ changes' = changes + 1
      /\ touched' = IF \A c \in Clients : call[c] = Waiting THEN touched ELSE touched \cup {s}
      /\ UNCHANGED <<logged, call, calls, gone, cut, spared, strayed>>
  BY DEF Touch
<1>2. answer' \in [Instances -> Answers \cup {Missing}]
      /\ \A q \in Instances \ {s} : answer'[q] = answer[q]
  BY DEF SubmissionsInv, SubmissionsTypeOK
<1>3. SubmissionsTypeOK'
  <2>1. gone' \cap Stored' = {}
    BY <1>1, <1>2 DEF SubmissionsInv, SubmissionsTypeOK, Stored
  <2>2. changes' \in 0 .. MaxChanges
    BY <1>1, SubmissionsAssumption DEF SubmissionsInv, SubmissionsTypeOK
  <2>3. touched' \subseteq Instances
    BY <1>1 DEF SubmissionsInv, SubmissionsTypeOK
  <2>4. QED
    BY <1>1, <1>2, <2>1, <2>2, <2>3 DEF SubmissionsInv, SubmissionsTypeOK
<1>4. ChangesAreMeant'
  BY <1>1 DEF SubmissionsInv, ChangesAreMeant
<1>5. ASSUME NEW c \in Clients PROVE CallIsRight(call[c])'
  <2>1. CASE call[c] = Waiting
    <3>1. call'[c] = Waiting
      BY <1>1, <2>1
    <3>2. QED
      BY <3>1 DEF CallIsRight, Waiting
  <2>2. CASE call[c] # Waiting
    <3>1. ChangeIsKnown
      BY <1>1, <1>2, <2>2 DEF ChangeIsKnown
    <3>2. PICK q : q = call[c]
      OBVIOUS
    <3>3. CallIsRight(q)
      BY <3>2 DEF SubmissionsInv
    <3>4. CallIsRight(q)'
      BY <3>1, <3>3, CallStaysRight
    <3>5. QED
      BY <1>1, <3>2, <3>4
  <2>3. QED
    BY <2>1, <2>2
<1>6. LogFollows'
  BY <1>1 DEF SubmissionsInv, LogFollows
<1>7. QED
  BY <1>3, <1>4, <1>5, <1>6 DEF SubmissionsInv

----------------------------------------------------------------------------
LEMMA InitSubmissions == SubmissionsInit => SubmissionsInv
<1> SUFFICES ASSUME SubmissionsInit PROVE SubmissionsInv
  OBVIOUS
<1>1. SubmissionsTypeOK
  BY SubmissionsAssumption DEF SubmissionsInit, SubmissionsTypeOK
<1>2. ChangesAreMeant /\ LogFollows
  BY DEF SubmissionsInit, ChangesAreMeant, LogFollows
<1>3. \A c \in Clients : CallIsRight(call[c])
  BY WaitingIsRight DEF SubmissionsInit
<1>4. QED
  BY <1>1, <1>2, <1>3 DEF SubmissionsInv

LEMMA NextSubmissions ==
    ASSUME SubmissionsInv, [SubmissionsNext]_submissionVars
    PROVE  SubmissionsInv'
<1>1. CASE \E c \in Clients : \E kind \in {"delete", "status"}, rights \in Rights, target \in Targets :
              Receive(c, kind, rights, target)
  BY <1>1, ReceiveKeeps
<1>2. ASSUME NEW c \in Clients, List(c) \/ Validate(c) \/ Narrow(c) \/ Strike(c) \/ WriteLog(c)
      PROVE  SubmissionsInv'
  BY <1>2, ListKeeps, ValidateKeeps, NarrowKeeps, StrikeKeeps, WriteLogKeeps
<1>3. ASSUME NEW c \in Clients, KobocatRefuses(c) PROVE SubmissionsInv'
  BY <1>3, ReturnKeeps DEF KobocatRefuses, Refuse, SubmissionsInv, SubmissionsTypeOK
<1>4. ASSUME NEW c \in Clients, LoseCall(c) PROVE SubmissionsInv'
  <2>1. call[c] \in Call
    BY <1>4 DEF LoseCall, SubmissionsInv, SubmissionsTypeOK
  <2>2. cut' = cut \cup call[c].struck /\ cut' \subseteq Instances
    BY <1>4, <2>1 DEF LoseCall, Call, SubmissionsInv, SubmissionsTypeOK
  <2>3. QED
    BY <1>4, <2>2, ReturnKeeps DEF LoseCall
<1>5. ASSUME NEW s \in Instances, NEW a \in Answers, Arrive(s, a) \/ Edit(s, a)
      PROVE  SubmissionsInv'
  <2>1. s \notin gone
    BY <1>5 DEF Arrive, Edit, SubmissionsInv, SubmissionsTypeOK, Stored
  <2>2. QED
    BY <1>5, <2>1, TouchKeeps DEF Arrive, Edit
<1>6. CASE UNCHANGED submissionVars
  <2>1. UNCHANGED <<answer, logged, call, calls, changes, gone, touched, cut, spared, strayed>>
    BY <1>6 DEF submissionVars
  <2>2. SubmissionsTypeOK' /\ ChangesAreMeant' /\ LogFollows' /\ ChangeIsKnown
    BY <2>1 DEF SubmissionsInv, SubmissionsTypeOK, Stored, ChangesAreMeant, LogFollows, ChangeIsKnown
  <2>3. ASSUME NEW c \in Clients PROVE CallIsRight(call[c])'
    <3>1. PICK q : q = call[c]
      OBVIOUS
    <3>2. CallIsRight(q)'
      BY <2>2, <3>1, CallStaysRight DEF SubmissionsInv
    <3>3. QED
      BY <2>1, <3>1, <3>2
  <2>4. QED
    BY <2>2, <2>3 DEF SubmissionsInv
<1>7. QED
  BY <1>1, <1>2, <1>3, <1>4, <1>5, <1>6 DEF SubmissionsNext

\* The variables of SubmissionRequests keep their types, and what is deleted is
\* not stored.
THEOREM SubmissionsTypeCorrect == SubmissionsSpec => []SubmissionsTypeOK
<1>1. SubmissionsInv => SubmissionsTypeOK
  BY DEF SubmissionsInv
<1>2. QED
  BY <1>1, InitSubmissions, NextSubmissions, PTL DEF SubmissionsSpec

\* However requests overlap and submissions come and change, a request changes
\* only what it is about and what its user may act upon, as far as it has not
\* been edited in between.
THEOREM RequestsChangeTheirOwn == SubmissionsSpec => []ChangesAreMeant
<1>1. SubmissionsInv => ChangesAreMeant
  BY DEF SubmissionsInv
<1>2. QED
  BY <1>1, InitSubmissions, NextSubmissions, PTL DEF SubmissionsSpec

\* The audit log and the deletions agree, but for the exceptions that
\* AuditMatchesDeletions names.
THEOREM AuditIsRight == SubmissionsSpec => []AuditMatchesDeletions
<1>1. SubmissionsInv => AuditMatchesDeletions
  BY DEF SubmissionsInv, LogFollows, AuditMatchesDeletions
<1>2. QED
  BY <1>1, InitSubmissions, NextSubmissions, PTL DEF SubmissionsSpec

----------------------------------------------------------------------------
(* 2. Paired data: the cache and the overlaps *)

\* The uids of requests of which one changes the link are recorded as overlapped.
OverlapsAreRecorded ==
    \A v, w \in Visitors :
        v # w /\ visit[v] # Away /\ visit[w] # Away
              /\ (visit[v].at \in Changing \/ visit[w].at \in Changing)
        => UidOf(visit[v]) \in overlapped

\* What is cached when the link is about to change is still to be voided.
CacheIsEmptiedFirst ==
    \A v \in Visitors, u \in Uid :
        visit[v] # Away /\ visit[v].at \in Changing /\ u \notin overlapped /\ cache[u].at = "full"
        => u = visit[v].copy.uid /\ visit[v].at \in {"void", "erase"}

\* What is cached was made for the link.
CacheIsOfTheLink ==
    \A u \in Uid : u \notin overlapped /\ cache[u].at = "full"
        => u = link.uid /\ cache[u].content.asked = link.fields

\* What a request is about to cache is made for the link.
FetchIsOfTheLink ==
    \A v \in Visitors :
        visit[v] # Away /\ visit[v].at \in {"look", "keep"} /\ visit[v].uid \notin overlapped
        => visit[v].uid = link.uid /\ visit[v].content.asked = link.fields

CacheInv ==
    /\ PairedTypeOK
    /\ OverlapsAreRecorded
    /\ CacheIsEmptiedFirst
    /\ CacheIsOfTheLink
    /\ FetchIsOfTheLink

\* The kinds of requests in progress.
Changers == [at: Changing, copy: [uid: Uid, fields: FieldLists]]
Droppers == [at: {"drop"}, uid: Uid]
Fetchers == [at: {"look", "keep"}, uid: Uid, content: Content, known: BOOLEAN]
Visits == {Away} \cup Changers \cup Droppers \cup Fetchers

LEMMA RowFacts ==
    /\ \A r \in Changers : r # Away /\ r.at \in Changing /\ r.copy.uid \in Uid /\ r.copy \in Link
                            /\ UidOf(r) = r.copy.uid /\ r.at \notin {"look", "keep", "drop"}
    /\ \A r \in Droppers : r # Away /\ r.at = "drop" /\ r.uid \in Uid /\ UidOf(r) = r.uid
    /\ \A r \in Fetchers : r # Away /\ r.at \in {"look", "keep"} /\ r.uid \in Uid
                            /\ r.content \in Content /\ r.known \in BOOLEAN /\ UidOf(r) = r.uid
    /\ Away.at \notin Changing \cup {"look", "keep", "drop"}
<1>1. \A r \in Changers : r.at \in Changing /\ r.copy.uid \in Uid /\ r.copy \in Link
  BY DEF Changers, Link
<1>2. \A r \in Droppers : r.at = "drop" /\ r.uid \in Uid
  BY DEF Droppers
<1>3. \A r \in Fetchers : r.at \in {"look", "keep"} /\ r.uid \in Uid /\ r.content \in Content /\ r.known \in BOOLEAN
  BY DEF Fetchers
<1>4. Away.at \notin Changing \cup {"look", "keep", "drop"}
  BY DEF Away, Changing
<1>5. QED
  BY <1>1, <1>2, <1>3, <1>4 DEF UidOf, Changing

LEMMA RowsAreTyped ==
    Visits = {Away} \cup
             [at: {"void", "erase", "store", "remove"}, copy: [uid: Uid, fields: FieldLists]] \cup
             [at: {"drop"}, uid: Uid] \cup
             [at: {"look", "keep"}, uid: Uid, content: Content, known: BOOLEAN]
  BY DEF Visits, Changers, Droppers, Fetchers, Changing

LEMMA RowsHaveUids == \A r \in Visits \ {Away} : UidOf(r) \in Uid
  BY RowFacts DEF Visits

LEMMA TypeOfVisits == PairedTypeOK => visit \in [Visitors -> Visits]
  BY RowsAreTyped DEF PairedTypeOK

----------------------------------------------------------------------------
(* The requests in progress *)

\* A request that arrives is recorded with those it overlaps.
LEMMA AdmitRecords ==
    ASSUME PairedTypeOK, OverlapsAreRecorded,
           NEW v \in Visitors, NEW r \in Visits \ {Away}, Admit(v, r)
    PROVE  /\ visit' \in [Visitors -> Visits] /\ visits' \in 0 .. MaxVisits
           /\ visit[v] = Away /\ visit'[v] = r
           /\ \A w \in Visitors \ {v} : visit'[w] = visit[w]
           /\ overlapped \subseteq overlapped'
           /\ OverlapsAreRecorded'
<1> DEFINE others == {visit[w] : w \in Visitors \ {v}} \ {Away}
           mixed == \E x \in others : x.at \in Changing \/ r.at \in Changing
<1>1. visit \in [Visitors -> Visits]
  BY TypeOfVisits
<1>2. /\ visit[v] = Away /\ visits < MaxVisits /\ visits' = visits + 1
      /\ visit' = [visit EXCEPT ![v] = r]
      /\ overlapped' = IF mixed THEN overlapped \cup {UidOf(x) : x \in others \cup {r}}
                       ELSE overlapped
  BY DEF Admit
<1>3. visits' \in 0 .. MaxVisits
  BY <1>2, PairedAssumption DEF PairedTypeOK
<1>4. /\ visit' \in [Visitors -> Visits] /\ visit'[v] = r
      /\ \A w \in Visitors \ {v} : visit'[w] = visit[w]
  BY <1>1, <1>2
<1>5. overlapped \subseteq overlapped'
  BY <1>2
<1>6. ASSUME NEW a \in Visitors, NEW b \in Visitors, a # b,
             visit'[a] # Away, visit'[b] # Away,
             visit'[a].at \in Changing \/ visit'[b].at \in Changing
      PROVE  UidOf(visit'[a]) \in overlapped'
  <2>1. CASE a # v /\ b # v
    <3>1. UidOf(visit[a]) \in overlapped
      BY <1>4, <1>6, <2>1 DEF OverlapsAreRecorded
    <3>2. QED
      BY <1>4, <1>5, <2>1, <3>1
  <2>2. CASE a = v \/ b = v
    <3>1. mixed
      BY <1>4, <1>6, <2>2
    <3>2. visit'[a] \in others \cup {r}
      BY <1>4, <1>6
    <3>3. QED
      BY <1>2, <3>1, <3>2
  <2>3. QED
    BY <2>1, <2>2
<1>7. OverlapsAreRecorded'
  BY <1>6 DEF OverlapsAreRecorded, UidOf, Changing
<1>8. QED
  BY <1>2, <1>3, <1>4, <1>5, <1>7

\* A request that goes on, or ends, leaves what is recorded of the others.
LEMMA StepKeepsRecords ==
    ASSUME PairedTypeOK, OverlapsAreRecorded, overlapped' = overlapped,
           NEW v \in Visitors, NEW r \in Visits, visit' = [visit EXCEPT ![v] = r],
           visit[v] # Away,
           r = Away \/ (UidOf(r) = UidOf(visit[v]) /\ (r.at \in Changing <=> visit[v].at \in Changing))
    PROVE  /\ visit' \in [Visitors -> Visits] /\ visit'[v] = r
           /\ \A w \in Visitors \ {v} : visit'[w] = visit[w]
           /\ OverlapsAreRecorded'
<1>1. /\ visit' \in [Visitors -> Visits] /\ visit'[v] = r
      /\ \A w \in Visitors \ {v} : visit'[w] = visit[w]
  BY TypeOfVisits
<1>2. ASSUME NEW a \in Visitors, NEW b \in Visitors, a # b,
             visit'[a] # Away, visit'[b] # Away,
             visit'[a].at \in Changing \/ visit'[b].at \in Changing
      PROVE  UidOf(visit'[a]) \in overlapped'
  <2>1. visit[a] # Away /\ visit[b] # Away /\ UidOf(visit'[a]) = UidOf(visit[a])
    BY <1>1, <1>2
  <2>2. visit[a].at \in Changing \/ visit[b].at \in Changing
    BY <1>1, <1>2
  <2>3. QED
    BY <1>2, <2>1, <2>2 DEF OverlapsAreRecorded
<1>3. OverlapsAreRecorded'
  BY <1>2 DEF OverlapsAreRecorded, UidOf, Changing
<1>4. QED
  BY <1>1, <1>3

LEMMA EndKeepsRecords ==
    ASSUME PairedTypeOK, OverlapsAreRecorded, overlapped' = overlapped,
           NEW v \in Visitors, visit' = [visit EXCEPT ![v] = Away], visit[v] # Away
    PROVE  /\ visit' \in [Visitors -> Visits] /\ visit'[v] = Away
           /\ \A w \in Visitors \ {v} : visit'[w] = visit[w]
           /\ OverlapsAreRecorded'
<1>1. Away \in Visits
  BY DEF Visits
<1>2. QED
  BY <1>1, StepKeepsRecords

----------------------------------------------------------------------------
(* The requests that arrive *)

\* What an arrival leaves to show: the row is a request, and the three conjuncts
\* about the cache hold of it.
LEMMA ArrivalKeeps ==
    ASSUME CacheInv, NEW v \in Visitors, NEW r \in Visits \ {Away}, Admit(v, r),
           UNCHANGED <<sharing, link, shared, cache, expired>>,
           linked' \in 0 .. MaxLinks,
           \A u \in Uid : r.at \in Changing /\ u \notin overlapped /\ cache[u].at = "full"
             => u = r.copy.uid /\ r.at \in {"void", "erase"},
           r.at \in {"look", "keep"} => r.uid = link.uid /\ r.content.asked = link.fields
    PROVE  CacheInv'
<1>1. /\ visit' \in [Visitors -> Visits] /\ visits' \in 0 .. MaxVisits
      /\ visit[v] = Away /\ visit'[v] = r
      /\ \A w \in Visitors \ {v} : visit'[w] = visit[w]
      /\ overlapped \subseteq overlapped'
      /\ OverlapsAreRecorded'
  BY AdmitRecords DEF CacheInv
<1>2. overlapped' \subseteq Uid
  <2>1. \A w \in Visitors : visit[w] # Away => UidOf(visit[w]) \in Uid
    BY TypeOfVisits, RowsHaveUids DEF CacheInv
  <2>2. UidOf(r) \in Uid
    BY RowsHaveUids
  <2>3. QED
    BY <2>1, <2>2 DEF Admit, CacheInv, PairedTypeOK
<1>3. PairedTypeOK'
  BY <1>1, <1>2, RowsAreTyped DEF CacheInv, PairedTypeOK
<1>4. CacheIsEmptiedFirst'
  BY <1>1 DEF CacheInv, CacheIsEmptiedFirst
<1>5. CacheIsOfTheLink'
  BY <1>1 DEF CacheInv, CacheIsOfTheLink
<1>6. FetchIsOfTheLink'
  BY <1>1 DEF CacheInv, FetchIsOfTheLink
<1>7. QED
  BY <1>1, <1>3, <1>4, <1>5, <1>6 DEF CacheInv

LEMMA CreateLinkKeeps ==
    ASSUME CacheInv, NEW v \in Visitors, NEW fields \in FieldLists, CreateLink(v, fields)
    PROVE  CacheInv'
<1> DEFINE r == [at |-> "store", copy |-> [uid |-> linked + 1, fields |-> fields]]
<1>1. linked + 1 \in Uid /\ linked' \in 0 .. MaxLinks
  BY PairedAssumption DEF CreateLink, CacheInv, PairedTypeOK, Uid
<1>2. r \in Changers
  BY <1>1 DEF Changers, Changing
<1>3. r \in Visits \ {Away}
  BY <1>2, RowFacts DEF Visits
<1>4. \A u \in Uid : ~(u \notin overlapped /\ cache[u].at = "full")
  BY DEF CreateLink, CacheInv, CacheIsOfTheLink, Uid
<1>5. Admit(v, r)
  BY DEF CreateLink
<1>6. QED
  BY <1>1, <1>3, <1>4, <1>5, ArrivalKeeps DEF CreateLink

LEMMA UpdateLinkKeeps ==
    ASSUME CacheInv, NEW v \in Visitors, NEW fields \in FieldLists, UpdateLink(v, fields)
    PROVE  CacheInv'
<1> DEFINE r == [at |-> "void", copy |-> [uid |-> link.uid, fields |-> fields]]
<1>1. link.uid \in Uid /\ linked' \in 0 .. MaxLinks
  BY DEF UpdateLink, CacheInv, PairedTypeOK, Link
<1>2. r \in Changers
  BY <1>1 DEF Changers, Changing
<1>3. r \in Visits \ {Away}
  BY <1>2, RowFacts DEF Visits
<1>4. Admit(v, r)
  BY DEF UpdateLink
<1>5. QED
  BY <1>1, <1>3, <1>4, ArrivalKeeps DEF UpdateLink, CacheInv, CacheIsOfTheLink

LEMMA DeleteLinkKeeps == ASSUME CacheInv, NEW v \in Visitors, DeleteLink(v) PROVE CacheInv'
<1> DEFINE r == [at |-> "erase", copy |-> link]
<1>1. link \in [uid: Uid, fields: FieldLists] /\ linked' \in 0 .. MaxLinks
  BY DEF DeleteLink, CacheInv, PairedTypeOK, Link
<1>2. r \in Changers
  BY <1>1 DEF Changers, Changing
<1>3. r \in Visits \ {Away}
  BY <1>2, RowFacts DEF Visits
<1>4. Admit(v, r)
  BY DEF DeleteLink
<1>5. QED
  BY <1>1, <1>3, <1>4, ArrivalKeeps DEF DeleteLink, CacheInv, CacheIsOfTheLink

LEMMA FetchKeeps == ASSUME CacheInv, NEW v \in Visitors, Fetch(v) PROVE CacheInv'
<1> DEFINE f == [at |-> "look", uid |-> link.uid, known |-> FALSE,
                 content |-> [asked |-> link.fields, shared |-> sharing.fields]]
           d == [at |-> "drop", uid |-> link.uid]
<1>1. link.uid \in Uid /\ link.fields \in FieldLists /\ sharing.fields \in FieldLists
      /\ linked' \in 0 .. MaxLinks
  BY DEF Fetch, CacheInv, PairedTypeOK, Link, Sharing
<1>2. CASE sharing.enabled
  <2>1. f \in Fetchers
    BY <1>1 DEF Fetchers, Content
  <2>2. f \in Visits \ {Away} /\ f.at \notin Changing
    BY <2>1, RowFacts DEF Visits, Changing
  <2>3. Admit(v, f)
    BY <1>2 DEF Fetch
  <2>4. f.uid = link.uid /\ f.content.asked = link.fields
    OBVIOUS
  <2>5. QED
    BY <1>1, <2>2, <2>3, <2>4, ArrivalKeeps DEF Fetch
<1>3. CASE ~sharing.enabled
  <2>1. d \in Droppers
    BY <1>1 DEF Droppers
  <2>2. d \in Visits \ {Away} /\ d.at \notin Changing /\ d.at \notin {"look", "keep"}
    BY <2>1, RowFacts DEF Visits, Changing
  <2>3. Admit(v, d)
    BY <1>3 DEF Fetch
  <2>4. QED
    BY <1>1, <2>2, <2>3, ArrivalKeeps DEF Fetch
<1>4. QED
  BY <1>2, <1>3

----------------------------------------------------------------------------
(* The requests that go on *)

LEMMA VisitRelabelled ==
    \A r \in Changers : \A a : [r EXCEPT !.at = a] = [at |-> a, copy |-> r.copy]
  BY DEF Changers


LEMMA VoidCacheKeeps == ASSUME CacheInv, NEW v \in Visitors, VoidCache(v) PROVE CacheInv'
<1> DEFINE r == [at |-> "store", copy |-> visit[v].copy]
<1>1. visit[v] \in Changers
  BY TypeOfVisits, RowFacts DEF VoidCache, CacheInv, Visits, Changing
<1>2. r \in Visits /\ visit[v] # Away
  <2>1. r \in Changers
    BY <1>1 DEF Changers, Changing
  <2>2. QED
    BY <1>1, <2>1, RowFacts DEF Visits
<1>3. visit' = [visit EXCEPT ![v] = r] /\ OnlyVisits
  BY <1>1, VisitRelabelled DEF VoidCache, Finish
<1>4. r = Away \/ (UidOf(r) = UidOf(visit[v]) /\ (r.at \in Changing <=> visit[v].at \in Changing))
  <2>1. r \in Changers
    BY <1>1 DEF Changers, Changing
  <2>2. QED
    BY <1>1, <2>1, RowFacts
<1>5. /\ visit' \in [Visitors -> Visits] /\ visit'[v] = r
      /\ \A w \in Visitors \ {v} : visit'[w] = visit[w]
      /\ OverlapsAreRecorded'
  BY <1>2, <1>3, <1>4, StepKeepsRecords DEF CacheInv, OnlyVisits
<1>6. link' = link /\ \A u \in Uid : cache'[u].at = "full" => u # visit[v].copy.uid /\ cache'[u] = cache[u]
  BY <1>1, RowFacts DEF VoidCache, CacheInv, PairedTypeOK, NoRow, Void
<1>7. PairedTypeOK'
  BY <1>1, <1>3, <1>5, RowsAreTyped, RowFacts DEF CacheInv, PairedTypeOK, VoidCache, OnlyVisits, FileRows, Void, NoRow
<1>8. CacheIsEmptiedFirst'
  BY <1>1, <1>2, <1>3, <1>5, <1>6, RowFacts
     DEF CacheInv, CacheIsEmptiedFirst, OnlyVisits
<1>9. CacheIsOfTheLink'
  BY <1>1, <1>2, <1>3, <1>5, <1>6, RowFacts
     DEF CacheInv, CacheIsOfTheLink, OnlyVisits
<1>10. FetchIsOfTheLink'
  BY <1>1, <1>2, <1>3, <1>5, <1>6, RowFacts DEF CacheInv, FetchIsOfTheLink, OnlyVisits
<1>11. QED
  BY <1>5, <1>7, <1>8, <1>9, <1>10 DEF CacheInv

LEMMA StoreLinkKeeps == ASSUME CacheInv, NEW v \in Visitors, StoreLink(v) PROVE CacheInv'
<1>1. visit[v] \in Changers
  BY TypeOfVisits, RowFacts DEF StoreLink, CacheInv, Visits, Changing
<1>2. visit[v] # Away
  BY <1>1, RowFacts DEF Visits
<1>3. visit' = [visit EXCEPT ![v] = Away] /\ OnlyVisits
  BY <1>1 DEF StoreLink, Finish
<1>4. /\ visit' \in [Visitors -> Visits] /\ visit'[v] = Away
      /\ \A w \in Visitors \ {v} : visit'[w] = visit[w]
      /\ OverlapsAreRecorded'
  BY <1>2, <1>3, EndKeepsRecords DEF CacheInv, OnlyVisits
<1>5. cache' = cache /\ link' = visit[v].copy
      /\ \A u \in Uid : u \notin overlapped => cache[u].at # "full"
  BY <1>1, <1>2, RowFacts DEF StoreLink, CacheInv, CacheIsEmptiedFirst
<1>6. PairedTypeOK'
  BY <1>1, <1>3, <1>4, RowsAreTyped, RowFacts DEF CacheInv, PairedTypeOK, StoreLink, OnlyVisits
<1>7. CacheIsEmptiedFirst'
  BY <1>1, <1>2, <1>3, <1>4, <1>5, RowFacts
     DEF CacheInv, CacheIsEmptiedFirst, OnlyVisits
<1>8. CacheIsOfTheLink'
  BY <1>1, <1>2, <1>3, <1>4, <1>5, RowFacts
     DEF CacheInv, CacheIsOfTheLink, OnlyVisits
<1>9. FetchIsOfTheLink'
  BY <1>1, <1>2, <1>3, <1>4, <1>5, RowFacts DEF CacheInv, FetchIsOfTheLink, OnlyVisits, OverlapsAreRecorded, UidOf, Changing
<1>10. QED
  BY <1>4, <1>6, <1>7, <1>8, <1>9 DEF CacheInv

LEMMA EraseFileKeeps == ASSUME CacheInv, NEW v \in Visitors, EraseFile(v) PROVE CacheInv'
<1> DEFINE r == [at |-> "remove", copy |-> visit[v].copy]
<1>1. visit[v] \in Changers
  BY TypeOfVisits, RowFacts DEF EraseFile, CacheInv, Visits, Changing
<1>2. r \in Visits /\ visit[v] # Away
  <2>1. r \in Changers
    BY <1>1 DEF Changers, Changing
  <2>2. QED
    BY <1>1, <2>1, RowFacts DEF Visits
<1>3. visit' = [visit EXCEPT ![v] = r] /\ OnlyVisits
  BY <1>1, VisitRelabelled DEF EraseFile, Finish
<1>4. r = Away \/ (UidOf(r) = UidOf(visit[v]) /\ (r.at \in Changing <=> visit[v].at \in Changing))
  <2>1. r \in Changers
    BY <1>1 DEF Changers, Changing
  <2>2. QED
    BY <1>1, <2>1, RowFacts
<1>5. /\ visit' \in [Visitors -> Visits] /\ visit'[v] = r
      /\ \A w \in Visitors \ {v} : visit'[w] = visit[w]
      /\ OverlapsAreRecorded'
  BY <1>2, <1>3, <1>4, StepKeepsRecords DEF CacheInv, OnlyVisits
<1>6. link' = link /\ \A u \in Uid : cache'[u].at = "full" => u # visit[v].copy.uid /\ cache'[u] = cache[u]
  BY <1>1, RowFacts DEF EraseFile, CacheInv, PairedTypeOK, NoRow
<1>7. PairedTypeOK'
  BY <1>1, <1>3, <1>5, RowsAreTyped, RowFacts DEF CacheInv, PairedTypeOK, EraseFile, OnlyVisits, FileRows, NoRow
<1>8. CacheIsEmptiedFirst'
  BY <1>1, <1>2, <1>3, <1>5, <1>6, RowFacts
     DEF CacheInv, CacheIsEmptiedFirst, OnlyVisits
<1>9. CacheIsOfTheLink'
  BY <1>1, <1>2, <1>3, <1>5, <1>6, RowFacts
     DEF CacheInv, CacheIsOfTheLink, OnlyVisits
<1>10. FetchIsOfTheLink'
  BY <1>1, <1>2, <1>3, <1>5, <1>6, RowFacts DEF CacheInv, FetchIsOfTheLink, OnlyVisits
<1>11. QED
  BY <1>5, <1>7, <1>8, <1>9, <1>10 DEF CacheInv

LEMMA RemoveLinkKeeps == ASSUME CacheInv, NEW v \in Visitors, RemoveLink(v) PROVE CacheInv'
<1>1. visit[v] \in Changers
  BY TypeOfVisits, RowFacts DEF RemoveLink, CacheInv, Visits, Changing
<1>2. visit[v] # Away
  BY <1>1, RowFacts DEF Visits
<1>3. visit' = [visit EXCEPT ![v] = Away] /\ OnlyVisits
  BY <1>1 DEF RemoveLink, Finish
<1>4. /\ visit' \in [Visitors -> Visits] /\ visit'[v] = Away
      /\ \A w \in Visitors \ {v} : visit'[w] = visit[w]
      /\ OverlapsAreRecorded'
  BY <1>2, <1>3, EndKeepsRecords DEF CacheInv, OnlyVisits
<1>5. cache' = cache /\ link' = [uid |-> 0, fields |-> {}]
      /\ \A u \in Uid : u \notin overlapped => cache[u].at # "full"
  BY <1>1, <1>2, RowFacts DEF RemoveLink, CacheInv, CacheIsEmptiedFirst
<1>6. PairedTypeOK'
  BY PairedAssumption, <1>1, <1>3, <1>4, <1>5, RowsAreTyped, RowFacts DEF CacheInv, PairedTypeOK, RemoveLink, OnlyVisits, Link
<1>7. CacheIsEmptiedFirst'
  BY <1>1, <1>2, <1>3, <1>4, <1>5, RowFacts
     DEF CacheInv, CacheIsEmptiedFirst, OnlyVisits
<1>8. CacheIsOfTheLink'
  BY <1>1, <1>2, <1>3, <1>4, <1>5, RowFacts
     DEF CacheInv, CacheIsOfTheLink, OnlyVisits
<1>9. FetchIsOfTheLink'
  BY <1>1, <1>2, <1>3, <1>4, <1>5, RowFacts DEF CacheInv, FetchIsOfTheLink, OnlyVisits, OverlapsAreRecorded, UidOf, Changing
<1>10. QED
  BY <1>4, <1>6, <1>7, <1>8, <1>9 DEF CacheInv

LEMMA DropFileKeeps == ASSUME CacheInv, NEW v \in Visitors, DropFile(v) PROVE CacheInv'
<1>1. visit[v] \in Droppers
  BY TypeOfVisits, RowFacts DEF DropFile, CacheInv, Visits, Changing
<1>2. visit[v] # Away
  BY <1>1, RowFacts DEF Visits
<1>3. visit' = [visit EXCEPT ![v] = Away] /\ OnlyVisits
  BY <1>1 DEF DropFile, Finish
<1>4. /\ visit' \in [Visitors -> Visits] /\ visit'[v] = Away
      /\ \A w \in Visitors \ {v} : visit'[w] = visit[w]
      /\ OverlapsAreRecorded'
  BY <1>2, <1>3, EndKeepsRecords DEF CacheInv, OnlyVisits
<1>5. link' = link /\ \A u \in Uid : cache'[u].at = "full" => u # visit[v].uid /\ cache'[u] = cache[u]
  BY <1>1, RowFacts DEF DropFile, CacheInv, PairedTypeOK, NoRow
<1>6. PairedTypeOK'
  BY <1>1, <1>3, <1>4, RowsAreTyped, RowFacts DEF CacheInv, PairedTypeOK, DropFile, OnlyVisits, FileRows, NoRow
<1>7. CacheIsEmptiedFirst'
  BY <1>1, <1>2, <1>3, <1>4, <1>5, RowFacts
     DEF CacheInv, CacheIsEmptiedFirst, OnlyVisits
<1>8. CacheIsOfTheLink'
  BY <1>1, <1>2, <1>3, <1>4, <1>5, RowFacts
     DEF CacheInv, CacheIsOfTheLink, OnlyVisits
<1>9. FetchIsOfTheLink'
  BY <1>1, <1>2, <1>3, <1>4, <1>5, RowFacts DEF CacheInv, FetchIsOfTheLink, OnlyVisits
<1>10. QED
  BY <1>4, <1>6, <1>7, <1>8, <1>9 DEF CacheInv

LEMMA LookUpKeeps == ASSUME CacheInv, NEW v \in Visitors, LookUp(v) PROVE CacheInv'
<1> DEFINE r == IF cache[visit[v].uid].at = "full" /\ visit[v].uid \notin expired THEN Away
                ELSE [visit[v] EXCEPT !.at = "keep", !.known = cache[visit[v].uid] # NoRow]
<1>1. visit[v] \in Fetchers
  BY TypeOfVisits, RowFacts DEF LookUp, CacheInv, Visits, Changing
<1>2. r \in Visits /\ visit[v] # Away
  <2>1. [visit[v] EXCEPT !.at = "keep", !.known = cache[visit[v].uid] # NoRow] \in Fetchers
    BY <1>1 DEF Fetchers
  <2>2. QED
    BY <1>1, <2>1, RowFacts DEF Visits
<1>3. visit' = [visit EXCEPT ![v] = r] /\ OnlyVisits
  BY <1>1 DEF LookUp, Finish
<1>4. r = Away \/ (UidOf(r) = UidOf(visit[v]) /\ (r.at \in Changing <=> visit[v].at \in Changing))
  <2>1. [visit[v] EXCEPT !.at = "keep", !.known = cache[visit[v].uid] # NoRow] \in Fetchers
    BY <1>1 DEF Fetchers
  <2>2. [visit[v] EXCEPT !.at = "keep", !.known = cache[visit[v].uid] # NoRow].uid = visit[v].uid
    BY <1>1 DEF Fetchers
  <2>3. \A x \in Fetchers : x.at \notin Changing /\ UidOf(x) = x.uid
    BY RowFacts DEF Changing
  <2>4. r \in Fetchers => UidOf(r) = r.uid /\ r.at \notin Changing
    BY <2>3
  <2>5. UidOf(visit[v]) = visit[v].uid /\ visit[v].at \notin Changing
    BY <1>1, <2>3
  <2>6. r = Away \/ (r \in Fetchers /\ r.uid = visit[v].uid)
    BY <2>1, <2>2
  <2>7. QED
    BY <2>4, <2>5, <2>6
<1>5. /\ visit' \in [Visitors -> Visits] /\ visit'[v] = r
      /\ \A w \in Visitors \ {v} : visit'[w] = visit[w]
      /\ OverlapsAreRecorded'
  BY <1>2, <1>3, <1>4, StepKeepsRecords DEF CacheInv, OnlyVisits
<1>6. link' = link /\ cache' = cache
      /\ (r # Away => r \in Fetchers /\ r.uid = visit[v].uid /\ r.content = visit[v].content)
  BY <1>1 DEF LookUp, Fetchers
<1>7. PairedTypeOK'
  BY <1>1, <1>3, <1>5, RowsAreTyped, RowFacts DEF CacheInv, PairedTypeOK, LookUp, OnlyVisits
<1>8. CacheIsEmptiedFirst'
  BY <1>1, <1>2, <1>3, <1>5, <1>6, RowFacts
     DEF CacheInv, CacheIsEmptiedFirst, OnlyVisits, Changing
<1>9. CacheIsOfTheLink'
  BY <1>1, <1>2, <1>3, <1>5, <1>6, RowFacts
     DEF CacheInv, CacheIsOfTheLink, OnlyVisits
<1>10. FetchIsOfTheLink'
  BY <1>1, <1>2, <1>3, <1>5, <1>6, RowFacts DEF CacheInv, FetchIsOfTheLink, OnlyVisits
<1>11. QED
  BY <1>5, <1>7, <1>8, <1>9, <1>10 DEF CacheInv

LEMMA KeepFileKeeps == ASSUME CacheInv, NEW v \in Visitors, KeepFile(v) PROVE CacheInv'
<1>1. visit[v] \in Fetchers
  BY TypeOfVisits, RowFacts DEF KeepFile, CacheInv, Visits, Changing
<1>2. visit[v] # Away
  BY <1>1, RowFacts DEF Visits
<1>3. visit' = [visit EXCEPT ![v] = Away] /\ OnlyVisits
  BY <1>1 DEF KeepFile, Finish
<1>4. /\ visit' \in [Visitors -> Visits] /\ visit'[v] = Away
      /\ \A w \in Visitors \ {v} : visit'[w] = visit[w]
      /\ OverlapsAreRecorded'
  BY <1>2, <1>3, EndKeepsRecords DEF CacheInv, OnlyVisits
<1>5. /\ link' = link
      /\ \A u \in Uid : \/ cache'[u] = cache[u]
                        \/ u = visit[v].uid /\ cache'[u] = Full(visit[v].content)
  <2>1. link' = link
    BY Zenon DEF KeepFile
  <2>2. \/ cache' = [cache EXCEPT ![visit[v].uid] = Full(visit[v].content)]
        \/ cache' = cache
    BY Zenon DEF KeepFile
  <2>3. cache \in [Uid -> FileRows] /\ visit[v].uid \in Uid
    BY <1>1, RowFacts DEF CacheInv, PairedTypeOK
  <2>4. QED
    BY <2>1, <2>2, <2>3
<1>6. PairedTypeOK'
  BY <1>1, <1>3, <1>4, RowsAreTyped, RowFacts DEF CacheInv, PairedTypeOK, KeepFile, OnlyVisits, FileRows, Full
<1>7. CacheIsEmptiedFirst'
  BY <1>1, <1>2, <1>3, <1>4, <1>5, RowFacts
     DEF CacheInv, CacheIsEmptiedFirst, OnlyVisits, OverlapsAreRecorded, UidOf
<1>8. CacheIsOfTheLink'
  BY <1>1, <1>2, <1>3, <1>4, <1>5, RowFacts
     DEF CacheInv, CacheIsOfTheLink, OnlyVisits, FetchIsOfTheLink, Full
<1>9. FetchIsOfTheLink'
  BY <1>1, <1>2, <1>3, <1>4, <1>5, RowFacts DEF CacheInv, FetchIsOfTheLink, OnlyVisits
<1>10. QED
  BY <1>4, <1>6, <1>7, <1>8, <1>9 DEF CacheInv

LEMMA GiveUpKeeps == ASSUME CacheInv, NEW v \in Visitors, GiveUp(v) PROVE CacheInv'
<1>1. visit[v] \in Visits
  BY TypeOfVisits, RowFacts DEF GiveUp, CacheInv, Visits, Changing
<1>2. visit[v] # Away
  BY DEF GiveUp
<1>3. visit' = [visit EXCEPT ![v] = Away] /\ OnlyVisits
  BY <1>1 DEF GiveUp, Finish
<1>4. /\ visit' \in [Visitors -> Visits] /\ visit'[v] = Away
      /\ \A w \in Visitors \ {v} : visit'[w] = visit[w]
      /\ OverlapsAreRecorded'
  BY <1>2, <1>3, EndKeepsRecords DEF CacheInv, OnlyVisits
<1>5. link' = link /\ cache' = cache
  BY DEF GiveUp
<1>6. PairedTypeOK'
  BY <1>1, <1>3, <1>4, RowsAreTyped, RowFacts DEF CacheInv, PairedTypeOK, GiveUp, OnlyVisits
<1>7. CacheIsEmptiedFirst'
  BY <1>1, <1>2, <1>3, <1>4, <1>5, RowFacts
     DEF CacheInv, CacheIsEmptiedFirst, OnlyVisits
<1>8. CacheIsOfTheLink'
  BY <1>1, <1>2, <1>3, <1>4, <1>5, RowFacts
     DEF CacheInv, CacheIsOfTheLink, OnlyVisits
<1>9. FetchIsOfTheLink'
  BY <1>1, <1>2, <1>3, <1>4, <1>5, RowFacts DEF CacheInv, FetchIsOfTheLink, OnlyVisits
<1>10. QED
  BY <1>4, <1>6, <1>7, <1>8, <1>9 DEF CacheInv

----------------------------------------------------------------------------
(* The source, time, and the theorems *)

LEMMA ShareKeeps ==
    ASSUME CacheInv, NEW enabled \in BOOLEAN, NEW fields \in FieldLists, Share(enabled, fields)
    PROVE  CacheInv'
<1>1. PairedTypeOK'
  BY PairedAssumption DEF CacheInv, PairedTypeOK, Share, Sharing
<1>2. OverlapsAreRecorded' /\ CacheIsEmptiedFirst' /\ CacheIsOfTheLink' /\ FetchIsOfTheLink'
  BY DEF Share, CacheInv, OverlapsAreRecorded, CacheIsEmptiedFirst, CacheIsOfTheLink,
         FetchIsOfTheLink, UidOf
<1>3. QED
  BY <1>1, <1>2 DEF CacheInv

LEMMA ExpireKeeps == ASSUME CacheInv, NEW u \in Uid, Expire(u) PROVE CacheInv'
<1>1. PairedTypeOK'
  BY DEF CacheInv, PairedTypeOK, Expire
<1>2. OverlapsAreRecorded' /\ CacheIsEmptiedFirst' /\ CacheIsOfTheLink' /\ FetchIsOfTheLink'
  BY DEF Expire, CacheInv, OverlapsAreRecorded, CacheIsEmptiedFirst, CacheIsOfTheLink,
         FetchIsOfTheLink, UidOf
<1>3. QED
  BY <1>1, <1>2 DEF CacheInv

LEMMA IdleKeeps == ASSUME CacheInv, UNCHANGED pairedVars PROVE CacheInv'
  BY DEF pairedVars, CacheInv, PairedTypeOK, OverlapsAreRecorded, CacheIsEmptiedFirst,
         CacheIsOfTheLink, FetchIsOfTheLink, UidOf

LEMMA InitCache == PairedInit => CacheInv
<1> SUFFICES ASSUME PairedInit PROVE CacheInv
  OBVIOUS
<1>1. PairedTypeOK
  BY PairedAssumption DEF PairedInit, PairedTypeOK, Sharing, Link, FileRows
<1>2. \A v \in Visitors : visit[v] = Away
  BY DEF PairedInit
<1>3. \A u \in Uid : cache[u].at # "full"
  BY DEF PairedInit, NoRow
<1>4. QED
  BY <1>1, <1>2, <1>3
     DEF CacheInv, OverlapsAreRecorded, CacheIsEmptiedFirst, CacheIsOfTheLink, FetchIsOfTheLink

LEMMA NextCache == CacheInv /\ [PairedNext]_pairedVars => CacheInv'
<1> SUFFICES ASSUME CacheInv, [PairedNext]_pairedVars PROVE CacheInv'
  OBVIOUS
<1>1. ASSUME NEW v \in Visitors, NEW fields \in FieldLists,
             CreateLink(v, fields) \/ UpdateLink(v, fields)
      PROVE  CacheInv'
  BY <1>1, CreateLinkKeeps, UpdateLinkKeeps
<1>2. ASSUME NEW v \in Visitors,
             DeleteLink(v) \/ Fetch(v) \/ VoidCache(v) \/ StoreLink(v) \/ EraseFile(v) \/ RemoveLink(v)
      PROVE  CacheInv'
  BY <1>2, DeleteLinkKeeps, FetchKeeps, VoidCacheKeeps, StoreLinkKeeps, EraseFileKeeps, RemoveLinkKeeps
<1>3. ASSUME NEW v \in Visitors, DropFile(v) \/ LookUp(v) \/ KeepFile(v) \/ GiveUp(v)
      PROVE  CacheInv'
  BY <1>3, DropFileKeeps, LookUpKeeps, KeepFileKeeps, GiveUpKeeps
<1>4. ASSUME NEW enabled \in BOOLEAN, NEW fields \in FieldLists, Share(enabled, fields)
      PROVE  CacheInv'
  BY <1>4, ShareKeeps
<1>5. ASSUME NEW u \in Uid, Expire(u) PROVE CacheInv'
  BY <1>5, ExpireKeeps
<1>6. CASE UNCHANGED pairedVars
  BY <1>6, IdleKeeps
<1>7. QED
  BY <1>1, <1>2, <1>3, <1>4, <1>5, <1>6 DEF PairedNext

\* What is exported lies within both lists, unless they have nothing in common.
LEMMA ExportIsWithin ==
    ASSUME NEW content \in Content
    PROVE  \/ Disjoint(content)
           \/ Within(Exported(content), content.asked) /\ Within(Exported(content), content.shared)
<1>1. CASE content.shared = {} \/ content.asked = {}
  BY <1>1 DEF Within, Exported, Allowed
<1>2. CASE content.shared # {} /\ content.asked # {}
  BY <1>2 DEF Disjoint, Within, Exported, Allowed
<1>3. QED
  BY <1>1, <1>2

LEMMA CacheInvSuffices == CacheInv => CacheFollowsLink
<1> SUFFICES ASSUME CacheInv, NEW u \in Uid, cache[u].at = "full"
             PROVE  /\ u \notin overlapped => u = link.uid /\ cache[u].content.asked = link.fields
                    /\ \/ Disjoint(cache[u].content)
                       \/ /\ Within(Exported(cache[u].content), cache[u].content.asked)
                          /\ Within(Exported(cache[u].content), cache[u].content.shared)
  BY DEF CacheFollowsLink
<1>1. cache[u].content \in Content
  BY DEF CacheInv, PairedTypeOK, FileRows, NoRow, Void
<1>2. QED
  BY <1>1, ExportIsWithin DEF CacheInv, CacheIsOfTheLink

\* The variables of PairedData keep their types, whatever the requests do.
THEOREM PairedDataTypeCorrect == PairedSpec => []PairedTypeOK
<1>1. CacheInv => PairedTypeOK
  BY DEF CacheInv
<1>2. QED
  BY <1>1, InitCache, NextCache, PTL DEF PairedSpec

\* The cached file is that of the link there is, made for its fields, and shows only
\* what was shared, but for the overlaps and the disjoint lists that CacheFollowsLink
\* names.
THEOREM CacheIsFaithful == PairedSpec => []CacheFollowsLink
  BY InitCache, NextCache, CacheInvSuffices, PTL DEF PairedSpec

----------------------------------------------------------------------------
(* 3. Supplemental details: what a loop over the fields leaves *)

\* What may be stored: entries of some of the fields.
FieldContents == UNION {[D -> Entry] : D \in SUBSET Fields}

LEMMA ContentFacts ==
    ASSUME NEW c \in FieldContents
    PROVE  /\ DOMAIN c \subseteq Fields
           /\ c \in [DOMAIN c -> Entry]
           /\ \A f \in DOMAIN c : c[f] \in Entry
  BY DEF FieldContents

LEMMA ContentsHave ==
    ASSUME NEW D \in SUBSET Fields, NEW c \in [D -> Entry]
    PROVE  c \in FieldContents
  BY DEF FieldContents

LEMMA EntryFacts ==
    ASSUME NEW e \in Entry
    PROVE  e.transcript \in Record /\ e.googletx \in Slot
  BY DEF Entry

LEMMA EntryKept ==
    ASSUME NEW e \in Entry, NEW record \in Record, NEW slot \in Slot
    PROVE  /\ [e EXCEPT !.googletx = slot] \in Entry
           /\ [e EXCEPT !.googletx = slot].transcript = e.transcript
           /\ [e EXCEPT !.googletx = slot].googletx = slot
           /\ [e EXCEPT !.transcript = record] \in Entry
           /\ [e EXCEPT !.transcript = record].transcript = record
           /\ [e EXCEPT !.transcript = record].googletx = e.googletx
  BY DEF Entry

LEMMA UnsetFacts ==
    /\ Unset \in Entry /\ Unset.transcript.value = Absent /\ Unset.transcript.revisions = << >>
    /\ Unset.googletx = [status |-> "none", text |-> NoText]
<1>1. Unset.transcript \in Record
  BY DEF Unset, Record
<1>2. Unset.googletx \in Slot
  BY DEF Unset, Slot
<1>3. QED
  BY <1>1, <1>2 DEF Unset, Entry

LEMMA EntryOfFacts ==
    ASSUME NEW c \in FieldContents, NEW f
    PROVE  EntryOf(c, f) \in Entry
  BY ContentFacts, UnsetFacts DEF EntryOf

LEMMA WithEntryFacts ==
    ASSUME NEW c \in FieldContents, NEW f \in Fields, NEW e \in Entry
    PROVE  /\ WithEntry(c, f, e) \in FieldContents
           /\ DOMAIN WithEntry(c, f, e) = DOMAIN c \cup {f}
           /\ WithEntry(c, f, e)[f] = e
           /\ \A g \in DOMAIN c \ {f} : WithEntry(c, f, e)[g] = c[g]
<1>1. DOMAIN c \cup {f} \in SUBSET Fields
  BY ContentFacts
<1>2. WithEntry(c, f, e) \in [DOMAIN c \cup {f} -> Entry]
  BY ContentFacts DEF WithEntry
<1>3. QED
  BY <1>1, <1>2, ContentsHave DEF WithEntry

\* Users do not type what stands for no record and for a deleted one.
LEMMA MarksAreNoTexts == Absent \notin Transcripts /\ Emptied \notin Transcripts
  BY DetailsAssumption DEF Transcripts, Absent, Emptied, Deletion

LEMMA RevisedFacts ==
    ASSUME NEW record \in Record, NEW value \in Transcripts
    PROVE  Revised(record, value) \in Record
<1>1. /\ record.value \in Transcripts \cup {Absent, Emptied}
      /\ record.revisions \in Seq(Transcripts \cup {Emptied})
  BY DEF Record
<1>2. record.value # Absent =>
        <<record.value>> \o record.revisions \in Seq(Transcripts \cup {Emptied})
  <2>1. record.value # Absent => <<record.value>> \in Seq(Transcripts \cup {Emptied})
    BY <1>1
  <2>2. QED
    BY <1>1, <2>1, ConcatProperties
<1>3. QED
  BY <1>1, <1>2 DEF Revised, Record

LEMMA EditFacts ==
    ASSUME NEW edit \in Edits
    PROVE  /\ edit.order \in Seq(Fields)
           /\ DOMAIN edit.transcripts \subseteq Fields /\ DOMAIN edit.slots \subseteq Fields
           /\ \A f \in DOMAIN edit.transcripts : edit.transcripts[f] \in Transcripts
           /\ \A f \in DOMAIN edit.slots : edit.slots[f] \in Slot
<1>1. IsEdit(edit)
  BY EditsAssumption
<1>2. ToSet(edit.order) \subseteq Fields
  BY <1>1, ElementOfSeq DEF IsEdit, ToSet
<1>3. QED
  BY <1>1, <1>2 DEF IsEdit

\* The transcript and the slot of a field after an edit.
RecordAfter(c, edit, f) ==
    IF f \in DOMAIN edit.transcripts THEN Revised(EntryOf(c, f).transcript, edit.transcripts[f])
    ELSE EntryOf(c, f).transcript
SlotAfter(c, edit, f) ==
    IF f \in DOMAIN edit.slots THEN edit.slots[f] ELSE EntryOf(c, f).googletx

\* An edit changes the transcripts and the slots it speaks of.
LEMMA CompiledFacts ==
    ASSUME NEW c \in FieldContents, NEW edit \in Edits
    PROVE  /\ Compiled(c, edit) \in FieldContents
           /\ DOMAIN Compiled(c, edit) = DOMAIN c \cup DOMAIN edit.transcripts \cup DOMAIN edit.slots
           /\ \A f \in DOMAIN Compiled(c, edit) :
                /\ Compiled(c, edit)[f].transcript = RecordAfter(c, edit, f)
                /\ Compiled(c, edit)[f].googletx = SlotAfter(c, edit, f)
<1> DEFINE k == Compiled(c, edit)
           D == DOMAIN c \cup DOMAIN edit.transcripts \cup DOMAIN edit.slots
           record(f) == RecordAfter(c, edit, f)
           slot(f) == SlotAfter(c, edit, f)
<1>1. k = [f \in D |-> [transcript |-> record(f), googletx |-> slot(f)]]
  BY DEF Compiled, RecordAfter, SlotAfter
<1>2. D \in SUBSET Fields
  BY ContentFacts, EditFacts
<1>3. ASSUME NEW f \in D PROVE record(f) \in Record /\ slot(f) \in Slot
  <2>1. EntryOf(c, f).transcript \in Record /\ EntryOf(c, f).googletx \in Slot
    BY EntryOfFacts, EntryFacts
  <2>2. f \in DOMAIN edit.transcripts => Revised(EntryOf(c, f).transcript, edit.transcripts[f]) \in Record
    BY <2>1, EditFacts, RevisedFacts
  <2>3. QED
    BY <2>1, <2>2, EditFacts DEF RecordAfter, SlotAfter
<1> HIDE DEF k, D, record, slot
<1>4. \A f \in D : k[f].transcript = record(f) /\ k[f].googletx = slot(f) /\ k[f] \in Entry
  BY <1>1, <1>3 DEF Entry
<1>5. DOMAIN k = D /\ k \in [D -> Entry]
  BY <1>1, <1>4
<1>6. QED
  BY <1>2, <1>4, <1>5, ContentsHave DEF k, D, record, slot

----------------------------------------------------------------------------
(* The loop of SubmissionExtras.save *)

Polling == [at : {"polling"}, field : Fields, text : Transcripts]

\* The transcript of the field itself.
OwnText(c, f, text) == text \in Transcripts /\ text = c[f].transcript.value

\* What the loop over the fields of c has made of it when its variables are s.
LoopFits(c, s) ==
    /\ \A f \in DOMAIN c :
         /\ s.copy[f].transcript = c[f].transcript
         /\ \/ s.copy[f].googletx = c[f].googletx
            \/ /\ s.copy[f].googletx.status = "in_progress"
               /\ \E i \in DOMAIN s.queued : s.queued[i].field = f
            \/ /\ s.copy[f].googletx.status = "complete"
               /\ f \in s.crossed \/ OwnText(c, f, s.copy[f].googletx.text)
    /\ \A i \in DOMAIN s.queued :
         /\ s.queued[i].field \in DOMAIN c
         /\ s.queued[i].field \in s.crossed \/ OwnText(c, s.queued[i].field, s.queued[i].text)

LoopState(c) ==
    [copy : [DOMAIN c -> Entry], queued : Seq(Polling),
     carry : Transcripts \cup {NoText, "unbound"}, raised : BOOLEAN, crossed : SUBSET Fields]

Loops(c) == {s \in LoopState(c) : LoopFits(c, s)}

\* One round of the loop, and the whole of it.
LEMMA RoundFits ==
    ASSUME NEW c \in FieldContents, NEW s \in Loops(c), NEW f \in DOMAIN c
    PROVE  Round(s, f) \in Loops(c)
<1> DEFINE e == s.copy[f]
           text == e.transcript.value
           carry == IF e.googletx.status = "in_progress" THEN s.carry
                    ELSE IF e.googletx.status = "requested" /\ text \in Transcripts THEN text
                    ELSE NoText
           later == carry \in LongTexts
           slot == [status |-> IF later THEN "in_progress" ELSE "complete",
                    text |-> IF later THEN NoText ELSE carry]
           task == [at |-> "polling", field |-> f, text |-> carry]
           copy == [s.copy EXCEPT ![f].googletx = slot]
           queued == IF later THEN Append(s.queued, task) ELSE s.queued
           mixed == IF e.googletx.status = "in_progress" THEN s.crossed \cup {f} ELSE s.crossed
           done == [copy |-> copy, queued |-> queued, carry |-> carry, raised |-> FALSE,
                    crossed |-> mixed]
<1>1. /\ s.copy \in [DOMAIN c -> Entry] /\ s.queued \in Seq(Polling)
      /\ s.carry \in Transcripts \cup {NoText, "unbound"} /\ s.raised \in BOOLEAN
      /\ s.crossed \in SUBSET Fields /\ LoopFits(c, s) /\ s \in LoopState(c)
  BY DEF Loops, LoopState
<1>2. Round(s, f) = IF s.raised \/ carry = "unbound" THEN [s EXCEPT !.raised = TRUE]
                    ELSE IF carry = NoText THEN [s EXCEPT !.carry = NoText]
                    ELSE done
  BY DEF Round
<1>3. e \in Entry /\ f \in Fields /\ text = c[f].transcript.value
  BY <1>1, ContentFacts DEF LoopFits
<1>4. carry \in Transcripts \cup {NoText, "unbound"}
  BY <1>1
<1>5. e.googletx.status # "in_progress" /\ carry # NoText => OwnText(c, f, carry)
  BY <1>3 DEF OwnText
<1>6. [s EXCEPT !.raised = TRUE] \in Loops(c)
  <2>1. [s EXCEPT !.raised = TRUE] \in LoopState(c)
    BY <1>1 DEF LoopState
  <2>2. LoopFits(c, [s EXCEPT !.raised = TRUE])
    BY <1>1 DEF LoopFits, LoopState
  <2>3. QED
    BY <2>1, <2>2 DEF Loops
<1>7. [s EXCEPT !.carry = NoText] \in Loops(c)
  <2>1. [s EXCEPT !.carry = NoText] \in LoopState(c)
    BY <1>1 DEF LoopState
  <2>2. LoopFits(c, [s EXCEPT !.carry = NoText])
    BY <1>1 DEF LoopFits, LoopState
  <2>3. QED
    BY <2>1, <2>2 DEF Loops
<1>8. ASSUME carry # NoText, carry # "unbound" PROVE done \in Loops(c)
  <2> HIDE DEF carry, e, text
  <2>1. carry \in Transcripts
    BY <1>4, <1>8
  <2>2. slot \in Slot
    BY <2>1 DEF Slot
  <2>3. task \in Polling
    BY <1>3, <2>1 DEF Polling
  <2>4. queued \in Seq(Polling)
    BY <1>1, <2>3, AppendProperties
  <2>5. mixed \in SUBSET Fields
    BY <1>1, <1>3
  <2>6. /\ copy \in [DOMAIN c -> Entry]
        /\ copy[f].transcript = e.transcript /\ copy[f].googletx = slot
        /\ \A g \in DOMAIN c \ {f} : copy[g] = s.copy[g]
    <3>1. [e EXCEPT !.googletx = slot] \in Entry
      BY <1>3, <2>2, EntryKept, EntryFacts
    <3>2. copy = [s.copy EXCEPT ![f] = [e EXCEPT !.googletx = slot]]
      BY DEF e
    <3> HIDE DEF slot, copy
    <3>3. [e EXCEPT !.googletx = slot].transcript = e.transcript /\ [e EXCEPT !.googletx = slot].googletx = slot
      BY <1>3, <2>2, EntryKept, EntryFacts
    <3>4. QED
      BY <1>1, <3>1, <3>2, <3>3
  <2>7. done \in LoopState(c)
    <3> HIDE DEF copy, queued, mixed
    <3>1. QED
      BY <1>4, <2>4, <2>5, <2>6 DEF LoopState
  <2>8. /\ \A i \in DOMAIN s.queued : i \in DOMAIN queued /\ queued[i] = s.queued[i]
        /\ \A i \in DOMAIN queued : i \in DOMAIN s.queued \/ (later /\ queued[i] = task)
        /\ later => \E i \in DOMAIN queued : queued[i] = task
    <3>1. CASE later
      <4>1. /\ queued = Append(s.queued, task) /\ Len(queued) = Len(s.queued) + 1
            /\ \A i \in 1 .. Len(s.queued) : queued[i] = s.queued[i]
            /\ queued[Len(s.queued) + 1] = task
        BY <1>1, <2>3, <3>1, AppendProperties
      <4>2. DOMAIN queued = 1 .. Len(s.queued) + 1 /\ DOMAIN s.queued = 1 .. Len(s.queued) /\ Len(s.queued) \in Nat
        BY <1>1, <2>4, <4>1
      <4> HIDE DEF queued
      <4>3. \A i \in DOMAIN queued : i \in DOMAIN s.queued \/ i = Len(s.queued) + 1
        BY <4>2
      <4>4. Len(s.queued) + 1 \in DOMAIN queued /\ \A i \in DOMAIN s.queued : i \in DOMAIN queued
        BY <4>2
      <4>5. QED
        BY <3>1, <4>1, <4>2, <4>3, <4>4
    <3>2. CASE ~later
      BY <3>2
    <3>3. QED
      BY <3>1, <3>2
  <2>9. s.crossed \subseteq mixed /\ (f \in mixed \/ OwnText(c, f, carry))
    BY <1>5, <1>8
  <2>10. task.field = f /\ task.text = carry
    OBVIOUS
  <2>11. /\ slot.status = "in_progress" => later
         /\ ~later => slot.status = "complete" /\ slot.text = carry
         /\ later => slot.status = "in_progress"
    OBVIOUS
  <2> HIDE DEF slot, queued, mixed, task, copy, later
  <2>12. \A g \in DOMAIN c :
           /\ copy[g].transcript = c[g].transcript
           /\ \/ copy[g].googletx = c[g].googletx
              \/ copy[g].googletx.status = "in_progress" /\ \E i \in DOMAIN queued : queued[i].field = g
              \/ /\ copy[g].googletx.status = "complete"
                 /\ g \in mixed \/ OwnText(c, g, copy[g].googletx.text)
    <3>1. ASSUME NEW g \in DOMAIN c \ {f}
          PROVE  /\ copy[g].transcript = c[g].transcript
                 /\ \/ copy[g].googletx = c[g].googletx
                    \/ copy[g].googletx.status = "in_progress" /\ \E i \in DOMAIN queued : queued[i].field = g
                    \/ /\ copy[g].googletx.status = "complete"
                       /\ g \in mixed \/ OwnText(c, g, copy[g].googletx.text)
      BY <1>1, <2>6, <2>8, <2>9 DEF LoopFits
    <3>2. copy[f].transcript = c[f].transcript
      BY <1>1, <2>6 DEF e, LoopFits
    <3>3. \/ copy[f].googletx.status = "in_progress" /\ \E i \in DOMAIN queued : queued[i].field = f
          \/ /\ copy[f].googletx.status = "complete"
             /\ f \in mixed \/ OwnText(c, f, copy[f].googletx.text)
      BY <2>6, <2>8, <2>9, <2>10, <2>11
    <3>4. QED
      BY <3>1, <3>2, <3>3
  <2>13. \A i \in DOMAIN queued :
           /\ queued[i].field \in DOMAIN c
           /\ queued[i].field \in mixed \/ OwnText(c, queued[i].field, queued[i].text)
    BY <1>1, <2>8, <2>9, <2>10 DEF LoopFits
  <2>14. LoopFits(c, done)
    BY <2>12, <2>13 DEF LoopFits
  <2> HIDE DEF done
  <2>15. QED
    BY <2>7, <2>14 DEF Loops
<1>9. QED
  BY <1>2, <1>6, <1>7, <1>8

LEMMA RoundsFit ==
    ASSUME NEW c \in FieldContents, NEW s \in Loops(c), NEW S \in SUBSET DOMAIN c,
           NEW order \in Seq(Fields)
    PROVE  Rounds(s, order, S) \in Loops(c)
<1> DEFINE n == Len(order)
           Body(f, i) == IF i = 0 THEN s
                         ELSE IF order[i] \in S THEN Round(f[i - 1], order[i])
                         ELSE f[i - 1]
           after == CHOOSE f : f = [i \in 0 .. n |-> Body(f, i)]
           start == [i \in 0 .. n |-> s]
           step == [x \in (0 .. n) \X Loops(c) |->
                      IF order[x[1]] \in S THEN Round(x[2], order[x[1]]) ELSE x[2]]
<1>1. n \in Nat
  OBVIOUS
<1>2. start \in [0 .. n -> Loops(c)]
  OBVIOUS
<1>3. step \in [(0 .. n) \X Loops(c) -> Loops(c)]
  BY RoundFits
<1>4. PICK f \in [0 .. n -> Loops(c)] : \A i \in 0 .. n : f[i] = Follow({0}, Down, start, step, f, i)
  <2> HIDE DEF start, step
  <2>1. Solvable(0 .. n, {0}, Down, Loops(c), start, step)
    BY <1>1, <1>2, <1>3, CountingArrives, RecursionExists
  <2>2. QED
    BY <2>1 DEF Solvable
<1>5. ASSUME NEW i \in 0 .. n PROVE f[i] = Body(f, i)
  <2>1. i # 0 => Down[i] = i - 1 /\ i - 1 \in 0 .. n
    BY <1>1 DEF Down
  <2>2. i # 0 => f[i - 1] \in Loops(c)
    BY <1>4, <2>1
  <2>3. i # 0 => step[<<i, f[i - 1]>>] =
                   IF order[i] \in S THEN Round(f[i - 1], order[i]) ELSE f[i - 1]
    BY <2>2
  <2> HIDE DEF step
  <2>4. QED
    BY <1>4, <2>1, <2>3 DEF Follow
<1>6. f = [i \in 0 .. n |-> Body(f, i)]
  BY <1>4, <1>5
<1>7. after = [i \in 0 .. n |-> Body(after, i)]
  BY <1>6
<1>8. Rounds(s, order, S) = after[n]
  BY DEF Rounds
<1> HIDE DEF after
<1>9. \A i \in 0 .. n : after[i] = Body(after, i)
  BY <1>7
<1> DEFINE Good == {i \in 0 .. n : after[i] \in Loops(c)}
<1>10. ASSUME NEW i \in 0 .. n, i = 0 \/ i - 1 \in Good PROVE i \in Good
  BY <1>9, <1>10, RoundFits
<1>11. 0 .. n \subseteq Good
  <2>1. \A i \in 0 .. n : i \in {0} \/ Down[i] \in Good => i \in Good
    BY <1>1, <1>10 DEF Down
  <2> HIDE DEF Good
  <2>2. QED
    BY <1>1, <2>1, CountingArrives, InductionAlong
<1>12. n \in 0 .. n
  BY <1>1
<1>13. QED
  BY <1>8, <1>11, <1>12

LEMMA TranslatedFits ==
    ASSUME NEW c \in FieldContents, NEW stored, NEW added \in Seq(Fields)
    PROVE  Translated(c, stored, added) \in Loops(c)
<1> DEFINE start == [copy |-> c, queued |-> << >>, carry |-> "unbound", raised |-> FALSE,
                     crossed |-> {}]
<1>1. start \in LoopState(c)
  BY ContentFacts DEF LoopState
<1>2. LoopFits(c, start)
  BY DEF LoopFits
<1>3. start \in Loops(c)
  BY <1>1, <1>2 DEF Loops
<1>4. Translated(c, stored, added) =
        Rounds(Rounds(start, FieldOrder, DOMAIN c \cap stored), added, DOMAIN c \ stored)
  BY DEF Translated
<1>5. FieldOrder \in Seq(Fields)
  BY DetailsAssumption DEF Fields
<1> HIDE DEF start
<1>6. QED
  BY <1>3, <1>4, <1>5, RoundsFit

----------------------------------------------------------------------------
(* What is true of a content *)

\* A slot is true if users have sent it, or it tells of a task that goes on or a
\* translation of what was typed.
SlotIsTrue(slot, f, sent, claims, lost, mixed, served) ==
    \/ slot \in claims[f]
    \/ /\ slot.status = "in_progress" => f \in lost \cup served
       /\ slot.status = "complete" => f \in mixed \/ slot.text \in sent[f]

\* The newest transcript is one that was typed, and has no revisions before it is.
RecordIsSent(record, f, sent) ==
    /\ record.value = Absent => record.revisions = << >>
    /\ record.value \in Transcripts => record.value \in sent[f]

\* c is true, when users have sent the transcripts `sent` and the slots `claims`, the
\* fields `lost` and `mixed` are exempted, and `served` have a task that goes on.
Sound(c, sent, claims, lost, mixed, served) ==
    \A f \in DOMAIN c :
        /\ RecordIsSent(c[f].transcript, f, sent)
        /\ SlotIsTrue(c[f].googletx, f, sent, claims, lost, mixed, served)

\* The fields with a task that goes on.
FieldsOf(tasks) == {tasks[o].field : o \in {i \in DOMAIN tasks : tasks[i].at # "over"}}

\* What is true stays so when more is sent, exempted or served.
LEMMA StaysSound ==
    ASSUME NEW c \in FieldContents, NEW sent, NEW claims, NEW lost, NEW mixed, NEW served,
           Sound(c, sent, claims, lost, mixed, served),
           NEW sent2, NEW claims2, NEW lost2, NEW mixed2, NEW served2,
           \A f \in Fields : sent[f] \subseteq sent2[f] /\ claims[f] \subseteq claims2[f],
           mixed \subseteq mixed2, lost \cup served \subseteq lost2 \cup served2
    PROVE  Sound(c, sent2, claims2, lost2, mixed2, served2)
  BY ContentFacts DEF Sound, RecordIsSent, SlotIsTrue

\* What users have sent of an edit is in the histories.
EditIsSent(edit, sent, claims) ==
    /\ \A f \in DOMAIN edit.transcripts : edit.transcripts[f] \in sent[f]
    /\ \A f \in DOMAIN edit.slots : edit.slots[f] \in claims[f]

\* Compiling an edit that has been sent.
LEMMA CompiledSound ==
    ASSUME NEW c \in FieldContents, NEW sent, NEW claims, NEW lost, NEW mixed, NEW served,
           Sound(c, sent, claims, lost, mixed, served),
           NEW edit \in Edits, EditIsSent(edit, sent, claims)
    PROVE  Sound(Compiled(c, edit), sent, claims, lost, mixed, served)
<1> SUFFICES ASSUME NEW f \in DOMAIN Compiled(c, edit)
             PROVE  /\ RecordIsSent(Compiled(c, edit)[f].transcript, f, sent)
                    /\ SlotIsTrue(Compiled(c, edit)[f].googletx, f, sent, claims, lost, mixed, served)
  BY DEF Sound
<1> DEFINE k == Compiled(c, edit)[f]
           e == EntryOf(c, f)
<1>1. RecordIsSent(e.transcript, f, sent) /\ SlotIsTrue(e.googletx, f, sent, claims, lost, mixed, served)
  <2>1. CASE f \in DOMAIN c
    BY <2>1 DEF EntryOf, Sound
  <2>2. CASE f \notin DOMAIN c
    BY <2>2, UnsetFacts, MarksAreNoTexts DEF EntryOf, RecordIsSent, SlotIsTrue
  <2>3. QED
    BY <2>1, <2>2
<1>2. /\ k.transcript = IF f \in DOMAIN edit.transcripts
                        THEN Revised(e.transcript, edit.transcripts[f]) ELSE e.transcript
      /\ k.googletx = IF f \in DOMAIN edit.slots THEN edit.slots[f] ELSE e.googletx
  <2>1. k.transcript = RecordAfter(c, edit, f) /\ k.googletx = SlotAfter(c, edit, f)
    BY CompiledFacts
  <2>2. QED
    BY <2>1 DEF RecordAfter, SlotAfter
<1> HIDE DEF k, e
<1>3. RecordIsSent(k.transcript, f, sent)
  <2>1. CASE f \in DOMAIN edit.transcripts
    <3> DEFINE value == edit.transcripts[f]
    <3>1. value \in Transcripts /\ value \in sent[f]
      BY <2>1, EditFacts DEF EditIsSent
    <3>2. k.transcript = Revised(e.transcript, value)
      BY <1>2, <2>1
    <3> HIDE DEF value
    <3>3. RecordIsSent(Revised(e.transcript, value), f, sent)
      BY <1>1, <3>1, MarksAreNoTexts DEF Revised, RecordIsSent, Emptied, Absent
    <3>4. QED
      BY <3>2, <3>3
  <2>2. CASE f \notin DOMAIN edit.transcripts
    <3>1. k.transcript = e.transcript
      BY <1>2, <2>2
    <3>2. QED
      BY <1>1, <3>1
  <2>3. QED
    BY <2>1, <2>2
<1>4. SlotIsTrue(k.googletx, f, sent, claims, lost, mixed, served)
  <2>1. CASE f \in DOMAIN edit.slots
    <3>1. k.googletx = edit.slots[f]
      BY <1>2, <2>1
    <3>2. QED
      BY <2>1, <3>1 DEF EditIsSent, SlotIsTrue
  <2>2. CASE f \notin DOMAIN edit.slots
    <3>1. k.googletx = e.googletx
      BY <1>2, <2>2
    <3>2. QED
      BY <1>1, <3>1
  <2>3. QED
    BY <2>1, <2>2
<1>5. QED
  BY <1>3, <1>4 DEF k

\* Asking Google for what is requested, and queueing the tasks for it.
LEMMA TranslatedSound ==
    ASSUME NEW c \in FieldContents, NEW stored, NEW added \in Seq(Fields),
           NEW sent, NEW claims, NEW lost, NEW mixed, NEW served,
           Sound(c, sent, claims, lost, mixed, served)
    PROVE  LET done == Translated(c, stored, added)
           IN  /\ done.copy \in FieldContents /\ DOMAIN done.copy = DOMAIN c
               /\ \A f \in DOMAIN c : done.copy[f].transcript = c[f].transcript
               /\ done.queued \in Seq(Polling) /\ done.crossed \in SUBSET Fields
               /\ Sound(done.copy, sent, claims, lost, mixed \cup done.crossed,
                        served \cup FieldsOf(done.queued))
               /\ \A i \in DOMAIN done.queued :
                    \/ done.queued[i].field \in done.crossed
                    \/ done.queued[i].text \in sent[done.queued[i].field]
<1> DEFINE done == Translated(c, stored, added)
<1>1. done \in Loops(c)
  BY TranslatedFits
<1> HIDE DEF done
<1>2. /\ done.copy \in [DOMAIN c -> Entry] /\ done.queued \in Seq(Polling)
      /\ done.crossed \in SUBSET Fields /\ LoopFits(c, done)
  BY <1>1 DEF Loops, LoopState
<1>3. done.copy \in FieldContents /\ DOMAIN done.copy = DOMAIN c
  BY <1>2, ContentFacts, ContentsHave
<1>4. \A i \in DOMAIN done.queued : done.queued[i].at = "polling"
  <2>1. \A i \in DOMAIN done.queued : done.queued[i] \in Polling
    BY <1>2, ElementOfSeq
  <2>2. QED
    BY <2>1 DEF Polling
<1>5. \A i \in DOMAIN done.queued : done.queued[i].field \in FieldsOf(done.queued)
  BY <1>4 DEF FieldsOf
<1>6. \A f \in DOMAIN c : \A text : OwnText(c, f, text) => text \in sent[f]
  BY DEF OwnText, Sound, RecordIsSent
<1>7. Sound(done.copy, sent, claims, lost, mixed \cup done.crossed, served \cup FieldsOf(done.queued))
  <2>1. SUFFICES ASSUME NEW f \in DOMAIN c
        PROVE  /\ RecordIsSent(done.copy[f].transcript, f, sent)
               /\ SlotIsTrue(done.copy[f].googletx, f, sent, claims, lost, mixed \cup done.crossed,
                             served \cup FieldsOf(done.queued))
    BY <1>3 DEF Sound
  <2>2. /\ done.copy[f].transcript = c[f].transcript
        /\ \/ done.copy[f].googletx = c[f].googletx
           \/ done.copy[f].googletx.status = "in_progress" /\ f \in FieldsOf(done.queued)
           \/ /\ done.copy[f].googletx.status = "complete"
              /\ f \in done.crossed \/ done.copy[f].googletx.text \in sent[f]
    BY <1>2, <1>5, <1>6 DEF LoopFits
  <2>3. QED
    BY <2>2 DEF Sound, SlotIsTrue
<1>8. \A i \in DOMAIN done.queued :
        \/ done.queued[i].field \in done.crossed
        \/ done.queued[i].text \in sent[done.queued[i].field]
  BY <1>2, <1>6 DEF LoopFits
<1>9. QED
  BY <1>2, <1>3, <1>7, <1>8 DEF done, LoopFits

----------------------------------------------------------------------------
(* The invariant *)

Saving == [at : {"save"}, field : Fields, text : Transcripts, read : FieldContents, copy : FieldContents]
OverTask == [at : {"over"}, field : Fields, text : Transcripts]
TranslationTask == Polling \cup Saving \cup OverTask

Asking == [at : {"wait"}, edit : Edits]
Editing == [at : {"save", "commit"}, edit : Edits, copy : FieldContents]

DetailsTyped ==
    /\ details \in FieldContents
    /\ row_lock \in Posters \cup {NoPoster}
    /\ post \in [Posters -> {NoPost} \cup Asking \cup Editing]
    /\ \A p \in Posters : post[p].at \in {"save", "commit"} => row_lock = p
    /\ posted \in 0 .. MaxPosts
    /\ operations \in Seq(TranslationTask) /\ Len(operations) <= MaxOperations
    /\ typed \in [Fields -> SUBSET Transcripts]
    /\ told \in [Fields -> SUBSET Transcripts]
    /\ overwritten \in BOOLEAN
    /\ claimed \in [Fields -> SUBSET Slot]
    /\ crossed \subseteq Fields /\ dropped \subseteq Fields

\* The row is locked, so a copy is of what is stored, with the edit.
PostFollows(c, r) ==
    /\ r.at = "save" => r.copy = Compiled(c, r.edit)
    /\ r.at = "commit" =>
         /\ DOMAIN r.copy = DOMAIN Compiled(c, r.edit)
         /\ \A f \in DOMAIN r.copy : r.copy[f].transcript = Compiled(c, r.edit)[f].transcript
PostsFollow == \A p \in Posters : PostFollows(details, post[p])

\* What a task will save is what it has read, with the translation.
TaskFollows(t) ==
    t.at = "save" =>
        /\ t.field \in DOMAIN t.read
        /\ t.copy = WithEntry(t.read, t.field, [t.read[t.field] EXCEPT !.googletx =
                                                   [status |-> "complete", text |-> t.text]])
TasksFollow == \A o \in DOMAIN operations : TaskFollows(operations[o])

EditsAreSent ==
    \A p \in Posters : post[p].at # "idle" => EditIsSent(post[p].edit, typed, claimed)

\* The task waits for the translation of a text that was sent for its field.
TextIsSent(t, sent, mixed) == t.field \in mixed \/ t.text \in sent[t.field]

Truth ==
    /\ Sound(details, typed, claimed, dropped, crossed, FieldsOf(operations))
    /\ \A p \in Posters :
         post[p].at = "commit" => Sound(post[p].copy, typed, claimed, dropped, crossed, FieldsOf(operations))
    /\ \A o \in DOMAIN operations : TextIsSent(operations[o], typed, crossed)

DetailsInv ==
    /\ DetailsTyped
    /\ PostsFollow /\ TasksFollow /\ EditsAreSent
    /\ TranscriptsAreKept
    /\ ~overwritten => Truth

----------------------------------------------------------------------------
(* Posts and tasks *)

LEMMA PostFacts ==
    ASSUME NEW r \in {NoPost} \cup Asking \cup Editing
    PROVE  /\ r.at \in {"idle", "wait", "save", "commit"}
           /\ r.at = "idle" <=> r = NoPost
           /\ r.at # "idle" => r.edit \in Edits
           /\ r.at \in {"save", "commit"} => r \in Editing /\ r.copy \in FieldContents
  BY DEF NoPost, Asking, Editing

LEMMA TaskFacts ==
    ASSUME NEW t \in TranslationTask
    PROVE  /\ t.at \in {"polling", "save", "over"} /\ t.field \in Fields /\ t.text \in Transcripts
           /\ t.at = "save" => t.read \in FieldContents /\ t.copy \in FieldContents
           /\ t.at = "polling" => t \in Polling
  BY DEF TranslationTask, Polling, Saving, OverTask

LEMMA TaskSwapped ==
    ASSUME NEW tasks \in Seq(TranslationTask), NEW o \in DOMAIN tasks, NEW t \in TranslationTask
    PROVE  /\ [tasks EXCEPT ![o] = t] \in Seq(TranslationTask)
           /\ Len([tasks EXCEPT ![o] = t]) = Len(tasks)
           /\ DOMAIN [tasks EXCEPT ![o] = t] = DOMAIN tasks
           /\ [tasks EXCEPT ![o] = t][o] = t
           /\ \A i \in DOMAIN tasks \ {o} : [tasks EXCEPT ![o] = t][i] = tasks[i]
<1>1. o \in 1 .. Len(tasks)
  OBVIOUS
<1>2. QED
  BY <1>1, ExceptSeq

LEMMA TasksQueued ==
    ASSUME NEW tasks \in Seq(TranslationTask), NEW more \in Seq(Polling)
    PROVE  /\ tasks \o more \in Seq(TranslationTask) /\ Len(tasks \o more) = Len(tasks) + Len(more)
           /\ \A i \in DOMAIN tasks : i \in DOMAIN (tasks \o more) /\ (tasks \o more)[i] = tasks[i]
           /\ \A i \in DOMAIN (tasks \o more) :
                \/ i \in DOMAIN tasks
                \/ \E j \in DOMAIN more : (tasks \o more)[i] = more[j]
           /\ FieldsOf(tasks \o more) = FieldsOf(tasks) \cup FieldsOf(more)
<1> DEFINE all == tasks \o more
<1>1. more \in Seq(TranslationTask)
  BY SeqMonotonic DEF TranslationTask
<1>2. /\ all \in Seq(TranslationTask) /\ Len(all) = Len(tasks) + Len(more)
      /\ \A i \in 1 .. Len(tasks) + Len(more) :
           all[i] = IF i <= Len(tasks) THEN tasks[i] ELSE more[i - Len(tasks)]
  BY <1>1, ConcatProperties
<1>3. /\ Len(tasks) \in Nat /\ Len(more) \in Nat
      /\ DOMAIN tasks = 1 .. Len(tasks) /\ DOMAIN more = 1 .. Len(more)
  BY <1>1
<1>4. DOMAIN all = 1 .. Len(tasks) + Len(more)
  BY <1>2
<1> HIDE DEF all
<1>5. \A i \in DOMAIN tasks : i \in DOMAIN all /\ all[i] = tasks[i]
  BY <1>2, <1>3, <1>4
<1>6. \A i \in DOMAIN all : i \in DOMAIN tasks \/ \E j \in DOMAIN more : all[i] = more[j]
  <2>1. SUFFICES ASSUME NEW i \in DOMAIN all, i \notin DOMAIN tasks
                 PROVE  \E j \in DOMAIN more : all[i] = more[j]
    OBVIOUS
  <2>2. i - Len(tasks) \in DOMAIN more
    BY <1>3, <1>4, <2>1
  <2>3. all[i] = more[i - Len(tasks)]
    BY <1>2, <1>3, <1>4, <2>1
  <2>4. QED
    BY <2>2, <2>3
<1>7. \A j \in DOMAIN more : \E i \in DOMAIN all : all[i] = more[j]
  <2>1. SUFFICES ASSUME NEW j \in DOMAIN more PROVE \E i \in DOMAIN all : all[i] = more[j]
    OBVIOUS
  <2>2. Len(tasks) + j \in DOMAIN all /\ ~(Len(tasks) + j <= Len(tasks)) /\ Len(tasks) + j - Len(tasks) = j
    BY <1>3, <1>4
  <2>3. all[Len(tasks) + j] = more[j]
    BY <1>2, <1>4, <2>2
  <2>4. QED
    BY <2>2, <2>3
<1>8. FieldsOf(all) = FieldsOf(tasks) \cup FieldsOf(more)
  BY <1>5, <1>6, <1>7 DEF FieldsOf
<1>9. QED
  BY <1>2, <1>5, <1>6, <1>8 DEF all

\* A task that ends is exempted, or another one serves its field.
LEMMA FieldsSwapped ==
    ASSUME NEW tasks \in Seq(TranslationTask), NEW o \in DOMAIN tasks, NEW t \in TranslationTask,
           t.field = tasks[o].field
    PROVE  /\ t.at # "over" => FieldsOf(tasks) \subseteq FieldsOf([tasks EXCEPT ![o] = t])
           /\ FieldsOf(tasks) \subseteq FieldsOf([tasks EXCEPT ![o] = t]) \cup {t.field}
<1> DEFINE after == [tasks EXCEPT ![o] = t]
<1>1. DOMAIN after = DOMAIN tasks /\ after[o] = t /\ \A i \in DOMAIN tasks \ {o} : after[i] = tasks[i]
  BY TaskSwapped
<1> HIDE DEF after
<1>2. t.at # "over" => FieldsOf(tasks) \subseteq FieldsOf(after)
  BY <1>1 DEF FieldsOf
<1>3. FieldsOf(tasks) \subseteq FieldsOf(after) \cup {t.field}
  BY <1>1 DEF FieldsOf
<1>4. QED
  BY <1>2, <1>3 DEF after

----------------------------------------------------------------------------
(* The steps of a request *)

LEMMA InitDetails == DetailsInit => DetailsInv
<1> SUFFICES ASSUME DetailsInit PROVE DetailsInv
  OBVIOUS
<1>1. /\ details = << >> /\ row_lock = NoPoster /\ post = [p \in Posters |-> NoPost] /\ posted = 0
      /\ operations = << >> /\ typed = [f \in Fields |-> {}] /\ told = [f \in Fields |-> {}]
      /\ overwritten = FALSE /\ claimed = [f \in Fields |-> {}] /\ crossed = {} /\ dropped = {}
  BY DEF DetailsInit
<1>2. DOMAIN details = {} /\ DOMAIN operations = {}
  BY <1>1
<1>3. details \in FieldContents
  <2>1. details \in [{} -> Entry]
    BY <1>1
  <2>2. QED
    BY <2>1, ContentsHave
<1>4. \A p \in Posters : post[p] = NoPost /\ post[p].at = "idle"
  BY <1>1 DEF NoPost
<1>5. DetailsTyped
  <2>1. operations \in Seq(TranslationTask) /\ Len(operations) <= MaxOperations /\ posted \in 0 .. MaxPosts
    BY <1>1, DetailsAssumption
  <2>2. QED
    BY <1>1, <1>3, <1>4, <2>1 DEF DetailsTyped
<1>6. PostsFollow /\ TasksFollow /\ EditsAreSent
  BY <1>2, <1>4 DEF PostsFollow, PostFollows, TasksFollow, EditsAreSent
<1>7. TranscriptsAreKept
  BY <1>1 DEF TranscriptsAreKept
<1>8. Truth
  BY <1>2, <1>4 DEF Truth, Sound
<1>9. QED
  BY <1>5, <1>6, <1>7, <1>8 DEF DetailsInv

\* What is true stays so when transcripts are sent, and a task that ends is exempted.
LEMMA TruthGrows ==
    ASSUME DetailsTyped, DetailsTyped', Truth,
           details' = details,
           \A p \in Posters : post'[p].at = "commit" => post'[p] = post[p],
           \A f \in Fields : typed[f] \subseteq typed'[f] /\ claimed[f] \subseteq claimed'[f],
           crossed \subseteq crossed',
           dropped \cup FieldsOf(operations) \subseteq dropped' \cup FieldsOf(operations'),
           \A o \in DOMAIN operations' : TextIsSent(operations'[o], typed', crossed')
    PROVE  Truth'
<1> DEFINE Before(c) == Sound(c, typed, claimed, dropped, crossed, FieldsOf(operations))
           After(c) == Sound(c, typed', claimed', dropped', crossed', FieldsOf(operations'))
<1>1. ASSUME NEW c \in FieldContents, Before(c) PROVE After(c)
  BY <1>1, StaysSound
<1>2. After(details')
  <2>1. details \in FieldContents /\ Before(details)
    BY DEF DetailsTyped, Truth
  <2> HIDE DEF Before, After
  <2>2. QED
    BY <1>1, <2>1
<1>3. ASSUME NEW p \in Posters, post'[p].at = "commit" PROVE After(post'[p].copy)
  <2>1. post'[p] = post[p] /\ post[p].at = "commit"
    BY <1>3
  <2>2. post[p].copy \in FieldContents
    BY <2>1, PostFacts DEF DetailsTyped
  <2>3. Before(post[p].copy)
    BY <2>1 DEF Truth
  <2> HIDE DEF Before, After
  <2>4. QED
    BY <1>1, <2>1, <2>2, <2>3
<1>4. QED
  BY <1>2, <1>3 DEF Truth

LEMMA SubmitKeeps ==
    ASSUME DetailsInv, NEW p \in Posters, NEW edit \in Edits, Submit(p, edit)
    PROVE  DetailsInv'
<1> DEFINE r == [at |-> "wait", edit |-> edit]
<1>1. /\ post[p] = NoPost /\ posted < MaxPosts /\ posted' = posted + 1 /\ post' = [post EXCEPT ![p] = r]
      /\ typed' = [f \in Fields |-> typed[f] \cup Of(edit.transcripts, f)]
      /\ claimed' = [f \in Fields |-> claimed[f] \cup Of(edit.slots, f)]
      /\ UNCHANGED <<details, row_lock, operations, told, overwritten, crossed, dropped>>
  BY DEF Submit
<1>2. /\ DetailsTyped
      /\ DOMAIN edit.transcripts \subseteq Fields /\ DOMAIN edit.slots \subseteq Fields
      /\ \A f \in Fields : Of(edit.transcripts, f) \subseteq Transcripts /\ Of(edit.slots, f) \subseteq Slot
  BY EditFacts DEF DetailsInv, Of
<1>3. r \in Asking /\ r.at = "wait" /\ r.edit = edit
  BY DEF Asking
<1> HIDE DEF r
<1>4. /\ post'[p] = r /\ \A q \in Posters \ {p} : post'[q] = post[q]
      /\ post' \in [Posters -> {NoPost} \cup Asking \cup Editing]
  BY <1>1, <1>2, <1>3 DEF DetailsTyped
<1>5. /\ typed' \in [Fields -> SUBSET Transcripts]
      /\ claimed' \in [Fields -> SUBSET Slot]
      /\ \A f \in Fields : typed[f] \subseteq typed'[f] /\ claimed[f] \subseteq claimed'[f]
      /\ EditIsSent(edit, typed', claimed')
  <2>1. \A f \in Fields : typed[f] \subseteq Transcripts /\ claimed[f] \subseteq Slot
    BY <1>2 DEF DetailsTyped
  <2>2. EditIsSent(edit, typed', claimed')
    BY <1>1, <1>2 DEF EditIsSent, Of
  <2>3. QED
    BY <1>1, <1>2, <2>1, <2>2
<1>6. DetailsTyped'
  <2>1. posted' \in 0 .. MaxPosts
    BY <1>1, <1>2, DetailsAssumption DEF DetailsTyped
  <2>2. \A q \in Posters : post'[q].at \in {"save", "commit"} => row_lock' = q
    BY <1>1, <1>2, <1>3, <1>4 DEF DetailsTyped
  <2>3. QED
    BY <1>1, <1>2, <1>4, <1>5, <2>1, <2>2 DEF DetailsTyped
<1>7. PostsFollow'
  BY <1>1, <1>3, <1>4 DEF DetailsInv, PostsFollow, PostFollows
<1>8. TasksFollow'
  BY <1>1 DEF DetailsInv, TasksFollow
<1>9. EditsAreSent'
  <2>1. ASSUME NEW q \in Posters \ {p}, post'[q].at # "idle"
        PROVE  EditIsSent(post'[q].edit, typed', claimed')
    <3>1. post'[q] = post[q] /\ post[q].edit \in Edits /\ EditIsSent(post[q].edit, typed, claimed)
      BY <1>2, <1>4, <2>1, PostFacts DEF DetailsTyped, DetailsInv, EditsAreSent
    <3>2. QED
      BY <1>5, <3>1, EditFacts DEF EditIsSent
  <2>2. QED
    BY <1>3, <1>4, <1>5, <2>1 DEF EditsAreSent
<1>10. TranscriptsAreKept'
  BY <1>1 DEF DetailsInv, TranscriptsAreKept
<1>11. ASSUME ~overwritten' PROVE Truth'
  <2>1. Truth
    BY <1>1, <1>11 DEF DetailsInv
  <2>2. \A q \in Posters : post'[q].at = "commit" => post'[q] = post[q]
    BY <1>3, <1>4
  <2>3. \A o \in DOMAIN operations' : TextIsSent(operations'[o], typed', crossed')
    <3>1. SUFFICES ASSUME NEW o \in DOMAIN operations PROVE TextIsSent(operations[o], typed', crossed')
      BY <1>1
    <3>2. operations[o] \in TranslationTask
      BY <1>2, ElementOfSeq DEF DetailsTyped
    <3>3. QED
      BY <1>1, <1>5, <2>1, <3>2, TaskFacts DEF Truth, TextIsSent
  <2>4. QED
    BY <1>1, <1>2, <1>5, <1>6, <2>1, <2>2, <2>3, TruthGrows
<1>12. QED
  BY <1>6, <1>7, <1>8, <1>9, <1>10, <1>11 DEF DetailsInv

\* A step of one request that leaves the tasks, what is stored and what is known alone.
LEMMA PostMoves ==
    ASSUME DetailsInv, NEW p \in Posters, NEW r \in {NoPost} \cup Asking \cup Editing,
           post' = [post EXCEPT ![p] = r], row_lock' \in {p, NoPoster},
           r.at \in {"save", "commit"} => row_lock' = p,
           row_lock \in {p, NoPoster},
           r.at # "commit", PostFollows(details, r),
           r.at # "idle" => post[p].at # "idle" /\ r.edit = post[p].edit,
           UNCHANGED <<details, posted, operations, typed, told, overwritten, claimed, crossed, dropped>>
    PROVE  DetailsInv'
<1>1. DetailsTyped
  BY DEF DetailsInv
<1>2. /\ post'[p] = r /\ \A q \in Posters \ {p} : post'[q] = post[q]
      /\ post' \in [Posters -> {NoPost} \cup Asking \cup Editing]
  BY <1>1 DEF DetailsTyped
<1>3. \A q \in Posters \ {p} : post[q].at \notin {"save", "commit"}
  BY <1>1, DetailsAssumption DEF DetailsTyped
<1>4. DetailsTyped'
  <2>1. \A q \in Posters : post'[q].at \in {"save", "commit"} => row_lock' = q
    BY <1>2, <1>3
  <2>2. QED
    BY <1>1, <1>2, <2>1 DEF DetailsTyped
<1>5. PostsFollow'
  BY <1>2 DEF DetailsInv, PostsFollow, PostFollows
<1>6. TasksFollow'
  BY DEF DetailsInv, TasksFollow
<1>7. EditsAreSent'
  <2>1. ASSUME NEW q \in Posters, post'[q].at # "idle"
        PROVE  post[q].at # "idle" /\ post'[q].edit = post[q].edit
    BY <1>2, <2>1
  <2>2. QED
    BY <2>1 DEF DetailsInv, EditsAreSent
<1>8. TranscriptsAreKept'
  BY DEF DetailsInv, TranscriptsAreKept
<1>9. ASSUME ~overwritten' PROVE Truth'
  <2>1. Truth
    BY <1>9 DEF DetailsInv
  <2>2. \A q \in Posters : post'[q].at = "commit" => post'[q] = post[q]
    BY <1>2
  <2>3. QED
    BY <1>1, <1>4, <2>1, <2>2, TruthGrows DEF Truth
<1>10. QED
  BY <1>4, <1>5, <1>6, <1>7, <1>8, <1>9 DEF DetailsInv

LEMMA LockAndCompileKeeps ==
    ASSUME DetailsInv, NEW p \in Posters, LockAndCompile(p)
    PROVE  DetailsInv'
<1> DEFINE r == [at |-> "save", edit |-> post[p].edit, copy |-> Compiled(details, post[p].edit)]
<1>1. /\ post[p].at = "wait" /\ row_lock = NoPoster /\ row_lock' = p /\ post' = [post EXCEPT ![p] = r]
      /\ UNCHANGED <<details, posted, operations, typed, told, overwritten, claimed, crossed, dropped>>
  BY DEF LockAndCompile
<1>2. post[p].edit \in Edits
  BY <1>1, PostFacts DEF DetailsInv, DetailsTyped
<1>3. Compiled(details, post[p].edit) \in FieldContents
  BY <1>2, CompiledFacts DEF DetailsInv, DetailsTyped
<1>4. r \in Editing
  BY <1>2, <1>3 DEF Editing
<1>5. PostFollows(details, r)
  BY DEF PostFollows
<1>6. r.at = "save" /\ r.edit = post[p].edit
  OBVIOUS
<1> HIDE DEF r
<1>7. QED
  BY <1>1, <1>4, <1>5, <1>6, PostMoves

LEMMA NoPostFacts == NoPost \in {NoPost} \cup Asking \cup Editing /\ NoPost.at = "idle"
  BY DEF NoPost

LEMMA RollBackKeeps ==
    ASSUME DetailsInv, NEW p \in Posters, RollBackPost(p)
    PROVE  DetailsInv'
<1>1. /\ post[p].at \in {"save", "commit"} /\ row_lock' = NoPoster /\ post' = [post EXCEPT ![p] = NoPost]
      /\ UNCHANGED <<details, posted, operations, typed, told, overwritten, claimed, crossed, dropped>>
  BY DEF RollBackPost, Abandon
<1>2. row_lock = p
  BY <1>1 DEF DetailsInv, DetailsTyped
<1>3. PostFollows(details, NoPost)
  BY NoPostFacts DEF PostFollows
<1>4. QED
  BY <1>1, <1>2, <1>3, NoPostFacts, PostMoves

----------------------------------------------------------------------------
\* The translations are asked for, and their tasks queued.
LEMMA TranslateKeeps ==
    ASSUME DetailsInv, NEW p \in Posters, Translate(p)
    PROVE  DetailsInv'
<1> DEFINE edit == post[p].edit
           copy == post[p].copy
           saved == Translated(copy, DOMAIN details, edit.order)
           r == IF saved.raised THEN NoPost ELSE [post[p] EXCEPT !.at = "commit", !.copy = saved.copy]
<1>1. /\ post[p].at = "save" /\ Len(operations) + Len(saved.queued) <= MaxOperations
      /\ operations' = operations \o saved.queued /\ crossed' = crossed \cup saved.crossed
      /\ UNCHANGED <<details, posted, typed, told, overwritten, claimed, dropped>>
      /\ row_lock' = IF saved.raised THEN NoPoster ELSE row_lock
  BY DEF Translate, Queue, Abandon
<1>2. DetailsTyped /\ edit \in Edits /\ edit.order \in Seq(Fields) /\ copy \in FieldContents /\ post[p] \in Editing /\ row_lock = p
  BY <1>1, PostFacts, EditFacts DEF DetailsInv, DetailsTyped
<1>3. post' = [post EXCEPT ![p] = r]
  <2>1. CASE saved.raised
    BY <2>1 DEF Translate, Abandon
  <2>2. CASE ~saved.raised
    <3>1. post' = [post EXCEPT ![p].at = "commit", ![p].copy = saved.copy]
      BY <2>2 DEF Translate
    <3> HIDE DEF saved
    <3>2. QED
      BY <1>2, <2>2, <3>1 DEF DetailsTyped
  <2>3. QED
    BY <2>1, <2>2
<1>4. copy = Compiled(details, edit)
  BY <1>1 DEF DetailsInv, PostsFollow, PostFollows
<1>5. ASSUME NEW sent, NEW claims, NEW lost, NEW mixed, NEW served, Sound(copy, sent, claims, lost, mixed, served)
      PROVE  /\ Sound(saved.copy, sent, claims, lost, mixed \cup saved.crossed, served \cup FieldsOf(saved.queued))
             /\ \A i \in DOMAIN saved.queued :
                  \/ saved.queued[i].field \in saved.crossed
                  \/ saved.queued[i].text \in sent[saved.queued[i].field]
  BY <1>2, <1>5, TranslatedSound
<1>6. /\ saved.copy \in FieldContents /\ DOMAIN saved.copy = DOMAIN copy
      /\ \A f \in DOMAIN copy : saved.copy[f].transcript = copy[f].transcript
      /\ saved.queued \in Seq(Polling) /\ saved.crossed \in SUBSET Fields
  <2>1. saved \in Loops(copy)
    BY <1>2, TranslatedFits
  <2> HIDE DEF saved, copy
  <2>2. saved.copy \in [DOMAIN copy -> Entry]
    BY <2>1 DEF Loops, LoopState
  <2>3. saved.copy \in FieldContents
    BY <1>2, <2>2, ContentFacts, ContentsHave
  <2>4. QED
    BY <2>1, <2>2, <2>3 DEF Loops, LoopState, LoopFits
<1> HIDE DEF saved, copy, edit
<1>7. /\ r \in {NoPost} \cup Asking \cup Editing
      /\ r.at = "commit" => r.copy = saved.copy /\ r.edit = edit
      /\ r.at # "save" /\ r.at # "wait" /\ (r.at = "commit" => ~saved.raised)
      /\ r.at # "idle" => r.at = "commit"
  BY <1>2, <1>6 DEF Editing, NoPost, edit
<1> HIDE DEF r
<1>8. /\ post'[p] = r /\ \A q \in Posters \ {p} : post'[q] = post[q]
      /\ post' \in [Posters -> {NoPost} \cup Asking \cup Editing]
  BY <1>2, <1>3, <1>7 DEF DetailsTyped
<1>9. /\ operations' \in Seq(TranslationTask) /\ Len(operations') <= MaxOperations
      /\ \A i \in DOMAIN operations' :
           \/ i \in DOMAIN operations /\ operations'[i] = operations[i]
           \/ \E j \in DOMAIN saved.queued : operations'[i] = saved.queued[j]
      /\ FieldsOf(operations') = FieldsOf(operations) \cup FieldsOf(saved.queued)
  BY <1>1, <1>2, <1>6, TasksQueued DEF DetailsTyped
<1>10. DetailsTyped'
  <2>1. \A q \in Posters \ {p} : post[q].at \notin {"save", "commit"}
    BY <1>2, DetailsAssumption DEF DetailsTyped
  <2>2. \A q \in Posters : post'[q].at \in {"save", "commit"} => row_lock' = q
    BY <1>1, <1>2, <1>7, <1>8, <2>1
  <2>3. row_lock' \in Posters \cup {NoPoster}
    BY <1>1, <1>2
  <2>4. QED
    BY <1>1, <1>2, <1>6, <1>8, <1>9, <2>2, <2>3 DEF DetailsTyped
<1>11. PostsFollow'
  <2>1. PostFollows(details, r)
    BY <1>4, <1>6, <1>7 DEF PostFollows
  <2>2. QED
    BY <1>1, <1>8, <2>1 DEF DetailsInv, PostsFollow
<1>12. TasksFollow'
  <2>1. SUFFICES ASSUME NEW i \in DOMAIN operations' PROVE TaskFollows(operations'[i])
    BY DEF TasksFollow
  <2>2. CASE i \in DOMAIN operations /\ operations'[i] = operations[i]
    BY <2>2 DEF DetailsInv, TasksFollow
  <2>3. CASE \E j \in DOMAIN saved.queued : operations'[i] = saved.queued[j]
    <3>1. operations'[i] \in Polling
      BY <1>6, <2>3, ElementOfSeq
    <3>2. QED
      BY <3>1 DEF Polling, TaskFollows
  <2>4. QED
    BY <1>9, <2>2, <2>3
<1>13. EditsAreSent'
  BY <1>1, <1>7, <1>8 DEF DetailsInv, EditsAreSent, edit
<1>14. TranscriptsAreKept'
  BY <1>1 DEF DetailsInv, TranscriptsAreKept
<1>15. ASSUME ~overwritten' PROVE Truth'
  <2> DEFINE Before(c) == Sound(c, typed, claimed, dropped, crossed, FieldsOf(operations))
             After(c) == Sound(c, typed', claimed', dropped', crossed', FieldsOf(operations'))
  <2>1. Truth
    BY <1>1, <1>15 DEF DetailsInv
  <2>2. Before(copy)
    <3>1. EditIsSent(edit, typed, claimed)
      BY <1>1 DEF DetailsInv, EditsAreSent, edit
    <3>2. Before(details)
      BY <2>1 DEF Truth
    <3>3. QED
      BY <1>2, <1>4, <3>1, <3>2, CompiledSound DEF DetailsTyped
  <2>3. After(saved.copy)
    <3>1. Sound(saved.copy, typed, claimed, dropped, crossed \cup saved.crossed,
                FieldsOf(operations) \cup FieldsOf(saved.queued))
      BY <1>5, <2>2
    <3>2. typed' = typed /\ claimed' = claimed /\ dropped' = dropped
      BY <1>1
    <3>3. QED
      BY <1>1, <1>9, <3>1, <3>2
  <2>4. After(details')
    <3>1. details \in FieldContents /\ Before(details)
      BY <1>2, <2>1 DEF Truth, DetailsTyped
    <3>2. QED
      BY <1>1, <1>9, <3>1, StaysSound
  <2>5. ASSUME NEW q \in Posters, post'[q].at = "commit" PROVE After(post'[q].copy)
    <3>1. q = p
      BY <1>2, <1>8, <2>5, DetailsAssumption DEF DetailsTyped
    <3>2. post'[q].copy = saved.copy
      BY <1>7, <1>8, <2>5, <3>1
    <3> HIDE DEF After
    <3>3. QED
      BY <2>3, <3>2
  <2>6. ASSUME NEW i \in DOMAIN operations' PROVE TextIsSent(operations'[i], typed', crossed')
    <3>1. CASE i \in DOMAIN operations /\ operations'[i] = operations[i]
      BY <1>1, <2>1, <3>1 DEF Truth, TextIsSent
    <3>2. CASE \E j \in DOMAIN saved.queued : operations'[i] = saved.queued[j]
      BY <1>1, <1>5, <2>2, <3>2 DEF TextIsSent
    <3>3. QED
      BY <1>9, <3>1, <3>2
  <2>7. QED
    BY <2>4, <2>5, <2>6 DEF Truth
<1>16. QED
  BY <1>10, <1>11, <1>12, <1>13, <1>14, <1>15 DEF DetailsInv

\* A revision keeps what was told, and says what is told now.
LEMMA RevisedKeeps ==
    ASSUME NEW record \in Record, NEW value \in Transcripts, NEW S \in SUBSET Transcripts,
           S \subseteq {record.value} \cup ToSet(record.revisions),
           record.value = Absent => record.revisions = << >>
    PROVE  LET r == Revised(record, value)
           IN  (IF r.value = Emptied THEN {} ELSE S \cup {r.value})
                   \subseteq {r.value} \cup ToSet(r.revisions)
<1> DEFINE r == Revised(record, value)
<1>1. /\ record.value \in Transcripts \cup {Absent, Emptied}
      /\ record.revisions \in Seq(Transcripts \cup {Emptied})
  BY DEF Record
<1>2. CASE record.value = Absent
  <2>1. ToSet(record.revisions) = {}
    BY <1>2 DEF ToSet
  <2>2. S = {}
    BY <1>2, <2>1, MarksAreNoTexts
  <2>3. QED
    BY <2>2
<1>3. CASE record.value # Absent /\ record.value = value
  BY <1>3 DEF Revised
<1>4. CASE record.value # Absent /\ record.value # value /\ value = Deletion
  BY <1>4 DEF Revised
<1>5. CASE record.value # Absent /\ record.value # value /\ value # Deletion
  <2>1. r.value = value /\ r.revisions = <<record.value>> \o record.revisions
    BY <1>5 DEF Revised
  <2>2. ASSUME NEW x \in {record.value} \cup ToSet(record.revisions)
        PROVE  x \in ToSet(r.revisions)
    <3> DEFINE all == <<record.value>> \o record.revisions
    <3>1. <<record.value>> \in Seq(Transcripts \cup {Emptied}) /\ Len(<<record.value>>) = 1
      BY <1>1, <1>5
    <3>2. /\ all \in Seq(Transcripts \cup {Emptied}) /\ Len(all) = 1 + Len(record.revisions)
          /\ \A i \in 1 .. 1 + Len(record.revisions) :
               all[i] = IF i <= 1 THEN <<record.value>>[i] ELSE record.revisions[i - 1]
      BY <1>1, <3>1, ConcatProperties
    <3>3. DOMAIN all = 1 .. 1 + Len(record.revisions) /\ Len(record.revisions) \in Nat
      BY <1>1, <3>2
    <3> HIDE DEF all
    <3>4. CASE x = record.value
      <4>1. 1 \in DOMAIN all /\ all[1] = x
        BY <3>2, <3>3, <3>4
      <4>2. QED
        BY <2>1, <4>1 DEF ToSet, all
    <3>5. CASE x \in ToSet(record.revisions)
      <4>1. PICK j \in DOMAIN record.revisions : record.revisions[j] = x
        BY <3>5 DEF ToSet
      <4>2. DOMAIN record.revisions = 1 .. Len(record.revisions)
        BY <1>1
      <4>3. j + 1 \in DOMAIN all /\ ~(j + 1 <= 1) /\ j + 1 - 1 = j
        BY <3>3, <4>2
      <4>4. all[j + 1] = x
        BY <3>2, <3>3, <4>1, <4>3
      <4>5. QED
        BY <2>1, <4>3, <4>4 DEF ToSet, all
    <3>6. QED
      BY <2>2, <3>4, <3>5
  <2> HIDE DEF r
  <2>3. S \subseteq ToSet(r.revisions)
    BY <2>2
  <2>4. QED
    BY <2>1, <2>3 DEF r
<1>6. QED
  BY <1>2, <1>3, <1>4, <1>5

LEMMA CommitKeeps ==
    ASSUME DetailsInv, NEW p \in Posters, CommitPost(p)
    PROVE  DetailsInv'
<1> DEFINE edit == post[p].edit
           copy == post[p].copy
           value(f) == copy[f].transcript.value
           k == Compiled(details, edit)
<1>1. /\ post[p].at = "commit" /\ details' = copy /\ row_lock' = NoPoster
      /\ post' = [post EXCEPT ![p] = NoPost]
      /\ told' = [f \in Fields |-> IF f \notin DOMAIN edit.transcripts THEN told[f]
                                   ELSE IF value(f) = Emptied THEN {} ELSE told[f] \cup {value(f)}]
      /\ UNCHANGED <<posted, operations, typed, overwritten, claimed, crossed, dropped>>
  BY DEF CommitPost, Abandon
<1>2. /\ DetailsTyped /\ edit \in Edits /\ copy \in FieldContents /\ row_lock = p
      /\ DOMAIN edit.transcripts \subseteq Fields
      /\ \A f \in DOMAIN edit.transcripts : edit.transcripts[f] \in Transcripts
  BY <1>1, PostFacts, EditFacts DEF DetailsInv, DetailsTyped
<1>3. DOMAIN copy = DOMAIN k /\ \A f \in DOMAIN copy : copy[f].transcript = k[f].transcript
  BY <1>1 DEF DetailsInv, PostsFollow, PostFollows
<1>4. ASSUME NEW f \in Fields
      PROVE  /\ f \in DOMAIN edit.transcripts =>
                  /\ f \in DOMAIN copy
                  /\ EntryOf(copy, f).transcript = Revised(EntryOf(details, f).transcript, edit.transcripts[f])
             /\ f \notin DOMAIN edit.transcripts =>
                  EntryOf(copy, f).transcript = EntryOf(details, f).transcript
  <2>1. /\ DOMAIN k = DOMAIN details \cup DOMAIN edit.transcripts \cup DOMAIN edit.slots
        /\ f \in DOMAIN k =>
             k[f].transcript = RecordAfter(details, edit, f)
    <3>1. details \in FieldContents /\ edit \in Edits
      BY <1>2 DEF DetailsTyped
    <3> HIDE DEF edit
    <3>2. QED
      BY <3>1, CompiledFacts
  <2> HIDE DEF k, copy, edit
  <2>2. f \in DOMAIN copy => EntryOf(copy, f).transcript = k[f].transcript
    BY <1>3 DEF EntryOf
  <2>3. f \notin DOMAIN copy => EntryOf(copy, f) = EntryOf(details, f)
    BY <1>3, <2>1 DEF EntryOf
  <2>4. QED
    BY <1>3, <2>1, <2>2, <2>3 DEF RecordAfter
<1>5. /\ \A q \in Posters \ {p} : post'[q] = post[q] /\ post[q].at \notin {"save", "commit"}
      /\ post'[p] = NoPost /\ post' \in [Posters -> {NoPost} \cup Asking \cup Editing]
  BY <1>1, <1>2, DetailsAssumption DEF DetailsTyped
<1>6. \A q \in Posters : post'[q].at \notin {"save", "commit"}
  BY <1>5, NoPostFacts
<1>7. \A f \in Fields : EntryOf(details, f).transcript \in Record
  BY <1>2, EntryOfFacts, EntryFacts DEF DetailsTyped
<1>8. DetailsTyped'
  <2>1. ASSUME NEW f \in DOMAIN edit.transcripts PROVE value(f) \in Transcripts \cup {Emptied}
    <3> DEFINE record == EntryOf(details, f).transcript
    <3>1. value(f) = Revised(record, edit.transcripts[f]).value /\ edit.transcripts[f] \in Transcripts
      BY <1>2, <1>4 DEF EntryOf
    <3>2. record \in Record
      BY <1>2, <1>7
    <3> HIDE DEF record, value
    <3>3. QED
      BY <3>1, <3>2, MarksAreNoTexts DEF Revised, Record
  <2>2. told' \in [Fields -> SUBSET Transcripts]
    <3>1. \A f \in Fields : told[f] \subseteq Transcripts
      BY <1>2 DEF DetailsTyped
    <3> HIDE DEF value
    <3>2. QED
      BY <1>1, <2>1, <3>1
  <2>3. QED
    BY <1>1, <1>2, <1>5, <1>6, <2>2 DEF DetailsTyped
<1>9. PostsFollow'
  BY <1>6 DEF PostsFollow, PostFollows
<1>10. TasksFollow'
  BY <1>1 DEF DetailsInv, TasksFollow
<1>11. EditsAreSent'
  BY <1>1, <1>5, NoPostFacts DEF DetailsInv, EditsAreSent
<1>12. ASSUME ~overwritten' PROVE Truth'
  <2>1. Truth
    BY <1>1, <1>12 DEF DetailsInv
  <2>2. Sound(copy, typed, claimed, dropped, crossed, FieldsOf(operations))
    BY <1>1, <2>1 DEF Truth, copy
  <2>3. QED
    BY <1>1, <1>6, <2>1, <2>2 DEF Truth
<1>13. TranscriptsAreKept'
  <2>1. SUFFICES ASSUME ~overwritten, NEW f \in Fields
                 PROVE  told'[f] \subseteq {EntryOf(copy, f).transcript.value}
                                             \cup ToSet(EntryOf(copy, f).transcript.revisions)
    BY <1>1 DEF TranscriptsAreKept
  <2>2. told[f] \subseteq {EntryOf(details, f).transcript.value}
                            \cup ToSet(EntryOf(details, f).transcript.revisions)
    BY <2>1 DEF DetailsInv, TranscriptsAreKept
  <2>3. CASE f \notin DOMAIN edit.transcripts
    <3>1. told'[f] = told[f]
      BY <1>1, <2>3
    <3>2. QED
      BY <1>4, <2>2, <2>3, <3>1
  <2>4. CASE f \in DOMAIN edit.transcripts
    <3> DEFINE record == EntryOf(details, f).transcript
               r == Revised(record, edit.transcripts[f])
    <3>1. record.value = Absent => record.revisions = << >>
      <4>1. Sound(details, typed, claimed, dropped, crossed, FieldsOf(operations))
        BY <2>1 DEF DetailsInv, Truth
      <4>2. QED
        BY <4>1, UnsetFacts DEF Sound, RecordIsSent, EntryOf
    <3>2. EntryOf(copy, f).transcript = r /\ value(f) = r.value
      BY <1>4, <2>4 DEF EntryOf
    <3>3. told'[f] = IF r.value = Emptied THEN {} ELSE told[f] \cup {r.value}
      <4> HIDE DEF r, value
      <4>1. QED
        BY <1>1, <2>4, <3>2
    <3>4. told[f] \in SUBSET Transcripts /\ told[f] \subseteq {record.value} \cup ToSet(record.revisions)
      BY <1>2, <2>2 DEF DetailsTyped
    <3>5. (IF r.value = Emptied THEN {} ELSE told[f] \cup {r.value}) \subseteq {r.value} \cup ToSet(r.revisions)
      <4>1. record \in Record
        BY <1>7
      <4> HIDE DEF record
      <4>2. QED
        BY <1>2, <2>4, <3>1, <3>4, <4>1, RevisedKeeps
    <3> HIDE DEF r
    <3>6. QED
      BY <3>2, <3>3, <3>5
  <2>5. QED
    BY <2>3, <2>4
<1>14. QED
  BY <1>8, <1>9, <1>10, <1>11, <1>12, <1>13 DEF DetailsInv

----------------------------------------------------------------------------
(* The steps of a task *)

\* A task goes on, or ends and its field is exempted.
LEMMA TaskMoves ==
    ASSUME DetailsInv, NEW o \in DOMAIN operations, NEW t \in TranslationTask,
           operations' = [operations EXCEPT ![o] = t],
           t.field = operations[o].field, t.text = operations[o].text, TaskFollows(t),
           dropped' = dropped \/ dropped' = dropped \cup {t.field},
           t.at = "over" => t.field \in dropped',
           UNCHANGED <<details, row_lock, post, posted, typed, told, overwritten, claimed, crossed>>
    PROVE  DetailsInv'
<1>1. DetailsTyped /\ operations \in Seq(TranslationTask)
  BY DEF DetailsInv, DetailsTyped
<1>2. /\ operations' \in Seq(TranslationTask) /\ Len(operations') = Len(operations)
      /\ DOMAIN operations' = DOMAIN operations /\ operations'[o] = t
      /\ \A i \in DOMAIN operations \ {o} : operations'[i] = operations[i]
  BY <1>1, TaskSwapped
<1>3. DetailsTyped'
  <2>1. dropped' \subseteq Fields
    BY <1>1, TaskFacts DEF DetailsTyped
  <2>2. QED
    BY <1>1, <1>2, <2>1 DEF DetailsTyped
<1>4. PostsFollow' /\ EditsAreSent' /\ TranscriptsAreKept'
  BY DEF DetailsInv, PostsFollow, EditsAreSent, TranscriptsAreKept
<1>5. TasksFollow'
  <2>1. ASSUME NEW i \in DOMAIN operations' PROVE TaskFollows(operations'[i])
    BY <1>2 DEF DetailsInv, TasksFollow
  <2>2. QED
    BY <2>1 DEF TasksFollow
<1>6. ASSUME ~overwritten' PROVE Truth'
  <2>1. Truth
    BY <1>6 DEF DetailsInv
  <2>2. dropped \cup FieldsOf(operations) \subseteq dropped' \cup FieldsOf(operations')
    BY <1>1, FieldsSwapped
  <2>3. \A i \in DOMAIN operations' : TextIsSent(operations'[i], typed', crossed')
    BY <1>2, <2>1 DEF Truth, TextIsSent
  <2>4. QED
    BY <1>1, <1>3, <2>1, <2>2, <2>3, TruthGrows DEF DetailsTyped
<1>7. QED
  BY <1>3, <1>4, <1>5, <1>6 DEF DetailsInv

LEMMA EndedFacts ==
    ASSUME NEW t \in TranslationTask
    PROVE  /\ [at |-> "over", field |-> t.field, text |-> t.text] \in TranslationTask
           /\ TaskFollows([at |-> "over", field |-> t.field, text |-> t.text])
<1>1. [at |-> "over", field |-> t.field, text |-> t.text] \in OverTask
  BY TaskFacts DEF OverTask
<1>2. QED
  BY <1>1 DEF TranslationTask, TaskFollows

LEMMA ReadKeeps ==
    ASSUME DetailsInv, NEW o \in DOMAIN operations, ReadForTranslation(o)
    PROVE  DetailsInv'
<1> DEFINE op == operations[o]
           entry == EntryOf(details, op.field)
           over == [at |-> "over", field |-> op.field, text |-> op.text]
           slot == [status |-> "complete", text |-> op.text]
           filled == [entry EXCEPT !.googletx = slot]
           saving == [at |-> "save", field |-> op.field, text |-> op.text, read |-> details,
                      copy |-> WithEntry(details, op.field, filled)]
<1>1. op \in TranslationTask /\ op.at = "polling" /\ op \in Polling /\ details \in FieldContents
  <2>1. op \in TranslationTask
    BY ElementOfSeq DEF DetailsInv, DetailsTyped
  <2>2. QED
    BY <2>1, TaskFacts DEF ReadForTranslation, DetailsInv, DetailsTyped
<1>2. UNCHANGED <<details, row_lock, post, posted, typed, told, overwritten, claimed, crossed>>
  BY DEF ReadForTranslation
<1>3. CASE op.field \notin DOMAIN details
  <2>2. operations' = [operations EXCEPT ![o].at = "over"] /\ dropped' = dropped \cup {op.field}
    BY <1>3 DEF ReadForTranslation
  <2>3. [op EXCEPT !.at = "over"] = over
    BY <1>1 DEF Polling
  <2>4. operations' = [operations EXCEPT ![o] = over]
    BY <2>2, <2>3
  <2>5. over \in TranslationTask /\ TaskFollows(over)
    BY <1>1, EndedFacts
  <2>6. over.field = op.field /\ over.text = op.text
    OBVIOUS
  <2> HIDE DEF over
  <2>7. QED
    BY <1>2, <2>2, <2>4, <2>5, <2>6, TaskMoves
<1>4. CASE op.field \in DOMAIN details
  <2>1. operations' = [operations EXCEPT ![o] = saving] /\ dropped' = dropped
    BY <1>4 DEF ReadForTranslation
  <2>2. entry = details[op.field] /\ entry \in Entry /\ slot \in Slot
    BY <1>1, <1>4, ContentFacts, TaskFacts DEF EntryOf, Slot
  <2>3. WithEntry(details, op.field, filled) \in FieldContents
    <3>1. filled \in Entry
      BY <2>2, EntryKept, EntryFacts
    <3> HIDE DEF filled
    <3>2. QED
      BY <1>1, <3>1, WithEntryFacts, TaskFacts
  <2>4. saving \in TranslationTask
    <3> HIDE DEF filled
    <3>1. saving \in Saving
      BY <1>1, <2>3, TaskFacts DEF Saving
    <3>2. QED
      BY <3>1 DEF TranslationTask
  <2>5. TaskFollows(saving)
    BY <1>4, <2>2 DEF TaskFollows
  <2>6. saving.field = op.field /\ saving.text = op.text /\ saving.at # "over"
    OBVIOUS
  <2> HIDE DEF saving
  <2>7. QED
    BY <1>2, <2>1, <2>4, <2>5, <2>6, TaskMoves
<1>5. QED
  BY <1>3, <1>4

LEMMA KillTranslationKeeps ==
    ASSUME DetailsInv, NEW o \in DOMAIN operations, KillTranslation(o)
    PROVE  DetailsInv'
<1> DEFINE over == [at |-> "over", field |-> operations[o].field, text |-> operations[o].text]
<1>1. /\ operations' = [operations EXCEPT ![o] = over] /\ dropped' = dropped \cup {over.field}
      /\ UNCHANGED <<details, row_lock, post, posted, typed, told, overwritten, claimed, crossed>>
  BY DEF KillTranslation
<1>2. operations[o] \in TranslationTask
  BY ElementOfSeq DEF DetailsInv, DetailsTyped
<1>3. over \in TranslationTask /\ TaskFollows(over)
  BY <1>2, EndedFacts
<1>4. over.field = operations[o].field /\ over.text = operations[o].text
  OBVIOUS
<1> HIDE DEF over
<1>5. QED
  BY <1>1, <1>3, <1>4, TaskMoves

\* What a task saves.
LEMMA FilledFacts ==
    ASSUME NEW c \in FieldContents, NEW f \in DOMAIN c, NEW text \in Transcripts
    PROVE  LET slot == [status |-> "complete", text |-> text]
               filled == WithEntry(c, f, [c[f] EXCEPT !.googletx = slot])
           IN  /\ DOMAIN filled = DOMAIN c
               /\ \A g \in DOMAIN c \ {f} : filled[g] = c[g]
               /\ filled[f].transcript = c[f].transcript /\ filled[f].googletx = slot
<1> DEFINE slot == [status |-> "complete", text |-> text]
           e == c[f]
           new == [e EXCEPT !.googletx = slot]
<1>1. e \in Entry /\ slot \in Slot /\ f \in Fields
  BY ContentFacts DEF Slot
<1> HIDE DEF slot, e
<1>2. new \in Entry /\ new.transcript = e.transcript /\ new.googletx = slot
  BY <1>1, EntryKept, EntryFacts
<1> HIDE DEF new
<1>3. /\ DOMAIN WithEntry(c, f, new) = DOMAIN c \cup {f} /\ WithEntry(c, f, new)[f] = new
      /\ \A g \in DOMAIN c \ {f} : WithEntry(c, f, new)[g] = c[g]
  BY <1>1, <1>2, WithEntryFacts
<1>4. QED
  BY <1>2, <1>3 DEF new, slot, e

\* What it saves is what is stored, with the translation, unless it overwrites.
LEMMA SaveTranslationKeeps ==
    ASSUME DetailsInv, NEW o \in DOMAIN operations, SaveTranslation(o)
    PROVE  DetailsInv'
<1> DEFINE op == operations[o]
           over == [at |-> "over", field |-> op.field, text |-> op.text]
           saved == Translated(op.copy, DOMAIN op.read, << >>)
           ended == [operations EXCEPT ![o] = over]
<1>1. op \in TranslationTask /\ op.at = "save" /\ row_lock = NoPoster /\ op.copy \in FieldContents /\ op.read \in FieldContents
  <2>1. op \in TranslationTask
    BY ElementOfSeq DEF DetailsInv, DetailsTyped
  <2>2. QED
    BY <2>1, TaskFacts DEF SaveTranslation
<1>2. over \in TranslationTask /\ TaskFollows(over) /\ over.field = op.field /\ over.text = op.text /\ over.at = "over"
  BY <1>1, EndedFacts
<1>3. UNCHANGED <<row_lock, post, posted, typed, told, claimed>>
  BY DEF SaveTranslation
<1>4. CASE saved.raised
  <2>1. ended = operations' /\ dropped' = dropped \cup {op.field} /\ UNCHANGED <<details, overwritten, crossed>>
    BY <1>4 DEF SaveTranslation
  <2> HIDE DEF over
  <2>2. QED
    BY <1>2, <1>3, <2>1, TaskMoves
<1>5. CASE ~saved.raised
  <2>1. /\ Len(operations) + Len(saved.queued) <= MaxOperations
        /\ operations' = ended \o saved.queued
        /\ details' = saved.copy
        /\ overwritten' = (overwritten \/ details # op.read)
        /\ crossed' = crossed \cup saved.crossed /\ dropped' = dropped
    BY <1>5 DEF SaveTranslation
  <2>2. ASSUME NEW sent, NEW claims, NEW lost, NEW mixed, NEW served, Sound(op.copy, sent, claims, lost, mixed, served)
        PROVE  /\ Sound(saved.copy, sent, claims, lost, mixed \cup saved.crossed, served \cup FieldsOf(saved.queued))
               /\ \A i \in DOMAIN saved.queued :
                    \/ saved.queued[i].field \in saved.crossed
                    \/ saved.queued[i].text \in sent[saved.queued[i].field]
    <3>1. << >> \in Seq(Fields)
      OBVIOUS
    <3> HIDE DEF op
    <3>2. QED
      BY <1>1, <2>2, <3>1, TranslatedSound
  <2>3. /\ saved.copy \in FieldContents /\ DOMAIN saved.copy = DOMAIN op.copy
        /\ \A f \in DOMAIN op.copy : saved.copy[f].transcript = op.copy[f].transcript
        /\ saved.queued \in Seq(Polling) /\ saved.crossed \in SUBSET Fields
    <3>1. saved \in Loops(op.copy)
      <4>1. << >> \in Seq(Fields)
        OBVIOUS
      <4>2. QED
        BY <1>1, <4>1, TranslatedFits
    <3> HIDE DEF saved, op
    <3>2. saved.copy \in [DOMAIN op.copy -> Entry]
      BY <3>1 DEF Loops, LoopState
    <3>3. saved.copy \in FieldContents
      BY <1>1, <3>2, ContentFacts, ContentsHave
    <3>4. QED
      BY <3>1, <3>2, <3>3 DEF Loops, LoopState, LoopFits
  <2> HIDE DEF saved, over
  <2>4. /\ op.field \in DOMAIN op.read
        /\ DOMAIN op.copy = DOMAIN op.read
        /\ \A f \in DOMAIN op.read \ {op.field} : op.copy[f] = op.read[f]
        /\ op.copy[op.field].transcript = op.read[op.field].transcript
        /\ op.copy[op.field].googletx = [status |-> "complete", text |-> op.text]
    <3>1. /\ op.field \in DOMAIN op.read
          /\ op.copy = WithEntry(op.read, op.field, [op.read[op.field] EXCEPT !.googletx =
                                                        [status |-> "complete", text |-> op.text]])
      BY <1>1 DEF DetailsInv, TasksFollow, TaskFollows
    <3>2. op.text \in Transcripts
      BY <1>1, TaskFacts
    <3> HIDE DEF op
    <3>3. QED
      BY <1>1, <3>1, <3>2, FilledFacts
  <2>5. /\ ended \in Seq(TranslationTask) /\ Len(ended) = Len(operations)
        /\ DOMAIN ended = DOMAIN operations /\ ended[o] = over
        /\ \A i \in DOMAIN operations \ {o} : ended[i] = operations[i]
    BY <1>2, TaskSwapped DEF DetailsInv, DetailsTyped
  <2>6. FieldsOf(operations) \subseteq FieldsOf(ended) \cup {op.field}
    BY <1>2, FieldsSwapped DEF DetailsInv, DetailsTyped
  <2> HIDE DEF ended
  <2>7. /\ operations' \in Seq(TranslationTask) /\ Len(operations') <= MaxOperations
        /\ \A i \in DOMAIN operations' :
             \/ i \in DOMAIN operations /\ operations'[i] = ended[i]
             \/ \E j \in DOMAIN saved.queued : operations'[i] = saved.queued[j]
        /\ FieldsOf(operations') = FieldsOf(ended) \cup FieldsOf(saved.queued)
    <3> DEFINE all == ended \o saved.queued
    <3>1. ended \in Seq(TranslationTask) /\ saved.queued \in Seq(Polling)
      BY <2>3, <2>5
    <3>2. /\ all \in Seq(TranslationTask) /\ Len(all) = Len(ended) + Len(saved.queued)
          /\ \A i \in DOMAIN ended : all[i] = ended[i]
          /\ \A i \in DOMAIN all :
               i \in DOMAIN ended \/ \E j \in DOMAIN saved.queued : all[i] = saved.queued[j]
          /\ FieldsOf(all) = FieldsOf(ended) \cup FieldsOf(saved.queued)
      BY <3>1, TasksQueued
    <3>3. operations' = all
      BY <2>1
    <3> HIDE DEF all
    <3>4. QED
      BY <2>1, <2>5, <3>2, <3>3
  <2>8. \A q \in Posters : post[q].at \notin {"save", "commit"}
    BY <1>1, DetailsAssumption DEF DetailsInv, DetailsTyped
  <2>9. DetailsTyped'
    <3>1. crossed' \subseteq Fields /\ overwritten' \in BOOLEAN
      BY <2>1, <2>3 DEF DetailsInv, DetailsTyped
    <3> HIDE DEF op
    <3>2. QED
      BY <1>3, <2>1, <2>3, <2>7, <3>1 DEF DetailsInv, DetailsTyped
  <2>10. PostsFollow'
    BY <1>3, <2>8 DEF PostsFollow, PostFollows
  <2>11. TasksFollow'
    <3>1. SUFFICES ASSUME NEW i \in DOMAIN operations' PROVE TaskFollows(operations'[i])
      BY DEF TasksFollow
    <3>2. CASE i \in DOMAIN operations /\ operations'[i] = ended[i]
      BY <1>2, <2>5, <3>2 DEF DetailsInv, TasksFollow
    <3>3. CASE \E j \in DOMAIN saved.queued : operations'[i] = saved.queued[j]
      <4>1. operations'[i] \in Polling
        BY <2>3, <3>3, ElementOfSeq
      <4>2. QED
        BY <4>1 DEF Polling, TaskFollows
    <3>4. QED
      BY <2>7, <3>2, <3>3
  <2>12. EditsAreSent'
    BY <1>3 DEF DetailsInv, EditsAreSent
  <2>13. ~overwritten' => ~overwritten /\ op.read = details
    BY <2>1 DEF DetailsInv, DetailsTyped
  <2>14. TranscriptsAreKept'
    <3>1. SUFFICES ASSUME ~overwritten', NEW f \in Fields
                   PROVE  told[f] \subseteq {EntryOf(saved.copy, f).transcript.value}
                                              \cup ToSet(EntryOf(saved.copy, f).transcript.revisions)
      BY <1>3, <2>1 DEF TranscriptsAreKept
    <3> HIDE DEF op
    <3>2. EntryOf(saved.copy, f).transcript = EntryOf(details, f).transcript
      BY <2>3, <2>4, <2>13, <3>1 DEF EntryOf
    <3>3. QED
      BY <2>13, <3>1, <3>2 DEF DetailsInv, TranscriptsAreKept
  <2>15. ASSUME ~overwritten' PROVE Truth'
    <3> DEFINE After(c) == Sound(c, typed', claimed', dropped', crossed', FieldsOf(operations'))
    <3>1. Truth /\ op.read = details
      BY <2>13, <2>15 DEF DetailsInv
    <3>2. TextIsSent(op, typed, crossed)
      BY <3>1 DEF Truth
    <3>3. Sound(op.copy, typed, claimed, dropped, crossed, FieldsOf(ended))
      <4>1. Sound(details, typed, claimed, dropped, crossed, FieldsOf(operations))
        BY <3>1 DEF Truth
      <4>2. SUFFICES ASSUME NEW f \in DOMAIN op.copy
            PROVE  /\ RecordIsSent(op.copy[f].transcript, f, typed)
                   /\ SlotIsTrue(op.copy[f].googletx, f, typed, claimed, dropped, crossed, FieldsOf(ended))
        BY DEF Sound
      <4>3. CASE f # op.field
        <5>1. op.copy[f] = details[f] /\ f \in DOMAIN details
          BY <2>4, <3>1, <4>3
        <5>2. f \in FieldsOf(operations) => f \in FieldsOf(ended)
          BY <2>6, <4>3
        <5> HIDE DEF op
        <5>3. QED
          BY <4>1, <5>1, <5>2 DEF Sound, SlotIsTrue
      <4>4. CASE f = op.field
        <5>1. /\ op.copy[f].transcript = details[f].transcript /\ f \in DOMAIN details
              /\ op.copy[f].googletx.status = "complete" /\ op.copy[f].googletx.text = op.text
          BY <2>4, <3>1, <4>4
        <5>2. f \in crossed \/ op.text \in typed[f]
          BY <3>2, <4>4 DEF TextIsSent
        <5> HIDE DEF op
        <5>3. QED
          BY <4>1, <5>1, <5>2 DEF Sound, SlotIsTrue
      <4>5. QED
        BY <4>3, <4>4
    <3>4. After(details')
      <4>1. Sound(saved.copy, typed, claimed, dropped, crossed \cup saved.crossed,
                  FieldsOf(ended) \cup FieldsOf(saved.queued))
        BY <2>2, <3>3
      <4>2. typed' = typed /\ claimed' = claimed
        BY <1>3
      <4>3. QED
        BY <2>1, <2>7, <4>1, <4>2
    <3>5. \A q \in Posters : post'[q].at # "commit"
      BY <1>3, <2>8
    <3>6. ASSUME NEW i \in DOMAIN operations' PROVE TextIsSent(operations'[i], typed', crossed')
      <4>1. CASE i \in DOMAIN operations /\ operations'[i] = ended[i]
        <5>1. TextIsSent(ended[i], typed, crossed)
          BY <1>2, <2>5, <3>1, <4>1 DEF Truth, TextIsSent
        <5>2. QED
          BY <1>3, <2>1, <4>1, <5>1 DEF TextIsSent
      <4>2. CASE \E j \in DOMAIN saved.queued : operations'[i] = saved.queued[j]
        <5>1. PICK j \in DOMAIN saved.queued : operations'[i] = saved.queued[j]
          BY <4>2
        <5>2. saved.queued[j].field \in saved.crossed \/ saved.queued[j].text \in typed[saved.queued[j].field]
          BY <2>2, <3>3
        <5>3. QED
          BY <1>3, <2>1, <5>1, <5>2 DEF TextIsSent
      <4>3. QED
        BY <2>7, <4>1, <4>2
    <3>7. QED
      BY <3>4, <3>5, <3>6 DEF Truth
  <2>16. QED
    BY <2>9, <2>10, <2>11, <2>12, <2>14, <2>15 DEF DetailsInv
<1>6. QED
  BY <1>4, <1>5

----------------------------------------------------------------------------
(* Every state *)

LEMMA DetailsStutter ==
    ASSUME DetailsInv, UNCHANGED detailVars
    PROVE  DetailsInv'
<1>1. UNCHANGED <<details, row_lock, post, posted, operations, typed, told, overwritten, claimed, crossed,
                  dropped>>
  BY DEF detailVars
<1>2. DetailsTyped' /\ PostsFollow' /\ TasksFollow' /\ EditsAreSent' /\ TranscriptsAreKept'
  BY <1>1 DEF DetailsInv, DetailsTyped, PostsFollow, TasksFollow, EditsAreSent, TranscriptsAreKept
<1>3. (~overwritten => Truth)'
  BY <1>1 DEF DetailsInv, Truth
<1>4. QED
  BY <1>2, <1>3 DEF DetailsInv

\* The invariant: the row is locked while a request compiles and translates, so what
\* it saves is what is stored, with its edit; and what is stored is true, unless a task
\* has saved over something newer than it had read.
THEOREM DetailsAreTrue == DetailsSpec => []DetailsInv
<1>1. ASSUME DetailsInv, [DetailsNext]_detailVars PROVE DetailsInv'
  <2>1. CASE \E p \in Posters : \E edit \in Edits : Submit(p, edit)
    BY <1>1, <2>1, SubmitKeeps
  <2>2. CASE \E p \in Posters : LockAndCompile(p)
    BY <1>1, <2>2, LockAndCompileKeeps
  <2>3. CASE \E p \in Posters : Translate(p)
    BY <1>1, <2>3, TranslateKeeps
  <2>4. CASE \E p \in Posters : CommitPost(p)
    BY <1>1, <2>4, CommitKeeps
  <2>5. CASE \E p \in Posters : RollBackPost(p)
    BY <1>1, <2>5, RollBackKeeps
  <2>6. CASE \E o \in DOMAIN operations : ReadForTranslation(o)
    BY <1>1, <2>6, ReadKeeps
  <2>7. CASE \E o \in DOMAIN operations : SaveTranslation(o)
    BY <1>1, <2>7, SaveTranslationKeeps
  <2>8. CASE \E o \in DOMAIN operations : KillTranslation(o)
    BY <1>1, <2>8, KillTranslationKeeps
  <2>9. CASE UNCHANGED detailVars
    BY <1>1, <2>9, DetailsStutter
  <2>10. QED
    BY <1>1, <2>1, <2>2, <2>3, <2>4, <2>5, <2>6, <2>7, <2>8, <2>9 DEF DetailsNext
<1>2. QED
  BY <1>1, InitDetails, PTL DEF DetailsSpec

\* The variables of SupplementalDetails keep their types; what requests and tasks
\* have in hand is a content of fields.
THEOREM DetailsTypeCorrect == DetailsSpec => []DetailsTypeOK
<1>1. ASSUME DetailsInv PROVE DetailsTypeOK
  <2>1. DetailsTyped
    BY <1>1 DEF DetailsInv
  <2>2. \A c \in FieldContents : IsContent(c)
    BY ContentFacts DEF IsContent
  <2>3. ASSUME NEW p \in Posters
        PROVE  /\ post[p].at \in {"idle", "wait", "save", "commit"}
               /\ post[p].at # "idle" => post[p].edit \in Edits
               /\ post[p].at \in {"save", "commit"} => row_lock = p /\ IsContent(post[p].copy)
    BY <2>1, <2>2, PostFacts DEF DetailsTyped
  <2>4. ASSUME NEW o \in DOMAIN operations
        PROVE  [at |-> operations[o].at, field |-> operations[o].field, text |-> operations[o].text]
                   \in Operation
    <3>1. operations[o] \in TranslationTask
      BY <2>1, ElementOfSeq DEF DetailsTyped
    <3>2. QED
      BY <3>1, TaskFacts DEF Operation
  <2>5. QED
    BY <2>1, <2>2, <2>3, <2>4 DEF DetailsTypeOK, DetailsTyped
<1>2. QED
  BY <1>1, DetailsAreTrue, PTL

\* What a user has saved as a transcript stays, as such or among the revisions, until
\* someone deletes it, whatever requests, Google and the tasks do meanwhile.
THEOREM TranscriptsStay == DetailsSpec => []TranscriptsAreKept
<1>1. DetailsInv => TranscriptsAreKept
  BY DEF DetailsInv
<1>2. QED
  BY <1>1, DetailsAreTrue, PTL

\* A slot in progress has a task that goes on, and a translation shown for a field is
\* of one of its transcripts, but for the exceptions SlotsAreTrue names.
THEOREM SlotsStayTrue == DetailsSpec => []SlotsAreTrue
<1>1. ASSUME DetailsInv PROVE SlotsAreTrue
  <2>1. SUFFICES ASSUME ~overwritten, NEW f \in DOMAIN details,
                        details[f].googletx \notin claimed[f]
        PROVE  /\ details[f].googletx.status = "in_progress" /\ f \notin dropped =>
                    \E o \in DOMAIN operations :
                       operations[o].field = f /\ operations[o].at # "over"
               /\ details[f].googletx.status = "complete" /\ f \notin crossed =>
                    details[f].googletx.text \in typed[f]
    BY DEF SlotsAreTrue
  <2>2. Sound(details, typed, claimed, dropped, crossed, FieldsOf(operations))
    BY <1>1, <2>1 DEF DetailsInv, Truth
  <2>3. QED
    BY <2>1, <2>2 DEF Sound, SlotIsTrue, FieldsOf
<1>2. QED
  BY <1>1, DetailsAreTrue, PTL
=============================================================================
