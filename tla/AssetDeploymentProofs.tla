------------------------ MODULE AssetDeploymentProofs ------------------------
(***************************************************************************)
(* For every set of requests and contents: what KoBoCAT collects data with *)
(* is among the versions, or its edit is under way or broke off.           *)
(*                                                                         *)
(* The invariant is about more than the published form.  A request carries *)
(* content from the asset to the form and back to the asset, so what every *)
(* request carries, and what the asset holds, has to be accounted for as   *)
(* well; and a version must still be there when it is dated anew.          *)
(*                                                                         *)
(* The second part is about requests that come one after the other: what   *)
(* the form shows is then what was deployed last.  For every place a       *)
(* request can be at, UnderWay says how far the three copies agree.        *)
(*                                                                         *)
(* The last part is about the media files that a deployment sends: a task  *)
(* that runs alone ends with KoBoCAT's files as KPI's are.  Settling says  *)
(* for its every step which files and rows its two lists account for.      *)
(***************************************************************************)
EXTENDS AssetDeployment, MediaSync, SequencesExt, SequenceTheorems, FiniteSetTheorems, TLAPS

\* The contents that have a version, are about to get one, or never will because
\* their edit broke off.
VersionContents == {versions[i].content : i \in DOMAIN versions}
EditedContents == {request[p].copy.content : p \in {p \in Requests : request[p].at = "version"}}
Accounted == VersionContents \cup EditedContents \cup unversioned

\* Where a request has content that it has read, not content of its own.
Carrying == RequestPlaces \ {"edit", "version"}
HasUid(u) == \E i \in DOMAIN versions : versions[i].uid = u

ContentIsAccounted ==
    /\ asset.content \in Accounted
    /\ form.exists => form.content \in Accounted
    /\ \A p \in Requests : request[p].at \in Carrying => request[p].copy.content \in Accounted

DeploymentInv ==
    /\ DeploymentTypeOK
    /\ ContentIsAccounted
    /\ \A p \in Requests : request[p].at = "mark" => HasUid(request[p].uid)

----------------------------------------------------------------------------
(* Requests and versions *)

AtWork == [at: RequestPlaces, copy: AssetCopy, uid: Uids]

LEMMA RequestFacts ==
    /\ \A r \in AtWork : r # NoRequest /\ r.at \in RequestPlaces /\ r.copy \in AssetCopy /\ r.uid \in Uids
    /\ NoRequest.at = "idle" /\ "idle" \notin RequestPlaces
    /\ \A c \in AssetCopy : c.content \in Contents /\ c.backend \in BOOLEAN /\ c.active \in BOOLEAN
<1>1. \A r \in AtWork : r.at \in RequestPlaces /\ r.copy \in AssetCopy /\ r.uid \in Uids
  BY DEF AtWork
<1>2. NoRequest.at = "idle" /\ "idle" \notin RequestPlaces
  BY DEF NoRequest, RequestPlaces
<1>3. \A c \in AssetCopy : c.content \in Contents /\ c.backend \in BOOLEAN /\ c.active \in BOOLEAN
  BY DEF AssetCopy
<1>4. QED
  BY <1>1, <1>2, <1>3

LEMMA VersionsFacts ==
    ASSUME DeploymentTypeOK
    PROVE  /\ Len(versions) \in 1 .. MaxVersions /\ DOMAIN versions = 1 .. Len(versions)
           /\ \A i \in DOMAIN versions :
                versions[i] \in VersionRow /\ versions[i].uid \in Uids /\ versions[i].content \in Contents
           /\ LatestVersion \in VersionRow /\ LatestVersion.uid \in Uids
           /\ HasUid(LatestVersion.uid)
<1>1. versions \in Seq(VersionRow) /\ Len(versions) \in 1 .. MaxVersions
  BY DEF DeploymentTypeOK
<1>2. DOMAIN versions = 1 .. Len(versions) /\ \A i \in DOMAIN versions : versions[i] \in VersionRow
  BY <1>1, LenProperties, ElementOfSeq
<1>3. Len(versions) \in DOMAIN versions /\ LatestVersion = versions[Len(versions)]
  BY <1>1, <1>2 DEF LatestVersion, Last
<1>4. QED
  BY <1>1, <1>2, <1>3 DEF VersionRow, HasUid

\* A row that is saved again becomes the last, and those after it move up.
LEMMA SavedAgain ==
    ASSUME NEW S, NEW s \in Seq(S), NEW i \in 1 .. Len(s), NEW x \in S
    PROVE  /\ Append(RemoveAt(s, i), x) \in Seq(S)
           /\ Len(Append(RemoveAt(s, i), x)) = Len(s)
           /\ Append(RemoveAt(s, i), x)[Len(s)] = x
           /\ \A j \in 1 .. i - 1 : Append(RemoveAt(s, i), x)[j] = s[j]
           /\ \A j \in i .. Len(s) - 1 : Append(RemoveAt(s, i), x)[j] = s[j + 1]
<1> DEFINE a == SubSeq(s, 1, i - 1)
           b == SubSeq(s, i + 1, Len(s))
           t == Append(a \o b, x)
<1>1. Len(s) \in Nat /\ \A j \in 1 .. Len(s) : s[j] \in S
  BY LenProperties, ElementOfSeq
<1>2. a \in Seq(S) /\ Len(a) = i - 1 /\ \A j \in 1 .. i - 1 : a[j] = s[j]
  BY <1>1, SubSeqProperties
<1>3. b \in Seq(S) /\ Len(b) = Len(s) - i /\ \A j \in 1 .. Len(s) - i : b[j] = s[i + j]
  BY <1>1, SubSeqProperties
<1> HIDE DEF a, b
<1>4. /\ a \o b \in Seq(S) /\ Len(a \o b) = Len(s) - 1
      /\ \A j \in 1 .. i - 1 : (a \o b)[j] = s[j]
      /\ \A j \in i .. Len(s) - 1 : (a \o b)[j] = s[j + 1]
  <2>1. /\ a \o b \in Seq(S) /\ Len(a \o b) = Len(a) + Len(b)
        /\ \A j \in 1 .. Len(a) + Len(b) :
             (a \o b)[j] = IF j <= Len(a) THEN a[j] ELSE b[j - Len(a)]
    BY <1>2, <1>3, ConcatProperties
  <2>2. Len(a) + Len(b) = Len(s) - 1
    BY <1>1, <1>2, <1>3
  <2>3. ASSUME NEW j \in 1 .. i - 1 PROVE (a \o b)[j] = s[j]
    <3>1. j \in 1 .. Len(a) + Len(b) /\ j <= Len(a)
      BY <1>1, <1>2, <2>2
    <3>2. QED
      BY <1>2, <2>1, <3>1
  <2>4. ASSUME NEW j \in i .. Len(s) - 1 PROVE (a \o b)[j] = s[j + 1]
    <3>1. j \in 1 .. Len(a) + Len(b) /\ ~(j <= Len(a))
      BY <1>1, <1>2, <2>2
    <3>2. (a \o b)[j] = b[j - Len(a)]
      BY <2>1, <3>1
    <3>3. j - Len(a) \in 1 .. Len(s) - i /\ i + (j - Len(a)) = j + 1
      BY <1>1, <1>2
    <3>4. QED
      BY <1>3, <3>2, <3>3
  <2>5. QED
    BY <2>1, <2>2, <2>3, <2>4
<1>5. /\ t \in Seq(S) /\ Len(t) = Len(s) /\ t[Len(s)] = x
      /\ \A j \in 1 .. Len(s) - 1 : t[j] = (a \o b)[j]
  BY <1>1, <1>4, AppendProperties
<1> HIDE DEF t
<1>6. \A j \in 1 .. i - 1 : j \in 1 .. Len(s) - 1
  BY <1>1
<1>7. \A j \in i .. Len(s) - 1 : j \in 1 .. Len(s) - 1
  BY <1>1
<1>8. Append(RemoveAt(s, i), x) = t
  BY DEF RemoveAt, a, b, t
<1>9. QED
  BY <1>4, <1>5, <1>6, <1>7, <1>8

----------------------------------------------------------------------------
(* What a step of a request has to show *)

VersionsAreKept ==
    \A i \in DOMAIN versions : \E k \in DOMAIN versions' :
        versions'[k].content = versions[i].content /\ versions'[k].uid = versions[i].uid

LEMMA RequestsAreTyped ==
    ASSUME DeploymentTypeOK PROVE request \in [Requests -> {NoRequest} \cup AtWork]
  BY DEF DeploymentTypeOK, AtWork

\* What was accounted for stays so, as long as a request that leaves "version"
\* leaves its content with the versions or among the unversioned.
LEMMA AccountedStays ==
    ASSUME DeploymentTypeOK, NEW p \in Requests, NEW r \in {NoRequest} \cup AtWork,
           request' = [request EXCEPT ![p] = r], VersionsAreKept,
           unversioned \subseteq unversioned',
           request[p].at = "version" =>
             request[p].copy.content \in VersionContents' \cup unversioned'
    PROVE  /\ Accounted \subseteq Accounted'
           /\ r.at = "version" => r.copy.content \in Accounted'
<1>1. VersionContents \subseteq VersionContents'
  BY DEF VersionContents, VersionsAreKept
<1>2. /\ request' \in [Requests -> {NoRequest} \cup AtWork] /\ request'[p] = r
      /\ \A q \in Requests \ {p} : request'[q] = request[q]
  BY RequestsAreTyped
<1>3. EditedContents \subseteq EditedContents' \cup VersionContents' \cup unversioned'
  BY <1>2 DEF EditedContents
<1>4. r.at = "version" => r.copy.content \in EditedContents'
  BY <1>2 DEF EditedContents
<1>5. QED
  BY <1>1, <1>3, <1>4 DEF Accounted

LEMMA DeploymentStepKeeps ==
    ASSUME DeploymentInv, NEW p \in Requests, NEW r \in {NoRequest} \cup AtWork,
           request' = [request EXCEPT ![p] = r],
           begun' \in 0 .. MaxBegun, jostled' \in BOOLEAN,
           asset' \in AssetRow, form' \in Form,
           versions' \in Seq(VersionRow), Len(versions') \in 1 .. MaxVersions, VersionsAreKept,
           unversioned \subseteq unversioned', unversioned' \subseteq Contents,
           request[p].at = "version" =>
             request[p].copy.content \in VersionContents' \cup unversioned',
           asset'.content \in Accounted \/ (r.at = "version" /\ r.copy.content = asset'.content),
           form'.exists => form'.content \in Accounted,
           r.at \in Carrying => r.copy.content \in Accounted,
           r.at = "mark" => HasUid(r.uid)
    PROVE  DeploymentInv'
<1>1. /\ request' \in [Requests -> {NoRequest} \cup AtWork] /\ request'[p] = r
      /\ \A q \in Requests \ {p} : request'[q] = request[q]
  BY RequestsAreTyped DEF DeploymentInv
<1>2. Accounted \subseteq Accounted' /\ (r.at = "version" => r.copy.content \in Accounted')
  BY AccountedStays DEF DeploymentInv
<1>3. DeploymentTypeOK'
  BY <1>1 DEF DeploymentTypeOK, AtWork
<1>4. ContentIsAccounted'
  BY <1>1, <1>2 DEF DeploymentInv, ContentIsAccounted
<1>5. ASSUME NEW q \in Requests, request'[q].at = "mark" PROVE HasUid(request[q].uid)'
  <2>1. PICK i \in DOMAIN versions : versions[i].uid = request'[q].uid
    BY <1>1, <1>5 DEF DeploymentInv, HasUid
  <2>2. PICK k \in DOMAIN versions' : versions'[k].uid = request'[q].uid
    BY <2>1 DEF VersionsAreKept
  <2>3. QED
    BY <2>2 DEF HasUid
<1>6. QED
  BY <1>3, <1>4, <1>5 DEF DeploymentInv

\* A step that leaves the versions and the unversioned alone.
LEMMA QuietStepKeeps ==
    ASSUME DeploymentInv, NEW p \in Requests, NEW r \in {NoRequest} \cup AtWork,
           request' = [request EXCEPT ![p] = r], UNCHANGED <<versions, unversioned>>,
           begun' \in 0 .. MaxBegun, jostled' \in BOOLEAN,
           asset' \in AssetRow, form' \in Form, request[p].at # "version",
           asset'.content \in Accounted \/ (r.at = "version" /\ r.copy.content = asset'.content),
           form'.exists => form'.content \in Accounted,
           r.at \in Carrying => r.copy.content \in Accounted,
           r.at = "mark" => HasUid(r.uid)
    PROVE  DeploymentInv'
<1>1. versions' \in Seq(VersionRow) /\ Len(versions') \in 1 .. MaxVersions /\ VersionsAreKept
  BY DEF DeploymentInv, DeploymentTypeOK, VersionsAreKept
<1>2. unversioned \subseteq unversioned' /\ unversioned' \subseteq Contents
  BY DEF DeploymentInv, DeploymentTypeOK
<1>3. QED
  BY <1>1, <1>2, DeploymentStepKeeps

----------------------------------------------------------------------------
(* The requests *)

LEMMA LoadKeeps ==
    ASSUME DeploymentInv, NEW p \in Requests, NEW at \in RequestPlaces, at # "mark",
           NEW c \in Contents, NEW active \in BOOLEAN, Load(p, at, c, active),
           UNCHANGED <<asset, versions, form, unversioned>>,
           at \notin {"edit", "version"} => c = asset.content, at # "version"
    PROVE  DeploymentInv'
<1> DEFINE r == [at |-> at, uid |-> 0,
                 copy |-> [content |-> c, backend |-> asset.backend, active |-> active]]
<1>1. asset \in AssetRow /\ asset.backend \in BOOLEAN
  BY DEF DeploymentInv, DeploymentTypeOK, AssetRow
<1>2. r \in AtWork /\ r.at = at /\ r.copy.content = c
  BY <1>1, DeploymentAssumption DEF AtWork, AssetCopy, Uids
<1>3. /\ request' = [request EXCEPT ![p] = r]
      /\ begun' \in 0 .. MaxBegun /\ jostled' \in BOOLEAN /\ request[p].at # "version"
  BY RequestFacts, DeploymentAssumption
     DEF Load, DeploymentInv, DeploymentTypeOK, RequestPlaces
<1>4. r.at \in Carrying => r.copy.content \in Accounted
  BY <1>2 DEF Carrying, DeploymentInv, ContentIsAccounted
<1> HIDE DEF r
<1>5. asset' \in AssetRow /\ form' \in Form /\ asset'.content \in Accounted
      /\ (form'.exists => form'.content \in Accounted)
  BY DEF DeploymentInv, DeploymentTypeOK, ContentIsAccounted
<1>6. QED
  BY <1>2, <1>3, <1>4, <1>5, QuietStepKeeps

\* The facts about a request in progress that its steps use.
LEMMA RequestIsBusy ==
    ASSUME DeploymentInv, NEW p \in Requests, request[p].at \in RequestPlaces
    PROVE  /\ request[p] \in AtWork /\ request[p].copy \in AssetCopy /\ request[p].uid \in Uids
           /\ request[p].copy.content \in Contents
           /\ request[p].copy.backend \in BOOLEAN /\ request[p].copy.active \in BOOLEAN
           /\ asset \in AssetRow /\ form \in Form /\ begun \in 0 .. MaxBegun /\ jostled \in BOOLEAN
           /\ asset.content \in Accounted /\ (form.exists => form.content \in Accounted)
           /\ request[p].at \in Carrying => request[p].copy.content \in Accounted
<1>1. request[p] \in AtWork
  BY RequestsAreTyped, RequestFacts DEF DeploymentInv
<1>2. QED
  BY <1>1, RequestFacts DEF DeploymentInv, DeploymentTypeOK, ContentIsAccounted

\* A request that ends without having written anything.
LEMMA CloseKeeps ==
    ASSUME DeploymentInv, NEW p \in Requests, request[p].at \in Carrying, Close(p),
           UNCHANGED <<versions, unversioned, begun, jostled>>,
           asset' \in AssetRow, form' \in Form, asset'.content \in Accounted,
           form'.exists => form'.content \in Accounted
    PROVE  DeploymentInv'
<1>1. request' = [request EXCEPT ![p] = NoRequest]
  BY DEF Close
<1>2. request[p].at # "version" /\ NoRequest.at \notin Carrying /\ NoRequest.at # "mark"
  BY RequestFacts DEF Carrying, RequestPlaces
<1>3. begun' \in 0 .. MaxBegun /\ jostled' \in BOOLEAN
  BY DEF DeploymentInv, DeploymentTypeOK
<1>4. NoRequest \in {NoRequest} \cup AtWork
  OBVIOUS
<1>5. QED
  BY <1>1, <1>2, <1>3, <1>4, QuietStepKeeps

LEMMA Relabelled ==
    ASSUME NEW r \in AtWork, NEW at \in RequestPlaces
    PROVE  /\ [r EXCEPT !.at = at] \in AtWork /\ [r EXCEPT !.at = at].copy = r.copy
           /\ [r EXCEPT !.at = at].at = at
           /\ \A b \in BOOLEAN :
                /\ [r EXCEPT !.at = at, !.copy.backend = b] \in AtWork
                /\ [r EXCEPT !.at = at, !.copy.backend = b].copy.content = r.copy.content
                /\ [r EXCEPT !.at = at, !.copy.backend = b].at = at
  BY DEF AtWork, AssetCopy

\* The row that is saved has the content and a status.
LEMMA WithStatusFacts ==
    ASSUME NEW a \in AssetCopy
    PROVE  WithStatus(a) \in AssetRow /\ WithStatus(a).content = a.content
  BY DEF WithStatus, StatusOf, AssetCopy, AssetRow, AssetStatuses

LEMMA BeginRequestKeeps ==
    ASSUME DeploymentInv, NEW p \in Requests, NEW c \in Contents, NEW active \in BOOLEAN,
           BeginEdit(p, c) \/ BeginDeploy(p, active) \/ BeginActivate(p, active) \/ BeginLinks(p)
    PROVE  DeploymentInv'
<1>1. asset.content \in Contents /\ asset.active \in BOOLEAN
  BY DEF DeploymentInv, DeploymentTypeOK, AssetRow
<1>2. {"edit", "build", "patch", "links"} \subseteq RequestPlaces
  BY DEF RequestPlaces
<1>3. CASE BeginEdit(p, c)
  BY <1>1, <1>2, <1>3, LoadKeeps DEF BeginEdit
<1>4. CASE BeginDeploy(p, active)
  BY <1>1, <1>2, <1>4, LoadKeeps DEF BeginDeploy
<1>5. CASE BeginActivate(p, active)
  BY <1>1, <1>2, <1>5, LoadKeeps DEF BeginActivate
<1>6. CASE BeginLinks(p)
  BY <1>1, <1>2, <1>6, LoadKeeps DEF BeginLinks
<1>7. QED
  BY <1>3, <1>4, <1>5, <1>6

LEMMA SaveEditKeeps == ASSUME DeploymentInv, NEW p \in Requests, SaveEdit(p) PROVE DeploymentInv'
<1> DEFINE r == [request[p] EXCEPT !.at = "version"]
<1>1. request[p].at \in RequestPlaces /\ request[p].at # "version" /\ "version" \in RequestPlaces
  BY DEF SaveEdit, RequestPlaces
<1>2. r \in AtWork /\ r.at = "version" /\ r.copy = request[p].copy
  <2>1. request[p] \in AtWork
    BY <1>1, RequestIsBusy
  <2>2. QED
    BY <1>1, <2>1, Relabelled
<1>3. request' = [request EXCEPT ![p] = r]
  BY DEF SaveEdit, MoveTo
<1>4. asset' \in AssetRow /\ asset'.content = r.copy.content
  BY <1>1, <1>2, RequestIsBusy, WithStatusFacts DEF SaveEdit
<1>5. r.at \notin Carrying /\ r.at # "mark"
  BY <1>2 DEF Carrying
<1> HIDE DEF r
<1>6. QED
  BY <1>1, <1>2, <1>3, <1>4, <1>5, RequestIsBusy, QuietStepKeeps DEF SaveEdit

LEMMA CreateVersionKeeps == ASSUME DeploymentInv, NEW p \in Requests, CreateVersion(p) PROVE DeploymentInv'
<1> DEFINE x == [uid |-> Len(versions) + 1, content |-> request[p].copy.content, deployed |-> FALSE]
<1>1. request[p].at \in RequestPlaces /\ request[p].at \notin Carrying
  BY DEF CreateVersion, RequestPlaces, Carrying
<1>2. versions \in Seq(VersionRow) /\ Len(versions) \in 1 .. MaxVersions /\ Len(versions) < MaxVersions
  BY DEF DeploymentInv, DeploymentTypeOK, CreateVersion
<1>3. x \in VersionRow
  BY <1>1, <1>2, RequestIsBusy, DeploymentAssumption DEF VersionRow, Uids
<1>4. versions' = Append(versions, x)
  BY DEF CreateVersion
<1> HIDE DEF x
<1>5. /\ versions' \in Seq(VersionRow) /\ Len(versions') = Len(versions) + 1
      /\ \A i \in 1 .. Len(versions) : versions'[i] = versions[i]
      /\ versions'[Len(versions) + 1] = x
  BY <1>2, <1>3, <1>4, AppendProperties
<1>6. DOMAIN versions = 1 .. Len(versions) /\ DOMAIN versions' = 1 .. Len(versions) + 1
  BY <1>2, <1>5, LenProperties
<1>7. Len(versions') \in 1 .. MaxVersions
  BY <1>2, <1>5, DeploymentAssumption
<1>8. VersionsAreKept
  BY <1>2, <1>5, <1>6 DEF VersionsAreKept
<1>9. request[p].copy.content \in VersionContents'
  <2>1. Len(versions) + 1 \in DOMAIN versions' /\ x.content = request[p].copy.content
    BY <1>2, <1>6 DEF x
  <2>2. QED
    BY <1>5, <2>1 DEF VersionContents
<1>10. request' = [request EXCEPT ![p] = NoRequest]
  BY DEF CreateVersion, Close
<1>11. NoRequest.at \notin Carrying /\ NoRequest.at # "mark"
  BY RequestFacts DEF Carrying
<1>12. UNCHANGED <<asset, form, begun, jostled, unversioned>> /\ unversioned \subseteq Contents
  BY DEF CreateVersion, DeploymentInv, DeploymentTypeOK
<1>13. QED
  BY <1>1, <1>5, <1>7, <1>8, <1>9, <1>10, <1>11, <1>12, RequestIsBusy, DeploymentStepKeeps

LEMMA BuildFormKeeps == ASSUME DeploymentInv, NEW p \in Requests, BuildForm(p) PROVE DeploymentInv'
<1> DEFINE r == [request[p] EXCEPT !.at = "send", !.uid = LatestVersion.uid]
<1>1. request[p].at \in Carrying /\ request[p].at \in RequestPlaces /\ "send" \in RequestPlaces
      /\ request[p].at # "version"
  BY DEF BuildForm, RequestPlaces, Carrying
<1>2. LatestVersion.uid \in Uids
  BY VersionsFacts DEF DeploymentInv
<1>3. r \in AtWork /\ r.copy = request[p].copy /\ r.at = "send"
  <2>1. request[p] \in AtWork
    BY <1>1, RequestIsBusy
  <2>2. QED
    BY <1>1, <1>2, <2>1 DEF AtWork
<1>4. request' = [request EXCEPT ![p] = r]
  BY DEF BuildForm
<1> HIDE DEF r
<1>5. QED
  BY <1>1, <1>3, <1>4, RequestIsBusy, QuietStepKeeps DEF BuildForm

LEMMA SendFormKeeps == ASSUME DeploymentInv, NEW p \in Requests, SendForm(p) PROVE DeploymentInv'
<1> DEFINE r == [request[p] EXCEPT !.at = "choose", !.copy.backend = TRUE]
<1>1. request[p].at \in Carrying /\ request[p].at \in RequestPlaces /\ "choose" \in RequestPlaces
      /\ request[p].at # "version"
  BY DEF SendForm, RequestPlaces, Carrying
<1>2. r \in AtWork /\ r.copy.content = request[p].copy.content /\ r.at = "choose"
  <2>1. request[p] \in AtWork
    BY <1>1, RequestIsBusy
  <2>2. QED
    BY <1>1, <2>1, Relabelled
<1>3. request' = [request EXCEPT ![p] = r]
  BY DEF SendForm
<1>4. form' \in Form /\ form'.content = request[p].copy.content
  BY <1>1, RequestIsBusy DEF SendForm, Form
<1> HIDE DEF r
<1>5. QED
  BY <1>1, <1>2, <1>3, <1>4, RequestIsBusy, QuietStepKeeps DEF SendForm

LEMMA ChooseVersionKeeps == ASSUME DeploymentInv, NEW p \in Requests, ChooseVersion(p) PROVE DeploymentInv'
<1> DEFINE at == IF LatestVersion.deployed THEN "store" ELSE "mark"
           r == [request[p] EXCEPT !.at = at, !.uid = LatestVersion.uid]
<1>1. request[p].at \in Carrying /\ request[p].at \in RequestPlaces /\ at \in RequestPlaces
      /\ request[p].at # "version" /\ at # "version"
  BY DEF ChooseVersion, RequestPlaces, Carrying
<1>2. LatestVersion.uid \in Uids /\ HasUid(LatestVersion.uid)
  BY VersionsFacts DEF DeploymentInv
<1>3. r \in AtWork /\ r.copy = request[p].copy /\ r.at = at /\ r.uid = LatestVersion.uid
  <2>1. request[p] \in AtWork
    BY <1>1, RequestIsBusy
  <2>2. QED
    BY <1>1, <1>2, <2>1 DEF AtWork
<1>4. request' = [request EXCEPT ![p] = r]
  BY DEF ChooseVersion
<1> HIDE DEF r, at
<1>5. QED
  BY <1>1, <1>2, <1>3, <1>4, RequestIsBusy, QuietStepKeeps DEF ChooseVersion

LEMMA MarkDeployedKeeps == ASSUME DeploymentInv, NEW p \in Requests, MarkDeployed(p) PROVE DeploymentInv'
<1> DEFINE i == CHOOSE i \in DOMAIN versions : versions[i].uid = request[p].uid
           x == [versions[i] EXCEPT !.deployed = TRUE]
           r == [request[p] EXCEPT !.at = "store"]
<1>1. request[p].at \in Carrying /\ request[p].at \in RequestPlaces /\ "store" \in RequestPlaces
      /\ request[p].at # "version"
  BY DEF MarkDeployed, RequestPlaces, Carrying
<1>2. r \in AtWork /\ r.copy = request[p].copy /\ r.at = "store"
  <2>1. request[p] \in AtWork
    BY <1>1, RequestIsBusy
  <2>2. QED
    BY <1>1, <2>1, Relabelled
<1>3. request' = [request EXCEPT ![p] = r] /\ versions' = Append(RemoveAt(versions, i), x)
  BY DEF MarkDeployed, MoveTo
<1>4. \E k \in DOMAIN versions : versions[k].uid = request[p].uid
  BY DEF DeploymentInv, HasUid, MarkDeployed
<1>5. i \in DOMAIN versions
  BY <1>4
<1>6. versions \in Seq(VersionRow) /\ Len(versions) \in 1 .. MaxVersions
      /\ DOMAIN versions = 1 .. Len(versions) /\ versions[i] \in VersionRow
  BY <1>5, VersionsFacts DEF DeploymentInv, DeploymentTypeOK
<1>7. x \in VersionRow /\ x.content = versions[i].content /\ x.uid = versions[i].uid
  BY <1>6 DEF VersionRow
<1> HIDE DEF i, x, r
<1>8. i \in 1 .. Len(versions)
  BY <1>5, <1>6
<1>9. /\ versions' \in Seq(VersionRow) /\ Len(versions') = Len(versions) /\ versions'[Len(versions)] = x
      /\ \A j \in 1 .. i - 1 : versions'[j] = versions[j]
      /\ \A j \in i .. Len(versions) - 1 : versions'[j] = versions[j + 1]
  <2>1. versions \in Seq(VersionRow) /\ i \in 1 .. Len(versions) /\ x \in VersionRow
        /\ versions' = Append(RemoveAt(versions, i), x)
    BY <1>3, <1>6, <1>7, <1>8
  <2>2. versions' \in Seq(VersionRow) /\ Len(versions') = Len(versions) /\ versions'[Len(versions)] = x
    BY <2>1, SavedAgain
  <2>3. \A j \in 1 .. i - 1 : versions'[j] = versions[j]
    BY <2>1, SavedAgain
  <2>4. \A j \in i .. Len(versions) - 1 : versions'[j] = versions[j + 1]
    BY <2>1, SavedAgain
  <2>5. QED
    BY <2>2, <2>3, <2>4
<1>10. DOMAIN versions' = 1 .. Len(versions) /\ Len(versions) \in DOMAIN versions'
  BY <1>6, <1>9, LenProperties
<1>11. VersionsAreKept
  <2>1. ASSUME NEW j \in DOMAIN versions
        PROVE  \E k \in DOMAIN versions' :
                 versions'[k].content = versions[j].content /\ versions'[k].uid = versions[j].uid
    <3>0. i \in Nat /\ j \in Nat /\ Len(versions) \in Nat /\ j \in 1 .. Len(versions)
      BY <1>6, <1>8
    <3>1. CASE j = i
      BY <1>7, <1>9, <1>10, <3>1
    <3>2. CASE j < i
      <4>1. j \in 1 .. i - 1 /\ j \in DOMAIN versions'
        BY <1>10, <3>2, <3>0
      <4>2. QED
        BY <1>9, <4>1
    <3>3. CASE j > i
      <4>1. j - 1 \in i .. Len(versions) - 1 /\ (j - 1) + 1 = j /\ j - 1 \in DOMAIN versions'
        BY <1>8, <1>10, <3>3, <3>0
      <4>2. QED
        BY <1>9, <4>1
    <3>4. j = i \/ j < i \/ j > i
      BY <3>0
    <3>5. QED
      BY <3>1, <3>2, <3>3, <3>4
  <2>2. QED
    BY <2>1 DEF VersionsAreKept
<1>12. UNCHANGED <<asset, form, begun, jostled, unversioned>> /\ unversioned \subseteq Contents
  BY DEF MarkDeployed, DeploymentInv, DeploymentTypeOK
<1>13. QED
  BY <1>1, <1>2, <1>3, <1>6, <1>9, <1>11, <1>12, RequestIsBusy, DeploymentStepKeeps

LEMMA PatchFormKeeps == ASSUME DeploymentInv, NEW p \in Requests, PatchForm(p) PROVE DeploymentInv'
<1> DEFINE r == [request[p] EXCEPT !.at = "activate"]
<1>1. request[p].at \in Carrying /\ request[p].at \in RequestPlaces /\ "activate" \in RequestPlaces
      /\ request[p].at # "version"
  BY DEF PatchForm, RequestPlaces, Carrying
<1>2. r \in AtWork /\ r.copy = request[p].copy /\ r.at = "activate"
  <2>1. request[p] \in AtWork
    BY <1>1, RequestIsBusy
  <2>2. QED
    BY <1>1, <2>1, Relabelled
<1> HIDE DEF r
<1>3. CASE /\ form' = [form EXCEPT !.active = request[p].copy.active]
           /\ MoveTo(p, "activate")
           /\ UNCHANGED <<asset, versions, begun, jostled, unversioned>>
  <2>1. request' = [request EXCEPT ![p] = r]
    BY <1>3 DEF MoveTo, r
  <2>2. form' \in Form /\ form'.exists = form.exists /\ form'.content = form.content
    BY <1>1, <1>3, RequestIsBusy DEF Form
  <2>3. QED
    BY <1>1, <1>2, <1>3, <2>1, <2>2, RequestIsBusy, QuietStepKeeps
<1>4. CASE UNCHANGED <<asset, versions, form, begun, jostled, unversioned>> /\ Close(p)
  BY <1>1, <1>4, RequestIsBusy, CloseKeeps
<1>5. QED
  BY <1>3, <1>4 DEF PatchForm

\* The steps that end a request with a write of the asset, or with none.
LEMMA LastStepKeeps ==
    ASSUME DeploymentInv, NEW p \in Requests,
           FormIsRefused(p) \/ StoreDeployment(p) \/ StoreActive(p) \/ StoreLinks(p)
    PROVE  DeploymentInv'
<1>1. request[p].at \in Carrying /\ request[p].at \in RequestPlaces
  BY DEF FormIsRefused, StoreDeployment, StoreActive, StoreLinks, RequestPlaces, Carrying
<1>2. CASE FormIsRefused(p)
  BY <1>1, <1>2, RequestIsBusy, CloseKeeps DEF FormIsRefused
<1>3. CASE StoreDeployment(p)
  BY <1>1, <1>3, RequestIsBusy, WithStatusFacts, CloseKeeps DEF StoreDeployment
<1>4. CASE StoreActive(p)
  <2>1. asset' \in AssetRow /\ asset'.content = asset.content
    BY <1>1, <1>4, RequestIsBusy DEF StoreActive, StatusOf, AssetRow, AssetStatuses
  <2>2. QED
    BY <1>1, <1>4, <2>1, RequestIsBusy, CloseKeeps DEF StoreActive
<1>5. CASE StoreLinks(p)
  <2>1. asset' \in AssetRow /\ asset'.content = asset.content
    BY <1>1, <1>5, RequestIsBusy DEF StoreLinks, StatusOf, AssetRow, AssetStatuses
  <2>2. QED
    BY <1>1, <1>5, <2>1, RequestIsBusy, CloseKeeps DEF StoreLinks
<1>6. QED
  BY <1>2, <1>3, <1>4, <1>5

LEMMA BreakOffKeeps == ASSUME DeploymentInv, NEW p \in Requests, BreakOff(p) PROVE DeploymentInv'
<1>1. request[p] \in AtWork /\ request[p].at \in RequestPlaces
  BY RequestsAreTyped, RequestFacts DEF BreakOff, DeploymentInv
<1>2. request' = [request EXCEPT ![p] = NoRequest]
  BY DEF BreakOff, Close
<1>3. NoRequest.at \notin Carrying /\ NoRequest.at # "mark" /\ NoRequest.at # "version"
  BY RequestFacts DEF Carrying, RequestPlaces
<1>4. /\ unversioned \subseteq unversioned' /\ unversioned' \subseteq Contents
      /\ request[p].at = "version" => request[p].copy.content \in unversioned'
  BY <1>1, RequestIsBusy DEF BreakOff, DeploymentInv, DeploymentTypeOK
<1>5. versions' \in Seq(VersionRow) /\ Len(versions') \in 1 .. MaxVersions /\ VersionsAreKept
  BY DEF DeploymentInv, DeploymentTypeOK, VersionsAreKept, BreakOff
<1>6. UNCHANGED <<asset, form, begun>> /\ jostled' \in BOOLEAN
  BY DEF BreakOff
<1>7. QED
  BY <1>1, <1>2, <1>3, <1>4, <1>5, <1>6, RequestIsBusy, DeploymentStepKeeps

LEMMA ToggleAssetKeeps == ASSUME DeploymentInv, NEW active \in BOOLEAN, ToggleAsset(active) PROVE DeploymentInv'
<1>1. asset' \in AssetRow /\ asset'.content = asset.content
  BY DEF ToggleAsset, DeploymentInv, DeploymentTypeOK, AssetRow, AssetStatuses
<1>2. form' \in Form /\ form'.content = form.content /\ form'.exists = form.exists
  BY DEF ToggleAsset, DeploymentInv, DeploymentTypeOK, Form
<1>3. begun' \in 0 .. MaxBegun /\ jostled' \in BOOLEAN
  BY DeploymentAssumption DEF ToggleAsset, DeploymentInv, DeploymentTypeOK
<1>4. UNCHANGED <<versions, request, unversioned>>
  BY DEF ToggleAsset
<1>5. DeploymentTypeOK'
  BY <1>1, <1>2, <1>3, <1>4 DEF DeploymentInv, DeploymentTypeOK
<1>6. Accounted' = Accounted
  BY <1>4 DEF Accounted, VersionContents, EditedContents
<1>7. ContentIsAccounted'
  BY <1>1, <1>2, <1>4, <1>6 DEF DeploymentInv, ContentIsAccounted
<1>8. \A p \in Requests : request'[p].at = "mark" => HasUid(request[p].uid)'
  BY <1>4 DEF DeploymentInv, HasUid
<1>9. QED
  BY <1>5, <1>7, <1>8 DEF DeploymentInv

----------------------------------------------------------------------------
(* The theorems *)

LEMMA InitDeployment == DeploymentInit => DeploymentInv
<1> SUFFICES ASSUME NEW c \in Contents,
       asset = [content |-> c, backend |-> FALSE, active |-> FALSE, status |-> "draft"],
       versions = <<[uid |-> 1, content |-> c, deployed |-> FALSE]>>,
       form = [exists |-> FALSE, content |-> c, version |-> 0, active |-> FALSE],
       begun = 0, request = [p \in Requests |-> NoRequest], jostled = FALSE, unversioned = {}
     PROVE DeploymentInv
  BY DEF DeploymentInit
<1>1. [uid |-> 1, content |-> c, deployed |-> FALSE] \in VersionRow
  BY DeploymentAssumption DEF VersionRow, Uids
<1>2. versions \in Seq(VersionRow) /\ Len(versions) = 1 /\ DOMAIN versions = 1 .. 1
      /\ versions[1].content = c
  BY <1>1
<1>3. DeploymentTypeOK
  <2>1. asset \in AssetRow /\ form \in Form
    BY DeploymentAssumption DEF AssetRow, AssetStatuses, Form, Uids
  <2>2. begun \in 0 .. MaxBegun /\ Len(versions) \in 1 .. MaxVersions
    BY <1>2, DeploymentAssumption
  <2>3. QED
    BY <1>2, <2>1, <2>2 DEF DeploymentTypeOK
<1>4. c \in Accounted
  BY <1>2 DEF Accounted, VersionContents
<1>5. \A p \in Requests : request[p].at \notin Carrying /\ request[p].at # "mark"
  BY RequestFacts DEF Carrying
<1>6. QED
  BY <1>3, <1>4, <1>5 DEF DeploymentInv, ContentIsAccounted

LEMMA NextDeployment == DeploymentInv /\ [DeploymentNext]_deploymentVars => DeploymentInv'
<1> SUFFICES ASSUME DeploymentInv, [DeploymentNext]_deploymentVars PROVE DeploymentInv'
  OBVIOUS
<1>1. ASSUME NEW p \in Requests, NEW c \in Contents, BeginEdit(p, c) PROVE DeploymentInv'
  BY <1>1, BeginRequestKeeps
<1>2. ASSUME NEW p \in Requests, NEW active \in BOOLEAN,
             BeginDeploy(p, active) \/ BeginActivate(p, active)
      PROVE  DeploymentInv'
  <2>1. asset.content \in Contents
    BY DEF DeploymentInv, DeploymentTypeOK, AssetRow
  <2>2. QED
    BY <1>2, <2>1, BeginRequestKeeps
<1>3. ASSUME NEW p \in Requests, BeginLinks(p) PROVE DeploymentInv'
  <2>1. asset.content \in Contents
    BY DEF DeploymentInv, DeploymentTypeOK, AssetRow
  <2>2. QED
    BY <1>3, <2>1, BeginRequestKeeps
<1>4. ASSUME NEW p \in Requests,
             SaveEdit(p) \/ CreateVersion(p) \/ BuildForm(p) \/ SendForm(p) \/ ChooseVersion(p)
               \/ MarkDeployed(p) \/ PatchForm(p) \/ BreakOff(p)
      PROVE  DeploymentInv'
  BY <1>4, SaveEditKeeps, CreateVersionKeeps, BuildFormKeeps, SendFormKeeps, ChooseVersionKeeps,
     MarkDeployedKeeps, PatchFormKeeps, BreakOffKeeps
<1>5. ASSUME NEW p \in Requests,
             FormIsRefused(p) \/ StoreDeployment(p) \/ StoreActive(p) \/ StoreLinks(p)
      PROVE  DeploymentInv'
  BY <1>5, LastStepKeeps
<1>6. ASSUME NEW active \in BOOLEAN, ToggleAsset(active) PROVE DeploymentInv'
  BY <1>6, ToggleAssetKeeps
<1>7. CASE UNCHANGED deploymentVars
  BY <1>7 DEF deploymentVars, DeploymentInv, DeploymentTypeOK, ContentIsAccounted, Accounted,
              VersionContents, EditedContents, HasUid
<1>8. QED
  BY <1>1, <1>2, <1>3, <1>4, <1>5, <1>6, <1>7 DEF DeploymentNext

\* The variables of AssetDeployment keep their types, whatever the requests do.
THEOREM DeploymentTypeCorrect == DeploymentSpec => []DeploymentTypeOK
<1>1. DeploymentInv => DeploymentTypeOK
  BY DEF DeploymentInv
<1>2. QED
  BY <1>1, InitDeployment, NextDeployment, PTL DEF DeploymentSpec

\* However edits, deployments and their failures overlap, what KoBoCAT collects data
\* with is among the versions, or its edit has not come to that.
THEOREM PublishedHasVersion == DeploymentSpec => []PublishedIsVersioned
<1>1. DeploymentInv => PublishedIsVersioned
  BY DEF DeploymentInv, ContentIsAccounted, PublishedIsVersioned, Accounted, VersionContents,
         EditedContents
<1>2. QED
  BY <1>1, InitDeployment, NextDeployment, PTL DEF DeploymentSpec
----------------------------------------------------------------------------
(* Requests one after the other *)

\* The form shows the version that was deployed last.
Shows(f, vs) ==
    \E k \in DOMAIN vs :
        /\ vs[k].deployed /\ \A j \in DOMAIN vs : vs[j].deployed => j <= k
        /\ f.version = vs[k].uid /\ f.content = vs[k].content

Agreed(a, f, vs) ==
    /\ f.exists = a.backend
    /\ a.backend => Shows(f, vs) /\ f.active = a.active /\ a.status = StatusOf(a)

\* What an undisturbed request leaves when it ends, or has found when it begins.
AtRest(a, f, vs) == Agreed(a, f, vs) /\ vs[Len(vs)].content = a.content

\* What it keeps on its way, when it is the only one.
UnderWay(r, a, f, vs) ==
    LET newest == vs[Len(vs)]
    IN  /\ r.at \in {"edit", "version"} => Agreed(a, f, vs)
        /\ r.at \in {"build", "send", "patch", "links"} => AtRest(a, f, vs)
        /\ r.at \in {"edit", "build", "send", "patch", "links"} => r.copy.backend = a.backend
        /\ r.at \in {"edit", "links"} => r.copy.active = a.active
        /\ r.at \in {"version", "build", "send"} => r.copy.content = a.content
        /\ r.at = "send" => r.uid = newest.uid
        /\ r.at \in {"choose", "mark", "store"} =>
             /\ r.copy.backend /\ f.exists /\ f.active = r.copy.active
             /\ f.version = newest.uid /\ f.content = newest.content /\ f.content = r.copy.content
        /\ r.at = "mark" => r.uid = newest.uid
        /\ r.at = "store" => newest.deployed
        /\ r.at = "patch" => a.backend
        /\ r.at = "activate" =>
             /\ a.backend /\ r.copy.backend /\ f.exists /\ f.active = r.copy.active
             /\ Shows(f, vs) /\ newest.content = a.content

Numbered(vs) ==
    /\ \A i \in DOMAIN vs : vs[i].uid <= Len(vs)
    /\ \A i, j \in DOMAIN vs : vs[i].uid = vs[j].uid => i = j

OneAtATime ==
    /\ \A p, q \in Requests : request[p] # NoRequest /\ request[q] # NoRequest => p = q
    /\ \A p \in Requests : request[p] # NoRequest => UnderWay(request[p], asset, form, versions)
    /\ AllIdle => AtRest(asset, form, versions)
    /\ Numbered(versions)

SerialInv == DeploymentTypeOK /\ (~jostled => OneAtATime)

LEMMA SerialStep ==
    ASSUME DeploymentTypeOK, OneAtATime, NEW p \in Requests, request[p] # NoRequest \/ AllIdle,
           NEW r \in {NoRequest} \cup AtWork, request' = [request EXCEPT ![p] = r],
           r = NoRequest => AtRest(asset', form', versions'),
           r # NoRequest => UnderWay(r, asset', form', versions'),
           Numbered(versions')
    PROVE  OneAtATime'
<1>1. /\ request'[p] = r /\ \A q \in Requests \ {p} : request'[q] = request[q]
  BY RequestsAreTyped
<1>2. \A q \in Requests \ {p} : request'[q] = NoRequest
  BY <1>1 DEF OneAtATime, AllIdle
<1>3. \A q, s \in Requests : request'[q] # NoRequest /\ request'[s] # NoRequest => q = s
  BY <1>2
<1>4. \A q \in Requests : request'[q] # NoRequest => UnderWay(request'[q], asset', form', versions')
  BY <1>1, <1>2
<1>5. AllIdle' => AtRest(asset', form', versions')
  BY <1>1 DEF AllIdle
<1>6. QED
  BY <1>3, <1>4, <1>5 DEF OneAtATime

\* What a step knows of its request.
LEMMA SerialFacts ==
    ASSUME DeploymentTypeOK, OneAtATime, NEW p \in Requests, request[p].at \in RequestPlaces
    PROVE  /\ request[p] # NoRequest /\ request[p] \in AtWork /\ UnderWay(request[p], asset, form, versions)
           /\ request[p].copy \in AssetCopy /\ Numbered(versions)
           /\ asset \in AssetRow /\ form \in Form
<1>1. request[p] # NoRequest
  BY RequestFacts
<1>2. request[p] \in AtWork /\ request[p].copy \in AssetCopy
  BY <1>1, RequestsAreTyped, RequestFacts
<1>3. QED
  BY <1>1, <1>2 DEF OneAtATime, DeploymentTypeOK

LEMMA SerialBegin ==
    ASSUME DeploymentTypeOK, ~jostled => OneAtATime, NEW p \in Requests, NEW at \in RequestPlaces,
           at \in {"edit", "build", "patch", "links"}, NEW c, NEW active, Load(p, at, c, active),
           c \in Contents, active \in BOOLEAN,
           UNCHANGED <<asset, versions, form>>, at = "build" => c = asset.content,
           at \in {"edit", "links"} => active = asset.active,
           at = "patch" => asset.backend, ~jostled'
    PROVE  OneAtATime'
<1> DEFINE r == [at |-> at, uid |-> 0,
                 copy |-> [content |-> c, backend |-> asset.backend, active |-> active]]
<1>1. AllIdle /\ ~jostled /\ request' = [request EXCEPT ![p] = r]
  BY DEF Load, DeploymentTypeOK
<1>2. OneAtATime /\ AtRest(asset, form, versions) /\ Numbered(versions)
  BY <1>1 DEF OneAtATime
<1>3. r \in AtWork
  BY DeploymentAssumption DEF DeploymentTypeOK, AtWork, AssetCopy, AssetRow, Uids
<1>4. /\ r.at = at /\ r.copy.backend = asset.backend /\ r.copy.active = active /\ r.copy.content = c
  OBVIOUS
<1> HIDE DEF r
<1>5. UnderWay(r, asset, form, versions)
  BY <1>2, <1>4 DEF UnderWay, AtRest
<1>6. r # NoRequest
  BY <1>3, RequestFacts
<1>7. QED
  BY <1>1, <1>2, <1>3, <1>5, <1>6, SerialStep

LEMMA SerialEdit ==
    ASSUME DeploymentTypeOK, OneAtATime, NEW p \in Requests, SaveEdit(p)
    PROVE  OneAtATime'
<1> DEFINE r == [request[p] EXCEPT !.at = "version"]
<1>1. request[p].at = "edit" /\ request[p].at \in RequestPlaces /\ "version" \in RequestPlaces
  BY DEF SaveEdit, RequestPlaces
<1>2. UnderWay(request[p], asset, form, versions) /\ request[p] \in AtWork /\ request[p] # NoRequest
      /\ Numbered(versions) /\ request[p].copy \in AssetCopy
  BY <1>1, SerialFacts
<1>3. r \in AtWork /\ r.at = "version" /\ r.copy = request[p].copy
  BY <1>1, <1>2, Relabelled
<1>4. request' = [request EXCEPT ![p] = r] /\ UNCHANGED <<form, versions>>
      /\ asset' = WithStatus(request[p].copy)
  BY DEF SaveEdit, MoveTo
<1> HIDE DEF r
<1>5. Agreed(asset', form, versions) /\ asset'.content = r.copy.content
  BY <1>1, <1>2, <1>3, <1>4 DEF WithStatus, UnderWay, Agreed, StatusOf
<1>6. UnderWay(r, asset', form', versions')
  BY <1>3, <1>4, <1>5 DEF UnderWay
<1>7. r # NoRequest
  BY <1>3, RequestFacts
<1>8. QED
  BY <1>2, <1>3, <1>4, <1>6, <1>7, SerialStep

LEMMA SerialVersion ==
    ASSUME DeploymentTypeOK, OneAtATime, NEW p \in Requests, CreateVersion(p)
    PROVE  OneAtATime'
<1> DEFINE x == [uid |-> Len(versions) + 1, content |-> request[p].copy.content, deployed |-> FALSE]
<1>1. request[p].at = "version" /\ request[p].at \in RequestPlaces
  BY DEF CreateVersion, RequestPlaces
<1>2. UnderWay(request[p], asset, form, versions) /\ request[p] # NoRequest
      /\ Numbered(versions) /\ request[p].copy \in AssetCopy
  BY <1>1, SerialFacts
<1>3. versions \in Seq(VersionRow) /\ Len(versions) \in Nat
      /\ \A i \in DOMAIN versions : versions[i].uid \in Nat
  BY VersionsFacts, LenProperties DEF DeploymentTypeOK, Uids
<1>4. versions' = Append(versions, x) /\ request' = [request EXCEPT ![p] = NoRequest]
      /\ UNCHANGED <<asset, form>> /\ Len(versions) < MaxVersions
  BY DEF CreateVersion, Close
<1>5. x.uid = Len(versions) + 1 /\ x.content = request[p].copy.content /\ x.deployed = FALSE /\ x \in VersionRow
  BY <1>2, <1>3, <1>4, RequestFacts, DeploymentAssumption DEF VersionRow, Uids
<1> HIDE DEF x
<1>6. /\ Len(versions') = Len(versions) + 1
      /\ \A i \in 1 .. Len(versions) : versions'[i] = versions[i]
      /\ versions'[Len(versions) + 1] = x
      /\ DOMAIN versions = 1 .. Len(versions) /\ DOMAIN versions' = 1 .. Len(versions) + 1
  <2>1. versions' \in Seq(VersionRow)
    BY <1>3, <1>4, <1>5, AppendProperties
  <2>2. QED
    BY <2>1, <1>3, <1>4, <1>5, AppendProperties, LenProperties
<1>7. Numbered(versions')
  <2>1. \A i \in DOMAIN versions' :
          \/ i \in DOMAIN versions /\ versions'[i] = versions[i] /\ versions[i].uid <= Len(versions)
          \/ i = Len(versions) + 1 /\ versions'[i].uid = Len(versions) + 1
    BY <1>2, <1>3, <1>5, <1>6 DEF Numbered
  <2>2. QED
    BY <2>1, <1>2, <1>3, <1>6 DEF Numbered
<1>8. Shows(form, versions) => Shows(form, versions')
  <2> SUFFICES ASSUME Shows(form, versions) PROVE Shows(form, versions')
    OBVIOUS
  <2>1. PICK k \in DOMAIN versions :
          /\ versions[k].deployed /\ \A j \in DOMAIN versions : versions[j].deployed => j <= k
          /\ form.version = versions[k].uid /\ form.content = versions[k].content
    BY DEF Shows
  <2>2. k \in DOMAIN versions' /\ versions'[k] = versions[k]
    BY <1>3, <1>6
  <2>3. ASSUME NEW j \in DOMAIN versions', versions'[j].deployed PROVE j <= k
    <3>1. j # Len(versions) + 1
      BY <1>5, <1>6, <2>3
    <3>2. j \in DOMAIN versions /\ versions'[j] = versions[j]
      BY <1>3, <1>6, <3>1
    <3>3. QED
      BY <2>1, <2>3, <3>2
  <2>4. QED
    BY <2>1, <2>2, <2>3 DEF Shows
<1>9. AtRest(asset', form', versions')
  BY <1>1, <1>2, <1>4, <1>5, <1>6, <1>8 DEF UnderWay, AtRest, Agreed
<1>10. QED
  BY <1>2, <1>4, <1>7, <1>9, SerialStep

LEMMA SerialBuild ==
    ASSUME DeploymentTypeOK, OneAtATime, NEW p \in Requests, BuildForm(p)
    PROVE  OneAtATime'
<1> DEFINE r == [request[p] EXCEPT !.at = "send", !.uid = LatestVersion.uid]
<1>1. request[p].at = "build" /\ request[p].at \in RequestPlaces /\ "send" \in RequestPlaces
  BY DEF BuildForm, RequestPlaces
<1>2. UnderWay(request[p], asset, form, versions) /\ request[p] # NoRequest
      /\ Numbered(versions) /\ request[p] \in AtWork
  BY <1>1, SerialFacts
<1>3. LatestVersion = versions[Len(versions)] /\ LatestVersion.uid \in Uids
  BY VersionsFacts DEF LatestVersion, Last
<1>4. r \in AtWork /\ r.at = "send" /\ r.copy = request[p].copy /\ r.uid = LatestVersion.uid
  BY <1>1, <1>2, <1>3 DEF AtWork
<1>5. request' = [request EXCEPT ![p] = r] /\ UNCHANGED <<asset, form, versions>>
  BY DEF BuildForm
<1> HIDE DEF r
<1>6. UnderWay(r, asset', form', versions')
  BY <1>1, <1>2, <1>3, <1>4, <1>5 DEF UnderWay
<1>7. r # NoRequest
  BY <1>4, RequestFacts
<1>8. QED
  BY <1>2, <1>4, <1>5, <1>6, <1>7, SerialStep

LEMMA SerialSend ==
    ASSUME DeploymentTypeOK, OneAtATime, NEW p \in Requests, SendForm(p)
    PROVE  OneAtATime'
<1> DEFINE r == [request[p] EXCEPT !.at = "choose", !.copy.backend = TRUE]
<1>1. request[p].at = "send" /\ request[p].at \in RequestPlaces /\ "choose" \in RequestPlaces
  BY DEF SendForm, RequestPlaces
<1>2. UnderWay(request[p], asset, form, versions) /\ request[p] # NoRequest
      /\ Numbered(versions) /\ request[p] \in AtWork
  BY <1>1, SerialFacts
<1>3. r \in AtWork /\ r.at = "choose" /\ r.copy.content = request[p].copy.content
      /\ r.copy.backend = TRUE /\ r.copy.active = request[p].copy.active
  BY <1>1, <1>2 DEF AtWork, AssetCopy
<1>4. /\ request' = [request EXCEPT ![p] = r] /\ UNCHANGED <<asset, versions>>
      /\ form' = [exists |-> TRUE, content |-> request[p].copy.content,
                  version |-> request[p].uid, active |-> request[p].copy.active]
  BY DEF SendForm
<1> HIDE DEF r
<1>5. UnderWay(r, asset', form', versions')
  BY <1>1, <1>2, <1>3, <1>4 DEF UnderWay, AtRest
<1>6. r # NoRequest
  BY <1>3, RequestFacts
<1>7. QED
  BY <1>2, <1>3, <1>4, <1>5, <1>6, SerialStep

LEMMA SerialChoose ==
    ASSUME DeploymentTypeOK, OneAtATime, NEW p \in Requests, ChooseVersion(p)
    PROVE  OneAtATime'
<1> DEFINE at == IF LatestVersion.deployed THEN "store" ELSE "mark"
           r == [request[p] EXCEPT !.at = at, !.uid = LatestVersion.uid]
<1>1. request[p].at = "choose" /\ request[p].at \in RequestPlaces /\ at \in RequestPlaces
  BY DEF ChooseVersion, RequestPlaces
<1>2. UnderWay(request[p], asset, form, versions) /\ request[p] # NoRequest
      /\ Numbered(versions) /\ request[p] \in AtWork
  BY <1>1, SerialFacts
<1>3. LatestVersion = versions[Len(versions)] /\ LatestVersion.uid \in Uids
  BY VersionsFacts DEF LatestVersion, Last
<1>4. r \in AtWork /\ r.at = at /\ r.copy = request[p].copy /\ r.uid = LatestVersion.uid
  BY <1>1, <1>2, <1>3 DEF AtWork
<1>5. request' = [request EXCEPT ![p] = r] /\ UNCHANGED <<asset, form, versions>>
  BY DEF ChooseVersion
<1>6. at \in {"store", "mark"} /\ (at = "store" => LatestVersion.deployed)
  OBVIOUS
<1> HIDE DEF r, at
<1>7. UnderWay(r, asset', form', versions')
  BY <1>1, <1>2, <1>3, <1>4, <1>5, <1>6 DEF UnderWay
<1>8. r # NoRequest
  BY <1>4, RequestFacts
<1>9. QED
  BY <1>2, <1>4, <1>5, <1>7, <1>8, SerialStep

LEMMA SerialMark ==
    ASSUME DeploymentTypeOK, OneAtATime, NEW p \in Requests, MarkDeployed(p)
    PROVE  OneAtATime'
<1> DEFINE i == CHOOSE i \in DOMAIN versions : versions[i].uid = request[p].uid
           n == Len(versions)
           x == [versions[n] EXCEPT !.deployed = TRUE]
           r == [request[p] EXCEPT !.at = "store"]
<1>1. request[p].at = "mark" /\ request[p].at \in RequestPlaces /\ "store" \in RequestPlaces
  BY DEF MarkDeployed, RequestPlaces
<1>2. UnderWay(request[p], asset, form, versions) /\ request[p] # NoRequest
      /\ Numbered(versions) /\ request[p] \in AtWork
  BY <1>1, SerialFacts
<1>3. r \in AtWork /\ r.at = "store" /\ r.copy = request[p].copy
  BY <1>1, <1>2, Relabelled
<1>4. versions \in Seq(VersionRow) /\ n \in 1 .. MaxVersions /\ DOMAIN versions = 1 .. n /\ n \in DOMAIN versions
      /\ versions[n] \in VersionRow
  BY VersionsFacts DEF DeploymentTypeOK
<1>5. i = n
  <2>1. versions[n].uid = request[p].uid
    BY <1>1, <1>2 DEF UnderWay
  <2>2. i \in DOMAIN versions /\ versions[i].uid = request[p].uid
    BY <1>4, <2>1
  <2>3. QED
    BY <1>2, <1>4, <2>1, <2>2 DEF Numbered
<1>6. /\ request' = [request EXCEPT ![p] = r] /\ UNCHANGED <<asset, form>>
      /\ versions' = Append(RemoveAt(versions, i), [versions[i] EXCEPT !.deployed = TRUE])
  BY DEF MarkDeployed, MoveTo
<1>7. x \in VersionRow /\ x.content = versions[n].content /\ x.uid = versions[n].uid /\ x.deployed = TRUE
  BY <1>4 DEF VersionRow
<1> HIDE DEF i, r
<1>8. n \in 1 .. Len(versions) /\ versions \in Seq(VersionRow) /\ x \in VersionRow
      /\ versions' = Append(RemoveAt(versions, n), x)
  BY <1>4, <1>5, <1>6, <1>7 DEF x
<1> HIDE DEF x
<1>9. /\ versions' \in Seq(VersionRow) /\ Len(versions') = n /\ versions'[n] = x
      /\ \A j \in 1 .. n - 1 : versions'[j] = versions[j]
  <2>1. versions' \in Seq(VersionRow) /\ Len(versions') = Len(versions) /\ versions'[Len(versions)] = x
    BY <1>8, SavedAgain
  <2>2. \A j \in 1 .. n - 1 : versions'[j] = versions[j]
    BY <1>8, SavedAgain
  <2>3. QED
    BY <2>1, <2>2
<1>10. DOMAIN versions' = 1 .. n /\ \A j \in 1 .. n : versions'[j].uid = versions[j].uid
  <2>1. DOMAIN versions' = 1 .. n
    BY <1>9, LenProperties
  <2>2. n \in Nat
    BY <1>4
  <2> HIDE DEF n
  <2>3. \A j \in 1 .. n : j = n \/ j \in 1 .. n - 1
    BY <2>2
  <2>4. QED
    BY <1>7, <1>9, <2>1, <2>3
<1>11. Numbered(versions')
  BY <1>2, <1>4, <1>9, <1>10 DEF Numbered
<1>12. UnderWay(r, asset', form', versions')
  BY <1>1, <1>2, <1>3, <1>6, <1>7, <1>9 DEF UnderWay
<1>13. r # NoRequest
  BY <1>3, RequestFacts
<1>14. QED
  BY <1>2, <1>3, <1>6, <1>11, <1>12, <1>13, SerialStep

LEMMA SerialStore ==
    ASSUME DeploymentTypeOK, OneAtATime, NEW p \in Requests, StoreDeployment(p)
    PROVE  OneAtATime'
<1>1. request[p].at = "store" /\ request[p].at \in RequestPlaces
  BY DEF StoreDeployment, RequestPlaces
<1>2. UnderWay(request[p], asset, form, versions) /\ request[p] # NoRequest
      /\ Numbered(versions) /\ request[p].copy \in AssetCopy
  BY <1>1, SerialFacts
<1>3. /\ request' = [request EXCEPT ![p] = NoRequest] /\ UNCHANGED <<form, versions>>
      /\ asset' = WithStatus(request[p].copy)
  BY DEF StoreDeployment, Close
<1>4. DOMAIN versions = 1 .. Len(versions) /\ Len(versions) \in DOMAIN versions /\ Len(versions) \in Nat
  BY VersionsFacts
<1>5. Shows(form, versions)
  <2>1. \A j \in DOMAIN versions : j <= Len(versions)
    BY <1>4
  <2>2. QED
    BY <1>1, <1>2, <1>4, <2>1 DEF UnderWay, Shows
<1>6. /\ asset'.content = request[p].copy.content /\ asset'.backend = request[p].copy.backend
      /\ asset'.active = request[p].copy.active /\ asset'.status = StatusOf(asset')
  BY <1>3 DEF WithStatus, StatusOf
<1>7. form.exists = asset'.backend
  BY <1>1, <1>2, <1>6, RequestFacts DEF UnderWay, DeploymentTypeOK, Form
<1>8. AtRest(asset', form', versions')
  BY <1>1, <1>2, <1>3, <1>5, <1>6, <1>7 DEF UnderWay, AtRest, Agreed
<1>9. QED
  BY <1>2, <1>3, <1>8, SerialStep

\* A request that ends without a trace.
LEMMA SerialClose ==
    ASSUME DeploymentTypeOK, OneAtATime, NEW p \in Requests,
           request[p].at \in {"send", "patch"}, Close(p), UNCHANGED <<asset, form, versions>>
    PROVE  OneAtATime'
<1>1. request[p].at \in RequestPlaces
  BY DEF RequestPlaces
<1>2. UnderWay(request[p], asset, form, versions) /\ request[p] # NoRequest /\ Numbered(versions)
  BY <1>1, SerialFacts
<1>3. AtRest(asset', form', versions') /\ request' = [request EXCEPT ![p] = NoRequest]
  BY <1>2 DEF UnderWay, Close
<1>4. QED
  BY <1>2, <1>3, SerialStep

LEMMA SerialPatch ==
    ASSUME DeploymentTypeOK, OneAtATime, NEW p \in Requests, PatchForm(p)
    PROVE  OneAtATime'
<1> DEFINE r == [request[p] EXCEPT !.at = "activate"]
<1>1. request[p].at = "patch" /\ request[p].at \in RequestPlaces /\ "activate" \in RequestPlaces
  BY DEF PatchForm, RequestPlaces
<1>2. UnderWay(request[p], asset, form, versions) /\ request[p] # NoRequest
      /\ Numbered(versions) /\ request[p] \in AtWork /\ form \in Form /\ asset \in AssetRow
  BY <1>1, SerialFacts
<1>3. r \in AtWork /\ r.at = "activate" /\ r.copy = request[p].copy
  BY <1>1, <1>2, Relabelled
<1>4. CASE /\ form' = [form EXCEPT !.active = request[p].copy.active]
           /\ request' = [request EXCEPT ![p] = r] /\ UNCHANGED <<asset, versions>>
  <2>1. /\ form'.active = request[p].copy.active /\ form'.exists = form.exists
        /\ form'.version = form.version /\ form'.content = form.content
    BY <1>2, <1>4 DEF Form
  <2> HIDE DEF r
  <2>2. AtRest(asset, form, versions) /\ request[p].copy.backend = asset.backend /\ asset.backend
    BY <1>1, <1>2 DEF UnderWay
  <2>3. form.exists = asset.backend /\ Shows(form, versions)
    BY <2>2 DEF AtRest, Agreed
  <2>4. form'.exists /\ request[p].copy.backend /\ Shows(form', versions)
    BY <2>1, <2>2, <2>3 DEF Shows
  <2>5. UnderWay(r, asset', form', versions')
    BY <1>3, <1>4, <2>1, <2>2, <2>4 DEF UnderWay, AtRest
  <2>6. r # NoRequest
    BY <1>3, RequestFacts
  <2>7. QED
    BY <1>2, <1>3, <1>4, <2>5, <2>6, SerialStep
<1>5. CASE Close(p) /\ UNCHANGED <<asset, form, versions>>
  BY <1>1, <1>5, SerialClose
<1>6. QED
  BY <1>4, <1>5 DEF PatchForm, MoveTo

LEMMA SerialActive ==
    ASSUME DeploymentTypeOK, OneAtATime, NEW p \in Requests, StoreActive(p) \/ StoreLinks(p)
    PROVE  OneAtATime'
<1>1. request[p].at \in {"activate", "links"} /\ request[p].at \in RequestPlaces
  BY DEF StoreActive, StoreLinks, RequestPlaces
<1>2. UnderWay(request[p], asset, form, versions) /\ request[p] # NoRequest
      /\ Numbered(versions) /\ asset \in AssetRow /\ form \in Form /\ request[p].copy \in AssetCopy
  BY <1>1, SerialFacts
<1>3. request' = [request EXCEPT ![p] = NoRequest] /\ UNCHANGED <<form, versions>>
  BY DEF StoreActive, StoreLinks, Close
<1>4. CASE StoreActive(p)
  <2>1. request[p].at = "activate" /\ asset' = [asset EXCEPT !.active = request[p].copy.active,
                                                            !.status = StatusOf(request[p].copy)]
    BY <1>4 DEF StoreActive
  <2>2. /\ asset'.content = asset.content /\ asset'.backend = asset.backend
        /\ asset'.active = request[p].copy.active /\ asset'.status = StatusOf(request[p].copy)
    BY <1>2, <2>1 DEF AssetRow
  <2>3. /\ asset.backend = TRUE /\ request[p].copy.backend = TRUE /\ form.exists = TRUE
        /\ form.active = request[p].copy.active /\ Shows(form, versions)
        /\ versions[Len(versions)].content = asset.content
    BY <1>2, <2>1, RequestFacts DEF UnderWay, AssetRow, Form
  <2>4. AtRest(asset', form', versions')
    BY <1>3, <2>2, <2>3 DEF AtRest, Agreed, StatusOf
  <2>5. QED
    BY <1>2, <1>3, <2>4, SerialStep
<1>5. CASE StoreLinks(p)
  <2>1. request[p].at = "links" /\ asset' = [asset EXCEPT !.status = StatusOf(request[p].copy)]
    BY <1>5 DEF StoreLinks
  <2>2. /\ asset'.content = asset.content /\ asset'.backend = asset.backend
        /\ asset'.active = asset.active /\ asset'.status = StatusOf(request[p].copy)
    BY <1>2, <2>1 DEF AssetRow
  <2>3. /\ AtRest(asset, form, versions) /\ request[p].copy.backend = asset.backend
        /\ request[p].copy.active = asset.active
    BY <1>2, <2>1 DEF UnderWay
  <2>4. AtRest(asset', form', versions')
    BY <1>3, <2>2, <2>3 DEF AtRest, Agreed, StatusOf
  <2>5. QED
    BY <1>2, <1>3, <2>4, SerialStep
<1>6. QED
  BY <1>4, <1>5

LEMMA SerialToggle ==
    ASSUME DeploymentTypeOK, ~jostled => OneAtATime, NEW active \in BOOLEAN, ToggleAsset(active), ~jostled'
    PROVE  OneAtATime'
<1>1. AllIdle /\ ~jostled /\ UNCHANGED <<versions, request>>
  BY DEF ToggleAsset, DeploymentTypeOK
<1>2. OneAtATime /\ AtRest(asset, form, versions) /\ Numbered(versions)
  BY <1>1 DEF OneAtATime
<1>3. /\ asset'.content = asset.content /\ asset'.backend = asset.backend /\ asset'.active = active
      /\ asset'.status = IF active THEN "deployed" ELSE "archived"
  BY DEF ToggleAsset, DeploymentTypeOK, AssetRow
<1>4. /\ form'.exists = form.exists /\ form'.version = form.version /\ form'.content = form.content
      /\ form'.active = (form.exists /\ active)
  BY DEF ToggleAsset, DeploymentTypeOK, Form
<1>5. asset.backend \in BOOLEAN /\ form.exists \in BOOLEAN
  BY DEF DeploymentTypeOK, AssetRow, Form
<1>6. Shows(form, versions) => Shows(form', versions')
  BY <1>1, <1>4 DEF Shows
<1>7. AtRest(asset', form', versions')
  BY <1>1, <1>2, <1>3, <1>4, <1>5, <1>6 DEF AtRest, Agreed, StatusOf
<1>8. \A p \in Requests : request'[p] = NoRequest
  BY <1>1 DEF AllIdle
<1>9. QED
  BY <1>1, <1>2, <1>7, <1>8 DEF OneAtATime

LEMMA InitSerial == DeploymentInit => SerialInv
<1> SUFFICES ASSUME DeploymentInit PROVE SerialInv
  OBVIOUS
<1>1. PICK c \in Contents :
       /\ asset = [content |-> c, backend |-> FALSE, active |-> FALSE, status |-> "draft"]
       /\ versions = <<[uid |-> 1, content |-> c, deployed |-> FALSE]>>
       /\ form = [exists |-> FALSE, content |-> c, version |-> 0, active |-> FALSE]
       /\ request = [p \in Requests |-> NoRequest]
  BY DEF DeploymentInit
<1>2. Len(versions) = 1 /\ DOMAIN versions = 1 .. 1 /\ versions[1].content = c /\ versions[1].uid = 1
  BY <1>1
<1>3. Numbered(versions)
  BY <1>2 DEF Numbered
<1>4. AtRest(asset, form, versions)
  BY <1>1, <1>2 DEF AtRest, Agreed
<1>5. QED
  BY <1>1, <1>3, <1>4, InitDeployment DEF SerialInv, OneAtATime, DeploymentInv

LEMMA NextSerial ==
    DeploymentInv /\ DeploymentInv' /\ SerialInv /\ [DeploymentNext]_deploymentVars => SerialInv'
<1> SUFFICES ASSUME DeploymentTypeOK, DeploymentTypeOK', ~jostled => OneAtATime,
                    [DeploymentNext]_deploymentVars, ~jostled'
             PROVE  OneAtATime'
  BY DEF SerialInv, DeploymentInv
<1>1. asset.content \in Contents /\ asset.active \in BOOLEAN
  BY DEF DeploymentTypeOK, AssetRow
<1>2. {"edit", "build", "patch", "links"} \subseteq RequestPlaces
  BY DEF RequestPlaces
<1>3. ASSUME NEW p \in Requests, NEW c \in Contents, BeginEdit(p, c) PROVE OneAtATime'
  BY <1>1, <1>2, <1>3, SerialBegin DEF BeginEdit
<1>4. ASSUME NEW p \in Requests, NEW active \in BOOLEAN, BeginDeploy(p, active) PROVE OneAtATime'
  BY <1>1, <1>2, <1>4, SerialBegin DEF BeginDeploy
<1>5. ASSUME NEW p \in Requests, NEW active \in BOOLEAN, BeginActivate(p, active) PROVE OneAtATime'
  BY <1>1, <1>2, <1>5, SerialBegin DEF BeginActivate
<1>6. ASSUME NEW p \in Requests, BeginLinks(p) PROVE OneAtATime'
  BY <1>1, <1>2, <1>6, SerialBegin DEF BeginLinks
<1>7. ASSUME NEW p \in Requests,
             \/ SaveEdit(p) \/ CreateVersion(p) \/ BuildForm(p) \/ SendForm(p) \/ FormIsRefused(p)
             \/ ChooseVersion(p) \/ MarkDeployed(p) \/ StoreDeployment(p)
             \/ PatchForm(p) \/ StoreActive(p) \/ StoreLinks(p)
      PROVE  OneAtATime'
  <2>1. OneAtATime
    BY <1>7 DEF SaveEdit, CreateVersion, BuildForm, SendForm, FormIsRefused, ChooseVersion,
                MarkDeployed, StoreDeployment, PatchForm, StoreActive, StoreLinks
  <2>2. CASE FormIsRefused(p)
    BY <2>1, <2>2, SerialClose DEF FormIsRefused
  <2>3. QED
    BY <1>7, <2>1, <2>2, SerialEdit, SerialVersion, SerialBuild, SerialSend, SerialChoose, SerialMark,
       SerialStore, SerialPatch, SerialActive
<1>8. ASSUME NEW p \in Requests, BreakOff(p) PROVE OneAtATime'
  BY <1>8 DEF BreakOff
<1>9. ASSUME NEW active \in BOOLEAN, ToggleAsset(active) PROVE OneAtATime'
  BY <1>9, SerialToggle
<1>10. CASE UNCHANGED deploymentVars
  BY <1>10 DEF deploymentVars, OneAtATime, AllIdle
<1>11. QED
  BY <1>3, <1>4, <1>5, <1>6, <1>7, <1>8, <1>9, <1>10 DEF DeploymentNext

\* Edits, deployments, archivings and link look-ups that come one after the other
\* leave the asset, its versions and KoBoCAT in agreement (AgreeWhenSerial), however
\* many they are: the form is the version deployed last, because the version that is
\* marked is still the latest one, of which the form was built.
THEOREM SerialRequestsAgree == DeploymentSpec => []AgreeWhenSerial
<1>1. SerialInv => AgreeWhenSerial
  <2> SUFFICES ASSUME DeploymentTypeOK, OneAtATime, AllIdle, asset.backend
               PROVE  /\ form.exists /\ DeployedVersions # {}
                      /\ form.version = LatestDeployed.uid /\ form.content = LatestDeployed.content
                      /\ form.active = asset.active /\ asset.status = StatusOf(asset)
    BY DEF SerialInv, AgreeWhenSerial
  <2>1. Agreed(asset, form, versions)
    BY DEF OneAtATime, AtRest
  <2>2. PICK k \in DOMAIN versions :
          /\ versions[k].deployed /\ \A j \in DOMAIN versions : versions[j].deployed => j <= k
          /\ form.version = versions[k].uid /\ form.content = versions[k].content
    BY <2>1 DEF Agreed, Shows
  <2>3. k \in DeployedVersions /\ \A j \in DeployedVersions : j <= k
    BY <2>2 DEF DeployedVersions
  <2>4. LatestDeployed = versions[k]
    <3>1. DOMAIN versions \subseteq Nat
      BY VersionsFacts
    <3>2. DeployedVersions \subseteq Nat
      BY <3>1 DEF DeployedVersions
    <3>3. \A i \in DeployedVersions : (\A j \in DeployedVersions : j <= i) => i = k
      BY <2>3, <3>2
    <3>4. QED
      BY <2>3, <3>3 DEF LatestDeployed
  <2>5. form.exists
    BY <2>1, RequestFacts DEF Agreed
  <2>6. QED
    BY <2>1, <2>2, <2>3, <2>4, <2>5 DEF Agreed
<1>2. QED
  BY <1>1, InitDeployment, NextDeployment, InitSerial, NextSerial, PTL DEF DeploymentSpec
----------------------------------------------------------------------------
(* Form media *)

SyncPlaces == {"queued", "load", "next", "post", "vacuum", "done"}
KcLists == UNION {[D -> KcFile] : D \in SUBSET Names}
Tasks == [pc: SyncPlaces, kc_files: KcLists, todo: SUBSET MediaCopies,
          file: MediaCopies \cup {NoFile}]
HasItsFile(j) == j.pc \in {"post", "vacuum"} => j.file \in MediaCopies

FilesOK ==
    /\ uploads \in 0 .. MaxUploads
    /\ uploading \subseteq [f: 1 .. uploads, name: Names, hash: Hashes]
    /\ DOMAIN asset_files \subseteq 1 .. uploads
    /\ asset_files \in [DOMAIN asset_files -> AssetFile]

TasksOK == sync \in [Syncs -> Tasks] /\ \A y \in Syncs : HasItsFile(sync[y])

MediaShape ==
    FilesOK /\ kc \in KcLists /\ directs \in 0 .. MaxDirect /\ TasksOK /\ settled \in BOOLEAN

\* A remembered key is of the file that was remembered.
KeysTell ==
    \A y \in Syncs : \A n \in DOMAIN sync[y].kc_files \cap DOMAIN kc :
       kc[n].pk = sync[y].kc_files[n].pk => kc[n] = sync[y].kc_files[n]

CopyOf(f, files) ==
    [f |-> f, name |-> files[f].name, hash |-> files[f].hash, deleted |-> files[f].deleted]
Running == {y \in Syncs : sync[y].pc \notin {"queued", "done"}}

\* What a task remembers is still there, but for what it has just removed.
Remembers(j, k) ==
    \A n \in DOMAIN j.kc_files :
      \/ n \in DOMAIN k /\ k[n] = j.kc_files[n]
      \/ /\ j.pc \in {"post", "vacuum"} /\ n = j.file.name /\ n \notin DOMAIN k
         /\ j.pc = "vacuum" => j.kc_files[n].from_kpi

\* A row is on its list, or has its file in KoBoCAT, which is no longer on it.
RowsAreMet(j, files, k) ==
    \A f \in DOMAIN files :
      \/ CopyOf(f, files) \in j.todo
      \/ /\ ~files[f].deleted
         /\ files[f].name \in DOMAIN k /\ files[f].name \notin DOMAIN j.kc_files
         /\ k[files[f].name].hash = files[f].hash

\* A file of KoBoCAT is on its list, or belongs to a row that is dealt with.
FilesAreMet(j, files, k) ==
    \A n \in DOMAIN k :
      \/ n \in DOMAIN j.kc_files
      \/ \E f \in DOMAIN files :
           ~files[f].deleted /\ files[f].name = n /\ CopyOf(f, files) \notin j.todo

ListIsTrue(j, files) ==
    \A file \in j.todo : file.f \in DOMAIN files /\ file = CopyOf(file.f, files)

FileInHand(j, k) ==
    /\ j.pc \in {"post", "vacuum"} => j.file \in j.todo
    /\ j.pc = "post" => ~j.file.deleted /\ j.file.name \notin DOMAIN k
    /\ j.pc = "vacuum" =>
         /\ j.file.deleted
         /\ j.file.name \in DOMAIN j.kc_files /\ j.kc_files[j.file.name].from_kpi
              => j.file.name \notin DOMAIN k

Settling(j, files, k) ==
    /\ Remembers(j, k)
    /\ j.pc = "load" => DOMAIN k \subseteq DOMAIN j.kc_files
    /\ j.pc # "load" =>
         /\ ListIsTrue(j, files) /\ RowsAreMet(j, files, k)
         /\ FilesAreMet(j, files, k) /\ FileInHand(j, k)

\* How far a task has come that runs alone and undisturbed.
Settles ==
    settled =>
      /\ NamesAreUnique
      /\ \A y, z \in Running : y = z
      /\ \A y \in Running : Settling(sync[y], asset_files, kc)
      /\ Running = {} => Mirrored

MediaInv == MediaShape /\ KeysTell /\ Settles

\* A list of KoBoCAT's files.
LEMMA KcListFacts ==
    ASSUME NEW k
    PROVE  k \in KcLists <=> DOMAIN k \subseteq Names /\ k \in [DOMAIN k -> KcFile]
<1>1. ASSUME k \in KcLists PROVE DOMAIN k \subseteq Names /\ k \in [DOMAIN k -> KcFile]
  BY <1>1 DEF KcLists
<1>2. ASSUME DOMAIN k \subseteq Names /\ k \in [DOMAIN k -> KcFile] PROVE k \in KcLists
  BY <1>2 DEF KcLists
<1>3. QED
  BY <1>1, <1>2

\* What Put and Cut leave.
LEMMA PutFacts ==
    ASSUME NEW function, NEW x, NEW value
    PROVE  /\ DOMAIN Put(function, x, value) = DOMAIN function \cup {x}
           /\ Put(function, x, value)[x] = value
           /\ \A y \in DOMAIN function : y # x => Put(function, x, value)[y] = function[y]
  BY DEF Put

LEMMA CutFacts ==
    ASSUME NEW function, NEW x
    PROVE  /\ DOMAIN Cut(function, x) = DOMAIN function \ {x}
           /\ \A y \in DOMAIN function : y # x => Cut(function, x)[y] = function[y]
  BY DEF Cut

LEMMA PutIsList ==
    ASSUME NEW k \in KcLists, NEW n \in Names, NEW file \in KcFile
    PROVE  Put(k, n, file) \in KcLists
<1> DEFINE put == Put(k, n, file)
<1>0. DOMAIN k \subseteq Names /\ \A m \in DOMAIN k : k[m] \in KcFile
  BY KcListFacts
<1>1. DOMAIN put \subseteq Names /\ \A m \in DOMAIN put : put[m] \in KcFile
  BY <1>0 DEF Put
<1>2. put \in [DOMAIN put -> KcFile]
  <2>1. put = [m \in DOMAIN put |-> put[m]]
    BY DEF Put
  <2>2. QED
    BY <1>1, <2>1
<1>3. QED
  BY <1>1, <1>2, KcListFacts

LEMMA CutIsList == ASSUME NEW k \in KcLists, NEW n PROVE Cut(k, n) \in KcLists
<1> DEFINE cut == Cut(k, n)
<1>0. DOMAIN k \subseteq Names /\ \A m \in DOMAIN k : k[m] \in KcFile
  BY KcListFacts
<1>1. DOMAIN cut \subseteq Names /\ \A m \in DOMAIN cut : cut[m] \in KcFile
  BY <1>0 DEF Cut
<1>2. cut \in [DOMAIN cut -> KcFile]
  <2>1. cut = [m \in DOMAIN cut |-> cut[m]]
    BY DEF Cut
  <2>2. QED
    BY <1>1, <2>1
<1>3. QED
  BY <1>1, <1>2, KcListFacts

\* There are more keys than tasks, so that a new one is there.
LEMMA NewKeyIsNew ==
    ASSUME NEW n
    PROVE  /\ NewKey(n) \in 1 .. MaxSyncs + 1
           /\ \A y \in Syncs : n \in DOMAIN sync[y].kc_files => sync[y].kc_files[n].pk # NewKey(n)
<1> DEFINE Keys == 1 .. MaxSyncs + 1
           Free(pk) == \A y \in Syncs : n \in DOMAIN sync[y].kc_files => sync[y].kc_files[n].pk # pk
           holder == [pk \in Keys |-> CHOOSE y \in Syncs : n \in DOMAIN sync[y].kc_files
                                                      /\ sync[y].kc_files[n].pk = pk]
<1>1. MaxSyncs \in Nat
  BY MediaAssumption
<1>2. \E pk \in Keys : Free(pk)
  <2> SUFFICES ASSUME \A pk \in Keys : ~Free(pk) PROVE FALSE
    OBVIOUS
  <2>1. \A pk \in Keys : holder[pk] \in Syncs /\ sync[holder[pk]].kc_files[n].pk = pk
    OBVIOUS
  <2>2. IsFiniteSet(Keys) /\ Cardinality(Keys) = MaxSyncs + 1
    BY <1>1, FS_Interval
  <2>3. IsFiniteSet(Syncs) /\ Cardinality(Syncs) = MaxSyncs
    BY <1>1, FS_Interval DEF Syncs
  <2>4. holder \in [Keys -> Syncs]
    BY <2>1
  <2>5. Cardinality(Syncs) < Cardinality(Keys)
    BY <1>1, <2>2, <2>3
  <2> HIDE DEF holder, Keys
  <2>6. \E a, b \in Keys : a # b /\ holder[a] = holder[b]
    BY <2>2, <2>3, <2>4, <2>5, FS_PigeonHole
  <2>7. QED
    BY <2>1, <2>6
<1>3. NewKey(n) \in Keys /\ Free(NewKey(n))
  BY <1>2 DEF NewKey
<1>4. QED
  BY <1>3

LEMMA ShapeIsTyped == MediaShape => MediaTypeOK
<1> SUFFICES ASSUME MediaShape PROVE MediaTypeOK
  OBVIOUS
<1>1. DOMAIN kc \subseteq Names /\ kc \in [DOMAIN kc -> KcFile]
  BY KcListFacts DEF MediaShape
<1>2. ASSUME NEW y \in Syncs
      PROVE  /\ sync[y].pc \in SyncPlaces /\ DOMAIN sync[y].kc_files \subseteq Names
             /\ sync[y].todo \subseteq MediaCopies
             /\ sync[y].pc \in {"post", "vacuum"} => sync[y].file \in MediaCopies
  <2>1. sync[y] \in Tasks /\ HasItsFile(sync[y])
    BY DEF MediaShape, TasksOK
  <2>2. sync[y].kc_files \in KcLists /\ sync[y].pc \in SyncPlaces /\ sync[y].todo \subseteq MediaCopies
    BY <2>1 DEF Tasks
  <2>3. QED
    BY <2>1, <2>2, KcListFacts DEF HasItsFile
<1>3. QED
  BY <1>1, <1>2 DEF MediaShape, MediaTypeOK, FilesOK, SyncPlaces

\* What the steps make of a task.
LEMMA TaskFields ==
    ASSUME NEW j \in Tasks
    PROVE  /\ j.pc \in SyncPlaces /\ j.kc_files \in KcLists /\ j.todo \subseteq MediaCopies
           /\ DOMAIN j.kc_files \subseteq Names
  BY KcListFacts DEF Tasks

LEMMA HandledFields ==
    ASSUME NEW j \in Tasks, NEW file
    PROVE  LET next == Handled(j, file)
           IN  /\ next \in Tasks /\ HasItsFile(next)
               /\ next.pc = "next" /\ next.todo = j.todo \ {file}
               /\ next.kc_files = Cut(j.kc_files, file.name)
<1>1. Cut(j.kc_files, file.name) \in KcLists
  BY TaskFields, CutIsList
<1> DEFINE list == Cut(j.kc_files, file.name)
<1>2. Handled(j, file) = [j EXCEPT !.pc = "next", !.todo = @ \ {file}, !.file = NoFile,
                                   !.kc_files = list]
  BY DEF Handled, Tasks
<1> HIDE DEF list
<1>3. QED
  BY <1>1, <1>2 DEF Tasks, HasItsFile, SyncPlaces, list

LEMMA SparedFields ==
    ASSUME NEW j \in Tasks, NEW file
    PROVE  LET next == [j EXCEPT !.pc = "next", !.todo = @ \ {file}, !.file = NoFile]
           IN  /\ next \in Tasks /\ HasItsFile(next)
               /\ next.pc = "next" /\ next.todo = j.todo \ {file}
               /\ next.kc_files = j.kc_files
  BY DEF Tasks, HasItsFile, SyncPlaces

LEMMA ForgetsFields ==
    ASSUME NEW j \in Tasks, NEW n, j.pc = "next"
    PROVE  LET next == [j EXCEPT !.kc_files = Cut(@, n)]
           IN  /\ next \in Tasks /\ HasItsFile(next)
               /\ next.pc = "next" /\ next.todo = j.todo
               /\ next.kc_files = Cut(j.kc_files, n)
<1>1. Cut(j.kc_files, n) \in KcLists
  BY TaskFields, CutIsList
<1> DEFINE list == Cut(j.kc_files, n)
<1>2. [j EXCEPT !.kc_files = Cut(@, n)] = [j EXCEPT !.kc_files = list]
  BY DEF Tasks
<1> HIDE DEF list
<1>3. QED
  BY <1>1, <1>2 DEF Tasks, HasItsFile, SyncPlaces, list

LEMMA EndedFields == Ended \in Tasks /\ HasItsFile(Ended) /\ Ended.pc = "done" /\ DOMAIN Ended.kc_files = {}
<1>1. DOMAIN << >> = {} /\ << >> \in [DOMAIN << >> -> KcFile]
  OBVIOUS
<1>2. << >> \in KcLists
  BY <1>1, KcListFacts
<1>3. QED
  BY <1>1, <1>2 DEF Ended, Tasks, HasItsFile, SyncPlaces

LEMMA SyncGoes ==
    ASSUME TasksOK, NEW y \in Syncs, NEW next \in Tasks, HasItsFile(next), SyncIs(y, next)
    PROVE  /\ TasksOK' /\ sync'[y] = next
           /\ \A z \in Syncs : z # y => sync'[z] = sync[z]
  BY DEF TasksOK, SyncIs, Syncs

\* When a task makes a step, keys still tell.
LEMMA KeysStillTell ==
    ASSUME KeysTell,
           \A n \in DOMAIN kc' :
             \/ n \in DOMAIN kc /\ kc'[n] = kc[n]
             \/ \A y \in Syncs : n \in DOMAIN sync[y].kc_files => sync[y].kc_files[n].pk # kc'[n].pk,
           \A y \in Syncs : \A n \in DOMAIN sync'[y].kc_files :
             \/ n \in DOMAIN sync[y].kc_files /\ sync'[y].kc_files[n] = sync[y].kc_files[n]
             \/ n \in DOMAIN kc' => kc'[n] = sync'[y].kc_files[n]
    PROVE  KeysTell'
  BY DEF KeysTell

\* An undisturbed task is the only one, and leaves KoBoCAT's files as they should be.
LEMMA AloneStep ==
    ASSUME Settles, TasksOK, NEW y \in Running, NEW next, settled' = settled,
           NamesAreUnique => NamesAreUnique',
           sync'[y] = next, next.pc # "queued",
           \A z \in Syncs : z # y => sync'[z] = sync[z],
           settled /\ Settling(sync[y], asset_files, kc) =>
             IF next.pc = "done" THEN Mirrored' ELSE Settling(next, asset_files', kc')
    PROVE  Settles'
<1> SUFFICES ASSUME settled PROVE Settles'
  BY DEF Settles
<1>1. \A z \in Running : z = y
  BY DEF Settles
<1>2. \A z \in Running' : z = y
  BY <1>1 DEF Running
<1>3. Settling(sync[y], asset_files, kc)
  BY DEF Settles
<1>4. y \in Syncs
  BY DEF Running
<1>0. NamesAreUnique'
  BY DEF Settles
<1>5. CASE next.pc = "done"
  <2>1. Running' = {} /\ Mirrored'
    BY <1>2, <1>3, <1>5 DEF Running
  <2>2. QED
    BY <1>0, <2>1 DEF Settles
<1>6. CASE next.pc # "done"
  <2>1. y \in Running' /\ Settling(sync'[y], asset_files', kc')
    BY <1>3, <1>4, <1>6 DEF Running
  <2>2. \A z \in Running' : Settling(sync'[z], asset_files', kc')
    BY <1>2, <2>1
  <2>3. QED
    BY <1>0, <1>2, <2>1, <2>2 DEF Settles
<1>7. QED
  BY <1>5, <1>6

\* The two requests of a task, whether or not they succeed.
LEMMA DeleteIsSound ==
    ASSUME MediaShape, KeysTell, NEW y \in Syncs, NEW n \in DOMAIN sync[y].kc_files,
           NEW next \in Tasks, HasItsFile(next), RequestDelete(y, n, next),
           \A m \in DOMAIN next.kc_files :
             m \in DOMAIN sync[y].kc_files /\ next.kc_files[m] = sync[y].kc_files[m]
    PROVE  /\ kc' \in KcLists /\ TasksOK' /\ KeysTell'
           /\ sync'[y] \in {next, Ended} /\ \A z \in Syncs : z # y => sync'[z] = sync[z]
           /\ \A m \in DOMAIN kc :
                \/ m \in DOMAIN kc' /\ kc'[m] = kc[m]
                \/ m = n /\ kc[n] = sync[y].kc_files[n] /\ sync'[y] = next
           /\ n \in DOMAIN kc /\ kc[n] = sync[y].kc_files[n] => sync'[y] = next /\ kc' = Cut(kc, n)
<1>1. TasksOK /\ kc \in KcLists
  BY DEF MediaShape
<1>2. CASE n \in DOMAIN kc /\ kc[n].pk = sync[y].kc_files[n].pk
  <2>1. kc' = Cut(kc, n) /\ SyncIs(y, next)
    BY <1>2 DEF RequestDelete
  <2>2. TasksOK' /\ sync'[y] = next /\ \A z \in Syncs : z # y => sync'[z] = sync[z]
    BY <1>1, <2>1, SyncGoes
  <2>3. kc' \in KcLists
    BY <1>1, <2>1, CutIsList
  <2>4. kc[n] = sync[y].kc_files[n]
    BY <1>2 DEF KeysTell
  <2>5. /\ DOMAIN kc' = DOMAIN kc \ {n}
        /\ \A m \in DOMAIN kc : m # n => kc'[m] = kc[m]
    BY <2>1, CutFacts
  <2>6. KeysTell'
    BY <2>2, <2>5, KeysStillTell
  <2>7. QED
    BY <2>1, <2>2, <2>3, <2>4, <2>5, <2>6
<1>3. CASE ~(n \in DOMAIN kc /\ kc[n].pk = sync[y].kc_files[n].pk)
  <2>1. kc' = kc /\ SyncIs(y, Ended)
    BY <1>3 DEF RequestDelete
  <2>2. TasksOK' /\ sync'[y] = Ended /\ \A z \in Syncs : z # y => sync'[z] = sync[z]
    BY <1>1, <2>1, SyncGoes, EndedFields
  <2>3. KeysTell'
    BY <2>1, <2>2, KeysStillTell, EndedFields
  <2>4. QED
    BY <1>1, <1>3, <2>1, <2>2, <2>3
<1>4. QED
  BY <1>2, <1>3

LEMMA PostIsSound ==
    ASSUME MediaShape, KeysTell, NEW y \in Syncs, NEW file \in MediaCopies,
           NEW next \in Tasks, HasItsFile(next), RequestPost(y, file, next),
           \A m \in DOMAIN next.kc_files :
             m \in DOMAIN sync[y].kc_files /\ next.kc_files[m] = sync[y].kc_files[m]
    PROVE  /\ kc' \in KcLists /\ TasksOK' /\ KeysTell'
           /\ sync'[y] \in {next, Ended} /\ \A z \in Syncs : z # y => sync'[z] = sync[z]
           /\ \A m \in DOMAIN kc : m \in DOMAIN kc' /\ kc'[m] = kc[m]
           /\ file.name \notin DOMAIN kc /\ file.f \in DOMAIN asset_files =>
                /\ sync'[y] = next /\ DOMAIN kc' = DOMAIN kc \cup {file.name}
                /\ kc'[file.name].hash = file.hash
<1>1. TasksOK /\ kc \in KcLists
  BY DEF MediaShape
<1>2. CASE file.name \in DOMAIN kc
  <2>1. kc' = kc /\ SyncIs(y, Ended)
    BY <1>2 DEF RequestPost
  <2>2. TasksOK' /\ sync'[y] = Ended /\ \A z \in Syncs : z # y => sync'[z] = sync[z]
    BY <1>1, <2>1, SyncGoes, EndedFields
  <2>3. KeysTell'
    BY <2>1, <2>2, KeysStillTell, EndedFields
  <2>4. QED
    BY <1>1, <1>2, <2>1, <2>2, <2>3
<1>3. CASE file.name \notin DOMAIN kc
  <2> DEFINE new == [pk |-> NewKey(file.name), hash |-> file.hash, from_kpi |-> TRUE]
             last == IF file.f \in DOMAIN asset_files THEN next ELSE Ended
  <2>1. kc' = Put(kc, file.name, new) /\ SyncIs(y, last)
    BY <1>3 DEF RequestPost
  <2>2. last \in Tasks /\ HasItsFile(last) /\ \A m \in DOMAIN last.kc_files :
             m \in DOMAIN sync[y].kc_files /\ last.kc_files[m] = sync[y].kc_files[m]
    BY EndedFields
  <2>3. new \in KcFile /\ file.name \in Names /\ new.hash = file.hash
    BY NewKeyIsNew DEF KcFile, MediaCopies
  <2>4. \A z \in Syncs : file.name \in DOMAIN sync[z].kc_files => sync[z].kc_files[file.name].pk # new.pk
    BY NewKeyIsNew
  <2> HIDE DEF new
  <2>5. /\ DOMAIN kc' = DOMAIN kc \cup {file.name} /\ kc'[file.name] = new
        /\ \A m \in DOMAIN kc : m # file.name => kc'[m] = kc[m]
    BY <2>1 DEF Put
  <2>6. kc' \in KcLists
    BY <1>1, <2>1, <2>3, PutIsList
  <2> HIDE DEF last
  <2>7. TasksOK' /\ sync'[y] = last /\ \A z \in Syncs : z # y => sync'[z] = sync[z]
    BY <1>1, <2>1, <2>2, SyncGoes
  <2>8. KeysTell'
    BY <1>3, <2>2, <2>4, <2>5, <2>7, KeysStillTell
  <2>9. QED
    BY <1>3, <2>3, <2>5, <2>6, <2>7, <2>8 DEF last
<1>4. QED
  BY <1>2, <1>3

\* The steps of the users.
LEMMA ValidateUploadKeeps ==
    ASSUME MediaInv, NEW n \in Names, NEW hash \in Hashes, ValidateUpload(n, hash) PROVE MediaInv'
<1>1. MediaShape /\ FilesOK /\ TasksOK /\ uploads \in Nat /\ MaxUploads \in Nat
  BY MediaAssumption DEF MediaInv, MediaShape, FilesOK
<1>2. /\ uploads' = uploads + 1 /\ uploads < MaxUploads
      /\ uploading' = uploading \cup {[f |-> uploads + 1, name |-> n, hash |-> hash]}
      /\ UNCHANGED <<asset_files, kc, directs, sync, settled>>
  BY DEF ValidateUpload
<1>3. 1 .. uploads \subseteq 1 .. uploads' /\ uploads + 1 \in 1 .. uploads' /\ uploads' \in 0 .. MaxUploads
  BY <1>1, <1>2
<1>4. FilesOK'
  BY <1>1, <1>2, <1>3 DEF FilesOK
<1>5. MediaShape'
  BY <1>1, <1>2, <1>4 DEF MediaShape, TasksOK, HasItsFile
<1>6. KeysTell' /\ Settles'
  BY <1>2 DEF MediaInv, KeysTell, Settles, NamesAreUnique, Live, Running, Mirrored
<1>7. QED
  BY <1>5, <1>6 DEF MediaInv

LEMMA SaveUploadKeeps == ASSUME MediaInv, NEW u \in uploading, SaveUpload(u) PROVE MediaInv'
<1> DEFINE row == [name |-> u.name, hash |-> u.hash, deleted |-> FALSE]
<1>1. MediaShape /\ FilesOK /\ TasksOK
  BY DEF MediaInv, MediaShape
<1>2. /\ uploading' \subseteq uploading /\ asset_files' = Put(asset_files, u.f, row)
      /\ UNCHANGED <<uploads, kc, directs, sync>> /\ ~settled' /\ settled' \in BOOLEAN
  BY DEF SaveUpload
<1>3. row \in AssetFile /\ u.f \in 1 .. uploads
  BY <1>1 DEF FilesOK, AssetFile
<1> HIDE DEF row
<1>4. /\ DOMAIN asset_files' = DOMAIN asset_files \cup {u.f}
      /\ asset_files' = [f \in DOMAIN asset_files' |-> asset_files'[f]]
      /\ \A f \in DOMAIN asset_files' : asset_files'[f] \in {row, asset_files[f]}
  BY <1>2 DEF Put
<1>5. \A f \in DOMAIN asset_files' : asset_files'[f] \in AssetFile
  <2>1. \A f \in DOMAIN asset_files' : f \in DOMAIN asset_files \/ asset_files'[f] = row
    BY <1>2 DEF Put
  <2>2. QED
    BY <1>1, <1>3, <1>4, <2>1 DEF FilesOK
<1>6. FilesOK'
  <2>1. asset_files' \in [DOMAIN asset_files' -> AssetFile]
    BY <1>4, <1>5
  <2>2. QED
    BY <1>1, <1>2, <1>3, <1>4, <2>1 DEF FilesOK
<1>7. MediaShape'
  BY <1>1, <1>2, <1>6 DEF MediaShape, TasksOK, HasItsFile
<1>8. KeysTell' /\ Settles'
  BY <1>2 DEF MediaInv, KeysTell, Settles
<1>9. QED
  BY <1>7, <1>8 DEF MediaInv

LEMMA DeleteFileKeeps ==
    ASSUME MediaInv, NEW f \in DOMAIN asset_files, DeleteFile(f) PROVE MediaInv'
<1>1. MediaShape /\ FilesOK /\ TasksOK /\ f \in Live
  BY DEF MediaInv, MediaShape, DeleteFile
<1>2. /\ asset_files' = [asset_files EXCEPT ![f].deleted = TRUE] /\ UNCHANGED <<uploads, uploading, kc, directs, sync>>
      /\ ~settled' /\ settled' \in BOOLEAN
  BY DEF DeleteFile
<1>3. /\ asset_files \in [DOMAIN asset_files -> AssetFile]
      /\ asset_files' \in [DOMAIN asset_files -> AssetFile]
      /\ \A g \in DOMAIN asset_files : asset_files'[g].name = asset_files[g].name
      /\ \A g \in DOMAIN asset_files : asset_files[g].deleted => asset_files'[g].deleted
  BY <1>1, <1>2 DEF FilesOK, AssetFile
<1>4. DOMAIN asset_files' = DOMAIN asset_files
  BY <1>3
<1>5. FilesOK'
  BY <1>1, <1>2, <1>3, <1>4 DEF FilesOK
<1>6. MediaShape'
  BY <1>1, <1>2, <1>5 DEF MediaShape, TasksOK, HasItsFile
<1>7. KeysTell' /\ Settles'
  BY <1>2 DEF MediaInv, KeysTell, Settles
<1>8. QED
  BY <1>6, <1>7 DEF MediaInv

LEMMA UploadToKcKeeps ==
    ASSUME MediaInv, NEW n \in Names, NEW hash \in Hashes, UploadToKc(n, hash) PROVE MediaInv'
<1> DEFINE new == [pk |-> NewKey(n), hash |-> hash, from_kpi |-> FALSE]
<1>1. MediaShape /\ kc \in KcLists /\ FilesOK /\ TasksOK /\ KeysTell
  BY DEF MediaInv, MediaShape
<1>2. /\ kc' = Put(kc, n, new) /\ directs' = directs + 1 /\ directs < MaxDirect /\ n \notin DOMAIN kc
      /\ UNCHANGED <<asset_files, uploads, uploading, sync>> /\ ~settled' /\ settled' \in BOOLEAN
  BY DEF UploadToKc
<1>3. new \in KcFile /\ \A z \in Syncs : n \in DOMAIN sync[z].kc_files => sync[z].kc_files[n].pk # new.pk
  BY NewKeyIsNew DEF KcFile
<1> HIDE DEF new
<1>4. kc' \in KcLists
  BY <1>1, <1>2, <1>3, PutIsList
<1>5. KeysTell'
  <2>1. \A m \in DOMAIN kc' : (m \in DOMAIN kc /\ kc'[m] = kc[m]) \/ (m = n /\ kc'[n] = new)
    BY <1>2 DEF Put
  <2>2. QED
    BY <1>1, <1>2, <1>3, <2>1, KeysStillTell
<1>6. directs' \in 0 .. MaxDirect
  BY <1>1, <1>2, MediaAssumption DEF MediaShape
<1>7. FilesOK' /\ TasksOK' /\ Settles'
  BY <1>1, <1>2 DEF FilesOK, Live, TasksOK, HasItsFile, Settles
<1>8. QED
  BY <1>2, <1>4, <1>5, <1>6, <1>7 DEF MediaInv, MediaShape

LEMMA DeleteFromKcKeeps ==
    ASSUME MediaInv, NEW n \in Names, DeleteFromKc(n) PROVE MediaInv'
<1>1. MediaShape /\ kc \in KcLists /\ FilesOK /\ TasksOK /\ KeysTell
  BY DEF MediaInv, MediaShape
<1>2. /\ kc' = Cut(kc, n) /\ directs' = directs + 1 /\ directs < MaxDirect
      /\ UNCHANGED <<asset_files, uploads, uploading, sync>> /\ ~settled' /\ settled' \in BOOLEAN
  BY DEF DeleteFromKc
<1>3. kc' \in KcLists
  BY <1>1, <1>2, CutIsList
<1>4. KeysTell'
  <2>1. \A m \in DOMAIN kc' : m \in DOMAIN kc /\ kc'[m] = kc[m]
    BY <1>2 DEF Cut
  <2>2. QED
    BY <1>1, <1>2, <2>1, KeysStillTell
<1>5. directs' \in 0 .. MaxDirect
  BY <1>1, <1>2, MediaAssumption DEF MediaShape
<1>6. FilesOK' /\ TasksOK' /\ Settles'
  BY <1>1, <1>2 DEF FilesOK, Live, TasksOK, HasItsFile, Settles
<1>7. QED
  BY <1>2, <1>3, <1>4, <1>5, <1>6 DEF MediaInv, MediaShape

\* The steps of a task that only change what it remembers.
LEMMA StartSyncKeeps == ASSUME MediaInv, NEW y \in Syncs, StartSync(y) PROVE MediaInv'
<1> DEFINE next == [sync[y] EXCEPT !.pc = "load", !.kc_files = kc]
<1>1. MediaShape /\ kc \in KcLists /\ FilesOK /\ TasksOK /\ KeysTell /\ sync[y] \in Tasks
  BY DEF MediaInv, MediaShape, TasksOK
<1>2. /\ SyncIs(y, next) /\ sync[y].pc = "queued" /\ UNCHANGED <<asset_files, uploads, uploading, kc, directs>>
      /\ settled' = (NamesAreUnique /\ \A z \in Syncs : sync[z].pc \in {"queued", "done"})
  BY DEF StartSync
<1>3. next \in Tasks /\ HasItsFile(next) /\ next.pc = "load" /\ next.kc_files = kc
  BY <1>1 DEF Tasks, HasItsFile, SyncPlaces
<1> HIDE DEF next
<1>4. TasksOK' /\ sync'[y] = next /\ \A z \in Syncs : z # y => sync'[z] = sync[z]
  BY <1>1, <1>2, <1>3, SyncGoes
<1>5. KeysTell'
  BY <1>1, <1>2, <1>3, <1>4, KeysStillTell
<1>6. Settles'
  <2> SUFFICES ASSUME settled' PROVE Settles'
    BY DEF Settles
  <2>1. Running' = {y}
    BY <1>2, <1>3, <1>4 DEF Running
  <2>2. Settling(next, asset_files, kc)
    BY <1>3 DEF Settling, Remembers
  <2>3. NamesAreUnique'
    BY <1>2 DEF NamesAreUnique, Live
  <2>4. QED
    BY <1>2, <1>4, <2>1, <2>2, <2>3 DEF Settles
<1>7. settled' \in BOOLEAN
  BY <1>2
<1>8. FilesOK'
  BY <1>1, <1>2 DEF FilesOK, Live
<1>9. QED
  BY <1>1, <1>2, <1>4, <1>5, <1>6, <1>7, <1>8 DEF MediaInv, MediaShape

LEMMA LoadFilesKeeps == ASSUME MediaInv, NEW y \in Syncs, LoadFiles(y) PROVE MediaInv'
<1> DEFINE list == {CopyOf(f, asset_files) : f \in DOMAIN asset_files}
           next == [sync[y] EXCEPT !.pc = "next", !.todo = list]
<1>1. MediaShape /\ kc \in KcLists /\ FilesOK /\ TasksOK /\ KeysTell /\ Settles /\ sync[y] \in Tasks
  BY DEF MediaInv, MediaShape, TasksOK
<1>2. /\ SyncIs(y, next) /\ sync[y].pc = "load"
      /\ UNCHANGED <<asset_files, uploads, uploading, kc, directs, settled>>
  BY DEF LoadFiles, CopyOf
<1>3. list \subseteq MediaCopies
  <2>1. ASSUME NEW f \in DOMAIN asset_files PROVE CopyOf(f, asset_files) \in MediaCopies
    <3>1. asset_files[f] \in AssetFile /\ f \in Files
      BY <1>1, MediaAssumption DEF FilesOK, Files
    <3>2. QED
      BY <3>1 DEF CopyOf, MediaCopies, AssetFile
  <2>2. QED
    BY <2>1
<1> HIDE DEF list
<1>4. next \in Tasks /\ HasItsFile(next) /\ next.pc = "next" /\ next.todo = list
      /\ next.kc_files = sync[y].kc_files
  BY <1>1, <1>3 DEF Tasks, HasItsFile, SyncPlaces
<1> HIDE DEF next
<1>5. TasksOK' /\ sync'[y] = next /\ \A z \in Syncs : z # y => sync'[z] = sync[z]
  BY <1>1, <1>2, <1>4, SyncGoes
<1>6. KeysTell'
  BY <1>1, <1>2, <1>4, <1>5, KeysStillTell
<1>7. ASSUME Settling(sync[y], asset_files, kc) PROVE Settling(next, asset_files, kc)
  <2>1. Remembers(next, kc)
    BY <1>2, <1>4, <1>7 DEF Settling, Remembers
  <2>2. ListIsTrue(next, asset_files)
    BY <1>4 DEF ListIsTrue, list, CopyOf
  <2>3. RowsAreMet(next, asset_files, kc)
    BY <1>4 DEF RowsAreMet, list
  <2>4. FilesAreMet(next, asset_files, kc)
    BY <1>2, <1>4, <1>7 DEF FilesAreMet, Settling
  <2>5. FileInHand(next, kc)
    BY <1>4 DEF FileInHand
  <2>6. QED
    BY <1>4, <2>1, <2>2, <2>3, <2>4, <2>5 DEF Settling
<1>8. y \in Running
  BY <1>2 DEF Running
<1>9. Settles'
  <2>1. NamesAreUnique => NamesAreUnique'
    BY <1>2 DEF NamesAreUnique, Live
  <2>2. QED
    BY <1>1, <1>2, <1>4, <1>5, <1>7, <1>8, <2>1, AloneStep
<1>10. FilesOK'
  BY <1>1, <1>2 DEF FilesOK, Live
<1>11. QED
  BY <1>1, <1>2, <1>5, <1>6, <1>9, <1>10 DEF MediaInv, MediaShape

LEMMA KillSyncKeeps == ASSUME MediaInv, NEW y \in Syncs, KillSync(y) PROVE MediaInv'
<1>1. MediaShape /\ kc \in KcLists /\ FilesOK /\ TasksOK /\ KeysTell
  BY DEF MediaInv, MediaShape
<1>2. /\ SyncIs(y, Ended) /\ UNCHANGED <<asset_files, uploads, uploading, kc, directs>>
      /\ ~settled' /\ settled' \in BOOLEAN
  BY DEF KillSync
<1>3. TasksOK' /\ sync'[y] = Ended /\ \A z \in Syncs : z # y => sync'[z] = sync[z]
  BY <1>1, <1>2, EndedFields, SyncGoes
<1>4. KeysTell'
  BY <1>1, <1>2, <1>3, EndedFields, KeysStillTell
<1>5. FilesOK' /\ Settles'
  BY <1>1, <1>2 DEF FilesOK, Live, Settles
<1>6. QED
  BY <1>1, <1>2, <1>3, <1>4, <1>5 DEF MediaInv, MediaShape

\* A step of a task that changes KoBoCAT's files, and not KPI's.
LEMMA RequestKeeps ==
    ASSUME MediaInv, NEW y \in Running, UNCHANGED <<asset_files, uploads, uploading, directs, settled>>,
           kc' \in KcLists, TasksOK', KeysTell', sync'[y].pc # "queued",
           \A z \in Syncs : z # y => sync'[z] = sync[z],
           settled /\ Settling(sync[y], asset_files, kc) =>
             IF sync'[y].pc = "done" THEN Mirrored' ELSE Settling(sync'[y], asset_files, kc')
    PROVE  MediaInv'
<1>1. MediaShape /\ FilesOK /\ TasksOK /\ Settles
  BY DEF MediaInv, MediaShape
<1>2. FilesOK'
  BY <1>1 DEF FilesOK, Live
<1>3. Settles'
  <2>1. NamesAreUnique => NamesAreUnique'
    BY DEF NamesAreUnique, Live
  <2>2. QED
    BY <1>1, <2>1, AloneStep
<1>4. QED
  BY <1>1, <1>2, <1>3 DEF MediaInv, MediaShape

LEMMA NextRemembers ==
    ASSUME NEW j, NEW k, Remembers(j, k), j.pc = "next"
    PROVE  \A n \in DOMAIN j.kc_files : n \in DOMAIN k /\ k[n] = j.kc_files[n]
  BY DEF Remembers

\* What is on the list, and live, has no file in KoBoCAT that is off it.
LEMMA ListedIsAbsent ==
    ASSUME NamesAreUnique, NEW j, Settling(j, asset_files, kc), j.pc = "next",
           NEW file \in j.todo, ~file.deleted, file.name \notin DOMAIN j.kc_files
    PROVE  file.name \notin DOMAIN kc
<1> SUFFICES ASSUME file.name \in DOMAIN kc PROVE FALSE
  OBVIOUS
<1>1. ListIsTrue(j, asset_files) /\ FilesAreMet(j, asset_files, kc)
  BY DEF Settling
<1>2. file.f \in DOMAIN asset_files /\ file = CopyOf(file.f, asset_files)
  BY <1>1 DEF ListIsTrue
<1>3. file.name = asset_files[file.f].name /\ file.deleted = asset_files[file.f].deleted
  BY <1>2 DEF CopyOf
<1>4. PICK f \in DOMAIN asset_files :
        ~asset_files[f].deleted /\ asset_files[f].name = file.name /\ CopyOf(f, asset_files) \notin j.todo
  BY <1>1 DEF FilesAreMet
<1>5. f = file.f
  BY <1>2, <1>3, <1>4 DEF NamesAreUnique, Live
<1>6. QED
  BY <1>2, <1>4, <1>5

LEMMA SyncAbsentKeeps ==
    ASSUME MediaInv, NEW y \in Syncs, sync[y].pc = "next", NEW file \in sync[y].todo,
           SyncAbsent(y, file), UNCHANGED <<asset_files, uploads, uploading, directs, settled>>
    PROVE  MediaInv'
<1> DEFINE j == sync[y]
           p == IF file.deleted THEN "vacuum" ELSE "post"
           next == [j EXCEPT !.pc = p, !.file = file]
<1>1. MediaShape /\ kc \in KcLists /\ FilesOK /\ TasksOK /\ KeysTell /\ j \in Tasks /\ file \in MediaCopies
  BY DEF MediaInv, MediaShape, TasksOK, Tasks
<1>2. SyncIs(y, next) /\ kc' = kc /\ file.name \notin DOMAIN j.kc_files
  BY DEF SyncAbsent
<1>3. p \in SyncPlaces
  BY DEF SyncPlaces
<1>4. /\ next \in Tasks /\ HasItsFile(next) /\ next.pc = p /\ next.file = file
      /\ next.kc_files = j.kc_files /\ next.todo = j.todo
  BY <1>1, <1>3 DEF Tasks, HasItsFile
<1> HIDE DEF next
<1>5. TasksOK' /\ sync'[y] = next /\ \A z \in Syncs : z # y => sync'[z] = sync[z]
  BY <1>1, <1>2, <1>4, SyncGoes
<1>6. KeysTell'
  BY <1>1, <1>2, <1>4, <1>5, KeysStillTell
<1>7. ASSUME settled, Settling(j, asset_files, kc) PROVE Settling(next, asset_files, kc)
  <2>1. Remembers(next, kc)
    BY <1>4, <1>7, NextRemembers DEF Settling, Remembers
  <2>2. ListIsTrue(next, asset_files)
    BY <1>4, <1>7 DEF Settling, ListIsTrue
  <2>3. RowsAreMet(next, asset_files, kc)
    BY <1>4, <1>7 DEF Settling, RowsAreMet
  <2>4. FilesAreMet(next, asset_files, kc)
    BY <1>4, <1>7 DEF Settling, FilesAreMet
  <2>5. ~file.deleted => file.name \notin DOMAIN kc
    BY <1>1, <1>2, <1>7, ListedIsAbsent DEF MediaInv, Settles
  <2>6. FileInHand(next, kc)
    BY <1>2, <1>4, <2>5 DEF FileInHand
  <2>7. QED
    BY <1>4, <2>1, <2>2, <2>3, <2>4, <2>6 DEF Settling
<1>8. y \in Running /\ sync'[y].pc \notin {"queued", "done"}
  BY <1>4, <1>5 DEF Running
<1>9. QED
  BY <1>1, <1>2, <1>5, <1>6, <1>7, <1>8, RequestKeeps

\* KoBoCAT has the very file.
LEMMA SameFileKeeps ==
    ASSUME MediaInv, NEW y \in Syncs, sync[y].pc = "next", NEW file \in sync[y].todo,
           file.name \in DOMAIN sync[y].kc_files, ~file.deleted,
           file.hash = sync[y].kc_files[file.name].hash,
           SyncIs(y, Handled(sync[y], file)), UNCHANGED kc,
           UNCHANGED <<asset_files, uploads, uploading, directs, settled>>
    PROVE  MediaInv'
<1> DEFINE j == sync[y]
           next == Handled(j, file)
<1>1. MediaShape /\ kc \in KcLists /\ FilesOK /\ TasksOK /\ KeysTell /\ j \in Tasks
  BY DEF MediaInv, MediaShape, TasksOK
<1>2. /\ next \in Tasks /\ HasItsFile(next) /\ next.pc = "next" /\ next.todo = j.todo \ {file}
      /\ next.kc_files = Cut(j.kc_files, file.name)
  BY <1>1, HandledFields
<1> HIDE DEF next
<1>3. /\ DOMAIN next.kc_files = DOMAIN j.kc_files \ {file.name}
      /\ \A n \in DOMAIN next.kc_files : next.kc_files[n] = j.kc_files[n]
  BY <1>2 DEF Cut
<1>4. TasksOK' /\ sync'[y] = next /\ \A z \in Syncs : z # y => sync'[z] = sync[z]
  BY <1>1, <1>2, SyncGoes DEF next
<1>5. KeysTell'
  BY <1>1, <1>3, <1>4, KeysStillTell
<1>6. ASSUME Settling(j, asset_files, kc) PROVE Settling(next, asset_files, kc)
  <2>0. \A n \in DOMAIN j.kc_files : n \in DOMAIN kc /\ kc[n] = j.kc_files[n]
    BY <1>6, NextRemembers DEF Settling
  <2>1. Remembers(next, kc)
    BY <1>3, <2>0 DEF Remembers
  <2>2. ListIsTrue(next, asset_files)
    BY <1>2, <1>6 DEF Settling, ListIsTrue
  <2>3. file.f \in DOMAIN asset_files /\ file = CopyOf(file.f, asset_files)
    BY <1>6 DEF Settling, ListIsTrue
  <2>4. /\ file.name = asset_files[file.f].name /\ file.deleted = asset_files[file.f].deleted
        /\ file.hash = asset_files[file.f].hash
    BY <2>3 DEF CopyOf
  <2>5. RowsAreMet(next, asset_files, kc)
    <3> SUFFICES ASSUME NEW f \in DOMAIN asset_files, CopyOf(f, asset_files) \notin next.todo
                 PROVE  /\ ~asset_files[f].deleted
                        /\ asset_files[f].name \in DOMAIN kc /\ asset_files[f].name \notin DOMAIN next.kc_files
                        /\ kc[asset_files[f].name].hash = asset_files[f].hash
      BY DEF RowsAreMet
    <3>1. CASE CopyOf(f, asset_files) = file
      <4>1. file.name = asset_files[f].name /\ file.deleted = asset_files[f].deleted
            /\ file.hash = asset_files[f].hash
        BY <3>1 DEF CopyOf
      <4>2. QED
        BY <1>3, <2>0, <4>1
    <3>2. CASE CopyOf(f, asset_files) # file
      BY <1>2, <1>3, <1>6, <3>2 DEF Settling, RowsAreMet
    <3>3. QED
      BY <3>1, <3>2
  <2>6. FilesAreMet(next, asset_files, kc)
    BY <1>2, <1>3, <1>6, <2>3, <2>4 DEF Settling, FilesAreMet
  <2>7. FileInHand(next, kc)
    BY <1>2 DEF FileInHand
  <2>8. QED
    BY <1>2, <2>1, <2>2, <2>5, <2>6, <2>7 DEF Settling
<1>7. y \in Running /\ sync'[y].pc \notin {"queued", "done"}
  BY <1>2, <1>4 DEF Running
<1>8. QED
  BY <1>1, <1>4, <1>5, <1>6, <1>7, RequestKeeps

\* A file is removed from KoBoCAT, to be replaced or with its row.
LEMMA RemovalKeeps ==
    ASSUME MediaInv, NEW y \in Syncs, sync[y].pc = "next", NEW file \in sync[y].todo,
           file.name \in DOMAIN sync[y].kc_files, NEW p \in {"post", "vacuum"},
           p = "post" => ~file.deleted,
           p = "vacuum" => file.deleted /\ sync[y].kc_files[file.name].from_kpi,
           RequestDelete(y, file.name, [sync[y] EXCEPT !.pc = p, !.file = file]),
           UNCHANGED <<asset_files, uploads, uploading, directs, settled>>
    PROVE  MediaInv'
<1> DEFINE j == sync[y]
           next == [j EXCEPT !.pc = p, !.file = file]
           name == file.name
<1>1. MediaShape /\ kc \in KcLists /\ FilesOK /\ TasksOK /\ KeysTell /\ j \in Tasks /\ file \in MediaCopies
  BY DEF MediaInv, MediaShape, TasksOK, Tasks
<1>2. p \in SyncPlaces
  BY DEF SyncPlaces
<1>3. /\ next \in Tasks /\ HasItsFile(next) /\ next.pc = p /\ next.file = file
      /\ next.kc_files = j.kc_files /\ next.todo = j.todo
  BY <1>1, <1>2 DEF Tasks, HasItsFile
<1> HIDE DEF next
<1>4. RequestDelete(y, name, next)
  BY DEF next
<1>5. /\ kc' \in KcLists /\ TasksOK' /\ KeysTell'
      /\ sync'[y] \in {next, Ended} /\ \A z \in Syncs : z # y => sync'[z] = sync[z]
      /\ name \in DOMAIN kc /\ kc[name] = j.kc_files[name] => sync'[y] = next /\ kc' = Cut(kc, name)
  BY <1>1, <1>3, <1>4, DeleteIsSound
<1>6. ASSUME Settling(j, asset_files, kc) PROVE sync'[y] = next /\ Settling(next, asset_files, kc')
  <2>0. \A n \in DOMAIN j.kc_files : n \in DOMAIN kc /\ kc[n] = j.kc_files[n]
    BY <1>6, NextRemembers DEF Settling
  <2>1. sync'[y] = next /\ kc' = Cut(kc, name)
    BY <1>5, <2>0
  <2>2. DOMAIN kc' = DOMAIN kc \ {name} /\ \A n \in DOMAIN kc' : kc'[n] = kc[n]
    BY <2>1 DEF Cut
  <2>3. Remembers(next, kc')
    BY <1>3, <2>0, <2>2 DEF Remembers
  <2>4. ListIsTrue(next, asset_files)
    BY <1>3, <1>6 DEF Settling, ListIsTrue
  <2>5. RowsAreMet(next, asset_files, kc')
    BY <1>3, <1>6, <2>2 DEF Settling, RowsAreMet
  <2>6. FilesAreMet(next, asset_files, kc')
    BY <1>3, <1>6, <2>2 DEF Settling, FilesAreMet
  <2>7. FileInHand(next, kc')
    BY <1>3, <2>2 DEF FileInHand
  <2>8. QED
    BY <1>3, <2>1, <2>3, <2>4, <2>5, <2>6, <2>7 DEF Settling
<1>7. y \in Running /\ sync'[y].pc # "queued"
  BY <1>3, <1>5, EndedFields DEF Running
<1>8. QED
  BY <1>3, <1>5, <1>6, <1>7, RequestKeeps

\* It is KoBoCAT's own, and stays.
LEMMA SparingKeeps ==
    ASSUME MediaInv, NEW y \in Syncs, sync[y].pc = "next", NEW file \in sync[y].todo,
           file.name \in DOMAIN sync[y].kc_files, file.deleted,
           ~sync[y].kc_files[file.name].from_kpi,
           SyncIs(y, [sync[y] EXCEPT !.pc = "vacuum", !.file = file]), UNCHANGED kc,
           UNCHANGED <<asset_files, uploads, uploading, directs, settled>>
    PROVE  MediaInv'
<1> DEFINE j == sync[y]
           next == [j EXCEPT !.pc = "vacuum", !.file = file]
<1>1. MediaShape /\ kc \in KcLists /\ FilesOK /\ TasksOK /\ KeysTell /\ j \in Tasks /\ file \in MediaCopies
  BY DEF MediaInv, MediaShape, TasksOK, Tasks
<1>2. /\ next \in Tasks /\ HasItsFile(next) /\ next.pc = "vacuum" /\ next.file = file
      /\ next.kc_files = j.kc_files /\ next.todo = j.todo
  BY <1>1 DEF Tasks, HasItsFile, SyncPlaces
<1>3. SyncIs(y, next)
  OBVIOUS
<1> HIDE DEF next
<1>4. TasksOK' /\ sync'[y] = next /\ \A z \in Syncs : z # y => sync'[z] = sync[z]
  BY <1>1, <1>2, <1>3, SyncGoes
<1>5. KeysTell'
  BY <1>1, <1>2, <1>4, KeysStillTell
<1>6. ASSUME Settling(j, asset_files, kc) PROVE Settling(next, asset_files, kc)
  <2>1. Remembers(next, kc)
    BY <1>2, <1>6, NextRemembers DEF Settling, Remembers
  <2>2. ListIsTrue(next, asset_files) /\ RowsAreMet(next, asset_files, kc) /\ FilesAreMet(next, asset_files, kc)
    BY <1>2, <1>6 DEF Settling, ListIsTrue, RowsAreMet, FilesAreMet
  <2>3. FileInHand(next, kc)
    BY <1>2 DEF FileInHand
  <2>4. QED
    BY <1>2, <2>1, <2>2, <2>3 DEF Settling
<1>7. y \in Running /\ sync'[y].pc \notin {"queued", "done"}
  BY <1>2, <1>4 DEF Running
<1>8. QED
  BY <1>1, <1>4, <1>5, <1>6, <1>7, RequestKeeps

LEMMA SyncFileKeeps == ASSUME MediaInv, NEW y \in Syncs, SyncFile(y) PROVE MediaInv'
<1>1. sync[y].pc = "next" /\ UNCHANGED <<asset_files, uploads, uploading, directs, settled>>
  BY DEF SyncFile
<1>2. PICK file \in First(sync[y].todo) :
        SyncAbsent(y, file) \/ SyncPresent(y, file) \/ SyncDeleted(y, file)
  BY DEF SyncFile
<1>3. file \in sync[y].todo
  BY DEF First
<1>4. CASE SyncAbsent(y, file)
  BY <1>1, <1>3, <1>4, SyncAbsentKeeps
<1>5. CASE SyncPresent(y, file)
  <2>1. file.name \in DOMAIN sync[y].kc_files /\ ~file.deleted
    BY <1>5 DEF SyncPresent
  <2>2. CASE file.hash = sync[y].kc_files[file.name].hash
    <3>1. SyncIs(y, Handled(sync[y], file)) /\ UNCHANGED kc
      BY <1>5, <2>2 DEF SyncPresent
    <3>2. QED
      BY <1>1, <1>3, <2>1, <2>2, <3>1, SameFileKeeps
  <2>3. CASE file.hash # sync[y].kc_files[file.name].hash
    <3>1. RequestDelete(y, file.name, [sync[y] EXCEPT !.pc = "post", !.file = file])
      BY <1>5, <2>3 DEF SyncPresent
    <3>2. QED
      BY <1>1, <1>3, <2>1, <3>1, RemovalKeeps
  <2>4. QED
    BY <2>2, <2>3
<1>6. CASE SyncDeleted(y, file)
  <2>1. file.name \in DOMAIN sync[y].kc_files /\ file.deleted
    BY <1>6 DEF SyncDeleted
  <2>2. CASE sync[y].kc_files[file.name].from_kpi
    <3>1. RequestDelete(y, file.name, [sync[y] EXCEPT !.pc = "vacuum", !.file = file])
      BY <1>6, <2>2 DEF SyncDeleted
    <3>2. QED
      BY <1>1, <1>3, <2>1, <2>2, <3>1, RemovalKeeps
  <2>3. CASE ~sync[y].kc_files[file.name].from_kpi
    <3>1. SyncIs(y, [sync[y] EXCEPT !.pc = "vacuum", !.file = file]) /\ UNCHANGED kc
      BY <1>6, <2>3 DEF SyncDeleted
    <3>2. QED
      BY <1>1, <1>3, <2>1, <2>3, <3>1, SparingKeeps
  <2>4. QED
    BY <2>2, <2>3
<1>7. QED
  BY <1>2, <1>4, <1>5, <1>6

LEMMA PostFileKeeps == ASSUME MediaInv, NEW y \in Syncs, PostFile(y) PROVE MediaInv'
<1> DEFINE j == sync[y]
           file == j.file
           next == Handled(j, file)
<1>1. MediaShape /\ kc \in KcLists /\ FilesOK /\ TasksOK /\ KeysTell /\ j \in Tasks
      /\ j.pc = "post" /\ file \in MediaCopies
  BY DEF MediaInv, MediaShape, TasksOK, HasItsFile, PostFile
<1>2. RequestPost(y, file, next) /\ UNCHANGED <<asset_files, uploads, uploading, directs, settled>>
  BY DEF PostFile
<1>3. /\ next \in Tasks /\ HasItsFile(next) /\ next.pc = "next" /\ next.todo = j.todo \ {file}
      /\ next.kc_files = Cut(j.kc_files, file.name)
  BY <1>1, HandledFields
<1> HIDE DEF next
<1>4. /\ DOMAIN next.kc_files = DOMAIN j.kc_files \ {file.name}
      /\ \A n \in DOMAIN next.kc_files : next.kc_files[n] = j.kc_files[n]
  BY <1>3 DEF Cut
<1>5. /\ kc' \in KcLists /\ TasksOK' /\ KeysTell'
      /\ sync'[y] \in {next, Ended} /\ \A z \in Syncs : z # y => sync'[z] = sync[z]
      /\ \A m \in DOMAIN kc : m \in DOMAIN kc' /\ kc'[m] = kc[m]
      /\ file.name \notin DOMAIN kc /\ file.f \in DOMAIN asset_files =>
           /\ sync'[y] = next /\ DOMAIN kc' = DOMAIN kc \cup {file.name}
           /\ kc'[file.name].hash = file.hash
  <2>1. \A m \in DOMAIN next.kc_files :
          m \in DOMAIN sync[y].kc_files /\ next.kc_files[m] = sync[y].kc_files[m]
    BY <1>4
  <2>2. y \in Syncs /\ MediaShape /\ KeysTell /\ file \in MediaCopies /\ next \in Tasks /\ HasItsFile(next)
        /\ RequestPost(y, file, next)
    BY <1>1, <1>2, <1>3
  <2> HIDE DEF file, j
  <2>3. QED
    BY <2>1, <2>2, PostIsSound
<1>6. ASSUME Settling(j, asset_files, kc) PROVE sync'[y] = next /\ Settling(next, asset_files, kc')
  <2>1. /\ file \in j.todo /\ ~file.deleted /\ file.name \notin DOMAIN kc
        /\ Remembers(j, kc) /\ ListIsTrue(j, asset_files)
        /\ RowsAreMet(j, asset_files, kc) /\ FilesAreMet(j, asset_files, kc)
    BY <1>1, <1>6 DEF Settling, FileInHand
  <2>2. file.f \in DOMAIN asset_files /\ file = CopyOf(file.f, asset_files)
    BY <2>1 DEF ListIsTrue
  <2>3. /\ file.name = asset_files[file.f].name /\ file.deleted = asset_files[file.f].deleted
    BY <2>2 DEF CopyOf
  <2>4. /\ sync'[y] = next /\ DOMAIN kc' = DOMAIN kc \cup {file.name} /\ kc'[file.name].hash = file.hash
    BY <1>5, <2>1, <2>2
  <2>5. Remembers(next, kc')
    <3>1. ASSUME NEW n \in DOMAIN next.kc_files PROVE n \in DOMAIN kc' /\ kc'[n] = next.kc_files[n]
      <4>1. n \in DOMAIN j.kc_files /\ n # file.name
        BY <1>4
      <4>2. n \in DOMAIN kc /\ kc[n] = j.kc_files[n]
        BY <2>1, <4>1 DEF Remembers
      <4>3. QED
        BY <1>4, <1>5, <4>2
    <3>2. QED
      BY <3>1 DEF Remembers
  <2>6. ListIsTrue(next, asset_files)
    BY <1>3, <2>1 DEF ListIsTrue
  <2>7. RowsAreMet(next, asset_files, kc')
    <3> SUFFICES ASSUME NEW f \in DOMAIN asset_files, CopyOf(f, asset_files) \notin next.todo
                 PROVE  /\ ~asset_files[f].deleted
                        /\ asset_files[f].name \in DOMAIN kc' /\ asset_files[f].name \notin DOMAIN next.kc_files
                        /\ kc'[asset_files[f].name].hash = asset_files[f].hash
      BY DEF RowsAreMet
    <3>1. CASE CopyOf(f, asset_files) = file
      <4>1. file.name = asset_files[f].name /\ file.deleted = asset_files[f].deleted
            /\ file.hash = asset_files[f].hash
        BY <3>1 DEF CopyOf
      <4>2. QED
        BY <1>4, <2>1, <2>4, <4>1
    <3>2. CASE CopyOf(f, asset_files) # file
      <4>1. CopyOf(f, asset_files) \notin j.todo
        BY <1>3, <3>2
      <4>2. /\ ~asset_files[f].deleted
            /\ asset_files[f].name \in DOMAIN kc /\ asset_files[f].name \notin DOMAIN j.kc_files
            /\ kc[asset_files[f].name].hash = asset_files[f].hash
        BY <2>1, <4>1 DEF RowsAreMet
      <4>3. QED
        BY <1>4, <1>5, <4>2
    <3>3. QED
      BY <3>1, <3>2
  <2>8. FilesAreMet(next, asset_files, kc')
    <3> SUFFICES ASSUME NEW n \in DOMAIN kc', n \notin DOMAIN next.kc_files
                 PROVE  \E f \in DOMAIN asset_files :
                          ~asset_files[f].deleted /\ asset_files[f].name = n
                          /\ CopyOf(f, asset_files) \notin next.todo
      BY DEF FilesAreMet
    <3>1. CASE n = file.name
      BY <1>3, <2>1, <2>2, <2>3, <3>1
    <3>2. CASE n # file.name
      <4>1. n \in DOMAIN kc /\ n \notin DOMAIN j.kc_files
        BY <1>4, <2>4, <3>2
      <4>2. QED
        BY <1>3, <2>1, <4>1 DEF FilesAreMet
    <3>3. QED
      BY <3>1, <3>2
  <2>9. FileInHand(next, kc')
    BY <1>3 DEF FileInHand
  <2>10. QED
    BY <1>3, <2>4, <2>5, <2>6, <2>7, <2>8, <2>9 DEF Settling
<1>7. y \in Running /\ sync'[y].pc # "queued"
  BY <1>1, <1>3, <1>5, EndedFields DEF Running
<1>8. QED
  BY <1>2, <1>3, <1>5, <1>6, <1>7, RequestKeeps

LEMMA VacuumKeeps == ASSUME MediaInv, NEW y \in Syncs, Vacuum(y) PROVE MediaInv'
<1> DEFINE j == sync[y]
           file == j.file
           spared == file.name \in DOMAIN j.kc_files /\ ~j.kc_files[file.name].from_kpi
           next == IF spared THEN [j EXCEPT !.pc = "next", !.todo = @ \ {file}, !.file = NoFile]
                   ELSE Handled(j, file)
<1>1. MediaShape /\ kc \in KcLists /\ FilesOK /\ TasksOK /\ KeysTell /\ Settles /\ j \in Tasks
      /\ j.pc = "vacuum" /\ file \in MediaCopies
  BY DEF MediaInv, MediaShape, TasksOK, HasItsFile, Vacuum
<1>2. /\ asset_files' = Cut(asset_files, file.f) /\ SyncIs(y, next)
      /\ UNCHANGED <<uploads, uploading, kc, directs, settled>>
  BY DEF Vacuum
<1>3. /\ next \in Tasks /\ HasItsFile(next) /\ next.pc = "next" /\ next.todo = j.todo \ {file}
      /\ \A n \in DOMAIN next.kc_files : n \in DOMAIN j.kc_files /\ next.kc_files[n] = j.kc_files[n]
      /\ \A n \in DOMAIN j.kc_files : n # file.name \/ spared => n \in DOMAIN next.kc_files
      /\ file.name \in DOMAIN next.kc_files => spared
  <2>1. CASE spared
    BY <1>1, <2>1, SparedFields
  <2>2. CASE ~spared
    <3>1. /\ next \in Tasks /\ HasItsFile(next) /\ next.pc = "next" /\ next.todo = j.todo \ {file}
          /\ next.kc_files = Cut(j.kc_files, file.name)
      BY <1>1, <2>2, HandledFields
    <3> HIDE DEF next
    <3>2. QED
      BY <2>2, <3>1 DEF Cut
  <2>3. QED
    BY <2>1, <2>2
<1> HIDE DEF next
<1>4. TasksOK' /\ sync'[y] = next /\ \A z \in Syncs : z # y => sync'[z] = sync[z]
  BY <1>1, <1>2, <1>3, SyncGoes
<1>5. KeysTell'
  BY <1>1, <1>2, <1>3, <1>4, KeysStillTell
<1>6. /\ DOMAIN asset_files' = DOMAIN asset_files \ {file.f}
      /\ \A f \in DOMAIN asset_files' : asset_files'[f] = asset_files[f]
      /\ asset_files' = [f \in DOMAIN asset_files' |-> asset_files'[f]]
  BY <1>2 DEF Cut
<1>7. FilesOK'
  <2>1. \A f \in DOMAIN asset_files' : f \in DOMAIN asset_files /\ asset_files'[f] \in AssetFile
    BY <1>1, <1>6 DEF FilesOK
  <2>2. asset_files' \in [DOMAIN asset_files' -> AssetFile]
    BY <1>6, <2>1
  <2>3. QED
    BY <1>1, <1>2, <2>1, <2>2 DEF FilesOK
<1>8. ASSUME Settling(j, asset_files, kc) PROVE Settling(next, asset_files', kc')
  <2>1. /\ file \in j.todo /\ file.deleted
        /\ file.name \in DOMAIN j.kc_files /\ j.kc_files[file.name].from_kpi => file.name \notin DOMAIN kc
        /\ Remembers(j, kc) /\ ListIsTrue(j, asset_files)
        /\ RowsAreMet(j, asset_files, kc) /\ FilesAreMet(j, asset_files, kc)
    BY <1>1, <1>8 DEF Settling, FileInHand
  <2>2. file.f \in DOMAIN asset_files /\ file = CopyOf(file.f, asset_files)
    BY <2>1 DEF ListIsTrue
  <2>3. \A f \in DOMAIN asset_files' :
           CopyOf(f, asset_files') = CopyOf(f, asset_files) /\ f \in DOMAIN asset_files
           /\ CopyOf(f, asset_files) # file
    BY <1>6 DEF CopyOf
  <2>4. Remembers(next, kc')
    <3>1. ASSUME NEW n \in DOMAIN next.kc_files PROVE n \in DOMAIN kc /\ kc[n] = next.kc_files[n]
      <4>1. n \in DOMAIN j.kc_files /\ next.kc_files[n] = j.kc_files[n] /\ (n = file.name => spared)
        BY <1>3
      <4>2. ~(n = file.name /\ j.kc_files[n].from_kpi)
        BY <4>1
      <4>3. n \in DOMAIN kc /\ kc[n] = j.kc_files[n]
        BY <1>1, <2>1, <4>1, <4>2 DEF Remembers
      <4>4. QED
        BY <4>1, <4>3
    <3>2. QED
      BY <1>2, <3>1 DEF Remembers
  <2>5. ListIsTrue(next, asset_files')
    <3>1. ASSUME NEW g \in next.todo PROVE g.f \in DOMAIN asset_files' /\ g = CopyOf(g.f, asset_files')
      <4>1. g \in j.todo /\ g # file /\ g.f \in DOMAIN asset_files /\ g = CopyOf(g.f, asset_files)
        BY <1>3, <2>1 DEF ListIsTrue
      <4>2. g.f # file.f
        BY <2>2, <4>1
      <4>3. QED
        BY <1>6, <2>3, <4>1, <4>2
    <3>2. QED
      BY <3>1 DEF ListIsTrue
  <2>6. RowsAreMet(next, asset_files', kc')
    <3> SUFFICES ASSUME NEW f \in DOMAIN asset_files', CopyOf(f, asset_files') \notin next.todo
                 PROVE  /\ ~asset_files'[f].deleted
                        /\ asset_files'[f].name \in DOMAIN kc' /\ asset_files'[f].name \notin DOMAIN next.kc_files
                        /\ kc'[asset_files'[f].name].hash = asset_files'[f].hash
      BY DEF RowsAreMet
    <3>1. f \in DOMAIN asset_files /\ CopyOf(f, asset_files) \notin j.todo /\ asset_files'[f] = asset_files[f]
      BY <1>3, <1>6, <2>3
    <3>2. /\ ~asset_files[f].deleted
          /\ asset_files[f].name \in DOMAIN kc /\ asset_files[f].name \notin DOMAIN j.kc_files
          /\ kc[asset_files[f].name].hash = asset_files[f].hash
      BY <2>1, <3>1 DEF RowsAreMet
    <3>3. QED
      BY <1>2, <1>3, <3>1, <3>2
  <2>7. FilesAreMet(next, asset_files', kc')
    <3> SUFFICES ASSUME NEW n \in DOMAIN kc, n \notin DOMAIN next.kc_files
                 PROVE  \E f \in DOMAIN asset_files' :
                          ~asset_files'[f].deleted /\ asset_files'[f].name = n
                          /\ CopyOf(f, asset_files') \notin next.todo
      BY <1>2 DEF FilesAreMet
    <3>1. n \notin DOMAIN j.kc_files
      BY <1>3, <2>1
    <3>2. PICK f \in DOMAIN asset_files :
            ~asset_files[f].deleted /\ asset_files[f].name = n /\ CopyOf(f, asset_files) \notin j.todo
      BY <2>1, <3>1 DEF FilesAreMet
    <3>3. f # file.f
      BY <2>1, <2>2, <3>2
    <3>4. f \in DOMAIN asset_files' /\ asset_files'[f] = asset_files[f]
      BY <1>6, <3>3
    <3>5. QED
      BY <1>3, <2>3, <3>2, <3>4
  <2>8. FileInHand(next, kc')
    BY <1>3 DEF FileInHand
  <2>9. QED
    BY <1>3, <2>4, <2>5, <2>6, <2>7, <2>8 DEF Settling
<1>9. y \in Running
  BY <1>1 DEF Running
<1>10. Settles'
  <2>1. NamesAreUnique => NamesAreUnique'
    BY <1>6 DEF NamesAreUnique, Live
  <2>2. QED
    BY <1>1, <1>2, <1>3, <1>4, <1>8, <1>9, <2>1, AloneStep
<1>11. QED
  BY <1>1, <1>2, <1>4, <1>5, <1>7, <1>10 DEF MediaInv, MediaShape

LEMMA RemoveOrphanKeeps == ASSUME MediaInv, NEW y \in Syncs, RemoveOrphan(y) PROVE MediaInv'
<1> DEFINE j == sync[y]
           orphans == {n \in DOMAIN j.kc_files : j.kc_files[n].from_kpi}
<1>1. MediaShape /\ kc \in KcLists /\ FilesOK /\ TasksOK /\ KeysTell /\ j \in Tasks
      /\ j.pc = "next" /\ j.todo = {} /\ UNCHANGED <<asset_files, uploads, uploading, directs, settled>>
  BY DEF MediaInv, MediaShape, TasksOK, RemoveOrphan
<1>2. y \in Running
  BY <1>1 DEF Running
<1>3. CASE orphans = {}
  <2>1. SyncIs(y, Ended) /\ kc' = kc
    BY <1>3 DEF RemoveOrphan
  <2>2. TasksOK' /\ sync'[y] = Ended /\ \A z \in Syncs : z # y => sync'[z] = sync[z]
    BY <1>1, <2>1, SyncGoes, EndedFields
  <2>3. KeysTell'
    BY <1>1, <2>1, <2>2, KeysStillTell, EndedFields
  <2>4. ASSUME Settling(j, asset_files, kc) PROVE Mirrored'
    <3>1. RowsAreMet(j, asset_files, kc) /\ FilesAreMet(j, asset_files, kc) /\ Remembers(j, kc)
      BY <1>1, <2>4 DEF Settling
    <3>2. \A f \in DOMAIN asset_files :
            f \in Live /\ asset_files[f].name \in DOMAIN kc /\ kc[asset_files[f].name].hash = asset_files[f].hash
      BY <1>1, <3>1 DEF RowsAreMet, Live
    <3>3. ASSUME NEW n \in DOMAIN kc, kc[n].from_kpi PROVE \E f \in Live : asset_files[f].name = n
      <4>1. n \notin DOMAIN j.kc_files
        BY <1>1, <1>3, <3>1, <3>3, NextRemembers
      <4>2. QED
        BY <3>1, <4>1 DEF FilesAreMet, Live
    <3>4. QED
      BY <1>1, <2>1, <3>2, <3>3 DEF Mirrored, Live
  <2>5. QED
    BY <1>1, <1>2, <2>1, <2>2, <2>3, <2>4, EndedFields, RequestKeeps
<1>4. ASSUME NEW n \in orphans, RequestDelete(y, n, [j EXCEPT !.kc_files = Cut(@, n)])
      PROVE  MediaInv'
  <2> DEFINE next == [j EXCEPT !.kc_files = Cut(@, n)]
  <2>1. /\ next \in Tasks /\ HasItsFile(next) /\ next.pc = "next" /\ next.todo = j.todo
        /\ next.kc_files = Cut(j.kc_files, n)
    BY <1>1, ForgetsFields
  <2>2. RequestDelete(y, n, next)
    BY <1>4
  <2> HIDE DEF next
  <2>3. /\ DOMAIN next.kc_files = DOMAIN j.kc_files \ {n}
        /\ \A m \in DOMAIN next.kc_files : m \in DOMAIN sync[y].kc_files /\ next.kc_files[m] = sync[y].kc_files[m]
    BY <2>1 DEF Cut
  <2>4. /\ kc' \in KcLists /\ TasksOK' /\ KeysTell'
        /\ sync'[y] \in {next, Ended} /\ \A z \in Syncs : z # y => sync'[z] = sync[z]
        /\ n \in DOMAIN kc /\ kc[n] = j.kc_files[n] => sync'[y] = next /\ kc' = Cut(kc, n)
    BY <1>1, <2>1, <2>2, <2>3, DeleteIsSound
  <2>5. ASSUME Settling(j, asset_files, kc) PROVE sync'[y] = next /\ Settling(next, asset_files, kc')
    <3>1. /\ RowsAreMet(j, asset_files, kc) /\ FilesAreMet(j, asset_files, kc)
          /\ \A m \in DOMAIN j.kc_files : m \in DOMAIN kc /\ kc[m] = j.kc_files[m]
      BY <1>1, <2>5, NextRemembers DEF Settling
    <3>2. sync'[y] = next /\ kc' = Cut(kc, n)
      BY <2>4, <3>1
    <3>3. DOMAIN kc' = DOMAIN kc \ {n} /\ \A m \in DOMAIN kc' : kc'[m] = kc[m]
      BY <3>2 DEF Cut
    <3>4. Remembers(next, kc') /\ ListIsTrue(next, asset_files) /\ FileInHand(next, kc')
      BY <1>1, <2>1, <2>3, <3>1, <3>3 DEF Remembers, ListIsTrue, FileInHand
    <3>5. RowsAreMet(next, asset_files, kc')
      BY <1>1, <2>1, <2>3, <3>1, <3>3 DEF RowsAreMet
    <3>6. FilesAreMet(next, asset_files, kc')
      BY <2>1, <2>3, <3>1, <3>3 DEF FilesAreMet
    <3>7. QED
      BY <2>1, <3>2, <3>4, <3>5, <3>6 DEF Settling
  <2>6. sync'[y].pc # "queued"
    BY <2>1, <2>4, EndedFields
  <2>7. QED
    BY <1>1, <1>2, <2>1, <2>4, <2>5, <2>6, RequestKeeps
<1>5. QED
  BY <1>3, <1>4 DEF RemoveOrphan

LEMMA InitMedia == MediaInit => MediaInv
<1> SUFFICES ASSUME MediaInit PROVE MediaInv
  OBVIOUS
<1>1. DOMAIN << >> = {} /\ << >> \in [DOMAIN << >> -> KcFile] /\ << >> \in [DOMAIN << >> -> AssetFile]
  OBVIOUS
<1>2. << >> \in KcLists
  BY <1>1, KcListFacts
<1>3. TasksOK
  BY <1>2 DEF MediaInit, TasksOK, Tasks, HasItsFile, SyncPlaces
<1>4. FilesOK
  BY <1>1, MediaAssumption DEF MediaInit, FilesOK, Live
<1>5. KeysTell /\ Settles
  BY <1>1 DEF MediaInit, KeysTell, Settles
<1>6. QED
  <2>1. kc \in KcLists
    BY <1>2 DEF MediaInit
  <2>2. directs \in 0 .. MaxDirect
    BY MediaAssumption DEF MediaInit
  <2>3. settled \in BOOLEAN
    BY DEF MediaInit
  <2>4. QED
    BY <1>3, <1>4, <1>5, <2>1, <2>2, <2>3 DEF MediaInv, MediaShape

LEMMA NextMedia == MediaInv /\ [MediaNext]_mediaVars => MediaInv'
<1> SUFFICES ASSUME MediaInv, [MediaNext]_mediaVars PROVE MediaInv'
  OBVIOUS
<1>1. CASE UNCHANGED mediaVars
  BY <1>1 DEF mediaVars, MediaInv, MediaShape, FilesOK, Live, TasksOK, HasItsFile, KeysTell, Settles,
              Running, Mirrored, NamesAreUnique
<1>2. CASE MediaNext
  BY <1>2, ValidateUploadKeeps, SaveUploadKeeps, UploadToKcKeeps, DeleteFromKcKeeps, DeleteFileKeeps, StartSyncKeeps,
     LoadFilesKeeps, SyncFileKeeps, PostFileKeeps, VacuumKeeps, RemoveOrphanKeeps, KillSyncKeeps
     DEF MediaNext
<1>3. QED
  BY <1>1, <1>2

\* The rows, KoBoCAT's files, and what every task has read, keep their types; a new
\* file always gets a key that no task remembers.
THEOREM MediaTypeCorrect == MediaSpec => []MediaTypeOK
  BY InitMedia, NextMedia, ShapeIsTyped, PTL DEF MediaSpec, MediaInv

\* `sync_media_files`: a task that runs alone to its end leaves in KoBoCAT the live
\* files of KPI, and of KPI no others, whatever it found there, unless two of the
\* live files have one name (overlapping uploads leave them so).
THEOREM AloneIsMirrored == MediaSpec => []MirrorsWhenAlone
<1>1. MediaInv => MirrorsWhenAlone
  BY DEF MediaInv, Settles, MirrorsWhenAlone, Running
<1>2. QED
  BY <1>1, InitMedia, NextMedia, PTL DEF MediaSpec

\* A file that KoBoCAT's users uploaded goes, by KPI's doing, only to make room for one
\* that the same task posts next.
LEMMA OnlyMakesRoom ==
    ASSUME MediaInv, MediaNext, NEW n \in DOMAIN kc, ~kc[n].from_kpi, directs' = directs,
           ~(n \in DOMAIN kc' /\ kc'[n].pk = kc[n].pk)
    PROVE  \E y \in Syncs : sync'[y].pc = "post" /\ sync'[y].file.name = n
<1>1. MediaShape /\ KeysTell /\ kc' # kc
  BY DEF MediaInv
<1>2. directs # directs + 1
  BY <1>1, MediaAssumption DEF MediaShape
<1>3. PICK y \in Syncs : SyncFile(y) \/ PostFile(y) \/ RemoveOrphan(y)
  BY <1>1, <1>2 DEF MediaNext, ValidateUpload, SaveUpload, UploadToKc, DeleteFromKc, DeleteFile, StartSync, LoadFiles,
                    Vacuum, KillSync
<1> DEFINE j == sync[y]
<1>4. j \in Tasks /\ HasItsFile(j)
  BY <1>1 DEF MediaShape, TasksOK
<1>5. CASE SyncFile(y)
  <2>1. PICK file \in First(j.todo) : SyncAbsent(y, file) \/ SyncPresent(y, file) \/ SyncDeleted(y, file)
    BY <1>5 DEF SyncFile
  <2>2. file \in MediaCopies
    BY <1>4 DEF First, Tasks
  <2>3. CASE SyncPresent(y, file)
    <3> DEFINE next == [j EXCEPT !.pc = "post", !.file = file]
    <3>1. file.name \in DOMAIN sync[y].kc_files /\ RequestDelete(y, file.name, next)
      BY <1>1, <2>3 DEF SyncPresent
    <3>2. next \in Tasks /\ HasItsFile(next) /\ next.pc = "post" /\ next.file = file /\ next.kc_files = j.kc_files
      BY <1>4, <2>2 DEF Tasks, HasItsFile, SyncPlaces
    <3> HIDE DEF next
    <3>3. n = file.name /\ sync'[y] = next
      BY <1>1, <3>1, <3>2, DeleteIsSound
    <3>4. QED
      BY <3>2, <3>3
  <2>4. CASE SyncDeleted(y, file)
    <3> DEFINE next == [j EXCEPT !.pc = "vacuum", !.file = file]
    <3>1. /\ file.name \in DOMAIN sync[y].kc_files /\ j.kc_files[file.name].from_kpi
          /\ RequestDelete(y, file.name, next)
      BY <1>1, <2>4 DEF SyncDeleted
    <3>2. next \in Tasks /\ HasItsFile(next) /\ next.kc_files = j.kc_files
      BY <1>4, <2>2 DEF Tasks, HasItsFile, SyncPlaces
    <3> HIDE DEF next
    <3>3. n = file.name /\ kc[n] = j.kc_files[n]
      BY <1>1, <3>1, <3>2, DeleteIsSound
    <3>4. QED
      BY <3>1, <3>3
  <2>5. QED
    BY <1>1, <2>1, <2>3, <2>4 DEF SyncAbsent
<1>6. CASE PostFile(y)
  BY <1>6, <1>1 DEF PostFile, RequestPost, Put
<1>7. CASE RemoveOrphan(y)
  <2> DEFINE orphans == {m \in DOMAIN j.kc_files : j.kc_files[m].from_kpi}
  <2>1. PICK m \in orphans : RequestDelete(y, m, [j EXCEPT !.kc_files = Cut(@, m)])
    BY <1>1, <1>7 DEF RemoveOrphan
  <2> DEFINE next == [j EXCEPT !.kc_files = Cut(@, m)]
  <2>2. j.pc = "next"
    BY <1>7 DEF RemoveOrphan
  <2>3. next \in Tasks /\ HasItsFile(next) /\ next.kc_files = Cut(j.kc_files, m)
    BY <1>4, <2>2, ForgetsFields
  <2>4. RequestDelete(y, m, next)
    BY <2>1
  <2> HIDE DEF next
  <2>5. \A x \in DOMAIN next.kc_files : x \in DOMAIN sync[y].kc_files /\ next.kc_files[x] = sync[y].kc_files[x]
    BY <2>3 DEF Cut
  <2>6. n = m /\ kc[n] = j.kc_files[n]
    BY <1>1, <2>3, <2>4, <2>5, DeleteIsSound
  <2>7. QED
    BY <2>6
<1>8. QED
  BY <1>3, <1>5, <1>6, <1>7

\* Whatever overlaps, and whatever KoBoCAT refuses, a file that was uploaded there is
\* removed only to put KPI's of that name in its place.
THEOREM DirectFilesAreKept == MediaSpec => DirectFilesStay
<1>1. ASSUME MediaInv, [MediaNext]_mediaVars
      PROVE  [\A n \in DOMAIN kc :
                ~kc[n].from_kpi /\ directs' = directs /\ ~(n \in DOMAIN kc' /\ kc'[n].pk = kc[n].pk)
                  => \E y \in Syncs : sync'[y].pc = "post" /\ sync'[y].file.name = n]_mediaVars
  BY <1>1, OnlyMakesRoom DEF mediaVars
<1>2. QED
  BY <1>1, InitMedia, NextMedia, PTL DEF MediaSpec, DirectFilesStay
=============================================================================
