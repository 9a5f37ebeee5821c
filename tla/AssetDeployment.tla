-------------------------- MODULE AssetDeployment --------------------------
(***************************************************************************)
(* A survey, its versions and the form KoBoCAT serves from it.  Editing,   *)
(* deploying, archiving and looking up the Enketo links are requests with  *)
(* no transaction around them: each loads the asset, talks to KoBoCAT or   *)
(* Enketo, and writes the asset back, whole or in part.                    *)
(***************************************************************************)
EXTENDS Naturals, SequencesExt

CONSTANTS
    Requests,      \* the requests that may be in progress at a time
    Contents,      \* contents of the survey
    MaxVersions,   \* bound: the versions
    MaxBegun       \* bound: the requests in all

ASSUME DeploymentAssumption == MaxVersions \in Nat \ {0} /\ MaxBegun \in Nat

VARIABLES
    asset,        \* the row: content, _deployment_data and _deployment_status
    versions,     \* by date_modified: the last is `latest_version`
    form,         \* KoBoCAT's: content, __version__ and `downloadable`
    begun,        \* how many requests there have been
    request,      \* what each request does, and its copy of the asset
    jostled,      \* history: two requests overlapped, or one broke off
    unversioned   \* history: contents saved by requests that broke off before
                  \* they made the version

deploymentVars == <<asset, versions, form, begun, request, jostled, unversioned>>

Uids == 0 .. MaxVersions
AssetStatuses == {"draft", "deployed", "archived"}
AssetRow == [content: Contents, backend: BOOLEAN, active: BOOLEAN, status: AssetStatuses]
VersionRow == [uid: Uids, content: Contents, deployed: BOOLEAN]
Form == [exists: BOOLEAN, content: Contents, version: Uids, active: BOOLEAN]
AssetCopy == [content: Contents, backend: BOOLEAN, active: BOOLEAN]
NoRequest == [at |-> "idle"]
RequestPlaces ==
    {"edit", "version", "build", "send", "choose", "mark", "store", "patch",
     "activate", "links"}

\* `uid` is the version a request has in hand, `copy` the asset it has loaded.
DeploymentTypeOK ==
    /\ asset \in AssetRow
    /\ versions \in Seq(VersionRow) /\ Len(versions) \in 1 .. MaxVersions
    /\ form \in Form
    /\ begun \in 0 .. MaxBegun
    /\ request \in [Requests -> {NoRequest} \cup [at: RequestPlaces, copy: AssetCopy, uid: Uids]]
    /\ jostled \in BOOLEAN
    /\ unversioned \subseteq Contents

DeploymentInit ==
    \E c \in Contents :
        /\ asset = [content |-> c, backend |-> FALSE, active |-> FALSE, status |-> "draft"]
        /\ versions = <<[uid |-> 1, content |-> c, deployed |-> FALSE]>>
        /\ form = [exists |-> FALSE, content |-> c, version |-> 0, active |-> FALSE]
        /\ begun = 0
        /\ request = [p \in Requests |-> NoRequest]
        /\ jostled = FALSE
        /\ unversioned = {}

----------------------------------------------------------------------------
LatestVersion == Last(versions)
DeployedVersions == {i \in DOMAIN versions : versions[i].deployed}
LatestDeployed == versions[CHOOSE i \in DeployedVersions : \A j \in DeployedVersions : j <= i]

\* `set_deployment_status`
StatusOf(a) == IF ~a.backend THEN "draft" ELSE IF a.active THEN "deployed" ELSE "archived"
WithStatus(a) ==
    [content |-> a.content, backend |-> a.backend, active |-> a.active, status |-> StatusOf(a)]

AllIdle == \A p \in Requests : request[p] = NoRequest
Load(p, at, content, active) ==
    /\ request[p] = NoRequest
    /\ begun < MaxBegun
    /\ begun' = begun + 1
    /\ request' = [request EXCEPT ![p] = [at |-> at, uid |-> 0,
         copy |-> [content |-> content, backend |-> asset.backend, active |-> active]]]
    /\ jostled' = (jostled \/ ~AllIdle)
MoveTo(p, at) == request' = [request EXCEPT ![p].at = at]
Close(p) == request' = [request EXCEPT ![p] = NoRequest]

----------------------------------------------------------------------------
(* Editing: AssetSerializer.update and Asset.save *)

BeginEdit(p, c) ==
    /\ Load(p, "edit", c, asset.active)
    /\ UNCHANGED <<asset, versions, form, unversioned>>

\* The whole row is saved, with the deployment data this request has loaded.
SaveEdit(p) ==
    /\ request[p].at = "edit"
    /\ asset' = WithStatus(request[p].copy)
    /\ MoveTo(p, "version")
    /\ UNCHANGED <<versions, form, begun, jostled, unversioned>>

\* Mutant: only a survey that is not deployed gets a version.
CreateVersionOfDraft(p) ==
    /\ request[p].at = "version"
    /\ Len(versions) < MaxVersions
    /\ versions' = IF request[p].copy.backend THEN versions
                   ELSE Append(versions, [uid |-> Len(versions) + 1,
                          content |-> request[p].copy.content, deployed |-> FALSE])
    /\ UNCHANGED <<asset, form, begun, jostled, unversioned>>
    /\ Close(p)

\* After KoBoCAT has been told of the paired data.
CreateVersion(p) ==
    /\ request[p].at = "version"
    /\ Len(versions) < MaxVersions
    /\ versions' = Append(versions, [uid |-> Len(versions) + 1,
                          content |-> request[p].copy.content, deployed |-> FALSE])
    /\ UNCHANGED <<asset, form, begun, jostled, unversioned>>
    /\ Close(p)

----------------------------------------------------------------------------
(* Deploying and redeploying: DeploymentSerializer and DeployableMixin.deploy *)

\* A client that names another version than the latest is refused here.
BeginDeploy(p, active) ==
    /\ Load(p, "build", asset.content, active)
    /\ UNCHANGED <<asset, versions, form, unversioned>>

\* Mutant: the version is the one that was deployed last.
BuildFormOfDeployed(p) ==
    /\ request[p].at = "build"
    /\ request' = [request EXCEPT ![p].at = "send",
                     ![p].uid = IF DeployedVersions = {} THEN LatestVersion.uid
                                ELSE LatestDeployed.uid]
    /\ UNCHANGED <<asset, versions, form, begun, jostled, unversioned>>

\* `to_xlsx_io`: the content loaded before, and the latest version as of now.
BuildForm(p) ==
    /\ request[p].at = "build"
    /\ request' = [request EXCEPT ![p].at = "send", ![p].uid = LatestVersion.uid]
    /\ UNCHANGED <<asset, versions, form, begun, jostled, unversioned>>

\* `connect` creates the form and is refused when there is one; `redeploy`
\* replaces it.
SendForm(p) ==
    LET copy == request[p].copy
    IN  /\ request[p].at = "send"
        /\ form.exists = copy.backend
        /\ form' = [exists |-> TRUE, content |-> copy.content,
                    version |-> request[p].uid, active |-> copy.active]
        /\ request' = [request EXCEPT ![p].at = "choose", ![p].copy.backend = TRUE]
        /\ UNCHANGED <<asset, versions, begun, jostled, unversioned>>

FormIsRefused(p) ==
    /\ request[p].at = "send"
    /\ UNCHANGED <<asset, versions, form, begun, jostled, unversioned>>
    /\ Close(p)

\* `_mark_latest_version_as_deployed` reads the latest version once more ...
ChooseVersion(p) ==
    /\ request[p].at = "choose"
    /\ request' = [request EXCEPT ![p].at = IF LatestVersion.deployed THEN "store" ELSE "mark",
                                  ![p].uid = LatestVersion.uid]
    /\ UNCHANGED <<asset, versions, form, begun, jostled, unversioned>>

\* ... and saves it, which makes it the latest again.
MarkDeployed(p) ==
    LET i == CHOOSE i \in DOMAIN versions : versions[i].uid = request[p].uid
    IN  /\ request[p].at = "mark"
        /\ versions' = Append(RemoveAt(versions, i), [versions[i] EXCEPT !.deployed = TRUE])
        /\ MoveTo(p, "store")
        /\ UNCHANGED <<asset, form, begun, jostled, unversioned>>

\* `sync_media_files_async` saves the whole asset.
StoreDeployment(p) ==
    /\ request[p].at = "store"
    /\ asset' = WithStatus(request[p].copy)
    /\ UNCHANGED <<versions, form, begun, jostled, unversioned>>
    /\ Close(p)

----------------------------------------------------------------------------
(* Archiving, and the other partial updates: `save_to_db` *)

BeginActivate(p, active) ==
    /\ asset.backend
    /\ Load(p, "patch", asset.content, active)
    /\ UNCHANGED <<asset, versions, form, unversioned>>

PatchForm(p) ==
    /\ request[p].at = "patch"
    /\ \/ /\ form' = [form EXCEPT !.active = request[p].copy.active]
          /\ MoveTo(p, "activate")
          /\ UNCHANGED <<asset, versions, begun, jostled, unversioned>>
       \/ /\ UNCHANGED <<asset, versions, form, begun, jostled, unversioned>>
          /\ Close(p)

StoreActive(p) ==
    LET copy == request[p].copy
    IN  /\ request[p].at = "activate"
        /\ asset' = [asset EXCEPT !.active = copy.active, !.status = StatusOf(copy)]
        /\ UNCHANGED <<versions, form, begun, jostled, unversioned>>
        /\ Close(p)

\* `get_enketo_survey_links` asks Enketo, and stores a new id with the status of
\* the copy it has.
BeginLinks(p) ==
    /\ asset.backend
    /\ Load(p, "links", asset.content, asset.active)
    /\ UNCHANGED <<asset, versions, form, unversioned>>

StoreLinks(p) ==
    /\ request[p].at = "links"
    /\ asset' = [asset EXCEPT !.status = StatusOf(request[p].copy)]
    /\ UNCHANGED <<versions, form, begun, jostled, unversioned>>
    /\ Close(p)

\* `toggle_asset_statuses`, in one transaction.  With no list of projects it takes
\* all of the user's, drafts included.
ToggleAsset(active) ==
    /\ begun < MaxBegun
    /\ begun' = begun + 1
    /\ asset' = [asset EXCEPT !.active = active,
                              !.status = IF active THEN "deployed" ELSE "archived"]
    /\ form' = [form EXCEPT !.active = form.exists /\ active]
    /\ jostled' = (jostled \/ ~AllIdle)
    /\ UNCHANGED <<versions, request, unversioned>>

\* KoBoCAT does not answer, or the process is killed: the rest of the request
\* does not happen.
BreakOff(p) ==
    /\ request[p] # NoRequest
    /\ jostled' = TRUE
    /\ unversioned' = IF request[p].at = "version"
                      THEN unversioned \cup {request[p].copy.content} ELSE unversioned
    /\ UNCHANGED <<asset, versions, form, begun>>
    /\ Close(p)

DeploymentNext ==
    \/ \E p \in Requests :
         \/ \E c \in Contents : BeginEdit(p, c)
         \/ SaveEdit(p) \/ CreateVersion(p)
         \/ \E active \in BOOLEAN : BeginDeploy(p, active) \/ BeginActivate(p, active)
         \/ BuildForm(p) \/ SendForm(p) \/ FormIsRefused(p)
         \/ ChooseVersion(p) \/ MarkDeployed(p) \/ StoreDeployment(p)
         \/ PatchForm(p) \/ StoreActive(p)
         \/ BeginLinks(p) \/ StoreLinks(p)
         \/ BreakOff(p)
    \/ \E active \in BOOLEAN : ToggleAsset(active)

DeploymentSpec == DeploymentInit /\ [][DeploymentNext]_deploymentVars

----------------------------------------------------------------------------
(* Properties *)

\* What KoBoCAT collects data with can be found among the versions, however edits
\* and deployments overlap: the reports and exports are built from the versions
\* alone.  The content of an edit that has not come to its version yet, or broke
\* off before, is the exception.
PublishedIsVersioned ==
    form.exists =>
        \/ \E i \in DOMAIN versions : versions[i].content = form.content
        \/ \E p \in Requests :
             request[p].at = "version" /\ request[p].copy.content = form.content
        \/ form.content \in unversioned

\* Requests that do not overlap, refused ones and bulk actions included, leave the
\* asset, its versions and KoBoCAT in agreement: the form is the version deployed
\* last, under its uid, and all agree on whether it is active.
AgreeWhenSerial ==
    ~jostled /\ AllIdle /\ asset.backend =>
        /\ form.exists
        /\ DeployedVersions # {}
        /\ form.version = LatestDeployed.uid
        /\ form.content = LatestDeployed.content
        /\ form.active = asset.active
        /\ asset.status = StatusOf(asset)
=============================================================================
