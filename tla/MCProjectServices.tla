-------------------------- MODULE MCProjectServices --------------------------
(***************************************************************************)
(* Seven services around a project.  They share no state here, so each     *)
(* behaviour is one of them: three background jobs, and four kinds of      *)
(* requests that overlap with their like.                                  *)
(***************************************************************************)
EXTENDS HookDelivery, ExportTasks, MediaSync, PairedData,
        AssetDeployment, SupplementalDetails, SubmissionRequests

MCFieldOrder == <<"f", "g">>

\* Transcripts one by one, translations asked for, a translation that a user sends as if
\* it were done, one that would be in progress, and both fields at once.
Asked == [status |-> "requested", text |-> NoText]
Done == [status |-> "complete", text |-> "short"]
Going == [status |-> "in_progress", text |-> NoText]
Says(f, text) == [order |-> <<f>>, transcripts |-> f :> text, slots |-> << >>]
Sends(f, slot) == [order |-> <<f>>, transcripts |-> << >>, slots |-> f :> slot]
MCEdits ==
    {Says(f, text) : f \in {"f", "g"}, text \in {"short", "long", Deletion}}
        \cup {Sends(f, Asked) : f \in {"f", "g"}}
        \cup {Sends("f", Done), Sends("g", Going)}
        \cup {[order |-> <<"g", "f">>, transcripts |-> "g" :> "long",
               slots |-> "g" :> Asked @@ "f" :> Going]}

\* A user who sees everything and may delete some.
MCPartialRights == {[view |-> Instances, act |-> {"s1", "s3"}]}
MCFirstAnswer == [x \in {"s1", "s2"} |-> IF x = "s1" THEN "x" ELSE "y"]

VARIABLE focus

jobVars == <<hookVars, exportVars, mediaVars>>
requestVars == <<deploymentVars, detailVars, submissionVars, pairedVars>>

ServicesInit ==
    /\ focus \in {"hooks", "exports", "media", "deployment", "details", "submissions", "pairing"}
    /\ HooksInit /\ ExportsInit /\ MediaInit
    /\ DeploymentInit /\ DetailsInit /\ SubmissionsInit /\ PairedInit
    /\ focus # "deployment" => asset.content = CHOOSE x \in Contents : TRUE

JobsNext ==
    \/ focus = "hooks" /\ HooksNext /\ UNCHANGED <<exportVars, mediaVars>>
    \/ focus = "exports" /\ ExportsNext /\ UNCHANGED <<hookVars, mediaVars>>
    \/ focus = "media" /\ MediaNext /\ UNCHANGED <<hookVars, exportVars>>

RequestsNext ==
    \/ /\ focus = "deployment" /\ DeploymentNext
       /\ UNCHANGED <<detailVars, submissionVars, pairedVars>>
    \/ /\ focus = "details" /\ DetailsNext
       /\ UNCHANGED <<deploymentVars, submissionVars, pairedVars>>
    \/ /\ focus = "submissions" /\ SubmissionsNext
       /\ UNCHANGED <<deploymentVars, detailVars, pairedVars>>
    \/ /\ focus = "pairing" /\ PairedNext
       /\ UNCHANGED <<deploymentVars, detailVars, submissionVars>>

ServicesNext ==
    /\ UNCHANGED focus
    /\ \/ JobsNext /\ UNCHANGED requestVars
       \/ RequestsNext /\ UNCHANGED jobVars

ServicesSpec ==
    /\ ServicesInit
    /\ [][ServicesNext]_<<focus, jobVars, requestVars>>
    /\ HooksFairness /\ ExportsFairness

\* The type of the service in question (the others stay as they began): what each
\* task and request has in hand is what its place says.
ServicesTypeOK ==
    /\ focus = "hooks" => HooksTypeOK
    /\ focus = "exports" => ExportsTypeOK
    /\ focus = "media" => MediaTypeOK
    /\ focus = "deployment" => DeploymentTypeOK
    /\ focus = "details" => DetailsTypeOK
    /\ focus = "submissions" => SubmissionsTypeOK
    /\ focus = "pairing" => PairedTypeOK
=============================================================================
