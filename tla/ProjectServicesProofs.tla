------------------------ MODULE ProjectServicesProofs ------------------------
(***************************************************************************)
(* The seven services together.  A behaviour of MCProjectServices steps    *)
(* one of them and leaves the variables of the others alone, so for each   *)
(* service it is a behaviour of that service: what is proved of a service  *)
(* by itself holds of them together.                                       *)
(***************************************************************************)
EXTENDS MCProjectServices, BackgroundJobsProofs, AssetDeploymentProofs, ProjectRequestsProofs

\* Together the services do what each does by itself.
THEOREM ServicesRunApart ==
    ServicesSpec => /\ HooksSpec /\ ExportsSpec /\ MediaSpec /\ DeploymentSpec
                    /\ DetailsSpec /\ SubmissionsSpec /\ PairedSpec
<1>1. ServicesInit => /\ HooksInit /\ ExportsInit /\ MediaInit /\ DeploymentInit
                      /\ DetailsInit /\ SubmissionsInit /\ PairedInit
  BY DEF ServicesInit
<1>2. ASSUME [ServicesNext]_<<focus, jobVars, requestVars>>
      PROVE  /\ [HooksNext]_hookVars /\ [ExportsNext]_exportVars /\ [MediaNext]_mediaVars
             /\ [DeploymentNext]_deploymentVars /\ [DetailsNext]_detailVars
             /\ [SubmissionsNext]_submissionVars /\ [PairedNext]_pairedVars
  <2>1. CASE JobsNext /\ UNCHANGED requestVars
    BY <2>1 DEF JobsNext, requestVars
  <2>2. CASE RequestsNext /\ UNCHANGED jobVars
    BY <2>2 DEF RequestsNext, jobVars
  <2>3. CASE UNCHANGED <<focus, jobVars, requestVars>>
    BY <2>3 DEF jobVars, requestVars
  <2>4. QED
    BY <1>2, <2>1, <2>2, <2>3 DEF ServicesNext
<1>3. QED
  BY <1>1, <1>2, PTL
  DEF ServicesSpec, HooksSpec, ExportsSpec, MediaSpec, DeploymentSpec, DetailsSpec,
      SubmissionsSpec, PairedSpec

\* The service in focus, as every other, keeps the types of its variables.
THEOREM ServicesTypeCorrect == ServicesSpec => []ServicesTypeOK
<1>1. /\ HooksTypeOK /\ ExportsTypeOK /\ MediaTypeOK /\ DeploymentTypeOK
      /\ DetailsTypeOK /\ SubmissionsTypeOK /\ PairedTypeOK
      => ServicesTypeOK
  BY DEF ServicesTypeOK
<1>2. QED
  BY <1>1, ServicesRunApart, HooksTypeCorrect, ExportsTypeCorrect, MediaTypeCorrect,
     DeploymentTypeCorrect, DetailsTypeCorrect, SubmissionsTypeCorrect, PairedDataTypeCorrect, PTL
=============================================================================
