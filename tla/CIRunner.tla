------------------------------ MODULE CIRunner ------------------------------
(***************************************************************************)
(* cmd/ci-runner: one command per process.  The variables of the commands  *)
(* that were not given stay as they are.                                   *)
(***************************************************************************)
EXTENDS Integration, AlertDelivery, ImageImport

VARIABLE command

Commands == {"integration", "nightly-alert-delivery", "import-image-k3d"}
vars == <<ivars, dvars, mvars, command>>

Init ==
    /\ command \in Commands
    /\ IntegrationInit /\ DeliveryInit /\ ImportInit
    /\ command # "integration" =>
         plan.time = 0 /\ cfg = (CHOOSE c \in Configs : TRUE)
    /\ command # "nightly-alert-delivery" => ~rule
    /\ command # "import-image-k3d" =>
         /\ localImages = Images /\ nodes = K3DNodes /\ on = {}
         /\ retryCount = CHOOSE n \in RetryCounts : TRUE

\* A process that has ended stays as it is.
Ended ==
    CASE command = "integration" -> run.phase = "ended"
      [] command = "nightly-alert-delivery" -> NightEnded
      [] command = "import-image-k3d" -> ImportEnded

Integrating == command = "integration" /\ IntegrationNext /\ UNCHANGED <<dvars, mvars, command>>
Delivering ==
    command = "nightly-alert-delivery" /\ DeliveryNext /\ UNCHANGED <<ivars, mvars, command>>
Importing == command = "import-image-k3d" /\ ImportNext /\ UNCHANGED <<ivars, dvars, command>>
Stopped == Ended /\ UNCHANGED vars

Next == Integrating \/ Delivering \/ Importing \/ Stopped

\* The process is never stopped from outside, and its calls return.
Spec ==
    /\ Init /\ [][Next]_vars
    /\ WF_vars(command = "integration" /\ Runner /\ UNCHANGED <<dvars, mvars, command>>)
    /\ WF_vars(command = "nightly-alert-delivery" /\ Nightly /\ UNCHANGED <<ivars, mvars, command>>)
    /\ WF_vars(command = "import-image-k3d" /\ Importer /\ UNCHANGED <<ivars, dvars, command>>)

\* Type invariant of the commands.
CITypeOK == IntegrationTypeOK /\ DeliveryTypeOK /\ ImportTypeOK

\* An integration run ends with a report that tells its result, rendered while the
\* forwards were open, and with all of them closed.
EndsProperly == ReportTellsResult /\ ForwardsClosedLast

\* What a command passes it has seen: a pod of the configured manager available since it
\* was configured, the plan reconciled since it was applied, insights where they are
\* required, the alert of this night, every image on every node, and a delivery, which
\* may be an earlier run's since the runner compares with no baseline.  A lagging
\* status, the Deployment and the plan of an earlier run, records from before the
\* baseline and a half-done import do not pass.
PassMeansSeen ==
    /\ RolloutIsCurrent /\ ReconciledSinceApply /\ InsightsRequired /\ DeliveryIsReal
    /\ ConfirmedIsNew
    /\ PassedIsComplete

\* The receiver reports what it answered for, and does report while it can read its log.
RecordsKept == AnsweredIsRecorded /\ LogReadable

\* Every command ends, whatever fails, however often it is retried and whatever
\* interval the trend is observed with (0 stands for the default).
CommandEnds == <>Ended
=============================================================================
