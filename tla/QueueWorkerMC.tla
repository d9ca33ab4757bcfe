--------------------------- MODULE QueueWorkerMC ---------------------------
(***************************************************************************)
(* Instances of the queues for TLC.                                        *)
(***************************************************************************)
EXTENDS QueueWorker, TLC

WhatsApp == "q.notification.whatsapp"
Report == "q.document.report_csv"

MCPrefetch == [q \in {WhatsApp, Report, Triage} |-> IF q = WhatsApp THEN 2 ELSE 1]

\* An export and a complaint, as the API publishes them.
TwoQueues == {Report, Triage}
TwoMessages == 1 .. 2
TwoKinds == <<Report, Triage>>
TwoCounts == <<0, 0>>
AllReadable == {}

\* Notifications, of which one cannot be read and one has been retried by
\* whoever sent it.
OneQueue == {WhatsApp}
ThreeMessages == 1 .. 3
ThreeKinds == <<WhatsApp, WhatsApp, WhatsApp>>
ThreeCounts == <<0, 0, 3>>
SecondMalformed == {2}

\* One notification that fails.
OneMessage == 1 .. 1
OneKind == <<WhatsApp>>
OneCount == <<0>>

Symmetry == Permutations(Workers)
=============================================================================
