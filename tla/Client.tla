------------------------------- MODULE Client -------------------------------
(***************************************************************************)
(* The client: the five pages that ask the server for work and act on the  *)
(* answers, one at a time.  The router mounts one page.  The two halves of *)
(* the payments page, the plan panel and the manual flow, are checked one  *)
(* at a time as well: they share the overview, which either may ask for    *)
(* again, so that the end of a batch is a Reload of the panel, and the     *)
(* rows a flow is opened with are any.  What one page leaves with the      *)
(* server is an environment step of another (FindPlan, ActElsewhere,       *)
(* CaseMovesOn).                                                           *)
(***************************************************************************)
EXTENDS PlanPanel, ManualFlow, VoicePage, BatchEvaluation, Integration

VARIABLE route   \* which of them the merchant has open

clientVars == <<route, panelVars, flowVars, voiceVars, evaluationVars, integrationVars>>

Routes == {"payments-plan", "payments-manual", "voice-recovery", "evaluation",
           "integration"}

ClientTypeOK ==
  /\ route \in Routes
  /\ PanelTypeOK /\ FlowTypeOK /\ VoiceTypeOK /\ EvaluationTypeOK /\ IntegrationTypeOK

ClientInit ==
  /\ PanelInit /\ FlowInit /\ VoiceInit /\ EvaluationInit /\ IntegrationInit
  /\ route \in Routes
  \* what a page depends on varies only while it is open
  /\ route # "voice-recovery" => voicePolicy = CHOOSE p \in VoicePolicies : TRUE
  /\ route # "evaluation" =>
       runs = 0 /\ evaluationPolicy = CHOOSE p \in EvaluationPolicies : TRUE

PlanPage ==
  /\ route = "payments-plan" /\ PanelNext
  /\ UNCHANGED <<route, flowVars, voiceVars, evaluationVars, integrationVars>>

ManualPage ==
  /\ route = "payments-manual" /\ FlowNext
  /\ UNCHANGED <<route, panelVars, voiceVars, evaluationVars, integrationVars>>

VoiceRecoveryPage ==
  /\ route = "voice-recovery" /\ VoiceNext
  /\ UNCHANGED <<route, panelVars, flowVars, evaluationVars, integrationVars>>

EvaluationPage ==
  /\ route = "evaluation" /\ EvaluationNext
  /\ UNCHANGED <<route, panelVars, flowVars, voiceVars, integrationVars>>

IntegrationPage ==
  /\ route = "integration" /\ IntegrationNext
  /\ UNCHANGED <<route, panelVars, flowVars, voiceVars, evaluationVars>>

ClientNext ==
  PlanPage \/ ManualPage \/ VoiceRecoveryPage \/ EvaluationPage \/ IntegrationPage

ClientSpec == ClientInit /\ [][ClientNext]_clientVars
=============================================================================
