------------------------- MODULE MCCampaignWorkflow -------------------------
(* Values for model-checking the campaign workflow.                        *)
EXTENDS CampaignWorkflow
=============================================================================
