------------------------ MODULE MCDeploymentListing ------------------------
(* Lists of up to nine workflows, visibility pages of three to five.           *)
EXTENDS DeploymentListing

=============================================================================
