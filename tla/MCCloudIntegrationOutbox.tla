---------------------- MODULE MCCloudIntegrationOutbox ----------------------
(* Instances of CloudIntegrationOutbox for TLC.                              *)
EXTENDS CloudIntegrationOutbox
=============================================================================
