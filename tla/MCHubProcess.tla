---------------------------- MODULE MCHubProcess ----------------------------
(* Processes of one installation, a few at a time. *)
EXTENDS HubProcess
=============================================================================
