---------------------------- MODULE MCHubHandle ----------------------------
(***************************************************************************)
(* Model values for HubHandle: three hubs, of which one has the id that a  *)
(* lone status byte is read as, and targets with and without a hub.        *)
(***************************************************************************)
EXTENDS HubHandle

MCIdOf == <<1, 2, 100>>
=============================================================================
