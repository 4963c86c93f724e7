---------------------------- MODULE MCSensorFeed ----------------------------
(* One daemon and two imports, which share a state file and a store. *)
EXTENDS SensorFeed

CONSTANTS serve, ingest, reingest
=============================================================================
