--------------------------- MODULE MCSyslogIngest ---------------------------
(* Instances of SyslogIngest for TLC: a few keys of each severity. *)
EXTENDS SyslogIngest

CONSTANTS ssh, http, web, noise, radiation
=============================================================================
