---------------------------- MODULE MCCorrelation ----------------------------
(* Instances of Correlation: a cloud, another outside address, a machine   *)
(* of the network, a Wi-Fi station.                                        *)
EXTENDS Correlation

CONSTANTS cloud, web, lan, station, serve, correlate, ingest

MCKindOf ==
    [s \in Source |-> IF s = lan THEN "internal"
                      ELSE IF s = station THEN "mac" ELSE "external"]

Probe == [type |-> "netfilter_drop", port |-> 80, gateway |-> TRUE]
Scan  == [type |-> "tcp_syn", port |-> 3389, gateway |-> FALSE]
Join  == [type |-> "wifi_associated", port |-> 0, gateway |-> FALSE]

MCLooksOf ==
    [s \in Source |-> IF s = station THEN {Join} ELSE IF s = cloud THEN {Probe, Scan} ELSE {Scan}]
=============================================================================
