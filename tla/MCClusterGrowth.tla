--------------------------- MODULE MCClusterGrowth ---------------------------
(* Looks of events on both sides of every question the rules ask. *)
EXTENDS ClusterGrowth

Hit(t, p, g) == [type |-> t, port |-> p, gateway |-> g]

MCLook ==
    {Hit("netfilter_drop", 80, TRUE),   \* blocked at the gateway, common port
     Hit("netfilter_drop", 23, FALSE),  \* blocked elsewhere
     Hit("tcp_syn", 22, FALSE),         \* a scan event, not a drop
     Hit("blocked", 0, TRUE),           \* blocked, no port
     Hit("netfilter_accept", 8080, FALSE),   \* neither
     Hit("conn_attempt", 443, TRUE),   \* a scan event on a common port
     Hit("dhcp_dhcpack", 0, FALSE),
     Hit("wifi_associated", 0, FALSE),
     Hit("wifi_disassociated", 0, FALSE)}
=============================================================================
