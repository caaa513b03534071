--------------------------- MODULE MCConfigReload ---------------------------
(***************************************************************************)
(* ConfigReload with two values per key and two contents of dhcp_subnet.    *)
(***************************************************************************)
EXTENDS ConfigReload, TLC

MCDefault == [k \in Keys |-> "true"]

Disable == [svc |-> "dhcp", set |-> ("enabled" :> "false")]
Enable == [svc |-> "dhcp", set |-> ("enabled" :> "true" @@ "body" :> "false")]
MoveAddress == [svc |-> "tftp", set |-> ("listen_ip" :> "false")]

\* A save of the HTTP settings bumps another version and runs ReloadAll.
SaveHTTP == [svc |-> "http", set |-> NoKeys]

MCRequests == {Disable, Enable, SaveHTTP}
AddressRequests == {MoveAddress}

=============================================================================
