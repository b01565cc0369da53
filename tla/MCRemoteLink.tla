---------------------------- MODULE MCRemoteLink ----------------------------
(* One botnet link with few commands and a short burst.                    *)
EXTENDS RemoteLink

=============================================================================
