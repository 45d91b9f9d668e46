---- MODULE MCSshTunnel ----
(* SshTunnel for TLC. *)
EXTENDS SshTunnel
====
