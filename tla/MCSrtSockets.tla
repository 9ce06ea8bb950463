---- MODULE MCSrtSockets ----
(* Model values for the sockets of SrtSockets. *)
EXTENDS SrtSockets

CONSTANTS c1, l
====
