---------------------------- MODULE MCDevicePool ----------------------------
(* The pool with scenarios, ports and devices by number. *)
EXTENDS DevicePool
=============================================================================
