--------------------------- MODULE MCDeviceRegistry ---------------------------
(***************************************************************************)
(* DeviceRegistry for TLC: the clock runs past the timeout twice, so that  *)
(* a device can time out, be refreshed and time out again.                 *)
(***************************************************************************)
EXTENDS DeviceRegistry
===============================================================================
