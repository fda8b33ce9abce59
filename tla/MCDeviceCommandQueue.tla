----------------------- MODULE MCDeviceCommandQueue -----------------------
(* Model checking of DeviceCommandQueue on small instances. *)
EXTENDS DeviceCommandQueue
=============================================================================
