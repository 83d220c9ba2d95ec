--------------------------- MODULE MCDeviceCommands ---------------------------
(* A host with a device, and room for a host and two devices more.           *)
EXTENDS DeviceCommands, TLC

OneDevice == 1 :> 1

=============================================================================
