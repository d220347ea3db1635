-------------------------- MODULE MCDeviceSettings --------------------------
(* Two of the four registers of the ZigBee page stand for all. *)
EXTENDS DeviceSettings

TwoRegisters == <<"zigbeePanID", "zigbeeChannel">>
=============================================================================
