---------------------------- MODULE MCPtyBorrow ----------------------------
(* Two Devices, one of them with two connections, on one terminal.         *)
EXTENDS PtyBorrow

MCDeviceOf == [c \in Conns |-> IF c = "p1" \/ c = "p2" THEN "phone" ELSE "tablet"]
MCSizeOf   == [d \in Devices |-> IF d = "phone" THEN "45x20" ELSE "90x30"]
=============================================================================
