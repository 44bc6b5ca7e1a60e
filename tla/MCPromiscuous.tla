--------------------------- MODULE MCPromiscuous ---------------------------
(* A promiscuous server of VM0 and its clients in VM0, VM1 and VM2.  It is *)
(* found by name, so that its number in VM2 is another one.                *)
EXTENDS MHIPC

Kernel == {<<0, -2>>, <<0, -1>>}
Server == <<0, 1>>
MCPromiscuousDesc == {<<1, 1>>, <<2, 3>>}
Client == {<<0, 2>>, <<1, 2>>, <<2, 2>>}
MCProc == Kernel \cup {Server} \cup MCPromiscuousDesc \cup Client
MCEndpoint == [p \in MCProc |-> p[2]]
MCId == [p \in MCProc |-> p[2] + 5]
MCBehind == [p \in MCPromiscuousDesc |-> Server]
MCTrap == [p \in MCProc |->
    CASE p = Server    -> {"RECVVM", "SENDVM", "NOTIFYVM", "SENDRECVM"}
      [] p = <<0, 2>>  -> {"SENDREC"}
      [] p = <<1, 2>>  -> {"SENDREC"}
      [] p = <<2, 2>>  -> {"SENDREC", "RECEIVE"}
      [] OTHER         -> {}]
MCIrq == [p \in MCProc |-> IF p = Server THEN {7} ELSE {}]
MCRecvVmArg == {<<ANY, ANY_VM>>, <<ANY, 1>>, <<NOT_PROC + 2, ANY_VM>>, <<2, 0>>}
MCPeer == [p \in MCProc |-> CASE p = Server -> {2} [] p[1] = 2 -> {3} [] OTHER -> {1}]
Empty == <<>>
=============================================================================
