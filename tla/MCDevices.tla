----------------------------- MODULE MCDevices -----------------------------
(* VM1 with virtual drivers 3 and 7 and clients 2 and 4, which have        *)
(* namesakes in VM0 and also call SYSTASK.  Only driver 3 is in use.       *)
EXTENDS MHProxy

Kernel == {<<0, -2>>, <<0, -1>>}
MCVmm == [v \in {1} |-> <<0, 5>>]
MCVirtual == {<<1, 3>>, <<1, 7>>}
MCClient == {<<1, 2>>, <<1, 4>>}
MCProc == Kernel \cup {<<0, 2>>, <<0, 4>>, <<0, 5>>} \cup MCVirtual \cup MCClient
MCEndpoint == [p \in MCProc |-> p[2]]
MCId == [p \in MCProc |-> p[2] + 5]
MCTrap == [p \in MCProc |->
    CASE p = <<0, 5>>   -> {"RECEIVE", "SENDREC", "RECVAS", "SENDAS"}
      [] p \in MCClient -> {"SENDREC"}
      [] OTHER          -> {}]
MCPeer == [p \in MCProc |-> IF p \in MCClient THEN {3, -2} ELSE {}]
MCIrq == [p \in MCProc |-> {}]

(* Client 2 uses driver 3 and client 4 driver 7. *)
MCPeerTwo == [p \in MCProc |-> CASE p = <<1, 2>> -> {3} [] p = <<1, 4>> -> {7} [] OTHER -> {}]
Empty == <<>>
=============================================================================
