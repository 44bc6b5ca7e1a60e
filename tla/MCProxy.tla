------------------------------ MODULE MCProxy ------------------------------
(* VM1 with a virtual driver 3, a client 2 and a paravirtual task 4, and   *)
(* the proxy of VM1 in VM0.  Clients 2 and 4 have namesakes in VM0.        *)
EXTENDS MHIPC

Kernel == {<<0, -2>>, <<0, -1>>}
Proxy  == <<0, 5>>
MCVirtual == {<<1, 3>>, <<1, -2>>}
MCProc == Kernel \cup {Proxy, <<0, 2>>, <<0, 4>>, <<1, 2>>, <<1, 4>>} \cup MCVirtual
MCEndpoint == [p \in MCProc |-> p[2]]
MCId == [p \in MCProc |-> p[2] + 5]
MCVmm == [v \in {1} |-> Proxy]
MCTrap == [p \in MCProc |->
    CASE p = Proxy    -> {"RECEIVE", "RECVAS", "SENDAS", "NOTIFYAS"}
      [] p = <<1, 2>> -> {"SENDREC", "RECEIVE"}
      [] p = <<1, 4>> -> {"SENDREC", "NOTIFY"}
      [] OTHER        -> {}]
MCPeer == [p \in MCProc |->
    CASE p = Proxy    -> {2, 4}
      [] p = <<1, 2>> -> {3, 4}
      [] p = <<1, 4>> -> {2, 3, -2}
      [] OTHER        -> {}]
MCIrq == [p \in MCProc |-> {}]
MCCall2Proxy == [p \in {<<1, 4>>} |-> {1}]
MCParavir == {<<1, 4>>}
Empty == <<>>
=============================================================================
