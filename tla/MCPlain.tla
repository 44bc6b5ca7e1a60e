------------------------------ MODULE MCPlain ------------------------------
(* Two VMs whose processes have the same numbers and endpoints: clients 1  *)
(* and 3 of a server 2 in VM1, a client 1 and a server 2 in VM0.  Clients 1 *)
(* also call SYSTASK, and server 2 of VM1 handles an interrupt.            *)
EXTENDS MHIPC

Kernel == {<<0, -2>>, <<0, -1>>}
MCProc == Kernel \cup {<<0, 1>>, <<0, 2>>, <<1, 1>>, <<1, 2>>, <<1, 3>>}
MCEndpoint == [p \in MCProc |-> p[2]]
MCId == [p \in MCProc |-> p[2] + 5]
MCTrap == [p \in MCProc |->
    CASE p = <<0, 1>> -> {"SENDREC", "RECEIVE"}
      [] p = <<1, 1>> -> {"SENDREC"}
      [] p = <<0, 2>> -> {"RECEIVE", "NOTIFY"}
      [] p = <<1, 2>> -> {"RECEIVE", "SEND"}
      [] p = <<1, 3>> -> {"SEND", "RECEIVE"}
      [] OTHER        -> {}]
MCIrq == [p \in MCProc |-> IF p = <<1, 2>> THEN {5} ELSE {}]
MCPeer == [p \in MCProc |->
    CASE p[2] = 1     -> {2, -2}
      [] p = <<0, 2>> -> {1}
      [] p = <<1, 2>> -> {1, 3, -1}
      [] p[2] = 3     -> {2}
      [] OTHER        -> {}]
Empty == <<>>
=============================================================================
