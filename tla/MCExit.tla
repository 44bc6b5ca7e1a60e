------------------------------ MODULE MCExit -------------------------------
(* VM1 with its PM 0 and a server 1 that passes the requests of client 3   *)
(* on to PM, as servers/sm does.  Client 3 is forked by the shell 2, which *)
(* talks to PM only; all but PM may exit, shell and client are signalled.  *)
EXTENDS MHExit

Kernel == {<<0, -2>>, <<0, -1>>}
MCProc == Kernel \cup {<<1, n>> : n \in 0..3}
MCEndpoint == [p \in MCProc |-> p[2]]
MCId == [p \in MCProc |-> p[2] + 5]
MCTrap == [p \in MCProc |->
    CASE p = <<1, 0>> -> {"RECEIVE", "SEND"}
      [] p = <<1, 1>> -> {"RECEIVE", "SEND", "RELAY"}
      [] p = <<1, 2>> -> {"SENDREC"}
      [] p = <<1, 3>> -> {"SENDREC", "NOTIFY"}
      [] OTHER        -> {}]
MCIrq == [p \in MCProc |-> {}]
MCPeer == [p \in MCProc |->
    CASE p = <<1, 0>> -> {2, 3}
      [] p = <<1, 1>> -> {0, 3}
      [] p = <<1, 2>> -> {0}
      [] p = <<1, 3>> -> {1}
      [] OTHER -> {}]
MCMortal == {<<1, n>> : n \in 1..3}
MCUnborn == {<<1, 3>>}
MCSignal == {<<<<1, 2>>, "SIGPIPE">>, <<<<1, 3>>, "SIGPIPE">>, <<<<1, 3>>, "SIGKILL">>}
Empty == <<>>
=============================================================================
