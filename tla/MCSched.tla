------------------------------ MODULE MCSched ------------------------------
(* The kernel's tasks, a server of VM0, and processes of two guests, one   *)
(* of them a driver.                                                       *)
EXTENDS MHSched

Server  == <<0, 1>>
Driver1 == <<1, 1>>
User1   == <<1, 2>>
User2   == <<2, 2>>
MCProc  == {SYSTEM, CLOCK, IDLE, Server, Driver1, User1, User2}
MCBoot  == [q \in 0..3 |-> CASE q = 0 -> <<CLOCK, SYSTEM>>
                             [] q = 1 -> <<Server, Driver1>>
                             [] q = 2 -> <<User1, User2>>
                             [] OTHER -> <<IDLE>>]
MCQuantum == [p \in MCProc |-> IF p \in {User1, Driver1} THEN 2 ELSE 1]
MCFlags == [v \in {0, 1, 2} |-> {"VM_LOADED", "VM_RUNNING"}]
MCSize  == [v \in {1, 2} |-> 1]
MCTask == {Driver1}
MCBillable == {IDLE, User1, User2}
MCPreemptible == {IDLE, Server, Driver1, User1, User2}
MCWaiter == {SYSTEM, Server, User1}

(* All processes of VM0 sleep, those of the guests compute. *)
MCProcCompute == {SYSTEM, CLOCK, IDLE, Driver1, User1, User2}
MCBootCompute == [q \in 0..4 |-> CASE q = 0 -> <<CLOCK>>
                                   [] q = 1 -> <<Driver1>>
                                   [] q = 2 -> <<User1, User2>>
                                   [] q = 4 -> <<IDLE>>
                                   [] OTHER -> <<>>]
MCQuantumCompute == [p \in MCProcCompute |-> IF p = User2 THEN 3 ELSE 2]
=============================================================================
