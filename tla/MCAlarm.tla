------------------------------ MODULE MCAlarm -------------------------------
(* PM of a guest that was started at tick 1, with two users; one driver of VM0. *)
EXTENDS MHAlarm

GuestPm     == [p \in Proc |-> IF p = PM THEN 1 ELSE 0]
GuestDriver == [p \in Proc |-> 1]
=============================================================================
