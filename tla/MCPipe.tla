------------------------------- MODULE MCPipe -------------------------------
(***************************************************************************)
(* Instances of Pipe: a parent that writes, a child that reads and a third *)
(* environment that duplicates and closes descriptors, as in the pipe tests *)
(* (user/riscv/testpipe.c and testpiperace2.c).                            *)
(***************************************************************************)
EXTENDS Pipe

CONSTANTS parent, child, third

Family ==
  [e \in {parent, child, third} |->
     CASE e = parent -> {"fork", "kill"}
       [] e = child -> {"close"}
       [] e = third -> {"dup", "close"}]

Couple ==
  [e \in {parent, child} |-> IF e = parent THEN {"fork", "close"} ELSE {"close"}]
=============================================================================
