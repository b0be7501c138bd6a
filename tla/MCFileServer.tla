---------------------------- MODULE MCFileServer ----------------------------
(* A parent that opens, closes and forks, and a child that inherits its    *)
(* descriptors, duplicates, uses and closes them and opens files itself.   *)
EXTENDS FileServer

CONSTANTS c1, c2

ParentAndChild ==
  [c \in {c1, c2} |-> IF c = c1 THEN {"open", "close", "fork"}
                      ELSE {"open", "use", "close", "dup", "sync"}]
=============================================================================
