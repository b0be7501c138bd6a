------------------------------- MODULE MCPmap -------------------------------
(***************************************************************************)
(* Instances of Pmap.  Near is two neighbouring pages, which share their   *)
(* tables, the second of them the stack.  WithStack has the real indices   *)
(* of the page below USTACKTOP, whose tables are its own.                  *)
(***************************************************************************)
EXTENDS Pmap

Stack == <<505, 511, 383, 511>>
WithStack == {ZeroVA, Stack}
NearStack == <<0, 0, 0, 1>>
Near == {ZeroVA, NearStack}

(***************************************************************************)
(* Pages are interchangeable: two states are the same if one is the other  *)
(* with its pages renamed, that is, if the pages in use have the same      *)
(* roles and as many are free.  Pages that are only lost, whatever their   *)
(* count, never change again.  (TypeOK makes TLC evaluate the functions    *)
(* it has to store.)                                                       *)
(***************************************************************************)
Role(p) ==
  <<References(p), pp_ref[p], lost[p],
    {<<c, va, w>> \in CPUs \X VAs \X BOOLEAN : <<va, p, w>> \in tlb[c]}>>

UpToRenaming ==
  <<{Role(p) : p \in Pages \ page_free_list}, Cardinality(page_free_list),
    writable, ipcVars, curenv, crashed, TypeOK>>
=============================================================================
