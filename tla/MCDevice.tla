----------------------------- MODULE MCDevice -----------------------------
(* Every class of the bindings, two application threads.                   *)
EXTENDS Device, BindingTables, TLC

MCMaxOf == [flags |-> 1, call |-> 1, register |-> 2]

ThreadSymmetry == Permutations(Threads)
===========================================================================
