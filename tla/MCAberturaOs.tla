----------------------------- MODULE MCAberturaOs -----------------------------
(***************************************************************************)
(* Instances of AberturaOs for TLC.                                        *)
(***************************************************************************)
EXTENDS AberturaOs, TLC

CONSTANTS c1, c2, v1

DonoDoVeiculo == (v1 :> c1)

SimetriaPedidos == Permutations(Pedidos)

==============================================================================
