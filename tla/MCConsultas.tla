------------------------------ MODULE MCConsultas ------------------------------
(***************************************************************************)
(* Instance of Consultas for TLC: three orders, pages of two.              *)
(***************************************************************************)
EXTENDS Consultas, TLC

\* One order is newer than the two others, which share a dataCriacao.
UmaMaisNova == {f \in [Ordens -> {0, 1}] : Cardinality({o \in Ordens : f[o] = 1}) = 1}

Simetria == Permutations(Ordens) \cup Permutations(Pedidos)

==============================================================================
