--------------------------- MODULE MCCicloDeVidaOs ---------------------------
(***************************************************************************)
(* Instances of CicloDeVidaOs for TLC.                                     *)
(***************************************************************************)
EXTENDS CicloDeVidaOs, TLC

CONSTANTS o1, o2, p1, p2

\* Every OS wants one unit of every part.
UmaDeCadaPeca == [o \in Ordens |-> [p \in Pecas |-> 1]]
DoisDeEstoque == [p \in Pecas |-> 2]
UmDeEstoque == [p \in Pecas |-> 1]

MaisOuMenosUm == {-1, 1}
SemMovimentos == {}

OperacoesDeReserva == {"orcamento", "aprovar", "rejeitar"}

SimetriaPedidos == Permutations(Pedidos)

==============================================================================
