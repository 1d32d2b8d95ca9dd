------------------------------ MODULE MCOrcamento ------------------------------
(***************************************************************************)
(* Instance of Orcamento for TLC: one unit of a service, two of a part.    *)
(***************************************************************************)
EXTENDS Orcamento, TLC

CONSTANTS s1, p1

UmServicoDuasPecas == (s1 :> 1) @@ (p1 :> 2)

PrecosDeAbertura == (s1 :> 1) @@ (p1 :> 1)

==============================================================================
