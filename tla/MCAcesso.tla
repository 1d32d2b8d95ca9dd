-------------------------------- MODULE MCAcesso --------------------------------
(***************************************************************************)
(* Instance of Acesso for TLC: an ADMIN, an account to be given any role,  *)
(* and one that is not created yet.                                        *)
(***************************************************************************)
EXTENDS Acesso, TLC

CONSTANTS adm, conta, futura

Papeis == (adm :> "ADMIN") @@ (conta :> "MECANICO") @@ (futura :> "ATENDENTE")

Simetria == Permutations(Pedidos)

==============================================================================
