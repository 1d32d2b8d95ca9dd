------------------------------ MODULE PecasDaOs ------------------------------
(***************************************************************************)
(* What the workshop is promised about the parts of a service order: they  *)
(* move together, in one direction, pending -> reserved -> consumed; work  *)
(* starts only once they are reserved and an OS is finished only by        *)
(* consuming them.  Nothing else is promised about the order in which      *)
(* statuses follow each other, since requests do race for the status.      *)
(***************************************************************************)
EXTENDS OrdemStatus

CONSTANTS
    Ordens,   \* service orders
    SemPecas  \* those without any part: vacuously reserved and consumed

VARIABLES status, pecas

vars == <<status, pecas>>

Init ==
    /\ status = [o \in Ordens |-> "RECEBIDA"]
    /\ pecas = [o \in Ordens |-> IF o \in SemPecas THEN "baixadas" ELSE "pendentes"]

(* An approval reserves the parts that are still pending. *)
Executar(o) ==
    /\ status' = [status EXCEPT ![o] = "EM_EXECUCAO"]
    /\ pecas' = [pecas EXCEPT ![o] = IF @ = "pendentes" THEN "reservadas" ELSE @]

(* Finishing consumes parts that were reserved. *)
Concluir(o) ==
    /\ pecas[o] # "pendentes"
    /\ status' = [status EXCEPT ![o] = "FINALIZADA"]
    /\ pecas' = [pecas EXCEPT ![o] = "baixadas"]

(* A vehicle is delivered with its parts consumed. *)
Entregar(o) ==
    /\ pecas[o] = "baixadas"
    /\ status' = [status EXCEPT ![o] = "ENTREGUE"]
    /\ UNCHANGED pecas

(* The statuses that do not touch the parts. *)
Tramitar(o) ==
    /\ \E s \in {"EM_DIAGNOSTICO", "AGUARDANDO_APROVACAO", "REJEITADA"} :
          status' = [status EXCEPT ![o] = s]
    /\ UNCHANGED pecas

Next == \E o \in Ordens : Executar(o) \/ Concluir(o) \/ Entregar(o) \/ Tramitar(o)

Spec == Init /\ [][Next]_vars

==============================================================================
