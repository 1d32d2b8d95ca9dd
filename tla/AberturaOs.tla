------------------------------ MODULE AberturaOs ------------------------------
(***************************************************************************)
(* Opening a service order against the records it refers to, and the       *)
(* soft-delete of those records: CriarOrdemServico checks client, vehicle, *)
(* services and parts in four separate reads and inserts in a fifth round  *)
(* trip; InativarCliente / Veiculo / ServicoCatalogo / Peca read the       *)
(* record, count the orders that use it and update it in a third.  Nothing *)
(* locks a record between those reads and the writes they justify.         *)
(*                                                                         *)
(* What happens to an order once it is open is PecasDaOs, the promise that *)
(* CicloDeVidaOs keeps: one step is one commit of a request on that order. *)
(*                                                                         *)
(* Variables of the database: ativo, the flag of every record; dados, the  *)
(* records each open order refers to; status and pecas of the orders;      *)
(* criacao, the orders whose creation row (from null) is in the trail.     *)
(* Variables of the requests: fase, the await a request is at; pedido, its *)
(* body; servicosLidos, the active services it found.                      *)
(* Auxiliary: jaInativos, the records already inactive when the request    *)
(* arrived; pedidos counts requests.                                       *)
(***************************************************************************)
EXTENDS Naturals, OrdemStatus

CONSTANTS
    Ordens,      \* identities of service orders
    Clientes, Veiculos, Servicos, Pecas,
    DonoDe,      \* DonoDe[v]: the client vehicle v belongs to
    Pedidos,     \* requests in flight together
    Falhas,      \* TRUE: a request may be cut at any await
    MaxPedidos   \* bound: requests ever received

Registros == Clientes \cup Veiculos \cup Servicos \cup Pecas

ASSUME DonoAssumption == DonoDe \in [Veiculos -> Clientes]
ASSUME RegistrosAssumption ==
    Pecas \cap (Clientes \cup Veiculos \cup Servicos) = {}
ASSUME AberturaAssumption == MaxPedidos \in Nat /\ Falhas \in BOOLEAN

VARIABLES ativo, dados, status, pecas, criacao,
          fase, pedido, servicosLidos, jaInativos, pedidos

cadastro == <<ativo, dados, criacao>>
atendimento == <<status, pecas>>
emVoo == <<fase, pedido, servicosLidos, jaInativos>>
vars == <<cadastro, atendimento, emVoo, pedidos>>

Atendimento == INSTANCE PecasDaOs WITH SemPecas <- {}

------------------------------------------------------------------------------
\* Types and helpers

Dados == [cliente: Clientes, veiculo: Veiculos,
          servicos: SUBSET Servicos, pecas: SUBSET Pecas]
SemDados == [cliente |-> "nenhum"]

PedidoDeAbertura == [os: Ordens, dados: Dados]
PedidoDeInativacao == [registro: Registros]
SemPedido == [registro |-> "nenhum"]

FasesDeAbertura == {"lerVeiculo", "lerServicos", "lerPecas", "inserir", "auditar"}
FasesDeInativacao == {"contar", "inativar"}

Abertas == {o \in Ordens : dados[o] # SemDados}

RegistrosDe(d) == {d.cliente, d.veiculo} \cup d.servicos \cup d.pecas

\* Mutant: services are not counted.
VinculadoSemServicos(x, o) ==
    \/ x \in Pecas /\ x \in dados[o].pecas /\ pecas[o] = "reservadas"
    \/ x \notin Pecas /\ x \in {dados[o].cliente, dados[o].veiculo}
                    /\ status[o] \in StatusNaoTerminais

\* What an inactivation counts: a part is held by a reservation not yet
\* consumed, any other record by an order neither delivered nor rejected.
Vinculado(x, o) ==
    \/ x \in Pecas /\ x \in dados[o].pecas /\ pecas[o] = "reservadas"
    \/ x \notin Pecas /\ x \in RegistrosDe(dados[o]) /\ status[o] \in StatusNaoTerminais

EmUso(x) == \E o \in Abertas : Vinculado(x, o)

Chegar(r, f, p) ==
    /\ fase[r] = "livre"
    /\ pedidos < MaxPedidos
    /\ fase' = [fase EXCEPT ![r] = f]
    /\ pedido' = [pedido EXCEPT ![r] = p]
    /\ jaInativos' = [jaInativos EXCEPT ![r] = {x \in Registros : ~ativo[x]}]
    /\ pedidos' = pedidos + 1
    /\ UNCHANGED <<cadastro, atendimento, servicosLidos>>

Avancar(r, f) ==
    /\ fase' = [fase EXCEPT ![r] = f]
    /\ UNCHANGED <<pedido, jaInativos>>

\* Mutant: the answer is forgotten, not sent.
EncerrarSemResponder(r) ==
    /\ pedido' = [pedido EXCEPT ![r] = SemPedido]
    /\ servicosLidos' = [servicosLidos EXCEPT ![r] = {}]
    /\ jaInativos' = [jaInativos EXCEPT ![r] = {}]
    /\ UNCHANGED fase

Encerrar(r) ==
    /\ fase' = [fase EXCEPT ![r] = "livre"]
    /\ pedido' = [pedido EXCEPT ![r] = SemPedido]
    /\ servicosLidos' = [servicosLidos EXCEPT ![r] = {}]
    /\ jaInativos' = [jaInativos EXCEPT ![r] = {}]

------------------------------------------------------------------------------
Init ==
    /\ ativo = [x \in Registros |-> TRUE]
    /\ dados = [o \in Ordens |-> SemDados]
    /\ status = [o \in Ordens |-> "RECEBIDA"]
    /\ pecas = [o \in Ordens |-> "pendentes"]
    /\ criacao = {}
    /\ fase = [r \in Pedidos |-> "livre"]
    /\ pedido = [r \in Pedidos |-> SemPedido]
    /\ servicosLidos = [r \in Pedidos |-> {}]
    /\ jaInativos = [r \in Pedidos |-> {}]
    /\ pedidos = 0

------------------------------------------------------------------------------
\* CriarOrdemServico

(* The request arrives and reads an active client (404 and 400 stutter).   *)
(* Its order gets a fresh identity.                                        *)
Criar(r, o, d) ==
    /\ o \notin Abertas
    /\ \A q \in Pedidos : fase[q] \in FasesDeAbertura => pedido[q].os # o
    /\ ativo[d.cliente]
    /\ Chegar(r, "lerVeiculo", [os |-> o, dados |-> d])

\* Mutant: the owner of the vehicle is checked, whether it is active is not.
LerVeiculoSemVerAtivo(r) ==
    LET d == pedido[r].dados
    IN  /\ fase[r] = "lerVeiculo"
        /\ IF DonoDe[d.veiculo] = d.cliente
           THEN Avancar(r, "lerServicos") /\ UNCHANGED servicosLidos
           ELSE Encerrar(r)
        /\ UNCHANGED <<cadastro, atendimento, pedidos>>

(* The vehicle, which must be active and of that client.                   *)
LerVeiculo(r) ==
    LET d == pedido[r].dados
    IN  /\ fase[r] = "lerVeiculo"
        /\ IF ativo[d.veiculo] /\ DonoDe[d.veiculo] = d.cliente
           THEN Avancar(r, "lerServicos") /\ UNCHANGED servicosLidos
           ELSE Encerrar(r)
        /\ UNCHANGED <<cadastro, atendimento, pedidos>>

\* Mutant: services are looked up by id, active or not.
LerServicosSemFiltro(r) ==
    /\ fase[r] = "lerServicos"
    /\ servicosLidos' = [servicosLidos EXCEPT ![r] = pedido[r].dados.servicos]
    /\ Avancar(r, "lerPecas")
    /\ UNCHANGED <<cadastro, atendimento, pedidos>>

(* The active services among those asked for, not compared yet.            *)
LerServicos(r) ==
    /\ fase[r] = "lerServicos"
    /\ servicosLidos' = [servicosLidos EXCEPT
                           ![r] = {s \in pedido[r].dados.servicos : ativo[s]}]
    /\ Avancar(r, "lerPecas")
    /\ UNCHANGED <<cadastro, atendimento, pedidos>>

(* The active parts, then both comparisons: 400 if something was left out. *)
LerPecas(r) ==
    LET d == pedido[r].dados
    IN  /\ fase[r] = "lerPecas"
        /\ IF servicosLidos[r] = d.servicos /\ \A p \in d.pecas : ativo[p]
           THEN Avancar(r, "inserir") /\ UNCHANGED servicosLidos
           ELSE Encerrar(r)
        /\ UNCHANGED <<cadastro, atendimento, pedidos>>

\* Mutant: the creation row is left to somebody else.
InserirSemAuditar(r) ==
    /\ fase[r] = "inserir"
    /\ dados' = [dados EXCEPT ![pedido[r].os] = pedido[r].dados]
    /\ Encerrar(r)
    /\ UNCHANGED <<ativo, criacao, atendimento, pedidos>>

(* createWithItems: the order and its items, in one transaction.           *)
Inserir(r) ==
    /\ fase[r] = "inserir"
    /\ dados' = [dados EXCEPT ![pedido[r].os] = pedido[r].dados]
    /\ Avancar(r, "auditar")
    /\ UNCHANGED <<ativo, criacao, atendimento, servicosLidos, pedidos>>

(* recordOsTransition with no previous status, then the answer.            *)
AuditarCriacao(r) ==
    /\ fase[r] = "auditar"
    /\ criacao' = criacao \cup {pedido[r].os}
    /\ Encerrar(r)
    /\ UNCHANGED <<ativo, dados, atendimento, pedidos>>

------------------------------------------------------------------------------
\* InativarCliente, InativarVeiculo, InativarServicoCatalogo, InativarPeca

(* The request arrives and reads a record that is active (an inactive one  *)
(* answers 204 at once).                                                   *)
PedirInativacao(r, x) ==
    /\ ativo[x]
    /\ Chegar(r, "contar", [registro |-> x])

\* Mutant: nobody counts.
ContarVinculosNunca(r) ==
    /\ fase[r] = "contar"
    /\ Avancar(r, "inativar")
    /\ UNCHANGED <<cadastro, atendimento, servicosLidos, pedidos>>

(* countAtivasBy..., countReservasAtivasPeca: 409 when something uses it.  *)
ContarVinculos(r) ==
    /\ fase[r] = "contar"
    /\ IF EmUso(pedido[r].registro)
       THEN Encerrar(r)
       ELSE Avancar(r, "inativar") /\ UNCHANGED servicosLidos
    /\ UNCHANGED <<cadastro, atendimento, pedidos>>

(* softDelete: an UPDATE by id.                                            *)
Inativar(r) ==
    /\ fase[r] = "inativar"
    /\ ativo' = [ativo EXCEPT ![pedido[r].registro] = FALSE]
    /\ Encerrar(r)
    /\ UNCHANGED <<dados, criacao, atendimento, pedidos>>

------------------------------------------------------------------------------
(* A commit of a request on an open order.                                 *)
Atender(o) ==
    /\ o \in Abertas
    /\ \/ Atendimento!Executar(o)
       \/ Atendimento!Concluir(o)
       \/ Atendimento!Entregar(o)
       \/ Atendimento!Tramitar(o)
    /\ UNCHANGED <<cadastro, emVoo, pedidos>>

(* A database error or a killed pod: what was committed stays.             *)
Interromper(r) ==
    /\ Falhas
    /\ fase[r] # "livre"
    /\ Encerrar(r)
    /\ UNCHANGED <<cadastro, atendimento, pedidos>>

Passo(r) ==
    \/ LerVeiculo(r)
    \/ LerServicos(r)
    \/ LerPecas(r)
    \/ Inserir(r)
    \/ AuditarCriacao(r)
    \/ ContarVinculos(r)
    \/ Inativar(r)

Next ==
    \/ \E r \in Pedidos, o \in Ordens, d \in Dados : Criar(r, o, d)
    \/ \E r \in Pedidos, x \in Registros : PedirInativacao(r, x)
    \/ \E r \in Pedidos : Passo(r) \/ Interromper(r)
    \/ \E o \in Ordens : Atender(o)

Spec == Init /\ [][Next]_vars

\* One request at a time, those on open orders included: nothing commits while
\* another is in flight, and statuses then follow the transition graph.
EmVoo == {r \in Pedidos : fase[r] # "livre"}
UmPorVez == \A r, q \in EmVoo : r = q
SemIntrusao ==
    /\ EmVoo # {} => UNCHANGED atendimento
    /\ \A o \in Ordens : status'[o] = status[o] \/ <<status[o], status'[o]>> \in GrafoDocumentado

SpecSerial == Init /\ [][Next /\ UmPorVez' /\ SemIntrusao]_vars

------------------------------------------------------------------------------
\* Properties

AberturaTypeOK ==
    /\ ativo \in [Registros -> BOOLEAN]
    /\ dados \in [Ordens -> Dados \cup {SemDados}]
    /\ status \in [Ordens -> StatusOs]
    /\ pecas \in [Ordens -> {"pendentes", "reservadas", "baixadas"}]
    /\ criacao \subseteq Ordens
    /\ fase \in [Pedidos -> FasesDeAbertura \cup FasesDeInativacao \cup {"livre"}]
    /\ pedido \in [Pedidos -> PedidoDeAbertura \cup PedidoDeInativacao \cup {SemPedido}]
    /\ \A r \in Pedidos :
         /\ fase[r] \in FasesDeAbertura => pedido[r] \in PedidoDeAbertura
         /\ fase[r] \in FasesDeInativacao => pedido[r] \in PedidoDeInativacao
    /\ servicosLidos \in [Pedidos -> SUBSET Servicos]
    /\ jaInativos \in [Pedidos -> SUBSET Registros]
    /\ pedidos \in 0..MaxPedidos

(* An order is never opened on a record that was already inactive when the *)
(* request to open it arrived, although each record is read at a time of   *)
(* its own: what the request may miss is only what happens meanwhile.      *)
AberturaSemInativo ==
    \A r \in Pedidos : fase[r] = "auditar" =>
        RegistrosDe(dados[pedido[r].os]) \cap jaInativos[r] = {}

(* Every open order has its creation row, or the request that opened it is *)
(* about to write it, when no request is cut.                              *)
CriacaoNaTrilha ==
    \A o \in Abertas :
        o \in criacao \/ \E r \in Pedidos : fase[r] = "auditar" /\ pedido[r].os = o

(* A record is not made inactive while an order uses it: no reservation    *)
(* holds the part, no order in progress holds anything else.               *)
InativacaoBloqueada ==
    [][\A x \in Registros : ativo[x] /\ ~ativo'[x] => ~EmUso(x)]_vars

(* Client, vehicle and services of an order in progress are active.        *)
CadastroAtivoNaOs ==
    \A o \in Abertas : status[o] \in StatusNaoTerminais =>
        \A x \in RegistrosDe(dados[o]) \ Pecas : ativo[x]

------------------------------------------------------------------------------
\* The inductive strengthening of AberturaSemInativo

(* No record comes back: what was inactive when a request arrived still is, *)
(* so every read of the request misses it.                                 *)
LeituraSemInativo ==
    \A r \in Pedidos : fase[r] \in FasesDeAbertura =>
        LET d == pedido[r].dados
        IN  /\ \A x \in jaInativos[r] : ~ativo[x]
            /\ d.cliente \notin jaInativos[r]
            /\ fase[r] # "lerVeiculo" => d.veiculo \notin jaInativos[r]
            /\ fase[r] = "lerPecas" => servicosLidos[r] \cap jaInativos[r] = {}
            /\ fase[r] \in {"inserir", "auditar"} =>
                  (d.servicos \cup d.pecas) \cap jaInativos[r] = {}
            /\ fase[r] = "auditar" => dados[pedido[r].os] = d

(* No two requests open the same order.                                    *)
IdentidadeUnica ==
    \A r, q \in Pedidos :
        /\ fase[r] \in FasesDeAbertura /\ fase[q] \in FasesDeAbertura
        /\ pedido[r].os = pedido[q].os
        => r = q

AberturaInv == LeituraSemInativo /\ IdentidadeUnica

(* The same for one request at a time: what an opening has read so far is  *)
(* active, and what an inactivation counted as free still is.              *)
LeituraVigente(r) ==
    LET d == pedido[r].dados
    IN  /\ fase[r] = "inativar" => ~EmUso(pedido[r].registro)
        /\ fase[r] \in FasesDeAbertura =>
              /\ ativo[d.cliente]
              /\ fase[r] # "lerVeiculo" => ativo[d.veiculo]
              /\ fase[r] = "lerPecas" => \A s \in servicosLidos[r] : ativo[s]
              /\ fase[r] = "inserir" => \A s \in d.servicos : ativo[s]

SerialInv == UmPorVez /\ CadastroAtivoNaOs /\ \A r \in EmVoo : LeituraVigente(r)

==============================================================================
