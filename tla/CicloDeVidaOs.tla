---------------------------- MODULE CicloDeVidaOs ----------------------------
(***************************************************************************)
(* The life of service orders (OS) after they are opened, as the           *)
(* atendimento use cases and the Prisma repositories drive it.             *)
(*                                                                         *)
(* Up to five replicas of the API serve requests over one MySQL database.  *)
(* Nothing locks a row between a read and the write it justifies, so two   *)
(* requests interleave at every await.  One action is one round trip to    *)
(* the database (or to the notifier) together with the synchronous code    *)
(* around it; a transaction is two actions, the snapshot its first read    *)
(* takes (REPEATABLE READ) and its commit, where all its writes appear.    *)
(*                                                                         *)
(* Variables of the database:                                              *)
(*   status     OrdemServico.status                                        *)
(*   reservado  the parts whose ItemPecaOs of the OS has reservado = true  *)
(*   baixado    the parts whose ItemPecaOs of the OS has baixado = true    *)
(*   estoque    PecaEstoque.quantidadeEmEstoque                            *)
(*   historico  OrdemServicoStatusHistorico, as the set of its rows        *)
(* Variables of the requests in flight:                                    *)
(*   fase       the await a request is at                                  *)
(*   chamada    what it was asked and the status it read                   *)
(*   foto       the stock in the snapshot of its transaction               *)
(*   pecasLidas the items it decided to write, from its last read          *)
(*   movimento  a stock movement between its read and its write            *)
(* Auxiliary: saldo and entradas sum the stock movements committed;        *)
(* pedidos and movimentos count requests and carry the bounds of a run.    *)
(***************************************************************************)
EXTENDS Integers, FiniteSets, OrdemStatus

CONSTANTS
    Ordens,          \* service orders
    Pecas,           \* parts of the stock
    Pedidos,         \* requests on an OS that may be in flight together
    Balcao,          \* stock movements that may be in flight together
    Quantidade,      \* Quantidade[o][p]: units of p in the OS, 0 for no item
    EstoqueInicial,  \* units in stock when the OS are opened
    Operacoes,       \* operations the environment calls
    Deltas,          \* signed quantities of a stock movement
    Falhas,          \* TRUE: a request may be cut at any await
    MaxPedidos,      \* bound: requests on OS ever received
    MaxMovimentos    \* bound: stock movements ever received

ASSUME QuantidadeAssumption == Quantidade \in [Ordens -> [Pecas -> Nat]]
ASSUME EstoqueAssumption == EstoqueInicial \in [Pecas -> Nat]
ASSUME OperacoesAssumption == Operacoes \subseteq OperacoesOs
ASSUME DeltasAssumption == Deltas \subseteq Int
ASSUME FalhasAssumption == Falhas \in BOOLEAN
ASSUME LimitesAssumption == MaxPedidos \in Nat /\ MaxMovimentos \in Nat

VARIABLES status, reservado, baixado, estoque, historico,
          fase, chamada, foto, pecasLidas, movimento,
          saldo, entradas, pedidos, movimentos

banco == <<status, reservado, baixado, estoque, historico>>
emVoo == <<fase, chamada, foto, pecasLidas>>
balcao == <<movimento, saldo, entradas, movimentos>>
vars == <<banco, emVoo, balcao, pedidos>>

------------------------------------------------------------------------------
\* Types and helpers

\* A row of the audit trail: from, to.
Linha == [os: Ordens, de: StatusOs, para: StatusOs]

Chamada == [op: OperacoesOs, os: Ordens, de: StatusOs, para: StatusOs]
SemChamada == [op |-> "nenhuma"]

Movimento == [peca: Pecas, delta: Int, lida: Int]
SemMovimento == [delta |-> 0]

Fases == {"livre", "gravar", "lerItens", "txFinalizar", "abrirTx", "txReserva",
          "reler", "auditar", "enviarOrcamento", "avisar"}

\* The parts the OS has an item for (itensPeca; one item per part).
PecasDe(o) == {p \in Pecas : Quantidade[o][p] > 0}

SemFoto == [p \in Pecas |-> 0]

Ordem(r) == chamada[r].os

\* Mutant: the two sides of the row swapped.
LinhaInvertida(r) == [os |-> Ordem(r), de |-> chamada[r].para, para |-> chamada[r].de]

LinhaDe(r) == [os |-> Ordem(r), de |-> chamada[r].de, para |-> chamada[r].para]

\* Mutant: an approval that goes through updateStatus, without its reservation.
FaseDeEscritaSemReserva(para) == IF para = "FINALIZADA" THEN "lerItens" ELSE "gravar"

\* The first await after the assertion: finalizar reads the reserved items,
\* aprovarOrcamentoComReserva opens a transaction, the rest is one UPDATE.
FaseDeEscrita(para) ==
    CASE para = "FINALIZADA"  -> "lerItens"
      [] para = "EM_EXECUCAO" -> "abrirTx"
      [] OTHER                -> "gravar"

\* Mutant: the notice leaves without the audit row.
FaseAposEscritaSemTrilha(r) == IF chamada[r].op = "webhook" THEN "reler" ELSE "avisar"

\* Only the webhook reads the OS again between the write and the audit.
FaseAposEscrita(r) == IF chamada[r].op = "webhook" THEN "reler" ELSE "auditar"

\* Mutant: the context of the request is released, the request goes on.
EncerrarPelaMetade(r) ==
    /\ chamada' = [chamada EXCEPT ![r] = SemChamada]
    /\ UNCHANGED <<fase, foto, pecasLidas>>

\* The request ends: answered, or cut.
Encerrar(r) ==
    /\ fase' = [fase EXCEPT ![r] = "livre"]
    /\ chamada' = [chamada EXCEPT ![r] = SemChamada]
    /\ foto' = [foto EXCEPT ![r] = SemFoto]
    /\ pecasLidas' = [pecasLidas EXCEPT ![r] = {}]

------------------------------------------------------------------------------
Init ==
    /\ status = [o \in Ordens |-> "RECEBIDA"]
    /\ reservado = [o \in Ordens |-> {}]
    /\ baixado = [o \in Ordens |-> {}]
    /\ estoque = EstoqueInicial
    /\ historico = {}
    /\ fase = [r \in Pedidos |-> "livre"]
    /\ chamada = [r \in Pedidos |-> SemChamada]
    /\ foto = [r \in Pedidos |-> SemFoto]
    /\ pecasLidas = [r \in Pedidos |-> {}]
    /\ movimento = [b \in Balcao |-> SemMovimento]
    /\ saldo = [p \in Pecas |-> 0]
    /\ entradas = [p \in Pecas |-> 0]
    /\ pedidos = 0
    /\ movimentos = 0

------------------------------------------------------------------------------
\* Mutant: the use case that forgets to ask OrderStatusService.
AtenderSemValidar(r, o, op, para) ==
    /\ op \in Operacoes
    /\ fase[r] = "livre"
    /\ pedidos < MaxPedidos
    /\ fase' = [fase EXCEPT ![r] = FaseDeEscrita(para)]
    /\ chamada' = [chamada EXCEPT
                     ![r] = [op |-> op, os |-> o, de |-> status[o], para |-> para]]
    /\ pedidos' = pedidos + 1
    /\ UNCHANGED <<banco, foto, pecasLidas, balcao>>

(* A request arrives, reads the OS and passes the assertion of its use     *)
(* case.  One that fails it answers 409 and changes nothing: a stuttering  *)
(* step, as are the 404 of an OS that does not exist and of a client who   *)
(* is not its owner.                                                       *)
Atender(r, o, op, para) ==
    /\ op \in Operacoes
    /\ fase[r] = "livre"
    /\ pedidos < MaxPedidos
    /\ TransicaoPermitida(op, status[o], para)
    /\ fase' = [fase EXCEPT ![r] = FaseDeEscrita(para)]
    /\ chamada' = [chamada EXCEPT
                     ![r] = [op |-> op, os |-> o, de |-> status[o], para |-> para]]
    /\ pedidos' = pedidos + 1
    /\ UNCHANGED <<banco, foto, pecasLidas, balcao>>

\* The requests, one per use case.
IniciarDiagnostico(r, o) == Atender(r, o, "diagnostico", "EM_DIAGNOSTICO")
GerarOrcamento(r, o) == Atender(r, o, "orcamento", "AGUARDANDO_APROVACAO")
AprovarOrcamento(r, o) == Atender(r, o, "aprovar", "EM_EXECUCAO")
RejeitarOrcamento(r, o) == Atender(r, o, "rejeitar", "REJEITADA")
FinalizarOs(r, o) == Atender(r, o, "finalizar", "FINALIZADA")
EntregarVeiculo(r, o) == Atender(r, o, "entregar", "ENTREGUE")
ProcessarWebhook(r, o) == \E para \in StatusOs : Atender(r, o, "webhook", para)

Requisicao(r, o) ==
    \/ IniciarDiagnostico(r, o)
    \/ GerarOrcamento(r, o)
    \/ AprovarOrcamento(r, o)
    \/ RejeitarOrcamento(r, o)
    \/ FinalizarOs(r, o)
    \/ EntregarVeiculo(r, o)
    \/ ProcessarWebhook(r, o)

\* Mutant: a rejection that also gives back what the OS had reserved.
GravarStatusDevolvendo(r) ==
    /\ fase[r] = "gravar"
    /\ status' = [status EXCEPT ![Ordem(r)] = chamada[r].para]
    /\ reservado' = [reservado EXCEPT
                       ![Ordem(r)] = IF chamada[r].para = "REJEITADA" THEN {} ELSE @]
    /\ fase' = [fase EXCEPT ![r] = FaseAposEscrita(r)]
    /\ UNCHANGED <<baixado, estoque, historico, chamada, foto, pecasLidas, balcao, pedidos>>

(* updateStatus, rejeitarOrcamento, gerarOrcamento: an UPDATE by id that   *)
(* does not look at the status it replaces.                                *)
GravarStatus(r) ==
    /\ fase[r] = "gravar"
    /\ status' = [status EXCEPT ![Ordem(r)] = chamada[r].para]
    /\ fase' = [fase EXCEPT ![r] = FaseAposEscrita(r)]
    /\ UNCHANGED <<reservado, baixado, estoque, historico, chamada, foto,
                   pecasLidas, balcao, pedidos>>

\* Mutant: the filter on reservado inverted.
LerItensNaoReservados(r) ==
    /\ fase[r] = "lerItens"
    /\ pecasLidas' = [pecasLidas EXCEPT ![r] = PecasDe(Ordem(r)) \ reservado[Ordem(r)]]
    /\ fase' = [fase EXCEPT ![r] = "txFinalizar"]
    /\ UNCHANGED <<banco, chamada, foto, balcao, pedidos>>

(* finalizar, first round trip: the reserved items, outside its transaction *)
LerItensReservados(r) ==
    /\ fase[r] = "lerItens"
    /\ pecasLidas' = [pecasLidas EXCEPT ![r] = reservado[Ordem(r)] \ baixado[Ordem(r)]]
    /\ fase' = [fase EXCEPT ![r] = "txFinalizar"]
    /\ UNCHANGED <<banco, chamada, foto, balcao, pedidos>>

\* Mutant: FINALIZADA without consuming the items.
FinalizarSemBaixa(r) ==
    /\ fase[r] = "txFinalizar"
    /\ status' = [status EXCEPT ![Ordem(r)] = "FINALIZADA"]
    /\ fase' = [fase EXCEPT ![r] = FaseAposEscrita(r)]
    /\ UNCHANGED <<reservado, baixado, estoque, historico, chamada, foto,
                   pecasLidas, balcao, pedidos>>

(* finalizar, its transaction: the items read are consumed, OS FINALIZADA  *)
Finalizar(r) ==
    /\ fase[r] = "txFinalizar"
    /\ baixado' = [baixado EXCEPT ![Ordem(r)] = @ \cup pecasLidas[r]]
    /\ status' = [status EXCEPT ![Ordem(r)] = "FINALIZADA"]
    /\ fase' = [fase EXCEPT ![r] = FaseAposEscrita(r)]
    /\ UNCHANGED <<reservado, estoque, historico, chamada, foto,
                   pecasLidas, balcao, pedidos>>

\* What the transaction of an approval reads: the items not yet reserved.
PecasPendentes(o) == PecasDe(o) \ reservado[o]

\* Mutant: the stock is not looked at.
EstoqueIgnorado(o) == TRUE

EstoqueSuficiente(o) == \A p \in PecasPendentes(o) : estoque[p] >= Quantidade[o][p]

(* aprovarOrcamentoComReserva, first read of the transaction: items and    *)
(* stock in one snapshot, enough of every pending part.                    *)
AbrirTxReserva(r) ==
    /\ fase[r] = "abrirTx"
    /\ EstoqueSuficiente(Ordem(r))
    /\ foto' = [foto EXCEPT ![r] = estoque]
    /\ pecasLidas' = [pecasLidas EXCEPT ![r] = PecasPendentes(Ordem(r))]
    /\ fase' = [fase EXCEPT ![r] = "txReserva"]
    /\ UNCHANGED <<banco, chamada, balcao, pedidos>>

(* The same read when some part is short: 422 and rollback of the lot.     *)
RecusarReserva(r) ==
    /\ fase[r] = "abrirTx"
    /\ ~EstoqueSuficiente(Ordem(r))
    /\ Encerrar(r)
    /\ UNCHANGED <<banco, balcao, pedidos>>

\* Mutant: the stock decremented from its current value, not written from the snapshot.
ReservarDecrementando(r) ==
    /\ fase[r] = "txReserva"
    /\ estoque' = [p \in Pecas |-> IF p \in pecasLidas[r]
                                  THEN estoque[p] - Quantidade[Ordem(r)][p] ELSE estoque[p]]
    /\ reservado' = [reservado EXCEPT ![Ordem(r)] = @ \cup pecasLidas[r]]
    /\ status' = [status EXCEPT ![Ordem(r)] = "EM_EXECUCAO"]
    /\ fase' = [fase EXCEPT ![r] = FaseAposEscrita(r)]
    /\ UNCHANGED <<baixado, historico, chamada, foto, pecasLidas, balcao, pedidos>>

\* Mutant: the same writes outside a transaction, one part at a time.
ReservarSemTransacao(r) ==
    /\ fase[r] = "txReserva"
    /\ \E p \in pecasLidas[r] :
          /\ estoque' = [estoque EXCEPT ![p] = foto[r][p] - Quantidade[Ordem(r)][p]]
          /\ reservado' = [reservado EXCEPT ![Ordem(r)] = @ \cup {p}]
          /\ pecasLidas' = [pecasLidas EXCEPT ![r] = @ \ {p}]
    /\ UNCHANGED <<status, baixado, historico, fase, chamada, foto, balcao, pedidos>>

\* Mutant: the stock goes down and the items are not marked.
ReservarSemMarcar(r) ==
    /\ fase[r] = "txReserva"
    /\ estoque' = [p \in Pecas |-> IF p \in pecasLidas[r]
                                  THEN foto[r][p] - Quantidade[Ordem(r)][p] ELSE estoque[p]]
    /\ status' = [status EXCEPT ![Ordem(r)] = "EM_EXECUCAO"]
    /\ fase' = [fase EXCEPT ![r] = FaseAposEscrita(r)]
    /\ UNCHANGED <<reservado, baixado, historico, chamada, foto, pecasLidas, balcao, pedidos>>

(* aprovarOrcamentoComReserva, commit: each pending part gets the absolute *)
(* value snapshot - quantity, its item is reserved, the OS is EM_EXECUCAO. *)
Reservar(r) ==
    /\ fase[r] = "txReserva"
    /\ estoque' = [p \in Pecas |->
                     IF p \in pecasLidas[r]
                     THEN foto[r][p] - Quantidade[Ordem(r)][p]
                     ELSE estoque[p]]
    /\ reservado' = [reservado EXCEPT ![Ordem(r)] = @ \cup pecasLidas[r]]
    /\ status' = [status EXCEPT ![Ordem(r)] = "EM_EXECUCAO"]
    /\ fase' = [fase EXCEPT ![r] = FaseAposEscrita(r)]
    /\ UNCHANGED <<baixado, historico, chamada, foto, pecasLidas,
                   balcao, pedidos>>

\* Mutant: the webhook records the status it had read at first.
RelerOrdemAntiga(r) ==
    /\ fase[r] = "reler"
    /\ chamada' = [chamada EXCEPT ![r].para = chamada[r].de]
    /\ fase' = [fase EXCEPT ![r] = "auditar"]
    /\ UNCHANGED <<banco, foto, pecasLidas, balcao, pedidos>>

(* The webhook reads the OS again and reports whatever status it finds.    *)
RelerOrdem(r) ==
    /\ fase[r] = "reler"
    /\ chamada' = [chamada EXCEPT ![r].para = status[Ordem(r)]]
    /\ fase' = [fase EXCEPT ![r] = "auditar"]
    /\ UNCHANGED <<banco, foto, pecasLidas, balcao, pedidos>>

(* recordOsTransition: an INSERT of its own, after the status committed.   *)
GravarHistorico(r) ==
    /\ fase[r] = "auditar"
    /\ historico' = historico \cup {LinhaDe(r)}
    /\ fase' = [fase EXCEPT ![r] = IF chamada[r].op = "orcamento"
                                   THEN "enviarOrcamento" ELSE "avisar"]
    /\ UNCHANGED <<status, reservado, baixado, estoque, chamada, foto,
                   pecasLidas, balcao, pedidos>>

(* gerar-orcamento sends the budget itself before the notice of the change. *)
EnviarOrcamento(r) ==
    /\ fase[r] = "enviarOrcamento"
    /\ fase' = [fase EXCEPT ![r] = "avisar"]
    /\ UNCHANGED <<banco, chamada, foto, pecasLidas, balcao, pedidos>>

(* notificarMudancaStatus, then the answer.  The notice itself leaves no   *)
(* trace in the database.                                                  *)
Avisar(r) ==
    /\ fase[r] = "avisar"
    /\ Encerrar(r)
    /\ UNCHANGED <<banco, balcao, pedidos>>

(* A database error, a deadlock victim, an SNS error, a killed pod: the    *)
(* request stops at its await.  What it committed stays, an open           *)
(* transaction rolls back, nobody resumes it.                              *)
Interromper(r) ==
    /\ Falhas
    /\ fase[r] # "livre"
    /\ Encerrar(r)
    /\ UNCHANGED <<banco, balcao, pedidos>>

------------------------------------------------------------------------------
\* Mutant: the result below zero is not refused.
AbrirMovimentacaoSemLimite(b, p, d) ==
    /\ movimento[b] = SemMovimento
    /\ movimentos < MaxMovimentos
    /\ movimento' = [movimento EXCEPT ![b] = [peca |-> p, delta |-> d, lida |-> estoque[p]]]
    /\ movimentos' = movimentos + 1
    /\ UNCHANGED <<banco, emVoo, saldo, entradas, pedidos>>

(* aplicarMovimentacao, the read of its transaction: a result below zero   *)
(* answers 422 and changes nothing.                                        *)
AbrirMovimentacao(b, p, d) ==
    /\ movimento[b] = SemMovimento
    /\ movimentos < MaxMovimentos
    /\ estoque[p] + d >= 0
    /\ movimento' = [movimento EXCEPT
                       ![b] = [peca |-> p, delta |-> d, lida |-> estoque[p]]]
    /\ movimentos' = movimentos + 1
    /\ UNCHANGED <<banco, emVoo, saldo, entradas, pedidos>>

(* aplicarMovimentacao, commit: the absolute value read + delta.           *)
Movimentar(b) ==
    /\ movimento[b] # SemMovimento
    /\ LET m == movimento[b]
       IN /\ estoque' = [estoque EXCEPT ![m.peca] = m.lida + m.delta]
          /\ saldo' = [saldo EXCEPT ![m.peca] = @ + m.delta]
          /\ entradas' = [entradas EXCEPT ![m.peca] = @ + (IF m.delta > 0 THEN m.delta ELSE 0)]
    /\ movimento' = [movimento EXCEPT ![b] = SemMovimento]
    /\ UNCHANGED <<status, reservado, baixado, historico, emVoo, pedidos, movimentos>>

InterromperMovimentacao(b) ==
    /\ Falhas
    /\ movimento[b] # SemMovimento
    /\ movimento' = [movimento EXCEPT ![b] = SemMovimento]
    /\ UNCHANGED <<banco, emVoo, saldo, entradas, movimentos, pedidos>>

------------------------------------------------------------------------------
\* One step of a request in flight.
Passo(r) ==
    \/ GravarStatus(r)
    \/ LerItensReservados(r)
    \/ Finalizar(r)
    \/ AbrirTxReserva(r)
    \/ RecusarReserva(r)
    \/ Reservar(r)
    \/ RelerOrdem(r)
    \/ GravarHistorico(r)
    \/ EnviarOrcamento(r)
    \/ Avisar(r)

Next ==
    \/ \E r \in Pedidos, o \in Ordens : Requisicao(r, o)
    \/ \E r \in Pedidos : Passo(r) \/ Interromper(r)
    \/ \E b \in Balcao, p \in Pecas, d \in Deltas : AbrirMovimentacao(b, p, d)
    \/ \E b \in Balcao : Movimentar(b) \/ InterromperMovimentacao(b)

Spec == Init /\ [][Next]_vars

\* Node runs every pending continuation and every query returns or throws, so
\* a request in flight keeps moving; nobody is obliged to send a new one.
Justica ==
    /\ \A r \in Pedidos : WF_vars(Passo(r))
    /\ \A b \in Balcao : WF_vars(Movimentar(b))

SpecJusta == Spec /\ Justica

\* One request at a time, of either kind: what the test suites exercise.
EmVoo == {r \in Pedidos : fase[r] # "livre"}
BalcaoEmVoo == {b \in Balcao : movimento[b] # SemMovimento}
UmPorVez ==
    /\ \A r, q \in EmVoo : r = q
    /\ \A b, c \in BalcaoEmVoo : b = c
    /\ EmVoo = {} \/ BalcaoEmVoo = {}

SpecSerial == Init /\ [][Next /\ UmPorVez']_vars

------------------------------------------------------------------------------
\* Properties

TypeOK ==
    /\ status \in [Ordens -> StatusOs]
    /\ reservado \in [Ordens -> SUBSET Pecas]
    /\ baixado \in [Ordens -> SUBSET Pecas]
    /\ estoque \in [Pecas -> Int]
    /\ historico \subseteq Linha
    /\ fase \in [Pedidos -> Fases]
    /\ chamada \in [Pedidos -> Chamada \cup {SemChamada}]
    /\ \A r \in Pedidos : fase[r] # "livre" => chamada[r] \in Chamada
    /\ foto \in [Pedidos -> [Pecas -> Int]]
    /\ pecasLidas \in [Pedidos -> SUBSET Pecas]
    /\ movimento \in [Balcao -> Movimento \cup {SemMovimento}]
    /\ saldo \in [Pecas -> Int]
    /\ entradas \in [Pecas -> Nat]
    /\ pedidos \in 0..MaxPedidos
    /\ movimentos \in 0..MaxMovimentos

(* A status is backed by the parts of the OS when nothing it stands for is *)
(* missing: work starts with every part reserved, and an OS is finished or *)
(* delivered with every part consumed.                                     *)
Lastro(s, o) ==
    /\ s = "EM_EXECUCAO" => reservado[o] = PecasDe(o)
    /\ s \in {"FINALIZADA", "ENTREGUE"} => baixado[o] = PecasDe(o)

(* However requests interleave, the current status of every OS is backed   *)
(* by its parts: finalizar consumes items it read outside its transaction, *)
(* and approvals race with each other, yet no part is left behind.         *)
StatusComLastro == \A o \in Ordens : Lastro(status[o], o)

(* So is everything the audit trail says, on both sides of every row, even *)
(* the rows the webhook writes with a status it read after its own write.  *)
TrilhaComLastro ==
    \A l \in historico : Lastro(l.de, l.os) /\ Lastro(l.para, l.os)

(* The parts of an OS are reserved together and consumed together, and     *)
(* none is consumed before it is reserved.                                 *)
TudoOuNada ==
    \A o \in Ordens : /\ reservado[o] \in {{}, PecasDe(o)}
                      /\ baixado[o] \in {{}, reservado[o]}

(* The stock of a part never goes below zero nor above what was there plus *)
(* every entry committed, although reservations and movements overwrite it *)
(* with absolute values computed from snapshots that may be stale.         *)
EstoqueLimitado ==
    \A p \in Pecas : 0 <= estoque[p] /\ estoque[p] <= EstoqueInicial[p] + entradas[p]

(* A client is told of a change only if the audit trail already holds it:  *)
(* recordOsTransition comes before notificarMudancaStatus in every handler. *)
AvisoNaTrilha ==
    \A r \in Pedidos :
        fase[r] \in {"enviarOrcamento", "avisar"} => LinhaDe(r) \in historico

(* When no call fails, the current status of an OS is in its trail, or a   *)
(* request in flight is about to put it there: the last writer of a status *)
(* records it even when the webhook writes down what it reads back.        *)
Registrado(o, s) ==
    \/ s = "RECEBIDA"
    \/ \E l \in historico : l.os = o /\ l.para = s
    \/ \E r \in Pedidos :
         \/ fase[r] = "auditar" /\ Ordem(r) = o /\ chamada[r].para = s
         \/ fase[r] = "reler" /\ Ordem(r) = o

StatusNaTrilha == \A o \in Ordens : Registrado(o, status[o])

(* The status of an OS moves only along the documented transition graph.   *)
GrafoRespeitado ==
    [][\A o \in Ordens : status'[o] # status[o] =>
          <<status[o], status'[o]>> \in GrafoDocumentado]_vars

(* Every row of the trail is an edge of the transition graph.              *)
TrilhaNoGrafo == \A l \in historico : <<l.de, l.para>> \in GrafoDocumentado

(* A rejected OS holds no part: nothing is reserved and not yet consumed.  *)
RejeitadaSemReserva ==
    \A o \in Ordens : status[o] = "REJEITADA" => reservado[o] = baixado[o]

(* The units of p the OS hold, consumed or not, told apart by their OS.    *)
Unidades(p) ==
    UNION {{o} \X (1..Quantidade[o][p]) : o \in {q \in Ordens : p \in reservado[q]}}

Comprometido(p) == Cardinality(Unidades(p))

(* No unit appears or disappears: what is in stock plus what OS hold is    *)
(* what there was plus the movements committed.                            *)
EstoqueConservado ==
    \A p \in Pecas : estoque[p] + Comprometido(p) = EstoqueInicial[p] + saldo[p]

(* Liveness: a status that an OS keeps ends up in its trail, even when the *)
(* request that wrote it records, through the webhook, what it reads back. *)
StatusChegaATrilha ==
    \A o \in Ordens, s \in StatusOs \ {"RECEBIDA"} :
        status[o] = s ~> \/ status[o] # s
                         \/ \E l \in historico : l.os = o /\ l.para = s

------------------------------------------------------------------------------
\* The inductive strengthening: what each await of a handler may rely on.

DepoisDaTrilha == {"auditar", "enviarOrcamento", "avisar"}

(* The status a request read, and the one it is about to write or to       *)
(* report, are backed by parts when it acts on them, however old the read. *)
PedidoComLastro ==
    \A r \in Pedidos : fase[r] # "livre" =>
        /\ Lastro(chamada[r].de, Ordem(r))
        /\ fase[r] = "gravar" => Lastro(chamada[r].para, Ordem(r))
        /\ fase[r] \in DepoisDaTrilha => Lastro(chamada[r].para, Ordem(r))

(* The items a request read, plus those already written, are all of them.  *)
LeituraCompleta ==
    \A r \in Pedidos :
        /\ fase[r] \in {"lerItens", "txFinalizar"} =>
              chamada[r].para = "FINALIZADA" /\ reservado[Ordem(r)] = PecasDe(Ordem(r))
        /\ fase[r] \in {"abrirTx", "txReserva"} => chamada[r].para = "EM_EXECUCAO"
        /\ fase[r] = "txFinalizar" =>
              pecasLidas[r] \cup baixado[Ordem(r)] = PecasDe(Ordem(r))
        /\ fase[r] = "txReserva" =>
              pecasLidas[r] \cup reservado[Ordem(r)] = PecasDe(Ordem(r))

PecasInv == /\ TudoOuNada /\ StatusComLastro /\ TrilhaComLastro
            /\ PedidoComLastro /\ LeituraCompleta

(* What a transaction will write to the stock is within its limits.        *)
FotoSuficiente ==
    \A r \in Pedidos : fase[r] = "txReserva" =>
        \A p \in pecasLidas[r] :
            /\ Quantidade[Ordem(r)][p] <= foto[r][p]
            /\ foto[r][p] <= EstoqueInicial[p] + entradas[p]

LeituraSuficiente ==
    \A b \in Balcao : movimento[b] # SemMovimento =>
        /\ 0 <= movimento[b].lida + movimento[b].delta
        /\ movimento[b].lida <= EstoqueInicial[movimento[b].peca] + entradas[movimento[b].peca]

EstoqueInv == EstoqueLimitado /\ FotoSuficiente /\ LeituraSuficiente

(* One request at a time: what a request read is what the database holds   *)
(* until it writes, and what it wrote is what it reads back.               *)
AntesDaEscrita == {"gravar", "lerItens", "txFinalizar", "abrirTx", "txReserva"}

PedidoAtual(r) ==
    /\ <<chamada[r].de, chamada[r].para>> \in GrafoDocumentado
    /\ status[Ordem(r)] = IF fase[r] \in AntesDaEscrita
                          THEN chamada[r].de ELSE chamada[r].para
    /\ fase[r] = "txReserva" =>
          foto[r] = estoque /\ pecasLidas[r] \cap reservado[Ordem(r)] = {}

LeiturasAtuais ==
    /\ \A r \in EmVoo : PedidoAtual(r)
    /\ \A b \in BalcaoEmVoo : movimento[b].lida = estoque[movimento[b].peca]

(* Only an OS that was approved holds parts.                               *)
SoAprovadaReserva ==
    \A o \in Ordens : reservado[o] # {} =>
        status[o] \in {"EM_EXECUCAO", "FINALIZADA", "ENTREGUE"}

SerialInv ==
    /\ UmPorVez /\ LeiturasAtuais /\ SoAprovadaReserva
    /\ TrilhaNoGrafo /\ EstoqueConservado
    /\ \A p \in Pecas : IsFiniteSet(Unidades(p))

------------------------------------------------------------------------------
\* The parts of each OS as the abstract specification sees them.
PecasAbstratas ==
    [o \in Ordens |-> IF baixado[o] = PecasDe(o) THEN "baixadas"
                      ELSE IF reservado[o] = PecasDe(o) THEN "reservadas"
                      ELSE "pendentes"]

Promessa == INSTANCE PecasDaOs WITH
                pecas <- PecasAbstratas,
                SemPecas <- {o \in Ordens : PecasDe(o) = {}}

(* Implementation: however requests interleave, fail or die, the parts of  *)
(* every OS keep the promise of PecasDaOs.                                 *)
CumprePecasDaOs == Promessa!Spec

==============================================================================
