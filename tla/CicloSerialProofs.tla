--------------------------- MODULE CicloSerialProofs ---------------------------
(***************************************************************************)
(* Proofs about CicloDeVidaOs when one request or stock movement is in     *)
(* flight at a time: what CorridaEstoque and CorridaRejeicao see go wrong  *)
(* is right as long as nothing races, even when requests are cut.          *)
(***************************************************************************)
EXTENDS CicloDeVidaOsProofs, FiniteSetTheorems

------------------------------------------------------------------------------
\* A serial behaviour is a behaviour

NextSerial == Next /\ UmPorVez'

LEMMA SerialEhSpec == SpecSerial => Spec
BY PTL DEF SpecSerial, Spec

(* Nothing else is in flight while a request is.                           *)
LEMMA Sozinho ==
    ASSUME UmPorVez, NEW r \in Pedidos, fase[r] # "livre"
    PROVE  /\ \A q \in Pedidos : fase[q] # "livre" => q = r
           /\ BalcaoEmVoo = {}
BY DEF UmPorVez, EmVoo

LEMMA BalcaoSozinho ==
    ASSUME UmPorVez, NEW b \in Balcao, movimento[b] # SemMovimento
    PROVE  EmVoo = {} /\ \A c \in Balcao : movimento[c] # SemMovimento => c = b
BY DEF UmPorVez, BalcaoEmVoo

------------------------------------------------------------------------------
\* The graph of transitions

LEMMA TransicaoNoGrafo ==
    ASSUME NEW op, NEW de, NEW para, TransicaoPermitida(op, de, para)
    PROVE  <<de, para>> \in GrafoDocumentado
BY TransicaoTipada DEF GrafoDocumentado

(* An approved OS stays approved: no edge leaves these three statuses.     *)
LEMMA AprovadaNaoVolta ==
    ASSUME NEW de, NEW para, <<de, para>> \in GrafoDocumentado,
           de \in {"EM_EXECUCAO", "FINALIZADA", "ENTREGUE"}
    PROVE  para \in {"EM_EXECUCAO", "FINALIZADA", "ENTREGUE"}
<1>1. \E op \in OperacoesOs : TransicaoPermitida(op, de, para)
  BY DEF GrafoDocumentado
<1>. QED
  BY <1>1 DEF TransicaoPermitida, TransicoesWebhook, TransicoesDiretas,
              StatusParaGerarOrcamento

------------------------------------------------------------------------------
\* Units held by orders

LEMMA UnidadesDeUma ==
    ASSUME NEW o, NEW n \in Nat
    PROVE  IsFiniteSet({o} \X (1..n)) /\ Cardinality({o} \X (1..n)) = n
<1>1. /\ IsFiniteSet(1..n)
      /\ Cardinality(1..n) = IF 1 > n THEN 0 ELSE n - 1 + 1
  <2>1. 1 \in Int /\ n \in Int
    OBVIOUS
  <2>. QED  BY Zenon, <2>1, FS_Interval
<1>2. Cardinality(1..n) = n
  BY <1>1
<1>3. IsFiniteSet({o}) /\ Cardinality({o}) = 1
  BY FS_Singleton
<1>4. /\ IsFiniteSet({o} \X (1..n))
      /\ Cardinality({o} \X (1..n)) = Cardinality({o}) * Cardinality(1..n)
  BY Zenon, <1>1, <1>3, FS_Product
<1>. QED
  BY <1>2, <1>3, <1>4

(* Units held after an OS that held none of p reserves it.                 *)
LEMMA UnidadesReservadas ==
    ASSUME NEW p \in Pecas, NEW o \in Ordens, TypeOK, p \notin reservado[o],
           IsFiniteSet(Unidades(p)),
           \A w \in Ordens \ {o} : p \in reservado'[w] <=> p \in reservado[w],
           p \in reservado'[o]
    PROVE  /\ IsFiniteSet(Unidades(p)')
           /\ Comprometido(p)' = Comprometido(p) + Quantidade[o][p]
<1>. DEFINE n == Quantidade[o][p]
            Novas == {o} \X (1..n)
<1>1. n \in Nat
  BY QuantidadeAssumption
<1>2. IsFiniteSet(Novas) /\ Cardinality(Novas) = n
  BY <1>1, UnidadesDeUma
<1>3. Unidades(p)' = Unidades(p) \cup Novas
  BY DEF Unidades
<1>4. Unidades(p) \cap Novas = {}
  BY DEF Unidades
<1>5. /\ IsFiniteSet(Unidades(p) \cup Novas)
      /\ Cardinality(Unidades(p) \cup Novas)
           = Cardinality(Unidades(p)) + Cardinality(Novas) - Cardinality({})
  BY <1>2, <1>4, FS_Union
<1>6. Cardinality({}) = 0 /\ Cardinality(Unidades(p)) \in Nat
  BY FS_EmptySet, FS_CardinalityType
<1>. QED
  BY <1>1, <1>2, <1>3, <1>5, <1>6 DEF Comprometido

LEMMA UnidadesIguais ==
    ASSUME NEW p, \A w \in Ordens : p \in reservado'[w] <=> p \in reservado[w]
    PROVE  Unidades(p)' = Unidades(p) /\ Comprometido(p)' = Comprometido(p)
<1>1. {q \in Ordens : p \in reservado'[q]} = {q \in Ordens : p \in reservado[q]}
  OBVIOUS
<1>2. Unidades(p)' = Unidades(p)
  BY <1>1 DEF Unidades
<1>. QED  BY <1>2 DEF Comprometido

(* The stock balance survives a step that touches neither side of it.      *)
Balanco == EstoqueConservado /\ \A p \in Pecas : IsFiniteSet(Unidades(p))

LEMMA BalancoEstavel ==
    ASSUME Balanco, UNCHANGED <<estoque, reservado, saldo>>
    PROVE  Balanco'
BY UnidadesIguais DEF Balanco, EstoqueConservado

(* A reservation takes from the stock what its OS now holds.               *)
LEMMA ReservarBalanco ==
    ASSUME NEW r \in Pedidos, TypeOK, Balanco, PedidoAtual(r), Reservar(r)
    PROVE  Balanco'
<1>. DEFINE o == Ordem(r)
<1>1. /\ fase[r] = "txReserva" /\ UNCHANGED saldo /\ o \in Ordens
      /\ foto[r] = estoque /\ pecasLidas[r] \cap reservado[o] = {}
      /\ reservado' = [reservado EXCEPT ![o] = @ \cup pecasLidas[r]]
      /\ estoque' = [p \in Pecas |-> IF p \in pecasLidas[r]
                                     THEN estoque[p] - Quantidade[o][p] ELSE estoque[p]]
  BY DEF Reservar, PedidoAtual, TypeOK, Chamada, Ordem, balcao
<1>. HIDE DEF o
<1>. SUFFICES ASSUME NEW p \in Pecas
              PROVE  /\ IsFiniteSet(Unidades(p)')
                     /\ estoque'[p] + Comprometido(p)' = EstoqueInicial[p] + saldo'[p]
  BY DEF Balanco, EstoqueConservado
<1>2. /\ estoque[p] + Comprometido(p) = EstoqueInicial[p] + saldo[p]
      /\ IsFiniteSet(Unidades(p)) /\ Comprometido(p) \in Nat
      /\ estoque[p] \in Int /\ Quantidade[o][p] \in Nat
      /\ EstoqueInicial[p] \in Int /\ saldo[p] \in Int
  <2>1. /\ estoque[p] + Comprometido(p) = EstoqueInicial[p] + saldo[p]
        /\ IsFiniteSet(Unidades(p))
    BY DEF Balanco, EstoqueConservado
  <2>2. Comprometido(p) \in Nat
    BY <2>1, FS_CardinalityType DEF Comprometido
  <2>3. Quantidade[o][p] \in Nat
    BY <1>1, QuantidadeAssumption
  <2>4. estoque[p] \in Int /\ EstoqueInicial[p] \in Int /\ saldo[p] \in Int
    BY EstoqueAssumption DEF TypeOK
  <2>. QED  BY <2>1, <2>2, <2>3, <2>4
<1>3. \A w \in Ordens \ {o} : reservado'[w] = reservado[w]
  BY <1>1 DEF TypeOK
<1>4. reservado'[o] = reservado[o] \cup pecasLidas[r]
  BY <1>1 DEF TypeOK
<1>5. CASE p \in pecasLidas[r]
  <2>1. /\ IsFiniteSet(Unidades(p)')
        /\ Comprometido(p)' = Comprometido(p) + Quantidade[o][p]
    BY <1>1, <1>2, <1>3, <1>4, <1>5, UnidadesReservadas
  <2>2. estoque'[p] = estoque[p] - Quantidade[o][p]
    BY <1>1, <1>5
  <2>. QED  BY <1>1, <1>2, <2>1, <2>2
<1>6. CASE p \notin pecasLidas[r]
  <2>1. Unidades(p)' = Unidades(p) /\ Comprometido(p)' = Comprometido(p)
    BY <1>3, <1>4, <1>6, UnidadesIguais
  <2>2. estoque'[p] = estoque[p]
    BY <1>1, <1>6
  <2>. QED  BY <1>1, <1>2, <2>1, <2>2
<1>. QED  BY <1>5, <1>6

(* A movement adds the same delta to the stock and to the balance.         *)
LEMMA MovimentarBalanco ==
    ASSUME NEW b \in Balcao, TypeOK, Balanco, Movimentar(b),
           movimento[b].lida = estoque[movimento[b].peca]
    PROVE  Balanco'
<1>. DEFINE q == movimento[b].peca
            d == movimento[b].delta
<1>1. /\ movimento[b] \in Movimento /\ q \in Pecas /\ d \in Int
      /\ UNCHANGED reservado
      /\ estoque' = [estoque EXCEPT ![q] = estoque[q] + d]
      /\ saldo' = [saldo EXCEPT ![q] = @ + d]
  BY DEF Movimentar, TypeOK, Movimento
<1>. HIDE DEF q, d
<1>. SUFFICES ASSUME NEW p \in Pecas
              PROVE  /\ IsFiniteSet(Unidades(p)')
                     /\ estoque'[p] + Comprometido(p)' = EstoqueInicial[p] + saldo'[p]
  BY DEF Balanco, EstoqueConservado
<1>2. Unidades(p)' = Unidades(p) /\ Comprometido(p)' = Comprometido(p)
  BY <1>1, UnidadesIguais
<1>3. /\ estoque[p] + Comprometido(p) = EstoqueInicial[p] + saldo[p]
      /\ IsFiniteSet(Unidades(p)) /\ Comprometido(p) \in Nat
      /\ estoque[p] \in Int /\ EstoqueInicial[p] \in Int /\ saldo[p] \in Int
  BY FS_CardinalityType, EstoqueAssumption
     DEF Balanco, EstoqueConservado, TypeOK, Comprometido
<1>4. /\ estoque'[p] = IF p = q THEN estoque[p] + d ELSE estoque[p]
      /\ saldo'[p] = IF p = q THEN saldo[p] + d ELSE saldo[p]
  BY <1>1 DEF TypeOK
<1>. QED  BY <1>1, <1>2, <1>3, <1>4

------------------------------------------------------------------------------
\* The steps of a request alone

\* Every status that changes moves along an edge.
PassoNoGrafo ==
    \A o \in Ordens : status'[o] # status[o] => <<status[o], status'[o]>> \in GrafoDocumentado

(* A request in flight alone keeps the readings current if its own is.     *)
LEMMA LeiturasDoPasso ==
    ASSUME TypeOK, UmPorVez, NEW r \in Pedidos, fase[r] # "livre",
           \A q \in Pedidos \ {r} : UNCHANGED fase[q],
           UNCHANGED movimento,
           fase'[r] # "livre" => PedidoAtual(r)'
    PROVE  LeiturasAtuais'
<1>1. \A q \in Pedidos : fase'[q] # "livre" => q = r
  BY Sozinho
<1>2. \A b \in Balcao : movimento'[b] = SemMovimento
  BY Sozinho DEF BalcaoEmVoo
<1>3. \A q \in EmVoo' : PedidoAtual(q)'
  <2>. SUFFICES ASSUME NEW q \in EmVoo' PROVE PedidoAtual(q)'
    OBVIOUS
  <2>1. q \in Pedidos /\ fase'[q] # "livre"
    BY DEF EmVoo
  <2>2. q = r
    BY <1>1, <2>1
  <2>. QED  BY <2>1, <2>2
<1>4. BalcaoEmVoo' = {}
  BY <1>2 DEF BalcaoEmVoo, SemMovimento
<1>. QED
  BY <1>3, <1>4 DEF LeiturasAtuais

(* The write of a status: an edge, and the status the request then has.    *)
LEMMA EscritaSerial ==
    ASSUME TypeOK, NEW r \in Pedidos, PedidoAtual(r), fase[r] \in AntesDaEscrita,
           UNCHANGED chamada,
           fase' = [fase EXCEPT ![r] = FaseAposEscrita(r)],
           status' = [status EXCEPT ![Ordem(r)] = chamada[r].para]
    PROVE  /\ PedidoAtual(r)' /\ PassoNoGrafo
           /\ \A o \in Ordens : status[o] \in {"EM_EXECUCAO", "FINALIZADA", "ENTREGUE"}
                 => status'[o] \in {"EM_EXECUCAO", "FINALIZADA", "ENTREGUE"}
<1>1. Ordem(r) \in Ordens /\ Ordem(r)' = Ordem(r)
  BY DEF TypeOK, Chamada, Ordem, AntesDaEscrita
<1>2. fase'[r] \in {"reler", "auditar"}
  BY DEF TypeOK, FaseAposEscrita
<1>3. \A o \in Ordens : status'[o] = IF o = Ordem(r) THEN chamada[r].para ELSE status[o]
  BY DEF TypeOK
<1>4. /\ <<chamada[r].de, chamada[r].para>> \in GrafoDocumentado
      /\ status[Ordem(r)] = chamada[r].de
  BY DEF PedidoAtual
<1>5. PedidoAtual(r)'
  BY <1>1, <1>2, <1>3, <1>4 DEF PedidoAtual, AntesDaEscrita
<1>6. PassoNoGrafo
  BY <1>3, <1>4 DEF PassoNoGrafo
<1>. QED
  BY <1>3, <1>4, <1>5, <1>6, AprovadaNaoVolta

LEMMA EncerrarSerial ==
    ASSUME TypeOK, SerialInv, UmPorVez', NEW r \in Pedidos, fase[r] # "livre",
           Encerrar(r), UNCHANGED <<banco, balcao>>
    PROVE  SerialInv' /\ PassoNoGrafo
<1>1. /\ fase'[r] = "livre" /\ UNCHANGED movimento
      /\ \A q \in Pedidos \ {r} : UNCHANGED fase[q]
  BY DEF Encerrar, TypeOK, balcao
<1>2. LeiturasAtuais'
  BY <1>1, LeiturasDoPasso DEF SerialInv
<1>3. UNCHANGED <<status, reservado, estoque, historico, saldo>>
  BY DEF banco, balcao
<1>4. SoAprovadaReserva' /\ TrilhaNoGrafo' /\ PassoNoGrafo
  BY <1>3 DEF SerialInv, SoAprovadaReserva, TrilhaNoGrafo, PassoNoGrafo
<1>5. Balanco'
  BY <1>3, BalancoEstavel DEF SerialInv, Balanco
<1>. QED
  BY <1>2, <1>4, <1>5 DEF SerialInv, Balanco

LEMMA PassoSerial ==
    ASSUME TypeOK, PecasInv, SerialInv, UmPorVez', NEW r \in Pedidos, Passo(r)
    PROVE  SerialInv' /\ PassoNoGrafo
<1>. USE DEF SerialInv
<1>0. fase[r] # "livre"
  BY DEF Passo, GravarStatus, LerItensReservados, Finalizar, AbrirTxReserva,
         RecusarReserva, Reservar, RelerOrdem, GravarHistorico, EnviarOrcamento, Avisar
<1>1. PedidoAtual(r) /\ Ordem(r) \in Ordens /\ chamada[r] \in Chamada
  BY <1>0 DEF LeiturasAtuais, EmVoo, TypeOK, Chamada, Ordem
<1>2. Balanco
  BY DEF Balanco
<1>3. ASSUME UNCHANGED <<status, reservado, estoque, historico, movimento, saldo>>,
             \A q \in Pedidos \ {r} : UNCHANGED fase[q],
             PedidoAtual(r)'
      PROVE  SerialInv' /\ PassoNoGrafo
  <2>1. LeiturasAtuais'
    BY <1>0, <1>3, LeiturasDoPasso
  <2>2. SoAprovadaReserva' /\ TrilhaNoGrafo' /\ PassoNoGrafo
    BY <1>3 DEF SoAprovadaReserva, TrilhaNoGrafo, PassoNoGrafo
  <2>. QED
    BY <1>2, <1>3, <2>1, <2>2, BalancoEstavel DEF Balanco
<1>4. ASSUME fase[r] \in AntesDaEscrita,
             UNCHANGED <<reservado, estoque, historico, chamada, movimento, saldo>>,
             fase' = [fase EXCEPT ![r] = FaseAposEscrita(r)],
             status' = [status EXCEPT ![Ordem(r)] = chamada[r].para]
      PROVE  SerialInv' /\ PassoNoGrafo
  <2>1. /\ PedidoAtual(r)' /\ PassoNoGrafo
        /\ \A o \in Ordens : status[o] \in {"EM_EXECUCAO", "FINALIZADA", "ENTREGUE"}
              => status'[o] \in {"EM_EXECUCAO", "FINALIZADA", "ENTREGUE"}
    BY <1>1, <1>4, EscritaSerial
  <2>2. \A q \in Pedidos \ {r} : UNCHANGED fase[q]
    BY <1>4 DEF TypeOK
  <2>3. LeiturasAtuais'
    BY <1>0, <1>4, <2>1, <2>2, LeiturasDoPasso
  <2>4. SoAprovadaReserva' /\ TrilhaNoGrafo'
    BY <1>4, <2>1 DEF SoAprovadaReserva, TrilhaNoGrafo
  <2>. QED
    BY <1>2, <1>4, <2>1, <2>3, <2>4, BalancoEstavel DEF Balanco
<1>5. CASE GravarStatus(r)
  BY <1>4, <1>5 DEF GravarStatus, balcao, AntesDaEscrita
<1>6. CASE LerItensReservados(r)
  <2>1. fase'[r] = "txFinalizar" /\ UNCHANGED chamada
    BY <1>6 DEF LerItensReservados, TypeOK
  <2>2. PedidoAtual(r)'
    BY <1>1, <1>6, <2>1 DEF LerItensReservados, PedidoAtual, AntesDaEscrita, Ordem, banco
  <2>. QED
    BY <1>3, <1>6, <2>2 DEF LerItensReservados, banco, balcao, TypeOK
<1>7. CASE Finalizar(r)
  <2>1. chamada[r].para = "FINALIZADA"
    BY <1>7 DEF Finalizar, PecasInv, LeituraCompleta
  <2>. QED
    BY <1>4, <1>7, <2>1 DEF Finalizar, balcao, AntesDaEscrita
<1>8. CASE AbrirTxReserva(r)
  <2>1. /\ fase'[r] = "txReserva" /\ UNCHANGED <<chamada, estoque, reservado, status>>
        /\ fase[r] = "abrirTx" /\ foto'[r] = estoque
        /\ pecasLidas'[r] = PecasPendentes(Ordem(r))
    BY <1>8 DEF AbrirTxReserva, TypeOK, banco
  <2>2. PedidoAtual(r)'
    BY <1>1, <2>1 DEF PedidoAtual, AntesDaEscrita, Ordem, PecasPendentes
  <2>. QED
    BY <1>3, <1>8, <2>2 DEF AbrirTxReserva, banco, balcao, TypeOK
<1>9. CASE RecusarReserva(r) \/ Avisar(r)
  BY <1>0, <1>9, EncerrarSerial DEF RecusarReserva, Avisar
<1>10. CASE Reservar(r)
  <2>1. /\ chamada[r].para = "EM_EXECUCAO" /\ fase[r] \in AntesDaEscrita
        /\ UNCHANGED <<historico, chamada, movimento>>
    BY <1>10 DEF Reservar, PecasInv, LeituraCompleta, AntesDaEscrita, balcao
  <2>2. /\ PedidoAtual(r)' /\ PassoNoGrafo
        /\ \A o \in Ordens : status[o] \in {"EM_EXECUCAO", "FINALIZADA", "ENTREGUE"}
              => status'[o] \in {"EM_EXECUCAO", "FINALIZADA", "ENTREGUE"}
    BY <1>1, <1>10, <2>1, EscritaSerial DEF Reservar
  <2>3. LeiturasAtuais'
    BY <1>0, <1>10, <2>1, <2>2, LeiturasDoPasso DEF Reservar, TypeOK
  <2>4. SoAprovadaReserva' /\ TrilhaNoGrafo'
    BY <1>1, <1>10, <2>1, <2>2 DEF Reservar, SoAprovadaReserva, TrilhaNoGrafo, TypeOK
  <2>5. Balanco'
    BY <1>1, <1>2, <1>10, ReservarBalanco
  <2>. QED
    BY <2>2, <2>3, <2>4, <2>5 DEF Balanco
<1>11. CASE RelerOrdem(r)
  <2>1. /\ fase[r] = "reler" /\ fase'[r] = "auditar" /\ UNCHANGED <<banco, balcao>>
        /\ chamada'[r] = [chamada[r] EXCEPT !.para = status[Ordem(r)]]
    BY Zenon, <1>11 DEF RelerOrdem, TypeOK
  <2>2. status[Ordem(r)] = chamada[r].para
    BY <1>1, <2>1 DEF PedidoAtual, AntesDaEscrita
  <2>3. chamada'[r] = chamada[r]
    BY <1>1, <2>1, <2>2 DEF Chamada
  <2>4. PedidoAtual(r)'
    BY <1>1, <2>1, <2>3 DEF PedidoAtual, AntesDaEscrita, Ordem, banco
  <2>. QED
    BY <1>3, <1>11, <2>4 DEF RelerOrdem, banco, balcao, TypeOK
<1>12. CASE GravarHistorico(r)
  <2>1. /\ fase[r] = "auditar" /\ fase'[r] \in {"enviarOrcamento", "avisar"}
        /\ UNCHANGED <<status, reservado, estoque, chamada, foto, pecasLidas, movimento, saldo>>
        /\ \A q \in Pedidos \ {r} : UNCHANGED fase[q]
        /\ historico' = historico \cup {LinhaDe(r)}
    BY <1>12 DEF GravarHistorico, TypeOK, balcao
  <2>2. PedidoAtual(r)'
    BY <1>1, <2>1 DEF PedidoAtual, AntesDaEscrita, Ordem
  <2>3. LeiturasAtuais'
    BY <1>0, <2>1, <2>2, LeiturasDoPasso
  <2>4. TrilhaNoGrafo'
    <3>1. <<LinhaDe(r).de, LinhaDe(r).para>> \in GrafoDocumentado
      BY <1>1 DEF LinhaDe, PedidoAtual
    <3>. QED  BY <2>1, <3>1 DEF TrilhaNoGrafo
  <2>5. SoAprovadaReserva' /\ PassoNoGrafo /\ Balanco'
    BY <1>2, <2>1, BalancoEstavel DEF SoAprovadaReserva, PassoNoGrafo
  <2>. QED
    BY <2>3, <2>4, <2>5 DEF Balanco
<1>13. CASE EnviarOrcamento(r)
  <2>1. fase[r] = "enviarOrcamento" /\ fase'[r] = "avisar"
    BY <1>13 DEF EnviarOrcamento, TypeOK
  <2>2. PedidoAtual(r)'
    BY <1>1, <1>13, <2>1 DEF EnviarOrcamento, PedidoAtual, AntesDaEscrita, Ordem, banco
  <2>. QED
    BY <1>3, <1>13, <2>2 DEF EnviarOrcamento, banco, balcao, TypeOK
<1>. QED
  BY <1>5, <1>6, <1>7, <1>8, <1>9, <1>10, <1>11, <1>12, <1>13 DEF Passo

------------------------------------------------------------------------------
\* Arrivals and stock movements alone

LEMMA AtenderSerial ==
    ASSUME TypeOK, SerialInv, UmPorVez', NEW r \in Pedidos, NEW o \in Ordens,
           NEW op \in OperacoesOs, NEW para \in StatusOs, Atender(r, o, op, para)
    PROVE  SerialInv' /\ PassoNoGrafo
<1>. USE DEF SerialInv
<1>1. /\ UNCHANGED <<status, reservado, estoque, historico, movimento, saldo>>
      /\ fase[r] = "livre" /\ fase'[r] = FaseDeEscrita(para)
      /\ \A q \in Pedidos \ {r} : UNCHANGED fase[q]
      /\ chamada'[r] = [op |-> op, os |-> o, de |-> status[o], para |-> para]
      /\ TransicaoPermitida(op, status[o], para)
  BY DEF Atender, TypeOK, banco, balcao
<1>2. /\ chamada'[r].os = o /\ chamada'[r].de = status[o] /\ chamada'[r].para = para
      /\ <<status[o], para>> \in GrafoDocumentado
  BY <1>1, TransicaoNoGrafo
<1>3. FaseDeEscrita(para) \in {"lerItens", "abrirTx", "gravar"}
  BY DEF FaseDeEscrita
<1>4. PedidoAtual(r)'
  BY <1>1, <1>2, <1>3 DEF PedidoAtual, AntesDaEscrita, Ordem
<1>5. r \in EmVoo'
  BY <1>1, <1>3 DEF EmVoo
<1>6. \A q \in EmVoo' : q = r
  BY <1>5 DEF UmPorVez
<1>7. BalcaoEmVoo' = {}
  BY <1>5 DEF UmPorVez
<1>8. LeiturasAtuais'
  BY <1>4, <1>6, <1>7 DEF LeiturasAtuais
<1>9. SoAprovadaReserva' /\ TrilhaNoGrafo' /\ PassoNoGrafo
  BY <1>1 DEF SoAprovadaReserva, TrilhaNoGrafo, PassoNoGrafo
<1>10. Balanco'
  BY <1>1, BalancoEstavel DEF Balanco
<1>. QED
  BY <1>8, <1>9, <1>10 DEF Balanco

(* A movement that is alone, or none at all, leaves no reading out of date. *)
LEMMA MovimentoSerial ==
    ASSUME SerialInv, UmPorVez', UNCHANGED <<status, reservado, historico, fase>>,
           Balanco', EmVoo = {},
           \A b \in Balcao : movimento'[b] # SemMovimento =>
               movimento'[b].lida = estoque'[movimento'[b].peca]
    PROVE  SerialInv' /\ PassoNoGrafo
<1>. USE DEF SerialInv
<1>1. EmVoo' = {}
  BY DEF EmVoo
<1>2. \A b \in BalcaoEmVoo' : movimento'[b].lida = estoque'[movimento'[b].peca]
  BY DEF BalcaoEmVoo, SemMovimento
<1>3. LeiturasAtuais'
  BY <1>1, <1>2 DEF LeiturasAtuais
<1>4. SoAprovadaReserva' /\ TrilhaNoGrafo' /\ PassoNoGrafo
  BY DEF SoAprovadaReserva, TrilhaNoGrafo, PassoNoGrafo
<1>. QED
  BY <1>3, <1>4 DEF Balanco

LEMMA BalcaoSerial ==
    ASSUME TypeOK, SerialInv, UmPorVez', NEW b \in Balcao,
           \/ \E p \in Pecas, d \in Deltas : AbrirMovimentacao(b, p, d)
           \/ Movimentar(b)
           \/ InterromperMovimentacao(b)
    PROVE  SerialInv' /\ PassoNoGrafo
<1>0. Balanco
  BY DEF SerialInv, Balanco
<1>1. ASSUME NEW p \in Pecas, NEW d \in Deltas, AbrirMovimentacao(b, p, d)
      PROVE  SerialInv' /\ PassoNoGrafo
  <2>1. /\ UNCHANGED <<status, reservado, historico, fase, estoque, saldo>>
        /\ movimento'[b] = [peca |-> p, delta |-> d, lida |-> estoque[p]]
        /\ \A c \in Balcao \ {b} : UNCHANGED movimento[c]
    BY <1>1 DEF AbrirMovimentacao, TypeOK, banco, emVoo
  <2>2. movimento'[b] # SemMovimento /\ b \in BalcaoEmVoo'
    <3>1. movimento'[b] # SemMovimento
      BY <2>1 DEF SemMovimento
    <3>. QED  BY <3>1 DEF BalcaoEmVoo, SemMovimento
  <2>3. EmVoo = {} /\ \A c \in BalcaoEmVoo' : c = b
    BY <2>1, <2>2 DEF UmPorVez, EmVoo
  <2>4. \A c \in Balcao : movimento'[c] # SemMovimento => c = b
    BY <2>3 DEF BalcaoEmVoo, SemMovimento
  <2>5. \A c \in Balcao : movimento'[c] # SemMovimento =>
           movimento'[c].lida = estoque'[movimento'[c].peca]
    BY <2>1, <2>4
  <2>. QED
    BY <1>0, <2>1, <2>3, <2>5, BalancoEstavel, MovimentoSerial
<1>2. ASSUME Movimentar(b) PROVE SerialInv' /\ PassoNoGrafo
  <2>1. EmVoo = {} /\ \A c \in Balcao : movimento[c] # SemMovimento => c = b
    BY <1>2, BalcaoSozinho DEF Movimentar, SerialInv
  <2>2. \A c \in Balcao : movimento'[c] = SemMovimento
    BY <1>2, <2>1 DEF Movimentar, TypeOK
  <2>3. movimento[b].lida = estoque[movimento[b].peca]
    BY <1>2 DEF Movimentar, SerialInv, LeiturasAtuais, BalcaoEmVoo
  <2>4. Balanco'
    BY <1>0, <1>2, <2>3, MovimentarBalanco
  <2>5. UNCHANGED <<status, reservado, historico, fase>>
    BY <1>2 DEF Movimentar, emVoo
  <2>. QED
    BY <2>1, <2>2, <2>4, <2>5, MovimentoSerial
<1>3. ASSUME InterromperMovimentacao(b) PROVE SerialInv' /\ PassoNoGrafo
  <2>1. EmVoo = {} /\ \A c \in Balcao : movimento[c] # SemMovimento => c = b
    BY <1>3, BalcaoSozinho DEF InterromperMovimentacao, SerialInv
  <2>2. \A c \in Balcao : movimento'[c] = SemMovimento
    BY <1>3, <2>1 DEF InterromperMovimentacao, TypeOK
  <2>3. UNCHANGED <<status, reservado, historico, fase, estoque, saldo>>
    BY <1>3 DEF InterromperMovimentacao, banco, emVoo
  <2>. QED
    BY <1>0, <2>1, <2>2, <2>3, BalancoEstavel, MovimentoSerial
<1>. QED  BY <1>1, <1>2, <1>3

------------------------------------------------------------------------------
\* The theorems

LEMMA InitSerialInv == Init => SerialInv
<1>. SUFFICES ASSUME Init PROVE SerialInv
  OBVIOUS
<1>1. EmVoo = {} /\ BalcaoEmVoo = {}
  BY DEF Init, EmVoo, BalcaoEmVoo
<1>2. UmPorVez /\ LeiturasAtuais /\ SoAprovadaReserva /\ TrilhaNoGrafo
  BY <1>1 DEF Init, UmPorVez, LeiturasAtuais, SoAprovadaReserva, TrilhaNoGrafo
<1>3. ASSUME NEW p \in Pecas
      PROVE  /\ IsFiniteSet(Unidades(p))
             /\ estoque[p] + Comprometido(p) = EstoqueInicial[p] + saldo[p]
  <2>1. Unidades(p) = {}
    BY DEF Init, Unidades
  <2>2. IsFiniteSet(Unidades(p)) /\ Comprometido(p) = 0
    BY <2>1, FS_EmptySet DEF Comprometido
  <2>. QED  BY <2>2, EstoqueAssumption DEF Init
<1>. QED
  BY <1>2, <1>3 DEF SerialInv, EstoqueConservado

LEMMA NextSerialInv ==
    TypeOK /\ PecasInv /\ SerialInv /\ [NextSerial]_vars => SerialInv' /\ PassoNoGrafo
<1>. SUFFICES ASSUME TypeOK, PecasInv, SerialInv, [NextSerial]_vars
              PROVE  SerialInv' /\ PassoNoGrafo
  OBVIOUS
<1>1. CASE UNCHANGED vars
  BY <1>1 DEF vars, banco, emVoo, balcao, SerialInv, UmPorVez, EmVoo, BalcaoEmVoo,
              LeiturasAtuais, PedidoAtual, Ordem, SoAprovadaReserva, TrilhaNoGrafo,
              EstoqueConservado, Comprometido, Unidades, PassoNoGrafo
<1>. SUFFICES ASSUME Next, UmPorVez' PROVE SerialInv' /\ PassoNoGrafo
  BY <1>1 DEF NextSerial
<1>2. ASSUME NEW r \in Pedidos, NEW o \in Ordens, NEW op \in OperacoesOs,
             NEW para \in StatusOs, Atender(r, o, op, para)
      PROVE  SerialInv' /\ PassoNoGrafo
  BY <1>2, AtenderSerial
<1>3. ASSUME NEW r \in Pedidos, Passo(r) PROVE SerialInv' /\ PassoNoGrafo
  BY <1>3, PassoSerial
<1>4. ASSUME NEW r \in Pedidos, Interromper(r) PROVE SerialInv' /\ PassoNoGrafo
  BY <1>4, EncerrarSerial DEF Interromper
<1>5. ASSUME NEW b \in Balcao,
             \/ \E p \in Pecas, d \in Deltas : AbrirMovimentacao(b, p, d)
             \/ Movimentar(b)
             \/ InterromperMovimentacao(b)
      PROVE  SerialInv' /\ PassoNoGrafo
  BY <1>5, BalcaoSerial
<1>. QED
  BY <1>2, <1>3, <1>4, <1>5, RequisicaoAtende DEF Next

(* With one request or movement in flight at a time, everything it read is *)
(* current when it writes, only approved orders hold parts, and the stock  *)
(* balances, even when requests are cut at any await.                      *)
THEOREM SerialInvSempre == SpecSerial => []SerialInv
<1>1. SpecSerial => [][NextSerial]_vars /\ Init
  BY PTL DEF SpecSerial, NextSerial
<1>2. SpecSerial => []TypeOK /\ []PecasInv
  BY SerialEhSpec, TypeCorrect, PecasInvSempre, PTL
<1>. QED
  BY <1>1, <1>2, InitSerialInv, NextSerialInv, PTL

(* No unit of any part appears or disappears while requests are serial.    *)
THEOREM EstoqueSempreConservado == SpecSerial => []EstoqueConservado
<1>1. SerialInv => EstoqueConservado
  BY DEF SerialInv
<1>. QED
  BY <1>1, SerialInvSempre, PTL

(* While requests are serial every row of the trail is an edge of the      *)
(* documented graph, the rows the webhook reads back included.             *)
THEOREM TrilhaSempreNoGrafo == SpecSerial => []TrilhaNoGrafo
<1>1. SerialInv => TrilhaNoGrafo
  BY DEF SerialInv
<1>. QED
  BY <1>1, SerialInvSempre, PTL

(* While requests are serial a rejected order holds no part.               *)
THEOREM RejeitadaSempreSemReserva == SpecSerial => []RejeitadaSemReserva
<1>1. SerialInv /\ PecasInv => RejeitadaSemReserva
  BY DEF SerialInv, PecasInv, TudoOuNada, SoAprovadaReserva, RejeitadaSemReserva
<1>. QED
  BY <1>1, SerialInvSempre, SerialEhSpec, PecasInvSempre, PTL

(* While requests are serial a status moves only along the documented      *)
(* graph, although no write looks at the status it replaces.               *)
THEOREM GrafoSempreRespeitado == SpecSerial => GrafoRespeitado
<1>1. SpecSerial => [][NextSerial]_vars
  BY PTL DEF SpecSerial, NextSerial
<1>2. TypeOK /\ PecasInv /\ SerialInv /\ [NextSerial]_vars => [PassoNoGrafo]_vars
  BY NextSerialInv
<1>3. SpecSerial => [][PassoNoGrafo]_vars
  BY <1>1, <1>2, SerialEhSpec, TypeCorrect, PecasInvSempre, SerialInvSempre, PTL
<1>. QED
  BY <1>3 DEF GrafoRespeitado, PassoNoGrafo

==============================================================================
