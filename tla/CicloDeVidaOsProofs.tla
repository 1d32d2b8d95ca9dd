------------------------- MODULE CicloDeVidaOsProofs -------------------------
(***************************************************************************)
(* Proofs about CicloDeVidaOs, for any sets of orders, parts, requests and *)
(* stock movements, any quantities and any failures.                       *)
(***************************************************************************)
EXTENDS CicloDeVidaOs, TLAPS

------------------------------------------------------------------------------
\* Type correctness

LEMMA InitTypeOK == Init => TypeOK
BY EstoqueAssumption, LimitesAssumption
   DEF Init, TypeOK, StatusOs, Fases, SemChamada, SemFoto, Chamada

LEMMA TransicaoTipada ==
    ASSUME NEW op, NEW de, NEW para, TransicaoPermitida(op, de, para)
    PROVE  op \in OperacoesOs /\ de \in StatusOs /\ para \in StatusOs
BY DEF TransicaoPermitida, TransicoesWebhook, TransicoesDiretas,
       StatusParaGerarOrcamento, OperacoesOs, StatusOs

(* Whatever the use case, a request is one call of Atender. *)
LEMMA RequisicaoAtende ==
    ASSUME NEW r, NEW o, Requisicao(r, o)
    PROVE  \E op \in OperacoesOs, para \in StatusOs : Atender(r, o, op, para)
<1>1. ASSUME NEW op, NEW para, Atender(r, o, op, para)
      PROVE  op \in OperacoesOs /\ para \in StatusOs
  BY <1>1, TransicaoTipada DEF Atender
<1>2. \E op, para : Atender(r, o, op, para)
  BY DEF Requisicao, IniciarDiagnostico, GerarOrcamento, AprovarOrcamento,
         RejeitarOrcamento, FinalizarOs, EntregarVeiculo, ProcessarWebhook
<1>. QED
  BY <1>1, <1>2

LEMMA EncerrarTypeOK ==
    ASSUME NEW r \in Pedidos, TypeOK, Encerrar(r),
           UNCHANGED <<banco, balcao, pedidos>>
    PROVE  TypeOK'
BY DEF TypeOK, Encerrar, banco, balcao, Fases, SemFoto

LEMMA PassoTypeOK ==
    ASSUME NEW r \in Pedidos, TypeOK, Passo(r)
    PROVE  TypeOK'
<1>1. CASE GravarStatus(r)
  BY <1>1 DEF TypeOK, GravarStatus, FaseAposEscrita, Fases, Ordem, Chamada, balcao
<1>2. CASE LerItensReservados(r)
  BY <1>2 DEF TypeOK, LerItensReservados, Fases, Ordem, Chamada, balcao, banco
<1>3. CASE Finalizar(r)
  BY <1>3 DEF TypeOK, Finalizar, FaseAposEscrita, Fases, Ordem, Chamada, balcao,
              StatusOs
<1>4. CASE AbrirTxReserva(r)
  BY <1>4 DEF TypeOK, AbrirTxReserva, PecasPendentes, PecasDe, Fases, Ordem,
              Chamada, balcao, banco
<1>5. CASE RecusarReserva(r)
  BY <1>5, EncerrarTypeOK DEF RecusarReserva
<1>6. CASE Reservar(r)
  <2>1. chamada[r] \in Chamada /\ Ordem(r) \in Ordens
    BY <1>6 DEF TypeOK, Reservar, Chamada, Ordem
  <2>2. estoque' \in [Pecas -> Int]
    <3>1. Quantidade[Ordem(r)] \in [Pecas -> Nat]
      BY <2>1, QuantidadeAssumption
    <3>2. foto[r] \in [Pecas -> Int] /\ estoque \in [Pecas -> Int]
      BY DEF TypeOK
    <3>3. estoque' = [p \in Pecas |->
                        IF p \in pecasLidas[r]
                        THEN foto[r][p] - Quantidade[Ordem(r)][p]
                        ELSE estoque[p]]
      BY <1>6 DEF Reservar
    <3>. QED  BY <3>1, <3>2, <3>3
  <2>. QED
    BY <1>6, <2>1, <2>2 DEF TypeOK, Reservar, FaseAposEscrita, Fases, balcao, StatusOs
<1>7. CASE RelerOrdem(r)
  BY <1>7 DEF TypeOK, RelerOrdem, Fases, Ordem, Chamada, balcao, banco
<1>8. CASE GravarHistorico(r)
  BY <1>8 DEF TypeOK, GravarHistorico, LinhaDe, Linha, Fases, Ordem, Chamada, balcao
<1>9. CASE EnviarOrcamento(r)
  BY <1>9 DEF TypeOK, EnviarOrcamento, Fases, balcao, banco
<1>10. CASE Avisar(r)
  BY <1>10, EncerrarTypeOK DEF Avisar
<1>. QED
  BY <1>1, <1>2, <1>3, <1>4, <1>5, <1>6, <1>7, <1>8, <1>9, <1>10 DEF Passo

LEMMA NextTypeOK == TypeOK /\ [Next]_vars => TypeOK'
<1>. SUFFICES ASSUME TypeOK, [Next]_vars PROVE TypeOK'
  OBVIOUS
<1>1. ASSUME NEW r \in Pedidos, NEW o \in Ordens, NEW op \in OperacoesOs,
             NEW para \in StatusOs, Atender(r, o, op, para)
      PROVE  TypeOK'
  BY <1>1, LimitesAssumption
     DEF TypeOK, Atender, FaseDeEscrita, Fases, Chamada, banco, balcao
<1>2. ASSUME NEW r \in Pedidos, Passo(r) PROVE TypeOK'
  BY <1>2, PassoTypeOK
<1>3. ASSUME NEW r \in Pedidos, Interromper(r) PROVE TypeOK'
  BY <1>3, EncerrarTypeOK DEF Interromper
<1>4. ASSUME NEW b \in Balcao, NEW p \in Pecas, NEW d \in Deltas,
             AbrirMovimentacao(b, p, d)
      PROVE  TypeOK'
  BY <1>4, DeltasAssumption, LimitesAssumption
     DEF TypeOK, AbrirMovimentacao, Movimento, banco, emVoo
<1>5. ASSUME NEW b \in Balcao, Movimentar(b) PROVE TypeOK'
  BY <1>5 DEF TypeOK, Movimentar, Movimento, emVoo
<1>6. ASSUME NEW b \in Balcao, InterromperMovimentacao(b) PROVE TypeOK'
  BY <1>6 DEF TypeOK, InterromperMovimentacao, banco, emVoo
<1>7. CASE UNCHANGED vars
  BY <1>7 DEF TypeOK, vars, banco, emVoo, balcao
<1>. QED
  BY <1>1, <1>2, <1>3, <1>4, <1>5, <1>6, <1>7, RequisicaoAtende DEF Next

(* Every variable keeps its type, for every instance. *)
THEOREM TypeCorrect == Spec => []TypeOK
BY InitTypeOK, NextTypeOK, PTL DEF Spec

------------------------------------------------------------------------------
\* Stock: every absolute write is computed from a snapshot within the limits

LEMMA InitEstoqueInv == Init => EstoqueInv
BY EstoqueAssumption
   DEF Init, EstoqueInv, EstoqueLimitado, FotoSuficiente, LeituraSuficiente

LEMMA EstoqueSemMudanca ==
    ASSUME TypeOK, EstoqueInv, UNCHANGED <<estoque, movimento, entradas>>,
           \A r \in Pedidos :
              fase'[r] = "txReserva" =>
                  /\ fase[r] = "txReserva"
                  /\ UNCHANGED <<chamada[r], foto[r], pecasLidas[r]>>
    PROVE  EstoqueInv'
<1>1. EstoqueLimitado'
  BY DEF EstoqueInv, EstoqueLimitado
<1>2. FotoSuficiente'
  BY DEF EstoqueInv, FotoSuficiente, Ordem
<1>3. LeituraSuficiente'
  BY DEF EstoqueInv, LeituraSuficiente
<1>. QED
  BY <1>1, <1>2, <1>3 DEF EstoqueInv

LEMMA EncerrarEstoqueInv ==
    ASSUME NEW r \in Pedidos, TypeOK, EstoqueInv, Encerrar(r),
           UNCHANGED <<banco, balcao>>
    PROVE  EstoqueInv'
BY EstoqueSemMudanca DEF TypeOK, Encerrar, banco, balcao

LEMMA PassoEstoqueInv ==
    ASSUME NEW r \in Pedidos, TypeOK, EstoqueInv, Passo(r)
    PROVE  EstoqueInv'
<1>1. CASE GravarStatus(r)
  BY <1>1, EstoqueSemMudanca DEF TypeOK, GravarStatus, FaseAposEscrita, balcao
<1>2. CASE LerItensReservados(r)
  BY <1>2, EstoqueSemMudanca DEF TypeOK, LerItensReservados, balcao, banco
<1>3. CASE Finalizar(r)
  BY <1>3, EstoqueSemMudanca DEF TypeOK, Finalizar, FaseAposEscrita, balcao
<1>4. CASE AbrirTxReserva(r)
  <2>1. EstoqueLimitado' /\ LeituraSuficiente'
    BY <1>4 DEF EstoqueInv, AbrirTxReserva, EstoqueLimitado, LeituraSuficiente,
                banco, balcao
  <2>2. FotoSuficiente'
    <3>. SUFFICES ASSUME NEW q \in Pedidos, fase'[q] = "txReserva",
                         NEW p \in pecasLidas'[q]
                  PROVE  /\ Quantidade[Ordem(q)'][p] <= foto'[q][p]
                         /\ foto'[q][p] <= EstoqueInicial[p] + entradas'[p]
      BY DEF FotoSuficiente
    <3>1. CASE q = r
      BY <1>4, <3>1 DEF AbrirTxReserva, EstoqueSuficiente, PecasPendentes, PecasDe,
                        TypeOK, EstoqueInv, EstoqueLimitado, Ordem, balcao
    <3>2. CASE q # r
      BY <1>4, <3>2 DEF AbrirTxReserva, TypeOK, EstoqueInv, FotoSuficiente, Ordem, balcao
    <3>. QED  BY <3>1, <3>2
  <2>. QED  BY <2>1, <2>2 DEF EstoqueInv
<1>5. CASE RecusarReserva(r)
  BY <1>5, EncerrarEstoqueInv DEF RecusarReserva
<1>6. CASE Reservar(r)
  <2>1. EstoqueLimitado'
    <3>. SUFFICES ASSUME NEW p \in Pecas
                  PROVE  /\ 0 <= estoque'[p]
                         /\ estoque'[p] <= EstoqueInicial[p] + entradas'[p]
      BY DEF EstoqueLimitado
    <3>0. /\ chamada[r] \in Chamada /\ Quantidade[Ordem(r)][p] \in Nat
          /\ EstoqueInicial[p] \in Nat /\ entradas[p] \in Nat /\ foto[r][p] \in Int
          /\ entradas' = entradas
      BY <1>6, QuantidadeAssumption, EstoqueAssumption
         DEF Reservar, TypeOK, Chamada, Ordem, balcao
    <3>1. CASE p \in pecasLidas[r]
      BY <1>6, <3>0, <3>1 DEF Reservar, EstoqueInv, FotoSuficiente
    <3>2. CASE p \notin pecasLidas[r]
      BY <1>6, <3>0, <3>2 DEF Reservar, EstoqueInv, EstoqueLimitado
    <3>. QED  BY <3>1, <3>2
  <2>2. FotoSuficiente' /\ LeituraSuficiente'
    BY <1>6 DEF Reservar, FaseAposEscrita, TypeOK, EstoqueInv, FotoSuficiente,
                LeituraSuficiente, Ordem, balcao
  <2>. QED  BY <2>1, <2>2 DEF EstoqueInv
<1>7. CASE RelerOrdem(r)
  <2>1. \A q \in Pedidos : fase'[q] = "txReserva" =>
            q # r /\ fase[q] = "txReserva" /\ UNCHANGED <<foto[q], pecasLidas[q]>>
    BY <1>7 DEF RelerOrdem, TypeOK
  <2>2. \A q \in Pedidos : q # r => chamada'[q] = chamada[q]
    BY <1>7, Zenon DEF RelerOrdem, TypeOK
  <2>. QED
    BY <1>7, <2>1, <2>2, EstoqueSemMudanca DEF RelerOrdem, balcao, banco
<1>8. CASE GravarHistorico(r)
  BY <1>8, EstoqueSemMudanca DEF TypeOK, GravarHistorico, balcao
<1>9. CASE EnviarOrcamento(r)
  BY <1>9, EstoqueSemMudanca DEF TypeOK, EnviarOrcamento, balcao, banco
<1>10. CASE Avisar(r)
  BY <1>10, EncerrarEstoqueInv DEF Avisar
<1>. QED
  BY <1>1, <1>2, <1>3, <1>4, <1>5, <1>6, <1>7, <1>8, <1>9, <1>10 DEF Passo

LEMMA MovimentarEstoqueInv ==
    ASSUME NEW b \in Balcao, TypeOK, EstoqueInv, Movimentar(b)
    PROVE  EstoqueInv'
<1>. DEFINE m == movimento[b]
<1>0. m \in Movimento
  BY DEF Movimentar, TypeOK
<1>1. /\ m.peca \in Pecas /\ m.delta \in Int /\ m.lida \in Int
      /\ estoque' = [estoque EXCEPT ![m.peca] = m.lida + m.delta]
      /\ entradas' = [entradas EXCEPT
                        ![m.peca] = @ + (IF m.delta > 0 THEN m.delta ELSE 0)]
  BY <1>0 DEF Movimentar, Movimento
<1>2. /\ 0 <= m.lida + m.delta
      /\ m.lida <= EstoqueInicial[m.peca] + entradas[m.peca]
  BY DEF Movimentar, EstoqueInv, LeituraSuficiente
<1>. HIDE DEF m
<1>. DEFINE entrada == IF m.delta > 0 THEN m.delta ELSE 0
<1>3. \A p \in Pecas : /\ EstoqueInicial[p] \in Nat /\ entradas[p] \in Nat
                       /\ entradas'[p] \in Nat /\ entradas[p] <= entradas'[p]
                       /\ p = m.peca => entradas'[p] = entradas[p] + entrada
  <2>1. entrada \in Nat
    BY <1>1
  <2>2. entradas' = [entradas EXCEPT ![m.peca] = @ + entrada]
    BY <1>1
  <2>3. entradas \in [Pecas -> Nat]
    BY DEF TypeOK
  <2>4. m.peca \in Pecas
    BY <1>1
  <2>. HIDE DEF entrada
  <2>. QED
    BY <2>1, <2>2, <2>3, <2>4, EstoqueAssumption
<1>4. EstoqueLimitado'
  BY <1>1, <1>2, <1>3 DEF TypeOK, EstoqueInv, EstoqueLimitado
<1>5. FotoSuficiente'
  <2>1. UNCHANGED <<fase, chamada, foto, pecasLidas>>
    BY DEF Movimentar, emVoo
  <2>2. \A r \in Pedidos : pecasLidas[r] \subseteq Pecas /\ foto[r] \in [Pecas -> Int]
    BY DEF TypeOK
  <2>. QED
    BY <1>3, <2>1, <2>2 DEF EstoqueInv, FotoSuficiente, Ordem
<1>6. LeituraSuficiente'
  <2>. SUFFICES ASSUME NEW c \in Balcao, movimento'[c] # SemMovimento
                PROVE  /\ 0 <= movimento'[c].lida + movimento'[c].delta
                       /\ movimento'[c].lida <=
                            EstoqueInicial[movimento'[c].peca] + entradas'[movimento'[c].peca]
    BY DEF LeituraSuficiente
  <2>1. c # b /\ movimento'[c] = movimento[c]
    BY DEF Movimentar, TypeOK
  <2>2. movimento[c].peca \in Pecas /\ movimento[c].lida \in Int
    BY <2>1 DEF TypeOK, Movimento
  <2>. QED
    BY <1>3, <2>1, <2>2 DEF EstoqueInv, LeituraSuficiente
<1>. QED
  BY <1>4, <1>5, <1>6 DEF EstoqueInv

LEMMA NextEstoqueInv == TypeOK /\ EstoqueInv /\ [Next]_vars => EstoqueInv'
<1>. SUFFICES ASSUME TypeOK, EstoqueInv, [Next]_vars PROVE EstoqueInv'
  OBVIOUS
<1>1. ASSUME NEW r \in Pedidos, NEW o \in Ordens, NEW op \in OperacoesOs,
             NEW para \in StatusOs, Atender(r, o, op, para)
      PROVE  EstoqueInv'
  <2>1. FaseDeEscrita(para) # "txReserva"
    BY Zenon DEF FaseDeEscrita
  <2>2. \A q \in Pedidos : fase'[q] = "txReserva" =>
            /\ fase[q] = "txReserva"
            /\ UNCHANGED <<chamada[q], foto[q], pecasLidas[q]>>
    BY <1>1, <2>1 DEF Atender, TypeOK
  <2>. QED
    BY <1>1, <2>2, EstoqueSemMudanca DEF Atender, banco, balcao
<1>2. ASSUME NEW r \in Pedidos, Passo(r) PROVE EstoqueInv'
  BY <1>2, PassoEstoqueInv
<1>3. ASSUME NEW r \in Pedidos, Interromper(r) PROVE EstoqueInv'
  BY <1>3, EncerrarEstoqueInv DEF Interromper
<1>4. ASSUME NEW b \in Balcao, NEW p \in Pecas, NEW d \in Deltas,
             AbrirMovimentacao(b, p, d)
      PROVE  EstoqueInv'
  <2>1. EstoqueLimitado' /\ FotoSuficiente'
    BY <1>4 DEF AbrirMovimentacao, EstoqueInv, EstoqueLimitado, FotoSuficiente,
                Ordem, banco, emVoo
  <2>2. LeituraSuficiente'
    BY <1>4 DEF AbrirMovimentacao, TypeOK, EstoqueInv, EstoqueLimitado,
                LeituraSuficiente, banco
  <2>. QED  BY <2>1, <2>2 DEF EstoqueInv
<1>5. ASSUME NEW b \in Balcao, Movimentar(b) PROVE EstoqueInv'
  BY <1>5, MovimentarEstoqueInv
<1>6. ASSUME NEW b \in Balcao, InterromperMovimentacao(b) PROVE EstoqueInv'
  <2>1. EstoqueLimitado' /\ FotoSuficiente'
    BY <1>6 DEF InterromperMovimentacao, EstoqueInv, EstoqueLimitado,
                FotoSuficiente, Ordem, banco, emVoo
  <2>2. LeituraSuficiente'
    BY <1>6 DEF InterromperMovimentacao, TypeOK, EstoqueInv, LeituraSuficiente
  <2>. QED  BY <2>1, <2>2 DEF EstoqueInv
<1>7. CASE UNCHANGED vars
  BY <1>7 DEF vars, banco, emVoo, balcao, EstoqueInv, EstoqueLimitado,
              FotoSuficiente, LeituraSuficiente, Ordem
<1>. QED
  BY <1>1, <1>2, <1>3, <1>4, <1>5, <1>6, <1>7, RequisicaoAtende DEF Next

(* What each open transaction will write leaves the stock within limits,   *)
(* at every moment, with any number of stale reservations and movements.   *)
THEOREM EstoqueInvSempre == Spec => []EstoqueInv
BY InitEstoqueInv, NextEstoqueInv, TypeCorrect, PTL DEF Spec

(* The stock of a part stays between zero and what was there plus the      *)
(* entries, with any number of stale reservations and movements.           *)
THEOREM EstoqueSempreLimitado == Spec => []EstoqueLimitado
<1>1. EstoqueInv => EstoqueLimitado
  BY DEF EstoqueInv
<1>. QED
  BY <1>1, EstoqueInvSempre, PTL

------------------------------------------------------------------------------
\* Parts: a status once backed stays backed, and every write is backed

(* Reservations and consumptions are never undone, so what backed a status *)
(* when a request read it still backs it when the request acts.            *)
LEMMA LastroEstavel ==
    ASSUME TudoOuNada, TudoOuNada', NEW o \in Ordens,
           reservado[o] \subseteq reservado'[o], baixado[o] \subseteq baixado'[o],
           NEW s, Lastro(s, o)
    PROVE  Lastro(s, o)'
<1>1. s = "EM_EXECUCAO" => reservado'[o] = PecasDe(o)
  BY DEF TudoOuNada, Lastro
<1>2. s \in {"FINALIZADA", "ENTREGUE"} => baixado'[o] = PecasDe(o)
  BY DEF TudoOuNada, Lastro
<1>. QED
  BY <1>1, <1>2 DEF Lastro, PecasDe

LEMMA InitPecasInv == Init => PecasInv
BY DEF Init, PecasInv, TudoOuNada, StatusComLastro, TrilhaComLastro, PedidoComLastro,
       LeituraCompleta, Lastro

(* A step of request r that leaves items and trail alone, gives no status  *)
(* that is not backed, and leaves every other request as it was.           *)
LEMMA PecasSemMudanca ==
    ASSUME TypeOK, PecasInv, NEW r \in Pedidos,
           UNCHANGED <<reservado, baixado, historico>>,
           \A o \in Ordens : Lastro(status'[o], o),
           \A q \in Pedidos \ {r} : UNCHANGED <<fase[q], chamada[q], pecasLidas[q]>>,
           fase'[r] # "livre" =>
              /\ chamada'[r] \in Chamada
              /\ Lastro(chamada'[r].de, chamada'[r].os)
              /\ fase'[r] \in {"gravar"} \cup DepoisDaTrilha =>
                    Lastro(chamada'[r].para, chamada'[r].os)
              /\ fase'[r] \in {"lerItens", "txFinalizar"} =>
                    /\ chamada'[r].para = "FINALIZADA"
                    /\ reservado[chamada'[r].os] = PecasDe(chamada'[r].os)
              /\ fase'[r] \in {"abrirTx", "txReserva"} => chamada'[r].para = "EM_EXECUCAO"
              /\ fase'[r] = "txFinalizar" =>
                    pecasLidas'[r] \cup baixado[chamada'[r].os] = PecasDe(chamada'[r].os)
              /\ fase'[r] = "txReserva" =>
                    pecasLidas'[r] \cup reservado[chamada'[r].os] = PecasDe(chamada'[r].os)
    PROVE  PecasInv'
<1>1. TudoOuNada' /\ StatusComLastro' /\ TrilhaComLastro'
  BY DEF PecasInv, TudoOuNada, StatusComLastro, TrilhaComLastro, Lastro, PecasDe
<1>2. PedidoComLastro'
  <2>. SUFFICES ASSUME NEW q \in Pedidos, fase'[q] # "livre"
                PROVE  /\ Lastro(chamada'[q].de, chamada'[q].os)
                       /\ fase'[q] = "gravar" => Lastro(chamada'[q].para, chamada'[q].os)
                       /\ fase'[q] \in DepoisDaTrilha =>
                             Lastro(chamada'[q].para, chamada'[q].os)
    BY DEF PedidoComLastro, Ordem, Lastro, PecasDe
  <2>1. CASE q = r
    BY <2>1
  <2>2. CASE q # r
    BY <2>2 DEF PecasInv, PedidoComLastro, Ordem
  <2>. QED  BY <2>1, <2>2
<1>3. LeituraCompleta'
  <2>. SUFFICES ASSUME NEW q \in Pedidos
                PROVE
        /\ fase'[q] \in {"lerItens", "txFinalizar"} =>
              /\ chamada'[q].para = "FINALIZADA"
              /\ reservado[chamada'[q].os] = PecasDe(chamada'[q].os)
        /\ fase'[q] \in {"abrirTx", "txReserva"} => chamada'[q].para = "EM_EXECUCAO"
        /\ fase'[q] = "txFinalizar" =>
              pecasLidas'[q] \cup baixado[chamada'[q].os] = PecasDe(chamada'[q].os)
        /\ fase'[q] = "txReserva" =>
              pecasLidas'[q] \cup reservado[chamada'[q].os] = PecasDe(chamada'[q].os)
    BY DEF LeituraCompleta, Ordem, PecasDe
  <2>1. CASE q = r
    BY <2>1
  <2>2. CASE q # r
    BY <2>2 DEF PecasInv, LeituraCompleta, Ordem
  <2>. QED  BY <2>1, <2>2
<1>. QED
  BY <1>1, <1>2, <1>3 DEF PecasInv

(* An operation starts from the status its target needs. *)
LEMMA OrigemDaTransicao ==
    ASSUME NEW op, NEW de, NEW para, TransicaoPermitida(op, de, para)
    PROVE  /\ para = "FINALIZADA" => de = "EM_EXECUCAO"
           /\ para = "ENTREGUE" => de = "FINALIZADA"
BY DEF TransicaoPermitida, TransicoesWebhook, TransicoesDiretas, StatusParaGerarOrcamento

LEMMA FaseDaEscrita ==
    /\ FaseDeEscrita("FINALIZADA") = "lerItens"
    /\ FaseDeEscrita("EM_EXECUCAO") = "abrirTx"
    /\ \A para : para \notin {"FINALIZADA", "EM_EXECUCAO"} => FaseDeEscrita(para) = "gravar"
BY Zenon DEF FaseDeEscrita

LEMMA AtenderPecasInv ==
    ASSUME NEW r \in Pedidos, NEW o \in Ordens, NEW op \in OperacoesOs,
           NEW para \in StatusOs, TypeOK, PecasInv, Atender(r, o, op, para)
    PROVE  PecasInv'
<1>1. /\ UNCHANGED <<status, reservado, baixado, historico, pecasLidas>>
      /\ chamada'[r] = [op |-> op, os |-> o, de |-> status[o], para |-> para]
      /\ fase'[r] = FaseDeEscrita(para)
      /\ \A q \in Pedidos \ {r} : UNCHANGED <<fase[q], chamada[q], pecasLidas[q]>>
  BY DEF Atender, TypeOK, banco
<1>2. /\ chamada'[r] \in Chamada /\ chamada'[r].os = o
      /\ chamada'[r].de = status[o] /\ chamada'[r].para = para
  BY <1>1 DEF TypeOK, Chamada
<1>3. Lastro(status[o], o) /\ \A w \in Ordens : Lastro(status'[w], w)
  BY <1>1 DEF PecasInv, StatusComLastro
<1>4. para = "FINALIZADA" => reservado[o] = PecasDe(o)
  BY <1>3, OrigemDaTransicao DEF Atender, Lastro
<1>5. para = "ENTREGUE" => baixado[o] = PecasDe(o)
  BY <1>3, OrigemDaTransicao DEF Atender, Lastro
<1>6. CASE para = "FINALIZADA"
  <2>1. fase'[r] = "lerItens"
    BY <1>1, <1>6, FaseDaEscrita
  <2>. QED
    BY <1>1, <1>2, <1>3, <1>4, <1>6, <2>1, PecasSemMudanca DEF DepoisDaTrilha
<1>7. CASE para = "EM_EXECUCAO"
  <2>1. fase'[r] = "abrirTx"
    BY <1>1, <1>7, FaseDaEscrita
  <2>. QED
    BY <1>1, <1>2, <1>3, <1>7, <2>1, PecasSemMudanca DEF DepoisDaTrilha
<1>8. CASE para \notin {"FINALIZADA", "EM_EXECUCAO"}
  <2>1. fase'[r] = "gravar"
    BY <1>1, <1>8, FaseDaEscrita
  <2>2. Lastro(para, o)
    BY <1>5, <1>8 DEF Lastro
  <2>. QED
    BY <1>1, <1>2, <1>3, <2>1, <2>2, PecasSemMudanca DEF DepoisDaTrilha
<1>. QED
  BY <1>6, <1>7, <1>8

LEMMA EncerrarPecasInv ==
    ASSUME NEW r \in Pedidos, TypeOK, PecasInv, Encerrar(r), UNCHANGED banco
    PROVE  PecasInv'
<1>1. /\ UNCHANGED <<status, reservado, baixado, historico>>
      /\ fase'[r] = "livre"
      /\ \A q \in Pedidos \ {r} : UNCHANGED <<fase[q], chamada[q], pecasLidas[q]>>
  BY DEF Encerrar, TypeOK, banco
<1>2. \A w \in Ordens : Lastro(status'[w], w)
  BY <1>1 DEF PecasInv, StatusComLastro
<1>. QED
  BY <1>1, <1>2, PecasSemMudanca

LEMMA GravarStatusPecasInv ==
    ASSUME NEW r \in Pedidos, TypeOK, PecasInv, GravarStatus(r)
    PROVE  PecasInv'
<1>1. /\ UNCHANGED <<reservado, baixado, historico, chamada, pecasLidas>>
      /\ fase[r] = "gravar" /\ fase'[r] \in {"reler", "auditar"}
      /\ \A q \in Pedidos \ {r} : UNCHANGED <<fase[q], chamada[q], pecasLidas[q]>>
  BY DEF GravarStatus, FaseAposEscrita, TypeOK
<1>2. /\ chamada[r] \in Chamada /\ Lastro(chamada[r].de, chamada[r].os)
      /\ Lastro(chamada[r].para, chamada[r].os)
  BY <1>1 DEF TypeOK, PecasInv, PedidoComLastro, Ordem
<1>3. \A w \in Ordens : Lastro(status'[w], w)
  BY <1>2 DEF GravarStatus, TypeOK, PecasInv, StatusComLastro, Ordem
<1>. QED
  BY <1>1, <1>2, <1>3, PecasSemMudanca DEF DepoisDaTrilha

LEMMA LerItensPecasInv ==
    ASSUME NEW r \in Pedidos, TypeOK, PecasInv, LerItensReservados(r)
    PROVE  PecasInv'
<1>1. /\ UNCHANGED <<status, reservado, baixado, historico, chamada>>
      /\ fase[r] = "lerItens" /\ fase'[r] = "txFinalizar"
      /\ pecasLidas'[r] = reservado[Ordem(r)] \ baixado[Ordem(r)]
      /\ \A q \in Pedidos \ {r} : UNCHANGED <<fase[q], chamada[q], pecasLidas[q]>>
  BY DEF LerItensReservados, TypeOK, banco
<1>2. /\ chamada[r] \in Chamada /\ Lastro(chamada[r].de, chamada[r].os)
      /\ chamada[r].para = "FINALIZADA" /\ Ordem(r) \in Ordens
      /\ reservado[Ordem(r)] = PecasDe(Ordem(r))
  BY <1>1 DEF TypeOK, PecasInv, PedidoComLastro, LeituraCompleta, Ordem, Chamada
<1>3. pecasLidas'[r] \cup baixado[Ordem(r)] = PecasDe(Ordem(r))
  BY <1>1, <1>2 DEF PecasInv, TudoOuNada
<1>4. \A w \in Ordens : Lastro(status'[w], w)
  BY <1>1 DEF PecasInv, StatusComLastro
<1>. QED
  BY <1>1, <1>2, <1>3, <1>4, PecasSemMudanca DEF DepoisDaTrilha, Ordem

LEMMA AbrirTxReservaPecasInv ==
    ASSUME NEW r \in Pedidos, TypeOK, PecasInv, AbrirTxReserva(r)
    PROVE  PecasInv'
<1>1. /\ UNCHANGED <<status, reservado, baixado, historico, chamada>>
      /\ fase[r] = "abrirTx" /\ fase'[r] = "txReserva"
      /\ pecasLidas'[r] = PecasDe(Ordem(r)) \ reservado[Ordem(r)]
      /\ \A q \in Pedidos \ {r} : UNCHANGED <<fase[q], chamada[q], pecasLidas[q]>>
  BY DEF AbrirTxReserva, PecasPendentes, TypeOK, banco
<1>2. /\ chamada[r] \in Chamada /\ Lastro(chamada[r].de, chamada[r].os)
      /\ chamada[r].para = "EM_EXECUCAO" /\ Ordem(r) \in Ordens
  BY <1>1 DEF TypeOK, PecasInv, PedidoComLastro, LeituraCompleta, Ordem, Chamada
<1>3. pecasLidas'[r] \cup reservado[Ordem(r)] = PecasDe(Ordem(r))
  BY <1>1, <1>2 DEF PecasInv, TudoOuNada
<1>4. \A w \in Ordens : Lastro(status'[w], w)
  BY <1>1 DEF PecasInv, StatusComLastro
<1>. QED
  BY <1>1, <1>2, <1>3, <1>4, PecasSemMudanca DEF DepoisDaTrilha, Ordem

LEMMA RelerOrdemPecasInv ==
    ASSUME NEW r \in Pedidos, TypeOK, PecasInv, RelerOrdem(r)
    PROVE  PecasInv'
<1>1. /\ UNCHANGED <<status, reservado, baixado, historico, pecasLidas>>
      /\ fase[r] = "reler" /\ fase'[r] = "auditar"
      /\ \A q \in Pedidos \ {r} : UNCHANGED <<fase[q], pecasLidas[q]>>
  BY DEF RelerOrdem, TypeOK, banco
<1>2. \A q \in Pedidos \ {r} : UNCHANGED chamada[q]
  BY Zenon DEF RelerOrdem, TypeOK
<1>3. /\ chamada[r] \in Chamada /\ Lastro(chamada[r].de, chamada[r].os)
      /\ Ordem(r) \in Ordens /\ Ordem(r) = chamada[r].os
  BY <1>1 DEF TypeOK, PecasInv, PedidoComLastro, Ordem, Chamada
<1>4. chamada'[r] = [chamada[r] EXCEPT !.para = status[Ordem(r)]]
  BY Zenon DEF RelerOrdem, TypeOK
<1>5. status[Ordem(r)] \in StatusOs /\ Lastro(status[Ordem(r)], Ordem(r))
  BY <1>3 DEF TypeOK, PecasInv, StatusComLastro
<1>6. /\ chamada'[r] \in Chamada /\ chamada'[r].os = chamada[r].os
      /\ chamada'[r].de = chamada[r].de /\ chamada'[r].para = status[Ordem(r)]
  BY <1>3, <1>4, <1>5 DEF Chamada
<1>7. \A w \in Ordens : Lastro(status'[w], w)
  BY <1>1 DEF PecasInv, StatusComLastro
<1>. QED
  BY <1>1, <1>2, <1>3, <1>5, <1>6, <1>7, PecasSemMudanca DEF DepoisDaTrilha

LEMMA EnviarOrcamentoPecasInv ==
    ASSUME NEW r \in Pedidos, TypeOK, PecasInv, EnviarOrcamento(r)
    PROVE  PecasInv'
<1>1. /\ UNCHANGED <<status, reservado, baixado, historico, chamada, pecasLidas>>
      /\ fase[r] = "enviarOrcamento" /\ fase'[r] = "avisar"
      /\ \A q \in Pedidos \ {r} : UNCHANGED <<fase[q], chamada[q], pecasLidas[q]>>
  BY DEF EnviarOrcamento, TypeOK, banco
<1>2. /\ chamada[r] \in Chamada /\ Lastro(chamada[r].de, chamada[r].os)
      /\ Lastro(chamada[r].para, chamada[r].os)
  BY <1>1 DEF TypeOK, PecasInv, PedidoComLastro, DepoisDaTrilha, Ordem
<1>3. \A w \in Ordens : Lastro(status'[w], w)
  BY <1>1 DEF PecasInv, StatusComLastro
<1>. QED
  BY <1>1, <1>2, <1>3, PecasSemMudanca DEF DepoisDaTrilha

LEMMA GravarHistoricoPecasInv ==
    ASSUME NEW r \in Pedidos, TypeOK, PecasInv, GravarHistorico(r)
    PROVE  PecasInv'
<1>1. /\ UNCHANGED <<status, reservado, baixado, chamada, pecasLidas>>
      /\ fase[r] = "auditar" /\ fase'[r] \in {"enviarOrcamento", "avisar"}
      /\ \A q \in Pedidos \ {r} : UNCHANGED fase[q]
      /\ historico' = historico \cup {LinhaDe(r)}
  BY DEF GravarHistorico, TypeOK
<1>2. Lastro(chamada[r].de, Ordem(r)) /\ Lastro(chamada[r].para, Ordem(r))
  BY <1>1 DEF PecasInv, PedidoComLastro, DepoisDaTrilha
<1>3. \A s, o : Lastro(s, o)' <=> Lastro(s, o)
  BY <1>1 DEF Lastro, PecasDe
<1>4. TudoOuNada' /\ StatusComLastro'
  BY <1>1 DEF PecasInv, TudoOuNada, StatusComLastro, Lastro, PecasDe
<1>5. TrilhaComLastro'
  <2>. SUFFICES ASSUME NEW l \in historico' PROVE Lastro(l.de, l.os) /\ Lastro(l.para, l.os)
    BY <1>1 DEF TrilhaComLastro, Lastro, PecasDe
  <2>1. CASE l \in historico
    BY <2>1 DEF PecasInv, TrilhaComLastro
  <2>2. CASE l = LinhaDe(r)
    BY <2>2, <1>2 DEF LinhaDe
  <2>. QED  BY <1>1, <2>1, <2>2
<1>6. PedidoComLastro'
  BY <1>1, <1>2 DEF PecasInv, PedidoComLastro, DepoisDaTrilha, Lastro, PecasDe, Ordem
<1>7. LeituraCompleta'
  BY <1>1 DEF PecasInv, LeituraCompleta, PecasDe, Ordem
<1>. QED
  BY <1>4, <1>5, <1>6, <1>7 DEF PecasInv

(* A commit that only adds items to an OS, all of them at once, and gives  *)
(* it a status they back, disturbs no other request and no row.            *)
LEMMA ItensCrescem ==
    ASSUME TypeOK, PecasInv, NEW r \in Pedidos,
           UNCHANGED <<historico, chamada, pecasLidas>>,
           fase[r] # "livre", fase'[r] \in {"reler", "auditar"},
           \A q \in Pedidos \ {r} : UNCHANGED fase[q],
           \A o \in Ordens : /\ reservado[o] \subseteq reservado'[o]
                             /\ baixado[o] \subseteq baixado'[o],
           TudoOuNada', StatusComLastro', Lastro(chamada[r].para, Ordem(r))'
    PROVE  PecasInv'
<1>1. \A s : \A o \in Ordens : Lastro(s, o) => Lastro(s, o)'
  BY LastroEstavel DEF PecasInv
<1>2. TrilhaComLastro'
  <2>1. \A l \in historico : l.os \in Ordens
    BY DEF TypeOK, Linha
  <2>2. \A l \in historico : Lastro(l.de, l.os)' /\ Lastro(l.para, l.os)'
    <3>. TAKE l \in historico
    <3>1. Lastro(l.de, l.os) /\ Lastro(l.para, l.os) /\ l.os \in Ordens
      BY <2>1 DEF PecasInv, TrilhaComLastro
    <3>. QED  BY <1>1, <3>1
  <2>. QED
    BY <2>2 DEF TrilhaComLastro, Lastro, PecasDe
<1>3. \A q \in Pedidos : fase[q] # "livre" => Ordem(q) \in Ordens /\ Ordem(q)' = Ordem(q)
  BY DEF TypeOK, Chamada, Ordem
<1>4. PedidoComLastro'
  <2>. SUFFICES ASSUME NEW q \in Pedidos, fase'[q] # "livre"
                PROVE  /\ Lastro(chamada[q].de, Ordem(q))'
                       /\ fase'[q] = "gravar" => Lastro(chamada[q].para, Ordem(q))'
                       /\ fase'[q] \in DepoisDaTrilha => Lastro(chamada[q].para, Ordem(q))'
    BY DEF PedidoComLastro, Lastro, PecasDe, Ordem
  <2>1. fase[q] # "livre" /\ Ordem(q) \in Ordens /\ chamada' = chamada /\ Ordem(q)' = Ordem(q)
    BY <1>3
  <2>2. Lastro(chamada[q].de, Ordem(q))
    BY <2>1 DEF PecasInv, PedidoComLastro
  <2>3. Lastro(chamada[q].de, Ordem(q))'
    BY <1>1, <2>1, <2>2 DEF Lastro, PecasDe
  <2>4. CASE q = r
    BY <2>3, <2>4
  <2>5. CASE q # r
    <3>1. fase[q] \in {"gravar"} \cup DepoisDaTrilha => Lastro(chamada[q].para, Ordem(q))
      BY <2>1 DEF PecasInv, PedidoComLastro
    <3>2. fase[q] \in {"gravar"} \cup DepoisDaTrilha => Lastro(chamada[q].para, Ordem(q))'
      BY <1>1, <2>1, <3>1 DEF Lastro, PecasDe
    <3>. QED  BY <2>3, <2>5, <3>2
  <2>. QED  BY <2>4, <2>5
<1>5. LeituraCompleta'
  <2>. SUFFICES ASSUME NEW q \in Pedidos
                PROVE
        /\ fase'[q] \in {"lerItens", "txFinalizar"} =>
              /\ chamada[q].para = "FINALIZADA"
              /\ reservado'[Ordem(q)] = PecasDe(Ordem(q))
        /\ fase'[q] \in {"abrirTx", "txReserva"} => chamada[q].para = "EM_EXECUCAO"
        /\ fase'[q] = "txFinalizar" =>
              pecasLidas[q] \cup baixado'[Ordem(q)] = PecasDe(Ordem(q))
        /\ fase'[q] = "txReserva" =>
              pecasLidas[q] \cup reservado'[Ordem(q)] = PecasDe(Ordem(q))
    BY DEF LeituraCompleta, Ordem, PecasDe
  <2>1. CASE fase'[q] \in {"lerItens", "txFinalizar", "abrirTx", "txReserva"}
    <3>1. q # r /\ fase[q] = fase'[q] /\ Ordem(q) \in Ordens
      BY <2>1, <1>3
    <3>2. /\ reservado[Ordem(q)] \subseteq reservado'[Ordem(q)]
          /\ baixado[Ordem(q)] \subseteq baixado'[Ordem(q)]
          /\ reservado'[Ordem(q)] \in {{}, PecasDe(Ordem(q))}
          /\ baixado'[Ordem(q)] \in {{}, reservado'[Ordem(q)]}
      BY <3>1 DEF TudoOuNada, PecasDe
    <3>. QED
      BY <2>1, <3>1, <3>2 DEF PecasInv, LeituraCompleta
  <2>2. CASE fase'[q] \notin {"lerItens", "txFinalizar", "abrirTx", "txReserva"}
    BY <2>2
  <2>. QED  BY <2>1, <2>2
<1>. QED
  BY <1>2, <1>4, <1>5 DEF PecasInv

LEMMA FinalizarPecasInv ==
    ASSUME NEW r \in Pedidos, TypeOK, PecasInv, Finalizar(r)
    PROVE  PecasInv'
<1>1. /\ UNCHANGED <<reservado, historico, chamada, pecasLidas>>
      /\ fase[r] = "txFinalizar" /\ fase'[r] \in {"reler", "auditar"}
      /\ \A q \in Pedidos \ {r} : UNCHANGED fase[q]
  BY DEF Finalizar, FaseAposEscrita, TypeOK
<1>2. /\ Ordem(r) \in Ordens /\ chamada[r].para = "FINALIZADA"
      /\ reservado[Ordem(r)] = PecasDe(Ordem(r))
      /\ pecasLidas[r] \cup baixado[Ordem(r)] = PecasDe(Ordem(r))
  BY <1>1 DEF TypeOK, Chamada, Ordem, PecasInv, LeituraCompleta
<1>3. \A o \in Ordens :
         /\ baixado'[o] = IF o = Ordem(r) THEN PecasDe(o) ELSE baixado[o]
         /\ status'[o] = IF o = Ordem(r) THEN "FINALIZADA" ELSE status[o]
  BY <1>2 DEF Finalizar, TypeOK
<1>4. \A o \in Ordens : baixado[o] \subseteq baixado'[o]
  BY <1>2, <1>3
<1>5. TudoOuNada'
  BY <1>1, <1>2, <1>3 DEF PecasInv, TudoOuNada, PecasDe
<1>6. StatusComLastro'
  BY <1>1, <1>3 DEF PecasInv, StatusComLastro, Lastro, PecasDe
<1>7. Lastro(chamada[r].para, Ordem(r))'
  BY <1>1, <1>2, <1>3 DEF Lastro, PecasDe, Ordem
<1>. QED
  BY <1>1, <1>4, <1>5, <1>6, <1>7, ItensCrescem

LEMMA ReservarPecasInv ==
    ASSUME NEW r \in Pedidos, TypeOK, PecasInv, Reservar(r)
    PROVE  PecasInv'
<1>1. /\ UNCHANGED <<baixado, historico, chamada, pecasLidas>>
      /\ fase[r] = "txReserva" /\ fase'[r] \in {"reler", "auditar"}
      /\ \A q \in Pedidos \ {r} : UNCHANGED fase[q]
  BY DEF Reservar, FaseAposEscrita, TypeOK
<1>2. /\ Ordem(r) \in Ordens /\ chamada[r].para = "EM_EXECUCAO"
      /\ pecasLidas[r] \cup reservado[Ordem(r)] = PecasDe(Ordem(r))
  BY <1>1 DEF TypeOK, Chamada, Ordem, PecasInv, LeituraCompleta
<1>3. \A o \in Ordens :
         /\ reservado'[o] = IF o = Ordem(r) THEN PecasDe(o) ELSE reservado[o]
         /\ status'[o] = IF o = Ordem(r) THEN "EM_EXECUCAO" ELSE status[o]
  BY <1>2 DEF Reservar, TypeOK
<1>4. \A o \in Ordens : reservado[o] \subseteq reservado'[o]
  BY <1>2, <1>3
<1>5. TudoOuNada'
  BY <1>1, <1>2, <1>3, <1>4 DEF PecasInv, TudoOuNada, PecasDe
<1>6. StatusComLastro'
  BY <1>1, <1>3 DEF PecasInv, StatusComLastro, Lastro, PecasDe
<1>7. Lastro(chamada[r].para, Ordem(r))'
  BY <1>1, <1>2, <1>3 DEF Lastro, PecasDe, Ordem
<1>. QED
  BY <1>1, <1>4, <1>5, <1>6, <1>7, ItensCrescem

LEMMA NextPecasInv == TypeOK /\ PecasInv /\ [Next]_vars => PecasInv'
<1>. SUFFICES ASSUME TypeOK, PecasInv, [Next]_vars PROVE PecasInv'
  OBVIOUS
<1>1. ASSUME NEW r \in Pedidos, NEW o \in Ordens, NEW op \in OperacoesOs,
             NEW para \in StatusOs, Atender(r, o, op, para)
      PROVE  PecasInv'
  BY <1>1, AtenderPecasInv
<1>2. ASSUME NEW r \in Pedidos, Passo(r) PROVE PecasInv'
  BY <1>2, GravarStatusPecasInv, LerItensPecasInv, FinalizarPecasInv,
     AbrirTxReservaPecasInv, EncerrarPecasInv, ReservarPecasInv, RelerOrdemPecasInv,
     GravarHistoricoPecasInv, EnviarOrcamentoPecasInv
     DEF Passo, RecusarReserva, Avisar
<1>3. ASSUME NEW r \in Pedidos, Interromper(r) PROVE PecasInv'
  BY <1>3, EncerrarPecasInv DEF Interromper
<1>4. ASSUME UNCHANGED <<status, reservado, baixado, historico, emVoo>> PROVE PecasInv'
  BY <1>4 DEF emVoo, PecasInv, TudoOuNada, StatusComLastro, TrilhaComLastro,
              PedidoComLastro, LeituraCompleta, Lastro, PecasDe, Ordem
<1>5. ASSUME NEW b \in Balcao, NEW p \in Pecas, NEW d \in Deltas,
             AbrirMovimentacao(b, p, d)
      PROVE  PecasInv'
  BY <1>4, <1>5 DEF AbrirMovimentacao, banco
<1>6. ASSUME NEW b \in Balcao, Movimentar(b) \/ InterromperMovimentacao(b) PROVE PecasInv'
  BY <1>4, <1>6 DEF Movimentar, InterromperMovimentacao, banco
<1>7. CASE UNCHANGED vars
  BY <1>4, <1>7 DEF vars, banco
<1>. QED
  BY <1>1, <1>2, <1>3, <1>5, <1>6, <1>7, RequisicaoAtende DEF Next

(* Whatever status a request read, wrote or will record is still backed by *)
(* the parts of its order when it acts on it.                              *)
THEOREM PecasInvSempre == Spec => []PecasInv
BY InitPecasInv, NextPecasInv, TypeCorrect, PTL DEF Spec

(* The status of an OS is always backed by its parts, under any number of  *)
(* racing and interrupted requests.                                        *)
THEOREM StatusSempreComLastro == Spec => []StatusComLastro
<1>1. PecasInv => StatusComLastro
  BY DEF PecasInv
<1>. QED
  BY <1>1, PecasInvSempre, PTL

(* So is every status the audit trail ever mentions.                       *)
THEOREM TrilhaSempreComLastro == Spec => []TrilhaComLastro
<1>1. PecasInv => TrilhaComLastro
  BY DEF PecasInv
<1>. QED
  BY <1>1, PecasInvSempre, PTL

(* The parts of an OS are reserved, and consumed, all of them or none.     *)
THEOREM PecasTudoOuNada == Spec => []TudoOuNada
<1>1. PecasInv => TudoOuNada
  BY DEF PecasInv
<1>. QED
  BY <1>1, PecasInvSempre, PTL

------------------------------------------------------------------------------
\* The notice follows the trail

FasesDeAviso == {"enviarOrcamento", "avisar"}

(* A step that forgets no row keeps the promise if every request it takes  *)
(* to a notice has its row.                                                *)
LEMMA AvisoDoPasso ==
    ASSUME TypeOK, AvisoNaTrilha, NEW r \in Pedidos,
           historico \subseteq historico',
           \A q \in Pedidos \ {r} : UNCHANGED <<fase[q], chamada[q]>>,
           fase'[r] \in FasesDeAviso => LinhaDe(r)' \in historico'
    PROVE  AvisoNaTrilha'
<1>. SUFFICES ASSUME NEW q \in Pedidos, fase'[q] \in FasesDeAviso
              PROVE  LinhaDe(q)' \in historico'
  BY DEF AvisoNaTrilha, FasesDeAviso, LinhaDe, Ordem
<1>1. CASE q = r
  BY <1>1 DEF LinhaDe, Ordem
<1>2. CASE q # r
  BY <1>2 DEF AvisoNaTrilha, FasesDeAviso, LinhaDe, Ordem
<1>. QED  BY <1>1, <1>2

LEMMA PassoAviso ==
    ASSUME TypeOK, AvisoNaTrilha, NEW r \in Pedidos, Passo(r) \/ Interromper(r)
    PROVE  AvisoNaTrilha'
<1>1. ASSUME Encerrar(r), UNCHANGED historico PROVE AvisoNaTrilha'
  BY <1>1, AvisoDoPasso DEF Encerrar, TypeOK, FasesDeAviso
<1>2. FaseAposEscrita(r) \notin FasesDeAviso
  BY DEF FaseAposEscrita, FasesDeAviso
<1>3. CASE GravarStatus(r)
  BY <1>2, <1>3, AvisoDoPasso DEF GravarStatus, TypeOK
<1>4. CASE LerItensReservados(r)
  BY <1>4, AvisoDoPasso DEF LerItensReservados, banco, TypeOK, FasesDeAviso
<1>5. CASE Finalizar(r)
  BY <1>2, <1>5, AvisoDoPasso DEF Finalizar, TypeOK
<1>6. CASE AbrirTxReserva(r)
  BY <1>6, AvisoDoPasso DEF AbrirTxReserva, banco, TypeOK, FasesDeAviso
<1>7. CASE Reservar(r)
  BY <1>2, <1>7, AvisoDoPasso DEF Reservar, TypeOK
<1>8. CASE RelerOrdem(r)
  BY <1>8, AvisoDoPasso DEF RelerOrdem, banco, TypeOK, FasesDeAviso
<1>9. CASE GravarHistorico(r)
  <2>1. historico' = historico \cup {LinhaDe(r)} /\ UNCHANGED chamada
    BY <1>9 DEF GravarHistorico
  <2>2. LinhaDe(r)' = LinhaDe(r)
    BY <2>1 DEF LinhaDe, Ordem
  <2>. QED
    BY <1>9, <2>1, <2>2, AvisoDoPasso DEF GravarHistorico, TypeOK
<1>10. CASE EnviarOrcamento(r)
  <2>1. LinhaDe(r) \in historico
    BY <1>10 DEF EnviarOrcamento, AvisoNaTrilha
  <2>2. UNCHANGED <<historico, chamada>>
    BY <1>10 DEF EnviarOrcamento, banco
  <2>. QED
    BY <1>10, <2>1, <2>2, AvisoDoPasso DEF EnviarOrcamento, TypeOK, LinhaDe, Ordem
<1>. QED
  BY <1>1, <1>3, <1>4, <1>5, <1>6, <1>7, <1>8, <1>9, <1>10
     DEF Passo, RecusarReserva, Avisar, Interromper, banco

LEMMA NextAviso == TypeOK /\ AvisoNaTrilha /\ [Next]_vars => AvisoNaTrilha'
<1>. SUFFICES ASSUME TypeOK, AvisoNaTrilha, [Next]_vars PROVE AvisoNaTrilha'
  OBVIOUS
<1>1. ASSUME NEW r \in Pedidos, NEW o \in Ordens, NEW op \in OperacoesOs,
             NEW para \in StatusOs, Atender(r, o, op, para)
      PROVE  AvisoNaTrilha'
  <2>1. FaseDeEscrita(para) \notin FasesDeAviso
    BY FaseDaEscrita DEF FasesDeAviso
  <2>. QED
    BY <1>1, <2>1, AvisoDoPasso DEF Atender, banco, TypeOK
<1>2. ASSUME NEW r \in Pedidos, Passo(r) \/ Interromper(r) PROVE AvisoNaTrilha'
  BY <1>2, PassoAviso
<1>3. ASSUME UNCHANGED <<historico, emVoo>> PROVE AvisoNaTrilha'
  BY <1>3 DEF emVoo, AvisoNaTrilha, LinhaDe, Ordem
<1>4. ASSUME NEW b \in Balcao, NEW p \in Pecas, NEW d \in Deltas, AbrirMovimentacao(b, p, d)
      PROVE  AvisoNaTrilha'
  BY <1>3, <1>4 DEF AbrirMovimentacao, banco
<1>5. ASSUME NEW b \in Balcao, Movimentar(b) \/ InterromperMovimentacao(b)
      PROVE  AvisoNaTrilha'
  BY <1>3, <1>5 DEF Movimentar, InterromperMovimentacao, banco
<1>6. CASE UNCHANGED vars
  BY <1>3, <1>6 DEF vars, banco
<1>. QED
  BY <1>1, <1>2, <1>4, <1>5, <1>6, RequisicaoAtende DEF Next

(* A client is told of a change only after it is in the trail, whatever    *)
(* fails and however requests interleave.                                  *)
THEOREM AvisoSempreNaTrilha == Spec => []AvisoNaTrilha
<1>1. Init => AvisoNaTrilha
  BY DEF Init, AvisoNaTrilha
<1>. QED
  BY <1>1, NextAviso, TypeCorrect, PTL DEF Spec

------------------------------------------------------------------------------
\* The current status is recorded when nothing is cut

\* Registrado(o, s) after the step, for a value s.
RegistradoDepois(o, s) ==
    \/ s = "RECEBIDA"
    \/ \E l \in historico' : l.os = o /\ l.para = s
    \/ \E q \in Pedidos :
         \/ fase'[q] = "auditar" /\ chamada'[q].os = o /\ chamada'[q].para = s
         \/ fase'[q] = "reler" /\ chamada'[q].os = o

LEMMA StatusNaTrilhaDepois ==
    (\A o \in Ordens : RegistradoDepois(o, status'[o])) => StatusNaTrilha'
BY DEF RegistradoDepois, StatusNaTrilha, Registrado, Ordem

(* A step of request r keeps a status recorded if no row is forgotten and  *)
(* r, when it was the witness, leaves a row or stays a witness.            *)
LEMMA RegistroDoPasso ==
    ASSUME TypeOK, NEW r \in Pedidos, NEW o \in Ordens, NEW s, Registrado(o, s),
           historico \subseteq historico',
           \A q \in Pedidos \ {r} : UNCHANGED <<fase[q], chamada[q]>>,
           fase[r] = "auditar" /\ Ordem(r) = o /\ chamada[r].para = s =>
              \E l \in historico' : l.os = o /\ l.para = s,
           fase[r] = "reler" /\ Ordem(r) = o =>
              fase'[r] = "auditar" /\ chamada'[r].os = o /\ chamada'[r].para = s
    PROVE  RegistradoDepois(o, s)
<1>1. CASE s = "RECEBIDA"
  BY <1>1 DEF RegistradoDepois
<1>2. CASE \E l \in historico : l.os = o /\ l.para = s
  BY <1>2 DEF RegistradoDepois
<1>3. ASSUME NEW q \in Pedidos,
             \/ fase[q] = "auditar" /\ Ordem(q) = o /\ chamada[q].para = s
             \/ fase[q] = "reler" /\ Ordem(q) = o
      PROVE  RegistradoDepois(o, s)
  <2>1. CASE q = r
    BY <1>3, <2>1 DEF Registrado, RegistradoDepois, Ordem
  <2>2. CASE q # r
    BY <1>3, <2>2 DEF Registrado, RegistradoDepois, Ordem
  <2>. QED  BY <2>1, <2>2
<1>. QED
  BY <1>1, <1>2, <1>3 DEF Registrado

(* The request that changes a status is on its way to record it.           *)
LEMMA RegistroDoAutor ==
    ASSUME TypeOK, StatusNaTrilha, NEW r \in Pedidos,
           fase[r] \notin {"livre", "auditar", "reler"},
           UNCHANGED <<historico, chamada>>,
           fase' = [fase EXCEPT ![r] = FaseAposEscrita(r)],
           status' = [status EXCEPT ![Ordem(r)] = chamada[r].para]
    PROVE  StatusNaTrilha'
<1>. SUFFICES ASSUME NEW o \in Ordens PROVE RegistradoDepois(o, status'[o])
  BY StatusNaTrilhaDepois
<1>1. Ordem(r) \in Ordens /\ Ordem(r)' = Ordem(r)
  BY DEF TypeOK, Chamada, Ordem
<1>2. fase'[r] \in {"reler", "auditar"}
  BY DEF TypeOK, FaseAposEscrita
<1>3. CASE o = Ordem(r)
  <2>1. status'[o] = chamada'[r].para
    BY <1>1, <1>3 DEF TypeOK
  <2>. QED
    BY <1>1, <1>2, <1>3, <2>1 DEF Registrado, RegistradoDepois, Ordem
<1>4. CASE o # Ordem(r)
  <2>1. status'[o] = status[o] /\ Registrado(o, status[o])
    BY <1>4 DEF TypeOK, StatusNaTrilha
  <2>2. \A q \in Pedidos \ {r} : UNCHANGED <<fase[q], chamada[q]>>
    BY DEF TypeOK
  <2>3. Registrado(o, status[o])
        => \/ status[o] = "RECEBIDA"
           \/ \E l \in historico : l.os = o /\ l.para = status[o]
           \/ \E q \in Pedidos \ {r} :
                \/ fase[q] = "auditar" /\ Ordem(q) = o /\ chamada[q].para = status[o]
                \/ fase[q] = "reler" /\ Ordem(q) = o
    BY DEF Registrado
  <2>. QED
    BY <2>1, <2>2, <2>3 DEF Registrado, RegistradoDepois, Ordem
<1>. QED  BY <1>3, <1>4

(* A step that changes no status.                                          *)
LEMMA RegistroDeOutros ==
    ASSUME TypeOK, StatusNaTrilha, NEW r \in Pedidos,
           UNCHANGED status,
           historico \subseteq historico',
           \A q \in Pedidos \ {r} : UNCHANGED <<fase[q], chamada[q]>>,
           fase[r] = "auditar" =>
              \E l \in historico' : l.os = Ordem(r) /\ l.para = chamada[r].para,
           fase[r] = "reler" =>
              fase'[r] = "auditar" /\ chamada'[r].os = Ordem(r)
              /\ chamada'[r].para = status[Ordem(r)]
    PROVE  StatusNaTrilha'
<1>. SUFFICES ASSUME NEW o \in Ordens PROVE RegistradoDepois(o, status'[o])
  BY StatusNaTrilhaDepois
<1>. QED
  BY RegistroDoPasso DEF StatusNaTrilha, Registrado, Ordem

LEMMA PassoTrilha ==
    ASSUME TypeOK, PecasInv, StatusNaTrilha, NEW r \in Pedidos, Passo(r)
    PROVE  StatusNaTrilha'
<1>1. ASSUME fase[r] \notin {"auditar", "reler"}, UNCHANGED <<status, historico>>,
             \A q \in Pedidos \ {r} : UNCHANGED <<fase[q], chamada[q]>>
      PROVE  StatusNaTrilha'
  BY <1>1, RegistroDeOutros
<1>2. CASE GravarStatus(r)
  BY <1>2, RegistroDoAutor DEF GravarStatus
<1>3. CASE LerItensReservados(r)
  BY <1>1, <1>3 DEF LerItensReservados, banco, TypeOK
<1>4. CASE Finalizar(r)
  <2>1. chamada[r].para = "FINALIZADA"
    BY <1>4 DEF Finalizar, PecasInv, LeituraCompleta
  <2>. QED
    BY <1>4, <2>1, RegistroDoAutor DEF Finalizar
<1>5. CASE AbrirTxReserva(r)
  BY <1>1, <1>5 DEF AbrirTxReserva, banco, TypeOK
<1>6. CASE RecusarReserva(r)
  BY <1>1, <1>6 DEF RecusarReserva, Encerrar, banco, TypeOK
<1>7. CASE Reservar(r)
  <2>1. chamada[r].para = "EM_EXECUCAO"
    BY <1>7 DEF Reservar, PecasInv, LeituraCompleta
  <2>. QED
    BY <1>7, <2>1, RegistroDoAutor DEF Reservar
<1>8. CASE RelerOrdem(r)
  <2>1. /\ fase[r] = "reler" /\ UNCHANGED <<status, historico>>
        /\ fase' = [fase EXCEPT ![r] = "auditar"]
        /\ chamada' = [chamada EXCEPT ![r].para = status[Ordem(r)]]
    BY <1>8 DEF RelerOrdem, banco
  <2>2. fase'[r] = "auditar" /\ \A q \in Pedidos \ {r} : UNCHANGED fase[q]
    BY <2>1 DEF TypeOK
  <2>3. chamada[r] \in Chamada
    BY <2>1 DEF TypeOK
  <2>4. /\ chamada'[r] = [chamada[r] EXCEPT !.para = status[Ordem(r)]]
        /\ \A q \in Pedidos \ {r} : UNCHANGED chamada[q]
    BY Zenon, <2>1 DEF TypeOK
  <2>5. chamada'[r].os = Ordem(r) /\ chamada'[r].para = status[Ordem(r)]
    BY <2>3, <2>4 DEF Chamada, Ordem
  <2>. QED
    BY <2>1, <2>2, <2>4, <2>5, RegistroDeOutros
<1>9. CASE GravarHistorico(r)
  <2>1. historico' = historico \cup {LinhaDe(r)} /\ UNCHANGED <<status, chamada>>
    BY <1>9 DEF GravarHistorico
  <2>2. LinhaDe(r).os = Ordem(r) /\ LinhaDe(r).para = chamada[r].para
    BY DEF LinhaDe
  <2>3. fase[r] = "auditar" /\ \A q \in Pedidos \ {r} : UNCHANGED fase[q]
    BY <1>9 DEF GravarHistorico, TypeOK
  <2>. QED
    BY <2>1, <2>2, <2>3, RegistroDeOutros
<1>10. CASE EnviarOrcamento(r)
  BY <1>1, <1>10 DEF EnviarOrcamento, banco, TypeOK
<1>11. CASE Avisar(r)
  BY <1>1, <1>11 DEF Avisar, Encerrar, banco, TypeOK
<1>. QED
  BY <1>2, <1>3, <1>4, <1>5, <1>6, <1>7, <1>8, <1>9, <1>10, <1>11 DEF Passo

LEMMA NextTrilha ==
    ASSUME ~Falhas
    PROVE  TypeOK /\ PecasInv /\ StatusNaTrilha /\ [Next]_vars => StatusNaTrilha'
<1>. SUFFICES ASSUME TypeOK, PecasInv, StatusNaTrilha, [Next]_vars PROVE StatusNaTrilha'
  OBVIOUS
<1>1. ASSUME NEW r \in Pedidos, NEW o \in Ordens, NEW op \in OperacoesOs,
             NEW para \in StatusOs, Atender(r, o, op, para)
      PROVE  StatusNaTrilha'
  BY <1>1, RegistroDeOutros DEF Atender, banco, TypeOK
<1>2. ASSUME NEW r \in Pedidos, Passo(r) PROVE StatusNaTrilha'
  BY <1>2, PassoTrilha
<1>3. ASSUME NEW r \in Pedidos, Interromper(r) PROVE FALSE
  BY <1>3 DEF Interromper
<1>4. ASSUME UNCHANGED <<status, historico, emVoo>> PROVE StatusNaTrilha'
  BY <1>4 DEF emVoo, StatusNaTrilha, Registrado, Ordem
<1>5. ASSUME NEW b \in Balcao, NEW p \in Pecas, NEW d \in Deltas, AbrirMovimentacao(b, p, d)
      PROVE  StatusNaTrilha'
  BY <1>4, <1>5 DEF AbrirMovimentacao, banco
<1>6. ASSUME NEW b \in Balcao, Movimentar(b) \/ InterromperMovimentacao(b)
      PROVE  StatusNaTrilha'
  BY <1>4, <1>6 DEF Movimentar, InterromperMovimentacao, banco
<1>7. CASE UNCHANGED vars
  BY <1>4, <1>7 DEF vars, banco
<1>. QED
  BY <1>1, <1>2, <1>3, <1>5, <1>6, <1>7, RequisicaoAtende DEF Next

(* When no request is cut, the current status of every OS is in its trail  *)
(* or a request in flight is about to put it there.                        *)
THEOREM StatusSempreNaTrilha ==
    ASSUME ~Falhas
    PROVE  Spec => []StatusNaTrilha
<1>1. Init => StatusNaTrilha
  BY DEF Init, StatusNaTrilha, Registrado
<1>2. TypeOK /\ PecasInv /\ StatusNaTrilha /\ [Next]_vars => StatusNaTrilha'
  BY NextTrilha
<1>. QED
  BY <1>1, <1>2, TypeCorrect, PecasInvSempre, PTL DEF Spec

==============================================================================
