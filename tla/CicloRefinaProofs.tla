-------------------------- MODULE CicloRefinaProofs --------------------------
(***************************************************************************)
(* CicloDeVidaOs implements PecasDaOs: every commit on an OS is a step the *)
(* abstract specification allows on its parts, and everything else the     *)
(* requests do is invisible to it.                                         *)
(***************************************************************************)
EXTENDS CicloDeVidaOsProofs

\* The statuses a plain UPDATE writes: the others have a transaction.
StatusDeUpdate == {"EM_DIAGNOSTICO", "AGUARDANDO_APROVACAO", "REJEITADA", "ENTREGUE"}

DestinoDoUpdate ==
    \A r \in Pedidos : fase[r] = "gravar" => chamada[r].para \in StatusDeUpdate

------------------------------------------------------------------------------
LEMMA DestinoDaTransicao ==
    ASSUME NEW op, NEW de, NEW para, TransicaoPermitida(op, de, para)
    PROVE  para \in StatusDeUpdate \cup {"FINALIZADA", "EM_EXECUCAO"}
BY DEF TransicaoPermitida, TransicoesWebhook, TransicoesDiretas,
       StatusParaGerarOrcamento, StatusDeUpdate

LEMMA InitDestino == Init => DestinoDoUpdate
BY DEF Init, DestinoDoUpdate

(* A step that puts no request at its UPDATE keeps what the others write. *)
LEMMA DestinoSemMudanca ==
    ASSUME DestinoDoUpdate,
           \A q \in Pedidos : fase'[q] = "gravar" => fase[q] = "gravar" /\ UNCHANGED chamada[q]
    PROVE  DestinoDoUpdate'
BY DEF DestinoDoUpdate

LEMMA PassoDestino ==
    ASSUME NEW r \in Pedidos, TypeOK, DestinoDoUpdate, Passo(r) \/ Interromper(r)
    PROVE  DestinoDoUpdate'
<1>1. CASE RelerOrdem(r)
  <2>1. \A q \in Pedidos : fase'[q] = "gravar" => q # r /\ fase[q] = "gravar"
    BY <1>1 DEF RelerOrdem, TypeOK
  <2>2. \A q \in Pedidos : q # r => UNCHANGED chamada[q]
    BY <1>1, Zenon DEF RelerOrdem, TypeOK
  <2>. QED
    BY <2>1, <2>2, DestinoSemMudanca
<1>2. CASE \/ GravarStatus(r) \/ LerItensReservados(r) \/ Finalizar(r) \/ AbrirTxReserva(r)
           \/ Reservar(r) \/ GravarHistorico(r) \/ EnviarOrcamento(r)
  <2>1. UNCHANGED chamada /\ \E x \in Fases \ {"gravar"} : fase' = [fase EXCEPT ![r] = x]
    BY <1>2 DEF GravarStatus, LerItensReservados, Finalizar, AbrirTxReserva, Reservar,
                GravarHistorico, EnviarOrcamento, FaseAposEscrita, Fases
  <2>. QED
    BY <2>1, DestinoSemMudanca DEF TypeOK
<1>3. CASE RecusarReserva(r) \/ Avisar(r) \/ Interromper(r)
  BY <1>3, DestinoSemMudanca
     DEF RecusarReserva, Avisar, Interromper, Encerrar, TypeOK
<1>. QED
  BY <1>1, <1>2, <1>3 DEF Passo

LEMMA NextDestino == TypeOK /\ DestinoDoUpdate /\ [Next]_vars => DestinoDoUpdate'
<1>. SUFFICES ASSUME TypeOK, DestinoDoUpdate, [Next]_vars PROVE DestinoDoUpdate'
  OBVIOUS
<1>1. ASSUME NEW r \in Pedidos, NEW o \in Ordens, NEW op \in OperacoesOs,
             NEW para \in StatusOs, Atender(r, o, op, para)
      PROVE  DestinoDoUpdate'
  <2>1. fase'[r] = FaseDeEscrita(para) /\ chamada'[r].para = para
    BY <1>1 DEF Atender, TypeOK
  <2>2. para \in StatusDeUpdate \cup {"FINALIZADA", "EM_EXECUCAO"}
    BY <1>1, DestinoDaTransicao DEF Atender
  <2>3. fase'[r] = "gravar" => chamada'[r].para \in StatusDeUpdate
    BY <2>1, <2>2, FaseDaEscrita
  <2>4. \A q \in Pedidos \ {r} : UNCHANGED <<fase[q], chamada[q]>>
    BY <1>1 DEF Atender, TypeOK
  <2>. QED
    BY <2>3, <2>4 DEF DestinoDoUpdate
<1>2. ASSUME NEW r \in Pedidos, Passo(r) \/ Interromper(r) PROVE DestinoDoUpdate'
  BY <1>2, PassoDestino
<1>3. ASSUME UNCHANGED emVoo PROVE DestinoDoUpdate'
  BY <1>3, DestinoSemMudanca DEF emVoo
<1>. QED
  BY <1>1, <1>2, <1>3, RequisicaoAtende
     DEF Next, AbrirMovimentacao, Movimentar, InterromperMovimentacao, vars

------------------------------------------------------------------------------
LEMMA InitPromessa == Init => Promessa!Init
BY DEF Init, Promessa!Init, PecasAbstratas, PecasDe

LEMMA StutterPromessa ==
    ASSUME UNCHANGED <<status, reservado, baixado>>
    PROVE  UNCHANGED Promessa!vars
BY DEF Promessa!vars, PecasAbstratas, PecasDe

LEMMA GravarStatusPromessa ==
    ASSUME NEW r \in Pedidos, TypeOK, PecasInv, DestinoDoUpdate, GravarStatus(r)
    PROVE  Promessa!Next
<1>1. /\ UNCHANGED <<reservado, baixado>> /\ Ordem(r) \in Ordens
      /\ status' = [status EXCEPT ![Ordem(r)] = chamada[r].para]
      /\ chamada[r].para \in StatusDeUpdate /\ Lastro(chamada[r].para, Ordem(r))
  BY DEF GravarStatus, TypeOK, Chamada, Ordem, DestinoDoUpdate, PecasInv, PedidoComLastro
<1>2. UNCHANGED PecasAbstratas
  BY <1>1 DEF PecasAbstratas, PecasDe
<1>3. CASE chamada[r].para = "ENTREGUE"
  <2>1. PecasAbstratas[Ordem(r)] = "baixadas"
    BY <1>1, <1>3 DEF PecasAbstratas, Lastro
  <2>. QED
    BY <1>1, <1>2, <1>3, <2>1 DEF Promessa!Next, Promessa!Entregar
<1>4. CASE chamada[r].para # "ENTREGUE"
  BY <1>1, <1>2, <1>4 DEF Promessa!Next, Promessa!Tramitar, StatusDeUpdate
<1>. QED
  BY <1>3, <1>4

LEMMA FinalizarPromessa ==
    ASSUME NEW r \in Pedidos, TypeOK, PecasInv, Finalizar(r)
    PROVE  Promessa!Next
<1>1. /\ UNCHANGED reservado /\ Ordem(r) \in Ordens
      /\ status' = [status EXCEPT ![Ordem(r)] = "FINALIZADA"]
      /\ baixado' = [baixado EXCEPT ![Ordem(r)] = PecasDe(Ordem(r))]
      /\ reservado[Ordem(r)] = PecasDe(Ordem(r))
  BY DEF Finalizar, TypeOK, Chamada, Ordem, PecasInv, LeituraCompleta
<1>2. PecasAbstratas[Ordem(r)] # "pendentes"
  BY <1>1 DEF PecasAbstratas
<1>3. PecasAbstratas' = [PecasAbstratas EXCEPT ![Ordem(r)] = "baixadas"]
  <2>1. \A o \in Ordens : baixado'[o] = IF o = Ordem(r) THEN PecasDe(o) ELSE baixado[o]
    BY <1>1 DEF TypeOK
  <2>. QED
    BY <1>1, <2>1 DEF PecasAbstratas, PecasDe
<1>. QED
  BY <1>1, <1>2, <1>3 DEF Promessa!Next, Promessa!Concluir

LEMMA ReservarPromessa ==
    ASSUME NEW r \in Pedidos, TypeOK, PecasInv, Reservar(r)
    PROVE  Promessa!Next
<1>1. /\ UNCHANGED baixado /\ Ordem(r) \in Ordens
      /\ status' = [status EXCEPT ![Ordem(r)] = "EM_EXECUCAO"]
      /\ reservado' = [reservado EXCEPT ![Ordem(r)] = PecasDe(Ordem(r))]
  BY DEF Reservar, TypeOK, Chamada, Ordem, PecasInv, LeituraCompleta
<1>2. PecasAbstratas' =
        [PecasAbstratas EXCEPT ![Ordem(r)] = IF @ = "pendentes" THEN "reservadas" ELSE @]
  <2>1. \A o \in Ordens : reservado'[o] = IF o = Ordem(r) THEN PecasDe(o) ELSE reservado[o]
    BY <1>1 DEF TypeOK
  <2>. QED
    BY <1>1, <2>1 DEF PecasAbstratas, PecasDe
<1>. QED
  BY <1>1, <1>2 DEF Promessa!Next, Promessa!Executar

LEMMA NextPromessa ==
    TypeOK /\ PecasInv /\ DestinoDoUpdate /\ [Next]_vars => [Promessa!Next]_Promessa!vars
<1>. SUFFICES ASSUME TypeOK, PecasInv, DestinoDoUpdate, [Next]_vars
              PROVE  Promessa!Next \/ UNCHANGED Promessa!vars
  OBVIOUS
<1>1. ASSUME NEW r \in Pedidos, GravarStatus(r) \/ Finalizar(r) \/ Reservar(r)
      PROVE  Promessa!Next
  BY <1>1, GravarStatusPromessa, FinalizarPromessa, ReservarPromessa
<1>2. ASSUME UNCHANGED <<status, reservado, baixado>> PROVE UNCHANGED Promessa!vars
  BY <1>2, StutterPromessa
<1>3. \/ \E r \in Pedidos : GravarStatus(r) \/ Finalizar(r) \/ Reservar(r)
      \/ UNCHANGED <<status, reservado, baixado>>
  BY RequisicaoAtende
     DEF Next, Passo, Atender, LerItensReservados, AbrirTxReserva, RecusarReserva,
         RelerOrdem, GravarHistorico, EnviarOrcamento, Avisar, Interromper,
         AbrirMovimentacao, Movimentar, InterromperMovimentacao, vars, banco
<1>. QED
  BY <1>1, <1>2, <1>3

(* However requests interleave, fail or die, the parts of every OS keep    *)
(* the promise of PecasDaOs.                                               *)
THEOREM Implementa == Spec => CumprePecasDaOs
<1>1. Spec => []DestinoDoUpdate
  BY InitDestino, NextDestino, TypeCorrect, PTL DEF Spec
<1>. QED
  BY <1>1, InitPromessa, NextPromessa, TypeCorrect, PecasInvSempre, PTL
     DEF Spec, CumprePecasDaOs, Promessa!Spec

==============================================================================
