------------------------------- MODULE Orcamento -------------------------------
(***************************************************************************)
(* The money of one service order: the prices it is opened with, the total *)
(* that gerar-orcamento computes and announces, and the client's answer.   *)
(*                                                                         *)
(* A total is the sum of catalogue prices read in separate statements,     *)
(* while PATCH requests change those prices; it is stored by an UPDATE by  *)
(* id, and announced two awaits later.  A budget may be generated again    *)
(* while the client decides, and the answer of the client names no total.  *)
(* A notice leaves by SNS, whose errors reach the caller although the      *)
(* change is committed, or by SMTP, whose errors are swallowed.  A caller  *)
(* that got a 500 may send its request again.                              *)
(*                                                                         *)
(* Variables of the database: preco, the catalogue; status, total and      *)
(* aplicado (precoAplicado, precoUnitario of the items) of the order.      *)
(* canal is the configuration of the deployment; anunciados and            *)
(* ultimoAnuncio, the totals told to the client.                           *)
(* Variables of the requests: fase, the await each is at; op and para, the *)
(* operation and the status it is to write; lidos, the prices it read.     *)
(* Auxiliary: orcado, a budget was stored once; vistos, the prices an item *)
(* had since the request arrived;                                          *)
(* corrida, two requests were once in flight together; avisoPerdido, the   *)
(* notice of some budget once did not leave; pedidos and mudancas carry    *)
(* the bounds of a run.                                                    *)
(***************************************************************************)
EXTENDS Integers, FiniteSetsExt, OrdemStatus

CONSTANTS
    Servicos, Pecas,  \* catalogue services and parts the order has items of
    Quantidade,       \* Quantidade[i]: units of item i, merged by its id
    Precos,           \* prices, in cents
    PrecoInicial,
    Canais,           \* subset of {"sns", "smtp"}
    Pedidos,          \* requests in flight together
    Falhas,           \* TRUE: a request may be cut at any await
    MaxPedidos,       \* bound: requests ever received, repeated ones included
    MaxMudancas       \* bound: changes of a price

Itens == Servicos \cup Pecas

ASSUME PrecosAssumption == Precos \subseteq Nat /\ PrecoInicial \in [Itens -> Precos]
ASSUME QuantidadeAssumption == Quantidade \in [Itens -> Nat]
ASSUME CanaisAssumption == Canais \subseteq {"sns", "smtp"}
ASSUME OrcamentoAssumption == MaxPedidos \in Nat /\ MaxMudancas \in Nat /\ Falhas \in BOOLEAN

VARIABLES preco, status, total, aplicado, orcado, canal, anunciados, ultimoAnuncio,
          fase, op, para, lidos, vistos, corrida, avisoPerdido, pedidos, mudancas

ordem == <<status, total, aplicado, orcado>>
avisos == <<anunciados, ultimoAnuncio>>
emVoo == <<fase, op, para, lidos, vistos>>
limites == <<corrida, pedidos, mudancas>>
vars == <<preco, ordem, canal, avisos, emVoo, limites, avisoPerdido>>

------------------------------------------------------------------------------
\* Types and helpers

SemPreco == -1
SemTotal == -1
Inexistente == "inexistente"

Leituras == [Itens -> Precos \cup {SemPreco}]
NadaLido == [i \in Itens |-> SemPreco]
NadaVisto == [i \in Itens |-> {}]

Ops == OperacoesOs \cup {"abrir"}
Fases == {"livre", "lerServicos", "lerPecas", "inserir", "gravar", "auditar",
          "enviar", "avisar", "falhou"}

\* total += preco * item.quantidade, over both kinds of items.
Soma(f) == MapThenSumSet(LAMBDA i : f[i] * Quantidade[i], Itens)

Totais == {Soma(f) : f \in [Itens -> Precos]}

EmAndamento(r) == fase[r] \notin {"livre", "falhou"}

\* It stored a budget it has not announced yet.
AguardaAnuncio(r) == op[r] = "orcamento" /\ fase[r] \in {"auditar", "enviar"}

\* Mutant: answered, and still holding what it read.
ResponderSemLimpar(r) ==
    /\ op' = [op EXCEPT ![r] = "nenhuma"]
    /\ UNCHANGED <<fase, para, lidos, vistos>>

\* The request ends with an answer.
Responder(r) ==
    /\ fase' = [fase EXCEPT ![r] = "livre"]
    /\ lidos' = [lidos EXCEPT ![r] = NadaLido]
    /\ vistos' = [vistos EXCEPT ![r] = NadaVisto]
    /\ op' = [op EXCEPT ![r] = "abrir"]
    /\ para' = [para EXCEPT ![r] = "RECEBIDA"]

Avancar(r, f) ==
    /\ fase' = [fase EXCEPT ![r] = f]
    /\ UNCHANGED <<op, para, vistos>>

\* A request arrives and goes on to its first await.
Chegar(r, o, s, f) ==
    /\ pedidos < MaxPedidos
    /\ fase' = [fase EXCEPT ![r] = f]
    /\ op' = [op EXCEPT ![r] = o]
    /\ para' = [para EXCEPT ![r] = s]
    /\ vistos' = [vistos EXCEPT ![r] = [i \in Itens |-> {preco[i]}]]
    /\ corrida' = (corrida \/ \E q \in Pedidos \ {r} : EmAndamento(q))
    /\ pedidos' = pedidos + 1
    /\ UNCHANGED <<preco, ordem, canal, avisos, lidos, mudancas, avisoPerdido>>

------------------------------------------------------------------------------
Init ==
    /\ preco = PrecoInicial
    /\ status = Inexistente
    /\ total = SemTotal
    /\ aplicado = NadaLido
    /\ orcado = FALSE
    /\ canal \in Canais
    /\ anunciados = {}
    /\ ultimoAnuncio = SemTotal
    /\ fase = [r \in Pedidos |-> "livre"]
    /\ op = [r \in Pedidos |-> "abrir"]
    /\ para = [r \in Pedidos |-> "RECEBIDA"]
    /\ lidos = [r \in Pedidos |-> NadaLido]
    /\ vistos = [r \in Pedidos |-> NadaVisto]
    /\ corrida = FALSE
    /\ avisoPerdido = FALSE
    /\ pedidos = 0
    /\ mudancas = 0

------------------------------------------------------------------------------
\* AtualizarServicoCatalogo, AtualizarPeca

(* PATCH of a price: UPDATE by id of the fields named in the body.         *)
AlterarPreco(i, p) ==
    /\ mudancas < MaxMudancas
    /\ p # preco[i]
    /\ preco' = [preco EXCEPT ![i] = p]
    /\ vistos' = [r \in Pedidos |-> IF EmAndamento(r)
                                    THEN [vistos[r] EXCEPT ![i] = @ \cup {p}]
                                    ELSE vistos[r]]
    /\ mudancas' = mudancas + 1
    /\ UNCHANGED <<ordem, canal, avisos, fase, op, para, lidos, corrida, pedidos, avisoPerdido>>

------------------------------------------------------------------------------
\* The awaits of CriarOrdemServico, GerarOrcamento, AprovarOrcamento and
\* IniciarDiagnostico, as far as they touch prices, totals and notices

(* The order is opened once; its client and vehicle are read elsewhere.    *)
Abrir(r) ==
    /\ status = Inexistente
    /\ fase[r] = "livre"
    /\ \A q \in Pedidos : op[q] = "abrir" => ~EmAndamento(q)
    /\ Chegar(r, "abrir", "RECEBIDA", "lerServicos")

\* Mutant: a budget may be generated whatever the status.
AtenderSemValidar(r, o, s) ==
    /\ status # Inexistente
    /\ TransicaoPermitida(o, status, s) \/ (o = "orcamento" /\ s = "AGUARDANDO_APROVACAO")
    /\ Chegar(r, o, s, IF o = "orcamento" THEN "lerServicos" ELSE "gravar")

(* The row of the order is read and the assertion passes (409 changes      *)
(* nothing).  gerar-orcamento goes on reading the items and their prices.  *)
Atender(r, o, s) ==
    /\ status # Inexistente
    /\ TransicaoPermitida(o, status, s)
    /\ Chegar(r, o, s, IF o = "orcamento" THEN "lerServicos" ELSE "gravar")

Pedir(r, o, s) ==
    /\ fase[r] = "livre"
    /\ Atender(r, o, s)

(* The caller of a request that failed sends it again.                     *)
Repetir(r) ==
    /\ fase[r] = "falhou"
    /\ op[r] # "abrir"
    /\ Atender(r, op[r], para[r])

(* It gives up, or its repetition is answered 409.                         *)
Desistir(r) ==
    /\ fase[r] = "falhou"
    /\ Responder(r)
    /\ UNCHANGED <<preco, ordem, canal, avisos, limites, avisoPerdido>>

\* Mutant: a budget at the prices applied when the order was opened.
LerServicosAplicados(r) ==
    /\ fase[r] = "lerServicos"
    /\ lidos' = [lidos EXCEPT ![r] = [i \in Itens |->
                    IF i \in Pecas THEN @[i]
                    ELSE IF op[r] = "abrir" THEN preco[i] ELSE aplicado[i]]]
    /\ Avancar(r, "lerPecas")
    /\ UNCHANGED <<preco, ordem, canal, avisos, limites, avisoPerdido>>

(* The services' prices, in one statement ...                              *)
LerServicos(r) ==
    /\ fase[r] = "lerServicos"
    /\ lidos' = [lidos EXCEPT ![r] = [i \in Itens |-> IF i \in Servicos THEN preco[i] ELSE @[i]]]
    /\ Avancar(r, "lerPecas")
    /\ UNCHANGED <<preco, ordem, canal, avisos, limites, avisoPerdido>>

(* ... the parts' in another.  Then the total is known.                    *)
LerPecas(r) ==
    /\ fase[r] = "lerPecas"
    /\ lidos' = [lidos EXCEPT ![r] = [i \in Itens |-> IF i \in Pecas THEN preco[i] ELSE @[i]]]
    /\ Avancar(r, IF op[r] = "abrir" THEN "inserir" ELSE "gravar")
    /\ UNCHANGED <<preco, ordem, canal, avisos, limites, avisoPerdido>>

(* createWithItems: the order, its total and the prices applied to items.  *)
Inserir(r) ==
    /\ fase[r] = "inserir"
    /\ status' = "RECEBIDA"
    /\ total' = Soma(lidos[r])
    /\ aplicado' = lidos[r]
    /\ Avancar(r, "auditar")
    /\ UNCHANGED <<preco, orcado, canal, avisos, lidos, limites, avisoPerdido>>

\* Mutant: the status is written, the total left as it was when it was set once.
GravarOrcamentoUmaVez(r) ==
    /\ fase[r] = "gravar"
    /\ op[r] = "orcamento"
    /\ total' = IF orcado THEN total ELSE Soma(lidos[r])
    /\ status' = para[r]
    /\ orcado' = TRUE
    /\ Avancar(r, "auditar")
    /\ UNCHANGED <<preco, aplicado, canal, avisos, lidos, limites, avisoPerdido>>

(* gerarOrcamento: total and status, by id.                                *)
GravarOrcamento(r) ==
    /\ fase[r] = "gravar"
    /\ op[r] = "orcamento"
    /\ total' = Soma(lidos[r])
    /\ status' = para[r]
    /\ orcado' = TRUE
    /\ Avancar(r, "auditar")
    /\ UNCHANGED <<preco, aplicado, canal, avisos, lidos, limites, avisoPerdido>>

(* Every other operation writes the status by id and does not look at the  *)
(* total.  An approval may be refused (422).                               *)
GravarStatus(r) ==
    /\ fase[r] = "gravar"
    /\ op[r] # "orcamento"
    /\ \/ /\ status' = para[r]
          /\ Avancar(r, "auditar")
          /\ UNCHANGED lidos
       \/ para[r] = "EM_EXECUCAO" /\ Responder(r) /\ UNCHANGED status
    /\ UNCHANGED <<preco, total, aplicado, orcado, canal, avisos, limites, avisoPerdido>>

\* Mutant: the status notice replaces the notice of the budget.
AuditarSemOrcamento(r) ==
    /\ fase[r] = "auditar"
    /\ IF op[r] = "abrir" THEN Responder(r) ELSE Avancar(r, "avisar") /\ UNCHANGED lidos
    /\ UNCHANGED <<preco, ordem, canal, avisos, limites, avisoPerdido>>

(* recordOsTransition; an opening is answered here.                        *)
Auditar(r) ==
    /\ fase[r] = "auditar"
    /\ CASE op[r] = "abrir"     -> Responder(r)
         [] op[r] = "orcamento" -> Avancar(r, "enviar") /\ UNCHANGED lidos
         [] OTHER               -> Avancar(r, "avisar") /\ UNCHANGED lidos
    /\ UNCHANGED <<preco, ordem, canal, avisos, limites, avisoPerdido>>

(* The notice of a budget leaves with the total this request computed.     *)
Anunciar(r) ==
    /\ anunciados' = anunciados \cup {Soma(lidos[r])}
    /\ ultimoAnuncio' = Soma(lidos[r])
    /\ UNCHANGED avisoPerdido

(* sendMail returns false: disabled, no address, no host, or the transport *)
(* threw.  The caller is not told.                                         *)
Engolir ==
    /\ canal = "smtp"
    /\ avisoPerdido' = TRUE
    /\ UNCHANGED avisos

\* Mutant: an error of SNS is swallowed as one of SMTP is.
EnviarOrcamentoEngolindo(r) ==
    /\ fase[r] = "enviar"
    /\ Anunciar(r) \/ (avisoPerdido' = TRUE /\ UNCHANGED avisos)
    /\ Avancar(r, "avisar")
    /\ UNCHANGED <<preco, ordem, canal, lidos, limites>>

(* CompositeOrcamentoNotifier: SNS if a topic is configured, else e-mail.  *)
EnviarOrcamento(r) ==
    /\ fase[r] = "enviar"
    /\ Anunciar(r) \/ Engolir
    /\ Avancar(r, "avisar")
    /\ UNCHANGED <<preco, ordem, canal, lidos, limites>>

(* CompositeOsStatusNotifier, then the answer 200.                         *)
Avisar(r) ==
    /\ fase[r] = "avisar"
    /\ Responder(r)
    /\ UNCHANGED <<preco, ordem, canal, avisos, limites, avisoPerdido>>

(* A query or SNS rejects, or the pod is killed: the caller sees an error, *)
(* what was committed stays.  An error of SNS may hide a notice that left. *)
Interromper(r) ==
    /\ Falhas
    /\ EmAndamento(r)
    /\ fase' = [fase EXCEPT ![r] = "falhou"]
    /\ lidos' = [lidos EXCEPT ![r] = NadaLido]
    /\ vistos' = [vistos EXCEPT ![r] = NadaVisto]
    /\ \/ fase[r] = "enviar" /\ canal = "sns" /\ Anunciar(r)
       \/ /\ avisoPerdido' = (avisoPerdido \/ AguardaAnuncio(r))
          /\ UNCHANGED avisos
    /\ UNCHANGED <<preco, ordem, canal, op, para, limites>>

Next ==
    \/ \E i \in Itens, p \in Precos : AlterarPreco(i, p)
    \/ \E r \in Pedidos, o \in OperacoesOs, s \in StatusOs : Pedir(r, o, s)
    \/ \E r \in Pedidos :
         \/ Abrir(r)
         \/ Repetir(r)
         \/ Desistir(r)
         \/ LerServicos(r)
         \/ LerPecas(r)
         \/ Inserir(r)
         \/ GravarOrcamento(r)
         \/ GravarStatus(r)
         \/ Auditar(r)
         \/ EnviarOrcamento(r)
         \/ Avisar(r)
         \/ Interromper(r)

Spec == Init /\ [][Next]_vars

------------------------------------------------------------------------------
\* Properties

OrcamentoTypeOK ==
    /\ preco \in [Itens -> Precos]
    /\ status \in StatusOs \cup {Inexistente}
    /\ total \in Totais \cup {SemTotal}
    /\ aplicado \in Leituras
    /\ canal \in Canais
    /\ anunciados \subseteq Totais
    /\ ultimoAnuncio \in Totais \cup {SemTotal}
    /\ fase \in [Pedidos -> Fases]
    /\ op \in [Pedidos -> Ops]
    /\ para \in [Pedidos -> StatusOs]
    /\ lidos \in [Pedidos -> Leituras]
    /\ vistos \in [Pedidos -> [Itens -> SUBSET Precos]]
    /\ orcado \in BOOLEAN /\ corrida \in BOOLEAN /\ avisoPerdido \in BOOLEAN
    /\ pedidos \in 0..MaxPedidos /\ mudancas \in 0..MaxMudancas

(* A total that a request stores adds, for every item and its quantity, a  *)
(* price the catalogue had at some moment since that request arrived:      *)
(* never an older one, whatever is changed between its reads.              *)
TotalDePrecosVistos ==
    [][\A r \in Pedidos :
          op[r] \in {"abrir", "orcamento"} /\ fase[r] # "auditar" /\ fase'[r] = "auditar" =>
              \E f \in [Itens -> Precos] :
                  /\ total' = Soma(f)
                  /\ \A i \in Itens : f[i] \in vistos[r][i]]_vars

(* The total of a budget was announced to the client, or the request that  *)
(* stored it is on its way to announce it, however many budgets race,      *)
(* as long as no notice of a budget was lost.                              *)
OrcamentoAnunciado ==
    orcado /\ ~avisoPerdido =>
        \/ total \in anunciados
        \/ \E r \in Pedidos : AguardaAnuncio(r) /\ Soma(lidos[r]) = total

(* What the client accepts is what the last notice said, when no two       *)
(* requests ever overlapped and no notice was lost: the answer names no    *)
(* total, so this rests on the order of writes and notices only.           *)
AceiteDoUltimoAnuncio ==
    [][orcado /\ ~corrida /\ ~avisoPerdido /\ status # status' /\ status' = "EM_EXECUCAO"
          => total = ultimoAnuncio]_vars

Decididas == {"EM_EXECUCAO", "FINALIZADA", "ENTREGUE", "REJEITADA"}

(* When no two requests ever overlapped, the first answer of the client    *)
(* stands: callers that repeat what failed, or generate the budget again,  *)
(* neither reopen the decision nor change the total it was about.          *)
DecisaoFirme ==
    [][~corrida /\ status \in Decididas =>
          /\ UNCHANGED total
          /\ status' \in Decididas
          /\ status = "REJEITADA" <=> status' = "REJEITADA"]_vars

(* A caller answered 200 to gerar-orcamento may conclude, with SNS, that   *)
(* the client was told the total computed for it; a repeated request may   *)
(* tell it twice, a failed one may have told it too.                       *)
SucessoAnunciado ==
    [][\A r \in Pedidos :
          op[r] = "orcamento" /\ canal = "sns" /\ fase[r] = "avisar" /\ fase'[r] = "livre"
          => Soma(lidos[r]) \in anunciados]_vars

==============================================================================
