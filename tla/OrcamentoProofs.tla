---------------------------- MODULE OrcamentoProofs ----------------------------
(***************************************************************************)
(* Proofs about Orcamento, for every number of requests, items, prices and *)
(* changes of them: the types; that every total stored adds prices seen by *)
(* the request that stores it; that it is announced, unless a notice was   *)
(* lost; and, when no two requests overlapped, that the client accepts the *)
(* last total announced and that the decision stands.                      *)
(***************************************************************************)
EXTENDS Orcamento, TLAPS

------------------------------------------------------------------------------
\* The inductive invariant

Completa(r) == \A i \in Itens : lidos[r][i] \in vistos[r][i]

\* Request r knows its total.
SomaFeita(r) ==
    \/ fase[r] = "inserir"
    \/ op[r] = "orcamento" /\ fase[r] \in {"gravar", "auditar", "enviar", "avisar"}

FaseCertaDe(r) ==
    /\ fase[r] \in {"lerServicos", "lerPecas"} => op[r] \in {"abrir", "orcamento"}
    /\ fase[r] = "inserir" => op[r] = "abrir"
    /\ fase[r] \in {"gravar", "enviar", "avisar"} => op[r] # "abrir"
    /\ fase[r] = "enviar" => op[r] = "orcamento"
    /\ op[r] = "orcamento" => para[r] = "AGUARDANDO_APROVACAO"

LeituraCertaDe(r) ==
    /\ EmAndamento(r) => \A i \in Itens : preco[i] \in vistos[r][i]
    /\ fase[r] = "lerPecas" => \A i \in Servicos : lidos[r][i] \in vistos[r][i]
    /\ SomaFeita(r) => Completa(r)

\* Answered, the request told the total it computed.
SucessoCertoDe(r) ==
    op[r] = "orcamento" /\ fase[r] = "avisar" /\ canal = "sns" => Soma(lidos[r]) \in anunciados

Abrindo(r) == op[r] = "abrir" /\ fase[r] \in {"lerServicos", "lerPecas", "inserir"}

\* One request at most is opening the order, which then does not exist; no
\* other request is in flight before it does.
AberturaUnica ==
    /\ \A r \in Pedidos : Abrindo(r) => status = Inexistente
    /\ \A r, q \in Pedidos : Abrindo(r) /\ Abrindo(q) => r = q
    /\ status = Inexistente => ~orcado /\ \A r \in Pedidos : EmAndamento(r) => op[r] = "abrir"

\* The status it asserted is to be overwritten by request r.
Decidindo(r) == op[r] # "abrir" /\ fase[r] \in {"lerServicos", "lerPecas", "gravar"}

\* As long as requests came one after the other.
EmOrdem ==
    ~corrida =>
        /\ \A r, q \in Pedidos : EmAndamento(r) /\ EmAndamento(q) => r = q
        /\ \A r \in Pedidos : Decidindo(r) => TransicaoPermitida(op[r], status, para[r])
        /\ \A r \in Pedidos : AguardaAnuncio(r) => Soma(lidos[r]) = total
        /\ orcado /\ ~avisoPerdido => total = ultimoAnuncio \/ \E r \in Pedidos : AguardaAnuncio(r)

OrcamentoInv ==
    /\ OrcamentoTypeOK
    /\ \A r \in Pedidos : FaseCertaDe(r) /\ LeituraCertaDe(r) /\ SucessoCertoDe(r)
    /\ AberturaUnica
    /\ EmOrdem
    /\ OrcamentoAnunciado

------------------------------------------------------------------------------
\* Types

LEMMA SomaTipada ==
    ASSUME OrcamentoTypeOK, NEW r \in Pedidos, Completa(r)
    PROVE  lidos[r] \in [Itens -> Precos] /\ Soma(lidos[r]) \in Totais
<1>1. lidos[r] \in [Itens -> Precos]
  BY DEF OrcamentoTypeOK, Leituras, Completa
<1>. QED  BY <1>1 DEF Totais

LEMMA NadaTipado == NadaLido \in Leituras /\ NadaVisto \in [Itens -> SUBSET Precos]
BY DEF NadaLido, NadaVisto, Leituras

LEMMA InitOrcamentoInv == Init => OrcamentoInv
<1>. SUFFICES ASSUME Init PROVE OrcamentoInv
  OBVIOUS
<1>1. pedidos = 0 /\ mudancas = 0 /\ preco = PrecoInicial /\ aplicado = NadaLido
  BY DEF Init
<1>2. 0 \in 0..MaxPedidos /\ 0 \in 0..MaxMudancas
  BY OrcamentoAssumption
<1>3. pedidos \in 0..MaxPedidos /\ mudancas \in 0..MaxMudancas
  BY <1>1, <1>2
<1>4. orcado \in BOOLEAN /\ corrida \in BOOLEAN /\ avisoPerdido \in BOOLEAN
  BY DEF Init
<1>5. preco \in [Itens -> Precos] /\ aplicado \in Leituras
  BY <1>1, NadaTipado, PrecosAssumption
<1>6. OrcamentoTypeOK
  BY <1>3, <1>4, <1>5, NadaTipado DEF Init, OrcamentoTypeOK, Fases, Ops, StatusOs
<1>7. \A r \in Pedidos : fase[r] = "livre" /\ op[r] = "abrir"
  BY DEF Init
<1>8. \A r \in Pedidos : FaseCertaDe(r) /\ LeituraCertaDe(r) /\ SucessoCertoDe(r)
  BY <1>7 DEF FaseCertaDe, LeituraCertaDe, SucessoCertoDe, SomaFeita, EmAndamento
<1>9. AberturaUnica /\ EmOrdem /\ OrcamentoAnunciado
  BY <1>7 DEF Init, AberturaUnica, EmOrdem, OrcamentoAnunciado, Abrindo, Decidindo, EmAndamento,
              AguardaAnuncio
<1>. QED  BY <1>6, <1>8, <1>9 DEF OrcamentoInv

\* A step of request r does not touch the others.
Alheios(r) ==
    \A q \in Pedidos \ {r} : /\ fase'[q] = fase[q] /\ op'[q] = op[q] /\ para'[q] = para[q]
                             /\ lidos'[q] = lidos[q] /\ vistos'[q] = vistos[q]

LEMMA ResponderEfeito ==
    ASSUME OrcamentoTypeOK, NEW r \in Pedidos, Responder(r)
    PROVE  /\ fase' \in [Pedidos -> Fases] /\ op' \in [Pedidos -> Ops] /\ para' \in [Pedidos -> StatusOs]
           /\ lidos' \in [Pedidos -> Leituras] /\ vistos' \in [Pedidos -> [Itens -> SUBSET Precos]]
           /\ fase'[r] = "livre" /\ op'[r] = "abrir" /\ Alheios(r)
BY NadaTipado DEF OrcamentoTypeOK, Responder, Alheios, Fases, Ops, StatusOs

LEMMA AvancarEfeito ==
    ASSUME OrcamentoTypeOK, NEW r \in Pedidos, NEW f \in Fases, Avancar(r, f),
           lidos' \in [Pedidos -> Leituras], \A q \in Pedidos \ {r} : lidos'[q] = lidos[q]
    PROVE  /\ fase' \in [Pedidos -> Fases] /\ op' \in [Pedidos -> Ops] /\ para' \in [Pedidos -> StatusOs]
           /\ vistos' \in [Pedidos -> [Itens -> SUBSET Precos]]
           /\ fase'[r] = f /\ op'[r] = op[r] /\ para'[r] = para[r] /\ vistos'[r] = vistos[r] /\ Alheios(r)
BY DEF OrcamentoTypeOK, Avancar, Alheios

------------------------------------------------------------------------------
\* Steps that do not write the order

(* Request r goes on, or ends, and the order is as it was.                 *)
LEMMA LocalInv ==
    ASSUME OrcamentoInv, NEW r \in Pedidos, Alheios(r), OrcamentoTypeOK',
           UNCHANGED <<preco, status, total, orcado, canal, corrida>>,
           anunciados \subseteq anunciados', avisoPerdido => avisoPerdido',
           FaseCertaDe(r)', LeituraCertaDe(r)', SucessoCertoDe(r)',
           EmAndamento(r)' => EmAndamento(r) /\ op'[r] = op[r] /\ para'[r] = para[r],
           Abrindo(r)' => Abrindo(r), Decidindo(r)' => Decidindo(r),
           AguardaAnuncio(r)' => AguardaAnuncio(r) /\ lidos'[r] = lidos[r],
           AguardaAnuncio(r) => \/ AguardaAnuncio(r)'
                                \/ avisoPerdido'
                                \/ Soma(lidos[r]) \in anunciados' /\ ultimoAnuncio' = Soma(lidos[r]),
           \/ UNCHANGED ultimoAnuncio
           \/ AguardaAnuncio(r) /\ ultimoAnuncio' = Soma(lidos[r])
    PROVE  OrcamentoInv'
<1>1. \A q \in Pedidos \ {r} : /\ EmAndamento(q)' <=> EmAndamento(q)
                               /\ Abrindo(q)' <=> Abrindo(q)
                               /\ Decidindo(q)' <=> Decidindo(q)
                               /\ AguardaAnuncio(q)' <=> AguardaAnuncio(q)
  BY DEF Alheios, EmAndamento, Abrindo, Decidindo, AguardaAnuncio
<1>2. \A q \in Pedidos : FaseCertaDe(q)' /\ LeituraCertaDe(q)' /\ SucessoCertoDe(q)'
  BY DEF OrcamentoInv, Alheios, FaseCertaDe, LeituraCertaDe, SucessoCertoDe, SomaFeita, Completa, EmAndamento
<1>3. AberturaUnica'
  BY <1>1 DEF OrcamentoInv, AberturaUnica, Alheios
<1>4. EmOrdem'
  <2>. SUFFICES ASSUME ~corrida PROVE EmOrdem'
    BY DEF EmOrdem
  <2>1. \A q, x \in Pedidos : EmAndamento(q)' /\ EmAndamento(x)' => q = x
    BY <1>1 DEF OrcamentoInv, EmOrdem
  <2>2. \A q \in Pedidos : Decidindo(q)' => TransicaoPermitida(op'[q], status, para'[q])
    BY <1>1 DEF OrcamentoInv, EmOrdem, Alheios, Decidindo, EmAndamento
  <2>3. \A q \in Pedidos : AguardaAnuncio(q)' => Soma(lidos'[q]) = total
    <3>1. \A q \in Pedidos : AguardaAnuncio(q)' => AguardaAnuncio(q) /\ lidos'[q] = lidos[q]
      BY <1>1 DEF Alheios
    <3>. QED  BY <3>1 DEF OrcamentoInv, EmOrdem
  <2>4. orcado /\ ~avisoPerdido' => total = ultimoAnuncio' \/ \E q \in Pedidos : AguardaAnuncio(q)'
    BY <1>1 DEF OrcamentoInv, EmOrdem
  <2>. QED  BY <2>1, <2>2, <2>3, <2>4 DEF EmOrdem
<1>5. OrcamentoAnunciado'
  <2>. SUFFICES ASSUME orcado, ~avisoPerdido', total \notin anunciados'
                PROVE  \E q \in Pedidos : AguardaAnuncio(q)' /\ Soma(lidos'[q]) = total
    BY DEF OrcamentoAnunciado
  <2>1. PICK q \in Pedidos : AguardaAnuncio(q) /\ Soma(lidos[q]) = total
    BY DEF OrcamentoInv, OrcamentoAnunciado
  <2>2. AguardaAnuncio(q)' /\ lidos'[q] = lidos[q]
    BY <1>1, <2>1 DEF Alheios
  <2>. QED  BY <2>1, <2>2
<1>. QED  BY <1>2, <1>3, <1>4, <1>5 DEF OrcamentoInv

LEMMA LerServicosInv ==
    ASSUME OrcamentoInv, NEW r \in Pedidos, LerServicos(r) PROVE OrcamentoInv'
<1>. OrcamentoTypeOK /\ FaseCertaDe(r) /\ LeituraCertaDe(r)
  BY DEF OrcamentoInv
<1>. DEFINE f == [i \in Itens |-> IF i \in Servicos THEN preco[i] ELSE lidos[r][i]]
<1>1. /\ fase[r] = "lerServicos" /\ lidos' = [lidos EXCEPT ![r] = f] /\ Avancar(r, "lerPecas")
      /\ UNCHANGED <<preco, status, total, aplicado, orcado, canal, anunciados, ultimoAnuncio,
                     corrida, pedidos, mudancas, avisoPerdido>>
  BY DEF LerServicos, ordem, avisos, limites
<1>2. f \in Leituras
  BY DEF OrcamentoTypeOK, Leituras
<1>3. lidos' \in [Pedidos -> Leituras] /\ lidos'[r] = f /\ \A q \in Pedidos \ {r} : lidos'[q] = lidos[q]
  BY <1>1, <1>2 DEF OrcamentoTypeOK
<1>4. /\ fase'[r] = "lerPecas" /\ op'[r] = op[r] /\ para'[r] = para[r] /\ vistos'[r] = vistos[r]
      /\ Alheios(r) /\ OrcamentoTypeOK'
  BY <1>1, <1>3, AvancarEfeito DEF Fases, OrcamentoTypeOK
<1>5. \A i \in Servicos : lidos'[r][i] \in vistos'[r][i]
  BY <1>1, <1>3, <1>4 DEF LeituraCertaDe, EmAndamento, Itens
<1>6. FaseCertaDe(r)' /\ LeituraCertaDe(r)' /\ SucessoCertoDe(r)'
  BY <1>1, <1>4, <1>5 DEF FaseCertaDe, LeituraCertaDe, SucessoCertoDe, SomaFeita, EmAndamento
<1>. QED
  BY <1>1, <1>4, <1>6, LocalInv DEF EmAndamento, Abrindo, Decidindo, AguardaAnuncio

LEMMA LerPecasInv ==
    ASSUME OrcamentoInv, NEW r \in Pedidos, LerPecas(r) PROVE OrcamentoInv'
<1>. OrcamentoTypeOK /\ FaseCertaDe(r) /\ LeituraCertaDe(r)
  BY DEF OrcamentoInv
<1>. DEFINE f == [i \in Itens |-> IF i \in Pecas THEN preco[i] ELSE lidos[r][i]]
            g == IF op[r] = "abrir" THEN "inserir" ELSE "gravar"
<1>1. /\ fase[r] = "lerPecas" /\ lidos' = [lidos EXCEPT ![r] = f] /\ Avancar(r, g)
      /\ UNCHANGED <<preco, status, total, aplicado, orcado, canal, anunciados, ultimoAnuncio,
                     corrida, pedidos, mudancas, avisoPerdido>>
  BY DEF LerPecas, ordem, avisos, limites
<1>2. f \in Leituras
  BY DEF OrcamentoTypeOK, Leituras
<1>3. lidos' \in [Pedidos -> Leituras] /\ lidos'[r] = f /\ \A q \in Pedidos \ {r} : lidos'[q] = lidos[q]
  BY <1>1, <1>2 DEF OrcamentoTypeOK
<1>4. /\ fase'[r] = g /\ op'[r] = op[r] /\ para'[r] = para[r] /\ vistos'[r] = vistos[r]
      /\ Alheios(r) /\ OrcamentoTypeOK'
  BY <1>1, <1>3, AvancarEfeito DEF Fases, OrcamentoTypeOK
<1>5. Completa(r)'
  BY <1>1, <1>3, <1>4 DEF LeituraCertaDe, EmAndamento, Itens, Completa
<1>6. FaseCertaDe(r)' /\ LeituraCertaDe(r)' /\ SucessoCertoDe(r)'
  BY <1>1, <1>4, <1>5 DEF FaseCertaDe, LeituraCertaDe, SucessoCertoDe, EmAndamento
<1>. QED
  BY <1>1, <1>4, <1>6, LocalInv DEF EmAndamento, Abrindo, Decidindo, AguardaAnuncio

(* The request is answered, and nothing was written.                       *)
LEMMA ResponderInv ==
    ASSUME OrcamentoInv, NEW r \in Pedidos, Responder(r), ~AguardaAnuncio(r),
           UNCHANGED <<preco, ordem, canal, avisos, limites, avisoPerdido>>
    PROVE  OrcamentoInv'
<1>. OrcamentoTypeOK
  BY DEF OrcamentoInv
<1>1. UNCHANGED <<preco, status, total, aplicado, orcado, canal, anunciados, ultimoAnuncio,
                  corrida, pedidos, mudancas, avisoPerdido>>
  BY DEF ordem, avisos, limites
<1>2. fase'[r] = "livre" /\ op'[r] = "abrir" /\ Alheios(r) /\ OrcamentoTypeOK'
  BY <1>1, ResponderEfeito DEF OrcamentoTypeOK
<1>3. FaseCertaDe(r)' /\ LeituraCertaDe(r)' /\ SucessoCertoDe(r)'
  BY <1>2 DEF FaseCertaDe, LeituraCertaDe, SucessoCertoDe, SomaFeita, EmAndamento
<1>. QED
  BY <1>1, <1>2, <1>3, LocalInv DEF EmAndamento, Abrindo, Decidindo, AguardaAnuncio

LEMMA AuditarInv ==
    ASSUME OrcamentoInv, NEW r \in Pedidos, Auditar(r) PROVE OrcamentoInv'
<1>. OrcamentoTypeOK /\ FaseCertaDe(r) /\ LeituraCertaDe(r)
  BY DEF OrcamentoInv
<1>1. CASE op[r] = "abrir"
  BY <1>1, ResponderInv DEF Auditar, AguardaAnuncio
<1>2. CASE op[r] # "abrir"
  <2>. DEFINE g == IF op[r] = "orcamento" THEN "enviar" ELSE "avisar"
  <2>1. /\ fase[r] = "auditar" /\ Avancar(r, g)
        /\ UNCHANGED <<preco, status, total, aplicado, orcado, canal, anunciados, ultimoAnuncio,
                       lidos, corrida, pedidos, mudancas, avisoPerdido>>
    BY <1>2 DEF Auditar, ordem, avisos, limites
  <2>2. /\ fase'[r] = g /\ op'[r] = op[r] /\ para'[r] = para[r] /\ vistos'[r] = vistos[r]
        /\ Alheios(r) /\ OrcamentoTypeOK'
    BY <2>1, AvancarEfeito DEF Fases, OrcamentoTypeOK
  <2>3. FaseCertaDe(r)' /\ LeituraCertaDe(r)' /\ SucessoCertoDe(r)'
    BY <1>2, <2>1, <2>2
       DEF FaseCertaDe, LeituraCertaDe, SucessoCertoDe, SomaFeita, Completa, EmAndamento
  <2>. QED
    BY <1>2, <2>1, <2>2, <2>3, LocalInv DEF EmAndamento, Abrindo, Decidindo, AguardaAnuncio
<1>. QED  BY <1>1, <1>2

LEMMA EnviarOrcamentoInv ==
    ASSUME OrcamentoInv, NEW r \in Pedidos, EnviarOrcamento(r) PROVE OrcamentoInv'
<1>. OrcamentoTypeOK /\ FaseCertaDe(r) /\ LeituraCertaDe(r)
  BY DEF OrcamentoInv
<1>1. /\ fase[r] = "enviar" /\ Avancar(r, "avisar") /\ (Anunciar(r) \/ Engolir)
      /\ UNCHANGED <<preco, status, total, aplicado, orcado, canal, lidos, corrida, pedidos, mudancas>>
  BY DEF EnviarOrcamento, ordem, limites
<1>2. op[r] = "orcamento" /\ Completa(r) /\ Soma(lidos[r]) \in Totais
  BY <1>1, SomaTipada DEF FaseCertaDe, LeituraCertaDe, SomaFeita
<1>3. /\ fase'[r] = "avisar" /\ op'[r] = op[r] /\ para'[r] = para[r] /\ vistos'[r] = vistos[r]
      /\ Alheios(r) /\ OrcamentoTypeOK'
  BY <1>1, <1>2, AvancarEfeito DEF Fases, OrcamentoTypeOK, Anunciar, Engolir, avisos
<1>4. FaseCertaDe(r)' /\ LeituraCertaDe(r)'
  BY <1>1, <1>2, <1>3 DEF FaseCertaDe, LeituraCertaDe, SomaFeita, Completa, EmAndamento
<1>5. SucessoCertoDe(r)'
  BY <1>1, <1>3 DEF SucessoCertoDe, Anunciar, Engolir
<1>6. /\ anunciados \subseteq anunciados' /\ (avisoPerdido => avisoPerdido')
      /\ avisoPerdido' \/ (Soma(lidos[r]) \in anunciados' /\ ultimoAnuncio' = Soma(lidos[r]))
      /\ UNCHANGED ultimoAnuncio \/ ultimoAnuncio' = Soma(lidos[r])
  BY <1>1 DEF Anunciar, Engolir, avisos
<1>. QED
  BY <1>1, <1>2, <1>3, <1>4, <1>5, <1>6, LocalInv DEF EmAndamento, Abrindo, Decidindo, AguardaAnuncio

LEMMA InterromperInv ==
    ASSUME OrcamentoInv, NEW r \in Pedidos, Interromper(r) PROVE OrcamentoInv'
<1>. OrcamentoTypeOK /\ FaseCertaDe(r) /\ LeituraCertaDe(r)
  BY DEF OrcamentoInv
<1>1. /\ fase' = [fase EXCEPT ![r] = "falhou"] /\ lidos' = [lidos EXCEPT ![r] = NadaLido]
      /\ vistos' = [vistos EXCEPT ![r] = NadaVisto]
      /\ UNCHANGED <<preco, status, total, aplicado, orcado, canal, op, para, corrida, pedidos, mudancas>>
  BY DEF Interromper, ordem, limites
<1>2. CASE fase[r] = "enviar" /\ Anunciar(r)
  <2>1. AguardaAnuncio(r) /\ Soma(lidos[r]) \in Totais
    BY <1>2, SomaTipada DEF FaseCertaDe, LeituraCertaDe, SomaFeita, AguardaAnuncio
  <2>2. fase'[r] = "falhou" /\ op'[r] = op[r] /\ Alheios(r) /\ OrcamentoTypeOK'
    BY <1>1, <1>2, <2>1, NadaTipado DEF Alheios, OrcamentoTypeOK, Fases, Anunciar
  <2>3. FaseCertaDe(r)' /\ LeituraCertaDe(r)' /\ SucessoCertoDe(r)'
    BY <1>1, <2>2 DEF FaseCertaDe, LeituraCertaDe, SucessoCertoDe, SomaFeita, EmAndamento
  <2>. QED
    BY <1>1, <1>2, <2>1, <2>2, <2>3, LocalInv
       DEF Anunciar, EmAndamento, Abrindo, Decidindo, AguardaAnuncio
<1>3. CASE avisoPerdido' = (avisoPerdido \/ AguardaAnuncio(r)) /\ UNCHANGED avisos
  <2>1. /\ UNCHANGED <<anunciados, ultimoAnuncio>> /\ avisoPerdido' \in BOOLEAN
        /\ (avisoPerdido => avisoPerdido') /\ (AguardaAnuncio(r) => avisoPerdido')
    BY <1>3 DEF avisos
  <2>2. fase'[r] = "falhou" /\ op'[r] = op[r] /\ Alheios(r) /\ OrcamentoTypeOK'
    BY <1>1, <2>1, NadaTipado DEF Alheios, OrcamentoTypeOK, Fases
  <2>3. FaseCertaDe(r)' /\ LeituraCertaDe(r)' /\ SucessoCertoDe(r)'
    BY <1>1, <2>2 DEF FaseCertaDe, LeituraCertaDe, SucessoCertoDe, SomaFeita, EmAndamento
  <2>. QED
    BY <1>1, <2>1, <2>2, <2>3, LocalInv DEF EmAndamento, Abrindo, Decidindo, AguardaAnuncio
<1>. QED  BY <1>2, <1>3 DEF Interromper

------------------------------------------------------------------------------
\* Arrivals, writes of the order and changes of prices

LEMMA ChegarInv ==
    ASSUME OrcamentoInv, NEW r \in Pedidos, NEW o \in Ops, NEW s \in StatusOs,
           NEW f \in {"lerServicos", "gravar"}, ~EmAndamento(r), Chegar(r, o, s, f),
           f = "lerServicos" <=> o \in {"abrir", "orcamento"},
           o = "orcamento" => s = "AGUARDANDO_APROVACAO",
           o = "abrir" => status = Inexistente /\ \A q \in Pedidos : op[q] = "abrir" => ~EmAndamento(q),
           o # "abrir" => status # Inexistente /\ TransicaoPermitida(o, status, s)
    PROVE  OrcamentoInv'
<1>. OrcamentoTypeOK
  BY DEF OrcamentoInv
<1>. DEFINE v == [i \in Itens |-> {preco[i]}]
<1>1. /\ fase' = [fase EXCEPT ![r] = f] /\ op' = [op EXCEPT ![r] = o] /\ para' = [para EXCEPT ![r] = s]
      /\ vistos' = [vistos EXCEPT ![r] = v] /\ pedidos' = pedidos + 1 /\ pedidos < MaxPedidos
      /\ corrida' = (corrida \/ \E q \in Pedidos \ {r} : EmAndamento(q))
      /\ UNCHANGED <<preco, status, total, aplicado, orcado, canal, anunciados, ultimoAnuncio,
                     lidos, mudancas, avisoPerdido>>
  BY DEF Chegar, ordem, avisos
<1>2. v \in [Itens -> SUBSET Precos] /\ pedidos' \in 0..MaxPedidos /\ corrida' \in BOOLEAN
  BY <1>1, OrcamentoAssumption DEF OrcamentoTypeOK
<1>3. OrcamentoTypeOK'
  BY <1>1, <1>2 DEF OrcamentoTypeOK, Fases
<1>4. fase'[r] = f /\ op'[r] = o /\ para'[r] = s /\ vistos'[r] = v /\ Alheios(r)
  BY <1>1 DEF Alheios, OrcamentoTypeOK
<1>5. \A q \in Pedidos \ {r} : /\ EmAndamento(q)' <=> EmAndamento(q)
                               /\ Abrindo(q)' <=> Abrindo(q)
                               /\ Decidindo(q)' <=> Decidindo(q)
                               /\ AguardaAnuncio(q)' <=> AguardaAnuncio(q)
  BY <1>4 DEF Alheios, EmAndamento, Abrindo, Decidindo, AguardaAnuncio
<1>6. ~AguardaAnuncio(r) /\ ~AguardaAnuncio(r)'
  BY <1>4 DEF EmAndamento, AguardaAnuncio
<1>7. FaseCertaDe(r)' /\ LeituraCertaDe(r)' /\ SucessoCertoDe(r)'
  BY <1>1, <1>4 DEF FaseCertaDe, LeituraCertaDe, SucessoCertoDe, SomaFeita, EmAndamento
<1>8. \A q \in Pedidos : FaseCertaDe(q)' /\ LeituraCertaDe(q)' /\ SucessoCertoDe(q)'
  BY <1>1, <1>4, <1>7
     DEF OrcamentoInv, Alheios, FaseCertaDe, LeituraCertaDe, SucessoCertoDe, SomaFeita, Completa, EmAndamento
<1>9. AberturaUnica'
  <2>1. Abrindo(r)' <=> o = "abrir"
    BY <1>4 DEF Abrindo
  <2>2. o = "abrir" => \A q \in Pedidos : ~Abrindo(q)
    BY DEF Abrindo, EmAndamento
  <2>. QED  BY <1>1, <1>4, <1>5, <2>1, <2>2 DEF OrcamentoInv, AberturaUnica, Alheios
<1>10. EmOrdem'
  <2>. SUFFICES ASSUME ~corrida' PROVE EmOrdem'
    BY DEF EmOrdem
  <2>1. ~corrida /\ \A q \in Pedidos \ {r} : ~EmAndamento(q)'
    BY <1>1, <1>5
  <2>2. \A q \in Pedidos \ {r} : ~Decidindo(q)' /\ ~AguardaAnuncio(q)'
    BY <2>1 DEF EmAndamento, Decidindo, AguardaAnuncio
  <2>3. Decidindo(r)' => TransicaoPermitida(op'[r], status, para'[r])
    BY <1>4 DEF Decidindo
  <2>4. orcado /\ ~avisoPerdido => total = ultimoAnuncio
    BY <1>5, <1>6, <2>1, <2>2 DEF OrcamentoInv, EmOrdem
  <2>. QED  BY <1>1, <1>6, <2>1, <2>2, <2>3, <2>4 DEF EmOrdem
<1>11. OrcamentoAnunciado'
  BY <1>1, <1>5, <1>6 DEF OrcamentoInv, OrcamentoAnunciado, Alheios
<1>. QED  BY <1>3, <1>8, <1>9, <1>10, <1>11 DEF OrcamentoInv

\* A budget is only ever asked for to have it waiting for approval.
LEMMA OrcamentoPede ==
    ASSUME NEW d, NEW s, TransicaoPermitida("orcamento", d, s)
    PROVE  s = "AGUARDANDO_APROVACAO" /\ d \in StatusParaGerarOrcamento
BY DEF TransicaoPermitida, TransicoesDiretas

LEMMA AtenderInv ==
    ASSUME OrcamentoInv, NEW r \in Pedidos, ~EmAndamento(r), NEW o \in OperacoesOs, NEW s \in StatusOs,
           Atender(r, o, s)
    PROVE  OrcamentoInv'
<1>. DEFINE f == IF o = "orcamento" THEN "lerServicos" ELSE "gravar"
<1>1. status # Inexistente /\ TransicaoPermitida(o, status, s) /\ Chegar(r, o, s, f)
  BY DEF Atender
<1>2. o \in Ops /\ o # "abrir"
  BY DEF Ops, OperacoesOs
<1>. QED  BY <1>1, <1>2, ChegarInv, OrcamentoPede

LEMMA ChegadasInv ==
    ASSUME OrcamentoInv, NEW r \in Pedidos,
           \/ Abrir(r) \/ Repetir(r)
           \/ \E o \in OperacoesOs, s \in StatusOs : Pedir(r, o, s)
    PROVE  OrcamentoInv'
<1>1. CASE Abrir(r)
  BY <1>1, ChegarInv DEF Abrir, EmAndamento, Ops, StatusOs
<1>2. CASE Repetir(r)
  <2>1. op[r] \in OperacoesOs /\ para[r] \in StatusOs
    BY <1>2 DEF Repetir, OrcamentoInv, OrcamentoTypeOK, Ops
  <2>. QED  BY <1>2, <2>1, AtenderInv DEF Repetir, EmAndamento
<1>3. CASE \E o \in OperacoesOs, s \in StatusOs : Pedir(r, o, s)
  BY <1>3, AtenderInv DEF Pedir, EmAndamento
<1>. QED  BY <1>1, <1>2, <1>3

LEMMA InserirInv ==
    ASSUME OrcamentoInv, NEW r \in Pedidos, Inserir(r) PROVE OrcamentoInv'
<1>. OrcamentoTypeOK /\ FaseCertaDe(r) /\ LeituraCertaDe(r)
  BY DEF OrcamentoInv
<1>1. /\ fase[r] = "inserir" /\ Avancar(r, "auditar") /\ status' = "RECEBIDA" /\ total' = Soma(lidos[r])
      /\ aplicado' = lidos[r]
      /\ UNCHANGED <<preco, orcado, canal, anunciados, ultimoAnuncio, lidos, corrida, pedidos,
                     mudancas, avisoPerdido>>
  BY DEF Inserir, avisos, limites
<1>2. op[r] = "abrir" /\ Abrindo(r) /\ Soma(lidos[r]) \in Totais
  BY <1>1, SomaTipada DEF FaseCertaDe, LeituraCertaDe, SomaFeita, Abrindo
<1>3. /\ fase'[r] = "auditar" /\ op'[r] = "abrir" /\ para'[r] = para[r] /\ vistos'[r] = vistos[r]
      /\ Alheios(r) /\ OrcamentoTypeOK'
  BY <1>1, <1>2, AvancarEfeito DEF Fases, OrcamentoTypeOK, StatusOs
<1>4. ~orcado /\ \A q \in Pedidos : EmAndamento(q) => op[q] = "abrir"
  BY <1>2 DEF OrcamentoInv, AberturaUnica
<1>5. \A q \in Pedidos : ~Abrindo(q)' /\ ~Decidindo(q)' /\ ~AguardaAnuncio(q)'
  <2>1. \A q \in Pedidos \ {r} : ~Abrindo(q)
    BY <1>2 DEF OrcamentoInv, AberturaUnica
  <2>. QED
    BY <1>3, <1>4, <2>1 DEF Alheios, Abrindo, Decidindo, AguardaAnuncio, EmAndamento
<1>6. \A q \in Pedidos : FaseCertaDe(q)' /\ LeituraCertaDe(q)' /\ SucessoCertoDe(q)'
  BY <1>1, <1>3
     DEF OrcamentoInv, Alheios, FaseCertaDe, LeituraCertaDe, SucessoCertoDe, SomaFeita, Completa, EmAndamento
<1>7. \A q \in Pedidos : EmAndamento(q)' => EmAndamento(q)
  BY <1>1, <1>3 DEF Alheios, EmAndamento
<1>8. AberturaUnica' /\ EmOrdem' /\ OrcamentoAnunciado'
  BY <1>1, <1>4, <1>5, <1>7
     DEF OrcamentoInv, AberturaUnica, EmOrdem, OrcamentoAnunciado, Inexistente
<1>. QED  BY <1>3, <1>6, <1>8 DEF OrcamentoInv

(* A write of an order that exists, by its id.                             *)
LEMMA GravarInv ==
    ASSUME OrcamentoInv, NEW r \in Pedidos, fase[r] = "gravar", Avancar(r, "auditar"),
           status' = para[r],
           \/ op[r] = "orcamento" /\ total' = Soma(lidos[r]) /\ orcado'
           \/ op[r] # "orcamento" /\ total' = total /\ (orcado' <=> orcado),
           orcado' \in BOOLEAN,
           UNCHANGED <<preco, aplicado, canal, avisos, lidos, limites, avisoPerdido>>
    PROVE  OrcamentoInv'
<1>. OrcamentoTypeOK /\ FaseCertaDe(r) /\ LeituraCertaDe(r)
  BY DEF OrcamentoInv
<1>1. UNCHANGED <<preco, aplicado, canal, anunciados, ultimoAnuncio, lidos, corrida, pedidos,
                  mudancas, avisoPerdido>>
  BY DEF avisos, limites
<1>2. op[r] = "orcamento" => Completa(r) /\ Soma(lidos[r]) \in Totais
  BY SomaTipada DEF LeituraCertaDe, SomaFeita
<1>3. /\ fase'[r] = "auditar" /\ op'[r] = op[r] /\ para'[r] = para[r] /\ vistos'[r] = vistos[r]
      /\ Alheios(r) /\ OrcamentoTypeOK'
  BY <1>1, <1>2, AvancarEfeito DEF Fases, OrcamentoTypeOK
<1>4. op[r] # "abrir" /\ EmAndamento(r) /\ status \in StatusOs /\ status' \in StatusOs /\ status' # Inexistente
  BY DEF OrcamentoInv, AberturaUnica, FaseCertaDe, EmAndamento, OrcamentoTypeOK, StatusOs, Inexistente
<1>5. \A q \in Pedidos : ~Abrindo(q) /\ ~Abrindo(q)'
  <2>1. \A q \in Pedidos : ~Abrindo(q)
    BY <1>4 DEF OrcamentoInv, AberturaUnica, StatusOs, Inexistente
  <2>. QED  BY <1>3, <1>4, <2>1 DEF Alheios, Abrindo
<1>6. \A q \in Pedidos : FaseCertaDe(q)' /\ LeituraCertaDe(q)' /\ SucessoCertoDe(q)'
  BY <1>1, <1>2, <1>3
     DEF OrcamentoInv, Alheios, FaseCertaDe, LeituraCertaDe, SucessoCertoDe, SomaFeita, Completa, EmAndamento
<1>7. /\ \A q \in Pedidos : EmAndamento(q)' <=> EmAndamento(q)
      /\ ~Decidindo(r)' /\ (AguardaAnuncio(r)' <=> op[r] = "orcamento") /\ ~AguardaAnuncio(r)
      /\ \A q \in Pedidos \ {r} : AguardaAnuncio(q)' <=> AguardaAnuncio(q)
  BY <1>3 DEF Alheios, EmAndamento, Decidindo, AguardaAnuncio
<1>8. AberturaUnica'
  BY <1>4, <1>5 DEF AberturaUnica
<1>9. EmOrdem'
  <2>. SUFFICES ASSUME ~corrida' PROVE EmOrdem'
    BY DEF EmOrdem
  <2>1. \A q \in Pedidos \ {r} : ~EmAndamento(q)'
    BY <1>1, <1>4, <1>7 DEF OrcamentoInv, EmOrdem
  <2>2. \A q \in Pedidos \ {r} : ~Decidindo(q)' /\ ~AguardaAnuncio(q)' /\ ~AguardaAnuncio(q)
    BY <1>7, <2>1 DEF EmAndamento, Decidindo, AguardaAnuncio
  <2>3. ASSUME op[r] # "orcamento", orcado', ~avisoPerdido' PROVE total' = ultimoAnuncio'
    <3>1. orcado /\ ~avisoPerdido /\ ~corrida /\ total' = total
      BY <1>1, <2>3
    <3>2. total = ultimoAnuncio
      BY <1>7, <2>2, <3>1 DEF OrcamentoInv, EmOrdem
    <3>. QED  BY <1>1, <3>1, <3>2
  <2>. QED  BY <1>1, <1>7, <2>1, <2>2, <2>3 DEF EmOrdem
<1>10. OrcamentoAnunciado'
  <2>1. CASE op[r] = "orcamento"
    BY <1>1, <1>7, <2>1 DEF OrcamentoAnunciado
  <2>2. CASE op[r] # "orcamento"
    <3>. SUFFICES ASSUME orcado', ~avisoPerdido', total' \notin anunciados'
                  PROVE  \E q \in Pedidos : AguardaAnuncio(q)' /\ Soma(lidos'[q]) = total'
      BY DEF OrcamentoAnunciado
    <3>1. orcado /\ ~avisoPerdido /\ total' = total /\ total \notin anunciados
      BY <1>1, <2>2
    <3>2. PICK q \in Pedidos : AguardaAnuncio(q) /\ Soma(lidos[q]) = total
      BY <3>1 DEF OrcamentoInv, OrcamentoAnunciado
    <3>. QED  BY <1>1, <1>7, <3>1, <3>2
  <2>. QED  BY <2>1, <2>2
<1>. QED  BY <1>3, <1>6, <1>8, <1>9, <1>10 DEF OrcamentoInv

LEMMA GravacoesInv ==
    ASSUME OrcamentoInv, NEW r \in Pedidos, GravarOrcamento(r) \/ GravarStatus(r)
    PROVE  OrcamentoInv'
<1>. OrcamentoTypeOK
  BY DEF OrcamentoInv
<1>1. CASE GravarOrcamento(r)
  <2>1. orcado' /\ orcado' \in BOOLEAN
    BY <1>1 DEF GravarOrcamento
  <2>. QED  BY <1>1, <2>1, GravarInv DEF GravarOrcamento
<1>2. CASE GravarStatus(r)
  <2>1. /\ fase[r] = "gravar" /\ op[r] # "orcamento"
        /\ UNCHANGED <<preco, aplicado, canal, avisos, limites, avisoPerdido>>
    BY <1>2 DEF GravarStatus
  <2>2. total' = total /\ orcado' = orcado /\ aplicado' = aplicado
    BY <1>2 DEF GravarStatus
  <2>3. (orcado' <=> orcado) /\ orcado' \in BOOLEAN
    BY <2>2 DEF OrcamentoTypeOK
  <2>4. ASSUME status' = para[r], Avancar(r, "auditar"), UNCHANGED lidos PROVE OrcamentoInv'
    BY <2>1, <2>2, <2>3, <2>4, GravarInv
  <2>5. ASSUME Responder(r), UNCHANGED status PROVE OrcamentoInv'
    <3>1. UNCHANGED ordem /\ ~AguardaAnuncio(r)
      BY <2>1, <2>2, <2>5 DEF ordem, AguardaAnuncio
    <3>. QED  BY <2>1, <2>5, <3>1, ResponderInv
  <2>. QED  BY <1>2, <2>4, <2>5 DEF GravarStatus
<1>. QED  BY <1>1, <1>2

LEMMA AlterarPrecoInv ==
    ASSUME OrcamentoInv, NEW i \in Itens, NEW p \in Precos, AlterarPreco(i, p)
    PROVE  OrcamentoInv'
<1>. OrcamentoTypeOK
  BY DEF OrcamentoInv
<1>1. /\ preco' = [preco EXCEPT ![i] = p] /\ mudancas < MaxMudancas /\ mudancas' = mudancas + 1
      /\ vistos' = [r \in Pedidos |-> IF EmAndamento(r) THEN [vistos[r] EXCEPT ![i] = @ \cup {p}]
                                      ELSE vistos[r]]
      /\ UNCHANGED <<status, total, aplicado, orcado, canal, anunciados, ultimoAnuncio,
                     fase, op, para, lidos, corrida, pedidos, avisoPerdido>>
  BY DEF AlterarPreco, ordem, avisos
<1>2. mudancas' \in 0..MaxMudancas
  BY <1>1, OrcamentoAssumption DEF OrcamentoTypeOK
<1>3. /\ vistos' \in [Pedidos -> [Itens -> SUBSET Precos]]
      /\ \A r \in Pedidos : \A j \in Itens : vistos[r][j] \subseteq vistos'[r][j]
      /\ \A r \in Pedidos : EmAndamento(r) => p \in vistos'[r][i]
  BY <1>1 DEF OrcamentoTypeOK
<1>4. OrcamentoTypeOK'
  BY <1>1, <1>2, <1>3 DEF OrcamentoTypeOK
<1>5. \A r \in Pedidos : LeituraCertaDe(r)'
  <2>1. \A r \in Pedidos : EmAndamento(r) => \A j \in Itens : preco'[j] \in vistos'[r][j]
    BY <1>1, <1>3 DEF OrcamentoInv, LeituraCertaDe, OrcamentoTypeOK
  <2>. QED
    BY <1>1, <1>3, <2>1 DEF OrcamentoInv, LeituraCertaDe, SomaFeita, Completa, EmAndamento, Itens
<1>6. \A r \in Pedidos : FaseCertaDe(r)' /\ SucessoCertoDe(r)'
  BY <1>1 DEF OrcamentoInv, FaseCertaDe, SucessoCertoDe
<1>7. AberturaUnica' /\ EmOrdem' /\ OrcamentoAnunciado'
  BY <1>1 DEF OrcamentoInv, AberturaUnica, EmOrdem, OrcamentoAnunciado, Abrindo, Decidindo,
              AguardaAnuncio, EmAndamento
<1>. QED  BY <1>4, <1>5, <1>6, <1>7 DEF OrcamentoInv

LEMMA PassoOrcamentoInv == OrcamentoInv /\ [Next]_vars => OrcamentoInv'
<1>. SUFFICES ASSUME OrcamentoInv, [Next]_vars PROVE OrcamentoInv'
  OBVIOUS
<1>1. ASSUME NEW r \in Pedidos, Desistir(r) \/ Avisar(r) PROVE OrcamentoInv'
  BY <1>1, ResponderInv DEF Desistir, Avisar, AguardaAnuncio
<1>2. CASE UNCHANGED vars
  <2>1. UNCHANGED <<preco, status, total, aplicado, orcado, canal, anunciados, ultimoAnuncio, fase, op,
                    para, lidos, vistos, corrida, pedidos, mudancas, avisoPerdido>>
    BY <1>2 DEF vars, ordem, avisos, emVoo, limites
  <2>2. OrcamentoTypeOK' /\ AberturaUnica' /\ EmOrdem' /\ OrcamentoAnunciado'
    BY <2>1 DEF OrcamentoInv, OrcamentoTypeOK, AberturaUnica, EmOrdem, OrcamentoAnunciado, Abrindo,
                Decidindo, AguardaAnuncio, EmAndamento
  <2>3. \A r \in Pedidos : FaseCertaDe(r)' /\ LeituraCertaDe(r)' /\ SucessoCertoDe(r)'
    BY <2>1 DEF OrcamentoInv, FaseCertaDe, LeituraCertaDe, SucessoCertoDe, SomaFeita, Completa, EmAndamento
  <2>. QED  BY <2>2, <2>3 DEF OrcamentoInv
<1>. QED
  BY <1>1, <1>2, AlterarPrecoInv, ChegadasInv, LerServicosInv, LerPecasInv, InserirInv, GravacoesInv,
     AuditarInv, EnviarOrcamentoInv, InterromperInv
     DEF Next

(* The inductive invariant of a budget's life, of every behaviour.         *)
THEOREM OrcamentoSeguro == Spec => []OrcamentoInv
BY InitOrcamentoInv, PassoOrcamentoInv, PTL DEF Spec

------------------------------------------------------------------------------
\* The properties

(* The variables of the order, the notices and the requests keep their     *)
(* types: a total is always a sum over every item.                         *)
THEOREM OrcamentoTipado == Spec => []OrcamentoTypeOK
BY OrcamentoSeguro, PTL DEF OrcamentoInv

(* The total of a budget was told to the client, or is on its way, however *)
(* many budgets race, unless the notice of one was lost.                   *)
THEOREM OrcamentoSempreAnunciado == Spec => []OrcamentoAnunciado
BY OrcamentoSeguro, PTL DEF OrcamentoInv

\* The action of each property.
SomaDePrecosVistos ==
    \A r \in Pedidos :
        op[r] \in {"abrir", "orcamento"} /\ fase[r] # "auditar" /\ fase'[r] = "auditar" =>
            \E f \in [Itens -> Precos] :
                /\ total' = Soma(f)
                /\ \A i \in Itens : f[i] \in vistos[r][i]
AceiteDoAnunciado ==
    orcado /\ ~corrida /\ ~avisoPerdido /\ status # status' /\ status' = "EM_EXECUCAO"
        => total = ultimoAnuncio
DecisaoMantida ==
    ~corrida /\ status \in Decididas =>
        /\ UNCHANGED total
        /\ status' \in Decididas
        /\ status = "REJEITADA" <=> status' = "REJEITADA"
SucessoComAnuncio ==
    \A r \in Pedidos :
        op[r] = "orcamento" /\ canal = "sns" /\ fase[r] = "avisar" /\ fase'[r] = "livre"
        => Soma(lidos[r]) \in anunciados

\* Who writes the order, and what.
LEMMA EscritasDaOrdem ==
    ASSUME [Next]_vars
    PROVE  \/ UNCHANGED <<status, total>>
           \/ \E r \in Pedidos :
                 \/ Inserir(r)
                 \/ GravarOrcamento(r)
                 \/ fase[r] = "gravar" /\ op[r] # "orcamento" /\ status' = para[r] /\ UNCHANGED total
BY DEF Next, vars, ordem, AlterarPreco, Pedir, Abrir, Repetir, Desistir, Atender, Chegar, LerServicos,
       LerPecas, GravarStatus, Auditar, EnviarOrcamento, Avisar, Interromper

(* Every total stored adds, for each item, a price the catalogue had since *)
(* the request that stores it arrived.                                     *)
THEOREM TotalSempreDePrecosVistos == Spec => TotalDePrecosVistos
<1>1. OrcamentoInv /\ [Next]_vars => SomaDePrecosVistos
  <2>. SUFFICES ASSUME OrcamentoInv, [Next]_vars, NEW r \in Pedidos, op[r] \in {"abrir", "orcamento"},
                       fase[r] # "auditar", fase'[r] = "auditar"
                PROVE  \E f \in [Itens -> Precos] : /\ total' = Soma(f)
                                                    /\ \A i \in Itens : f[i] \in vistos[r][i]
    BY DEF SomaDePrecosVistos
  <2>. OrcamentoTypeOK /\ FaseCertaDe(r) /\ LeituraCertaDe(r)
    BY DEF OrcamentoInv
  <2>1. \E q \in Pedidos, f \in Fases : fase' = [fase EXCEPT ![q] = f] /\
           (f = "auditar" => Inserir(q) \/ GravarOrcamento(q) \/ (GravarStatus(q) /\ op[q] # "orcamento"
                                                                   /\ fase[q] = "gravar"))
    <3>1. fase' # fase
      OBVIOUS
    <3>. QED
      BY <3>1 DEF Next, vars, emVoo, AlterarPreco, Pedir, Abrir, Repetir, Desistir, Atender, Chegar,
         LerServicos, LerPecas, Inserir, GravarOrcamento, GravarStatus, Auditar, EnviarOrcamento, Avisar,
         Interromper, Avancar, Responder, Fases
  <2>2. Inserir(r) \/ GravarOrcamento(r)
    BY <2>1 DEF OrcamentoTypeOK, FaseCertaDe
  <2>3. total' = Soma(lidos[r]) /\ SomaFeita(r)
    BY <2>2 DEF Inserir, GravarOrcamento, SomaFeita
  <2>4. Completa(r) /\ lidos[r] \in [Itens -> Precos]
    BY <2>3, SomaTipada DEF LeituraCertaDe
  <2>. QED  BY <2>3, <2>4 DEF Completa
<1>2. OrcamentoInv /\ [Next]_vars => [SomaDePrecosVistos]_vars
  BY <1>1
<1>3. Spec => [][SomaDePrecosVistos]_vars
  BY <1>2, OrcamentoSeguro, PTL DEF Spec
<1>. QED  BY <1>3 DEF TotalDePrecosVistos, SomaDePrecosVistos

(* With requests that came one after the other, and no notice lost, an     *)
(* approval is of the total of the last notice.                            *)
THEOREM AceiteSempreDoUltimoAnuncio == Spec => AceiteDoUltimoAnuncio
<1>1. OrcamentoInv /\ [Next]_vars => AceiteDoAnunciado
  <2>. SUFFICES ASSUME OrcamentoInv, [Next]_vars, orcado, ~corrida, ~avisoPerdido, status # status',
                       status' = "EM_EXECUCAO"
                PROVE  total = ultimoAnuncio
    BY DEF AceiteDoAnunciado
  <2>1. PICK r \in Pedidos : fase[r] = "gravar" /\ op[r] # "orcamento"
    BY EscritasDaOrdem DEF Inserir, GravarOrcamento, OrcamentoInv, FaseCertaDe
  <2>2. \A q \in Pedidos : ~AguardaAnuncio(q)
    BY <2>1 DEF OrcamentoInv, EmOrdem, EmAndamento, AguardaAnuncio
  <2>. QED  BY <2>2 DEF OrcamentoInv, EmOrdem
<1>2. OrcamentoInv /\ [Next]_vars => [AceiteDoAnunciado]_vars
  BY <1>1
<1>3. Spec => [][AceiteDoAnunciado]_vars
  BY <1>2, OrcamentoSeguro, PTL DEF Spec
<1>. QED  BY <1>3 DEF AceiteDoUltimoAnuncio, AceiteDoAnunciado

(* With requests that came one after the other, nothing repeated or asked  *)
(* again reopens the decision or changes its total.                        *)
THEOREM DecisaoSempreFirme == Spec => DecisaoFirme
<1>1. OrcamentoInv /\ [Next]_vars => DecisaoMantida
  <2>. SUFFICES ASSUME OrcamentoInv, [Next]_vars, ~corrida, status \in Decididas, ~UNCHANGED <<status, total>>
                PROVE  /\ UNCHANGED total /\ status' \in Decididas
                       /\ status = "REJEITADA" <=> status' = "REJEITADA"
    BY DEF DecisaoMantida
  <2>1. PICK r \in Pedidos :
           \/ Inserir(r)
           \/ GravarOrcamento(r)
           \/ fase[r] = "gravar" /\ op[r] # "orcamento" /\ status' = para[r] /\ UNCHANGED total
    BY EscritasDaOrdem
  <2>2. ~Inserir(r)
    BY DEF Inserir, OrcamentoInv, AberturaUnica, FaseCertaDe, Abrindo, Decididas, Inexistente
  <2>3. fase[r] = "gravar" => TransicaoPermitida(op[r], status, para[r])
    BY DEF OrcamentoInv, EmOrdem, FaseCertaDe, Decidindo
  <2>4. ~GravarOrcamento(r)
    BY <2>3, OrcamentoPede DEF GravarOrcamento, Decididas, StatusParaGerarOrcamento
  <2>. QED
    BY <2>1, <2>2, <2>3, <2>4
       DEF TransicaoPermitida, TransicoesWebhook, TransicoesDiretas, Decididas, StatusParaGerarOrcamento
<1>2. OrcamentoInv /\ [Next]_vars => [DecisaoMantida]_vars
  BY <1>1
<1>3. Spec => [][DecisaoMantida]_vars
  BY <1>2, OrcamentoSeguro, PTL DEF Spec
<1>. QED  BY <1>3 DEF DecisaoFirme, DecisaoMantida

(* A caller answered 200, with SNS, may conclude that the client was told  *)
(* the total computed for it.                                              *)
THEOREM SucessoSempreAnunciado == Spec => SucessoAnunciado
<1>1. OrcamentoInv /\ [Next]_vars => [SucessoComAnuncio]_vars
  BY DEF OrcamentoInv, SucessoCertoDe, SucessoComAnuncio
<1>2. Spec => [][SucessoComAnuncio]_vars
  BY <1>1, OrcamentoSeguro, PTL DEF Spec
<1>. QED  BY <1>2 DEF SucessoAnunciado, SucessoComAnuncio

==============================================================================
