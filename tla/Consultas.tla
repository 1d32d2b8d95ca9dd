------------------------------- MODULE Consultas -------------------------------
(***************************************************************************)
(* What the employees read: the paginated panel of the orders in progress  *)
(* and the average times, while other requests move the orders on.         *)
(*                                                                         *)
(* Neither reads a consistent picture.  A page of the panel is a raw query *)
(* of ids, the rows of those ids, and a count beside them; a walk over the *)
(* pages repeats that.  The average of each phase is a query for the rows  *)
(* of the trail that enter it, then one query for each of them.  A row of  *)
(* the trail carries the clock of the request, taken before the lookup     *)
(* and the insert that follow the write of the status, and may never be    *)
(* inserted.                                                               *)
(*                                                                         *)
(* Variables of the database: status, criada (dataCriacao) and concluida   *)
(* (dataConclusao) of each order; historico, the rows of the trail as a    *)
(* set; agora, the clock, which ticks in milliseconds.                     *)
(* Variables of the requests that move orders: fase, the await each is at, *)
(* and mudanca, what it writes.                                            *)
(* Variables of the reader: consulta, what it asked; painel, the page it   *)
(* is at; percurso, the orders of the pages before; medias, the averages.  *)
(* emitidas are the OsFaseDuracao metrics emitted.                         *)
(* Auxiliary: mudadas, the orders written since the ids of the page were   *)
(* read; quieta, no order was written since the first page; sobrepostas,   *)
(* the orders two requests overlapped on; mudancas and agora are bounded.  *)
(***************************************************************************)
EXTENDS Integers, Sequences, FiniteSets, OrdemStatus

CONSTANTS
    Ordens,
    StatusIniciais,  \* where the orders stand when the trail is still empty
    Criacoes,        \* the dates they may have been created at
    Instantes,       \* bound: the values of the clock, an interval of Nat
    Pedidos,         \* requests that move orders, in flight together
    Limites,         \* page sizes asked for
    MaxMudancas      \* bound: requests that move orders ever received

ASSUME StatusIniciaisAssumption == StatusIniciais \subseteq StatusOs
ASSUME OrdensAssumption == IsFiniteSet(Ordens)
ASSUME InstantesAssumption ==
    Instantes \subseteq Nat /\ 1 \in Instantes /\ \A t \in Instantes : 0..t \subseteq Instantes
ASSUME CriacoesAssumption ==  \* before the clock starts, however long
    \A c \in Criacoes : c \in [Ordens -> Int] /\ \A o \in Ordens : c[o] <= 1
ASSUME LimitesAssumption == Limites \subseteq Nat \ {0} /\ MaxMudancas \in Nat

VARIABLES status, criada, concluida, historico, agora, fase, mudanca,
          consulta, painel, percurso, medias, emitidas,
          mudadas, quieta, sobrepostas, mudancas

banco == <<status, criada, concluida, historico, agora>>
emVoo == <<fase, mudanca>>
leitura == <<consulta, painel, percurso, medias>>
auxiliares == <<mudadas, quieta, sobrepostas, mudancas>>
vars == <<banco, emVoo, leitura, emitidas, auxiliares>>

------------------------------------------------------------------------------
\* Types and helpers

Nunca == -1
SemTotal == -1

\* STATUS_OS_TERMINAIS_PARA_METRICAS, EXCLUDED_FROM_PAINEL: the same two.
Terminais == {"FINALIZADA", "ENTREGUE"}

\* The phases measured, in the order they are queried.
FaseMedida == <<"EM_DIAGNOSTICO", "EM_EXECUCAO", "FINALIZADA">>

Linha == [os: Ordens, de: StatusOs, para: StatusOs, em: Instantes]
Mudanca == [os: Ordens, de: StatusOs, para: StatusOs, em: Instantes]
SemMudanca == [em |-> Nunca]

Ativas == {o \in Ordens : status[o] \notin Terminais}

\* The page of the panel at hand, and the averages being computed.
Painel == [pagina: Nat \ {0}, limite: Nat \ {0}, passo: {"ids", "linhas", "lida"},
           ids: Seq(Ordens), linhas: Seq([os: Ordens, status: StatusOs]),
           total: Nat \cup {SemTotal}]
Medias == [passo: {"ordens", "lidas"}, concluidas: SUBSET [os: Ordens, minutos: Int],
           fase: 0..3, entradas: SUBSET Linha, trilha: SUBSET Linha,
           estadias: SUBSET [os: Ordens, de: Instantes, ate: Instantes]]

\* ORDER BY CASE status ...
Posicao(s) ==
    CASE s = "EM_EXECUCAO" -> 1 [] s = "AGUARDANDO_APROVACAO" -> 2
      [] s = "EM_DIAGNOSTICO" -> 3 [] s = "RECEBIDA" -> 4 [] OTHER -> 5

\* ... ASC, dataCriacao ASC.
Antes(o, q) ==
    \/ Posicao(status[o]) < Posicao(status[q])
    \/ Posicao(status[o]) = Posicao(status[q]) /\ criada[o] < criada[q]

\* The orders of the panel as the query may sort them: ties fall either way.
Listagens ==
    {s \in [1..Cardinality(Ativas) -> Ativas] :
        \A i, j \in DOMAIN s : i < j => s[i] # s[j] /\ ~Antes(s[j], s[i])}

\* Mutant: pages counted from zero.
PularDesdeZero(p) == p.pagina * p.limite

\* PaginationDto.skip
Pular(p) == (p.pagina - 1) * p.limite

\* LIMIT take OFFSET skip
Fatia(s, pular, n) == SubSeq(s, pular + 1, IF pular + n < Len(s) THEN pular + n ELSE Len(s))

\* Mutant: the rows in the order of findMany, which promises none.
LinhasSoltas(ids) ==
    [i \in DOMAIN ids |-> [os |-> ids[Len(ids) + 1 - i], status |-> status[ids[Len(ids) + 1 - i]]]]

\* findMany by the ids, put back in their order; the status is read again.
Linhas(ids) == [i \in DOMAIN ids |-> [os |-> ids[i], status |-> status[ids[i]]]]

\* Math.ceil(total / limit)
TotalPaginas(p) == (p.total + p.limite - 1) \div p.limite

Pagina(n, limite) ==
    [pagina |-> n, limite |-> limite, passo |-> "ids", ids |-> <<>>, linhas |-> <<>>,
     total |-> SemTotal]
SemPainel == [passo |-> "nenhum"]

\* passo: the query of orders, parallel to the phases; fase 0, none queried yet.
MediasPedidas == [passo |-> "ordens", concluidas |-> {}, fase |-> 0,
                  entradas |-> {}, estadias |-> {}, trilha |-> {}]
SemMedias == [passo |-> "nenhum"]

PaginaPronta == consulta = "painel" /\ painel.passo = "lida" /\ painel.total # SemTotal
FasePronta == consulta = "medias" /\ medias.fase > 0 /\ medias.entradas = {}

\* The rows of the trail that touch a phase.
TrilhaDa(f) == {h \in historico : h.de = f \/ h.para = f}

\* Mutant: any order's exit closes the stay.
SaidasDeQualquerOrdem(e) == {h \in historico : h.de = e.para /\ h.em > e.em}

\* The rows that leave the phase entry e entered, strictly later.
Saidas(e) == {h \in historico : h.os = e.os /\ h.de = e.para /\ h.em > e.em}

Primeiras(S) == {h \in S : \A k \in S : h.em <= k.em}

\* A stay in a phase as the average counts it.
Estadia(e, s) == [os |-> e.os, de |-> e.em, ate |-> s.em]

\* Mutant: answered, and still holding what it wrote.
LivrePelaMetade(r) ==
    /\ fase' = [fase EXCEPT ![r] = "livre"]
    /\ UNCHANGED mudanca

\* The request ends.
Livre(r) ==
    /\ fase' = [fase EXCEPT ![r] = "livre"]
    /\ mudanca' = [mudanca EXCEPT ![r] = SemMudanca]

------------------------------------------------------------------------------
(* Orders of the demonstration: any status, no trail, and a dataConclusao  *)
(* fixed in the seed, whatever the day the orders are created.             *)
Init ==
    /\ status \in [Ordens -> StatusIniciais]
    /\ criada \in Criacoes
    /\ concluida = [o \in Ordens |-> IF status[o] \in Terminais THEN 0 ELSE Nunca]
    /\ historico = {}
    /\ agora = 1
    /\ fase = [r \in Pedidos |-> "livre"]
    /\ mudanca = [r \in Pedidos |-> SemMudanca]
    /\ consulta = "nenhuma"
    /\ painel = SemPainel
    /\ percurso = <<>>
    /\ medias = SemMedias
    /\ emitidas = {}
    /\ mudadas = {}
    /\ quieta = TRUE
    /\ sobrepostas = {}
    /\ mudancas = 0

Passar ==
    /\ agora + 1 \in Instantes
    /\ agora' = agora + 1
    /\ UNCHANGED <<status, criada, concluida, historico, emVoo, leitura, emitidas, auxiliares>>

------------------------------------------------------------------------------
\* The requests that move orders, as far as the queries can tell

(* The row is read and the assertion passes.                               *)
Pedir(r, o, para) ==
    /\ fase[r] = "livre"
    /\ mudancas < MaxMudancas
    /\ <<status[o], para>> \in GrafoDocumentado
    /\ fase' = [fase EXCEPT ![r] = "gravar"]
    /\ mudanca' = [mudanca EXCEPT ![r] =
                      [os |-> o, de |-> status[o], para |-> para, em |-> agora]]
    /\ sobrepostas' = IF \E q \in Pedidos \ {r} : fase[q] # "livre" /\ mudanca[q].os = o
                      THEN sobrepostas \cup {o} ELSE sobrepostas
    /\ mudancas' = mudancas + 1
    /\ UNCHANGED <<banco, leitura, emitidas, mudadas, quieta>>

(* The UPDATE.  finalizar takes dataConclusao from its clock before it.    *)
Gravar(r) ==
    /\ fase[r] = "gravar"
    /\ LET m == mudanca[r] IN
        /\ status' = [status EXCEPT ![m.os] = m.para]
        /\ IF m.para = "FINALIZADA"
           THEN \E t \in m.em..agora : concluida' = [concluida EXCEPT ![m.os] = t]
           ELSE UNCHANGED concluida
        /\ mudanca' = [mudanca EXCEPT ![r].em = agora]
        /\ mudadas' = IF consulta = "painel" THEN mudadas \cup {m.os} ELSE mudadas
    /\ quieta' = (quieta /\ consulta # "painel")
    /\ fase' = [fase EXCEPT ![r] = "buscar"]
    /\ UNCHANGED <<criada, historico, agora, leitura, emitidas, sobrepostas, mudancas>>

(* recordOsTransition takes enteredAt at some moment after the write, then *)
(* looks for the last row that entered the phase now left and emits how    *)
(* long it lasted.                                                         *)
Buscar(r) ==
    /\ fase[r] = "buscar"
    /\ LET m == mudanca[r]
           entradas == {h \in historico : h.os = m.os /\ h.para = m.de}
           ultimas == {h \in entradas : \A k \in entradas : k.em <= h.em}
       IN \E t \in m.em..agora :
            /\ mudanca' = [mudanca EXCEPT ![r].em = t]
            /\ emitidas' = emitidas \cup
                  {[os |-> m.os, fase |-> m.de, duracao |-> IF t > h.em THEN t - h.em ELSE 0] :
                      h \in {k \in ultimas : m.de \in {FaseMedida[i] : i \in 1..3}}}
    /\ fase' = [fase EXCEPT ![r] = "inserir"]
    /\ UNCHANGED <<banco, leitura, auxiliares>>

(* persistStatusRow; the notice that follows changes nothing read here.    *)
Inserir(r) ==
    /\ fase[r] = "inserir"
    /\ historico' = historico \cup {mudanca[r]}
    /\ Livre(r)
    /\ UNCHANGED <<status, criada, concluida, agora, leitura, emitidas, auxiliares>>

(* Refused, failed or killed at any await: the row is never inserted.      *)
Cortar(r) ==
    /\ fase[r] # "livre"
    /\ Livre(r)
    /\ UNCHANGED <<banco, leitura, emitidas, auxiliares>>

------------------------------------------------------------------------------
\* ListarOrdensServico

PedirPainel(limite) ==
    /\ consulta = "nenhuma"
    /\ consulta' = "painel"
    /\ painel' = Pagina(1, limite)
    /\ quieta' = TRUE
    /\ UNCHANGED <<banco, emVoo, percurso, medias, emitidas, mudadas, sobrepostas, mudancas>>

(* The ids of the page; an empty page reads no rows.                       *)
LerIds ==
    /\ consulta = "painel"
    /\ painel.passo = "ids"
    /\ \E s \in Listagens :
          LET ids == Fatia(s, Pular(painel), painel.limite)
          IN painel' = [painel EXCEPT !.ids = ids, !.passo = IF ids = <<>> THEN "lida" ELSE "linhas"]
    /\ mudadas' = {}
    /\ UNCHANGED <<banco, emVoo, consulta, percurso, medias, emitidas, quieta, sobrepostas, mudancas>>

LerLinhas ==
    /\ consulta = "painel"
    /\ painel.passo = "linhas"
    /\ painel' = [painel EXCEPT !.linhas = Linhas(painel.ids), !.passo = "lida"]
    /\ UNCHANGED <<banco, emVoo, consulta, percurso, medias, emitidas, auxiliares>>

(* The other branch of Promise.all.                                        *)
Contar ==
    /\ consulta = "painel"
    /\ painel.total = SemTotal
    /\ painel' = [painel EXCEPT !.total = Cardinality(Ativas)]
    /\ UNCHANGED <<banco, emVoo, consulta, percurso, medias, emitidas, auxiliares>>

\* The orders of the walk, the page at hand included.
Percorridas == percurso \o [i \in DOMAIN painel.linhas |-> painel.linhas[i].os]

(* The page is answered and the caller asks for the next one.              *)
ProximaPagina ==
    /\ PaginaPronta
    /\ painel.pagina < TotalPaginas(painel)
    /\ percurso' = Percorridas
    /\ painel' = Pagina(painel.pagina + 1, painel.limite)
    /\ UNCHANGED <<banco, emVoo, consulta, medias, emitidas, auxiliares>>

------------------------------------------------------------------------------
\* ObterTempoMedioExecucao

PedirMedias ==
    /\ consulta = "nenhuma"
    /\ consulta' = "medias"
    /\ medias' = MediasPedidas
    /\ UNCHANGED <<banco, emVoo, painel, percurso, emitidas, auxiliares>>

(* The finished orders, with the time from their opening to their end.     *)
LerConcluidas ==
    /\ consulta = "medias"
    /\ medias.passo = "ordens"
    /\ medias' = [medias EXCEPT
          !.passo = "lidas",
          !.concluidas = {[os |-> o, minutos |-> concluida[o] - criada[o]] :
                             o \in {q \in Ordens : status[q] \in Terminais /\ concluida[q] # Nunca}}]
    /\ UNCHANGED <<banco, emVoo, consulta, painel, percurso, emitidas, auxiliares>>

(* The next phase: the rows that enter it.                                 *)
LerEntradas ==
    /\ consulta = "medias"
    /\ medias.entradas = {}
    /\ medias.fase < 3
    /\ LET f == FaseMedida[medias.fase + 1]
       IN medias' = [medias EXCEPT !.fase = @ + 1, !.estadias = {}, !.trilha = TrilhaDa(f),
                                   !.entradas = {h \in historico : h.para = f}]
    /\ UNCHANGED <<banco, emVoo, consulta, painel, percurso, emitidas, auxiliares>>

(* In order of enteredAt, the first row that leaves after it; an entry     *)
(* with none is not counted.                                               *)
LerSaida ==
    /\ consulta = "medias"
    /\ \E e \in Primeiras(medias.entradas) :
          medias' = [medias EXCEPT !.entradas = @ \ {e},
                                   !.estadias = @ \cup {Estadia(e, s) : s \in Primeiras(Saidas(e))}]
    /\ UNCHANGED <<banco, emVoo, consulta, painel, percurso, emitidas, auxiliares>>

(* Answered, or a query rejected: nothing of it is left.                   *)
Responder ==
    /\ consulta # "nenhuma"
    /\ consulta' = "nenhuma"
    /\ painel' = SemPainel
    /\ medias' = SemMedias
    /\ percurso' = <<>>
    /\ mudadas' = {}
    /\ quieta' = TRUE
    /\ UNCHANGED <<banco, emVoo, emitidas, sobrepostas, mudancas>>

Next ==
    \/ Passar
    \/ \E r \in Pedidos :
         \/ \E o \in Ordens, para \in StatusOs : Pedir(r, o, para)
         \/ Gravar(r)
         \/ Buscar(r)
         \/ Inserir(r)
         \/ Cortar(r)
    \/ \E limite \in Limites : PedirPainel(limite)
    \/ LerIds
    \/ LerLinhas
    \/ Contar
    \/ ProximaPagina
    \/ PedirMedias
    \/ LerConcluidas
    \/ LerEntradas
    \/ LerSaida
    \/ Responder

Spec == Init /\ [][Next]_vars

------------------------------------------------------------------------------
\* Properties

ConsultasTypeOK ==
    /\ status \in [Ordens -> StatusOs]
    /\ criada \in [Ordens -> Int]
    /\ concluida \in [Ordens -> Instantes \cup {Nunca}]
    /\ historico \subseteq Linha
    /\ agora \in Instantes
    /\ fase \in [Pedidos -> {"livre", "gravar", "buscar", "inserir"}]
    /\ mudanca \in [Pedidos -> Mudanca \cup {SemMudanca}]
    /\ consulta \in {"nenhuma", "painel", "medias"}
    /\ painel \in Painel \cup {SemPainel} /\ medias \in Medias \cup {SemMedias}
    /\ consulta = "painel" <=> painel # SemPainel
    /\ consulta = "medias" <=> medias # SemMedias
    /\ percurso \in Seq(Ordens)
    /\ \A r \in Pedidos : fase[r] # "livre" <=> mudanca[r] # SemMudanca
    /\ mudadas \subseteq Ordens /\ quieta \in BOOLEAN
    /\ sobrepostas \subseteq Ordens /\ mudancas \in 0..MaxMudancas

(* A page never shows an order twice nor more than its limit, and the      *)
(* orders nobody wrote between its two reads are neither finished nor out  *)
(* of the documented order.                                                *)
PaginaCoerente ==
    PaginaPronta =>
        LET l == painel.linhas
            firme(i) == l[i].os \notin mudadas
        IN /\ Len(l) <= painel.limite
           /\ \A i \in DOMAIN l : firme(i) => l[i].status = status[l[i].os] /\ l[i].os \in Ativas
           /\ \A i, j \in DOMAIN l : i < j =>
                 /\ l[i].os # l[j].os
                 /\ firme(i) /\ firme(j) => ~Antes(l[j].os, l[i].os)

\* Orders that rank the same are told apart by their date.
SemEmpates == \A o, q \in Ativas : o = q \/ Antes(o, q) \/ Antes(q, o)

(* A walk over the pages, while no order is written and no two of the same *)
(* status share a dataCriacao, shows every order in progress exactly once, *)
(* in the documented order, and ends with the page the total announces.    *)
PercursoCompleto ==
    PaginaPronta /\ quieta /\ SemEmpates /\ painel.pagina >= TotalPaginas(painel) =>
        /\ Len(Percorridas) = Cardinality(Ativas)
        /\ \A i, j \in DOMAIN Percorridas : i < j => Antes(Percorridas[i], Percorridas[j])

(* The averages, over the orders no two requests overlapped on.  For each  *)
(* phase, what is counted are stays of one order in it, from the row that  *)
(* entered to the row that left; every stay that the trail held when the   *)
(* phase was queried, and that lasted, is counted; and it lasts what the   *)
(* metric emitted for it says.  The time of a finished order is never      *)
(* negative nor longer than its trail, unless the seed finished it.        *)
MediasCoerentes ==
    LET serial(o) == o \notin sobrepostas
        f == FaseMedida[medias.fase]
    IN /\ FasePronta =>
            /\ \A m \in medias.estadias : serial(m.os) =>
                  /\ \E a, b \in historico :
                        /\ a.os = m.os /\ a.para = f /\ a.em = m.de
                        /\ b.os = m.os /\ b.de = f /\ b.em = m.ate
                  /\ \A e \in emitidas :
                        e.os = m.os /\ e.fase = f => e.duracao = m.ate - m.de
            /\ \A a, b \in medias.trilha :
                  serial(a.os) /\ a.os = b.os /\ a.para = f /\ b.de = f /\ a.em < b.em
                      => Estadia(a, b) \in medias.estadias
       /\ consulta = "medias" =>
            \A m \in medias.concluidas, h \in historico :
                serial(m.os) /\ h.os = m.os /\ h.para = "FINALIZADA" =>
                    m.minutos \in 0..(h.em - criada[m.os])

------------------------------------------------------------------------------
\* The inductive strengthening

(* The ids of a page, then its rows, keep what PaginaCoerente says of them *)
(* whatever is written between the reads.                                  *)
SequenciaFirme(s) ==
    /\ Len(s) <= painel.limite
    /\ \A i \in DOMAIN s : s[i] \notin mudadas => s[i] \in Ativas
    /\ \A i, j \in DOMAIN s : i < j =>
          /\ s[i] # s[j]
          /\ s[i] \notin mudadas /\ s[j] \notin mudadas => ~Antes(s[j], s[i])

OrdensDa(l) == [i \in DOMAIN l |-> l[i].os]

PaginaInv ==
    consulta = "painel" =>
        /\ painel.passo # "lida" => painel.linhas = <<>>
        /\ painel.passo = "linhas" => SequenciaFirme(painel.ids)
        /\ painel.passo = "lida" =>
              /\ SequenciaFirme(OrdensDa(painel.linhas))
              /\ \A l \in {painel.linhas[i] : i \in DOMAIN painel.linhas} :
                    l.os \notin mudadas => l.status = status[l.os]

(* How many orders in progress the panel puts before o; without ties, one  *)
(* order per rank.  A walk while nothing is written collects them by rank. *)
Posto(o) == Cardinality({q \in Ativas : Antes(q, o)})

EmPostos(s, n) == \A i \in DOMAIN s : s[i] \in Ativas /\ Posto(s[i]) = n + i - 1

Restantes(n) ==
    IF n + painel.limite < Cardinality(Ativas) THEN painel.limite ELSE Cardinality(Ativas) - n

PercursoEmPostos ==
    LET n == Pular(painel)
    IN  /\ n <= Cardinality(Ativas)
        /\ Len(percurso) = n /\ EmPostos(percurso, 0)
        /\ painel.passo = "linhas" =>
              Len(painel.ids) = Restantes(n) /\ EmPostos(painel.ids, n)
        /\ painel.passo = "lida" =>
              Len(painel.linhas) = Restantes(n) /\ EmPostos(OrdensDa(painel.linhas), n)
        /\ painel.total # SemTotal => painel.total = Cardinality(Ativas)

PercursoInv ==
    /\ consulta # "painel" => percurso = <<>>
    /\ consulta = "painel" /\ quieta /\ SemEmpates => PercursoEmPostos

(* How far along its life a status is: every edge advances but the budget  *)
(* generated again, so an order enters and leaves a measured phase once.   *)
Avanco(s) ==
    CASE s = "RECEBIDA" -> 0 [] s = "EM_DIAGNOSTICO" -> 1
      [] s = "AGUARDANDO_APROVACAO" -> 2 [] s = "EM_EXECUCAO" -> 3
      [] s = "FINALIZADA" -> 4 [] OTHER -> 5

Medidas == {"EM_DIAGNOSTICO", "EM_EXECUCAO", "FINALIZADA"}

TrilhaDe(o) == {h \in historico : h.os = o}
MovendoA(o) == {r \in Pedidos : fase[r] # "livre" /\ mudanca[r].os = o}
Duracao(a, b) == IF b.em > a.em THEN b.em - a.em ELSE 0

(* What an in-flight request r of order o may rely on: before it writes,   *)
(* the status it read; after, that no row or metric of its phases exists.  *)
MudancaCoerente(o, r) ==
    LET m == mudanca[r]
    IN  /\ <<m.de, m.para>> \in GrafoDocumentado
        /\ fase[r] = "gravar" => m.de = status[o] /\ m.em >= 1
        /\ fase[r] # "gravar" =>
              /\ m.para = status[o]
              /\ m.para = "FINALIZADA" => concluida[o] \in criada[o]..m.em
              /\ \A h \in TrilhaDe(o) :
                    /\ m.de \in Medidas => h.de # m.de
                    /\ m.para \in Medidas => h.para # m.para
        /\ fase[r] = "buscar" => \A e \in emitidas : e.os = o => e.fase # m.de

TrilhaCoerente(o) ==
    /\ \A h \in TrilhaDe(o) :
          /\ <<h.de, h.para>> \in GrafoDocumentado
          /\ Avanco(h.para) <= Avanco(status[o])
          /\ h.para = "FINALIZADA" => concluida[o] \in criada[o]..h.em
    /\ \A a, b \in TrilhaDe(o) :
          \/ a.para \in Medidas /\ b.para = a.para
          \/ a.de \in Medidas /\ b.de = a.de
          => a = b

MetricaCoerente(o, e) ==
    /\ Avanco(e.fase) < Avanco(status[o])
    /\ \A a \in TrilhaDe(o) : a.para = e.fase =>
          /\ \A b \in TrilhaDe(o) : b.de = e.fase => e.duracao = Duracao(a, b)
          /\ \A r \in MovendoA(o) :
                fase[r] = "inserir" /\ mudanca[r].de = e.fase => e.duracao = Duracao(a, mudanca[r])

(* The history of an order no two requests overlapped on.                  *)
HistoriaCoerente(o) ==
    /\ \A r, q \in MovendoA(o) : r = q
    /\ \A r \in MovendoA(o) : MudancaCoerente(o, r)
    /\ TrilhaCoerente(o)
    /\ \A e \in emitidas : e.os = o => e.fase \in Medidas /\ MetricaCoerente(o, e)

HistoriaInv ==
    /\ agora >= 1 /\ \A o \in Ordens : criada[o] <= 1
    /\ \A o \in Ordens \ sobrepostas : HistoriaCoerente(o)

(* The averages so far: stays are pairs of rows, a phase queried is either *)
(* pending or counted, and the finished orders read do not change again.   *)
MediasInv ==
    consulta = "medias" =>
        LET f == FaseMedida[medias.fase]
        IN  /\ medias.entradas \subseteq historico /\ medias.trilha \subseteq historico
            /\ medias.fase > 0 =>
                  /\ \A h \in medias.entradas : h.para = f
                  /\ \A m \in medias.estadias : \E a, b \in historico :
                        /\ a.os = m.os /\ a.para = f /\ a.em = m.de
                        /\ b.os = m.os /\ b.de = f /\ b.em = m.ate
                        /\ m.de < m.ate
                  /\ \A a, b \in medias.trilha :
                        /\ a.os \notin sobrepostas /\ a.os = b.os
                        /\ a.para = f /\ b.de = f /\ a.em < b.em
                        => a \in medias.entradas \/ Estadia(a, b) \in medias.estadias
            /\ medias.fase = 0 => medias.entradas = {}
            /\ \A m \in medias.concluidas : m.os \notin sobrepostas =>
                  /\ status[m.os] \in Terminais
                  /\ m.minutos = concluida[m.os] - criada[m.os]

==============================================================================
