---------------------------- MODULE ConsultasProofs ----------------------------
(***************************************************************************)
(* Proofs about Consultas, for any set of orders, any page size, any       *)
(* number of requests that move orders and any clock: what a page of the   *)
(* panel shows, what a walk over the pages collects, and what the average  *)
(* times count.                                                            *)
(***************************************************************************)
EXTENDS Consultas, SequenceTheorems, FiniteSetTheorems, FunctionTheorems, TLAPS

------------------------------------------------------------------------------
\* Sequences of the panel

LEMMA FatiaDe ==
    ASSUME NEW S, NEW s \in Seq(S), NEW k \in Nat, NEW n \in Nat
    PROVE  /\ Fatia(s, k, n) \in Seq(S)
           /\ Len(Fatia(s, k, n)) = IF Len(s) <= k THEN 0
                                    ELSE IF k + n < Len(s) THEN n ELSE Len(s) - k
           /\ \A i \in 1..Len(Fatia(s, k, n)) : k + i \in 1..Len(s) /\ Fatia(s, k, n)[i] = s[k + i]
<1>. DEFINE m == k + 1
            t == IF k + n < Len(s) THEN k + n ELSE Len(s)
<1>1. Len(s) \in Nat /\ m \in Int /\ t \in Int /\ t <= Len(s) /\ 1 <= m
  BY LenProperties
<1>2. \A i \in m..t : s[i] \in S
  BY <1>1, ElementOfSeq
<1>3. /\ SubSeq(s, m, t) \in Seq(S)
      /\ Len(SubSeq(s, m, t)) = IF m <= t THEN t - m + 1 ELSE 0
      /\ \A i \in 1..t - m + 1 : SubSeq(s, m, t)[i] = s[m + i - 1]
  BY <1>1, <1>2, SubSeqProperties
<1>4. Fatia(s, k, n) = SubSeq(s, m, t)
  BY DEF Fatia
<1>. HIDE DEF m, t
<1>5. m = k + 1 /\ t = IF k + n < Len(s) THEN k + n ELSE Len(s)
  BY DEF m, t
<1>6. Len(Fatia(s, k, n)) = IF Len(s) <= k THEN 0
                            ELSE IF k + n < Len(s) THEN n ELSE Len(s) - k
  BY <1>1, <1>3, <1>4, <1>5
<1>7. ASSUME NEW i \in 1..Len(Fatia(s, k, n))
      PROVE  k + i \in 1..Len(s) /\ Fatia(s, k, n)[i] = s[k + i]
  <2>1. i \in 1..t - m + 1 /\ m + i - 1 = k + i /\ k + i \in 1..Len(s)
    BY <1>1, <1>3, <1>4, <1>5, <1>7
  <2>. QED  BY <1>3, <1>4, <2>1
<1>. QED  BY <1>3, <1>4, <1>6, <1>7

LEMMA ListagemDe ==
    ASSUME NEW s \in Listagens
    PROVE  /\ IsFiniteSet(Ativas) /\ Cardinality(Ativas) \in Nat
           /\ s \in Seq(Ativas) /\ Len(s) = Cardinality(Ativas) /\ Ativas \subseteq Ordens
           /\ \A i, j \in 1..Len(s) : i < j => s[i] # s[j] /\ ~Antes(s[j], s[i])
<1>1. Ativas \subseteq Ordens
  BY DEF Ativas
<1>2. IsFiniteSet(Ativas) /\ Cardinality(Ativas) \in Nat
  BY <1>1, OrdensAssumption, FS_Subset, FS_CardinalityType
<1>. DEFINE n == Cardinality(Ativas)
<1>3. s \in [1..n -> Ativas] /\ \A i, j \in DOMAIN s : i < j => s[i] # s[j] /\ ~Antes(s[j], s[i])
  BY DEF Listagens
<1>. HIDE DEF n
<1>4. n \in Nat
  BY <1>2 DEF n
<1>5. s \in Seq(Ativas) /\ Len(s) = n /\ DOMAIN s = 1..n
  BY <1>3, <1>4
<1>. QED
  BY <1>1, <1>2, <1>3, <1>5 DEF n

LEMMA AtivasFinitas ==
    IsFiniteSet(Ativas) /\ Cardinality(Ativas) \in Nat /\ Ativas \subseteq Ordens
<1>1. Ativas \subseteq Ordens
  BY DEF Ativas
<1>. QED
  BY <1>1, OrdensAssumption, FS_Subset, FS_CardinalityType

LEMMA FuncaoSequencia ==
    ASSUME NEW S, NEW n \in Nat, NEW f \in [1..n -> S]
    PROVE  f \in Seq(S) /\ Len(f) = n
  OBVIOUS

LEMMA LinhasDe ==
    ASSUME NEW ids \in Seq(Ordens), status \in [Ordens -> StatusOs]
    PROVE  /\ Linhas(ids) \in Seq([os: Ordens, status: StatusOs])
           /\ Len(Linhas(ids)) = Len(ids)
           /\ \A i \in 1..Len(ids) :
                 Linhas(ids)[i].os = ids[i] /\ Linhas(ids)[i].status = status[ids[i]]
<1>1. Len(ids) \in Nat /\ DOMAIN ids = 1..Len(ids) /\ \A i \in 1..Len(ids) : ids[i] \in Ordens
  BY LenProperties, ElementOfSeq
<1>2. Linhas(ids) = [i \in 1..Len(ids) |-> [os |-> ids[i], status |-> status[ids[i]]]]
  BY <1>1 DEF Linhas
<1>3. \A i \in 1..Len(ids) : [os |-> ids[i], status |-> status[ids[i]]] \in [os: Ordens, status: StatusOs]
  BY <1>1
<1>4. Linhas(ids) \in [1..Len(ids) -> [os: Ordens, status: StatusOs]]
  BY <1>2, <1>3
<1>5. Linhas(ids) \in Seq([os: Ordens, status: StatusOs]) /\ Len(Linhas(ids)) = Len(ids)
  <2>. DEFINE T == [os: Ordens, status: StatusOs]
              n == Len(ids)
              f == Linhas(ids)
  <2>1. n \in Nat /\ f \in [1..n -> T]
    BY <1>1, <1>4
  <2>. HIDE DEF T, n, f
  <2>2. f \in Seq(T) /\ Len(f) = n
    BY <2>1, FuncaoSequencia
  <2>. QED  BY <2>2 DEF T, n, f
<1>6. ASSUME NEW i \in 1..Len(ids)
      PROVE  Linhas(ids)[i].os = ids[i] /\ Linhas(ids)[i].status = status[ids[i]]
  <2>1. Linhas(ids)[i] = [os |-> ids[i], status |-> status[ids[i]]]
    BY <1>2
  <2>. QED  BY <2>1
<1>. QED
  BY <1>5, <1>6

LEMMA OrdensDasLinhas ==
    ASSUME NEW l \in Seq([os: Ordens, status: StatusOs])
    PROVE  /\ OrdensDa(l) \in Seq(Ordens) /\ Len(OrdensDa(l)) = Len(l)
           /\ \A i \in 1..Len(l) : OrdensDa(l)[i] = l[i].os
<1>1. Len(l) \in Nat /\ DOMAIN l = 1..Len(l)
      /\ \A i \in 1..Len(l) : l[i] \in [os: Ordens, status: StatusOs]
  BY LenProperties, ElementOfSeq
<1>2. OrdensDa(l) = [i \in 1..Len(l) |-> l[i].os]
  BY <1>1 DEF OrdensDa
<1>3. \A i \in 1..Len(l) : l[i].os \in Ordens
  BY <1>1
<1>4. OrdensDa(l) \in [1..Len(l) -> Ordens]
  BY <1>2, <1>3
<1>5. OrdensDa(l) \in Seq(Ordens) /\ Len(OrdensDa(l)) = Len(l)
  BY <1>1, <1>4
<1>. QED
  BY <1>2, <1>5

------------------------------------------------------------------------------
\* Type correctness

LEMMA InstantesNaturais ==
    Instantes \subseteq Nat /\ 0 \in Instantes /\ 1 \in Instantes
    /\ \A a, b \in Instantes : a..b \subseteq Instantes
<1>1. Instantes \subseteq Nat /\ 1 \in Instantes /\ \A t \in Instantes : 0..t \subseteq Instantes
  BY InstantesAssumption
<1>2. 0 \in 0..1
  OBVIOUS
<1>3. \A a, b \in Nat : a..b \subseteq 0..b
  OBVIOUS
<1>. QED
  BY <1>1, <1>2, <1>3

LEMMA Distintos ==
    /\ SemMudanca \notin Mudanca
    /\ SemPainel \notin Painel
    /\ SemMedias \notin Medias
<1>1. ASSUME SemMudanca \in Mudanca PROVE FALSE
  <2>1. SemMudanca.em \in Nat
    BY <1>1, InstantesNaturais DEF Mudanca
  <2>2. SemMudanca.em = -1
    BY DEF SemMudanca, Nunca
  <2>. QED  BY <2>1, <2>2
<1>2. ASSUME SemPainel \in Painel PROVE FALSE
  <2>1. SemPainel.passo \in {"ids", "linhas", "lida"}
    BY <1>2 DEF Painel
  <2>2. SemPainel.passo = "nenhum"
    BY DEF SemPainel
  <2>. QED  BY <2>1, <2>2
<1>3. ASSUME SemMedias \in Medias PROVE FALSE
  <2>1. SemMedias.passo \in {"ordens", "lidas"}
    BY <1>3 DEF Medias
  <2>2. SemMedias.passo = "nenhum"
    BY DEF SemMedias
  <2>. QED  BY <2>1, <2>2
<1>. QED
  BY <1>1, <1>2, <1>3

LEMMA ComRelogio ==
    ASSUME NEW m \in Mudanca, NEW t \in Instantes
    PROVE  /\ [m EXCEPT !.em = t] \in Mudanca /\ [m EXCEPT !.em = t].em = t
           /\ [m EXCEPT !.em = t].os = m.os
           /\ [m EXCEPT !.em = t].de = m.de /\ [m EXCEPT !.em = t].para = m.para
  BY DEF Mudanca

LEMMA PularNatural ==
    ASSUME NEW p \in Painel
    PROVE  Pular(p) \in Nat /\ p.limite \in Nat \ {0} /\ p.pagina \in Nat \ {0}
<1>1. p.limite \in Nat \ {0} /\ p.pagina \in Nat \ {0}
  BY DEF Painel
<1>2. \A a, b \in Nat : a * b \in Nat
  OBVIOUS
<1>3. p.pagina - 1 \in Nat /\ p.limite \in Nat
  BY <1>1
<1>. QED
  BY <1>1, <1>2, <1>3 DEF Pular

LEMMA PaginaNova ==
    ASSUME NEW n \in Nat \ {0}, NEW limite \in Nat \ {0}
    PROVE  /\ Pagina(n, limite) \in Painel /\ Pagina(n, limite).passo = "ids"
           /\ Pagina(n, limite).linhas = <<>> /\ Pagina(n, limite).total = SemTotal
           /\ Pagina(n, limite).pagina = n /\ Pagina(n, limite).limite = limite
  BY DEF Pagina, Painel

\* In flight is what holds a change; the page and the averages are there
\* exactly while they are asked for.
LEMMA EmAndamento ==
    ASSUME ConsultasTypeOK
    PROVE  /\ \A r \in Pedidos : fase[r] # "livre" => mudanca[r] \in Mudanca
           /\ consulta = "painel" => painel \in Painel
           /\ consulta = "medias" => medias \in Medias
  BY DEF ConsultasTypeOK

(* Type correctness: every variable of the database, of the requests that  *)
(* move orders, of the panel and of the averages keeps its type, and a     *)
(* request holds a change exactly while it is in flight.                   *)
THEOREM ConsultasTipada == Spec => []ConsultasTypeOK
<1>1. Init => ConsultasTypeOK
  <2>. SUFFICES ASSUME Init PROVE ConsultasTypeOK
    OBVIOUS
  <2>1. status \in [Ordens -> StatusOs] /\ criada \in [Ordens -> Int]
        /\ concluida \in [Ordens -> Instantes \cup {Nunca}]
    BY StatusIniciaisAssumption, CriacoesAssumption, InstantesNaturais DEF Init
  <2>2. fase \in [Pedidos -> {"livre", "gravar", "buscar", "inserir"}]
        /\ mudanca \in [Pedidos -> Mudanca \cup {SemMudanca}]
        /\ \A r \in Pedidos : fase[r] # "livre" <=> mudanca[r] # SemMudanca
    BY DEF Init
  <2>3. percurso \in Seq(Ordens) /\ mudancas \in 0..MaxMudancas
    BY LimitesAssumption DEF Init
  <2>. QED
    BY <2>1, <2>2, <2>3, InstantesNaturais DEF Init, ConsultasTypeOK
<1>2. ConsultasTypeOK /\ [Next]_vars => ConsultasTypeOK'
  <2>. SUFFICES ASSUME ConsultasTypeOK, [Next]_vars PROVE ConsultasTypeOK'
    OBVIOUS
  <2>. USE EmAndamento
  <2>1. CASE Passar
    BY <2>1 DEF Passar, ConsultasTypeOK, emVoo, leitura, auxiliares, Ativas
  <2>2. ASSUME NEW r \in Pedidos, NEW o \in Ordens, NEW para \in StatusOs, Pedir(r, o, para)
        PROVE  ConsultasTypeOK'
    <3>. DEFINE m == [os |-> o, de |-> status[o], para |-> para, em |-> agora]
    <3>1. m \in Mudanca
      BY DEF ConsultasTypeOK, Mudanca
    <3>2. fase' = [fase EXCEPT ![r] = "gravar"] /\ mudanca' = [mudanca EXCEPT ![r] = m]
      BY <2>2 DEF Pedir
    <3>. HIDE DEF m
    <3>3. fase' \in [Pedidos -> {"livre", "gravar", "buscar", "inserir"}]
          /\ mudanca' \in [Pedidos -> Mudanca \cup {SemMudanca}]
          /\ \A q \in Pedidos : fase'[q] # "livre" <=> mudanca'[q] # SemMudanca
      BY <3>1, <3>2, Distintos DEF ConsultasTypeOK
    <3>4. sobrepostas' \subseteq Ordens /\ mudancas' \in 0..MaxMudancas
      BY <2>2, LimitesAssumption DEF Pedir, ConsultasTypeOK
    <3>. QED
      BY <2>2, <3>3, <3>4 DEF Pedir, ConsultasTypeOK, banco, leitura
  <2>3. ASSUME NEW r \in Pedidos, Gravar(r) PROVE ConsultasTypeOK'
    <3>. DEFINE m == mudanca[r]
                n == [m EXCEPT !.em = agora]
    <3>1. m \in Mudanca /\ m.os \in Ordens /\ m.para \in StatusOs /\ m.em \in Instantes
      BY <2>3 DEF Gravar, Mudanca
    <3>2. n \in Mudanca
      BY <3>1, ComRelogio DEF ConsultasTypeOK
    <3>3. fase' = [fase EXCEPT ![r] = "buscar"] /\ mudanca' = [mudanca EXCEPT ![r] = n]
      BY <2>3 DEF Gravar
    <3>4. status' \in [Ordens -> StatusOs]
      BY <2>3, <3>1 DEF Gravar, ConsultasTypeOK
    <3>5. concluida' \in [Ordens -> Instantes \cup {Nunca}]
      <4>1. CASE m.para = "FINALIZADA"
        <5>1. PICK t \in m.em..agora : concluida' = [concluida EXCEPT ![m.os] = t]
          BY <2>3, <4>1 DEF Gravar
        <5>2. m.em..agora \subseteq Instantes
          BY <3>1, InstantesNaturais DEF ConsultasTypeOK
        <5>3. t \in Instantes
          BY <5>2
        <5>. HIDE DEF m
        <5>. QED  BY <3>1, <5>1, <5>3 DEF ConsultasTypeOK
      <4>2. CASE m.para # "FINALIZADA"
        <5>1. concluida' = concluida
          BY <2>3, <4>2 DEF Gravar
        <5>. QED  BY <5>1 DEF ConsultasTypeOK
      <4>. QED  BY <4>1, <4>2
    <3>6. mudadas' \subseteq Ordens /\ quieta' \in BOOLEAN
      BY <2>3, <3>1 DEF Gravar, ConsultasTypeOK
    <3>. HIDE DEF m, n
    <3>7. fase' \in [Pedidos -> {"livre", "gravar", "buscar", "inserir"}]
          /\ mudanca' \in [Pedidos -> Mudanca \cup {SemMudanca}]
          /\ \A q \in Pedidos : fase'[q] # "livre" <=> mudanca'[q] # SemMudanca
      BY <3>2, <3>3, Distintos DEF ConsultasTypeOK
    <3>. QED
      BY <2>3, <3>4, <3>5, <3>6, <3>7 DEF Gravar, ConsultasTypeOK, leitura
  <2>4. ASSUME NEW r \in Pedidos, Buscar(r) PROVE ConsultasTypeOK'
    <3>. DEFINE m == mudanca[r]
    <3>1. m \in Mudanca /\ m.em \in Instantes
      BY <2>4 DEF Buscar, Mudanca
    <3>2. PICK t \in m.em..agora : mudanca' = [mudanca EXCEPT ![r].em = t]
      BY <2>4 DEF Buscar
    <3>3. t \in Instantes
      BY <3>1, InstantesNaturais DEF ConsultasTypeOK
    <3>. DEFINE n == [m EXCEPT !.em = t]
    <3>4. n \in Mudanca
      BY <3>1, <3>3, ComRelogio
    <3>5. fase' = [fase EXCEPT ![r] = "inserir"] /\ mudanca' = [mudanca EXCEPT ![r] = n]
      BY <2>4, <3>2 DEF Buscar
    <3>. HIDE DEF m, n
    <3>6. fase' \in [Pedidos -> {"livre", "gravar", "buscar", "inserir"}]
          /\ mudanca' \in [Pedidos -> Mudanca \cup {SemMudanca}]
          /\ \A q \in Pedidos : fase'[q] # "livre" <=> mudanca'[q] # SemMudanca
      BY <3>4, <3>5, Distintos DEF ConsultasTypeOK
    <3>. QED
      BY <2>4, <3>6 DEF Buscar, ConsultasTypeOK, banco, leitura, auxiliares
  <2>5. ASSUME NEW r \in Pedidos, Inserir(r) PROVE ConsultasTypeOK'
    <3>1. mudanca[r] \in Linha
      BY <2>5 DEF Inserir, Mudanca, Linha
    <3>2. historico' \subseteq Linha
      BY <2>5, <3>1 DEF Inserir, ConsultasTypeOK
    <3>3. fase' \in [Pedidos -> {"livre", "gravar", "buscar", "inserir"}]
          /\ mudanca' \in [Pedidos -> Mudanca \cup {SemMudanca}]
          /\ \A q \in Pedidos : fase'[q] # "livre" <=> mudanca'[q] # SemMudanca
      BY <2>5 DEF Inserir, Livre, ConsultasTypeOK
    <3>. QED
      BY <2>5, <3>2, <3>3 DEF Inserir, ConsultasTypeOK, leitura, auxiliares
  <2>6. ASSUME NEW r \in Pedidos, Cortar(r) PROVE ConsultasTypeOK'
    <3>1. fase' \in [Pedidos -> {"livre", "gravar", "buscar", "inserir"}]
          /\ mudanca' \in [Pedidos -> Mudanca \cup {SemMudanca}]
          /\ \A q \in Pedidos : fase'[q] # "livre" <=> mudanca'[q] # SemMudanca
      BY <2>6 DEF Cortar, Livre, ConsultasTypeOK
    <3>. QED
      BY <2>6, <3>1 DEF Cortar, ConsultasTypeOK, banco, leitura, auxiliares
  <2>7. ASSUME NEW limite \in Limites, PedirPainel(limite) PROVE ConsultasTypeOK'
    <3>1. limite \in Nat \ {0} /\ 1 \in Nat \ {0}
      BY LimitesAssumption
    <3>2. painel' = Pagina(1, limite)
      BY <2>7 DEF PedirPainel
    <3>3. painel' \in Painel
      BY <3>1, <3>2, PaginaNova
    <3>. QED
      BY <2>7, <3>3, Distintos DEF PedirPainel, ConsultasTypeOK, banco, emVoo
  <2>8. CASE LerIds
    <3>1. PICK s \in Listagens :
            painel' = [painel EXCEPT !.ids = Fatia(s, Pular(painel), painel.limite),
                                     !.passo = IF Fatia(s, Pular(painel), painel.limite) = <<>>
                                               THEN "lida" ELSE "linhas"]
      BY <2>8 DEF LerIds
    <3>2. painel \in Painel /\ Pular(painel) \in Nat /\ painel.limite \in Nat
      BY <2>8, PularNatural DEF LerIds
    <3>3. s \in Seq(Ordens)
      BY ListagemDe
    <3>. DEFINE ids == Fatia(s, Pular(painel), painel.limite)
    <3>4. ids \in Seq(Ordens)
      BY <3>2, <3>3, FatiaDe
    <3>. HIDE DEF ids
    <3>5. painel' \in Painel
      BY <3>1, <3>2, <3>4 DEF Painel, ids
    <3>. QED
      BY <2>8, <3>5, Distintos DEF LerIds, ConsultasTypeOK, banco, emVoo
  <2>9. CASE LerLinhas
    <3>1. painel \in Painel /\ painel.ids \in Seq(Ordens) /\ status \in [Ordens -> StatusOs]
      BY <2>9 DEF LerLinhas, Painel, ConsultasTypeOK
    <3>2. Linhas(painel.ids) \in Seq([os: Ordens, status: StatusOs])
      BY <3>1, LinhasDe
    <3>3. painel' \in Painel
      BY <2>9, <3>1, <3>2 DEF LerLinhas, Painel
    <3>. QED
      BY <2>9, <3>3, Distintos DEF LerLinhas, ConsultasTypeOK, banco, emVoo, auxiliares
  <2>10. CASE Contar
    <3>1. painel' \in Painel
      BY <2>10, AtivasFinitas DEF Contar, Painel
    <3>. QED
      BY <2>10, <3>1, Distintos DEF Contar, ConsultasTypeOK, banco, emVoo, auxiliares
  <2>11. CASE ProximaPagina
    <3>1. painel \in Painel /\ consulta = "painel"
      BY <2>11 DEF ProximaPagina, PaginaPronta
    <3>2. OrdensDa(painel.linhas) \in Seq(Ordens)
      BY <3>1, OrdensDasLinhas DEF Painel
    <3>3. percurso' = percurso \o OrdensDa(painel.linhas)
      BY <2>11 DEF ProximaPagina, Percorridas, OrdensDa
    <3>4. percurso' \in Seq(Ordens)
      BY <3>2, <3>3, ConcatProperties DEF ConsultasTypeOK
    <3>5. painel.pagina + 1 \in Nat \ {0} /\ painel.limite \in Nat \ {0}
      BY <3>1, PularNatural
    <3>6. painel' = Pagina(painel.pagina + 1, painel.limite)
      BY <2>11 DEF ProximaPagina
    <3>7. painel' \in Painel
      BY <3>5, <3>6, PaginaNova
    <3>. QED
      BY <2>11, <3>1, <3>4, <3>7, Distintos DEF ProximaPagina, ConsultasTypeOK, banco, emVoo, auxiliares
  <2>12. CASE PedirMedias
    <3>1. medias' \in Medias
      BY <2>12 DEF PedirMedias, MediasPedidas, Medias
    <3>. QED
      BY <2>12, <3>1, Distintos DEF PedirMedias, ConsultasTypeOK, banco, emVoo, auxiliares
  <2>13. CASE LerConcluidas
    <3>. DEFINE C == {[os |-> o, minutos |-> concluida[o] - criada[o]] :
                         o \in {q \in Ordens : status[q] \in Terminais /\ concluida[q] # Nunca}}
    <3>1. C \subseteq [os: Ordens, minutos: Int]
      <4>1. ASSUME NEW o \in Ordens, concluida[o] # Nunca
            PROVE  concluida[o] - criada[o] \in Int
        <5>1. concluida[o] \in Instantes /\ criada[o] \in Int
          BY <4>1 DEF ConsultasTypeOK
        <5>2. concluida[o] \in Nat
          BY <5>1, InstantesNaturais
        <5>. QED  BY <5>1, <5>2
      <4>2. ASSUME NEW x \in C PROVE x \in [os: Ordens, minutos: Int]
        <5>1. PICK o \in Ordens : concluida[o] # Nunca
                                  /\ x = [os |-> o, minutos |-> concluida[o] - criada[o]]
          BY <4>2
        <5>. QED  BY <4>1, <5>1
      <4>. HIDE DEF C
      <4>. QED  BY <4>2
    <3>2. medias' = [medias EXCEPT !.passo = "lidas", !.concluidas = C]
      BY <2>13 DEF LerConcluidas
    <3>. HIDE DEF C
    <3>3. medias' \in Medias
      BY <2>13, <3>1, <3>2 DEF LerConcluidas, Medias
    <3>. QED
      BY <2>13, <3>3, Distintos DEF LerConcluidas, ConsultasTypeOK, banco, emVoo, auxiliares
  <2>14. CASE LerEntradas
    <3>. DEFINE f == FaseMedida[medias.fase + 1]
                E == {h \in historico : h.para = f}
                T == TrilhaDa(f)
    <3>1. E \subseteq Linha /\ T \subseteq Linha
      BY DEF ConsultasTypeOK, TrilhaDa
    <3>2. medias' = [medias EXCEPT !.fase = @ + 1, !.estadias = {}, !.trilha = T, !.entradas = E]
      BY <2>14 DEF LerEntradas
    <3>. HIDE DEF E, T, f
    <3>3. medias \in Medias /\ medias.fase < 3
      BY <2>14 DEF LerEntradas
    <3>4. medias.fase \in 0..3 /\ medias.fase + 1 \in 0..3
      BY <3>3 DEF Medias
    <3>5. medias' \in Medias
      BY <3>1, <3>2, <3>3, <3>4 DEF Medias
    <3>. QED
      BY <2>14, <3>5, Distintos DEF LerEntradas, ConsultasTypeOK, banco, emVoo, auxiliares
  <2>15. CASE LerSaida
    <3>1. medias \in Medias
      BY <2>15 DEF LerSaida
    <3>2. PICK e \in Primeiras(medias.entradas) :
            medias' = [medias EXCEPT !.entradas = @ \ {e},
                                     !.estadias = @ \cup {Estadia(e, s) : s \in Primeiras(Saidas(e))}]
      BY <2>15 DEF LerSaida
    <3>. DEFINE X == {Estadia(e, s) : s \in Primeiras(Saidas(e))}
    <3>3. e \in Linha
      BY <3>1, <3>2 DEF Primeiras, Medias
    <3>4. \A s \in Primeiras(Saidas(e)) : s \in Linha
      BY DEF Primeiras, Saidas, ConsultasTypeOK
    <3>5. X \subseteq [os: Ordens, de: Instantes, ate: Instantes]
      BY <3>3, <3>4 DEF Linha, Estadia
    <3>. HIDE DEF X
    <3>6. medias' \in Medias
      BY <3>1, <3>2, <3>5 DEF Medias, X
    <3>. QED
      BY <2>15, <3>6, Distintos DEF LerSaida, ConsultasTypeOK, banco, emVoo, auxiliares
  <2>16. CASE Responder
    BY <2>16, Distintos DEF Responder, ConsultasTypeOK, banco, emVoo
  <2>17. CASE UNCHANGED vars
    BY <2>17 DEF vars, banco, emVoo, leitura, auxiliares, ConsultasTypeOK
  <2>. QED
    BY <2>1, <2>2, <2>3, <2>4, <2>5, <2>6, <2>7, <2>8, <2>9, <2>10, <2>11, <2>12, <2>13, <2>14,
       <2>15, <2>16, <2>17 DEF Next
<1>. QED
  BY <1>1, <1>2, PTL DEF Spec

------------------------------------------------------------------------------
\* A page of the panel

\* What the panel shows depends on these and nothing else.
LEMMA OrdemParada ==
    ASSUME UNCHANGED <<status, criada>>
    PROVE  Ativas' = Ativas /\ \A o, q : Antes(o, q)' <=> Antes(o, q)
  BY DEF Ativas, Antes

LEMMA FirmeParada ==
    ASSUME UNCHANGED <<status, criada, mudadas>>, painel'.limite = painel.limite,
           NEW s, SequenciaFirme(s)
    PROVE  /\ Len(s) <= painel'.limite
           /\ \A i \in DOMAIN s : s[i] \notin mudadas' => s[i] \in Ativas'
           /\ \A i, j \in DOMAIN s : i < j =>
                 /\ s[i] # s[j]
                 /\ s[i] \notin mudadas' /\ s[j] \notin mudadas' => ~Antes(s[j], s[i])'
<1>1. Ativas' = Ativas /\ \A o, q : Antes(o, q)' <=> Antes(o, q)
  BY OrdemParada
<1>2. mudadas' = mudadas
  OBVIOUS
<1>. QED
  BY <1>1, <1>2 DEF SequenciaFirme

LEMMA PaginaParada ==
    ASSUME UNCHANGED <<status, criada, mudadas, consulta>>, PaginaInv,
           painel'.limite = painel.limite, painel'.passo = painel.passo,
           painel'.ids = painel.ids, painel'.linhas = painel.linhas
    PROVE  PaginaInv'
<1>. SUFFICES ASSUME consulta = "painel" PROVE PaginaInv'
  BY DEF PaginaInv
<1>1. OrdensDa(painel.linhas)' = OrdensDa(painel.linhas)
  BY DEF OrdensDa
<1>2. painel'.passo = "linhas" => SequenciaFirme(painel.ids)'
  BY FirmeParada DEF PaginaInv, SequenciaFirme
<1>3. painel'.passo = "lida" => SequenciaFirme(OrdensDa(painel.linhas))'
  <2>. SUFFICES ASSUME painel.passo = "lida" PROVE SequenciaFirme(OrdensDa(painel.linhas))'
    OBVIOUS
  <2>. DEFINE l == OrdensDa(painel.linhas)
  <2>1. SequenciaFirme(l) /\ l' = l
    BY <1>1 DEF PaginaInv
  <2>. HIDE DEF l
  <2>2. SequenciaFirme(l)'
    BY <2>1, FirmeParada DEF SequenciaFirme
  <2>. QED  BY <2>2 DEF l
<1>4. painel'.passo = "lida" =>
        \A l \in {painel'.linhas[i] : i \in DOMAIN painel'.linhas} :
           l.os \notin mudadas' => l.status = status'[l.os]
  BY DEF PaginaInv
<1>. QED
  BY <1>2, <1>3, <1>4 DEF PaginaInv

LEMMA PainelParado ==
    ASSUME UNCHANGED <<consulta, painel, mudadas, status, criada>>, PaginaInv
    PROVE  PaginaInv'
  BY PaginaParada

\* A page of a listing keeps the order of the listing and its limit.
LEMMA FatiaFirme ==
    ASSUME ConsultasTypeOK, painel \in Painel, NEW s \in Listagens,
           NEW ids, ids = Fatia(s, Pular(painel), painel.limite)
    PROVE  /\ ids \in Seq(Ordens) /\ Len(ids) <= painel.limite
           /\ \A i \in 1..Len(ids) : ids[i] \in Ativas
           /\ \A i, j \in 1..Len(ids) : i < j => ids[i] # ids[j] /\ ~Antes(ids[j], ids[i])
<1>. DEFINE k == Pular(painel)
            n == painel.limite
<1>1. k \in Nat /\ n \in Nat
  BY PularNatural
<1>2. s \in Seq(Ordens) /\ s \in Seq(Ativas) /\ Len(s) \in Nat
      /\ \A i, j \in 1..Len(s) : i < j => s[i] # s[j] /\ ~Antes(s[j], s[i])
  BY ListagemDe, LenProperties
<1>. HIDE DEF k, n
<1>3. ids = Fatia(s, k, n)
  BY DEF k, n
<1>4. /\ ids \in Seq(Ordens)
      /\ Len(ids) = IF Len(s) <= k THEN 0 ELSE IF k + n < Len(s) THEN n ELSE Len(s) - k
      /\ \A i \in 1..Len(ids) : k + i \in 1..Len(s) /\ ids[i] = s[k + i]
  <2>1. s \in Seq(Ordens) /\ k \in Nat /\ n \in Nat
    BY <1>1, <1>2
  <2>2. /\ Fatia(s, k, n) \in Seq(Ordens)
        /\ Len(Fatia(s, k, n)) = IF Len(s) <= k THEN 0 ELSE IF k + n < Len(s) THEN n ELSE Len(s) - k
        /\ \A i \in 1..Len(Fatia(s, k, n)) : k + i \in 1..Len(s) /\ Fatia(s, k, n)[i] = s[k + i]
    BY ONLY <2>1, FatiaDe
  <2>. QED  BY <1>3, <2>2
<1>5. Len(ids) <= n
  BY <1>1, <1>2, <1>4
<1>6. \A i \in 1..Len(ids) : ids[i] \in Ativas
  BY <1>2, <1>4, ElementOfSeq
<1>7. ASSUME NEW i \in 1..Len(ids), NEW j \in 1..Len(ids), i < j
      PROVE  ids[i] # ids[j] /\ ~Antes(ids[j], ids[i])
  <2>1. k + i \in 1..Len(s) /\ k + j \in 1..Len(s) /\ k + i < k + j
    BY <1>1, <1>4, <1>7
  <2>. QED  BY <1>2, <1>4, <2>1
<1>. QED
  BY <1>4, <1>5, <1>6, <1>7 DEF n

LEMMA PaginaInicial == Init => PaginaInv
  BY DEF Init, PaginaInv

LEMMA PaginaPasso ==
    ASSUME ConsultasTypeOK, PaginaInv, [Next]_vars
    PROVE  PaginaInv'
<1>1. CASE UNCHANGED <<consulta, painel, mudadas, status, criada>>
  BY <1>1, PainelParado
<1>2. CASE consulta' # "painel"
  BY <1>2 DEF PaginaInv
<1>3. ASSUME NEW r \in Pedidos, Gravar(r), consulta = "painel" PROVE PaginaInv'
  <2>. DEFINE m == mudanca[r]
  <2>1. m \in Mudanca /\ m.os \in Ordens /\ painel \in Painel
    BY <1>3, EmAndamento DEF Gravar, Mudanca
  <2>2. /\ mudadas' = mudadas \cup {m.os} /\ status' = [status EXCEPT ![m.os] = m.para]
        /\ UNCHANGED <<consulta, painel, criada>>
    BY <1>3 DEF Gravar, leitura
  <2>. HIDE DEF m
  <2>3. ASSUME NEW o \in Ordens, o \notin mudadas'
        PROVE  o \notin mudadas /\ status'[o] = status[o] /\ (o \in Ativas => o \in Ativas')
    BY <2>1, <2>2, <2>3 DEF ConsultasTypeOK, Ativas
  <2>4. ASSUME NEW o \in Ordens, NEW q \in Ordens, o \notin mudadas', q \notin mudadas'
        PROVE  Antes(o, q)' => Antes(o, q)
    BY <2>2, <2>3, <2>4 DEF Antes
  <2>5. ASSUME NEW s \in Seq(Ordens), SequenciaFirme(s)
        PROVE  /\ Len(s) <= painel.limite
               /\ \A i \in DOMAIN s : s[i] \notin mudadas' => s[i] \in Ativas'
               /\ \A i, j \in DOMAIN s : i < j =>
                     /\ s[i] # s[j]
                     /\ s[i] \notin mudadas' /\ s[j] \notin mudadas' => ~Antes(s[j], s[i])'
    <3>1. DOMAIN s = 1..Len(s) /\ \A i \in 1..Len(s) : s[i] \in Ordens
      BY LenProperties, ElementOfSeq
    <3>. QED  BY <2>3, <2>4, <2>5, <3>1 DEF SequenciaFirme
  <2>6. painel.ids \in Seq(Ordens) /\ OrdensDa(painel.linhas) \in Seq(Ordens)
        /\ \A l \in {painel.linhas[i] : i \in DOMAIN painel.linhas} : l.os \in Ordens
    <3>1. painel.ids \in Seq(Ordens) /\ painel.linhas \in Seq([os: Ordens, status: StatusOs])
      BY <2>1 DEF Painel
    <3>2. DOMAIN painel.linhas = 1..Len(painel.linhas)
          /\ \A i \in 1..Len(painel.linhas) : painel.linhas[i] \in [os: Ordens, status: StatusOs]
      BY <3>1, LenProperties, ElementOfSeq
    <3>. QED  BY <3>1, <3>2, OrdensDasLinhas
  <2>7. painel'.passo = "linhas" => SequenciaFirme(painel.ids)'
    BY <1>3, <2>2, <2>5, <2>6 DEF PaginaInv, SequenciaFirme
  <2>8. painel'.passo = "lida" => SequenciaFirme(OrdensDa(painel.linhas))'
    <3>. DEFINE l == OrdensDa(painel.linhas)
    <3>1. l' = l
      BY <2>2 DEF OrdensDa
    <3>2. l \in Seq(Ordens) /\ (painel'.passo = "lida" => SequenciaFirme(l))
      BY <1>3, <2>2, <2>6 DEF PaginaInv
    <3>. HIDE DEF l
    <3>3. painel'.passo = "lida" => SequenciaFirme(l)'
      BY <2>2, <2>5, <3>1, <3>2 DEF SequenciaFirme
    <3>. QED  BY <3>3 DEF l
  <2>9. painel'.passo = "lida" =>
          \A l \in {painel'.linhas[i] : i \in DOMAIN painel'.linhas} :
             l.os \notin mudadas' => l.status = status'[l.os]
    BY <1>3, <2>2, <2>3, <2>6 DEF PaginaInv
  <2>. QED
    BY <1>3, <2>2, <2>7, <2>8, <2>9 DEF PaginaInv
<1>4. ASSUME NEW limite \in Limites, PedirPainel(limite) PROVE PaginaInv'
  <2>1. limite \in Nat \ {0} /\ 1 \in Nat \ {0}
    BY LimitesAssumption
  <2>2. painel' = Pagina(1, limite)
    BY <1>4 DEF PedirPainel
  <2>3. painel'.passo = "ids" /\ painel'.linhas = <<>>
    BY <2>1, <2>2, PaginaNova
  <2>. QED  BY <2>3 DEF PaginaInv
<1>5. CASE LerIds
  <2>1. PICK s \in Listagens :
          painel' = [painel EXCEPT !.ids = Fatia(s, Pular(painel), painel.limite),
                                   !.passo = IF Fatia(s, Pular(painel), painel.limite) = <<>>
                                             THEN "lida" ELSE "linhas"]
    BY <1>5 DEF LerIds
  <2>2. painel \in Painel /\ painel.passo = "ids" /\ painel.linhas = <<>>
        /\ UNCHANGED <<status, criada, consulta>>
    BY <1>5, EmAndamento DEF LerIds, PaginaInv, banco
  <2>. DEFINE ids == Fatia(s, Pular(painel), painel.limite)
  <2>3. /\ ids \in Seq(Ordens) /\ Len(ids) <= painel.limite
        /\ \A i \in 1..Len(ids) : ids[i] \in Ativas
        /\ \A i, j \in 1..Len(ids) : i < j => ids[i] # ids[j] /\ ~Antes(ids[j], ids[i])
    BY <2>2, FatiaFirme
  <2>4. painel' = [painel EXCEPT !.ids = ids, !.passo = IF ids = <<>> THEN "lida" ELSE "linhas"]
    BY <2>1
  <2>. HIDE DEF ids
  <2>5. painel'.ids = ids /\ painel'.linhas = <<>> /\ painel'.limite = painel.limite
        /\ painel'.passo = (IF ids = <<>> THEN "lida" ELSE "linhas")
    BY <2>2, <2>4 DEF Painel
  <2>6. DOMAIN ids = 1..Len(ids)
    BY <2>3, LenProperties
  <2>7. SequenciaFirme(painel.ids)'
    BY <2>2, <2>3, <2>5, <2>6 DEF SequenciaFirme, Ativas, Antes
  <2>8. SequenciaFirme(OrdensDa(painel.linhas))'
    <3>1. <<>> \in Seq([os: Ordens, status: StatusOs]) /\ DOMAIN <<>> = {} /\ Len(<<>>) = 0
      OBVIOUS
    <3>2. Len(OrdensDa(<<>>)) = 0 /\ DOMAIN OrdensDa(<<>>) = {}
      BY <3>1 DEF OrdensDa
    <3>3. painel'.limite \in Nat
      BY <2>2, <2>5 DEF Painel
    <3>4. OrdensDa(painel.linhas)' = OrdensDa(<<>>)
      BY <2>5 DEF OrdensDa
    <3>. QED  BY <3>2, <3>3, <3>4 DEF SequenciaFirme
  <2>9. {painel'.linhas[i] : i \in DOMAIN painel'.linhas} = {}
    BY <2>5
  <2>. QED  BY <2>5, <2>7, <2>8, <2>9 DEF PaginaInv
<1>6. CASE LerLinhas
  <2>1. painel \in Painel /\ painel.ids \in Seq(Ordens) /\ status \in [Ordens -> StatusOs]
        /\ SequenciaFirme(painel.ids) /\ UNCHANGED <<status, criada, consulta, mudadas>>
    BY <1>6, EmAndamento DEF LerLinhas, PaginaInv, Painel, ConsultasTypeOK, banco, auxiliares
  <2>. DEFINE l == Linhas(painel.ids)
  <2>2. /\ l \in Seq([os: Ordens, status: StatusOs]) /\ Len(l) = Len(painel.ids)
        /\ \A i \in 1..Len(painel.ids) : l[i].os = painel.ids[i] /\ l[i].status = status[painel.ids[i]]
    BY <2>1, LinhasDe
  <2>3. painel' = [painel EXCEPT !.linhas = l, !.passo = "lida"]
    BY <1>6 DEF LerLinhas
  <2>. HIDE DEF l
  <2>4. painel'.linhas = l /\ painel'.passo = "lida" /\ painel'.limite = painel.limite
    BY <2>1, <2>3 DEF Painel
  <2>5. /\ OrdensDa(l) \in Seq(Ordens) /\ Len(OrdensDa(l)) = Len(painel.ids)
        /\ \A i \in 1..Len(painel.ids) : OrdensDa(l)[i] = painel.ids[i]
    BY <2>2, OrdensDasLinhas
  <2>6. DOMAIN OrdensDa(l) = DOMAIN painel.ids /\ DOMAIN painel.ids = 1..Len(painel.ids)
        /\ DOMAIN l = 1..Len(painel.ids)
    BY <2>1, <2>2, <2>5, LenProperties
  <2>7. SequenciaFirme(OrdensDa(painel.linhas))'
    <3>1. OrdensDa(painel.linhas)' = OrdensDa(l)
      BY <2>4 DEF OrdensDa
    <3>. QED  BY <2>1, <2>4, <2>5, <2>6, <3>1 DEF SequenciaFirme, Ativas, Antes
  <2>8. \A k \in {painel'.linhas[i] : i \in DOMAIN painel'.linhas} : k.status = status'[k.os]
    BY <2>1, <2>2, <2>4, <2>6
  <2>. QED  BY <2>4, <2>7, <2>8 DEF PaginaInv
<1>7. CASE Contar
  <2>1. painel \in Painel /\ UNCHANGED <<status, criada, consulta, mudadas>>
        /\ painel' = [painel EXCEPT !.total = Cardinality(Ativas)]
    BY <1>7, EmAndamento DEF Contar, banco, auxiliares
  <2>2. painel'.passo = painel.passo /\ painel'.ids = painel.ids /\ painel'.linhas = painel.linhas
        /\ painel'.limite = painel.limite
    BY <2>1 DEF Painel
  <2>. QED  BY <2>1, <2>2, PaginaParada
<1>8. CASE ProximaPagina
  <2>1. painel \in Painel
    BY <1>8, EmAndamento DEF ProximaPagina, PaginaPronta
  <2>2. painel.pagina + 1 \in Nat \ {0} /\ painel.limite \in Nat \ {0}
    BY <2>1, PularNatural
  <2>3. painel'.passo = "ids" /\ painel'.linhas = <<>>
    BY <1>8, <2>2, PaginaNova DEF ProximaPagina
  <2>. QED  BY <2>3 DEF PaginaInv
<1>9. CASE Passar
  BY <1>1, <1>9 DEF Passar, leitura, auxiliares
<1>10. ASSUME NEW r \in Pedidos, NEW o \in Ordens, NEW para \in StatusOs, Pedir(r, o, para)
       PROVE  PaginaInv'
  BY <1>1, <1>10 DEF Pedir, leitura, banco
<1>11. ASSUME NEW r \in Pedidos, Buscar(r) \/ Inserir(r) \/ Cortar(r) PROVE PaginaInv'
  BY <1>1, <1>11 DEF Buscar, Inserir, Cortar, leitura, banco, auxiliares
<1>12. CASE PedirMedias \/ Responder
  BY <1>2, <1>12 DEF PedirMedias, Responder
<1>13. CASE LerConcluidas \/ LerEntradas \/ LerSaida
  BY <1>1, <1>13 DEF LerConcluidas, LerEntradas, LerSaida, banco, auxiliares
<1>14. ASSUME NEW r \in Pedidos, Gravar(r), consulta # "painel" PROVE PaginaInv'
  BY <1>2, <1>14 DEF Gravar, leitura
<1>15. CASE UNCHANGED vars
  BY <1>1, <1>15 DEF vars, banco, leitura, auxiliares
<1>. QED
  BY <1>3, <1>4, <1>5, <1>6, <1>7, <1>8, <1>9, <1>10, <1>11, <1>12, <1>13, <1>14, <1>15 DEF Next

(* A page of the panel: at most its limit, no order twice, and the orders  *)
(* nobody wrote between its two reads in the documented order, with the    *)
(* status they have; whatever is written between the reads.                *)
THEOREM PaginaSempreCoerente == Spec => []PaginaCoerente
<1>1. ConsultasTypeOK /\ PaginaInv => PaginaCoerente
  <2>. SUFFICES ASSUME ConsultasTypeOK, PaginaInv, PaginaPronta PROVE PaginaCoerente
    BY DEF PaginaCoerente
  <2>. DEFINE l == painel.linhas
  <2>1. painel \in Painel /\ consulta = "painel" /\ painel.passo = "lida"
    BY EmAndamento DEF PaginaPronta
  <2>2. l \in Seq([os: Ordens, status: StatusOs])
    BY <2>1 DEF Painel
  <2>3. SequenciaFirme(OrdensDa(l))
        /\ \A k \in {l[i] : i \in DOMAIN l} : k.os \notin mudadas => k.status = status[k.os]
    BY <2>1 DEF PaginaInv
  <2>. HIDE DEF l
  <2>4. /\ OrdensDa(l) \in Seq(Ordens) /\ Len(OrdensDa(l)) = Len(l) /\ DOMAIN l = 1..Len(l)
        /\ DOMAIN OrdensDa(l) = 1..Len(l) /\ \A i \in 1..Len(l) : OrdensDa(l)[i] = l[i].os
    BY <2>2, OrdensDasLinhas, LenProperties
  <2>5. /\ Len(l) <= painel.limite
        /\ \A i \in DOMAIN l : l[i].os \notin mudadas => l[i].status = status[l[i].os] /\ l[i].os \in Ativas
        /\ \A i, j \in DOMAIN l : i < j =>
              /\ l[i].os # l[j].os
              /\ l[i].os \notin mudadas /\ l[j].os \notin mudadas => ~Antes(l[j].os, l[i].os)
    BY <2>3, <2>4 DEF SequenciaFirme
  <2>. QED  BY <2>5 DEF PaginaCoerente, l
<1>2. ConsultasTypeOK /\ PaginaInv /\ [Next]_vars => PaginaInv'
  BY PaginaPasso
<1>. QED
  BY <1>1, <1>2, ConsultasTipada, PaginaInicial, PTL DEF Spec

------------------------------------------------------------------------------
\* A walk over the pages

\* The documented order is strict.
LEMMA OrdemEstrita ==
    ASSUME ConsultasTypeOK
    PROVE  \A o, q, p \in Ordens : /\ ~Antes(o, o)
                                   /\ Antes(o, q) /\ Antes(q, p) => Antes(o, p)
<1>1. \A o \in Ordens : criada[o] \in Int /\ Posicao(status[o]) \in 1..5
  BY DEF ConsultasTypeOK, Posicao
<1>. QED
  BY <1>1 DEF Antes

\* As many distinct values as the set has: all of them.
LEMMA Sobrejetora ==
    ASSUME NEW T, IsFiniteSet(T), NEW s \in [1..Cardinality(T) -> T],
           \A i, j \in 1..Cardinality(T) : s[i] = s[j] => i = j
    PROVE  \A t \in T : \E i \in 1..Cardinality(T) : s[i] = t
<1>. DEFINE n == Cardinality(T)
<1>1. n \in Nat
  BY FS_CardinalityType
<1>2. Cardinality(1..n) = n
  BY <1>1, FS_Interval
<1>3. s \in Injection(1..n, T)
  BY Fun_IsInj
<1>4. s \in Surjection(1..n, T)
  BY <1>2, <1>3, FS_Injection
<1>. DEFINE S == 1..n
<1>. HIDE DEF S
<1>5. s \in Surjection(S, T)
  BY <1>4 DEF S
<1>6. \A t \in T : \E i \in S : s[i] = t
  BY <1>5, Fun_SurjectionProperties
<1>. QED
  BY <1>6 DEF S

LEMMA ContarPorSequencia ==
    ASSUME NEW T, NEW m \in Nat, NEW f \in [1..m -> T],
           \A i, j \in 1..m : f[i] = f[j] => i = j,
           \A t \in T : \E i \in 1..m : f[i] = t
    PROVE  Cardinality(T) = m
<1>1. f \in Bijection(1..m, T)
  BY Fun_IsBij
<1>2. ExistsBijection(1..m, T)
  BY <1>1, Fun_ExistsBij
<1>. QED
  BY <1>2, FS_CountingElements

\* Without ties the i-th order of a listing has the i - 1 before it.
LEMMA PostoNaListagem ==
    ASSUME ConsultasTypeOK, SemEmpates, NEW s \in Listagens, NEW i \in 1..Len(s)
    PROVE  s[i] \in Ativas /\ Posto(s[i]) = i - 1
<1>1. /\ IsFiniteSet(Ativas) /\ Ativas \subseteq Ordens
      /\ Len(s) \in Nat /\ s \in [1..Len(s) -> Ativas] /\ Len(s) = Cardinality(Ativas)
      /\ \A a, b \in 1..Len(s) : a < b => s[a] # s[b] /\ ~Antes(s[b], s[a])
  BY ListagemDe, LenProperties
<1>2. \A a, b \in 1..Len(s) : s[a] = s[b] => a = b
  BY <1>1
<1>3. \A t \in Ativas : \E a \in 1..Len(s) : s[a] = t
  BY <1>1, <1>2, Sobrejetora
<1>. DEFINE A == {q \in Ativas : Antes(q, s[i])}
            f == [a \in 1..i - 1 |-> s[a]]
<1>4. \A a \in 1..i - 1 : s[a] \in A
  <2>. SUFFICES ASSUME NEW a \in 1..i - 1 PROVE s[a] \in A
    OBVIOUS
  <2>1. a \in 1..Len(s) /\ a < i /\ s[a] \in Ativas /\ s[i] \in Ativas
    BY <1>1
  <2>2. s[a] # s[i] /\ ~Antes(s[i], s[a])
    BY <1>1, <2>1
  <2>. QED  BY <2>1, <2>2 DEF SemEmpates
<1>5. ASSUME NEW q \in A PROVE \E a \in 1..i - 1 : s[a] = q
  <2>1. PICK a \in 1..Len(s) : s[a] = q
    BY <1>3
  <2>2. a # i
    BY <1>1, <2>1, OrdemEstrita
  <2>3. ~(i < a)
    BY <1>1, <2>1
  <2>. QED  BY <1>1, <2>1, <2>2, <2>3
<1>6. i - 1 \in Nat /\ f \in [1..i - 1 -> A]
  BY <1>1, <1>4
<1>7. /\ \A a, b \in 1..i - 1 : f[a] = f[b] => a = b
      /\ \A q \in A : \E a \in 1..i - 1 : f[a] = q
  BY <1>1, <1>2, <1>5
<1>. HIDE DEF A, f
<1>8. Cardinality(A) = i - 1
  BY <1>6, <1>7, ContarPorSequencia
<1>. QED
  BY <1>1, <1>8 DEF A, Posto

\* The pages end exactly where the orders do.
LEMMA HaMaisPaginas ==
    ASSUME NEW p \in Nat \ {0}, NEW L \in Nat \ {0}, NEW N \in Nat
    PROVE  /\ p < (N + L - 1) \div L => (p - 1) * L + L < N
           /\ p >= (N + L - 1) \div L => (p - 1) * L + L >= N
           /\ (p + 1 - 1) * L = (p - 1) * L + L
<1>1. (p - 1) * L + L = p * L /\ (p + 1 - 1) * L = p * L /\ p * L \in Nat
  OBVIOUS
<1>. DEFINE a == N + L - 1
            q == a \div L
<1>2. a \in Nat
  OBVIOUS
<1>. HIDE DEF a
<1>3. q \in Nat /\ q * L \in Nat /\ q * L <= a /\ a < q * L + L
  BY <1>2
<1>. HIDE DEF q
<1>4. ASSUME p < q PROVE p * L < N
  <2>1. p + 1 <= q
    BY <1>3, <1>4
  <2>2. (p + 1) * L <= q * L
    BY <1>3, <2>1
  <2>3. (p + 1) * L = p * L + L
    OBVIOUS
  <2>. QED  BY <1>1, <1>3, <2>2, <2>3 DEF a
<1>5. ASSUME p >= q PROVE p * L >= N
  <2>1. q * L <= p * L
    BY <1>3, <1>5
  <2>. QED  BY <1>1, <1>3, <2>1 DEF a
<1>. QED
  BY <1>1, <1>4, <1>5 DEF q, a

LEMMA EmPostosJuntos ==
    ASSUME NEW P \in Seq(Ordens), NEW Q \in Seq(Ordens), EmPostos(P, 0), EmPostos(Q, Len(P))
    PROVE  EmPostos(P \o Q, 0) /\ Len(P \o Q) = Len(P) + Len(Q) /\ P \o Q \in Seq(Ordens)
<1>1. /\ Len(P) \in Nat /\ Len(Q) \in Nat /\ DOMAIN P = 1..Len(P) /\ DOMAIN Q = 1..Len(Q)
  BY LenProperties
<1>2. /\ P \o Q \in Seq(Ordens) /\ Len(P \o Q) = Len(P) + Len(Q)
      /\ \A i \in 1..Len(P) + Len(Q) : (P \o Q)[i] = IF i <= Len(P) THEN P[i] ELSE Q[i - Len(P)]
  BY ConcatProperties
<1>3. DOMAIN (P \o Q) = 1..Len(P) + Len(Q)
  BY <1>2, LenProperties
<1>4. ASSUME NEW i \in 1..Len(P) + Len(Q)
      PROVE  (P \o Q)[i] \in Ativas /\ Posto((P \o Q)[i]) = 0 + i - 1
  <2>1. CASE i <= Len(P)
    <3>1. i \in 1..Len(P) /\ (P \o Q)[i] = P[i]
      BY <1>1, <1>2, <2>1
    <3>. QED  BY <1>1, <3>1 DEF EmPostos
  <2>2. CASE ~(i <= Len(P))
    <3>. DEFINE j == i - Len(P)
    <3>1. j \in 1..Len(Q) /\ (P \o Q)[i] = Q[j] /\ Len(P) + j - 1 = 0 + i - 1
      BY <1>1, <1>2, <2>2
    <3>. HIDE DEF j
    <3>. QED  BY <1>1, <3>1 DEF EmPostos
  <2>. QED  BY <2>1, <2>2
<1>. QED
  BY <1>2, <1>3, <1>4 DEF EmPostos

LEMMA PostosParados ==
    ASSUME UNCHANGED <<status, criada>>
    PROVE  /\ Ativas' = Ativas /\ (SemEmpates' <=> SemEmpates)
           /\ \A o : Posto(o)' = Posto(o)
<1>1. Ativas' = Ativas /\ \A o, q : Antes(o, q)' <=> Antes(o, q)
  BY OrdemParada
<1>2. \A o : Posto(o)' = Posto(o)
  BY <1>1 DEF Posto
<1>. QED
  BY <1>1, <1>2 DEF SemEmpates

LEMMA PercursoParado ==
    ASSUME PercursoInv, UNCHANGED <<status, criada, consulta, painel, percurso, quieta>>
    PROVE  PercursoInv'
<1>. SUFFICES ASSUME consulta = "painel", quieta, SemEmpates PROVE PercursoEmPostos'
  BY PostosParados DEF PercursoInv
<1>. DEFINE n == Pular(painel)
            l == OrdensDa(painel.linhas)
<1>1. Ativas' = Ativas /\ \A o : Posto(o)' = Posto(o)
  BY PostosParados
<1>2. n' = n /\ l' = l /\ painel' = painel /\ percurso' = percurso
  BY DEF Pular, OrdensDa
<1>3. Restantes(n)' = Restantes(n)
  BY <1>1, <1>2 DEF Restantes
<1>4. PercursoEmPostos
  BY DEF PercursoInv
<1>. HIDE DEF n, l
<1>5. EmPostos(percurso, 0)' /\ (EmPostos(painel.ids, n) => EmPostos(painel.ids, n)')
      /\ (EmPostos(l, n) => EmPostos(l, n)')
  BY <1>1, <1>2, <1>4 DEF EmPostos, PercursoEmPostos
<1>. QED
  BY <1>1, <1>2, <1>3, <1>4, <1>5 DEF PercursoEmPostos, n, l

LEMMA PercursoInicial == Init => PercursoInv
  BY DEF Init, PercursoInv

\* What a page holds of a listing, when the pages before it are all there.
LEMMA FatiaEmPostos ==
    ASSUME ConsultasTypeOK, SemEmpates, painel \in Painel, NEW s \in Listagens,
           Pular(painel) <= Cardinality(Ativas),
           NEW ids, ids = Fatia(s, Pular(painel), painel.limite)
    PROVE  Len(ids) = Restantes(Pular(painel)) /\ EmPostos(ids, Pular(painel))
<1>. DEFINE k == Pular(painel)
            n == painel.limite
            N == Cardinality(Ativas)
<1>1. k \in Nat /\ n \in Nat \ {0} /\ N \in Nat /\ k <= N
  BY PularNatural, AtivasFinitas
<1>2. s \in Seq(Ordens) /\ Len(s) = N
  BY ListagemDe
<1>3. Restantes(k) = IF k + n < N THEN n ELSE N - k
  BY DEF Restantes
<1>4. \A i \in 1..Len(s) : s[i] \in Ativas /\ Posto(s[i]) = i - 1
  BY PostoNaListagem
<1>. HIDE DEF k, n, N
<1>5. ids = Fatia(s, k, n)
  BY DEF k, n
<1>6. /\ Fatia(s, k, n) \in Seq(Ordens)
      /\ Len(Fatia(s, k, n)) = IF Len(s) <= k THEN 0 ELSE IF k + n < Len(s) THEN n ELSE Len(s) - k
      /\ \A i \in 1..Len(Fatia(s, k, n)) : k + i \in 1..Len(s) /\ Fatia(s, k, n)[i] = s[k + i]
  <2>1. s \in Seq(Ordens) /\ k \in Nat /\ n \in Nat
    BY <1>1, <1>2
  <2>. QED  BY ONLY <2>1, FatiaDe
<1>7. Len(ids) = Restantes(k)
  BY <1>1, <1>2, <1>3, <1>5, <1>6
<1>8. EmPostos(ids, k)
  <2>1. DOMAIN ids = 1..Len(ids)
    BY <1>5, <1>6, LenProperties
  <2>2. ASSUME NEW i \in 1..Len(ids) PROVE ids[i] \in Ativas /\ Posto(ids[i]) = k + i - 1
    <3>. DEFINE j == k + i
    <3>1. j \in 1..Len(s) /\ ids[i] = s[j]
      BY <1>5, <1>6
    <3>2. j - 1 = k + i - 1
      BY <1>1
    <3>. HIDE DEF j
    <3>. QED  BY <1>4, <3>1, <3>2
  <2>. QED  BY <2>1, <2>2 DEF EmPostos
<1>. QED
  BY <1>7, <1>8 DEF k

LEMMA PercursoPasso ==
    ASSUME ConsultasTypeOK, PaginaInv, PercursoInv, [Next]_vars
    PROVE  PercursoInv'
<1>1. CASE UNCHANGED <<status, criada, consulta, painel, percurso, quieta>>
  BY <1>1, PercursoParado
<1>2. ASSUME NEW r \in Pedidos, Gravar(r) PROVE PercursoInv'
  BY <1>2 DEF Gravar, leitura, PercursoInv
<1>3. ASSUME NEW limite \in Limites, PedirPainel(limite) PROVE PercursoInv'
  <2>1. /\ painel' = Pagina(1, limite) /\ limite \in Nat \ {0} /\ percurso' = <<>>
        /\ consulta' = "painel"
    BY <1>3, LimitesAssumption DEF PedirPainel, PercursoInv
  <2>2. painel'.passo = "ids" /\ painel'.pagina = 1 /\ painel'.limite = limite
        /\ painel'.total = SemTotal
    BY <2>1, PaginaNova
  <2>3. Pular(painel)' = 0
    BY <2>1, <2>2 DEF Pular
  <2>4. Ativas' = Ativas /\ Cardinality(Ativas) \in Nat
    BY <1>3, OrdemParada, AtivasFinitas DEF PedirPainel, banco
  <2>5. Len(<<>>) = 0 /\ DOMAIN <<>> = {}
    OBVIOUS
  <2>. QED  BY <2>1, <2>2, <2>3, <2>4, <2>5 DEF PercursoInv, PercursoEmPostos, EmPostos
<1>4. CASE LerIds
  <2>. SUFFICES ASSUME quieta, SemEmpates PROVE PercursoEmPostos'
    BY <1>4, PostosParados DEF LerIds, banco, PercursoInv
  <2>1. PICK s \in Listagens :
          painel' = [painel EXCEPT !.ids = Fatia(s, Pular(painel), painel.limite),
                                   !.passo = IF Fatia(s, Pular(painel), painel.limite) = <<>>
                                             THEN "lida" ELSE "linhas"]
    BY <1>4 DEF LerIds
  <2>2. painel \in Painel /\ painel.linhas = <<>> /\ PercursoEmPostos
        /\ UNCHANGED <<status, criada, consulta, percurso>>
    BY <1>4, EmAndamento DEF LerIds, PaginaInv, PercursoInv, banco
  <2>. DEFINE ids == Fatia(s, Pular(painel), painel.limite)
              n == Pular(painel)
  <2>3. Len(ids) = Restantes(n) /\ EmPostos(ids, n) /\ ids \in Seq(Ordens)
    BY <2>2, FatiaEmPostos, FatiaFirme DEF PercursoEmPostos
  <2>4. painel' = [painel EXCEPT !.ids = ids, !.passo = IF ids = <<>> THEN "lida" ELSE "linhas"]
    BY <2>1
  <2>. HIDE DEF ids
  <2>5. painel'.ids = ids /\ painel'.linhas = <<>> /\ painel'.limite = painel.limite
        /\ painel'.passo = (IF ids = <<>> THEN "lida" ELSE "linhas")
        /\ painel'.total = painel.total /\ painel'.pagina = painel.pagina
    BY <2>2, <2>4 DEF Painel
  <2>6. n' = n
    BY <2>5 DEF Pular
  <2>. HIDE DEF n
  <2>7. Ativas' = Ativas /\ \A o : Posto(o)' = Posto(o)
    BY <2>2, PostosParados
  <2>8. Restantes(n)' = Restantes(n)
    BY <2>5, <2>6, <2>7 DEF Restantes
  <2>9. n <= Cardinality(Ativas) /\ Len(percurso) = n /\ EmPostos(percurso, 0)
        /\ (painel.total # SemTotal => painel.total = Cardinality(Ativas))
    BY <2>2 DEF PercursoEmPostos, n
  <2>10. EmPostos(percurso, 0)' /\ EmPostos(painel.ids, n)'
    BY <2>2, <2>3, <2>5, <2>6, <2>7, <2>9 DEF EmPostos
  <2>11. painel'.passo = "lida" =>
            Len(painel'.linhas) = Restantes(n)' /\ EmPostos(OrdensDa(painel.linhas), n)'
    <3>. SUFFICES ASSUME ids = <<>>
                  PROVE  Len(painel'.linhas) = Restantes(n)' /\ EmPostos(OrdensDa(painel.linhas), n)'
      BY <2>5
    <3>1. painel'.linhas = ids /\ Len(painel'.linhas) = Restantes(n)'
      BY <2>3, <2>5, <2>8
    <3>2. OrdensDa(painel.linhas)' = <<>>
      BY <2>5 DEF OrdensDa
    <3>. QED  BY <3>1, <3>2 DEF EmPostos
  <2>12. n' <= Cardinality(Ativas)' /\ Len(percurso') = n' /\ Len(painel'.ids) = Restantes(n)'
         /\ (painel'.total # SemTotal => painel'.total = Cardinality(Ativas)')
    BY <2>2, <2>3, <2>5, <2>6, <2>7, <2>8, <2>9
  <2>. QED  BY <2>10, <2>11, <2>12 DEF PercursoEmPostos, n
<1>5. CASE LerLinhas
  <2>. SUFFICES ASSUME quieta, SemEmpates PROVE PercursoEmPostos'
    BY <1>5, PostosParados DEF LerLinhas, banco, auxiliares, PercursoInv
  <2>1. painel \in Painel /\ painel.ids \in Seq(Ordens) /\ status \in [Ordens -> StatusOs]
        /\ painel.passo = "linhas" /\ PercursoEmPostos
        /\ UNCHANGED <<status, criada, consulta, percurso>>
    BY <1>5, EmAndamento DEF LerLinhas, Painel, ConsultasTypeOK, banco, PercursoInv
  <2>. DEFINE l == Linhas(painel.ids)
              n == Pular(painel)
  <2>2. /\ l \in Seq([os: Ordens, status: StatusOs]) /\ Len(l) = Len(painel.ids)
        /\ \A i \in 1..Len(painel.ids) : l[i].os = painel.ids[i]
    BY <2>1, LinhasDe
  <2>3. painel' = [painel EXCEPT !.linhas = l, !.passo = "lida"]
    BY <1>5 DEF LerLinhas
  <2>. HIDE DEF l
  <2>4. painel'.linhas = l /\ painel'.passo = "lida" /\ painel'.limite = painel.limite
        /\ painel'.total = painel.total /\ painel'.pagina = painel.pagina
    BY <2>1, <2>3 DEF Painel
  <2>5. n' = n
    BY <2>4 DEF Pular
  <2>. HIDE DEF n
  <2>6. /\ OrdensDa(l) \in Seq(Ordens) /\ Len(OrdensDa(l)) = Len(painel.ids)
        /\ \A i \in 1..Len(painel.ids) : OrdensDa(l)[i] = painel.ids[i]
    BY <2>2, OrdensDasLinhas
  <2>7. DOMAIN OrdensDa(l) = DOMAIN painel.ids /\ DOMAIN painel.ids = 1..Len(painel.ids)
    BY <2>1, <2>6, LenProperties
  <2>8. Ativas' = Ativas /\ \A o : Posto(o)' = Posto(o)
    BY <2>1, PostosParados
  <2>9. Restantes(n)' = Restantes(n)
    BY <2>4, <2>5, <2>8 DEF Restantes
  <2>10. n <= Cardinality(Ativas) /\ Len(percurso) = n /\ EmPostos(percurso, 0)
         /\ Len(painel.ids) = Restantes(n) /\ EmPostos(painel.ids, n)
         /\ (painel.total # SemTotal => painel.total = Cardinality(Ativas))
    BY <2>1 DEF PercursoEmPostos, n
  <2>11. EmPostos(OrdensDa(l), n)
    BY <2>6, <2>7, <2>10 DEF EmPostos
  <2>12. OrdensDa(painel.linhas)' = OrdensDa(l)
    BY <2>4 DEF OrdensDa
  <2>13. EmPostos(OrdensDa(painel.linhas), n)' /\ EmPostos(percurso, 0)'
    BY <2>1, <2>5, <2>8, <2>10, <2>11, <2>12 DEF EmPostos
  <2>14. n' <= Cardinality(Ativas)' /\ Len(percurso') = n' /\ Len(painel'.linhas) = Restantes(n)'
         /\ (painel'.total # SemTotal => painel'.total = Cardinality(Ativas)')
    BY <2>1, <2>2, <2>4, <2>5, <2>8, <2>9, <2>10
  <2>. QED  BY <2>4, <2>13, <2>14 DEF PercursoEmPostos, n
<1>6. CASE Contar
  <2>. SUFFICES ASSUME quieta, SemEmpates PROVE PercursoEmPostos'
    BY <1>6, PostosParados DEF Contar, banco, auxiliares, PercursoInv
  <2>. DEFINE n == Pular(painel)
              l == OrdensDa(painel.linhas)
  <2>1. painel \in Painel /\ painel' = [painel EXCEPT !.total = Cardinality(Ativas)]
        /\ PercursoEmPostos /\ UNCHANGED <<status, criada, consulta, percurso>>
    BY <1>6, EmAndamento DEF Contar, banco, PercursoInv
  <2>2. painel'.passo = painel.passo /\ painel'.ids = painel.ids /\ painel'.linhas = painel.linhas
        /\ painel'.limite = painel.limite /\ painel'.pagina = painel.pagina
        /\ painel'.total = Cardinality(Ativas)
    BY <2>1 DEF Painel
  <2>3. n' = n /\ l' = l
    BY <2>2 DEF Pular, OrdensDa
  <2>4. Ativas' = Ativas /\ \A o : Posto(o)' = Posto(o)
    BY <2>1, PostosParados
  <2>5. Restantes(n)' = Restantes(n)
    BY <2>2, <2>3, <2>4 DEF Restantes
  <2>. HIDE DEF n, l
  <2>6. EmPostos(percurso, 0)' /\ (EmPostos(painel.ids, n) => EmPostos(painel.ids, n)')
        /\ (EmPostos(l, n) => EmPostos(l, n)')
    BY <2>1, <2>2, <2>3, <2>4 DEF EmPostos, PercursoEmPostos
  <2>. QED  BY <2>1, <2>2, <2>3, <2>4, <2>5, <2>6 DEF PercursoEmPostos, n, l
<1>7. CASE ProximaPagina
  <2>. SUFFICES ASSUME quieta, SemEmpates PROVE PercursoEmPostos'
    BY <1>7, PostosParados DEF ProximaPagina, PaginaPronta, banco, auxiliares, PercursoInv
  <2>. DEFINE n == Pular(painel)
              N == Cardinality(Ativas)
              l == OrdensDa(painel.linhas)
  <2>1. /\ painel \in Painel /\ painel.passo = "lida" /\ painel.total = N /\ PercursoEmPostos
        /\ UNCHANGED <<status, criada, consulta>> /\ percurso \in Seq(Ordens)
    BY <1>7, EmAndamento
       DEF ProximaPagina, PaginaPronta, ConsultasTypeOK, banco, PercursoInv, PercursoEmPostos
  <2>2. painel.pagina \in Nat \ {0} /\ painel.limite \in Nat \ {0} /\ N \in Nat /\ n \in Nat
    BY <2>1, PularNatural, AtivasFinitas
  <2>3. painel.pagina < (N + painel.limite - 1) \div painel.limite
    BY <1>7, <2>1 DEF ProximaPagina, TotalPaginas
  <2>4. n + painel.limite < N
    BY <2>2, <2>3, HaMaisPaginas DEF Pular
  <2>5. painel' = Pagina(painel.pagina + 1, painel.limite) /\ percurso' = percurso \o l
    BY <1>7 DEF ProximaPagina, Percorridas, OrdensDa
  <2>6. painel.pagina + 1 \in Nat \ {0}
    BY <2>2
  <2>7. painel'.passo = "ids" /\ painel'.pagina = painel.pagina + 1 /\ painel'.limite = painel.limite
        /\ painel'.total = SemTotal
    BY <2>2, <2>5, <2>6, PaginaNova
  <2>8. n' = n + painel.limite
    BY <2>2, <2>7, HaMaisPaginas DEF Pular
  <2>9. l \in Seq(Ordens) /\ Len(l) = Len(painel.linhas)
    BY <2>1, OrdensDasLinhas DEF Painel
  <2>10. Len(painel.linhas) = Restantes(n) /\ EmPostos(l, n) /\ Len(percurso) = n
         /\ EmPostos(percurso, 0)
    BY <2>1 DEF PercursoEmPostos
  <2>11. Restantes(n) = painel.limite
    BY <2>4 DEF Restantes
  <2>. HIDE DEF n, l
  <2>12. EmPostos(percurso \o l, 0) /\ Len(percurso \o l) = n + painel.limite
    BY <2>1, <2>9, <2>10, <2>11, EmPostosJuntos
  <2>13. Ativas' = Ativas /\ \A o : Posto(o)' = Posto(o)
    BY <2>1, PostosParados
  <2>14. EmPostos(percurso, 0)'
    BY <2>5, <2>12, <2>13 DEF EmPostos
  <2>15. n' <= Cardinality(Ativas)' /\ Len(percurso') = n'
    BY <2>2, <2>4, <2>5, <2>8, <2>12, <2>13
  <2>. QED  BY <2>7, <2>14, <2>15 DEF PercursoEmPostos, n
<1>8. CASE PedirMedias
  BY <1>8 DEF PedirMedias, PercursoInv
<1>9. CASE Responder
  BY <1>9 DEF Responder, PercursoInv
<1>10. CASE Passar
  BY <1>1, <1>10 DEF Passar, leitura, auxiliares
<1>11. ASSUME NEW r \in Pedidos, NEW o \in Ordens, NEW para \in StatusOs, Pedir(r, o, para)
       PROVE  PercursoInv'
  BY <1>1, <1>11 DEF Pedir, leitura, banco
<1>12. ASSUME NEW r \in Pedidos, Buscar(r) \/ Inserir(r) \/ Cortar(r) PROVE PercursoInv'
  BY <1>1, <1>12 DEF Buscar, Inserir, Cortar, leitura, banco, auxiliares
<1>13. CASE LerConcluidas \/ LerEntradas \/ LerSaida
  BY <1>1, <1>13 DEF LerConcluidas, LerEntradas, LerSaida, banco, auxiliares
<1>14. CASE UNCHANGED vars
  BY <1>1, <1>14 DEF vars, banco, leitura, auxiliares
<1>. QED
  BY <1>2, <1>3, <1>4, <1>5, <1>6, <1>7, <1>8, <1>9, <1>10, <1>11, <1>12, <1>13, <1>14 DEF Next

(* A walk over the pages of the panel, while no order is written and no    *)
(* two of the same status share a dataCriacao, shows every order in        *)
(* progress exactly once, in the documented order, when it reaches the     *)
(* page the total announces as the last.                                   *)
THEOREM PercursoSempreCompleto == Spec => []PercursoCompleto
<1>1. ConsultasTypeOK /\ PercursoInv => PercursoCompleto
  <2>. DEFINE n == Pular(painel)
              N == Cardinality(Ativas)
              L == painel.limite
              l == OrdensDa(painel.linhas)
              P == percurso \o l
  <2>. SUFFICES ASSUME ConsultasTypeOK, PercursoInv, PaginaPronta, quieta, SemEmpates,
                       painel.pagina >= TotalPaginas(painel)
                PROVE  Len(P) = N /\ \A i, j \in DOMAIN P : i < j => Antes(P[i], P[j])
    BY DEF PercursoCompleto, Percorridas, OrdensDa
  <2>1. /\ painel \in Painel /\ painel.passo = "lida" /\ painel.total = N /\ PercursoEmPostos
        /\ percurso \in Seq(Ordens)
    BY EmAndamento DEF PaginaPronta, ConsultasTypeOK, PercursoInv, PercursoEmPostos
  <2>2. painel.pagina \in Nat \ {0} /\ L \in Nat \ {0} /\ N \in Nat /\ n \in Nat
    BY <2>1, PularNatural, AtivasFinitas
  <2>3. painel.pagina >= (N + L - 1) \div L
    BY <2>1 DEF TotalPaginas
  <2>4. n + L >= N
    BY <2>2, <2>3, HaMaisPaginas DEF Pular
  <2>5. l \in Seq(Ordens) /\ Len(l) = Len(painel.linhas)
    BY <2>1, OrdensDasLinhas DEF Painel
  <2>6. Len(painel.linhas) = Restantes(n) /\ EmPostos(l, n) /\ Len(percurso) = n
        /\ EmPostos(percurso, 0) /\ n <= N
    BY <2>1 DEF PercursoEmPostos
  <2>7. Restantes(n) = N - n
    BY <2>2, <2>4 DEF Restantes
  <2>. HIDE DEF n, l
  <2>8. EmPostos(P, 0) /\ Len(P) = N /\ P \in Seq(Ordens)
    BY <2>1, <2>2, <2>5, <2>6, <2>7, EmPostosJuntos
  <2>9. DOMAIN P = 1..N
    BY <2>8, LenProperties
  <2>. HIDE DEF P, N
  <2>10. ASSUME NEW i \in 1..N, NEW j \in 1..N, i < j PROVE Antes(P[i], P[j])
    <3>1. P[i] \in Ativas /\ P[j] \in Ativas /\ Posto(P[i]) = i - 1 /\ Posto(P[j]) = j - 1
      BY <2>8, <2>9 DEF EmPostos
    <3>2. P[i] # P[j]
      BY <2>2, <2>10, <3>1
    <3>3. ASSUME Antes(P[j], P[i]) PROVE FALSE
      <4>. DEFINE A == {q \in Ativas : Antes(q, P[i])}
                  B == {q \in Ativas : Antes(q, P[j])}
      <4>1. B \subseteq A
        BY <3>1, <3>3, OrdemEstrita, AtivasFinitas
      <4>2. IsFiniteSet(A)
        BY AtivasFinitas, FS_Subset
      <4>. HIDE DEF A, B
      <4>3. Cardinality(B) <= Cardinality(A)
        BY <4>1, <4>2, FS_Subset
      <4>4. Cardinality(A) = i - 1 /\ Cardinality(B) = j - 1
        BY <3>1 DEF Posto, A, B
      <4>. QED  BY <2>2, <2>10, <4>3, <4>4
    <3>. QED  BY <3>1, <3>2, <3>3 DEF SemEmpates
  <2>. QED  BY <2>8, <2>9, <2>10
<1>2. ConsultasTypeOK /\ PaginaInv /\ PercursoInv /\ [Next]_vars => PaginaInv' /\ PercursoInv'
  BY PaginaPasso, PercursoPasso
<1>. QED
  BY <1>1, <1>2, ConsultasTipada, PaginaInicial, PercursoInicial, PTL DEF Spec

------------------------------------------------------------------------------
\* The trail, the metrics and the averages

LEMMA GrafoAvanca ==
    ASSUME NEW d, NEW p, <<d, p>> \in GrafoDocumentado
    PROVE  /\ d \in StatusOs /\ p \in StatusOs
           /\ Avanco(d) \in 0..5 /\ Avanco(p) \in 0..5 /\ Avanco(d) <= Avanco(p)
           /\ d \in Medidas \/ p \in Medidas => Avanco(d) < Avanco(p)
           /\ d \in Terminais => p \in Terminais /\ p # "FINALIZADA"
<1>1. d \in StatusOs /\ p \in StatusOs
  BY DEF GrafoDocumentado
<1>2. PICK op \in OperacoesOs : TransicaoPermitida(op, d, p)
  BY DEF GrafoDocumentado
<1>3. \/ d = "RECEBIDA" /\ p \in {"EM_DIAGNOSTICO", "AGUARDANDO_APROVACAO"}
      \/ d = "EM_DIAGNOSTICO" /\ p = "AGUARDANDO_APROVACAO"
      \/ d = "AGUARDANDO_APROVACAO" /\ p \in {"AGUARDANDO_APROVACAO", "EM_EXECUCAO", "REJEITADA"}
      \/ d = "EM_EXECUCAO" /\ p = "FINALIZADA"
      \/ d = "FINALIZADA" /\ p = "ENTREGUE"
  <2>1. CASE <<d, p>> \in TransicoesWebhook
    BY <2>1 DEF TransicoesWebhook
  <2>2. CASE <<op, d, p>> \in TransicoesDiretas
    BY <2>2 DEF TransicoesDiretas, StatusParaGerarOrcamento
  <2>. QED  BY <1>2, <2>1, <2>2 DEF TransicaoPermitida
<1>. QED
  BY <1>1, <1>3 DEF Avanco, Medidas, Terminais

LEMMA AvancoNatural == \A s : Avanco(s) \in 0..5
  BY DEF Avanco

\* The history of an order says nothing new while nothing of it changes but
\* the end of the requests that move it.
LEMMA HistoriaParada ==
    ASSUME NEW o, HistoriaCoerente(o),
           status'[o] = status[o], concluida'[o] = concluida[o], criada'[o] = criada[o],
           TrilhaDe(o)' = TrilhaDe(o),
           MovendoA(o)' \subseteq MovendoA(o),
           \A r \in MovendoA(o)' : fase'[r] = fase[r] /\ mudanca'[r] = mudanca[r],
           \A e \in emitidas' : e.os = o => e \in emitidas
    PROVE  HistoriaCoerente(o)'
<1>1. \A r, q \in MovendoA(o)' : r = q
  BY DEF HistoriaCoerente
<1>2. ASSUME NEW r \in MovendoA(o)' PROVE MudancaCoerente(o, r)'
  <2>1. MudancaCoerente(o, r) /\ fase'[r] = fase[r] /\ mudanca'[r] = mudanca[r]
    BY <1>2 DEF HistoriaCoerente
  <2>. QED  BY <2>1 DEF MudancaCoerente
<1>3. TrilhaCoerente(o)'
  BY DEF HistoriaCoerente, TrilhaCoerente
<1>4. ASSUME NEW e \in emitidas', e.os = o PROVE e.fase \in Medidas /\ MetricaCoerente(o, e)'
  <2>1. e.fase \in Medidas /\ MetricaCoerente(o, e)
    BY <1>4 DEF HistoriaCoerente
  <2>. QED  BY <2>1 DEF MetricaCoerente, Duracao
<1>. QED
  BY <1>1, <1>2, <1>3, <1>4 DEF HistoriaCoerente

LEMMA HistoriaInicial == Init => HistoriaInv
  BY CriacoesAssumption DEF Init, HistoriaInv, HistoriaCoerente, MovendoA, TrilhaCoerente, TrilhaDe

\* A request begins: it is alone on the order, and has read its status.
LEMMA HistoriaPedir ==
    ASSUME ConsultasTypeOK, HistoriaInv, NEW r \in Pedidos, NEW o \in Ordens, NEW para \in StatusOs,
           Pedir(r, o, para), NEW p \in Ordens, p \notin sobrepostas'
    PROVE  HistoriaCoerente(p)'
<1>. DEFINE m == [os |-> o, de |-> status[o], para |-> para, em |-> agora]
<1>1. /\ fase' = [fase EXCEPT ![r] = "gravar"] /\ mudanca' = [mudanca EXCEPT ![r] = m]
      /\ fase[r] = "livre" /\ <<status[o], para>> \in GrafoDocumentado
      /\ UNCHANGED <<status, criada, concluida, historico, emitidas>>
      /\ p \notin sobrepostas
  BY DEF Pedir, banco
<1>2. m.os = o /\ m.de = status[o] /\ m.para = para /\ m.em = agora
  OBVIOUS
<1>. HIDE DEF m
<1>3. HistoriaCoerente(p) /\ TrilhaDe(p)' = TrilhaDe(p) /\ agora >= 1
  BY <1>1 DEF HistoriaInv, TrilhaDe
<1>4. fase'[r] = "gravar" /\ mudanca'[r] = m /\ \A q \in Pedidos \ {r} : fase'[q] = fase[q] /\ mudanca'[q] = mudanca[q]
  BY <1>1 DEF ConsultasTypeOK
<1>5. CASE p # o
  <2>1. MovendoA(p)' \subseteq MovendoA(p) /\ r \notin MovendoA(p)'
    BY <1>1, <1>2, <1>4, <1>5 DEF MovendoA
  <2>2. \A q \in MovendoA(p)' : fase'[q] = fase[q] /\ mudanca'[q] = mudanca[q]
    BY <1>4, <2>1 DEF MovendoA
  <2>. QED  BY <1>1, <1>3, <2>1, <2>2, HistoriaParada
<1>6. CASE p = o
  <2>1. \A q \in Pedidos \ {r} : fase[q] = "livre" \/ mudanca[q].os # o
    BY <1>1, <1>6 DEF Pedir
  <2>2. MovendoA(o)' \subseteq {r}
    BY <1>4, <2>1 DEF MovendoA
  <2>3. MudancaCoerente(o, r)'
    BY <1>1, <1>2, <1>3, <1>4 DEF MudancaCoerente
  <2>4. TrilhaCoerente(o)'
    BY <1>1, <1>3, <1>6 DEF HistoriaCoerente, TrilhaCoerente
  <2>5. ASSUME NEW e \in emitidas', e.os = o PROVE e.fase \in Medidas /\ MetricaCoerente(o, e)'
    <3>1. e.fase \in Medidas /\ MetricaCoerente(o, e)
      BY <1>1, <1>3, <1>6, <2>5 DEF HistoriaCoerente
    <3>2. \A q \in MovendoA(o)' : fase'[q] # "inserir"
      BY <1>4, <2>2
    <3>. QED  BY <1>1, <1>3, <1>6, <3>1, <3>2 DEF MetricaCoerente, Duracao
  <2>. QED  BY <1>6, <2>2, <2>3, <2>4, <2>5 DEF HistoriaCoerente
<1>. QED
  BY <1>5, <1>6

\* Another order than the one a request moves: nothing of it changes.
LEMMA HistoriaAlheia ==
    ASSUME ConsultasTypeOK, NEW r \in Pedidos, NEW o \in Ordens, HistoriaCoerente(o),
           fase[r] # "livre", mudanca[r].os # o,
           fase'[r] = "livre" \/ mudanca'[r].os = mudanca[r].os,
           \A q \in Pedidos \ {r} : fase'[q] = fase[q] /\ mudanca'[q] = mudanca[q],
           status'[o] = status[o], concluida'[o] = concluida[o], criada' = criada,
           TrilhaDe(o)' = TrilhaDe(o),
           \A e \in emitidas' : e.os = o => e \in emitidas
    PROVE  HistoriaCoerente(o)'
<1>1. MovendoA(o)' \subseteq MovendoA(o) /\ r \notin MovendoA(o)'
  BY DEF MovendoA
<1>2. \A q \in MovendoA(o)' : fase'[q] = fase[q] /\ mudanca'[q] = mudanca[q]
  BY <1>1 DEF MovendoA
<1>. QED
  BY <1>1, <1>2, HistoriaParada

\* A request on an order of its own is alone on it.
LEMMA Sozinha ==
    ASSUME NEW o, HistoriaCoerente(o), NEW r \in Pedidos, fase[r] # "livre", mudanca[r].os = o
    PROVE  /\ MovendoA(o) = {r} /\ MudancaCoerente(o, r) /\ TrilhaCoerente(o)
           /\ <<mudanca[r].de, mudanca[r].para>> \in GrafoDocumentado
<1>1. r \in MovendoA(o)
  BY DEF MovendoA
<1>. QED
  BY <1>1 DEF HistoriaCoerente, MudancaCoerente

LEMMA HistoriaGravar ==
    ASSUME ConsultasTypeOK, HistoriaInv, NEW r \in Pedidos, Gravar(r),
           NEW o \in Ordens, o \notin sobrepostas'
    PROVE  HistoriaCoerente(o)'
<1>. DEFINE m == mudanca[r]
            n == [m EXCEPT !.em = agora]
<1>1. m \in Mudanca /\ m.os \in Ordens /\ m.em \in Nat /\ agora \in Nat /\ agora \in Instantes
  BY EmAndamento, InstantesNaturais DEF Gravar, Mudanca, ConsultasTypeOK
<1>2. /\ fase' = [fase EXCEPT ![r] = "buscar"] /\ mudanca' = [mudanca EXCEPT ![r] = n]
      /\ status' = [status EXCEPT ![m.os] = m.para] /\ fase[r] = "gravar"
      /\ UNCHANGED <<criada, historico, emitidas, sobrepostas>>
      /\ IF m.para = "FINALIZADA"
         THEN \E t \in m.em..agora : concluida' = [concluida EXCEPT ![m.os] = t]
         ELSE concluida' = concluida
  BY DEF Gravar
<1>3. n.os = m.os /\ n.de = m.de /\ n.para = m.para /\ n.em = agora
  BY <1>1, ComRelogio
<1>. HIDE DEF m, n
<1>4. HistoriaCoerente(o) /\ TrilhaDe(o)' = TrilhaDe(o)
  BY <1>2 DEF HistoriaInv, TrilhaDe
<1>5. fase'[r] = "buscar" /\ mudanca'[r] = n
      /\ \A q \in Pedidos \ {r} : fase'[q] = fase[q] /\ mudanca'[q] = mudanca[q]
  BY <1>2 DEF ConsultasTypeOK
<1>6. CASE m.os # o
  <2>1. status'[o] = status[o] /\ concluida'[o] = concluida[o]
    BY <1>2, <1>6 DEF ConsultasTypeOK
  <2>. QED  BY <1>2, <1>3, <1>4, <1>5, <1>6, <2>1, HistoriaAlheia DEF m
<1>7. CASE m.os = o
  <2>1. /\ MovendoA(o) = {r} /\ MudancaCoerente(o, r) /\ TrilhaCoerente(o)
        /\ <<m.de, m.para>> \in GrafoDocumentado
    BY <1>2, <1>4, <1>7, Sozinha DEF m
  <2>2. m.de = status[o] /\ m.em >= 1
    BY <1>2, <2>1 DEF MudancaCoerente, m
  <2>3. status'[o] = m.para
    BY <1>2, <1>7 DEF ConsultasTypeOK
  <2>4. /\ Avanco(m.de) \in 0..5 /\ Avanco(m.para) \in 0..5 /\ Avanco(m.de) <= Avanco(m.para)
        /\ m.de \in Medidas \/ m.para \in Medidas => Avanco(m.de) < Avanco(m.para)
    BY <2>1, GrafoAvanca
  <2>5. ASSUME NEW h \in TrilhaDe(o)
        PROVE  /\ m.de \in Medidas => h.de # m.de
               /\ m.para \in Medidas => h.para # m.para
               /\ Avanco(h.para) <= Avanco(m.para)
    <3>1. <<h.de, h.para>> \in GrafoDocumentado /\ Avanco(h.para) <= Avanco(m.de)
      BY <2>1, <2>2 DEF TrilhaCoerente
    <3>2. /\ Avanco(h.de) \in 0..5 /\ Avanco(h.para) \in 0..5
          /\ h.de \in Medidas \/ h.para \in Medidas => Avanco(h.de) < Avanco(h.para)
      BY <3>1, GrafoAvanca
    <3>. QED  BY <2>4, <3>1, <3>2
  <2>6. m.para = "FINALIZADA" => concluida'[o] \in criada[o]..agora
    <3>. SUFFICES ASSUME m.para = "FINALIZADA" PROVE concluida'[o] \in criada[o]..agora
      OBVIOUS
    <3>1. PICK t \in m.em..agora : concluida' = [concluida EXCEPT ![o] = t]
      BY <1>2, <1>7
    <3>2. concluida'[o] = t
      BY <3>1 DEF ConsultasTypeOK
    <3>3. criada[o] \in Int /\ criada[o] <= 1
      BY DEF HistoriaInv, ConsultasTypeOK
    <3>. QED  BY <1>1, <2>2, <3>2, <3>3
  <2>7. MovendoA(o)' = {r}
    <3>1. \A q \in Pedidos \ {r} : q \notin MovendoA(o)'
      BY <1>5, <2>1 DEF MovendoA
    <3>2. r \in MovendoA(o)'
      BY <1>3, <1>5, <1>7 DEF MovendoA
    <3>. QED  BY <3>1, <3>2 DEF MovendoA
  <2>8. MudancaCoerente(o, r)'
    <3>1. \A e \in emitidas' : e.os = o => e.fase # m.de
      <4>1. \A e \in emitidas : e.os = o => Avanco(e.fase) < Avanco(m.de)
        BY <1>4, <2>2 DEF HistoriaCoerente, MetricaCoerente
      <4>2. \A e : ~(Avanco(e) < Avanco(e))
        BY AvancoNatural
      <4>. QED  BY <1>2, <4>1, <4>2
    <3>2. \A h \in TrilhaDe(o)' : (m.de \in Medidas => h.de # m.de) /\ (m.para \in Medidas => h.para # m.para)
      BY <1>4, <2>5
    <3>3. criada' = criada
      BY <1>2
    <3>. QED  BY <1>3, <1>5, <2>1, <2>3, <2>6, <3>1, <3>2, <3>3 DEF MudancaCoerente
  <2>9. TrilhaCoerente(o)'
    <3>1. ASSUME NEW h \in TrilhaDe(o)'
          PROVE  /\ <<h.de, h.para>> \in GrafoDocumentado
                 /\ Avanco(h.para) <= Avanco(status'[o])
                 /\ h.para = "FINALIZADA" => concluida'[o] \in criada'[o]..h.em
      <4>1. h \in TrilhaDe(o) /\ <<h.de, h.para>> \in GrafoDocumentado
            /\ (h.para = "FINALIZADA" => concluida[o] \in criada[o]..h.em)
        BY <1>4, <2>1, <3>1 DEF TrilhaCoerente
      <4>2. h.para = "FINALIZADA" => m.para # "FINALIZADA"
        BY <2>5, <4>1 DEF Medidas
      <4>. QED  BY <1>2, <2>3, <2>5, <4>1, <4>2
    <3>. QED  BY <1>4, <2>1, <3>1 DEF TrilhaCoerente
  <2>10. ASSUME NEW e \in emitidas', e.os = o PROVE e.fase \in Medidas /\ MetricaCoerente(o, e)'
    <3>1. e.fase \in Medidas /\ MetricaCoerente(o, e)
      BY <1>2, <1>4, <2>10 DEF HistoriaCoerente
    <3>2. Avanco(e.fase) < Avanco(status'[o])
      BY <2>2, <2>3, <2>4, <3>1, AvancoNatural DEF MetricaCoerente
    <3>3. \A q \in MovendoA(o)' : fase'[q] # "inserir"
      BY <1>5, <2>7
    <3>. QED  BY <1>4, <3>1, <3>2, <3>3 DEF MetricaCoerente, Duracao
  <2>. QED  BY <1>7, <2>7, <2>8, <2>9, <2>10 DEF HistoriaCoerente
<1>. QED
  BY <1>6, <1>7

LEMMA HistoriaBuscar ==
    ASSUME ConsultasTypeOK, HistoriaInv, NEW r \in Pedidos, Buscar(r),
           NEW o \in Ordens, o \notin sobrepostas'
    PROVE  HistoriaCoerente(o)'
<1>. DEFINE m == mudanca[r]
            entradas == {h \in historico : h.os = m.os /\ h.para = m.de}
            ultimas == {h \in entradas : \A k \in entradas : k.em <= h.em}
<1>1. m \in Mudanca /\ m.os \in Ordens /\ m.em \in Nat /\ m.em \in Instantes
      /\ agora \in Nat /\ agora \in Instantes
  BY EmAndamento, InstantesNaturais DEF Buscar, Mudanca, ConsultasTypeOK
<1>2. PICK t \in m.em..agora :
        /\ mudanca' = [mudanca EXCEPT ![r].em = t]
        /\ emitidas' = emitidas \cup
              {[os |-> m.os, fase |-> m.de, duracao |-> IF t > h.em THEN t - h.em ELSE 0] :
                  h \in {k \in ultimas : m.de \in {FaseMedida[i] : i \in 1..3}}}
  BY DEF Buscar
<1>. DEFINE n == [m EXCEPT !.em = t]
<1>3. /\ fase' = [fase EXCEPT ![r] = "inserir"] /\ mudanca' = [mudanca EXCEPT ![r] = n]
      /\ fase[r] = "buscar"
      /\ UNCHANGED <<status, criada, concluida, historico, sobrepostas>>
  BY <1>2 DEF Buscar, banco, auxiliares
<1>4. t \in Instantes /\ n.os = m.os /\ n.de = m.de /\ n.para = m.para /\ n.em = t
  <2>1. t \in Instantes
    BY <1>1, InstantesNaturais
  <2>. QED  BY <1>1, <2>1, ComRelogio
<1>5. ASSUME NEW e \in emitidas', e \notin emitidas
      PROVE  e.os = m.os /\ e.fase = m.de /\ m.de \in Medidas
             /\ \E h \in historico : /\ h.os = m.os /\ h.para = m.de
                                     /\ e.duracao = IF t > h.em THEN t - h.em ELSE 0
  <2>1. PICK h \in {k \in ultimas : m.de \in {FaseMedida[i] : i \in 1..3}} :
          e = [os |-> m.os, fase |-> m.de, duracao |-> IF t > h.em THEN t - h.em ELSE 0]
    BY <1>2, <1>5
  <2>2. h \in historico /\ h.os = m.os /\ h.para = m.de
    BY <2>1
  <2>3. m.de \in Medidas
    <3>1. PICK i \in 1..3 : m.de = FaseMedida[i]
      BY <2>1
    <3>. QED  BY <3>1 DEF FaseMedida, Medidas
  <2>. HIDE DEF m, ultimas
  <2>. QED  BY <2>1, <2>2, <2>3
<1>. HIDE DEF m, n, ultimas
<1>6. HistoriaCoerente(o) /\ TrilhaDe(o)' = TrilhaDe(o)
  BY <1>3 DEF HistoriaInv, TrilhaDe
<1>7. fase'[r] = "inserir" /\ mudanca'[r] = n
      /\ \A q \in Pedidos \ {r} : fase'[q] = fase[q] /\ mudanca'[q] = mudanca[q]
  BY <1>3 DEF ConsultasTypeOK
<1>8. CASE m.os # o
  <2>1. \A e \in emitidas' : e.os = o => e \in emitidas
    BY <1>5, <1>8
  <2>. QED  BY <1>3, <1>4, <1>6, <1>7, <1>8, <2>1, HistoriaAlheia DEF m
<1>9. CASE m.os = o
  <2>1. /\ MovendoA(o) = {r} /\ MudancaCoerente(o, r) /\ TrilhaCoerente(o)
        /\ <<m.de, m.para>> \in GrafoDocumentado
    BY <1>3, <1>6, <1>9, Sozinha DEF m
  <2>2. /\ m.para = status[o]
        /\ m.para = "FINALIZADA" => concluida[o] \in criada[o]..m.em
        /\ \A h \in TrilhaDe(o) : /\ m.de \in Medidas => h.de # m.de
                                  /\ m.para \in Medidas => h.para # m.para
        /\ \A e \in emitidas : e.os = o => e.fase # m.de
    BY <1>3, <2>1 DEF MudancaCoerente, m
  <2>3. MovendoA(o)' = {r}
    <3>1. \A q \in Pedidos \ {r} : q \notin MovendoA(o)'
      BY <1>7, <2>1 DEF MovendoA
    <3>2. r \in MovendoA(o)'
      BY <1>4, <1>7, <1>9 DEF MovendoA
    <3>. QED  BY <3>1, <3>2 DEF MovendoA
  <2>4. MudancaCoerente(o, r)'
    <3>1. m.para = "FINALIZADA" => concluida[o] \in criada[o]..t
      <4>1. criada[o] \in Int
        BY DEF ConsultasTypeOK
      <4>. QED  BY <1>1, <2>2, <4>1
    <3>. QED  BY <1>3, <1>4, <1>6, <1>7, <2>1, <2>2, <3>1 DEF MudancaCoerente
  <2>5. TrilhaCoerente(o)'
    BY <1>3, <1>6, <2>1 DEF TrilhaCoerente
  <2>6. ASSUME NEW e \in emitidas', e.os = o PROVE e.fase \in Medidas /\ MetricaCoerente(o, e)'
    <3>1. CASE e \in emitidas
      <4>1. e.fase \in Medidas /\ MetricaCoerente(o, e) /\ e.fase # m.de
        BY <1>6, <2>2, <2>6, <3>1 DEF HistoriaCoerente
      <4>2. \A q \in MovendoA(o)' : mudanca'[q].de # e.fase
        BY <1>4, <1>7, <2>3, <4>1
      <4>. QED  BY <1>3, <1>6, <4>1, <4>2 DEF MetricaCoerente, Duracao
    <3>2. CASE e \notin emitidas
      <4>1. e.fase = m.de /\ m.de \in Medidas
        BY <1>5, <2>6, <3>2
      <4>2. PICK h \in historico : /\ h.os = m.os /\ h.para = m.de
                                   /\ e.duracao = IF t > h.em THEN t - h.em ELSE 0
        BY <1>5, <2>6, <3>2
      <4>3. Avanco(e.fase) < Avanco(status'[o])
        BY <1>3, <2>1, <2>2, <4>1, GrafoAvanca
      <4>4. \A b \in TrilhaDe(o)' : b.de # e.fase
        BY <1>6, <2>2, <4>1
      <4>5. ASSUME NEW a \in TrilhaDe(o)', a.para = e.fase
            PROVE  \A q \in MovendoA(o)' : e.duracao = Duracao(a, mudanca[q])'
        <5>1. h \in TrilhaDe(o) /\ a \in TrilhaDe(o)
          BY <1>6, <1>9, <4>2, <4>5 DEF TrilhaDe
        <5>2. a = h
          BY <2>1, <4>1, <4>2, <4>5, <5>1 DEF TrilhaCoerente
        <5>3. e.duracao = IF n.em > a.em THEN n.em - a.em ELSE 0
          BY <1>4, <4>2, <5>2
        <5>. QED  BY <1>7, <2>3, <5>3 DEF Duracao
      <4>. QED  BY <4>1, <4>3, <4>4, <4>5 DEF MetricaCoerente
    <3>. QED  BY <3>1, <3>2
  <2>. QED  BY <1>9, <2>3, <2>4, <2>5, <2>6 DEF HistoriaCoerente
<1>. QED
  BY <1>8, <1>9

LEMMA HistoriaInserir ==
    ASSUME ConsultasTypeOK, HistoriaInv, NEW r \in Pedidos, Inserir(r),
           NEW o \in Ordens, o \notin sobrepostas'
    PROVE  HistoriaCoerente(o)'
<1>. DEFINE m == mudanca[r]
<1>1. /\ fase' = [fase EXCEPT ![r] = "livre"] /\ mudanca' = [mudanca EXCEPT ![r] = SemMudanca]
      /\ fase[r] = "inserir" /\ historico' = historico \cup {m}
      /\ UNCHANGED <<status, criada, concluida, sobrepostas, emitidas>>
  BY DEF Inserir, Livre, auxiliares
<1>2. fase'[r] = "livre"
      /\ \A q \in Pedidos \ {r} : fase'[q] = fase[q] /\ mudanca'[q] = mudanca[q]
  BY <1>1 DEF ConsultasTypeOK
<1>. HIDE DEF m
<1>3. HistoriaCoerente(o)
  BY <1>1 DEF HistoriaInv
<1>4. CASE m.os # o
  <2>1. TrilhaDe(o)' = TrilhaDe(o)
    BY <1>1, <1>4 DEF TrilhaDe
  <2>. QED  BY <1>1, <1>2, <1>3, <1>4, <2>1, HistoriaAlheia DEF m
<1>5. CASE m.os = o
  <2>1. /\ MovendoA(o) = {r} /\ MudancaCoerente(o, r) /\ TrilhaCoerente(o)
        /\ <<m.de, m.para>> \in GrafoDocumentado
    BY <1>1, <1>3, <1>5, Sozinha DEF m
  <2>2. /\ m.para = status[o]
        /\ m.para = "FINALIZADA" => concluida[o] \in criada[o]..m.em
        /\ \A h \in TrilhaDe(o) : /\ m.de \in Medidas => h.de # m.de
                                  /\ m.para \in Medidas => h.para # m.para
    BY <1>1, <2>1 DEF MudancaCoerente, m
  <2>3. TrilhaDe(o)' = TrilhaDe(o) \cup {m}
    BY <1>1, <1>5 DEF TrilhaDe
  <2>4. MovendoA(o)' = {}
    BY <1>2, <2>1 DEF MovendoA
  <2>5. TrilhaCoerente(o)'
    <3>1. ASSUME NEW h \in TrilhaDe(o)'
          PROVE  /\ <<h.de, h.para>> \in GrafoDocumentado
                 /\ Avanco(h.para) <= Avanco(status'[o])
                 /\ h.para = "FINALIZADA" => concluida'[o] \in criada'[o]..h.em
      <4>1. CASE h = m
        BY <1>1, <2>1, <2>2, <4>1, AvancoNatural
      <4>2. CASE h \in TrilhaDe(o)
        BY <1>1, <2>1, <4>2 DEF TrilhaCoerente
      <4>. QED  BY <2>3, <4>1, <4>2
    <3>2. ASSUME NEW a \in TrilhaDe(o)', NEW b \in TrilhaDe(o)',
                 (a.para \in Medidas /\ b.para = a.para) \/ (a.de \in Medidas /\ b.de = a.de)
          PROVE  a = b
      <4>1. CASE a \in TrilhaDe(o) /\ b \in TrilhaDe(o)
        BY <2>1, <3>2, <4>1 DEF TrilhaCoerente
      <4>. QED  BY <2>2, <2>3, <3>2, <4>1
    <3>. QED  BY <3>1, <3>2 DEF TrilhaCoerente
  <2>6. ASSUME NEW e \in emitidas', e.os = o PROVE e.fase \in Medidas /\ MetricaCoerente(o, e)'
    <3>1. e.fase \in Medidas /\ MetricaCoerente(o, e)
      BY <1>1, <1>3, <2>6 DEF HistoriaCoerente
    <3>2. Avanco(e.fase) < Avanco(status[o])
      BY <3>1 DEF MetricaCoerente
    <3>3. ASSUME NEW a \in TrilhaDe(o)', a.para = e.fase, NEW b \in TrilhaDe(o)', b.de = e.fase
          PROVE  e.duracao = Duracao(a, b)
      <4>1. a # m
        BY <2>2, <3>2, <3>3, AvancoNatural
      <4>2. a \in TrilhaDe(o)
        BY <2>3, <4>1
      <4>3. CASE b \in TrilhaDe(o)
        BY <3>1, <3>3, <4>2, <4>3 DEF MetricaCoerente
      <4>4. CASE b = m
        BY <1>1, <2>1, <3>1, <3>3, <4>2, <4>4 DEF MetricaCoerente, m
      <4>. QED  BY <2>3, <4>3, <4>4
    <3>4. Avanco(e.fase) < Avanco(status'[o])
      BY <1>1, <3>2
    <3>. QED  BY <2>4, <3>1, <3>3, <3>4 DEF MetricaCoerente
  <2>. QED  BY <2>4, <2>5, <2>6 DEF HistoriaCoerente
<1>. QED
  BY <1>4, <1>5

LEMMA HistoriaPasso ==
    ASSUME ConsultasTypeOK, HistoriaInv, [Next]_vars
    PROVE  HistoriaInv'
<1>1. CASE UNCHANGED <<status, criada, concluida, historico, fase, mudanca, emitidas, sobrepostas>>
           /\ agora' >= agora /\ agora' \in Nat
  <2>1. ASSUME NEW o \in Ordens, o \notin sobrepostas' PROVE HistoriaCoerente(o)'
    <3>1. HistoriaCoerente(o) /\ TrilhaDe(o)' = TrilhaDe(o) /\ MovendoA(o)' = MovendoA(o)
      BY <1>1, <2>1 DEF HistoriaInv, TrilhaDe, MovendoA
    <3>. QED  BY <1>1, <3>1, HistoriaParada
  <2>2. agora' >= 1
    BY <1>1, InstantesNaturais DEF HistoriaInv, ConsultasTypeOK
  <2>. QED  BY <1>1, <2>1, <2>2 DEF HistoriaInv
<1>2. ASSUME UNCHANGED <<agora, criada>>,
             \A o \in Ordens : o \notin sobrepostas' => HistoriaCoerente(o)'
      PROVE  HistoriaInv'
  BY <1>2 DEF HistoriaInv
<1>3. agora \in Nat
  BY InstantesNaturais DEF ConsultasTypeOK
<1>4. CASE Passar
  BY <1>1, <1>3, <1>4, InstantesNaturais DEF Passar, emVoo, auxiliares
<1>5. ASSUME NEW r \in Pedidos, NEW o \in Ordens, NEW para \in StatusOs, Pedir(r, o, para)
      PROVE  HistoriaInv'
  BY <1>2, <1>5, HistoriaPedir DEF Pedir, banco
<1>6. ASSUME NEW r \in Pedidos, Gravar(r) PROVE HistoriaInv'
  BY <1>2, <1>6, HistoriaGravar DEF Gravar
<1>7. ASSUME NEW r \in Pedidos, Buscar(r) PROVE HistoriaInv'
  BY <1>2, <1>7, HistoriaBuscar DEF Buscar, banco
<1>8. ASSUME NEW r \in Pedidos, Inserir(r) PROVE HistoriaInv'
  BY <1>2, <1>8, HistoriaInserir DEF Inserir
<1>9. ASSUME NEW r \in Pedidos, Cortar(r) PROVE HistoriaInv'
  <2>1. /\ fase' = [fase EXCEPT ![r] = "livre"] /\ mudanca' = [mudanca EXCEPT ![r] = SemMudanca]
        /\ UNCHANGED <<status, criada, concluida, historico, agora, sobrepostas, emitidas>>
    BY <1>9 DEF Cortar, Livre, auxiliares, banco
  <2>2. ASSUME NEW o \in Ordens, o \notin sobrepostas' PROVE HistoriaCoerente(o)'
    <3>1. HistoriaCoerente(o) /\ TrilhaDe(o)' = TrilhaDe(o)
      BY <2>1, <2>2 DEF HistoriaInv, TrilhaDe
    <3>2. fase'[r] = "livre"
          /\ \A q \in Pedidos \ {r} : fase'[q] = fase[q] /\ mudanca'[q] = mudanca[q]
      BY <2>1 DEF ConsultasTypeOK
    <3>3. MovendoA(o)' \subseteq MovendoA(o)
          /\ \A q \in MovendoA(o)' : fase'[q] = fase[q] /\ mudanca'[q] = mudanca[q]
      BY <3>2 DEF MovendoA
    <3>. QED  BY <2>1, <3>1, <3>3, HistoriaParada
  <2>. QED  BY <1>2, <2>1, <2>2
<1>10. ASSUME NEW limite \in Limites, PedirPainel(limite) PROVE HistoriaInv'
  BY <1>1, <1>3, <1>10 DEF PedirPainel, banco, emVoo
<1>11. CASE LerIds \/ LerLinhas \/ Contar \/ ProximaPagina
  <2>1. UNCHANGED <<banco, emVoo, emitidas, sobrepostas>>
    BY <1>11 DEF LerIds, LerLinhas, Contar, ProximaPagina, auxiliares
  <2>. QED  BY <1>1, <1>3, <2>1 DEF banco, emVoo
<1>12. CASE PedirMedias \/ LerConcluidas \/ LerEntradas \/ LerSaida \/ Responder
  <2>1. UNCHANGED <<banco, emVoo, emitidas, sobrepostas>>
    BY <1>12 DEF PedirMedias, LerConcluidas, LerEntradas, LerSaida, Responder, auxiliares
  <2>. QED  BY <1>1, <1>3, <2>1 DEF banco, emVoo
<1>13. CASE UNCHANGED vars
  BY <1>1, <1>3, <1>13 DEF vars, banco, emVoo, auxiliares
<1>. QED
  BY <1>4, <1>5, <1>6, <1>7, <1>8, <1>9, <1>10, <1>11, <1>12, <1>13 DEF Next

LEMMA MediasParada ==
    ASSUME MediasInv, UNCHANGED <<consulta, medias, criada>>,
           historico \subseteq historico', sobrepostas \subseteq sobrepostas',
           \A x \in medias.concluidas : x.os \notin sobrepostas' /\ status[x.os] \in Terminais =>
               status'[x.os] \in Terminais /\ concluida'[x.os] = concluida[x.os]
    PROVE  MediasInv'
<1>. SUFFICES ASSUME consulta = "medias" PROVE MediasInv'
  BY DEF MediasInv
<1>. DEFINE f == FaseMedida[medias.fase]
<1>1. /\ medias.entradas \subseteq historico /\ medias.trilha \subseteq historico
      /\ medias.fase > 0 =>
            /\ \A h \in medias.entradas : h.para = f
            /\ \A m \in medias.estadias : \E a, b \in historico :
                  /\ a.os = m.os /\ a.para = f /\ a.em = m.de
                  /\ b.os = m.os /\ b.de = f /\ b.em = m.ate
                  /\ m.de < m.ate
            /\ \A a, b \in medias.trilha :
                  /\ a.os \notin sobrepostas /\ a.os = b.os
                  /\ a.para = f /\ b.de = f /\ a.em < b.em
                  => a \in medias.entradas \/ Estadia(a, b) \in medias.estadias
      /\ medias.fase = 0 => medias.entradas = {}
      /\ \A m \in medias.concluidas : m.os \notin sobrepostas =>
            /\ status[m.os] \in Terminais
            /\ m.minutos = concluida[m.os] - criada[m.os]
  BY DEF MediasInv
<1>2. medias' = medias /\ criada' = criada /\ f' = f
  OBVIOUS
<1>. HIDE DEF f
<1>3. \A m \in medias'.concluidas : m.os \notin sobrepostas' =>
            /\ status'[m.os] \in Terminais
            /\ m.minutos = concluida'[m.os] - criada'[m.os]
  BY <1>1, <1>2
<1>4. medias'.fase > 0 =>
            /\ \A h \in medias'.entradas : h.para = f'
            /\ \A m \in medias'.estadias : \E a, b \in historico' :
                  /\ a.os = m.os /\ a.para = f' /\ a.em = m.de
                  /\ b.os = m.os /\ b.de = f' /\ b.em = m.ate
                  /\ m.de < m.ate
  BY <1>1, <1>2
<1>5. medias'.fase > 0 =>
            \A a, b \in medias'.trilha :
                  /\ a.os \notin sobrepostas' /\ a.os = b.os
                  /\ a.para = f' /\ b.de = f' /\ a.em < b.em
                  => a \in medias'.entradas \/ Estadia(a, b) \in medias'.estadias
  BY <1>1, <1>2 DEF Estadia
<1>6. medias'.entradas \subseteq historico' /\ medias'.trilha \subseteq historico'
      /\ (medias'.fase = 0 => medias'.entradas = {})
  BY <1>1, <1>2
<1>. QED
  BY <1>3, <1>4, <1>5, <1>6 DEF MediasInv, f, Estadia

LEMMA FaseMedidaDe ==
    \A i \in 1..3 : FaseMedida[i] \in Medidas
  BY DEF FaseMedida, Medidas

LEMMA MediasIniciais == Init => MediasInv
  BY DEF Init, MediasInv

LEMMA MediasPasso ==
    ASSUME ConsultasTypeOK, HistoriaInv, MediasInv, [Next]_vars
    PROVE  MediasInv'
<1>1. CASE UNCHANGED <<consulta, medias, status, criada, concluida, historico, sobrepostas>>
  BY <1>1, MediasParada
<1>2. CASE consulta' # "medias"
  BY <1>2 DEF MediasInv
<1>3. ASSUME NEW r \in Pedidos, NEW o \in Ordens, NEW para \in StatusOs, Pedir(r, o, para)
      PROVE  MediasInv'
  BY <1>3, MediasParada DEF Pedir, banco, leitura
<1>4. ASSUME NEW r \in Pedidos, Gravar(r), consulta = "medias" PROVE MediasInv'
  <2>. DEFINE m == mudanca[r]
  <2>1. m \in Mudanca /\ m.os \in Ordens /\ medias \in Medias
    BY <1>4, EmAndamento DEF Gravar, Mudanca
  <2>2. /\ status' = [status EXCEPT ![m.os] = m.para] /\ fase[r] = "gravar"
        /\ UNCHANGED <<criada, historico, consulta, medias, sobrepostas>>
        /\ IF m.para = "FINALIZADA"
           THEN \E t \in m.em..agora : concluida' = [concluida EXCEPT ![m.os] = t]
           ELSE concluida' = concluida
    BY <1>4 DEF Gravar, leitura
  <2>. HIDE DEF m
  <2>3. ASSUME NEW x \in medias.concluidas, x.os \notin sobrepostas', status[x.os] \in Terminais
        PROVE  status'[x.os] \in Terminais /\ concluida'[x.os] = concluida[x.os]
    <3>1. x.os \in Ordens
      BY <2>1, <2>3 DEF Medias
    <3>2. CASE x.os # m.os
      BY <2>1, <2>2, <2>3, <3>1, <3>2 DEF ConsultasTypeOK
    <3>3. CASE x.os = m.os
      <4>1. HistoriaCoerente(m.os)
        BY <2>1, <2>2, <2>3, <3>3 DEF HistoriaInv
      <4>2. MudancaCoerente(m.os, r) /\ <<m.de, m.para>> \in GrafoDocumentado
        BY <2>2, <4>1, Sozinha DEF m
      <4>3. m.de = status[m.os]
        BY <2>2, <4>2 DEF MudancaCoerente, m
      <4>4. m.para \in Terminais /\ m.para # "FINALIZADA"
        BY <2>3, <3>3, <4>2, <4>3, GrafoAvanca
      <4>5. status'[m.os] = m.para
        BY <2>1, <2>2 DEF ConsultasTypeOK
      <4>. QED  BY <2>2, <3>3, <4>4, <4>5
    <3>. QED  BY <3>2, <3>3
  <2>. QED  BY <2>2, <2>3, MediasParada
<1>5. ASSUME NEW r \in Pedidos, Gravar(r), consulta # "medias" PROVE MediasInv'
  BY <1>2, <1>5 DEF Gravar, leitura
<1>6. ASSUME NEW r \in Pedidos, Inserir(r) PROVE MediasInv'
  BY <1>6, MediasParada DEF Inserir, leitura, auxiliares
<1>7. CASE PedirMedias
  <2>1. medias' = MediasPedidas
    BY <1>7 DEF PedirMedias
  <2>. QED  BY <2>1 DEF MediasInv, MediasPedidas
<1>8. CASE LerConcluidas
  <2>. DEFINE C == {[os |-> o, minutos |-> concluida[o] - criada[o]] :
                       o \in {q \in Ordens : status[q] \in Terminais /\ concluida[q] # Nunca}}
  <2>1. /\ medias' = [medias EXCEPT !.passo = "lidas", !.concluidas = C] /\ consulta = "medias"
        /\ UNCHANGED <<status, criada, concluida, historico, sobrepostas, consulta>>
        /\ medias \in Medias
    BY <1>8, EmAndamento DEF LerConcluidas, banco, auxiliares
  <2>2. \A x \in C : status[x.os] \in Terminais /\ x.minutos = concluida[x.os] - criada[x.os]
    OBVIOUS
  <2>. HIDE DEF C
  <2>3. /\ medias'.concluidas = C /\ medias'.fase = medias.fase /\ medias'.entradas = medias.entradas
        /\ medias'.trilha = medias.trilha /\ medias'.estadias = medias.estadias
    BY <2>1 DEF Medias
  <2>4. FaseMedida[medias.fase]' = FaseMedida[medias.fase]
    BY <2>3
  <2>. QED  BY <2>1, <2>2, <2>3, <2>4 DEF MediasInv, Estadia
<1>9. CASE LerEntradas
  <2>. DEFINE f == FaseMedida[medias.fase + 1]
              E == {h \in historico : h.para = f}
              T == TrilhaDa(f)
  <2>1. /\ medias' = [medias EXCEPT !.fase = @ + 1, !.estadias = {}, !.trilha = T, !.entradas = E]
        /\ UNCHANGED <<status, criada, concluida, historico, sobrepostas, consulta>>
        /\ medias \in Medias /\ consulta = "medias"
    BY <1>9, EmAndamento DEF LerEntradas, banco, auxiliares
  <2>2. /\ E \subseteq historico /\ T \subseteq historico
        /\ \A h \in E : h.para = f
        /\ \A a \in T : a.para = f => a \in E
    BY DEF TrilhaDa
  <2>3. \A x \in medias.concluidas : x.os \notin sobrepostas =>
            status[x.os] \in Terminais /\ x.minutos = concluida[x.os] - criada[x.os]
    BY <2>1 DEF MediasInv
  <2>. HIDE DEF E, T
  <2>4. /\ medias'.fase = medias.fase + 1 /\ medias'.estadias = {} /\ medias'.trilha = T
        /\ medias'.entradas = E /\ medias'.concluidas = medias.concluidas
    BY <2>1 DEF Medias
  <2>5. FaseMedida[medias.fase]' = f /\ medias'.fase # 0
    BY <2>1, <2>4 DEF Medias, FaseMedida
  <2>. HIDE DEF f
  <2>6. /\ medias'.entradas \subseteq historico' /\ medias'.trilha \subseteq historico'
        /\ \A h \in medias'.entradas : h.para = f
        /\ \A a \in medias'.trilha : a.para = f => a \in medias'.entradas
    BY <2>1, <2>2, <2>4
  <2>7. \A x \in medias'.concluidas : x.os \notin sobrepostas' =>
            status'[x.os] \in Terminais /\ x.minutos = concluida'[x.os] - criada'[x.os]
    BY <2>1, <2>3, <2>4
  <2>8. medias'.estadias = {}
    BY <2>4
  <2>. QED  BY <2>5, <2>6, <2>7, <2>8 DEF MediasInv
<1>10. CASE LerSaida
  <2>1. PICK e \in Primeiras(medias.entradas) :
          medias' = [medias EXCEPT !.entradas = @ \ {e},
                                   !.estadias = @ \cup {Estadia(e, s) : s \in Primeiras(Saidas(e))}]
    BY <1>10 DEF LerSaida
  <2>. DEFINE X == {Estadia(e, s) : s \in Primeiras(Saidas(e))}
              f == FaseMedida[medias.fase]
  <2>2. /\ UNCHANGED <<status, criada, concluida, historico, sobrepostas, consulta>>
        /\ medias \in Medias /\ consulta = "medias"
    BY <1>10, EmAndamento DEF LerSaida, banco, auxiliares
  <2>3. e \in medias.entradas
    BY DEF Primeiras
  <2>4. medias.fase \in 1..3 /\ e.para = f /\ e \in historico /\ f \in Medidas
    <3>1. medias.fase \in 0..3 /\ medias.fase # 0
      BY <2>2, <2>3 DEF Medias, MediasInv
    <3>2. medias.fase \in 1..3
      BY <3>1
    <3>. QED  BY <2>2, <2>3, <3>2, FaseMedidaDe DEF MediasInv
  <2>. HIDE DEF f
  <2>5. ASSUME NEW x \in X
        PROVE  \E a, b \in historico :
                  /\ a.os = x.os /\ a.para = f /\ a.em = x.de
                  /\ b.os = x.os /\ b.de = f /\ b.em = x.ate
                  /\ x.de < x.ate
    <3>1. PICK s \in Primeiras(Saidas(e)) : x = Estadia(e, s)
      BY <2>5
    <3>2. s \in historico /\ s.os = e.os /\ s.de = e.para /\ s.em > e.em
      BY DEF Primeiras, Saidas
    <3>3. x.os = e.os /\ x.de = e.em /\ x.ate = s.em
      BY <3>1 DEF Estadia
    <3>4. e \in Linha /\ s \in Linha
      BY <2>4, <3>2 DEF ConsultasTypeOK
    <3>5. e.em < s.em
      BY <3>2, <3>4, InstantesNaturais DEF Linha
    <3>. QED  BY <2>4, <3>2, <3>3, <3>5
  <2>6. ASSUME NEW b \in historico, e.os \notin sobrepostas, b.os = e.os, b.de = f, e.em < b.em
        PROVE  Estadia(e, b) \in X
    <3>1. e \in Linha /\ b \in Linha
      BY <2>4 DEF ConsultasTypeOK
    <3>2. b \in Saidas(e)
      BY <2>4, <2>6, <3>1, InstantesNaturais DEF Saidas, Linha
    <3>3. TrilhaCoerente(e.os)
      BY <2>6, <3>1 DEF HistoriaInv, HistoriaCoerente, Linha
    <3>4. ASSUME NEW k \in Saidas(e) PROVE k = b
      <4>1. k \in TrilhaDe(e.os) /\ b \in TrilhaDe(e.os) /\ k.de = f
        BY <2>4, <2>6 DEF Saidas, TrilhaDe
      <4>. QED  BY <2>4, <2>6, <3>3, <4>1 DEF TrilhaCoerente
    <3>5. b.em \in Nat
      BY <3>1, InstantesNaturais DEF Linha
    <3>6. b.em <= b.em
      BY <3>5
    <3>7. b \in Primeiras(Saidas(e))
      BY <3>2, <3>4, <3>6 DEF Primeiras
    <3>. QED  BY <3>7
  <2>7. medias' = [medias EXCEPT !.entradas = @ \ {e}, !.estadias = @ \cup X]
    BY <2>1
  <2>. HIDE DEF X
  <2>8. /\ medias'.entradas = medias.entradas \ {e} /\ medias'.estadias = medias.estadias \cup X
        /\ medias'.fase = medias.fase /\ medias'.trilha = medias.trilha
        /\ medias'.concluidas = medias.concluidas
    BY <2>2, <2>7 DEF Medias
  <2>9. FaseMedida[medias.fase]' = f
    BY <2>8 DEF f
  <2>10. /\ medias.entradas \subseteq historico /\ medias.trilha \subseteq historico
         /\ \A h \in medias.entradas : h.para = f
         /\ \A m \in medias.estadias : \E a, b \in historico :
               /\ a.os = m.os /\ a.para = f /\ a.em = m.de
               /\ b.os = m.os /\ b.de = f /\ b.em = m.ate
               /\ m.de < m.ate
         /\ \A a, b \in medias.trilha :
               /\ a.os \notin sobrepostas /\ a.os = b.os
               /\ a.para = f /\ b.de = f /\ a.em < b.em
               => a \in medias.entradas \/ Estadia(a, b) \in medias.estadias
         /\ \A x \in medias.concluidas : x.os \notin sobrepostas =>
               status[x.os] \in Terminais /\ x.minutos = concluida[x.os] - criada[x.os]
    BY <2>2, <2>4 DEF MediasInv, f
  <2>11. ASSUME NEW a \in medias'.trilha, NEW b \in medias'.trilha,
                a.os \notin sobrepostas', a.os = b.os, a.para = f, b.de = f, a.em < b.em
         PROVE  a \in medias'.entradas \/ Estadia(a, b) \in medias'.estadias
    <3>1. a \in medias.trilha /\ b \in medias.trilha /\ b \in historico /\ a.os \notin sobrepostas
      BY <2>2, <2>8, <2>10, <2>11
    <3>2. CASE a = e
      BY <2>6, <2>8, <2>11, <3>1, <3>2
    <3>3. CASE a # e
      BY <2>8, <2>10, <2>11, <3>1, <3>3
    <3>. QED  BY <3>2, <3>3
  <2>12. \A m \in medias'.estadias : \E a, b \in historico' :
            /\ a.os = m.os /\ a.para = f /\ a.em = m.de
            /\ b.os = m.os /\ b.de = f /\ b.em = m.ate
            /\ m.de < m.ate
    <3>1. historico' = historico
      BY <2>2
    <3>. QED  BY <2>5, <2>8, <2>10, <3>1
  <2>13. /\ medias'.entradas \subseteq historico' /\ medias'.trilha \subseteq historico'
         /\ \A h \in medias'.entradas : h.para = f
         /\ medias'.fase # 0
         /\ \A x \in medias'.concluidas : x.os \notin sobrepostas' =>
               status'[x.os] \in Terminais /\ x.minutos = concluida'[x.os] - criada'[x.os]
    BY <2>2, <2>4, <2>8, <2>10
  <2>. QED  BY <2>9, <2>11, <2>12, <2>13 DEF MediasInv, Estadia
<1>11. CASE Passar
  BY <1>1, <1>11 DEF Passar, leitura, auxiliares
<1>12. ASSUME NEW r \in Pedidos, Buscar(r) \/ Cortar(r) PROVE MediasInv'
  <2>1. UNCHANGED <<banco, leitura, sobrepostas>>
    BY <1>12 DEF Buscar, Cortar, auxiliares
  <2>. QED  BY <1>1, <2>1 DEF banco, leitura
<1>13. ASSUME NEW limite \in Limites, PedirPainel(limite) PROVE MediasInv'
  BY <1>2, <1>13 DEF PedirPainel
<1>14. CASE LerIds \/ LerLinhas \/ Contar \/ ProximaPagina
  <2>1. consulta' = consulta /\ consulta = "painel"
    BY <1>14 DEF LerIds, LerLinhas, Contar, ProximaPagina, PaginaPronta
  <2>. QED  BY <1>2, <2>1
<1>15. CASE Responder
  BY <1>2, <1>15 DEF Responder
<1>16. CASE UNCHANGED vars
  BY <1>1, <1>16 DEF vars, banco, leitura, auxiliares
<1>. QED
  BY <1>3, <1>4, <1>5, <1>6, <1>7, <1>8, <1>9, <1>10, <1>11, <1>12, <1>13, <1>14, <1>15, <1>16
     DEF Next

(* The averages, over the orders no two requests overlapped on: what is    *)
(* counted are stays of one order, row to row, in the phase asked; every   *)
(* stay the trail held and that lasted is counted, with the duration its   *)
(* metric says; and a finished order's time is within its trail.           *)
THEOREM MediasSempreCoerentes == Spec => []MediasCoerentes
<1>1. ConsultasTypeOK /\ HistoriaInv /\ MediasInv => MediasCoerentes
  <2>. SUFFICES ASSUME ConsultasTypeOK, HistoriaInv, MediasInv PROVE MediasCoerentes
    OBVIOUS
  <2>. DEFINE f == FaseMedida[medias.fase]
  <2>1. ASSUME FasePronta, NEW m \in medias.estadias, m.os \notin sobrepostas
        PROVE  /\ \E a, b \in historico :
                     /\ a.os = m.os /\ a.para = f /\ a.em = m.de
                     /\ b.os = m.os /\ b.de = f /\ b.em = m.ate
               /\ \A e \in emitidas : e.os = m.os /\ e.fase = f => e.duracao = m.ate - m.de
    <3>1. PICK a \in historico, b \in historico :
             /\ a.os = m.os /\ a.para = f /\ a.em = m.de
             /\ b.os = m.os /\ b.de = f /\ b.em = m.ate
             /\ m.de < m.ate
      BY <2>1 DEF FasePronta, MediasInv
    <3>2. m.os \in Ordens /\ a \in TrilhaDe(m.os) /\ b \in TrilhaDe(m.os)
      <4>1. a \in Linha
        BY DEF ConsultasTypeOK
      <4>. QED  BY <3>1, <4>1 DEF Linha, TrilhaDe
    <3>3. HistoriaCoerente(m.os)
      BY <2>1, <3>2 DEF HistoriaInv
    <3>. HIDE DEF f
    <3>4. ASSUME NEW e \in emitidas, e.os = m.os, e.fase = f PROVE e.duracao = m.ate - m.de
      <4>1. e.duracao = Duracao(a, b)
        BY <3>1, <3>2, <3>3, <3>4 DEF HistoriaCoerente, MetricaCoerente
      <4>2. Duracao(a, b) = m.ate - m.de
        <5>1. a \in Linha /\ b \in Linha
          BY DEF ConsultasTypeOK
        <5>2. a.em \in Nat /\ b.em \in Nat
          BY <5>1, InstantesNaturais DEF Linha
        <5>. QED  BY <3>1, <5>2 DEF Duracao
      <4>. QED  BY <4>1, <4>2
    <3>. QED  BY <3>1, <3>4
  <2>2. ASSUME FasePronta, NEW a \in medias.trilha, NEW b \in medias.trilha,
               a.os \notin sobrepostas, a.os = b.os, a.para = f, b.de = f, a.em < b.em
        PROVE  Estadia(a, b) \in medias.estadias
    BY <2>2 DEF FasePronta, MediasInv
  <2>3. ASSUME consulta = "medias", NEW m \in medias.concluidas, NEW h \in historico,
               m.os \notin sobrepostas, h.os = m.os, h.para = "FINALIZADA"
        PROVE  m.minutos \in 0..(h.em - criada[m.os])
    <3>1. m.minutos = concluida[m.os] - criada[m.os]
      BY <2>3 DEF MediasInv
    <3>2. h \in Linha
      BY <2>3 DEF ConsultasTypeOK
    <3>3. m.os \in Ordens /\ h.em \in Nat /\ h \in TrilhaDe(m.os)
      BY <2>3, <3>2, InstantesNaturais DEF Linha, TrilhaDe
    <3>4. concluida[m.os] \in criada[m.os]..h.em
      BY <2>3, <3>3 DEF HistoriaInv, HistoriaCoerente, TrilhaCoerente
    <3>5. criada[m.os] \in Int
      BY <3>3 DEF ConsultasTypeOK
    <3>. QED  BY <3>1, <3>3, <3>4, <3>5
  <2>. HIDE DEF f
  <2>. QED  BY <2>1, <2>2, <2>3 DEF MediasCoerentes, f
<1>2. ConsultasTypeOK /\ HistoriaInv /\ MediasInv /\ [Next]_vars => HistoriaInv' /\ MediasInv'
  BY HistoriaPasso, MediasPasso
<1>. QED
  BY <1>1, <1>2, ConsultasTipada, HistoriaInicial, MediasIniciais, PTL DEF Spec

==============================================================================
