--------------------------- MODULE AberturaOsProofs ---------------------------
(***************************************************************************)
(* Proofs about AberturaOs: the types, and that no order is opened on a    *)
(* record that was inactive before its request arrived, for any number of  *)
(* requests and any interleaving with inactivations; and, for one request  *)
(* at a time, that no record an order in progress needs is inactive.       *)
(***************************************************************************)
EXTENDS AberturaOs, TLAPS

------------------------------------------------------------------------------
\* Type correctness

LEMMA InitAberturaTypeOK == Init => AberturaTypeOK
BY AberturaAssumption
   DEF Init, AberturaTypeOK, StatusOs, FasesDeAbertura, FasesDeInativacao

LEMMA EncerrarTipado ==
    ASSUME AberturaTypeOK, NEW r \in Pedidos, Encerrar(r),
           ativo' \in [Registros -> BOOLEAN], dados' \in [Ordens -> Dados \cup {SemDados}],
           criacao' \subseteq Ordens, UNCHANGED <<atendimento, pedidos>>
    PROVE  AberturaTypeOK'
BY DEF AberturaTypeOK, Encerrar, atendimento, FasesDeAbertura, FasesDeInativacao

LEMMA ChegarTipado ==
    ASSUME AberturaTypeOK, NEW r \in Pedidos, NEW f, NEW p, Chegar(r, f, p),
           \/ f \in FasesDeAbertura /\ p \in PedidoDeAbertura
           \/ f \in FasesDeInativacao /\ p \in PedidoDeInativacao
    PROVE  AberturaTypeOK'
<1>1. pedidos' \in 0..MaxPedidos
  BY AberturaAssumption DEF AberturaTypeOK, Chegar
<1>2. jaInativos' \in [Pedidos -> SUBSET Registros]
  BY DEF AberturaTypeOK, Chegar
<1>3. \A q \in Pedidos :
         /\ fase'[q] \in FasesDeAbertura => pedido'[q] \in PedidoDeAbertura
         /\ fase'[q] \in FasesDeInativacao => pedido'[q] \in PedidoDeInativacao
  BY DEF AberturaTypeOK, Chegar, FasesDeAbertura, FasesDeInativacao
<1>. QED
  BY <1>1, <1>2, <1>3 DEF AberturaTypeOK, Chegar, cadastro, atendimento

LEMMA PassoTipado ==
    ASSUME AberturaTypeOK, NEW r \in Pedidos, Passo(r)
    PROVE  AberturaTypeOK'
<1>1. ASSUME UNCHANGED <<cadastro, atendimento, pedidos>>, Encerrar(r)
      PROVE  AberturaTypeOK'
  BY <1>1, EncerrarTipado DEF AberturaTypeOK, cadastro
<1>2. CASE LerVeiculo(r)
  BY <1>1, <1>2 DEF LerVeiculo, Avancar, AberturaTypeOK, cadastro, atendimento,
                    FasesDeAbertura, FasesDeInativacao
<1>3. CASE LerServicos(r)
  <2>1. pedido[r].dados.servicos \subseteq Servicos
    BY <1>3 DEF LerServicos, AberturaTypeOK, FasesDeAbertura, PedidoDeAbertura, Dados
  <2>. QED
    BY <1>3, <2>1 DEF LerServicos, Avancar, AberturaTypeOK, cadastro, atendimento,
                      FasesDeAbertura, FasesDeInativacao
<1>4. CASE LerPecas(r)
  BY <1>1, <1>4 DEF LerPecas, Avancar, AberturaTypeOK, cadastro, atendimento,
                    FasesDeAbertura, FasesDeInativacao
<1>5. CASE Inserir(r)
  <2>1. pedido[r] \in PedidoDeAbertura
    BY <1>5 DEF Inserir, AberturaTypeOK, FasesDeAbertura
  <2>. QED
    BY <1>5, <2>1 DEF Inserir, Avancar, AberturaTypeOK, PedidoDeAbertura, atendimento,
                      FasesDeAbertura, FasesDeInativacao
<1>6. CASE AuditarCriacao(r)
  <2>1. pedido[r].os \in Ordens
    BY <1>6 DEF AuditarCriacao, AberturaTypeOK, FasesDeAbertura, PedidoDeAbertura
  <2>. QED
    BY <1>6, <2>1, EncerrarTipado DEF AuditarCriacao, AberturaTypeOK
<1>7. CASE ContarVinculos(r)
  BY <1>1, <1>7 DEF ContarVinculos, Avancar, AberturaTypeOK, cadastro, atendimento,
                    FasesDeAbertura, FasesDeInativacao
<1>8. CASE Inativar(r)
  BY <1>8, EncerrarTipado DEF Inativar, AberturaTypeOK
<1>. QED
  BY <1>2, <1>3, <1>4, <1>5, <1>6, <1>7, <1>8 DEF Passo

LEMMA NextAberturaTypeOK == AberturaTypeOK /\ [Next]_vars => AberturaTypeOK'
<1>. SUFFICES ASSUME AberturaTypeOK, [Next]_vars PROVE AberturaTypeOK'
  OBVIOUS
<1>1. ASSUME NEW r \in Pedidos, NEW o \in Ordens, NEW d \in Dados, Criar(r, o, d)
      PROVE  AberturaTypeOK'
  BY <1>1, ChegarTipado DEF Criar, FasesDeAbertura, PedidoDeAbertura
<1>2. ASSUME NEW r \in Pedidos, NEW x \in Registros, PedirInativacao(r, x)
      PROVE  AberturaTypeOK'
  BY <1>2, ChegarTipado DEF PedirInativacao, FasesDeInativacao, PedidoDeInativacao
<1>3. ASSUME NEW r \in Pedidos, Passo(r) PROVE AberturaTypeOK'
  BY <1>3, PassoTipado
<1>4. ASSUME NEW r \in Pedidos, Interromper(r) PROVE AberturaTypeOK'
  BY <1>4, EncerrarTipado DEF Interromper, AberturaTypeOK, cadastro
<1>5. ASSUME NEW o \in Ordens, Atender(o) PROVE AberturaTypeOK'
  BY <1>5 DEF Atender, Atendimento!Executar, Atendimento!Concluir, Atendimento!Entregar,
              Atendimento!Tramitar, AberturaTypeOK, StatusOs, cadastro, emVoo
<1>6. CASE UNCHANGED vars
  BY <1>6 DEF vars, cadastro, atendimento, emVoo, AberturaTypeOK
<1>. QED
  BY <1>1, <1>2, <1>3, <1>4, <1>5, <1>6 DEF Next

(* Every variable keeps its type, for every instance. *)
THEOREM AberturaTipada == Spec => []AberturaTypeOK
BY InitAberturaTypeOK, NextAberturaTypeOK, PTL DEF Spec

------------------------------------------------------------------------------
\* No order is opened on a record inactive before its request

LEMMA InitAberturaInv == Init => AberturaInv
BY DEF Init, AberturaInv, LeituraSemInativo, IdentidadeUnica, FasesDeAbertura

(* A step of request r that gives it no new order: the others keep what    *)
(* they read if no record is reactivated and no order of theirs written.   *)
LEMMA AberturaInvDoPasso ==
    ASSUME AberturaTypeOK, AberturaInv, NEW r \in Pedidos,
           \A q \in Pedidos \ {r} :
              UNCHANGED <<fase[q], pedido[q], servicosLidos[q], jaInativos[q]>>,
           fase'[r] \in FasesDeAbertura => fase[r] \in FasesDeAbertura /\ UNCHANGED pedido[r],
           \A x \in Registros : ativo'[x] => ativo[x],
           \A q \in Pedidos \ {r} :
              fase[q] = "auditar" => UNCHANGED dados[pedido[q].os],
           fase'[r] \in FasesDeAbertura =>
              LET d == pedido[r].dados
              IN  /\ \A x \in jaInativos'[r] : ~ativo'[x]
                  /\ d.cliente \notin jaInativos'[r]
                  /\ fase'[r] # "lerVeiculo" => d.veiculo \notin jaInativos'[r]
                  /\ fase'[r] = "lerPecas" => servicosLidos'[r] \cap jaInativos'[r] = {}
                  /\ fase'[r] \in {"inserir", "auditar"} =>
                        (d.servicos \cup d.pecas) \cap jaInativos'[r] = {}
                  /\ fase'[r] = "auditar" => dados'[pedido[r].os] = d
    PROVE  AberturaInv'
<1>1. LeituraSemInativo'
  <2>. SUFFICES ASSUME NEW q \in Pedidos, fase'[q] \in FasesDeAbertura
                PROVE  LET d == pedido'[q].dados
                       IN  /\ \A x \in jaInativos'[q] : ~ativo'[x]
                           /\ d.cliente \notin jaInativos'[q]
                           /\ fase'[q] # "lerVeiculo" => d.veiculo \notin jaInativos'[q]
                           /\ fase'[q] = "lerPecas" => servicosLidos'[q] \cap jaInativos'[q] = {}
                           /\ fase'[q] \in {"inserir", "auditar"} =>
                                 (d.servicos \cup d.pecas) \cap jaInativos'[q] = {}
                           /\ fase'[q] = "auditar" => dados'[pedido'[q].os] = d
    BY DEF LeituraSemInativo
  <2>1. CASE q = r
    BY <2>1
  <2>2. CASE q # r
    <3>1. UNCHANGED <<fase[q], pedido[q], servicosLidos[q], jaInativos[q]>>
      BY <2>2
    <3>2. jaInativos[q] \subseteq Registros
      BY DEF AberturaTypeOK
    <3>. QED
      BY <2>2, <3>1, <3>2 DEF AberturaInv, LeituraSemInativo
  <2>. QED  BY <2>1, <2>2
<1>2. IdentidadeUnica'
  <2>1. \A q \in Pedidos : fase'[q] \in FasesDeAbertura =>
            fase[q] \in FasesDeAbertura /\ UNCHANGED pedido[q]
    OBVIOUS
  <2>. QED
    BY <2>1 DEF AberturaInv, IdentidadeUnica
<1>. QED
  BY <1>1, <1>2 DEF AberturaInv

LEMMA CriarAberturaInv ==
    ASSUME AberturaTypeOK, AberturaInv, NEW r \in Pedidos, NEW o \in Ordens, NEW d \in Dados,
           Criar(r, o, d)
    PROVE  AberturaInv'
<1>1. /\ fase[r] = "livre" /\ fase'[r] = "lerVeiculo"
      /\ pedido'[r] = [os |-> o, dados |-> d]
      /\ jaInativos'[r] = {x \in Registros : ~ativo[x]}
      /\ UNCHANGED <<ativo, dados, servicosLidos>>
      /\ \A q \in Pedidos \ {r} : UNCHANGED <<fase[q], pedido[q], jaInativos[q]>>
      /\ ativo[d.cliente]
  BY DEF Criar, Chegar, AberturaTypeOK, cadastro
<1>2. \A q \in Pedidos \ {r} : fase[q] \in FasesDeAbertura => pedido[q].os # o
  BY DEF Criar
<1>3. LeituraSemInativo'
  BY <1>1 DEF AberturaInv, LeituraSemInativo
<1>4. IdentidadeUnica'
  BY <1>1, <1>2 DEF AberturaInv, IdentidadeUnica
<1>. QED
  BY <1>3, <1>4 DEF AberturaInv

LEMMA EncerrarAberturaInv ==
    ASSUME AberturaTypeOK, AberturaInv, NEW r \in Pedidos, Encerrar(r),
           \A x \in Registros : ativo'[x] => ativo[x],
           UNCHANGED dados
    PROVE  AberturaInv'
<1>1. fase'[r] \notin FasesDeAbertura
  BY DEF AberturaTypeOK, Encerrar, FasesDeAbertura
<1>2. \A q \in Pedidos \ {r} :
         UNCHANGED <<fase[q], pedido[q], servicosLidos[q], jaInativos[q]>>
  BY DEF AberturaTypeOK, Encerrar
<1>. QED
  BY <1>1, <1>2, AberturaInvDoPasso

LEMMA PassoAberturaInv ==
    ASSUME AberturaTypeOK, AberturaInv, NEW r \in Pedidos, Passo(r)
    PROVE  AberturaInv'
<1>. DEFINE d == pedido[r].dados
<1>1. CASE Encerrar(r) /\ UNCHANGED <<ativo, dados>>
  BY <1>1, EncerrarAberturaInv
<1>2. ASSUME NEW f, Avancar(r, f)
      PROVE  /\ fase'[r] = f /\ UNCHANGED <<pedido, jaInativos>>
             /\ \A q \in Pedidos \ {r} : UNCHANGED <<fase[q], pedido[q], jaInativos[q]>>
  BY <1>2 DEF Avancar, AberturaTypeOK
<1>3. fase[r] \in FasesDeAbertura => d \in Dados /\ d.servicos \subseteq Servicos
  BY DEF AberturaTypeOK, PedidoDeAbertura, Dados
<1>4. CASE LerVeiculo(r) /\ ~Encerrar(r)
  <2>1. /\ Avancar(r, "lerServicos") /\ ativo[d.veiculo] /\ fase[r] = "lerVeiculo"
        /\ UNCHANGED <<ativo, dados, servicosLidos>>
    BY <1>4 DEF LerVeiculo, cadastro
  <2>2. d.veiculo \notin jaInativos[r] /\ d.cliente \notin jaInativos[r]
        /\ \A x \in jaInativos[r] : ~ativo[x]
    BY <2>1 DEF AberturaInv, LeituraSemInativo, FasesDeAbertura
  <2>. QED
    BY <2>1, <2>2, <1>2, AberturaInvDoPasso DEF FasesDeAbertura
<1>5. CASE LerServicos(r)
  <2>1. /\ Avancar(r, "lerPecas") /\ fase[r] = "lerServicos"
        /\ servicosLidos'[r] = {s \in d.servicos : ativo[s]}
        /\ \A q \in Pedidos \ {r} : UNCHANGED servicosLidos[q]
        /\ UNCHANGED <<ativo, dados>>
    BY <1>5 DEF LerServicos, cadastro, AberturaTypeOK
  <2>2. d.veiculo \notin jaInativos[r] /\ d.cliente \notin jaInativos[r]
        /\ \A x \in jaInativos[r] : ~ativo[x]
    BY <2>1 DEF AberturaInv, LeituraSemInativo, FasesDeAbertura
  <2>3. servicosLidos'[r] \cap jaInativos[r] = {}
    BY <2>1, <2>2
  <2>. QED
    BY <2>1, <2>2, <2>3, <1>2, AberturaInvDoPasso DEF FasesDeAbertura
<1>6. CASE LerPecas(r) /\ ~Encerrar(r)
  <2>1. /\ Avancar(r, "inserir") /\ fase[r] = "lerPecas"
        /\ servicosLidos[r] = d.servicos /\ \A p \in d.pecas : ativo[p]
        /\ UNCHANGED <<ativo, dados, servicosLidos>>
    BY <1>6 DEF LerPecas, cadastro
  <2>2. /\ d.veiculo \notin jaInativos[r] /\ d.cliente \notin jaInativos[r]
        /\ \A x \in jaInativos[r] : ~ativo[x]
        /\ servicosLidos[r] \cap jaInativos[r] = {}
    BY <2>1 DEF AberturaInv, LeituraSemInativo, FasesDeAbertura
  <2>3. (d.servicos \cup d.pecas) \cap jaInativos[r] = {}
    BY <2>1, <2>2
  <2>. QED
    BY <2>1, <2>2, <2>3, <1>2, AberturaInvDoPasso DEF FasesDeAbertura
<1>7. CASE Inserir(r)
  <2>1. /\ Avancar(r, "auditar") /\ fase[r] = "inserir"
        /\ dados' = [dados EXCEPT ![pedido[r].os] = d]
        /\ UNCHANGED <<ativo, servicosLidos>>
    BY <1>7 DEF Inserir
  <2>2. pedido[r].os \in Ordens
    BY <2>1 DEF AberturaTypeOK, PedidoDeAbertura, FasesDeAbertura
  <2>3. dados'[pedido[r].os] = d
    BY <2>1, <2>2 DEF AberturaTypeOK
  <2>4. ASSUME NEW q \in Pedidos \ {r}, fase[q] = "auditar"
        PROVE  UNCHANGED dados[pedido[q].os]
    <3>1. pedido[q].os \in Ordens
      BY <2>4 DEF AberturaTypeOK, PedidoDeAbertura, FasesDeAbertura
    <3>2. pedido[q].os # pedido[r].os
      BY <2>1, <2>4 DEF AberturaInv, IdentidadeUnica, FasesDeAbertura
    <3>. QED
      BY <1>2, <2>1, <3>1, <3>2 DEF AberturaTypeOK
  <2>5. /\ d.veiculo \notin jaInativos[r] /\ d.cliente \notin jaInativos[r]
        /\ \A x \in jaInativos[r] : ~ativo[x]
        /\ (d.servicos \cup d.pecas) \cap jaInativos[r] = {}
    BY <2>1 DEF AberturaInv, LeituraSemInativo, FasesDeAbertura
  <2>. QED
    BY <2>1, <2>3, <2>4, <2>5, <1>2, AberturaInvDoPasso DEF FasesDeAbertura
<1>8. CASE ContarVinculos(r) /\ ~Encerrar(r)
  <2>1. Avancar(r, "inativar") /\ UNCHANGED <<ativo, dados, servicosLidos>>
    BY <1>8 DEF ContarVinculos, cadastro
  <2>. QED
    BY <2>1, <1>2, AberturaInvDoPasso DEF FasesDeAbertura
<1>9. CASE Inativar(r)
  <2>1. \A x \in Registros : ativo'[x] => ativo[x]
    BY <1>9 DEF Inativar, AberturaTypeOK
  <2>. QED
    BY <1>9, <2>1, EncerrarAberturaInv DEF Inativar
<1>. QED
  BY <1>1, <1>4, <1>5, <1>6, <1>7, <1>8, <1>9
     DEF Passo, LerVeiculo, LerPecas, AuditarCriacao, ContarVinculos, cadastro

LEMMA NextAberturaInv == AberturaTypeOK /\ AberturaInv /\ [Next]_vars => AberturaInv'
<1>. SUFFICES ASSUME AberturaTypeOK, AberturaInv, [Next]_vars PROVE AberturaInv'
  OBVIOUS
<1>1. ASSUME NEW r \in Pedidos, NEW o \in Ordens, NEW d \in Dados, Criar(r, o, d)
      PROVE  AberturaInv'
  BY <1>1, CriarAberturaInv
<1>2. ASSUME NEW r \in Pedidos, NEW x \in Registros, PedirInativacao(r, x)
      PROVE  AberturaInv'
  <2>1. /\ fase'[r] = "contar" /\ UNCHANGED <<ativo, dados, servicosLidos>>
        /\ \A q \in Pedidos \ {r} : UNCHANGED <<fase[q], pedido[q], jaInativos[q]>>
    BY <1>2 DEF PedirInativacao, Chegar, AberturaTypeOK, cadastro
  <2>. QED
    BY <2>1, AberturaInvDoPasso DEF FasesDeAbertura
<1>3. ASSUME NEW r \in Pedidos, Passo(r) PROVE AberturaInv'
  BY <1>3, PassoAberturaInv
<1>4. ASSUME NEW r \in Pedidos, Interromper(r) PROVE AberturaInv'
  BY <1>4, EncerrarAberturaInv DEF Interromper, cadastro
<1>5. ASSUME UNCHANGED <<cadastro, emVoo>> PROVE AberturaInv'
  BY <1>5 DEF cadastro, emVoo, AberturaInv, LeituraSemInativo, IdentidadeUnica
<1>6. ASSUME NEW o \in Ordens, Atender(o) PROVE AberturaInv'
  BY <1>5, <1>6 DEF Atender
<1>7. CASE UNCHANGED vars
  BY <1>5, <1>7 DEF vars
<1>. QED
  BY <1>1, <1>2, <1>3, <1>4, <1>6, <1>7 DEF Next

LEMMA AberturaInvImplica == AberturaInv => AberturaSemInativo
BY DEF AberturaInv, LeituraSemInativo, AberturaSemInativo, RegistrosDe, FasesDeAbertura

(* What each opening has read excludes what was inactive when it arrived,  *)
(* and no two requests open the same order.                                *)
THEOREM AberturaInvSempre == Spec => []AberturaInv
BY InitAberturaTypeOK, NextAberturaTypeOK, InitAberturaInv, NextAberturaInv, PTL DEF Spec

(* No order is opened on a record that was inactive when its request       *)
(* arrived, whatever is inactivated between the four reads of the request. *)
THEOREM AberturaSempreSemInativo == Spec => []AberturaSemInativo
BY AberturaInvSempre, AberturaInvImplica, PTL

------------------------------------------------------------------------------
\* Every order opened has its creation row when nothing is cut

(* A step that opens no order keeps every row, and keeps the request that  *)
(* is about to write one unless it writes it.                              *)
LEMMA CriacaoDoPasso ==
    ASSUME CriacaoNaTrilha, NEW r \in Pedidos,
           UNCHANGED dados, criacao \subseteq criacao',
           \A q \in Pedidos \ {r} : UNCHANGED <<fase[q], pedido[q]>>,
           fase[r] = "auditar" => pedido[r].os \in criacao'
    PROVE  CriacaoNaTrilha'
<1>. SUFFICES ASSUME NEW o \in Abertas, o \notin criacao'
              PROVE  \E q \in Pedidos : fase'[q] = "auditar" /\ pedido'[q].os = o
  BY DEF CriacaoNaTrilha, Abertas
<1>1. PICK q \in Pedidos : fase[q] = "auditar" /\ pedido[q].os = o
  BY DEF CriacaoNaTrilha
<1>. QED
  BY <1>1

LEMMA PassoCriacao ==
    ASSUME AberturaTypeOK, CriacaoNaTrilha, NEW r \in Pedidos, Passo(r)
    PROVE  CriacaoNaTrilha'
<1>1. ASSUME fase[r] # "auditar", UNCHANGED <<dados, criacao>>,
             \A q \in Pedidos \ {r} : UNCHANGED <<fase[q], pedido[q]>>
      PROVE  CriacaoNaTrilha'
  BY <1>1, CriacaoDoPasso
<1>2. Encerrar(r) \/ (\E f : Avancar(r, f)) =>
         \A q \in Pedidos \ {r} : UNCHANGED <<fase[q], pedido[q]>>
  BY DEF Encerrar, Avancar, AberturaTypeOK
<1>3. CASE LerVeiculo(r) \/ LerServicos(r) \/ LerPecas(r) \/ ContarVinculos(r) \/ Inativar(r)
  <2>1. fase[r] # "auditar" /\ UNCHANGED <<dados, criacao>>
    BY <1>3 DEF LerVeiculo, LerServicos, LerPecas, ContarVinculos, Inativar, cadastro
  <2>2. Encerrar(r) \/ \E f : Avancar(r, f)
    BY <1>3 DEF LerVeiculo, LerServicos, LerPecas, ContarVinculos, Inativar
  <2>. QED
    BY <1>1, <1>2, <2>1, <2>2
<1>4. CASE Inserir(r)
  <2>1. /\ dados' = [dados EXCEPT ![pedido[r].os] = pedido[r].dados]
        /\ fase[r] = "inserir" /\ Avancar(r, "auditar") /\ UNCHANGED criacao
    BY <1>4 DEF Inserir
  <2>2. fase'[r] = "auditar" /\ pedido'[r].os = pedido[r].os
        /\ \A q \in Pedidos \ {r} : UNCHANGED <<fase[q], pedido[q]>>
    BY <2>1 DEF Avancar, AberturaTypeOK
  <2>3. \A o \in Ordens : o # pedido[r].os => dados'[o] = dados[o]
    BY <2>1 DEF AberturaTypeOK
  <2>4. ASSUME NEW o \in Ordens, dados'[o] # SemDados, o \notin criacao', o # pedido[r].os
        PROVE  \E q \in Pedidos : fase'[q] = "auditar" /\ pedido'[q].os = o
    <3>1. PICK q \in Pedidos : fase[q] = "auditar" /\ pedido[q].os = o
      BY <2>1, <2>3, <2>4 DEF CriacaoNaTrilha, Abertas
    <3>. QED
      BY <2>1, <2>2, <3>1
  <2>. QED
    BY <2>2, <2>4 DEF CriacaoNaTrilha, Abertas
<1>5. CASE AuditarCriacao(r)
  BY <1>2, <1>5, CriacaoDoPasso DEF AuditarCriacao
<1>. QED
  BY <1>3, <1>4, <1>5 DEF Passo

LEMMA NextCriacao ==
    ASSUME ~Falhas
    PROVE  AberturaTypeOK /\ CriacaoNaTrilha /\ [Next]_vars => CriacaoNaTrilha'
<1>. SUFFICES ASSUME AberturaTypeOK, CriacaoNaTrilha, [Next]_vars PROVE CriacaoNaTrilha'
  OBVIOUS
<1>1. ASSUME NEW r \in Pedidos, NEW f, NEW p, Chegar(r, f, p) PROVE CriacaoNaTrilha'
  BY <1>1, CriacaoDoPasso DEF Chegar, AberturaTypeOK, cadastro
<1>2. ASSUME NEW r \in Pedidos, NEW o \in Ordens, NEW d \in Dados, Criar(r, o, d)
      PROVE  CriacaoNaTrilha'
  BY <1>1, <1>2 DEF Criar
<1>3. ASSUME NEW r \in Pedidos, NEW x \in Registros, PedirInativacao(r, x)
      PROVE  CriacaoNaTrilha'
  BY <1>1, <1>3 DEF PedirInativacao
<1>4. ASSUME NEW r \in Pedidos, Passo(r) PROVE CriacaoNaTrilha'
  BY <1>4, PassoCriacao
<1>5. ASSUME NEW r \in Pedidos, Interromper(r) PROVE FALSE
  BY <1>5 DEF Interromper
<1>6. ASSUME UNCHANGED <<cadastro, emVoo>> PROVE CriacaoNaTrilha'
  BY <1>6 DEF cadastro, emVoo, CriacaoNaTrilha, Abertas
<1>7. ASSUME NEW o \in Ordens, Atender(o) PROVE CriacaoNaTrilha'
  BY <1>6, <1>7 DEF Atender
<1>8. CASE UNCHANGED vars
  BY <1>6, <1>8 DEF vars
<1>. QED
  BY <1>2, <1>3, <1>4, <1>5, <1>7, <1>8 DEF Next

(* When no request is cut, every open order has its creation row or the    *)
(* request that opened it is about to write it.                            *)
THEOREM CriacaoSempreNaTrilha ==
    ASSUME ~Falhas
    PROVE  Spec => []CriacaoNaTrilha
<1>1. Init => CriacaoNaTrilha
  BY DEF Init, CriacaoNaTrilha, Abertas
<1>2. AberturaTypeOK /\ CriacaoNaTrilha /\ [Next]_vars => CriacaoNaTrilha'
  BY NextCriacao
<1>. QED
  BY <1>1, <1>2, AberturaTipada, PTL DEF Spec

------------------------------------------------------------------------------
\* One request at a time

NextSerial == Next /\ UmPorVez' /\ SemIntrusao

LEMMA SerialEhSpec == SpecSerial => Spec
BY PTL DEF SpecSerial, Spec

\* No record becomes inactive while an order uses it.
PassoSemBloqueio == \A x \in Registros : ativo[x] /\ ~ativo'[x] => ~EmUso(x)

(* No edge of the graph leaves a terminal status.                          *)
LEMMA TerminalNaoSai ==
    ASSUME NEW de, NEW para, <<de, para>> \in GrafoDocumentado
    PROVE  de \in StatusNaoTerminais
BY DEF GrafoDocumentado, TransicaoPermitida, TransicoesWebhook, TransicoesDiretas,
       StatusParaGerarOrcamento, StatusNaoTerminais, StatusOs

(* Alone in flight, a request that opens nothing and inactivates nothing.  *)
LEMMA SerialDoPasso ==
    ASSUME SerialInv, UmPorVez', NEW r \in Pedidos, UNCHANGED <<cadastro, atendimento>>,
           \A q \in Pedidos : fase'[q] # "livre" => q = r,
           fase'[r] # "livre" => LeituraVigente(r)'
    PROVE  SerialInv' /\ PassoSemBloqueio
<1>1. CadastroAtivoNaOs' /\ PassoSemBloqueio
  BY DEF SerialInv, CadastroAtivoNaOs, PassoSemBloqueio, Abertas, cadastro, atendimento
<1>2. \A q \in EmVoo' : LeituraVigente(q)'
  <2>. SUFFICES ASSUME NEW q \in EmVoo' PROVE LeituraVigente(q)'
    OBVIOUS
  <2>1. q \in Pedidos /\ fase'[q] # "livre" /\ q = r
    BY DEF EmVoo
  <2>. QED  BY <2>1
<1>. QED
  BY <1>1, <1>2 DEF SerialInv

LEMMA SozinhoAntes ==
    ASSUME UmPorVez, NEW r \in Pedidos, fase[r] # "livre",
           \A q \in Pedidos \ {r} : UNCHANGED fase[q]
    PROVE  \A q \in Pedidos : fase'[q] # "livre" => q = r
BY DEF UmPorVez, EmVoo

LEMMA SozinhoDepois ==
    ASSUME UmPorVez', NEW r \in Pedidos, fase'[r] # "livre"
    PROVE  \A q \in Pedidos : fase'[q] # "livre" => q = r
BY DEF UmPorVez, EmVoo

LEMMA ChegarSerial ==
    ASSUME AberturaTypeOK, SerialInv, UmPorVez', NEW r \in Pedidos,
           \/ \E o \in Ordens, d \in Dados : Criar(r, o, d)
           \/ \E x \in Registros : PedirInativacao(r, x)
    PROVE  SerialInv' /\ PassoSemBloqueio
<1>1. ASSUME NEW f, NEW p, Chegar(r, f, p)
      PROVE  /\ fase'[r] = f /\ pedido'[r] = p /\ UNCHANGED <<cadastro, atendimento>>
  BY <1>1 DEF Chegar, AberturaTypeOK
<1>2. ASSUME NEW o \in Ordens, NEW d \in Dados, Criar(r, o, d)
      PROVE  SerialInv' /\ PassoSemBloqueio
  <2>1. /\ fase'[r] = "lerVeiculo" /\ pedido'[r] = [os |-> o, dados |-> d]
        /\ UNCHANGED <<cadastro, atendimento>> /\ ativo[d.cliente]
    BY <1>1, <1>2 DEF Criar
  <2>2. LeituraVigente(r)'
    BY <2>1 DEF LeituraVigente, cadastro
  <2>. QED
    BY <2>1, <2>2, SozinhoDepois, SerialDoPasso
<1>3. ASSUME NEW x \in Registros, PedirInativacao(r, x)
      PROVE  SerialInv' /\ PassoSemBloqueio
  <2>1. fase'[r] = "contar" /\ UNCHANGED <<cadastro, atendimento>>
    BY <1>1, <1>3 DEF PedirInativacao
  <2>2. LeituraVigente(r)'
    BY <2>1 DEF LeituraVigente, FasesDeAbertura
  <2>. QED
    BY <2>1, <2>2, SozinhoDepois, SerialDoPasso
<1>. QED  BY <1>2, <1>3

LEMMA EncerrarSerial ==
    ASSUME AberturaTypeOK, SerialInv, UmPorVez', NEW r \in Pedidos, fase[r] # "livre",
           Encerrar(r), UNCHANGED <<cadastro, atendimento>>
    PROVE  SerialInv' /\ PassoSemBloqueio
<1>1. fase'[r] = "livre" /\ \A q \in Pedidos \ {r} : UNCHANGED fase[q]
  BY DEF Encerrar, AberturaTypeOK
<1>2. \A q \in Pedidos : fase'[q] # "livre" => q = r
  BY <1>1, SozinhoAntes DEF SerialInv
<1>. QED
  BY <1>1, <1>2, SerialDoPasso

(* The step that opens the order: all it refers to was read, and is active. *)
LEMMA InserirSerial ==
    ASSUME AberturaTypeOK, SerialInv, UmPorVez', NEW r \in Pedidos, Inserir(r)
    PROVE  SerialInv' /\ PassoSemBloqueio
<1>. DEFINE d == pedido[r].dados
            o == pedido[r].os
<1>1. /\ fase[r] = "inserir" /\ fase'[r] = "auditar"
      /\ dados' = [dados EXCEPT ![o] = d]
      /\ UNCHANGED <<ativo, status, pecas, pedido>>
      /\ \A q \in Pedidos \ {r} : UNCHANGED fase[q]
  BY DEF Inserir, Avancar, AberturaTypeOK, atendimento
<1>2. LeituraVigente(r) /\ o \in Ordens /\ d \in Dados
  BY <1>1 DEF SerialInv, EmVoo, AberturaTypeOK, PedidoDeAbertura, FasesDeAbertura
<1>3. ativo[d.cliente] /\ ativo[d.veiculo] /\ \A s \in d.servicos : ativo[s]
  BY <1>1, <1>2 DEF LeituraVigente, FasesDeAbertura
<1>4. \A w \in Ordens : dados'[w] = IF w = o THEN d ELSE dados[w]
  BY <1>1, <1>2 DEF AberturaTypeOK
<1>5. \A x \in RegistrosDe(d) \ Pecas : ativo[x]
  BY <1>2, <1>3 DEF RegistrosDe, Dados
<1>6. CadastroAtivoNaOs'
  <2>. SUFFICES ASSUME NEW w \in Ordens, dados'[w] # SemDados,
                       status[w] \in StatusNaoTerminais,
                       NEW x \in RegistrosDe(dados'[w]) \ Pecas
                PROVE  ativo[x]
    BY <1>1 DEF CadastroAtivoNaOs, Abertas, SemDados, RegistrosDe
  <2>1. CASE w = o
    BY <1>4, <1>5, <2>1
  <2>2. CASE w # o
    BY <1>4, <2>2 DEF SerialInv, CadastroAtivoNaOs, Abertas
  <2>. QED  BY <2>1, <2>2
<1>7. LeituraVigente(r)'
  BY <1>1, <1>3 DEF LeituraVigente, FasesDeAbertura
<1>8. \A q \in EmVoo' : q = r
  BY <1>1, SozinhoAntes DEF SerialInv, EmVoo
<1>9. PassoSemBloqueio
  BY <1>1 DEF PassoSemBloqueio
<1>. QED
  BY <1>6, <1>7, <1>8, <1>9 DEF SerialInv

(* The step that inactivates: no order counted since uses the record.      *)
LEMMA InativarSerial ==
    ASSUME AberturaTypeOK, SerialInv, UmPorVez', NEW r \in Pedidos, Inativar(r)
    PROVE  SerialInv' /\ PassoSemBloqueio
<1>. DEFINE x == pedido[r].registro
<1>1. /\ fase[r] = "inativar" /\ fase'[r] = "livre"
      /\ ativo' = [ativo EXCEPT ![x] = FALSE]
      /\ UNCHANGED <<dados, status>>
      /\ \A q \in Pedidos \ {r} : UNCHANGED fase[q]
  BY DEF Inativar, Encerrar, AberturaTypeOK, atendimento
<1>2. x \in Registros /\ ~EmUso(x)
  BY <1>1 DEF SerialInv, EmVoo, LeituraVigente, AberturaTypeOK, PedidoDeInativacao,
              FasesDeInativacao
<1>3. \A y \in Registros : ativo'[y] = (ativo[y] /\ y # x)
  BY <1>1, <1>2 DEF AberturaTypeOK
<1>4. PassoSemBloqueio
  BY <1>2, <1>3 DEF PassoSemBloqueio
<1>5. CadastroAtivoNaOs'
  <2>. SUFFICES ASSUME NEW w \in Abertas, status[w] \in StatusNaoTerminais,
                       NEW y \in RegistrosDe(dados[w]) \ Pecas
                PROVE  ativo'[y]
    BY <1>1 DEF CadastroAtivoNaOs, Abertas, SemDados, RegistrosDe
  <2>1. ativo[y]
    BY DEF SerialInv, CadastroAtivoNaOs
  <2>2. y \in Registros
    BY DEF Abertas, AberturaTypeOK, Dados, RegistrosDe, Registros
  <2>3. y # x
    BY <1>2 DEF EmUso, Vinculado
  <2>. QED  BY <1>3, <2>1, <2>2, <2>3
<1>6. EmVoo' = {}
  BY <1>1, SozinhoAntes DEF SerialInv, EmVoo
<1>. QED
  BY <1>4, <1>5, <1>6 DEF SerialInv

LEMMA PassoAberturaSerial ==
    ASSUME AberturaTypeOK, SerialInv, UmPorVez', NEW r \in Pedidos, Passo(r)
    PROVE  SerialInv' /\ PassoSemBloqueio
<1>. DEFINE d == pedido[r].dados
<1>0. fase[r] # "livre" /\ LeituraVigente(r)
  <2>1. fase[r] # "livre"
    BY DEF Passo, LerVeiculo, LerServicos, LerPecas, Inserir, AuditarCriacao,
           ContarVinculos, Inativar
  <2>. QED  BY <2>1 DEF SerialInv, EmVoo
<1>1. ASSUME NEW f, Avancar(r, f), UNCHANGED <<cadastro, atendimento>>,
             fase'[r] = f /\ UNCHANGED pedido => LeituraVigente(r)'
      PROVE  SerialInv' /\ PassoSemBloqueio
  <2>1. /\ fase'[r] = f /\ UNCHANGED pedido
        /\ \A q \in Pedidos \ {r} : UNCHANGED fase[q]
    BY <1>1 DEF Avancar, AberturaTypeOK
  <2>2. \A q \in Pedidos : fase'[q] # "livre" => q = r
    BY <1>0, <2>1, SozinhoAntes DEF SerialInv
  <2>. QED
    BY <1>1, <2>1, <2>2, SerialDoPasso
<1>2. ASSUME Encerrar(r), UNCHANGED <<cadastro, atendimento>>
      PROVE  SerialInv' /\ PassoSemBloqueio
  BY <1>0, <1>2, EncerrarSerial
<1>3. CASE LerVeiculo(r) /\ ~Encerrar(r)
  <2>1. /\ Avancar(r, "lerServicos") /\ ativo[d.veiculo] /\ fase[r] = "lerVeiculo"
        /\ UNCHANGED <<cadastro, atendimento, servicosLidos>>
    BY <1>3 DEF LerVeiculo
  <2>2. ativo[d.cliente]
    BY <1>0, <2>1 DEF LeituraVigente, FasesDeAbertura
  <2>3. fase'[r] = "lerServicos" /\ UNCHANGED pedido => LeituraVigente(r)'
    BY <2>1, <2>2 DEF LeituraVigente, cadastro
  <2>. QED  BY <1>1, <2>1, <2>3
<1>4. CASE LerServicos(r)
  <2>1. /\ Avancar(r, "lerPecas") /\ fase[r] = "lerServicos"
        /\ servicosLidos'[r] = {s \in d.servicos : ativo[s]}
        /\ UNCHANGED <<cadastro, atendimento>>
    BY <1>4 DEF LerServicos, AberturaTypeOK
  <2>2. ativo[d.cliente] /\ ativo[d.veiculo]
    BY <1>0, <2>1 DEF LeituraVigente, FasesDeAbertura
  <2>3. fase'[r] = "lerPecas" /\ UNCHANGED pedido => LeituraVigente(r)'
    BY <2>1, <2>2 DEF LeituraVigente, cadastro
  <2>. QED  BY <1>1, <2>1, <2>3
<1>5. CASE LerPecas(r) /\ ~Encerrar(r)
  <2>1. /\ Avancar(r, "inserir") /\ fase[r] = "lerPecas" /\ servicosLidos[r] = d.servicos
        /\ UNCHANGED <<cadastro, atendimento>>
    BY <1>5 DEF LerPecas
  <2>2. ativo[d.cliente] /\ ativo[d.veiculo] /\ \A s \in d.servicos : ativo[s]
    BY <1>0, <2>1 DEF LeituraVigente, FasesDeAbertura
  <2>3. fase'[r] = "inserir" /\ UNCHANGED pedido => LeituraVigente(r)'
    BY <2>1, <2>2 DEF LeituraVigente, cadastro
  <2>. QED  BY <1>1, <2>1, <2>3
<1>6. CASE ContarVinculos(r) /\ ~Encerrar(r)
  <2>1. /\ Avancar(r, "inativar") /\ ~EmUso(pedido[r].registro)
        /\ UNCHANGED <<cadastro, atendimento>>
    BY <1>6 DEF ContarVinculos
  <2>2. ASSUME UNCHANGED pedido PROVE ~EmUso(pedido[r].registro)'
    BY <2>1, <2>2 DEF EmUso, Abertas, Vinculado, RegistrosDe, SemDados, cadastro, atendimento
  <2>3. fase'[r] = "inativar" /\ UNCHANGED pedido => LeituraVigente(r)'
    BY <2>2 DEF LeituraVigente, FasesDeAbertura
  <2>. QED  BY <1>1, <2>1, <2>3
<1>7. CASE AuditarCriacao(r)
  <2>1. /\ Encerrar(r) /\ UNCHANGED <<ativo, dados, atendimento>>
    BY <1>7 DEF AuditarCriacao
  <2>2. fase'[r] = "livre" /\ \A q \in Pedidos \ {r} : UNCHANGED fase[q]
    BY <2>1 DEF Encerrar, AberturaTypeOK
  <2>3. EmVoo' = {}
    BY <1>0, <2>2, SozinhoAntes DEF SerialInv, EmVoo
  <2>4. CadastroAtivoNaOs' /\ PassoSemBloqueio
    BY <2>1 DEF SerialInv, CadastroAtivoNaOs, PassoSemBloqueio, Abertas, atendimento
  <2>. QED
    BY <2>3, <2>4 DEF SerialInv
<1>8. CASE Inserir(r)
  BY <1>8, InserirSerial
<1>9. CASE Inativar(r)
  BY <1>9, InativarSerial
<1>. QED
  BY <1>2, <1>3, <1>4, <1>5, <1>6, <1>7, <1>8, <1>9
     DEF Passo, LerVeiculo, LerPecas, ContarVinculos

(* A commit on an open order while nothing else is in flight.              *)
LEMMA AtenderSerial ==
    ASSUME AberturaTypeOK, SerialInv, SemIntrusao, UmPorVez', UNCHANGED <<cadastro, emVoo>>
    PROVE  SerialInv' /\ PassoSemBloqueio
<1>1. CadastroAtivoNaOs'
  <2>. SUFFICES ASSUME NEW w \in Abertas, status'[w] \in StatusNaoTerminais,
                       NEW y \in RegistrosDe(dados[w]) \ Pecas
                PROVE  ativo[y]
    BY DEF CadastroAtivoNaOs, Abertas, SemDados, RegistrosDe, cadastro
  <2>1. w \in Ordens
    BY DEF Abertas
  <2>2. status[w] \in StatusNaoTerminais
    BY <2>1, TerminalNaoSai DEF SemIntrusao
  <2>. QED
    BY <2>2 DEF SerialInv, CadastroAtivoNaOs
<1>2. EmVoo' = EmVoo
  BY DEF EmVoo, emVoo
<1>3. ASSUME NEW q \in EmVoo PROVE LeituraVigente(q)'
  <2>1. UNCHANGED <<cadastro, atendimento, emVoo>> /\ LeituraVigente(q)
    BY <1>3 DEF SemIntrusao, SerialInv
  <2>. QED
    BY <2>1 DEF LeituraVigente, EmUso, Abertas, Vinculado, RegistrosDe, SemDados,
                cadastro, atendimento, emVoo
<1>4. PassoSemBloqueio
  BY DEF PassoSemBloqueio, cadastro
<1>. QED
  BY <1>1, <1>2, <1>3, <1>4 DEF SerialInv

LEMMA NextSerialInv ==
    AberturaTypeOK /\ SerialInv /\ [NextSerial]_vars => SerialInv' /\ PassoSemBloqueio
<1>. SUFFICES ASSUME AberturaTypeOK, SerialInv, [NextSerial]_vars
              PROVE  SerialInv' /\ PassoSemBloqueio
  OBVIOUS
<1>1. CASE UNCHANGED vars
  BY <1>1, AtenderSerial
     DEF vars, SemIntrusao, atendimento, SerialInv, UmPorVez, EmVoo, emVoo
<1>. SUFFICES ASSUME Next, UmPorVez', SemIntrusao PROVE SerialInv' /\ PassoSemBloqueio
  BY <1>1 DEF NextSerial
<1>2. ASSUME NEW r \in Pedidos,
             \/ \E o \in Ordens, d \in Dados : Criar(r, o, d)
             \/ \E x \in Registros : PedirInativacao(r, x)
      PROVE  SerialInv' /\ PassoSemBloqueio
  BY <1>2, ChegarSerial
<1>3. ASSUME NEW r \in Pedidos, Passo(r) PROVE SerialInv' /\ PassoSemBloqueio
  BY <1>3, PassoAberturaSerial
<1>4. ASSUME NEW r \in Pedidos, Interromper(r) PROVE SerialInv' /\ PassoSemBloqueio
  BY <1>4, EncerrarSerial DEF Interromper
<1>5. ASSUME NEW o \in Ordens, Atender(o) PROVE SerialInv' /\ PassoSemBloqueio
  BY <1>5, AtenderSerial DEF Atender
<1>. QED
  BY <1>2, <1>3, <1>4, <1>5 DEF Next

LEMMA InitSerialInv == Init => SerialInv
BY DEF Init, SerialInv, UmPorVez, EmVoo, CadastroAtivoNaOs, Abertas

(* With one request at a time, what an opening has read is active when it  *)
(* inserts and what an inactivation counted as free is free when it writes. *)
THEOREM SerialInvSempre == SpecSerial => []SerialInv
<1>1. SpecSerial => Init /\ [][NextSerial]_vars
  BY PTL DEF SpecSerial, NextSerial
<1>. QED
  BY <1>1, SerialEhSpec, AberturaTipada, InitSerialInv, NextSerialInv, PTL

(* While requests are serial, client, vehicle and services of every order  *)
(* in progress are active.                                                 *)
THEOREM CadastroSempreAtivoNaOs == SpecSerial => []CadastroAtivoNaOs
<1>1. SerialInv => CadastroAtivoNaOs
  BY DEF SerialInv
<1>. QED
  BY <1>1, SerialInvSempre, PTL

(* While requests are serial, no record becomes inactive while an order    *)
(* in progress, or a reservation of the part, uses it.                     *)
THEOREM InativacaoSempreBloqueada == SpecSerial => InativacaoBloqueada
<1>1. SpecSerial => [][NextSerial]_vars
  BY PTL DEF SpecSerial, NextSerial
<1>2. AberturaTypeOK /\ SerialInv /\ [NextSerial]_vars => [PassoSemBloqueio]_vars
  BY NextSerialInv
<1>3. SpecSerial => [][PassoSemBloqueio]_vars
  BY <1>1, <1>2, SerialEhSpec, AberturaTipada, SerialInvSempre, PTL
<1>. QED
  BY <1>3 DEF InativacaoBloqueada, PassoSemBloqueio

==============================================================================
