----------------------------- MODULE SemeaduraProofs -----------------------------
(***************************************************************************)
(* Proofs about Cadastro and Semeadura together, for every number of       *)
(* requests, rows and executions of the seed: the types; that the unique   *)
(* index only refuses what was written meanwhile; that vehicles and        *)
(* updates miss nothing but that; and that the seed, cut anywhere and run  *)
(* again over whatever the requests did, leaves coherent orders.           *)
(***************************************************************************)
EXTENDS Semeadura, TLAPS

------------------------------------------------------------------------------
\* The inductive invariant of the requests

Cadastrando == {"buscarPlaca", "inserir"}
Alterando == {"buscarEmail", "contar", "gravar"}

\* The row of a registration is nobody else's, and none of the seed's; the
\* row of an update or an inactivation exists; only users get another key.
AlvoCerto ==
    \A r \in Pedidos :
        /\ pedido[r].dono \in Clientes \cup {Ninguem}
        /\ fase[r] \in Cadastrando =>
              /\ pedido[r].alvo \in Ids \ (existem \cup IdsFixos)
              /\ \A q \in Pedidos \ {r} : pedido[q].alvo # pedido[r].alvo
        /\ fase[r] \in Alterando =>
              /\ pedido[r].alvo \in existem
              /\ "chave" \in pedido[r].nomeados => pedido[r].alvo \in Usuarios
                                                   /\ pedido[r].chave \in Chaves
        /\ fase[r] = "contar" => pedido[r].chave = SemChave

\* Past the look-up, whoever else has the key was written meanwhile.
ChaveDisputada ==
    \A r \in Pedidos :
        fase[r] \in {"inserir", "gravar"} /\ pedido[r].chave # SemChave =>
            \A j \in existem \ {pedido[r].alvo} :
                MesmaTabela(pedido[r].alvo, j) /\ chave[j] = pedido[r].chave => j \in mexidos[r]

\* The owner a vehicle is registered for was active, or was written meanwhile.
DonoVisto ==
    \A r \in Pedidos :
        fase[r] \in Cadastrando /\ pedido[r].alvo \in Veiculos =>
            pedido[r].dono \in ativos \/ pedido[r].dono \in mexidos[r]

CadastroInv == CadastroTypeOK /\ AlvoCerto /\ ChaveDisputada /\ DonoVisto

ChavesUnicas ==
    \A i, j \in existem :
        i # j /\ MesmaTabela(i, j) /\ chave[i] = chave[j] => chave[i] = SemChave

------------------------------------------------------------------------------
\* Requests

LEMMA PedidoVazioTipado ==
    /\ PedidoVazio \in Pedido
    /\ PedidoVazio.alvo = Ninguem /\ PedidoVazio.dono = Ninguem /\ PedidoVazio.chave = SemChave
BY CadastroAssumption DEF PedidoVazio, Pedido, RegistroInicial, Registro

LEMMA InitCadastroInv == Init => CadastroInv /\ ChavesUnicas
BY PedidoVazioTipado, CadastroAssumption
   DEF Init, CadastroInv, CadastroTypeOK, AlvoCerto, ChaveDisputada, DonoVisto, ChavesUnicas,
       RegistroInicial, Registro, Fases, Cadastrando, Alterando, EmAndamento

\* Request q has just been answered.
Respondido(q) == fase'[q] \in {"livre", "recusada"} /\ pedido'[q] = PedidoVazio

\* Request q sees a step of somebody else's: every row the step changed is
\* among those it knows to have been written.
Assistida(q) ==
    /\ UNCHANGED <<fase[q], pedido[q]>>
    /\ mexidos[q] \subseteq mexidos'[q]
    /\ EmAndamento(q) => \A j \in Ids \ mexidos'[q] :
          /\ j \in existem' <=> j \in existem
          /\ j \in ativos' <=> j \in ativos
          /\ chave'[j] = chave[j]

(* Any step in which requests are answered and the others look on.         *)
LEMMA CadastroInvDoPasso ==
    ASSUME CadastroInv, CadastroTypeOK', existem \subseteq existem',
           \A q \in Pedidos : Respondido(q) \/ Assistida(q),
           \A j \in existem' \ existem :
              \/ j \in IdsFixos
              \/ \E q \in Pedidos : fase[q] \in Cadastrando /\ pedido[q].alvo = j /\ Respondido(q)
    PROVE  CadastroInv'
<1>. CadastroTypeOK
  BY DEF CadastroInv
<1>1. AlvoCerto'
  <2>. SUFFICES ASSUME NEW r \in Pedidos
                PROVE  /\ pedido'[r].dono \in Clientes \cup {Ninguem}
                       /\ fase'[r] \in Cadastrando =>
                             /\ pedido'[r].alvo \in Ids \ (existem' \cup IdsFixos)
                             /\ \A q \in Pedidos \ {r} : pedido'[q].alvo # pedido'[r].alvo
                       /\ fase'[r] \in Alterando =>
                             /\ pedido'[r].alvo \in existem'
                             /\ "chave" \in pedido'[r].nomeados => pedido'[r].alvo \in Usuarios
                                                                  /\ pedido'[r].chave \in Chaves
                       /\ fase'[r] = "contar" => pedido'[r].chave = SemChave
    BY DEF AlvoCerto
  <2>1. CASE Respondido(r)
    BY <2>1, PedidoVazioTipado DEF Respondido, Cadastrando, Alterando
  <2>2. CASE Assistida(r) /\ fase[r] \in Cadastrando
    <3>1. /\ pedido[r].alvo \in Ids \ (existem \cup IdsFixos)
          /\ \A q \in Pedidos \ {r} : pedido[q].alvo # pedido[r].alvo
      BY <2>2 DEF CadastroInv, AlvoCerto
    <3>2. ~Respondido(r)
      BY <2>2 DEF Respondido, Assistida, Cadastrando
    <3>3. pedido[r].alvo \notin existem'
      BY <3>1, <3>2
    <3>4. \A q \in Pedidos \ {r} : pedido'[q].alvo # pedido[r].alvo
      BY <3>1, PedidoVazioTipado, CadastroAssumption DEF Respondido, Assistida
    <3>. QED
      BY <2>2, <3>1, <3>3, <3>4 DEF CadastroInv, AlvoCerto, Assistida, Cadastrando, Alterando
  <2>3. CASE Assistida(r) /\ fase[r] \notin Cadastrando
    BY <2>3 DEF CadastroInv, AlvoCerto, Assistida
  <2>. QED  BY <2>1, <2>2, <2>3
<1>2. ChaveDisputada'
  <2>. SUFFICES ASSUME NEW r \in Pedidos, fase'[r] \in {"inserir", "gravar"},
                       pedido'[r].chave # SemChave, NEW j \in existem' \ {pedido'[r].alvo},
                       MesmaTabela(pedido'[r].alvo, j), chave'[j] = pedido'[r].chave,
                       j \notin mexidos'[r]
                PROVE  FALSE
    BY DEF ChaveDisputada
  <2>1. Assistida(r)
    BY DEF Respondido
  <2>2. j \in Ids /\ EmAndamento(r)
    BY <2>1 DEF CadastroTypeOK, Assistida, EmAndamento
  <2>3. j \in existem /\ chave[j] = pedido[r].chave /\ j \notin mexidos[r]
    BY <2>1, <2>2 DEF Assistida
  <2>. QED  BY <2>1, <2>3 DEF CadastroInv, ChaveDisputada, Assistida
<1>3. DonoVisto'
  <2>. SUFFICES ASSUME NEW r \in Pedidos, fase'[r] \in Cadastrando, pedido'[r].alvo \in Veiculos,
                       pedido'[r].dono \notin ativos', pedido'[r].dono \notin mexidos'[r]
                PROVE  FALSE
    BY DEF DonoVisto
  <2>1. Assistida(r)
    BY DEF Respondido, Cadastrando
  <2>2. pedido[r].dono \in ativos
    BY <2>1 DEF CadastroInv, DonoVisto, Assistida
  <2>3. pedido[r].dono \in Ids /\ EmAndamento(r)
    BY <2>1, <2>2 DEF CadastroTypeOK, Assistida, EmAndamento, Cadastrando
  <2>. QED  BY <2>1, <2>2, <2>3 DEF Assistida
<1>. QED
  BY <1>1, <1>2, <1>3 DEF CadastroInv

(* A request is answered and nothing was written.                          *)
LEMMA RecusarInv ==
    ASSUME CadastroInv, NEW r \in Pedidos, NEW f \in {"livre", "recusada"}, Recusar(r, f)
    PROVE  CadastroInv'
<1>. CadastroTypeOK
  BY DEF CadastroInv
<1>1. CadastroTypeOK'
  BY PedidoVazioTipado DEF Recusar, Encerrar, linhas, CadastroTypeOK, Fases, EmAndamento
<1>2. Respondido(r) /\ \A q \in Pedidos \ {r} : Assistida(q)
  BY DEF Recusar, Encerrar, linhas, CadastroTypeOK, Respondido, Assistida
<1>. QED
  BY <1>1, <1>2, CadastroInvDoPasso DEF Recusar, linhas

(* A request writes row i, its own, and is answered.                       *)
LEMMA EscreverInv ==
    ASSUME CadastroInv, NEW r \in Pedidos, NEW i \in Ids, i = pedido[r].alvo,
           Mexer(r, i), Encerrar(r, "livre"),
           existem' \subseteq Ids, existem \subseteq existem', existem' \subseteq existem \cup {i},
           i \in existem \/ fase[r] \in Cadastrando,
           ativos' \subseteq existem', \A j \in Ids \ {i} : j \in ativos' <=> j \in ativos,
           chave' \in [Ids -> Chaves \cup {SemChave}], \A j \in Ids \ {i} : chave'[j] = chave[j],
           campo' \in [Ids -> Registro], dono' \in [Veiculos -> Clientes \cup {Ninguem}]
    PROVE  CadastroInv'
<1>. CadastroTypeOK
  BY DEF CadastroInv
<1>1. mexidos' \in [Pedidos -> SUBSET Ids]
  BY DEF Mexer, CadastroTypeOK
<1>2. /\ fase' = [fase EXCEPT ![r] = "livre"] /\ pedido' = [pedido EXCEPT ![r] = PedidoVazio]
      /\ UNCHANGED pedidos
  BY DEF Encerrar
<1>3. \A q \in Pedidos : ~EmAndamento(q)' => pedido'[q] = PedidoVazio /\ mexidos'[q] = {}
  BY <1>2 DEF Mexer, CadastroTypeOK, EmAndamento
<1>4. CadastroTypeOK'
  BY <1>1, <1>2, <1>3, PedidoVazioTipado DEF CadastroTypeOK, Fases
<1>5. Respondido(r)
  BY <1>2 DEF Respondido, CadastroTypeOK
<1>6. \A q \in Pedidos \ {r} : Assistida(q)
  BY <1>2 DEF Assistida, Mexer, CadastroTypeOK
<1>. QED
  BY <1>4, <1>5, <1>6, CadastroInvDoPasso

(* A request arrives with the row it is about.                             *)
LEMMA ChegarInv ==
    ASSUME CadastroInv, NEW r \in Pedidos, Aceita(r), NEW p \in Pedido,
           NEW f \in Fases \ {"livre", "recusada"}, Chegar(r, p, f),
           p.dono \in Clientes \cup {Ninguem},
           f \in Cadastrando => Novo(p.alvo) /\ p.alvo \in Ids,
           f \in Alterando => p.alvo \in existem /\ ("chave" \in p.nomeados =>
                                                        p.alvo \in Usuarios /\ p.chave \in Chaves),
           f = "contar" => p.chave = SemChave,
           f \in {"inserir", "gravar"} => p.chave = SemChave \/ ComChave(p.alvo, p.chave) = {},
           f \in Cadastrando /\ p.alvo \in Veiculos => p.dono \in ativos
    PROVE  CadastroInv'
<1>. CadastroTypeOK
  BY DEF CadastroInv
<1>1. pedidos' \in 0..MaxPedidos
  BY CadastroAssumption DEF Aceita, Chegar, CadastroTypeOK
<1>2. /\ fase' = [fase EXCEPT ![r] = f] /\ pedido' = [pedido EXCEPT ![r] = p]
      /\ UNCHANGED <<existem, chave, campo, ativos, dono, mexidos>>
  BY DEF Chegar, linhas
<1>3. /\ fase'[r] = f /\ pedido'[r] = p /\ mexidos[r] = {}
      /\ \A q \in Pedidos \ {r} : fase'[q] = fase[q] /\ pedido'[q] = pedido[q]
  BY <1>2 DEF CadastroTypeOK, Aceita
<1>4. CadastroTypeOK'
  BY <1>1, <1>2, <1>3 DEF CadastroTypeOK, EmAndamento
<1>5. AlvoCerto'
  <2>1. f \in Cadastrando => \A q \in Pedidos : pedido[q].alvo # p.alvo
    BY DEF Novo
  <2>2. \A q \in Pedidos \ {r} : fase[q] \in Cadastrando => pedido[q].alvo # p.alvo
    BY <2>1 DEF CadastroInv, AlvoCerto, Cadastrando, Alterando, Fases
  <2>3. ASSUME NEW q \in Pedidos \ {r}
        PROVE  /\ pedido'[q].dono \in Clientes \cup {Ninguem}
               /\ fase'[q] \in Cadastrando =>
                     /\ pedido'[q].alvo \in Ids \ (existem' \cup IdsFixos)
                     /\ \A x \in Pedidos \ {q} : pedido'[x].alvo # pedido'[q].alvo
               /\ fase'[q] \in Alterando =>
                     /\ pedido'[q].alvo \in existem'
                     /\ "chave" \in pedido'[q].nomeados => pedido'[q].alvo \in Usuarios
                                                          /\ pedido'[q].chave \in Chaves
               /\ fase'[q] = "contar" => pedido'[q].chave = SemChave
    BY <1>2, <1>3, <2>2 DEF CadastroInv, AlvoCerto
  <2>4. f \in Cadastrando => p.alvo \in Ids \ (existem \cup IdsFixos)
    BY DEF Novo
  <2>. QED
    BY <1>2, <1>3, <2>1, <2>3, <2>4 DEF AlvoCerto
<1>6. ChaveDisputada'
  BY <1>2, <1>3 DEF CadastroInv, ChaveDisputada, ComChave
<1>7. DonoVisto'
  BY <1>2, <1>3 DEF CadastroInv, DonoVisto
<1>. QED
  BY <1>4, <1>5, <1>6, <1>7 DEF CadastroInv

(* A request goes on to its last await.                                    *)
LEMMA AvancarInv ==
    ASSUME CadastroInv, NEW r \in Pedidos, NEW f, Avancar(r, f),
           \/ fase[r] = "buscarPlaca" /\ f = "inserir" /\ ComChave(pedido[r].alvo, pedido[r].chave) = {}
           \/ /\ fase[r] = "buscarEmail" /\ f = "gravar"
              /\ ComChave(pedido[r].alvo, pedido[r].chave) \subseteq {pedido[r].alvo}
           \/ fase[r] = "contar" /\ f = "gravar"
    PROVE  CadastroInv'
<1>. CadastroTypeOK
  BY DEF CadastroInv
<1>1. /\ fase' = [fase EXCEPT ![r] = f]
      /\ UNCHANGED <<existem, chave, campo, ativos, dono, pedido, mexidos, pedidos>>
  BY DEF Avancar, linhas
<1>2. fase'[r] = f /\ \A q \in Pedidos \ {r} : fase'[q] = fase[q]
  BY <1>1 DEF CadastroTypeOK
<1>3. CadastroTypeOK'
  BY <1>1, <1>2 DEF CadastroTypeOK, Fases, EmAndamento
<1>4. AlvoCerto'
  BY <1>1, <1>2 DEF CadastroInv, AlvoCerto, Cadastrando, Alterando
<1>5. ChaveDisputada'
  BY <1>1, <1>2 DEF CadastroInv, ChaveDisputada, ComChave, AlvoCerto
<1>6. DonoVisto'
  BY <1>1, <1>2 DEF CadastroInv, DonoVisto, Cadastrando
<1>. QED
  BY <1>3, <1>4, <1>5, <1>6 DEF CadastroInv

LEMMA CadastrarInv ==
    ASSUME CadastroInv, NEW r \in Pedidos, Aceita(r), NEW i \in Ids \ Veiculos,
           \/ \E k \in Chaves : Cadastrar(r, i, k)
           \/ CadastrarServico(r, i)
    PROVE  CadastroInv'
<1>. CadastroTypeOK
  BY DEF CadastroInv
<1>1. ASSUME NEW k \in Chaves, Cadastrar(r, i, k) PROVE CadastroInv'
  <2>. DEFINE p == [PedidoVazio EXCEPT !.alvo = i, !.chave = k]
  <2>1. p \in Pedido /\ p.alvo = i /\ p.chave = k /\ p.dono = Ninguem
    BY PedidoVazioTipado DEF Pedido, PedidoVazio
  <2>2. Novo(i) /\ ComChave(i, k) = {} /\ Chegar(r, p, "inserir")
    BY <1>1 DEF Cadastrar
  <2>. QED  BY <2>1, <2>2, ChegarInv DEF Fases, Cadastrando, Alterando
<1>2. CASE CadastrarServico(r, i)
  <2>. DEFINE p == [PedidoVazio EXCEPT !.alvo = i]
  <2>1. p \in Pedido /\ p.alvo = i /\ p.chave = SemChave /\ p.dono = Ninguem
    BY PedidoVazioTipado DEF Pedido, PedidoVazio
  <2>2. Novo(i) /\ Chegar(r, p, "inserir")
    BY <1>2 DEF CadastrarServico
  <2>. QED  BY <2>1, <2>2, ChegarInv DEF Fases, Cadastrando, Alterando
<1>. QED  BY <1>1, <1>2

LEMMA CadastrarVeiculoInv ==
    ASSUME CadastroInv, NEW r \in Pedidos, Aceita(r), NEW i \in Veiculos, NEW k \in Chaves,
           NEW c \in Clientes, CadastrarVeiculo(r, i, k, c)
    PROVE  CadastroInv'
<1>. DEFINE p == [PedidoVazio EXCEPT !.alvo = i, !.chave = k, !.dono = c]
<1>1. i \in Ids /\ c \in Ids
  BY DEF Veiculos, Clientes
<1>2. p \in Pedido /\ p.alvo = i /\ p.chave = k /\ p.dono = c
  BY <1>1, PedidoVazioTipado DEF Pedido, PedidoVazio
<1>3. Novo(i) /\ c \in ativos /\ Chegar(r, p, "buscarPlaca")
  BY DEF CadastrarVeiculo
<1>. QED  BY <1>1, <1>2, <1>3, ChegarInv DEF Fases, Cadastrando, Alterando

\* What is held of a row that was read.
LEMMA LidaTipada ==
    ASSUME CadastroTypeOK, NEW i \in Ids
    PROVE  /\ Lida(i) \in Pedido
           /\ Lida(i) = [PedidoVazio EXCEPT !.alvo = i, !.lido = campo[i], !.lidoAtivo = i \in ativos]
           /\ Lida(i).alvo = i /\ Lida(i).dono = Ninguem /\ Lida(i).chave = SemChave
<1>1. campo[i] \in Registro /\ (i \in ativos) \in BOOLEAN
  BY DEF CadastroTypeOK
<1>. QED  BY <1>1, PedidoVazioTipado DEF Lida, Pedido, PedidoVazio

LEMMA AlterarInv ==
    ASSUME CadastroInv, NEW r \in Pedidos, Aceita(r), NEW i \in existem,
           \/ \E n \in SUBSET Campos, v \in Valores : Atualizar(r, i, n, v)
           \/ i \in Usuarios /\ \E n \in SUBSET Nomes, v \in Valores, k \in Chaves, a \in BOOLEAN :
                                  AtualizarUsuario(r, i, n, v, k, a)
           \/ Inativar(r, i)
    PROVE  CadastroInv'
<1>. CadastroTypeOK
  BY DEF CadastroInv
<1>0. i \in Ids
  BY DEF CadastroTypeOK
<1>1. ASSUME NEW n \in SUBSET Campos, NEW v \in Valores, Atualizar(r, i, n, v) PROVE CadastroInv'
  <2>. DEFINE p == [Lida(i) EXCEPT !.nomeados = n, !.valor = v]
  <2>1. p \in Pedido /\ p.alvo = i /\ p.chave = SemChave /\ p.dono = Ninguem /\ p.nomeados = n
    BY <1>0, LidaTipada DEF Pedido, Nomes
  <2>2. Chegar(r, p, "gravar") /\ "chave" \notin n
    BY <1>1, CadastroAssumption DEF Atualizar
  <2>. QED  BY <2>1, <2>2, ChegarInv DEF Fases, Cadastrando, Alterando
<1>2. ASSUME i \in Usuarios, NEW n \in SUBSET Nomes, NEW v \in Valores, NEW k \in Chaves,
             NEW a \in BOOLEAN, AtualizarUsuario(r, i, n, v, k, a)
      PROVE  CadastroInv'
  <2>. DEFINE p == [Lida(i) EXCEPT !.nomeados = n,
                                   !.valor = IF n \cap Campos = {} THEN @ ELSE v,
                                   !.chave = IF "chave" \in n THEN k ELSE @,
                                   !.ativo = IF "ativo" \in n THEN a ELSE @]
              f == IF "chave" \in n THEN "buscarEmail" ELSE "gravar"
              l == Lida(i)
  <2>0. /\ l \in Pedido /\ l.alvo = i /\ l.dono = Ninguem /\ l.chave = SemChave
    BY <1>0, LidaTipada
  <2>1. /\ p \in Pedido /\ p.alvo = i /\ p.dono = Ninguem /\ p.nomeados = n
        /\ p.chave = IF "chave" \in n THEN k ELSE SemChave
    <3>. HIDE DEF l
    <3>1. p = [l EXCEPT !.nomeados = n,
                        !.valor = IF n \cap Campos = {} THEN l.valor ELSE v,
                        !.chave = IF "chave" \in n THEN k ELSE SemChave,
                        !.ativo = IF "ativo" \in n THEN a ELSE l.ativo]
      BY <2>0 DEF l, Pedido
    <3>. QED  BY <2>0, <3>1 DEF Pedido
  <2>2. Chegar(r, p, f)
    BY <1>2 DEF AtualizarUsuario
  <2>. QED  BY <1>2, <2>1, <2>2, ChegarInv DEF Fases, Cadastrando, Alterando
<1>3. CASE Inativar(r, i)
  <2>. DEFINE p == [Lida(i) EXCEPT !.nomeados = {"ativo"}, !.ativo = FALSE]
  <2>1. p \in Pedido /\ p.alvo = i /\ p.chave = SemChave /\ p.dono = Ninguem /\ p.nomeados = {"ativo"}
    BY <1>0, LidaTipada DEF Pedido, Nomes
  <2>2. Chegar(r, p, "contar")
    BY <1>3 DEF Inativar
  <2>. QED  BY <2>1, <2>2, ChegarInv DEF Fases, Cadastrando, Alterando
<1>. QED  BY <1>1, <1>2, <1>3

LEMMA RequisicaoInv ==
    ASSUME CadastroInv, NEW r \in Pedidos, Requisicao(r)
    PROVE  CadastroInv'
<1>0. Aceita(r)
  BY DEF Requisicao
<1>1. ASSUME NEW i \in Ids, NEW k \in Chaves,
             CadastrarCliente(r, i, k) \/ CadastrarPeca(r, i, k) \/ CriarUsuario(r, i, k)
      PROVE  CadastroInv'
  <2>1. i \notin Veiculos /\ Cadastrar(r, i, k)
    BY <1>1 DEF CadastrarCliente, CadastrarPeca, CriarUsuario, Clientes, Pecas, Usuarios, Veiculos
  <2>. QED  BY <1>0, <2>1, CadastrarInv
<1>2. ASSUME NEW i \in Servicos, CadastrarServico(r, i) PROVE CadastroInv'
  BY <1>0, <1>2, CadastrarInv DEF Servicos, Veiculos
<1>3. ASSUME NEW i \in Veiculos, NEW k \in Chaves, NEW c \in Clientes, CadastrarVeiculo(r, i, k, c)
      PROVE  CadastroInv'
  BY <1>0, <1>3, CadastrarVeiculoInv
<1>4. ASSUME NEW i \in existem, NEW n \in Corpos(Campos), NEW v \in Valores \ {ValorInicial},
             \/ AtualizarCliente(r, i, n, v) \/ AtualizarVeiculo(r, i, n, v)
             \/ AtualizarServico(r, i, n, v) \/ AtualizarPeca(r, i, n, v)
      PROVE  CadastroInv'
  <2>1. Atualizar(r, i, n, v) /\ n \in SUBSET Campos
    BY <1>4 DEF AtualizarCliente, AtualizarVeiculo, AtualizarServico, AtualizarPeca, Corpos
  <2>. QED  BY <1>0, <2>1, AlterarInv
<1>5. ASSUME NEW i \in existem \cap Usuarios, NEW n \in Corpos(Nomes), NEW k \in Chaves,
             NEW a \in BOOLEAN, NEW v \in Valores \ {ValorInicial},
             AtualizarUsuario(r, i, n, v, k, a)
      PROVE  CadastroInv'
  <2>1. n \in SUBSET Nomes
    BY DEF Corpos
  <2>. QED  BY <1>0, <1>5, <2>1, AlterarInv
<1>6. ASSUME NEW i \in existem, \/ InativarCliente(r, i) \/ InativarVeiculo(r, i)
                                \/ InativarServico(r, i) \/ InativarPeca(r, i)
      PROVE  CadastroInv'
  <2>1. Inativar(r, i)
    BY <1>6 DEF InativarCliente, InativarVeiculo, InativarServico, InativarPeca
  <2>. QED  BY <1>0, <2>1, AlterarInv
<1>. QED
  BY <1>1, <1>2, <1>3, <1>4, <1>5, <1>6 DEF Requisicao

\* What a commit of request r does to the rows: it writes its own.
LEMMA InserirInv ==
    ASSUME CadastroInv, NEW r \in Pedidos, Inserir(r)
    PROVE  CadastroInv'
<1>. CadastroTypeOK
  BY DEF CadastroInv
<1>. DEFINE p == pedido[r]
<1>1. /\ p \in Pedido /\ p.alvo \in Ids /\ p.dono \in Clientes \cup {Ninguem}
      /\ p.chave \in Chaves \cup {SemChave} /\ fase[r] \in Cadastrando
  BY DEF Inserir, CadastroInv, AlvoCerto, Cadastrando, CadastroTypeOK, Pedido
<1>2. CASE Repetida(p.alvo, p.chave)
  BY <1>2, RecusarInv DEF Inserir
<1>3. CASE ~Repetida(p.alvo, p.chave)
  <2>1. /\ existem' = existem \cup {p.alvo}
        /\ chave' = [chave EXCEPT ![p.alvo] = p.chave]
        /\ campo' = [campo EXCEPT ![p.alvo] = RegistroInicial]
        /\ ativos' = ativos \cup {p.alvo}
        /\ dono' = IF p.alvo \in Veiculos THEN [dono EXCEPT ![p.alvo] = p.dono] ELSE dono
        /\ Mexer(r, p.alvo) /\ Encerrar(r, "livre")
    BY <1>3 DEF Inserir
  <2>2. RegistroInicial \in Registro
    BY CadastroAssumption DEF RegistroInicial, Registro
  <2>. QED  BY <1>1, <2>1, <2>2, EscreverInv DEF CadastroTypeOK
<1>. QED  BY <1>2, <1>3

LEMMA GravarInv ==
    ASSUME CadastroInv, NEW r \in Pedidos, Gravar(r)
    PROVE  CadastroInv'
<1>. CadastroTypeOK
  BY DEF CadastroInv
<1>. DEFINE p == pedido[r]
<1>1. /\ p \in Pedido /\ p.alvo \in existem /\ p.alvo \in Ids
      /\ p.chave \in Chaves \cup {SemChave} /\ p.valor \in Valores
  BY DEF Gravar, CadastroInv, AlvoCerto, Alterando, CadastroTypeOK, Pedido
<1>2. CASE "chave" \in p.nomeados /\ Repetida(p.alvo, p.chave)
  BY <1>2, RecusarInv DEF Gravar
<1>3. CASE ~("chave" \in p.nomeados /\ Repetida(p.alvo, p.chave))
  <2>1. /\ chave' = IF "chave" \in p.nomeados THEN [chave EXCEPT ![p.alvo] = p.chave] ELSE chave
        /\ campo' = [campo EXCEPT ![p.alvo] =
                        [c \in Campos |-> IF c \in p.nomeados THEN p.valor ELSE @[c]]]
        /\ ativos' = IF "ativo" \notin p.nomeados THEN ativos
                     ELSE IF p.ativo THEN ativos \cup {p.alvo} ELSE ativos \ {p.alvo}
        /\ UNCHANGED <<existem, dono>>
        /\ Mexer(r, p.alvo) /\ Encerrar(r, "livre")
    BY <1>3 DEF Gravar
  <2>2. [c \in Campos |-> IF c \in p.nomeados THEN p.valor ELSE campo[p.alvo][c]] \in Registro
    BY <1>1 DEF Registro, CadastroTypeOK
  <2>3. campo' \in [Ids -> Registro]
    BY <1>1, <2>1, <2>2 DEF CadastroTypeOK
  <2>4. chave' \in [Ids -> Chaves \cup {SemChave}] /\ \A j \in Ids \ {p.alvo} : chave'[j] = chave[j]
    BY <1>1, <2>1 DEF CadastroTypeOK
  <2>5. ativos' \subseteq existem /\ \A j \in Ids \ {p.alvo} : j \in ativos' <=> j \in ativos
    BY <1>1, <2>1 DEF CadastroTypeOK
  <2>. QED  BY <1>1, <2>1, <2>3, <2>4, <2>5, EscreverInv DEF CadastroTypeOK
<1>. QED  BY <1>2, <1>3

LEMMA PassoInv ==
    ASSUME CadastroInv, NEW r \in Pedidos, Passo(r)
    PROVE  CadastroInv'
<1>1. CASE BuscarPlaca(r)
  BY <1>1, RecusarInv, AvancarInv DEF BuscarPlaca
<1>2. CASE BuscarEmail(r)
  BY <1>2, RecusarInv, AvancarInv DEF BuscarEmail
<1>3. CASE ContarVinculos(r)
  BY <1>3, RecusarInv, AvancarInv DEF ContarVinculos
<1>. QED
  BY <1>1, <1>2, <1>3, InserirInv, GravarInv DEF Passo

\* Clients and vehicles keep their keys, vehicles their owners, and only the
\* seed creates rows under its ids.
RegistroFirme ==
    /\ existem \subseteq existem'
    /\ \A i \in existem \cap (Clientes \cup Veiculos) : chave'[i] = chave[i]
DonosFirmes ==
    /\ \A v \in existem \cap Veiculos : dono'[v] = dono[v]
    /\ (existem' \ existem) \cap IdsFixos = {}

LEMMA RequisicaoNadaGrava ==
    ASSUME NEW r \in Pedidos, Requisicao(r) \/ BuscarPlaca(r) \/ BuscarEmail(r) \/ ContarVinculos(r)
    PROVE  UNCHANGED linhas
<1>0. \A p, f : Chegar(r, p, f) => UNCHANGED linhas
  BY DEF Chegar
<1>1. \A i, k : \/ CadastrarCliente(r, i, k) \/ CadastrarPeca(r, i, k) \/ CriarUsuario(r, i, k)
                => UNCHANGED linhas
  BY <1>0 DEF CadastrarCliente, CadastrarPeca, CriarUsuario, Cadastrar
<1>2. \A i : CadastrarServico(r, i) => UNCHANGED linhas
  BY <1>0 DEF CadastrarServico
<1>3. \A i, k, c : CadastrarVeiculo(r, i, k, c) => UNCHANGED linhas
  BY <1>0 DEF CadastrarVeiculo
<1>4. \A i, n, v : \/ AtualizarCliente(r, i, n, v) \/ AtualizarVeiculo(r, i, n, v)
                   \/ AtualizarServico(r, i, n, v) \/ AtualizarPeca(r, i, n, v)
                   => UNCHANGED linhas
  BY <1>0 DEF AtualizarCliente, AtualizarVeiculo, AtualizarServico, AtualizarPeca, Atualizar
<1>5. \A i, n, v, k, a : AtualizarUsuario(r, i, n, v, k, a) => UNCHANGED linhas
  BY <1>0 DEF AtualizarUsuario
<1>6. \A i : InativarCliente(r, i) \/ InativarVeiculo(r, i) \/ InativarServico(r, i) \/ InativarPeca(r, i)
             => UNCHANGED linhas
  BY <1>0 DEF InativarCliente, InativarVeiculo, InativarServico, InativarPeca, Inativar
<1>7. Requisicao(r) => UNCHANGED linhas
  BY <1>1, <1>2, <1>3, <1>4, <1>5, <1>6, Zenon DEF Requisicao
<1>. QED
  BY <1>7 DEF BuscarPlaca, BuscarEmail, ContarVinculos, Avancar, Recusar

LEMMA RequisicoesFirmes ==
    ASSUME CadastroInv, ChavesUnicas, Next
    PROVE  ChavesUnicas' /\ RegistroFirme /\ DonosFirmes
<1>. CadastroTypeOK
  BY DEF CadastroInv
<1>0. ASSUME UNCHANGED linhas PROVE ChavesUnicas' /\ RegistroFirme /\ DonosFirmes
  BY <1>0 DEF linhas, ChavesUnicas, RegistroFirme, DonosFirmes
<1>1. ASSUME NEW r \in Pedidos, Requisicao(r) \/ BuscarPlaca(r) \/ BuscarEmail(r) \/ ContarVinculos(r)
      PROVE  ChavesUnicas' /\ RegistroFirme /\ DonosFirmes
  BY <1>0, <1>1, RequisicaoNadaGrava
<1>2. ASSUME NEW r \in Pedidos, Inserir(r) PROVE ChavesUnicas' /\ RegistroFirme /\ DonosFirmes
  <2>. DEFINE p == pedido[r]
  <2>1. p.alvo \in Ids \ (existem \cup IdsFixos)
    BY <1>2 DEF Inserir, CadastroInv, AlvoCerto, Cadastrando
  <2>2. CASE Repetida(p.alvo, p.chave)
    BY <1>0, <1>2, <2>2 DEF Inserir, Recusar
  <2>3. CASE ~Repetida(p.alvo, p.chave)
    <3>1. /\ existem' = existem \cup {p.alvo}
          /\ chave' = [chave EXCEPT ![p.alvo] = p.chave]
          /\ dono' = IF p.alvo \in Veiculos THEN [dono EXCEPT ![p.alvo] = p.dono] ELSE dono
      BY <1>2, <2>3 DEF Inserir
    <3>2. \A i \in existem : i # p.alvo /\ i \in Ids
      BY <2>1 DEF CadastroTypeOK
    <3>3. /\ \A i \in existem : chave'[i] = chave[i]
          /\ chave'[p.alvo] = p.chave
          /\ \A v \in existem \cap Veiculos : dono'[v] = dono[v]
      BY <2>1, <3>1, <3>2 DEF CadastroTypeOK
    <3>. QED
      BY <2>1, <2>3, <3>1, <3>2, <3>3
         DEF ChavesUnicas, RegistroFirme, DonosFirmes, Repetida, MesmaTabela
  <2>. QED  BY <2>2, <2>3
<1>3. ASSUME NEW r \in Pedidos, Gravar(r) PROVE ChavesUnicas' /\ RegistroFirme /\ DonosFirmes
  <2>. DEFINE p == pedido[r]
  <2>1. p.alvo \in existem /\ p.alvo \in Ids /\ ("chave" \in p.nomeados => p.alvo \in Usuarios)
    BY <1>3 DEF Gravar, CadastroInv, AlvoCerto, Alterando, CadastroTypeOK
  <2>2. CASE "chave" \in p.nomeados /\ Repetida(p.alvo, p.chave)
    BY <1>0, <1>3, <2>2 DEF Gravar, Recusar
  <2>3. CASE ~("chave" \in p.nomeados /\ Repetida(p.alvo, p.chave))
    <3>1. /\ chave' = IF "chave" \in p.nomeados THEN [chave EXCEPT ![p.alvo] = p.chave] ELSE chave
          /\ UNCHANGED <<existem, dono>>
      BY <1>3, <2>3 DEF Gravar
    <3>2. CASE "chave" \notin p.nomeados
      BY <3>1, <3>2 DEF ChavesUnicas, RegistroFirme, DonosFirmes
    <3>3. CASE "chave" \in p.nomeados
      <4>1. chave'[p.alvo] = p.chave /\ \A i \in Ids \ {p.alvo} : chave'[i] = chave[i]
        BY <2>1, <3>1, <3>3 DEF CadastroTypeOK
      <4>2. ~Repetida(p.alvo, p.chave) /\ p.alvo \notin Clientes \cup Veiculos
        BY <2>1, <2>3, <3>3 DEF Usuarios, Clientes, Veiculos
      <4>3. \A i \in existem : i \in Ids
        BY DEF CadastroTypeOK
      <4>4. RegistroFirme /\ DonosFirmes
        BY <3>1, <4>1, <4>2, <4>3 DEF RegistroFirme, DonosFirmes
      <4>5. ChavesUnicas'
        BY <3>1, <4>1, <4>2, <4>3 DEF ChavesUnicas, Repetida, MesmaTabela
      <4>. QED  BY <4>4, <4>5
    <3>. QED  BY <3>2, <3>3
  <2>. QED  BY <2>2, <2>3
<1>. QED
  BY <1>1, <1>2, <1>3 DEF Next, Passo

------------------------------------------------------------------------------
\* The seed's writes

LEMMA EscritaInv ==
    ASSUME CadastroInv, NEW i \in Ids, NEW k \in Chaves \cup {SemChave}, Escrita(i),
           \/ AtualizarLinha(i, k) /\ i \in existem
           \/ CriarLinha(i, k) /\ i \in IdsFixos,
           dono' \in [Veiculos -> Clientes \cup {Ninguem}]
    PROVE  CadastroInv'
<1>. CadastroTypeOK
  BY DEF CadastroInv
<1>1. RegistroInicial \in Registro
  BY CadastroAssumption DEF RegistroInicial, Registro
<1>2. /\ UNCHANGED <<fase, pedido, pedidos>>
      /\ mexidos' = [q \in Pedidos |-> IF EmAndamento(q) THEN mexidos[q] \cup {i} ELSE {}]
  BY DEF Escrita
<1>3. mexidos' \in [Pedidos -> SUBSET Ids]
      /\ \A q \in Pedidos : ~EmAndamento(q)' => pedido'[q] = PedidoVazio /\ mexidos'[q] = {}
  BY <1>2 DEF CadastroTypeOK, EmAndamento
<1>4. /\ existem \subseteq existem' /\ existem' \subseteq existem \cup {i}
      /\ existem' # existem => i \in IdsFixos
      /\ chave' = [chave EXCEPT ![i] = k] /\ campo' = [campo EXCEPT ![i] = RegistroInicial]
      /\ ativos \subseteq ativos' /\ ativos' \subseteq existem' /\ ativos' \subseteq ativos \cup {i}
  BY DEF AtualizarLinha, CriarLinha, CadastroTypeOK
<1>5. CadastroTypeOK'
  BY <1>1, <1>2, <1>3, <1>4 DEF CadastroTypeOK
<1>6. \A q \in Pedidos : Assistida(q)
  BY <1>2, <1>4 DEF Assistida, CadastroTypeOK
<1>7. \A j \in existem' \ existem : j \in IdsFixos
  BY <1>4
<1>. QED
  BY <1>4, <1>5, <1>6, <1>7, CadastroInvDoPasso

LEMMA EscritaUnica ==
    ASSUME CadastroTypeOK, ChavesUnicas, NEW i \in Ids, NEW k,
           AtualizarLinha(i, k) \/ CriarLinha(i, k),
           \/ i \in existem /\ chave[i] = k
           \/ ~Repetida(i, k)
    PROVE  ChavesUnicas'
<1>1. chave'[i] = k /\ (\A j \in Ids \ {i} : chave'[j] = chave[j]) /\ existem' \subseteq existem \cup {i}
  BY DEF AtualizarLinha, CriarLinha, CadastroTypeOK
<1>2. \A j \in existem : j \in Ids
  BY DEF CadastroTypeOK
<1>3. \A j \in existem \ {i} : MesmaTabela(i, j) /\ chave[j] = k => k = SemChave
  BY DEF Repetida, ChavesUnicas, MesmaTabela
<1>. QED
  BY <1>1, <1>2, <1>3 DEF ChavesUnicas, MesmaTabela

------------------------------------------------------------------------------
\* The inductive invariant of the seed

ClienteCerto(i, k) == i \in existem \cap Clientes /\ chave[i] = Linhas["clientes"][k].chave
VeiculoCerto(i, k) == i \in existem \cap Veiculos /\ chave[i] = Linhas["veiculos"][k].chave

IndiceCerto ==
    /\ etapa \in Tabelas => indice \in 1..Tamanho[etapa]
    /\ etapa \in Paradas => indice = 1
    /\ etapa = "ordens" => indice \in 1..(NumOrdens + 1)

\* A client or a vehicle under an id of the seed has the key of the seed.
FixasCertas ==
    \A l \in {"clientes", "veiculos"} : \A k \in 1..Tamanho[l] :
        Linhas[l][k].id \in existem => chave[Linhas[l][k].id] = Linhas[l][k].chave

AposVeiculos == {"servicos", "pecas", "apagarItensServico", "apagarItensPeca", "apagarOrdens", "ordens"}
ClientePronto(k) == etapa \in AposVeiculos \cup {"veiculos"} \/ (etapa = "clientes" /\ k < indice)
VeiculoPronto(k) == etapa \in AposVeiculos \/ (etapa = "veiculos" /\ k < indice)

\* What the arrays of the process hold of the rows already upserted.
ArranjosCertos ==
    \A k \in Indices :
        /\ ClientePronto(k) => ClienteCerto(clientes[k], k)
        /\ VeiculoPronto(k) => VeiculoCerto(veiculos[k], k) /\ dono[veiculos[k]] = clientes[k]

\* Also of the orders left by an earlier execution.
OrdensCertas ==
    \A o \in semeadas :
        /\ ClienteCerto(clienteDe[o], OrdemDe[o])
        /\ VeiculoCerto(veiculoDe[o], OrdemDe[o])
        /\ dono[veiculoDe[o]] = clienteDe[o]

SemeadasCertas ==
    /\ etapa = "ordens" => semeadas = 1..(indice - 1)
    /\ etapa = "concluida" => semeadas = Sementes
    /\ etapa \in {"ordens", "concluida"} => \A o \in semeadas : itens[o] = TiposDeItem

\* What the upsert under way read is still so, but for what the requests
\* committed since: found rows stay, and a key nobody had is now only held
\* by rows that took it meanwhile.
LeituraCerta ==
    /\ lida => etapa \in Tabelas
    /\ ~lida => achados = {} /\ surgidas = {}
    /\ lida => \A i \in achados :
          /\ i \in existem /\ Tabela[i] = etapa
          /\ etapa \in {"clientes", "veiculos"} => chave[i] = Linha.chave
          /\ etapa \in {"servicos", "pecas"} => i = Linha.id
    /\ lida /\ achados = {} =>
          IF etapa \in {"servicos", "pecas"}
          THEN Linha.id \notin existem
          ELSE ComChave(Linha.id, Linha.chave) \subseteq surgidas

SementeInv ==
    /\ SemeaduraTypeOK /\ CadastroInv /\ ChavesUnicas
    /\ IndiceCerto /\ LeituraCerta /\ FixasCertas /\ ArranjosCertos /\ OrdensCertas /\ SemeadasCertas

\* The row of the file the loop is at.
LEMMA LinhaTipada ==
    ASSUME etapa \in Tabelas, indice \in 1..Tamanho[etapa]
    PROVE  /\ Linha.id \in IdsFixos /\ Linha.id \in Ids /\ Tabela[Linha.id] = etapa
           /\ Linha.chave \in Chaves \cup {SemChave}
           /\ etapa # "servicos" => Linha.chave \in Chaves
           /\ etapa = "servicos" => Linha.chave = SemChave
BY LinhasAssumption, TabelasAssumption DEF Linha

\* What another process's commit leaves of the rows already used.
LEMMA LinhasFirmes ==
    ASSUME CadastroTypeOK, RegistroFirme
    PROVE  /\ \A i, k : ClienteCerto(i, k) => ClienteCerto(i, k)'
           /\ \A i, k : VeiculoCerto(i, k) => VeiculoCerto(i, k)'
BY DEF RegistroFirme, ClienteCerto, VeiculoCerto

LEMMA InitSementeInv == InitSemeadura => SementeInv
<1>. SUFFICES ASSUME InitSemeadura PROVE SementeInv
  OBVIOUS
<1>1. CadastroInv /\ ChavesUnicas /\ CadastroTypeOK
  BY InitCadastroInv DEF InitSemeadura, CadastroInv
<1>2. SemeaduraTypeOK
  <2>1. lida \in BOOLEAN
    BY Zenon DEF InitSemeadura
  <2>. QED
    BY <1>1, <2>1, SemeaduraAssumption
       DEF InitSemeadura, SemeaduraTypeOK, Etapas, Paradas, NenhumaLinha
<1>3. IndiceCerto /\ LeituraCerta /\ FixasCertas /\ ArranjosCertos /\ OrdensCertas /\ SemeadasCertas
  BY DEF InitSemeadura, Init, IndiceCerto, LeituraCerta, Tabelas, Paradas, FixasCertas, ArranjosCertos, OrdensCertas,
         SemeadasCertas, ClientePronto, VeiculoPronto, AposVeiculos
<1>. QED  BY <1>1, <1>2, <1>3 DEF SementeInv

(* A step of the requests.                                                 *)
LEMMA RequisicoesSementeInv ==
    ASSUME SementeInv, NextPedidos
    PROVE  SementeInv'
<1>. CadastroInv /\ ChavesUnicas /\ CadastroTypeOK
  BY DEF SementeInv, CadastroInv
<1>1. CadastroInv'
  <2>1. PICK r \in Pedidos : Requisicao(r) \/ Passo(r)
    BY DEF NextPedidos, Next
  <2>. QED  BY <2>1, RequisicaoInv, PassoInv
<1>2. ChavesUnicas' /\ RegistroFirme /\ DonosFirmes
  BY RequisicoesFirmes DEF NextPedidos
<1>3. UNCHANGED <<etapa, indice, lida, achados, clientes, veiculos, rodadas, semeadas, itens,
                  clienteDe, veiculoDe>>
  BY DEF NextPedidos, processo, demonstracao
<1>4. surgidas' = IF lida THEN surgidas \cup {i \in existem' : i \notin existem \/ chave'[i] # chave[i]}
                  ELSE surgidas
  BY DEF NextPedidos
<1>5. SemeaduraTypeOK' /\ IndiceCerto' /\ SemeadasCertas'
  <2>1. existem' \subseteq Ids
    BY <1>1 DEF CadastroInv, CadastroTypeOK
  <2>. QED
    BY <1>1, <1>3, <1>4, <2>1
       DEF SementeInv, SemeaduraTypeOK, CadastroInv, IndiceCerto, SemeadasCertas
<1>6. LeituraCerta'
  <2>1. CASE ~lida
    BY <1>3, <1>4, <2>1 DEF SementeInv, LeituraCerta
  <2>2. CASE lida
    <3>1. /\ etapa \in Tabelas /\ Linha.id \in IdsFixos /\ UNCHANGED Linha
      BY <1>3, <2>2, LinhaTipada DEF SementeInv, LeituraCerta, IndiceCerto, Linha
    <3>2. \A i \in achados : /\ i \in existem' /\ Tabela[i] = etapa
                             /\ etapa \in {"clientes", "veiculos"} => chave'[i] = Linha.chave
                             /\ etapa \in {"servicos", "pecas"} => i = Linha.id
      BY <1>2, <2>2
         DEF SementeInv, LeituraCerta, RegistroFirme, Clientes, Veiculos, CadastroTypeOK
    <3>3. Linha.id \notin existem => Linha.id \notin existem'
      BY <1>2, <3>1 DEF DonosFirmes
    <3>4. ComChave(Linha.id, Linha.chave)' \subseteq
             ComChave(Linha.id, Linha.chave) \cup (surgidas' \ surgidas) \cup surgidas
      <4>. SUFFICES ASSUME NEW j \in existem', MesmaTabela(Linha.id, j), chave'[j] = Linha.chave,
                           j \notin surgidas'
                    PROVE  j \in ComChave(Linha.id, Linha.chave)
        BY <3>1 DEF ComChave, MesmaTabela
      <4>1. j \in existem /\ chave'[j] = chave[j]
        BY <1>4, <2>2
      <4>. QED  BY <4>1 DEF ComChave
    <3>5. surgidas \subseteq surgidas'
      BY <1>4
    <3>6. achados = {} => IF etapa \in {"servicos", "pecas"}
                         THEN Linha.id \notin existem'
                         ELSE ComChave(Linha.id, Linha.chave)' \subseteq surgidas'
      BY <2>2, <3>3, <3>4, <3>5 DEF SementeInv, LeituraCerta
    <3>. QED  BY <1>3, <2>2, <3>1, <3>2, <3>6 DEF LeituraCerta
  <2>. QED  BY <2>1, <2>2
<1>7. FixasCertas'
  BY <1>2, LinhasAssumption, TabelasAssumption
     DEF SementeInv, FixasCertas, RegistroFirme, DonosFirmes, Clientes, Veiculos, Tabelas
<1>8. ArranjosCertos'
  BY <1>2, <1>3, LinhasFirmes
     DEF SementeInv, ArranjosCertos, ClientePronto, VeiculoPronto, DonosFirmes, VeiculoCerto
<1>9. OrdensCertas'
  BY <1>2, <1>3, LinhasFirmes DEF SementeInv, OrdensCertas, DonosFirmes, VeiculoCerto
<1>. QED  BY <1>1, <1>2, <1>5, <1>6, <1>7, <1>8, <1>9 DEF SementeInv

\* No row becomes an upserted one.
NadaApronta ==
    \A k \in Indices : (ClientePronto(k)' => ClientePronto(k)) /\ (VeiculoPronto(k)' => VeiculoPronto(k))

(* A step of the seed that writes no row of the registry, and leaves the   *)
(* arrays as they are or forgets them.                                     *)
LEMMA MemoriaSementeInv ==
    ASSUME SementeInv, UNCHANGED vars, etapa' \in Etapas, indice' \in Nat \ {0}, rodadas' \in 0..MaxRodadas,
           IndiceCerto', SemeadasCertas', LeituraCerta',
           lida' \in BOOLEAN, achados' \subseteq Ids, surgidas' \subseteq Ids,
           \/ UNCHANGED <<clientes, veiculos>> /\ NadaApronta
           \/ clientes' = NenhumaLinha /\ veiculos' = NenhumaLinha /\ etapa' \in Paradas,
           UNCHANGED <<clienteDe, veiculoDe>>, semeadas' \subseteq semeadas,
           itens' \in [Sementes -> SUBSET TiposDeItem]
    PROVE  SementeInv'
<1>. CadastroInv /\ ChavesUnicas /\ CadastroTypeOK
  BY DEF SementeInv, CadastroInv
<1>0. UNCHANGED <<existem, chave, campo, ativos, dono, fase, pedido, mexidos, pedidos>>
  BY DEF vars, linhas
<1>1. CadastroInv' /\ ChavesUnicas' /\ FixasCertas'
  BY <1>0 DEF SementeInv, CadastroInv, CadastroTypeOK, AlvoCerto, ChaveDisputada, DonoVisto,
              ChavesUnicas, FixasCertas, EmAndamento
<1>2. SemeaduraTypeOK'
  BY <1>1 DEF SementeInv, SemeaduraTypeOK, CadastroInv, NenhumaLinha
<1>3. ArranjosCertos'
  <2>1. CASE etapa' \in Paradas
    <3>1. \A k \in Indices : ~ClientePronto(k)' /\ ~VeiculoPronto(k)'
      BY <2>1 DEF ClientePronto, VeiculoPronto, Paradas, AposVeiculos
    <3>. QED  BY <3>1 DEF ArranjosCertos
  <2>2. CASE UNCHANGED <<clientes, veiculos>> /\ NadaApronta
    BY <1>0, <2>2 DEF SementeInv, ArranjosCertos, ClienteCerto, VeiculoCerto, NadaApronta
  <2>. QED  BY <2>1, <2>2
<1>4. OrdensCertas'
  BY <1>0 DEF SementeInv, OrdensCertas, ClienteCerto, VeiculoCerto
<1>. QED  BY <1>1, <1>2, <1>3, <1>4 DEF SementeInv

(* The process stops, wherever it is.                                      *)
LEMMA PararInv ==
    ASSUME SementeInv, NEW e \in Paradas, Parar(e), UNCHANGED <<vars, rodadas, demonstracao>>,
           e = "concluida" => semeadas = Sementes /\ \A o \in semeadas : itens[o] = TiposDeItem
    PROVE  SementeInv'
<1>1. /\ etapa' = e /\ indice' = 1 /\ clientes' = NenhumaLinha /\ veiculos' = NenhumaLinha
      /\ lida' = FALSE /\ achados' = {} /\ surgidas' = {}
      /\ UNCHANGED <<semeadas, itens, clienteDe, veiculoDe, rodadas>>
  BY DEF Parar, Esquecer, demonstracao
<1>2. IndiceCerto' /\ SemeadasCertas' /\ LeituraCerta'
  BY <1>1 DEF IndiceCerto, SemeadasCertas, LeituraCerta, Paradas, Tabelas
<1>3. lida' \in BOOLEAN
  BY <1>1, Zenon
<1>. QED
  BY <1>1, <1>2, <1>3, MemoriaSementeInv DEF NadaApronta, SementeInv, SemeaduraTypeOK, Etapas

LEMMA SemearDeNovoInv ==
    ASSUME SementeInv, Semear PROVE SementeInv'
<1>1. /\ etapa \in Paradas /\ etapa' = "usuarios" /\ rodadas' = rodadas + 1 /\ rodadas < MaxRodadas
      /\ UNCHANGED <<vars, indice, lida, achados, surgidas, clientes, veiculos,
                     semeadas, itens, clienteDe, veiculoDe>>
  BY DEF Semear, demonstracao
<1>2. rodadas' \in 0..MaxRodadas
  BY <1>1, SemeaduraAssumption DEF SementeInv, SemeaduraTypeOK
<1>3. IndiceCerto' /\ SemeadasCertas' /\ LeituraCerta'
  BY <1>1, SemeaduraAssumption
     DEF SementeInv, IndiceCerto, SemeadasCertas, LeituraCerta, Paradas, Tabelas
<1>4. \A k \in Indices : ~ClientePronto(k)' /\ ~VeiculoPronto(k)'
  BY <1>1 DEF ClientePronto, VeiculoPronto, AposVeiculos
<1>. QED
  BY <1>1, <1>2, <1>3, <1>4, MemoriaSementeInv DEF NadaApronta, SementeInv, SemeaduraTypeOK, Etapas, Tabelas

(* The SELECT of an upsert.                                                *)
LEMMA LerInv ==
    ASSUME SementeInv, Ler PROVE SementeInv'
<1>. CadastroTypeOK
  BY DEF SementeInv, CadastroInv
<1>1. /\ etapa \in Tabelas /\ ~lida /\ lida' = TRUE
      /\ achados' = IF etapa \in {"servicos", "pecas"} THEN PorId ELSE PorChave
      /\ UNCHANGED <<vars, etapa, indice, surgidas, clientes, veiculos, rodadas,
                     semeadas, itens, clienteDe, veiculoDe>>
  BY DEF Ler, demonstracao
<1>2. Linha.id \in Ids /\ Tabela[Linha.id] = etapa /\ UNCHANGED <<existem, chave, Linha>>
  BY <1>1, LinhaTipada DEF SementeInv, IndiceCerto, Linha, vars, linhas
<1>3. PorId \subseteq existem /\ PorChave \subseteq existem /\ existem \subseteq Ids
  BY DEF PorId, PorChave, ComChave, CadastroTypeOK
<1>4. LeituraCerta'
  <2>1. CASE etapa \in {"servicos", "pecas"}
    BY <1>1, <1>2, <2>1 DEF LeituraCerta, PorId
  <2>2. CASE etapa \notin {"servicos", "pecas"}
    BY <1>1, <1>2, <2>2 DEF LeituraCerta, PorChave, ComChave, MesmaTabela
  <2>. QED  BY <2>1, <2>2
<1>5. IndiceCerto' /\ SemeadasCertas' /\ NadaApronta
  BY <1>1 DEF SementeInv, IndiceCerto, SemeadasCertas, NadaApronta, ClientePronto, VeiculoPronto
<1>. QED
  BY <1>1, <1>3, <1>4, <1>5, MemoriaSementeInv DEF SementeInv, SemeaduraTypeOK

LEMMA ApagarItensInv ==
    ASSUME SementeInv, NEW t, NEW de \in {"apagarItensServico", "apagarItensPeca"},
           NEW para \in {"apagarItensPeca", "apagarOrdens"}, ApagarItens(t, de, para)
    PROVE  SementeInv'
<1>1. /\ etapa = de /\ etapa' = para /\ itens' = [o \in Sementes |-> itens[o] \ {t}]
      /\ UNCHANGED <<vars, lida, achados, surgidas, clientes, veiculos, rodadas, indice,
                     semeadas, clienteDe, veiculoDe>>
  BY DEF ApagarItens, NaBase
<1>2. itens' \in [Sementes -> SUBSET TiposDeItem]
  BY <1>1 DEF SementeInv, SemeaduraTypeOK
<1>3. IndiceCerto' /\ SemeadasCertas' /\ LeituraCerta'
  BY <1>1 DEF SementeInv, IndiceCerto, SemeadasCertas, LeituraCerta, Paradas, Tabelas
<1>4. \A k \in Indices : ClientePronto(k) /\ VeiculoPronto(k)
  BY <1>1 DEF ClientePronto, VeiculoPronto, AposVeiculos
<1>. QED
  BY <1>1, <1>2, <1>3, <1>4, MemoriaSementeInv DEF NadaApronta, SementeInv, SemeaduraTypeOK, Etapas

LEMMA ApagarOrdensInv ==
    ASSUME SementeInv, ApagarOrdens PROVE SementeInv'
<1>1. /\ etapa = "apagarOrdens" /\ etapa' = "ordens" /\ semeadas' = {} /\ indice' = 1
      /\ UNCHANGED <<vars, lida, achados, surgidas, clientes, veiculos, rodadas, itens,
                     clienteDe, veiculoDe>>
  BY DEF ApagarOrdens, NaBase
<1>2. IndiceCerto' /\ SemeadasCertas' /\ LeituraCerta'
  BY <1>1, SemeaduraAssumption
     DEF SementeInv, IndiceCerto, SemeadasCertas, LeituraCerta, Paradas, Tabelas
<1>3. \A k \in Indices : ClientePronto(k) /\ VeiculoPronto(k)
  BY <1>1 DEF ClientePronto, VeiculoPronto, AposVeiculos
<1>. QED
  BY <1>1, <1>2, <1>3, MemoriaSementeInv DEF NadaApronta, SementeInv, SemeaduraTypeOK, Etapas

LEMMA ConcluirInv ==
    ASSUME SementeInv, Concluir PROVE SementeInv'
<1>1. semeadas = Sementes /\ \A o \in semeadas : itens[o] = TiposDeItem
  BY SemeaduraAssumption DEF Concluir, SementeInv, SemeadasCertas, IndiceCerto, Sementes
<1>. QED  BY <1>1, PararInv DEF Concluir, Paradas

(* The deletion left no order of the seed, so no creation is refused.      *)
LEMMA NaoRecusada == SementeInv /\ etapa = "ordens" => indice \notin semeadas
BY SemeaduraAssumption DEF SementeInv, SemeadasCertas, IndiceCerto

LEMMA CriarOrdemInv ==
    ASSUME SementeInv, CriarOrdem PROVE SementeInv'
<1>. CadastroInv /\ ChavesUnicas /\ CadastroTypeOK
  BY DEF SementeInv, CadastroInv
<1>. DEFINE k == OrdemDe[indice]
<1>1. etapa = "ordens" /\ indice \in Sementes /\ k \in Indices
  BY SemeaduraAssumption DEF CriarOrdem
<1>2. /\ semeadas' = semeadas \cup {indice}
      /\ itens' = [itens EXCEPT ![indice] = TiposDeItem]
      /\ clienteDe' = [clienteDe EXCEPT ![indice] = clientes[k]]
      /\ veiculoDe' = [veiculoDe EXCEPT ![indice] = veiculos[k]]
      /\ indice' = indice + 1 /\ NaBase /\ UNCHANGED etapa
  BY <1>1, NaoRecusada DEF CriarOrdem
<1>3. UNCHANGED <<existem, chave, campo, ativos, dono, fase, pedido, mexidos, pedidos,
                  lida, achados, surgidas, clientes, veiculos, rodadas, etapa>>
  BY <1>2 DEF NaBase, vars, linhas
<1>4. CadastroInv' /\ ChavesUnicas' /\ FixasCertas'
  BY <1>3 DEF SementeInv, CadastroInv, CadastroTypeOK, AlvoCerto, ChaveDisputada, DonoVisto,
              ChavesUnicas, FixasCertas, EmAndamento
<1>5. SemeaduraTypeOK'
  BY <1>1, <1>2, <1>3, <1>4 DEF SementeInv, SemeaduraTypeOK, CadastroInv, Sementes
<1>6. IndiceCerto' /\ LeituraCerta'
  BY <1>1, <1>2, <1>3, SemeaduraAssumption
     DEF SementeInv, IndiceCerto, LeituraCerta, Tabelas, Paradas, Sementes
<1>7. SemeadasCertas'
  <2>1. semeadas = 1..(indice - 1) /\ \A o \in semeadas : itens[o] = TiposDeItem
    BY <1>1 DEF SementeInv, SemeadasCertas
  <2>2. semeadas' = 1..(indice' - 1)
    BY <1>1, <1>2, <2>1 DEF Sementes
  <2>3. \A o \in semeadas' : itens'[o] = TiposDeItem
    BY <1>1, <1>2, <2>1 DEF SementeInv, SemeaduraTypeOK
  <2>. QED  BY <1>1, <1>3, <2>2, <2>3 DEF SemeadasCertas
<1>8. ClienteCerto(clientes[k], k) /\ VeiculoCerto(veiculos[k], k) /\ dono[veiculos[k]] = clientes[k]
  BY <1>1 DEF SementeInv, ArranjosCertos, ClientePronto, VeiculoPronto, AposVeiculos
<1>9. ArranjosCertos'
  BY <1>1, <1>3 DEF SementeInv, ArranjosCertos, ClientePronto, VeiculoPronto, AposVeiculos,
                    ClienteCerto, VeiculoCerto
<1>10. OrdensCertas'
  <2>1. /\ clienteDe'[indice] = clientes[k] /\ veiculoDe'[indice] = veiculos[k]
        /\ \A o \in semeadas \ {indice} : clienteDe'[o] = clienteDe[o] /\ veiculoDe'[o] = veiculoDe[o]
    BY <1>1, <1>2 DEF SementeInv, SemeaduraTypeOK
  <2>. QED
    BY <1>2, <1>3, <1>8, <2>1 DEF SementeInv, OrdensCertas, ClienteCerto, VeiculoCerto
<1>. QED  BY <1>4, <1>5, <1>6, <1>7, <1>9, <1>10 DEF SementeInv

------------------------------------------------------------------------------
\* The upserts

(* An upsert writes row i: the one it read, by its id, or a new one under  *)
(* the fixed id.  A unique index only lets through a key nobody else has.  *)
LEMMA UpsertInv ==
    ASSUME SementeInv, etapa \in Tabelas, NEW i, Upsert(i),
           dono' \in [Veiculos -> Clientes \cup {Ninguem}]
    PROVE  /\ CadastroInv' /\ ChavesUnicas' /\ RegistroFirme /\ FixasCertas'
           /\ i \in Ids /\ i \in existem' /\ Tabela[i] = etapa
           /\ etapa \in {"clientes", "veiculos"} => chave'[i] = Linha.chave
           /\ UNCHANGED <<rodadas, semeadas, itens, clienteDe, veiculoDe>>
<1>. CadastroInv /\ ChavesUnicas /\ CadastroTypeOK /\ FixasCertas
  BY DEF SementeInv, CadastroInv
<1>. DEFINE k == IF achados = {} \/ etapa = "pecas" THEN Linha.chave ELSE chave[i]
<1>0. indice \in 1..Tamanho[etapa]
  BY DEF SementeInv, IndiceCerto
<1>1. Linha.id \in IdsFixos /\ Linha.id \in Ids /\ Tabela[Linha.id] = etapa
      /\ Linha.chave \in Chaves \cup {SemChave}
  BY <1>0, LinhaTipada
<1>2. /\ Escrita(i) /\ ~Recusado /\ lida
      /\ \/ i \in achados /\ AtualizarLinha(i, k)
         \/ achados = {} /\ i = Linha.id /\ i \notin existem /\ CriarLinha(i, k)
  BY DEF Upsert, Recusado, PorId
<1>3. /\ i \in achados => i \in existem /\ i \in Ids /\ Tabela[i] = etapa
      /\ i \in achados /\ etapa \in {"clientes", "veiculos"} => chave[i] = Linha.chave
      /\ i \in achados /\ etapa = "pecas" => i = Linha.id
  BY <1>2 DEF SementeInv, LeituraCerta, CadastroTypeOK
<1>4. i \in Ids /\ Tabela[i] = etapa /\ k \in Chaves \cup {SemChave}
  BY <1>1, <1>2, <1>3 DEF CadastroTypeOK
<1>5. (i \in existem /\ chave[i] = k) \/ ~Repetida(i, k)
  BY <1>2, <1>3 DEF Recusado
<1>6. CadastroInv'
  BY <1>1, <1>2, <1>3, <1>4, EscritaInv
<1>7. ChavesUnicas'
  BY <1>2, <1>4, <1>5, EscritaUnica
<1>8. /\ existem' = existem \cup {i}
      /\ existem' # existem => i = Linha.id /\ i \notin existem
      /\ chave'[i] = k /\ \A j \in Ids \ {i} : chave'[j] = chave[j]
  BY <1>2, <1>3, <1>4 DEF AtualizarLinha, CriarLinha, CadastroTypeOK
<1>9. etapa \in {"clientes", "veiculos"} => chave'[i] = Linha.chave /\ (i \in existem => chave[i] = k)
  BY <1>2, <1>3, <1>8
<1>10. \A j \in existem : j \in Ids
  BY DEF CadastroTypeOK
<1>11. RegistroFirme
  BY <1>4, <1>8, <1>9, <1>10 DEF RegistroFirme, Clientes, Veiculos
<1>12. FixasCertas'
  <2>. SUFFICES ASSUME NEW l \in {"clientes", "veiculos"}, NEW m \in 1..Tamanho[l],
                       Linhas[l][m].id \in existem'
                PROVE  chave'[Linhas[l][m].id] = Linhas[l][m].chave
    BY DEF FixasCertas
  <2>1. Linhas[l][m].id \in Ids /\ Tabela[Linhas[l][m].id] = l
    BY LinhasAssumption, TabelasAssumption DEF Tabelas
  <2>2. CASE Linhas[l][m].id \in existem
    BY <1>4, <1>8, <1>9, <2>1, <2>2 DEF FixasCertas
  <2>3. CASE Linhas[l][m].id \notin existem
    <3>1. Linhas[l][m].id = i /\ i = Linha.id
      BY <1>8, <2>3
    <3>2. l = etapa
      BY <1>4, <2>1, <3>1
    <3>3. m = indice
      BY <1>0, <3>1, <3>2, LinhasAssumption DEF Linha, Tabelas
    <3>. QED  BY <1>9, <3>1, <3>2, <3>3 DEF Linha
  <2>. QED  BY <2>2, <2>3
<1>13. UNCHANGED <<rodadas, semeadas, itens, clienteDe, veiculoDe>>
  BY <1>2 DEF Escrita, demonstracao
<1>. QED  BY <1>4, <1>6, <1>7, <1>8, <1>9, <1>11, <1>12, <1>13

(* The turn of a loop that ends an upsert.                                 *)
LEMMA AvanteCerto ==
    ASSUME SementeInv, etapa \in Tabelas,
           NEW proxima \in (Tabelas \cup {"apagarItensServico"}) \ {etapa}, Avante(proxima)
    PROVE  /\ indice' \in Nat \ {0} /\ IndiceCerto'
           /\ lida' = FALSE /\ achados' = {} /\ surgidas' = {} /\ LeituraCerta'
           /\ \/ etapa' = etapa /\ indice' = indice + 1 /\ indice < Tamanho[etapa]
              \/ etapa' = proxima /\ indice' = 1 /\ indice = Tamanho[etapa]
<1>1. indice \in 1..Tamanho[etapa] /\ \A l \in Tabelas : Tamanho[l] \in Nat \ {0}
  BY SemeaduraAssumption DEF SementeInv, IndiceCerto
<1>2. \/ etapa' = etapa /\ indice' = indice + 1 /\ indice < Tamanho[etapa]
      \/ etapa' = proxima /\ indice' = 1 /\ indice = Tamanho[etapa]
  BY <1>1 DEF Avante
<1>3. etapa' \notin Paradas \cup {"ordens"}
  BY <1>2 DEF Tabelas, Paradas
<1>4. etapa' \in Tabelas => indice' \in 1..Tamanho[etapa']
  BY <1>1, <1>2
<1>5. lida' = FALSE /\ achados' = {} /\ surgidas' = {} /\ LeituraCerta'
  BY DEF Avante, Esquecer, LeituraCerta
<1>. QED  BY <1>1, <1>2, <1>3, <1>4, <1>5 DEF IndiceCerto

(* What is left to show of an upsert: the arrays and the orders.           *)
LEMMA DepoisDoUpsert ==
    ASSUME SementeInv, etapa \in Tabelas, etapa' \in Tabelas \cup {"apagarItensServico"},
           CadastroInv', ChavesUnicas', FixasCertas', IndiceCerto', indice' \in Nat \ {0},
           lida' = FALSE, achados' = {}, surgidas' = {}, LeituraCerta',
           UNCHANGED <<rodadas, semeadas, itens, clienteDe, veiculoDe>>,
           clientes' \in [Indices -> Clientes \cup {Ninguem}],
           veiculos' \in [Indices -> Veiculos \cup {Ninguem}],
           ArranjosCertos', OrdensCertas'
    PROVE  SementeInv'
<1>1. SemeaduraTypeOK'
  BY DEF SementeInv, SemeaduraTypeOK, CadastroInv, Etapas
<1>2. SemeadasCertas'
  BY DEF SemeadasCertas, Tabelas
<1>. QED  BY <1>1, <1>2 DEF SementeInv

(* An upsert of a row that is in neither array and owns nothing.           *)
LEMMA ForaDosArranjos ==
    ASSUME SementeInv, etapa \in {"usuarios", "servicos", "pecas"}, NEW i, Upsert(i),
           NEW proxima \in {"clientes", "pecas", "apagarItensServico"} \ {etapa}, Avante(proxima),
           etapa = "usuarios" <=> proxima = "clientes",
           UNCHANGED <<dono, clientes, veiculos>>
    PROVE  SementeInv'
<1>. CadastroTypeOK
  BY DEF SementeInv, CadastroInv
<1>1. /\ etapa \in Tabelas /\ etapa' \in {etapa, proxima} /\ indice' \in Nat \ {0} /\ IndiceCerto'
      /\ lida' = FALSE /\ achados' = {} /\ surgidas' = {} /\ LeituraCerta'
      /\ etapa' = proxima => indice' = 1
  BY AvanteCerto DEF Tabelas
<1>2. /\ CadastroInv' /\ ChavesUnicas' /\ RegistroFirme /\ FixasCertas'
      /\ UNCHANGED <<rodadas, semeadas, itens, clienteDe, veiculoDe>>
  BY <1>1, UpsertInv DEF CadastroTypeOK
<1>3. \A k \in Indices : /\ ClientePronto(k)' => ClientePronto(k)
                         /\ VeiculoPronto(k)' => VeiculoPronto(k)
  BY <1>1 DEF ClientePronto, VeiculoPronto, AposVeiculos, Indices
<1>4. ArranjosCertos'
  BY <1>2, <1>3, LinhasFirmes DEF SementeInv, ArranjosCertos
<1>5. OrdensCertas'
  BY <1>2, LinhasFirmes DEF SementeInv, OrdensCertas
<1>. QED
  BY <1>1, <1>2, <1>4, <1>5, DepoisDoUpsert DEF SementeInv, SemeaduraTypeOK, Tabelas

LEMMA SemearUsuarioInv ==
    ASSUME SementeInv, SemearUsuario PROVE SementeInv'
<1>1. PICK i \in Usuarios : Upsert(i)
  BY DEF SemearUsuario
<1>. QED  BY <1>1, ForaDosArranjos DEF SemearUsuario

LEMMA SemearServicoInv ==
    ASSUME SementeInv, SemearServico PROVE SementeInv'
<1>1. PICK i \in Servicos : Upsert(i)
  BY DEF SemearServico
<1>. QED  BY <1>1, ForaDosArranjos DEF SemearServico

LEMMA SemearPecaInv ==
    ASSUME SementeInv, SemearPeca PROVE SementeInv'
<1>1. PICK i \in Pecas : Upsert(i)
  BY DEF SemearPeca
<1>. QED  BY <1>1, ForaDosArranjos DEF SemearPeca

LEMMA SemearClienteInv ==
    ASSUME SementeInv, SemearCliente PROVE SementeInv'
<1>. CadastroTypeOK
  BY DEF SementeInv, CadastroInv
<1>1. etapa = "clientes" /\ Avante("veiculos") /\ UNCHANGED <<dono, veiculos>>
  BY DEF SemearCliente
<1>2. PICK i \in Clientes : Upsert(i) /\ clientes' = [clientes EXCEPT ![indice] = i]
  BY DEF SemearCliente
<1>3. /\ CadastroInv' /\ ChavesUnicas' /\ RegistroFirme /\ FixasCertas'
      /\ i \in existem' /\ chave'[i] = Linha.chave
  BY <1>1, <1>2, UpsertInv DEF Tabelas, CadastroTypeOK
<1>4. UNCHANGED <<rodadas, semeadas, itens, clienteDe, veiculoDe>>
  BY <1>1, <1>2, UpsertInv DEF Tabelas, CadastroTypeOK
<1>5. /\ etapa \in Tabelas /\ etapa' \in Tabelas /\ indice' \in Nat \ {0} /\ IndiceCerto'
      /\ lida' = FALSE /\ achados' = {} /\ surgidas' = {} /\ LeituraCerta'
      /\ \/ etapa' = etapa /\ indice' = indice + 1
         \/ etapa' = "veiculos" /\ indice' = 1 /\ indice = Tamanho["clientes"]
  BY <1>1, AvanteCerto DEF Tabelas
<1>6. indice \in Indices
  BY <1>1 DEF SementeInv, IndiceCerto, Indices, Tabelas
<1>7. /\ clientes' \in [Indices -> Clientes \cup {Ninguem}]
      /\ clientes'[indice] = i /\ \A k \in Indices \ {indice} : clientes'[k] = clientes[k]
  BY <1>2, <1>6 DEF SementeInv, SemeaduraTypeOK
<1>8. \A k \in Indices : k = indice => ClienteCerto(i, k)'
  BY <1>1, <1>3, <1>6 DEF ClienteCerto, Linha
<1>9. ArranjosCertos'
  <2>. SUFFICES ASSUME NEW k \in Indices
                PROVE  /\ ClientePronto(k)' => ClienteCerto(clientes[k], k)'
                       /\ ~VeiculoPronto(k)'
    BY DEF ArranjosCertos
  <2>1. ~VeiculoPronto(k)'
    BY <1>1, <1>5 DEF VeiculoPronto, AposVeiculos, Indices
  <2>2. ClientePronto(k)' => k = indice \/ k < indice
    BY <1>1, <1>5, <1>6, SemeaduraAssumption DEF ClientePronto, AposVeiculos, Indices, Tabelas
  <2>3. k # indice /\ k < indice => ClienteCerto(clientes[k], k)
    BY <1>1 DEF SementeInv, ArranjosCertos, ClientePronto
  <2>4. k # indice /\ k < indice => ClienteCerto(clientes[k], k)'
    BY <1>3, <1>7, <2>3 DEF RegistroFirme, ClienteCerto
  <2>5. k = indice => ClienteCerto(clientes[k], k)'
    BY <1>7, <1>8 DEF ClienteCerto
  <2>. QED  BY <2>1, <2>2, <2>4, <2>5
<1>10. OrdensCertas'
  BY <1>1, <1>3, <1>4, LinhasFirmes DEF SementeInv, OrdensCertas
<1>. QED
  BY <1>1, <1>3, <1>4, <1>5, <1>7, <1>9, <1>10, DepoisDoUpsert DEF SementeInv, SemeaduraTypeOK

(* The vehicle upserted may be one an order of the seed is on: that order  *)
(* is of the same line of the file, and so of the same client.             *)
LEMMA SemearVeiculoInv ==
    ASSUME SementeInv, SemearVeiculo PROVE SementeInv'
<1>. CadastroTypeOK
  BY DEF SementeInv, CadastroInv
<1>1. etapa = "veiculos" /\ Avante("servicos") /\ UNCHANGED clientes
  BY DEF SemearVeiculo
<1>2. PICK i \in Veiculos :
         /\ Upsert(i)
         /\ dono' = [dono EXCEPT ![i] = clientes[indice]]
         /\ veiculos' = [veiculos EXCEPT ![indice] = i]
  BY DEF SemearVeiculo
<1>3. indice \in Indices /\ Indices = 1..Tamanho["veiculos"]
  BY <1>1, SemeaduraAssumption DEF SementeInv, IndiceCerto, Indices, Tabelas
<1>4. /\ dono' \in [Veiculos -> Clientes \cup {Ninguem}]
      /\ dono'[i] = clientes[indice] /\ \A v \in Veiculos \ {i} : dono'[v] = dono[v]
  BY <1>2, <1>3 DEF SementeInv, SemeaduraTypeOK, CadastroTypeOK
<1>5. /\ CadastroInv' /\ ChavesUnicas' /\ RegistroFirme /\ FixasCertas'
      /\ i \in existem' /\ chave'[i] = Linha.chave
  BY <1>1, <1>2, <1>4, UpsertInv DEF Tabelas
<1>6. UNCHANGED <<rodadas, semeadas, itens, clienteDe, veiculoDe>>
  BY <1>1, <1>2, <1>4, UpsertInv DEF Tabelas
<1>7. /\ etapa \in Tabelas /\ etapa' \in Tabelas /\ indice' \in Nat \ {0} /\ IndiceCerto'
      /\ lida' = FALSE /\ achados' = {} /\ surgidas' = {} /\ LeituraCerta'
      /\ \/ etapa' = etapa /\ indice' = indice + 1
         \/ etapa' = "servicos" /\ indice' = 1 /\ indice = Tamanho["veiculos"]
  BY <1>1, AvanteCerto DEF Tabelas
<1>8. /\ veiculos' \in [Indices -> Veiculos \cup {Ninguem}]
      /\ veiculos'[indice] = i /\ \A k \in Indices \ {indice} : veiculos'[k] = veiculos[k]
  BY <1>2, <1>3 DEF SementeInv, SemeaduraTypeOK
<1>9. \A k \in Indices : ClienteCerto(clientes[k], k)
  BY <1>1 DEF SementeInv, ArranjosCertos, ClientePronto
<1>10. \A k \in Indices : VeiculoCerto(i, k)' => k = indice
  <2>1. \A k \in Indices \ {indice} :
           Linhas["veiculos"][k].chave # Linhas["veiculos"][indice].chave
    <3>1. \A k \in 1..Tamanho["veiculos"] : \A m \in 1..Tamanho["veiculos"] \ {k} :
             Linhas["veiculos"][m].chave # Linhas["veiculos"][k].chave
      BY LinhasAssumption DEF Tabelas
    <3>. QED  BY <1>3, <3>1
  <2>. QED  BY <1>1, <1>5, <2>1 DEF VeiculoCerto, Linha
<1>11. ArranjosCertos'
  <2>. SUFFICES ASSUME NEW k \in Indices
                PROVE  /\ ClienteCerto(clientes[k], k)'
                       /\ VeiculoPronto(k)' => VeiculoCerto(veiculos[k], k)'
                                               /\ dono'[veiculos'[k]] = clientes'[k]
    BY DEF ArranjosCertos
  <2>1. ClienteCerto(clientes[k], k)'
    BY <1>1, <1>5, <1>9, LinhasFirmes DEF ClienteCerto
  <2>2. CASE k = indice
    <3>1. VeiculoCerto(i, k)'
      BY <1>1, <1>5, <2>2 DEF VeiculoCerto, Linha
    <3>. QED  BY <1>1, <1>4, <1>8, <2>1, <2>2, <3>1 DEF VeiculoCerto
  <2>3. CASE k # indice
    <3>1. VeiculoPronto(k)' => k < indice
      BY <1>1, <1>3, <1>7, <2>3 DEF VeiculoPronto, AposVeiculos
    <3>2. k < indice => VeiculoCerto(veiculos[k], k) /\ dono[veiculos[k]] = clientes[k]
      BY <1>1 DEF SementeInv, ArranjosCertos, VeiculoPronto
    <3>3. k < indice => VeiculoCerto(veiculos[k], k)'
      BY <1>5, <1>8, <2>3, <3>2 DEF RegistroFirme, VeiculoCerto
    <3>4. k < indice => veiculos[k] \in Veiculos \ {i}
      BY <1>8, <1>10, <2>3, <3>2, <3>3 DEF VeiculoCerto
    <3>. QED  BY <1>1, <1>4, <1>8, <2>1, <2>3, <3>1, <3>2, <3>3, <3>4
  <2>. QED  BY <2>2, <2>3
<1>12. OrdensCertas'
  <2>. SUFFICES ASSUME NEW o \in semeadas
                PROVE  /\ ClienteCerto(clienteDe[o], OrdemDe[o])'
                       /\ VeiculoCerto(veiculoDe[o], OrdemDe[o])'
                       /\ dono'[veiculoDe[o]] = clienteDe[o]
    BY <1>6 DEF OrdensCertas
  <2>1. /\ ClienteCerto(clienteDe[o], OrdemDe[o]) /\ VeiculoCerto(veiculoDe[o], OrdemDe[o])
        /\ dono[veiculoDe[o]] = clienteDe[o] /\ OrdemDe[o] \in Indices
    BY SemeaduraAssumption DEF SementeInv, SemeaduraTypeOK, OrdensCertas
  <2>2. ClienteCerto(clienteDe[o], OrdemDe[o])' /\ VeiculoCerto(veiculoDe[o], OrdemDe[o])'
    BY <1>5, <1>6, <2>1 DEF RegistroFirme, ClienteCerto, VeiculoCerto
  <2>3. CASE veiculoDe[o] = i
    <3>1. OrdemDe[o] = indice
      BY <1>6, <1>10, <2>1, <2>2, <2>3 DEF VeiculoCerto
    <3>2. ClienteCerto(clientes[indice], indice)
      BY <1>3, <1>9
    <3>3. \A c, d : ClienteCerto(c, indice) /\ ClienteCerto(d, indice) => c = d
      <4>1. Linhas["clientes"][indice].chave \in Chaves
        BY <1>3, LinhasAssumption DEF Indices, Tabelas
      <4>. QED
        BY <4>1, CadastroAssumption
           DEF SementeInv, ChavesUnicas, ClienteCerto, Clientes, MesmaTabela
    <3>. QED  BY <1>4, <2>1, <2>2, <2>3, <3>1, <3>2, <3>3
  <2>4. CASE veiculoDe[o] # i
    BY <1>4, <2>1, <2>2, <2>4 DEF VeiculoCerto
  <2>. QED  BY <2>2, <2>3, <2>4
<1>. QED
  BY <1>1, <1>5, <1>6, <1>7, <1>8, <1>11, <1>12, DepoisDoUpsert
     DEF SementeInv, SemeaduraTypeOK

LEMMA PassoSementeInv == SementeInv /\ [NextSemeadura]_varsSemeadura => SementeInv'
<1>. SUFFICES ASSUME SementeInv, [NextSemeadura]_varsSemeadura PROVE SementeInv'
  OBVIOUS
<1>1. CASE NextPedidos
  BY <1>1, RequisicoesSementeInv
<1>2. CASE Semear
  BY <1>2, SemearDeNovoInv
<1>3. CASE Cortar
  BY <1>3, PararInv DEF Cortar, Paradas
<1>4. CASE PassoDaSemente
  <2>1. FalharUpsert => SementeInv'
    BY PararInv DEF FalharUpsert, Falhar, Paradas
  <2>2. \/ ApagarItens("servico", "apagarItensServico", "apagarItensPeca")
        \/ ApagarItens("peca", "apagarItensPeca", "apagarOrdens")
        => SementeInv'
    BY ApagarItensInv
  <2>. QED
    BY <1>4, <2>1, <2>2, LerInv, SemearUsuarioInv, SemearClienteInv, SemearVeiculoInv, SemearServicoInv,
       SemearPecaInv, ApagarOrdensInv, CriarOrdemInv, ConcluirInv
       DEF PassoDaSemente
<1>5. CASE UNCHANGED varsSemeadura
  <2>1. UNCHANGED <<vars, etapa, indice, lida, achados, surgidas, clientes, veiculos, rodadas,
                    semeadas, itens, clienteDe, veiculoDe>>
    BY <1>5 DEF varsSemeadura, processo, demonstracao
  <2>2. UNCHANGED <<existem, chave, Linha>>
    BY <2>1 DEF vars, linhas, Linha
  <2>3. IndiceCerto' /\ SemeadasCertas' /\ LeituraCerta' /\ NadaApronta
    BY <2>1, <2>2 DEF SementeInv, IndiceCerto, SemeadasCertas, LeituraCerta, ComChave, NadaApronta,
                      ClientePronto, VeiculoPronto
  <2>. QED  BY <2>1, <2>3, MemoriaSementeInv DEF SementeInv, SemeaduraTypeOK
<1>. QED  BY <1>1, <1>2, <1>3, <1>4, <1>5 DEF NextSemeadura

(* The inductive invariant of registry and seed, of every behaviour.       *)
THEOREM SementeSegura == SpecSemeadura => []SementeInv
BY InitSementeInv, PassoSementeInv, PTL DEF SpecSemeadura

------------------------------------------------------------------------------
\* The properties

(* The variables of the registry, the requests and the seed keep their     *)
(* types.                                                                  *)
THEOREM SemeaduraTipada == SpecSemeadura => []SemeaduraTypeOK
BY SementeSegura, PTL DEF SementeInv

(* No two rows of a table have the same key, whoever wrote them.           *)
THEOREM ChavesSempreUnicas == SpecSemeadura => []ChavesUnicas
BY SementeSegura, PTL DEF SementeInv

(* Every demonstration order is one client's, on that client's vehicle,    *)
(* and a seed that ended has written all of them: after any cut, and       *)
(* whatever the requests registered under its keys.                        *)
THEOREM DemonstracaoSempreCoerente == SpecSemeadura => []DemonstracaoCoerente
<1>1. SementeInv => DemonstracaoCoerente
  BY DEF SementeInv, OrdensCertas, SemeadasCertas, ClienteCerto, VeiculoCerto, DemonstracaoCoerente
<1>. QED  BY <1>1, SementeSegura, PTL

\* The action of each property.
RecusaEmDisputa ==
    \A r \in Pedidos :
        EmAndamento(r) /\ fase'[r] = "recusada" =>
            \E j \in mexidos[r] : MesmaTabela(j, pedido[r].alvo) /\ chave[j] = pedido[r].chave
ClienteAtivoVisto ==
    \A r \in Pedidos, v \in Veiculos :
        fase[r] = "inserir" /\ pedido[r].alvo = v /\ v \in existem' \ existem =>
            dono'[v] \in ativos \/ dono'[v] \in mexidos[r]
EscritaPrecisa ==
    \A r \in Pedidos :
        fase[r] = "gravar" /\ fase'[r] # "gravar" =>
            LET p == pedido[r] IN
            /\ \A i \in existem, c \in Campos :
                  campo'[i][c] # campo[i][c] => i = p.alvo /\ c \in p.nomeados
            /\ \A i \in existem : (i \in ativos') # (i \in ativos) => i = p.alvo /\ "ativo" \in p.nomeados
            /\ \A i \in existem : chave'[i] # chave[i] => i = p.alvo /\ "chave" \in p.nomeados
FalhaJustificada ==
    etapa # "falhou" /\ etapa' = "falhou" => ContaRenomeada \/ CodigoTomado \/ ChavePerdida

(* A request's fase only moves by its own steps.                           *)
LEMMA FaseAlheia ==
    ASSUME CadastroTypeOK, [NextSemeadura]_varsSemeadura, NEW r \in Pedidos, EmAndamento(r),
           fase'[r] # fase[r]
    PROVE  Passo(r)
<1>0. UNCHANGED fase => FALSE
  OBVIOUS
<1>1. ASSUME NextSemeadura, ~Next PROVE UNCHANGED fase
  BY <1>1 DEF NextSemeadura, NextPedidos, Semear, Cortar, PassoDaSemente, Ler, SemearUsuario,
     SemearCliente, SemearVeiculo, SemearServico, SemearPeca, FalharUpsert, ApagarItens, ApagarOrdens,
     CriarOrdem, Concluir, Falhar, Upsert, Escrita, NaBase, vars
<1>2. Next
  BY <1>0, <1>1 DEF varsSemeadura, vars
<1>3. PICK q \in Pedidos : Requisicao(q) \/ Passo(q)
  BY <1>2 DEF Next
<1>4. ASSUME Requisicao(q) PROVE ~EmAndamento(q) /\ \E f : fase' = [fase EXCEPT ![q] = f]
  <2>0. \A p, f : Chegar(q, p, f) => fase' = [fase EXCEPT ![q] = f]
    BY DEF Chegar
  <2>1. \A i, k : \/ CadastrarCliente(q, i, k) \/ CadastrarPeca(q, i, k) \/ CriarUsuario(q, i, k)
                  => \E f : fase' = [fase EXCEPT ![q] = f]
    BY <2>0 DEF CadastrarCliente, CadastrarPeca, CriarUsuario, Cadastrar
  <2>2. \A i : CadastrarServico(q, i) => \E f : fase' = [fase EXCEPT ![q] = f]
    BY <2>0 DEF CadastrarServico
  <2>3. \A i, k, c : CadastrarVeiculo(q, i, k, c) => \E f : fase' = [fase EXCEPT ![q] = f]
    BY <2>0 DEF CadastrarVeiculo
  <2>4. \A i, n, v : \/ AtualizarCliente(q, i, n, v) \/ AtualizarVeiculo(q, i, n, v)
                     \/ AtualizarServico(q, i, n, v) \/ AtualizarPeca(q, i, n, v)
                     => \E f : fase' = [fase EXCEPT ![q] = f]
    BY <2>0 DEF AtualizarCliente, AtualizarVeiculo, AtualizarServico, AtualizarPeca, Atualizar
  <2>5. \A i, n, v, k, a : AtualizarUsuario(q, i, n, v, k, a) => \E f : fase' = [fase EXCEPT ![q] = f]
    BY <2>0 DEF AtualizarUsuario
  <2>6. \A i : InativarCliente(q, i) \/ InativarVeiculo(q, i) \/ InativarServico(q, i) \/ InativarPeca(q, i)
               => \E f : fase' = [fase EXCEPT ![q] = f]
    BY <2>0 DEF InativarCliente, InativarVeiculo, InativarServico, InativarPeca, Inativar
  <2>7. \E f : fase' = [fase EXCEPT ![q] = f]
    BY <1>4, <2>1, <2>2, <2>3, <2>4, <2>5, <2>6, Zenon DEF Requisicao
  <2>. QED  BY <1>4, <2>7 DEF Requisicao, Aceita
<1>5. ASSUME Passo(q) PROVE \E f : fase' = [fase EXCEPT ![q] = f]
  BY <1>5 DEF Passo, BuscarPlaca, Inserir, BuscarEmail, ContarVinculos, Gravar, Recusar, Avancar, Encerrar
<1>6. \E f : fase' = [fase EXCEPT ![q] = f]
  BY <1>3, <1>4, <1>5
<1>7. q = r
  BY <1>6 DEF CadastroTypeOK
<1>. QED  BY <1>3, <1>4, <1>7

(* Whoever holds the key the index refuses was written since the request   *)
(* arrived: nothing found by the look-up is ever answered with a 500.      *)
THEOREM RecusaSempreEmDisputa == SpecSemeadura => RecusaSoEmDisputa
<1>1. SementeInv /\ [NextSemeadura]_varsSemeadura => RecusaEmDisputa
  <2>. SUFFICES ASSUME SementeInv, [NextSemeadura]_varsSemeadura, NEW r \in Pedidos,
                       EmAndamento(r), fase'[r] = "recusada"
                PROVE  \E j \in mexidos[r] : MesmaTabela(j, pedido[r].alvo) /\ chave[j] = pedido[r].chave
    BY DEF RecusaEmDisputa
  <2>. CadastroTypeOK /\ CadastroInv
    BY DEF SementeInv, CadastroInv
  <2>1. Passo(r)
    BY FaseAlheia DEF EmAndamento
  <2>2. fase[r] \in {"inserir", "gravar"} /\ Repetida(pedido[r].alvo, pedido[r].chave)
    BY <2>1 DEF Passo, BuscarPlaca, Inserir, BuscarEmail, ContarVinculos, Gravar, Recusar, Avancar,
                Encerrar, CadastroTypeOK
  <2>3. PICK j \in existem \ {pedido[r].alvo} : /\ MesmaTabela(pedido[r].alvo, j)
                                                /\ chave[j] = pedido[r].chave /\ chave[j] # SemChave
    BY <2>2 DEF Repetida
  <2>4. j \in mexidos[r]
    BY <2>2, <2>3 DEF CadastroInv, ChaveDisputada
  <2>. QED  BY <2>3, <2>4 DEF MesmaTabela
<1>2. SementeInv /\ [NextSemeadura]_varsSemeadura => [RecusaEmDisputa]_vars
  BY <1>1
<1>3. SpecSemeadura => [][RecusaEmDisputa]_vars
  BY <1>2, SementeSegura, PTL DEF SpecSemeadura
<1>. QED  BY <1>3 DEF RecusaSoEmDisputa, RecusaEmDisputa

(* A vehicle is inserted for an inactive client only if that client was    *)
(* written after the request had read it.                                  *)
THEOREM VeiculoSempreDeClienteAtivo == SpecSemeadura => VeiculoDeClienteAtivo
<1>1. SementeInv /\ [NextSemeadura]_varsSemeadura => ClienteAtivoVisto
  <2>. SUFFICES ASSUME SementeInv, [NextSemeadura]_varsSemeadura, NEW r \in Pedidos, NEW v \in Veiculos,
                       fase[r] = "inserir", pedido[r].alvo = v, v \in existem', v \notin existem
                PROVE  dono'[v] \in ativos \/ dono'[v] \in mexidos[r]
    BY DEF ClienteAtivoVisto
  <2>. CadastroTypeOK /\ CadastroInv
    BY DEF SementeInv, CadastroInv
  <2>1. v \in Ids \ IdsFixos /\ \A q \in Pedidos \ {r} : pedido[q].alvo # v
    BY DEF CadastroInv, AlvoCerto, Cadastrando
  <2>2. Passo(r)
    <3>1. ASSUME NEW i, Upsert(i), etapa \in Tabelas
          PROVE  v \notin existem'
      <4>1. Linha.id \in IdsFixos
        BY <3>1, LinhaTipada DEF SementeInv, IndiceCerto
      <4>. QED  BY <2>1, <3>1, <4>1 DEF Upsert, AtualizarLinha, CriarLinha
    <3>2. ~PassoDaSemente
      BY <3>1 DEF PassoDaSemente, Ler, SemearUsuario, SemearCliente, SemearVeiculo,
         SemearServico, SemearPeca, FalharUpsert, ApagarItens, ApagarOrdens, CriarOrdem, Concluir,
         Falhar, NaBase, vars, linhas, Tabelas
    <3>3. Next
      BY <3>2 DEF NextSemeadura, NextPedidos, Semear, Cortar, varsSemeadura, vars, linhas
    <3>4. PICK q \in Pedidos : Requisicao(q) \/ Passo(q)
      BY <3>3 DEF Next
    <3>5. Inserir(q) \/ Gravar(q)
      BY <3>4, RequisicaoNadaGrava DEF Passo, linhas
    <3>6. Inserir(q) /\ pedido[q].alvo = v
      BY <3>5 DEF Inserir, Gravar, Recusar, linhas
    <3>7. q = r
      BY <2>1, <3>6
    <3>. QED  BY <3>6, <3>7 DEF Passo
  <2>3. Inserir(r) /\ ~Repetida(pedido[r].alvo, pedido[r].chave)
    BY <2>2 DEF Passo, BuscarPlaca, Inserir, BuscarEmail, ContarVinculos, Gravar, Recusar, linhas
  <2>4. dono' = [dono EXCEPT ![v] = pedido[r].dono]
    BY <2>3 DEF Inserir
  <2>5. dono'[v] = pedido[r].dono
    BY <2>4 DEF CadastroTypeOK
  <2>. QED  BY <2>5 DEF CadastroInv, DonoVisto, Cadastrando
<1>2. SementeInv /\ [NextSemeadura]_varsSemeadura => [ClienteAtivoVisto]_vars
  BY <1>1
<1>3. SpecSemeadura => [][ClienteAtivoVisto]_vars
  BY <1>2, SementeSegura, PTL DEF SpecSemeadura
<1>. QED  BY <1>3 DEF VeiculoDeClienteAtivo, ClienteAtivoVisto

(* An update changes the columns its body names, of its row, and nothing   *)
(* else, whatever was written since it read the row.                       *)
THEOREM AtualizacaoSemprePrecisa == SpecSemeadura => AtualizacaoPrecisa
<1>1. SementeInv /\ [NextSemeadura]_varsSemeadura => EscritaPrecisa
  <2>. SUFFICES ASSUME SementeInv, [NextSemeadura]_varsSemeadura, NEW r \in Pedidos,
                       fase[r] = "gravar", fase'[r] # "gravar"
                PROVE  /\ \A i \in existem, c \in Campos :
                             campo'[i][c] # campo[i][c] => i = pedido[r].alvo /\ c \in pedido[r].nomeados
                       /\ \A i \in existem : (i \in ativos') # (i \in ativos)
                                                => i = pedido[r].alvo /\ "ativo" \in pedido[r].nomeados
                       /\ \A i \in existem : chave'[i] # chave[i]
                                                => i = pedido[r].alvo /\ "chave" \in pedido[r].nomeados
    BY DEF EscritaPrecisa
  <2>. CadastroTypeOK
    BY DEF SementeInv, CadastroInv
  <2>. DEFINE p == pedido[r]
  <2>1. Gravar(r)
    BY FaseAlheia DEF EmAndamento, Passo, BuscarPlaca, Inserir, BuscarEmail, ContarVinculos
  <2>2. CASE UNCHANGED linhas
    BY <2>2 DEF linhas
  <2>3. CASE /\ chave' = IF "chave" \in p.nomeados THEN [chave EXCEPT ![p.alvo] = p.chave] ELSE chave
             /\ campo' = [campo EXCEPT ![p.alvo] =
                             [c \in Campos |-> IF c \in p.nomeados THEN p.valor ELSE @[c]]]
             /\ ativos' = IF "ativo" \notin p.nomeados THEN ativos
                          ELSE IF p.ativo THEN ativos \cup {p.alvo} ELSE ativos \ {p.alvo}
    <3>1. \A i \in existem : i \in Ids
      BY DEF CadastroTypeOK
    <3>2. \A i \in existem, c \in Campos : campo'[i][c] # campo[i][c] => i = p.alvo /\ c \in p.nomeados
      <4>1. campo' = [campo EXCEPT ![p.alvo] =
                         [c \in Campos |-> IF c \in p.nomeados THEN p.valor ELSE campo[p.alvo][c]]]
        BY <2>3
      <4>2. \A i \in existem : i # p.alvo => campo'[i] = campo[i]
        BY <3>1, <4>1 DEF CadastroTypeOK
      <4>3. p.alvo \in existem => \A c \in Campos \ p.nomeados : campo'[p.alvo][c] = campo[p.alvo][c]
        BY <3>1, <4>1 DEF CadastroTypeOK
      <4>. QED  BY <4>2, <4>3
    <3>3. \A i \in existem : chave'[i] # chave[i] => i = p.alvo /\ "chave" \in p.nomeados
      BY <2>3, <3>1 DEF CadastroTypeOK
    <3>4. \A i \in existem : (i \in ativos') # (i \in ativos) => i = p.alvo /\ "ativo" \in p.nomeados
      BY <2>3
    <3>. QED  BY <3>2, <3>3, <3>4
  <2>. QED  BY <2>1, <2>2, <2>3 DEF Gravar, Recusar
<1>2. SementeInv /\ [NextSemeadura]_varsSemeadura => [EscritaPrecisa]_vars
  BY <1>1
<1>3. SpecSemeadura => [][EscritaPrecisa]_vars
  BY <1>2, SementeSegura, PTL DEF SpecSemeadura
<1>. QED  BY <1>3 DEF AtualizacaoPrecisa, EscritaPrecisa

(* The seed is refused only an account renamed, the code of a part that a  *)
(* request registered, or a key taken between the SELECT and the INSERT of *)
(* that upsert, and never anything an execution that was cut had left.     *)
THEOREM SementeSempreRefaz == SpecSemeadura => SementeRefaz
<1>1. SementeInv /\ [NextSemeadura]_varsSemeadura => FalhaJustificada
  <2>. SUFFICES ASSUME SementeInv, [NextSemeadura]_varsSemeadura, etapa # "falhou", etapa' = "falhou"
                PROVE  ContaRenomeada \/ CodigoTomado \/ ChavePerdida
    BY DEF FalhaJustificada
  <2>1. FalharUpsert \/ (CriarOrdem /\ indice \in semeadas)
    <3>1. ASSUME NEW proxima, proxima # "falhou", Avante(proxima) PROVE FALSE
      BY <3>1 DEF Avante
    <3>. QED
      BY <3>1 DEF NextSemeadura, NextPedidos, varsSemeadura, processo, Semear, Cortar, Parar,
         PassoDaSemente, Ler, SemearUsuario, SemearCliente, SemearVeiculo, SemearServico, SemearPeca,
         ApagarItens, ApagarOrdens, CriarOrdem, Concluir
  <2>2. CASE FalharUpsert
    <3>1. /\ etapa \in Tabelas /\ lida
          /\ Recusado \/ ContaPerdida
          /\ Tabela[Linha.id] = etapa /\ (etapa = "servicos" => Linha.chave = SemChave)
      BY <2>2, LinhaTipada DEF FalharUpsert, SementeInv, IndiceCerto
    <3>2. \A i \in achados : i \in existem
      BY <3>1 DEF SementeInv, LeituraCerta
    <3>3. achados = {} => IF etapa \in {"servicos", "pecas"}
                         THEN Linha.id \notin existem
                         ELSE ComChave(Linha.id, Linha.chave) \subseteq surgidas
      BY <3>1 DEF SementeInv, LeituraCerta
    <3>4. CASE ContaPerdida
      <4>1. PICK i \in achados : etapa = "usuarios" /\ chave[i] # Linha.chave
        BY <3>4 DEF ContaPerdida
      <4>2. i \in ({Linha.id} \cup achados) \cap existem
        BY <3>2
      <4>3. ContaRenomeada
        BY <4>1, <4>2 DEF ContaRenomeada
      <4>. QED  BY <4>3
    <3>5. CASE achados = {} /\ PorId # {}
      <4>1. Linha.id \in existem /\ etapa \in {"usuarios", "clientes", "veiculos"}
        BY <3>1, <3>3, <3>5 DEF PorId, Tabelas
      <4>2. CASE chave[Linha.id] = Linha.chave
        BY <3>3, <3>5, <4>1, <4>2 DEF ChavePerdida, ComChave, MesmaTabela
      <4>3. CASE chave[Linha.id] # Linha.chave
        <5>1. etapa = "usuarios"
          BY <3>1, <4>1, <4>3 DEF SementeInv, IndiceCerto, FixasCertas, Linha
        <5>2. Linha.id \in ({Linha.id} \cup achados) \cap existem
          BY <4>1
        <5>3. ContaRenomeada
          BY <4>3, <5>1, <5>2 DEF ContaRenomeada
        <5>. QED  BY <5>3
      <4>. QED  BY <4>2, <4>3
    <3>6. ASSUME achados = {} \/ etapa = "pecas", Repetida(Linha.id, Linha.chave)
          PROVE  CodigoTomado \/ ChavePerdida
      <4>1. PICK j \in existem \ {Linha.id} : /\ Linha.chave # SemChave
                                               /\ MesmaTabela(Linha.id, j) /\ chave[j] = Linha.chave
        BY <3>6 DEF Repetida
      <4>2. CASE etapa = "pecas"
        BY <3>1, <4>1, <4>2
           DEF CodigoTomado, MesmaTabela, Pecas, SementeInv, SemeaduraTypeOK, CadastroTypeOK
      <4>3. CASE etapa # "pecas"
        BY <3>1, <3>3, <3>6, <4>1, <4>3 DEF ChavePerdida, ComChave, MesmaTabela, Tabelas
      <4>. QED  BY <4>2, <4>3
    <3>. QED  BY <3>1, <3>4, <3>5, <3>6 DEF Recusado
  <2>3. ~(CriarOrdem /\ indice \in semeadas)
    BY NaoRecusada DEF CriarOrdem
  <2>. QED  BY <2>1, <2>2, <2>3
<1>2. SementeInv /\ [NextSemeadura]_varsSemeadura => [FalhaJustificada]_varsSemeadura
  BY <1>1
<1>3. SpecSemeadura => [][FalhaJustificada]_varsSemeadura
  BY <1>2, SementeSegura, PTL DEF SpecSemeadura
<1>. QED  BY <1>3 DEF SementeRefaz, FalhaJustificada

==============================================================================
