------------------------------ MODULE AcessoProofs ------------------------------
(***************************************************************************)
(* Proofs about Acesso: the types, that no handler acts for an account     *)
(* which was not active, with a role of the route, while the request was   *)
(* in flight, and that no password is replaced, nor token signed, without  *)
(* a proof of the password, for any number of requests and accounts.       *)
(***************************************************************************)
EXTENDS Acesso, TLAPS

------------------------------------------------------------------------------
\* Type correctness

LEMMA RotasConhecidas == RotasDeConta \subseteq Rotas
BY DEF RotasDeConta, Rotas, Controllers, PapeisDeUsuario

\* No route about accounts is a client's.
LEMMA PapeisDeConta == \A rota \in RotasDeConta : "CLIENTE" \notin PapeisDe[rota]
<1>. SUFFICES ASSUME NEW rota \in RotasDeConta PROVE "CLIENTE" \notin PapeisDe[rota]
  OBVIOUS
<1>1. PapeisDeUsuario \in Controllers /\ rota \in DOMAIN PapeisDeUsuario
  BY DEF Controllers, PapeisDeUsuario, RotasDeConta
<1>2. \A c \in Controllers \ {PapeisDeUsuario} : rota \notin DOMAIN c
  BY DEF Controllers, RotasDeConta, PapeisDoPortal, PapeisDeOrdemServico, PapeisDeCliente,
         PapeisDeVeiculo, PapeisDeServico, PapeisDePeca
<1>3. (CHOOSE c \in Controllers : rota \in DOMAIN c) = PapeisDeUsuario
  BY <1>1, <1>2
<1>4. PapeisDe[rota] = PapeisDeUsuario[rota]
  BY <1>3, RotasConhecidas DEF PapeisDe
<1>. QED
  BY <1>4 DEF PapeisDeUsuario, RotasDeConta

LEMMA PedidoVazioTipado == PedidoVazio \in Pedido
BY AcessoAssumption DEF PedidoVazio, Pedido, AppRole, RoleAdmin

LEMMA InitAcessoTypeOK == Init => AcessoTypeOK
BY AcessoAssumption, PedidoVazioTipado DEF Init, AcessoTypeOK, Fases, Token

LEMMA ChegarTipado ==
    ASSUME AcessoTypeOK, NEW r \in Pedidos, NEW p \in Pedido, NEW f \in Fases \ {"livre"},
           Chegar(r, p, f)
    PROVE  AcessoTypeOK'
<1>1. pedidos' \in 0..MaxPedidos
  BY AcessoAssumption DEF AcessoTypeOK, Chegar
<1>2. Acesso(p.sub) \subseteq RoleAdmin /\ Prova(p.conta) \subseteq Senhas
  BY DEF Acesso, Prova, AcessoTypeOK
<1>. QED
  BY <1>1, <1>2 DEF AcessoTypeOK, Chegar, cadastro

LEMMA ResponderTipado ==
    ASSUME AcessoTypeOK, NEW r \in Pedidos, Responder(r), tokens' \subseteq Token
    PROVE  AcessoTypeOK'
BY PedidoVazioTipado DEF AcessoTypeOK, Responder, Encerrar, cadastro, Fases

LEMMA AnotarTipado ==
    ASSUME AcessoTypeOK, NEW r \in Pedidos, NEW c \in Contas, Anotar(r, c), UNCHANGED tokens,
           contas' \subseteq Contas, papel' \in [Contas -> RoleAdmin],
           ativo' \in [Contas -> BOOLEAN], senha' \in [Contas -> Senhas]
    PROVE  AcessoTypeOK'
<1>1. acessos' \in [Pedidos -> SUBSET RoleAdmin] /\ provas' \in [Pedidos -> SUBSET Senhas]
  BY DEF AcessoTypeOK, Anotar
<1>. QED
  BY <1>1, PedidoVazioTipado DEF AcessoTypeOK, Anotar, Encerrar, Fases

LEMMA GravacaoTipada ==
    ASSUME AcessoTypeOK, NEW r \in Pedidos, pedido[r].conta \in Contas,
           GravarCriacao(r) \/ GravarAtualizacao(r) \/ GravarSenha(r)
    PROVE  AcessoTypeOK'
<1>1. pedido[r] \in Pedido
  BY DEF AcessoTypeOK
<1>2. CASE GravarCriacao(r)
  BY <1>1, <1>2, AnotarTipado DEF GravarCriacao, AcessoTypeOK, Pedido
<1>3. CASE GravarAtualizacao(r)
  BY <1>1, <1>3, AnotarTipado DEF GravarAtualizacao, AcessoTypeOK, Pedido
<1>4. CASE GravarSenha(r)
  BY <1>1, <1>4, AnotarTipado DEF GravarSenha, AcessoTypeOK, Pedido
<1>. QED
  BY <1>2, <1>3, <1>4

------------------------------------------------------------------------------
\* The inductive invariant

\* A request past its guards goes on with a role the route admits, and its
\* bearer had, active, since it arrived.
Vigencia ==
    \A r \in Pedidos :
        fase[r] \in {"executar", "gravar"} /\ pedido[r].papel # "CLIENTE" =>
            /\ pedido[r].papel \in acessos[r]
            /\ PapeisDe[pedido[r].rota] = {} \/ pedido[r].papel \in PapeisDe[pedido[r].rota]

\* The password an account has now is among those each request about it saw.
Testemunhas ==
    \A r \in Pedidos :
        fase[r] # "livre" /\ pedido[r].conta \in contas => senha[pedido[r].conta] \in provas[r]

\* Past the comparison of passwords, the one given was once the account's.
Comparadas ==
    \A r \in Pedidos :
        fase[r] = "assinar" \/ (fase[r] = "gravar" /\ pedido[r].rota = "alterarSenha") =>
            pedido[r].atual \in provas[r]

\* The account of a request: every request that writes one names it, and
\* nobody else is about to create the account a request is creating.
ContaCerta ==
    \A r \in Pedidos :
        /\ fase[r] = "gravar" => pedido[r].rota \in RotasDeConta
        /\ pedido[r].rota \in RotasDeConta => pedido[r].conta \in Contas
        /\ pedido[r].rota = "criarUsuario" =>
              /\ pedido[r].conta \notin contas
              /\ \A q \in Pedidos \ {r} :
                    pedido[q].rota = "criarUsuario" => pedido[q].conta # pedido[r].conta

\* A login's row is an account's, with the role it had.
Entrada ==
    \A r \in Pedidos :
        fase[r] = "assinar" => pedido[r].sub \in Contas /\ pedido[r].papel \in RoleAdmin

AcessoInv == AcessoTypeOK /\ Entrada /\ Vigencia /\ Testemunhas /\ Comparadas /\ ContaCerta

LEMMA InitAcessoInv == Init => AcessoInv
BY InitAcessoTypeOK
   DEF Init, AcessoInv, Entrada, Vigencia, Testemunhas, Comparadas, ContaCerta, PedidoVazio, RotasDeConta

(* A request arrives, past its guards or past a login's comparison.        *)
LEMMA AcessoInvDaChegada ==
    ASSUME AcessoInv, NEW r \in Pedidos, NEW p \in Pedido,
           NEW f \in {"assinar", "executar"}, Chegar(r, p, f),
           f = "executar" /\ p.papel # "CLIENTE" =>
              /\ p.papel \in Acesso(p.sub)
              /\ PapeisDe[p.rota] = {} \/ p.papel \in PapeisDe[p.rota],
           f = "assinar" => p.atual \in Prova(p.conta) /\ p.rota \notin RotasDeConta /\ p.sub \in Contas
                              /\ p.papel \in RoleAdmin,
           p.rota \in RotasDeConta => p.conta \in Contas,
           p.rota = "criarUsuario" =>
              p.conta \notin contas /\ \A q \in Pedidos : pedido[q].conta # p.conta
    PROVE  AcessoInv'
<1>. AcessoTypeOK /\ AcessoTypeOK'
  BY ChegarTipado DEF AcessoInv, Fases
<1>1. /\ fase' = [fase EXCEPT ![r] = f] /\ pedido' = [pedido EXCEPT ![r] = p]
      /\ acessos' = [acessos EXCEPT ![r] = Acesso(p.sub)]
      /\ provas' = [provas EXCEPT ![r] = Prova(p.conta)]
      /\ UNCHANGED <<contas, papel, ativo, senha>>
  BY DEF Chegar, cadastro
<1>2. /\ fase'[r] = f /\ pedido'[r] = p /\ acessos'[r] = Acesso(p.sub) /\ provas'[r] = Prova(p.conta)
      /\ \A q \in Pedidos \ {r} :
            /\ fase'[q] = fase[q] /\ pedido'[q] = pedido[q]
            /\ acessos'[q] = acessos[q] /\ provas'[q] = provas[q]
  BY <1>1 DEF AcessoInv, AcessoTypeOK
<1>3. Vigencia'
  BY <1>2 DEF Vigencia, AcessoInv
<1>7. Entrada'
  BY <1>2 DEF Entrada, AcessoInv
<1>4. Testemunhas'
  <2>1. p.conta \in contas => senha[p.conta] \in Prova(p.conta)
    BY DEF Prova
  <2>. QED  BY <1>1, <1>2, <2>1 DEF Testemunhas, AcessoInv
<1>5. Comparadas'
  BY <1>2 DEF Comparadas, AcessoInv
<1>6. ContaCerta'
  BY <1>1, <1>2 DEF ContaCerta, AcessoInv
<1>. QED
  BY <1>3, <1>4, <1>5, <1>6, <1>7 DEF AcessoInv

LEMMA AcessoInvDaRequisicao ==
    ASSUME AcessoInv, NEW r \in Pedidos, Requisicao(r)
    PROVE  AcessoInv'
<1>. AcessoTypeOK
  BY DEF AcessoInv
<1>1. ASSUME NEW c \in Contas, NEW s \in Senhas, Entrar(r, c, s) PROVE AcessoInv'
  <2>. DEFINE p == [PedidoVazio EXCEPT !.rota = "login", !.sub = c, !.conta = c,
                                       !.papel = papel[c], !.atual = s]
  <2>1. /\ p \in Pedido /\ p.rota = "login" /\ p.conta = c /\ p.atual = s
        /\ p.sub = c /\ p.papel = papel[c] /\ papel[c] \in RoleAdmin
    BY PedidoVazioTipado DEF Pedido, PedidoVazio, AcessoTypeOK, AppRole
  <2>2. s \in Prova(c) /\ Chegar(r, p, "assinar")
    BY <1>1 DEF Entrar, Prova
  <2>. QED  BY <2>1, <2>2, AcessoInvDaChegada DEF RotasDeConta
<1>2. ASSUME NEW rota \in Rotas, NEW d \in Documentos, NEW m \in BOOLEAN,
             ChegarCliente(r, rota, d, m)
      PROVE  AcessoInv'
  <2>. DEFINE p == [PedidoVazio EXCEPT !.rota = rota, !.sub = d, !.papel = "CLIENTE"]
  <2>1. p \in Pedido /\ p.papel = "CLIENTE" /\ p.rota = rota
    BY PedidoVazioTipado DEF Pedido, PedidoVazio, AppRole
  <2>2. rota \notin RotasDeConta /\ Chegar(r, p, "executar")
    BY <1>2, PapeisDeConta DEF ChegarCliente
  <2>. QED  BY <2>1, <2>2, AcessoInvDaChegada DEF RotasDeConta
<1>3. ASSUME NEW t \in tokens, NEW rota \in Rotas, ChegarPortador(r, t, rota)
      PROVE  AcessoInv'
  <2>. DEFINE p == [PedidoVazio EXCEPT !.rota = rota, !.sub = t.sub, !.papel = papel[t.sub]]
  <2>1. t.sub \in Contas /\ papel[t.sub] \in AppRole
    BY DEF AcessoTypeOK, Token, AppRole
  <2>2. /\ p \in Pedido /\ p.rota = rota /\ p.sub = t.sub /\ p.papel = papel[t.sub]
    BY <2>1, PedidoVazioTipado DEF Pedido, PedidoVazio
  <2>3. /\ rota \notin RotasDeConta /\ Chegar(r, p, "executar") /\ RolesGuard(rota, papel[t.sub])
        /\ papel[t.sub] \in Acesso(t.sub)
    BY <1>3 DEF ChegarPortador, JwtStrategy, Acesso
  <2>. QED  BY <2>2, <2>3, AcessoInvDaChegada DEF RotasDeConta, RolesGuard
<1>4. ASSUME NEW t \in tokens, NEW c \in Contas, NEW pp \in RoleAdmin, NEW s \in Senhas,
             ChegarCriacao(r, t, c, pp, s)
      PROVE  AcessoInv'
  <2>. DEFINE p == [PedidoVazio EXCEPT !.rota = "criarUsuario", !.sub = t.sub, !.papel = papel[t.sub],
                                       !.conta = c, !.novoPapel = pp, !.nova = s]
  <2>0. t.sub \in Contas /\ papel[t.sub] \in AppRole
    BY DEF AcessoTypeOK, Token, AppRole
  <2>1. p \in Pedido /\ p.rota = "criarUsuario" /\ p.sub = t.sub /\ p.papel = papel[t.sub] /\ p.conta = c
    BY <2>0, RotasConhecidas, PedidoVazioTipado DEF Pedido, PedidoVazio, RotasDeConta
  <2>2. /\ Chegar(r, p, "executar") /\ RolesGuard("criarUsuario", papel[t.sub])
        /\ papel[t.sub] \in Acesso(t.sub)
        /\ c \notin contas /\ \A q \in Pedidos : pedido[q].conta # c
    BY <1>4 DEF ChegarCriacao, JwtStrategy, Acesso
  <2>. QED  BY <2>1, <2>2, AcessoInvDaChegada DEF RolesGuard
<1>5. ASSUME NEW t \in tokens, NEW c \in Contas, NEW n \in SUBSET Nomes, NEW pp \in RoleAdmin,
             NEW a \in BOOLEAN, ChegarAtualizacao(r, t, c, n, pp, a)
      PROVE  AcessoInv'
  <2>. DEFINE p == [PedidoVazio EXCEPT !.rota = "atualizarUsuario", !.sub = t.sub, !.papel = papel[t.sub],
                                       !.conta = c, !.nomeados = n,
                                       !.novoPapel = IF "papel" \in n THEN pp ELSE @,
                                       !.novoAtivo = IF "ativo" \in n THEN a ELSE @]
  <2>0. t.sub \in Contas /\ papel[t.sub] \in AppRole
    BY DEF AcessoTypeOK, Token, AppRole
  <2>1. p \in Pedido /\ p.rota = "atualizarUsuario" /\ p.sub = t.sub /\ p.papel = papel[t.sub] /\ p.conta = c
    BY <2>0, RotasConhecidas, PedidoVazioTipado DEF Pedido, PedidoVazio, RotasDeConta
  <2>2. /\ Chegar(r, p, "executar") /\ RolesGuard("atualizarUsuario", papel[t.sub])
        /\ papel[t.sub] \in Acesso(t.sub)
    BY <1>5 DEF ChegarAtualizacao, JwtStrategy, Acesso
  <2>. QED  BY <2>1, <2>2, AcessoInvDaChegada DEF RolesGuard
<1>6. ASSUME NEW t \in tokens, NEW c \in Contas, NEW s \in Senhas, NEW n \in Senhas,
             ChegarSenha(r, t, c, s, n)
      PROVE  AcessoInv'
  <2>. DEFINE p == [PedidoVazio EXCEPT !.rota = "alterarSenha", !.sub = t.sub, !.papel = papel[t.sub],
                                       !.conta = c, !.atual = s, !.nova = n]
  <2>0. t.sub \in Contas /\ papel[t.sub] \in AppRole
    BY DEF AcessoTypeOK, Token, AppRole
  <2>1. p \in Pedido /\ p.rota = "alterarSenha" /\ p.sub = t.sub /\ p.papel = papel[t.sub] /\ p.conta = c
    BY <2>0, RotasConhecidas, PedidoVazioTipado DEF Pedido, PedidoVazio, RotasDeConta
  <2>2. /\ Chegar(r, p, "executar") /\ RolesGuard("alterarSenha", papel[t.sub])
        /\ papel[t.sub] \in Acesso(t.sub)
    BY <1>6 DEF ChegarSenha, JwtStrategy, Acesso
  <2>. QED  BY <2>1, <2>2, AcessoInvDaChegada DEF RolesGuard
<1>. QED
  BY <1>1, <1>2, <1>3, <1>4, <1>5, <1>6 DEF Requisicao

(* A request ends and leaves the accounts as they were.                    *)
LEMMA AcessoInvDaResposta ==
    ASSUME AcessoInv, NEW r \in Pedidos, Responder(r), tokens' \subseteq Token
    PROVE  AcessoInv'
<1>. AcessoTypeOK /\ AcessoTypeOK'
  BY ResponderTipado DEF AcessoInv
<1>1. /\ fase'[r] = "livre" /\ pedido'[r] = PedidoVazio
      /\ \A q \in Pedidos \ {r} :
            /\ fase'[q] = fase[q] /\ pedido'[q] = pedido[q]
            /\ acessos'[q] = acessos[q] /\ provas'[q] = provas[q]
      /\ UNCHANGED <<contas, papel, ativo, senha>>
  BY DEF Responder, Encerrar, AcessoTypeOK, cadastro
<1>2. PedidoVazio.rota = "nenhuma"
  BY DEF PedidoVazio
<1>3. Entrada' /\ Vigencia' /\ Testemunhas' /\ Comparadas'
  BY <1>1 DEF AcessoInv, Entrada, Vigencia, Testemunhas, Comparadas
<1>4. ContaCerta'
  BY <1>1, <1>2 DEF AcessoInv, ContaCerta, RotasDeConta
<1>. QED
  BY <1>3, <1>4 DEF AcessoInv

(* A request writes its account: the other requests about it are shown.    *)
LEMMA AcessoInvDaGravacao ==
    ASSUME AcessoInv, AcessoTypeOK', NEW r \in Pedidos, fase[r] = "gravar", NEW c \in Contas,
           c = pedido[r].conta, Anotar(r, c),
           \A x \in Contas \ {c} : senha'[x] = senha[x],
           contas' = contas \/ (contas' = contas \cup {c} /\ pedido[r].rota = "criarUsuario")
    PROVE  AcessoInv'
<1>. AcessoTypeOK
  BY DEF AcessoInv
<1>1. /\ fase'[r] = "livre" /\ pedido'[r] = PedidoVazio
      /\ \A q \in Pedidos \ {r} :
            /\ fase'[q] = fase[q] /\ pedido'[q] = pedido[q]
            /\ acessos[q] \subseteq acessos'[q] /\ provas[q] \subseteq provas'[q]
            /\ pedido[q].conta = c => senha'[c] \in provas'[q]
  BY DEF Anotar, Encerrar, AcessoTypeOK
<1>2. PedidoVazio.rota = "nenhuma"
  BY DEF PedidoVazio
<1>3. Vigencia' /\ Entrada'
  BY <1>1 DEF AcessoInv, Vigencia, Entrada
<1>4. Testemunhas'
  <2>. SUFFICES ASSUME NEW q \in Pedidos \ {r}, fase'[q] # "livre", pedido'[q].conta \in contas'
                PROVE  senha'[pedido'[q].conta] \in provas'[q]
    BY <1>1 DEF Testemunhas
  <2>1. CASE pedido[q].conta = c
    BY <1>1, <2>1
  <2>2. CASE pedido[q].conta # c
    BY <1>1, <2>2 DEF AcessoInv, Testemunhas, AcessoTypeOK
  <2>. QED  BY <2>1, <2>2
<1>5. Comparadas'
  BY <1>1 DEF AcessoInv, Comparadas
<1>6. ContaCerta'
  BY <1>1, <1>2 DEF AcessoInv, ContaCerta, RotasDeConta
<1>. QED
  BY <1>3, <1>4, <1>5, <1>6 DEF AcessoInv

LEMMA NextAcessoInv == AcessoInv /\ [Next]_vars => AcessoInv'
<1>. SUFFICES ASSUME AcessoInv, [Next]_vars PROVE AcessoInv'
  OBVIOUS
<1>. AcessoTypeOK
  BY DEF AcessoInv
<1>1. ASSUME NEW r \in Pedidos, Requisicao(r) PROVE AcessoInv'
  BY <1>1, AcessoInvDaRequisicao
<1>2. ASSUME NEW r \in Pedidos, Assinar(r) PROVE AcessoInv'
  <2>1. [sub |-> pedido[r].sub, papel |-> pedido[r].papel] \in Token
    BY <1>2 DEF Assinar, AcessoInv, Entrada, Token
  <2>. QED  BY <1>2, <2>1, AcessoInvDaResposta DEF Assinar, AcessoTypeOK
<1>3. ASSUME NEW r \in Pedidos, Operar(r) PROVE AcessoInv'
  BY <1>3, AcessoInvDaResposta DEF Operar, AcessoTypeOK
<1>4. ASSUME NEW r \in Pedidos, LerConta(r) PROVE AcessoInv'
  <2>1. CASE Responder(r)
    BY <1>4, <2>1, AcessoInvDaResposta DEF LerConta, AcessoTypeOK
  <2>2. CASE ~Responder(r)
    <3>1. /\ fase[r] = "executar" /\ pedido[r].rota \in RotasDeConta
          /\ fase' = [fase EXCEPT ![r] = "gravar"]
          /\ UNCHANGED <<contas, papel, ativo, senha, pedido, acessos, provas, pedidos, tokens>>
          /\ pedido[r].rota = "alterarSenha" =>
                pedido[r].conta \in contas /\ senha[pedido[r].conta] = pedido[r].atual
      BY <1>4, <2>2 DEF LerConta, cadastro
    <3>2. fase'[r] = "gravar" /\ \A q \in Pedidos \ {r} : fase'[q] = fase[q]
      BY <3>1 DEF AcessoTypeOK
    <3>3. AcessoTypeOK'
      BY <3>1, <3>2 DEF AcessoTypeOK, Fases
    <3>4. Vigencia' /\ Entrada'
      BY <3>1, <3>2 DEF AcessoInv, Vigencia, Entrada
    <3>5. Testemunhas'
      BY <3>1, <3>2 DEF AcessoInv, Testemunhas
    <3>6. Comparadas'
      BY <3>1, <3>2 DEF AcessoInv, Comparadas, Testemunhas
    <3>7. ContaCerta'
      BY <3>1, <3>2 DEF AcessoInv, ContaCerta
    <3>. QED  BY <3>3, <3>4, <3>5, <3>6, <3>7 DEF AcessoInv
  <2>. QED  BY <2>1, <2>2
<1>5. ASSUME NEW r \in Pedidos, GravarCriacao(r) \/ GravarAtualizacao(r) \/ GravarSenha(r)
      PROVE  AcessoInv'
  <2>1. fase[r] = "gravar" /\ pedido[r].conta \in Contas
    BY <1>5 DEF AcessoInv, ContaCerta, GravarCriacao, GravarAtualizacao, GravarSenha
  <2>2. AcessoTypeOK'
    BY <1>5, <2>1, GravacaoTipada
  <2>3. /\ Anotar(r, pedido[r].conta)
        /\ \A x \in Contas \ {pedido[r].conta} : senha'[x] = senha[x]
        /\ \/ contas' = contas
           \/ contas' = contas \cup {pedido[r].conta} /\ pedido[r].rota = "criarUsuario"
    BY <1>5, <2>1 DEF GravarCriacao, GravarAtualizacao, GravarSenha, AcessoTypeOK
  <2>. QED  BY <2>1, <2>2, <2>3, AcessoInvDaGravacao
<1>6. ASSUME NEW t \in tokens, Expirar(t) PROVE AcessoInv'
  BY <1>6 DEF Expirar, cadastro, AcessoInv, AcessoTypeOK, Entrada, Vigencia,
         Testemunhas, Comparadas, ContaCerta
<1>7. CASE UNCHANGED vars
  BY <1>7 DEF vars, cadastro, AcessoInv, AcessoTypeOK, Entrada, Vigencia,
         Testemunhas, Comparadas, ContaCerta
<1>. QED
  BY <1>1, <1>2, <1>3, <1>4, <1>5, <1>6, <1>7 DEF Next

LEMMA AcessoInvSempre == Spec => []AcessoInv
BY InitAcessoInv, NextAcessoInv, PTL DEF Spec

------------------------------------------------------------------------------
\* Theorems

(* Every variable keeps its type, for every instance. *)
THEOREM AcessoTipado == Spec => []AcessoTypeOK
<1>1. AcessoInv => AcessoTypeOK
  BY DEF AcessoInv
<1>. QED  BY <1>1, AcessoInvSempre, PTL

(* ContaVigente: a handler that acts for a bearer of a token acts for an   *)
(* account that was active since the request arrived, with a role of the   *)
(* route, however accounts change meanwhile.                               *)
THEOREM ContaSempreVigente == Spec => ContaVigente
<1>1. AcessoInv =>
        \A r \in Pedidos :
          Efetua(r) /\ pedido[r].papel # "CLIENTE" =>
              \E p \in acessos[r] : PapeisDe[pedido[r].rota] = {} \/ p \in PapeisDe[pedido[r].rota]
  BY DEF AcessoInv, Vigencia, Efetua
<1>. QED  BY <1>1, AcessoInvSempre, PTL DEF ContaVigente

(* SenhaComprovada: a token is signed and a password replaced only for a   *)
(* caller that gave a password of that account.                            *)
THEOREM SenhaSempreComprovada == Spec => SenhaComprovada
<1>. DEFINE Provada ==
        \A r \in Pedidos, c \in Contas :
          \/ fase[r] = "assinar" /\ fase'[r] = "livre" /\ pedido[r].conta = c
          \/ fase[r] = "gravar" /\ fase'[r] = "livre" /\ c \in contas /\ senha'[c] # senha[c]
             /\ pedido[r].conta = c
          => pedido[r].atual \in provas[r]
<1>1. AcessoInv /\ [Next]_vars => Provada
  <2>. SUFFICES ASSUME AcessoInv, [Next]_vars, NEW r \in Pedidos, NEW c \in Contas,
                       fase[r] = "gravar", fase'[r] = "livre", c \in contas, senha'[c] # senha[c],
                       pedido[r].conta = c
                PROVE  pedido[r].atual \in provas[r]
    BY DEF AcessoInv, Comparadas
  <2>1. pedido[r].rota # "criarUsuario" /\ pedido[r].rota \in RotasDeConta
    BY DEF AcessoInv, ContaCerta
  <2>2. pedido[r].rota # "atualizarUsuario"
    <3>1. ~GravarAtualizacao(r)
      BY DEF GravarAtualizacao
    <3>2. \E q \in Pedidos : GravarCriacao(q) \/ GravarAtualizacao(q) \/ GravarSenha(q)
      <4>1. ~UNCHANGED cadastro
        BY DEF cadastro
      <4>2. \A q \in Pedidos : Requisicao(q) => UNCHANGED cadastro
        <5>1. \A q, p, f : Chegar(q, p, f) => UNCHANGED cadastro
          BY DEF Chegar
        <5>2. \A q, x, s : Entrar(q, x, s) => UNCHANGED cadastro
          BY <5>1 DEF Entrar
        <5>3. \A q, x, s, m : ChegarCliente(q, x, s, m) => UNCHANGED cadastro
          BY <5>1 DEF ChegarCliente
        <5>4. \A q, t, x : ChegarPortador(q, t, x) => UNCHANGED cadastro
          BY <5>1 DEF ChegarPortador
        <5>5. \A q, t, x, m, s : ChegarCriacao(q, t, x, m, s) => UNCHANGED cadastro
          BY <5>1 DEF ChegarCriacao
        <5>6. \A q, t, x, n, m, s : ChegarAtualizacao(q, t, x, n, m, s) => UNCHANGED cadastro
          BY <5>1 DEF ChegarAtualizacao
        <5>7. \A q, t, x, s, n : ChegarSenha(q, t, x, s, n) => UNCHANGED cadastro
          BY <5>1 DEF ChegarSenha
        <5>. QED
          BY <5>2, <5>3, <5>4, <5>5, <5>6, <5>7, Zenon DEF Requisicao
      <4>3. \A q \in Pedidos : Assinar(q) \/ Operar(q) \/ LerConta(q) => UNCHANGED cadastro
        BY DEF Assinar, Operar, LerConta, Responder
      <4>4. \A t \in tokens : Expirar(t) => UNCHANGED cadastro
        BY DEF Expirar
      <4>. QED
        BY <4>1, <4>2, <4>3, <4>4 DEF Next, vars
    <3>3. PICK q \in Pedidos : GravarCriacao(q) \/ GravarAtualizacao(q) \/ GravarSenha(q)
      BY <3>2
    <3>4. q = r
      BY <3>3 DEF GravarCriacao, GravarAtualizacao, GravarSenha, Anotar, Encerrar, AcessoInv, AcessoTypeOK
    <3>. QED  BY <3>1, <3>3, <3>4 DEF GravarCriacao, GravarSenha
  <2>. QED  BY <2>1, <2>2 DEF AcessoInv, Comparadas, RotasDeConta
<1>. QED  BY <1>1, AcessoInvSempre, PTL DEF SenhaComprovada, Spec

==============================================================================
