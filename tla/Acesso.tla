--------------------------------- MODULE Acesso ---------------------------------
(***************************************************************************)
(* Who may do what: login, the chain of guards in front of every handler,  *)
(* and the accounts of the back office, which change under both.           *)
(*                                                                         *)
(* A token says who its bearer was when it was signed.  Every guarded      *)
(* request reads the account again and goes on with the role found there;  *)
(* its handler writes some awaits later, when account and password may     *)
(* have changed once more.  A client of the workshop has no account: the   *)
(* gateway vouches for the document in a header, on the routes of role     *)
(* CLIENTE only.                                                           *)
(*                                                                         *)
(* Variables of the database: contas; papel, ativo and senha, their        *)
(* columns (a hash stands for the password it is of).  tokens are those    *)
(* signed and not expired.                                                 *)
(* Variables of the requests: fase, the await each is at; pedido, its      *)
(* locals, request.user (sub, papel) among them.                           *)
(* Auxiliary: acessos, the roles the bearer had, active, since its request *)
(* arrived; provas, the passwords of the account the request is about      *)
(* since then; pedidos carries the bound of a run.                         *)
(***************************************************************************)
EXTENDS Integers

CONSTANTS
    Contas,           \* account ids
    ContasIniciais, PapelInicial,
    Senhas, SenhaInicial,
    Documentos,       \* CPFs and CNPJs of clients, well formed
    Ninguem,          \* no account and no document
    ExigeGateway,     \* NODE_ENV = production and REQUIRE_GATEWAY_HEADERS = true
    Pedidos,
    MaxPedidos        \* bound: requests ever received

RoleAdmin == {"ADMIN", "GERENTE", "MECANICO", "ATENDENTE"}
AppRole == RoleAdmin \cup {"CLIENTE"}

ASSUME AcessoAssumption ==
    /\ ContasIniciais \subseteq Contas
    /\ PapelInicial \in [Contas -> RoleAdmin]
    /\ SenhaInicial \in Senhas
    /\ Ninguem \notin Contas \cup Documentos
    /\ ExigeGateway \in BOOLEAN
    /\ MaxPedidos \in Nat

VARIABLES contas, papel, ativo, senha, tokens, fase, pedido, acessos, provas, pedidos

cadastro == <<contas, papel, ativo, senha>>
vars == <<cadastro, tokens, fase, pedido, acessos, provas, pedidos>>

------------------------------------------------------------------------------
\* Routes and guards

Escritorio == {"ADMIN", "GERENTE", "ATENDENTE"}
Oficina == {"ADMIN", "GERENTE", "MECANICO"}
Gestao == {"ADMIN", "GERENTE"}

\* @Roles of the routes that are not @Public, by controller; those of one
\* controller with the same roles are one.  A change of password has none.
PapeisDeUsuario ==
    [criarUsuario |-> {"ADMIN"}, atualizarUsuario |-> {"ADMIN"}, lerUsuarios |-> Gestao,
     alterarSenha |-> {}]
PapeisDoPortal == [statusDaOs |-> {"CLIENTE"}, aprovarOrcamento |-> {"CLIENTE"}]
PapeisDeOrdemServico ==
    [lerOrdens |-> RoleAdmin, tempoMedio |-> Gestao, diagnostico |-> Oficina,
     gerarOrcamento |-> Oficina, finalizar |-> Oficina, entregar |-> Escritorio]
PapeisDeCliente == [clientes |-> Escritorio, inativarCliente |-> Gestao]
PapeisDeVeiculo == [veiculos |-> Escritorio, inativarVeiculo |-> Gestao]
PapeisDeServico == [servicos |-> Gestao]
PapeisDePeca == [pecas |-> Gestao]

Controllers == {PapeisDeUsuario, PapeisDoPortal, PapeisDeOrdemServico, PapeisDeCliente,
                PapeisDeVeiculo, PapeisDeServico, PapeisDePeca}

Rotas == UNION {DOMAIN c : c \in Controllers}

PapeisDe == [rota \in Rotas |-> (CHOOSE c \in Controllers : rota \in DOMAIN c)[rota]]

\* Those whose handlers change accounts.
RotasDeConta == {"criarUsuario", "atualizarUsuario", "alterarSenha"}

Token == [sub : Contas, papel : RoleAdmin]

(* ClienteAuthGuard: on a route of clients, the gateway's mark where it is *)
(* required and a document; it is passed over on the others.               *)
ClienteAuth(rota, documento, marcado) ==
    "CLIENTE" \in PapeisDe[rota] => (ExigeGateway => marcado) /\ documento # Ninguem

\* Mutant: the token is believed.
JwtStrategyDoToken(t) == t.papel

(* JwtStrategy.validate: the role the account has now.                     *)
JwtStrategy(t) == papel[t.sub]

(* RolesGuard.                                                             *)
RolesGuard(rota, p) == PapeisDe[rota] = {} \/ p \in PapeisDe[rota]

------------------------------------------------------------------------------
Fases == {"livre", "assinar", "executar", "gravar"}
Nomes == {"papel", "ativo"}

Pedido == [rota : Rotas \cup {"login", "nenhuma"}, sub : Contas \cup Documentos \cup {Ninguem},
           papel : AppRole, conta : Contas \cup {Ninguem}, nomeados : SUBSET Nomes,
           novoPapel : RoleAdmin, novoAtivo : BOOLEAN, atual : Senhas, nova : Senhas]

PedidoVazio == [rota |-> "nenhuma", sub |-> Ninguem, papel |-> "CLIENTE", conta |-> Ninguem,
                nomeados |-> {}, novoPapel |-> "ATENDENTE", novoAtivo |-> TRUE,
                atual |-> SenhaInicial, nova |-> SenhaInicial]

Init ==
    /\ contas = ContasIniciais
    /\ papel = PapelInicial
    /\ ativo = [c \in Contas |-> TRUE]
    /\ senha = [c \in Contas |-> SenhaInicial]
    /\ tokens = {}
    /\ fase = [r \in Pedidos |-> "livre"]
    /\ pedido = [r \in Pedidos |-> PedidoVazio]
    /\ acessos = [r \in Pedidos |-> {}]
    /\ provas = [r \in Pedidos |-> {}]
    /\ pedidos = 0

\* The roles c may be said to have now, its password.
Acesso(c) == {papel[x] : x \in {x \in contas : x = c /\ ativo[x]}}
Prova(c) == {senha[x] : x \in {x \in contas : x = c}}

Chegar(r, p, f) ==
    /\ fase[r] = "livre"
    /\ pedidos < MaxPedidos
    /\ fase' = [fase EXCEPT ![r] = f]
    /\ pedido' = [pedido EXCEPT ![r] = p]
    /\ acessos' = [acessos EXCEPT ![r] = Acesso(p.sub)]
    /\ provas' = [provas EXCEPT ![r] = Prova(p.conta)]
    /\ pedidos' = pedidos + 1
    /\ UNCHANGED <<cadastro, tokens>>

\* Mutant: answered, and request.user kept.
EncerrarSemLimpar(r) ==
    /\ fase' = [fase EXCEPT ![r] = "livre"]
    /\ UNCHANGED <<pedido, pedidos>>

Encerrar(r) ==
    /\ fase' = [fase EXCEPT ![r] = "livre"]
    /\ pedido' = [pedido EXCEPT ![r] = PedidoVazio]
    /\ UNCHANGED pedidos

\* The request is answered; the accounts are as they were.
Responder(r) ==
    /\ Encerrar(r)
    /\ acessos' = [acessos EXCEPT ![r] = {}]
    /\ provas' = [provas EXCEPT ![r] = {}]
    /\ UNCHANGED cadastro

\* r writes account c and is answered; the others in flight see the new row.
Anotar(r, c) ==
    /\ acessos' = [q \in Pedidos |->
                      IF q = r THEN {}
                      ELSE acessos[q] \cup {papel'[x] : x \in {x \in {c} : pedido[q].sub = x /\ ativo'[x]}}]
    /\ provas' = [q \in Pedidos |->
                     IF q = r THEN {}
                     ELSE provas[q] \cup {senha'[x] : x \in {x \in {c} : pedido[q].conta = x}}]
    /\ Encerrar(r)

------------------------------------------------------------------------------
\* LoginAdmin

(* The account is read by its e-mail; unknown, inactive or with another    *)
(* password: 401.                                                          *)
Entrar(r, c, s) ==
    /\ c \in contas
    /\ ativo[c]
    /\ senha[c] = s
    /\ Chegar(r, [PedidoVazio EXCEPT !.rota = "login", !.sub = c, !.conta = c,
                                     !.papel = papel[c], !.atual = s], "assinar")

(* signAsync: the row read is what the token says.                         *)
Assinar(r) ==
    /\ fase[r] = "assinar"
    /\ tokens' = tokens \cup {[sub |-> pedido[r].sub, papel |-> pedido[r].papel]}
    /\ Responder(r)

Expirar(t) ==
    /\ tokens' = tokens \ {t}
    /\ UNCHANGED <<cadastro, fase, pedido, acessos, provas, pedidos>>

------------------------------------------------------------------------------
\* A request that gets past the guards (401 and 403 change nothing)

(* Of a client: no token is looked at.                                     *)
ChegarCliente(r, rota, d, marcado) ==
    /\ "CLIENTE" \in PapeisDe[rota]
    /\ ClienteAuth(rota, d, marcado)
    /\ RolesGuard(rota, "CLIENTE")
    /\ Chegar(r, [PedidoVazio EXCEPT !.rota = rota, !.sub = d, !.papel = "CLIENTE"], "executar")

(* Of the bearer of a token, on a route with nothing to do with accounts.  *)
ChegarPortador(r, t, rota) ==
    /\ rota \in Rotas \ RotasDeConta
    /\ ClienteAuth(rota, Ninguem, FALSE)
    /\ t.sub \in contas /\ ativo[t.sub]
    /\ RolesGuard(rota, JwtStrategy(t))
    /\ Chegar(r, [PedidoVazio EXCEPT !.rota = rota, !.sub = t.sub, !.papel = JwtStrategy(t)], "executar")

(* POST usuarios: no e-mail in use (Cadastro); c is the uuid.              *)
ChegarCriacao(r, t, c, p, s) ==
    /\ t.sub \in contas /\ ativo[t.sub]
    /\ RolesGuard("criarUsuario", JwtStrategy(t))
    /\ c \notin contas /\ \A q \in Pedidos : pedido[q].conta # c
    /\ Chegar(r, [PedidoVazio EXCEPT !.rota = "criarUsuario", !.sub = t.sub, !.papel = JwtStrategy(t),
                                     !.conta = c, !.novoPapel = p, !.nova = s], "executar")

(* PATCH usuarios/:id: role and ativo, if the body names them.             *)
ChegarAtualizacao(r, t, c, n, p, a) ==
    /\ t.sub \in contas /\ ativo[t.sub]
    /\ RolesGuard("atualizarUsuario", JwtStrategy(t))
    /\ Chegar(r, [PedidoVazio EXCEPT !.rota = "atualizarUsuario", !.sub = t.sub, !.papel = JwtStrategy(t),
                                     !.conta = c, !.nomeados = n,
                                     !.novoPapel = IF "papel" \in n THEN p ELSE @,
                                     !.novoAtivo = IF "ativo" \in n THEN a ELSE @], "executar")

(* PATCH usuarios/:id/senha: the bearer's own account, or an ADMIN.        *)
ChegarSenha(r, t, c, s, n) ==
    /\ t.sub \in contas /\ ativo[t.sub]
    /\ RolesGuard("alterarSenha", JwtStrategy(t))
    /\ t.sub = c \/ JwtStrategy(t) = "ADMIN"
    /\ Chegar(r, [PedidoVazio EXCEPT !.rota = "alterarSenha", !.sub = t.sub, !.papel = JwtStrategy(t),
                                     !.conta = c, !.atual = s, !.nova = n], "executar")

------------------------------------------------------------------------------
\* The handlers

\* Every other handler does its work, in the modules of its component.
Operar(r) ==
    /\ fase[r] = "executar"
    /\ pedido[r].rota \notin RotasDeConta
    /\ Responder(r)
    /\ UNCHANGED tokens

\* Mutant: an ADMIN need not know the password it changes.
LerContaSemProva(r) ==
    LET p == pedido[r] IN
    /\ fase[r] = "executar"
    /\ p.rota \in RotasDeConta
    /\ IF \/ p.rota = "criarUsuario"
          \/ p.rota = "atualizarUsuario" /\ p.conta \in contas
          \/ p.rota = "alterarSenha" /\ p.conta \in contas /\ (p.papel = "ADMIN" \/ senha[p.conta] = p.atual)
       THEN fase' = [fase EXCEPT ![r] = "gravar"] /\ UNCHANGED <<cadastro, pedido, acessos, provas, pedidos>>
       ELSE Responder(r)
    /\ UNCHANGED tokens

(* The account is read: 404, or, when its password is compared with the    *)
(* one given and differs, 401.                                             *)
LerConta(r) ==
    LET p == pedido[r] IN
    /\ fase[r] = "executar"
    /\ p.rota \in RotasDeConta
    /\ IF \/ p.rota = "criarUsuario"
          \/ p.rota = "atualizarUsuario" /\ p.conta \in contas
          \/ p.rota = "alterarSenha" /\ p.conta \in contas /\ senha[p.conta] = p.atual
       THEN fase' = [fase EXCEPT ![r] = "gravar"] /\ UNCHANGED <<cadastro, pedido, acessos, provas, pedidos>>
       ELSE Responder(r)
    /\ UNCHANGED tokens

GravarCriacao(r) ==
    LET p == pedido[r] IN
    /\ fase[r] = "gravar"
    /\ p.rota = "criarUsuario"
    /\ contas' = contas \cup {p.conta}
    /\ papel' = [papel EXCEPT ![p.conta] = p.novoPapel]
    /\ ativo' = [ativo EXCEPT ![p.conta] = TRUE]
    /\ senha' = [senha EXCEPT ![p.conta] = p.nova]
    /\ UNCHANGED tokens
    /\ Anotar(r, p.conta)

GravarAtualizacao(r) ==
    LET p == pedido[r] IN
    /\ fase[r] = "gravar"
    /\ p.rota = "atualizarUsuario"
    /\ papel' = [papel EXCEPT ![p.conta] = IF "papel" \in p.nomeados THEN p.novoPapel ELSE @]
    /\ ativo' = [ativo EXCEPT ![p.conta] = IF "ativo" \in p.nomeados THEN p.novoAtivo ELSE @]
    /\ UNCHANGED <<contas, senha, tokens>>
    /\ Anotar(r, p.conta)

GravarSenha(r) ==
    LET p == pedido[r] IN
    /\ fase[r] = "gravar"
    /\ p.rota = "alterarSenha"
    /\ senha' = [senha EXCEPT ![p.conta] = p.nova]
    /\ UNCHANGED <<contas, papel, ativo, tokens>>
    /\ Anotar(r, p.conta)

Requisicao(r) ==
    \/ \E c \in Contas, s \in Senhas : Entrar(r, c, s)
    \/ \E rota \in Rotas, d \in Documentos, m \in BOOLEAN : ChegarCliente(r, rota, d, m)
    \/ \E t \in tokens :
          \/ \E rota \in Rotas : ChegarPortador(r, t, rota)
          \/ \E c \in Contas, p \in RoleAdmin, s \in Senhas : ChegarCriacao(r, t, c, p, s)
          \/ \E c \in Contas, n \in SUBSET Nomes, p \in RoleAdmin, a \in BOOLEAN :
                ChegarAtualizacao(r, t, c, n, p, a)
          \/ \E c \in Contas, s \in Senhas, n \in Senhas : ChegarSenha(r, t, c, s, n)

Next ==
    \/ \E r \in Pedidos :
         \/ Requisicao(r)
         \/ Assinar(r)
         \/ Operar(r)
         \/ LerConta(r)
         \/ GravarCriacao(r)
         \/ GravarAtualizacao(r)
         \/ GravarSenha(r)
    \/ \E t \in tokens : Expirar(t)

Spec == Init /\ [][Next]_vars

------------------------------------------------------------------------------
\* Properties

AcessoTypeOK ==
    /\ contas \subseteq Contas
    /\ papel \in [Contas -> RoleAdmin]
    /\ ativo \in [Contas -> BOOLEAN]
    /\ senha \in [Contas -> Senhas]
    /\ tokens \subseteq Token
    /\ fase \in [Pedidos -> Fases]
    /\ pedido \in [Pedidos -> Pedido]
    /\ acessos \in [Pedidos -> SUBSET RoleAdmin]
    /\ provas \in [Pedidos -> SUBSET Senhas]
    /\ \A r \in Pedidos : fase[r] = "livre" => pedido[r] = PedidoVazio
    /\ pedidos \in 0..MaxPedidos

\* r does what its route is for: the last step of its handler.
Efetua(r) == fase[r] \in {"executar", "gravar"} /\ fase'[r] = "livre"

(* Whatever a handler does for a bearer, the bearer's account was active   *)
(* at some moment since that request arrived, with a role the route is     *)
(* for: a token signed for a role, or an account, that was taken away      *)
(* before the request arrived achieves nothing.                            *)
ContaVigente ==
    [][\A r \in Pedidos :
          Efetua(r) /\ pedido[r].papel # "CLIENTE" =>
              \E p \in acessos[r] : PapeisDe[pedido[r].rota] = {} \/ p \in PapeisDe[pedido[r].rota]]_vars

(* A token is signed, and a password replaced, only for a caller that gave *)
(* a password the account had while the request was in flight, however     *)
(* changes of it race; to change another's one must also know it.          *)
SenhaComprovada ==
    [][\A r \in Pedidos, c \in Contas :
          \/ fase[r] = "assinar" /\ fase'[r] = "livre" /\ pedido[r].conta = c
          \/ fase[r] = "gravar" /\ fase'[r] = "livre" /\ c \in contas /\ senha'[c] # senha[c]
             /\ pedido[r].conta = c
          => pedido[r].atual \in provas[r]]_vars

==============================================================================
