-------------------------------- MODULE Cadastro --------------------------------
(***************************************************************************)
(* The registry: clients, vehicles, catalogue services, parts and users of *)
(* the back office, registered, updated and made inactive by requests.     *)
(*                                                                         *)
(* A registration looks its key up (CPF/CNPJ, plate, internal code,        *)
(* e-mail) and inserts in another round trip; a vehicle reads its owner    *)
(* one more round trip earlier.  Only the unique index stands between two  *)
(* requests that both found nothing: the loser gets a P2002 that nothing   *)
(* translates (500).  An update reads the row and writes the columns its   *)
(* body names, by id; an inactivation writes one column.  No row of these  *)
(* tables is ever deleted.                                                 *)
(*                                                                         *)
(* Variables of the database: existem, the rows; chave, campo, ativos and  *)
(* dono (clienteId of a vehicle), their columns.                           *)
(* Variables of the requests: fase, the await each is at; pedido, its      *)
(* locals.  Auxiliary: mexidos, the rows written by anybody else since the *)
(* request arrived; pedidos carries the bound of a run.                    *)
(***************************************************************************)
EXTENDS Integers, FiniteSets

CONSTANTS
    Ids,
    Tabela,        \* Tabela[i]: the table id i is of
    IdsFixos,      \* those of the seed: no registration is given one
    Chaves,        \* values of the key columns
    SemChave,      \* a catalogue service has none
    Campos,        \* the other columns a body may name
    Valores,
    ValorInicial,  \* what a registration or the seed puts in them
    Ninguem,       \* no id
    Pedidos,       \* requests in flight together
    MaxPedidos,    \* bound: requests ever received
    MaxNomeados    \* bound: columns one body names

Tabelas == {"clientes", "veiculos", "servicos", "pecas", "usuarios"}

Clientes == {i \in Ids : Tabela[i] = "clientes"}
Veiculos == {i \in Ids : Tabela[i] = "veiculos"}
Servicos == {i \in Ids : Tabela[i] = "servicos"}
Pecas == {i \in Ids : Tabela[i] = "pecas"}
Usuarios == {i \in Ids : Tabela[i] = "usuarios"}

ASSUME TabelasAssumption == Tabela \in [Ids -> Tabelas] /\ IdsFixos \subseteq Ids
ASSUME CadastroAssumption ==
    /\ SemChave \notin Chaves
    /\ Ninguem \notin Ids
    /\ ValorInicial \in Valores
    /\ Campos \cap {"chave", "ativo"} = {}
    /\ MaxPedidos \in Nat /\ MaxNomeados \in Nat

VARIABLES existem, chave, campo, ativos, dono, fase, pedido, mexidos, pedidos

linhas == <<existem, chave, campo, ativos, dono>>
vars == <<linhas, fase, pedido, mexidos, pedidos>>

------------------------------------------------------------------------------
\* Types and helpers

Nomes == Campos \cup {"chave", "ativo"}
Registro == [Campos -> Valores]
RegistroInicial == [c \in Campos |-> ValorInicial]

\* The locals of a use case: lido and lidoAtivo are the row it read first.
Pedido == [alvo : Ids \cup {Ninguem}, chave : Chaves \cup {SemChave}, dono : Ids \cup {Ninguem},
           nomeados : SUBSET Nomes, valor : Valores, ativo : BOOLEAN,
           lido : Registro, lidoAtivo : BOOLEAN]

PedidoVazio == [alvo |-> Ninguem, chave |-> SemChave, dono |-> Ninguem, nomeados |-> {},
                valor |-> ValorInicial, ativo |-> TRUE,
                lido |-> RegistroInicial, lidoAtivo |-> TRUE]

Fases == {"livre", "recusada", "buscarPlaca", "inserir", "buscarEmail", "contar", "gravar"}

EmAndamento(r) == fase[r] \notin {"livre", "recusada"}

MesmaTabela(i, j) == Tabela[i] = Tabela[j]

\* Mutant: the look-up leaves inactive rows out.
ComChaveAtivos(i, k) == {j \in existem \cap ativos : MesmaTabela(i, j) /\ chave[j] = k}

\* findByCpfCnpj, findByPlaca, findByCodigoInterno, findByEmail: findUnique,
\* inactive rows included.
ComChave(i, k) == {j \in existem : MesmaTabela(i, j) /\ chave[j] = k}

\* The unique index refuses row i the key k.
Repetida(i, k) == \E j \in existem \ {i} : k # SemChave /\ MesmaTabela(i, j) /\ chave[j] = k

\* The rows in flight that others see change when row i is written.
Mexer(r, i) ==
    mexidos' = [q \in Pedidos |-> IF q # r /\ EmAndamento(q) THEN mexidos[q] \cup {i} ELSE {}]

Chegar(r, p, f) ==
    /\ fase' = [fase EXCEPT ![r] = f]
    /\ pedido' = [pedido EXCEPT ![r] = p]
    /\ pedidos' = pedidos + 1
    /\ UNCHANGED <<linhas, mexidos>>

\* Mutant: answered, and its locals kept.
EncerrarSemLimpar(r, f) ==
    /\ fase' = [fase EXCEPT ![r] = f]
    /\ UNCHANGED <<pedido, pedidos>>

Encerrar(r, f) ==
    /\ fase' = [fase EXCEPT ![r] = f]
    /\ pedido' = [pedido EXCEPT ![r] = PedidoVazio]
    /\ UNCHANGED pedidos

\* The request is answered, and nothing was written.
Recusar(r, f) ==
    /\ Encerrar(r, f)
    /\ mexidos' = [mexidos EXCEPT ![r] = {}]
    /\ UNCHANGED linhas

Avancar(r, f) ==
    /\ fase' = [fase EXCEPT ![r] = f]
    /\ UNCHANGED <<linhas, pedido, mexidos, pedidos>>

------------------------------------------------------------------------------
Init ==
    /\ existem = {}
    /\ chave = [i \in Ids |-> SemChave]
    /\ campo = [i \in Ids |-> RegistroInicial]
    /\ ativos = {}
    /\ dono = [i \in Veiculos |-> Ninguem]
    /\ fase = [r \in Pedidos |-> "livre"]
    /\ pedido = [r \in Pedidos |-> PedidoVazio]
    /\ mexidos = [r \in Pedidos |-> {}]
    /\ pedidos = 0

------------------------------------------------------------------------------
\* Registrations.  i is the uuid the row is to get.

Novo(i) == i \notin existem \cup IdsFixos /\ \A q \in Pedidos : pedido[q].alvo # i

\* The key is looked up; 409 changes nothing.
Cadastrar(r, i, k) ==
    /\ Novo(i)
    /\ ComChave(i, k) = {}
    /\ Chegar(r, [PedidoVazio EXCEPT !.alvo = i, !.chave = k], "inserir")

CadastrarCliente(r, i, k) == i \in Clientes /\ Cadastrar(r, i, k)
CadastrarPeca(r, i, k) == i \in Pecas /\ Cadastrar(r, i, k)
CriarUsuario(r, i, k) == i \in Usuarios /\ Cadastrar(r, i, k)

(* CadastrarServicoCatalogo has nothing to look up.                        *)
CadastrarServico(r, i) ==
    /\ Novo(i)
    /\ Chegar(r, [PedidoVazio EXCEPT !.alvo = i], "inserir")

\* Mutant: any client that exists will do.
CadastrarVeiculoDeQualquer(r, i, k, c) ==
    /\ Novo(i)
    /\ c \in existem
    /\ Chegar(r, [PedidoVazio EXCEPT !.alvo = i, !.chave = k, !.dono = c], "buscarPlaca")

(* CadastrarVeiculo reads its client (404, 400 if inactive) ...            *)
CadastrarVeiculo(r, i, k, c) ==
    /\ Novo(i)
    /\ c \in existem \cap ativos
    /\ Chegar(r, [PedidoVazio EXCEPT !.alvo = i, !.chave = k, !.dono = c], "buscarPlaca")

(* ... then the plate.                                                     *)
BuscarPlaca(r) ==
    /\ fase[r] = "buscarPlaca"
    /\ IF ComChave(pedido[r].alvo, pedido[r].chave) # {}
       THEN Recusar(r, "livre")
       ELSE Avancar(r, "inserir")

(* The insert, or the unique index's refusal (P2002, 500).                 *)
Inserir(r) ==
    LET p == pedido[r] IN
    /\ fase[r] = "inserir"
    /\ IF Repetida(p.alvo, p.chave)
       THEN Recusar(r, "recusada")
       ELSE /\ existem' = existem \cup {p.alvo}
            /\ chave' = [chave EXCEPT ![p.alvo] = p.chave]
            /\ campo' = [campo EXCEPT ![p.alvo] = RegistroInicial]
            /\ ativos' = ativos \cup {p.alvo}
            /\ dono' = IF p.alvo \in Veiculos THEN [dono EXCEPT ![p.alvo] = p.dono] ELSE dono
            /\ Mexer(r, p.alvo)
            /\ Encerrar(r, "livre")

------------------------------------------------------------------------------
\* Updates and inactivations

\* What a body names.
Corpos(nomes) == {n \in SUBSET nomes : n # {} /\ Cardinality(n) <= MaxNomeados}

Lida(i) == [PedidoVazio EXCEPT !.alvo = i, !.lido = campo[i], !.lidoAtivo = i \in ativos]

\* The row is read (404); a body that names nothing is answered with it.
Atualizar(r, i, n, v) == Chegar(r, [Lida(i) EXCEPT !.nomeados = n, !.valor = v], "gravar")

AtualizarCliente(r, i, n, v) == i \in Clientes /\ Atualizar(r, i, n, v)
AtualizarVeiculo(r, i, n, v) == i \in Veiculos /\ Atualizar(r, i, n, v)
AtualizarServico(r, i, n, v) == i \in Servicos /\ Atualizar(r, i, n, v)
AtualizarPeca(r, i, n, v) == i \in Pecas /\ Atualizar(r, i, n, v)

(* AtualizarUsuario: the body may also name the e-mail and ativo.          *)
AtualizarUsuario(r, i, n, v, k, a) ==
    /\ Chegar(r, [Lida(i) EXCEPT !.nomeados = n,
                                 !.valor = IF n \cap Campos = {} THEN @ ELSE v,
                                 !.chave = IF "chave" \in n THEN k ELSE @,
                                 !.ativo = IF "ativo" \in n THEN a ELSE @],
              IF "chave" \in n THEN "buscarEmail" ELSE "gravar")

(* Another account with that e-mail: 409.                                  *)
BuscarEmail(r) ==
    /\ fase[r] = "buscarEmail"
    /\ IF ComChave(pedido[r].alvo, pedido[r].chave) \subseteq {pedido[r].alvo}
       THEN Avancar(r, "gravar")
       ELSE Recusar(r, "livre")

\* The row is read; an inactive one is answered at once.
Inativar(r, i) ==
    /\ i \in ativos
    /\ Chegar(r, [Lida(i) EXCEPT !.nomeados = {"ativo"}, !.ativo = FALSE], "contar")

InativarCliente(r, i) == i \in Clientes /\ Inativar(r, i)
InativarVeiculo(r, i) == i \in Veiculos /\ Inativar(r, i)
InativarServico(r, i) == i \in Servicos /\ Inativar(r, i)
InativarPeca(r, i) == i \in Pecas /\ Inativar(r, i)

(* The orders that use it are counted: 409, or on to softDelete.           *)
ContarVinculos(r) ==
    /\ fase[r] = "contar"
    /\ Recusar(r, "livre") \/ Avancar(r, "gravar")

\* Mutant: the row is saved as it was read, with the new values in it.
GravarLinhaInteira(r) ==
    LET p == pedido[r] IN
    /\ fase[r] = "gravar"
    /\ IF "chave" \in p.nomeados /\ Repetida(p.alvo, p.chave)
       THEN Recusar(r, "recusada")
       ELSE /\ chave' = IF "chave" \in p.nomeados THEN [chave EXCEPT ![p.alvo] = p.chave] ELSE chave
            /\ campo' = [campo EXCEPT ![p.alvo] =
                            [c \in Campos |-> IF c \in p.nomeados THEN p.valor ELSE p.lido[c]]]
            /\ ativos' = IF (IF "ativo" \in p.nomeados THEN p.ativo ELSE p.lidoAtivo)
                         THEN ativos \cup {p.alvo} ELSE ativos \ {p.alvo}
            /\ UNCHANGED <<existem, dono>>
            /\ Mexer(r, p.alvo)
            /\ Encerrar(r, "livre")

(* update, softDelete: UPDATE by id of the columns named, or the refusal   *)
(* of the index.                                                           *)
Gravar(r) ==
    LET p == pedido[r] IN
    /\ fase[r] = "gravar"
    /\ IF "chave" \in p.nomeados /\ Repetida(p.alvo, p.chave)
       THEN Recusar(r, "recusada")
       ELSE /\ chave' = IF "chave" \in p.nomeados THEN [chave EXCEPT ![p.alvo] = p.chave] ELSE chave
            /\ campo' = [campo EXCEPT ![p.alvo] =
                            [c \in Campos |-> IF c \in p.nomeados THEN p.valor ELSE @[c]]]
            /\ ativos' = IF "ativo" \notin p.nomeados THEN ativos
                         ELSE IF p.ativo THEN ativos \cup {p.alvo} ELSE ativos \ {p.alvo}
            /\ UNCHANGED <<existem, dono>>
            /\ Mexer(r, p.alvo)
            /\ Encerrar(r, "livre")

Passo(r) ==
    \/ BuscarPlaca(r)
    \/ Inserir(r)
    \/ BuscarEmail(r)
    \/ ContarVinculos(r)
    \/ Gravar(r)

\* A caller has no other request in flight.
Aceita(r) == ~EmAndamento(r) /\ pedidos < MaxPedidos

Requisicao(r) ==
    /\ Aceita(r)
    /\ \/ \E i \in Ids, k \in Chaves :
            \/ CadastrarCliente(r, i, k)
            \/ CadastrarPeca(r, i, k)
            \/ CriarUsuario(r, i, k)
       \/ \E i \in Servicos : CadastrarServico(r, i)
       \/ \E i \in Veiculos, k \in Chaves, c \in Clientes : CadastrarVeiculo(r, i, k, c)
       \/ \E i \in existem, n \in Corpos(Campos), v \in Valores \ {ValorInicial} :
            \/ AtualizarCliente(r, i, n, v)
            \/ AtualizarVeiculo(r, i, n, v)
            \/ AtualizarServico(r, i, n, v)
            \/ AtualizarPeca(r, i, n, v)
       \/ \E i \in existem \cap Usuarios, n \in Corpos(Nomes), k \in Chaves, a \in BOOLEAN,
             v \in Valores \ {ValorInicial} : AtualizarUsuario(r, i, n, v, k, a)
       \/ \E i \in existem :
            \/ InativarCliente(r, i)
            \/ InativarVeiculo(r, i)
            \/ InativarServico(r, i)
            \/ InativarPeca(r, i)

Next == \E r \in Pedidos : Requisicao(r) \/ Passo(r)

Spec == Init /\ [][Next]_vars

------------------------------------------------------------------------------
\* Properties

CadastroTypeOK ==
    /\ existem \subseteq Ids
    /\ chave \in [Ids -> Chaves \cup {SemChave}]
    /\ campo \in [Ids -> Registro]
    /\ ativos \subseteq existem
    /\ dono \in [Veiculos -> Clientes \cup {Ninguem}]
    /\ fase \in [Pedidos -> Fases]
    /\ pedido \in [Pedidos -> Pedido]
    /\ mexidos \in [Pedidos -> SUBSET Ids]
    /\ \A r \in Pedidos : ~EmAndamento(r) => pedido[r] = PedidoVazio /\ mexidos[r] = {}
    /\ pedidos \in 0..MaxPedidos

(* A caller gets the untranslated error of the unique index only when the  *)
(* row that holds the key was written while its request was in flight:     *)
(* whatever was there before, inactive rows included, is answered 409.     *)
RecusaSoEmDisputa ==
    [][\A r \in Pedidos :
          EmAndamento(r) /\ fase'[r] = "recusada" =>
              \E j \in mexidos[r] : MesmaTabela(j, pedido[r].alvo) /\ chave[j] = pedido[r].chave]_vars

(* A vehicle is inserted for an inactive client only when that client was  *)
(* written between the reading of it and the insert.                       *)
VeiculoDeClienteAtivo ==
    [][\A r \in Pedidos, v \in Veiculos :
          fase[r] = "inserir" /\ pedido[r].alvo = v /\ v \in existem' \ existem =>
              dono'[v] \in ativos \/ dono'[v] \in mexidos[r]]_vars

(* An update leaves every column its body does not name as it finds it at  *)
(* the write, whatever others wrote since it read the row: no update is    *)
(* lost to one of other columns, and none undoes an inactivation.          *)
AtualizacaoPrecisa ==
    [][\A r \in Pedidos :
          fase[r] = "gravar" /\ fase'[r] # "gravar" =>
              LET p == pedido[r] IN
              /\ \A i \in existem, c \in Campos :
                    campo'[i][c] # campo[i][c] => i = p.alvo /\ c \in p.nomeados
              /\ \A i \in existem : (i \in ativos') # (i \in ativos) => i = p.alvo /\ "ativo" \in p.nomeados
              /\ \A i \in existem : chave'[i] # chave[i] => i = p.alvo /\ "chave" \in p.nomeados]_vars

==============================================================================
