------------------------------- MODULE Semeadura -------------------------------
(***************************************************************************)
(* The seed (prisma/seed.ts) beside the requests of Cadastro.              *)
(*                                                                         *)
(* One process, one statement after another, no transaction around them.   *)
(* Users, clients and vehicles are upserted by their key and services and  *)
(* parts by their fixed id; the demonstration orders are then deleted and  *)
(* created again, on the rows the upserts returned.  It is run again, over *)
(* whatever an earlier run that was cut, and the requests, left.           *)
(*                                                                         *)
(* MySQL has no upsert the client can use: it reads the row and inserts or *)
(* updates in a second round trip.  Requests commit between the two, and a *)
(* registration of the same key makes the insert a P2002.                  *)
(*                                                                         *)
(* etapa and indice are its program counter; lida and achados, the upsert  *)
(* it is in the middle of and what that read; clientes and veiculos, the   *)
(* arrays of the rows upserted.  semeadas, itens, clienteDe and veiculoDe  *)
(* are the demonstration orders in the database.  Auxiliary: surgidas, the *)
(* rows that got their key since the upsert read; rodadas carries the      *)
(* bound of a run.                                                         *)
(***************************************************************************)
EXTENDS Cadastro

CONSTANTS
    Linhas,      \* the tables of the file: loop, index |-> [id, chave]
    Tamanho,     \* how many each loop has
    NumOrdens,
    OrdemDe,     \* OrdemDe[o]: index of the client and the vehicle of order o
    MaxRodadas   \* bound: executions of the seed

Indices == 1..Tamanho["clientes"]
Sementes == 1..NumOrdens

ASSUME SemeaduraAssumption ==
    /\ Tamanho \in [Tabelas -> Nat \ {0}]
    /\ Tamanho["clientes"] = Tamanho["veiculos"]
    /\ NumOrdens \in Nat
    /\ OrdemDe \in [Sementes -> Indices]
    /\ MaxRodadas \in Nat
ASSUME LinhasAssumption ==
    \A l \in Tabelas : \A k \in 1..Tamanho[l] :
        /\ Linhas[l][k].id \in IdsFixos /\ Tabela[Linhas[l][k].id] = l
        /\ IF l = "servicos" THEN Linhas[l][k].chave = SemChave ELSE Linhas[l][k].chave \in Chaves
        /\ \A m \in 1..Tamanho[l] \ {k} :
              Linhas[l][m].id # Linhas[l][k].id /\ (l # "servicos" => Linhas[l][m].chave # Linhas[l][k].chave)

VARIABLES etapa, indice, lida, achados, clientes, veiculos, semeadas, itens, clienteDe, veiculoDe,
          surgidas, rodadas

processo == <<etapa, indice, lida, achados, clientes, veiculos, rodadas>>
demonstracao == <<semeadas, itens, clienteDe, veiculoDe>>
varsSemeadura == <<vars, processo, demonstracao, surgidas>>

Paradas == {"parada", "cortada", "falhou", "concluida"}
Etapas == Tabelas \cup Paradas \cup {"apagarItensServico", "apagarItensPeca", "apagarOrdens", "ordens"}

TiposDeItem == {"servico", "peca"}
NenhumaLinha == [k \in Indices |-> Ninguem]

------------------------------------------------------------------------------
InitSemeadura ==
    /\ Init
    /\ etapa = "parada"
    /\ indice = 1
    /\ lida = FALSE
    /\ achados = {}
    /\ surgidas = {}
    /\ clientes = NenhumaLinha
    /\ veiculos = NenhumaLinha
    /\ semeadas = {}
    /\ itens = [o \in Sementes |-> {}]
    /\ clienteDe = [o \in Sementes |-> Ninguem]
    /\ veiculoDe = [o \in Sementes |-> Ninguem]
    /\ rodadas = 0

------------------------------------------------------------------------------
\* The upserts

Linha == Linhas[etapa][indice]

PorId == {Linha.id} \cap existem
PorChave == ComChave(Linha.id, Linha.chave)

\* No upsert is under way.
Esquecer == lida' = FALSE /\ achados' = {} /\ surgidas' = {}

\* The next turn of the loop, or the next loop.
Avante(proxima) ==
    /\ Esquecer
    /\ IF indice < Tamanho[etapa]
       THEN indice' = indice + 1 /\ UNCHANGED etapa
       ELSE indice' = 1 /\ etapa' = proxima

\* The process ends, and its memory with it.
Parar(e) ==
    /\ Esquecer
    /\ etapa' = e
    /\ indice' = 1
    /\ clientes' = NenhumaLinha
    /\ veiculos' = NenhumaLinha

\* The database refuses the statement: main rejects, exit code 1.
Falhar ==
    /\ Parar("falhou")
    /\ UNCHANGED <<vars, rodadas, demonstracao>>

(* The SELECT of an upsert.                                                *)
Ler ==
    /\ etapa \in Tabelas
    /\ ~lida
    /\ lida' = TRUE
    /\ achados' = IF etapa \in {"servicos", "pecas"} THEN PorId ELSE PorChave
    /\ UNCHANGED <<vars, etapa, indice, clientes, veiculos, rodadas, demonstracao, surgidas>>

\* UPDATE of row i: columns of the payload, never ativo; the key is one of
\* them for parts only.
AtualizarLinha(i, k) ==
    /\ chave' = [chave EXCEPT ![i] = k]
    /\ campo' = [campo EXCEPT ![i] = RegistroInicial]
    /\ UNCHANGED <<existem, ativos>>

\* INSERT of the payload under its fixed id.
CriarLinha(i, k) ==
    /\ existem' = existem \cup {i}
    /\ chave' = [chave EXCEPT ![i] = k]
    /\ campo' = [campo EXCEPT ![i] = RegistroInicial]
    /\ ativos' = ativos \cup {i}

Escrita(i) ==
    /\ mexidos' = [q \in Pedidos |-> IF EmAndamento(q) THEN mexidos[q] \cup {i} ELSE {}]
    /\ UNCHANGED <<fase, pedido, pedidos, rodadas, demonstracao>>

\* The primary key or the unique index refuses the INSERT, or the code an
\* UPDATE gives a part.
Recusado ==
    \/ achados = {} /\ PorId # {}
    \/ (achados = {} \/ etapa = "pecas") /\ Repetida(Linha.id, Linha.chave)

\* The account it read has got another e-mail since.
ContaPerdida == etapa = "usuarios" /\ \E i \in achados : chave[i] # Linha.chave

(* The INSERT or UPDATE of an upsert, which returns row i.                 *)
Upsert(i) ==
    /\ lida
    /\ ~Recusado
    /\ \/ i \in achados /\ AtualizarLinha(i, IF etapa = "pecas" THEN Linha.chave ELSE chave[i])
       \/ achados = {} /\ i = Linha.id /\ CriarLinha(i, Linha.chave)
    /\ Escrita(i)

(* ... or its refusal.  Whether an UPDATE that repeats the condition of    *)
(* its SELECT still finds the account is the client's: either may happen.  *)
FalharUpsert ==
    /\ etapa \in Tabelas
    /\ lida
    /\ Recusado \/ ContaPerdida
    /\ Falhar

SemearUsuario ==
    /\ etapa = "usuarios"
    /\ \E i \in Usuarios : Upsert(i)
    /\ Avante("clientes")
    /\ UNCHANGED <<dono, clientes, veiculos>>

SemearCliente ==
    /\ etapa = "clientes"
    /\ \E i \in Clientes : Upsert(i) /\ clientes' = [clientes EXCEPT ![indice] = i]
    /\ Avante("veiculos")
    /\ UNCHANGED <<dono, veiculos>>

\* Mutant: a vehicle already registered keeps the owner it has.
SemearVeiculoSemDono ==
    /\ etapa = "veiculos"
    /\ \E i \in Veiculos :
          /\ Upsert(i)
          /\ dono' = IF achados = {} THEN [dono EXCEPT ![i] = clientes[indice]] ELSE dono
          /\ veiculos' = [veiculos EXCEPT ![indice] = i]
    /\ Avante("servicos")
    /\ UNCHANGED clientes

\* clienteId is the id the client's upsert returned, in both branches.
SemearVeiculo ==
    /\ etapa = "veiculos"
    /\ \E i \in Veiculos :
          /\ Upsert(i)
          /\ dono' = [dono EXCEPT ![i] = clientes[indice]]
          /\ veiculos' = [veiculos EXCEPT ![indice] = i]
    /\ Avante("servicos")
    /\ UNCHANGED clientes

SemearServico ==
    /\ etapa = "servicos"
    /\ \E i \in Servicos : Upsert(i)
    /\ Avante("pecas")
    /\ UNCHANGED <<dono, clientes, veiculos>>

\* The code is one of the columns written.
SemearPeca ==
    /\ etapa = "pecas"
    /\ \E i \in Pecas : Upsert(i)
    /\ Avante("apagarItensServico")
    /\ UNCHANGED <<dono, clientes, veiculos>>

------------------------------------------------------------------------------
\* The demonstration orders

NaBase == UNCHANGED <<vars, lida, achados, surgidas, clientes, veiculos, rodadas>>

ApagarItens(t, de, para) ==
    /\ etapa = de
    /\ itens' = [o \in Sementes |-> itens[o] \ {t}]
    /\ etapa' = para
    /\ NaBase
    /\ UNCHANGED <<indice, semeadas, clienteDe, veiculoDe>>

\* Mutant: only the items are deleted.
ApagarOrdensNunca ==
    /\ etapa = "apagarOrdens"
    /\ etapa' = "ordens"
    /\ indice' = 1
    /\ NaBase
    /\ UNCHANGED demonstracao

ApagarOrdens ==
    /\ etapa = "apagarOrdens"
    /\ semeadas' = {}
    /\ etapa' = "ordens"
    /\ indice' = 1
    /\ NaBase
    /\ UNCHANGED <<itens, clienteDe, veiculoDe>>

\* Order and items in one nested create; an id already taken is refused.
CriarOrdem ==
    /\ etapa = "ordens"
    /\ indice \in Sementes
    /\ IF indice \in semeadas
       THEN Falhar
       ELSE /\ semeadas' = semeadas \cup {indice}
            /\ itens' = [itens EXCEPT ![indice] = TiposDeItem]
            /\ clienteDe' = [clienteDe EXCEPT ![indice] = clientes[OrdemDe[indice]]]
            /\ veiculoDe' = [veiculoDe EXCEPT ![indice] = veiculos[OrdemDe[indice]]]
            /\ indice' = indice + 1
            /\ NaBase
            /\ UNCHANGED etapa

Concluir ==
    /\ etapa = "ordens"
    /\ indice \notin Sementes
    /\ Parar("concluida")
    /\ UNCHANGED <<vars, rodadas, demonstracao>>

------------------------------------------------------------------------------
Semear ==
    /\ etapa \in Paradas
    /\ rodadas < MaxRodadas
    /\ etapa' = "usuarios"
    /\ rodadas' = rodadas + 1
    /\ UNCHANGED <<vars, indice, lida, achados, surgidas, clientes, veiculos, demonstracao>>

(* The process is killed, or the connection is lost, between two           *)
(* statements: an upsert that only read leaves nothing.                    *)
Cortar ==
    /\ etapa \notin Paradas
    /\ Parar("cortada")
    /\ UNCHANGED <<vars, rodadas, demonstracao>>

PassoDaSemente ==
    \/ Ler
    \/ SemearUsuario
    \/ SemearCliente
    \/ SemearVeiculo
    \/ SemearServico
    \/ SemearPeca
    \/ FalharUpsert
    \/ ApagarItens("servico", "apagarItensServico", "apagarItensPeca")
    \/ ApagarItens("peca", "apagarItensPeca", "apagarOrdens")
    \/ ApagarOrdens
    \/ CriarOrdem
    \/ Concluir

\* A step of the requests, perhaps in the middle of an upsert of the seed.
NextPedidos ==
    /\ Next
    /\ surgidas' = IF lida THEN surgidas \cup {i \in existem' : i \notin existem \/ chave'[i] # chave[i]}
                   ELSE surgidas
    /\ UNCHANGED <<processo, demonstracao>>

NextSemeadura ==
    \/ NextPedidos
    \/ Semear
    \/ Cortar
    \/ PassoDaSemente

SpecSemeadura == InitSemeadura /\ [][NextSemeadura]_varsSemeadura

------------------------------------------------------------------------------
\* Properties

SemeaduraTypeOK ==
    /\ CadastroTypeOK
    /\ etapa \in Etapas
    /\ indice \in Nat \ {0}
    /\ lida \in BOOLEAN
    /\ achados \subseteq Ids
    /\ surgidas \subseteq Ids
    /\ clientes \in [Indices -> Clientes \cup {Ninguem}]
    /\ veiculos \in [Indices -> Veiculos \cup {Ninguem}]
    /\ semeadas \subseteq Sementes
    /\ itens \in [Sementes -> SUBSET TiposDeItem]
    /\ clienteDe \in [Sementes -> Clientes \cup {Ninguem}]
    /\ veiculoDe \in [Sementes -> Veiculos \cup {Ninguem}]
    /\ rodadas \in 0..MaxRodadas

(* A demonstration order is always one client's, on a vehicle that client  *)
(* owns: also when the plate or the document of the seed had been          *)
(* registered by a request, for another client, before or during the run;  *)
(* and when the seed says it is done all of them are there, with their     *)
(* items, whatever was left by executions cut at any statement.            *)
DemonstracaoCoerente ==
    /\ \A o \in semeadas :
          /\ {clienteDe[o], veiculoDe[o]} \subseteq existem
          /\ dono[veiculoDe[o]] = clienteDe[o]
          /\ chave[veiculoDe[o]] = Linhas["veiculos"][OrdemDe[o]].chave
          /\ chave[clienteDe[o]] = Linhas["clientes"][OrdemDe[o]].chave
    /\ etapa = "concluida" => semeadas = Sementes /\ \A o \in Sementes : itens[o] = TiposDeItem

\* What a request did to the row the upsert is about: an e-mail changed, a
\* part registered under the code, or the key taken since the upsert read.
ContaRenomeada ==
    etapa = "usuarios" /\ \E i \in ({Linha.id} \cup achados) \cap existem : chave[i] # Linha.chave

CodigoTomado ==
    etapa = "pecas" /\ \E j \in (existem \cap Pecas) \ {Linha.id} : chave[j] = Linha.chave

ChavePerdida ==
    /\ etapa \in {"usuarios", "clientes", "veiculos"}
    /\ \E j \in surgidas : MesmaTabela(j, Linha.id) /\ chave[j] = Linha.chave

(* The seed can be run again after any cut: the database only refuses it   *)
(* an account that got another e-mail, a part whose code a registered one  *)
(* holds, or a row whose key a request took between the SELECT and the     *)
(* INSERT of its upsert; never anything an earlier execution left, nor any *)
(* key registered before that SELECT.                                      *)
SementeRefaz ==
    [][etapa # "falhou" /\ etapa' = "falhou" =>
          ContaRenomeada \/ CodigoTomado \/ ChavePerdida]_varsSemeadura

==============================================================================
