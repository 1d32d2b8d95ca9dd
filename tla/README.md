# AutoServiceManager: TLA+ models, model checking and proofs

The repository is the backend of a car workshop: NestJS over Prisma 6 and MySQL 8, layered as
domain / application / infrastructure / interfaces. Clients, vehicles, a catalogue of services and
a stock of parts are kept in a registry; service orders (*ordens de serviço*, OS) are opened on
them and travel from `RECEBIDA` to `ENTREGUE` or `REJEITADA`. One to five replicas of the API
(`k8s/`) serve requests over one database.

Every handler is a sequence of awaits. No row is locked between the read that justifies a write and
the write, no update is conditional, nothing is retried, and there is no outbox. What is hard in
this code is therefore what happens *between* two awaits: another request, an error, a killed pod.
These models are about that.

Paths below are relative to the repository. Names in the models are those of the code, in Portuguese.

## 1. Inventory

| Part | State it keeps | Operations that change it | Correct when |
|---|---|---|---|
| Status rules: `order-status.service.ts`, `status-os.enum.ts` | none | none (assertions) | they admit exactly the documented graph |
| Status use cases: `application/atendimento/use-cases` | none of their own | iniciar-diagnostico, gerar-orcamento, aprovar-orcamento (approve and reject), finalizar-os, entregar-veiculo, processar-webhook-status-os | an order moves along the graph, its parts follow its status, each change is recorded and then announced |
| Opening: `criar-ordem-servico.use-case.ts` | none of its own | four reads, insert, creation row | an order refers to active records, and its creation is recorded |
| Money of an order: `gerar-orcamento.use-case.ts`, the opening's totals | `OrdemServico.total`, prices applied to items | opening, generating a budget, changing a price | a total adds prices that were in force, and it is the one the client was told |
| Order repository: `prisma-ordem-servico.repository.ts` | `OrdemServico`, `ItemServicoOs`, `ItemPecaOs` | createWithItems, updateStatus, gerarOrcamento, finalizar, aprovarOrcamentoComReserva, rejeitarOrcamento | writes of one operation appear together |
| Reservation: `reservar-pecas-aprovacao-orcamento.ts` | `PecaEstoque.quantidadeEmEstoque`, `ItemPecaOs.reservado` | one loop inside the approval's transaction | all parts or none; no unit is lost |
| Audit trail: `prisma-os-audit.repository.ts` | `OrdemServicoStatusHistorico` | recordOsTransition (an insert; events and notifications are only logged) | holds every change once, and only changes |
| Notifications: `infrastructure/notifications` | none | SNS when a topic is configured, SMTP otherwise | announce only what happened; do not undo it; a caller answered 200 may rely on it |
| Stock: `prisma-peca-estoque.repository.ts`, `application/estoque` | `PecaEstoque` | cadastrar, atualizar, movimentar (entry or exit), inativar | never negative, conserved, code unique |
| Registry: `application/cadastro` | `Cliente`, `Veiculo` | cadastrar, atualizar, inativar | unique document and plate, also across look-up and insert; updates touch only what they name; not inactive while in use |
| Catalogue: `application/catalogo-servicos` | `ServicoCatalogo` | cadastrar, atualizar, inativar | not inactive while in use |
| Counts of the read adapter | none | none | see every order that uses a record |
| Panel and average times: `listar-ordens-servico`, `obter-tempo-medio-execucao`, `prisma-ordem-servico-read.adapter.ts` | none | none: several queries over changing data | pages that neither repeat nor skip; averages of real stays |
| Authentication: `application/autenticacao`, `infrastructure/auth` | `UsuarioAdmin`, signed tokens | login, criar, atualizar, alterar senha; three guards in front of each handler | a route is reached by its roles only, as accounts are now; passwords are changed by who knows them |
| Seed: `prisma/seed.ts` | the rows with fixed ids, seven demonstration orders | one process of upserts, deletes and creations, no transaction | whatever an execution that was cut left, the next one goes over it; its orders are coherent |
| Controllers and DTOs | none | routes, roles, columns a body may name | taken into the modules of their components |
| Validation of documents and plates, configuration, observability, deployment | none, or static | none | outside the models, but for the phase-duration metric |

How they interact: a controller calls one use case; the use case reads through a repository, asks
`OrderStatusService` (synchronously), writes through the repository, then awaits
`recordOsTransition`, then the notifiers, then answers. All parts share state only through MySQL.
Statuses, the stock and the items of orders are shared by concurrent requests; a part of the stock
is shared by orders and by stock movements; the `ativo` flags are shared by openings and
inactivations; prices are shared by budgets and the catalogue; the key columns by registrations and
the seed; accounts by the guards of every route. The panel and the averages read what all the
others write.

What is hard: the check of a status and the write it justifies are two round trips; `finalizar`
chooses the items it consumes outside the transaction that consumes them; stock is written as an
absolute value computed from a snapshot; the trail is written after, and apart from, the status;
the webhook reads the order again after its own write; an error of SNS is not caught; inactivation
counts and then updates; opening reads four records at four times; registrations look up and then
insert; a budget may be generated again under the client's eyes, and an approval names no total;
pages are cut by OFFSET over a ranking that moves; trail rows are paired by timestamps; tokens outlive
what they say. `PROJECT.json` lists each at its line under `hazards`, with the properties that watch
it; five have none yet, and say why.

## 2. Modules

| Module | What it is |
|---|---|
| `OrdemStatus` | enum, assertions and webhook table; `GrafoDocumentado` is the union of what they allow |
| `PecasDaOs` | abstract specification: what is promised about the parts of an order |
| `CicloDeVidaOs` | the core: handlers, reservation, trail and stock movements, await by await |
| `AberturaOs` | opening an order against the inactivation of its records; what happens to open orders is `PecasDaOs` |
| `Orcamento` | prices, totals, notices of a budget and the client's answer, with callers that repeat |
| `Cadastro` | registration, update and inactivation of clients, vehicles, services, parts and users |
| `Semeadura` | the seed, composed with the requests of `Cadastro` |
| `Acesso` | accounts, tokens, guards and roles of every route |
| `Consultas` | panel and averages over orders that change |
| `MC...` | constants of the runs |
| `...Proofs` | theorems, in eight modules |

`CicloDeVidaOs` implements `PecasDaOs` (checked by TLC and proved), and `AberturaOs` uses
`PecasDaOs`, instead of the whole handlers, for the requests on open orders: it needs only the
statuses and parts they may leave in the database. `Semeadura` EXTENDS `Cadastro`: its next-state
relation is a request's step or the seed's, over the same tables. `Orcamento`, `Consultas` and
`CicloDeVidaOs` share `OrdemStatus`, so all move an order along the assertions of the code.

### CicloDeVidaOs and the code

One action is one round trip and the synchronous code around it. A transaction is two actions: the
snapshot its first read takes, and its commit, where all its writes appear. This is MySQL's
REPEATABLE READ with plain (not locking) reads, as Prisma issues them.

| Model | Code |
|---|---|
| `status`, `reservado`, `baixado`, `estoque`, `historico` | the columns and the history table |
| `fase[r]` | the await request `r` is suspended at |
| `chamada[r]` | its locals: operation, order, status read, status written (or read back) |
| `foto[r]`, `pecasLidas[r]` | stock in its snapshot, items it decided to write |
| `movimento[b]` | a stock movement between its read and its write |
| `IniciarDiagnostico` ... `ProcessarWebhook` | first read and assertion of each use case |
| `GravarStatus` | `updateStatus`, `rejeitarOrcamento`, `gerarOrcamento`: UPDATE by id |
| `LerItensReservados`, `Finalizar` | `finalizar`: read outside, then transaction |
| `AbrirTxReserva`, `RecusarReserva`, `Reservar` | `aprovarOrcamentoComReserva`: snapshot, 422, commit |
| `RelerOrdem` | the webhook's second read |
| `GravarHistorico`, `EnviarOrcamento`, `Avisar` | trail, budget notice, status notice and answer |
| `Interromper` | a query or SNS rejects, a deadlock victim, a killed pod |
| `AbrirMovimentacao`, `Movimentar`, `InterromperMovimentacao` | `aplicarMovimentacao` |

Abstractions: an order has at most one item per part (`@@unique([ordemServicoId, pecaEstoqueId])`
and `mergePecas`); totals, prices and dates are left out; a request refused by its assertion, or
with 404, changes nothing and is a stuttering step; history is a set of rows (order, from, to) and
`recordOsTransition`'s own read, which only feeds a metric, is merged into its insert; the update
and the read Prisma makes to return its result are one transaction, so a use case sees its own
write. `saldo` and `entradas` are auxiliary: sums of the movements committed.

### AberturaOs and the code

`Criar`, `LerVeiculo`, `LerServicos`, `LerPecas`, `Inserir` and `AuditarCriacao` are the awaits of
`criar-ordem-servico.use-case.ts`; services and parts are compared together after the parts are
read, as there. `PedirInativacao`, `ContarVinculos` and `Inativar` are the three round trips shared
by the four `inativar-*` use cases; `Vinculado` is what each counts (a part: reserved and not
consumed; anything else: orders not terminal). `Atender` is one commit of a request on an open
order. No use case reactivates a record, and an order gets a fresh identity (`uuid`). `jaInativos`
is auxiliary: the records inactive when a request arrived.

### Orcamento and the code

| Model | Code |
|---|---|
| `preco` | `ServicoCatalogo.precoBase`, `PecaEstoque.precoUnitario`, in cents |
| `status`, `total`, `aplicado` | the order, its `total`, `precoAplicado` / `precoUnitario` of its items |
| `lidos[r]` | prices in the rows request `r` read |
| `LerServicos`, `LerPecas` | two statements: Prisma issues one per relation of an `include`, and the opening has two `findMany` |
| `Inserir`, `GravarOrcamento`, `GravarStatus` | `createWithItems`, `gerarOrcamento`, any other write of the status |
| `Auditar`, `EnviarOrcamento`, `Avisar` | trail, `CompositeOrcamentoNotifier`, `CompositeOsStatusNotifier` and the answer |
| `Anunciar`, `Engolir` | a notice left; SMTP failed and `sendMail` returned false |
| `Repetir`, `Desistir` | a caller that got an error sends the same request again, or not |

One order, whose client, vehicle and stock are in the other modules. The webhook's second read and
`finalizar`'s transaction are one step here: they do not touch money or notices of a budget. An
approval may be refused for lack of parts without saying which. An opening that failed is not
repeated (it would open another order). `vistos`, `orcado`, `corrida` and `avisoPerdido` are auxiliary.

### Cadastro, Semeadura and the code

`Ids` are rows and uuids to come; `Tabela` says which table each belongs to; `chave` is the unique
column (`cpfCnpj`, `placa`, `codigoInterno`, `email`) and `campo` the others. The use cases share a
shape, and so do the actions: look up (`Cadastrar`, `BuscarPlaca`, `BuscarEmail`), then `Inserir` or
`Gravar`, either of which the unique index may refuse (`"recusada"`: the P2002 no handler
translates). `Corpos` are the columns a DTO may name. An inactivation counts with an outcome left
open: which orders use a record is `AberturaOs`.

`Semeadura` is `main()` of `prisma/seed.ts`: `etapa` and `indice` are its program counter, one
statement per action; `clientes` and `veiculos` the arrays it fills with the rows its upserts
returned; `Linhas` the payloads. Users, clients and vehicles are upserted by key, services and parts
by fixed id. Prisma's upsert is two statements in MySQL, and two actions: the SELECT (`Ler`, which
keeps in `achados` what it found) and the INSERT or UPDATE by id (`Upsert`, in the action of each
table). Requests commit between the two. The primary key and the unique indexes then refuse an
INSERT whose key a request has taken meanwhile, or a part's code that another part holds
(`Recusado`), and `main` rejects: `FalharUpsert`, the exit with code 1. Whether the UPDATE of an
account whose e-mail changed since the SELECT still finds it depends on the statement the client
library sends; the model allows both outcomes. `surgidas`, auxiliary, are the rows that got their key
since the SELECT. `Cortar` is only the process killed or its connection lost, at any statement; an
upsert that had only read leaves nothing. `Semear` starts it again from any end. Columns other than
keys and references are one field, and quantities in stock are left out.

### Acesso and the code

`PapeisDe` has the `@Roles` of every guarded route, grouped when controller and roles are the same;
`ClienteAuth`, `JwtStrategy` and `RolesGuard` are the guards, in the order `AppModule` registers
them. A request that passes them is suspended at `"executar"`; handlers about accounts
(`RotasDeConta`) read (`LerConta`) and write (`Gravar...`) at later awaits, the others act in one
step. A hash stands for the password it is of, a token for its claims; expiry is `Expirar`, at any
time. E-mails are keys of `Cadastro`. `acessos` and `provas` are auxiliary. A wrong current password
is answered 401 by the code, where `usuario.controller.ts:105-108` documents 400; statuses are
outside the model.

### Consultas and the code

`PedirPainel` ... `ProximaPagina` are the awaits of `listar-ordens-servico` page by page: ids by a
raw query (`LerIds`), rows (`LerLinhas`), count beside them (`Contar`, the other branch of
`Promise.all`). `LerConcluidas`, `LerEntradas` and `LerSaida` are those of
`obterTempoMedioExecucao`. `Pedir`, `Gravar`, `Buscar`, `Inserir` and `Cortar` are what the queries can
see of the requests that move orders: the status, `dataConclusao`, and `recordOsTransition` with its
clock, its own read (the `OsFaseDuracao` metric) and its insert. One clock serves all replicas and
ticks in milliseconds; the trail is a set of rows, so two identical ones in a millisecond are one. No
order is created or deleted while one reads. The mean is left out: the properties are about the set of
stays it is taken over.

## 3. Runs

All runs set `CHECK_DEADLOCK FALSE`: requests are bounded, so the system does stop. Requests are
interchangeable, so runs whose properties are invariants or `[][A]_v` reduce by symmetry of requests
(`ConsultasSimultaneas` also of orders); the runs of liveness and of the refinement do not.

| Run | Bounds | Question |
|---|---|---|
| `CicloPecas` | 1 order, 2 parts, 2 requests in flight, 6 in all, cuts | Are status, trail and parts coherent under any interleaving? Do the handlers implement `PecasDaOs`? |
| `CicloEstoque` | 2 orders, 1 part, 2 requests and 2 movements in flight, cuts | Does the stock stay within limits? |
| `CicloTrilha` | 1 order, 2 in flight, 6 in all, no cuts, fairness | Is the current status recorded, and in the end? |
| `CicloSerial` | 2 orders, one request at a time, 7 in all, cuts | Is everything right without races? |
| `AberturaConcorrente` | 2 orders, 2 clients, 1 vehicle, 1 service, 1 part, 3 requests, cuts | What can an opening miss? |
| `AberturaSerial` | the same records, one request at a time, 5 in all, no cuts | Are inactivations blocked and creations recorded, without races? |
| `OrcamentoAnuncio` | 1 order of a service and two units of a part, 2 in flight, 5 in all, 2 prices, 1 change, SNS or SMTP, cuts and repetitions | Which total is stored, which was announced, which accepted? What may a caller conclude? |
| `CadastroSemeado` | a seeded and a new row per table, 2 keys, 2 requests, 2 executions of the seed cut anywhere | Do keys, updates and owners survive races? Can the seed be run again? |
| `AcessoContas` | an ADMIN, an account of any role, one not created; 2 in flight, 4 in all | Does anybody act with what was taken away before? Who changes a password? |
| `ConsultasSimultaneas` | 3 orders, pages of 2, clock 0..2, 2 changes, cuts | What do panel, walk and averages show while orders move? |

Bounds: the flaws these invariants exclude take two or three actors, and an order reaches
`ENTREGUE` in five requests; six in all let two requests race at any status on the way. Two
parts are needed to see a partial reservation, two orders to see stock shared. Only an order with
items is interesting for the parts, and the theorems cover every quantity, zero included.
In `OrcamentoAnuncio` five requests open, diagnose, budget, and race a second budget or a repetition
with the answer; one change of price falls between any two reads. In `CadastroSemeado` two requests
are what a race of look-ups takes, and they fall anywhere in two executions of the seed, between the
two statements of an upsert too. In
`AcessoContas` four are two logins and two requests that cross. In `ConsultasSimultaneas` three orders
over pages of two make a walk of two pages, with orders that tie; `MaxNomeados = 1` column per body
and one other column are enough because every column is treated alike, and the theorems take any.
The proofs cover all of them without bounds.

Two more runs expect a violation. Each checks one statement of the repository's documentation
that the code does not keep when requests race; `PROJECT.json` quotes the line.

| Run | Shows |
|---|---|
| `CorridaRejeicao` | approval and rejection cross: rejected, with its parts reserved. The same overwrite takes orders off the graph |
| `CorridaEstoque` | approvals of two orders with a common part cross: a decrement is lost |

Read together they say where the lines are. `EstoqueConservado`, `GrafoRespeitado`, `TrilhaNoGrafo`,
`RejeitadaSemReserva`, `CadastroAtivoNaOs` and `InativacaoBloqueada` hold one request at a time
(`CicloSerial`, `AberturaSerial`) and are lost to races: the webhook that reads back another's status
records a transition nobody may make, and an order is opened between the count and the soft-delete.
`StatusNaTrilha` and `CriacaoNaTrilha` survive races and are lost to a request cut between status and
trail, so they are checked without cuts. `AceiteDoUltimoAnuncio` and `DecisaoFirme` hold of requests
that came one after the other, cut and repeated ones included; two budgets that race may be announced
in the opposite order of their writes. `OrcamentoAnunciado` survives races and is lost with a notice,
which SMTP does not report. `PercursoCompleto` holds while no order is written and none tie; a
panel page tells the truth about the orders nobody wrote between its reads. `MediasCoerentes` is about
orders no two requests overlapped on. All the others survive both races and cuts.

Every property of a passing run has a mutant (`PROJECT.json`, `mutants`): a plausible bug, written
beside the definition it would replace, that the run catches.

### Fairness

`SpecJusta` assumes weak fairness of `Passo(r)` and `Movimentar(b)`: once a request is in flight,
Node runs its continuation when its query settles, and every query settles (Prisma and the
transactions have timeouts). Nothing obliges a caller to send a request, so arrivals have no
fairness; failures have none either.

## 4. Proofs

All theorems hold for every set of orders, parts and requests, every quantity, and every bound,
under the assumptions named in the modules (quantities, prices and initial stock are naturals, movements
are integers, the bounds are naturals; parts are not also clients, vehicles or services; the ids and
keys in the seed's file are distinct, and no registration is given one of those ids; in `Consultas`
the orders are finitely many, the clock counts from 0 without gaps, and the orders are created on any
date not after its start).

- `TypeCorrect`, `AberturaTipada`: types.
- `StatusSempreComLastro`, `TrilhaSempreComLastro`, `PecasTudoOuNada`: from the inductive `PecasInv`.
  That a status is backed by parts is not inductive: `finalizar` writes `FINALIZADA` from a read made
  earlier. `PedidoComLastro` says that whatever status a request read, and whatever it will write or
  record, is still backed when it acts on it, and `LeituraCompleta` that the items it read, with
  those already written, are all the items of the order. Both survive every step of any other request
  because parts only move forward.
- `EstoqueSempreLimitado`: from `EstoqueInv`, which bounds what each open transaction *will* write,
  so that even a lost update stays within limits.
- `Implementa`: `Spec => Promessa!Spec`, each step of `CicloDeVidaOs` mapped to a step of `PecasDaOs`
  or a stutter, on top of `PecasInv`.
- `AberturaSempreSemInativo`: from `AberturaInv`. No record is reactivated, so what was inactive when
  a request arrived is missed by each of its reads (`LeituraSemInativo`); no two requests open the same
  order (`IdentidadeUnica`), so what one inserted is what the order still refers to.

- `AvisoSempreNaTrilha`: inductive given the types; only the step that records a row leads to the
  notification, and no row is ever removed.
- `StatusSempreNaTrilha`, `CriacaoSempreNaTrilha`: under the hypothesis `~Falhas`, that no request is
  cut between its writes. The first is inductive on top of
  `PecasInv`; the second because `auditar` follows `inserir` in the same request.

- `OrcamentoProofs`, from `OrcamentoInv`. An action property about the write of a total says nothing of
  the reads it came from: `LeituraCertaDe` keeps, for each request, that what it read is among the
  prices seen since it arrived, which a change of price only widens. `AberturaUnica` says one request
  at most opens the order and no other is in flight before it exists; `SucessoCertoDe` carries the
  announcement from the notice to the answer. `EmOrdem` is the part about requests that came one after
  the other: at most one is in flight, and the status it read is still the status it will overwrite, so
  that its write is a transition of the graph. `OrcamentoAnunciado` is itself a conjunct. Theorems: `OrcamentoTipado`,
  `OrcamentoSempreAnunciado`, `TotalSempreDePrecosVistos`, `AceiteSempreDoUltimoAnuncio`,
  `DecisaoSempreFirme`, `SucessoSempreAnunciado`.
- `SemeaduraProofs`, from `SementeInv`. `CadastroInv` is about requests: the row of a registration is
  nobody else's (`AlvoCerto`), whoever has its key by now was written meanwhile (`ChaveDisputada`), and
  the owner read was active or was written meanwhile (`DonoVisto`). `ChavesUnicas` is what makes "the
  row with this key" one row, so that the SELECT of an upsert finds one at most. `LeituraCerta` carries
  what that SELECT found over the requests that commit before the upsert writes: a row found is still
  there, and with its key if it is a client or a vehicle; a key nobody had is held, if at all, by a row of
  `surgidas`. It is what tells a lost race (`ChavePerdida`) from a row an earlier execution left. The rest
  follows the seed's program counter: clients and vehicles under a fixed id have the key of the file (`FixasCertas`), the arrays hold
  rows of the right key and owner for the turns done (`ArranjosCertos`), and the orders created so far
  (`SemeadasCertas`, `OrdensCertas`) are coherent. All steps of requests reduce to one lemma: a step that
  writes only rows it adds to `mexidos` preserves what the others hold. Theorems: `SemeaduraTipada`,
  `ChavesSempreUnicas`, `DemonstracaoSempreCoerente`, `RecusaSempreEmDisputa`,
  `VeiculoSempreDeClienteAtivo`, `AtualizacaoSemprePrecisa`, `SementeSempreRefaz`.
- `AcessoProofs`, from `AcessoInv`: the role a request goes on with is one its bearer had since it arrived and its
  route admits (`Vigencia`); the password an account has is among those every request about it has
  seen (`Testemunhas`), hence the one compared was (`Comparadas`); an account being created is
  nobody else's (`ContaCerta`), without which a creation could replace a password; a login's row is an
  account's (`Entrada`). Theorems: `AcessoTipado`, `ContaSempreVigente`, `SenhaSempreComprovada`.

- `CicloSerialProofs`, from `SerialInv` of `CicloDeVidaOs`, on top of `TypeOK` and `PecasInv` (a serial
  behaviour is a behaviour, `SerialEhSpec`). What the handlers never check is true when nothing races:
  the status a request read is the one it will overwrite, the one it wrote is the one it reads back, and
  the snapshot of a transaction is the stock (`PedidoAtual`, `LeiturasAtuais`). That an order not yet
  approved holds nothing (`SoAprovadaReserva`) is what a rejection relies on. `EstoqueConservado` counts
  what orders hold as the cardinality of a set of units, each told apart by its order, so that an approval adds a block
  of `Quantidade[o][p]` new units and no sum over orders has to be unfolded by induction. Theorems:
  `SerialInvSempre`, `EstoqueSempreConservado`, `TrilhaSempreNoGrafo`, `RejeitadaSempreSemReserva`,
  `GrafoSempreRespeitado`.
- `AberturaOsProofs` also has `SerialInv` of `AberturaOs`: what an opening has read so far is active, and
  what an inactivation counted as free still is (`LeituraVigente`). Theorems: `SerialInvSempre`,
  `CadastroSempreAtivoNaOs`, `InativacaoSempreBloqueada`.
- `ConsultasProofs`, three invariants on top of the types.
  - `PaginaInv` carries `SequenciaFirme` from the ids to the rows: a slice of a listing is in order, and
    a write between the reads only takes an order out of what the page answers for.
  - `PercursoInv` says where in the ranking a walk is. `Posto` is how many orders the panel puts before one;
    without ties the i-th of a listing has exactly i - 1 (`PostoNaListagem`: as many distinct orders as
    there are is all of them), so pages read from different queries fit together. `HaMaisPaginas` is the
    arithmetic of `skip` and `Math.ceil(total / limit)`: the page after this one starts inside the list
    exactly when there is one.
  - `HistoriaInv` is about an order no two requests overlapped on: every edge of the graph but the budget
    generated again takes it forward (`Avanco`, `GrafoAvanca`), so it enters and leaves a measured phase
    once, and the row, the metric and the request between them agree. `MediasInv` says what is counted so
    far: a pair of rows of a phase is still to be looked up or already a stay, and its exit is unique, which is
    why taking the first one after the entry is right.
  Theorems: `ConsultasTipada`, `PaginaSempreCoerente`, `PercursoSempreCompleto`, `MediasSempreCoerentes`.

The inductive invariants of the core are also invariants of runs (`PecasInv`, `EstoqueInv`,
`AberturaInv`), proved in `PecasInvSempre`, `EstoqueInvSempre` and `AberturaInvSempre`. The others
(`SerialInv`, `PaginaInv`, `PercursoInv`, `HistoriaInv`, `MediasInv`) were checked by TLC over the constants
of their component's run before they were proved, and are in no run of their own: they say nothing a
property of the run does not, but how it stays true.

Every invariant and action property of a passing run is proved. Model-checked only: liveness
(`StatusChegaATrilha`; fairness and ENABLED are outside what the prover handles), and the two
violations, which are counterexamples.

## 5. Not modelled, and why

- Digits of CPF/CNPJ and plates, DTO validation, status codes of malformed input: pure functions over
  strings, reached by unit tests.
- Queries of one read (an order, its history, lists of the registry): they change nothing and see one
  state.
- Logging, tracing, start-up checks, the webhook's secret, manifests: no state a property is about.
  What the models take from the deployment is that replicas serve requests together and may be killed.
- `save` of the order repository: no use case calls it. `dataEntrega`, and the arithmetic mean of the
  averages.
- Components are composed where they share state that a property relates: openings with what happens to
  open orders, the seed with registrations. Not composed: the seed with the stock and with the panel, tokens with the effects of
  each handler, budgets with stock.

Twelve hazards of PROJECT.json have no property. In some the code does lose what a property would
state, so the properties are about the other cases: a request cut after its write leaves no row in the
trail (`StatusNaTrilha` and `CriacaoNaTrilha` are about requests that go on), a count of orders may be
stale at the soft-delete (`InativacaoBloqueada` is about requests one at a time), a page after a change
may skip an order (`PercursoCompleto` is about an undisturbed walk) and a budget SMTP dropped was never
seen (`OrcamentoAnunciado` is about budgets none of whose notices was lost). Two are left to what is taken for granted or kept out of
the model: the rollback of a reservation is the database's, one step here, and the 409 a repeated
request gets is not kept. That the seed gives finished orders a `dataConclusao` earlier than
their `dataCriacao`, and writes stock back, are statements about constants of one file. An opening
repeated after a lost answer opens a second order, the last ADMIN can remove itself, and the webhook can
take an order to `AGUARDANDO_APROVACAO` without a budget: in each the code attempts nothing that could
fail, so a property would only restate its absence.
