SPECIFICATION SpecSemeadura
CONSTANTS
    cS = cS
    vS = vS
    sS = sS
    pS = pS
    uS = uS
    kS = kS
    c1 = c1
    v1 = v1
    s1 = s1
    p1 = p1
    u1 = u1
    Ids <- TodosOsIds
    Tabela <- TabelaDe
    IdsFixos = {cS, vS, sS, pS, uS}
    Chaves = {kS, k1}
    SemChave = SemChave
    Campos = {"nome"}
    Valores = {1, 2}
    ValorInicial = 1
    Ninguem = Ninguem
    Pedidos = {r1, r2}
    MaxPedidos = 2
    MaxNomeados = 1
    Linhas <- LinhasDoArquivo
    Tamanho <- UmDeCada
    OrdemDe <- DuasOrdens
    NumOrdens = 2
    MaxRodadas = 2
SYMMETRY Simetria
INVARIANTS SemeaduraTypeOK DemonstracaoCoerente
PROPERTIES RecusaSoEmDisputa VeiculoDeClienteAtivo AtualizacaoPrecisa SementeRefaz
CHECK_DEADLOCK FALSE
