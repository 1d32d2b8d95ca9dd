SPECIFICATION Spec
CONSTANTS
    s1 = s1
    p1 = p1
    Servicos = {s1}
    Pecas = {p1}
    Quantidade <- UmServicoDuasPecas
    Precos = {1, 2}
    PrecoInicial <- PrecosDeAbertura
    Canais = {"sns", "smtp"}
    Pedidos = {r1, r2}
    Falhas = TRUE
    MaxPedidos = 5
    MaxMudancas = 1
INVARIANTS OrcamentoTypeOK OrcamentoAnunciado
PROPERTIES TotalDePrecosVistos AceiteDoUltimoAnuncio DecisaoFirme SucessoAnunciado
CHECK_DEADLOCK FALSE
