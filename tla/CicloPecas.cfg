SPECIFICATION Spec
CONSTANTS
    o1 = o1
    o2 = o2
    p1 = p1
    p2 = p2
    Ordens = {o1}
    Pecas = {p1, p2}
    Pedidos = {r1, r2}
    Balcao = {}
    Quantidade <- UmaDeCadaPeca
    EstoqueInicial <- UmDeEstoque
    Operacoes <- OperacoesOs
    Deltas <- SemMovimentos
    Falhas = TRUE
    MaxPedidos = 6
    MaxMovimentos = 0
INVARIANTS TypeOK StatusComLastro TrilhaComLastro TudoOuNada AvisoNaTrilha PecasInv
PROPERTY CumprePecasDaOs
CHECK_DEADLOCK FALSE
