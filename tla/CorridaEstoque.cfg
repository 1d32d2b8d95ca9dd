SPECIFICATION Spec
CONSTANTS
    o1 = o1
    o2 = o2
    p1 = p1
    p2 = p2
    Ordens = {o1, o2}
    Pecas = {p1}
    Pedidos = {r1, r2}
    Balcao = {}
    Quantidade <- UmaDeCadaPeca
    EstoqueInicial <- DoisDeEstoque
    Operacoes <- OperacoesDeReserva
    Deltas <- SemMovimentos
    Falhas = FALSE
    MaxPedidos = 4
    MaxMovimentos = 0
INVARIANT EstoqueConservado
CHECK_DEADLOCK FALSE
