SPECIFICATION Spec
CONSTANTS
    o1 = o1
    o2 = o2
    p1 = p1
    p2 = p2
    Ordens = {o1}
    Pecas = {p1}
    Pedidos = {r1, r2}
    Balcao = {}
    Quantidade <- UmaDeCadaPeca
    EstoqueInicial <- UmDeEstoque
    Operacoes <- OperacoesDeReserva
    Deltas <- SemMovimentos
    Falhas = FALSE
    MaxPedidos = 3
    MaxMovimentos = 0
INVARIANT RejeitadaSemReserva
CHECK_DEADLOCK FALSE
