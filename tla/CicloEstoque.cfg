SPECIFICATION Spec
CONSTANTS
    o1 = o1
    o2 = o2
    p1 = p1
    p2 = p2
    Ordens = {o1, o2}
    Pecas = {p1}
    Pedidos = {r1, r2}
    Balcao = {b1, b2}
    Quantidade <- UmaDeCadaPeca
    EstoqueInicial <- DoisDeEstoque
    Operacoes <- OperacoesDeReserva
    Deltas <- MaisOuMenosUm
    Falhas = TRUE
    MaxPedidos = 4
    MaxMovimentos = 2
SYMMETRY SimetriaPedidos
INVARIANTS EstoqueLimitado EstoqueInv
CHECK_DEADLOCK FALSE
