SPECIFICATION SpecSerial
CONSTANTS
    o1 = o1
    o2 = o2
    p1 = p1
    p2 = p2
    Ordens = {o1, o2}
    Pecas = {p1}
    Pedidos = {r1}
    Balcao = {b1}
    Quantidade <- UmaDeCadaPeca
    EstoqueInicial <- DoisDeEstoque
    Operacoes <- OperacoesOs
    Deltas <- MaisOuMenosUm
    Falhas = TRUE
    MaxPedidos = 7
    MaxMovimentos = 1
INVARIANTS EstoqueConservado TrilhaNoGrafo RejeitadaSemReserva
PROPERTY GrafoRespeitado
CHECK_DEADLOCK FALSE
