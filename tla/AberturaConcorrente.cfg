SPECIFICATION Spec
CONSTANTS
    c1 = c1
    c2 = c2
    v1 = v1
    Ordens = {o1, o2}
    Clientes = {c1, c2}
    Veiculos = {v1}
    Servicos = {s1}
    Pecas = {p1}
    DonoDe <- DonoDoVeiculo
    Pedidos = {r1, r2, r3}
    Falhas = TRUE
    MaxPedidos = 3
SYMMETRY SimetriaPedidos
INVARIANTS AberturaTypeOK AberturaSemInativo AberturaInv
CHECK_DEADLOCK FALSE
