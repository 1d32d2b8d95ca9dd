SPECIFICATION Spec
CONSTANTS
    Ordens = {o1, o2, o3}
    StatusIniciais = {"AGUARDANDO_APROVACAO", "EM_EXECUCAO"}
    Criacoes <- UmaMaisNova
    Instantes = {0, 1, 2}
    Pedidos = {r1, r2}
    Limites = {2}
    MaxMudancas = 2
SYMMETRY Simetria
INVARIANTS ConsultasTypeOK PaginaCoerente PercursoCompleto MediasCoerentes
CHECK_DEADLOCK FALSE
