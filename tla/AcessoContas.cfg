SPECIFICATION Spec
CONSTANTS
    adm = adm
    conta = conta
    futura = futura
    Contas = {adm, conta, futura}
    ContasIniciais = {adm, conta}
    PapelInicial <- Papeis
    Senhas = {s1, s2}
    SenhaInicial = s1
    Documentos = {cpf}
    Ninguem = Ninguem
    ExigeGateway = TRUE
    Pedidos = {r1, r2}
    MaxPedidos = 4
SYMMETRY Simetria
INVARIANTS AcessoTypeOK
PROPERTIES ContaVigente SenhaComprovada
CHECK_DEADLOCK FALSE
