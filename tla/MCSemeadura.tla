------------------------------ MODULE MCSemeadura ------------------------------
(***************************************************************************)
(* Instance of Semeadura for TLC: one row of each table in the file, two   *)
(* orders on the same vehicle, and one uuid of each table for requests.    *)
(***************************************************************************)
EXTENDS Semeadura, TLC

CONSTANTS cS, vS, sS, pS, uS, c1, v1, s1, p1, u1, kS

TodosOsIds == {cS, vS, sS, pS, uS, c1, v1, s1, p1, u1}

TabelaDe ==
    [i \in TodosOsIds |->
        CASE i \in {cS, c1} -> "clientes" [] i \in {vS, v1} -> "veiculos"
          [] i \in {sS, s1} -> "servicos" [] i \in {pS, p1} -> "pecas" [] OTHER -> "usuarios"]

LinhasDoArquivo ==
    [l \in Tabelas |-> << [id |-> CHOOSE i \in IdsFixos : TabelaDe[i] = l,
                          chave |-> IF l = "servicos" THEN SemChave ELSE kS] >>]

UmDeCada == [l \in Tabelas |-> 1]

Simetria == Permutations(Pedidos)

DuasOrdens == [o \in 1..2 |-> 1]

==============================================================================
