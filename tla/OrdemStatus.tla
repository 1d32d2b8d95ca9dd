----------------------------- MODULE OrdemStatus -----------------------------
(***************************************************************************)
(* The status of a service order (OS) and the rules that say from which    *)
(* status each operation may start: the enum StatusOs and the stateless    *)
(* OrderStatusService that every use case asks before it writes.           *)
(***************************************************************************)

StatusOs == {"RECEBIDA", "EM_DIAGNOSTICO", "AGUARDANDO_APROVACAO",
             "EM_EXECUCAO", "FINALIZADA", "ENTREGUE", "REJEITADA"}

\* STATUS_OS_NAO_TERMINAIS: neither delivered nor rejected.
StatusNaoTerminais == StatusOs \ {"ENTREGUE", "REJEITADA"}

\* The operations that change the status of an existing OS: the five admin
\* use cases, the client's answer to the budget and the partner's webhook.
OperacoesOs == {"diagnostico", "orcamento", "aprovar", "rejeitar",
                "finalizar", "entregar", "webhook"}

StatusParaGerarOrcamento ==
    {"RECEBIDA", "EM_DIAGNOSTICO", "AGUARDANDO_APROVACAO"}

\* Mutant: the webhook may reject an OS whose parts are reserved.
TransicoesWebhookRejeitando ==
    {<<"RECEBIDA", "EM_DIAGNOSTICO">>,
     <<"EM_DIAGNOSTICO", "AGUARDANDO_APROVACAO">>,
     <<"AGUARDANDO_APROVACAO", "EM_EXECUCAO">>,
     <<"AGUARDANDO_APROVACAO", "REJEITADA">>,
     <<"EM_EXECUCAO", "REJEITADA">>,
     <<"EM_EXECUCAO", "FINALIZADA">>,
     <<"FINALIZADA", "ENTREGUE">>}

\* assertTransicaoWebhookPermitida: pairs the webhook accepts.
TransicoesWebhook ==
    {<<"RECEBIDA", "EM_DIAGNOSTICO">>,
     <<"EM_DIAGNOSTICO", "AGUARDANDO_APROVACAO">>,
     <<"AGUARDANDO_APROVACAO", "EM_EXECUCAO">>,
     <<"AGUARDANDO_APROVACAO", "REJEITADA">>,
     <<"EM_EXECUCAO", "FINALIZADA">>,
     <<"FINALIZADA", "ENTREGUE">>}

\* Each admin or client operation as <<operation, status read, status written>>;
\* the status read is what the use case asserts before it writes.
TransicoesDiretas ==
    {<<"diagnostico", "RECEBIDA", "EM_DIAGNOSTICO">>,
     <<"aprovar",     "AGUARDANDO_APROVACAO", "EM_EXECUCAO">>,
     <<"rejeitar",    "AGUARDANDO_APROVACAO", "REJEITADA">>,
     <<"finalizar",   "EM_EXECUCAO", "FINALIZADA">>,
     <<"entregar",    "FINALIZADA", "ENTREGUE">>}
    \cup {<<"orcamento", s, "AGUARDANDO_APROVACAO">> : s \in StatusParaGerarOrcamento}

\* The assertion of operation op succeeds on an OS read in status de.
TransicaoPermitida(op, de, para) ==
    \/ op = "webhook" /\ <<de, para>> \in TransicoesWebhook
    \/ <<op, de, para>> \in TransicoesDiretas

\* The transition graph of the documentation: every pair some operation allows.
GrafoDocumentado ==
    {t \in StatusOs \X StatusOs :
        \E op \in OperacoesOs : TransicaoPermitida(op, t[1], t[2])}

==============================================================================
