------------------------------ MODULE MCAccounts ------------------------------
\* Accounts for TLC.
EXTENDS Accounts

\* From the TOML file as it is; with the shortest interval set at run time; with a
\* registrar of its own behind a TLS proxy; and pinned to its transport, with SRV
\* and the interval of the comment in populate_acc_cfg.
MCConfigs ==
    LET Registrar == [scheme |-> "sip", transport |-> "none", port |-> TRUE]
        Proxy == [scheme |-> "sip", transport |-> "tls", port |-> TRUE]
        Plain(transport) == ToAccountConfig(transport, FALSE, None, None)
    IN  {Plain("udp"),
         [Plain("tls") EXCEPT !.reg_retry_interval = 1],
         [ToAccountConfig("tls", TRUE, Registrar, Proxy) EXCEPT !.reg_retry_interval = 4],
         [Plain("tcp") EXCEPT
             !.dns_srv = TRUE, !.transport_id = "tcp", !.reg_retry_interval = 10]}
===============================================================================
