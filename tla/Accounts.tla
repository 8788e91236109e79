------------------------------- MODULE Accounts -------------------------------
(***************************************************************************)
(* SIP accounts (pjsua_app.rs): what PjsuaApp makes of an AccountConfig,   *)
(* when PJSUA registers the account again after a failure, and calls made  *)
(* with an AccountId that may since have been removed.                     *)
(*                                                                         *)
(* An AccountId is PJSUA's slot, which the next add_account may take again.*)
(* The application keeps every id it was given: its command queue and its  *)
(* retry tick use ids of accounts removed meanwhile (pjsua_app.rs:562-565).*)
(* Some calls of PJSUA assert that the account exists, and the assertion    *)
(* ends the process (pjsua_app.rs:566-570).                                 *)
(***************************************************************************)
EXTENDS Integers, Sequences, FiniteSets

CONSTANTS
    Slots,     \* PJSUA's account slots
    Threads,   \* threads that share the PjsuaApp
    Configs,   \* AccountConfigs the application uses
    None,      \* an Option that is not set
    MaxAdds    \* bound: calls of add_account that succeed

ASSUME MaxAddsAssumption == MaxAdds \in Nat

\* A SIP URI, as far as PJSIP's choice of a transport depends on it.
Uri == [scheme : {"sip", "sips"}, transport : {"tcp", "tls", "none"}, port : BOOLEAN]

TransportType == {"udp", "tcp", "tls"}

\* An AccountConfig, as far as registration depends on it.
AccountConfig ==
    [transport : TransportType, use_sips : BOOLEAN, dns_srv : BOOLEAN,
     registrar : Uri \cup {None}, proxy : Uri \cup {None},
     transport_id : TransportType \cup {None}, \* the transport it is pinned to
     reg_retry_interval : Nat \cup {None}]

ASSUME ConfigsAssumption == Configs # {} /\ Configs \subseteq AccountConfig
ASSUME NoneAssumption == None \notin Uri \cup Nat \cup TransportType

VARIABLES
    ids,     \* the AccountIds add_account returned, oldest first
    owner,   \* which of them each slot was last given to; 0: the slot is free
    conf,    \* the AccountConfig each slot's account was made with
    wanted,  \* the application wants the account registered
    reg,     \* the account's registration
    timer,   \* PJSUA will send the next REGISTER by itself
    server,  \* the registrar: it answers, refuses, or cannot be reached
    pc,      \* the call into PJSUA each thread is about to make
    aborted  \* an assertion of PJSUA has ended the process

slotvars == <<owner, conf, wanted, reg, timer>>
vars == <<ids, slotvars, server, pc, aborted>>

Idle == [op |-> "idle", id |-> 0]

-----------------------------------------------------------------------------
\* From an AccountConfig to PJSUA's account configuration.

\* A variant that names no transport for TLS.
TransportParamUdp(c) == IF c.transport = "tcp" THEN "tcp" ELSE "none"

\* ;transport=tcp, ;transport=tls or nothing.
TransportParam(c) ==
    CASE c.transport = "tcp"                 -> "tcp"
      [] c.transport = "tls" /\ ~c.use_sips  -> "tls"
      [] OTHER                               -> "none"

Scheme(c) == IF c.use_sips THEN "sips" ELSE "sip"

\* The account's own registrar as it is, or its server; with dns_srv the port is
\* left to SRV.
RegistrarUri(c) ==
    IF c.registrar # None THEN c.registrar
    ELSE [scheme |-> Scheme(c), transport |-> TransportParam(c), port |-> ~c.dns_srv]

\* How PJSIP reaches a URI.
UriTransport(u) ==
    IF u.scheme = "sips" THEN "tls"
    ELSE IF u.transport = "none" THEN "udp" ELSE u.transport

Or(option, default) == IF option = None THEN default ELSE option

\* A variant that leaves PJSIP's random interval.
PopulateAccCfgRandom(c) ==
    [reg_uri                   |-> RegistrarUri(c),
     proxy                     |-> c.proxy,
     transport_id              |-> c.transport_id,
     reg_retry_interval        |-> Or(c.reg_retry_interval, 300),
     reg_first_retry_interval  |-> Or(c.reg_retry_interval, 0),
     reg_retry_random_interval |-> 10]

\* populate_acc_cfg over pjsua_acc_config_default, as far as a REGISTER depends on
\* it: a retry interval sets both intervals and caps the random one; without one
\* PJSIP's 300, 0 and 10 stay.
PopulateAccCfg(c) ==
    [reg_uri                   |-> RegistrarUri(c),
     proxy                     |-> c.proxy,
     transport_id              |-> c.transport_id,
     reg_retry_interval        |-> Or(c.reg_retry_interval, 300),
     reg_first_retry_interval  |-> Or(c.reg_retry_interval, 0),
     reg_retry_random_interval |-> IF c.reg_retry_interval = None THEN 10
                                   ELSE c.reg_retry_interval \div 4]

\* What to_account_config makes of an account of the TOML file: its registrar and
\* its proxy are passed on; SRV, retries and pinning are not its business.
ToAccountConfig(transport, use_sips, registrar, proxy) ==
    [transport |-> transport, use_sips |-> use_sips, dns_srv |-> FALSE,
     registrar |-> registrar, proxy |-> proxy, transport_id |-> None,
     reg_retry_interval |-> None]

\* The transport PJSIP sends a REGISTER over: the one the account is pinned to,
\* or the one its first hop asks for.
RegTransport(cfg) ==
    Or(cfg.transport_id, UriTransport(Or(cfg.proxy, cfg.reg_uri)))

\* PJSUA's delay before the next REGISTER: after a transport failure the first
\* interval, after a refusal the other, less a random part; 0 is no retry.
Delay(cfg, failure, random) ==
    (IF failure = "unreachable" THEN cfg.reg_first_retry_interval ELSE cfg.reg_retry_interval)
        - random

-----------------------------------------------------------------------------
Init ==
    /\ ids = <<>>
    /\ owner = [s \in Slots |-> 0]
    /\ conf = [s \in Slots |-> CHOOSE c \in Configs : TRUE]
    /\ wanted = [s \in Slots |-> FALSE]
    /\ reg = [s \in Slots |-> "off"] /\ timer = [s \in Slots |-> FALSE]
    /\ server = "up"
    /\ pc = [t \in Threads |-> Idle]
    /\ aborted = FALSE

\* A variant that returns the id it started from when PJSUA refuses.
AddAccountUnchecked(t, s, c) ==
    /\ ~aborted
    /\ pc[t] = Idle /\ Len(ids) < MaxAdds
    /\ owner[s] = 0
    /\ ids' = Append(ids, -1)
    /\ UNCHANGED <<slotvars, server, pc, aborted>>

\* add_account: a free slot, registered at once.  A call that fails changes
\* nothing.
AddAccount(t, s, c) ==
    /\ ~aborted
    /\ pc[t] = Idle /\ Len(ids) < MaxAdds
    /\ owner[s] = 0
    /\ ids' = Append(ids, s)
    /\ owner' = [owner EXCEPT ![s] = Len(ids) + 1]
    /\ conf' = [conf EXCEPT ![s] = c]
    /\ wanted' = [wanted EXCEPT ![s] = TRUE]
    /\ reg' = [reg EXCEPT ![s] = "trying"]
    /\ timer' = [timer EXCEPT ![s] = FALSE]
    /\ UNCHANGED <<server, pc, aborted>>

\* modify_account: PJSUA takes the new configuration whole, and refuses a slot
\* that is free.
ModifyAccount(t, i, c) ==
    /\ ~aborted
    /\ pc[t] = Idle
    /\ owner[ids[i]] # 0
    /\ conf' = [conf EXCEPT ![ids[i]] = c]
    /\ wanted' = [wanted EXCEPT ![ids[i]] = TRUE]
    /\ reg' = [reg EXCEPT ![ids[i]] = "trying"]
    /\ timer' = [timer EXCEPT ![ids[i]] = FALSE]
    /\ UNCHANGED <<ids, owner, server, pc, aborted>>

\* set_registration and remove_account first ask pjsua_acc_is_valid, and return
\* when the slot is free.
CheckValid(t, i, op) ==
    /\ ~aborted
    /\ pc[t] = Idle
    /\ owner[ids[i]] # 0
    /\ pc' = [pc EXCEPT ![t] = [op |-> op, id |-> i]]
    /\ UNCHANGED <<ids, slotvars, server, aborted>>

\* The slot a thread is about to act on, and who has it now.
Target(t) == ids[pc[t].id]

\* pjsua_acc_set_registration; while a REGISTER is in flight it fails (EBUSY).
SetRegistration(t) ==
    /\ ~aborted
    /\ pc[t].op \in {"register", "unregister"}
    /\ owner[Target(t)] # 0
    /\ pc' = [pc EXCEPT ![t] = Idle]
    /\ IF reg[Target(t)] = "trying" THEN UNCHANGED <<wanted, reg, timer>> ELSE
          /\ wanted' = [wanted EXCEPT ![Target(t)] = (pc[t].op = "register")]
          /\ reg' = [reg EXCEPT ![Target(t)] = IF pc[t].op = "register" THEN "trying" ELSE "off"]
          /\ timer' = [timer EXCEPT ![Target(t)] = FALSE]
    /\ UNCHANGED <<ids, owner, conf, server, aborted>>

\* pjsua_acc_del, which unregisters on its own.
RemoveAccount(t) ==
    /\ ~aborted
    /\ pc[t].op = "remove"
    /\ owner[Target(t)] # 0
    /\ pc' = [pc EXCEPT ![t] = Idle]
    /\ owner' = [owner EXCEPT ![Target(t)] = 0]
    /\ wanted' = [wanted EXCEPT ![Target(t)] = FALSE]
    /\ reg' = [reg EXCEPT ![Target(t)] = "off"]
    /\ timer' = [timer EXCEPT ![Target(t)] = FALSE]
    /\ UNCHANGED <<ids, conf, server, aborted>>

\* Either of them on a slot that was freed since the check: PJSUA asserts.
Abort(t) ==
    /\ ~aborted
    /\ pc[t] # Idle
    /\ owner[Target(t)] = 0
    /\ aborted' = TRUE
    /\ UNCHANGED <<ids, slotvars, server, pc>>

Call(t) ==
    \/ \E s \in Slots, c \in Configs : AddAccount(t, s, c)
    \/ \E i \in 1..Len(ids), c \in Configs : ModifyAccount(t, i, c)
    \/ \E i \in 1..Len(ids), op \in {"register", "unregister", "remove"} : CheckValid(t, i, op)
    \/ SetRegistration(t) \/ RemoveAccount(t) \/ Abort(t)

-----------------------------------------------------------------------------
\* PJSUA's registration.

\* The server, or the proxy before it, listens on the transport the account is
\* configured for.
Reached(s) ==
    server # "down" /\ RegTransport(PopulateAccCfg(conf[s])) = conf[s].transport

Registered(s) ==
    /\ ~aborted
    /\ reg[s] = "trying"
    /\ Reached(s) /\ server = "up"
    /\ reg' = [reg EXCEPT ![s] = "on"]
    /\ UNCHANGED <<ids, owner, conf, wanted, timer, server, pc, aborted>>

\* A REGISTER fails, and PJSUA draws the delay until the next one.
Failed(s) ==
    /\ ~aborted
    /\ reg[s] = "trying"
    /\ ~(Reached(s) /\ server = "up")
    /\ LET failure == IF Reached(s) THEN "refused" ELSE "unreachable"
           cfg == PopulateAccCfg(conf[s])
       IN  /\ reg' = [reg EXCEPT ![s] = failure]
           /\ \E r \in 0..cfg.reg_retry_random_interval :
                 timer' = [timer EXCEPT ![s] = Delay(cfg, failure, r) > 0]
    /\ UNCHANGED <<ids, owner, conf, wanted, server, pc, aborted>>

\* The registration is due for a refresh, or the timer set after a failure ends.
Resend(s) ==
    /\ ~aborted
    /\ reg[s] = "on" \/ timer[s]
    /\ reg' = [reg EXCEPT ![s] = "trying"]
    /\ timer' = [timer EXCEPT ![s] = FALSE]
    /\ UNCHANGED <<ids, owner, conf, wanted, server, pc, aborted>>

Retry(s) == timer[s] /\ Resend(s)

ServerChanges ==
    /\ ~aborted
    /\ server' \in {"up", "refuses", "down"} \ {server}
    /\ UNCHANGED <<ids, slotvars, pc, aborted>>

Next ==
    \/ \E t \in Threads : Call(t)
    \/ \E s \in Slots : Registered(s) \/ Failed(s) \/ Resend(s)
    \/ ServerChanges

Spec == Init /\ [][Next]_vars

\* A REGISTER is answered or times out, and PJSUA's timer ends.
FairSpec ==
    /\ Spec
    /\ \A s \in Slots : WF_vars(Registered(s) \/ Failed(s)) /\ WF_vars(Retry(s))

-----------------------------------------------------------------------------
\* Properties.

TypeOK ==
    /\ ids \in Seq(Slots) /\ Len(ids) <= MaxAdds
    /\ owner \in [Slots -> 0..MaxAdds]
    /\ conf \in [Slots -> Configs]
    /\ wanted \in [Slots -> BOOLEAN]
    /\ reg \in [Slots -> {"off", "trying", "on", "refused", "unreachable"}]
    /\ timer \in [Slots -> BOOLEAN]
    /\ server \in {"up", "refuses", "down"}
    /\ pc \in [Threads -> [op : {"idle", "register", "unregister", "remove"}, id : 0..MaxAdds]]
    /\ \A t \in Threads : pc[t].op # "idle" => pc[t].id \in 1..Len(ids)
    /\ aborted \in BOOLEAN

\* The account was configured to try again.
Retries(s) ==
    /\ owner[s] # 0 /\ wanted[s]
    /\ conf[s].reg_retry_interval # None /\ conf[s].reg_retry_interval > 0

\* An account with a retry interval is never left unregistered with nothing
\* pending, after either kind of failure and whatever PJSUA draws: not even the
\* shortest interval is used up by the random part (pjsua_app.rs:1272-1281).
NeverStuck == \A s \in Slots : Retries(s) => timer[s] \/ reg[s] \in {"trying", "on"}

\* However set_registration and remove_account run on the threads that share the
\* PjsuaApp (pjsua_app.rs:124-129), the check each makes first keeps PJSUA's
\* assertion on a free slot from ending the process: "Guard against a registration
\* request racing an account delete" (pjsua_app.rs:562).
NoAbort == ~aborted

\* Once the server stays up, an account that retries is registered, whatever
\* failed before, over its own transport, its proxy's or the one it is pinned to
\* (types.rs:609-614, 678-719), unless the process has ended.
Recovers ==
    <>[](server = "up") =>
        \A s \in Slots : Retries(s) ~> (reg[s] = "on" \/ ~Retries(s) \/ aborted)

===============================================================================
