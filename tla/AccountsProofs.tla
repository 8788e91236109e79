----------------------------- MODULE AccountsProofs -----------------------------
(***************************************************************************)
(* Accounts: the types, and that an account with a retry interval is never *)
(* left without a registration or a timer, for every interval.             *)
(***************************************************************************)
EXTENDS Accounts, TLAPS

\* A quarter of an interval leaves the delay above zero, where PJSIP's fixed 10
\* did not (pjsua_app.rs:1272-1281).
LEMMA QuarterLeavesDelay ==
    ASSUME NEW c \in Configs, NEW failure, NEW r \in 0..PopulateAccCfg(c).reg_retry_random_interval,
           c.reg_retry_interval # None, c.reg_retry_interval > 0
    PROVE  Delay(PopulateAccCfg(c), failure, r) > 0
<1>1. c \in AccountConfig
  BY ConfigsAssumption
<1>2. c.reg_retry_interval \in Nat
  BY <1>1 DEF AccountConfig
<1>3. \A k \in Nat : k > 0 => \A q \in 0..(k \div 4) : k - q > 0
  OBVIOUS
<1> QED  BY <1>2, <1>3 DEF PopulateAccCfg, Delay, Or

\* The slot a pending call is about exists.
LEMMA TargetType ==
    ASSUME TypeOK, NEW t \in Threads, pc[t].op # "idle"
    PROVE  Target(t) \in Slots
<1>1. ids \in Seq(Slots) /\ pc[t].id \in 1..Len(ids)
  BY DEF TypeOK
<1> QED  BY <1>1 DEF Target

LEMMA InitTypes == Init => TypeOK
<1> SUFFICES ASSUME Init PROVE TypeOK  OBVIOUS
<1>1. (CHOOSE c \in Configs : TRUE) \in Configs
  BY ConfigsAssumption
<1>2. ids \in Seq(Slots) /\ Len(ids) = 0
  BY DEF Init
<1>3. aborted \in BOOLEAN /\ pc = [t \in Threads |-> Idle]
  BY DEF Init
<1>4. \A t \in Threads : pc[t].op = "idle"
  BY <1>3 DEF Idle
<1>5. pc \in [Threads -> [op : {"idle", "register", "unregister", "remove"}, id : 0..MaxAdds]]
  BY <1>3, MaxAddsAssumption DEF Idle
<1> QED  BY <1>1, <1>2, <1>3, <1>4, <1>5, MaxAddsAssumption DEF Init, TypeOK

LEMMA NextTypes == TypeOK /\ [Next]_vars => TypeOK'
<1> SUFFICES ASSUME TypeOK, [Next]_vars PROVE TypeOK'  OBVIOUS
<1> USE DEF TypeOK
<1>1. ASSUME NEW t \in Threads, NEW s \in Slots, NEW c \in Configs, AddAccount(t, s, c)
      PROVE  TypeOK'
  <2>1. ids' \in Seq(Slots) /\ Len(ids') = Len(ids) + 1
    BY <1>1 DEF AddAccount
  <2>2. Len(ids') <= MaxAdds /\ Len(ids) \in Nat
    BY <1>1, <2>1, MaxAddsAssumption DEF AddAccount
  <2>3. owner' \in [Slots -> 0..MaxAdds]
    BY <1>1, <2>1, <2>2, MaxAddsAssumption DEF AddAccount
  <2>4. \A u \in Threads : pc'[u].op # "idle" => pc'[u].id \in 1..Len(ids')
    BY <1>1, <2>1, <2>2 DEF AddAccount
  <2> QED  BY <1>1, <2>1, <2>2, <2>3, <2>4 DEF AddAccount
<1>2. ASSUME NEW t \in Threads, NEW i \in 1..Len(ids), NEW c \in Configs, ModifyAccount(t, i, c)
      PROVE  TypeOK'
  BY <1>2 DEF ModifyAccount
<1>3. ASSUME NEW t \in Threads, NEW i \in 1..Len(ids), NEW op \in {"register", "unregister", "remove"},
             CheckValid(t, i, op)
      PROVE  TypeOK'
  <2>1. i \in 0..MaxAdds
    BY <1>3, MaxAddsAssumption
  <2>2. pc' = [pc EXCEPT ![t] = [op |-> op, id |-> i]]
    BY <1>3 DEF CheckValid
  <2>3. pc' \in [Threads -> [op : {"idle", "register", "unregister", "remove"}, id : 0..MaxAdds]]
    BY <2>1, <2>2
  <2>4. \A u \in Threads : pc'[u].op # "idle" => pc'[u].id \in 1..Len(ids)
    BY <2>2
  <2> QED  BY <1>3, <2>3, <2>4 DEF CheckValid, slotvars
<1>4. ASSUME NEW t \in Threads, SetRegistration(t) PROVE TypeOK'
  <2>1. pc' \in [Threads -> [op : {"idle", "register", "unregister", "remove"}, id : 0..MaxAdds]]
    BY <1>4, MaxAddsAssumption DEF SetRegistration, Idle
  <2>2. \A u \in Threads : pc'[u].op # "idle" => pc'[u].id \in 1..Len(ids)
    BY <1>4 DEF SetRegistration, Idle
  <2> QED  BY <1>4, <2>1, <2>2 DEF SetRegistration
<1>5. ASSUME NEW t \in Threads, RemoveAccount(t) PROVE TypeOK'
  <2>1. pc' \in [Threads -> [op : {"idle", "register", "unregister", "remove"}, id : 0..MaxAdds]]
    BY <1>5, MaxAddsAssumption DEF RemoveAccount, Idle
  <2>2. \A u \in Threads : pc'[u].op # "idle" => pc'[u].id \in 1..Len(ids)
    BY <1>5 DEF RemoveAccount, Idle
  <2>3. owner' \in [Slots -> 0..MaxAdds]
    <3>1. owner' = [owner EXCEPT ![Target(t)] = 0] /\ 0 \in 0..MaxAdds
      BY <1>5, MaxAddsAssumption DEF RemoveAccount
    <3> QED  BY <3>1
  <2> QED  BY <1>5, <2>1, <2>2, <2>3 DEF RemoveAccount
<1>6. ASSUME NEW s \in Slots, Registered(s) \/ Failed(s) \/ Resend(s) PROVE TypeOK'
  <2>1. CASE Registered(s)  BY <2>1 DEF Registered
  <2>2. CASE Failed(s)
    <3>1. timer' \in [Slots -> BOOLEAN]
      BY <2>2 DEF Failed
    <3>2. reg' \in [Slots -> {"off", "trying", "on", "refused", "unreachable"}]
      BY <2>2 DEF Failed
    <3>3. UNCHANGED <<ids, owner, conf, wanted, server, pc, aborted>>
      BY <2>2 DEF Failed
    <3> QED  BY <3>1, <3>2, <3>3
  <2>3. CASE Resend(s)  BY <2>3 DEF Resend
  <2> QED  BY <1>6, <2>1, <2>2, <2>3
<1>7. ASSUME ServerChanges PROVE TypeOK'
  BY <1>7 DEF ServerChanges, slotvars
<1>8. ASSUME UNCHANGED vars PROVE TypeOK'
  BY <1>8 DEF vars, slotvars
<1>9. ASSUME NEW t \in Threads, Abort(t) PROVE TypeOK'
  BY <1>9 DEF Abort, slotvars
<1> QED  BY <1>1, <1>2, <1>3, <1>4, <1>5, <1>6, <1>7, <1>8, <1>9 DEF Next, Call

\* Every variable of the accounts keeps its type, for any number of slots,
\* threads and accounts.
THEOREM AccountTypes == Spec => []TypeOK
<1> QED  BY InitTypes, NextTypes, PTL DEF Spec

-----------------------------------------------------------------------------

LEMMA NextNeverStuck == TypeOK /\ NeverStuck /\ [Next]_vars => NeverStuck'
<1> SUFFICES ASSUME TypeOK, NeverStuck, [Next]_vars, NEW s \in Slots, Retries(s)'
             PROVE  timer'[s] \/ reg'[s] \in {"trying", "on"}
  BY DEF NeverStuck
<1> DEFINE Kept == timer'[s] \/ reg'[s] \in {"trying", "on"}
<1> USE DEF TypeOK, NeverStuck, Retries
<1>1. ASSUME NEW t \in Threads, NEW n \in Slots, NEW c \in Configs, AddAccount(t, n, c)
      PROVE  Kept
  BY <1>1 DEF AddAccount
<1>2. ASSUME NEW t \in Threads, NEW i \in 1..Len(ids), NEW c \in Configs, ModifyAccount(t, i, c)
      PROVE  Kept
  BY <1>2 DEF ModifyAccount
<1>3. ASSUME NEW t \in Threads, NEW i \in 1..Len(ids), NEW op \in {"register", "unregister", "remove"},
             CheckValid(t, i, op)
      PROVE  Kept
  BY <1>3 DEF CheckValid, slotvars
<1>4. ASSUME NEW t \in Threads, SetRegistration(t) PROVE Kept
  <2>1. Target(t) \in Slots
    BY <1>4, TargetType DEF SetRegistration
  <2>2. CASE s # Target(t) \/ reg[Target(t)] = "trying"
    BY <1>4, <2>1, <2>2 DEF SetRegistration
  <2>3. CASE s = Target(t) /\ reg[Target(t)] # "trying"
    BY <1>4, <2>1, <2>3 DEF SetRegistration
  <2> QED  BY <2>2, <2>3
<1>5. ASSUME NEW t \in Threads, RemoveAccount(t) PROVE Kept
  <2>1. Target(t) \in Slots
    BY <1>5, TargetType DEF RemoveAccount
  <2> QED  BY <1>5, <2>1 DEF RemoveAccount
<1>6. ASSUME NEW n \in Slots, Failed(n) PROVE Kept
  <2>1. CASE n = s
    <3>1. conf[s] \in Configs /\ conf' = conf
      BY <1>6 DEF Failed
    <3> DEFINE f == IF Reached(s) THEN "refused" ELSE "unreachable"
    <3>2. PICK r \in 0..PopulateAccCfg(conf[s]).reg_retry_random_interval :
             timer' = [timer EXCEPT ![s] = Delay(PopulateAccCfg(conf[s]), f, r) > 0]
      BY <1>6, <2>1, Zenon DEF Failed
    <3>3. Delay(PopulateAccCfg(conf[s]), f, r) > 0
      BY <3>1, QuarterLeavesDelay
    <3> QED  BY <3>2, <3>3
  <2>2. CASE n # s
    BY <1>6, <2>2 DEF Failed
  <2> QED  BY <2>1, <2>2
<1>7. ASSUME NEW n \in Slots, Registered(n) \/ Resend(n) PROVE Kept
  BY <1>7 DEF Registered, Resend
<1>8. ASSUME ServerChanges \/ UNCHANGED vars PROVE Kept
  BY <1>8 DEF ServerChanges, slotvars, vars
<1>9. ASSUME NEW t \in Threads, Abort(t) PROVE Kept
  BY <1>9 DEF Abort, slotvars
<1> QED  BY <1>1, <1>2, <1>3, <1>4, <1>5, <1>6, <1>7, <1>8, <1>9 DEF Next, Call

\* For every interval of every account, whatever fails and whatever PJSUA draws:
\* an account that is to retry is registered, registering or waiting to.
THEOREM NeverStuckHolds == Spec => []NeverStuck
<1>1. Init => NeverStuck
  BY DEF Init, NeverStuck, Retries
<1> QED  BY <1>1, NextNeverStuck, AccountTypes, PTL DEF Spec

================================================================================
