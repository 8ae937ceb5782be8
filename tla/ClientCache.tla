----------------------------- MODULE ClientCache -----------------------------
(***************************************************************************)
(* CloudStack clients and the process-wide cache of them: how a pass of    *)
(* any controller gets the client it acts with (AsFailureDomainUser).      *)
(*                                                                         *)
(* A client is a shared, mutable structure. The keys it signs its calls    *)
(* with are fixed when it is made; its config and its user, with the       *)
(* limits that deployments are checked against, are fields that            *)
(* NewClientInDomainAndAccount overwrites without holding cacheMutex. One  *)
(* action is one critical section of cacheMutex, one round of CloudStack   *)
(* calls that only read, or one assignment to a field.                     *)
(*                                                                         *)
(* Simplifications: all failure domains use one endpoint secret, the keys  *)
(* of an account's first user; the project is part of every cache key and  *)
(* is the same for all; an account stands for its keys; the limits of      *)
(* account, domain and project are one value. A struct is copied in one    *)
(* step: with the fields written one by one, every mixture is reached.     *)
(***************************************************************************)
EXTENDS Integers

CONSTANTS
    Passes,      \* workers whose passes run concurrently
    Accounts,    \* CloudStack accounts
    Owner,       \* the account whose keys the endpoint secret holds
    Named,       \* accounts that the failure domains name; None: no account
    None,        \* an empty field
    TTL,         \* ticks of the clock after which a client expires
    MaxClients,  \* bound on the number of clients in memory
    MaxChanges   \* bound on the number of changes of an account's limits

ASSUME AccountAssumption ==
    None \notin Accounts /\ Owner \in Accounts /\ Named \subseteq Accounts \cup {None}
ASSUME BoundAssumption == TTL \in Nat \ {0} /\ MaxClients \in Nat /\ MaxChanges \in Nat

VARIABLES
    heap,     \* heap[i]: the client at address i
    cache,    \* cache[k]: the address of the client cached under config k
    age,      \* age[k]: ticks since it was cached
    limit,    \* limit[a]: what is available to account a
    pc,       \* pc[p]: the next step of the pass
    want,     \* want[p]: the account its failure domain names
    base,     \* base[p]: the address of CSClient
    found,    \* found[p]: what GetUserWithKeys returned
    user,     \* user[p]: the address of CSUser
    changes   \* changes of limits so far

store == <<heap, cache, age>>
pass  == <<pc, want, base, found, user>>
vars  == <<store, pass, limit, changes>>

Ids    == 1..MaxClients
NoId   == 0
Limits == {"low", "high"}

\* Config: the keys of two accounts, if its fields come from different passes.
Configs == [api: Accounts, secret: Accounts]
Users   == [account: Accounts, limit: Limits]
Clients == [cs: Configs, config: Configs, user: Users]

ASSUME NoneAssumption == None \notin Users \cup Clients

PCs == {"idle", "finduser", "setapi", "setsecret", "setuser", "fromconf", "using", "return"}

\* Every variable has its type, and a pass has what its next step is about.
TypeOK ==
    /\ heap \in [Ids -> Clients \cup {None}]
    /\ cache \in [Configs -> Ids \cup {NoId}] /\ age \in [Configs -> 0..(TTL - 1)]
    /\ \A k \in Configs : cache[k] # NoId => heap[cache[k]] \in Clients
    /\ limit \in [Accounts -> Limits] /\ changes \in 0..MaxChanges
    /\ pc \in [Passes -> PCs] /\ want \in [Passes -> Named \cup {None}]
    /\ base \in [Passes -> Ids \cup {NoId}] /\ user \in [Passes -> Ids \cup {NoId}]
    /\ found \in [Passes -> Users \cup {None}]
    /\ \A p \in Passes :
          /\ pc[p] = "using" => user[p] # NoId /\ heap[user[p]] \in Clients
          /\ pc[p] \in {"finduser", "setapi", "setsecret", "setuser", "fromconf"}
                => want[p] # None /\ base[p] # NoId /\ heap[base[p]] \in Clients
          /\ pc[p] \in {"setapi", "setsecret", "setuser"} => found[p] \in Users

Keys(a) == [api |-> a, secret |-> a]

\* What the user fields say after ResolveAccount.
ResolveAccount(a) == [account |-> a, limit |-> limit[a]]

\* CloudStack verifies the signature made with the secret key against the
\* account the API key belongs to.
Authenticates(conf) == conf.api = conf.secret

\* The addresses in use; the garbage collector takes the rest.
Held(ca, ba, us) == {ca[k] : k \in Configs} \cup {ba[p] : p \in Passes} \cup {us[p] : p \in Passes}
Swept(h, held) == [i \in Ids |-> IF i \in held THEN h[i] ELSE None]
Unused == {i \in Ids : heap[i] = None}
NewAddress == CHOOSE i \in Unused : TRUE

Goto(p, next) == pc' = [pc EXCEPT ![p] = next]

(***************************************************************************)
(* The cache.                                                              *)
(***************************************************************************)
NewClient(conf) == [cs |-> conf, config |-> conf, user |-> ResolveAccount(conf.api)]

\* Variation of CacheKey: the credentials are not part of the key.
KeyOfEndpoint(conf) == Keys(Owner)

\* generateClientCacheKey: the whole config.
CacheKey(conf) == conf

\* Variation of Hit: the expiry time moves with every use.
TouchOnHit(k) == age' = [age EXCEPT ![k] = 0]

\* An item keeps its expiry time (WithDisableTouchOnHit).
Hit(k) == UNCHANGED age

\* NewClientFromConf returns the address of the client of conf, from the cache
\* or newly made and cached; NoId when CloudStack refuses the keys or a call
\* fails.
NewClientFromConf(conf, i) ==
    LET k == CacheKey(conf)
    IN  \/ /\ cache[k] # NoId /\ i = cache[k]
           /\ Hit(k) /\ UNCHANGED <<heap, cache>>
        \/ /\ cache[k] = NoId /\ Authenticates(conf) /\ Unused # {}
           /\ i = NewAddress
           /\ heap' = [heap EXCEPT ![i] = NewClient(conf)]
           /\ cache' = [cache EXCEPT ![k] = i]
           /\ age' = [age EXCEPT ![k] = 0]
        \/ cache[k] = NoId /\ i = NoId /\ UNCHANGED store

\* Time passes, and expired clients leave the cache.
Tick ==
    LET expired == {k \in Configs : cache[k] # NoId /\ age[k] + 1 = TTL}
    IN  /\ \E k \in Configs : cache[k] # NoId
        /\ cache' = [k \in Configs |-> IF k \in expired THEN NoId ELSE cache[k]]
        /\ age' = [k \in Configs |-> IF cache[k] = NoId \/ k \in expired THEN 0 ELSE age[k] + 1]
        /\ heap' = Swept(heap, Held(cache', base, user))
        /\ UNCHANGED <<pass, limit, changes>>

(***************************************************************************)
(* AsFailureDomainUser.                                                    *)
(***************************************************************************)

\* NewClientFromK8sSecret; CSClient is CSUser if no account is named.
NewClientFromK8sSecret(p) ==
    /\ pc[p] = "idle"
    /\ \E a \in Named, i \in Ids \cup {NoId} :
          /\ NewClientFromConf(Keys(Owner), i)
          /\ want' = [want EXCEPT ![p] = a]
          /\ base' = [base EXCEPT ![p] = i]
          /\ user' = [user EXCEPT ![p] = IF a = None THEN i ELSE NoId]
          /\ Goto(p, IF i = NoId THEN "return" ELSE IF a = None THEN "using" ELSE "finduser")
    /\ UNCHANGED <<found, limit, changes>>

\* Variation of GetUserWithKeys: that no user was found goes unnoticed.
GetUserUnchecked(p) ==
    /\ pc[p] = "finduser" /\ Goto(p, "setapi")
    /\ found' = [found EXCEPT ![p] = ResolveAccount(want[p])] \/ UNCHANGED found
    /\ UNCHANGED <<store, want, base, user, limit, changes>>

\* NewClientInDomainAndAccount, first step; a call may fail or no user may
\* have keys.
GetUserWithKeys(p) ==
    /\ pc[p] = "finduser"
    /\ \/ /\ found' = [found EXCEPT ![p] = ResolveAccount(want[p])]
          /\ Goto(p, "setapi")
       \/ Goto(p, "return") /\ UNCHANGED found
    /\ UNCHANGED <<store, want, base, user, limit, changes>>

\* c.config.APIKey, c.config.SecretKey and c.user of CSClient, in this order.
SetAPIKey(p) ==
    /\ pc[p] = "setapi" /\ Goto(p, "setsecret")
    /\ heap' = [heap EXCEPT ![base[p]].config.api = found[p].account]
    /\ UNCHANGED <<cache, age, want, base, found, user, limit, changes>>

SetSecretKey(p) ==
    /\ pc[p] = "setsecret" /\ Goto(p, "setuser")
    /\ heap' = [heap EXCEPT ![base[p]].config.secret = found[p].account]
    /\ UNCHANGED <<cache, age, want, base, found, user, limit, changes>>

\* Variation of SetUser: the client signs with the new keys from now on.
SetUserAndKeys(p) ==
    /\ pc[p] = "setuser" /\ Goto(p, "fromconf")
    /\ heap' = [heap EXCEPT ![base[p]].user = found[p], ![base[p]].cs = Keys(found[p].account)]
    /\ UNCHANGED <<cache, age, want, base, found, user, limit, changes>>

SetUser(p) ==
    /\ pc[p] = "setuser" /\ Goto(p, "fromconf")
    /\ heap' = [heap EXCEPT ![base[p]].user = found[p]]
    /\ UNCHANGED <<cache, age, want, base, found, user, limit, changes>>

\* The client for whatever c.config holds by now.
NewClientInAccount(p) ==
    /\ pc[p] = "fromconf"
    /\ \E i \in Ids \cup {NoId} :
          /\ NewClientFromConf(heap[base[p]].config, i)
          /\ user' = [user EXCEPT ![p] = i]
          /\ Goto(p, IF i = NoId THEN "return" ELSE "using")
    /\ UNCHANGED <<want, base, found, limit, changes>>

\* The pass has done its work as CSUser, or failed.
EndPass(p) ==
    /\ pc[p] \in {"using", "return"} /\ Goto(p, "idle")
    /\ want' = [want EXCEPT ![p] = None]
    /\ base' = [base EXCEPT ![p] = NoId]
    /\ user' = [user EXCEPT ![p] = NoId]
    /\ found' = [found EXCEPT ![p] = None]
    /\ heap' = Swept(heap, Held(cache, base', user'))
    /\ UNCHANGED <<cache, age, limit, changes>>

\* What is available to an account changes in CloudStack.
ChangeLimit(a) ==
    /\ changes < MaxChanges /\ changes' = changes + 1
    /\ \E l \in Limits \ {limit[a]} : limit' = [limit EXCEPT ![a] = l]
    /\ UNCHANGED <<store, pass>>

(***************************************************************************)
(* The specification.                                                      *)
(***************************************************************************)
Init ==
    /\ heap = [i \in Ids |-> None]
    /\ cache = [k \in Configs |-> NoId] /\ age = [k \in Configs |-> 0]
    /\ limit = [a \in Accounts |-> "low"] /\ changes = 0
    /\ pc = [p \in Passes |-> "idle"]
    /\ want = [p \in Passes |-> None] /\ found = [p \in Passes |-> None]
    /\ base = [p \in Passes |-> NoId] /\ user = [p \in Passes |-> NoId]

Pass(p) ==
    \/ NewClientFromK8sSecret(p) \/ GetUserWithKeys(p)
    \/ SetAPIKey(p) \/ SetSecretKey(p) \/ SetUser(p)
    \/ NewClientInAccount(p) \/ EndPass(p)

Next ==
    \/ \E p \in Passes : Pass(p)
    \/ \E a \in Accounts : ChangeLimit(a)
    \/ Tick

\* Passes go on and time passes.
Fairness == (\A p \in Passes : WF_vars(Pass(p))) /\ WF_vars(Tick)

Spec == Init /\ [][Next]_vars
FairSpec == Spec /\ Fairness

(***************************************************************************)
(* Properties.                                                             *)
(***************************************************************************)
ActsIn(p) == heap[user[p]].cs.api

\* A client found in the cache signs with the keys it was cached under,
\* although its config and user have been overwritten since.
CacheKeyed == \A k \in Configs : cache[k] # NoId => heap[cache[k]].cs = k

\* A pass acts in the account its failure domain names, the owner of the
\* secret if it names none.
RightAccount ==
    \A p \in Passes :
        pc[p] = "using" => ActsIn(p) = IF want[p] = None THEN Owner ELSE want[p]

\* Once limits stop changing, passes end up checking deployments against the
\* limits that are in force: a client does not outlive its time in the cache
\* by being used.
LimitsRefreshed ==
    <>[](\A p \in Passes :
            pc[p] = "using" => heap[user[p]].user.limit = limit[heap[user[p]].user.account])

(***************************************************************************)
(* What comments say and the code does not do.                             *)
(***************************************************************************)
\* "CheckLimits will check the account & domain limits": the limits are those
\* of the account that the pass acts in.
LimitsOfAccount == \A p \in Passes : pc[p] = "using" => heap[user[p]].user.account = ActsIn(p)
=============================================================================
