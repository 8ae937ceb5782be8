-------------------------- MODULE ClientCacheProofs --------------------------
(***************************************************************************)
(* Proofs about the client cache, for any number of passes, accounts and   *)
(* clients: types, that cached clients keep the keys they are cached       *)
(* under, and that passes act in the account of their failure domain when  *)
(* the failure domains of one secret name at most one account.             *)
(***************************************************************************)
EXTENDS ClientCache, TLAPS

(***************************************************************************)
(* How clients in memory change.                                           *)
(***************************************************************************)

\* A new client gets an address that nobody uses.
LEMMA NewAddressUnused == Unused # {} => NewAddress \in Ids /\ heap[NewAddress] = None
  BY DEF Unused, NewAddress

\* A client signs with the keys it was made with; its user is the owner of
\* the API key.
LEMMA NewClientType ==
    ASSUME TypeOK, NEW conf \in Configs
    PROVE  NewClient(conf) \in Clients /\ NewClient(conf).cs = conf
  BY DEF TypeOK, NewClient, Clients, Users, Configs, ResolveAccount

\* The keys of an account are a config.
LEMMA KeysType == \A a \in Accounts : Keys(a) \in Configs
  BY DEF Keys, Configs

\* Overwriting the config or the user of a client leaves a client with the
\* same signing keys.
LEMMA FieldWrites ==
    ASSUME NEW c \in Clients, NEW a \in Accounts, NEW u \in Users
    PROVE  /\ [c EXCEPT !.config.api = a] \in Clients
           /\ [c EXCEPT !.config.api = a].cs = c.cs
           /\ [c EXCEPT !.config.api = a].config.api = a
           /\ [c EXCEPT !.config.api = a].config.secret = c.config.secret
           /\ [c EXCEPT !.config.secret = a] \in Clients
           /\ [c EXCEPT !.config.secret = a].cs = c.cs
           /\ [c EXCEPT !.config.secret = a].config.api = c.config.api
           /\ [c EXCEPT !.config.secret = a].config.secret = a
           /\ [c EXCEPT !.user = u] \in Clients
           /\ [c EXCEPT !.user = u].cs = c.cs
           /\ [c EXCEPT !.user = u].config = c.config
  BY DEF Clients, Configs, Users

(***************************************************************************)
(* Types, and cached clients keep their keys.                              *)
(***************************************************************************)
Keyed == TypeOK /\ CacheKeyed

LEMMA KeyedInit == Init => Keyed
  BY AccountAssumption, BoundAssumption DEF Init, Keyed, TypeOK, CacheKeyed, Ids, NoId, Limits, PCs

\* NewClientFromConf leaves every client that was there alone and returns, if
\* it succeeds, one with the keys that were asked for.
LEMMA TakesKeyed ==
    ASSUME Keyed, NEW conf \in Configs, NEW i \in Ids \cup {NoId}, NewClientFromConf(conf, i)
    PROVE  /\ i # NoId => i \in Ids /\ heap'[i] \in Clients /\ heap'[i].cs = conf
           /\ heap' \in [Ids -> Clients \cup {None}]
           /\ \A j \in Ids : heap[j] \in Clients => heap'[j] = heap[j]
           /\ cache' \in [Configs -> Ids \cup {NoId}] /\ age' \in [Configs -> 0..(TTL - 1)]
           /\ \A k \in Configs : cache'[k] # NoId => heap'[cache'[k]] \in Clients
           /\ CacheKeyed'
  <1> USE DEF Keyed, TypeOK, CacheKeyed
  <1>1. CASE (i = NoId \/ i = cache[conf]) /\ UNCHANGED <<heap, cache, age>>
    BY <1>1
  <1>2. CASE /\ Unused # {} /\ i = NewAddress
             /\ heap' = [heap EXCEPT ![i] = NewClient(conf)]
             /\ cache' = [cache EXCEPT ![conf] = i]
             /\ age' = [age EXCEPT ![conf] = 0]
    <2>1. i \in Ids /\ heap[i] = None /\ heap[i] \notin Clients
      BY <1>2, NewAddressUnused, NoneAssumption
    <2>2. NewClient(conf) \in Clients /\ NewClient(conf).cs = conf
      BY NewClientType
    <2>3. \A j \in Ids : heap[j] \in Clients => heap'[j] = heap[j]
      BY <1>2, <2>1
    <2>4. age' \in [Configs -> 0..(TTL - 1)]
      BY <1>2, BoundAssumption
    <2> QED
      BY <1>2, <2>1, <2>2, <2>3, <2>4
  <1> QED
    BY <1>1, <1>2 DEF NewClientFromConf, CacheKey, Hit, store

LEMMA FromSecret ==
    ASSUME Keyed, NEW p \in Passes, NewClientFromK8sSecret(p)
    PROVE  Keyed'
  <1>1. Keys(Owner) \in Configs
    BY KeysType, AccountAssumption
  <1>2. PICK a \in Named, i \in Ids \cup {NoId} :
          /\ NewClientFromConf(Keys(Owner), i)
          /\ want' = [want EXCEPT ![p] = a]
          /\ base' = [base EXCEPT ![p] = i]
          /\ user' = [user EXCEPT ![p] = IF a = None THEN i ELSE NoId]
          /\ pc' = [pc EXCEPT ![p] = IF i = NoId THEN "return"
                                     ELSE IF a = None THEN "using" ELSE "finduser"]
    BY DEF NewClientFromK8sSecret, Goto
  <1>3. UNCHANGED <<found, limit, changes>>
    BY DEF NewClientFromK8sSecret
  <1>4. /\ i # NoId => i \in Ids /\ heap'[i] \in Clients
        /\ heap' \in [Ids -> Clients \cup {None}]
        /\ \A j \in Ids : heap[j] \in Clients => heap'[j] = heap[j]
        /\ cache' \in [Configs -> Ids \cup {NoId}] /\ age' \in [Configs -> 0..(TTL - 1)]
        /\ \A c \in Configs : cache'[c] # NoId => heap'[cache'[c]] \in Clients
        /\ CacheKeyed'
    BY <1>1, <1>2, TakesKeyed
  <1> QED
    BY <1>2, <1>3, <1>4, AccountAssumption DEF Keyed, TypeOK, PCs

LEMMA InAccount ==
    ASSUME Keyed, NEW p \in Passes, NewClientInAccount(p)
    PROVE  Keyed'
  <1> DEFINE k == heap[base[p]].config
  <1> USE DEF Keyed, TypeOK
  <1>1. k \in Configs
    BY DEF NewClientInAccount, Clients
  <1>2. PICK i \in Ids \cup {NoId} :
          /\ NewClientFromConf(k, i)
          /\ user' = [user EXCEPT ![p] = i]
          /\ pc' = [pc EXCEPT ![p] = IF i = NoId THEN "return" ELSE "using"]
    BY DEF NewClientInAccount, Goto
  <1>3. UNCHANGED <<want, base, found, limit, changes>>
    BY DEF NewClientInAccount
  <1>4. /\ i # NoId => i \in Ids /\ heap'[i] \in Clients
        /\ heap' \in [Ids -> Clients \cup {None}]
        /\ \A j \in Ids : heap[j] \in Clients => heap'[j] = heap[j]
        /\ cache' \in [Configs -> Ids \cup {NoId}] /\ age' \in [Configs -> 0..(TTL - 1)]
        /\ \A c \in Configs : cache'[c] # NoId => heap'[cache'[c]] \in Clients
        /\ CacheKeyed'
    BY <1>1, <1>2, TakesKeyed
  <1> QED
    BY <1>2, <1>3, <1>4 DEF PCs

LEMMA FindUser ==
    ASSUME Keyed, NEW p \in Passes, GetUserWithKeys(p)
    PROVE  Keyed'
  <1>1. want[p] \in Accounts => ResolveAccount(want[p]) \in Users
    BY DEF Keyed, TypeOK, ResolveAccount, Users
  <1>2. want[p] \in Accounts
    BY AccountAssumption DEF Keyed, TypeOK, GetUserWithKeys
  <1> QED
    BY <1>1, <1>2 DEF Keyed, TypeOK, CacheKeyed, PCs, GetUserWithKeys, Goto, store

\* One field of the client at base[p] is overwritten.
LEMMA WriteField ==
    ASSUME Keyed, NEW p \in Passes, SetAPIKey(p) \/ SetSecretKey(p) \/ SetUser(p)
    PROVE  /\ Keyed'
           /\ \A i \in Ids : heap[i] \in Clients => heap'[i].cs = heap[i].cs
  <1> USE DEF Keyed, TypeOK
  <1> DEFINE b == base[p]
             c == heap[b]
  <1>1. b \in Ids /\ c \in Clients /\ found[p] \in Users /\ found[p].account \in Accounts
    BY DEF SetAPIKey, SetSecretKey, SetUser, Users
  <1>2. PICK d \in Clients : d.cs = c.cs /\ heap' = [heap EXCEPT ![b] = d]
    <2>1. CASE SetAPIKey(p)
      BY <1>1, <2>1, FieldWrites DEF SetAPIKey
    <2>2. CASE SetSecretKey(p)
      BY <1>1, <2>2, FieldWrites DEF SetSecretKey
    <2>3. CASE SetUser(p)
      BY <1>1, <2>3, FieldWrites DEF SetUser
    <2> QED
      BY <2>1, <2>2, <2>3
  <1>3. UNCHANGED <<cache, age, want, base, found, user, limit, changes>>
    BY DEF SetAPIKey, SetSecretKey, SetUser
  <1>4. /\ heap' \in [Ids -> Clients \cup {None}]
        /\ \A i \in Ids : heap[i] \in Clients => heap'[i] \in Clients /\ heap'[i].cs = heap[i].cs
    BY <1>1, <1>2
  <1>5. CacheKeyed'
    BY <1>3, <1>4 DEF CacheKeyed
  <1>6. \/ pc[p] = "setapi" /\ pc' = [pc EXCEPT ![p] = "setsecret"]
        \/ pc[p] = "setsecret" /\ pc' = [pc EXCEPT ![p] = "setuser"]
        \/ pc[p] = "setuser" /\ pc' = [pc EXCEPT ![p] = "fromconf"]
    BY DEF SetAPIKey, SetSecretKey, SetUser, Goto
  <1> QED
    BY <1>3, <1>4, <1>5, <1>6 DEF PCs

\* Sweeping takes no client away that is held.
LEMMA SweptKeyed ==
    ASSUME Keyed, NEW held, heap' = Swept(heap, held)
    PROVE  /\ heap' \in [Ids -> Clients \cup {None}]
           /\ \A i \in Ids : i \in held => heap'[i] = heap[i]
  BY DEF Keyed, TypeOK, Swept

LEMMA EndKeyed ==
    ASSUME Keyed, NEW p \in Passes, EndPass(p)
    PROVE  Keyed'
  <1> USE DEF Keyed, TypeOK
  <1>1. /\ heap' \in [Ids -> Clients \cup {None}]
        /\ \A i \in Ids : i \in Held(cache, base', user') => heap'[i] = heap[i]
    BY SweptKeyed DEF EndPass
  <1>2. \A k \in Configs : cache[k] # NoId => heap'[cache[k]] = heap[cache[k]]
    BY <1>1 DEF Held
  <1>3. \A q \in Passes \ {p} :
          /\ pc'[q] = pc[q] /\ want'[q] = want[q] /\ found'[q] = found[q]
          /\ base'[q] = base[q] /\ user'[q] = user[q]
    BY DEF EndPass, Goto
  <1>4. /\ \A q \in Passes \ {p} : base[q] # NoId => heap'[base[q]] = heap[base[q]]
        /\ \A q \in Passes \ {p} : user[q] # NoId => heap'[user[q]] = heap[user[q]]
    BY <1>1, <1>3 DEF Held
  <1>5. CacheKeyed'
    BY <1>2 DEF CacheKeyed, EndPass
  <1>6. /\ pc' = [pc EXCEPT ![p] = "idle"] /\ want' = [want EXCEPT ![p] = None]
        /\ base' = [base EXCEPT ![p] = NoId] /\ user' = [user EXCEPT ![p] = NoId]
        /\ found' = [found EXCEPT ![p] = None] /\ UNCHANGED <<cache, age, limit, changes>>
    BY DEF EndPass, Goto
  <1>7. \A q \in Passes :
          /\ pc'[q] = "using" => user'[q] # NoId /\ heap'[user'[q]] \in Clients
          /\ pc'[q] \in {"finduser", "setapi", "setsecret", "setuser", "fromconf"}
                => want'[q] # None /\ base'[q] # NoId /\ heap'[base'[q]] \in Clients
          /\ pc'[q] \in {"setapi", "setsecret", "setuser"} => found'[q] \in Users
    <2>1. pc'[p] = "idle"
      BY <1>6
    <2> QED
      BY <2>1, <1>3, <1>4
  <1>8. /\ pc' \in [Passes -> PCs] /\ want' \in [Passes -> Named \cup {None}]
        /\ base' \in [Passes -> Ids \cup {NoId}] /\ user' \in [Passes -> Ids \cup {NoId}]
        /\ found' \in [Passes -> Users \cup {None}]
    BY <1>6 DEF PCs
  <1> QED
    BY <1>1, <1>2, <1>5, <1>6, <1>7, <1>8

LEMMA TickKeyed ==
    ASSUME Keyed, Tick
    PROVE  Keyed'
  <1> USE DEF Keyed, TypeOK
  <1>1. /\ heap' \in [Ids -> Clients \cup {None}]
        /\ \A i \in Ids : i \in Held(cache', base, user) => heap'[i] = heap[i]
    BY SweptKeyed DEF Tick
  <1>2. /\ cache' \in [Configs -> Ids \cup {NoId}]
        /\ \A k \in Configs : cache'[k] # NoId => cache'[k] = cache[k]
    BY DEF Tick
  <1>3. age' \in [Configs -> 0..(TTL - 1)]
    <2>1. \A n \in 0..(TTL - 1) : n + 1 # TTL => n + 1 \in 0..(TTL - 1)
      BY BoundAssumption
    <2>2. 0 \in 0..(TTL - 1)
      BY BoundAssumption
    <2> QED
      BY <2>1, <2>2 DEF Tick
  <1>4. /\ \A k \in Configs : cache'[k] # NoId => heap'[cache'[k]] = heap[cache[k]]
        /\ \A q \in Passes : base[q] # NoId => heap'[base[q]] = heap[base[q]]
        /\ \A q \in Passes : user[q] # NoId => heap'[user[q]] = heap[user[q]]
    BY <1>1, <1>2 DEF Held
  <1>5. CacheKeyed'
    BY <1>2, <1>4 DEF CacheKeyed
  <1> QED
    BY <1>1, <1>2, <1>3, <1>4, <1>5 DEF Tick, pass

LEMMA KeyedNext == Keyed /\ [Next]_vars => Keyed'
  <1> SUFFICES ASSUME Keyed, [Next]_vars
               PROVE  Keyed'
    OBVIOUS
  <1>1. ASSUME NEW p \in Passes, Pass(p) PROVE Keyed'
    BY <1>1, FromSecret, InAccount, FindUser, WriteField, EndKeyed DEF Pass
  <1>2. ASSUME NEW a \in Accounts, ChangeLimit(a) PROVE Keyed'
    BY <1>2, BoundAssumption DEF ChangeLimit, Keyed, TypeOK, CacheKeyed, store, pass, Limits
  <1>3. CASE Tick
    BY <1>3, TickKeyed
  <1>4. CASE UNCHANGED vars
    BY <1>4 DEF Keyed, TypeOK, CacheKeyed, vars, store, pass
  <1> QED
    BY <1>1, <1>2, <1>3, <1>4 DEF Next

\* Variables keep their types, and a pass that acts, or is on its way to,
\* holds a client: neither expiry nor a concurrent pass takes it away.
THEOREM TypeCorrect == Spec => []TypeOK
  <1>1. Keyed => TypeOK
    BY DEF Keyed
  <1> QED
    BY <1>1, KeyedInit, KeyedNext, PTL DEF Spec

\* generateClientCacheKey and NewClientInDomainAndAccount: a cached client
\* signs with the keys it is cached under, whatever passes write into it.
THEOREM CachedClientsKeepKeys == Spec => []CacheKeyed
  <1>1. Keyed => CacheKeyed
    BY DEF Keyed
  <1> QED
    BY <1>1, KeyedInit, KeyedNext, PTL DEF Spec

(***************************************************************************)
(* Passes act in the right account if there is one to name.                *)
(*                                                                         *)
(* The config of a shared client is written field by field by whichever    *)
(* pass comes, so what a pass reads back is what it wrote only because all *)
(* of them write the same: RightInv says how far each pass has got.        *)
(***************************************************************************)
OneAccount == \A a, b \in Named \ {None} : a = b

ActingFor(a) == Keys(IF a = None THEN Owner ELSE a)

OnItsWay(p) ==
    /\ pc[p] \in {"setapi", "setsecret", "setuser"} => found[p].account = want[p]
    /\ pc[p] \in {"setsecret", "setuser", "fromconf"} => heap[base[p]].config.api = want[p]
    /\ pc[p] \in {"setuser", "fromconf"} => heap[base[p]].config.secret = want[p]
    /\ pc[p] = "using" => heap[user[p]].cs = ActingFor(want[p])

RightInv == Keyed /\ \A p \in Passes : OnItsWay(p)

\* A pass that takes no step is not disturbed by one that leaves its clients
\* as they are.
LEMMA Undisturbed ==
    ASSUME RightInv, NEW q \in Passes,
           pc'[q] = pc[q], want'[q] = want[q], found'[q] = found[q],
           base'[q] = base[q], user'[q] = user[q],
           base[q] # NoId /\ heap[base[q]] \in Clients => heap'[base[q]] = heap[base[q]],
           user[q] # NoId /\ heap[user[q]] \in Clients => heap'[user[q]] = heap[user[q]]
    PROVE  OnItsWay(q)'
  BY DEF RightInv, Keyed, TypeOK, OnItsWay, ActingFor, Keys

LEMMA RightFromSecret ==
    ASSUME RightInv, NEW p \in Passes, NewClientFromK8sSecret(p)
    PROVE  \A q \in Passes : OnItsWay(q)'
  <1>1. Keys(Owner) \in Configs
    BY KeysType, AccountAssumption
  <1>2. PICK a \in Named, i \in Ids \cup {NoId} :
          /\ NewClientFromConf(Keys(Owner), i)
          /\ want' = [want EXCEPT ![p] = a]
          /\ base' = [base EXCEPT ![p] = i]
          /\ user' = [user EXCEPT ![p] = IF a = None THEN i ELSE NoId]
          /\ pc' = [pc EXCEPT ![p] = IF i = NoId THEN "return"
                                     ELSE IF a = None THEN "using" ELSE "finduser"]
    BY DEF NewClientFromK8sSecret, Goto
  <1> USE DEF RightInv, Keyed, TypeOK
  <1>3. /\ i # NoId => heap'[i].cs = Keys(Owner)
        /\ \A j \in Ids : heap[j] \in Clients => heap'[j] = heap[j]
    BY <1>1, <1>2, TakesKeyed
  <1>4. OnItsWay(p)'
    BY <1>2, <1>3 DEF OnItsWay, ActingFor
  <1>5. \A q \in Passes \ {p} :
          /\ pc'[q] = pc[q] /\ want'[q] = want[q] /\ found'[q] = found[q]
          /\ base'[q] = base[q] /\ user'[q] = user[q]
    BY <1>2 DEF NewClientFromK8sSecret
  <1>6. \A q \in Passes : /\ base[q] # NoId => base[q] \in Ids
                          /\ user[q] # NoId => user[q] \in Ids
    OBVIOUS
  <1> QED
    BY <1>3, <1>4, <1>5, <1>6, Undisturbed

LEMMA RightInAccount ==
    ASSUME RightInv, NEW p \in Passes, NewClientInAccount(p)
    PROVE  \A q \in Passes : OnItsWay(q)'
  <1> DEFINE k == heap[base[p]].config
  <1> USE DEF RightInv, Keyed, TypeOK
  <1>1. k \in Configs
    BY DEF NewClientInAccount, Clients
  <1>2. PICK i \in Ids \cup {NoId} :
          /\ NewClientFromConf(k, i)
          /\ user' = [user EXCEPT ![p] = i]
          /\ pc' = [pc EXCEPT ![p] = IF i = NoId THEN "return" ELSE "using"]
    BY DEF NewClientInAccount, Goto
  <1>3. UNCHANGED <<want, base, found>> /\ pc[p] = "fromconf"
    BY DEF NewClientInAccount
  <1>4. /\ i # NoId => heap'[i].cs = k
        /\ \A j \in Ids : heap[j] \in Clients => heap'[j] = heap[j]
    BY <1>1, <1>2, TakesKeyed
  <1>5. k = Keys(want[p]) /\ want[p] # None
    BY <1>1, <1>3 DEF OnItsWay, Keys, Configs
  <1>6. OnItsWay(p)'
    BY <1>2, <1>3, <1>4, <1>5 DEF OnItsWay, ActingFor
  <1>7. \A q \in Passes \ {p} :
          /\ pc'[q] = pc[q] /\ want'[q] = want[q] /\ found'[q] = found[q]
          /\ base'[q] = base[q] /\ user'[q] = user[q]
    BY <1>2, <1>3
  <1>8. \A q \in Passes : /\ base[q] # NoId => base[q] \in Ids
                          /\ user[q] # NoId => user[q] \in Ids
    OBVIOUS
  <1> QED
    BY <1>4, <1>6, <1>7, <1>8, Undisturbed

LEMMA RightFindUser ==
    ASSUME RightInv, NEW p \in Passes, GetUserWithKeys(p)
    PROVE  \A q \in Passes : OnItsWay(q)'
  BY DEF RightInv, Keyed, TypeOK, OnItsWay, ActingFor, Keys, GetUserWithKeys, ResolveAccount, Goto, store

\* What one pass writes is what every other pass wants to read back.
LEMMA RightWrite ==
    ASSUME OneAccount, RightInv, NEW p \in Passes,
           SetAPIKey(p) \/ SetSecretKey(p) \/ SetUser(p)
    PROVE  \A q \in Passes : OnItsWay(q)'
  <1> USE DEF RightInv, Keyed, TypeOK
  <1> DEFINE b == base[p]
             c == heap[b]
             a == want[p]
  <1>1. /\ b \in Ids /\ c \in Clients /\ found[p] \in Users /\ found[p].account \in Accounts
        /\ found[p].account = a /\ a # None
    BY DEF SetAPIKey, SetSecretKey, SetUser, Users, OnItsWay
  <1>2. \A q \in Passes : want[q] # None => want[q] = a
    BY <1>1 DEF OneAccount
  <1>3. PICK d \in Clients :
          /\ heap' = [heap EXCEPT ![b] = d] /\ d.cs = c.cs
          /\ d.config.api = c.config.api \/ d.config.api = a
          /\ d.config.secret = c.config.secret \/ d.config.secret = a
          /\ pc[p] = "setapi" => d.config.api = a
          /\ pc[p] = "setsecret" => d.config.secret = a
    <2>1. CASE SetAPIKey(p)
      <3> DEFINE d == [c EXCEPT !.config.api = found[p].account]
      <3>1. heap' = [heap EXCEPT ![b] = d] /\ pc[p] = "setapi"
        BY <2>1 DEF SetAPIKey
      <3>2. d \in Clients /\ d.cs = c.cs /\ d.config.api = a /\ d.config.secret = c.config.secret
        BY <1>1, FieldWrites
      <3> HIDE DEF d
      <3> QED
        BY <3>1, <3>2
    <2>2. CASE SetSecretKey(p)
      <3> DEFINE d == [c EXCEPT !.config.secret = found[p].account]
      <3>1. heap' = [heap EXCEPT ![b] = d] /\ pc[p] = "setsecret"
        BY <2>2 DEF SetSecretKey
      <3>2. d \in Clients /\ d.cs = c.cs /\ d.config.secret = a /\ d.config.api = c.config.api
        BY <1>1, FieldWrites
      <3> HIDE DEF d
      <3> QED
        BY <3>1, <3>2
    <2>3. CASE SetUser(p)
      <3> DEFINE d == [c EXCEPT !.user = found[p]]
      <3>1. heap' = [heap EXCEPT ![b] = d] /\ pc[p] = "setuser"
        BY <2>3 DEF SetUser
      <3>2. d \in Clients /\ d.cs = c.cs /\ d.config = c.config
        BY <1>1, FieldWrites
      <3> HIDE DEF d
      <3> QED
        BY <3>1, <3>2
    <2> QED
      BY <2>1, <2>2, <2>3
  <1>4. UNCHANGED <<want, base, found, user>>
    BY DEF SetAPIKey, SetSecretKey, SetUser
  <1>5. \/ pc[p] = "setapi" /\ pc' = [pc EXCEPT ![p] = "setsecret"]
        \/ pc[p] = "setsecret" /\ pc' = [pc EXCEPT ![p] = "setuser"]
        \/ pc[p] = "setuser" /\ pc' = [pc EXCEPT ![p] = "fromconf"]
    BY DEF SetAPIKey, SetSecretKey, SetUser, Goto
  <1>6. OnItsWay(p)'
    BY <1>1, <1>3, <1>4, <1>5 DEF OnItsWay
  <1>7. ASSUME NEW q \in Passes \ {p} PROVE OnItsWay(q)'
    <2>1. pc'[q] = pc[q]
      BY <1>5
    <2>2. pc[q] = "using" => heap'[user[q]].cs = heap[user[q]].cs
      BY <1>1, <1>3
    <2>3. pc[q] \in {"setsecret", "setuser", "fromconf"} => heap'[base[q]].config.api = want[q]
      BY <1>1, <1>2, <1>3 DEF OnItsWay
    <2>4. pc[q] \in {"setuser", "fromconf"} => heap'[base[q]].config.secret = want[q]
      BY <1>1, <1>2, <1>3 DEF OnItsWay
    <2> QED
      BY <1>4, <2>1, <2>2, <2>3, <2>4 DEF OnItsWay, ActingFor, Keys
  <1> QED
    BY <1>6, <1>7

LEMMA RightEnd ==
    ASSUME RightInv, NEW p \in Passes, EndPass(p)
    PROVE  \A q \in Passes : OnItsWay(q)'
  <1> USE DEF RightInv, Keyed, TypeOK
  <1>1. \A i \in Ids : i \in Held(cache, base', user') => heap'[i] = heap[i]
    BY SweptKeyed DEF EndPass
  <1>2. \A q \in Passes \ {p} :
          /\ pc'[q] = pc[q] /\ want'[q] = want[q] /\ found'[q] = found[q]
          /\ base'[q] = base[q] /\ user'[q] = user[q]
    BY DEF EndPass, Goto
  <1>3. /\ \A q \in Passes \ {p} : base[q] # NoId => heap'[base[q]] = heap[base[q]]
        /\ \A q \in Passes \ {p} : user[q] # NoId => heap'[user[q]] = heap[user[q]]
    BY <1>1, <1>2 DEF Held
  <1>4. OnItsWay(p)'
    BY DEF EndPass, Goto, OnItsWay
  <1> QED
    BY <1>2, <1>3, <1>4, Undisturbed

LEMMA RightTick ==
    ASSUME RightInv, Tick
    PROVE  \A q \in Passes : OnItsWay(q)'
  <1> USE DEF RightInv, Keyed, TypeOK
  <1>1. \A i \in Ids : i \in Held(cache', base, user) => heap'[i] = heap[i]
    BY SweptKeyed DEF Tick
  <1>2. /\ \A q \in Passes : base[q] # NoId => heap'[base[q]] = heap[base[q]]
        /\ \A q \in Passes : user[q] # NoId => heap'[user[q]] = heap[user[q]]
    BY <1>1 DEF Held
  <1> QED
    BY <1>2, Undisturbed DEF Tick, pass

\* NewClientInDomainAndAccount: a pass acts in the account its failure domain
\* names, or as the owner of the secret, if the failure domains that share a
\* secret name no two different accounts.
THEOREM RightAccountIfOne ==
    ASSUME OneAccount
    PROVE  Spec => []RightAccount
  <1>1. Init => RightInv
    BY KeyedInit DEF RightInv, OnItsWay, Init
  <1>2. RightInv /\ [Next]_vars => RightInv'
    <2> SUFFICES ASSUME RightInv, [Next]_vars
                 PROVE  RightInv'
      OBVIOUS
    <2>1. Keyed'
      BY KeyedNext DEF RightInv
    <2>2. ASSUME NEW p \in Passes, Pass(p) PROVE \A q \in Passes : OnItsWay(q)'
      BY <2>2, OneAccount, RightFromSecret, RightInAccount, RightFindUser, RightWrite, RightEnd
         DEF Pass
    <2>3. ASSUME NEW a \in Accounts, ChangeLimit(a) PROVE \A q \in Passes : OnItsWay(q)'
      BY <2>3 DEF RightInv, OnItsWay, ActingFor, ChangeLimit, store, pass, Keys
    <2>4. CASE Tick
      BY <2>1, <2>4, RightTick DEF RightInv
    <2>5. CASE UNCHANGED vars
      BY <2>1, <2>5 DEF RightInv, OnItsWay, ActingFor, vars, store, pass, Keys
    <2> QED
      BY <2>1, <2>2, <2>3, <2>4, <2>5 DEF Next, RightInv
  <1>3. RightInv => RightAccount
    <2>1. \A a : ActingFor(a).api = IF a = None THEN Owner ELSE a
      BY DEF ActingFor, Keys
    <2> QED
      BY <2>1 DEF RightInv, OnItsWay, RightAccount, ActsIn
  <1> QED
    BY <1>1, <1>2, <1>3, PTL DEF Spec
=============================================================================
