----------------------- MODULE ClusterLifecycleProofs -----------------------
(***************************************************************************)
(* Proofs about ClusterLifecycle, for any failure domains and networks, in *)
(* whichever way they name each other, with or without CKS and early       *)
(* deletion, and for any number of disturbances and edits.                 *)
(***************************************************************************)
EXTENDS ClusterLifecycle, TLAPS

(***************************************************************************)
(* Types.                                                                  *)
(***************************************************************************)

\* An object as the API server stores it: it carries finalizers of its own kind
\* only, one being deleted has some left, and one that is gone has none.
Stored(k, o) ==
    /\ o \in Object /\ o.fin \subseteq Finalizers(k)
    /\ o.deleting => o.exists /\ o.fin # {}
    /\ ~o.exists => o.fin = {}

TypeInv ==
    /\ TypeOK
    /\ \A k \in Keys : Stored(k, obj[k]) /\ Stored(k, seen[k])
    /\ Stored("cluster", read)
    /\ \A w \in Workers : \A l \in diff[w].fin : l \subseteq Finalizers(Subject(w))

LEMMA Names ==
    /\ "cluster" \in Keys /\ "C" \in Workers
    /\ "cluster" \notin Domains /\ "cluster" \notin Nets
    /\ \A w \in Workers : Subject(w) \in Keys
    /\ \A k \in Domains \cup Nets : Subject(k) = k /\ k \in Workers /\ k \in Keys
                                    /\ Finalizers(k) = {k} /\ k \notin {"C", "K"}
    /\ \A n \in Nets : n \notin Domains
    /\ Finalizers("cluster") = {"C", "K"}
    /\ Subject("C") = "cluster" /\ Subject("K") = "cluster"
  BY DomainAssumption DEF Keys, Workers, Subject, Finalizers

LEMMA AbsentStored ==
    ASSUME NEW k
    PROVE  Stored(k, Absent)
  BY DEF Stored, Absent, Object

LEMMA CreatedStored ==
    ASSUME NEW k, NEW s \in SUBSET Domains
    PROVE  /\ Stored(k, Created(s)) /\ Created(s).exists /\ ~Created(s).deleting
           /\ Created(s).spec = s /\ Created(s).fin = {} /\ ~Created(s).set /\ Created(s).status = {}
  BY DEF Stored, Created, Absent, Object

LEMMA DeletedStored ==
    ASSUME NEW k, NEW o, Stored(k, o)
    PROVE  /\ Stored(k, Deleted(o))
           /\ Deleted(o).exists => o.exists /\ Deleted(o).spec = o.spec /\ Deleted(o).fin = o.fin
           /\ o.fin # {} /\ o.exists => Deleted(o).exists /\ Deleted(o).deleting
           /\ o.deleting => Deleted(o) = o
  <1>1. CASE o.exists /\ o.fin # {}
    BY <1>1 DEF Stored, Deleted, Collected, Object
  <1>2. CASE o.exists /\ o.fin = {}
    <2>1. Deleted(o) = Absent
      BY <1>2 DEF Stored, Deleted, Collected, Object
    <2> QED
      BY <1>2, <2>1, AbsentStored DEF Absent, Stored
  <1>3. CASE ~o.exists
    BY <1>3 DEF Stored, Deleted, Object
  <1> QED
    BY <1>1, <1>2, <1>3 DEF Stored, Object

LEMMA SpecPatchStored ==
    ASSUME NEW k, NEW o, Stored(k, o), NEW d \in Diffs,
           \A l \in d.fin : l \subseteq Finalizers(k)
    PROVE  /\ Stored(k, SpecPatch(o, d))
           /\ SpecPatch(o, d).exists => /\ o.exists /\ SpecPatch(o, d).spec = o.spec
                                        /\ SpecPatch(o, d).deleting = o.deleting
           /\ o.exists /\ ~SpecPatch(o, d).exists => o.deleting /\ {} \in d.fin
           /\ o.deleting => SpecPatch(o, d).fin \subseteq o.fin
           /\ SpecPatch(o, d).fin \subseteq o.fin \cup UNION d.fin
  <1>1. CASE Rejected(o, d)
    BY <1>1 DEF SpecPatch, Stored, Object, Rejected
  <1>2. CASE ~Rejected(o, d)
    <2> DEFINE p == [o EXCEPT !.fin = IF d.fin = {} THEN @ ELSE UNION d.fin, !.set = @ \/ d.set]
    <2>1. SpecPatch(o, d) = Collected(p) /\ o.exists
      BY <1>2 DEF SpecPatch, Rejected
    <2>2. /\ p \in Object /\ p.exists /\ p.spec = o.spec /\ p.deleting = o.deleting
          /\ p.fin = IF d.fin = {} THEN o.fin ELSE UNION d.fin
      BY <2>1 DEF Stored, Object, Diffs
    <2>3. p.fin \subseteq Finalizers(k) /\ (o.deleting => p.fin \subseteq o.fin)
          /\ p.fin \subseteq o.fin \cup UNION d.fin
      BY <1>2, <2>2 DEF Stored, Rejected
    <2> HIDE DEF p
    <2>4. CASE p.deleting /\ p.fin = {}
      <3>1. SpecPatch(o, d) = Absent
        BY <2>1, <2>4 DEF Collected
      <3>2. d.fin # {} /\ UNION d.fin = {}
        BY <2>2, <2>4 DEF Stored
      <3>3. \A l \in d.fin : l = {}
        BY <3>2
      <3>4. {} \in d.fin
        BY <3>2, <3>3
      <3>5. ~SpecPatch(o, d).exists /\ SpecPatch(o, d).fin = {}
        BY <3>1 DEF Absent
      <3> QED
        BY <2>2, <2>4, <3>1, <3>4, <3>5, AbsentStored
    <2>5. CASE ~(p.deleting /\ p.fin = {})
      <3>1. SpecPatch(o, d) = p
        BY <2>1, <2>5 DEF Collected
      <3>2. p.deleting => p.fin # {}
        BY <2>5
      <3>3. Stored(k, p)
        BY <2>2, <2>3, <3>2 DEF Stored
      <3> QED
        BY <2>1, <2>2, <2>3, <3>1, <3>3
    <2> QED
      BY <2>4, <2>5
  <1> QED
    BY <1>1, <1>2

LEMMA StatusPatchStored ==
    ASSUME NEW k, NEW o, Stored(k, o), NEW d \in Diffs
    PROVE  /\ Stored(k, StatusPatch(o, d))
           /\ StatusPatch(o, d).exists = o.exists /\ StatusPatch(o, d).fin = o.fin
           /\ StatusPatch(o, d).deleting = o.deleting /\ StatusPatch(o, d).spec = o.spec
  <1>1. CASE o.exists
    BY <1>1 DEF StatusPatch, Stored, Object, Diffs
  <1>2. CASE ~o.exists
    BY <1>2 DEF StatusPatch, Stored
  <1> QED
    BY <1>1, <1>2

LEMMA DiffType ==
    ASSUME NEW b \in Object, NEW a \in Object
    PROVE  /\ Diff(b, a) \in Diffs
           /\ \A l \in Diff(b, a).fin : l = a.fin
           /\ a.fin = b.fin => Diff(b, a).fin = {}
  BY DEF Diff, Diffs, Object

\* A pass of w that ends leaves the others alone.
PassEnd(w) ==
    /\ pc' \in [Workers -> {"idle", "verify", "checkowned", "patch", "retry"}]
    /\ diff' \in [Workers -> Diffs] /\ queued' \in BOOLEAN /\ Stored("cluster", read')
    /\ \A v \in Workers \ {w} : pc'[v] = pc[v] /\ diff'[v] = diff[v]
    /\ pc'[w] \in {"patch", "retry"} <=> diff'[w] # Nothing
    /\ \A l \in diff'[w].fin : l \subseteq Finalizers(Subject(w))

LEMMA NothingType == Nothing \in Diffs /\ Nothing.fin = {}
  BY DEF Nothing, Diffs

LEMMA EndsType ==
    ASSUME TypeInv, NEW w \in Workers, NEW b \in Object, NEW a \in Object,
           a.fin \subseteq Finalizers(Subject(w)), NEW again \in BOOLEAN,
           Ends(w, b, a, again)
    PROVE  /\ PassEnd(w) /\ diff'[w] = Diff(b, a)
           /\ pc'[w] \in {"idle", "patch", "retry"}
           /\ read' = IF w = "C" THEN Absent ELSE read
  <1> DEFINE d == Diff(b, a)
  <1>1. d \in Diffs /\ \A l \in d.fin : l \subseteq Finalizers(Subject(w))
    BY DiffType
  <1>2. /\ diff' = [diff EXCEPT ![w] = d]
        /\ pc' = [pc EXCEPT ![w] = IF d = Nothing THEN "idle" ELSE IF again THEN "retry" ELSE "patch"]
        /\ queued' = IF w = "C" THEN (pc[w] # "idle" /\ queued) \/ (again /\ d = Nothing) ELSE queued
        /\ read' = IF w = "C" THEN Absent ELSE read
    BY DEF Ends
  <1> HIDE DEF d
  <1>3. queued' \in BOOLEAN
    BY <1>2 DEF TypeInv, TypeOK
  <1>4. Stored("cluster", read')
    BY <1>2, AbsentStored DEF TypeInv
  <1>5. diff' \in [Workers -> Diffs] /\ diff'[w] = d /\ \A v \in Workers \ {w} : diff'[v] = diff[v]
    BY <1>1, <1>2 DEF TypeInv, TypeOK
  <1>6. /\ pc' \in [Workers -> {"idle", "verify", "checkowned", "patch", "retry"}]
        /\ \A v \in Workers \ {w} : pc'[v] = pc[v]
        /\ pc'[w] \in {"idle", "patch", "retry"}
        /\ pc'[w] \in {"patch", "retry"} <=> d # Nothing
    BY <1>2 DEF TypeInv, TypeOK
  <1> QED
    BY <1>1, <1>2, <1>3, <1>4, <1>5, <1>6 DEF PassEnd, d

\* Objects that are stored have their types.
AllStored(o) == o \in [Keys -> Object] /\ \A k \in Keys : Stored(k, o[k])

LEMMA StoreType ==
    ASSUME TypeInv, NEW o, AllStored(o), Store(o)
    PROVE  AllStored(obj') /\ obj' = o /\ orphans' \subseteq Keys
  BY DEF Store

\* What is left to show of a step.
Step ==
    /\ netOf' = netOf /\ capi' \in {"up", "deleting", "gone"} /\ capiSeen' \in BOOLEAN
    /\ AllStored(obj') /\ AllStored(seen') /\ orphans' \subseteq Keys
    /\ net' \in [Nets -> {"absent", "tagged", "gone"}] /\ cks' \in BOOLEAN
    /\ faults' \in 0..MaxFaults /\ edits' \in 0..MaxEdits

LEMMA TypePass ==
    ASSUME TypeInv, Step, NEW w \in Workers, PassEnd(w)
    PROVE  TypeInv'
  <1>1. \A v \in Workers : /\ pc'[v] \in {"patch", "retry"} <=> diff'[v] # Nothing
                           /\ \A l \in diff'[v].fin : l \subseteq Finalizers(Subject(v))
    <2> SUFFICES ASSUME NEW v \in Workers
                 PROVE  /\ pc'[v] \in {"patch", "retry"} <=> diff'[v] # Nothing
                        /\ \A l \in diff'[v].fin : l \subseteq Finalizers(Subject(v))
      OBVIOUS
    <2>1. CASE v = w
      BY <2>1 DEF PassEnd
    <2>2. CASE v # w
      BY <2>2 DEF PassEnd, TypeInv, TypeOK
    <2> QED
      BY <2>1, <2>2
  <1>2. netOf' \in Naming
    BY DEF Step, TypeInv, TypeOK
  <1>3. Stored("cluster", read') /\ read' \in Object
    BY DEF PassEnd, Stored
  <1> QED
    BY <1>1, <1>2, <1>3 DEF TypeInv, TypeOK, Step, PassEnd, AllStored, Stored

LEMMA TypeOther ==
    ASSUME TypeInv, Step, pc' = pc, diff' = diff, read' = read, queued' \in BOOLEAN
    PROVE  TypeInv'
  <1>1. netOf' \in Naming
    BY DEF Step, TypeInv, TypeOK
  <1> QED
    BY <1>1 DEF TypeInv, TypeOK, Step, AllStored, Stored

LEMMA DisturbType ==
    ASSUME TypeInv, NEW kind, Disturb(kind)
    PROVE  faults' \in 0..MaxFaults
  BY BoundAssumption DEF Disturb, TypeInv, TypeOK

LEMMA TypeNow ==
    ASSUME TypeInv
    PROVE  /\ AllStored(obj) /\ AllStored(seen) /\ orphans \subseteq Keys /\ netOf \in [Domains -> Nets]
           /\ read \in Object /\ \A k \in Keys : obj[k] \in Object /\ seen[k] \in Object
           /\ net \in [Nets -> {"absent", "tagged", "gone"}] /\ cks \in BOOLEAN
           /\ capi \in {"up", "deleting", "gone"} /\ capiSeen \in BOOLEAN /\ queued \in BOOLEAN
           /\ faults \in 0..MaxFaults /\ edits \in 0..MaxEdits
           /\ diff \in [Workers -> Diffs]
           /\ pc \in [Workers -> {"idle", "verify", "checkowned", "patch", "retry"}]
           /\ \A w \in Workers : pc[w] \in {"patch", "retry"} <=> diff[w] # Nothing
  BY DomainAssumption DEF TypeInv, TypeOK, AllStored

LEMMA OneStored ==
    ASSUME TypeInv, NEW k \in Keys, NEW x, Stored(k, x)
    PROVE  AllStored([obj EXCEPT ![k] = x])
  <1>1. x \in Object
    BY DEF Stored
  <1> QED
    BY <1>1 DEF TypeInv, TypeOK, AllStored

LEMMA DeletesType ==
    ASSUME TypeInv, NEW S, Deletes(S)
    PROVE  /\ AllStored(obj') /\ orphans' \subseteq Keys
           /\ \A k \in Keys : obj'[k] = IF k \in S THEN Deleted(obj[k]) ELSE obj[k]
  <1> DEFINE o == [k \in Keys |-> IF k \in S THEN Deleted(obj[k]) ELSE obj[k]]
  <1>1. \A k \in Keys : Stored(k, Deleted(obj[k])) /\ Stored(k, obj[k])
    BY DeletedStored DEF TypeInv
  <1>2. AllStored(o)
    BY <1>1 DEF AllStored, Stored
  <1>3. Store(o) /\ \A k \in Keys : o[k] = IF k \in S THEN Deleted(obj[k]) ELSE obj[k]
    BY DEF Deletes
  <1> HIDE DEF o
  <1> QED
    BY <1>2, <1>3, StoreType

LEMMA DeletesSomeType ==
    ASSUME TypeInv, NEW S, DeletesSome(S)
    PROVE  /\ AllStored(obj') /\ orphans' \subseteq Keys
           /\ \E D \in SUBSET S : \A k \in Keys : obj'[k] = IF k \in D THEN Deleted(obj[k]) ELSE obj[k]
  <1>1. PICK D \in SUBSET {f \in S : obj[f].exists} : Deletes(D)
    BY DEF DeletesSome
  <1> QED
    BY <1>1, DeletesType

LEMMA TypePatch ==
    ASSUME TypeInv, NEW w \in Workers, Patch(w)
    PROVE  /\ TypeInv'
           /\ \A v \in Workers \ {w} : pc'[v] = pc[v] /\ diff'[v] = diff[v]
           /\ diff'[w] = Nothing /\ read' = read /\ pc'[w] = "idle"
  <1> DEFINE k == Subject(w)
             o == obj[k]
             d == diff[w]
  <1>1. k \in Keys /\ Stored(k, o) /\ d \in Diffs /\ \A l \in d.fin : l \subseteq Finalizers(k)
    BY Names DEF TypeInv, TypeOK
  <1>2. /\ Stored(k, SpecPatch(o, d)) /\ Stored(k, StatusPatch(o, d))
        /\ Stored(k, StatusPatch(SpecPatch(o, d), d))
    BY <1>1, SpecPatchStored, StatusPatchStored
  <1>3. PICK new \in {o, SpecPatch(o, d), StatusPatch(o, d), StatusPatch(SpecPatch(o, d), d)} :
          Store([obj EXCEPT ![k] = new])
    BY DEF Patch
  <1>4. AllStored([obj EXCEPT ![k] = new])
    BY <1>1, <1>2, OneStored
  <1>5. AllStored(obj') /\ orphans' \subseteq Keys
    BY <1>3, <1>4, StoreType
  <1>6. faults' \in 0..MaxFaults /\ queued' \in BOOLEAN
    BY TypeNow, DisturbType DEF Patch
  <1>7. /\ pc' = [pc EXCEPT ![w] = "idle"] /\ diff' = [diff EXCEPT ![w] = Nothing]
        /\ UNCHANGED <<netOf, capi, caches, read, cloud, edits>>
    BY DEF Patch
  <1>8. /\ pc' \in [Workers -> {"idle", "verify", "checkowned", "patch", "retry"}]
        /\ \A v \in Workers \ {w} : pc'[v] = pc[v] /\ diff'[v] = diff[v]
        /\ diff' \in [Workers -> Diffs] /\ diff'[w] = Nothing /\ pc'[w] = "idle"
    BY <1>7, TypeNow, NothingType
  <1>9. PassEnd(w)
    BY <1>6, <1>7, <1>8, NothingType DEF PassEnd, TypeInv
  <1>10. Step
    BY <1>5, <1>6, <1>7, TypeNow DEF Step, caches, cloud
  <1> QED
    BY <1>7, <1>8, <1>9, <1>10, TypePass

LEMMA TypeCreateDomains ==
    ASSUME TypeInv, CreateFailureDomains
    PROVE  TypeInv'
  <1> DEFINE o == seen["cluster"]
             Creates(S) == [k \in Keys |-> IF k \in S THEN Created({}) ELSE obj[k]]
  <1>1. \A S : AllStored(Creates(S))
    <2>1. \A k \in Keys : Stored(k, Created({})) /\ Stored(k, obj[k])
      BY CreatedStored DEF TypeInv
    <2> QED
      BY <2>1 DEF AllStored, Stored
  <1>2. \E S : Store(Creates(S))
    BY DEF CreateFailureDomains
  <1>3. AllStored(obj') /\ orphans' \subseteq Keys
    BY <1>1, <1>2, StoreType
  <1>4. faults' \in 0..MaxFaults
    BY TypeNow, DisturbType DEF CreateFailureDomains
  <1>5. Step
    BY <1>3, <1>4, TypeNow DEF Step, CreateFailureDomains, caches, cloud
  <1>6. Stored("cluster", o) /\ o \in Object /\ o.fin \subseteq Finalizers(Subject("C"))
    BY Names DEF TypeInv, Stored
  <1>7. PassEnd("C")
    <2>1. CASE Ends("C", o, o, TRUE)
      BY <1>6, <2>1, EndsType, Names
    <2>2. CASE /\ pc' = [pc EXCEPT !["C"] = "verify"] /\ read' = o /\ queued' = FALSE
               /\ UNCHANGED diff
      <3>1. pc["C"] = "idle"
        BY DEF CreateFailureDomains, Starts
      <3>2. diff["C"] = Nothing
        BY <3>1, TypeNow, Names
      <3>3. /\ pc' \in [Workers -> {"idle", "verify", "checkowned", "patch", "retry"}]
            /\ \A v \in Workers \ {"C"} : pc'[v] = pc[v] /\ pc'["C"] = "verify"
        BY <2>2, TypeNow, Names
      <3>4. \A l \in diff'["C"].fin : l \subseteq Finalizers(Subject("C"))
        BY <2>2, <3>2, NothingType
      <3> QED
        BY <1>6, <2>2, <3>2, <3>3, <3>4, TypeNow, Names DEF PassEnd
    <2> QED
      BY <2>1, <2>2 DEF CreateFailureDomains
  <1> QED
    BY <1>5, <1>7, TypePass, Names

LEMMA SetReadyType ==
    ASSUME TypeInv
    PROVE  SetReady \in Object /\ SetReady.fin = read.fin \cup {"C"}
           /\ SetReady.fin \subseteq Finalizers("cluster") /\ "C" \in SetReady.fin
  BY Names DEF SetReady, TypeInv, Stored, Object

LEMMA TypeRemoveAndVerify ==
    ASSUME TypeInv, RemoveAndVerify
    PROVE  TypeInv'
  <1>1. AllStored(obj') /\ orphans' \subseteq Keys
    BY DeletesType, DeletesSomeType DEF RemoveAndVerify
  <1>2. faults' \in 0..MaxFaults
    BY TypeNow, DisturbType DEF RemoveAndVerify
  <1>3. Step
    BY <1>1, <1>2, TypeNow DEF Step, RemoveAndVerify, caches, cloud
  <1>4. Ends("C", read, SetReady, FALSE) \/ Ends("C", read, read, TRUE)
    BY DEF RemoveAndVerify, VerifyFailureDomainCRDs
  <1>5. read \in Object /\ read.fin \subseteq Finalizers(Subject("C"))
    BY Names DEF TypeInv, Stored
  <1>6. PassEnd("C")
    BY <1>4, <1>5, EndsType, SetReadyType, Names
  <1> QED
    BY <1>3, <1>6, TypePass, Names

LEMMA TypeDeleteDomains ==
    ASSUME TypeInv, DeleteFailureDomains
    PROVE  TypeInv'
  <1> DEFINE o == seen["cluster"]
             p == [o EXCEPT !.fin = @ \ {"C"}]
  <1>1. AllStored(obj') /\ orphans' \subseteq Keys
    BY DeletesType, DeletesSomeType, TypeNow DEF DeleteFailureDomains
  <1>2. faults' \in 0..MaxFaults
    BY TypeNow, DisturbType DEF DeleteFailureDomains
  <1>3. Step
    BY <1>1, <1>2, TypeNow DEF Step, DeleteFailureDomains, caches, cloud
  <1>4. o \in Object /\ o.fin \subseteq Finalizers(Subject("C"))
    BY Names DEF TypeInv, Stored
  <1>5. p \in Object /\ p.fin \subseteq Finalizers(Subject("C"))
    BY <1>4 DEF Object
  <1>6. Ends("C", o, p, FALSE) \/ Ends("C", o, o, TRUE)
    BY DEF DeleteFailureDomains
  <1> HIDE DEF p
  <1>7. PassEnd("C")
    BY <1>4, <1>5, <1>6, EndsType, Names
  <1> QED
    BY <1>3, <1>7, TypePass, Names

LEMMA TypeCks ==
    ASSUME TypeInv, "K" \in Workers, GetOrCreateCksCluster \/ DeleteCksCluster
    PROVE  TypeInv'
  <1> DEFINE o == seen["cluster"]
             g == [o EXCEPT !.fin = @ \cup {"K"}]
             e == WithCksEntry(g)
             p(s) == [o EXCEPT !.fin = @ \ {"K"}, !.status = s]
  <1>1. obj' = obj /\ orphans' = orphans /\ net' = net /\ cks' \in BOOLEAN
    BY TypeNow DEF GetOrCreateCksCluster, DeleteCksCluster, CksEntryKept
  <1>2. faults' \in 0..MaxFaults
    BY TypeNow, DisturbType DEF GetOrCreateCksCluster, DeleteCksCluster
  <1>3. Step
    BY <1>1, <1>2, TypeNow DEF Step, GetOrCreateCksCluster, DeleteCksCluster, caches
  <1>4. o \in Object /\ o.fin \subseteq Finalizers(Subject("K"))
    BY Names DEF TypeInv, Stored
  <1>5. g \in Object /\ g.fin \subseteq Finalizers(Subject("K"))
    BY <1>4, Names DEF Object
  <1>6. e \in Object /\ e.fin \subseteq Finalizers(Subject("K"))
    BY <1>5 DEF Object, WithCksEntry
  <1>7. \A s \in SUBSET o.status : p(s) \in Object /\ p(s).fin \subseteq Finalizers(Subject("K"))
    BY <1>4 DEF Object
  <1>8. \/ Ends("K", o, e, FALSE) \/ Ends("K", o, g, TRUE)
        \/ \E s \in SUBSET o.status : Ends("K", o, p(s), FALSE)
        \/ Ends("K", o, o, TRUE)
    <2>1. DeleteCksCluster => \/ Ends("K", o, p(o.status \ {"cks"}), FALSE)
                              \/ Ends("K", o, p(o.status), FALSE) \/ Ends("K", o, o, TRUE)
      <3>1. [o EXCEPT !.fin = @ \ {"K"}] = p(o.status)
        BY <1>4 DEF Object
      <3> QED
        BY <3>1 DEF DeleteCksCluster
    <2> QED
      BY <2>1 DEF GetOrCreateCksCluster
  <1> HIDE DEF g, e, p
  <1>9. PassEnd("K")
    BY <1>4, <1>5, <1>6, <1>7, <1>8, EndsType, Names
  <1> QED
    BY <1>3, <1>9, TypePass, Names

LEMMA GenerateType ==
    ASSUME TypeInv, NEW f \in Domains, GenerateIsolatedNetwork(f)
    PROVE  /\ AllStored(obj') /\ orphans' \subseteq Keys /\ netOf[f] \in Nets
           /\ \A k \in Keys \ {netOf[f]} : obj'[k] = obj[k]
           /\ obj'[netOf[f]] = IF obj[netOf[f]].exists THEN obj[netOf[f]] ELSE Created({f})
  <1> DEFINE n == netOf[f]
             x == IF obj[n].exists THEN obj[n] ELSE Created({f})
  <1>1. n \in Nets /\ n \in Keys
    BY TypeNow DEF Keys
  <1>2. Stored(n, x)
    BY <1>1, CreatedStored DEF TypeInv
  <1>3. Store([obj EXCEPT ![n] = x])
    BY DEF GenerateIsolatedNetwork
  <1> HIDE DEF n, x
  <1>4. AllStored([obj EXCEPT ![n] = x])
    BY <1>1, <1>2, OneStored
  <1>5. AllStored(obj') /\ orphans' \subseteq Keys /\ obj' = [obj EXCEPT ![n] = x]
    BY <1>3, <1>4, StoreType
  <1> QED
    BY <1>1, <1>5, TypeNow DEF n, x, AllStored

LEMMA GuardedDomain ==
    ASSUME NEW o \in Object, NEW f \in Domains, o.fin \subseteq {f}
    PROVE  /\ AddDomainFinalizer(o, f) \in Object /\ AddDomainFinalizer(o, f).fin = {f}
           /\ [AddDomainFinalizer(o, f) EXCEPT !.set = TRUE] \in Object
           /\ [AddDomainFinalizer(o, f) EXCEPT !.set = TRUE].fin = {f}
           /\ [[AddDomainFinalizer(o, f) EXCEPT !.set = TRUE] EXCEPT !.status = {"ready"}] \in Object
           /\ [[AddDomainFinalizer(o, f) EXCEPT !.set = TRUE] EXCEPT !.status = {"ready"}].fin = {f}
  <1>1. AddDomainFinalizer(o, f) \in Object /\ AddDomainFinalizer(o, f).fin = {f}
    BY Names DEF AddDomainFinalizer, Object
  <1> QED
    BY <1>1 DEF Object

LEMMA ReconcileDomainEnds ==
    ASSUME TypeInv, NEW f \in Domains, ReconcileDomain(f)
    PROVE  \E a \in Object, again \in BOOLEAN : a.fin = {f} /\ Ends(f, seen[f], a, again)
  <1> DEFINE o == seen[f]
             g == AddDomainFinalizer(o, f)
             r == [g EXCEPT !.set = TRUE]
             s == [r EXCEPT !.status = {"ready"}]
  <1>1. o \in Object /\ o.fin \subseteq {f}
    BY Names DEF TypeInv, Stored
  <1>2. /\ g \in Object /\ r \in Object /\ s \in Object
        /\ g.fin = {f} /\ r.fin = {f} /\ s.fin = {f}
    BY <1>1, GuardedDomain
  <1>3. Ends(f, o, g, TRUE) \/ Ends(f, o, r, TRUE) \/ Ends(f, o, s, FALSE)
    BY DEF ReconcileDomain
  <1> HIDE DEF g, r, s
  <1> QED
    BY <1>2, <1>3

LEMMA TypeReconcileDomain ==
    ASSUME TypeInv, NEW f \in Domains, ReconcileDomain(f)
    PROVE  TypeInv'
  <1>1. AllStored(obj') /\ orphans' \subseteq Keys
    BY GenerateType, TypeNow DEF ReconcileDomain
  <1>2. faults' \in 0..MaxFaults
    BY TypeNow, DisturbType DEF ReconcileDomain
  <1>3. Step
    BY <1>1, <1>2, TypeNow DEF Step, ReconcileDomain, caches, cloud
  <1>4. PICK a \in Object, again \in BOOLEAN : a.fin = {f} /\ Ends(f, seen[f], a, again)
    BY ReconcileDomainEnds
  <1>5. f \in Workers /\ f \in Keys /\ Finalizers(Subject(f)) = {f}
    BY Names
  <1>6. seen[f] \in Object
    BY <1>5, TypeNow
  <1>7. PassEnd(f)
    BY <1>4, <1>5, <1>6, EndsType
  <1> QED
    BY <1>3, <1>5, <1>7, TypePass

LEMMA TypeDeleteOwned ==
    ASSUME TypeInv, NEW f \in Domains, DeleteOwnedObjects(f)
    PROVE  TypeInv'
  <1>1. AllStored(obj') /\ orphans' \subseteq Keys
    BY DeletesType DEF DeleteOwnedObjects
  <1>2. Step
    BY <1>1, TypeNow DEF Step, DeleteOwnedObjects, caches, cloud, bounds
  <1>3. pc[f] = "idle" /\ f \in Workers
    BY Names DEF DeleteOwnedObjects, Starts
  <1>4. diff[f] = Nothing
    BY <1>3, TypeNow
  <1>5. /\ pc' = [pc EXCEPT ![f] = "checkowned"]
        /\ read' = read /\ queued' = queued /\ diff' = diff
    BY DEF DeleteOwnedObjects
  <1>6. /\ pc' \in [Workers -> {"idle", "verify", "checkowned", "patch", "retry"}]
        /\ \A v \in Workers \ {f} : pc'[v] = pc[v]
        /\ pc'[f] = "checkowned"
    BY <1>3, <1>5, TypeNow
  <1>7. PassEnd(f)
    BY <1>4, <1>5, <1>6, TypeNow, NothingType DEF PassEnd, TypeInv
  <1> QED
    BY <1>2, <1>3, <1>7, TypePass

LEMMA CheckOwnedEnds ==
    ASSUME TypeInv, NEW f \in Domains, CheckOwnedObjectsDeleted(f)
    PROVE  /\ PassEnd(f)
           /\ \/ OwnedBy(f) = {}
              \/ diff'[f].fin = {}
  <1> DEFINE b == [Absent EXCEPT !.fin = {f}]
  <1>1. Absent \in Object /\ Absent.fin = {} /\ b \in Object
    BY Names DEF Absent, Object
  <1>2. \/ OwnedBy(f) = {} /\ Ends(f, b, Absent, FALSE)
        \/ Ends(f, Absent, Absent, TRUE)
    BY DEF CheckOwnedObjectsDeleted
  <1> HIDE DEF b
  <1>3. f \in Workers /\ Absent.fin \subseteq Finalizers(Subject(f))
    BY <1>1, Names
  <1>4. CASE OwnedBy(f) = {} /\ Ends(f, b, Absent, FALSE)
    BY <1>1, <1>3, <1>4, EndsType
  <1>5. CASE Ends(f, Absent, Absent, TRUE)
    <2>1. PassEnd(f) /\ diff'[f] = Diff(Absent, Absent)
      BY <1>1, <1>3, <1>5, EndsType
    <2> QED
      BY <1>1, <2>1, DiffType
  <1> QED
    BY <1>2, <1>4, <1>5

LEMMA TypeCheckOwned ==
    ASSUME TypeInv, NEW f \in Domains, CheckOwnedObjectsDeleted(f)
    PROVE  TypeInv'
  <1>1. Step
    BY TypeNow DEF Step, CheckOwnedObjectsDeleted, caches, cloud, bounds
  <1> QED
    BY <1>1, CheckOwnedEnds, TypePass, Names

LEMMA TypeProvision ==
    ASSUME TypeInv, NEW n \in Nets, ProvisionNetwork(n)
    PROVE  /\ TypeInv'
           /\ \E a \in Object, again \in BOOLEAN : a.fin = {n} /\ Ends(n, seen[n], a, again)
           /\ \A k \in Keys : /\ k # "cluster" => obj'[k] = obj[k]
                              /\ obj'[k].exists = obj[k].exists /\ obj'[k].fin = obj[k].fin
                              /\ obj'[k].deleting = obj[k].deleting /\ obj'[k].spec = obj[k].spec
  <1> DEFINE o == seen[n]
             g == [o EXCEPT !.fin = {n}]
             r == [g EXCEPT !.status = {"ready"}]
             c == [obj["cluster"] EXCEPT !.set = TRUE]
  <1>1. n \in Workers /\ n \in Keys /\ Finalizers(Subject(n)) = {n} /\ "cluster" \in Keys
    BY Names
  <1>2. g \in Object /\ g.fin = {n} /\ r \in Object /\ r.fin = {n} /\ o \in Object
    BY <1>1, TypeNow DEF Object
  <1>3. /\ Stored("cluster", c) /\ c.exists = obj["cluster"].exists /\ c.fin = obj["cluster"].fin
        /\ c.deleting = obj["cluster"].deleting /\ c.spec = obj["cluster"].spec
    BY <1>1 DEF TypeInv, Stored, Object
  <1>4. Ends(n, o, g, TRUE) \/ Ends(n, o, r, FALSE)
    BY DEF ProvisionNetwork
  <1>5. (obj' = obj /\ orphans' = orphans) \/ Store([obj EXCEPT !["cluster"] = c])
    BY DEF ProvisionNetwork
  <1> HIDE DEF c, g, r
  <1>6. AllStored([obj EXCEPT !["cluster"] = c])
    BY <1>1, <1>3, OneStored
  <1>7. AllStored(obj') /\ orphans' \subseteq Keys /\ (obj' = obj \/ obj' = [obj EXCEPT !["cluster"] = c])
    BY <1>5, <1>6, StoreType, TypeNow
  <1>8. faults' \in 0..MaxFaults
    BY TypeNow, DisturbType DEF ProvisionNetwork
  <1>9. net' \in [Nets -> {"absent", "tagged", "gone"}]
    BY TypeNow DEF ProvisionNetwork
  <1>10. Step
    BY <1>7, <1>8, <1>9, TypeNow DEF Step, ProvisionNetwork, caches
  <1>11. PassEnd(n)
    BY <1>1, <1>2, <1>4, EndsType
  <1>12. \A k \in Keys : /\ k # "cluster" => obj'[k] = obj[k]
                         /\ obj'[k].exists = obj[k].exists /\ obj'[k].fin = obj[k].fin
                         /\ obj'[k].deleting = obj[k].deleting /\ obj'[k].spec = obj[k].spec
    BY <1>1, <1>3, <1>7, TypeNow DEF AllStored
  <1> QED
    BY <1>1, <1>2, <1>4, <1>10, <1>11, <1>12, TypePass

LEMMA TypeDispose ==
    ASSUME TypeInv, NEW n \in Nets, DisposeNetwork(n)
    PROVE  /\ TypeInv'
           /\ \/ /\ net' = IF net[n] = "tagged" /\ seen["cluster"].exists
                          THEN [net EXCEPT ![n] = "gone"] ELSE net
              \/ diff'[n].fin = {}
           /\ \A v \in Workers \ {n} : diff'[v] = diff[v]
  <1> DEFINE o == seen[n]
             p == [o EXCEPT !.fin = {}]
             disposed == IF net[n] = "tagged" /\ seen["cluster"].exists
                         THEN [net EXCEPT ![n] = "gone"] ELSE net
  <1>1. n \in Workers /\ n \in Keys /\ Finalizers(Subject(n)) = {n}
    BY Names
  <1>2. p \in Object /\ p.fin = {} /\ o \in Object /\ o.fin \subseteq {n}
    <2>1. o \in Object /\ o.fin \subseteq {n}
      BY <1>1, Names DEF TypeInv, Stored
    <2> QED
      BY <2>1 DEF Object
  <1>3. \/ net' = disposed /\ Ends(n, o, p, FALSE)
        \/ net' \in {net, disposed} /\ Ends(n, o, o, TRUE)
    BY DEF DisposeNetwork, DisposalFailed
  <1> HIDE DEF p
  <1>4. faults' \in 0..MaxFaults
    BY TypeNow, DisturbType DEF DisposeNetwork
  <1>5. net' \in [Nets -> {"absent", "tagged", "gone"}]
    BY <1>3, TypeNow
  <1>6. Step
    BY <1>4, <1>5, TypeNow DEF Step, DisposeNetwork, caches
  <1>7. PassEnd(n)
    BY <1>1, <1>2, <1>3, EndsType
  <1>8. Ends(n, o, o, TRUE) => diff'[n].fin = {}
    <2> SUFFICES ASSUME Ends(n, o, o, TRUE) PROVE diff'[n].fin = {}
      OBVIOUS
    <2>1. diff'[n] = Diff(o, o)
      BY <1>1, <1>2, EndsType
    <2> QED
      BY <1>2, <2>1, DiffType
  <1> QED
    BY <1>1, <1>3, <1>6, <1>7, <1>8, TypePass DEF PassEnd

LEMMA TypeWatch ==
    ASSUME TypeInv, NEW kind, Watch(kind)
    PROVE  TypeInv'
  <1>1. AllStored(seen') /\ obj' = obj
    BY TypeNow DEF Watch, AllStored
  <1>2. queued' \in BOOLEAN
    BY TypeNow DEF Watch, Triggers
  <1>3. Step
    BY <1>1, TypeNow DEF Step, Watch, cloud, bounds
  <1> QED
    BY <1>2, <1>3, TypeOther DEF Watch

LEMMA TypeCapi ==
    ASSUME TypeInv, WatchCapi \/ CapiGone
    PROVE  TypeInv'
  <1>1. Step
    BY TypeNow DEF Step, WatchCapi, CapiGone, caches, cloud, bounds
  <1> QED
    BY <1>1, TypeOther, TypeNow DEF WatchCapi, CapiGone

LEMMA TypeDeleteOne ==
    ASSUME TypeInv, NEW k \in Keys, Store([obj EXCEPT ![k] = Deleted(@)])
    PROVE  /\ AllStored(obj') /\ orphans' \subseteq Keys
           /\ obj'[k] = Deleted(obj[k]) /\ \A j \in Keys \ {k} : obj'[j] = obj[j]
  <1>1. Stored(k, Deleted(obj[k]))
    BY DeletedStored DEF TypeInv
  <1>2. AllStored([obj EXCEPT ![k] = Deleted(obj[k])])
    BY <1>1, OneStored
  <1>3. Store([obj EXCEPT ![k] = Deleted(obj[k])])
    OBVIOUS
  <1>4. /\ AllStored(obj') /\ orphans' \subseteq Keys
        /\ obj' = [obj EXCEPT ![k] = Deleted(obj[k])]
    BY <1>2, <1>3, StoreType
  <1> QED
    BY <1>4, TypeNow DEF AllStored

LEMMA TypeDeleteRequested ==
    ASSUME TypeInv, DeleteRequested
    PROVE  TypeInv'
  <1>1. AllStored(obj') /\ orphans' \subseteq Keys
    BY TypeDeleteOne, Names DEF DeleteRequested
  <1>2. Step
    BY <1>1, TypeNow DEF Step, DeleteRequested, caches, cloud, bounds
  <1> QED
    BY <1>2, TypeOther, TypeNow DEF DeleteRequested

LEMMA TypeGarbageCollect ==
    ASSUME TypeInv, NEW k \in Domains \cup Nets, GarbageCollect(k)
    PROVE  TypeInv'
  <1>1. AllStored(obj') /\ orphans' \subseteq Keys
    BY TypeDeleteOne, Names DEF GarbageCollect
  <1>2. Step
    BY <1>1, TypeNow DEF Step, GarbageCollect, caches, cloud, bounds
  <1> QED
    BY <1>2, TypeOther, TypeNow DEF GarbageCollect

LEMMA EditStored ==
    ASSUME TypeInv, EditSpec
    PROVE  /\ AllStored(obj') /\ orphans' \subseteq Keys
           /\ \A k \in Keys : /\ k # "cluster" => obj'[k] = obj[k]
                              /\ obj'[k].exists = obj[k].exists /\ obj'[k].fin = obj[k].fin
                              /\ obj'[k].deleting = obj[k].deleting
  <1>1. PICK s \in SUBSET Domains : Store([obj EXCEPT !["cluster"].spec = s])
    BY DEF EditSpec
  <1> DEFINE c == [obj["cluster"] EXCEPT !.spec = s]
  <1>2. /\ Stored("cluster", c) /\ c.exists = obj["cluster"].exists
        /\ c.fin = obj["cluster"].fin /\ c.deleting = obj["cluster"].deleting
    BY Names DEF TypeInv, Stored, Object
  <1>3. Store([obj EXCEPT !["cluster"] = c])
    BY <1>1
  <1> HIDE DEF c
  <1>4. AllStored([obj EXCEPT !["cluster"] = c])
    BY <1>2, OneStored, Names
  <1>5. AllStored(obj') /\ orphans' \subseteq Keys /\ obj' = [obj EXCEPT !["cluster"] = c]
    BY <1>3, <1>4, StoreType
  <1> QED
    BY <1>2, <1>5, Names, TypeNow DEF AllStored

LEMMA TypeEditSpec ==
    ASSUME TypeInv, EditSpec
    PROVE  TypeInv'
  <1>1. edits' \in 0..MaxEdits
    BY TypeNow, BoundAssumption DEF EditSpec
  <1>2. Step
    BY <1>1, EditStored, TypeNow DEF Step, EditSpec, caches, cloud
  <1> QED
    BY <1>2, TypeOther, TypeNow DEF EditSpec

LEMMA TypeCrash ==
    ASSUME TypeInv, Crash
    PROVE  TypeInv'
  <1>1. faults' \in 0..MaxFaults
    BY DisturbType DEF Crash
  <1>2. Step
    BY <1>1, TypeNow DEF Step, Crash, cloud
  <1>3. /\ pc' = [w \in Workers |-> "idle"] /\ diff' = [w \in Workers |-> Nothing]
        /\ read' = Absent /\ queued' = TRUE
    BY DEF Crash
  <1>4. netOf' \in Naming
    BY DEF Crash, TypeInv, TypeOK
  <1>5. Stored("cluster", read') /\ read' \in Object
    BY <1>3, AbsentStored DEF Stored
  <1>6. /\ pc' \in [Workers -> {"idle", "verify", "checkowned", "patch", "retry"}]
        /\ diff' \in [Workers -> Diffs]
        /\ \A w \in Workers : pc'[w] = "idle" /\ diff'[w] = Nothing /\ diff'[w].fin = {}
    BY <1>3, NothingType
  <1> QED
    BY <1>2, <1>3, <1>4, <1>5, <1>6 DEF TypeInv, TypeOK, Step, AllStored, Stored

LEMMA TypeInit == Init => TypeInv
  <1> SUFFICES ASSUME Init PROVE TypeInv
    OBVIOUS
  <1>1. \A k \in Keys : Stored(k, IF k = "cluster" THEN Created(First) ELSE Absent)
    BY AbsentStored, CreatedStored, DomainAssumption
  <1>2. obj = [k \in Keys |-> IF k = "cluster" THEN Created(First) ELSE Absent] /\ seen = obj
    BY DEF Init
  <1>3. AllStored(obj) /\ AllStored(seen)
    BY <1>1, <1>2 DEF AllStored, Stored
  <1>4. Stored("cluster", read) /\ read \in Object
    BY AbsentStored DEF Init, Stored
  <1>5. /\ pc = [w \in Workers |-> "idle"] /\ diff = [w \in Workers |-> Nothing]
    BY DEF Init
  <1>6. /\ pc \in [Workers -> {"idle", "verify", "checkowned", "patch", "retry"}]
        /\ diff \in [Workers -> Diffs]
        /\ \A w \in Workers : pc[w] = "idle" /\ diff[w] = Nothing /\ diff[w].fin = {}
    BY <1>5, NothingType
  <1>7. /\ netOf \in Naming /\ capi = "up" /\ capiSeen = TRUE /\ orphans = {} /\ queued = TRUE
        /\ net \in [Nets -> {"absent", "tagged", "gone"}] /\ cks = FALSE
        /\ faults \in 0..MaxFaults /\ edits \in 0..MaxEdits
    BY BoundAssumption DEF Init
  <1> QED
    BY <1>3, <1>4, <1>6, <1>7 DEF TypeInv, TypeOK, AllStored, Stored

LEMMA TypeNext == TypeInv /\ [Next]_vars => TypeInv'
  <1> SUFFICES ASSUME TypeInv, [Next]_vars PROVE TypeInv'
    OBVIOUS
  <1>1. ASSUME NEW w \in Workers, Pass(w) PROVE TypeInv'
    BY <1>1, TypePatch, TypeCreateDomains, TypeRemoveAndVerify, TypeDeleteDomains, TypeCks,
       TypeReconcileDomain, TypeDeleteOwned, TypeCheckOwned, TypeProvision, TypeDispose
       DEF Pass, ClusterStep, CksStep, DomainStep, NetStep
  <1>2. CASE UNCHANGED vars
    <2>1. Step
      BY <1>2, TypeNow DEF Step, vars, caches, cloud, bounds
    <2> QED
      BY <1>2, <2>1, TypeOther, TypeNow DEF vars
  <1> QED
    BY <1>1, <1>2, TypeWatch, TypeCapi, TypeDeleteRequested, TypeGarbageCollect, TypeEditSpec,
       TypeCrash DEF Next

\* Every variable has its type: objects carry the finalizers of their own kind
\* only, one being deleted has some left, and a pass at its deferred patch has
\* something to patch.
THEOREM TypeCorrect == Spec => []TypeOK
  <1>1. TypeInv => TypeOK
    BY DEF TypeInv
  <1> QED
    BY <1>1, TypeInit, TypeNext, PTL DEF Spec

(***************************************************************************)
(* What happens to a stored object.                                        *)
(***************************************************************************)

\* Who changes the object of name k, and how.
Patched(k) ==
    \E w \in Workers :
      /\ Subject(w) = k /\ Patch(w)
      /\ obj'[k] \in {obj[k], SpecPatch(obj[k], diff[w]), StatusPatch(obj[k], diff[w]),
                      StatusPatch(SpecPatch(obj[k], diff[w]), diff[w])}

Appears(k) ==
    /\ ~obj[k].exists
    /\ \/ k \in Domains /\ CreateFailureDomains /\ obj'[k] = Created({})
       \/ k \in Nets /\ \E f \in Domains : ReconcileDomain(f) /\ obj'[k] = Created({f})

IsDeleted(k) ==
    /\ obj'[k] = Deleted(obj[k])
    /\ \/ k \in Domains /\ RemoveAndVerify /\ k \notin read.spec
       \/ k \in Domains /\ DeleteFailureDomains
       \/ k \in Nets /\ \E f \in Domains : DeleteOwnedObjects(f) /\ k \in OwnedBy(f)
       \/ k = "cluster" /\ DeleteRequested
       \/ k \in Domains \cup Nets /\ GarbageCollect(k)

\* The endpoint of the cluster is set, or its spec is edited.
Rewritten(k) ==
    /\ k = "cluster"
    /\ obj'[k].exists = obj[k].exists /\ obj'[k].fin = obj[k].fin
    /\ obj'[k].deleting = obj[k].deleting
    /\ EditSpec \/ obj'[k].spec = obj[k].spec

Change(k) == obj'[k] = obj[k] \/ Patched(k) \/ Appears(k) \/ IsDeleted(k) \/ Rewritten(k)

LEMMA ChangePatch ==
    ASSUME TypeInv, NEW w \in Workers, Patch(w)
    PROVE  \A k \in Keys : Change(k)
  <1> DEFINE s == Subject(w)
  <1>1. s \in Keys
    BY Names
  <1>2. PICK new \in {obj[s], SpecPatch(obj[s], diff[w]), StatusPatch(obj[s], diff[w]),
                      StatusPatch(SpecPatch(obj[s], diff[w]), diff[w])} :
          obj' = [obj EXCEPT ![s] = new]
    BY DEF Patch, Store
  <1>3. /\ obj'[s] = new
        /\ \A k \in Keys \ {s} : obj'[k] = obj[k]
    BY <1>1, <1>2, TypeNow DEF AllStored
  <1> QED
    BY <1>2, <1>3 DEF Change, Patched

LEMMA ChangeCreate ==
    ASSUME TypeInv, CreateFailureDomains
    PROVE  \A k \in Keys : Change(k)
  <1>1. seen["cluster"].spec \subseteq Domains
    BY Names, TypeNow DEF Object
  <1>2. PICK S \in SUBSET {f \in seen["cluster"].spec : ~obj[f].exists} :
          obj' = [k \in Keys |-> IF k \in S THEN Created({}) ELSE obj[k]]
    BY DEF CreateFailureDomains, Store
  <1>3. \A k \in Keys : obj'[k] = IF k \in S THEN Created({}) ELSE obj[k]
    BY <1>2
  <1> QED
    BY <1>1, <1>3 DEF Change, Appears

LEMMA ChangeRemove ==
    ASSUME TypeInv, RemoveAndVerify
    PROVE  \A k \in Keys : Change(k)
  <1>1. Listed \subseteq Domains
    BY DEF Listed
  <1>2. Deletes(Listed \ read.spec) \/ DeletesSome(Listed \ read.spec)
    BY DEF RemoveAndVerify
  <1>3. \E D \in SUBSET (Listed \ read.spec) :
          \A k \in Keys : obj'[k] = IF k \in D THEN Deleted(obj[k]) ELSE obj[k]
    BY <1>2, DeletesType, DeletesSomeType
  <1> QED
    BY <1>1, <1>3 DEF Change, IsDeleted

LEMMA ChangeDelete ==
    ASSUME TypeInv, DeleteFailureDomains
    PROVE  \A k \in Keys : Change(k)
  <1>1. Listed \subseteq Domains
    BY DEF Listed
  <1>2. Deletes(Listed) \/ DeletesSome(Listed) \/ obj' = obj
    BY DEF DeleteFailureDomains
  <1>3. \/ obj' = obj
        \/ \E D \in SUBSET Listed :
             \A k \in Keys : obj'[k] = IF k \in D THEN Deleted(obj[k]) ELSE obj[k]
    BY <1>2, DeletesType, DeletesSomeType
  <1> QED
    BY <1>1, <1>3 DEF Change, IsDeleted

LEMMA ChangeDomain ==
    ASSUME TypeInv, NEW f \in Domains, DomainStep(f)
    PROVE  \A k \in Keys : Change(k)
  <1>1. CASE ReconcileDomain(f)
    <2>1. obj' = obj \/ GenerateIsolatedNetwork(f)
      BY <1>1 DEF ReconcileDomain
    <2>2. CASE GenerateIsolatedNetwork(f)
      BY <1>1, <2>2, GenerateType DEF Change, Appears
    <2> QED
      BY <2>1, <2>2 DEF Change
  <1>2. CASE DeleteOwnedObjects(f)
    <2>1. \A k \in Keys : obj'[k] = IF k \in OwnedBy(f) THEN Deleted(obj[k]) ELSE obj[k]
      BY <1>2, DeletesType DEF DeleteOwnedObjects
    <2>2. OwnedBy(f) \subseteq Nets
      BY DEF OwnedBy
    <2> QED
      BY <1>2, <2>1, <2>2 DEF Change, IsDeleted
  <1>3. CASE CheckOwnedObjectsDeleted(f)
    BY <1>3 DEF CheckOwnedObjectsDeleted, Change
  <1> QED
    BY <1>1, <1>2, <1>3 DEF DomainStep

LEMMA ChangeNext ==
    ASSUME TypeInv, Next
    PROVE  \A k \in Keys : Change(k)
  <1>1. ASSUME NEW n \in Nets, NetStep(n) PROVE \A k \in Keys : Change(k)
    <2>1. CASE ProvisionNetwork(n)
      BY <2>1, TypeProvision DEF Change, Rewritten
    <2>2. CASE DisposeNetwork(n)
      BY <2>2 DEF DisposeNetwork, Change
    <2> QED
      BY <1>1, <2>1, <2>2 DEF NetStep
  <1>2. ASSUME CksStep PROVE \A k \in Keys : Change(k)
    BY <1>2 DEF CksStep, GetOrCreateCksCluster, DeleteCksCluster, Change
  <1>3. ASSUME NEW w \in Workers, Pass(w) PROVE \A k \in Keys : Change(k)
    BY <1>1, <1>2, <1>3, ChangePatch, ChangeCreate, ChangeRemove, ChangeDelete, ChangeDomain
       DEF Pass, ClusterStep
  <1>4. ASSUME NEW j \in Domains \cup Nets, GarbageCollect(j) PROVE \A k \in Keys : Change(k)
    <2>1. j \in Keys /\ Store([obj EXCEPT ![j] = Deleted(@)])
      BY <1>4, Names DEF GarbageCollect
    <2> QED
      BY <1>4, <2>1, TypeDeleteOne DEF Change, IsDeleted
  <1>5. ASSUME DeleteRequested PROVE \A k \in Keys : Change(k)
    <2>1. "cluster" \in Keys /\ Store([obj EXCEPT !["cluster"] = Deleted(@)])
      BY <1>5, Names DEF DeleteRequested
    <2> QED
      BY <1>5, <2>1, TypeDeleteOne DEF Change, IsDeleted
  <1>6. ASSUME EditSpec PROVE \A k \in Keys : Change(k)
    BY <1>6, EditStored DEF Change, Rewritten
  <1>7. ASSUME WatchCapi \/ CapiGone \/ Crash \/ \E kind \in Kinds : Watch(kind)
        PROVE  obj' = obj
    BY <1>7 DEF WatchCapi, CapiGone, Crash, Watch
  <1> QED
    BY <1>3, <1>4, <1>5, <1>6, <1>7 DEF Next, Change

\* What an object that exists before and after a step keeps.
LEMMA Lives ==
    ASSUME TypeInv, NEW k \in Keys, Change(k), obj[k].exists, obj'[k].exists
    PROVE  /\ ~(k = "cluster" /\ EditSpec) => obj'[k].spec = obj[k].spec
           /\ obj[k].deleting => obj'[k].deleting /\ obj'[k].fin \subseteq obj[k].fin
  <1>1. Stored(k, obj[k])
    BY DEF TypeInv
  <1>2. CASE Patched(k)
    <2>1. PICK w \in Workers :
            /\ Subject(w) = k
            /\ obj'[k] \in {obj[k], SpecPatch(obj[k], diff[w]), StatusPatch(obj[k], diff[w]),
                            StatusPatch(SpecPatch(obj[k], diff[w]), diff[w])}
      BY <1>2 DEF Patched
    <2>2. diff[w] \in Diffs /\ \A l \in diff[w].fin : l \subseteq Finalizers(k)
      BY <2>1 DEF TypeInv, TypeOK
    <2> QED
      BY <1>1, <2>1, <2>2, SpecPatchStored, StatusPatchStored
  <1>3. CASE IsDeleted(k)
    BY <1>1, <1>3, DeletedStored DEF IsDeleted
  <1> QED
    BY <1>2, <1>3 DEF Change, Appears, Rewritten

\* An object with a finalizer goes away only in the deferred patch of a pass
\* that leaves none.
LEMMA Vanishes ==
    ASSUME TypeInv, NEW k \in Keys, Change(k), obj[k].exists, obj[k].fin # {}, ~obj'[k].exists
    PROVE  \E w \in Workers : /\ Subject(w) = k /\ Patch(w)
                              /\ {} \in diff[w].fin /\ obj[k].deleting
  <1>1. Stored(k, obj[k])
    BY DEF TypeInv
  <1>2. Patched(k)
    <2>1. ~IsDeleted(k)
      BY <1>1, DeletedStored DEF IsDeleted
    <2>2. ~Rewritten(k)
      BY DEF Rewritten
    <2> QED
      BY <2>1, <2>2 DEF Change, Appears
  <1>3. PICK w \in Workers :
          /\ Subject(w) = k /\ Patch(w)
          /\ obj'[k] \in {obj[k], SpecPatch(obj[k], diff[w]), StatusPatch(obj[k], diff[w]),
                          StatusPatch(SpecPatch(obj[k], diff[w]), diff[w])}
    BY <1>2 DEF Patched
  <1>4. diff[w] \in Diffs /\ \A l \in diff[w].fin : l \subseteq Finalizers(k)
    BY <1>3 DEF TypeInv, TypeOK
  <1>5. /\ Stored(k, SpecPatch(obj[k], diff[w]))
        /\ ~SpecPatch(obj[k], diff[w]).exists => obj[k].deleting /\ {} \in diff[w].fin
    BY <1>1, <1>4, SpecPatchStored
  <1>6. StatusPatch(obj[k], diff[w]).exists
    BY <1>1, <1>4, StatusPatchStored
  <1>7. StatusPatch(SpecPatch(obj[k], diff[w]), diff[w]).exists = SpecPatch(obj[k], diff[w]).exists
    BY <1>4, <1>5, StatusPatchStored
  <1>8. ~SpecPatch(obj[k], diff[w]).exists
    BY <1>3, <1>6, <1>7
  <1> QED
    BY <1>3, <1>5, <1>8

\* An object that was not there has been created.
LEMMA Born ==
    ASSUME TypeInv, NEW k \in Keys, Change(k), ~obj[k].exists, obj'[k].exists
    PROVE  Appears(k)
  <1>1. Stored(k, obj[k])
    BY DEF TypeInv
  <1>2. ~Patched(k)
    <2> SUFFICES ASSUME NEW w \in Workers, Subject(w) = k,
                        obj'[k] \in {obj[k], SpecPatch(obj[k], diff[w]), StatusPatch(obj[k], diff[w]),
                                     StatusPatch(SpecPatch(obj[k], diff[w]), diff[w])}
                 PROVE  FALSE
      BY DEF Patched
    <2>1. diff[w] \in Diffs /\ \A l \in diff[w].fin : l \subseteq Finalizers(k)
      BY DEF TypeInv, TypeOK
    <2>2. SpecPatch(obj[k], diff[w]) = obj[k] /\ StatusPatch(obj[k], diff[w]) = obj[k]
      BY DEF SpecPatch, StatusPatch, Rejected
    <2> QED
      BY <2>2
  <1>3. ~IsDeleted(k)
    BY DEF IsDeleted, Deleted
  <1> QED
    BY <1>2, <1>3 DEF Change, Rewritten

\* An object that begins to be deleted was asked to.
LEMMA Dooms ==
    ASSUME TypeInv, NEW k \in Keys, Change(k), ~obj[k].deleting, obj'[k].deleting
    PROVE  IsDeleted(k)
  <1>1. Stored(k, obj[k])
    BY DEF TypeInv
  <1>2. ~Patched(k)
    <2> SUFFICES ASSUME NEW w \in Workers, Subject(w) = k,
                        obj'[k] \in {obj[k], SpecPatch(obj[k], diff[w]), StatusPatch(obj[k], diff[w]),
                                     StatusPatch(SpecPatch(obj[k], diff[w]), diff[w])}
                 PROVE  FALSE
      BY DEF Patched
    <2>1. diff[w] \in Diffs /\ \A l \in diff[w].fin : l \subseteq Finalizers(k)
      BY DEF TypeInv, TypeOK
    <2>2. /\ Stored(k, SpecPatch(obj[k], diff[w])) /\ ~SpecPatch(obj[k], diff[w]).deleting
          /\ ~StatusPatch(obj[k], diff[w]).deleting
      BY <1>1, <2>1, SpecPatchStored, StatusPatchStored DEF Stored
    <2>3. ~StatusPatch(SpecPatch(obj[k], diff[w]), diff[w]).deleting
      BY <2>1, <2>2, StatusPatchStored
    <2> QED
      BY <2>2, <2>3
  <1>3. ~Appears(k)
    <2>1. ~Created({}).deleting /\ \A f \in Domains : ~Created({f}).deleting
      BY CreatedStored
    <2> QED
      BY <2>1 DEF Appears
  <1> QED
    BY <1>2, <1>3 DEF Change, Rewritten

(***************************************************************************)
(* Orphans, and what the passes leave alone.                               *)
(***************************************************************************)
LEMMA StoreNext ==
    ASSUME Next
    PROVE  UNCHANGED <<obj, orphans>> \/ \E o : Store(o)
  <1>1. ASSUME NEW w \in Workers, Pass(w) PROVE UNCHANGED <<obj, orphans>> \/ \E o : Store(o)
    <2>1. Patch(w) => \E o : Store(o)
      BY DEF Patch
    <2>2. CreateFailureDomains => \E o : Store(o)
      BY DEF CreateFailureDomains
    <2>3. RemoveAndVerify => \E o : Store(o)
      BY DEF RemoveAndVerify, Deletes, DeletesSome
    <2>4. DeleteFailureDomains => UNCHANGED <<obj, orphans>> \/ \E o : Store(o)
      BY DEF DeleteFailureDomains, Deletes, DeletesSome
    <2>5. CksStep => UNCHANGED <<obj, orphans>>
      BY DEF CksStep, GetOrCreateCksCluster, DeleteCksCluster
    <2>6. DomainStep(w) => UNCHANGED <<obj, orphans>> \/ \E o : Store(o)
      BY DEF DomainStep, ReconcileDomain, GenerateIsolatedNetwork, DeleteOwnedObjects, Deletes,
             CheckOwnedObjectsDeleted
    <2>7. NetStep(w) => UNCHANGED <<obj, orphans>> \/ \E o : Store(o)
      BY DEF NetStep, ProvisionNetwork, DisposeNetwork
    <2> QED
      BY <1>1, <2>1, <2>2, <2>3, <2>4, <2>5, <2>6, <2>7 DEF Pass, ClusterStep
  <1>2. (WatchCapi \/ CapiGone \/ Crash \/ \E kind \in Kinds : Watch(kind)) => UNCHANGED <<obj, orphans>>
    BY DEF WatchCapi, CapiGone, Crash, Watch
  <1>3. (DeleteRequested \/ EditSpec \/ \E k \in Domains \cup Nets : GarbageCollect(k)) => \E o : Store(o)
    BY DEF DeleteRequested, EditSpec, GarbageCollect
  <1> QED
    BY <1>1, <1>2, <1>3 DEF Next

LEMMA OrphansNext ==
    ASSUME Next, NEW k \in Keys
    PROVE  /\ k \in orphans /\ obj[k].exists /\ obj'[k].exists => k \in orphans'
           /\ k \in orphans' => \/ k \in orphans
                                \/ \E p \in Owners(k, obj'[k]) : ~obj'[p].exists
  <1>1. CASE UNCHANGED <<obj, orphans>>
    BY <1>1
  <1>2. CASE \E o : Store(o)
    BY <1>2 DEF Store
  <1> QED
    BY <1>1, <1>2, StoreNext

LEMMA EndsOthers ==
    ASSUME TypeInv, NEW w \in Workers, NEW b, NEW a, NEW again, Ends(w, b, a, again)
    PROVE  \A v \in Workers \ {w} : pc'[v] = pc[v] /\ diff'[v] = diff[v]
  BY TypeNow DEF Ends

\* A pass leaves the passes of other workers alone.
LEMMA PassOthers ==
    ASSUME TypeInv, NEW w \in Workers, Pass(w)
    PROVE  \A v \in Workers \ {w} : pc'[v] = pc[v] /\ diff'[v] = diff[v]
  <1> DEFINE Alone == \A v \in Workers \ {w} : pc'[v] = pc[v] /\ diff'[v] = diff[v]
  <1>1. CASE Patch(w)
    BY <1>1, TypePatch
  <1>2. CASE \E b, a, again : Ends(w, b, a, again)
    BY <1>2, EndsOthers
  <1>3. CASE diff' = diff /\ \E q : pc' = [pc EXCEPT ![w] = q]
    BY <1>3, TypeNow
  <1>4. \/ Patch(w)
        \/ \E b, a, again : Ends(w, b, a, again)
        \/ diff' = diff /\ \E q : pc' = [pc EXCEPT ![w] = q]
    <2> HIDE DEF Alone
    <2>1. w = "C" /\ CreateFailureDomains => \/ \E b, a, again : Ends(w, b, a, again)
                                             \/ diff' = diff /\ \E q : pc' = [pc EXCEPT ![w] = q]
      BY DEF CreateFailureDomains
    <2>2. w = "C" /\ (RemoveAndVerify \/ DeleteFailureDomains) => \E b, a, again : Ends(w, b, a, again)
      BY DEF RemoveAndVerify, VerifyFailureDomainCRDs, DeleteFailureDomains
    <2>3. w = "K" /\ CksStep => \E b, a, again : Ends(w, b, a, again)
      BY DEF CksStep, GetOrCreateCksCluster, DeleteCksCluster
    <2>4. DomainStep(w) => \/ \E b, a, again : Ends(w, b, a, again)
                           \/ diff' = diff /\ \E q : pc' = [pc EXCEPT ![w] = q]
      BY DEF DomainStep, ReconcileDomain, DeleteOwnedObjects, CheckOwnedObjectsDeleted
    <2>5. NetStep(w) => \E b, a, again : Ends(w, b, a, again)
      BY DEF NetStep, ProvisionNetwork, DisposeNetwork, DisposalFailed
    <2> QED
      BY <2>1, <2>2, <2>3, <2>4, <2>5 DEF Pass, ClusterStep
  <1> QED
    BY <1>1, <1>2, <1>3, <1>4

\* Everyone else leaves all passes alone, or ends them.
LEMMA OthersDiff ==
    ASSUME TypeInv, Next, NEW v \in Workers, diff'[v] # diff[v]
    PROVE  Pass(v) \/ diff'[v] = Nothing
  <1>1. (WatchCapi \/ CapiGone \/ DeleteRequested \/ EditSpec \/ (\E kind \in Kinds : Watch(kind))
           \/ (\E k \in Domains \cup Nets : GarbageCollect(k))) => diff' = diff
    BY DEF WatchCapi, CapiGone, DeleteRequested, EditSpec, Watch, GarbageCollect
  <1>2. Crash => diff'[v] = Nothing
    BY DEF Crash
  <1> QED
    BY <1>1, <1>2, PassOthers DEF Next

\* The caches change with events and restarts only.
LEMMA SeenNext ==
    ASSUME TypeInv, Next
    PROVE  /\ \/ seen' = seen
              \/ Crash /\ seen' = obj
              \/ \E kind \in Kinds : /\ Watch(kind)
                                     /\ \A k \in Keys : seen'[k] = IF k \in kind THEN obj[k] ELSE seen[k]
           /\ (\E w \in Workers : Pass(w)) => seen' = seen
           /\ seen' # seen => obj' = obj /\ orphans' = orphans
  <1>1. ASSUME NEW w \in Workers, Pass(w) PROVE seen' = seen
    BY <1>1 DEF Pass, Patch, ClusterStep, CreateFailureDomains, RemoveAndVerify,
       DeleteFailureDomains, CksStep, GetOrCreateCksCluster, DeleteCksCluster, DomainStep,
       ReconcileDomain, DeleteOwnedObjects, CheckOwnedObjectsDeleted, NetStep, ProvisionNetwork,
       DisposeNetwork, caches
  <1>2. (WatchCapi \/ CapiGone \/ DeleteRequested \/ EditSpec
           \/ (\E k \in Domains \cup Nets : GarbageCollect(k))) => seen' = seen
    BY DEF WatchCapi, CapiGone, DeleteRequested, EditSpec, GarbageCollect, caches
  <1>3. \A kind \in Kinds : Watch(kind) =>
          /\ \A k \in Keys : seen'[k] = IF k \in kind THEN obj[k] ELSE seen[k]
          /\ obj' = obj /\ orphans' = orphans
    BY DEF Watch
  <1>4. Crash => seen' = obj /\ obj' = obj /\ orphans' = orphans
    BY DEF Crash
  <1> QED
    BY <1>1, <1>2, <1>3, <1>4 DEF Next

(***************************************************************************)
(* Failure domains and the networks they own.                              *)
(***************************************************************************)

\* Only the failure domain itself adds to the networks it owns.
LEMMA OwnedShrinks ==
    ASSUME TypeInv, Next, NEW f \in Domains, ~ReconcileDomain(f)
    PROVE  OwnedBy(f)' \subseteq OwnedBy(f)
  <1> SUFFICES ASSUME NEW n \in Nets, obj'[n].exists, n \notin orphans', f \in obj'[n].spec
               PROVE  obj[n].exists /\ n \notin orphans /\ f \in obj[n].spec
    BY DEF OwnedBy
  <1>1. n \in Keys /\ Change(n) /\ n # "cluster" /\ n \notin Domains
    BY Names, ChangeNext
  <1>2. obj[n].exists
    <2> SUFFICES ASSUME ~obj[n].exists PROVE FALSE
      OBVIOUS
    <2>1. Appears(n)
      BY <1>1, Born
    <2>2. PICK g \in Domains : ReconcileDomain(g) /\ obj'[n] = Created({g})
      BY <1>1, <2>1 DEF Appears
    <2>3. obj'[n].spec = {g}
      BY <2>2, CreatedStored
    <2> QED
      BY <2>2, <2>3
  <1> QED
    BY <1>1, <1>2, Lives, OrphansNext

\* A pass that takes off the last finalizer of a failure domain leaves none of
\* its networks behind; and one that works on an old copy which was being
\* deleted, of a failure domain that came back meanwhile, finds none.
OwnedInv ==
    /\ TypeInv
    /\ \A f \in Domains : {} \in diff[f].fin => OwnedBy(f) = {}
    /\ \A f \in Domains : seen[f].deleting => obj[f].deleting \/ OwnedBy(f) = {}

LEMMA DomainPass ==
    ASSUME TypeInv, NEW f \in Domains, Pass(f)
    PROVE  Patch(f) \/ DomainStep(f)
  BY Names DEF Pass

LEMMA OwnedNext == OwnedInv /\ [Next]_vars => OwnedInv'
  <1> SUFFICES ASSUME OwnedInv, Next PROVE OwnedInv'
    <2>1. OwnedInv /\ UNCHANGED vars => OwnedInv'
      <3> SUFFICES ASSUME OwnedInv, UNCHANGED vars PROVE OwnedInv'
        OBVIOUS
      <3>1. TypeInv'
        BY TypeNext DEF OwnedInv
      <3> QED
        BY <3>1 DEF OwnedInv, OwnedBy, vars, caches
    <2> QED
      BY <2>1
  <1>1. TypeInv /\ TypeInv'
    BY TypeNext DEF OwnedInv
  <1>2. ASSUME NEW f \in Domains, {} \in diff'[f].fin PROVE OwnedBy(f)' = {}
    <2>1. f \in Workers /\ f \in Keys
      BY Names
    <2>2. CASE ReconcileDomain(f)
      <3>1. PICK a \in Object, again \in BOOLEAN : a.fin = {f} /\ Ends(f, seen[f], a, again)
        BY <1>1, <2>2, ReconcileDomainEnds
      <3>2. seen[f] \in Object /\ a.fin \subseteq Finalizers(Subject(f))
        BY <1>1, <2>1, <3>1, TypeNow, Names
      <3>3. diff'[f] = Diff(seen[f], a)
        BY <1>1, <2>1, <3>1, <3>2, EndsType
      <3> QED
        BY <1>2, <3>1, <3>2, <3>3, DiffType
    <2>3. CASE ~ReconcileDomain(f)
      <3>1. OwnedBy(f)' \subseteq OwnedBy(f)
        BY <1>1, <2>3, OwnedShrinks
      <3>2. CASE diff'[f] = diff[f]
        BY <1>2, <3>1, <3>2 DEF OwnedInv
      <3>3. CASE diff'[f] # diff[f]
        <4>1. Pass(f)
          BY <1>1, <1>2, <2>1, <3>3, OthersDiff, NothingType
        <4>2. ~Patch(f)
          BY <1>1, <1>2, <2>1, TypePatch, NothingType
        <4>3. ~DeleteOwnedObjects(f)
          BY <3>3 DEF DeleteOwnedObjects
        <4>4. CheckOwnedObjectsDeleted(f)
          BY <1>1, <2>3, <4>1, <4>2, <4>3, DomainPass DEF DomainStep
        <4>5. OwnedBy(f) = {}
          BY <1>1, <1>2, <4>4, CheckOwnedEnds
        <4> QED
          BY <3>1, <4>5
      <3> QED
        BY <3>2, <3>3
    <2> QED
      BY <2>2, <2>3
  <1>3. ASSUME NEW f \in Domains, seen'[f].deleting PROVE obj'[f].deleting \/ OwnedBy(f)' = {}
    <2>1. f \in Keys
      BY Names
    <2>2. CASE seen'[f] # seen[f]
      <3>1. seen'[f] = obj[f] /\ obj' = obj
        BY <1>1, <2>1, <2>2, SeenNext
      <3> QED
        BY <1>3, <3>1
    <2>3. CASE seen'[f] = seen[f]
      <3>1. obj[f].deleting \/ OwnedBy(f) = {}
        BY <1>3, <2>3 DEF OwnedInv
      <3>2. ~ReconcileDomain(f)
        BY <1>1, <1>3, <2>3, Names DEF ReconcileDomain, Starts
      <3>3. OwnedBy(f)' \subseteq OwnedBy(f)
        BY <1>1, <3>2, OwnedShrinks
      <3>4. CASE OwnedBy(f) = {}
        BY <3>3, <3>4
      <3>5. CASE obj[f].deleting
        <4>1. obj[f].exists /\ obj[f].fin # {} /\ Change(f)
          BY <1>1, <2>1, <3>5, ChangeNext DEF TypeInv, Stored
        <4>2. CASE obj'[f].exists
          BY <1>1, <2>1, <3>5, <4>1, <4>2, Lives
        <4>3. CASE ~obj'[f].exists
          <5>1. PICK w \in Workers : Subject(w) = f /\ {} \in diff[w].fin
            BY <1>1, <2>1, <4>1, <4>3, Vanishes
          <5>2. w = f
            BY <5>1, Names DEF Subject
          <5> QED
            BY <3>3, <5>1, <5>2 DEF OwnedInv
        <4> QED
          BY <4>2, <4>3
      <3> QED
        BY <3>1, <3>4, <3>5
    <2> QED
      BY <2>2, <2>3
  <1> QED
    BY <1>1, <1>2, <1>3 DEF OwnedInv

LEMMA OwnedInit == Init => OwnedInv
  <1> SUFFICES ASSUME Init PROVE OwnedInv
    OBVIOUS
  <1>1. \A f \in Domains : diff[f] = Nothing /\ seen[f] = Absent
    BY Names DEF Init
  <1> QED
    BY <1>1, TypeInit, NothingType DEF OwnedInv, Absent

\* DeleteOwnedObjects and CheckOwnedObjectsDeleted: a failure domain with its
\* finalizer goes away only after the isolated networks it owns, whatever
\* happens between the check and the deferred patch.
THEOREM DomainsOutliveNetworks == Spec => DomainOutlivesNetworks
  <1>1. OwnedInv /\ [Next]_vars =>
          [\A f \in Domains : f \in obj[f].fin /\ ~obj'[f].exists => OwnedBy(f) = {}]_vars
    <2> SUFFICES ASSUME OwnedInv, Next, NEW f \in Domains, f \in obj[f].fin, ~obj'[f].exists
                 PROVE  OwnedBy(f) = {}
      OBVIOUS
    <2>1. TypeInv /\ f \in Keys
      BY Names DEF OwnedInv
    <2>2. obj[f].exists /\ Change(f)
      BY <2>1, ChangeNext DEF TypeInv, Stored
    <2>3. PICK w \in Workers : Subject(w) = f /\ {} \in diff[w].fin
      BY <2>1, <2>2, Vanishes
    <2>4. w = f
      BY <2>3, Names DEF Subject
    <2> QED
      BY <2>3, <2>4 DEF OwnedInv
  <1> QED
    BY <1>1, OwnedInit, OwnedNext, PTL DEF Spec, DomainOutlivesNetworks

\* Failure domains that name the same network: its object begins to be deleted
\* only when its owner is being deleted or is gone, although the passes of
\* failure domains work on copies that may be older than their objects.
THEOREM SharedNetworksKept == Spec => SharedNetworkKept
  <1>1. OwnedInv /\ [Next]_vars =>
          [\A n \in Nets : ~obj[n].deleting /\ obj'[n].deleting
              => n \in orphans \/ \E f \in obj[n].spec : obj[f].deleting]_vars
    <2> SUFFICES ASSUME OwnedInv, Next, NEW n \in Nets, ~obj[n].deleting, obj'[n].deleting
                 PROVE  n \in orphans \/ \E f \in obj[n].spec : obj[f].deleting
      OBVIOUS
    <2>1. TypeInv /\ n \in Keys /\ n \notin Domains /\ n # "cluster"
      BY Names DEF OwnedInv
    <2>2. IsDeleted(n)
      BY <2>1, ChangeNext, Dooms
    <2>3. CASE GarbageCollect(n)
      BY <2>3 DEF GarbageCollect
    <2>4. CASE \E f \in Domains : DeleteOwnedObjects(f) /\ n \in OwnedBy(f)
      <3>1. PICK f \in Domains : DeleteOwnedObjects(f) /\ n \in OwnedBy(f)
        BY <2>4
      <3>2. seen[f].deleting
        BY <3>1, Names DEF DeleteOwnedObjects, Starts
      <3> QED
        BY <3>1, <3>2 DEF OwnedInv, OwnedBy
    <2> QED
      BY <2>1, <2>2, <2>3, <2>4 DEF IsDeleted
  <1> QED
    BY <1>1, OwnedInit, OwnedNext, PTL DEF Spec, SharedNetworkKept

(***************************************************************************)
(* Networks are released in CloudStack before their objects go.            *)
(***************************************************************************)

\* The cluster is not created again.
LEMMA ClusterEnds ==
    ASSUME TypeInv, Next, obj'["cluster"].exists
    PROVE  obj["cluster"].exists
  <1> SUFFICES ASSUME ~obj["cluster"].exists PROVE FALSE
    OBVIOUS
  <1>1. Appears("cluster")
    BY ChangeNext, Born, Names
  <1> QED
    BY <1>1, Names DEF Appears

\* A network is tagged by the controller of its own object only.
LEMMA TaggedBy ==
    ASSUME TypeInv, Next, NEW n \in Nets, net'[n] = "tagged", net[n] # "tagged"
    PROVE  ProvisionNetwork(n)
  <1>1. ASSUME NEW w \in Workers, Pass(w) PROVE ProvisionNetwork(n)
    <2>1. ~Patch(w)
      BY DEF Patch, cloud
    <2>2. ~ClusterStep
      BY DEF ClusterStep, CreateFailureDomains, RemoveAndVerify, DeleteFailureDomains, cloud
    <2>3. ~CksStep
      BY DEF CksStep, GetOrCreateCksCluster, DeleteCksCluster
    <2>4. ~DomainStep(w)
      BY DEF DomainStep, ReconcileDomain, DeleteOwnedObjects, CheckOwnedObjectsDeleted, cloud
    <2>5. ASSUME w \in Nets PROVE ~DisposeNetwork(w)
      <3>1. net' = net \/ net' = [net EXCEPT ![w] = "gone"] \/ ~DisposeNetwork(w)
        BY DEF DisposeNetwork
      <3> QED
        BY <2>5, <3>1, TypeNow
    <2>6. w \in Nets /\ ProvisionNetwork(w)
      BY <1>1, <2>1, <2>2, <2>3, <2>4, <2>5 DEF Pass, NetStep
    <2>7. net' = net \/ net' = [net EXCEPT ![w] = "tagged"]
      BY <2>6 DEF ProvisionNetwork
    <2>8. w = n
      BY <2>6, <2>7, TypeNow
    <2> QED
      BY <2>6, <2>8
  <1>2. ~(\E kind \in Kinds : Watch(kind)) /\ ~WatchCapi /\ ~CapiGone /\ ~DeleteRequested
    BY DEF Watch, WatchCapi, CapiGone, DeleteRequested, cloud
  <1>3. ~(\E k \in Domains \cup Nets : GarbageCollect(k)) /\ ~EditSpec /\ ~Crash
    BY DEF GarbageCollect, EditSpec, Crash, cloud
  <1> QED
    BY <1>1, <1>2, <1>3 DEF Next

\* A pass that takes off the last finalizer of a network object has released
\* the network, and finds the cluster as long as there is one.
ReleaseInv ==
    /\ TypeInv
    /\ obj["cluster"].exists => seen["cluster"].exists
    /\ \A n \in Nets : {} \in diff[n].fin /\ obj["cluster"].exists => net[n] # "tagged"

LEMMA ReleaseNext == ReleaseInv /\ [Next]_vars => ReleaseInv'
  <1> SUFFICES ASSUME ReleaseInv, Next PROVE ReleaseInv'
    <2>1. ReleaseInv /\ UNCHANGED vars => ReleaseInv'
      <3> SUFFICES ASSUME ReleaseInv, UNCHANGED vars PROVE ReleaseInv'
        OBVIOUS
      <3>1. TypeInv'
        BY TypeNext DEF ReleaseInv
      <3> QED
        BY <3>1 DEF ReleaseInv, vars, caches, cloud
    <2> QED
      BY <2>1
  <1>1. TypeInv /\ TypeInv'
    BY TypeNext DEF ReleaseInv
  <1>2. obj'["cluster"].exists => obj["cluster"].exists
    BY <1>1, ClusterEnds
  <1>3. obj'["cluster"].exists => seen'["cluster"].exists
    <2>1. seen'["cluster"] = seen["cluster"] \/ seen'["cluster"] = obj["cluster"]
      BY <1>1, SeenNext, Names
    <2> QED
      BY <1>2, <2>1 DEF ReleaseInv
  <1>4. ASSUME NEW n \in Nets, {} \in diff'[n].fin, obj'["cluster"].exists PROVE net'[n] # "tagged"
    <2>1. n \in Workers /\ n \in Keys /\ Subject(n) = n /\ Finalizers(n) = {n} /\ n \notin Domains
          /\ n \notin {"C", "K"}
      BY Names
    <2>2. ~ProvisionNetwork(n)
      <3> SUFFICES ASSUME ProvisionNetwork(n) PROVE FALSE
        OBVIOUS
      <3>1. PICK a \in Object, again \in BOOLEAN : a.fin = {n} /\ Ends(n, seen[n], a, again)
        BY <1>1, TypeProvision
      <3>2. seen[n] \in Object /\ a.fin \subseteq Finalizers(Subject(n))
        BY <1>1, <2>1, <3>1, TypeNow
      <3>3. diff'[n] = Diff(seen[n], a)
        BY <1>1, <2>1, <3>1, <3>2, EndsType
      <3> QED
        BY <1>4, <3>1, <3>2, <3>3, DiffType
    <2>3. net'[n] = "tagged" => net[n] = "tagged"
      BY <1>1, <2>2, TaggedBy
    <2>4. CASE diff'[n] = diff[n]
      BY <1>2, <1>4, <2>3, <2>4 DEF ReleaseInv
    <2>5. CASE diff'[n] # diff[n]
      <3>1. Pass(n)
        BY <1>1, <1>4, <2>1, <2>5, OthersDiff, NothingType
      <3>2. ~Patch(n)
        BY <1>1, <1>4, <2>1, TypePatch, NothingType
      <3>3. DisposeNetwork(n)
        BY <2>1, <2>2, <3>1, <3>2 DEF Pass, NetStep
      <3>4. net' = IF net[n] = "tagged" /\ seen["cluster"].exists THEN [net EXCEPT ![n] = "gone"] ELSE net
        BY <1>1, <1>4, <3>3, TypeDispose
      <3>5. seen["cluster"].exists
        BY <1>2, <1>4 DEF ReleaseInv
      <3> QED
        BY <1>1, <3>4, <3>5, TypeNow
    <2> QED
      BY <2>4, <2>5
  <1> QED
    BY <1>1, <1>3, <1>4 DEF ReleaseInv

LEMMA ReleaseInit == Init => ReleaseInv
  <1> SUFFICES ASSUME Init PROVE ReleaseInv
    OBVIOUS
  <1>1. \A n \in Nets : diff[n] = Nothing
    BY Names DEF Init
  <1>2. seen = obj
    BY DEF Init
  <1> QED
    BY <1>1, <1>2, TypeInit, NothingType DEF ReleaseInv

\* DisposeIsoNetResources: an isolated network object with its finalizer goes
\* away only after its network was released in CloudStack, as long as the
\* cluster is there, whatever is provisioned between the disposal and the
\* deferred patch.
THEOREM NetworksReleased == Spec => NetworksDisposed
  <1>1. ReleaseInv /\ [Next]_vars =>
          [\A n \in Nets : n \in obj[n].fin /\ ~obj'[n].exists /\ obj["cluster"].exists
                             => net[n] # "tagged"]_vars
    <2> SUFFICES ASSUME ReleaseInv, Next, NEW n \in Nets, n \in obj[n].fin, ~obj'[n].exists,
                        obj["cluster"].exists
                 PROVE  net[n] # "tagged"
      OBVIOUS
    <2>1. TypeInv /\ n \in Keys
      BY Names DEF ReleaseInv
    <2>2. obj[n].exists /\ Change(n)
      BY <2>1, ChangeNext DEF TypeInv, Stored
    <2>3. PICK w \in Workers : Subject(w) = n /\ {} \in diff[w].fin
      BY <2>1, <2>2, Vanishes
    <2>4. w = n
      BY <2>3, Names DEF Subject
    <2> QED
      BY <2>3, <2>4 DEF ReleaseInv
  <1> QED
    BY <1>1, ReleaseInit, ReleaseNext, PTL DEF Spec, NetworksDisposed

(***************************************************************************)
(* The cluster outlives its failure domains, as long as one of those it    *)
(* was created with stays in its spec.                                     *)
(***************************************************************************)

\* An object that is not being deleted goes, or begins to go, only when asked.
LEMMA Fells ==
    ASSUME TypeInv, NEW k \in Keys, Change(k), obj[k].exists, ~obj[k].deleting,
           obj'[k].deleting \/ ~obj'[k].exists
    PROVE  IsDeleted(k)
  <1>1. CASE obj'[k].deleting
    BY <1>1, Dooms
  <1>2. CASE ~obj'[k].exists
    <2>1. Stored(k, obj[k])
      BY DEF TypeInv
    <2>2. ~Patched(k)
      <3> SUFFICES ASSUME NEW w \in Workers, Subject(w) = k,
                          obj'[k] \in {obj[k], SpecPatch(obj[k], diff[w]), StatusPatch(obj[k], diff[w]),
                                       StatusPatch(SpecPatch(obj[k], diff[w]), diff[w])}
                   PROVE  FALSE
        BY DEF Patched
      <3>1. diff[w] \in Diffs /\ \A l \in diff[w].fin : l \subseteq Finalizers(k)
        BY DEF TypeInv, TypeOK
      <3>2. /\ Stored(k, SpecPatch(obj[k], diff[w])) /\ SpecPatch(obj[k], diff[w]).exists
            /\ StatusPatch(obj[k], diff[w]).exists
        BY <2>1, <3>1, SpecPatchStored, StatusPatchStored
      <3>3. StatusPatch(SpecPatch(obj[k], diff[w]), diff[w]).exists
        BY <3>1, <3>2, StatusPatchStored
      <3> QED
        BY <1>2, <3>2, <3>3
    <2> QED
      BY <1>2, <2>2 DEF Change, Appears, Rewritten
  <1> QED
    BY <1>1, <1>2

\* A list of finalizers that a pass is about to write to the cluster.
OnWay(l) == \E w \in Workers : Subject(w) = "cluster" /\ l \in diff[w].fin

LEMMA ClusterWorker ==
    ASSUME NEW w \in Workers, Subject(w) = "cluster"
    PROVE  w \in {"C", "K"}
  BY Names DEF Subject, Workers

\* The finalizers of a cluster come from such a list, and none comes once the
\* cluster is being deleted.
LEMMA ClusterFin ==
    ASSUME TypeInv, Next
    PROVE  /\ \A x \in obj'["cluster"].fin : x \in obj["cluster"].fin \/ \E l : OnWay(l) /\ x \in l
           /\ obj["cluster"].deleting \/ ~obj["cluster"].exists
                => /\ obj'["cluster"].fin \subseteq obj["cluster"].fin
                   /\ obj'["cluster"].deleting \/ ~obj'["cluster"].exists
  <1> DEFINE k == "cluster"
  <1>1. TypeInv' /\ k \in Keys /\ Change(k) /\ Stored(k, obj[k])
    <2>1. TypeInv'
      BY TypeNext
    <2> QED
      BY <2>1, ChangeNext, Names DEF TypeInv
  <1>2. Stored(k, obj[k])'
    BY <1>1 DEF TypeInv
  <1>3. ASSUME NEW x \in obj'[k].fin PROVE x \in obj[k].fin \/ \E l : OnWay(l) /\ x \in l
    <2>1. CASE Patched(k)
      <3>1. PICK w \in Workers :
              /\ Subject(w) = k
              /\ obj'[k] \in {obj[k], SpecPatch(obj[k], diff[w]), StatusPatch(obj[k], diff[w]),
                              StatusPatch(SpecPatch(obj[k], diff[w]), diff[w])}
        BY <2>1 DEF Patched
      <3>2. diff[w] \in Diffs /\ \A l \in diff[w].fin : l \subseteq Finalizers(k)
        BY <3>1 DEF TypeInv, TypeOK
      <3>3. /\ Stored(k, SpecPatch(obj[k], diff[w]))
            /\ SpecPatch(obj[k], diff[w]).fin \subseteq obj[k].fin \cup UNION diff[w].fin
            /\ StatusPatch(obj[k], diff[w]).fin = obj[k].fin
        BY <1>1, <3>2, SpecPatchStored, StatusPatchStored
      <3>4. StatusPatch(SpecPatch(obj[k], diff[w]), diff[w]).fin = SpecPatch(obj[k], diff[w]).fin
        BY <3>2, <3>3, StatusPatchStored
      <3>5. x \in obj[k].fin \cup UNION diff[w].fin
        BY <1>3, <3>1, <3>3, <3>4
      <3> QED
        BY <3>1, <3>5 DEF OnWay
    <2>2. CASE IsDeleted(k)
      <3>1. obj'[k].exists
        BY <1>2, <1>3 DEF Stored
      <3> QED
        BY <1>1, <1>3, <2>2, <3>1, DeletedStored DEF IsDeleted
    <2>3. ~Appears(k)
      BY Names DEF Appears
    <2> QED
      BY <1>1, <1>3, <2>1, <2>2, <2>3 DEF Change, Rewritten
  <1>4. ASSUME obj[k].deleting \/ ~obj[k].exists
        PROVE  obj'[k].fin \subseteq obj[k].fin /\ (obj'[k].deleting \/ ~obj'[k].exists)
    <2>1. CASE ~obj'[k].exists
      BY <1>2, <2>1 DEF Stored
    <2>2. CASE obj'[k].exists
      <3>1. obj[k].exists
        BY <2>2, ClusterEnds
      <3> QED
        BY <1>1, <1>4, <2>2, <3>1, Lives
    <2> QED
      BY <2>1, <2>2
  <1> QED
    BY <1>3, <1>4

LEMMA RemoveEnds ==
    ASSUME TypeInv, RemoveAndVerify, NEW l \in diff'["C"].fin
    PROVE  DomainsReady /\ l = read.fin \cup {"C"}
  <1>1. read \in Object /\ read.fin \subseteq Finalizers(Subject("C")) /\ "C" \in Workers
    BY Names DEF TypeInv, Stored
  <1>2. \/ DomainsReady /\ Ends("C", read, SetReady, FALSE)
        \/ Ends("C", read, read, TRUE)
    BY DEF RemoveAndVerify, VerifyFailureDomainCRDs
  <1>3. ~Ends("C", read, read, TRUE)
    <2> SUFFICES ASSUME Ends("C", read, read, TRUE) PROVE FALSE
      OBVIOUS
    <2>1. diff'["C"] = Diff(read, read)
      BY <1>1, EndsType
    <2> QED
      BY <1>1, <2>1, DiffType
  <1>4. diff'["C"] = Diff(read, SetReady) /\ SetReady \in Object /\ SetReady.fin = read.fin \cup {"C"}
    BY <1>1, <1>2, <1>3, EndsType, SetReadyType, Names
  <1> QED
    BY <1>1, <1>2, <1>3, <1>4, DiffType

LEMMA DeleteEnds ==
    ASSUME TypeInv, DeleteFailureDomains, NEW l \in diff'["C"].fin
    PROVE  /\ Listed = {} /\ l = seen["cluster"].fin \ {"C"} /\ obj' = obj
           /\ seen["cluster"].deleting
  <1> DEFINE o == seen["cluster"]
             p == [o EXCEPT !.fin = @ \ {"C"}]
  <1>1. o \in Object /\ o.fin \subseteq Finalizers(Subject("C")) /\ "C" \in Workers
    BY Names DEF TypeInv, Stored
  <1>2. p \in Object /\ p.fin = o.fin \ {"C"} /\ p.fin \subseteq Finalizers(Subject("C"))
    BY <1>1 DEF Object
  <1>3. \/ Listed = {} /\ obj' = obj /\ Ends("C", o, p, FALSE)
        \/ Ends("C", o, o, TRUE)
    BY DEF DeleteFailureDomains
  <1>4. seen["cluster"].deleting
    BY Names DEF DeleteFailureDomains, Starts
  <1> HIDE DEF p
  <1>5. ~Ends("C", o, o, TRUE)
    <2> SUFFICES ASSUME Ends("C", o, o, TRUE) PROVE FALSE
      OBVIOUS
    <2>1. diff'["C"] = Diff(o, o)
      BY <1>1, EndsType
    <2> QED
      BY <1>1, <2>1, DiffType
  <1>6. diff'["C"] = Diff(o, p)
    BY <1>1, <1>2, <1>3, <1>5, EndsType
  <1> QED
    BY <1>1, <1>2, <1>3, <1>4, <1>5, <1>6, DiffType

LEMMA CksEnds ==
    ASSUME TypeInv, "K" \in Workers, CksStep, NEW l \in diff'["K"].fin
    PROVE  /\ obj' = obj
           /\ \/ l = seen["cluster"].fin \cup {"K"}
              \/ l = seen["cluster"].fin \ {"K"} /\ seen["cluster"].deleting
  <1> DEFINE o == seen["cluster"]
             g == [o EXCEPT !.fin = @ \cup {"K"}]
             e == WithCksEntry(g)
             p(s) == [o EXCEPT !.fin = @ \ {"K"}, !.status = s]
  <1>1. o \in Object /\ o.fin \subseteq Finalizers(Subject("K"))
    BY Names DEF TypeInv, Stored
  <1>2. g \in Object /\ g.fin = o.fin \cup {"K"} /\ g.fin \subseteq Finalizers(Subject("K"))
    BY <1>1, Names DEF Object
  <1>3. e \in Object /\ e.fin = o.fin \cup {"K"} /\ e.fin \subseteq Finalizers(Subject("K"))
    BY <1>2 DEF Object, WithCksEntry
  <1>4. \A s \in SUBSET o.status : /\ p(s) \in Object /\ p(s).fin = o.fin \ {"K"}
                                   /\ p(s).fin \subseteq Finalizers(Subject("K"))
    BY <1>1 DEF Object
  <1>5. obj' = obj /\ \/ Ends("K", o, e, FALSE) \/ Ends("K", o, g, TRUE)
                      \/ (\E s \in SUBSET o.status : Ends("K", o, p(s), FALSE)) /\ o.deleting
                      \/ Ends("K", o, o, TRUE)
    <2>1. DeleteCksCluster => /\ obj' = obj /\ o.deleting
                              /\ \/ Ends("K", o, p(o.status \ {"cks"}), FALSE)
                                 \/ Ends("K", o, p(o.status), FALSE) \/ Ends("K", o, o, TRUE)
      <3>1. [o EXCEPT !.fin = @ \ {"K"}] = p(o.status)
        BY <1>1 DEF Object
      <3> QED
        BY <3>1, Names DEF DeleteCksCluster, Starts
    <2> QED
      BY <2>1 DEF CksStep, GetOrCreateCksCluster
  <1> HIDE DEF g, e, p
  <1>6. CASE Ends("K", o, e, FALSE)
    <2>1. diff'["K"] = Diff(o, e)
      BY <1>1, <1>3, <1>6, EndsType
    <2> QED
      BY <1>1, <1>3, <1>5, <2>1, DiffType
  <1>7. CASE Ends("K", o, g, TRUE)
    <2>1. diff'["K"] = Diff(o, g)
      BY <1>1, <1>2, <1>7, EndsType
    <2> QED
      BY <1>1, <1>2, <1>5, <2>1, DiffType
  <1>8. CASE (\E s \in SUBSET o.status : Ends("K", o, p(s), FALSE)) /\ o.deleting
    <2>1. PICK s \in SUBSET o.status : Ends("K", o, p(s), FALSE)
      BY <1>8
    <2>2. diff'["K"] = Diff(o, p(s))
      BY <1>1, <1>4, <2>1, EndsType
    <2> QED
      BY <1>1, <1>4, <1>5, <1>8, <2>2, DiffType
  <1>9. CASE Ends("K", o, o, TRUE)
    <2>1. diff'["K"] = Diff(o, o)
      BY <1>1, <1>9, EndsType
    <2> QED
      BY <1>1, <2>1, DiffType
  <1> QED
    BY <1>5, <1>6, <1>7, <1>8, <1>9

\* Where the lists of finalizers come from.
LEMMA ListBorn ==
    ASSUME TypeInv, Next, NEW w \in Workers, Subject(w) = "cluster", NEW l \in diff'[w].fin
    PROVE  \/ l \in diff[w].fin
           \/ w = "C" /\ DomainsReady /\ pc["C"] = "verify" /\ l = read.fin \cup {"C"}
           \/ /\ w = "C" /\ Listed = {} /\ l = seen["cluster"].fin \ {"C"} /\ obj' = obj
              /\ seen["cluster"].deleting
           \/ w = "K" /\ l = seen["cluster"].fin \cup {"K"}
           \/ /\ w = "K" /\ l = seen["cluster"].fin \ {"K"} /\ obj' = obj
              /\ seen["cluster"].deleting
  <1> SUFFICES ASSUME l \notin diff[w].fin
               PROVE  \/ w = "C" /\ DomainsReady /\ pc["C"] = "verify" /\ l = read.fin \cup {"C"}
                      \/ /\ w = "C" /\ Listed = {} /\ l = seen["cluster"].fin \ {"C"} /\ obj' = obj
                         /\ seen["cluster"].deleting
                      \/ w = "K" /\ l = seen["cluster"].fin \cup {"K"}
                      \/ /\ w = "K" /\ l = seen["cluster"].fin \ {"K"} /\ obj' = obj
                         /\ seen["cluster"].deleting
    OBVIOUS
  <1>1. w \in {"C", "K"} /\ w \notin Domains /\ w \notin Nets
    BY ClusterWorker, Names
  <1>2. Pass(w) /\ ~Patch(w)
    BY OthersDiff, TypePatch, NothingType
  <1>3. CASE w = "C"
    <2>1. CreateFailureDomains \/ RemoveAndVerify \/ DeleteFailureDomains
      BY <1>1, <1>2, <1>3 DEF Pass, ClusterStep
    <2>2. CASE CreateFailureDomains
      <3>1. diff' # diff
        BY <1>3
      <3>2. Ends("C", seen["cluster"], seen["cluster"], TRUE)
        BY <2>2, <3>1 DEF CreateFailureDomains
      <3>3. seen["cluster"] \in Object /\ seen["cluster"].fin \subseteq Finalizers(Subject("C"))
        BY Names DEF TypeInv, Stored
      <3>4. diff'["C"] = Diff(seen["cluster"], seen["cluster"])
        <4>1. "C" \in Workers
          BY Names
        <4> QED
          BY <3>2, <3>3, <4>1, EndsType
      <3> QED
        BY <1>3, <3>3, <3>4, DiffType
    <2>3. CASE RemoveAndVerify
      BY <1>3, <2>3, RemoveEnds DEF RemoveAndVerify
    <2>4. CASE DeleteFailureDomains
      BY <1>3, <2>4, DeleteEnds
    <2> QED
      BY <2>1, <2>2, <2>3, <2>4
  <1>4. CASE w = "K"
    <2>1. CksStep
      BY <1>1, <1>2, <1>4 DEF Pass
    <2> QED
      BY <1>4, <2>1, CksEnds
  <1> QED
    BY <1>1, <1>3, <1>4

\* What the pass of "C" knows of the cluster is what the cache had.
LEMMA ReadNext ==
    ASSUME TypeInv, Next
    PROVE  /\ read' \in {read, Absent, seen["cluster"]}
           /\ pc'["C"] = "verify" => \/ pc["C"] = "verify" /\ read' = read
                                     \/ read' = seen["cluster"] /\ seen["cluster"].exists
  <1> DEFINE Done == pc'["C"] # "verify" /\ read' = Absent
             Same == pc'["C"] = pc["C"] /\ read' = read
             Begun == read' = seen["cluster"] /\ seen["cluster"].exists
  <1>1. "C" \in Workers
    BY Names
  <1>2. ASSUME NEW b, NEW a, NEW again, Ends("C", b, a, again) PROVE Done
    BY <1>1, <1>2, TypeNow DEF Ends
  <1>3. ASSUME NEW w \in Workers, w # "C", Pass(w) PROVE Same
    <2>1. pc'["C"] = pc["C"]
      BY <1>1, <1>3, PassOthers
    <2>2. ASSUME NEW b, NEW a, NEW again, Ends(w, b, a, again) PROVE read' = read
      BY <1>3, <2>2 DEF Ends
    <2>3. Patch(w) => read' = read
      BY DEF Patch
    <2>4. w = "K" /\ CksStep => read' = read
      BY <2>2 DEF CksStep, GetOrCreateCksCluster, DeleteCksCluster
    <2>5. DomainStep(w) => read' = read
      BY <2>2 DEF DomainStep, ReconcileDomain, DeleteOwnedObjects, CheckOwnedObjectsDeleted
    <2>6. NetStep(w) => read' = read
      BY <2>2 DEF NetStep, ProvisionNetwork, DisposeNetwork, DisposalFailed
    <2> QED
      BY <1>3, <2>1, <2>3, <2>4, <2>5, <2>6 DEF Pass
  <1>4. ASSUME Pass("C") PROVE Done \/ Begun \/ (pc'["C"] = "idle" /\ read' = read)
    <2>1. ClusterStep \/ Patch("C")
      BY <1>4, Names DEF Pass
    <2>2. Patch("C") => pc'["C"] = "idle" /\ read' = read
      BY <1>1, TypePatch
    <2>3. CreateFailureDomains => Done \/ Begun
      BY <1>2, Names DEF CreateFailureDomains, Starts
    <2>4. RemoveAndVerify => Done
      BY <1>2 DEF RemoveAndVerify, VerifyFailureDomainCRDs
    <2>5. DeleteFailureDomains => Done
      BY <1>2 DEF DeleteFailureDomains
    <2> QED
      BY <2>1, <2>2, <2>3, <2>4, <2>5 DEF ClusterStep
  <1>5. (WatchCapi \/ CapiGone \/ DeleteRequested \/ EditSpec \/ (\E kind \in Kinds : Watch(kind))
           \/ (\E k \in Domains \cup Nets : GarbageCollect(k))) => Same
    BY DEF WatchCapi, CapiGone, DeleteRequested, EditSpec, Watch, GarbageCollect
  <1>6. Crash => Done
    BY <1>1 DEF Crash
  <1>7. Done \/ Same \/ Begun \/ (pc'["C"] = "idle" /\ read' = read)
    <2> HIDE DEF Done, Same, Begun
    <2> QED
      BY <1>3, <1>4, <1>5, <1>6 DEF Next
  <1> QED
    BY <1>7

\* The cluster keeps f in its spec.
Keeps(f) == obj["cluster"].exists => f \in obj["cluster"].spec

\* The finalizer of "C" is on the cluster or on its way there.
Held ==
    \/ "C" \in obj["cluster"].fin \/ "C" \in seen["cluster"].fin \/ "C" \in read.fin
    \/ \E l : OnWay(l) /\ "C" \in l

\* While the cluster is not seen to be deleted, nobody deletes a failure domain
\* f that stays in its spec, and the finalizer is put on the cluster only once f
\* is in the cache: so the list of the pass that takes the finalizer off does
\* not miss f.
Watched(f) ==
    obj["cluster"].exists /\ ~seen["cluster"].deleting =>
      /\ ~obj[f].deleting
      /\ seen[f].exists => obj[f].exists
      /\ Held => seen[f].exists

\* From then on no failure domain is created, and none is missed once f is gone.
Closing(f) ==
    seen["cluster"].deleting =>
      /\ obj["cluster"].deleting \/ ~obj["cluster"].exists
      /\ obj["cluster"].fin \subseteq seen["cluster"].fin
      /\ "C" \in obj["cluster"].fin => \/ seen[f].exists
                                       \/ \A g \in Domains : obj[g].exists => seen[g].exists

\* The last finalizer comes off a cluster that is being deleted, and while "C"
\* holds it only if no failure domain is left.
Closed ==
    /\ OnWay({}) => obj["cluster"].deleting \/ ~obj["cluster"].exists
    /\ {} \in diff["C"].fin /\ "C" \in obj["cluster"].fin => \A g \in Domains : ~obj[g].exists
    /\ "K" \in Workers /\ {} \in diff["K"].fin => "C" \notin obj["cluster"].fin

Anchor(f) ==
    /\ TypeInv
    /\ seen["cluster"].exists => f \in seen["cluster"].spec
    /\ pc["C"] = "verify" => f \in read.spec
    /\ obj["cluster"].exists => \A g \in Domains : g \notin orphans
    /\ Watched(f) /\ Closing(f) /\ Closed

LEMMA AnchorSpec ==
    ASSUME NEW f \in Domains, Anchor(f), Keeps(f), Next
    PROVE  /\ seen'["cluster"].exists => f \in seen'["cluster"].spec
           /\ pc'["C"] = "verify" => f \in read'.spec
           /\ obj'["cluster"].exists => \A g \in Domains : g \notin orphans'
  <1>1. TypeInv
    BY DEF Anchor
  <1>2. seen'["cluster"] = seen["cluster"] \/ seen'["cluster"] = obj["cluster"]
    BY <1>1, SeenNext, Names
  <1>3. seen'["cluster"].exists => f \in seen'["cluster"].spec
    BY <1>2 DEF Anchor, Keeps
  <1>4. pc'["C"] = "verify" => f \in read'.spec
    BY <1>1, ReadNext DEF Anchor
  <1>5. ASSUME obj'["cluster"].exists, NEW g \in Domains PROVE g \notin orphans'
    <2>1. obj["cluster"].exists /\ g \in Keys /\ Owners(g, obj'[g]) = {"cluster"}
      BY <1>1, <1>5, ClusterEnds, Names DEF Owners
    <2> QED
      BY <1>5, <2>1, OrphansNext DEF Anchor
  <1> QED
    BY <1>3, <1>4, <1>5

\* Nobody asks for the deletion of f.
LEMMA AnchorKept ==
    ASSUME NEW f \in Domains, Anchor(f), Next, obj["cluster"].exists, ~seen["cluster"].deleting
    PROVE  ~IsDeleted(f)
  <1>1. ~DeleteFailureDomains
    BY Names DEF DeleteFailureDomains, Starts
  <1>2. RemoveAndVerify => f \in read.spec
    BY DEF RemoveAndVerify, Anchor
  <1>3. ~GarbageCollect(f)
    BY DEF GarbageCollect, Anchor
  <1>4. f \notin Nets /\ f # "cluster"
    BY Names
  <1> QED
    BY <1>1, <1>2, <1>3, <1>4 DEF IsDeleted

LEMMA AnchorHeld ==
    ASSUME NEW f \in Domains, Anchor(f), Next, ~Held, Held'
    PROVE  seen[f].exists
  <1>1. TypeInv
    BY DEF Anchor
  <1>2. "C" \notin obj'["cluster"].fin
    BY <1>1, ClusterFin DEF Held
  <1>3. "C" \notin seen'["cluster"].fin
    <2>1. seen'["cluster"] = seen["cluster"] \/ seen'["cluster"] = obj["cluster"]
      BY <1>1, SeenNext, Names
    <2> QED
      BY <2>1 DEF Held
  <1>4. "C" \notin read'.fin
    BY <1>1, ReadNext DEF Held, Absent
  <1>5. PICK w \in Workers : \E l \in diff'[w].fin : Subject(w) = "cluster" /\ "C" \in l
    BY <1>2, <1>3, <1>4 DEF Held, OnWay
  <1>a. PICK l \in diff'[w].fin : Subject(w) = "cluster" /\ "C" \in l
    BY <1>5
  <1>6. l \notin diff[w].fin /\ "C" \notin seen["cluster"].fin
    BY <1>a DEF Held, OnWay
  <1>7. DomainsReady /\ pc["C"] = "verify"
    BY <1>1, <1>a, <1>6, ListBorn
  <1> QED
    BY <1>7 DEF DomainsReady, Listed, Anchor

LEMMA AnchorWatched ==
    ASSUME NEW f \in Domains, Anchor(f), Next
    PROVE  Watched(f)'
  <1> SUFFICES ASSUME obj'["cluster"].exists, ~seen'["cluster"].deleting
               PROVE  /\ ~obj'[f].deleting
                      /\ seen'[f].exists => obj'[f].exists
                      /\ Held' => seen'[f].exists
    BY DEF Watched
  <1>1. TypeInv /\ f \in Keys /\ "cluster" \in Keys
    BY Names DEF Anchor
  <1>2. obj["cluster"].exists
    BY <1>1, ClusterEnds
  <1>3. ~seen["cluster"].deleting
    <2>1. seen'["cluster"] = seen["cluster"] \/ seen'["cluster"] = obj["cluster"]
      BY <1>1, SeenNext
    <2> QED
      BY <1>2, <2>1 DEF Anchor, Closing
  <1>4. ~obj[f].deleting /\ (seen[f].exists => obj[f].exists) /\ (Held => seen[f].exists)
    BY <1>2, <1>3 DEF Anchor, Watched
  <1>5. ~IsDeleted(f) /\ Change(f)
    BY <1>1, <1>2, <1>3, AnchorKept, ChangeNext
  <1>6. ~obj'[f].deleting
    BY <1>1, <1>4, <1>5, Dooms
  <1>7. obj[f].exists => obj'[f].exists
    BY <1>1, <1>4, <1>5, Fells
  <1>8. seen'[f] = seen[f] \/ seen'[f] = obj[f]
    BY <1>1, SeenNext
  <1>9. Held' => seen'[f].exists
    BY <1>4, <1>8, AnchorHeld
  <1> QED
    BY <1>4, <1>6, <1>7, <1>8, <1>9

\* No failure domain is created once the cluster is seen to be deleted, or while
\* the pass of "C" has a patch to make.
LEMMA NoneCreated ==
    ASSUME TypeInv, Next, seen["cluster"].deleting \/ diff["C"] # Nothing,
           NEW g \in Domains, obj'[g].exists
    PROVE  obj[g].exists
  <1> SUFFICES ASSUME ~obj[g].exists PROVE FALSE
    OBVIOUS
  <1>1. g \in Keys /\ g \notin Nets
    BY Names
  <1>2. CreateFailureDomains
    BY <1>1, ChangeNext, Born DEF Appears
  <1>3. pc["C"] = "idle" /\ ~seen["cluster"].deleting
    BY <1>2, Names DEF CreateFailureDomains, Starts, TypeInv, Stored, Object
  <1> QED
    BY <1>3, TypeNow, Names

LEMMA AnchorClosing ==
    ASSUME NEW f \in Domains, Anchor(f), Next
    PROVE  Closing(f)'
  <1> SUFFICES ASSUME seen'["cluster"].deleting
               PROVE  /\ obj'["cluster"].deleting \/ ~obj'["cluster"].exists
                      /\ obj'["cluster"].fin \subseteq seen'["cluster"].fin
                      /\ "C" \in obj'["cluster"].fin =>
                           \/ seen'[f].exists
                           \/ \A g \in Domains : obj'[g].exists => seen'[g].exists
    BY DEF Closing
  <1>1. TypeInv /\ "cluster" \in Keys /\ f \in Keys /\ \A g \in Domains : g \in Keys /\ g # "cluster"
    BY Names DEF Anchor
  <1>2. CASE seen' = seen
    <2>1. /\ obj["cluster"].deleting \/ ~obj["cluster"].exists
          /\ obj["cluster"].fin \subseteq seen["cluster"].fin
          /\ "C" \in obj["cluster"].fin => \/ seen[f].exists
                                           \/ \A g \in Domains : obj[g].exists => seen[g].exists
      BY <1>2 DEF Anchor, Closing
    <2>2. \A g \in Domains : obj'[g].exists => obj[g].exists
      BY <1>1, <1>2, NoneCreated
    <2> QED
      BY <1>1, <1>2, <2>1, <2>2, ClusterFin
  <1>3. CASE seen' # seen
    <2>1. obj' = obj
      BY <1>1, <1>3, SeenNext
    <2>2. CASE seen' = obj
      BY <1>1, <2>1, <2>2
    <2>3. CASE \E kind \in Kinds : \A k \in Keys : seen'[k] = IF k \in kind THEN obj[k] ELSE seen[k]
      <3>1. PICK kind \in Kinds : \A k \in Keys : seen'[k] = IF k \in kind THEN obj[k] ELSE seen[k]
        BY <2>3
      <3>2. CASE kind = Domains
        <4>1. seen'["cluster"] = seen["cluster"] /\ \A g \in Domains : seen'[g] = obj[g]
          BY <1>1, <3>1, <3>2
        <4> QED
          BY <2>1, <4>1 DEF Anchor, Closing
      <3>3. CASE kind = Nets
        <4>1. seen'["cluster"] = seen["cluster"] /\ \A g \in Domains : seen'[g] = seen[g]
          BY <1>1, <3>1, <3>3, Names
        <4> QED
          BY <2>1, <4>1 DEF Anchor, Closing
      <3>4. CASE kind = {"cluster"}
        <4>1. seen'["cluster"] = obj["cluster"] /\ \A g \in Domains : seen'[g] = seen[g]
          BY <1>1, <3>1, <3>4
        <4>2. obj["cluster"].deleting /\ obj["cluster"].exists
          BY <1>1, <4>1 DEF TypeInv, Stored
        <4>3. "C" \in obj["cluster"].fin => \/ seen[f].exists
                                            \/ \A g \in Domains : obj[g].exists => seen[g].exists
          BY <4>2 DEF Anchor, Closing, Watched, Held
        <4> QED
          BY <2>1, <4>1, <4>2, <4>3
      <3> QED
        BY <3>2, <3>3, <3>4 DEF Kinds
    <2> QED
      BY <1>1, <1>3, <2>2, <2>3, SeenNext
  <1> QED
    BY <1>2, <1>3

LEMMA AnchorClosed ==
    ASSUME NEW f \in Domains, Anchor(f), Next
    PROVE  Closed'
  <1>1. TypeInv /\ "C" \in Workers /\ Subject("C") = "cluster" /\ Subject("K") = "cluster"
    BY Names DEF Anchor
  <1>2. seen["cluster"].deleting =>
          /\ obj["cluster"].deleting \/ ~obj["cluster"].exists
          /\ obj["cluster"].fin \subseteq seen["cluster"].fin
          /\ "C" \in obj["cluster"].fin => \/ seen[f].exists
                                           \/ \A g \in Domains : obj[g].exists => seen[g].exists
    BY DEF Anchor, Closing
  <1>3. obj["cluster"].deleting \/ ~obj["cluster"].exists =>
          /\ obj'["cluster"].fin \subseteq obj["cluster"].fin
          /\ obj'["cluster"].deleting \/ ~obj'["cluster"].exists
    BY <1>1, ClusterFin
  <1>4. ASSUME NEW w \in Workers, Subject(w) = "cluster", {} \in diff'[w].fin
        PROVE  \/ {} \in diff[w].fin
               \/ /\ seen["cluster"].deleting /\ obj' = obj
                  /\ \/ w = "C" /\ Listed = {}
                     \/ w = "K" /\ seen["cluster"].fin \ {"K"} = {}
    BY <1>1, <1>4, ListBorn
  <1>5. ASSUME NEW w \in Workers, Subject(w) = "cluster", {} \in diff'[w].fin
        PROVE  obj["cluster"].deleting \/ ~obj["cluster"].exists
    BY <1>2, <1>4, <1>5 DEF Anchor, Closed, OnWay
  <1>6. OnWay({})' => obj'["cluster"].deleting \/ ~obj'["cluster"].exists
    BY <1>3, <1>5 DEF OnWay
  <1>7. ASSUME {} \in diff'["C"].fin, "C" \in obj'["cluster"].fin, NEW g \in Domains
        PROVE  ~obj'[g].exists
    <2>1. "C" \in obj["cluster"].fin
      BY <1>1, <1>3, <1>5, <1>7
    <2>2. CASE {} \in diff["C"].fin
      <3>1. diff["C"] # Nothing /\ ~obj[g].exists
        BY <2>1, <2>2, NothingType DEF Anchor, Closed
      <3> QED
        BY <1>1, <3>1, NoneCreated
    <2>3. CASE {} \notin diff["C"].fin
      <3>1. seen["cluster"].deleting /\ obj' = obj /\ Listed = {}
        BY <1>1, <1>4, <1>7, <2>3
      <3> QED
        BY <1>2, <2>1, <3>1 DEF Listed
    <2> QED
      BY <2>2, <2>3
  <1>8. ASSUME "K" \in Workers, {} \in diff'["K"].fin PROVE "C" \notin obj'["cluster"].fin
    <2>1. "C" \notin obj["cluster"].fin
      BY <1>1, <1>2, <1>4, <1>8 DEF Anchor, Closed
    <2> QED
      BY <1>1, <1>3, <1>5, <1>8, <2>1
  <1> QED
    BY <1>6, <1>7, <1>8 DEF Closed

LEMMA AnchorNext ==
    ASSUME NEW f \in Domains, Anchor(f), Keeps(f), [Next]_vars
    PROVE  Anchor(f)'
  <1>1. TypeInv'
    BY TypeNext DEF Anchor
  <1>2. CASE Next
    BY <1>1, <1>2, AnchorSpec, AnchorWatched, AnchorClosing, AnchorClosed DEF Anchor
  <1>3. CASE UNCHANGED vars
    <2>1. obj' = obj /\ seen' = seen /\ pc' = pc /\ read' = read /\ diff' = diff /\ orphans' = orphans
      BY <1>3 DEF vars, caches
    <2>2. \A l : OnWay(l)' = OnWay(l)
      BY <2>1 DEF OnWay
    <2>3. Held' = Held
      BY <2>1, <2>2 DEF Held
    <2>4. Watched(f)' /\ Closing(f)'
      BY <2>1, <2>3 DEF Anchor, Watched, Closing
    <2>5. Closed'
      BY <2>1, <2>2 DEF Anchor, Closed
    <2> QED
      BY <1>1, <2>1, <2>4, <2>5 DEF Anchor
  <1> QED
    BY <1>2, <1>3

LEMMA AnchorInit ==
    ASSUME NEW f \in First, Init
    PROVE  Anchor(f)
  <1>1. TypeInv /\ f \in Domains /\ "C" \in Workers /\ "cluster" \in Keys /\ f \in Keys /\ f # "cluster"
    BY TypeInit, Names, DomainAssumption
  <1>2. obj["cluster"] = Created(First) /\ obj[f] = Absent /\ seen = obj /\ orphans = {}
    BY <1>1 DEF Init
  <1>3. /\ ~obj["cluster"].deleting /\ obj["cluster"].fin = {} /\ obj["cluster"].spec = First
        /\ ~obj[f].deleting
    <2>1. /\ ~Created(First).deleting /\ Created(First).fin = {} /\ Created(First).spec = First
          /\ ~Absent.deleting
      BY CreatedStored, DomainAssumption DEF Absent
    <2> QED
      BY <1>2, <2>1
  <1>4. read.fin = {} /\ pc["C"] = "idle" /\ \A w \in Workers : diff[w].fin = {}
    BY <1>1, NothingType DEF Init, Absent
  <1>5. ~Held /\ ~OnWay({})
    BY <1>2, <1>3, <1>4 DEF Held, OnWay
  <1>6. Watched(f)
    BY <1>2, <1>3, <1>5 DEF Watched
  <1>7. Closing(f)
    BY <1>2, <1>3 DEF Closing
  <1>8. Closed
    BY <1>1, <1>4, <1>5 DEF Closed
  <1> QED
    BY <1>1, <1>2, <1>3, <1>4, <1>6, <1>7, <1>8 DEF Anchor

LEMMA AnchorHolds ==
    ASSUME NEW f \in Domains, Anchor(f), Next, "C" \in obj["cluster"].fin, ~obj'["cluster"].exists,
           NEW g \in Domains
    PROVE  ~obj[g].exists
  <1>1. TypeInv /\ "cluster" \in Keys
    BY Names DEF Anchor
  <1>2. obj["cluster"].exists /\ Change("cluster")
    BY <1>1, ChangeNext DEF TypeInv, Stored
  <1>3. PICK w \in Workers : Subject(w) = "cluster" /\ {} \in diff[w].fin
    BY <1>1, <1>2, Vanishes
  <1> QED
    BY <1>3, ClusterWorker DEF Anchor, Closed

\* DeleteFailureDomains lists the failure domains in a cache, and yet a
\* CloudStackCluster with its finalizer goes away only after all of them, for
\* any number of edits that leave one of its first failure domains in the spec.
THEOREM AnchoredClusterOutlivesDomains ==
    ASSUME NEW a \in First
    PROVE  Spec /\ []Keeps(a) => ClusterOutlivesDomains
  <1>1. a \in Domains
    BY DomainAssumption
  <1>2. Init => Anchor(a)
    BY AnchorInit
  <1>3. Anchor(a) /\ Keeps(a) /\ [Next]_vars => Anchor(a)'
    BY <1>1, AnchorNext
  <1>4. Anchor(a) /\ [Next]_vars =>
          ["C" \in obj["cluster"].fin /\ ~obj'["cluster"].exists
             => \A f \in Domains : ~obj[f].exists]_vars
    BY <1>1, AnchorHolds
  <1>5. Spec /\ []Keeps(a) => []Anchor(a)
    BY <1>2, <1>3, PTL DEF Spec
  <1>6. Spec /\ []Anchor(a) => ClusterOutlivesDomains
    BY <1>4, PTL DEF Spec, ClusterOutlivesDomains
  <1> QED
    BY <1>5, <1>6

\* Only an edit counts as one.
LEMMA EditsNext ==
    ASSUME Next, ~EditSpec
    PROVE  edits' = edits
  <1>1. ASSUME NEW w \in Workers, Pass(w) PROVE edits' = edits
    BY <1>1 DEF Pass, Patch, ClusterStep, CreateFailureDomains, RemoveAndVerify,
       DeleteFailureDomains, CksStep, GetOrCreateCksCluster, DeleteCksCluster, DomainStep,
       ReconcileDomain, DeleteOwnedObjects, CheckOwnedObjectsDeleted, NetStep, ProvisionNetwork,
       DisposeNetwork, bounds
  <1>2. (WatchCapi \/ CapiGone \/ DeleteRequested \/ Crash \/ (\E kind \in Kinds : Watch(kind))
           \/ (\E k \in Domains \cup Nets : GarbageCollect(k))) => edits' = edits
    BY DEF WatchCapi, CapiGone, DeleteRequested, Crash, Watch, GarbageCollect, bounds
  <1> QED
    BY <1>1, <1>2 DEF Next

\* Until the first edit every first failure domain is in the spec, after it one.
EditInv ==
    /\ TypeInv
    /\ edits = 0 => /\ \A a \in First : Anchor(a)
                    /\ obj["cluster"].exists => obj["cluster"].spec = First
    /\ edits <= 1 => \E a \in First : Anchor(a) /\ Keeps(a)

LEMMA EditInit == Init => EditInv
  <1> SUFFICES ASSUME Init PROVE EditInv
    OBVIOUS
  <1>1. \A a \in First : Anchor(a)
    BY AnchorInit
  <1>2. obj["cluster"].spec = First
    <2>1. obj["cluster"] = Created(First) /\ Created(First).spec = First
      BY CreatedStored, DomainAssumption, Names DEF Init
    <2> QED
      BY <2>1
  <1> QED
    BY <1>1, <1>2, TypeInit, DomainAssumption DEF EditInv, Keeps

LEMMA EditNext == EditInv /\ [Next]_vars => EditInv'
  <1> SUFFICES ASSUME EditInv, [Next]_vars PROVE EditInv'
    OBVIOUS
  <1>1. TypeInv /\ TypeInv' /\ First \subseteq Domains /\ edits \in Nat /\ edits' \in Nat
    <2>1. TypeInv /\ TypeInv'
      BY TypeNext DEF EditInv
    <2> QED
      BY <2>1, DomainAssumption, BoundAssumption DEF TypeInv, TypeOK
  <1>2. \A a \in First : Anchor(a) /\ Keeps(a) => Anchor(a)'
    BY <1>1, AnchorNext
  <1>3. CASE EditSpec
    <2>1. edits' = edits + 1 /\ obj["cluster"].exists
      BY <1>3 DEF EditSpec
    <2>2. PICK s \in SUBSET Domains : UpdateAdmitted(obj["cluster"].spec, s)
                                     /\ obj' = [obj EXCEPT !["cluster"].spec = s]
      BY <1>3 DEF EditSpec, Store
    <2>3. obj'["cluster"].spec = s
      BY <1>1, <2>2, TypeNow, Names DEF AllStored, Object
    <2>4. edits' # 0
      BY <1>1, <2>1
    <2>5. ASSUME edits' <= 1 PROVE \E a \in First : Anchor(a)' /\ Keeps(a)'
      <3>1. edits = 0
        BY <1>1, <2>1, <2>5
      <3>2. obj["cluster"].spec = First /\ \A a \in First : Anchor(a) /\ Keeps(a)
        BY <2>1, <3>1 DEF EditInv, Keeps
      <3>3. PICK a \in First : a \in s
        BY <2>2, <3>2 DEF UpdateAdmitted
      <3>4. Keeps(a)'
        BY <2>3, <3>3 DEF Keeps
      <3> QED
        BY <1>2, <3>2, <3>3, <3>4
    <2> QED
      BY <1>1, <2>4, <2>5 DEF EditInv
  <1>4. CASE ~EditSpec
    <2>1. /\ edits' = edits
          /\ obj'["cluster"].exists => /\ obj["cluster"].exists
                                       /\ obj'["cluster"].spec = obj["cluster"].spec
      <3>1. CASE Next
        BY <1>1, <1>4, <3>1, EditsNext, ClusterEnds, ChangeNext, Lives, Names
      <3>2. CASE UNCHANGED vars
        BY <3>2 DEF vars, bounds
      <3> QED
        BY <3>1, <3>2
    <2>2. \A a : Keeps(a) => Keeps(a)'
      BY <2>1 DEF Keeps
    <2>3. edits <= 1 => \E a \in First : Anchor(a)' /\ Keeps(a)'
      BY <1>2, <2>2 DEF EditInv
    <2>4. ASSUME edits = 0
          PROVE  /\ \A a \in First : Anchor(a)'
                 /\ obj'["cluster"].exists => obj'["cluster"].spec = First
      <3>1. \A a \in First : Anchor(a) /\ Keeps(a)
        BY <2>4 DEF EditInv, Keeps
      <3> QED
        BY <1>2, <2>1, <2>4, <3>1 DEF EditInv
    <2> QED
      BY <1>1, <2>1, <2>3, <2>4 DEF EditInv
  <1> QED
    BY <1>3, <1>4

\* ValidateFailureDomainUpdates keeps a failure domain in every edit: so up to
\* and including the first edit of the spec, whatever it is, the cluster outlives
\* its failure domains without a further condition.
THEOREM ClusterOutlivesDomainsOfOneEdit ==
    MaxEdits <= 1 => (Spec => ClusterOutlivesDomains)
  <1> SUFFICES ASSUME MaxEdits <= 1 PROVE Spec => ClusterOutlivesDomains
    OBVIOUS
  <1>1. EditInv /\ [Next]_vars =>
          ["C" \in obj["cluster"].fin /\ ~obj'["cluster"].exists
             => \A f \in Domains : ~obj[f].exists]_vars
    <2> SUFFICES ASSUME EditInv, Next, "C" \in obj["cluster"].fin, ~obj'["cluster"].exists,
                        NEW f \in Domains
                 PROVE  ~obj[f].exists
      OBVIOUS
    <2>1. edits <= 1
      BY BoundAssumption DEF EditInv, TypeInv, TypeOK
    <2>2. PICK a \in Domains : Anchor(a)
      BY <2>1, DomainAssumption DEF EditInv
    <2> QED
      BY <2>2, AnchorHolds
  <1> QED
    BY <1>1, EditInit, EditNext, PTL DEF Spec, ClusterOutlivesDomains
=============================================================================
