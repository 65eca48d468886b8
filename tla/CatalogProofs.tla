---------------------------- MODULE CatalogProofs ----------------------------
(***************************************************************************)
(* Proofs about EndpointCatalog for all sets of users, all finite sets of  *)
(* endpoints there are at first, all limits and any number of calls.       *)
(***************************************************************************)
EXTENDS EndpointCatalog, FiniteSetTheorems, TLAPS

USE EndpointCatalogAssumption, PersistenceAssumption

-----------------------------------------------------------------------------
(* Helpers.                                                                *)

LEMMA MaxOfTwo ==
  ASSUME NEW a \in Nat, NEW b \in Nat
  PROVE  /\ Max({a, b}) \in Nat
         /\ Max({a, b}) >= a /\ Max({a, b}) >= b
<1>1. \E x \in {a, b} : \A y \in {a, b} : x >= y
  <2>1. CASE a >= b
    BY <2>1
  <2>2. CASE b >= a
    BY <2>2
  <2> QED BY <2>1, <2>2
<1>2. Max({a, b}) \in {a, b} /\ \A y \in {a, b} : Max({a, b}) >= y
  BY <1>1 DEF Max
<1> QED BY <1>2

LEMMA MaxOfOne ==
  ASSUME NEW a \in Nat
  PROVE  Max({a}) = a
BY DEF Max

LEMMA OneMore ==
  ASSUME NEW S, NEW x, IsFiniteSet(S), NEW T, T \subseteq S \cup {x}
  PROVE  Cardinality(T) \in Nat /\ Cardinality(T) <= Cardinality(S) + 1
<1>1. /\ IsFiniteSet(S \cup {x}) /\ Cardinality(S) \in Nat
      /\ Cardinality(S \cup {x}) = IF x \in S THEN Cardinality(S) ELSE Cardinality(S) + 1
  BY FS_AddElement, FS_CardinalityType
<1>2. Cardinality(S \cup {x}) \in Nat /\ Cardinality(S \cup {x}) <= Cardinality(S) + 1
  BY <1>1
<1>3. IsFiniteSet(T) /\ Cardinality(T) <= Cardinality(S \cup {x})
  BY <1>1, FS_Subset
<1>4. Cardinality(T) \in Nat
  BY <1>3, FS_CardinalityType
<1> QED BY <1>1, <1>2, <1>3, <1>4

LEMMA OneLess ==
  ASSUME NEW S, NEW x \in S, IsFiniteSet(S), NEW T, T \subseteq S \ {x}
  PROVE  Cardinality(T) \in Nat /\ Cardinality(T) <= Cardinality(S) - 1
<1>1. /\ IsFiniteSet(S \ {x}) /\ Cardinality(S) \in Nat
      /\ Cardinality(S \ {x}) = IF x \in S THEN Cardinality(S) - 1 ELSE Cardinality(S)
  BY FS_RemoveElement, FS_CardinalityType
<1>2. Cardinality(S \ {x}) = Cardinality(S) - 1
  BY <1>1
<1>3. IsFiniteSet(T) /\ Cardinality(T) <= Cardinality(S \ {x})
  BY <1>1, FS_Subset
<1>4. Cardinality(T) \in Nat
  BY <1>3, FS_CardinalityType
<1> QED BY <1>1, <1>2, <1>3, <1>4

LEMMA FiniteEndpoints ==
  /\ IsFiniteSet(Endpoint) /\ IsFiniteSet(Call)
  /\ \A u : IsFiniteSet(Owned(u)) /\ Cardinality(Owned(u)) \in Nat
  /\ \A u : IsFiniteSet(Inserting(u)) /\ Cardinality(Inserting(u)) \in Nat
<1>1. IsFiniteSet(Call)
  BY FS_Interval DEF Call
<1>2. IsFiniteSet(Endpoint)
  BY <1>1, FS_Union DEF Endpoint
<1>3. ASSUME NEW u
      PROVE  /\ IsFiniteSet(Owned(u)) /\ Cardinality(Owned(u)) \in Nat
             /\ IsFiniteSet(Inserting(u)) /\ Cardinality(Inserting(u)) \in Nat
  <2>1. Owned(u) \in SUBSET Endpoint /\ Inserting(u) \in SUBSET Call
    BY DEF Owned, Inserting
  <2> QED BY <1>1, <1>2, <2>1, FS_Subset, FS_CardinalityType
<1> QED BY <1>1, <1>2, <1>3

(* The one chain of n versions.                                            *)
VersionAt(k, n) == [version |-> k, latest |-> IF k = n THEN TRUE ELSE FALSE, prev |-> k - 1]
Chain(n) == {VersionAt(k, n) : k \in 1..n}

LEMMA ChainFacts ==
  ASSUME NEW n \in Nat
  PROVE  /\ Chain(n) \subseteq Version
         /\ Cardinality(Chain(n)) = n
         /\ {v.version : v \in Chain(n)} = 1..n
         /\ \A v \in Chain(n) : v.prev = v.version - 1 /\ (v.latest <=> v.version = n)
         /\ Chain(n) = {} <=> n = 0
         /\ n > 0 => {v.version : v \in {w \in Chain(n) : w.latest}} = {n}
         /\ n = 0 => {v \in Chain(n) : v.latest} = {}
<1>1. ASSUME NEW k \in 1..n
      PROVE  /\ VersionAt(k, n) \in Version /\ VersionAt(k, n) \in Chain(n)
             /\ VersionAt(k, n).version = k
             /\ VersionAt(k, n).prev = k - 1
             /\ VersionAt(k, n).latest <=> k = n
  <2>1. VersionAt(k, n) \in Chain(n)
    BY DEF Chain
  <2>2. CASE k = n
    BY <2>1, <2>2 DEF VersionAt, Version
  <2>3. CASE k # n
    BY <2>1, <2>3 DEF VersionAt, Version
  <2> QED BY <2>2, <2>3
<1>2. \A v \in Chain(n) : \E k \in 1..n : v = VersionAt(k, n)
  BY DEF Chain
<1>3. Cardinality(Chain(n)) = n
  <2> DEFINE f == [k \in 1..n |-> VersionAt(k, n)]
  <2>1. f \in Bijection(1..n, Chain(n))
    <3>1. f \in [1..n -> Chain(n)]
      BY <1>1
    <3>2. ASSUME NEW a \in 1..n, NEW b \in 1..n, f[a] = f[b] PROVE a = b
      BY <1>1, <3>2
    <3>3. \A v \in Chain(n) : \E k \in 1..n : f[k] = v
      BY <1>2
    <3> HIDE DEF f
    <3> QED BY <3>1, <3>2, <3>3 DEF Bijection, Injection, Surjection, IsInjective
  <2> HIDE DEF f
  <2>2. ExistsBijection(1..n, Chain(n))
    BY <2>1 DEF ExistsBijection
  <2> QED BY <2>2, FS_CountingElements
<1>4. {v.version : v \in Chain(n)} = 1..n
  BY <1>1, <1>2
<1>5. Chain(n) = {} <=> n = 0
  BY <1>1, <1>2
<1>6. n > 0 => {v.version : v \in {w \in Chain(n) : w.latest}} = {n}
  <2> SUFFICES ASSUME n > 0 PROVE {v.version : v \in {w \in Chain(n) : w.latest}} = {n}
    OBVIOUS
  <2>1. VersionAt(n, n) \in {w \in Chain(n) : w.latest} /\ VersionAt(n, n).version = n
    BY <1>1
  <2>2. \A v \in {w \in Chain(n) : w.latest} : v.version = n
    BY <1>1, <1>2
  <2> QED BY <2>1, <2>2
<1>7. n = 0 => {v \in Chain(n) : v.latest} = {}
  BY <1>5
<1>8. /\ Chain(n) \subseteq Version
      /\ \A v \in Chain(n) : v.prev = v.version - 1 /\ (v.latest <=> v.version = n)
  BY <1>1, <1>2
<1> QED BY <1>3, <1>4, <1>5, <1>6, <1>7, <1>8

(* Demoting the last version and adding the next makes a longer chain.     *)
LEMMA ChainGrows ==
  ASSUME NEW n \in Nat
  PROVE  Demoted(Chain(n), n) \cup {[version |-> n + 1, latest |-> TRUE, prev |-> n]} = Chain(n + 1)
<1> DEFINE new == [version |-> n + 1, latest |-> TRUE, prev |-> n]
           demote(v) == IF v.version = n THEN [version |-> n, latest |-> FALSE, prev |-> v.prev] ELSE v
<1>1. new = VersionAt(n + 1, n + 1)
  BY DEF VersionAt
<1>2. ASSUME NEW k \in 1..n
      PROVE  demote(VersionAt(k, n)) = VersionAt(k, n + 1)
  <2>1. VersionAt(k, n).version = k /\ k # n + 1
    BY DEF VersionAt
  <2>2. VersionAt(k, n + 1) = [version |-> k, latest |-> FALSE, prev |-> k - 1]
    BY <2>1 DEF VersionAt
  <2>3. CASE k = n
    <3>1. VersionAt(k, n) = [version |-> k, latest |-> TRUE, prev |-> k - 1]
      BY <2>3 DEF VersionAt
    <3>2. demote(VersionAt(k, n)) = [version |-> k, latest |-> FALSE, prev |-> k - 1]
      BY <2>1, <2>3, <3>1
    <3> QED BY <2>2, <3>2
  <2>4. CASE k # n
    <3>1. VersionAt(k, n) = [version |-> k, latest |-> FALSE, prev |-> k - 1]
      BY <2>4 DEF VersionAt
    <3>2. demote(VersionAt(k, n)) = VersionAt(k, n)
      BY <2>1, <2>4
    <3> QED BY <2>2, <3>1, <3>2
  <2> QED BY <2>3, <2>4
<1>3. Demoted(Chain(n), n) = {VersionAt(k, n + 1) : k \in 1..n}
  <2>1. Demoted(Chain(n), n) = {demote(v) : v \in Chain(n)}
    BY DEF Demoted
  <2> HIDE DEF demote
  <2>2. {demote(v) : v \in Chain(n)} = {demote(VersionAt(k, n)) : k \in 1..n}
    BY DEF Chain
  <2> QED BY <1>2, <2>1, <2>2
<1>4. 1..(n + 1) = 1..n \cup {n + 1}
  OBVIOUS
<1> QED BY <1>1, <1>3, <1>4 DEF Chain

-----------------------------------------------------------------------------
(* Tasks.                                                                  *)

TasksStay(c) == \A d \in Call : d # c => task'[d] = task[d]

LEMMA NoTaskTypes == NoTask \in TaskRecord /\ Closed \in TaskRecord /\ Closed.at = "over"
BY DEF NoTask, Closed, TaskRecord, Allowance

LEMMA EnterFacts ==
  ASSUME task \in [Call -> TaskRecord], NEW c \in Call,
         NEW op \in {"none", "create", "delete", "scan", "regenerate"},
         NEW at \in {"count", "insert", "delete", "look", "over"},
         NEW u \in Tenant \cup {Null}, NEW i \in Endpoint \cup {Null}, NEW limit \in Allowance,
         Enter(c, op, at, u, i, limit)
  PROVE  /\ task' \in [Call -> TaskRecord] /\ TasksStay(c) /\ task[c].at = "new"
         /\ task'[c].at = at /\ task'[c].who = u /\ task'[c].endpoint = i /\ task'[c].limit = limit
BY DEF Enter, TaskRecord, TasksStay

LEMMA QuitFacts ==
  ASSUME task \in [Call -> TaskRecord], NEW c \in Call, Quit(c)
  PROVE  task' \in [Call -> TaskRecord] /\ TasksStay(c) /\ task'[c].at = "over"
BY NoTaskTypes DEF Quit, TasksStay

LEMMA AdvanceFacts ==
  ASSUME task \in [Call -> TaskRecord], NEW c \in Call,
         NEW where \in {"insert", "generate", "generated", "stamp"}, Advance(c, where)
  PROVE  /\ task' \in [Call -> TaskRecord] /\ TasksStay(c)
         /\ task'[c].at = where /\ task'[c].who = task[c].who
         /\ task'[c].endpoint = task[c].endpoint /\ task'[c].limit = task[c].limit
BY DEF Advance, TaskRecord, TasksStay

-----------------------------------------------------------------------------
(* The inductive invariant, beside the types. Each endpoint has the one    *)
(* chain of as many versions as it has rows; a scan that is to flush has   *)
(* read one of them, or none; and the calls past the guard count as        *)
(* endpoints already.                                                      *)

TasksSound ==
    \A c \in Call :
        /\ task[c].at \in {"count", "insert"} => task[c].who \in Tenant
        /\ task[c].at = "count" => task[c].limit \in Limit
        /\ task[c].at \in {"delete", "look", "generate", "generated", "flush", "stamp"} =>
              task[c].endpoint \in Endpoint

ChainsSound ==
    \A i \in Endpoint :
        /\ Cardinality(schemas[i]) \in Nat /\ schemas[i] = Chain(Cardinality(schemas[i]))
        /\ schemas[i] # {} => owner[i] # Null
        /\ i \in stamped => schemas[i] # {}

FlushesSound ==
    \A c \in Call :
        /\ task[c].at = "flush" => task[c].base <= Cardinality(schemas[task[c].endpoint])
        /\ task[c].at = "stamp" => schemas[task[c].endpoint] # {}

CountsSound ==
    \A u \in Tenant : granted[u] # Null =>
        Cardinality(Owned(u)) + Cardinality(Inserting(u)) + 1 <= granted[u] + peak[u]

CatalogSound == TasksSound /\ ChainsSound /\ FlushesSound /\ CountsSound

(* What it gives.                                                          *)
LEMMA SoundGivesChains == CatalogSound => VersionsChained
<1> SUFFICES ASSUME CatalogSound, NEW i \in Endpoint
             PROVE  /\ {v.version : v \in schemas[i]} = 1..Cardinality(schemas[i])
                    /\ \A v \in schemas[i] : v.prev = v.version - 1
                                 /\ (v.latest <=> v.version = Cardinality(schemas[i]))
                    /\ schemas[i] # {} => owner[i] # Null
                    /\ i \in stamped => schemas[i] # {}
  BY DEF VersionsChained
<1>1. PICK n \in Nat : n = Cardinality(schemas[i]) /\ schemas[i] = Chain(n)
  BY DEF CatalogSound, ChainsSound
<1>2. /\ {v.version : v \in Chain(n)} = 1..n
      /\ \A v \in Chain(n) : v.prev = v.version - 1 /\ (v.latest <=> v.version = n)
  BY ChainFacts
<1>3. /\ schemas[i] # {} => owner[i] # Null
      /\ i \in stamped => schemas[i] # {}
  BY DEF CatalogSound, ChainsSound
<1> QED BY <1>1, <1>2, <1>3

LEMMA SoundGivesBound == CatalogTypeOK /\ CatalogSound => EndpointsBounded
<1> SUFFICES ASSUME CatalogTypeOK, CatalogSound, NEW u \in Tenant, granted[u] # Null
             PROVE  Cardinality(Owned(u)) + 1 <= granted[u] + peak[u]
  BY DEF EndpointsBounded
<1>1. granted[u] \in Nat /\ peak[u] \in Nat
  BY DEF CatalogTypeOK
<1>2. Cardinality(Owned(u)) \in Nat /\ Cardinality(Inserting(u)) \in Nat
  BY FiniteEndpoints
<1>3. Cardinality(Owned(u)) + Cardinality(Inserting(u)) + 1 <= granted[u] + peak[u]
  BY DEF CatalogSound, CountsSound
<1> QED BY <1>1, <1>2, <1>3

-----------------------------------------------------------------------------
(* Counting.                                                               *)

LEMMA PassFacts ==
  ASSUME CatalogTypeOK, NEW u \in Tenant, NEW limit \in Allowance, Pass(u, limit)
  PROVE  /\ granted' \in [Tenant -> Nat \cup {Null}] /\ peak' \in [Tenant -> Nat]
         /\ \A v \in Tenant : v # u => granted'[v] = granted[v] /\ peak'[v] = peak[v]
         /\ peak'[u] >= Cardinality(Inserting(u)) + 1
         /\ granted'[u] # Null => limit \in Nat /\ limit # Null /\ granted'[u] >= limit
<1>1. /\ granted \in [Tenant -> Nat \cup {Null}] /\ peak \in [Tenant -> Nat]
      /\ Cardinality(Inserting(u)) + 1 \in Nat
  BY FiniteEndpoints DEF CatalogTypeOK
<1>2. /\ peak'[u] = Max({peak[u], Cardinality(Inserting(u)) + 1})
      /\ granted'[u] = IF limit = Null \/ granted[u] = Null THEN Null ELSE Max({granted[u], limit})
      /\ \A v \in Tenant : v # u => granted'[v] = granted[v] /\ peak'[v] = peak[v]
      /\ DOMAIN granted' = Tenant /\ DOMAIN peak' = Tenant
      /\ granted' = [granted EXCEPT ![u] = granted'[u]] /\ peak' = [peak EXCEPT ![u] = peak'[u]]
  BY <1>1 DEF Pass
<1>3. peak'[u] \in Nat /\ peak'[u] >= Cardinality(Inserting(u)) + 1
  BY <1>1, <1>2, MaxOfTwo
<1>4. granted'[u] \in Nat \cup {Null}
      /\ (granted'[u] # Null => limit \in Nat /\ limit # Null /\ granted'[u] >= limit)
  <2>1. CASE limit = Null \/ granted[u] = Null
    BY <1>2, <2>1
  <2>2. CASE limit # Null /\ granted[u] # Null
    <3>1. limit \in Nat /\ granted[u] \in Nat
      BY <1>1, <2>2 DEF Allowance
    <3> QED BY <1>2, <2>2, <3>1, MaxOfTwo
  <2> QED BY <2>1, <2>2
<1>5. granted' \in [Tenant -> Nat \cup {Null}] /\ peak' \in [Tenant -> Nat]
  BY <1>1, <1>2, <1>3, <1>4
<1> QED BY <1>2, <1>3, <1>4, <1>5

(* Nothing is counted anew.                                                *)
LEMMA CountsKept ==
  ASSUME CatalogTypeOK, CountsSound, UNCHANGED historyVars,
         \A u \in Tenant : /\ Owned(u)' \subseteq Owned(u)
                           /\ Inserting(u)' \subseteq Inserting(u)
  PROVE  CountsSound'
<1> SUFFICES ASSUME NEW u \in Tenant, granted'[u] # Null
             PROVE  Cardinality(Owned(u)') + Cardinality(Inserting(u)') + 1 <= granted'[u] + peak'[u]
  BY DEF CountsSound
<1>1. granted'[u] = granted[u] /\ peak'[u] = peak[u]
  BY DEF historyVars
<1>2. granted[u] \in Nat /\ peak[u] \in Nat
  BY <1>1 DEF CatalogTypeOK
<1>3. /\ Cardinality(Owned(u)') \in Nat /\ Cardinality(Owned(u)) \in Nat
      /\ Cardinality(Owned(u)') <= Cardinality(Owned(u))
      /\ Cardinality(Inserting(u)') \in Nat /\ Cardinality(Inserting(u)) \in Nat
      /\ Cardinality(Inserting(u)') <= Cardinality(Inserting(u))
  BY FiniteEndpoints, FS_Subset, FS_CardinalityType
<1>4. Cardinality(Owned(u)) + Cardinality(Inserting(u)) + 1 <= granted[u] + peak[u]
  BY <1>1 DEF CountsSound
<1> QED BY <1>1, <1>2, <1>3, <1>4

LEMMA NotInserting ==
  ASSUME NEW c \in Call, TasksStay(c), task'[c].at # "insert"
  PROVE  \A u : Inserting(u)' \subseteq Inserting(u) \ {c}
BY DEF Inserting, TaskAt, TasksStay

-----------------------------------------------------------------------------
(* Steps that write no row and let no call pass the guard.                 *)

Fits(c) ==
    /\ task'[c].at \in {"count", "insert"} => task'[c].who \in Tenant
    /\ task'[c].at = "count" => task'[c].limit \in Limit
    /\ task'[c].at \in {"delete", "look", "generate", "generated", "flush", "stamp"} =>
          task'[c].endpoint \in Endpoint
    /\ task'[c].at = "flush" => task'[c].base <= Cardinality(schemas'[task'[c].endpoint])
    /\ task'[c].at = "stamp" => schemas'[task'[c].endpoint] # {}

(* The rows of an endpoint never become fewer.                             *)
Grows ==
    \A i \in Endpoint :
        /\ Cardinality(schemas[i]) <= Cardinality(schemas'[i])
        /\ schemas[i] # {} => schemas'[i] # {}

LEMMA TasksKept ==
  ASSUME CatalogTypeOK, CatalogSound, NEW c \in Call, TasksStay(c), Fits(c), Grows,
         \A i \in Endpoint : Cardinality(schemas'[i]) \in Nat
  PROVE  TasksSound' /\ FlushesSound'
<1>1. ASSUME NEW d \in Call, d # c
      PROVE  task'[d] = task[d] /\ task[d].base \in Nat
  BY <1>1 DEF TasksStay, CatalogTypeOK, TaskRecord
<1>2. TasksSound'
  <2> SUFFICES ASSUME NEW d \in Call
               PROVE  /\ task'[d].at \in {"count", "insert"} => task'[d].who \in Tenant
                      /\ task'[d].at = "count" => task'[d].limit \in Limit
                      /\ task'[d].at \in {"delete", "look", "generate", "generated", "flush", "stamp"} =>
                            task'[d].endpoint \in Endpoint
    BY DEF TasksSound
  <2>1. CASE d = c
    BY <2>1 DEF Fits
  <2>2. CASE d # c
    BY <1>1, <2>2 DEF CatalogSound, TasksSound
  <2> QED BY <2>1, <2>2
<1>3. FlushesSound'
  <2> SUFFICES ASSUME NEW d \in Call
               PROVE  /\ task'[d].at = "flush" =>
                            task'[d].base <= Cardinality(schemas'[task'[d].endpoint])
                      /\ task'[d].at = "stamp" => schemas'[task'[d].endpoint] # {}
    BY DEF FlushesSound
  <2>1. CASE d = c
    BY <2>1 DEF Fits
  <2>2. CASE d # c
    <3>1. task'[d] = task[d] /\ task[d].base \in Nat
      BY <1>1, <2>2
    <3>2. ASSUME task[d].at \in {"flush", "stamp"}
          PROVE  /\ task[d].endpoint \in Endpoint
                 /\ Cardinality(schemas[task[d].endpoint]) \in Nat
      BY <3>2 DEF CatalogSound, TasksSound, ChainsSound
    <3>3. /\ task[d].at = "flush" => task[d].base <= Cardinality(schemas[task[d].endpoint])
          /\ task[d].at = "stamp" => schemas[task[d].endpoint] # {}
      BY DEF CatalogSound, FlushesSound
    <3> QED BY <3>1, <3>2, <3>3 DEF Grows
  <2> QED BY <2>1, <2>2
<1> QED BY <1>2, <1>3

LEMMA QuietTask ==
  ASSUME CatalogTypeOK, CatalogSound, NEW c \in Call, task' \in [Call -> TaskRecord],
         TasksStay(c), Fits(c), task'[c].at # "insert",
         UNCHANGED <<owner, schemas, stamped, plan, historyVars>>, catalogFaults' \in 0..MaxFaults
  PROVE  CatalogTypeOK' /\ CatalogSound'
<1>1. CatalogTypeOK'
  BY DEF CatalogTypeOK, historyVars
<1>2. ChainsSound'
  BY DEF CatalogSound, ChainsSound
<1>3. TasksSound' /\ FlushesSound'
  <2>1. Grows /\ \A i \in Endpoint : Cardinality(schemas'[i]) \in Nat
    BY DEF Grows, CatalogSound, ChainsSound
  <2> QED BY <2>1, TasksKept
<1>4. CountsSound'
  <2>1. \A u : Inserting(u)' \subseteq Inserting(u) /\ Owned(u)' = Owned(u)
    BY NotInserting DEF Owned
  <2> QED BY <2>1, CountsKept DEF CatalogSound
<1> QED BY <1>1, <1>2, <1>3, <1>4 DEF CatalogSound

LEMMA PlanSound ==
  ASSUME CatalogTypeOK, CatalogSound, NEW u \in Tenant, ChangePlan(u)
  PROVE  CatalogTypeOK' /\ CatalogSound'
<1>1. UNCHANGED <<owner, schemas, stamped, task, granted, peak, catalogFaults>>
  BY DEF ChangePlan, historyVars
<1>2. plan' \in [Tenant -> Allowance]
  BY DEF ChangePlan, CatalogTypeOK
<1>3. CatalogTypeOK'
  BY <1>1, <1>2 DEF CatalogTypeOK
<1>4. TasksSound' /\ ChainsSound' /\ FlushesSound'
  BY <1>1 DEF CatalogSound, TasksSound, ChainsSound, FlushesSound
<1>5. CountsSound'
  <2>1. \A v : Inserting(v)' = Inserting(v) /\ Owned(v)' = Owned(v)
    BY <1>1 DEF Inserting, TaskAt, Owned
  <2> QED BY <1>1, <2>1 DEF CatalogSound, CountsSound
<1> QED BY <1>3, <1>4, <1>5 DEF CatalogSound

LEMMA QuietActions ==
  ASSUME CatalogTypeOK, CatalogSound, NEW c \in Call,
         \/ \E u \in Tenant, i \in Endpoint : AskToDelete(c, u, i)
         \/ \E op \in {"scan", "regenerate"}, i \in Endpoint : AskForVersion(c, op, i)
         \/ ScanSchema(c) \/ LookAtLatest(c) \/ GenerateArtifacts(c)
         \/ ReadLatest(c) \/ FailTask(c)
  PROVE  CatalogTypeOK' /\ CatalogSound'
<1>1. /\ task \in [Call -> TaskRecord] /\ catalogFaults \in 0..MaxFaults
      /\ owner \in [Endpoint -> Tenant \cup {Null}]
  BY DEF CatalogTypeOK
<1>2. ASSUME NEW op \in {"none", "delete", "scan", "regenerate"}, NEW at \in {"delete", "look", "over"},
             NEW u \in Tenant \cup {Null}, NEW i \in Endpoint \cup {Null},
             Enter(c, op, at, u, i, Null), i \in Endpoint \/ at = "over",
             UNCHANGED <<owner, schemas, stamped, plan, historyVars, catalogFaults>>
      PROVE  CatalogTypeOK' /\ CatalogSound'
  <2>1. /\ task' \in [Call -> TaskRecord] /\ TasksStay(c)
        /\ task'[c].at = at /\ task'[c].endpoint = i
    <3>1. Null \in Allowance
      BY DEF Allowance
    <3> QED BY <1>1, <1>2, <3>1 DEF Enter, TaskRecord, TasksStay
  <2>2. Fits(c)
    BY <1>2, <2>1 DEF Fits
  <2> QED BY <1>1, <1>2, <2>1, <2>2, QuietTask
<1>3. ASSUME Quit(c), UNCHANGED <<owner, schemas, stamped, plan, historyVars>>,
             catalogFaults' \in 0..MaxFaults
      PROVE  CatalogTypeOK' /\ CatalogSound'
  <2>1. task' \in [Call -> TaskRecord] /\ TasksStay(c) /\ task'[c].at = "over"
    BY <1>1, <1>3, QuitFacts
  <2>2. Fits(c)
    BY <2>1 DEF Fits
  <2> QED BY <1>3, <2>1, <2>2, QuietTask
<1>4. ASSUME NEW u \in Tenant, NEW i \in Endpoint, AskToDelete(c, u, i)
      PROVE  CatalogTypeOK' /\ CatalogSound'
  BY <1>2, <1>4 DEF AskToDelete
<1>5. ASSUME NEW op \in {"scan", "regenerate"}, NEW i \in Endpoint, AskForVersion(c, op, i)
      PROVE  CatalogTypeOK' /\ CatalogSound'
  BY <1>1, <1>2, <1>5 DEF AskForVersion
<1>6. CASE ScanSchema(c) \/ LookAtLatest(c) \/ GenerateArtifacts(c)
  <2>1. /\ task[c].at \in {"look", "generate"}
        /\ UNCHANGED <<owner, schemas, stamped, plan, historyVars, catalogFaults>>
        /\ Quit(c) \/ \E at \in {"generate", "generated"} : Advance(c, at)
    BY <1>6 DEF ScanSchema, LookAtLatest, GenerateArtifacts, TaskAt
  <2>2. CASE Quit(c)
    BY <1>1, <1>3, <2>1, <2>2
  <2>3. ASSUME NEW at \in {"generate", "generated"}, Advance(c, at)
        PROVE  CatalogTypeOK' /\ CatalogSound'
    <3>1. /\ task' \in [Call -> TaskRecord] /\ TasksStay(c) /\ task'[c].at = at
          /\ task'[c].endpoint = task[c].endpoint
      BY <1>1, <2>3, AdvanceFacts
    <3>2. Fits(c)
      BY <2>1, <3>1 DEF Fits, CatalogSound, TasksSound
    <3> QED BY <1>1, <2>1, <3>1, <3>2, QuietTask
  <2> QED BY <2>1, <2>2, <2>3
<1>7. CASE ReadLatest(c)
  <2> DEFINE i == task[c].endpoint
             found == Latest(i)
             base == IF found = {} THEN 0 ELSE Max({v.version : v \in found})
  <2>1. i \in Endpoint
    BY <1>7 DEF ReadLatest, TaskAt, CatalogSound, TasksSound
  <2>2. PICK n \in Nat : n = Cardinality(schemas[i]) /\ schemas[i] = Chain(n)
    BY <2>1 DEF CatalogSound, ChainsSound
  <2>3. base \in Nat /\ base <= n
    <3>1. CASE n = 0
      <4>1. found = {}
        BY <2>2, <3>1, ChainFacts DEF Latest
      <4> QED BY <2>2, <4>1
    <3>2. CASE n > 0
      <4>1. {v.version : v \in found} = {n}
        BY <2>2, <3>2, ChainFacts DEF Latest
      <4>2. Max({v.version : v \in found}) = n
        BY <4>1, MaxOfOne
      <4> QED BY <4>2
    <3> QED BY <3>1, <3>2
  <2>4. task' = [task EXCEPT ![c].at = "flush", ![c].base = base]
    BY <1>7 DEF ReadLatest
  <2> HIDE DEF i, base, found
  <2>5. /\ task' \in [Call -> TaskRecord] /\ TasksStay(c) /\ task'[c].at = "flush"
        /\ task'[c].endpoint = i /\ task'[c].base = base
    <3>1. /\ task'[c] = [task[c] EXCEPT !.at = "flush", !.base = base]
          /\ TasksStay(c)
      BY <1>1, <2>4 DEF TasksStay
    <3>2. task'[c] \in TaskRecord
      <4>1. task[c] \in TaskRecord
        BY <1>1
      <4> QED BY <2>3, <3>1, <4>1 DEF TaskRecord
    <3>3. task' \in [Call -> TaskRecord]
      BY <1>1, <2>4, <3>2
    <3> QED BY <1>1, <3>1, <3>3 DEF TaskRecord, i
  <2>6. UNCHANGED <<owner, schemas, stamped, plan, historyVars, catalogFaults>>
    BY <1>7 DEF ReadLatest
  <2>7. Fits(c)
    BY <2>1, <2>2, <2>3, <2>5, <2>6 DEF Fits
  <2> QED BY <1>1, <2>5, <2>6, <2>7, QuietTask
<1>8. CASE FailTask(c)
  <2>1. catalogFaults' \in 0..MaxFaults
    BY <1>1, <1>8 DEF FailTask
  <2> QED BY <1>3, <1>8, <2>1 DEF FailTask
<1> QED BY <1>4, <1>5, <1>6, <1>7, <1>8

-----------------------------------------------------------------------------
(* Creation.                                                               *)

(* A call below the limit passes the guard.                                *)
LEMMA PassSound ==
  ASSUME CatalogTypeOK, CatalogSound, NEW c \in Call, NEW u \in Tenant, NEW limit \in Allowance,
         Pass(u, limit), limit # Null => Cardinality(Owned(u)) < limit,
         task' \in [Call -> TaskRecord], TasksStay(c), task'[c].at = "insert", task'[c].who = u,
         UNCHANGED <<owner, schemas, stamped, plan, catalogFaults>>
  PROVE  CatalogTypeOK' /\ CatalogSound'
<1>1. /\ granted' \in [Tenant -> Nat \cup {Null}] /\ peak' \in [Tenant -> Nat]
      /\ \A v \in Tenant : v # u => granted'[v] = granted[v] /\ peak'[v] = peak[v]
      /\ peak'[u] >= Cardinality(Inserting(u)) + 1
      /\ granted'[u] # Null => limit \in Nat /\ limit # Null /\ granted'[u] >= limit
  BY PassFacts
<1>2. CatalogTypeOK'
  BY <1>1 DEF CatalogTypeOK
<1>3. ChainsSound'
  BY DEF CatalogSound, ChainsSound
<1>4. TasksSound' /\ FlushesSound'
  <2>1. Grows /\ \A i \in Endpoint : Cardinality(schemas'[i]) \in Nat
    BY DEF Grows, CatalogSound, ChainsSound
  <2>2. Fits(c)
    BY DEF Fits
  <2> QED BY <2>1, <2>2, TasksKept
<1>5. CountsSound'
  <2> SUFFICES ASSUME NEW v \in Tenant, granted'[v] # Null
               PROVE  Cardinality(Owned(v)') + Cardinality(Inserting(v)') + 1
                         <= granted'[v] + peak'[v]
    BY DEF CountsSound
  <2>1. Owned(v)' = Owned(v) /\ Cardinality(Owned(v)) \in Nat
        /\ Cardinality(Inserting(v)) \in Nat /\ IsFiniteSet(Inserting(v))
    BY FiniteEndpoints DEF Owned
  <2>2. CASE v # u
    <3>1. Inserting(v)' \subseteq Inserting(v)
      BY <2>2 DEF Inserting, TaskAt, TasksStay
    <3>2. Cardinality(Inserting(v)') \in Nat /\ Cardinality(Inserting(v)') <= Cardinality(Inserting(v))
      BY <2>1, <3>1, FS_Subset, FS_CardinalityType
    <3>3. granted[v] \in Nat /\ peak[v] \in Nat /\ granted'[v] = granted[v] /\ peak'[v] = peak[v]
      BY <1>1, <2>2 DEF CatalogTypeOK
    <3>4. Cardinality(Owned(v)) + Cardinality(Inserting(v)) + 1 <= granted[v] + peak[v]
      BY <3>3 DEF CatalogSound, CountsSound
    <3> QED BY <2>1, <3>2, <3>3, <3>4
  <2>3. CASE v = u
    <3>1. Inserting(v)' \subseteq Inserting(v) \cup {c}
      BY DEF Inserting, TaskAt, TasksStay
    <3>3. /\ Cardinality(Inserting(v)') \in Nat
          /\ Cardinality(Inserting(v)') <= Cardinality(Inserting(v)) + 1
      BY <2>1, <3>1, OneMore
    <3>4. /\ granted'[v] \in Nat /\ peak'[v] \in Nat /\ limit \in Nat /\ granted'[v] >= limit
          /\ Cardinality(Owned(v)) < limit /\ peak'[v] >= Cardinality(Inserting(v)) + 1
      BY <1>1, <2>3
    <3> QED BY <2>1, <3>3, <3>4
  <2> QED BY <2>2, <2>3
<1> QED BY <1>2, <1>3, <1>4, <1>5 DEF CatalogSound

LEMMA ReadPlanSound ==
  ASSUME CatalogTypeOK, CatalogSound, NEW c \in Call, NEW u \in Tenant, ReadPlan(c, u)
  PROVE  CatalogTypeOK' /\ CatalogSound'
<1>1. /\ task \in [Call -> TaskRecord] /\ plan[u] \in Allowance /\ catalogFaults \in 0..MaxFaults
  BY DEF CatalogTypeOK
<1>2. /\ task' \in [Call -> TaskRecord] /\ TasksStay(c)
      /\ task'[c].at = (IF plan[u] = Null THEN "insert" ELSE "count")
      /\ task'[c].who = u /\ task'[c].limit = plan[u]
  BY <1>1 DEF ReadPlan, AllowedBy, Enter, TaskRecord, TasksStay
<1>3. UNCHANGED <<owner, schemas, stamped, plan, catalogFaults>>
  BY DEF ReadPlan
<1>4. CASE plan[u] = Null
  <2>1. Pass(u, Null) /\ Null \in Allowance
    BY <1>4 DEF ReadPlan, AllowedBy, Allowance
  <2> QED BY <1>2, <1>3, <1>4, <2>1, PassSound
<1>5. CASE plan[u] # Null
  <2>1. plan[u] \in Limit /\ UNCHANGED historyVars
    BY <1>1, <1>5 DEF Allowance, AllowedBy, ReadPlan
  <2>2. Fits(c)
    BY <1>2, <1>5, <2>1 DEF Fits
  <2> QED BY <1>1, <1>2, <1>3, <1>5, <2>1, <2>2, QuietTask
<1> QED BY <1>4, <1>5

LEMMA CountSound ==
  ASSUME CatalogTypeOK, CatalogSound, NEW c \in Call, CountOwned(c)
  PROVE  CatalogTypeOK' /\ CatalogSound'
<1> DEFINE u == task[c].who
<1>1. /\ task \in [Call -> TaskRecord] /\ catalogFaults \in 0..MaxFaults
      /\ u \in Tenant /\ task[c].limit \in Limit /\ task[c].limit \in Allowance
  BY DEF CatalogTypeOK, CatalogSound, TasksSound, CountOwned, TaskAt, Allowance
<1>2. UNCHANGED <<owner, schemas, stamped, plan, catalogFaults>>
  BY DEF CountOwned
<1>3. CASE Quit(c) /\ UNCHANGED historyVars
  <2>1. task' \in [Call -> TaskRecord] /\ TasksStay(c) /\ task'[c].at = "over"
    BY <1>1, <1>3, QuitFacts
  <2>2. Fits(c)
    BY <2>1 DEF Fits
  <2> QED BY <1>1, <1>2, <1>3, <2>1, <2>2, QuietTask
<1>4. CASE /\ BelowLimit(Cardinality(Owned(u)), task[c].limit)
           /\ Pass(u, task[c].limit) /\ Advance(c, "insert")
  <2>1. task' \in [Call -> TaskRecord] /\ TasksStay(c) /\ task'[c].at = "insert" /\ task'[c].who = u
    BY <1>1, <1>4, AdvanceFacts
  <2>2. Cardinality(Owned(u)) < task[c].limit
    BY <1>4 DEF BelowLimit
  <2> QED BY <1>1, <1>2, <1>4, <2>1, <2>2, PassSound
<1> QED BY <1>3, <1>4 DEF CountOwned

LEMMA InsertSound ==
  ASSUME CatalogTypeOK, CatalogSound, NEW c \in Call, InsertEndpoint(c)
  PROVE  CatalogTypeOK' /\ CatalogSound'
<1> DEFINE u == task[c].who
<1>1. /\ task \in [Call -> TaskRecord] /\ owner \in [Endpoint -> Tenant \cup {Null}]
      /\ task[c].at = "insert" /\ u \in Tenant /\ u # Null /\ c \in Endpoint
  BY DEF CatalogTypeOK, CatalogSound, TasksSound, InsertEndpoint, TaskAt, Endpoint
<1>2. /\ owner' = [owner EXCEPT ![c] = u] /\ Quit(c)
      /\ UNCHANGED <<schemas, stamped, plan, granted, peak, catalogFaults>>
  BY DEF InsertEndpoint, historyVars
<1>3. task' \in [Call -> TaskRecord] /\ TasksStay(c) /\ task'[c].at = "over"
  BY <1>1, <1>2, QuitFacts
<1> HIDE DEF u
<1>4. CatalogTypeOK'
  BY <1>1, <1>2, <1>3 DEF CatalogTypeOK
<1>5. ChainsSound'
  <2>1. \A i \in Endpoint : owner[i] # Null => owner'[i] # Null
    BY <1>1, <1>2
  <2> QED BY <1>2, <2>1 DEF CatalogSound, ChainsSound
<1>6. TasksSound' /\ FlushesSound'
  <2>1. Grows /\ \A i \in Endpoint : Cardinality(schemas'[i]) \in Nat
    BY <1>2 DEF Grows, CatalogSound, ChainsSound
  <2>2. Fits(c)
    BY <1>3 DEF Fits
  <2> QED BY <1>3, <2>1, <2>2, TasksKept
<1>7. CountsSound'
  <2> SUFFICES ASSUME NEW v \in Tenant, granted'[v] # Null
               PROVE  Cardinality(Owned(v)') + Cardinality(Inserting(v)') + 1
                         <= granted'[v] + peak'[v]
    BY DEF CountsSound
  <2>1. /\ IsFiniteSet(Owned(v)) /\ Cardinality(Owned(v)) \in Nat
        /\ IsFiniteSet(Inserting(v)) /\ Cardinality(Inserting(v)) \in Nat
    BY FiniteEndpoints
  <2>2. granted[v] \in Nat /\ peak[v] \in Nat /\ granted'[v] = granted[v] /\ peak'[v] = peak[v]
    BY <1>2 DEF CatalogTypeOK
  <2>3. Cardinality(Owned(v)) + Cardinality(Inserting(v)) + 1 <= granted[v] + peak[v]
    BY <2>2 DEF CatalogSound, CountsSound
  <2>4. Inserting(v)' \subseteq Inserting(v) \ {c}
    BY <1>3, NotInserting
  <2>6. CASE v = u
    <3>1. c \in Inserting(v)
      BY <1>1, <2>6 DEF Inserting, TaskAt, u
    <3>2. /\ Cardinality(Inserting(v)') \in Nat
          /\ Cardinality(Inserting(v)') <= Cardinality(Inserting(v)) - 1
      BY <2>1, <2>4, <3>1, OneLess
    <3>3. Owned(v)' \subseteq Owned(v) \cup {c}
      BY <1>1, <1>2 DEF Owned
    <3>4. /\ Cardinality(Owned(v)') \in Nat
          /\ Cardinality(Owned(v)') <= Cardinality(Owned(v)) + 1
      BY <2>1, <3>3, OneMore
    <3> QED BY <2>1, <2>2, <2>3, <3>2, <3>4
  <2>7. CASE v # u
    <3>1. Owned(v)' \subseteq Owned(v)
      BY <1>1, <1>2, <2>7 DEF Owned
    <3>2. Cardinality(Owned(v)') \in Nat /\ Cardinality(Owned(v)') <= Cardinality(Owned(v))
      BY <2>1, <3>1, FS_Subset, FS_CardinalityType
    <3>3. /\ Cardinality(Inserting(v)') \in Nat
          /\ Cardinality(Inserting(v)') <= Cardinality(Inserting(v))
      BY <2>1, <2>4, FS_Subset, FS_CardinalityType
    <3> QED BY <2>1, <2>2, <2>3, <3>2, <3>3
  <2> QED BY <2>6, <2>7
<1> QED BY <1>4, <1>5, <1>6, <1>7 DEF CatalogSound

-----------------------------------------------------------------------------
(* Deletion, and versions.                                                 *)

LEMMA DeleteSound ==
  ASSUME CatalogTypeOK, CatalogSound, NEW c \in Call, DeleteRow(c)
  PROVE  CatalogTypeOK' /\ CatalogSound'
<1> DEFINE i == task[c].endpoint
<1>1. /\ task \in [Call -> TaskRecord] /\ owner \in [Endpoint -> Tenant \cup {Null}]
      /\ i \in Endpoint /\ stamped \subseteq Endpoint
  BY DEF CatalogTypeOK, CatalogSound, TasksSound, DeleteRow, TaskAt
<1>2. /\ owner' = (IF schemas[i] = {} THEN [owner EXCEPT ![i] = Null] ELSE owner)
      /\ stamped' = (IF schemas[i] = {} THEN stamped \ {i} ELSE stamped)
      /\ Quit(c) /\ UNCHANGED <<schemas, plan, historyVars, catalogFaults>>
  BY DEF DeleteRow
<1>3. task' \in [Call -> TaskRecord] /\ TasksStay(c) /\ task'[c].at = "over"
  BY <1>1, <1>2, QuitFacts
<1> HIDE DEF i
<1>4. /\ owner' \in [Endpoint -> Tenant \cup {Null}] /\ stamped' \subseteq Endpoint
      /\ \A k \in Endpoint : schemas[k] # {} => owner'[k] = owner[k]
      /\ \A k \in Endpoint : owner'[k] \in {owner[k], Null}
      /\ \A k \in Endpoint : k \in stamped' => k \in stamped
  BY <1>1, <1>2
<1>5. CatalogTypeOK'
  BY <1>2, <1>3, <1>4 DEF CatalogTypeOK, historyVars
<1>6. ChainsSound'
  BY <1>2, <1>4 DEF CatalogSound, ChainsSound
<1>7. TasksSound' /\ FlushesSound'
  <2>1. Grows /\ \A k \in Endpoint : Cardinality(schemas'[k]) \in Nat
    BY <1>2 DEF Grows, CatalogSound, ChainsSound
  <2>2. Fits(c)
    BY <1>3 DEF Fits
  <2> QED BY <1>3, <2>1, <2>2, TasksKept
<1>8. CountsSound'
  <2>1. \A u \in Tenant : Owned(u)' \subseteq Owned(u)
    BY <1>4 DEF Owned
  <2> QED BY <1>2, <1>3, <2>1, NotInserting, CountsKept DEF CatalogSound
<1> QED BY <1>5, <1>6, <1>7, <1>8 DEF CatalogSound

LEMMA StampSound ==
  ASSUME CatalogTypeOK, CatalogSound, NEW c \in Call, StampEndpoint(c)
  PROVE  CatalogTypeOK' /\ CatalogSound'
<1> DEFINE i == task[c].endpoint
<1>1. /\ task \in [Call -> TaskRecord] /\ i \in Endpoint /\ schemas[i] # {}
  BY DEF CatalogTypeOK, CatalogSound, TasksSound, FlushesSound, StampEndpoint, TaskAt
<1>2. /\ stamped' = stamped \cup {i} /\ Quit(c)
      /\ UNCHANGED <<owner, schemas, plan, historyVars, catalogFaults>>
  BY DEF StampEndpoint
<1>3. task' \in [Call -> TaskRecord] /\ TasksStay(c) /\ task'[c].at = "over"
  BY <1>1, <1>2, QuitFacts
<1> HIDE DEF i
<1>4. CatalogTypeOK'
  BY <1>1, <1>2, <1>3 DEF CatalogTypeOK, historyVars
<1>5. ChainsSound'
  BY <1>1, <1>2 DEF CatalogSound, ChainsSound
<1>6. TasksSound' /\ FlushesSound'
  <2>1. Grows /\ \A k \in Endpoint : Cardinality(schemas'[k]) \in Nat
    BY <1>2 DEF Grows, CatalogSound, ChainsSound
  <2>2. Fits(c)
    BY <1>3 DEF Fits
  <2> QED BY <1>3, <2>1, <2>2, TasksKept
<1>7. CountsSound'
  <2>1. \A u : Owned(u)' = Owned(u)
    BY <1>2 DEF Owned
  <2> QED BY <1>2, <1>3, <2>1, NotInserting, CountsKept DEF CatalogSound
<1> QED BY <1>4, <1>5, <1>6, <1>7 DEF CatalogSound

(* The version after one of the chain is either there, and the unique key  *)
(* refuses it, or the next.                                                *)
LEMMA FlushSound ==
  ASSUME CatalogTypeOK, CatalogSound, NEW c \in Call, FlushVersion(c)
  PROVE  CatalogTypeOK' /\ CatalogSound'
<1> DEFINE i == task[c].endpoint
           n == task[c].base
           longer == Demoted(schemas[i], n) \cup {[version |-> n + 1, latest |-> TRUE, prev |-> n]}
<1>1. /\ task \in [Call -> TaskRecord] /\ schemas \in [Endpoint -> SUBSET Version]
      /\ i \in Endpoint /\ n \in Nat /\ catalogFaults \in 0..MaxFaults
  <2>1. task[c] \in TaskRecord /\ task[c].at = "flush"
    BY DEF CatalogTypeOK, FlushVersion, TaskAt
  <2> QED BY <2>1 DEF CatalogTypeOK, CatalogSound, TasksSound, TaskRecord
<1>2. UNCHANGED <<owner, stamped, plan, historyVars, catalogFaults>>
  BY DEF FlushVersion
<1>3. PICK m \in Nat : m = Cardinality(schemas[i]) /\ schemas[i] = Chain(m)
  BY <1>1 DEF CatalogSound, ChainsSound
<1>4. n <= m
  BY <1>3 DEF CatalogSound, FlushesSound, FlushVersion, TaskAt
<1>5. CASE Quit(c) /\ UNCHANGED schemas
  <2>1. task' \in [Call -> TaskRecord] /\ TasksStay(c) /\ task'[c].at = "over"
    BY <1>1, <1>5, QuitFacts
  <2>2. Fits(c)
    BY <2>1 DEF Fits
  <2> QED BY <1>1, <1>2, <1>5, <2>1, <2>2, QuietTask
<1>6. CASE /\ owner[i] # Null /\ \A v \in schemas[i] : v.version # n + 1
           /\ schemas' = [schemas EXCEPT ![i] = longer]
           /\ IF task[c].op = "scan" THEN Advance(c, "stamp") ELSE Quit(c)
  <2>1. n = m
    <3>1. {v.version : v \in schemas[i]} = 1..m
      BY <1>3, ChainFacts
    <3>2. n + 1 \notin 1..m
      BY <1>6, <3>1
    <3> QED BY <1>1, <1>3, <1>4, <3>2
  <2>2. longer = Chain(n + 1)
    BY <1>1, <1>3, <2>1, ChainGrows
  <2>3. /\ schemas'[i] = Chain(n + 1)
        /\ \A k \in Endpoint : k # i => schemas'[k] = schemas[k]
    BY <1>1, <1>6, <2>2
  <2>4. /\ Chain(n + 1) \subseteq Version /\ Cardinality(Chain(n + 1)) = n + 1
        /\ Chain(n + 1) # {} /\ n + 1 \in Nat
    BY <1>1, ChainFacts
  <2>5. /\ task' \in [Call -> TaskRecord] /\ TasksStay(c)
        /\ task'[c].at \in {"stamp", "over"}
        /\ task'[c].at = "stamp" => task'[c].endpoint = i
    <3>1. CASE Quit(c)
      BY <1>1, <3>1, QuitFacts
    <3>2. CASE Advance(c, "stamp")
      BY <1>1, <3>2, AdvanceFacts
    <3> QED BY <1>6, <3>1, <3>2
  <2> HIDE DEF longer
  <2>6. schemas' \in [Endpoint -> SUBSET Version]
    BY <1>1, <1>6, <2>2, <2>4
  <2>7. CatalogTypeOK'
    BY <1>2, <2>5, <2>6 DEF CatalogTypeOK, historyVars
  <2>8. ChainsSound'
    <3> SUFFICES ASSUME NEW k \in Endpoint
                 PROVE  /\ Cardinality(schemas'[k]) \in Nat
                        /\ schemas'[k] = Chain(Cardinality(schemas'[k]))
                        /\ schemas'[k] # {} => owner[k] # Null
                        /\ k \in stamped => schemas'[k] # {}
      BY <1>2 DEF ChainsSound
    <3>1. CASE k = i
      BY <1>6, <2>3, <2>4, <3>1
    <3>2. CASE k # i
      BY <2>3, <3>2 DEF CatalogSound, ChainsSound
    <3> QED BY <3>1, <3>2
  <2>9. TasksSound' /\ FlushesSound'
    <3>1. \A k \in Endpoint : Cardinality(schemas[k]) \in Nat /\ Cardinality(schemas'[k]) \in Nat
      BY <2>8 DEF ChainsSound, CatalogSound
    <3>2. Grows
      <4> SUFFICES ASSUME NEW k \in Endpoint
                   PROVE  /\ Cardinality(schemas[k]) <= Cardinality(schemas'[k])
                          /\ schemas[k] # {} => schemas'[k] # {}
        BY DEF Grows
      <4>1. CASE k = i
        BY <1>1, <1>3, <2>1, <2>3, <2>4, <4>1
      <4>2. CASE k # i
        BY <2>3, <3>1, <4>2
      <4> QED BY <4>1, <4>2
    <3>3. Fits(c)
      BY <1>1, <2>3, <2>4, <2>5 DEF Fits
    <3> QED BY <2>5, <3>1, <3>2, <3>3, TasksKept
  <2>10. CountsSound'
    <3>1. \A u : Owned(u)' = Owned(u)
      BY <1>2 DEF Owned
    <3>2. \A u : Inserting(u)' \subseteq Inserting(u) \ {c}
      BY <2>5, NotInserting
    <3> QED BY <1>2, <3>1, <3>2, CountsKept DEF CatalogSound
  <2> QED BY <2>7, <2>8, <2>9, <2>10 DEF CatalogSound
<1> QED BY <1>5, <1>6 DEF FlushVersion

-----------------------------------------------------------------------------
(* The invariant, and the theorems.                                        *)

LEMMA CatalogInitial == CatalogInit => CatalogTypeOK /\ CatalogSound
<1> SUFFICES ASSUME CatalogInit PROVE CatalogTypeOK /\ CatalogSound
  OBVIOUS
<1>1. PICK o \in [Made -> Tenant] : owner = [i \in Endpoint |-> IF i \in Made THEN o[i] ELSE Null]
  BY DEF CatalogInit
<1>2. /\ stamped \in SUBSET Made /\ plan \in [Tenant -> Allowance]
      /\ schemas = [i \in Endpoint |-> IF i \in stamped THEN {FirstVersion} ELSE {}]
      /\ task = [c \in Call |-> NoTask] /\ catalogFaults = 0
      /\ granted = [u \in Tenant |-> Cardinality(Owned(u))]
      /\ peak = [u \in Tenant |-> 1]
  BY DEF CatalogInit
<1>3. {FirstVersion} = Chain(1) /\ {} = Chain(0)
  <2>1. Chain(0) = {}
    BY ChainFacts
  <2>2. VersionAt(1, 1) = FirstVersion
    BY DEF VersionAt, FirstVersion
  <2>3. Chain(1) = {VersionAt(1, 1)}
    BY DEF Chain
  <2> QED BY <2>1, <2>2, <2>3
<1>4. owner \in [Endpoint -> Tenant \cup {Null}] /\ \A i \in Made : owner[i] # Null
  BY <1>1 DEF Endpoint
<1>5. /\ Cardinality(Chain(0)) = 0 /\ Cardinality(Chain(1)) = 1
      /\ Chain(0) \subseteq Version /\ Chain(1) \subseteq Version
      /\ Chain(0) = {} /\ Chain(1) # {}
  BY ChainFacts
<1>6. \A i \in Endpoint : schemas[i] = IF i \in stamped THEN Chain(1) ELSE Chain(0)
  BY <1>2, <1>3
<1>7. schemas \in [Endpoint -> SUBSET Version]
  BY <1>2, <1>5, <1>6
<1>8. \A u \in Tenant : Cardinality(Owned(u)) \in Nat
  BY FiniteEndpoints
<1>9. CatalogTypeOK
  BY <1>2, <1>4, <1>7, <1>8, NoTaskTypes DEF CatalogTypeOK, Endpoint
<1>10. NoTask.at = "new"
  BY DEF NoTask
<1>11. TasksSound /\ FlushesSound
  BY <1>2, <1>10 DEF TasksSound, FlushesSound
<1>12. ChainsSound
  <2> SUFFICES ASSUME NEW i \in Endpoint
               PROVE  /\ Cardinality(schemas[i]) \in Nat
                      /\ schemas[i] = Chain(Cardinality(schemas[i]))
                      /\ schemas[i] # {} => owner[i] # Null
                      /\ i \in stamped => schemas[i] # {}
    BY DEF ChainsSound
  <2>1. CASE i \in stamped
    BY <1>2, <1>4, <1>5, <1>6, <2>1
  <2>2. CASE i \notin stamped
    BY <1>5, <1>6, <2>2
  <2> QED BY <2>1, <2>2
<1>13. CountsSound
  <2> SUFFICES ASSUME NEW u \in Tenant
               PROVE  Cardinality(Owned(u)) + Cardinality(Inserting(u)) + 1 <= granted[u] + peak[u]
    BY DEF CountsSound
  <2>1. Inserting(u) = {}
    BY <1>2, <1>10 DEF Inserting, TaskAt
  <2> QED BY <1>2, <1>8, <2>1, FS_EmptySet
<1> QED BY <1>9, <1>11, <1>12, <1>13 DEF CatalogSound

LEMMA CatalogStutter ==
  ASSUME CatalogTypeOK, CatalogSound, UNCHANGED catalogVars
  PROVE  CatalogTypeOK' /\ CatalogSound'
<1>1. UNCHANGED <<owner, schemas, stamped, plan, task, granted, peak, catalogFaults>>
  BY DEF catalogVars, historyVars
<1>2. CatalogTypeOK'
  BY <1>1 DEF CatalogTypeOK
<1>3. TasksSound' /\ ChainsSound' /\ FlushesSound'
  BY <1>1 DEF CatalogSound, TasksSound, ChainsSound, FlushesSound
<1>4. \A u : Owned(u)' = Owned(u) /\ Inserting(u)' = Inserting(u)
  BY <1>1 DEF Owned, Inserting, TaskAt
<1>5. CountsSound'
  BY <1>1, <1>4 DEF CatalogSound, CountsSound
<1> QED BY <1>2, <1>3, <1>5 DEF CatalogSound

LEMMA CatalogInvariant == CatalogSpec => [](CatalogTypeOK /\ CatalogSound)
<1>1. CatalogTypeOK /\ CatalogSound /\ CatalogNext => (CatalogTypeOK /\ CatalogSound)'
  BY PlanSound, QuietActions, ReadPlanSound, CountSound, InsertSound, DeleteSound,
     FlushSound, StampSound DEF CatalogNext
<1>2. CatalogTypeOK /\ CatalogSound /\ [CatalogNext]_catalogVars => (CatalogTypeOK /\ CatalogSound)'
  BY <1>1, CatalogStutter
<1> QED BY CatalogInitial, <1>2, PTL DEF CatalogSpec

(* The catalog keeps the shape of its state.                               *)
THEOREM CatalogTypes == CatalogSpec => []CatalogTypeOK
BY CatalogInvariant, PTL

(* However many scans and users append versions, and whoever deletes an    *)
(* endpoint meanwhile, its versions are one chain with one latest version. *)
THEOREM ChainsUnbroken == CatalogSpec => []VersionsChained
BY CatalogInvariant, SoundGivesChains, PTL

(* The limit of a plan is overshot by fewer endpoints than calls that were *)
(* past the guard at once.                                                 *)
THEOREM OvershootBounded == CatalogSpec => []EndpointsBounded
BY CatalogInvariant, SoundGivesBound, PTL
=============================================================================
