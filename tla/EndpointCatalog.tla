-------------------------- MODULE EndpointCatalog --------------------------
(***************************************************************************)
(* The catalog of endpoints: their creation under the limit of the plan,   *)
(* their deletion, and the versions of the schema of their payloads, which *)
(* scans of arriving requests and users append. A guard counts endpoints   *)
(* before the handler inserts one, a scan reads the latest version before  *)
(* it inserts the next, and only unique and foreign keys hold them back.   *)
(***************************************************************************)
EXTENDS Persistence, FiniteSetsExt

CONSTANTS
    Tenant,     (* users                                                   *)
    Made,       (* endpoints made before the behaviour starts              *)
    Limit       (* numbers of endpoints a plan may allow                   *)

ASSUME EndpointCatalogAssumption ==
    /\ Made \cap Call = {} /\ Null \notin Tenant \cup Made \cup Call \cup Limit
    /\ IsFiniteSet(Made) /\ Limit \subseteq Nat

(* An endpoint is named by the call that creates it.                       *)
Endpoint == Made \cup Call

(* What a plan allows; Null is a plan without a limit, or no packet.       *)
Allowance == Limit \cup {Null}

(* The versions of the schema of an endpoint. Scans give every request the *)
(* default event type, so an endpoint has one chain; 0 is no version.      *)
Version == [version : Nat, latest : BOOLEAN, prev : Nat]

VARIABLES
    owner,      (* the user each row of endpoints is of, Null without row  *)
    schemas,    (* the rows of endpoint_schemas of each endpoint           *)
    stamped,    (* endpoints with last_schema_at                           *)
    plan,       (* what the plan of each user allows now                   *)
    task,       (* each call: where it is and what it has loaded           *)
    granted,    (* history: the greatest limit the guard let a user pass   *)
    peak,       (* history: most creations of a user past the guard        *)
    catalogFaults

historyVars == <<granted, peak>>
catalogVars == <<owner, schemas, stamped, plan, task, historyVars, catalogFaults>>

NoTask == [op |-> "none", at |-> "new", who |-> Null, endpoint |-> Null,
           limit |-> Null, base |-> 0]

Owned(u) == {i \in Endpoint : owner[i] = u}

Latest(i) == {v \in schemas[i] : v.latest}

FirstVersion == [version |-> 1, latest |-> TRUE, prev |-> 0]

CatalogInit ==
    /\ \E o \in [Made -> Tenant] : owner = [i \in Endpoint |-> IF i \in Made THEN o[i] ELSE Null]
    /\ stamped \in SUBSET Made
    /\ schemas = [i \in Endpoint |-> IF i \in stamped THEN {FirstVersion} ELSE {}]
    /\ plan \in [Tenant -> Allowance]
    /\ task = [c \in Call |-> NoTask]
    /\ granted = [u \in Tenant |-> Cardinality(Owned(u))]
    /\ peak = [u \in Tenant |-> 1]
    /\ catalogFaults = 0

-----------------------------------------------------------------------------
(* Nobody asks what a call was that is over.                               *)
Closed == [NoTask EXCEPT !.at = "over"]

Quit(c) == task' = [task EXCEPT ![c] = Closed]

Advance(c, where) == task' = [task EXCEPT ![c].at = where]

(* The first step of a call.                                               *)
Enter(c, op, at, u, i, limit) ==
    /\ task[c].at = "new" /\ \A d \in Call : d < c => task[d].at # "new"
    /\ task' = [task EXCEPT ![c] = [op |-> op, at |-> at, who |-> u, endpoint |-> i,
                                    limit |-> limit, base |-> 0]]

TaskAt(c, where) == task[c].at = where

(* A new plan, by an event of Stripe.                                      *)
ChangePlan(u) ==
    /\ \E a \in Allowance : plan' = [plan EXCEPT ![u] = a]
    /\ UNCHANGED <<owner, schemas, stamped, task, historyVars, catalogFaults>>

-----------------------------------------------------------------------------
(* The number of endpoints the features of the packet of a user give, and  *)
(* Null where they give none, or none that can be parsed.                  *)
AllowedBy(u) == plan[u]

(* Creation. The guard reads the plan ...                                  *)
Inserting(u) == {c \in Call : TaskAt(c, "insert") /\ task[c].who = u}

(* ... and lets the call pass: the handler goes on to the insert.          *)
Pass(u, limit) ==
    /\ granted' = [granted EXCEPT ![u] = IF limit = Null \/ @ = Null THEN Null ELSE Max({@, limit})]
    /\ peak' = [peak EXCEPT ![u] = Max({@, Cardinality(Inserting(u)) + 1})]

ReadPlan(c, u) ==
    /\ Enter(c, "create", IF AllowedBy(u) = Null THEN "insert" ELSE "count", u, Null, AllowedBy(u))
    /\ IF AllowedBy(u) = Null THEN Pass(u, Null) ELSE UNCHANGED historyVars
    /\ UNCHANGED <<owner, schemas, stamped, plan, catalogFaults>>

(* It counts, and refuses at the limit: 429.                               *)
UpToLimit(n, limit) == n <= limit
BelowLimit(n, limit) == n < limit

CountOwned(c) ==
    LET u == task[c].who IN
    /\ TaskAt(c, "count")
    /\ \/ /\ BelowLimit(Cardinality(Owned(u)), task[c].limit)
          /\ Pass(u, task[c].limit)
          /\ Advance(c, "insert")
       \/ /\ ~BelowLimit(Cardinality(Owned(u)), task[c].limit)
          /\ Quit(c)
          /\ UNCHANGED historyVars
    /\ UNCHANGED <<owner, schemas, stamped, plan, catalogFaults>>

InsertEndpoint(c) ==
    /\ TaskAt(c, "insert")
    /\ owner' = [owner EXCEPT ![c] = task[c].who]
    /\ Quit(c)
    /\ UNCHANGED <<schemas, stamped, plan, historyVars, catalogFaults>>

-----------------------------------------------------------------------------
(* Deletion, by the owner: not found otherwise.                            *)
AskToDelete(c, u, i) ==
    /\ \/ owner[i] = u /\ Enter(c, "delete", "delete", u, i, Null)
       \/ owner[i] # u /\ Enter(c, "none", "over", Null, Null, Null)
    /\ UNCHANGED <<owner, schemas, stamped, plan, historyVars, catalogFaults>>

(* The foreign key of its versions, which does not cascade, keeps the row. *)
DeleteRow(c) ==
    LET i == task[c].endpoint IN
    /\ TaskAt(c, "delete")
    /\ owner' = IF schemas[i] = {} THEN [owner EXCEPT ![i] = Null] ELSE owner
    /\ stamped' = IF schemas[i] = {} THEN stamped \ {i} ELSE stamped
    /\ Quit(c)
    /\ UNCHANGED <<schemas, plan, historyVars, catalogFaults>>

-----------------------------------------------------------------------------
(* Versions. A scan of a request, or a user who wants the code generated   *)
(* again, finds the endpoint ...                                           *)
AskForVersion(c, op, i) ==
    /\ \/ owner[i] # Null /\ Enter(c, op, "look", owner[i], i, Null)
       \/ owner[i] = Null /\ Enter(c, "none", "over", Null, Null, Null)
    /\ UNCHANGED <<owner, schemas, stamped, plan, historyVars, catalogFaults>>

(* ... and the latest version. A scan goes on when there is none, or when  *)
(* the payload differs and the plan includes generated code ...            *)
ScanSchema(c) ==
    /\ TaskAt(c, "look") /\ task[c].op = "scan"
    /\ \/ Advance(c, "generate")
       \/ Latest(task[c].endpoint) # {} /\ Quit(c)
    /\ UNCHANGED <<owner, schemas, stamped, plan, historyVars, catalogFaults>>

(* ... and a user, when there is one: not found otherwise.                 *)
LookAtLatest(c) ==
    /\ TaskAt(c, "look") /\ task[c].op = "regenerate"
    /\ \/ Latest(task[c].endpoint) # {} /\ Advance(c, "generate")
       \/ Latest(task[c].endpoint) = {} /\ Quit(c)
    /\ UNCHANGED <<owner, schemas, stamped, plan, historyVars, catalogFaults>>

(* The language model writes the code; a scan does without when it cannot. *)
GenerateArtifacts(c) ==
    /\ TaskAt(c, "generate")
    /\ Advance(c, "generated")
    /\ UNCHANGED <<owner, schemas, stamped, plan, historyVars, catalogFaults>>

(* createNextVersion looks for the latest version once more ...            *)
ReadLatest(c) ==
    LET found == Latest(task[c].endpoint) IN
    /\ TaskAt(c, "generated")
    /\ task' = [task EXCEPT ![c].at = "flush",
                    ![c].base = IF found = {} THEN 0 ELSE Max({v.version : v \in found})]
    /\ UNCHANGED <<owner, schemas, stamped, plan, historyVars, catalogFaults>>

LeftLatest(versions, n) == versions
Demoted(versions, n) ==
    {IF v.version = n THEN [version |-> n, latest |-> FALSE, prev |-> v.prev] ELSE v : v \in versions}

(* ... and writes it and the next one in one transaction, which the unique *)
(* key of endpoint and version, or an endpoint gone meanwhile, fails.      *)
FlushVersion(c) ==
    LET i == task[c].endpoint
        n == task[c].base
    IN  /\ TaskAt(c, "flush")
        /\ \/ /\ owner[i] # Null /\ \A v \in schemas[i] : v.version # n + 1
              /\ schemas' = [schemas EXCEPT ![i] = Demoted(@, n) \cup
                                {[version |-> n + 1, latest |-> TRUE, prev |-> n]}]
              /\ IF task[c].op = "scan" THEN Advance(c, "stamp") ELSE Quit(c)
           \/ /\ owner[i] = Null \/ \E v \in schemas[i] : v.version = n + 1
              /\ Quit(c)
              /\ UNCHANGED schemas
        /\ UNCHANGED <<owner, stamped, plan, historyVars, catalogFaults>>

(* A scan notes the schema on the endpoint as well, in a flush of its own. *)
StampEndpoint(c) ==
    /\ TaskAt(c, "stamp")
    /\ stamped' = stamped \cup {task[c].endpoint}
    /\ Quit(c)
    /\ UNCHANGED <<owner, schemas, plan, historyVars, catalogFaults>>

(* A query throws, the code a user wants cannot be generated, or the       *)
(* process dies: what was flushed stays.                                   *)
FailTask(c) ==
    /\ task[c].at \notin {"new", "over"}
    /\ catalogFaults < MaxFaults
    /\ catalogFaults' = catalogFaults + 1
    /\ Quit(c)
    /\ UNCHANGED <<owner, schemas, stamped, plan, historyVars>>

CatalogNext ==
    \/ \E u \in Tenant : ChangePlan(u)
    \/ \E c \in Call :
           \/ \E u \in Tenant : ReadPlan(c, u)
           \/ \E u \in Tenant, i \in Endpoint : AskToDelete(c, u, i)
           \/ \E op \in {"scan", "regenerate"}, i \in Endpoint : AskForVersion(c, op, i)
           \/ CountOwned(c) \/ InsertEndpoint(c) \/ DeleteRow(c)
           \/ ScanSchema(c) \/ LookAtLatest(c) \/ GenerateArtifacts(c)
           \/ ReadLatest(c) \/ FlushVersion(c) \/ StampEndpoint(c)
           \/ FailTask(c)

CatalogSpec == CatalogInit /\ [][CatalogNext]_catalogVars

-----------------------------------------------------------------------------
(* Properties.                                                             *)

TaskRecord ==
    [op : {"none", "create", "delete", "scan", "regenerate"},
     at : {"new", "count", "insert", "delete", "look", "generate", "generated", "flush",
           "stamp", "over"},
     who : Tenant \cup {Null}, endpoint : Endpoint \cup {Null},
     limit : Allowance, base : Nat]

CatalogTypeOK ==
    /\ owner \in [Endpoint -> Tenant \cup {Null}]
    /\ schemas \in [Endpoint -> SUBSET Version]
    /\ stamped \subseteq Endpoint
    /\ plan \in [Tenant -> Allowance]
    /\ task \in [Call -> TaskRecord]
    /\ granted \in [Tenant -> Nat \cup {Null}]
    /\ peak \in [Tenant -> Nat]
    /\ catalogFaults \in 0..MaxFaults

(* The guard and the insert are not one step, so a user may come to more   *)
(* endpoints than the plan allows: by at most as many as were ever past    *)
(* the guard at once, less one, whatever plans and endpoints came and went *)
(* meanwhile.                                                              *)
EndpointsBounded ==
    \A u \in Tenant : granted[u] # Null => Cardinality(Owned(u)) + 1 <= granted[u] + peak[u]

(* The versions of an endpoint are one chain without a gap or a fork, its  *)
(* last version and no other is the latest, and its endpoint is there:     *)
(* however many scans and users read the same latest version, and whoever  *)
(* deletes the endpoint meanwhile. One with last_schema_at has a version.  *)
VersionsChained ==
    \A i \in Endpoint :
        /\ {v.version : v \in schemas[i]} = 1..Cardinality(schemas[i])
        /\ \A v \in schemas[i] : v.prev = v.version - 1
                                 /\ (v.latest <=> v.version = Cardinality(schemas[i]))
        /\ schemas[i] # {} => owner[i] # Null
        /\ i \in stamped => schemas[i] # {}
=============================================================================
