---------------------------- MODULE WebhookScan ----------------------------
(***************************************************************************)
(* The scans of the requests of one endpoint. Every request that arrives   *)
(* is announced once it is stored, a listener puts it on the scan queue,   *)
(* and the job compares it side by side with the schema of the endpoint    *)
(* and with the requests of the last half hour. Replicas take jobs at      *)
(* once, and neither half of a scan waits for any other.                   *)
(***************************************************************************)
EXTENDS Persistence, Sequences

CONSTANTS
    Layout,     (* the sets of fields that bodies have                     *)
    Inherited,  (* those that any object has: constructor, toString ...    *)
    Kind,       (* types of fields                                         *)
    Value,      (* what tells bodies of one schema apart                   *)
    MaxArrivals (* bound: requests that arrive                             *)

(* The flattened schema of a body: the type of each of its fields.         *)
Shape == UNION {[fields -> Kind] : fields \in Layout}
NoFields == [f \in {} |-> Null]

(* A body, by its schema and its hash. A request over the limit is stored  *)
(* without either: its body is read as {}, its hash is the empty string.   *)
Body == [shape : Shape, value : Value]
Blank == [shape |-> NoFields, value |-> Null]

ASSUME WebhookScanAssumption ==
    /\ MaxArrivals \in Nat /\ {} \in Layout
    /\ Null \notin Value /\ Null \notin Body \cup {Blank}

(* Requests are numbered in the order they arrive.                         *)
Arrival == 1..MaxArrivals

VARIABLES
    stored,     (* the body in the row of each request, Null without row   *)
    arrived,    (* history: the body it came with                          *)
    recent,     (* requests received in the last half hour                 *)
    scan,       (* each request: its job, and both halves of its scan      *)
    chain,      (* the schema of each version of the endpoint, in order    *)
    twinned,    (* requests announced as duplicates                        *)
    drifted,    (* requests announced as drifts                            *)
    scanFaults

scanVars == <<stored, arrived, recent, scan, chain, twinned, drifted, scanFaults>>

(* The half that looks for a drift has the number of versions in base.     *)
NoScan == [job |-> "none", drift |-> "todo", twin |-> "todo", base |-> 0]

ScanInit ==
    /\ stored = [c \in Arrival |-> Null]
    /\ arrived = [c \in Arrival |-> Null]
    /\ recent = {}
    /\ scan = [c \in Arrival |-> NoScan]
    /\ chain \in {<<>>, <<NoFields>>}
    /\ twinned = {} /\ drifted = {}
    /\ scanFaults = 0

-----------------------------------------------------------------------------
(* diffSchemas. `k in previous` holds of inherited names too, so a field   *)
(* with such a name is found changed when it is new, and never removed.    *)
Added(previous, current) == DOMAIN current \ (DOMAIN previous \cup Inherited)
Removed(previous, current) == DOMAIN previous \ (DOMAIN current \cup Inherited)
TypeChanged(previous, current) ==
    {k \in DOMAIN current \cap (DOMAIN previous \cup Inherited) :
        k \in DOMAIN previous => previous[k] # current[k]}

DiffersInFields(previous, current) ==
    Added(previous, current) # {} \/ Removed(previous, current) # {}
Differs(previous, current) ==
    DiffersInFields(previous, current) \/ TypeChanged(previous, current) # {}

JobAt(c, where) == scan[c].job = where

CarryJob(c, where) == scan' = [scan EXCEPT ![c].job = where]

arrivalVars == <<stored, arrived, recent>>
told == <<twinned, drifted>>

(* A request arrives and is stored; RequestReceivedEvent is published.     *)
ArriveToScan(c, body) ==
    /\ arrived[c] = Null /\ \A d \in Arrival : d < c => arrived[d] # Null
    /\ stored' = [stored EXCEPT ![c] = body]
    /\ arrived' = [arrived EXCEPT ![c] = body]
    /\ recent' = recent \cup {c}
    /\ CarryJob(c, "announced")
    /\ UNCHANGED <<chain, told, scanFaults>>

(* The listener finds the row, tells the sockets and enqueues the scan.    *)
EnqueueScan(c) ==
    /\ JobAt(c, "announced")
    /\ CarryJob(c, IF stored[c] = Null THEN "over" ELSE "waiting")
    /\ UNCHANGED <<arrivalVars, chain, told, scanFaults>>

(* A worker takes the job; a request that is gone is skipped.              *)
TakeScan(c) ==
    /\ JobAt(c, "waiting")
    /\ CarryJob(c, IF stored[c] = Null THEN "over" ELSE "active")
    /\ UNCHANGED <<arrivalVars, chain, told, scanFaults>>

-----------------------------------------------------------------------------
(* One half: the schema.                                                   *)
DriftAt(c, where) == JobAt(c, "active") /\ scan[c].drift = where

DriftTo(c, where) == scan' = [scan EXCEPT ![c].drift = where]

(* Without a version the schema becomes the first; one that differs from   *)
(* the latest is told, and becomes the next if the plan has generated code.*)
CompareSchema(c) ==
    LET differs == chain # <<>> /\ Differs(chain[Len(chain)], arrived[c].shape) IN
    /\ DriftAt(c, "todo")
    /\ \/ (chain = <<>> \/ differs) /\ DriftTo(c, "append")
       \/ chain # <<>> /\ DriftTo(c, "done")
    /\ drifted' = IF differs THEN drifted \cup {c} ELSE drifted
    /\ UNCHANGED <<arrivalVars, chain, twinned, scanFaults>>

(* createNextVersion reads the latest version once more ...                *)
ReadChain(c) ==
    /\ DriftAt(c, "append")
    /\ scan' = [scan EXCEPT ![c] = [@ EXCEPT !.drift = "flush", !.base = Len(chain)]]
    /\ UNCHANGED <<arrivalVars, chain, told, scanFaults>>

(* ... and the unique key refuses the next one if another was quicker.     *)
AppendVersion(c) ==
    LET ahead == Len(chain) = scan[c].base IN
    /\ DriftAt(c, "flush")
    /\ chain' = IF ahead THEN Append(chain, arrived[c].shape) ELSE chain
    /\ scan' = [scan EXCEPT ![c] = [@ EXCEPT !.drift = IF ahead THEN "done" ELSE "failed", !.base = 0]]
    /\ UNCHANGED <<arrivalVars, told, scanFaults>>

-----------------------------------------------------------------------------
(* The other half: other requests with the same hash in the last half hour.*)
(* Two bodies hash alike when they are equal but for the order of keys,    *)
(* which no body here has.                                                 *)
SameHash(d, c) == stored[d] = arrived[c]

TwinsAndSelf(c) == {d \in recent : SameHash(d, c)}
Twins(c) == {d \in recent \ {c} : SameHash(d, c)}

LookForTwin(c) ==
    /\ JobAt(c, "active") /\ scan[c].twin = "todo"
    /\ scan' = [scan EXCEPT ![c].twin = "done"]
    /\ twinned' = IF stored[c] # Null /\ Twins(c) # {} THEN twinned \cup {c} ELSE twinned
    /\ UNCHANGED <<arrivalVars, chain, drifted, scanFaults>>

-----------------------------------------------------------------------------
Halves(c) == {scan[c].drift, scan[c].twin}

CloseScan(c) ==
    /\ JobAt(c, "active") /\ Halves(c) \subseteq {"done", "failed"}
    /\ CarryJob(c, "over")
    /\ UNCHANGED <<arrivalVars, chain, told, scanFaults>>

(* A query of one half throws; the other half goes on.                     *)
FailHalf(c) ==
    /\ JobAt(c, "active")
    /\ scanFaults < MaxFaults
    /\ scanFaults' = scanFaults + 1
    /\ \/ scan[c].drift \in {"todo", "append", "flush"} /\ DriftTo(c, "failed")
       \/ scan[c].twin = "todo" /\ scan' = [scan EXCEPT ![c].twin = "failed"]
    /\ UNCHANGED <<arrivalVars, chain, told>>

(* The process dies: an event it had published is lost; a job it had taken *)
(* starts anew, or fails if it stalled before.                             *)
CrashScan(c) ==
    /\ scanFaults < MaxFaults
    /\ scanFaults' = scanFaults + 1
    /\ \/ JobAt(c, "announced") /\ CarryJob(c, "over")
       \/ /\ JobAt(c, "active")
          /\ \E where \in {"waiting", "over"} :
                 scan' = [scan EXCEPT ![c] = [NoScan EXCEPT !.job = where]]
    /\ UNCHANGED <<arrivalVars, chain, told>>

-----------------------------------------------------------------------------
(* A user deletes a request, or half an hour has gone since the oldest.    *)
DeleteStored(c) ==
    /\ stored[c] # Null
    /\ stored' = [stored EXCEPT ![c] = Null]
    /\ UNCHANGED <<arrived, recent, scan, chain, told, scanFaults>>

AgeOldest ==
    /\ \E c \in recent : (\A d \in recent : c <= d) /\ recent' = recent \ {c}
    /\ UNCHANGED <<stored, arrived, scan, chain, told, scanFaults>>

ScanNext ==
    \/ \E c \in Arrival :
           \/ \E body \in Body \cup {Blank} : ArriveToScan(c, body)
           \/ EnqueueScan(c) \/ TakeScan(c)
           \/ CompareSchema(c) \/ ReadChain(c) \/ AppendVersion(c) \/ LookForTwin(c)
           \/ CloseScan(c) \/ FailHalf(c) \/ CrashScan(c) \/ DeleteStored(c)
    \/ AgeOldest

ScanSpec == ScanInit /\ [][ScanNext]_scanVars

-----------------------------------------------------------------------------
(* Properties.                                                             *)

ScanTypeOK ==
    /\ stored \in [Arrival -> Body \cup {Blank, Null}]
    /\ arrived \in [Arrival -> Body \cup {Blank, Null}]
    /\ recent \subseteq Arrival
    /\ scan \in [Arrival -> [job : {"none", "announced", "waiting", "active", "over"},
                             drift : {"todo", "append", "flush", "done", "failed"},
                             twin : {"todo", "done", "failed"},
                             base : Nat]]
    /\ chain \in Seq(Shape)
    /\ twinned \subseteq Arrival /\ drifted \subseteq Arrival
    /\ scanFaults \in 0..MaxFaults

Came(c) == arrived[c] # Null

(* Of two requests alike that both looked, and are stored and recent yet,  *)
(* one at least was told of as a duplicate, whichever came or looked       *)
(* first; and a request is told of only if another came that is like it.   *)
TwinsTold ==
    /\ \A c, d \in recent :
           /\ c # d /\ stored[c] # Null /\ stored[c] = stored[d]
           /\ scan[c].twin = "done" /\ scan[d].twin = "done"
           => c \in twinned \/ d \in twinned
    /\ \A c \in twinned : \E d \in Arrival \ {c} : Came(d) /\ arrived[d] = arrived[c]

(* All that the first has and the second has not are inherited names.      *)
SpelledBy(version, shape) ==
    /\ DOMAIN shape \subseteq DOMAIN version
    /\ DOMAIN version \subseteq DOMAIN shape \cup Inherited
    /\ \A k \in DOMAIN shape : version[k] = shape[k]

(* A request whose schema was compared to the end has its schema among the *)
(* versions, but for fields with inherited names that it misses, or was    *)
(* told of as a drift, though others compare and append at the same time.  *)
DriftsTold ==
    \A c \in Arrival : scan[c].drift = "done" =>
        c \in drifted \/ \E n \in DOMAIN chain : SpelledBy(chain[n], arrived[c].shape)

ScansTell == TwinsTold /\ DriftsTold
=============================================================================
