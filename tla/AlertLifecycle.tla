---------------------------- MODULE AlertLifecycle ----------------------------
(***************************************************************************)
(* The alerts of one type on one endpoint: the scanners that raise and     *)
(* resolve them, the listener of AlertDetectedEvent, and the owner who     *)
(* edits them.  No lock and no unique key guards the rows: every actor     *)
(* reads, and writes what it decided later.                                *)
(*                                                                         *)
(* A scan is a tick of a cron job (silence, volume spike) or a job of the  *)
(* scan queue (schema drift, duplicates), with the listener it sets off;   *)
(* replicas and overlapping jobs make several.                             *)
(***************************************************************************)
EXTENDS Naturals, FiniteSets

CONSTANTS
    Scan,       (* the scans that may overlap                              *)
    Owner,      (* the owner's PATCH requests that may overlap             *)
    Mails,      (* the owner is on a paid tier and wants alerts by email   *)
    MaxAlerts,  (* bound: rows ever inserted                               *)
    MaxEdits,   (* bound: the owner's edits                                *)
    MaxFaults   (* bound: crashes and failed queries                       *)

ASSUME ScanAssumption == IsFiniteSet(Scan)
ASSUME BoundsAssumption == MaxAlerts \in Nat /\ MaxEdits \in Nat /\ MaxFaults \in Nat
ASSUME MailsAssumption == Mails \in BOOLEAN

Alert == 1..MaxAlerts

VARIABLES
    traffic,    (* what a scanner would find, see Traffic                  *)
    endpoint,   (* the endpoint exists                                     *)
    created,    (* rows inserted so far, in the order of created_at        *)
    scanner,    (* scanner_status, "none" without a row                    *)
    fresh,      (* alerts whose updated_at is less than 30 minutes old     *)
    pc,         (* where each scan is                                      *)
    held,       (* the alert a scan has in hand                            *)
    edit,       (* the row an edit is about to write                       *)
    notice,     (* the in-app notification of each alert                   *)
    mailed,     (* alerts with a row in the email outbox                   *)
    lost,       (* history: alerts whose announcement a fault ate          *)
    revived,    (* history: resolved rows an edit made active again        *)
    edits, faults

rowVars == <<created, scanner, fresh>>
worldVars == <<traffic, endpoint>>
newsVars == <<notice, mailed, lost>>
vars == <<worldVars, rowVars, newsVars, pc, held, edit, revived, edits, faults>>

(* Within bounds, out of them, or not looked at: the endpoint is paused,   *)
(* its plan lacks the feature, or there is no baseline to compare with.    *)
Traffic == {"calm", "anomalous", "unwatched"}

Place == {"idle", "calm", "resolve", "check", "latest", "insert", "publish", "mail"}

NoEdit == [alert |-> 0, to |-> "none"]

Active == {a \in Alert : scanner[a] = "active"}
Newest(S) == CHOOSE a \in S : \A b \in S : b <= a

(* getActiveByEndpointAndType finds an active row of any age; a look at    *)
(* the latest row alone would miss those behind it.                        *)
AnyActiveLatest == created > 0 /\ scanner[created] = "active"
AnyActive == Active # {}

(* The row a scanner resolves: the newest active one, not the newest.      *)
ToResolveLatest == created
ToResolve == Newest(Active)

(* Resolved less than 30 minutes ago, not more; and not for good.          *)
CoolingDownInverted(a) == scanner[a] = "resolved" /\ a \notin fresh
CoolingDownForGood(a) == scanner[a] = "resolved"
CoolingDown(a) == scanner[a] = "resolved" /\ a \in fresh

(* Every alert is mailed, not only the first.                              *)
WantsMailOnce == Mails /\ mailed = {}
WantsMail == Mails

(* An edit needs a row.                                                    *)
EditableUnseen(a) == TRUE
Editable(a) == scanner[a] # "none"

(* Past the look for an active alert: what such a scan knows may be stale. *)
PastCheck == {s \in Scan : pc[s] \in {"latest", "insert"}}

Init ==
    /\ traffic = "calm" /\ endpoint = TRUE
    /\ created = 0
    /\ scanner = [a \in Alert |-> "none"]
    /\ fresh = {}
    /\ pc = [s \in Scan |-> "idle"]
    /\ held = [s \in Scan |-> 0]
    /\ edit = [o \in Owner |-> NoEdit]
    /\ notice = [a \in Alert |-> "none"]
    /\ mailed = {} /\ lost = {}
    /\ revived = 0 /\ edits = 0 /\ faults = 0

-----------------------------------------------------------------------------
(* A scan.                                                                 *)

Goto(s, where) == pc' = [pc EXCEPT ![s] = where]

(* nativeUpdate of the whole row: updated_at becomes now, whoever writes.  *)
WriteRow(a, to) ==
    IF scanner[a] = "none"
      THEN UNCHANGED rowVars
      ELSE /\ scanner' = [scanner EXCEPT ![a] = to]
           /\ fresh' = fresh \union {a}
           /\ UNCHANGED created

(* The scanner reads the endpoint and its traffic, and decides.            *)
Tick(s) ==
    /\ pc[s] = "idle"
    /\ endpoint
    /\ \/ traffic = "calm" /\ Goto(s, "calm")
       \/ traffic = "anomalous" /\ Goto(s, "check")
    /\ UNCHANGED <<worldVars, rowVars, newsVars, held, edit, revived, edits, faults>>

(* Back within bounds: the scanner looks for the alert to resolve.         *)
FindActive(s) ==
    /\ pc[s] = "calm"
    /\ \/ Active = {} /\ Goto(s, "idle") /\ UNCHANGED held
       \/ Active # {} /\ Goto(s, "resolve") /\ held' = [held EXCEPT ![s] = ToResolve]
    /\ UNCHANGED <<worldVars, rowVars, newsVars, edit, revived, edits, faults>>

Resolve(s) ==
    /\ pc[s] = "resolve"
    /\ WriteRow(held[s], "resolved")
    /\ held' = [held EXCEPT ![s] = 0]
    /\ Goto(s, "idle")
    /\ UNCHANGED <<worldVars, newsVars, edit, revived, edits, faults>>

(* AlertDetectedListener: an active alert of the type swallows the event.  *)
CheckActive(s) ==
    /\ pc[s] = "check"
    /\ Goto(s, IF AnyActive THEN "idle" ELSE "latest")
    /\ UNCHANGED <<worldVars, rowVars, newsVars, held, edit, revived, edits, faults>>

(* So does the latest one, resolved less than 30 minutes ago.              *)
CheckLatest(s) ==
    /\ pc[s] = "latest"
    /\ Goto(s, IF created > 0 /\ CoolingDown(created) THEN "idle" ELSE "insert")
    /\ UNCHANGED <<worldVars, rowVars, newsVars, held, edit, revived, edits, faults>>

Insert(s) ==
    /\ pc[s] = "insert"
    /\ endpoint
    /\ created < MaxAlerts
    /\ created' = created + 1
    /\ scanner' = [scanner EXCEPT ![created + 1] = "active"]
    /\ fresh' = fresh \union {created + 1}
    /\ held' = [held EXCEPT ![s] = created + 1]
    /\ Goto(s, "publish")
    /\ UNCHANGED <<worldVars, newsVars, edit, revived, edits, faults>>

(* The foreign key rejects an alert of an endpoint that is gone; the model *)
(* gives up likewise at its own bound.                                     *)
InsertRejected(s) ==
    /\ pc[s] = "insert"
    /\ ~endpoint \/ created = MaxAlerts
    /\ Goto(s, "idle")
    /\ UNCHANGED <<worldVars, rowVars, newsVars, held, edit, revived, edits, faults>>

(* NewNotificationEvent, then the settings and the subscription.           *)
Publish(s) ==
    /\ pc[s] = "publish"
    /\ notice' = [notice EXCEPT ![held[s]] = "sent"]
    /\ \/ WantsMail /\ Goto(s, "mail") /\ UNCHANGED held
       \/ ~WantsMail /\ Goto(s, "idle") /\ held' = [held EXCEPT ![s] = 0]
    /\ UNCHANGED <<worldVars, rowVars, mailed, lost, edit, revived, edits, faults>>

Enqueue(s) ==
    /\ pc[s] = "mail"
    /\ mailed' = mailed \union {held[s]}
    /\ held' = [held EXCEPT ![s] = 0]
    /\ Goto(s, "idle")
    /\ UNCHANGED <<worldVars, rowVars, notice, lost, edit, revived, edits, faults>>

ScanStep(s) ==
    \/ FindActive(s) \/ Resolve(s)
    \/ CheckActive(s) \/ CheckLatest(s) \/ Insert(s) \/ InsertRejected(s)
    \/ Publish(s) \/ Enqueue(s)

(* The process dies, or a query of the scan or of its listener fails. No   *)
(* one catches the error, and nothing publishes the event again.           *)
CrashScan(s) ==
    /\ pc[s] # "idle"
    /\ faults < MaxFaults
    /\ faults' = faults + 1
    /\ lost' = IF pc[s] \in {"publish", "mail"} THEN lost \union {held[s]} ELSE lost
    /\ held' = [held EXCEPT ![s] = 0]
    /\ Goto(s, "idle")
    /\ UNCHANGED <<worldVars, rowVars, notice, mailed, edit, revived, edits>>

(* NewNotificationListener inserts the notification on its own.            *)
StoreNotice(a) ==
    /\ notice[a] = "sent"
    /\ notice' = [notice EXCEPT ![a] = "stored"]
    /\ UNCHANGED <<worldVars, rowVars, mailed, lost, pc, held, edit, revived, edits, faults>>

LoseNotice(a) ==
    /\ notice[a] = "sent"
    /\ faults < MaxFaults
    /\ faults' = faults + 1
    /\ notice' = [notice EXCEPT ![a] = "none"]
    /\ lost' = lost \union {a}
    /\ UNCHANGED <<worldVars, rowVars, mailed, pc, held, edit, revived, edits>>

-----------------------------------------------------------------------------
(* The owner, and the world.                                               *)

(* PATCH /webhook-alerts/:id reads the row. It will write the status the   *)
(* request names or the one it read: either of the two.                    *)
ReadForEdit(o, a, to) ==
    /\ edit[o] = NoEdit
    /\ Editable(a)
    /\ edits < MaxEdits
    /\ edits' = edits + 1
    /\ edit' = [edit EXCEPT ![o] = [alert |-> a, to |-> to]]
    /\ UNCHANGED <<worldVars, rowVars, newsVars, pc, held, revived, faults>>

WriteEdit(o) ==
    /\ edit[o] # NoEdit
    /\ WriteRow(edit[o].alert, edit[o].to)
    /\ revived' = IF scanner[edit[o].alert] = "resolved" /\ edit[o].to = "active"
                    THEN revived + 1 ELSE revived
    /\ edit' = [edit EXCEPT ![o] = NoEdit]
    /\ UNCHANGED <<worldVars, newsVars, pc, held, edits, faults>>

(* The traffic changes, or the endpoint is paused or resumed.              *)
Turn(to) ==
    /\ traffic' = to
    /\ UNCHANGED <<endpoint, rowVars, newsVars, pc, held, edit, revived, edits, faults>>

(* Thirty minutes since the last write of the row.                         *)
Cool(a) ==
    /\ a \in fresh
    /\ fresh' = fresh \ {a}
    /\ UNCHANGED <<worldVars, created, scanner, newsVars, pc, held, edit, revived, edits, faults>>

(* Alerts go with their endpoint; notifications and mails stay.            *)
DeleteEndpoint ==
    /\ endpoint
    /\ endpoint' = FALSE
    /\ scanner' = [a \in Alert |-> "none"]
    /\ fresh' = {}
    /\ UNCHANGED <<traffic, created, newsVars, pc, held, edit, revived, edits, faults>>

Next ==
    \/ \E s \in Scan : Tick(s) \/ ScanStep(s) \/ CrashScan(s)
    \/ \E a \in Alert : \/ StoreNotice(a) \/ LoseNotice(a) \/ Cool(a)
                        \/ \E o \in Owner, to \in {"active", "resolved"} : ReadForEdit(o, a, to)
    \/ \E o \in Owner : WriteEdit(o)
    \/ \E to \in Traffic : Turn(to)
    \/ DeleteEndpoint

Spec == Init /\ [][Next]_vars

(* Cron ticks keep coming, a started handler runs on, time passes.         *)
Fairness ==
    /\ \A s \in Scan : WF_vars(Tick(s)) /\ WF_vars(ScanStep(s))
    /\ \A a \in Alert : WF_vars(Cool(a)) /\ WF_vars(StoreNotice(a))
    /\ \A o \in Owner : WF_vars(WriteEdit(o))

FairSpec == Spec /\ Fairness

-----------------------------------------------------------------------------
(* Properties.                                                             *)

(* The types, the rows that exist, and what a scan in the middle of a      *)
(* write has in hand.                                                      *)
TypeOK ==
    /\ traffic \in Traffic /\ endpoint \in BOOLEAN
    /\ created \in 0..MaxAlerts
    /\ scanner \in [Alert -> {"none", "active", "resolved"}]
    /\ \A a \in Alert : scanner[a] # "none" => a <= created
    /\ fresh \subseteq {a \in Alert : scanner[a] # "none"}
    /\ pc \in [Scan -> Place]
    /\ held \in [Scan -> 0..MaxAlerts]
    /\ \A s \in Scan : pc[s] \in {"resolve", "publish", "mail"} => held[s] \in 1..created
    /\ \A o \in Owner : edit[o] \in {NoEdit} \union [alert : 1..created, to : {"active", "resolved"}]
    /\ notice \in [Alert -> {"none", "sent", "stored"}]
    /\ \A a \in Alert : notice[a] # "none" => a <= created
    /\ mailed \subseteq 1..created /\ lost \subseteq 1..created
    /\ revived \in Nat /\ edits \in 0..MaxEdits /\ faults \in 0..MaxFaults

(* The active rows of one type never outnumber the scans that overlap, but *)
(* for those an edit revived: a scan passes the active check only when     *)
(* there is none, however stale what it read is by the time it inserts.    *)
DuplicatesBounded ==
    Cardinality(Active) + Cardinality(PastCheck) <= Cardinality(Scan) + revived

(* The scan that holds a row it has yet to announce.                       *)
InHand(a, where) == \E s \in Scan : pc[s] \in where /\ held[s] = a

(* An inserted alert silences the detections that follow, so it has to     *)
(* reach its owner: in the app and, where wanted, by email, unless a fault *)
(* hit on the way.                                                         *)
AlertAnnounced ==
    \A a \in 1..created \ lost :
        /\ notice[a] # "none" \/ InHand(a, {"publish"})
        /\ Mails => a \in mailed \/ InHand(a, {"publish", "mail"})

(* While no scans overlap and no owner interferes, alerts of a type are    *)
(* spaced: a row appears only when every earlier one is resolved and has   *)
(* been so for 30 minutes.                                                 *)
AlertsSpaced ==
    [][ created' > created /\ Cardinality(Scan) = 1 /\ edits = 0
          => \A a \in 1..created : scanner[a] = "resolved" /\ a \notin fresh ]_vars

Over == ~endpoint \/ created = MaxAlerts

(* Traffic that stays out of bounds on a watched endpoint has an active    *)
(* alert in the end, whatever was resolved, silenced or lost before.       *)
AlertRaised == <>[](traffic = "anomalous") => <>[](Active # {} \/ Over)

(* Traffic that stays within bounds has none in the end: the duplicates of *)
(* a race and the rows an edit revived are resolved one tick at a time.    *)
AlertsCleared == <>[](traffic = "calm") => <>[](Active = {})
=============================================================================
