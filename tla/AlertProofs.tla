----------------------------- MODULE AlertProofs -----------------------------
(***************************************************************************)
(* Proofs about AlertLifecycle for every set of scans and owners and every *)
(* bound.                                                                  *)
(***************************************************************************)
EXTENDS AlertLifecycle, FiniteSetTheorems, TLAPS

USE ScanAssumption, BoundsAssumption, MailsAssumption
    DEF Alert, AnyActive, ToResolve, WantsMail, Editable

(* A set of alerts that is not empty has a newest member: the order of the *)
(* naturals, turned round, is well founded.                                *)
LEMMA NewestInSet ==
  ASSUME NEW S \in SUBSET Alert, S # {}
  PROVE  Newest(S) \in S
<1> DEFINE ages == {MaxAlerts - a : a \in S}
<1>1. ages \subseteq Nat
  <2> SUFFICES ASSUME NEW a \in S PROVE MaxAlerts - a \in Nat
    OBVIOUS
  <2>1. a \in 1..MaxAlerts
    OBVIOUS
  <2> QED BY <2>1
<1>2. ages # {}
  <2>1. PICK a \in S : TRUE
    OBVIOUS
  <2>2. MaxAlerts - a \in ages
    BY <2>1
  <2> QED BY <2>2
<1>3. PICK x \in ages : \A y \in ages : ~ (<<y, x>> \in OpToRel(<, Nat))
  <2> HIDE DEF ages
  <2> QED BY <1>1, <1>2, NatLessThanWellFounded, WFMin
<1>4. \A y \in ages : ~ (y < x)
  <2> HIDE DEF ages
  <2> QED BY <1>1, <1>3 DEF OpToRel
<1>5. PICK a \in S : x = MaxAlerts - a
  OBVIOUS
<1>6. ASSUME NEW b \in S PROVE b <= a
  <2>1. MaxAlerts - b \in ages
    OBVIOUS
  <2>2. ~ (MaxAlerts - b < MaxAlerts - a)
    BY <1>4, <1>5, <2>1
  <2>3. a \in Nat /\ b \in Nat
    OBVIOUS
  <2> QED BY <2>2, <2>3
<1> QED BY <1>6 DEF Newest

LEMMA WriteRowType ==
  ASSUME TypeOK, NEW a \in 1..created, NEW to \in {"active", "resolved"}, WriteRow(a, to)
  PROVE  /\ created' = created
         /\ scanner' \in [Alert -> {"none", "active", "resolved"}]
         /\ \A b \in Alert : scanner'[b] = "none" <=> scanner[b] = "none"
         /\ fresh' \subseteq {b \in Alert : scanner'[b] # "none"}
<1>1. a \in Alert /\ scanner \in [Alert -> {"none", "active", "resolved"}]
  BY DEF TypeOK
<1>2. fresh \subseteq {b \in Alert : scanner[b] # "none"}
  BY DEF TypeOK
<1>3. CASE scanner[a] = "none"
  BY <1>1, <1>2, <1>3 DEF WriteRow, rowVars
<1>4. CASE scanner[a] # "none"
  BY <1>1, <1>2, <1>4 DEF WriteRow
<1> QED BY <1>3, <1>4

LEMMA GotoType ==
  ASSUME TypeOK, NEW s \in Scan, NEW where \in Place, Goto(s, where)
  PROVE  /\ pc' \in [Scan -> Place]
         /\ pc'[s] = where
         /\ \A t \in Scan \ {s} : pc'[t] = pc[t]
BY DEF TypeOK, Goto

(* Where a scan may go without an alert in hand. *)
Free == {"idle", "calm", "check", "latest", "insert"}

LEMMA GotoFree ==
  ASSUME TypeOK, NEW s \in Scan, NEW where \in Free, Goto(s, where),
         \A t \in Scan \ {s} : held'[t] = held[t], held' \in [Scan -> 0..MaxAlerts],
         created' = created
  PROVE  /\ pc' \in [Scan -> Place]
         /\ \A t \in Scan : pc'[t] \in {"resolve", "publish", "mail"} => held'[t] \in 1..created'
<1>1. where \in Place /\ where \notin {"resolve", "publish", "mail"}
  BY DEF Free, Place
<1>2. /\ pc' \in [Scan -> Place]
      /\ pc'[s] = where
      /\ \A t \in Scan \ {s} : pc'[t] = pc[t]
  BY <1>1, GotoType
<1>3. \A t \in Scan : pc[t] \in {"resolve", "publish", "mail"} => held[t] \in 1..created
  BY DEF TypeOK
<1>4. ASSUME NEW t \in Scan, pc'[t] \in {"resolve", "publish", "mail"}
      PROVE  held'[t] \in 1..created'
  BY <1>1, <1>2, <1>3, <1>4
<1> QED BY <1>2, <1>4

LEMMA TypeStep == TypeOK /\ [Next]_vars => TypeOK'
<1> SUFFICES ASSUME TypeOK, [Next]_vars PROVE TypeOK'
  OBVIOUS
<1>. USE DEF TypeOK, Traffic, NoEdit, worldVars, rowVars, newsVars
<1>1. ASSUME NEW s \in Scan, Tick(s) PROVE TypeOK'
  <2>1. PICK where \in Free : Goto(s, where)
    BY <1>1 DEF Tick, Free
  <2> QED BY <1>1, <2>1, GotoFree DEF Tick
<1>2. ASSUME NEW s \in Scan, ScanStep(s) PROVE TypeOK'
  <2>1. CASE FindActive(s)
    <3>1. CASE Active = {}
      BY <2>1, <3>1, GotoFree DEF FindActive, Free
    <3>2. CASE Active # {}
      <4>1. Newest(Active) \in 1..created
        <5>1. Active \in SUBSET Alert
          BY DEF Active
        <5>2. Newest(Active) \in Active
          BY <5>1, <3>2, NewestInSet
        <5>3. Newest(Active) \in Alert /\ scanner[Newest(Active)] = "active"
          BY <5>2 DEF Active
        <5> QED BY <5>3
      <4>2. Goto(s, "resolve") /\ held' = [held EXCEPT ![s] = Newest(Active)]
        BY <2>1, <3>2 DEF FindActive
      <4>3. pc' \in [Scan -> Place] /\ \A t \in Scan \ {s} : pc'[t] = pc[t]
        BY <4>2, GotoType DEF Place
      <4>4. held' \in [Scan -> 0..MaxAlerts]
        BY <4>1, <4>2
      <4>5. \A t \in Scan : pc'[t] \in {"resolve", "publish", "mail"} => held'[t] \in 1..created
        BY <4>1, <4>2, <4>3
      <4> QED BY <2>1, <4>3, <4>4, <4>5 DEF FindActive
    <3> QED BY <3>1, <3>2
  <2>2. CASE Resolve(s)
    <3>1. held[s] \in 1..created
      BY <2>2 DEF Resolve
    <3>2. held' \in [Scan -> 0..MaxAlerts] /\ \A t \in Scan \ {s} : held'[t] = held[t]
      BY <2>2 DEF Resolve
    <3> QED BY <2>2, <3>1, <3>2, WriteRowType, GotoFree DEF Resolve, Free
  <2>3. CASE CheckActive(s)
    BY <2>3, GotoFree DEF CheckActive, Free
  <2>4. CASE CheckLatest(s)
    BY <2>4, GotoFree DEF CheckLatest, Free
  <2>5. CASE Insert(s)
    <3>1. /\ created + 1 \in Alert
          /\ scanner' \in [Alert -> {"none", "active", "resolved"}]
          /\ \A a \in Alert : scanner'[a] # "none" => a <= created'
          /\ fresh' \subseteq {a \in Alert : scanner'[a] # "none"}
      BY <2>5 DEF Insert
    <3>2. held' \in [Scan -> 0..MaxAlerts]
      BY <2>5 DEF Insert
    <3>3. \A t \in Scan : pc'[t] \in {"resolve", "publish", "mail"} => held'[t] \in 1..created'
      BY <2>5 DEF Insert, Goto
    <3>4. pc' \in [Scan -> Place]
      BY <2>5, GotoType DEF Insert, Place
    <3> QED BY <2>5, <3>1, <3>2, <3>3, <3>4 DEF Insert
  <2>6. CASE InsertRejected(s)
    BY <2>6, GotoFree DEF InsertRejected, Free
  <2>7. CASE Publish(s)
    <3>1. held[s] \in 1..created /\ held[s] \in Alert
      BY <2>7 DEF Publish
    <3>2. /\ notice' \in [Alert -> {"none", "sent", "stored"}]
          /\ \A a \in Alert : notice'[a] # "none" => a <= created
      BY <2>7, <3>1 DEF Publish
    <3>3. CASE Mails
      <4>1. Goto(s, "mail") /\ held' = held
        BY <2>7, <3>3 DEF Publish
      <4>2. pc' \in [Scan -> Place] /\ \A t \in Scan \ {s} : pc'[t] = pc[t]
        BY <4>1, GotoType DEF Place
      <4>3. \A t \in Scan : pc'[t] \in {"resolve", "publish", "mail"} => held'[t] \in 1..created
        BY <3>1, <4>1, <4>2
      <4> QED BY <2>7, <3>2, <4>1, <4>2, <4>3 DEF Publish
    <3>4. CASE ~Mails
      <4>1. Goto(s, "idle") /\ held' = [held EXCEPT ![s] = 0] /\ created' = created
        BY <2>7, <3>4 DEF Publish
      <4>2. held' \in [Scan -> 0..MaxAlerts] /\ \A t \in Scan \ {s} : held'[t] = held[t]
        BY <4>1
      <4>3. "idle" \in Free
        BY DEF Free
      <4> QED BY <2>7, <3>2, <4>1, <4>2, <4>3, GotoFree DEF Publish
    <3> QED BY <3>3, <3>4
  <2>8. CASE Enqueue(s)
    <3>1. held[s] \in 1..created
      BY <2>8 DEF Enqueue
    <3>2. mailed' \subseteq 1..created
      BY <2>8, <3>1 DEF Enqueue
    <3>3. held' \in [Scan -> 0..MaxAlerts] /\ \A t \in Scan \ {s} : held'[t] = held[t]
      BY <2>8 DEF Enqueue
    <3>4. "idle" \in Free
      BY DEF Free
    <3> QED BY <2>8, <3>2, <3>3, <3>4, GotoFree DEF Enqueue
  <2> QED BY <1>2, <2>1, <2>2, <2>3, <2>4, <2>5, <2>6, <2>7, <2>8 DEF ScanStep
<1>3. ASSUME NEW s \in Scan, CrashScan(s) PROVE TypeOK'
  <2>1. lost' \subseteq 1..created
    <3>1. pc[s] \in {"publish", "mail"} => held[s] \in 1..created
      OBVIOUS
    <3> QED BY <1>3, <3>1 DEF CrashScan
  <2>2. held' \in [Scan -> 0..MaxAlerts] /\ \A t \in Scan \ {s} : held'[t] = held[t]
    BY <1>3 DEF CrashScan
  <2>3. "idle" \in Free
    BY DEF Free
  <2> QED BY <1>3, <2>1, <2>2, <2>3, GotoFree DEF CrashScan
<1>4. ASSUME NEW a \in Alert, StoreNotice(a) \/ LoseNotice(a) PROVE TypeOK'
  <2>1. a \in 1..created
    BY <1>4 DEF StoreNotice, LoseNotice
  <2>2. /\ notice' \in [Alert -> {"none", "sent", "stored"}]
        /\ \A b \in Alert : notice'[b] # "none" => b <= created
    BY <1>4, <2>1 DEF StoreNotice, LoseNotice
  <2>3. lost' \subseteq 1..created
    BY <1>4, <2>1 DEF StoreNotice, LoseNotice
  <2>4. CASE StoreNotice(a)
    BY <2>2, <2>4 DEF StoreNotice
  <2>5. CASE LoseNotice(a)
    BY <2>2, <2>3, <2>5 DEF LoseNotice
  <2> QED BY <1>4, <2>4, <2>5
<1>5. ASSUME NEW a \in Alert, Cool(a) PROVE TypeOK'
  BY <1>5 DEF Cool
<1>6. ASSUME NEW o \in Owner, NEW a \in Alert, NEW to \in {"active", "resolved"},
             ReadForEdit(o, a, to)
      PROVE TypeOK'
  BY <1>6 DEF ReadForEdit
<1>7. ASSUME NEW o \in Owner, WriteEdit(o) PROVE TypeOK'
  <2>1. edit[o].alert \in 1..created /\ edit[o].to \in {"active", "resolved"}
    BY <1>7 DEF WriteEdit
  <2> QED BY <1>7, <2>1, WriteRowType DEF WriteEdit
<1>8. ASSUME NEW to \in Traffic, Turn(to) PROVE TypeOK'
  BY <1>8 DEF Turn
<1>9. CASE DeleteEndpoint
  BY <1>9 DEF DeleteEndpoint
<1>10. CASE UNCHANGED vars
  BY <1>10 DEF vars
<1>. HIDE DEF TypeOK, Traffic
<1> QED BY <1>1, <1>2, <1>3, <1>4, <1>5, <1>6, <1>7, <1>8, <1>9, <1>10 DEF Next

(* Rows, scans and edits keep their types, and a scan that is writing has  *)
(* an alert that was inserted in hand.                                     *)
THEOREM AlertTypes == Spec => []TypeOK
<1>1. Init => TypeOK
  BY DEF Init, TypeOK, Traffic, Place, NoEdit
<1>2. TypeOK /\ [Next]_vars => TypeOK'
  BY TypeStep
<1> QED BY <1>1, <1>2, PTL DEF Spec

-----------------------------------------------------------------------------
(* How many active rows there can be.                                      *)

LEMMA FiniteParts ==
  /\ IsFiniteSet(Active) /\ IsFiniteSet(PastCheck)
  /\ Cardinality(Active) \in Nat /\ Cardinality(PastCheck) \in Nat /\ Cardinality(Scan) \in Nat
  /\ Cardinality(PastCheck) <= Cardinality(Scan)
<1>1. IsFiniteSet(Alert)
  BY FS_Interval
<1>2. Active \in SUBSET Alert /\ PastCheck \in SUBSET Scan
  BY DEF Active, PastCheck
<1>3. IsFiniteSet(Active) /\ IsFiniteSet(PastCheck) /\ Cardinality(PastCheck) <= Cardinality(Scan)
  BY <1>1, <1>2, FS_Subset DEF Active, PastCheck
<1> QED BY <1>3, FS_CardinalityType

(* Neither count grows, and no revival is forgotten. *)
LEMMA FewerKeepBound ==
  ASSUME TypeOK, DuplicatesBounded,
         Active' \subseteq Active, PastCheck' \subseteq PastCheck, revived' = revived
  PROVE  DuplicatesBounded'
<1>1. Cardinality(Active') \in Nat /\ Cardinality(Active') <= Cardinality(Active)
  BY FiniteParts, FS_Subset, FS_CardinalityType
<1>2. Cardinality(PastCheck') \in Nat /\ Cardinality(PastCheck') <= Cardinality(PastCheck)
  BY FiniteParts, FS_Subset, FS_CardinalityType
<1> QED BY <1>1, <1>2, FiniteParts DEF DuplicatesBounded, TypeOK

LEMMA OneMore ==
  ASSUME NEW S, IsFiniteSet(S), NEW x
  PROVE  /\ IsFiniteSet(S \union {x})
         /\ Cardinality(S \union {x}) \in Nat
         /\ Cardinality(S \union {x}) <= Cardinality(S) + 1
<1>1. Cardinality(S) \in Nat
  BY FS_CardinalityType
<1>2. /\ IsFiniteSet(S \cup {x})
      /\ Cardinality(S \cup {x}) = IF x \in S THEN Cardinality(S) ELSE Cardinality(S) + 1
  BY FS_AddElement, Zenon
<1> QED BY <1>1, <1>2

LEMMA BoundStep == TypeOK /\ DuplicatesBounded /\ [Next]_vars => DuplicatesBounded'
<1> SUFFICES ASSUME TypeOK, DuplicatesBounded, [Next]_vars PROVE DuplicatesBounded'
  OBVIOUS
<1>. USE DEF worldVars, rowVars, newsVars
<1>1. ASSUME NEW s \in Scan, Goto(s, pc'[s]), pc'[s] \notin {"latest", "insert"}
      PROVE  PastCheck' \subseteq PastCheck
  BY <1>1 DEF PastCheck, Goto, TypeOK
<1>2. ASSUME UNCHANGED scanner PROVE Active' = Active
  BY <1>2 DEF Active
<1>3. ASSUME UNCHANGED pc PROVE PastCheck' = PastCheck
  BY <1>3 DEF PastCheck
<1>4. ASSUME NEW a, WriteRow(a, "resolved") PROVE Active' \subseteq Active
  BY <1>4 DEF WriteRow, Active, TypeOK
<1>5. ASSUME NEW s \in Scan, Tick(s) PROVE DuplicatesBounded'
  <2>1. Goto(s, pc'[s]) /\ pc'[s] \notin {"latest", "insert"}
    BY <1>5 DEF Tick, Goto, TypeOK
  <2> QED BY <1>5, <1>1, <1>2, <2>1, FewerKeepBound DEF Tick
<1>6. ASSUME NEW s \in Scan, ScanStep(s) PROVE DuplicatesBounded'
  <2>1. CASE FindActive(s)
    <3>1. Goto(s, pc'[s]) /\ pc'[s] \notin {"latest", "insert"}
      BY <2>1 DEF FindActive, Goto, TypeOK
    <3> QED BY <2>1, <1>1, <1>2, <3>1, FewerKeepBound DEF FindActive
  <2>2. CASE Resolve(s)
    <3>1. Goto(s, pc'[s]) /\ pc'[s] \notin {"latest", "insert"}
      BY <2>2 DEF Resolve, Goto, TypeOK
    <3> QED BY <2>2, <1>1, <1>4, <3>1, FewerKeepBound DEF Resolve
  <2>3. CASE CheckActive(s)
    <3>1. CASE Active # {}
      <4>1. Goto(s, pc'[s]) /\ pc'[s] \notin {"latest", "insert"}
        BY <2>3, <3>1 DEF CheckActive, Goto, TypeOK
      <4> QED BY <2>3, <1>1, <1>2, <4>1, FewerKeepBound DEF CheckActive
    <3>2. CASE Active = {}
      <4>1. Active' = {} /\ revived' = revived
        BY <2>3, <3>2, <1>2 DEF CheckActive
      <4>2. PastCheck' \in SUBSET Scan
        BY DEF PastCheck
      <4>3. Cardinality(PastCheck') <= Cardinality(Scan) /\ Cardinality(PastCheck') \in Nat
        BY <4>2, ScanAssumption, FS_Subset, FS_CardinalityType
      <4> QED BY <4>1, <4>3, FiniteParts, FS_EmptySet DEF DuplicatesBounded, TypeOK
    <3> QED BY <3>1, <3>2
  <2>4. CASE CheckLatest(s)
    <3>1. PastCheck' \subseteq PastCheck
      BY <2>4 DEF CheckLatest, Goto, PastCheck, TypeOK
    <3> QED BY <2>4, <1>2, <3>1, FewerKeepBound DEF CheckLatest
  <2>5. CASE Insert(s)
    <3>1. Active' \subseteq Active \union {created + 1}
      BY <2>5 DEF Insert, Active, TypeOK
    <3>2. PastCheck' = PastCheck \ {s} /\ s \in PastCheck
      BY <2>5 DEF Insert, Goto, PastCheck, TypeOK
    <3>3. /\ IsFiniteSet(Active \union {created + 1})
          /\ Cardinality(Active \union {created + 1}) <= Cardinality(Active) + 1
      BY FiniteParts, OneMore
    <3>4. Cardinality(Active') \in Nat /\ Cardinality(Active') <= Cardinality(Active) + 1
      <4>1. Active' \in SUBSET (Active \union {created + 1})
        BY <3>1
      <4>2. IsFiniteSet(Active') /\ Cardinality(Active') <= Cardinality(Active \union {created + 1})
        BY <4>1, <3>3, FS_Subset
      <4>3. Cardinality(Active') \in Nat /\ Cardinality(Active \union {created + 1}) \in Nat
        BY <4>2, <3>3, FS_CardinalityType
      <4> QED BY <4>2, <4>3, <3>3, FiniteParts
    <3>5. Cardinality(PastCheck') = Cardinality(PastCheck) - 1
      BY <3>2, FiniteParts, FS_RemoveElement
    <3> QED BY <2>5, <3>4, <3>5, FiniteParts DEF Insert, DuplicatesBounded, TypeOK
  <2>6. CASE InsertRejected(s)
    <3>1. Goto(s, pc'[s]) /\ pc'[s] \notin {"latest", "insert"}
      BY <2>6 DEF InsertRejected, Goto, TypeOK
    <3> QED BY <2>6, <1>1, <1>2, <3>1, FewerKeepBound DEF InsertRejected
  <2>7. CASE Publish(s)
    <3>1. Goto(s, pc'[s]) /\ pc'[s] \notin {"latest", "insert"}
      BY <2>7 DEF Publish, Goto, TypeOK
    <3> QED BY <2>7, <1>1, <1>2, <3>1, FewerKeepBound DEF Publish
  <2>8. CASE Enqueue(s)
    <3>1. Goto(s, pc'[s]) /\ pc'[s] \notin {"latest", "insert"}
      BY <2>8 DEF Enqueue, Goto, TypeOK
    <3> QED BY <2>8, <1>1, <1>2, <3>1, FewerKeepBound DEF Enqueue
  <2> QED BY <1>6, <2>1, <2>2, <2>3, <2>4, <2>5, <2>6, <2>7, <2>8 DEF ScanStep
<1>7. ASSUME NEW s \in Scan, CrashScan(s) PROVE DuplicatesBounded'
  <2>1. Goto(s, pc'[s]) /\ pc'[s] \notin {"latest", "insert"}
    BY <1>7 DEF CrashScan, Goto, TypeOK
  <2> QED BY <1>7, <1>1, <1>2, <2>1, FewerKeepBound DEF CrashScan
<1>8. ASSUME NEW a \in Alert, StoreNotice(a) \/ LoseNotice(a) \/ Cool(a)
      PROVE  DuplicatesBounded'
  BY <1>8, <1>2, <1>3, FewerKeepBound DEF StoreNotice, LoseNotice, Cool
<1>9. ASSUME NEW o \in Owner, NEW a \in Alert, NEW to \in {"active", "resolved"},
             ReadForEdit(o, a, to)
      PROVE  DuplicatesBounded'
  BY <1>9, <1>2, <1>3, FewerKeepBound DEF ReadForEdit
<1>10. ASSUME NEW o \in Owner, WriteEdit(o) PROVE DuplicatesBounded'
  <2> DEFINE a == edit[o].alert
  <2>1. a \in Alert /\ edit[o].to \in {"active", "resolved"}
    BY <1>10 DEF WriteEdit, TypeOK
  <2>2. PastCheck' = PastCheck
    BY <1>10, <1>3 DEF WriteEdit
  <2>3. CASE scanner[a] = "resolved" /\ edit[o].to = "active"
    <3>1. Active' = Active \union {a} /\ revived' = revived + 1
      BY <1>10, <2>1, <2>3 DEF WriteEdit, WriteRow, Active, TypeOK
    <3>2. Cardinality(Active') <= Cardinality(Active) + 1 /\ Cardinality(Active') \in Nat
      BY <3>1, FiniteParts, OneMore
    <3> QED BY <2>2, <3>1, <3>2, FiniteParts DEF DuplicatesBounded, TypeOK
  <2>4. CASE ~ (scanner[a] = "resolved" /\ edit[o].to = "active")
    <3>1. revived' = revived
      BY <1>10, <2>4 DEF WriteEdit
    <3>2. Active' \subseteq Active
      BY <1>10, <2>1, <2>4 DEF WriteEdit, WriteRow, Active, TypeOK
    <3> QED BY <2>2, <3>1, <3>2, FewerKeepBound
  <2> QED BY <2>3, <2>4
<1>11. ASSUME NEW to \in Traffic, Turn(to) PROVE DuplicatesBounded'
  BY <1>11, <1>2, <1>3, FewerKeepBound DEF Turn
<1>12. CASE DeleteEndpoint
  <2>1. Active' \subseteq Active
    BY <1>12 DEF DeleteEndpoint, Active
  <2> QED BY <1>12, <1>3, <2>1, FewerKeepBound DEF DeleteEndpoint
<1>13. CASE UNCHANGED vars
  BY <1>13, <1>2, <1>3, FewerKeepBound DEF vars
<1> QED BY <1>5, <1>6, <1>7, <1>8, <1>9, <1>10, <1>11, <1>12, <1>13 DEF Next

(* However many scans race, the active rows of a type never outnumber them *)
(* but for the rows that edits revived.                                    *)
THEOREM AlertDuplicates == Spec => []DuplicatesBounded
<1>1. Init => DuplicatesBounded
  <2> SUFFICES ASSUME Init PROVE DuplicatesBounded
    OBVIOUS
  <2>1. Active = {} /\ PastCheck = {} /\ revived = 0
    BY DEF Init, Active, PastCheck
  <2> QED BY <2>1, FiniteParts, FS_EmptySet DEF DuplicatesBounded
<1> QED BY <1>1, BoundStep, AlertTypes, PTL DEF Spec

-----------------------------------------------------------------------------
(* That an alert reaches its owner.                                        *)

LEMMA AnnouncedStep == TypeOK /\ AlertAnnounced /\ [Next]_vars => AlertAnnounced'
<1> SUFFICES ASSUME TypeOK, AlertAnnounced, [Next]_vars PROVE AlertAnnounced'
  OBVIOUS
<1>. USE DEF worldVars, rowVars, newsVars
<1>1. ASSUME created' = created, UNCHANGED newsVars,
             \A s \in Scan : pc[s] \in {"publish", "mail"} => pc'[s] = pc[s] /\ held'[s] = held[s]
      PROVE  AlertAnnounced'
  BY <1>1 DEF AlertAnnounced, InHand
<1>2. ASSUME NEW s \in Scan, Tick(s) PROVE AlertAnnounced'
  BY <1>1, <1>2 DEF Tick, Goto, TypeOK
<1>3. ASSUME NEW s \in Scan, ScanStep(s) PROVE AlertAnnounced'
  <2>1. CASE FindActive(s)
    BY <1>1, <2>1 DEF FindActive, Goto, TypeOK
  <2>2. CASE Resolve(s)
    BY <1>1, <2>2 DEF Resolve, WriteRow, Goto, TypeOK
  <2>3. CASE CheckActive(s) \/ CheckLatest(s) \/ InsertRejected(s)
    BY <1>1, <2>3 DEF CheckActive, CheckLatest, InsertRejected, Goto, TypeOK
  <2>4. CASE Insert(s)
    <3> SUFFICES ASSUME NEW a \in 1..created', a \notin lost
                 PROVE  /\ notice[a] # "none" \/ InHand(a, {"publish"})'
                        /\ Mails => a \in mailed \/ InHand(a, {"publish", "mail"})'
      BY <2>4 DEF Insert, AlertAnnounced
    <3>1. CASE a = created + 1
      BY <2>4, <3>1 DEF Insert, Goto, InHand, TypeOK
    <3>2. CASE a # created + 1
      <4>1. a \in 1..created \ lost
        BY <2>4, <3>2 DEF Insert, TypeOK
      <4>2. /\ notice[a] # "none" \/ InHand(a, {"publish"})
            /\ Mails => a \in mailed \/ InHand(a, {"publish", "mail"})
        BY <4>1 DEF AlertAnnounced
      <4>3. \A t \in Scan : pc[t] \in {"publish", "mail"} => pc'[t] = pc[t] /\ held'[t] = held[t]
        BY <2>4 DEF Insert, Goto, TypeOK
      <4> QED BY <4>2, <4>3 DEF InHand
    <3> QED BY <3>1, <3>2
  <2>5. CASE Publish(s)
    <3> SUFFICES ASSUME NEW a \in 1..created, a \notin lost
                 PROVE  /\ notice'[a] # "none" \/ InHand(a, {"publish"})'
                        /\ Mails => a \in mailed \/ InHand(a, {"publish", "mail"})'
      BY <2>5 DEF Publish, AlertAnnounced
    <3>1. /\ notice[a] # "none" \/ InHand(a, {"publish"})
          /\ Mails => a \in mailed \/ InHand(a, {"publish", "mail"})
      BY DEF AlertAnnounced
    <3>2. \A t \in Scan \ {s} : pc'[t] = pc[t] /\ held'[t] = held[t]
      BY <2>5 DEF Publish, Goto, TypeOK
    <3>3. a \in Alert /\ notice' = [notice EXCEPT ![held[s]] = "sent"]
      BY <2>5 DEF Publish, TypeOK
    <3>4. notice'[a] # "none" \/ InHand(a, {"publish"})'
      <4>1. CASE a = held[s]
        BY <3>3, <4>1 DEF TypeOK
      <4>2. CASE a # held[s]
        BY <3>1, <3>2, <3>3, <4>2 DEF InHand, TypeOK
      <4> QED BY <4>1, <4>2
    <3>5. ASSUME Mails, a \notin mailed PROVE InHand(a, {"publish", "mail"})'
      <4>1. pc'[s] = "mail" /\ held' = held
        BY <2>5, <3>5 DEF Publish, Goto, TypeOK
      <4>2. PICK t \in Scan : pc[t] \in {"publish", "mail"} /\ held[t] = a
        BY <3>1, <3>5 DEF InHand
      <4>3. pc'[t] \in {"publish", "mail"} /\ held'[t] = a
        BY <3>2, <4>1, <4>2
      <4> QED BY <4>3 DEF InHand
    <3> QED BY <3>4, <3>5
  <2>6. CASE Enqueue(s)
    <3> SUFFICES ASSUME NEW a \in 1..created, a \notin lost
                 PROVE  /\ notice[a] # "none" \/ InHand(a, {"publish"})'
                        /\ Mails => a \in mailed' \/ InHand(a, {"publish", "mail"})'
      BY <2>6 DEF Enqueue, AlertAnnounced
    <3>1. /\ notice[a] # "none" \/ InHand(a, {"publish"})
          /\ Mails => a \in mailed \/ InHand(a, {"publish", "mail"})
      BY DEF AlertAnnounced
    <3>2. pc[s] = "mail" /\ mailed' = mailed \union {held[s]}
      BY <2>6 DEF Enqueue
    <3>3. \A t \in Scan \ {s} : pc'[t] = pc[t] /\ held'[t] = held[t]
      BY <2>6 DEF Enqueue, Goto, TypeOK
    <3> QED BY <3>1, <3>2, <3>3 DEF InHand
  <2> QED BY <1>3, <2>1, <2>2, <2>3, <2>4, <2>5, <2>6 DEF ScanStep
<1>4. ASSUME NEW s \in Scan, CrashScan(s) PROVE AlertAnnounced'
  <2> SUFFICES ASSUME NEW a \in 1..created, a \notin lost'
               PROVE  /\ notice[a] # "none" \/ InHand(a, {"publish"})'
                      /\ Mails => a \in mailed \/ InHand(a, {"publish", "mail"})'
    BY <1>4 DEF CrashScan, AlertAnnounced
  <2>1. a \notin lost /\ (pc[s] \in {"publish", "mail"} => a # held[s])
    BY <1>4 DEF CrashScan
  <2>2. /\ notice[a] # "none" \/ InHand(a, {"publish"})
        /\ Mails => a \in mailed \/ InHand(a, {"publish", "mail"})
    BY <2>1 DEF AlertAnnounced
  <2>3. \A t \in Scan \ {s} : pc'[t] = pc[t] /\ held'[t] = held[t]
    BY <1>4 DEF CrashScan, Goto, TypeOK
  <2> QED BY <2>1, <2>2, <2>3 DEF InHand
<1>5. ASSUME NEW a \in Alert, StoreNotice(a) \/ LoseNotice(a) PROVE AlertAnnounced'
  <2>1. CASE StoreNotice(a)
    BY <2>1 DEF StoreNotice, AlertAnnounced, InHand, TypeOK
  <2>2. CASE LoseNotice(a)
    BY <2>2 DEF LoseNotice, AlertAnnounced, InHand, TypeOK
  <2> QED BY <1>5, <2>1, <2>2
<1>6. ASSUME NEW a \in Alert, Cool(a) PROVE AlertAnnounced'
  BY <1>1, <1>6 DEF Cool
<1>7. ASSUME NEW o \in Owner, NEW a \in Alert, NEW to \in {"active", "resolved"},
             ReadForEdit(o, a, to)
      PROVE  AlertAnnounced'
  BY <1>1, <1>7 DEF ReadForEdit
<1>8. ASSUME NEW o \in Owner, WriteEdit(o) PROVE AlertAnnounced'
  BY <1>1, <1>8 DEF WriteEdit, WriteRow
<1>9. ASSUME NEW to \in Traffic, Turn(to) PROVE AlertAnnounced'
  BY <1>1, <1>9 DEF Turn
<1>10. CASE DeleteEndpoint
  BY <1>1, <1>10 DEF DeleteEndpoint
<1>11. CASE UNCHANGED vars
  BY <1>1, <1>11 DEF vars
<1> QED BY <1>2, <1>3, <1>4, <1>5, <1>6, <1>7, <1>8, <1>9, <1>10, <1>11 DEF Next

(* Every alert that is inserted is announced, or a scan is about to, or a  *)
(* fault came between.                                                     *)
THEOREM AlertAnnouncement == Spec => []AlertAnnounced
<1>1. Init => AlertAnnounced
  BY DEF Init, AlertAnnounced
<1> QED BY <1>1, AnnouncedStep, AlertTypes, PTL DEF Spec

-----------------------------------------------------------------------------
(* How far apart they are.                                                 *)

(* What spaces the alerts of a single scan: on an endpoint that exists     *)
(* only the newest row can be active or fresh, and a scan about to insert, *)
(* or to resolve, has read what still holds.                               *)
Spacing ==
    /\ \A a \in 1..created : scanner[a] # "none"
    /\ \A a \in 1..created : a < created => scanner[a] = "resolved" /\ a \notin fresh
    /\ \A s \in Scan :
         /\ pc[s] \in {"latest", "insert"} => Active = {}
         /\ pc[s] = "insert" => created \notin fresh
         /\ pc[s] = "resolve" => held[s] = created

SpacedSoFar ==
    edits = 0 /\ Cardinality(Scan) = 1 =>
        (\A o \in Owner : edit[o] = NoEdit) /\ (endpoint => Spacing)

LEMMA SpacedStep == TypeOK /\ SpacedSoFar /\ [Next]_vars => SpacedSoFar'
<1> SUFFICES ASSUME TypeOK, SpacedSoFar, [Next]_vars, edits' = 0, Cardinality(Scan) = 1
             PROVE  (\A o \in Owner : edit'[o] = NoEdit) /\ (endpoint' => Spacing')
  BY DEF SpacedSoFar
<1>. USE DEF worldVars, rowVars, newsVars
<1> DEFINE Goal == (\A o \in Owner : edit'[o] = NoEdit) /\ (endpoint' => Spacing')
<1>a. PICK z : Scan = {z}
  BY FS_Singleton
<1>b. ASSUME edits = 0 PROVE (\A o \in Owner : edit[o] = NoEdit) /\ (endpoint => Spacing)
  BY <1>b DEF SpacedSoFar
(* A step that leaves the rows alone and goes where nothing is promised.   *)
<1>c. ASSUME UNCHANGED <<endpoint, rowVars, edit, edits>>,
             NEW s \in Scan, Goto(s, pc'[s]),
             pc'[s] \notin {"latest", "insert", "resolve"}
      PROVE  Goal
  <2>1. \A o \in Owner : edit'[o] = NoEdit
    BY <1>b, <1>c
  <2>2. ASSUME endpoint' PROVE Spacing'
    <3>1. Spacing
      BY <1>b, <1>c, <2>2
    <3> QED BY <1>a, <1>c, <3>1 DEF Spacing
  <2> QED BY <2>1, <2>2
<1>d. ASSUME UNCHANGED <<endpoint, rowVars, edit, edits, pc, held>> PROVE Goal
  BY <1>b, <1>d DEF Spacing, Active
<1>1. ASSUME NEW s \in Scan, Tick(s) PROVE Goal
  <2>1. Goto(s, pc'[s]) /\ pc'[s] \notin {"latest", "insert", "resolve"}
    BY <1>1 DEF Tick, Goto, TypeOK
  <2> QED BY <1>1, <1>c, <2>1 DEF Tick
<1>2. ASSUME NEW s \in Scan, ScanStep(s) PROVE Goal
  <2>0. edits = 0 /\ edit' = edit /\ endpoint' = endpoint
    BY <1>2 DEF ScanStep, FindActive, Resolve, CheckActive, CheckLatest, Insert, InsertRejected,
                Publish, Enqueue
  <2>1. (\A o \in Owner : edit'[o] = NoEdit) /\ (endpoint => Spacing)
    BY <1>b, <2>0
  <2> SUFFICES ASSUME endpoint, Spacing PROVE Spacing'
    BY <2>0, <2>1
  <2>2. CASE FindActive(s)
    <3>1. CASE Active = {}
      <4>1. Goto(s, pc'[s]) /\ pc'[s] \notin {"latest", "insert", "resolve"}
        BY <2>2, <3>1 DEF FindActive, Goto, TypeOK
      <4> QED BY <2>0, <2>2, <1>c, <4>1 DEF FindActive
    <3>2. CASE Active # {}
      <4>1. Newest(Active) \in Active
        <5>1. Active \in SUBSET Alert
          BY DEF Active
        <5> QED BY <5>1, <3>2, NewestInSet
      <4>2. \A a \in Active : a = created
        BY DEF Spacing, Active, TypeOK
      <4>3. pc'[s] = "resolve" /\ held'[s] = created
        BY <2>2, <3>2, <4>1, <4>2 DEF FindActive, Goto, TypeOK
      <4> QED BY <1>a, <2>2, <4>3 DEF FindActive, Spacing
    <3> QED BY <3>1, <3>2
  <2>3. CASE Resolve(s)
    <3>1. held[s] = created /\ created \in Alert /\ scanner[created] # "none"
      BY <2>3 DEF Resolve, Spacing, TypeOK
    <3>2. /\ scanner' = [scanner EXCEPT ![created] = "resolved"]
          /\ fresh' = fresh \union {created}
          /\ created' = created
      BY <2>3, <3>1 DEF Resolve, WriteRow
    <3>3. pc'[s] = "idle"
      BY <2>3 DEF Resolve, Goto, TypeOK
    <3> QED BY <1>a, <3>1, <3>2, <3>3 DEF Spacing, TypeOK
  <2>4. CASE CheckActive(s)
    <3>1. CASE Active = {}
      <4>1. pc'[s] = "latest" /\ Active' = {}
        BY <2>4, <3>1 DEF CheckActive, Goto, Active, TypeOK
      <4> QED BY <1>a, <2>4, <4>1 DEF CheckActive, Spacing
    <3>2. CASE Active # {}
      <4>1. Goto(s, pc'[s]) /\ pc'[s] \notin {"latest", "insert", "resolve"}
        BY <2>4, <3>2 DEF CheckActive, Goto, TypeOK
      <4> QED BY <2>0, <2>4, <1>c, <4>1 DEF CheckActive
    <3> QED BY <3>1, <3>2
  <2>5. CASE CheckLatest(s)
    <3>1. Active = {} /\ Active' = {}
      BY <2>5 DEF CheckLatest, Spacing, Active
    <3>2. CASE created > 0 /\ CoolingDown(created)
      <4>1. pc'[s] = "idle"
        BY <2>5, <3>2 DEF CheckLatest, Goto, TypeOK
      <4> QED BY <1>a, <2>5, <4>1 DEF CheckLatest, Spacing
    <3>3. CASE ~ (created > 0 /\ CoolingDown(created))
      <4>1. created \notin fresh
        BY <3>1, <3>3 DEF CoolingDown, Active, TypeOK
      <4>2. pc'[s] = "insert"
        BY <2>5, <3>3 DEF CheckLatest, Goto, TypeOK
      <4> QED BY <1>a, <2>5, <3>1, <4>1, <4>2 DEF CheckLatest, Spacing
    <3> QED BY <3>2, <3>3
  <2>6. CASE Insert(s)
    <3>1. Active = {} /\ created \notin fresh
      BY <2>6 DEF Insert, Spacing
    <3>2. \A a \in 1..created : scanner[a] = "resolved" /\ a \notin fresh
      BY <3>1 DEF Spacing, Active, TypeOK
    <3>3. created' = created + 1 /\ created \in Nat /\ pc'[s] = "publish"
      BY <2>6 DEF Insert, Goto, TypeOK
    <3>4. \A a \in 1..created : scanner'[a] = "resolved" /\ a \notin fresh'
      BY <2>6, <3>2 DEF Insert, TypeOK
    <3>5. scanner'[created + 1] = "active"
      BY <2>6 DEF Insert, TypeOK
    <3> QED BY <1>a, <3>3, <3>4, <3>5 DEF Spacing
  <2>7. CASE InsertRejected(s)
    <3>1. Goto(s, pc'[s]) /\ pc'[s] \notin {"latest", "insert", "resolve"}
      BY <2>7 DEF InsertRejected, Goto, TypeOK
    <3> QED BY <2>0, <2>7, <1>c, <3>1 DEF InsertRejected
  <2>8. CASE Publish(s)
    <3>1. Goto(s, pc'[s]) /\ pc'[s] \notin {"latest", "insert", "resolve"}
      BY <2>8 DEF Publish, Goto, TypeOK
    <3> QED BY <2>0, <2>8, <1>c, <3>1 DEF Publish
  <2>9. CASE Enqueue(s)
    <3>1. Goto(s, pc'[s]) /\ pc'[s] \notin {"latest", "insert", "resolve"}
      BY <2>9 DEF Enqueue, Goto, TypeOK
    <3> QED BY <2>0, <2>9, <1>c, <3>1 DEF Enqueue
  <2> QED BY <1>2, <2>2, <2>3, <2>4, <2>5, <2>6, <2>7, <2>8, <2>9 DEF ScanStep
<1>3. ASSUME NEW s \in Scan, CrashScan(s) PROVE Goal
  <2>1. Goto(s, pc'[s]) /\ pc'[s] \notin {"latest", "insert", "resolve"}
    BY <1>3 DEF CrashScan, Goto, TypeOK
  <2> QED BY <1>3, <1>c, <2>1 DEF CrashScan
<1>4. ASSUME NEW a \in Alert, StoreNotice(a) \/ LoseNotice(a) PROVE Goal
  BY <1>4, <1>d DEF StoreNotice, LoseNotice
<1>5. ASSUME NEW a \in Alert, Cool(a) PROVE Goal
  BY <1>5, <1>b DEF Cool, Spacing, Active
<1>6. ASSUME NEW o \in Owner, NEW a \in Alert, NEW to \in {"active", "resolved"},
             ReadForEdit(o, a, to)
      PROVE  Goal
  BY <1>6 DEF ReadForEdit, TypeOK
<1>7. ASSUME NEW o \in Owner, WriteEdit(o) PROVE Goal
  BY <1>7, <1>b DEF WriteEdit
<1>8. ASSUME NEW to \in Traffic, Turn(to) PROVE Goal
  BY <1>8, <1>d DEF Turn
<1>9. CASE DeleteEndpoint
  BY <1>9, <1>b DEF DeleteEndpoint
<1>10. CASE UNCHANGED vars
  BY <1>10, <1>d DEF vars
<1> QED BY <1>1, <1>2, <1>3, <1>4, <1>5, <1>6, <1>7, <1>8, <1>9, <1>10 DEF Next

LEMMA InsertSpaced ==
  TypeOK /\ SpacedSoFar /\ [Next]_vars =>
    (created' > created /\ Cardinality(Scan) = 1 /\ edits = 0
       => \A a \in 1..created : scanner[a] = "resolved" /\ a \notin fresh)
<1> SUFFICES ASSUME TypeOK, SpacedSoFar, [Next]_vars, created' > created,
                    Cardinality(Scan) = 1, edits = 0
             PROVE  \A a \in 1..created : scanner[a] = "resolved" /\ a \notin fresh
  OBVIOUS
<1>. USE DEF worldVars, rowVars, newsVars
<1>1. PICK s \in Scan : Insert(s)
  <2>1. created \in Nat
    BY DEF TypeOK
  <2>2. created' # created
    BY <2>1
  <2> QED
    BY <2>2 DEF Next, vars, ScanStep, Tick, FindActive, Resolve, CheckActive, CheckLatest,
                InsertRejected, Publish, Enqueue, CrashScan, StoreNotice, LoseNotice, Cool,
                ReadForEdit, WriteEdit, WriteRow, Turn, DeleteEndpoint
<1>2. Spacing /\ pc[s] = "insert"
  BY <1>1 DEF SpacedSoFar, Insert
<1>3. /\ created \in 0..MaxAlerts
      /\ scanner \in [Alert -> {"none", "active", "resolved"}]
  BY DEF TypeOK
<1>4. Active = {} /\ created \notin fresh
  BY <1>2 DEF Spacing
<1>5. ASSUME NEW a \in 1..created PROVE scanner[a] = "resolved" /\ a \notin fresh
  <2>1. a \in Alert /\ (a < created \/ a = created)
    BY <1>3 DEF Alert
  <2>2. CASE a < created
    BY <1>2, <2>2 DEF Spacing
  <2>3. CASE a = created
    <3>1. scanner[a] # "none"
      BY <1>2 DEF Spacing
    <3>2. scanner[a] # "active"
      BY <1>4, <2>1 DEF Active
    <3>3. scanner[a] \in {"none", "active", "resolved"}
      BY <1>3, <2>1
    <3> QED BY <1>4, <2>3, <3>1, <3>2, <3>3
  <2> QED BY <2>1, <2>2, <2>3
<1> QED BY <1>5

(* A single scan, left alone by the owner, inserts an alert only half an   *)
(* hour after the last one of its type was resolved.                       *)
THEOREM AlertSpacing == Spec => AlertsSpaced
<1>1. Init => SpacedSoFar
  BY DEF Init, SpacedSoFar, Spacing
<1>2. Spec => [](TypeOK /\ SpacedSoFar)
  BY <1>1, SpacedStep, AlertTypes, PTL DEF Spec
<1> QED BY <1>2, InsertSpaced, PTL DEF Spec, AlertsSpaced
=============================================================================
