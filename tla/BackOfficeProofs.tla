-------------------------- MODULE BackOfficeProofs --------------------------
(***************************************************************************)
(* The back office does what each of its components may do, so what is     *)
(* proved of them holds of it. Beside that, the proofs about Billing,      *)
(* Inbox, Waitlist, PagedWalk and WebhookScan.                             *)
(***************************************************************************)
EXTENDS BackOffice, AccountsProofs, CliTokensProofs, CatalogProofs

USE PersistenceAssumption, BillingAssumption, InboxAssumption

-----------------------------------------------------------------------------
(* Inbox. A notification with a row is stored, told, posted or lost, and   *)
(* only a page in a room has listed the rows.                              *)

InboxSound ==
    /\ \A c \in inbox : notice[c].at \in {"stored", "told", "posted", "lost"}
    /\ \A p \in listed : joined[p] # Null
    /\ NoNotificationMissed

LEMMA CarryFacts ==
  ASSUME InboxTypeOK, NEW c \in Call,
         NEW where \in {"stored", "told", "lost"}, Carry(c, where)
  PROVE  /\ notice' \in [Call -> [to : Reader \cup {Null},
                            at : {"new", "raised", "stored", "told", "posted", "lost"}]]
         /\ notice'[c].at = where /\ notice'[c].to = notice[c].to
         /\ \A d \in Call : d # c => notice'[d] = notice[d]
BY DEF Carry, InboxTypeOK, Notice

LEMMA AppearFacts ==
  ASSUME InboxTypeOK, NEW c \in Call, NEW u \in Reader,
         NEW where \in {"raised", "posted"}, Appear(c, u, where)
  PROVE  /\ notice' \in [Call -> [to : Reader \cup {Null},
                            at : {"new", "raised", "stored", "told", "posted", "lost"}]]
         /\ notice[c].at = "new" /\ notice'[c].at = where
         /\ \A d \in Call : d # c => notice'[d] = notice[d]
BY DEF Appear, NoticeAt, InboxTypeOK, Notice

LEMMA InboxStep == InboxTypeOK /\ InboxSound /\ [InboxNext]_inboxVars => InboxTypeOK' /\ InboxSound'
<1> SUFFICES ASSUME InboxTypeOK, InboxSound, [InboxNext]_inboxVars PROVE InboxTypeOK' /\ InboxSound'
  OBVIOUS
<1>0. /\ inbox \subseteq Call /\ joined \in [Page -> Reader \cup {Null}] /\ listed \subseteq Page
      /\ shown \in [Page -> SUBSET Call] /\ inboxFaults \in 0..MaxFaults
  BY DEF InboxTypeOK, Notice
<1>1. CASE UNCHANGED inboxVars
  BY <1>1 DEF inboxVars, pageVars, InboxTypeOK, Notice, InboxSound, NoNotificationMissed
<1>2. ASSUME NEW c \in Call, NEW u \in Reader, RaiseNotice(c, u) PROVE InboxTypeOK' /\ InboxSound'
  <2>1. /\ notice' \in [Call -> [to : Reader \cup {Null},
                            at : {"new", "raised", "stored", "told", "posted", "lost"}]]
        /\ notice[c].at = "new" /\ \A d \in Call : d # c => notice'[d] = notice[d]
        /\ UNCHANGED <<inbox, joined, listed, shown, inboxFaults>>
    BY <1>2, AppearFacts DEF RaiseNotice, pageVars
  <2>2. c \notin inbox
    BY <2>1 DEF InboxSound
  <2> QED BY <1>0, <2>1, <2>2 DEF InboxTypeOK, Notice, InboxSound, NoNotificationMissed
<1>3. ASSUME NEW c \in Call, NEW u \in Reader, PostNotice(c, u) PROVE InboxTypeOK' /\ InboxSound'
  <2>1. /\ notice' \in [Call -> [to : Reader \cup {Null},
                            at : {"new", "raised", "stored", "told", "posted", "lost"}]]
        /\ notice'[c].at = "posted" /\ \A d \in Call : d # c => notice'[d] = notice[d]
        /\ inbox' = inbox \cup {c} /\ UNCHANGED <<joined, listed, shown, inboxFaults>>
    BY <1>3, AppearFacts DEF PostNotice, pageVars
  <2> QED BY <1>0, <2>1 DEF InboxTypeOK, Notice, InboxSound, NoNotificationMissed
<1>4. ASSUME NEW c \in Call, StoreNotice(c) PROVE InboxTypeOK' /\ InboxSound'
  <2>1. /\ notice' \in [Call -> [to : Reader \cup {Null},
                            at : {"new", "raised", "stored", "told", "posted", "lost"}]]
        /\ notice'[c].at = "stored" /\ \A d \in Call : d # c => notice'[d] = notice[d]
        /\ inbox' = inbox \cup {c} /\ UNCHANGED <<joined, listed, shown, inboxFaults>>
    BY <1>4, CarryFacts DEF StoreNotice, pageVars
  <2> QED BY <1>0, <2>1 DEF InboxTypeOK, Notice, InboxSound, NoNotificationMissed
<1>5. ASSUME NEW c \in Call, EmitNotice(c) PROVE InboxTypeOK' /\ InboxSound'
  <2>1. /\ notice' \in [Call -> [to : Reader \cup {Null},
                            at : {"new", "raised", "stored", "told", "posted", "lost"}]]
        /\ notice'[c].at = "told" /\ notice'[c].to = notice[c].to
        /\ \A d \in Call : d # c => notice'[d] = notice[d]
        /\ UNCHANGED <<inbox, joined, listed, inboxFaults>>
    BY <1>5, CarryFacts DEF EmitNotice
  <2>2. \A p \in Page : /\ shown'[p] \subseteq Call /\ shown[p] \subseteq shown'[p]
                        /\ joined[p] = notice[c].to => c \in shown'[p]
    BY <1>0, <1>5 DEF EmitNotice, Audience
  <2>3. shown' \in [Page -> SUBSET Call]
    BY <1>5, <2>2 DEF EmitNotice
  <2> QED BY <1>0, <2>1, <2>2, <2>3 DEF InboxTypeOK, Notice, InboxSound, NoNotificationMissed
<1>6. ASSUME NEW c \in Call, LoseNotice(c) PROVE InboxTypeOK' /\ InboxSound'
  <2>1. /\ notice' \in [Call -> [to : Reader \cup {Null},
                            at : {"new", "raised", "stored", "told", "posted", "lost"}]]
        /\ notice'[c].at = "lost" /\ \A d \in Call : d # c => notice'[d] = notice[d]
        /\ UNCHANGED <<inbox, joined, listed, shown>> /\ inboxFaults' \in 0..MaxFaults
    BY <1>0, <1>6, CarryFacts DEF LoseNotice, pageVars
  <2> QED BY <1>0, <2>1 DEF InboxTypeOK, Notice, InboxSound, NoNotificationMissed
<1>7. ASSUME NEW p \in Page, NEW u \in Reader, JoinRoom(p, u) PROVE InboxTypeOK' /\ InboxSound'
  <2>1. p \notin listed
    BY <1>7 DEF JoinRoom, InboxSound
  <2> QED BY <1>0, <1>7, <2>1 DEF JoinRoom, InboxTypeOK, Notice, InboxSound, NoNotificationMissed
<1>8. ASSUME NEW p \in Page, ListNotices(p) PROVE InboxTypeOK' /\ InboxSound'
  BY <1>0, <1>8 DEF ListNotices, InboxTypeOK, Notice, InboxSound, NoNotificationMissed
<1>9. ASSUME NEW p \in Page, LeaveRoom(p) PROVE InboxTypeOK' /\ InboxSound'
  BY <1>0, <1>9 DEF LeaveRoom, InboxTypeOK, Notice, InboxSound, NoNotificationMissed
<1> QED BY <1>1, <1>2, <1>3, <1>4, <1>5, <1>6, <1>7, <1>8, <1>9 DEF InboxNext

LEMMA InboxInvariant == InboxSpec => [](InboxTypeOK /\ InboxSound)
<1>1. InboxInit => InboxTypeOK /\ InboxSound
  BY DEF InboxInit, InboxTypeOK, Notice, InboxSound, NoNotificationMissed
<1> QED BY <1>1, InboxStep, PTL DEF InboxSpec

(* A page that joins its room before it lists the rows misses nothing.     *)
THEOREM NoticesReach == InboxSpec => []NoNotificationMissed
<1>1. InboxSound => NoNotificationMissed
  BY DEF InboxSound
<1> QED BY InboxInvariant, <1>1, PTL

-----------------------------------------------------------------------------
(* Billing. What keeps a row true is that a change at Stripe is never      *)
(* forgotten: the subscription is covered while an event about it waits,   *)
(* or is in the hands of a handler that has the subscription as it is.     *)

Covers(d, s) ==
    event[d].sub = s /\ (event[d].at = "sent" \/ (InHand(d) /\ event[d].got = stripe[s]))

Covered(s) == \E d \in Event : Covers(d, s)

Mirrors(u, s) == row[u].packet = stripe[s].price /\ row[u].status = stripe[s].status

(* A handler works for the user of its subscription ...                    *)
HandlersSound ==
    \A e \in Event :
        /\ event[e].at # "none" => event[e].sub \in Subscription
        /\ InHand(e) => /\ event[e].got.userId \in Customer
                        /\ event[e].got.userId = stripe[event[e].sub].userId

(* ... alone, unless history has it that two worked for that user ...      *)
OverlapsSeen ==
    \A d, e \in Event :
        d # e /\ InHand(d) /\ InHand(e) /\ event[d].got.userId = event[e].got.userId
        => event[e].got.userId \in overlapped

(* ... and then what it found is the row as it is.                         *)
BasesCurrent ==
    \A e \in Event :
        event[e].at \in {"looked", "found"} /\ event[e].got.userId \notin overlapped
        => event[e].base = row[event[e].got.userId]

(* A handler that holds old news has another event behind it ...           *)
WorkCovered ==
    \A e \in Event, s \in Subscription :
        /\ InHand(e) /\ event[e].sub = s /\ event[e].got.userId \notin overlapped
        /\ stripe[s].price \in Listed
        => Covered(s)

(* ... and so has a row that says old news.                                *)
RowsCovered ==
    \A u \in Customer, s \in Subscription :
        u \notin overlapped /\ row[u].sub = s =>
            /\ stripe[s].userId = u
            /\ stripe[s].price \in Listed => Mirrors(u, s) \/ Covered(s)

BillingSound == HandlersSound /\ OverlapsSeen /\ BasesCurrent /\ WorkCovered /\ RowsCovered

(* What a step of the handler of e leaves as it was.                       *)
OnlyEvent(e) ==
    /\ stripe' = stripe /\ sent' = sent
    /\ event' \in [Event -> EventRecord]
    /\ event'[e].sub = event[e].sub /\ event'[e].at # "none"
    /\ event[e].at # "none"
    /\ \A d \in Event : d # e => event'[d] = event[d]

LEMMA OnlyEventTypes ==
  ASSUME BillingTypeOK, NEW e \in Event, OnlyEvent(e),
         row' \in [Customer -> SubscriptionRow], overlapped' \subseteq Customer,
         billingFaults' \in 0..MaxFaults
  PROVE  BillingTypeOK'
<1>1. \A d \in Event : event'[d].at = "none" <=> event[d].at = "none"
  BY DEF OnlyEvent
<1> QED BY <1>1 DEF BillingTypeOK, OnlyEvent

LEMMA CoverKept ==
  ASSUME NEW e \in Event, OnlyEvent(e), NEW s, Covered(s), Covers(e, s) => Covers(e, s)'
  PROVE  Covered(s)'
<1>1. PICK d \in Event : Covers(d, s)
  BY DEF Covered
<1>2. Covers(d, s)'
  <2>1. CASE d = e
    BY <1>1, <2>1
  <2>2. CASE d # e
    BY <1>1, <2>2 DEF Covers, OnlyEvent, InHand
  <2> QED BY <2>1, <2>2
<1> QED BY <1>2 DEF Covered, Event

(* Whether it waits again or is answered, the event is out of hand; it may *)
(* be answered unhandled only if its subscription is to be left alone.     *)
LEMMA OutOfHand ==
  ASSUME BillingTypeOK, BillingSound, NEW e \in Event, OnlyEvent(e), row' = row,
         overlapped' = overlapped, event'[e].at \in {"sent", "handled"},
         \/ event'[e].at = "sent"
         \/ stripe[event[e].sub].userId = Null \/ stripe[event[e].sub].price \notin Listed
  PROVE  BillingSound'
<1>0. /\ stripe' = stripe /\ ~InHand(e)'
      /\ \A d \in Event : d # e => event'[d] = event[d] /\ (InHand(d)' <=> InHand(d))
  BY DEF OnlyEvent, InHand
<1>1. ASSUME NEW s \in Subscription, Covered(s), stripe[s].userId # Null, stripe[s].price \in Listed
      PROVE  Covered(s)'
  <2>1. Covers(e, s) => Covers(e, s)'
    BY <1>1 DEF Covers, OnlyEvent
  <2> QED BY <1>1, <2>1, CoverKept
<1>2. HandlersSound'
  BY <1>0 DEF BillingSound, HandlersSound, OnlyEvent
<1>3. OverlapsSeen'
  BY <1>0 DEF BillingSound, OverlapsSeen
<1>4. BasesCurrent'
  BY <1>0 DEF BillingSound, BasesCurrent
<1>5. WorkCovered'
  <2> SUFFICES ASSUME NEW d \in Event, NEW s \in Subscription, InHand(d)', event'[d].sub = s,
                      event'[d].got.userId \notin overlapped, stripe[s].price \in Listed
               PROVE  Covered(s)'
    BY <1>0 DEF WorkCovered
  <2>1. InHand(d) /\ event'[d] = event[d]
    BY <1>0
  <2>2. stripe[s].userId # Null /\ Covered(s)
    BY <2>1 DEF BillingSound, HandlersSound, WorkCovered
  <2> QED BY <1>1, <2>2
<1>6. RowsCovered'
  <2> SUFFICES ASSUME NEW u \in Customer, NEW s \in Subscription, u \notin overlapped, row[u].sub = s
               PROVE  /\ stripe[s].userId = u
                      /\ stripe[s].price \in Listed => Mirrors(u, s) \/ Covered(s)'
    BY <1>0 DEF RowsCovered, Mirrors
  <2>1. stripe[s].userId = u /\ (stripe[s].price \in Listed => Mirrors(u, s) \/ Covered(s))
    BY DEF BillingSound, RowsCovered
  <2> QED BY <1>1, <2>1
<1> QED BY <1>2, <1>3, <1>4, <1>5, <1>6 DEF BillingSound

(* A change at Stripe comes with an event, which covers it.                *)
LEMMA TellStep ==
  ASSUME BillingTypeOK, BillingSound, NEW s \in Subscription, NEW now \in AtStripe, Tell(s, now),
         stripe[s] = NotAtStripe \/ now.userId = stripe[s].userId
  PROVE  BillingTypeOK' /\ BillingSound'
<1>a. sent + 1 \in Event
  BY DEF Tell, BillingTypeOK, Event
<1>b. PICK n \in Event : n = sent + 1
  BY <1>a
<1>0. /\ event[n].at = "none" /\ sent' = n
      /\ UNCHANGED <<row, overlapped, billingFaults>>
      /\ stripe' \in [Subscription -> AtStripe]
      /\ stripe'[s] = now /\ \A t \in Subscription : t # s => stripe'[t] = stripe[t]
  BY <1>b DEF Tell, BillingTypeOK, Event
<1>1. /\ event' \in [Event -> EventRecord]
      /\ event'[n].sub = s /\ event'[n].at = "sent"
      /\ \A d \in Event : d # n => event'[d] = event[d]
  BY <1>b DEF Tell, BillingTypeOK, EventRecord, NoEvent, AtStripe, NotAtStripe, SubscriptionRow,
     NoSubscription
<1>2. BillingTypeOK'
  <2>1. \A e \in Event : event'[e].at = "none" <=> e > n
    BY <1>b, <1>0, <1>1 DEF BillingTypeOK, Event
  <2>2. n \in 0..MaxEvents
    BY <1>0 DEF Event
  <2> QED BY <1>0, <1>1, <2>1, <2>2 DEF BillingTypeOK
<1>3. /\ ~InHand(n)' /\ ~InHand(n)
      /\ \A d \in Event : d # n => (InHand(d)' <=> InHand(d))
  BY <1>0, <1>1 DEF InHand
<1>4. Covered(s)'
  BY <1>0, <1>1 DEF Covered, Covers
<1>5. ASSUME NEW t \in Subscription, t # s, Covered(t) PROVE Covered(t)'
  <2>1. PICK d \in Event : Covers(d, t)
    BY <1>5 DEF Covered
  <2>2. d # n
    BY <2>1, <1>0, <1>3 DEF Covers
  <2>3. Covers(d, t)'
    BY <2>1, <2>2, <1>0, <1>1, <1>3, <1>5 DEF Covers
  <2> QED BY <2>3 DEF Covered, Event
<1>6. ASSUME NEW t \in Subscription, stripe[t].userId # Null
      PROVE  stripe'[t].userId = stripe[t].userId
  BY <1>0, <1>6 DEF NotAtStripe
<1>7. HandlersSound'
  <2> SUFFICES ASSUME NEW e \in Event
               PROVE  /\ event'[e].at # "none" => event'[e].sub \in Subscription
                      /\ InHand(e)' => /\ event'[e].got.userId \in Customer
                                       /\ event'[e].got.userId = stripe'[event'[e].sub].userId
    BY DEF HandlersSound
  <2>1. CASE e = n
    BY <2>1, <1>1, <1>3
  <2>2. CASE e # n
    BY <2>2, <1>1, <1>3, <1>6 DEF BillingSound, HandlersSound, InHand
  <2> QED BY <2>1, <2>2
<1>8. OverlapsSeen'
  BY <1>0, <1>1, <1>3 DEF BillingSound, OverlapsSeen
<1>9. BasesCurrent'
  BY <1>0, <1>1 DEF BillingSound, BasesCurrent
<1>10. WorkCovered'
  BY <1>0, <1>1, <1>3, <1>4, <1>5 DEF BillingSound, WorkCovered
<1>11. RowsCovered'
  <2> SUFFICES ASSUME NEW u \in Customer, NEW t \in Subscription, u \notin overlapped, row[u].sub = t
               PROVE  /\ stripe'[t].userId = u
                      /\ stripe'[t].price \in Listed => Mirrors(u, t)' \/ Covered(t)'
    BY <1>0 DEF RowsCovered
  <2>1. stripe[t].userId = u /\ (stripe[t].price \in Listed => Mirrors(u, t) \/ Covered(t))
    BY DEF BillingSound, RowsCovered
  <2>2. stripe'[t].userId = u
    BY <2>1, <1>6
  <2>3. CASE t = s
    BY <2>2, <2>3, <1>4
  <2>4. CASE t # s
    BY <2>1, <2>2, <2>4, <1>0, <1>5 DEF Mirrors
  <2> QED BY <2>3, <2>4
<1> QED BY <1>2, <1>7, <1>8, <1>9, <1>10, <1>11 DEF BillingSound

(* A handler starts with the subscription as it is.                        *)
LEMMA FetchStep ==
  ASSUME BillingTypeOK, BillingSound, NEW e \in Event, OnlyEvent(e), row' = row,
         event[e].at = "sent", event'[e].at = "fetched",
         event'[e].got = stripe[event[e].sub], event'[e].got.userId \in Customer,
         overlapped' = overlapped \cup
             {v \in {event'[e].got.userId} : \E d \in Event : InHand(d) /\ event[d].got.userId = v}
  PROVE  BillingSound'
<1>0. /\ stripe' = stripe /\ InHand(e)' /\ ~InHand(e)
      /\ \A d \in Event : d # e => event'[d] = event[d] /\ (InHand(d)' <=> InHand(d))
      /\ \A v \in overlapped : v \in overlapped'
  BY DEF OnlyEvent, InHand
<1>1. ASSUME NEW s \in Subscription, Covered(s) PROVE Covered(s)'
  <2>1. Covers(e, s) => Covers(e, s)'
    BY <1>0 DEF Covers, OnlyEvent
  <2> QED BY <1>1, <2>1, CoverKept
<1>2. HandlersSound'
  BY <1>0 DEF BillingSound, HandlersSound, OnlyEvent
<1>3. OverlapsSeen'
  <2>1. ASSUME NEW d \in Event, d # e, InHand(d)', event'[d].got.userId = event'[e].got.userId
        PROVE  event'[e].got.userId \in overlapped'
    BY <1>0, <2>1
  <2>2. ASSUME NEW d \in Event, NEW f \in Event, d # e, f # e, d # f, InHand(d)', InHand(f)',
               event'[d].got.userId = event'[f].got.userId
        PROVE  event'[f].got.userId \in overlapped'
    BY <1>0, <2>2 DEF BillingSound, OverlapsSeen
  <2> QED BY <2>1, <2>2 DEF OverlapsSeen
<1>4. BasesCurrent'
  BY <1>0 DEF BillingSound, BasesCurrent
<1>5. WorkCovered'
  <2> SUFFICES ASSUME NEW d \in Event, NEW s \in Subscription, InHand(d)', event'[d].sub = s,
                      event'[d].got.userId \notin overlapped', stripe[s].price \in Listed
               PROVE  Covered(s)'
    BY <1>0 DEF WorkCovered
  <2>1. CASE d = e
    <3>1. Covers(e, s)'
      BY <1>0, <2>1 DEF Covers, OnlyEvent
    <3> QED BY <3>1 DEF Covered, Event
  <2>2. CASE d # e
    <3>1. Covered(s)
      BY <1>0, <2>2 DEF BillingSound, WorkCovered
    <3> QED BY <3>1, <1>1
  <2> QED BY <2>1, <2>2
<1>6. RowsCovered'
  <2> SUFFICES ASSUME NEW u \in Customer, NEW s \in Subscription, u \notin overlapped', row[u].sub = s
               PROVE  /\ stripe[s].userId = u
                      /\ stripe[s].price \in Listed => Mirrors(u, s) \/ Covered(s)'
    BY <1>0 DEF RowsCovered, Mirrors
  <2>1. stripe[s].userId = u /\ (stripe[s].price \in Listed => Mirrors(u, s) \/ Covered(s))
    BY <1>0 DEF BillingSound, RowsCovered
  <2> QED BY <1>1, <2>1
<1> QED BY <1>2, <1>3, <1>4, <1>5, <1>6 DEF BillingSound

(* What it finds is the row, until it writes it.                           *)
LEMMA LookStep ==
  ASSUME BillingTypeOK, BillingSound, NEW e \in Event, OnlyEvent(e), row' = row,
         overlapped' = overlapped, InHand(e), event'[e].at \in {"looked", "found"},
         event'[e].got = event[e].got,
         \/ event'[e].base = row[event[e].got.userId]
         \/ event[e].at = "looked" /\ event'[e].base = event[e].base
  PROVE  BillingSound'
<1>0. /\ stripe' = stripe /\ event'[e].sub = event[e].sub
      /\ \A d \in Event : /\ d # e => event'[d] = event[d]
                          /\ event'[d].got = event[d].got /\ event'[d].sub = event[d].sub
                          /\ InHand(d)' <=> InHand(d)
  BY DEF OnlyEvent, InHand
<1>1. ASSUME NEW s \in Subscription, Covered(s) PROVE Covered(s)'
  <2>1. Covers(e, s) => Covers(e, s)'
    BY <1>0 DEF Covers, InHand
  <2> QED BY <1>1, <2>1, CoverKept
<1>2. HandlersSound'
  BY <1>0 DEF BillingSound, HandlersSound, InHand, OnlyEvent
<1>3. OverlapsSeen'
  BY <1>0 DEF BillingSound, OverlapsSeen
<1>4. BasesCurrent'
  BY <1>0 DEF BillingSound, BasesCurrent
<1>5. WorkCovered'
  BY <1>0, <1>1 DEF BillingSound, WorkCovered
<1>6. RowsCovered'
  <2> SUFFICES ASSUME NEW u \in Customer, NEW s \in Subscription, u \notin overlapped, row[u].sub = s
               PROVE  /\ stripe[s].userId = u
                      /\ stripe[s].price \in Listed => Mirrors(u, s) \/ Covered(s)'
    BY <1>0 DEF RowsCovered, Mirrors
  <2>1. stripe[s].userId = u /\ (stripe[s].price \in Listed => Mirrors(u, s) \/ Covered(s))
    BY DEF BillingSound, RowsCovered
  <2> QED BY <1>1, <2>1
<1> QED BY <1>2, <1>3, <1>4, <1>5, <1>6 DEF BillingSound

(* A handler that worked alone leaves a row that says what it fetched.     *)
LEMMA FlushStep ==
  ASSUME BillingTypeOK, BillingSound, NEW e \in Event, OnlyEvent(e), overlapped' = overlapped,
         InHand(e), event'[e].at = "handled", NEW u \in Customer, u = event[e].got.userId,
         \A v \in Customer : v # u => row'[v] = row[v],
         u \notin overlapped => /\ row'[u].sub = event[e].sub
                                /\ row'[u].packet = event[e].got.price
                                /\ row'[u].status = event[e].got.status
  PROVE  BillingSound'
<1>0. /\ stripe' = stripe /\ ~InHand(e)'
      /\ \A d \in Event : d # e => event'[d] = event[d] /\ (InHand(d)' <=> InHand(d))
      /\ event[e].sub \in Subscription /\ stripe[event[e].sub].userId = u
  BY DEF OnlyEvent, InHand, BillingSound, HandlersSound
<1>1. ASSUME NEW s \in Subscription, Covered(s), s # event[e].sub \/ event[e].got # stripe[s]
      PROVE  Covered(s)'
  <2>1. ~Covers(e, s)
    BY <1>1 DEF Covers, InHand
  <2> QED BY <1>1, <2>1, CoverKept
<1>2. HandlersSound'
  BY <1>0 DEF BillingSound, HandlersSound, OnlyEvent
<1>3. OverlapsSeen'
  BY <1>0 DEF BillingSound, OverlapsSeen
<1>a. ASSUME NEW d \in Event, d # e, InHand(d), event[d].got.userId \notin overlapped
      PROVE  event[d].got.userId # u /\ event[d].got.userId \in Customer
  BY <1>a DEF BillingSound, OverlapsSeen, HandlersSound
<1>4. BasesCurrent'
  BY <1>0, <1>a DEF BillingSound, BasesCurrent, InHand
<1>5. WorkCovered'
  <2> SUFFICES ASSUME NEW d \in Event, NEW s \in Subscription, InHand(d)', event'[d].sub = s,
                      event'[d].got.userId \notin overlapped, stripe[s].price \in Listed
               PROVE  Covered(s)'
    BY <1>0 DEF WorkCovered
  <2>1. d # e /\ InHand(d) /\ event'[d] = event[d]
    BY <1>0
  <2>2. Covered(s) /\ event[d].got.userId = stripe[s].userId
    BY <2>1 DEF BillingSound, WorkCovered, HandlersSound
  <2>3. s # event[e].sub
    BY <1>0, <1>a, <2>1, <2>2
  <2> QED BY <1>1, <2>2, <2>3
<1>6. RowsCovered'
  <2> SUFFICES ASSUME NEW v \in Customer, NEW s \in Subscription, v \notin overlapped, row'[v].sub = s
               PROVE  /\ stripe[s].userId = v
                      /\ stripe[s].price \in Listed => Mirrors(v, s)' \/ Covered(s)'
    BY <1>0 DEF RowsCovered
  <2>1. CASE v # u
    <3>1. row'[v] = row[v] /\ stripe[s].userId = v
      BY <2>1 DEF BillingSound, RowsCovered
    <3>2. s # event[e].sub
      BY <1>0, <2>1, <3>1
    <3>3. stripe[s].price \in Listed => Mirrors(v, s) \/ Covered(s)
      BY <3>1 DEF BillingSound, RowsCovered
    <3> QED BY <1>0, <1>1, <3>1, <3>2, <3>3 DEF Mirrors
  <2>2. CASE v = u
    <3>1. s = event[e].sub
      BY <2>2
    <3>2. CASE event[e].got = stripe[s]
      BY <1>0, <2>2, <3>1, <3>2 DEF Mirrors
    <3>3. CASE event[e].got # stripe[s]
      <4>1. stripe[s].price \in Listed => Covered(s)
        BY <2>2, <3>1 DEF BillingSound, WorkCovered
      <4> QED BY <1>0, <1>1, <2>2, <3>1, <3>3, <4>1
    <3> QED BY <3>2, <3>3
  <2> QED BY <2>1, <2>2
<1> QED BY <1>2, <1>3, <1>4, <1>5, <1>6 DEF BillingSound

LEMMA SettleFacts ==
  ASSUME BillingTypeOK, NEW e \in Event, event[e].at # "none",
         NEW where \in {"sent", "handled"}, Settle(e, where), UNCHANGED <<stripe, sent>>
  PROVE  OnlyEvent(e) /\ event'[e].at = where
<1> DEFINE r == [event[e] EXCEPT !.at = where, !.got = NotAtStripe, !.base = NoSubscription]
<1>1. NotAtStripe \in AtStripe /\ NoSubscription \in SubscriptionRow
  BY DEF NotAtStripe, NoSubscription, AtStripe, SubscriptionRow
<1>2. event \in [Event -> EventRecord] /\ event[e] \in EventRecord
  BY DEF BillingTypeOK
<1>3. r \in EventRecord /\ r.at = where /\ r.sub = event[e].sub
  BY <1>1, <1>2 DEF EventRecord
<1>4. event' = [event EXCEPT ![e] = r]
  BY DEF Settle
<1> HIDE DEF r
<1> QED BY <1>2, <1>3, <1>4 DEF OnlyEvent

LEMMA BillingStep ==
  BillingTypeOK /\ BillingSound /\ [BillingNext]_billingVars => BillingTypeOK' /\ BillingSound'
<1> SUFFICES ASSUME BillingTypeOK, BillingSound, [BillingNext]_billingVars
             PROVE  BillingTypeOK' /\ BillingSound'
  OBVIOUS
<1>0. /\ stripe \in [Subscription -> AtStripe] /\ event \in [Event -> EventRecord]
      /\ row \in [Customer -> SubscriptionRow] /\ overlapped \subseteq Customer
      /\ billingFaults \in 0..MaxFaults
  BY DEF BillingTypeOK
<1>1. CASE UNCHANGED billingVars
  BY <1>1 DEF billingVars, BillingTypeOK, BillingSound, HandlersSound, OverlapsSeen, BasesCurrent,
     WorkCovered, RowsCovered, Covered, Covers, Mirrors, InHand
<1>2. ASSUME NEW s \in Subscription, StripeCreates(s) PROVE BillingTypeOK' /\ BillingSound'
  <2>1. PICK u \in Customer \cup {Null}, p \in Price :
            Tell(s, [userId |-> u, price |-> p, status |-> "active"])
    BY <1>2 DEF StripeCreates
  <2>2. [userId |-> u, price |-> p, status |-> "active"] \in AtStripe
    BY DEF AtStripe
  <2>3. stripe[s] = NotAtStripe
    BY <1>2 DEF StripeCreates
  <2> QED BY <2>1, <2>2, <2>3, TellStep
<1>3. ASSUME NEW s \in Subscription, StripeChanges(s) PROVE BillingTypeOK' /\ BillingSound'
  <2>1. PICK now \in AtStripe : Tell(s, now) /\ now.userId = stripe[s].userId
    <3>1. CASE Tell(s, [stripe[s] EXCEPT !.status = "canceled"])
      <4>1. /\ [stripe[s] EXCEPT !.status = "canceled"] \in AtStripe
            /\ [stripe[s] EXCEPT !.status = "canceled"].userId = stripe[s].userId
        BY <1>0 DEF AtStripe
      <4> QED BY <3>1, <4>1
    <3>2. ASSUME NEW p \in Price, Tell(s, [stripe[s] EXCEPT !.price = p])
          PROVE  \E now \in AtStripe : Tell(s, now) /\ now.userId = stripe[s].userId
      <4>1. /\ [stripe[s] EXCEPT !.price = p] \in AtStripe
            /\ [stripe[s] EXCEPT !.price = p].userId = stripe[s].userId
        BY <1>0 DEF AtStripe
      <4> QED BY <3>2, <4>1
    <3> QED BY <1>3, <3>1, <3>2 DEF StripeChanges
  <2> QED BY <2>1, TellStep
<1>4. ASSUME NEW e \in Event, StripeRepeats(e) PROVE BillingTypeOK' /\ BillingSound'
  <2>1. /\ OnlyEvent(e) /\ event'[e].at = "sent" /\ row' = row /\ overlapped' = overlapped
        /\ billingFaults' \in 0..MaxFaults
    BY <1>0, <1>4 DEF StripeRepeats, OnlyEvent, EventRecord
  <2> QED BY <1>0, <2>1, OnlyEventTypes, OutOfHand
<1>5. ASSUME NEW e \in Event, Fetch(e) PROVE BillingTypeOK' /\ BillingSound'
  <2>0. /\ event[e].at = "sent" /\ row' = row /\ billingFaults' = billingFaults
        /\ stripe' = stripe /\ sent' = sent
    BY <1>5 DEF Fetch, Packet
  <2>1. stripe[event[e].sub] \in AtStripe
    BY <1>0, <2>0 DEF BillingSound, HandlersSound
  <2>2. CASE /\ stripe[event[e].sub].userId = Null \/ stripe[event[e].sub].price \notin Listed
             /\ Settle(e, "handled") /\ overlapped' = overlapped
    <3>1. OnlyEvent(e) /\ event'[e].at = "handled"
      BY <2>0, <2>2, SettleFacts
    <3> QED BY <1>0, <2>0, <2>2, <3>1, OnlyEventTypes, OutOfHand
  <2>3. CASE /\ stripe[event[e].sub].userId # Null
             /\ event' = [event EXCEPT ![e] = [@ EXCEPT !.at = "fetched", !.got = stripe[event[e].sub]]]
             /\ overlapped' = overlapped \cup {v \in {stripe[event[e].sub].userId} :
                                 \E d \in Event : InHand(d) /\ event[d].got.userId = v}
    <3>1. /\ OnlyEvent(e) /\ event'[e].at = "fetched" /\ event'[e].got = stripe[event[e].sub]
      BY <1>0, <2>0, <2>1, <2>3 DEF OnlyEvent, EventRecord
    <3>2. stripe[event[e].sub].userId \in Customer
      BY <2>1, <2>3 DEF AtStripe
    <3>3. BillingSound'
      BY <2>0, <2>3, <3>1, <3>2, FetchStep
    <3>4. overlapped' \subseteq Customer
      BY <1>0, <2>3, <3>2
    <3> QED BY <1>0, <2>0, <3>1, <3>3, <3>4, OnlyEventTypes
  <2> QED BY <1>5, <2>2, <2>3 DEF Fetch, Fetched, Packet
<1>6. ASSUME NEW e \in Event, LookUp(e) \/ LookAgain(e) PROVE BillingTypeOK' /\ BillingSound'
  <2>0. /\ InHand(e) /\ row' = row /\ overlapped' = overlapped /\ billingFaults' = billingFaults
        /\ stripe' = stripe /\ sent' = sent
    BY <1>6 DEF LookUp, LookAgain, InHand
  <2>1. row[event[e].got.userId] \in SubscriptionRow
    BY <1>0, <2>0 DEF BillingSound, HandlersSound
  <2>2. /\ OnlyEvent(e) /\ event'[e].at \in {"looked", "found"} /\ event'[e].got = event[e].got
        /\ \/ event'[e].base = row[event[e].got.userId]
           \/ event[e].at = "looked" /\ event'[e].base = event[e].base
    <3>1. CASE LookUp(e)
      BY <1>0, <2>1, <3>1 DEF LookUp, Existing, OnlyEvent, EventRecord
    <3>2. CASE LookAgain(e)
      <4>1. CASE event' = [event EXCEPT ![e] = [@ EXCEPT !.at = "found", !.base = Existing(e)]]
        BY <1>0, <2>0, <2>1, <4>1 DEF InHand, Existing, OnlyEvent, EventRecord
      <4>2. CASE event' = [event EXCEPT ![e].at = "found"]
        BY <1>0, <2>0, <3>2, <4>2 DEF LookAgain, OnlyEvent, EventRecord
      <4> QED BY <3>2, <4>1, <4>2 DEF LookAgain
    <3> QED BY <1>6, <3>1, <3>2
  <2>3. BillingSound'
    BY <2>0, <2>2, LookStep
  <2> QED BY <1>0, <2>0, <2>2, <2>3, OnlyEventTypes
<1>7. ASSUME NEW e \in Event, Flush(e) PROVE BillingTypeOK' /\ BillingSound'
  <2> DEFINE u == event[e].got.userId
             base == event[e].base
  <2>0. /\ event[e].at = "found" /\ InHand(e) /\ overlapped' = overlapped
        /\ billingFaults' = billingFaults /\ stripe' = stripe /\ sent' = sent
    BY <1>7 DEF Flush, InHand
  <2>1. /\ event[e].sub \in Subscription /\ u \in Customer
        /\ u \notin overlapped => base = row[u]
        /\ event[e] \in EventRecord /\ row[u] \in SubscriptionRow
    BY <1>0, <2>0 DEF BillingSound, HandlersSound, BasesCurrent
  <2>2. ASSUME Settle(e, "handled"), NEW r \in SubscriptionRow, row' = [row EXCEPT ![u] = r],
               u \notin overlapped => /\ r.sub = event[e].sub /\ r.packet = event[e].got.price
                                      /\ r.status = event[e].got.status
        PROVE  BillingTypeOK' /\ BillingSound'
    <3>1. OnlyEvent(e) /\ event'[e].at = "handled"
      BY <2>0, <2>2, SettleFacts
    <3>2. /\ row' \in [Customer -> SubscriptionRow] /\ row'[u] = r
          /\ \A v \in Customer : v # u => row'[v] = row[v]
      BY <1>0, <2>1, <2>2
    <3>3. BillingTypeOK'
      BY <1>0, <2>0, <3>1, <3>2, OnlyEventTypes
    <3>4. PICK v \in Customer : v = u
      BY <2>1
    <3>5. BillingSound'
      BY <2>0, <2>2, <3>1, <3>2, <3>4, FlushStep
    <3> QED BY <3>3, <3>5
  <2>3. /\ Upserted(e) \in SubscriptionRow
        /\ Upserted(e).sub = event[e].sub /\ Upserted(e).packet = event[e].got.price
        /\ Upserted(e).status = event[e].got.status
    BY <2>1 DEF Upserted, SubscriptionOf, SubscriptionRow, EventRecord, AtStripe
  <2>4. CASE base # NoSubscription /\ row' = [row EXCEPT ![u] = Written(@, base, Upserted(e))]
             /\ Settle(e, "handled")
    <3> DEFINE r == Written(row[u], base, Upserted(e))
    <3>1. r \in SubscriptionRow
      BY <2>1, <2>3 DEF Written, SubscriptionRow
    <3>2. u \notin overlapped => /\ r.sub = event[e].sub /\ r.packet = event[e].got.price
                                 /\ r.status = event[e].got.status
      BY <2>1, <2>3 DEF Written, SubscriptionRow
    <3> HIDE DEF r
    <3>3. row' = [row EXCEPT ![u] = r]
      BY <2>4 DEF r
    <3> QED BY <2>2, <2>4, <3>1, <3>2, <3>3
  <2>5. CASE row' = [row EXCEPT ![u] = SubscriptionOf(e)]
             /\ Settle(e, "handled")
    <3> DEFINE r == SubscriptionOf(e)
    <3>1. /\ r \in SubscriptionRow /\ r.sub = event[e].sub /\ r.packet = event[e].got.price
          /\ r.status = event[e].got.status
      BY <2>1, <2>3 DEF Upserted, SubscriptionOf, SubscriptionRow, EventRecord, AtStripe
    <3>2. row' = [row EXCEPT ![u] = r]
      BY <2>5
    <3> HIDE DEF r
    <3> QED BY <2>2, <2>5, <3>1, <3>2
  <2>6. CASE row' = row /\ Settle(e, "sent")
    <3>1. OnlyEvent(e) /\ event'[e].at = "sent"
      BY <2>0, <2>6, SettleFacts
    <3> QED BY <1>0, <2>0, <2>6, <3>1, OnlyEventTypes, OutOfHand
  <2> QED BY <1>7, <2>4, <2>5, <2>6 DEF Flush
<1>8. ASSUME NEW e \in Event, FailHandling(e) PROVE BillingTypeOK' /\ BillingSound'
  <2>1. /\ OnlyEvent(e) /\ event'[e].at = "sent" /\ row' = row /\ overlapped' = overlapped
        /\ billingFaults' \in 0..MaxFaults
    BY <1>0, <1>8, SettleFacts DEF FailHandling, InHand
  <2> QED BY <1>0, <2>1, OnlyEventTypes, OutOfHand
<1> QED BY <1>1, <1>2, <1>3, <1>4, <1>5, <1>6, <1>7, <1>8 DEF BillingNext, HandleEvent

LEMMA BillingInvariant == BillingSpec => [](BillingTypeOK /\ BillingSound)
<1>1. BillingInit => BillingTypeOK /\ BillingSound
  <2> SUFFICES ASSUME BillingInit PROVE BillingTypeOK /\ BillingSound
    OBVIOUS
  <2>1. BillingTypeOK
    BY DEF BillingInit, BillingTypeOK, Event, EventRecord, NoEvent, AtStripe, NotAtStripe,
       SubscriptionRow, NoSubscription
  <2>2. /\ \A e \in Event : event[e].at = "none" /\ ~InHand(e)
        /\ \A u \in Customer : row[u].sub = Null
    BY DEF BillingInit, NoEvent, NoSubscription, InHand
  <2>3. BillingSound
    BY <2>2 DEF BillingSound, HandlersSound, OverlapsSeen, BasesCurrent, WorkCovered, RowsCovered
  <2> QED BY <2>1, <2>3
<1> QED BY <1>1, BillingStep, PTL DEF BillingSpec

(* Once the events of a subscription are handled, its row says what Stripe *)
(* says, whatever order and however often they came.                       *)
THEOREM RowsMirrorStripe == BillingSpec => []RowMirrorsStripe
<1>1. BillingTypeOK /\ BillingSound => RowMirrorsStripe
  <2> SUFFICES ASSUME BillingSound, NEW u \in Customer, NEW s \in Subscription,
                      row[u].sub = s, u \notin overlapped, stripe[s].price \in Listed,
                      \A e \in Event : event[e].sub = s => event[e].at = "handled"
               PROVE  row[u].packet = stripe[s].price /\ row[u].status = stripe[s].status
    BY DEF RowMirrorsStripe
  <2>1. ~Covered(s)
    BY DEF Covered, Covers, InHand
  <2> QED BY <2>1 DEF BillingSound, RowsCovered, Mirrors
<1> QED BY BillingInvariant, <1>1, PTL

-----------------------------------------------------------------------------
(* Waitlist. Who is past the insert holds the row of the address alone.    *)

HoldsRow(c) == entry[c].at \in {"confirm", "id"}

WaitlistSound ==
    /\ \A r \in waitlist : r.way = "plain"
    /\ \A c \in Call : entry[c].at # "new" => entry[c].typed \in Typed
    /\ \A c \in Call : entry[c].at \in {"check", "create"} => entry[c].typed.way # "broken"
    /\ \A c \in Call : HoldsRow(c) \/ EntryAt(c, "conflict") => Normal(entry[c].typed) \in waitlist
    /\ \A c, d \in Call : HoldsRow(c) /\ HoldsRow(d) /\ entry[c].typed.address = entry[d].typed.address => c = d
    /\ \A c \in Call : EntryAt(c, "confirm") => welcomes[entry[c].typed.address] = 0
    /\ \A a \in Address : welcomes[a] \in {0, 1}
    /\ \A a \in Address : welcomes[a] > 0 => \E r \in waitlist : r.address = a
    /\ \A r \in waitlist : \/ welcomes[r.address] > 0 \/ waitlistFaults > 0
                           \/ \E c \in Call : EntryAt(c, "confirm") /\ entry[c].typed.address = r.address

EntryRecord ==
    [typed : Typed \cup {Null},
     at : {"new", "check", "create", "confirm", "id", "conflict", "invalid", "error"}]

LEMMA NormalFacts ==
  ASSUME NEW t \in Typed
  PROVE  /\ Normal(t) \in Typed /\ Normal(t).address = t.address
         /\ t.way # "broken" => Normal(t).way = "plain"
BY DEF Typed, Normal

LEMMA MoveFacts ==
  ASSUME WaitlistTypeOK, NEW c \in Call,
         NEW where \in {"confirm", "id", "conflict", "create", "error"}, Move(c, where)
  PROVE  /\ entry' \in [Call -> EntryRecord]
         /\ entry'[c].at = where /\ entry'[c].typed = entry[c].typed
         /\ \A d \in Call : d # c => entry'[d] = entry[d]
BY DEF Move, WaitlistTypeOK, EntryRecord

LEMMA WaitlistStep ==
  WaitlistTypeOK /\ WaitlistSound /\ [WaitlistNext]_waitlistVars => WaitlistTypeOK' /\ WaitlistSound'
<1> SUFFICES ASSUME WaitlistTypeOK, WaitlistSound, [WaitlistNext]_waitlistVars
             PROVE  WaitlistTypeOK' /\ WaitlistSound'
  OBVIOUS
<1>0. /\ waitlist \subseteq Typed /\ entry \in [Call -> EntryRecord]
      /\ welcomes \in [Address -> Nat] /\ waitlistFaults \in 0..MaxFaults
  BY DEF WaitlistTypeOK, EntryRecord
<1>1. CASE UNCHANGED waitlistVars
  BY <1>1 DEF waitlistVars, WaitlistTypeOK, WaitlistSound, HoldsRow, EntryAt
<1>2. ASSUME NEW c \in Call, NEW typed \in Typed, Apply(c, typed) PROVE WaitlistTypeOK' /\ WaitlistSound'
  <2>1. /\ entry' \in [Call -> EntryRecord] /\ entry[c].at = "new"
        /\ entry'[c].typed = typed /\ entry'[c].at \in {"invalid", "check"}
        /\ entry'[c].at = "check" => typed.way # "broken"
        /\ \A d \in Call : d # c => entry'[d] = entry[d]
        /\ UNCHANGED <<waitlist, welcomes, waitlistFaults>>
    BY <1>0, <1>2 DEF Apply, EntryAt, EntryRecord
  <2>2. WaitlistTypeOK'
    BY <1>0, <2>1 DEF WaitlistTypeOK, EntryRecord
  <2>3. WaitlistSound'
    BY <1>0, <2>1 DEF WaitlistSound, HoldsRow, EntryAt
  <2> QED BY <2>2, <2>3
<1>3. ASSUME NEW c \in Call, CheckListed(c) PROVE WaitlistTypeOK' /\ WaitlistSound'
  <2>1. /\ entry' \in [Call -> EntryRecord] /\ entry[c].at = "check"
        /\ entry'[c].typed = entry[c].typed /\ entry'[c].at \in {"conflict", "create"}
        /\ entry'[c].at = "conflict" => Normal(entry[c].typed) \in waitlist
        /\ \A d \in Call : d # c => entry'[d] = entry[d]
        /\ UNCHANGED <<waitlist, welcomes, waitlistFaults>>
    BY <1>0, <1>3, MoveFacts DEF CheckListed, Entered, EntryAt
  <2>2. WaitlistTypeOK'
    BY <1>0, <2>1 DEF WaitlistTypeOK, EntryRecord
  <2>3. WaitlistSound'
    BY <1>0, <2>1 DEF WaitlistSound, HoldsRow, EntryAt
  <2> QED BY <2>2, <2>3
<1>4. ASSUME NEW c \in Call, CreateEntry(c) PROVE WaitlistTypeOK' /\ WaitlistSound'
  <2> DEFINE typed == entry[c].typed
  <2>1. typed \in Typed /\ typed.way # "broken" /\ typed.address \in Address
    BY <1>0, <1>4 DEF WaitlistSound, CreateEntry, Entered, EntryAt, Typed
  <2>2. PICK email \in Typed : email = Normal(typed)
    BY <2>1, NormalFacts
  <2>3. email.address = typed.address /\ email.way = "plain"
    BY <2>1, <2>2, NormalFacts
  <2>4. /\ entry' \in [Call -> EntryRecord] /\ entry[c].at = "create"
        /\ entry'[c].typed = typed
        /\ entry'[c].at = IF email \in waitlist THEN "error" ELSE "confirm"
        /\ \A d \in Call : d # c => entry'[d] = entry[d]
        /\ waitlist' = waitlist \cup {email} /\ UNCHANGED <<welcomes, waitlistFaults>>
    BY <1>0, <1>4, <2>2, MoveFacts DEF CreateEntry, Entered, EntryAt
  <2>5. WaitlistTypeOK'
    BY <1>0, <2>4 DEF WaitlistTypeOK, EntryRecord
  <2>6. CASE email \in waitlist
    <3>1. /\ waitlist' = waitlist /\ entry'[c].at = "error" /\ entry'[c].typed = entry[c].typed
          /\ \A d \in Call : d # c => entry'[d] = entry[d]
      BY <2>4, <2>6
    <3>2. WaitlistSound'
      BY <1>0, <2>4, <3>1 DEF WaitlistSound, HoldsRow, EntryAt
    <3> QED BY <2>5, <3>2
  <2>7. CASE email \notin waitlist
    <3>1. \A r \in waitlist : r.address # typed.address
      BY <1>0, <2>3, <2>7 DEF WaitlistSound, Typed
    <3>2. welcomes[typed.address] = 0
      BY <2>1, <3>1 DEF WaitlistSound
    <3>3. \A d \in Call : HoldsRow(d) => entry[d].typed.address # typed.address
      <4> SUFFICES ASSUME NEW d \in Call, HoldsRow(d) PROVE entry[d].typed.address # typed.address
        OBVIOUS
      <4>1. entry[d].typed \in Typed /\ Normal(entry[d].typed) \in waitlist
        BY DEF WaitlistSound, HoldsRow
      <4> QED BY <3>1, <4>1, NormalFacts
    <3> HIDE DEF typed
    <3>4. /\ \A d \in Call : HoldsRow(d)' <=> d = c \/ HoldsRow(d)
          /\ \A d \in Call : entry'[d].typed = entry[d].typed
          /\ \A d \in Call : (entry'[d].at = "conflict") <=> (d # c /\ entry[d].at = "conflict")
          /\ \A d \in Call : (entry'[d].at = "confirm") <=> (d = c \/ entry[d].at = "confirm")
      BY <2>4, <2>7 DEF HoldsRow, typed
    <3>5. /\ \A r \in waitlist' : r.way = "plain"
          /\ \A d \in Call : entry'[d].at # "new" => entry'[d].typed \in Typed
          /\ \A d \in Call : entry'[d].at \in {"check", "create"} => entry'[d].typed.way # "broken"
      BY <2>1, <2>3, <2>4, <2>7 DEF WaitlistSound, typed
    <3>6. \A d \in Call : HoldsRow(d)' \/ EntryAt(d, "conflict")' => Normal(entry'[d].typed) \in waitlist'
      BY <2>2, <2>4, <3>4 DEF WaitlistSound, EntryAt, typed
    <3>7. \A d, f \in Call :
              HoldsRow(d)' /\ HoldsRow(f)' /\ entry'[d].typed.address = entry'[f].typed.address => d = f
      BY <3>3, <3>4 DEF WaitlistSound, typed
    <3>8. \A d \in Call : EntryAt(d, "confirm")' => welcomes'[entry'[d].typed.address] = 0
      BY <2>4, <3>2, <3>4 DEF WaitlistSound, EntryAt, typed
    <3>9. /\ \A b \in Address : welcomes'[b] \in {0, 1}
          /\ \A b \in Address : welcomes'[b] > 0 => \E r \in waitlist' : r.address = b
      BY <2>4 DEF WaitlistSound
    <3>10. \A r \in waitlist' :
              \/ welcomes'[r.address] > 0 \/ waitlistFaults' > 0
              \/ \E d \in Call : EntryAt(d, "confirm")' /\ entry'[d].typed.address = r.address
      BY <2>3, <2>4, <3>4 DEF WaitlistSound, EntryAt, typed
    <3>11. WaitlistSound'
      BY <3>5, <3>6, <3>7, <3>8, <3>9, <3>10 DEF WaitlistSound, EntryAt
    <3> QED BY <2>5, <3>11
  <2> QED BY <2>5, <2>6, <2>7
<1>5. ASSUME NEW c \in Call, ConfirmEntry(c) PROVE WaitlistTypeOK' /\ WaitlistSound'
  <2>1. PICK a \in Address : a = entry[c].typed.address
    BY <1>0, <1>5 DEF WaitlistSound, ConfirmEntry, EntryAt, Typed
  <2>2. /\ entry' \in [Call -> EntryRecord] /\ entry[c].at = "confirm"
        /\ entry'[c].typed = entry[c].typed /\ entry'[c].at = "id"
        /\ \A d \in Call : d # c => entry'[d] = entry[d]
        /\ UNCHANGED <<waitlist, waitlistFaults>>
    BY <1>0, <1>5, MoveFacts DEF ConfirmEntry, EntryAt
  <2>3. /\ welcomes[a] = 0 /\ welcomes'[a] = 1 /\ welcomes' \in [Address -> Nat]
        /\ \A b \in Address : b # a => welcomes'[b] = welcomes[b]
    BY <1>0, <1>5, <2>1, <2>2 DEF ConfirmEntry, WaitlistSound, EntryAt
  <2>4. WaitlistTypeOK'
    BY <1>0, <2>2, <2>3 DEF WaitlistTypeOK, EntryRecord
  <2>5. entry[c].typed \in Typed /\ Normal(entry[c].typed) \in waitlist
    BY <2>2 DEF WaitlistSound, HoldsRow
  <2>6. /\ \E r \in waitlist : r.address = a
        /\ \A d \in Call : entry[d].at = "confirm" /\ d # c => entry[d].typed.address # a
        /\ \A d \in Call : entry[d].at = "confirm" => entry[d].typed.address \in Address
    BY <2>1, <2>2, <2>5, NormalFacts DEF WaitlistSound, HoldsRow, Typed
  <2>7. \A r \in waitlist : r.address \in Address
    BY <1>0 DEF Typed
  <2>8. WaitlistSound'
    BY <1>0, <2>1, <2>2, <2>3, <2>6, <2>7 DEF WaitlistSound, HoldsRow, EntryAt
  <2> QED BY <2>4, <2>8
<1>6. ASSUME NEW c \in Call, FailEntry(c) PROVE WaitlistTypeOK' /\ WaitlistSound'
  <2>1. /\ entry' \in [Call -> EntryRecord] /\ entry[c].at \in {"check", "create", "confirm"}
        /\ entry'[c].typed = entry[c].typed
        /\ entry'[c].at = "error" \/ (entry[c].at = "confirm" /\ entry'[c].at = "id")
        /\ \A d \in Call : d # c => entry'[d] = entry[d]
        /\ waitlistFaults' \in 0..MaxFaults /\ waitlistFaults' > 0
        /\ UNCHANGED <<waitlist, welcomes>>
    BY <1>0, <1>6, MoveFacts DEF FailEntry, EntryAt
  <2>2. WaitlistTypeOK'
    BY <1>0, <2>1 DEF WaitlistTypeOK, EntryRecord
  <2>3. WaitlistSound'
    BY <1>0, <2>1 DEF WaitlistSound, HoldsRow, EntryAt
  <2> QED BY <2>2, <2>3
<1> QED BY <1>1, <1>2, <1>3, <1>4, <1>5, <1>6 DEF WaitlistNext

LEMMA WaitlistInvariant == WaitlistSpec => [](WaitlistTypeOK /\ WaitlistSound)
<1>1. WaitlistInit => WaitlistTypeOK /\ WaitlistSound
  BY DEF WaitlistInit, WaitlistTypeOK, WaitlistSound, HoldsRow, EntryAt
<1> QED BY <1>1, WaitlistStep, PTL DEF WaitlistSpec

(* However many ask for it at once, an address is listed, answered and     *)
(* welcomed once.                                                          *)
THEOREM WelcomedOnce == WaitlistSpec => []OneWelcome
<1>1. WaitlistTypeOK /\ WaitlistSound => OneWelcome
  <2> SUFFICES ASSUME WaitlistTypeOK, WaitlistSound, NEW a \in Address
               PROVE  LET listedAs == {r \in waitlist : r.address = a} IN
                      /\ \A r, s \in listedAs : r = s
                      /\ \A c, d \in Answered(a, "id") : c = d
                      /\ welcomes[a] <= 1
                      /\ Answered(a, "conflict") \cup Answered(a, "id") # {} => listedAs # {}
                      /\ listedAs # {} /\ welcomes[a] = 0 => Answered(a, "confirm") # {} \/ waitlistFaults > 0
    BY DEF OneWelcome
  <2> DEFINE listedAs == {r \in waitlist : r.address = a}
  <2>1. \A r, s \in listedAs : r = s
    BY DEF WaitlistTypeOK, WaitlistSound, Typed
  <2>2. \A c, d \in Answered(a, "id") : c = d
    BY DEF WaitlistSound, Answered, HoldsRow, EntryAt
  <2>3. welcomes[a] <= 1
    BY DEF WaitlistSound
  <2>4. ASSUME NEW c \in Answered(a, "conflict") \cup Answered(a, "id") PROVE listedAs # {}
    <3>1. /\ c \in Call /\ entry[c].typed.address = a /\ entry[c].typed \in Typed
          /\ Normal(entry[c].typed) \in waitlist
      BY <2>4 DEF Answered, WaitlistSound, HoldsRow, EntryAt
    <3> QED BY <3>1, NormalFacts
  <2>5. ASSUME NEW r \in listedAs, welcomes[a] = 0
        PROVE  Answered(a, "confirm") # {} \/ waitlistFaults > 0
    BY <2>5 DEF Answered, WaitlistSound
  <2> QED BY <2>1, <2>2, <2>3, <2>4, <2>5
<1> QED BY WaitlistInvariant, <1>1, PTL

-----------------------------------------------------------------------------
(* PagedWalk.                                                              *)

LEMMA TurnTypes ==
  ASSUME WalkTypeOK, NEW more \in BOOLEAN, Turn(more) PROVE WalkTypeOK'
<1>1. walk.page + 1 \in Nat /\ walk.page \in Nat /\ walk.kind \in {"none", "scan", "list"}
  BY DEF WalkTypeOK, Walk
<1>2. walk' \in Walk
  BY <1>1 DEF Turn, NoWalk, Walk
<1> QED BY <1>2 DEF WalkTypeOK, Turn, walkHistory

LEMMA WalkTypes == WalkSpec => []WalkTypeOK
<1>1. WalkInit => WalkTypeOK
  BY PagedWalkAssumption DEF WalkInit, WalkTypeOK, Walk, NoWalk, ListRow
<1>2. WalkTypeOK /\ [WalkNext]_walkVars => WalkTypeOK'
  <2> SUFFICES ASSUME WalkTypeOK, [WalkNext]_walkVars PROVE WalkTypeOK'
    OBVIOUS
  <2>0. /\ rows \subseteq ListRow /\ created \in 0..MaxRows /\ walk \in Walk
        /\ visits \in [ListRow -> Nat] /\ started \subseteq ListRow
        /\ added \in Nat /\ removed \in Nat /\ walkFaults \in 0..MaxFaults
    BY DEF WalkTypeOK
  <2>1. CASE UNCHANGED walkVars
    BY <2>1 DEF walkVars, walkHistory, WalkTypeOK
  <2>2. ASSUME NEW kind \in {"scan", "list"}, Begin(kind) PROVE WalkTypeOK'
    <3>1. walk' \in Walk
      BY <2>2 DEF Begin, Walk, NoWalk
    <3> QED BY <2>0, <2>2, <3>1 DEF Begin, WalkTypeOK
  <2>3. CASE ReadRows
    <3>1. walk' \in Walk
      BY <2>0, <2>3 DEF ReadRows, Walk
    <3>2. visits' \in [ListRow -> Nat]
      BY <2>0, <2>3 DEF ReadRows
    <3> QED BY <2>0, <2>3, <3>1, <3>2 DEF ReadRows, WalkTypeOK
  <2>4. CASE CountRows
    <3>1. Cardinality(rows) \in Nat
      <4>1. IsFiniteSet(ListRow)
        BY PagedWalkAssumption, FS_Interval DEF ListRow
      <4> QED BY <2>0, <4>1, FS_Subset, FS_CardinalityType
    <3>2. PICK total \in Nat : total = Cardinality(rows)
      BY <3>1
    <3>3. walk' \in Walk
      BY <2>0, <2>4, <3>2 DEF CountRows, Walk
    <3> QED BY <2>0, <2>4, <3>3 DEF CountRows, walkHistory, WalkTypeOK
  <2>5. CASE TurnScan
    <3>1. PICK more \in BOOLEAN : Turn(more)
      BY <2>5 DEF TurnScan, Full
    <3> QED BY <3>1, TurnTypes
  <2>6. CASE TurnList
    <3>0. HasNextPage(walk.total, Offset) \in BOOLEAN
      BY DEF HasNextPage
    <3>1. PICK more \in BOOLEAN : Turn(more)
      BY <2>6, <3>0 DEF TurnList
    <3> QED BY <3>1, TurnTypes
  <2>7. CASE FailWalk
    <3>1. walk' \in Walk
      BY <2>0, <2>7 DEF FailWalk, Walk, NoWalk
    <3> QED BY <2>0, <2>7, <3>1 DEF FailWalk, walkHistory, WalkTypeOK
  <2>8. CASE CreateRow
    <3>1. created' \in 0..MaxRows /\ created + 1 \in ListRow
      BY <2>0, <2>8, PagedWalkAssumption DEF CreateRow, ListRow
    <3> QED BY <2>0, <2>8, <3>1 DEF CreateRow, WalkTypeOK
  <2>9. ASSUME NEW i \in ListRow, RemoveRow(i) PROVE WalkTypeOK'
    BY <2>0, <2>9 DEF RemoveRow, WalkTypeOK
  <2> QED BY <2>1, <2>2, <2>3, <2>4, <2>5, <2>6, <2>7, <2>8, <2>9 DEF WalkNext, StartScan, StartList
<1> QED BY <1>1, <1>2, PTL DEF WalkSpec

(* The rows ahead of a row, and how far the pages read so far reach.       *)
Rank(i) == Cardinality(Newer(i))
Reached == Offset + (IF walk.read THEN PageSize ELSE 0)

(* Rows of the beginning that slipped past, and rows met that were pushed  *)
(* back and will be met once more.                                         *)
Slipped == {i \in started \cap rows : visits[i] = 0 /\ Rank(i) < Reached}
Pushed == {<<i, visits[i] + 1>> : i \in {j \in rows : visits[j] > 0 /\ Rank(j) >= Reached}}

(* Nothing is known of rows to come; nothing has been counted before the   *)
(* walk begins.                                                            *)
RowsNumbered ==
    /\ rows \subseteq 1..created /\ started \subseteq 1..created
    /\ \A i \in ListRow : i > created => visits[i] = 0
    /\ walk.at = "idle" => added = 0 /\ removed = 0 /\ \A i \in ListRow : visits[i] = 0

(* Each row that slipped past is owed to a deletion, each one pushed back  *)
(* to a creation.                                                          *)
ShiftsPaid ==
    /\ Cardinality(Slipped) <= removed
    /\ IsFiniteSet(Repeats \cup Pushed) /\ Cardinality(Repeats \cup Pushed) <= added

(* A short page ends the scan: only what slipped past is missed. A total   *)
(* falls short of the rows by those created since it was read.             *)
EndsKnown ==
    /\ walk.kind = "scan" /\ walk.read /\ Cardinality(walk.held) # PageSize => Cardinality(Missed) <= removed
    /\ walk.total # Null => walk.kind = "list" /\ Cardinality(rows) <= walk.total + added
    /\ walk.total # Null /\ walk.read /\ ~HasNextPage(walk.total, Offset) =>
         Cardinality(Missed) <= removed + added

WalkSound == RowsNumbered /\ (walk.at = "page" => ShiftsPaid /\ EndsKnown) /\ WalkNearlyExact

(* Every set of rows is finite, and so are the second visits.              *)
LEMMA RowsFinite ==
  ASSUME NEW S, S \subseteq ListRow
  PROVE  IsFiniteSet(S) /\ Cardinality(S) \in Nat
<1>1. IsFiniteSet(ListRow)
  BY PagedWalkAssumption, FS_Interval DEF ListRow
<1> QED BY <1>1, FS_Subset, FS_CardinalityType

LEMMA FewerRows ==
  ASSUME NEW S, NEW T, S \subseteq T, IsFiniteSet(T)
  PROVE  /\ IsFiniteSet(S) /\ Cardinality(S) \in Nat /\ Cardinality(T) \in Nat
         /\ Cardinality(S) <= Cardinality(T)
BY FS_Subset, FS_CardinalityType

(* A set that grows by at most one thing.                                  *)
LEMMA OneMoreAtMost ==
  ASSUME NEW S, NEW T, NEW X, IsFiniteSet(S), T \subseteq S \cup X, \A x, y \in X : x = y
  PROVE  IsFiniteSet(T) /\ Cardinality(T) \in Nat /\ Cardinality(T) <= Cardinality(S) + 1
<1>1. PICK x : X \subseteq {x}
  OBVIOUS
<1>2. IsFiniteSet(S \cup {x}) /\ Cardinality(S) \in Nat
      /\ Cardinality(S \cup {x}) \in {Cardinality(S), Cardinality(S) + 1}
  BY FS_AddElement, FS_CardinalityType
<1>3. T \subseteq S \cup {x}
  BY <1>1
<1> QED BY <1>2, <1>3, FewerRows

(* Rows are ordered: the ranks are 0, 1, 2 and so on.                      *)
LEMMA RankFacts ==
  ASSUME rows \subseteq ListRow
  PROVE  /\ \A i \in rows : Rank(i) \in 0..(Cardinality(rows) - 1)
         /\ \A i, j \in rows : Rank(i) = Rank(j) => i = j
         /\ \A n \in 0..(Cardinality(rows) - 1) : \E i \in rows : Rank(i) = n
<1>. DEFINE last == Cardinality(rows) - 1
<1>1. IsFiniteSet(rows) /\ Cardinality(rows) \in Nat
  BY RowsFinite
<1>2. ASSUME NEW i \in rows PROVE IsFiniteSet(Newer(i)) /\ Rank(i) \in 0..last
  <2>1. Newer(i) \subseteq rows \ {i}
    BY DEF Newer, ListRow
  <2>2. IsFiniteSet(rows \ {i}) /\ Cardinality(rows \ {i}) = Cardinality(rows) - 1
    BY <1>1, FS_RemoveElement
  <2> QED BY <1>1, <2>1, <2>2, FewerRows DEF Rank
<1>3. ASSUME NEW i \in rows, NEW j \in rows, i < j PROVE Rank(j) < Rank(i)
  <2>1. Newer(j) \subseteq Newer(i) /\ j \in Newer(i) /\ j \notin Newer(j)
    <3>1. rows \subseteq Int
      BY PagedWalkAssumption DEF ListRow
    <3>2. \A m \in rows : m > j => m > i
      BY <1>3, <3>1
    <3>3. j > i /\ ~ (j > j)
      BY <1>3, <3>1
    <3> QED BY <3>2, <3>3 DEF Newer
  <2>2. Rank(j) <= Rank(i) /\ Rank(j) # Rank(i)
    BY <1>2, <2>1, FS_Subset DEF Rank
  <2> QED BY <1>2, <2>2
<1>4. ASSUME NEW i \in rows, NEW j \in rows, Rank(i) = Rank(j) PROVE i = j
  <2>1. i \in Int /\ j \in Int /\ Rank(i) \in Int
    BY <1>2, PagedWalkAssumption DEF ListRow
  <2>2. ~ (i < j) /\ ~ (j < i)
    BY <1>3, <1>4, <2>1
  <2> QED BY <2>1, <2>2
<1>5. ASSUME NEW n \in 0..last PROVE \E i \in rows : Rank(i) = n
  <2>. DEFINE rank == [i \in rows |-> Rank(i)]
  <2>1. rank \in Injection(rows, 0..last)
    BY <1>2, <1>4 DEF Injection, IsInjective
  <2>2. IsFiniteSet(0..last) /\ Cardinality(0..last) = Cardinality(rows)
    BY <1>1, FS_Interval
  <2>3. rank \in Surjection(rows, 0..last)
    BY <2>1, <2>2, FS_Injection
  <2> QED BY <2>3 DEF Surjection
<1> QED BY <1>2, <1>4, <1>5

(* A page that is not full reaches the end of the rows.                    *)
LEMMA ShortPage ==
  ASSUME rows \subseteq ListRow, NEW o \in Nat,
         Cardinality({i \in rows : Rank(i) \in o..(o + PageSize - 1)}) # PageSize
  PROVE  \A i \in rows : Rank(i) < o + PageSize
<1>. DEFINE met == {i \in rows : Rank(i) \in o..(o + PageSize - 1)}
            place == [i \in met |-> Rank(i)]
<1>1. SUFFICES ASSUME NEW k \in rows, Rank(k) >= o + PageSize PROVE FALSE
  BY RankFacts, RowsFinite, PagedWalkAssumption
<1>2. /\ Cardinality(rows) \in Nat /\ PageSize \in Nat /\ PageSize > 0
      /\ Rank(k) <= Cardinality(rows) - 1
  BY RankFacts, RowsFinite, PagedWalkAssumption
<1>3. IsFiniteSet(met)
  BY RowsFinite
<1>4. place \in Bijection(met, o..(o + PageSize - 1))
  <2>1. \A i \in met : place[i] \in o..(o + PageSize - 1)
    OBVIOUS
  <2>2. \A i, j \in met : place[i] = place[j] => i = j
    BY RankFacts
  <2>3. \A n \in o..(o + PageSize - 1) : n \in 0..(Cardinality(rows) - 1)
    BY <1>1, <1>2, RankFacts
  <2>4. \A n \in o..(o + PageSize - 1) : \E i \in met : place[i] = n
    BY <2>3, RankFacts
  <2> QED BY <2>1, <2>2, <2>4 DEF Bijection, Injection, Surjection, IsInjective
<1>5. Cardinality(o..(o + PageSize - 1)) = PageSize /\ IsFiniteSet(o..(o + PageSize - 1))
  <2>1. o \in Int /\ o + PageSize - 1 \in Int /\ ~ (o > o + PageSize - 1)
        /\ (o + PageSize - 1) - o + 1 = PageSize
    BY <1>2
  <2> QED BY <2>1, FS_Interval
<1>6. ExistsBijection(met, o..(o + PageSize - 1))
  BY <1>4 DEF ExistsBijection
<1>7. Cardinality(met) = PageSize
  BY <1>3, <1>5, <1>6, FS_Bijection
<1> QED BY <1>7

(* No more rows lie beyond a place than the rows exceed it.                *)
LEMMA FarRows ==
  ASSUME rows \subseteq ListRow, NEW r \in Nat, NEW n \in Nat, Cardinality(rows) <= r + n
  PROVE  Cardinality({i \in rows : Rank(i) >= r}) <= n
<1>. DEFINE far == {i \in rows : Rank(i) >= r}
            beyond == [i \in far |-> Rank(i)]
<1>1. Cardinality(rows) \in Nat
  BY RowsFinite
<1>2. \A i \in rows : Rank(i) \in Int /\ Rank(i) <= Cardinality(rows) - 1
  BY <1>1, RankFacts
<1>3. \A i \in far : beyond[i] \in r..(r + n - 1)
  BY <1>1, <1>2
<1>4. \A i, j \in far : beyond[i] = beyond[j] => i = j
  BY RankFacts
<1>5. beyond \in Injection(far, r..(r + n - 1))
  BY <1>3, <1>4 DEF Injection, IsInjective
<1>6. IsFiniteSet(r..(r + n - 1)) /\ Cardinality(r..(r + n - 1)) = n
  <2>1. r \in Int /\ r + n - 1 \in Int /\ (IF r > r + n - 1 THEN 0 ELSE (r + n - 1) - r + 1) = n
    OBVIOUS
  <2> QED BY <2>1, FS_Interval
<1>7. Cardinality(far) <= Cardinality(r..(r + n - 1))
  BY <1>5, <1>6, FS_Injection
<1> QED BY <1>6, <1>7

(* What the type invariant gives a walk in hand.                           *)
LEMMA WalkHand ==
  ASSUME WalkTypeOK
  PROVE  /\ walk.page \in Nat /\ walk.read \in BOOLEAN /\ walk.total \in Nat \cup {Null}
         /\ Offset \in Nat /\ Reached \in Nat /\ PageSize \in Nat /\ PageSize > 0
         /\ rows \subseteq ListRow /\ started \subseteq ListRow
         /\ added \in Nat /\ removed \in Nat /\ created \in Nat
         /\ \A i \in ListRow : i \in Int /\ visits[i] \in Nat
         /\ \A i \in rows : Rank(i) \in Nat
<1>1. walk.page \in Nat /\ walk.read \in BOOLEAN /\ walk.total \in Nat \cup {Null}
  BY DEF WalkTypeOK, Walk
<1>2. PageSize \in Nat /\ PageSize > 0 /\ Offset \in Nat
  BY <1>1, PagedWalkAssumption DEF Offset
<1>3. Reached \in Nat
  BY <1>1, <1>2 DEF Reached
<1>4. /\ rows \subseteq ListRow /\ started \subseteq ListRow
      /\ added \in Nat /\ removed \in Nat /\ created \in Nat
  BY PagedWalkAssumption DEF WalkTypeOK
<1>5. \A i \in ListRow : i \in Int /\ visits[i] \in Nat
  BY PagedWalkAssumption DEF WalkTypeOK, ListRow
<1>6. \A i \in rows : Rank(i) \in Nat
  BY <1>4, RowsFinite DEF Rank, Newer
<1> QED BY <1>1, <1>2, <1>3, <1>4, <1>5, <1>6

(* The rows are numbered in the order they are created.                    *)
LEMMA NumberingKept ==
  ASSUME WalkTypeOK, RowsNumbered, [WalkNext]_walkVars PROVE RowsNumbered'
<1>0. created \in Nat /\ \A i \in ListRow : i \in Int /\ visits[i] \in Nat
  BY WalkHand
<1>1. CASE UNCHANGED walkVars
  BY <1>1 DEF walkVars, walkHistory, RowsNumbered
<1>2. ASSUME NEW kind \in {"scan", "list"}, Begin(kind) PROVE RowsNumbered'
  <2>1. walk'.at = "page"
    BY <1>2 DEF Begin, NoWalk
  <2> QED BY <1>2, <2>1 DEF Begin, RowsNumbered
<1>3. CASE ReadRows
  <2>1. walk'.at = "page"
    BY <1>3 DEF ReadRows, WalkTypeOK, Walk
  <2>2. \A i \in ListRow : i > created => i \notin rows
    BY <1>0 DEF RowsNumbered
  <2>3. \A i \in ListRow : i > created => visits'[i] = 0
    BY <1>3, <2>2 DEF ReadRows, RowsNumbered
  <2> QED BY <1>3, <2>1, <2>3 DEF ReadRows, RowsNumbered
<1>4. CASE CountRows
  <2>1. walk'.at = "page"
    BY <1>4 DEF CountRows, WalkTypeOK, Walk
  <2> QED BY <1>4, <2>1 DEF CountRows, walkHistory, RowsNumbered
<1>5. ASSUME NEW more, Turn(more) PROVE RowsNumbered'
  <2>1. walk'.at # "idle"
    BY <1>5 DEF Turn, NoWalk
  <2> QED BY <1>5, <2>1 DEF Turn, walkHistory, RowsNumbered
<1>6. CASE FailWalk
  <2>1. walk'.at # "idle"
    BY <1>6 DEF FailWalk, NoWalk
  <2> QED BY <1>6, <2>1 DEF FailWalk, walkHistory, RowsNumbered
<1>7. CASE CreateRow
  <2>1. rows' \subseteq 1..created' /\ started' \subseteq 1..created'
    BY <1>0, <1>7 DEF CreateRow, RowsNumbered
  <2>2. \A i \in ListRow : i > created' => visits'[i] = 0
    BY <1>0, <1>7 DEF CreateRow, RowsNumbered
  <2>3. walk'.at = "idle" => added' = 0 /\ removed' = 0 /\ \A i \in ListRow : visits'[i] = 0
    BY <1>7 DEF CreateRow, RowsNumbered
  <2> QED BY <2>1, <2>2, <2>3 DEF RowsNumbered
<1>8. ASSUME NEW i \in ListRow, RemoveRow(i) PROVE RowsNumbered'
  BY <1>8 DEF RemoveRow, RowsNumbered
<1> QED BY <1>1, <1>2, <1>3, <1>4, <1>5, <1>6, <1>7, <1>8
        DEF WalkNext, StartScan, StartList, TurnScan, TurnList

(* A walk that begins has met nothing and owes nothing.                    *)
LEMMA BeginSound ==
  ASSUME WalkTypeOK, WalkSound, NEW kind \in {"scan", "list"}, Begin(kind)
  PROVE  walk'.at = "page" /\ ShiftsPaid' /\ EndsKnown'
<1>0. \A i \in ListRow : i \in Int
  BY WalkHand
<1>1. /\ walk'.at = "page" /\ walk'.page = 0 /\ walk'.read = FALSE /\ walk'.total = Null
      /\ rows' = rows /\ visits' = visits /\ added' = 0 /\ removed' = 0
      /\ \A i \in ListRow : visits[i] = 0
  BY DEF Begin, NoWalk, WalkSound, RowsNumbered
<1>2. Reached' = 0
  BY <1>1, PagedWalkAssumption DEF Reached, Offset
<1>3. \A i \in rows : Rank(i)' = Rank(i) /\ Rank(i) \in Nat
  BY <1>1, WalkHand DEF Rank, Newer
<1>4. Slipped' = {}
  BY <1>1, <1>2, <1>3 DEF Slipped
<1>5. Repeats' = {}
  BY <1>1 DEF Repeats
<1>6. Pushed' = {}
  <2>1. rows \subseteq ListRow
    BY WalkHand
  <2> QED BY <1>1, <2>1 DEF Pushed
<1>7. IsFiniteSet({}) /\ Cardinality({}) = 0
  BY FS_EmptySet
<1>8. ShiftsPaid'
  <2>1. (Repeats \cup Pushed)' = {}
    BY <1>5, <1>6
  <2> QED BY <1>1, <1>4, <1>7, <2>1 DEF ShiftsPaid
<1>9. EndsKnown'
  BY <1>1 DEF EndsKnown
<1> QED BY <1>1, <1>8, <1>9

(* Reading a page meets what was pushed back, and what has not slipped     *)
(* past; a page that ends the walk leaves nothing else unmet, but for rows *)
(* beyond a total that was read too early.                                 *)
LEMMA ReadSound ==
  ASSUME WalkTypeOK, WalkSound, ReadRows
  PROVE  ShiftsPaid' /\ EndsKnown'
<1>. DEFINE met == {i \in rows : OnPage(i)}
<1>0. /\ walk.at = "page" /\ walk.read = FALSE
      /\ walk'.page = walk.page /\ walk'.read = TRUE /\ walk'.held = met
      /\ walk'.kind = walk.kind /\ walk'.total = walk.total
      /\ rows' = rows /\ started' = started /\ added' = added /\ removed' = removed
  BY WalkHand DEF ReadRows, WalkTypeOK, Walk
<1>1. \A i \in ListRow : visits'[i] = IF i \in met THEN visits[i] + 1 ELSE visits[i]
  BY DEF ReadRows
<1>2. Reached = Offset /\ Reached' = Offset + PageSize /\ Offset' = Offset
  BY <1>0, WalkHand DEF Reached, Offset
<1>3. \A i \in rows : Rank(i)' = Rank(i)
  BY <1>0 DEF Rank, Newer
<1>4. \A i \in rows : i \in met <=> Rank(i) \in Offset..(Offset + PageSize - 1)
  BY DEF OnPage, Rank
<1>5. Slipped' \subseteq Slipped
  <2> SUFFICES ASSUME NEW i \in Slipped' PROVE i \in Slipped
    OBVIOUS
  <2>1. i \in started \cap rows /\ visits'[i] = 0 /\ Rank(i) < Offset + PageSize
    BY <1>0, <1>2, <1>3 DEF Slipped
  <2>2. visits[i] = 0 /\ i \notin met
    BY <1>1, <2>1, WalkHand
  <2>3. Rank(i) < Offset
    BY <1>4, <2>1, <2>2, WalkHand
  <2> QED BY <1>2, <2>1, <2>2, <2>3 DEF Slipped
<1>6. Repeats' \subseteq Repeats \cup Pushed
  <2> SUFFICES ASSUME NEW i \in ListRow, NEW n \in 2..visits'[i] PROVE <<i, n>> \in Repeats \cup Pushed
    BY DEF Repeats
  <2>1. CASE n \in 2..visits[i]
    BY <2>1 DEF Repeats
  <2>2. CASE n \notin 2..visits[i]
    <3>1. i \in met /\ n = visits[i] + 1 /\ visits[i] > 0
      BY <1>1, <2>2, WalkHand
    <3>2. i \in rows /\ Rank(i) >= Reached
      BY <1>2, <1>4, <3>1, WalkHand
    <3> QED BY <3>1, <3>2 DEF Pushed
  <2> QED BY <2>1, <2>2
<1>7. Pushed' \subseteq Pushed
  <2> SUFFICES ASSUME NEW i \in rows, visits'[i] > 0, Rank(i) >= Offset + PageSize
               PROVE  <<i, visits'[i] + 1>> \in Pushed
    BY <1>0, <1>2, <1>3 DEF Pushed
  <2>1. i \in ListRow /\ i \notin met
    BY <1>4, WalkHand
  <2>2. visits'[i] = visits[i] /\ Rank(i) >= Reached
    BY <1>1, <1>2, <2>1, WalkHand
  <2> QED BY <2>2 DEF Pushed
<1>8. ShiftsPaid'
  <2>1. /\ IsFiniteSet(Slipped) /\ IsFiniteSet(Repeats \cup Pushed)
        /\ Cardinality(Slipped) <= removed /\ Cardinality(Repeats \cup Pushed) <= added
    BY <1>0, RowsFinite, WalkHand DEF WalkSound, ShiftsPaid, Slipped
  <2>2. /\ Cardinality(Slipped') \in Nat /\ Cardinality(Slipped) \in Nat
        /\ Cardinality(Slipped') <= Cardinality(Slipped)
    BY <1>5, <2>1, FewerRows
  <2>3. (Repeats \cup Pushed)' \subseteq Repeats \cup Pushed
    BY <1>6, <1>7
  <2>4. /\ IsFiniteSet((Repeats \cup Pushed)') /\ Cardinality((Repeats \cup Pushed)') \in Nat
        /\ Cardinality(Repeats \cup Pushed) \in Nat
        /\ Cardinality((Repeats \cup Pushed)') <= Cardinality(Repeats \cup Pushed)
    BY <2>1, <2>3, FewerRows
  <2>5. Cardinality(Slipped') <= removed /\ Cardinality((Repeats \cup Pushed)') <= added
    BY <2>1, <2>2, <2>4, WalkHand
  <2> QED BY <1>0, <2>4, <2>5 DEF ShiftsPaid
<1>. DEFINE far == {i \in rows : Rank(i) >= Offset + PageSize}
<1>9. /\ Missed' \subseteq Slipped' \cup far
      /\ IsFiniteSet(Slipped') /\ IsFiniteSet(far)
      /\ Cardinality(Slipped') \in Nat /\ Cardinality(far) \in Nat
      /\ Cardinality(Slipped') <= removed
  <2>1. Slipped' \subseteq ListRow /\ far \subseteq ListRow
    BY <1>0, WalkHand DEF Slipped
  <2>2. Missed' \subseteq Slipped' \cup far
    <3> SUFFICES ASSUME NEW i \in Missed', i \notin far PROVE i \in Slipped'
      OBVIOUS
    <3>1. i \in started \cap rows /\ visits'[i] = 0
      BY <1>0 DEF Missed
    <3>2. Rank(i) < Offset + PageSize
      BY <3>1, WalkHand
    <3> QED BY <1>0, <1>2, <1>3, <3>1, <3>2 DEF Slipped
  <2> QED BY <1>0, <1>8, <2>1, <2>2, RowsFinite DEF ShiftsPaid
<1>10. ASSUME walk'.kind = "scan", Cardinality(walk'.held) # PageSize PROVE Cardinality(Missed') <= removed
  <2>1. \A i \in rows : Rank(i) < Offset + PageSize
    <3>1. met = {i \in rows : Rank(i) \in Offset..(Offset + PageSize - 1)}
      BY <1>4
    <3> QED BY <1>0, <1>10, <3>1, ShortPage, WalkHand
  <2>2. far = {}
    BY <2>1, WalkHand
  <2>3. Missed' \subseteq Slipped'
    BY <1>9, <2>2
  <2>4. Cardinality(Missed') \in Nat /\ Cardinality(Missed') <= Cardinality(Slipped')
    BY <1>9, <2>3, FewerRows
  <2> QED BY <1>9, <2>4, WalkHand
<1>11. walk'.total # Null => walk'.kind = "list" /\ Cardinality(rows') <= walk'.total + added'
  BY <1>0 DEF WalkSound, EndsKnown
<1>12. ASSUME walk'.total # Null, ~HasNextPage(walk'.total, Offset')
       PROVE  Cardinality(Missed') <= removed' + added'
  <2>1. walk.total \in Nat /\ ~ (walk.total > Offset + PageSize) /\ Cardinality(rows) <= walk.total + added
    BY <1>0, <1>2, <1>11, <1>12, WalkHand DEF HasNextPage
  <2>2. Cardinality(rows) \in Nat
    BY RowsFinite, WalkHand
  <2>3. Cardinality(rows) <= (Offset + PageSize) + added /\ Offset + PageSize \in Nat
    BY <2>1, <2>2, WalkHand
  <2>4. Cardinality(far) <= added
    BY <2>3, FarRows, WalkHand
  <2>5. /\ IsFiniteSet(Slipped' \cup far)
        /\ Cardinality(Slipped' \cup far) = Cardinality(Slipped') + Cardinality(far) - Cardinality(Slipped' \cap far)
        /\ Cardinality(Slipped' \cap far) \in Nat
    BY <1>9, FS_Union, FewerRows
  <2>6. Cardinality(Missed') \in Nat /\ Cardinality(Missed') <= Cardinality(Slipped' \cup far)
        /\ Cardinality(Slipped' \cup far) \in Nat
    BY <1>9, <2>5, FewerRows
  <2> QED BY <1>0, <1>9, <2>4, <2>5, <2>6, WalkHand
<1>13. EndsKnown'
  BY <1>0, <1>10, <1>11, <1>12 DEF EndsKnown
<1> QED BY <1>8, <1>13

(* A total is right when it is read.                                       *)
LEMMA TotalSound ==
  ASSUME WalkTypeOK, WalkSound, CountRows
  PROVE  ShiftsPaid' /\ EndsKnown'
<1>0. /\ walk.at = "page" /\ walk'.page = walk.page /\ walk'.read = walk.read /\ walk'.held = walk.held
      /\ walk.kind = "list" /\ walk'.kind = "list" /\ walk'.total = Cardinality(rows)
      /\ rows' = rows /\ started' = started /\ added' = added /\ removed' = removed /\ visits' = visits
  BY DEF CountRows, walkHistory, WalkTypeOK, Walk
<1>1. Reached' = Reached /\ Offset' = Offset
  BY <1>0 DEF Reached, Offset
<1>2. \A i \in rows : Rank(i)' = Rank(i)
  BY <1>0 DEF Rank, Newer
<1>3. Slipped' = Slipped /\ Repeats' = Repeats /\ Pushed' = Pushed /\ Missed' = Missed
  BY <1>0, <1>1, <1>2 DEF Slipped, Repeats, Pushed, Missed
<1>4. ShiftsPaid'
  BY <1>0, <1>3 DEF WalkSound, ShiftsPaid
<1>5. Cardinality(rows) \in Nat /\ IsFiniteSet(Slipped) /\ Cardinality(Slipped) \in Nat
  BY RowsFinite, WalkHand DEF Slipped
<1>6. ASSUME walk.read, ~HasNextPage(Cardinality(rows), Offset)
      PROVE  Cardinality(Missed) <= removed + added
  <2>1. \A i \in rows : Rank(i) < Reached
    <3>1. Cardinality(rows) <= Reached
      BY <1>5, <1>6, WalkHand DEF HasNextPage, Reached
    <3> QED BY <1>5, <3>1, RankFacts, WalkHand
  <2>2. Missed \subseteq Slipped
    BY <2>1 DEF Missed, Slipped
  <2>3. Cardinality(Missed) \in Nat /\ Cardinality(Missed) <= Cardinality(Slipped)
    BY <1>5, <2>2, FewerRows
  <2> QED BY <1>0, <1>5, <2>3, WalkHand DEF WalkSound, ShiftsPaid
<1>7. EndsKnown'
  BY <1>0, <1>1, <1>3, <1>5, <1>6, WalkHand DEF EndsKnown
<1> QED BY <1>4, <1>7

(* Turning the page gains no ground; the last page closes the account.     *)
LEMMA TurnSound ==
  ASSUME WalkTypeOK, WalkSound, TurnScan \/ TurnList
  PROVE  (walk'.at = "page" => ShiftsPaid' /\ EndsKnown') /\ WalkNearlyExact'
<1>. DEFINE next == IF walk.kind = "scan" THEN Full(Cardinality(walk.held)) ELSE HasNextPage(walk.total, Offset)
<1>0. /\ walk.at = "page" /\ walk.read = TRUE
      /\ walk.kind = "scan" \/ (walk.kind = "list" /\ walk.total # Null)
      /\ Turn(next)
  BY WalkHand DEF TurnScan, TurnList
<1>1. /\ walk'.page = (IF next THEN walk.page + 1 ELSE walk.page) /\ walk'.read = FALSE
      /\ walk'.total = Null /\ walk'.kind = walk.kind /\ walk'.at = (IF next THEN "page" ELSE "over")
      /\ rows' = rows /\ started' = started /\ added' = added /\ removed' = removed /\ visits' = visits
  BY <1>0 DEF Turn, NoWalk, walkHistory
<1>2. Repeats' = Repeats /\ Missed' = Missed
  BY <1>1 DEF Repeats, Missed
<1>3. ASSUME next PROVE ShiftsPaid' /\ EndsKnown'
  <2>1. Reached' = Reached
    <3>1. Reached = Offset + PageSize
      BY <1>0 DEF Reached
    <3>2. walk.page \in Int /\ PageSize \in Int
      BY WalkHand
    <3>3. (walk.page + 1) * PageSize = walk.page * PageSize + PageSize
      BY <3>2
    <3>4. Reached' = (walk.page + 1) * PageSize + 0
      BY <1>1, <1>3 DEF Reached, Offset
    <3> QED BY <3>1, <3>2, <3>3, <3>4 DEF Offset
  <2>2. \A i \in rows : Rank(i)' = Rank(i)
    BY <1>1 DEF Rank, Newer
  <2>3. Slipped' = Slipped /\ Pushed' = Pushed
    BY <1>1, <2>1, <2>2 DEF Slipped, Pushed
  <2> QED BY <1>0, <1>1, <1>2, <2>3 DEF WalkSound, ShiftsPaid, EndsKnown
<1>4. ASSUME ~next PROVE WalkNearlyExact'
  <2>1. Cardinality(Missed) <= removed + (IF walk.kind = "list" THEN added ELSE 0)
    <3>1. CASE walk.kind = "scan"
      <4>1. Cardinality(walk.held) # PageSize
        BY <1>4, <3>1 DEF Full
      <4>2. Cardinality(Missed) <= removed
        BY <1>0, <3>1, <4>1 DEF WalkSound, EndsKnown
      <4> QED BY <3>1, <4>2, WalkHand
    <3>2. CASE walk.kind = "list" /\ walk.total # Null
      <4>1. ~HasNextPage(walk.total, Offset)
        BY <1>4, <3>2
      <4> QED BY <1>0, <3>2, <4>1 DEF WalkSound, EndsKnown
    <3> QED BY <1>0, <3>1, <3>2
  <2>2. Cardinality(Repeats) <= added
    <3>1. IsFiniteSet(Repeats \cup Pushed) /\ Cardinality(Repeats \cup Pushed) <= added
      BY <1>0 DEF WalkSound, ShiftsPaid
    <3>2. /\ Cardinality(Repeats) \in Nat /\ Cardinality(Repeats \cup Pushed) \in Nat
          /\ Cardinality(Repeats) <= Cardinality(Repeats \cup Pushed)
      BY <3>1, FewerRows
    <3> QED BY <3>1, <3>2, WalkHand
  <2> QED BY <1>1, <1>2, <2>1, <2>2 DEF WalkNearlyExact
<1>5. next => WalkNearlyExact'
  BY <1>1 DEF WalkNearlyExact
<1>6. ~next => walk'.at # "page"
  BY <1>1
<1> QED BY <1>3, <1>4, <1>5, <1>6

(* A row created pushes every other one back by one place, so that at most *)
(* one crosses the end of the pages read.                                  *)
LEMMA CreateSound ==
  ASSUME WalkTypeOK, WalkSound, CreateRow
  PROVE  (walk'.at = "page" => ShiftsPaid' /\ EndsKnown') /\ WalkNearlyExact'
<1>. DEFINE new == created + 1
<1>0. /\ walk' = walk /\ visits' = visits /\ started' = started /\ removed' = removed
      /\ rows' = rows \cup {new} /\ new \in ListRow /\ new \notin rows /\ new \notin started
      /\ visits[new] = 0 /\ \A i \in rows : i < new
  <2>1. new \in ListRow /\ new > created
    BY PagedWalkAssumption, WalkHand DEF CreateRow, ListRow
  <2>2. new \notin rows /\ new \notin started /\ \A i \in rows : i < new
    BY WalkHand DEF WalkSound, RowsNumbered
  <2> QED BY <2>1, <2>2 DEF CreateRow, WalkSound, RowsNumbered
<1>1. Reached' = Reached /\ Offset' = Offset
  BY <1>0 DEF Reached, Offset
<1>2. \A i \in rows : Rank(i)' = Rank(i) + 1
  <2> TAKE i \in rows
  <2>1. Newer(i)' = Newer(i) \cup {new} /\ new \notin Newer(i)
    BY <1>0, WalkHand DEF Newer
  <2>2. IsFiniteSet(Newer(i))
    BY RowsFinite, WalkHand DEF Newer
  <2>3. Cardinality(Newer(i) \cup {new}) = Cardinality(Newer(i)) + 1
    BY <2>1, <2>2, FS_AddElement
  <2> QED BY <2>1, <2>3 DEF Rank
<1>3. Missed' = Missed /\ Repeats' = Repeats
  BY <1>0 DEF Missed, Repeats
<1>4. Slipped' \subseteq Slipped
  <2> SUFFICES ASSUME NEW i \in Slipped' PROVE i \in Slipped
    OBVIOUS
  <2>1. i \in started \cap rows /\ visits[i] = 0 /\ Rank(i) + 1 < Reached
    BY <1>0, <1>1, <1>2 DEF Slipped
  <2>2. Rank(i) < Reached
    BY <2>1, WalkHand
  <2> QED BY <2>1, <2>2 DEF Slipped
<1>. DEFINE pushed == {<<i, visits[i] + 1>> : i \in {j \in rows : visits[j] > 0 /\ Rank(j) + 1 = Reached}}
<1>5. Pushed' \subseteq Pushed \cup pushed
  <2> SUFFICES ASSUME NEW i \in rows', visits[i] > 0, Rank(i)' >= Reached
               PROVE  <<i, visits[i] + 1>> \in Pushed \cup pushed
    BY <1>0, <1>1 DEF Pushed
  <2>1. i \in rows /\ Rank(i) + 1 >= Reached
    BY <1>0, <1>2
  <2>2. Rank(i) >= Reached \/ Rank(i) + 1 = Reached
    BY <2>1, WalkHand
  <2> QED BY <2>1, <2>2 DEF Pushed
<1>6. \A x, y \in pushed : x = y
  <2> SUFFICES ASSUME NEW i \in rows, NEW j \in rows, Rank(i) + 1 = Reached, Rank(j) + 1 = Reached
               PROVE  <<i, visits[i] + 1>> = <<j, visits[j] + 1>>
    OBVIOUS
  <2>1. Rank(i) = Rank(j)
    BY WalkHand
  <2>2. i = j
    BY <2>1, RankFacts, WalkHand
  <2> QED BY <2>2
<1>7. /\ IsFiniteSet(rows') /\ Cardinality(rows) \in Nat /\ Cardinality(rows') = Cardinality(rows) + 1
  BY <1>0, RowsFinite, WalkHand, FS_AddElement
<1>8. ASSUME walk.at = "page" PROVE ShiftsPaid' /\ EndsKnown'
  <2>0. added' = added + 1
    BY <1>8 DEF CreateRow
  <2>1. /\ IsFiniteSet(Slipped) /\ IsFiniteSet(Repeats \cup Pushed)
        /\ Cardinality(Slipped) <= removed /\ Cardinality(Repeats \cup Pushed) <= added
    BY <1>8, RowsFinite, WalkHand DEF WalkSound, ShiftsPaid, Slipped
  <2>2. Cardinality(Slipped') <= removed
    BY <1>4, <2>1, FewerRows, WalkHand
  <2>3. (Repeats \cup Pushed)' \subseteq (Repeats \cup Pushed) \cup pushed
    BY <1>3, <1>5
  <2>4. /\ IsFiniteSet((Repeats \cup Pushed)') /\ Cardinality((Repeats \cup Pushed)') \in Nat
        /\ Cardinality((Repeats \cup Pushed)') <= Cardinality(Repeats \cup Pushed) + 1
    BY <1>6, <2>1, <2>3, OneMoreAtMost
  <2>5. Cardinality(Repeats \cup Pushed) \in Nat
    BY <2>1, FS_CardinalityType
  <2>6. ShiftsPaid'
    BY <1>0, <2>0, <2>1, <2>2, <2>4, <2>5, WalkHand DEF ShiftsPaid
  <2>7. IsFiniteSet(Missed) /\ Cardinality(Missed) \in Nat
    BY RowsFinite, WalkHand DEF Missed
  <2>8. EndsKnown'
    <3>1. walk.kind = "scan" /\ walk.read /\ Cardinality(walk.held) # PageSize => Cardinality(Missed) <= removed
      BY <1>8 DEF WalkSound, EndsKnown
    <3>2. walk.total # Null => walk.kind = "list" /\ Cardinality(rows') <= walk.total + (added + 1)
      BY <1>7, <1>8, WalkHand DEF WalkSound, EndsKnown
    <3>3. walk.total # Null /\ walk.read /\ ~HasNextPage(walk.total, Offset) =>
            Cardinality(Missed) <= removed + (added + 1)
      BY <1>8, <2>7, WalkHand DEF WalkSound, EndsKnown
    <3> QED BY <1>0, <1>1, <1>3, <2>0, <3>1, <3>2, <3>3 DEF EndsKnown
  <2> QED BY <2>6, <2>8
<1>9. WalkNearlyExact'
  <2>1. walk.at = "over" => added' = added
    BY DEF CreateRow
  <2> QED BY <1>0, <1>3, <2>1 DEF WalkSound, WalkNearlyExact
<1> QED BY <1>0, <1>8, <1>9

(* A row deleted draws the older ones forward by one place, so that at     *)
(* most one slips past the end of the pages read.                          *)
LEMMA RemoveSound ==
  ASSUME WalkTypeOK, WalkSound, NEW k \in ListRow, RemoveRow(k)
  PROVE  (walk'.at = "page" => ShiftsPaid' /\ EndsKnown') /\ WalkNearlyExact'
<1>0. /\ walk' = walk /\ visits' = visits /\ started' = started /\ added' = added
      /\ k \in rows /\ rows' = rows \ {k}
  BY DEF RemoveRow
<1>1. Reached' = Reached /\ Offset' = Offset
  BY <1>0 DEF Reached, Offset
<1>2. \A i \in rows : Rank(i)' \in {Rank(i), Rank(i) - 1}
  <2> TAKE i \in rows
  <2>1. Newer(i)' = Newer(i) \ {k} /\ IsFiniteSet(Newer(i))
    BY <1>0, RowsFinite, WalkHand DEF Newer
  <2> QED BY <2>1, FS_RemoveElement DEF Rank
<1>3. Missed' \subseteq Missed /\ Repeats' = Repeats
  BY <1>0 DEF Missed, Repeats
<1>. DEFINE slipped == {i \in started \cap rows : visits[i] = 0 /\ Rank(i) = Reached}
<1>4. Slipped' \subseteq Slipped \cup slipped
  <2> SUFFICES ASSUME NEW i \in Slipped' PROVE i \in Slipped \cup slipped
    OBVIOUS
  <2>1. i \in started \cap rows /\ visits[i] = 0 /\ Rank(i)' < Reached
    BY <1>0, <1>1 DEF Slipped
  <2>2. Rank(i) < Reached \/ Rank(i) = Reached
    BY <1>2, <2>1, WalkHand
  <2> QED BY <2>1, <2>2 DEF Slipped
<1>5. Pushed' \subseteq Pushed
  <2> SUFFICES ASSUME NEW i \in rows', visits[i] > 0, Rank(i)' >= Reached
               PROVE  <<i, visits[i] + 1>> \in Pushed
    BY <1>0, <1>1 DEF Pushed
  <2>1. i \in rows /\ Rank(i) >= Reached
    BY <1>0, <1>2, WalkHand
  <2> QED BY <2>1 DEF Pushed
<1>6. \A x, y \in slipped : x = y
  BY RankFacts, WalkHand
<1>7. IsFiniteSet(Missed) /\ Cardinality(Missed) \in Nat /\ Cardinality(Missed') \in Nat
      /\ Cardinality(Missed') <= Cardinality(Missed)
  <2>1. IsFiniteSet(Missed)
    BY RowsFinite, WalkHand DEF Missed
  <2> QED BY <1>3, <2>1, FewerRows
<1>8. Cardinality(rows) \in Nat /\ Cardinality(rows') \in Nat /\ Cardinality(rows') <= Cardinality(rows)
  <2>1. IsFiniteSet(rows) /\ rows' \subseteq rows
    BY <1>0, RowsFinite, WalkHand
  <2> QED BY <2>1, FewerRows
<1>9. ASSUME walk.at = "page" PROVE ShiftsPaid' /\ EndsKnown'
  <2>0. removed' = removed + 1
    BY <1>9 DEF RemoveRow
  <2>1. /\ IsFiniteSet(Slipped) /\ IsFiniteSet(Repeats \cup Pushed)
        /\ Cardinality(Slipped) <= removed /\ Cardinality(Repeats \cup Pushed) <= added
        /\ Cardinality(Slipped) \in Nat
    BY <1>9, RowsFinite, WalkHand DEF WalkSound, ShiftsPaid, Slipped
  <2>2. Cardinality(Slipped') \in Nat /\ Cardinality(Slipped') <= Cardinality(Slipped) + 1
    <3>1. Slipped' \subseteq Slipped \cup slipped /\ IsFiniteSet(Slipped) /\ \A x, y \in slipped : x = y
      BY <1>4, <1>6, <2>1
    <3>. HIDE DEF slipped
    <3> QED BY <3>1, OneMoreAtMost
  <2>3. (Repeats \cup Pushed)' \subseteq Repeats \cup Pushed
    BY <1>3, <1>5
  <2>4. /\ IsFiniteSet((Repeats \cup Pushed)') /\ Cardinality((Repeats \cup Pushed)') \in Nat
        /\ Cardinality(Repeats \cup Pushed) \in Nat
        /\ Cardinality((Repeats \cup Pushed)') <= Cardinality(Repeats \cup Pushed)
    BY <2>1, <2>3, FewerRows
  <2>5. ShiftsPaid'
    BY <1>0, <2>0, <2>1, <2>2, <2>4, WalkHand DEF ShiftsPaid
  <2>6. EndsKnown'
    <3>1. walk.kind = "scan" /\ walk.read /\ Cardinality(walk.held) # PageSize =>
            Cardinality(Missed') <= removed + 1
      BY <1>7, <1>9, WalkHand DEF WalkSound, EndsKnown
    <3>2. walk.total # Null => walk.kind = "list" /\ Cardinality(rows') <= walk.total + added
      BY <1>8, <1>9, WalkHand DEF WalkSound, EndsKnown
    <3>3. walk.total # Null /\ walk.read /\ ~HasNextPage(walk.total, Offset) =>
            Cardinality(Missed') <= (removed + 1) + added
      BY <1>7, <1>9, WalkHand DEF WalkSound, EndsKnown
    <3> QED BY <1>0, <1>1, <2>0, <3>1, <3>2, <3>3 DEF EndsKnown
  <2> QED BY <2>5, <2>6
<1>10. WalkNearlyExact'
  <2>1. walk.at = "over" => removed' = removed
    BY DEF RemoveRow
  <2> QED BY <1>0, <1>3, <1>7, <2>1, WalkHand DEF WalkSound, WalkNearlyExact
<1> QED BY <1>0, <1>9, <1>10

(* What the rows do between two pages costs a walk no more than one row    *)
(* missed for each one deleted and one met again for each one created: a   *)
(* cron job's scan of the endpoints and a client's walk of a GET list.     *)
THEOREM WalksNearlyExact == WalkSpec => []WalkNearlyExact
<1>1. WalkInit => WalkSound
  BY PagedWalkAssumption DEF WalkInit, NoWalk, WalkSound, RowsNumbered, WalkNearlyExact, ListRow
<1>2. WalkTypeOK /\ WalkSound /\ [WalkNext]_walkVars => WalkSound'
  <2> SUFFICES ASSUME WalkTypeOK, WalkSound, [WalkNext]_walkVars PROVE WalkSound'
    OBVIOUS
  <2>0. RowsNumbered'
    BY NumberingKept DEF WalkSound
  <2> SUFFICES (walk'.at = "page" => ShiftsPaid' /\ EndsKnown') /\ WalkNearlyExact'
    BY <2>0 DEF WalkSound
  <2>1. CASE UNCHANGED walkVars
    BY <2>1 DEF walkVars, walkHistory, WalkSound, ShiftsPaid, EndsKnown, WalkNearlyExact,
                Slipped, Pushed, Repeats, Missed, Rank, Newer, Reached, Offset, HasNextPage
  <2>2. ASSUME NEW kind \in {"scan", "list"}, Begin(kind) PROVE ShiftsPaid' /\ EndsKnown' /\ WalkNearlyExact'
    <3>1. walk'.at = "page" /\ ShiftsPaid' /\ EndsKnown'
      BY <2>2, BeginSound
    <3> QED BY <3>1 DEF WalkNearlyExact
  <2>3. CASE ReadRows
    <3>1. walk'.at = "page"
      BY <2>3 DEF ReadRows, WalkTypeOK, Walk
    <3> QED BY <2>3, <3>1, ReadSound DEF WalkNearlyExact
  <2>4. CASE CountRows
    <3>1. walk'.at = "page"
      BY <2>4 DEF CountRows, WalkTypeOK, Walk
    <3> QED BY <2>4, <3>1, TotalSound DEF WalkNearlyExact
  <2>5. CASE TurnScan \/ TurnList
    BY <2>5, TurnSound
  <2>6. CASE FailWalk
    <3>1. walk'.at = "failed"
      BY <2>6 DEF FailWalk, NoWalk
    <3> QED BY <3>1 DEF WalkNearlyExact
  <2>7. CASE CreateRow
    BY <2>7, CreateSound
  <2>8. ASSUME NEW k \in ListRow, RemoveRow(k)
        PROVE  (walk'.at = "page" => ShiftsPaid' /\ EndsKnown') /\ WalkNearlyExact'
    BY <2>8, RemoveSound
  <2> QED BY <2>1, <2>2, <2>3, <2>4, <2>5, <2>6, <2>7, <2>8 DEF WalkNext, StartScan, StartList
<1>3. WalkSound => WalkNearlyExact
  BY DEF WalkSound
<1> QED BY <1>1, <1>2, <1>3, WalkTypes, PTL DEF WalkSpec

-----------------------------------------------------------------------------
(* WebhookScan. A row is what came with its request, and what was told or  *)
(* compared holds of what came.                                            *)

ScanSound ==
    /\ \A c \in Arrival : stored[c] = Null \/ stored[c] = arrived[c]
    /\ \A c \in Arrival : ~Came(c) => scan[c] = NoScan /\ c \notin recent
    /\ \A c \in twinned \cup drifted : Came(c)
    /\ ScansTell

ScanRecord == [job : {"none", "announced", "waiting", "active", "over"},
               drift : {"todo", "append", "flush", "done", "failed"},
               twin : {"todo", "done", "failed"}, base : Nat]

(* A step of one scan leaves the others alone.                             *)
OnlyScan(c) ==
    /\ scan' \in [Arrival -> ScanRecord]
    /\ \A d \in Arrival : d # c => scan'[d] = scan[d]

(* Schemas between which no change is found differ at most in fields with  *)
(* inherited names that are gone.                                          *)
LEMMA AlikeSpelled == ASSUME NEW p, NEW q, ~Differs(p, q) PROVE SpelledBy(p, q)
<1>1. DOMAIN q \subseteq DOMAIN p \cup Inherited /\ DOMAIN p \subseteq DOMAIN q \cup Inherited
  BY DEF Differs, DiffersInFields, Added, Removed
<1>2. \A k \in DOMAIN q : k \in DOMAIN p \cup Inherited => k \in DOMAIN p /\ p[k] = q[k]
  BY DEF Differs, TypeChanged
<1> QED BY <1>1, <1>2 DEF SpelledBy

LEMMA NoFieldsShape == NoFields \in Shape
<1>1. NoFields \in [{} -> Kind]
  BY DEF NoFields
<1> QED BY <1>1, WebhookScanAssumption DEF Shape

LEMMA SpelledByItself == ASSUME NEW p PROVE SpelledBy(p, p)
  BY DEF SpelledBy

(* As long as no half of a scan ends, nothing is promised.                 *)
LEMMA QuietStep ==
  ASSUME ScanTypeOK, ScanSound, NEW c \in Arrival, Came(c), OnlyScan(c),
         UNCHANGED <<arrivalVars, chain, told>>, scanFaults' \in 0..MaxFaults,
         scan'[c].twin = scan[c].twin \/ scan'[c].twin # "done",
         scan'[c].drift = scan[c].drift \/ scan'[c].drift # "done"
  PROVE  ScanTypeOK' /\ ScanSound'
<1>1. ScanTypeOK'
  BY DEF ScanTypeOK, OnlyScan, ScanRecord, arrivalVars, told
<1>2. \A d \in Arrival : /\ scan'[d].twin = "done" => scan[d].twin = "done"
                         /\ scan'[d].drift = "done" => scan[d].drift = "done"
                         /\ ~Came(d) => scan'[d] = scan[d]
  BY DEF OnlyScan
<1>3. recent \subseteq Arrival
  BY DEF ScanTypeOK
<1>4. ScansTell'
  BY <1>2, <1>3 DEF ScanSound, ScansTell, TwinsTold, DriftsTold, Came, arrivalVars, told
<1>5. ScanSound'
  BY <1>2, <1>4 DEF ScanSound, Came, arrivalVars, told
<1> QED BY <1>1, <1>5

LEMMA ScanStep == ScanTypeOK /\ ScanSound /\ [ScanNext]_scanVars => ScanTypeOK' /\ ScanSound'
<1> SUFFICES ASSUME ScanTypeOK, ScanSound, [ScanNext]_scanVars PROVE ScanTypeOK' /\ ScanSound'
  OBVIOUS
<1>0. /\ stored \in [Arrival -> Body \cup {Blank, Null}] /\ arrived \in [Arrival -> Body \cup {Blank, Null}]
      /\ recent \subseteq Arrival /\ scan \in [Arrival -> ScanRecord] /\ chain \in Seq(Shape)
      /\ twinned \subseteq Arrival /\ drifted \subseteq Arrival /\ scanFaults \in 0..MaxFaults
  BY DEF ScanTypeOK, ScanRecord
<1>1. CASE UNCHANGED scanVars
  BY <1>1 DEF scanVars, ScanTypeOK, ScanSound, ScansTell, TwinsTold, DriftsTold, Came
<1>2. ASSUME NEW c \in Arrival, NEW body \in Body \cup {Blank}, ArriveToScan(c, body)
      PROVE  ScanTypeOK' /\ ScanSound'
  <2>1. /\ ~Came(c) /\ scan[c] = NoScan /\ c \notin recent /\ body # Null
        /\ stored' = [stored EXCEPT ![c] = body] /\ arrived' = [arrived EXCEPT ![c] = body]
        /\ recent' = recent \cup {c} /\ UNCHANGED <<chain, twinned, drifted, scanFaults>>
    BY <1>2, WebhookScanAssumption DEF ArriveToScan, Came, ScanSound, told
  <2>2. OnlyScan(c) /\ scan'[c].twin = "todo" /\ scan'[c].drift = "todo"
    BY <1>0, <1>2, <2>1 DEF ArriveToScan, CarryJob, NoScan, OnlyScan, ScanRecord
  <2>3. ScanTypeOK'
    BY <1>0, <2>1, <2>2 DEF ScanTypeOK, OnlyScan, ScanRecord
  <2>4. /\ stored'[c] = body /\ arrived'[c] = body
        /\ \A d \in Arrival : d # c => stored'[d] = stored[d] /\ arrived'[d] = arrived[d]
    BY <1>0, <2>1
  <2>5. TwinsTold'
    <3>1. \A d \in twinned : d # c
      BY <2>1 DEF ScanSound
    <3> QED BY <1>0, <2>1, <2>2, <2>4, <3>1 DEF ScanSound, ScansTell, TwinsTold, Came, OnlyScan
  <2>6. DriftsTold'
    BY <2>1, <2>2, <2>4 DEF ScanSound, ScansTell, DriftsTold, OnlyScan
  <2>7. ScanSound'
    BY <1>0, <2>1, <2>2, <2>4, <2>5, <2>6 DEF ScanSound, ScansTell, Came, OnlyScan
  <2> QED BY <2>3, <2>7
<1>3. ASSUME NEW c \in Arrival, EnqueueScan(c) \/ TakeScan(c) \/ CloseScan(c)
      PROVE  ScanTypeOK' /\ ScanSound'
  <2>1. PICK where \in {"waiting", "active", "over"} : CarryJob(c, where)
    BY <1>3 DEF EnqueueScan, TakeScan, CloseScan
  <2>2. OnlyScan(c) /\ scan'[c].twin = scan[c].twin /\ scan'[c].drift = scan[c].drift
    BY <1>0, <2>1 DEF CarryJob, OnlyScan, ScanRecord
  <2>3. Came(c) /\ UNCHANGED <<arrivalVars, chain, told, scanFaults>>
    BY <1>3 DEF EnqueueScan, TakeScan, CloseScan, JobAt, ScanSound, NoScan
  <2> QED BY <1>0, <2>2, <2>3, QuietStep
<1>4. ASSUME NEW c \in Arrival, CompareSchema(c) PROVE ScanTypeOK' /\ ScanSound'
  <2> DEFINE differs == chain # <<>> /\ Differs(chain[Len(chain)], arrived[c].shape)
  <2>1. /\ Came(c) /\ UNCHANGED <<stored, arrived, recent, chain, twinned, scanFaults>>
        /\ drifted' = IF differs THEN drifted \cup {c} ELSE drifted
    BY <1>4 DEF CompareSchema, DriftAt, JobAt, ScanSound, NoScan, arrivalVars
  <2>2. PICK where \in {"append", "done"} : DriftTo(c, where) /\ (where = "done" => chain # <<>>)
    BY <1>4 DEF CompareSchema
  <2>3. /\ OnlyScan(c) /\ scan'[c].twin = scan[c].twin /\ scan'[c].drift = where
    BY <1>0, <2>2 DEF DriftTo, OnlyScan, ScanRecord
  <2>4. where = "done" /\ c \notin drifted' => \E n \in DOMAIN chain : SpelledBy(chain[n], arrived[c].shape)
    <3>1. SUFFICES ASSUME chain # <<>>, ~Differs(chain[Len(chain)], arrived[c].shape)
                   PROVE  \E n \in DOMAIN chain : SpelledBy(chain[n], arrived[c].shape)
      BY <2>1, <2>2
    <3>2. Len(chain) \in DOMAIN chain
      BY <1>0, <3>1
    <3> QED BY <3>1, <3>2, AlikeSpelled
  <2>5. drifted \subseteq drifted' /\ drifted' \subseteq drifted \cup {c}
    BY <2>1
  <2> HIDE DEF differs
  <2>6. ScanTypeOK'
    BY <1>0, <2>1, <2>3, <2>5 DEF ScanTypeOK, OnlyScan, ScanRecord
  <2>7. TwinsTold'
    BY <1>0, <2>1, <2>3 DEF ScanSound, ScansTell, TwinsTold, Came, OnlyScan
  <2>8. DriftsTold'
    BY <2>1, <2>3, <2>4, <2>5 DEF ScanSound, ScansTell, DriftsTold, OnlyScan
  <2>9. ScanSound'
    BY <1>0, <2>1, <2>3, <2>5, <2>7, <2>8 DEF ScanSound, ScansTell, Came, OnlyScan
  <2> QED BY <2>6, <2>9
<1>5. ASSUME NEW c \in Arrival, ReadChain(c) PROVE ScanTypeOK' /\ ScanSound'
  <2>0. PICK n \in Nat : n = Len(chain)
    BY <1>0
  <2>1. OnlyScan(c) /\ scan'[c].twin = scan[c].twin /\ scan'[c].drift = "flush"
    BY <1>0, <1>5, <2>0 DEF ReadChain, OnlyScan, ScanRecord
  <2>2. Came(c) /\ UNCHANGED <<arrivalVars, chain, told, scanFaults>>
    BY <1>5 DEF ReadChain, DriftAt, JobAt, ScanSound, NoScan
  <2> QED BY <1>0, <2>1, <2>2, QuietStep
<1>6. ASSUME NEW c \in Arrival, AppendVersion(c) PROVE ScanTypeOK' /\ ScanSound'
  <2>1. Came(c) /\ UNCHANGED <<stored, arrived, recent, twinned, drifted, scanFaults>>
    BY <1>6 DEF AppendVersion, DriftAt, JobAt, ScanSound, NoScan, arrivalVars, told
  <2>2. /\ OnlyScan(c) /\ scan'[c].twin = scan[c].twin /\ scan'[c].drift \in {"done", "failed"}
        /\ scan'[c].drift = "done" <=> Len(chain) = scan[c].base
    BY <1>0, <1>6 DEF AppendVersion, OnlyScan, ScanRecord
  <2>3. CASE Len(chain) # scan[c].base
    <3>1. chain' = chain
      BY <1>6, <2>3 DEF AppendVersion
    <3> QED BY <1>0, <2>1, <2>2, <2>3, <3>1, QuietStep DEF arrivalVars, told
  <2>4. CASE Len(chain) = scan[c].base
    <3>1. arrived[c].shape \in Shape
      BY <1>0, <2>1, NoFieldsShape DEF Came, Body, Blank
    <3>2. /\ chain' \in Seq(Shape) /\ Len(chain') = Len(chain) + 1
          /\ chain'[Len(chain) + 1] = arrived[c].shape
          /\ \A n \in 1..Len(chain) : chain'[n] = chain[n]
      BY <1>0, <1>6, <2>4, <3>1 DEF AppendVersion
    <3>3. /\ DOMAIN chain = 1..Len(chain) /\ DOMAIN chain' = 1..(Len(chain) + 1) /\ Len(chain) \in Nat
      BY <1>0, <3>2
    <3>4. /\ \A n \in DOMAIN chain : n \in DOMAIN chain' /\ chain'[n] = chain[n]
          /\ \E n \in DOMAIN chain' : SpelledBy(chain'[n], arrived[c].shape)
      BY <3>2, <3>3, SpelledByItself
    <3>5. ScanTypeOK'
      BY <1>0, <2>1, <2>2, <3>2 DEF ScanTypeOK, OnlyScan, ScanRecord
    <3>6. TwinsTold'
      BY <1>0, <2>1, <2>2 DEF ScanSound, ScansTell, TwinsTold, Came, OnlyScan
    <3>7. DriftsTold'
      BY <2>1, <2>2, <3>4 DEF ScanSound, ScansTell, DriftsTold, OnlyScan
    <3>8. ScanSound'
      BY <1>0, <2>1, <2>2, <3>6, <3>7 DEF ScanSound, ScansTell, Came, OnlyScan
    <3> QED BY <3>5, <3>8
  <2> QED BY <2>3, <2>4
<1>7. ASSUME NEW c \in Arrival, LookForTwin(c) PROVE ScanTypeOK' /\ ScanSound'
  <2>1. Came(c) /\ UNCHANGED <<stored, arrived, recent, chain, drifted, scanFaults>>
    BY <1>7 DEF LookForTwin, JobAt, ScanSound, NoScan, arrivalVars
  <2>2. OnlyScan(c) /\ scan'[c].drift = scan[c].drift /\ scan'[c].twin = "done"
    BY <1>0, <1>7 DEF LookForTwin, OnlyScan, ScanRecord
  <2>3. /\ twinned \subseteq twinned' /\ twinned' \subseteq twinned \cup {c}
        /\ stored[c] # Null /\ Twins(c) # {} => c \in twinned'
        /\ c \in twinned' => c \in twinned \/ (stored[c] # Null /\ Twins(c) # {})
    BY <1>7 DEF LookForTwin
  <2>4. ScanTypeOK'
    BY <1>0, <2>1, <2>2, <2>3 DEF ScanTypeOK, OnlyScan, ScanRecord
  <2>5. TwinsTold'
    <3>1. ASSUME NEW d \in recent, d # c, stored[c] # Null, stored[c] = stored[d] PROVE c \in twinned'
      BY <2>3, <3>1 DEF Twins, SameHash, ScanSound
    <3>2. ASSUME NEW d \in Twins(c), stored[c] # Null
          PROVE  d \in Arrival \ {c} /\ Came(d) /\ arrived[d] = arrived[c]
      BY <1>0, <3>2 DEF Twins, SameHash, ScanSound, Came
    <3>3. \A a, b \in recent :
              /\ a # b /\ stored[a] # Null /\ stored[a] = stored[b]
              /\ scan'[a].twin = "done" /\ scan'[b].twin = "done"
              => a \in twinned' \/ b \in twinned'
      BY <1>0, <2>2, <2>3, <3>1 DEF ScanSound, ScansTell, TwinsTold, OnlyScan
    <3>4. \A a \in twinned' : \E d \in Arrival \ {a} : Came(d) /\ arrived[d] = arrived[a]
      BY <2>3, <3>2 DEF ScanSound, ScansTell, TwinsTold
    <3> QED BY <2>1, <3>3, <3>4 DEF TwinsTold, Came
  <2>6. DriftsTold'
    BY <2>1, <2>2 DEF ScanSound, ScansTell, DriftsTold, OnlyScan
  <2>7. ScanSound'
    BY <1>0, <2>1, <2>2, <2>3, <2>5, <2>6 DEF ScanSound, ScansTell, Came, OnlyScan
  <2> QED BY <2>4, <2>7
<1>8. ASSUME NEW c \in Arrival, FailHalf(c) \/ CrashScan(c) PROVE ScanTypeOK' /\ ScanSound'
  <2>1. /\ OnlyScan(c)
        /\ scan'[c].twin = scan[c].twin \/ scan'[c].twin # "done"
        /\ scan'[c].drift = scan[c].drift \/ scan'[c].drift # "done"
    <3>1. CASE DriftTo(c, "failed")
      <4>1. scan' \in [Arrival -> ScanRecord]
        BY <1>0, <3>1 DEF DriftTo, ScanRecord
      <4>2. /\ \A d \in Arrival : d # c => scan'[d] = scan[d]
            /\ scan'[c].twin = scan[c].twin /\ scan'[c].drift = "failed"
        BY <1>0, <3>1 DEF DriftTo, ScanRecord
      <4> QED BY <4>1, <4>2 DEF OnlyScan
    <3>2. CASE scan' = [scan EXCEPT ![c].twin = "failed"]
      <4>1. scan' \in [Arrival -> ScanRecord]
        BY <1>0, <3>2 DEF ScanRecord
      <4>2. /\ \A d \in Arrival : d # c => scan'[d] = scan[d]
            /\ scan'[c].drift = scan[c].drift /\ scan'[c].twin = "failed"
        BY <1>0, <3>2 DEF ScanRecord
      <4> QED BY <4>1, <4>2 DEF OnlyScan
    <3>3. CASE CarryJob(c, "over")
      <4>1. scan' \in [Arrival -> ScanRecord]
        BY <1>0, <3>3 DEF CarryJob, ScanRecord
      <4>2. /\ \A d \in Arrival : d # c => scan'[d] = scan[d]
            /\ scan'[c].drift = scan[c].drift /\ scan'[c].twin = scan[c].twin
        BY <1>0, <3>3 DEF CarryJob, ScanRecord
      <4> QED BY <4>1, <4>2 DEF OnlyScan
    <3>4. ASSUME NEW where \in {"waiting", "over"}, scan' = [scan EXCEPT ![c] = [NoScan EXCEPT !.job = where]]
          PROVE  /\ OnlyScan(c)
                 /\ scan'[c].twin = scan[c].twin \/ scan'[c].twin # "done"
                 /\ scan'[c].drift = scan[c].drift \/ scan'[c].drift # "done"
      BY <1>0, <3>4 DEF NoScan, OnlyScan, ScanRecord
    <3> QED BY <1>8, <3>1, <3>2, <3>3, <3>4 DEF FailHalf, CrashScan
  <2>2. Came(c)
    BY <1>8 DEF FailHalf, CrashScan, JobAt, ScanSound, NoScan
  <2>3. UNCHANGED <<arrivalVars, chain, told>> /\ scanFaults' \in 0..MaxFaults
    BY <1>0, <1>8 DEF FailHalf, CrashScan
  <2> QED BY <2>1, <2>2, <2>3, QuietStep
<1>9. ASSUME NEW c \in Arrival, DeleteStored(c) PROVE ScanTypeOK' /\ ScanSound'
  <2>1. /\ stored'[c] = Null /\ \A d \in Arrival : d # c => stored'[d] = stored[d]
        /\ stored' \in [Arrival -> Body \cup {Blank, Null}]
        /\ UNCHANGED <<arrived, recent, scan, chain, twinned, drifted, scanFaults>>
    BY <1>0, <1>9 DEF DeleteStored, told
  <2>2. ScanTypeOK'
    BY <1>0, <2>1 DEF ScanTypeOK
  <2>3. ScanSound'
    BY <1>0, <2>1 DEF ScanSound, ScansTell, TwinsTold, DriftsTold, Came
  <2> QED BY <2>2, <2>3
<1>10. CASE AgeOldest
  <2>1. recent' \subseteq recent /\ UNCHANGED <<stored, arrived, scan, chain, twinned, drifted, scanFaults>>
    BY <1>10 DEF AgeOldest, told
  <2> QED BY <1>0, <2>1 DEF ScanTypeOK, ScanSound, ScansTell, TwinsTold, DriftsTold, Came
<1> QED BY <1>1, <1>2, <1>3, <1>4, <1>5, <1>6, <1>7, <1>8, <1>9, <1>10 DEF ScanNext

LEMMA ScanInvariant == ScanSpec => [](ScanTypeOK /\ ScanSound)
<1>1. ScanInit => ScanTypeOK /\ ScanSound
  <2> SUFFICES ASSUME ScanInit PROVE ScanTypeOK /\ ScanSound
    OBVIOUS
  <2>1. ScanTypeOK
    <3>1. <<>> \in Seq(Shape) /\ \A t \in Shape : <<t>> \in Seq(Shape)
      OBVIOUS
    <3>2. chain \in Seq(Shape)
      BY <3>1, NoFieldsShape DEF ScanInit
    <3> QED BY <3>2 DEF ScanInit, ScanTypeOK, NoScan
  <2>2. ScanSound
    BY DEF ScanInit, ScanSound, ScansTell, TwinsTold, DriftsTold, Came, NoScan
  <2> QED BY <2>1, <2>2
<1> QED BY <1>1, ScanStep, PTL DEF ScanSpec

(* Of two requests alike one is told of, whichever looked first; and a     *)
(* schema that no version has is told of.                                  *)
THEOREM ScansTellWhatCame == ScanSpec => []ScansTell
<1>1. ScanSound => ScansTell
  BY DEF ScanSound
<1> QED BY ScanInvariant, <1>1, PTL

-----------------------------------------------------------------------------
(* The whole. Each component of it behaves as its own specification says.  *)
THEOREM BackOfficeComponents ==
  BackOfficeSpec => /\ AccountsSpec /\ CliTokensSpec /\ BillingSpec /\ CatalogSpec /\ InboxSpec
                    /\ WaitlistSpec /\ WalkSpec /\ ScanSpec
<1>1. BackOfficeInit => /\ AccountsInit /\ CliTokensInit /\ BillingInit /\ CatalogInit /\ InboxInit
                        /\ WaitlistInit /\ WalkInit /\ ScanInit
  BY DEF BackOfficeInit
<1>2. [BackOfficeNext]_backOfficeVars =>
          /\ [AccountsNext]_accountsVars /\ [CliTokensNext]_cliVars /\ [BillingNext]_billingVars
          /\ [CatalogNext]_catalogVars /\ [InboxNext]_inboxVars
          /\ [WaitlistNext]_waitlistVars /\ [WalkNext]_walkVars /\ [ScanNext]_scanVars
  BY DEF BackOfficeNext, Still, backOfficeVars
<1> QED BY <1>1, <1>2, PTL DEF BackOfficeSpec, AccountsSpec, CliTokensSpec, BillingSpec, CatalogSpec,
        InboxSpec, WaitlistSpec, WalkSpec, ScanSpec

(* So each keeps the shape of its state, and calls that fail half way do.  *)
THEOREM BackOfficeTypes == BackOfficeFairSpec => []BackOfficeTypeOK
<1>1. BackOfficeFairSpec => BackOfficeSpec
  BY DEF BackOfficeFairSpec
<1>2. /\ AccountsTypeOK /\ CliTokensTypeOK /\ BillingTypeOK /\ CatalogTypeOK /\ InboxTypeOK
      /\ WaitlistTypeOK /\ WalkTypeOK /\ ScanTypeOK
      => BackOfficeTypeOK
  BY DEF BackOfficeTypeOK
<1> QED BY <1>1, <1>2, BackOfficeComponents, AccountsTypes, CliTokensTypes, BillingInvariant,
        CatalogTypes, InboxInvariant, WaitlistInvariant, WalkTypes, ScanInvariant, PTL
=============================================================================
