------------------------------ MODULE Billing ------------------------------
(***************************************************************************)
(* Billing: Stripe keeps the subscriptions, and tells of every change with *)
(* an event, which may come late, twice and out of order. The handler asks *)
(* Stripe for the subscription as it is now, and writes it over the one    *)
(* row its user has in subscriptions. Handlers of two events interleave.   *)
(***************************************************************************)
EXTENDS Persistence

CONSTANTS
    Customer,      (* users                                                *)
    Subscription,  (* subscriptions ever made at Stripe                    *)
    Price,
    Listed,        (* the prices some packet has; they name the packet     *)
    MaxEvents      (* bound: events Stripe sends                           *)

ASSUME BillingAssumption ==
    /\ MaxEvents \in Nat /\ Listed \subseteq Price
    /\ Null \notin Customer \cup Subscription \cup Price

Event == 1..MaxEvents

(* A subscription at Stripe; userId is metadata that checkout puts there.  *)
AtStripe == [userId : Customer \cup {Null}, price : Price \cup {Null},
             status : {"none", "active", "canceled"}]
NotAtStripe == [userId |-> Null, price |-> Null, status |-> "none"]

(* The packets, each known by the price Stripe has for it.                 *)
Packet == Listed

(* A row of subscriptions: user_id and stripe_subscription_id are unique.  *)
SubscriptionRow == [sub : Subscription \cup {Null}, packet : Price \cup {Null},
                    status : {"none", "active", "canceled"}, tier : Price \cup {Null}]
NoSubscription == [sub |-> Null, packet |-> Null, status |-> "none", tier |-> Null]

VARIABLES
    stripe,     (* each subscription as Stripe has it                      *)
    sent,       (* events sent so far                                      *)
    event,      (* each: its subscription, what it said, where its handler *)
                (* is and what that has loaded                             *)
    row,        (* the row of each user                                    *)
    overlapped, (* history: users two handlers worked for at once          *)
    billingFaults

billingVars == <<stripe, sent, event, row, overlapped, billingFaults>>

EventRecord == [sub : Subscription \cup {Null}, told : AtStripe,
                at : {"none", "sent", "fetched", "looked", "found", "handled"},
                got : AtStripe, base : SubscriptionRow]
NoEvent == [sub |-> Null, told |-> NotAtStripe, at |-> "none",
            got |-> NotAtStripe, base |-> NoSubscription]

BillingInit ==
    /\ stripe = [s \in Subscription |-> NotAtStripe]
    /\ sent = 0
    /\ event = [e \in Event |-> NoEvent]
    /\ row = [u \in Customer |-> NoSubscription]
    /\ overlapped = {}
    /\ billingFaults = 0

-----------------------------------------------------------------------------
(* Stripe.                                                                 *)

Tell(s, now) ==
    /\ sent < MaxEvents
    /\ sent' = sent + 1
    /\ stripe' = [stripe EXCEPT ![s] = now]
    /\ event' = [event EXCEPT ![sent + 1] = [NoEvent EXCEPT !.sub = s, !.told = now, !.at = "sent"]]
    /\ UNCHANGED <<row, overlapped, billingFaults>>

(* A checkout, or a subscription made by hand, which names no user.        *)
StripeCreates(s) ==
    /\ stripe[s] = NotAtStripe
    /\ \E u \in Customer \cup {Null}, p \in Price :
           Tell(s, [userId |-> u, price |-> p, status |-> "active"])

StripeChanges(s) ==
    /\ stripe[s].status = "active"
    /\ \/ Tell(s, [stripe[s] EXCEPT !.status = "canceled"])
       \/ \E p \in Price \ {stripe[s].price} : Tell(s, [stripe[s] EXCEPT !.price = p])

(* An event that was handled comes once more.                              *)
StripeRepeats(e) ==
    /\ event[e].at = "handled"
    /\ billingFaults < MaxFaults
    /\ billingFaults' = billingFaults + 1
    /\ event' = [event EXCEPT ![e].at = "sent"]
    /\ UNCHANGED <<stripe, sent, row, overlapped>>

-----------------------------------------------------------------------------
(* The handler.                                                            *)

Settle(e, where) ==
    event' = [event EXCEPT ![e] = [@ EXCEPT !.at = where, !.got = NotAtStripe,
                                            !.base = NoSubscription]]

InHand(e) == event[e].at \in {"fetched", "looked", "found"}

(* The subscription is fetched again, whatever the event said of it. One   *)
(* without a user, or with a price of no packet, is left alone.            *)
FetchedAsTold(e) == event[e].told
Fetched(e) == stripe[event[e].sub]

Fetch(e) ==
    LET now == Fetched(e)
        u == now.userId
    IN  /\ event[e].at = "sent"
        /\ \/ /\ u = Null \/ now.price \notin Packet
              /\ Settle(e, "handled")
              /\ UNCHANGED overlapped
           \/ /\ u # Null /\ now.price \in Packet
              /\ event' = [event EXCEPT ![e] = [@ EXCEPT !.at = "fetched", !.got = now]]
              /\ overlapped' = overlapped \cup
                    {v \in {u} : \E d \in Event : InHand(d) /\ event[d].got.userId = v}
        /\ UNCHANGED <<stripe, sent, row, billingFaults>>

(* The row with the subscription, or else the one of the user.             *)
ExistingBySubscription(e) ==
    LET r == row[event[e].got.userId] IN IF r.sub = event[e].sub THEN r ELSE NoSubscription
Existing(e) == row[event[e].got.userId]

(* The handler looks for a row, for its id and creation date ...           *)
LookUp(e) ==
    /\ event[e].at = "fetched"
    /\ event' = [event EXCEPT ![e] = [@ EXCEPT !.at = "looked", !.base = Existing(e)]]
    /\ UNCHANGED <<stripe, sent, row, overlapped, billingFaults>>

(* ... and save looks again; what it meets may refresh the base.           *)
LookAgain(e) ==
    /\ event[e].at = "looked"
    /\ \/ event' = [event EXCEPT ![e] = [@ EXCEPT !.at = "found", !.base = Existing(e)]]
       \/ event[e].base # NoSubscription /\ event' = [event EXCEPT ![e].at = "found"]
    /\ UNCHANGED <<stripe, sent, row, overlapped, billingFaults>>

(* The subscription the handler makes of what it fetched ...               *)
SubscriptionOf(e) ==
    [sub |-> event[e].sub, packet |-> event[e].got.price,
     status |-> event[e].got.status, tier |-> event[e].got.price]

(* ... of which an update assigns every column but the tier.               *)
Upserted(e) == [SubscriptionOf(e) EXCEPT !.tier = event[e].base.tier]

(* An insert beside another row of the user fails; Stripe gets an error    *)
(* and sends the event again.                                              *)
Flush(e) ==
    LET u == event[e].got.userId
        base == event[e].base
    IN  /\ event[e].at = "found"
        /\ \/ /\ base # NoSubscription
              /\ row' = [row EXCEPT ![u] = Written(@, base, Upserted(e))]
              /\ Settle(e, "handled")
           \/ /\ base = NoSubscription /\ row[u] = NoSubscription
              /\ row' = [row EXCEPT ![u] = SubscriptionOf(e)]
              /\ Settle(e, "handled")
           \/ /\ base = NoSubscription /\ row[u] # NoSubscription
              /\ UNCHANGED row
              /\ Settle(e, "sent")
        /\ UNCHANGED <<stripe, sent, overlapped, billingFaults>>

(* Stripe cannot be asked, a query throws, or the process dies.            *)
FailHandling(e) ==
    /\ InHand(e)
    /\ billingFaults < MaxFaults
    /\ billingFaults' = billingFaults + 1
    /\ Settle(e, "sent")
    /\ UNCHANGED <<stripe, sent, row, overlapped>>

HandleEvent(e) == Fetch(e) \/ LookUp(e) \/ LookAgain(e) \/ Flush(e)

BillingNext ==
    \/ \E s \in Subscription : StripeCreates(s) \/ StripeChanges(s)
    \/ \E e \in Event : StripeRepeats(e) \/ HandleEvent(e) \/ FailHandling(e)

(* Stripe sends an event until it is answered, and a handler goes on.      *)
BillingFairness == \A e \in Event : WF_billingVars(HandleEvent(e))

BillingSpec == BillingInit /\ [][BillingNext]_billingVars

BillingFairSpec == BillingSpec /\ BillingFairness

-----------------------------------------------------------------------------
(* Properties.                                                             *)

BillingTypeOK ==
    /\ stripe \in [Subscription -> AtStripe]
    /\ sent \in 0..MaxEvents
    /\ event \in [Event -> EventRecord]
    /\ \A e \in Event : event[e].at = "none" <=> e > sent
    /\ row \in [Customer -> SubscriptionRow]
    /\ overlapped \subseteq Customer
    /\ billingFaults \in 0..MaxFaults

(* Once the events of a subscription are handled, the row that has it says *)
(* what Stripe says, in whatever order they came and however often: unless *)
(* two handlers worked for its user at the same time, or Stripe moved it   *)
(* to a price of no packet.                                                *)
RowMirrorsStripe ==
    \A u \in Customer, s \in Subscription :
        /\ row[u].sub = s /\ u \notin overlapped /\ stripe[s].price \in Listed
        /\ \A e \in Event : event[e].sub = s => event[e].at = "handled"
        => row[u].packet = stripe[s].price /\ row[u].status = stripe[s].status

(* Events are handled in the end, all of them once no more come: two       *)
(* inserts for a user collide, but the event that lost finds the row when  *)
(* it comes again, and so does that of a second subscription of the user.  *)
EventsSettle ==
    (\E e \in Event : event[e].at = "sent") ~> (\A e \in Event : event[e].at \in {"none", "handled"})
=============================================================================
