------------------------------- MODULE Inbox -------------------------------
(***************************************************************************)
(* The inbox: notifications are rows, and the listener that stores one     *)
(* then pushes it to the sockets in the room of its user. A page of the    *)
(* application joins that room and lists the rows. A notification is named *)
(* by the call that raises it.                                             *)
(***************************************************************************)
EXTENDS Persistence

CONSTANTS
    Reader,     (* users                                                   *)
    Page        (* pages of the application, with a socket each            *)

ASSUME InboxAssumption == Null \notin Reader

VARIABLES
    notice,     (* each notification: its user, and how far it is          *)
    inbox,      (* notifications with a row                                *)
    joined,     (* the user whose room each page is in                     *)
    listed,     (* pages that have listed the rows since                   *)
    shown,      (* what each page was told of                              *)
    inboxFaults

pageVars == <<joined, listed, shown>>
inboxVars == <<notice, inbox, pageVars, inboxFaults>>

(* What the listener, or a client, has notified a user of.                 *)
Notice == [to : Reader \cup {Null},
           at : {"new", "raised", "stored", "told", "posted", "lost"}]

InboxInit ==
    /\ notice = [c \in Call |-> [to |-> Null, at |-> "new"]]
    /\ inbox = {}
    /\ joined = [p \in Page |-> Null]
    /\ listed = {}
    /\ shown = [p \in Page |-> {}]
    /\ inboxFaults = 0

-----------------------------------------------------------------------------
NoticeAt(c, where) == notice[c].at = where

Carry(c, where) == notice' = [notice EXCEPT ![c].at = where]

Appear(c, u, where) ==
    /\ NoticeAt(c, "new") /\ \A d \in Call : d < c => ~NoticeAt(d, "new")
    /\ notice' = [notice EXCEPT ![c] = [to |-> u, at |-> where]]

(* An alert is announced: NewNotificationEvent.                            *)
RaiseNotice(c, u) ==
    /\ Appear(c, u, "raised")
    /\ UNCHANGED <<inbox, pageVars, inboxFaults>>

StoreNotice(c) ==
    /\ NoticeAt(c, "raised")
    /\ inbox' = inbox \cup {c}
    /\ Carry(c, "stored")
    /\ UNCHANGED <<pageVars, inboxFaults>>

(* The pages that are in the room when the listener emits.                 *)
AudienceOfNotice(c) == {p \in Page : joined[p] = c}
Audience(c) == {p \in Page : joined[p] = notice[c].to}

EmitNotice(c) ==
    /\ NoticeAt(c, "stored")
    /\ shown' = [p \in Page |-> IF p \in Audience(c) THEN shown[p] \cup {c} ELSE shown[p]]
    /\ Carry(c, "told")
    /\ UNCHANGED <<inbox, joined, listed, inboxFaults>>

(* POST notifications makes a row and emits nothing.                       *)
PostNotice(c, u) ==
    /\ Appear(c, u, "posted")
    /\ inbox' = inbox \cup {c}
    /\ UNCHANGED <<pageVars, inboxFaults>>

(* The insert throws, or the process dies before or after it: nobody       *)
(* raises the event again.                                                 *)
LoseNotice(c) ==
    /\ NoticeAt(c, "raised") \/ NoticeAt(c, "stored")
    /\ inboxFaults < MaxFaults
    /\ inboxFaults' = inboxFaults + 1
    /\ Carry(c, "lost")
    /\ UNCHANGED <<inbox, pageVars>>

-----------------------------------------------------------------------------
(* subscribe.                                                              *)
JoinRoom(p, u) ==
    /\ joined[p] = Null
    /\ joined' = [joined EXCEPT ![p] = u]
    /\ UNCHANGED <<notice, inbox, listed, shown, inboxFaults>>

(* GET notifications.                                                      *)
ListNotices(p) ==
    /\ joined[p] # Null
    /\ listed' = listed \cup {p}
    /\ shown' = [shown EXCEPT ![p] = @ \cup {c \in inbox : notice[c].to = joined[p]}]
    /\ UNCHANGED <<notice, inbox, joined, inboxFaults>>

(* The socket closes; the page starts anew.                                *)
LeaveRoom(p) ==
    /\ joined[p] # Null
    /\ joined' = [joined EXCEPT ![p] = Null]
    /\ listed' = listed \ {p}
    /\ shown' = [shown EXCEPT ![p] = {}]
    /\ UNCHANGED <<notice, inbox, inboxFaults>>

InboxNext ==
    \/ \E c \in Call :
           \/ \E u \in Reader : RaiseNotice(c, u) \/ PostNotice(c, u)
           \/ StoreNotice(c) \/ EmitNotice(c) \/ LoseNotice(c)
    \/ \E p \in Page :
           \/ \E u \in Reader : JoinRoom(p, u)
           \/ ListNotices(p) \/ LeaveRoom(p)

InboxSpec == InboxInit /\ [][InboxNext]_inboxVars

-----------------------------------------------------------------------------
(* Properties.                                                             *)

InboxTypeOK ==
    /\ notice \in [Call -> Notice]
    /\ inbox \subseteq Call
    /\ joined \in [Page -> Reader \cup {Null}]
    /\ listed \subseteq Page
    /\ shown \in [Page -> SUBSET Call]
    /\ inboxFaults \in 0..MaxFaults

(* A page that joins its room and then lists the rows misses nothing: any  *)
(* row of its user that it was not told of is still to be emitted, or its  *)
(* listener died, or it was posted.                                        *)
NoNotificationMissed ==
    \A p \in listed : \A c \in inbox :
        notice[c].to = joined[p] =>
            c \in shown[p] \/ notice[c].at \in {"stored", "posted", "lost"}
=============================================================================
