------------------------------ MODULE Waitlist ------------------------------
(***************************************************************************)
(* The waitlist: anybody posts an address, the handler looks whether it is *)
(* listed, inserts it, and puts a confirmation into the outbox. Nothing    *)
(* but the unique key of the column makes the three one step.              *)
(***************************************************************************)
EXTENDS Persistence, FiniteSets

CONSTANT Address  (* addresses, however somebody types them               *)

(* An address may be typed with capitals, or as nothing one can mail to.   *)
Typed == [address : Address, way : {"plain", "capitals", "broken"}]

VARIABLES
    waitlist,   (* the values in the column of addresses                   *)
    entry,      (* each call: what was typed, and where it is              *)
    welcomes,   (* confirmations in the outbox for each address            *)
    waitlistFaults

waitlistVars == <<waitlist, entry, welcomes, waitlistFaults>>

WaitlistInit ==
    /\ waitlist = {}
    /\ entry = [c \in Call |-> [typed |-> Null, at |-> "new"]]
    /\ welcomes = [a \in Address |-> 0]
    /\ waitlistFaults = 0

-----------------------------------------------------------------------------
(* WaitlistEmail: trimmed and in lower case.                               *)
AsTyped(typed) == typed
Normal(typed) == [typed EXCEPT !.way = IF @ = "capitals" THEN "plain" ELSE @]

(* The entry a call makes, by its address.                                 *)
Entered(c) == Normal(entry[c].typed)

EntryAt(c, where) == entry[c].at = where

Move(c, where) == entry' = [entry EXCEPT ![c].at = where]

(* POST waitlist: the body is parsed, 400 unless it holds an address.      *)
Apply(c, typed) ==
    /\ EntryAt(c, "new") /\ \A d \in Call : d < c => ~EntryAt(d, "new")
    /\ entry' = [entry EXCEPT ![c] = [typed |-> typed,
                                      at |-> IF typed.way = "broken" THEN "invalid" ELSE "check"]]
    /\ UNCHANGED <<waitlist, welcomes, waitlistFaults>>

(* existsByEmail: 409.                                                     *)
CheckListed(c) ==
    /\ EntryAt(c, "check")
    /\ Move(c, IF Entered(c) \in waitlist THEN "conflict" ELSE "create")
    /\ UNCHANGED <<waitlist, welcomes, waitlistFaults>>

(* The unique key refuses the later of two that both found nothing: 500.   *)
CreateEntry(c) ==
    /\ EntryAt(c, "create")
    /\ waitlist' = waitlist \cup {Entered(c)}
    /\ Move(c, IF Entered(c) \in waitlist THEN "error" ELSE "confirm")
    /\ UNCHANGED <<welcomes, waitlistFaults>>

ConfirmEntry(c) ==
    /\ EntryAt(c, "confirm")
    /\ welcomes' = [welcomes EXCEPT ![entry[c].typed.address] = @ + 1]
    /\ Move(c, "id")
    /\ UNCHANGED <<waitlist, waitlistFaults>>

(* A query throws or the process dies. That the outbox takes no mail is    *)
(* caught, and the call answered like any other.                           *)
FailEntry(c) ==
    /\ waitlistFaults < MaxFaults
    /\ waitlistFaults' = waitlistFaults + 1
    /\ \/ entry[c].at \in {"check", "create", "confirm"} /\ Move(c, "error")
       \/ EntryAt(c, "confirm") /\ Move(c, "id")
    /\ UNCHANGED <<waitlist, welcomes>>

WaitlistNext ==
    \E c \in Call :
        \/ \E typed \in Typed : Apply(c, typed)
        \/ CheckListed(c) \/ CreateEntry(c) \/ ConfirmEntry(c) \/ FailEntry(c)

WaitlistSpec == WaitlistInit /\ [][WaitlistNext]_waitlistVars

-----------------------------------------------------------------------------
(* Properties.                                                             *)

WaitlistTypeOK ==
    /\ waitlist \subseteq Typed
    /\ entry \in [Call -> [typed : Typed \cup {Null},
                           at : {"new", "check", "create", "confirm",
                                 "id", "conflict", "invalid", "error"}]]
    /\ welcomes \in [Address -> Nat]
    /\ waitlistFaults \in 0..MaxFaults

Answered(a, what) == {c \in Call : EntryAt(c, what) /\ entry[c].typed.address = a}

(* However it is typed and however many ask for it at once, an address is  *)
(* listed once, one call in all is answered with an id, and one welcome is *)
(* sent; who is told of a conflict is listed; and who is listed without a  *)
(* welcome has one coming, or a fault has cost it.                         *)
OneWelcome ==
    \A a \in Address :
        LET listedAs == {r \in waitlist : r.address = a} IN
        /\ \A r, s \in listedAs : r = s
        /\ \A c, d \in Answered(a, "id") : c = d
        /\ welcomes[a] <= 1
        /\ Answered(a, "conflict") \cup Answered(a, "id") # {} => listedAs # {}
        /\ listedAs # {} /\ welcomes[a] = 0 => Answered(a, "confirm") # {} \/ waitlistFaults > 0
=============================================================================
