------------------------------ MODULE Accounts ------------------------------
(***************************************************************************)
(* Accounts: registration, login, the reset link, and the changes a user   *)
(* makes to the account. Each call loads a user, computes on the copy and  *)
(* saves it; registration is a chain of inserts that nothing rolls back.   *)
(* An account is named by the call that registered it, a password by the   *)
(* call that chose it, and a reset token by the call that asked for it.    *)
(***************************************************************************)
EXTENDS Persistence, FiniteSets

CONSTANTS
    Member,     (* accounts registered before the behaviour starts         *)
    Email,
    Handle      (* usernames a user may ask for                            *)

ASSUME AccountsAssumption ==
    /\ Member \cap Call = {} /\ Null \notin Member \cup Call \cup Email \cup Handle

Id == Member \cup Call

(* The columns of the account in users, and those in user_settings; any of *)
(* the others there is written the way channels is.                        *)
UserColumn == {"email", "username", "password", "token"}
SettingsColumn == {"channels", "alertEmail"}

Row == [email : Email \cup {Null}, username : Id \cup Handle \cup {Null},
        password : Id \cup {Null}, token : Id \cup {Null},
        channels : Id \cup {Null}, alertEmail : Id \cup {Null}]

NoRow == [k \in UserColumn \cup SettingsColumn |-> Null]

VARIABLES
    users,        (* accounts with a row in users                          *)
    user,         (* the columns of each account                           *)
    settings,     (* accounts with a row in user_settings                  *)
    directories,  (* accounts with their Default directory                 *)
    call,         (* each call: its input, where it is, what it has loaded *)
    accountFaults

accountsVars == <<users, user, settings, directories, call, accountFaults>>

NoCall == [op |-> "none", at |-> "new", key |-> Null, val |-> Null, column |-> Null,
           who |-> Null, copy |-> NoRow, base |-> NoRow]

(* What an insert writes: an account's first password and its default      *)
(* settings are named by the account.                                      *)
WithUser(row, i, e) == [row EXCEPT !.email = e, !.username = i, !.password = i]
WithSettings(row, i) == [row EXCEPT !.channels = i, !.alertEmail = i]

AccountsInit ==
    /\ users = Member
    /\ \E issued \in SUBSET Member, address \in [Member -> Email] :
           user = [i \in Id |-> IF i \notin Member THEN NoRow
                                ELSE [WithSettings(WithUser(NoRow, i, address[i]), i)
                                        EXCEPT !.token = IF i \in issued THEN i ELSE Null]]
    /\ settings = Member /\ directories = Member
    /\ call = [c \in Call |-> NoCall]
    /\ accountFaults = 0

-----------------------------------------------------------------------------
Over == {"ok", "refused"}

(* Of a call that succeeded only the operation matters, and the token a    *)
(* reset had; of one that was refused, or failed, nothing.                 *)
Outcome(op, key, result) ==
    IF result = "ok" THEN [NoCall EXCEPT !.op = op, !.at = "ok", !.key = key]
                     ELSE [NoCall EXCEPT !.at = "refused"]

End(c, result) == call' = [call EXCEPT ![c] = Outcome(@.op, @.key, result)]

Goto(c, where) == call' = [call EXCEPT ![c].at = where]

(* The first step of a call: it loads a user, and goes on with the copy.   *)
Load(c, op, key, val, column, u, next) ==
    call' = [call EXCEPT ![c] = [op |-> op, at |-> next, key |-> key, val |-> val,
                                 column |-> column, who |-> u,
                                 copy |-> user[u], base |-> user[u]]]

(* The first step is its last.                                             *)
Answer(c, op, result) == call' = [call EXCEPT ![c] = Outcome(op, Null, result)]

(* Nothing happened between the arrival of a call and its first query.     *)
Arrives(c) == call[c].at = "new" /\ \A d \in Call : d < c => call[d].at # "new"

At(c, op, where) == call[c].op = op /\ call[c].at = where

WithEmail(e) == {u \in users : user[u].email = e}

-----------------------------------------------------------------------------
(* register: nobody asks whether the address is taken, and the username is *)
(* made from the new id.                                                   *)
InsertUser(c, e) ==
    /\ users' = users \cup {c}
    /\ user' = [user EXCEPT ![c] = WithUser(@, c, e)]
    /\ call' = [call EXCEPT ![c] = [NoCall EXCEPT !.op = "register", !.at = "settings"]]
    /\ UNCHANGED <<settings, directories, accountFaults>>

InsertSettings(c) ==
    /\ At(c, "register", "settings")
    /\ settings' = settings \cup {c}
    /\ user' = [user EXCEPT ![c] = WithSettings(@, c)]
    /\ Goto(c, "directory")
    /\ UNCHANGED <<users, directories, accountFaults>>

(* Of an account's directories only the first, Default, matters here.      *)
WithDefaultDirectory(i) == directories \cup {i}

(* The last insert; a welcome mail that cannot be queued fails nothing.    *)
InsertDirectory(c) ==
    /\ At(c, "register", "directory")
    /\ directories' = WithDefaultDirectory(c)
    /\ End(c, "ok")
    /\ UNCHANGED <<users, user, settings, accountFaults>>

(* login: of several accounts with the address, whichever row comes first. *)
Login(c, e, p) ==
    /\ \/ WithEmail(e) = {} /\ Answer(c, "login", "refused")
       \/ \E u \in WithEmail(e) :
              Answer(c, "login", IF user[u].password = p THEN "ok" ELSE "refused")
    /\ UNCHANGED <<users, user, settings, directories, accountFaults>>

(* forgot-password says nothing about an address it does not know.         *)
LoadByEmail(c, e) ==
    /\ \/ WithEmail(e) = {} /\ Answer(c, "forgot", "ok")
       \/ \E u \in WithEmail(e) : Load(c, "forgot", Null, Null, Null, u, "save")
    /\ UNCHANGED <<users, user, settings, directories, accountFaults>>

(* reset-password looks for a user with the token, and refuses one older   *)
(* than thirty minutes.                                                    *)
LoadByToken(c, t) ==
    /\ \/ Answer(c, "reset", "refused")
       \/ \E u \in users : user[u].token = t /\ Load(c, "reset", t, Null, Null, u, "save")
    /\ UNCHANGED <<users, user, settings, directories, accountFaults>>

(* me/password: the old password is compared with the copy, then the new   *)
(* one with its confirmation.                                              *)
LoadAndCompare(c, u, p) ==
    /\ \/ Answer(c, "change", "refused")
       \/ user[u].password = p /\ Load(c, "change", Null, Null, Null, u, "save")
    /\ UNCHANGED <<users, user, settings, directories, accountFaults>>

(* me: a username is looked up before it is taken.                         *)
LoadProfile(c, u, n) ==
    /\ Load(c, "update", Null, n, Null, u, IF n = Null THEN "save" ELSE "check")
    /\ UNCHANGED <<users, user, settings, directories, accountFaults>>

(* user-settings/me: the settings are loaded by their user, and one that   *)
(* an unfinished registration left without them gets not found.            *)
LoadSettings(c, u, k) ==
    /\ IF u \in settings THEN Load(c, "patch", Null, Null, k, u, "reread")
                         ELSE Answer(c, "patch", "refused")
    /\ UNCHANGED <<users, user, settings, directories, accountFaults>>

(* The first four are public. Null is an address that no account has.      *)
PublicRequest(c) ==
    \/ \E e \in Email : InsertUser(c, e)
    \/ \E e \in Email \cup {Null} : LoadByEmail(c, e)
    \/ \E e \in Email \cup {Null}, p \in Id : Login(c, e, p)
    \/ \E t \in Id : LoadByToken(c, t)

(* The guard takes the bearer token, or else the session cookies one after *)
(* another: a token that verifies names an account, none that verifies is  *)
(* refused before anything is read.                                        *)
CurrentUser == users

SignedRequest(c) ==
    \E u \in CurrentUser :
        \/ \E p \in Id : LoadAndCompare(c, u, p)
        \/ \E n \in Handle \cup {Null, user[u].username} : LoadProfile(c, u, n)

SettingsRequest(c) ==
    \E u \in CurrentUser, k \in SettingsColumn : LoadSettings(c, u, k)

Request(c) == Arrives(c) /\ (PublicRequest(c) \/ SignedRequest(c) \/ SettingsRequest(c))

(* A query that meets a row the call has loaded: it may refresh what the   *)
(* entity manager takes for the base, in the columns of that table.        *)
Reread(c, columns) ==
    LET base == call[c].base
        now == Refreshed(base, user[call[c].who])
    IN  \/ Goto(c, "save")
        \/ call' = [call EXCEPT ![c].at = "save",
                       ![c].base = [k \in DOMAIN base |-> IF k \in columns THEN now[k] ELSE base[k]]]

CheckUsername(c) ==
    LET takers == {i \in users : user[i].username = call[c].val} IN
    /\ At(c, "update", "check")
    /\ \/ takers \ {call[c].who} # {} /\ End(c, "refused")
       \/ takers = {} /\ Goto(c, "save")
       \/ takers = {call[c].who} /\ Reread(c, UserColumn)
    /\ UNCHANGED <<users, user, settings, directories, accountFaults>>

(* UserSettingsRepository.save looks the row up once more, by its user.    *)
RereadSettings(c) ==
    /\ At(c, "patch", "reread")
    /\ Reread(c, SettingsColumn)
    /\ UNCHANGED <<users, user, settings, directories, accountFaults>>

-----------------------------------------------------------------------------
(* The columns a call is about. The save of a patch assigns every column   *)
(* but the alert address.                                                  *)
Asked(c) ==
    CASE call[c].op = "forgot" -> {"token"}
      [] call[c].op = "reset" -> {"password", "token"}
      [] call[c].op = "change" -> {"password"}
      [] call[c].op = "update" /\ call[c].val # Null -> {"username"}
      [] call[c].op = "patch" -> {call[c].column} \cap (SettingsColumn \ {"alertEmail"})
      [] OTHER -> {}

(* What it makes of them in its copy.                                      *)
NewValueKeepingToken(c, k) ==
    CASE k = "username" -> call[c].val
      [] k = "token" /\ call[c].op = "reset" -> call[c].copy.token
      [] OTHER -> c
NewValue(c, k) ==
    CASE k = "username" -> call[c].val
      [] k = "token" /\ call[c].op = "reset" -> Null
      [] OTHER -> c

Changed(c) == [k \in DOMAIN NoRow |-> IF k \in Asked(c) THEN NewValue(c, k) ELSE call[c].copy[k]]

(* A save flushes the copy of the call.                                    *)
Save(c) ==
    LET u == call[c].who IN
    /\ call[c].at = "save"
    /\ user' = [user EXCEPT ![u] = Written(@, call[c].base, Changed(c))]
    /\ UNCHANGED <<users, settings, directories, accountFaults>>

(* A reset whose notice cannot be queued succeeds all the same;            *)
(* forgot-password still has its mail to queue.                            *)
SaveAccount(c) ==
    /\ call[c].op # "patch" /\ Save(c)
    /\ IF call[c].op = "forgot" THEN Goto(c, "mail") ELSE End(c, "ok")

SaveSettings(c) ==
    call[c].op = "patch" /\ Save(c) /\ End(c, "ok")

SaveUser(c) == SaveAccount(c) \/ SaveSettings(c)

QueueResetLink(c) ==
    /\ At(c, "forgot", "mail")
    /\ End(c, "ok")
    /\ UNCHANGED <<users, user, settings, directories, accountFaults>>

(* A query throws, or the process dies: what was flushed stays.            *)
Breaks(c) ==
    /\ call[c].at \notin Over \cup {"new"}
    /\ accountFaults < MaxFaults
    /\ accountFaults' = accountFaults + 1
    /\ UNCHANGED <<users, user, settings, directories>>
FailCallCaught(c) ==
    Breaks(c) /\ IF call[c].at = "settings" THEN Goto(c, "directory") ELSE End(c, "refused")
FailCall(c) == Breaks(c) /\ End(c, "refused")

AccountsNext ==
    \E c \in Call :
        \/ Request(c)
        \/ InsertSettings(c) \/ InsertDirectory(c)
        \/ CheckUsername(c) \/ RereadSettings(c) \/ SaveUser(c) \/ QueueResetLink(c)
        \/ FailCall(c)

AccountsSpec == AccountsInit /\ [][AccountsNext]_accountsVars

-----------------------------------------------------------------------------
(* Properties.                                                             *)

CallRecord ==
    [op : {"none", "register", "login", "forgot", "reset", "change", "update", "patch"},
     at : {"new", "settings", "directory", "check", "reread", "save", "mail"} \cup Over,
     key : Id \cup {Null}, val : Id \cup Handle \cup {Null},
     column : SettingsColumn \cup {Null}, who : Id \cup {Null}, copy : Row, base : Row]

AccountsTypeOK ==
    /\ users \subseteq Id /\ settings \subseteq users /\ directories \subseteq settings
    /\ user \in [Id -> Row]
    /\ \A i \in Id : i \notin users => user[i] = NoRow
    /\ call \in [Call -> CallRecord]
    /\ accountFaults \in 0..MaxFaults

(* A registration that succeeds leaves an account with its settings and    *)
(* its Default directory: a failure of either insert fails the call.       *)
RegistrationComplete ==
    \A c \in Call : At(c, "register", "ok") => c \in users \cap settings \cap directories

Saves(c, u) == call[c].at = "save" /\ call[c].who = u /\ call'[c].at # "save"

(* The call has met a row that others changed after it had loaded it: a    *)
(* patch of settings, or a profile update that resubmits its username.     *)
Outdated(c) == call[c].base # call[c].copy

(* A save changes no column but those its call is about, whatever was      *)
(* saved since it loaded the row: a profile update or a reset link in      *)
(* flight does not bring an old password back. Only a call that read the   *)
(* row again, and found it changed, writes what it had loaded.             *)
OnlyAskedColumnsChange ==
    [][\A u \in users : \A k \in DOMAIN user[u] : user'[u][k] # user[u][k] =>
           \/ \E c \in Call : Saves(c, u) /\ (k \in Asked(c) \/ Outdated(c))
           \/ k \in SettingsColumn /\ u \in settings' \ settings
      ]_accountsVars

(* Tokens that a reset used up.                                            *)
Spent == {call[c].key : c \in {d \in Call : At(d, "reset", "ok")}}

(* A reset link works until it is used: the token leaves the row with the  *)
(* password it changes, and no save in flight puts it back, but that of a  *)
(* call that read the row again.                                           *)
SpentTokenStaysSpent ==
    [][\A u \in users : user'[u].token \in Spent' =>
           \/ user[u].token \in Spent /\ user'[u].token = user[u].token
           \/ \E c \in Call : Saves(c, u) /\ Outdated(c)
      ]_accountsVars
=============================================================================
