----------------------------- MODULE CliTokens -----------------------------
(***************************************************************************)
(* CLI tokens: a user has at most one, made once and rotated since. A CLI  *)
(* socket authenticates with it: the gateway finds a row by the first      *)
(* twelve characters, compares the hash, notes the use, and from then on   *)
(* the socket speaks for the row's user. A token is named by the call that *)
(* made it; its hash names it too, its prefix may be another token's.      *)
(***************************************************************************)
EXTENDS Persistence

CONSTANTS
    Owner,      (* users with an account                                   *)
    Socket,     (* CLI sockets                                             *)
    Prefix      (* first twelve characters of a token                      *)

ASSUME CliTokensAssumption ==
    Owner \cap Call = {} /\ Null \notin Owner \cup Call \cup Prefix

(* Tokens made before the behaviour starts are named by their owner.       *)
Code == Owner \cup Call

TokenRow == [hash : Code \cup {Null}, prefix : Prefix \cup {Null}, used : BOOLEAN]
NoToken == [hash |-> Null, prefix |-> Null, used |-> FALSE]

VARIABLES
    token,      (* the row of each user in cli_tokens, if any              *)
    prefixOf,   (* the prefix each code turned out to have                 *)
    madeFor,    (* history: the user each code was made for                *)
    retired,    (* history: codes that a rotation replaced                 *)
    open,       (* sockets the gateway has not disconnected                *)
    speaksFor,  (* client.data.userId of each socket                       *)
    rooms,      (* owners of the endpoints whose rooms a socket is in      *)
    presented,  (* history: codes each socket sent                         *)
    job,        (* each call: where it is and what it has loaded           *)
    cliFaults

codeVars == <<prefixOf, madeFor, retired>>
socketVars == <<open, speaksFor, rooms, presented>>
cliVars == <<token, codeVars, socketVars, job, cliFaults>>

NoJob == [op |-> "none", at |-> "new", who |-> Null, socket |-> Null, code |-> Null,
          copy |-> NoToken, base |-> NoToken]

(* Nobody asks what a call was that is over.                               *)
Done == [NoJob EXCEPT !.at = "over"]

CliTokensInit ==
    /\ \E holders \in SUBSET Owner : \E p \in [holders -> Prefix] :
           /\ token = [u \in Owner |-> IF u \in holders
                                       THEN [hash |-> u, prefix |-> p[u], used |-> FALSE]
                                       ELSE NoToken]
           /\ prefixOf = [k \in Code |-> IF k \in holders THEN p[k] ELSE Null]
           /\ madeFor = [k \in Code |-> IF k \in holders THEN k ELSE Null]
    /\ retired = {}
    /\ open = Socket
    /\ speaksFor = [s \in Socket |-> Null]
    /\ rooms = [s \in Socket |-> {}]
    /\ presented = [s \in Socket |-> {}]
    /\ job = [c \in Call |-> NoJob]
    /\ cliFaults = 0

-----------------------------------------------------------------------------
Finish(c) == job' = [job EXCEPT ![c] = Done]

Proceed(c, where) == job' = [job EXCEPT ![c].at = where]

First(c, op, at, who, s, k, row) ==
    /\ job[c].at = "new" /\ \A d \in Call : d < c => job[d].at # "new"
    /\ job' = [job EXCEPT ![c] = [op |-> op, at |-> at, who |-> who, socket |-> s,
                                  code |-> k, copy |-> row, base |-> row]]

Is(c, op, where) == job[c].op = op /\ job[c].at = where

(* create looks for the user's token and refuses a second; rotate wants    *)
(* one, which the controller and the handler find in the same entity       *)
(* manager. Both then make a code and hash it.                             *)
Make(c, u) ==
    /\ First(c, IF token[u] = NoToken THEN "create" ELSE "rotate", "save", u, Null, c, token[u])
    /\ \E p \in Prefix : prefixOf' = [prefixOf EXCEPT ![c] = p]
    /\ madeFor' = [madeFor EXCEPT ![c] = u]
    /\ UNCHANGED <<token, retired, socketVars, cliFaults>>

(* The insert of a token: user_id is unique, so a second one fails.        *)
InsertTokenTwice(c) ==
    token' = [token EXCEPT ![job[c].who] = [hash |-> c, prefix |-> prefixOf[c], used |-> FALSE]]
InsertToken(c) ==
    IF token[job[c].who] = NoToken THEN InsertTokenTwice(c) ELSE UNCHANGED token

SaveNew(c) ==
    /\ Is(c, "create", "save")
    /\ InsertToken(c)
    /\ Finish(c)
    /\ UNCHANGED <<codeVars, socketVars, cliFaults>>

SaveRotated(c) ==
    LET u == job[c].who
        copy == [job[c].copy EXCEPT !.hash = c, !.prefix = prefixOf[c]]
    IN  /\ Is(c, "rotate", "save")
        /\ token' = [token EXCEPT ![u] = Written(@, job[c].base, copy)]
        /\ retired' = retired \cup {token[u].hash}
        /\ Finish(c)
        /\ UNCHANGED <<prefixOf, madeFor, socketVars, cliFaults>>

-----------------------------------------------------------------------------
(* The gateway answers auth.error and disconnects.                         *)
Disconnect(c, s) ==
    /\ open' = open \ {s}
    /\ rooms' = [rooms EXCEPT ![s] = {}]
    /\ UNCHANGED speaksFor

HavePrefix(p) == {u \in Owner : token[u].prefix = p}

(* auth: any one row with the prefix is taken.                             *)
Authenticate(c, s, k) ==
    LET found == HavePrefix(prefixOf[k]) IN
    /\ s \in open /\ madeFor[k] # Null
    /\ presented' = [presented EXCEPT ![s] = @ \cup {k}]
    /\ \/ /\ found = {}
          /\ First(c, "none", "over", Null, Null, Null, NoToken)
          /\ Disconnect(c, s)
       \/ /\ \E u \in found : First(c, "auth", "compare", u, s, k, token[u])
          /\ UNCHANGED <<open, rooms, speaksFor>>
    /\ UNCHANGED <<token, codeVars, cliFaults>>

(* The hash of the copy decides, however the row has changed since.        *)
ProvesByPrefix(row, k) == row.prefix = prefixOf[k]
Proves(row, k) == row.hash = k

Compare(c) ==
    LET s == job[c].socket IN
    /\ Is(c, "auth", "compare")
    /\ \/ /\ Proves(job[c].copy, job[c].code)
          /\ speaksFor' = [speaksFor EXCEPT ![s] = job[c].who]
          /\ Proceed(c, "save")
          /\ UNCHANGED <<open, rooms>>
       \/ /\ ~Proves(job[c].copy, job[c].code)
          /\ Disconnect(c, s)
          /\ Finish(c)
    /\ UNCHANGED <<token, codeVars, presented, cliFaults>>

(* markUsed, and the save of the copy: last_used_at alone has changed.     *)
SaveUsed(c) ==
    /\ Is(c, "auth", "save")
    /\ token' = [token EXCEPT ![job[c].who] =
                    Written(@, job[c].base, [job[c].copy EXCEPT !.used = TRUE])]
    /\ Proceed(c, "list")
    /\ UNCHANGED <<codeVars, socketVars, cliFaults>>

(* The endpoints of the user are listed, and sent with auth.success.       *)
ConfirmAuth(c) ==
    /\ Is(c, "auth", "list")
    /\ Finish(c)
    /\ UNCHANGED <<token, codeVars, socketVars, cliFaults>>

(* subscribe to an endpoint of w: the query is for the user the socket     *)
(* speaks for when the message arrives.                                    *)
Subscribe(c, s, w) ==
    /\ s \in open /\ speaksFor[s] # Null
    /\ IF speaksFor[s] = w THEN First(c, "subscribe", "join", w, s, Null, NoToken)
                           ELSE First(c, "none", "over", Null, Null, Null, NoToken)
    /\ UNCHANGED <<token, codeVars, socketVars, cliFaults>>

(* Once the endpoint is there its owner is compared again.                 *)
Join(c) ==
    LET s == job[c].socket IN
    /\ Is(c, "subscribe", "join")
    /\ rooms' = IF job[c].who = speaksFor[s] /\ s \in open
                THEN [rooms EXCEPT ![s] = @ \cup {job[c].who}] ELSE rooms
    /\ Finish(c)
    /\ UNCHANGED <<token, codeVars, open, speaksFor, presented, cliFaults>>

(* A query throws; a socket that was authenticating is disconnected.       *)
FailJob(c) ==
    /\ job[c].at \notin {"new", "over"}
    /\ cliFaults < MaxFaults
    /\ cliFaults' = cliFaults + 1
    /\ Finish(c)
    /\ IF job[c].op = "auth" THEN Disconnect(c, job[c].socket)
                             ELSE UNCHANGED <<open, rooms, speaksFor>>
    /\ UNCHANGED <<token, codeVars, presented>>

CliTokensNext ==
    \E c \in Call :
        \/ \E u \in Owner : Make(c, u)
        \/ \E s \in Socket, k \in Code : Authenticate(c, s, k)
        \/ \E s \in Socket, w \in Owner : Subscribe(c, s, w)
        \/ SaveNew(c) \/ SaveRotated(c) \/ Compare(c) \/ SaveUsed(c) \/ ConfirmAuth(c)
        \/ Join(c) \/ FailJob(c)

CliTokensSpec == CliTokensInit /\ [][CliTokensNext]_cliVars

-----------------------------------------------------------------------------
(* Properties.                                                             *)

CliTokensTypeOK ==
    /\ token \in [Owner -> TokenRow]
    /\ prefixOf \in [Code -> Prefix \cup {Null}]
    /\ madeFor \in [Code -> Owner \cup {Null}]
    /\ retired \subseteq Code
    /\ open \subseteq Socket
    /\ speaksFor \in [Socket -> Owner \cup {Null}]
    /\ rooms \in [Socket -> SUBSET Owner]
    /\ presented \in [Socket -> SUBSET Code]
    /\ job \in [Call -> [op : {"none", "create", "rotate", "auth", "subscribe"},
                         at : {"new", "save", "compare", "list", "join", "over"},
                         who : Owner \cup {Null}, socket : Socket \cup {Null},
                         code : Code \cup {Null}, copy : TokenRow, base : TokenRow]]
    /\ cliFaults \in 0..MaxFaults

(* A socket speaks only for users, and hears only the endpoints of users,  *)
(* a token of whose it sent, though rows are found by a prefix that other  *)
(* tokens may have, and the socket may authenticate twice.                 *)
SocketsSpeakForOwners ==
    \A s \in Socket : \A u \in rooms[s] \cup ({speaksFor[s]} \ {Null}) :
        \E k \in presented[s] : madeFor[k] = u

(* A rotated token is dead: the code a rotation replaced is never again    *)
(* the one of a row, whatever authentications and rotations were in        *)
(* flight.                                                                 *)
RetiredTokenDead == \A u \in Owner : token[u].hash \notin retired
=============================================================================
