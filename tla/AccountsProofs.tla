--------------------------- MODULE AccountsProofs ---------------------------
(***************************************************************************)
(* Proofs about Accounts for all sets of members, addresses and usernames  *)
(* and any number of calls and faults.                                     *)
(***************************************************************************)
EXTENDS Accounts, TLAPS

USE AccountsAssumption, PersistenceAssumption

-----------------------------------------------------------------------------
(* Rows and calls.                                                         *)

LEMMA NoRowType == NoRow \in Row
BY DEF NoRow, Row, UserColumn, SettingsColumn

LEMMA RowColumns ==
  ASSUME NEW r \in Row
  PROVE  DOMAIN r = {"email", "username", "password", "token", "channels", "alertEmail"}
BY DEF Row

(* A flush keeps the shape of a row.                                       *)
LEMMA FlushedRow ==
  ASSUME NEW r \in Row, NEW b \in Row, NEW k \in Row
  PROVE  /\ Written(r, b, k) \in Row
         /\ Written(r, b, k).token = IF k.token = b.token THEN r.token ELSE k.token
BY DEF Written, Row

LEMMA InsertedRow ==
  ASSUME NEW r \in Row, NEW i \in Id, NEW e \in Email
  PROVE  WithUser(r, i, e) \in Row /\ WithUser(r, i, e).token = r.token
BY DEF WithUser, Row

LEMMA FurnishedRow ==
  ASSUME NEW r \in Row, NEW i \in Id
  PROVE  WithSettings(r, i) \in Row /\ WithSettings(r, i).token = r.token
BY DEF WithSettings, Row

LEMMA NoCallType == NoCall \in CallRecord
BY NoRowType DEF NoCall, CallRecord

LEMMA OutcomeType ==
  ASSUME NEW op \in {"none", "register", "login", "forgot", "reset", "change", "update", "patch"},
         NEW key \in Id \cup {Null}, NEW result \in Over,
         NEW k, k = Outcome(op, key, result)
  PROVE  /\ k \in CallRecord /\ k.copy = NoRow /\ k.base = NoRow /\ k.at = result
         /\ k.op = (IF result = "ok" THEN op ELSE "none")
         /\ k.key = (IF result = "ok" THEN key ELSE Null)
<1>1. CASE result = "ok"
  BY <1>1, NoCallType DEF Outcome, NoCall, CallRecord, Over
<1>2. CASE result # "ok"
  BY <1>2, NoCallType DEF Outcome, NoCall, CallRecord, Over
<1> QED BY <1>1, <1>2

(* A step is one call's: the others stay where they are.                   *)
OthersStay(c) == \A d \in Call : d # c => call'[d] = call[d]

LEMMA AnswerFacts ==
  ASSUME call \in [Call -> CallRecord], NEW c \in Call,
         NEW op \in {"login", "forgot", "reset", "change", "patch"}, NEW result \in Over,
         Answer(c, op, result)
  PROVE  /\ call' \in [Call -> CallRecord] /\ OthersStay(c)
         /\ call'[c].copy = NoRow /\ call'[c].base = NoRow /\ call'[c].at = result
         /\ call'[c].op \in {op, "none"} /\ call'[c].key = Null
         /\ result = "refused" => call'[c].op = "none"
<1>1. Outcome(op, Null, result) \in CallRecord
  BY OutcomeType
<1> QED BY <1>1, OutcomeType DEF Answer, OthersStay

LEMMA EndFacts ==
  ASSUME call \in [Call -> CallRecord], NEW c \in Call, NEW result \in Over, End(c, result)
  PROVE  /\ call' \in [Call -> CallRecord] /\ OthersStay(c)
         /\ call'[c].copy = NoRow /\ call'[c].base = NoRow /\ call'[c].at = result
         /\ call'[c].op = (IF result = "ok" THEN call[c].op ELSE "none")
         /\ call'[c].key = (IF result = "ok" THEN call[c].key ELSE Null)
<1>0. /\ call[c].op \in {"none", "register", "login", "forgot", "reset", "change", "update", "patch"}
      /\ call[c].key \in Id \cup {Null}
  BY DEF CallRecord
<1>1. Outcome(call[c].op, call[c].key, result) \in CallRecord
  BY <1>0, OutcomeType
<1>2. /\ call' = [call EXCEPT ![c] = Outcome(call[c].op, call[c].key, result)]
      /\ call'[c] = Outcome(call[c].op, call[c].key, result)
  BY DEF End
<1>3. call' \in [Call -> CallRecord] /\ OthersStay(c)
  BY <1>1, <1>2 DEF OthersStay
<1> QED BY <1>0, <1>2, <1>3, OutcomeType

LEMMA GotoFacts ==
  ASSUME call \in [Call -> CallRecord], NEW c \in Call,
         NEW where \in {"directory", "save", "mail"}, Goto(c, where)
  PROVE  /\ call' \in [Call -> CallRecord] /\ OthersStay(c)
         /\ call'[c].at = where /\ call'[c].op = call[c].op /\ call'[c].key = call[c].key
         /\ call'[c].who = call[c].who
         /\ call'[c].copy = call[c].copy /\ call'[c].base = call[c].base
BY DEF Goto, CallRecord, OthersStay

(* What a query that meets the loaded row may do to the base.              *)
LEMMA RereadFacts ==
  ASSUME call \in [Call -> CallRecord], user \in [Id -> Row], NEW c \in Call,
         call[c].who \in Id, NEW columns, Reread(c, columns)
  PROVE  /\ call' \in [Call -> CallRecord] /\ OthersStay(c)
         /\ call'[c].at = "save" /\ call'[c].op = call[c].op /\ call'[c].key = call[c].key
         /\ call'[c].who = call[c].who /\ call'[c].copy = call[c].copy
         /\ call'[c].base.token \in {call[c].base.token, user[call[c].who].token}
<1>1. CASE Goto(c, "save")
  BY <1>1, GotoFacts
<1>2. CASE ~Goto(c, "save")
  <2> DEFINE base == call[c].base
             now == Refreshed(base, user[call[c].who])
             fresh == [k \in DOMAIN base |-> IF k \in columns THEN now[k] ELSE base[k]]
  <2>0. base \in Row /\ user[call[c].who] \in Row
    BY DEF CallRecord
  <2>1. call' = [call EXCEPT ![c].at = "save", ![c].base = fresh]
    BY <1>2 DEF Reread
  <2>2. now \in Row /\ now.token \in {base.token, user[call[c].who].token}
    BY <2>0 DEF Refreshed, Row
  <2>3. fresh \in Row /\ fresh.token \in {base.token, user[call[c].who].token}
    <3> HIDE DEF now, base
    <3> QED BY <2>0, <2>2 DEF Row, base
  <2> HIDE DEF fresh
  <2>4. /\ call'[c] = [call[c] EXCEPT !.at = "save", !.base = fresh]
        /\ OthersStay(c)
    BY <2>1 DEF OthersStay
  <2> HIDE DEF now, base
  <2>5. call'[c] \in CallRecord
    <3>1. call[c] \in CallRecord
      OBVIOUS
    <3> QED BY <2>3, <2>4, <3>1 DEF CallRecord
  <2>6. call' \in [Call -> CallRecord]
    BY <2>1, <2>5
  <2> QED BY <2>3, <2>4, <2>6 DEF CallRecord, base
<1> QED BY <1>1, <1>2

-----------------------------------------------------------------------------
(* The inductive invariant, beside the types. A call that has not arrived  *)
(* has no account; one that is to save works on an account with a row; a   *)
(* reset that is to save has the token of its key in its copy.             *)

CallsSound ==
    \A c \in Call :
        /\ call[c].at = "new" => c \notin users
        /\ At(c, "register", "settings") => c \in users \ settings
        /\ At(c, "register", "directory") => c \in settings
        /\ call[c].at \in {"check", "reread", "save"} => call[c].who \in users
        /\ call[c].at = "save" => call[c].op # "register"
        /\ At(c, "reset", "save") => call[c].key # Null /\ call[c].copy.token = call[c].key
        /\ At(c, "reset", "ok") => call[c].key # Null

(* Two accounts never have the same token, in their rows or in what any    *)
(* call has loaded of them, and the token of a call that is yet to save it *)
(* is nowhere.                                                             *)
Holds(u, t) ==
    \/ user[u].token = t
    \/ \E c \in Call : call[c].who = u /\ t \in {call[c].copy.token, call[c].base.token}

TokensApart == \A u, v, t \in Id : Holds(u, t) /\ Holds(v, t) => u = v

Unissued(c) == call[c].at = "new" \/ At(c, "forgot", "save")

TokensFresh ==
    \A c \in Call : Unissued(c) =>
        /\ \A u \in Id : ~Holds(u, c)
        /\ \A d \in Call : call[d].op = "reset" => call[d].key # c

AccountsSound == CallsSound /\ RegistrationComplete /\ TokensApart /\ TokensFresh

(* What the steps that change no account leave of the call.                *)
Reads(c) ==
    /\ UNCHANGED <<users, user, settings, directories>> /\ accountFaults' \in 0..MaxFaults
    /\ call' \in [Call -> CallRecord] /\ OthersStay(c)
    /\ call'[c].at \notin {"new", "settings", "directory"}
    /\ call'[c].at = "ok" => call'[c].op \notin {"register", "reset"}
    /\ call'[c].at \in {"check", "reread", "save"} => call'[c].who \in users
    /\ call'[c].at = "save" => call'[c].op # "register"
    /\ call'[c].op = "reset" => \/ call'[c].key = Null
                                \/ \E v \in Id : Holds(v, call'[c].key)
    /\ At(c, "reset", "save")' => call'[c].key # Null /\ call'[c].copy.token = call'[c].key
    /\ \A t \in {call'[c].copy.token, call'[c].base.token} : t = Null \/ Holds(call'[c].who, t)
    /\ Unissued(c)' => Unissued(c)

LEMMA ReadingTypes ==
  ASSUME AccountsTypeOK, NEW c \in Call, Reads(c)
  PROVE  AccountsTypeOK'
BY DEF AccountsTypeOK, Reads

LEMMA ReadingCalls ==
  ASSUME AccountsTypeOK, CallsSound, RegistrationComplete, NEW c \in Call, Reads(c)
  PROVE  CallsSound' /\ RegistrationComplete'
<1>1. UNCHANGED <<users, settings, directories>>
  BY DEF Reads
<1>2. ASSUME NEW d \in Call, d # c
      PROVE  call'[d] = call[d]
  BY <1>2 DEF Reads, OthersStay
<1>3. RegistrationComplete'
  BY <1>1, <1>2 DEF Reads, RegistrationComplete, At
<1>4. CallsSound'
  <2> SUFFICES ASSUME NEW d \in Call
               PROVE  /\ call'[d].at = "new" => d \notin users
                      /\ At(d, "register", "settings")' => d \in users \ settings
                      /\ At(d, "register", "directory")' => d \in settings
                      /\ call'[d].at \in {"check", "reread", "save"} => call'[d].who \in users
                      /\ call'[d].at = "save" => call'[d].op # "register"
                      /\ At(d, "reset", "save")' =>
                            call'[d].key # Null /\ call'[d].copy.token = call'[d].key
                      /\ At(d, "reset", "ok")' => call'[d].key # Null
    BY <1>1 DEF CallsSound
  <2>1. CASE d = c
    BY <2>1 DEF Reads, At
  <2>2. CASE d # c
    BY <2>2, <1>2 DEF CallsSound, At
  <2> QED BY <2>1, <2>2
<1> QED BY <1>3, <1>4

(* If nobody comes to hold another token, tokens stay apart.               *)
LEMMA TokensKept ==
  ASSUME TokensApart, TokensFresh,
         \A v, t \in Id : Holds(v, t)' => Holds(v, t),
         \A d \in Call : Unissued(d)' => Unissued(d),
         \A d \in Call : call'[d].op = "reset" =>
             \/ call'[d].key = Null
             \/ \E v \in Id : Holds(v, call'[d].key)
             \/ call[d].op = "reset" /\ call[d].key = call'[d].key
  PROVE  TokensApart' /\ TokensFresh'
<1>1. TokensApart'
  BY DEF TokensApart
<1>2. TokensFresh'
  <2> SUFFICES ASSUME NEW c \in Call, Unissued(c)'
               PROVE  /\ \A u \in Id : ~Holds(u, c)'
                      /\ \A d \in Call : call'[d].op = "reset" => call'[d].key # c
    BY DEF TokensFresh
  <2>1. /\ \A u \in Id : ~Holds(u, c)
        /\ \A d \in Call : call[d].op = "reset" => call[d].key # c
    BY DEF TokensFresh
  <2>2. c \in Id /\ c # Null
    BY DEF Id
  <2> QED BY <2>1, <2>2
<1> QED BY <1>1, <1>2

LEMMA QuietTokens ==
  ASSUME AccountsTypeOK, TokensApart, TokensFresh, NEW c \in Call, OthersStay(c),
         \A v \in Id : user'[v].token = user[v].token,
         \A t \in {call'[c].copy.token, call'[c].base.token} : t = Null \/ Holds(call'[c].who, t),
         Unissued(c)' => Unissued(c),
         call'[c].op = "reset" => call'[c].key = Null \/ \E v \in Id : Holds(v, call'[c].key)
  PROVE  TokensApart' /\ TokensFresh'
<1>1. ASSUME NEW d \in Call, d # c
      PROVE  call'[d] = call[d]
  BY <1>1 DEF OthersStay
<1>2. ASSUME NEW v \in Id, NEW t \in Id, Holds(v, t)'
      PROVE  Holds(v, t)
  <2>1. Null \notin Id
    BY DEF Id
  <2>2. CASE user'[v].token = t
    BY <2>2 DEF Holds
  <2>3. ASSUME NEW d \in Call, call'[d].who = v, t \in {call'[d].copy.token, call'[d].base.token}
        PROVE  Holds(v, t)
    <3>1. CASE d = c
      BY <3>1, <2>1, <2>3
    <3>2. CASE d # c
      BY <3>2, <2>3, <1>1 DEF Holds
    <3> QED BY <3>1, <3>2
  <2> QED BY <1>2, <2>2, <2>3 DEF Holds
<1>3. ASSUME NEW d \in Call
      PROVE  Unissued(d)' => Unissued(d)
  BY <1>1 DEF Unissued, At
<1>4. ASSUME NEW d \in Call, call'[d].op = "reset"
      PROVE  \/ call'[d].key = Null
             \/ \E v \in Id : Holds(v, call'[d].key)
             \/ call[d].op = "reset" /\ call[d].key = call'[d].key
  <2>1. CASE d = c
    BY <1>4, <2>1
  <2>2. CASE d # c
    BY <1>1, <1>4, <2>2
  <2> QED BY <2>1, <2>2
<1> QED BY <1>2, <1>3, <1>4, TokensKept

LEMMA ReadingTokens ==
  ASSUME AccountsTypeOK, TokensApart, TokensFresh, NEW c \in Call, Reads(c)
  PROVE  TokensApart' /\ TokensFresh'
<1>1. \A v \in Id : user'[v].token = user[v].token
  BY DEF Reads
<1>2. /\ OthersStay(c) /\ (Unissued(c)' => Unissued(c))
      /\ \A t \in {call'[c].copy.token, call'[c].base.token} : t = Null \/ Holds(call'[c].who, t)
      /\ call'[c].op = "reset" => call'[c].key = Null \/ \E v \in Id : Holds(v, call'[c].key)
  BY DEF Reads
<1> QED BY <1>1, <1>2, QuietTokens

LEMMA ReadingSound ==
  ASSUME AccountsTypeOK, AccountsSound, NEW c \in Call, Reads(c)
  PROVE  AccountsTypeOK' /\ AccountsSound' /\ Spent' \subseteq Spent
<1>1. Spent' \subseteq Spent
  <2>1. ASSUME NEW d \in Call, At(d, "reset", "ok")'
        PROVE  call'[d] = call[d]
    BY <2>1 DEF Reads, OthersStay, At
  <2> QED BY <2>1 DEF Spent, At
<1> QED BY <1>1, ReadingTypes, ReadingCalls, ReadingTokens DEF AccountsSound

-----------------------------------------------------------------------------
(* The steps that change no account.                                       *)

LEMMA LoadReads ==
  ASSUME AccountsTypeOK, NEW c \in Call,
         NEW op \in {"forgot", "reset", "change", "update", "patch"},
         NEW key \in Id \cup {Null}, NEW val \in Id \cup Handle \cup {Null},
         NEW column \in SettingsColumn \cup {Null}, NEW u \in users,
         NEW next \in {"check", "reread", "save"},
         call[c].at = "new", Load(c, op, key, val, column, u, next),
         op = "reset" => user[u].token = key /\ key # Null,
         UNCHANGED <<users, user, settings, directories, accountFaults>>
  PROVE  Reads(c)
<1>1. u \in Id /\ call \in [Call -> CallRecord] /\ user \in [Id -> Row] /\ accountFaults \in 0..MaxFaults
  BY DEF AccountsTypeOK
<1>2. /\ call' \in [Call -> CallRecord] /\ OthersStay(c)
      /\ call'[c].op = op /\ call'[c].at = next /\ call'[c].key = key /\ call'[c].who = u
      /\ call'[c].copy = user[u] /\ call'[c].base = user[u]
  BY <1>1 DEF Load, CallRecord, OthersStay
<1>3. Holds(u, user[u].token)
  BY DEF Holds
<1> QED BY <1>1, <1>2, <1>3 DEF Reads, At, Unissued

LEMMA AnswerReads ==
  ASSUME AccountsTypeOK, NEW c \in Call,
         NEW op \in {"login", "forgot", "reset", "change", "patch"}, NEW result \in Over,
         Answer(c, op, result), op = "reset" => result = "refused",
         UNCHANGED <<users, user, settings, directories, accountFaults>>
  PROVE  Reads(c)
<1>1. call \in [Call -> CallRecord] /\ accountFaults \in 0..MaxFaults
  BY DEF AccountsTypeOK
<1>2. /\ call' \in [Call -> CallRecord] /\ OthersStay(c)
      /\ call'[c].copy = NoRow /\ call'[c].base = NoRow /\ call'[c].at = result
      /\ call'[c].op \in {op, "none"} /\ call'[c].key = Null
      /\ result = "refused" => call'[c].op = "none"
  BY <1>1, AnswerFacts
<1>3. NoRow.token = Null
  BY DEF NoRow, UserColumn
<1> QED BY <1>1, <1>2, <1>3 DEF Reads, At, Unissued, Over

(* A call that is over, or failed, without an insert or a save.            *)
LEMMA EndReads ==
  ASSUME AccountsTypeOK, NEW c \in Call, NEW result \in Over, End(c, result),
         result = "ok" => call[c].op = "forgot",
         UNCHANGED <<users, user, settings, directories>>, accountFaults' \in 0..MaxFaults
  PROVE  Reads(c)
<1>1. call \in [Call -> CallRecord]
  BY DEF AccountsTypeOK
<1>2. /\ call' \in [Call -> CallRecord] /\ OthersStay(c)
      /\ call'[c].copy = NoRow /\ call'[c].base = NoRow /\ call'[c].at = result
      /\ call'[c].op = (IF result = "ok" THEN call[c].op ELSE "none")
      /\ call'[c].key = (IF result = "ok" THEN call[c].key ELSE Null)
  BY <1>1, EndFacts
<1>3. NoRow.token = Null
  BY DEF NoRow, UserColumn
<1> QED BY <1>1, <1>2, <1>3 DEF Reads, At, Unissued, Over

LEMMA CheckReads ==
  ASSUME AccountsTypeOK, CallsSound, NEW c \in Call,
         CheckUsername(c) \/ RereadSettings(c)
  PROVE  Reads(c)
<1>1. /\ call \in [Call -> CallRecord] /\ user \in [Id -> Row] /\ users \subseteq Id
      /\ accountFaults \in 0..MaxFaults
  BY DEF AccountsTypeOK
<1>2. /\ call[c].op \in {"update", "patch"} /\ call[c].at \in {"check", "reread"}
      /\ UNCHANGED <<users, user, settings, directories, accountFaults>>
  BY DEF CheckUsername, RereadSettings, At
<1>3. call[c].who \in users
  BY <1>2 DEF CallsSound
<1>4. CASE End(c, "refused")
  BY <1>1, <1>2, <1>4, EndReads DEF Over
<1>5. CASE Goto(c, "save") \/ \E columns \in {UserColumn, SettingsColumn} : Reread(c, columns)
  <2>1. /\ call' \in [Call -> CallRecord] /\ OthersStay(c)
        /\ call'[c].at = "save" /\ call'[c].op = call[c].op
        /\ call'[c].who = call[c].who /\ call'[c].copy = call[c].copy
        /\ call'[c].base.token \in {call[c].base.token, user[call[c].who].token}
    BY <1>1, <1>3, <1>5, GotoFacts, RereadFacts
  <2>2. Holds(call[c].who, call[c].copy.token) /\ Holds(call[c].who, call'[c].base.token)
    BY <2>1 DEF Holds
  <2> QED BY <1>1, <1>2, <1>3, <2>1, <2>2 DEF Reads, At, Unissued
<1> QED BY <1>4, <1>5 DEF CheckUsername, RereadSettings

LEMMA RequestReads ==
  ASSUME AccountsTypeOK, NEW c \in Call, Request(c)
  PROVE  Reads(c) \/ \E e \in Email : InsertUser(c, e)
<1>1. /\ user \in [Id -> Row] /\ users \subseteq Id /\ call[c].at = "new"
      /\ Null \notin Id
  BY DEF AccountsTypeOK, Request, Arrives, Id
<1>2. ASSUME NEW e, LoadByEmail(c, e) PROVE Reads(c)
  BY <1>1, <1>2, LoadReads, AnswerReads DEF LoadByEmail, WithEmail, Over
<1>3. ASSUME NEW e, NEW p, Login(c, e, p) PROVE Reads(c)
  BY <1>3, AnswerReads DEF Login, Over
<1>4. ASSUME NEW t \in Id, LoadByToken(c, t) PROVE Reads(c)
  BY <1>1, <1>4, LoadReads, AnswerReads DEF LoadByToken, Over
<1>5. ASSUME NEW u \in users, NEW p, LoadAndCompare(c, u, p) PROVE Reads(c)
  BY <1>1, <1>5, LoadReads, AnswerReads DEF LoadAndCompare, Over
<1>6. ASSUME NEW u \in users, NEW n \in Handle \cup {Null, user[u].username}, LoadProfile(c, u, n)
      PROVE  Reads(c)
  <2>1. user[u].username \in Id \cup Handle \cup {Null}
    BY <1>1 DEF Row
  <2> QED BY <1>1, <1>6, <2>1, LoadReads DEF LoadProfile
<1>7. ASSUME NEW u \in users, NEW k \in SettingsColumn, LoadSettings(c, u, k) PROVE Reads(c)
  BY <1>1, <1>7, LoadReads, AnswerReads DEF LoadSettings, Over
<1> QED BY <1>2, <1>3, <1>4, <1>5, <1>6, <1>7 DEF Request, PublicRequest, SignedRequest, SettingsRequest, CurrentUser

LEMMA OtherReads ==
  ASSUME AccountsTypeOK, NEW c \in Call, QueueResetLink(c) \/ FailCall(c)
  PROVE  Reads(c)
<1>1. accountFaults \in 0..MaxFaults
  BY DEF AccountsTypeOK
<1>2. CASE QueueResetLink(c)
  BY <1>1, <1>2, EndReads DEF QueueResetLink, At, Over
<1>3. CASE FailCall(c)
  BY <1>1, <1>3, EndReads DEF FailCall, Breaks, Over
<1> QED BY <1>2, <1>3

-----------------------------------------------------------------------------
(* The inserts of a registration.                                          *)

LEMMA InsertUserSound ==
  ASSUME AccountsTypeOK, AccountsSound, NEW c \in Call, NEW e \in Email,
         call[c].at = "new", InsertUser(c, e)
  PROVE  AccountsTypeOK' /\ AccountsSound' /\ Spent' \subseteq Spent
<1>1. /\ call \in [Call -> CallRecord] /\ user \in [Id -> Row] /\ c \in Id
      /\ users \subseteq Id /\ settings \subseteq users /\ directories \subseteq settings
      /\ \A i \in Id : i \notin users => user[i] = NoRow
  BY DEF AccountsTypeOK, Id
<1>2. /\ call' \in [Call -> CallRecord] /\ OthersStay(c)
      /\ call'[c].op = "register" /\ call'[c].at = "settings" /\ call'[c].key = Null
      /\ call'[c].copy = NoRow /\ call'[c].base = NoRow
  BY <1>1, NoCallType DEF InsertUser, OthersStay, NoCall, CallRecord
<1>3. /\ user' \in [Id -> Row]
      /\ \A v \in Id : user'[v].token = user[v].token
      /\ \A v \in Id : v # c => user'[v] = user[v]
  BY <1>1, InsertedRow DEF InsertUser
<1>4. /\ users' = users \cup {c} /\ UNCHANGED <<settings, directories, accountFaults>>
      /\ c \notin users
  BY DEF InsertUser, AccountsSound, CallsSound
<1>5. AccountsTypeOK'
  <2>1. \A i \in Id : i \notin users' => user'[i] = NoRow
    BY <1>1, <1>3, <1>4
  <2> QED BY <1>1, <1>2, <1>3, <1>4, <2>1 DEF AccountsTypeOK
<1>6. ASSUME NEW d \in Call, d # c
      PROVE  call'[d] = call[d]
  BY <1>2, <1>6 DEF OthersStay
<1>7. CallsSound'
  <2> SUFFICES ASSUME NEW d \in Call
               PROVE  /\ call'[d].at = "new" => d \notin users'
                      /\ At(d, "register", "settings")' => d \in users' \ settings
                      /\ At(d, "register", "directory")' => d \in settings
                      /\ call'[d].at \in {"check", "reread", "save"} => call'[d].who \in users'
                      /\ call'[d].at = "save" => call'[d].op # "register"
                      /\ At(d, "reset", "save")' =>
                            call'[d].key # Null /\ call'[d].copy.token = call'[d].key
                      /\ At(d, "reset", "ok")' => call'[d].key # Null
    BY <1>4 DEF CallsSound
  <2>1. CASE d = c
    BY <1>1, <1>2, <1>4, <2>1 DEF At
  <2>2. CASE d # c
    BY <2>2, <1>4, <1>6 DEF AccountsSound, CallsSound, At
  <2> QED BY <2>1, <2>2
<1>8. RegistrationComplete'
  BY <1>2, <1>4, <1>6 DEF AccountsSound, RegistrationComplete, At
<1>9. TokensApart' /\ TokensFresh'
  <2>1. NoRow.token = Null
    BY DEF NoRow, UserColumn
  <2> QED BY <1>2, <1>3, <2>1, QuietTokens DEF AccountsSound, Unissued, At
<1>10. Spent' \subseteq Spent
  <2>1. ASSUME NEW d \in Call, At(d, "reset", "ok")' PROVE call'[d] = call[d]
    BY <1>2, <1>6, <2>1 DEF At
  <2> QED BY <2>1 DEF Spent, At
<1> QED BY <1>5, <1>7, <1>8, <1>9, <1>10 DEF AccountsSound

LEMMA InsertSettingsSound ==
  ASSUME AccountsTypeOK, AccountsSound, NEW c \in Call, InsertSettings(c)
  PROVE  AccountsTypeOK' /\ AccountsSound' /\ Spent' \subseteq Spent
<1>1. /\ call \in [Call -> CallRecord] /\ user \in [Id -> Row] /\ c \in Id
      /\ users \subseteq Id /\ settings \subseteq users /\ directories \subseteq settings
      /\ \A i \in Id : i \notin users => user[i] = NoRow
  BY DEF AccountsTypeOK, Id
<1>2. /\ call' \in [Call -> CallRecord] /\ OthersStay(c)
      /\ call'[c].at = "directory" /\ call'[c].op = "register" /\ call'[c].key = call[c].key
      /\ call'[c].who = call[c].who
      /\ call'[c].copy = call[c].copy /\ call'[c].base = call[c].base
  BY <1>1, GotoFacts DEF InsertSettings, At
<1>3. /\ user' \in [Id -> Row]
      /\ \A v \in Id : user'[v].token = user[v].token
      /\ \A v \in Id : v # c => user'[v] = user[v]
  BY <1>1, FurnishedRow DEF InsertSettings
<1>4. /\ settings' = settings \cup {c} /\ UNCHANGED <<users, directories, accountFaults>>
      /\ c \in users
  BY DEF InsertSettings, AccountsSound, CallsSound
<1>5. AccountsTypeOK'
  <2>1. \A i \in Id : i \notin users' => user'[i] = NoRow
    BY <1>1, <1>3, <1>4
  <2> QED BY <1>1, <1>2, <1>3, <1>4, <2>1 DEF AccountsTypeOK
<1>6. ASSUME NEW d \in Call, d # c
      PROVE  call'[d] = call[d]
  BY <1>2, <1>6 DEF OthersStay
<1>7. CallsSound'
  <2> SUFFICES ASSUME NEW d \in Call
               PROVE  /\ call'[d].at = "new" => d \notin users
                      /\ At(d, "register", "settings")' => d \in users \ settings'
                      /\ At(d, "register", "directory")' => d \in settings'
                      /\ call'[d].at \in {"check", "reread", "save"} => call'[d].who \in users
                      /\ call'[d].at = "save" => call'[d].op # "register"
                      /\ At(d, "reset", "save")' =>
                            call'[d].key # Null /\ call'[d].copy.token = call'[d].key
                      /\ At(d, "reset", "ok")' => call'[d].key # Null
    BY <1>4 DEF CallsSound
  <2>1. CASE d = c
    BY <1>2, <1>4, <2>1 DEF At
  <2>2. CASE d # c
    BY <2>2, <1>4, <1>6 DEF AccountsSound, CallsSound, At
  <2> QED BY <2>1, <2>2
<1>8. RegistrationComplete'
  BY <1>2, <1>4, <1>6 DEF AccountsSound, RegistrationComplete, At
<1>9. TokensApart' /\ TokensFresh'
  <2>1. /\ Holds(call'[c].who, call'[c].copy.token)
        /\ Holds(call'[c].who, call'[c].base.token)
    BY <1>2 DEF Holds
  <2> QED BY <1>2, <1>3, <2>1, QuietTokens DEF AccountsSound, Unissued, At
<1>10. Spent' \subseteq Spent
  <2>1. ASSUME NEW d \in Call, At(d, "reset", "ok")' PROVE call'[d] = call[d]
    BY <1>2, <1>6, <2>1 DEF At
  <2> QED BY <2>1 DEF Spent, At
<1> QED BY <1>5, <1>7, <1>8, <1>9, <1>10 DEF AccountsSound

LEMMA InsertDirectorySound ==
  ASSUME AccountsTypeOK, AccountsSound, NEW c \in Call, InsertDirectory(c)
  PROVE  AccountsTypeOK' /\ AccountsSound' /\ Spent' \subseteq Spent
<1>1. /\ call \in [Call -> CallRecord]
      /\ settings \subseteq users /\ directories \subseteq settings
  BY DEF AccountsTypeOK
<1>2. /\ call' \in [Call -> CallRecord] /\ OthersStay(c)
      /\ call'[c].copy = NoRow /\ call'[c].base = NoRow
      /\ call'[c].at = "ok" /\ call'[c].op = "register"
  BY <1>1, EndFacts DEF InsertDirectory, WithDefaultDirectory, At, Over
<1>4. /\ directories' = directories \cup {c} /\ UNCHANGED <<users, user, settings, accountFaults>>
      /\ c \in settings
  BY DEF InsertDirectory, WithDefaultDirectory, AccountsSound, CallsSound
<1>5. AccountsTypeOK'
  BY <1>1, <1>2, <1>4 DEF AccountsTypeOK
<1>6. ASSUME NEW d \in Call, d # c
      PROVE  call'[d] = call[d]
  BY <1>2, <1>6 DEF OthersStay
<1>7. CallsSound'
  <2> SUFFICES ASSUME NEW d \in Call
               PROVE  /\ call'[d].at = "new" => d \notin users
                      /\ At(d, "register", "settings")' => d \in users \ settings
                      /\ At(d, "register", "directory")' => d \in settings
                      /\ call'[d].at \in {"check", "reread", "save"} => call'[d].who \in users
                      /\ call'[d].at = "save" => call'[d].op # "register"
                      /\ At(d, "reset", "save")' =>
                            call'[d].key # Null /\ call'[d].copy.token = call'[d].key
                      /\ At(d, "reset", "ok")' => call'[d].key # Null
    BY <1>4 DEF CallsSound
  <2>1. CASE d = c
    BY <1>2, <2>1 DEF At
  <2>2. CASE d # c
    BY <2>2, <1>6 DEF AccountsSound, CallsSound, At
  <2> QED BY <2>1, <2>2
<1>8. RegistrationComplete'
  BY <1>1, <1>2, <1>4, <1>6 DEF AccountsSound, RegistrationComplete, At
<1>9. TokensApart' /\ TokensFresh'
  <2>1. NoRow.token = Null
    BY DEF NoRow, UserColumn
  <2> QED BY <1>2, <1>4, <2>1, QuietTokens DEF AccountsSound, Unissued, At
<1>10. Spent' \subseteq Spent
  <2>1. ASSUME NEW d \in Call, At(d, "reset", "ok")' PROVE call'[d] = call[d]
    BY <1>2, <1>6, <2>1 DEF At
  <2> QED BY <2>1 DEF Spent, At
<1> QED BY <1>5, <1>7, <1>8, <1>9, <1>10 DEF AccountsSound

-----------------------------------------------------------------------------
(* The save.                                                               *)

LEMMA ChangedRow ==
  ASSUME AccountsTypeOK, NEW c \in Call
  PROVE  /\ Changed(c) \in Row
         /\ Changed(c).token = IF "token" \in Asked(c) THEN NewValue(c, "token") ELSE call[c].copy.token
         /\ \A k \in DOMAIN NoRow \ Asked(c) : Changed(c)[k] = call[c].copy[k]
<1>1. call[c] \in CallRecord /\ call[c].copy \in Row /\ c \in Id
  BY DEF AccountsTypeOK, CallRecord, Id
<1>2. DOMAIN NoRow = {"email", "username", "password", "token", "channels", "alertEmail"}
  BY NoRowType, RowColumns
<1>3. /\ NewValue(c, "username") \in Id \cup Handle \cup {Null}
      /\ \A k \in {"password", "token", "channels", "alertEmail"} : NewValue(c, k) \in Id \cup {Null}
  BY <1>1 DEF NewValue, CallRecord
<1>4. "email" \notin Asked(c)
  BY <1>1 DEF Asked, CallRecord, SettingsColumn
<1>5. Changed(c) = [k \in DOMAIN NoRow |->
                       IF k \in Asked(c) THEN NewValue(c, k) ELSE call[c].copy[k]]
  BY DEF Changed
<1> QED BY <1>1, <1>2, <1>3, <1>4, <1>5 DEF Row

(* What becomes of the token of the account, and of the other columns.     *)
LEMMA SaveFacts ==
  ASSUME AccountsTypeOK, CallsSound, NEW c \in Call, SaveUser(c), NEW u, u = call[c].who
  PROVE  /\ u \in users /\ u \in Id
         /\ user' \in [Id -> Row]
         /\ \A v \in Id : v # u => user'[v] = user[v]
         /\ user'[u].token \in {user[u].token, Null, call[c].copy.token}
               \cup (IF At(c, "forgot", "save") THEN {c} ELSE {})
         /\ \A k \in DOMAIN user[u] : user'[u][k] # user[u][k] =>
               k \in Asked(c) \/ call[c].base[k] # call[c].copy[k]
         /\ call[c].op = "reset" /\ call[c].base = call[c].copy => user'[u].token = Null
         /\ call[c].base = call[c].copy /\ call[c].op # "reset" =>
               \/ user'[u].token = user[u].token
               \/ At(c, "forgot", "save") /\ user'[u].token = c
<1>1. /\ call[c].at = "save" /\ u \in users /\ users \subseteq Id /\ u \in Id
      /\ user \in [Id -> Row]
  BY DEF SaveUser, SaveAccount, SaveSettings, Save, CallsSound, AccountsTypeOK
<1>2. /\ call[c] \in CallRecord /\ call[c].copy \in Row /\ call[c].base \in Row
      /\ Changed(c) \in Row /\ user[u] \in Row
  BY <1>1, ChangedRow DEF AccountsTypeOK, CallRecord
<1>3. user' = [user EXCEPT ![u] = Written(user[u], call[c].base, Changed(c))]
  BY DEF SaveUser, SaveAccount, SaveSettings, Save
<1>4. /\ user' \in [Id -> Row] /\ user'[u] = Written(user[u], call[c].base, Changed(c))
      /\ \A v \in Id : v # u => user'[v] = user[v]
      /\ user'[u].token = IF Changed(c).token = call[c].base.token THEN user[u].token
                                                                    ELSE Changed(c).token
  BY <1>1, <1>2, <1>3, FlushedRow
<1>5. "token" \in Asked(c) <=> call[c].op \in {"forgot", "reset"}
  BY <1>2 DEF Asked, CallRecord, SettingsColumn
<1>6. NewValue(c, "token") = IF call[c].op = "reset" THEN Null ELSE c
  BY <1>1 DEF NewValue
<1>7. ASSUME NEW k \in DOMAIN user[u], user'[u][k] # user[u][k], k \notin Asked(c)
      PROVE  call[c].base[k] # call[c].copy[k]
  <2>1. /\ DOMAIN NoRow = {"email", "username", "password", "token", "channels", "alertEmail"}
        /\ DOMAIN user[u] = {"email", "username", "password", "token", "channels", "alertEmail"}
    BY <1>2, NoRowType, RowColumns
  <2>2. user'[u][k] = IF Changed(c)[k] = call[c].base[k] THEN user[u][k] ELSE Changed(c)[k]
    BY <1>4 DEF Written
  <2>3. Changed(c)[k] = call[c].copy[k]
    BY <1>7, <2>1, ChangedRow
  <2> QED BY <1>7, <2>2, <2>3
<1>8. Changed(c).token = IF call[c].op \in {"forgot", "reset"}
                         THEN IF call[c].op = "reset" THEN Null ELSE c
                         ELSE call[c].copy.token
  BY <1>5, <1>6, ChangedRow
<1>9. ASSUME call[c].op = "reset", call[c].base = call[c].copy
      PROVE  user'[u].token = Null
  <2>1. call[c].copy.token # Null
    BY <1>1, <1>9 DEF CallsSound, At
  <2> QED BY <1>4, <1>8, <1>9, <2>1
<1>10. user'[u].token \in {user[u].token, Null, call[c].copy.token}
               \cup (IF At(c, "forgot", "save") THEN {c} ELSE {})
  BY <1>1, <1>4, <1>8 DEF At
<1>11. ASSUME call[c].base = call[c].copy, call[c].op # "reset"
       PROVE  \/ user'[u].token = user[u].token
              \/ At(c, "forgot", "save") /\ user'[u].token = c
  BY <1>1, <1>4, <1>8, <1>11 DEF At
<1> QED BY <1>1, <1>4, <1>7, <1>9, <1>10, <1>11

LEMMA SaveCall ==
  ASSUME AccountsTypeOK, NEW c \in Call, SaveUser(c)
  PROVE  /\ call' \in [Call -> CallRecord] /\ OthersStay(c)
         /\ call'[c].at = (IF call[c].op = "forgot" THEN "mail" ELSE "ok")
         /\ call'[c].op = call[c].op /\ call'[c].key = call[c].key
         /\ \/ call'[c].copy = NoRow /\ call'[c].base = NoRow
            \/ /\ call'[c].copy = call[c].copy /\ call'[c].base = call[c].base
               /\ call'[c].who = call[c].who
<1>1. call \in [Call -> CallRecord]
  BY DEF AccountsTypeOK
<1>2. CASE call[c].op = "forgot"
  BY <1>1, <1>2, GotoFacts DEF SaveUser, SaveAccount, SaveSettings, Save
<1>3. CASE call[c].op # "forgot"
  BY <1>1, <1>3, EndFacts DEF SaveUser, SaveAccount, SaveSettings, Save, Over
<1> QED BY <1>2, <1>3

(* A save gives an account a token that it had, that the call had loaded   *)
(* of it, or a new one.                                                    *)
LEMMA SaveTokens ==
  ASSUME AccountsTypeOK, AccountsSound, NEW c \in Call, SaveUser(c)
  PROVE  TokensApart' /\ TokensFresh'
<1> DEFINE u == call[c].who
<1>1. /\ u \in Id /\ call[c].at = "save" /\ c \in Id /\ Null \notin Id
      /\ \A v \in Id : v # u => user'[v] = user[v]
      /\ user'[u].token \in {user[u].token, Null, call[c].copy.token}
               \cup (IF At(c, "forgot", "save") THEN {c} ELSE {})
  BY SaveFacts DEF AccountsSound, SaveUser, SaveAccount, SaveSettings, Save, Id
<1>2. /\ call'[c].at \in {"mail", "ok"} /\ call'[c].op = call[c].op /\ call'[c].key = call[c].key
      /\ \/ call'[c].copy = NoRow /\ call'[c].base = NoRow
         \/ /\ call'[c].copy = call[c].copy /\ call'[c].base = call[c].base
            /\ call'[c].who = call[c].who
      /\ \A d \in Call : d # c => call'[d] = call[d]
  BY SaveCall DEF OthersStay
<1>3. NoRow.token = Null
  BY DEF NoRow, UserColumn
<1> HIDE DEF u
<1>4. ASSUME NEW v \in Id, NEW t \in Id, Holds(v, t)'
      PROVE  Holds(v, t) \/ (v = u /\ t = c /\ At(c, "forgot", "save"))
  <2>1. ASSUME user'[v].token = t
        PROVE  Holds(v, t) \/ (v = u /\ t = c /\ At(c, "forgot", "save"))
    <3>1. CASE v # u
      BY <1>1, <2>1, <3>1 DEF Holds
    <3>2. CASE v = u
      BY <1>1, <2>1, <3>2 DEF Holds, u
    <3> QED BY <3>1, <3>2
  <2>2. ASSUME NEW d \in Call, call'[d].who = v, t \in {call'[d].copy.token, call'[d].base.token}
        PROVE  Holds(v, t)
    <3>1. CASE d = c
      BY <1>1, <1>2, <1>3, <2>2, <3>1 DEF Holds
    <3>2. CASE d # c
      BY <1>2, <2>2, <3>2 DEF Holds
    <3> QED BY <3>1, <3>2
  <2> QED BY <1>4, <2>1, <2>2 DEF Holds
<1>5. At(c, "forgot", "save") => /\ \A v \in Id : ~Holds(v, c)
                                 /\ \A d \in Call : call[d].op = "reset" => call[d].key # c
  BY DEF AccountsSound, TokensFresh, Unissued
<1>6. TokensApart'
  BY <1>4, <1>5 DEF AccountsSound, TokensApart
<1>7. TokensFresh'
  <2> SUFFICES ASSUME NEW d \in Call, Unissued(d)'
               PROVE  /\ \A v \in Id : ~Holds(v, d)'
                      /\ \A k \in Call : call'[k].op = "reset" => call'[k].key # d
    BY DEF TokensFresh
  <2>1. d # c /\ Unissued(d) /\ d \in Id
    BY <1>2 DEF Unissued, At, Id
  <2>2. /\ \A v \in Id : ~Holds(v, d)
        /\ \A k \in Call : call[k].op = "reset" => call[k].key # d
    BY <2>1 DEF AccountsSound, TokensFresh
  <2>3. \A k \in Call : call'[k].op = call[k].op /\ call'[k].key = call[k].key
    BY <1>2
  <2> QED BY <1>4, <2>1, <2>2, <2>3
<1> QED BY <1>6, <1>7

LEMMA SaveSound ==
  ASSUME AccountsTypeOK, AccountsSound, NEW c \in Call, SaveUser(c)
  PROVE  AccountsTypeOK' /\ AccountsSound'
<1>1. /\ call[c].who \in users /\ user' \in [Id -> Row] /\ call[c].at = "save"
      /\ \A v \in Id : v # call[c].who => user'[v] = user[v]
  <2>1. call[c].at = "save"
    BY DEF SaveUser, SaveAccount, SaveSettings, Save
  <2> QED BY <2>1, SaveFacts DEF AccountsSound
<1>2. /\ call' \in [Call -> CallRecord]
      /\ call'[c].at = (IF call[c].op = "forgot" THEN "mail" ELSE "ok")
      /\ call'[c].op = call[c].op /\ call'[c].key = call[c].key
      /\ \A d \in Call : d # c => call'[d] = call[d]
  BY SaveCall DEF OthersStay
<1>3. UNCHANGED <<users, settings, directories, accountFaults>>
  BY DEF SaveUser, SaveAccount, SaveSettings, Save
<1>4. AccountsTypeOK'
  BY <1>1, <1>2, <1>3 DEF AccountsTypeOK
<1>5. call[c].op # "register" /\ (call[c].op = "reset" => call[c].key # Null)
  BY <1>1 DEF AccountsSound, CallsSound, At
<1>6. RegistrationComplete'
  BY <1>2, <1>3, <1>5 DEF AccountsSound, RegistrationComplete, At
<1>7. CallsSound'
  <2> SUFFICES ASSUME NEW d \in Call
               PROVE  /\ call'[d].at = "new" => d \notin users
                      /\ At(d, "register", "settings")' => d \in users \ settings
                      /\ At(d, "register", "directory")' => d \in settings
                      /\ call'[d].at \in {"check", "reread", "save"} => call'[d].who \in users
                      /\ call'[d].at = "save" => call'[d].op # "register"
                      /\ At(d, "reset", "save")' =>
                            call'[d].key # Null /\ call'[d].copy.token = call'[d].key
                      /\ At(d, "reset", "ok")' => call'[d].key # Null
    BY <1>3 DEF CallsSound
  <2>1. CASE d = c
    BY <1>2, <1>5, <2>1 DEF At
  <2>2. CASE d # c
    BY <2>2, <1>2 DEF AccountsSound, CallsSound, At
  <2> QED BY <2>1, <2>2
<1> QED BY <1>4, <1>6, <1>7, SaveTokens DEF AccountsSound

-----------------------------------------------------------------------------
(* What a save may do to an account.                                       *)

KeepsOthers ==
    \A u \in users : \A k \in DOMAIN user[u] : user'[u][k] # user[u][k] =>
        \/ \E c \in Call : Saves(c, u) /\ (k \in Asked(c) \/ Outdated(c))
        \/ k \in SettingsColumn /\ u \in settings' \ settings

KeepsSpent ==
    \A u \in users : user'[u].token \in Spent' =>
        \/ user[u].token \in Spent /\ user'[u].token = user[u].token
        \/ \E c \in Call : Saves(c, u) /\ Outdated(c)

LEMMA SaveKeepsOthers ==
  ASSUME AccountsTypeOK, AccountsSound, NEW c \in Call, SaveUser(c)
  PROVE  KeepsOthers
<1> SUFFICES ASSUME NEW u \in users, NEW k \in DOMAIN user[u], user'[u][k] # user[u][k]
             PROVE  Saves(c, u) /\ (k \in Asked(c) \/ Outdated(c))
  BY DEF KeepsOthers
<1>1. u \in Id
  BY DEF AccountsTypeOK
<1>2. u = call[c].who
  BY <1>1, SaveFacts DEF AccountsSound
<1>3. Saves(c, u)
  BY <1>2, SaveCall DEF Saves, SaveUser, SaveAccount, SaveSettings, Save
<1>4. k \in Asked(c) \/ call[c].base[k] # call[c].copy[k]
  BY <1>2, SaveFacts DEF AccountsSound
<1> QED BY <1>3, <1>4 DEF Outdated

LEMMA SaveKeepsSpent ==
  ASSUME AccountsTypeOK, AccountsSound, NEW c \in Call, SaveUser(c)
  PROVE  KeepsSpent
<1> DEFINE w == call[c].who
<1>1. /\ \A d \in Call : d # c => call'[d] = call[d]
      /\ call'[c].op = call[c].op /\ call'[c].key = call[c].key
      /\ call'[c].at \in {"mail", "ok"} /\ call[c].at = "save"
  BY SaveCall DEF OthersStay, SaveUser, SaveAccount, SaveSettings, Save
<1>2. Spent' \subseteq Spent \cup (IF call[c].op = "reset" THEN {call[c].key} ELSE {})
  BY <1>1 DEF Spent, At
<1>3. Null \notin Spent
  <2>1. \A d \in Call : At(d, "reset", "ok") => call[d].key # Null
    BY DEF AccountsSound, CallsSound
  <2> HIDE DEF w
  <2> QED BY <2>1 DEF Spent
<1>4. w \in Id /\ Null \notin Id /\ users \subseteq Id /\ user \in [Id -> Row]
  BY SaveFacts DEF AccountsSound, AccountsTypeOK, Id
<1>5. call[c].op = "reset" => /\ call[c].key # Null /\ call[c].copy.token = call[c].key
  BY <1>1 DEF AccountsSound, CallsSound, At
<1> HIDE DEF w
<1> SUFFICES ASSUME NEW u \in users, user'[u].token \in Spent'
             PROVE  \/ user[u].token \in Spent /\ user'[u].token = user[u].token
                    \/ Saves(c, u) /\ Outdated(c)
  BY DEF KeepsSpent
<1>6. CASE u # w
  <2>1. user'[u] = user[u] /\ u \in Id
    BY <1>4, <1>6, SaveFacts DEF AccountsSound, w
  <2>2. ASSUME call[c].op = "reset", user[u].token = call[c].key
        PROVE  FALSE
    <3>1. Holds(u, call[c].key) /\ Holds(w, call[c].key)
      BY <1>5, <2>2 DEF Holds, w
    <3>2. call[c].key \in Id
      BY <1>5, <2>2 DEF AccountsTypeOK, CallRecord
    <3> QED BY <1>4, <1>6, <2>1, <3>1, <3>2 DEF AccountsSound, TokensApart
  <2> QED BY <1>2, <2>1, <2>2
<1>7. CASE u = w /\ call[c].base # call[c].copy
  BY <1>1, <1>7 DEF Saves, Outdated, w
<1>8. CASE u = w /\ call[c].base = call[c].copy /\ call[c].op = "reset"
  <2>1. user'[u].token = Null
    BY <1>8, SaveFacts DEF AccountsSound, w
  <2> QED BY <1>2, <1>3, <1>5, <2>1
<1>9. CASE u = w /\ call[c].base = call[c].copy /\ call[c].op # "reset"
  <2>1. \/ user'[u].token = user[u].token
        \/ At(c, "forgot", "save") /\ user'[u].token = c
    BY <1>9, SaveFacts DEF AccountsSound, w
  <2>2. At(c, "forgot", "save") => c \notin Spent
    BY DEF AccountsSound, TokensFresh, Unissued, Spent, At
  <2> QED BY <1>2, <1>9, <2>1, <2>2
<1> QED BY <1>6, <1>7, <1>8, <1>9

-----------------------------------------------------------------------------
(* The invariant, and the theorems.                                        *)

LEMMA AccountsInitial == AccountsInit => AccountsTypeOK /\ AccountsSound
<1> SUFFICES ASSUME AccountsInit PROVE AccountsTypeOK /\ AccountsSound
  OBVIOUS
<1>1. PICK issued \in SUBSET Member : \E address \in [Member -> Email] :
         user = [i \in Id |-> IF i \notin Member THEN NoRow
                              ELSE [WithSettings(WithUser(NoRow, i, address[i]), i)
                                      EXCEPT !.token = IF i \in issued THEN i ELSE Null]]
  BY DEF AccountsInit
<1>2. PICK address \in [Member -> Email] :
         user = [i \in Id |-> IF i \notin Member THEN NoRow
                              ELSE [WithSettings(WithUser(NoRow, i, address[i]), i)
                                      EXCEPT !.token = IF i \in issued THEN i ELSE Null]]
  BY <1>1
<1>3. /\ users = Member /\ settings = Member /\ directories = Member
      /\ call = [c \in Call |-> NoCall] /\ accountFaults = 0
  BY DEF AccountsInit
<1>4. ASSUME NEW i \in Id
      PROVE  user[i] \in Row /\ user[i].token \in {i, Null} /\ (i \notin Member => user[i] = NoRow)
  <2>1. CASE i \in Member
    <3>1. WithSettings(WithUser(NoRow, i, address[i]), i) \in Row
      BY <2>1, NoRowType, InsertedRow, FurnishedRow
    <3>2. user[i] = [WithSettings(WithUser(NoRow, i, address[i]), i)
                       EXCEPT !.token = IF i \in issued THEN i ELSE Null]
      BY <1>2, <2>1
    <3> QED BY <2>1, <3>1, <3>2 DEF Row
  <2>2. CASE i \notin Member
    BY <1>2, <2>2, NoRowType DEF NoRow, UserColumn
  <2> QED BY <2>1, <2>2
<1>5. user \in [Id -> Row]
  BY <1>2, <1>4
<1>6. AccountsTypeOK
  BY <1>3, <1>4, <1>5, NoCallType DEF AccountsTypeOK, Id
<1>7. /\ NoCall.at = "new" /\ NoCall.op = "none"
      /\ NoCall.copy.token = Null /\ NoCall.base.token = Null
  BY DEF NoCall, NoRow, UserColumn
<1>8. CallsSound /\ RegistrationComplete
  BY <1>3, <1>7 DEF CallsSound, RegistrationComplete, At
<1>9. ASSUME NEW u \in Id, NEW t \in Id, Holds(u, t) PROVE u = t /\ u \in Member
  <2>1. Null \notin Id
    BY DEF Id
  <2>2. user[u].token = t
    BY <1>3, <1>7, <1>9, <2>1 DEF Holds
  <2>3. u \in Member
    <3>1. NoRow.token = Null
      BY DEF NoRow, UserColumn
    <3> QED BY <1>4, <2>1, <2>2, <3>1
  <2> QED BY <1>4, <2>1, <2>2, <2>3
<1>10. TokensApart /\ TokensFresh
  <2>1. TokensApart
    BY <1>9 DEF TokensApart
  <2>2. TokensFresh
    BY <1>3, <1>7, <1>9 DEF TokensFresh, Id
  <2> QED BY <2>1, <2>2
<1> QED BY <1>6, <1>8, <1>10 DEF AccountsSound

LEMMA AccountsStep ==
  ASSUME AccountsTypeOK, AccountsSound, AccountsNext
  PROVE  AccountsTypeOK' /\ AccountsSound' /\ KeepsOthers /\ KeepsSpent
<1>1. PICK c \in Call :
        \/ Request(c)
        \/ InsertSettings(c) \/ InsertDirectory(c)
        \/ CheckUsername(c) \/ RereadSettings(c) \/ SaveUser(c) \/ QueueResetLink(c)
        \/ FailCall(c)
  BY DEF AccountsNext
<1>2. /\ users \subseteq Id /\ user \in [Id -> Row] /\ c \in Id
      /\ CallsSound
  BY DEF AccountsTypeOK, AccountsSound, Id
<1>3. ASSUME \A u \in users : user'[u].token = user[u].token, Spent' \subseteq Spent
      PROVE  KeepsSpent
  BY <1>3 DEF KeepsSpent
<1>4. CASE Reads(c)
  <2>1. AccountsTypeOK' /\ AccountsSound' /\ Spent' \subseteq Spent /\ user' = user
    BY <1>4, ReadingSound DEF Reads
  <2>2. KeepsOthers
    BY <2>1 DEF KeepsOthers
  <2> QED BY <1>3, <2>1, <2>2
<1>5. ASSUME NEW e \in Email, InsertUser(c, e), call[c].at = "new"
      PROVE  AccountsTypeOK' /\ AccountsSound' /\ KeepsOthers /\ KeepsSpent
  <2>1. AccountsTypeOK' /\ AccountsSound' /\ Spent' \subseteq Spent
    BY <1>5, InsertUserSound
  <2>2. \A u \in users : user'[u] = user[u]
    BY <1>2, <1>5 DEF InsertUser, CallsSound
  <2>3. KeepsOthers
    BY <2>2 DEF KeepsOthers
  <2> QED BY <1>3, <2>1, <2>2, <2>3
<1>6. CASE InsertSettings(c)
  <2>1. AccountsTypeOK' /\ AccountsSound' /\ Spent' \subseteq Spent
    BY <1>6, InsertSettingsSound
  <2>2. /\ user' = [user EXCEPT ![c] = WithSettings(user[c], c)]
        /\ c \in settings' \ settings
    BY <1>2, <1>6 DEF InsertSettings, CallsSound
  <2>3. /\ \A k \in DOMAIN user[c] : user'[c][k] # user[c][k] => k \in SettingsColumn
        /\ user'[c].token = user[c].token
        /\ \A u \in users : u # c => user'[u] = user[u]
    <3>1. user[c] \in Row /\ user'[c] = WithSettings(user[c], c)
      BY <1>2, <2>2
    <3>2. user'[c].token = user[c].token
      BY <1>2, <3>1, FurnishedRow
    <3>3. \A k \in DOMAIN user[c] : user'[c][k] # user[c][k] => k \in SettingsColumn
      BY <3>1, RowColumns DEF WithSettings, SettingsColumn
    <3> QED BY <1>2, <2>2, <3>2, <3>3
  <2>4. KeepsOthers
    BY <2>2, <2>3 DEF KeepsOthers
  <2> QED BY <1>3, <2>1, <2>3, <2>4
<1>7. CASE InsertDirectory(c)
  <2>1. AccountsTypeOK' /\ AccountsSound' /\ Spent' \subseteq Spent /\ user' = user
    BY <1>7, InsertDirectorySound DEF InsertDirectory, WithDefaultDirectory
  <2>2. KeepsOthers
    BY <2>1 DEF KeepsOthers
  <2> QED BY <1>3, <2>1, <2>2
<1>8. CASE SaveUser(c)
  BY <1>8, SaveSound, SaveKeepsOthers, SaveKeepsSpent
<1>9. CASE Request(c)
  <2>1. call[c].at = "new"
    BY <1>9 DEF Request, PublicRequest, SignedRequest, SettingsRequest, CurrentUser, Arrives
  <2> QED BY <1>4, <1>5, <1>9, <2>1, RequestReads
<1> QED BY <1>1, <1>2, <1>4, <1>6, <1>7, <1>8, <1>9, CheckReads, OtherReads

LEMMA AccountsStutter ==
  ASSUME AccountsTypeOK, AccountsSound, UNCHANGED accountsVars
  PROVE  AccountsTypeOK' /\ AccountsSound' /\ Spent' = Spent
<1>1. UNCHANGED <<users, user, settings, directories, call, accountFaults>>
  BY DEF accountsVars
<1>2. AccountsTypeOK'
  BY <1>1 DEF AccountsTypeOK
<1>3. CallsSound' /\ RegistrationComplete'
  BY <1>1 DEF AccountsSound, CallsSound, RegistrationComplete, At
<1>4. TokensApart' /\ TokensFresh'
  BY <1>1 DEF AccountsSound, TokensApart, TokensFresh, Holds, Unissued, At
<1> QED BY <1>1, <1>2, <1>3, <1>4 DEF AccountsSound, Spent, At

LEMMA AccountsInvariant == AccountsSpec => [](AccountsTypeOK /\ AccountsSound)
<1>1. AccountsTypeOK /\ AccountsSound /\ [AccountsNext]_accountsVars
         => (AccountsTypeOK /\ AccountsSound)'
  BY AccountsStep, AccountsStutter
<1> QED BY AccountsInitial, <1>1, PTL DEF AccountsSpec

(* Accounts, settings and directories keep their shape: settings only for  *)
(* accounts, a Default directory only beside settings.                     *)
THEOREM AccountsTypes == AccountsSpec => []AccountsTypeOK
BY AccountsInvariant, PTL

(* A registration that was answered with success is complete.              *)
THEOREM RegistrationsComplete == AccountsSpec => []RegistrationComplete
<1>1. AccountsSound => RegistrationComplete
  BY DEF AccountsSound
<1> QED BY AccountsInvariant, <1>1, PTL

(* However many saves of one account are in flight, each writes only what  *)
(* it was asked to, unless it read the row twice and found it changed.     *)
THEOREM SavesKeepOthers == AccountsSpec => OnlyAskedColumnsChange
<1>1. AccountsTypeOK /\ AccountsSound /\ [AccountsNext]_accountsVars =>
        [\A u \in users : \A k \in DOMAIN user[u] : user'[u][k] # user[u][k] =>
           \/ \E c \in Call : Saves(c, u) /\ (k \in Asked(c) \/ Outdated(c))
           \/ k \in SettingsColumn /\ u \in settings' \ settings]_accountsVars
  BY AccountsStep DEF KeepsOthers
<1> QED BY AccountsInvariant, <1>1, PTL DEF AccountsSpec, OnlyAskedColumnsChange

(* A reset token that was used is never one again: neither a reset link    *)
(* requested meanwhile nor any save in flight brings it back, unless it    *)
(* read the row twice and found it changed.                                *)
THEOREM SpentTokensStaySpent == AccountsSpec => SpentTokenStaysSpent
<1>1. AccountsTypeOK /\ AccountsSound /\ [AccountsNext]_accountsVars =>
        [\A u \in users : user'[u].token \in Spent' =>
           \/ user[u].token \in Spent /\ user'[u].token = user[u].token
           \/ \E c \in Call : Saves(c, u) /\ Outdated(c)]_accountsVars
  BY AccountsStep DEF KeepsSpent
<1> QED BY AccountsInvariant, <1>1, PTL DEF AccountsSpec, SpentTokenStaysSpent
=============================================================================
