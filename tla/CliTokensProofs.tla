--------------------------- MODULE CliTokensProofs ---------------------------
(***************************************************************************)
(* Proofs about CliTokens for all sets of owners, sockets and prefixes and *)
(* any number of calls and faults.                                         *)
(***************************************************************************)
EXTENDS CliTokens, TLAPS

USE CliTokensAssumption, PersistenceAssumption

(* A flush keeps the shape of a row; the columns it does not change keep   *)
(* the value of the row, and the others get that of the copy.              *)
LEMMA WrittenRow ==
  ASSUME NEW r \in TokenRow, NEW b \in TokenRow, NEW k \in TokenRow
  PROVE  /\ Written(r, b, k) \in TokenRow
         /\ Written(r, b, k).hash = IF k.hash = b.hash THEN r.hash ELSE k.hash
         /\ Written(r, b, k).prefix = IF k.prefix = b.prefix THEN r.prefix ELSE k.prefix
BY DEF Written, TokenRow

JobRecord == [op : {"none", "create", "rotate", "auth", "subscribe"},
              at : {"new", "save", "compare", "list", "join", "over"},
              who : Owner \cup {Null}, socket : Socket \cup {Null},
              code : Code \cup {Null}, copy : TokenRow, base : TokenRow]

LEMMA RowTypes == NoToken \in TokenRow /\ NoJob \in JobRecord /\ Done \in JobRecord
BY DEF NoToken, TokenRow, NoJob, Done, JobRecord

-----------------------------------------------------------------------------
(* The inductive invariant, beside the types. A call that makes a code is  *)
(* the only place that has it until its save; a row has the code of a call *)
(* for its user, and so have the copies; an authentication writes the hash *)
(* it has loaded only where it is still the one of the row.                *)

RowsSound ==
    \A u \in Owner :
        /\ token[u].hash # Null => madeFor[token[u].hash] = u
        /\ token[u] # NoToken => token[u].hash # Null

CodesSound ==
    /\ \A k \in Code : madeFor[k] # Null => prefixOf[k] # Null
    /\ \A k \in retired : madeFor[k] # Null
    /\ \A c \in Call : job[c].at = "new" => madeFor[c] = Null

MakingSound ==
    \A c \in Call : job[c].at = "save" /\ job[c].op \in {"create", "rotate"} =>
        /\ job[c].who \in Owner /\ madeFor[c] = job[c].who
        /\ c \notin retired /\ \A u \in Owner : token[u].hash # c
        /\ job[c].op = "rotate" => token[job[c].who].hash # Null /\ job[c].base.hash # c

SocketJobsSound ==
    \A c \in Call :
        /\ job[c].op = "auth" /\ job[c].at \in {"compare", "save"} =>
               /\ job[c].who \in Owner /\ job[c].socket \in Socket
               /\ job[c].code \in presented[job[c].socket]
               /\ token[job[c].who].hash # Null
               /\ job[c].copy = job[c].base
               /\ job[c].copy.hash # Null => madeFor[job[c].copy.hash] = job[c].who
        /\ job[c].op = "subscribe" /\ job[c].at = "join" =>
               job[c].who \in Owner /\ job[c].socket \in Socket

CliSound ==
    /\ RowsSound /\ CodesSound /\ MakingSound /\ SocketJobsSound
    /\ RetiredTokenDead /\ SocketsSpeakForOwners

-----------------------------------------------------------------------------
LEMMA InitTypes == CliTokensInit => CliTokensTypeOK
<1> SUFFICES ASSUME CliTokensInit PROVE CliTokensTypeOK
  OBVIOUS
<1>0. PICK holders \in SUBSET Owner : \E p \in [holders -> Prefix] :
         /\ token = [u \in Owner |-> IF u \in holders
                                     THEN [hash |-> u, prefix |-> p[u], used |-> FALSE]
                                     ELSE NoToken]
         /\ prefixOf = [k \in Code |-> IF k \in holders THEN p[k] ELSE Null]
         /\ madeFor = [k \in Code |-> IF k \in holders THEN k ELSE Null]
  BY DEF CliTokensInit
<1>1. PICK p \in [holders -> Prefix] :
         /\ token = [u \in Owner |-> IF u \in holders
                                     THEN [hash |-> u, prefix |-> p[u], used |-> FALSE]
                                     ELSE NoToken]
         /\ prefixOf = [k \in Code |-> IF k \in holders THEN p[k] ELSE Null]
         /\ madeFor = [k \in Code |-> IF k \in holders THEN k ELSE Null]
  BY <1>0
<1>2. token \in [Owner -> TokenRow]
  BY <1>1 DEF TokenRow, NoToken, Code
<1>3. prefixOf \in [Code -> Prefix \cup {Null}] /\ madeFor \in [Code -> Owner \cup {Null}]
  BY <1>1
<1>4. job \in [Call -> JobRecord]
  BY RowTypes DEF CliTokensInit
<1> QED BY <1>2, <1>3, <1>4 DEF CliTokensInit, CliTokensTypeOK, JobRecord

LEMMA FirstType ==
  ASSUME job \in [Call -> JobRecord], NEW c \in Call,
         NEW op \in {"none", "create", "rotate", "auth", "subscribe"},
         NEW at \in {"new", "save", "compare", "list", "join", "over"},
         NEW w \in Owner \cup {Null}, NEW s \in Socket \cup {Null},
         NEW k \in Code \cup {Null}, NEW r \in TokenRow,
         First(c, op, at, w, s, k, r)
  PROVE  job' \in [Call -> JobRecord]
BY DEF First, JobRecord

LEMMA FinishType ==
  ASSUME job \in [Call -> JobRecord], NEW c \in Call, Finish(c)
  PROVE  job' \in [Call -> JobRecord]
BY RowTypes DEF Finish

LEMMA ProceedType ==
  ASSUME job \in [Call -> JobRecord], NEW c \in Call,
         NEW where \in {"save", "compare", "list"}, Proceed(c, where)
  PROVE  /\ job' \in [Call -> JobRecord]
         /\ job'[c].op = job[c].op /\ job'[c].at = where
         /\ \A d \in Call \ {c} : job'[d] = job[d]
BY DEF Proceed, JobRecord

LEMMA StepTypes ==
  ASSUME CliTokensTypeOK, MakingSound, SocketJobsSound, [CliTokensNext]_cliVars
  PROVE  CliTokensTypeOK'
<1> SUFFICES CliTokensTypeOK'
  OBVIOUS
<1>a. /\ token \in [Owner -> TokenRow]
      /\ job \in [Call -> JobRecord]
  BY DEF CliTokensTypeOK, JobRecord
<1>b. /\ prefixOf \in [Code -> Prefix \cup {Null}]
      /\ madeFor \in [Code -> Owner \cup {Null}]
      /\ retired \subseteq Code
  BY DEF CliTokensTypeOK
<1>c. /\ open \subseteq Socket
      /\ speaksFor \in [Socket -> Owner \cup {Null}]
      /\ rooms \in [Socket -> SUBSET Owner]
      /\ presented \in [Socket -> SUBSET Code]
  BY DEF CliTokensTypeOK
<1>d. cliFaults \in 0..MaxFaults
  BY DEF CliTokensTypeOK
<1>e. SUFFICES
        /\ token' \in [Owner -> TokenRow]
        /\ job' \in [Call -> JobRecord]
        /\ prefixOf' \in [Code -> Prefix \cup {Null}]
        /\ madeFor' \in [Code -> Owner \cup {Null}]
        /\ retired' \subseteq Code
        /\ open' \subseteq Socket
        /\ speaksFor' \in [Socket -> Owner \cup {Null}]
        /\ rooms' \in [Socket -> SUBSET Owner]
        /\ presented' \in [Socket -> SUBSET Code]
        /\ cliFaults' \in 0..MaxFaults
  BY DEF CliTokensTypeOK, JobRecord
<1>f. \A c \in Call : c \in Code
  BY DEF Code
<1>g. CASE UNCHANGED cliVars
  BY <1>a, <1>b, <1>c, <1>d, <1>g DEF cliVars, codeVars, socketVars
<1>1. ASSUME NEW c \in Call, NEW u \in Owner, Make(c, u) PROVE job' \in [Call -> JobRecord]
  <2>1. CASE token[u] = NoToken
    BY <1>1, <2>1, <1>a, <1>f, FirstType DEF Make
  <2>2. CASE token[u] # NoToken
    BY <1>1, <2>2, <1>a, <1>f, FirstType DEF Make
  <2> QED BY <2>1, <2>2
<1>2. ASSUME NEW c \in Call, NEW u \in Owner, Make(c, u)
      PROVE  prefixOf' \in [Code -> Prefix \cup {Null}] /\ madeFor' \in [Code -> Owner \cup {Null}]
  BY <1>2, <1>b DEF Make
<1>3. CASE \E c \in Call, u \in Owner : Make(c, u)
  BY <1>3, <1>1, <1>2, <1>a, <1>b, <1>c, <1>d DEF Make, socketVars
<1>4. ASSUME NEW c \in Call, NEW s \in Socket, NEW k \in Code, Authenticate(c, s, k)
      PROVE  /\ job' \in [Call -> JobRecord]
             /\ open' \subseteq Socket
             /\ speaksFor' \in [Socket -> Owner \cup {Null}]
             /\ rooms' \in [Socket -> SUBSET Owner]
             /\ presented' \in [Socket -> SUBSET Code]
  <2>1. CASE First(c, "none", "over", Null, Null, Null, NoToken) /\ Disconnect(c, s)
    BY <2>1, <1>4, <1>a, <1>c, FirstType, RowTypes DEF Authenticate, HavePrefix, Disconnect
  <2>2. CASE /\ \E u \in Owner : First(c, "auth", "compare", u, s, k, token[u])
             /\ UNCHANGED <<open, rooms, speaksFor>>
    BY <2>2, <1>4, <1>a, <1>c, FirstType DEF Authenticate, HavePrefix
  <2> QED BY <2>1, <2>2, <1>4 DEF Authenticate, HavePrefix
<1>5. CASE \E c \in Call, s \in Socket, k \in Code : Authenticate(c, s, k)
  BY <1>5, <1>4, <1>a, <1>b, <1>d DEF Authenticate, HavePrefix, codeVars
<1>6. CASE \E c \in Call, s \in Socket, w \in Owner : Subscribe(c, s, w)
  <2>1. PICK c \in Call, s \in Socket, w \in Owner : Subscribe(c, s, w)
    BY <1>6
  <2>2. job' \in [Call -> JobRecord]
    <3>1. CASE speaksFor[s] = w
      BY <2>1, <3>1, <1>a, FirstType, RowTypes DEF Subscribe
    <3>2. CASE speaksFor[s] # w
      BY <2>1, <3>2, <1>a, FirstType, RowTypes DEF Subscribe
    <3> QED BY <3>1, <3>2
  <2> QED BY <2>1, <2>2, <1>a, <1>b, <1>c, <1>d DEF Subscribe, codeVars, socketVars
<1>7. ASSUME NEW c \in Call, SaveNew(c) PROVE token' \in [Owner -> TokenRow]
  <2>1. [hash |-> c, prefix |-> prefixOf[c], used |-> FALSE] \in TokenRow
    BY <1>b, <1>f DEF TokenRow
  <2> QED BY <1>7, <2>1, <1>a DEF SaveNew, InsertToken, InsertTokenTwice
<1>8. CASE \E c \in Call : SaveNew(c)
  BY <1>8, <1>7, <1>a, <1>b, <1>c, <1>d, FinishType DEF SaveNew, codeVars, socketVars
<1>9. ASSUME NEW c \in Call, SaveRotated(c)
      PROVE  token' \in [Owner -> TokenRow] /\ retired' \subseteq Code
  <2>1. job[c].copy \in TokenRow /\ job[c].base \in TokenRow
    BY <1>a DEF JobRecord
  <2>2. [job[c].copy EXCEPT !.hash = c, !.prefix = prefixOf[c]] \in TokenRow
    BY <2>1, <1>b, <1>f DEF TokenRow
  <2>3. \A u \in Owner : Written(token[u], job[c].base,
           [job[c].copy EXCEPT !.hash = c, !.prefix = prefixOf[c]]) \in TokenRow
    BY <2>1, <2>2, <1>a, WrittenRow
  <2>4. token' \in [Owner -> TokenRow]
    BY <1>9, <2>3, <1>a DEF SaveRotated
  <2>5. job[c].who \in Owner /\ token[job[c].who].hash \in Code
    BY <1>9, <1>a DEF SaveRotated, Is, MakingSound, TokenRow
  <2> QED BY <2>4, <2>5, <1>9, <1>b DEF SaveRotated
<1>10. CASE \E c \in Call : SaveRotated(c)
  BY <1>10, <1>9, <1>a, <1>b, <1>c, <1>d, FinishType DEF SaveRotated, codeVars, socketVars
<1>11. ASSUME NEW c \in Call, Compare(c)
       PROVE  /\ job' \in [Call -> JobRecord]
              /\ open' \subseteq Socket
              /\ speaksFor' \in [Socket -> Owner \cup {Null}]
              /\ rooms' \in [Socket -> SUBSET Owner]
  <2>1. CASE Proves(job[c].copy, job[c].code)
    <3>1. job' \in [Call -> JobRecord]
      BY <1>11, <2>1, <1>a DEF Compare, Proceed, JobRecord
    <3>2. job[c].who \in Owner \cup {Null}
      BY <1>a DEF JobRecord
    <3> QED BY <3>1, <3>2, <1>11, <2>1, <1>c DEF Compare
  <2>2. CASE ~Proves(job[c].copy, job[c].code)
    BY <1>11, <2>2, <1>a, <1>c, FinishType DEF Compare, Disconnect
  <2> QED BY <2>1, <2>2
<1>12. CASE \E c \in Call : Compare(c)
  BY <1>12, <1>11, <1>a, <1>b, <1>c, <1>d DEF Compare, codeVars
<1>13. ASSUME NEW c \in Call, SaveUsed(c) PROVE token' \in [Owner -> TokenRow]
  <2>1. job[c].copy \in TokenRow /\ job[c].base \in TokenRow
    BY <1>a DEF JobRecord
  <2>2. [job[c].copy EXCEPT !.used = TRUE] \in TokenRow
    BY <2>1 DEF TokenRow
  <2>3. \A u \in Owner : Written(token[u], job[c].base,
                                 [job[c].copy EXCEPT !.used = TRUE]) \in TokenRow
    BY <2>1, <2>2, <1>a, WrittenRow
  <2> QED BY <1>13, <2>3, <1>a DEF SaveUsed
<1>14. CASE \E c \in Call : SaveUsed(c)
  BY <1>14, <1>13, <1>a, <1>b, <1>c, <1>d, ProceedType DEF SaveUsed, codeVars, socketVars
<1>19. CASE \E c \in Call : ConfirmAuth(c)
  BY <1>19, <1>a, <1>b, <1>c, <1>d, FinishType DEF ConfirmAuth, codeVars, socketVars
<1>15. ASSUME NEW c \in Call, Join(c) PROVE rooms' \in [Socket -> SUBSET Owner]
  <2>1. job[c].who \in Owner /\ job[c].socket \in Socket
    BY <1>15 DEF Join, Is, SocketJobsSound
  <2> QED BY <2>1, <1>15, <1>c DEF Join
<1>16. CASE \E c \in Call : Join(c)
  BY <1>16, <1>15, <1>a, <1>b, <1>c, <1>d, FinishType DEF Join, codeVars
<1>17. ASSUME NEW c \in Call, FailJob(c)
       PROVE  /\ open' \subseteq Socket
              /\ speaksFor' \in [Socket -> Owner \cup {Null}]
              /\ rooms' \in [Socket -> SUBSET Owner]
              /\ cliFaults' \in 0..MaxFaults
  BY <1>17, <1>c, <1>d DEF FailJob, Disconnect
<1>18. CASE \E c \in Call : FailJob(c)
  BY <1>18, <1>17, <1>a, <1>b, <1>c, FinishType DEF FailJob, codeVars
<1> QED BY <1>g, <1>3, <1>5, <1>6, <1>8, <1>10, <1>12, <1>14, <1>16, <1>18, <1>19 DEF CliTokensNext


-----------------------------------------------------------------------------
(* Each action keeps the invariant.                                        *)

LEMMA InitSound == CliTokensInit => CliSound
<1> SUFFICES ASSUME CliTokensInit PROVE CliSound
  OBVIOUS
<1>0. PICK holders \in SUBSET Owner : \E p \in [holders -> Prefix] :
         /\ token = [u \in Owner |-> IF u \in holders
                                     THEN [hash |-> u, prefix |-> p[u], used |-> FALSE]
                                     ELSE NoToken]
         /\ prefixOf = [k \in Code |-> IF k \in holders THEN p[k] ELSE Null]
         /\ madeFor = [k \in Code |-> IF k \in holders THEN k ELSE Null]
  BY DEF CliTokensInit
<1>1. PICK p \in [holders -> Prefix] :
         /\ token = [u \in Owner |-> IF u \in holders
                                     THEN [hash |-> u, prefix |-> p[u], used |-> FALSE]
                                     ELSE NoToken]
         /\ prefixOf = [k \in Code |-> IF k \in holders THEN p[k] ELSE Null]
         /\ madeFor = [k \in Code |-> IF k \in holders THEN k ELSE Null]
  BY <1>0
<1>2. RowsSound
  BY <1>1 DEF RowsSound, NoToken, Code
<1>3. CodesSound
  <2>1. \A k \in Code : madeFor[k] # Null => prefixOf[k] # Null
    BY <1>1
  <2>2. \A c \in Call : c \in Code /\ c \notin holders
    BY DEF Code
  <2>3. \A c \in Call : madeFor[c] = Null
    BY <1>1, <2>2
  <2> QED BY <2>1, <2>3 DEF CodesSound, CliTokensInit
<1>4. MakingSound /\ SocketJobsSound
  BY DEF MakingSound, SocketJobsSound, CliTokensInit, NoJob
<1>5. RetiredTokenDead /\ SocketsSpeakForOwners
  BY DEF RetiredTokenDead, SocketsSpeakForOwners, CliTokensInit
<1> QED BY <1>2, <1>3, <1>4, <1>5 DEF CliSound

LEMMA MakeSound ==
  ASSUME CliTokensTypeOK, CliSound, NEW c \in Call, NEW u \in Owner, Make(c, u)
  PROVE  CliSound'
<1>a. /\ token \in [Owner -> TokenRow] /\ job \in [Call -> JobRecord]
      /\ prefixOf \in [Code -> Prefix \cup {Null}] /\ madeFor \in [Code -> Owner \cup {Null}]
      /\ presented \in [Socket -> SUBSET Code] /\ retired \subseteq Code
  BY DEF CliTokensTypeOK, JobRecord
<1>b. c \in Code /\ u # Null /\ c # Null
  BY DEF Code
<1>c. PICK p \in Prefix : prefixOf' = [prefixOf EXCEPT ![c] = p]
  BY DEF Make
<1>d. /\ madeFor' = [madeFor EXCEPT ![c] = u]
      /\ UNCHANGED <<token, retired, open, speaksFor, rooms, presented>>
  BY DEF Make, socketVars
<1>e. /\ job[c].at = "new" /\ madeFor[c] = Null
      /\ \A d \in Call \ {c} : job'[d] = job[d]
      /\ job'[c].op = (IF token[u] = NoToken THEN "create" ELSE "rotate")
      /\ job'[c].at = "save" /\ job'[c].who = u /\ job'[c].base = token[u]
  BY <1>a DEF Make, First, CliSound, CodesSound
<1>f. \A k \in Code : madeFor[k] # Null => k # c /\ madeFor'[k] = madeFor[k]
  BY <1>a, <1>d, <1>e
<1>g. \A v \in Owner : token[v].hash \in Code \cup {Null} /\ token[v].hash # c
  BY <1>a, <1>b, <1>e DEF TokenRow, CliSound, RowsSound
<1>1. RowsSound'
  BY <1>a, <1>d, <1>f, <1>g DEF CliSound, RowsSound
<1>2. CodesSound'
  <2>1. \A k \in Code : madeFor'[k] # Null => prefixOf'[k] # Null
    BY <1>a, <1>b, <1>c, <1>d DEF CliSound, CodesSound
  <2>2. \A k \in retired : madeFor'[k] # Null
    BY <1>a, <1>f DEF CliSound, CodesSound
  <2>3. \A d \in Call : job'[d].at = "new" => madeFor'[d] = Null
    BY <1>a, <1>d, <1>e DEF CliSound, CodesSound, Code
  <2> QED BY <2>1, <2>2, <2>3, <1>d DEF CodesSound
<1>3. MakingSound'
  <2>1. c \notin retired
    BY <1>a, <1>e DEF CliSound, CodesSound
  <2>2. token[u] # NoToken => token[u].hash # Null
    BY DEF CliSound, RowsSound
  <2>3. \A d \in Call \ {c} : madeFor'[d] = madeFor[d]
    BY <1>a, <1>d DEF Code
  <2> QED BY <1>a, <1>d, <1>e, <1>g, <1>b, <2>1, <2>2, <2>3 DEF CliSound, MakingSound
<1>4. SocketJobsSound'
  <2>1. \A d \in Call : job[d].copy.hash \in Code \cup {Null}
    BY <1>a DEF JobRecord, TokenRow
  <2>2. \A d \in Call : job[d].who \in Owner => job[d].who # Null
    OBVIOUS
  <2> QED BY <1>a, <1>d, <1>e, <1>f, <2>1, <2>2 DEF CliSound, SocketJobsSound
<1>5. RetiredTokenDead'
  BY <1>d DEF CliSound, RetiredTokenDead
<1>6. SocketsSpeakForOwners'
  <2> SUFFICES ASSUME NEW s \in Socket, NEW v \in rooms[s] \cup ({speaksFor[s]} \ {Null})
               PROVE  \E k \in presented[s] : madeFor'[k] = v
    BY <1>d DEF SocketsSpeakForOwners
  <2>1. PICK k \in presented[s] : madeFor[k] = v
    BY DEF CliSound, SocketsSpeakForOwners
  <2>2. v # Null
    BY DEF CliTokensTypeOK
  <2> QED BY <1>a, <1>f, <2>1, <2>2
<1> QED BY <1>1, <1>2, <1>3, <1>4, <1>5, <1>6 DEF CliSound

(* A row keeps its code through every save but those of its makers.        *)
LEMMA SaveNewSound ==
  ASSUME CliTokensTypeOK, CliSound, NEW c \in Call, SaveNew(c)
  PROVE  CliSound'
<1> DEFINE u == job[c].who
<1>a. /\ token \in [Owner -> TokenRow] /\ job \in [Call -> JobRecord]
      /\ prefixOf \in [Code -> Prefix \cup {Null}] /\ retired \subseteq Code
  BY DEF CliTokensTypeOK, JobRecord
<1>b. c \in Code /\ c # Null
  BY DEF Code
<1>c. UNCHANGED <<prefixOf, madeFor, retired, open, speaksFor, rooms, presented>>
  BY DEF SaveNew, codeVars, socketVars
<1>d. /\ job[c].op = "create" /\ job[c].at = "save"
      /\ u \in Owner /\ madeFor[c] = u /\ c \notin retired
      /\ \A d \in Call \ {c} : job'[d] = job[d]
      /\ job'[c] = Done
  BY <1>a DEF SaveNew, Is, Finish, CliSound, MakingSound
<1>e. /\ \A v \in Owner \ {u} : token'[v] = token[v]
      /\ \/ token'[u] = token[u]
         \/ token[u] = NoToken /\ token'[u].hash = c
  BY <1>a, <1>d DEF SaveNew, InsertToken, InsertTokenTwice
<1>f. \A v \in Owner : token[v].hash # Null => token'[v].hash = token[v].hash
  BY <1>e DEF NoToken
<1>g. \A v \in Owner : token'[v].hash \in {token[v].hash, c}
  BY <1>e
<1>1. RowsSound'
  BY <1>b, <1>c, <1>d, <1>e DEF CliSound, RowsSound
<1>2. CodesSound'
  BY <1>c, <1>d DEF CliSound, CodesSound, Done, NoJob
<1>3. MakingSound'
  <2>1. job'[c].at # "save"
    BY <1>d DEF Done
  <2> SUFFICES ASSUME NEW d \in Call, d # c,
                      job[d].at = "save", job[d].op \in {"create", "rotate"}
               PROVE  /\ job[d].who \in Owner /\ madeFor[d] = job[d].who
                      /\ d \notin retired /\ \A v \in Owner : token'[v].hash # d
                      /\ job[d].op = "rotate" =>
                             token'[job[d].who].hash # Null /\ job[d].base.hash # d
    BY <1>c, <1>d, <2>1 DEF MakingSound
  <2> QED BY <1>f, <1>g DEF CliSound, MakingSound
<1>4. SocketJobsSound'
  <2>1. job'[c].op = "none"
    BY <1>d DEF Done, NoJob
  <2> QED BY <1>c, <1>d, <1>f, <2>1 DEF CliSound, SocketJobsSound
<1>5. RetiredTokenDead'
  BY <1>c, <1>d, <1>g DEF CliSound, RetiredTokenDead
<1>6. SocketsSpeakForOwners'
  BY <1>c DEF CliSound, SocketsSpeakForOwners
<1> QED BY <1>1, <1>2, <1>3, <1>4, <1>5, <1>6 DEF CliSound

(* The code that the row gets is new, and no other user had the old one.   *)
LEMMA SaveRotatedSound ==
  ASSUME CliTokensTypeOK, CliSound, NEW c \in Call, SaveRotated(c)
  PROVE  CliSound'
<1> DEFINE u == job[c].who
           k == [job[c].copy EXCEPT !.hash = c, !.prefix = prefixOf[c]]
<1>a. /\ token \in [Owner -> TokenRow] /\ job \in [Call -> JobRecord]
      /\ prefixOf \in [Code -> Prefix \cup {Null}] /\ madeFor \in [Code -> Owner \cup {Null}]
      /\ retired \subseteq Code
  BY DEF CliTokensTypeOK, JobRecord
<1>b. c \in Code /\ c # Null
  BY DEF Code
<1>c. /\ UNCHANGED <<prefixOf, madeFor, open, speaksFor, rooms, presented>>
      /\ retired' = retired \cup {token[u].hash}
  BY DEF SaveRotated, socketVars
<1>d. /\ job[c].op = "rotate" /\ job[c].at = "save"
      /\ u \in Owner /\ madeFor[c] = u /\ c \notin retired
      /\ token[u].hash # Null /\ job[c].base.hash # c
      /\ \A v \in Owner : token[v].hash # c
      /\ \A d \in Call \ {c} : job'[d] = job[d]
      /\ job'[c] = Done
  BY <1>a DEF SaveRotated, Is, Finish, CliSound, MakingSound
<1>e. /\ \A v \in Owner \ {u} : token'[v] = token[v]
      /\ token'[u].hash = c
  <2>0. job[c].copy \in TokenRow /\ job[c].base \in TokenRow /\ token[u] \in TokenRow
    BY <1>a, <1>d DEF JobRecord
  <2>1. k \in TokenRow /\ k.hash = c
    BY <2>0, <1>a, <1>b DEF TokenRow
  <2> HIDE DEF k
  <2>2. Written(token[u], job[c].base, k).hash = c
    BY <2>0, <2>1, <1>d, WrittenRow
  <2>3. token' = [token EXCEPT ![u] = Written(token[u], job[c].base, k)]
    BY DEF SaveRotated, k
  <2> QED BY <2>2, <2>3, <1>a, <1>d
<1>f. \A v \in Owner : token[v].hash # Null => token'[v].hash # Null
  BY <1>b, <1>e
<1>g. \A v \in Owner : token'[v].hash \in {token[v].hash, c}
  BY <1>e
<1>h. madeFor[token[u].hash] = u /\ u # Null
  BY <1>d DEF CliSound, RowsSound
<1>1. RowsSound'
  BY <1>b, <1>c, <1>d, <1>e DEF CliSound, RowsSound
<1>2. CodesSound'
  BY <1>c, <1>d, <1>h DEF CliSound, CodesSound, Done, NoJob
<1>3. MakingSound'
  <2>1. job'[c].at # "save"
    BY <1>d DEF Done
  <2> SUFFICES ASSUME NEW d \in Call, d # c,
                      job[d].at = "save", job[d].op \in {"create", "rotate"}
               PROVE  /\ job[d].who \in Owner /\ madeFor[d] = job[d].who
                      /\ d \notin retired' /\ \A v \in Owner : token'[v].hash # d
                      /\ job[d].op = "rotate" =>
                             token'[job[d].who].hash # Null /\ job[d].base.hash # d
    BY <1>c, <1>d, <2>1 DEF MakingSound
  <2> QED BY <1>c, <1>d, <1>f, <1>g DEF CliSound, MakingSound
<1>4. SocketJobsSound'
  <2>1. job'[c].op = "none"
    BY <1>d DEF Done, NoJob
  <2> QED BY <1>c, <1>d, <1>f, <2>1 DEF CliSound, SocketJobsSound
<1>5. RetiredTokenDead'
  <2>1. ASSUME NEW v \in Owner PROVE token'[v].hash \notin retired'
    <3>1. CASE v = u
      BY <3>1, <1>c, <1>d, <1>e
    <3>2. CASE v # u
      <4>1. token'[v].hash = token[v].hash /\ token[v].hash \notin retired
        BY <3>2, <1>e DEF CliSound, RetiredTokenDead
      <4>2. token[v].hash # token[u].hash
        BY <3>2, <1>d, <1>h DEF CliSound, RowsSound
      <4> QED BY <4>1, <4>2, <1>c
    <3> QED BY <3>1, <3>2
  <2> QED BY <2>1 DEF RetiredTokenDead
<1>6. SocketsSpeakForOwners'
  BY <1>c DEF CliSound, SocketsSpeakForOwners
<1> QED BY <1>1, <1>2, <1>3, <1>4, <1>5, <1>6 DEF CliSound

LEMMA AuthenticateSound ==
  ASSUME CliTokensTypeOK, CliSound, NEW c \in Call, NEW s \in Socket, NEW k \in Code,
         Authenticate(c, s, k)
  PROVE  CliSound'
<1>a. /\ token \in [Owner -> TokenRow] /\ job \in [Call -> JobRecord]
      /\ prefixOf \in [Code -> Prefix \cup {Null}] /\ presented \in [Socket -> SUBSET Code]
      /\ rooms \in [Socket -> SUBSET Owner]
  BY DEF CliTokensTypeOK, JobRecord
<1>c. /\ UNCHANGED <<token, prefixOf, madeFor, retired, speaksFor>>
      /\ presented' = [presented EXCEPT ![s] = @ \cup {k}]
      /\ madeFor[k] # Null
  BY DEF Authenticate, HavePrefix, codeVars, Disconnect
<1>d. \A t \in Socket : presented[t] \subseteq presented'[t] /\ k \in presented'[s]
  BY <1>a, <1>c
<1>e. \A t \in Socket : rooms'[t] \subseteq rooms[t]
  BY <1>a DEF Authenticate, HavePrefix, Disconnect
<1>f. /\ \A d \in Call \ {c} : job'[d] = job[d]
      /\ \/ job'[c].op = "none" /\ job'[c].at = "over"
         \/ /\ job'[c].op = "auth" /\ job'[c].at = "compare"
            /\ job'[c].who \in Owner /\ job'[c].socket = s /\ job'[c].code = k
            /\ job'[c].copy = token[job'[c].who] /\ job'[c].base = token[job'[c].who]
            /\ token[job'[c].who].prefix = prefixOf[k]
  <2>1. CASE First(c, "none", "over", Null, Null, Null, NoToken)
    BY <2>1, <1>a DEF First
  <2>2. ASSUME NEW u \in Owner, token[u].prefix = prefixOf[k],
               First(c, "auth", "compare", u, s, k, token[u])
        PROVE  /\ job'[c].op = "auth" /\ job'[c].at = "compare"
               /\ job'[c].who \in Owner /\ job'[c].socket = s /\ job'[c].code = k
               /\ job'[c].copy = token[job'[c].who] /\ job'[c].base = token[job'[c].who]
               /\ token[job'[c].who].prefix = prefixOf[k]
               /\ \A d \in Call \ {c} : job'[d] = job[d]
    BY <2>2, <1>a DEF First
  <2> QED BY <2>1, <2>2 DEF Authenticate, HavePrefix
<1>1. RowsSound'
  BY <1>c DEF CliSound, RowsSound
<1>2. CodesSound'
  BY <1>c, <1>f DEF CliSound, CodesSound
<1>3. MakingSound'
  BY <1>c, <1>f DEF CliSound, MakingSound
<1>4. SocketJobsSound'
  <2>1. ASSUME job'[c].op = "auth", job'[c].at \in {"compare", "save"}
        PROVE  token[job'[c].who].hash # Null
    <3>1. prefixOf[k] # Null
      BY <1>c DEF CliSound, CodesSound
    <3>2. job'[c].who \in Owner /\ token[job'[c].who] # NoToken
      BY <3>1, <2>1, <1>f DEF NoToken
    <3> QED BY <3>2 DEF CliSound, RowsSound
  <2>2. SocketJobsSound /\ RowsSound
    BY DEF CliSound
  <2> QED BY <1>c, <1>d, <1>f, <2>1, <2>2 DEF SocketJobsSound, RowsSound
<1>5. RetiredTokenDead'
  BY <1>c DEF CliSound, RetiredTokenDead
<1>6. SocketsSpeakForOwners'
  BY <1>c, <1>d, <1>e DEF CliSound, SocketsSpeakForOwners
<1> QED BY <1>1, <1>2, <1>3, <1>4, <1>5, <1>6 DEF CliSound

(* The copy that proves the code is of the user the code was made for.     *)
LEMMA CompareSound ==
  ASSUME CliTokensTypeOK, CliSound, NEW c \in Call, Compare(c)
  PROVE  CliSound'
<1> DEFINE s == job[c].socket
<1>a. /\ token \in [Owner -> TokenRow] /\ job \in [Call -> JobRecord]
      /\ madeFor \in [Code -> Owner \cup {Null}] /\ presented \in [Socket -> SUBSET Code]
      /\ speaksFor \in [Socket -> Owner \cup {Null}] /\ rooms \in [Socket -> SUBSET Owner]
  BY DEF CliTokensTypeOK, JobRecord
<1>b. UNCHANGED <<token, prefixOf, madeFor, retired, presented>>
  BY DEF Compare, codeVars
<1>c. /\ job[c].op = "auth" /\ job[c].at = "compare"
      /\ job[c].who \in Owner /\ s \in Socket /\ job[c].code \in presented[s]
      /\ job[c].copy.hash # Null => madeFor[job[c].copy.hash] = job[c].who
  BY DEF Compare, Is, CliSound, SocketJobsSound
<1>d. /\ \A d \in Call \ {c} : job'[d] = job[d]
      /\ \/ job'[c] = Done \/ job'[c] = [job[c] EXCEPT !.at = "save"]
  BY <1>a DEF Compare, Proceed, Finish
<1>e. job'[c].op \in {"none", "auth"} /\ job'[c].at # "new"
  BY <1>a, <1>c, <1>d DEF JobRecord, Done, NoJob
<1>1. RowsSound'
  BY <1>b DEF CliSound, RowsSound
<1>2. CodesSound'
  BY <1>b, <1>d, <1>e DEF CliSound, CodesSound
<1>3. MakingSound'
  BY <1>b, <1>d, <1>e DEF CliSound, MakingSound
<1>4. SocketJobsSound'
  <2>1. CASE job'[c] = Done
    BY <2>1, <1>b, <1>d DEF CliSound, SocketJobsSound, Done, NoJob
  <2>2. CASE job'[c] = [job[c] EXCEPT !.at = "save"]
    <3>1. /\ job'[c].op = "auth" /\ job'[c].at = "save" /\ job'[c].who = job[c].who
          /\ job'[c].socket = s /\ job'[c].code = job[c].code
          /\ job'[c].copy = job[c].copy /\ job'[c].base = job[c].base
      BY <2>2, <1>a, <1>c DEF JobRecord
    <3> QED BY <3>1, <1>b, <1>c, <1>d DEF CliSound, SocketJobsSound
  <2> QED BY <2>1, <2>2, <1>d
<1>5. RetiredTokenDead'
  BY <1>b DEF CliSound, RetiredTokenDead
<1>6. SocketsSpeakForOwners'
  <2>1. CASE Proves(job[c].copy, job[c].code)
    <3>1. /\ speaksFor' = [speaksFor EXCEPT ![s] = job[c].who] /\ rooms' = rooms
      BY <2>1 DEF Compare
    <3>2. madeFor[job[c].code] = job[c].who
      <4>1. job[c].code \in Code /\ job[c].copy.hash = job[c].code
        BY <2>1, <1>a, <1>c DEF Proves
      <4>2. job[c].code # Null
        BY <4>1 DEF Code
      <4> QED BY <4>1, <4>2, <1>c
    <3> QED BY <3>1, <3>2, <1>a, <1>b, <1>c DEF CliSound, SocketsSpeakForOwners
  <2>2. CASE ~Proves(job[c].copy, job[c].code)
    <3>1. /\ speaksFor' = speaksFor /\ \A t \in Socket : rooms'[t] \subseteq rooms[t]
      BY <2>2, <1>a DEF Compare, Disconnect
    <3> QED BY <3>1, <1>b DEF CliSound, SocketsSpeakForOwners
  <2> QED BY <2>1, <2>2
<1> QED BY <1>1, <1>2, <1>3, <1>4, <1>5, <1>6 DEF CliSound

(* An authentication writes no hash: its copy is what it has loaded.       *)
LEMMA SaveUsedSound ==
  ASSUME CliTokensTypeOK, CliSound, NEW c \in Call, SaveUsed(c)
  PROVE  CliSound'
<1> DEFINE u == job[c].who
           k == [job[c].copy EXCEPT !.used = TRUE]
<1>a. /\ token \in [Owner -> TokenRow] /\ job \in [Call -> JobRecord]
  BY DEF CliTokensTypeOK, JobRecord
<1>b. UNCHANGED <<prefixOf, madeFor, retired, open, speaksFor, rooms, presented>>
  BY DEF SaveUsed, codeVars, socketVars
<1>c. /\ u \in Owner /\ job[c].copy = job[c].base /\ token[u].hash # Null
  BY DEF SaveUsed, Is, CliSound, SocketJobsSound
<1>f. job'[c].op = "auth" /\ job'[c].at = "list" /\ \A d \in Call \ {c} : job'[d] = job[d]
  BY <1>a, ProceedType DEF SaveUsed, Is
<1>d. \A v \in Owner : token'[v].hash = token[v].hash
  <2>1. job[c].copy \in TokenRow /\ job[c].base \in TokenRow /\ token[u] \in TokenRow
    BY <1>a, <1>c DEF JobRecord
  <2>2. k \in TokenRow /\ k.hash = job[c].base.hash
    BY <2>1, <1>c DEF TokenRow
  <2> HIDE DEF k
  <2>3. Written(token[u], job[c].base, k).hash = token[u].hash
    BY <2>1, <2>2, WrittenRow
  <2>4. token' = [token EXCEPT ![u] = Written(token[u], job[c].base, k)]
    BY DEF SaveUsed, k
  <2> QED BY <2>3, <2>4, <1>a, <1>c
<1>e. \A v \in Owner : v # u => token'[v] = token[v]
  BY <1>a, <1>c DEF SaveUsed
<1>1. RowsSound'
  BY <1>b, <1>c, <1>d, <1>e DEF CliSound, RowsSound
<1>2. CodesSound'
  BY <1>b, <1>c, <1>f DEF CliSound, CodesSound
<1>3. MakingSound'
  BY <1>b, <1>c, <1>d, <1>f DEF CliSound, MakingSound
<1>4. SocketJobsSound'
  BY <1>b, <1>c, <1>d, <1>f DEF CliSound, SocketJobsSound
<1>5. RetiredTokenDead'
  BY <1>b, <1>d DEF CliSound, RetiredTokenDead
<1>6. SocketsSpeakForOwners'
  BY <1>b DEF CliSound, SocketsSpeakForOwners
<1> QED BY <1>1, <1>2, <1>3, <1>4, <1>5, <1>6 DEF CliSound

LEMMA ConfirmAuthSound ==
  ASSUME CliTokensTypeOK, CliSound, NEW c \in Call, ConfirmAuth(c)
  PROVE  CliSound'
<1>a. job \in [Call -> JobRecord]
  BY DEF CliTokensTypeOK, JobRecord
<1>b. UNCHANGED <<token, prefixOf, madeFor, retired, open, speaksFor, rooms, presented>>
  BY DEF ConfirmAuth, codeVars, socketVars
<1>c. /\ \A d \in Call \ {c} : job'[d] = job[d]
      /\ job'[c].op = "none" /\ job'[c].at = "over"
  BY <1>a DEF ConfirmAuth, Finish, Done, NoJob
<1>1. RowsSound' /\ RetiredTokenDead' /\ SocketsSpeakForOwners'
  BY <1>b DEF CliSound, RowsSound, RetiredTokenDead, SocketsSpeakForOwners
<1>2. CodesSound'
  BY <1>b, <1>c DEF CliSound, CodesSound
<1>3. MakingSound'
  BY <1>b, <1>c DEF CliSound, MakingSound
<1>4. SocketJobsSound'
  BY <1>b, <1>c DEF CliSound, SocketJobsSound
<1> QED BY <1>1, <1>2, <1>3, <1>4 DEF CliSound

LEMMA SubscribeSound ==
  ASSUME CliTokensTypeOK, CliSound, NEW c \in Call, NEW s \in Socket, NEW w \in Owner,
         Subscribe(c, s, w)
  PROVE  CliSound'
<1>a. job \in [Call -> JobRecord]
  BY DEF CliTokensTypeOK, JobRecord
<1>b. UNCHANGED <<token, prefixOf, madeFor, retired, open, speaksFor, rooms, presented>>
  BY DEF Subscribe, codeVars, socketVars
<1>c. /\ \A d \in Call \ {c} : job'[d] = job[d]
      /\ job'[c].at \in {"join", "over"} /\ job'[c].who \in {w, Null}
      /\ \/ job'[c].op = "none"
         \/ job'[c].op = "subscribe" /\ job'[c].who = w /\ job'[c].socket = s
  BY <1>a DEF Subscribe, First
<1>1. RowsSound' /\ RetiredTokenDead' /\ SocketsSpeakForOwners'
  BY <1>b DEF CliSound, RowsSound, RetiredTokenDead, SocketsSpeakForOwners
<1>2. CodesSound'
  BY <1>b, <1>c DEF CliSound, CodesSound
<1>3. MakingSound'
  BY <1>b, <1>c DEF CliSound, MakingSound
<1>4. SocketJobsSound'
  BY <1>b, <1>c DEF CliSound, SocketJobsSound
<1> QED BY <1>1, <1>2, <1>3, <1>4 DEF CliSound

LEMMA JoinSound ==
  ASSUME CliTokensTypeOK, CliSound, NEW c \in Call, Join(c)
  PROVE  CliSound'
<1>a. job \in [Call -> JobRecord] /\ rooms \in [Socket -> SUBSET Owner]
  BY DEF CliTokensTypeOK, JobRecord
<1>b. UNCHANGED <<token, prefixOf, madeFor, retired, open, speaksFor, presented>>
  BY DEF Join, codeVars
<1>c. /\ \A d \in Call \ {c} : job'[d] = job[d]
      /\ job'[c].op = "none" /\ job'[c].at = "over"
  BY <1>a DEF Join, Finish, Done, NoJob
<1>1. RowsSound' /\ RetiredTokenDead'
  BY <1>b DEF CliSound, RowsSound, RetiredTokenDead
<1>2. CodesSound'
  BY <1>b, <1>c DEF CliSound, CodesSound
<1>3. MakingSound'
  BY <1>b, <1>c DEF CliSound, MakingSound
<1>4. SocketJobsSound'
  BY <1>b, <1>c DEF CliSound, SocketJobsSound
<1>5. SocketsSpeakForOwners'
  <2>1. job[c].who \in Owner /\ job[c].socket \in Socket
    BY DEF Join, Is, CliSound, SocketJobsSound
  <2>2. \A t \in Socket : rooms'[t] \subseteq rooms[t] \cup ({speaksFor[t]} \ {Null})
    BY <2>1, <1>a DEF Join
  <2> QED BY <2>2, <1>b DEF CliSound, SocketsSpeakForOwners
<1> QED BY <1>1, <1>2, <1>3, <1>4, <1>5 DEF CliSound

LEMMA FailJobSound ==
  ASSUME CliTokensTypeOK, CliSound, NEW c \in Call, FailJob(c)
  PROVE  CliSound'
<1>a. job \in [Call -> JobRecord] /\ rooms \in [Socket -> SUBSET Owner]
  BY DEF CliTokensTypeOK, JobRecord
<1>b. UNCHANGED <<token, prefixOf, madeFor, retired, speaksFor, presented>>
  BY DEF FailJob, codeVars, Disconnect
<1>c. /\ \A d \in Call \ {c} : job'[d] = job[d]
      /\ job'[c].op = "none" /\ job'[c].at = "over"
  BY <1>a DEF FailJob, Finish, Done, NoJob
<1>1. RowsSound' /\ RetiredTokenDead'
  BY <1>b DEF CliSound, RowsSound, RetiredTokenDead
<1>2. CodesSound'
  BY <1>b, <1>c DEF CliSound, CodesSound
<1>3. MakingSound'
  BY <1>b, <1>c DEF CliSound, MakingSound
<1>4. SocketJobsSound'
  BY <1>b, <1>c DEF CliSound, SocketJobsSound
<1>5. SocketsSpeakForOwners'
  <2>1. \A t \in Socket : rooms'[t] \subseteq rooms[t]
    BY <1>a DEF FailJob, Disconnect
  <2> QED BY <2>1, <1>b DEF CliSound, SocketsSpeakForOwners
<1> QED BY <1>1, <1>2, <1>3, <1>4, <1>5 DEF CliSound

-----------------------------------------------------------------------------
LEMMA StepSound == CliTokensTypeOK /\ CliSound /\ [CliTokensNext]_cliVars => CliSound'
<1> SUFFICES ASSUME CliTokensTypeOK, CliSound, [CliTokensNext]_cliVars PROVE CliSound'
  OBVIOUS
<1>1. CASE UNCHANGED cliVars
  BY <1>1 DEF cliVars, codeVars, socketVars, CliSound, RowsSound, CodesSound, MakingSound,
              SocketJobsSound, RetiredTokenDead, SocketsSpeakForOwners
<1>2. CASE CliTokensNext
  BY <1>2, MakeSound, SaveNewSound, SaveRotatedSound, AuthenticateSound, CompareSound,
     SaveUsedSound, ConfirmAuthSound, SubscribeSound, JoinSound, FailJobSound DEF CliTokensNext
<1> QED BY <1>1, <1>2

LEMMA CliInvariant == CliTokensSpec => [](CliTokensTypeOK /\ CliSound)
<1>1. CliTokensTypeOK /\ CliSound /\ [CliTokensNext]_cliVars => (CliTokensTypeOK /\ CliSound)'
  BY StepTypes, StepSound DEF CliSound
<1> QED BY <1>1, InitTypes, InitSound, PTL DEF CliTokensSpec

(* The type invariant of the tokens: rooms hold users only, and retired    *)
(* codes only, for any number of owners, sockets, prefixes and calls.      *)
THEOREM CliTokensTypes == CliTokensSpec => []CliTokensTypeOK
BY CliInvariant, PTL

(* A CLI socket speaks for, and hears, only users a token of whose it sent *)
(* (cli-token.gateway.ts, handleAuth and handleSubscribe).                 *)
THEOREM SocketsAuthentic == CliTokensSpec => []SocketsSpeakForOwners
<1>1. CliTokensTypeOK /\ CliSound => SocketsSpeakForOwners
  BY DEF CliSound
<1> QED BY <1>1, CliInvariant, PTL

(* The hash that a rotation replaced comes back to no row, whatever saves  *)
(* of authentications and rotations were in flight.                        *)
THEOREM RotationFinal == CliTokensSpec => []RetiredTokenDead
<1>1. CliTokensTypeOK /\ CliSound => RetiredTokenDead
  BY DEF CliSound
<1> QED BY <1>1, CliInvariant, PTL
=============================================================================
