----------------------------- MODULE DataStores -----------------------------
(***************************************************************************)
(* The tables an application keeps in SQLite: the accounts, which requests  *)
(* of several connections sign up, log in, update and delete, and the files *)
(* of its users. The web server has a thread for each connection, and all   *)
(* of them one connection to the database: another request may come between *)
(* any two calls of a handler. A statement is one step of SQLite; prepare,  *)
(* bind or step may fail. Then the signed tokens that accounts are given.   *)
(***************************************************************************)
EXTENDS Integers, Sequences, FiniteSets, FiniteSetsExt, SequencesExt, TLC

CONSTANTS Clients,        \* connections
          Bodies,         \* what is received: records with some of name, email and password; none of
                          \* them stands for what is no JSON too
          MaxDay,         \* how many days pass
          MaxAccepted,    \* how many requests are ever accepted
          Owners,         \* user ids of files
          MaxWrites       \* how often files are written

VARIABLES listening,      \* the listeners of the executor, in the order they were added
          database,       \* whether it is open
          users,          \* rows of the table users: a password stands for its hash and salt
          changes,        \* how many rows the last statement changed, of whatever thread
          requests,       \* by client
          tokens,         \* every token given to a client
          now,            \* in days
          accepted,
          ever,           \* every id with the name it had
          files,          \* rows of the table files
          writes
accountVars == <<listening, database, users, changes, requests, tokens, now, accepted, ever>>
fileVars == <<files, writes>>

NoRequest == [at |-> "idle"]
StoreInit ==
  /\ listening = << >> /\ database = FALSE
  /\ users = {} /\ tokens = {} /\ ever = {} /\ changes = 0
  /\ requests = [c \in Clients |-> NoRequest]
  /\ now = 0 /\ accepted = 0
  /\ files = {} /\ writes = 0

-----------------------------------------------------------------------------
(* libnetq/sql/UserDataStore.c: what each query does to the table.            *)

Named(email) == { u \in users : u.email = email }

(* SQLite gives a row without a number the one behind the greatest. *)
NextId == IF users = {} THEN 1 ELSE Max({ u.id : u \in users }) + 1
SignupQuery(email, password) ==
  /\ Named(email) = {}
  /\ users' = users \union {[id |-> NextId, email |-> email, password |-> password]}
  /\ changes' = 1
  /\ ever' = ever \union {<<NextId, email>>}

LoginQuery(email, password) == \E u \in Named(email) : u.password = password

UpdateQuery(email, password) ==
  /\ users' = { IF u.email = email THEN [u EXCEPT !.password = password] ELSE u : u \in users }
  /\ changes' = Cardinality(Named(email))
  /\ UNCHANGED ever

DeleteQuery(email) ==
  /\ users' = users \ Named(email)
  /\ changes' = Cardinality(Named(email))
  /\ UNCHANGED ever

-----------------------------------------------------------------------------
(* libnetq/crypto/openssl/JWT.c: a token is its header, its payload and the digest of
   both under the key; alg2md knows the algorithms, "none" makes no digest. *)

Algorithms == {"none", "HS256", "HS384", "HS512"}
NoToken == << >>
NoSignature == << >>
NoJWT == [token |-> NoToken]
Digest(header, payload, seckey) == <<header, payload, seckey>>

NQJWT_create(alg) == [header |-> [alg |-> alg, typ |-> "JWT"], claims |-> << >>, token |-> NoToken]
NQJWT_claimSet(jwt, name, value) ==
  [jwt EXCEPT !.claims = [n \in DOMAIN @ \cup {name} |-> IF n = name THEN value ELSE jwt.claims[n]]]

(* NQJWT_sign: a key for "none", or none for another algorithm, leaves no token. *)
NQJWT_sign(jwt, seckey) ==
  LET signs == jwt.header.alg # "none"
  IN [jwt EXCEPT !.token = IF signs = (seckey = "") THEN NoToken
        ELSE <<jwt.header, jwt.claims, IF signs THEN Digest(jwt.header, jwt.claims, seckey) ELSE NoSignature>>]

NQJWT_parse(token, seckey) ==
  LET header == token[1]
      signed == header.alg # "none"
  IN IF /\ Len(token) = 3   \* NQJWTTokenInfoParse
        /\ header.typ = "JWT" /\ header.alg \in Algorithms
        /\ signed = (token[3] # NoSignature)
        /\ signed => token[3] = Digest(header, token[2], seckey)
     THEN [header |-> header, claims |-> token[2], token |-> token]
     ELSE NoJWT

-----------------------------------------------------------------------------
(* libnetq/web/WebUsersRestExecutor.c: a request from its body to its reply.  *)

Operations == <<"signup", "login", "update", "delete">>

(* NQWebUsersRestListenersInit: the database, then a listener for each operation; what
   cannot be added takes everything back, the latest first. *)
Withdrawn(list) == RemoveFirst(RemoveFirst(RemoveFirst(list, "update"), "login"), "signup")
ListenersInit(added) ==
  /\ ~database /\ added \in 0 .. Len(Operations)
  /\ listening' = IF added = Len(Operations) THEN Operations ELSE Withdrawn(SubSeq(Operations, 1, added))
  /\ database' = (added = Len(Operations))
  /\ UNCHANGED <<users, changes, requests, tokens, now, accepted, ever>>

(* While no request is with the listeners: the server has stopped. *)
ListenersFinalize ==
  /\ database /\ \A c \in Clients : requests[c].at = "idle"
  /\ listening' = Withdrawn(RemoveFirst(listening, "delete"))
  /\ database' = FALSE
  /\ UNCHANGED <<users, changes, requests, tokens, now, accepted, ever>>

Required(op) ==
  CASE op = "signup" -> {"name", "email", "password"}
    [] op \in {"login", "update"} -> {"email", "password"}
    [] op = "delete" -> {"email"}

TooShort(password) == password = "short"

UserCredential_parse(body, op) == Required(op) \subseteq DOMAIN body

sessionSeckey == "key"
OneDay == 1
Text(number) == ToString(number)
NQSimpleStrtoul(text) == CHOOSE n \in 0 .. MaxAccepted : Text(n) = text
BuildJWT(sub) ==
  LET jwt == NQJWT_claimSet(NQJWT_claimSet(NQJWT_claimSet(NQJWT_create("HS256"), "iss", now), "exp", now + OneDay), "sub", Text(sub))
  IN NQJWT_sign(jwt, sessionSeckey).token
ParseJWT(token) == LET claims == NQJWT_parse(token, sessionSeckey).claims IN [exp |-> claims.exp, sub |-> NQSimpleStrtoul(claims.sub)]
GetJWTClaims(token) == NQJWT_parse(token, sessionSeckey) # NoJWT /\ ~(ParseJWT(token).exp < now)

Reply(c, status) == requests' = [requests EXCEPT ![c] = [@ EXCEPT !.at = "done", !.status = status]]
Goto(c, at) == requests' = [requests EXCEPT ![c] = [@ EXCEPT !.at = at]]

TokensAtHand == {NoToken} \union { t.token : t \in tokens }

(* commonInit and commonPostReceive: the body is complete. *)
Receive(c, op, body, token) ==
  /\ requests[c].at = "idle" /\ accepted < MaxAccepted
  /\ op \in Range(listening) /\ token \in TokensAtHand
  /\ op \in {"signup", "login"} => token = NoToken
  /\ accepted' = accepted + 1
  /\ requests' = [requests EXCEPT ![c] = [at |-> "received", op |-> op, body |-> body, token |-> token,
                                          status |-> 0, changed |-> FALSE, alone |-> TRUE]]
  /\ UNCHANGED <<listening, database, users, changes, tokens, now, ever>>

(* Everything a handler looks at before its first statement. *)
Check(c) ==
  LET r == requests[c]
      guarded == r.op \in {"update", "delete"}
  IN /\ r.at = "received"
     /\ IF guarded /\ ~GetJWTClaims(r.token) THEN Reply(c, 401)
        ELSE IF ~UserCredential_parse(r.body, r.op) THEN Reply(c, 400)
        ELSE IF r.op = "signup" /\ TooShort(r.body.password) THEN Reply(c, 400)
        ELSE Goto(c, IF guarded THEN "permission" ELSE r.op)
     /\ UNCHANGED <<listening, database, users, changes, tokens, now, accepted, ever>>

(* A statement of c that changes rows, or should have: whoever has not asked yet how
   many its own changed will be told of this one. *)
Writes(c, r) ==
  requests' = [d \in Clients |->
    CASE d = c -> r
      [] d # c /\ requests[d].at = "changes" -> [requests[d] EXCEPT !.alone = FALSE]
      [] OTHER -> requests[d]]
Done(c, at) == Writes(c, [requests[c] EXCEPT !.at = at, !.changed = changes' > 0])

(* Any statement may fail, and does where the name is taken: the handler then says 500. *)
StatementFails(c) ==
  /\ \/ requests[c].at \in {"login", "permission", "userId"} /\ Reply(c, 500) /\ UNCHANGED changes
     \/ /\ requests[c].at \in {"signup", "update", "delete"}
        /\ Writes(c, [requests[c] EXCEPT !.at = "done", !.status = 500])
        /\ changes' \in {0, changes}
  /\ UNCHANGED <<listening, database, users, tokens, now, accepted, ever>>

SignupPost(c) ==
  LET body == requests[c].body
  IN /\ requests[c].at = "signup"
     /\ SignupQuery(body.email, body.password)
     /\ Done(c, "userId")
     /\ UNCHANGED <<listening, database, tokens, now, accepted>>

LoginPost(c) ==
  LET body == requests[c].body
  IN /\ requests[c].at = "login"
     /\ IF LoginQuery(body.email, body.password) THEN Goto(c, "userId") ELSE Reply(c, 500)
     /\ UNCHANGED <<listening, database, users, changes, tokens, now, accepted, ever>>

(* commonPostResponse: the id is read by a statement of its own. *)
CommonPostResponse(c) ==
  LET email == requests[c].body.email
  IN /\ requests[c].at = "userId"
     /\ \/ Named(email) = {} /\ Reply(c, 500) /\ UNCHANGED tokens
        \/ \E u \in Named(email) :
             tokens' = tokens \union {[token |-> BuildJWT(u.id), sub |-> u.id, given |-> email]} /\ Reply(c, 200)
     /\ UNCHANGED <<listening, database, users, changes, now, accepted, ever>>

(* Whether the account is the token's; update looks at the password only now. *)
Permission(c) ==
  LET r == requests[c]
  IN /\ r.at = "permission"
     /\ \/ Named(r.body.email) = {} /\ Reply(c, 500)
        \/ \E u \in Named(r.body.email) :
             IF u.id # ParseJWT(r.token).sub THEN Reply(c, IF r.op = "update" THEN 401 ELSE 400)
             ELSE IF r.op = "update" /\ TooShort(r.body.password) THEN Reply(c, 400) ELSE Goto(c, r.op)
     /\ UNCHANGED <<listening, database, users, changes, tokens, now, accepted, ever>>

UpdatePost(c) ==
  LET body == requests[c].body
  IN /\ requests[c].at = "update"
     /\ UpdateQuery(body.email, body.password)
     /\ Done(c, "changes")
     /\ UNCHANGED <<listening, database, tokens, now, accepted>>

DeletePost(c) ==
  /\ requests[c].at = "delete"
  /\ DeleteQuery(requests[c].body.email)
  /\ Done(c, "changes")
  /\ UNCHANGED <<listening, database, tokens, now, accepted>>

(* NQSQLiteStatement_changes: a call of its own, about the last statement of anybody. *)
Changes(c) ==
  /\ requests[c].at = "changes"
  /\ Reply(c, IF changes = 0 THEN 500 ELSE 200)
  /\ UNCHANGED <<listening, database, users, changes, tokens, now, accepted, ever>>

CommonPostRelease(c) ==
  /\ requests[c].at = "done"
  /\ requests' = [requests EXCEPT ![c] = NoRequest]
  /\ UNCHANGED <<listening, database, users, changes, tokens, now, accepted, ever>>

DayPasses == now < MaxDay /\ now' = now + 1 /\ UNCHANGED <<listening, database, users, changes, requests, tokens, accepted, ever>>

AccountsNext ==
  /\ \/ \E c \in Clients :
          \/ \E op \in Range(Operations), body \in Bodies, token \in TokensAtHand :
               Receive(c, op, body, token)
          \/ Check(c) \/ StatementFails(c) \/ SignupPost(c) \/ LoginPost(c) \/ CommonPostResponse(c)
          \/ Permission(c) \/ UpdatePost(c) \/ DeletePost(c) \/ Changes(c) \/ CommonPostRelease(c)
     \/ DayPasses
     \/ ListenersFinalize \/ \E added \in 0 .. Len(Operations) : ListenersInit(added)
  /\ UNCHANGED fileVars

(* A reply says what happened to the table: 200 that the account was changed, 400 and
   401 that it was not; 500 leaves that open for an account just signed up only. This
   holds of update and delete unless another statement came before the count was read.
   A token names an id that its account had, and is read back, under its key and with
   its own parts only. (WebUsersRestExecutor.c, UserDataStore.c, JWT.c.) *)
RepliesMatch ==
  \A c \in Clients : requests[c].at = "done" =>
    LET r == requests[c]
    IN /\ r.status = 200 /\ r.alone => (r.changed <=> r.op # "login")
       /\ r.status \in {400, 401} => ~r.changed
       /\ r.status = 500 /\ r.changed /\ r.alone => r.op = "signup"
ListenersMatch == IF database THEN listening = Operations ELSE listening = << >>
TokensMatch ==
  \A t \in tokens :
    /\ <<t.sub, t.given>> \in ever /\ ParseJWT(t.token).sub = t.sub
    /\ \A u \in tokens : NQJWT_parse([t.token EXCEPT ![2] = u.token[2]], sessionSeckey) # NoJWT => t.token[2] = u.token[2]
    /\ NQJWT_parse(SubSeq(t.token, 1, 2) \o <<NoSignature>>, sessionSeckey) = NoJWT
    /\ NQJWT_parse(t.token, "other key") = NoJWT
AccountsDiffer == \A u, v \in users : u.id = v.id \/ u.email = v.email => u = v
RepliesTellTruth == RepliesMatch /\ ListenersMatch /\ TokensMatch /\ AccountsDiffer

-----------------------------------------------------------------------------
(* libnetq/sql/UrlDataStore.c: the files. A path is the names on it; slash    *)
(* says that it ends with a separator. A directory is a row without a value.  *)

Directory == "NULL"
Names == {"a", "b"}
FilePaths == [names : UNION { [1 .. n -> Names] : n \in 0 .. 3 }, slash : BOOLEAN]
Writable(path) == path.names # << >> /\ ~path.slash

Row(owner, path) == { f \in files : f.user = owner /\ f.dir = Front(path.names) /\ f.base = Last(path.names) }

(* readRequest: what is read of a directory, or of nothing, is an error; what is read
   of a path that cannot be is nothing: NQUrlDataStoreRead says false there, which is 0. *)
NQUrlDataStoreRead(owner, path) ==
  CASE ~Writable(path) -> ""
    [] Writable(path) /\ \E f \in Row(owner, path) : f.value # Directory ->
         (CHOOSE f \in Row(owner, path) : TRUE).value
    [] OTHER -> "error"

(* WRITE_QUERY1 and WRITE_QUERY2: below the root, only what lies in a directory is
   written. Nothing is said when it is not. *)
MayWrite(owner, path) ==
  Len(path.names) = 1 \/ \E f \in Row(owner, [path EXCEPT !.names = Front(@)]) : f.value = Directory
Written(owner, path, value) ==
  (files \ Row(owner, path)) \union {[user |-> owner, dir |-> Front(path.names), base |-> Last(path.names), value |-> value]}

UrlDataStoreWrite(owner, path, value) ==
  /\ writes < MaxWrites /\ writes' = writes + 1
  /\ Writable(path)
  /\ files' = IF MayWrite(owner, path) THEN Written(owner, path, value) ELSE files

NQUrlDataStoreWrite(owner, path) == \E value \in {"", "text"} : UrlDataStoreWrite(owner, path, value)
NQUrlDataStoreMkdir(owner, path) == UrlDataStoreWrite(owner, path, Directory)

(* listRequest: no row has a directory with a separator at its end. *)
NQUrlDataStoreList(owner, path) ==
  IF path.slash /\ path.names # << >> THEN {}
  ELSE { [name |-> f.base, value |-> f.value] : f \in { f \in files : f.user = owner /\ f.dir = path.names } }

FilesNext ==
  /\ \E owner \in Owners, path \in FilePaths : NQUrlDataStoreWrite(owner, path) \/ NQUrlDataStoreMkdir(owner, path)
  /\ UNCHANGED accountVars

(* Every file lies in something that was written before it, back to the root, although
   a directory can be overwritten by a file, and is listed there once, with what reading
   it gives. *)
FilesAreFound ==
  \A f \in files :
    LET path == [names |-> Append(f.dir, f.base), slash |-> FALSE]
        entry == { e \in NQUrlDataStoreList(f.user, [names |-> f.dir, slash |-> FALSE]) : e.name = f.base }
    IN /\ f.dir # << >> => Cardinality(Row(f.user, [names |-> f.dir, slash |-> FALSE])) = 1
       /\ entry = {[name |-> f.base, value |-> f.value]}
       /\ NQUrlDataStoreRead(f.user, path) = IF f.value = Directory THEN "error" ELSE f.value
=============================================================================
