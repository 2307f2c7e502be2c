--------------------------- MODULE PortalAccounts ---------------------------
(***************************************************************************)
(* Accounts, browser sessions and API keys: the handlers of the web portal *)
(* (apps/web/server) that write users, web_sessions and api_keys, and the  *)
(* check of a key by the API (api/auth/apikey.go).  Handlers run           *)
(* concurrently; each is a sequence of autocommitted statements, and what  *)
(* one has read may have changed when it writes.                           *)
(*                                                                         *)
(* Data abstraction: a cookie is the id of its session, an API key the id  *)
(* of its row.  The fourteen days of a session are the flag `expired`,     *)
(* which time may set at any moment and an extension clears.               *)
(***************************************************************************)
EXTENDS Integers, FiniteSets

CONSTANTS
    Accounts,         \* Google accounts (google_sub) that are allowed in
    Addresses,        \* verified addresses, trimmed and in lower case
    Handlers,         \* requests being served at the same time
    MaxUsers,         \* bounds on rows
    MaxSessions,
    MaxKeys,
    MaxMoves,         \* bound on addresses that change hands
    None

ASSUME NoneAssumption == None \notin Accounts \cup Addresses
ASSUME PortalBounds ==
    /\ MaxUsers \in Nat \ {0} /\ MaxSessions \in Nat /\ MaxKeys \in Nat
    /\ MaxMoves \in Nat

VARIABLES
    address,          \* address[a]: the verified address of the account
    moves,            \* addresses that have changed hands
    users,            \* users[u]: [email, sub]
    sessions,         \* sessions[s]: [user, revoked, expired, holder]
    keys,             \* keys[k]: [user, revoked, maker]
    at,               \* the next statement of each handler
    who,              \* its account
    mail,             \* the address in its token
    user,             \* userId of the handler
    item,             \* the session or key it was called with
    ended,            \* history: what sign-outs and revocations have confirmed
    late              \* history: called with something that had ended before

accountVars == <<address, moves>>
handlerVars == <<at, who, mail, user, item, late>>
vars == <<accountVars, users, sessions, keys, handlerVars, ended>>

Users    == 1..MaxUsers
Sessions == 1..MaxSessions
Keys     == 1..MaxKeys
NoUser    == [email |-> None, sub |-> None]
NoSession == [user |-> 0, revoked |-> FALSE, expired |-> FALSE, holder |-> None]
NoKey     == [user |-> 0, revoked |-> FALSE, maker |-> None]

Rows     == {u \in Users : users[u].email # None}
Issued   == {s \in Sessions : sessions[s].user # 0}
Made     == {k \in Keys : keys[k].user # 0}
Unlinked(email) == \E u \in Rows : users[u] = [email |-> email, sub |-> None]

\* google_sub is nullable: a row may have been inserted before its first sign-in.
Init ==
    /\ address \in {f \in [Accounts -> Addresses] :
                      \A a, b \in Accounts : a # b => f[a] # f[b]}
    /\ moves = 0
    /\ \E e \in Addresses \cup {None} :
          users = [u \in Users |-> IF u = 1 THEN [email |-> e, sub |-> None]
                                   ELSE NoUser]
    /\ sessions = [s \in Sessions |-> NoSession]
    /\ keys = [k \in Keys |-> NoKey]
    /\ at = [h \in Handlers |-> "idle"]
    /\ who = [h \in Handlers |-> None]
    /\ mail = [h \in Handlers |-> None]
    /\ user = [h \in Handlers |-> 0]
    /\ item = [h \in Handlers |-> 0]
    /\ late = [h \in Handlers |-> FALSE]
    /\ ended = [sessions |-> {}, keys |-> {}]

Goto(h, label) ==
    /\ at' = [at EXCEPT ![h] = label]
    /\ UNCHANGED <<who, mail, user, item, late>>

\* The handler has answered: its locals are gone.
Answer(h) ==
    /\ at' = [at EXCEPT ![h] = "idle"]
    /\ who' = [who EXCEPT ![h] = None]
    /\ mail' = [mail EXCEPT ![h] = None]
    /\ user' = [user EXCEPT ![h] = 0]
    /\ item' = [item EXCEPT ![h] = 0]
    /\ late' = [late EXCEPT ![h] = FALSE]

-----------------------------------------------------------------------------
(* Google accounts *)

\* An account moves to an address nobody has, and the one it had is free for
\* others.  An address that a row waits for does not change hands while a
\* sign-in with it is being served.
MoveAddress(a, e) ==
    /\ moves < MaxMoves
    /\ \A b \in Accounts : address[b] # e
    /\ Unlinked(address[a]) => \A h \in Handlers : mail[h] # address[a]
    /\ moves' = moves + 1
    /\ address' = [address EXCEPT ![a] = e]
    /\ UNCHANGED <<users, sessions, keys, handlerVars, ended>>

-----------------------------------------------------------------------------
(* The sign-in callback *)

\* finishGoogleFlow has verified the token of an allowed account.
SignIn(h, a) ==
    /\ at[h] = "idle"
    /\ at' = [at EXCEPT ![h] = "findBySub"]
    /\ who' = [who EXCEPT ![h] = a]
    /\ mail' = [mail EXCEPT ![h] = address[a]]
    /\ UNCHANGED <<accountVars, users, sessions, keys, user, item, late,
                   ended>>

\* select id from users where <column> = <value> limit 1; 0 is "no row".
Lookup(column, value) ==
    CHOOSE u \in Users \cup {0} :
        IF \E v \in Rows : users[v][column] = value
        THEN u \in Rows /\ users[u][column] = value
        ELSE u = 0

\* Mutant: the first row is taken even when there is none.
FindBySubUnchecked(h) ==
    /\ at[h] = "findBySub"
    /\ at' = [at EXCEPT ![h] = "updateUser"]
    /\ user' = [user EXCEPT ![h] = Lookup("sub", who[h])]
    /\ UNCHANGED <<accountVars, users, sessions, keys, who, mail, item,
                   late, ended>>

FindBySub(h) ==
    LET u == Lookup("sub", who[h]) IN
    /\ at[h] = "findBySub"
    /\ at' = [at EXCEPT ![h] = IF u = 0 THEN "findByEmail" ELSE "updateUser"]
    /\ user' = [user EXCEPT ![h] = u]
    /\ UNCHANGED <<accountVars, users, sessions, keys, who, mail, item,
                   late, ended>>

\* The UNIQUE constraints of users: another row has this value.
Taken(column, value, u) == \E v \in Rows \ {u} : users[v][column] = value

UpdateUser(h) ==
    /\ at[h] = "updateUser"
    /\ IF Taken("email", mail[h], user[h])
       THEN Answer(h) /\ UNCHANGED users
       ELSE /\ users' = [users EXCEPT ![user[h]].email = mail[h]]
            /\ Goto(h, "createSession")
    /\ UNCHANGED <<accountVars, sessions, keys, ended>>

\* Mutant: a row of any account is linked.
LinkedElsewhereNever(u, a) == FALSE
\* Mutant: a row that waits for its first sign-in counts as linked.
LinkedElsewhereStrict(u, a) == users[u].sub # a
LinkedElsewhere(u, a) == users[u].sub \notin {None, a}

FindByEmail(h) ==
    LET u == Lookup("email", mail[h]) IN
    /\ at[h] = "findByEmail"
    /\ IF u # 0 /\ LinkedElsewhere(u, who[h])
       THEN Answer(h)                                  \* 409
       ELSE /\ at' = [at EXCEPT ![h] = IF u = 0 THEN "insertUser" ELSE "linkUser"]
            /\ user' = [user EXCEPT ![h] = u]
            /\ UNCHANGED <<who, mail, item, late>>
    /\ UNCHANGED <<accountVars, users, sessions, keys, ended>>

\* The row is the one found by address, whatever has happened to it since.
LinkUser(h) ==
    /\ at[h] = "linkUser"
    /\ IF Taken("sub", who[h], user[h])
       THEN Answer(h) /\ UNCHANGED users
       ELSE /\ users' = [users EXCEPT ![user[h]].sub = who[h]]
            /\ Goto(h, "createSession")
    /\ UNCHANGED <<accountVars, sessions, keys, ended>>

InsertUser(h) ==
    /\ at[h] = "insertUser"
    /\ IF Taken("sub", who[h], 0) \/ Taken("email", mail[h], 0)
       THEN Answer(h) /\ UNCHANGED users
       ELSE \E u \in Users \ Rows :
              /\ \A v \in Users \ Rows : u <= v
              /\ users' = [users EXCEPT ![u] =
                             [email |-> mail[h], sub |-> who[h]]]
              /\ at' = [at EXCEPT ![h] = "createSession"]
              /\ user' = [user EXCEPT ![h] = u]
              /\ UNCHANGED <<who, mail, item, late>>
    /\ UNCHANGED <<accountVars, sessions, keys, ended>>

\* createSession, and the cookie that goes with the redirect.
CreateSession(h) ==
    /\ at[h] = "createSession"
    /\ \E s \in Sessions \ Issued :
          /\ \A t \in Sessions \ Issued : s <= t
          /\ sessions' = [sessions EXCEPT ![s] =
                            [user |-> user[h], revoked |-> FALSE,
                             expired |-> FALSE, holder |-> who[h]]]
    /\ Answer(h)
    /\ UNCHANGED <<accountVars, users, keys, ended>>

-----------------------------------------------------------------------------
(* Requests with a session cookie *)

Valid(s) == ~sessions[s].revoked /\ ~sessions[s].expired

\* getSessionUser: the SELECT of a valid session.  The second SELECT, of the
\* row's secret, reads what never changes, and no code sets users.disabled_at,
\* which is checked as well.  An invalid session is answered 401, which changes
\* nothing.
CheckSession(h, s) ==
    /\ at[h] = "idle"
    /\ s \in Issued /\ Valid(s)
    /\ at' = [at EXCEPT ![h] = "extend"]
    /\ who' = [who EXCEPT ![h] = sessions[s].holder]
    /\ user' = [user EXCEPT ![h] = sessions[s].user]
    /\ item' = [item EXCEPT ![h] = s]
    /\ late' = [late EXCEPT ![h] = s \in ended.sessions]
    /\ UNCHANGED <<accountVars, users, sessions, keys, mail, ended>>

\* Mutant: the row is written back as it was read.
ExtendRow(h) ==
    /\ at[h] = "extend"
    /\ sessions' = [sessions EXCEPT ![item[h]].expired = FALSE,
                                    ![item[h]].revoked = FALSE]
    /\ Goto(h, "act")
    /\ UNCHANGED <<accountVars, users, keys, ended>>

\* update web_sessions set expires_at: unconditional, only this column.
Extend(h) ==
    /\ at[h] = "extend"
    /\ sessions' = [sessions EXCEPT ![item[h]].expired = FALSE]
    /\ Goto(h, "act")
    /\ UNCHANGED <<accountVars, users, keys, ended>>

CreateKey(h) ==
    /\ at[h] = "act"
    /\ \E k \in Keys \ Made :
          /\ \A j \in Keys \ Made : k <= j
          /\ keys' = [keys EXCEPT ![k] = [user |-> user[h], revoked |-> FALSE,
                                          maker |-> who[h]]]
    /\ Answer(h)
    /\ UNCHANGED <<accountVars, users, sessions, ended>>

\* The answer is "revoked" for any id, but only an own key is.
RevokeKey(h, k) ==
    /\ at[h] = "act"
    /\ k \in Made /\ keys[k].user = user[h]
    /\ keys' = [keys EXCEPT ![k].revoked = TRUE]
    /\ ended' = [ended EXCEPT !.keys = @ \cup {k}]
    /\ Answer(h)
    /\ UNCHANGED <<accountVars, users, sessions>>

\* The session check, the list of keys, the dashboard, or the id of a key the
\* user does not own: nothing is written.
ReadOnly(h) ==
    /\ at[h] = "act"
    /\ Answer(h)
    /\ UNCHANGED <<accountVars, users, sessions, keys, ended>>

\* destroySession: one UPDATE, whatever the state of the session.
SignOut(s) ==
    /\ s \in Issued
    /\ sessions' = [sessions EXCEPT ![s].revoked = TRUE]
    /\ ended' = [ended EXCEPT !.sessions = @ \cup {s}]
    /\ UNCHANGED <<accountVars, users, keys, handlerVars>>

\* Fourteen days without an extension.
Expire(s) ==
    /\ s \in Issued /\ ~sessions[s].expired
    /\ sessions' = [sessions EXCEPT ![s].expired = TRUE]
    /\ UNCHANGED <<accountVars, users, keys, handlerVars, ended>>

-----------------------------------------------------------------------------
(* Requests to the API *)

\* Authenticate with a well-formed key: the record is loaded and checked.  A key
\* that is malformed, unknown, revoked or has the wrong secret is refused, as it
\* is when the database fails, and nothing changes.  No code sets expires_at of a
\* key, which is checked as well.
Authenticate(h, k) ==
    /\ at[h] = "idle"
    /\ k \in Made /\ ~keys[k].revoked
    /\ at' = [at EXCEPT ![h] = "touchKey"]
    /\ item' = [item EXCEPT ![h] = k]
    /\ late' = [late EXCEPT ![h] = k \in ended.keys]
    /\ UNCHANGED <<accountVars, users, sessions, keys, who, mail, user,
                   ended>>

\* TouchAPIKeyLastUsed writes one column nobody checks, its error is ignored,
\* and the request is served.
TouchKey(h) ==
    /\ at[h] = "touchKey"
    /\ Answer(h)
    /\ UNCHANGED <<accountVars, users, sessions, keys, ended>>

-----------------------------------------------------------------------------

\* A statement fails, or the process stops: what was written stays.
HandlerFails(h) ==
    /\ at[h] # "idle"
    /\ Answer(h)
    /\ UNCHANGED <<accountVars, users, sessions, keys, ended>>

Callback(h) ==
    \/ FindBySub(h) \/ UpdateUser(h) \/ FindByEmail(h) \/ LinkUser(h)
    \/ InsertUser(h) \/ CreateSession(h)
Portal(h) ==
    \/ Extend(h) \/ CreateKey(h) \/ ReadOnly(h)
    \/ \E k \in Keys : RevokeKey(h, k)
HandlerStep(h) == Callback(h) \/ Portal(h) \/ TouchKey(h)
Arrive(h) ==
    \/ \E a \in Accounts : SignIn(h, a)
    \/ \E s \in Sessions : CheckSession(h, s)
    \/ \E k \in Keys : Authenticate(h, k)

Next ==
    \/ \E a \in Accounts, e \in Addresses : MoveAddress(a, e)
    \/ \E h \in Handlers : Arrive(h) \/ HandlerStep(h) \/ HandlerFails(h)
    \/ \E s \in Sessions : SignOut(s) \/ Expire(s)

Spec == Init /\ [][Next]_vars

-----------------------------------------------------------------------------
(* Properties *)

Labels == {"idle", "findBySub", "updateUser", "findByEmail", "linkUser",
           "insertUser", "createSession", "extend", "act", "touchKey"}

\* Variables are in their domains, a handler past the lookup of its user holds a
\* row, one working for a session holds an issued one, and every session and key
\* belongs to a row.
PortalTypeOK ==
    /\ address \in [Accounts -> Addresses]
    /\ moves \in 0..MaxMoves
    /\ users \in [Users -> [email : Addresses \cup {None},
                            sub : Accounts \cup {None}]]
    /\ sessions \in [Sessions -> [user : Users \cup {0}, revoked : BOOLEAN,
                                  expired : BOOLEAN,
                                  holder : Accounts \cup {None}]]
    /\ keys \in [Keys -> [user : Users \cup {0}, revoked : BOOLEAN,
                          maker : Accounts \cup {None}]]
    /\ at \in [Handlers -> Labels]
    /\ who \in [Handlers -> Accounts \cup {None}]
    /\ mail \in [Handlers -> Addresses \cup {None}]
    /\ user \in [Handlers -> Users \cup {0}]
    /\ item \in [Handlers -> Nat]
    /\ late \in [Handlers -> BOOLEAN]
    /\ ended \in [sessions : SUBSET Issued, keys : SUBSET Made]
    /\ \A h \in Handlers :
          /\ at[h] \in {"updateUser", "linkUser", "createSession", "extend",
                        "act"} => user[h] \in Rows
          /\ at[h] \in {"extend", "act"} => item[h] \in Issued
    /\ \A s \in Issued : sessions[s].user \in Rows
    /\ \A k \in Made : keys[k].user \in Rows

\* Two sessions or keys belong to one account exactly when they are stored for
\* one user, although sign-ins race each other between their lookups and writes
\* and addresses change hands.  So an account lists and revokes all of its keys
\* and nobody else's.
AccountIsolation ==
    /\ \A s \in Issued, t \in Issued :
          sessions[s].holder = sessions[t].holder
              <=> sessions[s].user = sessions[t].user
    /\ \A s \in Issued, k \in Made :
          sessions[s].holder = keys[k].maker <=> sessions[s].user = keys[k].user
    /\ \A j \in Made, k \in Made :
          keys[j].maker = keys[k].maker <=> keys[j].user = keys[k].user

\* Once a sign-out or a revocation has been answered, no later request passes
\* with that cookie or key, whatever the requests that were being served at the
\* time still write.
EndedIsFinal ==
    \A h \in Handlers : at[h] \in {"extend", "act", "touchKey"} => ~late[h]

HasRow(a) == \E u \in Rows : users[u].sub = a
Refused(h) ==
    /\ FindByEmail(h) \/ LinkUser(h) \/ InsertUser(h) \/ UpdateUser(h)
    /\ at'[h] = "idle"

\* The address of the sign-in is on a row linked to another account.
HeldByOther(h) ==
    \E u \in Rows : /\ users[u].email = mail[h]
                   /\ users[u].sub \in Accounts \ {who[h]}

\* A sign-in is turned away for one of three reasons.  Its address is on a row
\* linked to another account.  Or the account has a row, and its new address is
\* on a row that still waits for a first sign-in: the UNIQUE constraint refuses
\* the update, at every attempt as long as that row has the address.  Or it is a
\* first sign-in that lost a race on a unique constraint to another one of its
\* own account, whose row the next attempt finds.  So the row that waits for an
\* account without a row never turns it away.
RefusalIsJustified ==
    [][\A h \in Handlers :
          Refused(h) =>
             \/ HeldByOther(h)
             \/ at[h] = "updateUser" /\ Unlinked(mail[h])
             \/ at[h] \in {"linkUser", "insertUser"} /\ HasRow(who[h])]_vars

=============================================================================
