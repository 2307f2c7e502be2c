------------------------ MODULE PortalAccountsProofs ------------------------
(***************************************************************************)
(* Proofs about PortalAccounts: for any number of accounts, addresses,     *)
(* concurrent handlers, rows, sessions and keys, and every interleaving of *)
(* the statements of the handlers.                                         *)
(*                                                                         *)
(* What everything rests on is that a row, once it belongs to an account,  *)
(* belongs to it for good: a handler writes google_sub without looking     *)
(* again, and what it has seen may be old.                                 *)
(***************************************************************************)
EXTENDS PortalAccounts, TLAPS

-----------------------------------------------------------------------------
(* The inductive invariant *)

HandlerDomains ==
    /\ at \in [Handlers -> Labels]
    /\ who \in [Handlers -> Accounts \cup {None}]
    /\ mail \in [Handlers -> Addresses \cup {None}]
    /\ user \in [Handlers -> Users \cup {0}]
    /\ item \in [Handlers -> Nat]
    /\ late \in [Handlers -> BOOLEAN]

DataDomains ==
    /\ address \in [Accounts -> Addresses]
    /\ moves \in 0..MaxMoves
    /\ users \in [Users -> [email : Addresses \cup {None},
                            sub : Accounts \cup {None}]]
    /\ sessions \in [Sessions -> [user : Users \cup {0}, revoked : BOOLEAN,
                                  expired : BOOLEAN,
                                  holder : Accounts \cup {None}]]
    /\ keys \in [Keys -> [user : Users \cup {0}, revoked : BOOLEAN,
                          maker : Accounts \cup {None}]]
    /\ ended \in [sessions : SUBSET Sessions, keys : SUBSET Keys]

AddressesDistinct == \A a, b \in Accounts : a # b => address[a] # address[b]

\* The UNIQUE constraint on google_sub.
UniqueSub ==
    \A u, v \in Rows : users[u].sub # None /\ users[u].sub = users[v].sub => u = v

\* The row is the account's.
Owns(a, u) == a \in Accounts /\ u \in Rows /\ users[u].sub = a

\* What a handler at one of its statements knows of the rows: a sign-in that
\* waits to link a row may have been overtaken only by its own account, because
\* the address the row waits for is that account's.
HandlerOK(h) ==
    /\ at[h] \in {"findBySub", "findByEmail", "linkUser", "insertUser", "updateUser"}
          => who[h] \in Accounts /\ mail[h] \in Addresses
    /\ at[h] \in {"findBySub", "findByEmail", "linkUser"} /\ Unlinked(mail[h])
          => address[who[h]] = mail[h]
    /\ at[h] = "linkUser" =>
          /\ user[h] \in Rows
          /\ \/ users[user[h]] = [email |-> mail[h], sub |-> None]
             \/ users[user[h]].sub = who[h]
    /\ at[h] = "insertUser" => ~Unlinked(mail[h])
    /\ at[h] \in {"updateUser", "createSession", "extend", "act"}
          => Owns(who[h], user[h])
    /\ at[h] \in {"extend", "act"} => item[h] \in Issued
    /\ at[h] \in {"extend", "act", "touchKey"} => ~late[h]

HandlersOK == \A h \in Handlers : HandlerOK(h)

SessionsOwned == \A s \in Issued : Owns(sessions[s].holder, sessions[s].user)
KeysOwned     == \A k \in Made : Owns(keys[k].maker, keys[k].user)

\* What is reported as ended is revoked.
EndedRevoked ==
    /\ \A s \in ended.sessions : s \in Issued /\ sessions[s].revoked
    /\ \A k \in ended.keys : k \in Made /\ keys[k].revoked

RowsInv == AddressesDistinct /\ UniqueSub /\ SessionsOwned /\ KeysOwned /\ EndedRevoked

PortalInv == HandlerDomains /\ DataDomains /\ RowsInv /\ HandlersOK

-----------------------------------------------------------------------------
(* What a step leaves alone *)

\* The handlers other than h are where they were.
OthersWait(h) ==
    \A g \in Handlers \ {h} :
        /\ at'[g] = at[g] /\ who'[g] = who[g] /\ mail'[g] = mail[g]
        /\ user'[g] = user[g] /\ item'[g] = item[g] /\ late'[g] = late[g]

\* Rows stay, linked ones keep their account, and one that is not linked has
\* not changed at all.
RowStep ==
    /\ Rows \subseteq Rows'
    /\ \A u \in Rows : users[u].sub # None => users'[u].sub = users[u].sub
    /\ \A u \in Rows' : users'[u].sub = None => users'[u] = users[u]

LEMMA OwnsKept ==
    ASSUME RowStep
    PROVE  \A a, u : Owns(a, u) => u \in Rows' /\ users'[u].sub = a
  BY NoneAssumption DEF RowStep, Owns

LEMMA UnlinkedShrinks ==
    ASSUME RowStep, NEW e
    PROVE  (\E u \in Rows' : users'[u] = [email |-> e, sub |-> None]) => Unlinked(e)
<1> SUFFICES ASSUME NEW u \in Rows', users'[u] = [email |-> e, sub |-> None]
             PROVE  Unlinked(e)
  OBVIOUS
<1>1. users'[u] = users[u]
  BY DEF RowStep
<1>2. u \in Rows
  BY <1>1 DEF Rows
<1> QED BY <1>1, <1>2 DEF Unlinked

LEMMA RowsAlone ==
    ASSUME users' = users
    PROVE  RowStep
  BY DEF RowStep, Rows

\* A handler that waits is not disturbed by what happens to the rows, unless
\* it is about to link one that has changed.
LEMMA WaitingHandler ==
    ASSUME NEW g \in Handlers, HandlerOK(g), RowStep, address' = address,
           Issued \subseteq Issued',
           at'[g] = at[g], who'[g] = who[g], mail'[g] = mail[g],
           user'[g] = user[g], item'[g] = item[g], late'[g] = late[g],
           at[g] = "linkUser" =>
               \/ users'[user[g]] = users[user[g]]
               \/ users'[user[g]].sub = who[g]
    PROVE  HandlerOK(g)'
<1>1. Unlinked(mail[g])' => Unlinked(mail[g])
  BY UnlinkedShrinks DEF Unlinked
<1>2. Owns(who[g], user[g]) => Owns(who[g], user[g])'
  BY OwnsKept DEF Owns
<1>3. Rows \subseteq Rows'
  BY DEF RowStep
<1> QED BY <1>1, <1>2, <1>3 DEF HandlerOK

\* A handler that answers is idle, and nothing is asked of it.
LEMMA Answered ==
    ASSUME HandlerDomains, NEW h \in Handlers, Answer(h)
    PROVE  HandlerDomains' /\ OthersWait(h) /\ HandlerOK(h)'
<1>1. HandlerDomains' /\ OthersWait(h) /\ at'[h] = "idle"
  BY NoneAssumption DEF HandlerDomains, Answer, OthersWait, Labels
<1>2. HandlerOK(h)'
  BY <1>1 DEF HandlerOK
<1> QED BY <1>1, <1>2

LEMMA Went ==
    ASSUME HandlerDomains, NEW h \in Handlers, NEW l \in Labels, Goto(h, l)
    PROVE  /\ HandlerDomains' /\ OthersWait(h) /\ at'[h] = l
           /\ UNCHANGED <<who, mail, user, item, late>>
  BY DEF HandlerDomains, Goto, OthersWait

\* A step of one handler that writes no row.
LEMMA LocalStep ==
    ASSUME PortalInv, NEW h \in Handlers, OthersWait(h), HandlerDomains',
           HandlerOK(h)', UNCHANGED <<accountVars, users>>, DataDomains',
           Issued \subseteq Issued', SessionsOwned', KeysOwned', EndedRevoked'
    PROVE  PortalInv'
<1>1. AddressesDistinct' /\ UniqueSub'
  BY DEF PortalInv, RowsInv, AddressesDistinct, UniqueSub, Rows, accountVars
<1>2. HandlersOK'
  <2> SUFFICES ASSUME NEW g \in Handlers PROVE HandlerOK(g)'
    BY DEF HandlersOK
  <2>1. CASE g = h
    BY <2>1
  <2>2. CASE g # h
    BY <2>2, RowsAlone, WaitingHandler DEF PortalInv, HandlersOK, OthersWait, accountVars
  <2> QED BY <2>1, <2>2
<1> QED BY <1>1, <1>2 DEF PortalInv, RowsInv

\* ... and no table at all.
LEMMA ReadingStep ==
    ASSUME PortalInv, NEW h \in Handlers, OthersWait(h), HandlerDomains',
           HandlerOK(h)', UNCHANGED <<accountVars, users, sessions, keys, ended>>
    PROVE  PortalInv'
<1>1. /\ DataDomains' /\ Issued \subseteq Issued'
      /\ SessionsOwned' /\ KeysOwned' /\ EndedRevoked'
  BY DEF PortalInv, RowsInv, DataDomains, SessionsOwned, KeysOwned, EndedRevoked,
         Owns, Rows, Issued, Made, accountVars
<1> QED BY <1>1, LocalStep

-----------------------------------------------------------------------------
(* Initially *)

LEMMA InitPortal == Init => PortalInv
<1> SUFFICES ASSUME Init PROVE PortalInv
  OBVIOUS
<1>1. HandlerDomains
  BY DEF Init, HandlerDomains, Labels
<1>2. PICK e \in Addresses \cup {None} :
         users = [u \in Users |-> IF u = 1 THEN [email |-> e, sub |-> None]
                                  ELSE NoUser]
  BY DEF Init
<1>3. Issued = {} /\ Made = {} /\ \A u \in Users : users[u].sub = None
  BY <1>2 DEF Init, Issued, Made, NoSession, NoKey, NoUser
<1>4. DataDomains
  <2>1. users \in [Users -> [email : Addresses \cup {None}, sub : Accounts \cup {None}]]
    BY <1>2 DEF NoUser
  <2>2. /\ address \in [Accounts -> Addresses] /\ moves \in 0..MaxMoves
        /\ ended \in [sessions : SUBSET Sessions, keys : SUBSET Keys]
    BY PortalBounds DEF Init
  <2>3. /\ sessions \in [Sessions -> [user : Users \cup {0}, revoked : BOOLEAN,
                                      expired : BOOLEAN, holder : Accounts \cup {None}]]
        /\ keys \in [Keys -> [user : Users \cup {0}, revoked : BOOLEAN,
                              maker : Accounts \cup {None}]]
    BY DEF Init, NoSession, NoKey
  <2> QED BY <2>1, <2>2, <2>3 DEF DataDomains
<1>5. RowsInv
  BY <1>3 DEF Init, RowsInv, AddressesDistinct, UniqueSub, SessionsOwned,
              KeysOwned, EndedRevoked, Rows
<1>6. HandlersOK
  BY DEF Init, HandlersOK, HandlerOK
<1> QED BY <1>1, <1>4, <1>5, <1>6 DEF PortalInv

-----------------------------------------------------------------------------
(* The lookups *)

LEMMA RowNumbers == 0 \notin Users /\ Rows \subseteq Users
  BY DEF Users, Rows

\* Writing one column of a row, or of a session, leaves a table of its type.
LEMMA UserWritten ==
    ASSUME NEW A, NEW B, NEW f \in [Users -> [email : A, sub : B]], NEW u \in Users
    PROVE  /\ \A e \in A : [f EXCEPT ![u].email = e] \in [Users -> [email : A, sub : B]]
           /\ \A a \in B : [f EXCEPT ![u].sub = a] \in [Users -> [email : A, sub : B]]
  OBVIOUS

LEMMA SessionWritten ==
    ASSUME NEW A, NEW B,
           NEW f \in [Sessions -> [user : A, revoked : BOOLEAN, expired : BOOLEAN,
                                  holder : B]],
           NEW s \in Sessions, NEW b \in BOOLEAN
    PROVE  /\ [f EXCEPT ![s].revoked = b]
                  \in [Sessions -> [user : A, revoked : BOOLEAN, expired : BOOLEAN,
                                    holder : B]]
           /\ [f EXCEPT ![s].expired = b]
                  \in [Sessions -> [user : A, revoked : BOOLEAN, expired : BOOLEAN,
                                    holder : B]]
  OBVIOUS

LEMMA LookupBySub ==
    ASSUME NEW a
    PROVE  LET u == Lookup("sub", a) IN
           /\ u \in Users \cup {0}
           /\ u # 0 => u \in Rows /\ users[u].sub = a
           /\ u = 0 => \A v \in Rows : users[v].sub # a
<1> DEFINE P(u) == IF \E v \in Rows : users[v]["sub"] = a
                   THEN u \in Rows /\ users[u]["sub"] = a
                   ELSE u = 0
<1>1. \E u \in Users \cup {0} : P(u)
  BY RowNumbers
<1>2. Lookup("sub", a) = CHOOSE u \in Users \cup {0} : P(u)
  BY DEF Lookup
<1>3. Lookup("sub", a) \in Users \cup {0} /\ P(Lookup("sub", a))
  <2> HIDE DEF P
  <2> QED BY <1>1, <1>2
<1> QED BY <1>3, RowNumbers

LEMMA LookupByEmail ==
    ASSUME NEW e
    PROVE  LET u == Lookup("email", e) IN
           /\ u \in Users \cup {0}
           /\ u # 0 => u \in Rows /\ users[u].email = e
           /\ u = 0 => \A v \in Rows : users[v].email # e
<1> DEFINE P(u) == IF \E v \in Rows : users[v]["email"] = e
                   THEN u \in Rows /\ users[u]["email"] = e
                   ELSE u = 0
<1>1. \E u \in Users \cup {0} : P(u)
  BY RowNumbers
<1>2. Lookup("email", e) = CHOOSE u \in Users \cup {0} : P(u)
  BY DEF Lookup
<1>3. Lookup("email", e) \in Users \cup {0} /\ P(Lookup("email", e))
  <2> HIDE DEF P
  <2> QED BY <1>1, <1>2
<1> QED BY <1>3, RowNumbers

-----------------------------------------------------------------------------
(* Addresses that change hands *)

\* No sign-in waits to link a row that waits for the address that moves.
LEMMA MoveStep ==
    ASSUME PortalInv, NEW a \in Accounts, NEW e \in Addresses, MoveAddress(a, e)
    PROVE  PortalInv'
<1> USE DEF PortalInv
<1>1. /\ \A b \in Accounts : address[b] # e
      /\ Unlinked(address[a]) => \A h \in Handlers : mail[h] # address[a]
      /\ address' = [address EXCEPT ![a] = e] /\ moves' = moves + 1
      /\ moves < MaxMoves
      /\ UNCHANGED <<users, sessions, keys, at, who, mail, user, item, late, ended>>
  BY DEF MoveAddress, handlerVars
<1>2. HandlerDomains' /\ DataDomains'
  BY <1>1, PortalBounds DEF HandlerDomains, DataDomains
<1>3. RowsInv'
  BY <1>1 DEF RowsInv, AddressesDistinct, UniqueSub, SessionsOwned, KeysOwned,
              EndedRevoked, Owns, Rows, Issued, Made, DataDomains
<1>4. HandlersOK'
  <2> SUFFICES ASSUME NEW h \in Handlers PROVE HandlerOK(h)'
    BY DEF HandlersOK
  <2>1. HandlerOK(h)
    BY DEF HandlersOK
  <2>2. at[h] \in {"findBySub", "findByEmail", "linkUser"} /\ Unlinked(mail[h])
          => address'[who[h]] = mail[h]
    <3> SUFFICES ASSUME at[h] \in {"findBySub", "findByEmail", "linkUser"},
                        Unlinked(mail[h])
                 PROVE  address'[who[h]] = mail[h]
      OBVIOUS
    <3>1. who[h] \in Accounts /\ address[who[h]] = mail[h]
      BY <2>1 DEF HandlerOK
    <3>2. who[h] # a
      BY <1>1, <3>1
    <3> QED BY <1>1, <3>1, <3>2 DEF DataDomains
  <2>3. Unlinked(mail[h])' <=> Unlinked(mail[h])
    BY <1>1 DEF Unlinked, Rows
  <2>4. Owns(who[h], user[h])' <=> Owns(who[h], user[h])
    BY <1>1 DEF Owns, Rows
  <2>5. Rows' = Rows /\ Issued' = Issued
    BY <1>1 DEF Rows, Issued
  <2> QED BY <1>1, <2>1, <2>2, <2>3, <2>4, <2>5 DEF HandlerOK
<1> QED BY <1>2, <1>3, <1>4

-----------------------------------------------------------------------------
(* The sign-in callback *)

LEMMA SignInStep ==
    ASSUME PortalInv, NEW h \in Handlers, NEW a \in Accounts, SignIn(h, a)
    PROVE  PortalInv'
<1> USE DEF PortalInv
<1>1. HandlerDomains' /\ OthersWait(h)
  BY DEF SignIn, HandlerDomains, DataDomains, OthersWait, Labels
<1>2. /\ at'[h] = "findBySub" /\ who'[h] = a /\ mail'[h] = address[a]
      /\ address' = address /\ address[a] \in Addresses
  BY DEF SignIn, HandlerDomains, DataDomains, accountVars
<1>3. HandlerOK(h)'
  BY <1>2 DEF HandlerOK
<1> QED BY <1>1, <1>3, ReadingStep DEF SignIn

LEMMA FindBySubStep ==
    ASSUME PortalInv, NEW h \in Handlers, FindBySub(h)
    PROVE  PortalInv'
<1> DEFINE u == Lookup("sub", who[h])
<1> USE DEF PortalInv
<1>1. /\ u \in Users \cup {0}
      /\ u # 0 => u \in Rows /\ users[u].sub = who[h]
  BY LookupBySub
<1>2. /\ at[h] = "findBySub"
      /\ at' = [at EXCEPT ![h] = IF u = 0 THEN "findByEmail" ELSE "updateUser"]
      /\ user' = [user EXCEPT ![h] = u]
      /\ UNCHANGED <<accountVars, users, sessions, keys, who, mail, item, late, ended>>
  BY DEF FindBySub
<1> HIDE DEF u
<1>3. HandlerDomains' /\ OthersWait(h)
  BY <1>1, <1>2 DEF HandlerDomains, OthersWait, Labels
<1>4. HandlerOK(h)'
  <2>1. HandlerOK(h)
    BY DEF HandlersOK
  <2>2. user'[h] = u /\ at'[h] = IF u = 0 THEN "findByEmail" ELSE "updateUser"
    BY <1>2 DEF HandlerDomains
  <2>3. Unlinked(mail[h])' <=> Unlinked(mail[h])
    BY <1>2 DEF Unlinked, Rows
  <2>4. u # 0 => Owns(who[h], user[h])'
    BY <1>1, <1>2, <2>1, <2>2 DEF Owns, Rows, HandlerOK
  <2> QED BY <1>2, <2>1, <2>2, <2>3, <2>4 DEF HandlerOK, accountVars
<1> QED BY <1>2, <1>3, <1>4, ReadingStep

LEMMA FindByEmailStep ==
    ASSUME PortalInv, NEW h \in Handlers, FindByEmail(h)
    PROVE  PortalInv'
<1> DEFINE u == Lookup("email", mail[h])
<1> USE DEF PortalInv
<1>1. /\ u \in Users \cup {0}
      /\ u # 0 => u \in Rows /\ users[u].email = mail[h]
      /\ u = 0 => \A v \in Rows : users[v].email # mail[h]
  BY LookupByEmail
<1>2. /\ at[h] = "findByEmail"
      /\ UNCHANGED <<accountVars, users, sessions, keys, ended>>
      /\ \/ Answer(h)
         \/ /\ u # 0 => users[u].sub \in {None, who[h]}
            /\ at' = [at EXCEPT ![h] = IF u = 0 THEN "insertUser" ELSE "linkUser"]
            /\ user' = [user EXCEPT ![h] = u]
            /\ UNCHANGED <<who, mail, item, late>>
  BY DEF FindByEmail, LinkedElsewhere
<1> HIDE DEF u
<1>3. CASE Answer(h)
  BY <1>2, <1>3, Answered, ReadingStep
<1>4. CASE ~Answer(h)
  <2>1. HandlerDomains' /\ OthersWait(h)
    BY <1>1, <1>2, <1>4 DEF HandlerDomains, OthersWait, Labels
  <2>2. HandlerOK(h)
    BY DEF HandlersOK
  <2>3. user'[h] = u /\ at'[h] = IF u = 0 THEN "insertUser" ELSE "linkUser"
    BY <1>2, <1>4 DEF HandlerDomains
  <2>4. Unlinked(mail[h])' <=> Unlinked(mail[h])
    BY <1>2, <1>4 DEF Unlinked, Rows
  <2>5. u = 0 => ~Unlinked(mail[h])
    BY <1>1 DEF Unlinked
  <2>6. u # 0 => \/ users[u] = [email |-> mail[h], sub |-> None]
                 \/ users[u].sub = who[h]
    <3>1. u # 0 => users[u] \in [email : Addresses \cup {None}, sub : Accounts \cup {None}]
      BY <1>1 DEF DataDomains
    <3> QED BY <1>1, <1>2, <1>4, <3>1
  <2>7. Rows' = Rows
    BY <1>2 DEF Rows
  <2>8. HandlerOK(h)'
    BY <1>1, <1>2, <1>4, <2>2, <2>3, <2>4, <2>5, <2>6, <2>7 DEF HandlerOK, accountVars
  <2> QED BY <1>2, <2>1, <2>8, ReadingStep
<1> QED BY <1>3, <1>4

\* A step of handler h that writes the rows.
LEMMA RowWritingStep ==
    ASSUME PortalInv, NEW h \in Handlers, OthersWait(h), HandlerDomains',
           HandlerOK(h)', RowStep, DataDomains', UniqueSub',
           UNCHANGED <<accountVars, sessions, keys, ended>>,
           \A g \in Handlers \ {h} : at[g] = "linkUser" =>
               \/ users'[user[g]] = users[user[g]]
               \/ users'[user[g]].sub = who[g]
    PROVE  PortalInv'
<1> USE DEF PortalInv
<1>1. Issued' = Issued /\ Made' = Made
  BY DEF Issued, Made
<1>2. AddressesDistinct' /\ EndedRevoked'
  BY <1>1 DEF RowsInv, AddressesDistinct, EndedRevoked, accountVars
<1>3. SessionsOwned' /\ KeysOwned'
  BY <1>1, OwnsKept DEF RowsInv, SessionsOwned, KeysOwned, Owns
<1>4. HandlersOK'
  <2> SUFFICES ASSUME NEW g \in Handlers PROVE HandlerOK(g)'
    BY DEF HandlersOK
  <2>1. CASE g = h
    BY <2>1
  <2>2. CASE g # h
    <3>1. HandlerOK(g) /\ address' = address
      BY DEF HandlersOK, accountVars
    <3>2. /\ at'[g] = at[g] /\ who'[g] = who[g] /\ mail'[g] = mail[g]
          /\ user'[g] = user[g] /\ item'[g] = item[g] /\ late'[g] = late[g]
      BY <2>2 DEF OthersWait
    <3> QED BY <1>1, <2>2, <3>1, <3>2, WaitingHandler
  <2> QED BY <2>1, <2>2
<1> QED BY <1>2, <1>3, <1>4 DEF RowsInv

\* The row is the account's, so no account changes, and a row that waits for
\* its first sign-in is not written.
LEMMA UpdateUserStep ==
    ASSUME PortalInv, NEW h \in Handlers, UpdateUser(h)
    PROVE  PortalInv'
<1> USE DEF PortalInv
<1>1. CASE Answer(h) /\ UNCHANGED users
  BY <1>1, Answered, ReadingStep DEF UpdateUser
<1>2. CASE /\ users' = [users EXCEPT ![user[h]].email = mail[h]]
           /\ Goto(h, "createSession")
  <2>1. /\ at[h] = "updateUser"
        /\ UNCHANGED <<accountVars, sessions, keys, ended>>
    BY DEF UpdateUser
  <2>2. /\ mail[h] \in Addresses /\ who[h] \in Accounts /\ user[h] \in Rows
        /\ users[user[h]].sub = who[h]
    BY <2>1 DEF HandlersOK, HandlerOK, Owns
  <2>3. /\ HandlerDomains' /\ OthersWait(h) /\ at'[h] = "createSession"
        /\ UNCHANGED <<who, mail, user, item, late>>
    BY <1>2, Went DEF Labels
  <2>4. \A u \in Users : users'[u] = IF u = user[h]
                                     THEN [email |-> mail[h], sub |-> who[h]]
                                     ELSE users[u]
    BY <1>2, <2>2, RowNumbers DEF DataDomains
  <2>5. mail[h] # None /\ who[h] # None
    BY <2>2, NoneAssumption
  <2>6. RowStep /\ Rows' = Rows
    BY <2>2, <2>4, <2>5 DEF RowStep, Rows
  <2>7. DataDomains'
    <3>1. users' \in [Users -> [email : Addresses \cup {None},
                               sub : Accounts \cup {None}]]
      BY <1>2, <2>2, RowNumbers, UserWritten DEF DataDomains
    <3> QED BY <2>1, <3>1 DEF DataDomains, accountVars
  <2>8. UniqueSub'
    BY <2>2, <2>4, <2>6, RowNumbers DEF UniqueSub, RowsInv
  <2>9. HandlerOK(h)'
    BY <2>2, <2>3, <2>4, <2>6, RowNumbers DEF HandlerOK, Owns
  <2>10. ASSUME NEW g \in Handlers \ {h}, at[g] = "linkUser"
         PROVE  \/ users'[user[g]] = users[user[g]]
                \/ users'[user[g]].sub = who[g]
    <3>1. HandlerOK(g)
      BY DEF HandlersOK
    <3> QED BY <2>2, <2>4, <2>5, <2>10, <3>1, RowNumbers DEF HandlerOK
  <2> QED BY <2>1, <2>3, <2>6, <2>7, <2>8, <2>9, <2>10, RowWritingStep
<1> QED BY <1>1, <1>2 DEF UpdateUser

\* Every handler that waits to link the same row works for the same account,
\* since the row's address is that account's.
LEMMA LinkUserStep ==
    ASSUME PortalInv, NEW h \in Handlers, LinkUser(h)
    PROVE  PortalInv'
<1> USE DEF PortalInv
<1>1. CASE Answer(h) /\ UNCHANGED users
  BY <1>1, Answered, ReadingStep DEF LinkUser
<1>2. CASE /\ ~Taken("sub", who[h], user[h])
           /\ users' = [users EXCEPT ![user[h]].sub = who[h]]
           /\ Goto(h, "createSession")
  <2>1. /\ at[h] = "linkUser"
        /\ UNCHANGED <<accountVars, sessions, keys, ended>>
    BY DEF LinkUser
  <2>2. /\ mail[h] \in Addresses /\ who[h] \in Accounts /\ user[h] \in Rows
        /\ \/ users[user[h]] = [email |-> mail[h], sub |-> None]
           \/ users[user[h]].sub = who[h]
    BY <2>1 DEF HandlersOK, HandlerOK
  <2>3. /\ HandlerDomains' /\ OthersWait(h) /\ at'[h] = "createSession"
        /\ UNCHANGED <<who, mail, user, item, late>>
    BY <1>2, Went DEF Labels
  <2>4. \A u \in Users :
           /\ users'[u].email = users[u].email
           /\ users'[u].sub = IF u = user[h] THEN who[h] ELSE users[u].sub
           /\ u # user[h] => users'[u] = users[u]
    BY <1>2, <2>2, RowNumbers DEF DataDomains
  <2>5. who[h] # None /\ users[user[h]].sub \in {None, who[h]}
    BY <2>2, NoneAssumption
  <2>6. RowStep /\ Rows' = Rows
    <3>1. Rows' = Rows
      BY <2>4 DEF Rows
    <3>2. \A u \in Rows : users[u].sub # None => users'[u].sub = users[u].sub
      BY <2>4, <2>5, RowNumbers
    <3>3. \A u \in Rows' : users'[u].sub = None => users'[u] = users[u]
      BY <2>4, <2>5, <3>1, RowNumbers
    <3> QED BY <3>1, <3>2, <3>3 DEF RowStep
  <2>7. DataDomains'
    <3>1. users' \in [Users -> [email : Addresses \cup {None},
                               sub : Accounts \cup {None}]]
      BY <1>2, <2>2, RowNumbers, UserWritten DEF DataDomains
    <3> QED BY <2>1, <3>1 DEF DataDomains, accountVars
  <2>8. UniqueSub'
    <3>1. \A v \in Rows \ {user[h]} : users[v].sub # who[h]
      BY <1>2 DEF Taken
    <3> QED BY <2>2, <2>4, <2>6, <3>1, RowNumbers DEF UniqueSub, RowsInv
  <2>9. HandlerOK(h)'
    BY <2>2, <2>3, <2>4, <2>6, RowNumbers DEF HandlerOK, Owns
  <2>10. ASSUME NEW g \in Handlers \ {h}, at[g] = "linkUser"
         PROVE  \/ users'[user[g]] = users[user[g]]
                \/ users'[user[g]].sub = who[g]
    <3>1. HandlerOK(g) /\ HandlerOK(h)
      BY DEF HandlersOK
    <3>2. CASE users[user[g]].sub = who[g] /\ user[g] # user[h]
      BY <2>4, <2>10, <3>1, <3>2, RowNumbers DEF HandlerOK
    <3>3. CASE users[user[g]].sub = who[g] /\ user[g] = user[h]
      <4>1. who[g] \in Accounts
        BY <2>10, <3>1 DEF HandlerOK
      <4>2. users[user[h]].sub = who[h]
        BY <2>2, <3>3, <4>1, NoneAssumption
      <4> QED BY <2>2, <2>4, <3>3, <4>2, RowNumbers
    <3>4. CASE /\ users[user[g]] = [email |-> mail[g], sub |-> None]
               /\ user[g] # user[h]
      BY <2>4, <2>10, <3>1, <3>4, RowNumbers DEF HandlerOK
    <3>5. CASE /\ users[user[g]] = [email |-> mail[g], sub |-> None]
               /\ user[g] = user[h]
      <4>1. users[user[h]] = [email |-> mail[h], sub |-> None]
        BY <2>2, <2>5, <3>5
      <4>2. mail[g] = mail[h]
        BY <3>5, <4>1
      <4>3. Unlinked(mail[h]) /\ Unlinked(mail[g])
        BY <2>2, <4>1, <4>2 DEF Unlinked
      <4>4. address[who[g]] = mail[g] /\ address[who[h]] = mail[h]
            /\ who[g] \in Accounts
        BY <2>1, <2>10, <3>1, <4>3 DEF HandlerOK
      <4>5. who[g] = who[h]
        BY <2>2, <4>2, <4>4 DEF RowsInv, AddressesDistinct
      <4> QED BY <2>2, <2>4, <3>5, <4>5, RowNumbers
    <3> QED BY <2>10, <3>1, <3>2, <3>3, <3>4, <3>5 DEF HandlerOK
  <2> QED BY <2>1, <2>3, <2>6, <2>7, <2>8, <2>9, <2>10, RowWritingStep
<1> QED BY <1>1, <1>2 DEF LinkUser

LEMMA InsertUserStep ==
    ASSUME PortalInv, NEW h \in Handlers, InsertUser(h)
    PROVE  PortalInv'
<1> USE DEF PortalInv
<1>1. CASE Answer(h) /\ UNCHANGED users
  BY <1>1, Answered, ReadingStep DEF InsertUser
<1>2. CASE /\ ~Taken("sub", who[h], 0)
           /\ \E u \in Users \ Rows :
                /\ users' = [users EXCEPT ![u] = [email |-> mail[h], sub |-> who[h]]]
                /\ at' = [at EXCEPT ![h] = "createSession"]
                /\ user' = [user EXCEPT ![h] = u]
                /\ UNCHANGED <<who, mail, item, late>>
  <2> PICK u \in Users \ Rows :
        /\ users' = [users EXCEPT ![u] = [email |-> mail[h], sub |-> who[h]]]
        /\ at' = [at EXCEPT ![h] = "createSession"]
        /\ user' = [user EXCEPT ![h] = u]
        /\ UNCHANGED <<who, mail, item, late>>
    BY <1>2
  <2>1. /\ at[h] = "insertUser"
        /\ UNCHANGED <<accountVars, sessions, keys, ended>>
    BY DEF InsertUser
  <2>2. mail[h] \in Addresses /\ who[h] \in Accounts
    BY <2>1 DEF HandlersOK, HandlerOK
  <2>3. /\ HandlerDomains' /\ OthersWait(h)
        /\ at'[h] = "createSession" /\ user'[h] = u
    BY DEF HandlerDomains, OthersWait, Labels
  <2>4. \A v \in Users : users'[v] = IF v = u THEN [email |-> mail[h], sub |-> who[h]]
                                     ELSE users[v]
    BY DEF DataDomains
  <2>5. mail[h] # None /\ who[h] # None
    BY <2>2, NoneAssumption
  <2>6. RowStep /\ Rows' = Rows \cup {u}
    BY <2>4, <2>5 DEF RowStep, Rows
  <2>7. DataDomains'
    BY <2>1, <2>2 DEF DataDomains, accountVars
  <2>8. UniqueSub'
    <3>1. \A v \in Rows : users[v].sub # who[h]
      BY <1>2, RowNumbers DEF Taken
    <3> QED BY <2>4, <2>6, <3>1, RowNumbers DEF UniqueSub, RowsInv
  <2>9. HandlerOK(h)'
    BY <2>2, <2>3, <2>4, <2>6 DEF HandlerOK, Owns
  <2>10. ASSUME NEW g \in Handlers \ {h}, at[g] = "linkUser"
         PROVE  users'[user[g]] = users[user[g]]
    <3>1. user[g] \in Rows
      BY <2>10 DEF HandlersOK, HandlerOK
    <3> QED BY <2>4, <3>1, RowNumbers
  <2> QED BY <2>1, <2>3, <2>6, <2>7, <2>8, <2>9, <2>10, RowWritingStep
<1> QED BY <1>1, <1>2 DEF InsertUser

-----------------------------------------------------------------------------
(* Sessions and keys *)

LEMMA CreateSessionStep ==
    ASSUME PortalInv, NEW h \in Handlers, CreateSession(h)
    PROVE  PortalInv'
<1> USE DEF PortalInv
<1> PICK s \in Sessions \ Issued :
      sessions' = [sessions EXCEPT ![s] = [user |-> user[h], revoked |-> FALSE,
                                           expired |-> FALSE, holder |-> who[h]]]
  BY DEF CreateSession
<1>1. /\ Answer(h) /\ UNCHANGED <<accountVars, users, keys, ended>>
      /\ Owns(who[h], user[h])
  BY DEF CreateSession, HandlersOK, HandlerOK
<1>2. \A t \in Sessions : t # s => sessions'[t] = sessions[t]
  BY DEF DataDomains
<1>3. sessions'[s].user = user[h] /\ sessions'[s].holder = who[h]
  BY DEF DataDomains
<1>4. user[h] # 0 /\ user[h] \in Users /\ Rows' = Rows
  BY <1>1, RowNumbers DEF Owns, Rows
<1>5. Issued' = Issued \cup {s} /\ Made' = Made
  BY <1>1, <1>2, <1>3, <1>4 DEF Issued, Made
<1>6. DataDomains'
  <2>1. [user |-> user[h], revoked |-> FALSE, expired |-> FALSE, holder |-> who[h]]
          \in [user : Users \cup {0}, revoked : BOOLEAN, expired : BOOLEAN,
               holder : Accounts \cup {None}]
    BY <1>1, <1>4 DEF Owns
  <2> HIDE DEF PortalInv
  <2>2. DataDomains
    BY DEF PortalInv
  <2> QED BY <1>1, <2>1, <2>2 DEF DataDomains, accountVars
<1>7. SessionsOwned'
  BY <1>1, <1>2, <1>3, <1>4, <1>5 DEF SessionsOwned, RowsInv, Owns, Issued
<1>8. KeysOwned' /\ EndedRevoked'
  BY <1>1, <1>2, <1>4, <1>5 DEF RowsInv, KeysOwned, EndedRevoked, Owns, Issued
<1> QED BY <1>1, <1>5, <1>6, <1>7, <1>8, Answered, LocalStep

\* A session that was signed out of is not valid.
LEMMA CheckSessionStep ==
    ASSUME PortalInv, NEW h \in Handlers, NEW s \in Sessions, CheckSession(h, s)
    PROVE  PortalInv'
<1> USE DEF PortalInv
<1>1. /\ s \in Issued /\ ~sessions[s].revoked
      /\ at' = [at EXCEPT ![h] = "extend"]
      /\ who' = [who EXCEPT ![h] = sessions[s].holder]
      /\ user' = [user EXCEPT ![h] = sessions[s].user]
      /\ item' = [item EXCEPT ![h] = s]
      /\ late' = [late EXCEPT ![h] = s \in ended.sessions]
      /\ UNCHANGED <<accountVars, users, sessions, keys, mail, ended>>
  BY DEF CheckSession, Valid
<1>2. /\ s \in Nat /\ sessions[s].user \in Users \cup {0}
      /\ sessions[s].holder \in Accounts \cup {None}
      /\ Owns(sessions[s].holder, sessions[s].user)
  BY <1>1 DEF DataDomains, Sessions, RowsInv, SessionsOwned
<1>3. s \notin ended.sessions
  BY <1>1 DEF RowsInv, EndedRevoked
<1>4. HandlerDomains' /\ OthersWait(h)
  BY <1>1, <1>2 DEF HandlerDomains, OthersWait, Labels
<1>5. /\ at'[h] = "extend" /\ who'[h] = sessions[s].holder
      /\ user'[h] = sessions[s].user /\ item'[h] = s /\ ~late'[h]
  BY <1>1, <1>3 DEF HandlerDomains
<1>6. Rows' = Rows /\ Issued' = Issued
  BY <1>1 DEF Rows, Issued
<1>7. HandlerOK(h)'
  BY <1>1, <1>2, <1>5, <1>6 DEF HandlerOK, Owns
<1> QED BY <1>1, <1>4, <1>7, ReadingStep

\* A write that touches one session, and neither its user nor its holder.
LEMMA SessionWrite ==
    ASSUME PortalInv, NEW s \in Sessions, UNCHANGED <<accountVars, users, keys>>,
           \A t \in Sessions : /\ sessions'[t].user = sessions[t].user
                               /\ sessions'[t].holder = sessions[t].holder
                               /\ sessions[t].revoked => sessions'[t].revoked,
           ended'.keys = ended.keys,
           \A t \in ended'.sessions :
              t \in ended.sessions \/ (t \in Issued /\ sessions'[t].revoked)
    PROVE  /\ Rows' = Rows /\ Issued' = Issued /\ Made' = Made
           /\ SessionsOwned' /\ KeysOwned' /\ EndedRevoked'
<1> USE DEF PortalInv
<1>1. Rows' = Rows /\ Issued' = Issued /\ Made' = Made
  BY DEF Rows, Issued, Made
<1>2. SessionsOwned' /\ KeysOwned'
  BY <1>1 DEF RowsInv, SessionsOwned, KeysOwned, Owns, Issued
<1>3. EndedRevoked'
  BY <1>1 DEF RowsInv, EndedRevoked, Issued
<1> QED BY <1>1, <1>2, <1>3

\* The extension of a session leaves alone whether it is revoked.
LEMMA ExtendStep ==
    ASSUME PortalInv, NEW h \in Handlers, Extend(h)
    PROVE  PortalInv'
<1> USE DEF PortalInv
<1>1. /\ at[h] = "extend" /\ Goto(h, "act")
      /\ sessions' = [sessions EXCEPT ![item[h]].expired = FALSE]
      /\ UNCHANGED <<accountVars, users, keys, ended>>
  BY DEF Extend
<1>2. HandlerOK(h)
  BY DEF HandlersOK
<1>3. item[h] \in Sessions
  BY <1>1, <1>2 DEF HandlerOK, Issued
<1> PICK i \in Sessions : i = item[h]
  BY <1>3
<1>4. DataDomains'
  <2>1. sessions' = [sessions EXCEPT ![i].expired = FALSE]
    BY <1>1
  <2>2. sessions' \in [Sessions -> [user : Users \cup {0}, revoked : BOOLEAN,
                                   expired : BOOLEAN,
                                   holder : Accounts \cup {None}]]
    BY <2>1, SessionWritten DEF DataDomains
  <2> QED BY <1>1, <2>2 DEF DataDomains, accountVars
<1>5. \A t \in Sessions : /\ sessions'[t].user = sessions[t].user
                          /\ sessions'[t].holder = sessions[t].holder
                          /\ sessions'[t].revoked = sessions[t].revoked
  <2>1. sessions' = [sessions EXCEPT ![i].expired = FALSE]
    BY <1>1
  <2> QED BY <2>1 DEF DataDomains
<1>6. /\ Rows' = Rows /\ Issued' = Issued
      /\ SessionsOwned' /\ KeysOwned' /\ EndedRevoked'
  BY <1>1, <1>3, <1>5, SessionWrite
<1>7. /\ HandlerDomains' /\ OthersWait(h) /\ at'[h] = "act"
      /\ UNCHANGED <<who, mail, user, item, late>>
  BY <1>1, Went DEF Labels
<1>8. HandlerOK(h)'
  BY <1>1, <1>2, <1>6, <1>7 DEF HandlerOK, Owns
<1> QED BY <1>1, <1>4, <1>6, <1>7, <1>8, LocalStep

LEMMA SignOutStep ==
    ASSUME PortalInv, NEW s \in Sessions, SignOut(s) \/ Expire(s)
    PROVE  PortalInv'
<1> USE DEF PortalInv
<1>1. /\ s \in Issued
      /\ UNCHANGED <<accountVars, users, keys, at, who, mail, user, item, late>>
      /\ \/ /\ sessions' = [sessions EXCEPT ![s].revoked = TRUE]
            /\ ended' = [ended EXCEPT !.sessions = @ \cup {s}]
         \/ /\ sessions' = [sessions EXCEPT ![s].expired = TRUE]
            /\ ended' = ended
  BY DEF SignOut, Expire, handlerVars
<1>2. sessions' \in [Sessions -> [user : Users \cup {0}, revoked : BOOLEAN,
                                 expired : BOOLEAN,
                                 holder : Accounts \cup {None}]]
  <2>1. sessions \in [Sessions -> [user : Users \cup {0}, revoked : BOOLEAN,
                                  expired : BOOLEAN,
                                  holder : Accounts \cup {None}]]
    BY DEF DataDomains
  <2> HIDE DEF PortalInv
  <2>2. CASE sessions' = [sessions EXCEPT ![s].revoked = TRUE]
    BY <2>1, <2>2, SessionWritten
  <2>3. CASE sessions' = [sessions EXCEPT ![s].expired = TRUE]
    BY <2>1, <2>3, SessionWritten
  <2> QED BY <1>1, <2>2, <2>3
<1>3. \A t \in Sessions :  /\ sessions'[t].user = sessions[t].user
                           /\ sessions'[t].holder = sessions[t].holder
                           /\ sessions[t].revoked => sessions'[t].revoked
  <2>1. CASE sessions' = [sessions EXCEPT ![s].revoked = TRUE]
    BY <2>1 DEF DataDomains
  <2>2. CASE sessions' = [sessions EXCEPT ![s].expired = TRUE]
    BY <2>2 DEF DataDomains
  <2> QED BY <1>1, <2>1, <2>2
<1>4. /\ ended' \in [sessions : SUBSET Sessions, keys : SUBSET Keys]
      /\ ended'.keys = ended.keys
      /\ \A t \in ended'.sessions :
            t \in ended.sessions \/ (t \in Issued /\ sessions'[t].revoked)
  BY <1>1 DEF DataDomains
<1>5. HandlerDomains' /\ DataDomains'
  BY <1>1, <1>2, <1>4 DEF HandlerDomains, DataDomains, accountVars
<1>6. /\ Rows' = Rows /\ Issued' = Issued /\ Made' = Made
      /\ SessionsOwned' /\ KeysOwned' /\ EndedRevoked'
  BY <1>1, <1>3, <1>4, SessionWrite
<1>7. AddressesDistinct' /\ UniqueSub'
  BY <1>1, <1>6 DEF RowsInv, AddressesDistinct, UniqueSub, accountVars
<1>8. HandlersOK'
  <2> SUFFICES ASSUME NEW g \in Handlers PROVE HandlerOK(g)'
    BY DEF HandlersOK
  <2>1. HandlerOK(g)
    BY DEF HandlersOK
  <2> HIDE DEF PortalInv
  <2> QED BY <1>1, <1>6, <2>1, RowsAlone, WaitingHandler DEF accountVars
<1> QED BY <1>5, <1>6, <1>7, <1>8 DEF RowsInv

LEMMA CreateKeyStep ==
    ASSUME PortalInv, NEW h \in Handlers, CreateKey(h)
    PROVE  PortalInv'
<1> USE DEF PortalInv
<1> PICK k \in Keys \ Made :
      keys' = [keys EXCEPT ![k] = [user |-> user[h], revoked |-> FALSE,
                                   maker |-> who[h]]]
  BY DEF CreateKey
<1>1. /\ Answer(h) /\ UNCHANGED <<accountVars, users, sessions, ended>>
      /\ Owns(who[h], user[h])
  BY DEF CreateKey, HandlersOK, HandlerOK
<1>2. \A j \in Keys : j # k => keys'[j] = keys[j]
  BY DEF DataDomains
<1>3. keys'[k].user = user[h] /\ keys'[k].maker = who[h]
  BY DEF DataDomains
<1>4. user[h] # 0 /\ user[h] \in Users /\ Rows' = Rows
  BY <1>1, RowNumbers DEF Owns, Rows
<1>5. Made' = Made \cup {k} /\ Issued' = Issued
  BY <1>1, <1>2, <1>3, <1>4 DEF Issued, Made
<1>6. DataDomains'
  <2>1. [user |-> user[h], revoked |-> FALSE, maker |-> who[h]]
          \in [user : Users \cup {0}, revoked : BOOLEAN, maker : Accounts \cup {None}]
    BY <1>1, <1>4 DEF Owns
  <2> HIDE DEF PortalInv
  <2>2. DataDomains
    BY DEF PortalInv
  <2> QED BY <1>1, <2>1, <2>2 DEF DataDomains, accountVars
<1>7. KeysOwned'
  BY <1>1, <1>2, <1>3, <1>4, <1>5 DEF KeysOwned, RowsInv, Owns, Made
<1>8. SessionsOwned' /\ EndedRevoked'
  BY <1>1, <1>2, <1>4, <1>5 DEF RowsInv, SessionsOwned, EndedRevoked, Owns, Made
<1> QED BY <1>1, <1>5, <1>6, <1>7, <1>8, Answered, LocalStep

LEMMA RevokeKeyStep ==
    ASSUME PortalInv, NEW h \in Handlers, NEW k \in Keys, RevokeKey(h, k)
    PROVE  PortalInv'
<1> USE DEF PortalInv
<1>1. /\ k \in Made /\ Answer(h)
      /\ keys' = [keys EXCEPT ![k].revoked = TRUE]
      /\ ended' = [ended EXCEPT !.keys = @ \cup {k}]
      /\ UNCHANGED <<accountVars, users, sessions>>
  BY DEF RevokeKey
<1>2. /\ keys' \in [Keys -> [user : Users \cup {0}, revoked : BOOLEAN,
                             maker : Accounts \cup {None}]]
      /\ keys'[k].revoked
      /\ \A j \in Keys : /\ keys'[j].user = keys[j].user
                         /\ keys'[j].maker = keys[j].maker
                         /\ keys[j].revoked => keys'[j].revoked
  BY <1>1 DEF DataDomains
<1>3. /\ ended' \in [sessions : SUBSET Sessions, keys : SUBSET Keys]
      /\ ended'.sessions = ended.sessions /\ ended'.keys = ended.keys \cup {k}
  BY <1>1 DEF DataDomains
<1>4. DataDomains'
  BY <1>1, <1>2, <1>3 DEF DataDomains, accountVars
<1>5. Rows' = Rows /\ Issued' = Issued /\ Made' = Made
  BY <1>1, <1>2 DEF Rows, Issued, Made
<1>6. SessionsOwned' /\ KeysOwned'
  BY <1>1, <1>2, <1>5 DEF RowsInv, SessionsOwned, KeysOwned, Owns, Made
<1>7. EndedRevoked'
  BY <1>1, <1>2, <1>3, <1>5 DEF RowsInv, EndedRevoked, Made
<1> QED BY <1>1, <1>4, <1>5, <1>6, <1>7, Answered, LocalStep

\* A key that was revoked does not pass.
LEMMA AuthenticateStep ==
    ASSUME PortalInv, NEW h \in Handlers, NEW k \in Keys, Authenticate(h, k)
    PROVE  PortalInv'
<1> USE DEF PortalInv
<1>1. /\ ~keys[k].revoked
      /\ at' = [at EXCEPT ![h] = "touchKey"]
      /\ item' = [item EXCEPT ![h] = k]
      /\ late' = [late EXCEPT ![h] = k \in ended.keys]
      /\ UNCHANGED <<accountVars, users, sessions, keys, who, mail, user, ended>>
  BY DEF Authenticate
<1>2. k \in Nat /\ k \notin ended.keys
  BY <1>1 DEF Keys, RowsInv, EndedRevoked
<1>3. HandlerDomains' /\ OthersWait(h)
  BY <1>1, <1>2 DEF HandlerDomains, OthersWait, Labels
<1>4. at'[h] = "touchKey" /\ ~late'[h]
  BY <1>1, <1>2 DEF HandlerDomains
<1>5. HandlerOK(h)'
  BY <1>4 DEF HandlerOK
<1> QED BY <1>1, <1>3, <1>5, ReadingStep

LEMMA AnsweringStep ==
    ASSUME PortalInv, NEW h \in Handlers, ReadOnly(h) \/ TouchKey(h) \/ HandlerFails(h)
    PROVE  PortalInv'
<1>1. Answer(h) /\ UNCHANGED <<accountVars, users, sessions, keys, ended>>
  BY DEF ReadOnly, TouchKey, HandlerFails
<1>2. HandlerDomains
  BY DEF PortalInv
<1> QED BY <1>1, <1>2, Answered, ReadingStep

-----------------------------------------------------------------------------
(* Every step *)

LEMMA NextPortal == PortalInv /\ [Next]_vars => PortalInv'
<1> SUFFICES ASSUME PortalInv, [Next]_vars PROVE PortalInv'
  OBVIOUS
<1>1. ASSUME NEW a \in Accounts, NEW e \in Addresses, MoveAddress(a, e)
      PROVE  PortalInv'
  BY <1>1, MoveStep
<1>2. ASSUME NEW h \in Handlers, Arrive(h) PROVE PortalInv'
  BY <1>2, SignInStep, CheckSessionStep, AuthenticateStep DEF Arrive
<1>3. ASSUME NEW h \in Handlers, Callback(h) PROVE PortalInv'
  BY <1>3, FindBySubStep, UpdateUserStep, FindByEmailStep, LinkUserStep,
     InsertUserStep, CreateSessionStep DEF Callback
<1>4. ASSUME NEW h \in Handlers, Portal(h) PROVE PortalInv'
  BY <1>4, ExtendStep, CreateKeyStep, RevokeKeyStep, AnsweringStep DEF Portal
<1>5. ASSUME NEW h \in Handlers, TouchKey(h) \/ HandlerFails(h) PROVE PortalInv'
  BY <1>5, AnsweringStep
<1>6. ASSUME NEW s \in Sessions, SignOut(s) \/ Expire(s) PROVE PortalInv'
  BY <1>6, SignOutStep
<1>7. CASE UNCHANGED vars
  BY <1>7 DEF vars, accountVars, handlerVars, PortalInv, HandlerDomains,
              DataDomains, RowsInv, AddressesDistinct, UniqueSub, SessionsOwned,
              KeysOwned, EndedRevoked, HandlersOK, HandlerOK, Owns, Unlinked,
              Rows, Issued, Made
<1> QED BY <1>1, <1>2, <1>3, <1>4, <1>5, <1>6, <1>7 DEF Next, HandlerStep

-----------------------------------------------------------------------------
(* Theorems *)

\* The invariant of the portal, from which the theorems below are read off.
THEOREM PortalInvariant == Spec => []PortalInv
<1> QED BY InitPortal, NextPortal, PTL DEF Spec

\* Every session and key is stored for a row, and a handler past the lookup of
\* its user holds one, although nothing locks the rows between statements.
THEOREM PortalTypeCorrect == Spec => []PortalTypeOK
<1>1. PortalInv => PortalTypeOK
  <2> SUFFICES ASSUME PortalInv PROVE PortalTypeOK
    OBVIOUS
  <2>1. HandlerDomains /\ DataDomains /\ RowsInv /\ HandlersOK
    BY DEF PortalInv
  <2>2. ended \in [sessions : SUBSET Issued, keys : SUBSET Made]
    <3>1. ended.sessions \subseteq Issued /\ ended.keys \subseteq Made
      BY <2>1 DEF RowsInv, EndedRevoked
    <3>2. ended = [sessions |-> ended.sessions, keys |-> ended.keys]
      BY <2>1 DEF DataDomains
    <3> QED BY <3>1, <3>2
  <2>3. \A h \in Handlers :
          /\ at[h] \in {"updateUser", "linkUser", "createSession", "extend", "act"}
                => user[h] \in Rows
          /\ at[h] \in {"extend", "act"} => item[h] \in Issued
    BY <2>1 DEF HandlersOK, HandlerOK, Owns
  <2>4. /\ \A s \in Issued : sessions[s].user \in Rows
        /\ \A k \in Made : keys[k].user \in Rows
    BY <2>1 DEF RowsInv, SessionsOwned, KeysOwned, Owns
  <2> QED BY <2>1, <2>2, <2>3, <2>4 DEF HandlerDomains, DataDomains, PortalTypeOK
<1> QED BY <1>1, PortalInvariant, PTL

\* The sign-in callback: sessions and keys are stored for one user exactly when
\* they are one account's, however sign-ins race and addresses change hands.
THEOREM AccountsAreIsolated == Spec => []AccountIsolation
<1>1. PortalInv => AccountIsolation
  <2> SUFFICES ASSUME PortalInv PROVE AccountIsolation
    OBVIOUS
  <2>1. /\ \A s \in Issued : Owns(sessions[s].holder, sessions[s].user)
        /\ \A k \in Made : Owns(keys[k].maker, keys[k].user)
    BY DEF PortalInv, RowsInv, SessionsOwned, KeysOwned
  <2>2. ASSUME NEW a, NEW b, NEW u, NEW v, Owns(a, u), Owns(b, v)
        PROVE  a = b <=> u = v
    BY <2>2, NoneAssumption DEF PortalInv, RowsInv, UniqueSub, Owns
  <2> QED BY <2>1, <2>2 DEF AccountIsolation
<1> QED BY <1>1, PortalInvariant, PTL

\* destroySession and the revocation of a key: once answered, no later request
\* passes, whatever requests that were under way still write.
THEOREM EndedStaysEnded == Spec => []EndedIsFinal
<1>1. PortalInv => EndedIsFinal
  BY DEF PortalInv, HandlersOK, HandlerOK, EndedIsFinal
<1> QED BY <1>1, PortalInvariant, PTL

\* The callback: a sign-in is turned away because its address is on a row linked
\* to another account, because its account has a row and the new address is on a
\* row that waits for a first sign-in, or because it lost to another first
\* sign-in of its account.  No waiting row turns away an account without a row.
THEOREM RefusalsAreJustified == Spec => RefusalIsJustified
<1> DEFINE Justified ==
      \A h \in Handlers :
          Refused(h) =>
             \/ HeldByOther(h)
             \/ at[h] = "updateUser" /\ Unlinked(mail[h])
             \/ at[h] \in {"linkUser", "insertUser"} /\ HasRow(who[h])
<1>1. ASSUME PortalInv, NEW h \in Handlers, Refused(h)
      PROVE  \/ HeldByOther(h)
             \/ at[h] = "updateUser" /\ Unlinked(mail[h])
             \/ at[h] \in {"linkUser", "insertUser"} /\ HasRow(who[h])
  <2>1. HandlerOK(h) /\ HandlerDomains /\ DataDomains
    BY <1>1 DEF PortalInv, HandlersOK
  <2>2. ASSUME NEW l \in Labels \ {"idle"}, at' = [at EXCEPT ![h] = l] PROVE FALSE
    BY <1>1, <2>1, <2>2 DEF Refused, HandlerDomains
  <2>3. CASE FindByEmail(h)
    <3> DEFINE u == Lookup("email", mail[h])
    <3>1. u # 0 /\ LinkedElsewhere(u, who[h])
      BY <2>2, <2>3 DEF FindByEmail, Labels
    <3>2. u \in Rows /\ users[u].email = mail[h]
      BY <3>1, LookupByEmail
    <3>3. users[u].sub \in Accounts \ {who[h]}
      BY <2>1, <3>1, <3>2, RowNumbers DEF LinkedElsewhere, DataDomains
    <3> HIDE DEF u
    <3> QED BY <3>2, <3>3 DEF HeldByOther
  <2>4. CASE LinkUser(h)
    <3>1. Taken("sub", who[h], user[h])
      BY <2>2, <2>4 DEF LinkUser, Goto, Labels
    <3> QED BY <2>4, <3>1 DEF LinkUser, Taken, HasRow
  <2>5. CASE InsertUser(h)
    <3>1. Taken("sub", who[h], 0) \/ Taken("email", mail[h], 0)
      BY <2>2, <2>5 DEF InsertUser, Labels
    <3>2. CASE Taken("sub", who[h], 0)
      BY <2>5, <3>2 DEF InsertUser, Taken, HasRow
    <3>3. CASE Taken("email", mail[h], 0)
      <4> PICK u \in Rows : users[u].email = mail[h]
        BY <3>3 DEF Taken
      <4>1. users[u] \in [email : Addresses \cup {None}, sub : Accounts \cup {None}]
        BY <2>1, RowNumbers DEF DataDomains
      <4>2. users[u].sub # None
        BY <2>1, <2>5, <4>1 DEF InsertUser, HandlerOK, Unlinked
      <4> QED BY <2>5, <4>1, <4>2 DEF InsertUser, HeldByOther, HasRow
    <3> QED BY <3>1, <3>2, <3>3
  <2>6. CASE UpdateUser(h)
    <3>1. at[h] = "updateUser" /\ Taken("email", mail[h], user[h])
      BY <2>2, <2>6 DEF UpdateUser, Goto, Labels
    <3>2. Owns(who[h], user[h])
      BY <2>1, <3>1 DEF HandlerOK
    <3> PICK u \in Rows \ {user[h]} : users[u].email = mail[h]
      BY <3>1 DEF Taken
    <3>3. users[u] \in [email : Addresses \cup {None}, sub : Accounts \cup {None}]
      BY <2>1, RowNumbers DEF DataDomains
    <3>4. users[u].sub # who[h]
      BY <1>1, <3>2, <3>3, NoneAssumption DEF Owns, PortalInv, RowsInv, UniqueSub
    <3>5. CASE users[u].sub = None
      <4>1. users[u] = [email |-> mail[h], sub |-> None]
        BY <3>3, <3>5
      <4> QED BY <3>1, <4>1 DEF Unlinked
    <3>6. CASE users[u].sub # None
      BY <3>3, <3>4, <3>6 DEF HeldByOther
    <3> QED BY <3>5, <3>6
  <2> QED BY <1>1, <2>3, <2>4, <2>5, <2>6 DEF Refused
<1>2. PortalInv => Justified
  BY <1>1
<1>3. PortalInv => [Justified]_vars
  BY <1>2
<1> QED BY <1>3, PortalInvariant, PTL DEF RefusalIsJustified

=============================================================================
