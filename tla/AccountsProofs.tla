--------------------------- MODULE AccountsProofs ----------------------------
(***************************************************************************)
(* Theorems about Sessions, Store and OneTimeCodes for any accounts,       *)
(* tokens, links, stock transactions, documents, numbers, addresses and    *)
(* requests in flight.                                                     *)
(***************************************************************************)
EXTENDS Sessions, Store, OneTimeCodes, SumTheorems, TLAPS

(* Sessions.                                                               *)

\* Tokens and links that were given out belong to somebody, and a refresh under way is of
\* a token that was.
OwnersKnown ==
    /\ \A t \in Tokens : token[t].state # "none" => token[t].user \in Users
    /\ \A l \in Links : link[l].state = "sent" => link[l].user \in Users
    /\ \A t \in rotating : token[t].state # "none"

\* No request has read, and no token carries, a later password than the account has;
\* unless the account's row was saved over.
HashesOrdered ==
    /\ \A u \in Users : user[u].hash <= hashes
    /\ \A p \in saving : p[2].hash <= hashes
    /\ \A p \in setting : p[2].hash <= hashes
    /\ \A t \in Tokens : (token[t].state # "none" /\ token[t].user \notin overtaken) =>
                            token[t].hash <= user[token[t].user].hash
    /\ \A p \in issuing : p[1] \notin overtaken => p[2] <= user[p[1]].hash

\* Administrators are superusers, and a row of theirs that a profile request has read is
\* that of one who could sign in.
StaffSuper ==
    /\ \A u \in Staff : user[u].exists => user[u].super
    /\ \A p \in saving : p[1] \in Staff => p[2].exists /\ p[2].active /\ p[2].super
    /\ \A p \in setting : p[1] \notin Staff

IInv == SessionsTypeOK /\ OwnersKnown /\ HashesOrdered /\ OneUsableLink /\ StaffSuper

-----------------------------------------------------------------------------
(* What the steps have in common.                                          *)

\* Numbers of passwords.
LEMMA HashRange == /\ Hashes \subseteq Nat
                   /\ 0 \in Hashes
                   /\ \A n \in Hashes : n < MaxHash => n + 1 \in Hashes
BY SessionsAssumption DEF Hashes

\* The columns of an account, a token and a link.
LEMMA Columns ==
    ASSUME SessionsTypeOK
    PROVE  /\ \A u \in Users : /\ user[u] \in UserRows
                               /\ user[u].hash \in Hashes
                               /\ user[u].exists \in BOOLEAN
                               /\ user[u].active \in BOOLEAN
                               /\ user[u].super \in BOOLEAN
           /\ \A t \in Tokens : /\ token[t].state \in {"none", "live", "black"}
                                /\ token[t].user \in Users \cup {NoUser}
                                /\ token[t].hash \in Hashes
           /\ \A l \in Links : /\ link[l].state \in {"none", "sent", "used"}
                               /\ link[l].user \in Users \cup {NoUser}
           /\ \A p \in saving \cup setting : p[1] \in Users /\ p[2] \in UserRows /\ p[2].hash \in Hashes
           /\ \A p \in issuing : p[1] \in Users /\ p[2] \in Hashes
           /\ hashes \in Hashes
BY DEF SessionsTypeOK, UserRows

\* Somebody else remains of more than one superuser.
LEMMA Others ==
    ASSUME NEW S, NEW u, u \in S => Cardinality(S) > 1, S # {}
    PROVE  S \ {u} # {}
<1>1. CASE u \notin S
  BY <1>1
<1>2. CASE u \in S
  <2> SUFFICES ASSUME S \ {u} = {} PROVE FALSE
    OBVIOUS
  <2>1. S = {u}
    BY <1>2
  <2>2. Cardinality(S) = 1
    BY <2>1, FS_Singleton
  <2> QED
    BY <1>2, <2>2
<1> QED
  BY <1>1, <1>2

\* The sign-up state has everything in order.
LEMMA InitInv == SessionsInit => IInv
<1> SUFFICES ASSUME SessionsInit PROVE IInv
  OBVIOUS
<1> USE HashRange
<1>1. SessionsTypeOK
  BY SessionsAssumption DEF SessionsInit, SessionsTypeOK, UserRows, NoUserRow, NoToken
<1>2. OwnersKnown
  BY DEF SessionsInit, OwnersKnown, NoToken
<1>3. HashesOrdered
  <2>1. \A u \in Users : user[u].hash = 0
    BY DEF SessionsInit, NoUserRow
  <2>2. \A t \in Tokens : token[t].state = "none"
    BY DEF SessionsInit, NoToken
  <2>3. hashes = 0 /\ saving = {} /\ setting = {} /\ issuing = {}
    BY DEF SessionsInit
  <2> QED
    BY <2>1, <2>2, <2>3 DEF HashesOrdered
<1>4. OneUsableLink /\ StaffSuper
  <2>1. \A l \in Links : link[l].state = "none"
    BY DEF SessionsInit
  <2>2. \A u \in Staff : user[u].exists = FALSE
    BY SessionsAssumption DEF SessionsInit, NoUserRow
  <2>3. saving = {} /\ setting = {}
    BY DEF SessionsInit
  <2> QED
    BY <2>1, <2>2, <2>3 DEF OneUsableLink, StaffSuper
<1> QED
  BY <1>1, <1>2, <1>3, <1>4 DEF IInv

-----------------------------------------------------------------------------
(* Types.                                                                  *)

\* A new password is the last one made.
LEMMA NewPassword ==
    ASSUME SessionsTypeOK, NEW u \in Users, SetPassword(u)
    PROVE  /\ user' \in [Users -> UserRows]
           /\ hashes' \in Hashes
           /\ hashes' = hashes + 1
           /\ hashes \in Nat
           /\ user'[u].hash = hashes + 1
           /\ user'[u] = [user[u] EXCEPT !.hash = hashes + 1]
           /\ \A v \in Users : v # u => user'[v] = user[v]
<1>1. hashes + 1 \in Hashes /\ hashes \in Nat /\ hashes' = hashes + 1
  BY HashRange DEF SetPassword, NewHash, SessionsTypeOK
<1>2. user[u] \in UserRows /\ user' = [user EXCEPT ![u] = [user[u] EXCEPT !.hash = hashes + 1]]
  BY DEF SetPassword, SessionsTypeOK
<1>3. [user[u] EXCEPT !.hash = hashes + 1] \in UserRows
  BY <1>1, <1>2 DEF UserRows
<1>4. user'[u] = [user[u] EXCEPT !.hash = hashes + 1] /\ \A v \in Users : v # u => user'[v] = user[v]
  BY <1>2 DEF SessionsTypeOK
<1>5. user'[u].hash = hashes + 1
  BY <1>2, <1>4 DEF UserRows
<1> QED
  BY <1>1, <1>2, <1>3, <1>4, <1>5 DEF SessionsTypeOK

\* Blacklisting changes neither whose a token is nor its password.
LEMMA Invalidated ==
    ASSUME SessionsTypeOK, NEW u, InvalidateSessions(u)
    PROVE  /\ token' \in [Tokens -> [state : {"none", "live", "black"},
                                     user : Users \cup {NoUser}, hash : Hashes]]
           /\ \A t \in Tokens : /\ token'[t].user = token[t].user
                                /\ token'[t].hash = token[t].hash
                                /\ token'[t].state = "none" <=> token[t].state = "none"
BY DEF SessionsTypeOK, InvalidateSessions

TokenRows == [state : {"none", "live", "black"}, user : Users \cup {NoUser}, hash : Hashes]

\* A token whose state changes is a token.
LEMMA TokenChange ==
    ASSUME SessionsTypeOK, NEW s \in {"none", "live", "black"}
    PROVE  \A t \in Tokens : [token[t] EXCEPT !.state = s] \in TokenRows
BY DEF SessionsTypeOK, TokenRows


\* Every step leaves the rows of their types.
LEMMA TypeStep ==
    ASSUME IInv, SessionsNext
    PROVE  SessionsTypeOK'
<1> USE SessionsAssumption, HashRange DEF IInv
<1>1. ASSUME NEW u \in Users, Authenticate(u) PROVE SessionsTypeOK'
  BY <1>1, Columns DEF Authenticate, SessionsTypeOK, links, rows
<1>2. ASSUME NEW u \in Users, NEW h \in Hashes, NEW t \in Tokens, IssueToken(u, h, t) PROVE SessionsTypeOK'
  BY <1>2, Columns DEF IssueToken, SessionsTypeOK, UserRows, links, rows
<1>3. ASSUME NEW u \in Users, ChangePassword(u) PROVE SessionsTypeOK'
  <2>1. SetPassword(u) /\ InvalidateSessions(u)
    BY <1>3 DEF ChangePassword
  <2>2. issuing' \subseteq Users \X Hashes
    <3>1. hashes + 1 \in Hashes
      BY <2>1, NewPassword
    <3>2. <<u, hashes + 1>> \in Users \X Hashes /\ issuing \subseteq Users \X Hashes
      BY <3>1 DEF SessionsTypeOK
    <3>3. issuing' = issuing \cup {<<u, hashes + 1>>}
      BY <1>3 DEF ChangePassword
    <3> QED
      BY <3>2, <3>3
  <2> QED
    BY <1>3, <2>1, <2>2, NewPassword, Invalidated DEF ChangePassword, SessionsTypeOK, links, rows
<1>4. ASSUME NEW u \in Users, NEW l \in Links, RequestReset(u, l) PROVE SessionsTypeOK'
  BY <1>4, Columns DEF RequestReset, SessionsTypeOK, UserRows, links, rows
<1>5. ASSUME NEW u \in Users, MinutePasses(u) PROVE SessionsTypeOK'
  BY <1>5, Columns DEF MinutePasses, SessionsTypeOK, UserRows, links, rows
<1>6. ASSUME NEW u \in Users, ProfileReads(u) PROVE SessionsTypeOK'
  BY <1>6, Columns DEF ProfileReads, SessionsTypeOK, UserRows, links, rows
<1>7. ASSUME NEW u \in Users, NEW p \in saving, p[1] = u, ProfileSaves(u, p[2]) PROVE SessionsTypeOK'
  BY <1>7, Columns DEF ProfileSaves, SessionsTypeOK, UserRows, links, rows
<1>8. ASSUME NEW u \in Users, StatusReads(u) PROVE SessionsTypeOK'
  BY <1>8, Columns DEF StatusReads, SessionsTypeOK, UserRows, links, rows
<1>9. ASSUME NEW u \in Users, NEW p \in setting, NEW a \in BOOLEAN, p[1] = u, StatusSaves(u, p[2], a) PROVE SessionsTypeOK'
  <2>1. p[2] \in UserRows
    BY Columns
  <2>2. [p[2] EXCEPT !.active = a] \in UserRows
    BY <2>1 DEF UserRows
  <2>3. user' \in [Users -> UserRows]
    BY <1>9, <2>2 DEF StatusSaves, SessionsTypeOK
  <2> QED
    BY <1>9, <2>3 DEF StatusSaves, SessionsTypeOK, links
<1>10. ASSUME NEW t \in Tokens, RefreshReads(t) PROVE SessionsTypeOK'
  BY <1>10, Columns DEF RefreshReads, SessionsTypeOK, UserRows, links, rows
<1>11. ASSUME NEW t \in Tokens, NEW n \in Tokens, RotateToken(t, n) PROVE SessionsTypeOK'
  <2>1. [token[t] EXCEPT !.state = "black"] \in TokenRows /\ [token[t] EXCEPT !.state = "live"] \in TokenRows
    BY TokenChange
  <2>2. token' = [token EXCEPT ![t] = [token[t] EXCEPT !.state = "black"],
                               ![n] = [token[t] EXCEPT !.state = "live"]]
    BY <1>11 DEF RotateToken
  <2>3. token' \in [Tokens -> TokenRows]
    BY <2>1, <2>2 DEF SessionsTypeOK, TokenRows
  <2> QED
    BY <1>11, <2>3 DEF RotateToken, SessionsTypeOK, TokenRows, links, rows
<1>12. ASSUME NEW t \in Tokens, Logout(t) PROVE SessionsTypeOK'
  BY <1>12, Columns DEF Logout, SessionsTypeOK, UserRows, links, rows
<1>13. ASSUME NEW l \in Links, ConfirmReset(l) PROVE SessionsTypeOK'
  <2>1. link[l].user \in Users /\ SetPassword(link[l].user) /\ InvalidateSessions(link[l].user)
    BY <1>13 DEF ConfirmReset, OwnersKnown
  <2>2. link' \in [Links -> [state : {"none", "sent", "used"}, user : Users \cup {NoUser}]]
    BY <1>13 DEF ConfirmReset, SessionsTypeOK
  <2> QED
    BY <1>13, <2>1, <2>2, NewPassword, Invalidated DEF ConfirmReset, SessionsTypeOK, rows
<1>14. ASSUME NEW u \in Staff, SetupReads(u) PROVE SessionsTypeOK'
  BY <1>14, Columns DEF SetupReads, SessionsTypeOK, UserRows, links, rows
<1>15. ASSUME NEW u \in Staff, SetupSaves(u) PROVE SessionsTypeOK'
  BY <1>15, Columns DEF SetupSaves, SessionsTypeOK, UserRows, links, rows
<1>16. ASSUME NEW u \in Staff, AddSuperuser(u) PROVE SessionsTypeOK'
  BY <1>16, Columns DEF AddSuperuser, SessionsTypeOK, UserRows, links, rows
<1>17. ASSUME NEW u \in Staff, DisableAdministrator(u) PROVE SessionsTypeOK'
  BY <1>17, Columns DEF DisableAdministrator, SessionsTypeOK, UserRows, links, rows
<1>18. ASSUME NEW u \in Staff, EnableAdministrator(u) PROVE SessionsTypeOK'
  BY <1>18, Columns DEF EnableAdministrator, SessionsTypeOK, UserRows, links, rows
<1>19. ASSUME NEW u \in Staff, DeleteAdministrator(u) PROVE SessionsTypeOK'
  <2>1. [NoUserRow EXCEPT !.hash = user[u].hash] \in UserRows
    BY Columns DEF NoUserRow, UserRows
  <2>2. user' \in [Users -> UserRows]
    BY <1>19, <2>1 DEF DeleteAdministrator, SessionsTypeOK
  <2>3. token' \in [Tokens -> TokenRows]
    BY <1>19, TokenChange DEF DeleteAdministrator, SessionsTypeOK, TokenRows
  <2>4. link' \in [Links -> [state : {"none", "sent", "used"}, user : Users \cup {NoUser}]]
    BY <1>19 DEF DeleteAdministrator, SessionsTypeOK
  <2> QED
    BY <1>19, <2>2, <2>3, <2>4 DEF DeleteAdministrator, SessionsTypeOK, TokenRows, rows
<1> QED
  BY <1>1, <1>2, <1>3, <1>4, <1>5, <1>6, <1>7, <1>8, <1>9, <1>10,
     <1>11, <1>12, <1>13, <1>14, <1>15, <1>16, <1>17, <1>18, <1>19 DEF SessionsNext

-----------------------------------------------------------------------------
(* Tokens and links belong to somebody.                                    *)

\* Tokens and links are given to accounts, and a refresh is of a token.
LEMMA OwnersStep ==
    ASSUME IInv, SessionsNext
    PROVE  OwnersKnown'
<1> USE DEF IInv
<1>1. ASSUME NEW u \in Users, Authenticate(u) PROVE OwnersKnown'
  BY <1>1 DEF Authenticate, OwnersKnown, links
<1>2. ASSUME NEW u \in Users, NEW h \in Hashes, NEW t \in Tokens, IssueToken(u, h, t) PROVE OwnersKnown'
  BY <1>2 DEF IssueToken, OwnersKnown, SessionsTypeOK, links
<1>3. ASSUME NEW u \in Users, ChangePassword(u) PROVE OwnersKnown'
  <2>1. u \in Users /\ SetPassword(u) /\ InvalidateSessions(u)
    BY <1>3 DEF ChangePassword, OwnersKnown
  <2> QED
    BY <1>3, <2>1, Invalidated, Columns DEF ChangePassword, OwnersKnown, SessionsTypeOK, links
<1>4. ASSUME NEW u \in Users, NEW l \in Links, RequestReset(u, l) PROVE OwnersKnown'
  BY <1>4 DEF RequestReset, OwnersKnown, SessionsTypeOK
<1>5. ASSUME NEW u \in Users, MinutePasses(u) PROVE OwnersKnown'
  BY <1>5 DEF MinutePasses, OwnersKnown, links
<1>6. ASSUME NEW u \in Users, ProfileReads(u) PROVE OwnersKnown'
  BY <1>6 DEF ProfileReads, OwnersKnown, links
<1>7. ASSUME NEW u \in Users, NEW p \in saving, p[1] = u, ProfileSaves(u, p[2]) PROVE OwnersKnown'
  BY <1>7 DEF ProfileSaves, OwnersKnown, links
<1>8. ASSUME NEW u \in Users, StatusReads(u) PROVE OwnersKnown'
  BY <1>8 DEF StatusReads, OwnersKnown, links
<1>9. ASSUME NEW u \in Users, NEW p \in setting, NEW a \in BOOLEAN, p[1] = u, StatusSaves(u, p[2], a) PROVE OwnersKnown'
  BY <1>9 DEF StatusSaves, OwnersKnown, links
<1>10. ASSUME NEW t \in Tokens, RefreshReads(t) PROVE OwnersKnown'
  BY <1>10 DEF RefreshReads, OwnersKnown, Usable, links
<1>11. ASSUME NEW t \in Tokens, NEW n \in Tokens, RotateToken(t, n) PROVE OwnersKnown'
  BY <1>11 DEF RotateToken, OwnersKnown, SessionsTypeOK, links
<1>12. ASSUME NEW t \in Tokens, Logout(t) PROVE OwnersKnown'
  BY <1>12 DEF Logout, OwnersKnown, SessionsTypeOK, links
<1>13. ASSUME NEW l \in Links, ConfirmReset(l) PROVE OwnersKnown'
  <2>1. link[l].user \in Users /\ InvalidateSessions(link[l].user)
    BY <1>13 DEF ConfirmReset, OwnersKnown
  <2>2. \A k \in Links : link'[k].user = link[k].user /\ (link'[k].state = "sent" => link[k].state = "sent")
    BY <1>13, Columns DEF ConfirmReset, SessionsTypeOK
  <2> QED
    BY <1>13, <2>1, <2>2, Invalidated, Columns DEF ConfirmReset, OwnersKnown, SessionsTypeOK
<1>14. ASSUME NEW u \in Staff, SetupReads(u) PROVE OwnersKnown'
  BY <1>14 DEF SetupReads, OwnersKnown, links
<1>15. ASSUME NEW u \in Staff, SetupSaves(u) PROVE OwnersKnown'
  BY <1>15 DEF SetupSaves, OwnersKnown, links
<1>16. ASSUME NEW u \in Staff, AddSuperuser(u) PROVE OwnersKnown'
  BY <1>16 DEF AddSuperuser, OwnersKnown, links
<1>17. ASSUME NEW u \in Staff, DisableAdministrator(u) PROVE OwnersKnown'
  BY <1>17 DEF DisableAdministrator, OwnersKnown, links
<1>18. ASSUME NEW u \in Staff, EnableAdministrator(u) PROVE OwnersKnown'
  BY <1>18 DEF EnableAdministrator, OwnersKnown, links
<1>19. ASSUME NEW u \in Staff, DeleteAdministrator(u) PROVE OwnersKnown'
  BY <1>19 DEF DeleteAdministrator, OwnersKnown, SessionsTypeOK
<1> QED
  BY <1>1, <1>2, <1>3, <1>4, <1>5, <1>6, <1>7, <1>8, <1>9, <1>10,
     <1>11, <1>12, <1>13, <1>14, <1>15, <1>16, <1>17, <1>18, <1>19 DEF SessionsNext

-----------------------------------------------------------------------------
(* At most one link of an account can be used.                             *)

\* A link is sent with those before it taken back.
LEMMA LinkStep ==
    ASSUME IInv, SessionsNext
    PROVE  OneUsableLink'
<1> USE DEF IInv
<1>1. ASSUME NEW u \in Users, Authenticate(u) PROVE OneUsableLink'
  BY <1>1 DEF Authenticate, OneUsableLink, links
<1>2. ASSUME NEW u \in Users, NEW h \in Hashes, NEW t \in Tokens, IssueToken(u, h, t) PROVE OneUsableLink'
  BY <1>2 DEF IssueToken, OneUsableLink, links
<1>3. ASSUME NEW u \in Users, ChangePassword(u) PROVE OneUsableLink'
  BY <1>3 DEF ChangePassword, OneUsableLink, links
<1>4. ASSUME NEW u \in Users, NEW l \in Links, RequestReset(u, l) PROVE OneUsableLink'
  BY <1>4 DEF RequestReset, OneUsableLink, SessionsTypeOK
<1>5. ASSUME NEW u \in Users, MinutePasses(u) PROVE OneUsableLink'
  BY <1>5 DEF MinutePasses, OneUsableLink, links
<1>6. ASSUME NEW u \in Users, ProfileReads(u) PROVE OneUsableLink'
  BY <1>6 DEF ProfileReads, OneUsableLink, links
<1>7. ASSUME NEW u \in Users, NEW p \in saving, p[1] = u, ProfileSaves(u, p[2]) PROVE OneUsableLink'
  BY <1>7 DEF ProfileSaves, OneUsableLink, links
<1>8. ASSUME NEW u \in Users, StatusReads(u) PROVE OneUsableLink'
  BY <1>8 DEF StatusReads, OneUsableLink, links
<1>9. ASSUME NEW u \in Users, NEW p \in setting, NEW a \in BOOLEAN, p[1] = u, StatusSaves(u, p[2], a) PROVE OneUsableLink'
  BY <1>9 DEF StatusSaves, OneUsableLink, links
<1>10. ASSUME NEW t \in Tokens, RefreshReads(t) PROVE OneUsableLink'
  BY <1>10 DEF RefreshReads, OneUsableLink, links
<1>11. ASSUME NEW t \in Tokens, NEW n \in Tokens, RotateToken(t, n) PROVE OneUsableLink'
  BY <1>11 DEF RotateToken, OneUsableLink, links
<1>12. ASSUME NEW t \in Tokens, Logout(t) PROVE OneUsableLink'
  BY <1>12 DEF Logout, OneUsableLink, links
<1>13. ASSUME NEW l \in Links, ConfirmReset(l) PROVE OneUsableLink'
  BY <1>13 DEF ConfirmReset, OneUsableLink, SessionsTypeOK
<1>14. ASSUME NEW u \in Staff, SetupReads(u) PROVE OneUsableLink'
  BY <1>14 DEF SetupReads, OneUsableLink, links
<1>15. ASSUME NEW u \in Staff, SetupSaves(u) PROVE OneUsableLink'
  BY <1>15 DEF SetupSaves, OneUsableLink, links
<1>16. ASSUME NEW u \in Staff, AddSuperuser(u) PROVE OneUsableLink'
  BY <1>16 DEF AddSuperuser, OneUsableLink, links
<1>17. ASSUME NEW u \in Staff, DisableAdministrator(u) PROVE OneUsableLink'
  BY <1>17 DEF DisableAdministrator, OneUsableLink, links
<1>18. ASSUME NEW u \in Staff, EnableAdministrator(u) PROVE OneUsableLink'
  BY <1>18 DEF EnableAdministrator, OneUsableLink, links
<1>19. ASSUME NEW u \in Staff, DeleteAdministrator(u) PROVE OneUsableLink'
  BY <1>19 DEF DeleteAdministrator, OneUsableLink, SessionsTypeOK
<1> QED
  BY <1>1, <1>2, <1>3, <1>4, <1>5, <1>6, <1>7, <1>8, <1>9, <1>10,
     <1>11, <1>12, <1>13, <1>14, <1>15, <1>16, <1>17, <1>18, <1>19 DEF SessionsNext

-----------------------------------------------------------------------------
(* Administrators.                                                         *)

\* Administrators stay superusers, and a profile row of theirs is of one who could sign in.
LEMMA StaffStep ==
    ASSUME IInv, SessionsNext
    PROVE  StaffSuper'
<1> USE SessionsAssumption DEF IInv
<1>1. ASSUME NEW u \in Users, Authenticate(u) PROVE StaffSuper'
  BY <1>1 DEF Authenticate, StaffSuper, links, rows
<1>2. ASSUME NEW u \in Users, NEW h \in Hashes, NEW t \in Tokens, IssueToken(u, h, t) PROVE StaffSuper'
  BY <1>2 DEF IssueToken, StaffSuper, links, rows
<1>3. ASSUME NEW u \in Users, ChangePassword(u) PROVE StaffSuper'
  <2>1. \A v \in Users : user'[v].exists = user[v].exists /\ user'[v].super = user[v].super
    BY <1>3, NewPassword, Columns DEF ChangePassword, UserRows
  <2> QED
    BY <1>3, <2>1 DEF ChangePassword, StaffSuper, rows
<1>4. ASSUME NEW u \in Users, NEW l \in Links, RequestReset(u, l) PROVE StaffSuper'
  BY <1>4 DEF RequestReset, StaffSuper, links, rows
<1>5. ASSUME NEW u \in Users, MinutePasses(u) PROVE StaffSuper'
  BY <1>5 DEF MinutePasses, StaffSuper, links, rows
<1>6. ASSUME NEW u \in Users, ProfileReads(u) PROVE StaffSuper'
  BY <1>6 DEF ProfileReads, StaffSuper, SignedIn, SignedUp, links
<1>7. ASSUME NEW u \in Users, NEW p \in saving, p[1] = u, ProfileSaves(u, p[2]) PROVE StaffSuper'
  BY <1>7 DEF ProfileSaves, StaffSuper, SessionsTypeOK, links
<1>8. ASSUME NEW u \in Users, StatusReads(u) PROVE StaffSuper'
  BY <1>8 DEF StatusReads, StaffSuper, links, rows
<1>9. ASSUME NEW u \in Users, NEW p \in setting, NEW a \in BOOLEAN, p[1] = u, StatusSaves(u, p[2], a) PROVE StaffSuper'
  BY <1>9 DEF StatusSaves, StaffSuper, SessionsTypeOK, links
<1>10. ASSUME NEW t \in Tokens, RefreshReads(t) PROVE StaffSuper'
  BY <1>10 DEF RefreshReads, StaffSuper, links, rows
<1>11. ASSUME NEW t \in Tokens, NEW n \in Tokens, RotateToken(t, n) PROVE StaffSuper'
  BY <1>11 DEF RotateToken, StaffSuper, links, rows
<1>12. ASSUME NEW t \in Tokens, Logout(t) PROVE StaffSuper'
  BY <1>12 DEF Logout, StaffSuper, links, rows
<1>13. ASSUME NEW l \in Links, ConfirmReset(l) PROVE StaffSuper'
  <2>1. link[l].user \in Users /\ SetPassword(link[l].user)
    BY <1>13 DEF ConfirmReset, OwnersKnown
  <2>2. \A v \in Users : user'[v].exists = user[v].exists /\ user'[v].super = user[v].super
    BY <2>1, NewPassword, Columns DEF UserRows
  <2> QED
    BY <1>13, <2>2 DEF ConfirmReset, StaffSuper, rows
<1>14. ASSUME NEW u \in Staff, SetupReads(u) PROVE StaffSuper'
  BY <1>14 DEF SetupReads, StaffSuper, links, rows
<1>15. ASSUME NEW u \in Staff, SetupSaves(u) PROVE StaffSuper'
  BY <1>15 DEF SetupSaves, StaffSuper, SessionsTypeOK, UserRows, rows
<1>16. ASSUME NEW u \in Staff, AddSuperuser(u) PROVE StaffSuper'
  BY <1>16 DEF AddSuperuser, StaffSuper, SessionsTypeOK, UserRows, rows
<1>17. ASSUME NEW u \in Staff, DisableAdministrator(u) PROVE StaffSuper'
  BY <1>17 DEF DisableAdministrator, StaffSuper, SessionsTypeOK, UserRows, rows
<1>18. ASSUME NEW u \in Staff, EnableAdministrator(u) PROVE StaffSuper'
  BY <1>18 DEF EnableAdministrator, StaffSuper, SessionsTypeOK, UserRows, rows
<1>19. ASSUME NEW u \in Staff, DeleteAdministrator(u) PROVE StaffSuper'
  BY <1>19 DEF DeleteAdministrator, StaffSuper, SessionsTypeOK, UserRows, NoUserRow, rows
<1> QED
  BY <1>1, <1>2, <1>3, <1>4, <1>5, <1>6, <1>7, <1>8, <1>9, <1>10,
     <1>11, <1>12, <1>13, <1>14, <1>15, <1>16, <1>17, <1>18, <1>19 DEF SessionsNext

-----------------------------------------------------------------------------
(* Passwords in order.                                                     *)

\* A new password is later than any before it, so that what was in order stays so.
LEMMA PasswordStep ==
    ASSUME IInv, NEW u \in Users, SetPassword(u), InvalidateSessions(u),
           issuing' \subseteq issuing \cup {<<u, hashes + 1>>}, UNCHANGED rows
    PROVE  HashesOrdered'
<1>1. /\ hashes' = hashes + 1
      /\ hashes \in Nat
      /\ user'[u].hash = hashes + 1
      /\ \A v \in Users : v # u => user'[v].hash = user[v].hash
  BY NewPassword DEF IInv
<1>a. \A v \in Users : user[v].hash \in Nat /\ user[v].hash <= hashes
  BY Columns, HashRange DEF IInv, HashesOrdered
<1>b. \A p \in saving \cup setting : p[2].hash \in Nat /\ p[2].hash <= hashes
  BY Columns, HashRange DEF IInv, HashesOrdered
<1>2. \A v \in Users : user[v].hash \in Nat /\ user[v].hash <= user'[v].hash /\ user'[v].hash <= hashes'
  BY <1>1, <1>a
<1>3. \A p \in saving \cup setting : p[2].hash \in Nat /\ p[2].hash <= hashes'
  BY <1>1, <1>b
<1>4. \A t \in Tokens : (token'[t].state # "none" /\ token'[t].user \notin overtaken) =>
                          token'[t].hash <= user'[token'[t].user].hash
  <2> TAKE t \in Tokens
  <2> HAVE token'[t].state # "none" /\ token'[t].user \notin overtaken
  <2>1. /\ token[t].state # "none"
        /\ token'[t].user = token[t].user
        /\ token'[t].hash = token[t].hash
    BY Invalidated DEF IInv
  <2>2. token[t].user \in Users /\ token[t].hash \in Nat /\ token[t].hash <= user[token[t].user].hash
    BY <2>1, Columns, HashRange DEF IInv, OwnersKnown, HashesOrdered
  <2>3. user[token[t].user].hash \in Nat /\ user'[token[t].user].hash \in Nat
    BY <1>1, <1>2, <2>2
  <2> QED
    BY <1>2, <2>1, <2>2, <2>3
<1>5. \A p \in issuing' : p[1] \notin overtaken => p[2] <= user'[p[1]].hash
  <2> TAKE p \in issuing'
  <2> HAVE p[1] \notin overtaken
  <2>1. CASE p \in issuing
    <3>1. p[1] \in Users /\ p[2] \in Nat /\ p[2] <= user[p[1]].hash
      BY <2>1, Columns, HashRange DEF IInv, HashesOrdered
    <3>2. user[p[1]].hash \in Nat /\ user'[p[1]].hash \in Nat
      BY <1>1, <1>2, <3>1
    <3> QED
      BY <1>2, <3>1, <3>2
  <2>2. CASE p = <<u, hashes + 1>>
    BY <1>1, <2>2
  <2> QED
    BY <2>1, <2>2
<1>6. saving' = saving /\ setting' = setting /\ overtaken' = overtaken
  BY DEF rows
<1> QED
  BY <1>2, <1>3, <1>4, <1>5, <1>6 DEF HashesOrdered

\* No step takes anybody ahead of the account's password, but a whole row saved over it.
LEMMA HashStep ==
    ASSUME IInv, SessionsNext
    PROVE  HashesOrdered'
<1> USE SessionsAssumption DEF IInv
<1>1. ASSUME NEW u \in Users, Authenticate(u) PROVE HashesOrdered'
  <2>h. user[u].hash \in Nat
    BY Columns, HashRange
  <2>1. user[u].hash <= user[u].hash
    BY <2>h
  <2> QED
    BY <1>1, <2>1 DEF Authenticate, HashesOrdered, links, rows
<1>2. ASSUME NEW u \in Users, NEW h \in Hashes, NEW t \in Tokens, IssueToken(u, h, t) PROVE HashesOrdered'
  BY <1>2 DEF IssueToken, HashesOrdered, SessionsTypeOK, links, rows
<1>3. ASSUME NEW u \in Users, ChangePassword(u) PROVE HashesOrdered'
  BY <1>3, PasswordStep DEF ChangePassword
<1>4. ASSUME NEW u \in Users, NEW l \in Links, RequestReset(u, l) PROVE HashesOrdered'
  BY <1>4 DEF RequestReset, HashesOrdered, links, rows
<1>5. ASSUME NEW u \in Users, MinutePasses(u) PROVE HashesOrdered'
  BY <1>5 DEF MinutePasses, HashesOrdered, links, rows
<1>6. ASSUME NEW u \in Users, ProfileReads(u) PROVE HashesOrdered'
  BY <1>6 DEF ProfileReads, HashesOrdered, links
<1>7. ASSUME NEW u \in Users, NEW p \in saving, p[1] = u, ProfileSaves(u, p[2]) PROVE HashesOrdered'
  BY <1>7 DEF ProfileSaves, HashesOrdered, OwnersKnown, SessionsTypeOK, links
<1>8. ASSUME NEW u \in Users, StatusReads(u) PROVE HashesOrdered'
  BY <1>8 DEF StatusReads, HashesOrdered, links, rows
<1>9. ASSUME NEW u \in Users, NEW p \in setting, NEW a \in BOOLEAN, p[1] = u, StatusSaves(u, p[2], a) PROVE HashesOrdered'
  <2>1. p[2] \in UserRows /\ p[2].hash <= hashes /\ p \in setting
    BY Columns DEF HashesOrdered
  <2>2. [p[2] EXCEPT !.active = a].hash = p[2].hash
    BY <2>1 DEF UserRows
  <2>3. /\ user'[u].hash = p[2].hash
        /\ \A v \in Users : v # u => user'[v] = user[v]
        /\ overtaken \subseteq overtaken'
        /\ u \in overtaken' \/ user[u].hash = p[2].hash
    BY <1>9, <2>2 DEF StatusSaves, SessionsTypeOK
  <2>4. \A v \in Users : v \notin overtaken' => user'[v].hash = user[v].hash
    BY <2>3
  <2>5. \A v \in Users : user'[v].hash <= hashes
    BY <2>1, <2>3 DEF HashesOrdered
  <2> QED
    BY <1>9, <2>3, <2>4, <2>5, Columns DEF StatusSaves, HashesOrdered, OwnersKnown, links
<1>10. ASSUME NEW t \in Tokens, RefreshReads(t) PROVE HashesOrdered'
  BY <1>10 DEF RefreshReads, HashesOrdered, links, rows
<1>11. ASSUME NEW t \in Tokens, NEW n \in Tokens, RotateToken(t, n) PROVE HashesOrdered'
  BY <1>11 DEF RotateToken, HashesOrdered, OwnersKnown, SessionsTypeOK, links, rows
<1>12. ASSUME NEW t \in Tokens, Logout(t) PROVE HashesOrdered'
  BY <1>12 DEF Logout, HashesOrdered, SessionsTypeOK, links, rows
<1>13. ASSUME NEW l \in Links, ConfirmReset(l) PROVE HashesOrdered'
  <2>1. link[l].user \in Users
    BY <1>13 DEF ConfirmReset, OwnersKnown
  <2> QED
    BY <1>13, <2>1, PasswordStep DEF ConfirmReset
<1>14. ASSUME NEW u \in Staff, SetupReads(u) PROVE HashesOrdered'
  BY <1>14 DEF SetupReads, HashesOrdered, links, rows
<1>15. ASSUME NEW u \in Staff, SetupSaves(u) PROVE HashesOrdered'
  <2>1. \A v \in Users : user'[v].hash = user[v].hash
    BY <1>15, Columns DEF SetupSaves, SessionsTypeOK, UserRows
  <2> QED
    BY <1>15, <2>1, Columns DEF SetupSaves, HashesOrdered, OwnersKnown, rows
<1>16. ASSUME NEW u \in Staff, AddSuperuser(u) PROVE HashesOrdered'
  <2>1. \A v \in Users : user'[v].hash = user[v].hash
    BY <1>16, Columns DEF AddSuperuser, SessionsTypeOK, UserRows
  <2> QED
    BY <1>16, <2>1, Columns DEF AddSuperuser, HashesOrdered, OwnersKnown, rows
<1>17. ASSUME NEW u \in Staff, DisableAdministrator(u) PROVE HashesOrdered'
  <2>1. \A v \in Users : user'[v].hash = user[v].hash
    BY <1>17, Columns DEF DisableAdministrator, SessionsTypeOK, UserRows
  <2> QED
    BY <1>17, <2>1, Columns DEF DisableAdministrator, HashesOrdered, OwnersKnown, rows
<1>18. ASSUME NEW u \in Staff, EnableAdministrator(u) PROVE HashesOrdered'
  <2>1. \A v \in Users : user'[v].hash = user[v].hash
    BY <1>18, Columns DEF EnableAdministrator, SessionsTypeOK, UserRows
  <2> QED
    BY <1>18, <2>1, Columns DEF EnableAdministrator, HashesOrdered, OwnersKnown, rows
<1>19. ASSUME NEW u \in Staff, DeleteAdministrator(u) PROVE HashesOrdered'
  <2>1. /\ \A v \in Users : user'[v].hash = user[v].hash
        /\ \A t \in Tokens : /\ token'[t].user = token[t].user
                             /\ token'[t].hash = token[t].hash
                             /\ token'[t].state = "none" <=> token[t].state = "none"
    BY <1>19, Columns DEF DeleteAdministrator, SessionsTypeOK, UserRows, NoUserRow
  <2> QED
    BY <1>19, <2>1, Columns DEF DeleteAdministrator, HashesOrdered, OwnersKnown, rows
<1> QED
  BY <1>1, <1>2, <1>3, <1>4, <1>5, <1>6, <1>7, <1>8, <1>9, <1>10,
     <1>11, <1>12, <1>13, <1>14, <1>15, <1>16, <1>17, <1>18, <1>19 DEF SessionsNext

-----------------------------------------------------------------------------
(* The specification.                                                      *)

\* Every step keeps the invariant.
LEMMA InvStep == IInv /\ [SessionsNext]_sessionVars => IInv'
<1>1. ASSUME IInv, SessionsNext PROVE IInv'
  BY <1>1, TypeStep, OwnersStep, HashStep, LinkStep, StaffStep DEF IInv
<1>2. ASSUME IInv, UNCHANGED sessionVars PROVE IInv'
  BY <1>2 DEF IInv, SessionsTypeOK, OwnersKnown, HashesOrdered, OneUsableLink, StaffSuper,
              sessionVars
<1> QED
  BY <1>1, <1>2

\* Every reachable state satisfies the invariant.
LEMMA Invariance == SessionsSpec => []IInv
BY InitInv, InvStep, PTL DEF SessionsSpec

\* The rows of accounts, tokens, links and requests under way keep their types.
THEOREM SessionsTypes == SessionsSpec => []SessionsTypeOK
<1>1. IInv => SessionsTypeOK
  BY DEF IInv
<1> QED
  BY <1>1, Invariance, PTL

\* Of all reset links sent to an account at most one can be used, however many links,
\* requests and resets there are.
THEOREM OneLink == SessionsSpec => []OneUsableLink
<1>1. IInv => OneUsableLink
  BY DEF IInv
<1> QED
  BY <1>1, Invariance, PTL

\* No token of a password that was replaced buys a new one, unless a request saved the
\* account's row over the new password.
THEOREM StaleSessions == SessionsSpec => []StaleSessionsDie
<1>1. ASSUME IInv PROVE StaleSessionsDie
  <2> SUFFICES ASSUME NEW t \in Tokens, Usable(t), token[t].user \notin overtaken,
                      NEW s \in Tokens, token[s].state # "none", token[s].user = token[t].user
               PROVE  token[s].hash <= token[t].hash
    BY DEF StaleSessionsDie
  <2>1. token[t].hash = user[token[t].user].hash
    BY DEF Usable
  <2>2. token[s].hash <= user[token[s].user].hash
    BY <1>1 DEF IInv, HashesOrdered
  <2> QED
    BY <2>1, <2>2
<1> QED
  BY <1>1, Invariance, PTL

\* Who can sign in as a superuser, in terms of the rows of the administrators.
LEMMA Kept ==
    ASSUME IInv, NEW v, v \in Superusers, user'[v] = user[v]
    PROVE  Superusers' # {}
BY DEF Superusers, SignedUp

\* Whoever disables or deletes administrators at the same time, and whatever rows
\* requests save, a superuser who can sign in remains.
THEOREM SomebodyRemains == SessionsSpec => SuperuserRemains
<1>1. ASSUME IInv, SessionsNext, Superusers # {} PROVE Superusers' # {}
  <2> USE <1>1, SessionsAssumption
  <2> PICK v \in Superusers : TRUE
    BY <1>1
  <2>v. v \in Staff /\ v \in Users /\ user[v].exists /\ user[v].active /\ user[v].super
    BY DEF Superusers, SignedUp
  <2>1. CASE UNCHANGED user
    BY <2>1, Kept
  <2>2. ASSUME NEW u \in Users, SetPassword(u) PROVE Superusers' # {}
    <3>1. user'[v].exists /\ user'[v].active /\ user'[v].super
      BY <2>2, <2>v, NewPassword, Columns DEF IInv, UserRows
    <3> QED
      BY <2>v, <3>1 DEF Superusers, SignedUp
  <2>3. ASSUME NEW u \in Users, NEW p \in saving, p[1] = u, ProfileSaves(u, p[2])
        PROVE  Superusers' # {}
    <3>1. CASE u = v
      <4>1. user'[v] = p[2]
        BY <2>3, <3>1 DEF ProfileSaves, IInv, SessionsTypeOK
      <4>2. p[2].exists /\ p[2].active /\ p[2].super
        BY <2>3, <3>1, <2>v DEF IInv, StaffSuper
      <4> QED
        BY <2>v, <4>1, <4>2 DEF Superusers, SignedUp
    <3>2. CASE u # v
      BY <2>3, <2>v, <3>2, Kept DEF ProfileSaves, IInv, SessionsTypeOK
    <3> QED
      BY <3>1, <3>2
  <2>4. ASSUME NEW u \in Users, NEW p \in setting, NEW a \in BOOLEAN, p[1] = u, StatusSaves(u, p[2], a)
        PROVE  Superusers' # {}
    <3>1. u # v
      BY <2>4, <2>v DEF IInv, StaffSuper
    <3> QED
      BY <2>4, <2>v, <3>1, Kept DEF StatusSaves, IInv, SessionsTypeOK
  <2>5. ASSUME NEW u \in Staff, SetupSaves(u) \/ AddSuperuser(u) PROVE Superusers' # {}
    <3>1. u # v
      BY <2>5, <2>v DEF SetupSaves, AddSuperuser
    <3> QED
      BY <2>5, <2>v, <3>1, Kept DEF SetupSaves, AddSuperuser, IInv, SessionsTypeOK
  <2>6. ASSUME NEW u \in Staff, DisableAdministrator(u) \/ DeleteAdministrator(u)
        PROVE  Superusers' # {}
    <3>1. u \in Superusers => Cardinality(Superusers) > 1
      BY <2>6 DEF DisableAdministrator, DeleteAdministrator, Dispensable
    <3>2. Superusers \ {u} # {}
      BY <3>1, Others
    <3>3. PICK w \in Superusers : w # u
      BY <3>2
    <3>4. w \in Users
      BY DEF Superusers
    <3>5. user'[w] = user[w]
      BY <2>6, <3>3, <3>4 DEF DisableAdministrator, DeleteAdministrator, IInv, SessionsTypeOK
    <3> QED
      BY <3>5, Kept
  <2>7. ASSUME NEW u \in Staff, EnableAdministrator(u) PROVE Superusers' # {}
    <3>1. user'[v].exists /\ user'[v].active /\ user'[v].super
      BY <2>7, <2>v, Columns DEF EnableAdministrator, IInv, SessionsTypeOK, UserRows
    <3> QED
      BY <2>v, <3>1 DEF Superusers, SignedUp
  <2>8. ASSUME NEW u \in Users, ChangePassword(u) PROVE Superusers' # {}
    BY <2>2, <2>8 DEF ChangePassword
  <2>9. ASSUME NEW l \in Links, ConfirmReset(l) PROVE Superusers' # {}
    BY <2>2, <2>9 DEF ConfirmReset, IInv, OwnersKnown
  <2>10. ASSUME NEW u \in Users,
                \/ Authenticate(u)
                \/ \E h \in Hashes, t \in Tokens : IssueToken(u, h, t)
                \/ \E l \in Links : RequestReset(u, l)
                \/ MinutePasses(u)
                \/ ProfileReads(u)
                \/ StatusReads(u)
                \/ SetupReads(u)
         PROVE  Superusers' # {}
    BY <2>1, <2>10 DEF Authenticate, IssueToken, RequestReset, MinutePasses, ProfileReads,
                       StatusReads, SetupReads
  <2>11. ASSUME NEW t \in Tokens,
                RefreshReads(t) \/ Logout(t) \/ \E n \in Tokens : RotateToken(t, n)
         PROVE  Superusers' # {}
    BY <2>1, <2>11 DEF RefreshReads, Logout, RotateToken
  <2> QED
    BY <2>3, <2>4, <2>5, <2>6, <2>7, <2>8, <2>9, <2>10, <2>11 DEF SessionsNext
<1>2. IInv /\ [SessionsNext]_sessionVars => [Superusers # {} => Superusers' # {}]_sessionVars
  BY <1>1
<1> QED
  BY <1>2, Invariance, PTL DEF SessionsSpec, SuperuserRemains
-----------------------------------------------------------------------------
(* Store: what the timestamps of a review of the stock prove.              *)

\* What is saved, shown or confirmed happens one thing at a time, and before now.
InOrder ==
    /\ shelf.updated <= clock
    /\ screen.at <= clock
    /\ review.at <= clock
    /\ screen.shown => screen.updated < screen.at
    /\ \A e \in Edits : edit[e].state = "saved" => /\ edit[e].at <= clock
                                                   /\ edit[e].at > 0
                                                   /\ edit[e].at # review.at

\* The screen shows the stock there is, unless the timestamp says it does not or a change
\* that was saved before has been committed since.
ScreenTells == (screen.shown /\ ~screen.straddled) =>
                  (screen.version = shelf.version \/ shelf.updated >= screen.at)

\* The same of the review, whose timestamp is never that of a change.
ReviewTells == ~review.straddled => (review.version = shelf.version \/ shelf.updated > review.at)

\* What of the types the argument needs.
Stamps ==
    /\ clock \in Nat
    /\ shelf \in [version : Nat, updated : Nat]
    /\ edit \in [Edits -> [state : {"none", "saved", "done"}, at : Nat]]
    /\ screen \in [shown : BOOLEAN, version : Nat, updated : Nat, at : Nat, straddled : BOOLEAN]
    /\ review \in [today : BOOLEAN, version : Nat, at : Nat, straddled : BOOLEAN]
    /\ store \in StoreRows
    /\ closing \in [on : BOOLEAN, past : BOOLEAN]

StoreInv == Stamps /\ InOrder /\ ScreenTells /\ ReviewTells
-----------------------------------------------------------------------------
\* The later of two times.
LEMMA Later ==
    ASSUME NEW a \in Nat, NEW b \in Nat
    PROVE  /\ Max({a, b}) \in Nat
           /\ Max({a, b}) >= a
           /\ Max({a, b}) >= b
           /\ Max({a, b}) \in {a, b}
<1>1. \E x \in {a, b} : \A y \in {a, b} : x >= y
  <2>1. CASE a >= b
    BY <2>1
  <2>2. CASE b >= a
    BY <2>2
  <2> QED
    BY <2>1, <2>2
<1>2. Max({a, b}) \in {a, b} /\ \A y \in {a, b} : Max({a, b}) >= y
  BY <1>1 DEF Max
<1> QED
  BY <1>2

\* A store is registered with nothing on its shelf, screen or record.
LEMMA StoreInitInv == StoreInit => StoreInv
<1> SUFFICES ASSUME StoreInit PROVE StoreInv
  OBVIOUS
<1>1. Stamps
  BY StoreAssumption DEF StoreInit, Stamps, StoreRows, NoScreen, NoReview, VendorStatuses
<1>2. InOrder /\ ScreenTells /\ ReviewTells
  BY DEF StoreInit, InOrder, ScreenTells, ReviewTells, NoScreen, NoReview
<1> QED
  BY <1>1, <1>2 DEF StoreInv

\* Nothing but the stock, the screen, the review and the clock matters.
LEMMA Aside ==
    ASSUME StoreInv, UNCHANGED <<shelf, edit, clock, screen>>, store' \in StoreRows,
           closing' \in [on : BOOLEAN, past : BOOLEAN],
           review' \in [today : BOOLEAN, version : Nat, at : Nat, straddled : BOOLEAN],
           review'.version = review.version, review'.at = review.at,
           review'.straddled = review.straddled
    PROVE  StoreInv'
BY DEF StoreInv, Stamps, InOrder, ScreenTells, ReviewTells

\* What is shown now is stamped later than any save so far.
LEMMA ShowStep == StoreInv /\ ShowInventory => StoreInv'
<1> SUFFICES ASSUME StoreInv, ShowInventory PROVE StoreInv'
  OBVIOUS
<1>1. /\ clock' = clock + 1 /\ clock \in Nat
      /\ screen' = [shown |-> TRUE, version |-> shelf.version, updated |-> shelf.updated,
                    at |-> clock + 1, straddled |-> FALSE]
      /\ UNCHANGED <<store, shelf, edit, review, closing>>
  BY DEF ShowInventory, Tick, stock, StoreInv, Stamps
<1>2. Stamps'
  BY <1>1 DEF StoreInv, Stamps
<1>3. InOrder'
  BY <1>1 DEF StoreInv, Stamps, InOrder
<1>4. ScreenTells' /\ ReviewTells'
  BY <1>1 DEF StoreInv, Stamps, ScreenTells, ReviewTells
<1> QED
  BY <1>2, <1>3, <1>4 DEF StoreInv

\* The summary says the same as the screen, so that nothing was saved after the screen.
LEMMA ReviewStep == StoreInv /\ ReviewInventory => StoreInv'
<1> SUFFICES ASSUME StoreInv, ReviewInventory PROVE StoreInv'
  OBVIOUS
<1>1. /\ clock' = clock + 1 /\ clock \in Nat
      /\ screen.shown /\ screen.updated = shelf.updated
      /\ review' = [today |-> TRUE, version |-> screen.version, at |-> clock + 1,
                    straddled |-> screen.straddled]
      /\ UNCHANGED <<store, shelf, edit, screen, closing>>
  BY DEF ReviewInventory, SameInventory, Tick, stock, StoreInv, Stamps
<1>2. Stamps'
  BY <1>1 DEF StoreInv, Stamps
<1>3. InOrder'
  BY <1>1 DEF StoreInv, Stamps, InOrder
<1>4. ~screen.straddled => screen.version = shelf.version
  BY <1>1 DEF StoreInv, Stamps, InOrder, ScreenTells
<1>5. ScreenTells' /\ ReviewTells'
  BY <1>1, <1>4 DEF StoreInv, Stamps, ScreenTells, ReviewTells
<1> QED
  BY <1>2, <1>3, <1>5 DEF StoreInv

\* A save is stamped later than the screen and the review.
LEMMA SaveStep == ASSUME NEW e \in Edits, StoreInv, SaveStock(e) PROVE StoreInv'
<1>1. /\ clock' = clock + 1 /\ clock \in Nat
      /\ edit' = [edit EXCEPT ![e] = [state |-> "saved", at |-> clock + 1]]
      /\ UNCHANGED <<store, shelf, screen, review, closing>>
  BY DEF SaveStock, Tick, StoreInv, Stamps
<1>2. Stamps'
  BY <1>1 DEF StoreInv, Stamps
<1>3. InOrder'
  BY <1>1 DEF StoreInv, Stamps, InOrder
<1>4. ScreenTells' /\ ReviewTells'
  BY <1>1 DEF StoreInv, Stamps, ScreenTells, ReviewTells
<1> QED
  BY <1>2, <1>3, <1>4 DEF StoreInv

\* A commit shows in the timestamp, or straddles.
LEMMA CommitStep == ASSUME NEW e \in Edits, StoreInv, CommitStock(e) PROVE StoreInv'
<1> DEFINE t == edit[e].at
<1>1. /\ t \in Nat /\ t <= clock /\ t > 0 /\ t # review.at
      /\ edit' = [edit EXCEPT ![e].state = "done"]
      /\ shelf' = [version |-> shelf.version + 1, updated |-> Max({shelf.updated, t})]
      /\ screen' = [screen EXCEPT !.straddled = @ \/ t < screen.at]
      /\ review' = [review EXCEPT !.straddled = @ \/ t < review.at]
      /\ UNCHANGED <<store, clock, closing>>
  BY DEF CommitStock, StoreInv, Stamps, InOrder
<1>2. /\ shelf.updated \in Nat
      /\ shelf'.updated \in Nat
      /\ shelf'.updated >= t
      /\ shelf'.updated <= clock
      /\ shelf'.version = shelf.version + 1
  <2>1. shelf.updated \in Nat /\ shelf.updated <= clock
    BY DEF StoreInv, Stamps, InOrder
  <2> QED
    BY <1>1, <2>1, Later
<1> HIDE DEF t
<1>3. /\ screen'.shown = screen.shown /\ screen'.version = screen.version
      /\ screen'.updated = screen.updated /\ screen'.at = screen.at
      /\ screen'.straddled = (screen.straddled \/ t < screen.at)
      /\ review'.version = review.version /\ review'.at = review.at
      /\ review'.straddled = (review.straddled \/ t < review.at)
  BY <1>1 DEF StoreInv, Stamps
<1>4. Stamps'
  <2>1. shelf' \in [version : Nat, updated : Nat]
    BY <1>1, <1>2 DEF StoreInv, Stamps
  <2>2. /\ screen' \in [shown : BOOLEAN, version : Nat, updated : Nat, at : Nat, straddled : BOOLEAN]
        /\ review' \in [today : BOOLEAN, version : Nat, at : Nat, straddled : BOOLEAN]
    BY <1>1 DEF StoreInv, Stamps
  <2> QED
    BY <1>1, <2>1, <2>2 DEF StoreInv, Stamps
<1>5. InOrder'
  BY <1>1, <1>2, <1>3 DEF StoreInv, Stamps, InOrder
<1>6. ScreenTells'
  <2>1. ASSUME screen'.shown, ~screen'.straddled PROVE shelf'.updated >= screen'.at
    <3>1. ~(t < screen.at) /\ screen.at \in Nat
      BY <1>3, <2>1 DEF StoreInv, Stamps
    <3> QED
      BY <1>1, <1>2, <1>3, <3>1
  <2> QED
    BY <2>1 DEF ScreenTells
<1>7. ReviewTells'
  <2>1. ASSUME ~review'.straddled PROVE shelf'.updated > review'.at
    <3>1. ~(t < review.at) /\ review.at \in Nat
      BY <1>3, <2>1 DEF StoreInv, Stamps
    <3> QED
      BY <1>1, <1>2, <1>3, <3>1
  <2> QED
    BY <2>1 DEF ReviewTells
<1> QED
  BY <1>4, <1>5, <1>6, <1>7 DEF StoreInv

\* Every step keeps the order of the timestamps and what they tell.
LEMMA StoreInvStep == StoreInv /\ [StoreNext]_storeVars => StoreInv'
<1> SUFFICES ASSUME StoreInv, [StoreNext]_storeVars PROVE StoreInv'
  OBVIOUS
<1> USE StoreAssumption
<1>1. ASSUME NEW s \in Statuses, UpdateVendorStatus(s) PROVE StoreInv'
  BY <1>1, Aside DEF UpdateVendorStatus, stock, StoreInv, Stamps, StoreRows
<1>2. ASSUME NEW o \in BOOLEAN, NEW i \in BOOLEAN, NEW c \in BOOLEAN, NEW n \in BOOLEAN,
             UpdateAdminVendorProfile(o, i, c, n)
      PROVE  StoreInv'
  <2>0. store' = [store EXCEPT !.open = o, !.intake = i, !.complete = c, !.needsReview = n]
    BY <1>2 DEF UpdateAdminVendorProfile
  <2>1. store' \in StoreRows
    <3>1. store \in StoreRows
      BY DEF StoreInv, Stamps
    <3> QED
      BY <2>0, <3>1 DEF StoreRows
  <2> QED
    BY <1>2, <2>1, Aside DEF UpdateAdminVendorProfile, stock, StoreInv, Stamps
<1>3. ASSUME NEW d \in Documents,
             \/ \E v \in {"verified", "rejected"} : VerifyVendorDocument(d, v)
             \/ \E x \in BOOLEAN : UploadDocument(d, x)
      PROVE  StoreInv'
  BY <1>3, Aside DEF VerifyVendorDocument, UploadDocument, stock, StoreInv, Stamps
<1>4. ASSUME ChangeTemporaryPassword PROVE StoreInv'
  BY <1>4, Aside DEF ChangeTemporaryPassword, stock, StoreInv, Stamps, StoreRows
<1>5. ASSUME NEW p \in BOOLEAN, UpdateOwnerVendorProfile(p) PROVE StoreInv'
  BY <1>5, Aside DEF UpdateOwnerVendorProfile, stock, StoreInv, Stamps, StoreRows
<1>6. ASSUME NEW o \in BOOLEAN, NEW i \in BOOLEAN, NEW p \in BOOLEAN,
             UpdateVendorOperatingState(o, i, p)
      PROVE  StoreInv'
  BY <1>6, Aside DEF UpdateVendorOperatingState, stock, StoreInv, Stamps, StoreRows
<1>7. ASSUME ClosingTimePasses \/ NextDay PROVE StoreInv'
  <2>1. CASE ClosingTimePasses
    BY <2>1, Aside DEF ClosingTimePasses, stock, StoreInv, Stamps, StoreRows
  <2>2. CASE NextDay
    <3>1. /\ store' = [store EXCEPT !.past = FALSE]
          /\ review' = [review EXCEPT !.today = FALSE]
          /\ UNCHANGED <<shelf, edit, clock, screen, closing>>
      BY <2>2 DEF NextDay, stock
    <3>2. store' \in StoreRows
      BY <3>1 DEF StoreInv, Stamps, StoreRows
    <3>3. /\ review' \in [today : BOOLEAN, version : Nat, at : Nat, straddled : BOOLEAN]
          /\ review'.version = review.version
          /\ review'.at = review.at
          /\ review'.straddled = review.straddled
      BY <3>1 DEF StoreInv, Stamps
    <3> QED
      BY <3>1, <3>2, <3>3, Aside DEF StoreInv, Stamps
  <2> QED
    BY <1>7, <2>1, <2>2
<1>8. ASSUME ClosingJobReads PROVE StoreInv'
  BY <1>8, Aside DEF ClosingJobReads, stock, StoreInv, Stamps, StoreRows
<1>9. ASSUME ClosingJobCloses PROVE StoreInv'
  BY <1>9, Aside DEF ClosingJobCloses, stock, StoreInv, Stamps, StoreRows
<1>10. CASE UNCHANGED storeVars
  BY <1>10, Aside DEF storeVars, StoreInv, Stamps
<1>11. CASE StoreNext
  BY <1>1, <1>2, <1>3, <1>4, <1>5, <1>6, <1>7, <1>8, <1>9, <1>11,
     ShowStep, ReviewStep, SaveStep, CommitStep DEF StoreNext
<1> QED
  BY <1>10, <1>11

\* Every reachable state has the timestamps in order.
LEMMA StoreInvariance == StoreSpec => []StoreInv
BY StoreInitInv, StoreInvStep, PTL DEF StoreSpec
-----------------------------------------------------------------------------
\* However many transactions change the stock between the screen, the review and the
\* switch, a vendor whose stock is to be reviewed opens with a review of the stock there
\* is, but for changes saved before and committed after.
THEOREM OpensWithReview == StoreSpec => OpensReviewed
<1>1. ASSUME StoreInv, StoreNext, store.needsReview, audit' = "owner",
             \/ ~store.open /\ store'.open
             \/ ~store.intake /\ store'.intake
      PROVE  review.today /\ (review.version = shelf.version \/ review.straddled)
  <2>1. PICK o \in BOOLEAN, i \in BOOLEAN, p \in BOOLEAN : UpdateVendorOperatingState(o, i, p)
    <3>1. ASSUME UNCHANGED <<store.open, store.intake>> PROVE FALSE
      BY <1>1, <3>1
    <3>2. ASSUME NEW s \in Statuses, UpdateVendorStatus(s) PROVE FALSE
      BY <1>1, <3>1, <3>2 DEF UpdateVendorStatus, StoreInv, Stamps, StoreRows
    <3>3. ASSUME NEW a \in BOOLEAN, NEW b \in BOOLEAN, NEW c \in BOOLEAN, NEW n \in BOOLEAN,
                 UpdateAdminVendorProfile(a, b, c, n)
          PROVE  FALSE
      <4>1. store'.open = a /\ store'.intake = b
        BY <3>3 DEF UpdateAdminVendorProfile, StoreInv, Stamps, StoreRows
      <4>2. <<a, b>> = <<store.open, store.intake>>
        BY <1>1, <3>3 DEF UpdateAdminVendorProfile
      <4> QED
        BY <1>1, <4>1, <4>2
    <3>4. ASSUME NEW d \in Documents,
                 \/ \E v \in {"verified", "rejected"} : VerifyVendorDocument(d, v)
                 \/ \E x \in BOOLEAN : UploadDocument(d, x)
          PROVE  FALSE
      BY <1>1, <3>1, <3>4 DEF VerifyVendorDocument, UploadDocument
    <3>5. ASSUME NEW x \in BOOLEAN, ChangeTemporaryPassword \/ UpdateOwnerVendorProfile(x)
          PROVE  FALSE
      BY <1>1, <3>1, <3>5 DEF ChangeTemporaryPassword, UpdateOwnerVendorProfile, StoreInv, Stamps,
                              StoreRows
    <3>6. ASSUME ShowInventory \/ ReviewInventory \/ \E e \in Edits : SaveStock(e) \/ CommitStock(e)
          PROVE  FALSE
      BY <1>1, <3>1, <3>6 DEF ShowInventory, ReviewInventory, SaveStock, CommitStock
    <3>7. ASSUME ClosingTimePasses \/ NextDay \/ ClosingJobReads PROVE FALSE
      BY <1>1, <3>1, <3>7 DEF ClosingTimePasses, NextDay, ClosingJobReads, StoreInv, Stamps, StoreRows
    <3>8. ASSUME ClosingJobCloses PROVE FALSE
      BY <1>1, <3>1, <3>8 DEF ClosingJobCloses, StoreInv, Stamps, StoreRows
    <3> QED
      BY <1>1, <3>2, <3>3, <3>4, <3>5, <3>6, <3>7, <3>8 DEF StoreNext
  <2>2. store'.open = o /\ store'.intake = i
    BY <2>1, <1>1 DEF UpdateVendorOperatingState, StoreInv, Stamps, StoreRows
  <2>3. Ready
    BY <1>1, <2>1, <2>2 DEF UpdateVendorOperatingState
  <2>4. review.today /\ shelf.updated <= review.at
    BY <1>1, <2>3 DEF Ready, ReviewCurrent
  <2> QED
    BY <1>1, <2>4 DEF StoreInv, Stamps, ReviewTells
<1>2. StoreInv /\ [StoreNext]_storeVars =>
        [(store.needsReview /\ audit' = "owner" /\ \/ ~store.open /\ store'.open
                                                   \/ ~store.intake /\ store'.intake)
            => review.today /\ (review.version = shelf.version \/ review.straddled)]_storeVars
  BY <1>1
<1> QED
  BY <1>2, StoreInvariance, PTL DEF StoreSpec, OpensReviewed
-----------------------------------------------------------------------------
(* What is shown, confirmed and counted of the stock is from a moment that *)
(* has been, and of a version that was committed.                          *)

Committed == {e \in Edits : edit[e].state = "done"}

StoreBounds ==
    /\ clock <= MaxTime
    /\ shelf.version = Cardinality(Committed)
    /\ screen.version <= shelf.version /\ screen.updated <= shelf.updated
    /\ review.version <= shelf.version
    /\ \A e \in Edits : edit[e].at <= clock
    /\ document \in [Documents -> DocumentRows]
    /\ audit \in {"nobody", "owner", "platform", "job"}

LEMMA StoreBoundsInit == StoreInit => StoreBounds
<1> SUFFICES ASSUME StoreInit PROVE StoreBounds
  OBVIOUS
<1>1. Committed = {}
  BY DEF StoreInit, Committed
<1>2. shelf.version = Cardinality(Committed)
  BY <1>1, FS_EmptySet DEF StoreInit
<1>3. document \in [Documents -> DocumentRows]
  BY DEF StoreInit, DocumentRows
<1>4. /\ clock = 0 /\ screen.version = 0 /\ screen.updated = 0 /\ review.version = 0
      /\ shelf.version = 0 /\ shelf.updated = 0 /\ \A e \in Edits : edit[e].at = 0
      /\ audit = "nobody"
  BY DEF StoreInit, NoScreen, NoReview
<1> QED
  BY <1>2, <1>3, <1>4, StoreAssumption DEF StoreBounds

\* Nothing of the stock changes, and nothing of what was seen of it.
LEMMA StoreBoundsAside ==
    ASSUME StoreInv, StoreBounds, UNCHANGED <<shelf, edit, clock, screen>>,
           review'.version = review.version,
           document' \in [Documents -> DocumentRows],
           audit' \in {"nobody", "owner", "platform", "job"}
    PROVE  StoreBounds'
<1>1. Committed' = Committed
  BY DEF Committed
<1> QED
  BY <1>1 DEF StoreBounds

LEMMA StoreBoundsStock ==
    ASSUME IsFiniteSet(Edits), StoreInv, StoreBounds, StoreInv',
           \/ ShowInventory
           \/ ReviewInventory
           \/ \E e \in Edits : SaveStock(e) \/ CommitStock(e)
    PROVE  StoreBounds'
<1> USE DEF StoreInv
<1>1. /\ clock \in Nat /\ clock' \in Nat /\ MaxTime \in Nat
      /\ shelf \in [version : Nat, updated : Nat]
      /\ edit \in [Edits -> [state : {"none", "saved", "done"}, at : Nat]]
      /\ screen \in [shown : BOOLEAN, version : Nat, updated : Nat, at : Nat, straddled : BOOLEAN]
      /\ review \in [today : BOOLEAN, version : Nat, at : Nat, straddled : BOOLEAN]
  BY StoreAssumption DEF Stamps
<1>2. UNCHANGED <<document, audit>>
  BY DEF ShowInventory, ReviewInventory, SaveStock, CommitStock
<1>3. CASE ShowInventory
  <2>1. /\ clock' = clock + 1 /\ clock < MaxTime /\ screen'.version = shelf.version
        /\ screen'.updated = shelf.updated /\ UNCHANGED <<shelf, edit, review>>
    BY <1>3 DEF ShowInventory, Tick, stock
  <2>2. Committed' = Committed
    BY <2>1 DEF Committed
  <2> QED
    BY <1>1, <1>2, <2>1, <2>2 DEF StoreBounds
<1>4. CASE ReviewInventory
  <2>1. /\ clock' = clock + 1 /\ clock < MaxTime /\ review'.version = screen.version
        /\ UNCHANGED <<shelf, edit, screen>>
    BY <1>4 DEF ReviewInventory, Tick, stock
  <2>2. Committed' = Committed
    BY <2>1 DEF Committed
  <2> QED
    BY <1>1, <1>2, <2>1, <2>2 DEF StoreBounds
<1>5. ASSUME NEW e \in Edits, SaveStock(e) PROVE StoreBounds'
  <2>1. /\ clock' = clock + 1 /\ clock < MaxTime /\ edit[e].state = "none"
        /\ edit' = [edit EXCEPT ![e] = [state |-> "saved", at |-> clock + 1]]
        /\ UNCHANGED <<shelf, screen, review>>
    BY <1>5 DEF SaveStock, Tick
  <2>2. Committed' = Committed
    BY <1>1, <2>1 DEF Committed
  <2>3. \A o \in Edits : edit'[o].at <= clock'
    BY <1>1, <2>1 DEF StoreBounds
  <2> QED
    BY <1>1, <1>2, <2>1, <2>2, <2>3 DEF StoreBounds
<1>6. ASSUME NEW e \in Edits, CommitStock(e) PROVE StoreBounds'
  <2> DEFINE t == edit[e].at
  <2>1. /\ edit[e].state = "saved" /\ edit' = [edit EXCEPT ![e].state = "done"]
        /\ shelf' = [version |-> shelf.version + 1, updated |-> Max({shelf.updated, t})]
        /\ screen'.version = screen.version /\ screen'.updated = screen.updated
        /\ review'.version = review.version /\ clock' = clock
    BY <1>1, <1>6 DEF CommitStock
  <2>2. Committed' = Committed \cup {e} /\ e \notin Committed
    BY <1>1, <2>1 DEF Committed
  <2>3. IsFiniteSet(Committed)
    BY FS_Subset DEF Committed
  <2>4. Cardinality(Committed') = Cardinality(Committed) + 1
    BY <2>2, <2>3, FS_AddElement
  <2>5. \A o \in Edits : edit'[o].at = edit[o].at
    BY <1>1, <2>1
  <2>6. shelf'.version = shelf.version + 1 /\ shelf'.updated >= shelf.updated
    BY <1>1, <2>1, Later
  <2>7. shelf'.updated \in Nat
    BY DEF Stamps
  <2> HIDE DEF t
  <2> QED
    BY <1>1, <1>2, <2>1, <2>4, <2>5, <2>6, <2>7 DEF StoreBounds
<1> QED
  BY <1>3, <1>4, <1>5, <1>6

LEMMA StoreBoundsStep ==
    ASSUME IsFiniteSet(Edits)
    PROVE  StoreInv /\ StoreBounds /\ StoreInv' /\ [StoreNext]_storeVars => StoreBounds'
<1> SUFFICES ASSUME StoreInv, StoreBounds, StoreInv', [StoreNext]_storeVars PROVE StoreBounds'
  OBVIOUS
<1>0. document \in [Documents -> DocumentRows] /\ audit \in {"nobody", "owner", "platform", "job"}
  BY DEF StoreBounds
<1>1. ASSUME NEW s \in Statuses, UpdateVendorStatus(s) PROVE StoreBounds'
  BY <1>0, <1>1, StoreBoundsAside DEF UpdateVendorStatus, stock
<1>2. ASSUME NEW o \in BOOLEAN, NEW i \in BOOLEAN, NEW c \in BOOLEAN, NEW n \in BOOLEAN,
             UpdateAdminVendorProfile(o, i, c, n)
      PROVE  StoreBounds'
  BY <1>0, <1>2, StoreBoundsAside DEF UpdateAdminVendorProfile, stock
<1>3. ASSUME NEW d \in Documents,
             \/ \E v \in {"verified", "rejected"} : VerifyVendorDocument(d, v)
             \/ \E x \in BOOLEAN : UploadDocument(d, x)
      PROVE  StoreBounds'
  <2>1. document' \in [Documents -> DocumentRows]
    BY <1>0, <1>3 DEF VerifyVendorDocument, UploadDocument, DocumentRows
  <2> QED
    BY <1>0, <1>3, <2>1, StoreBoundsAside DEF VerifyVendorDocument, UploadDocument, stock
<1>4. ASSUME NEW p \in BOOLEAN,
             \/ ChangeTemporaryPassword
             \/ UpdateOwnerVendorProfile(p)
             \/ \E o, i \in BOOLEAN : UpdateVendorOperatingState(o, i, p)
      PROVE  StoreBounds'
  BY <1>0, <1>4, StoreBoundsAside DEF ChangeTemporaryPassword, UpdateOwnerVendorProfile,
     UpdateVendorOperatingState, stock
<1>5. ASSUME ClosingTimePasses \/ NextDay \/ ClosingJobReads \/ ClosingJobCloses PROVE StoreBounds'
  <2>1. review'.version = review.version /\ UNCHANGED <<shelf, edit, clock, screen, document>>
    BY <1>5 DEF ClosingTimePasses, NextDay, ClosingJobReads, ClosingJobCloses, stock, StoreInv, Stamps
  <2>2. audit' \in {"nobody", "owner", "platform", "job"}
    BY <1>0, <1>5 DEF ClosingTimePasses, NextDay, ClosingJobReads, ClosingJobCloses
  <2> QED
    BY <1>0, <2>1, <2>2, StoreBoundsAside
<1>6. CASE UNCHANGED storeVars
  BY <1>0, <1>6, StoreBoundsAside DEF storeVars, stock
<1> QED
  BY <1>1, <1>2, <1>3, <1>4, <1>5, <1>6, StoreBoundsStock DEF StoreNext

LEMMA StoreBounded ==
    ASSUME IsFiniteSet(Edits), StoreInv, StoreBounds
    PROVE  StoreTypeOK
<1>1. IsFiniteSet(Committed) /\ Cardinality(Committed) <= Cardinality(Edits)
  BY FS_Subset DEF Committed
<1>2. Cardinality(Edits) \in Nat /\ MaxTime \in Nat
  BY FS_CardinalityType, StoreAssumption
<1>3. /\ clock \in Nat /\ clock <= MaxTime
      /\ shelf \in [version : Nat, updated : Nat]
      /\ edit \in [Edits -> [state : {"none", "saved", "done"}, at : Nat]]
      /\ screen \in [shown : BOOLEAN, version : Nat, updated : Nat, at : Nat, straddled : BOOLEAN]
      /\ review \in [today : BOOLEAN, version : Nat, at : Nat, straddled : BOOLEAN]
      /\ shelf.updated <= clock /\ screen.at <= clock /\ review.at <= clock
      /\ \A e \in Edits : edit[e].at <= clock
  BY DEF StoreInv, Stamps, InOrder, StoreBounds
<1>4. /\ shelf.version <= Cardinality(Edits)
      /\ screen.version <= Cardinality(Edits) /\ screen.updated <= MaxTime
      /\ review.version <= Cardinality(Edits)
  <2>1. shelf.version <= Cardinality(Edits)
    BY <1>1 DEF StoreBounds
  <2> QED
    BY <1>2, <1>3, <2>1 DEF StoreBounds
<1>5. /\ shelf.version \in Versions /\ screen.version \in Versions /\ review.version \in Versions
      /\ clock \in Times /\ shelf.updated \in Times /\ screen.at \in Times
      /\ screen.updated \in Times /\ review.at \in Times
      /\ \A e \in Edits : edit[e].at \in Times
  BY <1>2, <1>3, <1>4 DEF Versions, Times
<1>6. edit \in [Edits -> [state : {"none", "saved", "done"}, at : Times]]
  BY <1>3, <1>5
<1>7. /\ shelf \in [version : Versions, updated : Times]
      /\ screen \in [shown : BOOLEAN, version : Versions, updated : Times, at : Times,
                     straddled : BOOLEAN]
      /\ review \in [today : BOOLEAN, version : Versions, at : Times, straddled : BOOLEAN]
  BY <1>3, <1>5
<1> QED
  BY <1>5, <1>6, <1>7 DEF StoreTypeOK, StoreInv, Stamps, StoreBounds

\* The app and the review know a version that the stock has had, and a time that has been:
\* every committed change counts once, for any finite number of transactions and any
\* documents, statuses and moments (GetVendorWorkspaceAction, ReviewVendorInventoryAction).
THEOREM StoreTypes ==
    ASSUME IsFiniteSet(Edits)
    PROVE  StoreSpec => []StoreTypeOK
<1>1. StoreBounds /\ StoreInv /\ StoreInv' /\ [StoreNext]_storeVars => StoreBounds'
  BY StoreBoundsStep
<1>2. StoreInv /\ StoreBounds => StoreTypeOK
  BY StoreBounded
<1> QED
  BY <1>1, <1>2, StoreBoundsInit, StoreInvariance, PTL DEF StoreSpec
-----------------------------------------------------------------------------
(* Codes by e-mail.                                                        *)

\* A request about a code is about a number and an address, one that will save a row of
\* `customers` has one, and one that is about to compare a guess has read a code with a
\* try left.
Asking == {"sending", "matching", "matched", "numbered", "creating"}

SoundRow(row) ==
    /\ row.at \in Asking => row.phone \in Phones /\ row.email \in Emails
    /\ row.at = "matching" => row.code \in Sent /\ row.tries < Tries
    /\ IF row.at \in Editing THEN row.customer \in DOMAIN customers ELSE row.customer = 0

RequestsSound == \A r \in Requests : SoundRow(request[r])

Compares(r, c) == request[r].at = "matching" /\ request[r].code = c

\* Unless two requests compared guesses with it at the same time, a code counts its
\* guesses, and a request about to compare one has read that count and is alone.
GuessesCounted ==
    \A c \in Sent \ overlapped :
        /\ guesses[c] <= codes[c].tries
        /\ \A r \in Requests : Compares(r, c) => request[r].tries = codes[c].tries
        /\ \A r, o \in Requests : Compares(r, c) /\ Compares(o, c) => r = o

\* Holds of a request with that row.
HeldBy(row) == CASE row.at = "numbered" -> {row.phone}
                 [] row.at \in {"creating"} \cup Editing -> Entries(row)
                 [] OTHER -> {}

Excepted == rivals \cup given

\* What the accounts other than the one r is about have.
Elsewhere(r) == Besides(request[r].customer)

\* What a request is about to write for an account no other account has, and no other
\* request is about to write for another one, but for what is excepted.
FoundFree ==
    \A r \in Requests :
        /\ Holds(r) \cap Elsewhere(r) \subseteq Excepted
        /\ \A o \in Requests \ {r} :
               request[r].customer = 0 \/ request[o].customer # request[r].customer
                   => Holds(r) \cap Holds(o) \subseteq Excepted

CodesInv == /\ CodesTypeOK /\ RequestsSound
            /\ GuessesCounted /\ FoundFree /\ OneCustomerPerEntry
-----------------------------------------------------------------------------
\* A table's rows are numbered from 1.
LEMMA Table ==
    ASSUME NEW n \in Nat, NEW S, NEW table \in [1..n -> S]
    PROVE  /\ DOMAIN table = 1..n /\ IsFiniteSet(1..n) /\ Cardinality(1..n) = n
           /\ \A i \in 1..n : table[i] \in S
BY FS_Interval

\* A row more.
LEMMA Added ==
    ASSUME NEW n \in Nat, NEW table, DOMAIN table = 1..n, NEW new
    PROVE  Add(table, new) = [i \in 1..n + 1 |-> IF i \in 1..n THEN table[i] ELSE new]
<1>1. Cardinality(1..n) = n
  BY FS_Interval
<1> QED
  BY <1>1 DEF Add

\* The tables of codes and guesses.
LEMMA CodeColumns ==
    ASSUME CodesTypeOK
    PROVE  /\ Sent \subseteq 1..MaxCodes /\ IsFiniteSet(Sent) /\ DOMAIN guesses = Sent
           /\ codes \in [Sent -> CodeRows] /\ guesses \in [Sent -> 0..Tries + 1]
           /\ \A c \in Sent : codes[c].tries \in 0..Tries
           /\ \A r \in Requests : request[r] \in RequestRows
<1>1. PICK n \in 0..MaxCodes : codes \in [1..n -> CodeRows] /\ guesses \in [1..n -> 0..Tries + 1]
  BY DEF CodesTypeOK
<1>2. n \in Nat /\ 1..n \subseteq 1..MaxCodes
  BY CodesAssumption
<1>3. Sent = 1..n /\ DOMAIN guesses = Sent /\ IsFiniteSet(Sent)
  BY <1>1, <1>2, Table DEF Sent
<1>4. \A c \in Sent : codes[c].tries \in 0..Tries
  BY <1>1, <1>3 DEF CodeRows
<1> QED
  BY <1>1, <1>2, <1>3, <1>4 DEF CodesTypeOK

\* The highest of finitely many numbers.
LEMMA Highest ==
    ASSUME NEW n \in Nat, NEW S \in SUBSET (1..n), S # {}
    PROVE  Max(S) \in S
<1> DEFINE T == {m \in Nat : \A x \in S : x <= m}
<1>1. n \in T /\ T \subseteq Nat /\ S \subseteq Nat
  OBVIOUS
<1>2. PICK m \in T : \A k \in T : m <= k
  BY <1>1, LeastElement
<1>3. m \in S
  <2>1. SUFFICES ASSUME m \notin S PROVE FALSE
    OBVIOUS
  <2>2. \A x \in S : x <= m - 1
    BY <1>1, <1>2, <2>1
  <2>3. m - 1 \in Nat
    <3>1. PICK x \in S : TRUE
      OBVIOUS
    <3>2. x \in 1..n /\ x <= m - 1 /\ m \in Nat
      BY <2>2, <3>1
    <3> QED
      BY <3>2
  <2> QED
    BY <1>2, <2>2, <2>3
<1>4. \E x \in S : \A y \in S : x >= y
  BY <1>1, <1>2, <1>3
<1> QED
  BY <1>4 DEF Max

\* A guess more, up to one too many.
LEMMA OneMore ==
    ASSUME NEW g \in 0..Tries + 1
    PROVE  Min({g + 1, Tries + 1}) \in 0..Tries + 1 /\ Min({g + 1, Tries + 1}) <= g + 1
<1>1. \E x \in {g + 1, Tries + 1} : \A y \in {g + 1, Tries + 1} : x =< y
  <2>1. CASE g + 1 <= Tries + 1
    BY <2>1, CodesAssumption
  <2>2. CASE Tries + 1 <= g + 1
    BY <2>2, CodesAssumption
  <2> QED
    BY <2>1, <2>2, CodesAssumption
<1>2. /\ Min({g + 1, Tries + 1}) \in {g + 1, Tries + 1}
      /\ \A y \in {g + 1, Tries + 1} : Min({g + 1, Tries + 1}) <= y
  BY <1>1 DEF Min
<1> QED
  BY <1>2, CodesAssumption

LEMMA CodesInitInv == CodesInit => CodesInv
<1> SUFFICES ASSUME CodesInit PROVE CodesInv
  OBVIOUS
<1>1. /\ codes = [i \in 1..0 |-> 0] /\ guesses = [i \in 1..0 |-> 0]
      /\ customers = [i \in 1..0 |-> 0]
  BY DEF CodesInit
<1>2. 0 \in 0..MaxCodes /\ 0 \in 0..MaxCustomers /\ 0 \in 0..Tries
  BY CodesAssumption
<1>3. Idle \in RequestRows
  BY <1>2 DEF Idle, RequestRows, Purposes
<1>4. CodesTypeOK
  <2>1. codes \in [1..0 -> CodeRows] /\ guesses \in [1..0 -> 0..Tries + 1]
    BY <1>1
  <2>2. customers \in [1..0 -> Customers]
    BY <1>1
  <2> QED
    BY <1>2, <1>3, <2>1, <2>2 DEF CodesTypeOK, CodesInit
<1>5. RequestsSound /\ FoundFree
  BY DEF RequestsSound, SoundRow, FoundFree, CodesInit, Idle, Asking, Editing, Holds
<1>6. GuessesCounted /\ OneCustomerPerEntry
  BY <1>1 DEF GuessesCounted, OneCustomerPerEntry, Sent
<1> QED
  BY <1>4, <1>5, <1>6 DEF CodesInv
-----------------------------------------------------------------------------
\* What requests have found, when the row of one of them changes.
LEMMA FoundStep ==
    ASSUME NEW r \in Requests, NEW new, FoundFree, UNCHANGED customers,
           \A o \in Requests \ {r} : request'[o] = request[o], request'[r] = new,
           Excepted \subseteq Excepted',
           HeldBy(new) \cap Besides(new.customer) \subseteq Excepted',
           \A o \in Requests \ {r} : new.customer = 0 \/ request[o].customer # new.customer
               => HeldBy(new) \cap Holds(o) \subseteq Excepted'
    PROVE  FoundFree'
<1>1. Holds(r)' = HeldBy(new) /\ \A o \in Requests \ {r} : Holds(o)' = Holds(o)
  BY DEF Holds, HeldBy
<1>2. \A p : Elsewhere(p)' = Besides(request'[p].customer)
  BY DEF Elsewhere, Besides
<1>3. ASSUME NEW p \in Requests
      PROVE  Holds(p)' \cap Besides(request'[p].customer) \subseteq Excepted'
  <2>1. CASE p = r
    BY <1>1, <2>1
  <2>2. CASE p # r
    <3>1. Holds(p)' = Holds(p) /\ request'[p] = request[p]
      BY <1>1, <2>2
    <3>2. Holds(p) \cap Besides(request[p].customer) \subseteq Excepted
      BY DEF FoundFree, Elsewhere
    <3> QED
      BY <3>1, <3>2
  <2> QED
    BY <2>1, <2>2
<1>4. ASSUME NEW p \in Requests, NEW o \in Requests \ {p},
             request'[p].customer = 0 \/ request'[o].customer # request'[p].customer
      PROVE  Holds(p)' \cap Holds(o)' \subseteq Excepted'
  <2>1. CASE p = r
    BY <1>1, <1>4, <2>1
  <2>2. CASE p # r /\ o = r
    <3>1. new.customer = 0 \/ request[p].customer # new.customer
      BY <1>4, <2>2
    <3> QED
      BY <1>1, <2>2, <3>1
  <2>3. CASE p # r /\ o # r
    <3>1. Holds(p) \cap Holds(o) \subseteq Excepted
      BY <1>4, <2>3 DEF FoundFree
    <3> QED
      BY <1>1, <2>3, <3>1
  <2> QED
    BY <2>1, <2>2, <2>3
<1>5. \A p \in Requests : /\ Holds(p)' \cap Elsewhere(p)' \subseteq Excepted'
                          /\ \A o \in Requests \ {p} :
                                request'[p].customer = 0 \/ request'[o].customer # request'[p].customer
                                    => Holds(p)' \cap Holds(o)' \subseteq Excepted'
  BY <1>2, <1>3, <1>4
<1> QED
  BY <1>5 DEF FoundFree

\* One request goes on, or ends, and writes nothing.
LEMMA RequestMoves ==
    ASSUME CodesInv, NEW r \in Requests, NEW new \in RequestRows, SoundRow(new),
           UNCHANGED <<codes, customers, guesses>>, request' = [request EXCEPT ![r] = new],
           overlapped \subseteq overlapped', overlapped' \subseteq 1..MaxCodes,
           rivals \subseteq rivals', rivals' \subseteq Phones \cup Emails,
           given \subseteq given', given' \subseteq Phones \cup Emails,
           new.at = "matching" =>
               /\ new.tries = codes[new.code].tries
               /\ new.code \in overlapped' \/ \A o \in Requests \ {r} : ~Compares(o, new.code),
           HeldBy(new) \cap Besides(new.customer) \subseteq Excepted',
           \A o \in Requests \ {r} : new.customer = 0 \/ request[o].customer # new.customer
               => HeldBy(new) \cap Holds(o) \subseteq Excepted'
    PROVE  CodesInv'
<1> USE DEF CodesInv
<1>1. /\ request'[r] = new
      /\ \A o \in Requests \ {r} : request'[o] = request[o]
  BY DEF CodesTypeOK
<1>2. CodesTypeOK'
  <2>1. request' \in [Requests -> RequestRows]
    BY DEF CodesTypeOK
  <2> QED
    BY <2>1 DEF CodesTypeOK
<1>3. Sent' = Sent
  BY DEF Sent
<1>4. RequestsSound'
  <2>1. \A o \in Requests : SoundRow(request'[o])
    BY <1>1 DEF RequestsSound
  <2> QED
    BY <1>3, <2>1 DEF RequestsSound, SoundRow
<1>5. GuessesCounted'
  <2> SUFFICES ASSUME NEW c \in Sent \ overlapped', c \in Sent \ overlapped
               PROVE  /\ guesses[c] <= codes[c].tries
                      /\ \A o \in Requests : Compares(o, c)' => request'[o].tries = codes[c].tries
                      /\ \A o, q \in Requests : Compares(o, c)' /\ Compares(q, c)' => o = q
    BY <1>3 DEF GuessesCounted
  <2>1. \A o \in Requests \ {r} : Compares(o, c)' <=> Compares(o, c)
    BY <1>1 DEF Compares
  <2>2. Compares(r, c)' => /\ new.tries = codes[c].tries
                           /\ \A o \in Requests \ {r} : ~Compares(o, c)
    BY <1>1 DEF Compares
  <2> QED
    BY <1>1, <2>1, <2>2 DEF GuessesCounted
<1>6. Excepted \subseteq Excepted'
  BY DEF Excepted
<1>7. FoundFree'
  BY <1>1, <1>6, FoundStep
<1>8. OneCustomerPerEntry'
  BY <1>6 DEF OneCustomerPerEntry, Excepted
<1> QED
  BY <1>2, <1>4, <1>5, <1>7, <1>8

\* A request's row with another stage.
LEMMA Staged ==
    ASSUME CodesInv, NEW r \in Requests,
           NEW s \in {"idle", "sending", "matching", "matched", "numbered", "creating"}
    PROVE  /\ [request[r] EXCEPT !.at = s] \in RequestRows
           /\ [request[r] EXCEPT !.at = s].at = s
           /\ [request[r] EXCEPT !.at = s].phone = request[r].phone
           /\ [request[r] EXCEPT !.at = s].email = request[r].email
           /\ [request[r] EXCEPT !.at = s].code = request[r].code
           /\ [request[r] EXCEPT !.at = s].customer = request[r].customer
BY DEF CodesInv, CodesTypeOK, RequestRows

\* A request that ends.
LEMMA IdleRow == Idle \in RequestRows /\ Idle.at = "idle" /\ SoundRow(Idle) /\ HeldBy(Idle) = {}
BY CodesAssumption
   DEF Idle, RequestRows, Purposes, SoundRow, Asking, Editing, HeldBy

\* A request that ends holds nothing.
LEMMA RequestEnds ==
    ASSUME NEW r \in Requests, CodesInv, UNCHANGED <<customers, rivals, given>>,
           request'[r] = Idle, \A o \in Requests \ {r} : request'[o] = request[o]
    PROVE  FoundFree'
<1>1. Excepted' = Excepted
  BY DEF Excepted
<1>2. HeldBy(Idle) = {}
  BY IdleRow
<1> QED
  BY <1>1, <1>2, FoundStep DEF CodesInv

\* What is known of what is looked up.
LEMMA RowFacts ==
    ASSUME CodesInv, NEW r \in Requests
    PROVE  /\ overlapped \subseteq 1..MaxCodes
           /\ rivals \subseteq Phones \cup Emails /\ given \subseteq Phones \cup Emails
           /\ request[r] \in RequestRows /\ SoundRow(request[r])
           /\ HeldBy(request[r]) = Holds(r)
           /\ Holds(r) \cap Besides(request[r].customer) \subseteq Excepted
           /\ \A o \in Requests \ {r} :
                 request[r].customer = 0 \/ request[o].customer # request[r].customer
                     => Holds(r) \cap Holds(o) \subseteq Excepted
BY DEF CodesInv, CodesTypeOK, RequestsSound, FoundFree, Elsewhere, Holds, HeldBy

\* The rows of `customers`, and what they have.
LEMMA CustomerRows ==
    ASSUME CodesTypeOK
    PROVE  \E n \in Nat : /\ DOMAIN customers = 1..n /\ n <= MaxCustomers
                          /\ customers \in [1..n -> Customers]
                          /\ \A c \in 1..n : Entries(customers[c]) \subseteq Phones \cup Emails
                          /\ \A a, b \in 1..n : a # b => Entries(customers[a]) \subseteq Besides(b)
                          /\ \A a \in 1..n : Entries(customers[a]) \subseteq Besides(0)
<1>1. PICK n \in 0..MaxCustomers : customers \in [1..n -> Customers]
  BY DEF CodesTypeOK
<1>2. n \in Nat /\ n <= MaxCustomers /\ DOMAIN customers = 1..n
  BY <1>1, CodesAssumption
<1>3. \A c \in 1..n : Entries(customers[c]) \subseteq Phones \cup Emails
  BY <1>1 DEF Customers, Entries
<1>4. \A a, b \in 1..n : a # b => Entries(customers[a]) \subseteq Besides(b)
  BY <1>2 DEF Besides
<1>5. \A a \in 1..n : a # 0 /\ Entries(customers[a]) \subseteq Besides(0)
  BY <1>2 DEF Besides
<1> QED
  BY <1>1, <1>2, <1>3, <1>4, <1>5

\* What is met by a request is held by another.
LEMMA MetRivals ==
    ASSUME NEW r \in Requests, NEW c, NEW entries, NEW e \in entries,
           NEW o \in Requests \ {r}, request[o].customer = 0 \/ request[o].customer # c,
           e \in Holds(o)
    PROVE  e \in Met(r, c, entries)
BY DEF Met

\* A request that takes entries more for account c.
LEMMA TakeMore ==
    ASSUME CodesInv, NEW r \in Requests, NEW new \in RequestRows, SoundRow(new),
           UNCHANGED <<codes, customers, guesses, overlapped>>,
           request' = [request EXCEPT ![r] = new], new.at # "matching",
           NEW entries, HeldBy(new) \subseteq entries \cup Holds(r),
           entries \cap Besides(new.customer) \subseteq given',
           Holds(r) = {} \/ new.customer = request[r].customer,
           rivals' = rivals \cup Met(r, new.customer, entries), rivals' \subseteq Phones \cup Emails,
           given \subseteq given', given' \subseteq Phones \cup Emails
    PROVE  CodesInv'
<1> DEFINE c == new.customer
<1>1. HeldBy(new) \cap Besides(c) \subseteq Excepted'
  BY RowFacts DEF Excepted
<1>2. ASSUME NEW o \in Requests \ {r}, c = 0 \/ request[o].customer # c
      PROVE  HeldBy(new) \cap Holds(o) \subseteq Excepted'
  <2> SUFFICES ASSUME NEW e \in HeldBy(new), e \in Holds(o) PROVE e \in Excepted'
    OBVIOUS
  <2>1. CASE e \in entries
    <3>1. request[o].customer = 0 \/ request[o].customer # c
      BY <1>2
    <3> HIDE DEF c
    <3>2. e \in Met(r, c, entries)
      BY <2>1, <3>1, MetRivals
    <3> QED
      BY <3>2 DEF Excepted, c
  <2>2. CASE e \in Holds(r)
    <3>1. request[r].customer = 0 \/ request[o].customer # request[r].customer
      BY <1>2, <2>2
    <3>2. e \in Excepted
      BY <2>2, <3>1, RowFacts
    <3> QED
      BY <3>2 DEF Excepted
  <2> QED
    BY <2>1, <2>2
<1> HIDE DEF c
<1>3. overlapped \subseteq 1..MaxCodes /\ rivals \subseteq rivals'
  BY RowFacts
<1>4. HeldBy(new) \cap Besides(new.customer) \subseteq Excepted'
  BY <1>1 DEF c
<1>5. \A o \in Requests \ {r} : new.customer = 0 \/ request[o].customer # new.customer
               => HeldBy(new) \cap Holds(o) \subseteq Excepted'
  BY <1>2 DEF c
<1> QED
  BY <1>3, <1>4, <1>5, RequestMoves

\* Only numbers and addresses are met, held or had.
LEMMA EntriesOnly ==
    ASSUME CodesInv
    PROVE  /\ \A o \in Requests : Holds(o) \subseteq Phones \cup Emails
           /\ \A r \in Requests : \A c, entries : Met(r, c, entries) \subseteq Phones \cup Emails
           /\ \A c : Besides(c) \subseteq Phones \cup Emails
<1>1. ASSUME NEW o \in Requests PROVE Holds(o) \subseteq Phones \cup Emails
  <2>1. request[o] \in RequestRows /\ SoundRow(request[o])
    BY RowFacts
  <2> QED
    BY <2>1 DEF Holds, Entries, SoundRow, Asking, RequestRows
<1>2. \A r \in Requests : \A c, entries : Met(r, c, entries) \subseteq Phones \cup Emails
  BY <1>1 DEF Met
<1>3. PICK n \in Nat : /\ DOMAIN customers = 1..n
                       /\ \A c \in 1..n : Entries(customers[c]) \subseteq Phones \cup Emails
  BY CustomerRows DEF CodesInv
<1>4. \A c : Besides(c) \subseteq Phones \cup Emails
  BY <1>3 DEF Besides
<1> QED
  BY <1>1, <1>2, <1>4

\* Sending a code, presenting it, and what ends a request.
LEMMA RequestStep ==
    ASSUME CodesInv, NEW r \in Requests
    PROVE  /\ \A phone \in Phones, email \in Emails, purpose \in Purposes :
                  RequestCode(r, phone, email, purpose) \/ ReadCode(r, phone, email, purpose)
                      => CodesInv'
           /\ SignIn(r) \/ RefuseTaken(r) \/ RequestDies(r) => CodesInv'
<1>0. /\ overlapped \subseteq 1..MaxCodes
      /\ rivals \subseteq Phones \cup Emails /\ given \subseteq Phones \cup Emails
  BY RowFacts
<1>1. ASSUME NEW phone \in Phones, NEW email \in Emails, NEW purpose \in Purposes,
             RequestCode(r, phone, email, purpose)
      PROVE  CodesInv'
  <2> DEFINE new == [Idle EXCEPT !.at = "sending", !.phone = phone, !.email = email,
                                 !.purpose = purpose]
  <2>1. new.at = "sending" /\ new.phone = phone /\ new.email = email /\ new.customer = 0
    BY DEF Idle
  <2>2. new \in RequestRows
    <3>1. Idle \in RequestRows
      BY IdleRow
    <3> QED
      BY <3>1 DEF RequestRows
  <2>3. request' = [request EXCEPT ![r] = new]
    BY <1>1 DEF RequestCode
  <2> HIDE DEF new
  <2>4. SoundRow(new) /\ HeldBy(new) = {}
    BY <2>1 DEF SoundRow, HeldBy, Editing
  <2>5. UNCHANGED <<codes, customers, guesses, overlapped, rivals, given>>
    BY <1>1 DEF RequestCode, customerVars
  <2> QED
    BY <1>0, <2>1, <2>2, <2>3, <2>4, <2>5, RequestMoves
<1>2. ASSUME NEW phone \in Phones, NEW email \in Emails, NEW purpose \in Purposes,
             ReadCode(r, phone, email, purpose)
      PROVE  CodesInv'
  <2> DEFINE c == Max(Unused(phone, purpose))
             new == [at |-> "matching", phone |-> phone, email |-> email,
                     purpose |-> purpose, code |-> c, tries |-> codes[c].tries, customer |-> 0]
  <2>1. c \in Sent /\ c \in 1..MaxCodes /\ codes[c].tries \in 0..Tries /\ codes[c].tries < Tries
    <3>1. Unused(phone, purpose) \subseteq Sent /\ Unused(phone, purpose) # {}
      BY <1>2 DEF ReadCode, Unused
    <3>2. Unused(phone, purpose) \in SUBSET (1..MaxCodes) /\ MaxCodes \in Nat
      BY <3>1, CodeColumns, CodesAssumption DEF CodesInv
    <3>3. c \in Unused(phone, purpose)
      BY <3>1, <3>2, Highest
    <3>4. codes[c].tries < Tries
      BY <1>2 DEF ReadCode, TriesLeft
    <3> QED
      BY <3>1, <3>3, <3>4, CodeColumns DEF CodesInv
  <2>2. /\ request' = [request EXCEPT ![r] = new]
        /\ overlapped' = IF \E o \in Requests : Compares(o, c)
                         THEN overlapped \cup {c} ELSE overlapped
        /\ UNCHANGED <<codes, customers, guesses, rivals, given>>
    BY <1>2 DEF ReadCode, Compares, customerVars
  <2> HIDE DEF c
  <2>3. /\ new \in RequestRows /\ new.at = "matching" /\ new.phone = phone /\ new.email = email
        /\ new.code = c /\ new.tries = codes[c].tries /\ new.customer = 0
    BY <2>1, CodesAssumption DEF RequestRows
  <2>4. /\ overlapped \subseteq overlapped' /\ overlapped' \subseteq 1..MaxCodes
        /\ c \in overlapped' \/ \A o \in Requests \ {r} : ~Compares(o, c)
    BY <1>0, <2>1, <2>2
  <2> HIDE DEF new
  <2>5. SoundRow(new) /\ HeldBy(new) = {}
    BY <2>1, <2>3 DEF SoundRow, HeldBy, Editing
  <2> QED
    BY <1>0, <2>1, <2>2, <2>3, <2>4, <2>5, RequestMoves
<1>3. ASSUME SignIn(r) \/ RefuseTaken(r) \/ RequestDies(r) PROVE CodesInv'
  <2>1. /\ request' = [request EXCEPT ![r] = Idle]
        /\ UNCHANGED <<codes, customers, guesses, overlapped, rivals, given>>
    BY <1>3 DEF SignIn, RefuseTaken, RequestDies, Ends, customerVars
  <2> QED
    BY <1>0, <2>1, IdleRow, RequestMoves
<1> QED
  BY <1>1, <1>2, <1>3

\* The number and the address of a customer to be created are looked up.
LEMMA FindStep ==
    ASSUME CodesInv, NEW r \in Requests, FindNumberFree(r) \/ FindAddressFree(r)
    PROVE  CodesInv'
<1>0. /\ request[r] \in RequestRows /\ SoundRow(request[r])
      /\ rivals \subseteq Phones \cup Emails /\ given \subseteq Phones \cup Emails
  BY RowFacts
<1>1. /\ request[r].at \in {"matched", "numbered"}
      /\ request[r].customer = 0
      /\ request[r].phone \in Phones /\ request[r].email \in Emails
  BY <1>0 DEF FindNumberFree, FindAddressFree, SoundRow, Asking, Editing
<1>2. PICK s \in {"numbered", "creating"}, e \in Phones \cup Emails :
          /\ e \notin Besides(0)
          /\ request' = [request EXCEPT ![r] = [request[r] EXCEPT !.at = s]]
          /\ rivals' = rivals \cup Met(r, 0, {e})
          /\ s = "numbered" => e = request[r].phone
          /\ s = "creating" => e = request[r].email /\ Holds(r) = {request[r].phone}
          /\ UNCHANGED <<codes, customers, guesses, overlapped, given>>
  <2>0. request \in [Requests -> RequestRows]
    BY DEF CodesInv, CodesTypeOK
  <2>1. CASE FindNumberFree(r)
    BY <1>1, <2>0, <2>1 DEF FindNumberFree, FreeNumber, Known
  <2>2. CASE FindAddressFree(r)
    <3>1. Holds(r) = {request[r].phone}
      BY <2>2 DEF FindAddressFree, Holds, Editing
    <3> QED
      BY <1>1, <2>0, <2>2, <3>1 DEF FindAddressFree, FreeAddress, Known
  <2> QED
    BY <2>1, <2>2
<1> DEFINE new == [request[r] EXCEPT !.at = s]
<1>3. /\ new \in RequestRows /\ new.at = s /\ new.customer = 0
      /\ new.phone = request[r].phone /\ new.email = request[r].email
  <2>1. s \in {"idle", "sending", "matching", "matched", "numbered", "creating"}
    BY <1>2
  <2> QED
    BY <1>1, <2>1, Staged
<1>4. request' = [request EXCEPT ![r] = new]
  BY <1>2
<1> HIDE DEF new
<1>5. SoundRow(new)
  BY <1>1, <1>3 DEF SoundRow, Asking, Editing
<1>6. HeldBy(new) \subseteq {e} \cup Holds(r)
  BY <1>2, <1>3 DEF HeldBy, Entries, Editing
<1>7. rivals' \subseteq Phones \cup Emails
  BY <1>0, <1>2, EntriesOnly
<1>8. {e} \cap Besides(new.customer) \subseteq given' /\ rivals' = rivals \cup Met(r, new.customer, {e})
  BY <1>2, <1>3
<1> QED
  BY <1>0, <1>1, <1>2, <1>3, <1>4, <1>5, <1>6, <1>7, <1>8, TakeMore

\* A row is read, and an account is given a number or an address.
LEMMA EditStep ==
    ASSUME CodesInv, NEW r \in Requests
    PROVE  /\ \A c \in DOMAIN customers : ReadProfile(r, c) => CodesInv'
           /\ \A email \in Emails \cup {NoEntry} : GiveAddress(r, email) => CodesInv'
           /\ \A phone \in Phones \cup {NoEntry} : GiveNumber(r, phone) => CodesInv'
           /\ \A c \in DOMAIN customers, phone \in Phones \cup {NoEntry},
                 email \in Emails \cup {NoEntry} : OfficeEdits(r, c, phone, email) => CodesInv'
<1>0. /\ request[r] \in RequestRows /\ SoundRow(request[r])
      /\ overlapped \subseteq 1..MaxCodes
      /\ rivals \subseteq Phones \cup Emails /\ given \subseteq Phones \cup Emails
      /\ request \in [Requests -> RequestRows]
  BY RowFacts DEF CodesInv, CodesTypeOK
<1>1. PICK n \in Nat : /\ DOMAIN customers = 1..n /\ n <= MaxCustomers
                       /\ customers \in [1..n -> Customers]
                       /\ \A a, b \in 1..n : a # b => Entries(customers[a]) \subseteq Besides(b)
                       /\ \A a \in 1..n : Entries(customers[a]) \subseteq Besides(0)
  BY CustomerRows DEF CodesInv
<1>2. 1..n \subseteq 0..MaxCustomers
  BY <1>1, CodesAssumption
<1>3. ASSUME NEW c \in DOMAIN customers, ReadProfile(r, c) PROVE CodesInv'
  <2> DEFINE new == [Idle EXCEPT !.at = "profile", !.customer = c,
                                 !.phone = customers[c].phone, !.email = customers[c].email]
  <2>1. /\ new.at = "profile" /\ new.customer = c
        /\ new.phone = customers[c].phone /\ new.email = customers[c].email
    BY DEF Idle
  <2>2. new \in RequestRows
    <3>1. Idle \in RequestRows
      BY IdleRow
    <3>2. customers[c].phone \in Phones \cup {NoEntry} /\ customers[c].email \in Emails \cup {NoEntry}
      BY <1>1 DEF Customers
    <3> QED
      BY <1>1, <1>2, <3>1, <3>2 DEF RequestRows, Editing
  <2>3. request' = [request EXCEPT ![r] = new]
    BY <1>3 DEF ReadProfile
  <2>4. UNCHANGED <<codes, customers, guesses, overlapped, rivals, given>>
    BY <1>3 DEF ReadProfile, customerVars
  <2> HIDE DEF new
  <2>5. SoundRow(new) /\ HeldBy(new) = Entries(customers[c])
    BY <2>1 DEF SoundRow, HeldBy, Asking, Editing, Entries
  <2>6. Entries(customers[c]) \cap Besides(c) \subseteq Excepted'
    BY <2>4 DEF CodesInv, OneCustomerPerEntry, Besides, Excepted
  <2>7. ASSUME NEW o \in Requests \ {r}, request[o].customer # c
        PROVE  Entries(customers[c]) \cap Holds(o) \subseteq Excepted'
    <3>1. Holds(o) \cap Besides(request[o].customer) \subseteq Excepted
      BY RowFacts
    <3>2. request[o].customer \in 1..n \cup {0}
      <4>1. SoundRow(request[o])
        BY RowFacts
      <4> QED
        BY <1>1, <4>1 DEF SoundRow
    <3>3. Entries(customers[c]) \subseteq Besides(request[o].customer)
      BY <1>1, <2>7, <3>2
    <3> QED
      BY <2>4, <3>1, <3>3 DEF Excepted
  <2>8. c # 0
    BY <1>1
  <2> QED
    BY <1>0, <2>1, <2>2, <2>3, <2>4, <2>5, <2>6, <2>7, <2>8, RequestMoves
<1>4. ASSUME NEW email \in Emails \cup {NoEntry}, GiveAddress(r, email) PROVE CodesInv'
  <2> DEFINE new == [request[r] EXCEPT !.at = "addressed", !.email = email]
  <2>1. /\ new \in RequestRows /\ new.at = "addressed" /\ new.customer = request[r].customer
        /\ new.phone = request[r].phone /\ new.email = email
    BY <1>0 DEF RequestRows, Editing
  <2>2. request' = [request EXCEPT ![r] = new]
    BY <1>0, <1>4 DEF GiveAddress
  <2> HIDE DEF new
  <2>3. SoundRow(new) /\ HeldBy(new) \subseteq {email} \cup Holds(r)
    BY <1>0, <1>4, <2>1 DEF GiveAddress, SoundRow, HeldBy, Holds, Asking, Editing, Entries
  <2>4. /\ {email} \cap Besides(new.customer) = {}
        /\ rivals' = rivals \cup Met(r, new.customer, {email})
        /\ UNCHANGED <<codes, customers, guesses, overlapped, given>>
    BY <1>4, <2>1 DEF GiveAddress
  <2>5. rivals' \subseteq Phones \cup Emails
    BY <1>0, <2>4, EntriesOnly
  <2> QED
    BY <1>0, <2>1, <2>2, <2>3, <2>4, <2>5, TakeMore
<1>5. ASSUME NEW phone \in Phones \cup {NoEntry}, GiveNumber(r, phone) PROVE CodesInv'
  <2> DEFINE new == [request[r] EXCEPT !.at = "checked", !.phone = phone]
  <2>1. /\ new \in RequestRows /\ new.at = "checked" /\ new.customer = request[r].customer
        /\ new.email = request[r].email /\ new.phone = phone
    BY <1>0 DEF RequestRows, Editing
  <2>2. request' = [request EXCEPT ![r] = new]
    BY <1>0, <1>5 DEF GiveNumber
  <2> HIDE DEF new
  <2>3. SoundRow(new) /\ HeldBy(new) \subseteq {phone} \cup Holds(r)
    BY <1>0, <1>5, <2>1 DEF GiveNumber, SoundRow, HeldBy, Holds, Asking, Editing, Entries
  <2>4. /\ {phone} \cap Besides(new.customer) = {}
        /\ rivals' = rivals \cup Met(r, new.customer, {phone})
        /\ UNCHANGED <<codes, customers, guesses, overlapped, given>>
    BY <1>5, <2>1 DEF GiveNumber
  <2>5. rivals' \subseteq Phones \cup Emails
    BY <1>0, <2>4, EntriesOnly
  <2> QED
    BY <1>0, <2>1, <2>2, <2>3, <2>4, <2>5, TakeMore
<1>6. ASSUME NEW c \in DOMAIN customers, NEW phone \in Phones \cup {NoEntry},
             NEW email \in Emails \cup {NoEntry}, OfficeEdits(r, c, phone, email)
      PROVE  CodesInv'
  <2> DEFINE new == [Idle EXCEPT !.at = "checked", !.customer = c, !.phone = phone,
                                 !.email = email]
  <2>1. /\ new.at = "checked" /\ new.customer = c /\ new.phone = phone /\ new.email = email
    BY DEF Idle
  <2>2. new \in RequestRows
    <3>1. Idle \in RequestRows
      BY IdleRow
    <3> QED
      BY <1>1, <1>2, <3>1 DEF RequestRows, Editing
  <2>3. request' = [request EXCEPT ![r] = new]
    BY <1>6 DEF OfficeEdits
  <2> HIDE DEF new
  <2>4. SoundRow(new) /\ HeldBy(new) \subseteq {phone, email} /\ Holds(r) = {}
    BY <1>6, <2>1 DEF OfficeEdits, SoundRow, HeldBy, Holds, Asking, Editing, Entries, Idle
  <2>5. /\ rivals' = rivals \cup Met(r, new.customer, {phone, email})
        /\ given' = given \cup ({phone, email} \cap Besides(new.customer))
        /\ UNCHANGED <<codes, customers, guesses, overlapped>>
    BY <1>6, <2>1 DEF OfficeEdits
  <2>6. rivals' \subseteq Phones \cup Emails /\ given' \subseteq Phones \cup Emails
    BY <1>0, <2>5, EntriesOnly
  <2> QED
    BY <1>0, <2>1, <2>2, <2>3, <2>4, <2>5, <2>6, TakeMore
<1> QED
  BY <1>3, <1>4, <1>5, <1>6

\* A code that is sent: nobody can have compared a guess with it.
LEMMA SendStep == ASSUME NEW r \in Requests, CodesInv, CreateCode(r) PROVE CodesInv'
<1> USE DEF CodesInv
<1>1. PICK n \in 0..MaxCodes : codes \in [1..n -> CodeRows] /\ guesses \in [1..n -> 0..Tries + 1]
  BY DEF CodesTypeOK
<1> DEFINE new == [phone |-> request[r].phone, email |-> request[r].email,
                   purpose |-> request[r].purpose, tries |-> 0, used |-> FALSE,
                   age |-> "minute"]
<1>2. new \in CodeRows /\ new.tries = 0
  <2>1. request[r].phone \in Phones /\ request[r].email \in Emails
    BY DEF CreateCode, RequestsSound, SoundRow, Asking
  <2>2. request[r].purpose \in Purposes
    BY CodeColumns DEF RequestRows
  <2> QED
    BY <2>1, <2>2, CodesAssumption DEF CodeRows, Ages
<1>3. n \in Nat /\ Sent = 1..n /\ n + 1 \in 0..MaxCodes
  <2>1. n \in Nat /\ Sent = 1..n
    BY <1>1, CodesAssumption, Table DEF Sent
  <2>2. n < MaxCodes
    <3>1. Cardinality(1..n) = n
      BY <2>1, FS_Interval
    <3> QED
      BY <2>1, <3>1 DEF CreateCode
  <2> QED
    BY <2>1, <2>2, CodesAssumption
<1>4. /\ codes' = Add(codes, new) /\ guesses' = Add(guesses, 0)
      /\ request' = [request EXCEPT ![r] = Idle]
      /\ UNCHANGED <<customers, overlapped, rivals, given>>
  BY DEF CreateCode, Ends, customerVars
<1> HIDE DEF new
<1>5. /\ codes' \in [1..n + 1 -> CodeRows] /\ codes'[n + 1] = new
      /\ \A c \in 1..n : codes'[c] = codes[c]
  <2>1. DOMAIN codes = 1..n
    BY <1>1
  <2>2. codes' = [i \in 1..n + 1 |-> IF i \in 1..n THEN codes[i] ELSE new]
    BY <1>3, <1>4, <2>1, Added
  <2> QED
    BY <1>1, <1>2, <1>3, <2>2
<1>6. /\ guesses' \in [1..n + 1 -> 0..Tries + 1] /\ guesses'[n + 1] = 0
      /\ \A c \in 1..n : guesses'[c] = guesses[c]
  <2>1. 0 \in 0..Tries + 1
    BY CodesAssumption
  <2>2. DOMAIN guesses = 1..n
    BY <1>1
  <2>3. guesses' = [i \in 1..n + 1 |-> IF i \in 1..n THEN guesses[i] ELSE 0]
    BY <1>3, <1>4, <2>2, Added
  <2> QED
    BY <1>1, <1>3, <2>1, <2>3
<1>7. Sent' = 1..n + 1 /\ \A c \in Sent' : c \in Sent \/ c = n + 1
  BY <1>3, <1>5 DEF Sent
<1>8. /\ request'[r] = Idle /\ Idle.at = "idle"
      /\ \A o \in Requests \ {r} : request'[o] = request[o]
  BY <1>4, IdleRow DEF CodesTypeOK
<1>9. CodesTypeOK'
  <2>1. request' \in [Requests -> RequestRows]
    BY <1>4, IdleRow DEF CodesTypeOK
  <2> QED
    BY <1>3, <1>4, <1>5, <1>6, <2>1 DEF CodesTypeOK
<1>10. RequestsSound'
  <2>1. Sent \subseteq Sent'
    BY <1>3, <1>7
  <2>2. SoundRow(Idle) /\ \A o \in Requests : SoundRow(request[o])
    BY IdleRow, RowFacts
  <2>3. \A o \in Requests : SoundRow(request[o])'
    BY <1>4, <1>8, <2>1, <2>2 DEF SoundRow
  <2> QED
    BY <2>3 DEF RequestsSound
<1>11. GuessesCounted'
  <2> SUFFICES ASSUME NEW c \in Sent' \ overlapped
               PROVE  /\ guesses'[c] <= codes'[c].tries
                      /\ \A o \in Requests : Compares(o, c)' => request'[o].tries = codes'[c].tries
                      /\ \A o, q \in Requests : Compares(o, c)' /\ Compares(q, c)' => o = q
    BY <1>4 DEF GuessesCounted
  <2>1. \A o \in Requests : Compares(o, c)' => Compares(o, c) /\ request'[o] = request[o]
    BY <1>8 DEF Compares
  <2>2. CASE c \in Sent
    BY <1>3, <1>5, <1>6, <2>1, <2>2 DEF GuessesCounted
  <2>3. CASE c = n + 1
    <3>1. \A o \in Requests : ~Compares(o, c)
      BY <1>3, <2>3 DEF Compares, RequestsSound, SoundRow
    <3> QED
      BY <1>2, <1>5, <1>6, <2>1, <2>3, <3>1
  <2> QED
    BY <1>7, <2>2, <2>3
<1>12. FoundFree'
  BY <1>4, <1>8, RequestEnds
<1>13. OneCustomerPerEntry'
  BY <1>4 DEF OneCustomerPerEntry
<1> QED
  BY <1>9, <1>10, <1>11, <1>12, <1>13

\* Time passes for a code.
LEMMA AgeStep == ASSUME NEW a \in Sent, CodesInv, CodeAges(a) PROVE CodesInv'
<1> USE DEF CodesInv
<1>1. PICK n \in 0..MaxCodes : codes \in [1..n -> CodeRows] /\ guesses \in [1..n -> 0..Tries + 1]
  BY DEF CodesTypeOK
<1>2. Sent = 1..n
  BY <1>1 DEF Sent
<1>3. codes' \in [1..n -> CodeRows] /\ \A c \in Sent : codes'[c].tries = codes[c].tries
  <2>1. codes[a] \in CodeRows /\ Older[codes[a].age] \in Ages
    BY <1>1, <1>2 DEF CodeAges, CodeRows, Ages, Older
  <2>2. [codes[a] EXCEPT !.age = Older[codes[a].age]] \in CodeRows
    BY <2>1 DEF CodeRows
  <2>3. codes' = [codes EXCEPT ![a] = [codes[a] EXCEPT !.age = Older[codes[a].age]]]
    BY <1>1, <1>2 DEF CodeAges
  <2> QED
    BY <1>1, <1>2, <2>1, <2>2, <2>3 DEF CodeRows
<1>4. Sent' = Sent /\ UNCHANGED <<customers, request, guesses, overlapped, rivals, given>>
  BY <1>2, <1>3 DEF CodeAges, Sent, customerVars
<1>5. CodesTypeOK'
  BY <1>1, <1>3, <1>4 DEF CodesTypeOK
<1>6. RequestsSound' /\ FoundFree' /\ OneCustomerPerEntry'
  BY <1>4 DEF RequestsSound, SoundRow, FoundFree, OneCustomerPerEntry, Excepted, Elsewhere,
              Besides, Holds
<1>7. GuessesCounted'
  BY <1>3, <1>4 DEF GuessesCounted, Compares
<1> QED
  BY <1>5, <1>6, <1>7

\* A guess: who compares one with a code alone writes the count back that there is, and
\* one more.
LEMMA GuessStep ==
    ASSUME NEW r \in Requests, CodesInv, GuessWrong(r) \/ GuessRight(r)
    PROVE  CodesInv'
<1> USE DEF CodesInv
<1> DEFINE g == request[r].code
           after == request[r].tries + 1
<1>1. PICK n \in 0..MaxCodes : codes \in [1..n -> CodeRows] /\ guesses \in [1..n -> 0..Tries + 1]
  BY DEF CodesTypeOK
<1>2. /\ Sent = 1..n /\ g \in Sent /\ Compares(r, g)
      /\ after \in 0..Tries
  <2>1. Sent = 1..n
    BY <1>1 DEF Sent
  <2>2. request[r].at = "matching"
    BY DEF GuessWrong, GuessRight
  <2>3. g \in Sent /\ request[r].tries < Tries /\ request[r].tries \in 0..Tries
    BY <2>2, CodeColumns DEF RequestsSound, SoundRow, RequestRows
  <2> QED
    BY <2>1, <2>2, <2>3, CodesAssumption DEF Compares
<1>3. PICK s \in {"idle", "matched"}, u \in BOOLEAN :
          /\ codes' = [codes EXCEPT ![g] = [codes[g] EXCEPT !.tries = after, !.used = u]]
          /\ request'[r].at = s /\ request' \in [Requests -> RequestRows]
          /\ SoundRow(request'[r])
          /\ \A o \in Requests \ {r} : request'[o] = request[o]
  <2>0. codes[g] \in CodeRows /\ request \in [Requests -> RequestRows]
    BY <1>1, <1>2 DEF CodesTypeOK
  <2>1. CASE GuessWrong(r)
    <3>1. codes' = [codes EXCEPT ![g] = [codes[g] EXCEPT !.tries = after]]
      BY <1>1, <1>2, <2>1 DEF GuessWrong, Count
    <3>2. [codes[g] EXCEPT !.tries = after]
              = [codes[g] EXCEPT !.tries = after, !.used = codes[g].used]
      BY <2>0 DEF CodeRows
    <3>3. request' = [request EXCEPT ![r] = Idle]
      BY <2>1 DEF GuessWrong, Ends
    <3>4. codes[g].used \in BOOLEAN
      BY <2>0 DEF CodeRows
    <3>5. /\ request'[r].at = "idle" /\ request' \in [Requests -> RequestRows]
          /\ SoundRow(request'[r])
      <4>1. request'[r] = Idle
        BY <2>0, <3>3
      <4> QED
        BY <2>0, <3>3, <4>1, IdleRow
    <3>6. \A o \in Requests \ {r} : request'[o] = request[o]
      BY <2>0, <3>3
    <3> QED
      BY <3>1, <3>2, <3>4, <3>5, <3>6
  <2>2. CASE GuessRight(r)
    <3>1. codes' = [codes EXCEPT ![g] = [codes[g] EXCEPT !.tries = after, !.used = TRUE]]
      BY <1>1, <1>2, <2>2 DEF GuessRight, Count
    <3>2. request' = [request EXCEPT ![r] = [request[r] EXCEPT !.at = "matched"]]
      BY <2>0, <2>2 DEF GuessRight
    <3>3. /\ request'[r].at = "matched" /\ request' \in [Requests -> RequestRows]
          /\ SoundRow(request'[r])
      <4>1. /\ request'[r].at = "matched" /\ request' \in [Requests -> RequestRows]
            /\ request'[r].phone = request[r].phone /\ request'[r].email = request[r].email
            /\ request'[r].customer = request[r].customer
        BY <2>0, <3>2, Staged
      <4>2. SoundRow(request[r]) /\ request[r].at = "matching"
        BY <2>2, RowFacts DEF GuessRight
      <4> QED
        BY <4>1, <4>2 DEF SoundRow, Asking, Editing
    <3>4. \A o \in Requests \ {r} : request'[o] = request[o]
      BY <2>0, <3>2
    <3> QED
      BY <3>1, <3>3, <3>4
  <2> QED
    BY <2>1, <2>2
<1>4. /\ guesses' = [guesses EXCEPT ![g] = Min({guesses[g] + 1, Tries + 1})]
      /\ UNCHANGED <<customers, overlapped, rivals, given>>
  BY <1>1, <1>2 DEF GuessWrong, GuessRight, Compare, customerVars
<1>5. /\ codes' \in [1..n -> CodeRows] /\ codes'[g].tries = after
      /\ \A c \in Sent \ {g} : codes'[c] = codes[c]
  <2>1. codes[g] \in CodeRows
    BY <1>1, <1>2
  <2>2. [codes[g] EXCEPT !.tries = after, !.used = u] \in CodeRows
    BY <1>2, <2>1 DEF CodeRows
  <2>3. [codes[g] EXCEPT !.tries = after, !.used = u].tries = after
    BY <2>1 DEF CodeRows
  <2> QED
    BY <1>1, <1>2, <1>3, <2>2, <2>3
<1>6. /\ guesses' \in [1..n -> 0..Tries + 1] /\ guesses'[g] <= guesses[g] + 1
      /\ \A c \in Sent \ {g} : guesses'[c] = guesses[c]
  <2>1. guesses[g] \in 0..Tries + 1
    BY <1>1, <1>2
  <2> QED
    BY <1>1, <1>2, <1>4, <2>1, OneMore
<1>7. Sent' = Sent
  BY <1>2, <1>4, <1>5 DEF Sent
<1>8. CodesTypeOK'
  BY <1>3, <1>4, <1>5, <1>6 DEF CodesTypeOK
<1>9. request'[r].at # "matching" /\ HeldBy(request'[r]) = {}
  BY <1>3 DEF HeldBy, Editing
<1>10. RequestsSound'
  <2>1. \A o \in Requests : SoundRow(request'[o])
    BY <1>3, RowFacts
  <2> QED
    BY <1>4, <1>7, <2>1 DEF RequestsSound, SoundRow
<1>11. GuessesCounted'
  <2> SUFFICES ASSUME NEW c \in Sent \ overlapped
               PROVE  /\ guesses'[c] <= codes'[c].tries
                      /\ \A o \in Requests : Compares(o, c)' => request'[o].tries = codes'[c].tries
                      /\ \A o, q \in Requests : Compares(o, c)' /\ Compares(q, c)' => o = q
    BY <1>4, <1>7 DEF GuessesCounted
  <2>1. \A o \in Requests : Compares(o, c)' => o # r /\ Compares(o, c) /\ request'[o] = request[o]
    BY <1>3, <1>9 DEF Compares
  <2>2. CASE c # g
    <3>1. c \in Sent \ {g} /\ codes'[c] = codes[c] /\ guesses'[c] = guesses[c]
      BY <1>5, <1>6, <2>2
    <3> HIDE DEF g
    <3> QED
      BY <2>1, <3>1 DEF GuessesCounted
  <2>3. CASE c = g
    <3>1. \A o \in Requests : ~Compares(o, c)'
      BY <1>2, <2>1, <2>3 DEF GuessesCounted
    <3>2. after = codes[g].tries + 1 /\ guesses[g] <= codes[g].tries
      BY <1>2, <2>3 DEF GuessesCounted
    <3>3. guesses[g] \in Int /\ guesses'[g] \in Int /\ codes[g].tries \in Int
      BY <1>1, <1>2, <1>6, CodeColumns
    <3> HIDE DEF g, after
    <3> QED
      BY <1>5, <1>6, <2>3, <3>1, <3>2, <3>3
  <2> QED
    BY <2>2, <2>3
<1>12. FoundFree'
  <2>1. Excepted' = Excepted
    BY <1>4 DEF Excepted
  <2> QED
    BY <1>3, <1>4, <1>9, <2>1, FoundStep
<1>13. OneCustomerPerEntry'
  BY <1>4 DEF OneCustomerPerEntry
<1> QED
  BY <1>8, <1>10, <1>11, <1>12, <1>13

\* A row is saved with what a request holds for it, or is emptied, or created.
LEMMA RowsStep ==
    ASSUME CodesInv, NEW c, NEW held, NEW next \in SUBSET DOMAIN customers',
           next = DOMAIN customers', c \in next,
           DOMAIN customers \subseteq next, next \subseteq DOMAIN customers \cup {c},
           \A d \in next \ {c} : customers'[d] = customers[d],
           Entries(customers'[c]) \subseteq held, held \cap Besides(c) \subseteq Excepted,
           UNCHANGED <<rivals, given>>
    PROVE  /\ OneCustomerPerEntry'
           /\ \A d : Besides(d)' \subseteq Besides(d) \cup held
           /\ Besides(c)' \subseteq Besides(c)
<1>1. \A d \in next \ {c} : /\ d \in DOMAIN customers
                            /\ Entries(customers'[d]) = Entries(customers[d])
                            /\ Entries(customers'[d]) \subseteq Besides(c)
  BY DEF Besides, Entries
<1>2. \A d : Besides(d)' \subseteq Besides(d) \cup held
  <2> SUFFICES ASSUME NEW d, NEW a \in next \ {d}
               PROVE  Entries(customers'[a]) \subseteq Besides(d) \cup held
    BY DEF Besides
  <2>1. CASE a = c
    BY <2>1
  <2>2. CASE a # c
    BY <1>1, <2>2 DEF Besides
  <2> QED
    BY <2>1, <2>2
<1>3. Besides(c)' \subseteq Besides(c)
  BY <1>1 DEF Besides
<1>4. ASSUME NEW a \in next, NEW b \in next, a # b
      PROVE  Entries(customers'[a]) \cap Entries(customers'[b]) \subseteq Excepted
  <2>1. CASE a = c
    BY <1>1, <1>4, <2>1
  <2>2. CASE b = c
    BY <1>1, <1>4, <2>2
  <2>3. CASE a # c /\ b # c
    BY <1>1, <1>4, <2>3 DEF CodesInv, OneCustomerPerEntry, Excepted
  <2> QED
    BY <2>1, <2>2, <2>3
<1> QED
  BY <1>2, <1>3, <1>4 DEF OneCustomerPerEntry, Excepted

\* An account is created, and will be saved again: what it is given was free, and is still,
\* but for what is excepted.
LEMMA AccountStep == ASSUME NEW r \in Requests, CodesInv, CreateCustomer(r) PROVE CodesInv'
<1> USE DEF CodesInv
<1>1. PICK n \in 0..MaxCustomers : customers \in [1..n -> Customers]
  BY DEF CodesTypeOK
<1>0. /\ request[r].at = "creating" /\ request[r].customer = 0
      /\ request[r].phone \in Phones /\ request[r].email \in Emails
      /\ Holds(r) = Entries(request[r]) /\ request \in [Requests -> RequestRows]
  BY RowFacts DEF CreateCustomer, SoundRow, Asking, Editing, Holds, CodesTypeOK
<1> DEFINE row == [phone |-> request[r].phone, email |-> request[r].email]
           new == [request[r] EXCEPT !.at = "checked", !.customer = n + 1]
<1>2. row \in Customers /\ Entries(row) = Holds(r)
  BY <1>0 DEF Customers, Entries
<1>3. n \in Nat /\ DOMAIN customers = 1..n /\ n + 1 \in 0..MaxCustomers /\ Cardinality(1..n) = n
  <2>1. n \in Nat /\ DOMAIN customers = 1..n
    BY <1>1, CodesAssumption, Table
  <2>2. Cardinality(1..n) = n
    BY <2>1, FS_Interval
  <2>3. n < MaxCustomers
    BY <2>1, <2>2 DEF CreateCustomer
  <2> QED
    BY <2>1, <2>2, <2>3, CodesAssumption
<1>4. /\ customers' = Add(customers, row)
      /\ request' = [request EXCEPT ![r] = new]
      /\ UNCHANGED <<codes, guesses, overlapped, rivals, given>>
  BY <1>0, <1>3 DEF CreateCustomer
<1>5. /\ new \in RequestRows /\ new.at = "checked" /\ new.customer = n + 1
      /\ new.phone = request[r].phone /\ new.email = request[r].email
  BY <1>0, <1>3 DEF RequestRows, Editing
<1> HIDE DEF row, new
<1>6. /\ customers' \in [1..n + 1 -> Customers] /\ customers'[n + 1] = row
      /\ \A c \in 1..n : customers'[c] = customers[c]
  <2>1. DOMAIN customers = 1..n
    BY <1>1
  <2>2. customers' = [i \in 1..n + 1 |-> IF i \in 1..n THEN customers[i] ELSE row]
    BY <1>3, <1>4, <2>1, Added
  <2> QED
    BY <1>1, <1>2, <1>3, <2>2
<1>7. /\ DOMAIN customers' = 1..n + 1 /\ 1..n + 1 = 1..n \cup {n + 1} /\ n + 1 \notin 1..n
  BY <1>3, <1>6
<1>8. /\ request'[r] = new /\ \A o \in Requests \ {r} : request'[o] = request[o]
      /\ request' \in [Requests -> RequestRows]
  BY <1>0, <1>4, <1>5
<1>9. CodesTypeOK'
  BY <1>3, <1>4, <1>6, <1>8 DEF CodesTypeOK
<1>10. RequestsSound'
  <2>1. SoundRow(request[r])'
    BY <1>5, <1>7, <1>8 DEF SoundRow, Asking, Editing
  <2>2. \A o \in Requests \ {r} : SoundRow(request[o])'
    <3> SUFFICES ASSUME NEW o \in Requests \ {r} PROVE SoundRow(request[o])'
      OBVIOUS
    <3>1. request'[o] = request[o] /\ SoundRow(request[o])
      BY <1>8, RowFacts
    <3> QED
      BY <1>3, <1>4, <1>7, <3>1 DEF SoundRow, Sent
  <2> QED
    BY <1>8, <2>1, <2>2 DEF RequestsSound
<1>11. GuessesCounted'
  BY <1>4, <1>5, <1>8 DEF GuessesCounted, Compares, Sent
<1>12. Besides(n + 1) = Besides(0) /\ Holds(r) \cap Besides(0) \subseteq Excepted
  BY <1>0, <1>3, RowFacts DEF Besides
<1>13. /\ OneCustomerPerEntry'
       /\ \A d : Besides(d)' \subseteq Besides(d) \cup Holds(r)
       /\ Besides(n + 1)' \subseteq Besides(n + 1)
  <2>1. \A d \in (1..n + 1) \ {n + 1} : customers'[d] = customers[d]
    BY <1>6, <1>7
  <2>2. Entries(customers'[n + 1]) \subseteq Holds(r)
    BY <1>2, <1>6
  <2> QED
    BY <1>3, <1>4, <1>7, <1>12, <2>1, <2>2, RowsStep
<1>14. Holds(r)' = Holds(r) /\ \A o \in Requests \ {r} : Holds(o)' = Holds(o)
  <2>1. Holds(r)' = Entries(new)
    BY <1>5, <1>8 DEF Holds, Editing
  <2>2. Entries(new) = Entries(request[r])
    BY <1>5 DEF Entries
  <2> QED
    BY <1>0, <1>8, <2>1, <2>2 DEF Holds
<1>15. FoundFree'
  <2>1. Excepted' = Excepted
    BY <1>4 DEF Excepted
  <2>0. \A p : \A d : request'[p].customer = d => Elsewhere(p)' = Besides(d)'
    BY DEF Elsewhere, Besides
  <2>2. ASSUME NEW p \in Requests PROVE Holds(p)' \cap Elsewhere(p)' \subseteq Excepted
    <3>1. CASE p = r
      <4>1. Elsewhere(r)' = Besides(n + 1)'
        BY <1>5, <1>8, <2>0
      <4> QED
        BY <1>12, <1>13, <1>14, <3>1, <4>1
    <3>2. CASE p # r
      <4>1. request'[p].customer = request[p].customer
        BY <1>8, <3>2
      <4>2. Holds(p) \cap Besides(request[p].customer) \subseteq Excepted
        BY RowFacts
      <4>3. Holds(r) \cap Holds(p) \subseteq Excepted
        BY <1>0, <3>2, RowFacts
      <4>4. Elsewhere(p)' \subseteq Besides(request[p].customer) \cup Holds(r)
        <5>1. PICK d : d = request[p].customer
          OBVIOUS
        <5>2. Elsewhere(p)' = Besides(d)'
          BY <2>0, <4>1, <5>1
        <5> QED
          BY <1>13, <5>1, <5>2
      <4> QED
        BY <1>14, <3>2, <4>1, <4>2, <4>3, <4>4
    <3> QED
      BY <3>1, <3>2
  <2>3. ASSUME NEW p \in Requests, NEW o \in Requests \ {p},
               request'[p].customer = 0 \/ request'[o].customer # request'[p].customer
        PROVE  Holds(p)' \cap Holds(o)' \subseteq Excepted
    <3>1. CASE p = r
      BY <1>0, <1>14, <3>1, RowFacts
    <3>2. CASE o = r
      BY <1>0, <1>14, <3>2, RowFacts
    <3>3. CASE p # r /\ o # r
      BY <1>8, <1>14, <2>3, <3>3, RowFacts
    <3> QED
      BY <3>1, <3>2, <3>3
  <2>4. \A p \in Requests :
            /\ Holds(p)' \cap Elsewhere(p)' \subseteq Excepted'
            /\ \A o \in Requests \ {p} :
                   request'[p].customer = 0 \/ request'[o].customer # request'[p].customer
                       => Holds(p)' \cap Holds(o)' \subseteq Excepted'
    BY <2>1, <2>2, <2>3
  <2> QED
    BY <2>4 DEF FoundFree
<1> QED
  BY <1>9, <1>10, <1>11, <1>13, <1>15

\* Requests and guesses, when a request that saved a row ends.
LEMMA EditedRows ==
    ASSUME CodesInv, NEW r \in Requests, DOMAIN customers' = DOMAIN customers,
           UNCHANGED <<codes, guesses, overlapped>>,
           request'[r] = Idle, \A o \in Requests \ {r} : request'[o] = request[o]
    PROVE  RequestsSound' /\ GuessesCounted'
<1>1. \A o \in Requests : SoundRow(request[o])'
  <2>1. \A o \in Requests \ {r} : request'[o] = request[o] /\ SoundRow(request[o])
    BY RowFacts
  <2>2. \A o \in Requests \ {r} : SoundRow(request[o])'
    BY <2>1 DEF SoundRow, Sent
  <2>3. SoundRow(Idle)
    BY IdleRow
  <2>4. SoundRow(request[r])'
    BY <2>3 DEF SoundRow, Sent
  <2> QED
    BY <2>2, <2>4
<1>2. \A o \in Requests : \A d : Compares(o, d)' => Compares(o, d) /\ request'[o] = request[o]
  BY IdleRow DEF Compares
<1>3. Sent' = Sent
  BY DEF Sent
<1>4. GuessesCounted
  BY DEF CodesInv
<1>5. GuessesCounted'
  <2> SUFFICES ASSUME NEW d \in Sent \ overlapped
               PROVE  /\ guesses[d] <= codes[d].tries
                      /\ \A o \in Requests : Compares(o, d)' => request'[o].tries = codes[d].tries
                      /\ \A o, q \in Requests : Compares(o, d)' /\ Compares(q, d)' => o = q
    BY <1>3 DEF GuessesCounted
  <2> QED
    BY <1>2, <1>4 DEF GuessesCounted
<1> QED
  BY <1>1, <1>5 DEF RequestsSound

\* The row is saved: what the request holds no other account has, but for what is excepted.
LEMMA SaveRowStep == ASSUME NEW r \in Requests, CodesInv, SaveProfile(r) PROVE CodesInv'
<1> USE DEF CodesInv
<1>1. PICK n \in Nat : /\ DOMAIN customers = 1..n /\ n <= MaxCustomers
                       /\ customers \in [1..n -> Customers]
  BY CustomerRows
<1>0. PICK c : c = request[r].customer
  OBVIOUS
<1> DEFINE row == [phone |-> request[r].phone, email |-> request[r].email]
<1>2. /\ request[r] \in RequestRows /\ c \in 1..n /\ request[r].at \in Editing
      /\ Holds(r) = Entries(request[r]) /\ request \in [Requests -> RequestRows]
  BY <1>0, <1>1, RowFacts DEF SaveProfile, SoundRow, Holds, CodesTypeOK, Editing
<1>3. row \in Customers /\ Entries(row) = Holds(r)
  BY <1>2 DEF Customers, Entries, RequestRows
<1>4. /\ customers' = [customers EXCEPT ![c] = row]
      /\ request' = [request EXCEPT ![r] = Idle]
      /\ UNCHANGED <<codes, guesses, overlapped, rivals, given>>
  BY <1>0 DEF SaveProfile, Ends
<1>5. Holds(r) \cap Besides(c) \subseteq Excepted
  BY <1>0, RowFacts
<1>6. \A o \in Requests \ {r} : request[o].customer # c => Holds(r) \cap Holds(o) \subseteq Excepted
  BY <1>0, RowFacts
<1> HIDE DEF row
<1>7. /\ customers' \in [1..n -> Customers] /\ customers'[c] = row
      /\ \A d \in 1..n \ {c} : customers'[d] = customers[d]
  BY <1>1, <1>2, <1>3, <1>4
<1>8. /\ request'[r] = Idle /\ \A o \in Requests \ {r} : request'[o] = request[o]
      /\ request' \in [Requests -> RequestRows]
  BY <1>2, <1>4, IdleRow
<1>9. CodesTypeOK'
  <2>1. n \in 0..MaxCustomers
    BY <1>1, CodesAssumption
  <2> QED
    BY <1>4, <1>7, <1>8, <2>1 DEF CodesTypeOK
<1>10. RequestsSound' /\ GuessesCounted'
  BY <1>1, <1>4, <1>7, <1>8, EditedRows
<1>11. /\ OneCustomerPerEntry'
       /\ \A d : Besides(d)' \subseteq Besides(d) \cup Holds(r)
       /\ Besides(c)' \subseteq Besides(c)
  <2>1. DOMAIN customers' = 1..n /\ 1..n \in SUBSET (DOMAIN customers')
    BY <1>7
  <2>2. c \in 1..n /\ DOMAIN customers \subseteq 1..n /\ 1..n \subseteq DOMAIN customers \cup {c}
    BY <1>1, <1>2
  <2>3. Entries(customers'[c]) \subseteq Holds(r)
    BY <1>3, <1>7
  <2>4. UNCHANGED <<rivals, given>>
    BY <1>4
  <2> QED
    BY <1>5, <1>7, <2>1, <2>2, <2>3, <2>4, RowsStep
<1>12. Holds(r)' = {} /\ \A o \in Requests \ {r} : Holds(o)' = Holds(o)
  BY <1>8, IdleRow DEF Holds, Editing
<1>13. FoundFree'
  <2>0. \A p : \A d : request'[p].customer = d => Elsewhere(p)' = Besides(d)'
    BY DEF Elsewhere, Besides
  <2>1. Excepted' = Excepted
    BY <1>4 DEF Excepted
  <2>2. ASSUME NEW p \in Requests PROVE Holds(p)' \cap Elsewhere(p)' \subseteq Excepted
    <3>1. CASE p = r
      BY <1>12, <3>1
    <3>2. CASE p # r
      <4>1. PICK d : d = request[p].customer
        OBVIOUS
      <4>2. Elsewhere(p)' = Besides(d)' /\ Holds(p)' = Holds(p)
        BY <1>8, <1>12, <2>0, <3>2, <4>1
      <4>3. Holds(p) \cap Besides(d) \subseteq Excepted
        BY <4>1, RowFacts
      <4>4. CASE d = c
        BY <1>11, <4>2, <4>3, <4>4
      <4>5. CASE d # c
        BY <1>0, <1>6, <1>11, <3>2, <4>1, <4>2, <4>3, <4>5
      <4> QED
        BY <4>4, <4>5
    <3> QED
      BY <3>1, <3>2
  <2>3. ASSUME NEW p \in Requests, NEW o \in Requests \ {p},
               request'[p].customer = 0 \/ request'[o].customer # request'[p].customer
        PROVE  Holds(p)' \cap Holds(o)' \subseteq Excepted
    <3>1. CASE p = r \/ o = r
      BY <1>12, <3>1
    <3>2. CASE p # r /\ o # r
      BY <1>8, <1>12, <2>3, <3>2, RowFacts
    <3> QED
      BY <3>1, <3>2
  <2>4. \A p \in Requests :
            /\ Holds(p)' \cap Elsewhere(p)' \subseteq Excepted'
            /\ \A o \in Requests \ {p} :
                   request'[p].customer = 0 \/ request'[o].customer # request'[p].customer
                       => Holds(p)' \cap Holds(o)' \subseteq Excepted'
    BY <2>1, <2>2, <2>3
  <2> QED
    BY <2>4 DEF FoundFree
<1> QED
  BY <1>9, <1>10, <1>11, <1>13

\* An account that is deleted has nothing any more.
LEMMA DeleteStep == ASSUME NEW c \in DOMAIN customers, CodesInv, OfficeDeletes(c) PROVE CodesInv'
<1> USE DEF CodesInv
<1>1. PICK n \in Nat : /\ DOMAIN customers = 1..n /\ n <= MaxCustomers
                       /\ customers \in [1..n -> Customers]
  BY CustomerRows
<1> DEFINE row == [phone |-> NoEntry, email |-> NoEntry]
<1>2. row \in Customers /\ Entries(row) = {}
  BY DEF Customers, Entries
<1>3. /\ customers' = [customers EXCEPT ![c] = row]
      /\ UNCHANGED <<codes, request, guesses, overlapped, rivals, given>>
  BY DEF OfficeDeletes
<1> HIDE DEF row
<1>4. /\ customers' \in [1..n -> Customers] /\ customers'[c] = row
      /\ \A d \in 1..n \ {c} : customers'[d] = customers[d]
  BY <1>1, <1>2, <1>3
<1>5. CodesTypeOK'
  <2>1. n \in 0..MaxCustomers
    BY <1>1, CodesAssumption
  <2> QED
    BY <1>3, <1>4, <2>1 DEF CodesTypeOK
<1>6. DOMAIN customers' = 1..n /\ Sent' = Sent
  BY <1>3, <1>4 DEF Sent
<1>7. RequestsSound' /\ GuessesCounted'
  BY <1>1, <1>3, <1>6 DEF RequestsSound, SoundRow, GuessesCounted, Compares
<1>8. /\ OneCustomerPerEntry'
      /\ \A d : Besides(d)' \subseteq Besides(d) \cup {}
  <2>1. Entries(customers'[c]) \subseteq {} /\ {} \cap Besides(c) \subseteq Excepted
    BY <1>2, <1>4
  <2> QED
    BY <1>1, <1>3, <1>4, <1>6, <2>1, RowsStep
<1>9. FoundFree'
  <2>1. \A p : \A d : request[p].customer = d => Elsewhere(p)' = Besides(d)'
    BY <1>3 DEF Elsewhere, Besides
  <2>2. \A p \in Requests : Holds(p)' \cap Elsewhere(p)' \subseteq Excepted'
    <3> SUFFICES ASSUME NEW p \in Requests PROVE Holds(p)' \cap Elsewhere(p)' \subseteq Excepted'
      OBVIOUS
    <3>1. PICK d : d = request[p].customer
      OBVIOUS
    <3>2. Elsewhere(p)' = Besides(d)' /\ Holds(p)' = Holds(p) /\ Excepted' = Excepted
      BY <1>3, <2>1, <3>1 DEF Holds, Excepted
    <3>3. Holds(p) \cap Besides(d) \subseteq Excepted
      BY <3>1, RowFacts
    <3> QED
      BY <1>8, <3>2, <3>3
  <2> QED
    BY <1>3, <2>2 DEF FoundFree, Holds, Excepted
<1> QED
  BY <1>5, <1>7, <1>8, <1>9
LEMMA CodesInvStep == CodesInv /\ [CodesNext]_codeVars => CodesInv'
<1> SUFFICES ASSUME CodesInv, [CodesNext]_codeVars PROVE CodesInv'
  OBVIOUS
<1>1. CASE UNCHANGED codeVars
  <2>1. UNCHANGED <<codes, customers, request, guesses, overlapped, rivals, given>>
    BY <1>1 DEF codeVars
  <2>2. CodesTypeOK' /\ RequestsSound'
    BY <2>1 DEF CodesInv, CodesTypeOK, RequestsSound, SoundRow, Sent
  <2>3. GuessesCounted'
    BY <2>1 DEF CodesInv, GuessesCounted, Sent, Compares
  <2>4. FoundFree' /\ OneCustomerPerEntry'
    BY <2>1 DEF CodesInv, FoundFree, OneCustomerPerEntry, Excepted, Elsewhere, Besides, Holds
  <2> QED
    BY <2>2, <2>3, <2>4 DEF CodesInv
<1>2. CASE CodesNext
  BY <1>2, RequestStep, FindStep, EditStep, SendStep, AgeStep, GuessStep, AccountStep,
     SaveRowStep, DeleteStep DEF CodesNext
<1> QED
  BY <1>1, <1>2

LEMMA CodesInvariance == CodesSpec => []CodesInv
BY CodesInitInv, CodesInvStep, PTL DEF CodesSpec

\* Codes, rows and requests are what OneTimeCodes says they are, for any numbers, addresses
\* and requests in flight (RequestMobileOTPAction, VerifyMobileOTPAction).
THEOREM CodesTypes == CodesSpec => []CodesTypeOK
BY CodesInvariance, PTL DEF CodesInv

\* Whoever guesses, and however requests for the same code follow each other, it is
\* compared with no more than the allowed number of guesses, unless two read it at the
\* same time (MobileOTP.matches).
THEOREM GuessesLimited == CodesSpec => []GuessesBounded
<1>1. ASSUME CodesInv PROVE GuessesBounded
  <2> SUFFICES ASSUME NEW c \in Sent \ overlapped PROVE guesses[c] <= Tries
    BY DEF GuessesBounded
  <2>1. guesses[c] <= codes[c].tries /\ guesses[c] \in 0..Tries + 1 /\ codes[c].tries \in 0..Tries
    BY <1>1, CodeColumns DEF CodesInv, GuessesCounted
  <2> QED
    BY <2>1, CodesAssumption
<1> QED
  BY <1>1, CodesInvariance, PTL

\* No number and no address has two accounts but when two requests under way at once were
\* about to write it, or the back office gave it away while another account had it
\* (VerifyMobileOTPAction, ProfileView.put, AdminCustomerViewSet; the table has no
\* constraint).
THEOREM EntriesUnique == CodesSpec => []OneCustomerPerEntry
<1>1. CodesInv => OneCustomerPerEntry
  BY DEF CodesInv
<1> QED
  BY <1>1, CodesInvariance, PTL
=============================================================================
