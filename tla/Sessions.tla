------------------------------ MODULE Sessions ------------------------------
(***************************************************************************)
(* Passwords, refresh tokens and administrators:                           *)
(* accounts/actions/auth_actions.py (login, first superuser),              *)
(* accounts/actions/password_reset_actions.py and profile_actions.py,      *)
(* accounts/views/auth_views.py (refresh, logout), accounts/views/         *)
(* profile_views.py, and the back office's changes of an account           *)
(* (backend/actions/admin_console_actions.py, accounts/actions/            *)
(* admin_actions.py).                                                      *)
(*                                                                         *)
(* A password is its hash, and hashes are numbered as they are made.  A    *)
(* refresh token carries the hash of its user's password; the token        *)
(* library (external) keeps the list of tokens it issued and the blacklist.*)
(* Passwords are changed with the user locked; a profile is saved as a     *)
(* whole row, as it was when the request was authenticated.                *)
(***************************************************************************)
EXTENDS Integers, FiniteSets

CONSTANTS
    Users,      \* accounts
    Staff,      \* the administrators among them
    Tokens,     \* refresh tokens
    Links,      \* password reset links
    MaxHash,    \* bound on the passwords made
    NoUser      \* no account

ASSUME SessionsAssumption ==
    /\ Staff \subseteq Users
    /\ NoUser \notin Users
    /\ MaxHash \in Nat \ {0}

VARIABLES
    user,       \* User rows
    hashes,     \* number of hashes made
    token,      \* refresh tokens
    issuing,    \* users a request has authenticated, and the hash it read
    rotating,   \* tokens a refresh has found usable
    link,       \* PasswordResetToken rows
    recent,     \* users who asked for a link in the last minute
    saving,     \* rows a profile request has read
    setting,    \* customers' rows the back office has read to change their status
    setups,     \* first-superuser requests that have found none
    overtaken   \* users whose row was saved over a newer password

sessionVars == <<user, hashes, token, issuing, rotating, link, recent, saving, setting,
                 setups, overtaken>>

links == <<link, recent>>
rows  == <<saving, setting, overtaken>>
-----------------------------------------------------------------------------
Hashes == 0..MaxHash

UserRows == [exists : BOOLEAN, active : BOOLEAN, super : BOOLEAN, hash : Hashes]

NoUserRow == [exists |-> FALSE, active |-> FALSE, super |-> FALSE, hash |-> 0]

NoToken == [state |-> "none", user |-> NoUser, hash |-> 0]

SessionsTypeOK ==
    /\ user \in [Users -> UserRows]
    /\ hashes \in Hashes
    /\ token \in [Tokens -> [state : {"none", "live", "black"}, user : Users \cup {NoUser}, hash : Hashes]]
    /\ issuing \subseteq Users \X Hashes
    /\ rotating \subseteq Tokens
    /\ link \in [Links -> [state : {"none", "sent", "used"}, user : Users \cup {NoUser}]]
    /\ recent \subseteq Users
    /\ saving \subseteq Users \X UserRows
    /\ setting \subseteq Users \X UserRows
    /\ setups \subseteq Staff
    /\ overtaken \subseteq Users

\* Customers and vendors have signed up; the back office is empty.
SessionsInit ==
    /\ user = [u \in Users |-> [NoUserRow EXCEPT !.exists = u \notin Staff,
                                                 !.active = u \notin Staff]]
    /\ hashes = 0
    /\ token = [t \in Tokens |-> NoToken]
    /\ issuing = {}
    /\ rotating = {}
    /\ link = [l \in Links |-> [state |-> "none", user |-> NoUser]]
    /\ recent = {}
    /\ saving = {}
    /\ setting = {}
    /\ setups = {}
    /\ overtaken = {}

SignedUp(u) == user[u].exists /\ user[u].active

Superusers == {u \in Staff : SignedUp(u) /\ user[u].super}

NewHash(u) == /\ hashes < MaxHash
              /\ hashes' = hashes + 1

\* PasswordResetRepository.invalidate_sessions: every token that was issued.
InvalidateSessions(u) ==
    token' = [t \in Tokens |-> IF token[t].state = "live" /\ token[t].user = u
                               THEN [token[t] EXCEPT !.state = "black"] ELSE token[t]]

\* set_password, force_password_change and temp_password
SetPassword(u) == /\ NewHash(u)
                  /\ user' = [user EXCEPT ![u].hash = hashes + 1]
-----------------------------------------------------------------------------
(* Signing in and staying signed in.                                       *)

\* LoginAction: the password is checked against the row as it is read.
Authenticate(u) ==
    /\ SignedUp(u)
    /\ issuing' = issuing \cup {<<u, user[u].hash>>}
    /\ UNCHANGED <<user, hashes, token, rotating, links, rows, setups>>

\* generate_tokens_for_user, for the row that was read.
IssueToken(u, h, t) ==
    /\ <<u, h>> \in issuing
    /\ token[t].state = "none"
    /\ issuing' = issuing \ {<<u, h>>}
    /\ token' = [token EXCEPT ![t] = [state |-> "live", user |-> u, hash |-> h]]
    /\ UNCHANGED <<user, hashes, rotating, links, rows, setups>>

\* Mutant of Usable: the password the token was issued for is not compared.
UsableForEver(t) == token[t].state = "live" /\ SignedUp(token[t].user)

\* What CookieTokenRefreshView checks: the blacklist, the account and the claim
\* with the password's hash.
Usable(t) == /\ token[t].state = "live"
             /\ SignedUp(token[t].user)
             /\ token[t].hash = user[token[t].user].hash

RefreshReads(t) ==
    /\ Usable(t)
    /\ rotating' = rotating \cup {t}
    /\ UNCHANGED <<user, hashes, token, issuing, links, rows, setups>>

\* TokenRefreshSerializer: the token goes on the blacklist, if it is not there yet,
\* and is replaced by one with its claims.
RotateToken(t, next) ==
    /\ t \in rotating
    /\ token[next].state = "none"
    /\ rotating' = rotating \ {t}
    /\ token' = [token EXCEPT ![t].state = "black", ![next] = [token[t] EXCEPT !.state = "live"]]
    /\ UNCHANGED <<user, hashes, issuing, links, rows, setups>>

\* LogoutView
Logout(t) ==
    /\ token[t].state = "live"
    /\ token' = [token EXCEPT ![t].state = "black"]
    /\ UNCHANGED <<user, hashes, issuing, rotating, links, rows, setups>>

\* A bearer of an access token that was issued with the password the account has.
SignedIn(u) == /\ SignedUp(u)
               /\ \E t \in Tokens : /\ token[t].state # "none"
                                    /\ token[t].user = u
                                    /\ token[t].hash = user[u].hash
-----------------------------------------------------------------------------
(* Passwords.                                                              *)

\* ChangePasswordAction; its view then issues tokens.
ChangePassword(u) ==
    /\ SignedIn(u)
    /\ SetPassword(u)
    /\ InvalidateSessions(u)
    /\ issuing' = issuing \cup {<<u, hashes + 1>>}
    /\ UNCHANGED <<rotating, links, rows, setups>>

\* Mutant of RequestReset: the links sent before stay usable.
RequestAnotherReset(u, l) ==
    /\ SignedUp(u)
    /\ u \notin recent
    /\ link[l].state = "none"
    /\ recent' = recent \cup {u}
    /\ link' = [link EXCEPT ![l] = [state |-> "sent", user |-> u]]
    /\ UNCHANGED <<user, hashes, token, issuing, rotating, rows, setups>>

\* RequestAccountPasswordResetAction, the user being locked: at most one a minute,
\* and it takes back the links sent before.
RequestReset(u, l) ==
    /\ SignedUp(u)
    /\ u \notin recent
    /\ link[l].state = "none"
    /\ recent' = recent \cup {u}
    /\ link' = [k \in Links |-> IF k = l THEN [state |-> "sent", user |-> u]
                                ELSE IF link[k].state = "sent" /\ link[k].user = u
                                     THEN [link[k] EXCEPT !.state = "used"] ELSE link[k]]
    /\ UNCHANGED <<user, hashes, token, issuing, rotating, rows, setups>>

\* A minute passes.
MinutePasses(u) ==
    /\ u \in recent
    /\ recent' = recent \ {u}
    /\ UNCHANGED <<user, hashes, token, issuing, rotating, link, rows, setups>>

\* ConfirmAccountPasswordResetAction: the link and its user are locked.
ConfirmReset(l) ==
    /\ link[l].state = "sent"
    /\ SignedUp(link[l].user)
    /\ SetPassword(link[l].user)
    /\ link' = [link EXCEPT ![l].state = "used"]
    /\ InvalidateSessions(link[l].user)
    /\ UNCHANGED <<issuing, rotating, recent, rows, setups>>
-----------------------------------------------------------------------------
(* Rows that are read, and saved as a whole later; the model has one such  *)
(* request of a kind for an account at a time.                             *)

\* ProfileView.put is authenticated, which loads the row ...
ProfileReads(u) ==
    /\ SignedIn(u)
    /\ \A p \in saving : p[1] # u
    /\ saving' = saving \cup {<<u, user[u]>>}
    /\ UNCHANGED <<user, hashes, token, issuing, rotating, links, setting, setups, overtaken>>

\* ... and serializer.save writes all of it, a deleted account included.
ProfileSaves(u, row) ==
    /\ <<u, row>> \in saving
    /\ saving' = saving \ {<<u, row>>}
    /\ user' = [user EXCEPT ![u] = row]
    /\ overtaken' = IF user[u] = row THEN overtaken ELSE overtaken \cup {u}
    /\ UNCHANGED <<hashes, token, issuing, rotating, links, setting, setups>>

\* UpdateAccountStatusAction, for customers: the row is read without a lock ...
StatusReads(u) ==
    /\ u \notin Staff
    /\ \A p \in setting : p[1] # u
    /\ setting' = setting \cup {<<u, user[u]>>}
    /\ UNCHANGED <<user, hashes, token, issuing, rotating, links, saving, setups, overtaken>>

\* ... and UserRepository.update saves it whole.
StatusSaves(u, row, active) ==
    /\ <<u, row>> \in setting
    /\ setting' = setting \ {<<u, row>>}
    /\ user' = [user EXCEPT ![u] = [row EXCEPT !.active = active]]
    /\ overtaken' = IF user[u].hash = row.hash THEN overtaken ELSE overtaken \cup {u}
    /\ UNCHANGED <<hashes, token, issuing, rotating, links, saving, setups>>
-----------------------------------------------------------------------------
(* Administrators.                                                         *)

\* SetupSuperUserAction looks for a superuser ...
SetupReads(u) ==
    /\ u \in Staff
    /\ ~user[u].exists
    /\ \A s \in Staff : ~(user[s].exists /\ user[s].super)
    /\ setups' = setups \cup {u}
    /\ UNCHANGED <<user, hashes, token, issuing, rotating, links, rows>>

\* ... and creates one, whoever else has in the meantime.
SetupSaves(u) ==
    /\ u \in setups
    /\ ~user[u].exists
    /\ setups' = setups \ {u}
    /\ user' = [user EXCEPT ![u] = [exists |-> TRUE, active |-> TRUE, super |-> TRUE,
                                    hash |-> @.hash]]
    /\ UNCHANGED <<hashes, token, issuing, rotating, links, rows>>

\* AdminUserSerializer.create, for a superuser.
AddSuperuser(u) ==
    /\ Superusers # {}
    /\ u \in Staff
    /\ ~user[u].exists
    /\ u \notin setups
    /\ user' = [user EXCEPT ![u] = [exists |-> TRUE, active |-> TRUE, super |-> TRUE,
                                    hash |-> @.hash]]
    /\ UNCHANGED <<hashes, token, issuing, rotating, links, rows, setups>>

\* Mutant of Dispensable: the target is counted among those who stay.
DispensableEvenIfLast(u) == Cardinality(Superusers) >= 1

\* AdminUserMutationAction, the target and all active superusers being locked.
Dispensable(u) == u \in Superusers => Cardinality(Superusers) > 1

DisableAdministrator(u) ==
    /\ u \in Staff
    /\ user[u].exists
    /\ Dispensable(u)
    /\ user' = [user EXCEPT ![u].active = FALSE]
    /\ UNCHANGED <<hashes, token, issuing, rotating, links, rows, setups>>

EnableAdministrator(u) ==
    /\ u \in Staff
    /\ user[u].exists
    /\ user' = [user EXCEPT ![u].active = TRUE]
    /\ UNCHANGED <<hashes, token, issuing, rotating, links, rows, setups>>

\* By another administrator; tokens and links go with the row.
DeleteAdministrator(u) ==
    /\ u \in Staff
    /\ user[u].exists
    /\ Dispensable(u)
    /\ Superusers \ {u} # {}
    /\ user' = [user EXCEPT ![u] = [NoUserRow EXCEPT !.hash = user[u].hash]]
    /\ token' = [t \in Tokens |-> IF token[t].state # "none" /\ token[t].user = u
                                  THEN [token[t] EXCEPT !.state = "black"] ELSE token[t]]
    /\ link' = [l \in Links |-> IF link[l].state = "sent" /\ link[l].user = u
                                THEN [link[l] EXCEPT !.state = "used"] ELSE link[l]]
    /\ UNCHANGED <<hashes, issuing, rotating, recent, rows, setups>>
-----------------------------------------------------------------------------
SessionsNext ==
    \/ \E u \in Users :
        \/ Authenticate(u)
        \/ \E h \in Hashes, t \in Tokens : IssueToken(u, h, t)
        \/ ChangePassword(u)
        \/ \E l \in Links : RequestReset(u, l)
        \/ MinutePasses(u)
        \/ ProfileReads(u)
        \/ \E p \in saving : p[1] = u /\ ProfileSaves(u, p[2])
        \/ StatusReads(u)
        \/ \E p \in setting, active \in BOOLEAN : p[1] = u /\ StatusSaves(u, p[2], active)
    \/ \E t \in Tokens : \/ RefreshReads(t)
                         \/ \E next \in Tokens : RotateToken(t, next)
                         \/ Logout(t)
    \/ \E l \in Links : ConfirmReset(l)
    \/ \E u \in Staff : \/ SetupReads(u)
                        \/ SetupSaves(u)
                        \/ AddSuperuser(u)
                        \/ DisableAdministrator(u)
                        \/ EnableAdministrator(u)
                        \/ DeleteAdministrator(u)

SessionsSpec == SessionsInit /\ [][SessionsNext]_sessionVars
-----------------------------------------------------------------------------
(* Properties.                                                             *)

\* A token of another password than the account's last one buys nothing, also when it
\* was issued by a sign-in or a refresh that was under way when the password changed:
\* the password of an account goes back to an earlier one only if a request saved a
\* row it had read before the change.
StaleSessionsDie == \A t \in Tokens :
    LET u == token[t].user IN
    Usable(t) => u \in overtaken \/ \A s \in Tokens :
        (token[s].state # "none" /\ token[s].user = u) => token[s].hash <= token[t].hash

\* Of all reset links that were sent to an account at most one can be used.
OneUsableLink == \A k, l \in Links :
    (link[k].state = "sent" /\ link[l].state = "sent" /\ link[k].user = link[l].user) => k = l

\* Once there is a superuser there is one who can sign in, whoever disables or deletes
\* whom at the same time and whatever row a profile request saves.
SuperuserRemains ==
    [][Superusers # {} => Superusers' # {}]_sessionVars
=============================================================================
