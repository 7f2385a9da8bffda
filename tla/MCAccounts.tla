----------------------------- MODULE MCAccounts -----------------------------
(***************************************************************************)
(* Small instances of Sessions, OneTimeCodes, Store and Realtime, checked  *)
(* in one run.  They share no state, so a behaviour moves only one of them *)
(* away from its initial states.  Restrictions keep the instance small: in *)
(* Sessions either the administrators or everybody else stays away, and    *)
(* once time passes in Store, the vendor has a password of its own, no     *)
(* documents, and is approved or waiting for it.  Codes do not expire, and *)
(* accounts are edited and deleted once all codes have been used, with no  *)
(* more than one number or address that the property excepts, or one       *)
(* account that is deleted.                                                *)
(* Sockets share nothing but the cache and what is announced to all of     *)
(* them, so that there is one, and each kind of room has an initial state  *)
(* of its own.  Two writers overlap, and a third change finds the inbox of *)
(* two full.  One dashboard at a time counts figures of its own, and       *)
(* while figures are in the cache nobody loses a right and the third       *)
(* change is not made.                                                     *)
(***************************************************************************)
EXTENDS Sessions, OneTimeCodes, Store, Realtime, TLC

CONSTANTS a1, a2, t1, t2, p1, p2

Administrators == {a1, a2}
TwoTokens == {t1, t2}
TwoPhones == {p1, p2}

Alike == Permutations(Administrators) \cup Permutations(TwoTokens) \cup Permutations(TwoPhones)

NoAdministrator == (\A u \in Staff : ~user[u].exists) /\ setups = {}

OnlyAdministrators == /\ hashes = 0
                      /\ setting = {}
                      /\ \A l \in Links : link[l].state = "none"
                      /\ \A t \in Tokens : token[t].user \in Staff \cup {NoUser}
                      /\ \A i \in issuing : i[1] \in Staff
                      /\ \A s \in saving : s[1] \in Staff

Settled == /\ store.status \in {"pending", "approved"}
           /\ ~store.mustChange
           /\ \A d \in Documents : document[d].status = "none"

\* Nothing more can come of the codes.
Spent == /\ Cardinality(Sent) = MaxCodes
         /\ \A n \in Sent : /\ codes[n].used /\ codes[n].purpose = "register"
                            /\ codes[n].age = "valid"
                            /\ guesses[n] = 1 /\ n \notin overlapped

EditsLast == \/ Spent
             \/ /\ \A r \in Requests : request'[r].customer = 0 \/ request'[r].code # 0
                /\ \A c \in DOMAIN customers : customers'[c] = customers[c]

\* An edit gives a number, and may clear the address; who is deleted loses both.
NumbersStay == \A r \in Requests :
    request[r].at \in {"addressed", "checked"} => request[r].phone # NoEntry

\* One entry that two accounts may share, or one account that is deleted
Deleted == {n \in DOMAIN customers : customers[n] = [phone |-> NoEntry, email |-> NoEntry]}
FewExcepted == Cardinality(rivals \cup given) + Cardinality(Deleted) <= 1

\* A dashboard that counts stands for all of them, and keeps what it counted while nothing
\* is in the cache; until it expires, no right is withdrawn and the last change not made.
DashboardAlone ==
    /\ tallied # {} => Cardinality(tallied) = 1 /\ cached = {}
    /\ tallied \cup cached # {} => made < MaxMade /\ \A s \in Sockets : may[s]

AccountsInit == SessionsInit /\ CodesInit /\ StoreInit /\ RealtimeInit

\* One initial state of each, for the others to act in
QuietStore == StoreInit /\ ~store.mustChange /\ ~store.complete
NoSocket   == RealtimeInit /\ room = "tracking"

AccountsNext ==
    \/ /\ CodesInit /\ QuietStore /\ NoSocket
       /\ SessionsNext /\ (NoAdministrator' \/ OnlyAdministrators')
       /\ UNCHANGED <<codeVars, storeVars, realtimeVars>>
    \/ /\ SessionsInit /\ QuietStore /\ NoSocket
       /\ CodesNext /\ (\A n \in Sent' : codes'[n].age \in {"minute", "valid"})
       /\ EditsLast /\ NumbersStay' /\ FewExcepted'
       /\ UNCHANGED <<sessionVars, storeVars, realtimeVars>>
    \/ /\ SessionsInit /\ CodesInit /\ NoSocket
       /\ StoreNext /\ (clock' > 0 => Settled')
       /\ UNCHANGED <<sessionVars, codeVars, realtimeVars>>
    \/ /\ SessionsInit /\ CodesInit /\ QuietStore
       /\ RealtimeNext /\ DashboardAlone'
       /\ UNCHANGED <<sessionVars, codeVars, storeVars>>

AccountsSpec ==
    AccountsInit /\ [][AccountsNext]_<<sessionVars, codeVars, storeVars, realtimeVars>>

\* The types of the four modules.
AccountsTypeOK == SessionsTypeOK /\ CodesTypeOK /\ StoreTypeOK /\ RealtimeTypeOK
=============================================================================
