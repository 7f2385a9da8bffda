---------------------------- MODULE OneTimeCodes ----------------------------
(***************************************************************************)
(* Customers signing in and registering with a code sent by e-mail, and    *)
(* the edits of their numbers and addresses:                               *)
(* accounts/actions/auth_actions.py (RequestMobileOTPAction,               *)
(* VerifyMobileOTPAction), accounts/models/mobile_otp.py,                  *)
(* accounts/data/mobile_otp_repository.py, accounts/views/profile_views.py *)
(* and accounts/views/admin_customers.py.                                  *)
(*                                                                         *)
(* Nothing here runs in a transaction: a request reads, decides and then   *)
(* writes, one query at a time.  Codes are numbered in the order they are  *)
(* sent, so the highest number is the latest.  An account that is deleted  *)
(* leaves a row without number and address, which is the row that a        *)
(* request which had read the account puts back when it saves it.          *)
(***************************************************************************)
EXTENDS Integers, FiniteSets, FiniteSetsExt

CONSTANTS
    Phones,         \* mobile numbers
    Emails,         \* e-mail addresses
    Requests,       \* requests that are in flight
    MaxCodes,       \* bound on the codes sent
    MaxCustomers,   \* bound on the customers created
    Tries,          \* guesses a code allows, OTP attempts
    MaxRequests,    \* codes sent to a number, or an address, in a window
    NoEntry         \* no number or address

ASSUME CodesAssumption ==
    /\ MaxCodes \in Nat /\ MaxCustomers \in Nat
    /\ Tries \in Nat \ {0} /\ MaxRequests \in Nat \ {0}
    /\ NoEntry \notin Phones \cup Emails

Purposes == {"login", "register"}

\* How old a code is: it may not be sent again yet, is still accepted, is refused but
\* still counts among the recent requests, or is none of these.
Ages == {"minute", "valid", "window", "old"}

VARIABLES
    codes,      \* MobileOTP rows, in the order they were created
    customers,  \* the customers' User rows, in the order they were created
    request,    \* what the requests in flight have read
    guesses,    \* guesses that were compared with each code, up to one too many
    overlapped, \* codes of which two requests compared guesses at the same time
    rivals,     \* numbers and addresses two requests were about to write at the same time
    given       \* those the back office gave to an account although another had them

customerVars == <<customers, rivals, given>>
codeVars == <<codes, customers, request, guesses, overlapped, rivals, given>>
-----------------------------------------------------------------------------
CodeRows == [phone : Phones, email : Emails, purpose : Purposes,
             tries : 0..Tries, used : BOOLEAN, age : Ages]

Customers == [phone : Phones \cup {NoEntry}, email : Emails \cup {NoEntry}]

Idle == [at |-> "idle", phone |-> NoEntry, email |-> NoEntry, purpose |-> "login",
         code |-> 0, tries |-> 0, customer |-> 0]

\* With a row of `customers` read, that it will save.
Editing == {"profile", "addressed", "checked"}

RequestRows ==
    [at      : {"idle", "sending", "matching", "matched", "numbered", "creating"} \cup Editing,
     phone   : Phones \cup {NoEntry},
     email   : Emails \cup {NoEntry},
     purpose : Purposes,
     code    : 0..MaxCodes,
     tries   : 0..Tries,
     customer : 0..MaxCustomers]

CodesTypeOK ==
    /\ \E n \in 0..MaxCodes : /\ codes \in [1..n -> CodeRows]
                              /\ guesses \in [1..n -> 0..Tries + 1]
    /\ \E n \in 0..MaxCustomers : customers \in [1..n -> Customers]
    /\ request \in [Requests -> RequestRows]
    /\ overlapped \subseteq 1..MaxCodes
    /\ rivals \cup given \subseteq Phones \cup Emails

CodesInit ==
    /\ codes = <<>>
    /\ customers = <<>>
    /\ request = [r \in Requests |-> Idle]
    /\ guesses = <<>>
    /\ overlapped = {}
    /\ rivals = {}
    /\ given = {}

Sent == DOMAIN codes

Entries(row) == {row.phone, row.email} \ {NoEntry}

\* What the accounts other than c have; all of them when c is 0.
Besides(c) == UNION {Entries(customers[d]) : d \in DOMAIN customers \ {c}}

Known == Besides(0)

Add(table, row) == [n \in 1..Cardinality(DOMAIN table) + 1 |->
                    IF n \in DOMAIN table THEN table[n] ELSE row]

Ends(r) == request' = [request EXCEPT ![r] = Idle]
-----------------------------------------------------------------------------
(* Sending a code.                                                         *)

\* Who may have one: to sign in, the customer of that number at the address of the
\* account, or a number and an address nobody has; to register, the latter.
Entitled(phone, email, purpose) ==
    \/ {phone, email} \cap Known = {}
    \/ purpose = "login" /\ \E c \in DOMAIN customers :
          /\ customers[c] = [phone |-> phone, email |-> email]
          /\ \A later \in DOMAIN customers :
                customers[later].phone = phone => later <= c

\* Five in fifteen minutes, for the number as for the address.
WithinLimit(phone, email) ==
    LET recent == {c \in Sent : codes[c].age # "old"}
    IN  /\ Cardinality({c \in recent : codes[c].phone = phone}) < MaxRequests
        /\ Cardinality({c \in recent : codes[c].email = email}) < MaxRequests

\* A minute since the latest code that was not used.
CooledDown(phone, email, purpose) ==
    LET unused == {c \in Sent : /\ codes[c].phone = phone /\ codes[c].email = email
                                /\ codes[c].purpose = purpose /\ ~codes[c].used}
    IN  unused # {} => codes[Max(unused)].age # "minute"

\* RequestMobileOTPAction up to the creation of the code ...
RequestCode(r, phone, email, purpose) ==
    /\ request[r] = Idle
    /\ Entitled(phone, email, purpose)
    /\ WithinLimit(phone, email)
    /\ CooledDown(phone, email, purpose)
    /\ request' = [request EXCEPT ![r] = [Idle EXCEPT !.at = "sending", !.phone = phone,
                                          !.email = email, !.purpose = purpose]]
    /\ UNCHANGED <<codes, guesses, overlapped, customerVars>>

\* ... which is on its way to the customer, or lost: the row stays when neither the
\* queue nor the mail server takes the message.
CreateCode(r) ==
    /\ request[r].at = "sending"
    /\ Cardinality(Sent) < MaxCodes
    /\ codes' = Add(codes, [phone |-> request[r].phone, email |-> request[r].email,
                            purpose |-> request[r].purpose, tries |-> 0,
                            used |-> FALSE, age |-> "minute"])
    /\ guesses' = Add(guesses, 0)
    /\ Ends(r)
    /\ UNCHANGED <<overlapped, customerVars>>

\* Time passes: a code ages no sooner than those sent before it.
Older == [minute |-> "valid", valid |-> "window", window |-> "old"]

CodeAges(c) ==
    /\ codes[c].age # "old"
    /\ \A earlier \in Sent : earlier < c => codes[earlier].age # codes[c].age
    /\ codes' = [codes EXCEPT ![c].age = Older[@]]
    /\ UNCHANGED <<request, guesses, overlapped, customerVars>>
-----------------------------------------------------------------------------
(* Presenting it.                                                          *)

Unused(phone, purpose) ==
    {c \in Sent : codes[c].phone = phone /\ codes[c].purpose = purpose /\ ~codes[c].used}

\* Mutant of TriesLeft: the guesses are not looked at.
AnyNumberOfTries(c) == TRUE

\* MobileOTP.is_valid
TriesLeft(c) == codes[c].tries < Tries

\* VerifyMobileOTPAction reads the latest code of the number that was not used.  Whoever
\* registers may give another address than the one the code went to.
ReadCode(r, phone, email, purpose) ==
    /\ request[r] = Idle
    /\ Unused(phone, purpose) # {}
    /\ LET c == Max(Unused(phone, purpose)) IN
       /\ codes[c].age \in {"minute", "valid"}
       /\ TriesLeft(c)
       /\ purpose = "login" => email = codes[c].email
       /\ request' = [request EXCEPT ![r] =
              [at |-> "matching", phone |-> phone, email |-> email,
               purpose |-> purpose, code |-> c, tries |-> codes[c].tries, customer |-> 0]]
       /\ overlapped' = IF \E o \in Requests : /\ request[o].at = "matching"
                                               /\ request[o].code = c
                        THEN overlapped \cup {c} ELSE overlapped
    /\ UNCHANGED <<codes, guesses, customerVars>>

\* Mutant of Count: a guess is counted in memory only.
CountInMemory(r) == codes

\* MobileOTP.matches: one more than were read.
Count(r) == [codes EXCEPT ![request[r].code].tries = request[r].tries + 1]

Compare(r) == guesses' = [guesses EXCEPT ![request[r].code] = Min({@ + 1, Tries + 1})]

GuessWrong(r) ==
    /\ request[r].at = "matching"
    /\ codes' = Count(r)
    /\ Compare(r)
    /\ Ends(r)
    /\ UNCHANGED <<overlapped, customerVars>>

\* The right code is used up; the two saves of the row follow each other.
GuessRight(r) ==
    /\ request[r].at = "matching"
    /\ codes' = [Count(r) EXCEPT ![request[r].code].used = TRUE]
    /\ Compare(r)
    /\ request' = [request EXCEPT ![r].at = "matched"]
    /\ UNCHANGED <<overlapped, customerVars>>
-----------------------------------------------------------------------------
(* Writing numbers and addresses.  The table has no constraint on them.    *)

\* What a request is about to write, as far as it has found it free.
Holds(o) == CASE request[o].at = "numbered" -> {request[o].phone}
              [] request[o].at \in {"creating"} \cup Editing -> Entries(request[o])
              [] OTHER -> {}

\* Those of `entries` that requests other than r are about to write for accounts other
\* than c.
Met(r, c, entries) == entries \cap UNION {Holds(o) : o \in
    {p \in Requests \ {r} : request[p].customer = 0 \/ request[p].customer # c}}

\* phone_exists, as also get_by_phone finds it
FreeNumber(r) == request[r].phone \notin Known

\* Mutant of FreeAddress: the address is not looked up.
AnyAddress(r) == TRUE

\* email_exists
FreeAddress(r) == request[r].email \notin Known

\* The account of the number signs in.
SignIn(r) ==
    /\ request[r].at = "matched"
    /\ request[r].purpose = "login"
    /\ ~FreeNumber(r)
    /\ Ends(r)
    /\ UNCHANGED <<codes, guesses, overlapped, customerVars>>

\* A new customer: the number has no account ...
FindNumberFree(r) ==
    /\ request[r].at = "matched"
    /\ FreeNumber(r)
    /\ request' = [request EXCEPT ![r].at = "numbered"]
    /\ rivals' = rivals \cup Met(r, 0, {request[r].phone})
    /\ UNCHANGED <<codes, customers, guesses, overlapped, given>>

\* ... nor has the address ...
FindAddressFree(r) ==
    /\ request[r].at = "numbered"
    /\ FreeAddress(r)
    /\ request' = [request EXCEPT ![r].at = "creating"]
    /\ rivals' = rivals \cup Met(r, 0, {request[r].email})
    /\ UNCHANGED <<codes, customers, guesses, overlapped, given>>

\* ... which costs the code also when one of them has one.
RefuseTaken(r) ==
    /\ \/ request[r].at = "matched" /\ request[r].purpose = "register" /\ ~FreeNumber(r)
       \/ request[r].at = "numbered" /\ ~FreeAddress(r)
    /\ Ends(r)
    /\ UNCHANGED <<codes, guesses, overlapped, customerVars>>

\* The row is created, and will be saved once more, without a password.
CreateCustomer(r) ==
    /\ request[r].at = "creating"
    /\ Cardinality(DOMAIN customers) < MaxCustomers
    /\ customers' = Add(customers, [phone |-> request[r].phone, email |-> request[r].email])
    /\ request' = [request EXCEPT ![r].at = "checked",
                                  ![r].customer = Cardinality(DOMAIN customers) + 1]
    /\ UNCHANGED <<codes, guesses, overlapped, rivals, given>>

\* ProfileView.put, as whatever else saves a whole account, has read it at the start ...
ReadProfile(r, c) ==
    /\ request[r] = Idle
    /\ request' = [request EXCEPT ![r] =
           [Idle EXCEPT !.at = "profile", !.customer = c,
                        !.phone = customers[c].phone, !.email = customers[c].email]]
    /\ UNCHANGED <<codes, guesses, overlapped, customerVars>>

\* ... accepts no address and no number that another account has, ...
GiveAddress(r, email) ==
    /\ request[r].at = "profile"
    /\ email \notin Besides(request[r].customer)
    /\ request' = [request EXCEPT ![r].at = "addressed", ![r].email = email]
    /\ rivals' = rivals \cup Met(r, request[r].customer, {email})
    /\ UNCHANGED <<codes, customers, guesses, overlapped, given>>

GiveNumber(r, phone) ==
    /\ request[r].at \in {"profile", "addressed"}
    /\ phone \notin Besides(request[r].customer)
    /\ request' = [request EXCEPT ![r].at = "checked", ![r].phone = phone]
    /\ rivals' = rivals \cup Met(r, request[r].customer, {phone})
    /\ UNCHANGED <<codes, customers, guesses, overlapped, given>>

\* ... and saves the row as it was read, but for what was given.
SaveProfile(r) ==
    /\ request[r].at \in Editing
    /\ customers' = [customers EXCEPT ![request[r].customer] =
                        [phone |-> request[r].phone, email |-> request[r].email]]
    /\ Ends(r)
    /\ UNCHANGED <<codes, guesses, overlapped, rivals, given>>

\* The back office compares what it gives with administrators' accounts only.
OfficeEdits(r, c, phone, email) ==
    /\ request[r] = Idle
    /\ request' = [request EXCEPT ![r] = [Idle EXCEPT !.at = "checked", !.customer = c,
                                          !.phone = phone, !.email = email]]
    /\ rivals' = rivals \cup Met(r, c, {phone, email})
    /\ given' = given \cup ({phone, email} \cap Besides(c))
    /\ UNCHANGED <<codes, customers, guesses, overlapped>>

OfficeDeletes(c) ==
    /\ customers' = [customers EXCEPT ![c] = [phone |-> NoEntry, email |-> NoEntry]]
    /\ UNCHANGED <<codes, request, guesses, overlapped, rivals, given>>

\* The process dies between two queries.
RequestDies(r) ==
    /\ request[r].at # "idle"
    /\ Ends(r)
    /\ UNCHANGED <<codes, guesses, overlapped, customerVars>>
-----------------------------------------------------------------------------
CodesNext ==
    \/ \E r \in Requests :
        \/ \E phone \in Phones, email \in Emails, purpose \in Purposes :
              \/ RequestCode(r, phone, email, purpose)
              \/ ReadCode(r, phone, email, purpose)
        \/ CreateCode(r)
        \/ GuessWrong(r)
        \/ GuessRight(r)
        \/ SignIn(r)
        \/ FindNumberFree(r)
        \/ FindAddressFree(r)
        \/ RefuseTaken(r)
        \/ CreateCustomer(r)
        \/ \E c \in DOMAIN customers : ReadProfile(r, c)
        \/ \E email \in Emails \cup {NoEntry} : GiveAddress(r, email)
        \/ \E phone \in Phones \cup {NoEntry} : GiveNumber(r, phone)
        \/ \E c \in DOMAIN customers, phone \in Phones \cup {NoEntry},
              email \in Emails \cup {NoEntry} : OfficeEdits(r, c, phone, email)
        \/ SaveProfile(r)
        \/ RequestDies(r)
    \/ \E c \in Sent : CodeAges(c)
    \/ \E c \in DOMAIN customers : OfficeDeletes(c)

CodesSpec == CodesInit /\ [][CodesNext]_codeVars
-----------------------------------------------------------------------------
(* Properties.                                                             *)

\* Nothing in the database keeps a number or an address from having two accounts.  It
\* happens only when two requests under way at the same time were about to write it for
\* different accounts, each having found it free or read it in its own, or when the back
\* office, which does not look, gave it to one account while another had it: never because
\* a code was sent, or an older code presented, before the first account was created.
OneCustomerPerEntry == \A a, b \in DOMAIN customers :
    a # b => Entries(customers[a]) \cap Entries(customers[b]) \subseteq rivals \cup given

\* A code is compared with no more than the allowed number of guesses, unless two
\* requests read it at the same time: each then writes back the count it read.
GuessesBounded == \A c \in Sent : guesses[c] <= Tries \/ c \in overlapped
=============================================================================
