-------------------------------- MODULE Store --------------------------------
(***************************************************************************)
(* A vendor's store between its registration and its customers:            *)
(* vendors/actions/workspace.py (profile, operating switches, the review   *)
(* of the stock), vendors/actions/admin.py (status and documents),         *)
(* vendors/actions/vendor_profile.py, vendors/actions/stores.py and        *)
(* products/actions/inventory.py (stock), and the closing job of           *)
(* notifications/scheduled_tasks.py.                                       *)
(*                                                                         *)
(* The stock is represented by a version that every committed change       *)
(* raises.  A change carries the time at which its transaction saved the   *)
(* product, which may be long before the commit others see it by.          *)
(***************************************************************************)
EXTENDS Integers, FiniteSets, FiniteSetsExt

CONSTANTS
    Edits,          \* transactions that change the stock
    Documents,      \* documents of the vendor
    Statuses,       \* statuses the platform uses
    MaxTime         \* bound on the moments at which something is saved

VendorStatuses == {"pending", "approved", "rejected", "hold", "suspended", "in_review",
                   "pending_details", "pending_documents", "invalid_details",
                   "invalid_documents"}

ASSUME StoreAssumption ==
    /\ Statuses \subseteq VendorStatuses
    /\ MaxTime \in Nat \ {0}

VARIABLES
    store,      \* Vendor row, and its user's force_password_change
    shelf,      \* products: version, updated_at
    clock,      \* now
    edit,       \* saved and not yet committed changes of the stock
    screen,     \* the inventory the vendor's app shows, and whether a change that was
                \* saved before has been committed since
    review,     \* stock_reviewed_at with the version that was confirmed, and the same
    closing,    \* what the closing job has read
    document,   \* VendorDocument rows
    audit       \* who switched the store last, of the audit log

storeVars == <<store, shelf, clock, edit, screen, review, closing, document, audit>>

stock == <<shelf, edit>>
-----------------------------------------------------------------------------
Times == 0..MaxTime
Versions == 0..Cardinality(Edits)

StoreRows == [status : VendorStatuses, open : BOOLEAN, intake : BOOLEAN, mustChange : BOOLEAN,
              complete : BOOLEAN, needsReview : BOOLEAN, past : BOOLEAN]

NoScreen == [shown |-> FALSE, version |-> 0, updated |-> 0, at |-> 0, straddled |-> FALSE]
NoReview == [today |-> FALSE, version |-> 0, at |-> 0, straddled |-> FALSE]

DocumentRows == [status : {"none", "pending", "verified", "rejected"}, expired : BOOLEAN]

StoreTypeOK ==
    /\ store \in StoreRows
    /\ shelf \in [version : Versions, updated : Times]
    /\ clock \in Times
    /\ edit \in [Edits -> [state : {"none", "saved", "done"}, at : Times]]
    /\ screen \in [shown : BOOLEAN, version : Versions, updated : Times, at : Times,
                   straddled : BOOLEAN]
    /\ review \in [today : BOOLEAN, version : Versions, at : Times, straddled : BOOLEAN]
    /\ closing \in [on : BOOLEAN, past : BOOLEAN]
    /\ document \in [Documents -> DocumentRows]
    /\ audit \in {"nobody", "owner", "platform", "job"}

\* VendorRegistrationSerializer.create, or the back office's onboarding, which asks the
\* vendor to change the password: the switches are on from the start.
StoreInit ==
    /\ store \in [status : {"pending"}, open : {TRUE}, intake : {TRUE}, mustChange : BOOLEAN,
                  complete : BOOLEAN, needsReview : {FALSE}, past : {FALSE}]
    /\ shelf = [version |-> 0, updated |-> 0]
    /\ clock = 0
    /\ edit = [e \in Edits |-> [state |-> "none", at |-> 0]]
    /\ screen = NoScreen
    /\ review = NoReview
    /\ closing = [on |-> FALSE, past |-> FALSE]
    /\ document = [d \in Documents |-> [status |-> "none", expired |-> FALSE]]
    /\ audit = "nobody"

Tick == /\ clock < MaxTime
        /\ clock' = clock + 1
-----------------------------------------------------------------------------
(* The platform.                                                           *)

\* UpdateVendorStatusAction: any status, whatever it was and whatever the documents say,
\* and the switches stay as they are.
UpdateVendorStatus(status) ==
    /\ store.status # status
    /\ store' = [store EXCEPT !.status = status]
    /\ UNCHANGED <<stock, clock, screen, review, closing, document, audit>>

\* UpdateAdminVendorProfileAction, the row being locked: profile, switches and whether the
\* stock is to be reviewed.
UpdateAdminVendorProfile(open, intake, complete, needsReview) ==
    /\ store' = [store EXCEPT !.open = open, !.intake = intake, !.complete = complete,
                              !.needsReview = needsReview]
    /\ audit' = IF <<open, intake>> = <<store.open, store.intake>> THEN audit ELSE "platform"
    /\ UNCHANGED <<stock, clock, screen, review, closing, document>>

\* VerifyVendorDocumentAction
VerifyVendorDocument(d, verdict) ==
    /\ document[d].status # "none"
    /\ verdict = "verified" => ~document[d].expired
    /\ document' = [document EXCEPT ![d].status = verdict]
    /\ UNCHANGED <<store, stock, clock, screen, review, closing, audit>>
-----------------------------------------------------------------------------
(* The vendor.                                                             *)

\* The password of the onboarding e-mail is replaced.
ChangeTemporaryPassword ==
    /\ store.mustChange
    /\ store' = [store EXCEPT !.mustChange = FALSE]
    /\ UNCHANGED <<stock, clock, screen, review, closing, document, audit>>

\* UpdateOwnerVendorProfileAction; an approved vendor also sets the hours.
UpdateOwnerVendorProfile(past) ==
    /\ store.status \in {"approved", "pending_details", "invalid_details"}
    /\ ~store.mustChange
    /\ past # store.past => store.status = "approved"
    /\ store' = [store EXCEPT !.complete = TRUE, !.past = past]
    /\ UNCHANGED <<stock, clock, screen, review, closing, document, audit>>

\* UploadOwnVendorDocumentAction
UploadDocument(d, expired) ==
    /\ store.status \in {"pending_documents", "invalid_documents"}
    /\ document[d].status = "none"
    /\ document' = [document EXCEPT ![d] = [status |-> "pending", expired |-> expired]]
    /\ UNCHANGED <<store, stock, clock, screen, review, closing, audit>>

\* The app loads the inventory's summary.
ShowInventory ==
    /\ Tick
    /\ screen' = [shown |-> TRUE, version |-> shelf.version, updated |-> shelf.updated,
                  at |-> clock + 1, straddled |-> FALSE]
    /\ UNCHANGED <<store, stock, review, closing, document, audit>>

\* Mutant of SameInventory: the review is of what the shop has now.
AnyInventory == TRUE

\* What the vendor confirms must be what the summary says now.
SameInventory == screen.updated = shelf.updated

\* ReviewVendorInventoryAction
ReviewInventory ==
    /\ store.status = "approved"
    /\ screen.shown
    /\ SameInventory
    /\ Tick
    /\ review' = [today |-> TRUE, version |-> screen.version, at |-> clock + 1,
                  straddled |-> screen.straddled]
    /\ UNCHANGED <<store, stock, screen, closing, document, audit>>

\* review_current: reviewed today, and nothing was saved after it.
ReviewCurrent == review.today /\ shelf.updated <= review.at

\* The blockers of GetVendorWorkspaceAction
Ready == /\ store.status = "approved"
         /\ ~store.mustChange
         /\ store.complete
         /\ store.needsReview => ReviewCurrent

\* UpdateVendorOperatingStateAction, the row being locked: closing needs no more than an
\* approved vendor, and the closing time may be moved along.
UpdateVendorOperatingState(open, intake, past) ==
    /\ store.status = "approved"
    /\ ~store.mustChange
    /\ (open # store.open /\ open) \/ (intake # store.intake /\ intake) => Ready
    /\ store' = [store EXCEPT !.open = open, !.intake = intake, !.past = past]
    /\ audit' = "owner"
    /\ UNCHANGED <<stock, clock, screen, review, closing, document>>
-----------------------------------------------------------------------------
(* The stock.                                                              *)

\* BulkUpdateStockAction, UpdateStockAction and DecreaseStockAction save a product with
\* the time of the save, in a transaction of their own or of a checkout ...
SaveStock(e) ==
    /\ edit[e].state = "none"
    /\ Tick
    /\ edit' = [edit EXCEPT ![e] = [state |-> "saved", at |-> clock + 1]]
    /\ UNCHANGED <<store, shelf, screen, review, closing, document, audit>>

\* ... which commits later.
CommitStock(e) ==
    /\ edit[e].state = "saved"
    /\ edit' = [edit EXCEPT ![e].state = "done"]
    /\ shelf' = [version |-> shelf.version + 1, updated |-> Max({shelf.updated, edit[e].at})]
    /\ screen' = [screen EXCEPT !.straddled = @ \/ edit[e].at < screen.at]
    /\ review' = [review EXCEPT !.straddled = @ \/ edit[e].at < review.at]
    /\ UNCHANGED <<store, clock, closing, document, audit>>
-----------------------------------------------------------------------------
(* The clock on the wall.                                                  *)

\* The closing time of the day passes, or the next day begins.
ClosingTimePasses ==
    /\ ~store.past
    /\ store' = [store EXCEPT !.past = TRUE]
    /\ UNCHANGED <<stock, clock, screen, review, closing, document, audit>>

NextDay ==
    /\ store' = [store EXCEPT !.past = FALSE]
    /\ review' = [review EXCEPT !.today = FALSE]
    /\ UNCHANGED <<stock, clock, screen, closing, document, audit>>

\* enforce_vendor_closing_times reads the open stores, with their closing times ...
ClosingJobReads ==
    /\ ~closing.on
    /\ store.status = "approved"
    /\ store.open
    /\ closing' = [on |-> TRUE, past |-> store.past]
    /\ UNCHANGED <<store, stock, clock, screen, review, document, audit>>

\* ... and closes those whose time had passed, one after the other.
ClosingJobCloses ==
    /\ closing.on
    /\ closing' = [on |-> FALSE, past |-> FALSE]
    /\ store' = IF closing.past THEN [store EXCEPT !.open = FALSE, !.intake = FALSE] ELSE store
    /\ audit' = IF closing.past THEN "job" ELSE audit
    /\ UNCHANGED <<stock, clock, screen, review, document>>
-----------------------------------------------------------------------------
StoreNext ==
    \/ \E status \in Statuses : UpdateVendorStatus(status)
    \/ \E open, intake, complete, needsReview \in BOOLEAN :
          UpdateAdminVendorProfile(open, intake, complete, needsReview)
    \/ \E d \in Documents :
          \/ \E verdict \in {"verified", "rejected"} : VerifyVendorDocument(d, verdict)
          \/ \E expired \in BOOLEAN : UploadDocument(d, expired)
    \/ ChangeTemporaryPassword
    \/ \E past \in BOOLEAN : UpdateOwnerVendorProfile(past)
    \/ ShowInventory
    \/ ReviewInventory
    \/ \E open, intake, past \in BOOLEAN : UpdateVendorOperatingState(open, intake, past)
    \/ \E e \in Edits : SaveStock(e) \/ CommitStock(e)
    \/ ClosingTimePasses
    \/ NextDay
    \/ ClosingJobReads
    \/ ClosingJobCloses

StoreSpec == StoreInit /\ [][StoreNext]_storeVars
-----------------------------------------------------------------------------
(* Properties.                                                             *)

\* A vendor whose stock is to be reviewed opens the store, or its order intake, with a
\* review of the very stock the store has then, whatever was sold or counted between the
\* screen, the review and the switch.  What the timestamps cannot show are the changes
\* that were saved before the screen was read, or the review recorded, and became visible
\* afterwards.
OpensReviewed == [][
    (store.needsReview /\ audit' = "owner" /\ \/ ~store.open /\ store'.open
                                              \/ ~store.intake /\ store'.intake)
        => review.today /\ (review.version = shelf.version \/ review.straddled)]_storeVars
=============================================================================
