------------------------------- MODULE Catalog -------------------------------
(***************************************************************************)
(* What a shop may sell: catalog items and grants, the proposals of new    *)
(* ones, and the review of a vendor's products.  products/actions/catalog  *)
(* (inheritance.py, proposals.py, review.py), products/actions/approval.py,*)
(* the image commands of products/actions/inventory.py and the back        *)
(* office's views (products/views/catalog_views.py, admin_views.py).       *)
(*                                                                         *)
(* The vendor's actions lock the product and re-read it; the review and    *)
(* the back office's editor do not.  What a customer can read on a product *)
(* (name, pictures, ingredients ...) is represented by a version, new with *)
(* every change, and so is what is shown of the catalog item with it, by   *)
(* default all the pictures (effective_images); prices, stock and the      *)
(* switches of a listing are left to Checkout.  One shop, one catalog      *)
(* item, one proposal.                                                     *)
(***************************************************************************)
EXTENDS Integers, FiniteSets

CONSTANTS
    Products,       \* rows of Product
    Reviewers,      \* members of the back office, with one screen each
    Items,          \* items of the proposal
    MaxContent,     \* bound on the versions
    NoProduct,
    NoItem

ASSUME CatalogAssumption ==
    /\ MaxContent \in Nat
    /\ NoProduct \notin Products
    /\ NoItem \notin Items

VARIABLES
    product,        \* Product rows
    edits,          \* versions used
    listing,        \* the pending product a reviewer looks at
    editor,         \* the row that the product editor of the back office has read
    offer,          \* CatalogProduct and VendorCatalogGrant
    proposal,       \* CatalogProposal.status
    proposed,       \* CatalogProposalItem rows
    deciding        \* decisions on items in progress

catalogVars == <<product, edits, listing, editor, offer, proposal, proposed, deciding>>

proposals == <<proposal, proposed, deciding>>
-----------------------------------------------------------------------------
Contents == 0..MaxContent
Decisions == {"approved", "rejected"}
ApprovalStatuses == {"draft", "pending_approval", "approved", "rejected"}

\* approval_status and content; and of the approval that stands: the versions of the
\* product and of the catalog item that the reviewer looked at, whether something else was
\* decided about the product since, and whether the item was changed since.
ProductRows == [approval : {"none", "deleted"} \cup ApprovalStatuses, content : Contents,
                seen : Contents, beside : Contents, overtaken : BOOLEAN, restyled : BOOLEAN]

Row(approval, content) == [approval |-> approval, content |-> content, seen |-> 0, beside |-> 0,
                           overtaken |-> FALSE, restyled |-> FALSE]

\* The screen of a reviewer
Listings == [product : Products \cup {NoProduct}, content : Contents, beside : Contents,
             overtaken : BOOLEAN, restyled : BOOLEAN]

NoListing == [product |-> NoProduct, content |-> 0, beside |-> 0, overtaken |-> FALSE,
              restyled |-> FALSE]
NoEditor == [product |-> NoProduct, row |-> Row("none", 0)]
NoDecision == [stage |-> "none", item |-> NoItem, verdict |-> "approved", outcome |-> "pending"]

CatalogTypeOK ==
    /\ product \in [Products -> ProductRows]
    /\ edits \in Contents
    /\ listing \in [Reviewers -> Listings]
    /\ editor \in [product : Products \cup {NoProduct}, row : ProductRows]
    /\ offer \in [exists : BOOLEAN, active : BOOLEAN, granted : BOOLEAN, content : Contents]
    /\ proposal \in {"none", "pending", "partially_approved"} \cup Decisions
    /\ proposed \in [Items -> [status : {"pending"} \cup Decisions, twice : BOOLEAN]]
    /\ deciding \in [Reviewers -> [stage : {"none", "read", "written"}, item : Items \cup {NoItem},
                                   verdict : Decisions,
                                   outcome : {"pending", "partially_approved"} \cup Decisions]]

CatalogInit ==
    /\ product = [p \in Products |-> Row("none", 0)]
    /\ edits = 0
    /\ listing = [a \in Reviewers |-> NoListing]
    /\ editor = NoEditor
    /\ offer = [exists |-> TRUE, active |-> TRUE, granted |-> FALSE, content |-> 0]
    /\ proposal = "none"
    /\ proposed = [i \in Items |-> [status |-> "pending", twice |-> FALSE]]
    /\ deciding = [a \in Reviewers |-> NoDecision]

Exists(p) == product[p].approval \in ApprovalStatuses

\* The row is saved with another content.
Edit(p, approval) ==
    /\ edits < MaxContent
    /\ edits' = edits + 1
    /\ product' = [product EXCEPT ![p] = Row(approval, edits + 1)]

\* Everybody who looks at p has been overtaken.
Overtake(p) == listing' = [a \in Reviewers |-> IF listing[a].product = p
                                               THEN [listing[a] EXCEPT !.overtaken = TRUE]
                                               ELSE listing[a]]
-----------------------------------------------------------------------------
(* The vendor.                                                             *)

Offered == offer.exists /\ offer.active /\ offer.granted

\* CreateVendorProductFromCatalogAction, for itself or in a batch of drafts
CreateFromCatalog(p) ==
    /\ product[p].approval = "none"
    /\ Offered
    /\ Edit(p, "draft")
    /\ UNCHANGED <<listing, editor, offer, proposals>>

\* DuplicateInheritedProductAction, whatever the state of the original
Duplicate(p, from) ==
    /\ product[p].approval = "none"
    /\ Exists(from)
    /\ product' = [product EXCEPT ![p] = Row("draft", product[from].content)]
    /\ UNCHANGED <<edits, listing, editor, offer, proposals>>

Unsubmitted(p) == product[p].approval \in {"draft", "rejected"}

\* UpdateInheritedProductDraftAction
UpdateDraft(p) ==
    /\ Unsubmitted(p)
    /\ Edit(p, "draft")
    /\ UNCHANGED <<listing, editor, offer, proposals>>

\* SubmitInheritedProductBatchAction: all of them or, when one is incomplete or twice in
\* the shop, none.
Submit(batch) ==
    /\ batch # {}
    /\ \A p \in batch : Unsubmitted(p)
    /\ Offered
    /\ product' = [p \in Products |-> IF p \in batch
                                      THEN Row("pending_approval", product[p].content)
                                      ELSE product[p]]
    /\ UNCHANGED <<edits, listing, editor, offer, proposals>>

\* mark_requires_review: what has been reviewed is reviewed again.
AfterChange(approval) == IF approval = "draft" THEN "draft" ELSE "pending_approval"

\* Mutant of Changeable: details may be corrected while they wait for the review.
ChangeableAnytime(p) == Exists(p)

\* Details of a product that is waiting for its review are locked.
Changeable(p) == Exists(p) /\ product[p].approval # "pending_approval"

\* UpdateVendorProductAction with a change of a crucial field; the others are free.
UpdateVendorProduct(p) ==
    /\ Changeable(p)
    /\ Edit(p, AfterChange(product[p].approval))
    /\ UNCHANGED <<listing, editor, offer, proposals>>

\* ProductImageCommandAction: a picture more, one less, or another one first.
ChangeImages(p) ==
    /\ Changeable(p)
    /\ Edit(p, AfterChange(product[p].approval))
    /\ UNCHANGED <<listing, editor, offer, proposals>>

\* DeleteVendorProductAction, or the back office; what has been ordered is protected.
DeleteProduct(p) ==
    /\ Exists(p)
    /\ product' = [product EXCEPT ![p] = Row("deleted", 0)]
    /\ UNCHANGED <<edits, listing, editor, offer, proposals>>
-----------------------------------------------------------------------------
(* The back office and the products.                                       *)

\* AdminPendingVendorProductListView
ShowPending(a, p) ==
    /\ product[p].approval = "pending_approval"
    /\ listing' = [listing EXCEPT ![a] = [product |-> p, content |-> product[p].content,
                                          beside |-> offer.content,
                                          overtaken |-> FALSE, restyled |-> FALSE]]
    /\ UNCHANGED <<product, edits, editor, offer, proposals>>

\* ReviewVendorProductAction.approve: whatever the product's status is by now.
Approve(a) ==
    LET p == listing[a].product IN
    /\ p # NoProduct
    /\ Exists(p)
    /\ product' = [product EXCEPT ![p] = [@ EXCEPT !.approval = "approved",
                                                   !.seen = listing[a].content,
                                                   !.beside = listing[a].beside,
                                                   !.overtaken = listing[a].overtaken,
                                                   !.restyled = listing[a].restyled]]
    /\ Overtake(p)
    /\ UNCHANGED <<edits, editor, offer, proposals>>

\* ReviewVendorProductAction.reject
Reject(a) ==
    LET p == listing[a].product IN
    /\ p # NoProduct
    /\ Exists(p)
    /\ product' = [product EXCEPT ![p] = Row("rejected", product[p].content)]
    /\ Overtake(p)
    /\ UNCHANGED <<edits, editor, offer, proposals>>

\* AdminProductViewSet.update reads a product ...
EditorReads(p) ==
    /\ Exists(p)
    /\ editor = NoEditor
    /\ editor' = [product |-> p, row |-> product[p]]
    /\ UNCHANGED <<product, edits, listing, offer, proposals>>

\* ... and saves the whole row, which puts back the status it had, or the row.
EditorSaves ==
    LET p == editor.product IN
    /\ p # NoProduct
    /\ Exists(p) \/ offer.exists
    /\ edits < MaxContent
    /\ edits' = edits + 1
    /\ product' = [product EXCEPT ![p] = [editor.row EXCEPT !.content = edits + 1,
                                                            !.overtaken = TRUE]]
    /\ editor' = NoEditor
    /\ Overtake(p)
    /\ UNCHANGED <<offer, proposals>>
-----------------------------------------------------------------------------
(* The back office and the catalog.                                        *)

\* AdminCatalogProductDetailView.patch of the switch alone, ...
SetActive(active) ==
    /\ offer.exists
    /\ offer.active # active
    /\ offer' = [offer EXCEPT !.active = active]
    /\ UNCHANGED <<product, edits, listing, editor, proposals>>

\* ... and of what is shown of the item, as a picture more or less by
\* AdminCatalogProductImagesView and AdminCatalogProductImageDetailView: its products are
\* neither changed nor reviewed again.
ChangeItem(active) ==
    /\ offer.exists
    /\ edits < MaxContent
    /\ edits' = edits + 1
    /\ offer' = [offer EXCEPT !.active = active, !.content = edits + 1]
    /\ product' = [p \in Products |-> [product[p] EXCEPT !.restyled = @ \/ product[p].approval = "approved"]]
    /\ listing' = [a \in Reviewers |-> [listing[a] EXCEPT !.restyled = listing[a].product # NoProduct]]
    /\ UNCHANGED <<editor, proposals>>

\* AdminCatalogProductGrantVendorView
Grant ==
    /\ offer.exists
    /\ ~offer.granted
    /\ offer' = [offer EXCEPT !.granted = TRUE]
    /\ UNCHANGED <<product, edits, listing, editor, proposals>>

\* AdminCatalogProductDetailView.delete: an item that products refer to is protected.
DeleteCatalogProduct ==
    /\ offer.exists
    /\ \A p \in Products : ~Exists(p)
    /\ offer' = [offer EXCEPT !.exists = FALSE, !.active = FALSE, !.granted = FALSE]
    /\ UNCHANGED <<product, edits, listing, editor, proposals>>

\* CreateCatalogProposalAction
CreateProposal ==
    /\ proposal = "none"
    /\ proposal' = "pending"
    /\ UNCHANGED <<product, edits, listing, editor, offer, proposed, deciding>>

\* ApproveCatalogProposalItemAction and RejectCatalogProposalItemAction look at the item
\* before their transaction begins ...
DecideReads(a, i, verdict) ==
    /\ deciding[a] = NoDecision
    /\ proposal # "none"
    /\ proposed[i].status = "pending"
    /\ deciding' = [deciding EXCEPT ![a] = [stage |-> "read", item |-> i, verdict |-> verdict,
                                            outcome |-> "pending"]]
    /\ UNCHANGED <<product, edits, listing, editor, offer, proposal, proposed>>

\* refresh_proposal
Outcome(status) ==
    IF \A i \in Items : status[i] = "approved" THEN "approved"
    ELSE IF \A i \in Items : status[i] = "rejected" THEN "rejected"
    ELSE IF \E i \in Items : status[i] \in Decisions THEN "partially_approved"
    ELSE "pending"

\* ... lock it by writing it, and read the others as they have been committed ...
DecideWrites(a) ==
    LET i == deciding[a].item IN
    /\ deciding[a].stage = "read"
    /\ \A b \in Reviewers : ~(deciding[b].stage = "written" /\ deciding[b].item = i)
    /\ deciding' = [deciding EXCEPT
          ![a].stage = "written",
          ![a].outcome = Outcome([j \in Items |-> IF j = i THEN deciding[a].verdict
                                                  ELSE proposed[j].status])]
    /\ UNCHANGED <<product, edits, listing, editor, offer, proposal, proposed>>

\* ... and commit the item, its grant and the proposal.  An approval takes a catalog item
\* that exists, here the shop's, or a new one.
DecideCommits(a, existing) ==
    LET i == deciding[a].item IN
    /\ deciding[a].stage = "written"
    /\ existing => deciding[a].verdict = "approved" /\ offer.exists
    /\ proposed' = [proposed EXCEPT ![i] = [status |-> deciding[a].verdict,
                                            twice |-> @.status # "pending"]]
    /\ proposal' = deciding[a].outcome
    /\ offer' = [offer EXCEPT !.granted = @ \/ existing]
    /\ deciding' = [deciding EXCEPT ![a] = NoDecision]
    /\ UNCHANGED <<product, edits, listing, editor>>

\* The request dies and its transaction is rolled back.
DecideDies(a) ==
    /\ deciding[a] # NoDecision
    /\ deciding' = [deciding EXCEPT ![a] = NoDecision]
    /\ UNCHANGED <<product, edits, listing, editor, offer, proposal, proposed>>
-----------------------------------------------------------------------------
VendorStep ==
    \/ \E p \in Products :
          \/ CreateFromCatalog(p)
          \/ \E from \in Products : Duplicate(p, from)
          \/ UpdateDraft(p)
          \/ UpdateVendorProduct(p)
          \/ ChangeImages(p)
          \/ DeleteProduct(p)
    \/ \E batch \in SUBSET Products : Submit(batch)

ReviewStep ==
    \E a \in Reviewers :
       \/ \E p \in Products : ShowPending(a, p)
       \/ Approve(a)
       \/ Reject(a)

EditorStep ==
    \/ \E p \in Products : EditorReads(p)
    \/ EditorSaves

OfferStep ==
    \/ \E active \in BOOLEAN : SetActive(active) \/ ChangeItem(active)
    \/ Grant
    \/ DeleteCatalogProduct

ProposalStep ==
    \/ CreateProposal
    \/ \E a \in Reviewers :
          \/ \E i \in Items, verdict \in Decisions : DecideReads(a, i, verdict)
          \/ DecideWrites(a)
          \/ \E existing \in BOOLEAN : DecideCommits(a, existing)
          \/ DecideDies(a)

CatalogNext == VendorStep \/ ReviewStep \/ EditorStep \/ OfferStep \/ ProposalStep

CatalogSpec == CatalogInit /\ [][CatalogNext]_catalogVars
-----------------------------------------------------------------------------
(* Properties.                                                             *)

\* What customers read of an approved product is what its reviewer looked at, however the
\* vendor's edits, pictures, submissions and the reviews interleave, unless the review had
\* been overtaken: the product was decided on by somebody else after the reviewer's list
\* was loaded, or the back office edited it itself.  What they read of the catalog item
\* beside it, by default all the pictures, is what the reviewer looked at unless the back
\* office has changed the item since that list was loaded.  None of these is refused, and
\* no product is reviewed again for them.
CustomersSeeReviewed ==
    \A p \in Products : product[p].approval = "approved" /\ ~product[p].overtaken =>
        /\ product[p].content = product[p].seen
        /\ product[p].restyled \/ product[p].beside = offer.content

\* A proposal says that it is approved, or rejected, only when all of its items are, and
\* that it is pending only as long as none is decided on, whatever decisions are made at
\* once; unless an item was decided on twice, which two reviewers can.
ProposalAgrees ==
    (\A i \in Items : ~proposed[i].twice) =>
        /\ \A d \in Decisions : proposal = d => \A i \in Items : proposed[i].status = d
        /\ proposal \in {"none", "pending"} => \A i \in Items : proposed[i].status = "pending"

\* What the back office has decided is what the shop, and the vendor who proposed, see.
CatalogReviewed == CustomersSeeReviewed /\ ProposalAgrees
=============================================================================
