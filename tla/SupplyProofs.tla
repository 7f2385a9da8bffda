---------------------------- MODULE SupplyProofs -----------------------------
(***************************************************************************)
(* Theorems about Catalog, for any products, reviewers and items, about    *)
(* Nodes, for any finite set of orders and any bound, about Quotes, for    *)
(* any fees, baskets, coupons and places, about Storefront, for any        *)
(* stores, products, nodes, sites, hours and moments, and about            *)
(* Suggestions, for any lists, orders and answers of the ranking service.  *)
(***************************************************************************)
EXTENDS Catalog, Nodes, Quotes, Storefront, Suggestions, SumTheorems, SequenceTheorems, TLAPS

-----------------------------------------------------------------------------
(***************************************************************************)
(* Catalog: what is for sale and what was reviewed.                        *)
(***************************************************************************)

\* A product that a reviewer looks at still waits for the review, as it was listed, or has
\* been deleted; unless the reviewer has been overtaken.
ListingCurrent ==
    \A a \in Reviewers :
        LET p == listing[a].product IN
        p # NoProduct /\ ~listing[a].overtaken =>
            \/ product[p].approval = "deleted"
            \/ product[p].approval = "pending_approval" /\ product[p].content = listing[a].content

\* What customers read of the product itself.
ProductReviewed ==
    \A p \in Products : product[p].approval = "approved" /\ ~product[p].overtaken
                            => product[p].content = product[p].seen

ReviewInv == ListingCurrent /\ ProductReviewed

\* The catalog item is what a reviewer looks at, and what was looked at when a product was
\* approved, unless it has been changed since.
ItemInv ==
    /\ \A a \in Reviewers : listing[a].product # NoProduct /\ ~listing[a].restyled
                               => listing[a].beside = offer.content
    /\ \A p \in Products : product[p].approval = "approved" /\ ~product[p].overtaken =>
          product[p].restyled \/ product[p].beside = offer.content

SomeTwice == \E i \in Items : proposed[i].twice

TwiceIsDecided == \A i \in Items : proposed[i].twice => proposed[i].status # "pending"

\* What a decision is about to make of the proposal.
DecisionsKnown ==
    \A a \in Reviewers :
        /\ deciding[a].stage # "none" => proposal # "none" /\ deciding[a].item \in Items
        /\ deciding[a].stage = "written" =>
              /\ deciding[a].outcome # "pending"
              /\ deciding[a].outcome \in Decisions =>
                    /\ deciding[a].verdict = deciding[a].outcome
                    /\ \/ SomeTwice
                       \/ \A j \in Items \ {deciding[a].item} :
                             proposed[j].status = deciding[a].outcome

ProposalInv == TwiceIsDecided /\ DecisionsKnown /\ ProposalAgrees

\* CustomersSeeReviewed needs what the reviewers' lists still say, and ProposalAgrees what
\* the decisions in progress have computed.
IInv == CatalogTypeOK /\ ReviewInv /\ ProposalInv

\* The columns of a product, a listing and a decision.
LEMMA Columns ==
    ASSUME CatalogTypeOK
    PROVE  /\ \A p \in Products : /\ product[p] \in ProductRows
                                  /\ product[p].content \in Contents
                                  /\ product[p].overtaken \in BOOLEAN
           /\ \A a \in Reviewers : /\ listing[a].product \in Products \cup {NoProduct}
                                   /\ listing[a].content \in Contents
                                   /\ listing[a].beside \in Contents
                                   /\ listing[a].overtaken \in BOOLEAN
                                   /\ listing[a].restyled \in BOOLEAN
BY DEF CatalogTypeOK, ProductRows, Listings

LEMMA RowType ==
    ASSUME NEW s \in {"none", "deleted"} \cup ApprovalStatuses, NEW c \in Contents
    PROVE  /\ Row(s, c) \in ProductRows
           /\ Row(s, c).approval = s /\ Row(s, c).content = c /\ ~Row(s, c).overtaken
BY CatalogAssumption DEF Row, ProductRows, Contents

LEMMA InitInv == CatalogInit => IInv
<1> SUFFICES ASSUME CatalogInit PROVE IInv
  OBVIOUS
<1>1. 0 \in Contents
  BY CatalogAssumption DEF Contents
<1>2. Row("none", 0) \in ProductRows /\ Row("none", 0).approval = "none"
  BY <1>1, RowType
<1>3. CatalogTypeOK
  BY <1>1, <1>2 DEF CatalogInit, CatalogTypeOK, Listings, NoListing, NoEditor, NoDecision, Decisions
<1>4. ReviewInv
  BY <1>2 DEF CatalogInit, ReviewInv, ListingCurrent, ProductReviewed, NoListing
<1>5. ProposalInv
  BY DEF CatalogInit, ProposalInv, TwiceIsDecided, DecisionsKnown, ProposalAgrees, NoDecision, Decisions
<1> QED  BY <1>3, <1>4, <1>5 DEF IInv

-----------------------------------------------------------------------------
\* Saving a row that is not approved, or that the back office has overtaken, for a product
\* that does not wait for a review.
LEMMA SaveKept ==
    ASSUME IInv, NEW p \in Products, NEW r \in ProductRows,
           product' = [product EXCEPT ![p] = r], UNCHANGED <<listing, proposals>>,
           r.approval # "approved",
           \/ product[p].approval \notin {"pending_approval", "deleted"}
           \/ r.approval = "deleted"
    PROVE  ReviewInv' /\ ProposalInv'
<1> USE DEF IInv
<1>1. ListingCurrent'
  <2> SUFFICES ASSUME NEW a \in Reviewers, listing[a].product # NoProduct,
                      ~listing[a].overtaken
               PROVE  LET q == listing[a].product IN
                      \/ product'[q].approval = "deleted"
                      \/ /\ product'[q].approval = "pending_approval"
                         /\ product'[q].content = listing[a].content
    BY DEF ListingCurrent
  <2> DEFINE q == listing[a].product
  <2>1. q \in Products
    BY Columns
  <2>2. \/ product[q].approval = "deleted"
        \/ product[q].approval = "pending_approval" /\ product[q].content = listing[a].content
    BY DEF ReviewInv, ListingCurrent
  <2>3. CASE q = p
    BY <2>1, <2>2, <2>3 DEF CatalogTypeOK
  <2>4. CASE q # p
    BY <2>1, <2>2, <2>4 DEF CatalogTypeOK
  <2> QED  BY <2>3, <2>4
<1>2. ProductReviewed'
  <2> SUFFICES ASSUME NEW q \in Products, product'[q].approval = "approved",
                      ~product'[q].overtaken
               PROVE  product'[q].content = product'[q].seen
    BY DEF ProductReviewed
  <2>1. q # p /\ product'[q] = product[q]
    BY DEF CatalogTypeOK
  <2> QED  BY <2>1 DEF ReviewInv, ProductReviewed
<1>3. ProposalInv'
  BY DEF ProposalInv, TwiceIsDecided, DecisionsKnown, SomeTwice, ProposalAgrees, proposals
<1> QED  BY <1>1, <1>2, <1>3 DEF ReviewInv

LEMMA EditKept ==
    ASSUME IInv, NEW p \in Products, NEW s \in ApprovalStatuses, Edit(p, s),
           UNCHANGED <<listing, editor, offer, proposals>>,
           s # "approved", product[p].approval \notin {"pending_approval", "deleted"}
    PROVE  IInv'
<1>1. edits \in Nat /\ edits + 1 \in Contents
  BY CatalogAssumption DEF IInv, CatalogTypeOK, Edit, Contents
<1>2. /\ Row(s, edits + 1) \in ProductRows
      /\ Row(s, edits + 1).approval = s
  BY <1>1, RowType
<1>3. product' = [product EXCEPT ![p] = Row(s, edits + 1)] /\ edits' = edits + 1
  BY DEF Edit
<1>4. CatalogTypeOK'
  BY <1>1, <1>2, <1>3 DEF IInv, CatalogTypeOK, proposals
<1>5. ReviewInv' /\ ProposalInv'
  BY <1>2, <1>3, SaveKept
<1> QED  BY <1>4, <1>5 DEF IInv

\* The vendor's commands on one product.
LEMMA VendorKept == ASSUME IInv, NEW p \in Products,
                           \/ CreateFromCatalog(p)
                           \/ \E from \in Products : Duplicate(p, from)
                           \/ UpdateDraft(p)
                           \/ UpdateVendorProduct(p)
                           \/ ChangeImages(p)
                           \/ DeleteProduct(p)
                    PROVE  IInv'
<1>1. CASE CreateFromCatalog(p)
  BY <1>1, EditKept DEF CreateFromCatalog, ApprovalStatuses
<1>2. CASE UpdateDraft(p)
  BY <1>2, EditKept DEF UpdateDraft, Unsubmitted, ApprovalStatuses
<1>3. CASE UpdateVendorProduct(p) \/ ChangeImages(p)
  <2>1. AfterChange(product[p].approval) \in ApprovalStatuses \ {"approved"}
    BY DEF AfterChange, ApprovalStatuses
  <2>2. product[p].approval \notin {"pending_approval", "deleted"}
    BY <1>3 DEF UpdateVendorProduct, ChangeImages, Changeable, Exists, ApprovalStatuses
  <2> QED  BY <1>3, <2>1, <2>2, EditKept DEF UpdateVendorProduct, ChangeImages
<1>4. ASSUME NEW from \in Products, Duplicate(p, from)
      PROVE  IInv'
  <2>1. /\ Row("draft", product[from].content) \in ProductRows
        /\ Row("draft", product[from].content).approval = "draft"
    BY Columns, RowType DEF IInv, ApprovalStatuses
  <2>2. CatalogTypeOK'
    BY <1>4, <2>1 DEF Duplicate, IInv, CatalogTypeOK, proposals
  <2>3. ReviewInv' /\ ProposalInv'
    BY <1>4, <2>1, SaveKept DEF Duplicate
  <2> QED  BY <2>2, <2>3 DEF IInv
<1>5. CASE DeleteProduct(p)
  <2>1. Row("deleted", 0) \in ProductRows /\ Row("deleted", 0).approval = "deleted"
    BY CatalogAssumption, RowType DEF Contents
  <2>2. CatalogTypeOK'
    BY <1>5, <2>1 DEF DeleteProduct, IInv, CatalogTypeOK, proposals
  <2>3. ReviewInv' /\ ProposalInv'
    BY <1>5, <2>1, SaveKept DEF DeleteProduct
  <2> QED  BY <2>2, <2>3 DEF IInv
<1> QED  BY <1>1, <1>2, <1>3, <1>4, <1>5

LEMMA SubmitKept == ASSUME IInv, NEW batch \in SUBSET Products, Submit(batch)
                    PROVE  IInv'
<1> DEFINE submitted(q) == Row("pending_approval", product[q].content)
<1>1. \A q \in Products : /\ submitted(q) \in ProductRows
                          /\ submitted(q).approval = "pending_approval"
  BY Columns, RowType DEF IInv, ApprovalStatuses
<1>2. \A q \in Products : product'[q] = IF q \in batch THEN submitted(q) ELSE product[q]
  BY DEF Submit
<1>3. CatalogTypeOK'
  <2>1. product' \in [Products -> ProductRows]
    BY <1>1, Columns DEF Submit, IInv, CatalogTypeOK
  <2> QED  BY <2>1 DEF Submit, IInv, CatalogTypeOK, proposals
<1> HIDE DEF submitted
<1>4. \A q \in batch : product[q].approval \in {"draft", "rejected"}
  BY DEF Submit, Unsubmitted
<1>5. ListingCurrent'
  <2> SUFFICES ASSUME NEW a \in Reviewers, listing[a].product # NoProduct,
                      ~listing[a].overtaken
               PROVE  LET q == listing[a].product IN
                      \/ product'[q].approval = "deleted"
                      \/ /\ product'[q].approval = "pending_approval"
                         /\ product'[q].content = listing[a].content
    BY DEF ListingCurrent, Submit
  <2>1. listing[a].product \in Products
    BY Columns DEF IInv
  <2>2. LET q == listing[a].product IN
        \/ product[q].approval = "deleted"
        \/ product[q].approval = "pending_approval" /\ product[q].content = listing[a].content
    BY DEF IInv, ReviewInv, ListingCurrent
  <2>3. listing[a].product \notin batch
    BY <1>4, <2>2
  <2> QED  BY <1>2, <2>1, <2>2, <2>3
<1>6. ProductReviewed'
  BY <1>1, <1>2 DEF IInv, ReviewInv, ProductReviewed
<1>7. ProposalInv'
  BY DEF Submit, IInv, ProposalInv, TwiceIsDecided, DecisionsKnown, SomeTwice, ProposalAgrees, proposals
<1> QED  BY <1>3, <1>5, <1>6, <1>7 DEF IInv, ReviewInv
-----------------------------------------------------------------------------
\* Saving any row, when those who look at the product are overtaken and the row is not
\* approved unseen.
LEMMA DecideKept ==
    ASSUME IInv, NEW p \in Products, NEW r \in ProductRows,
           product' = [product EXCEPT ![p] = r], Overtake(p), UNCHANGED proposals,
           r.approval = "approved" /\ ~r.overtaken => r.content = r.seen
    PROVE  /\ listing' \in [Reviewers -> Listings]
           /\ ReviewInv' /\ ProposalInv'
<1> USE DEF IInv
<1>1. \A a \in Reviewers :
         listing'[a] = IF listing[a].product = p THEN [listing[a] EXCEPT !.overtaken = TRUE]
                       ELSE listing[a]
  BY DEF Overtake
<1>2. listing' \in [Reviewers -> Listings]
  <2>1. ASSUME NEW a \in Reviewers
        PROVE  listing'[a] \in Listings
    BY <1>1 DEF CatalogTypeOK, Listings
  <2>2. listing' = [a \in Reviewers |-> listing'[a]]
    BY DEF Overtake
  <2> QED  BY <2>1, <2>2
<1>3. ListingCurrent'
  <2> SUFFICES ASSUME NEW a \in Reviewers, listing'[a].product # NoProduct,
                      ~listing'[a].overtaken
               PROVE  LET q == listing'[a].product IN
                      \/ product'[q].approval = "deleted"
                      \/ /\ product'[q].approval = "pending_approval"
                         /\ product'[q].content = listing'[a].content
    BY DEF ListingCurrent
  <2>1. listing'[a] = listing[a] /\ listing[a].product # p
    BY <1>1 DEF CatalogTypeOK, Listings
  <2>2. listing[a].product \in Products
    BY <2>1, Columns
  <2>3. product'[listing[a].product] = product[listing[a].product]
    BY <2>1, <2>2 DEF CatalogTypeOK
  <2> QED  BY <2>1, <2>3 DEF ReviewInv, ListingCurrent
<1>4. ProductReviewed'
  <2> SUFFICES ASSUME NEW q \in Products, product'[q].approval = "approved",
                      ~product'[q].overtaken
               PROVE  product'[q].content = product'[q].seen
    BY DEF ProductReviewed
  <2>1. CASE q = p
    BY <2>1 DEF CatalogTypeOK
  <2>2. CASE q # p
    BY <2>2 DEF CatalogTypeOK, ReviewInv, ProductReviewed
  <2> QED  BY <2>1, <2>2
<1>5. ProposalInv'
  BY DEF ProposalInv, TwiceIsDecided, DecisionsKnown, SomeTwice, ProposalAgrees, proposals
<1> QED  BY <1>2, <1>3, <1>4, <1>5 DEF ReviewInv

LEMMA ShowKept == ASSUME IInv, NEW a \in Reviewers, NEW p \in Products, ShowPending(a, p)
                  PROVE  IInv'
<1> DEFINE seen == [product |-> p, content |-> product[p].content, beside |-> offer.content,
                    overtaken |-> FALSE, restyled |-> FALSE]
<1>1. listing' = [listing EXCEPT ![a] = seen] /\ product[p].approval = "pending_approval"
  BY DEF ShowPending
<1>2. seen \in Listings
  BY Columns DEF IInv, CatalogTypeOK, Listings
<1>3. CatalogTypeOK'
  BY <1>1, <1>2 DEF ShowPending, IInv, CatalogTypeOK, proposals
<1>4. ListingCurrent'
  <2>1. \A b \in Reviewers : listing'[b] = IF b = a THEN seen ELSE listing[b]
    BY <1>1 DEF IInv, CatalogTypeOK
  <2>2. product' = product
    BY DEF ShowPending
  <2> QED  BY <1>1, <2>1, <2>2 DEF IInv, ReviewInv, ListingCurrent
<1>5. ProductReviewed' /\ ProposalInv'
  BY DEF ShowPending, IInv, ReviewInv, ProductReviewed, ProposalInv, TwiceIsDecided, DecisionsKnown,
         SomeTwice, ProposalAgrees, proposals
<1> QED  BY <1>3, <1>4, <1>5 DEF IInv, ReviewInv

LEMMA ApproveKept == ASSUME IInv, NEW a \in Reviewers, Approve(a)
                     PROVE  IInv'
<1> DEFINE p == listing[a].product
           r == [product[p] EXCEPT !.approval = "approved", !.seen = listing[a].content,
                                   !.beside = listing[a].beside,
                                   !.overtaken = listing[a].overtaken,
                                   !.restyled = listing[a].restyled]
<1>1. /\ p \in Products /\ Exists(p)
      /\ product' = [product EXCEPT ![p] = r] /\ Overtake(p)
      /\ UNCHANGED <<edits, editor, offer, proposals>>
  BY Columns DEF Approve, IInv
<1>2. /\ r \in ProductRows /\ r.content = product[p].content
      /\ r.seen = listing[a].content /\ r.overtaken = listing[a].overtaken
  BY <1>1, Columns DEF IInv, ProductRows, ApprovalStatuses
<1>3. ~r.overtaken => r.content = r.seen
  BY <1>1, <1>2, CatalogAssumption
     DEF IInv, ReviewInv, ListingCurrent, Exists, ApprovalStatuses
<1> HIDE DEF r, p
<1>4. /\ listing' \in [Reviewers -> Listings]
      /\ ReviewInv' /\ ProposalInv'
  BY <1>1, <1>2, <1>3, DecideKept
<1>5. CatalogTypeOK'
  BY <1>1, <1>2, <1>4 DEF IInv, CatalogTypeOK, proposals
<1> QED  BY <1>4, <1>5 DEF IInv

LEMMA RejectKept == ASSUME IInv, NEW a \in Reviewers, Reject(a)
                    PROVE  IInv'
<1> DEFINE p == listing[a].product
           r == Row("rejected", product[p].content)
<1>1. /\ p \in Products
      /\ product' = [product EXCEPT ![p] = r] /\ Overtake(p)
      /\ UNCHANGED <<edits, editor, offer, proposals>>
  BY Columns DEF Reject, IInv
<1>2. r \in ProductRows /\ r.approval = "rejected"
  BY <1>1, Columns, RowType DEF IInv, ApprovalStatuses
<1> HIDE DEF r, p
<1>3. /\ listing' \in [Reviewers -> Listings]
      /\ ReviewInv' /\ ProposalInv'
  BY <1>1, <1>2, DecideKept
<1>4. CatalogTypeOK'
  BY <1>1, <1>2, <1>3 DEF IInv, CatalogTypeOK, proposals
<1> QED  BY <1>3, <1>4 DEF IInv

LEMMA EditorKept == ASSUME IInv, EditorStep
                    PROVE  IInv'
<1>1. ASSUME NEW p \in Products, EditorReads(p)
      PROVE  IInv'
  <2>1. product[p] \in ProductRows
    BY Columns DEF IInv
  <2>2. CatalogTypeOK'
    BY <1>1, <2>1 DEF EditorReads, IInv, CatalogTypeOK, proposals
  <2> QED
    BY <1>1, <2>2 DEF EditorReads, IInv, ReviewInv, ListingCurrent, ProductReviewed,
                      ProposalInv, TwiceIsDecided, DecisionsKnown, SomeTwice, ProposalAgrees, proposals
<1>2. CASE EditorSaves
  <2> DEFINE p == editor.product
             r == [editor.row EXCEPT !.content = edits + 1, !.overtaken = TRUE]
  <2>1. /\ p \in Products
        /\ product' = [product EXCEPT ![p] = r] /\ Overtake(p)
        /\ edits' = edits + 1 /\ editor' = NoEditor
        /\ UNCHANGED <<offer, proposals>>
    BY <1>2 DEF EditorSaves, IInv, CatalogTypeOK
  <2>2. edits + 1 \in Contents /\ 0 \in Contents
    BY <1>2, CatalogAssumption DEF EditorSaves, IInv, CatalogTypeOK, Contents
  <2>3. r \in ProductRows /\ r.overtaken
    BY <2>2 DEF IInv, CatalogTypeOK, ProductRows
  <2>4. NoEditor \in [product : Products \cup {NoProduct}, row : ProductRows]
    BY <2>2, RowType DEF NoEditor
  <2> HIDE DEF r, p
  <2>5. /\ listing' \in [Reviewers -> Listings]
        /\ ReviewInv' /\ ProposalInv'
    BY <2>1, <2>3, DecideKept
  <2>6. CatalogTypeOK'
    BY <2>1, <2>2, <2>3, <2>4, <2>5 DEF IInv, CatalogTypeOK, proposals
  <2> QED  BY <2>5, <2>6 DEF IInv
<1> QED  BY <1>1, <1>2 DEF EditorStep

\* A change of the catalog item leaves the products, and what was looked at of them.
LEMMA ChangeItemKept == ASSUME IInv, NEW active \in BOOLEAN, ChangeItem(active)
                        PROVE  IInv'
<1>1. edits + 1 \in Contents
  BY CatalogAssumption DEF ChangeItem, IInv, CatalogTypeOK, Contents
<1>2. \A p \in Products : /\ product'[p] \in ProductRows
                          /\ product'[p].approval = product[p].approval
                          /\ product'[p].content = product[p].content
                          /\ product'[p].seen = product[p].seen
                          /\ product'[p].overtaken = product[p].overtaken
  BY Columns DEF ChangeItem, IInv, ProductRows
<1>3. \A a \in Reviewers : /\ listing'[a] \in Listings
                           /\ listing'[a].product = listing[a].product
                           /\ listing'[a].content = listing[a].content
                           /\ listing'[a].overtaken = listing[a].overtaken
  <2> SUFFICES ASSUME NEW a \in Reviewers
               PROVE  /\ listing'[a] \in Listings
                      /\ listing'[a].product = listing[a].product
                      /\ listing'[a].content = listing[a].content
                      /\ listing'[a].overtaken = listing[a].overtaken
    OBVIOUS
  <2>1. PICK b \in BOOLEAN : b = (listing[a].product # NoProduct)
    OBVIOUS
  <2>2. listing'[a] = [listing[a] EXCEPT !.restyled = b]
    BY <2>1 DEF ChangeItem
  <2>3. listing[a] \in Listings
    BY DEF IInv, CatalogTypeOK
  <2> HIDE <2>1
  <2> QED  BY <2>2, <2>3 DEF Listings
<1>4. product' \in [Products -> ProductRows] /\ listing' \in [Reviewers -> Listings]
  BY <1>2, <1>3 DEF ChangeItem
<1>5. CatalogTypeOK'
  BY <1>1, <1>4 DEF ChangeItem, IInv, CatalogTypeOK, proposals
<1>6. ListingCurrent'
  <2> SUFFICES ASSUME NEW a \in Reviewers, listing'[a].product # NoProduct,
                      ~listing'[a].overtaken
               PROVE  LET q == listing'[a].product IN
                      \/ product'[q].approval = "deleted"
                      \/ /\ product'[q].approval = "pending_approval"
                         /\ product'[q].content = listing'[a].content
    BY DEF ListingCurrent
  <2>1. listing[a].product \in Products /\ ~listing[a].overtaken
    BY <1>3, Columns DEF IInv
  <2>2. LET q == listing[a].product IN
        \/ product[q].approval = "deleted"
        \/ product[q].approval = "pending_approval" /\ product[q].content = listing[a].content
    BY <1>3, <2>1 DEF IInv, ReviewInv, ListingCurrent
  <2> QED  BY <1>2, <1>3, <2>1, <2>2
<1>7. ProductReviewed'
  BY <1>2 DEF IInv, ReviewInv, ProductReviewed
<1>8. ProposalInv'
  BY DEF ChangeItem, IInv, ProposalInv, TwiceIsDecided, DecisionsKnown, SomeTwice, ProposalAgrees, proposals
<1> QED  BY <1>5, <1>6, <1>7, <1>8 DEF IInv, ReviewInv

LEMMA OfferKept == ASSUME IInv, OfferStep
                   PROVE  IInv'
<1>1. CASE \E active \in BOOLEAN : ChangeItem(active)
  BY <1>1, ChangeItemKept
<1>2. CASE (\E active \in BOOLEAN : SetActive(active)) \/ Grant \/ DeleteCatalogProduct
  <2> DEFINE Offers == [exists : BOOLEAN, active : BOOLEAN, granted : BOOLEAN, content : Contents]
  <2>1. offer' \in Offers
    <3>1. ASSUME NEW active \in BOOLEAN, SetActive(active)
          PROVE  offer' \in Offers
      BY <3>1 DEF SetActive, IInv, CatalogTypeOK
    <3>2. CASE Grant
      BY <3>2 DEF Grant, IInv, CatalogTypeOK
    <3>3. CASE DeleteCatalogProduct
      BY <3>3 DEF DeleteCatalogProduct, IInv, CatalogTypeOK
    <3> QED  BY <1>2, <3>1, <3>2, <3>3
  <2>2. UNCHANGED <<product, edits, listing, editor, proposals>>
    BY <1>2 DEF SetActive, Grant, DeleteCatalogProduct
  <2>3. CatalogTypeOK'
    BY <2>1, <2>2 DEF IInv, CatalogTypeOK, proposals
  <2> QED  BY <2>2, <2>3 DEF IInv, ReviewInv, ListingCurrent, ProductReviewed,
                            ProposalInv, TwiceIsDecided, DecisionsKnown, SomeTwice, ProposalAgrees, proposals
<1> QED  BY <1>1, <1>2 DEF OfferStep
-----------------------------------------------------------------------------
\* The proposal.
LEMMA ReviewUntouched == ASSUME ReviewInv, UNCHANGED <<product, listing>>
                         PROVE  ReviewInv'
BY DEF ReviewInv, ListingCurrent, ProductReviewed

LEMMA CreateProposalKept == ASSUME IInv, CreateProposal
                            PROVE  IInv'
<1>1. CatalogTypeOK'
  BY DEF CreateProposal, IInv, CatalogTypeOK
<1>2. ReviewInv'
  BY ReviewUntouched DEF CreateProposal, IInv
<1>3. ProposalInv'
  BY DEF CreateProposal, IInv, ProposalInv, TwiceIsDecided, DecisionsKnown, SomeTwice, ProposalAgrees, Decisions
<1> QED  BY <1>1, <1>2, <1>3 DEF IInv

LEMMA DecideReadsKept ==
    ASSUME IInv, NEW a \in Reviewers, NEW i \in Items, NEW verdict \in Decisions,
           DecideReads(a, i, verdict)
    PROVE  IInv'
<1>1. CatalogTypeOK'
  BY DEF DecideReads, IInv, CatalogTypeOK
<1>2. ReviewInv'
  BY ReviewUntouched DEF DecideReads, IInv
<1>3. DecisionsKnown'
  BY DEF DecideReads, IInv, CatalogTypeOK, ProposalInv, DecisionsKnown, SomeTwice
<1>4. ProposalAgrees' /\ TwiceIsDecided'
  BY DEF DecideReads, IInv, ProposalInv, ProposalAgrees, TwiceIsDecided
<1> QED  BY <1>1, <1>2, <1>3, <1>4 DEF IInv, ProposalInv

\* refresh_proposal says that all are decided alike only if they are, and it is called
\* when one has been decided.
LEMMA OutcomeKnown ==
    ASSUME NEW status, NEW i \in Items, status[i] \in Decisions
    PROVE  /\ Outcome(status) \in {"approved", "rejected", "partially_approved"}
           /\ Outcome(status) \in Decisions => \A j \in Items : status[j] = Outcome(status)
BY DEF Outcome, Decisions

LEMMA DecideWritesKept == ASSUME IInv, NEW a \in Reviewers, DecideWrites(a)
                          PROVE  IInv'
<1> DEFINE i == deciding[a].item
           v == deciding[a].verdict
           status == [j \in Items |-> IF j = i THEN v ELSE proposed[j].status]
<1>1. /\ i \in Items /\ v \in Decisions /\ proposal # "none"
  BY DEF DecideWrites, IInv, CatalogTypeOK, ProposalInv, DecisionsKnown
<1>2. status[i] = v /\ \A j \in Items \ {i} : status[j] = proposed[j].status
  BY <1>1
<1>3. deciding' = [deciding EXCEPT ![a].stage = "written", ![a].outcome = Outcome(status)]
  BY DEF DecideWrites
<1> HIDE DEF status
<1>4. /\ Outcome(status) \in {"approved", "rejected", "partially_approved"}
      /\ Outcome(status) \in Decisions =>
            v = Outcome(status) /\ \A j \in Items \ {i} : proposed[j].status = Outcome(status)
  BY <1>1, <1>2, OutcomeKnown
<1>5. /\ deciding'[a] = [deciding[a] EXCEPT !.stage = "written", !.outcome = Outcome(status)]
      /\ \A b \in Reviewers \ {a} : deciding'[b] = deciding[b]
  BY <1>3 DEF IInv, CatalogTypeOK
<1>6. /\ deciding'[a].stage = "written" /\ deciding'[a].outcome = Outcome(status)
      /\ deciding'[a].item = i /\ deciding'[a].verdict = v
  BY <1>5 DEF IInv, CatalogTypeOK
<1>7. CatalogTypeOK'
  <2> DEFINE D == [stage : {"none", "read", "written"}, item : Items \cup {NoItem},
                   verdict : Decisions, outcome : {"pending", "partially_approved"} \cup Decisions]
  <2>1. deciding \in [Reviewers -> D]
    BY DEF IInv, CatalogTypeOK
  <2>2. deciding'[a] \in D
    BY <1>4, <1>5, <2>1 DEF Decisions
  <2>3. deciding' \in [Reviewers -> D]
    BY <1>3, <2>1, <2>2
  <2> QED  BY <2>3 DEF DecideWrites, IInv, CatalogTypeOK
<1>8. ReviewInv'
  BY ReviewUntouched DEF DecideWrites, IInv
<1>9. UNCHANGED <<proposal, proposed>>
  BY DEF DecideWrites
<1> HIDE DEF i, v
<1>10. DecisionsKnown'
  <2> SUFFICES ASSUME NEW b \in Reviewers
               PROVE  /\ deciding'[b].stage # "none" =>
                            proposal' # "none" /\ deciding'[b].item \in Items
                      /\ deciding'[b].stage = "written" =>
                            /\ deciding'[b].outcome # "pending"
                            /\ deciding'[b].outcome \in Decisions =>
                                  /\ deciding'[b].verdict = deciding'[b].outcome
                                  /\ \/ SomeTwice'
                                     \/ \A j \in Items \ {deciding'[b].item} :
                                           proposed'[j].status = deciding'[b].outcome
    BY DEF DecisionsKnown
  <2>1. CASE b = a
    BY <2>1, <1>1, <1>4, <1>6, <1>9
  <2>2. CASE b # a
    BY <2>2, <1>5, <1>9 DEF IInv, ProposalInv, DecisionsKnown, SomeTwice
  <2> QED  BY <2>1, <2>2
<1>11. ProposalAgrees' /\ TwiceIsDecided'
  BY <1>9 DEF IInv, ProposalInv, ProposalAgrees, TwiceIsDecided
<1> QED  BY <1>7, <1>8, <1>10, <1>11 DEF IInv, ProposalInv

LEMMA DecideCommitsKept ==
    ASSUME IInv, NEW a \in Reviewers, NEW existing \in BOOLEAN, DecideCommits(a, existing)
    PROVE  IInv'
<1> DEFINE i == deciding[a].item
           v == deciding[a].verdict
           o == deciding[a].outcome
<1>1. /\ i \in Items /\ v \in Decisions /\ proposal # "none"
      /\ o \in {"partially_approved"} \cup Decisions
      /\ o \in Decisions =>
            v = o /\ (SomeTwice \/ \A j \in Items \ {i} : proposed[j].status = o)
  BY DEF DecideCommits, IInv, CatalogTypeOK, ProposalInv, DecisionsKnown
<1>2. /\ proposed' = [proposed EXCEPT ![i] = [status |-> v, twice |-> @.status # "pending"]]
      /\ proposal' = o
      /\ deciding' = [deciding EXCEPT ![a] = NoDecision]
  BY DEF DecideCommits
<1>3. /\ proposed'[i].status = v
      /\ proposed'[i].twice <=> proposed[i].status # "pending"
      /\ \A j \in Items \ {i} : proposed'[j] = proposed[j]
  BY <1>1, <1>2 DEF IInv, CatalogTypeOK
<1>4. CatalogTypeOK'
  BY <1>1, <1>2 DEF DecideCommits, IInv, CatalogTypeOK, NoDecision, Decisions
<1>5. ReviewInv'
  BY ReviewUntouched DEF DecideCommits, IInv
<1> HIDE DEF i, v, o
\* An item that has been decided on twice stays so ...
<1>6. SomeTwice => SomeTwice'
  <2> SUFFICES ASSUME NEW j \in Items, proposed[j].twice
               PROVE  SomeTwice'
    BY DEF SomeTwice
  <2>1. CASE j # i
    BY <2>1, <1>3 DEF SomeTwice
  <2>2. CASE j = i
    <3>1. proposed[i].status # "pending"
      BY <2>2 DEF IInv, ProposalInv, TwiceIsDecided
    <3> QED  BY <3>1, <1>1, <1>3 DEF SomeTwice
  <2> QED  BY <2>1, <2>2
\* ... and one that was decided on and is now decided on is one of them.
<1>7. ASSUME ~SomeTwice'
      PROVE  \A j \in Items : proposed[j].status \in Decisions => proposed'[j] = proposed[j]
  <2>1. proposed[i].status \notin Decisions
    BY <1>1, <1>3, <1>7 DEF SomeTwice, Decisions
  <2> QED  BY <1>3, <2>1
<1>8. TwiceIsDecided'
  BY <1>1, <1>3 DEF IInv, ProposalInv, TwiceIsDecided, Decisions
<1>9. DecisionsKnown'
  <2> SUFFICES ASSUME NEW b \in Reviewers
               PROVE  /\ deciding'[b].stage # "none" =>
                            proposal' # "none" /\ deciding'[b].item \in Items
                      /\ deciding'[b].stage = "written" =>
                            /\ deciding'[b].outcome # "pending"
                            /\ deciding'[b].outcome \in Decisions =>
                                  /\ deciding'[b].verdict = deciding'[b].outcome
                                  /\ \/ SomeTwice'
                                     \/ \A j \in Items \ {deciding'[b].item} :
                                           proposed'[j].status = deciding'[b].outcome
    BY DEF DecisionsKnown
  <2>1. CASE b = a
    BY <2>1, <1>2 DEF NoDecision, IInv, CatalogTypeOK
  <2>2. CASE b # a
    <3>1. deciding'[b] = deciding[b]
      BY <2>2, <1>2 DEF IInv, CatalogTypeOK
    <3>2. proposal' # "none"
      BY <1>1, <1>2 DEF Decisions
    <3> QED  BY <3>1, <3>2, <1>6, <1>7 DEF IInv, ProposalInv, DecisionsKnown
  <2> QED  BY <2>1, <2>2
<1>10. ProposalAgrees'
  <2> SUFFICES ASSUME ~SomeTwice', NEW d \in Decisions, proposal' = d
               PROVE  \A j \in Items : proposed'[j].status = d
    BY <1>1, <1>2 DEF ProposalAgrees, SomeTwice, Decisions
  <2>1. o = d /\ v = d /\ \A j \in Items \ {i} : proposed[j].status = d
    BY <1>1, <1>2, <1>6
  <2> QED  BY <2>1, <1>3
<1> QED  BY <1>4, <1>5, <1>8, <1>9, <1>10 DEF IInv, ProposalInv

LEMMA DecideDiesKept == ASSUME IInv, NEW a \in Reviewers, DecideDies(a)
                        PROVE  IInv'
<1>1. CatalogTypeOK'
  BY DEF DecideDies, IInv, CatalogTypeOK, NoDecision, Decisions
<1>2. ReviewInv'
  BY ReviewUntouched DEF DecideDies, IInv
<1>3. \A b \in Reviewers : deciding'[b] = IF b = a THEN NoDecision ELSE deciding[b]
  BY DEF DecideDies, IInv, CatalogTypeOK
<1>4. DecisionsKnown'
  BY <1>3 DEF DecideDies, IInv, ProposalInv, DecisionsKnown, SomeTwice, NoDecision
<1>5. ProposalAgrees' /\ TwiceIsDecided'
  BY DEF DecideDies, IInv, ProposalInv, ProposalAgrees, TwiceIsDecided
<1> QED  BY <1>1, <1>2, <1>4, <1>5 DEF IInv, ProposalInv
-----------------------------------------------------------------------------
\* Every step of the specification keeps the invariant.
LEMMA NextInv == IInv /\ [CatalogNext]_catalogVars => IInv'
<1> SUFFICES ASSUME IInv, [CatalogNext]_catalogVars PROVE IInv'
  OBVIOUS
<1>1. CASE VendorStep
  BY <1>1, VendorKept, SubmitKept DEF VendorStep
<1>2. CASE ReviewStep
  BY <1>2, ShowKept, ApproveKept, RejectKept DEF ReviewStep
<1>3. CASE EditorStep
  BY <1>3, EditorKept
<1>4. CASE OfferStep
  BY <1>4, OfferKept
<1>5. CASE ProposalStep
  BY <1>5, CreateProposalKept, DecideReadsKept, DecideWritesKept, DecideCommitsKept,
     DecideDiesKept DEF ProposalStep
<1>6. CASE UNCHANGED catalogVars
  BY <1>6 DEF catalogVars, proposals, IInv, CatalogTypeOK, ReviewInv, ListingCurrent,
              ProductReviewed, ProposalInv, TwiceIsDecided, DecisionsKnown, SomeTwice,
              ProposalAgrees
<1> QED  BY <1>1, <1>2, <1>3, <1>4, <1>5, <1>6 DEF CatalogNext

-----------------------------------------------------------------------------
\* The catalog item beside a product.
LEMMA ItemInit == CatalogInit => ItemInv
BY DEF CatalogInit, ItemInv, NoListing, Row

\* A row is saved that is not approved unseen, beside the item as it is.
LEMMA RowItemKept ==
    ASSUME CatalogTypeOK, ItemInv, NEW p \in Products, NEW r,
           product' = [product EXCEPT ![p] = r],
           r.approval = "approved" /\ ~r.overtaken => r.restyled \/ r.beside = offer.content,
           offer'.content = offer.content, UNCHANGED listing \/ Overtake(p)
    PROVE  ItemInv'
<1>1. \A a \in Reviewers : /\ listing'[a].product = listing[a].product
                           /\ listing'[a].beside = listing[a].beside
                           /\ listing'[a].restyled = listing[a].restyled
  BY DEF Overtake, CatalogTypeOK, Listings
<1>2. \A q \in Products : product'[q] = IF q = p THEN r ELSE product[q]
  BY DEF CatalogTypeOK
<1> QED  BY <1>1, <1>2 DEF ItemInv

LEMMA NewRow == \A s, c : Row(s, c).approval = s
BY DEF Row

LEMMA ItemKept == ASSUME CatalogTypeOK, ItemInv, [CatalogNext]_catalogVars
                  PROVE  ItemInv'
<1>1. CASE VendorStep
  <2>1. ASSUME NEW batch \in SUBSET Products, Submit(batch)
        PROVE  ItemInv'
    <3>1. \A q \in Products : product'[q].approval = "approved" => product'[q] = product[q]
      BY <2>1, NewRow DEF Submit
    <3> QED  BY <2>1, <3>1 DEF Submit, ItemInv
  <2>2. ASSUME NEW p \in Products,
               \/ CreateFromCatalog(p)
               \/ \E from \in Products : Duplicate(p, from)
               \/ UpdateDraft(p)
               \/ UpdateVendorProduct(p)
               \/ ChangeImages(p)
               \/ DeleteProduct(p)
        PROVE  ItemInv'
    <3>1. \E s \in {"draft", "pending_approval", "deleted"}, c \in Int :
             product' = [product EXCEPT ![p] = Row(s, c)]
      BY <2>2, Columns DEF CreateFromCatalog, Duplicate, UpdateDraft, UpdateVendorProduct, ChangeImages,
                  DeleteProduct, Edit, AfterChange, CatalogTypeOK, Contents
    <3>2. PICK s \in {"draft", "pending_approval", "deleted"}, c \in Int :
             product' = [product EXCEPT ![p] = Row(s, c)]
      BY <3>1
    <3>3. Row(s, c).approval # "approved"
      BY NewRow
    <3>4. UNCHANGED <<listing, offer>>
      BY <2>2 DEF CreateFromCatalog, Duplicate, UpdateDraft, UpdateVendorProduct, ChangeImages,
                  DeleteProduct
    <3> QED  BY <3>2, <3>3, <3>4, RowItemKept
  <2> QED  BY <1>1, <2>1, <2>2 DEF VendorStep
<1>2. CASE ReviewStep
  <2>1. ASSUME NEW a \in Reviewers, NEW p \in Products, ShowPending(a, p)
        PROVE  ItemInv'
    <3>1. \A b \in Reviewers \ {a} : listing'[b] = listing[b]
      BY <2>1 DEF ShowPending, CatalogTypeOK
    <3>2. listing'[a].beside = offer.content
      BY <2>1 DEF ShowPending, CatalogTypeOK
    <3> QED  BY <2>1, <3>1, <3>2 DEF ShowPending, ItemInv
  <2>2. ASSUME NEW a \in Reviewers, Approve(a)
        PROVE  ItemInv'
    <3> DEFINE p == listing[a].product
               r == [product[p] EXCEPT !.approval = "approved", !.seen = listing[a].content,
                                       !.beside = listing[a].beside,
                                       !.overtaken = listing[a].overtaken,
                                       !.restyled = listing[a].restyled]
    <3>1. /\ p \in Products /\ p # NoProduct
          /\ product' = [product EXCEPT ![p] = r] /\ Overtake(p) /\ UNCHANGED offer
      BY <2>2, Columns DEF Approve, CatalogTypeOK
    <3>2. r.beside = listing[a].beside /\ r.restyled = listing[a].restyled
      BY <3>1 DEF CatalogTypeOK, ProductRows
    <3>3. r.restyled \/ r.beside = offer.content
      BY <3>1, <3>2 DEF ItemInv
    <3> HIDE DEF r, p
    <3> QED  BY <3>1, <3>3, RowItemKept
  <2>3. ASSUME NEW a \in Reviewers, Reject(a)
        PROVE  ItemInv'
    <3> DEFINE p == listing[a].product
               r == Row("rejected", product[p].content)
    <3>1. /\ p \in Products
          /\ product' = [product EXCEPT ![p] = r] /\ Overtake(p) /\ UNCHANGED offer
      BY <2>3, Columns DEF Reject, CatalogTypeOK
    <3>2. r.approval # "approved"
      BY NewRow
    <3> HIDE DEF r, p
    <3> QED  BY <3>1, <3>2, RowItemKept
  <2> QED  BY <1>2, <2>1, <2>2, <2>3 DEF ReviewStep
<1>3. CASE EditorStep
  <2>1. CASE \E p \in Products : EditorReads(p)
    BY <2>1 DEF EditorReads, ItemInv
  <2>2. CASE EditorSaves
    <3> DEFINE p == editor.product
               r == [editor.row EXCEPT !.content = edits + 1, !.overtaken = TRUE]
    <3>1. /\ p \in Products
          /\ product' = [product EXCEPT ![p] = r] /\ Overtake(p) /\ UNCHANGED offer
      BY <2>2 DEF EditorSaves, CatalogTypeOK
    <3>2. r.overtaken
      BY DEF CatalogTypeOK, ProductRows
    <3> HIDE DEF r, p
    <3> QED  BY <3>1, <3>2, RowItemKept
  <2> QED  BY <1>3, <2>1, <2>2 DEF EditorStep
<1>4. CASE OfferStep
  <2>1. ASSUME NEW active \in BOOLEAN, ChangeItem(active)
        PROVE  ItemInv'
    <3>1. \A p \in Products : /\ product'[p].approval = product[p].approval
                              /\ product'[p].restyled = (product[p].restyled \/ product[p].approval = "approved")
      BY <2>1 DEF ChangeItem, CatalogTypeOK, ProductRows
    <3>2. \A a \in Reviewers : /\ listing'[a].product = listing[a].product
                               /\ listing'[a].restyled = (listing[a].product # NoProduct)
      BY <2>1 DEF ChangeItem, CatalogTypeOK, Listings
    <3> QED  BY <3>1, <3>2 DEF ItemInv
  <2>2. CASE (\E active \in BOOLEAN : SetActive(active)) \/ Grant \/ DeleteCatalogProduct
    <3>1. UNCHANGED <<product, listing>> /\ offer'.content = offer.content
      BY <2>2 DEF SetActive, Grant, DeleteCatalogProduct, CatalogTypeOK
    <3> QED  BY <3>1 DEF ItemInv
  <2> QED  BY <1>4, <2>1, <2>2 DEF OfferStep
<1>5. CASE ProposalStep
  <2>1. UNCHANGED <<product, listing>> /\ offer'.content = offer.content
    BY <1>5 DEF ProposalStep, CreateProposal, DecideReads, DecideWrites, DecideCommits, DecideDies,
                CatalogTypeOK
  <2> QED  BY <2>1 DEF ItemInv
<1>6. CASE UNCHANGED catalogVars
  BY <1>6 DEF catalogVars, ItemInv
<1> QED  BY <1>1, <1>2, <1>3, <1>4, <1>5, <1>6 DEF CatalogNext

LEMMA SpecInv == CatalogSpec => [](IInv /\ ItemInv)
<1>1. IInv /\ ItemInv /\ [CatalogNext]_catalogVars => (IInv /\ ItemInv)'
  BY NextInv, ItemKept DEF IInv
<1> QED  BY <1>1, InitInv, ItemInit, PTL DEF CatalogSpec

\* Every reachable state of the catalog, the products and the proposal is well-formed.
THEOREM CatalogTypes == CatalogSpec => []CatalogTypeOK
<1>1. IInv => CatalogTypeOK
  BY DEF IInv
<1> QED  BY <1>1, SpecInv, PTL

\* Customers read what was reviewed, and a proposal says what its items say, whatever
\* vendors, reviewers and the back office do at the same time; but for a product whose
\* review had been overtaken, for a catalog item that has been changed since its list was
\* loaded, and for a proposal with an item that was decided on twice.
THEOREM Reviewed == CatalogSpec => []CatalogReviewed
<1>1. IInv /\ ItemInv => CatalogReviewed
  BY DEF IInv, ReviewInv, ProductReviewed, ItemInv, CustomersSeeReviewed, ProposalInv, CatalogReviewed
<1> QED  BY <1>1, SpecInv, PTL
-----------------------------------------------------------------------------
(***************************************************************************)
(* Nodes: the stock of a fulfilment node.                                  *)
(***************************************************************************)

\* Units that left the row since the last count are those of orders that still refer to the
\* node, and units that came are those of orders that were returned.
SalesFit ==
    \A o \in NodeOrders :
        /\ sale[o].left => sale[o].state = "held" /\ sale[o].atNode /\ row.exists
        /\ sale[o].came => sale[o].state = "returned"

\* What the editor and the backfill have read is still so, unless something moved.
ReadingsCurrent ==
    /\ editing.on /\ ~editing.moved => row.exists /\ editing.stock = row.stock
    /\ filling.on /\ ~filling.moved => /\ filling.node = NodePayload
                                       /\ filling.stock = FillStock
                                       /\ filling.available = AvailableForNode

NodesInv == NodesTypeOK /\ SalesFit /\ ReadingsCurrent /\ NodeCountsKept

Left == {o \in NodeOrders : sale[o].left}
Came == {o \in NodeOrders : sale[o].came}
-----------------------------------------------------------------------------
LEMMA NodeColumns ==
    ASSUME NodesTypeOK
    PROVE  /\ row.exists \in BOOLEAN /\ row.stock \in Nat /\ row.reserved \in Units
           /\ row.reserved \in Nat /\ row.available \in BOOLEAN
           /\ goods.stock \in Nat /\ goods.listed \in BOOLEAN
           /\ counted.units \in Nat /\ counted.unreliable \in BOOLEAN
           /\ editing.on \in BOOLEAN /\ editing.stock \in Nat /\ editing.moved \in BOOLEAN
           /\ filling.on \in BOOLEAN /\ filling.moved \in BOOLEAN
           /\ filling.stock \in Nat /\ filling.available \in BOOLEAN /\ filling.node \in NodeRows
           /\ \A o \in NodeOrders : sale[o].units \in Nat /\ sale[o].units \in Units
<1>1. Units \subseteq Nat
  BY NodesAssumption DEF Units
<1>2. row \in InventoryRows /\ goods \in [stock : Nat, listed : BOOLEAN]
  BY DEF NodesTypeOK
<1>3. counted \in [units : Nat, unreliable : BOOLEAN]
  BY DEF NodesTypeOK
<1>4. editing \in [on : BOOLEAN, stock : Nat, moved : BOOLEAN] /\ filling \in Fillings
  BY DEF NodesTypeOK
<1>5. \A o \in NodeOrders : sale[o] \in SaleRows
  BY DEF NodesTypeOK
<1> QED
  BY <1>1, <1>2, <1>3, <1>4, <1>5 DEF InventoryRows, Fillings, SaleRows

\* Units are summed over finite sets of orders.
LEMMA OrdersFinite ==
    IsFiniteSet(Left) /\ IsFiniteSet(Came) /\ Left \subseteq NodeOrders /\ Came \subseteq NodeOrders
<1>1. Left \subseteq NodeOrders /\ Came \subseteq NodeOrders
  BY DEF Left, Came
<1> QED
  BY <1>1, NodesAssumption, FS_Subset

LEMMA UnitsInt ==
    ASSUME NodesTypeOK, NEW S \in SUBSET NodeOrders
    PROVE  UnitsOf(S) \in Nat
<1> DEFINE units == [o \in NodeOrders |-> sale[o].units]
<1>1. IsFiniteSet(S) /\ \A o \in S : units[o] \in Nat
  BY NodeColumns, NodesAssumption, FS_Subset
<1> QED
  BY <1>1, SumNat DEF UnitsOf

\* The units of the orders that were counted before are the same.
LEMMA UnitsSame ==
    ASSUME NodesTypeOK, NEW S \in SUBSET NodeOrders,
           \A o \in S : sale'[o].units = sale[o].units
    PROVE  SumFunctionOnSet([o \in NodeOrders |-> sale'[o].units], S) = UnitsOf(S)
<1>1. IsFiniteSet(S)
  BY NodesAssumption, FS_Subset
<1>2. \A o \in S : [x \in NodeOrders |-> sale'[x].units][o] = [x \in NodeOrders |-> sale[x].units][o]
  OBVIOUS
<1> QED
  BY <1>1, <1>2, SumSame DEF UnitsOf

LEMMA UnitsMore ==
    ASSUME NodesTypeOK, NodesTypeOK', NEW S \in SUBSET NodeOrders, NEW o \in NodeOrders, o \notin S,
           \A x \in S : sale'[x].units = sale[x].units
    PROVE  SumFunctionOnSet([x \in NodeOrders |-> sale'[x].units], S \cup {o})
              = UnitsOf(S) + sale'[o].units
<1> DEFINE g == [x \in NodeOrders |-> sale'[x].units]
<1>1. IsFiniteSet(S)
  BY NodesAssumption, FS_Subset
<1>2. \A x \in S \cup {o} : g[x] \in Int
  <2>1. \A x \in NodeOrders : sale'[x] \in SaleRows
    BY DEF NodesTypeOK
  <2>2. Units \subseteq Int
    BY NodesAssumption DEF Units
  <2> QED
    BY <2>1, <2>2 DEF SaleRows
<1>3. SumFunctionOnSet(g, S \cup {o}) = SumFunctionOnSet(g, S) + g[o]
  <2> HIDE DEF g
  <2> QED
    BY <1>1, <1>2, SumAdd
<1> QED
  BY <1>3, UnitsSame

LEMMA UnitsFewer ==
    ASSUME NodesTypeOK, NEW S \in SUBSET NodeOrders, NEW o \in S,
           \A x \in S : sale'[x].units = sale[x].units
    PROVE  SumFunctionOnSet([x \in NodeOrders |-> sale'[x].units], S \ {o})
              = UnitsOf(S) - sale[o].units
<1> DEFINE f == [x \in NodeOrders |-> sale[x].units]
<1>1. IsFiniteSet(S) /\ \A x \in S : f[x] \in Int
  BY NodeColumns, NodesAssumption, FS_Subset
<1>2. SumFunctionOnSet(f, S) = f[o] + SumFunctionOnSet(f, S \ {o})
  <2> HIDE DEF f
  <2> QED
    BY <1>1, SumRemove
<1>3. UnitsOf(S) = sale[o].units + UnitsOf(S \ {o})
  BY <1>2 DEF UnitsOf
<1>4. UnitsOf(S) \in Nat /\ UnitsOf(S \ {o}) \in Nat /\ sale[o].units \in Nat
  BY UnitsInt, NodeColumns
<1>5. SumFunctionOnSet([x \in NodeOrders |-> sale'[x].units], S \ {o}) = UnitsOf(S \ {o})
  BY UnitsSame
<1> QED
  BY <1>3, <1>4, <1>5

\* NodeCountsKept in these words.
LEMMA Book ==
    NodeCountsKept <=> (row.exists /\ ~counted.unreliable =>
                           row.stock + UnitsOf(Left) = counted.units + UnitsOf(Came))
BY DEF NodeCountsKept, Left, Came

LEMMA BookAfter ==
    NodeCountsKept' <=> (row'.exists /\ ~counted'.unreliable =>
        row'.stock + SumFunctionOnSet([x \in NodeOrders |-> sale'[x].units], Left')
            = counted'.units + SumFunctionOnSet([x \in NodeOrders |-> sale'[x].units], Came'))
BY DEF NodeCountsKept, UnitsOf, Left, Came
-----------------------------------------------------------------------------
(* Steps that leave the row and the orders alone.                          *)

LEMMA RowStays ==
    ASSUME NodesInv, UNCHANGED <<row, sale, counted>>
    PROVE  SalesFit' /\ NodeCountsKept'
BY DEF NodesInv, SalesFit, NodeCountsKept, UnitsOf

\* Who has read something before a change has read something old.
LEMMA AllMoved ==
    ASSUME NodesTypeOK, Moved
    PROVE  /\ editing' \in [on : BOOLEAN, stock : Nat, moved : BOOLEAN] /\ filling' \in Fillings
           /\ ReadingsCurrent'
<1>1. editing \in [on : BOOLEAN, stock : Nat, moved : BOOLEAN] /\ filling \in Fillings
  BY DEF NodesTypeOK
<1>2. /\ editing' = [editing EXCEPT !.moved = editing.on]
      /\ filling' = [filling EXCEPT !.moved = filling.on]
  BY DEF Moved
<1>3. /\ editing' \in [on : BOOLEAN, stock : Nat, moved : BOOLEAN]
      /\ editing'.on = editing.on /\ editing'.moved = editing.on
  BY <1>1, <1>2
<1>4. /\ filling' \in Fillings
      /\ filling'.on = filling.on /\ filling'.moved = filling.on
  BY <1>1, <1>2 DEF Fillings
<1> QED
  BY <1>3, <1>4 DEF ReadingsCurrent

LEMMA NodesInitInv == NodesInit => NodesInv
<1> SUFFICES ASSUME NodesInit PROVE NodesInv
  OBVIOUS
<1>1. NodesTypeOK
  <2>1. 0 \in Units /\ MaxUnits \in Nat
    BY NodesAssumption DEF Units
  <2>2. NoNodeRow \in NodeRows /\ NoRow \in InventoryRows
    BY <2>1 DEF NoNodeRow, NodeRows, Owners, NoRow, InventoryRows
  <2>3. sale \in [NodeOrders -> SaleRows]
    BY <2>1 DEF NodesInit, SaleRows
  <2>4. NotFilling \in Fillings
    BY <2>2 DEF NotFilling, Fillings
  <2> QED
    BY <2>1, <2>2, <2>3, <2>4 DEF NodesInit, NodesTypeOK, NotEditing
<1>2. SalesFit /\ ReadingsCurrent /\ NodeCountsKept
  BY DEF NodesInit, SalesFit, ReadingsCurrent, NodeCountsKept, NotEditing, NotFilling, NoRow
<1> QED
  BY <1>1, <1>2 DEF NodesInv

LEMMA StoreStep ==
    ASSUME NodesInv,
           \/ \E approved, open, intake \in BOOLEAN : UpdateStore(approved, open, intake)
           \/ \E units \in Units, listed \in BOOLEAN : UpdateGoods(units, listed)
           \/ \E active, accepting, vendorStore \in BOOLEAN, vendor \in Owners :
                 SaveNode(active, accepting, vendor, vendorStore)
    PROVE  NodesInv'
<1>1. UNCHANGED <<row, foreign, sale, counted>> /\ Moved
  BY DEF UpdateStore, UpdateGoods, SaveNode
<1>2. keeper' \in KeeperRows /\ goods' \in [stock : Nat, listed : BOOLEAN] /\ node' \in NodeRows
  <2>1. Units \subseteq Nat
    BY NodesAssumption DEF Units
  <2>2. CASE \E approved, open, intake \in BOOLEAN : UpdateStore(approved, open, intake)
    BY <2>2 DEF UpdateStore, NodesInv, NodesTypeOK, KeeperRows
  <2>3. CASE \E units \in Units, listed \in BOOLEAN : UpdateGoods(units, listed)
    BY <2>1, <2>3 DEF UpdateGoods, NodesInv, NodesTypeOK
  <2>4. CASE \E active, accepting, vendorStore \in BOOLEAN, vendor \in Owners :
                SaveNode(active, accepting, vendor, vendorStore)
    BY <2>4 DEF SaveNode, NodesInv, NodesTypeOK, NodeRows
  <2> QED
    BY <2>2, <2>3, <2>4
<1>3. NodesTypeOK'
  BY <1>1, <1>2, AllMoved DEF NodesInv, NodesTypeOK
<1> QED
  BY <1>1, <1>3, RowStays, AllMoved DEF NodesInv

LEMMA ReadingStep ==
    ASSUME NodesInv, EditReads \/ (\E sync \in BOOLEAN : BackfillReads(sync)) \/ BackfillRollsBack
    PROVE  NodesInv'
<1>1. UNCHANGED <<keeper, goods, node, row, foreign, sale, counted>>
  BY DEF EditReads, BackfillReads, BackfillRollsBack
<1>2. CASE EditReads
  <2>1. editing' = [on |-> TRUE, stock |-> row.stock, moved |-> FALSE] /\ row.exists /\ UNCHANGED filling
    BY <1>2 DEF EditReads
  <2>2. NodesTypeOK'
    BY <1>1, <2>1, NodeColumns DEF NodesInv, NodesTypeOK
  <2>3. ReadingsCurrent'
    BY <1>1, <2>1 DEF NodesInv, ReadingsCurrent, NodePayload, FillStock, Larger, AvailableForNode
  <2> QED
    BY <1>1, <2>2, <2>3, RowStays DEF NodesInv
<1>3. CASE \E sync \in BOOLEAN : BackfillReads(sync)
  <2>1. PICK sync \in BOOLEAN : BackfillReads(sync)
    BY <1>3
  <2>2. /\ filling' = [on |-> TRUE, sync |-> sync, moved |-> FALSE, nodeFound |-> node.exists,
                       rowFound |-> row.exists, node |-> NodePayload, stock |-> FillStock,
                       available |-> AvailableForNode]
        /\ UNCHANGED editing
    BY <2>1 DEF BackfillReads
  <2>3. NodePayload \in NodeRows /\ FillStock \in Nat /\ AvailableForNode \in BOOLEAN
    BY NodeColumns DEF NodesInv, NodesTypeOK, KeeperRows, NodePayload, NodeRows, Owners, FillStock,
       Larger, AvailableForNode
  <2>4. node.exists \in BOOLEAN /\ row.exists \in BOOLEAN
    BY NodeColumns DEF NodesInv, NodesTypeOK, NodeRows
  <2>5. NodesTypeOK'
    BY <1>1, <2>2, <2>3, <2>4 DEF NodesInv, NodesTypeOK, Fillings
  <2>6. ReadingsCurrent'
    BY <1>1, <2>2 DEF NodesInv, ReadingsCurrent, NodePayload, FillStock, Larger, AvailableForNode
  <2> QED
    BY <1>1, <2>5, <2>6, RowStays DEF NodesInv
<1>4. CASE BackfillRollsBack
  <2>1. filling' = NotFilling /\ UNCHANGED editing
    BY <1>4 DEF BackfillRollsBack
  <2>2. NotFilling \in Fillings /\ ~NotFilling.on
    BY DEF NotFilling, Fillings, NoNodeRow, NodeRows, Owners
  <2>3. NodesTypeOK' /\ ReadingsCurrent'
    BY <1>1, <2>1, <2>2 DEF NodesInv, NodesTypeOK, ReadingsCurrent
  <2> QED
    BY <1>1, <2>3, RowStays DEF NodesInv
<1> QED
  BY <1>2, <1>3, <1>4
-----------------------------------------------------------------------------
(* Counts.                                                                 *)

\* The book starts over.
LEMMA Recounted ==
    ASSUME NodesTypeOK, NEW units \in Nat, NEW unreliable \in BOOLEAN, Recount(units, unreliable)
    PROVE  /\ sale' \in [NodeOrders -> SaleRows] /\ counted' \in [units : Nat, unreliable : BOOLEAN]
           /\ SalesFit'
           /\ row'.stock = units => NodeCountsKept'
<1>1. /\ counted' = [units |-> units, unreliable |-> unreliable]
      /\ sale' = [o \in NodeOrders |-> [sale[o] EXCEPT !.left = FALSE, !.came = FALSE]]
  BY DEF Recount
<1>2. ASSUME NEW o \in NodeOrders
      PROVE  sale'[o] \in SaleRows /\ ~sale'[o].left /\ ~sale'[o].came
  BY <1>1 DEF NodesTypeOK, SaleRows
<1>3. sale' \in [NodeOrders -> SaleRows]
  BY <1>1, <1>2
<1>4. Left' = {} /\ Came' = {}
  BY <1>2 DEF Left, Came
<1>5. SalesFit'
  BY <1>2 DEF SalesFit
<1>6. row'.stock = units => NodeCountsKept'
  BY <1>1, <1>4, BookAfter, SumEmpty
<1> QED
  BY <1>1, <1>3, <1>5, <1>6

LEMMA RowsStep ==
    ASSUME NodesInv,
           \/ \E units, reserved \in Units, available \in BOOLEAN : CreateRow(units, reserved, available)
           \/ DeleteRow
    PROVE  NodesInv'
<1> USE DEF NodesInv
<1>1. UNCHANGED <<keeper, goods, node, foreign>> /\ Moved
  BY DEF CreateRow, DeleteRow
<1>2. PICK units \in Nat : Recount(units, FALSE) /\ row' \in InventoryRows /\ row'.stock = units
  <2>1. Units \subseteq Nat /\ 0 \in Units
    BY NodesAssumption DEF Units
  <2>2. CASE DeleteRow
    BY <2>1, <2>2 DEF DeleteRow, NoRow, InventoryRows
  <2>3. CASE \E units, reserved \in Units, available \in BOOLEAN : CreateRow(units, reserved, available)
    <3>1. PICK units \in Units, reserved \in Units, available \in BOOLEAN :
             CreateRow(units, reserved, available)
      BY <2>3
    <3> QED
      BY <2>1, <3>1 DEF CreateRow, InventoryRows
  <2> QED
    BY <2>2, <2>3
<1>3. NodesTypeOK'
  BY <1>1, <1>2, AllMoved, Recounted DEF NodesTypeOK
<1> QED
  BY <1>1, <1>2, <1>3, AllMoved, Recounted

\* A row of another vendor's product, which is nobody's reading.
LEMMA ForeignStep ==
    ASSUME NodesInv, NEW stocked \in BOOLEAN, SetForeign(stocked)
    PROVE  NodesInv'
<1>1. foreign' \in BOOLEAN /\ UNCHANGED <<keeper, goods, node, row, sale, editing, filling, counted>>
  BY DEF SetForeign
<1>2. NodesTypeOK' /\ ReadingsCurrent'
  BY <1>1 DEF NodesInv, NodesTypeOK, ReadingsCurrent, NodePayload, FillStock, Larger, AvailableForNode
<1> QED
  BY <1>1, <1>2, RowStays DEF NodesInv

LEMMA DeleteNodeStep ==
    ASSUME NodesInv, DeleteNode
    PROVE  NodesInv'
<1> USE DEF NodesInv
<1>1. /\ node' = NoNodeRow /\ row' = NoRow /\ foreign' = FALSE /\ Moved /\ UNCHANGED <<keeper, goods>>
      /\ sale' = [o \in NodeOrders |-> [sale[o] EXCEPT !.atNode = FALSE, !.left = FALSE, !.came = FALSE]]
      /\ counted' = [units |-> 0, unreliable |-> FALSE]
  BY DEF DeleteNode
<1>2. NoNodeRow \in NodeRows /\ NoRow \in InventoryRows /\ ~NoRow.exists
  <2>1. 0 \in Units
    BY NodesAssumption DEF Units
  <2> QED
    BY <2>1 DEF NoNodeRow, NodeRows, Owners, NoRow, InventoryRows
<1>3. ASSUME NEW o \in NodeOrders
      PROVE  sale'[o] \in SaleRows /\ ~sale'[o].left /\ ~sale'[o].came
  BY <1>1 DEF NodesTypeOK, SaleRows
<1>4. sale' \in [NodeOrders -> SaleRows]
  BY <1>1, <1>3
<1>5. NodesTypeOK'
  BY <1>1, <1>2, <1>4, AllMoved DEF NodesTypeOK
<1>6. SalesFit' /\ NodeCountsKept'
  BY <1>1, <1>2, <1>3 DEF SalesFit, NodeCountsKept
<1> QED
  BY <1>1, <1>5, <1>6, AllMoved

LEMMA EditStep ==
    ASSUME NodesInv, NEW stated \in BOOLEAN, NEW units \in Units, NEW reserved \in Units,
           NEW available \in BOOLEAN, EditSaves(stated, units, reserved, available)
    PROVE  NodesInv'
<1> USE DEF NodesInv
<1> DEFINE stock == IF stated THEN units ELSE editing.stock
<1>1. stock \in Nat
  BY NodesAssumption, NodeColumns DEF Units
<1>2. /\ editing.on
      /\ row' = [exists |-> TRUE, stock |-> stock, reserved |-> reserved, available |-> available]
      /\ IF stated \/ ~row.exists \/ editing.moved
         THEN Recount(stock, ~stated /\ editing.moved)
         ELSE UNCHANGED <<counted, sale>>
      /\ editing' = NotEditing
      /\ filling' = [filling EXCEPT !.moved = filling.on]
      /\ UNCHANGED <<keeper, goods, node, foreign>>
  BY DEF EditSaves
<1> HIDE DEF stock
<1>3. row' \in InventoryRows /\ row'.exists /\ row'.stock = stock
  BY <1>1, <1>2 DEF InventoryRows
<1>4. /\ filling' \in Fillings /\ filling'.on = filling.on /\ filling'.moved = filling.on
      /\ editing' \in [on : BOOLEAN, stock : Nat, moved : BOOLEAN] /\ ~editing'.on
  BY <1>2 DEF NotEditing, Fillings, NodesTypeOK
<1>5. /\ sale' \in [NodeOrders -> SaleRows] /\ counted' \in [units : Nat, unreliable : BOOLEAN]
      /\ SalesFit' /\ NodeCountsKept'
  <2>1. CASE stated \/ ~row.exists \/ editing.moved
    <3>1. (~stated /\ editing.moved) \in BOOLEAN
      OBVIOUS
    <3> QED
      BY <1>1, <1>2, <1>3, <2>1, <3>1, Recounted
  <2>2. CASE ~(stated \/ ~row.exists \/ editing.moved)
    <3>1. UNCHANGED <<counted, sale>> /\ row.exists /\ row'.stock = row.stock
      BY <1>2, <1>3, <2>2, NodeColumns DEF ReadingsCurrent, stock
    <3> QED
      BY <1>3, <3>1 DEF NodesTypeOK, SalesFit, NodeCountsKept, UnitsOf
  <2> QED
    BY <2>1, <2>2
<1>6. NodesTypeOK'
  BY <1>2, <1>3, <1>4, <1>5 DEF NodesTypeOK
<1>7. ReadingsCurrent'
  BY <1>4 DEF ReadingsCurrent
<1> QED
  BY <1>5, <1>6, <1>7

LEMMA CommitStep ==
    ASSUME NodesInv, BackfillCommits
    PROVE  NodesInv'
<1> USE DEF NodesInv
<1>1. /\ node' = (IF ~node.exists THEN filling.node
                   ELSE IF filling.sync THEN [filling.node EXCEPT !.vendor = node.vendor]
                   ELSE node)
      /\ filling' = NotFilling /\ editing' = [editing EXCEPT !.moved = editing.on]
      /\ UNCHANGED <<keeper, goods, foreign>>
  BY DEF BackfillCommits
<1>2. /\ node' \in NodeRows /\ filling' \in Fillings /\ ~filling'.on
      /\ editing' \in [on : BOOLEAN, stock : Nat, moved : BOOLEAN] /\ editing'.moved = editing'.on
  <2>1. node' \in NodeRows
    BY <1>1, NodeColumns DEF NodesTypeOK, NodeRows
  <2>2. filling' \in Fillings /\ ~filling'.on
    BY <1>1 DEF NotFilling, Fillings, NoNodeRow, NodeRows, Owners
  <2> QED
    BY <1>1, <2>1, <2>2 DEF NodesTypeOK
<1>3. /\ row' \in InventoryRows
      /\ sale' \in [NodeOrders -> SaleRows] /\ counted' \in [units : Nat, unreliable : BOOLEAN]
      /\ SalesFit' /\ NodeCountsKept'
  <2>1. CASE filling.sync \/ ~filling.rowFound
    <3>1. /\ row' = [exists |-> TRUE, stock |-> filling.stock, reserved |-> row.reserved,
                     available |-> filling.available]
          /\ Recount(filling.stock, filling.moved)
      BY <2>1 DEF BackfillCommits
    <3>2. row' \in InventoryRows /\ row'.stock = filling.stock
      BY <3>1, NodeColumns DEF InventoryRows
    <3> QED
      BY <3>1, <3>2, NodeColumns, Recounted
  <2>2. CASE ~(filling.sync \/ ~filling.rowFound)
    <3>1. UNCHANGED <<row, counted, sale>>
      BY <2>2 DEF BackfillCommits
    <3> QED
      BY <3>1, RowStays DEF NodesTypeOK
  <2> QED
    BY <2>1, <2>2
<1>4. NodesTypeOK'
  BY <1>1, <1>2, <1>3 DEF NodesTypeOK
<1>5. ReadingsCurrent'
  BY <1>2 DEF ReadingsCurrent
<1> QED
  BY <1>3, <1>4, <1>5
-----------------------------------------------------------------------------
(* Orders.                                                                 *)

LEMMA TakeStep ==
    ASSUME NodesInv, NEW o \in NodeOrders, NEW units \in 1..MaxUnits, TakeUnits(o, units)
    PROVE  NodesInv'
<1> USE DEF NodesInv
<1>1. /\ sale[o].state = "none" /\ units <= goods.stock
      /\ row.exists => row.stock - row.reserved >= units
      /\ row' = (IF row.exists
                 THEN [row EXCEPT !.stock = @ - units, !.available = row.stock > units]
                 ELSE row)
      /\ goods' = [goods EXCEPT !.stock = @ - units]
      /\ sale' = [sale EXCEPT ![o] = [state |-> "held", units |-> units, atNode |-> TRUE,
                                      left |-> row.exists, came |-> FALSE]]
      /\ Moved /\ UNCHANGED <<keeper, node, foreign, counted>>
  BY DEF TakeUnits, Sellable
<1>2. units \in Nat /\ units \in Units
  BY NodesAssumption DEF Units
<1>3. /\ row' \in InventoryRows /\ row'.exists = row.exists
      /\ row.exists => row'.stock = row.stock - units
  <2>1. CASE row.exists
    <3>1. row' = [row EXCEPT !.stock = @ - units, !.available = row.stock > units]
      BY <1>1, <2>1
    <3>2. row.stock - units \in Nat /\ (row.stock > units) \in BOOLEAN
      BY <1>1, <1>2, <2>1, NodeColumns
    <3> QED
      BY <3>1, <3>2 DEF NodesTypeOK, InventoryRows
  <2>2. CASE ~row.exists
    BY <1>1, <2>2 DEF NodesTypeOK
  <2> QED
    BY <2>1, <2>2
<1>4. goods' \in [stock : Nat, listed : BOOLEAN]
  <2>1. goods.stock - units \in Nat
    BY <1>1, <1>2, NodeColumns
  <2> QED
    BY <1>1, <2>1 DEF NodesTypeOK
<1>5. /\ sale' \in [NodeOrders -> SaleRows]
      /\ sale'[o].state = "held" /\ sale'[o].units = units /\ sale'[o].atNode
      /\ sale'[o].left = row.exists /\ ~sale'[o].came
      /\ \A x \in NodeOrders \ {o} : sale'[x] = sale[x]
  BY <1>1, <1>2, NodeColumns DEF NodesTypeOK, SaleRows
<1>6. NodesTypeOK'
  BY <1>1, <1>3, <1>4, <1>5, AllMoved DEF NodesTypeOK
<1>7. SalesFit'
  BY <1>1, <1>3, <1>5 DEF SalesFit
<1>8. o \notin Left /\ o \notin Came
  BY <1>1 DEF SalesFit, Left, Came
<1>9. NodeCountsKept'
  <2> SUFFICES ASSUME row.exists, ~counted.unreliable
               PROVE  row'.stock + SumFunctionOnSet([x \in NodeOrders |-> sale'[x].units], Left')
                        = counted.units + SumFunctionOnSet([x \in NodeOrders |-> sale'[x].units], Came')
    BY <1>1, <1>3, BookAfter
  <2>1. Left' = Left \cup {o} /\ Came' = Came
    BY <1>5, <1>8 DEF Left, Came
  <2>2. \A x \in Left \cup Came : sale'[x].units = sale[x].units
    BY <1>5, <1>8 DEF Left, Came
  <2>3. SumFunctionOnSet([x \in NodeOrders |-> sale'[x].units], Left \cup {o}) = UnitsOf(Left) + units
    BY <1>5, <1>6, <1>8, <2>2, UnitsMore, OrdersFinite
  <2>4. SumFunctionOnSet([x \in NodeOrders |-> sale'[x].units], Came) = UnitsOf(Came)
    BY <2>2, UnitsSame, OrdersFinite
  <2>5. row.stock + UnitsOf(Left) = counted.units + UnitsOf(Came)
    BY Book
  <2>6. UnitsOf(Left) \in Nat /\ UnitsOf(Came) \in Nat
    BY UnitsInt, OrdersFinite
  <2> QED
    BY <1>2, <1>3, <2>1, <2>3, <2>4, <2>5, <2>6, NodeColumns
<1> QED
  BY <1>1, <1>6, <1>7, <1>9, AllMoved

LEMMA ReturnStep ==
    ASSUME NodesInv, NEW o \in NodeOrders, ReturnUnits(o)
    PROVE  NodesInv'
<1> USE DEF NodesInv
<1> DEFINE restored == sale[o].atNode /\ row.exists
           units == sale[o].units
<1>1. /\ sale[o].state = "held"
      /\ goods' = [goods EXCEPT !.stock = @ + units]
      /\ row' = (IF restored THEN [row EXCEPT !.stock = @ + units, !.available = TRUE] ELSE row)
      /\ sale' = [sale EXCEPT ![o].state = "returned", ![o].left = @ /\ ~restored,
                              ![o].came = restored /\ ~sale[o].left]
      /\ Moved /\ UNCHANGED <<keeper, node, foreign, counted>>
  BY DEF ReturnUnits, Returnable
<1>2. units \in Nat /\ units \in Units /\ sale[o] \in SaleRows /\ restored \in BOOLEAN
  BY NodeColumns DEF NodesTypeOK, SaleRows
<1>3. ~sale[o].came /\ (sale[o].left => restored)
  BY <1>1 DEF SalesFit
<1> DEFINE returned == [sale[o] EXCEPT !.state = "returned", !.left = @ /\ ~restored,
                                       !.came = restored /\ ~sale[o].left]
<1>4. sale' = [sale EXCEPT ![o] = returned]
  BY <1>1 DEF NodesTypeOK
<1>5. returned \in SaleRows /\ returned.state = "returned" /\ returned.units = units /\ ~returned.left
      /\ (returned.came <=> restored /\ ~sale[o].left)
  BY <1>2, <1>3 DEF SaleRows
<1> HIDE DEF returned
<1>6. /\ sale' \in [NodeOrders -> SaleRows]
      /\ sale'[o].state = "returned" /\ sale'[o].units = units /\ ~sale'[o].left
      /\ (sale'[o].came <=> restored /\ ~sale[o].left)
      /\ \A x \in NodeOrders \ {o} : sale'[x] = sale[x]
  BY <1>4, <1>5 DEF NodesTypeOK
<1> HIDE DEF restored
<1>7. /\ row' \in InventoryRows /\ row'.exists = row.exists
      /\ row'.stock = IF restored THEN row.stock + units ELSE row.stock
  <2>1. row.stock + units \in Nat
    BY <1>2, NodeColumns
  <2> QED
    BY <1>1, <2>1 DEF NodesTypeOK, InventoryRows
<1>8. goods' \in [stock : Nat, listed : BOOLEAN]
  <2>1. goods.stock + units \in Nat
    BY <1>2, NodeColumns
  <2> QED
    BY <1>1, <2>1 DEF NodesTypeOK
<1>9. NodesTypeOK'
  BY <1>1, <1>6, <1>7, <1>8, AllMoved DEF NodesTypeOK
<1>10. SalesFit'
  BY <1>6, <1>7 DEF SalesFit
<1>11. NodeCountsKept'
  <2> DEFINE Sum2(S) == SumFunctionOnSet([x \in NodeOrders |-> sale'[x].units], S)
  <2> SUFFICES ASSUME row.exists, ~counted.unreliable
               PROVE  row'.stock + Sum2(Left') = counted.units + Sum2(Came')
    BY <1>1, <1>7, BookAfter
  <2>1. \A x \in NodeOrders : sale'[x].units = sale[x].units
    BY <1>6
  <2>2. row.stock + UnitsOf(Left) = counted.units + UnitsOf(Came)
    BY Book
  <2>3. UnitsOf(Left) \in Nat /\ UnitsOf(Came) \in Nat /\ row.stock \in Nat /\ counted.units \in Nat
    BY UnitsInt, OrdersFinite, NodeColumns
  <2>4. CASE sale[o].left
    <3>1. o \in Left /\ Left' = Left \ {o} /\ Came' = Came /\ restored
      BY <1>3, <1>6, <2>4 DEF Left, Came
    <3>2. Sum2(Left \ {o}) = UnitsOf(Left) - units
      BY <2>1, <3>1, UnitsFewer, OrdersFinite
    <3>3. Sum2(Came) = UnitsOf(Came)
      BY <2>1, UnitsSame, OrdersFinite
    <3> HIDE DEF Sum2, units
    <3> QED
      BY <1>2, <1>7, <2>2, <2>3, <3>1, <3>2, <3>3
  <2>5. CASE ~sale[o].left /\ restored
    <3>1. Left' = Left /\ Came' = Came \cup {o} /\ o \notin Came
      BY <1>3, <1>6, <2>5 DEF Left, Came
    <3>2. Sum2(Came \cup {o}) = UnitsOf(Came) + units
      BY <1>6, <1>9, <2>1, <3>1, UnitsMore, OrdersFinite
    <3>3. Sum2(Left) = UnitsOf(Left)
      BY <2>1, UnitsSame, OrdersFinite
    <3> HIDE DEF Sum2, units
    <3> QED
      BY <1>2, <1>7, <2>2, <2>3, <2>5, <3>1, <3>2, <3>3
  <2>6. CASE ~sale[o].left /\ ~restored
    <3>1. Left' = Left /\ Came' = Came
      BY <1>3, <1>6, <2>6 DEF Left, Came
    <3>2. Sum2(Came) = UnitsOf(Came) /\ Sum2(Left) = UnitsOf(Left)
      BY <2>1, UnitsSame, OrdersFinite
    <3> HIDE DEF Sum2, units
    <3> QED
      BY <1>7, <2>2, <2>6, <3>1, <3>2
  <2> QED
    BY <2>4, <2>5, <2>6
<1> QED
  BY <1>1, <1>9, <1>10, <1>11, AllMoved
-----------------------------------------------------------------------------
LEMMA NodesInvStep == NodesInv /\ [NodesNext]_nodeVars => NodesInv'
<1> SUFFICES ASSUME NodesInv, [NodesNext]_nodeVars PROVE NodesInv'
  OBVIOUS
<1>1. CASE UNCHANGED nodeVars
  <2>1. UNCHANGED <<keeper, goods, node, row, foreign, sale, editing, filling, counted>>
    BY <1>1 DEF nodeVars
  <2>2. NodesTypeOK' /\ ReadingsCurrent'
    BY <2>1 DEF NodesInv, NodesTypeOK, ReadingsCurrent, NodePayload, FillStock, Larger, AvailableForNode
  <2> QED
    BY <2>1, <2>2, RowStays DEF NodesInv
<1>2. CASE \E o \in NodeOrders : (\E units \in 1..MaxUnits : TakeUnits(o, units)) \/ ReturnUnits(o)
  BY <1>2, TakeStep, ReturnStep
<1>3. CASE \/ \E approved, open, intake \in BOOLEAN : UpdateStore(approved, open, intake)
           \/ \E units \in Units, listed \in BOOLEAN : UpdateGoods(units, listed)
           \/ \E active, accepting, vendorStore \in BOOLEAN, vendor \in Owners :
                 SaveNode(active, accepting, vendor, vendorStore)
  BY <1>3, StoreStep
<1>4. CASE \E units, reserved \in Units, available \in BOOLEAN :
              \/ CreateRow(units, reserved, available)
              \/ \E stated \in BOOLEAN : EditSaves(stated, units, reserved, available)
  BY <1>4, RowsStep, EditStep
<1>5. CASE EditReads \/ (\E sync \in BOOLEAN : BackfillReads(sync)) \/ BackfillRollsBack
  BY <1>5, ReadingStep
<1>6. CASE \E stocked \in BOOLEAN : SetForeign(stocked)
  BY <1>6, ForeignStep
<1> QED
  BY <1>1, <1>2, <1>3, <1>4, <1>5, <1>6, DeleteNodeStep, RowsStep, CommitStep DEF NodesNext

LEMMA NodesInvariant == NodesSpec => []NodesInv
BY NodesInitInv, NodesInvStep, PTL DEF NodesSpec

\* Nodes, rows, orders and the backfill's readings are what Nodes says they are, for any
\* orders and quantities.
THEOREM NodesTypes == NodesSpec => []NodesTypeOK
BY NodesInvariant, PTL DEF NodesInv

\* The row of a node says what was last counted, less what left it and plus what came back,
\* for any orders and quantities: create_orders.py, inventory_reservations.py, the back
\* office's editor and the backfill in any order.
THEOREM NodeCounts == NodesSpec => []NodeCountsKept
BY NodesInvariant, PTL DEF NodesInv

\* A backfill that synchronises an approved store with both switches on, and that nothing
\* disturbs, leaves a store that the audit finds ready, for any stocks; unless all of the
\* stock is reserved, the node has been taken from the store, or another vendor's product
\* is there: BackfillVendorFulfillmentNodesAction and FulfillmentReadinessAuditAction.
THEOREM BackfillSuffices == NodesSpec => BackfillMakesReady
<1> DEFINE Undisturbed == /\ BackfillCommits /\ filling.sync /\ ~filling.moved
                          /\ keeper = [approved |-> TRUE, open |-> TRUE, intake |-> TRUE]
                          /\ (goods.stock = 0 \/ row.reserved < goods.stock)
                          /\ (node.exists => node.vendor = "store") /\ ~foreign
<1>1. NodesInv /\ Undisturbed => AuditReady'
  <2> SUFFICES ASSUME NodesInv, Undisturbed PROVE AuditReady'
    OBVIOUS
  <2>1. /\ filling.on /\ UNCHANGED <<keeper, goods, foreign>>
        /\ node' = IF ~node.exists THEN filling.node
                   ELSE [filling.node EXCEPT !.vendor = node.vendor]
        /\ row' = [exists |-> TRUE, stock |-> filling.stock, reserved |-> row.reserved,
                   available |-> filling.available]
    BY DEF BackfillCommits
  <2>2. /\ filling.node = NodePayload /\ filling.stock = FillStock
        /\ filling.available = AvailableForNode
    BY <2>1 DEF NodesInv, ReadingsCurrent
  <2>3. node' = [exists |-> TRUE, active |-> TRUE, accepting |-> TRUE, vendor |-> "store",
                 vendorStore |-> TRUE]
    <3>1. filling.node = [exists |-> TRUE, active |-> TRUE, accepting |-> TRUE, vendor |-> "store",
                          vendorStore |-> TRUE]
      BY <2>2 DEF NodePayload
    <3> QED
      BY <2>1, <3>1
  <2>4. ~MissingNode' /\ ~Mismatched'
    BY <2>1, <2>3 DEF MissingNode, OpenForOrders, Mismatched
  <2>5. row.reserved \in Nat /\ goods.stock \in Nat
    BY NodeColumns DEF NodesInv
  <2>6. /\ row'.exists /\ row'.reserved = row.reserved
        /\ row'.stock = Larger(row.reserved, goods.stock) /\ row'.available = AvailableForNode
    BY <2>1, <2>2 DEF FillStock
  <2>7. ~OverReserved'
    BY <2>5, <2>6 DEF OverReserved, Larger
  <2>8. ~MissingInventory'
    <3> SUFFICES ASSUME goods'.listed, goods'.stock > 0
                 PROVE  /\ node'.exists /\ node'.active /\ node'.accepting
                        /\ row'.exists /\ row'.available
                        /\ row'.stock > 0 /\ row'.stock - row'.reserved > 0
      BY DEF MissingInventory, OpenForOrders, Sellable
    <3>1. goods.listed /\ goods.stock > 0
      BY <2>1
    <3>2. AvailableForNode
      BY <3>1 DEF AvailableForNode
    <3>3. row.reserved < goods.stock
      BY <2>5, <3>1
    <3>4. row'.stock = goods.stock
      BY <2>5, <2>6, <3>3 DEF Larger
    <3>5. row'.stock > 0 /\ row'.stock - row'.reserved > 0
      BY <2>5, <2>6, <3>1, <3>3, <3>4
    <3> QED
      BY <2>3, <2>6, <3>2, <3>5
  <2> QED
    BY <2>4, <2>7, <2>8 DEF AuditReady
<1>2. NodesInv /\ [NodesNext]_nodeVars => [Undisturbed => AuditReady']_nodeVars
  BY <1>1
<1> QED
  BY <1>2, NodesInvariant, PTL DEF NodesSpec, BackfillMakesReady
-----------------------------------------------------------------------------
(***************************************************************************)
(* Quotes: what a customer is shown and what an order costs.               *)
(***************************************************************************)

\* What both checks ask for, apart from the store being open.
Terms(confirmed) ==
    /\ basket # NoBasket
    /\ basket.subtotal >= MinimumOrder
    /\ basket.subtotal >= chosen.coupon.least
    /\ IsServiceable
    /\ IsFar => confirmed

\* A current quote is what the code that showed it computes from what there is now.
Quoted ==
    shown # NothingShown /\ shown.current =>
        \E wallet \in WalletAmounts, points \in Points, confirmed \in BOOLEAN :
            /\ shown.wallet = wallet /\ shown.points = points /\ shown.confirmed = confirmed
            /\ Terms(confirmed)
            /\ \/ shown.by = "order" /\ shown.charges = OrderCharges(wallet, points)
               \/ shown.by = "preview" /\ points = 0 /\ shown.charges = PreviewCharges(wallet)

PricedTypes ==
    /\ settings \in SettingRows
    /\ basket \in Baskets \cup {NoBasket}
    /\ chosen.coupon \in Coupons \cup {NoCoupon} /\ chosen.place \in Places

QuotesInv == PricedTypes /\ Quoted
-----------------------------------------------------------------------------
(* Rounding.                                                               *)

\* A rounded number is a half away at most ...
LEMMA QuantizeNear ==
    ASSUME NEW n \in Int
    PROVE  /\ Quantize(n, 100) \in Int
           /\ n - 50 <= 100 * Quantize(n, 100) /\ 100 * Quantize(n, 100) <= n + 50
BY DEF Quantize

LEMMA QuantizeNearTax ==
    ASSUME NEW n \in Int
    PROVE  /\ Quantize(n, 1000000) \in Int
           /\ n - 500000 <= 1000000 * Quantize(n, 1000000)
           /\ 1000000 * Quantize(n, 1000000) <= n + 500000
BY SMT DEF Quantize

\* ... is the number itself if that is whole, ...
LEMMA QuantizeWhole ==
    ASSUME NEW n \in Int, Whole(n)
    PROVE  100 * Quantize(n, 100) = n
BY DEF Quantize, Whole

\* ... and moves by the same when the number moves by an even whole.
LEMMA QuantizeShift ==
    ASSUME NEW n \in Int
    PROVE  Quantize(n + 200, 100) = Quantize(n, 100) + 2
<1>1. (n + 200) \div 100 = n \div 100 + 2 /\ (n + 200) % 100 = n % 100
  OBVIOUS
<1>2. (n \div 100 + 2) % 2 = (n \div 100) % 2 /\ n \div 100 \in Int
  OBVIOUS
<1> QED
  BY <1>1, <1>2 DEF Quantize

LEMMA QuantizeGrows ==
    ASSUME NEW m \in Int, NEW n \in Int, m <= n
    PROVE  Quantize(m, 100) <= Quantize(n, 100)
<1>1. CASE m = n
  BY <1>1, QuantizeNear
<1>2. CASE m < n
  BY <1>2, QuantizeNear
<1> QED
  BY <1>1, <1>2

\* Numbers that are no more than two apart are rounded to numbers no more than two apart.
LEMMA QuantizeClose ==
    ASSUME NEW m \in Int, NEW n \in Int, m - n \in -200..200
    PROVE  Quantize(m, 100) - Quantize(n, 100) \in -2..2
<1>1. m <= n + 200 /\ n <= m + 200 /\ n + 200 \in Int /\ m + 200 \in Int
  OBVIOUS
<1>2. Quantize(m, 100) <= Quantize(n, 100) + 2
  BY <1>1, QuantizeGrows, QuantizeShift
<1>3. Quantize(n, 100) <= Quantize(m, 100) + 2
  BY <1>1, QuantizeGrows, QuantizeShift
<1>4. Quantize(m, 100) \in Int /\ Quantize(n, 100) \in Int
  BY QuantizeNear
<1> QED
  BY <1>2, <1>3, <1>4

\* What is half a paisa apart is taxed half a paisa apart at most, at any rate, ...
LEMMA ScaledClose ==
    ASSUME NEW m \in Int, NEW n \in Int, NEW rate \in Nat, rate <= 10000, m - n \in -50..50
    PROVE  /\ m * rate \in Int /\ n * rate \in Int
           /\ -500000 <= m * rate - n * rate /\ m * rate - n * rate <= 500000
<1>1. m * rate \in Int /\ n * rate \in Int
  OBVIOUS
<1>2. m * rate - n * rate = (m - n) * rate
  BY SMT
<1>3. -500000 <= (m - n) * rate /\ (m - n) * rate <= 500000
  <2> DEFINE e == m - n
  <2>1. e \in Int /\ -50 <= e /\ e <= 50 /\ rate \in Int /\ 0 <= rate /\ rate <= 10000
    BY SMT
  <2>2. e * rate <= 50 * rate /\ (-50) * rate <= e * rate /\ e * rate \in Int
    BY SMT, <2>1
  <2> QED
    BY SMT, <2>1, <2>2
<1> QED
  BY SMT, <1>1, <1>2, <1>3

\* ... and so the taxes differ by one paisa at most.
LEMMA TaxClose ==
    ASSUME NEW x \in Int, NEW y \in Int, -500000 <= x - y, x - y <= 500000
    PROVE  /\ Quantize(x, 1000000) \in Int /\ Quantize(y, 1000000) \in Int
           /\ Quantize(x, 1000000) - Quantize(y, 1000000) \in -1..1
<1>1. /\ Quantize(x, 1000000) \in Int /\ Quantize(y, 1000000) \in Int
      /\ x - 500000 <= 1000000 * Quantize(x, 1000000)
      /\ 1000000 * Quantize(x, 1000000) <= x + 500000
      /\ y - 500000 <= 1000000 * Quantize(y, 1000000)
      /\ 1000000 * Quantize(y, 1000000) <= y + 500000
  BY SMT, QuantizeNearTax
<1> QED
  BY SMT, <1>1
-----------------------------------------------------------------------------
(* Charges.                                                                *)

\* The amounts that the charges are computed from
LEMMA Priced ==
    ASSUME PricedTypes
    PROVE  /\ settings.base \in Nat /\ settings.perKm \in Nat /\ settings.freeAbove \in Nat
           /\ settings.tax \in Nat /\ settings.tax <= 10000
           /\ FlatFees \in Int
           /\ basket.subtotal \in Nat
           /\ chosen.coupon.value \in Int /\ chosen.coupon.cap \in Nat
           /\ chosen.place.distance \in Nat
<1>1. /\ settings.base \in Nat /\ settings.perKm \in Nat /\ settings.freeAbove \in Nat
      /\ settings.platform \in Nat /\ settings.packaging \in Nat /\ settings.surge \in Nat
      /\ settings.threshold \in Nat /\ settings.smallFee \in Nat
      /\ settings.tax \in Nat /\ settings.tax <= 10000
  BY SMT, QuotesAssumption DEF PricedTypes
<1>2. basket.subtotal \in Nat
  BY SMT, QuotesAssumption DEF PricedTypes, NoBasket
<1>3. chosen.coupon.value \in Int /\ chosen.coupon.cap \in Nat
  BY SMT, QuotesAssumption DEF PricedTypes, NoCoupon
<1>4. chosen.place.distance \in Nat
  BY SMT, QuotesAssumption DEF PricedTypes
<1>5. FlatFees \in Int
  BY <1>1, <1>2 DEF FlatFees, SmallCartFee
<1> QED
  BY <1>1, <1>2, <1>3, <1>4, <1>5

LEMMA DeliveryInt ==
    ASSUME PricedTypes
    PROVE  DeliveryQuote \in Int
<1>1. settings.perKm * chosen.place.distance \in Int
  BY SMT, Priced
<1> QED
  BY <1>1, SMT, Priced DEF DeliveryQuote

LEMMA DiscountInt ==
    ASSUME PricedTypes
    PROVE  Discount(basket.subtotal) \in Int
<1>1. basket.subtotal * chosen.coupon.value \in Int
  BY SMT, Priced
<1> QED
  BY <1>1, SMT, Priced DEF Discount, Least

\* The tax on two discounts that are half a paisa apart
LEMMA TaxesClose ==
    ASSUME PricedTypes, NEW m \in Int, NEW n \in Int, m - n \in -50..50
    PROVE  Tax(m) \in Int /\ Tax(n) \in Int /\ Tax(m) - Tax(n) \in -1..1
<1> DEFINE base(d) == Most(100 * basket.subtotal - d, 0) + 100 * FlatFees
<1>1. base(m) \in Int /\ base(n) \in Int /\ base(m) - base(n) \in -50..50
  BY SMT, Priced DEF Most
<1>2. settings.tax \in Nat /\ settings.tax <= 10000
  BY SMT, Priced
<1>3. /\ Tax(m) = Quantize(base(m) * settings.tax, 1000000)
      /\ Tax(n) = Quantize(base(n) * settings.tax, 1000000)
  BY SMT DEF Tax
<1> DEFINE x == base(m) * settings.tax
           y == base(n) * settings.tax
<1> HIDE DEF base
<1>4. x \in Int /\ y \in Int /\ -500000 <= x - y /\ x - y <= 500000
  BY SMT, <1>1, <1>2, ScaledClose
<1>5. Tax(m) = Quantize(x, 1000000) /\ Tax(n) = Quantize(y, 1000000)
  BY SMT, <1>3
<1> HIDE DEF x, y
<1> QED
  BY SMT, <1>4, <1>5, TaxClose

\* Without points nothing is paid with points.
LEMMA NoPoints ==
    ASSUME PricedTypes
    PROVE  PointsDiscount(0) = 0
<1> DEFINE fifth == 20 * basket.subtotal
<1>1. fifth \in Int /\ fifth >= 0
  BY SMT, Priced
<1>2. Quantize(fifth, 100) \in Int /\ Quantize(fifth, 100) >= 0
  <2> HIDE DEF fifth
  <2>1. Quantize(fifth, 100) \in Int /\ fifth - 50 <= 100 * Quantize(fifth, 100)
    BY <1>1, QuantizeNear
  <2> QED
    BY <1>1, <2>1
<1> QED
  BY <1>2 DEF PointsDiscount, Least

\* A preview without such a coupon is off by two paise at most, ...
LEMMA PayablesClose ==
    ASSUME PricedTypes, NEW wallet \in Nat, ~FreeDelivery
    PROVE  OrderCharges(wallet, 0).payable - PreviewCharges(wallet).payable \in -2..2
<1> DEFINE fee   == DeliveryQuote
           off   == Discount(basket.subtotal)
           qFee  == Quantize(fee, 100)
           qOff  == Quantize(off, 100)
           taxO  == Tax(100 * qOff)
           taxP  == Tax(off)
           s     == basket.subtotal
           flat  == FlatFees
           dueO  == 100 * (s + flat + taxO - qOff - wallet - PointsDiscount(0)) + fee
           dueP  == 100 * (s + qFee + flat + taxP - wallet) - off
<1>1. /\ OrderCharges(wallet, 0).payable = Quantize(Most(dueO, 0), 100)
      /\ PreviewCharges(wallet).payable = Quantize(Most(dueP, 0), 100)
  BY DEF OrderCharges, PreviewCharges, Breakup
<1>2. fee \in Int /\ off \in Int /\ s \in Int /\ flat \in Int
  BY DeliveryInt, DiscountInt, Priced
<1>3. qFee \in Int /\ qOff \in Int /\ fee - 100 * qFee \in -50..50 /\ off - 100 * qOff \in -50..50
  <2> HIDE DEF fee, off
  <2>1. qFee \in Int /\ fee - 50 <= 100 * qFee /\ 100 * qFee <= fee + 50
    BY <1>2, QuantizeNear
  <2>2. qOff \in Int /\ off - 50 <= 100 * qOff /\ 100 * qOff <= off + 50
    BY <1>2, QuantizeNear
  <2> HIDE DEF qFee, qOff
  <2> QED
    BY <1>2, <2>1, <2>2
<1>4. taxO \in Int /\ taxP \in Int /\ taxO - taxP \in -1..1
  <2>1. 100 * qOff \in Int /\ 100 * qOff - off \in -50..50
    <3> HIDE DEF off, qOff
    <3> QED
      BY SMT, <1>2, <1>3
  <2> DEFINE whole == 100 * qOff
  <2> HIDE DEF off, whole
  <2>2. whole \in Int /\ whole - off \in -50..50
    BY <2>1 DEF whole
  <2>3. Tax(whole) \in Int /\ Tax(off) \in Int /\ Tax(whole) - Tax(off) \in -1..1
    BY <1>2, <2>2, TaxesClose
  <2> QED
    BY <2>3 DEF whole
<1>5. PointsDiscount(0) = 0
  BY NoPoints
<1>6. dueO \in Int /\ dueP \in Int /\ dueO - dueP \in -200..200
  <2> HIDE DEF fee, off, qFee, qOff, taxO, taxP, s, flat
  <2> QED
    BY <1>2, <1>3, <1>4, <1>5
<1> HIDE DEF dueO, dueP
<1>7. Most(dueO, 0) \in Int /\ Most(dueP, 0) \in Int /\ Most(dueO, 0) - Most(dueP, 0) \in -200..200
  BY <1>6 DEF Most
<1> QED
  BY <1>1, <1>7, QuantizeClose

\* ... and one that rounds nothing is what the order computes.
LEMMA SameCharges ==
    ASSUME PricedTypes, NEW wallet \in Nat, Reproducible
    PROVE  PreviewCharges(wallet) = OrderCharges(wallet, 0)
<1> DEFINE fee   == DeliveryQuote
           off   == Discount(basket.subtotal)
           qFee  == Quantize(fee, 100)
           qOff  == Quantize(off, 100)
<1>1. fee \in Int /\ off \in Int /\ qFee \in Int /\ qOff \in Int
  BY DeliveryInt, DiscountInt, QuantizeNear
<1>2. 100 * qFee = fee /\ 100 * qOff = off
  BY <1>1, QuantizeWhole DEF Reproducible
<1>3. basket.subtotal \in Int /\ FlatFees \in Int /\ PointsDiscount(0) = 0
  BY Priced, NoPoints
<1>4. Tax(off) \in Int
  BY <1>1, TaxesClose
<1>5. CASE ~FreeDelivery
  <2>1. /\ PreviewCharges(wallet) = Breakup(qOff, qFee, Tax(off),
              Quantize(Most(100 * (basket.subtotal + qFee + FlatFees + Tax(off) - wallet) - off, 0), 100))
        /\ OrderCharges(wallet, 0) = Breakup(qOff, qFee, Tax(100 * qOff),
              Quantize(Most(100 * (basket.subtotal + FlatFees + Tax(100 * qOff) - qOff - wallet
                                   - PointsDiscount(0)) + fee, 0), 100))
    BY <1>5 DEF PreviewCharges, OrderCharges
  <2>2. 100 * (basket.subtotal + qFee + FlatFees + Tax(off) - wallet) - off
           = 100 * (basket.subtotal + FlatFees + Tax(off) - qOff - wallet - PointsDiscount(0)) + fee
    <3> DEFINE s     == basket.subtotal
               flat  == FlatFees
               tax   == Tax(off)
               spent == PointsDiscount(0)
    <3>1. s \in Int /\ flat \in Int /\ tax \in Int /\ spent = 0
      BY <1>3, <1>4
    <3> HIDE DEF fee, off, qFee, qOff, s, flat, tax, spent
    <3>2. 100 * (s + qFee + flat + tax - wallet) - off = 100 * (s + flat + tax - qOff - wallet - spent) + fee
      BY <1>1, <1>2, <3>1
    <3> QED
      BY <3>2 DEF s, flat, tax, spent
  <2> QED
    BY <2>1, <2>2, <1>2
<1>6. CASE FreeDelivery
  <2>1. fee = 0 /\ off = 0
    BY <1>6 DEF Reproducible, FreeDelivery, Discount
  <2>2. qFee = 0 /\ qOff = 0
    <3> HIDE DEF fee, off, qFee, qOff
    <3> QED
      BY <1>1, <1>2, <2>1
  <2>3. /\ PreviewCharges(wallet) = Breakup(Quantize(100 * qFee, 100), 0, Tax(100 * qFee),
              Quantize(Most(100 * (basket.subtotal + 0 + FlatFees + Tax(100 * qFee) - wallet) - 100 * qFee, 0), 100))
        /\ OrderCharges(wallet, 0) = Breakup(qOff, Quantize(0, 100), Tax(100 * qOff),
              Quantize(Most(100 * (basket.subtotal + FlatFees + Tax(100 * qOff) - qOff - wallet
                                   - PointsDiscount(0)) + 0, 0), 100))
    BY <1>6 DEF PreviewCharges, OrderCharges
  <2>4. 100 * qFee = 0 /\ 100 * qOff = 0 /\ Quantize(0, 100) = 0
    BY <2>1, <2>2
  <2>5. 100 * (basket.subtotal + 0 + FlatFees + Tax(0) - wallet) - 0
           = 100 * (basket.subtotal + FlatFees + Tax(0) - 0 - wallet - PointsDiscount(0)) + 0
    BY <1>3, <1>4, <2>1
  <2> QED
    BY <2>2, <2>3, <2>4, <2>5
<1> QED
  BY <1>5, <1>6
-----------------------------------------------------------------------------
(* Steps.                                                                  *)

LEMMA QuotesInitInv == QuotesInit => QuotesInv
BY DEF QuotesInit, QuotesInv, PricedTypes, Quoted

\* What a quote was computed from is changed.
LEMMA QuoteOutdated ==
    ASSUME Outdate
    PROVE  Quoted'
<1>1. shown' # NothingShown => ~shown'.current
  <2> SUFFICES ASSUME shown # NothingShown, shown' = [shown EXCEPT !.current = FALSE]
               PROVE  ~shown'.current
    BY DEF Outdate
  <2> QED
    OBVIOUS
<1> QED
  BY <1>1 DEF Quoted

\* What does not depend on the quote or the store is computed from the same as before.
LEMMA SamePrices ==
    ASSUME UNCHANGED <<settings, basket, chosen>>, NEW wallet, NEW points, NEW confirmed
    PROVE  /\ Terms(confirmed)' = Terms(confirmed)
           /\ PreviewCharges(wallet)' = PreviewCharges(wallet)
           /\ OrderCharges(wallet, points)' = OrderCharges(wallet, points)
<1>1. Terms(confirmed)' = Terms(confirmed)
  BY DEF Terms, IsServiceable, IsFar
<1>2. PreviewCharges(wallet)' = PreviewCharges(wallet)
  BY DEF PreviewCharges, FreeDelivery, Discount, DeliveryQuote, FreeAbove, IsFar, Vehicle,
     FlatFees, SmallCartFee, Tax, Breakup
<1>3. OrderCharges(wallet, points)' = OrderCharges(wallet, points)
  BY DEF OrderCharges, PointsDiscount, FreeDelivery, Discount, DeliveryQuote, FreeAbove, IsFar,
     Vehicle, FlatFees, SmallCartFee, Tax, Breakup
<1> QED
  BY <1>1, <1>2, <1>3

LEMMA ChangeStep ==
    ASSUME QuotesInv,
           \/ \E fees \in SettingRows : SaveSettings(fees)
           \/ \E b \in Baskets : ChangeBasket(b)
           \/ \E coupon \in Coupons \cup {NoCoupon}, place \in Places : Choose(coupon, place)
    PROVE  QuotesInv'
<1>1. CASE \E fees \in SettingRows : SaveSettings(fees)
  BY <1>1, QuoteOutdated DEF SaveSettings, QuotesInv, PricedTypes
<1>2. CASE \E b \in Baskets : ChangeBasket(b)
  BY <1>2, QuoteOutdated DEF ChangeBasket, QuotesInv, PricedTypes
<1>3. CASE \E coupon \in Coupons \cup {NoCoupon}, place \in Places : Choose(coupon, place)
  <2>1. PICK coupon \in Coupons \cup {NoCoupon}, place \in Places : Choose(coupon, place)
    BY <1>3
  <2>2. chosen'.coupon = coupon /\ chosen'.place = place /\ UNCHANGED <<settings, basket>> /\ Outdate
    BY <2>1 DEF Choose
  <2> QED
    BY <2>2, QuoteOutdated DEF QuotesInv, PricedTypes
<1> QED
  BY <1>1, <1>2, <1>3

\* Nothing that a quote is computed from changes.
LEMMA QuoteKept ==
    ASSUME QuotesInv, UNCHANGED <<settings, basket, chosen, shown>>
    PROVE  QuotesInv'
<1>1. PricedTypes'
  BY DEF QuotesInv, PricedTypes
<1>2. Quoted'
  <2> SUFFICES ASSUME shown # NothingShown, shown.current
               PROVE  \E wallet \in WalletAmounts, points \in Points, confirmed \in BOOLEAN :
            /\ shown'.wallet = wallet /\ shown'.points = points /\ shown'.confirmed = confirmed
            /\ Terms(confirmed)'
            /\ \/ shown'.by = "order" /\ shown'.charges = OrderCharges(wallet, points)'
               \/ shown'.by = "preview" /\ points = 0 /\ shown'.charges = PreviewCharges(wallet)'
    BY DEF Quoted
  <2>1. PICK wallet \in WalletAmounts, points \in Points, confirmed \in BOOLEAN :
            /\ shown.wallet = wallet /\ shown.points = points /\ shown.confirmed = confirmed
            /\ Terms(confirmed)
            /\ \/ shown.by = "order" /\ shown.charges = OrderCharges(wallet, points)
               \/ shown.by = "preview" /\ points = 0 /\ shown.charges = PreviewCharges(wallet)
    BY DEF QuotesInv, Quoted
  <2>2. /\ Terms(confirmed)' = Terms(confirmed)
        /\ PreviewCharges(wallet)' = PreviewCharges(wallet)
        /\ OrderCharges(wallet, points)' = OrderCharges(wallet, points)
    BY SamePrices
  <2>3. WITNESS wallet \in WalletAmounts, points \in Points, confirmed \in BOOLEAN
  <2> QED
    BY <2>1, <2>2
<1> QED
  BY <1>1, <1>2 DEF QuotesInv

\* The customer is shown what the code has just computed.
LEMMA ShowStep ==
    ASSUME QuotesInv, NEW wallet \in WalletAmounts, NEW points \in Points, NEW confirmed \in BOOLEAN,
           Preview(wallet, confirmed) \/ RefuseAsChanged(wallet, points, confirmed)
    PROVE  QuotesInv'
<1>1. Terms(confirmed) /\ UNCHANGED <<settings, basket, chosen>>
  BY DEF Preview, RefuseAsChanged, Orderable, Terms
<1>2. /\ Terms(confirmed)'
      /\ PreviewCharges(wallet)' = PreviewCharges(wallet)
      /\ OrderCharges(wallet, points)' = OrderCharges(wallet, points)
  BY <1>1, SamePrices
<1>3. PricedTypes'
  BY <1>1 DEF QuotesInv, PricedTypes
<1>4. CASE Preview(wallet, confirmed)
  <2>1. shown' = [by |-> "preview", charges |-> PreviewCharges(wallet), wallet |-> wallet,
                  points |-> 0, confirmed |-> confirmed, current |-> TRUE]
    BY <1>4 DEF Preview
  <2>2. 0 \in Points
    BY QuotesAssumption
  <2>3. /\ shown'.by = "preview" /\ shown'.charges = PreviewCharges(wallet)'
        /\ shown'.wallet = wallet /\ shown'.points = 0 /\ shown'.confirmed = confirmed
    BY <2>1, <1>2
  <2>4. Quoted'
    BY <1>2, <2>2, <2>3 DEF Quoted
  <2> QED
    BY <1>3, <2>4 DEF QuotesInv
<1>5. CASE RefuseAsChanged(wallet, points, confirmed)
  <2>1. shown' = [by |-> "order", charges |-> OrderCharges(wallet, points), wallet |-> wallet,
                  points |-> points, confirmed |-> confirmed, current |-> TRUE]
    BY <1>5 DEF RefuseAsChanged
  <2>2. /\ shown'.by = "order" /\ shown'.charges = OrderCharges(wallet, points)'
        /\ shown'.wallet = wallet /\ shown'.points = points /\ shown'.confirmed = confirmed
    BY <2>1, <1>2
  <2>3. Quoted'
    BY <1>2, <2>2 DEF Quoted
  <2> QED
    BY <1>3, <2>3 DEF QuotesInv
<1> QED
  BY <1>4, <1>5

LEMMA OrderedStep ==
    ASSUME QuotesInv, NEW wallet, NEW points, NEW confirmed,
           PlaceOrderAsShown(wallet, points, confirmed)
    PROVE  QuotesInv'
BY DEF PlaceOrderAsShown, QuotesInv, PricedTypes, Quoted

LEMMA QuotesInvStep == QuotesInv /\ [QuotesNext]_quoteVars => QuotesInv'
<1> SUFFICES ASSUME QuotesInv, [QuotesNext]_quoteVars PROVE QuotesInv'
  OBVIOUS
<1>1. CASE \/ \E fees \in SettingRows : SaveSettings(fees)
           \/ \E b \in Baskets : ChangeBasket(b)
           \/ \E coupon \in Coupons \cup {NoCoupon}, place \in Places : Choose(coupon, place)
  BY <1>1, ChangeStep
<1>2. CASE \E open, stocked \in BOOLEAN : ChangeStore(open, stocked)
  BY <1>2, QuoteKept DEF ChangeStore
<1>3. CASE \E balance \in WalletAmounts, points \in Points : ChangeFunds(balance, points)
  BY <1>3, QuoteKept DEF ChangeFunds
<1>4. ASSUME NEW wallet \in WalletAmounts, NEW confirmed \in BOOLEAN,
             \/ Preview(wallet, confirmed)
             \/ \E points \in Points : \/ PlaceOrderAsShown(wallet, points, confirmed)
                                       \/ RefuseAsChanged(wallet, points, confirmed)
      PROVE  QuotesInv'
  <2>1. 0 \in Points
    BY QuotesAssumption
  <2> QED
    BY <1>4, <2>1, ShowStep, OrderedStep
<1>5. CASE UNCHANGED quoteVars
  BY <1>5, QuoteKept DEF quoteVars
<1> QED
  BY <1>1, <1>2, <1>3, <1>4, <1>5 DEF QuotesNext

LEMMA QuotesInvariant == QuotesSpec => []QuotesInv
<1>1. QuotesInit => QuotesInv
  BY QuotesInitInv
<1>2. QuotesInv /\ [QuotesNext]_quoteVars => QuotesInv'
  BY QuotesInvStep
<1> QED
  BY <1>1, <1>2, PTL DEF QuotesSpec

\* A current quote is good for an order of a customer who has what the order is to use from
\* the wallet and in points, and a preview is off by two paise at most: for any fees, tax,
\* coupons, baskets, places, balances, wallet amounts and points.
THEOREM QuotesStand == QuotesSpec => []QuoteStands
<1>1. QuotesInv => QuoteStands
  <2> SUFFICES ASSUME QuotesInv, shown # NothingShown, shown.current,
                      store = [open |-> TRUE, stocked |-> TRUE],
                      Funded(shown.wallet, shown.points)
               PROVE  /\ shown.by = "order" \/ Reproducible =>
                            Accepts(shown.wallet, shown.points, shown.confirmed, shown.charges)
                      /\ shown.by = "preview" /\ ~FreeDelivery =>
                            OrderCharges(shown.wallet, 0).payable - shown.charges.payable \in -2..2
    BY DEF QuoteStands
  <2>1. PICK wallet \in WalletAmounts, points \in Points, confirmed \in BOOLEAN :
            /\ shown.wallet = wallet /\ shown.points = points /\ shown.confirmed = confirmed
            /\ Terms(confirmed)
            /\ \/ shown.by = "order" /\ shown.charges = OrderCharges(wallet, points)
               \/ shown.by = "preview" /\ points = 0 /\ shown.charges = PreviewCharges(wallet)
    BY DEF QuotesInv, Quoted
  <2>2. wallet \in Nat /\ PricedTypes
    BY QuotesAssumption DEF QuotesInv
  <2>3. Orderable(confirmed) /\ store.stocked
    BY <2>1 DEF Orderable, Terms
  <2>4. shown.by = "order" \/ Reproducible => shown.charges = OrderCharges(wallet, points)
    BY <2>1, <2>2, SameCharges
  <2>5. shown.by = "order" \/ Reproducible =>
            Accepts(shown.wallet, shown.points, shown.confirmed, shown.charges)
    BY <2>1, <2>3, <2>4 DEF Accepts
  <2>6. shown.by = "preview" /\ ~FreeDelivery =>
            OrderCharges(shown.wallet, 0).payable - shown.charges.payable \in -2..2
    BY <2>1, <2>2, PayablesClose
  <2> QED
    BY <2>5, <2>6
<1> QED
  BY <1>1, QuotesInvariant, PTL
-----------------------------------------------------------------------------
(* Amounts that are not negative.                                          *)

LEMMA QuantizeNat ==
    ASSUME NEW n \in Nat
    PROVE  Quantize(n, 100) \in Nat /\ Quantize(n, 1000000) \in Nat
<1>1. Quantize(n, 100) \in Int /\ n - 50 <= 100 * Quantize(n, 100)
  BY QuantizeNear
<1>2. Quantize(n, 1000000) \in Int /\ n - 500000 <= 1000000 * Quantize(n, 1000000)
  BY QuantizeNearTax
<1> DEFINE a == Quantize(n, 100)
           b == Quantize(n, 1000000)
<1> HIDE DEF a, b
<1>3. a \in Int /\ n - 50 <= 100 * a /\ b \in Int /\ n - 500000 <= 1000000 * b
  BY <1>1, <1>2 DEF a, b
<1>4. a \in Nat /\ b \in Nat
  BY <1>3
<1> QED  BY <1>4 DEF a, b

LEMMA ProductNat == \A m, n \in Nat : m * n \in Nat
BY SMT

LEMMA FeesNat ==
    ASSUME PricedTypes
    PROVE  /\ settings.platform \in Nat /\ settings.packaging \in Nat /\ settings.surge \in Nat
           /\ SmallCartFee \in Nat /\ FlatFees \in Nat /\ DeliveryQuote \in Nat
<1>1. /\ settings.base \in Nat /\ settings.platform \in Nat /\ settings.packaging \in Nat
      /\ settings.surge \in Nat /\ settings.smallFee \in Nat
  BY SMT, QuotesAssumption DEF PricedTypes
<1>2. SmallCartFee \in Nat
  BY <1>1 DEF SmallCartFee
<1>3. FlatFees \in Nat
  BY <1>1, <1>2 DEF FlatFees
<1> DEFINE way == settings.perKm * chosen.place.distance
<1>4. way \in Nat
  BY Priced, ProductNat
<1>5. DeliveryQuote =
         IF FreeAbove THEN 0
         ELSE 100 * (settings.base + (IF IsFar THEN 2500 ELSE 0)
                     + (IF Vehicle = "car" THEN 2000 ELSE IF Vehicle = "van" THEN 4500 ELSE 0))
              + way
  BY DEF DeliveryQuote
<1> HIDE DEF way
<1>6. DeliveryQuote \in Nat
  BY <1>1, <1>4, <1>5
<1> QED  BY <1>1, <1>2, <1>3, <1>6

LEMMA TaxNat ==
    ASSUME PricedTypes, NEW discount \in Int
    PROVE  Tax(discount) \in Nat
<1> DEFINE base == Most(100 * basket.subtotal - discount, 0) + 100 * FlatFees
           levied == base * settings.tax
<1>1. base \in Nat
  BY Priced, FeesNat DEF Most
<1>2. Tax(discount) = Quantize(levied, 1000000)
  BY DEF Tax
<1> HIDE DEF base
<1>3. levied \in Nat
  BY <1>1, Priced, ProductNat
<1> HIDE DEF levied
<1> QED  BY <1>2, <1>3, QuantizeNat

LEMMA DiscountNat ==
    ASSUME PricedTypes, chosen.coupon.value >= 0
    PROVE  Discount(basket.subtotal) \in Nat
<1> DEFINE share == basket.subtotal * chosen.coupon.value
           full == IF chosen.coupon.kind = "percentage" THEN share ELSE 100 * chosen.coupon.value
           capped == IF chosen.coupon.cap > 0 THEN Least(full, 100 * chosen.coupon.cap) ELSE full
<1>1. basket.subtotal \in Nat /\ chosen.coupon.value \in Nat /\ chosen.coupon.cap \in Nat
  BY Priced
<1>2. share \in Nat
  BY <1>1, ProductNat
<1>3. Discount(basket.subtotal) =
         IF chosen.coupon.kind \in {"none", "free_delivery"} THEN 0
         ELSE Least(capped, 100 * basket.subtotal)
  BY DEF Discount
<1> HIDE DEF share
<1>4. full \in Nat
  BY <1>1, <1>2
<1> HIDE DEF full
<1>5. capped \in Nat
  BY <1>1, <1>4 DEF Least
<1> HIDE DEF capped
<1> QED  BY <1>1, <1>3, <1>5 DEF Least

LEMMA BreakupTyped ==
    ASSUME PricedTypes, NEW discount \in Nat, NEW fee \in Nat, NEW tax \in Nat, NEW due \in Int
    PROVE  Breakup(discount, fee, tax, Quantize(Most(due, 0), 100)) \in Charges
<1>1. Quantize(Most(due, 0), 100) \in Nat
  <2>1. Most(due, 0) \in Nat
    BY DEF Most
  <2> QED  BY <2>1, QuantizeNat
<1> QED  BY <1>1, Priced, FeesNat DEF Breakup, Charges

LEMMA PreviewTyped ==
    ASSUME PricedTypes, chosen.coupon.value >= 0, NEW wallet \in Nat
    PROVE  PreviewCharges(wallet) \in Charges
<1> DEFINE quoted   == Quantize(DeliveryQuote, 100)
           discount == IF FreeDelivery THEN 100 * quoted ELSE Discount(basket.subtotal)
           fee      == IF FreeDelivery THEN 0 ELSE quoted
           due      == 100 * (basket.subtotal + fee + FlatFees + Tax(discount) - wallet) - discount
<1>1. quoted \in Nat
  BY FeesNat, QuantizeNat
<1>2. discount \in Nat /\ fee \in Nat
  <2> HIDE DEF quoted
  <2> QED  BY <1>1, DiscountNat
<1>3. PreviewCharges(wallet)
         = Breakup(Quantize(discount, 100), fee, Tax(discount), Quantize(Most(due, 0), 100))
  BY DEF PreviewCharges
<1> HIDE DEF discount, fee
<1>4. Quantize(discount, 100) \in Nat /\ Tax(discount) \in Nat
  BY <1>2, TaxNat, QuantizeNat
<1>5. due \in Int
  BY <1>2, <1>4, Priced, FeesNat
<1> HIDE DEF due
<1> QED  BY <1>2, <1>3, <1>4, <1>5, BreakupTyped

LEMMA OrderTyped ==
    ASSUME PricedTypes, chosen.coupon.value >= 0, NEW wallet \in Nat, NEW points \in Nat
    PROVE  OrderCharges(wallet, points) \in Charges
<1> DEFINE discount == Quantize(Discount(basket.subtotal), 100)
           fee      == IF FreeDelivery THEN 0 ELSE DeliveryQuote
           tax      == Tax(100 * discount)
           spent    == PointsDiscount(points)
           due      == 100 * (basket.subtotal + FlatFees + tax - discount - wallet - spent) + fee
<1>1. discount \in Nat /\ fee \in Nat
  BY DiscountNat, QuantizeNat, FeesNat
<1>2. OrderCharges(wallet, points)
         = Breakup(discount, Quantize(fee, 100), tax, Quantize(Most(due, 0), 100))
  BY DEF OrderCharges
<1>3. spent \in Nat
  <2>1. 20 * basket.subtotal \in Nat
    BY Priced
  <2>2. Quantize(20 * basket.subtotal, 100) \in Nat
    BY <2>1, QuantizeNat
  <2> QED  BY <2>2 DEF PointsDiscount, Least
<1> HIDE DEF discount, fee, spent
<1>4. Quantize(fee, 100) \in Nat /\ tax \in Nat
  BY <1>1, TaxNat, QuantizeNat
<1> HIDE DEF tax
<1>5. due \in Int
  BY <1>1, <1>3, <1>4, Priced, FeesNat
<1> HIDE DEF due
<1> QED  BY <1>1, <1>2, <1>4, <1>5, BreakupTyped

\* No more points are taken than the customer asked to use.
LEMMA PointsRedeemed ==
    ASSUME PricedTypes, NEW points \in Nat
    PROVE  PointsDiscount(points) \div 25 \in Nat /\ PointsDiscount(points) \div 25 <= points
<1> DEFINE fifth == Quantize(20 * basket.subtotal, 100)
<1>1. fifth \in Nat
  <2>1. 20 * basket.subtotal \in Nat
    BY Priced
  <2> QED  BY <2>1, QuantizeNat
<1>2. PointsDiscount(points) = Least(25 * points, fifth)
  BY DEF PointsDiscount
<1> HIDE DEF fifth
<1>3. PICK spent \in Nat : spent = PointsDiscount(points) /\ spent <= 25 * points
  BY <1>1, <1>2 DEF Least
<1>4. spent \div 25 \in Nat /\ spent \div 25 <= points
  BY <1>3
<1> QED  BY <1>3, <1>4

\* No charge that a customer is shown is negative, neither the tax nor what is to be paid,
\* for any fees, baskets, places, wallet amounts and points, unless a coupon is worth less
\* than nothing: Coupon.discount_value has no validator.
THEOREM QuotesTypes ==
    ASSUME \A c \in Coupons : c.value >= 0
    PROVE  QuotesSpec => []QuotesTypeOK
<1>1. QuotesInit => QuotesTypeOK
  <2> SUFFICES ASSUME QuotesInit PROVE QuotesTypeOK
    OBVIOUS
  <2>1. \A m \in WalletAmounts \cup Points : m \in Nat
    BY QuotesAssumption
  <2>2. funds \in [balance : Nat, points : Nat]
    BY <2>1 DEF QuotesInit
  <2> QED  BY <2>2 DEF QuotesInit, QuotesTypeOK
<1>2. QuotesTypeOK /\ [QuotesNext]_quoteVars => QuotesTypeOK'
  <2> SUFFICES ASSUME QuotesTypeOK, [QuotesNext]_quoteVars PROVE QuotesTypeOK'
    OBVIOUS
  <2>1. PricedTypes /\ chosen.coupon.value >= 0
    BY DEF QuotesTypeOK, PricedTypes, NoCoupon
  <2>2. ASSUME Outdate
        PROVE  shown' # NothingShown =>
                  /\ shown'.by \in {"preview", "order"}
                  /\ shown'.charges \in Charges
                  /\ shown'.wallet \in WalletAmounts /\ shown'.points \in Points
                  /\ shown'.confirmed \in BOOLEAN /\ shown'.current \in BOOLEAN
    <3>1. CASE shown = NothingShown
      BY <2>2, <3>1 DEF Outdate
    <3>2. CASE shown # NothingShown
      <4>1. shown' = [shown EXCEPT !.current = FALSE]
        BY <2>2, <3>2 DEF Outdate
      <4>2. /\ shown'.by = shown.by /\ shown'.charges = shown.charges
            /\ shown'.wallet = shown.wallet /\ shown'.points = shown.points
            /\ shown'.confirmed = shown.confirmed
        BY <4>1
      <4>3. shown'.current \in BOOLEAN
        <5>1. CASE "current" \in DOMAIN shown
          BY <4>1, <5>1
        <5>2. CASE "current" \notin DOMAIN shown
          BY <4>1, <5>2, <3>2 DEF QuotesTypeOK
        <5> QED  BY <5>1, <5>2
      <4> QED  BY <3>2, <4>2, <4>3 DEF QuotesTypeOK
    <3> QED  BY <3>1, <3>2
  <2>3. ASSUME NEW u \in SettingRows, SaveSettings(u)  PROVE QuotesTypeOK'
    BY <2>2, <2>3 DEF SaveSettings, QuotesTypeOK
  <2>4. ASSUME NEW b \in Baskets, ChangeBasket(b)  PROVE QuotesTypeOK'
    BY <2>2, <2>4 DEF ChangeBasket, QuotesTypeOK
  <2>5. ASSUME NEW coupon \in Coupons \cup {NoCoupon}, NEW place \in Places, Choose(coupon, place)
        PROVE  QuotesTypeOK'
    BY <2>2, <2>5 DEF Choose, QuotesTypeOK
  <2>6. ASSUME NEW open \in BOOLEAN, NEW stocked \in BOOLEAN, ChangeStore(open, stocked)
        PROVE  QuotesTypeOK'
    BY <2>6 DEF ChangeStore, QuotesTypeOK
  <2>7. ASSUME NEW wallet \in WalletAmounts, NEW confirmed \in BOOLEAN, Preview(wallet, confirmed)
        PROVE  QuotesTypeOK'
    <3>1. 0 \in Points /\ PreviewCharges(wallet) \in Charges
      BY <2>1, QuotesAssumption, PreviewTyped
    <3> QED  BY <2>7, <3>1 DEF Preview, QuotesTypeOK
  <2>8. ASSUME NEW wallet \in WalletAmounts, NEW confirmed \in BOOLEAN, NEW points \in Points,
               PlaceOrderAsShown(wallet, points, confirmed)
        PROVE  QuotesTypeOK'
    <3>1. wallet \in Nat /\ points \in Nat /\ funds.balance \in Nat /\ funds.points \in Nat
      BY QuotesAssumption DEF QuotesTypeOK
    <3>2. wallet <= funds.balance /\ points <= funds.points
      BY <2>8 DEF PlaceOrderAsShown, Accepts, Funded
    <3>3. PointsDiscount(points) \div 25 \in Nat /\ PointsDiscount(points) \div 25 <= points
      BY <2>1, <3>1, PointsRedeemed
    <3>4. funds' \in [balance : Nat, points : Nat]
      <4> DEFINE redeemed == PointsDiscount(points) \div 25
      <4>1. redeemed \in Nat /\ redeemed <= points
        BY <3>3
      <4>2. funds' = [balance |-> funds.balance - wallet, points |-> funds.points - redeemed]
        BY <2>8 DEF PlaceOrderAsShown
      <4> HIDE DEF redeemed
      <4>3. funds.balance - wallet \in Nat /\ funds.points - redeemed \in Nat
        BY <3>1, <3>2, <4>1
      <4> QED  BY <4>2, <4>3
    <3> QED  BY <2>8, <3>4 DEF PlaceOrderAsShown, QuotesTypeOK
  <2>9. ASSUME NEW wallet \in WalletAmounts, NEW confirmed \in BOOLEAN, NEW points \in Points,
               RefuseAsChanged(wallet, points, confirmed)
        PROVE  QuotesTypeOK'
    <3>1. OrderCharges(wallet, points) \in Charges
      BY <2>1, QuotesAssumption, OrderTyped
    <3> QED  BY <2>9, <3>1 DEF RefuseAsChanged, QuotesTypeOK
  <2>10. ASSUME NEW balance \in WalletAmounts, NEW points \in Points, ChangeFunds(balance, points)
         PROVE  QuotesTypeOK'
    <3>1. balance \in Nat /\ points \in Nat
      BY QuotesAssumption
    <3> QED  BY <2>10, <3>1 DEF ChangeFunds, QuotesTypeOK
  <2>11. CASE UNCHANGED quoteVars
    BY <2>11 DEF quoteVars, QuotesTypeOK
  <2> QED
    BY <2>3, <2>4, <2>5, <2>6, <2>7, <2>8, <2>9, <2>10, <2>11 DEF QuotesNext
<1> QED
  BY <1>1, <1>2, PTL DEF QuotesSpec
-----------------------------------------------------------------------------
(***************************************************************************)
(* Storefront: what is shown, and what can be ordered.                     *)
(***************************************************************************)

\* The answer is the page as it is.
Fresh(answer) == \A view \in CachedViews, n \in NodeIds \cup {NoNode} :
                     Key(view, n) = answer.key => answer.page = Page(view, n)

\* What a request has computed.
PageKeys == {<<>>} \cup {Key(view, n) : view \in CachedViews, n \in NodeIds \cup {NoNode}}
PageAnswers == [key : PageKeys, page : SUBSET Goods, outrun : BOOLEAN]

\* A request that nothing has overtaken has computed the page as it is, and so has the
\* cache unless it is known to be behind or about to be emptied.
Following == /\ reader \in PageAnswers
             /\ reader # NotReading /\ ~reader.outrun => Fresh(reader)
             /\ cache # NoPage /\ ~behind /\ saving.state # "unsignalled" => Fresh(cache)

\* Pages are computed from the shop alone.
LEMMA SamePages ==
    ASSUME UNCHANGED shopVars, NEW view \in CachedViews, NEW n
    PROVE  Page(view, n)' = Page(view, n)
<1>1. UNCHANGED <<has, on, onHand, site>>
  BY DEF shopVars
<1>2. List(n)' = List(n)
  BY <1>1 DEF List, NodeHere, Covering, Visible, Rollout, Near, Flags, IsOpenNow, AtNode, IsHub
<1>3. Search(n)' = Search(n)
  BY <1>1 DEF Search, NodeHere, Covering, Visible, Rollout, AtNode, IsHub
<1>4. StorePage(n)' = StorePage(n)
  BY <1>1 DEF StorePage, NodeHere, Covering, Browsable, Visible, AtNode, IsHub
<1> QED  BY <1>2, <1>3, <1>4 DEF Page, CachedViews

LEMMA PageOf ==
    ASSUME NEW view \in CachedViews, NEW n
    PROVE  Page(view, n) \subseteq Goods
BY DEF Page, CachedViews, List, Search, StorePage

LEMMA Overtaken ==
    ASSUME reader \in PageAnswers, Outrun
    PROVE  reader' \in PageAnswers /\ (reader' # NotReading => reader'.outrun)
<1> DEFINE overtaken == [reader EXCEPT !.outrun = TRUE]
<1>1. reader' = IF reader = NotReading THEN reader ELSE overtaken
  BY DEF Outrun
<1>2. overtaken \in PageAnswers /\ overtaken.outrun
  BY DEF PageAnswers
<1> HIDE DEF overtaken
<1> QED  BY <1>1, <1>2

LEMMA ReadFollowing ==
    ASSUME Following, NEW view \in CachedViews, NEW n \in NodeIds \cup {NoNode}, ReadPage(view, n)
    PROVE  Following'
<1> DEFINE answer == [key |-> Key(view, n), page |-> Page(view, n), outrun |-> FALSE]
<1>1. UNCHANGED <<shopVars, saving, cache, behind>> /\ reader' = answer
  BY DEF ReadPage
<1>2. answer \in PageAnswers
  BY PageOf DEF PageAnswers, PageKeys
<1>3. answer.key = <<view, n>> /\ answer.page = Page(view, n)
  BY DEF Key
<1> HIDE DEF answer
<1>4. ASSUME NEW w \in CachedViews, NEW m \in NodeIds \cup {NoNode}, Key(w, m) = answer.key
      PROVE  answer.page = Page(w, m)
  BY <1>3, <1>4 DEF Key
<1>5. Fresh(reader)'
  BY <1>1, <1>4, SamePages DEF Fresh, Key
<1>6. (cache # NoPage /\ ~behind /\ saving.state # "unsignalled" => Fresh(cache))'
  BY <1>1, SamePages DEF Following, Fresh, Key
<1> QED  BY <1>1, <1>2, <1>5, <1>6 DEF Following

LEMMA KeepFollowing == ASSUME Following, KeepPage PROVE Following'
<1>1. /\ cache'.key = reader.key /\ cache'.page = reader.page
      /\ behind' = reader.outrun /\ reader' = NotReading
      /\ UNCHANGED shopVars /\ reader # NotReading
  BY DEF KeepPage
<1>2. ~reader.outrun => Fresh(cache)'
  BY <1>1, SamePages DEF Following, Fresh, Key
<1>3. reader' \in PageAnswers
  BY <1>1 DEF PageAnswers, NotReading, PageKeys
<1> QED  BY <1>1, <1>2, <1>3 DEF Following

LEMMA InitFollowing == StorefrontInit => Following
BY DEF StorefrontInit, Following, NotReading, PageAnswers, PageKeys

LEMMA FollowingStep == Following /\ [StorefrontNext]_storefrontVars => Following'
<1> SUFFICES ASSUME Following, [StorefrontNext]_storefrontVars PROVE Following'
  OBVIOUS
<1>1. CASE UNCHANGED storefrontVars
  BY <1>1, SamePages DEF storefrontVars, cacheVars, Following, Fresh, Key
<1>2. ASSUME NEW x, NEW c, SaveInTransaction(x, c) PROVE Following'
  BY <1>2, SamePages DEF SaveInTransaction, Emptied, Following, Fresh, Key
<1>3. ASSUME NEW commits \in BOOLEAN, EndTransaction(commits) PROVE Following'
  BY <1>3, Overtaken, SamePages DEF EndTransaction, Outdated, NotSaving, Following, Fresh, Key, shopVars
<1>4. ASSUME NEW x, NEW c, SaveAlone(x, c) PROVE Following'
  BY <1>4, Overtaken DEF SaveAlone, Following
<1>5. ASSUME NEW reached \in BOOLEAN, Signal(reached) PROVE Following'
  BY <1>5, SamePages DEF Signal, Emptied, Following, Fresh, Key
<1>6. ASSUME NEW g, RestoreUnit(g) PROVE Following'
  BY <1>6, Overtaken DEF RestoreUnit, Outdated, Following
<1>7. ASSUME NEW n, SetNode(n) \/ \E g, s : SetOnHand(n, g, s) PROVE Following'
  BY <1>7, Overtaken DEF SetNode, SetOnHand, Outdated, Following
<1>8. ASSUME NEW v, NEW c, TimePasses(v, c) PROVE Following'
  BY <1>8, Overtaken DEF TimePasses, Outdated, Following
<1>9. ASSUME NEW view \in CachedViews, NEW n \in NodeIds \cup {NoNode}, ReadPage(view, n) PROVE Following'
  BY <1>9, ReadFollowing
<1>10. CASE KeepPage
  BY <1>10, KeepFollowing
<1>11. CASE Expire
  BY <1>11, SamePages DEF Expire, Emptied, Following, Fresh, Key
<1> QED
  BY <1>1, <1>2, <1>3, <1>4, <1>5, <1>6, <1>7, <1>8, <1>9, <1>10, <1>11 DEF StorefrontNext

-----------------------------------------------------------------------------
(* The pages against the checkout.                                         *)

LEMMA RefusedFor ==
    ASSUME NEW g \in Goods, NEW n, NEW c \in Refusals(g, n)
    PROVE  \/ c \in {"listed", "instock"} /\ c \notin has[g]
           \/ c \in {"open", "intake", "hours", "workday"} /\ c \notin has[StoreOf[g]]
           \/ c = "range" /\ StoreOf[g] \notin site.reached
           \/ c = "node" /\ n # NoNode /\ ~(n \in on /\ (IsHub(n) \/ StoreOf[g] = Owner[n]))
           \/ c = "row" /\ n # NoNode /\ onHand[n][g] = "empty"
BY DEF Refusals, StoreRefusals

LEMMA PlaceOf ==
    ASSUME site \in Sites, NEW g \in Goods
    PROVE  StoreOf[g] \in Stores /\ Covering \subseteq Rollout
BY StorefrontAssumption DEF Covering, Rollout

\* Home and exploring ask for a promise first.
LEMMA PromisedPages ==
    ASSUME site \in Sites, NEW n \in NodeIds \cup {NoNode}, NEW g \in Goods, NEW c \in Refusals(g, n)
    PROVE  /\ g \in Home(n) => c \in Overlooked("home", n)
           /\ g \in Explore(n) => c \in Overlooked("explore", n)
<1>1. ASSUME g \in Home(n) PROVE c \in Overlooked("home", n)
  <2>1. /\ Promised(n) /\ {"listed", "instock"} \subseteq has[g]
        /\ {"open", "intake"} \subseteq has[StoreOf[g]]
        /\ IsHub(n) => onHand[n][g] = "stocked"
    BY <1>1 DEF Home, Browsable, Visible, Flags
  <2>2. PICK nearest \in Promises(n) :
           StoresOnHome(n, nearest) # {} => StoreOf[g] \in StoresOnHome(n, nearest)
    BY <1>1 DEF Home
  <2>3. CASE n = NoNode
    <3>1. nearest \in Near /\ StoresOnHome(n, nearest) = {nearest}
      BY <2>2, <2>3 DEF Promises, StoresOnHome, IsHub
    <3>2. StoreOf[g] \in site.reached /\ {"open", "intake", "hours"} \subseteq has[StoreOf[g]]
      BY <2>2, <3>1 DEF Near, IsOpenNow
    <3> QED  BY <2>1, <2>3, <3>2, RefusedFor DEF Overlooked
  <2>4. CASE n # NoNode
    <3>1. n \in on
      BY <2>2, <2>4 DEF Promises, Covering
    <3>2. StoresOnHome(n, nearest) = StoresOnHome(n, NoStore)
      BY <2>4 DEF StoresOnHome
    <3>3. CASE StoresOnHome(n, NoStore) = {}
      BY <2>1, <2>4, <3>3, RefusedFor DEF Overlooked
    <3>4. CASE StoresOnHome(n, NoStore) # {}
      <4>1. /\ StoreOf[g] \in site.reached
            /\ {"open", "intake", "hours"} \subseteq has[StoreOf[g]]
            /\ IsHub(n) \/ StoreOf[g] = Owner[n]
        BY <2>2, <2>4, <3>2, <3>4 DEF StoresOnHome, Near, IsOpenNow
      <4> QED  BY <2>1, <2>4, <3>1, <4>1, RefusedFor DEF Overlooked
    <3> QED  BY <3>3, <3>4
  <2> QED  BY <2>3, <2>4
<1>2. ASSUME g \in Explore(n) PROVE c \in Overlooked("explore", n)
  <2>1. /\ Promised(n) /\ {"listed", "instock"} \subseteq has[g]
        /\ StoreOf[g] \in site.reached /\ {"open", "intake", "hours"} \subseteq has[StoreOf[g]]
        /\ Covering # {} => \E m \in Covering : AtNode(g, m)
    BY <1>2 DEF Explore, Visible, Near, IsOpenNow
  <2>2. CASE ~(Covering \subseteq {n})
    BY <2>1, <2>2, RefusedFor DEF Overlooked
  <2>3. CASE n = NoNode
    BY <2>1, <2>3, RefusedFor DEF Overlooked
  <2>4. CASE Covering \subseteq {n} /\ n # NoNode
    <3>1. n \in Covering /\ n \in on
      BY <2>1, <2>4 DEF Promised, Promises, Covering
    <3>2. onHand[n][g] = "stocked" /\ (IsHub(n) \/ StoreOf[g] = Owner[n])
      BY <2>1, <2>4, <3>1 DEF AtNode
    <3> QED  BY <2>1, <3>1, <3>2, RefusedFor DEF Overlooked
  <2> QED  BY <2>2, <2>3, <2>4
<1> QED  BY <1>1, <1>2

\* The lists, a store's page and its picks ask for the node of the request.
LEMMA NodePages ==
    ASSUME site \in Sites, NEW n \in NodeIds \cup {NoNode}, NEW g \in Goods, NEW c \in Refusals(g, n)
    PROVE  /\ g \in List(n) => c \in Overlooked("list", n)
           /\ g \in Search(n) => c \in Overlooked("search", n)
           /\ g \in StorePage(n) => c \in Overlooked("store", n)
           /\ g \in Picks(n) => c \in Overlooked("picks", n)
           /\ g \in BuyAgain => c \in Overlooked("again", n)
           /\ g \in Shelved(n) => c \in Overlooked("categories", n)
<1>1. ASSUME g \in List(n) PROVE c \in Overlooked("list", n)
  BY <1>1, RefusedFor DEF List, NodeHere, Visible, Near, IsOpenNow, AtNode, Overlooked
<1>2. ASSUME g \in Search(n) PROVE c \in Overlooked("search", n)
  BY <1>2, RefusedFor DEF Search, NodeHere, Visible, AtNode, Overlooked
<1>3. ASSUME g \in StorePage(n) PROVE c \in Overlooked("store", n)
  BY <1>3, RefusedFor DEF StorePage, NodeHere, Browsable, Visible, AtNode, Overlooked
<1>4. ASSUME g \in Picks(n) PROVE c \in Overlooked("picks", n)
  BY <1>4, RefusedFor DEF Picks, NodeHere, Browsable, Visible, AtNode, Overlooked
<1>5. ASSUME g \in BuyAgain PROVE c \in Overlooked("again", n)
  BY <1>5, RefusedFor DEF BuyAgain, Visible, Overlooked
<1>6. ASSUME g \in Shelved(n) PROVE c \in Overlooked("categories", n)
  BY <1>6, RefusedFor DEF Shelved, NodeHere, Browsable, Visible, Overlooked
<1> QED  BY <1>1, <1>2, <1>3, <1>4, <1>5, <1>6

LEMMA ShownOrderable == ASSUME site \in Sites PROVE ShownCanBeOrdered
<1>1. ASSUME NEW n \in NodeIds \cup {NoNode}, NEW view \in Views, NEW g \in Page(view, n),
             NEW c \in Refusals(g, n)
      PROVE  c \in Overlooked(view, n)
  <2>1. g \in Goods
    BY DEF Page, Views, Home, Explore, List, Search, StorePage, Picks, BuyAgain, Shelved
  <2>2. CASE view \in {"home", "explore"}
    BY <2>1, <2>2, PromisedPages DEF Page
  <2>3. CASE view \in {"list", "search", "store", "picks", "again", "categories"}
    BY <2>1, <2>3, NodePages DEF Page
  <2> QED  BY <2>2, <2>3 DEF Views
<1>2. ASSUME NEW n \in NodeIds \cup {NoNode}, NEW v \in StoreList(n), NEW c \in StoreRefusals(v)
      PROVE  c \in {"hours", "workday"}
  BY DEF StoreList, Flags, StoreRefusals
<1> QED  BY <1>1, <1>2 DEF ShownCanBeOrdered

LEMMA OrderableShown == ASSUME site \in Sites, on \subseteq NodeIds PROVE OrderableIsShown
<1> SUFFICES ASSUME NEW n \in NodeIds \cup {NoNode}, NEW g \in Goods,
                    Refusals(g, n) = {}, "approved" \in has[StoreOf[g]],
                    IF n = NoNode THEN Rollout = {} ELSE onHand[n][g] = "stocked"
             PROVE  /\ g \in List(n) \cap Search(n)
                    /\ "category" \in has[g] => g \in StorePage(n) \cap Picks(n) \cap Shelved(n)
                    /\ n = NoNode => g \in Explore(n)
                    /\ StoreOf[g] \in StoreList(n)
                    /\ StoreOf[g] \in site.instant => StoreOf[g] \in NearbyStores(n)
  BY DEF OrderableIsShown
<1>1. /\ {"listed", "instock"} \subseteq has[g]
      /\ {"open", "intake", "hours"} \subseteq has[StoreOf[g]]
      /\ StoreOf[g] \in site.reached
  BY DEF Refusals, StoreRefusals
<1>2. n # NoNode => n \in on /\ (IsHub(n) \/ StoreOf[g] = Owner[n])
  BY DEF Refusals
<1>3. StoreOf[g] \in Near /\ Visible(g) /\ Flags(StoreOf[g])
  BY <1>1, PlaceOf DEF Near, Flags, IsOpenNow, Visible
<1>4. NodeHere(n)
  BY <1>2, PlaceOf DEF NodeHere
<1>5. n # NoNode => AtNode(g, n)
  BY <1>2 DEF AtNode
<1>6. g \in List(n) /\ g \in Search(n)
  BY <1>1, <1>3, <1>4, <1>5 DEF List, Search, Flags
<1>7. "category" \in has[g] => g \in StorePage(n) /\ g \in Picks(n) /\ g \in Shelved(n)
  BY <1>1, <1>3, <1>4, <1>5, StorefrontAssumption DEF StorePage, Picks, Shelved, Browsable
<1>8. n = NoNode => g \in Explore(n)
  <2> SUFFICES ASSUME n = NoNode PROVE g \in Explore(n)
    OBVIOUS
  <2>1. Rollout = {} /\ Covering = {}
    BY PlaceOf
  <2>2. Promised(n)
    BY <1>3, <2>1 DEF Promised, Promises
  <2> QED  BY <1>3, <2>1, <2>2 DEF Explore
<1>9. SellsAt(StoreOf[g], n)
  BY <1>2, <1>3 DEF SellsAt
<1>10. StoreOf[g] \in StoreList(n) /\ (StoreOf[g] \in site.instant => StoreOf[g] \in NearbyStores(n))
  BY <1>1, <1>3, <1>4, <1>9, PlaceOf DEF StoreList, NearbyStores
<1> QED  BY <1>6, <1>7, <1>8, <1>10
-----------------------------------------------------------------------------
(* Slots.                                                                  *)

\* A time as an hour and what is past it.
LEMMA HourOf ==
    ASSUME NEW t \in Nat
    PROVE  /\ t % Hour \in 0..Hour - 1 /\ t \div Hour \in Nat
           /\ t = Hour * (t \div Hour) + (t % Hour)
<1>1. t % 120 \in 0..119
  OBVIOUS
<1>2. t \div 120 \in Nat
  OBVIOUS
<1>3. t = 120 * (t \div 120) + (t % 120)
  OBVIOUS
<1> QED  BY <1>1, <1>2, <1>3 DEF Hour

\* A whole hour, or a half one, has that remainder.
LEMMA PastHour ==
    ASSUME NEW h \in Int, NEW r \in 0..119
    PROVE  (120 * h + r) % 120 = r /\ (120 * h + r) \div 120 = h
OBVIOUS

LEMMA NextHalfHourIs ==
    ASSUME NEW t \in Nat
    PROVE  LET h == t \div Hour
               r == t % Hour
           IN  NextHalfHour(t) = IF r = 0 THEN Hour * h
                                 ELSE IF r \in 2..61 THEN Hour * h + 60
                                 ELSE Hour * h + Hour
<1> DEFINE h == t \div Hour
           r == t % Hour
<1>1. h \in Nat /\ r \in 0..119 /\ t = 120 * h + r
  BY HourOf DEF Hour
<1>2. r \div 2 \in 1..30 <=> r \in 2..61
  BY <1>1
<1>3. (120 * h) % 120 = 0 /\ (120 * h + 60) % 120 = 60
  BY <1>1, PastHour
<1>4. NextHalfHour(t) = LET mark == (t - r) + (IF r \div 2 \in 1..30 THEN 60 ELSE 0)
                        IN  IF mark % 120 = 0 /\ mark < t THEN mark + 120 ELSE mark
  BY DEF NextHalfHour, Hour
<1> HIDE DEF h, r
<1>5. CASE r \in 2..61
  <2>1. (t - r) + (IF r \div 2 \in 1..30 THEN 60 ELSE 0) = 120 * h + 60
    BY <1>1, <1>2, <1>5
  <2> QED  BY <1>1, <1>3, <1>4, <1>5, <2>1 DEF h, r, Hour
<1>6. CASE r \notin 2..61
  <2>1. (t - r) + (IF r \div 2 \in 1..30 THEN 60 ELSE 0) = 120 * h
    BY <1>1, <1>2, <1>6
  <2> QED  BY <1>1, <1>3, <1>4, <1>6, <2>1 DEF h, r, Hour
<1> QED  BY <1>5, <1>6

\* It is no earlier, except in the seconds after a half hour, and no later than any whole
\* or half hour that is to come, except in the seconds after an hour.
LEMMA NextHalfHourNear ==
    ASSUME NEW t \in Nat
    PROVE  /\ NextHalfHour(t) \in Int
           /\ NextHalfHour(t) >= t \/ (NextHalfHour(t) = t - 1 /\ NextHalfHour(t) % Hour = 60)
           /\ t % Hour # 1 => \A m \in Int : 60 * m >= t => NextHalfHour(t) <= 60 * m
<1> DEFINE h == t \div Hour
           r == t % Hour
           next == NextHalfHour(t)
<1>1. h \in Nat /\ r \in 0..119 /\ t = 120 * h + r
  BY HourOf DEF Hour
<1>2. next = IF r = 0 THEN 120 * h ELSE IF r \in 2..61 THEN 120 * h + 60 ELSE 120 * h + 120
  BY NextHalfHourIs DEF Hour
<1>3. (120 * h + 60) % 120 = 60
  BY <1>1, PastHour
<1> HIDE DEF h, next
<1> SUFFICES /\ next \in Int
             /\ next >= t \/ (next = t - 1 /\ next % 120 = 60)
             /\ r # 1 => \A m \in Int : 60 * m >= t => next <= 60 * m
  BY DEF next, Hour
<1> HIDE DEF r
<1>4. next \in Int
  BY <1>1, <1>2
<1>5. next >= t \/ (next = t - 1 /\ next % 120 = 60)
  BY <1>1, <1>2, <1>3
<1>6. ASSUME r # 1, NEW m \in Int, 60 * m >= t PROVE next <= 60 * m
  BY <1>1, <1>2, <1>6
<1> QED  BY <1>4, <1>5, <1>6

\* A time of a day.
LEMMA DayOf ==
    ASSUME NEW day \in Int, NEW t \in Int, day * 2880 <= t, t < day * 2880 + 2880
    PROVE  t \div 2880 = day /\ t % 2880 = t - day * 2880
OBVIOUS

LEMMA SlotsBounds ==
    /\ \A hours \in Hours : hours[1] \in Nat /\ hours[1] < 2880 /\ hours[2] \in Nat /\ hours[2] < 2880
    /\ \A now \in Moments : now \in Nat
    /\ \A prep \in Preps : prep \in Nat
    /\ \A span \in Spans : span[1] \in Int /\ span[2] \in 1..14
<1>1. ASSUME NEW hours \in Hours
      PROVE  hours[1] \in Nat /\ hours[1] < 2880 /\ hours[2] \in Nat /\ hours[2] < 2880
  <2> DEFINE a == hours[1]
             b == hours[2]
  <2>1. hours \in (0..2879) \X (0..2879)
    BY SlotsAssumption DEF Day, Hour
  <2>2. a \in 0..2879 /\ b \in 0..2879
    BY <2>1
  <2> HIDE DEF a, b
  <2>3. a \in Nat /\ a < 2880 /\ b \in Nat /\ b < 2880
    BY <2>2
  <2> QED  BY <2>3 DEF a, b
<1>2. \A now \in Moments : now \in Nat
  BY SlotsAssumption DEF Day, Hour
<1>3. \A prep \in Preps : prep \in Nat
  BY SlotsAssumption
<1>4. \A span \in Spans : span[1] \in Int /\ span[2] \in 1..14
  BY SlotsAssumption
<1> QED  BY <1>1, <1>2, <1>3, <1>4

\* A slot of a day is within its hours, and starts once the goods are ready.
LEMMA SlotIn ==
    ASSUME NEW day \in Int, NEW hours \in Hours, NEW ready \in Nat,
           NEW s \in SlotsOf(day, hours, ready)
    PROVE  /\ s \in Int
           /\ s \div 2880 = day /\ s % 2880 = s - day * 2880
           /\ hours[1] <= s % 2880 /\ s % 2880 <= hours[2]
           /\ s >= ready \/ (s = ready - 1 /\ s % Hour = 60)
<1> DEFINE opens == day * 2880 + hours[1]
           closes == day * 2880 + hours[2]
           first == IF opens < ready THEN NextHalfHour(ready) ELSE opens
<1>1. s \in {first + 240 * k : k \in 0..11} /\ s < closes
  BY DEF SlotsOf, Day, Hour
<1>2. hours[1] \in Nat /\ hours[1] < 2880 /\ hours[2] \in Nat /\ hours[2] < 2880
  BY SlotsBounds
<1>3. opens \in Int /\ closes \in Int /\ first \in Int
  BY <1>2, NextHalfHourNear
<1>4. first >= opens /\ (first >= ready \/ (first = ready - 1 /\ first % Hour = 60))
  BY <1>2, <1>3, NextHalfHourNear
<1> HIDE DEF first
<1>5. PICK k \in 0..11 : s = first + 240 * k
  BY <1>1
<1>6. s \in Int /\ s >= first /\ (s # first => s >= first + 240)
  BY <1>3, <1>5
<1>7. s >= ready \/ (s = ready - 1 /\ s % Hour = 60)
  BY <1>3, <1>4, <1>6
<1>8. day * 2880 <= s /\ s < day * 2880 + 2880
  BY <1>1, <1>2, <1>3, <1>4, <1>6
<1>9. s \div 2880 = day /\ s % 2880 = s - day * 2880
  BY <1>6, <1>8, DayOf
<1> QED  BY <1>1, <1>2, <1>3, <1>4, <1>6, <1>7, <1>9

\* If a half hour of a day would be accepted, the day's first slot is no later.
LEMMA FirstSlot ==
    ASSUME NEW day \in Int, NEW hours \in Hours, NEW ready \in Nat, ready % Hour # 1,
           NEW half \in 0..47, day * 2880 + 60 * half >= ready,
           NEW a \in Int, NEW b \in Int, hours[1] = a, hours[2] = b, a <= 60 * half, 60 * half < b
    PROVE  \E s \in SlotsOf(day, hours, ready) : s \div 2880 = day
<1> DEFINE opens == day * 2880 + hours[1]
           closes == day * 2880 + hours[2]
           first == IF opens < ready THEN NextHalfHour(ready) ELSE opens
           t == day * 2880 + 60 * half
<1>1. hours[1] \in Nat /\ hours[1] < 2880 /\ hours[2] \in Nat /\ hours[2] < 2880
  BY SlotsBounds
<1>2. opens \in Int /\ closes \in Int /\ first \in Int /\ t \in Int
  BY <1>1, NextHalfHourNear
<1>3. first <= t
  <2> DEFINE m == 48 * day + half
  <2>1. m \in Int /\ t = 60 * m /\ 60 * m >= ready
    OBVIOUS
  <2>2. NextHalfHour(ready) <= t
    <3> HIDE DEF t, m
    <3> QED  BY <2>1, NextHalfHourNear
  <2> QED  BY <1>1, <2>2
<1>4. first < closes
  BY <1>1, <1>2, <1>3
<1>5. first \in SlotsOf(day, hours, ready)
  <2>1. first = first + 240 * 0 /\ 0 \in 0..11
    BY <1>2
  <2>2. first \in {first + 240 * k : k \in 0..11}
    BY <2>1
  <2> QED  BY <1>4, <2>2 DEF SlotsOf, Day, Hour
<1> QED  BY <1>5, SlotIn

LEMMA Slotted == SlotsHonoured
<1> SUFFICES ASSUME NEW hours \in Hours, NEW now \in Moments, NEW prep \in Preps, NEW span \in Spans
             PROVE  LET offered == AvailableSlots(hours, now, prep, span)
                        ready   == now + prep
                    IN  /\ \A s \in offered :
                              \/ SlotAccepted(s, hours, now, prep)
                              \/ s > now + 7 * Day
                              \/ s = now
                              \/ s = ready - 1 /\ s % Hour = Hour \div 2
                        /\ \A day \in span[1]..span[1] + span[2] - 1 :
                              \/ \E s \in offered : s \div Day = day
                              \/ ready % Hour = 1
                              \/ \A half \in 0..47 :
                                    LET t == day * Day + half * (Hour \div 2)
                                    IN  t % Day < hours[2] => ~SlotAccepted(t, hours, now, prep)
  BY DEF SlotsHonoured
<1>1. now \in Nat /\ prep \in Nat /\ span[1] \in Int /\ span[2] \in 1..14
  BY SlotsBounds
<1>2. Hour = 120 /\ Day = 2880 /\ Hour \div 2 = 60
  BY DEF Hour, Day
<1>3. now + prep \in Nat
  BY <1>1
<1>4. ASSUME NEW s \in AvailableSlots(hours, now, prep, span), ~(s > now + 7 * Day), s # now,
             ~(s = now + prep - 1 /\ s % Hour = 60)
      PROVE  SlotAccepted(s, hours, now, prep)
  <2> DEFINE ready == now + prep
  <2>1. PICK day \in (span[1]..span[1] + span[2] - 1) \ Holidays :
           s \in SlotsOf(day, hours, ready)
    BY DEF AvailableSlots
  <2>2. day \in Int /\ ready \in Nat /\ ready >= now
    BY <1>1
  <2>3. ~(s = ready - 1 /\ s % Hour = 60)
    BY <1>1, <1>4
  <2>4. SlotAccepted(s, hours, now, prep) <=>
           /\ s > now /\ s <= now + 7 * 2880
           /\ s \div 2880 \notin Holidays
           /\ s >= ready
           /\ hours[1] <= s % 2880 /\ s % 2880 <= hours[2]
    BY <1>2 DEF SlotAccepted
  <2> HIDE DEF ready
  <2>5. /\ s \in Int /\ s \div 2880 = day
        /\ hours[1] <= s % 2880 /\ s % 2880 <= hours[2]
        /\ s >= ready
    BY <2>1, <2>2, <2>3, SlotIn
  <2>6. s > now /\ s <= now + 7 * 2880
    BY <1>1, <1>2, <1>4, <2>2, <2>5
  <2> QED  BY <2>1, <2>4, <2>5, <2>6
<1>5. ASSUME NEW day \in span[1]..span[1] + span[2] - 1, (now + prep) % Hour # 1,
             NEW half \in 0..47,
             (day * 2880 + half * 60) % 2880 < hours[2],
             SlotAccepted(day * 2880 + half * 60, hours, now, prep)
      PROVE  \E s \in AvailableSlots(hours, now, prep, span) : s \div Day = day
  <2> DEFINE t == day * 2880 + half * 60
             ready == now + prep
  <2>1. /\ day \in Int /\ half \in Int /\ 0 <= half /\ half <= 47
        /\ hours[1] \in Nat /\ hours[2] \in Nat
    BY <1>1, SlotsBounds
  <2>2. t \in Int /\ t \div 2880 = day /\ t % 2880 = 60 * half
    BY <2>1, DayOf
  <2>3. /\ day \notin Holidays /\ t >= ready
        /\ hours[1] <= 60 * half /\ 60 * half < hours[2]
    BY <1>2, <1>5, <2>2 DEF SlotAccepted
  <2>4. day \in Int /\ ready \in Nat /\ ready % Hour # 1 /\ half \in 0..47
    BY <1>3, <1>5, <2>1
  <2>5. PICK a \in Int, b \in Int :
           /\ day * 2880 + 60 * half >= ready
           /\ hours[1] = a /\ hours[2] = b /\ a <= 60 * half /\ 60 * half < b
    BY <2>1, <2>3
  <2>6. \A s \in SlotsOf(day, hours, ready) : s \in AvailableSlots(hours, now, prep, span)
    BY <2>3 DEF AvailableSlots
  <2> HIDE DEF t, ready
  <2>7. \E s \in SlotsOf(day, hours, ready) : s \div 2880 = day
    BY <2>4, <2>5, FirstSlot
  <2> QED  BY <1>2, <2>6, <2>7
<1>6. ASSUME NEW day \in span[1]..span[1] + span[2] - 1
      PROVE  \/ \E s \in AvailableSlots(hours, now, prep, span) : s \div Day = day
             \/ (now + prep) % Hour = 1
             \/ \A half \in 0..47 :
                   LET t == day * Day + half * (Hour \div 2)
                   IN  t % Day < hours[2] => ~SlotAccepted(t, hours, now, prep)
  BY <1>2, <1>5
<1>7. ASSUME NEW s \in AvailableSlots(hours, now, prep, span)
      PROVE  \/ SlotAccepted(s, hours, now, prep)
             \/ s > now + 7 * Day
             \/ s = now
             \/ s = now + prep - 1 /\ s % Hour = Hour \div 2
  BY <1>2, <1>4
<1> QED  BY <1>1, <1>6, <1>7
-----------------------------------------------------------------------------
(* Types.                                                                  *)

\* The save that is under way is of a check that there is.
Changing == saving # NotSaving => saving.check \in StoreChecks \cup GoodChecks

ShopInv == StorefrontTypeOK /\ Changing /\ Following

LEMMA InitShop == StorefrontInit => ShopInv
<1> SUFFICES ASSUME StorefrontInit PROVE ShopInv
  OBVIOUS
<1>1. has \in [Stores \cup Goods -> SUBSET (StoreChecks \cup GoodChecks)]
  BY DEF StorefrontInit
<1>2. onHand \in [NodeIds -> [Goods -> {"none", "empty", "stocked"}]]
  BY DEF StorefrontInit
<1> QED
  BY <1>1, <1>2, InitFollowing
  DEF StorefrontInit, ShopInv, StorefrontTypeOK, Changing, NoPage, NotReading

\* A check of a row is switched.
LEMMA SwitchedRow ==
    ASSUME StorefrontTypeOK, NEW x \in Stores \cup Goods, NEW c \in StoreChecks \cup GoodChecks,
           has' = Toggled(x, c)
    PROVE  has' \in [Stores \cup Goods -> SUBSET (StoreChecks \cup GoodChecks)]
<1>1. (has[x] \ {c}) \cup ({c} \ has[x]) \in SUBSET (StoreChecks \cup GoodChecks)
  BY DEF StorefrontTypeOK
<1> QED  BY <1>1 DEF StorefrontTypeOK, Toggled

\* What requests and the cache hold are products.
LEMMA AnswersTyped ==
    ASSUME ShopInv, Following', cache'.page \in {cache.page, reader.page, {}}
    PROVE  cache'.page \subseteq Goods /\ reader'.page \subseteq Goods
BY DEF ShopInv, StorefrontTypeOK, Following, PageAnswers

LEMMA ShopStep == ShopInv /\ [StorefrontNext]_storefrontVars => ShopInv'
<1> SUFFICES ASSUME ShopInv, [StorefrontNext]_storefrontVars PROVE ShopInv'
  OBVIOUS
<1>1. Following'
  BY FollowingStep DEF ShopInv
<1> DEFINE Rows == [Stores \cup Goods -> SUBSET (StoreChecks \cup GoodChecks)]
           Stocks == [NodeIds -> [Goods -> {"none", "empty", "stocked"}]]
           Savings == saving = NotSaving \/ /\ saving.row \in Stores \cup Goods
                                            /\ saving.check \in StoreChecks \cup GoodChecks
                                            /\ saving.state \in {"uncommitted", "unsignalled"}
<1>2. has \in Rows /\ on \subseteq NodeIds /\ onHand \in Stocks /\ site \in Sites /\ Savings
      /\ behind \in BOOLEAN /\ reader.outrun \in BOOLEAN
  BY DEF ShopInv, StorefrontTypeOK, Changing, Following, PageAnswers
<1>3. ASSUME has' \in Rows, on' \subseteq NodeIds, onHand' \in Stocks, site' \in Sites, Savings',
             behind' \in BOOLEAN, cache'.page \in {cache.page, reader.page, {}}
      PROVE  ShopInv'
  <2>1. cache'.page \subseteq Goods /\ reader'.page \subseteq Goods
    BY <1>1, <1>3, AnswersTyped
  <2>2. saving' = NotSaving \/ (/\ saving'.row \in Stores \cup Goods
                                /\ saving'.state \in {"uncommitted", "unsignalled"})
    BY <1>3
  <2>3. Changing'
    BY <1>3 DEF Changing
  <2> QED  BY <1>1, <1>3, <2>1, <2>2, <2>3 DEF ShopInv, StorefrontTypeOK
<1> HIDE DEF Rows, Stocks
<1>4. CASE UNCHANGED storefrontVars
  BY <1>2, <1>3, <1>4 DEF storefrontVars, shopVars, cacheVars
<1>5. ASSUME NEW x \in Stores \cup Goods, NEW c \in StoreChecks \cup GoodChecks,
             SaveInTransaction(x, c) \/ SaveAlone(x, c)
      PROVE  ShopInv'
  <2>1. saving' \in {[row |-> x, check |-> c, state |-> "uncommitted"],
                     [row |-> x, check |-> c, state |-> "unsignalled"]}
    BY <1>5 DEF SaveInTransaction, SaveAlone
  <2>2. Savings'
    BY <2>1
  <2>3. has' = has \/ has' = Toggled(x, c)
    BY <1>5 DEF SaveInTransaction, SaveAlone, shopVars
  <2>4. has' \in Rows
    BY <1>2, <2>3, SwitchedRow DEF ShopInv, Rows
  <2>5. /\ UNCHANGED <<on, onHand, site>>
        /\ \/ cache' = NoPage /\ behind' = FALSE
           \/ UNCHANGED <<cache, behind>>
    BY <1>5 DEF SaveInTransaction, SaveAlone, Emptied, shopVars
  <2>6. behind' \in BOOLEAN /\ cache'.page \in {cache.page, {}}
    <3>1. NoPage.page = {}
      BY DEF NoPage
    <3>2. CASE cache' = NoPage /\ behind' = FALSE
      BY <3>1, <3>2
    <3>3. CASE UNCHANGED <<cache, behind>>
      BY <1>2, <3>3
    <3> QED  BY <2>5, <3>2, <3>3
  <2> QED  BY <1>2, <1>3, <2>2, <2>4, <2>5, <2>6
<1>6. ASSUME NEW commits \in BOOLEAN, EndTransaction(commits) PROVE ShopInv'
  <2>1. /\ saving.row \in Stores \cup Goods /\ saving.check \in StoreChecks \cup GoodChecks
    BY <1>2, <1>6 DEF EndTransaction, NotSaving
  <2>2. has' = has \/ has' = Toggled(saving.row, saving.check)
    BY <1>6 DEF EndTransaction
  <2>3. has' \in Rows
    BY <1>2, <2>1, <2>2, SwitchedRow DEF ShopInv, Rows
  <2>4. /\ UNCHANGED <<on, onHand, site, cache>> /\ saving' = NotSaving
        /\ behind' \in BOOLEAN
    BY <1>2, <1>6 DEF EndTransaction, Outdated
  <2> QED  BY <1>2, <1>3, <2>3, <2>4
<1>7. ASSUME NEW reached \in BOOLEAN, Signal(reached) PROVE ShopInv'
  <2>1. /\ UNCHANGED <<has, on, onHand, site>> /\ saving' = NotSaving
        /\ behind' \in BOOLEAN /\ (cache' = cache \/ cache' = NoPage)
    BY <1>7 DEF Signal, Emptied, shopVars
  <2> QED  BY <1>2, <1>3, <2>1 DEF NoPage
<1>8. ASSUME NEW x \in Stores \cup Goods, NEW c \in StoreChecks \cup GoodChecks,
             has' = Toggled(x, c), Outdated, UNCHANGED <<on, onHand, site, saving, cache>>
      PROVE  ShopInv'
  <2>1. has' \in Rows
    BY <1>8, SwitchedRow DEF ShopInv, Rows
  <2> QED  BY <1>2, <1>3, <1>8, <2>1 DEF Outdated
<1>9. ASSUME NEW n \in NodeIds, NEW g \in Goods, NEW s \in {"none", "empty", "stocked"},
             SetOnHand(n, g, s)
      PROVE  ShopInv'
  <2>1. onHand' \in Stocks
    BY <1>2, <1>9 DEF SetOnHand, Stocks
  <2>2. UNCHANGED <<has, on, site, saving, cache>> /\ behind' \in BOOLEAN
    BY <1>9 DEF SetOnHand, Outdated
  <2> QED  BY <1>2, <1>3, <2>1, <2>2
<1>10. ASSUME NEW n \in NodeIds, SetNode(n) PROVE ShopInv'
  <2>1. on' \subseteq NodeIds
    BY <1>2, <1>10 DEF SetNode
  <2>2. UNCHANGED <<has, onHand, site, saving, cache>> /\ behind' \in BOOLEAN
    BY <1>10 DEF SetNode, Outdated
  <2> QED  BY <1>2, <1>3, <2>1, <2>2
<1>11. ASSUME NEW g \in Goods, RestoreUnit(g) PROVE ShopInv'
  BY <1>8, <1>11 DEF RestoreUnit, GoodChecks
<1>12. ASSUME NEW v \in Stores, NEW c \in StoreChecks, TimePasses(v, c) PROVE ShopInv'
  BY <1>8, <1>12 DEF TimePasses
<1>13. CASE KeepPage \/ Expire \/ \E view \in CachedViews, n \in NodeIds \cup {NoNode} : ReadPage(view, n)
  <2>1. /\ UNCHANGED <<has, on, onHand, site, saving>>
        /\ behind' \in {behind, reader.outrun, FALSE}
    BY <1>13 DEF KeepPage, Expire, ReadPage, Emptied, shopVars
  <2>2. CASE KeepPage
    BY <1>2, <1>3, <2>1, <2>2 DEF KeepPage
  <2>3. CASE Expire
    BY <1>2, <1>3, <2>1, <2>3 DEF Expire, Emptied, NoPage
  <2>4. CASE cache' = cache
    BY <1>2, <1>3, <2>1, <2>4
  <2> QED  BY <1>13, <2>2, <2>3, <2>4 DEF ReadPage
<1> QED
  BY <1>4, <1>5, <1>6, <1>7, <1>9, <1>10, <1>11, <1>12, <1>13 DEF StorefrontNext

LEMMA ShopInvariance == StorefrontSpec => []ShopInv
BY InitShop, ShopStep, PTL DEF StorefrontSpec

\* Every row, request and cached answer has its type, for any stores, products, nodes and
\* sites.
THEOREM StorefrontTypes == StorefrontSpec => []StorefrontTypeOK
<1>1. ShopInv => StorefrontTypeOK
  BY DEF ShopInv
<1> QED  BY <1>1, ShopInvariance, PTL

\* A request is answered with the page as it is, for any stores, products and nodes,
\* however saves, signals, sales, the time and requests that compute overlap, except where
\* no signal is to come or the answer was computed before a change and stored after it.
THEOREM CacheIsCurrent == StorefrontSpec => []CacheFollows
<1>1. Following => CacheFollows
  BY DEF Following, Fresh, CacheFollows
<1> QED  BY <1>1, InitFollowing, FollowingStep, PTL DEF StorefrontSpec

\* The pages and the checkout agree, in both directions, for any stores, products, nodes
\* and sites, in every state of the shop; and slots that are offered are accepted, for any
\* hours, holidays, preparation time and moment of the day.
THEOREM ShownIsOrderable == StorefrontSpec => []PagesAgree
<1>1. ShopInv => PagesAgree
  BY ShownOrderable, OrderableShown, Slotted DEF ShopInv, StorefrontTypeOK, PagesAgree
<1> QED  BY <1>1, ShopInvariance, PTL
-----------------------------------------------------------------------------
(***************************************************************************)
(* Suggestions: what a customer is recommended.                            *)
(***************************************************************************)

(* Sequences.                                                              *)

LEMMA LastIsMax ==
    ASSUME NEW k \in Nat \ {0}, NEW s \in SUBSET (1..k), k \in s
    PROVE  Max(s) = k
<1>1. \A y \in s : y \in Int /\ k >= y
  BY SMT
<1>2. Max(s) \in s /\ \A y \in s : Max(s) >= y
  BY <1>1, Zenon DEF Max
<1>3. Max(s) \in Int /\ Max(s) >= k /\ k >= Max(s)
  BY <1>1, <1>2, Zenon
<1> QED  BY <1>3

LEMMA MaxIn ==
    ASSUME NEW n \in Nat, NEW s \in SUBSET (1..n), s # {}
    PROVE  Max(s) \in s
<1> DEFINE T == {m \in 0..n : n - m \in s}
<1>1. T \subseteq Nat /\ T # {}
  <2>1. PICK x \in s : TRUE
    OBVIOUS
  <2>2. x \in Int /\ n - x \in 0..n /\ n - (n - x) = x
    BY <2>1
  <2>3. n - x \in T
    BY <2>2, <2>1
  <2>4. T \subseteq Nat
    OBVIOUS
  <2> HIDE DEF T
  <2> QED  BY <2>3, <2>4
<1>2. PICK m \in T : \A k \in T : m <= k
  <2> HIDE DEF T
  <2> QED  BY <1>1, LeastElement
<1>3. \A y \in s : n - m >= y
  <2> SUFFICES ASSUME NEW y \in s  PROVE n - m >= y
    OBVIOUS
  <2>1. y \in 1..n
    OBVIOUS
  <2>2. n - y \in 0..n /\ n - (n - y) = y
    BY <2>1
  <2>3. n - y \in T
    BY <2>2
  <2> QED  BY <1>2, <2>1, <2>3
<1> QED  BY <1>2, <1>3, Zenon DEF Max

LEMMA LeastOf ==
    ASSUME NEW m \in Int, NEW n \in Int
    PROVE  Min({m, n}) = IF m <= n THEN m ELSE n
<1> DEFINE least == IF m <= n THEN m ELSE n
<1>1. least \in {m, n} /\ \A y \in {m, n} : least <= y
  OBVIOUS
<1>2. Min({m, n}) \in {m, n} /\ \A y \in {m, n} : Min({m, n}) <= y
  BY <1>1 DEF Min
<1> QED  BY <1>1, <1>2

\* A recursion that takes the largest number out of a set has a solution.
Solved(g, n, base, F) ==
    \A s \in SUBSET (1..n) : g[s] = IF s = {} THEN base ELSE F[Max(s)][g[s \ {Max(s)}]]

LEMMA Recursion ==
    ASSUME NEW n \in Nat, NEW V, NEW base \in V, NEW F \in [1..n -> [V -> V]]
    PROVE  \E g \in [SUBSET (1..n) -> V] : Solved(g, n, base, F)
<1> DEFINE Solvable(m) == \E g \in [SUBSET (1..m) -> V] : Solved(g, m, base, F)
           T == {m \in Nat : m <= n => Solvable(m)}
<1>1. 0 \in T
  <2> DEFINE g == [s \in SUBSET (1..0) |-> base]
  <2>1. \A s \in SUBSET (1..0) : s = {}
    OBVIOUS
  <2>2. g \in [SUBSET (1..0) -> V]
    OBVIOUS
  <2>3. \A s \in SUBSET (1..0) : g[s] = base
    OBVIOUS
  <2> HIDE DEF g
  <2>4. Solved(g, 0, base, F)
    BY <2>1, <2>3, Zenon DEF Solved
  <2> QED  BY <2>2, <2>4
<1>2. ASSUME NEW m \in Nat, m \in T  PROVE m + 1 \in T
  <2> SUFFICES ASSUME m + 1 <= n  PROVE Solvable(m + 1)
    <3> HIDE DEF Solvable
    <3> QED  OBVIOUS
  <2>0. Solvable(m)
    <3> HIDE DEF Solvable
    <3> QED  BY <1>2
  <2>1. PICK f \in [SUBSET (1..m) -> V] : Solved(f, m, base, F)
    BY <2>0
  <2> DEFINE g == [s \in SUBSET (1..m + 1) |->
                      IF m + 1 \in s THEN F[m + 1][f[s \ {m + 1}]] ELSE f[s]]
  <2>2. \A s \in SUBSET (1..m + 1) : /\ s \ {m + 1} \in SUBSET (1..m)
                                     /\ m + 1 \notin s => s \in SUBSET (1..m)
    OBVIOUS
  <2>3. g \in [SUBSET (1..m + 1) -> V]
    <3>1. ASSUME NEW s \in SUBSET (1..m + 1)
          PROVE  (IF m + 1 \in s THEN F[m + 1][f[s \ {m + 1}]] ELSE f[s]) \in V
      <4>1. F[m + 1] \in [V -> V]
        OBVIOUS
      <4>2. f[s \ {m + 1}] \in V /\ (m + 1 \notin s => f[s] \in V)
        BY <2>1, <2>2
      <4> QED  BY <4>1, <4>2
    <3> QED  BY <3>1
  <2>4. ASSUME NEW s \in SUBSET (1..m + 1)
        PROVE  g[s] = IF s = {} THEN base ELSE F[Max(s)][g[s \ {Max(s)}]]
    <3>1. CASE m + 1 \in s
      <4>1. Max(s) = m + 1
        BY <3>1, LastIsMax
      <4>2. s \ {m + 1} \in SUBSET (1..m + 1) /\ g[s \ {m + 1}] = f[s \ {m + 1}]
        OBVIOUS
      <4>3. g[s] = F[m + 1][f[s \ {m + 1}]]
        BY <3>1
      <4> HIDE DEF g
      <4> QED  BY <3>1, <4>1, <4>2, <4>3
    <3>2. CASE m + 1 \notin s
      <4>1. s \in SUBSET (1..m)
        BY <2>2, <3>2
      <4>2. s \ {Max(s)} \in SUBSET (1..m + 1) /\ m + 1 \notin s \ {Max(s)}
        BY <3>2
      <4>3. g[s] = f[s] /\ g[s \ {Max(s)}] = f[s \ {Max(s)}]
        BY <3>2, <4>2
      <4> HIDE DEF g
      <4> QED  BY <2>1, <4>1, <4>3 DEF Solved
    <3> QED  BY <3>1, <3>2
  <2> HIDE DEF g
  <2> QED  BY <2>3, <2>4 DEF Solved
<1>3. n \in T
  <2> HIDE DEF T
  <2> QED  BY <1>1, <1>2, Induction
<1>4. Solvable(n)
  <2> HIDE DEF Solvable
  <2> QED  BY <1>3
<1> QED  BY <1>4

LEMMA Upto ==
    ASSUME NEW n \in Nat, NEW k \in 1..n
    PROVE  1..k \in SUBSET (1..n) /\ 1..k # {} /\ Max(1..k) = k /\ (1..k) \ {k} = 1..k - 1
<1>1. Max(1..k) = k
  <2>1. k \in Nat \ {0} /\ k \in 1..k /\ 1..k \in SUBSET (1..k)
    OBVIOUS
  <2> QED  BY <2>1, LastIsMax
<1>2. 1..k \in SUBSET (1..n) /\ 1..k # {} /\ (1..k) \ {k} = 1..k - 1
  OBVIOUS
<1> QED  BY <1>1, <1>2

\* A list is filtered one item after another, ...
Filters(g, list, set) ==
    g = [i \in 0..Len(list) |-> IF i = 0 THEN <<>>
                                ELSE IF list[i] \in set THEN Append(g[i - 1], list[i])
                                ELSE g[i - 1]]

LEMMA OnlyFilters == \A list, set : Only(list, set) = (CHOOSE g : Filters(g, list, set))[Len(list)]
BY DEF Only, Filters

LEMMA OnlySteps ==
    ASSUME NEW V, NEW list \in Seq(V), NEW set
    PROVE  \E h : /\ h[0] = <<>> /\ h[Len(list)] = Only(list, set)
                  /\ \A k \in 1..Len(list) :
                        h[k] = IF list[k] \in set THEN Append(h[k - 1], list[k]) ELSE h[k - 1]
<1>1. Len(list) \in Nat /\ DOMAIN list = 1..Len(list) /\ \A k \in 1..Len(list) : list[k] \in V
  BY LenProperties
<1>2. PICK n \in Nat : n = Len(list)
  BY <1>1
<1>3. \E g : Filters(g, list, set)
  <2> DEFINE F == [i \in 1..n |-> [q \in Seq(V) |-> IF list[i] \in set THEN Append(q, list[i]) ELSE q]]
  <2>1. F \in [1..n -> [Seq(V) -> Seq(V)]] /\ <<>> \in Seq(V)
    <3>1. ASSUME NEW i \in 1..n, NEW q \in Seq(V)
          PROVE  (IF list[i] \in set THEN Append(q, list[i]) ELSE q) \in Seq(V)
      BY <1>1, <1>2, AppendProperties
    <3> QED  BY <3>1, EmptySeq
  <2>2. \A i \in 1..n, q \in Seq(V) : F[i][q] = IF list[i] \in set THEN Append(q, list[i]) ELSE q
    OBVIOUS
  <2> HIDE DEF F
  <2>3. PICK f \in [SUBSET (1..n) -> Seq(V)] : Solved(f, n, <<>>, F)
    BY <2>1, Recursion
  <2> DEFINE g == [i \in 0..n |-> f[1..i]]
  <2>4. ASSUME NEW i \in 0..n
        PROVE  f[1..i] = IF i = 0 THEN <<>>
                         ELSE IF list[i] \in set THEN Append(g[i - 1], list[i])
                         ELSE g[i - 1]
    <3>1. CASE i = 0
      <4>1. 1..i = {} /\ 1..i \in SUBSET (1..n)
        BY <3>1
      <4> QED  BY <2>3, <3>1, <4>1, Zenon DEF Solved
    <3>2. CASE i # 0
      <4>1. i \in 1..n /\ i - 1 \in 0..n
        BY <3>2
      <4>2. 1..i \in SUBSET (1..n) /\ 1..i # {} /\ Max(1..i) = i /\ (1..i) \ {i} = 1..i - 1
        BY <4>1, Upto
      <4>3. f[1..i] = F[i][f[1..i - 1]]
        BY <2>3, <4>2, Zenon DEF Solved
      <4>4. g[i - 1] = f[1..i - 1] /\ 1..i - 1 \in SUBSET (1..n)
        BY <4>1
      <4>5. g[i - 1] \in Seq(V)
        BY <2>3, <4>4
      <4> HIDE DEF g
      <4> QED  BY <2>2, <3>2, <4>1, <4>3, <4>4, <4>5
    <3> QED  BY <3>1, <3>2
  <2>5. g = [i \in 0..n |-> IF i = 0 THEN <<>>
                           ELSE IF list[i] \in set THEN Append(g[i - 1], list[i])
                           ELSE g[i - 1]]
    BY <2>4
  <2> HIDE DEF g
  <2>6. Filters(g, list, set)
    BY <1>2, <2>5 DEF Filters
  <2> QED  BY <2>6
<1>4. PICK g : Filters(g, list, set) /\ Only(list, set) = g[Len(list)]
  BY <1>3, OnlyFilters
<1>5. /\ g[0] = <<>> /\ g[n] = Only(list, set)
      /\ \A k \in 1..n : g[k] = IF list[k] \in set THEN Append(g[k - 1], list[k]) ELSE g[k - 1]
  <2>1. g = [i \in 0..Len(list) |-> IF i = 0 THEN <<>>
                                    ELSE IF list[i] \in set THEN Append(g[i - 1], list[i])
                                    ELSE g[i - 1]]
    BY <1>4, Zenon DEF Filters
  <2>2. \A i \in 0..Len(list) : g[i] = IF i = 0 THEN <<>>
                                       ELSE IF list[i] \in set THEN Append(g[i - 1], list[i])
                                       ELSE g[i - 1]
    BY <2>1, Zenon
  <2>3. 0 \in 0..n /\ \A k \in 1..n : k \in 0..n /\ k # 0
    OBVIOUS
  <2>4. g[0] = <<>>
    BY <1>2, <2>2, <2>3, Zenon
  <2>5. \A k \in 1..n : g[k] = IF list[k] \in set THEN Append(g[k - 1], list[k]) ELSE g[k - 1]
    BY <1>2, <2>2, <2>3, Zenon
  <2>6. g[n] = Only(list, set)
    BY <1>2, <1>4, Zenon
  <2> QED  BY <2>4, <2>5, <2>6
<1> QED  BY <1>2, <1>5

LEMMA Appended ==
    ASSUME NEW V, NEW list \in Seq(V), NEW x \in V
    PROVE  /\ Append(list, x) \in Seq(V) /\ Len(Append(list, x)) = Len(list) + 1
           /\ ToSet(Append(list, x)) = ToSet(list) \cup {x}
           /\ IsInjective(list) /\ x \notin ToSet(list) => IsInjective(Append(list, x))
<1> DEFINE more == Append(list, x)
<1>1. /\ Len(list) \in Nat /\ DOMAIN list = 1..Len(list)
      /\ more \in Seq(V) /\ Len(more) = Len(list) + 1 /\ DOMAIN more = 1..Len(list) + 1
      /\ \A i \in 1..Len(list) : more[i] = list[i]
      /\ more[Len(list) + 1] = x
  BY AppendProperties, LenProperties
<1> HIDE DEF more
<1>2. PICK n \in Nat : n = Len(list)
  BY <1>1
<1>3. /\ DOMAIN list = 1..n /\ DOMAIN more = 1..n + 1
      /\ \A i \in 1..n : more[i] = list[i]
      /\ more[n + 1] = x
      /\ n + 1 \in 1..n + 1 /\ 1..n + 1 = 1..n \cup {n + 1}
  BY <1>1, <1>2
<1>4. ToSet(more) = ToSet(list) \cup {x}
  BY <1>3 DEF ToSet
<1>5. IsInjective(list) /\ x \notin ToSet(list) => IsInjective(more)
  BY <1>3 DEF ToSet, IsInjective
<1> QED  BY <1>1, <1>4, <1>5 DEF more

\* ... and keeps what is in the set, in its order and as often as it was there.
LEMMA OnlyKeeps ==
    ASSUME NEW V, NEW list \in Seq(V), NEW set
    PROVE  /\ Only(list, set) \in Seq(V)
           /\ ToSet(Only(list, set)) = ToSet(list) \cap set
           /\ (\A i, j \in 1..Len(list) : list[i] = list[j] /\ list[i] \in set => i = j)
                 => IsInjective(Only(list, set))
<1>1. Len(list) \in Nat /\ DOMAIN list = 1..Len(list) /\ \A k \in 1..Len(list) : list[k] \in V
  BY LenProperties
<1>2. PICK n \in Nat : n = Len(list)
  BY <1>1
<1>3. PICK h : /\ h[0] = <<>> /\ h[n] = Only(list, set)
               /\ \A k \in 1..n :
                     h[k] = IF list[k] \in set THEN Append(h[k - 1], list[k]) ELSE h[k - 1]
  BY <1>2, OnlySteps
<1> DEFINE Once == \A i, j \in 1..n : list[i] = list[j] /\ list[i] \in set => i = j
           Kept(k) == /\ h[k] \in Seq(V)
                      /\ ToSet(h[k]) = {list[i] : i \in 1..k} \cap set
                      /\ Once => IsInjective(h[k])
           T == {k \in Nat : k <= n => Kept(k)}
<1>4. Kept(0)
  <2>1. <<>> \in Seq(V) /\ DOMAIN <<>> = {}
    BY EmptySeq
  <2>2. ToSet(<<>>) = {} /\ IsInjective(<<>>) /\ 1..0 = {}
    BY <2>1 DEF ToSet, IsInjective
  <2> QED  BY <1>3, <2>1, <2>2
<1>5. ASSUME NEW k \in Nat, k + 1 <= n, Kept(k)  PROVE Kept(k + 1)
  <2>1. /\ k + 1 \in 1..n /\ list[k + 1] \in V /\ (k + 1) - 1 = k
        /\ 1..k + 1 = 1..k \cup {k + 1} /\ k + 1 \notin 1..k /\ 1..k \subseteq 1..n
    BY <1>1, <1>2, <1>5
  <2>2. {list[i] : i \in 1..k + 1} = {list[i] : i \in 1..k} \cup {list[k + 1]}
    BY <2>1
  <2>3. CASE list[k + 1] \in set
    <3>1. h[k + 1] = Append(h[k], list[k + 1])
      BY <1>3, <2>1, <2>3
    <3>2. Once => list[k + 1] \notin ToSet(h[k])
      BY <1>5, <2>1, <2>3
    <3>3. /\ h[k + 1] \in Seq(V)
          /\ ToSet(h[k + 1]) = ToSet(h[k]) \cup {list[k + 1]}
          /\ IsInjective(h[k]) /\ list[k + 1] \notin ToSet(h[k]) => IsInjective(h[k + 1])
      BY <1>5, <2>1, <3>1, Appended
    <3> HIDE DEF Once
    <3>4. Once => IsInjective(h[k + 1])
      BY <1>5, <3>2, <3>3
    <3>5. ToSet(h[k + 1]) = {list[i] : i \in 1..k + 1} \cap set
      BY <1>5, <2>2, <2>3, <3>3, Zenon
    <3> QED  BY <3>3, <3>4, <3>5
  <2>4. CASE list[k + 1] \notin set
    <3>1. h[k + 1] = h[k]
      BY <1>3, <2>1, <2>4
    <3> QED  BY <1>5, <2>2, <2>4, <3>1
  <2> QED  BY <2>3, <2>4
<1>6. Kept(n)
  <2> HIDE DEF Kept
  <2>1. 0 \in T
    BY <1>4
  <2>2. \A k \in Nat : k \in T => k + 1 \in T
    BY <1>5
  <2>3. n \in T
    <3> HIDE DEF T
    <3> QED  BY <2>1, <2>2, Induction
  <2> QED  BY <2>3
<1>7. ToSet(list) = {list[i] : i \in 1..n}
  BY <1>1, <1>2 DEF ToSet
<1> QED  BY <1>2, <1>3, <1>6, <1>7

LEMMA WithoutKeeps ==
    ASSUME NEW V, NEW list \in Seq(V), IsInjective(list), NEW set
    PROVE  /\ Without(list, set) \in Seq(V)
           /\ ToSet(Without(list, set)) = ToSet(list) \ set
           /\ IsInjective(Without(list, set))
<1>1. \A i, j \in 1..Len(list) : list[i] = list[j] => i = j
  BY LenProperties DEF IsInjective
<1>2. ToSet(list) \cap (ToSet(list) \ set) = ToSet(list) \ set
  OBVIOUS
<1> QED  BY <1>1, <1>2, OnlyKeeps DEF Without

LEMMA OnlyInjective ==
    ASSUME NEW V, NEW list \in Seq(V), IsInjective(list), NEW set
    PROVE  /\ Only(list, set) \in Seq(V)
           /\ ToSet(Only(list, set)) = ToSet(list) \cap set
           /\ IsInjective(Only(list, set))
<1>1. \A i, j \in 1..Len(list) : list[i] = list[j] => i = j
  BY LenProperties DEF IsInjective
<1> QED  BY <1>1, OnlyKeeps

\* Merging takes one item after another that is not there yet, ...
Merges(g, list, limit) ==
    g = [s \in SUBSET DOMAIN list |->
            IF s = {} THEN <<>>
            ELSE IF list[Max(s)] \in ToSet(g[s \ {Max(s)}]) \/ Len(g[s \ {Max(s)}]) >= limit
                 THEN g[s \ {Max(s)}]
                 ELSE Append(g[s \ {Max(s)}], list[Max(s)])]

LEMMA MergeMerges ==
    \A p, f, limit :
        MergeUniqueIds(p, f, limit) = (CHOOSE g : Merges(g, p \o f, limit))[DOMAIN (p \o f)]
BY DEF MergeUniqueIds, FoldLeft, MapThenFoldSet, Merges

LEMMA MergeSteps ==
    ASSUME NEW V, NEW list \in Seq(V), NEW limit
    PROVE  \E h : /\ h[0] = <<>>
                  /\ h[Len(list)] = (CHOOSE g : Merges(g, list, limit))[DOMAIN list]
                  /\ \A k \in 1..Len(list) :
                        h[k] = IF list[k] \in ToSet(h[k - 1]) \/ Len(h[k - 1]) >= limit
                               THEN h[k - 1] ELSE Append(h[k - 1], list[k])
<1>1. Len(list) \in Nat /\ DOMAIN list = 1..Len(list) /\ \A k \in 1..Len(list) : list[k] \in V
  BY LenProperties
<1>2. PICK n \in Nat : n = Len(list)
  BY <1>1
<1>3. \E f : Merges(f, list, limit)
  <2> DEFINE Next(i, q) == IF list[i] \in ToSet(q) \/ Len(q) >= limit THEN q ELSE Append(q, list[i])
             F == [i \in 1..n |-> [q \in Seq(V) |-> Next(i, q)]]
  <2>1. F \in [1..n -> [Seq(V) -> Seq(V)]] /\ <<>> \in Seq(V)
    <3>1. ASSUME NEW i \in 1..n, NEW q \in Seq(V)  PROVE Next(i, q) \in Seq(V)
      BY <1>1, <1>2, AppendProperties
    <3> HIDE DEF Next
    <3> QED  BY <3>1, EmptySeq
  <2>2. \A i \in 1..n, q \in Seq(V) : F[i][q] = Next(i, q)
    <3> HIDE DEF Next
    <3> QED  OBVIOUS
  <2> HIDE DEF F
  <2>3. PICK f \in [SUBSET (1..n) -> Seq(V)] : Solved(f, n, <<>>, F)
    BY <2>1, Recursion
  <2>4. ASSUME NEW s \in SUBSET (1..n)
        PROVE  f[s] = IF s = {} THEN <<>> ELSE Next(Max(s), f[s \ {Max(s)}])
    <3>1. f[s] = IF s = {} THEN <<>> ELSE F[Max(s)][f[s \ {Max(s)}]]
      BY <2>3 DEF Solved
    <3>2. s # {} => Max(s) \in 1..n /\ f[s \ {Max(s)}] \in Seq(V)
      BY <2>3, MaxIn
    <3> HIDE DEF Next
    <3> QED  BY <2>2, <3>1, <3>2
  <2>5. Merges(f, list, limit)
    BY <1>1, <1>2, <2>3, <2>4 DEF Merges
  <2> QED  BY <2>5
<1> DEFINE g == CHOOSE g : Merges(g, list, limit)
<1>4. Merges(g, list, limit)
  BY <1>3
<1> HIDE DEF g
<1>5. \A s \in SUBSET (1..n) :
         g[s] = IF s = {} THEN <<>>
                ELSE IF list[Max(s)] \in ToSet(g[s \ {Max(s)}]) \/ Len(g[s \ {Max(s)}]) >= limit
                     THEN g[s \ {Max(s)}] ELSE Append(g[s \ {Max(s)}], list[Max(s)])
  BY <1>1, <1>2, <1>4 DEF Merges
<1> DEFINE h == [k \in 0..n |-> g[1..k]]
<1>6. h[0] = <<>>
  <2>1. h[0] = g[1..0] /\ 1..0 = {} /\ 1..0 \in SUBSET (1..n)
    BY <1>2
  <2> HIDE DEF h
  <2> QED  BY <1>5, <2>1, Zenon
<1>7. h[n] = g[DOMAIN list]
  BY <1>1, <1>2
<1>8. ASSUME NEW k \in 1..n
      PROVE  h[k] = IF list[k] \in ToSet(h[k - 1]) \/ Len(h[k - 1]) >= limit
                    THEN h[k - 1] ELSE Append(h[k - 1], list[k])
  <2>1. h[k] = g[1..k] /\ h[k - 1] = g[1..k - 1]
    OBVIOUS
  <2>2. 1..k \in SUBSET (1..n) /\ 1..k # {} /\ Max(1..k) = k /\ (1..k) \ {k} = 1..k - 1
    BY <1>2, Upto
  <2> HIDE DEF h
  <2> QED  BY <1>5, <2>1, <2>2, Zenon
<1> HIDE DEF h
<1> QED  BY <1>2, <1>6, <1>7, <1>8 DEF g

\* ... so that nothing is in the result twice.
LEMMA MergeOnce ==
    ASSUME NEW V, NEW p \in Seq(V), NEW f \in Seq(V), NEW limit
    PROVE  MergeUniqueIds(p, f, limit) \in Seq(V) /\ IsInjective(MergeUniqueIds(p, f, limit))
<1> DEFINE list == p \o f
<1>1. /\ list \in Seq(V) /\ Len(list) \in Nat
      /\ \A k \in 1..Len(list) : list[k] \in V
  <2>1. list \in Seq(V)
    BY ConcatProperties
  <2> HIDE DEF list
  <2> QED  BY <2>1, LenProperties
<1>2. MergeUniqueIds(p, f, limit) = (CHOOSE g : Merges(g, list, limit))[DOMAIN list]
  BY MergeMerges
<1> HIDE DEF list
<1>3. PICK n \in Nat : n = Len(list)
  BY <1>1
<1>4. PICK h : /\ h[0] = <<>> /\ h[n] = MergeUniqueIds(p, f, limit)
               /\ \A k \in 1..n :
                     h[k] = IF list[k] \in ToSet(h[k - 1]) \/ Len(h[k - 1]) >= limit
                            THEN h[k - 1] ELSE Append(h[k - 1], list[k])
  <2> DEFINE Steps(h, k) == h[k] = IF list[k] \in ToSet(h[k - 1]) \/ Len(h[k - 1]) >= limit
                                   THEN h[k - 1] ELSE Append(h[k - 1], list[k])
  <2>1. \E h : /\ h[0] = <<>>
               /\ h[Len(list)] = (CHOOSE g : Merges(g, list, limit))[DOMAIN list]
               /\ \A k \in 1..Len(list) : Steps(h, k)
    BY <1>1, MergeSteps
  <2> HIDE DEF Steps
  <2>2. \E h : h[0] = <<>> /\ h[n] = MergeUniqueIds(p, f, limit) /\ \A k \in 1..n : Steps(h, k)
    BY <1>2, <1>3, <2>1
  <2> QED  BY <2>2 DEF Steps
<1> DEFINE Kept(k) == h[k] \in Seq(V) /\ IsInjective(h[k])
           T == {k \in Nat : k <= n => Kept(k)}
<1>5. Kept(0)
  <2>1. <<>> \in Seq(V) /\ DOMAIN <<>> = {}
    BY EmptySeq
  <2> QED  BY <1>4, <2>1 DEF IsInjective
<1>6. ASSUME NEW k \in Nat, k + 1 <= n, Kept(k)  PROVE Kept(k + 1)
  <2>1. k + 1 \in 1..n /\ list[k + 1] \in V /\ (k + 1) - 1 = k
    BY <1>1, <1>3, <1>6
  <2>2. h[k + 1] = IF list[k + 1] \in ToSet(h[k]) \/ Len(h[k]) >= limit
                   THEN h[k] ELSE Append(h[k], list[k + 1])
    BY <1>4, <2>1, Zenon
  <2>3. list[k + 1] \notin ToSet(h[k]) =>
           Append(h[k], list[k + 1]) \in Seq(V) /\ IsInjective(Append(h[k], list[k + 1]))
    BY <1>6, <2>1, Appended
  <2> QED  BY <1>6, <2>2, <2>3, Zenon
<1>7. Kept(n)
  <2> HIDE DEF Kept
  <2>1. 0 \in T
    BY <1>5
  <2>2. \A k \in Nat : k \in T => k + 1 \in T
    BY <1>6
  <2>3. n \in T
    <3> HIDE DEF T
    <3> QED  BY <2>1, <2>2, Induction
  <2> QED  BY <2>3
<1> QED  BY <1>4, <1>7

LEMMA FirstIs ==
    ASSUME NEW V, NEW list \in Seq(V), NEW n \in Nat
    PROVE  /\ First(list, n) \in Seq(V)
           /\ IsInjective(list) => IsInjective(First(list, n))
           /\ ToSet(First(list, n)) \subseteq ToSet(list)
           /\ Len(First(list, n)) = IF n <= Len(list) THEN n ELSE Len(list)
           /\ Len(list) <= n => First(list, n) = list
<1>1. PICK k \in Nat : /\ Len(list) = k /\ DOMAIN list = 1..k
                       /\ \A i \in 1..k : list[i] \in V
  BY LenProperties
<1>2. PICK m \in Nat : m = Min({n, Len(list)}) /\ m = IF n <= k THEN n ELSE k
  BY <1>1, LeastOf
<1> DEFINE head == SubSeq(list, 1, m)
<1>3. 1..m \subseteq 1..k /\ \A i \in 1..m : list[i] \in V
  <2>1. m <= k
    BY <1>2
  <2>2. 1..m \subseteq 1..k
    BY <2>1
  <2> QED  BY <1>1, <2>2
<1>4. /\ head \in Seq(V) /\ Len(head) = IF 1 <= m THEN m - 1 + 1 ELSE 0
      /\ \A i \in 1..m - 1 + 1 : head[i] = list[1 + i - 1]
  BY <1>3, SubSeqProperties
<1> HIDE DEF head
<1>5. DOMAIN head = 1..m /\ Len(head) = m /\ \A i \in 1..m : head[i] = list[i]
  <2>1. Len(head) = m /\ m - 1 + 1 = m /\ \A i \in 1..m : 1 + i - 1 = i
    BY <1>4
  <2> QED  BY <1>4, <2>1, LenProperties
<1>6. IsInjective(list) => IsInjective(head)
  BY <1>1, <1>3, <1>5 DEF IsInjective
<1>7. ToSet(head) \subseteq ToSet(list)
  BY <1>1, <1>3, <1>5 DEF ToSet
<1>8. First(list, n) = head
  BY <1>2 DEF First, head
<1>9. k <= n => head = list
  <2>1. k <= n => m = k
    BY <1>2
  <2> QED  BY <1>1, <1>4, <1>5, <2>1, SeqEqual
<1> QED  BY <1>1, <1>2, <1>4, <1>5, <1>6, <1>7, <1>8, <1>9

\* The list c is a of length m, then b of length n.
Parts(c, a, b, m, n) ==
    /\ m = Len(a) /\ n = Len(b) /\ Len(c) = m + n
    /\ DOMAIN a = 1..m /\ DOMAIN b = 1..n /\ DOMAIN c = 1..m + n
    /\ \A i \in 1..m : i \in 1..m + n /\ c[i] = a[i]
    /\ \A i \in 1..n : m + i \in 1..m + n /\ c[m + i] = b[i]
    /\ \A i \in 1..m + n : i \in 1..m \/ \E j \in 1..n : i = m + j

LEMMA JoinedItems ==
    ASSUME NEW V, NEW a \in Seq(V), NEW b \in Seq(V)
    PROVE  a \o b \in Seq(V) /\ \E m, n \in Nat : Parts(a \o b, a, b, m, n)
<1>1. PICK m \in Nat : m = Len(a) /\ DOMAIN a = 1..m
  BY LenProperties
<1>2. PICK n \in Nat : n = Len(b) /\ DOMAIN b = 1..n
  BY LenProperties
<1> DEFINE c == a \o b
<1>3. c \in Seq(V) /\ Len(c) = m + n /\ DOMAIN c = 1..m + n
  BY <1>1, <1>2, ConcatProperties, LenProperties
<1>4. \A i \in 1..m + n : c[i] = IF i <= m THEN a[i] ELSE b[i - m]
  BY <1>1, <1>2, ConcatProperties
<1> HIDE DEF c
<1>5. \A i \in 1..m : i \in 1..m + n /\ c[i] = a[i]
  BY <1>4
<1>6. ASSUME NEW i \in 1..n  PROVE m + i \in 1..m + n /\ c[m + i] = b[i]
  BY <1>4
<1>7. ASSUME NEW i \in 1..m + n, i \notin 1..m  PROVE \E j \in 1..n : i = m + j
  <2>1. i - m \in 1..n /\ i = m + (i - m)
    BY <1>7
  <2> QED  BY <2>1
<1>8. Parts(c, a, b, m, n)
  <2>1. \A i \in 1..m + n : i \in 1..m \/ \E j \in 1..n : i = m + j
    BY <1>7
  <2> QED  BY <1>1, <1>2, <1>3, <1>5, <1>6, <2>1 DEF Parts
<1> QED  BY <1>3, <1>8 DEF c

\* What two lists have in common is all that may be twice in both, one after the other.
LEMMA JoinedOnce ==
    ASSUME NEW V, NEW a \in Seq(V), NEW b \in Seq(V), NEW set,
           IsInjective(a), IsInjective(b), ToSet(a) \cap ToSet(b) \cap set = {}
    PROVE  \A i, j \in 1..Len(a \o b) :
              (a \o b)[i] = (a \o b)[j] /\ (a \o b)[i] \in set => i = j
<1> DEFINE c == a \o b
<1>0. PICK m, n \in Nat : Parts(c, a, b, m, n)
  BY JoinedItems
<1> HIDE DEF c
<1>1. /\ Len(c) = m + n /\ DOMAIN a = 1..m /\ DOMAIN b = 1..n
      /\ \A i \in 1..m : i \in 1..m + n /\ c[i] = a[i]
      /\ \A i \in 1..n : m + i \in 1..m + n /\ c[m + i] = b[i]
      /\ \A i \in 1..m + n : i \in 1..m \/ \E j \in 1..n : i = m + j
  BY <1>0 DEF Parts
<1>2. ASSUME NEW i \in 1..m + n, NEW j \in 1..m + n, c[i] = c[j], c[i] \in set  PROVE i = j
  <2>1. \A k \in 1..m : c[k] \in ToSet(a)
    BY <1>1 DEF ToSet
  <2>2. \A k \in 1..n : c[m + k] \in ToSet(b)
    BY <1>1 DEF ToSet
  <2>3. CASE i \in 1..m /\ j \in 1..m
    BY <1>1, <1>2, <2>3 DEF IsInjective
  <2>4. ASSUME i \notin 1..m, j \notin 1..m  PROVE i = j
    <3>1. PICK k \in 1..n, l \in 1..n : i = m + k /\ j = m + l
      BY <1>1, <2>4
    <3>2. b[k] = b[l]
      BY <1>1, <1>2, <3>1
    <3> QED  BY <1>1, <3>1, <3>2 DEF IsInjective
  <2>5. ~(i \in 1..m /\ j \notin 1..m)
    BY <1>1, <1>2, <2>1, <2>2
  <2>6. ~(i \notin 1..m /\ j \in 1..m)
    BY <1>1, <1>2, <2>1, <2>2
  <2> QED  BY <2>3, <2>4, <2>5, <2>6
<1> QED  BY <1>1, <1>2 DEF c

LEMMA Joined ==
    ASSUME NEW V, NEW a \in Seq(V), NEW b \in Seq(V)
    PROVE  /\ a \o b \in Seq(V) /\ Len(a \o b) = Len(a) + Len(b)
           /\ ToSet(a \o b) = ToSet(a) \cup ToSet(b)
           /\ IsInjective(a) /\ IsInjective(b) /\ ToSet(a) \cap ToSet(b) = {} => IsInjective(a \o b)
<1> DEFINE c == a \o b
<1>0. c \in Seq(V) /\ \E m, n \in Nat : Parts(c, a, b, m, n)
  BY JoinedItems
<1> HIDE DEF c
<1>1. PICK m, n \in Nat :
      /\ m = Len(a) /\ n = Len(b) /\ c \in Seq(V) /\ Len(c) = m + n
      /\ DOMAIN a = 1..m /\ DOMAIN b = 1..n /\ DOMAIN c = 1..m + n
      /\ \A i \in 1..m : i \in 1..m + n /\ c[i] = a[i]
      /\ \A i \in 1..n : m + i \in 1..m + n /\ c[m + i] = b[i]
      /\ \A i \in 1..m + n : i \in 1..m \/ \E j \in 1..n : i = m + j
  BY <1>0 DEF Parts
<1>2. ToSet(c) = ToSet(a) \cup ToSet(b)
  <2>1. /\ ToSet(a) = {a[i] : i \in 1..m} /\ ToSet(b) = {b[i] : i \in 1..n}
        /\ ToSet(c) = {c[i] : i \in 1..m + n}
    BY <1>1 DEF ToSet
  <2>2. ASSUME NEW x \in ToSet(c)  PROVE x \in ToSet(a) \cup ToSet(b)
    <3>1. PICK i \in 1..m + n : x = c[i]
      BY <2>1, <2>2
    <3>2. CASE i \in 1..m
      BY <1>1, <2>1, <3>1, <3>2
    <3>3. ASSUME NEW j \in 1..n, i = m + j  PROVE x \in ToSet(b)
      <4>1. x = b[j]
        BY <1>1, <3>1, <3>3
      <4> QED  BY <2>1, <4>1
    <3> QED  BY <1>1, <3>1, <3>2, <3>3
  <2>3. ToSet(a) \subseteq ToSet(c)
    BY <1>1, <2>1
  <2>4. ToSet(b) \subseteq ToSet(c)
    BY <1>1, <2>1
  <2> QED  BY <2>2, <2>3, <2>4
<1>3. ASSUME IsInjective(a), IsInjective(b), ToSet(a) \cap ToSet(b) = {}  PROVE IsInjective(c)
  <2>1. ToSet(a) \cap ToSet(b) \cap V = {}
    BY <1>3
  <2>2. \A i, j \in 1..Len(c) : c[i] = c[j] /\ c[i] \in V => i = j
    BY <1>3, <2>1, JoinedOnce DEF c
  <2>3. \A i \in 1..Len(c) : c[i] \in V
    BY <1>1, ElementOfSeq
  <2> QED  BY <1>1, <2>2, <2>3 DEF IsInjective
<1> QED  BY <1>1, <1>2, <1>3 DEF c

LEMMA LengthIs ==
    ASSUME NEW V, NEW list \in Seq(V), IsInjective(list)
    PROVE  IsFiniteSet(ToSet(list)) /\ Cardinality(ToSet(list)) = Len(list)
<1>1. PICK n \in Nat : n = Len(list) /\ DOMAIN list = 1..n /\ list \in [1..n -> V]
  BY LenProperties
<1>2. list \in Surjection(1..n, ToSet(list)) /\ list \in Injection(1..n, ToSet(list))
  BY <1>1 DEF ToSet, Surjection, Injection, IsInjective
<1>3. IsFiniteSet(1..n) /\ Cardinality(1..n) = n
  BY FS_Interval
<1> QED  BY <1>1, <1>2, <1>3, FS_Surjection

\* The places in a total order number what is ordered, without a gap.
LEMMA Numbered ==
    ASSUME NEW S, IsFiniteSet(S), NEW upto \in [S -> SUBSET S],
           \A w \in S : w \in upto[w],
           \A v, w \in S : v \in upto[w] => upto[v] \subseteq upto[w],
           \A v, w \in S : v \in upto[w] /\ w \in upto[v] => v = w,
           \A v, w \in S : v \in upto[w] \/ w \in upto[v],
           NEW rank, rank = [w \in S |-> Cardinality(upto[w])]
    PROVE  LET list == Inverse(rank, S, 1..Cardinality(S))
           IN  list \in Seq(S) /\ IsInjective(list)
<1>1. PICK n \in Nat : n = Cardinality(S)
  BY FS_CardinalityType
<1>2. ASSUME NEW w \in S
      PROVE  IsFiniteSet(upto[w]) /\ rank[w] = Cardinality(upto[w]) /\ rank[w] \in 1..n
  <2>1. IsFiniteSet(upto[w]) /\ Cardinality(upto[w]) <= n
    BY <1>1, FS_Subset
  <2>2. Cardinality(upto[w]) \in Nat /\ Cardinality(upto[w]) # 0
    BY <2>1, FS_CardinalityType, FS_EmptySet
  <2> QED  BY <2>1, <2>2
<1>3. ASSUME NEW v \in S, NEW w \in S, v \in upto[w], rank[v] = rank[w]  PROVE v = w
  <2>1. upto[v] \in SUBSET upto[w] /\ Cardinality(upto[v]) = Cardinality(upto[w])
    BY <1>2, <1>3
  <2>2. upto[v] = upto[w]
    BY <1>2, <2>1, FS_Subset
  <2> QED  BY <1>3, <2>2
<1>4. rank \in [S -> 1..n] /\ \A v, w \in S : rank[v] = rank[w] => v = w
  BY <1>2, <1>3
<1>5. IsFiniteSet(1..n) /\ Cardinality(1..n) = n
  <2>1. 1 \in Int /\ n \in Int
    OBVIOUS
  <2> QED  BY <2>1, FS_Interval
<1>6. rank \in Injection(S, 1..n)
  BY <1>4 DEF Injection, IsInjective
<1>7. rank \in Surjection(S, 1..n)
  BY <1>1, <1>5, <1>6, FS_Injection
<1>8. \A t \in 1..n : \E s \in S : rank[s] = t
  BY <1>7 DEF Surjection
<1>9. DOMAIN rank = S
  BY <1>4
<1> DEFINE list == Inverse(rank, S, 1..n)
<1>10. DOMAIN list = 1..n /\ list = [t \in 1..n |-> list[t]]
  BY DEF Inverse
<1>11. ASSUME NEW t \in 1..n  PROVE list[t] \in S /\ rank[list[t]] = t
  <2>1. list[t] = CHOOSE s \in S : t \in Range(rank) => rank[s] = t
    BY DEF Inverse
  <2>2. t \in Range(rank)
    BY <1>8, <1>9 DEF Range
  <2> HIDE DEF list
  <2> QED  BY <1>8, <2>1, <2>2
<1> HIDE DEF list
<1>12. list \in [1..n -> S]
  BY <1>10, <1>11
<1>13. list \in Seq(S)
  BY <1>12, SeqDef
<1>14. IsInjective(list)
  BY <1>10, <1>11 DEF IsInjective
<1> QED  BY <1>1, <1>13, <1>14 DEF list

LEMMA PlaceIs ==
    ASSUME NEW V, NEW list \in Seq(V), NEW w \in ToSet(list)
    PROVE  Place(w, list) \in 1..Len(list) /\ list[Place(w, list)] = w /\ Place(w, list) \in Nat
<1>1. Len(list) \in Nat /\ DOMAIN list = 1..Len(list)
  BY LenProperties
<1>2. \E i \in 1..Len(list) : list[i] = w
  BY <1>1 DEF ToSet
<1>3. Place(w, list) \in 1..Len(list) /\ list[Place(w, list)] = w
  BY <1>2 DEF Place
<1> QED  BY <1>1, <1>3

LEMMA MostOf ==
    ASSUME NEW m \in Int, NEW n \in Int
    PROVE  Max({m, n}) \in Int
<1> DEFINE most == IF m >= n THEN m ELSE n
<1>1. most \in {m, n} /\ \A y \in {m, n} : most >= y
  OBVIOUS
<1>2. Max({m, n}) \in {m, n}
  BY <1>1 DEF Max
<1> QED  BY <1>2

LEMMA TasteInt ==
    ASSUME ordered \in Seq(Wares), NEW w
    PROVE  Taste(w) \in Int
<1> DEFINE S == {i \in DOMAIN ordered : Brand[ordered[i]] = Brand[w]}
           f == [i \in S |-> 2 * Max({121 - i, 1})]
<1>1. PICK n \in Nat : DOMAIN ordered = 1..n
  BY LenProperties
<1>2. IsFiniteSet(S) /\ S \subseteq Int
  <2>1. IsFiniteSet(1..n)
    BY FS_Interval
  <2>2. S \in SUBSET (1..n)
    BY <1>1
  <2>3. 1..n \subseteq Int
    OBVIOUS
  <2> HIDE DEF S
  <2> QED  BY <2>1, <2>2, <2>3, FS_Subset
<1> HIDE DEF S
<1>3. DOMAIN f = S
  OBVIOUS
<1>4. ASSUME NEW i \in S  PROVE f[i] \in Int
  <2>1. 121 - i \in Int /\ 1 \in Int
    BY <1>2
  <2>2. Max({121 - i, 1}) \in Int
    BY <2>1, MostOf
  <2> QED  BY <2>2
<1> HIDE DEF f
<1>5. SumFunction(f) \in Int
  BY <1>2, <1>3, <1>4, TotalInt
<1> QED  BY <1>5 DEF Taste, f, S

LEMMA ScoreInt ==
    ASSUME ordered \in Seq(Wares), NEW w,
           NEW V, NEW recommended \in Seq(V), NEW deals \in Seq(V)
    PROVE  Score(w, recommended, deals) \in Int
<1>1. w \in ToSet(recommended) => Place(w, recommended) \in Nat
  BY PlaceIs
<1>2. w \in ToSet(deals) => Place(w, deals) \in Nat
  BY PlaceIs
<1>3. Taste(w) \in Int
  BY TasteInt
<1> DEFINE a == IF w \in ToSet(recommended) THEN 2001 - Place(w, recommended) ELSE 0
           b == IF w \in ToSet(deals) THEN 601 - Place(w, deals) ELSE 0
           c == IF w \in ToSet(ordered) THEN 1200 ELSE 0
           d == IF w \in Featured THEN 80 ELSE 0
           e == IF w \in Discounted THEN 50 ELSE 0
<1>4. a \in Int /\ b \in Int /\ c \in Int /\ d \in Int /\ e \in Int
  BY <1>1, <1>2
<1>5. Score(w, recommended, deals) = a + b + c + Taste(w) + d + e
  BY DEF Score
<1> HIDE DEF a, b, c, d, e
<1> QED  BY <1>3, <1>4, <1>5

LEMMA OwnItems ==
    ASSUME NEW V, NEW list \in Seq(V)
    PROVE  list \in Seq(ToSet(list)) /\ ToSet(list) \subseteq V
<1>1. PICK n \in Nat : DOMAIN list = 1..n /\ list \in [1..n -> V]
  BY LenProperties
<1>2. list \in [1..n -> ToSet(list)] /\ ToSet(list) \subseteq V
  BY <1>1 DEF ToSet
<1> QED  BY <1>2, SeqDef

LEMMA WaresFinite == IsFiniteSet(Wares) /\ IsFiniteSet(Shops)
BY SuggestionsAssumption, LengthIs

\* A shelf holds visible products of its store, none twice.
LEMMA ShelfSound ==
    ASSUME sold \subseteq Wares, ordered \in Seq(Wares), NEW shop,
           NEW V, NEW recommended \in Seq(V), NEW deals \in Seq(V)
    PROVE  /\ Shelf(shop, recommended, deals) \in Seq(Wares)
           /\ IsInjective(Shelf(shop, recommended, deals))
<1> DEFINE base == Only(ByRank, {w \in sold : ShopOf[w] = shop})
           wares == ToSet(First(base, Sizes.pool))
           score == [w \in wares |-> Score(w, recommended, deals)]
           before(v, w) == \/ score[v] > score[w]
                           \/ score[v] = score[w] /\ Place(v, ByRank) <= Place(w, ByRank)
           upto == [w \in wares |-> {v \in wares : before(v, w)}]
           rank == [w \in wares |-> Cardinality({v \in wares : before(v, w)})]
           list == Inverse(rank, wares, 1..Cardinality(wares))
<1>1. wares \in SUBSET Wares
  <2>1. base \in Seq(Wares) /\ IsInjective(base)
    <3>1. ByRank \in Seq(Wares) /\ IsInjective(ByRank)
      BY SuggestionsAssumption
    <3> QED  BY <3>1, OnlyInjective
  <2> HIDE DEF base
  <2>2. First(base, Sizes.pool) \in Seq(Wares)
    <3>1. Sizes.pool \in Nat
      BY SuggestionsAssumption
    <3> QED  BY <2>1, <3>1, FirstIs
  <2> QED  BY <2>2, OwnItems
<1> HIDE DEF base
<1>2. \A w \in wares : score[w] \in Int
  <2>1. \A w \in wares : Score(w, recommended, deals) \in Int
    BY ScoreInt
  <2> QED  BY <2>1
<1>3. Shelf(shop, recommended, deals) = First(list, Sizes.shelf)
  BY Zenon DEF Shelf, base
<1>4. rank = [w \in wares |-> Cardinality(upto[w])]
  OBVIOUS
<1> HIDE DEF wares, score
<1>5. IsFiniteSet(wares)
  BY <1>1, WaresFinite, FS_Subset
<1>6. \A w \in wares : Place(w, ByRank) \in Nat /\ ByRank[Place(w, ByRank)] = w
  <2>1. ByRank \in Seq(Wares) /\ ToSet(ByRank) = Wares
    BY SuggestionsAssumption
  <2> QED  BY <1>1, <2>1, PlaceIs
<1>7. upto \in [wares -> SUBSET wares]
  OBVIOUS
<1>8. \A v, w \in wares : v \in upto[w] <=> before(v, w)
  OBVIOUS
<1>9. \A w \in wares : before(w, w)
  BY <1>2, <1>6
<1>10. ASSUME NEW u \in wares, NEW v \in wares, NEW w \in wares, before(u, v), before(v, w)
       PROVE  before(u, w)
  <2>1. /\ score[u] \in Int /\ score[v] \in Int /\ score[w] \in Int
        /\ Place(u, ByRank) \in Nat /\ Place(v, ByRank) \in Nat /\ Place(w, ByRank) \in Nat
    BY <1>2, <1>6
  <2> QED  BY <1>10, <2>1
<1>11. ASSUME NEW v \in wares, NEW w \in wares, before(v, w), before(w, v)  PROVE v = w
  <2>1. /\ score[v] \in Int /\ score[w] \in Int
        /\ Place(v, ByRank) \in Nat /\ Place(w, ByRank) \in Nat
    BY <1>2, <1>6
  <2>2. Place(v, ByRank) = Place(w, ByRank)
    BY <1>11, <2>1
  <2> QED  BY <1>6, <2>2
<1>12. \A v, w \in wares : before(v, w) \/ before(w, v)
  BY <1>2, <1>6
<1> HIDE DEF before, rank
<1>13. \A v, w \in wares : v \in upto[w] => upto[v] \subseteq upto[w]
  <2> SUFFICES ASSUME NEW v \in wares, NEW w \in wares, v \in upto[w], NEW u \in upto[v]
               PROVE  u \in upto[w]
    OBVIOUS
  <2>1. u \in wares
    BY <1>7
  <2> HIDE DEF upto
  <2> QED  BY <1>8, <1>10, <2>1
<1> HIDE DEF upto
<1>14. /\ \A w \in wares : w \in upto[w]
       /\ \A v, w \in wares : v \in upto[w] /\ w \in upto[v] => v = w
       /\ \A v, w \in wares : v \in upto[w] \/ w \in upto[v]
  BY <1>8, <1>9, <1>11, <1>12
<1>15. list \in Seq(wares) /\ IsInjective(list)
  BY <1>4, <1>5, <1>7, <1>13, <1>14, Numbered
<1> HIDE DEF list
<1>16. list \in Seq(Wares)
  BY <1>1, <1>15, SeqMonotonic
<1>17. Sizes.shelf \in Nat
  BY SuggestionsAssumption
<1> QED  BY <1>3, <1>15, <1>16, <1>17, FirstIs
-----------------------------------------------------------------------------
(* What the job stores.                                                    *)

\* A list in which nothing is twice
Unique(list) == list \in Seq(ToSet(list)) /\ IsInjective(list)

\* However the service answers, a list and what completes it have nothing twice.
LEMMA MergeUnique ==
    ASSUME NEW V, NEW W, NEW p \in Seq(V), NEW f \in Seq(W), NEW limit
    PROVE  Unique(MergeUniqueIds(p, f, limit))
<1>1. p \in Seq(V \cup W) /\ f \in Seq(V \cup W)
  BY SeqMonotonic
<1> QED  BY <1>1, MergeOnce, OwnItems DEF Unique

SuggestionsInv ==
    /\ SuggestionsTypeOK
    /\ Unique(refresh.recommended) /\ Unique(refresh.deals)
    /\ Unique(ranking.recommended) /\ Unique(ranking.deals) /\ Unique(ranking.shops)
    /\ \A s \in DOMAIN ranking.shelves : Unique(ranking.shelves[s])

LEMMA UniqueEmpty == Unique(<<>>)
<1>1. <<>> \in Seq(ToSet(<<>>)) /\ DOMAIN <<>> = {}
  BY EmptySeq
<1> QED  BY <1>1 DEF Unique, IsInjective

LEMMA SuggestionsInitInv == SuggestionsInit => SuggestionsInv
<1>1. <<>> \in Orders
  BY SuggestionsAssumption
<1>2. DOMAIN <<>> = {}
  BY EmptySeq
<1> QED
  BY <1>1, <1>2, UniqueEmpty
  DEF SuggestionsInit, SuggestionsInv, SuggestionsTypeOK, NoRefresh, NoRanking

LEMMA OrderedSeq == SuggestionsTypeOK => ordered \in Seq(Wares)
BY SuggestionsAssumption DEF SuggestionsTypeOK

LEMMA RefreshRanksInv ==
    ASSUME SuggestionsInv, NEW answer \in Answers, NEW deals \in Answers,
           RefreshRanks(answer, deals)
    PROVE  SuggestionsInv'
<1>1. answer \in Seq(ToSet(answer)) /\ deals \in Seq(ToSet(deals))
  BY SuggestionsAssumption
<1>2. Sizes.refresh \in Nat /\ ByRank \in Seq(Wares) /\ ordered \in Seq(Wares)
  BY SuggestionsAssumption, OrderedSeq DEF SuggestionsInv
<1>3. FallbackWares \in Seq(Wares)
  <2>1. First(ordered, Sizes.refresh) \in Seq(Wares)
    BY <1>2, FirstIs
  <2>2. Only(ByRank, sold) \in Seq(Wares)
    BY <1>2, OnlyKeeps
  <2>3. First(Only(ByRank, sold), Sizes.refresh) \in Seq(Wares)
    BY <1>2, <2>2, FirstIs
  <2> QED  BY <2>1, <2>3, MergeOnce DEF FallbackWares
<1>4. FallbackDeals \in Seq(Wares)
  <2>1. Only(ByRank, sold \cap Discounted) \in Seq(Wares)
    BY <1>2, OnlyKeeps
  <2> QED  BY <1>2, <2>1, FirstIs DEF FallbackDeals
<1>5. Unique(refresh'.recommended) /\ Unique(refresh'.deals) /\ refresh'.stage = "ranking"
  <2>1. /\ refresh'.recommended = MergeUniqueIds(answer, FallbackWares, Sizes.refresh)
        /\ refresh'.deals = MergeUniqueIds(deals, FallbackDeals, Sizes.refresh)
        /\ refresh'.stage = "ranking"
    BY DEF RefreshRanks
  <2>2. Unique(MergeUniqueIds(answer, FallbackWares, Sizes.refresh))
    BY <1>1, <1>3, MergeUnique
  <2>3. Unique(MergeUniqueIds(deals, FallbackDeals, Sizes.refresh))
    BY <1>1, <1>4, MergeUnique
  <2> QED  BY <2>1, <2>2, <2>3
<1>6. UNCHANGED <<sold, opened, ordered, ranking>>
  BY DEF RefreshRanks
<1> QED  BY <1>5, <1>6 DEF SuggestionsInv, SuggestionsTypeOK, Unique

LEMMA RefreshSavesInv ==
    ASSUME SuggestionsInv, NEW answer \in ShopAnswers, RefreshSaves(answer)
    PROVE  SuggestionsInv'
<1> DEFINE shops == MergeUniqueIds(answer, FallbackShops, Sizes.refresh)
           shelves == Shelves(shops, refresh.recommended, refresh.deals)
<1>1. Unique(shops)
  <2>1. answer \in Seq(ToSet(answer)) /\ Sizes.refresh \in Nat /\ ByRating \in Seq(Shops)
    BY SuggestionsAssumption
  <2>2. FallbackShops \in Seq(Shops)
    BY <2>1, OnlyKeeps, FirstIs DEF FallbackShops
  <2> QED  BY <2>1, <2>2, MergeUnique
<1>2. /\ ranking' = [recommended |-> refresh.recommended, deals |-> refresh.deals,
                     shops |-> shops, shelves |-> shelves]
      /\ refresh' = [NoRefresh EXCEPT !.stage = "done"]
      /\ UNCHANGED <<sold, opened, ordered>>
  BY DEF RefreshSaves
<1> HIDE DEF shops
<1>3. /\ DOMAIN shelves \subseteq Shops
      /\ \A s \in DOMAIN shelves :
            shelves[s] = Shelf(s, refresh.recommended, refresh.deals)
  BY DEF Shelves
<1> HIDE DEF shelves
<1>4. ASSUME NEW s \in DOMAIN shelves  PROVE Unique(shelves[s])
  <2>1. sold \subseteq Wares /\ ordered \in Seq(Wares)
    BY OrderedSeq DEF SuggestionsInv, SuggestionsTypeOK
  <2>2. /\ refresh.recommended \in Seq(ToSet(refresh.recommended) \cup ToSet(refresh.deals))
        /\ refresh.deals \in Seq(ToSet(refresh.recommended) \cup ToSet(refresh.deals))
    BY SeqMonotonic DEF SuggestionsInv, Unique
  <2>3. shelves[s] \in Seq(Wares) /\ IsInjective(shelves[s])
    BY <1>3, <2>1, <2>2, ShelfSound
  <2> QED  BY <2>3, OwnItems DEF Unique
<1>5. refresh'.stage = "done" /\ refresh'.recommended = <<>> /\ refresh'.deals = <<>>
  BY <1>2 DEF NoRefresh
<1>6. /\ ranking'.recommended = refresh.recommended /\ ranking'.deals = refresh.deals
      /\ ranking'.shops = shops /\ ranking'.shelves = shelves
  BY <1>2
<1>7. SuggestionsTypeOK'
  BY <1>2, <1>3, <1>5, <1>6 DEF SuggestionsInv, SuggestionsTypeOK
<1>8. /\ Unique(refresh'.recommended) /\ Unique(refresh'.deals)
      /\ Unique(ranking'.recommended) /\ Unique(ranking'.deals) /\ Unique(ranking'.shops)
  BY <1>1, <1>5, <1>6, UniqueEmpty DEF SuggestionsInv
<1>9. \A s \in DOMAIN ranking'.shelves : Unique(ranking'.shelves[s])
  BY <1>4, <1>6
<1> QED  BY <1>7, <1>8, <1>9 DEF SuggestionsInv, Unique

LEMMA SuggestionsStepInv ==
    SuggestionsInv /\ [SuggestionsNext]_suggestionVars => SuggestionsInv'
<1> SUFFICES ASSUME SuggestionsInv, [SuggestionsNext]_suggestionVars  PROVE SuggestionsInv'
  OBVIOUS
<1>1. CASE UNCHANGED suggestionVars
  BY <1>1 DEF suggestionVars, SuggestionsInv, SuggestionsTypeOK, Unique
<1>2. ASSUME NEW w \in Wares, SetSold(w)  PROVE SuggestionsInv'
  BY <1>2 DEF SetSold, SuggestionsInv, SuggestionsTypeOK, Unique
<1>3. ASSUME NEW w \in Wares, Order(w)  PROVE SuggestionsInv'
  BY <1>3 DEF Order, SuggestionsInv, SuggestionsTypeOK, Unique
<1>4. ASSUME NEW s \in Shops, SetOpen(s)  PROVE SuggestionsInv'
  BY <1>4 DEF SetOpen, SuggestionsInv, SuggestionsTypeOK, Unique
<1> QED  BY <1>1, <1>2, <1>3, <1>4, RefreshRanksInv, RefreshSavesInv DEF SuggestionsNext
-----------------------------------------------------------------------------
(* What the pages make of it.                                              *)

\* What completes a list of candidates
LEMMA OthersAre ==
    ASSUME NEW V, NEW candidates \in Seq(V), IsInjective(candidates),
           NEW W, NEW ranked \in Seq(W), IsInjective(ranked),
           ToSet(ranked) \subseteq ToSet(candidates)
    PROVE  LET others == Without(candidates, ToSet(ranked))
           IN  /\ others \in Seq(V) /\ IsInjective(others)
               /\ ToSet(others) = ToSet(candidates) \ ToSet(ranked)
               /\ Len(candidates) \in Nat /\ Len(ranked) \in Nat /\ Len(others) \in Nat
               /\ Len(candidates) = Len(ranked) + Len(others)
<1> DEFINE others == Without(candidates, ToSet(ranked))
<1>1. /\ others \in Seq(V) /\ IsInjective(others)
      /\ ToSet(others) = ToSet(candidates) \ ToSet(ranked)
  BY WithoutKeeps
<1> HIDE DEF others
<1>2. /\ IsFiniteSet(ToSet(candidates)) /\ Cardinality(ToSet(candidates)) = Len(candidates)
      /\ Cardinality(ToSet(ranked)) = Len(ranked) /\ IsFiniteSet(ToSet(ranked))
      /\ Cardinality(ToSet(others)) = Len(others)
  BY <1>1, LengthIs
<1>3. ToSet(candidates) \cap ToSet(ranked) = ToSet(ranked)
  OBVIOUS
<1>4. Len(others) = Len(candidates) - Len(ranked)
  <2>1. Cardinality(ToSet(candidates) \ ToSet(ranked))
           = Cardinality(ToSet(candidates)) - Cardinality(ToSet(candidates) \cap ToSet(ranked))
    BY <1>2, FS_Difference
  <2> QED  BY <1>1, <1>2, <1>3, <2>1
<1>5. Len(candidates) \in Nat /\ Len(ranked) \in Nat /\ Len(others) \in Nat
  BY <1>1, LenProperties
<1>6. Len(candidates) = Len(ranked) + Len(others)
  BY <1>4, <1>5
<1> QED  BY <1>1, <1>5, <1>6 DEF others

LEMMA FillsFirst ==
    ASSUME NEW V, NEW list \in Seq(V), IsInjective(list),
           NEW set, ToSet(list) \subseteq set, IsFiniteSet(set), NEW limit \in Nat,
           Len(list) = IF limit <= Cardinality(set) THEN limit ELSE Cardinality(set)
    PROVE  Fills(list, set, limit)
<1>1. Cardinality(set) \in Nat
  BY FS_CardinalityType
<1>2. Len(list) = Min({limit, Cardinality(set)})
  BY <1>1, LeastOf
<1> QED  BY <1>2 DEF Fills

LEMMA RankedWaresFill ==
    ASSUME NEW V, NEW ids \in Seq(V), IsInjective(ids),
           NEW W, NEW candidates \in Seq(W), IsInjective(candidates), NEW limit \in Nat
    PROVE  Fills(RankedWares(ids, candidates, limit), ToSet(candidates), limit)
<1>0. /\ IsFiniteSet(ToSet(candidates)) /\ Cardinality(ToSet(candidates)) = Len(candidates)
      /\ Len(candidates) \in Nat
  BY LengthIs, LenProperties
<1>1. CASE ids = <<>>
  <2>1. RankedWares(ids, candidates, limit) = First(candidates, limit)
    BY <1>1 DEF RankedWares
  <2>2. /\ First(candidates, limit) \in Seq(W) /\ IsInjective(First(candidates, limit))
        /\ ToSet(First(candidates, limit)) \subseteq ToSet(candidates)
        /\ Len(First(candidates, limit)) = IF limit <= Len(candidates) THEN limit
                                                                   ELSE Len(candidates)
    BY FirstIs
  <2> QED  BY <1>0, <2>1, <2>2, FillsFirst
<1>2. CASE ids # <<>>
  <2> DEFINE kept == Only(ids, ToSet(candidates))
             ranked == First(kept, limit)
             others == Without(candidates, ToSet(ranked))
             rest == First(others, limit - Len(ranked))
  <2>1. RankedWares(ids, candidates, limit) = ranked \o rest
    BY <1>2 DEF RankedWares
  <2>2. kept \in Seq(V) /\ ToSet(kept) \subseteq ToSet(candidates) /\ IsInjective(kept)
    BY OnlyInjective
  <2> HIDE DEF kept
  <2>3. /\ ranked \in Seq(V) /\ ToSet(ranked) \subseteq ToSet(candidates) /\ IsInjective(ranked)
        /\ Len(ranked) \in Nat /\ Len(ranked) <= limit
    <3>1. Len(kept) \in Nat
      BY <2>2, LenProperties
    <3> QED  BY <2>2, <3>1, FirstIs
  <2> HIDE DEF ranked
  <2>4. /\ others \in Seq(W) /\ IsInjective(others)
        /\ ToSet(others) = ToSet(candidates) \ ToSet(ranked)
        /\ Len(others) \in Nat /\ Len(candidates) = Len(ranked) + Len(others)
    BY <2>3, OthersAre
  <2> HIDE DEF others
  <2>5. PICK room \in Nat : room = limit - Len(ranked)
    BY <2>3
  <2>6. /\ rest \in Seq(W) /\ IsInjective(rest) /\ ToSet(rest) \subseteq ToSet(others)
        /\ Len(rest) = IF room <= Len(others) THEN room ELSE Len(others)
    BY <2>4, <2>5, FirstIs
  <2> HIDE DEF rest
  <2> DEFINE X == V \cup W
  <2>7. ranked \in Seq(X) /\ rest \in Seq(X)
    BY <2>3, <2>6, SeqMonotonic
  <2> HIDE DEF X
  <2>8. ToSet(ranked) \cap ToSet(rest) = {}
    BY <2>4, <2>6
  <2>9. /\ ranked \o rest \in Seq(X) /\ Len(ranked \o rest) = Len(ranked) + Len(rest)
        /\ ToSet(ranked \o rest) \subseteq ToSet(candidates) /\ IsInjective(ranked \o rest)
    <3>1. /\ ranked \o rest \in Seq(X) /\ Len(ranked \o rest) = Len(ranked) + Len(rest)
          /\ ToSet(ranked \o rest) = ToSet(ranked) \cup ToSet(rest)
          /\ IsInjective(ranked) /\ IsInjective(rest) /\ ToSet(ranked) \cap ToSet(rest) = {}
                => IsInjective(ranked \o rest)
      BY <2>7, Joined
    <3> QED  BY <2>3, <2>4, <2>6, <2>8, <3>1
  <2>10. Len(ranked) + Len(rest) = IF limit <= Len(candidates) THEN limit ELSE Len(candidates)
    BY <1>0, <2>3, <2>4, <2>5, <2>6
  <2> QED  BY <1>0, <2>1, <2>9, <2>10, FillsFirst
<1> QED  BY <1>1, <1>2

LEMMA RankedShopsFill ==
    ASSUME SuggestionsInv, NEW cards \in Seq(Shops), IsInjective(cards)
    PROVE  /\ Fills(RankedShops(cards), ToSet(cards), Cardinality(Shops))
           /\ Fills(First(RankedShops(cards), Sizes.home), ToSet(cards), Sizes.home)
<1> DEFINE V == ToSet(ranking.shops)
           ranked == Only(ranking.shops, ToSet(cards))
           others == Without(cards, ToSet(ranked))
           page == RankedShops(cards)
<1>1. ranking.shops \in Seq(V) /\ IsInjective(ranking.shops)
  BY DEF SuggestionsInv, Unique
<1> HIDE DEF V
<1>2. ranked \in Seq(V) /\ IsInjective(ranked) /\ ToSet(ranked) \subseteq ToSet(cards)
  BY <1>1, OnlyInjective
<1>3. page = IF ranking.shops = <<>> THEN cards ELSE ranked \o others
  BY DEF RankedShops
<1> HIDE DEF ranked, page
<1>4. /\ others \in Seq(Shops) /\ IsInjective(others)
      /\ ToSet(others) = ToSet(cards) \ ToSet(ranked)
      /\ Len(cards) = Len(ranked) + Len(others)
  BY <1>2, OthersAre
<1> HIDE DEF others
<1> DEFINE X == V \cup Shops
<1>5. /\ ranked \o others \in Seq(X) /\ IsInjective(ranked \o others)
      /\ ToSet(ranked \o others) = ToSet(cards) /\ Len(ranked \o others) = Len(cards)
  <2>1. ranked \in Seq(X) /\ others \in Seq(X)
    BY <1>2, <1>4, SeqMonotonic
  <2> HIDE DEF X
  <2>2. ToSet(ranked) \cap ToSet(others) = {} /\ ToSet(ranked) \cup ToSet(others) = ToSet(cards)
    BY <1>2, <1>4
  <2>3. /\ ranked \o others \in Seq(X) /\ Len(ranked \o others) = Len(ranked) + Len(others)
        /\ ToSet(ranked \o others) = ToSet(ranked) \cup ToSet(others)
        /\ IsInjective(ranked) /\ IsInjective(others) /\ ToSet(ranked) \cap ToSet(others) = {}
              => IsInjective(ranked \o others)
    BY <2>1, Joined
  <2> QED  BY <1>2, <1>4, <2>2, <2>3
<1>6. cards \in Seq(X)
  BY SeqMonotonic
<1> HIDE DEF X
<1>7. page \in Seq(X) /\ IsInjective(page) /\ ToSet(page) = ToSet(cards)
      /\ Len(page) = Len(cards)
  BY <1>3, <1>5, <1>6
<1>8. /\ IsFiniteSet(ToSet(cards)) /\ Cardinality(ToSet(cards)) = Len(cards)
      /\ Len(cards) \in Nat
  BY LengthIs, LenProperties
<1>9. Cardinality(Shops) \in Nat /\ Len(cards) <= Cardinality(Shops)
  <2>1. ToSet(cards) \in SUBSET Shops
    BY OwnItems
  <2> QED  BY <1>8, <2>1, WaresFinite, FS_Subset, FS_CardinalityType
<1>10. Len(page) = IF Cardinality(Shops) <= Cardinality(ToSet(cards))
                   THEN Cardinality(Shops) ELSE Cardinality(ToSet(cards))
  BY <1>7, <1>8, <1>9
<1>11. Fills(page, ToSet(cards), Cardinality(Shops))
  BY <1>7, <1>8, <1>9, <1>10, FillsFirst
<1>12. Fills(First(page, Sizes.home), ToSet(cards), Sizes.home)
  <2> DEFINE front == First(page, Sizes.home)
  <2>1. Sizes.home \in Nat
    BY SuggestionsAssumption
  <2>2. /\ front \in Seq(X) /\ IsInjective(front) /\ ToSet(front) \subseteq ToSet(page)
        /\ Len(front) = IF Sizes.home <= Len(page) THEN Sizes.home ELSE Len(page)
    BY <1>7, <2>1, FirstIs
  <2> HIDE DEF front
  <2>3. Len(front) = IF Sizes.home <= Cardinality(ToSet(cards))
                     THEN Sizes.home ELSE Cardinality(ToSet(cards))
    BY <1>7, <1>8, <2>2
  <2>4. Fills(front, ToSet(cards), Sizes.home)
    BY <1>7, <1>8, <2>1, <2>2, <2>3, FillsFirst
  <2> QED  BY <2>4 DEF front
<1> QED  BY <1>11, <1>12 DEF page

\* One part of a page, after what is there already
LEMMA NextPart ==
    ASSUME NEW base \in Seq(Wares), IsInjective(base), NEW set, NEW n \in Nat,
           NEW there \in Seq(Wares), ToSet(there) \subseteq ToSet(base)
    PROVE  LET page == there \o First(Without(Only(base, set), ToSet(there)), n)
           IN  /\ page \in Seq(Wares) /\ ToSet(page) \subseteq ToSet(base)
               /\ IsInjective(there) => IsInjective(page)
<1> DEFINE kept == Only(base, set)
           others == Without(kept, ToSet(there))
           part == First(others, n)
<1>1. kept \in Seq(Wares) /\ IsInjective(kept) /\ ToSet(kept) \subseteq ToSet(base)
  BY OnlyInjective
<1> HIDE DEF kept
<1>2. others \in Seq(Wares) /\ IsInjective(others) /\ ToSet(others) = ToSet(kept) \ ToSet(there)
  BY <1>1, WithoutKeeps
<1> HIDE DEF others
<1>3. part \in Seq(Wares) /\ IsInjective(part) /\ ToSet(part) \subseteq ToSet(others)
  BY <1>2, FirstIs
<1> HIDE DEF part
<1>4. /\ there \o part \in Seq(Wares) /\ ToSet(there \o part) = ToSet(there) \cup ToSet(part)
      /\ IsInjective(there) /\ IsInjective(part) /\ ToSet(there) \cap ToSet(part) = {}
            => IsInjective(there \o part)
  BY <1>3, Joined
<1>5. ToSet(there) \cap ToSet(part) = {} /\ ToSet(there \o part) \subseteq ToSet(base)
  BY <1>1, <1>2, <1>3, <1>4
<1> QED  BY <1>3, <1>4, <1>5 DEF part, others, kept

\* The last part fills what the others leave.
LEMMA LastPart ==
    ASSUME NEW base \in Seq(Wares), IsInjective(base), NEW n \in Nat, NEW limit \in Nat, n <= limit,
           NEW there \in Seq(Wares), ToSet(there) \subseteq ToSet(base)
    PROVE  LET page == First(there \o First(Without(base, ToSet(there)), n), limit)
           IN  /\ ToSet(page) \subseteq ToSet(base)
               /\ IsInjective(there) =>
                     IsInjective(page) /\ Len(page) >= Min({n, Cardinality(ToSet(base))})
<1> DEFINE others == Without(base, ToSet(there))
           part == First(others, n)
           all == there \o part
           page == First(all, limit)
<1>1. others \in Seq(Wares) /\ IsInjective(others) /\ ToSet(others) = ToSet(base) \ ToSet(there)
  BY WithoutKeeps
<1>2. IsInjective(there) => Len(base) = Len(there) + Len(others)
  BY OthersAre
<1> HIDE DEF others
<1>3. /\ part \in Seq(Wares) /\ IsInjective(part) /\ ToSet(part) \subseteq ToSet(others)
      /\ Len(part) = IF n <= Len(others) THEN n ELSE Len(others)
  BY <1>1, FirstIs
<1> HIDE DEF part
<1>4. /\ all \in Seq(Wares) /\ ToSet(all) = ToSet(there) \cup ToSet(part)
      /\ Len(all) = Len(there) + Len(part)
      /\ IsInjective(there) /\ IsInjective(part) /\ ToSet(there) \cap ToSet(part) = {}
            => IsInjective(all)
  BY <1>3, Joined
<1> HIDE DEF all
<1>5. /\ IsInjective(all) => IsInjective(page)
      /\ ToSet(page) \subseteq ToSet(all)
      /\ Len(page) = IF limit <= Len(all) THEN limit ELSE Len(all)
  BY <1>4, FirstIs
<1> HIDE DEF page
<1>6. ToSet(page) \subseteq ToSet(base)
  BY <1>1, <1>3, <1>4, <1>5
<1>7. ASSUME IsInjective(there)
      PROVE  IsInjective(page) /\ Len(page) >= Min({n, Cardinality(ToSet(base))})
  <2>1. IsInjective(page)
    <3>1. ToSet(there) \cap ToSet(part) = {}
      BY <1>1, <1>3
    <3> QED  BY <1>3, <1>4, <1>5, <1>7, <3>1
  <2>2. /\ Len(there) \in Nat /\ Len(others) \in Nat /\ Len(base) \in Nat
        /\ Cardinality(ToSet(base)) = Len(base)
    BY <1>1, LenProperties, LengthIs
  <2>3. Min({n, Len(base)}) = IF n <= Len(base) THEN n ELSE Len(base)
    BY <2>2, LeastOf
  <2>4. Len(page) >= IF n <= Len(base) THEN n ELSE Len(base)
    BY <1>2, <1>3, <1>4, <1>5, <1>7, <2>2
  <2>5. Min({n, Cardinality(ToSet(base))}) = IF n <= Len(base) THEN n ELSE Len(base)
    BY <2>2, <2>3
  <2> QED  BY <2>1, <2>4, <2>5
<1> QED  BY <1>6, <1>7 DEF page, all, part, others

\* What is ranked for a store is there once, or the store has no shelf and a product is in
\* both lists of all products.
LEMMA PersonalOnce ==
    ASSUME SuggestionsInv, NEW shop \in Shops
    PROVE  LET personal == Only(PersonalIds(shop), InShop(shop))
           IN  /\ personal \in Seq(Wares) /\ ToSet(personal) \subseteq InShop(shop)
               /\ \/ IsInjective(personal)
                  \/ /\ shop \notin DOMAIN ranking.shelves
                     /\ ToSet(ranking.recommended) \cap ToSet(ranking.deals) \cap InShop(shop) # {}
<1> DEFINE personal == Only(PersonalIds(shop), InShop(shop))
           both == ToSet(ranking.recommended) \cap ToSet(ranking.deals) \cap InShop(shop)
           Fine == \/ IsInjective(personal)
                   \/ shop \notin DOMAIN ranking.shelves /\ both # {}
<1>1. ASSUME NEW V, PersonalIds(shop) \in Seq(V)
      PROVE  personal \in Seq(Wares) /\ ToSet(personal) \subseteq InShop(shop)
  <2>1. personal \in Seq(V) /\ ToSet(personal) \subseteq InShop(shop)
    BY <1>1, OnlyKeeps
  <2>2. InShop(shop) \subseteq Wares
    BY DEF SuggestionsInv, SuggestionsTypeOK, InShop
  <2> HIDE DEF personal
  <2>3. personal \in Seq(ToSet(personal)) /\ ToSet(personal) \subseteq Wares
    BY <2>1, <2>2, OwnItems
  <2> QED  BY <2>1, <2>3, SeqMonotonic
<1>2. CASE shop \in DOMAIN ranking.shelves
  <2>1. Unique(PersonalIds(shop))
    BY <1>2 DEF SuggestionsInv, PersonalIds
  <2>2. IsInjective(personal)
    BY <2>1, OnlyInjective DEF Unique
  <2> HIDE DEF personal
  <2> QED  BY <1>1, <2>1, <2>2 DEF Unique, personal
<1>3. CASE shop \notin DOMAIN ranking.shelves
  <2> DEFINE r == ranking.recommended
             d == ranking.deals
             V == ToSet(r) \cup ToSet(d)
  <2>1. PersonalIds(shop) = r \o d
    BY <1>3 DEF PersonalIds
  <2>2. r \in Seq(V) /\ d \in Seq(V) /\ IsInjective(r) /\ IsInjective(d)
    BY SeqMonotonic DEF SuggestionsInv, Unique
  <2> HIDE DEF V
  <2>3. r \o d \in Seq(V)
    BY <2>2, ConcatProperties
  <2>4. ASSUME both = {}  PROVE IsInjective(personal)
    <3>1. \A i, j \in 1..Len(r \o d) :
             (r \o d)[i] = (r \o d)[j] /\ (r \o d)[i] \in InShop(shop) => i = j
      <4>1. ToSet(r) \cap ToSet(d) \cap InShop(shop) = {}
        BY <2>4
      <4> HIDE DEF r, d, both
      <4> QED  BY <2>2, <4>1, JoinedOnce
    <3> QED  BY <2>1, <2>3, <3>1, OnlyKeeps
  <2>5. personal \in Seq(Wares) /\ ToSet(personal) \subseteq InShop(shop)
    BY <1>1, <2>1, <2>3
  <2> HIDE DEF personal, both
  <2>6. Fine
    BY <1>3, <2>4
  <2> QED  BY <2>5, <2>6 DEF both, personal
<1> QED  BY <1>2, <1>3

LEMMA SelectedSound ==
    ASSUME SuggestionsInv, NEW shop \in Shops
    PROVE  /\ ToSet(Selected(shop)) \subseteq InShop(shop)
           /\ \/ /\ IsInjective(Selected(shop))
                 /\ Len(Selected(shop)) >= Min({Sizes.popular, Cardinality(InShop(shop))})
              \/ /\ shop \notin DOMAIN ranking.shelves
                 /\ ToSet(ranking.recommended) \cap ToSet(ranking.deals) \cap InShop(shop) # {}
<1> DEFINE base == Only(ByRank, InShop(shop))
           personal == Only(PersonalIds(shop), InShop(shop))
           before == First(Without(Only(base, ToSet(ordered)), ToSet(personal)), Sizes.ordered)
           promoted == First(Without(Only(base, Featured), ToSet(personal \o before)),
                             Sizes.featured)
           popular == First(Without(base, ToSet(personal \o before \o promoted)), Sizes.popular)
<1>1. /\ Sizes.ordered \in Nat /\ Sizes.featured \in Nat /\ Sizes.popular \in Nat
      /\ Sizes.selected \in Nat /\ Sizes.popular <= Sizes.selected
  BY SuggestionsAssumption
<1>2. base \in Seq(Wares) /\ IsInjective(base) /\ ToSet(base) = InShop(shop)
  <2>1. ByRank \in Seq(Wares) /\ IsInjective(ByRank) /\ ToSet(ByRank) = Wares
    BY SuggestionsAssumption
  <2>2. InShop(shop) \subseteq Wares
    BY DEF SuggestionsInv, SuggestionsTypeOK, InShop
  <2>3. base \in Seq(Wares) /\ IsInjective(base) /\ ToSet(base) = ToSet(ByRank) \cap InShop(shop)
    BY <2>1, OnlyInjective
  <2> HIDE DEF base
  <2> QED  BY <2>1, <2>2, <2>3
<1>3. /\ personal \in Seq(Wares) /\ ToSet(personal) \subseteq InShop(shop)
      /\ \/ IsInjective(personal)
         \/ /\ shop \notin DOMAIN ranking.shelves
            /\ ToSet(ranking.recommended) \cap ToSet(ranking.deals) \cap InShop(shop) # {}
  BY PersonalOnce
<1>4. Selected(shop) = First(personal \o before \o promoted \o popular, Sizes.selected)
  BY DEF Selected
<1> HIDE DEF base, personal
<1>5. /\ personal \o before \in Seq(Wares) /\ ToSet(personal \o before) \subseteq ToSet(base)
      /\ IsInjective(personal) => IsInjective(personal \o before)
  <2>1. ToSet(personal) \subseteq ToSet(base)
    BY <1>2, <1>3
  <2> QED  BY <1>1, <1>2, <1>3, <2>1, NextPart
<1> HIDE DEF before
<1>6. /\ personal \o before \o promoted \in Seq(Wares)
      /\ ToSet(personal \o before \o promoted) \subseteq ToSet(base)
      /\ IsInjective(personal \o before) => IsInjective(personal \o before \o promoted)
  BY <1>1, <1>2, <1>5, NextPart
<1> HIDE DEF promoted
<1>7. /\ ToSet(Selected(shop)) \subseteq ToSet(base)
      /\ IsInjective(personal \o before \o promoted) =>
            /\ IsInjective(Selected(shop))
            /\ Len(Selected(shop)) >= Min({Sizes.popular, Cardinality(ToSet(base))})
  BY <1>1, <1>2, <1>4, <1>6, LastPart
<1> HIDE DEF popular
<1> QED  BY <1>2, <1>3, <1>5, <1>6, <1>7

LEMMA SuggestionsInvSound == SuggestionsInv => SuggestionsSound
<1> SUFFICES ASSUME SuggestionsInv  PROVE SuggestionsSound
  OBVIOUS
<1>1. /\ ByRank \in Seq(Wares) /\ IsInjective(ByRank)
      /\ Sizes.recommended \in Nat /\ Sizes.deals \in Nat
  BY SuggestionsAssumption
<1>2. Candidates \in Seq(Wares) /\ IsInjective(Candidates)
  BY <1>1, OnlyInjective DEF Candidates
<1>3. Fills(HomeWares, ToSet(Candidates), Sizes.recommended)
  BY <1>1, <1>2, RankedWaresFill DEF HomeWares, SuggestionsInv, Unique
<1>4. /\ Only(Candidates, Marked) \in Seq(Wares) /\ IsInjective(Only(Candidates, Marked))
      /\ ToSet(Only(Candidates, Marked)) = ToSet(Candidates) \cap Marked
  BY <1>2, OnlyInjective
<1>5. Fills(HomeDeals, ToSet(Candidates) \cap Marked, Sizes.deals)
  <2>1. Fills(HomeDeals, ToSet(Only(Candidates, Marked)), Sizes.deals)
    BY <1>1, <1>4, RankedWaresFill DEF HomeDeals, SuggestionsInv, Unique
  <2> QED  BY <1>4, <2>1
<1>6. ASSUME NEW list \in Seq(Shops), IsInjective(list), ToSet(list) = Shops
      PROVE  /\ Fills(RankedShops(Only(list, opened)), opened, Cardinality(Shops))
             /\ Fills(First(RankedShops(Only(list, opened)), Sizes.home), opened, Sizes.home)
  <2> DEFINE cards == Only(list, opened)
  <2>1. opened \subseteq Shops
    BY DEF SuggestionsInv, SuggestionsTypeOK
  <2>2. cards \in Seq(Shops) /\ IsInjective(cards) /\ ToSet(cards) = Shops \cap opened
    BY <1>6, OnlyInjective
  <2> HIDE DEF cards
  <2>3. ToSet(cards) = opened
    BY <2>1, <2>2
  <2>4. /\ Fills(RankedShops(cards), ToSet(cards), Cardinality(Shops))
        /\ Fills(First(RankedShops(cards), Sizes.home), ToSet(cards), Sizes.home)
    BY <2>2, RankedShopsFill
  <2> QED  BY <2>3, <2>4 DEF cards
<1>7. /\ Fills(HomeShops, opened, Sizes.home)
      /\ Fills(RankedCards, opened, Cardinality(Shops))
  <2>1. /\ ByRating \in Seq(Shops) /\ IsInjective(ByRating) /\ ToSet(ByRating) = Shops
        /\ ByDistance \in Seq(Shops) /\ IsInjective(ByDistance) /\ ToSet(ByDistance) = Shops
    BY SuggestionsAssumption
  <2> QED  BY <1>6, <2>1 DEF HomeShops, RankedCards
<1> QED  BY <1>3, <1>5, <1>7, SelectedSound DEF SuggestionsSound

\* Every page shows what may be shown, nothing twice and without a gap, and when more may
\* be shown than there is room for a ranking decides which, however old it is and whatever
\* the service answered, for any products, stores, orders and lengths of lists; but for
\* the picks of a store without a shelf that has a product both recommended and a deal
\* (GetCustomerFlowHomeAction, VendorRecommendationsView, _rank_vendor_cards_with_snapshot).
THEOREM SuggestionsStand == SuggestionsSpec => []SuggestionsSound
<1>1. SuggestionsInit => SuggestionsInv
  BY SuggestionsInitInv
<1>2. SuggestionsInv /\ [SuggestionsNext]_suggestionVars => SuggestionsInv'
  BY SuggestionsStepInv
<1>3. SuggestionsInv => SuggestionsSound
  BY SuggestionsInvSound
<1> QED  BY <1>1, <1>2, <1>3, PTL DEF SuggestionsSpec
=============================================================================
