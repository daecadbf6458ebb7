--------------------------- MODULE ManagerApprovals -------------------------
(***************************************************************************)
(* Approvals a bill may need: one-time grants kept in Redis (a manager's   *)
(* OTP for a price, a PIN for a credit sale or a discount, a code for      *)
(* opening a till or creating a customer) and free-sale approvals kept in  *)
(* the database (CH Free Sale Approval).                                   *)
(*                                                                         *)
(* A deed is a request that needs one of them: it takes the approval,      *)
(* works on, and commits or rolls back.  Redis does not roll back with it. *)
(*                                                                         *)
(* A definition directly before another one that it resembles is a mutant. *)
(***************************************************************************)
EXTENDS Integers, FiniteSets

CONSTANTS
    Grants,     \* tokens of one-time grants
    FreeSales,  \* CH Free Sale Approval documents
    Deeds,      \* requests that need an approval
    Carts,      \* what is approved: amounts, rows, anchors
    Managers,   \* category managers of the carts' items
    NoCart

ASSUME ApprovalsAssumption ==
    Managers # {} /\ NoCart \notin Carts /\ Grants \cap FreeSales = {}

VARIABLES
    grant,     \* token -> where it is, its kind and what it is for
    freeSale,  \* document -> status, manager rows, used, expired, cart
    deed       \* request -> kind, cart, progress, what it holds

approvalVars == <<grant, freeSale, deed>>

GrantKinds == {"row", "concession", "code"}
NoGrant == [at |-> "none", kind |-> "row", cart |-> NoCart]
NoDeed == [at |-> "idle", kind |-> "row", cart |-> NoCart, held |-> {}]

ApprovalsInit ==
    /\ grant = [g \in Grants |-> NoGrant]
    /\ freeSale = [f \in FreeSales |-> [status |-> "none", row |-> [m \in Managers |-> "Pending"],
                                        used |-> FALSE, old |-> FALSE, cart |-> NoCart]]
    /\ deed = [d \in Deeds |-> NoDeed]

-----------------------------------------------------------------------------
(* Grants                                                                  *)

\* request_approval: an OTP goes to the manager, the request is cached.
RequestApproval(g, cart) ==
    /\ grant[g] = NoGrant
    /\ grant' = [grant EXCEPT ![g] = [at |-> "asked", kind |-> "row", cart |-> cart]]
    /\ UNCHANGED <<freeSale, deed>>

\* verify_approval with the right OTP: the request becomes a grant.
VerifyApproval(g) ==
    /\ grant[g].at = "asked"
    /\ grant' = [grant EXCEPT ![g].at = "cached"]
    /\ UNCHANGED <<freeSale, deed>>

\* issue_action_grant once the caller proved an authority: a PIN for a credit
\* sale or a discount, a code sent for opening a till, a customer or a date
IssueActionGrant(g, kind, cart) ==
    /\ grant[g] = NoGrant
    /\ kind \in {"concession", "code"}
    /\ grant' = [grant EXCEPT ![g] = [at |-> "cached", kind |-> kind, cart |-> cart]]
    /\ UNCHANGED <<freeSale, deed>>
ApproveCreditOverride(g, cart) == IssueActionGrant(g, "concession", cart)
VerifyDiscountAuth(g, cart) == IssueActionGrant(g, "concession", cart)
VerifySessionOpenOtp(g, cart) == IssueActionGrant(g, "code", cart)

\* A token that is gone: its payload with it.
Lost == [NoGrant EXCEPT !.at = "lost"]

\* The time to live of a request or of a grant is over.
GrantExpires(g) ==
    /\ grant[g].at \in {"asked", "cached"}
    /\ grant' = [grant EXCEPT ![g] = Lost]
    /\ UNCHANGED <<freeSale, deed>>

-----------------------------------------------------------------------------
(* Free-sale approvals                                                     *)

\* request_free_sale_approval
RequestFreeSale(f, cart) ==
    /\ freeSale[f].status = "none"
    /\ freeSale' = [freeSale EXCEPT ![f].status = "Pending", ![f].cart = cart]
    /\ UNCHANGED <<grant, deed>>

ParentPartly(row) ==
    IF \E m \in Managers : row[m] = "Rejected" THEN "Rejected"
    ELSE IF \A m \in Managers : row[m] = "Approved" THEN "Approved"
    ELSE "Partly Approved"
ParentStatus(row) ==
    IF \E m \in Managers : row[m] = "Rejected" THEN "Rejected"
    ELSE IF \A m \in Managers : row[m] = "Approved" THEN "Approved"
    ELSE "Pending"

\* respond_to_approval, under the lock of the document's row
RespondToApproval(f, m, answer) ==
    LET row == [freeSale[f].row EXCEPT ![m] = answer]
    IN  /\ freeSale[f].status = "Pending" /\ ~freeSale[f].old
        /\ freeSale[f].row[m] = "Pending"
        /\ freeSale' = [freeSale EXCEPT ![f].row = row, ![f].status = ParentStatus(row)]
        /\ UNCHANGED <<grant, deed>>

\* approval_token_ttl_hours have passed since the request.
FreeSaleAges(f) ==
    /\ freeSale[f].status # "none" /\ ~freeSale[f].old
    /\ freeSale' = [freeSale EXCEPT ![f].old = TRUE]
    /\ UNCHANGED <<grant, deed>>

-----------------------------------------------------------------------------
(* Deeds                                                                   *)

BeginDeed(d, kind, cart) ==
    /\ deed[d] = NoDeed
    /\ deed' = [deed EXCEPT ![d] = [at |-> "working", kind |-> kind, cart |-> cart,
                                    held |-> {}]]
    /\ UNCHANGED <<grant, freeSale>>

Working(d) == deed[d].at = "working" /\ deed[d].held = {}
Matches(g, d) == grant[g].kind = deed[d].kind /\ grant[g].cart = deed[d].cart

\* consume_approval_grant, consume_action_grant: the token is fetched and
\* deleted at once (GETDEL) and only then compared with the deed.
ConsumeByReading(d, g) ==
    /\ Working(d) /\ grant[g].at = "cached" /\ Matches(g, d)
    /\ deed' = [deed EXCEPT ![d].held = {g}]
    /\ UNCHANGED <<grant, freeSale>>
ConsumeUnchecked(d, g) ==
    /\ Working(d) /\ grant[g].at = "cached"
    /\ grant' = [grant EXCEPT ![g].at = "taken"]
    /\ deed' = [deed EXCEPT ![d].held = {g}]
    /\ UNCHANGED freeSale
ConsumeGrant(d, g) ==
    /\ Working(d) /\ deed[d].kind \in GrantKinds /\ grant[g].at = "cached"
    /\ IF Matches(g, d)
       THEN /\ grant' = [grant EXCEPT ![g].at = "taken"]
            /\ deed' = [deed EXCEPT ![d].held = {g}]
       ELSE /\ grant' = [grant EXCEPT ![g] = Lost]
            /\ deed' = [deed EXCEPT ![d] = NoDeed]
    /\ UNCHANGED freeSale

\* The approval of a free bill: used is set by an UPDATE that demands
\* Approved and unused, and keeps the row locked until the bill is through.
ClaimUsed(d, f) ==
    /\ Working(d) /\ deed[d].kind = "free"
    /\ freeSale[f].status = "Approved" /\ ~freeSale[f].old
    /\ freeSale[f].cart = deed[d].cart
    /\ freeSale' = [freeSale EXCEPT ![f].used = TRUE]
    /\ deed' = [deed EXCEPT ![d].held = {f}]
    /\ UNCHANGED grant
ClaimFreeSale(d, f) ==
    /\ Working(d) /\ deed[d].kind = "free"
    /\ freeSale[f].status = "Approved" /\ ~freeSale[f].used /\ ~freeSale[f].old
    /\ freeSale[f].cart = deed[d].cart
    /\ \A m \in Managers : freeSale[f].row[m] = "Approved"
    /\ freeSale' = [freeSale EXCEPT ![f].used = TRUE]
    /\ deed' = [deed EXCEPT ![d].held = {f}]
    /\ UNCHANGED grant

CommitDeed(d) ==
    /\ deed[d].at = "working" /\ deed[d].held # {}
    /\ deed' = [deed EXCEPT ![d].at = "done"]
    /\ UNCHANGED <<grant, freeSale>>

\* Anything else goes wrong: the database rolls back with the claim, and a
\* grant taken with restore_on_rollback is put back into the cache.
RollBackRestoringAll(d) ==
    /\ deed[d].at = "working"
    /\ deed' = [deed EXCEPT ![d] = NoDeed]
    /\ grant' = [g \in Grants |-> IF grant[g].at = "taken" /\ grant[g].kind = "code"
                                  THEN [grant[g] EXCEPT !.at = "cached"] ELSE grant[g]]
    /\ freeSale' = [f \in FreeSales |-> [freeSale[f] EXCEPT !.used = @ /\ f \notin deed[d].held]]
RollBackKeepingClaim(d) ==
    /\ deed[d].at = "working"
    /\ deed' = [deed EXCEPT ![d] = NoDeed]
    /\ grant' = [g \in Grants |-> IF g \in deed[d].held THEN Lost ELSE grant[g]]
    /\ UNCHANGED freeSale
RollBackDeed(d) ==
    /\ deed[d].at = "working"
    /\ deed' = [deed EXCEPT ![d] = NoDeed]
    /\ grant' = [g \in Grants |-> IF g \notin deed[d].held THEN grant[g]
                                  ELSE IF grant[g].kind = "code"
                                  THEN [grant[g] EXCEPT !.at = "cached"]
                                  ELSE Lost]
    /\ freeSale' = [f \in FreeSales |-> [freeSale[f] EXCEPT !.used = @ /\ f \notin deed[d].held]]

-----------------------------------------------------------------------------

ApprovalsNext ==
    \/ \E g \in Grants :
          \/ \E cart \in Carts :
                \/ RequestApproval(g, cart)
                \/ ApproveCreditOverride(g, cart)
                \/ VerifyDiscountAuth(g, cart)
                \/ VerifySessionOpenOtp(g, cart)
          \/ VerifyApproval(g)
          \/ GrantExpires(g)
    \/ \E f \in FreeSales :
          \/ \E cart \in Carts : RequestFreeSale(f, cart)
          \/ \E m \in Managers, answer \in {"Approved", "Rejected"} : RespondToApproval(f, m, answer)
          \/ FreeSaleAges(f)
    \/ \E d \in Deeds :
          \/ \E kind \in GrantKinds \cup {"free"}, cart \in Carts : BeginDeed(d, kind, cart)
          \/ \E g \in Grants : ConsumeGrant(d, g)
          \/ \E f \in FreeSales : ClaimFreeSale(d, f)
          \/ CommitDeed(d)
          \/ RollBackDeed(d)

ApprovalsSpec == ApprovalsInit /\ [][ApprovalsNext]_approvalVars

-----------------------------------------------------------------------------
(* Properties                                                             *)

\* Type correctness; a token that is not there says nothing.
ApprovalsTypeOK ==
    /\ grant \in [Grants -> [at : {"none", "asked", "cached", "taken", "lost"},
                             kind : GrantKinds, cart : Carts \cup {NoCart}]]
    /\ freeSale \in [FreeSales -> [status : {"none", "Pending", "Approved", "Rejected"},
                                   row : [Managers -> {"Pending", "Approved", "Rejected"}],
                                   used : BOOLEAN, old : BOOLEAN, cart : Carts \cup {NoCart}]]
    /\ deed \in [Deeds -> [at : {"idle", "working", "done"},
                           kind : GrantKinds \cup {"free"}, cart : Carts \cup {NoCart},
                           held : SUBSET (Grants \cup FreeSales)]]

\* An approval carries one deed: whatever fails, is retried, expires or is
\* restored in between, no two requests go through on the same token or
\* document, and one that holds it excludes the others ("already used").
ApprovalCarriesOneDeed ==
    \A d, e \in Deeds : d # e => deed[d].held \cap deed[e].held = {}

\* A deed that went through did so on an approval for that very cart: of its
\* kind, and for a free sale with every category manager's consent, however
\* the answers came in.
DeedsAreApproved ==
    \A d \in Deeds : deed[d].at = "done" =>
        \/ \E g \in deed[d].held \cap Grants : grant[g].at = "taken" /\ Matches(g, d)
        \/ /\ deed[d].kind = "free"
           /\ \E f \in deed[d].held \cap FreeSales :
                 /\ freeSale[f].cart = deed[d].cart
                 /\ \A m \in Managers : freeSale[f].row[m] = "Approved"

\* A token is taken exactly while a deed holds it or has gone through on it,
\* and a free-sale approval is marked used exactly then: what a failed
\* request took is given back or lost, never left claimed and never usable
\* while another request holds it.
ClaimsMatchDeeds ==
    /\ \A g \in Grants : grant[g].at = "taken" <=> \E d \in Deeds : g \in deed[d].held
    /\ \A f \in FreeSales : freeSale[f].used <=> \E d \in Deeds : f \in deed[d].held

\* What needed a manager was approved for what it is, each approval carried
\* one deed, and what rolled back took no approval with it but the cache's.
ApprovalsAreEarned ==
    /\ ApprovalCarriesOneDeed
    /\ DeedsAreApproved
    /\ ClaimsMatchDeeds

=============================================================================
