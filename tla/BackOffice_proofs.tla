------------------------- MODULE BackOffice_proofs --------------------------
(***************************************************************************)
(* The desks behind the counter: the PINs and approvals of a manager, the  *)
(* ledger of incentives, the monthly bonus, the receipts of an order and   *)
(* the book of customers, for every number of bills, receipts, managers,   *)
(* customers and requests; and what holds of the whole back office,        *)
(* whichever of its desks runs.                                            *)
(***************************************************************************)
EXTENDS MCBackOffice, Till_proofs, Promises_proofs, Sums

-----------------------------------------------------------------------------
(* The PINs                                                                *)

\* A row named alone among those that match is told apart from its rank.
LEMMA MatchIsAlone ==
    ASSUME NEW code, NEW r \in PinMatches(code), Cardinality(PinMatches(code)) = 1
    PROVE  /\ pinRow[r].place \in {"here", "floating"} /\ pinRow[r].may
           /\ \A other \in PinRows \ {r} :
                /\ pinRow[other].place = pinRow[r].place /\ pinRow[other].may
                /\ pinRow[other].readable
                => pinRow[other].code # pinRow[r].code
           /\ PinMatches(code) = {r} /\ r \in PinRows
<1> DEFINE bound == {q \in HaveCode(code) : pinRow[q].place = "here"}
<1>1. HaveCode(code) \in SUBSET PinRows /\ bound \in SUBSET PinRows
  BY DEF HaveCode, Considered, ListedRows
<1>2. PinMatches(code) \in {HaveCode(code), bound} /\ r \in HaveCode(code)
  BY DEF PinMatches
<1>3. /\ r \in PinRows /\ pinRow[r].place \in {"here", "floating"} /\ pinRow[r].may
      /\ pinRow[r].code = code
  BY <1>2 DEF HaveCode, Considered, ListedRows
<1>4. IsFiniteSet(PinMatches(code))
  BY <1>1, <1>2, PinAssumption, FS_Subset
<1>5. PinMatches(code) = {r}
  <2>1. IsFiniteSet(PinMatches(code) \ {r}) /\ Cardinality(PinMatches(code) \ {r}) = 1 - 1
    BY <1>4, FS_RemoveElement
  <2>2. PinMatches(code) \ {r} = {}
    BY <2>1, FS_EmptySet
  <2> QED BY <2>2
<1>6. ASSUME NEW other \in PinRows \ {r},
             pinRow[other].place = pinRow[r].place, pinRow[other].may,
             pinRow[other].readable, pinRow[other].code = pinRow[r].code
      PROVE  FALSE
  <2>1. other \in HaveCode(code)
    BY <1>3, <1>6 DEF HaveCode, Considered, ListedRows, Unreadable
  <2>2. PinMatches(code) = bound
    BY <1>2, <1>5, <1>6, <2>1
  <2>3. other \in bound
    BY <1>5, <1>6, <2>1, <2>2
  <2> QED BY <1>5, <1>6, <2>2, <2>3
<1> QED BY <1>3, <1>5, <1>6

PinInv == PinTypeOK /\ PinsAreSound

LEMMA VerdictIsTold ==
    ASSUME NEW u, NEW code, NEW second
    PROVE  /\ Verdict(u, code, second) \in Told
           /\ Verdict(u, code, second) = "valid" =>
                 /\ Cardinality(PinMatches(code)) = 1
                 /\ ~(second /\ \A r \in PinMatches(code) : PinOwner[r] = u)
<1> DEFINE n == Cardinality(PinMatches(code))
<1>1. n \in Nat /\ (n = 0 => PinMatches(code) = {})
  <2>1. PinMatches(code) \in SUBSET PinRows
    BY DEF PinMatches, HaveCode, Considered, ListedRows
  <2>2. IsFiniteSet(PinMatches(code))
    BY <2>1, PinAssumption, FS_Subset
  <2> QED BY <2>2, FS_CardinalityType, FS_EmptySet
<1>2. CASE tries[u] >= AttemptLimit \/ (tries[u] < AttemptLimit /\ Cardinality(ListedRows) > CandidateLimit)
  BY <1>2 DEF Verdict, Told
<1>3. CASE ~(tries[u] >= AttemptLimit) /\ ~(tries[u] < AttemptLimit /\ Cardinality(ListedRows) > CandidateLimit)
  <2>1. CASE n = 1
    BY <1>3, <2>1 DEF Verdict, Told
  <2>2. CASE n > 1
    BY <1>3, <2>2 DEF Verdict, Told
  <2>3. CASE n = 0
    <3>1. PinMatches(code) = {}
      BY <1>1, <2>3
    <3> QED BY <1>3, <2>3, <3>1 DEF Verdict, Told
  <2> QED BY <1>1, <2>1, <2>2, <2>3
<1> QED BY <1>2, <1>3

LEMMA VerifyKeeps ==
    ASSUME PinInv, NEW u \in PinUsers, NEW code \in Codes, NEW second \in BOOLEAN,
           Verify(u, code, second)
    PROVE  PinInv'
<1> DEFINE verdict == Verdict(u, code, second)
           c == IF verdict = "valid" THEN [row |-> PinMatches(code), second |-> second] ELSE NoConsent
           n == IF Forgiven(verdict) THEN 0
                ELSE IF tries[u] <= AttemptLimit THEN tries[u] + 1 ELSE tries[u]
<1>1. /\ tries' = [tries EXCEPT ![u] = n] /\ pinAnswer' = [pinAnswer EXCEPT ![u] = verdict]
      /\ consent' = [consent EXCEPT ![u] = c] /\ pinRow' = pinRow
  BY DEF Verify
<1>2. /\ verdict \in Told
      /\ verdict = "valid" => /\ Cardinality(PinMatches(code)) = 1
                              /\ ~(second /\ \A r \in PinMatches(code) : PinOwner[r] = u)
  BY VerdictIsTold
<1>3. PinMatches(code) \in SUBSET PinRows
  BY DEF PinMatches, HaveCode, Considered, ListedRows
<1>4. c \in [row : SUBSET PinRows, second : BOOLEAN]
  BY <1>3 DEF NoConsent
<1>5. n \in 0..(AttemptLimit + 1) /\ (verdict = "unreadable" => n = 0)
  BY PinAssumption DEF PinInv, PinTypeOK, Forgiven
<1>6. \A r \in c.row : /\ pinRow[r].place \in {"here", "floating"} /\ pinRow[r].may
                       /\ c.second => PinOwner[r] # u
                       /\ \A other \in PinRows \ {r} :
                            /\ pinRow[other].place = pinRow[r].place /\ pinRow[other].may
                            /\ pinRow[other].readable
                            => pinRow[other].code # pinRow[r].code
  <2>1. CASE verdict # "valid"
    BY <2>1 DEF NoConsent
  <2>2. CASE verdict = "valid"
    <3>1. c.row = PinMatches(code) /\ c.second = second
      BY <2>2
    <3> SUFFICES ASSUME NEW r \in PinMatches(code)
                 PROVE  /\ pinRow[r].place \in {"here", "floating"} /\ pinRow[r].may
                        /\ second => PinOwner[r] # u
                        /\ \A other \in PinRows \ {r} :
                             /\ pinRow[other].place = pinRow[r].place /\ pinRow[other].may
                             /\ pinRow[other].readable
                             => pinRow[other].code # pinRow[r].code
      BY <3>1
    <3> HIDE DEF verdict, c, n
    <3>2. PinMatches(code) = {r}
      BY <1>2, <2>2, MatchIsAlone
    <3>3. second => PinOwner[r] # u
      BY <1>2, <2>2, <3>2
    <3> QED BY <1>2, <2>2, <3>3, MatchIsAlone
  <2> QED BY <2>1, <2>2
<1> HIDE DEF verdict, c, n
<1>7. PinTypeOK'
  BY <1>1, <1>2, <1>4, <1>5 DEF PinInv, PinTypeOK
<1>8. ConsentHasOneName'
  BY <1>1, <1>6 DEF PinInv, PinTypeOK, PinsAreSound, ConsentHasOneName
<1>9. FaultDoesNotLock'
  BY <1>1, <1>5 DEF PinInv, PinTypeOK, PinsAreSound, FaultDoesNotLock
<1> QED BY <1>7, <1>8, <1>9 DEF PinInv, PinsAreSound

LEMMA PinStarts == PinInit => PinInv
<1> SUFFICES ASSUME PinInit
             PROVE  PinInv
  OBVIOUS
<1>1. PinTypeOK
  BY PinAssumption DEF PinInit, PinTypeOK, Places, Told, NoConsent
<1>2. PinsAreSound
  BY DEF PinInit, PinsAreSound, ConsentHasOneName, FaultDoesNotLock, NoConsent
<1> QED BY <1>1, <1>2 DEF PinInv

LEMMA PinSteps == PinInv /\ [PinNext]_pinVars => PinInv'
<1> SUFFICES ASSUME PinInv, [PinNext]_pinVars
             PROVE  PinInv'
  OBVIOUS
<1>1. ASSUME NEW u \in PinUsers, WindowEnds(u)
      PROVE  PinInv'
  BY <1>1, PinAssumption DEF WindowEnds, PinInv, PinTypeOK, Told, PinsAreSound, ConsentHasOneName, FaultDoesNotLock
<1>2. ASSUME NEW r \in PinRows, NEW setting \in RowSettings, SetRow(r, setting)
      PROVE  PinInv'
  BY <1>2, PinAssumption DEF SetRow, PinInv, PinTypeOK, Told, Places, PinsAreSound, ConsentHasOneName,
     FaultDoesNotLock, NoConsent
<1>3. CASE UNCHANGED pinVars
  BY <1>3 DEF pinVars, PinInv, PinTypeOK, PinsAreSound, ConsentHasOneName, FaultDoesNotLock
<1> QED BY <1>1, <1>2, <1>3, VerifyKeeps DEF PinNext

\* An approval is in one manager's name, and a fault of the site's key locks
\* no till, however many rows and users there are.
THEOREM PinsSound == PinSpec => []PinsAreSound
<1>1. PinInv => PinsAreSound
  BY DEF PinInv
<1> QED BY <1>1, PinStarts, PinSteps, PTL DEF PinSpec

-----------------------------------------------------------------------------
(* Grants and free-sale approvals                                          *)

\* What request d may hold x for: a token taken for its cart, or a document
\* that every manager approved for it.
Backs(d, x) ==
    \/ /\ x \in Grants /\ deed[d].kind \in GrantKinds
       /\ grant[x].at = "taken" /\ Matches(x, d)
    \/ /\ x \in FreeSales /\ deed[d].kind = "free"
       /\ freeSale[x].status = "Approved" /\ freeSale[x].used
       /\ freeSale[x].cart = deed[d].cart
       /\ \A m \in Managers : freeSale[x].row[m] = "Approved"

\* A request holds only what backs it, from its claim to its end.
HoldingsBack ==
    \A d \in Deeds :
        /\ deed[d].at = "idle" => deed[d].held = {}
        /\ deed[d].at = "done" => deed[d].held # {}
        /\ \A x \in deed[d].held : Backs(d, x)

ApprovalsInv ==
    /\ ApprovalsTypeOK
    /\ HoldingsBack
    /\ ApprovalCarriesOneDeed
    /\ ClaimsMatchDeeds

TheGrants == [at : {"none", "asked", "cached", "taken", "lost"},
              kind : GrantKinds, cart : Carts \cup {NoCart}]
TheFreeSales == [status : {"none", "Pending", "Approved", "Rejected"},
                 row : [Managers -> {"Pending", "Approved", "Rejected"}],
                 used : BOOLEAN, old : BOOLEAN, cart : Carts \cup {NoCart}]
TheDeeds == [at : {"idle", "working", "done"},
             kind : GrantKinds \cup {"free"}, cart : Carts \cup {NoCart},
             held : SUBSET (Grants \cup FreeSales)]

LEMMA ApprovalFacts ==
    /\ ApprovalsTypeOK <=> /\ grant \in [Grants -> TheGrants]
                           /\ freeSale \in [FreeSales -> TheFreeSales]
                           /\ deed \in [Deeds -> TheDeeds]
    /\ NoGrant \in TheGrants /\ NoGrant.at = "none"
    /\ Lost \in TheGrants /\ Lost.at = "lost"
    /\ NoDeed \in TheDeeds /\ NoDeed.at = "idle" /\ NoDeed.held = {}
<1>1. ApprovalsTypeOK <=> /\ grant \in [Grants -> TheGrants]
                          /\ freeSale \in [FreeSales -> TheFreeSales]
                          /\ deed \in [Deeds -> TheDeeds]
  BY DEF ApprovalsTypeOK, TheGrants, TheFreeSales, TheDeeds
<1>2. NoGrant \in TheGrants /\ NoGrant.at = "none"
  BY DEF TheGrants, NoGrant, GrantKinds
<1>3. Lost \in TheGrants /\ Lost.at = "lost"
  <2> HIDE DEF NoGrant
  <2> QED BY <1>2 DEF Lost, TheGrants
<1>4. NoDeed \in TheDeeds /\ NoDeed.at = "idle" /\ NoDeed.held = {}
  BY DEF NoDeed, TheDeeds, GrantKinds
<1> QED BY <1>1, <1>2, <1>3, <1>4

\* A token that nobody holds becomes another that nobody holds.
LEMMA FreeGrantMoves ==
    ASSUME ApprovalsInv, NEW g \in Grants, NEW x \in TheGrants,
           grant[g].at # "taken", x.at # "taken",
           grant' = [grant EXCEPT ![g] = x], UNCHANGED <<freeSale, deed>>
    PROVE  ApprovalsInv'
<1>1. grant' \in [Grants -> TheGrants] /\ \A h \in Grants : grant'[h] = IF h = g THEN x ELSE grant[h]
  BY ApprovalFacts DEF ApprovalsInv
<1>2. ApprovalsTypeOK'
  BY <1>1, ApprovalFacts DEF ApprovalsInv, ApprovalsTypeOK, TheGrants
<1>3. HoldingsBack'
  BY <1>1 DEF ApprovalsInv, HoldingsBack, Backs, Matches
<1>4. ApprovalCarriesOneDeed' /\ ClaimsMatchDeeds'
  BY <1>1 DEF ApprovalsInv, ApprovalCarriesOneDeed, ClaimsMatchDeeds
<1> QED BY <1>2, <1>3, <1>4 DEF ApprovalsInv

LEMMA GrantSteps ==
    ASSUME ApprovalsInv, NEW g \in Grants,
           \/ \E cart \in Carts :
                 \/ RequestApproval(g, cart)
                 \/ ApproveCreditOverride(g, cart)
                 \/ VerifyDiscountAuth(g, cart)
                 \/ VerifySessionOpenOtp(g, cart)
           \/ VerifyApproval(g)
           \/ GrantExpires(g)
    PROVE  ApprovalsInv'
<1>1. grant[g] \in TheGrants
  BY ApprovalFacts DEF ApprovalsInv
<1>2. ASSUME NEW cart \in Carts, NEW at \in {"asked", "cached"}, NEW kind \in GrantKinds,
             grant[g] = NoGrant,
             grant' = [grant EXCEPT ![g] = [at |-> at, kind |-> kind, cart |-> cart]],
             UNCHANGED <<freeSale, deed>>
      PROVE  ApprovalsInv'
  <2> DEFINE x == [at |-> at, kind |-> kind, cart |-> cart]
  <2>1. x \in TheGrants /\ x.at # "taken" /\ grant[g].at # "taken"
    BY <1>2, ApprovalFacts DEF TheGrants
  <2> HIDE DEF x
  <2>2. grant' = [grant EXCEPT ![g] = x]
    BY <1>2 DEF x
  <2> QED BY <1>2, <2>1, <2>2, FreeGrantMoves
<1>3. ASSUME NEW cart \in Carts, RequestApproval(g, cart)
      PROVE  ApprovalsInv'
  BY <1>2, <1>3 DEF RequestApproval, GrantKinds
<1>4. ASSUME NEW cart \in Carts, NEW kind, IssueActionGrant(g, kind, cart)
      PROVE  ApprovalsInv'
  BY <1>2, <1>4 DEF IssueActionGrant, GrantKinds
<1>5. CASE VerifyApproval(g)
  <2> DEFINE x == [grant[g] EXCEPT !.at = "cached"]
  <2>1. x \in TheGrants /\ x.at # "taken" /\ grant[g].at # "taken"
    BY <1>1, <1>5 DEF TheGrants, VerifyApproval
  <2>2. grant' = [grant EXCEPT ![g] = x] /\ UNCHANGED <<freeSale, deed>>
    BY <1>1, <1>5 DEF VerifyApproval
  <2> HIDE DEF x
  <2> QED BY <2>1, <2>2, FreeGrantMoves
<1>6. CASE GrantExpires(g)
  BY <1>6, ApprovalFacts, FreeGrantMoves DEF GrantExpires
<1> QED BY <1>3, <1>4, <1>5, <1>6 DEF ApproveCreditOverride, VerifyDiscountAuth, VerifySessionOpenOtp

\* A document that nobody holds changes, and stays unused.
LEMMA FreeSaleMoves ==
    ASSUME ApprovalsInv, NEW f \in FreeSales, NEW x \in TheFreeSales,
           x.used = freeSale[f].used,
           freeSale[f].used => x.status = freeSale[f].status /\ x.cart = freeSale[f].cart
                               /\ x.row = freeSale[f].row,
           freeSale' = [freeSale EXCEPT ![f] = x], UNCHANGED <<grant, deed>>
    PROVE  ApprovalsInv'
<1>1. /\ freeSale' \in [FreeSales -> TheFreeSales]
      /\ \A h \in FreeSales : freeSale'[h] = IF h = f THEN x ELSE freeSale[h]
  BY ApprovalFacts DEF ApprovalsInv
<1>2. ApprovalsTypeOK'
  BY <1>1 DEF ApprovalsInv, ApprovalsTypeOK, TheFreeSales
<1>3. HoldingsBack'
  BY <1>1 DEF ApprovalsInv, HoldingsBack, Backs, Matches
<1>4. ApprovalCarriesOneDeed' /\ ClaimsMatchDeeds'
  BY <1>1 DEF ApprovalsInv, ApprovalCarriesOneDeed, ClaimsMatchDeeds
<1> QED BY <1>2, <1>3, <1>4 DEF ApprovalsInv

\* Who claims a document has it Approved, so a used one takes no more answers.
LEMMA UsedIsApproved ==
    ASSUME ApprovalsInv, NEW f \in FreeSales, freeSale[f].used
    PROVE  freeSale[f].status = "Approved"
<1>1. PICK d \in Deeds : f \in deed[d].held
  BY DEF ApprovalsInv, ClaimsMatchDeeds
<1>2. Backs(d, f)
  BY <1>1 DEF ApprovalsInv, HoldingsBack
<1> QED BY <1>2, ApprovalsAssumption DEF Backs

LEMMA FreeSaleSteps ==
    ASSUME ApprovalsInv, NEW f \in FreeSales,
           \/ \E cart \in Carts : RequestFreeSale(f, cart)
           \/ \E m \in Managers, answer \in {"Approved", "Rejected"} : RespondToApproval(f, m, answer)
           \/ FreeSaleAges(f)
    PROVE  ApprovalsInv'
<1>1. freeSale[f] \in TheFreeSales /\ freeSale \in [FreeSales -> TheFreeSales]
  BY ApprovalFacts DEF ApprovalsInv
<1>2. ASSUME NEW cart \in Carts, RequestFreeSale(f, cart)
      PROVE  ApprovalsInv'
  <2> DEFINE y == [freeSale[f] EXCEPT !.status = "Pending"]
             x == [y EXCEPT !.cart = cart]
  <2>1. y \in TheFreeSales /\ y.used = freeSale[f].used
    BY <1>1 DEF TheFreeSales
  <2>2. freeSale' = [freeSale EXCEPT ![f] = x] /\ UNCHANGED <<grant, deed>>
    BY <1>1, <1>2 DEF RequestFreeSale
  <2> HIDE DEF y
  <2>3. x \in TheFreeSales /\ x.used = freeSale[f].used
    BY <2>1 DEF TheFreeSales
  <2>4. ~freeSale[f].used
    BY <1>2, UsedIsApproved DEF RequestFreeSale
  <2> HIDE DEF x
  <2> QED BY <2>2, <2>3, <2>4, FreeSaleMoves
<1>3. ASSUME NEW m \in Managers, NEW answer \in {"Approved", "Rejected"}, RespondToApproval(f, m, answer)
      PROVE  ApprovalsInv'
  <2> DEFINE row == [freeSale[f].row EXCEPT ![m] = answer]
             y == [freeSale[f] EXCEPT !.row = row]
             x == [y EXCEPT !.status = ParentStatus(row)]
  <2>1. row \in [Managers -> {"Pending", "Approved", "Rejected"}]
    BY <1>1 DEF TheFreeSales
  <2>2. freeSale' = [freeSale EXCEPT ![f] = x] /\ UNCHANGED <<grant, deed>>
    BY <1>1, <1>3 DEF RespondToApproval
  <2>3. ParentStatus(row) \in {"Pending", "Approved", "Rejected"}
    BY DEF ParentStatus
  <2> HIDE DEF row
  <2>4. y \in TheFreeSales /\ y.used = freeSale[f].used
    BY <1>1, <2>1 DEF TheFreeSales
  <2> HIDE DEF y
  <2>5. x \in TheFreeSales /\ x.used = freeSale[f].used
    BY <2>3, <2>4 DEF TheFreeSales
  <2>6. ~freeSale[f].used
    BY <1>3, UsedIsApproved DEF RespondToApproval
  <2> HIDE DEF x
  <2> QED BY <2>2, <2>5, <2>6, FreeSaleMoves
<1>4. CASE FreeSaleAges(f)
  <2> DEFINE x == [freeSale[f] EXCEPT !.old = TRUE]
  <2>1. /\ x \in TheFreeSales /\ x.used = freeSale[f].used /\ x.status = freeSale[f].status
        /\ x.cart = freeSale[f].cart /\ x.row = freeSale[f].row
    BY <1>1 DEF TheFreeSales
  <2>2. freeSale' = [freeSale EXCEPT ![f] = x] /\ UNCHANGED <<grant, deed>>
    BY <1>1, <1>4 DEF FreeSaleAges
  <2> HIDE DEF x
  <2> QED BY <2>1, <2>2, FreeSaleMoves
<1> QED BY <1>2, <1>3, <1>4

LEMMA BeginDeedKeeps ==
    ASSUME ApprovalsInv, NEW d \in Deeds, NEW kind \in GrantKinds \cup {"free"}, NEW cart \in Carts,
           BeginDeed(d, kind, cart)
    PROVE  ApprovalsInv'
<1> DEFINE x == [at |-> "working", kind |-> kind, cart |-> cart, held |-> {}]
<1>1. x \in TheDeeds /\ x.at = "working" /\ x.held = {}
  BY DEF TheDeeds
<1>2. /\ deed[d].held = {} /\ deed' = [deed EXCEPT ![d] = x]
      /\ UNCHANGED <<grant, freeSale>>
  BY ApprovalFacts DEF BeginDeed
<1> HIDE DEF x
<1>3. deed' \in [Deeds -> TheDeeds] /\ \A e \in Deeds : deed'[e] = IF e = d THEN x ELSE deed[e]
  BY <1>1, <1>2, ApprovalFacts DEF ApprovalsInv
<1>4. ApprovalsTypeOK'
  BY <1>2, <1>3 DEF ApprovalsInv, ApprovalsTypeOK, TheDeeds
<1>5. HoldingsBack'
  BY <1>1, <1>2, <1>3 DEF ApprovalsInv, HoldingsBack, Backs, Matches
<1>6. ApprovalCarriesOneDeed' /\ ClaimsMatchDeeds'
  BY <1>1, <1>2, <1>3 DEF ApprovalsInv, ApprovalCarriesOneDeed, ClaimsMatchDeeds
<1> QED BY <1>4, <1>5, <1>6 DEF ApprovalsInv

\* What no request holds is free to be claimed, and then held alone.
LEMMA ClaimKeeps ==
    ASSUME ApprovalsInv, NEW d \in Deeds, NEW x \in Grants \cup FreeSales, Working(d),
           \A e \in Deeds : x \notin deed[e].held,
           deed' = [deed EXCEPT ![d].held = {x}],
           ApprovalsTypeOK', Backs(d, x)',
           \A e \in Deeds \ {d} : \A y \in deed[e].held : Backs(e, y)',
           \A g \in Grants : grant'[g].at = "taken" <=> grant[g].at = "taken" \/ g = x,
           \A f \in FreeSales : freeSale'[f].used <=> freeSale[f].used \/ f = x
    PROVE  ApprovalsInv'
<1> DEFINE z == [deed[d] EXCEPT !.held = {x}]
<1>1. deed[d] \in TheDeeds /\ deed \in [Deeds -> TheDeeds] /\ deed[d].at = "working" /\ deed[d].held = {}
  BY ApprovalFacts DEF ApprovalsInv, Working
<1>2. z.at = "working" /\ z.held = {x} /\ deed' = [deed EXCEPT ![d] = z]
  BY <1>1 DEF TheDeeds
<1> HIDE DEF z
<1>3. \A e \in Deeds : deed'[e] = IF e = d THEN z ELSE deed[e]
  BY <1>1, <1>2
<1>4. HoldingsBack'
  <2> SUFFICES ASSUME NEW e \in Deeds
               PROVE  /\ deed'[e].at = "idle" => deed'[e].held = {}
                      /\ deed'[e].at = "done" => deed'[e].held # {}
                      /\ \A y \in deed'[e].held : Backs(e, y)'
    BY DEF HoldingsBack
  <2>1. CASE e = d
    BY <1>2, <1>3, <2>1
  <2>2. CASE e # d
    BY <1>3, <2>2 DEF ApprovalsInv, HoldingsBack
  <2> QED BY <2>1, <2>2
<1>5. ApprovalCarriesOneDeed'
  BY <1>2, <1>3 DEF ApprovalsInv, ApprovalCarriesOneDeed
<1>6. \A y : (\E e \in Deeds : y \in deed'[e].held) <=> (\E e \in Deeds : y \in deed[e].held) \/ y = x
  BY <1>1, <1>2, <1>3
<1>7. ClaimsMatchDeeds'
  BY <1>6 DEF ApprovalsInv, ClaimsMatchDeeds
<1> QED BY <1>4, <1>5, <1>7 DEF ApprovalsInv

LEMMA ConsumeGrantKeeps ==
    ASSUME ApprovalsInv, NEW d \in Deeds, NEW g \in Grants, ConsumeGrant(d, g)
    PROVE  ApprovalsInv'
<1>1. /\ grant \in [Grants -> TheGrants] /\ deed \in [Deeds -> TheDeeds]
      /\ freeSale \in [FreeSales -> TheFreeSales]
      /\ grant[g] \in TheGrants /\ deed[d] \in TheDeeds
  BY ApprovalFacts DEF ApprovalsInv
<1>2. Working(d) /\ deed[d].kind \in GrantKinds /\ grant[g].at = "cached" /\ UNCHANGED freeSale
  BY DEF ConsumeGrant
<1>3. \A e \in Deeds : g \notin deed[e].held
  BY <1>2 DEF ApprovalsInv, ClaimsMatchDeeds
<1>4. CASE Matches(g, d)
  <2> DEFINE x == [grant[g] EXCEPT !.at = "taken"]
             z == [deed[d] EXCEPT !.held = {g}]
  <2>1. x \in TheGrants /\ x.at = "taken" /\ x.kind = grant[g].kind /\ x.cart = grant[g].cart
    BY <1>1 DEF TheGrants
  <2>2. z \in TheDeeds /\ z.kind = deed[d].kind /\ z.cart = deed[d].cart
    BY <1>1 DEF TheDeeds
  <2>3. /\ grant' = [grant EXCEPT ![g] = x] /\ deed' = [deed EXCEPT ![d] = z]
        /\ deed' = [deed EXCEPT ![d].held = {g}]
    BY <1>1, <1>4 DEF ConsumeGrant
  <2> HIDE DEF x, z
  <2>4. /\ \A h \in Grants : grant'[h] = IF h = g THEN x ELSE grant[h]
        /\ \A e \in Deeds : deed'[e] = IF e = d THEN z ELSE deed[e]
        /\ grant' \in [Grants -> TheGrants] /\ deed' \in [Deeds -> TheDeeds]
    BY <1>1, <2>1, <2>2, <2>3
  <2>5. ApprovalsTypeOK'
    BY <1>1, <1>2, <2>4 DEF ApprovalsTypeOK, TheGrants, TheFreeSales, TheDeeds
  <2>6. Backs(d, g)'
    BY <1>2, <1>4, <2>1, <2>2, <2>4 DEF Backs, Matches
  <2>7. \A e \in Deeds \ {d} : \A y \in deed[e].held : Backs(e, y)'
    BY <1>2, <1>3, <2>4 DEF ApprovalsInv, HoldingsBack, Backs, Matches
  <2>8. /\ \A h \in Grants : grant'[h].at = "taken" <=> grant[h].at = "taken" \/ h = g
        /\ \A f \in FreeSales : freeSale'[f].used <=> freeSale[f].used \/ f = g
    BY <1>2, <2>1, <2>4, ApprovalsAssumption
  <2>9. g \in Grants \cup FreeSales /\ Working(d) /\ deed' = [deed EXCEPT ![d].held = {g}]
    BY <1>2, <2>3
  <2> QED BY <1>3, <2>5, <2>6, <2>7, <2>8, <2>9, ClaimKeeps
<1>5. CASE ~Matches(g, d)
  <2>1. grant' = [grant EXCEPT ![g] = Lost] /\ deed' = [deed EXCEPT ![d] = NoDeed]
    BY <1>5 DEF ConsumeGrant
  <2>2. /\ \A h \in Grants : grant'[h] = IF h = g THEN Lost ELSE grant[h]
        /\ \A e \in Deeds : deed'[e] = IF e = d THEN NoDeed ELSE deed[e]
        /\ grant' \in [Grants -> TheGrants] /\ deed' \in [Deeds -> TheDeeds]
    BY <1>1, <2>1, ApprovalFacts
  <2>3. deed[d].held = {}
    BY <1>2 DEF Working
  <2>4. ApprovalsTypeOK'
    BY <1>1, <1>2, <2>2 DEF ApprovalsTypeOK, TheGrants, TheFreeSales, TheDeeds
  <2>5. HoldingsBack'
    BY <1>2, <1>3, <2>2, ApprovalFacts DEF ApprovalsInv, HoldingsBack, Backs, Matches
  <2>6. ApprovalCarriesOneDeed' /\ ClaimsMatchDeeds'
    BY <1>2, <1>3, <2>2, <2>3, ApprovalFacts DEF ApprovalsInv, ApprovalCarriesOneDeed, ClaimsMatchDeeds
  <2> QED BY <2>4, <2>5, <2>6 DEF ApprovalsInv
<1> QED BY <1>4, <1>5

LEMMA ClaimFreeSaleKeeps ==
    ASSUME ApprovalsInv, NEW d \in Deeds, NEW f \in FreeSales, ClaimFreeSale(d, f)
    PROVE  ApprovalsInv'
<1>1. /\ grant \in [Grants -> TheGrants] /\ deed \in [Deeds -> TheDeeds]
      /\ freeSale \in [FreeSales -> TheFreeSales]
      /\ freeSale[f] \in TheFreeSales /\ deed[d] \in TheDeeds
  BY ApprovalFacts DEF ApprovalsInv
<1>2. /\ Working(d) /\ deed[d].kind = "free" /\ UNCHANGED grant
      /\ freeSale[f].status = "Approved" /\ ~freeSale[f].used /\ freeSale[f].cart = deed[d].cart
      /\ \A m \in Managers : freeSale[f].row[m] = "Approved"
  BY DEF ClaimFreeSale
<1>3. \A e \in Deeds : f \notin deed[e].held
  BY <1>2 DEF ApprovalsInv, ClaimsMatchDeeds
<1> DEFINE x == [freeSale[f] EXCEPT !.used = TRUE]
           z == [deed[d] EXCEPT !.held = {f}]
<1>4. /\ x \in TheFreeSales /\ x.used /\ x.status = freeSale[f].status
      /\ x.cart = freeSale[f].cart /\ x.row = freeSale[f].row
  BY <1>1 DEF TheFreeSales
<1>5. z \in TheDeeds /\ z.kind = deed[d].kind /\ z.cart = deed[d].cart
  BY <1>1 DEF TheDeeds
<1>6. /\ freeSale' = [freeSale EXCEPT ![f] = x] /\ deed' = [deed EXCEPT ![d] = z]
      /\ deed' = [deed EXCEPT ![d].held = {f}]
  BY <1>1 DEF ClaimFreeSale
<1> HIDE DEF x, z
<1>7. /\ \A h \in FreeSales : freeSale'[h] = IF h = f THEN x ELSE freeSale[h]
      /\ \A e \in Deeds : deed'[e] = IF e = d THEN z ELSE deed[e]
      /\ freeSale' \in [FreeSales -> TheFreeSales] /\ deed' \in [Deeds -> TheDeeds]
  BY <1>1, <1>4, <1>5, <1>6
<1>8. ApprovalsTypeOK'
  BY <1>1, <1>2, <1>7 DEF ApprovalsTypeOK, TheGrants, TheFreeSales, TheDeeds
<1>9. Backs(d, f)'
  BY <1>2, <1>4, <1>5, <1>7 DEF Backs, Matches
<1>10. \A e \in Deeds \ {d} : \A y \in deed[e].held : Backs(e, y)'
  BY <1>2, <1>3, <1>7 DEF ApprovalsInv, HoldingsBack, Backs, Matches
<1>11. /\ \A h \in Grants : grant'[h].at = "taken" <=> grant[h].at = "taken" \/ h = f
       /\ \A h \in FreeSales : freeSale'[h].used <=> freeSale[h].used \/ h = f
  BY <1>2, <1>4, <1>7, ApprovalsAssumption
<1>12. f \in Grants \cup FreeSales /\ Working(d) /\ deed' = [deed EXCEPT ![d].held = {f}]
  BY <1>2, <1>6
<1> QED BY <1>3, <1>8, <1>9, <1>10, <1>11, <1>12, ClaimKeeps

LEMMA CommitDeedKeeps ==
    ASSUME ApprovalsInv, NEW d \in Deeds, CommitDeed(d)
    PROVE  ApprovalsInv'
<1> DEFINE z == [deed[d] EXCEPT !.at = "done"]
<1>1. deed[d] \in TheDeeds /\ deed \in [Deeds -> TheDeeds]
  BY ApprovalFacts DEF ApprovalsInv
<1>2. /\ z \in TheDeeds /\ z.at = "done" /\ z.kind = deed[d].kind /\ z.cart = deed[d].cart
      /\ z.held = deed[d].held
  BY <1>1 DEF TheDeeds
<1>3. deed[d].held # {} /\ deed' = [deed EXCEPT ![d] = z] /\ UNCHANGED <<grant, freeSale>>
  BY <1>1 DEF CommitDeed
<1> HIDE DEF z
<1>4. deed' \in [Deeds -> TheDeeds] /\ \A e \in Deeds : deed'[e] = IF e = d THEN z ELSE deed[e]
  BY <1>1, <1>2, <1>3
<1>5. ApprovalsTypeOK'
  BY <1>3, <1>4 DEF ApprovalsInv, ApprovalsTypeOK, TheDeeds
<1>6. \A y : \A e \in Deeds : Backs(e, y) => Backs(e, y)'
  BY <1>2, <1>3, <1>4 DEF Backs, Matches
<1>7. HoldingsBack'
  BY <1>2, <1>3, <1>4, <1>6 DEF ApprovalsInv, HoldingsBack
<1>8. ApprovalCarriesOneDeed' /\ ClaimsMatchDeeds'
  BY <1>2, <1>3, <1>4 DEF ApprovalsInv, ApprovalCarriesOneDeed, ClaimsMatchDeeds
<1> QED BY <1>5, <1>7, <1>8 DEF ApprovalsInv

\* What a failed request held is nobody's afterwards, and the rest stands.
LEMMA RollBackDeedKeeps ==
    ASSUME ApprovalsInv, NEW d \in Deeds, RollBackDeed(d)
    PROVE  ApprovalsInv'
<1>1. /\ grant \in [Grants -> TheGrants] /\ deed \in [Deeds -> TheDeeds]
      /\ freeSale \in [FreeSales -> TheFreeSales]
  BY ApprovalFacts DEF ApprovalsInv
<1>2. deed' \in [Deeds -> TheDeeds] /\ \A e \in Deeds : deed'[e] = IF e = d THEN NoDeed ELSE deed[e]
  BY <1>1, ApprovalFacts DEF RollBackDeed
<1>3. ASSUME NEW g \in Grants
      PROVE  /\ grant'[g] \in TheGrants
             /\ g \notin deed[d].held => grant'[g] = grant[g]
             /\ g \in deed[d].held => grant'[g].at # "taken"
  <2> DEFINE x == [grant[g] EXCEPT !.at = "cached"]
  <2>1. x \in TheGrants /\ x.at = "cached"
    BY <1>1 DEF TheGrants
  <2>2. grant'[g] = IF g \notin deed[d].held THEN grant[g]
                    ELSE IF grant[g].kind = "code" THEN x ELSE Lost
    BY DEF RollBackDeed
  <2> HIDE DEF x
  <2> QED BY <1>1, <2>1, <2>2, ApprovalFacts
<1>4. ASSUME NEW f \in FreeSales
      PROVE  /\ freeSale'[f] \in TheFreeSales /\ freeSale'[f].status = freeSale[f].status
             /\ freeSale'[f].cart = freeSale[f].cart /\ freeSale'[f].row = freeSale[f].row
             /\ freeSale'[f].used <=> freeSale[f].used /\ f \notin deed[d].held
  <2> DEFINE used == freeSale[f].used /\ f \notin deed[d].held
             x == [freeSale[f] EXCEPT !.used = used]
  <2>1. freeSale[f] \in TheFreeSales /\ used \in BOOLEAN
    BY <1>1
  <2>2. freeSale'[f] = x
    BY DEF RollBackDeed
  <2> HIDE DEF used
  <2>3. x \in TheFreeSales /\ x.used = used /\ x.status = freeSale[f].status
        /\ x.cart = freeSale[f].cart /\ x.row = freeSale[f].row
    BY <2>1 DEF TheFreeSales
  <2> HIDE DEF x
  <2> QED BY <2>1, <2>2, <2>3 DEF used
<1>5. ApprovalsTypeOK'
  <2>1. grant' = [g \in Grants |-> grant'[g]] /\ freeSale' = [f \in FreeSales |-> freeSale'[f]]
    BY DEF RollBackDeed
  <2>2. grant' \in [Grants -> TheGrants] /\ freeSale' \in [FreeSales -> TheFreeSales]
    BY <1>3, <1>4, <2>1
  <2> QED BY <1>2, <2>2 DEF ApprovalsTypeOK, TheGrants, TheFreeSales, TheDeeds
<1>6. \A e \in Deeds \ {d} : deed[e].held \cap deed[d].held = {}
  BY DEF ApprovalsInv, ApprovalCarriesOneDeed
<1>7. HoldingsBack'
  <2> SUFFICES ASSUME NEW e \in Deeds
               PROVE  /\ deed'[e].at = "idle" => deed'[e].held = {}
                      /\ deed'[e].at = "done" => deed'[e].held # {}
                      /\ \A y \in deed'[e].held : Backs(e, y)'
    BY DEF HoldingsBack
  <2>1. CASE e = d
    BY <1>2, <2>1, ApprovalFacts
  <2>2. CASE e # d
    <3>1. \A y \in deed[e].held : y \notin deed[d].held /\ Backs(e, y)
      BY <1>6, <2>2 DEF ApprovalsInv, HoldingsBack
    <3>2. \A y \in deed[e].held : Backs(e, y)'
      BY <1>2, <1>3, <1>4, <2>2, <3>1 DEF Backs, Matches
    <3> QED BY <1>2, <2>2, <3>2 DEF ApprovalsInv, HoldingsBack
  <2> QED BY <2>1, <2>2
<1>8. ApprovalCarriesOneDeed'
  BY <1>2, ApprovalFacts DEF ApprovalsInv, ApprovalCarriesOneDeed
<1>9. \A y : (\E e \in Deeds : y \in deed'[e].held) <=>
                (\E e \in Deeds : y \in deed[e].held) /\ y \notin deed[d].held
  BY <1>2, <1>6, ApprovalFacts
<1>10. ClaimsMatchDeeds'
  BY <1>3, <1>4, <1>9 DEF ApprovalsInv, ClaimsMatchDeeds
<1> QED BY <1>5, <1>7, <1>8, <1>10 DEF ApprovalsInv

LEMMA ApprovalsStart == ApprovalsInit => ApprovalsInv
<1> SUFFICES ASSUME ApprovalsInit
             PROVE  ApprovalsInv
  OBVIOUS
<1>1. ApprovalsTypeOK
  <2>1. grant \in [Grants -> TheGrants] /\ deed \in [Deeds -> TheDeeds]
    BY ApprovalFacts DEF ApprovalsInit
  <2>2. freeSale \in [FreeSales -> TheFreeSales]
    BY DEF ApprovalsInit, TheFreeSales
  <2> QED BY <2>1, <2>2, ApprovalFacts
<1>2. \A d \in Deeds : deed[d].held = {} /\ deed[d].at = "idle"
  BY ApprovalFacts DEF ApprovalsInit
<1>3. /\ \A g \in Grants : grant[g].at = "none"
      /\ \A f \in FreeSales : ~freeSale[f].used
  BY ApprovalFacts DEF ApprovalsInit
<1> QED BY <1>1, <1>2, <1>3 DEF ApprovalsInv, HoldingsBack, ApprovalCarriesOneDeed, ClaimsMatchDeeds

LEMMA ApprovalsSteps == ApprovalsInv /\ [ApprovalsNext]_approvalVars => ApprovalsInv'
<1> SUFFICES ASSUME ApprovalsInv, [ApprovalsNext]_approvalVars
             PROVE  ApprovalsInv'
  OBVIOUS
<1>1. CASE UNCHANGED approvalVars
  BY <1>1 DEF approvalVars, ApprovalsInv, ApprovalsTypeOK, HoldingsBack, Backs, Matches,
     ApprovalCarriesOneDeed, ClaimsMatchDeeds
<1> QED BY <1>1, GrantSteps, FreeSaleSteps, BeginDeedKeeps, ConsumeGrantKeeps, ClaimFreeSaleKeeps,
           CommitDeedKeeps, RollBackDeedKeeps DEF ApprovalsNext

LEMMA ApprovalsInvSays == ApprovalsInv => ApprovalsTypeOK /\ ApprovalsAreEarned
<1> SUFFICES ASSUME ApprovalsInv
             PROVE  ApprovalsAreEarned
  BY DEF ApprovalsInv
<1>1. ASSUME NEW d \in Deeds, deed[d].at = "done"
      PROVE  \/ \E g \in deed[d].held \cap Grants : grant[g].at = "taken" /\ Matches(g, d)
             \/ /\ deed[d].kind = "free"
                /\ \E f \in deed[d].held \cap FreeSales :
                      /\ freeSale[f].cart = deed[d].cart
                      /\ \A m \in Managers : freeSale[f].row[m] = "Approved"
  <2>1. PICK x \in deed[d].held : Backs(d, x)
    BY <1>1 DEF ApprovalsInv, HoldingsBack
  <2> QED BY <2>1 DEF Backs
<1>2. DeedsAreApproved
  BY <1>1 DEF DeedsAreApproved
<1> QED BY <1>2 DEF ApprovalsInv, ApprovalsAreEarned

\* Tokens, documents and requests are what the code can make of them.
THEOREM ApprovalsTypeCorrect == ApprovalsSpec => []ApprovalsTypeOK
<1>1. ApprovalsSpec => []ApprovalsInv
  BY ApprovalsStart, ApprovalsSteps, PTL DEF ApprovalsSpec
<1> QED BY <1>1, ApprovalsInvSays, PTL

\* An approval carries one deed, for the very cart it was given for, and a
\* rollback gives back or loses what it took: for any number of tokens,
\* documents, managers and requests.
THEOREM ApprovalsEarned == ApprovalsSpec => []ApprovalsAreEarned
<1>1. ApprovalsSpec => []ApprovalsInv
  BY ApprovalsStart, ApprovalsSteps, PTL DEF ApprovalsSpec
<1> QED BY <1>1, ApprovalsInvSays, PTL

-----------------------------------------------------------------------------
(* Incentives                                                              *)

\* Entries are of submitted bills; a back-fill writes when it is done, and the
\* bills it means to serve have nothing of their sale.
EarnInv ==
    /\ EarnTypeOK
    /\ EarnedOnce
    /\ \A e \in entries : e.sale \in billed
    /\ \A f \in Backfills : /\ fill[f].bills \subseteq billed
                            /\ fill[f].phase # "done" => \A e \in entries : e.writer # f
    /\ \A f \in Backfills : \A s \in fill[f].bills \ fill[f].paired : EarnedBy(Sale, s) = {}

LEMMA EntryFields ==
    ASSUME NEW w, NEW s, NEW upTo, NEW e \in Earned(w, s, upTo)
    PROVE  /\ e.writer = w /\ e.sale = s /\ e.status = "Pending"
           /\ e = Entry(w, s, e.line) /\ e.line \in 1..upTo
  BY DEF Earned, Entry

LEMMA EarnedAreEntries ==
    ASSUME EarnAssumption, NEW w \in {Sale} \cup EarnReturns \cup Backfills, NEW s \in EarnSales,
           NEW upTo \in 0..SaleLines
    PROVE  Earned(w, s, upTo) \subseteq Entries
<1>1. 1..upTo \subseteq LinesOf
  BY EarnAssumption DEF LinesOf
<1> QED BY <1>1 DEF Earned, Entry, Entries

\* New entries of a writer that had none of the bill repeat nothing.
LEMMA NewEntriesRepeatNothing ==
    ASSUME EarnInv, NEW w, NEW T,
           \A x \in entries' \ entries : x.writer = w /\ x.sale \in T /\ x = Entry(w, x.sale, x.line),
           \A e \in entries : e.writer = w => e.sale \notin T
    PROVE  \A e, n \in entries' :
             e.writer = n.writer /\ e.sale = n.sale /\ e.line = n.line => e = n
<1> SUFFICES ASSUME NEW e \in entries', NEW n \in entries',
                    e.writer = n.writer, e.sale = n.sale, e.line = n.line
             PROVE  e = n
  OBVIOUS
<1>1. \A x \in entries' \ entries : x.writer = w /\ x.sale \in T /\ x = Entry(w, x.sale, x.line)
  OBVIOUS
<1>2. CASE e \in entries /\ n \in entries
  BY <1>2 DEF EarnInv, EarnedOnce
<1>3. CASE e \notin entries /\ n \notin entries
  BY <1>1, <1>3
<1>4. CASE e \in entries /\ n \notin entries
  BY <1>1, <1>4
<1>5. CASE e \notin entries /\ n \in entries
  BY <1>1, <1>5
<1> QED BY <1>2, <1>3, <1>4, <1>5

LEMMA BillKeepsEntries ==
    ASSUME EarnAssumption, EarnInv, NEW s \in EarnSales, Bill(s)
    PROVE  EarnInv'
<1>1. PICK upTo \in 0..SaleLines : billed' = billed \cup {s}
                                   /\ entries' = entries \cup Earned(Sale, s, upTo)
  BY DEF Bill
<1>2. s \notin billed /\ fill' = fill /\ returned' = returned
  BY DEF Bill
<1>3. EarnTypeOK'
  BY <1>1, <1>2, EarnedAreEntries DEF EarnInv, EarnTypeOK
<1>4. \A e \in entries' \ entries : /\ e.writer = Sale /\ e.sale = s
                                    /\ e.writer \notin Backfills \cup EarnReturns
  BY <1>1, EntryFields, EarnAssumption DEF Sale
<1>5. \A e \in entries : e.sale # s
  BY <1>2 DEF EarnInv
<1>6. \A r \in EarnSales, f \in Backfills : EarnedBy(f, r)' = EarnedBy(f, r)
  BY <1>1, <1>4 DEF EarnedBy
<1>7. \A r \in EarnSales \ {s} : EarnedBy(Sale, r)' = EarnedBy(Sale, r)
  BY <1>1, <1>4 DEF EarnedBy
<1>8. \A e, n \in entries' : e.writer = n.writer /\ e.sale = n.sale /\ e.line = n.line => e = n
  <2>1. \A x \in entries' \ entries : x.writer = Sale /\ x.sale \in {s} /\ x = Entry(Sale, x.sale, x.line)
    BY <1>1, EntryFields
  <2>2. \A e \in entries : e.writer = Sale => e.sale \notin {s}
    BY <1>5
  <2> QED BY <2>1, <2>2, NewEntriesRepeatNothing
<1>9. \A f \in Backfills : s \notin fill[f].bills /\ EarnedBy(f, s) = {}
  BY <1>2 DEF EarnInv, EarnedOnce
<1>10. EarnedOnce'
  <2>1. ASSUME NEW r \in EarnSales, NEW f \in Backfills, EarnedBy(f, r)' # {}
        PROVE  EarnedBy(Sale, r)' = {} /\ r \in billed' /\ r \in fill'[f].bills \ fill'[f].paired
    BY <2>1, <1>1, <1>2, <1>6, <1>7, <1>9 DEF EarnInv, EarnedOnce
  <2>2. \A e \in entries' : e.writer \in EarnReturns =>
           [note |-> e.writer, sale |-> e.sale, line |-> e.line] \in returned'
    BY <1>2, <1>4 DEF EarnInv, EarnedOnce
  <2> QED BY <2>1, <2>2, <1>8 DEF EarnedOnce
<1>11. \A e \in entries' : e.sale \in billed'
  BY <1>1, <1>4 DEF EarnInv
<1>12. \A f \in Backfills : /\ fill'[f].bills \subseteq billed'
                            /\ fill'[f].phase # "done" => \A e \in entries' : e.writer # f
  BY <1>1, <1>2, <1>4 DEF EarnInv
<1>13. \A f \in Backfills : \A r \in fill'[f].bills \ fill'[f].paired : EarnedBy(Sale, r)' = {}
  BY <1>2, <1>7, <1>9 DEF EarnInv, EarnTypeOK, Fills
<1> QED BY <1>3, <1>10, <1>11, <1>12, <1>13 DEF EarnInv

LEMMA ClawBackKeepsEntries ==
    ASSUME EarnAssumption, EarnInv, NEW n \in EarnReturns, NEW s \in EarnSales,
           NEW some \in SUBSET LinesOf, ClawBack(n, s, some)
    PROVE  EarnInv'
<1> DEFINE news == {Entry(n, s, line) : line \in some}
           back == {[note |-> n, sale |-> s, line |-> line] : line \in some}
<1>1. /\ entries' = entries \cup news /\ returned' = returned \cup back
      /\ UNCHANGED <<billed, fill>>
      /\ s \in billed /\ \A r \in returned : r.note # n
  BY DEF ClawBack, BringsBack
<1>2. \A x \in news : /\ x.writer = n /\ x.sale = s /\ x = Entry(n, s, x.line) /\ x.line \in some
                      /\ x \in Entries
  BY DEF Entry, Entries
<1>3. back \subseteq [note : EarnReturns, sale : EarnSales, line : LinesOf]
  OBVIOUS
<1>4. \A x \in news : [note |-> n, sale |-> s, line |-> x.line] \in back
  BY <1>2
<1> HIDE DEF news, back
<1>5. EarnTypeOK'
  BY <1>1, <1>2, <1>3 DEF EarnInv, EarnTypeOK
<1>6. n # Sale /\ n \notin Backfills
  BY EarnAssumption DEF Sale
<1>7. \A e \in entries' \ entries : e \in news
  BY <1>1
<1>8. \A e \in entries : e.writer # n
  <2> SUFFICES ASSUME NEW e \in entries, e.writer = n PROVE FALSE
    OBVIOUS
  <2>1. [note |-> e.writer, sale |-> e.sale, line |-> e.line] \in returned
    BY DEF EarnInv, EarnedOnce
  <2> QED BY <1>1, <2>1
<1>9. \A r \in EarnSales, w \in {Sale} \cup Backfills : EarnedBy(w, r)' = EarnedBy(w, r)
  BY <1>1, <1>2, <1>6, <1>7 DEF EarnedBy
<1>10. \A e, x \in entries' : e.writer = x.writer /\ e.sale = x.sale /\ e.line = x.line => e = x
  <2>1. \A x \in entries' \ entries : x.writer = n /\ x.sale \in {s} /\ x = Entry(n, x.sale, x.line)
    BY <1>2, <1>7
  <2>2. \A e \in entries : e.writer = n => e.sale \notin {s}
    BY <1>8
  <2> QED BY <2>1, <2>2, NewEntriesRepeatNothing
<1>11. \A e \in entries' : e.writer \in EarnReturns =>
          [note |-> e.writer, sale |-> e.sale, line |-> e.line] \in returned'
  BY <1>1, <1>2, <1>4, <1>7 DEF EarnInv, EarnedOnce
<1>12. EarnedOnce'
  BY <1>1, <1>9, <1>10, <1>11 DEF EarnInv, EarnedOnce
<1>13. \A e \in entries' : e.sale \in billed'
  BY <1>1, <1>2, <1>7 DEF EarnInv
<1>14. \A f \in Backfills : /\ fill'[f].bills \subseteq billed'
                            /\ fill'[f].phase # "done" => \A e \in entries' : e.writer # f
  BY <1>1, <1>2, <1>6, <1>7 DEF EarnInv
<1>15. \A f \in Backfills : \A r \in fill'[f].bills \ fill'[f].paired : EarnedBy(Sale, r)' = {}
  BY <1>1, <1>9 DEF EarnInv, EarnTypeOK, Fills
<1> QED BY <1>5, <1>12, <1>13, <1>14, <1>15 DEF EarnInv

LEMMA ReleaseDraftKeepsEntries ==
    ASSUME EarnInv, NEW n \in EarnReturns, NEW s \in EarnSales,
           NEW some \in SUBSET LinesOf, ReleaseDraft(n, s, some)
    PROVE  EarnInv'
<1>1. /\ UNCHANGED <<billed, entries, fill>> /\ returned \subseteq returned'
      /\ returned' \subseteq returned \cup [note : EarnReturns, sale : EarnSales, line : LinesOf]
  BY DEF ReleaseDraft, BringsBack
<1>2. EarnTypeOK'
  BY <1>1 DEF EarnInv, EarnTypeOK
<1>3. \A w, r : EarnedBy(w, r)' = EarnedBy(w, r)
  BY <1>1 DEF EarnedBy
<1>4. EarnedOnce'
  BY <1>1, <1>3 DEF EarnInv, EarnedOnce
<1> QED BY <1>1, <1>2, <1>3, <1>4 DEF EarnInv

LEMMA BackfillReadsKeepsEntries ==
    ASSUME EarnAssumption, EarnInv, NEW f \in Backfills, BackfillReads(f)
    PROVE  EarnInv'
<1> DEFINE look == [phase |-> "read", bills |-> billed, paired |-> Paired]
<1>1. fill' = [fill EXCEPT ![f] = look] /\ UNCHANGED <<billed, returned, entries>> /\ fill[f].phase = "new"
  BY DEF BackfillReads
<1>2. look \in Fills /\ look.phase = "read" /\ look.bills = billed /\ look.paired = Paired
  BY DEF Fills, Paired, EarnInv, EarnTypeOK
<1> HIDE DEF look
<1>3. \A g \in Backfills : fill'[g] = IF g = f THEN look ELSE fill[g]
  BY <1>1 DEF EarnInv, EarnTypeOK
<1>4. EarnTypeOK'
  BY <1>1, <1>2 DEF EarnInv, EarnTypeOK
<1>5. \A w, s : EarnedBy(w, s)' = EarnedBy(w, s)
  BY <1>1 DEF EarnedBy
<1>6. \A s : EarnedBy(f, s) = {}
  BY <1>1 DEF EarnInv, EarnedBy
<1>7. \A s \in billed \ Paired : EarnedBy(Sale, s) = {}
  BY DEF Paired, EarnedBy, EntriesOf
<1>8. EarnedOnce'
  BY <1>1, <1>3, <1>5, <1>6 DEF EarnInv, EarnedOnce
<1> QED BY <1>1, <1>2, <1>3, <1>4, <1>5, <1>7, <1>8 DEF EarnInv

LEMMA BackfillWritesKeepsEntries ==
    ASSUME EarnAssumption, EarnInv, NEW f \in Backfills, BackfillWrites(f)
    PROVE  EarnInv'
<1>1. PICK upTo \in [Missing(f) -> 0..SaleLines] :
        entries' = entries \cup UNION {Earned(f, s, upTo[s]) : s \in Missing(f)}
  BY DEF BackfillWrites
<1>2. /\ fill[f].phase = "read" /\ fill' = [fill EXCEPT ![f].phase = "done"]
      /\ UNCHANGED <<billed, returned>>
  BY DEF BackfillWrites
<1>3. fill \in [Backfills -> Fills] /\ fill[f] \in Fills
  BY DEF EarnInv, EarnTypeOK
<1>4. /\ \A g \in Backfills : fill'[g].bills = fill[g].bills /\ fill'[g].paired = fill[g].paired
      /\ \A g \in Backfills : g # f => fill'[g].phase = fill[g].phase
      /\ fill'[f].phase = "done" /\ fill' \in [Backfills -> Fills]
  BY <1>2, <1>3 DEF Fills
<1>5. Missing(f) \subseteq EarnSales /\ Missing(f) \subseteq billed
  BY <1>3 DEF EarnInv, Missing, Fills
<1>6. EarnTypeOK'
  <2>1. \A s \in Missing(f) : Earned(f, s, upTo[s]) \subseteq Entries
    BY <1>5, EarnedAreEntries
  <2> QED BY <1>1, <1>2, <1>4, <2>1 DEF EarnInv, EarnTypeOK
<1>7. \A e \in entries' \ entries : e.writer = f /\ e.sale \in Missing(f) /\ e.writer \notin {Sale} \cup EarnReturns
  <2>1. f \notin {Sale} \cup EarnReturns
    BY EarnAssumption DEF Sale
  <2>2. \A e \in entries' \ entries : e.writer = f /\ e.sale \in Missing(f)
    BY <1>1, EntryFields
  <2> QED BY <2>1, <2>2
<1>8. \A e \in entries : e.writer # f
  BY <1>2 DEF EarnInv
<1>9. \A e, n \in entries' : e.writer = n.writer /\ e.sale = n.sale /\ e.line = n.line => e = n
  <2>1. \A x \in entries' \ entries : x.writer = f /\ x.sale \in Missing(f) /\ x = Entry(f, x.sale, x.line)
    BY <1>1, EntryFields
  <2>2. \A e \in entries : e.writer = f => e.sale \notin Missing(f)
    BY <1>8
  <2> QED BY <2>1, <2>2, NewEntriesRepeatNothing
<1>10. \A s, w : w # f => EarnedBy(w, s)' = EarnedBy(w, s)
  BY <1>1, <1>7 DEF EarnedBy
<1>11. \A s : EarnedBy(f, s)' # {} => s \in Missing(f)
  BY <1>7, <1>8 DEF EarnedBy
<1>12. Sale # f
  BY EarnAssumption DEF Sale
<1>13. \A s \in Missing(f) : EarnedBy(Sale, s) = {} /\ s \in fill[f].bills \ fill[f].paired
  BY DEF EarnInv, Missing
<1>14. EarnedOnce'
  <2>1. ASSUME NEW r \in EarnSales, NEW g \in Backfills, EarnedBy(g, r)' # {}
        PROVE  EarnedBy(Sale, r)' = {} /\ r \in billed' /\ r \in fill'[g].bills \ fill'[g].paired
    <3>1. CASE g = f
      BY <2>1, <3>1, <1>2, <1>4, <1>5, <1>10, <1>11, <1>12, <1>13
    <3>2. CASE g # f
      BY <2>1, <3>2, <1>2, <1>4, <1>10, <1>12 DEF EarnInv, EarnedOnce
    <3> QED BY <3>1, <3>2
  <2>2. \A e \in entries' : e.writer \in EarnReturns =>
           [note |-> e.writer, sale |-> e.sale, line |-> e.line] \in returned'
    BY <1>2, <1>7 DEF EarnInv, EarnedOnce
  <2> QED BY <2>1, <2>2, <1>9 DEF EarnedOnce
<1>15. \A e \in entries' : e.sale \in billed'
  BY <1>1, <1>2, <1>5, <1>7 DEF EarnInv
<1>16. \A g \in Backfills : /\ fill'[g].bills \subseteq billed'
                            /\ fill'[g].phase # "done" => \A e \in entries' : e.writer # g
  BY <1>1, <1>2, <1>4, <1>7 DEF EarnInv
<1>17. \A g \in Backfills : \A r \in fill'[g].bills \ fill'[g].paired : EarnedBy(Sale, r)' = {}
  BY <1>4, <1>10, <1>12 DEF EarnInv
<1> QED BY <1>6, <1>14, <1>15, <1>16, <1>17 DEF EarnInv

\* Another status, the same line.
LEMMA MoveKeepsEntries ==
    ASSUME EarnAssumption, EarnInv, NEW e \in entries,
           NEW new \in {"Approved", "Paid", "Cancelled", "Pending"}, Move(e, new)
    PROVE  EarnInv'
<1> DEFINE x == [e EXCEPT !.status = new]
<1>1. entries' = (entries \ {e}) \cup {x} /\ UNCHANGED <<billed, returned, fill>>
  BY DEF Move
<1>2. e \in Entries /\ x \in Entries /\ x.writer = e.writer /\ x.sale = e.sale /\ x.line = e.line
  BY DEF EarnInv, EarnTypeOK, Entries
<1> HIDE DEF x
<1>3. EarnTypeOK'
  BY <1>1, <1>2 DEF EarnInv, EarnTypeOK
<1>4. \A w, s : EarnedBy(w, s)' = {} <=> EarnedBy(w, s) = {}
  BY <1>1, <1>2 DEF EarnedBy
<1>5. \A n, m \in entries' : n.writer = m.writer /\ n.sale = m.sale /\ n.line = m.line => n = m
  BY <1>1, <1>2 DEF EarnInv, EarnedOnce
<1>6. \A n \in entries' : n.writer \in EarnReturns =>
          [note |-> n.writer, sale |-> n.sale, line |-> n.line] \in returned'
  BY <1>1, <1>2 DEF EarnInv, EarnedOnce
<1>7. EarnedOnce'
  BY <1>1, <1>4, <1>5, <1>6 DEF EarnInv, EarnedOnce
<1> QED BY <1>1, <1>2, <1>3, <1>4, <1>7 DEF EarnInv

LEMMA EarnStarts == EarnInit => EarnInv
<1> SUFFICES ASSUME EarnInit PROVE EarnInv
  OBVIOUS
<1>1. NoFill \in Fills /\ NoFill.bills = {} /\ NoFill.phase = "new"
  BY DEF NoFill, Fills
<1>2. EarnTypeOK
  BY <1>1 DEF EarnInit, EarnTypeOK
<1>3. \A w, s : EarnedBy(w, s) = {}
  BY DEF EarnInit, EarnedBy
<1>4. EarnedOnce
  BY <1>3 DEF EarnInit, EarnedOnce
<1> QED BY <1>1, <1>2, <1>3, <1>4 DEF EarnInit, EarnInv

LEMMA EarnSteps == EarnInv /\ [EarnNext]_earnVars => EarnInv'
<1> SUFFICES ASSUME EarnInv, [EarnNext]_earnVars PROVE EarnInv'
  OBVIOUS
<1>1. CASE UNCHANGED earnVars
  BY <1>1 DEF earnVars, EarnInv, EarnTypeOK, EarnedOnce, EarnedBy
<1> QED BY <1>1, EarnAssumption, BillKeepsEntries, ClawBackKeepsEntries, ReleaseDraftKeepsEntries,
           BackfillReadsKeepsEntries, BackfillWritesKeepsEntries, MoveKeepsEntries DEF EarnNext

-----------------------------------------------------------------------------
(* The monthly bonus                                                       *)

\* A month has no award, or one, of an offer it had.
BonusInv ==
    /\ month \in Months /\ cronDue \in BOOLEAN
    /\ offers \in [Months -> 0..MaxOffers]
    /\ DOMAIN awards = Months
    /\ \A m \in Months : awards[m] = <<>> \/ \E n \in 1..offers[m] : awards[m] = <<n>>

LEMMA BonusStarts == BonusInit => BonusInv
<1>1. 1 \in Months /\ 0 \in 0..MaxOffers
  BY BonusAssumption DEF Months
<1> QED BY <1>1 DEF BonusInit, BonusInv

LEMMA BonusInvSays == BonusInv => BonusTypeOK /\ OneBonusAMonth
<1> SUFFICES ASSUME BonusInv PROVE BonusTypeOK /\ OneBonusAMonth
  OBVIOUS
<1>1. ASSUME NEW m \in Months
      PROVE  /\ awards[m] \in Seq(1..MaxOffers)
             /\ awards[m] # <<>> => Len(awards[m]) = 1 /\ awards[m][1] <= offers[m]
  <2>1. CASE awards[m] = <<>>
    BY <2>1
  <2>2. ASSUME NEW n \in 1..offers[m], awards[m] = <<n>>
        PROVE  /\ awards[m] \in Seq(1..MaxOffers)
               /\ Len(awards[m]) = 1 /\ awards[m][1] <= offers[m]
    <3>1. n \in 1..MaxOffers /\ n <= offers[m]
      BY BonusAssumption DEF BonusInv
    <3> QED BY <2>2, <3>1
  <2> QED BY <2>1, <2>2 DEF BonusInv
<1> QED BY <1>1 DEF BonusInv, BonusTypeOK, OneBonusAMonth

LEMMA CalculateKeepsBonus ==
    ASSUME BonusInv, CalculateBonus, UNCHANGED <<month, offers>>, cronDue' \in BOOLEAN
    PROVE  BonusInv'
<1>1. CASE Awarded(month)
  <2>1. awards' = [awards EXCEPT ![month] = Append(awards[month], offers[month])]
    BY <1>1 DEF CalculateBonus, PayoutMonth
  <2>2. awards[month] = <<>> /\ offers[month] \in 1..offers[month]
    BY <1>1, BonusAssumption DEF Awarded, BonusInv
  <2>3. Append(awards[month], offers[month]) = <<offers[month]>>
    BY <2>2
  <2>4. /\ DOMAIN awards' = Months
        /\ \A m \in Months : awards'[m] = IF m = month THEN <<offers[month]>> ELSE awards[m]
    BY <2>1, <2>3 DEF BonusInv
  <2> QED BY <2>2, <2>4 DEF BonusInv
<1>2. CASE ~Awarded(month)
  BY <1>2 DEF CalculateBonus, PayoutMonth, BonusInv
<1> QED BY <1>1, <1>2

LEMMA BonusSteps == BonusInv /\ [BonusNext]_bonusVars => BonusInv'
<1> SUFFICES ASSUME BonusInv, [BonusNext]_bonusVars PROVE BonusInv'
  OBVIOUS
<1>1. CASE UNCHANGED bonusVars
  BY <1>1 DEF bonusVars, BonusInv
<1>2. CASE LogOffer
  <2>1. /\ month \in Months /\ offers[month] \in 0..MaxOffers /\ offers[month] < MaxOffers
        /\ offers' = [offers EXCEPT ![month] = offers[month] + 1]
        /\ UNCHANGED <<month, cronDue, awards>>
    BY <1>2 DEF LogOffer, BonusInv
  <2>2. offers[month] + 1 \in 0..MaxOffers /\ 1..offers[month] \subseteq 1..(offers[month] + 1)
    BY <2>1, BonusAssumption
  <2>3. /\ offers' \in [Months -> 0..MaxOffers]
        /\ \A m \in Months : 1..offers[m] \subseteq 1..offers'[m]
    BY <2>1, <2>2 DEF BonusInv
  <2> QED BY <2>1, <2>3 DEF BonusInv
<1>3. CASE NewMonth
  <2>1. month' \in Months
    BY <1>3, BonusAssumption DEF NewMonth, BonusInv, Months
  <2> QED BY <1>3, <2>1 DEF NewMonth, BonusInv
<1>4. CASE RunOnSchedule
  BY <1>4, CalculateKeepsBonus DEF RunOnSchedule
<1>5. CASE RunByHand
  BY <1>5, CalculateKeepsBonus DEF RunByHand, BonusInv
<1> QED BY <1>1, <1>2, <1>3, <1>4, <1>5 DEF BonusNext

-----------------------------------------------------------------------------
(* Receipts of an order                                                    *)

\* A draft is begun only where there is no GRN, so what one saw is nothing.
GrnInv ==
    /\ GrnTypeOK
    /\ \A r \in Receipts : /\ receipt[r].seen = {}
                           /\ receipt[r].state \in {"none", "reading"} => ~receipt[r].generated
    /\ ~overlapped => \A r, q \in Grns : r = q
    /\ \A r, q \in Receipts : receipt[r].state = "submitted" /\ receipt[q].state = "submitted" => r = q
    /\ \A r \in Receipts :
         (receipt[r].state = "draft" /\ receipt[r].generated) \/ receipt[r].state = "submitted"
             => Generated(receipt[r].serials)

LEMMA NoReceiptIsEmpty ==
    /\ NoReceipt \in ReceiptRows /\ NoReceipt.state = "none" /\ NoReceipt.seen = {}
    /\ ~NoReceipt.generated
  BY DEF NoReceipt, ReceiptRows, ReceiptStates

LEMMA GrnStarts == GrnInit => GrnInv
  BY NoReceiptIsEmpty DEF GrnInit, GrnInv, GrnTypeOK, Grns

LEMMA FillKeeps ==
    ASSUME GrnInv, NEW r \in Receipts, NEW S \in SUBSET ImeiUnits, NEW g \in BOOLEAN,
           g => Generated(S), Fill(r, S, g)
    PROVE  GrnInv'
<1> DEFINE x == [receipt[r] EXCEPT !.serials = S, !.generated = g]
<1>1. receipt[r] \in ReceiptRows /\ receipt \in [Receipts -> ReceiptRows]
  BY DEF GrnInv, GrnTypeOK
<1>2. x \in ReceiptRows /\ x.serials = S /\ x.generated = g /\ x.state = "draft" /\ x.seen = {}
  BY <1>1 DEF Fill, GrnInv, ReceiptRows
<1>3. receipt' = [receipt EXCEPT ![r] = x] /\ UNCHANGED <<onBooks, overlapped>>
  BY <1>1 DEF Fill, ReceiptRows
<1> HIDE DEF x
<1>4. \A q \in Receipts : receipt'[q] = IF q = r THEN x ELSE receipt[q]
  BY <1>1, <1>3
<1>5. GrnTypeOK'
  BY <1>1, <1>2, <1>3 DEF GrnInv, GrnTypeOK
<1>6. \A q \in Receipts : receipt'[q].state = receipt[q].state
  BY <1>2, <1>4 DEF Fill
<1>7. Grns' = Grns
  BY <1>6 DEF Grns
<1> QED BY <1>2, <1>3, <1>4, <1>5, <1>6, <1>7 DEF GrnInv

\* A receipt that changes its state and nothing else.
LEMMA ReceiptMoves ==
    ASSUME GrnInv, NEW r \in Receipts, NEW new \in ReceiptStates,
           receipt' = [receipt EXCEPT ![r].state = new]
    PROVE  /\ receipt' \in [Receipts -> ReceiptRows]
           /\ receipt'[r].state = new
           /\ \A q \in Receipts : q # r => receipt'[q] = receipt[q]
           /\ \A q \in Receipts : /\ receipt'[q].serials = receipt[q].serials
                                  /\ receipt'[q].generated = receipt[q].generated
                                  /\ receipt'[q].seen = receipt[q].seen
  BY DEF GrnInv, GrnTypeOK, ReceiptRows

LEMMA GrnSteps == GrnInv /\ [GrnNext]_grnVars => GrnInv'
<1> SUFFICES ASSUME GrnInv, [GrnNext]_grnVars PROVE GrnInv'
  OBVIOUS
<1>0. /\ receipt \in [Receipts -> ReceiptRows] /\ onBooks \subseteq ImeiUnits
      /\ \A r \in Receipts : receipt[r] \in ReceiptRows /\ receipt[r].serials \subseteq ImeiUnits
  BY DEF GrnInv, GrnTypeOK, ReceiptRows
<1>1. CASE UNCHANGED grnVars
  BY <1>1 DEF grnVars, GrnInv, GrnTypeOK, Grns
<1>2. ASSUME NEW r \in Receipts, BeginReceipt(r) PROVE GrnInv'
  <2> DEFINE x == [receipt[r] EXCEPT !.state = "reading", !.seen = {}]
  <2>1. Grns = {} /\ receipt[r].state = "none" /\ UNCHANGED <<onBooks, overlapped>>
    BY <1>2 DEF BeginReceipt
  <2>2. receipt' = [receipt EXCEPT ![r] = x]
    BY <1>0, <1>2, <2>1 DEF BeginReceipt, ReceiptRows
  <2>3. /\ x \in ReceiptRows /\ x.state = "reading" /\ x.seen = {}
        /\ x.generated = receipt[r].generated
    <3>1. receipt[r] \in ReceiptRows
      BY <1>0
    <3> QED BY <3>1 DEF ReceiptRows, ReceiptStates
  <2>7. ~receipt[r].generated
    BY <2>1 DEF GrnInv
  <2> HIDE DEF x
  <2>4. \A q \in Receipts : receipt'[q] = IF q = r THEN x ELSE receipt[q]
    BY <1>0, <2>2
  <2>5. GrnTypeOK'
    BY <1>0, <2>1, <2>2, <2>3 DEF GrnInv, GrnTypeOK
  <2>6. Grns' = {}
    BY <2>1, <2>3, <2>4 DEF Grns
  <2> QED BY <2>3, <2>4, <2>5, <2>6, <2>7 DEF GrnInv
<1>3. ASSUME NEW r \in Receipts, InsertReceipt(r) PROVE GrnInv'
  <2> DEFINE x == [receipt[r] EXCEPT !.state = "draft", !.seen = {}]
  <2>1. /\ receipt[r].state = "reading" /\ onBooks' = onBooks
        /\ overlapped' = (overlapped \/ ~ (Grns \subseteq receipt[r].seen))
    BY <1>3 DEF InsertReceipt
  <2>2. receipt' = [receipt EXCEPT ![r] = x]
    BY <1>0, <1>3 DEF InsertReceipt, ReceiptRows
  <2>3. /\ x \in ReceiptRows /\ x.state = "draft" /\ x.seen = {}
        /\ x.serials = receipt[r].serials /\ x.generated = receipt[r].generated
    <3>1. receipt[r] \in ReceiptRows
      BY <1>0
    <3> QED BY <3>1 DEF ReceiptRows, ReceiptStates
  <2> HIDE DEF x
  <2>4. \A q \in Receipts : receipt'[q] = IF q = r THEN x ELSE receipt[q]
    BY <1>0, <2>2
  <2>5. GrnTypeOK'
    BY <1>0, <2>1, <2>2, <2>3 DEF GrnInv, GrnTypeOK
  <2>6. Grns' = Grns \cup {r}
    BY <2>3, <2>4 DEF Grns
  <2>7. ~overlapped' => Grns = {}
    BY <2>1 DEF GrnInv
  <2>8. ~receipt[r].generated
    BY <2>1 DEF GrnInv
  <2> QED BY <2>1, <2>3, <2>4, <2>5, <2>6, <2>7, <2>8 DEF GrnInv
<1>4. ASSUME NEW r \in Receipts, SubmitReceipt(r) PROVE GrnInv'
  <2>1. /\ receipt[r].state = "draft" /\ receipt[r].generated /\ overlapped' = overlapped
        /\ receipt' = [receipt EXCEPT ![r].state = "submitted"]
        /\ onBooks' = onBooks \cup receipt[r].serials
        /\ \A q \in Receipts : receipt[q].state # "submitted"
    BY <1>4 DEF SubmitReceipt, Receivable
  <2>2. "submitted" \in ReceiptStates
    BY DEF ReceiptStates
  <2>3. /\ receipt' \in [Receipts -> ReceiptRows] /\ receipt'[r].state = "submitted"
        /\ \A q \in Receipts : q # r => receipt'[q] = receipt[q]
        /\ \A q \in Receipts : /\ receipt'[q].serials = receipt[q].serials
                               /\ receipt'[q].generated = receipt[q].generated
                               /\ receipt'[q].seen = receipt[q].seen
    BY <2>1, <2>2, ReceiptMoves
  <2>4. Grns' = Grns
    BY <2>1, <2>3 DEF Grns
  <2>5. GrnTypeOK'
    BY <1>0, <2>1, <2>3 DEF GrnInv, GrnTypeOK
  <2>6. ~overlapped' => \A p, q \in Grns' : p = q
    BY <2>1, <2>4 DEF GrnInv
  <2>7. \A p, q \in Receipts : receipt'[p].state = "submitted" /\ receipt'[q].state = "submitted" => p = q
    BY <2>1, <2>3 DEF GrnInv
  <2>8. \A q \in Receipts : /\ receipt'[q].seen = {}
                            /\ receipt'[q].state \in {"none", "reading"} => ~receipt'[q].generated
    BY <2>3 DEF GrnInv
  <2>9. \A q \in Receipts :
         (receipt'[q].state = "draft" /\ receipt'[q].generated) \/ receipt'[q].state = "submitted"
             => Generated(receipt'[q].serials)
    BY <2>1, <2>3 DEF GrnInv
  <2> QED BY <2>5, <2>6, <2>7, <2>8, <2>9 DEF GrnInv
<1>5. ASSUME NEW r \in Receipts, CancelReceipt(r) PROVE GrnInv'
  <2>1. /\ receipt[r].state = "submitted" /\ overlapped' = overlapped
        /\ receipt' = [receipt EXCEPT ![r].state = "cancelled"]
        /\ onBooks' = onBooks \ receipt[r].serials
    BY <1>5 DEF CancelReceipt
  <2>2. "cancelled" \in ReceiptStates
    BY DEF ReceiptStates
  <2>3. /\ receipt' \in [Receipts -> ReceiptRows] /\ receipt'[r].state = "cancelled"
        /\ \A q \in Receipts : q # r => receipt'[q] = receipt[q]
        /\ \A q \in Receipts : /\ receipt'[q].serials = receipt[q].serials
                               /\ receipt'[q].generated = receipt[q].generated
                               /\ receipt'[q].seen = receipt[q].seen
    BY <2>1, <2>2, ReceiptMoves
  <2>4. Grns' \subseteq Grns
    BY <2>1, <2>3 DEF Grns
  <2>5. GrnTypeOK'
    BY <1>0, <2>1, <2>3 DEF GrnInv, GrnTypeOK
  <2>6. ~overlapped' => \A p, q \in Grns' : p = q
    BY <2>1, <2>4 DEF GrnInv
  <2>7. \A p, q \in Receipts : receipt'[p].state = "submitted" /\ receipt'[q].state = "submitted" => p = q
    BY <2>1, <2>3 DEF GrnInv
  <2>8. \A q \in Receipts : /\ receipt'[q].seen = {}
                            /\ receipt'[q].state \in {"none", "reading"} => ~receipt'[q].generated
    BY <2>3 DEF GrnInv
  <2>9. \A q \in Receipts :
         (receipt'[q].state = "draft" /\ receipt'[q].generated) \/ receipt'[q].state = "submitted"
             => Generated(receipt'[q].serials)
    BY <2>1, <2>3 DEF GrnInv
  <2> QED BY <2>5, <2>6, <2>7, <2>8, <2>9 DEF GrnInv
<1>6. ASSUME NEW r \in Receipts, DeleteDraft(r) PROVE GrnInv'
  <2>1. receipt' = [receipt EXCEPT ![r] = NoReceipt] /\ UNCHANGED <<onBooks, overlapped>>
    BY <1>6 DEF DeleteDraft
  <2>2. NoReceipt \in ReceiptRows /\ NoReceipt.state = "none" /\ NoReceipt.seen = {} /\ ~NoReceipt.generated
    BY NoReceiptIsEmpty
  <2>3. \A q \in Receipts : receipt'[q] = IF q = r THEN NoReceipt ELSE receipt[q]
    BY <1>0, <2>1
  <2>4. GrnTypeOK'
    BY <1>0, <2>1, <2>2 DEF GrnInv, GrnTypeOK
  <2>5. Grns' \subseteq Grns
    BY <2>2, <2>3 DEF Grns
  <2> QED BY <2>1, <2>2, <2>3, <2>4, <2>5 DEF GrnInv
<1>7. ASSUME NEW r \in Receipts, NEW S \in SUBSET ImeiUnits, SetImeis(r, S) PROVE GrnInv'
  <2>1. Generated(S) \in BOOLEAN
    BY DEF Generated
  <2> QED BY <1>7, <2>1, FillKeeps DEF SetImeis
<1>8. ASSUME NEW r \in Receipts, NEW S \in SUBSET ImeiUnits, GenerateBarcodes(r, S) PROVE GrnInv'
  BY <1>8, FillKeeps DEF GenerateBarcodes
<1>9. ASSUME NEW u \in ImeiUnits, Arrive(u) \/ Deliver(u) PROVE GrnInv'
  <2>1. UNCHANGED <<receipt, overlapped>> /\ onBooks' \subseteq ImeiUnits
    BY <1>0, <1>9 DEF Arrive, Deliver
  <2> QED BY <2>1 DEF GrnInv, GrnTypeOK, Grns
<1> QED BY <1>1, <1>2, <1>3, <1>4, <1>5, <1>6, <1>7, <1>8, <1>9 DEF GrnNext

LEMMA GrnInvSays == GrnInv => ReceivedAsOrdered
<1> SUFFICES ASSUME GrnInv PROVE ReceivedAsOrdered
  OBVIOUS
<1> DEFINE sub == {r \in Receipts : receipt[r].state = "submitted"}
<1>1. \A x, y \in sub : x = y
  BY DEF GrnInv
<1>2. Cardinality(sub) <= 1
  BY <1>1, NoneOrOne
<1>3. ReceivedOnce
  BY <1>2 DEF ReceivedOnce
<1>4. OneReceiptUnlessOverlapped
  <2> SUFFICES ASSUME ~overlapped PROVE ~(Cardinality(Grns) > 1)
    BY DEF OneReceiptUnlessOverlapped
  <2>1. Cardinality(Grns) <= 1 /\ Cardinality(Grns) \in Int
    <3>1. \A x, y \in Grns : x = y
      BY DEF GrnInv
    <3>2. CASE Grns = {}
      BY <3>2, FS_EmptySet
    <3>3. ASSUME NEW x, Grns = {x} PROVE Cardinality(Grns) = 1
      BY <3>3, FS_Singleton
    <3>4. Grns = {} \/ \E x : Grns = {x}
      BY <3>1
    <3> QED BY <3>2, <3>3, <3>4
  <2> QED BY <2>1
<1>5. SubmittedIsComplete
  BY DEF GrnInv, SubmittedIsComplete, Generated
<1> QED BY <1>3, <1>4, <1>5 DEF ReceivedAsOrdered

-----------------------------------------------------------------------------
(* The book of customers                                                   *)

\* A request edits one customer that exists.
VisitsAreOfClients ==
    \A r \in BookRequests : visit[r].kind \in Updates =>
        \A c \in visit[r].who : visit[r].who = {c} /\ client[c].ever

\* What is about to make a billing address has a copy that is current only
\* while there is none.
BillingIsMissing ==
    \A r \in BookRequests, c \in Clients :
        visit[r].kind = "billing" /\ visit[r].who = {c} /\ ~visit[r].has /\ ~visit[r].stale
        => client[c].billing = 0

\* Whoever got the number while a request for it was under way is known to it.
LateOnesAreKnown ==
    \A r \in BookRequests, d \in Clients :
        visit[r].kind = "create" /\ client[d].live /\ client[d].mobile = visit[r].mobile
        => d \in visit[r].late

BookInv ==
    /\ BookTypeOK
    /\ ConfirmedEmailStays
    /\ DuplicatesOverlapped
    /\ OneBillingAddress
    /\ \A c \in Clients : ~client[c].ever => ~client[c].live /\ said[c] = Blank
    /\ VisitsAreOfClients
    /\ BillingIsMissing
    /\ LateOnesAreKnown

LEMMA NoVisitFacts ==
    NoVisit \in Visits /\ NoVisit.kind = "idle" /\ NoVisit.kind \notin Updates
  BY DEF NoVisit, Visits, Updates, Number, Mail

LEMMA NoClientFacts ==
    NoClient \in ClientRows /\ ~NoClient.ever /\ ~NoClient.live /\ NoClient.billing = 0
  BY DEF NoClient, ClientRows, Number, Mail

LEMMA BookFacts ==
    ASSUME BookInv
    PROVE  /\ client \in [Clients -> ClientRows] /\ visit \in [BookRequests -> Visits]
           /\ said \in [Clients -> Mail] /\ asked \in 0..MaxAsked
           /\ \A c \in Clients : client[c] \in ClientRows
           /\ \A r \in BookRequests : visit[r] \in Visits
  BY DEF BookInv, BookTypeOK

LEMMA SavedFacts ==
    ASSUME NEW v \in [BookRequests -> Visits], NEW c \in Clients
    PROVE  /\ Saved(v, c) \in [BookRequests -> Visits]
           /\ \A q \in BookRequests :
                /\ Saved(v, c)[q].kind = v[q].kind /\ Saved(v, c)[q].who = v[q].who
                /\ Saved(v, c)[q].mobile = v[q].mobile /\ Saved(v, c)[q].late = v[q].late
                /\ Saved(v, c)[q].has = v[q].has
                /\ v[q].stale => Saved(v, c)[q].stale
                /\ v[q].kind \in Updates /\ v[q].who = {c} => Saved(v, c)[q].stale
<1> DEFINE z(q) == [v[q] EXCEPT !.stale = TRUE]
<1>1. ASSUME NEW q \in BookRequests
      PROVE  /\ z(q) \in Visits /\ z(q).stale
             /\ z(q).kind = v[q].kind /\ z(q).who = v[q].who
             /\ z(q).mobile = v[q].mobile /\ z(q).late = v[q].late /\ z(q).has = v[q].has
  BY DEF Visits
<1>2. Saved(v, c) = [q \in BookRequests |->
                      IF v[q].kind \in Updates /\ v[q].who = {c} THEN z(q) ELSE v[q]]
  BY DEF Saved
<1> HIDE DEF z
<1> QED BY <1>1, <1>2

\* What a request may see of a save of customer c that leaves it billing
\* addresses b.
Follows(q, c, b) ==
    visit'[q].kind # "idle" =>
        /\ visit'[q].kind = visit[q].kind /\ visit'[q].who = visit[q].who
        /\ visit'[q].mobile = visit[q].mobile /\ visit'[q].late = visit[q].late
        /\ visit'[q].has = visit[q].has
        /\ visit[q].stale => visit'[q].stale
        /\ visit[q].kind = "billing" /\ visit[q].who = {c} /\ b # client[c].billing
           => visit'[q].stale

\* A customer is saved: the number stays, an enabled one was enabled before.
LEMMA EditKeepsBook ==
    ASSUME BookInv, NEW c \in Clients, NEW x \in ClientRows, NEW y \in Mail,
           client' = [client EXCEPT ![c] = x], said' = [said EXCEPT ![c] = y],
           client[c].ever, x.ever, x.late = client[c].late, x.mobile = client[c].mobile,
           x.live => client[c].live, x.billing <= 1,
           y # Blank => x.email = y,
           visit' \in [BookRequests -> Visits], asked' \in 0..MaxAsked,
           \A q \in BookRequests : Follows(q, c, x.billing)
    PROVE  BookInv'
<1>1. /\ \A d \in Clients : client'[d] = IF d = c THEN x ELSE client[d]
      /\ \A d \in Clients : said'[d] = IF d = c THEN y ELSE said[d]
      /\ client' \in [Clients -> ClientRows] /\ said' \in [Clients -> Mail]
  BY BookFacts
<1>2. BookTypeOK'
  BY <1>1 DEF BookTypeOK
<1>3. ConfirmedEmailStays' /\ OneBillingAddress'
  BY <1>1 DEF BookInv, ConfirmedEmailStays, OneBillingAddress
<1>4. \A d \in Clients : /\ client'[d].late = client[d].late /\ client'[d].mobile = client[d].mobile
                         /\ client'[d].live => client[d].live
                         /\ client'[d].ever <=> client[d].ever
  BY <1>1
<1>5. DuplicatesOverlapped'
  BY <1>4 DEF BookInv, DuplicatesOverlapped
<1>6. \A d \in Clients : ~client'[d].ever => ~client'[d].live /\ said'[d] = Blank
  BY <1>1 DEF BookInv
<1>7. VisitsAreOfClients'
  <2> SUFFICES ASSUME NEW q \in BookRequests, visit'[q].kind \in Updates, NEW d \in visit'[q].who
               PROVE  visit'[q].who = {d} /\ client'[d].ever
    BY DEF VisitsAreOfClients
  <2>1. visit'[q].kind # "idle"
    BY DEF Updates
  <2>2. visit[q].kind \in Updates /\ visit'[q].who = visit[q].who
    BY <2>1 DEF Follows
  <2>3. d \in Clients
    BY <2>2, BookFacts DEF Visits
  <2> QED BY <1>4, <2>2, <2>3 DEF BookInv, VisitsAreOfClients
<1>8. BillingIsMissing'
  <2> SUFFICES ASSUME NEW q \in BookRequests, NEW d \in Clients, visit'[q].kind = "billing",
                      visit'[q].who = {d}, ~visit'[q].has, ~visit'[q].stale
               PROVE  client'[d].billing = 0
    BY DEF BillingIsMissing
  <2>1. /\ visit[q].kind = "billing" /\ visit[q].who = {d} /\ ~visit[q].has /\ ~visit[q].stale
        /\ d = c => x.billing = client[c].billing
    BY DEF Follows
  <2>2. client[d].billing = 0
    BY <2>1 DEF BookInv, BillingIsMissing
  <2> QED BY <1>1, <2>1, <2>2
<1>9. LateOnesAreKnown'
  <2> SUFFICES ASSUME NEW q \in BookRequests, NEW d \in Clients, visit'[q].kind = "create",
                      client'[d].live, client'[d].mobile = visit'[q].mobile
               PROVE  d \in visit'[q].late
    BY DEF LateOnesAreKnown
  <2>1. /\ visit[q].kind = "create" /\ visit'[q].late = visit[q].late
        /\ client[d].live /\ client[d].mobile = visit[q].mobile
    BY <1>4 DEF Follows
  <2> QED BY <2>1 DEF BookInv, LateOnesAreKnown
<1> QED BY <1>2, <1>3, <1>5, <1>6, <1>7, <1>8, <1>9 DEF BookInv

\* A request comes or goes, and nobody is saved.
LEMMA VisitKeepsBook ==
    ASSUME BookInv, NEW r \in BookRequests, NEW v \in Visits, visit' = [visit EXCEPT ![r] = v],
           UNCHANGED <<client, said>>, asked' \in 0..MaxAsked,
           v.kind \in Updates => \A c \in v.who : v.who = {c} /\ client[c].ever,
           v.kind = "billing" /\ ~v.has => \A c \in v.who : client[c].billing = 0,
           v.kind = "create" => \A d \in Clients : client[d].live => client[d].mobile # v.mobile
    PROVE  BookInv'
<1>1. /\ \A q \in BookRequests : visit'[q] = IF q = r THEN v ELSE visit[q]
      /\ visit' \in [BookRequests -> Visits]
  BY BookFacts
<1>2. BookTypeOK'
  BY <1>1, BookFacts DEF BookTypeOK
<1>3. ConfirmedEmailStays' /\ OneBillingAddress' /\ DuplicatesOverlapped'
  BY DEF BookInv, ConfirmedEmailStays, OneBillingAddress, DuplicatesOverlapped
<1>4. VisitsAreOfClients'
  BY <1>1 DEF BookInv, VisitsAreOfClients
<1>5. BillingIsMissing'
  BY <1>1 DEF BookInv, BillingIsMissing
<1>6. LateOnesAreKnown'
  BY <1>1 DEF BookInv, LateOnesAreKnown
<1> QED BY <1>2, <1>3, <1>4, <1>5, <1>6 DEF BookInv

LEMMA AskCustomerKeeps ==
    ASSUME BookInv, NEW r \in BookRequests, NEW mobile \in Numbers, NEW whatsapp \in Numbers,
           AskCustomer(r, mobile, whatsapp)
    PROVE  BookInv'
<1> DEFINE v == [NoVisit EXCEPT !.kind = "create", !.mobile = mobile, !.whatsapp = whatsapp]
<1>1. v \in Visits /\ v.kind = "create" /\ v.kind \notin Updates /\ v.mobile = mobile
  BY DEF NoVisit, Visits, Updates, Number, Mail
<1>2. visit' = [visit EXCEPT ![r] = v] /\ UNCHANGED <<client, said>> /\ ~Known(mobile)
  BY DEF AskCustomer
<1> HIDE DEF v
<1>3. asked' \in 0..MaxAsked
  BY BookAssumption, BookFacts DEF AskCustomer, Count
<1>4. \A d \in Clients : client[d].live => client[d].mobile # v.mobile
  BY <1>1, <1>2 DEF Known, HasNumber
<1> QED BY <1>1, <1>2, <1>3, <1>4, VisitKeepsBook

LEMMA AskUpdateKeeps ==
    ASSUME BookInv, NEW r \in BookRequests, NEW c \in Clients, NEW kind \in Updates,
           NEW email \in Mail, AskUpdate(r, c, kind, email)
    PROVE  BookInv'
<1> DEFINE has == CASE kind = "billing" -> client[c].billing > 0
                    [] kind = "shipping" -> client[c].shipping > 0
                    [] OTHER -> email = client[c].email
           v == [NoVisit EXCEPT !.kind = kind, !.who = {c}, !.email = email, !.has = has]
<1>1. visit' = [visit EXCEPT ![r] = v] /\ UNCHANGED <<client, said>> /\ client[c].ever
  BY DEF AskUpdate
<1>2. client[c].billing \in Nat /\ client[c].shipping \in Nat
  BY BookFacts DEF ClientRows
<1>3. has \in BOOLEAN /\ (kind = "billing" /\ ~has => client[c].billing = 0)
  <2>1. CASE kind = "billing"
    <3>1. has = (client[c].billing > 0)
      BY <2>1
    <3>2. ~has => ~(client[c].billing > 0)
      BY <3>1
    <3>3. ~(client[c].billing > 0) => client[c].billing = 0
      BY <1>2
    <3> HIDE DEF has
    <3>4. has \in BOOLEAN
      BY <3>1
    <3> QED BY <3>2, <3>3, <3>4
  <2>2. CASE kind = "shipping"
    <3>1. has = (client[c].shipping > 0)
      BY <2>2
    <3> HIDE DEF has
    <3> QED BY <2>2, <3>1
  <2>3. CASE kind = "email"
    <3>1. has = (email = client[c].email)
      BY <2>3
    <3> HIDE DEF has
    <3> QED BY <2>3, <3>1
  <2> QED BY <2>1, <2>2, <2>3 DEF Updates
<1> HIDE DEF has
<1>4. v \in Visits /\ v.kind = kind /\ v.who = {c} /\ v.has = has
  BY <1>3 DEF NoVisit, Visits, Updates, Number, Mail
<1> HIDE DEF v
<1>5. asked' \in 0..MaxAsked
  BY BookAssumption, BookFacts DEF AskUpdate, Count
<1>6. kind # "create"
  BY DEF Updates
<1> QED BY <1>1, <1>3, <1>4, <1>5, <1>6, VisitKeepsBook

LEMMA RequestGoneKeeps ==
    ASSUME BookInv, NEW r \in BookRequests, RequestGone(r)
    PROVE  BookInv'
<1>1. visit' = [visit EXCEPT ![r] = NoVisit] /\ UNCHANGED <<client, said>> /\ asked' \in 0..MaxAsked
  BY BookFacts DEF RequestGone
<1> QED BY <1>1, NoVisitFacts, VisitKeepsBook DEF Updates

\* The new customer: others that are being made learn of it.
LEMMA InsertCustomerKeeps ==
    ASSUME BookInv, NEW r \in BookRequests, NEW c \in Clients, NEW email \in Mail,
           NEW billing \in 0..1, InsertCustomer(r, c, email, billing)
    PROVE  BookInv'
<1> DEFINE x == [NoClient EXCEPT !.ever = TRUE, !.live = TRUE, !.late = visit[r].late,
                                 !.mobile = visit[r].mobile, !.whatsapp = visit[r].whatsapp,
                                 !.email = email, !.billing = billing]
           w(q) == [visit[q] EXCEPT !.late = visit[q].late \cup {c}]
<1>1. /\ client' = [client EXCEPT ![c] = x] /\ UNCHANGED <<said, asked>>
      /\ visit[r].kind = "create" /\ ~client[c].ever
      /\ visit' = [q \in BookRequests |->
                     IF q = r THEN NoVisit
                     ELSE IF visit[q].kind = "create" THEN w(q) ELSE visit[q]]
  BY DEF InsertCustomer
<1>2. /\ x \in ClientRows /\ x.ever /\ x.live /\ x.late = visit[r].late
      /\ x.mobile = visit[r].mobile /\ x.billing = billing
  <2>1. /\ visit[r].late \in SUBSET Clients /\ visit[r].mobile \in Number
        /\ visit[r].whatsapp \in Number /\ billing \in Nat
    BY BookFacts DEF Visits
  <2>2. x \in ClientRows
    BY <2>1, NoClientFacts DEF ClientRows
  <2>3. x.ever /\ x.live
    BY NoClientFacts DEF ClientRows
  <2>4. x.late = visit[r].late /\ x.mobile = visit[r].mobile /\ x.billing = billing
    BY NoClientFacts DEF ClientRows
  <2> QED BY <2>2, <2>3, <2>4
<1>3. ASSUME NEW q \in BookRequests
      PROVE  /\ w(q) \in Visits /\ w(q).kind = visit[q].kind /\ w(q).mobile = visit[q].mobile
             /\ w(q).late = visit[q].late \cup {c}
  BY BookFacts DEF Visits
<1> HIDE DEF x, w
<1>4. /\ \A d \in Clients : client'[d] = IF d = c THEN x ELSE client[d]
      /\ client' \in [Clients -> ClientRows]
  BY <1>1, <1>2, BookFacts
<1>5. /\ \A q \in BookRequests : visit'[q] = IF q = r THEN NoVisit
                                 ELSE IF visit[q].kind = "create" THEN w(q) ELSE visit[q]
      /\ visit' \in [BookRequests -> Visits]
  BY <1>1, <1>3, BookFacts, NoVisitFacts
<1>6. BookTypeOK'
  BY <1>1, <1>4, <1>5, BookFacts DEF BookTypeOK
<1>7. ~client[c].live /\ said[c] = Blank
  BY <1>1 DEF BookInv
<1>8. ConfirmedEmailStays' /\ OneBillingAddress'
  BY <1>1, <1>2, <1>4, <1>7 DEF BookInv, ConfirmedEmailStays, OneBillingAddress
<1>9. DuplicatesOverlapped'
  <2>1. \A d \in Clients : client[d].live /\ client[d].mobile = x.mobile => d \in x.late
    BY <1>1, <1>2 DEF BookInv, LateOnesAreKnown
  <2> QED BY <1>4, <2>1 DEF BookInv, DuplicatesOverlapped
<1>10. \A d \in Clients : ~client'[d].ever => ~client'[d].live /\ said'[d] = Blank
  BY <1>1, <1>2, <1>4 DEF BookInv
<1>11. \A q \in BookRequests : visit'[q].kind \in Updates =>
         visit'[q] = visit[q] /\ c \notin visit[q].who
  BY <1>1, <1>3, <1>5, NoVisitFacts DEF BookInv, VisitsAreOfClients, Updates
<1>12. VisitsAreOfClients'
  BY <1>2, <1>4, <1>11, BookFacts DEF BookInv, VisitsAreOfClients, Visits
<1>13. BillingIsMissing'
  <2> SUFFICES ASSUME NEW q \in BookRequests, NEW d \in Clients, visit'[q].kind = "billing",
                      visit'[q].who = {d}, ~visit'[q].has, ~visit'[q].stale
               PROVE  client'[d].billing = 0
    BY DEF BillingIsMissing
  <2>1. visit'[q] = visit[q] /\ d # c
    BY <1>11 DEF Updates
  <2> QED BY <1>4, <2>1 DEF BookInv, BillingIsMissing
<1>14. LateOnesAreKnown'
  <2> SUFFICES ASSUME NEW q \in BookRequests, NEW d \in Clients, visit'[q].kind = "create",
                      client'[d].live, client'[d].mobile = visit'[q].mobile
               PROVE  d \in visit'[q].late
    BY DEF LateOnesAreKnown
  <2>1. q # r /\ visit[q].kind = "create" /\ visit'[q] = w(q)
    BY <1>3, <1>5, NoVisitFacts
  <2>2. CASE d = c
    BY <1>3, <2>1, <2>2
  <2>3. CASE d # c
    BY <1>3, <1>4, <2>1, <2>3 DEF BookInv, LateOnesAreKnown
  <2> QED BY <2>2, <2>3
<1> QED BY <1>6, <1>8, <1>9, <1>10, <1>12, <1>13, <1>14 DEF BookInv

\* The request is over; the others may hold an old copy.
LEMMA OthersFollow ==
    ASSUME BookInv, NEW r \in BookRequests, NEW c \in Clients, NEW b,
           visit' = Saved([visit EXCEPT ![r] = NoVisit], c)
    PROVE  /\ visit' \in [BookRequests -> Visits]
           /\ \A q \in BookRequests : Follows(q, c, b)
<1> DEFINE v == [visit EXCEPT ![r] = NoVisit]
<1>1. v \in [BookRequests -> Visits] /\ \A q \in BookRequests : v[q] = IF q = r THEN NoVisit ELSE visit[q]
  BY BookFacts, NoVisitFacts
<1>2. visit' = Saved(v, c)
  OBVIOUS
<1> HIDE DEF v
<1>3. \A q \in BookRequests : q = r => visit'[q].kind = "idle"
  BY <1>1, <1>2, SavedFacts, NoVisitFacts
<1>4. \A q \in BookRequests : q # r => Follows(q, c, b)
  BY <1>1, <1>2, SavedFacts DEF Follows, Updates
<1>5. \A q \in BookRequests : Follows(q, c, b)
  BY <1>3, <1>4 DEF Follows
<1> QED BY <1>1, <1>2, <1>5, SavedFacts

LEMMA AllFollow ==
    ASSUME BookInv, NEW c \in Clients, NEW b, visit' = Saved(visit, c)
    PROVE  /\ visit' \in [BookRequests -> Visits]
           /\ \A q \in BookRequests : Follows(q, c, b)
<1>1. visit \in [BookRequests -> Visits]
  BY BookFacts
<1>2. \A q \in BookRequests : Follows(q, c, b)
  BY <1>1, SavedFacts DEF Follows, Updates
<1> QED BY <1>1, <1>2, SavedFacts

\* A request that had nothing to save ends.
LEMMA NothingSaved ==
    ASSUME BookInv, NEW r \in BookRequests, UNCHANGED <<client, said, asked>>,
           visit' = [visit EXCEPT ![r] = NoVisit]
    PROVE  BookInv'
<1>1. asked' \in 0..MaxAsked
  BY BookFacts
<1> QED BY <1>1, NoVisitFacts, VisitKeepsBook DEF Updates

LEMMA UpdateEmailKeeps ==
    ASSUME BookInv, NEW r \in BookRequests, NEW c \in Clients, UpdateEmail(r, c)
    PROVE  BookInv'
<1> DEFINE x == [client[c] EXCEPT !.email = visit[r].email]
<1>1. /\ client \in [Clients -> ClientRows] /\ said \in [Clients -> Mail]
      /\ client[c] \in ClientRows /\ visit[r].email \in Mail /\ asked' \in 0..MaxAsked
  BY BookFacts DEF Visits, UpdateEmail
<1>2. visit[r].kind = "email" /\ visit[r].who = {c} /\ client[c].ever
  BY DEF UpdateEmail, BookInv, VisitsAreOfClients, Updates
<1>3. CASE visit[r].has
  <2>1. /\ client' = [client EXCEPT ![c] = client[c]] /\ said' = [said EXCEPT ![c] = said[c]]
        /\ asked' = asked /\ visit' = [visit EXCEPT ![r] = NoVisit]
    BY <1>3 DEF UpdateEmail
  <2>2. UNCHANGED <<client, said, asked>>
    BY <1>1, <2>1
  <2> QED BY <2>1, <2>2, NothingSaved
<1>4. CASE ~visit[r].has
  <2>1. /\ client' = [client EXCEPT ![c] = x] /\ said' = [said EXCEPT ![c] = visit[r].email]
        /\ visit' = Saved([visit EXCEPT ![r] = NoVisit], c)
    BY <1>4 DEF UpdateEmail, WithEmail
  <2>2. /\ x \in ClientRows /\ x.email = visit[r].email
        /\ x.ever = client[c].ever /\ x.live = client[c].live /\ x.late = client[c].late
        /\ x.mobile = client[c].mobile /\ x.billing = client[c].billing
    BY <1>1 DEF ClientRows
  <2> HIDE DEF x
  <2>3. x.billing <= 1
    BY <2>2 DEF BookInv, OneBillingAddress
  <2>4. /\ visit' \in [BookRequests -> Visits]
        /\ \A q \in BookRequests : Follows(q, c, x.billing)
    BY <2>1, OthersFollow
  <2> QED BY <1>1, <1>2, <2>1, <2>2, <2>3, <2>4, EditKeepsBook
<1> QED BY <1>3, <1>4

LEMMA UpsertBillingKeeps ==
    ASSUME BookInv, NEW r \in BookRequests, NEW c \in Clients, UpsertBilling(r, c)
    PROVE  BookInv'
<1>1. /\ client \in [Clients -> ClientRows] /\ said \in [Clients -> Mail] /\ said[c] \in Mail
      /\ client[c] \in ClientRows /\ asked' \in 0..MaxAsked
  BY BookFacts DEF UpsertBilling
<1>2. /\ visit[r].kind = "billing" /\ visit[r].who = {c} /\ client[c].ever
      /\ visit[r].stale => visit[r].has
  BY DEF UpsertBilling, BookInv, VisitsAreOfClients, Updates
<1>3. CASE visit[r].has
  <2>1. client' = [client EXCEPT ![c].billing = client[c].billing] /\ UNCHANGED <<said, asked>>
        /\ visit' = [visit EXCEPT ![r] = NoVisit]
    BY <1>3 DEF UpsertBilling
  <2>2. [client[c] EXCEPT !.billing = client[c].billing] = client[c]
    BY <1>1 DEF ClientRows
  <2>3. client' = client
    BY <1>1, <2>1, <2>2
  <2> QED BY <2>1, <2>3, NothingSaved
<1>4. CASE ~visit[r].has
  <2> DEFINE x == [client[c] EXCEPT !.billing = 1]
  <2>1. client[c].billing = 0
    BY <1>2, <1>4 DEF BookInv, BillingIsMissing
  <2>2. /\ client' = [client EXCEPT ![c].billing = client[c].billing + 1]
        /\ visit' = Saved([visit EXCEPT ![r] = NoVisit], c) /\ said' = said
    BY <1>4 DEF UpsertBilling
  <2>3. client' = [client EXCEPT ![c] = x] /\ said' = [said EXCEPT ![c] = said[c]]
    BY <1>1, <2>1, <2>2
  <2>4. /\ x \in ClientRows /\ x.email = client[c].email /\ x.billing = 1
        /\ x.ever = client[c].ever /\ x.live = client[c].live /\ x.late = client[c].late
        /\ x.mobile = client[c].mobile
    BY <1>1 DEF ClientRows
  <2> HIDE DEF x
  <2>5. x.billing <= 1 /\ (said[c] # Blank => x.email = said[c])
    BY <2>4 DEF BookInv, ConfirmedEmailStays
  <2>6. /\ visit' \in [BookRequests -> Visits]
        /\ \A q \in BookRequests : Follows(q, c, x.billing)
    BY <2>2, OthersFollow
  <2> QED BY <1>1, <1>2, <2>3, <2>4, <2>5, <2>6, EditKeepsBook
<1> QED BY <1>3, <1>4

LEMMA UpsertShippingKeeps ==
    ASSUME BookInv, NEW r \in BookRequests, NEW c \in Clients, UpsertShipping(r, c)
    PROVE  BookInv'
<1>1. /\ client \in [Clients -> ClientRows] /\ said \in [Clients -> Mail] /\ said[c] \in Mail
      /\ client[c] \in ClientRows /\ asked' \in 0..MaxAsked
  BY BookFacts DEF UpsertShipping
<1>2. client[c].ever
  BY DEF UpsertShipping, BookInv, VisitsAreOfClients, Updates
<1> DEFINE n == IF visit[r].has THEN client[c].shipping ELSE client[c].shipping + 1
           x == [client[c] EXCEPT !.shipping = n]
<1>3. client' = [client EXCEPT ![c] = x] /\ visit' = [visit EXCEPT ![r] = NoVisit] /\ said' = said
  BY <1>1 DEF UpsertShipping
<1>4. n \in Nat
  BY <1>1 DEF ClientRows
<1> HIDE DEF n
<1>5. /\ x \in ClientRows /\ x.email = client[c].email /\ x.billing = client[c].billing
      /\ x.ever = client[c].ever /\ x.live = client[c].live /\ x.late = client[c].late
      /\ x.mobile = client[c].mobile
  BY <1>1, <1>4 DEF ClientRows
<1> HIDE DEF x
<1>6. x.billing <= 1 /\ (said[c] # Blank => x.email = said[c])
  BY <1>5 DEF BookInv, ConfirmedEmailStays, OneBillingAddress
<1>7. said' = [said EXCEPT ![c] = said[c]]
  BY <1>1, <1>3
<1>8. /\ visit' \in [BookRequests -> Visits]
      /\ \A q \in BookRequests : visit'[q] = IF q = r THEN NoVisit ELSE visit[q]
  BY <1>3, BookFacts, NoVisitFacts
<1>9. \A q \in BookRequests : Follows(q, c, x.billing)
  BY <1>5, <1>8, NoVisitFacts DEF Follows
<1> QED BY <1>1, <1>2, <1>3, <1>5, <1>6, <1>7, <1>8, <1>9, EditKeepsBook

LEMMA UpdateDetailsKeeps ==
    ASSUME BookInv, NEW c \in Clients, NEW email \in Mail, UpdateDetails(c, email)
    PROVE  BookInv'
<1>1. /\ client \in [Clients -> ClientRows] /\ said \in [Clients -> Mail] /\ said[c] \in Mail
      /\ client[c] \in ClientRows /\ asked' \in 0..MaxAsked /\ client[c].ever
      /\ visit' = Saved(visit, c) /\ Blank \in Mail
  BY BookFacts DEF UpdateDetails, Mail
<1> DEFINE x == EmailOnClient(c, email)
           y == IF c \in Linked THEN said[c] ELSE Blank
<1>2. client' = [client EXCEPT ![c] = x] /\ said' = [said EXCEPT ![c] = y]
  BY DEF UpdateDetails
<1>3. /\ x \in ClientRows /\ x.billing = client[c].billing
      /\ x.ever = client[c].ever /\ x.live = client[c].live /\ x.late = client[c].late
      /\ x.mobile = client[c].mobile
      /\ c \in Linked => x = client[c]
  BY <1>1 DEF ClientRows, EmailOnClient
<1> HIDE DEF x
<1>4. y \in Mail /\ x.billing <= 1 /\ (y # Blank => x.email = y)
  BY <1>1, <1>3 DEF BookInv, ConfirmedEmailStays, OneBillingAddress
<1>5. /\ visit' \in [BookRequests -> Visits]
      /\ \A q \in BookRequests : Follows(q, c, x.billing)
  BY <1>1, AllFollow
<1> HIDE DEF y
<1> QED BY <1>1, <1>2, <1>3, <1>4, <1>5, EditKeepsBook

LEMMA DisableKeeps ==
    ASSUME BookInv, NEW c \in Clients, Disable(c)
    PROVE  BookInv'
<1>1. /\ client \in [Clients -> ClientRows] /\ said \in [Clients -> Mail] /\ said[c] \in Mail
      /\ client[c] \in ClientRows /\ asked' \in 0..MaxAsked /\ client[c].ever
      /\ visit' = Saved(visit, c) /\ said' = said
  BY BookFacts DEF Disable, BookInv
<1> DEFINE x == [client[c] EXCEPT !.live = FALSE]
<1>2. client' = [client EXCEPT ![c] = x] /\ said' = [said EXCEPT ![c] = said[c]]
  BY <1>1 DEF Disable
<1>3. /\ x \in ClientRows /\ x.billing = client[c].billing /\ x.email = client[c].email
      /\ x.ever = client[c].ever /\ ~x.live /\ x.late = client[c].late
      /\ x.mobile = client[c].mobile
  BY <1>1 DEF ClientRows
<1> HIDE DEF x
<1>4. x.billing <= 1 /\ (said[c] # Blank => x.email = said[c])
  BY <1>3 DEF BookInv, ConfirmedEmailStays, OneBillingAddress
<1>5. /\ visit' \in [BookRequests -> Visits]
      /\ \A q \in BookRequests : Follows(q, c, x.billing)
  BY <1>1, AllFollow
<1> QED BY <1>1, <1>2, <1>3, <1>4, <1>5, EditKeepsBook

LEMMA BookStarts == BookInit => BookInv
<1> SUFFICES ASSUME BookInit PROVE BookInv
  OBVIOUS
<1>1. \A c \in Clients : client[c] = NoClient /\ said[c] = Blank
  BY DEF BookInit
<1>2. \A r \in BookRequests : visit[r] = NoVisit
  BY DEF BookInit
<1>3. BookTypeOK
  BY BookAssumption, NoClientFacts, NoVisitFacts DEF BookInit, BookTypeOK, Mail
<1>4. /\ ConfirmedEmailStays /\ DuplicatesOverlapped /\ OneBillingAddress
      /\ VisitsAreOfClients /\ BillingIsMissing /\ LateOnesAreKnown
  BY <1>1, <1>2, NoClientFacts, NoVisitFacts
     DEF ConfirmedEmailStays, DuplicatesOverlapped, OneBillingAddress, VisitsAreOfClients,
         BillingIsMissing, LateOnesAreKnown
<1> QED BY <1>1, <1>3, <1>4, NoClientFacts DEF BookInv

LEMMA BookSteps == BookInv /\ [BookNext]_bookVars => BookInv'
<1> SUFFICES ASSUME BookInv, [BookNext]_bookVars PROVE BookInv'
  OBVIOUS
<1>1. CASE UNCHANGED bookVars
  BY <1>1 DEF bookVars, BookInv, BookTypeOK, ConfirmedEmailStays, DuplicatesOverlapped,
              OneBillingAddress, VisitsAreOfClients, BillingIsMissing, LateOnesAreKnown
<1>2. /\ Emails \cup {Blank} = Mail /\ Emails \subseteq Mail /\ Blank \in Mail
      /\ {"billing", "shipping"} \subseteq Updates /\ "email" \in Updates
  BY DEF Mail, Updates
<1>3. ASSUME NEW r \in BookRequests, NEW c \in Clients,
             \/ \E email \in Emails \cup {Blank}, billing \in 0..1 : InsertCustomer(r, c, email, billing)
             \/ \E email \in Emails : AskUpdate(r, c, "email", email)
             \/ \E kind \in {"billing", "shipping"} : AskUpdate(r, c, kind, Blank)
             \/ UpdateEmail(r, c) \/ UpsertBilling(r, c) \/ UpsertShipping(r, c)
      PROVE  BookInv'
  BY <1>2, <1>3, InsertCustomerKeeps, AskUpdateKeeps, UpdateEmailKeeps, UpsertBillingKeeps, UpsertShippingKeeps
<1>4. ASSUME NEW c \in Clients,
             Disable(c) \/ \E email \in Emails \cup {Blank} : UpdateDetails(c, email)
      PROVE  BookInv'
  BY <1>2, <1>4, DisableKeeps, UpdateDetailsKeeps
<1> QED BY <1>1, <1>3, <1>4, AskCustomerKeeps, RequestGoneKeeps DEF BookNext

LEMMA BookInvSays == BookInv => BookTypeOK /\ CustomersAreKept
<1> SUFFICES ASSUME BookInv PROVE LookupKnows
  BY DEF BookInv, CustomersAreKept
<1> SUFFICES ASSUME NEW c \in Clients, client[c].live PROVE Lookup(client[c].mobile) # "unknown"
  BY DEF LookupKnows
<1>1. client[c].ever
  BY DEF BookInv
<1>2. CASE FoundHere(client[c].mobile) # {}
  BY <1>2 DEF Lookup
<1>3. CASE FoundHere(client[c].mobile) = {}
  BY <1>1, <1>3 DEF Lookup
<1> QED BY <1>2, <1>3

-----------------------------------------------------------------------------
(* Sets of numbers                                                         *)

\* A finite set of integers has a largest member.
LEMMA HasLargest ==
    ASSUME NEW S \in SUBSET Int, IsFiniteSet(S), S # {}
    PROVE  Max(S) \in S /\ \A x \in S : x <= Max(S)
<1> DEFINE good == {s \in SUBSET S : s = {} \/ \E m \in s : \A x \in s : m >= x}
<1>1. ASSUME NEW s \in SUBSET S, s # {}, s \ {Chosen(s)} \in good PROVE s \in good
  <2>1. PICK c : c = Chosen(s)
    OBVIOUS
  <2>2. c \in s /\ c \in Int
    BY <1>1, <2>1, ChosenIsIn
  <2>3. CASE s \ {c} = {}
    BY <2>2, <2>3
  <2>4. CASE s \ {c} # {}
    <3>1. PICK m \in s \ {c} : \A x \in s \ {c} : m >= x
      BY <1>1, <2>1, <2>4
    <3>2. m \in Int /\ \A x \in s : x \in Int
      OBVIOUS
    <3>3. CASE m >= c
      BY <3>1, <3>3
    <3>4. CASE c > m
      BY <2>2, <3>1, <3>2, <3>4
    <3> QED BY <2>2, <3>2, <3>3, <3>4
  <2> QED BY <2>3, <2>4
<1>2. {} \in good /\ good \in SUBSET SUBSET S
  OBVIOUS
<1>3. good = SUBSET S
  <2>1. \A s \in SUBSET S : s # {} /\ s \ {Chosen(s)} \in good => s \in good
    BY <1>1
  <2> HIDE DEF good
  <2> QED BY <1>2, <2>1, SubsetsBySteps
<1>4. \E m \in S : \A x \in S : m >= x
  BY <1>3
<1>5. Max(S) \in S /\ \A x \in S : Max(S) >= x
  BY <1>4 DEF Max
<1> QED BY <1>5

\* ... and a smallest one.
LEMMA HasSmallest ==
    ASSUME NEW S \in SUBSET Int, IsFiniteSet(S), S # {}
    PROVE  Min(S) \in S
<1> DEFINE good == {s \in SUBSET S : s = {} \/ \E m \in s : \A x \in s : m <= x}
<1>1. ASSUME NEW s \in SUBSET S, s # {}, s \ {Chosen(s)} \in good PROVE s \in good
  <2>1. PICK c : c = Chosen(s)
    OBVIOUS
  <2>2. c \in s /\ c \in Int
    BY <1>1, <2>1, ChosenIsIn
  <2>3. CASE s \ {c} = {}
    BY <2>2, <2>3
  <2>4. CASE s \ {c} # {}
    <3>1. PICK m \in s \ {c} : \A x \in s \ {c} : m <= x
      BY <1>1, <2>1, <2>4
    <3>2. m \in Int /\ \A x \in s : x \in Int
      OBVIOUS
    <3>3. CASE m <= c
      BY <3>1, <3>3
    <3>4. CASE c < m
      BY <2>2, <3>1, <3>2, <3>4
    <3> QED BY <2>2, <3>2, <3>3, <3>4
  <2> QED BY <2>3, <2>4
<1>2. {} \in good /\ good \in SUBSET SUBSET S
  OBVIOUS
<1>3. good = SUBSET S
  <2>1. \A s \in SUBSET S : s # {} /\ s \ {Chosen(s)} \in good => s \in good
    BY <1>1
  <2> HIDE DEF good
  <2> QED BY <1>2, <2>1, SubsetsBySteps
<1>4. \E m \in S : \A x \in S : m <= x
  BY <1>3
<1> QED BY <1>4 DEF Min

-----------------------------------------------------------------------------
(* Transfers                                                               *)

\* What the next steps rest on: an entry leaves the source store as it is,
\* devices are scanned only then, and a received entry is final.
TransferInv ==
    /\ TransferTypeOK
    /\ entry.state = "Sent" => sent = entry.lines
    /\ scanned # {} => entry.state \in {"Sent", "Received"}
    /\ TransferIsCounted

LEMMA SomeLinesAre ==
    ASSUME NEW freight \in SomeLines
    PROVE  /\ DOMAIN freight \in SUBSET (1..MaxTransferLines) /\ IsFiniteSet(DOMAIN freight)
           /\ freight \in [DOMAIN freight -> Lines]
<1>1. DOMAIN freight \in SUBSET (1..MaxTransferLines) /\ freight \in [DOMAIN freight -> Lines]
  BY DEF SomeLines
<1>2. IsFiniteSet(1..MaxTransferLines)
  BY TransferAssumption, FS_Interval
<1> QED BY <1>1, <1>2, FS_Subset

LEMMA SomeLinesOf ==
    ASSUME NEW n \in 1..MaxTransferLines, NEW freight \in [1..n -> Lines]
    PROVE  freight \in SomeLines
  BY TransferAssumption DEF SomeLines

\* What the receiving store counted of a line.
LEMMA CountOfALine ==
    ASSUME entry.lines \in SomeLines, NEW count \in CountsOf(entry.lines), NEW j \in DOMAIN entry.lines
    PROVE  /\ RecvMap(count, entry.lines[j].item) \in 0..MaxLineQty
           /\ Merged(entry.lines) => RecvMap(count, entry.lines[j].item) = count[j]
<1> DEFINE same == {k \in DOMAIN entry.lines : entry.lines[k].item = entry.lines[j].item}
<1>1. count \in [DOMAIN entry.lines -> 0..MaxLineQty]
  BY DEF CountsOf
<1>2. same \in SUBSET Int /\ same # {} /\ IsFiniteSet(same)
  <2>1. DOMAIN entry.lines \in SUBSET (1..MaxTransferLines) /\ IsFiniteSet(DOMAIN entry.lines)
    BY SomeLinesAre
  <2>2. same \in SUBSET Int /\ same # {} /\ same \in SUBSET DOMAIN entry.lines
    BY <2>1, TransferAssumption
  <2> HIDE DEF same
  <2> QED BY <2>1, <2>2, FS_Subset
<1>3. Max(same) \in same
  <2> HIDE DEF same
  <2> QED BY <1>2, HasLargest
<1>4. RecvMap(count, entry.lines[j].item) = count[Max(same)]
  BY DEF RecvMap
<1>5. Merged(entry.lines) => same = {j}
  BY DEF Merged
<1> QED BY <1>1, <1>3, <1>4, <1>5

\* The lines that stay are lines.
LEMMA ReceivedAreLines ==
    ASSUME entry.lines \in SomeLines, NEW count \in CountsOf(entry.lines)
    PROVE  ReceivedLines(count) \in SomeLines
<1>1. PICK freight : freight = entry.lines
  OBVIOUS
<1>2. DOMAIN freight \in SUBSET (1..MaxTransferLines) /\ freight \in [DOMAIN freight -> Lines]
  BY <1>1, SomeLinesAre
<1>3. PICK J : J = {k \in DOMAIN freight : RecvMap(count, freight[k].item) > 0}
  OBVIOUS
<1>4. J \in SUBSET (1..MaxTransferLines)
  BY <1>2, <1>3
<1>5. ASSUME NEW j \in J
      PROVE  [item |-> freight[j].item, qty |-> RecvMap(count, freight[j].item)] \in Lines
  <2>1. RecvMap(count, freight[j].item) \in 0..MaxLineQty /\ RecvMap(count, freight[j].item) > 0
    BY <1>1, <1>3, CountOfALine
  <2>2. PICK n : n = RecvMap(count, freight[j].item)
    OBVIOUS
  <2>3. n \in 1..MaxLineQty
    BY <2>1, <2>2, TransferAssumption
  <2>4. freight[j].item \in Articles
    BY <1>2, <1>3 DEF Lines
  <2> QED BY <2>2, <2>3, <2>4 DEF Lines
<1>6. ReceivedLines(count) =
        [j \in J |-> [item |-> freight[j].item, qty |-> RecvMap(count, freight[j].item)]]
  BY <1>1, <1>3 DEF ReceivedLines
<1>7. ReceivedLines(count) \in [J -> Lines]
  BY <1>5, <1>6
<1> QED BY <1>4, <1>7 DEF SomeLines

\* What stays of an item: what was counted of it, line by line.
LEMMA ReceivedQty ==
    ASSUME entry.lines \in SomeLines, NEW count \in CountsOf(entry.lines), NEW i \in Articles
    PROVE  /\ WithinSent(count) => Qty(ReceivedLines(count), i) <= Qty(entry.lines, i)
           /\ Merged(entry.lines) =>
                Qty(ReceivedLines(count), i)
                    = SumFunction([j \in DOMAIN entry.lines |->
                                      IF entry.lines[j].item = i THEN count[j] ELSE 0])
<1>1. PICK freight : freight = entry.lines
  OBVIOUS
<1>2. PICK S : S = DOMAIN freight
  OBVIOUS
<1>3. S \in SUBSET (1..MaxTransferLines) /\ IsFiniteSet(S) /\ freight \in [S -> Lines]
  BY <1>1, <1>2, SomeLinesAre
<1>4. PICK recv : recv = [j \in S |-> RecvMap(count, freight[j].item)]
  OBVIOUS
<1>5. \A j \in S : recv[j] \in 0..MaxLineQty /\ (Merged(freight) => recv[j] = count[j])
  BY <1>1, <1>2, <1>4, CountOfALine
<1>6. PICK T : T = {j \in S : recv[j] > 0}
  OBVIOUS
<1>7. PICK f : f = [j \in S |-> IF freight[j].item = i THEN recv[j] ELSE 0]
  OBVIOUS
<1>8. PICK g : g = [j \in T |-> IF freight[j].item = i THEN recv[j] ELSE 0]
  OBVIOUS
<1>9. PICK k : k = [j \in S |-> IF freight[j].item = i THEN freight[j].qty ELSE 0]
  OBVIOUS
<1>10. T \in SUBSET S /\ f \in [S -> Int] /\ g \in [T -> Int] /\ k \in [S -> Int]
  <2>1. T \in SUBSET S /\ \A j \in S : recv[j] \in Int
    BY <1>5, <1>6, TransferAssumption
  <2>2. \A j \in S : freight[j].qty \in Int
    BY <1>3, TransferAssumption DEF Lines
  <2> QED BY <1>7, <1>8, <1>9, <2>1, <2>2
<1>11. SumFunction(g) = SumFunction(f)
  <2>1. \A x \in T : g[x] = f[x]
    BY <1>7, <1>8, <1>10
  <2>2. \A x \in S \ T : f[x] = 0
    BY <1>5, <1>6, <1>7, TransferAssumption
  <2>3. IsFiniteSet(S) /\ T \in SUBSET S
    BY <1>3, <1>10
  <2>4. f \in [S -> Int] /\ g \in [T -> Int]
    BY <1>10
  <2> QED BY <2>1, <2>2, <2>3, <2>4, SumOverPart
<1>12. Qty(ReceivedLines(count), i) = SumFunction(g)
  <2>1. PICK r : r = ReceivedLines(count)
    OBVIOUS
  <2>2. DOMAIN r = T /\ \A j \in T : r[j] = [item |-> freight[j].item, qty |-> recv[j]]
    BY <2>1, <1>1, <1>2, <1>4, <1>6 DEF ReceivedLines
  <2>3. \A j \in T : r[j].item = freight[j].item /\ r[j].qty = recv[j]
    BY <2>2
  <2>4. [j \in DOMAIN r |-> IF r[j].item = i THEN r[j].qty ELSE 0] = g
    BY <1>8, <2>2, <2>3
  <2> QED BY <2>1, <2>4 DEF Qty
<1>13. ASSUME WithinSent(count) PROVE SumFunction(f) <= SumFunction(k)
  <2>1. \A j \in S : recv[j] <= freight[j].qty
    BY <1>1, <1>2, <1>4, <1>13 DEF WithinSent
  <2>2. \A j \in S : f[j] <= k[j]
    BY <1>7, <1>9, <2>1
  <2> QED BY <1>3, <1>10, <2>2, SumGrows
<1>14. Qty(freight, i) = SumFunction(k)
  BY <1>2, <1>9 DEF Qty
<1>15. ASSUME Merged(freight)
       PROVE  f = [j \in DOMAIN freight |-> IF freight[j].item = i THEN count[j] ELSE 0]
  BY <1>2, <1>5, <1>7, <1>15
<1> QED BY <1>1, <1>11, <1>12, <1>13, <1>14, <1>15

LEMMA TransferStarts == TransferInit => TransferInv
<1> SUFFICES ASSUME TransferInit PROVE TransferInv
  OBVIOUS
<1>1. <<>> \in [{} -> Lines] /\ {} \in SUBSET (1..MaxTransferLines)
  OBVIOUS
<1>2. <<>> \in SomeLines
  BY <1>1 DEF SomeLines
<1>3. TransferTypeOK
  BY <1>2 DEF TransferInit, TransferTypeOK, TransferStates
<1> QED BY <1>3 DEF TransferInit, TransferInv, TransferIsCounted, NeverMoreThanSent,
                    MergedLinesBookTheCount, DevicesMatchTheLine

\* Steps that leave the lines sent and counted alone, before the receipt.
LEMMA TransferIsUnderway ==
    ASSUME TransferInv, TransferTypeOK', entry.state # "Received", entry'.state # "Received",
           entry'.state = "Sent" => sent' = entry'.lines,
           scanned' # {} => entry'.state = "Sent" /\ DevicesMatchTheLine'
    PROVE  TransferInv'
  BY DEF TransferInv, TransferIsCounted, NeverMoreThanSent, MergedLinesBookTheCount,
         DevicesMatchTheLine

LEMMA TransferIsDrafted ==
    ASSUME TransferInv, NEW n \in 1..MaxTransferLines, NEW freight \in [1..n -> Lines],
           RequestTransfer(freight) \/ DraftTransfer(freight)
    PROVE  TransferInv'
<1>1. freight \in SomeLines
  BY SomeLinesOf
<1>2. TransferTypeOK'
  BY <1>1 DEF TransferInv, TransferTypeOK, RequestTransfer, DraftTransfer, TransferStates
<1>3. entry.state = "none" /\ scanned = {} /\ entry'.state \in {"Pending", "Draft"} /\ scanned' = {}
  BY DEF TransferInv, RequestTransfer, DraftTransfer
<1> QED BY <1>2, <1>3, TransferIsUnderway

LEMMA TransferIsHandled ==
    ASSUME TransferInv, Approve \/ HandOver \/ Cancel
    PROVE  TransferInv'
<1>1. TransferTypeOK'
  BY DEF TransferInv, TransferTypeOK, Approve, HandOver, Cancel, TransferStates
<1>2. entry.state # "Received" /\ scanned = {} /\ scanned' = {}
  BY DEF TransferInv, Approve, HandOver, Cancel
<1>3. entry'.state # "Received" /\ (entry'.state = "Sent" => sent' = entry'.lines)
  BY DEF TransferInv, TransferTypeOK, Approve, HandOver, Cancel
<1> QED BY <1>1, <1>2, <1>3, TransferIsUnderway

LEMMA TransferIsSentOut ==
    ASSUME TransferInv, NEW S \in SUBSET Devices, NEW i \in Articles, SendOut(S, i)
    PROVE  TransferInv'
<1>1. TransferTypeOK'
  BY DEF TransferInv, TransferTypeOK, SendOut, TransferStates
<1>2. entry.state = "Approved" /\ entry'.state = "Sent" /\ sent' = entry'.lines
  BY DEF TransferInv, TransferTypeOK, SendOut
<1>3. DevicesMatchTheLine'
  <2>1. Cardinality(scanned') = Qty(sent', i)
    BY DEF SendOut, ScansAll
  <2> QED BY <2>1 DEF DevicesMatchTheLine
<1> QED BY <1>1, <1>2, <1>3, TransferIsUnderway

LEMMA TransferIsReceived ==
    ASSUME TransferInv, NEW count \in CountsOf(entry.lines), Receive(count)
    PROVE  TransferInv'
<1>1. entry.lines \in SomeLines
  BY DEF TransferInv, TransferTypeOK
<1>2. /\ entry' = [state |-> "Received", lines |-> ReceivedLines(count)]
      /\ sent' = entry.lines /\ counted' = count /\ scanned' = scanned /\ held' = held
      /\ WithinSent(count) /\ entry.state \in {"Pending", "Draft", "Approved", "Sent"}
  BY DEF Receive
<1>3. TransferTypeOK'
  <2>1. ReceivedLines(count) \in SomeLines
    BY <1>1, ReceivedAreLines
  <2>2. count \in [DOMAIN count -> 0..MaxLineQty]
    BY DEF CountsOf
  <2> QED BY <1>1, <1>2, <2>1, <2>2 DEF TransferInv, TransferTypeOK, TransferStates
<1>4. entry'.state = "Received" /\ entry'.lines = ReceivedLines(count)
  BY <1>2
<1>5. NeverMoreThanSent'
  BY <1>1, <1>2, <1>4, ReceivedQty DEF NeverMoreThanSent
<1>6. MergedLinesBookTheCount'
  <2>1. ASSUME Merged(entry.lines), NEW i \in Articles
        PROVE  Qty(ReceivedLines(count), i)
                 = SumFunction([j \in DOMAIN entry.lines |->
                                   IF entry.lines[j].item = i THEN count[j] ELSE 0])
    BY <1>1, <2>1, ReceivedQty
  <2> QED BY <1>2, <1>4, <2>1 DEF MergedLinesBookTheCount, CountedQty
<1>7. DevicesMatchTheLine'
  <2>1. scanned # {} => sent' = sent
    BY <1>2 DEF TransferInv
  <2> QED BY <1>2, <2>1 DEF TransferInv, TransferIsCounted, DevicesMatchTheLine
<1> QED BY <1>3, <1>4, <1>5, <1>6, <1>7 DEF TransferInv, TransferIsCounted

LEMMA TransferKeeps == TransferInv /\ [TransferNext]_transferVars => TransferInv'
<1> SUFFICES ASSUME TransferInv, [TransferNext]_transferVars PROVE TransferInv'
  OBVIOUS
<1>1. ASSUME NEW u \in Devices, Stir(u) PROVE TransferInv'
  <2>1. TransferTypeOK'
    BY <1>1 DEF TransferInv, TransferTypeOK, Stir
  <2> QED BY <1>1, <2>1 DEF TransferInv, Stir, TransferIsCounted, NeverMoreThanSent,
                            MergedLinesBookTheCount, DevicesMatchTheLine, CountedQty
<1>2. CASE UNCHANGED transferVars
  BY <1>2 DEF transferVars, TransferInv, TransferTypeOK, TransferIsCounted, NeverMoreThanSent,
              MergedLinesBookTheCount, DevicesMatchTheLine, CountedQty
<1>3. ASSUME NEW S \in SUBSET Devices, NEW i \in Articles, SendOut(S, i) PROVE TransferInv'
  BY <1>3, TransferIsSentOut
<1>4. ASSUME NEW count \in CountsOf(entry.lines), Receive(count) PROVE TransferInv'
  BY <1>4, TransferIsReceived
<1> QED BY <1>1, <1>2, <1>3, <1>4, TransferIsDrafted, TransferIsHandled DEF TransferNext

-----------------------------------------------------------------------------
(* Plans                                                                   *)

Standing == {"none", "Owned", "Returned"}

\* The line of a cart is of a plan and for a device that is there: in the
\* cart, on an earlier bill, or the customer's own.
RightLine(l, devices, deals) ==
    /\ \E p \in Plans : l.plan = p.name
    /\ l.kind \in {"cart", "earlier", "own"}
    /\ l.serial \in Handsets \cup OwnImeis \cup {NoDevice}
    /\ l.serial \in Handsets => l.item = HandsetItem[l.serial].item
    /\ l.kind = "cart" => l.item # NoItem /\ l.serial \in devices \cup {NoDevice}
    /\ l.kind = "earlier" => l.serial \in Handsets /\ deals[l.serial].sold # {}
    /\ l.kind = "own" => l.serial \in Handsets \cup OwnImeis

LineIsRight == basket.line # NoLine => RightLine(basket.line, basket.devices, dealt)

\* A sold device is registered with its item's warranty.
RegisterIsRight ==
    \A h \in Handsets :
        /\ HandsetItem[h].base = 0 => register[h].base = 0
        /\ HandsetItem[h].base > 0 /\ shelf[h] = "Sold" => register[h].base > 0
        /\ register[h].base <= planDay + HandsetItem[h].base

\* A plan starts when it was bought, or follows the warranty its device had or
\* would have then; of a sold device, the one it has.
StartsByWarranty(c) ==
    \/ c.start <= c.bought
    \/ HandsetItem[c.serial].base > 0 /\ c.start <= c.bought + HandsetItem[c.serial].base + 1
StartsInTime(c) == c.start <= c.bought \/ c.start <= register[c.serial].base + 1
CoversStartRight ==
    \A c \in covers : c.serial \in Handsets =>
        StartsByWarranty(c) /\ (shelf[c.serial] = "Sold" => StartsInTime(c))

PlanInv ==
    /\ PlanTypeOK
    /\ LineIsRight
    /\ RegisterIsRight
    /\ CoversStartRight
    /\ PlansNameADevice
    /\ WindowIsKept
    /\ PricedOnItsDevice

LEMMA NamedPlan ==
    ASSUME NEW name, \E p \in Plans : name = p.name
    PROVE  PlanNamed(name) \in Plans /\ PlanNamed(name).name = name
  BY DEF PlanNamed

\* An item has the warranty of each of its devices.
LEMMA ItemWarranty ==
    ASSUME planDay \in Nat, NEW item
    PROVE  /\ ItemExpiry(item) \in Nat
           /\ \A h \in Handsets : HandsetItem[h].item = item =>
                ItemExpiry(item) = IF HandsetItem[h].base = 0 THEN 0 ELSE planDay + HandsetItem[h].base
<1>1. PICK O : O = OfItem(item, Handsets)
  OBVIOUS
<1>2. PICK days : days = {HandsetItem[h].base : h \in O}
  OBVIOUS
<1>3. O \in SUBSET Handsets /\ days \in SUBSET Nat
  BY <1>1, <1>2, PlansAssumption DEF OfItem
<1>4. ItemExpiry(item) = IF days \subseteq {0} THEN 0 ELSE planDay + Max(days)
  BY <1>1, <1>2 DEF ItemExpiry
<1>5. ASSUME NEW h \in O
      PROVE  ItemExpiry(item) = IF HandsetItem[h].base = 0 THEN 0 ELSE planDay + HandsetItem[h].base
  <2>1. PICK n \in Nat : n = HandsetItem[h].base
    BY <1>3, PlansAssumption
  <2>2. \A g \in O : HandsetItem[g].base = n
    BY <1>1, <2>1, PlansAssumption DEF OfItem
  <2>3. days = {n}
    BY <1>2, <2>2
  <2>4. Max({n}) = n
    BY DEF Max
  <2> QED BY <1>4, <2>1, <2>3, <2>4
<1>6. CASE O = {}
  <2>1. ItemExpiry(item) = 0
    BY <1>2, <1>4, <1>6
  <2> QED BY <1>1, <1>6, <2>1 DEF OfItem
<1>7. CASE O # {}
  <2>1. PICK h \in O : TRUE
    BY <1>7
  <2>2. ItemExpiry(item) \in Nat
    <3>1. PICK n \in Nat : n = HandsetItem[h].base
      BY <1>3, PlansAssumption
    <3>2. ItemExpiry(item) = IF n = 0 THEN 0 ELSE planDay + n
      BY <1>5, <3>1
    <3> QED BY <3>2
  <2>3. \A g \in Handsets : HandsetItem[g].item = item => g \in O
    BY <1>1 DEF OfItem
  <2> QED BY <1>5, <2>2, <2>3
<1> QED BY <1>6, <1>7

\* What the bill takes a line's device and item to be.
LEMMA InferredUnit ==
    ASSUME NEW l, NEW devices \in SUBSET Handsets, NEW deals, RightLine(l, devices, deals),
           NEW unit, unit = InferredSerial(l, devices),
           NEW item, item = InferredItem(l, devices, unit)
    PROVE  /\ unit \in Handsets \cup OwnImeis \cup {NoDevice}
           /\ unit \in Handsets => item = HandsetItem[unit].item
           /\ unit \in Handsets /\ l.kind # "own" =>
                unit \in devices \/ (l.kind = "earlier" /\ deals[unit].sold # {})
           /\ item = NoItem => unit \in OwnImeis
<1>1. PICK fits : fits = {h \in devices : l.item \in {NoItem, HandsetItem[h].item}}
  OBVIOUS
<1>2. unit = IF l.serial # NoDevice \/ l.kind = "own" THEN l.serial
             ELSE IF Cardinality(fits) = 1 THEN CHOOSE h \in fits : TRUE ELSE NoDevice
  BY <1>1 DEF InferredSerial
<1>3. IsFiniteSet(fits) /\ fits \subseteq devices
  <2>1. fits \subseteq devices /\ fits \subseteq Handsets
    BY <1>1
  <2> QED BY <2>1, PlansAssumption, FS_Subset
<1>4. ASSUME Cardinality(fits) = 1 PROVE (CHOOSE h \in fits : TRUE) \in fits
  <2>1. fits # {}
    BY <1>4, FS_EmptySet
  <2> QED BY <2>1
<1>5. CASE l.kind = "own"
  <2>1. unit = l.serial
    BY <1>2, <1>5
  <2> QED BY <1>5, <2>1, PlansAssumption DEF RightLine, InferredItem
<1>6. CASE l.kind = "earlier"
  <2>1. unit = l.serial /\ l.serial \in Handsets
    BY <1>2, <1>6, PlansAssumption DEF RightLine
  <2> QED BY <1>6, <2>1, PlansAssumption DEF RightLine, InferredItem
<1>7. CASE l.kind = "cart"
  <2>1. l.item # NoItem /\ item = l.item
    BY <1>7 DEF RightLine, InferredItem
  <2>2. CASE l.serial # NoDevice
    BY <1>2, <1>7, <2>1, <2>2, PlansAssumption DEF RightLine
  <2>3. CASE l.serial = NoDevice /\ Cardinality(fits) = 1
    <3>1. unit \in fits
      BY <1>2, <1>4, <1>7, <2>3
    <3> QED BY <1>1, <1>7, <2>1, <3>1
  <2>4. CASE l.serial = NoDevice /\ Cardinality(fits) # 1
    BY <1>2, <1>7, <2>1, <2>4, PlansAssumption
  <2> QED BY <2>2, <2>3, <2>4
<1> QED BY <1>5, <1>6, <1>7 DEF RightLine

\* A plan for a device of the cart is priced by that very device.
LEMMA CoveredIsTheUnit ==
    ASSUME NEW l, NEW devices \in SUBSET Handsets, NEW deals, RightLine(l, devices, deals),
           NEW unit \in Handsets, unit = InferredSerial(l, devices), l.kind = "cart"
    PROVE  CoveredPrice(l.item, l.serial, l.kind, devices) = HandsetItem[unit].price
<1>1. l.item # NoItem /\ l.serial \in devices \cup {NoDevice}
  BY DEF RightLine
<1>2. CASE l.serial # NoDevice
  BY <1>1, <1>2 DEF InferredSerial, CoveredPrice
<1>3. CASE l.serial = NoDevice
  <2>1. PICK fits : fits = OfItem(l.item, devices)
    OBVIOUS
  <2>2. fits = {h \in devices : l.item \in {NoItem, HandsetItem[h].item}}
    BY <1>1, <2>1 DEF OfItem
  <2>3. unit = IF Cardinality(fits) = 1 THEN CHOOSE h \in fits : TRUE ELSE NoDevice
    BY <1>3, <2>2 DEF InferredSerial
  <2>4. Cardinality(fits) = 1
    BY <2>3, PlansAssumption
  <2>5. IsFiniteSet(fits)
    <3>1. fits \subseteq Handsets
      BY <2>2
    <3> QED BY <3>1, PlansAssumption, FS_Subset
  <2>6. PICK h : fits = {h}
    BY <2>4, <2>5, FS_Singleton
  <2>7. unit = h
    BY <2>3, <2>4, <2>6
  <2>8. ItemsOf(fits) = {HandsetItem[unit]}
    BY <2>6, <2>7 DEF ItemsOf
  <2>9. TopPrice(fits) = HandsetItem[unit].price
    <3>1. PICK n \in Nat : n = HandsetItem[unit].price
      BY PlansAssumption
    <3>2. TopPrice(fits) = Max({0, n})
      <4>1. {i.price : i \in ItemsOf(fits)} = {n}
        BY <2>8, <3>1
      <4>2. {0} \cup {n} = {0, n}
        OBVIOUS
      <4> QED BY <4>1, <4>2 DEF TopPrice
    <3>3. Max({0, n}) \in {0, n} /\ Max({0, n}) >= n
      BY MaxOfTwo
    <3>4. Max({0, n}) = n
      BY <3>3
    <3> QED BY <3>1, <3>2, <3>4
  <2>10. CoveredPrice(l.item, l.serial, l.kind, devices) = TopPrice(fits)
    <3>1. l.serial \notin devices
      BY <1>3, PlansAssumption
    <3>2. fits # {}
      BY <2>6
    <3> QED BY <2>1, <3>1, <3>2 DEF CoveredPrice
  <2> QED BY <2>9, <2>10
<1> QED BY <1>2, <1>3

\* When a plan starts.
LEMMA StartIsADay ==
    ASSUME planDay \in Nat \ {0}, NEW books \in [Handsets -> [status : Standing, base : Nat]],
           NEW p, NEW unit, NEW item
    PROVE  CoverageStart(p, unit, item, books) \in Nat
<1>1. PICK known : known = IF unit \in Handsets THEN books[unit].base ELSE 0
  OBVIOUS
<1>2. PICK later : later = ItemExpiry(item)
  OBVIOUS
<1>3. known \in Nat /\ later \in Nat
  <2>1. known \in Nat
    BY <1>1
  <2>2. later \in Nat
    BY <1>2, ItemWarranty
  <2> QED BY <2>1, <2>2
<1> QED BY <1>1, <1>2, <1>3 DEF CoverageStart

LEMMA StartOfCover ==
    ASSUME planDay \in Nat \ {0}, NEW books \in [Handsets -> [status : Standing, base : Nat]],
           NEW p, NEW unit \in Handsets, NEW item, item = HandsetItem[unit].item,
           HandsetItem[unit].base = 0 => books[unit].base = 0,
           books[unit].base <= planDay + HandsetItem[unit].base,
           NEW start, start = CoverageStart(p, unit, item, books)
    PROVE  /\ \/ start <= planDay
              \/ HandsetItem[unit].base > 0 /\ start <= planDay + HandsetItem[unit].base + 1
           /\ HandsetItem[unit].base = 0 \/ books[unit].base > 0 =>
                start <= planDay \/ start <= books[unit].base + 1
<1>1. PICK n \in Nat : n = HandsetItem[unit].base
  BY PlansAssumption
<1>2. PICK known \in Nat : known = books[unit].base
  OBVIOUS
<1>3. PICK later \in Nat : later = ItemExpiry(item)
  BY ItemWarranty
<1>4. later = IF n = 0 THEN 0 ELSE planDay + n
  BY <1>1, <1>3, ItemWarranty
<1>5. PICK base \in Nat : base = IF known > 0 THEN known ELSE later
  OBVIOUS
<1>6. start = IF p.stacks /\ base >= planDay THEN base + 1 ELSE planDay
  BY <1>2, <1>3, <1>5 DEF CoverageStart
<1>7. start = planDay \/ start = base + 1
  BY <1>6
<1>8. (n = 0 => known = 0) /\ known <= planDay + n
  BY <1>1, <1>2
<1>9. start <= planDay \/ (n > 0 /\ start <= planDay + n + 1)
  <2>1. CASE start = planDay
    BY <2>1
  <2>2. CASE start # planDay
    <3>1. start = base + 1 /\ base >= planDay
      BY <1>6, <2>2
    <3> QED BY <1>4, <1>5, <1>8, <3>1
  <2> QED BY <2>1, <2>2
<1>10. ASSUME n = 0 \/ known > 0 PROVE start <= planDay \/ start <= known + 1
  <2>1. CASE start = planDay
    BY <2>1
  <2>2. CASE start # planDay
    <3>1. start = base + 1 /\ base >= planDay
      BY <1>6, <2>2
    <3> QED BY <1>4, <1>5, <1>8, <1>10, <3>1
  <2> QED BY <2>1, <2>2
<1> QED BY <1>1, <1>2, <1>9, <1>10

\* The register after a bill.
LEMMA RegisterOfABill ==
    ASSUME PlanInv, NEW books, books = Registered(basket.devices)
    PROVE  /\ books \in [Handsets -> [status : Standing, base : Nat]]
           /\ \A h \in Handsets :
                /\ HandsetItem[h].base = 0 => books[h].base = 0
                /\ HandsetItem[h].base > 0 /\ (shelf[h] = "Sold" \/ h \in basket.devices) => books[h].base > 0
                /\ books[h].base <= planDay + HandsetItem[h].base
                /\ IF h \in basket.devices /\ HandsetItem[h].base > 0
                   THEN books[h].base = planDay + HandsetItem[h].base
                   ELSE books[h].base = register[h].base
<1> SUFFICES ASSUME NEW h \in Handsets
             PROVE  /\ books[h] \in [status : Standing, base : Nat]
                    /\ HandsetItem[h].base = 0 => books[h].base = 0
                    /\ HandsetItem[h].base > 0 /\ (shelf[h] = "Sold" \/ h \in basket.devices) => books[h].base > 0
                    /\ books[h].base <= planDay + HandsetItem[h].base
                    /\ IF h \in basket.devices /\ HandsetItem[h].base > 0
                       THEN books[h].base = planDay + HandsetItem[h].base
                       ELSE books[h].base = register[h].base
  BY DEF Registered
<1>1. PICK n \in Nat : n = HandsetItem[h].base
  BY PlansAssumption
<1>2. PICK day \in Nat \ {0} : day = planDay
  BY DEF PlanInv, PlanTypeOK
<1>3. PICK m \in Nat : m = register[h].base
  BY DEF PlanInv, PlanTypeOK
<1>4. register[h] \in [status : Standing, base : Nat]
  BY DEF PlanInv, PlanTypeOK, Standing
<1>5. (n = 0 => m = 0) /\ (n > 0 /\ shelf[h] = "Sold" => m > 0) /\ m <= day + n
  BY <1>1, <1>2, <1>3 DEF PlanInv, RegisterIsRight
<1>6. CASE h \notin basket.devices
  <2>1. books[h] = register[h]
    BY <1>6 DEF Registered
  <2> QED BY <1>1, <1>2, <1>3, <1>4, <1>5, <1>6, <2>1
<1>7. CASE h \in basket.devices
  <2>1. books[h] = [status |-> "Owned", base |-> IF n > 0 THEN day + n ELSE m]
    BY <1>1, <1>2, <1>3, <1>7 DEF Registered
  <2>2. books[h].base = IF n > 0 THEN day + n ELSE m
    BY <2>1
  <2>3. books[h] \in [status : Standing, base : Nat]
    BY <2>1 DEF Standing
  <2> QED BY <1>1, <1>2, <1>3, <1>5, <1>7, <2>2, <2>3
<1> QED BY <1>6, <1>7

\* The documents after a bill.
SalesWith(devices) ==
    [h \in Handsets |-> IF h \in devices THEN [dealt[h] EXCEPT !.sold = @ \cup {planDay}] ELSE dealt[h]]

Dealings == [sold : SUBSET (1..planDay), back : SUBSET (1..planDay)]

LEMMA SalesOfABill ==
    ASSUME PlanInv, NEW sales, sales = SalesWith(basket.devices)
    PROVE  /\ sales \in [Handsets -> Dealings]
           /\ \A h \in Handsets :
                /\ dealt[h].sold \subseteq sales[h].sold /\ dealt[h].back \subseteq sales[h].back
                /\ h \in basket.devices => planDay \in sales[h].sold
<1>1. planDay \in 1..planDay
  BY DEF PlanInv, PlanTypeOK
<1> SUFFICES ASSUME NEW h \in Handsets
             PROVE  /\ sales[h] \in Dealings
                    /\ dealt[h].sold \subseteq sales[h].sold /\ dealt[h].back \subseteq sales[h].back
                    /\ h \in basket.devices => planDay \in sales[h].sold
  BY DEF SalesWith
<1>2. PICK g \in Dealings : g = dealt[h]
  BY DEF PlanInv, PlanTypeOK, Dealings
<1>3. sales[h] = IF h \in basket.devices THEN [g EXCEPT !.sold = g.sold \cup {planDay}] ELSE g
  BY <1>2 DEF SalesWith
<1> QED BY <1>1, <1>2, <1>3 DEF Dealings

\* What a cover is for, when it was bought and what it cost.
CoverIsRight(c, deals) ==
    /\ IF c.external THEN c.serial \in OwnImeis
       ELSE c.serial \in Handsets /\ c.kind # "own" => \E day \in deals[c.serial].sold : day <= c.bought
    /\ (PlanNamed(c.plan).window > 0 /\ PlanNamed(c.plan).type # "Own"
        /\ c.serial \in Handsets /\ c.kind # "own") =>
            \E day \in deals[c.serial].sold \cup deals[c.serial].back :
                day <= c.bought /\ c.bought - day <= PlanNamed(c.plan).window
    /\ c.serial \in Handsets /\ c.kind = "cart" =>
            c.price = Priced(PlanNamed(c.plan), HandsetItem[c.serial].price)

LEMMA CoverStaysRight ==
    ASSUME NEW c, NEW deals, CoverIsRight(c, deals), NEW later,
           \A h \in Handsets : deals[h].sold \subseteq later[h].sold /\ deals[h].back \subseteq later[h].back
    PROVE  CoverIsRight(c, later)
  BY DEF CoverIsRight

LEMMA CoversAreRight ==
    /\ (PlansNameADevice /\ WindowIsKept /\ PricedOnItsDevice) <=> \A c \in covers : CoverIsRight(c, dealt)
    /\ (PlansNameADevice /\ WindowIsKept /\ PricedOnItsDevice)'
         <=> \A c \in covers' : CoverIsRight(c, dealt')
<1>1. (PlansNameADevice /\ WindowIsKept /\ PricedOnItsDevice) <=> \A c \in covers : CoverIsRight(c, dealt)
  BY DEF PlansNameADevice, WindowIsKept, PricedOnItsDevice, CoverIsRight
<1>2. (PlansNameADevice /\ WindowIsKept /\ PricedOnItsDevice)'
         <=> \A c \in covers' : CoverIsRight(c, dealt')
  BY DEF PlansNameADevice, WindowIsKept, PricedOnItsDevice, CoverIsRight
<1> QED BY <1>1, <1>2

\* A plan the bill makes of its line.
LEMMA NewCover ==
    ASSUME PlanInv, basket.line # NoLine,
           NEW books, books = Registered(basket.devices),
           NEW sales, sales = SalesWith(basket.devices),
           NEW c \in PlanOf(basket.line, basket.devices, books, sales)
    PROVE  /\ c.serial \in Handsets \cup OwnImeis \cup {NoDevice}
           /\ c.bought = planDay /\ c.start \in Nat
           /\ c.serial \in Handsets => StartsByWarranty(c)
           /\ c.serial \in Handsets /\ (shelf[c.serial] = "Sold" \/ c.serial \in basket.devices) =>
                c.start <= c.bought \/ c.start <= books[c.serial].base + 1
           /\ CoverIsRight(c, sales)
<1>1. PICK line : line = basket.line
  OBVIOUS
<1>2. PICK devices \in SUBSET Handsets : devices = basket.devices
  BY DEF PlanInv, PlanTypeOK
<1>3. RightLine(line, devices, dealt)
  BY <1>1, <1>2 DEF PlanInv, LineIsRight
<1>4. PICK p \in Plans : p = PlanNamed(line.plan) /\ PlanNamed(p.name) = p
  <2>1. \E p \in Plans : line.plan = p.name
    BY <1>3 DEF RightLine
  <2> QED BY <2>1, NamedPlan
<1>5. PICK unit : unit = InferredSerial(line, devices)
  OBVIOUS
<1>6. PICK item : item = InferredItem(line, devices, unit)
  OBVIOUS
<1>7. PICK start : start = CoverageStart(p, unit, item, books)
  OBVIOUS
<1>8. PICK external : external = (item = NoItem)
  OBVIOUS
<1>9. /\ c.plan = p.name /\ c.serial = unit /\ c.external = external /\ c.kind = line.kind
      /\ c.price = line.price /\ c.bought = planDay /\ c.start = start
      /\ Canonical(p, line, devices) /\ WithinWindow(p, unit, external, sales)
  BY <1>1, <1>2, <1>4, <1>5, <1>6, <1>7, <1>8 DEF PlanOf
<1>10. /\ unit \in Handsets \cup OwnImeis \cup {NoDevice}
       /\ unit \in Handsets => item = HandsetItem[unit].item
       /\ unit \in Handsets /\ line.kind # "own" =>
            unit \in devices \/ (line.kind = "earlier" /\ dealt[unit].sold # {})
       /\ item = NoItem => unit \in OwnImeis
  BY <1>3, <1>5, <1>6, InferredUnit
<1>11. planDay \in Nat \ {0}
  BY DEF PlanInv, PlanTypeOK
<1>12. /\ books \in [Handsets -> [status : Standing, base : Nat]]
       /\ \A h \in Handsets :
            /\ HandsetItem[h].base = 0 => books[h].base = 0
            /\ HandsetItem[h].base > 0 /\ (shelf[h] = "Sold" \/ h \in devices) => books[h].base > 0
            /\ books[h].base <= planDay + HandsetItem[h].base
  BY <1>2, RegisterOfABill
<1>13. start \in Nat
  BY <1>7, <1>11, <1>12, StartIsADay
<1>14. ASSUME unit \in Handsets
       PROVE  /\ \/ start <= planDay
                 \/ HandsetItem[unit].base > 0 /\ start <= planDay + HandsetItem[unit].base + 1
              /\ shelf[unit] = "Sold" \/ unit \in devices =>
                   start <= planDay \/ start <= books[unit].base + 1
  <2>1. item = HandsetItem[unit].item
    BY <1>10, <1>14
  <2>2. HandsetItem[unit].base = 0 => books[unit].base = 0
    BY <1>12, <1>14
  <2>3. books[unit].base <= planDay + HandsetItem[unit].base
    BY <1>12, <1>14
  <2>4. /\ \/ start <= planDay
           \/ HandsetItem[unit].base > 0 /\ start <= planDay + HandsetItem[unit].base + 1
        /\ HandsetItem[unit].base = 0 \/ books[unit].base > 0 =>
             start <= planDay \/ start <= books[unit].base + 1
    BY <1>7, <1>11, <1>12, <1>14, <2>1, <2>2, <2>3, StartOfCover
  <2>5. shelf[unit] = "Sold" \/ unit \in devices => HandsetItem[unit].base = 0 \/ books[unit].base > 0
    BY <1>12, <1>14, PlansAssumption
  <2> QED BY <2>4, <2>5
<1>15. sales \in [Handsets -> Dealings]
       /\ \A h \in Handsets : dealt[h].sold \subseteq sales[h].sold /\ (h \in devices => planDay \in sales[h].sold)
  BY <1>2, SalesOfABill
<1>16. ASSUME unit \in Handsets, line.kind # "own" PROVE sales[unit].sold # {}
  BY <1>10, <1>15, <1>16
<1>17. ASSUME unit \in Handsets, line.kind # "own", ~external
       PROVE  \E day \in sales[unit].sold : day <= planDay
  <2>1. PICK day \in sales[unit].sold : TRUE
    BY <1>16, <1>17
  <2>2. sales[unit].sold \in SUBSET (1..planDay)
    BY <1>15, <1>17 DEF Dealings
  <2>3. day \in 1..planDay
    BY <2>1, <2>2
  <2> QED BY <1>11, <2>1, <2>3
<1>18. ASSUME p.window > 0, p.type # "Own", unit \in Handsets, line.kind # "own"
       PROVE  \E day \in sales[unit].sold \cup sales[unit].back :
                 day <= planDay /\ planDay - day <= p.window
  <2>1. PICK days : days = sales[unit].sold \cup sales[unit].back
    OBVIOUS
  <2>2. days \in SUBSET (1..planDay) /\ days # {}
    BY <1>15, <1>16, <1>18, <2>1 DEF Dealings
  <2>3. unit # NoDevice
    BY <1>18, PlansAssumption
  <2>4. planDay - Max(days) <= p.window
    BY <1>9, <1>18, <2>1, <2>2, <2>3 DEF WithinWindow
  <2>5. Max(days) \in days
    <3>1. IsFiniteSet(1..planDay)
      BY <1>11, FS_Interval
    <3>2. IsFiniteSet(days)
      BY <2>2, <3>1, FS_Subset
    <3>3. days \in SUBSET Int
      BY <1>11, <2>2
    <3> QED BY <2>2, <3>2, <3>3, HasLargest
  <2>6. PICK day \in days : day = Max(days)
    BY <2>5
  <2>7. day \in 1..planDay
    BY <2>2
  <2> QED BY <1>11, <2>1, <2>4, <2>6, <2>7
<1>19. ASSUME unit \in Handsets, line.kind = "cart"
       PROVE  line.price = Priced(p, HandsetItem[unit].price)
  <2>1. CoveredPrice(line.item, line.serial, line.kind, devices) = HandsetItem[unit].price
    BY <1>3, <1>5, <1>19, CoveredIsTheUnit
  <2>2. PICK n \in Nat : n = HandsetItem[unit].price
    BY <1>19, PlansAssumption
  <2>3. p.percent \in Nat
    BY PlansAssumption
  <2>4. line.price > 0 /\ line.price = PlanPrice(p, line.item, line.serial, line.kind, devices)
    BY <1>9 DEF Canonical
  <2>5. line.price = IF p.percent > 0 THEN (n * p.percent) \div 100 ELSE p.price
    BY <1>19, <2>1, <2>2, <2>4 DEF PlanPrice
  <2>6. CASE p.percent > 0 /\ n = 0
    <3>1. (n * p.percent) \div 100 = 0
      <4>1. n * p.percent = 0
        BY <2>3, <2>6
      <4> QED BY <4>1
    <3> QED BY <2>4, <2>5, <2>6, <3>1
  <2>7. CASE ~ (p.percent > 0 /\ n = 0)
    <3>1. p.percent > 0 => n > 0
      BY <2>7
    <3> QED BY <2>2, <2>5, <3>1 DEF Priced
  <2> QED BY <2>6, <2>7
<1>20. CoverIsRight(c, sales)
  <2>1. external => unit \in OwnImeis
    BY <1>8, <1>10
  <2>2. PlanNamed(c.plan) = p
    BY <1>4, <1>9
  <2> QED BY <1>9, <1>17, <1>18, <1>19, <2>1, <2>2 DEF CoverIsRight
<1>21. c.serial \in Handsets => StartsByWarranty(c)
  BY <1>9, <1>14 DEF StartsByWarranty
<1>22. c.serial \in Handsets /\ (shelf[c.serial] = "Sold" \/ c.serial \in basket.devices) =>
          c.start <= c.bought \/ c.start <= books[c.serial].base + 1
  BY <1>2, <1>9, <1>14
<1> QED BY <1>9, <1>10, <1>13, <1>20, <1>21, <1>22

LEMMA PlanStarts == PlanInit => PlanInv
<1> SUFFICES ASSUME PlanInit PROVE PlanInv
  OBVIOUS
<1>1. PlanTypeOK
  <2>1. planDay = 1 /\ covers = {} /\ 1 \in 1..LastPlanDay
    BY PlansAssumption DEF PlanInit
  <2>2. basket = [devices |-> {}, line |-> NoLine]
    BY DEF PlanInit, EmptyBasket
  <2>3. register \in [Handsets -> [status : {"none", "Owned", "Returned"}, base : Nat]]
    BY DEF PlanInit
  <2>4. dealt \in [Handsets -> [sold : SUBSET (1..planDay), back : SUBSET (1..planDay)]]
    BY DEF PlanInit
  <2>5. shelf \in [Handsets -> {"InStock", "Sold"}]
    BY DEF PlanInit
  <2> QED BY <2>1, <2>2, <2>3, <2>4, <2>5 DEF PlanTypeOK
<1>2. LineIsRight
  BY DEF PlanInit, EmptyBasket, LineIsRight
<1>3. RegisterIsRight
  <2> SUFFICES ASSUME NEW h \in Handsets
               PROVE  /\ HandsetItem[h].base = 0 => register[h].base = 0
                      /\ HandsetItem[h].base > 0 /\ shelf[h] = "Sold" => register[h].base > 0
                      /\ register[h].base <= planDay + HandsetItem[h].base
    BY DEF RegisterIsRight
  <2>1. register[h].base = 0 /\ shelf[h] = "InStock" /\ planDay = 1
    BY DEF PlanInit
  <2>2. HandsetItem[h].base \in Nat
    BY PlansAssumption
  <2> QED BY <2>1, <2>2
<1>4. CoversStartRight /\ PlansNameADevice /\ WindowIsKept /\ PricedOnItsDevice
  BY DEF PlanInit, CoversStartRight, PlansNameADevice, WindowIsKept, PricedOnItsDevice
<1> QED BY <1>1, <1>2, <1>3, <1>4 DEF PlanInv

\* Steps that change nothing but the cart.
LEMMA CartChanges ==
    ASSUME PlanInv, UNCHANGED <<shelf, register, dealt, covers, planDay>>,
           NEW devices \in SUBSET Handsets, NEW line, basket' = [devices |-> devices, line |-> line],
           line # NoLine => RightLine(line, devices, dealt)
    PROVE  PlanInv'
<1>1. basket'.devices = devices /\ basket'.line = line
  OBVIOUS
<1>2. PlanTypeOK'
  BY <1>1 DEF PlanInv, PlanTypeOK
<1>3. LineIsRight'
  BY <1>1 DEF LineIsRight
<1>4. RegisterIsRight'
  BY DEF PlanInv, RegisterIsRight
<1>5. CoversStartRight'
  BY DEF PlanInv, CoversStartRight, StartsByWarranty, StartsInTime
<1>6. PlansNameADevice' /\ WindowIsKept' /\ PricedOnItsDevice'
  BY DEF PlanInv, PlansNameADevice, WindowIsKept, PricedOnItsDevice
<1> QED BY <1>2, <1>3, <1>4, <1>5, <1>6 DEF PlanInv

LEMMA PickKeepsPlans ==
    ASSUME PlanInv, NEW h \in Handsets, PickDevice(h)
    PROVE  PlanInv'
<1>1. PICK line : line = basket.line
  OBVIOUS
<1>2. PICK devices : devices = basket.devices \cup {h}
  OBVIOUS
<1>3. devices \in SUBSET Handsets
  BY <1>2 DEF PlanInv, PlanTypeOK
<1>4. basket' = [devices |-> devices, line |-> line]
  BY <1>1, <1>2 DEF PickDevice, PlanInv, PlanTypeOK
<1>5. line # NoLine => RightLine(line, devices, dealt)
  BY <1>1, <1>2 DEF PlanInv, LineIsRight, RightLine
<1>6. UNCHANGED <<shelf, register, dealt, covers, planDay>>
  BY DEF PickDevice
<1> QED BY <1>3, <1>4, <1>5, <1>6, CartChanges

LEMMA DropKeepsPlans ==
    ASSUME PlanInv, NEW h \in Handsets, DropDevice(h)
    PROVE  PlanInv'
<1>1. PICK devices : devices = basket.devices \ {h}
  OBVIOUS
<1>2. PICK line : line = basket'.line
  OBVIOUS
<1>3. /\ basket' = [devices |-> devices, line |-> line]
      /\ line = NoLine \/ (line = basket.line /\ line.serial # h)
  BY <1>1, <1>2 DEF DropDevice
<1>4. devices \in SUBSET Handsets
  BY <1>1 DEF PlanInv, PlanTypeOK
<1>5. line # NoLine => RightLine(line, devices, dealt)
  BY <1>1, <1>3 DEF PlanInv, LineIsRight, RightLine
<1>6. UNCHANGED <<shelf, register, dealt, covers, planDay>>
  BY DEF DropDevice
<1> QED BY <1>3, <1>4, <1>5, <1>6, CartChanges

LEMMA LineIsPut ==
    ASSUME PlanInv, NEW p \in Plans, NEW item, NEW unit, NEW kind, PutLine(p, item, unit, kind),
           kind \in {"cart", "earlier", "own"}, unit \in Handsets \cup OwnImeis \cup {NoDevice},
           unit \in Handsets => item = HandsetItem[unit].item,
           kind = "cart" => item # NoItem /\ unit \in basket.devices \cup {NoDevice},
           kind = "earlier" => unit \in Handsets /\ dealt[unit].sold # {},
           kind = "own" => unit \in Handsets \cup OwnImeis
    PROVE  PlanInv'
<1>1. PICK devices \in SUBSET Handsets : devices = basket.devices
  BY DEF PlanInv, PlanTypeOK
<1>2. PICK price : price = PlanPrice(p, item, unit, kind, devices)
  OBVIOUS
<1>3. PICK line : line = [plan |-> p.name, item |-> item, serial |-> unit, kind |-> kind, price |-> price]
  OBVIOUS
<1>4. basket' = [devices |-> devices, line |-> line]
  BY <1>1, <1>2, <1>3 DEF PutLine, PlanInv, PlanTypeOK
<1>5. line.plan = p.name /\ line.item = item /\ line.serial = unit /\ line.kind = kind
  BY <1>3
<1>6. RightLine(line, devices, dealt)
  BY <1>1, <1>5 DEF RightLine
<1>7. UNCHANGED <<shelf, register, dealt, covers, planDay>>
  BY DEF PutLine
<1> QED BY <1>4, <1>6, <1>7, CartChanges

LEMMA PlanForCartKeeps ==
    ASSUME PlanInv, NEW p \in Plans, NEW h \in Handsets, NEW unit, PlanForCart(p, h, unit)
    PROVE  PlanInv'
<1>1. PICK item : item = HandsetItem[h].item
  OBVIOUS
<1>2. PutLine(p, item, unit, "cart") /\ unit \in {h, NoDevice} /\ h \in basket.devices
  BY <1>1 DEF PlanForCart
<1>3. item # NoItem /\ NoDevice \notin Handsets
  BY <1>1, PlansAssumption
<1>4. unit \in Handsets => item = HandsetItem[unit].item
  BY <1>1, <1>2, <1>3
<1> QED BY <1>2, <1>3, <1>4, LineIsPut

LEMMA PlanForEarlierKeeps ==
    ASSUME PlanInv, NEW p \in Plans, NEW h \in Handsets, PlanForEarlier(p, h)
    PROVE  PlanInv'
<1>1. PICK item : item = HandsetItem[h].item
  OBVIOUS
<1>2. PutLine(p, item, h, "earlier") /\ dealt[h].sold # {}
  BY <1>1 DEF PlanForEarlier, PreviousBill
<1> QED BY <1>1, <1>2, LineIsPut

LEMMA PlanForOwnKeeps ==
    ASSUME PlanInv, NEW p \in Plans, NEW imei \in OwnImeis \cup Handsets, PlanForOwn(p, imei)
    PROVE  PlanInv'
<1>1. PICK item : item = IF imei \in Handsets THEN HandsetItem[imei].item ELSE NoItem
  OBVIOUS
<1>2. PutLine(p, item, imei, "own")
  BY <1>1 DEF PlanForOwn
<1> QED BY <1>1, <1>2, LineIsPut

LEMMA EmptyKeepsPlans == ASSUME PlanInv, EmptyTheBasket PROVE PlanInv'
<1>1. /\ basket' = [devices |-> {}, line |-> NoLine]
      /\ UNCHANGED <<shelf, register, dealt, covers, planDay>>
  BY DEF EmptyTheBasket, EmptyBasket
<1> QED BY <1>1, CartChanges

LEMMA NextDayKeepsPlans == ASSUME PlanInv, PlanNextDay PROVE PlanInv'
<1>1. PICK day \in Nat \ {0} : day = planDay
  BY DEF PlanInv, PlanTypeOK
<1>2. planDay' = day + 1 /\ day + 1 \in 1..LastPlanDay
  BY <1>1, PlansAssumption DEF PlanNextDay, PlanInv, PlanTypeOK
<1>3. UNCHANGED <<shelf, register, dealt, basket, covers>>
  BY DEF PlanNextDay
<1>4. 1..day \subseteq 1..(day + 1)
  BY <1>1
<1>5. PlanTypeOK'
  <2>1. dealt \in [Handsets -> [sold : SUBSET (1..(day + 1)), back : SUBSET (1..(day + 1))]]
    <3> SUFFICES ASSUME NEW h \in Handsets
                 PROVE  dealt[h] \in [sold : SUBSET (1..(day + 1)), back : SUBSET (1..(day + 1))]
      BY DEF PlanInv, PlanTypeOK
    <3>1. dealt[h] \in [sold : SUBSET (1..day), back : SUBSET (1..day)]
      BY <1>1 DEF PlanInv, PlanTypeOK
    <3> QED BY <1>4, <3>1
  <2>2. \A c \in covers : c.bought \in 1..(day + 1)
    BY <1>1, <1>4 DEF PlanInv, PlanTypeOK
  <2> QED BY <1>2, <1>3, <2>1, <2>2 DEF PlanInv, PlanTypeOK
<1>6. LineIsRight' /\ CoversStartRight'
  BY <1>3 DEF PlanInv, LineIsRight, RightLine, CoversStartRight, StartsByWarranty, StartsInTime
<1>7. PlansNameADevice' /\ WindowIsKept' /\ PricedOnItsDevice'
  BY <1>3 DEF PlanInv, PlansNameADevice, WindowIsKept, PricedOnItsDevice
<1>8. RegisterIsRight'
  <2> SUFFICES ASSUME NEW h \in Handsets
               PROVE  /\ HandsetItem[h].base = 0 => register[h].base = 0
                      /\ HandsetItem[h].base > 0 /\ shelf[h] = "Sold" => register[h].base > 0
                      /\ register[h].base <= (day + 1) + HandsetItem[h].base
    BY <1>2, <1>3 DEF RegisterIsRight
  <2>1. PICK n \in Nat : n = HandsetItem[h].base
    BY PlansAssumption
  <2>2. PICK m \in Nat : m = register[h].base
    BY DEF PlanInv, PlanTypeOK
  <2>3. (n = 0 => m = 0) /\ (n > 0 /\ shelf[h] = "Sold" => m > 0) /\ m <= day + n
    BY <1>1, <2>1, <2>2 DEF PlanInv, RegisterIsRight
  <2> QED BY <1>1, <2>1, <2>2, <2>3
<1> QED BY <1>5, <1>6, <1>7, <1>8 DEF PlanInv

LEMMA ReturnKeepsPlans ==
    ASSUME PlanInv, NEW h \in Handsets, DeviceReturns(h)
    PROVE  PlanInv'
<1>1. /\ shelf' = [shelf EXCEPT ![h] = "InStock"]
      /\ register' = [register EXCEPT ![h].status = "Returned"]
      /\ dealt' = [dealt EXCEPT ![h].back = @ \cup {planDay}]
      /\ covers' = {c \in covers : c.serial # h}
      /\ UNCHANGED <<basket, planDay>>
  BY DEF DeviceReturns
<1>2. planDay \in 1..planDay
  BY DEF PlanInv, PlanTypeOK
<1>3. /\ register' \in [Handsets -> [status : {"none", "Owned", "Returned"}, base : Nat]]
      /\ \A g \in Handsets : register'[g].base = register[g].base
  <2>1. register \in [Handsets -> [status : {"none", "Owned", "Returned"}, base : Nat]]
    BY DEF PlanInv, PlanTypeOK
  <2> QED BY <1>1, <2>1
<1>4. dealt' \in [Handsets -> [sold : SUBSET (1..planDay), back : SUBSET (1..planDay)]]
      /\ \A g \in Handsets : dealt[g].sold \subseteq dealt'[g].sold /\ dealt[g].back \subseteq dealt'[g].back
  <2>1. dealt \in [Handsets -> [sold : SUBSET (1..planDay), back : SUBSET (1..planDay)]]
    BY DEF PlanInv, PlanTypeOK
  <2> QED BY <1>1, <1>2, <2>1
<1>5. shelf' \in [Handsets -> {"InStock", "Sold"}] /\ \A g \in Handsets : shelf'[g] = "Sold" => shelf[g] = "Sold"
  BY <1>1 DEF PlanInv, PlanTypeOK
<1>6. PlanTypeOK'
  BY <1>1, <1>3, <1>4, <1>5 DEF PlanInv, PlanTypeOK
<1>7. LineIsRight'
  BY <1>1, <1>4 DEF PlanInv, LineIsRight, RightLine
<1>8. RegisterIsRight'
  BY <1>1, <1>3, <1>5 DEF PlanInv, RegisterIsRight
<1>9. CoversStartRight'
  BY <1>1, <1>3, <1>5 DEF PlanInv, CoversStartRight, StartsByWarranty, StartsInTime
<1>10. PlansNameADevice' /\ WindowIsKept' /\ PricedOnItsDevice'
  <2>1. \A c \in covers' : CoverIsRight(c, dealt)
    BY <1>1, CoversAreRight DEF PlanInv
  <2>2. PICK deals : deals = dealt'
    OBVIOUS
  <2>3. \A c \in covers' : CoverIsRight(c, deals)
    BY <1>4, <2>1, <2>2, CoverStaysRight
  <2> QED BY <2>2, <2>3, CoversAreRight
<1> QED BY <1>6, <1>7, <1>8, <1>9, <1>10 DEF PlanInv

\* A bill, with or without a plan.
LEMMA BillKeepsPlans ==
    ASSUME PlanInv, BillBasket
    PROVE  PlanInv'
<1>1. PICK devices \in SUBSET Handsets : devices = basket.devices
  BY DEF PlanInv, PlanTypeOK
<1>2. PICK books : books = Registered(basket.devices)
  OBVIOUS
<1>3. PICK sales : sales = SalesWith(basket.devices)
  OBVIOUS
<1>4. /\ register' = books /\ dealt' = sales /\ planDay' = planDay
      /\ shelf' = [h \in Handsets |-> IF h \in devices THEN "Sold" ELSE shelf[h]]
      /\ \A h \in devices : shelf[h] = "InStock"
      /\ basket' = [devices |-> {}, line |-> NoLine]
  BY <1>1, <1>2, <1>3 DEF BillBasket, SalesWith, EmptyBasket
<1>5. IF basket.line = NoLine THEN covers' = covers
      ELSE \E c \in PlanOf(basket.line, basket.devices, books, sales) : covers' = covers \cup {c}
  BY <1>2, <1>3 DEF BillBasket, SalesWith
<1>6. /\ books \in [Handsets -> [status : Standing, base : Nat]]
      /\ \A h \in Handsets :
           /\ HandsetItem[h].base = 0 => books[h].base = 0
           /\ HandsetItem[h].base > 0 /\ (shelf[h] = "Sold" \/ h \in devices) => books[h].base > 0
           /\ books[h].base <= planDay + HandsetItem[h].base
           /\ IF h \in devices /\ HandsetItem[h].base > 0
              THEN books[h].base = planDay + HandsetItem[h].base
              ELSE books[h].base = register[h].base
  BY <1>1, <1>2, RegisterOfABill
<1>7. /\ sales \in [Handsets -> Dealings]
      /\ \A h \in Handsets : dealt[h].sold \subseteq sales[h].sold /\ dealt[h].back \subseteq sales[h].back
  BY <1>3, SalesOfABill
<1>8. \A h \in Handsets : shelf'[h] = IF h \in devices THEN "Sold" ELSE shelf[h]
  BY <1>4
\* Each plan in force is an old one or the new one.
<1>9. ASSUME NEW c \in covers', c \notin covers
      PROVE  /\ c.serial \in Handsets \cup OwnImeis \cup {NoDevice}
             /\ c.bought = planDay /\ c.start \in Nat
             /\ c.serial \in Handsets => StartsByWarranty(c)
             /\ c.serial \in Handsets /\ (shelf[c.serial] = "Sold" \/ c.serial \in devices) =>
                  c.start <= c.bought \/ c.start <= books[c.serial].base + 1
             /\ CoverIsRight(c, sales)
  <2>1. basket.line # NoLine /\ c \in PlanOf(basket.line, basket.devices, books, sales)
    BY <1>5, <1>9
  <2> QED BY <1>1, <1>2, <1>3, <2>1, NewCover
<1>10. ASSUME NEW c \in covers
       PROVE  /\ c.serial \in Handsets \cup OwnImeis \cup {NoDevice}
              /\ c.bought \in 1..planDay /\ c.start \in Nat
              /\ c.serial \in Handsets => StartsByWarranty(c)
              /\ c.serial \in Handsets /\ shelf[c.serial] = "Sold" => StartsInTime(c)
              /\ CoverIsRight(c, dealt)
  BY CoversAreRight DEF PlanInv, PlanTypeOK, CoversStartRight
<1>11. PlanTypeOK'
  <2>1. shelf' \in [Handsets -> {"InStock", "Sold"}]
    BY <1>4 DEF PlanInv, PlanTypeOK
  <2>2. \A c \in covers' : /\ c.serial \in Handsets \cup OwnImeis \cup {NoDevice}
                           /\ c.bought \in 1..planDay /\ c.start \in Nat
    <3>1. planDay \in 1..planDay
      BY DEF PlanInv, PlanTypeOK
    <3> QED BY <1>9, <1>10, <3>1
  <2>3. basket' = [devices |-> basket'.devices, line |-> basket'.line] /\ basket'.devices \subseteq Handsets
    BY <1>4
  <2>4. planDay \in 1..LastPlanDay
    BY DEF PlanInv, PlanTypeOK
  <2> QED BY <1>4, <1>6, <1>7, <2>1, <2>2, <2>3, <2>4 DEF PlanTypeOK, Standing, Dealings
<1>12. LineIsRight'
  BY <1>4 DEF LineIsRight
<1>13. RegisterIsRight'
  BY <1>4, <1>6, <1>8 DEF RegisterIsRight
<1>14. CoversStartRight'
  <2> SUFFICES ASSUME NEW c \in covers', c.serial \in Handsets
               PROVE  /\ StartsByWarranty(c)
                      /\ shelf'[c.serial] = "Sold" =>
                           c.start <= c.bought \/ c.start <= books[c.serial].base + 1
    BY <1>4 DEF CoversStartRight, StartsByWarranty, StartsInTime
  <2>1. CASE c \notin covers
    BY <1>8, <1>9, <2>1
  <2>2. CASE c \in covers
    <3>1. PICK n \in Nat : n = HandsetItem[c.serial].base
      BY PlansAssumption
    <3>2. PICK day \in Nat : day = planDay
      BY DEF PlanInv, PlanTypeOK
    <3>3. PICK bought \in Nat : bought = c.bought
      BY <1>10, <2>2
    <3>4. PICK start \in Nat : start = c.start
      BY <1>10, <2>2
    <3>5. bought <= day
      BY <1>10, <2>2, <3>2, <3>3
    <3>6. start <= bought \/ (n > 0 /\ start <= bought + n + 1)
      BY <1>10, <2>2, <3>1, <3>3, <3>4 DEF StartsByWarranty
    <3>7. StartsByWarranty(c)
      BY <1>10, <2>2
    <3>8. CASE c.serial \in devices /\ n > 0
      <4>1. books[c.serial].base = day + n
        BY <1>6, <3>1, <3>2, <3>8
      <4>2. start <= bought \/ start <= (day + n) + 1
        BY <3>5, <3>6
      <4> QED BY <3>3, <3>4, <3>7, <4>1, <4>2
    <3>9. CASE c.serial \in devices /\ n = 0
      BY <3>3, <3>4, <3>6, <3>7, <3>9
    <3>10. CASE c.serial \notin devices
      <4>1. books[c.serial].base = register[c.serial].base
        BY <1>6, <3>10
      <4>2. shelf'[c.serial] = shelf[c.serial]
        BY <1>8, <3>10
      <4> QED BY <1>10, <2>2, <4>1, <4>2 DEF StartsInTime
    <3> QED BY <3>1, <3>8, <3>9, <3>10
  <2> QED BY <2>1, <2>2
<1>15. PlansNameADevice' /\ WindowIsKept' /\ PricedOnItsDevice'
  <2>1. ASSUME NEW c \in covers' PROVE CoverIsRight(c, sales)
    <3>1. CASE c \in covers
      BY <1>7, <1>10, <3>1, CoverStaysRight
    <3>2. CASE c \notin covers
      BY <1>9, <3>2
    <3> QED BY <3>1, <3>2
  <2> QED BY <1>4, <2>1, CoversAreRight
<1> QED BY <1>11, <1>12, <1>13, <1>14, <1>15 DEF PlanInv

LEMMA PlanKeeps == PlanInv /\ [PlanNext]_planVars => PlanInv'
<1> SUFFICES ASSUME PlanInv, [PlanNext]_planVars PROVE PlanInv'
  OBVIOUS
<1>1. CASE UNCHANGED planVars
  BY <1>1 DEF planVars, PlanInv, PlanTypeOK, LineIsRight, RightLine, RegisterIsRight, CoversStartRight,
              StartsByWarranty, StartsInTime, PlansNameADevice, WindowIsKept, PricedOnItsDevice
<1>2. ASSUME NEW h \in Handsets,
             \/ PickDevice(h) \/ DropDevice(h) \/ DeviceReturns(h)
             \/ \E p \in Plans : PlanForEarlier(p, h) \/ \E s \in {h, NoDevice} : PlanForCart(p, h, s)
      PROVE  PlanInv'
  BY <1>2, PickKeepsPlans, DropKeepsPlans, ReturnKeepsPlans, PlanForEarlierKeeps, PlanForCartKeeps
<1>3. ASSUME NEW p \in Plans, NEW imei \in OwnImeis \cup Handsets, PlanForOwn(p, imei) PROVE PlanInv'
  BY <1>3, PlanForOwnKeeps
<1> QED BY <1>1, <1>2, <1>3, BillKeepsPlans, EmptyKeepsPlans, NextDayKeepsPlans DEF PlanNext

LEMMA PlanInvSays == PlanInv => PlanTypeOK /\ PlansCover
<1> SUFFICES ASSUME PlanInv PROVE PlanTypeOK /\ PlansCover
  OBVIOUS
<1>1. NoGapInCover
  <2> SUFFICES ASSUME NEW c \in covers, c.serial \in Handsets, shelf[c.serial] = "Sold"
               PROVE  c.start <= Max({c.bought, register[c.serial].base + 1})
    BY DEF NoGapInCover
  <2>1. PICK a \in Int : a = c.bought
    BY DEF PlanInv, PlanTypeOK
  <2>2. PICK b \in Int : b = register[c.serial].base + 1
    BY DEF PlanInv, PlanTypeOK
  <2>3. PICK start \in Int : start = c.start
    BY DEF PlanInv, PlanTypeOK
  <2>4. start <= a \/ start <= b
    BY <2>1, <2>2, <2>3 DEF PlanInv, CoversStartRight, StartsInTime
  <2>5. Max({a, b}) \in {a, b} /\ Max({a, b}) >= a /\ Max({a, b}) >= b
    BY MaxOfTwo
  <2>6. PICK m \in Int : m = Max({a, b})
    BY <2>5
  <2>7. start <= m
    BY <2>4, <2>5, <2>6
  <2> QED BY <2>1, <2>2, <2>3, <2>6, <2>7
<1>2. CataloguesAgree
  BY PlansAssumption DEF CataloguesAgree, AttachOffered, WarrantyOffered, PlanTypes
<1> QED BY <1>1, <1>2 DEF PlanInv, PlansCover

-----------------------------------------------------------------------------
(* The money of a bill                                                     *)

LEMMA DivMod ==
    ASSUME NEW n \in Int, NEW d \in Nat \ {0}
    PROVE  n \div d \in Int /\ n % d \in 0..(d - 1) /\ n = d * (n \div d) + (n % d)
  OBVIOUS
\* A number rounds to one that is at most half a divisor away.
LEMMA RoundedNear ==
    ASSUME NEW n \in Int, NEW d \in Nat \ {0}
    PROVE  /\ Rounded(n, d) \in Int
           /\ 2 * (d * Rounded(n, d) - n) <= d /\ 2 * (n - d * Rounded(n, d)) <= d
<1>1. PICK q \in Int : q = n \div d
  BY DivMod
<1>2. PICK r \in 0..(d - 1) : r = n % d
  BY DivMod
<1>3. n = d * q + r
  BY <1>1, <1>2, DivMod
<1>4. PICK p : p = d * q
  OBVIOUS
<1>5. p \in Int /\ d * (q + 1) = p + d
  BY <1>4
<1>6. Rounded(n, d) = q \/ (Rounded(n, d) = q + 1 /\ 2 * r >= d)
  BY <1>1, <1>2 DEF Rounded
<1>7. CASE Rounded(n, d) = q /\ ~ (2 * r > d)
  BY <1>3, <1>4, <1>5, <1>7
<1>8. CASE Rounded(n, d) = q + 1 /\ 2 * r >= d
  BY <1>3, <1>4, <1>5, <1>8
<1>9. Rounded(n, d) = q => ~ (2 * r > d)
  BY <1>1, <1>2 DEF Rounded
<1> QED BY <1>6, <1>7, <1>8, <1>9
\* ... and passes no multiple of the divisor.
LEMMA RoundedFits ==
    ASSUME NEW n \in Int, NEW d \in Nat \ {0}, NEW m \in Int
    PROVE  /\ n <= d * m => Rounded(n, d) <= m
           /\ n >= d * m => Rounded(n, d) >= m
<1>1. PICK R \in Int : R = Rounded(n, d)
  BY RoundedNear
<1>2. 2 * (d * R - n) <= d /\ 2 * (n - d * R) <= d
  BY <1>1, RoundedNear
<1>3. PICK k \in Int : k = R - m
  OBVIOUS
<1>4. d * R = d * m + d * k
  BY <1>3
<1>5. PICK a \in Int : a = d * m
  OBVIOUS
<1>6. PICK b \in Int : b = d * k
  OBVIOUS
<1>7. k >= 1 => b >= d
  BY <1>6
<1>8. k <= -1 => b <= -d
  BY <1>6
<1>9. n <= a => R <= m
  <2>1. 2 * (a + b - n) <= d
    BY <1>2, <1>4, <1>5, <1>6
  <2>2. n <= a => ~ (b >= d)
    BY <2>1
  <2> QED BY <1>3, <1>7, <2>2
<1>10. n >= a => R >= m
  <2>1. 2 * (n - (a + b)) <= d
    BY <1>2, <1>4, <1>5, <1>6
  <2>2. n >= a => ~ (b <= -d)
    BY <2>1
  <2> QED BY <1>3, <1>8, <2>2
<1> QED BY <1>1, <1>5, <1>9, <1>10

\* The shares of an amount are the amount, whatever was rounded.
LEMMA SplitAddsUp ==
    ASSUME NEW amount \in Int, NEW S, \A i \in S : i \in Int, IsFiniteSet(S), NEW weights \in [S -> Nat]
    PROVE  /\ Split(amount, weights) \in [S -> Int]
           /\ SumFunction(weights) > 0 => SumFunction(Split(amount, weights)) = amount
           /\ SumFunction(weights) = 0 => SumFunction(Split(amount, weights)) = 0
<1>0. PICK shares : shares = Split(amount, weights)
  OBVIOUS
<1>1. PICK live : live = {i \in S : weights[i] > 0}
  OBVIOUS
<1>2. PICK all : all = SumBy(LAMBDA w : w, weights)
  OBVIOUS
<1>3. all = SumFunction(weights)
  <2>1. [i \in S |-> weights[i]] = weights
    OBVIOUS
  <2> QED BY <1>2, <2>1 DEF SumBy
<1>4. all \in Nat
  BY <1>3, SumInNat
<1>5. PICK part : part = [i \in S |-> Rounded(amount * weights[i], all)]
  OBVIOUS
<1>6. ASSUME live = {}
      PROVE  /\ shares \in [S -> Int] /\ SumFunction(shares) = 0 /\ all = 0
  <2>1. \A i \in S : weights[i] = 0
    BY <1>1, <1>6
  <2>2. shares \in [S -> Int] /\ \A i \in S : shares[i] = 0
    <3>1. DOMAIN weights = S
      OBVIOUS
    <3>2. shares = [i \in S |-> IF i \notin live THEN 0
                               ELSE IF i # Max(live) THEN Rounded(amount * weights[i], all)
                               ELSE amount - SumFunction([j \in live \ {i} |-> Rounded(amount * weights[j], all)])]
      BY <1>0, <1>1, <1>2, <3>1 DEF Split
    <3> QED BY <1>6, <3>2
  <2>3. weights \in [S -> Int]
    OBVIOUS
  <2>4. SumFunction(weights) = 0
    BY <2>1, <2>3, SumOfZeros
  <2>5. SumFunction(shares) = 0
    BY <2>2, SumOfZeros
  <2> QED BY <1>3, <2>2, <2>4, <2>5
<1>7. ASSUME live # {}
      PROVE  /\ shares \in [S -> Int] /\ SumFunction(shares) = amount /\ all > 0
  <2>1. PICK m : m = Max(live)
    OBVIOUS
  <2>2. m \in live
    <3>1. live \in SUBSET Int /\ live \subseteq S
      BY <1>1
    <3>2. IsFiniteSet(live)
      BY <3>1, FS_Subset
    <3> QED BY <1>7, <2>1, <3>1, <3>2, HasLargest
  <2>3. all > 0
    <3>1. PICK one : one = [i \in S |-> IF i = m THEN weights[m] ELSE 0]
      OBVIOUS
    <3>2. m \in S /\ weights[m] > 0 /\ weights[m] \in Nat
      BY <1>1, <2>2
    <3>3. one \in [S -> Int] /\ weights \in [S -> Int]
      BY <3>1, <3>2
    <3>4. one[m] = weights[m] /\ \A i \in S : i # m => one[i] = 0
      BY <3>1, <3>2
    <3>5. SumFunction(one) = weights[m]
      BY <3>2, <3>3, <3>4, SumOfOne
    <3>6. \A i \in S : one[i] <= weights[i]
      BY <3>1
    <3>7. SumFunction(one) <= SumFunction(weights)
      BY <3>3, <3>6, SumGrows
    <3> QED BY <1>3, <1>4, <3>2, <3>5, <3>7
  <2>4. part \in [S -> Int]
    <3> SUFFICES ASSUME NEW i \in S PROVE Rounded(amount * weights[i], all) \in Int
      BY <1>5
    <3>1. amount * weights[i] \in Int
      OBVIOUS
    <3> QED BY <1>4, <2>3, <3>1, RoundedNear
  <2>5. PICK others : others = [j \in live \ {m} |-> part[j]]
    OBVIOUS
  <2>6. live \ {m} \in SUBSET S /\ others \in [live \ {m} -> Int]
    BY <1>1, <2>4, <2>5
  <2>7. SumFunction(others) \in Int
    <3>1. IsFiniteSet(live \ {m})
      BY <2>6, FS_Subset
    <3> QED BY <2>6, <3>1, SumInInt
  <2>8. others = [j \in live \ {m} |-> Rounded(amount * weights[j], all)]
    BY <1>5, <2>5, <2>6
  <2>9. shares = [i \in S |-> IF i \notin live THEN 0 ELSE IF i # m THEN part[i]
                              ELSE amount - SumFunction(others)]
    <3>1. DOMAIN weights = S
      OBVIOUS
    <3>2. shares = [i \in S |-> IF i \notin live THEN 0
                               ELSE IF i # m THEN Rounded(amount * weights[i], all)
                               ELSE amount - SumFunction([j \in live \ {i} |-> Rounded(amount * weights[j], all)])]
      BY <1>0, <1>1, <1>2, <2>1, <3>1 DEF Split
    <3> QED BY <1>5, <2>8, <3>2
  <2>10. shares \in [S -> Int]
    BY <2>4, <2>7, <2>9
  <2>11. PICK T : T = live \ {m}
    OBVIOUS
  <2>12. T \in SUBSET S
    BY <2>6, <2>11
  <2>13. others \in [T -> Int]
    BY <2>6, <2>11
  <2>14. m \in S \ T
    BY <1>1, <2>2, <2>11
  <2>15. \A x \in T : others[x] = shares[x]
    BY <1>1, <2>5, <2>9, <2>11
  <2>16. \A x \in S \ T : x # m => shares[x] = 0
    BY <2>9, <2>11
  <2>17. SumFunction(shares) = SumFunction(others) + shares[m]
    BY <2>10, <2>12, <2>13, <2>14, <2>15, <2>16, SumOfPartAndOne
  <2>18. shares[m] = amount - SumFunction(others)
    BY <1>1, <2>2, <2>9
  <2>19. PICK a \in Int : a = SumFunction(others)
    BY <2>7
  <2> QED BY <2>3, <2>10, <2>17, <2>18, <2>19
<1> QED BY <1>0, <1>3, <1>4, <1>6, <1>7

LEMMA CartIsTyped ==
    ASSUME NEW S, NEW cart \in [S -> CartLines]
    PROVE  \A i \in S : /\ cart[i].price \in Nat /\ cart[i].qty \in Nat \ {0}
                        /\ cart[i].gst \in Nat /\ cart[i].tiers \in Seq(Nat)
                        /\ Value(cart[i]) \in Nat
  BY TotalsAssumption DEF Value

\* Shares r of D in proportion to the values v, each rounded but that of m,
\* which is v[m], fall short of D by half a paisa each at most.
LEMMA SharesReach ==
    ASSUME NEW S, IsFiniteSet(S), NEW v \in [S -> Nat], NEW V \in Nat, V = SumFunction(v), V > 0,
           NEW D \in Nat, D <= V, NEW r \in [S -> Int],
           \A j \in S : 2 * (D * v[j] - V * r[j]) <= V,
           NEW ones, ones = [j \in S |-> 1]
    PROVE  2 * (D - SumFunction(r)) <= SumFunction(ones)
<1>1. v \in [S -> Int] /\ ones \in [S -> Nat] /\ ones \in [S -> Int]
  OBVIOUS
<1>2. PICK a : a = [j \in S |-> D * v[j]]
  OBVIOUS
<1>3. PICK c : c = [j \in S |-> V * r[j]]
  OBVIOUS
<1>4. a \in [S -> Int] /\ c \in [S -> Int]
  BY <1>2, <1>3
<1>5. PICK d : d = [j \in S |-> a[j] - c[j]]
  OBVIOUS
<1>6. PICK f : f = [j \in S |-> 2 * d[j]]
  OBVIOUS
<1>7. PICK b : b = [j \in S |-> V * ones[j]]
  OBVIOUS
<1>8. d \in [S -> Int]
  BY <1>4, <1>5
<1>9. f \in [S -> Int] /\ b \in [S -> Int]
  BY <1>1, <1>6, <1>7, <1>8
<1>10. SumFunction(a) = D * V
  BY <1>1, <1>2, SumOfMultiple
<1>11. SumFunction(c) = V * SumFunction(r)
  BY <1>3, SumOfMultiple
<1>12. SumFunction(d) = SumFunction(a) - SumFunction(c)
  BY <1>4, <1>5, SumOfDifference
<1>13. SumFunction(f) = 2 * SumFunction(d)
  BY <1>6, <1>8, SumOfMultiple
<1>14. SumFunction(b) = V * SumFunction(ones)
  BY <1>1, <1>7, SumOfMultiple
<1>15. \A j \in S : f[j] <= b[j]
  <2> SUFFICES ASSUME NEW j \in S PROVE f[j] <= b[j]
    OBVIOUS
  <2>1. f[j] = 2 * (D * v[j] - V * r[j])
    BY <1>2, <1>3, <1>5, <1>6
  <2>2. b[j] = V
    BY <1>7
  <2> QED BY <2>1, <2>2
<1>16. SumFunction(f) <= SumFunction(b)
  BY <1>9, <1>15, SumGrows
<1>17. PICK R \in Int : R = SumFunction(r)
  BY SumInInt
<1>18. PICK N \in Int : N = SumFunction(ones)
  BY <1>1, SumInInt
<1>19. PICK x \in Int : x = D - R
  OBVIOUS
<1>20. D * V - V * R = V * x
  BY <1>19
<1>21. 2 * (V * x) <= V * N
  BY <1>10, <1>11, <1>12, <1>13, <1>14, <1>16, <1>17, <1>18, <1>20
<1>a. 2 * x - N \in Int
  BY <1>18, <1>19
<1>22. PICK k \in Int : k = 2 * x - N
  BY <1>a, Zenon
<1>23. V * k = 2 * (V * x) - V * N
  BY <1>22
<1>24. k >= 1 => V * k >= V
  OBVIOUS
<1>25. PICK y \in Int : y = V * x
  OBVIOUS
<1>26. PICK z \in Int : z = V * N
  OBVIOUS
<1>27. ~ (k >= 1)
  BY <1>21, <1>23, <1>24, <1>25, <1>26
<1> QED BY <1>17, <1>18, <1>19, <1>22, <1>27

\* Lines priced anew are off by half a paisa for each unit at most.
LEMMA PricesReach ==
    ASSUME NEW S, IsFiniteSet(S), NEW v \in [S -> Int], NEW s \in [S -> Int], NEW t \in [S -> Int],
           NEW q \in [S -> Int],
           \A j \in S : 2 * (v[j] - s[j] - t[j]) <= q[j] /\ -(2 * (v[j] - s[j] - t[j])) <= q[j]
    PROVE  LET e == SumFunction(v) - SumFunction(s) - SumFunction(t)
           IN  2 * e <= SumFunction(q) /\ -(2 * e) <= SumFunction(q)
<1>1. PICK u : u = [j \in S |-> s[j] + t[j]]
  OBVIOUS
<1>2. u \in [S -> Int]
  BY <1>1
<1>3. PICK d : d = [j \in S |-> v[j] - u[j]]
  OBVIOUS
<1>4. d \in [S -> Int]
  BY <1>2, <1>3
<1>5. PICK f : f = [j \in S |-> 2 * d[j]]
  OBVIOUS
<1>6. PICK g : g = [j \in S |-> (-2) * d[j]]
  OBVIOUS
<1>7. f \in [S -> Int] /\ g \in [S -> Int]
  BY <1>4, <1>5, <1>6
<1>8. SumFunction(u) = SumFunction(s) + SumFunction(t)
  BY <1>1, SumOfBoth
<1>9. SumFunction(d) = SumFunction(v) - SumFunction(u)
  BY <1>2, <1>3, SumOfDifference
<1>10. SumFunction(f) = 2 * SumFunction(d)
  BY <1>4, <1>5, SumOfMultiple
<1>11. SumFunction(g) = (-2) * SumFunction(d)
  <2>1. -2 \in Int
    OBVIOUS
  <2> QED BY <1>4, <1>6, <2>1, SumOfMultiple
<1>12. \A j \in S : f[j] <= q[j]
  BY <1>1, <1>3, <1>5
<1>13. \A j \in S : g[j] <= q[j]
  BY <1>1, <1>3, <1>6
<1>14. SumFunction(f) <= SumFunction(q)
  BY <1>7, <1>12, SumGrows
<1>15. SumFunction(g) <= SumFunction(q)
  BY <1>7, <1>13, SumGrows
<1>16. SumFunction(v) \in Int /\ SumFunction(s) \in Int /\ SumFunction(t) \in Int
  BY SumInInt
<1> QED BY <1>8, <1>9, <1>10, <1>11, <1>14, <1>15, <1>16

\* A discount is spread over the lines of a cart, at most half a paisa off
\* for each line and for each unit.
LEMMA DiscountSpreads ==
    ASSUME NEW S, IsFiniteSet(S), \A j \in S : j \in Int, NEW cart \in [S -> CartLines],
           NEW D \in Nat, D <= CartValue(cart),
           NEW price, \A i \in S : price[i] = SpreadPrice(cart, D, i)
    PROVE  /\ \A i \in S : price[i] \in Nat
           /\ 2 * Magnitude(CartValue(cart) - D - SumFunction([i \in S |-> price[i] * cart[i].qty]))
                <= SumBy(LAMBDA l : l.qty + 1, cart)
<1>1. \A i \in S : /\ cart[i].price \in Nat /\ cart[i].qty \in Nat \ {0}
                   /\ Value(cart[i]) \in Nat
  BY CartIsTyped
<1>2. PICK v : v = [j \in S |-> Value(cart[j])]
  OBVIOUS
<1>3. v \in [S -> Nat] /\ v \in [S -> Int]
  BY <1>1, <1>2
<1>4. PICK V : V = CartValue(cart)
  OBVIOUS
<1>5. V = SumFunction(v)
  BY <1>2, <1>4 DEF CartValue, SumBy
<1>6. V \in Nat /\ D <= V
  BY <1>3, <1>4, <1>5, SumInNat
<1>7. PICK P : P = {j \in S : cart[j].price > 0}
  OBVIOUS
<1>8. /\ \A j \in S : j \notin P => cart[j].price = 0 /\ v[j] = 0
      /\ \A j \in P : v[j] > 0
  <2>1. ASSUME NEW j \in S, j \notin P PROVE cart[j].price = 0 /\ v[j] = 0
    BY <1>1, <1>2, <1>7, <2>1 DEF Value
  <2>2. ASSUME NEW j \in P PROVE v[j] > 0
    <3>1. j \in S /\ cart[j].price > 0 /\ cart[j].price \in Nat /\ cart[j].qty \in Nat \ {0}
      BY <1>1, <1>7
    <3>2. v[j] = cart[j].price * cart[j].qty
      BY <1>2, <3>1 DEF Value
    <3>3. PICK p \in Nat : p = cart[j].price
      BY <3>1
    <3>4. PICK k \in Nat : k = cart[j].qty
      BY <3>1
    <3>5. p > 0 /\ k > 0 => p * k > 0
      OBVIOUS
    <3> QED BY <3>1, <3>2, <3>3, <3>4, <3>5
  <2> QED BY <2>1, <2>2
<1>9. Min({D, V}) = D
  <2>1. D \in Int /\ V \in Int
    BY <1>6
  <2>2. Min({D, V}) \in {D, V} /\ Min({D, V}) <= D /\ Min({D, V}) <= V
    BY <2>1, MinOfTwo
  <2> QED BY <1>6, <2>2
<1>10. PICK q : q = [j \in S |-> cart[j].qty]
  OBVIOUS
<1>11. PICK ones : ones = [j \in S |-> 1]
  OBVIOUS
<1>12. q \in [S -> Nat] /\ q \in [S -> Int] /\ ones \in [S -> Nat] /\ ones \in [S -> Int]
       /\ \A j \in S : q[j] = cart[j].qty /\ q[j] \in Nat \ {0}
  BY <1>1, <1>10, <1>11
<1>13. SumBy(LAMBDA l : l.qty + 1, cart) = SumFunction(q) + SumFunction(ones)
  <2>1. [j \in S |-> cart[j].qty + 1] = [j \in S |-> q[j] + ones[j]]
    BY <1>10, <1>11
  <2>2. SumFunction([j \in S |-> q[j] + ones[j]]) = SumFunction(q) + SumFunction(ones)
    BY <1>12, SumOfBoth
  <2>3. SumBy(LAMBDA l : l.qty + 1, cart) = SumFunction([j \in S |-> cart[j].qty + 1])
    BY DEF SumBy
  <2> QED BY <2>1, <2>2, <2>3
<1>14. SumFunction(q) \in Nat /\ SumFunction(ones) \in Nat
  BY <1>12, SumInNat
<1>15. PICK t : t = [i \in S |-> price[i] * cart[i].qty]
  OBVIOUS
\* It is enough to know the shares of the lines.
<1>16. ASSUME NEW s \in [S -> Int], \A j \in S : s[j] <= v[j] /\ (j \notin P => s[j] = 0),
              \A j \in S : price[j] = IF j \in P THEN Rounded(v[j] - s[j], q[j]) ELSE 0,
              0 <= 2 * (D - SumFunction(s)), 2 * (D - SumFunction(s)) <= SumFunction(ones)
       PROVE  /\ \A i \in S : price[i] \in Nat
              /\ 2 * Magnitude(V - D - SumFunction(t)) <= SumFunction(q) + SumFunction(ones)
  <2>1. ASSUME NEW j \in S
        PROVE  /\ price[j] \in Nat /\ t[j] \in Int
               /\ 2 * (v[j] - s[j] - t[j]) <= q[j] /\ -(2 * (v[j] - s[j] - t[j])) <= q[j]
    <3>1. t[j] = price[j] * q[j]
      BY <1>12, <1>15
    <3>2. CASE j \in P
      <4>1. PICK n \in Int : n = v[j] - s[j]
        BY <1>3
      <4>2. n >= 0
        BY <1>3, <1>16, <4>1
      <4>3. PICK d \in Nat \ {0} : d = q[j]
        BY <1>12
      <4>4. price[j] = Rounded(n, d)
        BY <1>16, <3>2, <4>1, <4>3
      <4>5. PICK p \in Int : p = Rounded(n, d)
        BY RoundedNear
      <4>6. p >= 0
        <5>1. d * 0 = 0 /\ 0 \in Int
          OBVIOUS
        <5>2. n >= d * 0
          BY <4>2, <5>1
        <5> QED BY <4>5, <5>1, <5>2, RoundedFits
      <4>7. 2 * (d * p - n) <= d /\ 2 * (n - d * p) <= d
        BY <4>5, RoundedNear
      <4>8. PICK y \in Int : y = d * p
        OBVIOUS
      <4>9. t[j] = y
        BY <3>1, <4>3, <4>4, <4>5, <4>8
      <4> QED BY <4>1, <4>3, <4>4, <4>5, <4>6, <4>7, <4>8, <4>9
    <3>3. CASE j \notin P
      <4>1. v[j] = 0 /\ s[j] = 0 /\ price[j] = 0 /\ q[j] \in Nat
        BY <1>8, <1>12, <1>16, <3>3
      <4> QED BY <3>1, <4>1
    <3> QED BY <3>2, <3>3
  <2>2. t \in [S -> Int]
    BY <1>15, <2>1
  <2>3. \A j \in S : 2 * (v[j] - s[j] - t[j]) <= q[j] /\ -(2 * (v[j] - s[j] - t[j])) <= q[j]
    BY <2>1
  <2>4. PICK a \in Int : a = SumFunction(v) - SumFunction(s) - SumFunction(t)
    BY <1>3, <2>2, SumInInt
  <2>5. 2 * a <= SumFunction(q) /\ -(2 * a) <= SumFunction(q)
    BY <1>3, <1>12, <2>2, <2>3, <2>4, PricesReach
  <2>6. PICK b \in Int : b = D - SumFunction(s)
    BY SumInInt
  <2>7. SumFunction(s) \in Int /\ SumFunction(t) \in Int
    BY <2>2, SumInInt
  <2>8. V - D - SumFunction(t) = a - b
    BY <1>5, <1>6, <2>4, <2>6, <2>7
  <2>9. PICK c \in Int : c = V - D - SumFunction(t)
    BY <2>8
  <2>10. 2 * c <= SumFunction(q) + SumFunction(ones) /\ -(2 * c) <= SumFunction(q) + SumFunction(ones)
    BY <1>14, <1>16, <2>5, <2>6, <2>8, <2>9
  <2> QED BY <1>14, <2>1, <2>9, <2>10 DEF Magnitude
<1>17. CASE P = {}
  <2>1. V = 0
    BY <1>3, <1>5, <1>8, <1>17, SumOfZeros
  <2>2. \A i \in S : price[i] = 0
    BY <1>7, <1>8, <1>17 DEF SpreadPrice
  <2>3. PICK s : s = [j \in S |-> 0]
    OBVIOUS
  <2>4. s \in [S -> Int] /\ \A j \in S : s[j] = 0
    BY <2>3
  <2>5. SumFunction(s) = 0
    BY <2>4, SumOfZeros
  <2>6. D = 0
    BY <1>6, <2>1
  <2>7. \A j \in S : s[j] <= v[j] /\ (j \notin P => s[j] = 0)
    BY <1>3, <2>4
  <2>8. \A j \in S : price[j] = IF j \in P THEN Rounded(v[j] - s[j], q[j]) ELSE 0
    BY <1>17, <2>2
  <2>9. 0 <= 2 * (D - SumFunction(s)) /\ 2 * (D - SumFunction(s)) <= SumFunction(ones)
    BY <1>14, <2>5, <2>6
  <2> QED BY <1>4, <1>13, <1>15, <1>16, <2>4, <2>7, <2>8, <2>9
<1>18. CASE P # {}
  <2>1. PICK m : m = Max(P)
    OBVIOUS
  <2>2. m \in P /\ m \in S /\ P \subseteq S
    <3>1. P \in SUBSET Int /\ P \subseteq S
      BY <1>7
    <3>2. IsFiniteSet(P)
      BY <3>1, FS_Subset
    <3> QED BY <1>18, <2>1, <3>1, <3>2, HasLargest
  <2>3. V > 0
    BY <1>3, <1>5, <1>8, <2>2, SumIsPositive
  <2>4. PICK R : R = [j \in S |-> Rounded(D * v[j], V)]
    OBVIOUS
  <2>5. ASSUME NEW j \in S
        PROVE  R[j] \in Int /\ 0 <= R[j] /\ R[j] <= v[j] /\ 2 * (D * v[j] - V * R[j]) <= V
    <3>1. PICK w \in Nat : w = v[j]
      BY <1>3
    <3>2. PICK n \in Int : n = D * w
      OBVIOUS
    <3>3. R[j] = Rounded(n, V)
      BY <2>4, <3>1, <3>2
    <3>4. V \in Nat \ {0}
      BY <1>6, <2>3
    <3>5. n <= V * w /\ n >= V * 0
      <4>1. PICK k \in Nat : k = V - D
        BY <1>6
      <4>2. V * w = D * w + k * w
        BY <1>6, <4>1
      <4>3. k * w >= 0 /\ D * w >= 0
        OBVIOUS
      <4> QED BY <1>6, <3>2, <4>2, <4>3
    <3>6. R[j] \in Int /\ R[j] <= w /\ R[j] >= 0
      <4>1. 0 \in Int /\ w \in Int
        OBVIOUS
      <4>2. Rounded(n, V) \in Int
        BY <3>4, RoundedNear
      <4>3. Rounded(n, V) <= w
        BY <3>4, <3>5, <4>1, RoundedFits
      <4>4. Rounded(n, V) >= 0
        BY <3>4, <3>5, <4>1, RoundedFits
      <4> QED BY <3>3, <4>2, <4>3, <4>4
    <3>7. 2 * (n - V * R[j]) <= V
      BY <3>3, <3>4, RoundedNear
    <3> QED BY <3>1, <3>2, <3>6, <3>7
  <2>6. R \in [S -> Int]
    BY <2>4, <2>5
  <2>7. PICK T : T = P \ {m}
    OBVIOUS
  <2>8. T \in SUBSET S /\ m \in S \ T
    BY <2>2, <2>7
  <2>9. PICK others : others = [j \in T |-> R[j]]
    OBVIOUS
  <2>10. others \in [T -> Int]
    BY <2>6, <2>8, <2>9
  <2>11. PICK o \in Int : o = SumFunction(others)
    <3>1. IsFiniteSet(T)
      BY <2>8, FS_Subset
    <3> QED BY <2>10, <3>1, SumInInt
  <2>12. PICK x \in Int : x = v[m]
    BY <1>3, <2>2
  <2>c. PICK z \in Int : z = D - o
    OBVIOUS
  <2>d. Min({z, x}) \in {z, x} /\ Min({z, x}) <= z /\ Min({z, x}) <= x
    BY MinOfTwo
  <2>13. PICK y \in Int : y = Min({D - o, x})
    BY <2>c, <2>d
  <2>14. y \in {D - o, x} /\ y <= D - o /\ y <= x
    BY <2>13, <2>c, <2>d
  <2>15. PICK s : s = [j \in S |-> IF j \in T THEN R[j] ELSE IF j = m THEN y ELSE 0]
    OBVIOUS
  <2>16. PICK r : r = [j \in S |-> IF j \in T THEN R[j] ELSE IF j = m THEN x ELSE 0]
    OBVIOUS
  <2>17. s \in [S -> Int] /\ r \in [S -> Int]
    BY <2>6, <2>15, <2>16
  <2>18. SumFunction(s) = o + y
    <3>1. \A j \in T : others[j] = s[j]
      BY <2>8, <2>9, <2>15
    <3>2. \A j \in S \ T : j # m => s[j] = 0
      BY <2>15
    <3>3. s \in [S -> Int]
      BY <2>17
    <3>4. T \in SUBSET S
      BY <2>8
    <3>5. m \in S \ T
      BY <2>8
    <3>6. SumFunction(s) = SumFunction(others) + s[m]
      BY <2>10, <3>1, <3>2, <3>3, <3>4, <3>5, SumOfPartAndOne
    <3> QED BY <2>8, <2>11, <2>15, <3>6
  <2>19. SumFunction(r) = o + x
    <3>1. \A j \in T : others[j] = r[j]
      BY <2>8, <2>9, <2>16
    <3>2. \A j \in S \ T : j # m => r[j] = 0
      BY <2>16
    <3>3. r \in [S -> Int]
      BY <2>17
    <3>4. T \in SUBSET S
      BY <2>8
    <3>5. m \in S \ T
      BY <2>8
    <3>6. SumFunction(r) = SumFunction(others) + r[m]
      BY <2>10, <3>1, <3>2, <3>3, <3>4, <3>5, SumOfPartAndOne
    <3> QED BY <2>8, <2>11, <2>16, <3>6
  <2>20. \A j \in S : 2 * (D * v[j] - V * r[j]) <= V
    <3> SUFFICES ASSUME NEW j \in S PROVE 2 * (D * v[j] - V * r[j]) <= V
      OBVIOUS
    <3>1. CASE j \in T
      BY <2>5, <2>16, <3>1
    <3>2. CASE j = m
      <4>1. r[j] = x /\ v[j] = x /\ x \in Nat
        BY <1>3, <2>8, <2>12, <2>16, <3>2
      <4>2. PICK k \in Nat : k = V - D
        BY <1>6
      <4>3. V * x = D * x + k * x
        BY <1>6, <4>1, <4>2
      <4>4. k * x >= 0 /\ D * x \in Int /\ k * x \in Int
        BY <4>1
      <4> QED BY <1>6, <4>1, <4>3, <4>4
    <3>3. CASE j \notin T /\ j # m
      <4>1. r[j] = 0 /\ v[j] = 0
        BY <1>8, <2>7, <2>16, <3>3
      <4> QED BY <1>6, <4>1
    <3> QED BY <3>1, <3>2, <3>3
  <2>21. 2 * (D - SumFunction(r)) <= SumFunction(ones)
    BY <1>3, <1>5, <1>6, <1>11, <2>3, <2>17, <2>20, SharesReach
  <2>22. 0 <= 2 * (D - SumFunction(s)) /\ 2 * (D - SumFunction(s)) <= SumFunction(ones)
    BY <1>14, <2>14, <2>18, <2>19, <2>21
  <2>23. \A j \in S : s[j] <= v[j] /\ (j \notin P => s[j] = 0)
    <3> SUFFICES ASSUME NEW j \in S PROVE s[j] <= v[j] /\ (j \notin P => s[j] = 0)
      OBVIOUS
    <3>1. CASE j \in T
      BY <2>5, <2>7, <2>15, <3>1
    <3>2. CASE j = m
      BY <2>2, <2>8, <2>12, <2>14, <2>15, <3>2
    <3>3. CASE j \notin T /\ j # m
      BY <1>3, <2>15, <3>3
    <3> QED BY <3>1, <3>2, <3>3
  <2>24. \A j \in S : price[j] = IF j \in P THEN Rounded(v[j] - s[j], q[j]) ELSE 0
    <3>1. \A j \in S : Min({Rounded(Min({D, V}) * Value(cart[j]), V), Value(cart[j])}) = R[j]
      <4> SUFFICES ASSUME NEW j \in S
                   PROVE  Min({Rounded(Min({D, V}) * Value(cart[j]), V), Value(cart[j])}) = R[j]
        OBVIOUS
      <4>1. Rounded(Min({D, V}) * Value(cart[j]), V) = R[j] /\ Value(cart[j]) = v[j]
        BY <1>2, <1>9, <2>4
      <4>2. R[j] \in Int /\ v[j] \in Int /\ R[j] <= v[j]
        BY <1>3, <2>5
      <4>3. Min({R[j], v[j]}) = R[j]
        <5>1. PICK a \in Int : a = R[j]
          BY <4>2
        <5>2. PICK b \in Int : b = v[j]
          BY <4>2
        <5>3. Min({a, b}) \in {a, b} /\ Min({a, b}) <= a /\ Min({a, b}) <= b
          BY MinOfTwo
        <5> QED BY <4>2, <5>1, <5>2, <5>3
      <4> QED BY <4>1, <4>3
    <3>2. [j \in P \ {m} |-> Min({Rounded(Min({D, V}) * Value(cart[j]), V), Value(cart[j])})] = others
      BY <2>7, <2>8, <2>9, <3>1
    <3>3. {j \in DOMAIN cart : cart[j].price > 0} = P
      BY <1>7
    <3> SUFFICES ASSUME NEW j \in S
                 PROVE  price[j] = IF j \in P THEN Rounded(v[j] - s[j], q[j]) ELSE 0
      OBVIOUS
    <3>4. SpreadPrice(cart, D, j)
            = IF j \notin P THEN cart[j].price
              ELSE Rounded(Value(cart[j])
                     - (IF j = m
                        THEN Min({Min({D, V}) - SumFunction([k \in P \ {j} |-> Min({Rounded(Min({D, V}) * Value(cart[k]), V), Value(cart[k])})]), Value(cart[j])})
                        ELSE Min({Rounded(Min({D, V}) * Value(cart[j]), V), Value(cart[j])})), cart[j].qty)
      BY <1>4, <2>1, <3>3 DEF SpreadPrice
    <3>5. CASE j \notin P
      BY <1>8, <3>4, <3>5
    <3>6. CASE j = m
      <4>1. SpreadPrice(cart, D, j) = Rounded(Value(cart[j]) - Min({Min({D, V}) - SumFunction(others), Value(cart[j])}), cart[j].qty)
        BY <2>2, <3>2, <3>4, <3>6
      <4>2. Value(cart[j]) = x /\ x = v[j] /\ cart[j].qty = q[j] /\ s[j] = y
        BY <1>2, <1>12, <2>8, <2>12, <2>15, <3>6
      <4> QED BY <1>9, <2>2, <2>11, <2>13, <3>6, <4>1, <4>2
    <3>7. CASE j \in P /\ j # m
      <4>1. SpreadPrice(cart, D, j) = Rounded(Value(cart[j]) - R[j], cart[j].qty)
        BY <3>1, <3>4, <3>7
      <4>2. Value(cart[j]) = v[j] /\ cart[j].qty = q[j] /\ s[j] = R[j]
        BY <1>2, <1>12, <2>7, <2>15, <3>7
      <4> QED BY <3>7, <4>1, <4>2
    <3> QED BY <3>5, <3>6, <3>7
  <2> QED BY <1>4, <1>13, <1>15, <1>16, <2>17, <2>22, <2>23, <2>24
<1> QED BY <1>17, <1>18

\* The rates of tax rows, each row having one.
LEMMA RatesAreTyped ==
    ASSUME NEW rows, IsFiniteSet(DOMAIN rows), \A n \in DOMAIN rows : rows[n].rate \in Nat
    PROVE  /\ \A h : RateOf(rows, h) \in Nat
           /\ EffectiveRate(rows) \in Nat
<1>1. ASSUME NEW h PROVE RateOf(rows, h) \in Nat
  <2>1. PICK f : f = [i \in DOMAIN rows |-> IF rows[i].head = h THEN rows[i].rate ELSE 0]
    OBVIOUS
  <2>2. f \in [DOMAIN rows -> Nat]
    BY <2>1
  <2>3. RateOf(rows, h) = SumFunction(f)
    BY <2>1 DEF RateOf, SumBy
  <2> QED BY <2>2, <2>3, SumInNat
<1>2. PICK a \in Nat : a = RateOf(rows, "IGST")
  BY <1>1
<1>3. PICK b \in Nat : b = RateOf(rows, "CGST") + RateOf(rows, "SGST")
  <2>1. RateOf(rows, "CGST") \in Nat /\ RateOf(rows, "SGST") \in Nat
    BY <1>1
  <2> QED BY <2>1
<1>4. PICK c \in Nat : c = RateOf(rows, "CESS")
  BY <1>1
<1>5. Max({a, b}) \in Nat
  <2>1. a \in Int /\ b \in Int
    OBVIOUS
  <2> QED BY <2>1, MaxOfTwo
<1>6. EffectiveRate(rows) = Max({a, b}) + c
  BY <1>2, <1>3, <1>4 DEF EffectiveRate
<1> QED BY <1>1, <1>5, <1>6

LEMMA TemplateIsTyped ==
    ASSUME NEW t \in Templates
    PROVE  IsFiniteSet(DOMAIN t) /\ (\A n \in DOMAIN t : n \in Int /\ t[n].rate \in Nat)
<1>1. t \in Seq(Range(t)) /\ \A n \in DOMAIN t : t[n].rate \in Nat
  BY TotalsAssumption
<1>2. DOMAIN t = 1..Len(t) /\ Len(t) \in Nat
  BY <1>1
<1>3. IsFiniteSet(1..Len(t))
  BY <1>2, FS_Interval
<1> QED BY <1>1, <1>2, <1>3

LEMMA ExemptedIsTyped ==
    ASSUME NEW tiers \in Seq(Nat)
    PROVE  ExemptedValue(tiers) \in Nat
<1>1. PICK found : found = {i \in DOMAIN tiers : tiers[i] > 0}
  OBVIOUS
<1>2. CASE found = {}
  BY <1>1, <1>2 DEF ExemptedValue
<1>3. CASE found # {}
  <2>1. DOMAIN tiers = 1..Len(tiers) /\ Len(tiers) \in Nat
    OBVIOUS
  <2>2. IsFiniteSet(DOMAIN tiers)
    BY <2>1, FS_Interval
  <2>3. IsFiniteSet(found) /\ found \in SUBSET Int /\ found \subseteq DOMAIN tiers
    BY <1>1, <2>1, <2>2, FS_Subset
  <2>4. Min(found) \in DOMAIN tiers
    BY <1>3, <2>3, HasSmallest
  <2>5. tiers[Min(found)] \in Nat
    BY <2>1, <2>4
  <2> QED BY <1>1, <1>3, <2>5 DEF ExemptedValue
<1> QED BY <1>2, <1>3

\* A calculated line is whole, keeps its amount, and its parts are its tax.
LEMMA CalculatedIsTyped ==
    ASSUME NEW l \in CartLines, NEW stored \in BillLines, NEW t \in Templates,
           NEW rows, IsFiniteSet(DOMAIN rows), \A n \in DOMAIN rows : rows[n].rate \in Nat,
           NEW v, v = Calculated(l, stored, rows, t)
    PROVE  /\ v \in BillLines /\ v.amount = stored.amount
           /\ SumBy(LAMBDA p : p, v.parts) \in {v.tax, 0}
<1>1. l.qty \in Nat \ {0} /\ l.gst \in Nat /\ l.tiers \in Seq(Nat)
  BY TotalsAssumption
<1>2. stored.price \in Nat
  BY DEF BillLines
<1>3. PICK exempt \in Int : exempt = Min({ExemptedValue(l.tiers), stored.price})
  <2>1. ExemptedValue(l.tiers) \in Int /\ stored.price \in Int
    BY <1>1, <1>2, ExemptedIsTyped
  <2> QED BY <2>1, MinOfTwo
<1>4. PICK gst \in Nat : gst = GstRate(l, rows)
  BY <1>1, RatesAreTyped DEF GstRate
<1>5. PICK base \in Int : base = stored.price - exempt
  BY <1>2
<1>6. PICK unit \in Int : unit = Rounded(base * 1000000, 100 + gst)
  <2>1. base * 1000000 \in Int /\ 100 + gst \in Nat \ {0}
    OBVIOUS
  <2> QED BY <2>1, RoundedNear
<1>7. PICK taxable \in Int : taxable = Rounded(unit * l.qty, 10000)
  <2>1. unit * l.qty \in Int /\ 10000 \in Nat \ {0}
    BY <1>1
  <2> QED BY <2>1, RoundedNear
<1>8. PICK tax \in Int : tax = base * l.qty - taxable
  <2>1. base * l.qty \in Int
    BY <1>1
  <2> QED BY <2>1
<1>9. PICK spared \in Int : spared = exempt * l.qty
  BY <1>1
<1>10. PICK weights : weights = LineRates(l, t)
  OBVIOUS
<1>11. weights \in [1..4 -> Nat]
  <2>1. \A h : RateOf(t, h) \in Nat
    BY TemplateIsTyped, RatesAreTyped
  <2>2. l.gst \div 2 \in Nat
    BY <1>1
  <2> QED BY <1>1, <1>10, <2>1, <2>2 DEF LineRates
<1>12. PICK parts : parts = Split(tax, weights)
  OBVIOUS
<1>13. /\ parts \in [1..4 -> Int]
       /\ SumFunction(weights) > 0 => SumFunction(parts) = tax
       /\ SumFunction(weights) = 0 => SumFunction(parts) = 0
       /\ SumFunction(weights) \in Nat
  <2>1. PICK S : S = 1..4
    OBVIOUS
  <2>2. IsFiniteSet(S)
    <3>1. 1 \in Int /\ 4 \in Int
      OBVIOUS
    <3>2. IsFiniteSet(1..4)
      BY <3>1, FS_Interval
    <3> QED BY <2>1, <3>2
  <2>3. \A i \in S : i \in Int
    BY <2>1
  <2>4. weights \in [S -> Nat]
    BY <1>11, <2>1
  <2>5. /\ Split(tax, weights) \in [S -> Int]
        /\ SumFunction(weights) > 0 => SumFunction(Split(tax, weights)) = tax
        /\ SumFunction(weights) = 0 => SumFunction(Split(tax, weights)) = 0
    BY <2>2, <2>3, <2>4, SplitAddsUp
  <2>6. SumFunction(weights) \in Nat
    BY <2>2, <2>4, SumInNat
  <2> QED BY <1>12, <2>1, <2>5, <2>6
<1>14. v = [stored EXCEPT !.exempt = spared, !.taxable = taxable, !.net = spared + taxable,
                          !.tax = tax, !.parts = parts]
  BY <1>3, <1>4, <1>5, <1>6, <1>7, <1>8, <1>9, <1>10, <1>12 DEF Calculated
<1>15. v \in BillLines /\ v.amount = stored.amount /\ v.parts = parts /\ v.tax = tax
  <2>1. stored.price \in Nat /\ stored.amount \in Nat
    BY DEF BillLines
  <2>2. stored = [price |-> stored.price, amount |-> stored.amount, exempt |-> stored.exempt,
                  taxable |-> stored.taxable, net |-> stored.net, tax |-> stored.tax,
                  parts |-> stored.parts]
    BY DEF BillLines
  <2>3. v = [price |-> stored.price, amount |-> stored.amount, exempt |-> spared,
             taxable |-> taxable, net |-> spared + taxable, tax |-> tax, parts |-> parts]
    BY <1>14, <2>2
  <2>4. spared + taxable \in Int
    OBVIOUS
  <2> QED BY <1>13, <2>1, <2>3, <2>4 DEF BillLines
<1>16. SumBy(LAMBDA p : p, parts) = SumFunction(parts)
  <2>1. [i \in DOMAIN parts |-> parts[i]] = parts
    BY <1>13
  <2> QED BY <2>1 DEF SumBy
<1> QED BY <1>13, <1>15, <1>16

CartIsRight ==
    /\ \E n \in 1..MaxLines : due.cart \in [1..n -> CartLines]
    /\ due.template \in Templates /\ due.discount <= CartValue(due.cart)

Summed == {"valued", "settled", "submitted", "written", "done"}

\* The sums of a bill's tables, as operators of the tables.
PartsAdd(l) == SumBy(LAMBDA p : p, l.parts) \in {l.tax, 0}
RowsAdd(rows, tax) ==
    SumBy(LAMBDA r : r.rate, rows) > 0 => SumBy(LAMBDA r : r.amount, rows) = tax
WithinHalves(stored, cart, discount) ==
    2 * Magnitude(CartValue(cart) - discount - SumBy(LAMBDA v : v.amount, stored))
        <= SumBy(LAMBDA l : l.qty + 1, cart)
Credited(stored, rows) == SumBy(LAMBDA v : v.net, stored) + SumBy(LAMBDA r : r.amount, rows)

\* What the next steps rest on: the request was right, its lines are there
\* once they are inserted, the header's sums agree once they are written, and
\* a cash bill that is settled was paid what was left to pay.
TotalsInv ==
    /\ TotalsTypeOK
    /\ IF due.stage = "none" THEN lines = <<>> /\ taxes = <<>> ELSE CartIsRight
    /\ due.stage \notin {"none", "asked"} =>
          DOMAIN lines = DOMAIN due.cart /\ WithinHalves(lines, due.cart, due.discount)
    /\ due.stage \in Summed => head.net + head.tax = head.grand
    /\ due.stage \in {"settled", "submitted"} /\ due.kind = "cash" =>
          head.paid = 100 * Rounded(head.grand, 100) - due.prepaid
    /\ \A i \in DOMAIN lines : PartsAdd(lines[i])
    /\ due.stage \in {"written", "done"} => RowsAdd(taxes, head.tax)
    /\ CashBillIsSettled
    /\ due.stage = "done" => head.net = 0 \/ Magnitude(head.grand - Credited(lines, taxes)) <= 2

LEMMA TotalsStarts == TotalsInit => TotalsInv
<1> SUFFICES ASSUME TotalsInit PROVE TotalsInv
  OBVIOUS
<1>1. /\ due = [stage |-> "none", cart |-> <<>>, discount |-> 0, template |-> <<>>,
                kind |-> "cash", prepaid |-> 0]
      /\ lines = <<>> /\ taxes = <<>> /\ head = NoHead
  BY DEF TotalsInit
<1>2. DOMAIN lines = {} /\ DOMAIN taxes = {}
  BY <1>1
<1>3. lines \in [DOMAIN lines -> BillLines]
  BY <1>1
<1>4. TotalsTypeOK
  BY <1>1, <1>2, <1>3 DEF TotalsTypeOK, Stages, SaleKinds, NoHead
<1> QED BY <1>1, <1>2, <1>4 DEF TotalsInv, Summed, CashBillIsSettled

LEMMA CartDomain ==
    ASSUME CartIsRight
    PROVE  /\ IsFiniteSet(DOMAIN due.cart) /\ \A j \in DOMAIN due.cart : j \in Int
           /\ due.cart \in [DOMAIN due.cart -> CartLines]
<1>1. PICK n \in 1..MaxLines : due.cart \in [1..n -> CartLines]
  BY DEF CartIsRight
<1>2. n \in Int /\ 1 \in Int
  BY TotalsAssumption
<1>3. IsFiniteSet(1..n)
  BY <1>2, FS_Interval
<1> QED BY <1>1, <1>2, <1>3

LEMMA FillCartKeeps ==
    ASSUME TotalsInv, NEW n \in 1..MaxLines, NEW cart \in [1..n -> CartLines],
           NEW discount \in BillDiscounts, NEW template \in Templates,
           FillCart(cart, discount, template)
    PROVE  TotalsInv'
<1>1. /\ due.stage = "none" /\ discount <= CartValue(cart)
      /\ due' = [due EXCEPT !.stage = "asked", !.cart = cart, !.discount = discount,
                            !.template = template]
      /\ lines' = lines /\ taxes' = taxes /\ head' = head
  BY DEF FillCart
<1>2. lines = <<>> /\ taxes = <<>> /\ TotalsTypeOK /\ discount \in Nat
  BY <1>1, TotalsAssumption DEF TotalsInv
<1>3. /\ due' \in [stage : Stages, cart : {due'.cart}, discount : Nat, template : {due'.template},
                   kind : SaleKinds, prepaid : Nat]
      /\ due'.stage = "asked" /\ due'.cart = cart /\ due'.template = template
      /\ due'.discount = discount
  BY <1>1, <1>2 DEF TotalsTypeOK, Stages
<1>4. TotalsTypeOK'
  BY <1>1, <1>2, <1>3 DEF TotalsTypeOK
<1>5. CartIsRight'
  BY <1>1, <1>3 DEF CartIsRight
<1>6. DOMAIN lines' = {}
  BY <1>1, <1>2
<1>7. CashBillIsSettled'
  BY <1>3 DEF CashBillIsSettled
<1> QED BY <1>3, <1>4, <1>5, <1>6, <1>7 DEF TotalsInv, Summed

LEMMA InsertKeeps ==
    ASSUME TotalsInv, SpreadAndInsert
    PROVE  TotalsInv'
<1>1. /\ due.stage = "asked"
      /\ lines' = [i \in DOMAIN due.cart |->
                      Inserted(SpreadPrice(due.cart, due.discount, i), due.cart[i].qty)]
      /\ due' = [due EXCEPT !.stage = "inserted"] /\ taxes' = taxes
      /\ head' = [head EXCEPT !.margin = MarginOf(due.cart, lines', due.template)]
  BY DEF SpreadAndInsert
<1>2. TotalsTypeOK /\ CartIsRight
  BY <1>1 DEF TotalsInv
<1>3. PICK S : S = DOMAIN due.cart
  OBVIOUS
<1>4. PICK cart : cart = due.cart
  OBVIOUS
<1>5. cart \in [S -> CartLines]
  BY <1>2, <1>3, <1>4, CartDomain
<1>6. IsFiniteSet(S) /\ \A j \in S : j \in Int
  BY <1>2, <1>3, CartDomain
<1>7. PICK D \in Nat : D = due.discount
  BY <1>2 DEF TotalsTypeOK
<1>8. D <= CartValue(cart)
  BY <1>2, <1>4, <1>7 DEF CartIsRight
<1>9. PICK price : price = [i \in S |-> SpreadPrice(cart, D, i)]
  OBVIOUS
<1>10. \A i \in S : price[i] = SpreadPrice(cart, D, i)
  BY <1>9
<1>11. /\ \A i \in S : price[i] \in Nat
       /\ 2 * Magnitude(CartValue(cart) - D - SumFunction([i \in S |-> price[i] * cart[i].qty]))
            <= SumBy(LAMBDA l : l.qty + 1, cart)
  BY <1>5, <1>6, <1>8, <1>10, DiscountSpreads
<1>12. PICK nil : nil = <<0, 0, 0, 0>>
  OBVIOUS
<1>13. nil \in [1..4 -> Int] /\ \A k \in 1..4 : nil[k] = 0
  BY <1>12
<1>14. SumBy(LAMBDA p : p, nil) = 0
  <2>1. [k \in DOMAIN nil |-> nil[k]] = nil
    BY <1>13
  <2>2. IsFiniteSet(1..4)
    <3>1. 1 \in Int /\ 4 \in Int
      OBVIOUS
    <3> QED BY <3>1, FS_Interval
  <2>3. SumFunction(nil) = 0
    BY <1>13, <2>2, SumOfZeros
  <2> QED BY <2>1, <2>3 DEF SumBy
<1>15. lines' = [i \in S |-> [price |-> price[i], amount |-> price[i] * cart[i].qty, exempt |-> 0,
                              taxable |-> 0, net |-> price[i] * cart[i].qty, tax |-> 0, parts |-> nil]]
  BY <1>1, <1>3, <1>4, <1>7, <1>9, <1>12 DEF Inserted
<1>16. \A i \in S : cart[i].qty \in Nat
  BY <1>5, CartIsTyped
<1>17. lines' \in [S -> BillLines]
  <2> SUFFICES ASSUME NEW i \in S
               PROVE  [price |-> price[i], amount |-> price[i] * cart[i].qty, exempt |-> 0,
                       taxable |-> 0, net |-> price[i] * cart[i].qty, tax |-> 0, parts |-> nil] \in BillLines
    BY <1>15
  <2>1. price[i] \in Nat /\ price[i] * cart[i].qty \in Nat /\ price[i] * cart[i].qty \in Int
    <3>1. PICK p \in Nat : p = price[i]
      BY <1>11
    <3>2. PICK k \in Nat : k = cart[i].qty
      BY <1>16
    <3>3. p * k \in Nat /\ p * k \in Int
      OBVIOUS
    <3> QED BY <3>1, <3>2, <3>3
  <2> QED BY <1>13, <2>1 DEF BillLines
<1>18. /\ due' \in [stage : Stages, cart : {due'.cart}, discount : Nat, template : {due'.template},
                    kind : SaleKinds, prepaid : Nat]
       /\ due'.stage = "inserted" /\ due'.cart = cart /\ due'.template = due.template
       /\ due'.discount = D
  BY <1>1, <1>2, <1>4, <1>7 DEF TotalsTypeOK, Stages
<1>19. DOMAIN lines' = S /\ S = DOMAIN due'.cart
  BY <1>3, <1>4, <1>15, <1>18
<1>20. head' \in [grand : Int, net : Int, tax : Int, paid : Int, rows : Int, owed : Int,
                  rounding : Int, margin : {head'.margin}, breakup : {head'.breakup}]
  BY <1>1, <1>2 DEF TotalsTypeOK
<1>21. TotalsTypeOK'
  BY <1>1, <1>2, <1>17, <1>18, <1>19, <1>20 DEF TotalsTypeOK
<1>22. CartIsRight'
  BY <1>2, <1>4, <1>7, <1>18 DEF CartIsRight
<1>23. \A i \in DOMAIN lines' : PartsAdd(lines'[i])
  BY <1>14, <1>15, <1>19 DEF PartsAdd
<1>24. WithinHalves(lines', due'.cart, due'.discount)
  <2>1. [i \in DOMAIN lines' |-> lines'[i].amount] = [i \in S |-> price[i] * cart[i].qty]
    BY <1>15, <1>19
  <2>2. SumFunction([i \in DOMAIN lines' |-> lines'[i].amount])
          = SumFunction([i \in S |-> price[i] * cart[i].qty])
    BY <2>1
  <2>3. SumBy(LAMBDA v : v.amount, lines') = SumFunction([i \in DOMAIN lines' |-> lines'[i].amount])
    BY DEF SumBy
  <2> QED BY <1>11, <1>18, <2>2, <2>3 DEF WithinHalves
<1>25. CashBillIsSettled'
  BY <1>18 DEF CashBillIsSettled
<1> QED BY <1>18, <1>19, <1>21, <1>22, <1>23, <1>24, <1>25 DEF TotalsInv, Summed

LEMMA TaxRowsKeep ==
    ASSUME TotalsInv, NEW written \in SUBSET DOMAIN due.template, ForceInsertTaxRows(written)
    PROVE  TotalsInv'
<1>1. /\ due.stage = "inserted"
      /\ taxes' = [n \in written |->
                      [head |-> due.template[n].head, rate |-> due.template[n].rate, amount |-> 0]]
      /\ due' = [due EXCEPT !.stage = "taxed"] /\ lines' = lines /\ head' = head
  BY DEF ForceInsertTaxRows
<1>2. TotalsTypeOK /\ CartIsRight /\ DOMAIN lines = DOMAIN due.cart
  BY <1>1 DEF TotalsInv
<1>3. \A n \in written : due.template[n].rate \in Nat
  BY <1>2, TemplateIsTyped DEF CartIsRight
<1>4. /\ due' \in [stage : Stages, cart : {due'.cart}, discount : Nat, template : {due'.template},
                   kind : SaleKinds, prepaid : Nat]
      /\ due'.stage = "taxed" /\ due'.cart = due.cart /\ due'.template = due.template
      /\ due'.discount = due.discount
  BY <1>1, <1>2 DEF TotalsTypeOK, Stages
<1>5. DOMAIN taxes' = written
  BY <1>1
<1>6. \A n \in DOMAIN taxes' : taxes'[n] \in [head : {taxes'[n].head}, rate : Nat, amount : Int]
  BY <1>1, <1>3, <1>5
<1>7. TotalsTypeOK'
  BY <1>1, <1>2, <1>4, <1>5, <1>6 DEF TotalsTypeOK
<1>8. CartIsRight'
  BY <1>2, <1>4 DEF CartIsRight
<1>9. \A i \in DOMAIN lines' : PartsAdd(lines'[i])
  BY <1>1 DEF TotalsInv
<1>10. WithinHalves(lines', due'.cart, due'.discount)
  BY <1>1, <1>4 DEF TotalsInv
<1>11. CashBillIsSettled'
  BY <1>4 DEF CashBillIsSettled
<1> QED BY <1>1, <1>2, <1>4, <1>7, <1>8, <1>9, <1>10, <1>11 DEF TotalsInv, Summed

LEMMA ItemsKeep ==
    ASSUME TotalsInv, NEW lost \in SUBSET DOMAIN lines, WriteItemCalculations(lost)
    PROVE  TotalsInv'
<1>1. due.stage = "taxed" /\ due' = [due EXCEPT !.stage = "valued"] /\ taxes' = taxes
  BY DEF WriteItemCalculations
<1>2. TotalsTypeOK /\ CartIsRight /\ DOMAIN lines = DOMAIN due.cart
      /\ WithinHalves(lines, due.cart, due.discount)
  BY <1>1 DEF TotalsInv
<1>3. PICK S : S = DOMAIN lines
  OBVIOUS
<1>4. IsFiniteSet(S) /\ due.cart \in [S -> CartLines]
  BY <1>2, <1>3, CartDomain
<1>5. lines \in [S -> BillLines]
  BY <1>2, <1>3 DEF TotalsTypeOK
<1>6. due.template \in Templates
  BY <1>2 DEF CartIsRight
<1>7. IsFiniteSet(DOMAIN taxes) /\ \A n \in DOMAIN taxes : taxes[n].rate \in Nat
  <2>1. DOMAIN taxes \in SUBSET DOMAIN due.template
    BY <1>2 DEF TotalsTypeOK
  <2>2. IsFiniteSet(DOMAIN due.template)
    BY <1>6, TemplateIsTyped
  <2>3. IsFiniteSet(DOMAIN taxes)
    BY <2>1, <2>2, FS_Subset
  <2>4. \A n \in DOMAIN taxes : taxes[n] \in [head : {taxes[n].head}, rate : Nat, amount : Int]
    BY <1>2 DEF TotalsTypeOK
  <2> QED BY <2>3, <2>4
<1>8. PICK values : values = [i \in S |-> Calculated(due.cart[i], lines[i], taxes, due.template)]
  OBVIOUS
<1>9. ASSUME NEW i \in S
      PROVE  values[i] \in BillLines /\ values[i].amount = lines[i].amount /\ PartsAdd(values[i])
  <2>1. values[i] = Calculated(due.cart[i], lines[i], taxes, due.template)
    BY <1>8
  <2>2. due.cart[i] \in CartLines /\ lines[i] \in BillLines
    BY <1>4, <1>5
  <2> QED BY <1>6, <1>7, <2>1, <2>2, CalculatedIsTyped DEF PartsAdd
<1>10. values \in [S -> BillLines]
  BY <1>8, <1>9
<1>11. lines' = [i \in S |-> IF i \in lost THEN lines[i] ELSE values[i]]
  BY <1>3, <1>8 DEF WriteItemCalculations
<1>12. head' = [head EXCEPT !.grand = CalculatedTotals(values).grand, !.net = CalculatedTotals(values).net,
                            !.tax = CalculatedTotals(values).grand - CalculatedTotals(values).net]
  BY <1>3, <1>8 DEF WriteItemCalculations
<1>13. PICK grand \in Int : grand = CalculatedTotals(values).grand
  <2>1. PICK f : f = [i \in S |-> values[i].amount]
    OBVIOUS
  <2>2. f \in [S -> Int]
    BY <1>10, <2>1 DEF BillLines
  <2>3. CalculatedTotals(values).grand = SumFunction(f)
    BY <1>10, <2>1 DEF CalculatedTotals, SumBy
  <2> QED BY <1>4, <2>2, <2>3, SumInInt
<1>14. PICK net \in Int : net = CalculatedTotals(values).net
  <2>1. PICK f : f = [i \in S |-> values[i].net]
    OBVIOUS
  <2>2. f \in [S -> Int]
    BY <1>10, <2>1 DEF BillLines
  <2>3. CalculatedTotals(values).net = SumFunction(f)
    BY <1>10, <2>1 DEF CalculatedTotals, SumBy
  <2> QED BY <1>4, <2>2, <2>3, SumInInt
<1>15. /\ head' \in [grand : Int, net : Int, tax : Int, paid : Int, rows : Int, owed : Int,
                     rounding : Int, margin : {head'.margin}, breakup : {head'.breakup}]
       /\ head'.net + head'.tax = head'.grand
  <2>1. head' = [head EXCEPT !.grand = grand, !.net = net, !.tax = grand - net]
    BY <1>12, <1>13, <1>14
  <2>2. head \in [grand : Int, net : Int, tax : Int, paid : Int, rows : Int, owed : Int,
                  rounding : Int, margin : {head.margin}, breakup : {head.breakup}]
    BY <1>2 DEF TotalsTypeOK
  <2>3. grand - net \in Int /\ net + (grand - net) = grand
    OBVIOUS
  <2> QED BY <2>1, <2>2, <2>3
<1>16. lines' \in [S -> BillLines] /\ DOMAIN lines' = S
  BY <1>5, <1>10, <1>11
<1>17. \A i \in DOMAIN lines' : PartsAdd(lines'[i])
  <2>1. \A i \in S : PartsAdd(lines[i])
    BY <1>3 DEF TotalsInv
  <2> QED BY <1>9, <1>11, <1>16, <2>1
<1>18. /\ due' \in [stage : Stages, cart : {due'.cart}, discount : Nat, template : {due'.template},
                    kind : SaleKinds, prepaid : Nat]
       /\ due'.stage = "valued" /\ due'.cart = due.cart /\ due'.template = due.template
       /\ due'.discount = due.discount
  BY <1>1, <1>2 DEF TotalsTypeOK, Stages
<1>19. WithinHalves(lines', due'.cart, due'.discount)
  <2>1. \A i \in S : lines'[i].amount = lines[i].amount
    BY <1>9, <1>11
  <2>2. [i \in DOMAIN lines' |-> lines'[i].amount] = [i \in DOMAIN lines |-> lines[i].amount]
    BY <1>3, <1>16, <2>1
  <2>3. SumBy(LAMBDA v : v.amount, lines') = SumBy(LAMBDA v : v.amount, lines)
    <3>1. SumBy(LAMBDA v : v.amount, lines') = SumFunction([i \in DOMAIN lines' |-> lines'[i].amount])
      BY DEF SumBy
    <3>2. SumBy(LAMBDA v : v.amount, lines) = SumFunction([i \in DOMAIN lines |-> lines[i].amount])
      BY DEF SumBy
    <3> QED BY <2>2, <3>1, <3>2
  <2>4. WithinHalves(lines', due.cart, due.discount)
    BY <1>2, <2>3 DEF WithinHalves
  <2> QED BY <1>18, <2>4
<1>20. TotalsTypeOK'
  BY <1>1, <1>2, <1>3, <1>15, <1>16, <1>18 DEF TotalsTypeOK
<1>21. CartIsRight'
  BY <1>2, <1>18 DEF CartIsRight
<1>22. CashBillIsSettled'
  BY <1>18 DEF CashBillIsSettled
<1> QED BY <1>2, <1>3, <1>15, <1>16, <1>17, <1>18, <1>19, <1>20, <1>21, <1>22 DEF TotalsInv, Summed

\* The part of it that needs no arithmetic.
LEMMA RoundedIsInt == ASSUME NEW n \in Int, NEW d \in Nat \ {0} PROVE Rounded(n, d) \in Int
  BY RoundedNear

LEMMA PaymentKeeps ==
    ASSUME TotalsInv, NEW kind \in SaleKinds, NEW prepaid \in {0, 100}, NEW off \in Tenders,
           RoundPayment(kind, prepaid, off)
    PROVE  TotalsInv'
<1> DEFINE expected == 100 * Rounded(head.grand, 100) - prepaid
           tendered == Max({0, expected + off})
           asGiven  == kind = "credit" \/ (kind = "supplier" /\ expected - tendered > 100)
           stage    == IF ~asGiven /\ Magnitude(expected - tendered) > 100 THEN "failed" ELSE "settled"
           paid     == IF asGiven THEN tendered ELSE expected
           rows     == IF asGiven \/ tendered = 0 THEN tendered ELSE expected
<1>1. expected = 100 * Rounded(head.grand, 100) - prepaid
  OBVIOUS
<1>2. tendered = Max({0, expected + off})
  OBVIOUS
<1>3. asGiven = (kind = "credit" \/ (kind = "supplier" /\ expected - tendered > 100))
  OBVIOUS
<1>4. stage = IF ~asGiven /\ Magnitude(expected - tendered) > 100 THEN "failed" ELSE "settled"
  OBVIOUS
<1>5. paid = IF asGiven THEN tendered ELSE expected
  OBVIOUS
<1>6. rows = IF asGiven \/ tendered = 0 THEN tendered ELSE expected
  OBVIOUS
<1>7. /\ due.stage = "valued"
      /\ due' = [due EXCEPT !.stage = stage, !.kind = kind, !.prepaid = prepaid]
      /\ head' = [head EXCEPT !.paid = paid, !.rows = rows]
      /\ lines' = lines /\ taxes' = taxes
  BY DEF RoundPayment
<1> HIDE DEF expected, tendered, asGiven, stage, paid, rows
<1>8. /\ TotalsTypeOK /\ CartIsRight /\ DOMAIN lines = DOMAIN due.cart
      /\ WithinHalves(lines, due.cart, due.discount)
      /\ head.net + head.tax = head.grand
      /\ \A i \in DOMAIN lines : PartsAdd(lines[i])
  BY <1>7 DEF TotalsInv, Summed
<1>9. expected \in Int
  <2>1. head.grand \in Int /\ 100 \in Nat \ {0}
    BY <1>8 DEF TotalsTypeOK
  <2>2. Rounded(head.grand, 100) \in Int
    BY <2>1, RoundedIsInt
  <2> QED BY <1>1, <2>2
<1>10. tendered \in Int
  <2>1. 0 \in Int /\ expected + off \in Int
    BY <1>9, TotalsAssumption
  <2> QED BY <1>2, <2>1, MaxOfTwo
<1>11. /\ stage \in {"settled", "failed"} /\ paid \in Int /\ rows \in Int
       /\ kind = "cash" => paid = expected
  BY <1>3, <1>4, <1>5, <1>6, <1>9, <1>10
<1>12. /\ due' \in [stage : Stages, cart : {due'.cart}, discount : Nat, template : {due'.template},
                    kind : SaleKinds, prepaid : Nat]
       /\ due'.stage = stage /\ due'.cart = due.cart /\ due'.template = due.template
       /\ due'.discount = due.discount /\ due'.kind = kind /\ due'.prepaid = prepaid
  <2>1. due \in [stage : Stages, cart : {due.cart}, discount : Nat, template : {due.template},
                 kind : SaleKinds, prepaid : Nat]
    BY <1>8 DEF TotalsTypeOK
  <2>2. stage \in Stages /\ prepaid \in Nat
    BY <1>11 DEF Stages
  <2> QED BY <1>7, <2>1, <2>2
<1>13. /\ head' \in [grand : Int, net : Int, tax : Int, paid : Int, rows : Int, owed : Int,
                     rounding : Int, margin : {head'.margin}, breakup : {head'.breakup}]
       /\ head'.net = head.net /\ head'.tax = head.tax /\ head'.grand = head.grand /\ head'.paid = paid
  BY <1>7, <1>8, <1>11 DEF TotalsTypeOK
<1>14. TotalsTypeOK'
  BY <1>7, <1>8, <1>12, <1>13 DEF TotalsTypeOK
<1>15. CartIsRight'
  BY <1>8, <1>12 DEF CartIsRight
<1>16. CashBillIsSettled'
  BY <1>11, <1>12 DEF CashBillIsSettled
<1>17. WithinHalves(lines', due'.cart, due'.discount) /\ DOMAIN lines' = DOMAIN due'.cart
       /\ \A i \in DOMAIN lines' : PartsAdd(lines'[i])
  BY <1>7, <1>8, <1>12
<1>18. due'.kind = "cash" => head'.paid = 100 * Rounded(head'.grand, 100) - due'.prepaid
  BY <1>1, <1>11, <1>12, <1>13
<1> QED BY <1>8, <1>11, <1>12, <1>13, <1>14, <1>15, <1>16, <1>17, <1>18 DEF TotalsInv, Summed

LEMMA SubmitKeeps ==
    ASSUME TotalsInv, SubmitTransitional
    PROVE  TotalsInv'
<1>1. /\ due.stage = "settled" /\ due' = [due EXCEPT !.stage = "submitted"]
      /\ head' = [head EXCEPT !.owed = head.net - head.paid]
      /\ lines' = lines /\ taxes' = taxes
  BY DEF SubmitTransitional
<1>2. /\ TotalsTypeOK /\ CartIsRight /\ DOMAIN lines = DOMAIN due.cart
      /\ WithinHalves(lines, due.cart, due.discount)
      /\ head.net + head.tax = head.grand
      /\ \A i \in DOMAIN lines : PartsAdd(lines[i])
      /\ due.kind = "cash" => head.paid = 100 * Rounded(head.grand, 100) - due.prepaid
  BY <1>1 DEF TotalsInv, Summed
<1>3. /\ due' \in [stage : Stages, cart : {due'.cart}, discount : Nat, template : {due'.template},
                   kind : SaleKinds, prepaid : Nat]
      /\ due'.stage = "submitted" /\ due'.cart = due.cart /\ due'.template = due.template
      /\ due'.discount = due.discount /\ due'.kind = due.kind /\ due'.prepaid = due.prepaid
  BY <1>1, <1>2 DEF TotalsTypeOK, Stages
<1>4. /\ head' \in [grand : Int, net : Int, tax : Int, paid : Int, rows : Int, owed : Int,
                    rounding : Int, margin : {head'.margin}, breakup : {head'.breakup}]
      /\ head'.net = head.net /\ head'.tax = head.tax /\ head'.grand = head.grand /\ head'.paid = head.paid
  BY <1>1, <1>2 DEF TotalsTypeOK
<1>5. TotalsTypeOK'
  BY <1>1, <1>2, <1>3, <1>4 DEF TotalsTypeOK
<1>6. CartIsRight'
  BY <1>2, <1>3 DEF CartIsRight
<1>7. CashBillIsSettled'
  BY <1>3 DEF CashBillIsSettled
<1>8. WithinHalves(lines', due'.cart, due'.discount) /\ DOMAIN lines' = DOMAIN due'.cart
      /\ \A i \in DOMAIN lines' : PartsAdd(lines'[i])
  BY <1>1, <1>2, <1>3
<1>9. due'.kind = "cash" => head'.paid = 100 * Rounded(head'.grand, 100) - due'.prepaid
  BY <1>2, <1>3, <1>4
<1> QED BY <1>2, <1>3, <1>4, <1>5, <1>6, <1>7, <1>8, <1>9 DEF TotalsInv, Summed

LEMMA WrittenKeeps ==
    ASSUME TotalsInv, WriteTaxRowsAndHeader
    PROVE  TotalsInv'
<1>1. due.stage = "submitted" /\ due' = [due EXCEPT !.stage = "written"] /\ lines' = lines
  BY DEF WriteTaxRowsAndHeader
<1>2. /\ TotalsTypeOK /\ CartIsRight /\ DOMAIN lines = DOMAIN due.cart
      /\ WithinHalves(lines, due.cart, due.discount)
      /\ head.net + head.tax = head.grand
      /\ \A i \in DOMAIN lines : PartsAdd(lines[i])
      /\ due.kind = "cash" => head.paid = 100 * Rounded(head.grand, 100) - due.prepaid
  BY <1>1 DEF TotalsInv, Summed
<1>3. PICK S : S = DOMAIN taxes
  OBVIOUS
<1>4. due.template \in Templates
  BY <1>2 DEF CartIsRight
<1>5. S \subseteq DOMAIN due.template
  BY <1>2, <1>3 DEF TotalsTypeOK
<1>6. IsFiniteSet(S)
  <2>1. IsFiniteSet(DOMAIN due.template)
    BY <1>4, TemplateIsTyped
  <2> QED BY <1>5, <2>1, FS_Subset
<1>7. \A i \in S : i \in Int
  BY <1>4, <1>5, TemplateIsTyped
<1>8. \A i \in S : taxes[i] \in [head : {taxes[i].head}, rate : Nat, amount : Int]
  BY <1>2, <1>3 DEF TotalsTypeOK
<1>9. PICK tax \in Int : tax = head.tax
  BY <1>2 DEF TotalsTypeOK
<1>10. PICK weights : weights = SplitWeights(taxes)
  OBVIOUS
<1>11. PICK rates : rates = [i \in S |-> taxes[i].rate]
  OBVIOUS
<1>12. rates \in [S -> Nat]
  BY <1>8, <1>11
<1>13. weights \in [S -> Nat] /\ \A i \in S : rates[i] > 0 => \E j \in S : weights[j] > 0
  <2>1. PICK gst : gst = {i \in S : taxes[i].head \in GstHeads /\ taxes[i].rate > 0}
    OBVIOUS
  <2>2. weights = [i \in S |-> IF gst = {} \/ i \in gst THEN taxes[i].rate ELSE 0]
    BY <1>3, <1>10, <2>1 DEF SplitWeights
  <2>3. weights \in [S -> Nat]
    BY <1>8, <2>2
  <2>4. CASE gst = {}
    BY <1>11, <2>2, <2>3, <2>4
  <2>5. ASSUME NEW j \in gst PROVE j \in S /\ weights[j] > 0
    BY <2>1, <2>2
  <2> QED BY <2>3, <2>4, <2>5
<1>14. SumFunction(rates) > 0 => SumFunction(weights) > 0
  <2>1. SumFunction(rates) > 0 <=> \E i \in S : rates[i] > 0
    BY <1>6, <1>12, SumIsPositive
  <2>2. SumFunction(weights) > 0 <=> \E i \in S : weights[i] > 0
    BY <1>6, <1>13, SumIsPositive
  <2> QED BY <1>13, <2>1, <2>2
<1>15. PICK amounts : amounts = Split(tax, weights)
  OBVIOUS
<1>16. amounts \in [S -> Int] /\ (SumFunction(weights) > 0 => SumFunction(amounts) = tax)
  <2>1. weights \in [S -> Nat]
    BY <1>13
  <2>2. /\ Split(tax, weights) \in [S -> Int]
        /\ SumFunction(weights) > 0 => SumFunction(Split(tax, weights)) = tax
    BY <1>6, <1>7, <2>1, SplitAddsUp
  <2> QED BY <1>15, <2>2
<1>17. taxes' = [i \in S |-> [taxes[i] EXCEPT !.amount = amounts[i]]]
  BY <1>3, <1>9, <1>10, <1>15 DEF WriteTaxRowsAndHeader
<1>18. DOMAIN taxes' = S
  BY <1>17
<1>19. ASSUME NEW i \in S
       PROVE  /\ taxes'[i] \in [head : {taxes'[i].head}, rate : Nat, amount : Int]
              /\ taxes'[i].rate = rates[i] /\ taxes'[i].amount = amounts[i]
  BY <1>8, <1>11, <1>16, <1>17
<1>20. RowsAdd(taxes', tax)
  <2>1. [i \in DOMAIN taxes' |-> taxes'[i].rate] = rates
    BY <1>11, <1>18, <1>19
  <2>2. [i \in DOMAIN taxes' |-> taxes'[i].amount] = amounts
    BY <1>16, <1>18, <1>19
  <2>3. SumBy(LAMBDA r : r.rate, taxes') = SumFunction(rates)
    BY <2>1 DEF SumBy
  <2>4. SumBy(LAMBDA r : r.amount, taxes') = SumFunction(amounts)
    BY <2>2 DEF SumBy
  <2> QED BY <1>14, <1>16, <2>3, <2>4 DEF RowsAdd
<1>21. PICK rounded \in Int : rounded = Rounded(head.grand, 100)
  <2>1. head.grand \in Int /\ 100 \in Nat \ {0}
    BY <1>2 DEF TotalsTypeOK
  <2> QED BY <2>1, RoundedNear
<1>22. 2 * (100 * rounded - head.grand) <= 100 /\ 2 * (head.grand - 100 * rounded) <= 100
  <2>1. head.grand \in Int /\ 100 \in Nat \ {0}
    BY <1>2 DEF TotalsTypeOK
  <2> QED BY <1>21, <2>1, RoundedNear
<1>23. head' = [head EXCEPT !.owed = head.grand - head.paid - due.prepaid,
                            !.rounding = 100 * rounded - head.grand,
                            !.breakup = GstBreakup(lines, taxes)]
  BY <1>21 DEF WriteTaxRowsAndHeader, Owed
<1>24. /\ head.grand \in Int /\ head.paid \in Int /\ due.prepaid \in Int
       /\ head \in [grand : Int, net : Int, tax : Int, paid : Int, rows : Int, owed : Int,
                    rounding : Int, margin : {head.margin}, breakup : {head.breakup}]
  BY <1>2 DEF TotalsTypeOK
<1>25. /\ head' \in [grand : Int, net : Int, tax : Int, paid : Int, rows : Int, owed : Int,
                     rounding : Int, margin : {head'.margin}, breakup : {head'.breakup}]
       /\ head'.net = head.net /\ head'.tax = tax /\ head'.grand = head.grand
       /\ head'.owed = head.grand - head.paid - due.prepaid
       /\ head'.rounding = 100 * rounded - head.grand
  <2>1. head.grand - head.paid - due.prepaid \in Int /\ 100 * rounded - head.grand \in Int
    BY <1>24
  <2> QED BY <1>9, <1>23, <1>24, <2>1
<1>26. /\ due' \in [stage : Stages, cart : {due'.cart}, discount : Nat, template : {due'.template},
                    kind : SaleKinds, prepaid : Nat]
       /\ due'.stage = "written" /\ due'.cart = due.cart /\ due'.template = due.template
       /\ due'.discount = due.discount /\ due'.kind = due.kind
  BY <1>1, <1>2 DEF TotalsTypeOK, Stages
<1>27. CashBillIsSettled'
  <2>1. due.kind = "cash" => head'.owed = -head'.rounding /\ Magnitude(head'.owed) <= 50
    <3> SUFFICES ASSUME due.kind = "cash" PROVE head'.owed = -head'.rounding /\ Magnitude(head'.owed) <= 50
      OBVIOUS
    <3>1. head.paid = 100 * rounded - due.prepaid
      BY <1>2, <1>21
    <3>2. PICK o \in Int : o = head'.owed
      BY <1>25
    <3>3. o = head.grand - 100 * rounded
      BY <1>24, <1>25, <3>1, <3>2
    <3>4. o = -head'.rounding /\ 2 * o <= 100 /\ 2 * (-o) <= 100
      BY <1>22, <1>24, <1>25, <3>3
    <3> QED BY <3>2, <3>4 DEF Magnitude
  <2> QED BY <1>26, <2>1 DEF CashBillIsSettled
<1>28. TotalsTypeOK'
  BY <1>1, <1>2, <1>5, <1>18, <1>19, <1>25, <1>26 DEF TotalsTypeOK
<1>29. CartIsRight'
  BY <1>2, <1>26 DEF CartIsRight
<1>30. WithinHalves(lines', due'.cart, due'.discount) /\ DOMAIN lines' = DOMAIN due'.cart
       /\ \A i \in DOMAIN lines' : PartsAdd(lines'[i])
  BY <1>1, <1>2, <1>26
<1>31. head'.net + head'.tax = head'.grand /\ RowsAdd(taxes', head'.tax)
  BY <1>2, <1>9, <1>20, <1>25
<1> QED BY <1>26, <1>27, <1>28, <1>29, <1>30, <1>31 DEF TotalsInv

LEMMA LedgerKeeps ==
    ASSUME TotalsInv, RewriteGlEntries
    PROVE  TotalsInv'
<1>1. PICK stage : stage = IF Balances /\ PaymentIsBooked THEN "done" ELSE "failed"
  OBVIOUS
<1>2. /\ due.stage = "written" /\ due' = [due EXCEPT !.stage = stage]
      /\ lines' = lines /\ taxes' = taxes /\ head' = head
  BY <1>1 DEF RewriteGlEntries
<1>3. /\ TotalsTypeOK /\ CartIsRight /\ DOMAIN lines = DOMAIN due.cart
      /\ WithinHalves(lines, due.cart, due.discount)
      /\ head.net + head.tax = head.grand
      /\ \A i \in DOMAIN lines : PartsAdd(lines[i])
      /\ RowsAdd(taxes, head.tax)
      /\ due.kind = "cash" => head.owed = -head.rounding /\ Magnitude(head.owed) <= 50
  BY <1>2 DEF TotalsInv, Summed, CashBillIsSettled
<1>4. /\ stage \in {"done", "failed"}
      /\ stage = "done" => head.net = 0 \/ Magnitude(head.grand - Credited(lines, taxes)) <= 2
  BY <1>1 DEF Balances, Credited
<1>5. /\ due' \in [stage : Stages, cart : {due'.cart}, discount : Nat, template : {due'.template},
                   kind : SaleKinds, prepaid : Nat]
      /\ due'.stage = stage /\ due'.cart = due.cart /\ due'.template = due.template
      /\ due'.discount = due.discount /\ due'.kind = due.kind
  BY <1>2, <1>3, <1>4 DEF TotalsTypeOK, Stages
<1>6. TotalsTypeOK'
  BY <1>2, <1>3, <1>5 DEF TotalsTypeOK
<1>7. CartIsRight'
  BY <1>3, <1>5 DEF CartIsRight
<1>8. CashBillIsSettled'
  BY <1>2, <1>3, <1>5 DEF CashBillIsSettled
<1>9. WithinHalves(lines', due'.cart, due'.discount) /\ DOMAIN lines' = DOMAIN due'.cart
      /\ \A i \in DOMAIN lines' : PartsAdd(lines'[i])
  BY <1>2, <1>3, <1>5
<1>10. head'.net + head'.tax = head'.grand /\ RowsAdd(taxes', head'.tax)
       /\ (stage = "done" => head'.net = 0 \/ Magnitude(head'.grand - Credited(lines', taxes')) <= 2)
  BY <1>2, <1>3, <1>4
<1> QED BY <1>4, <1>5, <1>6, <1>7, <1>8, <1>9, <1>10 DEF TotalsInv

LEMMA TotalsSteps == TotalsInv /\ [TotalsNext]_totalVars => TotalsInv'
<1> SUFFICES ASSUME TotalsInv, [TotalsNext]_totalVars PROVE TotalsInv'
  OBVIOUS
<1>1. CASE TotalsNext
  <2>1. ASSUME NEW n \in 1..MaxLines, NEW cart \in [1..n -> CartLines],
               NEW discount \in BillDiscounts, NEW template \in Templates,
               FillCart(cart, discount, template)
        PROVE  TotalsInv'
    BY <2>1, FillCartKeeps
  <2>2. CASE SpreadAndInsert
    BY <2>2, InsertKeeps
  <2>3. ASSUME NEW written \in SUBSET DOMAIN due.template, ForceInsertTaxRows(written)
        PROVE  TotalsInv'
    BY <2>3, TaxRowsKeep
  <2>4. ASSUME NEW lost \in SUBSET DOMAIN lines, WriteItemCalculations(lost) PROVE TotalsInv'
    BY <2>4, ItemsKeep
  <2>5. ASSUME NEW kind \in SaleKinds, NEW prepaid \in {0, 100}, NEW off \in Tenders,
               RoundPayment(kind, prepaid, off)
        PROVE  TotalsInv'
    BY <2>5, PaymentKeeps
  <2>6. CASE SubmitTransitional
    BY <2>6, SubmitKeeps
  <2>7. CASE WriteTaxRowsAndHeader
    BY <2>7, WrittenKeeps
  <2>8. CASE RewriteGlEntries
    BY <2>8, LedgerKeeps
  <2> QED BY <1>1, <2>1, <2>2, <2>3, <2>4, <2>5, <2>6, <2>7, <2>8 DEF TotalsNext
<1>2. CASE UNCHANGED totalVars
  <2>1. due' = due /\ lines' = lines /\ taxes' = taxes /\ head' = head
    BY <1>2 DEF totalVars
  <2>2. TotalsTypeOK' /\ CashBillIsSettled'
    BY <2>1 DEF TotalsInv, TotalsTypeOK, CashBillIsSettled
  <2>3. due.stage # "none" => CartIsRight'
    BY <2>1 DEF TotalsInv, CartIsRight
  <2> QED BY <2>1, <2>2, <2>3 DEF TotalsInv
<1> QED BY <1>1, <1>2

\* A bill whose ledger was rewritten has its lines and its tax rows agree with
\* its header.
LEMMA TotalsInvSays == TotalsInv => TotalsTypeOK /\ BillAddsUp
<1> SUFFICES ASSUME TotalsInv PROVE BillAddsUp
  BY DEF TotalsInv
<1>1. TotalsTypeOK /\ CashBillIsSettled
  BY DEF TotalsInv
<1>2. DiscountReachesTotal
  BY DEF TotalsInv, DiscountReachesTotal, WithinHalves
<1>3. NoPaisaIsLost
  BY DEF TotalsInv, NoPaisaIsLost, PartsAdd, RowsAdd
<1>4. BillBalances
  <2> SUFFICES ASSUME due.stage = "done", head.net # 0
               PROVE  LET inLines == SumBy(LAMBDA v : v.net, lines)
                          inRows  == SumBy(LAMBDA r : r.amount, taxes)
                      IN  /\ head.net + head.tax = head.grand
                          /\ Magnitude(head.grand - inLines - inRows) <= 2
                          /\ SumBy(LAMBDA r : r.rate, taxes) > 0 \/ inLines = head.net =>
                                Magnitude(head.tax - inRows) <= 2 /\ Magnitude(head.net - inLines) <= 4
    BY DEF BillBalances
  <2>1. CartIsRight /\ DOMAIN lines = DOMAIN due.cart
    BY DEF TotalsInv
  <2>2. IsFiniteSet(DOMAIN lines)
    BY <2>1, CartDomain
  <2>3. PICK inLines \in Int : inLines = SumBy(LAMBDA v : v.net, lines)
    <3>1. PICK f : f = [i \in DOMAIN lines |-> lines[i].net]
      OBVIOUS
    <3>2. f \in [DOMAIN lines -> Int]
      BY <1>1, <3>1 DEF TotalsTypeOK, BillLines
    <3>3. SumBy(LAMBDA v : v.net, lines) = SumFunction(f)
      BY <3>1 DEF SumBy
    <3> QED BY <2>2, <3>2, <3>3, SumInInt
  <2>4. PICK inRows \in Int : inRows = SumBy(LAMBDA r : r.amount, taxes)
    <3>1. PICK f : f = [i \in DOMAIN taxes |-> taxes[i].amount]
      OBVIOUS
    <3>2. f \in [DOMAIN taxes -> Int]
      BY <1>1, <3>1 DEF TotalsTypeOK
    <3>3. IsFiniteSet(DOMAIN taxes)
      <4>1. DOMAIN taxes \in SUBSET DOMAIN due.template
        BY <1>1 DEF TotalsTypeOK
      <4>2. IsFiniteSet(DOMAIN due.template)
        BY <2>1, TemplateIsTyped DEF CartIsRight
      <4> QED BY <4>1, <4>2, FS_Subset
    <3>4. SumBy(LAMBDA r : r.amount, taxes) = SumFunction(f)
      BY <3>1 DEF SumBy
    <3> QED BY <3>2, <3>3, <3>4, SumInInt
  <2>5. head.net \in Int /\ head.tax \in Int /\ head.grand \in Int
    BY <1>1 DEF TotalsTypeOK
  <2>6. head.net + head.tax = head.grand
    BY DEF TotalsInv, Summed
  <2>7. Magnitude(head.grand - (inLines + inRows)) <= 2
    BY <2>3, <2>4 DEF TotalsInv, Credited
  <2>8. SumBy(LAMBDA r : r.rate, taxes) > 0 => inRows = head.tax
    BY <2>4 DEF TotalsInv, RowsAdd
  <2>9. Magnitude(head.grand - inLines - inRows) <= 2
    BY <2>5, <2>7 DEF Magnitude
  <2>10. inRows = head.tax \/ inLines = head.net =>
            Magnitude(head.tax - inRows) <= 2 /\ Magnitude(head.net - inLines) <= 4
    BY <2>5, <2>6, <2>7 DEF Magnitude
  <2> QED BY <2>3, <2>4, <2>6, <2>8, <2>9, <2>10
<1> QED BY <1>1, <1>2, <1>3, <1>4 DEF BillAddsUp

-----------------------------------------------------------------------------
(* All desks under one roof: a step of the back office is a step of the    *)
(* desk that runs, and a stutter of every other one.                       *)

LEMMA DeskSteps ==
    ASSUME [Next]_Vars
    PROVE  /\ [CashNext]_cashVars /\ [TillNext]_raceVars /\ [ApprovalsNext]_approvalVars
           /\ [EarnNext]_earnVars /\ [BonusNext]_bonusVars /\ [GrnNext]_grnVars
           /\ [PinNext]_pinVars /\ [BookNext]_bookVars /\ [PreNext]_preVars /\ [TrailNext]_trailVars
           /\ [TransferNext]_transferVars /\ [PlanNext]_planVars
           /\ [TotalsNext]_totalVars
<1>1. [CashNext]_cashVars
  BY DEF Next, At, Vars
<1>2. [TillNext]_raceVars
  BY DEF Next, At, Vars
<1>3. [ApprovalsNext]_approvalVars
  BY DEF Next, At, Vars
<1>4. [EarnNext]_earnVars
  BY DEF Next, At, Vars
<1>5. [BonusNext]_bonusVars
  BY DEF Next, At, Vars
<1>6. [GrnNext]_grnVars
  BY DEF Next, At, Vars
<1>7. [PinNext]_pinVars
  BY DEF Next, At, Vars
<1>8. [BookNext]_bookVars
  BY DEF Next, At, Vars
<1>9. [PreNext]_preVars
  BY DEF Next, At, Vars
<1>10. [TrailNext]_trailVars
  BY DEF Next, At, Vars
<1>11. [TransferNext]_transferVars
  BY DEF Next, At, Vars
<1>12. [PlanNext]_planVars
  BY DEF Next, At, Vars
<1>13. [TotalsNext]_totalVars
  BY DEF Next, At, Vars
<1> QED BY <1>1, <1>2, <1>3, <1>4, <1>5, <1>6, <1>7, <1>8, <1>9, <1>10, <1>11, <1>12, <1>13

\* However often the sale, partial returns, the back-fills and the monthly job
\* touch the ledger: a month is rewarded once, and a line once by its sale and
\* once by each back-fill that found nothing of its bill; each credit note
\* reverses a line once
\* (_create_incentive_entries, backfill_missing_incentive_ledger,
\* calculate_attach_rate_bonus).
THEOREM RewardsAreSingle == Spec => []RewardedOnce
<1>1. Init => EarnInv /\ BonusInv
  BY EarnStarts, BonusStarts DEF Init
<1>2. EarnInv /\ BonusInv /\ [Next]_Vars => (EarnInv /\ BonusInv)'
  BY DeskSteps, EarnSteps, BonusSteps
<1>3. EarnInv /\ BonusInv => RewardedOnce
  BY BonusInvSays DEF EarnInv, RewardedOnce
<1> QED BY <1>1, <1>2, <1>3, PTL DEF Spec

\* An order is received once and whole; two GRNs of it stand side by side only
\* when two tills drafted them at once (create_pr_from_po, pos_pr_submit).
THEOREM GoodsAreReceived == Spec => []ReceivedAsOrdered
<1>1. Init => GrnInv
  BY GrnStarts DEF Init
<1>2. GrnInv /\ [Next]_Vars => GrnInv'
  BY DeskSteps, GrnSteps
<1> QED BY <1>1, <1>2, GrnInvSays, PTL DEF Spec

\* The book of customers neither loses a confirmed e-mail nor doubles a
\* billing address, and a number stands twice only after overlapping requests
\* (quick_create_customer, update_customer_complete).
THEOREM CustomersKept == Spec => []CustomersAreKept
<1>1. Init => BookInv
  BY BookStarts DEF Init
<1>2. BookInv /\ [Next]_Vars => BookInv'
  BY DeskSteps, BookSteps
<1> QED BY <1>1, <1>2, BookInvSays, PTL DEF Spec

\* An approval or a PIN comes from one who may give it, for what was asked,
\* and serves one deed (consume_approval_grant, _verify_manager_pin).
THEOREM ApprovalsSound == Spec => []ApprovalsAreSound
<1>1. Init => ApprovalsInv /\ PinInv
  BY ApprovalsStart, PinStarts DEF Init
<1>2. ApprovalsInv /\ PinInv /\ [Next]_Vars => (ApprovalsInv /\ PinInv)'
  BY DeskSteps, ApprovalsSteps, PinSteps
<1>3. ApprovalsInv /\ PinInv => ApprovalsAreSound
  BY ApprovalsInvSays DEF PinInv, ApprovalsAreSound
<1> QED BY <1>1, <1>2, <1>3, PTL DEF Spec

\* The cash and the requests of a till hold in the back office as they do
\* alone.
THEOREM TillsAreAccounted == Spec => [](CashIsAccounted /\ TillsStayCoherent)
<1>1. Init => CashInv /\ TillInv
  BY CashStarts, TillStarts DEF Init
<1>2. CashInv /\ TillInv /\ [Next]_Vars => (CashInv /\ TillInv)'
  BY DeskSteps, CashSteps, TillSteps
<1>3. CashInv /\ TillInv => CashIsAccounted /\ TillsStayCoherent
  BY CashInvSays, TillInvSays
<1> QED BY <1>1, <1>2, <1>3, PTL DEF Spec

\* What was promised in a pre-booking is held for it and billed once, to its
\* customer, and a bill takes off no more advance than was posted for its own
\* pre-bookings (create_pre_booking, create_pos_invoice, cancel_pre_booking).
THEOREM PromisesKept == Spec => []PromisesAreKept
<1>1. Init => PreInv /\ TrailInv
  BY PreStarts, TrailStarts DEF Init
<1>2. PreInv /\ TrailInv /\ [Next]_Vars => (PreInv /\ TrailInv)'
  BY DeskSteps, PreSteps, TrailSteps
<1>3. PreInv /\ TrailInv => PromisesAreKept
  BY PreInvSays, TrailInvSays DEF PromisesAreKept
<1> QED BY <1>1, <1>2, <1>3, PTL DEF Spec

\* Of a transfer no more is received than was sent, lines of one item each
\* book what was counted, and the devices scanned are those of a line
\* (create_transfer_delivery_challan, receive_stock_transfer).
THEOREM TransfersAreCounted == Spec => []TransferIsCounted
<1>1. Init => TransferInv
  BY TransferStarts DEF Init
<1>2. TransferInv /\ [Next]_Vars => TransferInv'
  BY DeskSteps, TransferKeeps
<1>3. TransferInv => TransferIsCounted
  BY DEF TransferInv
<1> QED BY <1>1, <1>2, <1>3, PTL DEF Spec

\* A plan names the device it is for, leaves no gap after its warranty, was
\* bought in time and costs what its device makes it; both catalogues agree
\* (_create_active_plan, canonicalize_cart_items).
THEOREM PlansCovered == Spec => []PlansCover
<1>1. Init => PlanInv
  BY PlanStarts DEF Init
<1>2. PlanInv /\ [Next]_Vars => PlanInv'
  BY DeskSteps, PlanKeeps
<1>3. PlanInv => PlansCover
  BY PlanInvSays
<1> QED BY <1>1, <1>2, <1>3, PTL DEF Spec

\* What a bill says of its money agrees, for any cart, discount, template and
\* payment and whatever writes fail: a bill that stands balances to its
\* ledger's 2 paise, no paisa of a tax is lost in its parts, a discount
\* reaches the total within half a paisa for each line and unit, and a cash
\* bill leaves open what was rounded (_spread_header_discount,
\* _write_item_calculations, _write_tax_rows_and_header, _rewrite_gl_entries).
THEOREM BillsAddUp == Spec => []BillAddsUp
<1>1. Init => TotalsInv
  BY TotalsStarts DEF Init
<1>2. TotalsInv /\ [Next]_Vars => TotalsInv'
  BY DeskSteps, TotalsSteps
<1>3. TotalsInv => BillAddsUp
  BY TotalsInvSays
<1> QED BY <1>1, <1>2, <1>3, PTL DEF Spec

\* The records, statuses, amounts and tables of every desk are what the code
\* can make of them, for all values of the constants.
THEOREM BackOfficeTypes == Spec => []BackOfficeTypeOK
<1> DEFINE AtTheTill == CashInv /\ TillInv /\ ApprovalsInv /\ PinInv
           Ledgers == EarnInv /\ BonusInv /\ GrnInv /\ BookInv
           Commitments == PreInv /\ TrailInv /\ TransferInv /\ PlanInv /\ TotalsInv
<1>1. Init => AtTheTill /\ Ledgers /\ Commitments
  BY CashStarts, TillStarts, ApprovalsStart, PinStarts, EarnStarts, BonusStarts, GrnStarts,
     BookStarts, PreStarts, TrailStarts, TransferStarts, PlanStarts, TotalsStarts DEF Init
<1>2. AtTheTill /\ [Next]_Vars => AtTheTill'
  BY DeskSteps, CashSteps, TillSteps, ApprovalsSteps, PinSteps
<1>3. Ledgers /\ [Next]_Vars => Ledgers'
  BY DeskSteps, EarnSteps, BonusSteps, GrnSteps, BookSteps
<1>4. Commitments /\ [Next]_Vars => Commitments'
  BY DeskSteps, PreSteps, TrailSteps, TransferKeeps, PlanKeeps, TotalsSteps
<1>5. AtTheTill => CashTypeOK /\ TillTypeOK /\ ApprovalsTypeOK /\ PinTypeOK
  BY CashInvSays, TillInvSays, ApprovalsInvSays DEF PinInv
<1>6. Ledgers => EarnTypeOK /\ BonusTypeOK /\ GrnTypeOK /\ BookTypeOK
  BY BonusInvSays, BookInvSays DEF EarnInv, GrnInv
<1>7. Commitments => PreTypeOK /\ TrailTypeOK /\ TransferTypeOK /\ PlanTypeOK /\ TotalsTypeOK
  BY PreInvSays, TrailInvSays, PlanInvSays, TotalsInvSays DEF TransferInv
<1>8. AtTheTill /\ Ledgers /\ Commitments => BackOfficeTypeOK
  BY <1>5, <1>6, <1>7 DEF BackOfficeTypeOK
<1> HIDE DEF AtTheTill, Ledgers, Commitments
<1> QED BY <1>1, <1>2, <1>3, <1>4, <1>8, PTL DEF Spec

=============================================================================
