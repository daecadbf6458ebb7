---------------------------- MODULE CustomerBook ----------------------------
(***************************************************************************)
(* Customers as the tills of several stores keep them: a quick customer,   *)
(* the two ways to edit one, their addresses, and the look-up by phone.    *)
(* A request that inserts or links something reads first and commits       *)
(* later; in between others commit.                                        *)
(*                                                                         *)
(* Every save of a Customer that has a primary contact fetches its e-mail  *)
(* from there, so one field stands for both.                               *)
(*                                                                         *)
(* A definition directly before another one that it resembles is a mutant. *)
(***************************************************************************)
EXTENDS Integers, FiniteSets

CONSTANTS
    Clients,       \* names of Customer documents
    Linked,        \* those that ERPNext gives a primary contact
    OfThisStore,   \* those that belong to this store
    BookRequests,  \* requests that read before they write
    Numbers,       \* phone numbers
    Emails,        \* e-mail addresses
    Blank,         \* no number, no address
    MaxAsked       \* bound on the requests

ASSUME BookAssumption ==
    /\ Linked \subseteq Clients /\ OfThisStore \subseteq Clients
    /\ Blank \notin Numbers \cup Emails
    /\ MaxAsked \in Nat

VARIABLES
    client,  \* customer -> the Customer, its contacts and addresses
    visit,   \* request -> what it was asked and what it has read
    said,    \* customer -> the e-mail that the last complete update confirmed
    asked    \* number of requests so far

bookVars == <<client, visit, said, asked>>

\* live: enabled; ever: exists.  late: the customers that came while the
\* request for this one was under way.
NoClient == [ever |-> FALSE, live |-> FALSE, late |-> {}, mobile |-> Blank, whatsapp |-> Blank,
             email |-> Blank, billing |-> 0, shipping |-> 0]
\* has: the address that an update writes was there.  stale: somebody saved
\* the customer since.
NoVisit == [kind |-> "idle", who |-> {}, mobile |-> Blank, whatsapp |-> Blank, email |-> Blank,
            has |-> FALSE, stale |-> FALSE, late |-> {}]
Updates == {"email", "billing", "shipping"}

BookInit ==
    /\ client = [c \in Clients |-> NoClient]
    /\ visit = [r \in BookRequests |-> NoVisit]
    /\ said = [c \in Clients |-> Blank]
    /\ asked = 0

Count == asked < MaxAsked /\ asked' = asked + 1

\* Another request that has read this customer holds an old copy from now on.
Saved(v, c) ==
    [r \in BookRequests |->
        IF v[r].kind \in Updates /\ v[r].who = {c} THEN [v[r] EXCEPT !.stale = TRUE] ELSE v[r]]

-----------------------------------------------------------------------------
(* Look-ups                                                                *)

\* _find_existing_customer_by_phone_suffix: enabled customers, any number.
HasNumber(c, n) ==
    /\ client[c].live
    /\ n \in {client[c].mobile, client[c].whatsapp}
Known(n) == \E c \in Clients : HasNumber(c, n)

\* find_customer_by_phone: this store's customers, disabled ones too.
FoundHere(n) == {c \in OfThisStore : client[c].ever /\ client[c].mobile = n}

\* lookup_walkin_customer: a customer of another store is only said to exist.
Lookup(n) ==
    CASE FoundHere(n) # {} -> "found"
      [] FoundHere(n) = {} /\ \E c \in Clients : client[c].ever /\ client[c].mobile = n -> "restricted"
      [] OTHER -> "unknown"

-----------------------------------------------------------------------------
(* A new customer                                                          *)

\* quick_create_customer, up to its insert: neither number is known.
AskCustomer(r, mobile, whatsapp) ==
    /\ visit[r].kind = "idle" /\ Count
    /\ ~Known(mobile)
    /\ whatsapp # mobile => ~Known(whatsapp)
    /\ visit' = [visit EXCEPT ![r] = [NoVisit EXCEPT !.kind = "create", !.mobile = mobile,
                                                    !.whatsapp = whatsapp]]
    /\ UNCHANGED <<client, said>>

\* The Customer, its Contact and its addresses.
InsertCustomer(r, c, email, billing) ==
    /\ visit[r].kind = "create" /\ ~client[c].ever
    /\ client' = [client EXCEPT ![c] =
         [NoClient EXCEPT !.ever = TRUE, !.live = TRUE, !.late = visit[r].late,
                          !.mobile = visit[r].mobile, !.whatsapp = visit[r].whatsapp,
                          !.email = email, !.billing = billing]]
    /\ visit' = [q \in BookRequests |->
         IF q = r THEN NoVisit
         ELSE IF visit[q].kind = "create" THEN [visit[q] EXCEPT !.late = @ \cup {c}] ELSE visit[q]]
    /\ UNCHANGED <<said, asked>>

-----------------------------------------------------------------------------
(* Editing one                                                             *)

\* update_customer_complete with one of its parts, up to its first write: it
\* looks for the primary address or for a shipping address (_upsert_address).
AskUpdate(r, c, kind, email) ==
    /\ visit[r].kind = "idle" /\ client[c].ever /\ Count
    /\ visit' = [visit EXCEPT ![r] =
         [NoVisit EXCEPT !.kind = kind, !.who = {c}, !.email = email,
                         !.has = CASE kind = "billing" -> client[c].billing > 0
                                   [] kind = "shipping" -> client[c].shipping > 0
                                   [] OTHER -> email = client[c].email]]
    /\ UNCHANGED <<client, said>>

\* _set_customer_primary_email writes the primary contact first: a save of
\* the Customer alone brings the old address back.
EmailOnClient(c, email) ==
    IF c \in Linked THEN client[c] ELSE [client[c] EXCEPT !.email = email]
WithEmail(c, email) == [client[c] EXCEPT !.email = email]

\* A new primary address is linked and a changed e-mail set in the Customer: a
\* save of a copy that is no longer current throws, and all is undone.
UpdateEmail(r, c) ==
    /\ visit[r].kind = "email" /\ visit[r].who = {c}
    /\ visit[r].stale => visit[r].has
    /\ client' = [client EXCEPT ![c] = IF visit[r].has THEN @ ELSE WithEmail(c, visit[r].email)]
    /\ said' = [said EXCEPT ![c] = IF visit[r].has THEN @ ELSE visit[r].email]
    /\ visit' = LET rest == [visit EXCEPT ![r] = NoVisit]
                IN  IF visit[r].has THEN rest ELSE Saved(rest, c)
    /\ UNCHANGED asked

UpsertBilling(r, c) ==
    /\ visit[r].kind = "billing" /\ visit[r].who = {c}
    /\ visit[r].stale => visit[r].has
    /\ client' = [client EXCEPT ![c].billing = IF visit[r].has THEN @ ELSE @ + 1]
    /\ visit' = LET rest == [visit EXCEPT ![r] = NoVisit]
                IN  IF visit[r].has THEN rest ELSE Saved(rest, c)
    /\ UNCHANGED <<said, asked>>

\* A shipping address is not linked in the Customer.
UpsertShipping(r, c) ==
    /\ visit[r].kind = "shipping" /\ visit[r].who = {c}
    /\ client' = [client EXCEPT ![c].shipping = IF visit[r].has THEN @ ELSE @ + 1]
    /\ visit' = [visit EXCEPT ![r] = NoVisit]
    /\ UNCHANGED <<said, asked>>

RequestGone(r) ==
    /\ visit[r].kind # "idle"
    /\ visit' = [visit EXCEPT ![r] = NoVisit]
    /\ UNCHANGED <<client, said, asked>>

\* update_customer_details saves the Customer alone.
UpdateDetails(c, email) ==
    /\ client[c].ever /\ email # client[c].email
    /\ client' = [client EXCEPT ![c] = EmailOnClient(c, email)]
    /\ said' = [said EXCEPT ![c] = IF c \in Linked THEN @ ELSE Blank]
    /\ visit' = Saved(visit, c)
    /\ UNCHANGED asked

-----------------------------------------------------------------------------
(* Elsewhere                                                               *)

Disable(c) ==
    /\ client[c].live
    /\ client' = [client EXCEPT ![c].live = FALSE]
    /\ visit' = Saved(visit, c)
    /\ UNCHANGED <<said, asked>>

BookNext ==
    \/ \E r \in BookRequests :
         \/ \E mobile, whatsapp \in Numbers : AskCustomer(r, mobile, whatsapp)
         \/ \E c \in Clients :
              \/ \E email \in Emails \cup {Blank}, billing \in 0..1 :
                   InsertCustomer(r, c, email, billing)
              \/ \E email \in Emails : AskUpdate(r, c, "email", email)
              \/ \E kind \in {"billing", "shipping"} : AskUpdate(r, c, kind, Blank)
              \/ UpdateEmail(r, c)
              \/ UpsertBilling(r, c)
              \/ UpsertShipping(r, c)
         \/ RequestGone(r)
    \/ \E c \in Clients :
         \/ \E email \in Emails \cup {Blank} : UpdateDetails(c, email)
         \/ Disable(c)

BookSpec == BookInit /\ [][BookNext]_bookVars

-----------------------------------------------------------------------------
(* Properties                                                              *)

Number == Numbers \cup {Blank}
Mail == Emails \cup {Blank}
ClientRows == [ever : BOOLEAN, live : BOOLEAN, late : SUBSET Clients, mobile : Number,
               whatsapp : Number, email : Mail, billing : Nat, shipping : Nat]
Visits == [kind : {"idle", "create"} \cup Updates, who : SUBSET Clients, mobile : Number,
           whatsapp : Number, email : Mail, has : BOOLEAN, stale : BOOLEAN, late : SUBSET Clients]

\* Customers and requests.
BookTypeOK ==
    /\ client \in [Clients -> ClientRows]
    /\ visit \in [BookRequests -> Visits]
    /\ said \in [Clients -> Mail]
    /\ asked \in 0..MaxAsked

\* An e-mail that a complete update confirmed stays, whatever saves of the
\* customer follow (_set_customer_primary_email).
ConfirmedEmailStays ==
    \A c \in Clients : said[c] # Blank => client[c].email = said[c]

\* Two enabled customers have a mobile number in common only when the
\* requests for them overlapped (quick_create_customer).
DuplicatesOverlapped ==
    \A c, d \in Clients :
        c # d /\ client[c].live /\ client[d].live /\ client[c].mobile = client[d].mobile
        => c \in client[d].late \/ d \in client[c].late

\* However many tills edit a customer at once, one billing address of theirs
\* is made and stays the primary one (_upsert_address).
OneBillingAddress == \A c \in Clients : client[c].billing <= 1

\* A mobile number of an enabled customer is never unknown to the counter.
LookupKnows ==
    \A c \in Clients : client[c].live => Lookup(client[c].mobile) # "unknown"

\* The book of customers does not lose or double what was entered.
CustomersAreKept ==
    /\ ConfirmedEmailStays
    /\ DuplicatesOverlapped
    /\ OneBillingAddress
    /\ LookupKnows

\* quick_create_customer, pos_api.py:15296: "Customer already exists with
\* mobile number": two tills that register a number at once both succeed.
OneCustomerPerNumber ==
    \A c, d \in Clients : c # d /\ client[c].live /\ client[d].live =>
        client[c].mobile # client[d].mobile
\* Two first shipping addresses entered at once stand side by side.
OneShippingAddress == \A c \in Clients : client[c].shipping <= 1
\* lookup_walkin_customer, token_api.py:2282: the answer is "enough to stop
\* them creating a duplicate": an unknown number may be somebody's WhatsApp.
UnknownIsNew == \A n \in Numbers : Lookup(n) = "unknown" => ~Known(n)
FoundIsKnown == \A n \in Numbers : Lookup(n) # "unknown" => Known(n)

=============================================================================
