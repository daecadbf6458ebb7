----------------------------- MODULE ManagerPin -----------------------------
(***************************************************************************)
(* The PINs of the managers of one store (CH POS Password) and the window  *)
(* of attempts that Redis counts for each user of the till.  Rows that     *)
(* were encrypted under another key of the site cannot be read.            *)
(*                                                                         *)
(* A definition directly before another one that it resembles is a mutant. *)
(***************************************************************************)
EXTENDS Integers, FiniteSets

CONSTANTS
    PinRows,         \* rows of CH POS Password
    PinOwner,        \* row -> its user
    PinUsers,        \* who enters a PIN: cashiers, and managers at the till
    RowSettings,     \* bound: what a row may be set to
    Codes,           \* PINs
    AttemptLimit,    \* manager_pin_attempt_limit
    CandidateLimit   \* manager_pin_candidate_limit

ASSUME PinAssumption ==
    /\ AttemptLimit \in Nat \ {0} /\ CandidateLimit \in Nat
    /\ IsFiniteSet(PinRows)
    /\ RowSettings \subseteq [place : {"here", "floating", "away"}, code : Codes,
                              readable : BOOLEAN, may : BOOLEAN]

VARIABLES
    pinRow,   \* row -> its store, its PIN, whether it can be read and may approve
    tries,    \* user -> attempts in the window
    pinAnswer,   \* user -> what the last attempt was told
    consent   \* user -> the row whose manager approved last, and the kind of approval

pinVars == <<pinRow, tries, pinAnswer, consent>>

\* A row is bound to this store, to none ("floating"), or is not listed here:
\* another store's, or not active.
Places == {"here", "floating", "away"}
Told == {"none", "locked", "crowded", "own", "valid", "ambiguous", "unreadable", "partly", "invalid"}
NoConsent == [row |-> {}, second |-> FALSE]

PinInit ==
    /\ pinRow \in [PinRows -> {v \in RowSettings : v.place = "away"}]
    /\ tries = [u \in PinUsers |-> 0]
    /\ pinAnswer = [u \in PinUsers |-> "none"]
    /\ consent = [u \in PinUsers |-> NoConsent]

-----------------------------------------------------------------------------
(* verify_manager_pin                                                      *)

\* The rows the query lists, and those whose PIN is read.
ListedRows == {r \in PinRows : pinRow[r].place \in {"here", "floating"}}
Considered == {r \in ListedRows : pinRow[r].may}
Unreadable == {r \in Considered : ~pinRow[r].readable}

\* Rows with this PIN; the one bound to the store wins over floating ones.
HaveCode(code) == {r \in Considered \ Unreadable : pinRow[r].code = code}
PinMatches(code) ==
    LET bound == {r \in HaveCode(code) : pinRow[r].place = "here"}
    IN  IF Cardinality(HaveCode(code)) > 1 /\ Cardinality(bound) = 1 THEN bound
        ELSE HaveCode(code)

\* What one attempt is told.  second: the approval needs another person.
Verdict(u, code, second) ==
    CASE tries[u] >= AttemptLimit -> "locked"
      [] tries[u] < AttemptLimit /\ Cardinality(ListedRows) > CandidateLimit -> "crowded"
      [] OTHER ->
           CASE Cardinality(PinMatches(code)) = 1 ->
                  IF second /\ \A r \in PinMatches(code) : PinOwner[r] = u THEN "own" ELSE "valid"
             [] Cardinality(PinMatches(code)) > 1 -> "ambiguous"
             [] PinMatches(code) = {} ->
                  CASE Unreadable = {} -> "invalid"
                    [] Unreadable # {} /\ Unreadable = Considered -> "unreadable"
                    [] OTHER -> "partly"

\* The attempt is counted first and forgiven when it was right, or when no
\* PIN could be compared.
Forgiven(verdict) == verdict \in {"valid", "unreadable"}

Verify(u, code, second) ==
    LET verdict == Verdict(u, code, second)
    IN  /\ tries' = [tries EXCEPT ![u] = IF Forgiven(verdict) THEN 0
                                          ELSE IF @ <= AttemptLimit THEN @ + 1 ELSE @]
        /\ pinAnswer' = [pinAnswer EXCEPT ![u] = verdict]
        /\ consent' = [consent EXCEPT ![u] =
                         IF verdict = "valid" THEN [row |-> PinMatches(code), second |-> second]
                         ELSE NoConsent]
        /\ UNCHANGED pinRow

-----------------------------------------------------------------------------
(* Its surroundings                                                        *)

\* The desk writes a row; a restored database makes rows unreadable.
SetRow(r, setting) ==
    /\ pinRow' = [pinRow EXCEPT ![r] = setting]
    /\ pinAnswer' = [u \in PinUsers |-> "none"]
    /\ consent' = [u \in PinUsers |-> NoConsent]
    /\ UNCHANGED tries

WindowEnds(u) ==
    /\ tries[u] > 0
    /\ tries' = [tries EXCEPT ![u] = 0]
    /\ pinAnswer' = [pinAnswer EXCEPT ![u] = "none"]
    /\ UNCHANGED <<pinRow, consent>>

PinNext ==
    \/ \E u \in PinUsers :
         \/ \E code \in Codes, second \in BOOLEAN : Verify(u, code, second)
         \/ WindowEnds(u)
    \/ \E r \in PinRows, setting \in RowSettings : SetRow(r, setting)

PinSpec == PinInit /\ [][PinNext]_pinVars

-----------------------------------------------------------------------------
(* Properties                                                              *)

\* Rows, counters and answers.
PinTypeOK ==
    /\ pinRow \in [PinRows -> [place : Places, code : Codes, readable : BOOLEAN, may : BOOLEAN]]
    /\ tries \in [PinUsers -> 0..(AttemptLimit + 1)]
    /\ pinAnswer \in [PinUsers -> Told]
    /\ consent \in [PinUsers -> [row : SUBSET PinRows, second : BOOLEAN]]

\* An approval is in the name of one manager, who may give it at this store,
\* whose PIN no row of the same rank shares, and who is another person where
\* two are needed, whatever rows share PINs (verify_manager_pin).
ConsentHasOneName ==
    \A u \in PinUsers : \A r \in consent[u].row :
        /\ pinRow[r].place \in {"here", "floating"} /\ pinRow[r].may
        /\ consent[u].second => PinOwner[r] # u
        /\ \A other \in PinRows \ {r} :
             /\ pinRow[other].place = pinRow[r].place /\ pinRow[other].may
             /\ pinRow[other].readable
             => pinRow[other].code # pinRow[r].code

\* A fault of the site's key does not lock the approvals of a till: while no
\* PIN can be compared, an attempt leaves none behind.
FaultDoesNotLock ==
    \A u \in PinUsers : pinAnswer[u] = "unreadable" => tries[u] = 0

\* PINs name one approver, and a fault of the site locks nobody out.
PinsAreSound == ConsentHasOneName /\ FaultDoesNotLock

\* verify_manager_pin, ch_manager_pin.py:326: "five retries lock the till's
\* approvals ... on top of a fault they did not cause": not counted when all
\* rows are unreadable, counted when one of them can be read.
OnlyWrongPinsLock ==
    \A u \in PinUsers : pinAnswer[u] = "partly" => tries[u] = 0

=============================================================================
