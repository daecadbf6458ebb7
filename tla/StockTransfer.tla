---------------------------- MODULE StockTransfer ----------------------------
(***************************************************************************)
(* One transfer of stock between two stores: a Stock Entry is drafted,     *)
(* approved, sent out against scanned devices, and received with what the  *)
(* receiving store counted.                                                *)
(*                                                                         *)
(* A definition directly before another one that it resembles is a mutant. *)
(***************************************************************************)
EXTENDS Integers, FiniteSets, FiniteSetsExt, Sequences, Functions

CONSTANTS
    Articles,   \* items
    Devices,    \* serial numbers of the serialized item
    MaxLineQty, \* bound: the quantity of a line
    MaxTransferLines  \* bound: the lines of an entry

ASSUME TransferAssumption == MaxLineQty \in Nat /\ MaxTransferLines \in Nat

VARIABLES
    entry,    \* the Stock Entry: its status and its lines
    sent,     \* the lines that left the source store
    counted,  \* what the receiving store counted, line by line
    scanned,  \* devices that left with it
    held      \* devices at the source store that are active and not reserved

transferVars == <<entry, sent, counted, scanned, held>>

TransferStates == {"none", "Pending", "Draft", "Approved", "Sent", "Received", "Cancelled"}
Lines == [item : Articles, qty : 1..MaxLineQty]
Qty(lines, i) ==
    SumFunction([j \in DOMAIN lines |-> IF lines[j].item = i THEN lines[j].qty ELSE 0])

TransferInit ==
    /\ entry = [state |-> "none", lines |-> <<>>]
    /\ sent = <<>> /\ counted = <<>> /\ scanned = {}
    /\ held \in SUBSET Devices

-----------------------------------------------------------------------------
(* The sending store                                                       *)

\* create_store_transfer: the quantities asked for, one line per item; it
\* waits for approval.
Merged(lines) == \A j, k \in DOMAIN lines : lines[j].item = lines[k].item => j = k

RequestTransfer(lines) ==
    /\ entry.state = "none" /\ lines # <<>> /\ Merged(lines)
    /\ entry' = [state |-> "Pending", lines |-> lines]
    /\ UNCHANGED <<sent, counted, scanned, held>>

\* create_stock_transfer: the lines as they come, each serial once.
DraftTransfer(lines) ==
    /\ entry.state = "none" /\ lines # <<>>
    /\ entry' = [state |-> "Draft", lines |-> lines]
    /\ UNCHANGED <<sent, counted, scanned, held>>

\* External: the desk approves, hands over, or cancels.
Approve ==
    /\ entry.state = "Pending"
    /\ entry' = [entry EXCEPT !.state = "Approved"]
    /\ UNCHANGED <<sent, counted, scanned, held>>

HandOver ==
    /\ entry.state = "Draft"
    /\ entry' = [entry EXCEPT !.state = "Sent"] /\ sent' = entry.lines
    /\ UNCHANGED <<counted, scanned, held>>

Cancel ==
    /\ entry.state \in {"Pending", "Draft", "Approved"}
    /\ entry' = [entry EXCEPT !.state = "Cancelled"]
    /\ UNCHANGED <<sent, counted, scanned, held>>

\* A device is sold, reserved, or free again between two scans.
Stir(u) ==
    /\ u \notin scanned
    /\ held' = IF u \in held THEN held \ {u} ELSE held \cup {u}
    /\ UNCHANGED <<entry, sent, counted, scanned>>

\* create_transfer_delivery_challan: every unit of the serialized item is
\* scanned, none too many, and each one is free at the source.
ScansAllLoosely(S, serialized) == Cardinality(S) <= Qty(entry.lines, serialized)
ScansAll(S, serialized) == Cardinality(S) = Qty(entry.lines, serialized)

SendOut(S, serialized) ==
    /\ entry.state = "Approved"
    /\ ScansAll(S, serialized) /\ S \subseteq held
    /\ entry' = [entry EXCEPT !.state = "Sent"] /\ sent' = entry.lines
    /\ scanned' = S /\ held' = held \ S
    /\ UNCHANGED counted

-----------------------------------------------------------------------------
(* The receiving store                                                     *)

\* recv_map: one quantity per item, that of its last line.
RecvMap(count, i) == count[Max({j \in DOMAIN entry.lines : entry.lines[j].item = i})]

ReceivedLinesWithZeros(count) ==
    [j \in DOMAIN entry.lines |->
        [item |-> entry.lines[j].item, qty |-> RecvMap(count, entry.lines[j].item)]]
ReceivedLinesAsSent(count) == entry.lines

\* The lines that stay, at their places: a line takes what was counted for its
\* item, and goes when that is nothing.
ReceivedLines(count) ==
    [j \in {k \in DOMAIN entry.lines : RecvMap(count, entry.lines[k].item) > 0} |->
        [item |-> entry.lines[j].item, qty |-> RecvMap(count, entry.lines[j].item)]]

WithinSentLoosely(count) == TRUE
WithinSent(count) ==
    \A j \in DOMAIN entry.lines : RecvMap(count, entry.lines[j].item) <= entry.lines[j].qty

\* receive_stock_transfer: submits the entry as it is, or with what came, at
\* whatever stage it stands (the desk's own hooks may refuse; not here).  A
\* submitted entry is only acknowledged.
Receive(count) ==
    /\ entry.state \in {"Pending", "Draft", "Approved", "Sent"}
    /\ WithinSent(count) /\ DOMAIN ReceivedLines(count) # {}
    /\ entry' = [state |-> "Received", lines |-> ReceivedLines(count)]
    /\ sent' = entry.lines /\ counted' = count
    /\ UNCHANGED <<scanned, held>>

CountsOf(lines) == {c \in [DOMAIN lines -> 0..MaxLineQty] : \A j \in DOMAIN lines : c[j] <= lines[j].qty}

TransferNext ==
    \/ \E n \in 1..MaxTransferLines : \E lines \in [1..n -> Lines] : RequestTransfer(lines) \/ DraftTransfer(lines)
    \/ Approve \/ HandOver \/ Cancel
    \/ \E u \in Devices : Stir(u)
    \/ \E S \in SUBSET Devices, i \in Articles : SendOut(S, i)
    \/ \E count \in CountsOf(entry.lines) : Receive(count)

TransferSpec == TransferInit /\ [][TransferNext]_transferVars

-----------------------------------------------------------------------------
(* Properties                                                             *)

CountedQty(i) ==
    SumFunction([j \in DOMAIN sent |-> IF sent[j].item = i THEN counted[j] ELSE 0])

\* Lines at some of their places.
SomeLines == UNION {[J -> Lines] : J \in SUBSET (1..MaxTransferLines)}

\* Types.
TransferTypeOK ==
    /\ entry \in [state : TransferStates, lines : SomeLines]
    /\ sent \in SomeLines /\ counted \in [DOMAIN counted -> 0..MaxLineQty]
    /\ scanned \subseteq Devices /\ held \in SUBSET (Devices \ scanned)

\* No more is received of an item than was sent of it
\* (receive_stock_transfer compares line by line).
NeverMoreThanSent ==
    entry.state = "Received" => \A i \in Articles : Qty(entry.lines, i) <= Qty(sent, i)

\* A transfer of one line per item books what was counted.
MergedLinesBookTheCount ==
    entry.state = "Received" /\ Merged(sent) =>
        \A i \in Articles : Qty(entry.lines, i) = CountedQty(i)

\* A transfer sent out from the desk of the POS carries a device per unit of
\* its serialized item (create_transfer_delivery_challan).
DevicesMatchTheLine ==
    scanned # {} => \E i \in Articles : Cardinality(scanned) = Qty(sent, i)

\* What is sent and received is what was scanned and counted.
TransferIsCounted ==
    /\ NeverMoreThanSent
    /\ MergedLinesBookTheCount
    /\ DevicesMatchTheLine

=============================================================================
