------------------------------ MODULE Inventory -------------------------------
(***************************************************************************)
(* What one entry of the inventory promises whoever reads it, with no      *)
(* requests, statements, locks or rows read too early: every change is one *)
(* event.  A scan enters the ledger once, with the columns and the parts   *)
(* it shows; the columns are otherwise those of some scan of the ledger;   *)
(* an assignment shows its owner and opens his record at once; a record is *)
(* never reopened or rewritten; and an entry that was deleted may come     *)
(* back, but never with the agent, the ledger or the history it had.       *)
(***************************************************************************)
EXTENDS Sequences

CONSTANTS
  Scan,      \* the scans an agent may report
  NoScan,    \* columns nobody has reported yet
  Owner,     \* e-mail addresses
  NoOwner    \* nobody

VARIABLES
  entry,     \* "there", "deleted" or, since, "inserted" again
  reporting, \* whether an agent reports for it
  owner,     \* whom it shows as its owner
  shown,     \* the scan its columns show
  parts,     \* the scan its interfaces and disks are those of
  ledger,    \* the scans that were stored, in their order
  records,   \* who was given it, and which of these records are open
  typed      \* names somebody typed over the owner

vars == <<entry, reporting, owner, shown, parts, ledger, records, typed>>

Record(o) == [owner |-> o, open |-> TRUE]

(* An entry begins with an agent and nobody's, or by hand. *)
Init ==
  /\ entry = "there" /\ reporting \in BOOLEAN
  /\ \/ owner = NoOwner /\ records = <<>>
     \/ ~reporting /\ owner \in Owner /\ records = <<Record(owner)>>
  /\ shown = NoScan /\ parts = NoScan /\ ledger = <<>> /\ typed = {}

Stored == {NoScan} \cup {ledger[i] : i \in DOMAIN ledger}
Named == {NoOwner} \cup typed \cup {records[i].owner : i \in DOMAIN records}

(* An older owner may come back, but nobody comes from nowhere. *)
Reverts == IF entry = "there" THEN owner' \in Named ELSE owner' \in Owner \cup {NoOwner}

Store(s) ==
  /\ reporting /\ s \notin Stored
  /\ ledger' = Append(ledger, s) /\ shown' = s /\ parts' = s
  /\ Reverts
  /\ UNCHANGED <<entry, reporting, records, typed>>

Type(o) ==
  /\ entry # "deleted"
  /\ typed' = typed \cup {o}
  /\ UNCHANGED <<entry, reporting, owner, shown, parts, ledger, records>>

Edit ==
  /\ entry # "deleted"
  /\ IF entry = "there" THEN shown' \in Stored ELSE shown' \in Scan \cup {NoScan}
  /\ Reverts
  /\ UNCHANGED <<entry, reporting, parts, ledger, records, typed>>

Closed(closing) ==
  [i \in DOMAIN records |->
     IF i \in closing THEN [owner |-> records[i].owner, open |-> FALSE] ELSE records[i]]

Give(o) ==
  /\ entry # "deleted"
  /\ owner' = o
  /\ \E closing \in SUBSET DOMAIN records :
       records' = IF o = NoOwner THEN Closed(closing) ELSE Append(Closed(closing), Record(o))
  /\ UNCHANGED <<entry, reporting, shown, parts, ledger, typed>>

Delete ==
  /\ entry # "deleted"
  /\ entry' = "deleted" /\ reporting' = FALSE
  /\ parts' = NoScan /\ ledger' = <<>> /\ records' = <<>>
  /\ UNCHANGED <<owner, shown, typed>>

Reinsert ==
  /\ entry = "deleted"
  /\ entry' = "inserted"
  /\ owner' \in Owner \cup {NoOwner} /\ shown' \in Scan \cup {NoScan}
  /\ UNCHANGED <<reporting, parts, ledger, records, typed>>

Next ==
  \/ \E s \in Scan : Store(s)
  \/ \E o \in Owner \cup {NoOwner} : Type(o) \/ Give(o)
  \/ Edit \/ Delete \/ Reinsert

Spec == Init /\ [][Next]_vars
===============================================================================
