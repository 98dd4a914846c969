-------------------------------- MODULE Courier --------------------------------
(***************************************************************************)
(* What an agent promises about its scans, with no thread, files, retries  *)
(* or crashes: one scan at a time is taken and carried; it is delivered,   *)
(* kept for later, or lost with whoever carries it.  What is kept stays    *)
(* kept, if only put aside, until the addressee says that he has it, and a *)
(* receipt is signed only for what he has, or says he has, or is kept      *)
(* (agent/azurscan_agent/runtime.py, do_full_scan and _flush_outbox).  An  *)
(* addressee who says so and has thrown it away misleads the courier.      *)
(***************************************************************************)
EXTENDS Naturals

CONSTANT Scan  \* numbered in the order they are taken

VARIABLES
  taken,       \* how many there were
  hand,        \* the one that is carried, if any
  kept,        \* those kept for delivery
  aside,       \* those put aside for good, still kept
  delivered,   \* those the addressee has
  misled,      \* those he said he has when he threw them away
  lost, receipts

vars == <<taken, hand, kept, aside, delivered, misled, lost, receipts>>

Init ==
  /\ taken = 0
  /\ hand = {} /\ kept = {} /\ aside = {}
  /\ delivered = {} /\ misled = {} /\ lost = {} /\ receipts = {}

Take ==
  /\ hand = {}
  /\ taken' = taken + 1 /\ taken' \in Scan
  /\ hand' = {taken'}
  /\ UNCHANGED <<kept, aside, delivered, misled, lost, receipts>>

(* The addressee may have got a scan without the courier's knowing.         *)
Deliver(s) ==
  /\ s \in hand \cup kept
  /\ delivered' = delivered \cup {s}
  /\ hand' \in {hand, hand \ {s}}
  /\ UNCHANGED <<taken, kept, aside, misled, lost, receipts>>

Mislead(s) ==
  /\ s \in hand \cup kept
  /\ misled' = misled \cup {s}
  /\ hand' = hand \ {s}
  /\ UNCHANGED <<taken, kept, aside, delivered, lost, receipts>>

(* The courier reads an answer as a refusal, and tries no more.  The        *)
(* addressee may have got it all the same.                                  *)
PutAside(s) ==
  /\ s \in kept
  /\ kept' = kept \ {s} /\ aside' = aside \cup {s}
  /\ delivered' \in {delivered, delivered \cup {s}}
  /\ UNCHANGED <<taken, hand, misled, lost, receipts>>

Keep(s) ==
  /\ s \in hand
  /\ hand' = hand \ {s} /\ kept' = kept \cup {s}
  /\ UNCHANGED <<taken, aside, delivered, misled, lost, receipts>>

Release(s) ==
  /\ s \in kept \cap (delivered \cup misled)
  /\ kept' = kept \ {s}
  /\ UNCHANGED <<taken, hand, aside, delivered, misled, lost, receipts>>

Lose(s) ==
  /\ s \in hand
  /\ hand' = hand \ {s} /\ lost' = lost \cup {s}
  /\ delivered' \in {delivered, delivered \cup {s}}
  /\ UNCHANGED <<taken, kept, aside, misled, receipts>>

Sign(s) ==
  /\ s \in delivered \cup misled \cup kept \cup aside
  /\ receipts' = receipts \cup {s}
  /\ UNCHANGED <<taken, hand, kept, aside, delivered, misled, lost>>

Next ==
  \/ Take
  \/ \E s \in Scan : \/ Deliver(s) \/ Mislead(s) \/ PutAside(s) \/ Keep(s)
                     \/ Release(s) \/ Lose(s) \/ Sign(s)

Spec == Init /\ [][Next]_vars
===============================================================================
