--------------------------- MODULE OrderContract ---------------------------
(***************************************************************************)
(* What the order path promises about one approved order, whatever fails   *)
(* underneath: it is saved before it is posted, posted at most once, its   *)
(* fills are booked only while it is open, and it ends once - settled, or   *)
(* dropped with nothing booked.                                            *)
(***************************************************************************)
EXTENDS Naturals

CONSTANTS Orders, Fills

VARIABLES
    stage,  \* "new", "saved", "confirmed", "ended" or "dropped"
    posted, \* times the order was sent to the venue
    booked  \* fills booked for it

Init ==
    /\ stage = [o \in Orders |-> "new"]
    /\ posted = [o \in Orders |-> 0]
    /\ booked = [o \in Orders |-> {}]

SaveOrder(o) ==
    /\ stage[o] = "new"
    /\ stage' = [stage EXCEPT ![o] = "saved"]
    /\ UNCHANGED <<posted, booked>>

PostOrder(o) ==
    /\ stage[o] = "saved" /\ posted[o] = 0
    /\ posted' = [posted EXCEPT ![o] = 1]
    /\ UNCHANGED <<stage, booked>>

BookFills(o) ==
    /\ stage[o] \in {"saved", "confirmed"} /\ posted[o] = 1
    /\ \E more \in SUBSET Fills : booked' = [booked EXCEPT ![o] = @ \cup more]
    /\ UNCHANGED <<stage, posted>>

Confirm(o) ==
    /\ stage[o] = "saved" /\ posted[o] = 1
    /\ stage' = [stage EXCEPT ![o] = "confirmed"]
    /\ UNCHANGED <<posted, booked>>

\* The venue's answer is one the adapter cannot read: the order must be asked
\* for again.
Doubt(o) ==
    /\ stage[o] = "confirmed"
    /\ stage' = [stage EXCEPT ![o] = "saved"]
    /\ UNCHANGED <<posted, booked>>

\* An order that was never posted can only end without fills.
End(o) ==
    /\ stage[o] \in {"saved", "confirmed"}
    /\ posted[o] = 0 => booked[o] = {}
    /\ stage' = [stage EXCEPT ![o] = "ended"]
    /\ UNCHANGED <<posted, booked>>

Drop(o) ==
    /\ stage[o] = "saved" /\ booked[o] = {}
    /\ stage' = [stage EXCEPT ![o] = "dropped"]
    /\ UNCHANGED <<posted, booked>>

Next ==
    \E o \in Orders :
        \/ SaveOrder(o) \/ PostOrder(o) \/ BookFills(o)
        \/ Confirm(o) \/ Doubt(o) \/ End(o) \/ Drop(o)

Spec == Init /\ [][Next]_<<stage, posted, booked>>
=============================================================================
