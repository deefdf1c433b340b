----------------------------- MODULE CardLedger -----------------------------
(***************************************************************************)
(* What the card operations promise: activating, charging and settling a   *)
(* card each happen at once or not at all, a card is charged only while it *)
(* is active, and settling moves all of its lines into the totals.         *)
(***************************************************************************)
EXTENDS Naturals

CONSTANTS Cards, Phones, Lines, NoCard, NoPhone

VARIABLES
    status,    \* "A" or "D", per card
    phone,     \* the customer of an active card
    row,       \* the card an open line is on
    counted    \* how often a line is in the totals

ledger == <<status, phone, row, counted>>

Init ==
    /\ status = [c \in Cards |-> "D"]
    /\ phone = [c \in Cards |-> NoPhone]
    /\ row = [l \in Lines |-> NoCard]
    /\ counted = [l \in Lines |-> 0]

Activate(c, p) ==
    /\ status[c] = "D"
    /\ status' = [status EXCEPT ![c] = "A"]
    /\ phone' = [phone EXCEPT ![c] = p]
    /\ UNCHANGED <<row, counted>>

Charge(c, l) ==
    /\ status[c] = "A"
    /\ row[l] = NoCard
    /\ counted[l] = 0
    /\ row' = [row EXCEPT ![l] = c]
    /\ UNCHANGED <<status, phone, counted>>

Settle(c) ==
    /\ status[c] = "A"
    /\ status' = [status EXCEPT ![c] = "D"]
    /\ phone' = [phone EXCEPT ![c] = NoPhone]
    /\ counted' = [l \in Lines |-> IF row[l] = c THEN counted[l] + 1 ELSE counted[l]]
    /\ row' = [l \in Lines |-> IF row[l] = c THEN NoCard ELSE row[l]]

Next ==
    \E c \in Cards :
        \/ \E p \in Phones : Activate(c, p)
        \/ \E l \in Lines : Charge(c, l)
        \/ Settle(c)

Spec == Init /\ [][Next]_ledger
=============================================================================
