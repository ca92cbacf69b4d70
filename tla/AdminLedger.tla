---------------------------- MODULE AdminLedger ----------------------------
(***************************************************************************)
(* What the administration promises of a supplier or customer: its access  *)
(* code is the last one issued, and it is blocked or removed exactly if    *)
(* the last such order said so.  There are no requests, no store, no calls *)
(* to ERPNext, and no code that is still to be persisted.                  *)
(***************************************************************************)
CONSTANTS Suppliers, Customers, Codes, NoCode

VARIABLES entry,  \* entry[s]: code, blocked, removed
          used    \* the codes issued so far

Parties == Suppliers \cup Customers

ledgerVars == <<entry, used>>

Init ==
    /\ entry = [s \in Parties |-> [code |-> NoCode, blocked |-> FALSE, removed |-> FALSE]]
    /\ used = {}

Stands(s, code, blocked, removed) ==
    entry' = [entry EXCEPT ![s] =
                 [code |-> code, blocked |-> blocked, removed |-> removed]]

Issue(s, c) ==
    /\ c \notin used
    /\ s \in Suppliers => ~ entry[s].removed
    /\ used' = used \cup {c}
    /\ Stands(s, c, entry[s].blocked, entry[s].removed)

Block(s, b) ==
    /\ ~ entry[s].removed
    /\ Stands(s, entry[s].code, b, FALSE)
    /\ UNCHANGED used

Remove(s) == Stands(s, entry[s].code, TRUE, TRUE) /\ UNCHANGED used

Restore(s) == Stands(s, entry[s].code, FALSE, FALSE) /\ UNCHANGED used

Next ==
    \E s \in Parties :
        \/ \E c \in Codes : Issue(s, c)
        \/ \E b \in BOOLEAN : Block(s, b)
        \/ Remove(s)
        \/ Restore(s)

Spec == Init /\ [][Next]_ledgerVars
=============================================================================
