---------------------------- MODULE CustomerRows ----------------------------
(***************************************************************************)
(* The table of customers, which the ERP's ticks write and the inventory's *)
(* ticks read.  Of a customer only the PPPoE login matters, which is       *)
(* unique in the table: it is what links a device to its customer.         *)
(***************************************************************************)
EXTENDS Integers, FiniteSets

CONSTANTS
    Customers,   \* external ids, numbers: the ERP lists by id
    Logins,
    Missing,     \* no login, or NULL
    NoRow,       \* a customer or a device that has no row
    MaxEdits,    \* bound on the edits in the ERP and by operators
    MaxFaults    \* bound on failed calls and statements, revocations and restarts

ASSUME RowsAssumption ==
    /\ Customers \subseteq Nat
    /\ NoRow \notin Logins \cup {Missing}
    /\ MaxEdits \in Nat /\ MaxFaults \in Nat

VARIABLES
    customers,      \* the row of each customer
    edits, faults

counters == <<edits, faults>>

Fault  == faults < MaxFaults /\ faults' = faults + 1
Edited == edits < MaxEdits /\ edits' = edits + 1

RowsInit ==
    /\ customers = [c \in Customers |-> NoRow]
    /\ edits = 0 /\ faults = 0

\* Faulty variant: the key is not unique.
NeverTaken(c, login) == FALSE

\* customers_pppoe_login_key: another row has the login.
Taken(c, login) == login # Missing /\ \E k \in Customers \ {c} : customers[k] = login

\* One upsert, which the key may refuse.
WriteRow(c, login) ==
    /\ ~Taken(c, login)
    /\ customers' = [customers EXCEPT ![c] = login]

RowsTypeOK ==
    /\ customers \in [Customers -> Logins \cup {Missing, NoRow}]
    /\ \A c, k \in Customers : customers[c] = customers[k] /\ c # k =>
           customers[c] \in {Missing, NoRow}
    /\ edits \in 0 .. MaxEdits /\ faults \in 0 .. MaxFaults

=============================================================================
