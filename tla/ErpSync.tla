------------------------------ MODULE ErpSync ------------------------------
(***************************************************************************)
(* Customers from the ERP: the worker asks Voalle for the customers        *)
(* modified since its last tick without errors, page by page, and upserts  *)
(* the answer one customer after the other.  Fifteen seconds after the     *)
(* start one tick runs in a goroutine of its own, beside the loop's.  Both *)
(* share the watermark, the token and the table.                           *)
(***************************************************************************)
EXTENDS CustomerRows, Functions

CONSTANTS
    FirstLogins, \* the logins the ERP may start with
    PerPage      \* customers of a page (100)

ASSUME ErpAssumption ==
    /\ PerPage \in Nat \ {0}
    /\ FirstLogins \subseteq [Customers -> Logins \cup {Missing}]

ErpTicks == {"boot", "loop"}

VARIABLES
    erp,         \* the login of each customer in the ERP
    modified,    \* customers modified in the ERP since lastSince
    erpTick,     \* the two ticks
    token,       \* the access token the provider holds: "none", "good" or "stale"
    raced        \* history: customers edited between the starts of two overlapping ticks

erpOnly == <<erp, modified, erpTick, token, raced>>
erpVars == <<customers, counters, erpOnly>>

NoAnswer == [c \in {} |-> Missing]

\* The page it asks for or works on; whether anything failed; the customers modified
\* since the watermark it read, before it began and since; what is left of the
\* page's answer, and whether the page was full.
Resting == [at |-> "idle", page |-> 1, failed |-> FALSE, asked |-> {}, fresh |-> {},
            answer |-> NoAnswer, full |-> FALSE]

Running(t) == erpTick[t].at \in {"page", "upsert"}

\* lastSince is in memory, and zero at boot: everything is asked for.
ErpInit ==
    /\ RowsInit
    /\ erp \in FirstLogins
    /\ modified = Customers
    /\ erpTick = [t \in ErpTicks |-> Resting] /\ token = "none"
    /\ raced = {}

-----------------------------------------------------------------------------
\* A token is fetched when none is held; one that was revoked looks valid.
Token(held) == IF held = "none" THEN "good" ELSE held

Invalidate(held) == "none"

\* doAuthorized: after a 401 the token is dropped and the request tried once more.
Authorized ==
    LET first == Token(token)
    IN  IF first = "stale" THEN Token(Invalidate(first)) ELSE first

\* A tick that runs alone asks again for all that is modified; one that starts beside
\* another may be overtaken by the other's older answers.
RacedBy(t) ==
    LET others == {u \in ErpTicks \ {t} : Running(u)}
    IN  IF others = {} THEN raced \ modified
        ELSE raced \cup UNION {erpTick[u].fresh : u \in others}

StartErpTick(t) ==
    /\ erpTick[t].at = "idle"
    /\ erpTick' = [erpTick EXCEPT ![t] = [Resting EXCEPT !.at = "page", !.asked = modified]]
    /\ raced' = RacedBy(t)
    /\ UNCHANGED <<customers, counters, erp, modified, token>>

\* Faulty variant: the watermark advances whatever failed.
SinceAfterAny(t, failed) == erpTick[t].fresh

\* Faulty variant: it advances to the end of the tick.
SinceEnd(t, failed) == IF failed THEN modified ELSE {}

\* What the next tick asks for: after errors, all of it again.
SinceAfter(t, failed) == IF failed THEN modified ELSE erpTick[t].fresh

\* The boot's tick runs once.
EndErpTick(t, failed) ==
    /\ erpTick' = [erpTick EXCEPT ![t] =
                     [Resting EXCEPT !.at = IF t = "boot" THEN "over" ELSE "idle"]]
    /\ modified' = SinceAfter(t, failed)
    /\ UNCHANGED <<erp, raced>>

\* What the ERP lists for a tick, by id: its n-th customer, none when the list is shorter.
Listed(t)  == erpTick[t].asked \cup erpTick[t].fresh
Rank(t, c) == Cardinality({k \in Listed(t) : k < c})

First(t) == (erpTick[t].page - 1) * PerPage
Page(t)  == {c \in Listed(t) : Rank(t, c) \in First(t) .. First(t) + PerPage - 1}
Full(t)  == \E c \in Listed(t) : Rank(t, c) = First(t) + PerPage - 1

AskPage(t) ==
    /\ erpTick[t].at = "page"
    /\ token' = Authorized
    /\ IF Authorized # "good" THEN EndErpTick(t, TRUE)
       ELSE /\ erpTick' = [erpTick EXCEPT ![t].at = "upsert",
                              ![t].answer = [c \in Page(t) |-> erp[c]], ![t].full = Full(t)]
            /\ UNCHANGED <<erp, modified, raced>>
    /\ UNCHANGED <<customers, counters>>

Least(S) == CHOOSE c \in S : \A k \in S : c <= k
Left(t)  == DOMAIN erpTick[t].answer

\* Faulty variant: a customer that is refused does not count as an error.
DoneQuietly(t, c, ok) ==
    erpTick' = [erpTick EXCEPT ![t].answer = Restrict(@, Left(t) \ {c})]

Done(t, c, ok) ==
    erpTick' = [erpTick EXCEPT ![t].answer = Restrict(@, Left(t) \ {c}),
                               ![t].failed = @ \/ ~ok]

\* The next customer of the answer is written, or refused because another has the login.
UpsertNext(t) ==
    LET c == Least(Left(t))
        login == erpTick[t].answer[c]
    IN
    /\ erpTick[t].at = "upsert" /\ Left(t) # {}
    /\ IF Taken(c, login) THEN UNCHANGED customers ELSE WriteRow(c, login)
    /\ Done(t, c, ~Taken(c, login))
    /\ UNCHANGED <<counters, erp, modified, token, raced>>

\* Its statement fails.
UpsertFails(t) ==
    /\ erpTick[t].at = "upsert" /\ Left(t) # {}
    /\ Fault
    /\ Done(t, Least(Left(t)), FALSE)
    /\ UNCHANGED <<customers, edits, erp, modified, token, raced>>

\* A full page may have another one after it.
PageDone(t) ==
    /\ erpTick[t].at = "upsert" /\ Left(t) = {}
    /\ IF erpTick[t].full
       THEN /\ erpTick' = [erpTick EXCEPT ![t].at = "page", ![t].page = @ + 1]
            /\ UNCHANGED <<erp, modified, raced>>
       ELSE EndErpTick(t, erpTick[t].failed)
    /\ UNCHANGED <<customers, counters, token>>

\* The token or the page cannot be had, or the ten minutes are over.
ErpTickFails(t, held) ==
    /\ Running(t)
    /\ Fault
    /\ token' = held
    /\ EndErpTick(t, TRUE)
    /\ UNCHANGED <<customers, edits>>

\* The worker restarts: the boot's tick will run again.
ErpRestart ==
    /\ Fault
    /\ modified' = Customers /\ raced' = {}
    /\ erpTick' = [t \in ErpTicks |-> Resting] /\ token' = "none"
    /\ UNCHANGED <<customers, edits, erp>>

-----------------------------------------------------------------------------
(* The ERP.                                                                *)

\* Logins are given, taken away and passed on.  The ERP dates an edit after the
\* watermark and after the start of every tick that runs.
EditCustomers(logins) ==
    LET changed == {c \in Customers : logins[c] # erp[c]} IN
    /\ changed # {}
    /\ Edited
    /\ erp' = logins
    /\ modified' = modified \cup changed
    /\ erpTick' = [t \in ErpTicks |-> IF Running(t)
                     THEN [erpTick[t] EXCEPT !.fresh = @ \cup changed] ELSE erpTick[t]]
    /\ raced' = raced \ changed
    /\ UNCHANGED <<customers, token, faults>>

Revoke ==
    /\ token = "good"
    /\ Fault
    /\ token' = "stale"
    /\ UNCHANGED <<customers, edits, erp, modified, erpTick, raced>>

ErpStep(t) == StartErpTick(t) \/ AskPage(t) \/ UpsertNext(t) \/ PageDone(t)

ErpNext ==
    \/ \E t \in ErpTicks :
          ErpStep(t) \/ UpsertFails(t) \/ \E held \in {token, "none"} : ErpTickFails(t, held)
    \/ ErpRestart \/ Revoke
    \/ \E logins \in [Customers -> Logins \cup {Missing}] : EditCustomers(logins)

\* The loop ticks for ever, the boot's tick comes, and each goes on.
ErpSpec == ErpInit /\ [][ErpNext]_erpVars /\ \A t \in ErpTicks : WF_erpVars(ErpStep(t))

-----------------------------------------------------------------------------
(* Properties.                                                             *)

ErpTypeOK ==
    /\ RowsTypeOK
    /\ erp \in [Customers -> Logins \cup {Missing}]
    /\ modified \subseteq Customers /\ raced \subseteq Customers
    /\ erpTick["boot"].at \in {"idle", "page", "upsert", "over"}
    /\ erpTick["loop"].at \in {"idle", "page", "upsert"}
    /\ token \in {"none", "good", "stale"}

\* erp_sync.go:114: the watermark passes no customer.  Whatever is refused, fails or
\* shifts the pages while the ticks go through them, a row that does not say what the
\* ERP says belongs to a customer that the ERP will list again: but for one edited
\* after one tick began and before another did, while both run, whose older answer
\* may be written last (main.go:226).
NonePassed == \A c \in Customers \ raced : customers[c] # erp[c] => c \in modified

\* Rows that exchange logins in a circle: each waits for the next one, for ever.
Crossed ==
    \E S \in SUBSET Customers \ {{}} :
        /\ {erp[c] : c \in S} = {customers[c] : c \in S}
        /\ \A c \in S : erp[c] # customers[c] /\ erp[c] # Missing

\* No two customers have a login in the ERP, no rows are crossed, and no tick wrote
\* an older answer over a newer one.
Orderly ==
    /\ ~Crossed /\ raced = {}
    /\ \A c, k \in Customers : erp[c] = erp[k] /\ c # k => erp[c] = Missing

\* erp_sync.go:95, :115: although pages, upserts, tokens and workers fail, and a login
\* moves from one customer to another in an order the unique key refuses at first,
\* each row comes to say what the ERP says, for good.
RowsFollowErp ==
    \A c \in Customers, login \in Logins \cup {Missing} :
        <>[](erp[c] = login /\ Orderly) => <>[](customers[c] = login)

-----------------------------------------------------------------------------
(* Inductive strengthening, for the proofs of InventoryProofs.             *)

\* Until something fails, what a tick has gone through is written.
Written(t, c) ==
    IF erpTick[t].at = "page" THEN Rank(t, c) < First(t)
    ELSE c \notin Left(t) /\ (~erpTick[t].full \/ Rank(t, c) < First(t) + PerPage)

WrittenAgree(t, c) ==
    ~erpTick[t].failed /\ c \in erpTick[t].asked \ (erpTick[t].fresh \cup raced) /\ Written(t, c)
        => customers[c] = erp[c]

\* Of the others the rows agreed when the tick began.
OthersAgree(t, c) == c \notin Listed(t) \cup raced => customers[c] = erp[c]

\* An answer is old only of customers who were edited since.
AnswerIsCurrent(t, c) == c \in Left(t) \ erpTick[t].fresh => erpTick[t].answer[c] = erp[c]

\* Those are listed again, whichever tick ends first.
FreshIsKept(t, c) ==
    c \in erpTick[t].fresh \ raced =>
        c \in modified /\ \A u \in ErpTicks : Running(u) => c \in erpTick[u].fresh

TickAgrees(t, c) ==
    WrittenAgree(t, c) /\ OthersAgree(t, c) /\ AnswerIsCurrent(t, c) /\ FreshIsKept(t, c)

TicksAgree == \A t \in ErpTicks, c \in Customers : Running(t) => TickAgrees(t, c)

=============================================================================
