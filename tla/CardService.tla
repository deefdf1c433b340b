----------------------------- MODULE CardService -----------------------------
(***************************************************************************)
(* The card operations of the backend: CardService.cpp and the functions   *)
(* of Database.cpp under it, as the HTTP handlers run them.  A handler is  *)
(* a thread of the server's pool; it takes a request, issues its           *)
(* statements one by one on the shared connection and replies.  Between    *)
(* any two statements other handlers may issue theirs.                     *)
(*                                                                         *)
(* Data.  A consumption line is the identity of the request that asked for *)
(* it; its product, quantity and price matter only through sums, so        *)
(* total_to_pay is the set of lines summed and producttotals is, for each  *)
(* line, how many times it was added in.                                   *)
(***************************************************************************)
EXTENDS PgConnection, Naturals

CONSTANTS
    Cards,          \* card_id of the rows of opencard
    Strangers,      \* UIDs that have no row
    Phones,         \* phone numbers customers give
    Lines,          \* add_consumption requests the terminals may send
    Products,       \* product ids the terminals may send
    Catalog,        \* those with a row in product
    Handlers,       \* threads of the HTTP server's pool
    NoCard, NoPhone, NoLine, NoProduct,
    Disciplined,    \* TRUE: the terminals send no two requests at once that Clash
    MaxCount        \* bound: no close starts once a line was added in MaxCount times

ASSUME CardsAssumption == NoCard \notin Cards \cup Strangers
ASSUME PhonesAssumption == NoPhone \notin Phones
ASSUME LinesAssumption == NoLine \notin Lines
ASSUME ProductsAssumption == NoProduct \notin Products /\ Catalog \subseteq Products
ASSUME CountAssumption == MaxCount \in Nat
ASSUME DisciplineAssumption == Disciplined \in BOOLEAN

VARIABLES
    pc,       \* what each handler does next
    req,      \* the request it works on
    result,   \* the DbResult it will return
    used,     \* ghost: lines some request has asked for
    acked     \* ghost: lines of existing products whose request was answered ok

handling == <<pc, req, result>>
vars == <<db, handling, used, acked>>

Uids == Cards \cup Strangers
Ops == {"activate", "register", "close", "summary", "exit", "report"}
Writing == {"activate", "register", "close"}
Results == {"Ok", "NotFound", "InvalidState", "ConstraintFailed",
            "ConnectionError", "UnknownError", "TxError"}

Request == [op : Ops, uid : Uids \cup {NoCard}, phone : Phones \cup {NoPhone},
            line : Lines \cup {NoLine}, product : Products \cup {NoProduct}]
NoRequest == [op |-> "none", uid |-> NoCard, phone |-> NoPhone,
              line |-> NoLine, product |-> NoProduct]

Tables == [status : [Cards -> {"A", "D"}],
           phone : [Cards -> Phones \cup {NoPhone}],
           total : [Cards -> SUBSET Lines],
           row : [Lines -> Cards \cup {NoCard}],
           counted : [Lines -> Nat]]

EmptyTables == [status |-> [c \in Cards |-> "D"],
                phone |-> [c \in Cards |-> NoPhone],
                total |-> [c \in Cards |-> {}],
                row |-> [l \in Lines |-> NoCard],
                counted |-> [l \in Lines |-> 0]]

RowsOf(t, c) == {l \in Lines : t.row[l] = c}

-----------------------------------------------------------------------------
(* What the statements do to the tables.                                   *)

\* UPDATE opencard SET status = 'A', phone = $1, total_to_pay = 0
Activated(t, c, p) == [t EXCEPT !.status[c] = "A", !.phone[c] = p, !.total[c] = {}]

\* INSERT INTO openconsumption ... SELECT ... FROM product WHERE product_id = $2
Inserted(t, c, l, p) == IF p \in Catalog THEN [t EXCEPT !.row[l] = c] ELSE t

\* Mutant of Totalled: the sum over all cards, a forgotten WHERE.
TotalledOverAll(t, c) == [t EXCEPT !.total[c] = {l \in Lines : t.row[l] # NoCard}]

\* UPDATE opencard SET total_to_pay = (SELECT COALESCE(SUM(line_total), 0) ...)
Totalled(t, c) == [t EXCEPT !.total[c] = RowsOf(t, c)]

\* INSERT INTO producttotals ... SELECT SUM ... ON CONFLICT DO UPDATE ... +
Aggregated(t, c) ==
    [t EXCEPT !.counted = [l \in Lines |-> IF t.row[l] = c THEN @[l] + 1 ELSE @[l]]]

\* Mutants of Deleted: forgotten; only the lines the running total was made of; the lines
\* of every card, a forgotten WHERE.
DeletedNothing(t, c) == t
DeletedTotalled(t, c) ==
    [t EXCEPT !.row = [l \in Lines |-> IF @[l] = c /\ l \in t.total[c] THEN NoCard ELSE @[l]]]
DeletedAll(t, c) == [t EXCEPT !.row = [l \in Lines |-> NoCard]]

\* DELETE FROM openconsumption WHERE card_id = $1
Deleted(t, c) ==
    [t EXCEPT !.row = [l \in Lines |-> IF @[l] = c THEN NoCard ELSE @[l]]]

\* Mutants of Deactivated: a status the schema does not know; the total kept.
DeactivatedAsClosed(t, c) == [t EXCEPT !.status[c] = "C", !.phone[c] = NoPhone, !.total[c] = {}]
DeactivatedKeepingTotal(t, c) == [t EXCEPT !.status[c] = "D", !.phone[c] = NoPhone]

\* UPDATE opencard SET status = 'D', phone = 0, total_to_pay = 0
Deactivated(t, c) ==
    [t EXCEPT !.status[c] = "D", !.phone[c] = NoPhone, !.total[c] = {}]

-----------------------------------------------------------------------------
Init ==
    /\ Connect(EmptyTables)
    /\ pc = [h \in Handlers |-> "idle"]
    /\ req = [h \in Handlers |-> NoRequest]
    /\ result = [h \in Handlers |-> "Ok"]
    /\ used = {}
    /\ acked = {}

Goto(h, step) ==
    /\ pc' = [pc EXCEPT ![h] = step]
    /\ UNCHANGED <<req, result, used, acked>>

\* Return r from the Database function; the handler still has to reply.
Return(h, r) ==
    /\ pc' = [pc EXCEPT ![h] = "reply"]
    /\ result' = [result EXCEPT ![h] = r]
    /\ UNCHANGED <<req, used, acked>>

\* Mutant of GiveUp: an error return without its ROLLBACK.
GiveUpInTransaction(h, r) == Return(h, r)

\* closeCard gives up with r after a ROLLBACK.
GiveUp(h, r) ==
    /\ pc' = [pc EXCEPT ![h] = "rollback"]
    /\ result' = [result EXCEPT ![h] = r]
    /\ UNCHANGED <<req, used, acked>>

\* Steps at which a handler is not inside Database.
Outside == {"idle", "reply", "reply closed"}

\* Another handler is inside Database at the same time.
Contended(h) == \E g \in Handlers \ {h} : pc[g] \notin Outside

\* CardService refuses a phone, product or quantity that is not positive.
Refused(r) ==
    \/ r.op = "activate" /\ r.phone = NoPhone
    \/ r.op = "register" /\ r.product = NoProduct

\* Requests that are not safe at the same time: a checkout beside any other
\* request that writes, and two activations of one card.
Clash(r, q) ==
    \/ "close" \in {r.op, q.op} /\ {r.op, q.op} \subseteq Writing
    \/ r.op = "activate" /\ q.op = "activate" /\ r.uid = q.uid

\* A handler thread takes request r and, unless CardService refuses it, enters
\* the Database function, whose first act is isAlive().
Start(h, r) ==
    /\ pc[h] = "idle"
    /\ Disciplined => \A g \in Handlers : ~Clash(r, req[g])
    /\ r.op = "close" => \A l \in Lines : work.counted[l] < MaxCount
    /\ req' = [req EXCEPT ![h] = r]
    /\ pc' = [pc EXCEPT ![h] = IF Refused(r) \/ ~IsAlive THEN "reply"
                                 ELSE IF r.op = "report" THEN "query" ELSE "check"]
    /\ result' = [result EXCEPT ![h] = IF Refused(r) THEN "ConstraintFailed"
                                       ELSE IF ~IsAlive THEN "ConnectionError"
                                       ELSE "Ok"]
    /\ used' = used \cup ({r.line} \ {NoLine})
    /\ UNCHANGED <<db, acked>>

\* The requests the terminals send.
StartActivate(h) == \E u \in Uids, p \in Phones \cup {NoPhone} :
    Start(h, [NoRequest EXCEPT !.op = "activate", !.uid = u, !.phone = p])
StartRegister(h) == \E u \in Uids, l \in Lines \ used, p \in Products \cup {NoProduct} :
    Start(h, [NoRequest EXCEPT !.op = "register", !.uid = u, !.line = l, !.product = p])
StartOther(h) ==
    \/ \E u \in Uids, o \in {"close", "summary", "exit"} :
           Start(h, [NoRequest EXCEPT !.op = o, !.uid = u])
    \/ Start(h, [NoRequest EXCEPT !.op = "report"])

\* Mutant of AfterCheck: validate_exit does not look at the status.
AfterCheckOpenGate(h, op, status) ==
    CASE op = "activate" -> IF status = "A" THEN Return(h, "InvalidState")
                                            ELSE Goto(h, "activate")
      [] op = "close"    -> IF status = "D" THEN Return(h, "InvalidState")
                                            ELSE Goto(h, "begin")
      [] op = "register" -> IF status # "A" THEN Return(h, "InvalidState")
                                            ELSE Goto(h, "insert")
      [] op = "summary"  -> Goto(h, "lines")
      [] op = "exit"     -> Goto(h, "lines closed")

\* Where SELECT status leads: the answer for a UID without a row, the refusals
\* of a card in the wrong state, or the next statement.
AfterCheck(h, op, status) ==
    CASE op = "activate" -> IF status = "A" THEN Return(h, "InvalidState")
                                            ELSE Goto(h, "activate")
      [] op = "close"    -> IF status = "D" THEN Return(h, "InvalidState")
                                            ELSE Goto(h, "begin")
      [] op = "register" -> IF status # "A" THEN Return(h, "InvalidState")
                                            ELSE Goto(h, "insert")
      [] op = "summary"  -> Goto(h, "lines")
      [] op = "exit"     -> Goto(h, IF status = "D" THEN "lines closed" ELSE "lines")

Check(h) ==
    /\ pc[h] = "check"
    /\ \/ /\ Execute(work)
          /\ IF req[h].uid \in Cards
             THEN AfterCheck(h, req[h].op, work.status[req[h].uid])
             ELSE Return(h, "NotFound")
       \/ ExecuteFails(work, Contended(h)) /\ Return(h, "UnknownError")

\* activateCard's only writing statement.
Activate(h) ==
    LET new == Activated(work, req[h].uid, req[h].phone)
    IN  /\ pc[h] = "activate"
        /\ \/ Execute(new) /\ Return(h, "Ok")
           \/ ExecuteFails(new, Contended(h)) /\ Return(h, "UnknownError")

\* Mutant of Insert: returns without updating the total.
InsertOnly(h) ==
    LET new == Inserted(work, req[h].uid, req[h].line, req[h].product)
    IN  pc[h] = "insert" /\ Execute(new) /\ Return(h, "Ok")

\* registerConsumption: the line, then the running total; no transaction.
Insert(h) ==
    LET new == Inserted(work, req[h].uid, req[h].line, req[h].product)
    IN  /\ pc[h] = "insert"
        /\ \/ Execute(new) /\ Goto(h, "total")
           \/ ExecuteFails(new, Contended(h)) /\ Return(h, "UnknownError")

UpdateTotal(h) ==
    LET new == Totalled(work, req[h].uid)
    IN  /\ pc[h] = "total"
        /\ \/ Execute(new) /\ Return(h, "Ok")
           \/ ExecuteFails(new, Contended(h)) /\ Return(h, "UnknownError")

\* Mutants of BeginClose and CommitClose: the statement is not issued.
BeginForgotten(h) == pc[h] = "begin" /\ Goto(h, "aggregate") /\ UNCHANGED db
CommitForgotten(h) == pc[h] = "commit" /\ Return(h, "Ok") /\ UNCHANGED db

\* closeCard: BEGIN, aggregate, delete, deactivate, COMMIT.
BeginClose(h) ==
    /\ pc[h] = "begin"
    /\ \/ Begin /\ Goto(h, "aggregate")
       \/ BeginFails(Contended(h)) /\ Return(h, "TxError")

Aggregate(h) ==
    LET new == Aggregated(work, req[h].uid)
    IN  /\ pc[h] = "aggregate"
        /\ \/ Execute(new) /\ Goto(h, "delete")
           \/ ExecuteFails(new, Contended(h)) /\ GiveUp(h, "UnknownError")

Delete(h) ==
    LET new == Deleted(work, req[h].uid)
    IN  /\ pc[h] = "delete"
        /\ \/ Execute(new) /\ Goto(h, "deactivate")
           \/ ExecuteFails(new, Contended(h)) /\ GiveUp(h, "UnknownError")

Deactivate(h) ==
    LET new == Deactivated(work, req[h].uid)
    IN  /\ pc[h] = "deactivate"
        /\ \/ Execute(new) /\ Goto(h, "commit")
           \/ ExecuteFails(new, Contended(h)) /\ GiveUp(h, "UnknownError")

CommitClose(h) ==
    /\ pc[h] = "commit"
    /\ \/ Commit /\ Return(h, "Ok")
       \/ CommitFails(Contended(h)) /\ Return(h, "TxError")

RollbackClose(h) ==
    /\ pc[h] = "rollback"
    /\ Rollback(Contended(h))
    /\ Goto(h, "reply")

\* getCardSummary's second SELECT.  validate_exit answers that the card is
\* closed when both worked and the first saw 'D': step "reply closed".
ReadLines(h) ==
    /\ pc[h] \in {"lines", "lines closed"}
    /\ \/ Execute(work) /\ Goto(h, IF pc[h] = "lines" THEN "reply" ELSE "reply closed")
       \/ ExecuteFails(work, Contended(h)) /\ Return(h, "UnknownError")

\* The one SELECT of /login, /products and /product_totals; of these only
\* authenticateUser may find no row or refuse the one it found.
Query(h) ==
    /\ pc[h] = "query"
    /\ \/ \E r \in {"Ok", "NotFound", "ConstraintFailed"} : Execute(work) /\ Return(h, r)
       \/ ExecuteFails(work, Contended(h)) /\ Return(h, "UnknownError")

\* The LED and buzzer signal CardService asks for with a result.
FeedbackFor(op, r) ==
    IF r # "Ok" THEN "ERROR" ELSE IF op = "close" THEN "CHECKOUT" ELSE "ACTIVATE"

\* The handler sends its reply and returns to the pool.
Reply(h) ==
    /\ pc[h] \in Outside \ {"idle"}
    /\ pc' = [pc EXCEPT ![h] = "idle"]
    /\ req' = [req EXCEPT ![h] = NoRequest]
    /\ result' = [result EXCEPT ![h] = "Ok"]
    /\ acked' = IF req[h].op = "register" /\ req[h].product \in Catalog /\ result[h] = "Ok"
                THEN acked \cup {req[h].line} ELSE acked
    /\ UNCHANGED <<db, used>>

\* The process dies with whatever its threads were doing and is started again.
Restart ==
    /\ Reconnect
    /\ pc' = [h \in Handlers |-> "idle"]
    /\ req' = [h \in Handlers |-> NoRequest]
    /\ result' = [h \in Handlers |-> "Ok"]
    /\ UNCHANGED <<used, acked>>

Handle(h) ==
    \/ StartActivate(h) \/ StartRegister(h) \/ StartOther(h)
    \/ Query(h) \/ Check(h) \/ Activate(h) \/ Insert(h) \/ UpdateTotal(h)
    \/ BeginClose(h) \/ Aggregate(h) \/ Delete(h) \/ Deactivate(h)
    \/ CommitClose(h) \/ RollbackClose(h) \/ ReadLines(h) \/ Reply(h)

Next == Restart \/ \E h \in Handlers : Handle(h)

Spec == Init /\ [][Next]_vars

-----------------------------------------------------------------------------
(* Properties.                                                             *)

Steps == {"query", "check", "activate", "insert", "total", "begin", "aggregate", "delete",
          "deactivate", "commit", "rollback", "lines", "lines closed"}

TypeOK ==
    /\ disk \in Tables
    /\ work \in Tables
    /\ tx \in {"idle", "open", "aborted"}
    /\ link \in BOOLEAN
    /\ pc \in [Handlers -> Steps \cup Outside]
    /\ req \in [Handlers -> Request \cup {NoRequest}]
    /\ result \in [Handlers -> Results]
    /\ used \subseteq Lines
    /\ acked \subseteq Lines

\* A consumption line is billed once: while it is open it has not been added to
\* producttotals, and it is never added in twice.  closeCard's INSERT, DELETE and
\* COMMIT are what this is about, through every failure and restart.
BilledExactlyOnce ==
    \A l \in Lines :
        /\ disk.counted[l] <= 1
        /\ disk.row[l] # NoCard => disk.counted[l] = 0

\* A consumption of an existing product that was answered ok is on the customer's card or in the
\* totals: registerConsumption's INSERT was durable when the terminal heard ok.
AckedIsCharged ==
    \A l \in acked : disk.row[l] # NoCard \/ disk.counted[l] > 0

\* An inactive card carries nothing over to the next customer: no line, no
\* amount, no phone number.
InactiveIsClean ==
    \A c \in Cards : disk.status[c] = "D" =>
        RowsOf(disk, c) = {} /\ disk.total[c] = {} /\ disk.phone[c] = NoPhone

\* A consumption line stays with the customer it was registered for until it is billed:
\* no step, commit, failure or restart gives its card to another customer or to none while
\* the line is on it, and the line leaves it only into producttotals, at that moment and
\* once.  Between two statements of closeCard, and between two of registerConsumption and
\* an activation that is under way, this is what could be lost.
LineKeepsCustomer ==
    [][\A l \in Lines : disk.row[l] # NoCard =>
         \/ /\ disk'.row[l] = disk.row[l]
            /\ disk'.phone[disk.row[l]] = disk.phone[disk.row[l]]
         \/ /\ disk'.row[l] = NoCard
            /\ disk'.counted[l] = disk.counted[l] + 1]_vars

\* When the checkout signal (blue, two beeps) and the ok of close_card go out,
\* the card is inactive on disk and nothing is left on it.
CheckoutIsDurable ==
    \A h \in Handlers :
        /\ pc[h] = "reply"
        /\ req[h].op = "close"
        /\ FeedbackFor(req[h].op, result[h]) = "CHECKOUT"
        => disk.status[req[h].uid] = "D" /\ RowsOf(disk, req[h].uid) = {}

\* No transaction is left open behind the program's back: while the connection
\* is in one, some closeCard is on its way to COMMIT or ROLLBACK.
NoOrphanTransaction ==
    tx # "idle" => \E h \in Handlers :
        pc[h] \in {"aggregate", "delete", "deactivate", "commit", "rollback"}

\* What producttotals has recorded is never taken back, whatever is rolled back.
TotalsNeverShrink == [][\A l \in Lines : disk.counted[l] <= disk'.counted[l]]_vars

\* A line leaves a card only by being added to producttotals in the same commit.
NoLineVanishes ==
    [][\A l \in Lines : disk.row[l] # NoCard /\ disk'.row[l] = NoCard
         => disk.counted[l] < disk'.counted[l]]_vars

\* A card has a customer's phone number exactly while it is active.
PhoneIffActive ==
    \A c \in Cards : disk.status[c] = "A" <=> disk.phone[c] # NoPhone

\* What request r asked for is in tables t.
Done(r, t) ==
    /\ r.op = "activate" => t.status[r.uid] = "A" /\ t.phone[r.uid] = r.phone
    /\ r.op = "register" => t.total[r.uid] = RowsOf(t, r.uid)
    /\ r.op = "register" /\ r.product \in Catalog => t.row[r.line] = r.uid

\* An Ok of activateCard or registerConsumption is true on disk when it is returned:
\* the card is the customer's; the line, if its product exists, is on the card, and
\* the amount is that of all its lines, those of earlier failures included.
OkIsCommitted ==
    [][\A h \in Handlers :
         pc[h] # "reply" /\ pc'[h] = "reply" /\ result'[h] = "Ok" => Done(req[h], disk')]_vars

\* A closeCard that returns Ok has closed the card on disk, through every fault,
\* unless a failed statement had aborted its transaction.
CheckoutCommits ==
    [][\A h \in Handlers :
         pc[h] = "commit" /\ pc'[h] = "reply" /\ result'[h] = "Ok" /\ tx # "aborted"
         => disk'.status[req[h].uid] = "D" /\ RowsOf(disk', req[h].uid) = {}]_vars

\* validate_exit goes on towards "card closed" only for a card that is closed on
\* disk or whose closeCard has nothing left to do but its COMMIT.
ExitSeesCheckout ==
    [][\A h \in Handlers :
         pc[h] = "check" /\ pc'[h] = "lines closed"
         => \/ disk.status[req[h].uid] = "D"
            \/ \E g \in Handlers : pc[g] = "commit" /\ req[g].uid = req[h].uid]_vars

\* A customer is never asked for more than the lines of the card come to.
AmountIsOfLines == \A c \in Cards : disk.total[c] \subseteq RowsOf(disk, c)

\* What is committed moves as the abstract ledger does: activations, charges and
\* checkouts are atomic and happen only to cards in the right state.
Ledger == INSTANCE CardLedger WITH
    status <- disk.status, phone <- disk.phone, row <- disk.row, counted <- disk.counted
RefinesLedger == Ledger!Spec
=============================================================================
