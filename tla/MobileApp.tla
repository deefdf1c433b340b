----------------------------- MODULE MobileApp -----------------------------
(***************************************************************************)
(* The mobile application from its Role page on: the routes the Navigator  *)
(* holds, the pages that wait for a card, and the card operations an       *)
(* employee asks for.  All pages share one ApiController, whose            *)
(* currentCardId is the card every operation is sent for.                  *)
(*                                                                         *)
(* The server is the environment: it answers a poll with any card or none, *)
(* and carries out a request or does not, and its answer may be lost.      *)
(* Nobody presses the system's back button over a loading dialog.          *)
(***************************************************************************)
EXTENDS Naturals

CONSTANTS
    Cards,      \* UIDs
    NoCard,     \* null
    Products,   \* what AddConsumptionPage offers
    MaxLate     \* bound: so many polls of pages that are gone

ASSUME NoCardAssumption == NoCard \notin Cards
ASSUME BoundsAssumption == MaxLate \in Nat

\* The page under each page.
Parent == [entry |-> "role", pos_entry |-> "role", checkout |-> "role",
           actions |-> "entry", activate |-> "actions", activated |-> "activate",
           deactivated |-> "actions", pos |-> "pos_entry", add |-> "pos", view |-> "pos"]

Waiting == {"entry", "pos_entry", "pos", "checkout"}    \* pages with a _waitForCard

VARIABLES
    page,        \* the page on top
    over,        \* the dialog over it
    current,     \* api.currentCardId
    shown,       \* the card each waiting page shows
    poll,        \* its _waitForCard
    late,        \* how many polls of pages that are gone are not answered yet
    load,        \* what the page on top has loaded
    summary,     \* the card of the CardSummary that is shown
    chosen,      \* products with a quantity
    task,        \* the request under way
    message,     \* what the employee was last told of an addition
    registered,  \* ghost: what the server has registered of it
    strayed      \* ghost: a late answer has changed current since a page was given its card

routes == <<page, over>>
cards == <<shown, poll, late>>
content == <<load, summary, chosen>>
ghosts == <<message, registered, strayed>>
vars == <<routes, current, cards, content, task, ghosts>>

NoTask == [op |-> "none", card |-> NoCard, todo |-> {}]

Init ==
    /\ page = "role" /\ over = "none"
    /\ current = NoCard
    /\ shown = [p \in Waiting |-> NoCard]
    /\ poll = [p \in Waiting |-> "none"]
    /\ late = 0
    /\ load = "none" /\ summary = NoCard /\ chosen = {}
    /\ task = NoTask
    /\ message = "none" /\ registered = {} /\ strayed = FALSE

-----------------------------------------------------------------------------
(* The Navigator.                                                          *)

\* Navigator.pop takes the topmost route, whatever it is: dialog o, or the page.
\* The page of a validated exit lies over its debug dialog.
Pop(o) ==
    IF o # "none" THEN page' = page /\ over' = "none"
    ELSE page' = Parent[page] /\ over' = IF page = "deactivated" THEN "debug" ELSE "none"

-----------------------------------------------------------------------------
(* Waiting for a card.                                                     *)

\* CheckoutPage forgets the current card whenever it starts to wait.
StartPoll(p) ==
    /\ shown' = [shown EXCEPT ![p] = NoCard]
    /\ poll' = [poll EXCEPT ![p] = "asked"]
    /\ current' = IF p = "checkout" THEN NoCard ELSE current
    /\ UNCHANGED late

\* Mutant of PollGives: waitForCard does not keep the card it was given.
PollGivesPageOnly(p, c) ==
    /\ poll[p] = "asked"
    /\ poll' = [poll EXCEPT ![p] = "none"]
    /\ shown' = [shown EXCEPT ![p] = c]
    /\ strayed' = FALSE
    /\ UNCHANGED <<current, routes, late, content, task, message, registered>>

PollGives(p, c) ==
    /\ poll[p] = "asked"
    /\ poll' = [poll EXCEPT ![p] = "none"]
    /\ shown' = [shown EXCEPT ![p] = c]
    /\ current' = c
    /\ strayed' = FALSE
    /\ UNCHANGED <<routes, late, content, task, message, registered>>

\* Mutant of PollGivesNothing: an answer without a card ends the wait.
PollEnds(p) ==
    /\ poll[p] = "asked"
    /\ poll' = [poll EXCEPT ![p] = "none"]
    /\ UNCHANGED <<routes, current, shown, late, content, task, ghosts>>

\* No fresh card, or no answer: again in a second.
PollGivesNothing(p) ==
    /\ poll[p] = "asked"
    /\ poll' = [poll EXCEPT ![p] = "delay"]
    /\ UNCHANGED <<routes, current, shown, late, content, task, ghosts>>

PollAgain(p) ==
    /\ poll[p] = "delay"
    /\ StartPoll(p)
    /\ UNCHANGED <<routes, content, task, ghosts>>

\* waitForCard stores its card before anybody looks whether the page is there.
LateAnswer ==
    /\ late > 0
    /\ late' = late - 1
    /\ current' \in Cards \cup {current}
    /\ strayed' = (strayed \/ current' # current)
    /\ UNCHANGED <<routes, shown, poll, content, task, message, registered>>

-----------------------------------------------------------------------------
(* The employee moves between pages.                                       *)

\* The buttons of a waiting page are there once it shows a card.
CardShown == page \in Waiting => shown[page] # NoCard

Load(op) == load' = "loading" /\ task' = [op |-> op, card |-> current, todo |-> {}]

Open(p) ==
    /\ over = "none" /\ CardShown
    /\ p \notin {"activated", "deactivated"} /\ Parent[p] = page
    /\ page' = p
    /\ IF p \in Waiting THEN StartPoll(p) ELSE UNCHANGED <<current, cards>>
    /\ CASE p = "add"  -> Load("products")
         [] p = "view" -> Load("summary")
         [] OTHER      -> UNCHANGED <<load, task>>
    /\ UNCHANGED <<over, summary, chosen, ghosts>>

NewCard ==
    /\ over = "none" /\ CardShown
    /\ page \in Waiting /\ load = "none"
    /\ StartPoll(page)
    /\ UNCHANGED <<routes, content, task, ghosts>>

\* The answer to a poll of a page that is left still comes.
Abandon(p) ==
    /\ late' = IF poll[p] = "asked" THEN late + 1 ELSE late
    /\ poll' = [poll EXCEPT ![p] = "none"]
    /\ shown' = [shown EXCEPT ![p] = NoCard]

\* The page on top goes, and with it what it shows; an answer it waits for other
\* than a poll's changes nothing when the page is no longer mounted.
Leave ==
    /\ page \in Waiting /\ poll[page] = "asked" => late < MaxLate
    /\ IF page \in Waiting THEN Abandon(page) ELSE UNCHANGED cards
    /\ load' = "none" /\ summary' = NoCard /\ chosen' = {}
    /\ task' = NoTask

\* Back, and the buttons that dismiss a dialog.
Back ==
    /\ over \in {"none", "confirm", "debug"}
    /\ page = "role" => over # "none"
    /\ Pop(over)
    /\ IF over = "none" THEN Leave ELSE UNCHANGED <<cards, content, task>>
    /\ message' = "none"
    /\ UNCHANGED <<current, registered, strayed>>

\* Once its success dialog is dismissed, CheckoutPage pops itself.
EndCheckout ==
    /\ over = "success"
    /\ Pop("none")
    /\ Leave
    /\ UNCHANGED <<current, ghosts>>

\* OK of an activation or of an exit: popUntil the entry page.
BackToEntry ==
    /\ page \in {"activated", "deactivated"}
    /\ page' = "entry"
    /\ UNCHANGED <<over, current, cards, content, task, ghosts>>

-----------------------------------------------------------------------------
(* The operations.  Without a current card nothing would be sent.          *)

Send(op, todo) ==
    /\ current # NoCard
    /\ over' = "loading"
    /\ task' = [op |-> op, card |-> current, todo |-> todo]
    /\ UNCHANGED <<page, current, cards, content>>

\* Continue or Retry after a card was read or a summary or the products failed.
Reload ==
    /\ over = "none"
    /\ \/ page = "checkout" /\ shown["checkout"] # NoCard /\ load = "none" /\ Load("summary")
       \/ page \in {"checkout", "view"} /\ load = "error" /\ Load("summary")
       \/ page = "add" /\ load = "error" /\ Load("products")
    /\ UNCHANGED <<routes, current, cards, summary, chosen, ghosts>>

Submit ==
    /\ page = "activate" /\ over = "none"
    /\ Send("activate", {})
    /\ UNCHANGED ghosts

ValidateExit ==
    /\ page = "actions" /\ over = "none"
    /\ Send("validate", {})
    /\ UNCHANGED ghosts

CloseAccount ==
    /\ page = "checkout" /\ over = "none" /\ load = "ready"
    /\ Send("close", {})
    /\ UNCHANGED ghosts

\* A quantity becomes one, or none.
Choose(x) ==
    /\ page = "add" /\ over = "none" /\ load = "ready"
    /\ chosen' = IF x \in chosen THEN chosen \ {x} ELSE chosen \cup {x}
    /\ message' = "none"
    /\ UNCHANGED <<routes, current, cards, load, summary, task, registered, strayed>>

PressAdd ==
    /\ page = "add" /\ over = "none" /\ load = "ready"
    /\ chosen # {}
    /\ over' = "confirm"
    /\ message' = "none"
    /\ UNCHANGED <<page, current, cards, content, task, registered, strayed>>

ConfirmAdd ==
    /\ over = "confirm"
    /\ Send("add", chosen)
    /\ registered' = {}
    /\ UNCHANGED <<message, strayed>>

-----------------------------------------------------------------------------
(* The server's answers.                                                   *)

untouched == <<current, cards, chosen>>

Loaded ==
    /\ task.op \in {"products", "summary"}
    /\ load' \in {"ready", "error"}
    /\ summary' = IF task.op = "summary" /\ load' = "ready" THEN task.card ELSE NoCard
    /\ task' = NoTask
    /\ UNCHANGED <<routes, untouched, ghosts>>

Activated ==
    /\ task.op = "activate"
    /\ page' \in {"activate", "activated"}
    /\ over' = "none"
    /\ task' = NoTask
    /\ UNCHANGED <<untouched, load, summary, ghosts>>

Validated ==
    /\ task.op = "validate"
    /\ \/ page' = page /\ over' = "debug"
       \/ page' = "deactivated" /\ over' = "none"
    /\ task' = NoTask
    /\ UNCHANGED <<untouched, load, summary, ghosts>>

Closed ==
    /\ task.op = "close"
    /\ over' \in {"success", "none"}
    /\ task' = NoTask
    /\ UNCHANGED <<page, untouched, load, summary, ghosts>>

AllAdded ==
    /\ task' = NoTask
    /\ message' = "added"
    /\ Pop("debug")

\* x is registered; the next product is sent, or the debug dialog is pushed and
\* the route on top popped.
Added(x) ==
    /\ task.op = "add" /\ x \in task.todo
    /\ registered' = registered \cup {x}
    /\ IF task.todo # {x}
       THEN /\ task' = [op |-> "add", card |-> current, todo |-> task.todo \ {x}]
            /\ UNCHANGED <<routes, message>>
       ELSE AllAdded
    /\ UNCHANGED <<untouched, load, summary, strayed>>

\* Mutant of NotAdded: the loop goes on after a failure.
NotAddedButGoOn(x) ==
    /\ task.op = "add" /\ x \in task.todo
    /\ registered' \in {registered, registered \cup {x}}
    /\ IF task.todo # {x}
       THEN /\ task' = [op |-> "add", card |-> current, todo |-> task.todo \ {x}]
            /\ UNCHANGED <<routes, message>>
       ELSE AllAdded
    /\ UNCHANGED <<untouched, load, summary, strayed>>

\* x is refused, or its answer lost: the loop ends and what it did stays.
NotAdded(x) ==
    /\ task.op = "add" /\ x \in task.todo
    /\ registered' \in {registered, registered \cup {x}}
    /\ task' = NoTask
    /\ message' = "failed"
    /\ over' = "debug"
    /\ UNCHANGED <<page, untouched, load, summary, strayed>>

-----------------------------------------------------------------------------
Polling == \E p \in Waiting :
    \/ \E c \in Cards : PollGives(p, c)
    \/ PollGivesNothing(p)
    \/ PollAgain(p)

Employee == (\E p \in DOMAIN Parent : Open(p)) \/ NewCard \/ Back \/ EndCheckout \/ BackToEntry
            \/ Reload \/ Submit \/ ValidateExit \/ CloseAccount
            \/ (\E x \in Products : Choose(x)) \/ PressAdd \/ ConfirmAdd

Server == Loaded \/ Activated \/ Validated \/ Closed \/ \E x \in Products : Added(x) \/ NotAdded(x)

Next == Polling \/ LateAnswer \/ Employee \/ Server

Spec == Init /\ [][Next]_vars

-----------------------------------------------------------------------------
(* Properties.                                                             *)

Operations == {"activate", "validate", "close", "add"}
Tasks == [op : {"none", "products", "summary"} \cup Operations,
          card : Cards \cup {NoCard}, todo : SUBSET Products]

\* Types, and that a request under way is what the page or its dialog waits for.
TypeOK ==
    /\ page \in {"role"} \cup DOMAIN Parent
    /\ over \in {"none", "loading", "confirm", "debug", "success"}
    /\ current \in Cards \cup {NoCard}
    /\ shown \in [Waiting -> Cards \cup {NoCard}]
    /\ poll \in [Waiting -> {"none", "asked", "delay"}]
    /\ late \in 0 .. MaxLate
    /\ load \in {"none", "loading", "error", "ready"}
    /\ summary \in Cards \cup {NoCard}
    /\ chosen \subseteq Products
    /\ task \in Tasks
    /\ message \in {"none", "added", "failed"}
    /\ registered \subseteq Products
    /\ strayed \in BOOLEAN
    /\ load = "loading" <=> task.op \in {"products", "summary"}
    /\ over = "loading" <=> task.op \in Operations

\* The card the employee has before them: the last page that read one shows it.
CardOnScreen ==
    CASE page = "checkout"               -> shown["checkout"]
      [] page \in {"pos", "add", "view"} -> shown["pos"]
      [] OTHER                           -> shown["entry"]

\* An operation is sent, and a summary looked up and shown, for the card the employee has
\* before them, whatever the pages they opened before made of the shared currentCardId,
\* unless the answer to a poll of a page that is gone has changed it since.  That answer
\* may come at any time, and then it is another card's account that is closed.
ActsOnShownCard ==
    \/ strayed
    \/ /\ task.op \in Operations \cup {"summary"} => task.card = CardOnScreen
       /\ page \in {"checkout", "view"} /\ load = "ready" => summary = CardOnScreen

\* The waiting pages among those that are open.
Mounted ==
    CASE page = "role"                   -> {}
      [] page = "checkout"               -> {"checkout"}
      [] page = "pos_entry"              -> {"pos_entry"}
      [] page \in {"pos", "add", "view"} -> {"pos_entry", "pos"}
      [] OTHER                           -> {"entry"}

\* An open page that shows no card has its poll or its delay under way, and no
\* other page has: the chain of polls neither breaks nor outlives its page.
NoDeadWait ==
    \A p \in Waiting : poll[p] # "none" <=> p \in Mounted /\ shown[p] = NoCard

\* "Added successfully." is only said when the server has registered everything
\* that is selected, whatever was refused or lost.
AddedIsRegistered == message = "added" => registered = chosen

\* After a successful addition the employee is back at the point of sale menu.
AddReturnsToMenu == message = "added" => page = "pos"
=============================================================================
