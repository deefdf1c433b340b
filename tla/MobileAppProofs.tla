-------------------------- MODULE MobileAppProofs --------------------------
(***************************************************************************)
(* Proofs about MobileApp, for any cards, any products and any number of   *)
(* polls that come late.                                                   *)
(*                                                                         *)
(* An operation is sent for api.currentCardId, which pages do not own.     *)
(* What ties it to the card on the screen is InHand: from the answer that  *)
(* gives a page its card on, nothing but the page on top sets it, until a  *)
(* poll of a page that is gone is answered.  Places and Shows say which    *)
(* pages that can be, and Additions what the loop of _confirmAdd keeps.    *)
(***************************************************************************)
EXTENDS MobileApp, TLAPS

EntrySide == {"entry", "actions", "activate", "activated", "deactivated"}
PosSide == {"pos", "add", "view"}

\* Which page and which dialog each request and each dialog belongs to.
Places ==
    /\ task.op = "activate" => page = "activate"
    /\ task.op = "validate" => page = "actions"
    /\ task.op = "close" => page = "checkout" /\ load = "ready"
    /\ task.op = "add" => page = "add" /\ load = "ready"
    /\ task.op = "products" => page = "add"
    /\ task.op = "summary" => page \in {"checkout", "view"}
    /\ over = "confirm" => page = "add" /\ load = "ready"
    /\ over = "debug" => page \in {"actions", "add"}
    /\ over = "success" => page = "checkout"
    /\ load # "none" => page \in {"checkout", "add", "view"}

\* A page is only opened from one that shows a card, and only a card that is
\* shown is looked up.
Shows ==
    /\ page \in EntrySide \ {"entry"} => shown["entry"] # NoCard
    /\ page \in PosSide => shown["pos_entry"] # NoCard
    /\ page \in PosSide \ {"pos"} => shown["pos"] # NoCard
    /\ page = "checkout" /\ load # "none" => shown["checkout"] # NoCard

\* What the loop of _confirmAdd has done and has yet to do.
Additions ==
    /\ task.op = "add" => /\ registered \cup task.todo = chosen
                          /\ registered \cap task.todo = {}
                          /\ message = "none"
    /\ message # "none" => page = "add" /\ over # "confirm"
    /\ message = "added" => registered = chosen

\* Unless a poll of a page that is gone has been answered since, the current card is
\* the one on the screen, and so is that of a request and of a summary.
InHand ==
    ~strayed =>
        /\ page \in EntrySide /\ shown["entry"] # NoCard => current = shown["entry"]
        /\ page \in PosSide /\ shown["pos"] # NoCard => current = shown["pos"]
        /\ page = "checkout" /\ shown["checkout"] # NoCard => current = shown["checkout"]
        /\ task.op # "none" => task.card = current
        /\ page \in {"checkout", "view"} /\ load = "ready" => summary = current

-----------------------------------------------------------------------------
(* One step preserves each of them.                                        *)

\* Types.
LEMMA TypeStep ==
    ASSUME TypeOK, Places, [Next]_vars
    PROVE  TypeOK'
<1> USE DEF TypeOK, Places, Tasks, Operations, Waiting, routes, cards, content, ghosts
<1>1. ASSUME NEW p \in Waiting, NEW c \in Cards, PollGives(p, c)
      PROVE  TypeOK'
  BY <1>1, NoCardAssumption, BoundsAssumption DEF PollGives
<1>2. ASSUME NEW p \in Waiting, PollGivesNothing(p)
      PROVE  TypeOK'
  BY <1>2, NoCardAssumption, BoundsAssumption DEF PollGivesNothing
<1>3. ASSUME NEW p \in Waiting, PollAgain(p)
      PROVE  TypeOK'
  BY <1>3, NoCardAssumption, BoundsAssumption DEF PollAgain, StartPoll
<1>4. CASE LateAnswer
  BY <1>4, NoCardAssumption, BoundsAssumption DEF LateAnswer
<1>5. ASSUME NEW p \in DOMAIN Parent, Open(p)
      PROVE  TypeOK'
  BY <1>5, NoCardAssumption, BoundsAssumption DEF Open, CardShown, StartPoll, Load, Parent
<1>6. CASE NewCard
  BY <1>6, NoCardAssumption, BoundsAssumption DEF NewCard, CardShown, StartPoll
<1>7. CASE Back
  BY <1>7, NoCardAssumption, BoundsAssumption DEF Back, Pop, Leave, Abandon, Parent, NoTask
<1>8. CASE EndCheckout
  BY <1>8, NoCardAssumption, BoundsAssumption DEF EndCheckout, Pop, Leave, Abandon, Parent, NoTask
<1>9. CASE BackToEntry
  BY <1>9, NoCardAssumption, BoundsAssumption DEF BackToEntry, Parent
<1>10. CASE Reload
  BY <1>10, NoCardAssumption, BoundsAssumption DEF Reload, Load
<1>11. CASE Submit \/ ValidateExit \/ CloseAccount
  BY <1>11, NoCardAssumption, BoundsAssumption DEF Submit, ValidateExit, CloseAccount, Send
<1>12. ASSUME NEW x \in Products, Choose(x)
      PROVE  TypeOK'
  BY <1>12, NoCardAssumption, BoundsAssumption DEF Choose
<1>13. CASE PressAdd \/ ConfirmAdd
  BY <1>13, NoCardAssumption, BoundsAssumption DEF PressAdd, ConfirmAdd, Send
<1>14. CASE Loaded
  BY <1>14, NoCardAssumption, BoundsAssumption DEF Loaded, untouched, NoTask
<1>15. CASE Activated \/ Validated \/ Closed
  BY <1>15, NoCardAssumption, BoundsAssumption DEF Activated, Validated, Closed, untouched, NoTask, Parent
<1>16. ASSUME NEW x \in Products, Added(x)
      PROVE  TypeOK'
  BY <1>16, NoCardAssumption, BoundsAssumption DEF Added, AllAdded, Pop, untouched, NoTask
<1>17. ASSUME NEW x \in Products, NotAdded(x)
      PROVE  TypeOK'
  BY <1>17, NoCardAssumption, BoundsAssumption DEF NotAdded, untouched, NoTask
<1>18. CASE UNCHANGED vars
  BY <1>18 DEF vars
<1> QED BY <1>1, <1>2, <1>3, <1>4, <1>5, <1>6, <1>7, <1>8, <1>9,
  <1>10, <1>11, <1>12, <1>13, <1>14, <1>15, <1>16, <1>17, <1>18
  DEF Next, Polling, Employee, Server

\* Requests and dialogs stay with their pages.
LEMMA PlacesStep ==
    ASSUME TypeOK, Places, Shows, NoDeadWait, [Next]_vars
    PROVE  Places'
<1> USE DEF TypeOK, Places, Shows, NoDeadWait, Mounted, EntrySide, PosSide, Operations, Waiting, routes, cards, content, ghosts
<1>1. ASSUME NEW p \in Waiting, NEW c \in Cards, PollGives(p, c)
      PROVE  Places'
  BY <1>1 DEF PollGives
<1>2. ASSUME NEW p \in Waiting, PollGivesNothing(p)
      PROVE  Places'
  BY <1>2 DEF PollGivesNothing
<1>3. ASSUME NEW p \in Waiting, PollAgain(p)
      PROVE  Places'
  BY <1>3 DEF PollAgain, StartPoll
<1>4. CASE LateAnswer
  BY <1>4 DEF LateAnswer
<1>5. ASSUME NEW p \in DOMAIN Parent, Open(p)
      PROVE  Places'
  BY <1>5 DEF Open, CardShown, StartPoll, Load, Parent
<1>6. CASE NewCard
  BY <1>6 DEF NewCard, CardShown, StartPoll
<1>7. CASE Back
  BY <1>7 DEF Back, Pop, Leave, Abandon, Parent, NoTask
<1>8. CASE EndCheckout
  BY <1>8 DEF EndCheckout, Pop, Leave, Abandon, Parent, NoTask
<1>9. CASE BackToEntry
  BY <1>9 DEF BackToEntry, Parent
<1>10. CASE Reload
  BY <1>10 DEF Reload, Load
<1>11. CASE Submit \/ ValidateExit \/ CloseAccount
  BY <1>11 DEF Submit, ValidateExit, CloseAccount, Send
<1>12. ASSUME NEW x \in Products, Choose(x)
      PROVE  Places'
  BY <1>12 DEF Choose
<1>13. CASE PressAdd \/ ConfirmAdd
  BY <1>13 DEF PressAdd, ConfirmAdd, Send
<1>14. CASE Loaded
  BY <1>14 DEF Loaded, untouched, NoTask
<1>15. CASE Activated \/ Validated \/ Closed
  BY <1>15 DEF Activated, Validated, Closed, untouched, NoTask, Parent
<1>16. ASSUME NEW x \in Products, Added(x)
      PROVE  Places'
  BY <1>16 DEF Added, AllAdded, Pop, untouched, NoTask
<1>17. ASSUME NEW x \in Products, NotAdded(x)
      PROVE  Places'
  BY <1>17 DEF NotAdded, untouched, NoTask
<1>18. CASE UNCHANGED vars
  BY <1>18 DEF vars
<1> QED BY <1>1, <1>2, <1>3, <1>4, <1>5, <1>6, <1>7, <1>8, <1>9,
  <1>10, <1>11, <1>12, <1>13, <1>14, <1>15, <1>16, <1>17, <1>18
  DEF Next, Polling, Employee, Server

\* Pages below the top keep the card they show.
LEMMA ShowsStep ==
    ASSUME TypeOK, Places, Shows, NoDeadWait, [Next]_vars
    PROVE  Shows'
<1> USE DEF TypeOK, Places, Shows, NoDeadWait, Mounted, EntrySide, PosSide, Operations, Waiting, routes, cards, content, ghosts
<1>1. ASSUME NEW p \in Waiting, NEW c \in Cards, PollGives(p, c)
      PROVE  Shows'
  BY <1>1 DEF PollGives
<1>2. ASSUME NEW p \in Waiting, PollGivesNothing(p)
      PROVE  Shows'
  BY <1>2 DEF PollGivesNothing
<1>3. ASSUME NEW p \in Waiting, PollAgain(p)
      PROVE  Shows'
  BY <1>3 DEF PollAgain, StartPoll
<1>4. CASE LateAnswer
  BY <1>4 DEF LateAnswer
<1>5. ASSUME NEW p \in DOMAIN Parent, Open(p)
      PROVE  Shows'
  BY <1>5 DEF Open, CardShown, StartPoll, Load, Parent
<1>6. CASE NewCard
  BY <1>6 DEF NewCard, CardShown, StartPoll
<1>7. CASE Back
  BY <1>7 DEF Back, Pop, Leave, Abandon, Parent, NoTask
<1>8. CASE EndCheckout
  BY <1>8 DEF EndCheckout, Pop, Leave, Abandon, Parent, NoTask
<1>9. CASE BackToEntry
  BY <1>9 DEF BackToEntry, Parent
<1>10. CASE Reload
  BY <1>10 DEF Reload, Load
<1>11. CASE Submit \/ ValidateExit \/ CloseAccount
  BY <1>11 DEF Submit, ValidateExit, CloseAccount, Send
<1>12. ASSUME NEW x \in Products, Choose(x)
      PROVE  Shows'
  BY <1>12 DEF Choose
<1>13. CASE PressAdd \/ ConfirmAdd
  BY <1>13 DEF PressAdd, ConfirmAdd, Send
<1>14. CASE Loaded
  BY <1>14 DEF Loaded, untouched, NoTask
<1>15. CASE Activated \/ Validated \/ Closed
  BY <1>15 DEF Activated, Validated, Closed, untouched, NoTask, Parent
<1>16. ASSUME NEW x \in Products, Added(x)
      PROVE  Shows'
  BY <1>16 DEF Added, AllAdded, Pop, untouched, NoTask
<1>17. ASSUME NEW x \in Products, NotAdded(x)
      PROVE  Shows'
  BY <1>17 DEF NotAdded, untouched, NoTask
<1>18. CASE UNCHANGED vars
  BY <1>18 DEF vars
<1> QED BY <1>1, <1>2, <1>3, <1>4, <1>5, <1>6, <1>7, <1>8, <1>9,
  <1>10, <1>11, <1>12, <1>13, <1>14, <1>15, <1>16, <1>17, <1>18
  DEF Next, Polling, Employee, Server

\* A chain of polls lasts as long as its page waits.
LEMMA NoDeadWaitStep ==
    ASSUME TypeOK, Places, Shows, NoDeadWait, [Next]_vars
    PROVE  NoDeadWait'
<1> USE DEF TypeOK, Places, Shows, NoDeadWait, Mounted, EntrySide, PosSide, Waiting, routes, cards, content, ghosts
<1>1. ASSUME NEW p \in Waiting, NEW c \in Cards, PollGives(p, c)
      PROVE  NoDeadWait'
  BY <1>1, NoCardAssumption DEF PollGives
<1>2. ASSUME NEW p \in Waiting, PollGivesNothing(p)
      PROVE  NoDeadWait'
  BY <1>2, NoCardAssumption DEF PollGivesNothing
<1>3. ASSUME NEW p \in Waiting, PollAgain(p)
      PROVE  NoDeadWait'
  BY <1>3, NoCardAssumption DEF PollAgain, StartPoll
<1>4. CASE LateAnswer
  BY <1>4, NoCardAssumption DEF LateAnswer
<1>5. ASSUME NEW p \in DOMAIN Parent, Open(p)
      PROVE  NoDeadWait'
  BY <1>5, NoCardAssumption DEF Open, CardShown, StartPoll, Load, Parent
<1>6. CASE NewCard
  BY <1>6, NoCardAssumption DEF NewCard, CardShown, StartPoll
<1>7. CASE Back
  BY <1>7, NoCardAssumption DEF Back, Pop, Leave, Abandon, Parent, NoTask
<1>8. CASE EndCheckout
  BY <1>8, NoCardAssumption DEF EndCheckout, Pop, Leave, Abandon, Parent, NoTask
<1>9. CASE BackToEntry
  BY <1>9, NoCardAssumption DEF BackToEntry, Parent
<1>10. CASE Reload
  BY <1>10, NoCardAssumption DEF Reload, Load
<1>11. CASE Submit \/ ValidateExit \/ CloseAccount
  BY <1>11, NoCardAssumption DEF Submit, ValidateExit, CloseAccount, Send
<1>12. ASSUME NEW x \in Products, Choose(x)
      PROVE  NoDeadWait'
  BY <1>12, NoCardAssumption DEF Choose
<1>13. CASE PressAdd \/ ConfirmAdd
  BY <1>13, NoCardAssumption DEF PressAdd, ConfirmAdd, Send
<1>14. CASE Loaded
  BY <1>14, NoCardAssumption DEF Loaded, untouched, NoTask
<1>15. CASE Activated \/ Validated \/ Closed
  BY <1>15, NoCardAssumption DEF Activated, Validated, Closed, untouched, NoTask, Parent
<1>16. ASSUME NEW x \in Products, Added(x)
      PROVE  NoDeadWait'
  BY <1>16, NoCardAssumption DEF Added, AllAdded, Pop, untouched, NoTask
<1>17. ASSUME NEW x \in Products, NotAdded(x)
      PROVE  NoDeadWait'
  BY <1>17, NoCardAssumption DEF NotAdded, untouched, NoTask
<1>18. CASE UNCHANGED vars
  BY <1>18 DEF vars
<1> QED BY <1>1, <1>2, <1>3, <1>4, <1>5, <1>6, <1>7, <1>8, <1>9,
  <1>10, <1>11, <1>12, <1>13, <1>14, <1>15, <1>16, <1>17, <1>18
  DEF Next, Polling, Employee, Server

\* The loop of _confirmAdd.
LEMMA AdditionsStep ==
    ASSUME TypeOK, Places, Additions, [Next]_vars
    PROVE  Additions'
<1> USE DEF TypeOK, Places, Additions, Tasks, Operations, routes, cards, content, ghosts
<1>1. ASSUME NEW p \in Waiting, NEW c \in Cards, PollGives(p, c)
      PROVE  Additions'
  BY <1>1 DEF PollGives
<1>2. ASSUME NEW p \in Waiting, PollGivesNothing(p)
      PROVE  Additions'
  BY <1>2 DEF PollGivesNothing
<1>3. ASSUME NEW p \in Waiting, PollAgain(p)
      PROVE  Additions'
  BY <1>3 DEF PollAgain, StartPoll
<1>4. CASE LateAnswer
  BY <1>4 DEF LateAnswer
<1>5. ASSUME NEW p \in DOMAIN Parent, Open(p)
      PROVE  Additions'
  BY <1>5 DEF Open, CardShown, StartPoll, Load, Parent
<1>6. CASE NewCard
  BY <1>6 DEF NewCard, CardShown, StartPoll
<1>7. CASE Back
  BY <1>7 DEF Back, Pop, Leave, Abandon, Parent, NoTask
<1>8. CASE EndCheckout
  BY <1>8 DEF EndCheckout, Pop, Leave, Abandon, Parent, NoTask
<1>9. CASE BackToEntry
  BY <1>9 DEF BackToEntry, Parent
<1>10. CASE Reload
  BY <1>10 DEF Reload, Load
<1>11. CASE Submit \/ ValidateExit \/ CloseAccount
  BY <1>11 DEF Submit, ValidateExit, CloseAccount, Send
<1>12. ASSUME NEW x \in Products, Choose(x)
      PROVE  Additions'
  BY <1>12 DEF Choose
<1>13. CASE PressAdd \/ ConfirmAdd
  BY <1>13 DEF PressAdd, ConfirmAdd, Send
<1>14. CASE Loaded
  BY <1>14 DEF Loaded, untouched, NoTask
<1>15. CASE Activated \/ Validated \/ Closed
  BY <1>15 DEF Activated, Validated, Closed, untouched, NoTask, Parent
<1>16. ASSUME NEW x \in Products, Added(x)
      PROVE  Additions'
  BY <1>16 DEF Added, AllAdded, Pop, untouched, NoTask
<1>17. ASSUME NEW x \in Products, NotAdded(x)
      PROVE  Additions'
  BY <1>17 DEF NotAdded, untouched, NoTask
<1>18. CASE UNCHANGED vars
  BY <1>18 DEF vars
<1> QED BY <1>1, <1>2, <1>3, <1>4, <1>5, <1>6, <1>7, <1>8, <1>9,
  <1>10, <1>11, <1>12, <1>13, <1>14, <1>15, <1>16, <1>17, <1>18
  DEF Next, Polling, Employee, Server

\* The current card stays the one on the screen.
LEMMA InHandStep ==
    ASSUME TypeOK, Places, Shows, NoDeadWait, InHand, [Next]_vars
    PROVE  InHand'
<1> USE DEF TypeOK, Places, Shows, NoDeadWait, InHand, Tasks, Mounted, EntrySide, PosSide, Operations, Waiting, Parent, routes, cards, content, ghosts
<1>1. ASSUME NEW p \in Waiting, NEW c \in Cards, PollGives(p, c)
      PROVE  InHand'
  BY <1>1, NoCardAssumption, BoundsAssumption DEF PollGives
<1>2. ASSUME NEW p \in Waiting, PollGivesNothing(p)
      PROVE  InHand'
  BY <1>2, NoCardAssumption, BoundsAssumption DEF PollGivesNothing
<1>3. ASSUME NEW p \in Waiting, PollAgain(p)
      PROVE  InHand'
  BY <1>3, NoCardAssumption, BoundsAssumption DEF PollAgain, StartPoll
<1>4. CASE LateAnswer
  BY <1>4, NoCardAssumption, BoundsAssumption DEF LateAnswer
<1>5. ASSUME NEW p \in DOMAIN Parent, Open(p)
      PROVE  InHand'
  BY <1>5, NoCardAssumption, BoundsAssumption DEF Open, CardShown, StartPoll, Load, Parent
<1>6. CASE NewCard
  BY <1>6, NoCardAssumption, BoundsAssumption DEF NewCard, CardShown, StartPoll
<1>7. CASE Back
  BY <1>7, NoCardAssumption, BoundsAssumption DEF Back, Pop, Leave, Abandon, Parent, NoTask
<1>8. CASE EndCheckout
  BY <1>8, NoCardAssumption, BoundsAssumption DEF EndCheckout, Pop, Leave, Abandon, Parent, NoTask
<1>9. CASE BackToEntry
  BY <1>9, NoCardAssumption, BoundsAssumption DEF BackToEntry, Parent
<1>10. CASE Reload
  BY <1>10, NoCardAssumption, BoundsAssumption DEF Reload, Load
<1>11. CASE Submit \/ ValidateExit \/ CloseAccount
  BY <1>11, NoCardAssumption, BoundsAssumption DEF Submit, ValidateExit, CloseAccount, Send
<1>12. ASSUME NEW x \in Products, Choose(x)
      PROVE  InHand'
  BY <1>12, NoCardAssumption, BoundsAssumption DEF Choose
<1>13. CASE PressAdd \/ ConfirmAdd
  BY <1>13, NoCardAssumption, BoundsAssumption DEF PressAdd, ConfirmAdd, Send
<1>14. CASE Loaded
  BY <1>14, NoCardAssumption, BoundsAssumption DEF Loaded, untouched, NoTask
<1>15. CASE Activated \/ Validated \/ Closed
  BY <1>15, NoCardAssumption, BoundsAssumption DEF Activated, Validated, Closed, untouched, NoTask, Parent
<1>16. ASSUME NEW x \in Products, Added(x)
      PROVE  InHand'
  BY <1>16, NoCardAssumption, BoundsAssumption DEF Added, AllAdded, Pop, untouched, NoTask
<1>17. ASSUME NEW x \in Products, NotAdded(x)
      PROVE  InHand'
  BY <1>17, NoCardAssumption, BoundsAssumption DEF NotAdded, untouched, NoTask
<1>18. CASE UNCHANGED vars
  BY <1>18 DEF vars
<1> QED BY <1>1, <1>2, <1>3, <1>4, <1>5, <1>6, <1>7, <1>8, <1>9,
  <1>10, <1>11, <1>12, <1>13, <1>14, <1>15, <1>16, <1>17, <1>18
  DEF Next, Polling, Employee, Server

-----------------------------------------------------------------------------
(* The theorems.                                                           *)

IInv == TypeOK /\ Places /\ Shows /\ NoDeadWait /\ Additions

LEMMA InitIInv == Init => IInv /\ InHand
<1> SUFFICES ASSUME Init
             PROVE  IInv /\ InHand
  OBVIOUS
<1>1. TypeOK
  <2>1. task \in Tasks
    BY DEF Init, Tasks, NoTask, Operations
  <2>2. page \in {"role"} \cup DOMAIN Parent /\ late \in 0 .. MaxLate
    BY BoundsAssumption DEF Init
  <2>3. shown \in [Waiting -> Cards \cup {NoCard}] /\ poll \in [Waiting -> {"none", "asked", "delay"}]
    BY DEF Init
  <2> QED BY <2>1, <2>2, <2>3 DEF Init, TypeOK, NoTask, Operations
<1>2. Places /\ Shows /\ Additions /\ InHand
  BY DEF Init, NoTask, Places, Shows, Additions, InHand, EntrySide, PosSide
<1>3. NoDeadWait
  BY DEF Init, NoDeadWait, Mounted, Waiting
<1> QED BY <1>1, <1>2, <1>3 DEF IInv

LEMMA Invariant == Spec => []IInv
<1>1. Init => IInv
  BY InitIInv
<1>2. IInv /\ [Next]_vars => IInv'
  BY TypeStep, PlacesStep, ShowsStep, NoDeadWaitStep, AdditionsStep DEF IInv
<1> QED BY <1>1, <1>2, PTL DEF Spec

\* Types of every variable of MobileApp, and that every request is waited for.
THEOREM TypeCorrect == Spec => []TypeOK
<1>1. IInv => TypeOK
  BY DEF IInv
<1> QED BY Invariant, <1>1, PTL

\* The three _waitForCard go on polling as long as their page waits, and no
\* longer, whatever is left, reopened or started again.
THEOREM NoDeadWaitAlways == Spec => []NoDeadWait
<1>1. IInv => NoDeadWait
  BY DEF IInv
<1> QED BY Invariant, <1>1, PTL

\* _confirmAdd says "Added successfully." only when all of it is registered.
THEOREM AddedIsRegisteredAlways == Spec => []AddedIsRegistered
<1>1. IInv => AddedIsRegistered
  BY DEF IInv, Additions, AddedIsRegistered
<1> QED BY Invariant, <1>1, PTL

\* Every operation is sent, and every summary shown, for the card the employee sees,
\* unless a poll of a page that is gone was answered after that card was read.
THEOREM ActsOnShownCardAlways == Spec => []ActsOnShownCard
<1>1. Init => IInv /\ InHand
  BY InitIInv
<1>2. (IInv /\ InHand) /\ [Next]_vars => (IInv /\ InHand)'
  BY TypeStep, PlacesStep, ShowsStep, NoDeadWaitStep, AdditionsStep, InHandStep DEF IInv
<1>3. IInv /\ InHand => ActsOnShownCard
  BY DEF IInv, TypeOK, Places, Shows, InHand, ActsOnShownCard, CardOnScreen, Operations,
         EntrySide, PosSide
<1> QED BY <1>1, <1>2, <1>3, PTL DEF Spec
=============================================================================
