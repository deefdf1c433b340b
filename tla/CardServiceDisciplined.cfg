SPECIFICATION Spec
CONSTANTS
    Cards = {c1,c2}
    Strangers = {x1}
    Phones = {p1,p2}
    Lines = {l1,l2}
    Products = {beer,cola}
    Catalog = {beer}
    Handlers = {h1,h2}
    NoCard = NoCard
    NoPhone = NoPhone
    NoLine = NoLine
    NoProduct = NoProduct
    Disciplined = TRUE
    MaxCount = 2
    Faults = {"error", "drop", "restart"}
SYMMETRY Symmetry
INVARIANTS
    TypeOK
    BilledExactlyOnce
    AckedIsCharged
    InactiveIsClean
    AmountIsOfLines
    NoOrphanTransaction
PROPERTIES
    OkIsCommitted
    LineKeepsCustomer
    CheckoutCommits
    ExitSeesCheckout
    RefinesLedger
