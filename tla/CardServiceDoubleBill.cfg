SPECIFICATION Spec
CONSTANTS
    Cards = {c1}
    Strangers = {}
    Phones = {p1}
    Lines = {l1}
    Products = {beer}
    Catalog = {beer}
    Handlers = {h1,h2}
    NoCard = NoCard
    NoPhone = NoPhone
    NoLine = NoLine
    NoProduct = NoProduct
    Disciplined = FALSE
    MaxCount = 2
    Faults = {}
SYMMETRY Symmetry
INVARIANTS
    BilledExactlyOnce
