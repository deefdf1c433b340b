SPECIFICATION Spec
CONSTANTS
    Cards = {c1}
    Strangers = {}
    Phones = {p1}
    Lines = {l1}
    Products = {beer}
    Catalog = {beer}
    Handlers = {h1,h2}
    NoCard = NoCard
    NoPhone = NoPhone
    NoLine = NoLine
    NoProduct = NoProduct
    Disciplined = TRUE
    MaxCount = 2
    Faults = {"error"}
SYMMETRY Symmetry
INVARIANTS
    CheckoutIsDurable
