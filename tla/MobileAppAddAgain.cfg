SPECIFICATION Spec
CONSTANTS
    Cards = {c1, c2}
    NoCard = NoCard
    Products = {p1, p2}
    MaxLate = 1
INVARIANTS
    AddReturnsToMenu
