SPECIFICATION Spec
CONSTANTS
    Cards = {c1, c2}
    NoCard = NoCard
    Products = {p1, p2, p3}
    MaxLate = 2
INVARIANTS
    ActsOnShownCard
    NoDeadWait
    AddedIsRegistered
