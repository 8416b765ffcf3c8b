SPECIFICATION SoftSpec
CONSTANTS
    Cpu = {c1, c2}
    Hand = {h1}
    Rcpu = {h1}
    NoHand = NoHand
INVARIANTS
    IpiIsRegistered
