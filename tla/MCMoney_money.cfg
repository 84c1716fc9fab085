SPECIFICATION Spec
CONSTANTS
    Half = 64
    Scale = 10
    MaxWhole = 66
    Currencies = {"BRL", "EUR"}
INVARIANTS
    SumsExact
    ParseExact
    ExchangeFaithful
