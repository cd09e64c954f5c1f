SPECIFICATION OpeningSpec
CONSTANTS
    Clients = {r1, r2}
    Before = {{}}
PROPERTY StoreOpens
