------------------------- MODULE MCContactIdentities -------------------------
EXTENDS ContactIdentities, TLC
CONSTANTS phone, email
Declared(v, others) == [primary |-> v, others |-> others]
WritesDef == {Declared(phone, {}), Declared(email, {}), Declared(phone, {email})}
Sym == Permutations(Sales) \cup Permutations(Handlers)
=============================================================================
