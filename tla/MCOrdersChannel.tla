--------------------------- MODULE MCOrdersChannel ---------------------------
\* Model values for OrdersChannel.
EXTENDS OrdersChannel, TLC

CONSTANTS o1, o2, c1, almaty, e1, e2

MCClientOf == [o \in OrderIds |-> c1]
MCCityOf == [o \in OrderIds |-> almaty]

\* Channel messages differ by nothing but their identity.
MessageSymmetry == Permutations(Messages)
=============================================================================
