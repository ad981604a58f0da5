------------------------------ MODULE MCOrders ------------------------------
\* Model values for Orders: two orders of different clients and cities.
EXTENDS Orders, TLC

CONSTANTS o1, o2, c1, c2, almaty, astana

MCClientOf == o1 :> c1 @@ o2 :> c2
MCCityOf == o1 :> almaty @@ o2 :> astana
=============================================================================
