----------------------------- MODULE MCErpSync -----------------------------
(* A small instance of ErpSync: a login that passes between customers.     *)
EXTENDS ErpSync, TLC

CONSTANTS login1

\* Passed on to the first customer, the login is refused until the second has lost it.
MCFirstLogins == {1 :> Missing @@ 2 :> login1}
=============================================================================
