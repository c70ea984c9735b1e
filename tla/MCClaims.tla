------------------------------ MODULE MCClaims ------------------------------
(***************************************************************************)
(* Small instances of Claims.                                              *)
(***************************************************************************)
EXTENDS Claims

Key(scope, castle, capability) ==
    [account |-> "w#1", scope |-> scope, kingdom |-> 0, castle |-> castle,
     capability |-> capability, kind |-> "effect", id |-> "*"]

Castle1  == Key("castle", 1, "troops")
Castle1All == Key("castle", 1, "*")
Castle2  == Key("castle", 2, "troops")
Account  == Key("account", 0, "troops")

\* Two castles that are independent, one request that needs both at once, and
\* an account-wide key that covers the castles without naming them.
MixedRequests == {{Castle1}, {Castle2}, {Castle1All, Castle2}, {Account}, {}}
=============================================================================
