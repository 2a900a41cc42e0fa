------------------------------- MODULE MCLogin -------------------------------
EXTENDS Login

MCAcl == [u \in User |-> IF u = "owner" THEN 2 ELSE 1]
=============================================================================
