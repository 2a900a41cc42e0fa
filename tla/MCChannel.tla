------------------------------ MODULE MCChannel ------------------------------
(* A client that sends a fixed message and a token, five bytes where the  *)
(* output holds three, and a server whose token does not fit behind its    *)
(* fixed message, over a network that holds two bytes.                     *)
EXTENDS Channel

MCScript ==
    [p \in {"client", "server"} |->
       IF p = "client" THEN <<[kind |-> "fixed", size |-> 2], [kind |-> "token", size |-> 1]>>
       ELSE <<[kind |-> "fixed", size |-> 1], [kind |-> "token", size |-> 1]>>]
=============================================================================
