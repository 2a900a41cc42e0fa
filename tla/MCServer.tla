------------------------------ MODULE MCServer ------------------------------
(* Server for TLC: one key and the last low button.                        *)
EXTENDS Server, TLC

CONSTANTS k1, kc1

MCKey == {k1}
MCKeyCode == {kc1}
MCResolve == [k \in {k1} |-> {kc1}]
MCNoKey == {}
MCNoResolve == [k \in {} |-> {}]
Clients == Permutations(Client)

(* For the liveness runs: no failed logins, and an access list that stays  *)
(* empty (with the owner as the only user it is never read).               *)
LiveBound ==
    /\ \A n \in Name : acl[n] = 0
    /\ \A c \in Client : told[c] # <<0, 0>> /\ name[c] # EmptyName
                       /\ (level[c] = 0 => toSend[c] = {})

LiveSpec == Init /\ [][Next /\ LiveBound']_vars /\ Fairness
=============================================================================
