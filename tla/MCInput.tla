------------------------------ MODULE MCInput ------------------------------
(* Input for TLC: three keys, the third without a key code on this map;    *)
(* buttons on both sides of the limits 8 and 31 of input.c.                *)
EXTENDS Input, TLC

CONSTANTS k1, k2, k3, a, b

MCKey == {k1, k2, k3}
MCKeyCode == {a, b}
MCResolve == k1 :> {a} @@ k2 :> {b} @@ k3 :> {NoCode}
MCButton == {1, 7, 8, 31, 32}
=============================================================================
