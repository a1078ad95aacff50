------------------------------ MODULE AccessMC ------------------------------
(* A small instance of Access: two bots, two users, two codes, and two lists *)
(* an operator may configure.                                                *)
EXTENDS Access, TLC

CONSTANTS a, u, b1, b2, c1, c2

TwoBots == {b1, b2}
TwoUsers == {a, u}
Lists == {{a}, {u}}
TwoCodes == {c1, c2}
FirstPid == {1}
=============================================================================
