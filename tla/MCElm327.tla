------------------------------ MODULE MCElm327 ------------------------------
EXTENDS ElmText, TLC

CONSTANTS c1, c2, c3

(* Two commands to one address and one to another, so that the header is   *)
(* sent, is reused, and is sent again.                                     *)
MCAddress == [c \in Commands |-> IF c = c3 THEN 2 ELSE 1]
=============================================================================
