------------------------------- MODULE MCSpx -------------------------------
(* Instances of Spx for TLC: the two sockets as model values.             *)
EXTENDS Spx, TLC

CONSTANTS c, s

MCClientOnly == {c}
MCBoth == {c, s}
MCNone == {}
====
