---------------------------- MODULE MCRateLimiter ----------------------------
(***************************************************************************)
(* A small instance of RateLimiter for TLC: one action of each kind, with    *)
(* the proportions of the code.  A login's block is as long as the window, a *)
(* recovery's is longer; recovery is asked for one email.                    *)
(***************************************************************************)
EXTENDS RateLimiter

CONSTANTS login, forgot, i1, i2

SmallSaid == [a \in Actions |-> IF a = login THEN {i1, i2} ELSE {i1}]

SmallLimit == [a \in Actions |-> 3]

SmallBlock == [a \in Actions |-> IF a = login THEN Window ELSE 4 * Window]
=============================================================================
