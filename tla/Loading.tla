------------------------------- MODULE Loading -------------------------------
(***************************************************************************)
(* LoadingService: the count of the requests under way, the indicator and     *)
(* the two timers between them.  When a timer runs out is left open: what the *)
(* delays of 180 and 320 ms leave possible is included.                       *)
(***************************************************************************)
EXTENDS Naturals

\* activeRequests, visibleState, and whether each timer is armed.
Indicator == [count : Nat, visible : BOOLEAN, show : BOOLEAN, hide : BOOLEAN]

Idle == [count |-> 0, visible |-> FALSE, show |-> FALSE, hide |-> FALSE]

\* begin: the first request arms the show timer; an indicator that is still up stays.
Begun(l) ==
    IF l.count > 0 \/ l.visible THEN [l EXCEPT !.count = @ + 1]
    ELSE [l EXCEPT !.count = 1, !.hide = FALSE, !.show = TRUE]

\* end: the last request stops the show timer and arms the hide timer.
Ended(l) ==
    IF l.count > 1 THEN [l EXCEPT !.count = @ - 1]
    ELSE [l EXCEPT !.count = 0, !.show = FALSE, !.hide = l.visible]

Shown(l) == [l EXCEPT !.show = FALSE, !.visible = @ \/ l.count > 0]

\* Deviation of Hidden: the count is not looked at again.
HiddenAnyway(l) == [l EXCEPT !.hide = FALSE, !.visible = FALSE]

\* A request that began while the indicator was about to go keeps it.
Hidden(l) == [l EXCEPT !.hide = FALSE, !.visible = @ /\ l.count > 0]
=============================================================================
