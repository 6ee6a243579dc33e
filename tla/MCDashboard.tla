----------------------------- MODULE MCDashboard -----------------------------
(* Dashboard with two overlapping polls.  Three times are enough for a clock    *)
(* that stands still, advances and is set back.                                 *)
EXTENDS Dashboard

CONSTANTS p1, p2

MCPoll == {p1, p2}

=============================================================================
