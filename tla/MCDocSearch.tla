---------------------------- MODULE MCDocSearch ----------------------------
(* DocSearch with two letters and two sections; one section has no file for   *)
(* the second letter, and rows have zero, one or two children.                *)
EXTENDS DocSearch, TLC

R(name, kids) == [name |-> name, kids |-> kids]
MCIndex ==
  (<<0, 1>> :> <<R(<<1>>, 0), R(<<1, 1>>, 2), R(<<1, 2>>, 1)>>)
    @@ (<<0, 2>> :> <<R(<<2, 1>>, 0)>>)
    @@ (<<1, 1>> :> <<R(<<1, 1>>, 2), R(<<1, 2>>, 0)>>)
MCText == {<<>>, <<1>>, <<1, 2>>, <<2>>}

=============================================================================
