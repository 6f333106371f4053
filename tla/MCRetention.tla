---------------------------- MODULE MCRetention ----------------------------
(* Instances of Retention for TLC.                                         *)
EXTENDS Retention, TLC

ThreeChats == {"a", "b", "c"}
OldestA    == ("a" :> 1) @@ ("b" :> 2) @@ ("c" :> 3)
TwoWriters == {"daemon", "grant"}
GrantsC    == ("daemon" :> ThreeChats) @@ ("grant" :> {"c"})
OneOrTwo   == {1, 2}
=============================================================================
