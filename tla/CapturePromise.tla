--------------------------- MODULE CapturePromise ---------------------------
(* What capture promises about one transcript, in terms a user can check:  *)
(* which turns are remembered, and whether the transcript is frozen.       *)
(*                                                                         *)
(* A turn is remembered at most once, only an ordinary turn, only at a     *)
(* moment its own project root is approved and nothing froze the           *)
(* transcript.  Remembered turns are forgotten only by a step that freezes *)
(* the transcript, and a frozen transcript never remembers anything again. *)
CONSTANTS Turns, Kind, Roots, TurnRoot

VARIABLES consent, remembered, frozen

vars == <<consent, remembered, frozen>>

Decisions == {"pending", "approved", "denied"}

Init ==
    /\ consent \in [Roots -> Decisions]
    /\ remembered = {}
    /\ frozen = FALSE

Decide ==
    /\ consent' \in [Roots -> Decisions]
    /\ UNCHANGED <<remembered, frozen>>

Remember(t) ==
    /\ ~frozen
    /\ Kind[t] = "work" /\ consent[TurnRoot[t]] = "approved"
    /\ t \notin remembered
    /\ remembered' = remembered \cup {t}
    /\ UNCHANGED <<consent, frozen>>

\* Incognito, purge and retention freeze; the last two also forget.
Freeze ==
    /\ frozen' = TRUE
    /\ remembered' \in SUBSET remembered
    /\ UNCHANGED consent

Next == Decide \/ Freeze \/ \E t \in Turns : Remember(t)

Spec == Init /\ [][Next]_vars
=============================================================================
