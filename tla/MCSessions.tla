----------------------------- MODULE MCSessions -----------------------------
(* Instance of Sessions for TLC: two sessions, a group of both, two users. *)
EXTENDS Sessions

CONSTANTS default, a, b, g   \* the default session, two others and a group

\* Two sessions besides the default.
MCTwoIds == {default, a, b}

\* A group of the two.
MCGroups == {g}
MCTwoMembers == [x \in {g} |-> {a, b}]

MCTwoUsers == 1 .. 2
=============================================================================
