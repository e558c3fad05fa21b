------------------------------ MODULE TurnQueue ------------------------------
(***************************************************************************)
(* What the shared permit promises to the folders that use it: they take   *)
(* turns.  At most one of them is inside, a folder that finds the place    *)
(* taken joins the end of the line, and nobody enters ahead of the line    *)
(* (issue #309).  The head of the line enters or gives its turn up.        *)
(***************************************************************************)
EXTENDS Naturals, Sequences

CONSTANT Clients

VARIABLES
    inside,  \* the clients that hold the place
    line     \* the clients that wait, oldest first

vars == <<inside, line>>

Init == inside = {} /\ line = <<>>

Enter(c) ==
    /\ inside = {} /\ line = <<>>
    /\ inside' = {c}
    /\ UNCHANGED line

Join(c) ==
    /\ inside # {} \/ line # <<>>
    /\ line' = Append(line, c)
    /\ UNCHANGED inside

TakeTurn ==
    /\ inside = {} /\ line # <<>>
    /\ inside' = {Head(line)}
    /\ line' = Tail(line)

PassTurn ==
    /\ inside = {} /\ line # <<>>
    /\ line' = Tail(line)
    /\ UNCHANGED inside

Leave(c) ==
    /\ inside = {c}
    /\ inside' = {}
    /\ UNCHANGED line

Next ==
    \/ \E c \in Clients : Enter(c) \/ Join(c) \/ Leave(c)
    \/ TakeTurn
    \/ PassTurn

Spec == Init /\ [][Next]_vars

=============================================================================
