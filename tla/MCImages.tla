------------------------------- MODULE MCImages -------------------------------
(* Instances of Images for TLC. *)
EXTENDS Images

CONSTANTS P, D, l1, l2

At0(s, o) == [seg |-> s, off |-> o]
MCLines == {l1, l2}
NoLines == [l \in MCLines |-> None]

\* A program with two lines, rebuilt so that the first moves and the second
\* goes; a library whose line never moves.
Old == (l1 :> At0(1, 0)) @@ (l2 :> At0(1, 1))
New == (l1 :> At0(1, 1)) @@ (l2 :> None)
Lib == (l1 :> At0(1, 0)) @@ (l2 :> None)

FullBuilds == {(P :> Old) @@ (D :> Lib), (P :> New) @@ (D :> Lib)}
\* A rebuild that puts both lines at one address.
MergedBuilds == {(P :> Old) @@ (D :> NoLines),
                 (P :> ((l1 :> At0(1, 1)) @@ (l2 :> At0(1, 1)))) @@ (D :> NoLines)}

\* A library with exports only, whose symbols are deferred.
LateBuilds  == {(P :> [Old EXCEPT ![l2] = None]) @@ (D :> NoLines)}
LateSymbols == (P :> "full") @@ (D :> "exports")

\* What a session may have saved: a line, switched on or off, and a watchpoint.
Line1(act) == [watch |-> FALSE, active |-> act, name |-> [img |-> P, line |-> l1, diff |-> 0],
               locimg |-> None, loc |-> NilAddr]
Watch(m)   == [watch |-> TRUE, active |-> TRUE, name |-> None, locimg |-> m,
               loc |-> [b |-> 0, s |-> 2, o |-> 0]]
SomeFiles  == {<<Line1(FALSE)>>, <<Watch(D), Line1(TRUE)>>}
SomeJunk   == {NilAddr, [b |-> 1, s |-> 1, o |-> 1]}

FullSymbols == [m \in {P, D} |-> "full"]
===============================================================================
