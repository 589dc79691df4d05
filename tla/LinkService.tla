---------------------------- MODULE LinkService ----------------------------
(***************************************************************************)
(* What the debugger's half of the trap file needs of the link to the half *)
(* that runs under the DOS extender: one request at a time, served once    *)
(* and as it was sent, its reply handed over before the next; or the link  *)
(* is lost, and nothing more is promised.                                  *)
(***************************************************************************)
CONSTANTS
  Requests,
  Reply,        \* a request's reply, or None
  None,
  Disconnect    \* the last request

VARIABLES state, asked, seen, result
vars == <<state, asked, seen, result>>

Init == state = "down" /\ asked = None /\ seen = None /\ result = None

Connect == state = "down" /\ state' \in {"idle", "over"} /\ UNCHANGED <<asked, seen, result>>

Ask(r) == state = "idle" /\ state' = "asked" /\ asked' = r /\ UNCHANGED <<seen, result>>

\* The other half serves what was asked.
Serve == state = "asked" /\ state' = "served" /\ seen' = asked /\ UNCHANGED <<asked, result>>

Finish ==
  /\ state = "served"
  /\ state' = IF asked = Disconnect THEN "closed" ELSE "idle"
  /\ result' = IF Reply[asked] = None THEN result ELSE Reply[asked]
  /\ UNCHANGED <<asked, seen>>

Close == state = "closed" /\ state' = "over" /\ UNCHANGED <<asked, seen, result>>

Lose == state \in {"asked", "served", "closed", "lost"} /\ state' = "lost"

Next == Connect \/ (\E r \in Requests : Ask(r)) \/ Serve \/ Finish \/ Close \/ Lose
Spec == Init /\ [][Next]_vars
=============================================================================
