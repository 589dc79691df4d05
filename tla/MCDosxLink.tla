----------------------------- MODULE MCDosxLink -----------------------------
(* Two requests with replies of different lengths, one longer and one      *)
(* shorter than its request, one without a reply, and the last.            *)
EXTENDS DosxLink

CONSTANTS ask, run, tell, bye, state, stop

MCRequests == {ask, run, tell, bye}
MCReplies == {state, stop}
MCReply == [r \in MCRequests |-> IF r = ask THEN state ELSE IF r = run THEN stop ELSE None]
MCLength == [m \in MCRequests \cup MCReplies |->
               IF m = state THEN 8 ELSE IF m = stop THEN 2 ELSE 4]
=============================================================================
