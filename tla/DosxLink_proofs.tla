--------------------------- MODULE DosxLink_proofs ---------------------------
(***************************************************************************)
(* Proofs about DosxLink for every set of requests, replies and lengths.   *)
(***************************************************************************)
EXTENDS DosxLink, TLAPS

USE MessagesAssumption, BufferAssumption

\* While the server runs: which setjmp the client waits in, and what the server
\* has been given.
ServerRuns ==
  client = "away" =>
    /\ ~BackFromFork /\ psp = own
    /\ \/ server = "start" /\ RealModeState = "link" /\ ProtModeState = "none" /\ saved = "dos"
       \/ server = "linked" /\ RealModeState = "link" /\ ProtModeState = "none" /\ vector = "dos"
       \/ /\ server = "get" /\ RealModeState = "put" /\ ProtModeState = "get" /\ vector = "dos"
          /\ asked \in Requests /\ mem[Snd] = asked
          /\ Buff = [ptr |-> Snd, len |-> Length[asked]]
       \/ /\ server = "served" /\ RealModeState = "put" /\ ProtModeState = "get" /\ vector = "dos"
          /\ asked \in Requests /\ got = asked /\ Buff.ptr = Snd
       \/ /\ server = "put" /\ RealModeState = "get" /\ ProtModeState = "put" /\ vector = "dos"
          /\ asked \in Requests /\ Reply[asked] # None
          /\ mem[Snd] = Reply[asked] /\ Buff.len = Length[Reply[asked]]
       \/ /\ server = "unlink" /\ RealModeState = "unlink" /\ ProtModeState = "unlink"
          /\ vector = "dos" /\ asked = Disconnect

\* A reply that is on its way.
ReplyWaits ==
  /\ Reply[asked] # None /\ mem[Snd] = Reply[asked] /\ Buff.len = Length[Reply[asked]]

\* While the client runs and the server lives: which call of the server's it
\* can go back to.
ServerWaits ==
  server = "away" =>
    /\ ~BackFromFork /\ OldPSP = own /\ vector = "dos"
    /\ client # "link" => ProtModeState # "none" /\ BeenToProtMode
    /\ \/ client = "link" /\ ProtModeState = "get" /\ BeenToProtMode
       \/ client = "idle" /\ ProtModeState = "get"
       \/ /\ client = "put" /\ asked \in Requests /\ got = asked
          /\ \/ ProtModeState = "put" /\ ReplyWaits
             \/ /\ Reply[asked] = None
                /\ ProtModeState = IF asked = Disconnect THEN "unlink" ELSE "get"
       \/ client = "wait" /\ asked \in Requests /\ ProtModeState = "put" /\ ReplyWaits
       \/ client = "get" /\ asked \in Requests /\ ProtModeState = "get" /\ ReplyWaits
       \/ client = "bye" /\ asked = Disconnect /\ ProtModeState = "unlink"

\* Before the server is started and after it has ended.
NoServer ==
  server = "none" =>
    \/ client = "out" /\ vector = "dos" /\ ~BeenToProtMode /\ ProtModeState = "none"
    \/ client \in {"failed", "crashed"}
    \/ client = "link" /\ BackFromFork
    \/ client \in {"unlink", "gone"} /\ BackFromFork /\ ProtModeState = "unlink"
    \/ Linked /\ BackFromFork /\ ProtModeState # "unlink" /\ vector = "dos"

Places ==
  /\ client = "away" <=> server \notin {"none", "away"}
  /\ client \notin {"away", "crashed"} => psp = "debugger"
  /\ ProtModeState = "none" <=> ~BeenToProtMode
  /\ asked \in Requests \/ client \in {"out", "away", "link", "idle", "failed", "crashed"}
  /\ client = "failed" \/ client = "link" => ProtModeState \in {"none", "get"}
  /\ client = "failed" => server = "none"

Inv == TypeOK /\ Places /\ ServerRuns /\ ServerWaits /\ NoServer

\* The invariant holds before the link is set up.
LEMMA InitInv == Init => Inv
<1> SUFFICES ASSUME Init PROVE Inv
  OBVIOUS
<1> USE DEF Init
<1>1. TypeOK
  BY DEF TypeOK, Messages, ClientStates, ServerStates, PSPs
<1>2. Places /\ ServerRuns /\ ServerWaits /\ NoServer
  BY DEF Places, ServerRuns, ServerWaits, NoServer
<1> QED
  BY <1>1, <1>2 DEF Inv

\* Every step of either side, and the end of the server, keeps the invariant.
LEMMA NextInv == Inv /\ [Next]_vars => Inv'
<1> SUFFICES ASSUME Inv, [Next]_vars PROVE Inv'
  OBVIOUS
<1> USE DEF Inv, jumps, message, vectors, log
<1>1. CASE LinkReturns
  <2>1. TypeOK'
    BY <1>1 DEF LinkReturns, TypeOK, ClientStates
  <2>2. Places'
    BY <1>1 DEF LinkReturns, Places, ServerWaits
  <2>3. ServerRuns'
    BY <1>1 DEF LinkReturns, Places, ServerRuns
  <2>4. ServerWaits' /\ NoServer'
    BY <1>1 DEF LinkReturns, Places, ServerWaits, ReplyWaits, NoServer, Linked
  <2> QED
    BY <2>1, <2>2, <2>3, <2>4
<1>2. CASE PutReturns
  <2>1. TypeOK'
    BY <1>2 DEF PutReturns, TypeOK, ClientStates
  <2>2. Places'
    BY <1>2 DEF PutReturns, Places
  <2>3. ServerRuns'
    BY <1>2 DEF PutReturns, Places, ServerRuns
  <2>4. ServerWaits' /\ NoServer'
    BY <1>2 DEF PutReturns, Places, ServerWaits, ReplyWaits, NoServer, Linked
  <2> QED
    BY <2>1, <2>2, <2>3, <2>4
<1>3. CASE GetReturns
  <2>1. TypeOK'
    BY <1>3 DEF GetReturns, Bytes, TypeOK, ClientStates
  <2>2. Places'
    BY <1>3 DEF GetReturns, Places
  <2>3. ServerRuns'
    BY <1>3 DEF GetReturns, Places, ServerRuns
  <2>4. ServerWaits' /\ NoServer'
    BY <1>3 DEF GetReturns, Places, ServerWaits, ReplyWaits, NoServer, Linked
  <2> QED
    BY <2>1, <2>2, <2>3, <2>4
<1>4. CASE UnLinkReturns
  <2>1. TypeOK'
    BY <1>4 DEF UnLinkReturns, TypeOK, ClientStates
  <2>2. Places'
    BY <1>4 DEF UnLinkReturns, Places
  <2>3. ServerRuns'
    BY <1>4 DEF UnLinkReturns, Places, ServerRuns
  <2>4. ServerWaits' /\ NoServer'
    BY <1>4 DEF UnLinkReturns, Places, ServerWaits, ReplyWaits, NoServer, Linked
  <2> QED
    BY <2>1, <2>2, <2>3, <2>4
<1>5. CASE RemoteLink
  <2>1. TypeOK'
    BY <1>5 DEF RemoteLink, TypeOK, ClientStates, ServerStates, PSPs
  <2>2. Places'
    BY <1>5
       DEF RemoteLink, TypeOK, Places, ServerRuns, ServerWaits, NoServer, Linked, Messages,
           ReplyWaits
  <2>3. ServerRuns'
    BY <1>5
       DEF RemoteLink, TypeOK, Places, ServerRuns, ServerWaits, ReplyWaits, NoServer, Linked,
           Messages
  <2>4. ServerWaits' /\ NoServer'
    BY <1>5 DEF RemoteLink, Places, ServerWaits, ReplyWaits, NoServer, Linked
  <2> QED
    BY <2>1, <2>2, <2>3, <2>4
<1>6. CASE RemoteGet
  <2>1. TypeOK'
    BY <1>6 DEF RemoteGet, BackToProtMode, SetPSP, TypeOK, ClientStates, ServerStates
  <2>2. Places'
    BY <1>6 DEF RemoteGet, BackToProtMode, SetPSP, Places, ServerWaits
  <2>3. ServerRuns'
    BY <1>6 DEF RemoteGet, BackToProtMode, SetPSP, Places, ServerRuns, ServerWaits, ReplyWaits
  <2>4. ServerWaits' /\ NoServer'
    BY <1>6 DEF RemoteGet, BackToProtMode, SetPSP, Places, ServerWaits, ReplyWaits, NoServer, Linked
  <2> QED
    BY <2>1, <2>2, <2>3, <2>4
<1>7. CASE RemoteUnLink
  <2>1. TypeOK'
    BY <1>7 DEF RemoteUnLink, BackToProtMode, SetPSP, TypeOK, ClientStates, ServerStates
  <2>2. Places'
    BY <1>7 DEF RemoteUnLink, BackToProtMode, SetPSP, Places, ServerWaits
  <2>3. ServerRuns'
    BY <1>7 DEF RemoteUnLink, BackToProtMode, SetPSP, Places, ServerRuns, ServerWaits, ReplyWaits
  <2>4. ServerWaits' /\ NoServer'
    BY <1>7
       DEF RemoteUnLink, BackToProtMode, SetPSP, Places, ServerWaits, ReplyWaits, NoServer,
           Linked
  <2> QED
    BY <2>1, <2>2, <2>3, <2>4
<1>8. CASE ExtenderHooks
  <2>1. TypeOK'
    BY <1>8 DEF ExtenderHooks, TypeOK, ClientStates
  <2>2. Places'
    BY <1>8 DEF ExtenderHooks, Places
  <2>3. ServerRuns'
    BY <1>8 DEF ExtenderHooks, Places, ServerRuns
  <2>4. ServerWaits' /\ NoServer'
    BY <1>8 DEF ExtenderHooks, Places, ServerWaits, ReplyWaits, NoServer, Linked
  <2> QED
    BY <2>1, <2>2, <2>3, <2>4
<1>9. CASE ServerLinks
  <2>1. TypeOK'
    BY <1>9 DEF ServerLinks, Restore, TypeOK, ServerStates
  <2>2. Places'
    BY <1>9 DEF ServerLinks, Restore, Places
  <2>3. ServerRuns'
    BY <1>9 DEF ServerLinks, Restore, Places, ServerRuns
  <2>4. ServerWaits' /\ NoServer'
    BY <1>9 DEF ServerLinks, Restore, Places, ServerWaits, ReplyWaits, NoServer, Linked
  <2> QED
    BY <2>1, <2>2, <2>3, <2>4
<1>10. CASE ServerGets
  <2>1. TypeOK'
    BY <1>10
       DEF ServerGets, CallRealMode, TypeOK, Places, ServerRuns, ServerWaits, NoServer,
           Messages, ClientStates, ServerStates, PSPs
  <2>2. Places'
    BY <1>10 DEF ServerGets, CallRealMode, Places, ServerRuns
  <2>3. ServerRuns'
    BY <1>10 DEF ServerGets, CallRealMode, Places, ServerRuns
  <2>4. ServerWaits' /\ NoServer'
    BY <1>10
       DEF ServerGets, CallRealMode, Places, ServerRuns, ServerWaits, ReplyWaits, NoServer,
           Linked
  <2> QED
    BY <2>1, <2>2, <2>3, <2>4
<1>11. CASE Serve
  <2>1. TypeOK'
    BY <1>11
       DEF Serve, Bytes, TypeOK, Places, ServerRuns, ServerWaits, NoServer, Messages,
           ClientStates, ServerStates, PSPs
  <2>2. Places'
    BY <1>11 DEF Serve, Places
  <2>3. ServerRuns'
    BY <1>11 DEF Serve, Bytes, Places, ServerRuns
  <2>4. ServerWaits' /\ NoServer'
    BY <1>11 DEF Serve, Places, ServerWaits, ReplyWaits, NoServer, Linked
  <2> QED
    BY <2>1, <2>2, <2>3, <2>4
<1>12. CASE ServerReplies
  <2>1. TypeOK'
    BY <1>12
       DEF ServerReplies, CallRealMode, PutText, TypeOK, Places, ServerRuns, ServerWaits,
           NoServer, Messages, ClientStates, ServerStates, PSPs
  <2>2. Places'
    BY <1>12 DEF ServerReplies, CallRealMode, PutText, Places, ServerRuns
  <2>3. ServerRuns'
    BY <1>12 DEF ServerReplies, CallRealMode, PutText, Places, ServerRuns
  <2>4. ServerWaits' /\ NoServer'
    BY <1>12
       DEF ServerReplies, CallRealMode, PutText, TypeOK, Places, ServerRuns, ServerWaits,
           ReplyWaits, NoServer, Linked
  <2> QED
    BY <2>1, <2>2, <2>3, <2>4
<1>13. CASE ServerGoesOn
  <2>1. TypeOK'
    BY <1>13
       DEF ServerGoesOn, CallRealMode, TypeOK, Places, ServerRuns, ServerWaits, NoServer,
           Messages, ClientStates, ServerStates, PSPs
  <2>2. Places'
    BY <1>13 DEF ServerGoesOn, CallRealMode, Places, ServerRuns
  <2>3. ServerRuns'
    BY <1>13 DEF ServerGoesOn, CallRealMode, Places, ServerRuns
  <2>4. ServerWaits' /\ NoServer'
    BY <1>13
       DEF ServerGoesOn, CallRealMode, Places, ServerRuns, ServerWaits, ReplyWaits, NoServer,
           Linked
  <2> QED
    BY <2>1, <2>2, <2>3, <2>4
<1>14. CASE Fork
  <2>1. TypeOK'
    BY <1>14
       DEF Fork, TypeOK, Places, ServerRuns, ServerWaits, NoServer, Messages, ClientStates,
           ServerStates, PSPs
  <2>2. Places'
    BY <1>14 DEF Fork, Places, ServerRuns
  <2>3. ServerRuns'
    BY <1>14 DEF Fork, Places, ServerRuns
  <2>4. ServerWaits' /\ NoServer'
    BY <1>14 DEF Fork, Places, ServerRuns, ServerWaits, ReplyWaits, NoServer, Linked
  <2> QED
    BY <2>1, <2>2, <2>3, <2>4
<1>15. ASSUME NEW r \in Requests, RemotePut(r)
       PROVE  Inv'
  <2>1. TypeOK'
    BY <1>15
       DEF RemotePut, BackToProtMode, SetPSP, TypeOK, ClientStates, ServerStates, PSPs, Messages
  <2>2. Places'
    BY <1>15 DEF RemotePut, BackToProtMode, SetPSP, Places, ServerWaits
  <2>3. ServerRuns'
    BY <1>15
       DEF RemotePut, BackToProtMode, SetPSP, TypeOK, Places, ServerRuns, ServerWaits,
           ReplyWaits
  <2>4. ServerWaits' /\ NoServer'
    BY <1>15
       DEF RemotePut, BackToProtMode, SetPSP, Places, ServerWaits, ReplyWaits, NoServer, Linked
  <2> QED
    BY <2>1, <2>2, <2>3, <2>4
<1>16. CASE UNCHANGED vars
  <2>1. TypeOK'
    BY <1>16 DEF vars, TypeOK, ClientStates
  <2>2. Places'
    BY <1>16 DEF vars, Places
  <2>3. ServerRuns'
    BY <1>16 DEF vars, Places, ServerRuns
  <2>4. ServerWaits' /\ NoServer'
    BY <1>16 DEF vars, Places, ServerWaits, ReplyWaits, NoServer, Linked
  <2> QED
    BY <2>1, <2>2, <2>3, <2>4
<1> QED
  BY <1>1, <1>2, <1>3, <1>4, <1>5, <1>6, <1>7, <1>8, <1>9, <1>10, <1>11, <1>12, <1>13, <1>14,
     <1>15, <1>16
     DEF Next, Client, Server

\* The invariant holds of every behaviour; the other theorems follow from it.
THEOREM Invariance == Spec => []Inv
<1>1. Init => Inv
  BY InitInv
<1>2. Inv /\ [Next]_vars => Inv'
  BY NextInv
<1> QED
  BY <1>1, <1>2, PTL DEF Spec

\* Every variable keeps its type: no length, address or jump is ever another.
THEOREM TypeCorrect == Spec => []TypeOK
BY Invariance, PTL DEF Inv

\* Each context runs as its own process, and vector 06h is given back.
THEOREM Apart == Spec => []ContextsApart
<1>1. Inv => ContextsApart
  BY DEF Inv, Places, ServerRuns, ServerWaits, NoServer, Linked, ContextsApart, TypeOK,
     ServerStates, ClientStates
<1> QED
  BY <1>1, Invariance, PTL

-----------------------------------------------------------------------------
(***************************************************************************)
(* The refinement: what each step is of the abstract link.                 *)
(***************************************************************************)
\* LinkState, for each place the client can be at.
LinkTable ==
  /\ Lost => LinkState = "lost"
  /\ ~Lost =>
       /\ client \in {"failed", "gone"} => LinkState = "over"
       /\ client \in {"out", "link"} => LinkState = "down"
       /\ client = "idle" => LinkState = "idle"
       /\ client \in {"put", "wait", "get"} => LinkState = "served"
       /\ client \in {"bye", "unlink"} => LinkState = "closed"
       /\ client = "away" =>
            /\ RealModeState = "link" => LinkState = "down"
            /\ RealModeState = "put" => LinkState = IF server = "get" THEN "asked" ELSE "served"
            /\ RealModeState = "get" /\ server = "put" => LinkState = "served"
            /\ RealModeState = "unlink" /\ server = "unlink" => LinkState = "closed"

\* The table is what LinkState says where the invariant holds ...
LEMMA TableHolds == Inv => LinkTable
<1> SUFFICES ASSUME Inv PROVE LinkTable
  OBVIOUS
<1>1. client = "away" /\ RealModeState = "link" => server # "get"
  BY DEF Inv, ServerRuns
<1> QED
  BY <1>1 DEF LinkTable, LinkState

\* ... and behind a step that keeps it.
LEMMA TableHoldsNext == Inv' => LinkTable'
<1> SUFFICES ASSUME Inv' PROVE LinkTable'
  OBVIOUS
<1>1. (client = "away" /\ RealModeState = "link" => server # "get")'
  BY DEF Inv, ServerRuns
<1> QED
  BY <1>1 DEF LinkTable, LinkState

\* A step of the abstract link, or none.
AbstractStep ==
  \/ Service!Connect \/ Service!Serve \/ Service!Finish \/ Service!Close \/ Service!Lose
  \/ \E r \in Requests : Service!Ask(r)
  \/ UNCHANGED Service!vars

\* Each step is one of the abstract link, or changes nothing that it sees.
LEMMA StepRefines == Inv /\ Inv' /\ [Next]_vars => [Service!Next]_(Service!vars)
<1> SUFFICES ASSUME Inv, Inv', [Next]_vars PROVE AbstractStep
  BY DEF AbstractStep, Service!Next
<1>0. LinkTable /\ LinkTable'
  BY TableHolds, TableHoldsNext
<1> USE <1>0 DEF Inv, TypeOK, Places, ServerRuns, ServerWaits, ReplyWaits, NoServer, Linked, Lost,
         jumps, message, vectors, log, LinkTable, AbstractStep, Service!vars
<1>1. CASE LinkReturns
  BY <1>1 DEF LinkReturns, Service!Connect
<1>2. CASE PutReturns
  BY <1>2 DEF PutReturns, Service!Finish, Service!Lose
<1>3. CASE GetReturns
  <2>1. CASE Lost
    BY <1>3, <2>1 DEF GetReturns, Service!Lose
  <2>2. CASE ~Lost
    <3>1. server = "away"
      BY <1>3, <2>2 DEF GetReturns, ServerStates
    <3>2. /\ asked \in Requests /\ Reply[asked] # None /\ asked # Disconnect
          /\ mem[Rec] = Reply[asked] /\ Buff.len = Length[Reply[asked]]
      BY <1>3, <3>1 DEF GetReturns
    <3>3. received' = Reply[asked]
      BY <1>3, <3>2 DEF GetReturns, Bytes
    <3>4. LinkState = "served" /\ LinkState' = "idle"
      BY <1>3, <2>2 DEF GetReturns
    <3> QED
      BY <1>3, <3>2, <3>3, <3>4 DEF GetReturns, Service!Finish
  <2> QED
    BY <2>1, <2>2
<1>4. CASE UnLinkReturns
  BY <1>4 DEF UnLinkReturns, Service!Close
<1>5. CASE RemoteLink
  BY <1>5 DEF RemoteLink, Service!Connect
<1>6. CASE RemoteGet
  BY <1>6 DEF RemoteGet, BackToProtMode
<1>7. CASE RemoteUnLink
  BY <1>7 DEF RemoteUnLink, BackToProtMode
<1>8. CASE ExtenderHooks
  BY <1>8 DEF ExtenderHooks
<1>9. CASE ServerLinks
  BY <1>9 DEF ServerLinks
<1>10. CASE ServerGets
  BY <1>10 DEF ServerGets, CallRealMode
<1>11. CASE Serve
  BY <1>11 DEF Serve, Bytes, Service!Serve
<1>12. CASE ServerReplies
  BY <1>12 DEF ServerReplies, CallRealMode, PutText
<1>13. CASE ServerGoesOn
  BY <1>13 DEF ServerGoesOn, CallRealMode
<1>14. CASE Fork
  BY <1>14 DEF Fork, Service!Lose
<1>15. ASSUME NEW r \in Requests, RemotePut(r)
       PROVE  AbstractStep
  BY <1>15 DEF RemotePut, BackToProtMode, Service!Ask, Service!Lose
<1>16. CASE UNCHANGED vars
  BY <1>16 DEF vars, LinkState
<1> QED
  BY <1>1, <1>2, <1>3, <1>4, <1>5, <1>6, <1>7, <1>8, <1>9, <1>10, <1>11, <1>12, <1>13, <1>14,
     <1>15, <1>16
     DEF Next, Client, Server

\* The link implements LinkService: through jumps, lengths and one buffer, each
\* request is served once and as it was sent, and its own reply returned.
THEOREM Implements == Spec => ServiceSpec
<1>1. Init => Service!Init
  BY DEF Init, Service!Init, LinkState, Lost, Linked
<1> QED
  BY <1>1, StepRefines, Invariance, PTL DEF Spec, ServiceSpec, Service!Spec
=============================================================================
