------------------------------ MODULE DosxLink ------------------------------
(***************************************************************************)
(* The link between the two halves of the trap file for a DOS extender:    *)
(* the client, in real mode with the debugger, and the server, in          *)
(* protected mode with the program.  They are contexts of one processor    *)
(* that leave each other by longjmp: the server calls real mode, which     *)
(* ends in the client's last setjmp; the client jumps back into that call. *)
(* A request and its reply go through a buffer of the client's.  DOS knows *)
(* one current process, which has to change with the context.              *)
(*                                                                         *)
(* Source: src/trap_src/dosx/dosxlink.c, both sides of #ifdef SERVER.  The *)
(* packet layer, which calls RemotePut and RemoteGet, and _fork, which     *)
(* starts the extender and comes back when it has ended, are not in the    *)
(* repository.                                                             *)
(***************************************************************************)
EXTENDS Naturals

CONSTANTS
  Requests, Replies,
  Reply,        \* a request's reply, or None
  Length,       \* bytes of a message
  Disconnect,   \* the request after which both sides unlink
  None,
  Snd, Rec      \* where the packet layer has its requests sent from and replies put

Messages == Requests \cup Replies

ASSUME MessagesAssumption ==
  /\ None \notin Messages
  /\ Disconnect \in Requests
  /\ Reply \in [Requests -> Replies \cup {None}] /\ Reply[Disconnect] = None
  /\ Length \in [Messages -> Nat]

\* The server writes a reply where it has read the request: RemotePut uses the
\* address the client's RemotePut left in Buff.  The reply arrives because the
\* packet layer keeps both in one place.
ASSUME BufferAssumption == Snd = Rec

VARIABLES
  client,          \* where the client is; "away" in the setjmp of RealModeState
  server,          \* where the server is; "away" in the setjmp of ProtModeState
  RealModeState,   \* the function of the client that was the last to setjmp
  ProtModeState,   \* the function of the server that was the last to call real mode
  Buff,            \* address and length of a message
  mem,             \* the message at an address
  psp,             \* DOS's current process
  OldPSP,
  BeenToProtMode, BackFromFork,
  vector,          \* vector 06h
  saved,           \* link[3]
  asked,           \* the client's last request
  got,             \* the request the server serves
  received,        \* the last reply, as RemoteGet returns it
  own              \* the server's current process when it last ran (history)

jumps == <<RealModeState, ProtModeState, BeenToProtMode>>
message == <<Buff, mem>>
vectors == <<vector, saved>>
log == <<asked, got, received>>
vars == <<client, server, jumps, message, psp, OldPSP, BackFromFork, vectors, log, own>>

-----------------------------------------------------------------------------
ClientStates == {"out", "away", "link", "idle", "put", "wait", "get", "bye", "unlink",
                 "failed", "gone", "crashed"}
ServerStates == {"none", "start", "linked", "away", "get", "served", "put", "unlink"}
PSPs == {"debugger", "server", "task"}

\* The type of every variable: where each context is, what the buffer may hold,
\* whose process is current.
TypeOK ==
  /\ client \in ClientStates /\ server \in ServerStates
  /\ RealModeState \in {"none", "link", "put", "get", "unlink"}
  /\ ProtModeState \in {"none", "get", "put", "unlink"}
  /\ Buff \in [ptr : {Snd, Rec}, len : Nat] /\ mem \in [{Snd, Rec} -> Messages \cup {None}]
  /\ {psp, OldPSP, own} \subseteq PSPs
  /\ {BeenToProtMode, BackFromFork} \subseteq BOOLEAN
  /\ {vector, saved} \subseteq {"dos", "link", "extender"}
  /\ {asked, got} \subseteq Requests \cup {None}
  /\ received \in Messages \cup {None}

Init ==
  /\ client = "out" /\ server = "none"
  /\ RealModeState = "none" /\ ProtModeState = "none"
  /\ Buff = [ptr |-> Snd, len |-> 0] /\ mem = [a \in {Snd, Rec} |-> None]
  /\ psp = "debugger" /\ OldPSP = "debugger" /\ own = "server"
  /\ BeenToProtMode = FALSE /\ BackFromFork = FALSE
  /\ vector = "dos" /\ saved = "dos"
  /\ asked = None /\ got = None /\ received = None

\* What len bytes from an address are: a message, or no whole one.
Bytes(address, len) ==
  IF mem[address] # None /\ len = Length[mem[address]] THEN mem[address] ELSE None

-----------------------------------------------------------------------------
(* The switches. *)

\* BackToProtMode, called by f, and the rest of BackFromProtMode: the server
\* goes on behind its call of real mode.  If it has ended there is nothing to
\* go on with.
SetPSPNot == UNCHANGED psp  \* mutant: the server runs as the debugger
SetPSP == psp' = OldPSP
BackToProtMode(f) ==
  /\ RealModeState' = f
  /\ IF server = "away"
     THEN client' = "away" /\ server' = ProtModeState /\ SetPSP
     ELSE client' = "crashed" /\ UNCHANGED <<server, psp>>
  /\ UNCHANGED <<ProtModeState, BeenToProtMode, OldPSP, BackFromFork, vectors>>

\* CallRealMode, called by f, and BackFromProtMode: the client goes on where
\* its last setjmp was.
CallRealMode(f) ==
  /\ BeenToProtMode' = TRUE
  /\ ProtModeState' = f /\ server' = "away"
  /\ OldPSP' = psp /\ psp' = "debugger" /\ own' = psp
  /\ client' = RealModeState
  /\ UNCHANGED <<RealModeState, BackFromFork, log>>

-----------------------------------------------------------------------------
(* The client. *)

\* RemoteLink up to the fork.  The extender or its help file may not be found,
\* or not be started; the vector is left as it is then.
RemoteLink ==
  /\ client = "out"
  /\ BackFromFork' = FALSE
  /\ saved' = vector /\ vector' = "link"
  /\ RealModeState' = "link"
  /\ \/ client' = "failed" /\ UNCHANGED <<server, psp, own>>
     \/ client' = "away" /\ server' = "start" /\ psp' = "server" /\ own' = "server"
  /\ UNCHANGED <<ProtModeState, BeenToProtMode, message, OldPSP, log>>

\* RemoteLink, when its setjmp returns again.
LinkReturns ==
  /\ client = "link"
  /\ client' = IF BackFromFork \/ ~BeenToProtMode THEN "failed" ELSE "idle"
  /\ UNCHANGED <<server, jumps, message, psp, OldPSP, BackFromFork, vectors, log, own>>

RemotePut(r) ==
  /\ client = "idle"
  /\ Buff' = [ptr |-> Snd, len |-> Length[r]] /\ mem' = [mem EXCEPT ![Snd] = r]
  /\ asked' = r
  /\ BackToProtMode("put")
  /\ UNCHANGED <<got, received, own>>

\* The packet layer asks for the reply, if the request has one.
PutReturns ==
  /\ client = "put"
  /\ client' = IF Reply[asked] # None THEN "wait" ELSE IF asked = Disconnect THEN "bye" ELSE "idle"
  /\ UNCHANGED <<server, jumps, message, psp, OldPSP, BackFromFork, vectors, log, own>>

RemoteGet ==
  /\ client = "wait"
  /\ Buff' = [Buff EXCEPT !.ptr = Rec]
  /\ BackToProtMode("get")
  /\ UNCHANGED <<mem, log, own>>

GetReturns ==
  /\ client = "get"
  /\ received' = Bytes(Rec, Buff.len)
  /\ client' = "idle"
  /\ UNCHANGED <<server, jumps, message, psp, OldPSP, BackFromFork, vectors, asked, got, own>>

\* RemoteUnLink.  doskludge lets DOS come back to this frame when the server
\* has ended.
RemoteUnLink ==
  /\ client = "bye"
  /\ BackToProtMode("unlink")
  /\ UNCHANGED <<message, log, own>>

UnLinkReturns ==
  /\ client = "unlink" /\ client' = "gone"
  /\ UNCHANGED <<server, jumps, message, psp, OldPSP, BackFromFork, vectors, log, own>>

-----------------------------------------------------------------------------
(* The server. *)

\* The extender takes the vector before the server runs.
ExtenderHooks ==
  /\ server = "start" /\ vector' = "extender"
  /\ UNCHANGED <<client, server, jumps, message, psp, OldPSP, BackFromFork, saved, log, own>>

\* The server's RemoteLink, if it finds the signature.
RestoreNot == UNCHANGED vector  \* mutant: the vector is not put back
Restore == vector' = saved
ServerLinks ==
  /\ server = "start" /\ vector = "link"
  /\ Restore
  /\ server' = "linked"
  /\ UNCHANGED <<client, jumps, message, psp, OldPSP, BackFromFork, saved, log, own>>

\* Its RemoteGet: at first, and when RemotePut has returned.
ServerGets ==
  /\ server \in {"linked", "put"}
  /\ CallRealMode("get")
  /\ UNCHANGED <<message, vectors>>

\* The rest of RemoteGet, and what the request does: it may run the program,
\* and leave it the current process.
Serve ==
  /\ server = "get"
  /\ got' = Bytes(Buff.ptr, Buff.len)
  /\ psp' \in {"server", "task"} /\ own' = psp'
  /\ server' = "served"
  /\ UNCHANGED <<client, jumps, message, OldPSP, BackFromFork, vectors, asked, received>>

\* RemotePut.  Mutant of the message: its length is still the request's.
PutTextOnly(m) == mem' = [mem EXCEPT ![Buff.ptr] = m] /\ UNCHANGED Buff
PutText(m) == Buff' = [Buff EXCEPT !.len = Length[m]] /\ mem' = [mem EXCEPT ![Buff.ptr] = m]
ServerReplies ==
  /\ server = "served" /\ Reply[got] # None
  /\ PutText(Reply[got])
  /\ CallRealMode("put")
  /\ UNCHANGED vectors

\* A request without a reply: on to the next one, or to RemoteUnLink.
ServerGoesOn ==
  /\ server = "served" /\ Reply[got] = None
  /\ CallRealMode(IF got = Disconnect THEN "unlink" ELSE "get")
  /\ UNCHANGED <<message, vectors>>

\* The extender ends, with the server or before it runs or under it; DOS makes
\* the debugger current and returns into _fork.  Unless RemoteLink or
\* RemoteUnLink waits, the stack frame DOS returns with may be in use again.
Fork ==
  /\ client = "away"
  /\ server' = "none"
  /\ psp' = "debugger"
  /\ \/ BackFromFork' = TRUE /\ client' = RealModeState
     \/ RealModeState \notin {"link", "unlink"} /\ client' = "crashed" /\ UNCHANGED BackFromFork
  /\ UNCHANGED <<jumps, message, OldPSP, vectors, log, own>>

Client ==
  \/ RemoteLink \/ LinkReturns \/ PutReturns \/ RemoteGet \/ GetReturns
  \/ RemoteUnLink \/ UnLinkReturns
  \/ \E r \in Requests : RemotePut(r)
Server == ExtenderHooks \/ ServerLinks \/ ServerGets \/ Serve \/ ServerReplies \/ ServerGoesOn
Next == Client \/ Server \/ Fork
Spec == Init /\ [][Next]_vars

-----------------------------------------------------------------------------
(* Properties. *)

Linked == client \in {"idle", "put", "wait", "get", "bye"}

\* Each context runs as the process it runs for: the client as the debugger,
\* the server as what it had current when it last called real mode, be it the
\* program; and once the link is up, vector 06h is its owner's again.
ContextsApart ==
  /\ client # "away" /\ client # "crashed" => psp = "debugger"
  /\ client = "away" => psp = own
  /\ Linked => vector = "dos"

\* The request and its reply as the abstract link has them.  A server that has
\* ended before both sides unlinked is a lost link.
Lost == client = "crashed" \/ (BackFromFork /\ (Linked \/ client \in {"unlink", "gone"})
                               /\ ProtModeState # "unlink")
LinkState ==
  CASE Lost -> "lost"
    [] ~Lost /\ client \in {"failed", "gone"} -> "over"
    [] ~Lost /\ (client \in {"out", "link"} \/ (client = "away" /\ RealModeState = "link")) -> "down"
    [] ~Lost /\ client = "idle" -> "idle"
    [] ~Lost /\ client = "away" /\ server = "get" -> "asked"
    [] ~Lost /\ (client \in {"bye", "unlink"} \/ (client = "away" /\ RealModeState = "unlink")) -> "closed"
    [] OTHER -> "served"
Service == INSTANCE LinkService WITH
  state <- LinkState, seen <- got, result <- received

\* The link implements LinkService: through jumps, lengths and one buffer, a
\* request is served once and as it was sent, and RemoteGet returns its reply.
ServiceSpec == Service!Spec
=============================================================================
