------------------------------- MODULE IpcServer -------------------------------
(***************************************************************************)
(* The IPC server of sysmodule/lib/nxExt/src/ipc_server.c as the sysmodule *)
(* runs it: one thread that waits on the service port and on a table of    *)
(* session handles, serves the one that is signalled and takes sessions    *)
(* out of the table when they end.                                         *)
(*                                                                         *)
(* Handle 0 of the table, the port, is left implicit: sessions[i] is       *)
(* handles[i] of the code and server->count is Len(sessions) + 1.          *)
(*                                                                         *)
(* What the kernel does with ports and sessions is modelled from the calls *)
(* of the code.  A session counts against the limit the port was           *)
(* registered with until both ends are closed.                             *)
(***************************************************************************)
EXTENDS Naturals, Sequences, FiniteSets

CONSTANTS
    Sessions,       \* identities of sessions, used again once finalized
    NoSession,
    MaxSessions,    \* max_sessions of ipcServerInit
    MaxSent         \* bound on the connections and messages of clients

ASSUME MaxAssumption == MaxSessions \in Nat \ {0}
ASSUME SessionsAssumption == IsFiniteSet(Sessions)
ASSUME NoSessionAssumption == NoSession \notin Sessions

VARIABLES
    sessions,   \* the table of session handles
    pc,         \* what the server thread does next
    index,      \* handleIndex; 0 is the port
    rc,         \* outcome of the message in hand: "close" after a Close
    cancel,     \* svcCancelSynchronization was called
    client,     \* client[s]: the client's end of the session
    server,     \* server[s]: the server's end
    message,    \* message[s]: sent by the client and not answered yet
    received,   \* session whose message is being handled, or NoSession
    sent        \* connections and messages so far

serverVars == <<sessions, pc, index, rc, received>>
kernelVars == <<client, server, message>>
vars == <<serverVars, cancel, kernelVars, sent>>

(* A request the handler serves, a Close, another type of message, and a   *)
(* request that does not parse                                             *)
Messages == {"request", "close", "other", "bad"}

Init ==
    /\ sessions = <<>>
    /\ pc = "scan"
    /\ index = 0
    /\ rc = "ok"
    /\ cancel = FALSE
    /\ client = [s \in Sessions |-> "absent"]
    /\ server = [s \in Sessions |-> "absent"]
    /\ message = [s \in Sessions |-> "none"]
    /\ received = NoSession
    /\ sent = 0
-------------------------------------------------------------------------------
(* The wait: svcWaitSynchronization reports the lowest signalled handle of *)
(* the array, or, when it had to block, the one that was signalled first.  *)
(* It looks at the handles before it looks at the cancel flag.             *)

Signalled(i) ==
    IF i = 0
    THEN \E s \in Sessions : server[s] = "queued"
    ELSE message[sessions[i]] # "none" \/ client[sessions[i]] = "gone"

Handles == 0 .. Len(sessions)

Serve(i) ==
    /\ index' = i
    /\ pc' = IF i = 0 THEN "accept" ELSE "receive"
    /\ UNCHANGED <<sessions, rc, received, cancel, kernelVars, sent>>

Scan ==
    /\ pc = "scan"
    /\ \E i \in Handles :
          /\ Signalled(i)
          /\ \A j \in 0 .. i - 1 : ~Signalled(j)
          /\ Serve(i)

Block ==
    /\ pc = "scan"
    /\ \A i \in Handles : ~Signalled(i)
    /\ ~cancel
    /\ pc' = "blocked"
    /\ UNCHANGED <<sessions, index, rc, received, cancel, kernelVars, sent>>

Wake ==
    /\ pc = "blocked"
    /\ \E i \in Handles : Signalled(i) /\ Serve(i)

(* mutant of Cancelled: the flag only reaches a thread that is waiting *)
CancelledOnlyWhileBlocked ==
    /\ cancel
    /\ pc = "blocked"
    /\ pc' = "exited"
    /\ UNCHANGED <<sessions, index, rc, received, cancel, kernelVars, sent>>

(* ProcessThreadFunc returns on Cancelled, and only then. *)
Cancelled ==
    /\ cancel
    /\ \/ pc = "blocked"
       \/ pc = "scan" /\ \A i \in Handles : ~Signalled(i)
    /\ pc' = "exited"
    /\ UNCHANGED <<sessions, index, rc, received, cancel, kernelVars, sent>>
-------------------------------------------------------------------------------
(* Closing the server's end: a client with a message in flight is told so. *)
CloseHandle(s) ==
    /\ server' = [server EXCEPT ![s] = IF client[s] = "gone" THEN "absent" ELSE "closed"]
    /\ client' = [client EXCEPT ![s] = IF client[s] = "gone" THEN "absent" ELSE client[s]]
    /\ message' = [message EXCEPT ![s] = "none"]

(* mutant of HasRoom: counts the port twice *)
HasRoomForOneLess == Len(sessions) + 1 < MaxSessions

(* _ipcServerAddSession: count < max, where max = max_sessions + 1 *)
HasRoom == Len(sessions) + 1 < MaxSessions + 1

(* _ipcServerProcessNewSession *)
Accept ==
    /\ pc = "accept"
    /\ \E s \in Sessions :
          /\ server[s] = "queued"
          /\ IF HasRoom
             THEN /\ sessions' = Append(sessions, s)
                  /\ server' = [server EXCEPT ![s] = "open"]
                  /\ UNCHANGED <<client, message>>
             ELSE /\ CloseHandle(s)
                  /\ UNCHANGED sessions
    /\ pc' = "scan"
    /\ index' = 0
    /\ UNCHANGED <<rc, received, cancel, sent>>

(* mutant of Without: the loop starts one too late *)
WithoutNext(i) ==
    [j \in 1 .. Len(sessions) - 1 |-> IF j <= i THEN sessions[j] ELSE sessions[j + 1]]

(* The loop of _ipcServerDeleteSession: the later handles move down *)
Without(i) ==
    [j \in 1 .. Len(sessions) - 1 |-> IF j < i THEN sessions[j] ELSE sessions[j + 1]]

DeleteSession ==
    /\ CloseHandle(sessions[index])
    /\ sessions' = Without(index)
    /\ pc' = "scan"
    /\ index' = 0
    /\ rc' = "ok"
    /\ received' = NoSession

(* mutant of Receive: ends the session at once when it receives a Close *)
ReceiveDeletesFirst ==
    /\ pc = "receive"
    /\ LET s == sessions[index] IN
       /\ received' = s
       /\ rc' = "ok"
       /\ pc' = "reply"
       /\ IF client[s] = "gone" \/ message[s] \in {"close", "bad"}
          THEN CloseHandle(s) /\ sessions' = Without(index)
          ELSE UNCHANGED <<sessions, kernelVars>>
    /\ UNCHANGED <<index, cancel, sent>>

(* mutant of Receive: a client that has gone is an error to go on after *)
ReceiveKeepsDeadSession ==
    /\ pc = "receive"
    /\ LET s == sessions[index] IN
       \/ /\ client[s] = "gone"
          /\ pc' = "scan"
          /\ index' = 0
          /\ UNCHANGED <<sessions, rc, received, kernelVars>>
       \/ /\ client[s] = "open" /\ message[s] = "bad"
          /\ DeleteSession
       \/ /\ client[s] = "open" /\ message[s] \in Messages \ {"bad"}
          /\ received' = s
          /\ rc' = IF message[s] = "close" THEN "close" ELSE "ok"
          /\ pc' = "reply"
          /\ UNCHANGED <<sessions, index, kernelVars>>
    /\ UNCHANGED <<cancel, sent>>

(* svcReplyAndReceive on one handle, then _ipcServerParseRequest: a client *)
(* that has gone or a request that does not parse ends the session without *)
(* a reply.                                                                *)
Receive ==
    /\ pc = "receive"
    /\ LET s == sessions[index] IN
       \/ /\ client[s] = "gone" \/ message[s] = "bad"
          /\ DeleteSession
       \/ /\ client[s] = "open" /\ message[s] \in Messages \ {"bad"}
          /\ received' = s
          /\ rc' = IF message[s] = "close" THEN "close" ELSE "ok"
          /\ pc' = "reply"
          /\ UNCHANGED <<sessions, index, kernelVars>>
    /\ UNCHANGED <<cancel, sent>>

(* The handler has run.  svcReplyAndReceive without handles and without    *)
(* waiting: it replies, and TimedOut is the success.  A client that has    *)
(* gone meanwhile, or a Close, ends the session.                           *)
Reply ==
    /\ pc = "reply"
    /\ LET s == sessions[index] IN
       \/ /\ client[s] = "gone"
          /\ DeleteSession
       \/ /\ client[s] = "open"
          /\ IF rc = "close"
             THEN DeleteSession
             ELSE /\ message' = [message EXCEPT ![s] = "none"]
                  /\ pc' = "scan"
                  /\ index' = 0
                  /\ rc' = "ok"
                  /\ received' = NoSession
                  /\ UNCHANGED <<sessions, client, server>>
    /\ UNCHANGED <<cancel, sent>>

(* ipcServerExit, after the thread has been joined; closing the port ends  *)
(* the sessions still queued on it.                                        *)
ServerExit ==
    /\ pc = "exited"
    /\ pc' = "closed"
    /\ sessions' = <<>>
    /\ LET ended == {s \in Sessions : server[s] \in {"queued", "open"}}
           freed == {s \in ended : client[s] = "gone"} IN
       /\ server' = [s \in Sessions |->
            IF s \in freed THEN "absent" ELSE IF s \in ended THEN "closed" ELSE server[s]]
       /\ client' = [s \in Sessions |-> IF s \in freed THEN "absent" ELSE client[s]]
       /\ message' = [s \in Sessions |-> IF s \in ended THEN "none" ELSE message[s]]
    /\ UNCHANGED <<index, rc, received, cancel, sent>>

(* IpcService::SetRunning(false), from the main thread *)
CancelSynchronization ==
    /\ ~cancel
    /\ cancel' = TRUE
    /\ UNCHANGED <<serverVars, kernelVars, sent>>
-------------------------------------------------------------------------------
(* The clients, and the kernel between them and the server                 *)

(* The port refuses more sessions than it was registered with. *)
Connect(s) ==
    /\ pc # "closed"
    /\ client[s] = "absent" /\ server[s] = "absent"
    /\ Cardinality({u \in Sessions : server[u] # "absent"}) < MaxSessions
    /\ client' = [client EXCEPT ![s] = "open"]
    /\ server' = [server EXCEPT ![s] = "queued"]
    /\ sent < MaxSent
    /\ sent' = sent + 1
    /\ UNCHANGED <<serverVars, cancel, message>>

Send(s) ==
    /\ client[s] = "open" /\ server[s] \in {"queued", "open"}
    /\ message[s] = "none"
    /\ sent < MaxSent
    /\ sent' = sent + 1
    /\ \E m \in Messages : message' = [message EXCEPT ![s] = m]
    /\ UNCHANGED <<serverVars, cancel, client, server>>

(* The client closes its end, or its process dies while it waits. *)
Disconnect(s) ==
    /\ client[s] = "open"
    /\ client' = [client EXCEPT ![s] = IF server[s] = "closed" THEN "absent" ELSE "gone"]
    /\ server' = [server EXCEPT ![s] = IF server[s] = "closed" THEN "absent" ELSE server[s]]
    /\ message' = [message EXCEPT ![s] = "none"]
    /\ UNCHANGED <<serverVars, cancel, sent>>

ServerStep ==
    Scan \/ Block \/ Wake \/ Cancelled \/ Accept \/ Receive \/ Reply \/ ServerExit

ClientStep == \E s \in Sessions : Connect(s) \/ Send(s) \/ Disconnect(s)

Next == ServerStep \/ CancelSynchronization \/ ClientStep

Spec == Init /\ [][Next]_vars

(* The server thread is scheduled whenever it can run. *)
FairSpec == Spec /\ WF_vars(ServerStep)
-------------------------------------------------------------------------------
Pcs == {"scan", "blocked", "accept", "receive", "reply", "exited", "closed"}

(* The type of every variable; the table never outgrows its array, and     *)
(* the index in hand always lies in it.                                    *)
TypeOK ==
    /\ sessions \in Seq(Sessions) /\ Len(sessions) <= MaxSessions
    /\ pc \in Pcs
    /\ index \in 0 .. Len(sessions)
    /\ rc \in {"ok", "close"}
    /\ received \in Sessions \cup {NoSession}
    /\ cancel \in BOOLEAN
    /\ client \in [Sessions -> {"absent", "open", "gone"}]
    /\ server \in [Sessions -> {"absent", "queued", "open", "closed"}]
    /\ message \in [Sessions -> Messages \cup {"none"}]
    /\ sent \in Nat

(* The table holds exactly the session handles the server has open, each   *)
(* once: taking one out of the middle loses, duplicates or leaks none, and *)
(* after ipcServerExit none is left.                                       *)
TableIsExact ==
    /\ \A i, j \in 1 .. Len(sessions) : sessions[i] = sessions[j] => i = j
    /\ {sessions[i] : i \in 1 .. Len(sessions)} = {s \in Sessions : server[s] = "open"}

(* The reply goes out on the handle the message came in on, which is still *)
(* at the same place of the table when the handler returns.                *)
ReplyGoesToSender ==
    pc = "reply" => index \in 1 .. Len(sessions) /\ sessions[index] = received

(* The limit of the port and the size of the table agree: a session the    *)
(* kernel lets in is never turned away for want of room.                   *)
NoSessionRefused ==
    [][\A s \in Sessions : server[s] = "queued"
          => server'[s] \in {"queued", "open"} \/ pc' = "closed"]_vars

(* Every message gets its answer, or the sender learns that the session    *)
(* ended: whatever the other clients do and wherever they die.  (They send *)
(* a bounded number of messages: the wait prefers low handles, and clients *)
(* that never pause on those could starve the others.)                     *)
MessagesAreAnswered ==
    \A s \in Sessions : message[s] # "none" ~> message[s] = "none"

(* The cancellation is not lost if it comes while the thread is busy: the  *)
(* next wait that would block ends with it, and the table is closed.       *)
CancelEndsServer == cancel ~> pc = "closed"
===============================================================================
