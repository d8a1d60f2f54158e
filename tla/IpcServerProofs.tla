---------------------------- MODULE IpcServerProofs ----------------------------
(***************************************************************************)
(* Proofs about module IpcServer: for any number of sessions and clients,  *)
(* any limit and any number of messages.                                   *)
(***************************************************************************)
EXTENDS IpcServer, FiniteSetTheorems, TLAPS

(* TypeOK without its bounds, which rest on the other invariants. *)
Types ==
    /\ sessions \in Seq(Sessions)
    /\ pc \in Pcs
    /\ index \in Nat
    /\ rc \in {"ok", "close"}
    /\ received \in Sessions \cup {NoSession}
    /\ cancel \in BOOLEAN
    /\ client \in [Sessions -> {"absent", "open", "gone"}]
    /\ server \in [Sessions -> {"absent", "queued", "open", "closed"}]
    /\ message \in [Sessions -> Messages \cup {"none"}]
    /\ sent \in Nat

(* index names a session of the table while one is being served. *)
IndexInHand ==
    IF pc \in {"receive", "reply"} THEN index \in 1 .. Len(sessions) ELSE index = 0

Open == {s \in Sessions : server[s] = "open"}
InUse == {s \in Sessions : server[s] # "absent"}

(* The kernel's limit on the sessions of the port. *)
PortLimit == Cardinality(InUse) <= MaxSessions

Inv == Types /\ TableIsExact /\ IndexInHand /\ ReplyGoesToSender /\ PortLimit
-------------------------------------------------------------------------------
(* Facts about the table.                                                  *)

LEMMA InUseFinite == IsFiniteSet(InUse)
BY SessionsAssumption, FS_Subset DEF InUse

(* The table has as many entries as there are open sessions. *)
LEMMA TableLength ==
    ASSUME Types, TableIsExact
    PROVE  Len(sessions) = Cardinality(Open)
<1> DEFINE I == 1 .. Len(sessions)
           f == [i \in I |-> sessions[i]]
<1>1. Len(sessions) \in Nat /\ \A i \in I : sessions[i] \in Sessions
    BY DEF Types
<1>2. f \in [I -> Open]
    BY DEF TableIsExact, Open
<1>3. \A i, j \in I : f[i] = f[j] => i = j
    BY DEF TableIsExact
<1>4. \A s \in Open : \E i \in I : f[i] = s
    BY DEF TableIsExact, Open
<1>5. f \in Bijection(I, Open)
    BY <1>2, <1>3, <1>4 DEF Bijection, Injection, Surjection, IsInjective
<1>6. ExistsBijection(I, Open)
    BY <1>5 DEF ExistsBijection
<1>7. IsFiniteSet(I) /\ Cardinality(I) = Len(sessions)
    BY <1>1, FS_Interval
<1> HIDE DEF I, f
<1> QED
    BY <1>6, <1>7, FS_Bijection

(* It never has more than the port admits ... *)
LEMMA TableBound ==
    ASSUME Types, TableIsExact, PortLimit
    PROVE  Len(sessions) <= MaxSessions
<1>1. Open \in SUBSET InUse
    BY DEF Open, InUse
<1>2. Cardinality(Open) <= Cardinality(InUse)
    BY <1>1, InUseFinite, FS_Subset
<1>3. Cardinality(Open) \in Nat /\ Cardinality(InUse) \in Nat
    BY <1>1, InUseFinite, FS_Subset, FS_CardinalityType
<1> QED
    BY <1>2, <1>3, TableLength, MaxAssumption DEF PortLimit

(* ... and has room for every session that is queued on it. *)
LEMMA RoomForQueued ==
    ASSUME Types, TableIsExact, PortLimit,
           NEW s \in Sessions, server[s] = "queued"
    PROVE  HasRoom
<1>1. Open \cup {s} \in SUBSET InUse /\ Open \in SUBSET InUse /\ s \notin Open
    BY DEF Open, InUse
<1>2. IsFiniteSet(Open) /\ Cardinality(Open) \in Nat /\ Cardinality(InUse) \in Nat
    BY <1>1, InUseFinite, FS_Subset, FS_CardinalityType
<1>3. Cardinality(Open \cup {s}) = Cardinality(Open) + 1
    BY <1>1, <1>2, FS_AddElement
<1>4. Cardinality(Open \cup {s}) <= Cardinality(InUse)
    BY <1>1, InUseFinite, FS_Subset
<1> QED
    BY <1>2, <1>3, <1>4, TableLength, MaxAssumption DEF PortLimit, HasRoom

(* A step that only frees sessions keeps the limit. *)
LEMMA LimitKept ==
    ASSUME PortLimit,
           \A s \in Sessions : server[s] = "absent" => server'[s] = "absent"
    PROVE  PortLimit'
<1>1. InUse' \in SUBSET InUse
    BY DEF InUse
<1>2. Cardinality(InUse') <= Cardinality(InUse)
    BY <1>1, InUseFinite, FS_Subset
<1>3. Cardinality(InUse') \in Nat /\ Cardinality(InUse) \in Nat
    BY <1>1, InUseFinite, FS_Subset, FS_CardinalityType
<1> QED
    BY <1>2, <1>3, MaxAssumption DEF PortLimit

(* Taking a session out of the table leaves all the others in it, once. *)
LEMMA DeleteKeeps ==
    ASSUME Types, TableIsExact, PortLimit, index \in 1 .. Len(sessions), DeleteSession,
           UNCHANGED <<cancel, sent>>
    PROVE  Types' /\ TableIsExact' /\ IndexInHand' /\ ReplyGoesToSender' /\ PortLimit'
<1> DEFINE n == Len(sessions)
           d == sessions[index]
<1>1. n \in Nat /\ n >= 1 /\ d \in Sessions /\ index \in Nat
    BY DEF Types
<1>2. sessions' = Without(index) /\ Without(index) \in [1 .. n - 1 -> Sessions]
    BY <1>1 DEF DeleteSession, Without, Types
<1>3. sessions' \in Seq(Sessions) /\ Len(sessions') = n - 1
    BY <1>1, <1>2
<1>4. /\ server' \in [Sessions -> {"absent", "queued", "open", "closed"}]
      /\ server'[d] # "open"
      /\ \A s \in Sessions \ {d} : server'[s] = server[s]
      /\ server[d] = "open"
    BY <1>1 DEF DeleteSession, CloseHandle, Types, TableIsExact
<1>5. /\ client' \in [Sessions -> {"absent", "open", "gone"}]
      /\ message' \in [Sessions -> Messages \cup {"none"}]
    BY <1>1 DEF DeleteSession, CloseHandle, Types
<1>6. Types'
    BY <1>3, <1>4, <1>5 DEF DeleteSession, Types, Pcs
<1>7. \A j \in 1 .. n - 1 : sessions'[j] = sessions[IF j < index THEN j ELSE j + 1]
    BY <1>1, <1>2 DEF Without
<1>8. \A i, j \in 1 .. n - 1 : sessions'[i] = sessions'[j] => i = j
    BY <1>1, <1>7 DEF TableIsExact
<1>9. \A j \in 1 .. n - 1 : sessions'[j] # d /\ server'[sessions'[j]] = "open"
                            /\ sessions'[j] \in Sessions
    <2> SUFFICES ASSUME NEW j \in 1 .. n - 1
                 PROVE  sessions'[j] # d /\ server'[sessions'[j]] = "open"
                        /\ sessions'[j] \in Sessions
        OBVIOUS
    <2> DEFINE k == IF j < index THEN j ELSE j + 1
    <2>1. k \in 1 .. n /\ k # index /\ sessions'[j] = sessions[k]
        BY <1>1, <1>7
    <2>2. sessions[k] # d /\ sessions[k] \in Sessions /\ server[sessions[k]] = "open"
        BY <1>1, <2>1 DEF TableIsExact
    <2> QED
        BY <1>4, <2>1, <2>2
<1>10. \A s \in Sessions : server'[s] = "open" => \E j \in 1 .. n - 1 : sessions'[j] = s
    <2> SUFFICES ASSUME NEW s \in Sessions, server'[s] = "open"
                 PROVE  \E j \in 1 .. n - 1 : sessions'[j] = s
        OBVIOUS
    <2>1. s # d /\ server[s] = "open"
        BY <1>4
    <2>2. PICK k \in 1 .. n : sessions[k] = s
        BY <2>1 DEF TableIsExact
    <2>3. k # index
        BY <2>1, <2>2
    <2> DEFINE j == IF k < index THEN k ELSE k - 1
    <2>4. j \in 1 .. n - 1 /\ sessions'[j] = s
        BY <1>1, <1>7, <2>2, <2>3
    <2> QED
        BY <2>4
<1>11. TableIsExact'
    BY <1>3, <1>8, <1>9, <1>10 DEF TableIsExact
<1>12. IndexInHand' /\ ReplyGoesToSender'
    BY DEF DeleteSession, IndexInHand, ReplyGoesToSender
<1>13. PortLimit'
    BY <1>4, LimitKept
<1> QED
    BY <1>6, <1>11, <1>12, <1>13
-------------------------------------------------------------------------------
(* Every step keeps the invariant.                                         *)

LEMMA InvInit == Init => Inv
<1> SUFFICES ASSUME Init PROVE Inv
    OBVIOUS
<1>1. Types
    <2>1. sessions \in Seq(Sessions) /\ index \in Nat /\ sent \in Nat
        BY DEF Init
    <2>2. /\ client \in [Sessions -> {"absent", "open", "gone"}]
          /\ server \in [Sessions -> {"absent", "queued", "open", "closed"}]
          /\ message \in [Sessions -> Messages \cup {"none"}]
        BY DEF Init
    <2> QED
        BY <2>1, <2>2 DEF Init, Types, Pcs
<1>2. TableIsExact
    <2>1. 1 .. Len(sessions) = {}
        BY DEF Init
    <2>2. {s \in Sessions : server[s] = "open"} = {}
        BY DEF Init
    <2> QED
        BY <2>1, <2>2 DEF TableIsExact
<1>3. IndexInHand /\ ReplyGoesToSender
    BY DEF Init, IndexInHand, ReplyGoesToSender
<1>4. InUse = {}
    BY DEF Init, InUse
<1>5. PortLimit
    BY <1>4, FS_EmptySet, MaxAssumption DEF PortLimit
<1> QED
    BY <1>1, <1>2, <1>3, <1>5 DEF Inv

(* A session that was queued goes to the end of the table. *)
LEMMA AcceptKeeps ==
    ASSUME Inv, Accept
    PROVE  Inv'
<1>1. PICK s \in Sessions :
          /\ server[s] = "queued"
          /\ IF HasRoom
             THEN /\ sessions' = Append(sessions, s)
                  /\ server' = [server EXCEPT ![s] = "open"]
                  /\ UNCHANGED <<client, message>>
             ELSE /\ CloseHandle(s)
                  /\ UNCHANGED sessions
    BY DEF Accept
<1>2. HasRoom
    BY <1>1, RoomForQueued DEF Inv
<1>3. /\ sessions' = Append(sessions, s)
      /\ server' = [server EXCEPT ![s] = "open"]
      /\ UNCHANGED <<client, message>>
    BY <1>1, <1>2
<1> DEFINE n == Len(sessions)
<1>4. /\ n \in Nat /\ Len(sessions') = n + 1 /\ sessions' \in Seq(Sessions)
      /\ sessions'[n + 1] = s /\ \A i \in 1 .. n : sessions'[i] = sessions[i]
    BY <1>3 DEF Inv, Types
<1>5. server' \in [Sessions -> {"absent", "queued", "open", "closed"}]
      /\ \A u \in Sessions : server'[u] = IF u = s THEN "open" ELSE server[u]
    BY <1>3 DEF Inv, Types
<1>6. Types'
    BY <1>3, <1>4, <1>5 DEF Inv, Types, Accept, Pcs
<1>7. \A i \in 1 .. n : sessions[i] # s
    BY <1>1 DEF Inv, TableIsExact
<1>8. \A i, j \in 1 .. n + 1 : sessions'[i] = sessions'[j] => i = j
    BY <1>4, <1>7 DEF Inv, TableIsExact
<1>9. \A i \in 1 .. n + 1 : sessions'[i] \in Sessions /\ server'[sessions'[i]] = "open"
    BY <1>4, <1>5 DEF Inv, TableIsExact
<1>10. \A u \in Sessions : server'[u] = "open" => \E i \in 1 .. n + 1 : sessions'[i] = u
    <2> SUFFICES ASSUME NEW u \in Sessions, server'[u] = "open"
                 PROVE  \E i \in 1 .. n + 1 : sessions'[i] = u
        OBVIOUS
    <2>1. CASE u = s
        BY <1>4, <2>1
    <2>2. CASE u # s
        <3>1. PICK i \in 1 .. n : sessions[i] = u
            BY <1>5, <2>2 DEF Inv, TableIsExact
        <3> QED
            BY <1>4, <3>1
    <2> QED
        BY <2>1, <2>2
<1>11. TableIsExact'
    <2>1. 1 .. Len(sessions') = 1 .. n + 1
        BY <1>4
    <2>2. \A i, j \in 1 .. Len(sessions') : sessions'[i] = sessions'[j] => i = j
        BY <1>8, <2>1
    <2>3. {sessions'[i] : i \in 1 .. Len(sessions')} = {u \in Sessions : server'[u] = "open"}
        BY <1>9, <1>10, <2>1
    <2> QED
        BY <2>2, <2>3 DEF TableIsExact
<1>12. IndexInHand' /\ ReplyGoesToSender'
    BY DEF Accept, IndexInHand, ReplyGoesToSender
<1>13. PortLimit'
    BY <1>1, <1>5, LimitKept DEF Inv
<1> QED
    BY <1>6, <1>11, <1>12, <1>13 DEF Inv

(* The kernel admits a session only below the limit. *)
LEMMA ConnectKeeps ==
    ASSUME Inv, NEW s \in Sessions, Connect(s)
    PROVE  Inv'
<1>1. /\ server' \in [Sessions -> {"absent", "queued", "open", "closed"}]
      /\ \A u \in Sessions : server'[u] = IF u = s THEN "queued" ELSE server[u]
      /\ server[s] = "absent"
    BY DEF Connect, Inv, Types
<1>2. Types'
    BY <1>1 DEF Connect, Inv, Types, serverVars
<1>3. Open' = Open
    BY <1>1 DEF Open
<1>4. TableIsExact' /\ IndexInHand' /\ ReplyGoesToSender'
    BY <1>3 DEF Connect, Inv, TableIsExact, Open, IndexInHand, ReplyGoesToSender, serverVars
<1>5. InUse' = InUse \cup {s} /\ s \notin InUse
    BY <1>1 DEF InUse
<1>6. Cardinality(InUse') = Cardinality(InUse) + 1 /\ Cardinality(InUse) \in Nat
    BY <1>5, InUseFinite, FS_AddElement, FS_CardinalityType
<1>7. Cardinality(InUse) < MaxSessions
    BY DEF Connect, InUse
<1>8. PortLimit'
    BY <1>6, <1>7, MaxAssumption DEF PortLimit
<1> QED
    BY <1>2, <1>4, <1>8 DEF Inv

(* The other steps of the clients leave the table and the open handles.    *)
LEMMA ClientKeeps ==
    ASSUME Inv, NEW s \in Sessions, Send(s) \/ Disconnect(s)
    PROVE  Inv'
<1>1. CASE Send(s)
    <2>1. Types'
        BY <1>1 DEF Send, Inv, Types, serverVars
    <2>2. TableIsExact' /\ IndexInHand' /\ ReplyGoesToSender' /\ PortLimit'
        BY <1>1 DEF Send, Inv, TableIsExact, IndexInHand, ReplyGoesToSender, PortLimit,
                    InUse, serverVars
    <2> QED
        BY <2>1, <2>2 DEF Inv
<1>2. CASE Disconnect(s)
    <2>1. /\ server' \in [Sessions -> {"absent", "queued", "open", "closed"}]
          /\ \A u \in Sessions :
                server'[u] = IF u = s /\ server[s] = "closed" THEN "absent" ELSE server[u]
        BY <1>2 DEF Disconnect, Inv, Types
    <2>2. Types'
        BY <1>2, <2>1 DEF Disconnect, Inv, Types, serverVars
    <2>3. Open' = Open
        BY <2>1 DEF Open
    <2>4. TableIsExact' /\ IndexInHand' /\ ReplyGoesToSender'
        BY <1>2, <2>3 DEF Disconnect, Inv, TableIsExact, Open, IndexInHand,
                          ReplyGoesToSender, serverVars
    <2>5. PortLimit'
        BY <2>1, LimitKept DEF Inv
    <2> QED
        BY <2>2, <2>4, <2>5 DEF Inv
<1> QED
    BY <1>1, <1>2

(* ipcServerExit closes every handle of the table. *)
LEMMA ExitKeeps ==
    ASSUME Inv, ServerExit
    PROVE  Inv'
<1>1. /\ sessions' = <<>> /\ pc' = "closed"
      /\ UNCHANGED <<index, rc, received, cancel, sent>>
      /\ index = 0
    BY DEF ServerExit, Inv, IndexInHand
<1> DEFINE ended == {s \in Sessions : server[s] \in {"queued", "open"}}
           freed == {s \in ended : client[s] = "gone"}
<1>2. /\ server' = [s \in Sessions |->
            IF s \in freed THEN "absent" ELSE IF s \in ended THEN "closed" ELSE server[s]]
      /\ client' = [s \in Sessions |-> IF s \in freed THEN "absent" ELSE client[s]]
      /\ message' = [s \in Sessions |-> IF s \in ended THEN "none" ELSE message[s]]
    BY DEF ServerExit
<1>3. /\ \A s \in Sessions : server'[s] # "open"
      /\ \A s \in Sessions : server[s] = "absent" => server'[s] = "absent"
    BY <1>2
<1>4. Types'
    BY <1>1, <1>2 DEF Inv, Types, Pcs
<1>5. TableIsExact'
    <2>1. 1 .. Len(sessions') = {}
        BY <1>1
    <2>2. {s \in Sessions : server'[s] = "open"} = {}
        BY <1>3
    <2> QED
        BY <2>1, <2>2 DEF TableIsExact
<1>6. IndexInHand' /\ ReplyGoesToSender'
    BY <1>1 DEF IndexInHand, ReplyGoesToSender
<1>7. PortLimit'
    BY <1>3, LimitKept DEF Inv
<1> QED
    BY <1>4, <1>5, <1>6, <1>7 DEF Inv

(* Handling a message ends in a reply or with the session taken out. *)
LEMMA ServiceKeeps ==
    ASSUME Inv, Receive \/ Reply
    PROVE  Inv'
<1>1. index \in 1 .. Len(sessions) /\ UNCHANGED <<cancel, sent>>
    BY DEF Inv, IndexInHand, Receive, Reply
<1>2. CASE DeleteSession
    BY <1>1, <1>2, DeleteKeeps DEF Inv
<1>3. CASE Receive /\ ~DeleteSession
    <2>1. /\ received' = sessions[index] /\ pc' = "reply" /\ rc' \in {"ok", "close"}
          /\ UNCHANGED <<sessions, index, kernelVars>>
        BY <1>3 DEF Receive
    <2>2. sessions[index] \in Sessions
        BY <1>1 DEF Inv, Types
    <2>3. Types'
        BY <1>1, <2>1, <2>2 DEF Inv, Types, Pcs, kernelVars
    <2>4. TableIsExact' /\ PortLimit'
        BY <2>1 DEF Inv, TableIsExact, PortLimit, InUse, kernelVars
    <2>5. IndexInHand' /\ ReplyGoesToSender'
        BY <1>1, <2>1 DEF IndexInHand, ReplyGoesToSender
    <2> QED
        BY <2>3, <2>4, <2>5 DEF Inv
<1>4. CASE Reply /\ ~DeleteSession
    <2>1. /\ message' = [message EXCEPT ![sessions[index]] = "none"]
          /\ pc' = "scan" /\ index' = 0 /\ rc' = "ok" /\ received' = NoSession
          /\ UNCHANGED <<sessions, client, server>>
        BY <1>4 DEF Reply
    <2>2. Types'
        BY <1>1, <2>1 DEF Inv, Types, Pcs
    <2>3. TableIsExact' /\ PortLimit'
        BY <2>1 DEF Inv, TableIsExact, PortLimit, InUse
    <2>4. IndexInHand' /\ ReplyGoesToSender'
        BY <2>1 DEF IndexInHand, ReplyGoesToSender
    <2> QED
        BY <2>2, <2>3, <2>4 DEF Inv
<1> QED
    BY <1>2, <1>3, <1>4

(* Waiting only chooses an index of the table. *)
LEMMA WaitKeeps ==
    ASSUME Inv, Scan \/ Block \/ Wake \/ Cancelled
    PROVE  Inv'
<1>1. UNCHANGED <<sessions, rc, received, cancel, kernelVars, sent>>
    BY DEF Scan, Block, Wake, Cancelled, Serve
<1>2. TableIsExact' /\ PortLimit'
    BY <1>1 DEF Inv, TableIsExact, PortLimit, InUse, kernelVars
<1>3. Len(sessions) \in Nat
    BY DEF Inv, Types
<1>4. CASE Scan \/ Wake
    <2>1. PICK i \in 0 .. Len(sessions) : Serve(i)
        BY <1>4 DEF Scan, Wake, Handles
    <2>2. Types'
        BY <1>1, <1>3, <2>1 DEF Serve, Inv, Types, Pcs, kernelVars
    <2>3. IndexInHand' /\ ReplyGoesToSender'
        BY <1>1, <1>3, <2>1 DEF Serve, IndexInHand, ReplyGoesToSender
    <2> QED
        BY <1>2, <2>2, <2>3 DEF Inv
<1>5. CASE Block \/ Cancelled
    <2>1. pc \in {"scan", "blocked"} /\ pc' \in {"blocked", "exited"} /\ index' = index
        BY <1>5 DEF Block, Cancelled
    <2>2. Types'
        BY <1>1, <2>1 DEF Inv, Types, Pcs, kernelVars
    <2>3. IndexInHand' /\ ReplyGoesToSender'
        BY <2>1 DEF Inv, IndexInHand, ReplyGoesToSender
    <2> QED
        BY <1>2, <2>2, <2>3 DEF Inv
<1> QED
    BY <1>4, <1>5

LEMMA InvNext == Inv /\ [Next]_vars => Inv'
<1> SUFFICES ASSUME Inv, [Next]_vars PROVE Inv'
    OBVIOUS
<1>1. CASE Scan \/ Block \/ Wake \/ Cancelled
    BY <1>1, WaitKeeps
<1>2. CASE Accept
    BY <1>2, AcceptKeeps
<1>3. CASE Receive \/ Reply
    BY <1>3, ServiceKeeps
<1>4. CASE ServerExit
    BY <1>4, ExitKeeps
<1>5. CASE CancelSynchronization
    BY <1>5 DEF CancelSynchronization, Inv, Types, TableIsExact, IndexInHand,
                ReplyGoesToSender, PortLimit, InUse, serverVars, kernelVars
<1>6. CASE ClientStep
    <2>1. PICK s \in Sessions : Connect(s) \/ Send(s) \/ Disconnect(s)
        BY <1>6 DEF ClientStep
    <2> QED
        BY <2>1, ConnectKeeps, ClientKeeps
<1>7. CASE UNCHANGED vars
    BY <1>7 DEF vars, serverVars, kernelVars, Inv, Types, TableIsExact, IndexInHand,
                ReplyGoesToSender, PortLimit, InUse
<1> QED
    BY <1>1, <1>2, <1>3, <1>4, <1>5, <1>6, <1>7 DEF Next, ServerStep

LEMMA Invariance == Spec => []Inv
<1> QED
    BY InvInit, InvNext, PTL DEF Spec
-------------------------------------------------------------------------------
(* The theorems                                                            *)

(* The table never outgrows the array of ipcServerInit, and the index the  *)
(* server works with always names a handle of the table.                   *)
THEOREM TypeCorrect == Spec => []TypeOK
<1>1. Inv => TypeOK
    <2> SUFFICES ASSUME Inv PROVE TypeOK
        OBVIOUS
    <2>1. Len(sessions) <= MaxSessions
        BY TableBound DEF Inv
    <2>2. Len(sessions) \in Nat /\ index \in 0 .. Len(sessions)
        BY DEF Inv, Types, IndexInHand
    <2> QED
        BY <2>1, <2>2 DEF Inv, Types, TypeOK
<1> QED
    BY <1>1, Invariance, PTL

(* Deleting sessions out of the middle of the table, in any order and for  *)
(* any number of sessions, loses, duplicates and leaks no handle.          *)
THEOREM TableExact == Spec => []TableIsExact
<1>1. Inv => TableIsExact
    BY DEF Inv
<1> QED
    BY <1>1, Invariance, PTL

(* The reply always goes out on the handle the message came in on. *)
THEOREM ReplyToSender == Spec => []ReplyGoesToSender
<1>1. Inv => ReplyGoesToSender
    BY DEF Inv
<1> QED
    BY <1>1, Invariance, PTL

(* Whatever the limit, the kernel and the table agree on it: no session    *)
(* that was let in is turned away by _ipcServerAddSession.                 *)
THEOREM NoRefusal == Spec => NoSessionRefused
<1> DEFINE Kept == \A s \in Sessions : server[s] = "queued"
                     => server'[s] \in {"queued", "open"} \/ pc' = "closed"
<1>1. Inv /\ [Next]_vars => [Kept]_vars
    <2> SUFFICES ASSUME Inv, Next,
                        NEW s \in Sessions, server[s] = "queued", pc' # "closed"
                 PROVE  server'[s] \in {"queued", "open"}
        OBVIOUS
    <2>1. CASE Scan \/ Block \/ Wake \/ Cancelled \/ CancelSynchronization
        BY <2>1 DEF Scan, Block, Wake, Cancelled, Serve, CancelSynchronization, kernelVars
    <2>2. CASE Accept
        <3>1. HasRoom
            BY RoomForQueued DEF Inv
        <3> QED
            BY <2>2, <3>1 DEF Accept, Inv, Types
    <2>3. CASE Receive \/ Reply
        <3>1. index \in 1 .. Len(sessions)
            BY <2>3 DEF Inv, IndexInHand, Receive, Reply
        <3>2. server[sessions[index]] = "open"
            BY <3>1 DEF Inv, TableIsExact
        <3>3. server'[s] = server[s]
            BY <2>3, <3>2 DEF Receive, Reply, DeleteSession, CloseHandle, kernelVars, Inv, Types
        <3> QED
            BY <3>3
    <2>4. CASE ServerExit
        BY <2>4 DEF ServerExit
    <2>5. CASE ClientStep
        BY <2>5 DEF ClientStep, Connect, Send, Disconnect, Inv, Types
    <2> QED
        BY <2>1, <2>2, <2>3, <2>4, <2>5 DEF Next, ServerStep
<1> QED
    BY <1>1, Invariance, PTL DEF Spec, NoSessionRefused
===============================================================================
