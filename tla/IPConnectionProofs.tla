------------------------ MODULE IPConnectionProofs ------------------------
(***************************************************************************)
(* IPConnection for any threads, connections, contexts and losses, and for *)
(* every choice of when the daemon refuses.  socket_lock is held exactly   *)
(* by the thread that is inside one of its sections, and the probe thread  *)
(* that runs is the one the object knows and belongs to the open socket:   *)
(* from these follow that no socket is lost and that a probe thread never  *)
(* outlives its connection.                                                *)
(***************************************************************************)
EXTENDS IPConnection, TLAPS

UserSections == {"attempt", "announce", "cleanup", "disconnect_probe", "send_probe",
                 "disconnect_receive", "send_receive"}
CallbackSections == {"close_probe", "retry_attempt", "retry_announce"}

\* Who is inside a section of socket_lock holds it; a context that was not made
\* has no thread.
LockOwned ==
  /\ \A u \in Users : pc[u] \in UserSections <=> socket_lock = u
  /\ \A k \in Contexts : cb[k] \in CallbackSections <=> socket_lock = k
  /\ \A k \in Contexts : k > contexts => cb[k] = "new"

\* The open socket is the current one, and only its probe thread runs.
SocketKnown ==
  /\ \A c \in Conns : local[c] \in {"open", "shutdown"} <=> c = socket
  /\ \A c \in Conns : prb[c] \in {"wait", "report"} => c = socket /\ c = probe_thread

\* What the holder of socket_lock relies on.
Phases ==
  /\ \A u \in Users : pc[u] = "attempt" => socket = 0
  /\ \A u \in Users : pc[u] \in {"disconnect_probe", "send_probe", "disconnect_receive",
                                 "send_receive"} => socket # 0
  /\ \A u \in Users : pc[u] \in {"disconnect_receive", "send_receive"} => probe_thread = 0
  /\ \A k \in Contexts : cb[k] = "retry_attempt" => socket = 0
  /\ \A k \in Contexts : cb[k] = "close_probe" => socket # 0

SafeInv == LockOwned /\ SocketKnown /\ Phases
ConnectionInv == IPConnectionTypeOK /\ SafeInv

LEMMA Bounds == /\ MaxOps \in Nat /\ MaxConns \in Nat /\ MaxContexts \in Nat
                /\ 0 \notin Conns /\ 0 \notin Contexts
  BY IPConnectionAssumption DEF Conns, Contexts

\* The messages that are put into a queue.
LEMMA MessageTypes ==
  /\ EXIT \in Messages /\ CONNECTED \in Messages
  /\ \A reason \in {"REQUEST", "ERROR"}, id \in 0 .. MaxConns : DISCONNECTED(reason, id) \in Messages
  BY Bounds DEF EXIT, CONNECTED, DISCONNECTED, Messages

\* A message is appended to the queue of its context, or to none.
LEMMA PutTypes ==
  ASSUME queue \in [Contexts -> Seq(Messages)], NEW k, NEW m \in Messages, Put(k, m)
  PROVE  queue' \in [Contexts -> Seq(Messages)]
<1>1. queue' = [queue EXCEPT ![k] = Append(queue[k], m)]
  BY DEF Put
<1>2. ASSUME NEW j \in Contexts PROVE Append(queue[j], m) \in Seq(Messages)
  BY <1>2
<1>3. QED BY <1>1, <1>2

---------------------------------------------------------------------------
(* Types.                                                                  *)

LEMMA Update ==
  ASSUME NEW S, NEW V, NEW f \in [S -> V], NEW i, NEW v \in V
  PROVE  [f EXCEPT ![i] = v] \in [S -> V]
  OBVIOUS

LEMMA UpdateInside ==
  ASSUME NEW S, NEW V, NEW f \in [S -> V], NEW i, NEW v, i \in S => v \in V
  PROVE  [f EXCEPT ![i] = v] \in [S -> V]
  OBVIOUS

\* A callback thread moves from label to label.
CbLabels == {"new", "get", "close", "close_probe", "notify", "pending", "retry",
             "retry_attempt", "retry_announce", "ended"}

\* And a thread of the application.
UserLabels == {"idle", "connect", "disconnect", "send", "attempt", "announce", "cleanup",
               "disconnect_probe", "send_probe", "disconnect_receive", "send_receive",
               "exit", "join"}

\* The callback context that connect_unlocked makes, or finds.
LEMMA ContextTypes ==
  ASSUME IPConnectionTypeOK, NEW k, NEW label, k = 0 \/ label \in CbLabels, WithContext(k, label)
  PROVE  /\ contexts' \in 0 .. MaxContexts /\ callback' \in 0 .. MaxContexts
         /\ cb' \in [Contexts -> CbLabels]
<1> DEFINE moved == IF k = 0 THEN cb ELSE [cb EXCEPT ![k] = label]
<1>1. cb \in [Contexts -> CbLabels]
  BY DEF IPConnectionTypeOK, CbLabels
<1>2. moved \in [Contexts -> CbLabels]
  BY <1>1, Update
<1>3. CASE callback = 0
  <2>1. /\ contexts < MaxContexts /\ contexts' = contexts + 1 /\ callback' = contexts + 1
        /\ cb' = [moved EXCEPT ![contexts + 1] = "get"]
    BY <1>3 DEF WithContext
  <2>2. cb' \in [Contexts -> CbLabels]
    <3> HIDE DEF moved
    <3> QED BY <1>2, <2>1, Update DEF CbLabels
  <2>3. contexts' \in 0 .. MaxContexts /\ callback' \in 0 .. MaxContexts
    <3> HIDE DEF moved
    <3> QED BY <2>1, Bounds DEF IPConnectionTypeOK
  <2>4. QED BY <2>2, <2>3
<1>4. CASE callback # 0
  BY <1>2, <1>4 DEF WithContext, IPConnectionTypeOK
<1>5. QED BY <1>3, <1>4

\* The connection that connect_unlocked establishes.
LEMMA EstablishTypes ==
  ASSUME IPConnectionTypeOK, Establish
  PROVE  /\ socket' \in 0 .. MaxConns /\ socket_id' \in 0 .. MaxConns
         /\ local' \in [Conns -> {"new", "open", "shutdown", "closed"}]
         /\ prb' \in [Conns -> {"new", "wait", "report", "ended"}]
         /\ rcv' \in [Conns -> {"new", "loop", "recv", "allow", "report", "ended"}]
         /\ probe_thread' \in 0 .. MaxConns /\ receive_thread' \in 0 .. MaxConns
         /\ receive_flag' \in BOOLEAN /\ UNCHANGED <<peer, probe_stop, rcvOn>>
<1>1. local' \in [Conns -> {"new", "open", "shutdown", "closed"}]
  BY Update DEF IPConnectionTypeOK, Establish
<1>2. prb' \in [Conns -> {"new", "wait", "report", "ended"}]
  BY Update DEF IPConnectionTypeOK, Establish
<1>3. rcv' \in [Conns -> {"new", "loop", "recv", "allow", "report", "ended"}]
  BY Update DEF IPConnectionTypeOK, Establish
<1>4. QED BY <1>1, <1>2, <1>3, Bounds DEF IPConnectionTypeOK, Establish

\* connect.
LEMMA ConnectTypes ==
  ASSUME IPConnectionTypeOK, NEW u \in Users,
         ConnectLocks(u) \/ ConnectOk(u) \/ ConnectRefused(u) \/ ConnectCleanup(u) \/ ConnectAnnounces(u)
  PROVE  IPConnectionTypeOK'
<1>1. CASE ConnectLocks(u)
  <2>1. PICK label \in {"idle", "attempt"} : pc' = [pc EXCEPT ![u] = label]
    BY <1>1 DEF ConnectLocks, Goto
  <2>2. /\ socket_lock' \in Users \cup Contexts \cup {NoOne}
        /\ UNCHANGED <<sockVars, peer, rcvVars, prbVars, queue, cbId, autoVars, taken, ops>>
    BY <1>1 DEF ConnectLocks, IPConnectionTypeOK
  <2>3. /\ contexts' \in 0 .. MaxContexts /\ callback' \in 0 .. MaxContexts
        /\ cb' \in [Contexts -> CbLabels]
    <3>1. CASE UNCHANGED <<callback, contexts, cb>>
      BY <3>1 DEF IPConnectionTypeOK, CbLabels
    <3>2. CASE WithContext(0, "")
      BY <3>2, ContextTypes
    <3>3. QED BY <1>1, <3>1, <3>2 DEF ConnectLocks
  <2>4. QED BY <2>1, <2>2, <2>3
    DEF IPConnectionTypeOK, CbLabels, sockVars, rcvVars, prbVars, autoVars
<1>2. CASE ConnectOk(u)
  <2>1. /\ pc' = [pc EXCEPT ![u] = "announce"]
        /\ UNCHANGED <<socket_lock, cbVars, autoVars, taken, ops>>
    BY <1>2 DEF ConnectOk, Goto
  <2>2. Establish
    BY <1>2 DEF ConnectOk
  <2>3. /\ IPConnectionTypeOK
        /\ UNCHANGED <<socket_lock, callback, contexts, queue, cb, cbId, auto_reconnect,
                       auto_reconnect_allowed, auto_reconnect_pending, taken, ops>>
    BY <2>1 DEF cbVars, autoVars
  <2>4. pc' \in [Users -> UserLabels]
    BY <2>1 DEF IPConnectionTypeOK, UserLabels
  <2>5. QED BY <2>2, <2>3, <2>4, EstablishTypes, SMTT(30) DEF IPConnectionTypeOK, UserLabels
<1>3. CASE ConnectRefused(u)
  BY <1>3, Bounds, MessageTypes, PutTypes
  DEF ConnectRefused, IPConnectionTypeOK, Goto, sockVars, rcvVars, prbVars, autoVars
<1>4. CASE ConnectCleanup(u)
  BY <1>4, Bounds
  DEF ConnectCleanup, IPConnectionTypeOK, Goto, sockVars, rcvVars, prbVars, autoVars
<1>5. CASE ConnectAnnounces(u)
  BY <1>5, MessageTypes, PutTypes
  DEF ConnectAnnounces, IPConnectionTypeOK, Goto, Announce, sockVars, rcvVars, prbVars
<1>6. QED BY <1>1, <1>2, <1>3, <1>4, <1>5

\* disconnect and send.
LEMMA DisconnectTypes ==
  ASSUME IPConnectionTypeOK, NEW u \in Users,
         DisconnectLocks(u) \/ SendLocks(u) \/ JoinProbe(u) \/ JoinReceive(u) \/ Exit(u) \/ Join(u)
  PROVE  IPConnectionTypeOK'
<1>1. CASE DisconnectLocks(u)
  <2>1. /\ auto_reconnect_allowed' = FALSE /\ auto_reconnect_pending' = FALSE
        /\ UNCHANGED <<sockVars, peer, rcvVars, probe_thread, prb, contexts, queue, cb, cbId, ops,
                       auto_reconnect>>
    BY <1>1 DEF DisconnectLocks
  <2>2. PICK label \in {"exit", "idle", "disconnect_probe"} : pc' = [pc EXCEPT ![u] = label]
    BY <1>1 DEF DisconnectLocks, Goto
  <2>3. \/ taken' = taken /\ callback' = callback
        \/ taken' = [taken EXCEPT ![u] = callback] /\ callback' = 0
    BY <1>1 DEF DisconnectLocks
  <2>4. \/ UNCHANGED <<socket_lock, probe_stop>>
        \/ socket_lock' = u /\ probe_stop' = [probe_stop EXCEPT ![socket] = TRUE]
    BY <1>1 DEF DisconnectLocks
  <2>5. taken' \in [Users -> 0 .. MaxContexts] /\ callback' \in 0 .. MaxContexts
    <3>1. /\ taken \in [Users -> 0 .. MaxContexts] /\ callback \in 0 .. MaxContexts
          /\ 0 \in 0 .. MaxContexts
      BY Bounds DEF IPConnectionTypeOK
    <3>2. QED BY <2>3, <3>1, Update
  <2>6. socket_lock' \in Users \cup Contexts \cup {NoOne}
    BY <2>4 DEF IPConnectionTypeOK
  <2>7. probe_stop' \in [Conns -> BOOLEAN]
    BY <2>4, Update DEF IPConnectionTypeOK
  <2>8. pc' \in [Users -> UserLabels]
    BY <2>2 DEF IPConnectionTypeOK, UserLabels
  <2>9. UNCHANGED <<socket, socket_id, local, peer, receive_flag, receive_thread, rcv, rcvOn,
                    probe_thread, prb, contexts, queue, cb, cbId, ops, auto_reconnect>>
    BY <2>1 DEF sockVars, rcvVars
  <2>10. QED BY <2>1, <2>5, <2>6, <2>7, <2>8, <2>9 DEF IPConnectionTypeOK, UserLabels
<1>2. CASE SendLocks(u)
  BY <1>2
  DEF SendLocks, IPConnectionTypeOK, Goto, sockVars, rcvVars, cbVars, autoVars
<1>3. CASE JoinProbe(u)
  <2>1. /\ probe_thread' = 0
        /\ UNCHANGED <<socket, socket_id, peer, receive_thread, rcv, rcvOn, probe_stop, prb,
                       cbVars, autoVars, taken, ops>>
    BY <1>3 DEF JoinProbe
  <2>2. PICK label \in {"idle", "send_receive", "disconnect_receive"} : pc' = [pc EXCEPT ![u] = label]
    BY <1>3 DEF JoinProbe, Goto
  <2>3. receive_flag' \in BOOLEAN /\ socket_lock' \in Users \cup Contexts \cup {NoOne}
    BY <1>3 DEF JoinProbe, IPConnectionTypeOK
  <2>4. local' = local \/ local' = [local EXCEPT ![socket] = "shutdown"]
    BY <1>3 DEF JoinProbe
  <2>5. local' \in [Conns -> {"new", "open", "shutdown", "closed"}]
    BY <2>4, Update DEF IPConnectionTypeOK
  <2>6. QED BY <2>1, <2>2, <2>3, <2>5, Bounds DEF IPConnectionTypeOK, cbVars, autoVars
<1>4. CASE JoinReceive(u)
  <2>1. /\ receive_thread' = 0 /\ socket' = 0 /\ socket_lock' = NoOne
        /\ local' = [local EXCEPT ![socket] = "closed"]
        /\ UNCHANGED <<socket_id, peer, receive_flag, rcv, rcvOn, prbVars, contexts, cb, cbId,
                       autoVars, ops>>
    BY <1>4 DEF JoinReceive
  <2>2. PICK label \in {"idle", "exit"} : pc' = [pc EXCEPT ![u] = label]
    BY <1>4 DEF JoinReceive, Goto
  <2>3. \/ taken' = taken /\ callback' = callback
        \/ taken' = [taken EXCEPT ![u] = callback] /\ callback' = 0
    BY <1>4 DEF JoinReceive
  <2>4. Put(callback, DISCONNECTED("ERROR", 0)) \/ queue' = queue
    BY <1>4 DEF JoinReceive
  <2>5. DISCONNECTED("ERROR", 0) \in Messages
    BY MessageTypes, Bounds
  <2>6. queue' \in [Contexts -> Seq(Messages)]
    BY <2>4, <2>5, PutTypes DEF IPConnectionTypeOK
  <2>7. local' \in [Conns -> {"new", "open", "shutdown", "closed"}]
    BY <2>1, Update DEF IPConnectionTypeOK
  <2>8. taken' \in [Users -> 0 .. MaxContexts] /\ callback' \in 0 .. MaxContexts
    <3>1. /\ taken \in [Users -> 0 .. MaxContexts] /\ callback \in 0 .. MaxContexts
          /\ 0 \in 0 .. MaxContexts
      BY Bounds DEF IPConnectionTypeOK
    <3>2. QED BY <2>3, <3>1, Update
  <2>9. pc' \in [Users -> UserLabels]
    BY <2>2 DEF IPConnectionTypeOK, UserLabels
  <2>10. /\ UNCHANGED <<socket_id, peer, receive_flag, rcv, rcvOn, probe_thread, probe_stop, prb,
                         contexts, cb, cbId, ops>>
         /\ UNCHANGED <<auto_reconnect, auto_reconnect_allowed, auto_reconnect_pending>>
         /\ receive_thread' \in 0 .. MaxConns /\ socket' \in 0 .. MaxConns
         /\ socket_lock' \in Users \cup Contexts \cup {NoOne}
    BY <2>1, Bounds DEF prbVars, autoVars
  <2>11. /\ socket_id' \in 0 .. MaxConns /\ peer' \in [Conns -> {"up", "closed", "silent"}]
         /\ receive_flag' \in BOOLEAN /\ probe_thread' \in 0 .. MaxConns
         /\ probe_stop' \in [Conns -> BOOLEAN]
         /\ rcv' \in [Conns -> {"new", "loop", "recv", "allow", "report", "ended"}]
         /\ rcvOn' \in [Conns -> 0 .. MaxConns]
         /\ prb' \in [Conns -> {"new", "wait", "report", "ended"}]
    BY <2>10 DEF IPConnectionTypeOK
  <2>12. /\ contexts' \in 0 .. MaxContexts /\ ops' \in 0 .. MaxOps
         /\ cb' \in [Contexts -> {"new", "get", "close", "close_probe", "notify", "pending",
                                  "retry", "retry_attempt", "retry_announce", "ended"}]
         /\ cbId' \in [Contexts -> 0 .. MaxConns]
         /\ auto_reconnect' \in BOOLEAN
         /\ auto_reconnect_allowed' \in BOOLEAN /\ auto_reconnect_pending' \in BOOLEAN
    BY <2>10 DEF IPConnectionTypeOK
  <2>13. /\ socket' \in 0 .. MaxConns /\ receive_thread' \in 0 .. MaxConns
         /\ socket_lock' \in Users \cup Contexts \cup {NoOne}
    BY <2>10
  <2>14. QED
    BY <2>6, <2>7, <2>8, <2>9, <2>11, <2>12, <2>13 DEF IPConnectionTypeOK, UserLabels
<1>5. CASE Exit(u)
  <2>1. UNCHANGED <<sockVars, socket_lock, peer, rcvVars, prbVars, callback, contexts, cb, cbId,
                    autoVars, taken, ops>>
    BY <1>5 DEF Exit
  <2>2. PICK label \in {"idle", "join"} : pc' = [pc EXCEPT ![u] = label]
    BY <1>5 DEF Exit, Goto
  <2>3. \/ queue' = queue
        \/ queue' = [queue EXCEPT ![taken[u]] = queue[taken[u]] \o <<DISCONNECTED("REQUEST", 0), EXIT>>]
    BY <1>5 DEF Exit
  <2>4. ASSUME NEW j \in Contexts
        PROVE  queue[j] \o <<DISCONNECTED("REQUEST", 0), EXIT>> \in Seq(Messages)
    <3>1. DISCONNECTED("REQUEST", 0) \in Messages /\ EXIT \in Messages
      BY MessageTypes, Bounds
    <3>2. queue[j] \in Seq(Messages)
      BY DEF IPConnectionTypeOK
    <3>3. <<DISCONNECTED("REQUEST", 0), EXIT>> \in Seq(Messages)
      BY <3>1
    <3>4. QED BY <3>2, <3>3
  <2>5. queue' \in [Contexts -> Seq(Messages)]
    <3> DEFINE messages == queue[taken[u]] \o <<DISCONNECTED("REQUEST", 0), EXIT>>
    <3>1. taken[u] \in Contexts => messages \in Seq(Messages)
      BY <2>4
    <3>2. queue \in [Contexts -> Seq(Messages)]
      BY DEF IPConnectionTypeOK
    <3>3. queue' = queue \/ queue' = [queue EXCEPT ![taken[u]] = messages]
      BY <2>3
    <3> HIDE DEF messages
    <3>4. QED BY <3>1, <3>2, <3>3, UpdateInside
  <2>6. QED BY <2>1, <2>2, <2>5
    DEF IPConnectionTypeOK, sockVars, rcvVars, prbVars, autoVars
<1>6. CASE Join(u)
  BY <1>6, Bounds
  DEF Join, IPConnectionTypeOK, Goto, sockVars, rcvVars, prbVars, cbVars, autoVars
<1>7. QED BY <1>1, <1>2, <1>3, <1>4, <1>5, <1>6

\* A lost connection is reported to the current context, if there is one.
LEMMA ReportTypes ==
  ASSUME IPConnectionTypeOK, NEW id \in 0 .. MaxConns, Report(id)
  PROVE  queue' \in [Contexts -> Seq(Messages)]
<1>1. DISCONNECTED("ERROR", id) \in Messages
  BY MessageTypes
<1>2. QED BY <1>1, PutTypes DEF Report, IPConnectionTypeOK

\* The receive and the probe threads.
LEMMA ThreadTypes ==
  ASSUME IPConnectionTypeOK, NEW c \in Conns,
         \/ ReceiveTurn(c) \/ ReceiveEnds(c) \/ ReceiveAllows(c) \/ ReceiveReports(c)
         \/ ReceiveData(c)
         \/ ProbeStops(c) \/ ProbeFails(c) \/ ProbeReports(c)
  PROVE  IPConnectionTypeOK'
<1>1. CASE ReceiveTurn(c)
  <2>1. \/ rcv' = [rcv EXCEPT ![c] = "recv"] /\ rcvOn' = [rcvOn EXCEPT ![c] = socket]
        \/ rcv' = [rcv EXCEPT ![c] = "ended"] /\ rcvOn' = rcvOn
    BY <1>1 DEF ReceiveTurn
  <2>2. /\ rcv' \in [Conns -> {"new", "loop", "recv", "allow", "report", "ended"}]
        /\ rcvOn' \in [Conns -> 0 .. MaxConns]
    BY <2>1 DEF IPConnectionTypeOK
  <2>3. UNCHANGED <<sockVars, socket_lock, peer, receive_flag, receive_thread, prbVars, cbVars,
                    autoVars, userVars>>
    BY <1>1 DEF ReceiveTurn
  <2>4. QED BY <2>2, <2>3
    DEF IPConnectionTypeOK, sockVars, prbVars, cbVars, autoVars, userVars
<1>2. CASE ReceiveEnds(c)
  BY <1>2
  DEF ReceiveEnds, IPConnectionTypeOK, sockVars, prbVars, cbVars, autoVars, userVars
<1>3. CASE ReceiveReports(c)
  <2>1. queue' \in [Contexts -> Seq(Messages)]
    <3>1. c \in 0 .. MaxConns
      BY DEF Conns
    <3>2. QED BY <1>3, <3>1, ReportTypes DEF ReceiveReports
  <2>2. QED BY <1>3, <2>1 DEF ReceiveReports, IPConnectionTypeOK, sockVars, rcvVars, prbVars, autoVars, userVars
<1>4. CASE ReceiveData(c)
  BY <1>4
  DEF ReceiveData, IPConnectionTypeOK, sockVars, prbVars, cbVars, autoVars, userVars
<1>5. CASE ProbeStops(c)
  BY <1>5
  DEF ProbeStops, IPConnectionTypeOK, sockVars, rcvVars, cbVars, autoVars, userVars
<1>6. CASE ProbeFails(c)
  BY <1>6
  DEF ProbeFails, IPConnectionTypeOK, sockVars, rcvVars, cbVars, userVars
<1>7. CASE ProbeReports(c)
  <2>1. queue' \in [Contexts -> Seq(Messages)]
    BY <1>7, ReportTypes DEF ProbeReports, IPConnectionTypeOK
  <2>2. QED BY <1>7, <2>1 DEF ProbeReports, IPConnectionTypeOK, sockVars, rcvVars, prbVars, autoVars, userVars
<1>8. CASE ReceiveAllows(c)
  BY <1>8
  DEF ReceiveAllows, IPConnectionTypeOK, sockVars, prbVars, cbVars, userVars
<1>9. QED BY <1>1, <1>2, <1>3, <1>4, <1>5, <1>6, <1>7, <1>8

\* The callback threads.
LEMMA CallbackTypes ==
  ASSUME IPConnectionTypeOK, NEW k \in Contexts,
         \/ GetMessage(k) \/ CloseLocks(k) \/ CloseJoins(k) \/ Notify(k) \/ SetPending(k)
         \/ RetryLocks(k) \/ RetryOk(k) \/ RetryRefused(k) \/ RetryAnnounces(k)
  PROVE  IPConnectionTypeOK'
<1>1. CASE GetMessage(k)
  <2>1. queue[k] \in Seq(Messages) /\ queue[k] # << >>
    BY <1>1 DEF GetMessage, IPConnectionTypeOK
  <2>2. Head(queue[k]) \in Messages /\ Tail(queue[k]) \in Seq(Messages)
    BY <2>1
  <2>3. Head(queue[k]).id \in 0 .. MaxConns
    BY <2>2 DEF Messages
  <2>4. PICK label \in CbLabels : cb' = [cb EXCEPT ![k] = label]
    BY <1>1 DEF GetMessage, CbGoto, CbLabels
  <2>5. /\ queue' \in [Contexts -> Seq(Messages)] /\ cbId' \in [Contexts -> 0 .. MaxConns]
        /\ UNCHANGED <<sockVars, socket_lock, peer, rcvVars, prbVars, callback, contexts, autoVars, userVars>>
    BY <1>1, <2>2, <2>3 DEF GetMessage, IPConnectionTypeOK
  <2>6. cb' \in [Contexts -> CbLabels]
    BY <2>4 DEF IPConnectionTypeOK, CbLabels
  <2>7. QED BY <2>5, <2>6 DEF IPConnectionTypeOK, CbLabels, sockVars, rcvVars, prbVars, autoVars, userVars
<1>2. CASE CloseLocks(k)
  BY <1>2, Bounds
  DEF CloseLocks, IPConnectionTypeOK, CbGoto, sockVars, rcvVars, autoVars, userVars
<1>3. CASE CloseJoins(k)
  <2>1. /\ probe_thread' = 0 /\ socket_lock' = NoOne
        /\ UNCHANGED <<socket_id, peer, rcvVars, probe_stop, prb, callback, contexts, queue, cbId,
                       autoVars, userVars>>
    BY <1>3 DEF CloseJoins
  <2>2. \/ UNCHANGED <<socket, local>> /\ CbGoto(k, "ended")
        \/ socket' = 0 /\ local' = [local EXCEPT ![socket] = "closed"] /\ CbGoto(k, "notify")
    BY <1>3 DEF CloseJoins
  <2>3. local' \in [Conns -> {"new", "open", "shutdown", "closed"}] /\ socket' \in 0 .. MaxConns
    BY <2>2, Update, Bounds DEF IPConnectionTypeOK
  <2>4. cb' \in [Contexts -> CbLabels]
    BY <2>2 DEF IPConnectionTypeOK, CbLabels, CbGoto
  <2>5. QED BY <2>1, <2>3, <2>4, Bounds DEF IPConnectionTypeOK, CbLabels, rcvVars, autoVars, userVars
<1>4. CASE Notify(k)
  BY <1>4
  DEF Notify, IPConnectionTypeOK, CbGoto, sockVars, rcvVars, prbVars, autoVars, userVars
<1>5. CASE SetPending(k)
  BY <1>5
  DEF SetPending, IPConnectionTypeOK, CbGoto, sockVars, rcvVars, prbVars, userVars
<1>6. CASE RetryLocks(k)
  <2>1. /\ socket_lock' \in Users \cup Contexts \cup {NoOne}
        /\ UNCHANGED <<sockVars, peer, rcvVars, prbVars, queue, cbId, auto_reconnect,
                       auto_reconnect_allowed, userVars>>
    BY <1>6 DEF RetryLocks, IPConnectionTypeOK
  <2>2. auto_reconnect_pending' \in BOOLEAN
    BY <1>6, Zenon DEF RetryLocks, IPConnectionTypeOK
  <2>3. WithContext(k, "retry_attempt") \/ (CbGoto(k, "get") /\ UNCHANGED <<callback, contexts>>)
    BY <1>6 DEF RetryLocks
  <2>4. /\ contexts' \in 0 .. MaxContexts /\ callback' \in 0 .. MaxContexts
        /\ cb' \in [Contexts -> CbLabels]
    <3>1. CASE WithContext(k, "retry_attempt")
      BY <3>1, ContextTypes DEF CbLabels
    <3>2. CASE CbGoto(k, "get") /\ UNCHANGED <<callback, contexts>>
      BY <3>2 DEF IPConnectionTypeOK, CbLabels, CbGoto
    <3>3. QED BY <2>3, <3>1, <3>2
  <2>5. QED BY <2>1, <2>2, <2>4 DEF IPConnectionTypeOK, CbLabels, sockVars, rcvVars, prbVars, userVars
<1>7. CASE RetryOk(k)
  <2>1. /\ cb' = [cb EXCEPT ![k] = "retry_announce"]
        /\ UNCHANGED <<socket_lock, callback, contexts, queue, cbId, autoVars, userVars>>
    BY <1>7 DEF RetryOk, CbGoto
  <2>2. Establish
    BY <1>7 DEF RetryOk
  <2>3. /\ IPConnectionTypeOK
        /\ UNCHANGED <<socket_lock, callback, contexts, queue, cbId, auto_reconnect,
                       auto_reconnect_allowed, auto_reconnect_pending, pc, taken, ops>>
    BY <2>1 DEF autoVars, userVars
  <2>4. cb' \in [Contexts -> CbLabels]
    BY <2>1 DEF IPConnectionTypeOK, CbLabels
  <2>5. QED BY <2>2, <2>3, <2>4, EstablishTypes, SMTT(30) DEF IPConnectionTypeOK, CbLabels
<1>8. CASE RetryRefused(k)
  BY <1>8
  DEF RetryRefused, IPConnectionTypeOK, CbGoto, sockVars, rcvVars, prbVars, autoVars, userVars
<1>9. CASE RetryAnnounces(k)
  BY <1>9, MessageTypes, PutTypes
  DEF RetryAnnounces, IPConnectionTypeOK, CbGoto, Announce, sockVars, rcvVars, prbVars, userVars
<1>10. QED BY <1>1, <1>2, <1>3, <1>4, <1>5, <1>6, <1>7, <1>8, <1>9

---------------------------------------------------------------------------
(* socket_lock, the open socket and its probe thread.                      *)

\* Nobody is inside a section while socket_lock is free, and its holder is
\* inside alone.
LEMMA Alone ==
  ASSUME LockOwned
  PROVE  /\ socket_lock = NoOne => /\ \A u \in Users : pc[u] \notin UserSections
                                   /\ \A k \in Contexts : cb[k] \notin CallbackSections
         /\ \A u \in Users : pc[u] \in UserSections =>
              /\ \A v \in Users \ {u} : pc[v] \notin UserSections
              /\ \A k \in Contexts : cb[k] \notin CallbackSections
         /\ \A k \in Contexts : cb[k] \in CallbackSections =>
              /\ \A u \in Users : pc[u] \notin UserSections
              /\ \A j \in Contexts \ {k} : cb[j] \notin CallbackSections
  BY IPConnectionAssumption DEF LockOwned

\* A connection that is established while there is none is the only open one.
LEMMA EstablishSafe ==
  ASSUME IPConnectionTypeOK, SocketKnown, Establish, socket = 0
  PROVE  SocketKnown'
<1> DEFINE c == socket_id + 1
<1>1. c \in Conns
  BY Bounds DEF Establish, IPConnectionTypeOK, Conns
<1>2. /\ \A d \in Conns : local[d] \notin {"open", "shutdown"}
      /\ \A d \in Conns : prb[d] \notin {"wait", "report"}
  BY Bounds DEF SocketKnown
<1>3. /\ socket' = c /\ probe_thread' = c
      /\ local' = [local EXCEPT ![c] = "open"] /\ prb' = [prb EXCEPT ![c] = "wait"]
  BY DEF Establish
<1> HIDE DEF c
<1>4. QED BY <1>1, <1>2, <1>3 DEF SocketKnown, IPConnectionTypeOK

\* connect.
LEMMA ConnectSafe ==
  ASSUME ConnectionInv, NEW u \in Users,
         ConnectLocks(u) \/ ConnectOk(u) \/ ConnectRefused(u) \/ ConnectCleanup(u) \/ ConnectAnnounces(u)
  PROVE  SafeInv'
<1> USE DEF ConnectionInv
<1>1. CASE ConnectLocks(u)
  <2>1. LockOwned'
    <3>1. CASE socket # 0
      BY <1>1, <3>1 DEF ConnectLocks, IPConnectionTypeOK, SafeInv, LockOwned, UserSections, Goto
    <3>2. CASE socket = 0
      <4>1. /\ pc' = [pc EXCEPT ![u] = "attempt"] /\ socket_lock = NoOne /\ socket_lock' = u
            /\ WithContext(0, "")
        BY <1>1, <3>2 DEF ConnectLocks, Goto
      <4>2. \A k \in Contexts : cb'[k] = cb[k] \/ cb'[k] = "get"
        BY <4>1 DEF WithContext, IPConnectionTypeOK
      <4>3. \A k \in Contexts : k > contexts' => cb'[k] = "new"
        BY <4>1, Bounds DEF WithContext, IPConnectionTypeOK, SafeInv, LockOwned, Contexts
      <4>4. \A k \in Contexts : cb'[k] \notin CallbackSections /\ socket_lock' # k
        BY <4>1, <4>2, Alone, IPConnectionAssumption DEF SafeInv, CallbackSections
      <4>5. \A v \in Users : pc'[v] \in UserSections <=> socket_lock' = v
        BY <4>1, Alone DEF SafeInv, IPConnectionTypeOK, UserSections
      <4>6. QED BY <4>3, <4>4, <4>5 DEF LockOwned
    <3>3. QED BY <3>1, <3>2
  <2>2. SocketKnown'
    BY <1>1 DEF ConnectLocks, SafeInv, SocketKnown, sockVars, prbVars
  <2>3. Phases'
    <3>1. \A k \in Contexts : cb'[k] = cb[k] \/ cb'[k] = "get"
      BY <1>1 DEF ConnectLocks, WithContext, IPConnectionTypeOK
    <3>2. /\ \/ pc' = [pc EXCEPT ![u] = "idle"]
             \/ pc' = [pc EXCEPT ![u] = "attempt"] /\ socket = 0
          /\ UNCHANGED <<socket, probe_thread>> /\ socket_lock = NoOne
      BY <1>1 DEF ConnectLocks, Goto, sockVars, prbVars
    <3>3. \A v \in Users : pc[v] \notin UserSections
      BY <3>2, Alone DEF SafeInv
    <3>4. \A v \in Users : \/ pc'[v] \notin UserSections
                           \/ pc'[v] = "attempt" /\ socket' = 0
      BY <3>2, <3>3 DEF IPConnectionTypeOK, UserSections
    <3>5. QED BY <3>1, <3>2, <3>4 DEF SafeInv, Phases, UserSections
  <2>4. QED BY <2>1, <2>2, <2>3 DEF SafeInv
<1>2. CASE ConnectOk(u)
  <2> USE DEF SafeInv
  <2>1. /\ pc[u] = "attempt" /\ pc' = [pc EXCEPT ![u] = "announce"] /\ Establish
        /\ UNCHANGED <<socket_lock, cb, contexts>>
    BY <1>2 DEF ConnectOk, Goto, cbVars
  <2>2. SocketKnown'
    BY <2>1, EstablishSafe DEF Phases
  <2>3. LockOwned'
    BY <2>1 DEF LockOwned, UserSections, IPConnectionTypeOK
  <2>4. /\ \A v \in Users : pc'[v] \in UserSections => pc'[v] = "announce"
        /\ \A k \in Contexts : cb'[k] \notin CallbackSections
    BY <2>1, Alone DEF UserSections, IPConnectionTypeOK
  <2>5. Phases'
    BY <2>4 DEF Phases, UserSections, CallbackSections
  <2>6. QED BY <2>2, <2>3, <2>5
<1>3. CASE ConnectRefused(u)
  BY <1>3, Bounds
  DEF ConnectRefused, IPConnectionTypeOK, SafeInv, LockOwned, SocketKnown, Phases,
      UserSections, Goto, sockVars, prbVars
<1>4. CASE ConnectCleanup(u)
  BY <1>4, Bounds, IPConnectionAssumption
  DEF ConnectCleanup, IPConnectionTypeOK, SafeInv, LockOwned, SocketKnown, Phases,
      UserSections, Goto, sockVars, prbVars
<1>5. CASE ConnectAnnounces(u)
  BY <1>5, Bounds, IPConnectionAssumption
  DEF ConnectAnnounces, IPConnectionTypeOK, SafeInv, LockOwned, SocketKnown, Phases,
      UserSections, Goto, Announce, sockVars, prbVars
<1>6. QED BY <1>1, <1>2, <1>3, <1>4, <1>5

\* disconnect and send.
LEMMA DisconnectSafe ==
  ASSUME ConnectionInv, NEW u \in Users,
         DisconnectLocks(u) \/ SendLocks(u) \/ JoinProbe(u) \/ JoinReceive(u) \/ Exit(u) \/ Join(u)
  PROVE  SafeInv'
<1> USE DEF ConnectionInv
<1>1. CASE DisconnectLocks(u)
  BY <1>1, Bounds, IPConnectionAssumption
  DEF DisconnectLocks, IPConnectionTypeOK, SafeInv, LockOwned, SocketKnown, Phases,
      UserSections, Goto, sockVars
<1>2. CASE SendLocks(u)
  BY <1>2, Bounds, IPConnectionAssumption
  DEF SendLocks, IPConnectionTypeOK, SafeInv, LockOwned, SocketKnown, Phases, UserSections,
      Goto, sockVars, cbVars
<1>3. CASE JoinProbe(u)
  <2>1. LockOwned'
    <3>1. /\ pc[u] \in UserSections /\ UNCHANGED <<contexts, cb>>
          /\ \/ pc' = [pc EXCEPT ![u] = "idle"] /\ socket_lock' = NoOne
             \/ /\ \/ pc' = [pc EXCEPT ![u] = "send_receive"]
                   \/ pc' = [pc EXCEPT ![u] = "disconnect_receive"]
                /\ socket_lock' = socket_lock
      BY <1>3 DEF JoinProbe, UserSections, Goto, cbVars
    <3>2. socket_lock = u
      BY <3>1 DEF SafeInv, LockOwned
    <3>3. \A v \in Users \ {u} : pc'[v] \notin UserSections /\ socket_lock' # v
      BY <3>1, <3>2, Alone, IPConnectionAssumption DEF IPConnectionTypeOK, SafeInv
    <3>4. pc'[u] \in UserSections <=> socket_lock' = u
      BY <3>1, <3>2, IPConnectionAssumption DEF IPConnectionTypeOK, UserSections
    <3>5. \A k \in Contexts : cb'[k] \notin CallbackSections /\ socket_lock' # k
      BY <3>1, <3>2, Alone, IPConnectionAssumption DEF SafeInv
    <3>6. QED BY <3>1, <3>3, <3>4, <3>5 DEF SafeInv, LockOwned
  <2>2. SocketKnown'
    BY <1>3, Bounds DEF JoinProbe, IPConnectionTypeOK, SafeInv, SocketKnown, Phases
  <2>3. Phases'
    BY <1>3 DEF JoinProbe, IPConnectionTypeOK, SafeInv, Phases, Goto, cbVars
  <2>4. QED BY <2>1, <2>2, <2>3 DEF SafeInv
<1>4. CASE JoinReceive(u)
  <2> USE DEF SafeInv
  <2>1. PICK label \in {"idle", "exit"} : pc' = [pc EXCEPT ![u] = label]
    BY <1>4 DEF JoinReceive, Goto
  <2>2. /\ pc[u] \in UserSections /\ socket # 0 /\ probe_thread = 0
        /\ socket' = 0 /\ socket_lock' = NoOne /\ UNCHANGED <<contexts, cb, prbVars>>
        /\ local' = [local EXCEPT ![socket] = "closed"]
    BY <1>4 DEF JoinReceive, Phases, UserSections
  <2>3. /\ \A v \in Users : pc'[v] \notin UserSections
        /\ \A k \in Contexts : cb'[k] \notin CallbackSections
    BY <2>1, <2>2, Alone DEF IPConnectionTypeOK, UserSections
  <2>4. LockOwned'
    BY <2>2, <2>3, IPConnectionAssumption DEF LockOwned
  <2>5. SocketKnown'
    BY <2>2, Bounds DEF SocketKnown, IPConnectionTypeOK, prbVars
  <2>6. Phases'
    BY <2>3 DEF Phases, UserSections, CallbackSections
  <2>7. QED BY <2>4, <2>5, <2>6
<1>5. CASE Exit(u)
  <2>1. /\ pc[u] \notin UserSections
        /\ UNCHANGED <<socket, local, prb, probe_thread, socket_lock, contexts, cb>>
        /\ pc' = [pc EXCEPT ![u] = "idle"] \/ pc' = [pc EXCEPT ![u] = "join"]
    BY <1>5 DEF Exit, Goto, UserSections, sockVars, prbVars
  <2>2. QED BY <2>1 DEF IPConnectionTypeOK, SafeInv, LockOwned, SocketKnown, Phases, UserSections
<1>6. CASE Join(u)
  BY <1>6, Bounds
  DEF Join, IPConnectionTypeOK, SafeInv, LockOwned, SocketKnown, Phases, UserSections, Goto,
      sockVars, prbVars, cbVars
<1>7. QED BY <1>1, <1>2, <1>3, <1>4, <1>5, <1>6

\* The receive and the probe threads.
LEMMA ThreadSafe ==
  ASSUME ConnectionInv, NEW c \in Conns,
         \/ ReceiveTurn(c) \/ ReceiveEnds(c) \/ ReceiveAllows(c) \/ ReceiveReports(c)
         \/ ReceiveData(c)
         \/ ProbeStops(c) \/ ProbeFails(c) \/ ProbeReports(c)
  PROVE  SafeInv'
<1> USE DEF ConnectionInv
<1>1. CASE ReceiveTurn(c)
  BY <1>1, Bounds
  DEF ReceiveTurn, IPConnectionTypeOK, SafeInv, LockOwned, SocketKnown, Phases, sockVars,
      prbVars, cbVars, userVars
<1>2. CASE ReceiveEnds(c)
  BY <1>2, Bounds
  DEF ReceiveEnds, IPConnectionTypeOK, SafeInv, LockOwned, SocketKnown, Phases, sockVars,
      prbVars, cbVars, userVars
<1>3. CASE ReceiveReports(c)
  BY <1>3, Bounds
  DEF ReceiveReports, IPConnectionTypeOK, SafeInv, LockOwned, SocketKnown, Phases, sockVars,
      prbVars, userVars
<1>4. CASE ReceiveData(c)
  BY <1>4, Bounds
  DEF ReceiveData, IPConnectionTypeOK, SafeInv, LockOwned, SocketKnown, Phases, sockVars,
      prbVars, cbVars, userVars
<1>5. CASE ProbeStops(c)
  BY <1>5, Bounds
  DEF ProbeStops, IPConnectionTypeOK, SafeInv, LockOwned, SocketKnown, Phases, sockVars,
      cbVars, userVars
<1>6. CASE ProbeFails(c)
  BY <1>6, Bounds
  DEF ProbeFails, IPConnectionTypeOK, SafeInv, LockOwned, SocketKnown, Phases, sockVars,
      cbVars, userVars
<1>7. CASE ProbeReports(c)
  BY <1>7, Bounds
  DEF ProbeReports, IPConnectionTypeOK, SafeInv, LockOwned, SocketKnown, Phases, sockVars,
      userVars
<1>8. CASE ReceiveAllows(c)
  BY <1>8, Bounds
  DEF ReceiveAllows, IPConnectionTypeOK, SafeInv, LockOwned, SocketKnown, Phases, sockVars,
      prbVars, cbVars, userVars
<1>9. QED BY <1>1, <1>2, <1>3, <1>4, <1>5, <1>6, <1>7, <1>8

\* The callback threads.
LEMMA CallbackSafe ==
  ASSUME ConnectionInv, NEW k \in Contexts,
         \/ GetMessage(k) \/ CloseLocks(k) \/ CloseJoins(k) \/ Notify(k) \/ SetPending(k)
         \/ RetryLocks(k) \/ RetryOk(k) \/ RetryRefused(k) \/ RetryAnnounces(k)
  PROVE  SafeInv'
<1> USE DEF ConnectionInv
<1>1. CASE GetMessage(k)
  BY <1>1, Bounds
  DEF GetMessage, IPConnectionTypeOK, SafeInv, LockOwned, SocketKnown, Phases,
      CallbackSections, CbGoto, sockVars, prbVars, userVars
<1>2. CASE CloseLocks(k)
  BY <1>2, Bounds, IPConnectionAssumption
  DEF CloseLocks, IPConnectionTypeOK, SafeInv, LockOwned, SocketKnown, Phases,
      CallbackSections, CbGoto, sockVars, userVars
<1>3. CASE CloseJoins(k)
  <2> USE DEF SafeInv
  <2>1. PICK label \in {"ended", "notify"} : cb' = [cb EXCEPT ![k] = label]
    BY <1>3 DEF CloseJoins, CbGoto
  <2>2. /\ cb[k] \in CallbackSections /\ socket # 0 /\ probe_thread' = 0
        /\ socket_lock' = NoOne /\ UNCHANGED <<contexts, pc, prb>>
        /\ probe_thread # 0 => prb[probe_thread] = "ended"
    BY <1>3 DEF CloseJoins, Phases, CallbackSections, userVars
  <2>3. /\ \A u \in Users : pc'[u] \notin UserSections
        /\ \A j \in Contexts : cb'[j] \notin CallbackSections
    BY <2>1, <2>2, Alone DEF IPConnectionTypeOK, CallbackSections
  <2>4. \A j \in Contexts : j > contexts' => cb'[j] = "new"
    BY <2>1, <2>2 DEF LockOwned, IPConnectionTypeOK, CallbackSections
  <2>5. LockOwned'
    BY <2>2, <2>3, <2>4, IPConnectionAssumption DEF LockOwned
  <2>6. \A c \in Conns : prb'[c] \notin {"wait", "report"}
    BY <2>2, Bounds DEF SocketKnown
  <2>7. \A c \in Conns : local'[c] \in {"open", "shutdown"} <=> c = socket'
    <3>1. CASE probe_thread = 0
      BY <1>3, <3>1 DEF CloseJoins, SocketKnown
    <3>2. CASE probe_thread # 0
      <4>1. local' = [local EXCEPT ![socket] = "closed"] /\ socket' = 0
        BY <1>3, <3>2 DEF CloseJoins
      <4>2. local \in [Conns -> {"new", "open", "shutdown", "closed"}]
        BY DEF IPConnectionTypeOK
      <4>3. QED BY <4>1, <4>2, Bounds DEF SocketKnown
    <3>3. QED BY <3>1, <3>2
  <2>8. Phases'
    BY <2>3 DEF Phases, UserSections, CallbackSections
  <2>9. QED BY <2>5, <2>6, <2>7, <2>8 DEF SocketKnown
<1>4. CASE Notify(k)
  BY <1>4, Bounds
  DEF Notify, IPConnectionTypeOK, SafeInv, LockOwned, SocketKnown, Phases, CallbackSections,
      CbGoto, sockVars, prbVars, userVars
<1>5. CASE SetPending(k)
  BY <1>5, Bounds
  DEF SetPending, IPConnectionTypeOK, SafeInv, LockOwned, SocketKnown, Phases,
      CallbackSections, CbGoto, sockVars, prbVars, userVars
<1>6. CASE RetryLocks(k)
  <2> USE DEF SafeInv
  <2>1. CASE CbGoto(k, "get") /\ UNCHANGED <<socket_lock, callback, contexts>>
    BY <1>6, <2>1 DEF RetryLocks, CbGoto, IPConnectionTypeOK, LockOwned, SocketKnown, Phases, UserSections,
      CallbackSections, sockVars, prbVars, userVars
  <2>2. CASE socket = 0 /\ socket_lock' = k /\ WithContext(k, "retry_attempt")
    <3>1. /\ socket_lock = NoOne /\ cb[k] = "retry" /\ k # 0
          /\ UNCHANGED <<pc, socket, local, prb, probe_thread>>
      BY <1>6, Bounds DEF RetryLocks, sockVars, prbVars, userVars
    <3>2. k \in 1 .. contexts /\ contexts \in Nat /\ contexts' \in Nat /\ contexts' >= contexts
      <4>1. contexts \in Nat /\ k \in Nat /\ k >= 1
        BY Bounds DEF IPConnectionTypeOK, Contexts
      <4>2. contexts' = contexts \/ contexts' = contexts + 1
        BY <2>2 DEF WithContext
      <4>3. k <= contexts
        BY <3>1, <4>1 DEF LockOwned
      <4>4. QED BY <4>1, <4>2, <4>3
    <3>3. cb'[k] = "retry_attempt"
      BY <2>2, <3>1, <3>2, Bounds DEF WithContext, IPConnectionTypeOK
    <3>4. \A j \in Contexts \ {k} : cb'[j] = cb[j] \/ cb'[j] = "get"
      BY <2>2, <3>1 DEF WithContext, IPConnectionTypeOK
    <3>5. \A j \in Contexts : j > contexts' => cb'[j] = "new"
      <4>1. CASE callback = 0
        <5>1. contexts' = contexts + 1
          BY <2>2, <4>1 DEF WithContext
        <5>2. \A j \in Contexts : j # k /\ j # contexts + 1 => cb'[j] = cb[j]
          BY <2>2, <4>1 DEF WithContext, IPConnectionTypeOK
        <5>3. QED BY <3>2, <5>1, <5>2 DEF LockOwned, Contexts
      <4>2. CASE callback # 0
        <5>1. contexts' = contexts /\ \A j \in Contexts \ {k} : cb'[j] = cb[j]
          BY <2>2, <3>1, <4>2 DEF WithContext, IPConnectionTypeOK
        <5>2. QED BY <3>2, <5>1 DEF LockOwned
      <4>3. QED BY <4>1, <4>2
    <3>6. \A j \in Contexts : cb'[j] \in CallbackSections <=> socket_lock' = j
      BY <2>2, <3>1, <3>3, <3>4, Alone DEF CallbackSections
    <3>7. \A u \in Users : pc'[u] \notin UserSections /\ socket_lock' # u
      BY <2>2, <3>1, Alone, IPConnectionAssumption
    <3>8. LockOwned'
      BY <3>5, <3>6, <3>7 DEF LockOwned
    <3>9. SocketKnown'
      BY <3>1 DEF SocketKnown
    <3>10. Phases'
      BY <2>2, <3>1, <3>3, <3>4, <3>7, Alone DEF Phases, UserSections, CallbackSections
    <3>11. QED BY <3>8, <3>9, <3>10
  <2>3. QED BY <1>6, <2>1, <2>2 DEF RetryLocks
<1>7. CASE RetryOk(k)
  <2> USE DEF SafeInv
  <2>1. /\ cb[k] = "retry_attempt" /\ cb' = [cb EXCEPT ![k] = "retry_announce"] /\ Establish
        /\ UNCHANGED <<socket_lock, pc, contexts>>
    BY <1>7 DEF RetryOk, CbGoto, userVars
  <2>2. SocketKnown'
    BY <2>1, EstablishSafe DEF Phases
  <2>3. LockOwned'
    BY <2>1 DEF LockOwned, CallbackSections, IPConnectionTypeOK
  <2>4. /\ \A u \in Users : pc'[u] \notin UserSections
        /\ \A j \in Contexts : cb'[j] \in CallbackSections => cb'[j] = "retry_announce"
    BY <2>1, Alone DEF CallbackSections, IPConnectionTypeOK
  <2>5. Phases'
    BY <2>4 DEF Phases, UserSections, CallbackSections
  <2>6. QED BY <2>2, <2>3, <2>5
<1>8. CASE RetryRefused(k)
  BY <1>8, Bounds, IPConnectionAssumption
  DEF RetryRefused, IPConnectionTypeOK, SafeInv, LockOwned, SocketKnown, Phases,
      CallbackSections, CbGoto, sockVars, prbVars, userVars
<1>9. CASE RetryAnnounces(k)
  BY <1>9, Bounds, IPConnectionAssumption
  DEF RetryAnnounces, IPConnectionTypeOK, SafeInv, LockOwned, SocketKnown, Phases,
      CallbackSections, CbGoto, Announce, sockVars, prbVars, userVars
<1>10. QED BY <1>1, <1>2, <1>3, <1>4, <1>5, <1>6, <1>7, <1>8, <1>9

---------------------------------------------------------------------------
LEMMA ConnectionInit == Init => ConnectionInv
<1> SUFFICES ASSUME Init PROVE ConnectionInv
  OBVIOUS
<1>1. IPConnectionTypeOK
  <2>1. queue \in [Contexts -> Seq(Messages)]
    BY DEF Init
  <2>2. /\ socket \in 0 .. MaxConns /\ socket_id \in 0 .. MaxConns
        /\ receive_thread \in 0 .. MaxConns /\ probe_thread \in 0 .. MaxConns
        /\ callback \in 0 .. MaxContexts /\ contexts \in 0 .. MaxContexts /\ ops \in 0 .. MaxOps
        /\ rcvOn \in [Conns -> 0 .. MaxConns] /\ cbId \in [Contexts -> 0 .. MaxConns]
        /\ taken \in [Users -> 0 .. MaxContexts]
    BY Bounds DEF Init
  <2>3. /\ probe_stop \in [Conns -> BOOLEAN] /\ receive_flag \in BOOLEAN
        /\ auto_reconnect \in BOOLEAN /\ auto_reconnect_allowed \in BOOLEAN
        /\ auto_reconnect_pending \in BOOLEAN
    BY DEF Init
  <2>4. QED BY <2>1, <2>2, <2>3 DEF Init, IPConnectionTypeOK
<1>2. LockOwned
  BY IPConnectionAssumption DEF Init, LockOwned, UserSections, CallbackSections
<1>3. SocketKnown /\ Phases
  BY Bounds DEF Init, SocketKnown, Phases
<1>4. QED BY <1>1, <1>2, <1>3 DEF ConnectionInv, SafeInv

LEMMA ConnectionStep ==
  ASSUME ConnectionInv, [Next]_vars
  PROVE  ConnectionInv'
<1>1. ASSUME NEW u \in Users, NEW op \in {"connect", "disconnect", "send"}, Begin(u, op)
      PROVE  ConnectionInv'
  BY <1>1, Bounds DEF Begin, ConnectionInv, IPConnectionTypeOK, SafeInv, LockOwned, SocketKnown, Phases,
    UserSections, Goto, sockVars, rcvVars, prbVars, cbVars, autoVars
<1>2. ASSUME NEW u \in Users, NEW v \in BOOLEAN, SetAutoReconnect(u, v) PROVE ConnectionInv'
  <2>1. (auto_reconnect_allowed /\ v) \in BOOLEAN
    OBVIOUS
  <2>2. auto_reconnect' \in BOOLEAN /\ auto_reconnect_allowed' \in BOOLEAN
    BY <1>2, <2>1, Zenon DEF SetAutoReconnect
  <2>3. /\ ops' \in 0 .. MaxOps
        /\ UNCHANGED <<sockVars, socket_lock, peer, rcvVars, prbVars, cbVars,
                       auto_reconnect_pending, pc, taken>>
    BY <1>2, Bounds DEF ConnectionInv, IPConnectionTypeOK, SetAutoReconnect
  <2>4. IPConnectionTypeOK'
    BY <2>2, <2>3 DEF ConnectionInv, IPConnectionTypeOK, sockVars, rcvVars, prbVars, cbVars
  <2>5. SafeInv'
    BY <2>3 DEF ConnectionInv, SafeInv, LockOwned, SocketKnown, Phases, sockVars, prbVars, cbVars
  <2>6. QED BY <2>4, <2>5 DEF ConnectionInv
<1>3. ASSUME NEW u \in Users, Step(u) PROVE ConnectionInv'
  BY <1>3, ConnectTypes, DisconnectTypes, ConnectSafe, DisconnectSafe DEF Step, ConnectionInv
<1>4. ASSUME NEW c \in Conns, NEW how \in {"closed", "silent"}, PeerGoes(c, how)
      PROVE  ConnectionInv'
  BY <1>4 DEF PeerGoes, ConnectionInv, IPConnectionTypeOK, SafeInv, LockOwned, SocketKnown, Phases,
    sockVars, rcvVars, prbVars, cbVars, autoVars, userVars
<1>5. ASSUME NEW c \in Conns, Receiver(c) \/ ReceiveData(c) \/ Prober(c) PROVE ConnectionInv'
  BY <1>5, ThreadTypes, ThreadSafe DEF Receiver, Prober, ConnectionInv
<1>6. ASSUME NEW k \in Contexts, Callbacks(k) PROVE ConnectionInv'
  BY <1>6, CallbackTypes, CallbackSafe DEF Callbacks, ConnectionInv
<1>7. CASE UNCHANGED vars
  BY <1>7 DEF vars, ConnectionInv, IPConnectionTypeOK, SafeInv, LockOwned, SocketKnown, Phases,
    sockVars, rcvVars, prbVars, cbVars, autoVars, userVars
<1>8. QED BY <1>1, <1>2, <1>3, <1>4, <1>5, <1>6, <1>7 DEF Next

LEMMA ConnectionInvariant == Spec => []ConnectionInv
<1>1. Init => ConnectionInv
  BY ConnectionInit
<1>2. ConnectionInv /\ [Next]_vars => ConnectionInv'
  BY ConnectionStep
<1>3. QED BY <1>1, <1>2, PTL DEF Spec

\* The types hold for any number of threads, connections and contexts: no thread
\* runs under a label it does not have, and no message leaves the known kinds.
THEOREM ConnectionTypes == Spec => []IPConnectionTypeOK
<1>1. ConnectionInv => IPConnectionTypeOK
  BY DEF ConnectionInv
<1>2. QED BY <1>1, ConnectionInvariant, PTL

\* However connect, disconnect, send, the close after a lost connection and the
\* auto reconnect interleave, an open connection is the current one, connecting
\* finds socket None and disconnecting finds it not None.
THEOREM NoSocketLost == Spec => []OneSocket
<1>1. ConnectionInv => OneSocket
  BY DEF ConnectionInv, SafeInv, SocketKnown, Phases, OneSocket
<1>2. QED BY <1>1, ConnectionInvariant, PTL

\* A probe thread that runs belongs to the current connection, although it reads
\* self.socket and self.socket_id without socket_lock.
THEOREM ProbeOfSocket == Spec => []ProbesOwnSocket
<1>1. ConnectionInv => ProbesOwnSocket
  BY DEF ConnectionInv, SafeInv, SocketKnown, ProbesOwnSocket
<1>2. QED BY <1>1, ConnectionInvariant, PTL
===========================================================================
