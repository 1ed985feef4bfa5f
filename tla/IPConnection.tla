--------------------------- MODULE IPConnection ---------------------------
(***************************************************************************)
(* The life of a connection: connect, disconnect, send and the threads     *)
(* behind them in scripts/tinkerforge/ip_connection.py.                    *)
(*                                                                         *)
(* Threads.  The application's threads (Users) call connect, disconnect    *)
(* and send.  Each connection c has a receive thread and a disconnect      *)
(* probe thread; each callback context k has a callback thread with its    *)
(* queue.  socket_lock guards the socket, but auto_reconnect_allowed,      *)
(* auto_reconnect_pending, receive_flag and callback are read and written  *)
(* outside it as well, and a step below ends where another thread can see  *)
(* the difference.                                                         *)
(*                                                                         *)
(* Sockets and contexts are numbered in the order of their creation, so    *)
(* the counter of sockets is socket_id; 0 stands for None.  Not modelled:  *)
(* packets (modules Requests and Device), disconnect_probe_flag (it puts   *)
(* a probe off by one interval) and failures to start a thread.            *)
(***************************************************************************)
EXTENDS Integers, Sequences, FiniteSets

CONSTANTS Users,     \* threads of the application
          MaxOps,    \* bound: calls of connect, disconnect and send
          MaxConns,  \* bound: connections established
          MaxContexts, \* bound: callback contexts made
          MaxLosses, \* bound: connections the daemon's end of which goes
          Refused,   \* when the daemon may refuse: "first" (connect before there was any
                     \* connection), "again" (connect later), "retry" (auto reconnect)
          NoOne      \* nobody holds socket_lock

Conns == 1 .. MaxConns
Contexts == 1 .. MaxContexts

ASSUME IPConnectionAssumption ==
  /\ MaxOps \in Nat /\ MaxConns \in Nat /\ MaxContexts \in Nat /\ MaxLosses \in Nat
  /\ Refused \subseteq {"first", "again", "retry"}
  /\ NoOne \notin Users \cup Contexts
  /\ Users \cap Contexts = {}

VARIABLES
  socket, socket_id,      \* the current connection or 0; connections so far
  socket_lock,            \* NoOne, a user, or the context of a callback thread
  local, peer,            \* per connection: our end and the daemon's end
  receive_flag, receive_thread,
  probe_thread,           \* disconnect_probe_thread
  probe_stop,             \* per connection: True is in disconnect_probe_queue
  rcv, rcvOn,             \* per connection: its receive thread, the socket it reads
  prb,                    \* per connection: its probe thread
  callback, contexts,     \* the current context or 0; contexts so far
  queue, cb, cbId,        \* per context: its queue, its callback thread, and the
                          \* socket_id of the message that thread works on
  auto_reconnect, auto_reconnect_allowed, auto_reconnect_pending,
  pc, taken,              \* per user: where it is; the context it is ending
  ops                     \* calls so far

sockVars == <<socket, socket_id, local>>
rcvVars == <<receive_flag, receive_thread, rcv, rcvOn>>
prbVars == <<probe_thread, probe_stop, prb>>
cbVars == <<callback, contexts, queue, cb, cbId>>
autoVars == <<auto_reconnect, auto_reconnect_allowed, auto_reconnect_pending>>
userVars == <<pc, taken, ops>>
vars == <<sockVars, socket_lock, peer, rcvVars, prbVars, cbVars, autoVars, userVars>>

EXIT == [kind |-> "EXIT", reason |-> "none", id |-> 0]
CONNECTED == [kind |-> "CONNECTED", reason |-> "none", id |-> 0]
\* Fault: the reason is left out.
DISCONNECTEDPlain(reason, id) == [kind |-> "DISCONNECTED", reason |-> "unset", id |-> id]
DISCONNECTED(reason, id) == [kind |-> "DISCONNECTED", reason |-> reason, id |-> id]
Messages == [kind : {"EXIT", "CONNECTED", "DISCONNECTED"},
             reason : {"none", "REQUEST", "ERROR"}, id : 0 .. MaxConns]

Init ==
  /\ socket = 0 /\ socket_id = 0 /\ socket_lock = NoOne
  /\ local = [c \in Conns |-> "new"] /\ peer = [c \in Conns |-> "up"]
  /\ receive_flag = FALSE /\ receive_thread = 0 /\ probe_thread = 0
  /\ probe_stop = [c \in Conns |-> FALSE]
  /\ rcv = [c \in Conns |-> "new"] /\ rcvOn = [c \in Conns |-> 0]
  /\ prb = [c \in Conns |-> "new"]
  /\ callback = 0 /\ contexts = 0
  /\ queue = [k \in Contexts |-> << >>] /\ cb = [k \in Contexts |-> "new"]
  /\ cbId = [k \in Contexts |-> 0]
  /\ auto_reconnect = TRUE
  /\ auto_reconnect_allowed = FALSE /\ auto_reconnect_pending = FALSE
  /\ pc = [u \in Users |-> "idle"] /\ taken = [u \in Users |-> 0]
  /\ ops = 0

Goto(u, label) == pc' = [pc EXCEPT ![u] = label]
CbGoto(k, label) == cb' = [cb EXCEPT ![k] = label]
Put(k, m) == queue' = [queue EXCEPT ![k] = Append(@, m)]

\* A call of the application, which then waits for socket_lock.
Begin(u, op) ==
  /\ pc[u] = "idle" /\ ops < MaxOps
  /\ ops' = ops + 1
  /\ Goto(u, op)
  /\ UNCHANGED <<sockVars, socket_lock, peer, rcvVars, prbVars, cbVars, autoVars, taken>>

\* set_auto_reconnect: no lock.
SetAutoReconnect(u, value) ==
  /\ pc[u] = "idle" /\ ops < MaxOps
  /\ ops' = ops + 1
  /\ auto_reconnect' = value
  /\ auto_reconnect_allowed' = (auto_reconnect_allowed /\ value)
  /\ UNCHANGED <<sockVars, socket_lock, peer, rcvVars, prbVars, cbVars, auto_reconnect_pending, pc, taken>>

---------------------------------------------------------------------------
(* connect_unlocked, in the parts that callers and the auto reconnect of   *)
(* the callback thread share.                                              *)

\* The callback context is made, with its thread, if there is none.  thread
\* is the callback thread that goes to label meanwhile, or 0 for a user.
WithContext(thread, label) ==
  LET k == contexts + 1
      moved == IF thread = 0 THEN cb ELSE [cb EXCEPT ![thread] = label]
  IN  IF callback = 0
      THEN /\ contexts < MaxContexts
           /\ contexts' = k /\ callback' = k
           /\ cb' = [moved EXCEPT ![k] = "get"]
      ELSE UNCHANGED <<contexts, callback>> /\ cb' = moved

\* The socket is connected, the probe and the receive thread are started.
Establish ==
  LET c == socket_id + 1 IN
  /\ socket_id < MaxConns
  /\ socket' = c /\ socket_id' = c
  /\ local' = [local EXCEPT ![c] = "open"]
  /\ prb' = [prb EXCEPT ![c] = "wait"] /\ probe_thread' = c
  /\ rcv' = [rcv EXCEPT ![c] = "loop"] /\ receive_thread' = c
  /\ receive_flag' = TRUE
  /\ UNCHANGED <<peer, probe_stop, rcvOn>>

\* The end of connect_unlocked: by now the new receive thread is running.
Announce ==
  /\ auto_reconnect_allowed' = FALSE /\ auto_reconnect_pending' = FALSE
  /\ Put(callback, CONNECTED)
  /\ UNCHANGED auto_reconnect

\* connect: ALREADY_CONNECTED, or connect_unlocked(False) with a context.
ConnectLocks(u) ==
  /\ pc[u] = "connect" /\ socket_lock = NoOne
  /\ IF socket # 0
     THEN Goto(u, "idle") /\ UNCHANGED <<socket_lock, callback, contexts, cb>>
     ELSE /\ socket_lock' = u
          /\ Goto(u, "attempt")
          /\ WithContext(0, "")
  /\ UNCHANGED <<sockVars, peer, rcvVars, prbVars, queue, cbId, autoVars, taken, ops>>

ConnectOk(u) ==
  /\ pc[u] = "attempt"
  /\ Establish
  /\ Goto(u, "announce")
  /\ UNCHANGED <<socket_lock, cbVars, autoVars, taken, ops>>

ConnectAnnounces(u) ==
  /\ pc[u] = "announce"
  /\ Announce
  /\ socket_lock' = NoOne
  /\ Goto(u, "idle")
  /\ UNCHANGED <<sockVars, peer, rcvVars, prbVars, callback, contexts, cb, cbId, taken, ops>>

\* tmp.connect raises: the cleanup ends the callback thread, with socket_lock
\* held.
ConnectRefused(u) ==
  /\ pc[u] = "attempt"
  /\ (IF socket_id = 0 THEN "first" ELSE "again") \in Refused
  /\ Put(callback, EXIT)
  /\ Goto(u, "cleanup")
  /\ UNCHANGED <<sockVars, socket_lock, peer, rcvVars, prbVars, callback, contexts, cb, cbId, autoVars, taken, ops>>

ConnectCleanup(u) ==
  /\ pc[u] = "cleanup" /\ cb[callback] = "ended"
  /\ callback' = 0
  /\ socket_lock' = NoOne
  /\ Goto(u, "idle")
  /\ UNCHANGED <<sockVars, peer, rcvVars, prbVars, contexts, queue, cb, cbId, autoVars, taken, ops>>

---------------------------------------------------------------------------
(* disconnect and send.  Both end the connection with disconnect_unlocked: *)
(* the labels of a user in it are <<op>>_probe and <<op>>_receive.          *)

\* disconnect: a pending auto reconnect is called off, otherwise NOT_CONNECTED
\* or disconnect_unlocked.
DisconnectLocks(u) ==
  /\ pc[u] = "disconnect" /\ socket_lock = NoOne
  /\ auto_reconnect_allowed' = FALSE
  /\ auto_reconnect_pending' = FALSE
  /\ UNCHANGED auto_reconnect
  /\ IF auto_reconnect_pending
     THEN /\ taken' = [taken EXCEPT ![u] = callback] /\ callback' = 0
          /\ Goto(u, "exit")
          /\ UNCHANGED <<socket_lock, probe_stop>>
     ELSE IF socket = 0
     THEN Goto(u, "idle") /\ UNCHANGED <<socket_lock, probe_stop, taken, callback>>
     ELSE /\ socket_lock' = u
          /\ probe_stop' = [probe_stop EXCEPT ![socket] = TRUE]
          /\ Goto(u, "disconnect_probe")
          /\ UNCHANGED <<taken, callback>>
  /\ UNCHANGED <<sockVars, peer, rcvVars, probe_thread, prb, contexts, queue, cb, cbId, ops>>

\* send: NOT_CONNECTED, the packet goes out, or the socket reports an error;
\* then handle_disconnect_by_peer(..., True) runs under socket_lock.
SendLocks(u) ==
  /\ pc[u] = "send" /\ socket_lock = NoOne
  /\ \/ Goto(u, "idle") /\ UNCHANGED <<socket_lock, probe_stop, autoVars>>
     \/ /\ socket # 0 /\ peer[socket] # "up"
        /\ socket_lock' = u
        /\ auto_reconnect_allowed' = TRUE
        /\ probe_stop' = [probe_stop EXCEPT ![socket] = TRUE]
        /\ Goto(u, "send_probe")
        /\ UNCHANGED <<auto_reconnect, auto_reconnect_pending>>
  /\ UNCHANGED <<sockVars, peer, rcvVars, probe_thread, prb, cbVars, taken, ops>>

\* The probe thread is joined; without a probe thread or a context the code
\* runs into None (AttributeError) and gives up with the socket still there.
JoinProbe(u) ==
  /\ pc[u] \in {"disconnect_probe", "send_probe"}
  /\ probe_thread # 0 => prb[probe_thread] = "ended"
  /\ probe_thread' = 0
  /\ IF probe_thread = 0 \/ callback = 0
     THEN /\ socket_lock' = NoOne /\ Goto(u, "idle")
          /\ UNCHANGED <<local, receive_flag>>
     ELSE /\ receive_flag' = FALSE
          /\ local' = [local EXCEPT ![socket] = "shutdown"]
          /\ Goto(u, IF pc[u] = "send_probe" THEN "send_receive" ELSE "disconnect_receive")
          /\ UNCHANGED socket_lock
  /\ UNCHANGED <<socket, socket_id, peer, receive_thread, rcv, rcvOn, probe_stop, prb,
                 cbVars, autoVars, taken, ops>>

\* Fault: disconnect ends the callback thread with socket_lock held.
JoinReceiveLocked(u) ==
  /\ pc[u] \in {"disconnect_receive", "send_receive"}
  /\ receive_thread # 0 => rcv[receive_thread] = "ended"
  /\ receive_thread' = 0
  /\ local' = [local EXCEPT ![socket] = "closed"]
  /\ socket' = 0
  /\ IF pc[u] = "send_receive"
     THEN /\ Put(callback, DISCONNECTED("ERROR", 0))
          /\ Goto(u, "idle") /\ socket_lock' = NoOne
          /\ UNCHANGED <<callback, taken>>
     ELSE /\ taken' = [taken EXCEPT ![u] = callback] /\ callback' = 0
          /\ Goto(u, "exit")
          /\ UNCHANGED <<queue, socket_lock>>
  /\ UNCHANGED <<socket_id, peer, receive_flag, rcv, rcvOn, prbVars, contexts, cb, cbId, autoVars, ops>>

JoinReceive(u) ==
  /\ pc[u] \in {"disconnect_receive", "send_receive"}
  /\ receive_thread # 0 => rcv[receive_thread] = "ended"
  /\ receive_thread' = 0
  /\ local' = [local EXCEPT ![socket] = "closed"]
  /\ socket' = 0
  /\ socket_lock' = NoOne
  /\ IF pc[u] = "send_receive"
     THEN /\ Put(callback, DISCONNECTED("ERROR", 0))
          /\ Goto(u, "idle")
          /\ UNCHANGED <<callback, taken>>
     ELSE /\ taken' = [taken EXCEPT ![u] = callback] /\ callback' = 0
          /\ Goto(u, "exit")
          /\ UNCHANGED queue
  /\ UNCHANGED <<socket_id, peer, receive_flag, rcv, rcvOn, prbVars, contexts, cb, cbId, autoVars, ops>>

\* Outside socket_lock: the callback thread is told to end and joined.
Exit(u) ==
  /\ pc[u] = "exit"
  /\ IF taken[u] = 0
     THEN Goto(u, "idle") /\ UNCHANGED queue
     ELSE /\ queue' = [queue EXCEPT ![taken[u]] =
                         @ \o <<DISCONNECTED("REQUEST", 0), EXIT>>]
          /\ Goto(u, "join")
  /\ UNCHANGED <<sockVars, socket_lock, peer, rcvVars, prbVars, callback, contexts, cb, cbId, autoVars, taken, ops>>

Join(u) ==
  /\ pc[u] = "join" /\ cb[taken[u]] = "ended"
  /\ Goto(u, "idle")
  /\ taken' = [taken EXCEPT ![u] = 0]
  /\ UNCHANGED <<sockVars, socket_lock, peer, rcvVars, prbVars, cbVars, autoVars, ops>>

---------------------------------------------------------------------------
(* The daemon's end of a connection: lost for good, or seen to be closed.  *)
PeerGoes(c, how) ==
  /\ local[c] = "open" /\ peer[c] = "up"
  /\ Cardinality({d \in Conns : peer[d] # "up"}) < MaxLosses
  /\ peer' = [peer EXCEPT ![c] = how]
  /\ UNCHANGED <<sockVars, socket_lock, rcvVars, prbVars, cbVars, autoVars, userVars>>

---------------------------------------------------------------------------
(* receive_loop.  The flag and self.socket are read anew in every turn, so  *)
(* the receive thread of an old connection may read the new socket.        *)
ReceiveTurn(c) ==
  /\ rcv[c] = "loop"
  /\ IF receive_flag /\ socket # 0
     THEN rcv' = [rcv EXCEPT ![c] = "recv"] /\ rcvOn' = [rcvOn EXCEPT ![c] = socket]
     ELSE rcv' = [rcv EXCEPT ![c] = "ended"] /\ UNCHANGED rcvOn
  /\ UNCHANGED <<sockVars, socket_lock, peer, receive_flag, receive_thread, prbVars, cbVars, autoVars, userVars>>

\* Data arrived and was handled.
ReceiveData(c) ==
  /\ rcv[c] = "recv" /\ local[rcvOn[c]] # "closed"
  /\ rcv' = [rcv EXCEPT ![c] = "loop"]
  /\ UNCHANGED <<sockVars, socket_lock, peer, receive_flag, receive_thread, rcvOn, prbVars, cbVars, autoVars, userVars>>

\* recv returns nothing or fails; the flag tells whether that was asked for.
ReceiveEnds(c) ==
  /\ rcv[c] = "recv"
  /\ peer[rcvOn[c]] = "closed" \/ local[rcvOn[c]] # "open"
  /\ rcv' = [rcv EXCEPT ![c] = IF receive_flag THEN "allow" ELSE "ended"]
  /\ UNCHANGED <<sockVars, socket_lock, peer, receive_flag, receive_thread, rcvOn, prbVars, cbVars,
                 autoVars, userVars>>

\* handle_disconnect_by_peer(..., False) first allows the auto reconnect,
\* whatever disconnect has decided meanwhile, then queues the message.
ReceiveAllows(c) ==
  /\ rcv[c] = "allow"
  /\ rcv' = [rcv EXCEPT ![c] = "report"]
  /\ auto_reconnect_allowed' = TRUE
  /\ UNCHANGED <<sockVars, socket_lock, peer, receive_flag, receive_thread, rcvOn, prbVars, cbVars,
                 auto_reconnect, auto_reconnect_pending, userVars>>

\* Without a context the thread dies of the AttributeError.
Report(id) == IF callback = 0 THEN UNCHANGED queue
                              ELSE Put(callback, DISCONNECTED("ERROR", id))

ReceiveReports(c) ==
  /\ rcv[c] = "report"
  /\ Report(c)
  /\ rcv' = [rcv EXCEPT ![c] = "ended"]
  /\ UNCHANGED <<sockVars, socket_lock, peer, receive_flag, receive_thread, rcvOn, prbVars, callback,
                 contexts, cb, cbId, autoVars, userVars>>

---------------------------------------------------------------------------
(* disconnect_probe_loop: ends when told to, reports a probe that cannot   *)
(* be sent with the socket_id of that moment.                              *)
ProbeStops(c) ==
  /\ prb[c] = "wait" /\ probe_stop[c]
  /\ prb' = [prb EXCEPT ![c] = "ended"]
  /\ UNCHANGED <<sockVars, socket_lock, peer, rcvVars, probe_thread, probe_stop, cbVars, autoVars, userVars>>

\* Fault: the probe that cannot be sent is not reported.
ProbeFailsQuietly(c) ==
  /\ prb[c] = "wait" /\ socket # 0 /\ peer[socket] # "up"
  /\ prb' = [prb EXCEPT ![c] = "ended"]
  /\ UNCHANGED <<sockVars, socket_lock, peer, rcvVars, probe_thread, probe_stop, cbVars,
                 autoVars, userVars>>

ProbeFails(c) ==
  /\ prb[c] = "wait" /\ socket # 0 /\ peer[socket] # "up"
  /\ prb' = [prb EXCEPT ![c] = "report"]
  /\ auto_reconnect_allowed' = TRUE
  /\ UNCHANGED <<sockVars, socket_lock, peer, rcvVars, probe_thread, probe_stop, cbVars,
                 auto_reconnect, auto_reconnect_pending, userVars>>

ProbeReports(c) ==
  /\ prb[c] = "report"
  /\ Report(socket_id)
  /\ prb' = [prb EXCEPT ![c] = "ended"]
  /\ UNCHANGED <<sockVars, socket_lock, peer, rcvVars, probe_thread, probe_stop, callback, contexts, cb, cbId,
                 autoVars, userVars>>

---------------------------------------------------------------------------
(* callback_loop and dispatch_meta.  The callbacks of the application only *)
(* note what they are told.                                                *)
GetMessage(k) ==
  LET m == Head(queue[k]) IN
  /\ cb[k] = "get" /\ queue[k] # << >>
  /\ queue' = [queue EXCEPT ![k] = Tail(@)]
  /\ cbId' = [cbId EXCEPT ![k] = m.id]
  /\ CbGoto(k, CASE m.kind = "EXIT" -> "ended"
                 [] m.kind = "DISCONNECTED" /\ m.reason = "ERROR" -> "close"
                 [] OTHER -> "get")
  /\ UNCHANGED <<sockVars, socket_lock, peer, rcvVars, prbVars, callback, contexts, autoVars, userVars>>

\* The socket is closed unless it is another one, or none, by now.
CloseLocks(k) ==
  /\ cb[k] = "close" /\ socket_lock = NoOne
  /\ IF socket # 0 /\ socket_id = cbId[k]
     THEN /\ socket_lock' = k
          /\ probe_stop' = [probe_stop EXCEPT ![socket] = TRUE]
          /\ CbGoto(k, "close_probe")
     ELSE CbGoto(k, "notify") /\ UNCHANGED <<socket_lock, probe_stop>>
  /\ UNCHANGED <<sockVars, peer, rcvVars, probe_thread, prb, callback, contexts, queue, cbId, autoVars, userVars>>

\* Fault: the probe thread is told to end but not joined.
CloseUnjoined(k) ==
  /\ cb[k] = "close_probe"
  /\ probe_thread' = 0
  /\ socket_lock' = NoOne
  /\ local' = [local EXCEPT ![socket] = "closed"]
  /\ socket' = 0
  /\ CbGoto(k, "notify")
  /\ UNCHANGED <<socket_id, peer, rcvVars, probe_stop, prb, callback, contexts, queue, cbId, autoVars, userVars>>

\* The receive thread is neither stopped nor joined here.
CloseJoins(k) ==
  /\ cb[k] = "close_probe"
  /\ probe_thread # 0 => prb[probe_thread] = "ended"
  /\ probe_thread' = 0
  /\ socket_lock' = NoOne
  /\ IF probe_thread = 0
     THEN CbGoto(k, "ended") /\ UNCHANGED <<socket, local>>
     ELSE /\ local' = [local EXCEPT ![socket] = "closed"]
          /\ socket' = 0
          /\ CbGoto(k, "notify")
  /\ UNCHANGED <<socket_id, peer, rcvVars, probe_stop, prb, callback, contexts, queue, cbId, autoVars, userVars>>

\* The application's callback has been called; is an auto reconnect due?
Notify(k) ==
  /\ cb[k] = "notify"
  /\ CbGoto(k, IF auto_reconnect /\ auto_reconnect_allowed THEN "pending" ELSE "get")
  /\ UNCHANGED <<sockVars, socket_lock, peer, rcvVars, prbVars, callback, contexts, queue, cbId, autoVars, userVars>>

SetPending(k) ==
  /\ cb[k] = "pending"
  /\ auto_reconnect_pending' = TRUE
  /\ CbGoto(k, "retry")
  /\ UNCHANGED <<sockVars, socket_lock, peer, rcvVars, prbVars, callback, contexts, queue, cbId,
                 auto_reconnect, auto_reconnect_allowed, userVars>>

\* Fault: the auto reconnect does not look whether there is a socket by now.
RetryLocksBlind(k) ==
  /\ cb[k] = "retry" /\ socket_lock = NoOne
  /\ IF auto_reconnect_allowed
     THEN /\ socket_lock' = k
          /\ WithContext(k, "retry_attempt")
          /\ UNCHANGED <<auto_reconnect, auto_reconnect_pending>>
     ELSE /\ auto_reconnect_pending' = FALSE
          /\ CbGoto(k, "get")
          /\ UNCHANGED <<socket_lock, callback, contexts>>
  /\ UNCHANGED <<sockVars, peer, rcvVars, prbVars, queue, cbId, auto_reconnect, auto_reconnect_allowed, userVars>>

RetryLocks(k) ==
  /\ cb[k] = "retry" /\ socket_lock = NoOne
  /\ IF auto_reconnect_allowed /\ socket = 0
     THEN /\ socket_lock' = k
          /\ WithContext(k, "retry_attempt")
          /\ UNCHANGED <<auto_reconnect, auto_reconnect_pending>>
     ELSE /\ auto_reconnect_pending' = FALSE
          /\ CbGoto(k, "get")
          /\ UNCHANGED <<socket_lock, callback, contexts>>
  /\ UNCHANGED <<sockVars, peer, rcvVars, prbVars, queue, cbId, auto_reconnect, auto_reconnect_allowed, userVars>>

RetryOk(k) ==
  /\ cb[k] = "retry_attempt"
  /\ Establish
  /\ CbGoto(k, "retry_announce")
  /\ UNCHANGED <<socket_lock, callback, contexts, queue, cbId, autoVars, userVars>>

RetryRefused(k) ==
  /\ cb[k] = "retry_attempt" /\ "retry" \in Refused
  /\ socket_lock' = NoOne
  /\ CbGoto(k, "retry")
  /\ UNCHANGED <<sockVars, peer, rcvVars, prbVars, callback, contexts, queue, cbId, autoVars, userVars>>

RetryAnnounces(k) ==
  /\ cb[k] = "retry_announce"
  /\ Announce
  /\ socket_lock' = NoOne
  /\ CbGoto(k, "get")
  /\ UNCHANGED <<sockVars, peer, rcvVars, prbVars, callback, contexts, cbId, userVars>>

---------------------------------------------------------------------------
Receiver(c) ==
  ReceiveTurn(c) \/ ReceiveEnds(c) \/ ReceiveAllows(c) \/ ReceiveReports(c)
Prober(c) == ProbeStops(c) \/ ProbeFails(c) \/ ProbeReports(c)
Callbacks(k) ==
  \/ GetMessage(k) \/ CloseLocks(k) \/ CloseJoins(k) \/ Notify(k) \/ SetPending(k)
  \/ RetryLocks(k) \/ RetryOk(k) \/ RetryRefused(k) \/ RetryAnnounces(k)
Step(u) ==
  \/ ConnectLocks(u) \/ ConnectOk(u) \/ ConnectRefused(u) \/ ConnectCleanup(u)
  \/ ConnectAnnounces(u) \/ DisconnectLocks(u) \/ SendLocks(u)
  \/ JoinProbe(u) \/ JoinReceive(u) \/ Exit(u) \/ Join(u)

Next ==
  \/ \E u \in Users :
       \/ \E op \in {"connect", "disconnect", "send"} : Begin(u, op)
       \/ \E v \in BOOLEAN : SetAutoReconnect(u, v)
       \/ Step(u)
  \/ \E c \in Conns :
       \/ \E how \in {"closed", "silent"} : PeerGoes(c, how)
       \/ Receiver(c) \/ ReceiveData(c) \/ Prober(c)
  \/ \E k \in Contexts : Callbacks(k)

Spec == Init /\ [][Next]_vars

\* The operating system runs every thread; whoever waits for socket_lock gets
\* it when it is free again and again (the auto reconnect sleeps between its
\* attempts).  Nothing is assumed of the daemon: it may refuse for ever.
Fairness ==
  /\ \A u \in Users : SF_vars(Step(u))
  /\ \A c \in Conns : WF_vars(Receiver(c)) /\ WF_vars(Prober(c))
  /\ \A k \in Contexts : SF_vars(Callbacks(k))

FairSpec == Spec /\ Fairness

---------------------------------------------------------------------------
(* Properties.                                                             *)

\* The type invariant.
IPConnectionTypeOK ==
  /\ socket \in 0 .. MaxConns /\ socket_id \in 0 .. MaxConns
  /\ socket_lock \in Users \cup Contexts \cup {NoOne}
  /\ local \in [Conns -> {"new", "open", "shutdown", "closed"}]
  /\ peer \in [Conns -> {"up", "closed", "silent"}]
  /\ receive_flag \in BOOLEAN /\ receive_thread \in 0 .. MaxConns
  /\ probe_thread \in 0 .. MaxConns /\ probe_stop \in [Conns -> BOOLEAN]
  /\ rcv \in [Conns -> {"new", "loop", "recv", "allow", "report", "ended"}]
  /\ rcvOn \in [Conns -> 0 .. MaxConns]
  /\ prb \in [Conns -> {"new", "wait", "report", "ended"}]
  /\ callback \in 0 .. MaxContexts /\ contexts \in 0 .. MaxContexts
  /\ queue \in [Contexts -> Seq(Messages)]
  /\ cb \in [Contexts -> {"new", "get", "close", "close_probe", "notify", "pending", "retry",
                          "retry_attempt", "retry_announce", "ended"}]
  /\ cbId \in [Contexts -> 0 .. MaxConns]
  /\ auto_reconnect \in BOOLEAN
  /\ auto_reconnect_allowed \in BOOLEAN /\ auto_reconnect_pending \in BOOLEAN
  /\ pc \in [Users -> {"idle", "connect", "disconnect", "send", "attempt",
                       "announce", "cleanup", "disconnect_probe", "send_probe",
                       "disconnect_receive", "send_receive", "exit", "join"}]
  /\ taken \in [Users -> 0 .. MaxContexts]
  /\ ops \in 0 .. MaxOps

\* No socket is lost: every connection that has been opened and not closed is
\* the current one, whichever of connect, disconnect, a failing send, the
\* close after a lost connection and the auto reconnect run at the same time.
\* In particular connect_unlocked finds socket None and disconnect_unlocked
\* finds it not None ("NOTE: assumes that", ip_connection.py:523 and 632).
OneSocket ==
  /\ \A c \in Conns : local[c] \in {"open", "shutdown"} <=> c = socket
  /\ \A u \in Users : pc[u] = "attempt" => socket = 0
  /\ \A u \in Users : pc[u] \in {"disconnect_probe", "send_probe", "disconnect_receive", "send_receive"}
                        => socket # 0
  /\ \A k \in Contexts : cb[k] = "retry_attempt" => socket = 0
  /\ \A k \in Contexts : cb[k] = "close_probe" => socket # 0

\* A probe thread never outlives its connection, so self.socket is its own
\* socket whenever it sends a probe, and the socket_id it reports is its own
\* (it may not take socket_lock, ip_connection.py:813).
ProbesOwnSocket == \A c \in Conns : prb[c] \in {"wait", "report"} => c = socket

\* The daemon refuses an auto reconnect again and again (ip_connection.py:747 to
\* 760 loops for as long as it does).
RefusedForEver == []<><<\E k \in Contexts : RetryRefused(k)>>_vars

\* connect, disconnect and send return: no join waits for a thread that needs
\* a lock the joining thread holds (ip_connection.py:371).  The one way not to
\* return is a disconnect that joins a callback thread in whose auto reconnect
\* the daemon keeps refusing it (lines 380 and 747).
CallsReturn ==
  \A u \in Users :
    /\ pc[u] # "idle" ~> pc[u] \in {"join", "idle"}
    /\ (pc[u] = "join" ~> pc[u] = "idle") \/ RefusedForEver

\* A connection whose other end is gone is closed in the end, even if the
\* receive thread sees nothing of it, unless the callback thread that would
\* close it has been ended.
LossDetected ==
  \A c \in Conns : (peer[c] # "up") ~> (local[c] = "closed" \/ callback = 0)

\* disconnect `disconnects the TCP/IP connection' (ip_connection.py:352) and
\* aborts a pending auto reconnect (line 360): when it has ended the callback
\* thread and returns, there is no connection.  (With one thread that uses the
\* connection nobody else can have connected anew.)
DisconnectCloses ==
  [][\A u \in Users : pc[u] = "join" /\ pc'[u] = "idle" => socket' = 0]_vars
===========================================================================
