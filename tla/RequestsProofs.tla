-------------------------- MODULE RequestsProofs --------------------------
(***************************************************************************)
(* Requests for any threads, devices, functions, modulus and number of     *)
(* calls.  Two facts carry the proofs: request_lock is held by the thread  *)
(* that is between ExpectFunction and ClearSequence, and every packet      *)
(* anywhere has a sequence number that differs from its number by whole    *)
(* rounds of the counter.                                                  *)
(***************************************************************************)
EXTENDS Requests, TLAPS

Locked == {"expect", "send", "get", "clear", "release"}

\* Where a thread is in send_request, and what its device then expects.
ControlOf(t) ==
  /\ pc[t] # "idle" => call[t] \in Packets
  /\ pc[t] \in Locked => request_lock[call[t].dev] = t
  /\ pc[t] \in {"expect", "send", "get"} => expectedFn[call[t].dev] = call[t].fn
  /\ pc[t] \in {"send", "get"} => expectedSeq[call[t].dev] = call[t].seq

Control == \A t \in Threads : ControlOf(t)

\* The number and the sequence number of a packet belong together.
SeqOK(p) == \E k \in Nat : p.n = k * SeqMod + p.seq

Counter == \E k \in Nat : drawn = k * SeqMod + next_sequence_number

\* All packets are numbered by the counter, and lie in the queue of their device.
Numbered ==
  /\ Counter
  /\ \A t \in Threads : pc[t] # "idle" => SeqOK(call[t])
  /\ \A p \in wire \cup net : SeqOK(p)
  /\ \A d \in Devices : \A i \in 1 .. Len(queue[d]) : SeqOK(queue[d][i]) /\ queue[d][i].dev = d
  /\ rx.pc # "recv" => rx.packet \in Packets /\ SeqOK(rx.packet)

\* The answer a thread took has its device, its function and its sequence number.
TookOf(t) ==
  response[t] # None =>
    /\ call[t] \in Packets /\ SeqOK(call[t]) /\ SeqOK(response[t])
    /\ response[t].dev = call[t].dev /\ response[t].fn = call[t].fn
    /\ response[t].seq = call[t].seq

Took == \A t \in Threads : TookOf(t)

RequestsInv == RequestsTypeOK /\ Control /\ Numbered /\ Took

---------------------------------------------------------------------------
(* The sequence counter.                                                   *)

\* Remainders of numbers in and around one round.
LEMMA Remainders ==
  ASSUME NEW M \in Nat \ {0}
  PROVE  /\ \A x \in 0 .. M - 1 : x % M = x
         /\ M % M = 0
         /\ \A k \in Int : (k * M) % M = 0
  OBVIOUS

\* get_next_sequence_number counts on, and hands out a number of 1 .. SeqMod.
LEMMA CounterStep ==
  ASSUME next_sequence_number \in 0 .. SeqMod - 1, drawn \in Nat, Counter,
         drawn' = drawn + 1, next_sequence_number' = Following
  PROVE  /\ next_sequence_number' \in 0 .. SeqMod - 1 /\ Counter'
         /\ get_next_sequence_number \in 1 .. SeqMod
         /\ \E k \in Nat : drawn + 1 = k * SeqMod + get_next_sequence_number
<1>1. SeqMod \in Nat \ {0}
  BY RequestsAssumption
<1>2. PICK k \in Nat : drawn = k * SeqMod + next_sequence_number
  BY DEF Counter
<1>3. k * SeqMod \in Nat /\ (k + 1) * SeqMod = k * SeqMod + SeqMod
  BY <1>1
<1>4. drawn + 1 = k * SeqMod + get_next_sequence_number
  BY <1>1, <1>2, <1>3 DEF get_next_sequence_number
<1>5. CASE next_sequence_number + 1 = SeqMod
  <2>1. next_sequence_number' = 0
    BY <1>1, <1>5, Remainders DEF Following, get_next_sequence_number
  <2>2. drawn' = (k + 1) * SeqMod + next_sequence_number'
    BY <1>1, <1>2, <1>3, <1>5, <2>1
  <2>3. Counter'
    BY <2>2 DEF Counter
  <2>4. QED BY <1>1, <1>4, <1>5, <2>1, <2>3 DEF get_next_sequence_number
<1>6. CASE next_sequence_number + 1 # SeqMod
  <2>1. next_sequence_number + 1 \in 0 .. SeqMod - 1
    BY <1>1, <1>6
  <2>2. next_sequence_number' = next_sequence_number + 1
    BY <1>1, <2>1, Remainders DEF Following, get_next_sequence_number
  <2>3. drawn' = k * SeqMod + next_sequence_number'
    BY <1>1, <1>2, <1>3, <2>2
  <2>4. Counter'
    BY <2>3 DEF Counter
  <2>5. QED BY <1>1, <1>4, <2>1, <2>2, <2>4 DEF get_next_sequence_number
<1>7. QED BY <1>5, <1>6

\* Packets with the same sequence number are whole rounds apart.
LEMMA SameSequence ==
  ASSUME NEW p \in Packets, NEW q \in Packets, SeqOK(p), SeqOK(q), p.seq = q.seq
  PROVE  (p.n - q.n) % SeqMod = 0
<1>1. SeqMod \in Nat \ {0} /\ p.seq \in Int
  BY RequestsAssumption DEF Packets
<1>2. PICK i \in Nat : p.n = i * SeqMod + p.seq
  BY DEF SeqOK
<1>3. PICK j \in Nat : q.n = j * SeqMod + q.seq
  BY DEF SeqOK
<1>4. p.n - q.n = (i - j) * SeqMod
  BY <1>1, <1>2, <1>3
<1>5. QED BY <1>1, <1>4, Remainders

---------------------------------------------------------------------------
(* The steps of a call.                                                    *)

\* Two threads never hold the lock of one device.
LEMMA LockExclusive ==
  ASSUME Control, NEW t \in Threads, NEW u \in Threads, t # u,
         pc[t] \in Locked, pc[u] \in Locked
  PROVE  call[t].dev # call[u].dev
  BY DEF Control, ControlOf

\* create_packet_header.
LEMMA HeaderStep ==
  ASSUME RequestsInv, NEW t \in Threads, NEW d \in Devices, NEW f \in Functions,
         CreatePacketHeader(t, d, f)
  PROVE  RequestsInv'
<1>1. RequestsTypeOK /\ Control /\ Numbered /\ Took
  BY DEF RequestsInv
<1>2. next_sequence_number \in 0 .. SeqMod - 1 /\ drawn \in 0 .. MaxCalls /\ drawn < MaxCalls
      /\ Counter /\ MaxCalls \in Nat
  BY <1>1, RequestsAssumption DEF RequestsTypeOK, CreatePacketHeader, Numbered
<1>3. /\ next_sequence_number' \in 0 .. SeqMod - 1 /\ Counter'
      /\ get_next_sequence_number \in 1 .. SeqMod
      /\ \E k \in Nat : drawn + 1 = k * SeqMod + get_next_sequence_number
  BY <1>2, CounterStep DEF CreatePacketHeader
<1> DEFINE r == [n |-> drawn + 1, dev |-> d, fn |-> f, seq |-> get_next_sequence_number]
<1>4. r \in Packets /\ SeqOK(r)
  BY <1>2, <1>3 DEF Packets, Numbers, SeqOK
<1>5. call' = [call EXCEPT ![t] = r] /\ response' = [response EXCEPT ![t] = None]
      /\ pc[t] = "idle" /\ drawn' \in 0 .. MaxCalls
      /\ UNCHANGED <<request_lock, expectedFn, expectedSeq, queue, wire, net, rx>>
  BY <1>2 DEF CreatePacketHeader, deviceVars
<1>6. PICK label \in {"plain", "lock"} : pc' = [pc EXCEPT ![t] = label]
  BY DEF CreatePacketHeader, Goto
<1> HIDE DEF r
<1>7. RequestsTypeOK'
  BY <1>1, <1>3, <1>4, <1>5, <1>6 DEF RequestsTypeOK
<1>8. Control'
  BY <1>1, <1>4, <1>5, <1>6 DEF RequestsTypeOK, Control, ControlOf, Locked
<1>9. Numbered'
  <2>1. \A u \in Threads : pc'[u] # "idle" => SeqOK(call'[u])
    BY <1>1, <1>4, <1>5, <1>6 DEF RequestsTypeOK, Numbered
  <2>2. QED BY <1>1, <1>3, <1>5, <2>1 DEF Numbered, SeqOK
<1>10. Took'
  BY <1>1, <1>5 DEF RequestsTypeOK, Took, TookOf, SeqOK
<1>11. QED BY <1>7, <1>8, <1>9, <1>10 DEF RequestsInv

\* The steps of a thread that move no packet: they keep the numbers, whatever
\* they do to the lock and the expected fields.
LEMMA QuietFrame ==
  ASSUME RequestsInv, NEW t \in Threads, NEW label, pc[t] # "idle",
         pc' = [pc EXCEPT ![t] = label],
         UNCHANGED <<next_sequence_number, drawn, call, response, queue, wire, net, rx>>
  PROVE  Numbered' /\ Took'
<1>1. \A u \in Threads : pc'[u] # "idle" => pc[u] # "idle"
  BY DEF RequestsInv, RequestsTypeOK
<1>2. Numbered'
  BY <1>1 DEF RequestsInv, Numbered, Counter, SeqOK
<1>3. Took'
  BY DEF RequestsInv, Took, TookOf, SeqOK
<1>4. QED BY <1>2, <1>3

\* SendPlain, Send, SendFails and TimedOut change neither lock nor expected
\* fields.
LEMMA ControlFrame ==
  ASSUME RequestsTypeOK, Control, NEW t \in Threads, NEW label,
         pc' = [pc EXCEPT ![t] = label],
         UNCHANGED <<call, request_lock, expectedFn, expectedSeq>>,
         \/ label = "idle"
         \/ pc[t] = "send" /\ label \in {"get", "clear"}
         \/ pc[t] = "get" /\ label = "clear"
  PROVE  Control'
  BY DEF RequestsTypeOK, Control, ControlOf, Locked

\* The steps that end a call early, or need no answer.
LEMMA PlainSteps ==
  ASSUME RequestsInv, NEW t \in Threads, SendPlain(t) \/ SendFails(t) \/ TimedOut(t)
  PROVE  RequestsInv'
<1>1. /\ pc[t] # "idle"
      /\ UNCHANGED <<next_sequence_number, drawn, call, response, request_lock, expectedFn,
                     expectedSeq, queue, wire, net, rx>>
  BY DEF SendPlain, SendFails, TimedOut, deviceVars
<1>2. PICK label \in {"idle", "clear"} :
        /\ pc' = [pc EXCEPT ![t] = label]
        /\ label = "idle" \/ pc[t] \in {"send", "get"}
  BY DEF SendPlain, SendFails, TimedOut, Goto
<1>3. Numbered' /\ Took'
  BY <1>1, <1>2, QuietFrame
<1>4. Control'
  BY <1>1, <1>2, ControlFrame DEF RequestsInv
<1>5. RequestsTypeOK'
  BY <1>1, <1>2 DEF RequestsInv, RequestsTypeOK
<1>6. QED BY <1>3, <1>4, <1>5 DEF RequestsInv

\* with device.request_lock: ... expected_response_function_id = function_id.
LEMMA ExpectFunctionStep ==
  ASSUME RequestsInv, NEW t \in Threads, ExpectFunction(t)
  PROVE  RequestsInv'
<1> DEFINE d == call[t].dev
<1>1. RequestsTypeOK /\ Control
  BY DEF RequestsInv
<1>2. call[t] \in Packets /\ d \in Devices /\ call[t].fn \in Functions
  BY <1>1 DEF Control, ControlOf, ExpectFunction, Packets
<1>3. /\ pc[t] = "lock" /\ request_lock[d] = None /\ pc' = [pc EXCEPT ![t] = "expect"]
      /\ request_lock' = [request_lock EXCEPT ![d] = t]
      /\ expectedFn' = [expectedFn EXCEPT ![d] = call[t].fn]
      /\ UNCHANGED <<next_sequence_number, drawn, call, response, expectedSeq, queue, wire, net, rx>>
  BY DEF ExpectFunction, Goto
<1>4. Numbered' /\ Took'
  BY <1>3, QuietFrame
<1>5. RequestsTypeOK'
  BY <1>1, <1>2, <1>3 DEF RequestsTypeOK
<1>6. ASSUME NEW u \in Threads PROVE ControlOf(u)'
  <2>1. CASE u = t
    BY <1>1, <1>2, <1>3, <2>1 DEF RequestsTypeOK, ControlOf
  <2>2. CASE u # t
    <3>1. pc'[u] = pc[u] /\ ControlOf(u)
      BY <1>1, <1>3, <2>2 DEF RequestsTypeOK, Control
    <3>2. pc[u] \in Locked => call[u].dev # d
      BY <1>3, <3>1, RequestsAssumption DEF ControlOf
    <3>3. pc[u] \in Locked => call[u].dev \in Devices
      BY <3>1 DEF ControlOf, Packets, Locked
    <3>4. pc[u] \in Locked =>
            /\ request_lock'[call[u].dev] = request_lock[call[u].dev]
            /\ expectedFn'[call[u].dev] = expectedFn[call[u].dev]
      BY <1>1, <1>3, <3>2, <3>3 DEF RequestsTypeOK
    <3>5. QED BY <1>3, <3>1, <3>4 DEF ControlOf, Locked
  <2>3. QED BY <2>1, <2>2
<1>7. QED BY <1>4, <1>5, <1>6 DEF RequestsInv, Control

\* The other writes to the fields of a device, by the thread that holds its lock.
LEMMA HolderSteps ==
  ASSUME RequestsInv, NEW t \in Threads,
         ExpectSequence(t) \/ ClearFunction(t) \/ ClearSequence(t)
  PROVE  RequestsInv'
<1> DEFINE d == call[t].dev
<1>1. RequestsTypeOK /\ Control /\ pc[t] \in Locked
  BY DEF RequestsInv, ExpectSequence, ClearFunction, ClearSequence, Locked
<1>2. call[t] \in Packets /\ d \in Devices /\ call[t].seq \in 1 .. SeqMod
  BY <1>1 DEF Control, ControlOf, Locked, Packets
<1>3. UNCHANGED <<next_sequence_number, drawn, call, response, queue, wire, net, rx>>
  BY DEF ExpectSequence, ClearFunction, ClearSequence
<1>4. PICK label \in {"send", "release", "idle"} : pc' = [pc EXCEPT ![t] = label]
  BY DEF ExpectSequence, ClearFunction, ClearSequence, Goto
<1>5. Numbered' /\ Took'
  BY <1>1, <1>3, <1>4, QuietFrame DEF Locked
<1>6. RequestsTypeOK'
  <2>1. /\ request_lock' \in [Devices -> Threads \cup {None}]
        /\ expectedFn' \in [Devices -> Functions \cup {None}]
        /\ expectedSeq' \in [Devices -> 1 .. SeqMod \cup {None}]
    BY <1>1, <1>2 DEF RequestsTypeOK, ExpectSequence, ClearFunction, ClearSequence
  <2>2. QED BY <1>1, <1>3, <1>4, <2>1 DEF RequestsTypeOK
<1>7. ASSUME NEW u \in Threads PROVE ControlOf(u)'
  <2>1. CASE u = t
    BY <1>1, <1>2, <2>1 DEF RequestsTypeOK, Control, ControlOf, ExpectSequence, ClearFunction,
       ClearSequence, Goto, Locked
  <2>2. CASE u # t
    <3>1. pc'[u] = pc[u] /\ ControlOf(u)
      BY <1>1, <1>4, <2>2 DEF RequestsTypeOK, Control
    <3>2. pc[u] \in Locked => call[u].dev # d /\ call[u].dev \in Devices
      BY <1>1, <2>2, <3>1, LockExclusive DEF ControlOf, Packets, Locked
    <3>3. pc[u] \in Locked =>
            /\ request_lock'[call[u].dev] = request_lock[call[u].dev]
            /\ expectedFn'[call[u].dev] = expectedFn[call[u].dev]
            /\ expectedSeq'[call[u].dev] = expectedSeq[call[u].dev]
      BY <1>1, <3>2 DEF RequestsTypeOK, ExpectSequence, ClearFunction, ClearSequence
    <3>4. QED BY <1>3, <3>1, <3>3 DEF ControlOf, Locked
  <2>3. QED BY <2>1, <2>2
<1>8. QED BY <1>5, <1>6, <1>7 DEF RequestsInv, Control

\* The request goes out.
LEMMA SendStep ==
  ASSUME RequestsInv, NEW t \in Threads, Send(t)
  PROVE  RequestsInv'
<1>1. RequestsTypeOK /\ Control /\ Numbered /\ Took
  BY DEF RequestsInv
<1>2. /\ pc[t] = "send" /\ pc' = [pc EXCEPT ![t] = "get"] /\ wire' = wire \cup {call[t]}
      /\ UNCHANGED <<next_sequence_number, drawn, call, response, request_lock, expectedFn,
                     expectedSeq, queue, net, rx>>
  BY DEF Send, Goto, deviceVars
<1>3. call[t] \in Packets /\ SeqOK(call[t])
  BY <1>1, <1>2 DEF Control, ControlOf, Numbered
<1>4. RequestsTypeOK'
  BY <1>1, <1>2, <1>3 DEF RequestsTypeOK
<1>5. Control'
  BY <1>1, <1>2, ControlFrame
<1>6. Numbered'
  <2>1. \A u \in Threads : pc'[u] # "idle" => pc[u] # "idle"
    BY <1>1, <1>2 DEF RequestsTypeOK
  <2>2. QED BY <1>1, <1>2, <1>3, <2>1 DEF Numbered, Counter, SeqOK
<1>7. Took'
  BY <1>1, <1>2 DEF Took, TookOf, SeqOK
<1>8. QED BY <1>4, <1>5, <1>6, <1>7 DEF RequestsInv

\* One turn of the loop over response_queue.
LEMMA GetStep ==
  ASSUME RequestsInv, NEW t \in Threads, GetResponse(t)
  PROVE  RequestsInv'
<1> DEFINE d == call[t].dev
           p == Head(queue[d])
<1>1. RequestsTypeOK /\ Control /\ Numbered /\ Took
  BY DEF RequestsInv
<1>2. /\ pc[t] = "get" /\ queue[d] # << >> /\ queue' = [queue EXCEPT ![d] = Tail(queue[d])]
      /\ UNCHANGED <<next_sequence_number, drawn, call, request_lock, expectedFn, expectedSeq,
                     wire, net, rx>>
  BY DEF GetResponse
<1>3. call[t] \in Packets /\ d \in Devices /\ SeqOK(call[t]) /\ queue[d] \in Seq(Packets)
  BY <1>1, <1>2 DEF Control, ControlOf, Packets, Numbered, RequestsTypeOK
<1>4. p = queue[d][1] /\ 1 \in 1 .. Len(queue[d]) /\ p \in Packets
  BY <1>2, <1>3
<1>5. SeqOK(p) /\ p.dev = d
  BY <1>1, <1>3, <1>4 DEF Numbered
<1>6. queue' \in [Devices -> Seq(Packets)]
  BY <1>1, <1>2, <1>3 DEF RequestsTypeOK
<1>7. \A e \in Devices : \A i \in 1 .. Len(queue'[e]) : SeqOK(queue'[e][i]) /\ queue'[e][i].dev = e
  <2>1. ASSUME NEW i \in 1 .. Len(Tail(queue[d]))
        PROVE  SeqOK(Tail(queue[d])[i]) /\ Tail(queue[d])[i].dev = d
    <3>1. Tail(queue[d])[i] = queue[d][i + 1] /\ i + 1 \in 1 .. Len(queue[d])
      BY <1>2, <1>3, <2>1
    <3>2. QED BY <1>1, <1>3, <3>1 DEF Numbered
  <2>2. ASSUME NEW e \in Devices
        PROVE  queue'[e] = IF e = d THEN Tail(queue[d]) ELSE queue[e]
    BY <1>1, <1>2 DEF RequestsTypeOK
  <2>3. QED BY <1>1, <2>1, <2>2 DEF Numbered
<1>8. CASE Accepts(t, p)
  <2>1. response' = [response EXCEPT ![t] = p] /\ pc' = [pc EXCEPT ![t] = "clear"]
    BY <1>8 DEF GetResponse, Goto
  <2> HIDE DEF p
  <2>2. RequestsTypeOK'
    BY <1>1, <1>2, <1>4, <1>6, <2>1 DEF RequestsTypeOK
  <2>3. Control'
    BY <1>1, <1>2, <2>1, ControlFrame
  <2>4. Numbered'
    <3>1. \A u \in Threads : pc'[u] # "idle" => pc[u] # "idle"
      BY <1>1, <1>2, <2>1 DEF RequestsTypeOK
    <3>2. QED BY <1>1, <1>2, <1>7, <3>1 DEF Numbered, Counter, SeqOK
  <2>5. Took'
    BY <1>1, <1>2, <1>3, <1>5, <1>8, <2>1 DEF RequestsTypeOK, Took, TookOf, SeqOK, Accepts
  <2>6. QED BY <2>2, <2>3, <2>4, <2>5 DEF RequestsInv
<1>9. CASE ~Accepts(t, p)
  <2>1. UNCHANGED <<response, pc>>
    BY <1>9 DEF GetResponse
  <2>2. RequestsTypeOK' /\ Control'
    BY <1>1, <1>2, <1>6, <2>1 DEF RequestsTypeOK, Control, ControlOf
  <2>3. Numbered'
    BY <1>1, <1>2, <1>7, <2>1 DEF Numbered, Counter, SeqOK
  <2>4. Took'
    BY <1>1, <1>2, <2>1 DEF Took, TookOf, SeqOK
  <2>5. QED BY <2>2, <2>3, <2>4 DEF RequestsInv
<1>10. QED BY <1>8, <1>9

---------------------------------------------------------------------------
(* The devices and the receive thread.                                     *)

\* What the threads of the application own is left alone.
LEMMA ReceiveFrame ==
  ASSUME Control, Took,
         UNCHANGED <<pc, call, response, request_lock, expectedFn, expectedSeq>>
  PROVE  Control' /\ Took'
  BY DEF Control, ControlOf, Took, TookOf, SeqOK

\* An answer, and handle_response: packets only move on.
LEMMA ReceiveSteps ==
  ASSUME RequestsInv,
         \/ \E r \in wire : DeviceAnswers(r)
         \/ Receive
  PROVE  RequestsInv'
<1>1. RequestsTypeOK /\ Control /\ Numbered /\ Took
  BY DEF RequestsInv
<1>2. UNCHANGED <<next_sequence_number, drawn, pc, call, response, request_lock, expectedFn,
                  expectedSeq>>
  BY DEF DeviceAnswers, Receive, CompareFunction, CompareSequence, PutResponse, deviceVars
<1>3. Control' /\ Took'
  BY <1>1, <1>2, ReceiveFrame
<1>4. ASSUME NEW r \in wire, DeviceAnswers(r)
      PROVE  RequestsTypeOK' /\ Numbered'
  <2>1. wire' = wire \ {r} /\ net' = net \cup {r} /\ UNCHANGED <<queue, rx>>
    BY <1>4 DEF DeviceAnswers, deviceVars
  <2>2. QED BY <1>1, <1>2, <2>1 DEF RequestsTypeOK, Numbered, Counter, SeqOK
<1>5. ASSUME NEW p \in net, CompareFunction(p)
      PROVE  RequestsTypeOK' /\ Numbered'
  <2>1. /\ net' = net \ {p} /\ UNCHANGED <<queue, wire>>
        /\ rx' = rx \/ rx' = [pc |-> "sequence", packet |-> p]
    BY <1>5 DEF CompareFunction, deviceVars
  <2>2. p \in Packets /\ SeqOK(p)
    BY <1>1, <1>5 DEF RequestsTypeOK, Numbered
  <2>3. RequestsTypeOK'
    BY <1>1, <1>2, <2>1, <2>2 DEF RequestsTypeOK
  <2>4. Numbered'
    BY <1>1, <1>2, <2>1, <2>2 DEF Numbered, Counter, SeqOK
  <2>5. QED BY <2>3, <2>4
<1>6. CASE CompareSequence
  <2>1. /\ rx.pc = "sequence" /\ UNCHANGED <<queue, wire, net>>
        /\ rx' = [rx EXCEPT !.pc = "put"] \/ rx' = [pc |-> "recv", packet |-> None]
    BY <1>6 DEF CompareSequence, deviceVars
  <2>2. rx.packet \in Packets /\ SeqOK(rx.packet)
    BY <1>1, <2>1 DEF Numbered
  <2>3. RequestsTypeOK' /\ (rx'.pc # "recv" => rx'.packet = rx.packet)
    BY <1>1, <1>2, <2>1 DEF RequestsTypeOK
  <2>4. Numbered'
    BY <1>1, <1>2, <2>1, <2>2, <2>3 DEF Numbered, Counter, SeqOK
  <2>5. QED BY <1>3, <2>3, <2>4 DEF RequestsInv
<1>7. CASE PutResponse
  <2> DEFINE p == rx.packet
             d == rx.packet.dev
  <2>1. /\ rx.pc = "put" /\ UNCHANGED <<wire, net>>
        /\ queue' = [queue EXCEPT ![d] = Append(queue[d], p)]
        /\ rx' = [pc |-> "recv", packet |-> None]
    BY <1>7 DEF PutResponse
  <2>2. p \in Packets /\ SeqOK(p) /\ d \in Devices
    BY <1>1, <2>1 DEF Numbered, Packets
  <2>3. queue[d] \in Seq(Packets)
    BY <1>1, <2>2 DEF RequestsTypeOK
  <2>4. RequestsTypeOK'
    BY <1>1, <1>2, <2>1, <2>2, <2>3 DEF RequestsTypeOK
  <2>5. ASSUME NEW e \in Devices, NEW i \in 1 .. Len(queue'[e])
        PROVE  SeqOK(queue'[e][i]) /\ queue'[e][i].dev = e
    <3>1. CASE e # d
      BY <1>1, <2>1, <2>5, <3>1 DEF RequestsTypeOK, Numbered
    <3>2. CASE e = d
      <4>1. queue'[e] = Append(queue[d], p)
        BY <1>1, <2>1, <2>2, <3>2 DEF RequestsTypeOK
      <4>2. queue'[e][i] = p \/ (i \in 1 .. Len(queue[d]) /\ queue'[e][i] = queue[d][i])
        BY <2>3, <2>5, <4>1
      <4>3. QED BY <1>1, <2>2, <3>2, <4>2 DEF Numbered
    <3>3. QED BY <3>1, <3>2
  <2>6. Numbered'
    BY <1>1, <1>2, <2>1, <2>5 DEF Numbered, Counter, SeqOK
  <2>7. QED BY <1>3, <2>4, <2>6 DEF RequestsInv
<1>8. QED BY <1>3, <1>4, <1>5, <1>6, <1>7 DEF RequestsInv, Receive

---------------------------------------------------------------------------
(* The invariant of the specification.                                     *)

LEMMA RequestsInvInit == Init => RequestsInv
<1> SUFFICES ASSUME Init PROVE RequestsInv
  OBVIOUS
<1>1. SeqMod \in Nat \ {0} /\ MaxCalls \in Nat
  BY RequestsAssumption
<1>2. RequestsTypeOK
  BY <1>1 DEF Init, RequestsTypeOK
<1>3. Counter
  BY <1>1 DEF Init, Counter
<1>4. Control /\ Numbered /\ Took
  BY <1>3 DEF Init, Control, ControlOf, Numbered, Took, TookOf, Locked
<1>5. QED BY <1>2, <1>4 DEF RequestsInv

LEMMA RequestsInvStep == RequestsInv /\ [Next]_vars => RequestsInv'
<1> SUFFICES ASSUME RequestsInv, [Next]_vars PROVE RequestsInv'
  OBVIOUS
<1>1. ASSUME NEW t \in Threads, NEW d \in Devices, NEW f \in Functions,
             CreatePacketHeader(t, d, f)
      PROVE  RequestsInv'
  BY <1>1, HeaderStep
<1>2. ASSUME NEW t \in Threads, Step(t) PROVE RequestsInv'
  BY <1>2, PlainSteps, ExpectFunctionStep, HolderSteps, SendStep, GetStep DEF Step
<1>3. CASE (\E r \in wire : DeviceAnswers(r)) \/ Receive
  BY <1>3, ReceiveSteps
<1>4. CASE UNCHANGED vars
  <2>1. UNCHANGED <<next_sequence_number, drawn, pc, call, response, request_lock, expectedFn,
                    expectedSeq, queue, wire, net, rx>>
    BY <1>4 DEF vars
  <2>2. RequestsTypeOK' /\ Control' /\ Took'
    BY <2>1 DEF RequestsInv, RequestsTypeOK, Control, ControlOf, Took, TookOf, SeqOK
  <2>3. Numbered'
    BY <2>1 DEF RequestsInv, Numbered, Counter, SeqOK
  <2>4. QED BY <2>2, <2>3 DEF RequestsInv
<1>5. QED BY <1>1, <1>2, <1>3, <1>4 DEF Next

LEMMA RequestsInvariant == Spec => []RequestsInv
<1>1. QED BY RequestsInvInit, RequestsInvStep, PTL DEF Spec

---------------------------------------------------------------------------
(* Theorems.                                                               *)

\* Sequence numbers stay in 1 .. SeqMod and the fields of send_request and
\* handle_response hold what they are declared for.
THEOREM RequestTypes == Spec => []RequestsTypeOK
<1>1. RequestsInv => RequestsTypeOK
  BY DEF RequestsInv
<1>2. QED BY <1>1, RequestsInvariant, PTL

\* While a thread waits, its device expects its answer and nobody else's, for
\* any number of threads on any number of devices (send_request, lines 931 to
\* 951).
THEOREM DeviceExpectsCaller == Spec => []ExpectsOwn
<1>1. RequestsInv => ExpectsOwn
  BY DEF RequestsInv, Control, ControlOf, ExpectsOwn, Locked
<1>2. QED BY <1>1, RequestsInvariant, PTL

\* The answer a call returns is for its device and function, and for its own
\* request up to whole rounds of the sequence counter, although the receive
\* thread reads the expected fields without the lock.
THEOREM AnswersMatch == Spec => []AnswerMatches
<1>1. ASSUME RequestsInv, NEW t \in Threads, response[t] # None
      PROVE  /\ response[t].dev = call[t].dev /\ response[t].fn = call[t].fn
             /\ (response[t].n - call[t].n) % SeqMod = 0
  <2>1. TookOf(t) /\ response[t] \in Packets
    BY <1>1 DEF RequestsInv, Took, RequestsTypeOK
  <2>2. QED BY <1>1, <2>1, SameSequence DEF TookOf
<1>2. RequestsInv => AnswerMatches
  BY <1>1 DEF AnswerMatches
<1>3. QED BY <1>2, RequestsInvariant, PTL
===========================================================================
