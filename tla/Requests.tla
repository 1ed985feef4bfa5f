----------------------------- MODULE Requests -----------------------------
(***************************************************************************)
(* How a call finds its answer: IPConnection.send_request,                 *)
(* get_next_sequence_number and handle_response of                         *)
(* scripts/tinkerforge/ip_connection.py, with several application threads, *)
(* the receive thread and devices that answer late or not at all.          *)
(*                                                                         *)
(* The numbers handed out are counted: the n-th one is sent as sequence    *)
(* number (n - 1) % SeqMod + 1, so n identifies a request although its     *)
(* packet does not.  The fields expected_response_function_id and          *)
(* expected_response_sequence_number are written under request_lock but    *)
(* read by the receive thread without it, one after the other.             *)
(***************************************************************************)
EXTENDS Integers, Sequences

CONSTANTS Threads,    \* application threads
          Devices,    \* device objects
          Functions,  \* function ids
          Plain,      \* the functions among them whose response-expected flag is off
          SeqMod,     \* 15 in the code
          MaxCalls,   \* bound: sequence numbers handed out
          None        \* Python's None

ASSUME RequestsAssumption ==
  /\ SeqMod \in Nat \ {0} /\ MaxCalls \in Nat
  /\ Plain \subseteq Functions
  /\ None \notin Functions /\ None \notin Threads /\ None \notin 0 .. SeqMod

VARIABLES
  next_sequence_number,
  drawn,         \* how many numbers have been handed out
  pc, call,      \* per thread: where it is in send_request, and its request
  response,      \* per thread: the packet taken from the queue, or None
  request_lock,  \* per device: the thread that holds it, or None
  expectedFn,    \* per device: expected_response_function_id
  expectedSeq,   \* per device: expected_response_sequence_number
  queue,         \* per device: response_queue
  wire,          \* requests that the devices have not answered
  net,           \* answers on their way to the receive thread
  rx             \* the receive thread: where it is in handle_response

vars == <<next_sequence_number, drawn, pc, call, response, request_lock, expectedFn,
          expectedSeq, queue, wire, net, rx>>
deviceVars == <<request_lock, expectedFn, expectedSeq, queue>>

Numbers == 1 .. MaxCalls

\* A request, and an answer: the device repeats the header.
Packets == [n : Numbers, dev : Devices, fn : Functions, seq : 1 .. SeqMod]

Init ==
  /\ next_sequence_number = 0 /\ drawn = 0
  /\ pc = [t \in Threads |-> "idle"]
  /\ call = [t \in Threads |-> None]
  /\ response = [t \in Threads |-> None]
  /\ request_lock = [d \in Devices |-> None]
  /\ expectedFn = [d \in Devices |-> None]
  /\ expectedSeq = [d \in Devices |-> None]
  /\ queue = [d \in Devices |-> << >>]
  /\ wire = {} /\ net = {}
  /\ rx = [pc |-> "recv", packet |-> None]

Goto(t, label) == pc' = [pc EXCEPT ![t] = label]

---------------------------------------------------------------------------
(* send_request.                                                           *)

\* create_packet_header with get_next_sequence_number: the number is drawn
\* before request_lock is taken, so it says nothing of the order of sending.
get_next_sequence_number == next_sequence_number + 1
\* Fault: the counter wraps one number late.
FollowingLate == get_next_sequence_number % (SeqMod + 1)
Following == get_next_sequence_number % SeqMod

CreatePacketHeader(t, d, f) ==
  /\ pc[t] = "idle" /\ drawn < MaxCalls
  /\ drawn' = drawn + 1
  /\ next_sequence_number' = Following
  /\ call' = [call EXCEPT ![t] = [n |-> drawn + 1, dev |-> d, fn |-> f,
                                  seq |-> get_next_sequence_number]]
  /\ response' = [response EXCEPT ![t] = None]
  /\ Goto(t, IF f \in Plain THEN "plain" ELSE "lock")
  /\ UNCHANGED <<deviceVars, wire, net, rx>>

\* No response expected: the packet is sent and the call returns.
SendPlain(t) ==
  /\ pc[t] = "plain"
  /\ Goto(t, "idle")
  /\ UNCHANGED <<next_sequence_number, drawn, call, response, deviceVars, wire, net, rx>>

\* Fault: request_lock is not waited for.
ExpectUnlocked(t) ==
  LET d == call[t].dev IN
  /\ pc[t] = "lock"
  /\ request_lock' = [request_lock EXCEPT ![d] = t]
  /\ expectedFn' = [expectedFn EXCEPT ![d] = call[t].fn]
  /\ Goto(t, "expect")
  /\ UNCHANGED <<next_sequence_number, drawn, call, response, expectedSeq, queue, wire, net, rx>>

ExpectFunction(t) ==
  LET d == call[t].dev IN
  /\ pc[t] = "lock" /\ request_lock[d] = None
  /\ request_lock' = [request_lock EXCEPT ![d] = t]
  /\ expectedFn' = [expectedFn EXCEPT ![d] = call[t].fn]
  /\ Goto(t, "expect")
  /\ UNCHANGED <<next_sequence_number, drawn, call, response, expectedSeq, queue, wire, net, rx>>

ExpectSequence(t) ==
  /\ pc[t] = "expect"
  /\ expectedSeq' = [expectedSeq EXCEPT ![call[t].dev] = call[t].seq]
  /\ Goto(t, "send")
  /\ UNCHANGED <<next_sequence_number, drawn, call, response, request_lock, expectedFn, queue, wire, net, rx>>

Send(t) ==
  /\ pc[t] = "send"
  /\ wire' = wire \cup {call[t]}
  /\ Goto(t, "get")
  /\ UNCHANGED <<next_sequence_number, drawn, call, response, deviceVars, net, rx>>

\* Fault: no finally clause, and the lock is not released.
SendFailsHeld(t) ==
  /\ pc[t] = "send"
  /\ Goto(t, "idle")
  /\ UNCHANGED <<next_sequence_number, drawn, call, response, deviceVars, wire, net, rx>>

\* send raises NOT_CONNECTED; the finally clause still runs.
SendFails(t) ==
  /\ pc[t] = "send"
  /\ Goto(t, "clear")
  /\ UNCHANGED <<next_sequence_number, drawn, call, response, deviceVars, wire, net, rx>>

\* Fault: the sequence number of the answer is not compared.
AcceptsAny(t, packet) == packet.fn = call[t].fn

\* One turn of the loop: an answer from the queue is taken if function id and
\* sequence number are those of the call, and dropped otherwise.
Accepts(t, packet) == packet.fn = call[t].fn /\ packet.seq = call[t].seq

GetResponse(t) ==
  LET d == call[t].dev IN
  /\ pc[t] = "get" /\ queue[d] # << >>
  /\ queue' = [queue EXCEPT ![d] = Tail(@)]
  /\ IF Accepts(t, Head(queue[d]))
     THEN response' = [response EXCEPT ![t] = Head(queue[d])] /\ Goto(t, "clear")
     ELSE UNCHANGED <<response, pc>>
  /\ UNCHANGED <<next_sequence_number, drawn, call, request_lock, expectedFn, expectedSeq, wire, net, rx>>

\* Queue.get raises Empty.
TimedOut(t) ==
  /\ pc[t] = "get" /\ queue[call[t].dev] = << >>
  /\ Goto(t, "clear")
  /\ UNCHANGED <<next_sequence_number, drawn, call, response, deviceVars, wire, net, rx>>

\* The finally clause, then the end of the with block.
ClearFunction(t) ==
  /\ pc[t] = "clear"
  /\ expectedFn' = [expectedFn EXCEPT ![call[t].dev] = None]
  /\ Goto(t, "release")
  /\ UNCHANGED <<next_sequence_number, drawn, call, response, request_lock, expectedSeq, queue, wire, net, rx>>

ClearSequence(t) ==
  LET d == call[t].dev IN
  /\ pc[t] = "release"
  /\ expectedSeq' = [expectedSeq EXCEPT ![d] = None]
  /\ request_lock' = [request_lock EXCEPT ![d] = None]
  /\ Goto(t, "idle")
  /\ UNCHANGED <<next_sequence_number, drawn, call, response, expectedFn, queue, wire, net, rx>>

---------------------------------------------------------------------------
(* The devices, behind the daemon: external.                               *)
DeviceAnswers(r) ==
  /\ r \in wire
  /\ wire' = wire \ {r}
  /\ net' = net \cup {r}
  /\ UNCHANGED <<next_sequence_number, drawn, pc, call, response, deviceVars, rx>>

---------------------------------------------------------------------------
(* handle_response in the receive thread: three steps, between which the   *)
(* callers go on.                                                          *)
CompareFunction(packet) ==
  /\ rx.pc = "recv" /\ packet \in net
  /\ net' = net \ {packet}
  /\ rx' = IF expectedFn[packet.dev] = packet.fn
           THEN [pc |-> "sequence", packet |-> packet] ELSE rx
  /\ UNCHANGED <<next_sequence_number, drawn, pc, call, response, deviceVars, wire>>

CompareSequence ==
  /\ rx.pc = "sequence"
  /\ rx' = IF expectedSeq[rx.packet.dev] = rx.packet.seq
           THEN [rx EXCEPT !.pc = "put"] ELSE [pc |-> "recv", packet |-> None]
  /\ UNCHANGED <<next_sequence_number, drawn, pc, call, response, deviceVars, wire, net>>

PutResponse ==
  /\ rx.pc = "put"
  /\ queue' = [queue EXCEPT ![rx.packet.dev] = Append(@, rx.packet)]
  /\ rx' = [pc |-> "recv", packet |-> None]
  /\ UNCHANGED <<next_sequence_number, drawn, pc, call, response, request_lock, expectedFn,
                 expectedSeq, wire, net>>

---------------------------------------------------------------------------
Step(t) ==
  \/ SendPlain(t) \/ ExpectFunction(t) \/ ExpectSequence(t) \/ Send(t) \/ SendFails(t)
  \/ GetResponse(t) \/ TimedOut(t) \/ ClearFunction(t) \/ ClearSequence(t)

Receive == (\E p \in net : CompareFunction(p)) \/ CompareSequence \/ PutResponse

Next ==
  \/ \E t \in Threads :
       \/ \E d \in Devices, f \in Functions : CreatePacketHeader(t, d, f)
       \/ Step(t)
  \/ \E r \in wire : DeviceAnswers(r)
  \/ Receive

Spec == Init /\ [][Next]_vars

\* The operating system runs every thread, Queue.get notices an expired
\* timeout, and a thread that waits for request_lock gets it when the lock is
\* free again and again.  Nothing is assumed of the devices.
Fairness == \A t \in Threads : WF_vars(Step(t)) /\ SF_vars(ExpectFunction(t))

FairSpec == Spec /\ Fairness

---------------------------------------------------------------------------
(* Properties.                                                             *)

\* The type invariant.
RequestsTypeOK ==
  /\ next_sequence_number \in 0 .. SeqMod - 1
  /\ drawn \in 0 .. MaxCalls
  /\ pc \in [Threads -> {"idle", "plain", "lock", "expect", "send", "get", "clear", "release"}]
  /\ call \in [Threads -> Packets \cup {None}]
  /\ response \in [Threads -> Packets \cup {None}]
  /\ request_lock \in [Devices -> Threads \cup {None}]
  /\ expectedFn \in [Devices -> Functions \cup {None}]
  /\ expectedSeq \in [Devices -> 1 .. SeqMod \cup {None}]
  /\ queue \in [Devices -> Seq(Packets)]
  /\ wire \subseteq Packets
  /\ net \subseteq Packets
  /\ rx \in [pc : {"recv", "sequence", "put"}, packet : Packets \cup {None}]

\* The answer a call returns is the one the device gave
\* to this very request, or to one that is a whole number of rounds of the
\* sequence counter away: late answers left in the queue, or put there after
\* the call that expected them had given up, never reach another call of the
\* same round.
AnswerMatches ==
  \A t \in Threads :
    response[t] # None =>
      /\ response[t].dev = call[t].dev /\ response[t].fn = call[t].fn
      /\ (response[t].n - call[t].n) % SeqMod = 0

\* From the moment a thread may send until it has its answer or gives up,
\* its device expects exactly this answer, so the receive thread does not
\* drop it, whatever the other threads that use the device do.
ExpectsOwn ==
  \A t \in Threads :
    pc[t] \in {"send", "get"} =>
      /\ request_lock[call[t].dev] = t
      /\ expectedFn[call[t].dev] = call[t].fn
      /\ expectedSeq[call[t].dev] = call[t].seq

\* Every call returns: with a value, an error of the device, TIMEOUT or
\* NOT_CONNECTED, also when devices never answer and several threads wait for
\* the same device.
RequestsReturn == \A t \in Threads : pc[t] # "idle" ~> pc[t] = "idle"
===========================================================================
