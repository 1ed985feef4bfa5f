------------------------------ MODULE Device ------------------------------
(***************************************************************************)
(* A device object of the Tinkerforge bindings: the class Device of        *)
(* scripts/tinkerforge/ip_connection.py with one of the classes derived    *)
(* from it (brick_*.py, bricklet_*.py).  Its state is the table of         *)
(* response-expected flags, the registered callbacks and the calls of its  *)
(* methods that are under way.                                             *)
(*                                                                         *)
(* A method is a call of IPConnection.send_request with a function id and  *)
(* two format strings.  A format is abstracted to the number of bytes it   *)
(* packs or unpacks.  The flag of the function is read once, when the      *)
(* header is made; other threads may change the table at any time, because *)
(* no lock protects it.  How an answer finds its call is the subject of    *)
(* module Requests; here an answer always reaches the call it belongs to.  *)
(***************************************************************************)
EXTENDS Integers, Sequences, FiniteSets

CONSTANTS Bindings,    \* the classes derived from Device: [name, init, calls]
          Threads,     \* the threads of the application that use the object
          MaxOps,      \* bound: operations the application starts, and
          MaxOf,       \* how many of each kind among them
          MaxPackets   \* bound: callback packets the device sends

Ids == 0 .. 255
\* What is out of range, and an id that no class has a function for.
NoIds == {-1, 0, 256}
Flags == {"ALWAYS_TRUE", "ALWAYS_FALSE", "TRUE", "FALSE"}

\* The functions every device has: FUNCTION_*_BRICKLET_PLUGIN, *_BRICKLET_UID
\* and the ADC calibration; and the two ids of enumeration.
CommonGetters == {246, 247, 248, 249, 250, 251}
FUNCTION_ENUMERATE == 254
CALLBACK_ENUMERATE == 253
CommonCalls == {<<246, 34, 0>>, <<247, 2, 32>>, <<250, 0, 4>>, <<251, 1, 0>>,
                <<248, 5, 0>>, <<249, 1, 4>>}

Settable(b) == b.init.setters \cup b.init.configs
CallbackIds(b) == {x[1] : x \in b.init.callbacks}
Defined(b) == b.init.getters \cup Settable(b) \cup CallbackIds(b)
CallsOf(b) == b.calls \cup CommonCalls

\* What the bindings provide: the ids of a class are distinct, every method
\* calls a function the constructor gave a flag to, and a method that returns
\* a value calls a function whose flag is ALWAYS_TRUE.
ASSUME BindingsAssumption ==
  \A b \in Bindings :
    /\ Defined(b) \subseteq Ids \ (CommonGetters \cup {FUNCTION_ENUMERATE, CALLBACK_ENUMERATE})
    /\ b.init.getters \cap (Settable(b) \cup CallbackIds(b)) = {}
    /\ Settable(b) \cap CallbackIds(b) = {}
    /\ b.init.setters \cap b.init.configs = {}
    /\ b.calls \subseteq Ids \X (0 .. 247) \X (0 .. 247)
    /\ \A c \in b.calls : /\ c[1] \in b.init.getters \cup Settable(b)
                          /\ c[3] > 0 => c[1] \in b.init.getters
    /\ b.init.callbacks \subseteq Ids \X (0 .. 247)

Kinds == {"flags", "call", "register"}

ASSUME BoundsAssumption == MaxOps \in Nat /\ MaxPackets \in Nat /\ MaxOf \in [Kinds -> Nat]

VARIABLES
  binding,            \* the class of the object
  response_expected,  \* the flags; an id outside the domain is INVALID_FUNCTION_ID
  pc, req,            \* per thread: where it is, and its request or loop
  answer,             \* per thread: the device's answer, or NoAnswer
  outcome,            \* per thread: how its last call ended
  registered,         \* registered_callbacks: id -> "function" or "none"
  retracted,          \* history: the callbacks that were taken back, see TakesBack
  queue,              \* the callback queue: ids of packets
  dispatching,        \* the packet dispatch_packet is working on, or NoPacket
  callbackThread,     \* "running" or "dead" (an exception left callback_loop)
  ops, packets        \* operations of each kind, and packets, so far

vars == <<binding, response_expected, pc, req, answer, outcome, registered,
          retracted, queue, dispatching, callbackThread, ops, packets>>
flagVars == <<binding, response_expected>>
callVars == <<pc, req, answer, outcome>>
callbackVars == <<registered, retracted, queue, dispatching, callbackThread, packets>>

NoPacket == -1
NoAnswer == [code |-> 0, bytes |-> -1]
Idle == [fn |-> 0, length |-> 8, r_bit |-> FALSE, ret |-> 0]
Errors == {"TIMEOUT", "NOT_CONNECTED", "INVALID_PARAMETER", "NOT_SUPPORTED",
           "UNKNOWN_ERROR_CODE"}
Outcomes == Errors \cup {"none", "value", "struct_error", "ValueError"}

---------------------------------------------------------------------------
(* The constructor: Device.__init__, then the table of the class.          *)
FlagIds(b) == Defined(b) \cup CommonGetters \cup {FUNCTION_ENUMERATE, CALLBACK_ENUMERATE}

InitialFlags(b) ==
  [f \in FlagIds(b) |->
     IF f \in b.init.getters \cup CommonGetters THEN "ALWAYS_TRUE"
     ELSE IF f \in b.init.configs THEN "TRUE"
     ELSE IF f \in b.init.setters THEN "FALSE"
     ELSE "ALWAYS_FALSE"]

Init ==
  /\ binding \in Bindings
  /\ response_expected = InitialFlags(binding)
  /\ pc = [t \in Threads |-> "idle"]
  /\ req = [t \in Threads |-> Idle]
  /\ answer = [t \in Threads |-> NoAnswer]
  /\ outcome = [t \in Threads |-> "none"]
  /\ registered = << >> /\ retracted = {}
  /\ queue = << >> /\ dispatching = NoPacket
  /\ callbackThread = "running"
  /\ ops = [k \in Kinds |-> 0] /\ packets = 0

\* An idle thread starts an operation of the given kind, within the bounds.
Start(t, kind) ==
  /\ pc[t] = "idle"
  /\ ops["flags"] + ops["call"] + ops["register"] < MaxOps
  /\ ops[kind] < MaxOf[kind]
  /\ ops' = [ops EXCEPT ![kind] = @ + 1]

---------------------------------------------------------------------------
(* The response-expected flags.                                            *)
\* Fault: the flags that are fixed are changed like the others.
ChangeableAll(f) == f \in DOMAIN response_expected
Changeable(f) == f \in DOMAIN response_expected
                 /\ response_expected[f] \in {"TRUE", "FALSE"}
\* Fault: a flag that is switched off is stored as INVALID_FUNCTION_ID.
FlagOfInvalid(value) == IF value THEN "TRUE" ELSE "INVALID_FUNCTION_ID"
FlagOf(value) == IF value THEN "TRUE" ELSE "FALSE"

get_response_expected(f) == response_expected[f] \in {"ALWAYS_TRUE", "TRUE"}

\* set_response_expected: a ValueError unless the flag may be changed.
SetResponseExpected(t, f, value) ==
  /\ Start(t, "flags")
  /\ response_expected' = IF Changeable(f)
                          THEN [response_expected EXCEPT ![f] = FlagOf(value)]
                          ELSE response_expected
  /\ outcome' = [outcome EXCEPT ![t] = IF Changeable(f) THEN "none" ELSE "ValueError"]
  /\ req' = [req EXCEPT ![t] = Idle]
  /\ UNCHANGED <<binding, pc, answer, callbackVars>>

\* set_response_expected_all walks through the table; fn is the index i, and
\* ids that the loop leaves alone are passed over in the same step.
SetAllStart(t, value) ==
  /\ Start(t, "flags")
  /\ pc' = [pc EXCEPT ![t] = "all"]
  /\ req' = [req EXCEPT ![t] = [Idle EXCEPT !.r_bit = value]]
  /\ outcome' = [outcome EXCEPT ![t] = "none"]
  /\ UNCHANGED <<flagVars, answer, callbackVars>>

SetAllStep(t, f) ==
  /\ pc[t] = "all"
  /\ f >= req[t].fn /\ Changeable(f)
  /\ \A g \in DOMAIN response_expected : g >= req[t].fn /\ g < f => ~Changeable(g)
  /\ response_expected' = [response_expected EXCEPT ![f] = FlagOf(req[t].r_bit)]
  /\ req' = [req EXCEPT ![t].fn = f + 1]
  /\ UNCHANGED <<binding, pc, answer, outcome, callbackVars, ops>>

SetAllEnd(t) ==
  /\ pc[t] = "all"
  /\ \A g \in DOMAIN response_expected : g >= req[t].fn => ~Changeable(g)
  /\ pc' = [pc EXCEPT ![t] = "idle"]
  /\ req' = [req EXCEPT ![t] = Idle]
  /\ UNCHANGED <<flagVars, answer, outcome, callbackVars, ops>>

---------------------------------------------------------------------------
(* A call of a method: send_request(device, function_id, data, form,       *)
(* form_ret), where c is <<function id, bytes of form, bytes of form_ret>>. *)

\* create_packet_header: the only place where the flag is read.
PackRequest(t, c) ==
  /\ Start(t, "call")
  /\ IF c[1] \in DOMAIN response_expected
     THEN /\ pc' = [pc EXCEPT ![t] = "packed"]
          /\ req' = [req EXCEPT ![t] = [fn |-> c[1], length |-> 8 + c[2],
                                        r_bit |-> get_response_expected(c[1]),
                                        ret |-> c[3]]]
          /\ UNCHANGED outcome
     ELSE /\ outcome' = [outcome EXCEPT ![t] = "ValueError"]
          /\ req' = [req EXCEPT ![t] = [Idle EXCEPT !.fn = c[1], !.ret = c[3]]]
          /\ UNCHANGED pc
  /\ UNCHANGED <<flagVars, answer, callbackVars>>

\* The packet is sent; the thread waits for an answer if the header asked
\* for one and returns None otherwise.
Transmit(t) ==
  /\ pc[t] = "packed"
  /\ pc' = [pc EXCEPT ![t] = IF req[t].r_bit THEN "waiting" ELSE "idle"]
  /\ outcome' = [outcome EXCEPT ![t] = "none"]
  /\ UNCHANGED <<flagVars, req, answer, callbackVars, ops>>

\* send finds no connection, or loses it.
TransmitFails(t) ==
  /\ pc[t] = "packed"
  /\ pc' = [pc EXCEPT ![t] = "idle"]
  /\ outcome' = [outcome EXCEPT ![t] = "NOT_CONNECTED"]
  /\ UNCHANGED <<flagVars, req, answer, callbackVars, ops>>

\* The device (firmware, not in the repository) answers a request whose r-bit
\* is set; an answer with an error code carries no payload.  One that comes when
\* the call has timed out is dropped (module Requests).
DeviceAnswers(t, code) ==
  /\ pc[t] = "waiting" /\ answer[t] = NoAnswer
  /\ answer' = [answer EXCEPT ![t] =
                  [code |-> code, bytes |-> IF code = 0 THEN req[t].ret ELSE 0]]
  /\ UNCHANGED <<flagVars, pc, req, outcome, callbackVars, ops>>

\* deserialize_data takes as many bytes as the format names; struct.unpack
\* refuses a shorter payload.
deserialize_data(bytes, ret) == IF bytes >= ret THEN "value" ELSE "struct_error"

\* Fault: the error code is not looked at.
ResultOfAny(t) ==
  IF req[t].ret > 0 THEN deserialize_data(answer[t].bytes, req[t].ret) ELSE "none"

ResultOf(t) ==
  CASE answer[t].code = 1 -> "INVALID_PARAMETER"
    [] answer[t].code = 2 -> "NOT_SUPPORTED"
    [] answer[t].code = 3 -> "UNKNOWN_ERROR_CODE"
    [] OTHER -> IF req[t].ret > 0 THEN deserialize_data(answer[t].bytes, req[t].ret)
                ELSE "none"

ReturnAnswer(t) ==
  /\ pc[t] = "waiting" /\ answer[t] # NoAnswer
  /\ outcome' = [outcome EXCEPT ![t] = ResultOf(t)]
  /\ pc' = [pc EXCEPT ![t] = "idle"]
  /\ answer' = [answer EXCEPT ![t] = NoAnswer]
  /\ UNCHANGED <<flagVars, req, callbackVars, ops>>

TimedOut(t) ==
  /\ pc[t] = "waiting" /\ answer[t] = NoAnswer
  /\ outcome' = [outcome EXCEPT ![t] = "TIMEOUT"]
  /\ pc' = [pc EXCEPT ![t] = "idle"]
  /\ UNCHANGED <<flagVars, req, answer, callbackVars, ops>>

---------------------------------------------------------------------------
(* Callbacks: sequence number 0.  The receive thread queues a packet for a *)
(* registered id, the callback thread looks the id up again.               *)

\* The ids that register_callback is called with.
Registrable(b) == CallbackIds(b) \cup {CALLBACK_ENUMERATE}

\* A function is replaced by None; the enumerate callback, whose value is not
\* tested, is None.
TakesBack(id, value) ==
  /\ value = "none"
  /\ id = CALLBACK_ENUMERATE \/ (id \in DOMAIN registered /\ registered[id] = "function")

\* register_callback of the device and of the connection (CALLBACK_ENUMERATE);
\* None is stored like a function.
RegisterCallback(t, id, value) ==
  /\ Start(t, "register")
  /\ registered' = [x \in DOMAIN registered \cup {id} |->
                      IF x = id THEN value ELSE registered[x]]
  /\ retracted' = IF TakesBack(id, value) THEN retracted \cup {id} ELSE retracted
  /\ UNCHANGED <<flagVars, callVars, queue, dispatching, callbackThread, packets>>

\* handle_response for a callback packet; one whose id is not registered is
\* dropped and changes nothing.
HandleCallback(id) ==
  /\ id \in DOMAIN registered
  /\ packets < MaxPackets
  /\ packets' = packets + 1
  /\ queue' = Append(queue, id)
  /\ UNCHANGED <<flagVars, callVars, registered, retracted, dispatching, callbackThread, ops>>

\* Fault: a device callback is called without looking, too.
WantedAny(id) == id \in DOMAIN registered

\* The test before the call: a device callback that is None is passed over, the
\* enumerate callback is called without looking.
Wanted(id) ==
  /\ id \in DOMAIN registered
  /\ id = CALLBACK_ENUMERATE \/ registered[id] # "none"

\* callback_loop takes a packet; dispatch_packet as far as the test.
DispatchPacket ==
  /\ callbackThread = "running" /\ dispatching = NoPacket /\ queue # << >>
  /\ queue' = Tail(queue)
  /\ dispatching' = IF Wanted(Head(queue)) THEN Head(queue) ELSE NoPacket
  /\ UNCHANGED <<flagVars, callVars, registered, retracted, callbackThread, packets, ops>>

\* Calling None raises an exception that ends the callback thread, and so does
\* the lookup of a format that the class does not have (KeyError).
Fatal(id) ==
  \/ registered[id] = "none"
  \/ id # CALLBACK_ENUMERATE /\ id \notin CallbackIds(binding)

\* The callback is read again, without a lock, and called.
CallCallback ==
  /\ callbackThread = "running" /\ dispatching # NoPacket
  /\ IF Fatal(dispatching)
     THEN callbackThread' = "dead" /\ UNCHANGED dispatching
     ELSE dispatching' = NoPacket /\ UNCHANGED callbackThread
  /\ UNCHANGED <<flagVars, callVars, registered, retracted, queue, packets, ops>>

---------------------------------------------------------------------------
Next ==
  \/ \E t \in Threads :
       \/ \E f \in FlagIds(binding) \cup NoIds, v \in BOOLEAN : SetResponseExpected(t, f, v)
       \/ \E v \in BOOLEAN : SetAllStart(t, v)
       \/ \E f \in DOMAIN response_expected : SetAllStep(t, f)
       \/ SetAllEnd(t)
       \/ \E c \in CallsOf(binding) : PackRequest(t, c)
       \/ Transmit(t)
       \/ TransmitFails(t)
       \/ \E code \in 0 .. 3 : DeviceAnswers(t, code)
       \/ ReturnAnswer(t)
       \/ TimedOut(t)
       \/ \E id \in Registrable(binding), v \in {"function", "none"} : RegisterCallback(t, id, v)
  \/ \E id \in Registrable(binding) : HandleCallback(id)
  \/ DispatchPacket
  \/ CallCallback

Spec == Init /\ [][Next]_vars

---------------------------------------------------------------------------
(* Properties.                                                             *)

\* The type invariant; a request fits the length byte of its header.
DeviceTypeOK ==
  /\ binding \in Bindings
  /\ response_expected \in [FlagIds(binding) -> Flags]
  /\ pc \in [Threads -> {"idle", "all", "packed", "waiting"}]
  /\ req \in [Threads -> [fn : 0 .. 256, length : 8 .. 255, r_bit : BOOLEAN, ret : 0 .. 247]]
  /\ answer \in [Threads -> [code : 0 .. 3, bytes : -1 .. 247]]
  /\ outcome \in [Threads -> Outcomes]
  /\ DOMAIN registered \subseteq Registrable(binding)
  /\ \A id \in DOMAIN registered : registered[id] \in {"function", "none"}
  /\ retracted \subseteq DOMAIN registered
  /\ queue \in Seq(Registrable(binding))
  /\ dispatching \in Registrable(binding) \cup {NoPacket}
  /\ callbackThread \in {"running", "dead"}
  /\ ops \in [Kinds -> 0 .. MaxOps] /\ packets \in 0 .. MaxPackets

\* Whatever sequence of set_response_expected and set_response_expected_all
\* the threads run, the flags of getters, callbacks and the common functions
\* are those of the constructor (ip_connection.py:186-188, "For getter
\* functions it is always enabled and callbacks it is always disabled").
FixedFlags ==
  LET initial == InitialFlags(binding)
  IN  \A f \in FlagIds(binding) \ Settable(binding) : response_expected[f] = initial[f]

\* A method that returns a value (form_ret is not empty) gives the caller a
\* value or raises one of the documented errors: it never returns None because
\* its flag was off, never fails for want of a flag and never unpacks an
\* answer that is too short, with other threads rewriting the flags meanwhile.
GettersReturnValues ==
  \A t \in Threads :
    /\ outcome[t] # "struct_error"
    /\ pc[t] = "packed" /\ req[t].ret > 0 => req[t].r_bit
    /\ pc[t] = "idle" /\ req[t].ret > 0 => outcome[t] \in Errors \cup {"value"}

\* No packet ends the callback thread unless the application has taken its
\* callback back: the test of line 785 and the read of line 786 of
\* ip_connection.py are not under a lock, so a device callback that is set to
\* None between them is called as None, but one that never was a function is
\* not; the enumerate callback (line 774) is called whenever it is there.
EndsOnlyIfTakenBack == callbackThread = "dead" => dispatching \in retracted
===========================================================================
