--------------------------- MODULE DeviceProofs ---------------------------
(***************************************************************************)
(* Device for any classes that satisfy BindingsAssumption, any threads and *)
(* any bounds.  The flags and the calls are proved about first; the        *)
(* callbacks, which share no variable with them but the class, afterwards. *)
(***************************************************************************)
EXTENDS Device, TLAPS

\* A call under way or just ended.  A getter's header asks for an answer; an
\* answer is there only for a thread that waits, and carries what the caller
\* unpacks unless it carries an error.
CallOK(t) ==
  /\ pc[t] \in {"packed", "waiting"} /\ req[t].ret > 0 => req[t].r_bit
  /\ pc[t] = "all" => req[t].ret = 0
  /\ pc[t] = "idle" /\ req[t].ret > 0 => outcome[t] \in Errors \cup {"value"}
  /\ outcome[t] # "struct_error"
  /\ answer[t] # NoAnswer =>
       pc[t] = "waiting" /\ (answer[t].code = 0 => answer[t].bytes = req[t].ret)

CallsOK == \A t \in Threads : CallOK(t)

Headers == [fn : 0 .. 256, length : 8 .. 255, r_bit : BOOLEAN, ret : 0 .. 247]

\* The part of the type invariant that concerns flags and calls.
CallTypes ==
  /\ binding \in Bindings
  /\ response_expected \in [FlagIds(binding) -> Flags]
  /\ pc \in [Threads -> {"idle", "all", "packed", "waiting"}]
  /\ req \in [Threads -> [fn : 0 .. 256, length : 8 .. 255, r_bit : BOOLEAN, ret : 0 .. 247]]
  /\ answer \in [Threads -> [code : 0 .. 3, bytes : -1 .. 247]]
  /\ outcome \in [Threads -> Outcomes]
  /\ ops \in [Kinds -> 0 .. MaxOps]

\* A queued packet was registered when it came, and ids are never removed.
CallbackTypes ==
  /\ DOMAIN registered \subseteq Registrable(binding)
  /\ \A id \in DOMAIN registered : registered[id] \in {"function", "none"}
  /\ retracted \subseteq DOMAIN registered
  /\ queue \in Seq(Registrable(binding))
  /\ dispatching \in Registrable(binding) \cup {NoPacket}
  /\ callbackThread \in {"running", "dead"}
  /\ packets \in 0 .. MaxPackets
  /\ \A i \in 1 .. Len(queue) : queue[i] \in DOMAIN registered

\* A packet that passed the test is registered for; if its callback is None
\* nevertheless, it was taken back, before the test of the enumerate callback
\* or after that of a device callback.
DispatchOK ==
  /\ CALLBACK_ENUMERATE \in DOMAIN registered /\ registered[CALLBACK_ENUMERATE] = "none"
       => CALLBACK_ENUMERATE \in retracted
  /\ dispatching # NoPacket =>
       /\ dispatching \in DOMAIN registered
       /\ registered[dispatching] = "none" => dispatching \in retracted
  /\ EndsOnlyIfTakenBack

DeviceInv == CallTypes /\ CallbackTypes /\ DispatchOK /\ FixedFlags /\ CallsOK

---------------------------------------------------------------------------
(* The ids of a class.                                                     *)

\* Flags exist only for the 256 function ids, and every method calls a
\* function that has one: create_packet_header never raises a ValueError.
LEMMA CallsHaveFlags ==
  ASSUME NEW b \in Bindings
  PROVE  /\ FlagIds(b) \subseteq Ids
         /\ \A c \in CallsOf(b) :
              /\ c[1] \in FlagIds(b) /\ c[1] \in 0 .. 255
              /\ c[2] \in 0 .. 247 /\ c[3] \in 0 .. 247
              /\ c[3] > 0 => c[1] \in b.init.getters \cup CommonGetters
<1>1. FlagIds(b) \subseteq Ids
  BY BindingsAssumption DEF FlagIds, CommonGetters, FUNCTION_ENUMERATE, CALLBACK_ENUMERATE, Ids
<1>2. ASSUME NEW c \in b.calls
      PROVE  /\ c[1] \in FlagIds(b) /\ c[1] \in 0 .. 255
             /\ c[2] \in 0 .. 247 /\ c[3] \in 0 .. 247
             /\ c[3] > 0 => c[1] \in b.init.getters \cup CommonGetters
  BY BindingsAssumption DEF FlagIds, Defined, Ids
<1>3. ASSUME NEW c \in CommonCalls
      PROVE  /\ c[1] \in FlagIds(b) /\ c[1] \in 0 .. 255
             /\ c[2] \in 0 .. 247 /\ c[3] \in 0 .. 247
             /\ c[3] > 0 => c[1] \in b.init.getters \cup CommonGetters
  BY DEF CommonCalls, CommonGetters, FlagIds
<1>4. QED BY <1>1, <1>2, <1>3 DEF CallsOf

\* The flags that are not fixed are exactly those a class lists as settable.
LEMMA FixedIds ==
  ASSUME NEW b \in Bindings
  PROVE  /\ InitialFlags(b) \in [FlagIds(b) -> Flags]
         /\ \A f \in FlagIds(b) \ Settable(b) :
              InitialFlags(b)[f] \in {"ALWAYS_TRUE", "ALWAYS_FALSE"}
         /\ \A f \in b.init.getters \cup CommonGetters :
              /\ f \in FlagIds(b) \ Settable(b)
              /\ InitialFlags(b)[f] = "ALWAYS_TRUE"
<1>1. (b.init.getters \cup CommonGetters) \cap Settable(b) = {}
  BY BindingsAssumption DEF Defined
<1>2. b.init.getters \cup CommonGetters \subseteq FlagIds(b)
  BY DEF FlagIds, Defined
<1>3. QED BY <1>1, <1>2 DEF InitialFlags, Flags, Settable

---------------------------------------------------------------------------
(* The flags: only set_response_expected and set_response_expected_all     *)
(* write the table, and they pass over the flags that are fixed.           *)

\* Whatever is Changeable may be settable only.
LEMMA OnlySettableChange ==
  ASSUME CallTypes, FixedFlags, NEW f, Changeable(f)
  PROVE  f \in FlagIds(binding) /\ f \in Settable(binding)
<1>1. f \in FlagIds(binding) /\ response_expected[f] \in {"TRUE", "FALSE"}
  BY DEF Changeable, CallTypes
<1>2. binding \in Bindings
  BY DEF CallTypes
<1>3. QED BY <1>1, <1>2, FixedIds DEF FixedFlags

\* Writing a flag that may be changed keeps the table's type and the fixed flags.
LEMMA WriteFlag ==
  ASSUME CallTypes, FixedFlags, NEW f, Changeable(f), NEW value \in BOOLEAN,
         binding' = binding,
         response_expected' = [response_expected EXCEPT ![f] = FlagOf(value)]
  PROVE  response_expected' \in [FlagIds(binding) -> Flags] /\ FixedFlags'
<1>1. f \in FlagIds(binding) /\ f \in Settable(binding)
  BY OnlySettableChange
<1>2. response_expected' \in [FlagIds(binding) -> Flags]
  BY <1>1 DEF CallTypes, FlagOf, Flags
<1>3. ASSUME NEW g \in FlagIds(binding) \ Settable(binding)
      PROVE  response_expected'[g] = response_expected[g]
  BY <1>1, <1>3 DEF CallTypes
<1>4. FixedFlags'
  BY <1>3 DEF FixedFlags
<1>5. QED BY <1>2, <1>4

\* An idle thread that starts an operation stays within MaxOps.
LEMMA StartCounts ==
  ASSUME CallTypes, NEW t \in Threads, NEW kind \in Kinds, Start(t, kind)
  PROVE  ops' \in [Kinds -> 0 .. MaxOps]
  BY BoundsAssumption DEF CallTypes, Start, Kinds

\* set_response_expected and set_response_expected_all.
LEMMA FlagSteps ==
  ASSUME CallTypes, FixedFlags, CallsOK, NEW t \in Threads,
         \/ \E f \in FlagIds(binding) \cup NoIds, v \in BOOLEAN : SetResponseExpected(t, f, v)
         \/ \E v \in BOOLEAN : SetAllStart(t, v)
         \/ \E f \in DOMAIN response_expected : SetAllStep(t, f)
         \/ SetAllEnd(t)
  PROVE  CallTypes' /\ FixedFlags' /\ CallsOK'
<1>1. ASSUME NEW f \in FlagIds(binding) \cup NoIds, NEW v \in BOOLEAN, SetResponseExpected(t, f, v)
      PROVE  CallTypes' /\ FixedFlags' /\ CallsOK'
  <2>1. binding' = binding /\ ops' \in [Kinds -> 0 .. MaxOps]
    BY <1>1, StartCounts DEF SetResponseExpected, Kinds
  <2>2. response_expected' \in [FlagIds(binding) -> Flags] /\ FixedFlags'
    <3>1. CASE Changeable(f)
      BY <1>1, <3>1, WriteFlag DEF SetResponseExpected
    <3>2. CASE ~Changeable(f)
      BY <1>1, <3>2 DEF SetResponseExpected, CallTypes, FixedFlags
    <3>3. QED BY <3>1, <3>2
  <2>3. CallTypes'
    BY <1>1, <2>1, <2>2 DEF SetResponseExpected, CallTypes, Idle, Outcomes, Errors
  <2>4. CallsOK'
    BY <1>1 DEF SetResponseExpected, Start, CallTypes, CallsOK, CallOK, Idle, NoAnswer
  <2>5. QED BY <2>2, <2>3, <2>4
<1>2. ASSUME NEW v \in BOOLEAN, SetAllStart(t, v)
      PROVE  CallTypes' /\ FixedFlags' /\ CallsOK'
  <2>1. binding' = binding /\ response_expected' = response_expected
        /\ ops' \in [Kinds -> 0 .. MaxOps]
    BY <1>2, StartCounts DEF SetAllStart, flagVars, Kinds
  <2>2. CallTypes'
    BY <1>2, <2>1 DEF SetAllStart, CallTypes, Idle, Outcomes, Errors
  <2>3. CallsOK'
    BY <1>2 DEF SetAllStart, Start, CallTypes, CallsOK, CallOK, Idle, NoAnswer
  <2>4. QED BY <2>1, <2>2, <2>3 DEF FixedFlags
<1>3. ASSUME NEW f \in DOMAIN response_expected, SetAllStep(t, f)
      PROVE  CallTypes' /\ FixedFlags' /\ CallsOK'
  <2>1. f \in 0 .. 255
    BY CallsHaveFlags DEF CallTypes, Ids
  <2>2. Changeable(f) /\ req[t].r_bit \in BOOLEAN /\ binding' = binding
        /\ response_expected' = [response_expected EXCEPT ![f] = FlagOf(req[t].r_bit)]
    BY <1>3 DEF SetAllStep, CallTypes
  <2>3. response_expected' \in [FlagIds(binding) -> Flags] /\ FixedFlags'
    BY <2>2, WriteFlag
  <2>4. CallTypes'
    <3>1. /\ req' = [req EXCEPT ![t].fn = f + 1]
          /\ UNCHANGED <<binding, pc, answer, outcome, ops>>
      BY <1>3 DEF SetAllStep
    <3>2. f + 1 \in 0 .. 256
      BY <2>1
    <3>3. req \in [Threads -> Headers] /\ req[t] \in Headers
      BY DEF CallTypes, Headers
    <3>4. [req[t] EXCEPT !.fn = f + 1] \in Headers
      BY <3>2, <3>3 DEF Headers
    <3>5. req' = [req EXCEPT ![t] = [req[t] EXCEPT !.fn = f + 1]]
      BY <3>1
    <3>6. req' \in [Threads -> Headers]
      BY <3>3, <3>4, <3>5
    <3>7. QED BY <2>3, <3>1, <3>6 DEF CallTypes, Headers
  <2>5. CallsOK'
    BY <1>3 DEF SetAllStep, CallTypes, CallsOK, CallOK, NoAnswer
  <2>6. QED BY <2>3, <2>4, <2>5
<1>4. CASE SetAllEnd(t)
  <2>1. CallTypes' /\ FixedFlags'
    BY <1>4 DEF SetAllEnd, CallTypes, FixedFlags, flagVars, Idle
  <2>2. CallsOK'
    BY <1>4 DEF SetAllEnd, CallTypes, CallsOK, CallOK, Idle, NoAnswer
  <2>3. QED BY <2>1, <2>2
<1>5. QED BY <1>1, <1>2, <1>3, <1>4

---------------------------------------------------------------------------
(* The calls.                                                              *)

\* create_packet_header: a flag is found, and it is on for a getter.
LEMMA PackStep ==
  ASSUME CallTypes, FixedFlags, CallsOK, NEW t \in Threads, NEW c \in CallsOf(binding),
         PackRequest(t, c)
  PROVE  CallTypes' /\ FixedFlags' /\ CallsOK'
<1>1. /\ c[1] \in DOMAIN response_expected /\ c[1] \in 0 .. 256
      /\ c[2] \in 0 .. 247 /\ c[3] \in 0 .. 247
      /\ c[3] > 0 => c[1] \in binding.init.getters \cup CommonGetters
  BY CallsHaveFlags DEF CallTypes
<1>2. c[3] > 0 => get_response_expected(c[1])
  BY <1>1, FixedIds DEF FixedFlags, CallTypes, get_response_expected
<1>3. /\ pc' = [pc EXCEPT ![t] = "packed"]
      /\ req' = [req EXCEPT ![t] = [fn |-> c[1], length |-> 8 + c[2],
                                    r_bit |-> get_response_expected(c[1]), ret |-> c[3]]]
      /\ UNCHANGED <<binding, response_expected, outcome, answer>>
  BY <1>1 DEF PackRequest, flagVars
<1>4. ops' \in [Kinds -> 0 .. MaxOps] /\ pc[t] = "idle"
  BY StartCounts DEF PackRequest, Kinds, Start
<1>5. get_response_expected(c[1]) \in BOOLEAN
  BY DEF get_response_expected
<1>6. CallTypes'
  <2> DEFINE header == [fn |-> c[1], length |-> 8 + c[2],
                        r_bit |-> get_response_expected(c[1]), ret |-> c[3]]
  <2>1. header \in Headers
    BY <1>1, <1>5 DEF Headers
  <2>2. req' = [req EXCEPT ![t] = header]
    BY <1>3
  <2> HIDE DEF header
  <2>3. req' \in [Threads -> Headers]
    BY <2>1, <2>2 DEF CallTypes, Headers
  <2>4. QED BY <1>3, <1>4, <2>3 DEF CallTypes, Headers
<1>7. CallsOK'
  BY <1>2, <1>3, <1>4 DEF CallTypes, CallsOK, CallOK
<1>8. QED BY <1>3, <1>6, <1>7 DEF FixedFlags

\* The answer that is handed to the caller is an error or a value that can be
\* unpacked.
LEMMA Results ==
  ASSUME CallTypes, CallsOK, NEW t \in Threads, pc[t] = "waiting", answer[t] # NoAnswer
  PROVE  /\ ResultOf(t) \in Outcomes /\ ResultOf(t) # "struct_error"
         /\ req[t].ret > 0 => ResultOf(t) \in Errors \cup {"value"}
<1>1. answer[t].code \in 0 .. 3 /\ req[t].ret \in 0 .. 247
  BY DEF CallTypes
<1>2. answer[t].code = 0 => answer[t].bytes = req[t].ret
  BY DEF CallsOK, CallOK
<1>3. QED BY <1>1, <1>2 DEF ResultOf, deserialize_data, Outcomes, Errors

\* The rest of a call, and the answer of the device.
LEMMA CallSteps ==
  ASSUME CallTypes, FixedFlags, CallsOK, NEW t \in Threads,
         \/ Transmit(t) \/ TransmitFails(t)
         \/ \E code \in 0 .. 3 : DeviceAnswers(t, code)
         \/ ReturnAnswer(t) \/ TimedOut(t)
  PROVE  CallTypes' /\ FixedFlags' /\ CallsOK'
<1>0. UNCHANGED <<binding, response_expected, ops, req>>
  BY DEF Transmit, TransmitFails, DeviceAnswers, ReturnAnswer, TimedOut, flagVars
<1>1. FixedFlags'
  BY <1>0 DEF FixedFlags
<1>2. CASE Transmit(t)
  BY <1>0, <1>1, <1>2 DEF Transmit, CallTypes, CallsOK, CallOK, Outcomes, Errors
<1>3. CASE TransmitFails(t)
  BY <1>0, <1>1, <1>3 DEF TransmitFails, CallTypes, CallsOK, CallOK, Outcomes, Errors
<1>4. ASSUME NEW code \in 0 .. 3, DeviceAnswers(t, code)
      PROVE  CallTypes' /\ CallsOK'
  BY <1>0, <1>4 DEF DeviceAnswers, CallTypes, CallsOK, CallOK
<1>5. CASE ReturnAnswer(t)
  <2>1. /\ ResultOf(t) \in Outcomes /\ ResultOf(t) # "struct_error"
        /\ req[t].ret > 0 => ResultOf(t) \in Errors \cup {"value"}
    BY <1>5, Results DEF ReturnAnswer
  <2>2. CallTypes'
    BY <1>0, <1>5, <2>1 DEF ReturnAnswer, CallTypes, NoAnswer
  <2>3. CallsOK'
    BY <1>0, <1>5, <2>1 DEF ReturnAnswer, CallTypes, CallsOK, CallOK
  <2>4. QED BY <1>1, <2>2, <2>3
<1>6. CASE TimedOut(t)
  BY <1>0, <1>1, <1>6 DEF TimedOut, CallTypes, CallsOK, CallOK, Outcomes, Errors
<1>7. QED BY <1>1, <1>2, <1>3, <1>4, <1>5, <1>6

---------------------------------------------------------------------------
(* The callbacks.                                                          *)

LEMMA NoPacketId == ASSUME NEW b \in Bindings PROVE NoPacket \notin Registrable(b)
  BY BindingsAssumption DEF NoPacket, Registrable, CALLBACK_ENUMERATE, Defined, Ids

\* register_callback.
LEMMA RegisterStep ==
  ASSUME CallTypes, CallbackTypes, DispatchOK, NEW t \in Threads,
         NEW id \in Registrable(binding), NEW v \in {"function", "none"},
         RegisterCallback(t, id, v)
  PROVE  CallbackTypes' /\ DispatchOK'
<1>1. UNCHANGED <<binding, queue, dispatching, callbackThread, packets>>
  BY DEF RegisterCallback, flagVars
<1>2. /\ DOMAIN registered' = DOMAIN registered \cup {id}
      /\ \A x \in DOMAIN registered' : registered'[x] = IF x = id THEN v ELSE registered[x]
  BY DEF RegisterCallback
<1>3. /\ retracted' = retracted \/ retracted' = retracted \cup {id}
      /\ TakesBack(id, v) => retracted' = retracted \cup {id}
  BY DEF RegisterCallback
<1>4. CallbackTypes'
  <2>1. Registrable(binding)' = Registrable(binding)
    BY <1>1 DEF Registrable, CallbackIds
  <2>2. QED BY <1>1, <1>2, <1>3, <2>1 DEF CallbackTypes
<1>5. ASSUME NEW x \in DOMAIN registered', registered'[x] = "none",
             x = CALLBACK_ENUMERATE \/ x = dispatching
      PROVE  x \in retracted'
  <2>1. x # NoPacket
    BY <1>2, <1>5, NoPacketId DEF CallTypes, CallbackTypes
  <2>2. CASE x # id
    <3>1. x \in DOMAIN registered /\ registered[x] = "none"
      BY <1>2, <1>5, <2>2
    <3>2. x \in retracted
      BY <1>5, <2>1, <3>1 DEF DispatchOK
    <3>3. QED BY <1>3, <3>2
  <2>3. CASE x = id /\ (id = CALLBACK_ENUMERATE \/ (id \in DOMAIN registered /\ registered[id] = "function"))
    BY <1>2, <1>3, <1>5, <2>3 DEF TakesBack
  <2>4. CASE x = id /\ x = dispatching /\ id \in DOMAIN registered /\ registered[id] = "none"
    BY <1>3, <2>1, <2>4 DEF DispatchOK
  <2>5. x = dispatching => x \in DOMAIN registered /\ registered[x] \in {"function", "none"}
    BY <2>1 DEF DispatchOK, CallbackTypes
  <2>6. QED BY <1>5, <2>2, <2>3, <2>4, <2>5
<1>6. dispatching # NoPacket => dispatching \in DOMAIN registered'
  BY <1>2 DEF DispatchOK
<1>7. EndsOnlyIfTakenBack'
  BY <1>1, <1>3 DEF DispatchOK, EndsOnlyIfTakenBack
<1>8. QED BY <1>1, <1>4, <1>5, <1>6, <1>7 DEF DispatchOK

\* handle_response and the two halves of dispatch_packet.
LEMMA PacketSteps ==
  ASSUME CallTypes, CallbackTypes, DispatchOK,
         (\E id \in Registrable(binding) : HandleCallback(id)) \/ DispatchPacket \/ CallCallback
  PROVE  CallbackTypes' /\ DispatchOK'
<1>0. UNCHANGED <<binding, registered, retracted>>
  BY DEF HandleCallback, DispatchPacket, CallCallback, flagVars
<1>1. Registrable(binding)' = Registrable(binding) /\ CallbackIds(binding)' = CallbackIds(binding)
  BY <1>0 DEF Registrable, CallbackIds
<1> DEFINE ids == Registrable(binding)
<1>2. ASSUME NEW id \in ids, HandleCallback(id)
      PROVE  CallbackTypes' /\ DispatchOK'
  <2>1. packets' \in 0 .. MaxPackets /\ UNCHANGED <<dispatching, callbackThread>>
        /\ id \in DOMAIN registered /\ queue' = Append(queue, id)
    BY <1>2, BoundsAssumption DEF HandleCallback, CallbackTypes
  <2> HIDE DEF ids
  <2>2. queue \in Seq(ids)
    BY DEF CallbackTypes, ids
  <2>3. queue' \in Seq(ids) /\ Len(queue') = Len(queue) + 1
        /\ \A i \in 1 .. Len(queue') : queue'[i] = IF i <= Len(queue) THEN queue[i] ELSE id
    BY <2>1, <2>2
  <2>4. \A i \in 1 .. Len(queue') : queue'[i] \in DOMAIN registered
    BY <2>1, <2>2, <2>3 DEF CallbackTypes
  <2>5. QED BY <1>0, <1>1, <2>1, <2>3, <2>4 DEF CallbackTypes, DispatchOK, EndsOnlyIfTakenBack, ids
<1>3. CASE DispatchPacket
  <2>1. /\ queue # << >> /\ queue' = Tail(queue) /\ UNCHANGED <<callbackThread, packets>>
        /\ callbackThread = "running"
        /\ dispatching' = IF Wanted(Head(queue)) THEN Head(queue) ELSE NoPacket
    BY <1>3 DEF DispatchPacket
  <2> HIDE DEF ids
  <2>2. queue \in Seq(ids) /\ Len(queue) \in Nat
    BY DEF CallbackTypes, ids
  <2>3. queue' \in Seq(ids) /\ Len(queue') = Len(queue) - 1
        /\ \A i \in 1 .. Len(queue') : queue'[i] = queue[i + 1]
    BY <2>1, <2>2
  <2>4. \A i \in 1 .. Len(queue') : queue'[i] \in DOMAIN registered
    BY <2>1, <2>2, <2>3 DEF CallbackTypes
  <2>5. Head(queue) \in ids
    BY <2>1, <2>2
  <2>6. CallbackTypes'
    BY <1>0, <1>1, <2>1, <2>3, <2>4, <2>5 DEF CallbackTypes, ids
  <2>7. DispatchOK'
    BY <1>0, <2>1 DEF DispatchOK, Wanted, EndsOnlyIfTakenBack
  <2>8. QED BY <2>6, <2>7
<1>4. CASE CallCallback
  <2>1. /\ dispatching # NoPacket /\ callbackThread = "running" /\ UNCHANGED <<queue, packets>>
        /\ \/ Fatal(dispatching) /\ callbackThread' = "dead" /\ dispatching' = dispatching
           \/ dispatching' = NoPacket /\ callbackThread' = "running"
    BY <1>4 DEF CallCallback
  <2>2. Fatal(dispatching) => dispatching \in retracted
    <3>1. dispatching \in Registrable(binding)
      BY <2>1 DEF CallbackTypes
    <3>2. Fatal(dispatching) => registered[dispatching] = "none"
      BY <3>1 DEF Fatal, Registrable
    <3>3. QED BY <2>1, <3>2 DEF DispatchOK
  <2>3. CallbackTypes'
    BY <1>0, <1>1, <2>1 DEF CallbackTypes
  <2>4. DispatchOK'
    BY <1>0, <2>1, <2>2 DEF DispatchOK, EndsOnlyIfTakenBack
  <2>5. QED BY <2>3, <2>4
<1>5. QED BY <1>2, <1>3, <1>4

---------------------------------------------------------------------------
(* The invariant of the specification.                                     *)

LEMMA DeviceInvInit == Init => DeviceInv
<1> SUFFICES ASSUME Init PROVE DeviceInv
  OBVIOUS
<1>1. CallTypes
  BY FixedIds, BoundsAssumption DEF Init, CallTypes, Idle, NoAnswer, Outcomes, Errors, Kinds
<1>2. CallbackTypes /\ DispatchOK
  BY BoundsAssumption DEF Init, CallbackTypes, DispatchOK, EndsOnlyIfTakenBack
<1>3. FixedFlags /\ CallsOK
  BY DEF Init, FixedFlags, CallsOK, CallOK, Idle, Errors
<1>4. QED BY <1>1, <1>2, <1>3 DEF DeviceInv

\* A step of the flags or of a call does not touch the callbacks.
LEMMA CallbacksKept ==
  ASSUME CallbackTypes, DispatchOK,
         UNCHANGED <<binding, registered, retracted, queue, dispatching, callbackThread, packets>>
  PROVE  CallbackTypes' /\ DispatchOK'
<1>1. Registrable(binding)' = Registrable(binding)
  BY DEF Registrable, CallbackIds
<1>2. QED BY <1>1 DEF CallbackTypes, DispatchOK, EndsOnlyIfTakenBack

LEMMA DeviceInvStep == DeviceInv /\ [Next]_vars => DeviceInv'
<1> SUFFICES ASSUME DeviceInv, [Next]_vars PROVE DeviceInv'
  OBVIOUS
<1>1. CallTypes /\ CallbackTypes /\ DispatchOK /\ FixedFlags /\ CallsOK
  BY DEF DeviceInv
<1> DEFINE ids == Registrable(binding)
<1>2. ASSUME NEW t \in Threads,
             \/ \E f \in FlagIds(binding) \cup NoIds, v \in BOOLEAN : SetResponseExpected(t, f, v)
             \/ \E v \in BOOLEAN : SetAllStart(t, v)
             \/ \E f \in DOMAIN response_expected : SetAllStep(t, f)
             \/ SetAllEnd(t)
      PROVE  DeviceInv'
  <2>1. CallTypes' /\ FixedFlags' /\ CallsOK'
    BY <1>1, <1>2, FlagSteps
  <2>2. UNCHANGED <<binding, registered, retracted, queue, dispatching, callbackThread, packets>>
    BY <1>2 DEF SetResponseExpected, SetAllStart, SetAllStep, SetAllEnd, flagVars, callbackVars
  <2>3. CallbackTypes' /\ DispatchOK'
    BY <1>1, <2>2, CallbacksKept
  <2>4. QED BY <2>1, <2>3 DEF DeviceInv
<1>3. ASSUME NEW t \in Threads, NEW c \in CallsOf(binding), PackRequest(t, c)
      PROVE  DeviceInv'
  <2>1. CallTypes' /\ FixedFlags' /\ CallsOK'
    BY <1>1, <1>3, PackStep
  <2>2. UNCHANGED <<binding, registered, retracted, queue, dispatching, callbackThread, packets>>
    BY <1>3 DEF PackRequest, flagVars, callbackVars
  <2>3. CallbackTypes' /\ DispatchOK'
    BY <1>1, <2>2, CallbacksKept
  <2>4. QED BY <2>1, <2>3 DEF DeviceInv
<1>4. ASSUME NEW t \in Threads,
             \/ Transmit(t) \/ TransmitFails(t)
             \/ \E code \in 0 .. 3 : DeviceAnswers(t, code)
             \/ ReturnAnswer(t) \/ TimedOut(t)
      PROVE  DeviceInv'
  <2>1. CallTypes' /\ FixedFlags' /\ CallsOK'
    BY <1>1, <1>4, CallSteps
  <2>2. UNCHANGED <<binding, registered, retracted, queue, dispatching, callbackThread, packets>>
    BY <1>4 DEF Transmit, TransmitFails, DeviceAnswers, ReturnAnswer, TimedOut, flagVars,
       callbackVars
  <2>3. CallbackTypes' /\ DispatchOK'
    BY <1>1, <2>2, CallbacksKept
  <2>4. QED BY <2>1, <2>3 DEF DeviceInv
<1>5. ASSUME \/ \E t \in Threads, id \in ids, v \in {"function", "none"} : RegisterCallback(t, id, v)
             \/ \E id \in ids : HandleCallback(id)
             \/ DispatchPacket \/ CallCallback
      PROVE  DeviceInv'
  <2>1. CallbackTypes' /\ DispatchOK'
    BY <1>1, <1>5, RegisterStep, PacketSteps
  <2>2. UNCHANGED <<binding, response_expected, pc, req, answer, outcome>>
    BY <1>5 DEF RegisterCallback, HandleCallback, DispatchPacket, CallCallback, flagVars, callVars
  <2>3. ops' \in [Kinds -> 0 .. MaxOps]
    <3>1. CASE \E t \in Threads, id \in ids, v \in {"function", "none"} : RegisterCallback(t, id, v)
      BY <1>1, <3>1, StartCounts DEF RegisterCallback, Kinds
    <3>2. CASE (\E id \in ids : HandleCallback(id)) \/ DispatchPacket \/ CallCallback
      BY <1>1, <3>2 DEF HandleCallback, DispatchPacket, CallCallback, CallTypes
    <3>3. QED BY <1>5, <3>1, <3>2
  <2>4. CallTypes' /\ FixedFlags' /\ CallsOK'
    BY <1>1, <2>2, <2>3 DEF CallTypes, FixedFlags, CallsOK, CallOK
  <2>5. QED BY <2>1, <2>4 DEF DeviceInv
<1>6. CASE UNCHANGED vars
  <2>1. CallbackTypes' /\ DispatchOK'
    BY <1>1, <1>6, CallbacksKept DEF vars
  <2>2. CallTypes' /\ FixedFlags' /\ CallsOK'
    BY <1>1, <1>6 DEF vars, CallTypes, FixedFlags, CallsOK, CallOK
  <2>3. QED BY <2>1, <2>2 DEF DeviceInv
<1>7. QED
  <2>1. CASE Next
    BY <2>1, <1>2, <1>3, <1>4, <1>5 DEF Next
  <2>2. QED BY <1>6, <2>1

LEMMA DeviceInvariant == Spec => []DeviceInv
<1>1. QED BY DeviceInvInit, DeviceInvStep, PTL DEF Spec

---------------------------------------------------------------------------
(* Theorems.                                                               *)

\* For any classes, the device object stays within its types: the table has
\* the constructor's ids and its flags, and a request fits the length byte.
THEOREM DeviceTypes == Spec => []DeviceTypeOK
<1>1. DeviceInv => DeviceTypeOK
  BY DEF DeviceInv, CallTypes, CallbackTypes, DeviceTypeOK
<1>2. QED BY <1>1, DeviceInvariant, PTL

\* No sequence of set_response_expected and set_response_expected_all by any
\* number of threads changes the flag of a getter, of a callback or of a
\* function all devices have.
THEOREM FlagsFixed == Spec => []FixedFlags
<1>1. DeviceInv => FixedFlags
  BY DEF DeviceInv
<1>2. QED BY <1>1, DeviceInvariant, PTL

\* A method with a return value returns one or raises a documented error, with
\* the flags changing under it.
THEOREM GettersReturn == Spec => []GettersReturnValues
<1>1. DeviceInv => GettersReturnValues
  BY DEF DeviceInv, CallsOK, CallOK, GettersReturnValues
<1>2. QED BY <1>1, DeviceInvariant, PTL

\* Whatever the threads register and take back meanwhile, dispatch_packet ends
\* the callback thread only on a packet whose callback has been taken back: one
\* that never was a function is caught by the test of ip_connection.py:785.
THEOREM CallbackThreadEnds == Spec => []EndsOnlyIfTakenBack
<1>1. DeviceInv => EndsOnlyIfTakenBack
  BY DEF DeviceInv, DispatchOK
<1>2. QED BY <1>1, DeviceInvariant, PTL
===========================================================================
