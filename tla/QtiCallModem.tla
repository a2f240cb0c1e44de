----------------------------- MODULE QtiCallModem -----------------------------
(***************************************************************************)
(* The call interface and the modem behind it.  QtiImsCall takes any       *)
(* indication at any time; here the indications come from a modem that has *)
(* calls and executes requests, so that the list of calls can be compared  *)
(* with what it is a copy of, and a swap with what it does to the calls.   *)
(*                                                                         *)
(* Requests, responses and indications go through binder objects of their  *)
(* own: each kind keeps its order, nothing orders one kind relative to the *)
(* other.  A response is often ahead of the indication of what the request *)
(* has done.                                                               *)
(***************************************************************************)
EXTENDS Integers, Sequences, FiniteSets, SequencesExt

CONSTANTS
    CallIds, MaxRequests, MaxOps, States, MaxBatch, BaseRefs,  \* of QtiImsCall
    MaxEvents              \* bound: what happens in the modem by itself

ASSUME MaxEventsAssumption == MaxEvents \in Nat

VARIABLES
    calls, voice_enabled, seen, cleared, id_map, refs, known, outstanding,
    completions, releases, remote, job, activated, failed_swaps, control, dispatching,
    hangups, handover, started, op_id, op_completed, op_destroyed, op_result,
    op_failed, op_refused, cancelled,                 \* the call interface
    modem,                 \* the state of each call in the modem
    voice,                 \* does the modem have IMS voice?
    announced,             \* has it said so?
    events,                \* how much has happened in the modem by itself
    commands,              \* requests on their way
    answers,               \* responses on their way
    indications,           \* indications on their way
    mishaps                \* history: what may make the list differ

interface == <<calls, voice_enabled, seen, cleared, id_map, refs, known,
               outstanding, completions, releases, remote, job, activated, failed_swaps,
               control, dispatching, hangups, handover, started, op_id,
               op_completed, op_destroyed, op_result, op_failed, op_refused,
               cancelled>>
vars == <<interface, modem, voice, announced, events, commands, answers,
          indications, mishaps>>

Call == INSTANCE QtiImsCall

(* What QtiImsCall assumes; here calls take every state. *)
ASSUME CallAssumption ==
    /\ CallIds \subseteq Nat \ {0} /\ IsFiniteSet(CallIds)
    /\ MaxRequests \in Nat /\ MaxOps \in Nat
    /\ MaxBatch \in Nat \ {0} /\ BaseRefs \in Nat \ {0}
    /\ States = Call!AllStates

NoCall == "none"

InState(S) == {c \in CallIds : modem[c] \in S}
Present == InState(States)
Active == InState({"ACTIVE"})
Ringing == InState({"INCOMING", "WAITING"})

Info(c, state) == [id |-> c, state |-> state]

(* Initially the list is a copy of the modem's calls, each in a state of its
   own; the service may or may not have said that it has voice. *)
Init ==
    /\ modem \in [CallIds -> States \cup {NoCall}]
    /\ \A c, d \in Present : c # d => modem[c] # modem[d]
    /\ Cardinality(Ringing) <= 1
    /\ calls \in SetToSeqs({Info(c, modem[c]) : c \in Present})
    /\ seen = calls
    /\ cleared = FALSE
    /\ voice = TRUE
    /\ announced \in BOOLEAN
    /\ voice_enabled = announced
    /\ Call!InitOperations
    /\ events = 0
    /\ commands = <<>>
    /\ answers = <<>>
    /\ indications = <<>>
    /\ mishaps = {}

------------------------------------------------------------------------------
(* The call interface *)

(* What the step has submitted is on its way to the modem. *)
sends ==
    LET new == outstanding' \ outstanding
    IN commands' = commands \o SetToSeq({[request |-> r, kind |-> job'[r].kind,
                                          call |-> job'[r].call,
                                          role |-> job'[r].role] : r \in new})

(* Is the list the one thing ofono and the interface can go by? *)
InStep == indications = <<>> /\ commands = <<>> /\ outstanding = {}

mishap(what, happens) == mishaps' = mishaps \cup IF happens THEN {what} ELSE {}

UnchangedModem == UNCHANGED <<modem, voice, announced, events, indications>>

(* ofono asks for an operation; to answer, while no listed call is active: it
   swaps otherwise. *)
ofono_asks ==
    /\ \/ Call!dial
       \/ Call!answer /\ Call!id_find_by_state("ACTIVE") = Call!None
       \/ \E c \in CallIds : Call!hangup(c)
       \/ \E flag \in {"NONE", "HANGUP"} : Call!swap_active(flag)
       \/ Call!swap_inactive
    /\ sends
    /\ mishap("raced", ~ InStep)
    /\ UNCHANGED answers
    /\ UnchangedModem

ofono_cancels ==
    /\ \E o \in Call!Ops : Call!cancel(o)
    /\ UNCHANGED <<commands, answers, mishaps>>
    /\ UnchangedModem

(* The interface runs on in a handler it has begun. *)
runs_on ==
    /\ Call!swap_step_activate \/ Call!response_return \/ Call!hangup_held
    /\ sends
    /\ UNCHANGED <<answers, mishaps>>
    /\ UnchangedModem

(* The next response is handled, or finds that its request was cancelled. *)
response ==
    /\ answers # <<>>
    /\ control = "loop"
    /\ LET m == Head(answers)
       IN IF m.request \in outstanding THEN Call!response(m.request, m.result)
                                       ELSE UNCHANGED interface
    /\ answers' = Tail(answers)
    /\ UNCHANGED <<commands, mishaps>>
    /\ UnchangedModem

(* The next indication is handled.  That of a call may be dropped because an
   entry of it cannot be read. *)
indication ==
    /\ indications # <<>>
    /\ LET m == Head(indications)
       IN \/ /\ m.kind = "calls"
             /\ Call!call_state_indication(m.update)
             /\ mishap("unread", calls' # Call!calls_after(m.update))
          \/ /\ m.kind = "voice"
             /\ Call!handle_service_status(m.update)
             /\ UNCHANGED mishaps
          \/ /\ m.kind = "handover"
             /\ Call!handover_indication("COMPLETE_SUCCESS")
             /\ mishap("raced", Tail(indications) # <<>> \/ commands # <<>>
                                \/ outstanding # {})
    /\ indications' = Tail(indications)
    /\ UNCHANGED <<modem, voice, announced, events, commands, answers>>

------------------------------------------------------------------------------
(* The modem *)

Indicate(kind, update) ==
    indications' = Append(indications, [kind |-> kind, update |-> update])

(* The calls, and an indication of the one that has changed, or of all *)
Become(c, state) ==
    LET others == SetToSeq({Info(d, modem[d]) : d \in Present \ {c}})
        ended == state = NoCall
        info == Info(c, IF ended THEN Call!END ELSE state)
    IN /\ modem' = [modem EXCEPT ![c] = state]
       /\ \/ Indicate("calls", <<info>>)
          \/ /\ others # <<>>
             /\ Indicate("calls", others \o <<info>>)

Happens ==
    /\ events < MaxEvents
    /\ events' = events + 1
    /\ UNCHANGED <<interface, commands, answers>>

(* A call comes in: one at a time, and it waits if there is another call. *)
call_arrives ==
    /\ Happens
    /\ voice /\ Ringing = {}
    /\ \E c \in CallIds \ Present :
          Become(c, IF Present = {} THEN "INCOMING" ELSE "WAITING")
    /\ UNCHANGED <<voice, announced, mishaps>>

(* The other party hangs up. *)
call_ends ==
    /\ Happens
    /\ \E c \in Present : Become(c, NoCall)
    /\ UNCHANGED <<voice, announced, mishaps>>

(* The other party accepts the call that was dialled. *)
call_connects ==
    /\ Happens
    /\ Active = {}
    /\ \E c \in InState({"OTHER"}) : Become(c, "ACTIVE")
    /\ mishap("raced", commands # <<>> \/ outstanding # {})
    /\ UNCHANGED <<voice, announced>>

(* Voice is lost: the calls end or go on elsewhere, and no indication says so
   but that of the voice service; voice may be back before it is sent. *)
voice_lost ==
    /\ Happens
    /\ voice
    /\ modem' = [c \in CallIds |-> NoCall]
    /\ \E back \in BOOLEAN :
          /\ voice' = back
          /\ Indicate("voice", IF back THEN <<FALSE, TRUE>> ELSE <<FALSE>>)
          /\ announced' = (announced \/ back)
    /\ mishap("unannounced", ~ announced)

voice_enabled_reported ==
    /\ Happens
    /\ voice' = TRUE
    /\ announced' = TRUE
    /\ Indicate("voice", <<TRUE>>)
    /\ UNCHANGED <<modem, mishaps>>

handover_completed ==
    /\ Happens
    /\ Indicate("handover", <<>>)
    /\ UNCHANGED <<modem, voice, announced, mishaps>>

(* What a request makes of a call, if the modem can do it.  To answer is to
   answer the call that rings, whichever was meant. *)
Effects(command) ==
    CASE command.kind = "hold" /\ command.call \in Active ->
            {Info(command.call, "HOLDING")}
      [] command.kind = "resume" /\ command.call \in InState({"HOLDING"}) ->
            {Info(command.call, "ACTIVE")}
      [] command.kind = "hangup" /\ command.call \in Present ->
            {Info(command.call, NoCall)}
      [] command.kind = "answer" -> {Info(c, "ACTIVE") : c \in Ringing}
      [] command.kind = "dial" /\ Active = {} /\ voice ->
            {Info(c, "OTHER") : c \in CallIds \ Present}
      [] OTHER -> {}

(* The next request is executed, or fails for whatever reason. *)
execute ==
    /\ commands # <<>>
    /\ LET command == Head(commands)
           Answer(result) == answers' = Append(answers,
               [request |-> command.request, result |-> result])
       IN \/ \E info \in Effects(command) :
                /\ Become(info.id, info.state)
                /\ Answer("SUCCESS")
          \/ /\ Answer("FAILURE")
             /\ UNCHANGED <<modem, indications>>
    /\ commands' = Tail(commands)
    /\ UNCHANGED <<interface, voice, announced, events, mishaps>>

Next ==
    \/ ofono_asks \/ ofono_cancels \/ runs_on \/ response \/ indication
    \/ call_arrives \/ call_ends \/ call_connects
    \/ voice_lost \/ voice_enabled_reported \/ handover_completed
    \/ execute

Spec == Init /\ [][Next]_vars

------------------------------------------------------------------------------
(* Properties *)

TypeOK ==
    /\ Call!TypeOK
    /\ modem \in [CallIds -> States \cup {NoCall}]
    /\ voice \in BOOLEAN /\ announced \in BOOLEAN
    /\ events \in 0..MaxEvents
    /\ \A i \in DOMAIN commands : commands[i].request \in known
    /\ \A i \in DOMAIN answers : answers[i].request \in known
    /\ \A i \in DOMAIN indications :
          indications[i].kind \in {"calls", "voice", "handover"}
    /\ mishaps \subseteq {"raced", "unread", "unannounced"}

(* When every indication has been handled, the list has the modem's calls and
   no other, in the states they are in: no ghost of a call that ended, also
   after voice was lost, and none missing -- unless an indication could not be
   read, or voice was lost that had never been reported. *)
ListMatchesModem ==
    indications = <<>> /\ mishaps \subseteq {"raced"} =>
        ToSet(calls) = {Info(c, modem[c]) : c \in Present}

(* No swap, answer or resumption makes two calls active at once in the modem,
   whatever fails or ends meanwhile -- if ofono asks for one operation at a
   time, each when the list is up to date. *)
NeverTwoActive == mishaps = {} => Cardinality(Active) <= 1

(* The hang-ups that follow a handover never end the active call, on the same
   condition. *)
HandoverKeepsActive ==
    [][mishaps = {} /\ commands # <<>> /\ Head(commands).role = "handover"
         /\ commands' = Tail(commands) =>
            \A c \in Active : modem'[c] = "ACTIVE"]_vars
==============================================================================
