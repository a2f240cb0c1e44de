-------------------------------- MODULE QtiIms --------------------------------
(***************************************************************************)
(* IMS registration, qti_ims.c: the registration state is learnt from the  *)
(* indications of the radio service and from its answers to               *)
(* GET_IMS_REG_STATE, which is asked before every request to change the    *)
(* registration.  The two kinds of message arrive at different binder      *)
(* objects: each kind keeps its order, but nothing orders one kind         *)
(* relative to the other.                                                  *)
(*                                                                         *)
(* The request layer is RequestContract, which QtiRadioExt implements.     *)
(***************************************************************************)
EXTENDS Integers, Sequences, FiniteSets

CONSTANTS
    MaxRequests,           \* bound: radio requests made in a behaviour
    MaxOps,                \* bound: set_registration calls of ofono
    MaxChanges,            \* bound: changes of state in the service
    Reported,              \* bound: registration states the service takes
    BaseRefs               \* references to the BinderExtIms from outside

ASSUME BoundsAssumption ==
    MaxRequests \in Nat /\ MaxOps \in Nat /\ MaxChanges \in Nat
ASSUME BaseRefsAssumption == BaseRefs \in Nat \ {0}

Requests == 1..MaxRequests
Ops == 1..MaxOps
None == 0

RegStates == {"REGISTERED", "NOT_REGISTERED", "REGISTERING", "INVALID"}

ASSUME ReportedAssumption == Reported \subseteq RegStates
ImsStates == {"REGISTERED", "NOT_REGISTERED", "REGISTERING", "UNKNOWN"}

(* What the reader returns for a message it cannot parse *)
FAILED_TO_READ == "FAILED_TO_READ"

(* The error codes the service may answer a request with (others are like
   GENERIC_FAILURE), as the integers the code compares. *)
INVALID == 0
SUCCESS == 1
GENERIC_FAILURE == 3
ErrorCodes == {INVALID, SUCCESS, GENERIC_FAILURE}

VARIABLES
    ims_state,             \* self->ims_state
    refs,                  \* reference count of the BinderExtIms
    known, outstanding, completions, releases,  \* the request contract
    remote,                \* is the service alive?
    job,                   \* what each pending request asks, and for whom
    control,               \* which code runs
    dispatching,           \* the request whose response is being handled
    op_id,                 \* the id each set_registration returned
    op_complete,           \* does it have a complete callback?
    op_completed,          \* runs of its complete callback
    op_destroyed,          \* runs of its destroy callback
    op_result,             \* the result complete was called with
    started,               \* operations ofono has asked for
    reg_state,             \* the state of the registration in the service
    changes,               \* changes of it so far
    indications,           \* reports of those changes on their way
    responses,             \* answers to requests on their way
    fresh,                 \* history: was a check answered since the last change?
    missed                 \* history: was the report of that change unreadable?

contract == <<known, outstanding, completions, releases>>
loop == <<control, dispatching>>
ops == <<op_id, op_complete, op_completed, op_destroyed, op_result, started>>
service == <<reg_state, changes, indications, responses, fresh, missed>>
vars == <<ims_state, refs, contract, remote, job, loop, ops, service>>

Req == INSTANCE RequestContract

NoJob == [kind |-> "none", owner |-> None]
Jobs == [kind : {"none", "get", "set"}, owner : Ops \cup {None}]

next_request == Cardinality(known) + 1

Exists == refs > 0

Init ==
    /\ ims_state = "UNKNOWN"
    /\ refs = BaseRefs
    /\ Req!Init
    /\ remote = "alive"
    /\ job = [r \in Requests |-> NoJob]
    /\ control = "loop"
    /\ dispatching = None
    /\ op_id = [o \in Ops |-> None]
    /\ op_complete = [o \in Ops |-> FALSE]
    /\ op_completed = [o \in Ops |-> 0]
    /\ op_destroyed = [o \in Ops |-> 0]
    /\ op_result = [o \in Ops |-> "none"]
    /\ started = {}
    /\ reg_state \in Reported
    /\ changes = 0
    /\ indications = <<>>
    /\ responses = <<>>
    /\ fresh = FALSE
    /\ missed = FALSE

------------------------------------------------------------------------------
(* Registration state *)

ims_state_raw(state) == state            \* variant: states are not translated

ims_state_of(state) == IF state = "INVALID" THEN "UNKNOWN" ELSE state

(* A report of the state; ofono's observers are told if it is a new one. *)
reg_status_changed(state) == ims_state' = ims_state_of(state)

------------------------------------------------------------------------------
(* Requests *)

(* qti_ims_result_request_destroy: ofono's destroy callback, then the
   reference to the BinderExtIms. *)
request_destroy(j) ==
    /\ op_destroyed' = [o \in Ops |->
          IF o = j.owner THEN op_destroyed[o] + 1 ELSE op_destroyed[o]]
    /\ refs' = refs - 1

(* The binder takes the request, which holds a reference from now on. *)
accept(j) ==
    /\ remote = "alive"
    /\ Req!Accept(next_request)
    /\ job' = [job EXCEPT ![next_request] = j]
    /\ refs' = refs + 1
    /\ UNCHANGED op_destroyed

(* set_registration, first half: GET_STATE is emitted, whose handler asks for
   the current state.  A refused check is freed by the layer below, once. *)
get_registrations ==
    \/ accept([kind |-> "get", owner |-> None])
    \/ /\ remote = "dead"
       /\ Req!Refuse(next_request)
       /\ UNCHANGED <<job, refs, op_destroyed>>

set_registration(o, with_complete) ==
    /\ Exists
    /\ control \in {"loop", "ofono"}
    /\ o = Cardinality(started) + 1
    /\ Cardinality(known) + 2 <= MaxRequests
    /\ started' = started \cup {o}
    /\ op_complete' = [op_complete EXCEPT ![o] = with_complete]
    /\ get_registrations
    /\ control' = "set"
    /\ UNCHANGED <<ims_state, remote, dispatching, op_id, op_completed,
                   op_result, service>>

submit_set_frees(o) ==                   \* variant: freed when it was accepted
    /\ remote = "alive"
    /\ Req!Accept(next_request)
    /\ job' = [job EXCEPT ![next_request] = [kind |-> "set", owner |-> o]]
    /\ op_id' = [op_id EXCEPT ![o] = next_request]
    /\ op_destroyed' = [op_destroyed EXCEPT ![o] = @ + 1]
    /\ UNCHANGED refs

(* ... and second half: the request itself.  When it is refused, the layer
   below destroys it, and then the caller frees it again: what that free
   finds in the freed memory is often, not always, the old request. *)
submit_set(o) ==
    \/ /\ accept([kind |-> "set", owner |-> o])
       /\ op_id' = [op_id EXCEPT ![o] = next_request]
    \/ /\ remote = "dead"
       /\ Req!Refuse(next_request)
       /\ op_destroyed' = [op_destroyed EXCEPT ![o] = @ + 1]
       /\ refs' \in {refs - 1, refs}
       /\ UNCHANGED <<job, op_id>>

set_reg_state ==
    /\ Exists
    /\ control = "set"
    /\ submit_set(Cardinality(started))
    /\ control' = IF dispatching = None THEN "loop" ELSE "ofono"
    /\ UNCHANGED <<ims_state, remote, dispatching, op_complete, op_completed,
                   op_result, started, service>>

(* qti_ims_result_request_complete: any code but 0 is an error; a response
   that cannot be read is one too. *)
result_of(code) == IF code # 0 THEN "ERROR" ELSE "OK"

complete_set(r, code) ==
    LET o == job[r].owner
    IN /\ IF op_complete[o]
            THEN /\ op_completed' = [op_completed EXCEPT ![o] = @ + 1]
                 /\ op_result' = [op_result EXCEPT ![o] = result_of(code)]
                 /\ control' = "ofono"
            ELSE /\ control' = "return"
                 /\ UNCHANGED <<op_completed, op_result>>
       /\ UNCHANGED ims_state

response_changes_always(state) ==        \* variant: an unreadable state is taken
    IF state = FAILED_TO_READ THEN reg_status_changed("INVALID")
                              ELSE reg_status_changed(state)

(* qti_ims_reg_status_response: the error code is not looked at. *)
reg_status_response(state) ==
    IF state = FAILED_TO_READ THEN UNCHANGED ims_state
                              ELSE reg_status_changed(state)

(* A response is handled, up to ofono's callback or observer, which may ask for
   an operation before the request is released. *)
handle_response ==
    LET m == Head(responses)
    IN /\ Exists
       /\ control = "loop"
       /\ responses # <<>>
       /\ Req!Complete(m.request)
       /\ responses' = Tail(responses)
       /\ dispatching' = m.request
       /\ \/ /\ job[m.request].kind = "get"
             /\ reg_status_response(m.state)
             /\ control' = IF ims_state' # ims_state THEN "ofono" ELSE "return"
             /\ UNCHANGED <<op_completed, op_result>>
          \/ /\ job[m.request].kind = "set"
             /\ complete_set(m.request, m.code)
       /\ UNCHANGED <<refs, remote, job, op_id, op_complete, op_destroyed,
                      started, reg_state, changes, indications, fresh,
                      missed>>

response_return_leaks ==                     \* variant: the request is not freed
    /\ Exists
    /\ control \in {"ofono", "return"}
    /\ Req!Release(dispatching)
    /\ job' = [job EXCEPT ![dispatching] = NoJob]
    /\ control' = "loop"
    /\ dispatching' = None
    /\ UNCHANGED <<refs, op_destroyed, ims_state, remote, op_id, op_complete,
                   op_completed, op_result, started, service>>

(* The callbacks have returned, the request is released. *)
response_return ==
    /\ Exists
    /\ control \in {"ofono", "return"}
    /\ Req!Release(dispatching)
    /\ request_destroy(job[dispatching])
    /\ job' = [job EXCEPT ![dispatching] = NoJob]
    /\ control' = "loop"
    /\ dispatching' = None
    /\ UNCHANGED <<ims_state, remote, op_id, op_complete, op_completed,
                   op_result, started, service>>

(* qti_ims_cancel is not implemented. *)
cancel(o) ==
    /\ Exists
    /\ op_id[o] # None
    /\ control \in {"loop", "ofono"}
    /\ UNCHANGED vars

(* An indication of the registration state is handled.  One that cannot be
   read is dropped: nothing is kept of it, and no observer is told. *)
handle_ims_reg_status_report ==
    /\ Exists
    /\ control = "loop"
    /\ indications # <<>>
    /\ \/ /\ reg_status_changed(Head(indications))
          /\ UNCHANGED missed
       \/ /\ missed' = (Tail(indications) = <<>>)
          /\ UNCHANGED ims_state
    /\ indications' = Tail(indications)
    /\ UNCHANGED <<refs, contract, remote, job, loop, ops, reg_state, changes,
                   responses, fresh>>

------------------------------------------------------------------------------
(* The radio service *)

service_changes ==
    /\ remote = "alive"
    /\ changes < MaxChanges
    /\ changes' = changes + 1
    /\ \E state \in Reported \ {reg_state} :
          /\ reg_state' = state
          /\ indications' = Append(indications, state)
    /\ fresh' = FALSE
    /\ missed' = FALSE
    /\ UNCHANGED <<ims_state, refs, contract, remote, job, loop, ops, responses>>

Awaiting == {r \in outstanding : /\ completions[r] = 0
                                 /\ \A i \in DOMAIN responses :
                                        responses[i].request # r}

(* A check is answered with the current state, or unreadably. *)
service_answers_get(r) ==
    /\ remote = "alive"
    /\ r \in Awaiting
    /\ job[r].kind = "get"
    /\ \E state \in {reg_state, FAILED_TO_READ} :
          /\ responses' = Append(responses, [request |-> r, code |-> SUCCESS,
                                             state |-> state])
          /\ fresh' = (fresh \/ state # FAILED_TO_READ)
    /\ UNCHANGED <<ims_state, refs, contract, remote, job, loop, ops, reg_state,
                   changes, indications, missed>>

service_answers_set(r) ==
    /\ remote = "alive"
    /\ r \in Awaiting
    /\ job[r].kind = "set"
    /\ \E code \in ErrorCodes :
          responses' = Append(responses, [request |-> r, code |-> code,
                                          state |-> FAILED_TO_READ])
    /\ UNCHANGED <<ims_state, refs, contract, remote, job, loop, ops, reg_state,
                   changes, indications, fresh, missed>>

service_dies ==
    /\ remote = "alive"
    /\ remote' = "dead"
    /\ UNCHANGED <<ims_state, refs, contract, job, loop, ops, service>>

Next ==
    \/ \E o \in Ops, with_complete \in BOOLEAN :
          set_registration(o, with_complete)
    \/ set_reg_state
    \/ \E o \in Ops : cancel(o)
    \/ handle_response
    \/ response_return
    \/ handle_ims_reg_status_report
    \/ service_changes
    \/ \E r \in Requests : service_answers_get(r) \/ service_answers_set(r)
    \/ service_dies

Spec == Init /\ [][Next]_vars

(* Code that has begun runs on and messages are handled; while it lives, the
   service goes on answering as long as there are requests to answer. *)
Fairness ==
    /\ WF_vars(set_reg_state)
    /\ WF_vars(response_return)
    /\ WF_vars(handle_response)
    /\ WF_vars(\E r \in Requests :
                  service_answers_get(r) \/ service_answers_set(r))

FairSpec == Spec /\ Fairness

------------------------------------------------------------------------------
(* Properties *)

TypeOK ==
    /\ ims_state \in ImsStates
    /\ refs \in Int
    /\ known \subseteq Requests /\ outstanding \subseteq known
    /\ completions \in [Requests -> Nat] /\ releases \in [Requests -> Nat]
    /\ remote \in {"alive", "dead"}
    /\ job \in [Requests -> Jobs]
    /\ control \in {"loop", "set", "ofono", "return"}
    /\ dispatching \in outstanding \cup {None}
    /\ op_id \in [Ops -> known \cup {None}]
    /\ op_complete \in [Ops -> BOOLEAN]
    /\ op_completed \in [Ops -> Nat] /\ op_destroyed \in [Ops -> Nat]
    /\ op_result \in [Ops -> {"none", "OK", "ERROR"}]
    /\ started \subseteq Ops
    /\ reg_state \in Reported /\ changes \in 0..MaxChanges
    /\ indications \in Seq(Reported)
    /\ responses \in Seq([request : known, code : ErrorCodes,
                          state : Reported \cup {FAILED_TO_READ}])
    /\ fresh \in BOOLEAN /\ missed \in BOOLEAN

(* Every message sent has been handled. *)
Settled == indications = <<>> /\ responses = <<>> /\ control # "set"

(* If the service has answered a check, readably, after its last change, and
   the indication of that change was not dropped, then the state kept is the
   service's once every message has been handled, in whatever order answers and
   indications came, and whichever of the others could not be read. *)
FreshCheckSettles ==
    Settled /\ fresh /\ ~ missed => ims_state = ims_state_of(reg_state)

(* The operation whose second half has not run yet *)
Begun(o) == control = "set" /\ o = Cardinality(started)

(* An operation is destroyed exactly once, when its request has ended, also
   if it was refused. *)
OpAccounted ==
    \A o \in started :
        op_destroyed[o] =
            IF Begun(o) \/ \E r \in outstanding : job[r].owner = o THEN 0 ELSE 1

(* complete does not run after destroy, nor twice. *)
NotCompletedAfterDestroy ==
    [][\A o \in Ops :
         op_completed'[o] # op_completed[o] =>
            op_destroyed[o] = 0 /\ op_completed[o] = 0]_vars

(* The requests pending, among them every check, hold one reference each to
   the object their responses will update, so that it outlives them -- as
   long as no set_registration was refused; a refused check does no harm. *)
RefsExact ==
    (\A o \in started : op_id[o] # None \/ Begun(o)) =>
        refs = BaseRefs + Cardinality(outstanding)

(* Every operation with an id ends, unless the service dies. *)
OpEnds ==
    \A o \in Ops :
        op_id[o] # None ~> (op_destroyed[o] > 0 \/ remote = "dead" \/ ~ Exists)

(* The check made before a registration is changed is meant to get the
   updated state: when every message has been handled, and the last change
   could be read, the state kept is that of the service, if the service has
   reported it at all. *)
SettledStateIsCurrent ==
    Settled /\ ~ missed /\ ims_state # "UNKNOWN" =>
        ims_state = ims_state_of(reg_state)

(* SUCCESS, which is 1, reaches ofono as success, and nothing else does. *)
SuccessReportedAsSuccess ==
    [][\A o \in Ops :
         op_completed'[o] # op_completed[o] =>
            (op_result'[o] = "OK" <=> Head(responses).code = SUCCESS)]_vars
==============================================================================
