------------------------------ MODULE QtiImsCall ------------------------------
(***************************************************************************)
(* The call interface, qti_ims_call.c: the list of calls kept from the     *)
(* indications of the radio service, and the operations ofono asks for.    *)
(* An operation is one request to the radio, but swap with an active and   *)
(* another call is two: hold or hang up the active call, then, when that   *)
(* has succeeded, answer or resume the other.                              *)
(*                                                                         *)
(* The layer below is RequestContract, which QtiRadioExt implements.  The  *)
(* main loop runs one handler at a time; "control" says which code runs    *)
(* when a handler takes several steps, because it makes several requests   *)
(* or because a callback of ofono's runs inside it.                        *)
(***************************************************************************)
EXTENDS Integers, Sequences, FiniteSets, SequencesExt, FiniteSetsExt

CONSTANTS
    CallIds,               \* call indices the service uses
    MaxRequests,           \* bound: radio requests made in a behaviour
    MaxOps,                \* bound: operations ofono asks for
    States,                \* bound: states the service reports calls in
    MaxBatch,              \* bound: entries of one indication
    BaseRefs               \* references to the BinderExtCall from outside

ASSUME CallIdsAssumption == CallIds \subseteq Nat \ {0}
ASSUME BoundsAssumption == MaxRequests \in Nat /\ MaxOps \in Nat
ASSUME BaseRefsAssumption == BaseRefs \in Nat \ {0}

Requests == 1..MaxRequests
Ops == 1..MaxOps

(* The value 0 of a call id, of a request id and of an operation: none. *)
None == 0

(* Call states the code tells apart; OTHER is any other state of a call. *)
AllStates == {"ACTIVE", "HOLDING", "INCOMING", "WAITING", "OTHER"}
END == "END"

ASSUME StatesAssumption == States \subseteq AllStates
ASSUME MaxBatchAssumption == MaxBatch \in Nat \ {0}

VARIABLES
    calls,                 \* self->calls, entries [id, state] in order
    voice_enabled,         \* radio->voice_enabled
    seen,                  \* the list as ofono has read it when last told to
    cleared,               \* history: has the loss of voice emptied the list since?
    id_map,                \* keys of self->id_map (each mapped to itself)
    refs,                  \* reference count of the BinderExtCall
    known, outstanding, completions, releases,  \* the request contract
    remote,                \* is the service alive?
    job,                   \* what each pending request asks, and for whom
    activated,             \* step 1 requests whose step1_success is set
    failed_swaps,          \* history: swaps that ended in step 1
    control,               \* which code runs
    dispatching,           \* the request whose response is being handled
    hangups,               \* where in the list handle_handover goes on
    handover,              \* the type of the handover being handled, as sent
    started,               \* operations ofono has asked for
    op_id,                 \* the id each of them returned
    op_completed,          \* runs of ofono's complete callback
    op_destroyed,          \* runs of ofono's destroy callback
    op_result,             \* the result complete was last called with
    op_failed,             \* history: operations a request of which failed
    op_refused,            \* history: operations a request of which was refused
    cancelled              \* operations cancelled while their id was pending

contract == <<known, outstanding, completions, releases>>
list == <<calls, voice_enabled, seen, cleared>>
ops == <<started, op_id, op_completed, op_destroyed, op_result, op_failed,
         op_refused, cancelled>>
loop == <<control, dispatching, hangups, handover>>
vars == <<list, id_map, refs, contract, remote, job, activated, failed_swaps,
          loop, ops>>

Req == INSTANCE RequestContract

(* kind: the radio request.  owner: the operation it is for, if any.  role:
   whether it is all of the operation, a step of a swap, or made by
   handle_handover.  hold and incoming: rdata of a swap, for step 2. *)
Jobs == [kind : {"dial", "answer", "hold", "resume", "hangup"},
         call : CallIds \cup {None}, owner : Ops \cup {None},
         role : {"whole", "step1", "step2", "handover"},
         hold : CallIds \cup {None}, incoming : CallIds \cup {None}]
NoJob == [kind |-> "none"]

next_request == Cardinality(known) + 1
next_op == Cardinality(started) + 1

Unfinished == {r \in outstanding : job[r].role = "step1"}

(* Room for n more requests besides the second steps still to come *)
Room(n) == Cardinality(known) + Cardinality(Unfinished) + n <= MaxRequests

------------------------------------------------------------------------------
(* The list of calls *)

info_find(list_of_calls, id) ==
    {i \in DOMAIN list_of_calls : list_of_calls[i].id = id}

(* The first call in the state, None if there is no such call *)
id_find_by_state(state) ==
    LET found == {i \in DOMAIN calls : calls[i].state = state}
    IN IF found = {} THEN None ELSE calls[Min(found)].id

adds_ended(list_of_calls, info) ==       \* variant: an unknown call is added,
    LET found == info_find(list_of_calls, info.id)          \* even if it ended
    IN IF found = {} THEN Append(list_of_calls, info)
                     ELSE [list_of_calls EXCEPT ![Min(found)] = info]

append_always(list_of_calls, info) ==    \* variant: the call is not looked up
    IF info.state = END
      THEN SelectSeq(list_of_calls, LAMBDA c : c.id # info.id)
      ELSE Append(list_of_calls, info)

(* One entry of an indication: an ended call is removed, a known one changes
   its state, an unknown one is added. *)
update_call(list_of_calls, info) ==
    LET found == info_find(list_of_calls, info.id)
    IN IF found = {}
         THEN IF info.state = END THEN list_of_calls
                                  ELSE Append(list_of_calls, info)
         ELSE IF info.state = END
                THEN RemoveAt(list_of_calls, Min(found))
                ELSE [list_of_calls EXCEPT ![Min(found)] = info]

------------------------------------------------------------------------------
(* Requests *)

(* Does a swap end with r? *)
fails_swap(r, j) == j.role = "step1" /\ r \notin activated

destroys_always(r, j) == j.role # "handover"    \* variant: step1_success ignored

destroys_never_step1(r, j) ==             \* variant: a failed step 1 forgets it
    j.role \in {"whole", "step2"}

(* Freeing request r, of job j, runs ofono's destroy callback, unless step 2
   of a swap took it over or there is none. *)
destroys(r, j) == j.role \in {"whole", "step2"} \/ fails_swap(r, j)

unrefs_step1(r, j) ==                       \* variant: also after a success
    IF j.role = "step1" THEN 2 ELSE 1

(* References freeing the request drops: its own, and swap_step1_destroy one
   more, which nothing took, when there is no step 2. *)
unrefs(r, j) == IF fails_swap(r, j) THEN 2 ELSE 1

(* qti_ims_call_result_request_free, run n times on r of job j, the count of
   references being "count" before *)
request_free(r, j, n, count) ==
    /\ op_destroyed' = [o \in Ops |->
          IF destroys(r, j) /\ o = j.owner THEN op_destroyed[o] + n
                                           ELSE op_destroyed[o]]
    /\ refs' = count - n * unrefs(r, j)
    /\ failed_swaps' = failed_swaps + IF fails_swap(r, j) THEN 1 ELSE 0
    /\ activated' = activated \ {r}

(* A request is created and submitted.  When it is refused, the layer below
   frees it, and then so does the code that submitted it: what that second
   free finds in the freed memory is often, not always, the old request. *)
submit(j) ==
    LET r == next_request
    IN \/ /\ remote = "alive"
          /\ Req!Accept(r)
          /\ job' = [job EXCEPT ![r] = j]
          /\ id_map' = id_map \cup {r}
          /\ refs' = refs + 1
          /\ UNCHANGED <<op_destroyed, op_refused, activated, failed_swaps>>
       \/ /\ remote = "dead"
          /\ Req!Refuse(r)
          /\ \E again \in {0, 1} : request_free(r, j, 1 + again, refs + 1)
          /\ op_refused' = op_refused \cup ({j.owner} \ {None})
          /\ UNCHANGED <<job, id_map>>

(* The request ends in the layer below. *)
release(r) ==
    /\ Req!Release(r)
    /\ request_free(r, job[r], 1, refs)
    /\ job' = [job EXCEPT ![r] = NoJob]

Job(kind, call, owner, role, hold, incoming) ==
    [kind |-> kind, call |-> call, owner |-> owner, role |-> role,
     hold |-> hold, incoming |-> incoming]

(* The requests as the radio sees them.  The request to answer does not name
   a call: the one kept in the job is the one meant. *)
radio_dial(owner) == Job("dial", None, owner, "whole", None, None)
radio_answer(call, owner, role) == Job("answer", call, owner, role, None, None)
radio_resume(call, owner, role) == Job("resume", call, owner, role, None, None)
radio_hangup(call, owner, role, hold, incoming) ==
    Job("hangup", call, owner, role, hold, incoming)
radio_hold(call, owner, role, hold, incoming) ==
    Job("hold", call, owner, role, hold, incoming)

------------------------------------------------------------------------------

(* No operation has been asked for. *)
InitOperations ==
    /\ id_map = {}
    /\ refs = BaseRefs
    /\ Req!Init
    /\ remote = "alive"
    /\ job = [r \in Requests |-> NoJob]
    /\ activated = {}
    /\ failed_swaps = 0
    /\ control = "loop"
    /\ dispatching = None
    /\ hangups = {}
    /\ handover = "none"
    /\ started = {}
    /\ op_id = [o \in Ops |-> None]
    /\ op_completed = [o \in Ops |-> 0]
    /\ op_destroyed = [o \in Ops |-> 0]
    /\ op_result = [o \in Ops |-> "none"]
    /\ op_failed = {}
    /\ op_refused = {}
    /\ cancelled = {}

Init ==
    /\ calls = <<>>
    /\ seen = <<>>
    /\ cleared = FALSE
    /\ voice_enabled = FALSE
    /\ InitOperations

(* The object has not been finalized: what follows that is undefined. *)
Exists == refs > 0

(* ofono asks for an operation, from the main loop or from its callback. *)
ofono_asks == Exists /\ control \in {"loop", "ofono"} /\ next_op \in Ops

begin(j) ==
    /\ ofono_asks
    /\ Room(IF j.role = "step1" THEN 2 ELSE 1)
    /\ started' = started \cup {next_op}
    /\ submit(j)
    /\ op_id' = [op_id EXCEPT ![next_op] =
                    IF remote = "alive" THEN next_request ELSE None]
    /\ UNCHANGED <<list, remote, loop, op_completed, op_result, op_failed,
                   cancelled>>

dial == begin(radio_dial(next_op))

answer == begin(radio_answer(None, next_op, "whole"))

hangup(call) == begin(radio_hangup(call, next_op, "whole", None, None))

(* The call to be answered by a swap *)
call_incoming ==
    IF id_find_by_state("INCOMING") # None THEN id_find_by_state("INCOMING")
                                           ELSE id_find_by_state("WAITING")

(* The request that activates a call: an incoming call goes first. *)
activation(owner, role, hold, incoming) ==
    IF incoming # None THEN radio_answer(incoming, owner, role)
                       ELSE radio_resume(hold, owner, role)

(* With an active call: it is dealt with first; if another call waits for its
   turn, that is step 1 and what was found is kept for step 2. *)
swap_active(flag) ==
    LET active == id_find_by_state("ACTIVE")
        hold == id_find_by_state("HOLDING")
        full == hold # None \/ call_incoming # None
        role == IF full THEN "step1" ELSE "whole"
    IN /\ active # None
       /\ begin(IF flag = "HANGUP"
                  THEN radio_hangup(active, next_op, role, hold, call_incoming)
                  ELSE radio_hold(active, next_op, role, hold, call_incoming))

swap_inactive ==
    LET hold == id_find_by_state("HOLDING")
    IN /\ id_find_by_state("ACTIVE") = None
       /\ hold # None \/ call_incoming # None
       /\ begin(activation(next_op, "whole", hold, call_incoming))

(* Nothing to swap: 0 is returned, and no callback will ever run. *)
swap_nothing ==
    /\ ofono_asks
    /\ \A i \in DOMAIN calls : calls[i].state = "OTHER"
    /\ started' = started \cup {next_op}
    /\ UNCHANGED <<list, id_map, refs, contract, remote, job, activated,
                   failed_swaps, loop, op_id, op_completed, op_destroyed,
                   op_result, op_failed, op_refused, cancelled>>

proceeds_anyway(r, result) ==                 \* variant: the result is ignored
    job[r].role = "step1"

(* Does this response lead on to step 2? *)
proceeds(r, result) == job[r].role = "step1" /\ result = "SUCCESS"

reports_each_step(r, result) == job[r].owner # None  \* variant: step 1 as well

(* Does it end ofono's operation, whose complete callback is then run? *)
reports(r, result) == job[r].owner # None /\ ~ proceeds(r, result)

(* result_response, up to ofono's complete callback or to step 2 *)
response(r, result) ==
    /\ Exists
    /\ control = "loop"
    /\ Req!Complete(r)
    /\ dispatching' = r
    /\ op_failed' = op_failed \cup
          IF result = "SUCCESS" THEN {} ELSE {job[r].owner} \ {None}
    /\ activated' = IF proceeds(r, result) THEN activated \cup {r} ELSE activated
    /\ IF reports(r, result)
         THEN LET o == job[r].owner
              IN /\ op_completed' = [op_completed EXCEPT ![o] = @ + 1]
                 /\ op_result' = [op_result EXCEPT ![o] =
                                    IF result = "SUCCESS" THEN "OK" ELSE "ERROR"]
         ELSE UNCHANGED <<op_completed, op_result>>
    /\ control' = IF proceeds(r, result) THEN "activate"
                  ELSE IF reports(r, result) THEN "ofono" ELSE "return"
    /\ UNCHANGED <<list, id_map, refs, remote, job, failed_swaps, hangups,
                   handover, started, op_id, op_destroyed, op_refused, cancelled>>

(* swap_step_activate after step 1 *)
swap_step_activate ==
    LET j == job[dispatching]
    IN /\ Exists
       /\ control = "activate"
       /\ submit(activation(j.owner, "step2", j.hold, j.incoming))
       /\ control' = "return"
       /\ UNCHANGED <<list, remote, dispatching, hangups, handover, started,
                      op_id, op_completed, op_result, op_failed, cancelled>>

(* The callbacks have returned: the layer below releases the request, unless
   ofono cancelled it meanwhile. *)
response_return ==
    /\ Exists
    /\ control \in {"ofono", "return"}
    /\ IF dispatching \in outstanding
         THEN release(dispatching)
         ELSE UNCHANGED <<contract, job, op_destroyed, refs, activated,
                          failed_swaps>>
    /\ control' = "loop"
    /\ dispatching' = None
    /\ UNCHANGED <<list, id_map, remote, hangups, handover, started, op_id,
                   op_completed, op_result, op_failed, op_refused, cancelled>>

cancel_keeps_request(o) ==                      \* variant: request not removed
    /\ op_id[o] \in outstanding
    /\ cancelled' = cancelled \cup {o}
    /\ UNCHANGED <<contract, job, op_destroyed, refs, activated, failed_swaps>>

(* The id ofono has is the id of the request that began the operation. *)
cancel_request(o) ==
    /\ op_id[o] \in outstanding
    /\ cancelled' = cancelled \cup {o}
    /\ release(op_id[o])

(* qti_ims_call_cancel: nothing happens if that request has ended, though
   step 2 of a swap may be pending. *)
cancel(o) ==
    /\ Exists
    /\ control \in {"loop", "ofono"}
    /\ op_id[o] # None
    /\ \/ cancel_request(o)
       \/ /\ op_id[o] \notin outstanding
          /\ UNCHANGED <<contract, job, op_destroyed, refs, activated,
                         failed_swaps, cancelled>>
    /\ UNCHANGED <<list, id_map, remote, loop, started, op_id, op_completed,
                   op_result, op_failed, op_refused>>

------------------------------------------------------------------------------
(* Indications *)

Infos == [id : CallIds, state : States \cup {END}]

silent_at_end(update) ==         \* variant: the end of a call has its own signal
    IF \E i \in DOMAIN update : update[i].state = END
      THEN UNCHANGED <<seen, cleared>>
      ELSE seen' = calls' /\ cleared' = FALSE

(* SIGNAL_CALL_STATE_CHANGED is emitted, on which ofono reads the list. *)
signal_state_changed(update) == seen' = calls' /\ cleared' = FALSE

(* The list after the entries of the update, taken in order *)
calls_after(update) ==
    LET after[n \in 0..Len(update)] ==
            IF n = 0 THEN calls ELSE update_call(after[n - 1], update[n])
    IN after[Len(update)]

handle_call_info(update) ==
    /\ calls' = calls_after(update)
    /\ signal_state_changed(update)

(* An indication one of whose entries cannot be read is dropped as a whole,
   also what it says of calls that ended. *)
call_state_indication(update) ==
    /\ Exists
    /\ control = "loop"
    /\ handle_call_info(update) \/ UNCHANGED <<calls, seen, cleared>>
    /\ UNCHANGED <<voice_enabled, id_map, refs, contract, remote, job,
                   activated, failed_swaps, loop, ops>>

voice_lost_first(enabled) == voice_enabled /\ ~ enabled[1]  \* variant: one report

voice_lost_net(enabled) == voice_enabled /\ ~ Last(enabled)  \* variant: in sum

(* Does voice go from enabled to not enabled within these reports? *)
voice_lost(enabled) ==
    \E i \in DOMAIN enabled :
        /\ IF i = 1 THEN voice_enabled ELSE enabled[i - 1]
        /\ ~ enabled[i]

(* The reports of the state of the voice service in one indication, in order:
   each change from enabled to not enabled clears the list of calls, and does
   not tell ofono. *)
handle_service_status(enabled) ==
    /\ Exists
    /\ control = "loop"
    /\ voice_enabled' = Last(enabled)
    /\ calls' = IF voice_lost(enabled) THEN <<>> ELSE calls
    /\ cleared' = (cleared \/ voice_lost(enabled))
    /\ UNCHANGED <<seen, id_map, refs, contract, remote, job, activated,
                   failed_swaps, loop, ops>>

HandoverTypes == {"COMPLETE_SUCCESS", "OTHER"}

every_call == DOMAIN calls               \* variant: the state is not looked at

(* Where in the list the calls on hold are *)
held_calls == {i \in DOMAIN calls : calls[i].state = "HOLDING"}

(* A completed handover hangs up every call on hold, one request each. *)
handle_handover(type) ==
    IF type = "COMPLETE_SUCCESS" /\ held_calls # {}
      THEN control' = "handover" /\ hangups' = held_calls
      ELSE UNCHANGED <<control, hangups>>

(* When the type in the indication cannot be read, the variable handed on is
   uninitialized: it may hold any type. *)
handover_indication(sent) ==
    /\ Exists
    /\ control = "loop"
    /\ Room(Cardinality(held_calls))
    /\ \E type \in IF sent = "UNREADABLE" THEN HandoverTypes ELSE {sent} :
          handle_handover(type)
    /\ handover' = IF control' = "handover" THEN sent ELSE handover
    /\ UNCHANGED <<list, id_map, refs, contract, remote, job, activated,
                   failed_swaps, dispatching, ops>>

(* ... its loop, one call at a time *)
hangup_held ==
    /\ Exists
    /\ control = "handover"
    /\ submit(radio_hangup(calls[Min(hangups)].id, None, "handover", None, None))
    /\ hangups' = hangups \ {Min(hangups)}
    /\ IF hangups' = {}
         THEN control' = "loop" /\ handover' = "none"
         ELSE UNCHANGED <<control, handover>>
    /\ UNCHANGED <<list, remote, dispatching, started, op_id, op_completed,
                   op_result, op_failed, cancelled>>

service_dies ==
    /\ remote = "alive"
    /\ remote' = "dead"
    /\ control = "loop"
    /\ UNCHANGED <<list, id_map, refs, contract, job, activated, failed_swaps,
                   loop, ops>>

(* The indications with entries from S *)
Batch(S) == UNION {[1..n -> S] : n \in 1..MaxBatch}

Next ==
    \/ dial \/ answer \/ swap_inactive \/ swap_nothing
    \/ \E call \in CallIds : hangup(call)
    \/ \E flag \in {"NONE", "HANGUP"} : swap_active(flag)
    \/ \E o \in Ops : cancel(o)
    \/ \E r \in outstanding : \E result \in {"SUCCESS", "FAILURE"} :
          response(r, result)
    \/ swap_step_activate
    \/ response_return
    \/ \E update \in Batch(Infos) : call_state_indication(update)
    \/ \E enabled \in Batch(BOOLEAN) : handle_service_status(enabled)
    \/ \E sent \in HandoverTypes \cup {"UNREADABLE"} : handover_indication(sent)
    \/ hangup_held
    \/ service_dies

Spec == Init /\ [][Next]_vars

(* Code that has begun runs on; while it lives, the service answers every
   request. *)
Fairness ==
    /\ WF_vars(swap_step_activate)
    /\ WF_vars(response_return)
    /\ WF_vars(hangup_held)
    /\ \A r \in Requests :
          WF_vars(/\ remote = "alive"
                  /\ r \in outstanding
                  /\ \E result \in {"SUCCESS", "FAILURE"} : response(r, result))

FairSpec == Spec /\ Fairness

------------------------------------------------------------------------------
(* Properties *)

TypeOK ==
    /\ calls \in Seq([id : CallIds, state : States])
    /\ seen \in Seq([id : CallIds, state : States])
    /\ voice_enabled \in BOOLEAN /\ cleared \in BOOLEAN
    /\ id_map \subseteq known
    /\ refs \in Int
    /\ known \subseteq Requests /\ outstanding \subseteq known
    /\ completions \in [Requests -> Nat] /\ releases \in [Requests -> Nat]
    /\ remote \in {"alive", "dead"}
    /\ job \in [Requests -> Jobs \cup {NoJob}]
    /\ activated \subseteq outstanding /\ failed_swaps \in Nat
    /\ control \in {"loop", "ofono", "activate", "return", "handover"}
    /\ dispatching \in known \cup {None}
    /\ hangups \subseteq DOMAIN calls
    /\ handover \in HandoverTypes \cup {"UNREADABLE", "none"}
    /\ started \subseteq Ops /\ cancelled \subseteq started
    /\ op_failed \subseteq started /\ op_refused \subseteq started
    /\ op_id \in [Ops -> known \cup {None}]
    /\ op_completed \in [Ops -> Nat] /\ op_destroyed \in [Ops -> Nat]
    /\ op_result \in [Ops -> {"none", "OK", "ERROR"}]

(* A call is listed once, however indications repeat, end and renew it: what
   info_find and find_by_state return does not depend on stale entries. *)
CallsDistinct ==
    \A i, j \in DOMAIN calls : calls[i].id = calls[j].id => i = j

(* The binder has refused no request. *)
NoRefusal == known = id_map

(* ofono hears of the end of an operation at most once, although a swap is
   two requests, either of which may fail. *)
OpCompletedOnce == \A o \in Ops : op_completed[o] <= 1

(* The memory of an operation is not used after ofono has been told to free
   it: complete does not run after destroy, in particular not for step 2 of
   a swap whose step 1 has ended. *)
NotCompletedAfterDestroy ==
    [][\A o \in Ops : op_destroyed[o] > 0 => op_completed'[o] = op_completed[o]]_vars

(* An operation is destroyed exactly once, when the last of its requests has
   ended: not earlier, not twice and not never.  If a request of it is refused,
   of step 2 of a swap too, it is destroyed with the refusal, at most twice. *)
OpAccounted ==
    \A o \in Ops :
        IF o \in op_refused THEN op_destroyed[o] \in {1, 2}
        ELSE op_id[o] # None =>
               op_destroyed[o] =
                   IF \E r \in outstanding : job[r].owner = o THEN 0 ELSE 1

(* An operation cancelled while the request with its id is pending stays
   silent: a swap cancelled during step 1 does not go on to step 2. *)
CancelledOpSilent ==
    [][\A o \in cancelled : op_completed'[o] = op_completed[o]]_vars

(* A swap is reported as successful only if each of its requests was. *)
OkMeansEveryRequestSucceeded ==
    \A o \in Ops : op_result[o] = "OK" => o \notin op_failed

(* While no request is refused: each pending request holds one reference to
   the BinderExtCall, and each failed swap has dropped one it did not hold. *)
RefsExact ==
    NoRefusal => refs = BaseRefs + Cardinality(outstanding) - failed_swaps

(* When voice goes from enabled to disabled, the list of calls is empty
   afterwards, also if voice flickers within one indication. *)
VoiceLossClearsCalls ==
    [][voice_enabled /\ ~ voice_enabled' => calls' = <<>>]_vars

(* ofono's copy of the list is the list, after the last entry of each
   indication, its last call ending included -- except from a loss of voice,
   which ofono is not told of, to the next indication of calls: then the list
   is empty. *)
OfonoUpToDate == IF cleared THEN calls = <<>> ELSE seen = calls

(* Every operation with an id ends, a swap of two steps too, if the service
   answers and lives. *)
OpEnds ==
    \A o \in Ops :
        op_id[o] # None ~> (op_destroyed[o] > 0 \/ remote = "dead" \/ ~ Exists)

(* swap_step1_destroy is said to mimic qti_ims_call_result_request_free, which
   drops the reference its request took: the references of those outside and
   of the pending requests remain. *)
ReferencesKept == NoRefusal => refs >= BaseRefs + Cardinality(outstanding)

(* Calls on hold are hung up after a handover that the service reported as
   completed. *)
HangupOnlyAfterHandover ==
    control = "handover" => handover = "COMPLETE_SUCCESS"
==============================================================================
