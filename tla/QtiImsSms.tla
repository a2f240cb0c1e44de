------------------------------ MODULE QtiImsSms ------------------------------
(***************************************************************************)
(* The SMS interface, qti_ims_sms.c, on top of the request layer itself:   *)
(* a message is sent with an asynchronous request, whose id ofono may      *)
(* cancel; what has come in is acknowledged with synchronous requests.     *)
(*                                                                         *)
(* The layer below is QtiRadioExt and not its contract, because the        *)
(* interface depends on what the contract hides: it takes the id 0 for a   *)
(* refusal, although after 2^32 requests it is also the serial of a        *)
(* request that was accepted, and a new serial may be the one of a message *)
(* still pending.  A message is named by the request that carries it.      *)
(*                                                                         *)
(* Incoming messages and reports are passed to ofono without a change of   *)
(* state.  The result ofono is given depends on the response alone; it is  *)
(* left out.                                                               *)
(***************************************************************************)
EXTENDS Integers, FiniteSets

CONSTANTS
    MaxRequests,           \* bound: requests made in a behaviour
    IdMod,                 \* number of values of the serial, 2^32 in C
    BaseRefs               \* references to the BinderExtSms from outside

ASSUME BoundsAssumption == MaxRequests \in Nat /\ IdMod \in Nat \ {0}
ASSUME BaseRefsAssumption == BaseRefs \in Nat \ {0}

(* The code of the response to a message, the only asynchronous request *)
SEND_IMS_SMS == 1

None == 0

VARIABLES
    last_id, requests, response_code, tx, transactions, completed, destroyed,
    accepted, cancelled, dispatching, answers, remote,      \* the request layer
    refs,                  \* reference count of the BinderExtSms
    id_map,                \* keys of self->id_map (each mapped to itself)
    op_destroyed,          \* runs of ofono's destroy callback, by message
    given_up               \* messages ofono cancelled while they were pending

radio == <<last_id, requests, response_code, tx, transactions, completed,
           destroyed, accepted, cancelled, dispatching, answers, remote>>
vars == <<radio, refs, id_map, op_destroyed, given_up>>

Radio == INSTANCE QtiRadioExt WITH Codes <- {SEND_IMS_SMS}

Requests == 1..MaxRequests

Messages == {r \in 1..(last_id - 1) : response_code[r] = SEND_IMS_SMS}

(* The id that sending the message returned: None if it was refused. *)
id(r) == IF r \in accepted THEN Radio!Serial(r) ELSE None

(* The object has not been finalized: what follows that is undefined. *)
Exists == refs > 0

Init ==
    /\ Radio!Init
    /\ refs = BaseRefs
    /\ id_map = {}
    /\ op_destroyed = [r \in Requests |-> 0]
    /\ given_up = {}

------------------------------------------------------------------------------

(* Messages whose request the interface has freed though it is pending *)
freed_early == {r \in requests : id(r) = None}

dropped == {r \in Requests : destroyed'[r] # destroyed[r]}

request_free_own(own, taken) ==       \* variant: not for what the layer drops
    /\ op_destroyed' = [r \in Requests |->
          op_destroyed[r] + Cardinality({r} \cap own)]
    /\ refs' = refs + taken - Cardinality(own)

request_free_dropped(own, taken) ==   \* variant: send leaves it to the layer
    /\ op_destroyed' = [r \in Requests |->
          op_destroyed[r] + Cardinality({r} \cap dropped)]
    /\ refs' = refs + taken - Cardinality(dropped)

(* qti_ims_sms_result_request_free, run by the request layer for the requests
   it has dropped in this step and by the interface for those in "own", while
   "taken" requests take a reference.  For a request freed before, what the
   second run finds in the freed memory is often, not always, the request. *)
request_free(own, taken) ==
    LET freed == (dropped \ freed_early) \cup own
        stale == dropped \cap (freed_early \cup own)
    IN \E again \in SUBSET stale :
          /\ op_destroyed' = [r \in Requests |->
                op_destroyed[r] + Cardinality({r} \cap freed)
                                + Cardinality({r} \cap again)]
          /\ refs' = refs + taken - Cardinality(freed) - Cardinality(again)

inserts_zero(new_id) == id_map' = id_map \cup {new_id}  \* variant: always

id_map_insert(new_id) == id_map' = id_map \cup ({new_id} \ {None})

sent_or_not(r, new_id) == {r}                  \* variant: a sent one is freed too

(* The request is freed when the id is 0, because it was refused (then the
   request layer has freed it already) or because that is its serial (then it
   is pending). *)
unsent(r, new_id) == IF new_id = None THEN {r} ELSE {}

(* qti_ims_sms_send *)
send ==
    LET r == last_id
    IN /\ Exists
       /\ \/ Radio!SubmitAccepted(SEND_IMS_SMS)
          \/ Radio!SubmitRefused(SEND_IMS_SMS)
       /\ LET new_id == IF r \in accepted' THEN Radio!Serial(r) ELSE None
          IN /\ id_map_insert(new_id)
             /\ request_free(unsent(r, new_id), 1)
       /\ UNCHANGED given_up

keeps_reference == UNCHANGED op_destroyed /\ refs' = refs + 1  \* variant: no free

(* The request of an acknowledgement takes a reference and drops it again, the
   request layer having returned 0.  It has no callbacks: nothing of ofono's
   runs, whether the service has answered or not. *)
acknowledged == UNCHANGED <<refs, op_destroyed>>

(* qti_ims_sms_ack_report and qti_ims_sms_ack_incoming, also from a callback *)
ack ==
    /\ Exists
    /\ Radio!SubmitSync
    /\ acknowledged
    /\ UNCHANGED <<id_map, given_up>>

cancel_forgets(r) ==             \* variant: the id is dropped, not the request
    /\ r \in accepted
    /\ UNCHANGED radio

(* What the id maps to is cancelled, or the id itself. *)
cancel_id(r) == Radio!cancel(r)

(* qti_ims_sms_cancel, with the id of a message *)
cancel(r) ==
    /\ Exists
    /\ r \in Messages
    /\ cancel_id(r)
    /\ given_up' = given_up \cup ({r} \cap requests)
    /\ request_free({}, 0)
    /\ UNCHANGED id_map

(* qti_ims_sms_result_request_response: ofono's callback runs, and may send,
   acknowledge and cancel. *)
response(m, r) ==
    /\ Exists
    /\ Radio!response(m, r)
    /\ UNCHANGED <<refs, id_map, op_destroyed, given_up>>

response_return ==
    /\ Exists
    /\ Radio!response_return
    /\ request_free({}, 0)
    /\ UNCHANGED <<id_map, given_up>>

(* What does not reach the interface *)
below ==
    /\ \/ \E r \in Requests : Radio!request_sent(r) \/ Radio!ServiceAnswers(r)
       \/ \E m \in answers : Radio!response_unexpected(m)
       \/ Radio!ServiceDies
    /\ UNCHANGED <<refs, id_map, op_destroyed, given_up>>

Next ==
    \/ send
    \/ ack
    \/ \E r \in Requests : cancel(r)
    \/ \E m \in answers : \E r \in requests : response(m, r)
    \/ response_return
    \/ below

Spec == Init /\ [][Next]_vars

(* The main loop runs what is due; the service answers what it was sent. *)
Fairness ==
    /\ WF_vars(response_return)
    /\ \A r \in Requests :
        /\ WF_vars(\E m \in answers : response(m, r))
        /\ WF_vars(/\ Radio!ServiceAnswers(r)
                   /\ UNCHANGED <<refs, id_map, op_destroyed, given_up>>)

FairSpec == Spec /\ Fairness

------------------------------------------------------------------------------
(* Properties *)

TypeOK ==
    /\ Radio!TypeOK
    /\ refs \in Int
    /\ id_map \subseteq 1..(IdMod - 1)
    /\ op_destroyed \in [Requests -> Nat]
    /\ given_up \subseteq Messages

(* A message that got an id is destroyed exactly once, when its request leaves
   the table, also when the request of a newer message replaces it; one that
   got none, refused or not, has been destroyed before send returned. *)
MessageAccounted ==
    \A r \in Messages :
        IF id(r) # None THEN op_destroyed[r] = IF r \in requests THEN 0 ELSE 1
                        ELSE op_destroyed[r] >= 1

(* If every message got an id, the references are those from outside and one
   for each pending message: acknowledgements, made at any time and also of
   messages handled meanwhile, leave none and drop none. *)
RefsExact ==
    (\A r \in Messages : id(r) # None) =>
        refs = BaseRefs + Cardinality(requests)

(* complete does not run after destroy: not for a message destroyed while its
   request was still pending because its serial was 0, and not for one whose
   serial a newer message has taken over. *)
NotCompletedAfterDestroy ==
    [][\A r \in Requests :
         op_destroyed[r] > 0 => completed'[r] = completed[r]]_vars

(* A message cancelled while it is pending is silent from then on, although
   its answer may be on its way and its id may be used again. *)
CancelledMessageSilent ==
    [][\A r \in given_up : completed'[r] = completed[r]]_vars

(* Every message that got an id is destroyed at last, if the service lives. *)
MessageEnds ==
    \A r \in Requests :
        r \in Messages /\ id(r) # None ~>
            op_destroyed[r] > 0 \/ remote = "dead" \/ ~ Exists
==============================================================================
