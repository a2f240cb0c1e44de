----------------------------- MODULE QtiRadioExt -----------------------------
(***************************************************************************)
(* The request layer of qti_radio_ext.c: a request is allocated under a    *)
(* fresh serial, put in the table of pending requests, handed to the       *)
(* binder as a one-way transaction, and ended by a response of the radio   *)
(* service, by qti_radio_ext_cancel, or by the refusal of the transaction. *)
(*                                                                         *)
(* Everything runs in the main loop, so a step is one callback run to      *)
(* completion -- except that a completion callback belongs to the caller   *)
(* (ofono), which may call back into this layer.  The response handler is  *)
(* therefore two steps, before and after that callback, and Submit and     *)
(* Cancel may come in between.                                             *)
(*                                                                         *)
(* A request object is named by its position in the order of allocation.   *)
(***************************************************************************)
EXTENDS Naturals, FiniteSets

CONSTANTS
    MaxRequests,           \* bound: requests allocated in a behaviour
    IdMod,                 \* number of values of the serial, 2^32 in C
    Codes                  \* the response codes of asynchronous requests

ASSUME MaxRequestsAssumption == MaxRequests \in Nat
ASSUME IdModAssumption == IdMod \in Nat \ {0}
ASSUME CodesAssumption == Codes \subseteq Nat \ {0}

Requests == 1..MaxRequests

(* The resp_code of a synchronous request, and the value of "dispatching"
   when no completion callback is running. *)
SyncCode == 0
Nobody == 0

VARIABLES
    last_id,               \* the position of the next request object
    requests,              \* the objects in the hash table
    response_code,         \* req->response_code, by object
    tx,                    \* objects whose req->tx is not 0
    transactions,          \* transactions whose reply callback is registered
    completed,             \* runs of the complete callback, by object
    destroyed,             \* runs of request_destroy, by object
    accepted,              \* objects whose transaction the binder took
    cancelled,             \* objects removed by qti_radio_ext_cancel
    dispatching,           \* the object whose complete callback is running
    answers,               \* responses of the service on their way
    remote                 \* is the service alive?

vars == <<last_id, requests, response_code, tx, transactions, completed,
          destroyed, accepted, cancelled, dispatching, answers, remote>>

Allocated == 1..(last_id - 1)

(* The serial is the guint counter that wraps; an object's position never
   does.  The counter starts from 1. *)
Serial(r) == r % IdMod

(* The table has one entry per serial: what a lookup of it finds. *)
Lookup(serial) == {r \in requests : Serial(r) = serial}

(* An object's memory is valid from its allocation to request_destroy. *)
Live(r) == r \in Allocated /\ destroyed[r] = 0

(* A response: the request it is about, of which only the serial is on the
   wire, and the code of the response method. *)
Answers == [about : Requests, code : Codes]

------------------------------------------------------------------------------

Init ==
    /\ last_id = 1
    /\ requests = {}
    /\ response_code = [r \in Requests |-> SyncCode]
    /\ tx = {}
    /\ transactions = {}
    /\ completed = [r \in Requests |-> 0]
    /\ destroyed = [r \in Requests |-> 0]
    /\ accepted = {}
    /\ cancelled = {}
    /\ dispatching = Nobody
    /\ answers = {}
    /\ remote = "alive"

request_destroy_no_cancel(S, started) ==          \* variant: tx not cancelled
    /\ tx' = (tx \ S) \cup started
    /\ transactions' = transactions \cup started
    /\ destroyed' = [r \in Requests |->
                        IF r \in S THEN destroyed[r] + 1 ELSE destroyed[r]]

(* request_destroy on the objects S, which leave the table: each cancels the
   transaction its tx field still names, so that request_sent will not be
   called on freed memory, and runs the owner's destroy callback.  The
   objects in "started" have just begun a transaction. *)
request_destroy(S, started) ==
    /\ tx' = (tx \ S) \cup started
    /\ transactions' = (transactions \ (S \cap tx)) \cup started
    /\ destroyed' = [r \in Requests |->
                        IF r \in S THEN destroyed[r] + 1 ELSE destroyed[r]]

table_steal(serial) ==                            \* variant: entry not destroyed
    /\ requests' = requests \ Lookup(serial)
    /\ UNCHANGED <<tx, transactions, destroyed>>

(* g_hash_table_remove: the entry of the serial, if there is one, is taken
   out of the table and destroyed. *)
table_remove(serial) ==
    /\ requests' = requests \ Lookup(serial)
    /\ request_destroy(Lookup(serial), {})

request_alloc_same_id(r, code) ==                 \* variant: last_id not advanced
    /\ r \in Requests
    /\ last_id' = last_id
    /\ response_code' = [response_code EXCEPT ![r] = code]

(* Allocation of the next object; inserting it in the table replaces, and
   destroys, an entry with the same serial. *)
request_alloc(r, code) ==
    /\ r \in Requests
    /\ last_id' = last_id + 1
    /\ response_code' = [response_code EXCEPT ![r] = code]

(* result_request_submit of an asynchronous request, the transaction taken *)
SubmitAccepted(code) ==
    LET r == last_id
        replaced == Lookup(Serial(r))
    IN /\ remote = "alive"
       /\ request_alloc(r, code)
       /\ requests' = (requests \ replaced) \cup {r}
       /\ request_destroy(replaced, {r})
       /\ accepted' = accepted \cup {r}
       /\ UNCHANGED <<completed, cancelled, dispatching, answers, remote>>

(* ... and refused (tx is 0): the entry just inserted is removed again. *)
SubmitRefused(code) ==
    LET r == last_id
        replaced == Lookup(Serial(r))
    IN /\ remote = "dead"
       /\ request_alloc(r, code)
       /\ requests' = requests \ replaced
       /\ request_destroy(replaced \cup {r}, {})
       /\ UNCHANGED <<completed, accepted, cancelled, dispatching, answers,
                      remote>>

(* result_request_submit of a synchronous request: answered or failed before
   it returns.  The object is in no table and is never freed. *)
SubmitSync ==
    LET r == last_id
    IN /\ request_alloc(r, SyncCode)
       /\ \/ /\ remote = "alive"
             /\ completed' = [completed EXCEPT ![r] = @ + 1]
          \/ UNCHANGED completed
       /\ UNCHANGED <<requests, tx, transactions, destroyed, accepted,
                      cancelled, dispatching, answers, remote>>

(* The binder reports the one-way transaction as done.  Its status is
   ignored: a failed transaction leaves the request pending. *)
request_sent(r) ==
    /\ dispatching = Nobody
    /\ r \in transactions
    /\ transactions' = transactions \ {r}
    /\ tx' = tx \ {r}
    /\ UNCHANGED <<last_id, requests, response_code, completed, destroyed,
                   accepted, cancelled, dispatching, answers, remote>>

(* A response arrives.  The service may repeat it: it stays or is used up. *)
consume(m) ==
    /\ m \in answers
    /\ dispatching = Nobody
    /\ answers' \in {answers, answers \ {m}}

Matches_any_code(m, r) ==                         \* variant: code not compared
    /\ Serial(m.about) # 0
    /\ r \in Lookup(Serial(m.about))

Matches_above_one(m, r) ==                  \* variant: serial 1 taken for none
    /\ Serial(m.about) > 1
    /\ r \in Lookup(Serial(m.about))
    /\ response_code[r] = m.code

(* Does this response end this request? *)
Matches(m, r) ==
    /\ Serial(m.about) # 0
    /\ r \in Lookup(Serial(m.about))
    /\ response_code[r] = m.code

(* qti_radio_ext_response up to the call of the completion callback *)
response(m, r) ==
    /\ consume(m)
    /\ Matches(m, r)
    /\ completed' = [completed EXCEPT ![r] = @ + 1]
    /\ dispatching' = r
    /\ UNCHANGED <<last_id, requests, response_code, tx, transactions,
                   destroyed, accepted, cancelled, remote>>

response_return_keeps ==                         \* variant: entry not removed
    /\ dispatching # Nobody
    /\ dispatching' = Nobody
    /\ UNCHANGED <<last_id, requests, response_code, tx, transactions,
                   completed, destroyed, accepted, cancelled, answers, remote>>

(* ... and after its return: the entry of the serial leaves the table. *)
response_return ==
    /\ dispatching # Nobody
    /\ table_remove(Serial(dispatching))
    /\ dispatching' = Nobody
    /\ UNCHANGED <<last_id, response_code, completed, accepted, cancelled,
                   answers, remote>>

response_unexpected_removes(m) ==         \* variant: entry removed all the same
    /\ consume(m)
    /\ \A r \in requests : ~ Matches(m, r)
    /\ table_remove(Serial(m.about))
    /\ UNCHANGED <<last_id, response_code, completed, accepted, cancelled,
                   dispatching, remote>>

(* A response with serial 0, or that no pending request waits for. *)
response_unexpected(m) ==
    /\ consume(m)
    /\ \A r \in requests : ~ Matches(m, r)
    /\ UNCHANGED <<last_id, requests, response_code, tx, transactions,
                   completed, destroyed, accepted, cancelled, dispatching,
                   remote>>

cancel_transaction(r) ==                  \* variant: only the transaction stops
    /\ r \in accepted
    /\ Serial(r) # 0
    /\ tx' = tx \ {r}
    /\ transactions' = transactions \ {r}
    /\ cancelled' = cancelled \cup Lookup(Serial(r))
    /\ UNCHANGED <<last_id, requests, response_code, completed, destroyed,
                   accepted, dispatching, answers, remote>>

(* qti_radio_ext_cancel with the id that submitting r returned, at any later
   time, also from within a completion callback. *)
cancel(r) ==
    /\ r \in accepted
    /\ Serial(r) # 0
    /\ table_remove(Serial(r))
    /\ cancelled' = cancelled \cup Lookup(Serial(r))
    /\ UNCHANGED <<last_id, response_code, completed, accepted, dispatching,
                   answers, remote>>

------------------------------------------------------------------------------
(* The radio service, a process of its own. *)

SendAnswer(r, code) ==
    /\ remote = "alive"
    /\ r \in accepted
    /\ answers' = answers \cup {[about |-> r, code |-> code]}
    /\ UNCHANGED <<last_id, requests, response_code, tx, transactions,
                   completed, destroyed, accepted, cancelled, dispatching,
                   remote>>

(* It answers a request it was sent, even after the request was cancelled. *)
ServiceAnswers(r) == SendAnswer(r, response_code[r])

(* It reports something else under the serial of a request. *)
ServiceConfuses(r) ==
    \E code \in Codes \ {response_code[r]} : SendAnswer(r, code)

ServiceDies ==
    /\ remote = "alive"
    /\ remote' = "dead"
    /\ UNCHANGED <<last_id, requests, response_code, tx, transactions,
                   completed, destroyed, accepted, cancelled, dispatching,
                   answers>>

Next ==
    \/ \E code \in Codes : SubmitAccepted(code) \/ SubmitRefused(code)
    \/ SubmitSync
    \/ \E r \in Requests : request_sent(r) \/ cancel(r)
    \/ \E m \in answers : \E r \in requests : response(m, r)
    \/ \E m \in answers : response_unexpected(m)
    \/ response_return
    \/ \E r \in Requests : ServiceAnswers(r) \/ ServiceConfuses(r)
    \/ ServiceDies

Spec == Init /\ [][Next]_vars

(* The main loop runs every callback that is due, a completion callback
   returns. *)
LoopFairness ==
    /\ WF_vars(response_return)
    /\ \A r \in Requests :
        /\ WF_vars(request_sent(r))
        /\ WF_vars(\E m \in answers : response(m, r))

(* The service answers every request it was sent. *)
ServiceFairness == \A r \in Requests : WF_vars(ServiceAnswers(r))

FairSpec == Spec /\ LoopFairness /\ ServiceFairness

------------------------------------------------------------------------------
(* Properties *)

(* Every variable keeps its type; the objects in use are allocated ones. *)
TypeOK ==
    /\ last_id \in 1..(MaxRequests + 1)
    /\ requests \subseteq Allocated
    /\ response_code \in [Requests -> Codes \cup {SyncCode}]
    /\ tx \subseteq Allocated
    /\ transactions \subseteq Allocated
    /\ completed \in [Requests -> Nat]
    /\ destroyed \in [Requests -> Nat]
    /\ accepted \subseteq Allocated
    /\ cancelled \subseteq Allocated
    /\ dispatching \in Allocated \cup {Nobody}
    /\ answers \subseteq Answers
    /\ remote \in {"alive", "dead"}

(* The binder never holds a reply callback for a request object that has been
   freed: request_sent writes to live memory, however the end of the
   transaction, the response and the cancellation are ordered. *)
SentCallbackLive == \A r \in transactions : Live(r)

(* Every asynchronous request object is in the table and alive, or out of it
   and destroyed exactly once: no leak, no double free, no dangling entry,
   also when serials wrap and an entry is replaced.  A synchronous one is
   never destroyed: the object of such a request is leaked. *)
Accounted ==
    \A r \in Allocated :
        IF response_code[r] = SyncCode
          THEN r \notin requests /\ destroyed[r] = 0
          ELSE destroyed[r] = IF r \in requests THEN 0 ELSE 1

(* A request is completed at most once, whatever the service repeats and
   whatever the completion callback itself submits or cancels. *)
CompletedAtMostOnce == \A r \in Requests : completed[r] <= 1

(* Once cancelled, a request is silent: its completion callback, which may
   refer to memory its owner has freed since, does not start any more. *)
CancelledIsSilent ==
    [][\A r \in cancelled : completed'[r] = completed[r]]_vars

(* A request the binder took is not dropped behind its owner's back: it is
   destroyed only after it was completed or cancelled.  (While serials do
   not wrap: a new request replaces the entry that has its serial.) *)
NoSilentRelease ==
    \A r \in accepted :
        destroyed[r] = 0 \/ completed[r] = 1 \/ r \in cancelled

(* An asynchronous request is completed by a response of its own kind that
   the service sent about this very request, not by one meant for another.
   (While serials do not wrap.) *)
CompletedByOwnAnswer ==
    [][\A r \in accepted :
         completed'[r] # completed[r] =>
            [about |-> r, code |-> response_code[r]] \in answers]_vars

(* The layer keeps the contract its callers rely on. *)
Contract == INSTANCE RequestContract WITH
    known <- Allocated,
    outstanding <- requests,
    completions <- completed,
    releases <- destroyed

ContractSpec == Contract!Spec

(* If the service answers and lives, no request stays in the table, also when
   serials wrap -- except one whose serial is 0, which no response matches. *)
EveryRequestEnds ==
    \A r \in Requests :
        Serial(r) # 0 /\ r \in requests ~> r \notin requests \/ remote = "dead"

==============================================================================
