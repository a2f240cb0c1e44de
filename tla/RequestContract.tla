--------------------------- MODULE RequestContract ---------------------------
(***************************************************************************)
(* What the request layer of qti_radio_ext.c promises to its callers       *)
(* (qti_ims.c, qti_ims_call.c and qti_ims_sms.c), without saying how: the  *)
(* completion callback of a request runs at most once and only while the   *)
(* request is outstanding; its destroy callback runs exactly once, when    *)
(* the request stops being outstanding, whether it was answered, cancelled *)
(* or refused by the transport.  A synchronous request is never            *)
(* outstanding, and its destroy callback never runs.                       *)
(***************************************************************************)
EXTENDS Naturals

CONSTANT Requests          \* the identities of requests

VARIABLES
    known,                 \* requests the layer was asked to carry
    outstanding,           \* the ones it holds, that cancel can still reach
    completions,           \* how often each completion callback ran
    releases               \* how often each destroy callback ran

vars == <<known, outstanding, completions, releases>>

Init ==
    /\ known = {}
    /\ outstanding = {}
    /\ completions = [r \in Requests |-> 0]
    /\ releases = [r \in Requests |-> 0]

(* The transport takes the request: it is outstanding from here on. *)
Accept(r) ==
    /\ r \notin known
    /\ known' = known \cup {r}
    /\ outstanding' = outstanding \cup {r}
    /\ UNCHANGED <<completions, releases>>

(* The transport refuses it: released at once, without a completion. *)
Refuse(r) ==
    /\ r \notin known
    /\ known' = known \cup {r}
    /\ releases' = [releases EXCEPT ![r] = @ + 1]
    /\ UNCHANGED <<outstanding, completions>>

(* A synchronous request is answered inside the call that makes it, or not
   at all. *)
CallSync(r) ==
    /\ r \notin known
    /\ known' = known \cup {r}
    /\ \/ completions' = [completions EXCEPT ![r] = @ + 1]
       \/ UNCHANGED completions
    /\ UNCHANGED <<outstanding, releases>>

(* The completion callback starts: once, and before the release. *)
Complete(r) ==
    /\ r \in outstanding
    /\ completions[r] = 0
    /\ completions' = [completions EXCEPT ![r] = @ + 1]
    /\ UNCHANGED <<known, outstanding, releases>>

(* The request ends, completed or cancelled, and its owner is told. *)
Release(r) ==
    /\ r \in outstanding
    /\ releases[r] = 0
    /\ outstanding' = outstanding \ {r}
    /\ releases' = [releases EXCEPT ![r] = @ + 1]
    /\ UNCHANGED <<known, completions>>

Next ==
    \E r \in Requests :
        Accept(r) \/ Refuse(r) \/ CallSync(r) \/ Complete(r) \/ Release(r)

Spec == Init /\ [][Next]_vars
==============================================================================
