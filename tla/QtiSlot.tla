-------------------------------- MODULE QtiSlot --------------------------------
(***************************************************************************)
(* The life of the objects: qti_plugin.c, qti_ext.c, qti_slot.c and the    *)
(* creation and finalization of the radio and of the three interfaces.     *)
(* Who holds a reference to what, and which object is freed when, while    *)
(* ofono takes and drops interfaces, requests are pending and the slot is  *)
(* shut down, also from within a completion callback.                      *)
(*                                                                         *)
(* An interface holds the radio; the slot holds all four, but gives back   *)
(* only its reference to the IMS interface.  What an interface does with   *)
(* its requests is in its own module; here a request holds the interface   *)
(* that made it, as RequestContract says, until it is released.            *)
(***************************************************************************)
EXTENDS Integers, FiniteSets

CONSTANTS
    MaxRequests            \* bound: requests made in a behaviour

ASSUME MaxRequestsAssumption == MaxRequests \in Nat

Requests == 1..MaxRequests
None == 0

Interfaces == {"ims", "call", "sms"}
Objects == Interfaces \cup {"plugin", "slot", "radio"}

VARIABLES
    refs,                  \* reference counts; an object with none is freed
    registered,            \* is the plugin registered with the library?
    slot,                  \* "none" yet, "connected", or "failed" to connect
    fields,                \* fields of the slot that are not NULL
    connected,             \* interfaces with handlers connected to the radio
    held,                  \* interfaces ofono has taken a reference to
    known, outstanding, completions, releases,  \* the request contract
    owner,                 \* the interface that made a request
    dispatching,           \* the request whose response is being handled
    lost,                  \* references dropped that nobody held, by interface
    remote                 \* is the service alive?

contract == <<known, outstanding, completions, releases>>
objects == <<refs, registered, slot, fields, connected, held, lost>>
vars == <<objects, contract, owner, dispatching, remote>>

Req == INSTANCE RequestContract

Live(o) == refs[o] > 0

next_request == Cardinality(known) + 1

Init ==
    /\ refs = [o \in Objects |-> 0]
    /\ registered = FALSE
    /\ slot = "none"
    /\ fields = {}
    /\ connected = {}
    /\ held = {}
    /\ Req!Init
    /\ owner = [r \in Requests |-> "none"]
    /\ dispatching = None
    /\ lost = [i \in Interfaces |-> 0]
    /\ remote = "alive"

------------------------------------------------------------------------------
(* References *)

radio_kept(counts, i, n) == [counts EXCEPT ![i] = @ - n]  \* variant: radio kept

(* The counts after n references to interface i are dropped; the last one
   finalizes it, and qti_ims_finalize and its like drop the radio. *)
unref(counts, i, n) ==
    LET dropped == [counts EXCEPT ![i] = @ - n]
    IN IF counts[i] > 0 /\ dropped[i] <= 0
         THEN [dropped EXCEPT !["radio"] = @ - 1]
         ELSE dropped

------------------------------------------------------------------------------
(* The plugin and the slot *)

(* qti_plugin_init: the library keeps the only reference. *)
plugin_init ==
    /\ ~ registered /\ slot = "none"
    /\ registered' = TRUE
    /\ refs' = [refs EXCEPT !["plugin"] = 1]
    /\ UNCHANGED <<slot, fields, connected, held, lost, contract, owner,
                   dispatching, remote>>

plugin_exit ==
    /\ registered
    /\ registered' = FALSE
    /\ refs' = [refs EXCEPT !["plugin"] = @ - 1]
    /\ UNCHANGED <<slot, fields, connected, held, lost, contract, owner,
                   dispatching, remote>>

(* qti_radio_ext_create: one reference, which the slot keeps *)
radio_create(counts) == [counts EXCEPT !["radio"] = 1]

(* qti_ims_new and its like: interface i, which the slot keeps, with a
   reference to the radio *)
interface_new(counts, i) == [counts EXCEPT ![i] = 1, !["radio"] = @ + 1]

(* qti_slot_new: the radio is created and then each interface, which connects
   its handlers to the radio.  If no service is found in five attempts, there
   is neither. *)
slot_new ==
    /\ registered /\ slot = "none"
    /\ LET counts == [refs EXCEPT !["slot"] = 1]
           radio == radio_create(counts)
       IN \/ /\ remote = "alive"
             /\ slot' = "connected"
             /\ fields' = Interfaces \cup {"radio"}
             /\ connected' = Interfaces
             /\ refs' = interface_new(interface_new(interface_new(radio,
                                          "ims"), "call"), "sms")
          \/ /\ slot' = "failed"
             /\ refs' = counts
             /\ UNCHANGED <<fields, connected>>
    /\ UNCHANGED <<registered, held, lost, contract, owner, dispatching, remote>>

terminate_all(counts) ==      \* variant: the radio and the interfaces as well
    /\ refs' = IF fields = {} THEN counts
                 ELSE LET released == unref(unref(unref(counts, "ims", 1),
                                                  "call", 1), "sms", 1)
                      IN [released EXCEPT !["radio"] = @ - 1]
    /\ fields' = {}

(* qti_slot_terminate, the counts before it being "counts": only the IMS
   interface is given back. *)
terminate(counts) ==
    /\ refs' = IF "ims" \in fields THEN unref(counts, "ims", 1) ELSE counts
    /\ fields' = fields \ {"ims"}

(* qti_slot_shutdown; nothing says it is called once. *)
shutdown ==
    /\ Live("slot")
    /\ terminate(refs)
    /\ UNCHANGED <<registered, slot, connected, held, lost, contract, owner,
                   dispatching, remote>>

(* ofono drops the slot: qti_slot_finalize. *)
slot_unref ==
    /\ Live("slot")
    /\ terminate([refs EXCEPT !["slot"] = @ - 1])
    /\ UNCHANGED <<registered, slot, connected, held, lost, contract, owner,
                   dispatching, remote>>

------------------------------------------------------------------------------
(* ofono and the interfaces; also from within a completion callback *)

(* qti_slot_get_interface, and the reference ofono takes *)
get_interface(i) ==
    /\ Live("slot")
    /\ i \in fields \ held
    /\ Live(i)
    /\ held' = held \cup {i}
    /\ refs' = [refs EXCEPT ![i] = @ + 1]
    /\ UNCHANGED <<registered, slot, fields, connected, lost, contract, owner,
                   dispatching, remote>>

(* The interface object has been freed though ofono holds it: what ofono does
   with it then is undefined and not modelled. *)
release_interface(i) ==
    /\ i \in held
    /\ Live(i)
    /\ held' = held \ {i}
    /\ refs' = unref(refs, i, 1)
    /\ UNCHANGED <<registered, slot, fields, connected, lost, contract, owner,
                   dispatching, remote>>

without_ext(r, i) == UNCHANGED owner     \* variant: the interface is not kept

(* The new request keeps the interface it is for. *)
request_new(r, i) == owner' = [owner EXCEPT ![r] = i]

no_ref(i) == refs                        \* variant: the request takes none

(* The counts with the reference a request takes *)
request_ref(i) == [refs EXCEPT ![i] = @ + 1]

(* ofono asks interface i for something.  A refused request is freed twice:
   the second time may drop a reference that is not its own. *)
request(i) ==
    /\ i \in held
    /\ Live(i)
    /\ next_request \in Requests
    /\ \/ /\ remote = "alive"
          /\ Req!Accept(next_request)
          /\ request_new(next_request, i)
          /\ refs' = request_ref(i)
          /\ UNCHANGED lost
       \/ /\ remote = "dead"
          /\ Req!Refuse(next_request)
          /\ \E again \in {0, 1} :
                /\ refs' = unref(refs, i, again)
                /\ lost' = [lost EXCEPT ![i] = @ + again]
          /\ UNCHANGED owner
    /\ UNCHANGED <<registered, slot, fields, connected, held, dispatching,
                   remote>>

(* Request r is released, the counts before being "counts".  The first step of
   a swap of calls that leads to no second drops a reference too many. *)
release(r, counts) ==
    /\ Req!Release(r)
    /\ \E again \in IF owner[r] = "call" THEN {0, 1} ELSE {0} :
          /\ refs' = unref(counts, owner[r], 1 + again)
          /\ lost' = [lost EXCEPT ![owner[r]] = @ + again]

(* A response: the radio is held while it is handled. *)
response(r) ==
    /\ dispatching = None
    /\ Live("radio")
    /\ Req!Complete(r)
    /\ dispatching' = r
    /\ refs' = [refs EXCEPT !["radio"] = @ + 1]
    /\ UNCHANGED <<registered, slot, fields, connected, held, lost, owner, remote>>

response_return ==
    /\ dispatching # None
    /\ LET counts == [refs EXCEPT !["radio"] = @ - 1]
       IN IF dispatching \in outstanding
            THEN release(dispatching, counts)
            ELSE refs' = counts /\ UNCHANGED <<contract, lost>>
    /\ dispatching' = None
    /\ UNCHANGED <<registered, slot, fields, connected, held, owner, remote>>

(* Of the interfaces, IMS does not implement cancel. *)
cancel(r) ==
    /\ r \in outstanding
    /\ owner[r] \in held \ {"ims"}
    /\ Live(owner[r])
    /\ release(r, refs)
    /\ UNCHANGED <<registered, slot, fields, connected, held, owner, dispatching,
                   remote>>

service_dies ==
    /\ remote = "alive"
    /\ remote' = "dead"
    /\ UNCHANGED <<objects, contract, owner, dispatching>>

Next ==
    \/ plugin_init \/ plugin_exit
    \/ slot_new \/ shutdown \/ slot_unref
    \/ \E i \in Interfaces :
          get_interface(i) \/ release_interface(i) \/ request(i)
    \/ \E r \in outstanding : response(r) \/ cancel(r)
    \/ response_return
    \/ service_dies

Spec == Init /\ [][Next]_vars

------------------------------------------------------------------------------
(* Properties *)

TypeOK ==
    /\ refs \in [Objects -> Int]
    /\ registered \in BOOLEAN
    /\ slot \in {"none", "connected", "failed"}
    /\ fields \subseteq Interfaces \cup {"radio"}
    /\ connected \subseteq Interfaces
    /\ held \subseteq Interfaces
    /\ known \subseteq Requests /\ outstanding \subseteq known
    /\ completions \in [Requests -> Nat] /\ releases \in [Requests -> Nat]
    /\ owner \in [Requests -> Interfaces \cup {"none"}]
    /\ \A r \in outstanding : owner[r] \in Interfaces
    /\ dispatching \in known \cup {None}
    /\ lost \in [Interfaces -> Nat]
    /\ remote \in {"alive", "dead"}

One(b) == IF b THEN 1 ELSE 0

Pending(i) == {r \in outstanding : owner[r] = i}
Alive == {i \in Interfaces : Live(i)}

(* The references to an interface are the slot's, ofono's and those of its
   pending requests, less the ones lost; those to the radio are the slot's,
   one of each interface alive and one of the handler that runs -- through
   shutdown, finalization and callbacks that drop what they run on. *)
RefsExact ==
    /\ \A i \in Interfaces :
          refs[i] = One(i \in fields) + One(i \in held) - lost[i]
                    + Cardinality(Pending(i))
    /\ refs["radio"] = One("radio" \in fields) + One(dispatching # None)
                       + Cardinality(Alive)

(* The binder objects for responses and indications refer to the radio for
   ever and are never taken back: the radio is alive whenever one of them may
   be called.  (It is, because the slot never gives its reference back.) *)
RadioOutlivesCallbacks == slot = "connected" => Live("radio")

(* The handlers of an interface stay connected to the radio when it is freed.
   As long as no reference was lost, the only interface an indication may find
   freed is IMS, and only after the slot has given it back. *)
OnlyImsDangles ==
    \A i \in connected :
        lost[i] = 0 => Live(i) \/ (i = "ims" /\ "ims" \notin fields)
==============================================================================
