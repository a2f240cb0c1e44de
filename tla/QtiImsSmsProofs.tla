--------------------------- MODULE QtiImsSmsProofs ---------------------------
(***************************************************************************)
(* Proofs about the SMS interface, for any number of messages and any      *)
(* width of the serial: also when serials wrap, a new request replaces one *)
(* that is pending, or a message gets the serial 0.  What is proved of the *)
(* request layer below is taken from QtiRadioExtProofs.                    *)
(***************************************************************************)
EXTENDS QtiImsSms, FiniteSetTheorems, TLAPS

RP == INSTANCE QtiRadioExtProofs WITH Codes <- {SEND_IMS_SMS}

(* What the interface relies on of the layer: requests are destroyed when they
   leave the table, which holds only requests that were accepted and not
   cancelled. *)
Layer ==
    /\ Radio!TypeOK
    /\ Radio!Accounted
    /\ requests \subseteq accepted
    /\ cancelled \cap requests = {}

(* What is given up has been cancelled; what has not been sent has not been
   destroyed. *)
GivenUpCancelled == given_up \subseteq cancelled
NotSent == \A r \in Requests : r >= last_id => op_destroyed[r] = 0

IInv ==
    /\ Layer /\ TypeOK /\ MessageAccounted /\ RefsExact
    /\ GivenUpCancelled /\ NotSent

(* The part of it that is about the interface's own state *)
OwnTypes ==
    /\ refs \in Int /\ id_map \subseteq 1..(IdMod - 1)
    /\ op_destroyed \in [Requests -> Nat] /\ given_up \subseteq Messages
Own == OwnTypes /\ MessageAccounted /\ RefsExact /\ NotSent

------------------------------------------------------------------------------
(* The layer below *)

(* The assumptions of the request layer hold for the interface. *)
LEMMA LayerAssumptions ==
  RP!MaxRequestsAssumption /\ RP!IdModAssumption /\ RP!CodesAssumption
BY BoundsAssumption DEF RP!MaxRequestsAssumption, RP!IdModAssumption,
   RP!CodesAssumption, SEND_IMS_SMS

(* Every step of the interface is one of the layer, or none. *)
LEMMA StepLayer == [Next]_vars => [Radio!Next]_(Radio!vars)
<1> USE DEF Radio!Next
<1>1. SEND_IMS_SMS \in {SEND_IMS_SMS} /\ Requests = Radio!Requests
  BY DEF Requests, Radio!Requests
<1>2. ASSUME send PROVE Radio!Next
  BY <1>1, <1>2 DEF send
<1>3. ASSUME ack PROVE Radio!Next
  BY <1>3 DEF ack
<1>4. ASSUME NEW r \in Requests, cancel(r) PROVE Radio!Next
  BY <1>1, <1>4 DEF cancel, cancel_id
<1>5. ASSUME NEW m \in answers, NEW r \in requests, response(m, r)
      PROVE  Radio!Next
  BY <1>5 DEF response
<1>6. ASSUME response_return PROVE Radio!Next
  BY <1>6 DEF response_return
<1>7. ASSUME below PROVE Radio!Next
  BY <1>1, <1>7 DEF below
<1>8. ASSUME UNCHANGED vars PROVE UNCHANGED Radio!vars
  BY <1>8 DEF vars, radio, Radio!vars
<1> HIDE DEF Radio!Next
<1> QED BY <1>2, <1>3, <1>4, <1>5, <1>6, <1>7, <1>8 DEF Next

(* The layer proved about is the layer used. *)
LEMMA SameLayer ==
  /\ Radio!Init => RP!Init
  /\ [Radio!Next]_(Radio!vars) => [RP!Next]_(RP!vars)
<1>1. Radio!Init => RP!Init
  BY Zenon DEF Radio!Init, RP!Init, Radio!Requests, RP!Requests, Radio!SyncCode,
     RP!SyncCode, Radio!Nobody, RP!Nobody
<1>2. [Radio!Next]_(Radio!vars) => [RP!Next]_(RP!vars)
  BY Zenon
     DEF Radio!Requests, RP!Requests, Radio!SyncCode, RP!SyncCode, Radio!Nobody,
         RP!Nobody, Radio!Lookup, RP!Lookup, Radio!Serial, RP!Serial,
         Radio!request_destroy, RP!request_destroy, Radio!table_remove,
         RP!table_remove, Radio!request_alloc, RP!request_alloc,
         Radio!SubmitAccepted, RP!SubmitAccepted, Radio!SubmitRefused,
         RP!SubmitRefused, Radio!SubmitSync, RP!SubmitSync, Radio!request_sent,
         RP!request_sent, Radio!consume, RP!consume, Radio!Matches, RP!Matches,
         Radio!response, RP!response, Radio!response_return, RP!response_return,
         Radio!response_unexpected, RP!response_unexpected, Radio!cancel,
         RP!cancel, Radio!SendAnswer, RP!SendAnswer, Radio!ServiceAnswers,
         RP!ServiceAnswers, Radio!ServiceConfuses, RP!ServiceConfuses,
         Radio!ServiceDies, RP!ServiceDies, Radio!Next, RP!Next, Radio!vars,
         RP!vars
<1> QED BY <1>1, <1>2

(* So the invariant of the layer holds, and with it what is relied on. *)
LEMMA LayerHolds == Spec => []Layer
<1>1. Spec => RP!Spec
  <2>1. Init => RP!Init
    BY SameLayer DEF Init
  <2>2. [Next]_vars => [RP!Next]_(RP!vars)
    BY SameLayer, StepLayer
  <2> QED BY <2>1, <2>2, PTL DEF Spec, RP!Spec
<1>2. RP!Spec => []RP!IInv
  BY LayerAssumptions, RP!Invariance
<1>3. RP!IInv => Layer
  <2> SUFFICES ASSUME RP!IInv PROVE Layer
    OBVIOUS
  <2>1. RP!TypeOK /\ RP!Accounted /\ RP!TableAccepted
    BY DEF RP!IInv
  <2>2. Radio!TypeOK
    BY <2>1, Zenon
       DEF Radio!TypeOK, RP!TypeOK, Radio!Requests, RP!Requests, Radio!Allocated,
           RP!Allocated, Radio!Answers, RP!Answers, Radio!SyncCode, RP!SyncCode,
           Radio!Nobody, RP!Nobody
  <2>3. Radio!Accounted
    BY <2>1, Zenon
       DEF Radio!Accounted, RP!Accounted, Radio!Allocated, RP!Allocated,
           Radio!SyncCode, RP!SyncCode
  <2> QED BY <2>1, <2>2, <2>3 DEF Layer, RP!TableAccepted
<1> QED BY <1>1, <1>2, <1>3, PTL

------------------------------------------------------------------------------
(* What a step does to the messages *)

(* Objects are numbered, the table and the messages are among those allocated,
   and a pending request is a message. *)
LEMMA Positions ==
  ASSUME Layer
  PROVE  /\ last_id \in Nat \ {0} /\ Messages \subseteq Requests
         /\ requests \subseteq Messages /\ accepted \subseteq Requests
         /\ \A r \in Messages : r < last_id
         /\ IsFiniteSet(requests) /\ Cardinality(requests) \in Nat
         /\ \A r \in accepted : Radio!Serial(r) \in 0..(IdMod - 1)
         /\ destroyed \in [Requests -> Nat]
         /\ response_code \in [Requests -> {SEND_IMS_SMS, 0}]
<1>1. /\ last_id \in 1..(MaxRequests + 1) /\ requests \subseteq 1..(last_id - 1)
      /\ accepted \subseteq 1..(last_id - 1)
      /\ response_code \in [Requests -> {SEND_IMS_SMS, 0}]
      /\ destroyed \in [Requests -> Nat]
  BY Zenon DEF Layer, Radio!TypeOK, Radio!Allocated, Radio!SyncCode,
     Radio!Requests, Requests
<1>2. 1..(last_id - 1) \subseteq Requests /\ last_id \in Nat \ {0}
  BY <1>1, BoundsAssumption DEF Requests
<1>3. \A r \in requests : response_code[r] = SEND_IMS_SMS
  BY <1>1, <1>2 DEF Layer, Radio!Accounted, Radio!Allocated, Radio!SyncCode
<1>4. requests \subseteq Messages
  BY <1>1, <1>3 DEF Messages
<1>5. /\ Messages \subseteq Requests
      /\ \A r \in Messages : r < last_id
  BY <1>2 DEF Messages
<1>6. IsFiniteSet(requests) /\ Cardinality(requests) \in Nat
  <2>1. IsFiniteSet(Requests) /\ requests \in SUBSET Requests
    BY <1>1, <1>2, BoundsAssumption, FS_Interval DEF Requests
  <2> QED BY <2>1, FS_Subset, FS_CardinalityType
<1>7. \A r \in accepted : Radio!Serial(r) \in 0..(IdMod - 1)
  BY <1>1, BoundsAssumption DEF Radio!Serial
<1> QED BY <1>1, <1>2, <1>4, <1>5, <1>6, <1>7

(* Each run of the free function destroys once, and drops a reference; only
   what was freed before, or is freed by both, may be destroyed twice. *)
LEMMA Free ==
  ASSUME NEW own \in SUBSET Requests, NEW taken \in Int,
         TypeOK, request_free(own, taken)
  PROVE  /\ op_destroyed' \in [Requests -> Nat] /\ refs' \in Int
         /\ \A r \in Requests :
               /\ op_destroyed'[r] >= op_destroyed[r]
               /\ r \in own => op_destroyed'[r] > op_destroyed[r]
               /\ r \notin dropped \cup own => op_destroyed'[r] = op_destroyed[r]
               /\ r \in dropped \ (freed_early \cup own) =>
                     op_destroyed'[r] = op_destroyed[r] + 1
         /\ dropped \cap (freed_early \cup own) = {} =>
               refs' = refs + taken - Cardinality(dropped \cup own)
<1> DEFINE freed == (dropped \ freed_early) \cup own
           stale == dropped \cap (freed_early \cup own)
<1>1. PICK again \in SUBSET stale :
         /\ op_destroyed' = [r \in Requests |->
               op_destroyed[r] + Cardinality({r} \cap freed)
                               + Cardinality({r} \cap again)]
         /\ refs' = refs + taken - Cardinality(freed) - Cardinality(again)
  BY DEF request_free
<1>2. \A S, r : Cardinality({r} \cap S) = IF r \in S THEN 1 ELSE 0
  <2>1. \A S, r : r \in S => {r} \cap S = {r}
    OBVIOUS
  <2>2. \A S, r : r \notin S => {r} \cap S = {}
    OBVIOUS
  <2> QED BY <2>1, <2>2, FS_Singleton, FS_EmptySet
<1>3. /\ freed \subseteq Requests /\ stale \subseteq Requests
      /\ again \subseteq Requests
  BY <1>1 DEF dropped
<1>4. Cardinality(freed) \in Nat /\ Cardinality(again) \in Nat
  <2>1. IsFiniteSet(Requests)
    BY BoundsAssumption, FS_Interval DEF Requests
  <2>2. \A S \in SUBSET Requests : Cardinality(S) \in Nat
    BY <2>1, FS_Subset, FS_CardinalityType
  <2> QED BY <1>3, <2>2
<1>5. op_destroyed \in [Requests -> Nat] /\ refs \in Int
  BY DEF TypeOK
<1>6. \A r \in Requests :
         op_destroyed'[r] = op_destroyed[r] + (IF r \in freed THEN 1 ELSE 0)
                                            + (IF r \in again THEN 1 ELSE 0)
  BY <1>1, <1>2
<1>7. op_destroyed' \in [Requests -> Nat]
  <2>1. op_destroyed' = [r \in Requests |-> op_destroyed'[r]]
    BY <1>1
  <2> QED BY <1>5, <1>6, <2>1
<1>8. refs' \in Int
  BY <1>1, <1>4, <1>5
<1>9. ASSUME NEW r \in Requests
      PROVE  /\ op_destroyed'[r] >= op_destroyed[r]
             /\ r \in own => op_destroyed'[r] > op_destroyed[r]
             /\ r \notin dropped \cup own => op_destroyed'[r] = op_destroyed[r]
             /\ r \in dropped \ (freed_early \cup own) =>
                   op_destroyed'[r] = op_destroyed[r] + 1
  <2>1. op_destroyed[r] \in Nat
    BY <1>5
  <2>2. r \in own => r \in freed
    OBVIOUS
  <2>3. r \notin dropped \cup own => r \notin freed /\ r \notin again
    BY <1>1
  <2>4. r \in dropped \ (freed_early \cup own) => r \in freed /\ r \notin again
    BY <1>1
  <2> HIDE DEF freed
  <2> QED BY <1>6, <2>1, <2>2, <2>3, <2>4
<1>10. ASSUME dropped \cap (freed_early \cup own) = {}
       PROVE  refs' = refs + taken - Cardinality(dropped \cup own)
  <2>1. again = {} /\ freed = dropped \cup own
    BY <1>1, <1>10
  <2>2. Cardinality(again) = 0 /\ Cardinality(freed) = Cardinality(dropped \cup own)
    BY <2>1, FS_EmptySet
  <2> HIDE DEF freed
  <2> QED BY <1>1, <1>4, <1>5, <2>2
<1> QED BY <1>7, <1>8, <1>9, <1>10

(* A step that leaves the messages, their requests and the references alone
   keeps what is proved of them; it may allocate a synchronous request. *)
LEMMA Unaffected ==
  ASSUME IInv, Layer', Messages' = Messages, last_id' >= last_id,
         given_up' = given_up,
         UNCHANGED <<requests, accepted, refs, op_destroyed, id_map>>
  PROVE  Own'
<1> USE DEF Own
<1>1. \A r : id(r)' = id(r)
  BY DEF id, Radio!Serial
<1>2. OwnTypes'
  BY DEF IInv, TypeOK, OwnTypes
<1>3. MessageAccounted'
  BY <1>1 DEF IInv, MessageAccounted
<1>4. RefsExact'
  BY <1>1 DEF IInv, RefsExact
<1>5. NotSent'
  <2>1. last_id \in Nat /\ last_id' \in Nat
    BY Positions DEF IInv, Layer, Radio!TypeOK
  <2> QED BY <2>1 DEF IInv, NotSent, Requests
<1> QED BY <1>2, <1>3, <1>4, <1>5

(* A step that ends requests, by cancelling or after their response, frees
   each once, unless it was freed early, having no id. *)
LEMMA Ended ==
  ASSUME IInv, requests' = requests \ dropped, dropped \subseteq requests,
         request_free({}, 0), given_up' \subseteq Messages,
         UNCHANGED <<last_id, response_code, accepted, id_map>>
  PROVE  Own'
<1> USE DEF Own
<1>t. Layer /\ TypeOK
  BY DEF IInv
<1>1. (\A r : id(r)' = id(r)) /\ Messages' = Messages
  BY DEF id, Radio!Serial, Messages
<1>2. /\ op_destroyed' \in [Requests -> Nat] /\ refs' \in Int
      /\ \A r \in Requests :
            /\ op_destroyed'[r] >= op_destroyed[r]
            /\ r \notin dropped => op_destroyed'[r] = op_destroyed[r]
            /\ r \in dropped \ freed_early =>
                  op_destroyed'[r] = op_destroyed[r] + 1
      /\ dropped \cap freed_early = {} =>
            refs' = refs - Cardinality(dropped)
  <2>1. {} \in SUBSET Requests /\ 0 \in Int /\ refs \in Int
    BY <1>t DEF TypeOK
  <2>2. /\ op_destroyed' \in [Requests -> Nat] /\ refs' \in Int
        /\ \A r \in Requests :
              /\ op_destroyed'[r] >= op_destroyed[r]
              /\ r \in {} => op_destroyed'[r] > op_destroyed[r]
              /\ r \notin dropped \cup {} => op_destroyed'[r] = op_destroyed[r]
              /\ r \in dropped \ (freed_early \cup {}) =>
                    op_destroyed'[r] = op_destroyed[r] + 1
        /\ dropped \cap (freed_early \cup {}) = {} =>
              refs' = refs + 0 - Cardinality(dropped \cup {})
    BY <1>t, <2>1, Free
  <2>3. dropped \cup {} = dropped /\ freed_early \cup {} = freed_early
    OBVIOUS
  <2>4. Cardinality(dropped \cup {}) \in Nat
    BY <1>t, <2>3, Positions, FS_Subset, FS_CardinalityType
  <2>5. dropped \cap freed_early = {} => refs' = refs - Cardinality(dropped)
    <3> SUFFICES ASSUME dropped \cap freed_early = {}
                 PROVE  refs' = refs - Cardinality(dropped)
      OBVIOUS
    <3>1. dropped \cap (freed_early \cup {}) = {}
      BY <2>3
    <3>2. refs' = refs + 0 - Cardinality(dropped \cup {})
      BY <2>2, <3>1
    <3>3. refs' = refs - Cardinality(dropped \cup {})
      BY <2>1, <2>4, <3>2
    <3> QED BY <2>3, <3>3
  <2> QED BY <2>2, <2>3, <2>5
<1>3. OwnTypes'
  BY <1>1, <1>2, <1>t DEF TypeOK, OwnTypes
<1>4. MessageAccounted'
  <2> SUFFICES ASSUME NEW r \in Messages
               PROVE  IF id(r) # None
                        THEN op_destroyed'[r] = IF r \in requests' THEN 0 ELSE 1
                        ELSE op_destroyed'[r] >= 1
    BY <1>1 DEF MessageAccounted
  <2>1. r \in Requests /\ op_destroyed[r] \in Nat /\ op_destroyed'[r] \in Nat
    BY <1>2, <1>t, Positions DEF TypeOK
  <2>2. IF id(r) # None THEN op_destroyed[r] = IF r \in requests THEN 0 ELSE 1
                        ELSE op_destroyed[r] >= 1
    BY DEF IInv, MessageAccounted
  <2>3. r \in dropped /\ id(r) # None => r \in dropped \ freed_early
    BY DEF freed_early
  <2> QED BY <1>2, <2>1, <2>2, <2>3
<1>5. RefsExact'
  <2> SUFFICES ASSUME \A r \in Messages : id(r) # None
               PROVE  refs' = BaseRefs + Cardinality(requests \ dropped)
    BY <1>1 DEF RefsExact
  <2>1. refs = BaseRefs + Cardinality(requests)
    BY DEF IInv, RefsExact
  <2>2. dropped \cap freed_early = {}
    BY <1>t, Positions DEF freed_early
  <2>3. /\ Cardinality(requests \ dropped)
              = Cardinality(requests) - Cardinality(dropped)
        /\ Cardinality(requests) \in Nat /\ Cardinality(dropped) \in Nat
    <3>1. IsFiniteSet(requests) /\ requests \cap dropped = dropped
      BY <1>t, Positions
    <3>2. Cardinality(requests \ dropped)
             = Cardinality(requests) - Cardinality(requests \cap dropped)
      BY <3>1, FS_Difference
    <3> QED BY <3>1, <3>2, FS_Subset, FS_CardinalityType
  <2> QED BY <1>2, <2>1, <2>2, <2>3, BaseRefsAssumption
<1>6. NotSent'
  <2>1. \A r \in Requests : r >= last_id => r \notin dropped
    BY <1>t, Positions DEF Requests
  <2> QED BY <1>2, <2>1 DEF IInv, NotSent
<1> QED BY <1>3, <1>4, <1>5, <1>6

(* Taking the entry of a serial out of the table drops what was there. *)
LEMMA Removed ==
  ASSUME Layer, NEW STATE serial, Radio!table_remove(serial)
  PROVE  requests' = requests \ dropped /\ dropped \subseteq requests
<1> DEFINE S == Radio!Lookup(serial)
<1>1. /\ requests' = requests \ S
      /\ destroyed' = [r \in Requests |->
                          IF r \in S THEN destroyed[r] + 1 ELSE destroyed[r]]
  BY DEF Radio!table_remove, Radio!request_destroy, Radio!Requests, Requests
<1>2. S \subseteq requests /\ S \subseteq Requests
      /\ destroyed \in [Requests -> Nat]
  BY Positions DEF Radio!Lookup
<1> HIDE DEF S
<1>3. \A r \in Requests : destroyed'[r] # destroyed[r] <=> r \in S
  BY <1>1, <1>2
<1>4. dropped = S
  BY <1>2, <1>3 DEF dropped
<1> QED BY <1>1, <1>2, <1>4

(* What send does to the layer: the request is put in the table, replacing
   what has its serial, and leaves it at once if it is refused; the interface
   frees it if there is no id to return. *)
LEMMA Sends ==
  ASSUME IInv, send, NEW r, r = last_id
  PROVE  /\ r \in Requests \ accepted /\ r \notin requests
         /\ last_id' = r + 1 /\ Messages' = Messages \cup {r}
         /\ \E S \in SUBSET requests :
               \/ /\ requests' = (requests \ S) \cup {r} /\ dropped = S
                  /\ accepted' = accepted \cup {r}
               \/ /\ requests' = requests \ S /\ dropped = S \cup {r}
                  /\ accepted' = accepted
<1> DEFINE S == Radio!Lookup(Radio!Serial(r))
<1>t. Layer /\ TypeOK
  BY DEF IInv
<1>1. /\ Radio!request_alloc(r, SEND_IMS_SMS)
      /\ \/ /\ requests' = (requests \ S) \cup {r}
            /\ Radio!request_destroy(S, {r}) /\ accepted' = accepted \cup {r}
         \/ /\ requests' = requests \ S
            /\ Radio!request_destroy(S \cup {r}, {}) /\ accepted' = accepted
  <2>1. CASE Radio!SubmitAccepted(SEND_IMS_SMS)
    BY <2>1 DEF Radio!SubmitAccepted
  <2>2. CASE Radio!SubmitRefused(SEND_IMS_SMS)
    BY <2>2 DEF Radio!SubmitRefused
  <2> QED BY <2>1, <2>2 DEF send
<1>2. S \in SUBSET requests
  BY DEF Radio!Lookup
<1>3. /\ r \in Requests /\ last_id' = r + 1
      /\ response_code' = [response_code EXCEPT ![r] = SEND_IMS_SMS]
  BY <1>1 DEF Radio!request_alloc, Radio!Requests, Requests
<1>4. r \notin accepted /\ r \notin requests
  BY <1>t DEF Layer, Radio!TypeOK, Radio!Allocated
<1>5. Messages' = Messages \cup {r}
  <2>1. response_code \in [Requests -> {SEND_IMS_SMS, 0}]
    BY <1>t, Positions
  <2>2. /\ 1..(last_id' - 1) = 1..(r - 1) \cup {r} /\ r \notin 1..(r - 1)
        /\ 1..(r - 1) \subseteq Requests
    BY <1>3, BoundsAssumption DEF Requests
  <2> QED BY <1>3, <2>1, <2>2 DEF Messages
<1> HIDE DEF S
<1>6. ASSUME NEW T \in SUBSET Requests, NEW U, Radio!request_destroy(T, U)
      PROVE  dropped = T
  <2>1. destroyed' = [q \in Requests |->
                        IF q \in T THEN destroyed[q] + 1 ELSE destroyed[q]]
    BY <1>6 DEF Radio!request_destroy, Radio!Requests, Requests
  <2>2. destroyed \in [Requests -> Nat]
    BY <1>t, Positions
  <2>3. \A q \in Requests : destroyed'[q] # destroyed[q] <=> q \in T
    BY <2>1, <2>2
  <2> QED BY <2>3 DEF dropped
<1>7. S \in SUBSET Requests /\ S \cup {r} \in SUBSET Requests
  BY <1>t, <1>2, <1>3, Positions
<1>8. \/ /\ requests' = (requests \ S) \cup {r} /\ dropped = S
         /\ accepted' = accepted \cup {r}
      \/ /\ requests' = requests \ S /\ dropped = S \cup {r}
         /\ accepted' = accepted
  BY <1>1, <1>6, <1>7
<1> QED BY <1>2, <1>3, <1>4, <1>5, <1>8

LEMMA SendOwn ==
  ASSUME IInv, Layer', send
  PROVE  Own'
<1> USE DEF Own
<1>t. Layer /\ TypeOK
  BY DEF IInv
<1>1. PICK r : r = last_id
  OBVIOUS
<1>2. /\ r \in Requests \ accepted /\ r \notin requests
      /\ last_id' = r + 1 /\ Messages' = Messages \cup {r}
  BY <1>1, Sends
<1>3. PICK S \in SUBSET requests :
         \/ /\ requests' = (requests \ S) \cup {r} /\ dropped = S
            /\ accepted' = accepted \cup {r}
         \/ /\ requests' = requests \ S /\ dropped = S \cup {r}
            /\ accepted' = accepted
  BY <1>1, Sends
<1>4. PICK new_id :
         /\ new_id = IF r \in accepted' THEN Radio!Serial(r) ELSE None
         /\ id_map' = id_map \cup ({new_id} \ {None})
         /\ request_free(IF new_id = None THEN {r} ELSE {}, 1)
  BY <1>1 DEF send, id_map_insert, unsent
<1>5. PICK own \in SUBSET {r} : /\ own = IF new_id = None THEN {r} ELSE {}
                                /\ request_free(own, 1)
  BY <1>4
<1>6. id(r)' = new_id /\ \A q : q # r => id(q)' = id(q)
  BY <1>3, <1>4 DEF id, Radio!Serial
<1>7. /\ op_destroyed' \in [Requests -> Nat] /\ refs' \in Int
      /\ \A q \in Requests :
            /\ op_destroyed'[q] >= op_destroyed[q]
            /\ q \in own => op_destroyed'[q] > op_destroyed[q]
            /\ q \notin dropped \cup own => op_destroyed'[q] = op_destroyed[q]
            /\ q \in dropped \ (freed_early \cup own) =>
                  op_destroyed'[q] = op_destroyed[q] + 1
      /\ dropped \cap (freed_early \cup own) = {} =>
            refs' = refs + 1 - Cardinality(dropped \cup own)
  <2>1. own \in SUBSET Requests /\ 1 \in Int
    BY <1>2
  <2> QED BY <1>t, <1>5, <2>1, Free
<1>8. OwnTypes'
  <2>1. id_map' \subseteq 1..(IdMod - 1)
    <3>1. new_id # None => new_id \in 0..(IdMod - 1) /\ new_id # 0
      <4> SUFFICES ASSUME new_id # None PROVE new_id \in 0..(IdMod - 1)
        BY DEF None
      <4>1. new_id = Radio!Serial(r) /\ r \in Nat
        BY <1>2, <1>4 DEF Requests
      <4> QED BY <4>1, BoundsAssumption DEF Radio!Serial
    <3>2. new_id # None => new_id \in 1..(IdMod - 1)
      BY <3>1, BoundsAssumption
    <3> QED BY <1>t, <1>4, <3>2 DEF TypeOK
  <2>2. given_up' \subseteq Messages'
    BY <1>t, <1>2 DEF send, TypeOK
  <2> QED BY <1>7, <2>1, <2>2 DEF OwnTypes
<1>9. MessageAccounted'
  <2> SUFFICES ASSUME NEW q \in Messages \cup {r}
               PROVE  IF id(q)' # None
                        THEN op_destroyed'[q] = IF q \in requests' THEN 0 ELSE 1
                        ELSE op_destroyed'[q] >= 1
    BY <1>2 DEF MessageAccounted
  <2>1. q \in Requests /\ op_destroyed[q] \in Nat /\ op_destroyed'[q] \in Nat
    BY <1>2, <1>7, <1>t, Positions DEF TypeOK
  <2>2. CASE q = r
    <3>1. op_destroyed[r] = 0
      BY <1>1, <1>2 DEF IInv, NotSent, Requests
    <3>2. CASE new_id = None
      BY <1>5, <1>6, <1>7, <2>1, <2>2, <3>1, <3>2
    <3>3. CASE new_id # None
      <4>1. r \in requests' /\ r \notin dropped /\ own = {}
        BY <1>2, <1>3, <1>4, <1>5, <3>3
      <4> QED BY <1>6, <1>7, <2>1, <2>2, <3>1, <3>3, <4>1
    <3> QED BY <3>2, <3>3
  <2>3. CASE q # r
    <3>1. IF id(q) # None
            THEN op_destroyed[q] = IF q \in requests THEN 0 ELSE 1
            ELSE op_destroyed[q] >= 1
      BY <2>3 DEF IInv, MessageAccounted
    <3>2. /\ q \notin own /\ (q \in dropped <=> q \in S)
          /\ q \in requests' <=> (q \in requests /\ q \notin S)
          /\ q \in S => q \in requests
      BY <1>3, <1>5, <2>3
    <3>3. q \in dropped /\ id(q) # None => q \in dropped \ (freed_early \cup own)
      BY <3>2 DEF freed_early
    <3> QED BY <1>6, <1>7, <2>1, <2>3, <3>1, <3>2, <3>3
  <2> QED BY <2>2, <2>3
<1>10. RefsExact'
  <2> SUFFICES ASSUME \A q \in Messages \cup {r} : id(q)' # None
               PROVE  refs' = BaseRefs + Cardinality(requests')
    BY <1>2 DEF RefsExact
  <2>1. \A q \in Messages : id(q) # None
    BY <1>t, <1>1, <1>6, Positions
  <2>2. refs = BaseRefs + Cardinality(requests)
    BY <2>1 DEF IInv, RefsExact
  <2>3. own = {} /\ dropped = S /\ requests' = (requests \ S) \cup {r}
    BY <1>2, <1>3, <1>4, <1>5, <1>6
  <2>4. freed_early = {}
    BY <1>t, <2>1, Positions DEF freed_early
  <2>5. refs' = refs + 1 - Cardinality(S)
    <3>1. dropped \cap (freed_early \cup own) = {} /\ dropped \cup own = S
      BY <2>3, <2>4
    <3> QED BY <1>7, <3>1
  <2>6. /\ Cardinality(requests') = Cardinality(requests) - Cardinality(S) + 1
        /\ Cardinality(requests) \in Nat /\ Cardinality(S) \in Nat
    <3>1. IsFiniteSet(requests) /\ requests \cap S = S /\ r \notin requests \ S
      BY <1>t, <1>2, Positions
    <3>2. /\ IsFiniteSet(requests \ S)
          /\ Cardinality(requests \ S)
                = Cardinality(requests) - Cardinality(requests \cap S)
      BY <3>1, FS_Difference
    <3>3. Cardinality((requests \ S) \cup {r}) = Cardinality(requests \ S) + 1
      BY <3>1, <3>2, FS_AddElement
    <3>4. Cardinality(requests) \in Nat /\ Cardinality(S) \in Nat
      BY <3>1, FS_Subset, FS_CardinalityType
    <3> QED BY <2>3, <3>1, <3>2, <3>3, <3>4
  <2> QED BY <2>2, <2>5, <2>6, BaseRefsAssumption
<1>11. NotSent'
  <2>1. \A q \in Requests : q >= r + 1 => q \notin dropped \cup own
    BY <1>t, <1>1, <1>2, <1>3, <1>5, Positions DEF Requests
  <2>2. \A q \in Requests : q >= r + 1 => op_destroyed[q] = 0
    BY <1>1, <1>2 DEF IInv, NotSent, Requests
  <2> QED BY <1>2, <1>7, <2>1, <2>2 DEF NotSent
<1> QED BY <1>8, <1>9, <1>10, <1>11

------------------------------------------------------------------------------
(* The invariant *)

(* The steps of the layer that are not about a message's life *)
LEMMA AckOwn ==
  ASSUME IInv, Layer', ack
  PROVE  Own'
<1>t. Layer
  BY DEF IInv
<1>1. PICK r : r = last_id
  OBVIOUS
<1>2. /\ r \in Requests /\ last_id' = r + 1
      /\ response_code' = [response_code EXCEPT ![r] = 0]
      /\ UNCHANGED <<requests, accepted, refs, op_destroyed, id_map, given_up>>
  BY <1>1 DEF ack, acknowledged, Radio!SubmitSync, Radio!request_alloc,
     Radio!Requests, Radio!SyncCode, Requests
<1>3. Messages' = Messages
  <2>1. response_code \in [Requests -> {SEND_IMS_SMS, 0}]
    BY <1>t, Positions
  <2>2. /\ 1..(last_id' - 1) = 1..(r - 1) \cup {r}
        /\ 1..(r - 1) \subseteq Requests
    BY <1>2, BoundsAssumption DEF Requests
  <2>3. \A q \in 1..(r - 1) : response_code'[q] = response_code[q]
    BY <1>2, <2>1, <2>2 DEF Requests
  <2>4. response_code'[r] # SEND_IMS_SMS
    BY <1>2, <2>1 DEF SEND_IMS_SMS
  <2> QED BY <1>1, <2>2, <2>3, <2>4 DEF Messages
<1>4. last_id' >= last_id
  BY <1>1, <1>2 DEF Requests
<1> QED BY <1>2, <1>3, <1>4, Unaffected

LEMMA StepOwn ==
  ASSUME IInv, Layer', [Next]_vars
  PROVE  Own' /\ GivenUpCancelled'
<1>t. Layer /\ TypeOK /\ GivenUpCancelled
  BY DEF IInv
<1>1. CASE send
  <2>1. UNCHANGED <<cancelled, given_up>>
    BY <1>1 DEF send, Radio!SubmitAccepted, Radio!SubmitRefused
  <2> QED BY <1>1, <1>t, <2>1, SendOwn DEF GivenUpCancelled
<1>2. CASE ack
  <2>1. UNCHANGED <<cancelled, given_up>>
    BY <1>2 DEF ack, Radio!SubmitSync
  <2> QED BY <1>2, <1>t, <2>1, AckOwn DEF GivenUpCancelled
<1>3. ASSUME NEW r \in Requests, cancel(r) PROVE Own' /\ GivenUpCancelled'
  <2>1. /\ Radio!cancel(r) /\ r \in Messages /\ request_free({}, 0)
        /\ given_up' = given_up \cup ({r} \cap requests) /\ id_map' = id_map
    BY <1>3 DEF cancel, cancel_id
  <2>2. /\ Radio!table_remove(Radio!Serial(r))
        /\ cancelled' = cancelled \cup Radio!Lookup(Radio!Serial(r))
        /\ UNCHANGED <<last_id, response_code, accepted>>
    BY <2>1 DEF Radio!cancel
  <2>3. requests' = requests \ dropped /\ dropped \subseteq requests
    BY <1>t, <2>2, Removed
  <2>4. given_up' \subseteq Messages
    BY <1>t, <2>1 DEF TypeOK
  <2>5. Own'
    BY <2>1, <2>2, <2>3, <2>4, Ended
  <2>6. GivenUpCancelled'
    BY <1>t, <2>1, <2>2 DEF GivenUpCancelled, Radio!Lookup
  <2> QED BY <2>5, <2>6
<1>4. CASE response_return
  <2>1. /\ Radio!response_return /\ request_free({}, 0)
        /\ UNCHANGED <<id_map, given_up>>
    BY <1>4 DEF response_return
  <2>2. /\ Radio!table_remove(Radio!Serial(dispatching))
        /\ UNCHANGED <<last_id, response_code, accepted, cancelled>>
    BY <2>1 DEF Radio!response_return
  <2>3. requests' = requests \ dropped /\ dropped \subseteq requests
    BY <1>t, <2>2, Removed
  <2>4. given_up' \subseteq Messages
    BY <1>t, <2>1 DEF TypeOK
  <2>5. Own'
    BY <2>1, <2>2, <2>3, <2>4, Ended
  <2> QED BY <1>t, <2>1, <2>2, <2>5 DEF GivenUpCancelled
<1>5. ASSUME UNCHANGED <<last_id, requests, response_code, accepted, cancelled,
                         refs, id_map, op_destroyed, given_up>>
      PROVE  Own' /\ GivenUpCancelled'
  <2>1. Messages' = Messages /\ last_id' >= last_id
    BY <1>5, <1>t, Positions DEF Messages
  <2>2. Own'
    BY <1>5, <2>1, Unaffected
  <2> QED BY <1>5, <1>t, <2>2 DEF GivenUpCancelled
<1>6. ASSUME NEW m \in answers, NEW r \in requests, response(m, r)
      PROVE  Own' /\ GivenUpCancelled'
  BY <1>5, <1>6 DEF response, Radio!response
<1>7. CASE below
  BY <1>5, <1>7 DEF below, Radio!request_sent, Radio!ServiceAnswers,
     Radio!SendAnswer, Radio!response_unexpected, Radio!ServiceDies
<1>8. CASE UNCHANGED vars
  BY <1>5, <1>8 DEF vars, radio
<1> QED BY <1>1, <1>2, <1>3, <1>4, <1>6, <1>7, <1>8 DEF Next

LEMMA InitOwn == Init => Own /\ GivenUpCancelled
<1> SUFFICES ASSUME Init PROVE Own /\ GivenUpCancelled
  OBVIOUS
<1>1. /\ last_id = 1 /\ requests = {} /\ refs = BaseRefs /\ id_map = {}
      /\ op_destroyed = [r \in Requests |-> 0] /\ given_up = {}
  BY DEF Init, Radio!Init
<1>2. Messages = {}
  BY <1>1 DEF Messages
<1>3. OwnTypes /\ NotSent
  BY <1>1, BaseRefsAssumption DEF OwnTypes, NotSent
<1>4. MessageAccounted
  BY <1>2 DEF MessageAccounted
<1>5. RefsExact
  BY <1>1, FS_EmptySet, BaseRefsAssumption DEF RefsExact
<1> QED BY <1>1, <1>3, <1>4, <1>5 DEF Own, GivenUpCancelled

THEOREM Invariance == Spec => []IInv
<1>1. IInv <=> Layer /\ Own /\ GivenUpCancelled
  BY DEF IInv, Own, OwnTypes, TypeOK, Layer
<1>2. Layer /\ Layer' /\ Own /\ GivenUpCancelled /\ [Next]_vars
         => Own' /\ GivenUpCancelled'
  BY <1>1, StepOwn
<1> QED BY <1>1, <1>2, InitOwn, LayerHolds, PTL DEF Spec

(* The variables keep their types (qti_ims_sms.c). *)
THEOREM TypeCorrect == Spec => []TypeOK
<1>1. IInv => TypeOK
  BY DEF IInv
<1> QED BY <1>1, Invariance, PTL

(* A message that got an id is destroyed exactly once, when its request ends,
   and one that got none before send returns (qti_ims_sms.c:123-190). *)
THEOREM MessagesAccounted == Spec => []MessageAccounted
<1>1. IInv => MessageAccounted
  BY DEF IInv
<1> QED BY <1>1, Invariance, PTL

(* The object lives as long as a message that will report to it. *)
THEOREM RefsAlwaysExact == Spec => []RefsExact
<1>1. IInv => RefsExact
  BY DEF IInv
<1> QED BY <1>1, Invariance, PTL

(* What a step completes is the synchronous request it makes, or a pending
   message with an id. *)
LEMMA Completes ==
  ASSUME IInv, [Next]_vars, NEW r \in Requests, completed'[r] # completed[r]
  PROVE  r = last_id \/ (r \in requests /\ id(r) # None)
<1>t. Layer /\ completed \in [Requests -> Nat]
  BY DEF IInv, Layer, Radio!TypeOK, Radio!Requests, Requests
<1>1. CASE ack
  <2>1. \/ completed' = [completed EXCEPT ![last_id] = @ + 1]
        \/ completed' = completed
    BY <1>1 DEF ack, Radio!SubmitSync
  <2>2. CASE completed' = completed
    BY <2>2
  <2>3. CASE completed' = [completed EXCEPT ![last_id] = @ + 1]
    <3>1. r # last_id => completed'[r] = completed[r]
      BY <1>t, <2>3
    <3> QED BY <3>1
  <2> QED BY <2>1, <2>2, <2>3
<1>2. ASSUME NEW m \in answers, NEW q \in requests, response(m, q)
      PROVE  r = last_id \/ (r \in requests /\ id(r) # None)
  <2>1. /\ completed' = [completed EXCEPT ![q] = @ + 1]
        /\ Radio!Serial(m.about) # 0 /\ Radio!Serial(q) = Radio!Serial(m.about)
    BY <1>2 DEF response, Radio!response, Radio!Matches, Radio!Lookup
  <2>2. r = q
    BY <1>t, <2>1
  <2>3. r \in accepted
    BY <1>t, <2>2 DEF Layer
  <2> QED BY <2>1, <2>2, <2>3 DEF id, None
<1>3. CASE send \/ response_return \/ below \/ (\E q \in Requests : cancel(q))
  <2>1. completed' = completed
    BY <1>3 DEF send, Radio!SubmitAccepted, Radio!SubmitRefused,
       response_return, Radio!response_return, below, Radio!request_sent,
       Radio!ServiceAnswers, Radio!SendAnswer, Radio!response_unexpected,
       Radio!ServiceDies, cancel, cancel_id, Radio!cancel
  <2> QED BY <2>1
<1>4. CASE UNCHANGED vars
  BY <1>4 DEF vars, radio
<1> QED BY <1>1, <1>2, <1>3, <1>4 DEF Next

(* complete never runs after destroy, whatever ids coincide. *)
THEOREM CompletedFirst == Spec => NotCompletedAfterDestroy
<1>1. IInv /\ [Next]_vars =>
        [\A r \in Requests :
            op_destroyed[r] > 0 => completed'[r] = completed[r]]_vars
  <2> SUFFICES ASSUME IInv, [Next]_vars, NEW r \in Requests,
                      op_destroyed[r] > 0, completed'[r] # completed[r]
               PROVE  FALSE
    OBVIOUS
  <2>1. r # last_id
    BY DEF IInv, NotSent, Requests
  <2>2. r \in requests /\ id(r) # None
    BY <2>1, Completes
  <2> QED BY <2>2, Positions DEF IInv, MessageAccounted
<1> QED BY <1>1, Invariance, PTL DEF Spec, NotCompletedAfterDestroy

(* ofono hears nothing of a message it has cancelled while it was pending. *)
THEOREM CancelledSilent == Spec => CancelledMessageSilent
<1>1. IInv /\ [Next]_vars =>
        [\A r \in given_up : completed'[r] = completed[r]]_vars
  <2> SUFFICES ASSUME IInv, [Next]_vars, NEW r \in given_up,
                      completed'[r] # completed[r]
               PROVE  FALSE
    OBVIOUS
  <2>1. r \in Requests /\ r # last_id /\ r \notin requests
    <3>1. r \in Messages /\ r \in cancelled
      BY DEF IInv, TypeOK, GivenUpCancelled
    <3> QED BY <3>1, Positions DEF IInv, Layer
  <2> QED BY <2>1, Completes
<1> QED BY <1>1, Invariance, PTL DEF Spec, CancelledMessageSilent

(* What the interface does, with its double free and at the wrap, is a behaviour of
   the request layer: whatever is proved of QtiRadioExt holds under it. *)
THEOREM DrivesLayer == Spec => Radio!Spec
<1>1. Init => Radio!Init
  BY DEF Init
<1> QED BY <1>1, StepLayer, PTL DEF Spec, Radio!Spec
==============================================================================
