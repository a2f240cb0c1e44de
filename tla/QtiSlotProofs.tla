---------------------------- MODULE QtiSlotProofs ----------------------------
(***************************************************************************)
(* Proofs about the life of the objects of a slot, for any number of       *)
(* requests: the references of every interface and of the radio are        *)
(* exactly those of their holders, and what follows from that.             *)
(***************************************************************************)
EXTENDS QtiSlot, FiniteSetTheorems, TLAPS

(* A slot that is not connected has given nothing to anybody; one that is
   keeps the radio and the interfaces that terminate does not clear. *)
SlotHolds ==
    /\ slot = "connected" => {"radio", "call", "sms"} \subseteq fields
    /\ slot # "connected" =>
          /\ fields = {} /\ connected = {} /\ held = {} /\ outstanding = {}
          /\ dispatching = None
          /\ \A i \in Interfaces : lost[i] = 0

(* The two parts of RefsExact, the second without a set *)
Holders(i) ==
    One(i \in fields) + One(i \in held) - lost[i] + Cardinality(Pending(i))
InterfacesExact == \A i \in Interfaces : refs[i] = Holders(i)
RadioCount(counts, others) ==
    counts["radio"] = others + One(counts["ims"] > 0)
                      + One(counts["call"] > 0) + One(counts["sms"] > 0)
RadioOthers == One("radio" \in fields) + One(dispatching # None)
RadioExact == RadioCount(refs, RadioOthers)

IInv == TypeOK /\ SlotHolds /\ InterfacesExact /\ RadioExact

------------------------------------------------------------------------------

(* A finite set without an element *)
LEMMA CountWithout ==
  ASSUME NEW S, IsFiniteSet(S), NEW x
  PROVE  /\ IsFiniteSet(S \ {x})
         /\ Cardinality(S \ {x}) = Cardinality(S) - One(x \in S)
         /\ Cardinality(S) \in Nat
<1>1. /\ IsFiniteSet(S \ {x})
      /\ Cardinality(S \ {x}) = IF x \in S THEN Cardinality(S) - 1
                                           ELSE Cardinality(S)
  BY FS_RemoveElement
<1>2. Cardinality(S) \in Nat
  BY FS_CardinalityType
<1>3. CASE x \in S
  BY <1>1, <1>2, <1>3 DEF One
<1>4. CASE x \notin S
  BY <1>1, <1>2, <1>4 DEF One
<1> QED BY <1>3, <1>4

(* A set of interfaces has as many elements as there are interfaces in it. *)
LEMMA CountInterfaces ==
  ASSUME NEW T \in SUBSET Interfaces
  PROVE  Cardinality(T) = One("ims" \in T) + One("call" \in T) + One("sms" \in T)
<1> DEFINE A == T \ {"ims"}
           B == A \ {"call"}
           D == B \ {"sms"}
<1>1. IsFiniteSet(T)
  <2>1. IsFiniteSet({"ims"})
    BY FS_Singleton
  <2>2. IsFiniteSet({"ims"} \cup {"call"})
    BY <2>1, FS_AddElement
  <2>3. IsFiniteSet(({"ims"} \cup {"call"}) \cup {"sms"})
    BY <2>2, FS_AddElement
  <2>4. Interfaces = ({"ims"} \cup {"call"}) \cup {"sms"}
    BY DEF Interfaces
  <2> QED BY <2>3, <2>4, FS_Subset
<1>2. /\ IsFiniteSet(A)
      /\ Cardinality(A) = Cardinality(T) - One("ims" \in T)
      /\ Cardinality(T) \in Nat
  BY <1>1, CountWithout
<1>3. /\ IsFiniteSet(B)
      /\ Cardinality(B) = Cardinality(A) - One("call" \in A)
      /\ Cardinality(A) \in Nat
  BY <1>2, CountWithout
<1>4. /\ Cardinality(D) = Cardinality(B) - One("sms" \in B)
      /\ Cardinality(B) \in Nat
  BY <1>3, CountWithout
<1>5. D = {}
  BY DEF Interfaces
<1>6. Cardinality(D) = 0
  BY <1>5, FS_EmptySet
<1>7. One("call" \in A) = One("call" \in T) /\ One("sms" \in B) = One("sms" \in T)
  BY DEF One
<1>8. /\ One("ims" \in T) \in Int
      /\ One("call" \in T) \in Int
      /\ One("sms" \in T) \in Int
  BY DEF One
<1> HIDE DEF A, B, D
<1> QED BY <1>2, <1>3, <1>4, <1>6, <1>7, <1>8

(* RefsExact is the conjunction of its two parts. *)
LEMMA RefsExactParts == RefsExact <=> InterfacesExact /\ RadioExact
<1>1. Cardinality(Alive) =
        One("ims" \in Alive) + One("call" \in Alive) + One("sms" \in Alive)
  <2>1. Alive \in SUBSET Interfaces
    BY DEF Alive
  <2> QED BY <2>1, CountInterfaces
<1>2. /\ "ims" \in Alive <=> Live("ims")
      /\ "call" \in Alive <=> Live("call")
      /\ "sms" \in Alive <=> Live("sms")
  BY DEF Alive, Interfaces
<1> QED BY <1>1, <1>2 DEF RefsExact, InterfacesExact, Holders, RadioExact,
             RadioCount, RadioOthers, Live, One

(* What dropping n references to interface i does to the counts. *)
LEMMA UnrefEffect ==
  ASSUME NEW counts \in [Objects -> Int], NEW i \in Interfaces, NEW n \in Nat
  PROVE  /\ unref(counts, i, n) \in [Objects -> Int]
         /\ unref(counts, i, n)[i] = counts[i] - n
         /\ \A j \in Interfaces \ {i} : unref(counts, i, n)[j] = counts[j]
         /\ unref(counts, i, n)["radio"] =
               counts["radio"] - One(counts[i] > 0) + One(counts[i] - n > 0)
<1> USE DEF Objects, Interfaces, One, unref
<1>1. CASE counts[i] > 0 /\ counts[i] - n <= 0
  BY <1>1
<1>2. CASE ~ (counts[i] > 0 /\ counts[i] - n <= 0)
  BY <1>2
<1> QED BY <1>1, <1>2

(* ... and that it leaves the radio with the references it should have. *)
LEMMA UnrefRadio ==
  ASSUME NEW counts \in [Objects -> Int], NEW i \in Interfaces, NEW n \in Nat,
         NEW others \in Int, RadioCount(counts, others)
  PROVE  RadioCount(unref(counts, i, n), others)
<1>1. /\ unref(counts, i, n)[i] = counts[i] - n
      /\ \A j \in Interfaces \ {i} : unref(counts, i, n)[j] = counts[j]
      /\ unref(counts, i, n)["radio"] =
            counts["radio"] - One(counts[i] > 0) + One(counts[i] - n > 0)
  BY UnrefEffect
<1>2. \A o \in Objects : counts[o] \in Int
  OBVIOUS
<1>3. CASE i = "ims"
  BY <1>1, <1>2, <1>3 DEF RadioCount, Interfaces, Objects, One
<1>4. CASE i = "call"
  BY <1>1, <1>2, <1>4 DEF RadioCount, Interfaces, Objects, One
<1>5. CASE i = "sms"
  BY <1>1, <1>2, <1>5 DEF RadioCount, Interfaces, Objects, One
<1> QED BY <1>3, <1>4, <1>5 DEF Interfaces

(* The requests pending for an interface are finitely many. *)
LEMMA PendingFinite ==
  ASSUME TypeOK, NEW i
  PROVE  IsFiniteSet(Pending(i)) /\ Cardinality(Pending(i)) \in Nat
<1>1. IsFiniteSet(Requests)
  BY FS_Interval, MaxRequestsAssumption DEF Requests
<1>2. Pending(i) \in SUBSET Requests
  BY DEF Pending, TypeOK
<1> QED BY <1>1, <1>2, FS_Subset, FS_CardinalityType

(* A release takes one request from those of its owner. *)
LEMMA PendingReleased ==
  ASSUME TypeOK, NEW r \in outstanding, Req!Release(r), UNCHANGED owner
  PROVE  \A i \in Interfaces :
            Cardinality(Pending(i)') = Cardinality(Pending(i)) - One(i = owner[r])
<1> SUFFICES ASSUME NEW i \in Interfaces
             PROVE  Cardinality(Pending(i)') =
                        Cardinality(Pending(i)) - One(i = owner[r])
  OBVIOUS
<1>1. Pending(i)' = Pending(i) \ {r}
  BY DEF Req!Release, Pending
<1>2. r \in Pending(i) <=> i = owner[r]
  BY DEF Pending
<1> QED BY <1>1, <1>2, PendingFinite, CountWithout DEF One

------------------------------------------------------------------------------

(* Initially there are no objects. *)
LEMMA InitIInv == Init => IInv
<1> SUFFICES ASSUME Init PROVE IInv
  OBVIOUS
<1> USE DEF Init, Req!Init
<1>1. TypeOK
  <2>1. refs \in [Objects -> Int] /\ lost \in [Interfaces -> Nat]
    OBVIOUS
  <2>2. completions \in [Requests -> Nat] /\ releases \in [Requests -> Nat]
    OBVIOUS
  <2>3. owner \in [Requests -> Interfaces \cup {"none"}]
    OBVIOUS
  <2> QED BY <2>1, <2>2, <2>3 DEF TypeOK
<1>2. SlotHolds
  BY DEF SlotHolds
<1>3. InterfacesExact
  <2>1. \A i \in Interfaces : Pending(i) = {}
    BY DEF Pending
  <2> QED BY <2>1, FS_EmptySet DEF InterfacesExact, Holders, One, Objects
<1>4. RadioExact
  BY DEF RadioExact, RadioCount, RadioOthers, One, Objects, Interfaces
<1> QED BY <1>1, <1>2, <1>3, <1>4 DEF IInv

(* Every action keeps the types. *)
LEMMA StepType == TypeOK /\ [Next]_vars => TypeOK'
<1> SUFFICES ASSUME TypeOK, [Next]_vars PROVE TypeOK'
  OBVIOUS
<1> USE DEF TypeOK
<1>1. CASE plugin_init
  BY <1>1 DEF plugin_init, contract, Objects
<1>2. CASE plugin_exit
  <2>1. refs' \in [Objects -> Int]
    BY <1>2 DEF plugin_exit, Objects
  <2> QED BY <1>2, <2>1 DEF plugin_exit, contract
<1>3. CASE slot_new
  <2>1. refs' \in [Objects -> Int]
    <3> DEFINE C == [refs EXCEPT !["slot"] = 1]
    <3>1. C \in [Objects -> Int] /\ radio_create(C) \in [Objects -> Int]
      BY DEF radio_create, Objects
    <3>2. \A c \in [Objects -> Int], i \in Interfaces :
              interface_new(c, i) \in [Objects -> Int]
      BY DEF interface_new, Objects
    <3> HIDE DEF C
    <3>3. interface_new(interface_new(interface_new(radio_create(C),
              "ims"), "call"), "sms") \in [Objects -> Int]
      BY <3>1, <3>2 DEF Interfaces
    <3> QED BY <1>3, <3>1, <3>3 DEF slot_new, C
  <2> QED BY <1>3, <2>1 DEF slot_new, contract
<1>4. CASE shutdown
  BY <1>4, UnrefEffect DEF shutdown, terminate, contract, Interfaces
<1>5. CASE slot_unref
  <2>1. [refs EXCEPT !["slot"] = @ - 1] \in [Objects -> Int]
    BY DEF Objects
  <2> QED BY <1>5, <2>1, UnrefEffect DEF slot_unref, terminate, contract, Interfaces
<1>6. ASSUME NEW i \in Interfaces, get_interface(i) PROVE TypeOK'
  BY <1>6 DEF get_interface, contract, Objects
<1>7. ASSUME NEW i \in Interfaces, release_interface(i) PROVE TypeOK'
  BY <1>7, UnrefEffect DEF release_interface, contract
<1>8. ASSUME NEW i \in Interfaces, request(i) PROVE TypeOK'
  <2>1. refs' \in [Objects -> Int] /\ lost' \in [Interfaces -> Nat]
    <3>1. CASE refs' = request_ref(i) /\ UNCHANGED lost
      BY <3>1 DEF request_ref, Objects
    <3>2. CASE \E again \in {0, 1} : /\ refs' = unref(refs, i, again)
                                     /\ lost' = [lost EXCEPT ![i] = @ + again]
      <4>1. PICK again \in {0, 1} : /\ refs' = unref(refs, i, again)
                                    /\ lost' = [lost EXCEPT ![i] = @ + again]
        BY <3>2
      <4>2. again \in Nat
        OBVIOUS
      <4>3. refs' \in [Objects -> Int]
        BY <4>1, <4>2, UnrefEffect
      <4> QED BY <4>1, <4>2, <4>3
    <3> QED BY <1>8, <3>1, <3>2 DEF request
  <2>2. /\ known' \subseteq Requests /\ outstanding' \subseteq known'
        /\ known \subseteq known'
        /\ releases' \in [Requests -> Nat] /\ UNCHANGED completions
    BY <1>8 DEF request, Req!Accept, Req!Refuse
  <2>3. /\ owner' \in [Requests -> Interfaces \cup {"none"}]
        /\ \A r \in outstanding' : owner'[r] \in Interfaces
    BY <1>8 DEF request, request_new, Req!Accept, Req!Refuse
  <2> QED BY <1>8, <2>1, <2>2, <2>3 DEF request
<1>9. ASSUME NEW r \in outstanding, response(r) PROVE TypeOK'
  BY <1>9 DEF response, Req!Complete, Objects
<1>10. ASSUME NEW r \in outstanding, cancel(r) PROVE TypeOK'
  <2>1. refs' \in [Objects -> Int] /\ lost' \in [Interfaces -> Nat]
    BY <1>10, UnrefEffect DEF cancel, release
  <2> QED BY <1>10, <2>1 DEF cancel, release, Req!Release
<1>11. CASE response_return
  <2> DEFINE C == [refs EXCEPT !["radio"] = @ - 1]
  <2>1. C \in [Objects -> Int]
    BY DEF Objects
  <2>2. refs' \in [Objects -> Int] /\ lost' \in [Interfaces -> Nat]
    <3> HIDE DEF C
    <3>1. \/ refs' = C /\ lost' = lost
          \/ /\ dispatching \in outstanding
             /\ \E again \in {0, 1} :
                   /\ refs' = unref(C, owner[dispatching], 1 + again)
                   /\ lost' = [lost EXCEPT ![owner[dispatching]] = @ + again]
      BY <1>11 DEF response_return, release, C
    <3>2. CASE refs' = C /\ lost' = lost
      BY <2>1, <3>2
    <3>3. CASE /\ dispatching \in outstanding
               /\ \E again \in {0, 1} :
                     /\ refs' = unref(C, owner[dispatching], 1 + again)
                     /\ lost' = [lost EXCEPT ![owner[dispatching]] = @ + again]
      <4>1. PICK again \in {0, 1} :
               /\ refs' = unref(C, owner[dispatching], 1 + again)
               /\ lost' = [lost EXCEPT ![owner[dispatching]] = @ + again]
        BY <3>3
      <4>2. again \in Nat /\ 1 + again \in Nat /\ owner[dispatching] \in Interfaces
        BY <3>3
      <4>3. refs' \in [Objects -> Int]
        BY <2>1, <4>1, <4>2, UnrefEffect
      <4> QED BY <4>1, <4>2, <4>3
    <3> QED BY <3>1, <3>2, <3>3
  <2>3. /\ known' = known /\ outstanding' \subseteq outstanding
        /\ completions' = completions /\ releases' \in [Requests -> Nat]
    BY <1>11 DEF response_return, release, Req!Release, contract
  <2> QED BY <1>11, <2>2, <2>3 DEF response_return
<1>12. CASE service_dies
  BY <1>12 DEF service_dies, objects, contract
<1>13. CASE UNCHANGED vars
  BY <1>13 DEF vars, objects, contract
<1> QED BY <1>1, <1>2, <1>3, <1>4, <1>5, <1>6, <1>7, <1>8, <1>9, <1>10, <1>11,
           <1>12, <1>13 DEF Next

(* Every action keeps what a slot that is connected has, and what one that is
   not has not. *)
LEMMA StepHolds == TypeOK /\ SlotHolds /\ [Next]_vars => SlotHolds'
<1> SUFFICES ASSUME TypeOK, SlotHolds, [Next]_vars PROVE SlotHolds'
  OBVIOUS
<1> USE DEF SlotHolds
<1>1. CASE plugin_init
  BY <1>1 DEF plugin_init, contract
<1>2. CASE plugin_exit
  BY <1>2 DEF plugin_exit, contract
<1>3. CASE slot_new
  BY <1>3 DEF slot_new, contract, Interfaces
<1>4. CASE shutdown
  BY <1>4 DEF shutdown, terminate, contract
<1>5. CASE slot_unref
  BY <1>5 DEF slot_unref, terminate, contract
<1>6. ASSUME NEW i \in Interfaces, get_interface(i) PROVE SlotHolds'
  BY <1>6 DEF get_interface, contract
<1>7. ASSUME NEW i \in Interfaces, release_interface(i) PROVE SlotHolds'
  BY <1>7 DEF release_interface, contract
<1>8. ASSUME NEW i \in Interfaces, request(i) PROVE SlotHolds'
  BY <1>8 DEF request, TypeOK
<1>9. ASSUME NEW r \in outstanding, response(r) PROVE SlotHolds'
  BY <1>9 DEF response
<1>10. ASSUME NEW r \in outstanding, cancel(r) PROVE SlotHolds'
  BY <1>10 DEF cancel, TypeOK
<1>11. CASE response_return
  BY <1>11 DEF response_return
<1>12. CASE service_dies
  BY <1>12 DEF service_dies, objects, contract
<1>13. CASE UNCHANGED vars
  BY <1>13 DEF vars, objects, contract
<1> QED BY <1>1, <1>2, <1>3, <1>4, <1>5, <1>6, <1>7, <1>8, <1>9, <1>10, <1>11,
           <1>12, <1>13 DEF Next

(* Requests that are untouched leave the counts of them as they are. *)
LEMMA PendingSame ==
  (UNCHANGED <<outstanding, owner>>) =>
      \A i \in Interfaces : Cardinality(Pending(i)') = Cardinality(Pending(i))
BY DEF Pending

(* Every action keeps the references to the radio exact. *)
LEMMA StepRadio == TypeOK /\ SlotHolds /\ RadioExact /\ [Next]_vars => RadioExact'
<1> SUFFICES ASSUME TypeOK, SlotHolds, RadioExact, [Next]_vars PROVE RadioExact'
  OBVIOUS
<1> USE DEF RadioExact
<1>t. /\ refs \in [Objects -> Int]
      /\ \A r \in outstanding : owner[r] \in Interfaces
      /\ RadioOthers \in Int
  BY DEF TypeOK, RadioOthers, One
<1>s. (UNCHANGED dispatching) /\ ("radio" \in fields' <=> "radio" \in fields)
         => RadioOthers' = RadioOthers
  BY DEF RadioOthers, One
<1>1. CASE plugin_init
  BY <1>1, <1>t DEF plugin_init, RadioCount, RadioOthers, Objects, Interfaces
<1>2. CASE plugin_exit
  BY <1>2, <1>t DEF plugin_exit, RadioCount, RadioOthers, Objects, Interfaces
<1>3. CASE slot_new
  BY <1>3, <1>t DEF slot_new, radio_create, interface_new, RadioCount, RadioOthers,
     SlotHolds, One, Objects, Interfaces
<1>4. CASE shutdown
  <2>1. "radio" \in fields' <=> "radio" \in fields
    BY <1>4 DEF shutdown, terminate
  <2>2. RadioOthers' = RadioOthers
    BY <1>4, <1>s, <2>1 DEF shutdown
  <2>3. refs' = IF "ims" \in fields THEN unref(refs, "ims", 1) ELSE refs
    BY <1>4 DEF shutdown, terminate
  <2> QED BY <1>t, <2>2, <2>3, UnrefRadio DEF Interfaces
<1>5. CASE slot_unref
  <2> DEFINE C == [refs EXCEPT !["slot"] = @ - 1]
  <2>1. "radio" \in fields' <=> "radio" \in fields
    BY <1>5 DEF slot_unref, terminate
  <2>2. C \in [Objects -> Int]
    BY <1>t DEF Objects
  <2>3. RadioCount(C, RadioOthers)
    BY <1>t DEF RadioCount, Objects, Interfaces
  <2>4. refs' = IF "ims" \in fields THEN unref(C, "ims", 1) ELSE C
    BY <1>5 DEF slot_unref, terminate
  <2>5. RadioOthers' = RadioOthers
    BY <1>5, <1>s, <2>1 DEF slot_unref
  <2> HIDE DEF C
  <2> QED BY <1>t, <2>2, <2>3, <2>4, <2>5, UnrefRadio DEF Interfaces
<1>6. ASSUME NEW i \in Interfaces, get_interface(i) PROVE RadioExact'
  BY <1>6, <1>t DEF get_interface, RadioCount, RadioOthers, Live, One, Objects, Interfaces
<1>7. ASSUME NEW i \in Interfaces, release_interface(i) PROVE RadioExact'
  <2>1. RadioOthers' = RadioOthers
    BY <1>7, <1>s DEF release_interface
  <2> QED BY <1>7, <1>t, <2>1, UnrefRadio DEF release_interface
<1>8. ASSUME NEW i \in Interfaces, request(i) PROVE RadioExact'
  <2>1. RadioOthers' = RadioOthers
    BY <1>8, <1>s DEF request
  <2>2. CASE refs' = request_ref(i)
    BY <1>8, <1>t, <2>1, <2>2 DEF request, request_ref, RadioCount, Live, One,
       Objects, Interfaces
  <2>3. CASE \E again \in {0, 1} : refs' = unref(refs, i, again)
    <3>1. PICK again \in {0, 1} : refs' = unref(refs, i, again)
      BY <2>3
    <3>2. again \in Nat
      OBVIOUS
    <3> QED BY <1>t, <2>1, <3>1, <3>2, UnrefRadio
  <2> QED BY <1>8, <2>2, <2>3 DEF request
<1>9. ASSUME NEW r \in outstanding, response(r) PROVE RadioExact'
  <2>1. r # None
    BY DEF TypeOK, Requests, None
  <2> QED BY <1>9, <1>t, <2>1 DEF response, RadioCount, RadioOthers, One, Objects, Interfaces
<1>10. ASSUME NEW r \in outstanding, cancel(r) PROVE RadioExact'
  <2>1. RadioOthers' = RadioOthers
    BY <1>10, <1>s DEF cancel
  <2>2. PICK again \in {0, 1} : refs' = unref(refs, owner[r], 1 + again)
    BY <1>10 DEF cancel, release
  <2>3. 1 + again \in Nat /\ owner[r] \in Interfaces
    BY <1>t
  <2> QED BY <1>t, <2>1, <2>2, <2>3, UnrefRadio
<1>11. CASE response_return
  <2> DEFINE C == [refs EXCEPT !["radio"] = @ - 1]
  <2>1. C \in [Objects -> Int]
    BY <1>t DEF Objects
  <2>2. RadioOthers' = RadioOthers - 1 /\ RadioOthers' \in Int
    BY <1>11 DEF response_return, RadioOthers, One
  <2>3. RadioCount(C, RadioOthers')
    BY <1>t, <2>2 DEF RadioCount, Objects, Interfaces, One
  <2>4. \/ refs' = C
        \/ /\ dispatching \in outstanding
           /\ \E again \in {0, 1} : refs' = unref(C, owner[dispatching], 1 + again)
    BY <1>11 DEF response_return, release
  <2> HIDE DEF C
  <2>5. CASE refs' = C
    BY <2>2, <2>3, <2>5
  <2>6. CASE /\ dispatching \in outstanding
             /\ \E again \in {0, 1} : refs' = unref(C, owner[dispatching], 1 + again)
    <3>1. PICK again \in {0, 1} : refs' = unref(C, owner[dispatching], 1 + again)
      BY <2>6
    <3>2. 1 + again \in Nat /\ owner[dispatching] \in Interfaces
      BY <1>t, <2>6
    <3> QED BY <2>1, <2>2, <2>3, <3>1, <3>2, UnrefRadio
  <2> QED BY <2>4, <2>5, <2>6
<1>12. CASE service_dies
  BY <1>12 DEF service_dies, objects, RadioCount, RadioOthers
<1>13. CASE UNCHANGED vars
  BY <1>13 DEF vars, objects, RadioCount, RadioOthers
<1> QED BY <1>1, <1>2, <1>3, <1>4, <1>5, <1>6, <1>7, <1>8, <1>9, <1>10, <1>11,
           <1>12, <1>13 DEF Next

(* Every action changes the references to an interface as it changes those
   who hold them. *)
LEMMA StepInterfaces ==
  TypeOK /\ SlotHolds /\ InterfacesExact /\ [Next]_vars => InterfacesExact'
<1> SUFFICES ASSUME TypeOK, SlotHolds, InterfacesExact, [Next]_vars,
                    NEW j \in Interfaces
             PROVE  refs'[j] = Holders(j)'
  BY DEF InterfacesExact
<1>t. /\ refs \in [Objects -> Int] /\ lost \in [Interfaces -> Nat]
      /\ \A r \in outstanding : owner[r] \in Interfaces
      /\ j \in Objects /\ j # "radio" /\ j # "slot" /\ j # "plugin"
  BY DEF TypeOK, Objects, Interfaces
<1>e. refs[j] = Holders(j)
  BY DEF InterfacesExact
<1>p. Cardinality(Pending(j)) \in Nat
  BY PendingFinite
<1>u. UNCHANGED <<outstanding, owner>>
         => Cardinality(Pending(j)') = Cardinality(Pending(j))
  BY PendingSame
<1>h. (UNCHANGED <<outstanding, owner, fields, held, lost>>)
         => Holders(j)' = Holders(j)
  BY <1>u DEF Holders
<1>1. CASE plugin_init
  BY <1>1, <1>t, <1>e, <1>h DEF plugin_init, contract
<1>2. CASE plugin_exit
  BY <1>2, <1>t, <1>e, <1>h DEF plugin_exit, contract
<1>3. CASE slot_new
  <2>1. UNCHANGED <<held, lost, outstanding, owner>> /\ slot = "none"
    BY <1>3 DEF slot_new, contract
  <2>2. CASE UNCHANGED fields /\ refs' = [refs EXCEPT !["slot"] = 1]
    BY <1>t, <1>e, <1>h, <2>1, <2>2
  <2>3. CASE /\ fields' = Interfaces \cup {"radio"}
             /\ refs' = interface_new(interface_new(interface_new(radio_create(
                          [refs EXCEPT !["slot"] = 1]), "ims"), "call"), "sms")
    <3>1. refs'[j] = 1
      BY <1>t, <2>3 DEF interface_new, radio_create, Objects, Interfaces
    <3>2. Pending(j)' = {} /\ j \notin held' /\ j \in fields' /\ lost'[j] = 0
      BY <2>1, <2>3 DEF SlotHolds, Pending
    <3> QED BY <3>1, <3>2, FS_EmptySet DEF Holders, One
  <2> QED BY <1>3, <2>2, <2>3 DEF slot_new
<1>4. CASE shutdown
  <2>1. UNCHANGED <<held, lost, outstanding, owner>> /\ fields' = fields \ {"ims"}
    BY <1>4 DEF shutdown, terminate, contract
  <2>2. refs' = IF "ims" \in fields THEN unref(refs, "ims", 1) ELSE refs
    BY <1>4 DEF shutdown, terminate
  <2>3. refs'[j] = refs[j] - One(j = "ims" /\ "ims" \in fields)
    BY <1>t, <2>2, UnrefEffect DEF One, Interfaces
  <2> QED BY <1>t, <1>e, <1>p, <1>u, <2>1, <2>3 DEF Holders, One
<1>5. CASE slot_unref
  <2> DEFINE C == [refs EXCEPT !["slot"] = @ - 1]
  <2>1. UNCHANGED <<held, lost, outstanding, owner>> /\ fields' = fields \ {"ims"}
    BY <1>5 DEF slot_unref, terminate, contract
  <2>2. refs' = IF "ims" \in fields THEN unref(C, "ims", 1) ELSE C
    BY <1>5 DEF slot_unref, terminate
  <2>3. C \in [Objects -> Int] /\ C[j] = refs[j]
    BY <1>t DEF Objects
  <2> HIDE DEF C
  <2>4. refs'[j] = refs[j] - One(j = "ims" /\ "ims" \in fields)
    BY <1>t, <2>2, <2>3, UnrefEffect DEF One, Interfaces
  <2> QED BY <1>t, <1>e, <1>p, <1>u, <2>1, <2>4 DEF Holders, One
<1>6. ASSUME NEW i \in Interfaces, get_interface(i) PROVE refs'[j] = Holders(j)'
  <2>1. /\ UNCHANGED <<fields, lost, outstanding, owner>>
        /\ held' = held \cup {i} /\ i \notin held
        /\ refs' = [refs EXCEPT ![i] = @ + 1]
    BY <1>6 DEF get_interface, contract
  <2> QED BY <1>t, <1>e, <1>p, <1>u, <2>1 DEF Holders, One
<1>7. ASSUME NEW i \in Interfaces, release_interface(i)
      PROVE  refs'[j] = Holders(j)'
  <2>1. /\ UNCHANGED <<fields, lost, outstanding, owner>>
        /\ held' = held \ {i} /\ i \in held
        /\ refs' = unref(refs, i, 1)
    BY <1>7 DEF release_interface, contract
  <2>2. refs'[j] = refs[j] - One(j = i)
    BY <1>t, <2>1, UnrefEffect DEF One
  <2> QED BY <1>t, <1>e, <1>p, <1>u, <2>1, <2>2 DEF Holders, One
<1>8. ASSUME NEW i \in Interfaces, request(i) PROVE refs'[j] = Holders(j)'
  <2>1. UNCHANGED <<fields, held>>
    BY <1>8 DEF request
  <2>2. CASE /\ Req!Accept(next_request) /\ request_new(next_request, i)
             /\ refs' = request_ref(i) /\ UNCHANGED lost
    <3>1. next_request \in Requests \ outstanding
      BY <1>8, <2>2 DEF request, Req!Accept, TypeOK
    <3>2. /\ outstanding' = outstanding \cup {next_request}
          /\ owner' = [owner EXCEPT ![next_request] = i]
      BY <2>2 DEF Req!Accept, request_new
    <3>3. owner \in [Requests -> Interfaces \cup {"none"}] /\ outstanding \subseteq Requests
      BY DEF TypeOK
    <3>4. Pending(j)' = IF j = i THEN Pending(j) \cup {next_request} ELSE Pending(j)
      BY <3>1, <3>2, <3>3 DEF Pending
    <3>5. next_request \notin Pending(j)
      BY <3>1 DEF Pending
    <3>6. Cardinality(Pending(j)') = Cardinality(Pending(j)) + One(j = i)
      BY <1>p, <3>4, <3>5, PendingFinite, FS_AddElement DEF One
    <3>7. refs'[j] = refs[j] + One(j = i)
      BY <1>t, <2>2 DEF request_ref, One
    <3> QED BY <1>t, <1>e, <1>p, <2>1, <2>2, <3>6, <3>7 DEF Holders, One
  <2>3. CASE /\ UNCHANGED <<outstanding, owner>>
             /\ \E again \in {0, 1} :
                   /\ refs' = unref(refs, i, again)
                   /\ lost' = [lost EXCEPT ![i] = @ + again]
    <3>1. PICK again \in {0, 1} : /\ refs' = unref(refs, i, again)
                                  /\ lost' = [lost EXCEPT ![i] = @ + again]
      BY <2>3
    <3>2. again \in Nat
      OBVIOUS
    <3>3. /\ refs'[j] = refs[j] - (IF j = i THEN again ELSE 0)
          /\ lost'[j] = lost[j] + (IF j = i THEN again ELSE 0)
      BY <1>t, <3>1, <3>2, UnrefEffect
    <3> QED BY <1>t, <1>e, <1>p, <1>u, <2>1, <2>3, <3>2, <3>3 DEF Holders, One
  <2> QED BY <1>8, <2>2, <2>3 DEF request, Req!Refuse
<1>9. ASSUME NEW r \in outstanding, response(r) PROVE refs'[j] = Holders(j)'
  BY <1>9, <1>t, <1>e, <1>h DEF response, Req!Complete
<1>10. ASSUME NEW r \in outstanding, cancel(r) PROVE refs'[j] = Holders(j)'
  <2>1. UNCHANGED <<fields, held, owner>> /\ Req!Release(r)
    BY <1>10 DEF cancel, release
  <2>2. PICK again \in {0, 1} :
           /\ refs' = unref(refs, owner[r], 1 + again)
           /\ lost' = [lost EXCEPT ![owner[r]] = @ + again]
    BY <1>10 DEF cancel, release
  <2>3. again \in Nat /\ 1 + again \in Nat /\ owner[r] \in Interfaces
    BY <1>t
  <2>4. /\ refs'[j] = refs[j] - (IF j = owner[r] THEN 1 + again ELSE 0)
        /\ lost'[j] = lost[j] + (IF j = owner[r] THEN again ELSE 0)
    BY <1>t, <2>2, <2>3, UnrefEffect
  <2>5. Cardinality(Pending(j)') = Cardinality(Pending(j)) - One(j = owner[r])
    BY <2>1, PendingReleased
  <2> QED BY <1>t, <1>e, <1>p, <2>1, <2>3, <2>4, <2>5 DEF Holders, One
<1>11. CASE response_return
  <2> DEFINE C == [refs EXCEPT !["radio"] = @ - 1]
             r == dispatching
  <2>1. C \in [Objects -> Int] /\ C[j] = refs[j]
    BY <1>t DEF Objects
  <2>2. UNCHANGED <<fields, held, owner>>
    BY <1>11 DEF response_return
  <2>3. CASE refs' = C /\ UNCHANGED <<outstanding, lost>>
    BY <1>t, <1>e, <1>h, <2>1, <2>2, <2>3
  <2>4. CASE r \in outstanding /\ release(r, C)
    <3> HIDE DEF C, r
    <3>1. PICK again \in {0, 1} :
             /\ refs' = unref(C, owner[r], 1 + again)
             /\ lost' = [lost EXCEPT ![owner[r]] = @ + again]
      BY <2>4 DEF release
    <3>2. again \in Nat /\ 1 + again \in Nat /\ owner[r] \in Interfaces
      BY <1>t, <2>4
    <3>3. /\ refs'[j] = C[j] - (IF j = owner[r] THEN 1 + again ELSE 0)
          /\ lost'[j] = lost[j] + (IF j = owner[r] THEN again ELSE 0)
      BY <1>t, <2>1, <3>1, <3>2, UnrefEffect
    <3>4. Req!Release(r)
      BY <2>4 DEF release
    <3>5. Cardinality(Pending(j)') = Cardinality(Pending(j)) - One(j = owner[r])
      BY <2>2, <2>4, <3>4, PendingReleased
    <3> QED BY <1>t, <1>e, <1>p, <2>1, <2>2, <3>2, <3>3, <3>5 DEF Holders, One
  <2> QED BY <1>11, <2>3, <2>4 DEF response_return, contract
<1>12. CASE service_dies
  BY <1>12, <1>e, <1>h DEF service_dies, objects, contract
<1>13. CASE UNCHANGED vars
  BY <1>13, <1>e, <1>h DEF vars, objects, contract
<1> QED BY <1>1, <1>2, <1>3, <1>4, <1>5, <1>6, <1>7, <1>8, <1>9, <1>10, <1>11,
           <1>12, <1>13 DEF Next

------------------------------------------------------------------------------

(* The invariant holds throughout. *)
THEOREM Invariance == Spec => []IInv
<1>1. IInv /\ [Next]_vars => IInv'
  BY StepType, StepHolds, StepInterfaces, StepRadio DEF IInv
<1> QED BY <1>1, InitIInv, PTL DEF Spec

(* The variables keep their types: in particular a pending request always has
   the interface that made it (QtiSlot!TypeOK). *)
THEOREM TypeCorrect == Spec => []TypeOK
<1>1. IInv => TypeOK
  BY DEF IInv
<1> QED BY <1>1, Invariance, PTL

(* Whatever is shut down, dropped, cancelled or finalized, and from within
   whichever callback, each count is the number of those that hold the object,
   less the references dropped that nobody held (qti_slot.c:35-141, the
   finalizers of the interfaces, qti_radio_ext.c:928-1030). *)
THEOREM RefsAlwaysExact == Spec => []RefsExact
<1>1. IInv => RefsExact
  BY RefsExactParts DEF IInv
<1> QED BY <1>1, Invariance, PTL

(* The radio, to which the binder objects refer for ever, is never freed. *)
THEOREM RadioOutlives == Spec => []RadioOutlivesCallbacks
<1>1. IInv => RadioOutlivesCallbacks
  BY DEF IInv, SlotHolds, RadioExact, RadioCount, RadioOthers, One,
         RadioOutlivesCallbacks, Live
<1> QED BY <1>1, Invariance, PTL

(* While no reference was lost, only the IMS interface may be freed with its
   handlers connected, and only after the slot has given it back. *)
THEOREM OnlyIms == Spec => []OnlyImsDangles
<1>1. ASSUME IInv PROVE OnlyImsDangles
  <2> SUFFICES ASSUME NEW i \in connected, lost[i] = 0
               PROVE  Live(i) \/ (i = "ims" /\ "ims" \notin fields)
    BY DEF OnlyImsDangles
  <2>1. i \in Interfaces /\ slot = "connected"
    BY <1>1 DEF IInv, TypeOK, SlotHolds
  <2>2. {"call", "sms"} \subseteq fields
    BY <1>1, <2>1 DEF IInv, SlotHolds
  <2>3. refs[i] = Holders(i) /\ Cardinality(Pending(i)) \in Nat
    BY <1>1, <2>1, PendingFinite DEF IInv, InterfacesExact
  <2>4. CASE i \in fields
    BY <2>3, <2>4 DEF Holders, One, Live
  <2>5. CASE i \notin fields
    BY <2>1, <2>2, <2>5 DEF Interfaces
  <2> QED BY <2>4, <2>5
<1> QED BY <1>1, Invariance, PTL
==============================================================================
