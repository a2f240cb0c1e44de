-------------------------- MODULE QtiRadioExtProofs --------------------------
(***************************************************************************)
(* Proofs about the request layer, for every number of requests, every     *)
(* width of the serial and every set of response codes.  Those that need   *)
(* serials not to wrap assume NoWrap.                                      *)
(***************************************************************************)
EXTENDS QtiRadioExt, TLAPS

(* Fewer requests than values of the serial: no serial is used twice, and
   none is 0. *)
NoWrap == MaxRequests < IdMod

(* Each transaction that may still report back belongs to an object in the
   table whose tx field names it, which is what request_destroy cancels. *)
TransactionsHeld == tx = transactions /\ transactions \subseteq requests

(* Only the request whose callback is running is both completed and in the
   table, and an object not yet allocated has no history. *)
CompletionsTracked ==
    /\ \A r \in Requests : completed[r] \in {0, 1}
    /\ \A r \in requests : completed[r] = 1 => r = dispatching
    /\ dispatching # Nobody => completed[dispatching] = 1
    /\ \A r \in Requests \ Allocated : completed[r] = 0 /\ destroyed[r] = 0

(* The table holds requests the binder took and nobody cancelled. *)
TableAccepted ==
    /\ requests \subseteq accepted
    /\ cancelled \cap requests = {}
    /\ \A r \in accepted : response_code[r] \in Codes

IInv ==
    /\ TypeOK
    /\ TransactionsHeld
    /\ Accounted
    /\ CompletionsTracked
    /\ TableAccepted

------------------------------------------------------------------------------

(* The initial state is well typed and satisfies the whole invariant: no
   request has been allocated. *)
LEMMA InitIInv == Init => IInv
<1> SUFFICES ASSUME Init PROVE IInv
  OBVIOUS
<1> USE DEF Init
<1>1. Allocated = {}
  BY DEF Allocated
<1>2. TypeOK
  BY <1>1, MaxRequestsAssumption
     DEF TypeOK, Requests, Answers, SyncCode, Nobody
<1>3. TransactionsHeld
  BY DEF TransactionsHeld
<1>4. Accounted
  BY <1>1 DEF Accounted
<1>5. CompletionsTracked
  BY DEF CompletionsTracked, Nobody
<1>6. TableAccepted
  BY DEF TableAccepted
<1> QED
  BY <1>2, <1>3, <1>4, <1>5, <1>6 DEF IInv

(* Allocation takes the next position, which no object had before. *)
LEMMA NextPosition ==
  ASSUME TypeOK, NEW code \in Codes \cup {SyncCode},
         request_alloc(last_id, code)
  PROVE  /\ last_id \in Requests
         /\ last_id \notin Allocated
         /\ Allocated' = Allocated \cup {last_id}
         /\ last_id' \in 1..(MaxRequests + 1)
         /\ response_code' \in [Requests -> Codes \cup {SyncCode}]
         /\ response_code'[last_id] = code
         /\ \A r \in Requests \ {last_id} : response_code'[r] = response_code[r]
  BY MaxRequestsAssumption DEF TypeOK, request_alloc, Allocated, Requests

(* What request_destroy does to the counts and to the transactions. *)
LEMMA DestroyEffect ==
  ASSUME TypeOK, TransactionsHeld,
         NEW S \in SUBSET Requests, NEW T \in SUBSET Requests,
         request_destroy(S, T)
  PROVE  /\ tx' = transactions'
         /\ transactions' = (transactions \ S) \cup T
         /\ destroyed' \in [Requests -> Nat]
         /\ \A r \in S : destroyed'[r] = destroyed[r] + 1
         /\ \A r \in Requests \ S : destroyed'[r] = destroyed[r]
  BY DEF request_destroy, TypeOK, TransactionsHeld

(* Removing the entry of a serial takes it out of the table, with its
   transaction, and destroys it once. *)
LEMMA RemoveEffect ==
  ASSUME TypeOK, TransactionsHeld, NEW STATE serial, table_remove(serial)
  PROVE  /\ requests' = requests \ Lookup(serial)
         /\ tx' = transactions'
         /\ transactions' = transactions \ Lookup(serial)
         /\ destroyed' \in [Requests -> Nat]
         /\ \A r \in Lookup(serial) : destroyed'[r] = destroyed[r] + 1
         /\ \A r \in Requests \ Lookup(serial) : destroyed'[r] = destroyed[r]
<1>1. Allocated \subseteq Requests
  BY MaxRequestsAssumption DEF TypeOK, Allocated, Requests
<1>2. Lookup(serial) \in SUBSET Requests
  BY <1>1 DEF Lookup, TypeOK
<1>3. request_destroy(Lookup(serial), {})
      /\ requests' = requests \ Lookup(serial)
  BY DEF table_remove
<1>4. {} \in SUBSET Requests
  OBVIOUS
<1>5. /\ tx' = transactions'
      /\ transactions' = (transactions \ Lookup(serial)) \cup {}
      /\ destroyed' \in [Requests -> Nat]
      /\ \A r \in Lookup(serial) : destroyed'[r] = destroyed[r] + 1
      /\ \A r \in Requests \ Lookup(serial) : destroyed'[r] = destroyed[r]
  BY <1>2, <1>3, <1>4, DestroyEffect
<1> QED
  BY <1>3, <1>5

(* Every step keeps the types. *)
LEMMA StepType == IInv /\ [Next]_vars => TypeOK'
<1> SUFFICES ASSUME IInv, [Next]_vars PROVE TypeOK'
  OBVIOUS
<1>t. TypeOK /\ TransactionsHeld
  BY DEF IInv
<1>a. Allocated \subseteq Requests
  BY MaxRequestsAssumption, <1>t DEF TypeOK, Allocated, Requests
<1>c. Codes \subseteq Codes \cup {SyncCode} /\ SyncCode \in Codes \cup {SyncCode}
  OBVIOUS
<1>1. ASSUME NEW code \in Codes, SubmitAccepted(code) PROVE TypeOK'
  <2> DEFINE S == Lookup(Serial(last_id))
  <2>1. S \subseteq requests /\ S \subseteq Requests
    BY <1>t, <1>a DEF Lookup, TypeOK
  <2>2. request_alloc(last_id, code) /\ request_destroy(S, {last_id})
    BY <1>1 DEF SubmitAccepted
  <2>3. last_id \in Requests
    BY <2>2 DEF request_alloc
  <2> HIDE DEF S
  <2>4. /\ tx' = transactions' /\ transactions' = (transactions \ S) \cup {last_id}
        /\ destroyed' \in [Requests -> Nat]
    BY <2>1, <2>2, <2>3, <1>t, DestroyEffect
  <2>5. /\ Allocated' = Allocated \cup {last_id}
        /\ last_id' \in 1..(MaxRequests + 1)
        /\ response_code' \in [Requests -> Codes \cup {SyncCode}]
    BY <2>2, <1>t, <1>c, NextPosition
  <2>6. /\ requests' = (requests \ S) \cup {last_id}
        /\ accepted' = accepted \cup {last_id}
        /\ UNCHANGED <<completed, cancelled, dispatching, answers, remote>>
    BY <1>1 DEF SubmitAccepted, S
  <2> QED
    BY <2>4, <2>5, <2>6, <1>t DEF TypeOK, Answers
<1>2. ASSUME NEW code \in Codes, SubmitRefused(code) PROVE TypeOK'
  <2> DEFINE S == Lookup(Serial(last_id)) \cup {last_id}
  <2>2. request_alloc(last_id, code) /\ request_destroy(S, {})
    BY <1>2 DEF SubmitRefused
  <2>3. last_id \in Requests
    BY <2>2 DEF request_alloc
  <2>1. S \subseteq Requests
    BY <1>t, <1>a, <2>3 DEF Lookup, TypeOK
  <2>6. /\ requests' \subseteq requests
        /\ UNCHANGED <<completed, accepted, cancelled, dispatching, answers,
                       remote>>
    BY <1>2 DEF SubmitRefused
  <2> HIDE DEF S
  <2>4. /\ tx' = transactions' /\ transactions' = (transactions \ S) \cup {}
        /\ destroyed' \in [Requests -> Nat]
    BY <2>1, <2>2, <1>t, DestroyEffect
  <2>5. /\ Allocated' = Allocated \cup {last_id}
        /\ last_id' \in 1..(MaxRequests + 1)
        /\ response_code' \in [Requests -> Codes \cup {SyncCode}]
    BY <2>2, <1>t, <1>c, NextPosition
  <2> QED
    BY <2>4, <2>5, <2>6, <1>t DEF TypeOK, Answers
<1>3. ASSUME SubmitSync PROVE TypeOK'
  <2>1. request_alloc(last_id, SyncCode)
    BY <1>3 DEF SubmitSync
  <2>2. /\ Allocated' = Allocated \cup {last_id}
        /\ last_id' \in 1..(MaxRequests + 1)
        /\ response_code' \in [Requests -> Codes \cup {SyncCode}]
    BY <2>1, <1>t, <1>c, NextPosition
  <2>3. completed' \in [Requests -> Nat]
    BY <1>3, <1>t DEF SubmitSync, TypeOK
  <2> QED
    BY <1>3, <2>2, <2>3, <1>t DEF SubmitSync, TypeOK, Answers
<1>4. ASSUME NEW r \in Requests, request_sent(r) PROVE TypeOK'
  BY <1>4, <1>t DEF request_sent, TypeOK, Allocated, Answers
<1>5. ASSUME NEW r \in Requests, cancel(r) PROVE TypeOK'
  <2>1. cancelled' \subseteq cancelled \cup requests /\ table_remove(Serial(r))
    BY <1>5 DEF cancel, Lookup
  <2>2. UNCHANGED <<last_id, response_code, completed, accepted, dispatching,
                    answers, remote>>
    BY <1>5 DEF cancel
  <2> QED
    BY <2>1, <2>2, <1>t, RemoveEffect DEF TypeOK, Allocated, Answers
<1>6. ASSUME NEW m \in answers, NEW r \in requests, response(m, r) PROVE TypeOK'
  <2>1. answers' \subseteq answers
    BY <1>6 DEF response, consume
  <2> QED
    BY <1>6, <2>1, <1>t, <1>a DEF response, TypeOK, Allocated, Answers
<1>7. ASSUME NEW m \in answers, response_unexpected(m) PROVE TypeOK'
  <2>1. answers' \subseteq answers
    BY <1>7 DEF response_unexpected, consume
  <2> QED
    BY <1>7, <2>1, <1>t DEF response_unexpected, TypeOK, Allocated, Answers
<1>8. CASE response_return
  <2>1. table_remove(Serial(dispatching)) /\ dispatching' = Nobody
    BY <1>8 DEF response_return
  <2>2. UNCHANGED <<last_id, response_code, completed, accepted, cancelled,
                    answers, remote>>
    BY <1>8 DEF response_return
  <2> QED
    BY <2>1, <2>2, <1>t, RemoveEffect DEF TypeOK, Allocated, Answers
<1>s. ASSUME NEW r \in Requests, NEW code \in Codes, SendAnswer(r, code)
      PROVE  TypeOK'
  BY <1>s, <1>t DEF SendAnswer, TypeOK, Allocated, Answers
<1>9. ASSUME NEW r \in Requests, ServiceAnswers(r) PROVE TypeOK'
  BY <1>9, <1>s DEF ServiceAnswers, SendAnswer, IInv, TableAccepted
<1>10. ASSUME NEW r \in Requests, ServiceConfuses(r) PROVE TypeOK'
  BY <1>10, <1>s DEF ServiceConfuses
<1>11. CASE ServiceDies
  BY <1>11, <1>t DEF ServiceDies, TypeOK, Allocated, Answers
<1>12. CASE UNCHANGED vars
  BY <1>12, <1>t DEF vars, TypeOK, Allocated, Answers
<1> QED
  BY <1>1, <1>2, <1>3, <1>4, <1>5, <1>6, <1>7, <1>8, <1>9, <1>10, <1>11, <1>12
     DEF Next

(* The rest of the inductive invariant. *)
Held == TransactionsHeld /\ Accounted /\ CompletionsTracked /\ TableAccepted

(* A step that changes neither the table, nor the counts, nor the histories. *)
LEMMA HeldUnchanged ==
  ASSUME Held,
         UNCHANGED <<last_id, requests, response_code, tx, transactions,
                     completed, destroyed, accepted, cancelled, dispatching>>
  PROVE  Held'
  BY DEF Held, TransactionsHeld, Accounted, CompletionsTracked, TableAccepted,
         Allocated

(* Taking a request into the table. *)
LEMMA SubmitAcceptedHeld ==
  ASSUME TypeOK, Held, NEW code \in Codes, SubmitAccepted(code)
  PROVE  Held'
<1> DEFINE S == Lookup(Serial(last_id))
<1> USE DEF Held
<1>1. S \subseteq requests /\ S \in SUBSET Requests /\ Allocated \subseteq Requests
      /\ requests \subseteq Allocated
  <2>1. Allocated \subseteq Requests
    BY MaxRequestsAssumption DEF TypeOK, Allocated, Requests
  <2>2. S \subseteq requests /\ requests \subseteq Allocated
    BY DEF Lookup, TypeOK
  <2> QED
    BY <2>1, <2>2
<1>2. /\ request_alloc(last_id, code) /\ request_destroy(S, {last_id})
      /\ requests' = (requests \ S) \cup {last_id}
      /\ accepted' = accepted \cup {last_id}
      /\ UNCHANGED <<completed, cancelled, dispatching>>
  BY DEF SubmitAccepted
<1> HIDE DEF S
<1>3. /\ last_id \in Requests /\ last_id \notin Allocated
      /\ Allocated' = Allocated \cup {last_id}
      /\ response_code'[last_id] = code
      /\ \A r \in Requests \ {last_id} : response_code'[r] = response_code[r]
  BY <1>2, NextPosition
<1>4. /\ tx' = transactions' /\ transactions' = (transactions \ S) \cup {last_id}
      /\ \A r \in S : destroyed'[r] = destroyed[r] + 1
      /\ \A r \in Requests \ S : destroyed'[r] = destroyed[r]
  <2>1. {last_id} \in SUBSET Requests
    BY <1>3
  <2> QED
    BY <2>1, <1>1, <1>2, DestroyEffect
<1>5. TransactionsHeld'
  BY <1>2, <1>4 DEF TransactionsHeld
<1>6. code # SyncCode /\ last_id \notin S /\ last_id \notin requests
      /\ last_id \notin cancelled /\ last_id # Nobody
  BY <1>1, <1>3, CodesAssumption DEF SyncCode, TypeOK, Nobody, Requests
<1>7. Accounted'
  <2> SUFFICES ASSUME NEW r \in Allocated'
               PROVE  IF response_code'[r] = SyncCode
                        THEN r \notin requests' /\ destroyed'[r] = 0
                        ELSE destroyed'[r] = IF r \in requests' THEN 0 ELSE 1
    BY DEF Accounted
  <2>1. CASE r = last_id
    BY <2>1, <1>2, <1>3, <1>4, <1>6 DEF CompletionsTracked
  <2>2. CASE r # last_id
    BY <2>2, <1>1, <1>2, <1>3, <1>4 DEF Accounted
  <2> QED
    BY <2>1, <2>2
<1>8. CompletionsTracked'
  BY <1>1, <1>2, <1>3, <1>4, <1>6 DEF CompletionsTracked
<1>9. TableAccepted'
  <2>1. last_id \notin accepted /\ accepted \subseteq Requests
    BY <1>1, <1>3 DEF TypeOK
  <2> QED
    BY <2>1, <1>1, <1>2, <1>3, <1>6 DEF TableAccepted
<1> QED
  BY <1>5, <1>7, <1>8, <1>9

(* Refusing a request: whatever entry it replaced is gone as well. *)
LEMMA SubmitRefusedHeld ==
  ASSUME TypeOK, Held, NEW code \in Codes, SubmitRefused(code)
  PROVE  Held'
<1> DEFINE S == Lookup(Serial(last_id))
<1> USE DEF Held
<1>1. S \subseteq requests /\ S \in SUBSET Requests /\ Allocated \subseteq Requests
      /\ requests \subseteq Allocated
  <2>1. Allocated \subseteq Requests
    BY MaxRequestsAssumption DEF TypeOK, Allocated, Requests
  <2>2. S \subseteq requests /\ requests \subseteq Allocated
    BY DEF Lookup, TypeOK
  <2> QED
    BY <2>1, <2>2
<1>2. /\ request_alloc(last_id, code) /\ request_destroy(S \cup {last_id}, {})
      /\ requests' = requests \ S
      /\ UNCHANGED <<accepted, completed, cancelled, dispatching>>
  BY DEF SubmitRefused
<1> HIDE DEF S
<1>3. /\ last_id \in Requests /\ last_id \notin Allocated
      /\ Allocated' = Allocated \cup {last_id}
      /\ response_code'[last_id] = code
      /\ \A r \in Requests \ {last_id} : response_code'[r] = response_code[r]
  BY <1>2, NextPosition
<1>4. /\ tx' = transactions'
      /\ transactions' = transactions \ (S \cup {last_id})
      /\ \A r \in S \cup {last_id} : destroyed'[r] = destroyed[r] + 1
      /\ \A r \in Requests \ (S \cup {last_id}) : destroyed'[r] = destroyed[r]
  <2>1. S \cup {last_id} \in SUBSET Requests /\ {} \in SUBSET Requests
    BY <1>1, <1>3
  <2> HIDE DEF Held
  <2>2. TransactionsHeld
    BY DEF Held
  <2>3. transactions' = (transactions \ (S \cup {last_id})) \cup {}
    BY <2>1, <2>2, <1>2, DestroyEffect
  <2>4. /\ tx' = transactions'
        /\ \A r \in S \cup {last_id} : destroyed'[r] = destroyed[r] + 1
        /\ \A r \in Requests \ (S \cup {last_id}) : destroyed'[r] = destroyed[r]
    BY <2>1, <2>2, <1>2, DestroyEffect
  <2> QED
    BY <2>3, <2>4
<1>5. TransactionsHeld'
  BY <1>2, <1>4 DEF TransactionsHeld
<1>6. code # SyncCode /\ last_id \notin requests /\ last_id # Nobody
  BY <1>3, CodesAssumption DEF SyncCode, TypeOK, Nobody, Requests
<1>7. Accounted'
  <2> SUFFICES ASSUME NEW r \in Allocated'
               PROVE  IF response_code'[r] = SyncCode
                        THEN r \notin requests' /\ destroyed'[r] = 0
                        ELSE destroyed'[r] = IF r \in requests' THEN 0 ELSE 1
    BY DEF Accounted
  <2>1. CASE r = last_id
    BY <2>1, <1>2, <1>3, <1>4, <1>6 DEF CompletionsTracked
  <2>2. CASE r # last_id
    BY <2>2, <1>1, <1>2, <1>3, <1>4 DEF Accounted
  <2> QED
    BY <2>1, <2>2
<1>8. CompletionsTracked'
  BY <1>1, <1>2, <1>3, <1>4, <1>6 DEF CompletionsTracked
<1>9. TableAccepted'
  <2>1. last_id \notin accepted /\ accepted \subseteq Requests
    BY <1>1, <1>3 DEF TypeOK
  <2> QED
    BY <2>1, <1>1, <1>2, <1>3 DEF TableAccepted
<1> QED
  BY <1>5, <1>7, <1>8, <1>9

(* A synchronous request stays outside the table. *)
LEMMA SubmitSyncHeld ==
  ASSUME TypeOK, Held, SubmitSync
  PROVE  Held'
<1> USE DEF Held
<1>1. Allocated \subseteq Requests
  BY MaxRequestsAssumption DEF TypeOK, Allocated, Requests
<1>2. /\ request_alloc(last_id, SyncCode)
      /\ UNCHANGED <<requests, tx, transactions, destroyed, accepted,
                     cancelled, dispatching>>
      /\ \/ completed' = [completed EXCEPT ![last_id] = @ + 1]
         \/ UNCHANGED completed
  BY DEF SubmitSync
<1>3. /\ last_id \in Requests /\ last_id \notin Allocated
      /\ Allocated' = Allocated \cup {last_id}
      /\ response_code'[last_id] = SyncCode
      /\ \A r \in Requests \ {last_id} : response_code'[r] = response_code[r]
  <2>1. SyncCode \in Codes \cup {SyncCode}
    OBVIOUS
  <2> QED
    BY <2>1, <1>2, NextPosition
<1>4. TransactionsHeld'
  BY <1>2 DEF TransactionsHeld
<1>5. Accounted'
  BY <1>1, <1>2, <1>3 DEF Accounted, CompletionsTracked, TypeOK
<1>6. /\ completed'[last_id] \in {0, 1}
      /\ \A r \in Requests \ {last_id} : completed'[r] = completed[r]
  BY <1>2, <1>3 DEF CompletionsTracked, TypeOK
<1>7. last_id \notin requests /\ last_id \notin accepted /\ last_id # dispatching
      /\ requests \subseteq Requests /\ accepted \subseteq Requests
      /\ dispatching \in Requests \cup {Nobody}
  BY <1>1, <1>3 DEF TypeOK, Nobody, Requests
<1>8. CompletionsTracked'
  BY <1>1, <1>2, <1>3, <1>6, <1>7 DEF CompletionsTracked
<1>9. TableAccepted'
  BY <1>2, <1>3, <1>7 DEF TableAccepted
<1> QED
  BY <1>4, <1>5, <1>8, <1>9

(* Removing the entry of a serial, by cancel or after a response. *)
LEMMA RemoveHeld ==
  ASSUME TypeOK, Held, NEW STATE serial, table_remove(serial),
         UNCHANGED <<last_id, response_code, completed, accepted>>
  PROVE  /\ TransactionsHeld' /\ Accounted'
         /\ requests' = requests \ Lookup(serial)
         /\ \A r \in Requests \ Allocated : destroyed'[r] = 0
         /\ Lookup(serial) \subseteq requests
<1> USE DEF Held
<1>1. Lookup(serial) \subseteq requests /\ requests \subseteq Allocated
      /\ Allocated \subseteq Requests /\ Allocated' = Allocated
  BY MaxRequestsAssumption DEF TypeOK, Lookup, Allocated, Requests
<1>2. /\ requests' = requests \ Lookup(serial)
      /\ tx' = transactions'
      /\ transactions' = transactions \ Lookup(serial)
      /\ \A r \in Lookup(serial) : destroyed'[r] = destroyed[r] + 1
      /\ \A r \in Requests \ Lookup(serial) : destroyed'[r] = destroyed[r]
  BY RemoveEffect
<1>3. TransactionsHeld'
  BY <1>2 DEF TransactionsHeld
<1>4. Accounted'
  BY <1>1, <1>2 DEF Accounted
<1>5. \A r \in Requests \ Allocated : destroyed'[r] = 0
  BY <1>1, <1>2 DEF CompletionsTracked
<1> QED
  BY <1>1, <1>2, <1>3, <1>4, <1>5

(* Every step keeps the rest of the invariant. *)
LEMMA StepHeld == IInv /\ [Next]_vars => Held'
<1> SUFFICES ASSUME IInv, [Next]_vars PROVE Held'
  OBVIOUS
<1>t. TypeOK /\ Held
  BY DEF IInv, Held
<1>1. ASSUME NEW code \in Codes, SubmitAccepted(code) PROVE Held'
  BY <1>1, <1>t, SubmitAcceptedHeld
<1>2. ASSUME NEW code \in Codes, SubmitRefused(code) PROVE Held'
  BY <1>2, <1>t, SubmitRefusedHeld
<1>3. CASE SubmitSync
  BY <1>3, <1>t, SubmitSyncHeld
<1>4. ASSUME NEW r \in Requests, request_sent(r) PROVE Held'
  BY <1>4, <1>t DEF request_sent, Held, TransactionsHeld, Accounted,
                    CompletionsTracked, TableAccepted, Allocated
<1>5. ASSUME NEW r \in Requests, cancel(r) PROVE Held'
  <2>1. /\ table_remove(Serial(r))
        /\ cancelled' = cancelled \cup Lookup(Serial(r))
        /\ UNCHANGED <<last_id, response_code, completed, accepted, dispatching>>
    BY <1>5 DEF cancel
  <2>2. /\ TransactionsHeld' /\ Accounted'
        /\ requests' = requests \ Lookup(Serial(r))
        /\ \A q \in Requests \ Allocated : destroyed'[q] = 0
    BY <2>1, <1>t, RemoveHeld
  <2>3. CompletionsTracked'
    BY <2>1, <2>2, <1>t DEF Held, CompletionsTracked, Allocated
  <2>4. TableAccepted'
    BY <2>1, <2>2, <1>t DEF Held, TableAccepted
  <2> QED
    BY <2>2, <2>3, <2>4 DEF Held
<1>6. ASSUME NEW m \in answers, NEW r \in requests, response(m, r) PROVE Held'
  <2>1. /\ dispatching = Nobody /\ dispatching' = r
        /\ completed' = [completed EXCEPT ![r] = @ + 1]
        /\ UNCHANGED <<last_id, requests, response_code, tx, transactions,
                       destroyed, accepted, cancelled>>
    BY <1>6 DEF response, consume
  <2>2. r \in Requests /\ r \in Allocated /\ r # Nobody
        /\ requests \subseteq Requests
    BY <1>t, MaxRequestsAssumption DEF TypeOK, Allocated, Requests, Nobody
  <2>3. completed[r] = 0
    BY <2>1, <2>2, <1>t DEF Held, CompletionsTracked
  <2>4. completed'[r] = 1 /\ \A q \in Requests \ {r} : completed'[q] = completed[q]
    BY <2>1, <2>2, <2>3, <1>t DEF TypeOK
  <2>5. CompletionsTracked'
    <3>1. \A q \in Requests : completed'[q] \in {0, 1}
      BY <2>4, <1>t DEF Held, CompletionsTracked
    <3>2. \A q \in requests' : completed'[q] = 1 => q = dispatching'
      <4>1. Nobody \notin Requests
        BY MaxRequestsAssumption DEF Nobody, Requests
      <4>2. \A q \in requests : completed[q] = 1 => q = Nobody
        BY <2>1, <1>t DEF Held, CompletionsTracked
      <4> QED
        BY <4>1, <4>2, <2>1, <2>2, <2>4
    <3>3. \A q \in Requests \ Allocated : completed'[q] = 0 /\ destroyed'[q] = 0
      BY <2>1, <2>2, <2>4, <1>t DEF Held, CompletionsTracked
    <3> QED
      BY <3>1, <3>2, <3>3, <2>1, <2>4 DEF CompletionsTracked, Allocated
  <2>6. TransactionsHeld' /\ Accounted' /\ TableAccepted'
    BY <2>1, <1>t DEF Held, TransactionsHeld, Accounted, TableAccepted, Allocated
  <2> QED
    BY <2>5, <2>6 DEF Held
<1>7. ASSUME NEW m \in answers, response_unexpected(m) PROVE Held'
  <2>1. UNCHANGED <<last_id, requests, response_code, tx, transactions,
                    completed, destroyed, accepted, cancelled, dispatching>>
    BY <1>7 DEF response_unexpected
  <2> QED
    BY <2>1, <1>t, HeldUnchanged
<1>8. CASE response_return
  <2>1. /\ table_remove(Serial(dispatching)) /\ dispatching' = Nobody
        /\ UNCHANGED <<last_id, response_code, completed, accepted, cancelled>>
    BY <1>8 DEF response_return
  <2>2. /\ TransactionsHeld' /\ Accounted'
        /\ requests' = requests \ Lookup(Serial(dispatching))
        /\ \A q \in Requests \ Allocated : destroyed'[q] = 0
    BY <2>1, <1>t, RemoveHeld
  <2>3. dispatching \notin requests'
    BY <2>2 DEF Lookup
  <2>4. CompletionsTracked'
    BY <2>1, <2>2, <2>3, <1>t DEF Held, CompletionsTracked, Allocated
  <2>5. TableAccepted'
    BY <2>1, <2>2, <1>t DEF Held, TableAccepted
  <2> QED
    BY <2>2, <2>4, <2>5 DEF Held
<1>9. ASSUME NEW r \in Requests, ServiceAnswers(r) \/ ServiceConfuses(r)
      PROVE  Held'
  <2>1. UNCHANGED <<last_id, requests, response_code, tx, transactions,
                    completed, destroyed, accepted, cancelled, dispatching>>
    BY <1>9 DEF ServiceAnswers, ServiceConfuses, SendAnswer
  <2> QED
    BY <2>1, <1>t, HeldUnchanged
<1>10. CASE ServiceDies
  <2>1. UNCHANGED <<last_id, requests, response_code, tx, transactions,
                    completed, destroyed, accepted, cancelled, dispatching>>
    BY <1>10 DEF ServiceDies
  <2> QED
    BY <2>1, <1>t, HeldUnchanged
<1>11. CASE UNCHANGED vars
  <2>1. UNCHANGED <<last_id, requests, response_code, tx, transactions,
                    completed, destroyed, accepted, cancelled, dispatching>>
    BY <1>11 DEF vars
  <2> QED
    BY <2>1, <1>t, HeldUnchanged
<1> QED
  BY <1>1, <1>2, <1>3, <1>4, <1>5, <1>6, <1>7, <1>8, <1>9, <1>10, <1>11
     DEF Next

------------------------------------------------------------------------------

(* The inductive invariant holds throughout. *)
THEOREM Invariance == Spec => []IInv
<1>1. Init => IInv
  BY InitIInv
<1>2. IInv /\ [Next]_vars => IInv'
  BY StepType, StepHeld DEF IInv, Held
<1> QED
  BY <1>1, <1>2, PTL DEF Spec

(* Every variable of the request layer keeps its type. *)
THEOREM TypeCorrect == Spec => []TypeOK
<1>1. IInv => TypeOK
  BY DEF IInv
<1> QED
  BY <1>1, Invariance, PTL

(* Every asynchronous request object is in the table or destroyed exactly
   once, with any number of requests and wrapping serials. *)
THEOREM AccountedAlways == Spec => []Accounted
<1>1. IInv => Accounted
  BY DEF IInv
<1> QED
  BY <1>1, Invariance, PTL

(* request_sent only ever writes to a live request object. *)
THEOREM SentCallbackSafe == Spec => []SentCallbackLive
<1>1. IInv => SentCallbackLive
  <2> SUFFICES ASSUME IInv, NEW r \in transactions PROVE Live(r)
    BY DEF SentCallbackLive
  <2>1. r \in requests
    BY DEF IInv, TransactionsHeld
  <2>2. r \in Allocated
    BY <2>1 DEF IInv, TypeOK
  <2>3. destroyed[r] = 0
    BY <2>1, <2>2 DEF IInv, Accounted
  <2> QED
    BY <2>2, <2>3 DEF Live
<1> QED
  BY <1>1, Invariance, PTL

(* No completion callback runs twice, with any number of requests, repeated
   responses and reentrant callbacks. *)
THEOREM CompletedOnce == Spec => []CompletedAtMostOnce
<1>1. IInv => CompletedAtMostOnce
  BY DEF IInv, CompletionsTracked, CompletedAtMostOnce
<1> QED
  BY <1>1, Invariance, PTL

(* The completion callback of a cancelled request does not start. *)
THEOREM CancelledSilent == Spec => CancelledIsSilent
<1>1. IInv /\ [Next]_vars => \A r \in cancelled : completed'[r] = completed[r]
  <2> SUFFICES ASSUME IInv, [Next]_vars, NEW r \in cancelled
               PROVE  completed'[r] = completed[r]
    OBVIOUS
  <2>t. /\ r \in Requests /\ r \notin requests /\ r # last_id
        /\ completed \in [Requests -> Nat]
    BY MaxRequestsAssumption DEF IInv, TypeOK, TableAccepted, Allocated, Requests
  <2>1. ASSUME NEW code \in Codes,
               SubmitAccepted(code) \/ SubmitRefused(code)
        PROVE  completed' = completed
    BY <2>1 DEF SubmitAccepted, SubmitRefused
  <2>2. CASE SubmitSync
    BY <2>2, <2>t DEF SubmitSync
  <2>3. ASSUME NEW q \in Requests, request_sent(q) \/ cancel(q)
        PROVE  completed' = completed
    BY <2>3 DEF request_sent, cancel
  <2>4. ASSUME NEW m \in answers, NEW q \in requests, response(m, q)
        PROVE  completed'[r] = completed[r]
    BY <2>4, <2>t DEF response
  <2>5. ASSUME NEW m \in answers, response_unexpected(m)
        PROVE  completed' = completed
    BY <2>5 DEF response_unexpected
  <2>6. CASE response_return \/ ServiceDies \/ UNCHANGED vars
    BY <2>6 DEF response_return, ServiceDies, vars
  <2>7. ASSUME NEW q \in Requests, ServiceAnswers(q) \/ ServiceConfuses(q)
        PROVE  completed' = completed
    BY <2>7 DEF ServiceAnswers, ServiceConfuses, SendAnswer
  <2> QED
    BY <2>1, <2>2, <2>3, <2>4, <2>5, <2>6, <2>7 DEF Next
<1> QED
  BY <1>1, Invariance, PTL DEF Spec, CancelledIsSilent
------------------------------------------------------------------------------
(* While serials do not wrap, the table is a map from requests to themselves
   and no submission replaces an entry. *)

(* A serial is the position of its request. *)
LEMMA SerialIsPosition ==
  ASSUME NoWrap, NEW r \in Requests
  PROVE  Serial(r) = r /\ Serial(r) # 0
  BY MaxRequestsAssumption, IdModAssumption DEF NoWrap, Requests, Serial

(* A lookup finds the request that has the serial, if it is pending. *)
LEMMA LookupOwn ==
  ASSUME NoWrap, TypeOK, NEW r \in Requests
  PROVE  Lookup(Serial(r)) = requests \cap {r}
<1>1. requests \subseteq Requests
  BY MaxRequestsAssumption DEF TypeOK, Allocated, Requests
<1>2. \A q \in requests : Serial(q) = q
  BY <1>1, SerialIsPosition
<1>3. Serial(r) = r
  BY SerialIsPosition
<1> QED
  BY <1>2, <1>3 DEF Lookup

(* The entry a removal takes out is the request's own. *)
LEMMA RemoveOwn ==
  ASSUME NoWrap, IInv, NEW STATE r, r \in Requests, table_remove(Serial(r))
  PROVE  /\ requests' = requests \ {r}
         /\ destroyed' = IF r \in requests
                            THEN [destroyed EXCEPT ![r] = @ + 1]
                            ELSE destroyed
<1>1. TypeOK /\ destroyed \in [Requests -> Nat]
  BY DEF IInv, TypeOK
<1>2. Lookup(Serial(r)) = requests \cap {r}
  BY <1>1, LookupOwn
<1>3. destroyed' = [q \in Requests |->
                      IF q \in requests \cap {r} THEN destroyed[q] + 1
                                                ELSE destroyed[q]]
  BY <1>2 DEF table_remove, request_destroy
<1>4. requests' = requests \ {r}
  BY <1>2 DEF table_remove
<1> QED
  BY <1>1, <1>3, <1>4

(* A submission replaces nothing. *)
LEMMA NothingReplaced ==
  ASSUME NoWrap, IInv, last_id \in Requests
  PROVE  Lookup(Serial(last_id)) = {}
<1>1. TypeOK /\ last_id \notin requests
  BY DEF IInv, TypeOK, Allocated
<1> QED
  BY <1>1, LookupOwn

(* Every step of the layer is a step of its contract, or changes nothing the
   contract speaks of. *)
LEMMA StepRefines ==
  ASSUME NoWrap, IInv, [Next]_vars
  PROVE  [Contract!Next]_(Contract!vars)
<1> USE DEF Contract!Next, Contract!vars
<1>t. /\ TypeOK /\ destroyed \in [Requests -> Nat]
      /\ Allocated \subseteq Requests /\ requests \subseteq Allocated
  BY MaxRequestsAssumption DEF IInv, TypeOK, Allocated, Requests
<1>1. ASSUME NEW code \in Codes, SubmitAccepted(code)
      PROVE  Contract!Accept(last_id) /\ last_id \in Requests
  <2>1. /\ request_alloc(last_id, code)
        /\ requests' = (requests \ Lookup(Serial(last_id))) \cup {last_id}
        /\ request_destroy(Lookup(Serial(last_id)), {last_id})
        /\ UNCHANGED completed
    BY <1>1 DEF SubmitAccepted
  <2>2. /\ last_id \in Requests /\ last_id \notin Allocated
        /\ Allocated' = Allocated \cup {last_id}
    BY <2>1, <1>t, NextPosition
  <2>3. Lookup(Serial(last_id)) = {}
    BY <2>2, NothingReplaced
  <2>4. destroyed' = destroyed
    BY <2>1, <2>3, <1>t DEF request_destroy
  <2> QED
    BY <2>1, <2>2, <2>3, <2>4 DEF Contract!Accept
<1>2. ASSUME NEW code \in Codes, SubmitRefused(code)
      PROVE  Contract!Refuse(last_id) /\ last_id \in Requests
  <2>1. /\ request_alloc(last_id, code)
        /\ requests' = requests \ Lookup(Serial(last_id))
        /\ request_destroy(Lookup(Serial(last_id)) \cup {last_id}, {})
        /\ UNCHANGED completed
    BY <1>2 DEF SubmitRefused
  <2>2. /\ last_id \in Requests /\ last_id \notin Allocated
        /\ Allocated' = Allocated \cup {last_id}
    BY <2>1, <1>t, NextPosition
  <2>3. Lookup(Serial(last_id)) = {}
    BY <2>2, NothingReplaced
  <2>4. destroyed' = [destroyed EXCEPT ![last_id] = @ + 1]
    BY <2>1, <2>2, <2>3, <1>t DEF request_destroy
  <2> QED
    BY <2>1, <2>2, <2>3, <2>4 DEF Contract!Refuse
<1>3. ASSUME SubmitSync
      PROVE  Contract!CallSync(last_id) /\ last_id \in Requests
  <2>1. /\ request_alloc(last_id, SyncCode)
        /\ UNCHANGED <<requests, destroyed>>
        /\ \/ completed' = [completed EXCEPT ![last_id] = @ + 1]
           \/ UNCHANGED completed
    BY <1>3 DEF SubmitSync
  <2>2. SyncCode \in Codes \cup {SyncCode}
    OBVIOUS
  <2>3. /\ last_id \in Requests /\ last_id \notin Allocated
        /\ Allocated' = Allocated \cup {last_id}
    BY <2>1, <2>2, <1>t, NextPosition
  <2> QED
    BY <2>1, <2>3 DEF Contract!CallSync
<1>4. ASSUME NEW r \in Requests, cancel(r)
      PROVE  Contract!Release(r) \/ UNCHANGED Contract!vars
  <2>1. /\ requests' = requests \ {r}
        /\ destroyed' = IF r \in requests THEN [destroyed EXCEPT ![r] = @ + 1]
                                          ELSE destroyed
    BY <1>4, RemoveOwn DEF cancel
  <2>2. UNCHANGED <<Allocated, completed>>
    BY <1>4 DEF cancel, Allocated
  <2>3. r \in requests => destroyed[r] = 0
    BY <1>t DEF IInv, Accounted
  <2> QED
    BY <2>1, <2>2, <2>3 DEF Contract!Release
<1>5. ASSUME NEW m \in answers, NEW r \in requests, response(m, r)
      PROVE  Contract!Complete(r) /\ r \in Requests
  <2>1. /\ dispatching = Nobody
        /\ completed' = [completed EXCEPT ![r] = @ + 1]
        /\ UNCHANGED <<last_id, requests, destroyed>>
    BY <1>5 DEF response, consume
  <2>2. r \in Requests /\ r # Nobody
    BY <1>t, MaxRequestsAssumption DEF Requests, Nobody
  <2>3. completed[r] = 0
    BY <2>1, <2>2 DEF IInv, CompletionsTracked
  <2> QED
    BY <2>1, <2>2, <2>3 DEF Contract!Complete, Allocated
<1>6. ASSUME response_return
      PROVE  \/ Contract!Release(dispatching) /\ dispatching \in Requests
             \/ UNCHANGED Contract!vars
  <2>1. dispatching \in Requests /\ table_remove(Serial(dispatching))
    BY <1>6, <1>t DEF response_return, TypeOK
  <2>2. /\ requests' = requests \ {dispatching}
        /\ destroyed' = IF dispatching \in requests
                           THEN [destroyed EXCEPT ![dispatching] = @ + 1]
                           ELSE destroyed
    BY <2>1, RemoveOwn
  <2>3. UNCHANGED <<Allocated, completed>>
    BY <1>6 DEF response_return, Allocated
  <2>4. dispatching \in requests => destroyed[dispatching] = 0
    BY <1>t DEF IInv, Accounted
  <2> QED
    BY <2>1, <2>2, <2>3, <2>4 DEF Contract!Release
<1>7. ASSUME \/ \E r \in Requests : request_sent(r)
             \/ \E m \in answers : response_unexpected(m)
             \/ \E r \in Requests : ServiceAnswers(r) \/ ServiceConfuses(r)
             \/ ServiceDies
             \/ UNCHANGED vars
      PROVE  UNCHANGED Contract!vars
  BY <1>7 DEF request_sent, response_unexpected, ServiceAnswers,
              ServiceConfuses, SendAnswer, ServiceDies, vars, Allocated
<1> QED
  BY <1>1, <1>2, <1>3, <1>4, <1>5, <1>6, <1>7, <1>t DEF Next

(* While serials do not wrap, the request layer implements its contract. *)
THEOREM Refinement == NoWrap => (Spec => ContractSpec)
<1> SUFFICES ASSUME NoWrap PROVE Spec => ContractSpec
  OBVIOUS
<1>1. Init => Contract!Init
  BY DEF Init, Contract!Init, Allocated
<1>2. IInv /\ [Next]_vars => [Contract!Next]_(Contract!vars)
  BY StepRefines
<1> QED
  BY <1>1, <1>2, Invariance, PTL DEF Spec, ContractSpec, Contract!Spec

(* While serials do not wrap, a request that a step destroys without its
   owner having cancelled it has been completed. *)
LEMMA StepNoSilentRelease ==
  ASSUME NoWrap, IInv, NoSilentRelease, [Next]_vars
  PROVE  NoSilentRelease'
<1> USE DEF NoSilentRelease
<1>t. /\ TypeOK /\ Allocated \subseteq Requests
      /\ accepted \subseteq Allocated /\ requests \subseteq Allocated
      /\ destroyed \in [Requests -> Nat] /\ completed \in [Requests -> Nat]
  BY MaxRequestsAssumption DEF IInv, TypeOK, Allocated, Requests
<1>1. ASSUME NEW code \in Codes,
             SubmitAccepted(code) \/ SubmitRefused(code)
      PROVE  NoSilentRelease'
  <2>1. /\ request_alloc(last_id, code)
        /\ accepted' \subseteq accepted \cup {last_id}
        /\ cancelled' = cancelled /\ completed' = completed
    BY <1>1 DEF SubmitAccepted, SubmitRefused
  <2>2. last_id \in Requests /\ last_id \notin Allocated
    BY <2>1, <1>t, NextPosition
  <2>3. Lookup(Serial(last_id)) = {}
    BY <2>2, NothingReplaced
  <2>4. \A r \in Requests \ {last_id} : destroyed'[r] = destroyed[r]
    BY <1>1, <2>3, <1>t DEF SubmitAccepted, SubmitRefused, request_destroy
  <2>5. last_id \in accepted' => destroyed'[last_id] = destroyed[last_id]
    <3>1. CASE SubmitAccepted(code)
      BY <3>1, <2>2, <2>3 DEF SubmitAccepted, request_destroy
    <3>2. CASE SubmitRefused(code)
      BY <3>2, <2>2, <1>t DEF SubmitRefused
    <3> QED
      BY <1>1, <3>1, <3>2
  <2>6. destroyed[last_id] = 0
    BY <2>2 DEF IInv, CompletionsTracked
  <2> QED
    BY <2>1, <2>2, <2>4, <2>5, <2>6, <1>t
<1>2. CASE SubmitSync
  <2>1. /\ request_alloc(last_id, SyncCode)
        /\ UNCHANGED <<destroyed, accepted, cancelled>>
        /\ \/ completed' = [completed EXCEPT ![last_id] = @ + 1]
           \/ UNCHANGED completed
    BY <1>2 DEF SubmitSync
  <2>2. SyncCode \in Codes \cup {SyncCode}
    OBVIOUS
  <2>3. last_id \notin Allocated
    BY <2>1, <2>2, <1>t, NextPosition
  <2> QED
    BY <2>1, <2>3, <1>t
<1>3. ASSUME NEW r \in Requests, cancel(r) PROVE NoSilentRelease'
  <2>1. /\ requests' = requests \ {r}
        /\ destroyed' = IF r \in requests THEN [destroyed EXCEPT ![r] = @ + 1]
                                          ELSE destroyed
    BY <1>3, RemoveOwn DEF cancel
  <2>2. cancelled' = cancelled \cup (requests \cap {r})
        /\ UNCHANGED <<completed, accepted>>
    BY <1>3, <1>t, LookupOwn DEF cancel
  <2> QED
    BY <2>1, <2>2, <1>t
<1>4. ASSUME NEW m \in answers, NEW r \in requests, response(m, r)
      PROVE  NoSilentRelease'
  <2>1. /\ dispatching = Nobody
        /\ completed' = [completed EXCEPT ![r] = @ + 1]
        /\ UNCHANGED <<destroyed, accepted, cancelled>>
    BY <1>4 DEF response, consume
  <2>2. destroyed[r] = 0
    BY <1>t DEF IInv, Accounted
  <2> QED
    BY <2>1, <2>2, <1>t
<1>5. CASE response_return
  <2>1. /\ dispatching \in Requests /\ completed[dispatching] = 1
        /\ table_remove(Serial(dispatching))
    BY <1>5, <1>t DEF response_return, TypeOK, IInv, CompletionsTracked
  <2>2. destroyed' = IF dispatching \in requests
                       THEN [destroyed EXCEPT ![dispatching] = @ + 1]
                       ELSE destroyed
    BY <2>1, RemoveOwn
  <2>3. UNCHANGED <<completed, accepted, cancelled>>
    BY <1>5 DEF response_return
  <2> QED
    BY <2>1, <2>2, <2>3, <1>t
<1>6. ASSUME \/ \E r \in Requests : request_sent(r)
             \/ \E m \in answers : response_unexpected(m)
             \/ \E r \in Requests : ServiceAnswers(r) \/ ServiceConfuses(r)
             \/ ServiceDies
             \/ UNCHANGED vars
      PROVE  NoSilentRelease'
  BY <1>6 DEF request_sent, response_unexpected, ServiceAnswers,
              ServiceConfuses, SendAnswer, ServiceDies, vars
<1> QED
  BY <1>1, <1>2, <1>3, <1>4, <1>5, <1>6 DEF Next

(* While serials do not wrap, no request the binder took is destroyed unless
   it was completed or cancelled. *)
THEOREM NeverSilentlyReleased == NoWrap => (Spec => []NoSilentRelease)
<1> SUFFICES ASSUME NoWrap PROVE Spec => []NoSilentRelease
  OBVIOUS
<1>1. Init => NoSilentRelease
  BY DEF Init, NoSilentRelease
<1>2. IInv /\ NoSilentRelease /\ [Next]_vars => NoSilentRelease'
  BY StepNoSilentRelease
<1> QED
  BY <1>1, <1>2, Invariance, PTL DEF Spec

(* While serials do not wrap, a request is completed only by a response the
   service sent about it, with the code it waits for. *)
THEOREM OwnAnswer == NoWrap => (Spec => CompletedByOwnAnswer)
<1> SUFFICES ASSUME NoWrap PROVE Spec => CompletedByOwnAnswer
  OBVIOUS
<1> DEFINE Own(r) == [about |-> r, code |-> response_code[r]]
<1>1. ASSUME IInv, [Next]_vars, NEW r \in accepted,
             completed'[r] # completed[r]
      PROVE  Own(r) \in answers
  <2>t. /\ TypeOK /\ r \in Requests /\ r # last_id
        /\ completed \in [Requests -> Nat]
        /\ requests \subseteq Requests /\ answers \subseteq Answers
    BY <1>1, MaxRequestsAssumption DEF IInv, TypeOK, Allocated, Requests
  <2>1. ~ SubmitSync
    BY <1>1, <2>t DEF SubmitSync
  <2>2. PICK m \in answers, q \in requests : response(m, q)
    BY <1>1, <2>1 DEF Next, SubmitAccepted, SubmitRefused, request_sent, cancel,
       response_unexpected, response_return, ServiceAnswers, ServiceConfuses,
       SendAnswer, ServiceDies, vars
  <2>3. q = r
    BY <1>1, <2>2, <2>t DEF response
  <2>4. /\ m \in Answers /\ r \in Lookup(Serial(m.about))
        /\ m.code = response_code[r]
    BY <2>2, <2>3, <2>t DEF response, Matches
  <2>5. m.about \in Requests /\ m = [about |-> m.about, code |-> m.code]
    BY <2>4 DEF Answers
  <2>6. m.about = r
    BY <2>4, <2>5, <2>t, LookupOwn
  <2> QED
    BY <2>2, <2>4, <2>5, <2>6
<1>2. IInv /\ [Next]_vars =>
        \A r \in accepted : completed'[r] # completed[r] => Own(r) \in answers
  BY <1>1
<1> QED
  BY <1>2, Invariance, PTL DEF Spec, CompletedByOwnAnswer
==============================================================================
