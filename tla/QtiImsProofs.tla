----------------------------- MODULE QtiImsProofs -----------------------------
(***************************************************************************)
(* Proofs about the registration interface, for any number of requests,    *)
(* operations and changes of state, and any order of answers and           *)
(* indications.                                                            *)
(***************************************************************************)
EXTENDS QtiIms, FiniteSetTheorems, SequenceTheorems, TLAPS

(* Operations are numbered in the order ofono asks for them; between the two
   halves of one there is room for its request. *)
Numbered ==
    /\ started = 1..Cardinality(started)
    /\ control = "set" => started # {} /\ Cardinality(known) < MaxRequests

(* A pending request is a check, or the request of an operation that is past
   its first half; no two are of the same operation. *)
Owned ==
    /\ \A r \in outstanding :
          \/ job[r].kind = "get" /\ job[r].owner = None
          \/ /\ job[r].kind = "set" /\ job[r].owner \in started
             /\ ~ Begun(job[r].owner)
    /\ \A r, s \in outstanding :
          job[r].owner = job[s].owner /\ job[r].owner # None => r = s

(* An operation that has been completed has no request that still could be. *)
CompletedPast ==
    \A o \in Ops :
        op_completed[o] > 0 =>
            /\ o \in started /\ ~ Begun(o)
            /\ \A r \in outstanding : job[r].owner = o => completions[r] > 0

(* What was not asked for has not been destroyed; before its second half an
   operation has no id. *)
NotStarted ==
    \A o \in Ops : /\ o \notin started => op_destroyed[o] = 0
                   /\ o \notin started \/ Begun(o) => op_id[o] = None

(* A response on its way is the only one for its request, which is pending and
   not completed; it has a state only if it answers a check. *)
Readable(i) == responses[i].state # FAILED_TO_READ
ResponsesAwaited ==
    /\ \A i \in DOMAIN responses :
          /\ responses[i].request \in outstanding
          /\ completions[responses[i].request] = 0
          /\ Readable(i) => job[responses[i].request].kind = "get"
    /\ \A i, j \in DOMAIN responses :
          responses[i].request = responses[j].request => i = j
    /\ dispatching # None => completions[dispatching] > 0

(* The last report on its way is of the present state.  Once a check has been
   answered since the last change, so is the last readable answer on its way;
   when there are none, the state kept is the present one, unless the report
   of it was dropped. *)
LastReport ==
    indications # <<>> => indications[Len(indications)] = reg_state
LastAnswer ==
    fresh => \A i \in DOMAIN responses :
                 /\ Readable(i)
                 /\ \A j \in DOMAIN responses : j > i => ~ Readable(j)
                 => responses[i].state = reg_state
NothingReadable == \A i \in DOMAIN responses : ~ Readable(i)
KeptIsCurrent ==
    fresh /\ ~ missed /\ indications = <<>> /\ NothingReadable
        => ims_state = ims_state_of(reg_state)
StateTracked == LastReport /\ LastAnswer /\ KeptIsCurrent

IInv ==
    /\ TypeOK /\ Numbered /\ Owned /\ OpAccounted /\ NotStarted
    /\ CompletedPast /\ RefsExact /\ ResponsesAwaited /\ StateTracked

------------------------------------------------------------------------------

(* Requests and operations are finitely many, and are counted one by one. *)
LEMMA Counting ==
  ASSUME TypeOK
  PROVE  /\ Cardinality(known) \in Nat /\ Cardinality(started) \in Nat
         /\ \A x : x \notin known =>
               Cardinality(known \cup {x}) = Cardinality(known) + 1
         /\ \A x : x \notin outstanding =>
               Cardinality(outstanding \cup {x}) = Cardinality(outstanding) + 1
         /\ \A x \in outstanding :
               Cardinality(outstanding \ {x}) = Cardinality(outstanding) - 1
         /\ \A x : x \notin started =>
               Cardinality(started \cup {x}) = Cardinality(started) + 1
         /\ Cardinality(outstanding) \in Nat
<1>1. IsFiniteSet(Requests) /\ IsFiniteSet(Ops)
  BY FS_Interval, BoundsAssumption DEF Requests, Ops
<1>2. /\ IsFiniteSet(known) /\ IsFiniteSet(outstanding) /\ IsFiniteSet(started)
  BY <1>1, FS_Subset DEF TypeOK
<1>3. \A S, x : IsFiniteSet(S) =>
         /\ Cardinality(S) \in Nat
         /\ x \notin S => Cardinality(S \cup {x}) = Cardinality(S) + 1
         /\ x \in S => Cardinality(S \ {x}) = Cardinality(S) - 1
  BY FS_CardinalityType, FS_AddElement, FS_RemoveElement
<1> QED BY <1>2, <1>3

(* The next request, if there is room for it, and the next operation *)
LEMMA Next_Request ==
  ASSUME TypeOK, Cardinality(known) < MaxRequests
  PROVE  next_request \in Requests /\ next_request # None
BY Counting, BoundsAssumption DEF next_request, Requests, None

LEMMA NextOp ==
  ASSUME TypeOK, Numbered, NEW o \in Ops, o = Cardinality(started) + 1
  PROVE  /\ o \notin started /\ o # None
         /\ Cardinality(started \cup {o}) = o
         /\ started \cup {o} = 1..o
<1>1. o \notin started /\ o \in Nat /\ o # None
  BY Counting DEF Numbered, None
<1>2. started \cup {o} = 1..o
  BY <1>1, Counting DEF Numbered
<1> QED BY <1>1, <1>2, Counting

(* What becomes of the next request, whether the binder takes it or not *)
LEMMA Submitted ==
  ASSUME TypeOK, Cardinality(known) < MaxRequests, NEW j \in Jobs,
         \/ Req!Accept(next_request) /\ job' = [job EXCEPT ![next_request] = j]
         \/ Req!Refuse(next_request) /\ UNCHANGED job
  PROVE  /\ next_request \in Requests /\ next_request \notin known
         /\ known' = known \cup {next_request}
         /\ Cardinality(known') = Cardinality(known) + 1
         /\ known' \subseteq Requests /\ outstanding' \subseteq known'
         /\ completions' = completions /\ releases' \in [Requests -> Nat]
         /\ job' \in [Requests -> Jobs]
         /\ \A r \in outstanding : job'[r] = job[r] /\ r # next_request
         /\ responses \in Seq([request : known', code : ErrorCodes,
                               state : Reported \cup {FAILED_TO_READ}])
<1>1. next_request \in Requests
  BY Next_Request
<1>2. known' = known \cup {next_request} /\ next_request \notin known
  BY DEF Req!Accept, Req!Refuse
<1>3. Cardinality(known') = Cardinality(known) + 1
  BY <1>2, Counting
<1>4. /\ outstanding' \subseteq known' /\ known' \subseteq Requests
      /\ completions' = completions
  BY <1>1, <1>2 DEF Req!Accept, Req!Refuse, TypeOK
<1>5. releases' \in [Requests -> Nat]
  <2>1. releases \in [Requests -> Nat]
    BY DEF TypeOK
  <2>2. CASE releases' = releases
    BY <2>1, <2>2
  <2>3. CASE releases' = [releases EXCEPT ![next_request] = @ + 1]
    BY <1>1, <2>1, <2>3
  <2> QED BY <2>2, <2>3 DEF Req!Accept, Req!Refuse
<1>6. job' \in [Requests -> Jobs] /\ \A r \in outstanding : job'[r] = job[r]
  BY <1>1, <1>2 DEF TypeOK
<1>7. responses \in Seq([request : known', code : ErrorCodes,
                         state : Reported \cup {FAILED_TO_READ}])
  <2>1. [request : known, code : ErrorCodes,
         state : Reported \cup {FAILED_TO_READ}]
          \subseteq [request : known', code : ErrorCodes,
                     state : Reported \cup {FAILED_TO_READ}]
    BY <1>2
  <2> QED BY <2>1, SeqMonotonic DEF TypeOK
<1> QED BY <1>1, <1>2, <1>3, <1>4, <1>5, <1>6, <1>7 DEF TypeOK

------------------------------------------------------------------------------

(* Every action keeps the types. *)
LEMMA StepType == TypeOK /\ Numbered /\ Owned /\ [Next]_vars => TypeOK'
<1> SUFFICES ASSUME TypeOK, Numbered, Owned, [Next]_vars PROVE TypeOK'
  OBVIOUS
<1>1. ASSUME NEW o \in Ops, NEW with_complete \in BOOLEAN,
             set_registration(o, with_complete)
      PROVE  TypeOK'
  <2> DEFINE j == [kind |-> "get", owner |-> None]
  <2>1. Cardinality(known) < MaxRequests
    BY <1>1, Counting, BoundsAssumption DEF set_registration
  <2>2. j \in Jobs
    BY DEF Jobs
  <2>3. \/ Req!Accept(next_request) /\ job' = [job EXCEPT ![next_request] = j]
        \/ Req!Refuse(next_request) /\ UNCHANGED job
    BY <1>1 DEF set_registration, get_registrations, accept
  <2>4. refs' \in Int /\ op_destroyed' = op_destroyed
    BY <1>1 DEF set_registration, get_registrations, accept, TypeOK
  <2>5. outstanding \subseteq outstanding'
    BY <2>3 DEF Req!Accept, Req!Refuse
  <2> HIDE DEF j
  <2>6. /\ known' = known \cup {next_request} /\ known' \subseteq Requests
        /\ outstanding' \subseteq known'
        /\ completions' = completions /\ releases' \in [Requests -> Nat]
        /\ job' \in [Requests -> Jobs]
        /\ responses \in Seq([request : known', code : ErrorCodes,
                              state : Reported \cup {FAILED_TO_READ}])
    BY <2>1, <2>2, <2>3, Submitted
  <2>7. /\ started' \subseteq Ops /\ op_complete' \in [Ops -> BOOLEAN]
        /\ op_id' \in [Ops -> known' \cup {None}]
        /\ control' = "set"
    BY <1>1, <2>6 DEF set_registration, TypeOK
  <2>8. UNCHANGED <<ims_state, remote, dispatching, op_completed, op_result,
                    service>>
    BY <1>1 DEF set_registration
  <2> QED BY <2>4, <2>5, <2>6, <2>7, <2>8 DEF service, TypeOK
<1>2. CASE set_reg_state
  <2> DEFINE o == Cardinality(started)
             j == [kind |-> "set", owner |-> o]
  <2>1. Cardinality(known) < MaxRequests /\ o \in Ops
    <3>1. control = "set"
      BY <1>2 DEF set_reg_state
    <3> QED BY <3>1, Counting DEF Numbered, TypeOK
  <2>2. j \in Jobs
    BY <2>1 DEF Jobs
  <2>3. \/ Req!Accept(next_request) /\ job' = [job EXCEPT ![next_request] = j]
        \/ Req!Refuse(next_request) /\ UNCHANGED job
    BY <1>2 DEF set_reg_state, submit_set, accept
  <2> HIDE DEF o
  <2>4. /\ refs' \in Int /\ op_destroyed' \in [Ops -> Nat]
        /\ op_id' = op_id \/ op_id' = [op_id EXCEPT ![o] = next_request]
    <3>1. refs \in Int /\ op_destroyed \in [Ops -> Nat]
      BY DEF TypeOK
    <3>2. \/ /\ refs' = refs + 1 /\ op_destroyed' = op_destroyed
             /\ op_id' = [op_id EXCEPT ![o] = next_request]
          \/ /\ refs' \in {refs - 1, refs} /\ op_id' = op_id
             /\ op_destroyed' = [op_destroyed EXCEPT ![o] = @ + 1]
      BY <1>2 DEF set_reg_state, submit_set, accept, o
    <3> QED BY <2>1, <3>1, <3>2
  <2>5. outstanding \subseteq outstanding'
    BY <2>3 DEF Req!Accept, Req!Refuse
  <2> HIDE DEF j
  <2>6. /\ known' = known \cup {next_request} /\ known' \subseteq Requests
        /\ outstanding' \subseteq known'
        /\ completions' = completions /\ releases' \in [Requests -> Nat]
        /\ job' \in [Requests -> Jobs]
        /\ responses \in Seq([request : known', code : ErrorCodes,
                              state : Reported \cup {FAILED_TO_READ}])
    BY <2>1, <2>2, <2>3, Submitted
  <2>7. op_id' \in [Ops -> known' \cup {None}]
    BY <2>1, <2>4, <2>6 DEF TypeOK
  <2>8. /\ control' \in {"loop", "ofono"}
        /\ UNCHANGED <<ims_state, remote, dispatching, op_complete,
                       op_completed, op_result, started, service>>
    BY <1>2 DEF set_reg_state
  <2> QED BY <2>4, <2>5, <2>6, <2>7, <2>8 DEF service, TypeOK
<1>3. ASSUME NEW o \in Ops, cancel(o) PROVE TypeOK'
  BY <1>3 DEF cancel, vars, contract, loop, ops, service, TypeOK
<1>4. CASE handle_response
  <2> DEFINE m == Head(responses)
  <2>1. /\ m.request \in outstanding /\ m.code \in ErrorCodes
        /\ m.state \in Reported \cup {FAILED_TO_READ}
    <3>1. responses # <<>> /\ m.request \in outstanding
      BY <1>4 DEF handle_response, Req!Complete
    <3>2. m \in [request : known, code : ErrorCodes,
                 state : Reported \cup {FAILED_TO_READ}]
      BY <3>1, HeadTailProperties DEF TypeOK
    <3> QED BY <3>1, <3>2
  <2>2. /\ completions' \in [Requests -> Nat]
        /\ UNCHANGED <<known, outstanding, releases>>
    BY <1>4, <2>1 DEF handle_response, Req!Complete, TypeOK
  <2>3. responses' \in Seq([request : known, code : ErrorCodes,
                            state : Reported \cup {FAILED_TO_READ}])
    BY <1>4, HeadTailProperties DEF handle_response, TypeOK
  <2>4. /\ ims_state' \in ImsStates /\ control' \in {"ofono", "return"}
        /\ op_completed' \in [Ops -> Nat]
        /\ op_result' \in [Ops -> {"none", "OK", "ERROR"}]
    <3> HIDE DEF m
    <3>1. CASE /\ reg_status_response(m.state)
               /\ control' = IF ims_state' # ims_state THEN "ofono" ELSE "return"
               /\ UNCHANGED <<op_completed, op_result>>
      BY <2>1, <3>1, ReportedAssumption DEF reg_status_response,
         reg_status_changed, ims_state_of, RegStates, ImsStates, TypeOK
    <3>2. CASE job[m.request].kind = "set" /\ complete_set(m.request, m.code)
      <4>1. job[m.request].owner \in Ops
        BY <2>1, <3>2 DEF Owned, TypeOK
      <4>2. op_completed \in [Ops -> Nat]
            /\ op_result \in [Ops -> {"none", "OK", "ERROR"}]
            /\ ims_state \in ImsStates
        BY DEF TypeOK
      <4>3. ims_state' = ims_state
        BY <3>2 DEF complete_set
      <4>4. CASE op_complete[job[m.request].owner]
        BY <3>2, <4>1, <4>2, <4>3, <4>4 DEF complete_set, result_of
      <4>5. CASE ~ op_complete[job[m.request].owner]
        BY <3>2, <4>2, <4>3, <4>5 DEF complete_set
      <4> QED BY <4>4, <4>5
    <3> QED BY <1>4, <3>1, <3>2 DEF handle_response, m
  <2>5. dispatching' \in outstanding
    BY <1>4, <2>1 DEF handle_response
  <2>6. UNCHANGED <<refs, remote, job, op_id, op_complete, op_destroyed,
                    started, reg_state, changes, indications, fresh, missed>>
    BY <1>4 DEF handle_response
  <2> HIDE DEF m
  <2> QED BY <2>2, <2>3, <2>4, <2>5, <2>6 DEF TypeOK
<1>5. CASE response_return
  <2>1. /\ refs' \in Int /\ op_destroyed' \in [Ops -> Nat]
        /\ job' \in [Requests -> Jobs]
    <3>1. /\ refs \in Int /\ op_destroyed \in [Ops -> Nat]
          /\ job \in [Requests -> Jobs]
      BY DEF TypeOK
    <3>2. NoJob \in Jobs
      BY DEF NoJob, Jobs
    <3>3. /\ op_destroyed' = [o \in Ops |-> IF o = job[dispatching].owner
                                 THEN op_destroyed[o] + 1 ELSE op_destroyed[o]]
          /\ refs' = refs - 1
          /\ job' = [job EXCEPT ![dispatching] = NoJob]
      BY <1>5 DEF response_return, request_destroy
    <3>4. job' \in [Requests -> Jobs]
      BY <3>1, <3>2, <3>3
    <3>5. op_destroyed' \in [Ops -> Nat]
      BY <3>1, <3>3
    <3> QED BY <3>1, <3>3, <3>4, <3>5
  <2>2. /\ known' = known /\ outstanding' \subseteq outstanding
        /\ completions' = completions /\ releases' \in [Requests -> Nat]
    BY <1>5 DEF response_return, Req!Release, TypeOK
  <2>3. /\ control' = "loop" /\ dispatching' = None
        /\ UNCHANGED <<ims_state, remote, op_id, op_complete, op_completed,
                       op_result, started, service>>
    BY <1>5 DEF response_return
  <2> QED BY <2>1, <2>2, <2>3 DEF service, TypeOK
<1>6. CASE handle_ims_reg_status_report
  <2>1. indications # <<>> /\ indications' = Tail(indications)
    BY <1>6 DEF handle_ims_reg_status_report
  <2>2. Head(indications) \in Reported /\ indications' \in Seq(Reported)
    BY <2>1, HeadTailProperties DEF TypeOK
  <2>3. ims_state' \in ImsStates
    BY <1>6, <2>2, ReportedAssumption DEF handle_ims_reg_status_report,
       reg_status_changed, ims_state_of, RegStates, ImsStates, TypeOK
  <2>4. missed' \in BOOLEAN
    <3>1. missed \in BOOLEAN
      BY DEF TypeOK
    <3> QED BY <1>6, <3>1, Zenon DEF handle_ims_reg_status_report
  <2> QED BY <1>6, <2>2, <2>3, <2>4 DEF handle_ims_reg_status_report, contract,
             loop, ops, TypeOK
<1>7. CASE service_changes
  <2>1. /\ reg_state' \in Reported /\ indications' \in Seq(Reported)
        /\ changes' \in 0..MaxChanges
    BY <1>7, BoundsAssumption DEF service_changes, TypeOK
  <2> QED BY <1>7, <2>1 DEF service_changes, contract, loop, ops, TypeOK
<1>8. ASSUME NEW r \in Requests, service_answers_get(r) PROVE TypeOK'
  <2>1. PICK state \in {reg_state, FAILED_TO_READ} :
           /\ responses' = Append(responses, [request |-> r, code |-> SUCCESS,
                                              state |-> state])
           /\ fresh' = (fresh \/ state # FAILED_TO_READ)
    BY <1>8 DEF service_answers_get
  <2>2. responses' \in Seq([request : known, code : ErrorCodes,
                            state : Reported \cup {FAILED_TO_READ}])
    BY <1>8, <2>1 DEF service_answers_get, Awaiting, ErrorCodes, TypeOK
  <2>3. fresh' \in BOOLEAN
    BY <2>1 DEF TypeOK
  <2> QED BY <1>8, <2>2, <2>3 DEF service_answers_get, contract, loop, ops, TypeOK
<1>9. ASSUME NEW r \in Requests, service_answers_set(r) PROVE TypeOK'
  <2>1. responses' \in Seq([request : known, code : ErrorCodes,
                            state : Reported \cup {FAILED_TO_READ}])
    BY <1>9 DEF service_answers_set, Awaiting, TypeOK
  <2> QED BY <1>9, <2>1 DEF service_answers_set, contract, loop, ops, TypeOK
<1>10. CASE service_dies
  BY <1>10 DEF service_dies, contract, loop, ops, service, TypeOK
<1>11. CASE UNCHANGED vars
  BY <1>11 DEF vars, contract, loop, ops, service, TypeOK
<1> QED BY <1>1, <1>2, <1>3, <1>4, <1>5, <1>6, <1>7, <1>8, <1>9, <1>10, <1>11
        DEF Next

------------------------------------------------------------------------------

(* The operation begun has neither a request nor callbacks that ran; its check
   may have been refused, which leaves no trace but a request less to count. *)
LEMMA FirstHalf ==
  ASSUME TypeOK, Numbered,
         NEW o \in Ops, NEW with_complete \in BOOLEAN,
         set_registration(o, with_complete)
  PROVE  /\ o \notin started /\ o # None /\ started' = started \cup {o}
         /\ started' = 1..o /\ Cardinality(started') = o
         /\ control # "set" /\ control' = "set"
         /\ Cardinality(known') < MaxRequests
         /\ UNCHANGED <<op_completed, op_destroyed, op_id, completions>>
         /\ \A r \in outstanding : job'[r] = job[r] /\ r # next_request
         /\ \/ /\ outstanding' = outstanding \cup {next_request}
               /\ job'[next_request] = [kind |-> "get", owner |-> None]
               /\ refs' = refs + 1
            \/ outstanding' = outstanding /\ refs' = refs
<1> DEFINE j == [kind |-> "get", owner |-> None]
<1>1. /\ Cardinality(known) < MaxRequests
      /\ Cardinality(known) + 1 < MaxRequests
  BY Counting, BoundsAssumption DEF set_registration
<1>2. j \in Jobs
  BY DEF Jobs
<1>3. \/ /\ Req!Accept(next_request) /\ job' = [job EXCEPT ![next_request] = j]
         /\ refs' = refs + 1
      \/ Req!Refuse(next_request) /\ UNCHANGED <<job, refs>>
  BY DEF set_registration, get_registrations, accept
<1> HIDE DEF j
<1>4. /\ Cardinality(known') = Cardinality(known) + 1
      /\ completions' = completions /\ next_request \in Requests
      /\ \A r \in outstanding : job'[r] = job[r] /\ r # next_request
  BY <1>1, <1>2, <1>3, Submitted
<1>5. \/ /\ outstanding' = outstanding \cup {next_request}
         /\ job'[next_request] = j /\ refs' = refs + 1
      \/ outstanding' = outstanding /\ refs' = refs
  BY <1>3, <1>4 DEF Req!Accept, Req!Refuse, TypeOK
<1>6. /\ o \notin started /\ o # None /\ started' = started \cup {o}
      /\ started' = 1..o /\ Cardinality(started') = o
  BY NextOp DEF set_registration
<1>7. /\ control # "set" /\ control' = "set"
      /\ UNCHANGED <<op_completed, op_destroyed, op_id>>
  BY DEF set_registration, get_registrations, accept
<1> QED BY <1>1, <1>4, <1>5, <1>6, <1>7 DEF j

(* The operation begun gets a request, or is destroyed. *)
LEMMA SecondHalf ==
  ASSUME TypeOK, Numbered, NEW o, o = Cardinality(started), set_reg_state
  PROVE  /\ o \in started /\ o \in Ops /\ o # None
         /\ control = "set" /\ control' # "set"
         /\ UNCHANGED <<started, op_completed, completions>>
         /\ \A r \in outstanding : job'[r] = job[r] /\ r # next_request
         /\ \A p \in Ops \ {o} : /\ op_id'[p] = op_id[p]
                                /\ op_destroyed'[p] = op_destroyed[p]
         /\ \/ /\ outstanding' = outstanding \cup {next_request}
               /\ job'[next_request] = [kind |-> "set", owner |-> o]
               /\ refs' = refs + 1
               /\ op_destroyed' = op_destroyed /\ op_id'[o] # None
            \/ /\ outstanding' = outstanding
               /\ op_destroyed'[o] = op_destroyed[o] + 1
               /\ op_id' = op_id
<1> DEFINE j == [kind |-> "set", owner |-> o]
<1>1. control = "set" /\ control' # "set"
  BY DEF set_reg_state
<1>2. o \in started /\ o \in Ops /\ o # None /\ Cardinality(known) < MaxRequests
  BY <1>1, Counting DEF Numbered, TypeOK, None
<1>3. j \in Jobs
  BY <1>2 DEF Jobs
<1>4. \/ /\ Req!Accept(next_request) /\ job' = [job EXCEPT ![next_request] = j]
         /\ refs' = refs + 1 /\ op_destroyed' = op_destroyed
         /\ op_id' = [op_id EXCEPT ![o] = next_request]
      \/ /\ Req!Refuse(next_request) /\ UNCHANGED <<job, op_id>>
         /\ op_destroyed' = [op_destroyed EXCEPT ![o] = @ + 1]
  BY DEF set_reg_state, submit_set, accept
<1> HIDE DEF j
<1>5. /\ completions' = completions /\ next_request \in Requests
      /\ \A r \in outstanding : job'[r] = job[r] /\ r # next_request
  BY <1>2, <1>3, <1>4, Submitted
<1>6. next_request # None
  BY <1>2, Next_Request
<1>7. /\ UNCHANGED <<started, op_completed>>
  BY DEF set_reg_state
<1>8. CASE /\ Req!Accept(next_request) /\ job' = [job EXCEPT ![next_request] = j]
           /\ refs' = refs + 1 /\ op_destroyed' = op_destroyed
           /\ op_id' = [op_id EXCEPT ![o] = next_request]
  <2>1. job'[next_request] = j
    BY <1>5, <1>8 DEF TypeOK
  <2>2. op_id'[o] # None /\ \A p \in Ops \ {o} : op_id'[p] = op_id[p]
    BY <1>2, <1>6, <1>8 DEF TypeOK
  <2> QED BY <1>1, <1>2, <1>5, <1>7, <1>8, <2>1, <2>2 DEF j, Req!Accept
<1>9. CASE /\ Req!Refuse(next_request) /\ UNCHANGED <<job, op_id>>
           /\ op_destroyed' = [op_destroyed EXCEPT ![o] = @ + 1]
  <2>1. /\ op_destroyed'[o] = op_destroyed[o] + 1
        /\ \A p \in Ops \ {o} : op_destroyed'[p] = op_destroyed[p]
    BY <1>2, <1>9 DEF TypeOK
  <2> QED BY <1>1, <1>2, <1>5, <1>7, <1>9, <2>1 DEF Req!Refuse
<1> QED BY <1>4, <1>8, <1>9

(* A response completes the operation its request is of, if any. *)
LEMMA Completion ==
  ASSUME TypeOK, Owned, handle_response, NEW r, r = Head(responses).request
  PROVE  /\ r \in outstanding /\ completions[r] = 0 /\ completions'[r] = 1
         /\ \A q \in Requests \ {r} : completions'[q] = completions[q]
         /\ control = "loop" /\ control' \in {"ofono", "return"}
         /\ UNCHANGED <<known, outstanding, refs, job, op_id, op_destroyed,
                        started>>
         /\ \A o \in Ops : op_completed'[o] # op_completed[o] =>
               /\ job[r].kind = "set" /\ job[r].owner = o
               /\ op_completed'[o] = op_completed[o] + 1
<1>1. Req!Complete(r)
  BY DEF handle_response
<1>2. r \in outstanding /\ completions[r] = 0 /\ r \in Requests
  BY <1>1 DEF Req!Complete, TypeOK
<1>3. /\ completions'[r] = 1
      /\ \A q \in Requests \ {r} : completions'[q] = completions[q]
      /\ UNCHANGED <<known, outstanding>>
  BY <1>1, <1>2 DEF Req!Complete, TypeOK
<1>4. /\ control = "loop" /\ control' \in {"ofono", "return"}
      /\ UNCHANGED <<refs, job, op_id, op_destroyed, started>>
  BY DEF handle_response, complete_set
<1>5. \/ UNCHANGED op_completed
      \/ /\ job[r].kind = "set"
         /\ op_completed' = [op_completed EXCEPT ![job[r].owner] = @ + 1]
  BY DEF handle_response, complete_set
<1>6. \A o \in Ops : op_completed'[o] # op_completed[o] =>
               /\ job[r].kind = "set" /\ job[r].owner = o
               /\ op_completed'[o] = op_completed[o] + 1
  BY <1>5 DEF TypeOK
<1> QED BY <1>2, <1>3, <1>4, <1>6

(* The end of a response frees its request. *)
LEMMA Freed ==
  ASSUME TypeOK, response_return, NEW d, d = dispatching
  PROVE  /\ d \in outstanding /\ outstanding' = outstanding \ {d}
         /\ control # "set" /\ control' # "set" /\ dispatching' = None
         /\ refs' = refs - 1
         /\ UNCHANGED <<known, completions, started, op_completed, op_id>>
         /\ \A r \in outstanding' : job'[r] = job[r]
         /\ \A o \in Ops : op_destroyed'[o] =
               IF o = job[d].owner THEN op_destroyed[o] + 1 ELSE op_destroyed[o]
<1>1. /\ d \in outstanding /\ outstanding' = outstanding \ {d}
      /\ UNCHANGED <<known, completions>>
  BY DEF response_return, Req!Release
<1>2. \A r \in outstanding' : job'[r] = job[r]
  BY <1>1 DEF response_return, TypeOK
<1> QED BY <1>1, <1>2 DEF response_return, request_destroy

(* The other steps touch neither requests nor operations. *)
LEMMA OtherSteps ==
  ASSUME \/ handle_ims_reg_status_report \/ service_changes \/ service_dies
         \/ \E o \in Ops : cancel(o)
         \/ \E r \in Requests : service_answers_get(r) \/ service_answers_set(r)
         \/ UNCHANGED vars
  PROVE  UNCHANGED <<refs, contract, job, loop, ops>>
BY DEF handle_ims_reg_status_report, service_changes, service_dies, cancel,
       service_answers_get, service_answers_set, vars

Operations ==
    Numbered /\ Owned /\ OpAccounted /\ NotStarted /\ CompletedPast /\ RefsExact

(* Every action keeps the operations, their requests and the references in
   step. *)
LEMMA StepOperations == TypeOK /\ Operations /\ [Next]_vars => Operations'
<1> SUFFICES ASSUME TypeOK, Operations, [Next]_vars PROVE Operations'
  OBVIOUS
<1> USE DEF Operations
<1>t. /\ \A o \in Ops : op_completed[o] \in Nat /\ op_destroyed[o] \in Nat
      /\ refs \in Int /\ outstanding \subseteq Requests /\ started \subseteq Ops
  BY DEF TypeOK
<1>1. ASSUME NEW o \in Ops, NEW with_complete \in BOOLEAN,
             set_registration(o, with_complete)
      PROVE  Operations'
  <2> DEFINE n == next_request
             j == [kind |-> "get", owner |-> None]
  <2>1. /\ o \notin started /\ o # None /\ started' = started \cup {o}
        /\ started' = 1..o /\ Cardinality(started') = o
        /\ control # "set" /\ control' = "set"
        /\ Cardinality(known') < MaxRequests
        /\ UNCHANGED <<op_completed, op_destroyed, op_id, completions>>
        /\ \A r \in outstanding : job'[r] = job[r] /\ r # n
        /\ \/ /\ outstanding' = outstanding \cup {n}
              /\ job'[n] = j /\ refs' = refs + 1
           \/ outstanding' = outstanding /\ refs' = refs
    BY <1>1, FirstHalf
  <2>2. j.kind = "get" /\ j.owner = None
    OBVIOUS
  <2> HIDE DEF n, j
  <2>3. \A p : Begun(p)' <=> p = o
    BY <2>1 DEF Begun
  <2>4. \A p : ~ Begun(p)
    BY <2>1 DEF Begun
  <2>5. Numbered'
    BY <2>1 DEF Numbered
  <2>6. Owned'
    BY <2>1, <2>2, <2>3 DEF Owned
  <2>7. OpAccounted'
    <3> SUFFICES ASSUME NEW p \in started'
                 PROVE  op_destroyed'[p] =
                          IF p = o \/ \E r \in outstanding' : job'[r].owner = p
                            THEN 0 ELSE 1
      BY <2>3 DEF OpAccounted
    <3>1. CASE p = o
      BY <2>1, <3>1 DEF NotStarted
    <3>2. CASE p # o
      <4>1. p \in started /\ p # None
        BY <2>1, <3>2, <1>t DEF Ops, None
      <4>2. (\E r \in outstanding' : job'[r].owner = p)
              <=> (\E r \in outstanding : job[r].owner = p)
        BY <2>1, <2>2, <4>1
      <4> QED BY <2>1, <2>4, <3>2, <4>1, <4>2 DEF OpAccounted
    <3> QED BY <3>1, <3>2
  <2>8. NotStarted'
    BY <2>1, <2>3, <2>4 DEF NotStarted
  <2>9. CompletedPast'
    BY <2>1, <2>2, <2>3, <1>t DEF CompletedPast, Ops, None
  <2>10. RefsExact'
    <3> SUFFICES ASSUME \A p \in started' : op_id'[p] # None \/ p = o
                 PROVE  refs' = BaseRefs + Cardinality(outstanding')
      BY <2>3 DEF RefsExact
    <3>1. refs = BaseRefs + Cardinality(outstanding)
      BY <2>1 DEF RefsExact
    <3>2. n \notin outstanding
      BY <2>1
    <3> QED BY <2>1, <3>1, <3>2, Counting, BaseRefsAssumption
  <2> QED BY <2>5, <2>6, <2>7, <2>8, <2>9, <2>10
<1>2. CASE set_reg_state
  <2> DEFINE n == next_request
             o == Cardinality(started)
             j == [kind |-> "set", owner |-> o]
  <2>1. /\ o \in started /\ o \in Ops /\ o # None
        /\ control = "set" /\ control' # "set"
        /\ UNCHANGED <<started, op_completed, completions>>
        /\ \A r \in outstanding : job'[r] = job[r] /\ r # n
        /\ \A p \in Ops \ {o} : /\ op_id'[p] = op_id[p]
                               /\ op_destroyed'[p] = op_destroyed[p]
        /\ \/ /\ outstanding' = outstanding \cup {n}
              /\ job'[n] = j /\ refs' = refs + 1
              /\ op_destroyed' = op_destroyed /\ op_id'[o] # None
           \/ /\ outstanding' = outstanding
              /\ op_destroyed'[o] = op_destroyed[o] + 1
              /\ op_id' = op_id
    BY <1>2, SecondHalf
  <2>2. j.kind = "set" /\ j.owner = o
    OBVIOUS
  <2>3. \A p : Begun(p) <=> p = o
    BY <2>1 DEF Begun
  <2> HIDE DEF n, j, o
  <2>4. \A p : ~ Begun(p)'
    BY <2>1 DEF Begun
  <2>5. Numbered'
    BY <2>1 DEF Numbered
  <2>6. \A r \in outstanding : job[r].owner # o
    BY <2>1, <2>3 DEF Owned
  <2>7. Owned'
    BY <2>1, <2>2, <2>3, <2>4, <2>6 DEF Owned
  <2>8. OpAccounted'
    <3> SUFFICES ASSUME NEW p \in started'
                 PROVE  op_destroyed'[p] =
                          IF \E r \in outstanding' : job'[r].owner = p
                            THEN 0 ELSE 1
      BY <2>4 DEF OpAccounted
    <3>1. p \in started /\ p \in Ops
      BY <2>1, <1>t
    <3>2. CASE p = o
      <4>1. op_destroyed[o] = 0
        BY <2>1, <2>3 DEF OpAccounted
      <4> QED BY <2>1, <2>2, <2>6, <3>2, <4>1
    <3>3. CASE p # o
      <4>1. (\E r \in outstanding' : job'[r].owner = p)
              <=> (\E r \in outstanding : job[r].owner = p)
        BY <2>1, <2>2, <3>3
      <4> QED BY <2>1, <2>3, <3>1, <3>3, <4>1 DEF OpAccounted
    <3> QED BY <3>2, <3>3
  <2>9. NotStarted'
    BY <2>1, <2>3, <2>4 DEF NotStarted
  <2>10. CompletedPast'
    BY <2>1, <2>2, <2>3, <2>4, <2>6 DEF CompletedPast
  <2>11. RefsExact'
    <3> SUFFICES ASSUME \A p \in started' : op_id'[p] # None
                 PROVE  refs' = BaseRefs + Cardinality(outstanding')
      BY <2>4 DEF RefsExact
    <3>1. \A p \in started : op_id[p] # None \/ p = o
      BY <2>1, <1>t
    <3>2. refs = BaseRefs + Cardinality(outstanding)
      BY <2>3, <3>1 DEF RefsExact
    <3>3. CASE outstanding' = outstanding \cup {n} /\ refs' = refs + 1
      BY <2>1, <3>2, <3>3, Counting, BaseRefsAssumption
    <3>4. CASE op_id' = op_id
      <4>1. o \in started' /\ op_id[o] # None
        BY <2>1, <3>4
      <4> QED BY <2>1, <2>3, <4>1 DEF NotStarted
    <3> QED BY <2>1, <3>3, <3>4
  <2> QED BY <2>5, <2>7, <2>8, <2>9, <2>10, <2>11
<1>3. CASE handle_response
  <2> DEFINE r == Head(responses).request
  <2>1. /\ r \in outstanding /\ completions[r] = 0 /\ completions'[r] = 1
        /\ \A q \in Requests \ {r} : completions'[q] = completions[q]
        /\ control = "loop" /\ control' \in {"ofono", "return"}
        /\ UNCHANGED <<known, outstanding, refs, job, op_id, op_destroyed,
                       started>>
        /\ \A o \in Ops : op_completed'[o] # op_completed[o] =>
               /\ job[r].kind = "set" /\ job[r].owner = o
               /\ op_completed'[o] = op_completed[o] + 1
    BY <1>3, Completion
  <2> HIDE DEF r
  <2>2. \A p : ~ Begun(p)' /\ ~ Begun(p)
    BY <2>1 DEF Begun
  <2>3. Numbered' /\ Owned' /\ NotStarted'
    BY <2>1, <2>2 DEF Numbered, Owned, NotStarted
  <2>4. OpAccounted' /\ RefsExact'
    BY <2>1, <2>2 DEF OpAccounted, RefsExact
  <2>5. CompletedPast'
    <3> SUFFICES ASSUME NEW o \in Ops, op_completed'[o] > 0
                 PROVE  /\ o \in started'
                        /\ \A q \in outstanding' :
                              job'[q].owner = o => completions'[q] > 0
      BY <2>2 DEF CompletedPast
    <3>1. CASE op_completed'[o] = op_completed[o]
      BY <2>1, <3>1, <1>t DEF CompletedPast
    <3>2. CASE op_completed'[o] # op_completed[o]
      BY <2>1, <3>2, <1>t DEF Owned, Ops, None
    <3> QED BY <3>1, <3>2
  <2> QED BY <2>3, <2>4, <2>5
<1>4. CASE response_return
  <2> DEFINE d == dispatching
  <2>1. /\ d \in outstanding /\ outstanding' = outstanding \ {d}
        /\ control # "set" /\ control' # "set"
        /\ refs' = refs - 1
        /\ UNCHANGED <<known, completions, started, op_completed, op_id>>
        /\ \A r \in outstanding' : job'[r] = job[r]
        /\ \A o \in Ops : op_destroyed'[o] =
              IF o = job[d].owner THEN op_destroyed[o] + 1 ELSE op_destroyed[o]
    BY <1>4, Freed
  <2> HIDE DEF d
  <2>2. \A p : ~ Begun(p)' /\ ~ Begun(p)
    BY <2>1 DEF Begun
  <2>3. Numbered' /\ Owned'
    BY <2>1, <2>2 DEF Numbered, Owned
  <2>4. CompletedPast'
    BY <2>1, <2>2 DEF CompletedPast
  <2>5. NotStarted'
    BY <2>1, <2>2, <1>t DEF NotStarted, Owned, Ops, None
  <2>6. OpAccounted'
    <3> SUFFICES ASSUME NEW o \in started
                 PROVE  op_destroyed'[o] =
                          IF \E r \in outstanding' : job'[r].owner = o
                            THEN 0 ELSE 1
      BY <2>1, <2>2 DEF OpAccounted
    <3>1. o \in Ops /\ o # None
      BY <1>t DEF Ops, None
    <3>2. op_destroyed[o] =
             IF \E r \in outstanding : job[r].owner = o THEN 0 ELSE 1
      BY <2>2 DEF OpAccounted
    <3>3. CASE job[d].owner = o
      BY <2>1, <3>1, <3>2, <3>3 DEF Owned
    <3>4. CASE job[d].owner # o
      BY <2>1, <3>1, <3>2, <3>4
    <3> QED BY <3>3, <3>4
  <2>7. RefsExact'
    <3>1. (\A o \in started : op_id[o] # None) =>
             refs = BaseRefs + Cardinality(outstanding)
      BY <2>2 DEF RefsExact
    <3>2. /\ d \in outstanding /\ outstanding' = outstanding \ {d}
          /\ refs' = refs - 1 /\ started' = started /\ op_id' = op_id
      BY <2>1
    <3>3. /\ Cardinality(outstanding) \in Nat
          /\ Cardinality(outstanding') = Cardinality(outstanding) - 1
      BY <3>2, Counting
    <3>4. (\A o \in started' : op_id'[o] # None) =>
             refs' = BaseRefs + Cardinality(outstanding')
      BY <3>1, <3>2, <3>3, <1>t, BaseRefsAssumption
    <3> QED BY <2>2, <3>4 DEF RefsExact
  <2> QED BY <2>3, <2>4, <2>5, <2>6, <2>7
<1>5. CASE UNCHANGED <<refs, contract, job, loop, ops>>
  <2>1. \A p : Begun(p)' <=> Begun(p)
    BY <1>5 DEF Begun, loop, ops
  <2> QED BY <1>5, <2>1 DEF contract, loop, ops, Numbered, Owned, OpAccounted,
             NotStarted, CompletedPast, RefsExact
<1> QED BY <1>1, <1>2, <1>3, <1>4, <1>5, OtherSteps DEF Next

(* Every action keeps the responses on their way, and what is known of the
   state of the service. *)
LEMMA StepResponses ==
  TypeOK /\ Numbered /\ Owned /\ ResponsesAwaited /\ StateTracked /\ [Next]_vars
      => ResponsesAwaited' /\ StateTracked'
<1> SUFFICES ASSUME TypeOK, Numbered, Owned, ResponsesAwaited, StateTracked,
                    [Next]_vars
             PROVE  ResponsesAwaited' /\ StateTracked'
  OBVIOUS
<1> USE DEF StateTracked
<1>t. responses \in Seq([request : known, code : ErrorCodes,
                         state : Reported \cup {FAILED_TO_READ}])
      /\ indications \in Seq(Reported) /\ outstanding \subseteq Requests
  BY DEF TypeOK
<1>1. ASSUME /\ UNCHANGED <<service, ims_state, dispatching, completions>>
             /\ outstanding \subseteq outstanding'
             /\ \A r \in outstanding : job'[r] = job[r]
      PROVE  ResponsesAwaited' /\ StateTracked'
  BY <1>1 DEF service, ResponsesAwaited, LastReport, LastAnswer,
     KeptIsCurrent, NothingReadable, Readable
<1>2. ASSUME NEW o \in Ops, NEW with_complete \in BOOLEAN,
             set_registration(o, with_complete), Numbered
      PROVE  ResponsesAwaited' /\ StateTracked'
  <2>1. /\ completions' = completions /\ outstanding \subseteq outstanding'
        /\ \A r \in outstanding : job'[r] = job[r]
    BY <1>2, FirstHalf
  <2> QED BY <1>1, <1>2, <2>1 DEF set_registration
<1>3. CASE set_reg_state /\ Numbered
  <2>1. /\ completions' = completions /\ outstanding \subseteq outstanding'
        /\ \A r \in outstanding : job'[r] = job[r]
    BY <1>3, SecondHalf
  <2> QED BY <1>1, <1>3, <2>1 DEF set_reg_state
<1>4. CASE handle_response
  <2> DEFINE m == Head(responses)
  <2>1. /\ responses # <<>> /\ responses' = Tail(responses)
        /\ dispatching' = m.request
        /\ UNCHANGED <<reg_state, indications, fresh, missed>>
    BY <1>4 DEF handle_response
  <2>2. /\ m.request \in outstanding /\ completions'[m.request] = 1
        /\ \A q \in Requests \ {m.request} : completions'[q] = completions[q]
        /\ UNCHANGED <<outstanding, job>>
    BY <1>4, Completion
  <2>3. /\ m = responses[1] /\ 1 \in DOMAIN responses
        /\ \A i \in DOMAIN responses' :
              i + 1 \in DOMAIN responses /\ responses'[i] = responses[i + 1]
        /\ \A i \in DOMAIN responses :
              i # 1 => i - 1 \in DOMAIN responses' /\ i - 1 + 1 = i
        /\ DOMAIN responses' \subseteq Nat \ {0} /\ DOMAIN responses \subseteq Nat
    BY <1>t, <2>1, HeadTailProperties
  <2>4. \/ /\ job[m.request].kind = "get" /\ reg_status_response(m.state)
        \/ job[m.request].kind = "set" /\ ims_state' = ims_state
    BY <1>4 DEF handle_response, complete_set
  <2> HIDE DEF m
  <2>5. ResponsesAwaited'
    <3>1. \A i \in DOMAIN responses' :
             /\ responses'[i].request \in outstanding
             /\ responses'[i].request # m.request
             /\ completions[responses'[i].request] = 0
             /\ responses'[i].state # FAILED_TO_READ
                   => job[responses'[i].request].kind = "get"
      <4> SUFFICES ASSUME NEW i \in DOMAIN responses'
                   PROVE  /\ responses[i + 1].request \in outstanding
                          /\ responses[i + 1].request # m.request
                          /\ completions[responses[i + 1].request] = 0
                          /\ responses[i + 1].state # FAILED_TO_READ
                              => job[responses[i + 1].request].kind = "get"
        BY <2>3
      <4>1. i + 1 \in DOMAIN responses /\ i + 1 # 1
        BY <2>3
      <4> QED BY <2>3, <4>1 DEF ResponsesAwaited, Readable
    <3>2. \A i, j \in DOMAIN responses' :
             responses'[i].request = responses'[j].request => i = j
      BY <2>3 DEF ResponsesAwaited
    <3> QED BY <1>t, <2>1, <2>2, <3>1, <3>2 DEF ResponsesAwaited, Readable
  <2>6. LastReport'
    BY <2>1 DEF LastReport
  <2>7. LastAnswer'
    <3> SUFFICES ASSUME fresh, NEW i \in DOMAIN responses', Readable(i)',
                        \A j \in DOMAIN responses' : j > i => ~ Readable(j)'
                 PROVE  responses'[i].state = reg_state
      BY <2>1 DEF LastAnswer
    <3>1. i + 1 \in DOMAIN responses /\ Readable(i + 1)
      BY <2>3 DEF Readable
    <3>2. ASSUME NEW j \in DOMAIN responses, j > i + 1 PROVE ~ Readable(j)
      <4>1. j - 1 \in DOMAIN responses' /\ j - 1 > i /\ j - 1 + 1 = j
        BY <2>3, <3>2
      <4>2. responses'[j - 1] = responses[j]
        BY <2>3, <4>1
      <4> QED BY <4>1, <4>2 DEF Readable
    <3> QED BY <2>3, <3>1, <3>2 DEF LastAnswer
  <2>8. KeptIsCurrent'
    <3> SUFFICES ASSUME fresh, ~ missed, indications = <<>>, NothingReadable'
                 PROVE  ims_state' = ims_state_of(reg_state)
      BY <2>1 DEF KeptIsCurrent, ims_state_of
    <3>1. \A i \in DOMAIN responses : i # 1 => ~ Readable(i)
      <4> SUFFICES ASSUME NEW i \in DOMAIN responses, i # 1 PROVE ~ Readable(i)
        OBVIOUS
      <4>1. i - 1 \in DOMAIN responses' /\ i - 1 + 1 = i
        BY <2>3
      <4>2. responses'[i - 1] = responses[i]
        BY <2>3, <4>1
      <4> QED BY <4>1, <4>2 DEF NothingReadable, Readable
    <3>2. CASE m.state = FAILED_TO_READ
      <4>1. NothingReadable
        BY <2>3, <3>1, <3>2 DEF NothingReadable, Readable
      <4>2. ims_state' = ims_state
        BY <2>4, <3>2 DEF reg_status_response
      <4> QED BY <4>1, <4>2 DEF KeptIsCurrent
    <3>3. CASE m.state # FAILED_TO_READ
      <4>1. job[m.request].kind = "get"
        BY <2>3, <3>3 DEF ResponsesAwaited, Readable
      <4>2. ims_state' = ims_state_of(m.state)
        BY <2>4, <3>3, <4>1 DEF reg_status_response, reg_status_changed
      <4>3. m.state = reg_state
        BY <2>3, <3>1, <3>3 DEF LastAnswer, Readable
      <4> QED BY <4>2, <4>3
    <3> QED BY <3>2, <3>3
  <2> QED BY <2>5, <2>6, <2>7, <2>8
<1>5. CASE response_return
  <2>1. /\ outstanding' = outstanding \ {dispatching}
        /\ dispatching \in outstanding /\ dispatching' = None
        /\ completions' = completions
        /\ \A r \in outstanding' : job'[r] = job[r]
    BY <1>5, Freed
  <2>2. UNCHANGED <<service, ims_state>>
    BY <1>5 DEF response_return
  <2>3. dispatching # None
    BY <1>t, <2>1 DEF Requests, None
  <2>4. \A i \in DOMAIN responses : responses[i].request # dispatching
    BY <2>3 DEF ResponsesAwaited
  <2>5. ResponsesAwaited'
    BY <2>1, <2>2, <2>4 DEF service, ResponsesAwaited, Readable
  <2> QED BY <2>2, <2>5 DEF service, LastReport, LastAnswer, KeptIsCurrent,
             NothingReadable, Readable
<1>6. CASE handle_ims_reg_status_report
  <2>1. /\ indications # <<>> /\ indications' = Tail(indications)
        /\ \/ ims_state' = ims_state_of(Head(indications))
           \/ missed' = (Tail(indications) = <<>>)
        /\ UNCHANGED <<outstanding, completions, job, dispatching, reg_state,
                       responses, fresh>>
    BY <1>6 DEF handle_ims_reg_status_report, reg_status_changed, contract, loop
  <2>2. /\ Len(indications') = Len(indications) - 1
        /\ Len(indications) \in Nat \ {0} /\ Len(indications') \in Nat
        /\ Head(indications) = indications[1]
        /\ indications' # <<>> => Len(indications') > 0
        /\ \A i \in 1..Len(indications') : indications'[i] = indications[i + 1]
    BY <1>t, <2>1, HeadTailProperties
  <2>3. ResponsesAwaited'
    BY <2>1 DEF ResponsesAwaited, Readable
  <2>4. LastReport'
    <3> SUFFICES ASSUME indications' # <<>>
                 PROVE  indications'[Len(indications')] = reg_state
      BY <2>1 DEF LastReport
    <3> QED BY <2>1, <2>2 DEF LastReport
  <2>5. LastAnswer'
    BY <2>1 DEF LastAnswer, Readable
  <2>6. KeptIsCurrent'
    <3> SUFFICES ASSUME indications' = <<>>, ~ missed'
                 PROVE  ims_state' = ims_state_of(reg_state)
      BY <2>1 DEF KeptIsCurrent, ims_state_of
    <3>1. Len(indications) = 1
      BY <2>2
    <3>2. ims_state' = ims_state_of(Head(indications))
      BY <2>1
    <3> QED BY <2>1, <2>2, <3>1, <3>2 DEF LastReport
  <2> QED BY <2>3, <2>4, <2>5, <2>6
<1>7. CASE service_changes
  <2>1. /\ indications' = Append(indications, reg_state') /\ reg_state' \in Reported
        /\ fresh' = FALSE
        /\ UNCHANGED <<outstanding, completions, job, dispatching, responses>>
    BY <1>7 DEF service_changes, contract, loop
  <2>2. LastReport'
    BY <1>t, <2>1, AppendProperties DEF LastReport
  <2> QED BY <2>1, <2>2 DEF ResponsesAwaited, LastAnswer, KeptIsCurrent, Readable
<1>8. ASSUME NEW r \in Requests, NEW m, r \in Awaiting,
             m.request = r, m.state # FAILED_TO_READ => job[r].kind = "get",
             m \in [request : known, code : ErrorCodes,
                    state : Reported \cup {FAILED_TO_READ}],
             responses' = Append(responses, m),
             \/ m.state = reg_state /\ fresh' = TRUE /\ m.state # FAILED_TO_READ
             \/ m.state = FAILED_TO_READ /\ fresh' = fresh,
             UNCHANGED <<ims_state, outstanding, completions, job, dispatching,
                         reg_state, indications, missed>>
      PROVE  ResponsesAwaited' /\ StateTracked'
  <2>1. PICK n \in Nat :
           /\ n \in DOMAIN responses' /\ responses'[n] = m
           /\ DOMAIN responses' = DOMAIN responses \cup {n}
           /\ \A i \in DOMAIN responses : i \in Nat /\ i < n
           /\ \A i \in DOMAIN responses : responses'[i] = responses[i]
    <3> WITNESS Len(responses) + 1 \in Nat
    <3> QED BY <1>t, <1>8, AppendProperties
  <2>2. /\ r \in outstanding /\ completions[r] = 0
        /\ \A i \in DOMAIN responses : responses[i].request # r
    BY <1>8 DEF Awaiting
  <2>3. ResponsesAwaited'
    BY <1>8, <2>1, <2>2 DEF ResponsesAwaited, Readable
  <2>4. LastReport'
    BY <1>8 DEF LastReport
  <2>5. CASE m.state = reg_state /\ fresh' = TRUE /\ m.state # FAILED_TO_READ
    <3>1. Readable(n)'
      BY <2>1, <2>5 DEF Readable
    <3>2. LastAnswer'
      <4> SUFFICES ASSUME NEW i \in DOMAIN responses', Readable(i)',
                          \A j \in DOMAIN responses' : j > i => ~ Readable(j)'
                   PROVE  responses'[i].state = reg_state'
        BY DEF LastAnswer
      <4>1. i = n
        BY <2>1, <3>1
      <4> QED BY <1>8, <2>1, <2>5, <4>1
    <3>3. KeptIsCurrent'
      BY <2>1, <3>1 DEF KeptIsCurrent, NothingReadable
    <3> QED BY <2>3, <2>4, <3>2, <3>3 DEF StateTracked
  <2>6. CASE m.state = FAILED_TO_READ /\ fresh' = fresh
    <3>1. /\ ~ Readable(n)'
          /\ \A i \in DOMAIN responses : Readable(i)' <=> Readable(i)
      BY <2>1, <2>6 DEF Readable
    <3>2. LastAnswer'
      <4> SUFFICES ASSUME fresh', NEW i \in DOMAIN responses', Readable(i)',
                          \A j \in DOMAIN responses' : j > i => ~ Readable(j)'
                   PROVE  responses'[i].state = reg_state'
        BY DEF LastAnswer
      <4>1. i \in DOMAIN responses /\ Readable(i) /\ responses'[i] = responses[i]
        BY <2>1, <3>1
      <4>2. \A j \in DOMAIN responses : j > i => ~ Readable(j)
        BY <2>1, <3>1
      <4> QED BY <1>8, <2>6, <4>1, <4>2 DEF LastAnswer
    <3>3. KeptIsCurrent'
      <4> SUFFICES ASSUME fresh', ~ missed', indications' = <<>>, NothingReadable'
                   PROVE  ims_state' = ims_state_of(reg_state')
        BY DEF KeptIsCurrent, ims_state_of
      <4>1. NothingReadable
        BY <2>1, <3>1 DEF NothingReadable
      <4>2. ims_state = ims_state_of(reg_state)
        BY <1>8, <2>6, <4>1 DEF KeptIsCurrent
      <4> QED BY <1>8, <4>2 DEF ims_state_of
    <3> QED BY <2>3, <2>4, <3>2, <3>3 DEF StateTracked
  <2> QED BY <1>8, <2>5, <2>6
<1>9. ASSUME NEW r \in Requests, service_answers_get(r)
      PROVE  ResponsesAwaited' /\ StateTracked'
  <2>1. PICK state \in {reg_state, FAILED_TO_READ} :
           /\ responses' = Append(responses, [request |-> r, code |-> SUCCESS,
                                              state |-> state])
           /\ fresh' = (fresh \/ state # FAILED_TO_READ)
    BY <1>9 DEF service_answers_get
  <2> DEFINE m == [request |-> r, code |-> SUCCESS, state |-> state]
  <2>2. /\ r \in Awaiting /\ job[r].kind = "get" /\ r \in known
        /\ UNCHANGED <<ims_state, outstanding, completions, job, dispatching,
                       reg_state, indications, missed>>
    BY <1>9 DEF service_answers_get, contract, loop, Awaiting, TypeOK
  <2>3. /\ m.request = r /\ m.state = state
        /\ m \in [request : known, code : ErrorCodes,
                  state : Reported \cup {FAILED_TO_READ}]
    BY <2>2 DEF ErrorCodes, TypeOK
  <2>4. reg_state # FAILED_TO_READ /\ fresh \in BOOLEAN
    BY ReportedAssumption DEF TypeOK, RegStates, FAILED_TO_READ
  <2>5. /\ responses' = Append(responses, m)
        /\ \/ m.state = reg_state /\ fresh' = TRUE /\ m.state # FAILED_TO_READ
           \/ m.state = FAILED_TO_READ /\ fresh' = fresh
    BY <2>1, <2>4
  <2> HIDE DEF m
  <2> QED BY <1>8, <2>2, <2>3, <2>5
<1>10. ASSUME NEW r \in Requests, service_answers_set(r)
       PROVE  ResponsesAwaited' /\ StateTracked'
  <2>1. PICK code \in ErrorCodes :
           responses' = Append(responses, [request |-> r, code |-> code,
                                           state |-> FAILED_TO_READ])
    BY <1>10 DEF service_answers_set
  <2> DEFINE m == [request |-> r, code |-> code, state |-> FAILED_TO_READ]
  <2>2. /\ r \in Awaiting /\ r \in known /\ fresh' = fresh
        /\ UNCHANGED <<ims_state, outstanding, completions, job, dispatching,
                       reg_state, indications, missed>>
    BY <1>10 DEF service_answers_set, contract, loop, Awaiting, TypeOK
  <2>3. /\ m.request = r /\ m.state = FAILED_TO_READ
        /\ m \in [request : known, code : ErrorCodes,
                  state : Reported \cup {FAILED_TO_READ}]
    BY <2>2
  <2>4. responses' = Append(responses, m)
    BY <2>1
  <2> HIDE DEF m
  <2> QED BY <1>8, <2>2, <2>3, <2>4
<1>11. CASE service_dies \/ (\E o \in Ops : cancel(o)) \/ UNCHANGED vars
  <2>1. UNCHANGED <<service, ims_state, dispatching, completions, outstanding,
                    job>>
    BY <1>11 DEF service_dies, cancel, vars, contract, loop
  <2> QED BY <1>1, <2>1
<1> QED BY <1>2, <1>3, <1>4, <1>5, <1>6, <1>7, <1>9, <1>10, <1>11 DEF Next

------------------------------------------------------------------------------

(* Initially nothing has been asked for and nothing is on its way. *)
LEMMA InitIInv == Init => IInv
<1> SUFFICES ASSUME Init PROVE IInv
  OBVIOUS
<1> USE DEF Init, Req!Init
<1>1. TypeOK
  <2>1. /\ completions \in [Requests -> Nat] /\ releases \in [Requests -> Nat]
        /\ job \in [Requests -> Jobs]
    BY DEF Jobs, NoJob
  <2>2. /\ op_id \in [Ops -> known \cup {None}] /\ op_complete \in [Ops -> BOOLEAN]
        /\ op_completed \in [Ops -> Nat] /\ op_destroyed \in [Ops -> Nat]
        /\ op_result \in [Ops -> {"none", "OK", "ERROR"}]
    OBVIOUS
  <2>3. /\ indications \in Seq(Reported)
        /\ responses \in Seq([request : known, code : ErrorCodes,
                              state : Reported \cup {FAILED_TO_READ}])
        /\ changes \in 0..MaxChanges
    BY BoundsAssumption
  <2>4. /\ ims_state \in ImsStates /\ refs \in Int
        /\ remote \in {"alive", "dead"}
        /\ control \in {"loop", "set", "ofono", "return"} /\ reg_state \in Reported
    BY BaseRefsAssumption DEF ImsStates
  <2>5. fresh \in BOOLEAN /\ missed \in BOOLEAN
    BY Zenon
  <2>6. /\ known \subseteq Requests /\ outstanding \subseteq known
        /\ dispatching \in outstanding \cup {None} /\ started \subseteq Ops
    OBVIOUS
  <2> QED BY <2>1, <2>2, <2>3, <2>4, <2>5, <2>6, Zenon DEF TypeOK
<1>2. Numbered
  BY FS_EmptySet DEF Numbered
<1>3. Owned /\ OpAccounted /\ NotStarted /\ CompletedPast
  BY DEF Owned, OpAccounted, NotStarted, CompletedPast, Begun
<1>4. RefsExact
  BY FS_EmptySet, BaseRefsAssumption DEF RefsExact
<1>5. ResponsesAwaited /\ StateTracked
  BY DEF ResponsesAwaited, StateTracked, LastReport, LastAnswer, KeptIsCurrent
<1> QED BY <1>1, <1>2, <1>3, <1>4, <1>5 DEF IInv

(* The invariant holds throughout. *)
THEOREM Invariance == Spec => []IInv
<1>1. IInv /\ [Next]_vars => IInv'
  BY StepType, StepOperations, StepResponses DEF IInv, Operations
<1> QED BY <1>1, InitIInv, PTL DEF Spec

(* The variables keep their types (qti_ims.c). *)
THEOREM TypeCorrect == Spec => []TypeOK
<1>1. IInv => TypeOK
  BY DEF IInv
<1> QED BY <1>1, Invariance, PTL

(* However answers and indications are ordered, and whichever indications are
   dropped but that of the last change, the state kept is the present one in the
   end, if a check was answered after that change (qti_ims.c:180-226,
   qti_radio_ext.c:349-363). *)
THEOREM FreshCheckWins == Spec => []FreshCheckSettles
<1>1. IInv => FreshCheckSettles
  BY DEF IInv, StateTracked, KeptIsCurrent, NothingReadable, FreshCheckSettles,
     Settled
<1> QED BY <1>1, Invariance, PTL

(* Each operation is destroyed exactly once, when its request has ended
   (qti_ims.c:121-178, 262-290). *)
THEOREM OperationsAccounted == Spec => []OpAccounted
<1>1. IInv => OpAccounted
  BY DEF IInv
<1> QED BY <1>1, Invariance, PTL

(* The object lives as long as a request that will report to it. *)
THEOREM RefsAlwaysExact == Spec => []RefsExact
<1>1. IInv => RefsExact
  BY DEF IInv
<1> QED BY <1>1, Invariance, PTL

(* complete runs at most once, and never after destroy. *)
THEOREM CompletedFirst == Spec => NotCompletedAfterDestroy
<1>1. IInv /\ [Next]_vars =>
        [\A o \in Ops : op_completed'[o] # op_completed[o] =>
            op_destroyed[o] = 0 /\ op_completed[o] = 0]_vars
  <2> SUFFICES ASSUME IInv, Next, NEW o \in Ops,
                      op_completed'[o] # op_completed[o]
               PROVE  op_destroyed[o] = 0 /\ op_completed[o] = 0
    OBVIOUS
  <2>1. handle_response
    <3>1. ~ UNCHANGED op_completed
      OBVIOUS
    <3> QED BY <3>1, OtherSteps DEF Next, set_registration, get_registrations,
               accept, set_reg_state, submit_set, response_return, ops
  <2> DEFINE r == Head(responses).request
  <2>2. r \in outstanding /\ completions[r] = 0 /\ job[r].owner = o
    BY <2>1, Completion DEF IInv
  <2>3. o # None /\ op_completed[o] \in Nat
    <3>1. op_completed \in [Ops -> Nat]
      BY DEF IInv, TypeOK
    <3> QED BY <3>1, BoundsAssumption DEF Ops, None
  <2>4. o \in started /\ ~ Begun(o)
    BY <2>2, <2>3 DEF IInv, Owned
  <2>5. op_destroyed[o] = 0
    BY <2>2, <2>4 DEF IInv, OpAccounted
  <2>6. op_completed[o] = 0
    BY <2>2, <2>3 DEF IInv, CompletedPast
  <2> QED BY <2>5, <2>6
<1> QED BY <1>1, Invariance, PTL DEF Spec, NotCompletedAfterDestroy

(* Registration, a check and a request in two steps, asks of the layer below what
   RequestContract promises, one thing at a time; releasing a request without
   asking if it is pending is none the less never a second release. *)
THEOREM UsesContract == Spec => Req!Spec
<1>1. Init => Req!Init
  BY DEF Init
<1>2. IInv /\ IInv' /\ [Next]_vars => [Req!Next]_(Req!vars)
  <2> SUFFICES ASSUME IInv, IInv', [Next]_vars
               PROVE  Req!Next \/ UNCHANGED Req!vars
    OBVIOUS
  <2>1. /\ outstanding \subseteq Requests /\ known' \subseteq Requests
    BY DEF IInv, TypeOK
  <2>2. ASSUME NEW r, Req!Accept(r) \/ Req!Refuse(r)
        PROVE  Req!Next
    BY <2>1, <2>2 DEF Req!Accept, Req!Refuse, Req!Next
  <2>3. ASSUME NEW r, Req!Complete(r) \/ Req!Release(r)
        PROVE  Req!Next
    BY <2>1, <2>3 DEF Req!Complete, Req!Release, Req!Next
  <2>r. PICK r : r = next_request
    OBVIOUS
  <2>4. CASE \E o \in Ops, with_complete \in BOOLEAN :
                set_registration(o, with_complete)
    <3>1. Req!Accept(r) \/ Req!Refuse(r)
      BY <2>4, <2>r DEF set_registration, get_registrations, accept, Req!Accept,
                        Req!Refuse
    <3> QED BY <2>2, <3>1
  <2>5. CASE set_reg_state
    <3>1. Req!Accept(r) \/ Req!Refuse(r)
      BY <2>5, <2>r DEF set_reg_state, submit_set, accept, Req!Accept, Req!Refuse
    <3> QED BY <2>2, <3>1
  <2>6. CASE handle_response
    BY <2>3, <2>6 DEF handle_response
  <2>7. CASE response_return
    <3>1. PICK q : q = dispatching
      OBVIOUS
    <3>2. Req!Release(q)
      BY <2>7, <3>1 DEF response_return, Req!Release
    <3> QED BY <2>3, <3>2
  <2>8. CASE \/ \E o \in Ops : cancel(o)
             \/ handle_ims_reg_status_report \/ service_changes
             \/ \E q \in Requests : service_answers_get(q) \/ service_answers_set(q)
             \/ service_dies \/ UNCHANGED vars
    BY <2>8 DEF cancel, handle_ims_reg_status_report, service_changes,
            service_answers_get, service_answers_set, service_dies, vars, contract,
            Req!vars
  <2> QED BY <2>4, <2>5, <2>6, <2>7, <2>8 DEF Next
<1> QED BY <1>1, <1>2, Invariance, PTL DEF Spec, Req!Spec
==============================================================================
