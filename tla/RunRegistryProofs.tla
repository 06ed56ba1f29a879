------------------------- MODULE RunRegistryProofs -------------------------
(***************************************************************************)
(* The safety of RunRegistry for any keys, runs, requests and drains.      *)
(* Live runs being held is not inductive alone: that Start covers none     *)
(* needs their keys to be keys (Created), and that Attach joins only a     *)
(* live run needs every registered run to have been created (Filed).       *)
(***************************************************************************)
EXTENDS RunRegistry, TLAPS

Filed == \A k \in Key : registry[k] # None =>
           run[registry[k]].key = k /\ run[registry[k]].status # "new"

Created == \A r \in Run : run[r].status # "new" => run[r].key \in Key

IInv == TypeOK /\ Filed /\ Created /\ LiveRunsAreHeld

LEMMA InitHolds == Init => IInv
<1> SUFFICES ASSUME Init PROVE IInv
  OBVIOUS
<1> USE RegistryAssumption DEF Init
<1>1. TypeOK
  BY DEF TypeOK, NoDrain, RunStatus
<1>2. Filed /\ Created
  BY DEF Filed, Created
<1>3. LiveRunsAreHeld
  BY DEF LiveRunsAreHeld, Live
<1> QED BY <1>1, <1>2, <1>3 DEF IInv

(* One step per action; what an action leaves alone keeps its conjunct. *)
LEMMA NextKeeps == IInv /\ [Next]_vars => IInv'
<1> SUFFICES ASSUME IInv, [Next]_vars PROVE IInv'
  OBVIOUS
<1> USE RegistryAssumption
<1> USE DEF IInv, TypeOK, RunStatus, Filed, Created, LiveRunsAreHeld, Live, Done
<1>1. ASSUME NEW w \in Waiter, NEW k \in Key, Attach(w, k) PROVE IInv'
  BY <1>1 DEF Attach, InFlight, Await
<1>2. ASSUME NEW w \in Waiter, NEW k \in Key, NEW r \in Run, Start(w, k, r)
      PROVE  IInv'
  <2>1. TypeOK'
    BY <1>2 DEF Start, Await
  <2>2. Filed' /\ Created'
    BY <1>2 DEF Start, Await
  <2>3. LiveRunsAreHeld'
    <3> SUFFICES ASSUME NEW q \in Run, Live(q)' PROVE (registry[run[q].key] = q)'
      OBVIOUS
    <3>1. CASE q = r
      BY <3>1, <1>2 DEF Start
    <3>2. CASE q # r
      <4>1. Live(q) /\ run'[q] = run[q] /\ registry[run[q].key] = q
        BY <3>2, <1>2 DEF Start
      <4>2. run[q].key # k
        BY <4>1, <1>2 DEF Start, InFlight
      <4> QED BY <4>1, <4>2, <1>2 DEF Start
    <3> QED BY <3>1, <3>2
  <2> QED BY <2>1, <2>2, <2>3
<1>3. ASSUME NEW r \in Run, Finish(r) \/ FinishCancelled(r) PROVE IInv'
  BY <1>3 DEF Finish, FinishCancelled
<1>4. ASSUME NEW r \in Run, Retire(r) PROVE IInv'
  <2>1. run'[r].status = run[r].status /\ ~ Live(r)
    BY <1>4 DEF Retire
  <2>2. \A q \in Run :
          run'[q].status = run[q].status /\ run'[q].key = run[q].key
    BY <1>4 DEF Retire
  <2>3. ASSUME NEW k \in Key
        PROVE  registry'[k] \in { registry[k], None }
               /\ (registry[k] # r => registry'[k] = registry[k])
    BY <1>4 DEF Retire
  <2>4. TypeOK'
    <3>1. TypeOK
      OBVIOUS
    <3> HIDE DEF IInv, Filed, Created, LiveRunsAreHeld
    <3>2. (registry \in [Key -> Run \cup { None }])'
      BY <3>1, <1>4 DEF Retire
    <3>3. (run \in [Run -> [key     : Key \cup { None },
                           status  : RunStatus,
                           retired : BOOLEAN]])'
      <4> HIDE DEF RunStatus
      <4> DEFINE Record ==
            [key : Key \cup { None }, status : RunStatus, retired : BOOLEAN]
      <4>0. run[r] \in Record
        BY <3>1
      <4>1. [run[r] EXCEPT !.retired = TRUE] \in Record
        <5> HIDE DEF TypeOK, Live, Done
        <5> QED BY <4>0
      <4>2. run' = [run EXCEPT ![r] = [run[r] EXCEPT !.retired = TRUE]]
        BY <1>4 DEF Retire
      <4> QED BY <3>1, <4>1, <4>2
    <3> QED BY <3>1, <3>2, <3>3, <1>4 DEF Retire
  <2>5. Filed' /\ Created'
    BY <2>2, <2>3
  <2>6. LiveRunsAreHeld'
    BY <2>1, <2>2, <2>3
  <2> QED BY <2>4, <2>5, <2>6
<1>5. ASSUME NEW w \in Waiter, Wake(w) \/ CancelRequest(w) PROVE IInv'
  BY <1>5 DEF Wake, CancelRequest, Await
<1>6. ASSUME NEW limited \in DrainLimits, StartDrain(limited) PROVE IInv'
  <2>1. { registry[k] : k \in { j \in Key : InFlight(j) } } \subseteq Run
    BY DEF InFlight
  <2> QED BY <1>6, <2>1 DEF StartDrain, NoDrain
<1>7. ASSUME FinishDrain PROVE IInv'
  BY <1>7 DEF FinishDrain, NoDrain
<1>8. ASSUME DrainTimesOut PROVE IInv'
  <2>1. \A q \in Run :
          /\ run'[q].key = run[q].key
          /\ Live(q)' <=> Live(q)
          /\ run'[q].status = "new" <=> run[q].status = "new"
    BY <1>8 DEF DrainTimesOut
  <2>2. registry' = registry
    BY <1>8 DEF DrainTimesOut
  <2>3. TypeOK'
    <3>1. TypeOK
      OBVIOUS
    <3> HIDE DEF IInv, Filed, Created, LiveRunsAreHeld
    <3>2. (run \in [Run -> [key     : Key \cup { None },
                           status  : RunStatus,
                           retired : BOOLEAN]])'
      BY <3>1, <1>8 DEF DrainTimesOut
    <3> QED BY <3>1, <3>2, <1>8 DEF DrainTimesOut
  <2>4. Filed' /\ Created' /\ LiveRunsAreHeld'
    BY <2>1, <2>2
  <2> QED BY <2>3, <2>4
<1>9. ASSUME UNCHANGED vars PROVE IInv'
  BY <1>9 DEF vars
<1> QED BY <1>1, <1>2, <1>3, <1>4, <1>5, <1>6, <1>7, <1>8, <1>9 DEF Next

LEMMA RegistryInvariant == Spec => []IInv
  BY InitHolds, NextKeeps, PTL DEF Spec

(* Every reachable state of the registry is well typed, and so in          *)
(* particular every run it names exists (waiting.py, RunRegistry).         *)
THEOREM RegistryTypeCorrect == Spec => []TypeOK
<1>1. IInv => TypeOK
  BY DEF IInv
<1> QED BY <1>1, RegistryInvariant, PTL

(* However requests, callbacks and drains interleave, a run that has not   *)
(* ended is the one its key names: run() never starts a second one beside  *)
(* it and _retire never drops it.                                          *)
THEOREM RegistryHoldsLiveRuns == Spec => []LiveRunsAreHeld
<1>1. IInv => LiveRunsAreHeld
  BY DEF IInv
<1> QED BY <1>1, RegistryInvariant, PTL

(* A request that run() attaches or starts waits for a run in flight, even *)
(* while the registry still names ended runs whose callbacks are queued.   *)
THEOREM RegistryAnswersAreFresh == Spec => AnswersAreFresh
<1>1. IInv /\ [Next]_vars =>
        [\A w \in Waiter :
           \A r \in Run : waiter[w] = None /\ waiter'[w] = r => Live(r)']_vars
  <2> SUFFICES ASSUME IInv, [Next]_vars,
                      NEW w \in Waiter, NEW r \in Run,
                      waiter[w] = None, waiter'[w] = r
               PROVE  Live(r)'
    OBVIOUS
  <2> USE RegistryAssumption DEF IInv, TypeOK, RunStatus, Live, Done
  <2>1. ASSUME NEW v \in Waiter, NEW k \in Key, Attach(v, k) PROVE Live(r)'
    BY <2>1 DEF Attach, Await, InFlight, Filed
  <2>2. ASSUME NEW v \in Waiter, NEW k \in Key, NEW q \in Run, Start(v, k, q)
        PROVE  Live(r)'
    BY <2>2 DEF Start, Await
  <2>3. ASSUME NEW v \in Waiter, Wake(v) \/ CancelRequest(v) PROVE FALSE
    BY <2>3 DEF Wake, CancelRequest, Await
  <2>4. ASSUME UNCHANGED waiter PROVE FALSE
    BY <2>4
  <2> QED
    BY <2>1, <2>2, <2>3, <2>4
       DEF Next, vars, Finish, FinishCancelled, Retire, StartDrain, FinishDrain,
           DrainTimesOut
<1> QED BY <1>1, RegistryInvariant, PTL DEF Spec, AnswersAreFresh

(* No request, whether it gives up, returns or joins, cancels a run: only  *)
(* the time limit of a drain that gathered the run does (asyncio.shield).  *)
THEOREM RegistryShieldsRuns == Spec => RunsOutliveRequests
<1>1. IInv /\ [Next]_vars =>
        [\A r \in Run :
           run[r].status = "live" /\ run'[r].status = "cancelling"
             => drain.limited /\ r \in drain.pending]_vars
  <2> SUFFICES ASSUME IInv, [Next]_vars, NEW r \in Run,
                      run[r].status = "live", run'[r].status = "cancelling"
               PROVE  drain.limited /\ r \in drain.pending
    OBVIOUS
  <2> USE DEF IInv, TypeOK, RunStatus
  <2>1. ASSUME NEW w \in Waiter, NEW k \in Key, NEW q \in Run, Start(w, k, q)
        PROVE  FALSE
    BY <2>1 DEF Start
  <2>2. ASSUME NEW q \in Run, Finish(q) \/ FinishCancelled(q) \/ Retire(q)
        PROVE  FALSE
    BY <2>2 DEF Finish, FinishCancelled, Retire
  <2>3. ASSUME DrainTimesOut PROVE drain.limited /\ r \in drain.pending
    BY <2>3 DEF DrainTimesOut
  <2>4. ASSUME UNCHANGED run PROVE FALSE
    BY <2>4
  <2> QED
    BY <2>1, <2>2, <2>3, <2>4
       DEF Next, vars, Attach, Wake, CancelRequest, StartDrain, FinishDrain
<1> QED BY <1>1, RegistryInvariant, PTL DEF Spec, RunsOutliveRequests
=============================================================================
