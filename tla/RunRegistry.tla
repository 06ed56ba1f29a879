---------------------------- MODULE RunRegistry ----------------------------
(***************************************************************************)
(* The registry of in-flight runs (waiting.py): every tool body that       *)
(* starts a Claude process runs as an asyncio task the registry owns, and  *)
(* the requests only observe it.  One dispatcher process, one event loop:  *)
(* an action is what runs between two returns to the loop.                 *)
(*                                                                         *)
(* When a task ends its callbacks are queued, not called: for a while the  *)
(* registry still names a run that is done, its waiters have not woken,    *)
(* and new requests, cancellations and drains may come first.              *)
(***************************************************************************)
EXTENDS FiniteSets

CONSTANTS
  Key,          \* what makes two requests the same (task and arguments)
  Run,          \* asyncio tasks; bound: how many are ever created
  Waiter,       \* MCP requests; a slot is reused once its request ended
  DrainLimits,  \* subset of BOOLEAN: drains without a timeout, with one
  None          \* no run, no key

ASSUME RegistryAssumption ==
  /\ DrainLimits \subseteq BOOLEAN
  /\ None \notin Run \cup Key

VARIABLES
  registry,     \* key -> the run it names, or None
  run,          \* asyncio task -> its key, its status, its callbacks
  waiter,       \* request -> the run it awaits, or None
  drain         \* the caller of drain(): the runs it gathered, or {}

vars == << registry, run, waiter, drain >>

RunStatus == { "new", "live", "cancelling", "done", "cancelled" }

TypeOK ==
  /\ registry \in [Key -> Run \cup { None }]
  /\ run \in [Run -> [key     : Key \cup { None },
                      status  : RunStatus,
                      retired : BOOLEAN]]
  /\ waiter \in [Waiter -> Run \cup { None }]
  /\ drain \in [pending : SUBSET Run, limited : BOOLEAN]

NoDrain == [pending |-> {}, limited |-> FALSE]

Init ==
  /\ registry = [k \in Key |-> None]
  /\ run = [r \in Run |-> [key |-> None, status |-> "new", retired |-> FALSE]]
  /\ waiter = [w \in Waiter |-> None]
  /\ drain = NoDrain
-----------------------------------------------------------------------------
\* Created and not ended: its body runs, or unwinds from a cancellation.
Live(r) == run[r].status \in { "live", "cancelling" }

\* task.done(): ended, whether or not its callbacks have run.
Done(r) == run[r].status \in { "done", "cancelled" }

InFlight(k) == registry[k] # None /\ ~ Done(registry[k])

Await(w, r) == waiter' = [waiter EXCEPT ![w] = r]

\* Mutant of Attach: whatever the registry still names is in flight.
Attach_Ended(w, k) ==
  /\ waiter[w] = None
  /\ registry[k] # None
  /\ Await(w, registry[k])
  /\ UNCHANGED << registry, run, drain >>

\* run(): a request for a key in flight awaits the same task.
Attach(w, k) ==
  /\ waiter[w] = None
  /\ InFlight(k)
  /\ Await(w, registry[k])
  /\ UNCHANGED << registry, run, drain >>

\* run(): otherwise a task is created and registered, if need be over one
\* that is done and not retired yet.
Start(w, k, r) ==
  /\ waiter[w] = None
  /\ ~ InFlight(k)
  /\ run[r].status = "new"
  /\ run' = [run EXCEPT ![r].key = k, ![r].status = "live"]
  /\ registry' = [registry EXCEPT ![k] = r]
  /\ Await(w, r)
  /\ UNCHANGED drain

\* The tool body returns a payload: _guarded lets no error past.
Finish(r) ==
  /\ run[r].status = "live"
  /\ run' = [run EXCEPT ![r].status = "done"]
  /\ UNCHANGED << registry, waiter, drain >>

\* A cancelled body has unwound: _guarded catches Exception, and
\* CancelledError is not one.
FinishCancelled(r) ==
  /\ run[r].status = "cancelling"
  /\ run' = [run EXCEPT ![r].status = "cancelled"]
  /\ UNCHANGED << registry, waiter, drain >>

\* Mutant of Retire: no identity check.
Retire_AnyRun(r) ==
  /\ Done(r)
  /\ ~ run[r].retired
  /\ registry' = [registry EXCEPT ![run[r].key] = None]
  /\ run' = [run EXCEPT ![r].retired = TRUE]
  /\ UNCHANGED << waiter, drain >>

\* _retire, the done callback: a newer run under the key is not evicted.
Retire(r) ==
  /\ Done(r)
  /\ ~ run[r].retired
  /\ registry' = IF registry[run[r].key] = r
                   THEN [registry EXCEPT ![run[r].key] = None]
                   ELSE registry
  /\ run' = [run EXCEPT ![r].retired = TRUE]
  /\ UNCHANGED << waiter, drain >>

\* Mutant of Wake: the waiter looks its run up in the registry again.
Wake_ByKey(w) ==
  /\ waiter[w] # None
  /\ Done(waiter[w])
  /\ registry[run[waiter[w]].key] = waiter[w]
  /\ Await(w, None)
  /\ UNCHANGED << registry, run, drain >>

\* The shield hands the end of the run on: the request returns its payload,
\* or raises CancelledError if the run was cancelled.
Wake(w) ==
  /\ waiter[w] # None
  /\ Done(waiter[w])
  /\ Await(w, None)
  /\ UNCHANGED << registry, run, drain >>

\* Mutant of CancelRequest: the request awaits the task itself.
CancelRequest_NoShield(w) ==
  /\ waiter[w] # None
  /\ run' = IF Live(waiter[w])
              THEN [run EXCEPT ![waiter[w]].status = "cancelling"]
              ELSE run
  /\ Await(w, None)
  /\ UNCHANGED << registry, drain >>

\* The client gives up or goes away: only the wait is cancelled.
CancelRequest(w) ==
  /\ waiter[w] # None
  /\ Await(w, None)
  /\ UNCHANGED << registry, run, drain >>
-----------------------------------------------------------------------------
(* drain() *)

\* Gathers what is held and not done; nothing to wait for returns at once.
StartDrain(limited) ==
  /\ drain = NoDrain
  /\ { k \in Key : InFlight(k) } # {}
  /\ drain' = [pending |-> { registry[k] : k \in { j \in Key : InFlight(j) } },
               limited |-> limited]
  /\ UNCHANGED << registry, run, waiter >>

FinishDrain ==
  /\ drain # NoDrain
  /\ \A r \in drain.pending : Done(r)
  /\ drain' = NoDrain
  /\ UNCHANGED << registry, run, waiter >>

\* asyncio.wait_for cancels what it waits for, a cancelled gather cancels
\* every task it gathered that has not ended, and wait_for returns once they
\* all have.
DrainTimesOut ==
  /\ drain.limited
  /\ run' = [r \in Run |->
               IF r \in drain.pending /\ Live(r)
                 THEN [run[r] EXCEPT !.status = "cancelling"]
                 ELSE run[r]]
  /\ drain' = [drain EXCEPT !.limited = FALSE]
  /\ UNCHANGED << registry, waiter >>
-----------------------------------------------------------------------------
Next ==
  \/ \E w \in Waiter, k \in Key : \/ Attach(w, k)
                                  \/ \E r \in Run : Start(w, k, r)
  \/ \E r \in Run : Finish(r) \/ FinishCancelled(r) \/ Retire(r)
  \/ \E w \in Waiter : Wake(w) \/ CancelRequest(w)
  \/ \E limited \in DrainLimits : StartDrain(limited)
  \/ FinishDrain \/ DrainTimesOut

Spec == Init /\ [][Next]_vars

\* Tool bodies end (Dispatcher, CallsReturn), save one that waits for a child
\* it refused, and the loop runs every callback it has queued.
FairSpec ==
  /\ Spec
  /\ \A r \in Run : /\ WF_vars(Finish(r))
                    /\ WF_vars(FinishCancelled(r))
                    /\ WF_vars(Retire(r))
  /\ \A w \in Waiter : WF_vars(Wake(w))
  /\ WF_vars(FinishDrain)
-----------------------------------------------------------------------------
(* Properties *)

\* A run that has not ended is the one its key names: no second run of a key
\* is ever started beside it ("a later waiter with the same key attaches
\* instead of starting a second worker"), and no live task is left without
\* the strong reference that keeps it from collection.
LiveRunsAreHeld == \A r \in Run : Live(r) => registry[run[r].key] = r

\* A request never begins to wait for a run that has ended: its answer was
\* made by a run that was in flight after it asked.
AnswersAreFresh ==
  [][ \A w \in Waiter :
        \A r \in Run : waiter[w] = None /\ waiter'[w] = r => Live(r)' ]_vars

\* A request that is cancelled, returns or joins late ends no run: a run is
\* cancelled, if at all, by the time limit of a drain that gathered it
\* ("cancelling the caller cancels only the wait", waiting.py).
RunsOutliveRequests ==
  [][ \A r \in Run :
        run[r].status = "live" /\ run'[r].status = "cancelling"
          => drain.limited /\ r \in drain.pending ]_vars

\* Every wait ends, that of drain included, and a run that ended leaves the
\* registry.
WaitsEnd ==
  /\ \A w \in Waiter : waiter[w] # None ~> waiter[w] = None
  /\ drain # NoDrain ~> drain = NoDrain
  /\ \A r \in Run : Done(r) ~> \A k \in Key : registry[k] # r
=============================================================================
