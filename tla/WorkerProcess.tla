--------------------------- MODULE WorkerProcess ---------------------------
(***************************************************************************)
(* A child process from its preflight to its verdict: run_worker           *)
(* (runner.py), which runs Claude once, and run_validations               *)
(* (validation.py), which runs the trusted commands one after another.     *)
(*                                                                         *)
(* The child leads a process group; it may leave members behind, which may *)
(* keep its pipes open and ignore SIGTERM.  Bytes are numbered; every      *)
(* second one, from the first on, is a newline.  A timer of the code may   *)
(* fire whenever the code waits under it.                                  *)
(***************************************************************************)
EXTENDS Integers, Sequences, SequencesExt

CONSTANTS
  Member,       \* bound: processes the leader may leave in its group
  MaxBytes,     \* bound: bytes ever written, by kind of call and stream
  Cap,          \* MAX_CAPTURED_BYTES, _TAIL_BYTES: kept of either end
  BufferLimit,  \* bytes an unread pipe buffers before reading pauses
  Commands,     \* bound: commands of the envelope
  Cancellable   \* whether the call may be cancelled

Stream == { "stdout", "stderr" }

ASSUME ProcessAssumption ==
  /\ MaxBytes \in [{ "worker", "validation" } -> [Stream -> Nat]]
  /\ Cap \in Nat \ { 0 } /\ BufferLimit \in Nat /\ Commands \in Nat \ { 0 }
  /\ Cancellable \in BOOLEAN

VARIABLES
  runtime,   \* does a pending proc.wait() also wait for the pipes to close
  call,      \* run_worker or run_validations
  leader,    \* the child it started last
  member,    \* what the child left in its group
  pipe,      \* bytes written and bytes read, per stream
  capture,   \* StreamCapture, per stream
  journal,   \* the rows of the validation journal
  results    \* one WorkerRun, or the ValidationResults

vars == << runtime, call, leader, member, pipe, capture, journal, results >>

Awaits == { "wait", "grace", "reap", "drain" }

PC == { "start", "spawning", "on_spawn", "refuse_grace", "refuse_wait",
        "finish", "returned", "raised", "cancelled" } \cup Awaits

Ended == { "returned", "raised", "cancelled" }

NoMember == [state |-> "unborn", stubborn |-> FALSE, holds |-> FALSE]

NoLeader == [state |-> "none", stubborn |-> FALSE, exit |-> "none", hit |-> FALSE]

EmptyCapture(spooled) ==
  [total |-> 0, head |-> << >>, tail |-> << >>, pending |-> << >>,
   spool |-> << >>, spooled |-> spooled]

NoBytes == [s \in Stream |-> [written |-> 0, read |-> 0]]

Init ==
  /\ runtime \in [waits_for_pipes : BOOLEAN]
  /\ call \in [kind : { "worker", "validation" }, pc : { "start" },
               timed_out : { FALSE }, sigkill : { FALSE }, known : { FALSE }]
  /\ leader = NoLeader
  /\ member = [m \in Member |-> NoMember]
  /\ pipe = NoBytes
  /\ capture = [s \in Stream |-> EmptyCapture(FALSE)]
  /\ journal = << >>
  /\ results = << >>
-----------------------------------------------------------------------------
(* StreamCapture *)

Newline(byte) == byte % 2 = 1

LastBytes(bytes, n) ==
  SubSeq(bytes, IF Len(bytes) > n THEN Len(bytes) - n + 1 ELSE 1, Len(bytes))

\* The longest prefix that ends in a newline, and what follows it.
LineCut(bytes) ==
  LET ends == { i \in 1 .. Len(bytes) : Newline(bytes[i]) }
  IN  IF ends = {} THEN 0 ELSE CHOOSE i \in ends : \A j \in ends : j <= i

\* Mutant of SpoolWrite: redacts whatever has come.
SpoolWrite_Unlined(s, c, chunk) ==
  IF c.spooled THEN [c EXCEPT !.spool = @ \o chunk] ELSE c

\* Stderr is redacted line by line on its way to disk, so its last line is
\* held back until it ends.
SpoolWrite(s, c, chunk) ==
  IF ~ c.spooled THEN c
  ELSE IF s = "stdout" THEN [c EXCEPT !.spool = @ \o chunk]
  ELSE LET buffered == c.pending \o chunk
           cut      == LineCut(buffered)
       IN  [c EXCEPT !.spool   = @ \o SubSeq(buffered, 1, cut),
                     !.pending = SubSeq(buffered, cut + 1, Len(buffered))]

\* Mutant of Feed: the head keeps a chunk whole.
Feed_WholeChunk(s, c, chunk) ==
  SpoolWrite(s, [c EXCEPT
    !.total = @ + Len(chunk),
    !.head  = IF Len(@) < Cap THEN @ \o chunk ELSE @,
    !.tail  = LastBytes(@ \o chunk, Cap)], chunk)

Feed(s, c, chunk) ==
  SpoolWrite(s, [c EXCEPT
    !.total = @ + Len(chunk),
    !.head  = @ \o SubSeq(chunk, 1,
                          IF Len(chunk) < Cap - Len(@) THEN Len(chunk)
                          ELSE Cap - Len(@)),
    !.tail  = LastBytes(@ \o chunk, Cap)], chunk)

Close(c) == [c EXCEPT !.spool = @ \o c.pending, !.pending = << >>]

Truncated(c) == c.total > 2 * Cap

\* text(): head and tail overlap up to twice the cap; beyond it the marker
\* between them names how much is missing.
Text(c) ==
  IF c.total <= Cap THEN [bytes |-> c.head, omitted |-> 0]
  ELSE IF c.total <= 2 * Cap
    THEN [bytes   |-> c.head \o SubSeq(c.tail, 2 * Cap - c.total + 1, Len(c.tail)),
          omitted |-> 0]
  ELSE [bytes   |-> c.head \o c.tail,
        omitted |-> c.total - Len(c.head) - Len(c.tail)]

\* The structured result is the last line; it parses if it is whole.
RecoverLine(bytes) ==
  IF Len(bytes) >= 2 /\ Newline(Last(bytes))
    THEN SubSeq(bytes, Len(bytes) - 1, Len(bytes))
    ELSE << >>

\* structured_stdout: from the spool, else from the tail that was kept.
Structured_TailOnly(c) == IF Truncated(c) THEN RecoverLine(c.tail) ELSE << >>

Structured(c) ==
  IF ~ Truncated(c) THEN << >>
  ELSE IF c.spooled /\ RecoverLine(c.spool) # << >> THEN RecoverLine(c.spool)
  ELSE RecoverLine(c.tail)
-----------------------------------------------------------------------------
(* The process group *)

Running == leader.state = "running"

Reaped == leader.state = "reaped"

Holders == Running \/ \E m \in Member : member[m].state = "alive" /\ member[m].holds

Pumping == call.pc \in Awaits

\* The transport saw the end of the pipe.  Unread, it stops reading at its
\* limit and never sees it.
Disconnected(s) ==
  /\ ~ Holders
  /\ IF Pumping THEN pipe[s].read = pipe[s].written
                ELSE pipe[s].written <= BufferLimit

\* A wait begun when the return code is known ends at once; one already
\* pending may, by the version of asyncio, wait for the pipes as well.
WaitDone ==
  /\ Reaped
  /\ \/ call.known
     \/ ~ runtime.waits_for_pipes
     \/ \A s \in Stream : Disconnected(s)

\* os.killpg(os.getpgid(pid)): there is no group to find once the child was
\* reaped.  SIGTERM may be ignored, SIGKILL may not.
Killpg(sig) ==
  LET reached == leader.state \in { "running", "zombie" }
      dies(p) == reached /\ (sig = "KILL" \/ ~ p.stubborn)
  IN  /\ leader' = IF Running /\ dies(leader)
                     THEN [leader EXCEPT !.state = "zombie", !.exit = "signal",
                                         !.hit = TRUE]
                     ELSE [leader EXCEPT !.hit = @ \/ (Running /\ reached)]
      /\ member' = [m \in Member |->
                      IF member[m].state = "alive" /\ dies(member[m])
                        THEN [member[m] EXCEPT !.state = "dead"]
                        ELSE member[m]]

\* The steps of the child and of the system around it.
Fork(m, stubborn, holds) ==
  /\ Running
  /\ member[m].state = "unborn"
  /\ member' = [member EXCEPT ![m] =
                  [state |-> "alive", stubborn |-> stubborn, holds |-> holds]]
  /\ UNCHANGED << runtime, call, leader, pipe, capture, journal, results >>

Write(s) ==
  /\ Holders
  /\ pipe[s].written < MaxBytes[call.kind][s]
  /\ pipe' = [pipe EXCEPT ![s].written = @ + 1]
  /\ UNCHANGED << runtime, call, leader, member, capture, journal, results >>

LeaderExits(exit) ==
  /\ Running
  /\ leader' = [leader EXCEPT !.state = "zombie", !.exit = exit]
  /\ UNCHANGED << runtime, call, member, pipe, capture, journal, results >>

Reap ==
  /\ leader.state = "zombie"
  /\ leader' = [leader EXCEPT !.state = "reaped"]
  /\ UNCHANGED << runtime, call, member, pipe, capture, journal, results >>

MemberExits(m) ==
  /\ member[m].state = "alive"
  /\ member' = [member EXCEPT ![m].state = "dead"]
  /\ UNCHANGED << runtime, call, leader, pipe, capture, journal, results >>

\* _pump, _read_into: a chunk is what has come, or part of it.
Pump(s, n) ==
  /\ Pumping
  /\ n \in 1 .. pipe[s].written - pipe[s].read
  /\ LET chunk == [i \in 1 .. n |-> pipe[s].read + i]
     IN  capture' = [capture EXCEPT ![s] = Feed(s, @, chunk)]
  /\ pipe' = [pipe EXCEPT ![s].read = @ + n]
  /\ UNCHANGED << runtime, call, leader, member, journal, results >>
-----------------------------------------------------------------------------
(* Preflight and spawn *)

Worker == call.kind = "worker"

Sequence == Len(results) + 1

Row(event) == [sequence |-> Sequence, event |-> event]

Goto(pc) == call' = [call EXCEPT !.pc = pc]

\* A result that never had a child; run_validations goes on with the next
\* command, whatever became of this one.
ChildlessResult ==
  [exit |-> "none", timed_out |-> FALSE, sigkill |-> FALSE, passed |-> FALSE,
   structured |-> << >>]

Report(result) ==
  /\ results' = Append(results, result)
  /\ call' = [call EXCEPT !.pc = IF Worker \/ Len(results) + 1 = Commands
                                   THEN "returned" ELSE "start",
                          !.timed_out = FALSE, !.sigkill = FALSE, !.known = FALSE]

Processes == << leader, member, pipe, capture >>

\* measure_execve_transport: an argv that no exec can carry.  A worker is
\* refused, a validation command is reported as failed.
TransportRefused ==
  /\ call.pc = "start"
  /\ IF Worker
       THEN Goto("raised") /\ UNCHANGED << journal, results >>
       ELSE Report(ChildlessResult) /\ journal' = Append(journal, Row("spawn_refused"))
  /\ UNCHANGED << runtime, Processes >>

\* An unusable spool or journal refuses before anything runs.
NoRecordNoRun ==
  /\ call.pc = "start"
  /\ Goto("raised")
  /\ UNCHANGED << runtime, Processes, journal, results >>

\* Mutant of PrepareRun: the attempt is journalled with the completion.
PrepareRun_Late(spooled) ==
  /\ call.pc = "start"
  /\ Goto("spawning")
  /\ capture' = [s \in Stream |-> EmptyCapture(Worker /\ spooled)]
  /\ leader' = NoLeader
  /\ member' = [m \in Member |-> NoMember]
  /\ pipe' = NoBytes
  /\ UNCHANGED << runtime, journal, results >>

\* The spools are open, or the attempt is durable, before the child exists.
PrepareRun(spooled) ==
  /\ call.pc = "start"
  /\ Goto("spawning")
  /\ capture' = [s \in Stream |-> EmptyCapture(Worker /\ spooled)]
  /\ journal' = IF Worker THEN journal ELSE Append(journal, Row("spawn_attempt"))
  /\ leader' = NoLeader
  /\ member' = [m \in Member |-> NoMember]
  /\ pipe' = NoBytes
  /\ UNCHANGED << runtime, results >>

Spawn(stubborn) ==
  /\ call.pc = "spawning"
  /\ leader' = [NoLeader EXCEPT !.state = "running", !.stubborn = stubborn]
  /\ Goto(IF Worker THEN "on_spawn" ELSE "wait")
  /\ UNCHANGED << runtime, member, pipe, capture, journal, results >>

\* Not found, not executable, or E2BIG after all: a worker's call raises.
SpawnRefused ==
  /\ call.pc = "spawning"
  /\ Worker
  /\ Goto("raised")
  /\ UNCHANGED << runtime, Processes, journal, results >>

\* Any other failure to start is a result.
SpawnFailed ==
  /\ call.pc = "spawning"
  /\ Report(ChildlessResult)
  /\ journal' = IF Worker THEN journal ELSE Append(journal, Row("completion"))
  /\ UNCHANGED << runtime, Processes >>

SpawnAccepted ==
  /\ call.pc = "on_spawn"
  /\ Goto("wait")
  /\ UNCHANGED << runtime, Processes, journal, results >>

\* on_spawn raised: the child must go before the call does.
SpawnRejected ==
  /\ call.pc = "on_spawn"
  /\ Killpg("TERM")
  /\ call' = [call EXCEPT !.pc = "refuse_grace", !.known = Reaped]
  /\ UNCHANGED << runtime, pipe, capture, journal, results >>

\* Mutant of RefusedChildLingers: the grace period is all there is.
RefusedChildLingers_NoKill ==
  /\ call.pc = "refuse_grace"
  /\ Goto("raised")
  /\ UNCHANGED << runtime, Processes, journal, results >>

RefusedChildLingers ==
  /\ call.pc = "refuse_grace"
  /\ Killpg("KILL")
  /\ call' = [call EXCEPT !.pc = "refuse_wait", !.known = Reaped]
  /\ UNCHANGED << runtime, pipe, capture, journal, results >>

RefusedChildGone ==
  /\ call.pc \in { "refuse_grace", "refuse_wait" }
  /\ WaitDone
  /\ Goto("raised")
  /\ capture' = [s \in Stream |-> Close(capture[s])]
  /\ UNCHANGED << runtime, leader, member, pipe, journal, results >>
-----------------------------------------------------------------------------
(* Waiting, the timeout and the drain *)

WaitEnds ==
  /\ call.pc \in { "wait", "grace", "reap" }
  /\ WaitDone
  /\ Goto("drain")
  /\ UNCHANGED << runtime, Processes, journal, results >>

\* The deadline: SIGTERM to the group, and a second wait.
DeadlinePasses ==
  /\ call.pc = "wait"
  /\ Killpg("TERM")
  /\ call' = [call EXCEPT !.pc = "grace", !.timed_out = TRUE, !.known = Reaped]
  /\ UNCHANGED << runtime, pipe, capture, journal, results >>

\* run_worker records whether the signal could be sent, _terminate that it
\* came to that.
GracePasses ==
  /\ call.pc = "grace"
  /\ Killpg("KILL")
  /\ call' = [call EXCEPT !.pc = "reap", !.known = Reaped,
                          !.sigkill = Worker => leader.state # "reaped"]
  /\ UNCHANGED << runtime, pipe, capture, journal, results >>

ReapGivenUp ==
  /\ call.pc = "reap"
  /\ Goto("drain")
  /\ UNCHANGED << runtime, Processes, journal, results >>

\* Both pumps came to the end of their pipe, or are cancelled: a process that
\* keeps a pipe open cannot keep the call.  What was read stays.
StopPumps ==
  /\ call.pc = "drain"
  /\ Goto("finish")
  /\ capture' = [s \in Stream |-> Close(capture[s])]
  /\ UNCHANGED << runtime, leader, member, pipe, journal, results >>

\* Mutant of DrainEnds: the pipes must close.
DrainEnds_Unbounded ==
  (\A s \in Stream : Disconnected(s)) /\ StopPumps

DrainEnds == StopPumps

\* proc.returncode: None while the child is not known to have ended.
ExitCode == IF Reaped THEN leader.exit ELSE "none"

Passed_AnyZero == ExitCode = "zero"

Passed == ExitCode = "zero" /\ ~ call.timed_out

Finish ==
  /\ call.pc = "finish"
  /\ Report([exit       |-> ExitCode,
             timed_out  |-> call.timed_out,
             sigkill    |-> call.sigkill,
             passed     |-> Passed,
             structured |-> IF Worker THEN Structured(capture["stdout"]) ELSE << >>])
  /\ journal' = IF Worker THEN journal ELSE Append(journal, Row("completion"))
  /\ UNCHANGED << runtime, Processes >>

\* A row of the journal cannot be written: the pass ends there.
CompletionLost ==
  /\ ~ Worker
  /\ call.pc \in { "spawning", "finish" }
  /\ Goto("raised")
  /\ UNCHANGED << runtime, Processes, journal, results >>

\* The task is cancelled (RunRegistry, DrainTimesOut): nothing stops the child.
Cancel ==
  /\ Cancellable
  /\ call.pc \in Awaits \cup { "refuse_grace", "refuse_wait" }
  /\ Goto("cancelled")
  /\ capture' = [s \in Stream |-> Close(capture[s])]
  /\ UNCHANGED << runtime, leader, member, pipe, journal, results >>
-----------------------------------------------------------------------------
\* The child is followed as long as the call.
Child ==
  /\ call.pc \notin Ended
  /\ \/ \E m \in Member : \/ MemberExits(m)
                          \/ \E stubborn, holds \in BOOLEAN : Fork(m, stubborn, holds)
     \/ \E s \in Stream : Write(s)
     \/ \E exit \in { "zero", "nonzero" } : LeaderExits(exit)

Code ==
  \/ TransportRefused \/ NoRecordNoRun
  \/ \E choice \in BOOLEAN : PrepareRun(choice) \/ Spawn(choice)
  \/ SpawnRefused \/ SpawnFailed \/ SpawnAccepted \/ SpawnRejected
  \/ RefusedChildLingers \/ RefusedChildGone
  \/ WaitEnds \/ DeadlinePasses \/ GracePasses \/ ReapGivenUp
  \/ DrainEnds \/ Finish \/ CompletionLost

Pumps == \E s \in Stream : \E n \in 1 .. MaxBytes[call.kind][s] : Pump(s, n)

Next == Child \/ Code \/ Reap \/ Pumps \/ Cancel

Spec == Init /\ [][Next]_vars

\* The event loop runs what is ready and every timer fires; the kernel reaps.
\* Nothing is assumed of the child.
FairSpec == Spec /\ WF_vars(Code) /\ WF_vars(Reap) /\ WF_vars(Pumps)
-----------------------------------------------------------------------------
(* Properties *)

StreamUpTo(n) == [i \in 1 .. n |-> i]

\* Retention loses nothing unsaid: the kept text of a stream is what was read
\* of it, or both its ends with the exact count of what is missing ("never
\* silently claim full evidence", WorkerRun).
ExcerptsAreHonest ==
  \A s \in Stream :
    LET c    == capture[s]
        kept == Text(c)
        read == StreamUpTo(c.total)
    IN  /\ kept.omitted = 0 => kept.bytes = read
        /\ kept.omitted # 0 =>
             /\ kept.omitted = c.total - Len(kept.bytes)
             /\ IsPrefix(SubSeq(kept.bytes, 1, Cap), read)
             /\ IsSuffix(LastBytes(kept.bytes, Cap), read)

\* However a stream is cut into chunks, the redacted spool grows by whole
\* lines only, so that no secret is halved on its way to disk, and holds every
\* byte read once it is closed.
SpoolsKeepLines ==
  capture["stderr"].spooled =>
    LET c == capture["stderr"]
    IN  /\ c.spool \o c.pending = StreamUpTo(c.total)
        /\ Pumping => (c.spool = << >> \/ Newline(Last(c.spool)))

\* The result a worker printed last survives any volume of output before it,
\* if a spool was asked for and the whole stream was read (P1-8).
ResultSurvivesVolume ==
  Worker /\ call.pc = "returned" /\ capture["stdout"].spooled =>
    LET total == capture["stdout"].total
    IN  Truncated(capture["stdout"]) /\ Newline(total)
          => results[1].structured = << total - 1, total >>

\* A command passes only if it ended with zero before its deadline and before
\* any signal of the dispatcher, one that ends with zero when it is told to
\* stop included.
PassesAreEarned ==
  [][ Len(results') > Len(results) /\ Last(results').passed
        => leader.exit = "zero" /\ ~ leader.hit /\ ~ Last(results').timed_out ]_vars

\* No validation child ever ran that the journal does not announce, and no
\* result is reported that it does not close.
JournalCoversRuns ==
  ~ Worker =>
    /\ leader.state # "none" /\ call.pc \in Awaits =>
         Contains(journal, Row("spawn_attempt"))
    /\ \A i \in 1 .. Len(results) :
         \E event \in { "completion", "spawn_refused" } :
           Contains(journal, [sequence |-> i, event |-> event])

\* A call that returned or raised left no child running: the lock its caller
\* is about to release guards one worker (Dispatcher).
EndedCallsLeaveNoChild == call.pc \in { "returned", "raised" } => ~ Running

\* Once a child was accepted its call ends, whatever it and those it left
\* behind do ("a stray grandchild holding the pipe open cannot wedge the
\* dispatcher", run_worker).
CallEnds == call.pc \in Awaits ~> call.pc \in Ended \cup { "start" }
=============================================================================
