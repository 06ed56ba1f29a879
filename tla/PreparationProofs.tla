------------------------- MODULE PreparationProofs -------------------------
(***************************************************************************)
(* Theorems about Preparation for every value of its constants: any base   *)
(* tree, any number of calls, of changes by whatever else uses the         *)
(* repository and of faults, between any two steps.                        *)
(*                                                                         *)
(* Two captures that agree prove that the layout was whole because a part  *)
(* that changes while a call looks gets a number no part has had.  A seal  *)
(* that is authenticated proves what was read of it before that for the    *)
(* same reason: to be put back, a file would have to be written from a     *)
(* repository that still is what it was.                                   *)
(***************************************************************************)
EXTENDS Preparation, FiniteSetTheorems, SequenceTheorems, TLAPS

CallFields == DOMAIN NoCall

Walking == call.step \in Range(Steps(call.kind))

AnchorSet == [link : Nat, common : Nat]

\* No part of it is newer than the n-th change.
OldAt(layout, n) ==
  /\ layout \in Layout
  /\ layout.root <= n
  /\ layout.dot_git <= n
  /\ layout.commondir <= n

Old(layout) == OldAt(layout, spent.changes)

Types ==
  /\ DOMAIN call = CallFields
  /\ call.kind \in { "dispatch", "resume" }
  /\ call.step \in { "idle", "over", "running" } \/ Walking
  /\ Old(call.seen)
  /\ call.authority = None \/ Old(call.authority)
  /\ spent \in [changes : Nat, faults : Nat, calls : Nat]
  /\ DOMAIN live = { "layout", "exact", "loose", "head", "tree" }
  /\ live.layout \in layouts
  /\ \A l \in layouts : Old(l)
  /\ DOMAIN worktree = DOMAIN NoWorktree
  /\ worktree.link \in Nat /\ worktree.common \in Nat
  /\ worktree.link <= spent.changes

\* What the seal was published with, while there is one.
HasSeal == "seal-manifest" \in DOMAIN sealed

SealedAuthority == sealed["seal-manifest"]["repository-authority"]

SealedAnchor == sealed["seal-manifest"]["worktree-authority"]

\* Nothing but a dispatch that has come so far makes a worker or a seal.
Beginnings ==
  /\ spent.calls = 0 => call.step = "idle"
  /\ call.step = "idle" =>
       spent.calls = 0 /\ call.kind = "dispatch" /\ staging = NoFiles
  /\ Walking /\ call.kind = "dispatch" => launched = << >>
  /\ HasSeal => \/ call.step \in { "over", "running" }
                \/ call.kind = "resume"
                \/ Walking /\ Past("publish")
  /\ call.kind = "resume" \/ launched # << >> => HasSeal

\* The files of the seal: a link that was written later is newer, or the same.
SealFits ==
  HasSeal =>
    /\ { "repository-authority", "worktree-authority" }
         \subseteq DOMAIN sealed["seal-manifest"]
    /\ Old(SealedAuthority)
    /\ SealedAnchor \in AnchorSet
    /\ SealedAnchor.common = worktree.common
    /\ "repository-authority" \in DOMAIN sealed => Old(sealed["repository-authority"])
    /\ "worktree-authority" \in DOMAIN sealed =>
         LET now == sealed["worktree-authority"]
         IN  /\ now \in AnchorSet /\ now.common = worktree.common
             /\ SealedAnchor.link <= now.link /\ now.link <= worktree.link
    /\ SealedAnchor.link <= worktree.link

\* n is still a, or newer than a and b.
Kept(a, n, b) == n = a \/ (n > a /\ n > b)

KeptDotGit(a, l, b) ==
  /\ Kept(a.dot_git, l.dot_git, b)
  /\ l.dot_git = a.dot_git => l.shape = a.shape

\* What the parts of a layout that were read before are compared with.
Reference == IF HasSeal THEN SealedAuthority ELSE FirstLayout

\* The first capture: what was seen is still there, or gone for good.
FirstCapture ==
  Walking =>
    /\ Past("root") /\ ~ Past("matches") =>
         Kept(call.seen.root, live.layout.root, Reference.root)
    /\ Past("dot_git") /\ ~ Past("matches") =>
         KeptDotGit(call.seen, live.layout, Reference.dot_git)
    /\ Past("commondir") /\ ~ Past("matches") =>
         Kept(call.seen.commondir, live.layout.commondir, Reference.commondir)
    /\ Past("matches") =>
         /\ Old(call.authority)
         /\ Kept(call.authority.root, live.layout.root, Reference.root)
         /\ KeptDotGit(call.authority, live.layout, Reference.dot_git)
         /\ Kept(call.authority.commondir, live.layout.commondir, Reference.commondir)

\* No part of the first is newer than that of the second.
AtMost(a, l) ==
  /\ a.root <= l.root
  /\ a.dot_git <= l.dot_git
  /\ a.dot_git = l.dot_git => a.shape = l.shape
  /\ a.commondir <= l.commondir

\* The second capture: the layout whose root it saw lies between the authority
\* and what it sees from there on.
SecondCapture ==
  Walking =>
    /\ Past("root_again") /\ ~ Past("matches_again") =>
         \E l \in layouts :
           /\ l.root = call.seen.root
           /\ AtMost(call.authority, l)
           /\ AtMost(l, live.layout)
           /\ Past("dot_git_again") =>
                /\ l.dot_git <= call.seen.dot_git
                /\ l.dot_git = call.seen.dot_git => l.shape = call.seen.shape
           /\ Past("commondir_again") => l.commondir <= call.seen.commondir
    /\ Past("matches_again") => call.authority \in layouts

\* A part of the authority that was read is no longer there, and was not when
\* the capture looked.
Doomed ==
  LET a == call.authority IN
  \/ live.layout.root # a.root /\ (Past("root") => call.seen.root # a.root)
  \/ /\ live.layout.dot_git # a.dot_git \/ live.layout.shape # a.shape
     /\ Past("dot_git") =>
          call.seen.dot_git # a.dot_git \/ call.seen.shape # a.shape
  \/ /\ live.layout.commondir # a.commondir
     /\ Past("commondir") => call.seen.commondir # a.commondir

\* A resume read the seal as it was published, or authentication is to fail.
ReadFits ==
  Walking /\ call.kind = "resume" /\ Past("read") =>
    /\ Old(call.authority)
    /\ call.anchor \in AnchorSet /\ call.anchor.common = worktree.common
    /\ SealedAnchor.link <= call.anchor.link /\ call.anchor.link <= worktree.link
    /\ "worktree-authority" \in DOMAIN sealed
       /\ sealed["worktree-authority"] = SealedAnchor => call.anchor = SealedAnchor
    /\ "repository-authority" \in DOMAIN sealed
       /\ sealed["repository-authority"] = SealedAuthority =>
         \/ call.authority = SealedAuthority
         \/ ~ Past("matches") /\ Doomed
    /\ Past("authenticate") =>
         call.authority = SealedAuthority /\ call.anchor = SealedAnchor

SealFiles(n) == { SealOrder[i] : i \in 1 .. n }

\* A dispatch seals what it captured.
StagingFits ==
  Walking /\ call.kind = "dispatch" =>
    /\ Past("worktree") =>
         /\ call.anchor \in AnchorSet /\ call.anchor.common = worktree.common
         /\ call.anchor.link <= worktree.link
    /\ ~ Past("seal") /\ ~ At("seal") => staging = NoFiles
    /\ At("seal") =>
         /\ \E n \in 0 .. 5 : DOMAIN staging = SealFiles(n)
         /\ "repository-authority" \in DOMAIN staging =>
              staging["repository-authority"] = call.authority
         /\ "worktree-authority" \in DOMAIN staging =>
              staging["worktree-authority"] = call.anchor
    /\ Past("seal") /\ ~ Past("publish") =>
         /\ { "repository-authority", "worktree-authority", "seal-manifest" }
              \subseteq DOMAIN staging
         /\ staging["repository-authority"] = call.authority
         /\ staging["worktree-authority"] = call.anchor
         /\ { "repository-authority", "worktree-authority" }
              \subseteq DOMAIN staging["seal-manifest"]
         /\ staging["seal-manifest"]["repository-authority"] = call.authority
         /\ staging["seal-manifest"]["worktree-authority"] = call.anchor
    /\ Past("publish") =>
         /\ HasSeal
         /\ SealedAuthority = call.authority
         /\ SealedAnchor = call.anchor

\* The primary trees before and after were compared.
TreesAgree ==
  Walking =>
    IF call.kind = "dispatch"
      THEN Past("head_again") => call.tree = call.tree_again
      ELSE Past("worker_start") => call.tree = call.tree_again

\* What every worker was started on.
LaunchesFit ==
  /\ launched \in Seq(Range(launched))
  /\ \A i \in DOMAIN launched :
       /\ launched[i].authority \in layouts
       /\ launched[i].authority = SealedAuthority
       /\ launched[i].anchor = SealedAnchor
       /\ launched[i].tree = launched[i].tree_again

\* A journal's last marker, if it has one.
LastMarker(rows, m) ==
  /\ m \in MarkersOf(rows) \cup { 0 }
  /\ \A i \in MarkersOf(rows) : i <= m

RowNames == { "marker", "G1", "G2", "G3", "G4", "G8", "G9", "G1_PRIME" }

JournalOpens(rows) ==
  /\ rows \in Seq(RowNames)
  /\ rows # << >> => rows[1] = "marker"
  /\ \E m \in 0 .. Len(rows) : LastMarker(rows, m)

JournalFits ==
  /\ DOMAIN journal = 0 .. MaxCalls
  /\ \A k \in 0 .. MaxCalls : JournalOpens(journal[k])
  /\ runs \in Nat /\ runs <= spent.calls
  /\ call.index \in Nat
  /\ call.kind = "dispatch" => call.index = 0
  /\ call.kind = "resume" => call.index <= spent.calls /\ spent.calls <= MaxCalls

\* The rows of a call that its step has behind it.
RowsRun ==
  IF call.kind = "resume" THEN IF Past("G1_PRIME") THEN 1 ELSE 0
  ELSE IF Past("G9") THEN 6
  ELSE IF Past("G8") THEN 5
  ELSE IF Past("G4") THEN 4
  ELSE IF Past("G3") THEN 3
  ELSE IF Past("G2") THEN 2
  ELSE IF Past("G1") THEN 1 ELSE 0

RowsFit ==
  /\ call.ran \in Seq(RowNames)
  /\ Len(call.ran) <= Len(Row(call.kind))
  /\ \A i \in 1 .. Len(call.ran) : call.ran[i] = Row(call.kind)[i]
  /\ Walking => Len(call.ran) = RowsRun
  /\ call.step = "running" \/ (Walking /\ Past("establish")) =>
       /\ journal[call.index] # << >>
       /\ RowsOfLastCall(journal[call.index]) = call.ran
  /\ call.ran # << >> =>
       \/ RowsOfLastCall(journal[call.index]) = call.ran
       \/ At("over") /\ RowsOfLastCall(journal[call.index]) = Front(call.ran)

IInv == /\ Types
        /\ Beginnings
        /\ SealFits
        /\ FirstCapture
        /\ SecondCapture
        /\ ReadFits
        /\ StagingFits
        /\ TreesAgree
        /\ LaunchesFit
        /\ JournalFits
        /\ RowsFit
-----------------------------------------------------------------------------
(* Where a call is *)

Place(c) == Position(c.kind, c.step)

WalkingIn(c) == c.step \in Range(Steps(c.kind))

PastIn(c, step) ==
  /\ WalkingIn(c)
  /\ Position(c.kind, c.step) > Position(c.kind, step)

\* Whether c is at a step, or past it, is a matter of its place.
Reaches(c, step, n) ==
  /\ c.step = step <=> Place(c) = n
  /\ PastIn(c, step) <=> Place(c) > n

DispatchPlaces(c) ==
  /\ Place(c) \in 1 .. 29
  /\ Reaches(c, "root", 1) /\ Reaches(c, "dot_git", 2)
  /\ Reaches(c, "commondir", 3) /\ Reaches(c, "matches", 4)
  /\ Reaches(c, "administration", 5) /\ Reaches(c, "head", 6)
  /\ Reaches(c, "tree", 7) /\ Reaches(c, "context", 8)
  /\ Reaches(c, "establish", 9) /\ Reaches(c, "G1", 10)
  /\ Reaches(c, "G2", 11) /\ Reaches(c, "G3", 12) /\ Reaches(c, "G4", 13)
  /\ Reaches(c, "worktree", 14) /\ Reaches(c, "start", 15)
  /\ Reaches(c, "G8", 16) /\ Reaches(c, "G9", 17)
  /\ Reaches(c, "root_again", 18) /\ Reaches(c, "dot_git_again", 19)
  /\ Reaches(c, "commondir_again", 20) /\ Reaches(c, "matches_again", 21)
  /\ Reaches(c, "tree_again", 22) /\ Reaches(c, "head_again", 23)
  /\ Reaches(c, "seal", 24) /\ Reaches(c, "load", 25)
  /\ Reaches(c, "worker_start", 26) /\ Reaches(c, "create", 27)
  /\ Reaches(c, "publish", 28) /\ Reaches(c, "launch", 29)

ResumePlaces(c) ==
  /\ Place(c) \in 1 .. 21
  /\ Reaches(c, "read", 1) /\ Reaches(c, "root", 2)
  /\ Reaches(c, "dot_git", 3) /\ Reaches(c, "commondir", 4)
  /\ Reaches(c, "matches", 5) /\ Reaches(c, "verify", 6)
  /\ Reaches(c, "administration", 7) /\ Reaches(c, "head", 8)
  /\ Reaches(c, "context", 9) /\ Reaches(c, "authenticate", 10)
  /\ Reaches(c, "tree", 11) /\ Reaches(c, "establish", 12)
  /\ Reaches(c, "G1_PRIME", 13) /\ Reaches(c, "root_again", 14)
  /\ Reaches(c, "dot_git_again", 15) /\ Reaches(c, "commondir_again", 16)
  /\ Reaches(c, "matches_again", 17) /\ Reaches(c, "tree_again", 18)
  /\ Reaches(c, "head_again", 19) /\ Reaches(c, "worker_start", 20)
  /\ Reaches(c, "launch", 21)

\* The steps of a dispatch are all different, so each has one position.
LEMMA DispatchOrder ==
  /\ Range(DispatchSteps) = { DispatchSteps[i] : i \in 1 .. 29 }
  /\ \A i \in 1 .. 29 : Position("dispatch", DispatchSteps[i]) = i
<1>1. DOMAIN DispatchSteps = 1 .. 29
  BY DEF DispatchSteps
<1>2. \A i, j \in 1 .. 29 : DispatchSteps[i] = DispatchSteps[j] => i = j
  BY DEF DispatchSteps
<1>3. Steps("dispatch") = DispatchSteps
  BY DEF Steps
<1>4. ASSUME NEW i \in 1 .. 29
      PROVE  Position("dispatch", DispatchSteps[i]) = i
  <2> HIDE DEF DispatchSteps
  <2>1. Position("dispatch", DispatchSteps[i])
          = CHOOSE j \in 1 .. 29 : DispatchSteps[j] = DispatchSteps[i]
    BY <1>1, <1>3 DEF Position
  <2> QED
    BY <1>2, <2>1
<1>5. Range(DispatchSteps) = { DispatchSteps[i] : i \in 1 .. 29 }
  BY <1>1, Zenon DEF Range
<1> QED
  BY <1>4, <1>5

\* So are those of a resume.
LEMMA ResumeOrder ==
  /\ Range(ResumeSteps) = { ResumeSteps[i] : i \in 1 .. 21 }
  /\ \A i \in 1 .. 21 : Position("resume", ResumeSteps[i]) = i
<1>1. DOMAIN ResumeSteps = 1 .. 21
  BY DEF ResumeSteps
<1>2. \A i, j \in 1 .. 21 : ResumeSteps[i] = ResumeSteps[j] => i = j
  BY DEF ResumeSteps
<1>3. Steps("resume") = ResumeSteps
  BY DEF Steps
<1>4. ASSUME NEW i \in 1 .. 21
      PROVE  Position("resume", ResumeSteps[i]) = i
  <2> HIDE DEF ResumeSteps
  <2>1. Position("resume", ResumeSteps[i])
          = CHOOSE j \in 1 .. 21 : ResumeSteps[j] = ResumeSteps[i]
    BY <1>1, <1>3 DEF Position
  <2> QED
    BY <1>2, <2>1
<1>5. Range(ResumeSteps) = { ResumeSteps[i] : i \in 1 .. 21 }
  BY <1>1, Zenon DEF Range
<1> QED
  BY <1>4, <1>5

\* Where a dispatch is, of all its steps.
LEMMA DispatchIsSomewhere ==
  ASSUME NEW c, c.kind = "dispatch", WalkingIn(c)
  PROVE  DispatchPlaces(c)
<1>1. PICK n \in 1 .. 29 : c.step = DispatchSteps[n]
  BY DispatchOrder DEF WalkingIn, Steps
<1>2. Place(c) = n
  BY <1>1, DispatchOrder DEF Place
<1>3. ASSUME NEW i \in 1 .. 29
      PROVE  Reaches(c, DispatchSteps[i], i)
  <2>1. Position(c.kind, DispatchSteps[i]) = i
    BY DispatchOrder
  <2>2. c.step = DispatchSteps[i] <=> n = i
    BY <1>1, DispatchOrder
  <2> QED
    BY <1>2, <2>1, <2>2 DEF Reaches, PastIn, Place
<1>4. \A i \in 1 .. 29 : Reaches(c, DispatchSteps[i], i)
  BY <1>3
<1> QED
  BY <1>2, <1>4 DEF DispatchPlaces, DispatchSteps

\* Where a resume is, of all its steps.
LEMMA ResumeIsSomewhere ==
  ASSUME NEW c, c.kind = "resume", WalkingIn(c)
  PROVE  ResumePlaces(c)
<1>1. PICK n \in 1 .. 21 : c.step = ResumeSteps[n]
  BY ResumeOrder DEF WalkingIn, Steps
<1>2. Place(c) = n
  BY <1>1, ResumeOrder DEF Place
<1>3. ASSUME NEW i \in 1 .. 21
      PROVE  Reaches(c, ResumeSteps[i], i)
  <2>1. Position(c.kind, ResumeSteps[i]) = i
    BY ResumeOrder
  <2>2. c.step = ResumeSteps[i] <=> n = i
    BY <1>1, ResumeOrder
  <2> QED
    BY <1>2, <2>1, <2>2 DEF Reaches, PastIn, Place
<1>4. \A i \in 1 .. 21 : Reaches(c, ResumeSteps[i], i)
  BY <1>3
<1> QED
  BY <1>2, <1>4 DEF ResumePlaces, ResumeSteps
-----------------------------------------------------------------------------
(* What the ways on and the ways out of a step leave of a call *)

\* A call goes on to its next step with these fields.
Step(seen, authority, anchor, tree, tree_again, ran) ==
  /\ Walking /\ call.step # "launch" /\ WalkingIn(call')
  /\ Place(call') = Place(call) + 1
  /\ DOMAIN call' = CallFields
  /\ call'.kind = call.kind
  /\ call'.index = call.index
  /\ call'.seen = seen
  /\ call'.authority = authority
  /\ call'.anchor = anchor
  /\ call'.tree = tree
  /\ call'.tree_again = tree_again
  /\ call'.ran = ran

\* A call is over with these rows.
Stop(ran) ==
  /\ DOMAIN call' = CallFields
  /\ call'.step = "over"
  /\ call'.kind = call.kind
  /\ call'.index = call.index
  /\ call'.seen = call.seen
  /\ call'.authority = call.authority
  /\ call'.ran = ran

\* A step and its place.
LEMMA StepOnward ==
  ASSUME NEW c, c.kind \in { "dispatch", "resume" }, WalkingIn(c), c.step # "launch",
         NEW d, d.kind = c.kind, d.step = Steps(c.kind)[Position(c.kind, c.step) + 1]
  PROVE  WalkingIn(d) /\ Place(d) = Place(c) + 1
<1>1. CASE c.kind = "dispatch"
  <2>1. PICK n \in 1 .. 29 : c.step = DispatchSteps[n]
    BY <1>1, DispatchOrder DEF WalkingIn, Steps
  <2>2. Place(c) = n
    BY <1>1, <2>1, DispatchOrder DEF Place
  <2>3. DispatchSteps[29] = "launch"
    BY DEF DispatchSteps
  <2>4. n + 1 \in 1 .. 29
    BY <2>1, <2>3
  <2>5. d.step = DispatchSteps[n + 1]
    BY <1>1, <2>2 DEF Steps, Place
  <2>6. d.step \in { DispatchSteps[i] : i \in 1 .. 29 }
    BY <2>4, <2>5
  <2>7. Position("dispatch", DispatchSteps[n + 1]) = n + 1
    BY <2>4, DispatchOrder
  <2> QED
    BY <1>1, <2>2, <2>5, <2>6, <2>7, DispatchOrder DEF WalkingIn, Place, Steps
<1>2. CASE c.kind = "resume"
  <2>1. PICK n \in 1 .. 21 : c.step = ResumeSteps[n]
    BY <1>2, ResumeOrder DEF WalkingIn, Steps
  <2>2. Place(c) = n
    BY <1>2, <2>1, ResumeOrder DEF Place
  <2>3. ResumeSteps[21] = "launch"
    BY DEF ResumeSteps
  <2>4. n + 1 \in 1 .. 21
    BY <2>1, <2>3
  <2>5. d.step = ResumeSteps[n + 1]
    BY <1>2, <2>2 DEF Steps, Place
  <2>6. d.step \in { ResumeSteps[i] : i \in 1 .. 21 }
    BY <2>4, <2>5
  <2>7. Position("resume", ResumeSteps[n + 1]) = n + 1
    BY <2>4, ResumeOrder
  <2> QED
    BY <1>2, <2>2, <2>5, <2>6, <2>7, ResumeOrder DEF WalkingIn, Place, Steps
<1> QED
  BY <1>1, <1>2

\* Go: the next step, with all else of what was handed to it.
LEMMA GoFacts ==
  ASSUME Types, Walking, call.step # "launch",
         NEW c, DOMAIN c = CallFields, c.kind = call.kind, c.index = call.index, Go(c)
  PROVE  Step(c.seen, c.authority, c.anchor, c.tree, c.tree_again, c.ran)
<1> DEFINE next == Steps(call.kind)[Position(call.kind, call.step) + 1]
<1>1. call' = [c EXCEPT !.step = next]
  BY DEF Go
<1> HIDE DEF next
<1>2. /\ call'.step = next /\ call'.kind = c.kind /\ call'.index = c.index
      /\ call'.seen = c.seen /\ call'.authority = c.authority /\ call'.anchor = c.anchor
      /\ call'.tree = c.tree /\ call'.tree_again = c.tree_again /\ call'.ran = c.ran
      /\ DOMAIN call' = CallFields
  BY <1>1 DEF CallFields, NoCall
<1>3. call.kind \in { "dispatch", "resume" } /\ WalkingIn(call)
  BY DEF Types, Walking, WalkingIn
<1>4. WalkingIn(call') /\ Place(call') = Place(call) + 1
  BY <1>2, <1>3, StepOnward DEF next
<1> QED
  BY <1>2, <1>4 DEF Step

\* Over: the same call, at its end.
LEMMA OverFacts ==
  ASSUME NEW c, DOMAIN c = CallFields, c.kind = call.kind, c.index = call.index,
         c.seen = call.seen, c.authority = call.authority, Over(c)
  PROVE  Stop(c.ran)
BY DEF Over, Stop, CallFields, NoCall

\* Refusals leave everything but the worktree and the staging directory.
LEMMA RefuseFacts ==
  ASSUME Types, Refuse
  PROVE  /\ Stop(call.ran)
         /\ worktree' = worktree \/ worktree' = [worktree EXCEPT !.made = "no"]
         /\ UNCHANGED << live, sealed, runs, journal, spent, layouts, launched >>
<1>1. DOMAIN call = CallFields /\ Over(call)
  BY DEF Types, Refuse
<1>2. Stop(call.ran)
  BY <1>1, OverFacts
<1> QED
  BY <1>2 DEF Refuse, CleanUp

\* A step that looks.
LEMMA LookFacts ==
  ASSUME Types, Walking, call.step # "launch", NEW holds,
         NEW c, DOMAIN c = CallFields, c.kind = call.kind, c.index = call.index,
         Look(holds, c)
  PROVE  \/ /\ holds
            /\ Step(c.seen, c.authority, c.anchor, c.tree, c.tree_again, c.ran)
            /\ UNCHANGED << live, worktree, staging, sealed, runs, journal, spent,
                            layouts, launched >>
         \/ Refuse
<1>1. CASE Refuse
  BY <1>1
<1>2. CASE ~ Refuse
  <2>1. holds /\ Go(c) /\ UNCHANGED << live, worktree, disk, journal, spent, layouts, launched >>
    BY <1>2 DEF Look
  <2>2. Step(c.seen, c.authority, c.anchor, c.tree, c.tree_again, c.ran)
    BY <2>1, GoFacts
  <2> QED
    BY <2>1, <2>2 DEF disk
<1> QED
  BY <1>1, <1>2
-----------------------------------------------------------------------------
(* The steps, by what they change of the state the invariant speaks about *)

Steady == UNCHANGED << live, worktree, staging, sealed, runs, journal, spent,
                       layouts, launched >>

\* On with all it had.
Onward == Step(call.seen, call.authority, call.anchor, call.tree, call.tree_again, call.ran)

PlainSteps == { "administration", "worker_start", "head", "head_again", "context",
                "verify", "start", "load", "authenticate", "create" }

\* A gate that was passed.
Passes ==
  /\ call.step \in PlainSteps
  /\ Steady /\ Onward
  /\ At("head_again") /\ call.kind = "dispatch" => call.tree = call.tree_again
  /\ At("worker_start") /\ call.kind = "resume" => call.tree = call.tree_again
  /\ At("authenticate") => Loads(sealed)

SeesRoot ==
  /\ call.step \in { "root", "root_again" }
  /\ Steady
  /\ Step([call.seen EXCEPT !.root = live.layout.root], call.authority, call.anchor,
          call.tree, call.tree_again, call.ran)

SeesDotGit ==
  /\ call.step \in { "dot_git", "dot_git_again" }
  /\ Steady
  /\ Step([call.seen EXCEPT !.dot_git = live.layout.dot_git, !.shape = live.layout.shape],
          call.authority, call.anchor, call.tree, call.tree_again, call.ran)

SeesCommondir ==
  /\ call.step \in { "commondir", "commondir_again" }
  /\ Steady
  /\ Step([call.seen EXCEPT !.commondir = live.layout.commondir], call.authority,
          call.anchor, call.tree, call.tree_again, call.ran)

SeesMatch ==
  /\ call.step \in { "matches", "matches_again" }
  /\ Steady
  /\ call.authority # None => call.seen = call.authority
  /\ Step(call.seen, call.seen, call.anchor, call.tree, call.tree_again, call.ran)

SeesTree ==
  /\ Steady
  /\ \/ At("tree") /\ Step(call.seen, call.authority, call.anchor, live.tree,
                           call.tree_again, call.ran)
     \/ At("tree_again") /\ Step(call.seen, call.authority, call.anchor, call.tree,
                                 live.tree, call.ran)

ReadsSeal ==
  /\ At("read")
  /\ Steady
  /\ { "repository-authority", "worktree-authority" } \subseteq DOMAIN sealed
  /\ Step(call.seen, sealed["repository-authority"], sealed["worktree-authority"],
          call.tree, call.tree_again, call.ran)

Anchors ==
  /\ At("worktree")
  /\ Steady
  /\ Step(call.seen, call.authority, Anchor, call.tree, call.tree_again, call.ran)

Marks ==
  /\ At("establish")
  /\ Onward
  /\ Recorded("marker")
  /\ UNCHANGED << live, worktree, staging, sealed, runs, spent, layouts, launched >>

\* A bound may have been used up, which is no change.
Spends == /\ spent' \in [changes : Nat, faults : Nat, calls : Nat]
          /\ spent'.changes = spent.changes
          /\ spent'.calls = spent.calls

RowStep(row) ==
  /\ At(row)
  /\ Recorded(row)
  /\ Step(call.seen, call.authority, call.anchor, call.tree, call.tree_again,
          Append(call.ran, row))

ReadOnlyRow ==
  /\ \E row \in { "G1", "G2", "G3", "G8", "G9", "G1_PRIME" } : RowStep(row)
  /\ Spends
  /\ UNCHANGED << live, worktree, staging, sealed, runs, layouts, launched >>

MakesTree ==
  /\ RowStep("G4")
  /\ spent' \in [changes : Nat, faults : Nat, calls : Nat]
  /\ spent.changes <= spent'.changes
  /\ spent'.calls = spent.calls
  /\ DOMAIN live' = DOMAIN live
  /\ live'.layout = live.layout
  /\ DOMAIN worktree' = DOMAIN NoWorktree
  /\ worktree'.link = 0 /\ worktree'.common = live.layout.commondir
  /\ UNCHANGED << staging, sealed, runs, layouts, launched >>

\* The next file of the seal.
NextFile == SealOrder[Cardinality(DOMAIN staging) + 1]

StagesFile ==
  staging' = [g \in DOMAIN staging \cup { NextFile } |->
                IF g = NextFile THEN Content(NextFile) ELSE staging[g]]

Stages ==
  /\ At("seal")
  /\ StagesFile
  /\ IF NextFile = "seal-manifest" THEN Onward ELSE UNCHANGED call
  /\ UNCHANGED << live, worktree, sealed, runs, journal, spent, layouts, launched >>

Publishes ==
  /\ At("publish")
  /\ Onward
  /\ sealed' = staging /\ staging' = NoFiles
  /\ UNCHANGED << live, worktree, runs, journal, spent, layouts, launched >>

\* The row that a call was at when it ended, if any.
LastRows ==
  \/ Stop(call.ran) /\ UNCHANGED journal
  \/ /\ call.step \in { "G1", "G2", "G3", "G4", "G8", "G9", "G1_PRIME" }
     /\ Stop(Append(call.ran, call.step))
     /\ Recorded(call.step) \/ UNCHANGED journal

Ends ==
  /\ Walking
  /\ LastRows
  /\ Spends
  /\ DOMAIN worktree' = DOMAIN NoWorktree
  /\ \/ worktree'.link = worktree.link /\ worktree'.common = worktree.common
     \/ At("G4") /\ worktree'.link = 0 /\ worktree'.common = live.layout.commondir
  /\ UNCHANGED << live, sealed, runs, layouts, launched >>

Launches ==
  /\ At("launch")
  /\ call' = [call EXCEPT !.step = "running"]
  /\ launched' = Append(launched,
       [authority |-> call.authority, anchor |-> call.anchor,
        tree |-> call.tree, tree_again |-> call.tree_again])
  /\ UNCHANGED << live, worktree, staging, sealed, runs, journal, spent, layouts >>

\* A worker ended, and the call with it.
Returns ==
  /\ At("running")
  /\ Stop(call.ran)
  /\ Spends
  /\ runs' \in { runs, IF call.kind = "dispatch" THEN 1 ELSE call.index }
  /\ UNCHANGED << live, worktree, staging, sealed, journal, layouts, launched >>

\* A step of the call's own.
OwnStep ==
  \/ Passes \/ SeesRoot \/ SeesDotGit \/ SeesCommondir \/ SeesMatch \/ SeesTree
  \/ ReadsSeal \/ Anchors \/ Marks \/ ReadOnlyRow \/ MakesTree \/ Stages
  \/ Publishes \/ Ends \/ Launches \/ Returns

\* A step that is none of the three at which no call looks at anything.
LEMMA AtWalks ==
  ASSUME Types, call.step \notin { "idle", "over", "running" }
  PROVE  Walking
BY DEF Types

\* Refusals and deaths end a call.
LEMMA RefuseEnds ==
  ASSUME Types, Walking, Refuse
  PROVE  Ends
<1>1. DOMAIN worktree' = DOMAIN NoWorktree /\ worktree'.link = worktree.link
      /\ worktree'.common = worktree.common
  BY RefuseFacts DEF Types, NoWorktree
<1>2. Spends
  BY RefuseFacts DEF Types, Spends
<1> QED
  BY <1>1, <1>2, RefuseFacts DEF Ends, LastRows

\* So do faults.
LEMMA FaultSpends ==
  ASSUME Types, Fault
  PROVE  Spends
BY DEF Types, Fault, Spends

\* A look that goes on, or ends.
LEMMA LookOn ==
  ASSUME Types, Walking, call.step # "launch", NEW holds,
         NEW c, DOMAIN c = CallFields, c.kind = call.kind, c.index = call.index,
         Look(holds, c)
  PROVE  \/ holds /\ Steady
            /\ Step(c.seen, c.authority, c.anchor, c.tree, c.tree_again, c.ran)
         \/ Ends
BY LookFacts, RefuseEnds DEF Steady

\* The capture of the authority.
LEMMA CapturesCase ==
  ASSUME Types, CaptureRoot \/ CaptureDotGit \/ CaptureCommondir \/ CaptureMatches
  PROVE  OwnStep
<1>1. Walking /\ call.step # "launch" /\ DOMAIN call = CallFields
  BY AtWalks DEF Types, CaptureRoot, CaptureDotGit, CaptureCommondir, CaptureMatches
<1>2. CASE CaptureRoot
  <2> DEFINE c == [call EXCEPT !.seen.root = live.layout.root]
  <2>1. /\ DOMAIN c = CallFields /\ c.kind = call.kind /\ c.index = call.index
        /\ c.seen = [call.seen EXCEPT !.root = live.layout.root]
        /\ c.authority = call.authority /\ c.anchor = call.anchor /\ c.tree = call.tree
        /\ c.tree_again = call.tree_again /\ c.ran = call.ran
    BY <1>1 DEF CallFields, NoCall
  <2>2. Look(TRUE, c) /\ call.step \in { "root", "root_again" }
    BY <1>2, Zenon DEF CaptureRoot
  <2> HIDE DEF c
  <2>3. \/ Steady /\ Step(c.seen, c.authority, c.anchor, c.tree, c.tree_again, c.ran)
        \/ Ends
    BY <1>1, <2>1, <2>2, LookOn
  <2> QED
    BY <2>1, <2>2, <2>3 DEF OwnStep, SeesRoot
<1>3. CASE CaptureDotGit
  <2> DEFINE c == [call EXCEPT !.seen.dot_git = live.layout.dot_git,
                               !.seen.shape = live.layout.shape]
  <2>1. /\ DOMAIN c = CallFields /\ c.kind = call.kind /\ c.index = call.index
        /\ c.seen = [call.seen EXCEPT !.dot_git = live.layout.dot_git,
                                      !.shape = live.layout.shape]
        /\ c.authority = call.authority /\ c.anchor = call.anchor /\ c.tree = call.tree
        /\ c.tree_again = call.tree_again /\ c.ran = call.ran
    BY <1>1 DEF CallFields, NoCall
  <2>2. PICK holds : Look(holds, c) /\ call.step \in { "dot_git", "dot_git_again" }
    BY <1>3, Zenon DEF CaptureDotGit
  <2> HIDE DEF c
  <2>3. \/ Steady /\ Step(c.seen, c.authority, c.anchor, c.tree, c.tree_again, c.ran)
        \/ Ends
    BY <1>1, <2>1, <2>2, LookOn
  <2> QED
    BY <2>1, <2>2, <2>3 DEF OwnStep, SeesDotGit
<1>4. CASE CaptureCommondir
  <2> DEFINE c == [call EXCEPT !.seen.commondir = live.layout.commondir]
  <2>1. /\ DOMAIN c = CallFields /\ c.kind = call.kind /\ c.index = call.index
        /\ c.seen = [call.seen EXCEPT !.commondir = live.layout.commondir]
        /\ c.authority = call.authority /\ c.anchor = call.anchor /\ c.tree = call.tree
        /\ c.tree_again = call.tree_again /\ c.ran = call.ran
    BY <1>1 DEF CallFields, NoCall
  <2>2. /\ Look(TRUE, c) \/ Refuse
        /\ call.step \in { "commondir", "commondir_again" }
    BY <1>4, Zenon DEF CaptureCommondir
  <2> HIDE DEF c
  <2>3. \/ Steady /\ Step(c.seen, c.authority, c.anchor, c.tree, c.tree_again, c.ran)
        \/ Ends
    BY <1>1, <2>1, <2>2, LookOn, RefuseEnds
  <2> QED
    BY <2>1, <2>2, <2>3 DEF OwnStep, SeesCommondir
<1>5. CASE CaptureMatches
  <2> DEFINE c == [call EXCEPT !.authority = call.seen]
             holds == /\ call.seen.root = live.layout.root
                      /\ call.authority # None => call.seen = call.authority
  <2>1. /\ DOMAIN c = CallFields /\ c.kind = call.kind /\ c.index = call.index
        /\ c.seen = call.seen
        /\ c.authority = call.seen /\ c.anchor = call.anchor /\ c.tree = call.tree
        /\ c.tree_again = call.tree_again /\ c.ran = call.ran
    BY <1>1 DEF CallFields, NoCall
  <2>2. Look(holds, c) /\ call.step \in { "matches", "matches_again" }
    BY <1>5, Zenon DEF CaptureMatches
  <2> HIDE DEF c, holds
  <2>3. \/ /\ holds /\ Steady
           /\ Step(c.seen, c.authority, c.anchor, c.tree, c.tree_again, c.ran)
        \/ Ends
    BY <1>1, <2>1, <2>2, LookOn
  <2> QED
    BY <2>1, <2>2, <2>3 DEF OwnStep, SeesMatch, holds
<1> QED
  BY <1>2, <1>3, <1>4, <1>5

\* The gates, and the trees they compare.
LEMMA GatesCase ==
  ASSUME Types, \/ Administration \/ WorkerStart \/ PrimaryHead \/ PrimaryTree
                \/ PrimaryAgain \/ Context
  PROVE  OwnStep
<1>1. DOMAIN call = CallFields
  BY DEF Types
<1> DEFINE fits(c) == /\ DOMAIN c = CallFields /\ c.kind = call.kind
                      /\ c.index = call.index /\ c.seen = call.seen
                      /\ c.authority = call.authority /\ c.anchor = call.anchor
                      /\ c.ran = call.ran
           same(c) == fits(c) /\ c.tree = call.tree /\ c.tree_again = call.tree_again
<1>2. /\ same(call)
      /\ same([call EXCEPT !.old_loose = baseline.loose])
      /\ same([call EXCEPT !.head = live.head])
      /\ same([call EXCEPT !.head_again = live.head])
  BY <1>1 DEF CallFields, NoCall
<1>3. ASSUME NEW holds, NEW c, same(c), Look(holds, c), call.step \in PlainSteps
      PROVE  (holds /\ Steady /\ Onward) \/ Ends
  <2>1. Walking /\ call.step # "launch"
    BY <1>3, AtWalks DEF PlainSteps
  <2>2. \/ holds /\ Steady /\ Step(c.seen, c.authority, c.anchor, c.tree, c.tree_again, c.ran)
        \/ Ends
    BY <1>3, <2>1, LookOn
  <2> QED
    BY <1>3, <2>2 DEF Onward
<1> HIDE DEF same
<1>4. CASE Administration
  <2>1. PICK holds : Look(holds, [call EXCEPT !.old_loose = baseline.loose])
    BY <1>4, Zenon DEF Administration
  <2>2. call.step \in PlainSteps /\ At("administration")
    BY <1>4 DEF Administration, At, PlainSteps
  <2>3. (Steady /\ Onward) \/ Ends
    BY <1>2, <1>3, <2>1, <2>2
  <2> QED
    BY <2>2, <2>3 DEF OwnStep, Passes, At
<1>5. CASE WorkerStart
  <2> DEFINE holds == /\ Captures(call.old_loose)
                      /\ worktree.common = live.layout.commondir
                      /\ call.kind = "resume" =>
                           call.head = call.head_again /\ call.tree = call.tree_again
  <2>1. Look(holds, call)
    BY <1>5, Zenon DEF WorkerStart
  <2>2. call.step \in PlainSteps /\ At("worker_start")
    BY <1>5 DEF WorkerStart, At, PlainSteps
  <2> HIDE DEF holds
  <2>3. (holds /\ Steady /\ Onward) \/ Ends
    BY <1>2, <1>3, <2>1, <2>2
  <2> QED
    BY <2>2, <2>3 DEF OwnStep, Passes, At, holds
<1>6. CASE PrimaryHead \/ Context
  <2>1. \/ \E holds : Look(holds, [call EXCEPT !.head = live.head])
        \/ \E holds : Look(holds, call)
        \/ Refuse
    BY <1>6, Zenon DEF PrimaryHead, Context
  <2>2. call.step \in PlainSteps /\ call.step \in { "head", "context" }
    BY <1>6 DEF PrimaryHead, Context, At, PlainSteps
  <2>3. Walking
    BY <2>2, AtWalks
  <2>4. (Steady /\ Onward) \/ Ends
    BY <1>2, <1>3, <2>1, <2>2, <2>3, RefuseEnds
  <2> QED
    BY <2>2, <2>4 DEF OwnStep, Passes, At
<1>7. CASE PrimaryAgain /\ At("head_again")
  <2> DEFINE holds == /\ HeadResolves
                      /\ call.kind = "dispatch" =>
                           live.head = call.head /\ call.tree = call.tree_again
  <2>1. Look(holds, [call EXCEPT !.head_again = live.head])
    BY <1>7 DEF PrimaryAgain, At
  <2>2. call.step \in PlainSteps /\ At("head_again")
    BY <1>7 DEF At, PlainSteps
  <2> HIDE DEF holds
  <2>3. (holds /\ Steady /\ Onward) \/ Ends
    BY <1>2, <1>3, <2>1, <2>2
  <2> QED
    BY <2>2, <2>3 DEF OwnStep, Passes, At, holds
<1>8. CASE PrimaryTree
  <2> DEFINE c == [call EXCEPT !.tree = live.tree]
  <2>1. fits(c) /\ c.tree = live.tree /\ c.tree_again = call.tree_again
    BY <1>1 DEF CallFields, NoCall
  <2>2. PICK holds : Look(holds, c)
    BY <1>8, Zenon DEF PrimaryTree
  <2>3. At("tree") /\ Walking /\ call.step # "launch"
    BY <1>8, AtWalks DEF PrimaryTree, At
  <2> HIDE DEF c
  <2>4. \/ Steady /\ Step(c.seen, c.authority, c.anchor, c.tree, c.tree_again, c.ran)
        \/ Ends
    BY <2>1, <2>2, <2>3, LookOn
  <2> QED
    BY <2>1, <2>3, <2>4 DEF OwnStep, SeesTree
<1>9. CASE PrimaryAgain /\ At("tree_again")
  <2> DEFINE c == [call EXCEPT !.tree_again = live.tree]
  <2>1. fits(c) /\ c.tree = call.tree /\ c.tree_again = live.tree
    BY <1>1 DEF CallFields, NoCall
  <2>2. PICK holds : Look(holds, c)
    BY <1>9 DEF PrimaryAgain, At
  <2>3. At("tree_again") /\ Walking /\ call.step # "launch"
    BY <1>9, AtWalks DEF At
  <2> HIDE DEF c
  <2>4. \/ Steady /\ Step(c.seen, c.authority, c.anchor, c.tree, c.tree_again, c.ran)
        \/ Ends
    BY <2>1, <2>2, <2>3, LookOn
  <2> QED
    BY <2>1, <2>3, <2>4 DEF OwnStep, SeesTree
<1>10. PrimaryAgain => At("head_again") \/ At("tree_again")
  BY DEF PrimaryAgain
<1> QED
  BY <1>4, <1>5, <1>6, <1>7, <1>8, <1>9, <1>10

\* The Git rows.
LEMMA RowsCase ==
  ASSUME Types, GitRows
  PROVE  OwnStep
<1>1. DOMAIN call = CallFields
  BY DEF Types
<1>2. /\ DOMAIN worktree = DOMAIN NoWorktree
      /\ spent \in [changes : Nat, faults : Nat, calls : Nat]
  BY DEF Types
<1> DEFINE same(c) == /\ DOMAIN c = CallFields /\ c.kind = call.kind
                      /\ c.index = call.index /\ c.seen = call.seen
                      /\ c.authority = call.authority /\ c.anchor = call.anchor
                      /\ c.tree = call.tree /\ c.tree_again = call.tree_again
                      /\ c.ran = call.ran
           Quick == { "G1", "G2", "G3", "G8", "G9", "G1_PRIME" }
           Elsewhere == UNCHANGED << live, worktree, staging, sealed, runs, layouts, launched >>
<1>3. ASSUME NEW c, same(c), NEW row, At(row), row \in Quick \cup { "G4" },
             Go([c EXCEPT !.ran = Append(@, row)]), Recorded(row)
      PROVE  RowStep(row)
  <2> DEFINE d == [c EXCEPT !.ran = Append(@, row)]
  <2>1. /\ DOMAIN d = CallFields /\ d.kind = call.kind /\ d.index = call.index
        /\ d.seen = call.seen /\ d.authority = call.authority /\ d.anchor = call.anchor
        /\ d.tree = call.tree /\ d.tree_again = call.tree_again
        /\ d.ran = Append(call.ran, row)
    BY <1>3 DEF CallFields, NoCall
  <2>2. Walking /\ call.step # "launch"
    BY <1>3, AtWalks DEF At
  <2> HIDE DEF d
  <2>3. Go(d)
    BY <1>3 DEF d
  <2>4. Step(d.seen, d.authority, d.anchor, d.tree, d.tree_again, d.ran)
    BY <2>1, <2>2, <2>3, GoFacts
  <2> QED
    BY <1>3, <2>1, <2>4 DEF RowStep
<1>4. same(call) /\ (\A t : same([call EXCEPT !.listing = t]))
      /\ (\A b : same([call EXCEPT !.batch = b]))
  BY <1>1 DEF CallFields, NoCall
<1>5. ASSUME NEW c, NEW row, Over(c), DOMAIN c = CallFields, c.kind = call.kind,
             c.index = call.index, c.seen = call.seen, c.authority = call.authority,
             c.ran = Append(call.ran, row)
      PROVE  Stop(Append(call.ran, row))
  BY <1>5, OverFacts
<1>6. ASSUME NEW row
      PROVE  /\ DOMAIN Ran(row) = CallFields /\ Ran(row).kind = call.kind
             /\ Ran(row).index = call.index /\ Ran(row).seen = call.seen
             /\ Ran(row).authority = call.authority
             /\ Ran(row).ran = Append(call.ran, row)
  BY <1>1 DEF Ran, CallFields, NoCall
<1>7. ASSUME NEW row, At(row), row \in Quick \cup { "G4" }, Over(Ran(row)),
             Recorded(row) \/ UNCHANGED journal
      PROVE  LastRows
  <2>1. Stop(Append(call.ran, row))
    BY <1>5, <1>6, <1>7
  <2> QED
    BY <1>7, <2>1 DEF LastRows, At
<1> HIDE DEF same
<1>8. CASE \E row \in Quick : \E c : same(c) /\ RowRuns(row, c)
  <2>1. PICK row \in Quick : \E c : same(c) /\ RowRuns(row, c)
    BY <1>8
  <2>4. PICK c : same(c) /\ RowRuns(row, c)
    BY <2>1
  <2>2. RowStep(row)
    BY <1>3, <2>4, Zenon DEF RowRuns
  <2>3. Elsewhere /\ Spends
    BY <1>2, <2>4 DEF RowRuns, disk, Spends
  <2> QED
    BY <2>2, <2>3 DEF OwnStep, ReadOnlyRow
<1>9. CASE \E row \in Quick : RowFails(row)
  <2>1. PICK row \in Quick : RowFails(row)
    BY <1>9
  <2>2. LastRows /\ Walking
    BY <2>1, <1>7, AtWalks DEF RowFails, At
  <2>3. Spends
    BY <2>1, FaultSpends DEF RowFails
  <2>4. /\ DOMAIN worktree' = DOMAIN NoWorktree
        /\ worktree'.link = worktree.link /\ worktree'.common = worktree.common
    BY <1>2, <2>1 DEF RowFails, CleanUp, NoWorktree
  <2>5. UNCHANGED << live, sealed, runs, layouts, launched >>
    BY <2>1 DEF RowFails
  <2> QED
    BY <2>2, <2>3, <2>4, <2>5 DEF OwnStep, Ends
<1>10. CASE BaseRows
  BY <1>4, <1>8, <1>9, <1>10, Zenon DEF BaseRows
<1>11. CASE Establish
  <2>1. At("establish") /\ Walking /\ call.step # "launch"
    BY <1>11, AtWalks DEF Establish, At
  <2>2. UNCHANGED << live, worktree, staging, sealed, runs, layouts, launched >>
    BY <1>11 DEF Establish, disk
  <2>3. CASE Recorded("marker") /\ Go(call) /\ UNCHANGED spent
    <3>1. Onward
      BY <1>1, <2>1, <2>3, GoFacts DEF Onward
    <3> QED
      BY <2>1, <2>2, <2>3, <3>1 DEF OwnStep, Marks
  <2>4. CASE Fault /\ Over(call) /\ UNCHANGED journal
    <3>1. Stop(call.ran) /\ Spends
      BY <1>1, <2>4, OverFacts, FaultSpends
    <3> QED
      BY <1>2, <2>1, <2>2, <2>4, <3>1 DEF OwnStep, Ends, LastRows
  <2> QED
    BY <1>11, <2>3, <2>4 DEF Establish
<1>12. CASE CreateWorktree
  <2>1. At("G4") /\ Recorded("G4") /\ Go(Ran("G4"))
    BY <1>12 DEF CreateWorktree
  <2>2. RowStep("G4")
    BY <1>3, <1>4, <2>1, Zenon DEF Ran
  <2>3. /\ spent' \in [changes : Nat, faults : Nat, calls : Nat]
        /\ spent.changes <= spent'.changes /\ spent'.calls = spent.calls
    BY <1>2, <1>12 DEF CreateWorktree, Change, Fresh
  <2>4. DOMAIN live' = DOMAIN live /\ live'.layout = live.layout
    BY <1>12 DEF CreateWorktree, Types
  <2>5. /\ DOMAIN worktree' = DOMAIN NoWorktree
        /\ worktree'.link = 0 /\ worktree'.common = live.layout.commondir
    BY <1>12 DEF CreateWorktree, NoWorktree
  <2>6. UNCHANGED << staging, sealed, runs, layouts, launched >>
    BY <1>12 DEF CreateWorktree, disk
  <2> QED
    BY <2>2, <2>3, <2>4, <2>5, <2>6 DEF OwnStep, MakesTree
<1>13. CASE CreateWorktreeFails
  <2>1. At("G4") /\ Over(Ran("G4")) /\ (Recorded("G4") \/ UNCHANGED journal)
    BY <1>13 DEF CreateWorktreeFails
  <2>2. LastRows /\ Walking
    BY <2>1, <1>7, AtWalks DEF At
  <2>3. Spends
    BY <1>13, FaultSpends DEF CreateWorktreeFails
  <2>4. /\ DOMAIN worktree' = DOMAIN NoWorktree
        /\ \/ worktree'.link = worktree.link /\ worktree'.common = worktree.common
           \/ worktree'.link = 0 /\ worktree'.common = live.layout.commondir
    BY <1>2, <1>13 DEF CreateWorktreeFails, NoWorktree
  <2>5. UNCHANGED << live, sealed, runs, layouts, launched >>
    BY <1>13 DEF CreateWorktreeFails
  <2> QED
    BY <2>1, <2>2, <2>3, <2>4, <2>5 DEF OwnStep, Ends
<1>14. CASE ReadBatch
  <2>1. CASE RowRuns("G8", [call EXCEPT !.batch = Requested(call.listing, call.start)])
    BY <1>4, <1>8, <2>1, Zenon
  <2>2. CASE ~ RowRuns("G8", [call EXCEPT !.batch = Requested(call.listing, call.start)])
    <3>1. PICK b : /\ At("G8") /\ Recorded("G8") /\ Fault
                   /\ Go([call EXCEPT !.batch = b, !.ran = Append(@, "G8")])
                   /\ UNCHANGED << live, baseline, worktree, disk, layouts, launched >>
      BY <1>14, <2>2, Zenon DEF ReadBatch
    <3> DEFINE d == [call EXCEPT !.batch = b, !.ran = Append(@, "G8")]
    <3>2. /\ DOMAIN d = CallFields /\ d.kind = call.kind /\ d.index = call.index
          /\ d.seen = call.seen /\ d.authority = call.authority /\ d.anchor = call.anchor
          /\ d.tree = call.tree /\ d.tree_again = call.tree_again
          /\ d.ran = Append(call.ran, "G8")
      BY <1>1 DEF CallFields, NoCall
    <3>3. Walking /\ call.step # "launch"
      BY <3>1, AtWalks DEF At
    <3> HIDE DEF d
    <3>4. Go(d)
      BY <3>1 DEF d
    <3>5. Step(d.seen, d.authority, d.anchor, d.tree, d.tree_again, d.ran)
      BY <3>2, <3>3, <3>4, GoFacts
    <3>6. RowStep("G8")
      BY <3>1, <3>2, <3>5 DEF RowStep
    <3>7. Elsewhere /\ Spends
      BY <3>1, FaultSpends DEF disk
    <3> QED
      BY <3>6, <3>7 DEF OwnStep, ReadOnlyRow
  <2> QED
    BY <2>1, <2>2
<1>15. CASE ListForResume
  <2>1. CASE RowRuns("G1_PRIME", call)
    BY <1>4, <1>8, <2>1, Zenon
  <2>2. CASE ~ RowRuns("G1_PRIME", call)
    <3>1. /\ At("G1_PRIME") /\ Recorded("G1_PRIME") /\ Over(Ran("G1_PRIME"))
          /\ UNCHANGED << live, baseline, worktree, disk, spent, layouts, launched >>
      BY <1>15, <2>2 DEF ListForResume
    <3>2. LastRows /\ Walking
      BY <3>1, <1>7, AtWalks DEF At
    <3>3. Spends
      BY <1>2, <3>1 DEF Spends
    <3> QED
      BY <1>2, <3>1, <3>2, <3>3 DEF OwnStep, Ends, disk
  <2> QED
    BY <2>1, <2>2
<1>16. CASE RowRefused
  <2>1. call.step \notin { "idle", "over", "running" } /\ Refuse
    BY <1>16 DEF RowRefused, Row, DispatchRows, ResumeRows, Range
  <2> QED
    BY <2>1, AtWalks, RefuseEnds DEF OwnStep
<1> QED
  BY <1>10, <1>11, <1>12, <1>13, <1>14, <1>15, <1>16 DEF GitRows

\* The worktree and the seal.
LEMMA SealingCase ==
  ASSUME Types, Sealing
  PROVE  OwnStep
<1>1. DOMAIN call = CallFields
  BY DEF Types
<1>2. /\ DOMAIN worktree = DOMAIN NoWorktree
      /\ spent \in [changes : Nat, faults : Nat, calls : Nat]
  BY DEF Types
<1> DEFINE same(c) == /\ DOMAIN c = CallFields /\ c.kind = call.kind
                      /\ c.index = call.index /\ c.seen = call.seen
                      /\ c.authority = call.authority /\ c.anchor = call.anchor
                      /\ c.tree = call.tree /\ c.tree_again = call.tree_again
                      /\ c.ran = call.ran
<1>3. same(call) /\ (\A s : same([call EXCEPT !.start = s]))
  BY <1>1 DEF CallFields, NoCall
<1>4. ASSUME NEW holds, NEW c, same(c), Look(holds, c), call.step \in PlainSteps
      PROVE  (holds /\ Steady /\ Onward) \/ Ends
  <2>1. Walking /\ call.step # "launch"
    BY <1>4, AtWalks DEF PlainSteps
  <2>2. \/ holds /\ Steady /\ Step(c.seen, c.authority, c.anchor, c.tree, c.tree_again, c.ran)
        \/ Ends
    BY <1>4, <2>1, LookOn
  <2> QED
    BY <1>4, <2>2 DEF Onward
<1>5. ASSUME Fault, Over(call), Walking, UNCHANGED << live, worktree, sealed, runs, journal,
                                             layouts, launched >>
      PROVE  Ends
  <2>1. Stop(call.ran) /\ Spends
    BY <1>1, <1>5, OverFacts, FaultSpends
  <2> QED
    BY <1>2, <1>5, <2>1 DEF Ends, LastRows
<1> HIDE DEF same
<1>6. CASE CaptureWorktree
  <2> DEFINE c == [call EXCEPT !.anchor = Anchor]
  <2>1. /\ DOMAIN c = CallFields /\ c.kind = call.kind /\ c.index = call.index
        /\ c.seen = call.seen /\ c.authority = call.authority /\ c.anchor = Anchor
        /\ c.tree = call.tree /\ c.tree_again = call.tree_again /\ c.ran = call.ran
    BY <1>1 DEF CallFields, NoCall
  <2>2. PICK holds : Look(holds, c)
    BY <1>6, Zenon DEF CaptureWorktree
  <2>3. At("worktree") /\ Walking /\ call.step # "launch"
    BY <1>6, AtWalks DEF CaptureWorktree, At
  <2> HIDE DEF c
  <2>4. \/ Steady /\ Step(c.seen, c.authority, c.anchor, c.tree, c.tree_again, c.ran)
        \/ Ends
    BY <2>1, <2>2, <2>3, LookOn
  <2> QED
    BY <2>1, <2>3, <2>4 DEF OwnStep, Anchors
<1>7. CASE VerifyWorktree \/ CaptureStart \/ LoadBack
  <2>1. \E c : same(c) /\ \E holds : Look(holds, c)
    BY <1>3, <1>7, Zenon DEF VerifyWorktree, CaptureStart, LoadBack
  <2>2. call.step \in PlainSteps /\ call.step \in { "verify", "start", "load" }
    BY <1>7 DEF VerifyWorktree, CaptureStart, LoadBack, At, PlainSteps
  <2>3. (Steady /\ Onward) \/ Ends
    BY <1>4, <2>1, <2>2
  <2> QED
    BY <2>2, <2>3 DEF OwnStep, Passes, At
<1>8. CASE Authenticate
  <2> DEFINE holds == Loads(sealed) /\ sealed["identity-record"] = call.identity
  <2>1. Look(holds, call) /\ call.step \in PlainSteps /\ At("authenticate")
    BY <1>8 DEF Authenticate, At, PlainSteps
  <2> HIDE DEF holds
  <2>2. (holds /\ Steady /\ Onward) \/ Ends
    BY <1>3, <1>4, <2>1
  <2> QED
    BY <2>1, <2>2 DEF OwnStep, Passes, At, holds
<1>9. CASE ReadSeal
  <2> DEFINE c == [call EXCEPT !.identity = sealed["identity-record"],
                               !.authority = sealed["repository-authority"],
                               !.anchor = sealed["worktree-authority"]]
  <2>1. /\ DOMAIN c = CallFields /\ c.kind = call.kind /\ c.index = call.index
        /\ c.seen = call.seen /\ c.authority = sealed["repository-authority"]
        /\ c.anchor = sealed["worktree-authority"]
        /\ c.tree = call.tree /\ c.tree_again = call.tree_again /\ c.ran = call.ran
    BY <1>1 DEF CallFields, NoCall
  <2>2. At("read") /\ Walking /\ call.step # "launch"
    BY <1>9, AtWalks DEF ReadSeal, At
  <2>3. \/ /\ { "repository-authority", "worktree-authority" } \subseteq DOMAIN sealed
           /\ Look(TRUE, c)
        \/ Refuse
    BY <1>9 DEF ReadSeal
  <2> HIDE DEF c
  <2>4. \/ /\ { "repository-authority", "worktree-authority" } \subseteq DOMAIN sealed
           /\ Steady
           /\ Step(c.seen, c.authority, c.anchor, c.tree, c.tree_again, c.ran)
        \/ Ends
    BY <2>1, <2>2, <2>3, LookOn, RefuseEnds
  <2> QED
    BY <2>1, <2>2, <2>4 DEF OwnStep, ReadsSeal
<1>10. CASE WriteSeal
  <2>1. At("seal") /\ Walking /\ call.step # "launch"
    BY <1>10, AtWalks DEF WriteSeal, At
  <2>2. UNCHANGED << live, sealed, runs, journal, layouts, launched >>
    BY <1>10 DEF WriteSeal
  <2>3. CASE /\ StagesFile
             /\ IF NextFile = "seal-manifest" THEN Go(call) ELSE UNCHANGED call
             /\ UNCHANGED << worktree, spent >>
    <3>1. Go(call) => Onward
      BY <1>1, <2>1, GoFacts DEF Onward
    <3> QED
      BY <2>1, <2>2, <2>3, <3>1 DEF OwnStep, Stages
  <2>4. CASE Fault /\ Over(call) /\ CleanUp
    <3>1. Stop(call.ran) /\ Spends
      BY <1>1, <2>4, OverFacts, FaultSpends
    <3>2. /\ DOMAIN worktree' = DOMAIN NoWorktree
          /\ worktree'.link = worktree.link /\ worktree'.common = worktree.common
      BY <1>2, <2>4 DEF CleanUp, NoWorktree
    <3> QED
      BY <2>1, <2>2, <3>1, <3>2 DEF OwnStep, Ends, LastRows
  <2> QED
    BY <1>10, <2>3, <2>4, Zenon DEF WriteSeal, StagesFile, NextFile
<1>11. CASE SealRefused
  <2>1. Walking /\ Refuse
    BY <1>11, AtWalks DEF SealRefused, At
  <2> QED
    BY <2>1, RefuseEnds DEF OwnStep
<1>12. CASE CreateTask
  <2>1. At("create") /\ Walking /\ call.step # "launch"
    BY <1>12, AtWalks DEF CreateTask, At
  <2>2. UNCHANGED << live, worktree, staging, sealed, runs, journal, layouts, launched >>
    BY <1>12 DEF CreateTask
  <2>3. CASE Go(call) /\ UNCHANGED spent
    <3>1. Onward
      BY <1>1, <2>1, <2>3, GoFacts DEF Onward
    <3> QED
      BY <2>1, <2>2, <2>3, <3>1 DEF OwnStep, Passes, Steady, PlainSteps, At
  <2>4. CASE Fault /\ Over(call)
    BY <1>5, <2>1, <2>2, <2>4 DEF OwnStep
  <2> QED
    BY <1>12, <2>3, <2>4 DEF CreateTask
<1>13. CASE PublishSeal
  <2>1. At("publish") /\ Walking /\ call.step # "launch"
    BY <1>13, AtWalks DEF PublishSeal, At
  <2>2. UNCHANGED << live, worktree, runs, journal, layouts, launched >>
    BY <1>13 DEF PublishSeal
  <2>3. CASE sealed' = staging /\ staging' = NoFiles /\ Go(call) /\ UNCHANGED spent
    <3>1. Onward
      BY <1>1, <2>1, <2>3, GoFacts DEF Onward
    <3> QED
      BY <2>1, <2>2, <2>3, <3>1 DEF OwnStep, Publishes
  <2>4. CASE Fault /\ Over(call) /\ UNCHANGED << sealed, staging >>
    BY <1>5, <2>1, <2>2, <2>4 DEF OwnStep
  <2> QED
    BY <1>13, <2>3, <2>4 DEF PublishSeal
<1> QED
  BY <1>6, <1>7, <1>8, <1>9, <1>10, <1>11, <1>12, <1>13 DEF Sealing

\* Every step is one of the call's own, a beginning, or somebody else's.
LEMMA StepCases ==
  ASSUME Types, Next
  PROVE  OwnStep \/ BeginDispatch \/ BeginResume \/ Others
<1>1. DOMAIN call = CallFields
  BY DEF Types
<1>2. /\ DOMAIN worktree = DOMAIN NoWorktree
      /\ spent \in [changes : Nat, faults : Nat, calls : Nat]
  BY DEF Types
<1>3. CASE DispatcherDies
  <2>1. Walking /\ Fault /\ Over(call)
        /\ UNCHANGED << live, worktree, disk, journal, layouts, launched >>
    BY <1>3 DEF DispatcherDies, Walking
  <2>2. Stop(call.ran) /\ Spends
    BY <1>1, <2>1, OverFacts, FaultSpends
  <2> QED
    BY <1>2, <2>1, <2>2 DEF OwnStep, Ends, LastRows, disk
<1>4. CASE Launch
  <2>1. At("launch") /\ UNCHANGED << live, worktree, staging, sealed, runs, journal, layouts >>
    BY <1>4 DEF Launch, disk
  <2>2. CASE Fault /\ Over(call) /\ UNCHANGED launched
    <3>1. Stop(call.ran) /\ Spends /\ Walking
      BY <1>1, <2>1, <2>2, OverFacts, FaultSpends, AtWalks DEF At
    <3> QED
      BY <1>2, <2>1, <2>2, <3>1 DEF OwnStep, Ends, LastRows
  <2>3. CASE ~ (Fault /\ Over(call) /\ UNCHANGED launched)
    BY <1>4, <2>1, <2>3 DEF Launch, OwnStep, Launches
  <2> QED
    BY <2>2, <2>3
<1>5. CASE WorkerEnds
  <2>1. /\ At("running") /\ Over(call)
        /\ UNCHANGED << live, worktree, staging, sealed, journal, layouts, launched >>
    BY <1>5 DEF WorkerEnds
  <2>2. Stop(call.ran)
    BY <1>1, <2>1, OverFacts
  <2>3. Spends
    BY <1>2, <1>5, FaultSpends DEF WorkerEnds, Spends
  <2>4. runs' \in { runs, IF call.kind = "dispatch" THEN 1 ELSE call.index }
    BY <1>5 DEF WorkerEnds
  <2> QED
    BY <2>1, <2>2, <2>3, <2>4 DEF OwnStep, Returns
<1>6. CASE Authority
  BY <1>6, CapturesCase, GatesCase DEF Authority
<1>7. CASE GitRows
  BY <1>7, RowsCase
<1>8. CASE Sealing
  BY <1>8, SealingCase
<1> QED
  BY <1>3, <1>4, <1>5, <1>6, <1>7, <1>8 DEF Next
-----------------------------------------------------------------------------
(* What everybody else may change *)

\* Each part of m is that of l, or new.
Renews(l, m) ==
  /\ m \in Layout
  /\ m.root \in { l.root, Fresh }
  /\ m.commondir \in { l.commondir, Fresh }
  /\ m.dot_git = Fresh \/ (m.dot_git = l.dot_git /\ m.shape = l.shape)

NewLayout ==
  /\ UNCHANGED << worktree, sealed >>
  /\ layouts' = layouts \cup { live'.layout }
  /\ \/ call.step \in { "over", "running" } /\ live'.layout \in layouts
     \/ Renews(live.layout, live'.layout)

OldLayout == live'.layout = live.layout /\ UNCHANGED layouts

NewLink ==
  /\ OldLayout
  /\ DOMAIN worktree' = DOMAIN NoWorktree
  /\ worktree'.common = worktree.common
  /\ worktree'.link \in { worktree.link, Fresh }
  /\ UNCHANGED sealed

\* The manifest stands; another file may be lost or written anew.
NewSeal ==
  /\ OldLayout
  /\ UNCHANGED worktree
  /\ HasSeal' <=> HasSeal
  /\ HasSeal => sealed'["seal-manifest"] = sealed["seal-manifest"]
  /\ "repository-authority" \in DOMAIN sealed' =>
       /\ "repository-authority" \in DOMAIN sealed
       /\ sealed'["repository-authority"]
            \in { sealed["repository-authority"], live.layout }
  /\ "worktree-authority" \in DOMAIN sealed' =>
       /\ "worktree-authority" \in DOMAIN sealed
       /\ sealed'["worktree-authority"] \in { sealed["worktree-authority"], Anchor }

\* What any change leaves alone, and what it may touch.
LEMMA OthersFacts ==
  ASSUME Types, Others
  PROVE  /\ UNCHANGED << call, staging, runs, journal, launched >>
         /\ spent' \in [changes : Nat, faults : Nat, calls : Nat]
         /\ spent'.changes = Fresh /\ spent'.calls = spent.calls
         /\ DOMAIN live' = DOMAIN live
         /\ NewLayout \/ NewLink \/ NewSeal
<1>1. spent \in [changes : Nat, faults : Nat, calls : Nat]
      /\ DOMAIN live = { "layout", "exact", "loose", "head", "tree" }
      /\ DOMAIN worktree = DOMAIN NoWorktree
      /\ live.layout \in Layout /\ live.layout \in layouts
  BY DEF Types, Old, OldAt
<1>2. Change => /\ spent' \in [changes : Nat, faults : Nat, calls : Nat]
                /\ spent'.changes = Fresh /\ spent'.calls = spent.calls
  BY <1>1 DEF Change, Fresh
<1>3. CASE ChangeLayout
  <2>8. PICK s \in { "directory", "gitfile", "other" },
             d \in { live.layout.commondir, Fresh } :
          \E layout \in
       (IF call.step \in { "over", "running" } THEN layouts ELSE {}) \cup
       { [live.layout EXCEPT !.commondir = Fresh],
         [live.layout EXCEPT !.root = Fresh],
         [live.layout EXCEPT !.dot_git = Fresh, !.shape = s, !.commondir = d] } :
       /\ live' = [live EXCEPT !.layout = layout]
       /\ layouts' = layouts \cup { layout }
    BY <1>3, Zenon DEF ChangeLayout
  <2>1. PICK layout \in
       (IF call.step \in { "over", "running" } THEN layouts ELSE {}) \cup
       { [live.layout EXCEPT !.commondir = Fresh],
         [live.layout EXCEPT !.root = Fresh],
         [live.layout EXCEPT !.dot_git = Fresh, !.shape = s, !.commondir = d] } :
       /\ live' = [live EXCEPT !.layout = layout]
       /\ layouts' = layouts \cup { layout }
    BY <2>8, Zenon
  <2>2. live'.layout = layout /\ DOMAIN live' = DOMAIN live
    BY <1>1, <2>1
  <2>3. Fresh \in Nat
    BY <1>1 DEF Fresh
  <2>4. \/ call.step \in { "over", "running" } /\ layout \in layouts
        \/ layout = [live.layout EXCEPT !.commondir = Fresh]
        \/ layout = [live.layout EXCEPT !.root = Fresh]
        \/ layout = [live.layout EXCEPT !.dot_git = Fresh, !.shape = s, !.commondir = d]
    BY <2>1, Zenon
  <2>5. (call.step \in { "over", "running" } /\ layout \in layouts)
        \/ Renews(live.layout, layout)
    <3>1. PICK n \in Nat : n = Fresh
      BY <2>3
    <3>2. CASE layout = [live.layout EXCEPT !.dot_git = n, !.shape = s, !.commondir = d]
      BY <1>1, <2>8, <3>1, <3>2 DEF Renews, Layout
    <3>3. CASE \/ layout = [live.layout EXCEPT !.commondir = n]
               \/ layout = [live.layout EXCEPT !.root = n]
      BY <1>1, <3>1, <3>3 DEF Renews, Layout
    <3> QED
      BY <2>4, <3>1, <3>2, <3>3
  <2>6. UNCHANGED << worktree, sealed, call, staging, runs, journal, launched >>
    BY <1>3 DEF ChangeLayout, disk
  <2>7. Change
    BY <1>3 DEF ChangeLayout
  <2> QED
    BY <1>2, <2>1, <2>2, <2>5, <2>6, <2>7 DEF NewLayout
<1>4. CASE ChangeRepository
  <2>1. live'.layout = live.layout /\ DOMAIN live' = DOMAIN live
    BY <1>1, <1>4 DEF ChangeRepository
  <2> QED
    BY <1>1, <1>2, <1>4, <2>1 DEF ChangeRepository, disk, NewLink, OldLayout
<1>5. CASE ChangeWorktree
  <2>1. /\ DOMAIN worktree' = DOMAIN NoWorktree /\ worktree'.common = worktree.common
        /\ worktree'.link \in { worktree.link, Fresh }
    BY <1>1, <1>5 DEF ChangeWorktree, NoWorktree
  <2> QED
    BY <1>2, <1>5, <2>1 DEF ChangeWorktree, disk, NewLink, OldLayout
<1>6. CASE ChangeSeal
  <2>1. PICK f \in DOMAIN sealed \ { "seal-manifest" } :
       \/ sealed' = [g \in DOMAIN sealed \ {f} |-> sealed[g]]
       \/ /\ f = "repository-authority"
          /\ sealed' = [sealed EXCEPT ![f] = live.layout]
       \/ /\ f = "worktree-authority"
          /\ sealed' = [sealed EXCEPT ![f] = Anchor]
    BY <1>6 DEF ChangeSeal, Anchor
  <2>2. UNCHANGED << live, worktree, staging, runs, journal, call, layouts, launched >>
        /\ Change
    BY <1>6 DEF ChangeSeal
  <2>3. /\ HasSeal' <=> HasSeal
        /\ HasSeal => sealed'["seal-manifest"] = sealed["seal-manifest"]
        /\ "repository-authority" \in DOMAIN sealed' =>
             /\ "repository-authority" \in DOMAIN sealed
             /\ sealed'["repository-authority"]
                  \in { sealed["repository-authority"], live.layout }
        /\ "worktree-authority" \in DOMAIN sealed' =>
             /\ "worktree-authority" \in DOMAIN sealed
             /\ sealed'["worktree-authority"] \in { sealed["worktree-authority"], Anchor }
    BY <2>1 DEF HasSeal
  <2> QED
    BY <1>2, <2>2, <2>3 DEF NewSeal, OldLayout
<1>7. CASE Rebaseline
  BY <1>1, <1>2, <1>7 DEF Rebaseline, disk, NewLink, OldLayout
<1> QED
  BY <1>3, <1>4, <1>5, <1>6, <1>7 DEF Others
-----------------------------------------------------------------------------
(* The parts of the invariant *)

\* What is old stays old.
LEMMA OldStays ==
  ASSUME NEW l, NEW m \in Nat, NEW n \in Nat, m <= n, OldAt(l, m)
  PROVE  OldAt(l, n)
BY DEF OldAt, Layout

\* A layout that was changed is as old as the change.
LEMMA RenewedIsOld ==
  ASSUME Types, NEW l, OldAt(l, spent.changes), NEW m, Renews(l, m)
  PROVE  OldAt(m, Fresh)
<1>1. PICK k \in Nat, n \in Nat : k = spent.changes /\ n = Fresh /\ n = k + 1
  BY DEF Types, Fresh
<1> QED
  BY <1>1 DEF OldAt, Renews, Layout

\* Time goes on.
LEMMA ChangesGrow ==
  ASSUME Types, Next
  PROVE  /\ spent \in [changes : Nat, faults : Nat, calls : Nat]
         /\ spent' \in [changes : Nat, faults : Nat, calls : Nat]
         /\ spent.changes <= spent'.changes
         /\ spent.calls <= spent'.calls
         /\ ~ (BeginDispatch \/ BeginResume) => spent'.calls = spent.calls
<1>1. spent \in [changes : Nat, faults : Nat, calls : Nat]
  BY DEF Types
<1>2. CASE OwnStep
  BY <1>1, <1>2 DEF OwnStep, Passes, SeesRoot, SeesDotGit, SeesCommondir, SeesMatch,
     SeesTree, ReadsSeal, Anchors, Marks, ReadOnlyRow, MakesTree, Stages, Publishes, Ends,
     Launches, Returns, Steady, Spends
<1>3. CASE BeginDispatch
  BY <1>1, <1>3 DEF BeginDispatch
<1>4. CASE BeginResume
  BY <1>1, <1>4 DEF BeginResume
<1>5. CASE Others
  BY <1>1, <1>5, OthersFacts DEF Fresh
<1> QED
  BY <1>1, <1>2, <1>3, <1>4, <1>5, StepCases

\* The layouts there are and were.
LEMMA LayoutsNext ==
  ASSUME Types, Next
  PROVE  /\ DOMAIN live' = { "layout", "exact", "loose", "head", "tree" }
         /\ live'.layout \in layouts'
         /\ \A l \in layouts' : OldAt(l, spent'.changes)
         /\ layouts \subseteq layouts'
         /\ ~ Others => live'.layout = live.layout /\ UNCHANGED layouts
<1>1. /\ DOMAIN live = { "layout", "exact", "loose", "head", "tree" }
      /\ live.layout \in layouts
      /\ \A l \in layouts : OldAt(l, spent.changes)
  BY DEF Types, Old
<1>2. \A l \in layouts : OldAt(l, spent'.changes)
  BY <1>1, ChangesGrow, OldStays
<1>3. CASE OwnStep
  <2>1. UNCHANGED << live, layouts >> \/ MakesTree
    BY <1>3 DEF OwnStep, Passes, SeesRoot, SeesDotGit, SeesCommondir, SeesMatch,
       SeesTree, ReadsSeal, Anchors, Marks, ReadOnlyRow, Stages, Publishes, Ends,
       Launches, Returns, Steady
  <2> QED
    BY <1>1, <1>2, <2>1 DEF MakesTree
<1>4. CASE BeginDispatch \/ BeginResume
  BY <1>1, <1>2, <1>4 DEF BeginDispatch, BeginResume
<1>5. CASE Others
  <2>1. CASE NewLayout
    <3>1. OldAt(live'.layout, spent'.changes)
      <4>1. CASE live'.layout \in layouts
        BY <1>2, <4>1
      <4>2. CASE Renews(live.layout, live'.layout)
        BY <1>1, <1>5, <4>2, RenewedIsOld, OthersFacts
      <4> QED
        BY <2>1, <4>1, <4>2 DEF NewLayout
    <3> QED
      BY <1>1, <1>2, <1>5, <2>1, <3>1, OthersFacts DEF NewLayout
  <2>2. CASE NewLink \/ NewSeal
    BY <1>1, <1>2, <1>5, <2>2, OthersFacts DEF NewLink, NewSeal, OldLayout
  <2> QED
    BY <1>5, <2>1, <2>2, OthersFacts
<1> QED
  BY <1>3, <1>4, <1>5, StepCases

\* The worktree's link and common directory.
LEMMA WorktreeNext ==
  ASSUME Types, Next
  PROVE  /\ DOMAIN worktree' = DOMAIN NoWorktree
         /\ worktree'.link \in Nat /\ worktree'.common \in Nat
         /\ worktree'.link <= spent'.changes
         /\ ~ At("G4") => worktree'.common = worktree.common
                          /\ worktree.link <= worktree'.link
<1>1. /\ DOMAIN worktree = DOMAIN NoWorktree
      /\ worktree.link \in Nat /\ worktree.common \in Nat
      /\ worktree.link <= spent.changes
      /\ live.layout.commondir \in Nat
  BY DEF Types, Old, OldAt, Layout
<1>2. PICK m \in Nat, n \in Nat : m = spent.changes /\ n = spent'.changes /\ m <= n
  BY ChangesGrow
<1>3. CASE OwnStep
  <2>1. \/ UNCHANGED worktree
        \/ /\ DOMAIN worktree' = DOMAIN NoWorktree
           /\ \/ worktree'.link = worktree.link /\ worktree'.common = worktree.common
              \/ At("G4") /\ worktree'.link = 0 /\ worktree'.common = live.layout.commondir
    BY <1>3 DEF OwnStep, Passes, SeesRoot, SeesDotGit, SeesCommondir, SeesMatch,
       SeesTree, ReadsSeal, Anchors, Marks, ReadOnlyRow, MakesTree, Stages, Publishes, Ends,
       Launches, Returns, Steady, RowStep
  <2> QED
    BY <1>1, <1>2, <2>1
<1>4. CASE BeginDispatch \/ BeginResume
  BY <1>1, <1>2, <1>4 DEF BeginDispatch, BeginResume
<1>5. CASE Others
  <2>1. UNCHANGED worktree \/ NewLink
    BY <1>5, OthersFacts DEF NewLayout, NewSeal
  <2>2. n = Fresh /\ Fresh = m + 1
    BY <1>2, <1>5, OthersFacts DEF Fresh
  <2> HIDE DEF Fresh
  <2> QED
    BY <1>1, <1>2, <2>1, <2>2 DEF NewLink
<1> QED
  BY <1>3, <1>4, <1>5, StepCases

\* A call that walks is at none of the three steps at which it does not.
LEMMA WalkersAreOn ==
  ASSUME NEW c, c.kind \in { "dispatch", "resume" }, WalkingIn(c)
  PROVE  c.step \notin { "idle", "over", "running" }
<1>1. \A i \in 1 .. 29 : DispatchSteps[i] \notin { "idle", "over", "running" }
  BY DEF DispatchSteps
<1>2. \A i \in 1 .. 21 : ResumeSteps[i] \notin { "idle", "over", "running" }
  BY DEF ResumeSteps
<1>3. c.step \in Range(DispatchSteps) \/ c.step \in Range(ResumeSteps)
  BY DEF WalkingIn, Steps
<1> HIDE DEF DispatchSteps, ResumeSteps
<1> QED
  BY <1>1, <1>2, <1>3, DispatchOrder, ResumeOrder

\* The two captures, in whichever call.
FirstAt(kind) == IF kind = "dispatch" THEN 1 ELSE 2

SecondAt(kind) == IF kind = "dispatch" THEN 18 ELSE 14

CapturePlaces(c, first, second) ==
  /\ first \in 1 .. 2 /\ second \in { 14, 18 }
  /\ Place(c) \in Nat
  /\ Reaches(c, "root", first) /\ Reaches(c, "dot_git", first + 1)
  /\ Reaches(c, "commondir", first + 2) /\ Reaches(c, "matches", first + 3)
  /\ Reaches(c, "root_again", second) /\ Reaches(c, "dot_git_again", second + 1)
  /\ Reaches(c, "commondir_again", second + 2)
  /\ Reaches(c, "matches_again", second + 3)

LEMMA CapturesSomewhere ==
  ASSUME NEW c, c.kind \in { "dispatch", "resume" }, WalkingIn(c)
  PROVE  CapturePlaces(c, FirstAt(c.kind), SecondAt(c.kind))
<1>1. CASE c.kind = "dispatch"
  BY <1>1, DispatchIsSomewhere DEF DispatchPlaces, CapturePlaces, FirstAt, SecondAt
<1>2. CASE c.kind = "resume"
  BY <1>2, ResumeIsSomewhere DEF ResumePlaces, CapturePlaces, FirstAt, SecondAt
<1> QED
  BY <1>1, <1>2

\* How a step of its own moves a call.
LEMMA CallMoves ==
  ASSUME Types, OwnStep
  PROVE  /\ DOMAIN call' = CallFields
         /\ call'.kind = call.kind /\ call'.index = call.index
         /\ \/ Walking /\ WalkingIn(call') /\ Place(call') = Place(call) + 1
            \/ UNCHANGED call
            \/ call'.step = "over" /\ (Walking \/ At("running"))
            \/ At("launch") /\ call'.step = "running"
<1>1. DOMAIN call = CallFields
  BY DEF Types
<1>2. CASE Launches
  BY <1>1, <1>2 DEF Launches, CallFields, NoCall
<1>3. CASE Ends \/ Returns
  BY <1>3 DEF Ends, Returns, LastRows, Stop
<1>4. CASE UNCHANGED call
  BY <1>1, <1>4
<1>5. CASE \E seen, authority, anchor, tree, tree_again, ran :
             Step(seen, authority, anchor, tree, tree_again, ran)
  BY <1>5 DEF Step
<1>6. CASE ~ (Launches \/ Ends \/ Returns \/ UNCHANGED call)
  <2>1. \E seen, authority, anchor, tree, tree_again, ran :
          Step(seen, authority, anchor, tree, tree_again, ran)
    BY <1>6, Zenon DEF OwnStep, Passes, SeesRoot, SeesDotGit, SeesCommondir, SeesMatch,
       SeesTree, ReadsSeal, Anchors, Marks, ReadOnlyRow, MakesTree, Stages, Publishes,
       Onward, RowStep
  <2> QED
    BY <1>5, <2>1
<1> QED
  BY <1>2, <1>3, <1>4, <1>6

\* A call that walks after a step of its own did so before.
LEMMA WalksOn ==
  ASSUME Types, OwnStep, WalkingIn(call')
  PROVE  /\ Walking /\ WalkingIn(call)
         /\ call'.kind = call.kind /\ call.kind \in { "dispatch", "resume" }
         /\ UNCHANGED call \/ Place(call') = Place(call) + 1
         /\ call.step \notin { "idle", "over", "running" }
         /\ call'.step \notin { "idle", "over", "running" }
         /\ ~ Ends /\ ~ Launches /\ ~ Returns
<1>1. /\ call'.kind = call.kind /\ call.kind \in { "dispatch", "resume" }
      /\ DOMAIN call = CallFields
  BY CallMoves DEF Types
<1>2. call'.step \notin { "idle", "over", "running" }
  BY <1>1, WalkersAreOn
<1>3. ~ Ends /\ ~ Returns
  BY <1>2 DEF Ends, Returns, LastRows, Stop
<1>4. ~ Launches
  BY <1>1, <1>2 DEF Launches, CallFields, NoCall
<1>5. Walking
  BY <1>2, CallMoves DEF Walking, WalkingIn
<1>6. WalkingIn(call) /\ call.step \notin { "idle", "over", "running" }
  BY <1>1, <1>5, WalkersAreOn DEF Walking, WalkingIn
<1> QED
  BY <1>1, <1>2, <1>3, <1>4, <1>5, <1>6, CallMoves

\* What a call saw and was authorised by is old.
LEMMA CallNext ==
  ASSUME Types, Beginnings, SealFits, Next
  PROVE  /\ DOMAIN call' = CallFields
         /\ call'.kind \in { "dispatch", "resume" }
         /\ call'.step \in { "idle", "over", "running" } \/ WalkingIn(call')
         /\ OldAt(call'.seen, spent.changes)
         /\ call'.authority = None \/ OldAt(call'.authority, spent.changes)
<1>1. /\ DOMAIN call = CallFields
      /\ call.kind \in { "dispatch", "resume" }
      /\ call.step \in { "idle", "over", "running" } \/ WalkingIn(call)
      /\ OldAt(call.seen, spent.changes) /\ OldAt(live.layout, spent.changes)
      /\ call.authority = None \/ OldAt(call.authority, spent.changes)
      /\ spent.changes \in Nat
  BY DEF Types, Old, Walking, WalkingIn
<1>2. CASE OwnStep
  <2>1. /\ DOMAIN call' = CallFields
        /\ call'.kind \in { "dispatch", "resume" }
        /\ call'.step \in { "idle", "over", "running" } \/ WalkingIn(call')
    BY <1>1, <1>2, CallMoves
  <2>2. CASE ReadsSeal
    <3>1. Walking
      BY <2>2, AtWalks DEF ReadsSeal, At
    <3>2. call.kind = "resume"
      BY <2>2, <3>1, <1>1, DispatchIsSomewhere, DispatchOrder
         DEF ReadsSeal, At, Walking, WalkingIn, Steps, DispatchSteps
    <3>3. OldAt(sealed["repository-authority"], spent.changes)
      BY <2>2, <3>2 DEF ReadsSeal, Beginnings, SealFits, Old
    <3> QED
      BY <1>1, <2>1, <2>2, <3>3 DEF ReadsSeal, Step
  <2>3. CASE SeesRoot \/ SeesDotGit \/ SeesCommondir
    <3>1. /\ call'.authority = call.authority
          /\ \/ call'.seen = [call.seen EXCEPT !.root = live.layout.root]
             \/ call'.seen = [call.seen EXCEPT !.dot_git = live.layout.dot_git,
                                               !.shape = live.layout.shape]
             \/ call'.seen = [call.seen EXCEPT !.commondir = live.layout.commondir]
      BY <2>3 DEF SeesRoot, SeesDotGit, SeesCommondir, Step
    <3>2. OldAt(call'.seen, spent.changes)
      BY <1>1, <3>1 DEF OldAt, Layout
    <3> QED
      BY <1>1, <2>1, <3>1, <3>2
  <2>4. CASE ~ (ReadsSeal \/ SeesRoot \/ SeesDotGit \/ SeesCommondir \/ Launches)
    <3>1. call'.seen = call.seen /\ call'.authority \in { call.authority, call.seen }
      BY <1>2, <2>4 DEF OwnStep, Passes, SeesMatch, SeesTree, Anchors, Marks, ReadOnlyRow,
         MakesTree, Stages, Publishes, Ends, Returns, Onward, RowStep, Step, Stop, LastRows
    <3> QED
      BY <1>1, <2>1, <3>1
  <2>5. CASE Launches
    <3>1. call'.seen = call.seen /\ call'.authority = call.authority
      BY <1>1, <2>5 DEF Launches, CallFields, NoCall
    <3> QED
      BY <1>1, <2>1, <3>1
  <2> QED
    BY <2>2, <2>3, <2>4, <2>5
<1>3. CASE BeginDispatch \/ BeginResume
  <2>1. /\ DOMAIN call' = CallFields /\ call'.kind \in { "dispatch", "resume" }
        /\ call'.seen = FirstLayout /\ call'.authority = None
        /\ \/ call'.kind = "dispatch" /\ call'.step = "root"
           \/ call'.kind = "resume" /\ call'.step = "read"
    BY <1>3 DEF BeginDispatch, BeginResume, NoCall, CallFields
  <2>2. WalkingIn(call')
    <3>1. DispatchSteps[1] = "root" /\ ResumeSteps[1] = "read"
      BY DEF DispatchSteps, ResumeSteps
    <3> QED
      BY <2>1, <3>1, DispatchOrder, ResumeOrder DEF WalkingIn, Steps
  <2>3. OldAt(FirstLayout, spent.changes)
    BY <1>1 DEF OldAt, FirstLayout, Layout
  <2> QED
    BY <2>1, <2>2, <2>3
<1>4. CASE Others
  BY <1>1, <1>4, OthersFacts DEF WalkingIn
<1> QED
  BY <1>2, <1>3, <1>4, StepCases

\* Types.
LEMMA TypesNext ==
  ASSUME Types, Beginnings, SealFits, Next
  PROVE  Types'
<1>1. /\ OldAt(call'.seen, spent'.changes)
      /\ call'.authority = None \/ OldAt(call'.authority, spent'.changes)
  BY CallNext, ChangesGrow, OldStays
<1> QED
  BY <1>1, CallNext, ChangesGrow, LayoutsNext, WorktreeNext
     DEF Types, Old, Walking, WalkingIn

\* Steps that only one of the two calls has.
LEMMA KindOfStep ==
  ASSUME NEW c, c.kind \in { "dispatch", "resume" }, WalkingIn(c)
  PROVE  /\ c.step \in { "G4", "publish", "seal", "worktree", "create", "load",
                          "start" } => c.kind = "dispatch"
         /\ c.step \in { "read", "verify", "authenticate" } => c.kind = "resume"
<1>1. \A i \in 1 .. 21 : ResumeSteps[i] \notin { "G4", "publish", "seal", "worktree",
                                                 "create", "load", "start" }
  BY DEF ResumeSteps
<1>2. \A i \in 1 .. 29 : DispatchSteps[i] \notin { "read", "verify", "authenticate" }
  BY DEF DispatchSteps
<1> HIDE DEF DispatchSteps, ResumeSteps
<1> QED
  BY <1>1, <1>2, DispatchOrder, ResumeOrder DEF WalkingIn, Steps

\* How a call begins.
LEMMA CallBegins ==
  ASSUME Types, BeginDispatch \/ BeginResume
  PROVE  /\ DOMAIN call' = CallFields
         /\ WalkingIn(call')
         /\ call'.ran = << >>
         /\ \/ BeginDispatch /\ call'.kind = "dispatch" /\ call'.step = "root"
               /\ call'.index = 0 /\ Place(call') = 1
            \/ BeginResume /\ call'.kind = "resume" /\ call'.step = "read"
               /\ call'.index = runs + 1 /\ Place(call') = 1
         /\ UNCHANGED << live, worktree, staging, sealed, runs, journal, layouts, launched >>
<1>1. /\ DOMAIN call' = CallFields /\ call'.ran = << >>
      /\ \/ BeginDispatch /\ call'.kind = "dispatch" /\ call'.step = "root" /\ call'.index = 0
         \/ BeginResume /\ call'.kind = "resume" /\ call'.step = "read"
            /\ call'.index = runs + 1
  BY DEF BeginDispatch, BeginResume, NoCall, CallFields
<1>2. WalkingIn(call') /\ Place(call') = 1
  <2>1. DispatchSteps[1] = "root" /\ ResumeSteps[1] = "read"
    BY DEF DispatchSteps, ResumeSteps
  <2>2. "root" \in Range(DispatchSteps) /\ Position("dispatch", "root") = 1
    BY <2>1, DispatchOrder
  <2>3. "read" \in Range(ResumeSteps) /\ Position("resume", "read") = 1
    BY <2>1, ResumeOrder
  <2> QED
    BY <1>1, <2>2, <2>3 DEF WalkingIn, Steps, Place
<1> QED
  BY <1>1, <1>2 DEF BeginDispatch, BeginResume, disk

\* The seal is published once and stays where it is; others may touch its files.
LEMMA SealedSteps ==
  ASSUME OwnStep
  PROVE  \/ Publishes /\ UNCHANGED << worktree, live, launched >>
         \/ /\ UNCHANGED sealed
            /\ launched' = launched \/ Launches
            /\ UNCHANGED staging \/ Stages \/ Ends
            /\ \/ UNCHANGED worktree
               \/ worktree'.link = worktree.link /\ worktree'.common = worktree.common
               \/ At("G4")
BY DEF OwnStep, Passes, SeesRoot, SeesDotGit, SeesCommondir, SeesMatch, SeesTree, ReadsSeal,
   Anchors, Marks, ReadOnlyRow, MakesTree, Stages, Publishes, Ends, Launches, Returns, Steady,
   RowStep

\* Beginnings.
LEMMA BeginningsNext ==
  ASSUME Types, Beginnings, StagingFits, Next
  PROVE  Beginnings'
<1> USE DEF Walking, WalkingIn
<1>1. /\ call.kind \in { "dispatch", "resume" }
      /\ spent.calls \in Nat
  BY DEF Types
<1>2. CASE OwnStep
  <2>1. Walking \/ At("running")
    BY <1>2, <1>1, AtWalks DEF OwnStep, Passes, SeesRoot, SeesDotGit, SeesCommondir, SeesMatch,
       SeesTree, ReadsSeal, Anchors, Marks, ReadOnlyRow, MakesTree, Stages, Publishes, Ends,
       Launches, Returns, RowStep, At, PlainSteps
  <2>2. call.step # "idle"
    BY <1>1, <2>1, WalkersAreOn DEF At
  <2>3. spent'.calls = spent.calls /\ spent.calls # 0
    BY <1>2, <2>2, <1>1 DEF Beginnings, OwnStep, Passes, SeesRoot, SeesDotGit, SeesCommondir,
       SeesMatch, SeesTree, ReadsSeal, Anchors, Marks, ReadOnlyRow, MakesTree, Stages,
       Publishes, Ends, Launches, Returns, RowStep, Steady, Spends
  <2>4. call'.step # "idle" /\ call'.kind = call.kind
    BY <1>1, <1>2, <2>2, CallMoves, WalkersAreOn
  <2>8. Walking' => call'.step \notin { "idle", "over", "running" }
    BY <1>1, <2>4, WalkersAreOn
  <2>5. Walking' /\ call'.kind = "dispatch" => launched' = << >>
    <3>1. SUFFICES ASSUME Walking', call'.kind = "dispatch"
                   PROVE  launched' = << >>
      OBVIOUS
    <3>2. Walking /\ ~ Launches
      <4>1. call'.step \notin { "over", "running" }
        BY <2>8, <3>1
      <4>2. call.step # "running" \/ call'.step = "over"
        <5>1. CASE call.step = "running"
          <6>1. ~ Walking
            BY <1>1, <5>1, WalkersAreOn
          <6>2. ~ UNCHANGED call
            BY <2>8, <3>1, <5>1
          <6> QED
            BY <1>2, <4>1, <5>1, <6>1, <6>2, CallMoves DEF At
        <5> QED
          BY <5>1
      <4>3. ~ Launches
        BY <1>1, <4>1 DEF Launches, Types, CallFields, NoCall
      <4> QED
        BY <2>1, <4>1, <4>2, <4>3 DEF At
    <3> QED
      BY <1>2, <2>4, <3>1, <3>2, SealedSteps DEF Beginnings
  <2>6. (HasSeal => \/ call.step \in { "over", "running" }
                    \/ call.kind = "resume"
                    \/ Walking /\ Past("publish"))'
    <3>1. SUFFICES ASSUME HasSeal', Walking', call'.kind = "dispatch"
                   PROVE  Past("publish")'
      <4>1. Walking' \/ call'.step \in { "over", "running" }
        BY <1>1, <1>2, <2>1, <2>4, CallMoves DEF At
      <4> QED
        BY <1>1, <2>4, <3>1, <4>1
    <3>2. Walking /\ (UNCHANGED call \/ Place(call') = Place(call) + 1)
      BY <1>2, <2>1, <2>8, <3>1, CallMoves DEF At
    <3>3. At("publish") \/ Past("publish")
      <4>1. CASE Publishes
        BY <4>1 DEF Publishes
      <4>2. CASE UNCHANGED sealed
        <5>1. HasSeal /\ call.step \notin { "over", "running" }
          BY <1>1, <3>1, <3>2, <4>2, WalkersAreOn DEF HasSeal
        <5> QED
          BY <2>4, <3>1, <5>1 DEF Beginnings
      <4> QED
        BY <1>2, <4>1, <4>2, SealedSteps
    <3>4. CASE UNCHANGED call
      <4>1. ~ Publishes
        BY <1>1, <3>2, <3>4, DispatchIsSomewhere, <3>1
           DEF Publishes, Onward, Step, DispatchPlaces, Reaches
      <4>2. UNCHANGED sealed /\ HasSeal /\ call.step \notin { "over", "running" }
        BY <1>1, <1>2, <3>1, <3>2, <4>1, SealedSteps, WalkersAreOn DEF HasSeal
      <4> QED
        BY <2>4, <3>1, <3>4, <4>2 DEF Beginnings, Past
    <3>5. CASE Place(call') = Place(call) + 1
      <4>1. DispatchPlaces(call) /\ DispatchPlaces(call')
        BY <2>4, <3>1, <3>2, DispatchIsSomewhere
      <4>2. Place(call) >= 28
        BY <3>3, <4>1 DEF DispatchPlaces, Reaches, At, Past, PastIn
      <4> QED
        BY <3>5, <4>1, <4>2 DEF DispatchPlaces, Reaches, Past, PastIn
    <3> QED
      BY <3>2, <3>4, <3>5
  <2>7. (call.kind = "resume" \/ launched # << >> => HasSeal)'
    <3>1. CASE Publishes
      <4>1. Walking /\ call.kind = "dispatch"
        BY <1>1, <3>1, AtWalks, KindOfStep DEF Publishes, At
      <4>2. launched' = << >>
        BY <3>1, <4>1 DEF Beginnings, Publishes
      <4> QED
        BY <2>4, <4>1, <4>2
    <3>2. CASE ~ Publishes
      <4>1. HasSeal' <=> HasSeal
        BY <1>2, <3>2, SealedSteps DEF HasSeal
      <4>2. CASE Launches /\ call.kind = "dispatch"
        <5>1. Walking
          BY <4>2, AtWalks DEF Launches, At
        <5>2. Past("publish")
          <6>1. DispatchPlaces(call)
            BY <4>2, <5>1, DispatchIsSomewhere
          <6> QED
            BY <4>2, <6>1 DEF Launches, At, DispatchPlaces, Reaches, Past, PastIn
        <5> QED
          BY <4>1, <4>2, <5>1, <5>2 DEF StagingFits
      <4>3. CASE ~ (Launches /\ call.kind = "dispatch")
        BY <1>1, <1>2, <2>4, <3>2, <4>1, <4>3, SealedSteps DEF Beginnings
      <4> QED
        BY <4>2, <4>3
    <3> QED
      BY <3>1, <3>2
  <2> QED
    BY <2>3, <2>4, <2>5, <2>6, <2>7 DEF Beginnings
<1>3. CASE BeginDispatch
  <2>1. call.step = "idle" /\ call.kind = "dispatch" /\ staging = NoFiles
    BY <1>3 DEF Beginnings, BeginDispatch
  <2>2. ~ HasSeal /\ launched = << >>
    BY <1>1, <2>1, WalkersAreOn DEF Beginnings
  <2>3. spent'.calls = 1
    BY <1>1, <1>3 DEF BeginDispatch, Types
  <2>4. UNCHANGED << sealed, launched >> /\ call'.kind = "dispatch" /\ call'.step = "root"
    BY <1>3, <2>1, CallBegins DEF BeginResume, At
  <2> QED
    BY <1>3, <2>2, <2>3, <2>4, CallBegins DEF Beginnings, HasSeal
<1>4. CASE BeginResume
  <2>1. HasSeal
    BY <1>4 DEF Beginnings, BeginResume
  <2>2. spent'.calls # 0
    BY <1>1, <1>4 DEF BeginResume, Types
  <2>3. call'.kind = "resume" /\ call'.step = "read" /\ UNCHANGED sealed
    BY <1>4, CallBegins DEF BeginResume, BeginDispatch, At
  <2> QED
    BY <2>1, <2>2, <2>3 DEF Beginnings, HasSeal
<1>5. CASE Others
  <2>1. HasSeal' <=> HasSeal
    BY <1>5, OthersFacts DEF NewLayout, NewLink, NewSeal, HasSeal
  <2> QED
    BY <1>5, <2>1, OthersFacts DEF Beginnings, Past
<1> QED
  BY <1>2, <1>3, <1>4, <1>5, StepCases

\* SealFits.
LEMMA SealFitsNext ==
  ASSUME Types, Beginnings, SealFits, FirstCapture, StagingFits, Next
  PROVE  SealFits'
<1>1. /\ call.kind \in { "dispatch", "resume" }
      /\ spent.changes \in Nat /\ worktree.link \in Nat
      /\ worktree'.link \in Nat /\ spent'.changes \in Nat /\ worktree'.common \in Nat
  BY WorktreeNext, ChangesGrow DEF Types
<1>2. \A l : Old(l) => OldAt(l, spent'.changes)
  BY ChangesGrow, OldStays DEF Old
<1>3. SUFFICES ASSUME HasSeal'
               PROVE  SealFits'
  BY DEF SealFits
<1>4. CASE Publishes
  <2>1. Walking /\ call.kind = "dispatch"
    BY <1>1, <1>4, AtWalks, KindOfStep DEF Publishes, At, Walking, WalkingIn
  <2>2. /\ Past("worktree") /\ Past("matches") /\ Past("seal") /\ ~ Past("publish")
    BY <1>4, <2>1, DispatchIsSomewhere
       DEF Publishes, At, DispatchPlaces, Reaches, Past, PastIn, Walking, WalkingIn
  <2>3. /\ sealed' = staging /\ UNCHANGED worktree
        /\ "repository-authority" \in DOMAIN staging["seal-manifest"]
        /\ "worktree-authority" \in DOMAIN staging["seal-manifest"]
        /\ staging["repository-authority"] = call.authority
        /\ staging["worktree-authority"] = call.anchor
        /\ staging["seal-manifest"]["repository-authority"] = call.authority
        /\ staging["seal-manifest"]["worktree-authority"] = call.anchor
        /\ call.anchor \in AnchorSet /\ call.anchor.common = worktree.common
        /\ call.anchor.link <= worktree.link
    BY <1>4, <2>1, <2>2 DEF Publishes, StagingFits
  <2>4. Old(call.authority)
    BY <2>1, <2>2 DEF FirstCapture
  <2>5. call.anchor.link <= call.anchor.link
    BY <2>3 DEF AnchorSet
  <2> QED
    BY <1>2, <2>3, <2>4, <2>5 DEF SealFits, SealedAuthority, SealedAnchor, HasSeal, Old
<1>5. CASE (OwnStep /\ ~ Publishes) \/ BeginDispatch \/ BeginResume
  <2>1. UNCHANGED sealed /\ HasSeal
    BY <1>3, <1>5, SealedSteps, CallBegins DEF HasSeal
  <2>2. worktree'.link = worktree.link /\ worktree'.common = worktree.common
    <3>1. CASE OwnStep
      <4>1. ~ At("G4")
        <5>1. SUFFICES ASSUME At("G4") PROVE FALSE
          OBVIOUS
        <5>2. Walking /\ call.kind = "dispatch"
          BY <1>1, <5>1, AtWalks, KindOfStep DEF At, Walking, WalkingIn
        <5>3. ~ Past("publish")
          BY <5>1, <5>2, DispatchIsSomewhere
             DEF At, DispatchPlaces, Reaches, Past, PastIn, Walking, WalkingIn
        <5> QED
          BY <2>1, <5>1, <5>2, <5>3 DEF Beginnings, At
      <4> QED
        BY <1>5, <3>1, <4>1, SealedSteps
    <3>2. CASE BeginDispatch \/ BeginResume
      BY <3>2, CallBegins
    <3> QED
      BY <1>5, <3>1, <3>2
  <2> QED
    BY <1>2, <2>1, <2>2 DEF SealFits, SealedAuthority, SealedAnchor, HasSeal, Old
<1>6. CASE Others
  <2>1. HasSeal /\ sealed'["seal-manifest"] = sealed["seal-manifest"]
    BY <1>3, <1>6, OthersFacts DEF NewLayout, NewLink, NewSeal, HasSeal
  <2>2. worktree'.common = worktree.common /\ worktree.link <= worktree'.link
    <3>1. UNCHANGED worktree \/ NewLink
      BY <1>6, OthersFacts DEF NewLayout, NewSeal
    <3>2. worktree.link <= Fresh
      BY <1>1 DEF Types, Fresh
    <3> QED
      BY <1>1, <3>1, <3>2 DEF NewLink
  <2>3. Old(live.layout) /\ Anchor \in AnchorSet
    BY <1>1 DEF Types, Anchor, AnchorSet
  <2>4. "repository-authority" \in DOMAIN sealed' =>
          OldAt(sealed'["repository-authority"], spent'.changes)
    BY <1>2, <1>6, <2>1, <2>3, OthersFacts DEF SealFits, NewLayout, NewLink, NewSeal
  <2>5. /\ SealedAnchor \in AnchorSet /\ SealedAnchor.common = worktree.common
        /\ SealedAnchor.link <= worktree.link
    BY <2>1 DEF SealFits
  <2>6. "worktree-authority" \in DOMAIN sealed' =>
          /\ sealed'["worktree-authority"] \in AnchorSet
          /\ sealed'["worktree-authority"].common = worktree.common
          /\ SealedAnchor.link <= sealed'["worktree-authority"].link
          /\ sealed'["worktree-authority"].link <= worktree.link
    <3>1. SUFFICES ASSUME "worktree-authority" \in DOMAIN sealed'
                   PROVE  /\ sealed'["worktree-authority"] \in AnchorSet
                          /\ sealed'["worktree-authority"].common = worktree.common
                          /\ SealedAnchor.link <= sealed'["worktree-authority"].link
                          /\ sealed'["worktree-authority"].link <= worktree.link
      OBVIOUS
    <3>2. CASE sealed'["worktree-authority"] = Anchor
      BY <1>1, <2>3, <2>5, <3>2 DEF Anchor
    <3>3. CASE /\ "worktree-authority" \in DOMAIN sealed
               /\ sealed'["worktree-authority"] = sealed["worktree-authority"]
      BY <2>1, <3>3 DEF SealFits
    <3> QED
      BY <1>6, <3>1, <3>2, <3>3, OthersFacts DEF NewLayout, NewLink, NewSeal
  <2>7. SealedAnchor' = SealedAnchor /\ SealedAuthority' = SealedAuthority
    BY <2>1 DEF SealedAnchor, SealedAuthority
  <2>8. /\ { "repository-authority", "worktree-authority" }
             \subseteq DOMAIN sealed'["seal-manifest"]
        /\ OldAt(SealedAuthority, spent'.changes)
    BY <1>2, <2>1 DEF SealFits
  <2>9. /\ SealedAnchor.link <= worktree'.link
        /\ "worktree-authority" \in DOMAIN sealed' =>
             sealed'["worktree-authority"].link <= worktree'.link
    BY <1>1, <2>2, <2>5, <2>6 DEF AnchorSet
  <2> QED
    BY <2>2, <2>4, <2>5, <2>6, <2>7, <2>8, <2>9 DEF SealFits, Old
<1> QED
  BY <1>4, <1>5, <1>6, StepCases

\* What parts are compared with is as old as any.
LEMMA ReferenceIsOld ==
  ASSUME Types, SealFits
  PROVE  Old(Reference)
<1>1. spent.changes \in Nat
  BY DEF Types
<1>2. Old(FirstLayout)
  BY <1>1 DEF Old, OldAt, FirstLayout, Layout
<1> QED
  BY <1>2 DEF SealFits, Reference

\* Unless it publishes, a step of a call leaves it as it is; so do others.
LEMMA ReferenceStays ==
  ASSUME Types, Next, ~ Publishes
  PROVE  Reference' = Reference
<1>1. CASE OwnStep \/ BeginDispatch \/ BeginResume
  BY <1>1, SealedSteps, CallBegins DEF Reference, HasSeal, SealedAuthority
<1>2. CASE Others
  BY <1>2, OthersFacts DEF Reference, HasSeal, SealedAuthority, NewLayout, NewLink, NewSeal
<1> QED
  BY <1>1, <1>2, StepCases

\* A part that was kept is, whatever others do to the repository.
LEMMA KeptByOthers ==
  ASSUME Types, Others, Walking,
         NEW a, Old(a), NEW b, Old(b)
  PROVE  /\ Kept(a.root, live.layout.root, b.root)
              => Kept(a.root, live'.layout.root, b.root)
         /\ KeptDotGit(a, live.layout, b.dot_git) => KeptDotGit(a, live'.layout, b.dot_git)
         /\ Kept(a.commondir, live.layout.commondir, b.commondir)
              => Kept(a.commondir, live'.layout.commondir, b.commondir)
<1>1. call.step \notin { "over", "running" }
  BY WalkersAreOn DEF Types, Walking, WalkingIn
<1>2. live'.layout = live.layout \/ Renews(live.layout, live'.layout)
  BY <1>1, OthersFacts DEF NewLayout, NewLink, NewSeal, OldLayout
<1>3. PICK k \in Nat : k = spent.changes
  BY DEF Types
<1>4. Fresh = k + 1
  BY <1>3 DEF Fresh
<1> HIDE DEF Fresh
<1>5. CASE live'.layout = live.layout
  BY <1>5 DEF KeptDotGit
<1>6. CASE Renews(live.layout, live'.layout)
  BY <1>3, <1>4, <1>6 DEF Renews, Kept, KeptDotGit, Old, OldAt, Layout
<1> QED
  BY <1>2, <1>5, <1>6

\* FirstCapture.
LEMMA FirstCaptureNext ==
  ASSUME Types, Beginnings, SealFits, FirstCapture, StagingFits, Next, PreparationAssumption
  PROVE  FirstCapture'
<1> DEFINE first == FirstAt(call.kind)
           second == SecondAt(call.kind)
<1>1. /\ call.kind \in { "dispatch", "resume" }
      /\ Old(call.seen) /\ Old(live.layout)
      /\ \A l : Old(l) => OldAt(l, spent'.changes)
  BY ChangesGrow, OldStays DEF Types, Old
<1>2. SUFFICES ASSUME WalkingIn(call')
               PROVE  FirstCapture'
  BY DEF FirstCapture, Walking, WalkingIn
<1>3. CASE Others
  <2>1. UNCHANGED call /\ Walking
    BY <1>2, <1>3, OthersFacts DEF Walking, WalkingIn
  <2>2. UNCHANGED Reference
    <3>1. ~ Publishes
      <4>1. SUFFICES ASSUME Publishes PROVE FALSE
        OBVIOUS
      <4>2. Place(call') = Place(call) + 1 /\ Place(call') = Place(call)
        BY <2>1, <4>1 DEF Publishes, Onward, Step
      <4>3. Place(call) \in Nat
        BY <1>1, <2>1, CapturesSomewhere DEF CapturePlaces, Walking, WalkingIn
      <4> QED
        BY <4>2, <4>3
    <3> QED
      BY <3>1, ReferenceStays
  <2>3. /\ Kept(call.seen.root, live.layout.root, Reference.root)
             => Kept(call.seen.root, live'.layout.root, Reference.root)
        /\ KeptDotGit(call.seen, live.layout, Reference.dot_git)
             => KeptDotGit(call.seen, live'.layout, Reference.dot_git)
        /\ Kept(call.seen.commondir, live.layout.commondir, Reference.commondir)
             => Kept(call.seen.commondir, live'.layout.commondir, Reference.commondir)
    BY <1>1, <1>3, <2>1, ReferenceIsOld, KeptByOthers
  <2>4. Past("matches") =>
          /\ OldAt(call.authority, spent'.changes)
          /\ Kept(call.authority.root, live'.layout.root, Reference.root)
          /\ KeptDotGit(call.authority, live'.layout, Reference.dot_git)
          /\ Kept(call.authority.commondir, live'.layout.commondir, Reference.commondir)
    <3>1. SUFFICES ASSUME Past("matches")
                   PROVE  /\ OldAt(call.authority, spent'.changes)
                          /\ Kept(call.authority.root, live'.layout.root, Reference.root)
                          /\ KeptDotGit(call.authority, live'.layout, Reference.dot_git)
                          /\ Kept(call.authority.commondir, live'.layout.commondir,
                                  Reference.commondir)
      OBVIOUS
    <3>2. /\ Old(call.authority)
          /\ Kept(call.authority.root, live.layout.root, Reference.root)
          /\ KeptDotGit(call.authority, live.layout, Reference.dot_git)
          /\ Kept(call.authority.commondir, live.layout.commondir, Reference.commondir)
      BY <2>1, <3>1 DEF FirstCapture
    <3> QED
      BY <1>1, <1>3, <2>1, <3>2, ReferenceIsOld, KeptByOthers
  <2> QED
    BY <2>1, <2>2, <2>3, <2>4 DEF FirstCapture, Past, Old
<1>4. CASE BeginDispatch \/ BeginResume
  <2>1. CapturePlaces(call', FirstAt(call'.kind), SecondAt(call'.kind)) /\ Place(call') = 1
    BY <1>2, <1>4, CallBegins, CapturesSomewhere
  <2>2. ~ Past("root")' /\ ~ Past("dot_git")' /\ ~ Past("commondir")' /\ ~ Past("matches")'
    BY <2>1 DEF CapturePlaces, Reaches, Past, PastIn, WalkingIn, Place
  <2> QED
    BY <2>2 DEF FirstCapture
<1>5. CASE OwnStep
  <2>1. Walking /\ call'.kind = call.kind
        /\ (UNCHANGED call \/ Place(call') = Place(call) + 1)
    BY <1>2, <1>5, WalksOn
  <2>2. CapturePlaces(call, first, second) /\ CapturePlaces(call', first, second)
    BY <1>1, <1>2, <2>1, CapturesSomewhere DEF Walking, WalkingIn
  <2> HIDE DEF first, second
  <2>3. live'.layout = live.layout
    BY <1>5, LayoutsNext, StepCases DEF OwnStep, MakesTree, Passes, SeesRoot, SeesDotGit,
       SeesCommondir, SeesMatch, SeesTree, ReadsSeal, Anchors, Marks, ReadOnlyRow, Stages,
       Publishes, Ends, Launches, Returns, Steady
  <2>4. /\ Place(call) > first /\ Place(call) <= first + 3 =>
             Kept(call.seen.root, live.layout.root, Reference.root)
        /\ Place(call) > first + 1 /\ Place(call) <= first + 3 =>
             KeptDotGit(call.seen, live.layout, Reference.dot_git)
        /\ Place(call) > first + 2 /\ Place(call) <= first + 3 =>
             Kept(call.seen.commondir, live.layout.commondir, Reference.commondir)
        /\ Place(call) > first + 3 =>
             /\ Old(call.authority)
             /\ Kept(call.authority.root, live.layout.root, Reference.root)
             /\ KeptDotGit(call.authority, live.layout, Reference.dot_git)
             /\ Kept(call.authority.commondir, live.layout.commondir, Reference.commondir)
    BY <2>1, <2>2 DEF FirstCapture, CapturePlaces, Reaches, Past, PastIn, WalkingIn, Place
  <2>5. SUFFICES
        /\ Place(call') > first /\ Place(call') <= first + 3 =>
             Kept(call'.seen.root, live.layout.root, Reference'.root)
        /\ Place(call') > first + 1 /\ Place(call') <= first + 3 =>
             KeptDotGit(call'.seen, live.layout, Reference'.dot_git)
        /\ Place(call') > first + 2 /\ Place(call') <= first + 3 =>
             Kept(call'.seen.commondir, live.layout.commondir, Reference'.commondir)
        /\ Place(call') > first + 3 =>
             /\ Old(call'.authority)
             /\ Kept(call'.authority.root, live.layout.root, Reference'.root)
             /\ KeptDotGit(call'.authority, live.layout, Reference'.dot_git)
             /\ Kept(call'.authority.commondir, live.layout.commondir, Reference'.commondir)
    BY <1>1, <2>2, <2>3 DEF FirstCapture, CapturePlaces, Reaches, Past, PastIn, WalkingIn, Place,
       Old
  <2>6. /\ Place(call) \in Nat /\ first \in 1 .. 2 /\ second \in { 14, 18 }
        /\ At("root") <=> Place(call) = first
        /\ At("dot_git") <=> Place(call) = first + 1
        /\ At("commondir") <=> Place(call) = first + 2
        /\ At("matches") <=> Place(call) = first + 3
        /\ At("root_again") => Place(call) > first + 3
        /\ At("dot_git_again") => Place(call) > first + 3
        /\ At("commondir_again") => Place(call) > first + 3
        /\ At("matches_again") => Place(call) > first + 3
    BY <2>2 DEF CapturePlaces, Reaches, At
  <2>7. DOMAIN call.seen = { "root", "dot_git", "commondir", "shape" }
        /\ \A n : Kept(n, n, Reference.root) /\ Kept(n, n, Reference.commondir)
                  /\ Kept(n, n, Reference.dot_git)
    BY <1>1 DEF Old, OldAt, Layout, Kept
  <2>8. CASE SeesRoot \/ SeesDotGit \/ SeesCommondir
    <3>1. Place(call') = Place(call) + 1 /\ call'.authority = call.authority
          /\ Reference' = Reference
      BY <2>8 DEF SeesRoot, SeesDotGit, SeesCommondir, Step, Steady, Reference, HasSeal,
         SealedAuthority
    <3>2. CASE SeesRoot
      <4>1. /\ call'.seen = [call.seen EXCEPT !.root = live.layout.root]
            /\ At("root") \/ At("root_again")
        BY <3>2 DEF SeesRoot, Step, At
      <4>2. call'.seen.root = live.layout.root
        BY <2>7, <4>1
      <4> QED
        BY <2>4, <2>6, <2>7, <3>1, <4>1, <4>2
    <3>3. CASE SeesDotGit
      <4>1. /\ call'.seen = [call.seen EXCEPT !.dot_git = live.layout.dot_git,
                                              !.shape = live.layout.shape]
            /\ At("dot_git") \/ At("dot_git_again")
        BY <3>3 DEF SeesDotGit, Step, At
      <4>2. /\ call'.seen.root = call.seen.root
            /\ call'.seen.dot_git = live.layout.dot_git
            /\ call'.seen.shape = live.layout.shape
        BY <2>7, <4>1
      <4>3. KeptDotGit(call'.seen, live.layout, Reference.dot_git)
        BY <2>7, <4>2 DEF KeptDotGit
      <4> QED
        BY <2>4, <2>6, <3>1, <4>1, <4>2, <4>3
    <3>4. CASE SeesCommondir
      <4>1. /\ call'.seen = [call.seen EXCEPT !.commondir = live.layout.commondir]
            /\ At("commondir") \/ At("commondir_again")
        BY <3>4 DEF SeesCommondir, Step, At
      <4>2. /\ call'.seen.root = call.seen.root
            /\ call'.seen.dot_git = call.seen.dot_git
            /\ call'.seen.shape = call.seen.shape
            /\ call'.seen.commondir = live.layout.commondir
        BY <2>7, <4>1
      <4>3. KeptDotGit(call.seen, live.layout, Reference.dot_git)
              => KeptDotGit(call'.seen, live.layout, Reference.dot_git)
        BY <4>2 DEF KeptDotGit
      <4> QED
        BY <2>4, <2>6, <2>7, <3>1, <4>1, <4>2, <4>3
    <3> QED
      BY <2>8, <3>2, <3>3, <3>4
  <2>9. CASE SeesMatch
    <3>1. /\ Place(call') = Place(call) + 1
          /\ call'.authority = call.seen /\ call'.seen = call.seen
          /\ call.authority # None => call.seen = call.authority
          /\ At("matches") \/ At("matches_again")
          /\ Reference' = Reference
      BY <2>9 DEF SeesMatch, Step, Steady, At, Reference, HasSeal, SealedAuthority
    <3>2. CASE At("matches")
      BY <1>1, <2>4, <2>6, <3>1, <3>2
    <3>3. CASE At("matches_again")
      <4>1. Old(call.authority)
        BY <2>4, <2>6, <3>3
      <4>2. call.seen = call.authority
        BY <3>1, <4>1 DEF Old, OldAt, PreparationAssumption
      <4> QED
        BY <2>4, <2>6, <3>1, <3>3, <4>2
    <3> QED
      BY <3>1, <3>2, <3>3
  <2>10. CASE ReadsSeal
    <3>1. call.kind = "resume" /\ At("read") /\ Place(call') = Place(call) + 1
      BY <1>1, <2>1, <2>10, KindOfStep DEF ReadsSeal, Step, At, Walking, WalkingIn
    <3>2. Place(call) = 1 /\ first = 2
      BY <2>1, <3>1, ResumeIsSomewhere
         DEF ResumePlaces, Reaches, At, Walking, WalkingIn, first, FirstAt
    <3> QED
      BY <3>1, <3>2
  <2>11. CASE Publishes
    <3>1. call.kind = "dispatch" /\ At("publish") /\ Place(call') = Place(call) + 1
          /\ call'.authority = call.authority /\ call'.seen = call.seen
      BY <1>1, <2>1, <2>11, KindOfStep DEF Publishes, Onward, Step, At, Walking, WalkingIn
    <3>2. DispatchPlaces(call)
      BY <2>1, <3>1, DispatchIsSomewhere DEF Walking, WalkingIn
    <3>3. Place(call) = 28 /\ first = 1 /\ Past("seal") /\ ~ Past("publish")
      BY <2>1, <3>1, <3>2
         DEF DispatchPlaces, Reaches, At, Walking, WalkingIn, first, FirstAt, Past, PastIn
    <3>4. Reference' = call.authority
      BY <2>1, <2>11, <3>1, <3>3
         DEF StagingFits, Publishes, Reference, HasSeal, SealedAuthority
    <3>5. /\ Old(call.authority)
          /\ Kept(call.authority.root, live.layout.root, Reference.root)
          /\ KeptDotGit(call.authority, live.layout, Reference.dot_git)
          /\ Kept(call.authority.commondir, live.layout.commondir, Reference.commondir)
      BY <2>4, <3>3
    <3>6. /\ Kept(call.authority.root, live.layout.root, call.authority.root)
          /\ KeptDotGit(call.authority, live.layout, call.authority.dot_git)
          /\ Kept(call.authority.commondir, live.layout.commondir, call.authority.commondir)
      BY <3>5 DEF Kept, KeptDotGit
    <3> QED
      BY <3>1, <3>3, <3>4, <3>5, <3>6
  <2>12. CASE ~ (SeesRoot \/ SeesDotGit \/ SeesCommondir \/ SeesMatch \/ ReadsSeal \/ Publishes)
    <3>1. Reference' = Reference
      BY <2>12, ReferenceStays
    <3>2. /\ UNCHANGED call \/ call.step \notin { "root", "dot_git", "commondir", "matches" }
          /\ call'.seen = call.seen /\ call'.authority = call.authority
      BY <1>2, <1>5, <2>12, WalksOn DEF OwnStep, Passes, PlainSteps, SeesTree, Anchors, Marks,
         ReadOnlyRow, MakesTree, Stages, Onward, RowStep, Step, At
    <3>3. CASE UNCHANGED call
      BY <2>4, <3>1, <3>2, <3>3
    <3>4. CASE ~ UNCHANGED call
      <4>1. /\ Place(call') = Place(call) + 1
            /\ Place(call) \notin { first, first + 1, first + 2, first + 3 }
        BY <2>1, <2>6, <3>2, <3>4 DEF At
      <4> QED
        BY <2>4, <2>6, <3>1, <3>2, <4>1
    <3> QED
      BY <3>3, <3>4
  <2> QED
    BY <1>5, <2>8, <2>9, <2>10, <2>11, <2>12
<1> QED
  BY <1>3, <1>4, <1>5, StepCases

\* What l has to be for the second capture to have begun at it.
Between(l, authority, seen, dot_git, commondir) ==
  /\ l.root = seen.root
  /\ AtMost(authority, l)
  /\ AtMost(l, live.layout)
  /\ dot_git =>
       /\ l.dot_git <= seen.dot_git
       /\ l.dot_git = seen.dot_git => l.shape = seen.shape
  /\ commondir => l.commondir <= seen.commondir

\* Both captures agree: what lies between them is what they saw.
LEMMA CapturesPinch ==
  ASSUME NEW n \in Nat, NEW l, OldAt(l, n), NEW a, OldAt(a, n),
         Between(l, a, a, TRUE, TRUE)
  PROVE  l = a
<1>1. /\ l \in Layout /\ a \in Layout
      /\ l.root = a.root /\ l.dot_git = a.dot_git /\ l.commondir = a.commondir
      /\ l.shape = a.shape
  BY DEF OldAt, Between, AtMost, Layout
<1> QED
  BY <1>1 DEF Layout

\* A change makes nothing older.
LEMMA OthersRenew ==
  ASSUME Types, Others, Walking, NEW l \in layouts, AtMost(l, live.layout)
  PROVE  AtMost(l, live'.layout)
<1>1. call.step \notin { "over", "running" }
  BY WalkersAreOn DEF Types, Walking, WalkingIn
<1>2. live'.layout = live.layout \/ Renews(live.layout, live'.layout)
  BY <1>1, OthersFacts DEF NewLayout, NewLink, NewSeal, OldLayout
<1>3. PICK k \in Nat : k = spent.changes
  BY DEF Types
<1>4. Fresh = k + 1 /\ OldAt(l, k) /\ OldAt(live.layout, k)
  BY <1>3 DEF Fresh, Types, Old
<1> HIDE DEF Fresh
<1> QED
  BY <1>2, <1>3, <1>4 DEF Renews, AtMost, OldAt, Layout

\* SecondCapture.
LEMMA SecondCaptureNext ==
  ASSUME Types, Beginnings, SealFits, FirstCapture, SecondCapture, Next, PreparationAssumption
  PROVE  SecondCapture'
<1> DEFINE first == FirstAt(call.kind)
           s == SecondAt(call.kind)
<1>1. /\ call.kind \in { "dispatch", "resume" }
      /\ Old(call.seen) /\ Old(live.layout) /\ live.layout \in layouts
      /\ \A l \in layouts : Old(l)
      /\ layouts \subseteq layouts'
      /\ spent.changes \in Nat
  BY LayoutsNext DEF Types, Old
<1>2. SUFFICES ASSUME WalkingIn(call')
               PROVE  SecondCapture'
  BY DEF SecondCapture, Walking, WalkingIn
<1>3. CASE Others
  <2>1. UNCHANGED call /\ Walking
    BY <1>2, <1>3, OthersFacts DEF Walking, WalkingIn
  <2>2. Past("matches_again") => call.authority \in layouts'
    BY <1>1, <2>1 DEF SecondCapture
  <2>3. SUFFICES ASSUME Past("root_again"), ~ Past("matches_again")
                 PROVE  \E l \in layouts' :
                          /\ l.root = call.seen.root
                          /\ AtMost(call.authority, l)
                          /\ AtMost(l, live'.layout)
                          /\ Past("dot_git_again") =>
                               /\ l.dot_git <= call.seen.dot_git
                               /\ l.dot_git = call.seen.dot_git => l.shape = call.seen.shape
                          /\ Past("commondir_again") => l.commondir <= call.seen.commondir
    BY <2>1, <2>2 DEF SecondCapture, Past
  <2>4. PICK l \in layouts :
          /\ l.root = call.seen.root
          /\ AtMost(call.authority, l)
          /\ AtMost(l, live.layout)
          /\ Past("dot_git_again") =>
               /\ l.dot_git <= call.seen.dot_git
               /\ l.dot_git = call.seen.dot_git => l.shape = call.seen.shape
          /\ Past("commondir_again") => l.commondir <= call.seen.commondir
    BY <2>1, <2>3 DEF SecondCapture
  <2>5. AtMost(l, live'.layout)
    BY <1>3, <2>1, <2>4, OthersRenew
  <2> QED
    BY <1>1, <2>4, <2>5
<1>4. CASE BeginDispatch \/ BeginResume
  <2>1. CapturePlaces(call', FirstAt(call'.kind), SecondAt(call'.kind)) /\ Place(call') = 1
    BY <1>2, <1>4, CallBegins, CapturesSomewhere
  <2>2. ~ Past("root_again")' /\ ~ Past("matches_again")'
    BY <2>1 DEF CapturePlaces, Reaches, Past, PastIn, WalkingIn, Place
  <2> QED
    BY <2>2 DEF SecondCapture
<1>5. CASE OwnStep
  <2>1. /\ Walking /\ WalkingIn(call) /\ call'.kind = call.kind
        /\ (UNCHANGED call \/ Place(call') = Place(call) + 1)
        /\ ~ Ends /\ ~ Launches /\ ~ Returns
    BY <1>2, <1>5, WalksOn
  <2>2. CapturePlaces(call, first, s) /\ CapturePlaces(call', first, s)
    BY <1>1, <1>2, <2>1, CapturesSomewhere
  <2> HIDE DEF first, s
  <2>3. live'.layout = live.layout
    BY <1>5, <2>1 DEF OwnStep, MakesTree, Passes, SeesRoot, SeesDotGit,
       SeesCommondir, SeesMatch, SeesTree, ReadsSeal, Anchors, Marks, ReadOnlyRow, Stages,
       Publishes, Steady
  <2>4. /\ Place(call) > s /\ Place(call) <= s + 3 =>
             \E l \in layouts : Between(l, call.authority, call.seen, Place(call) > s + 1,
                                        Place(call) > s + 2)
        /\ Place(call) > s + 3 => call.authority \in layouts
    BY <2>1, <2>2 DEF SecondCapture, CapturePlaces, Reaches, Past, PastIn, WalkingIn, Place,
       Between
  <2>5. SUFFICES
        /\ Place(call') > s /\ Place(call') <= s + 3 =>
             \E l \in layouts : Between(l, call'.authority, call'.seen, Place(call') > s + 1,
                                        Place(call') > s + 2)
        /\ Place(call') > s + 3 => call'.authority \in layouts
    BY <1>1, <2>2, <2>3 DEF SecondCapture, CapturePlaces, Reaches, Past, PastIn, WalkingIn,
       Place, Between
  <2>6. /\ Place(call) \in Nat /\ first \in 1 .. 2 /\ s \in { 14, 18 }
        /\ At("root_again") <=> Place(call) = s
        /\ At("dot_git_again") <=> Place(call) = s + 1
        /\ At("commondir_again") <=> Place(call) = s + 2
        /\ At("matches_again") <=> Place(call) = s + 3
        /\ At("root") => Place(call) + 1 < s
        /\ At("dot_git") => Place(call) + 1 < s
        /\ At("commondir") => Place(call) + 1 < s
        /\ At("matches") => Place(call) + 1 < s
        /\ Place(call) >= s => Past("matches")
    BY <2>2 DEF CapturePlaces, Reaches, At, Past, PastIn, WalkingIn, Place
  <2>7. DOMAIN call.seen = { "root", "dot_git", "commondir", "shape" }
    BY <1>1 DEF Old, OldAt, Layout
  <2>8. CASE SeesRoot
    <3>1. /\ Place(call') = Place(call) + 1 /\ call'.authority = call.authority
          /\ call'.seen = [call.seen EXCEPT !.root = live.layout.root]
          /\ At("root") \/ At("root_again")
      BY <2>8 DEF SeesRoot, Step, At
    <3>2. CASE At("root")
      BY <2>6, <3>1, <3>2
    <3>3. CASE At("root_again")
      <4>1. Place(call) = s /\ Past("matches")
        BY <2>6, <3>3
      <4>2. AtMost(call.authority, live.layout)
        <5>1. /\ Old(call.authority)
              /\ Kept(call.authority.root, live.layout.root, Reference.root)
              /\ KeptDotGit(call.authority, live.layout, Reference.dot_git)
              /\ Kept(call.authority.commondir, live.layout.commondir, Reference.commondir)
          BY <2>1, <4>1 DEF FirstCapture
        <5> QED
          BY <1>1, <5>1 DEF Kept, KeptDotGit, AtMost, Old, OldAt, Layout
      <4>3. AtMost(live.layout, live.layout)
        BY <1>1 DEF AtMost, Old, OldAt, Layout
      <4>4. call'.seen.root = live.layout.root
        BY <2>7, <3>1
      <4>5. Between(live.layout, call'.authority, call'.seen, Place(call') > s + 1,
                    Place(call') > s + 2)
        BY <2>6, <3>1, <4>1, <4>2, <4>3, <4>4 DEF Between
      <4> QED
        BY <1>1, <2>6, <3>1, <4>1, <4>5
    <3> QED
      BY <3>1, <3>2, <3>3
  <2>9. CASE SeesDotGit \/ SeesCommondir
    <3>1. /\ Place(call') = Place(call) + 1 /\ call'.authority = call.authority
          /\ \/ /\ call'.seen = [call.seen EXCEPT !.dot_git = live.layout.dot_git,
                                                  !.shape = live.layout.shape]
                /\ At("dot_git") \/ At("dot_git_again")
             \/ /\ call'.seen = [call.seen EXCEPT !.commondir = live.layout.commondir]
                /\ At("commondir") \/ At("commondir_again")
      BY <2>9 DEF SeesDotGit, SeesCommondir, Step, At
    <3>2. CASE At("dot_git") \/ At("commondir")
      BY <2>6, <3>1, <3>2
    <3>3. CASE ~ (At("dot_git") \/ At("commondir"))
      <4>1. Place(call) \in { s + 1, s + 2 }
        BY <2>6, <3>1, <3>3
      <4>2. PICK l \in layouts : Between(l, call.authority, call.seen, Place(call) > s + 1,
                                         Place(call) > s + 2)
        BY <2>4, <2>6, <4>1
      <4>3. Between(l, call'.authority, call'.seen, Place(call') > s + 1, Place(call') > s + 2)
        <5>1. CASE At("dot_git_again")
          <6>1. Place(call) = s + 1 /\ call'.seen = [call.seen EXCEPT
                   !.dot_git = live.layout.dot_git, !.shape = live.layout.shape]
            BY <2>6, <3>1, <5>1 DEF At
          <6>2. /\ call'.seen.root = call.seen.root
                /\ call'.seen.dot_git = live.layout.dot_git
                /\ call'.seen.shape = live.layout.shape
            BY <2>7, <6>1
          <6>3. ~ (Place(call') > s + 2)
            BY <2>6, <3>1, <6>1
          <6> QED
            BY <3>1, <4>2, <6>2, <6>3 DEF Between, AtMost
        <5>2. CASE At("commondir_again")
          <6>1. Place(call) = s + 2
                /\ call'.seen = [call.seen EXCEPT !.commondir = live.layout.commondir]
            BY <2>6, <3>1, <5>2 DEF At
          <6>2. /\ call'.seen.root = call.seen.root
                /\ call'.seen.dot_git = call.seen.dot_git
                /\ call'.seen.shape = call.seen.shape
                /\ call'.seen.commondir = live.layout.commondir
            BY <2>7, <6>1
          <6>3. Place(call) > s + 1
            BY <2>6, <6>1
          <6> QED
            BY <3>1, <4>2, <6>2, <6>3 DEF Between, AtMost
        <5> QED
          BY <3>1, <3>3, <5>1, <5>2
      <4> QED
        BY <2>6, <3>1, <4>1, <4>2, <4>3
    <3> QED
      BY <3>2, <3>3
  <2>10. CASE SeesMatch
    <3>1. /\ Place(call') = Place(call) + 1
          /\ call'.authority = call.seen /\ call'.seen = call.seen
          /\ call.authority # None => call.seen = call.authority
          /\ At("matches") \/ At("matches_again")
      BY <2>10 DEF SeesMatch, Step, At
    <3>2. CASE At("matches")
      BY <2>6, <3>1, <3>2
    <3>3. CASE At("matches_again")
      <4>1. Place(call) = s + 3 /\ Past("matches")
        BY <2>6, <3>3
      <4>2. Old(call.authority)
        BY <2>1, <4>1 DEF FirstCapture
      <4>3. call.seen = call.authority
        BY <3>1, <4>2 DEF Old, OldAt, PreparationAssumption
      <4>4. /\ Place(call) > s /\ Place(call) <= s + 3
            /\ Place(call) > s + 1 /\ Place(call) > s + 2
        BY <2>6, <4>1
      <4>5. PICK l \in layouts : Between(l, call.authority, call.seen, Place(call) > s + 1,
                                         Place(call) > s + 2)
        BY <2>4, <4>4
      <4>6. Between(l, call.authority, call.authority, TRUE, TRUE)
        BY <4>3, <4>4, <4>5 DEF Between
      <4>7. l = call.authority
        BY <1>1, <4>2, <4>6, CapturesPinch DEF Old
      <4>8. call'.authority \in layouts
        BY <3>1, <4>3, <4>5, <4>7
      <4> QED
        BY <2>6, <3>1, <4>1, <4>8
    <3> QED
      BY <3>1, <3>2, <3>3
  <2>11. CASE ReadsSeal
    <3>1. At("read") /\ Place(call') = Place(call) + 1
      BY <2>11 DEF ReadsSeal, Step
    <3>2. call.kind = "resume"
      BY <1>1, <2>1, <3>1, KindOfStep DEF At
    <3>3. Place(call) = 1 /\ s = 14
      BY <2>1, <3>1, <3>2, ResumeIsSomewhere DEF ResumePlaces, Reaches, At, s, SecondAt
    <3> QED
      BY <3>1, <3>3
  <2>12. CASE ~ (SeesRoot \/ SeesDotGit \/ SeesCommondir \/ SeesMatch \/ ReadsSeal)
    <3>1. /\ UNCHANGED call \/ call.step \notin { "root_again", "dot_git_again",
                                                  "commondir_again", "matches_again" }
          /\ call'.seen = call.seen /\ call'.authority = call.authority
      BY <1>5, <2>1, <2>12 DEF OwnStep, Passes, PlainSteps, SeesTree, Anchors, Marks,
         ReadOnlyRow, MakesTree, Stages, Publishes, Onward, RowStep, Step, At
    <3>2. CASE UNCHANGED call
      BY <2>4, <3>1, <3>2
    <3>3. CASE ~ UNCHANGED call
      <4>1. /\ Place(call') = Place(call) + 1
            /\ Place(call) \notin { s, s + 1, s + 2, s + 3 }
        BY <2>1, <2>6, <3>1, <3>3 DEF At
      <4> QED
        BY <2>4, <2>6, <3>1, <4>1
    <3> QED
      BY <3>2, <3>3
  <2> QED
    BY <1>5, <2>8, <2>9, <2>10, <2>11, <2>12
<1> QED
  BY <1>3, <1>4, <1>5, StepCases

\* The seal still has a file as it was published.
Stands(file) == file \in DOMAIN sealed /\ sealed[file] = sealed["seal-manifest"][file]

\* What a resume has of the seal, in places: gone is what dooms it.
Gone(a, seen, l, p) ==
  \/ l.root # a.root /\ (p > 2 => seen.root # a.root)
  \/ /\ l.dot_git # a.dot_git \/ l.shape # a.shape
     /\ p > 3 => seen.dot_git # a.dot_git \/ seen.shape # a.shape
  \/ l.commondir # a.commondir /\ (p > 4 => seen.commondir # a.commondir)

\* A part that is not there now was not to be kept, or was seen otherwise.
LEMMA SealOfAnother ==
  ASSUME Types, SealFits, FirstCapture, WalkingIn(call), call.kind = "resume",
         HasSeal, Old(call.authority), live.layout = SealedAuthority,
         call.authority # SealedAuthority
  PROVE  ~ Past("matches") /\ Gone(call.authority, call.seen, live.layout, Place(call))
<1>1. /\ Reference = live.layout /\ live.layout \in Layout /\ call.authority \in Layout
      /\ call.seen \in Layout /\ Walking
  BY DEF Reference, Types, Old, OldAt, Walking, WalkingIn
<1>2. \/ live.layout.root # call.authority.root
      \/ live.layout.dot_git # call.authority.dot_git
      \/ live.layout.shape # call.authority.shape
      \/ live.layout.commondir # call.authority.commondir
  BY <1>1 DEF Layout
<1>3. ~ Past("matches")
  <2>1. SUFFICES ASSUME Past("matches") PROVE FALSE
    OBVIOUS
  <2>2. /\ Kept(call.authority.root, live.layout.root, live.layout.root)
        /\ KeptDotGit(call.authority, live.layout, live.layout.dot_git)
        /\ Kept(call.authority.commondir, live.layout.commondir, live.layout.commondir)
    BY <1>1, <2>1 DEF FirstCapture
  <2> QED
    BY <1>1, <1>2, <2>2 DEF Kept, KeptDotGit, Layout
<1>4. /\ Place(call) \in Nat
      /\ Past("root") <=> Place(call) > 2
      /\ Past("dot_git") <=> Place(call) > 3
      /\ Past("commondir") <=> Place(call) > 4
  BY ResumeIsSomewhere DEF ResumePlaces, Reaches, Past, PastIn, WalkingIn, Place
<1>5. /\ Place(call) > 2 => call.seen.root = live.layout.root
      /\ Place(call) > 3 => call.seen.dot_git = live.layout.dot_git
                            /\ call.seen.shape = live.layout.shape
      /\ Place(call) > 4 => call.seen.commondir = live.layout.commondir
  <2>1. /\ Place(call) > 2 => Kept(call.seen.root, live.layout.root, live.layout.root)
        /\ Place(call) > 3 => KeptDotGit(call.seen, live.layout, live.layout.dot_git)
        /\ Place(call) > 4 =>
             Kept(call.seen.commondir, live.layout.commondir, live.layout.commondir)
    BY <1>1, <1>3, <1>4 DEF FirstCapture
  <2> QED
    BY <1>1, <2>1 DEF Kept, KeptDotGit, Layout
<1> QED
  BY <1>2, <1>3, <1>5 DEF Gone

\* ReadFits, in places.
Reads(p, sealed_anchor, sealed_authority, authority, anchor, seen) ==
  /\ Old(authority)
  /\ anchor \in AnchorSet /\ anchor.common = worktree.common
  /\ sealed_anchor.link <= anchor.link /\ anchor.link <= worktree.link
  /\ Stands("worktree-authority") => anchor = sealed_anchor
  /\ Stands("repository-authority") =>
       authority = sealed_authority \/ (p <= 5 /\ Gone(authority, seen, live.layout, p))
  /\ p > 10 => authority = sealed_authority /\ anchor = sealed_anchor

LEMMA ReadFitsPlaces ==
  ASSUME WalkingIn(call), call.kind = "resume"
  PROVE  ReadFits <=> (Place(call) > 1 =>
           Reads(Place(call), SealedAnchor, SealedAuthority, call.authority, call.anchor,
                 call.seen))
<1>1. /\ Place(call) \in Nat
      /\ Past("read") <=> Place(call) > 1
      /\ Past("root") <=> Place(call) > 2
      /\ Past("dot_git") <=> Place(call) > 3
      /\ Past("commondir") <=> Place(call) > 4
      /\ Past("matches") <=> Place(call) > 5
      /\ Past("authenticate") <=> Place(call) > 10
  BY ResumeIsSomewhere DEF ResumePlaces, Reaches, Past, PastIn, WalkingIn, Place
<1>2. Walking /\ (~ Past("matches") <=> Place(call) <= 5)
  BY <1>1 DEF Walking, WalkingIn
<1>3. Doomed <=> Gone(call.authority, call.seen, live.layout, Place(call))
  BY <1>1 DEF Doomed, Gone
<1>4. /\ Stands("worktree-authority")
           <=> "worktree-authority" \in DOMAIN sealed
               /\ sealed["worktree-authority"] = SealedAnchor
      /\ Stands("repository-authority")
           <=> "repository-authority" \in DOMAIN sealed
               /\ sealed["repository-authority"] = SealedAuthority
  BY DEF Stands, SealedAnchor, SealedAuthority
<1> HIDE DEF Doomed, Gone, Past, Place, SealedAnchor, SealedAuthority
<1> QED
  BY <1>1, <1>2, <1>3, <1>4 DEF ReadFits, Reads

\* The same of the state after a step.
LEMMA ReadFitsPlacesNext ==
  ASSUME WalkingIn(call'), call'.kind = "resume"
  PROVE  ReadFits' <=> (Place(call') > 1 =>
           Reads(Place(call), SealedAnchor, SealedAuthority, call.authority, call.anchor,
                 call.seen)')
<1>1. /\ Place(call') \in Nat
      /\ Past("read")' <=> Place(call') > 1
      /\ Past("root")' <=> Place(call') > 2
      /\ Past("dot_git")' <=> Place(call') > 3
      /\ Past("commondir")' <=> Place(call') > 4
      /\ Past("matches")' <=> Place(call') > 5
      /\ Past("authenticate")' <=> Place(call') > 10
  <2>1. ResumePlaces(call')
    BY ResumeIsSomewhere
  <2> QED
    BY <2>1 DEF ResumePlaces, Reaches, Past, PastIn, WalkingIn, Place
<1>2. Walking' /\ (~ Past("matches")' <=> Place(call') <= 5)
  BY <1>1 DEF Walking, WalkingIn
<1>3. Doomed' <=> Gone(call'.authority, call'.seen, live'.layout, Place(call'))
  BY <1>1 DEF Doomed, Gone
<1>4. /\ Stands("worktree-authority")'
           <=> "worktree-authority" \in DOMAIN sealed'
               /\ sealed'["worktree-authority"] = SealedAnchor'
      /\ Stands("repository-authority")'
           <=> "repository-authority" \in DOMAIN sealed'
               /\ sealed'["repository-authority"] = SealedAuthority'
  BY DEF Stands, SealedAnchor, SealedAuthority
<1>5. Place(call)' = Place(call')
  BY DEF Place
<1> HIDE DEF Doomed, Gone, Past, Place, SealedAnchor, SealedAuthority
<1> QED
  BY <1>1, <1>2, <1>3, <1>4, <1>5 DEF ReadFits, Reads

\* A seal that loads is the one that was published.
LEMMA LoadedStands ==
  ASSUME SealFits, HasSeal, Loads(sealed)
  PROVE  Stands("repository-authority") /\ Stands("worktree-authority")
BY DEF Loads, AsListed, Stands, SealFits

\* ReadFits.
LEMMA ReadFitsNext ==
  ASSUME Types, Beginnings, SealFits, FirstCapture, ReadFits, Next, PreparationAssumption
  PROVE  ReadFits'
<1>1. /\ call.kind \in { "dispatch", "resume" }
      /\ Old(call.seen) /\ Old(live.layout)
      /\ \A l : Old(l) => OldAt(l, spent'.changes)
      /\ spent.changes \in Nat
  BY ChangesGrow, OldStays DEF Types, Old
<1>2. SUFFICES ASSUME WalkingIn(call'), call'.kind = "resume", Place(call') > 1
               PROVE  Reads(Place(call), SealedAnchor, SealedAuthority, call.authority,
                            call.anchor, call.seen)'
  BY ReadFitsPlacesNext DEF ReadFits, Walking, WalkingIn
<1>3. CASE BeginDispatch \/ BeginResume
  <2>1. Place(call') = 1
    BY <1>3, CallBegins
  <2> QED
    BY <1>2, <2>1
<1>4. CASE Others
  <2>1. UNCHANGED call /\ WalkingIn(call) /\ call.kind = "resume" /\ Place(call) > 1
    BY <1>2, <1>4, OthersFacts DEF WalkingIn
  <2>2. call.step \notin { "over", "running" } /\ HasSeal
    BY <1>1, <2>1, WalkersAreOn DEF Beginnings
  <2>3. Reads(Place(call), SealedAnchor, SealedAuthority, call.authority, call.anchor, call.seen)
    BY <2>1, ReadFitsPlaces
  <2>4. /\ sealed'["seal-manifest"] = sealed["seal-manifest"]
        /\ SealedAnchor' = SealedAnchor /\ SealedAuthority' = SealedAuthority
    BY <1>4, <2>2, OthersFacts DEF NewLayout, NewLink, NewSeal, SealedAnchor, SealedAuthority
  <2>5. Place(call)' = Place(call)
    BY <2>1 DEF Place
  <2>6. SealedAnchor \in AnchorSet /\ SealedAnchor.common = worktree.common
    BY <2>2 DEF SealFits
  <2>7. worktree'.common = worktree.common /\ call.anchor.link <= worktree'.link
    <3>1. UNCHANGED worktree \/ NewLink
      BY <1>4, OthersFacts DEF NewLayout, NewSeal
    <3>2. worktree.link <= Fresh /\ worktree.link \in Nat /\ Fresh \in Nat
      BY <1>1 DEF Types, Fresh
    <3>3. call.anchor.link \in Nat /\ call.anchor.link <= worktree.link
      BY <2>3 DEF Reads, AnchorSet
    <3> HIDE DEF Fresh
    <3> QED
      BY <3>1, <3>2, <3>3 DEF NewLink
  <2>8. Stands("worktree-authority")' => call.anchor = SealedAnchor
    <3>1. SUFFICES ASSUME Stands("worktree-authority")'
                   PROVE  call.anchor = SealedAnchor
      OBVIOUS
    <3>2. CASE Stands("worktree-authority")
      BY <2>3, <3>2 DEF Reads
    <3>3. CASE sealed'["worktree-authority"] = Anchor
      <4>1. Anchor = SealedAnchor
        BY <2>4, <3>1, <3>3 DEF Stands, SealedAnchor
      <4>2. worktree.link = SealedAnchor.link
        BY <4>1 DEF Anchor
      <4>3. call.anchor \in AnchorSet /\ call.anchor.common = worktree.common
            /\ SealedAnchor.link <= call.anchor.link /\ call.anchor.link <= worktree.link
        BY <2>3 DEF Reads
      <4> QED
        BY <2>6, <4>2, <4>3 DEF AnchorSet
    <3>4. sealed'["worktree-authority"] = Anchor \/ Stands("worktree-authority")
      BY <1>4, <2>4, <3>1, OthersFacts DEF Stands, NewLayout, NewLink, NewSeal
    <3> QED
      BY <3>2, <3>3, <3>4
  <2>9. live'.layout = live.layout \/ Renews(live.layout, live'.layout)
    BY <1>4, <2>2, OthersFacts DEF NewLayout, NewLink, NewSeal, OldLayout
  <2>10. Gone(call.authority, call.seen, live.layout, Place(call))
           => Gone(call.authority, call.seen, live'.layout, Place(call))
    <3>1. PICK k \in Nat : k = spent.changes
      BY <1>1
    <3>2. Fresh = k + 1 /\ OldAt(call.authority, k) /\ OldAt(live.layout, k)
      BY <1>1, <2>3, <3>1 DEF Fresh, Reads, Old
    <3> HIDE DEF Fresh
    <3> QED
      BY <2>9, <3>1, <3>2 DEF Renews, OldAt, Gone, Layout
  <2>11. Stands("repository-authority")' =>
           \/ call.authority = SealedAuthority
           \/ Place(call) <= 5 /\ Gone(call.authority, call.seen, live'.layout, Place(call))
    <3>1. SUFFICES ASSUME Stands("repository-authority")', call.authority # SealedAuthority
                   PROVE  Place(call) <= 5
                          /\ Gone(call.authority, call.seen, live'.layout, Place(call))
      OBVIOUS
    <3>2. CASE Stands("repository-authority")
      BY <2>3, <2>10, <3>1, <3>2 DEF Reads
    <3>3. CASE sealed'["repository-authority"] = live.layout
      <4>1. live.layout = SealedAuthority
        BY <2>4, <3>1, <3>3 DEF Stands, SealedAuthority
      <4>2. Old(call.authority)
        BY <2>3 DEF Reads
      <4>3. ~ Past("matches") /\ Gone(call.authority, call.seen, live.layout, Place(call))
        BY <2>1, <2>2, <3>1, <4>1, <4>2, SealOfAnother
      <4>4. ResumePlaces(call)
        BY <2>1, ResumeIsSomewhere
      <4>5. Place(call) <= 5
        BY <4>3, <4>4 DEF ResumePlaces, Reaches, Past, PastIn, WalkingIn, Place
      <4> QED
        BY <2>10, <4>3, <4>5
    <3>4. \/ sealed'["repository-authority"] = live.layout
          \/ Stands("repository-authority")
      BY <1>4, <2>4, <3>1, OthersFacts DEF Stands, NewLayout, NewLink, NewSeal
    <3> QED
      BY <3>2, <3>3, <3>4
  <2>12. OldAt(call.authority, spent'.changes)
    BY <1>1, <2>3 DEF Reads
  <2> HIDE DEF Gone, Place
  <2> QED
    BY <2>1, <2>3, <2>4, <2>5, <2>7, <2>8, <2>11, <2>12 DEF Reads, Old
<1>5. CASE OwnStep
  <2>1. /\ Walking /\ WalkingIn(call) /\ call.kind = "resume"
        /\ call.step \notin { "over", "running" }
        /\ (UNCHANGED call \/ Place(call') = Place(call) + 1)
        /\ ~ Ends /\ ~ Launches /\ ~ Returns
    BY <1>2, <1>5, WalksOn
  <2>2. HasSeal
    BY <2>1 DEF Beginnings
  <2>3. ~ Publishes /\ ~ Stages /\ ~ MakesTree /\ ~ Anchors
    BY <1>1, <2>1, KindOfStep DEF Publishes, Stages, MakesTree, Anchors, RowStep, At
  <2>4. UNCHANGED << sealed, worktree, live >> /\ spent'.changes = spent.changes
    BY <1>5, <2>1, <2>3 DEF OwnStep, Passes, SeesRoot, SeesDotGit, SeesCommondir, SeesMatch,
       SeesTree, ReadsSeal, Marks, ReadOnlyRow, Steady, Spends
  <2>5. /\ UNCHANGED << SealedAnchor, SealedAuthority >>
        /\ Stands("repository-authority")' <=> Stands("repository-authority")
        /\ Stands("worktree-authority")' <=> Stands("worktree-authority")
    BY <2>4 DEF SealedAnchor, SealedAuthority, Stands
  <2>6. /\ Place(call) \in Nat
        /\ At("read") <=> Place(call) = 1
        /\ At("root") <=> Place(call) = 2
        /\ At("dot_git") <=> Place(call) = 3
        /\ At("commondir") <=> Place(call) = 4
        /\ At("matches") <=> Place(call) = 5
        /\ At("authenticate") <=> Place(call) = 10
        /\ At("root_again") => Place(call) > 10
        /\ At("dot_git_again") => Place(call) > 10
        /\ At("commondir_again") => Place(call) > 10
        /\ At("matches_again") => Place(call) > 10
        /\ Past("matches") <=> Place(call) > 5
    BY <2>1, ResumeIsSomewhere DEF ResumePlaces, Reaches, At, Past, PastIn, WalkingIn, Place
  <2>7. SUFFICES
          /\ Old(call'.authority)
          /\ call'.anchor \in AnchorSet /\ call'.anchor.common = worktree.common
          /\ SealedAnchor.link <= call'.anchor.link /\ call'.anchor.link <= worktree.link
          /\ Stands("worktree-authority") => call'.anchor = SealedAnchor
          /\ Stands("repository-authority") =>
               \/ call'.authority = SealedAuthority
               \/ Place(call') <= 5
                  /\ Gone(call'.authority, call'.seen, live.layout, Place(call'))
          /\ Place(call') > 10 =>
               call'.authority = SealedAuthority /\ call'.anchor = SealedAnchor
    <3>1. Place(call)' = Place(call')
      BY DEF Place
    <3> HIDE DEF Place, Gone, Stands
    <3> QED
      BY <2>4, <2>5, <3>1 DEF Reads, Old
  <2>8. Place(call) > 1 =>
          Reads(Place(call), SealedAnchor, SealedAuthority, call.authority, call.anchor,
                call.seen)
    BY <2>1, ReadFitsPlaces
  <2> HIDE DEF Place, Gone, Stands
  <2>9. CASE ReadsSeal
    <3>1. /\ call'.authority = sealed["repository-authority"]
          /\ call'.anchor = sealed["worktree-authority"]
          /\ "repository-authority" \in DOMAIN sealed
          /\ "worktree-authority" \in DOMAIN sealed
          /\ Place(call') = Place(call) + 1 /\ At("read")
      BY <2>9 DEF ReadsSeal, Step
    <3>2. Place(call') = 2
      BY <2>6, <3>1
    <3>3. /\ Old(call'.authority)
          /\ call'.anchor \in AnchorSet /\ call'.anchor.common = worktree.common
          /\ SealedAnchor.link <= call'.anchor.link /\ call'.anchor.link <= worktree.link
      BY <2>2, <3>1 DEF SealFits
    <3>4. /\ Stands("worktree-authority") => call'.anchor = SealedAnchor
          /\ Stands("repository-authority") => call'.authority = SealedAuthority
      BY <3>1 DEF Stands, SealedAnchor, SealedAuthority
    <3> QED
      BY <3>2, <3>3, <3>4
  <2>10. CASE SeesRoot \/ SeesDotGit \/ SeesCommondir
    <3>1. /\ Place(call') = Place(call) + 1 /\ call'.authority = call.authority
          /\ call'.anchor = call.anchor /\ Place(call) > 1 /\ Place(call) # 10
      BY <2>6, <2>10 DEF SeesRoot, SeesDotGit, SeesCommondir, Step, At
    <3>2. Place(call) <= 5 /\ Gone(call.authority, call.seen, live.layout, Place(call))
            => \/ Place(call') <= 5
                  /\ Gone(call.authority, call'.seen, live.layout, Place(call'))
      <4>1. SUFFICES ASSUME Place(call) <= 5,
                            Gone(call.authority, call.seen, live.layout, Place(call))
                     PROVE  Place(call') <= 5
                            /\ Gone(call.authority, call'.seen, live.layout, Place(call'))
        OBVIOUS
      <4>2. DOMAIN call.seen = { "root", "dot_git", "commondir", "shape" }
        BY <1>1 DEF Old, OldAt, Layout
      <4>3. CASE SeesRoot
        <5>1. call'.seen = [call.seen EXCEPT !.root = live.layout.root] /\ Place(call) = 2
          BY <2>6, <4>1, <4>3 DEF SeesRoot, Step, At
        <5>2. call'.seen.root = live.layout.root
          BY <4>2, <5>1
        <5> QED
          BY <3>1, <4>1, <5>1, <5>2 DEF Gone
      <4>4. CASE SeesDotGit
        <5>1. /\ call'.seen = [call.seen EXCEPT !.dot_git = live.layout.dot_git,
                                                !.shape = live.layout.shape]
              /\ Place(call) = 3
          BY <2>6, <4>1, <4>4 DEF SeesDotGit, Step, At
        <5>2. /\ call'.seen.root = call.seen.root
              /\ call'.seen.dot_git = live.layout.dot_git
              /\ call'.seen.shape = live.layout.shape
          BY <4>2, <5>1
        <5> QED
          BY <3>1, <4>1, <5>1, <5>2 DEF Gone
      <4>5. CASE SeesCommondir
        <5>1. /\ call'.seen = [call.seen EXCEPT !.commondir = live.layout.commondir]
              /\ Place(call) = 4
          BY <2>6, <4>1, <4>5 DEF SeesCommondir, Step, At
        <5>2. /\ call'.seen.root = call.seen.root
              /\ call'.seen.dot_git = call.seen.dot_git
              /\ call'.seen.shape = call.seen.shape
              /\ call'.seen.commondir = live.layout.commondir
          BY <4>2, <5>1
        <5> QED
          BY <3>1, <4>1, <5>1, <5>2 DEF Gone
      <4> QED
        BY <2>10, <4>3, <4>4, <4>5
    <3>3. Place(call') > 10 => Place(call) > 10
      BY <2>6, <3>1
    <3> QED
      BY <2>8, <3>1, <3>2, <3>3 DEF Reads
  <2>11. CASE SeesMatch
    <3>1. /\ Place(call') = Place(call) + 1
          /\ call'.authority = call.seen /\ call'.anchor = call.anchor
          /\ call.authority # None => call.seen = call.authority
          /\ Place(call) = 5 \/ Place(call) > 10
      BY <2>6, <2>11 DEF SeesMatch, Step, At
    <3>2. Reads(Place(call), SealedAnchor, SealedAuthority, call.authority, call.anchor,
                call.seen)
      BY <2>6, <2>8, <3>1
    <3>3. call.seen = call.authority
      BY <3>1, <3>2 DEF Reads, Old, OldAt, PreparationAssumption
    <3>4. Place(call) = 5 => ~ Gone(call.authority, call.seen, live.layout, Place(call))
      BY <3>3 DEF Gone
    <3>5. /\ Place(call') > 10 => Place(call) > 10
          /\ Place(call) > 10 => ~ (Place(call) <= 5)
      BY <2>6, <3>1
    <3> QED
      BY <3>1, <3>2, <3>3, <3>4, <3>5 DEF Reads
  <2>12. CASE ~ (SeesRoot \/ SeesDotGit \/ SeesCommondir \/ SeesMatch \/ ReadsSeal)
    <3>1. /\ UNCHANGED call \/ call.step \notin { "read", "root", "dot_git", "commondir",
                                                  "matches" }
          /\ call'.seen = call.seen /\ call'.authority = call.authority
          /\ call'.anchor = call.anchor
      BY <1>5, <2>1, <2>3, <2>12 DEF OwnStep, Passes, PlainSteps, SeesTree,
         Marks, ReadOnlyRow, Onward, RowStep, Step, At
    <3>2. CASE UNCHANGED call
      BY <1>2, <2>8, <3>1, <3>2 DEF Reads
    <3>3. CASE ~ UNCHANGED call
      <4>1. Place(call') = Place(call) + 1 /\ Place(call) > 5
        BY <2>1, <2>6, <3>1, <3>3, ResumeIsSomewhere DEF At, ResumePlaces
      <4>2. Reads(Place(call), SealedAnchor, SealedAuthority, call.authority, call.anchor,
                  call.seen)
        BY <2>6, <2>8, <4>1
      <4>3. /\ ~ (Place(call) <= 5)
            /\ Place(call') > 10 => Place(call) > 10 \/ At("authenticate")
        BY <2>6, <4>1
      <4>4. At("authenticate") =>
              call.authority = SealedAuthority /\ call.anchor = SealedAnchor
        <5>1. SUFFICES ASSUME At("authenticate")
                       PROVE  call.authority = SealedAuthority /\ call.anchor = SealedAnchor
          OBVIOUS
        <5>2. Loads(sealed)
          BY <1>5, <2>1, <2>3, <2>12, <3>3, <5>1 DEF OwnStep, Passes, SeesTree,
             Marks, ReadOnlyRow, RowStep, At
        <5> QED
          BY <2>2, <4>2, <4>3, <5>2, LoadedStands DEF Reads
      <4> QED
        BY <3>1, <4>1, <4>2, <4>3, <4>4 DEF Reads
    <3> QED
      BY <3>2, <3>3
  <2> QED
    BY <1>5, <2>9, <2>10, <2>11, <2>12
<1> QED
  BY <1>3, <1>4, <1>5, StepCases
-----------------------------------------------------------------------------
(* The seal in the making *)

\* The files of the seal are written one after the other.
LEMMA FilesInOrder ==
  ASSUME NEW n \in 0 .. 5
  PROVE  /\ IsFiniteSet(SealFiles(n)) /\ Cardinality(SealFiles(n)) = n
         /\ SealFiles(n + 1) = SealFiles(n) \cup { SealOrder[n + 1] }
<1>1. \A i, j \in 1 .. 6 : SealOrder[i] = SealOrder[j] => i = j
  BY DEF SealOrder
<1> HIDE DEF SealOrder
<1>2. \A k \in 0 .. 5 : /\ SealFiles(k + 1) = SealFiles(k) \cup { SealOrder[k + 1] }
                        /\ SealOrder[k + 1] \notin SealFiles(k)
  BY <1>1 DEF SealFiles
<1>3. SealFiles(0) = {}
  BY DEF SealFiles
<1>4. IsFiniteSet(SealFiles(0)) /\ Cardinality(SealFiles(0)) = 0
  BY <1>3, FS_EmptySet
<1>5. ASSUME NEW k \in 0 .. 4, IsFiniteSet(SealFiles(k)), Cardinality(SealFiles(k)) = k
      PROVE  IsFiniteSet(SealFiles(k + 1)) /\ Cardinality(SealFiles(k + 1)) = k + 1
  <2>1. k \in 0 .. 5
    OBVIOUS
  <2>2. PICK x : SealFiles(k + 1) = SealFiles(k) \cup { x } /\ x \notin SealFiles(k)
    BY <1>2, <2>1
  <2> QED
    BY <1>5, <2>2, FS_AddElement
<1>6. IsFiniteSet(SealFiles(1)) /\ Cardinality(SealFiles(1)) = 1
  BY <1>4, <1>5
<1>7. IsFiniteSet(SealFiles(2)) /\ Cardinality(SealFiles(2)) = 2
  BY <1>5, <1>6
<1>8. IsFiniteSet(SealFiles(3)) /\ Cardinality(SealFiles(3)) = 3
  BY <1>5, <1>7
<1>9. IsFiniteSet(SealFiles(4)) /\ Cardinality(SealFiles(4)) = 4
  BY <1>5, <1>8
<1>10. IsFiniteSet(SealFiles(5)) /\ Cardinality(SealFiles(5)) = 5
  BY <1>5, <1>9
<1>11. n \in { 0, 1, 2, 3, 4, 5 }
  OBVIOUS
<1> QED
  BY <1>2, <1>4, <1>6, <1>7, <1>8, <1>9, <1>10, <1>11

\* What has been written of the authority and of the worktree's files.
StagedFits(authority, anchor) ==
  /\ \E n \in 0 .. 5 : DOMAIN staging = SealFiles(n)
  /\ "repository-authority" \in DOMAIN staging => staging["repository-authority"] = authority
  /\ "worktree-authority" \in DOMAIN staging => staging["worktree-authority"] = anchor

\* ... and what once the manifest is written, too.
StagedWhole(files, authority, anchor) ==
  /\ { "repository-authority", "worktree-authority", "seal-manifest" } \subseteq DOMAIN files
  /\ files["repository-authority"] = authority
  /\ files["worktree-authority"] = anchor
  /\ { "repository-authority", "worktree-authority" } \subseteq DOMAIN files["seal-manifest"]
  /\ files["seal-manifest"]["repository-authority"] = authority
  /\ files["seal-manifest"]["worktree-authority"] = anchor

\* One more file, or the manifest over all of them.
LEMMA StagesOneMore ==
  ASSUME StagesFile, StagedFits(call.authority, call.anchor)
  PROVE  IF NextFile = "seal-manifest"
           THEN StagedWhole(staging', call.authority, call.anchor)
           ELSE UNCHANGED call => StagedFits(call.authority, call.anchor)'
<1>1. PICK n \in 0 .. 5 : DOMAIN staging = SealFiles(n)
  BY DEF StagedFits
<1>2. NextFile = SealOrder[n + 1]
  BY <1>1, FilesInOrder DEF NextFile
<1>3. /\ DOMAIN staging' = DOMAIN staging \cup { NextFile }
      /\ staging'[NextFile] = Content(NextFile)
      /\ \A g \in DOMAIN staging \ { NextFile } : staging'[g] = staging[g]
  BY DEF StagesFile
<1>4. DOMAIN staging' = SealFiles(n + 1)
  BY <1>1, <1>2, <1>3, FilesInOrder
<1>5. \A i, j \in 1 .. 6 : SealOrder[i] = SealOrder[j] => i = j
  BY DEF SealOrder
<1>6. NextFile \notin DOMAIN staging
  <2> HIDE DEF SealOrder
  <2> QED
    BY <1>1, <1>2, <1>5 DEF SealFiles
<1>7. /\ NextFile = "repository-authority" => Content(NextFile) = call.authority
      /\ NextFile = "worktree-authority" => Content(NextFile) = call.anchor
      /\ NextFile = "seal-manifest" => Content(NextFile) = staging
  BY DEF Content
<1>8. /\ "repository-authority" \in DOMAIN staging' =>
           staging'["repository-authority"] = call.authority
      /\ "worktree-authority" \in DOMAIN staging' =>
           staging'["worktree-authority"] = call.anchor
  BY <1>3, <1>6, <1>7 DEF StagedFits
<1>9. CASE n = 5
  <2>1. NextFile = "seal-manifest"
    BY <1>2, <1>9 DEF SealOrder
  <2>2. "repository-authority" \in DOMAIN staging /\ "worktree-authority" \in DOMAIN staging
    <3>1. SealOrder[4] = "repository-authority" /\ SealOrder[5] = "worktree-authority"
      BY DEF SealOrder
    <3> HIDE DEF SealOrder
    <3> QED
      BY <1>1, <1>9, <3>1 DEF SealFiles
  <2> QED
    BY <1>3, <1>7, <1>8, <2>1, <2>2 DEF StagedWhole, StagedFits
<1>10. CASE n # 5
  <2>1. NextFile # "seal-manifest"
    <3>1. SealOrder[6] = "seal-manifest"
      BY DEF SealOrder
    <3> HIDE DEF SealOrder
    <3> QED
      BY <1>2, <1>5, <1>10, <3>1
  <2>2. n + 1 \in 0 .. 5
    BY <1>10
  <2> QED
    BY <1>4, <1>8, <2>1, <2>2 DEF StagedFits
<1> QED
  BY <1>9, <1>10

\* StagingFits, in places.
Staged(p) ==
  /\ p > 14 =>
       /\ call.anchor \in AnchorSet /\ call.anchor.common = worktree.common
       /\ call.anchor.link <= worktree.link
  /\ p < 24 => staging = NoFiles
  /\ p = 24 => StagedFits(call.authority, call.anchor)
  /\ p > 24 /\ p <= 28 => StagedWhole(staging, call.authority, call.anchor)
  /\ p > 28 => HasSeal /\ SealedAuthority = call.authority /\ SealedAnchor = call.anchor

LEMMA StagingPlaces ==
  ASSUME WalkingIn(call), call.kind = "dispatch"
  PROVE  StagingFits <=> Staged(Place(call))
<1>1. /\ Place(call) \in Nat
      /\ Past("worktree") <=> Place(call) > 14
      /\ Past("seal") <=> Place(call) > 24
      /\ At("seal") <=> Place(call) = 24
      /\ Past("publish") <=> Place(call) > 28
  BY DispatchIsSomewhere DEF DispatchPlaces, Reaches, At, Past, PastIn, WalkingIn, Place
<1>2. Walking /\ (~ Past("seal") /\ ~ At("seal") <=> Place(call) < 24)
      /\ (~ Past("publish") <=> Place(call) <= 28)
  BY <1>1 DEF Walking, WalkingIn
<1> HIDE DEF Past, At, Place, HasSeal, SealedAnchor, SealedAuthority
<1> QED
  BY <1>1, <1>2 DEF StagingFits, Staged, StagedFits, StagedWhole

\* The same of the state after a step.
LEMMA StagingPlacesNext ==
  ASSUME WalkingIn(call'), call'.kind = "dispatch"
  PROVE  StagingFits' <=> Staged(Place(call))'
<1>1. /\ Place(call') \in Nat
      /\ Past("worktree")' <=> Place(call') > 14
      /\ Past("seal")' <=> Place(call') > 24
      /\ At("seal")' <=> Place(call') = 24
      /\ Past("publish")' <=> Place(call') > 28
  <2>1. DispatchPlaces(call')
    BY DispatchIsSomewhere
  <2> QED
    BY <2>1 DEF DispatchPlaces, Reaches, At, Past, PastIn, WalkingIn, Place
<1>2. Walking' /\ (~ Past("seal")' /\ ~ At("seal")' <=> Place(call') < 24)
      /\ (~ Past("publish")' <=> Place(call') <= 28)
  BY <1>1 DEF Walking, WalkingIn
<1>3. Place(call)' = Place(call')
  BY DEF Place
<1> HIDE DEF Past, At, Place, HasSeal, SealedAnchor, SealedAuthority
<1> QED
  BY <1>1, <1>2, <1>3 DEF StagingFits, Staged, StagedFits, StagedWhole

\* StagingFits.
LEMMA StagingFitsNext ==
  ASSUME Types, Beginnings, StagingFits, Next
  PROVE  StagingFits'
<1>1. /\ call.kind \in { "dispatch", "resume" }
      /\ worktree.link \in Nat /\ worktree.common \in Nat /\ worktree'.link \in Nat
  BY WorktreeNext DEF Types
<1>2. SUFFICES ASSUME WalkingIn(call'), call'.kind = "dispatch"
               PROVE  Staged(Place(call))'
  BY StagingPlacesNext DEF StagingFits, Walking, WalkingIn
<1>3. Place(call)' = Place(call')
  BY DEF Place
<1>4. CASE BeginDispatch \/ BeginResume
  <2>1. /\ Place(call') = 1 /\ BeginDispatch /\ UNCHANGED staging
    BY <1>2, <1>4, CallBegins
  <2>2. staging = NoFiles
    BY <2>1 DEF BeginDispatch, Beginnings
  <2> QED
    BY <1>3, <2>1, <2>2 DEF Staged
<1>5. CASE Others
  <2>1. UNCHANGED << call, staging >> /\ WalkingIn(call) /\ call.kind = "dispatch"
    BY <1>2, <1>5, OthersFacts DEF WalkingIn
  <2>2. Staged(Place(call)) /\ Place(call) \in Nat
    BY <2>1, StagingPlaces, DispatchIsSomewhere DEF DispatchPlaces
  <2>3. worktree'.common = worktree.common /\ worktree.link <= worktree'.link
    <3>1. UNCHANGED worktree \/ NewLink
      BY <1>5, OthersFacts DEF NewLayout, NewSeal
    <3>2. worktree.link <= Fresh /\ Fresh \in Nat
      BY <1>1 DEF Types, Fresh
    <3> HIDE DEF Fresh
    <3> QED
      BY <1>1, <3>1, <3>2 DEF NewLink
  <2>4. Place(call) > 14 => call.anchor.link <= worktree'.link
    BY <1>1, <2>2, <2>3 DEF Staged, AnchorSet
  <2>5. HasSeal => HasSeal' /\ SealedAuthority' = SealedAuthority
                  /\ SealedAnchor' = SealedAnchor
    BY <1>5, OthersFacts DEF NewLayout, NewLink, NewSeal, HasSeal, SealedAuthority, SealedAnchor
  <2> HIDE DEF Place, HasSeal, SealedAuthority, SealedAnchor
  <2>6. StagedFits(call.authority, call.anchor)' <=> StagedFits(call.authority, call.anchor)
    BY <2>1 DEF StagedFits
  <2> QED
    BY <1>3, <2>1, <2>2, <2>3, <2>4, <2>5, <2>6 DEF Staged
<1>6. CASE OwnStep
  <2>1. /\ Walking /\ WalkingIn(call) /\ call.kind = "dispatch"
        /\ (UNCHANGED call \/ Place(call') = Place(call) + 1)
        /\ ~ Ends /\ ~ Launches /\ ~ Returns
    BY <1>2, <1>6, WalksOn
  <2>2. Staged(Place(call))
    BY <2>1, StagingPlaces
  <2>3. /\ Place(call) \in 1 .. 29
        /\ At("G4") <=> Place(call) = 13
        /\ At("worktree") <=> Place(call) = 14
        /\ At("seal") <=> Place(call) = 24
        /\ At("publish") <=> Place(call) = 28
        /\ At("root") \/ At("dot_git") \/ At("commondir") \/ At("matches")
             => Place(call) < 14
        /\ At("root_again") \/ At("dot_git_again") \/ At("commondir_again")
             \/ At("matches_again") => Place(call) < 23
        /\ Place(call) > 14 => Past("matches")
    BY <2>1, DispatchIsSomewhere DEF DispatchPlaces, Reaches, At, Past, PastIn, WalkingIn, Place
  <2>4. ~ ReadsSeal
    BY <1>1, <2>1, KindOfStep DEF ReadsSeal, At
  <2> HIDE DEF Place
  <2>5. CASE Anchors
    <3>1. /\ Place(call) = 14 /\ Place(call') = 15
          /\ call'.anchor = Anchor
          /\ UNCHANGED << worktree, staging >>
      BY <2>3, <2>5 DEF Anchors, Step, Steady
    <3>2. /\ Anchor \in AnchorSet /\ Anchor.common = worktree.common
          /\ Anchor.link <= worktree.link
      BY <1>1 DEF Anchor, AnchorSet
    <3> QED
      BY <1>3, <2>2, <3>1, <3>2 DEF Staged
  <2>6. CASE MakesTree
    <3>1. Place(call) = 13 /\ Place(call') = 14 /\ UNCHANGED staging
      BY <2>3, <2>6 DEF MakesTree, RowStep, Step
    <3> QED
      BY <1>3, <2>2, <3>1 DEF Staged
  <2>7. CASE Stages
    <3>1. Place(call) = 24 /\ StagesFile /\ UNCHANGED worktree
          /\ StagedFits(call.authority, call.anchor)
      BY <2>2, <2>3, <2>7 DEF Stages, Staged
    <3>2. CASE NextFile = "seal-manifest"
      <4>1. /\ Place(call') = 25 /\ call'.authority = call.authority
            /\ call'.anchor = call.anchor
        BY <2>7, <3>1, <3>2 DEF Stages, Onward, Step
      <4>2. StagedWhole(staging', call.authority, call.anchor)
        BY <3>1, <3>2, StagesOneMore
      <4>3. StagedWhole(staging, call.authority, call.anchor)'
        BY <4>1, <4>2
      <4> QED
        BY <1>3, <2>2, <3>1, <4>1, <4>3 DEF Staged
    <3>3. CASE NextFile # "seal-manifest"
      <4>1. UNCHANGED call
        BY <2>7, <3>3 DEF Stages
      <4>2. StagedFits(call.authority, call.anchor)'
        BY <3>1, <3>3, <4>1, StagesOneMore
      <4>3. Place(call') = 24
        BY <3>1, <4>1
      <4> QED
        BY <1>3, <2>2, <3>1, <4>1, <4>2, <4>3 DEF Staged
    <3> QED
      BY <3>2, <3>3
  <2>8. CASE Publishes
    <3>1. /\ Place(call) = 28 /\ Place(call') = 29 /\ sealed' = staging
          /\ call'.authority = call.authority /\ call'.anchor = call.anchor
          /\ UNCHANGED worktree
      BY <2>3, <2>8 DEF Publishes, Onward, Step
    <3>2. StagedWhole(staging, call.authority, call.anchor)
      BY <2>2, <3>1 DEF Staged
    <3>3. (HasSeal /\ SealedAuthority = call.authority /\ SealedAnchor = call.anchor)'
      BY <3>1, <3>2 DEF StagedWhole, HasSeal, SealedAuthority, SealedAnchor
    <3> QED
      BY <1>3, <2>2, <3>1, <3>3 DEF Staged
  <2>9. CASE ~ (Anchors \/ MakesTree \/ Stages \/ Publishes)
    <3>1. /\ Steady \/ (UNCHANGED << live, worktree, staging, sealed >>)
          /\ call'.anchor = call.anchor
          /\ call'.authority = call.authority \/ SeesMatch
          /\ UNCHANGED call \/ call.step \notin { "seal", "publish" }
      BY <1>6, <2>1, <2>4, <2>9 DEF OwnStep, Passes, PlainSteps, SeesRoot, SeesDotGit,
         SeesCommondir, SeesMatch, SeesTree, Marks, ReadOnlyRow, Onward, RowStep, Step, At
    <3>2. UNCHANGED << worktree, staging, sealed >>
      BY <3>1 DEF Steady
    <3>3. UNCHANGED << HasSeal, SealedAuthority, SealedAnchor >>
      BY <3>2 DEF HasSeal, SealedAuthority, SealedAnchor
    <3>4. Place(call) > 22 => call'.authority = call.authority
      BY <2>3, <3>1 DEF SeesMatch, At
    <3>5. CASE UNCHANGED call
      <4>1. StagedFits(call.authority, call.anchor)'
              <=> StagedFits(call.authority, call.anchor)
        BY <3>2, <3>5 DEF StagedFits
      <4> QED
        BY <1>3, <2>2, <3>2, <3>3, <3>5, <4>1 DEF Staged
    <3>6. CASE ~ UNCHANGED call
      <4>1. Place(call') = Place(call) + 1 /\ Place(call) # 24 /\ Place(call) # 28
            /\ Place(call) # 14
        BY <1>6, <2>1, <2>3, <2>4, <2>9, <3>1, <3>6 DEF At, OwnStep, Passes, PlainSteps,
           SeesRoot, SeesDotGit, SeesCommondir, SeesMatch, SeesTree, Marks, ReadOnlyRow, RowStep
      <4>2. CASE Place(call) = 23
        <5>1. staging = NoFiles /\ Place(call') = 24
          BY <2>2, <4>1, <4>2 DEF Staged
        <5>2. DOMAIN staging' = SealFiles(0)
          BY <3>2, <5>1 DEF NoFiles, SealFiles
        <5>3. StagedFits(call.authority, call.anchor)'
          <6>1. DOMAIN staging' = {}
            BY <3>2, <5>1 DEF NoFiles
          <6> HIDE DEF SealFiles
          <6> QED
            BY <5>2, <6>1 DEF StagedFits
        <5> QED
          BY <1>3, <2>2, <3>1, <3>2, <4>2, <5>1, <5>3 DEF Staged
      <4>3. CASE Place(call) # 23
        <5>1. StagedWhole(staging, call.authority, call.anchor) /\ Place(call) > 24
                => StagedWhole(staging, call.authority, call.anchor)'
          BY <2>3, <3>1, <3>2, <3>4 DEF StagedWhole
        <5> QED
          BY <1>3, <2>2, <2>3, <3>1, <3>2, <3>3, <3>4, <4>1, <4>3, <5>1 DEF Staged
      <4> QED
        BY <4>2, <4>3
    <3> QED
      BY <3>5, <3>6
  <2> QED
    BY <1>6, <2>5, <2>6, <2>7, <2>8, <2>9
<1> QED
  BY <1>4, <1>5, <1>6, StepCases

\* TreesAgree.
LEMMA TreesAgreeNext ==
  ASSUME Types, TreesAgree, Next
  PROVE  TreesAgree'
<1>1. call.kind \in { "dispatch", "resume" }
  BY DEF Types
<1>2. SUFFICES ASSUME WalkingIn(call')
               PROVE  TreesAgree'
  BY DEF TreesAgree, Walking, WalkingIn
<1>3. CASE BeginDispatch \/ BeginResume
  <2>1. Place(call') = 1 /\ call'.kind \in { "dispatch", "resume" }
    BY <1>3, CallBegins
  <2>2. CASE call'.kind = "dispatch"
    <3>1. DispatchPlaces(call')
      BY <1>2, <2>2, DispatchIsSomewhere
    <3>2. ~ Past("head_again")'
      BY <2>1, <3>1 DEF DispatchPlaces, Reaches, Past, PastIn, WalkingIn, Place
    <3> QED
      BY <2>2, <3>2 DEF TreesAgree
  <2>3. CASE call'.kind = "resume"
    <3>1. ResumePlaces(call')
      BY <1>2, <2>3, ResumeIsSomewhere
    <3>2. ~ Past("worker_start")'
      BY <2>1, <3>1 DEF ResumePlaces, Reaches, Past, PastIn, WalkingIn, Place
    <3> QED
      BY <2>3, <3>2 DEF TreesAgree
  <2> QED
    BY <2>1, <2>2, <2>3
<1>4. CASE Others
  BY <1>4, OthersFacts DEF TreesAgree, Past, Walking
<1>5. CASE OwnStep
  <2>1. /\ Walking /\ WalkingIn(call) /\ call'.kind = call.kind
        /\ (UNCHANGED call \/ Place(call') = Place(call) + 1)
        /\ ~ Ends /\ ~ Launches /\ ~ Returns
    BY <1>2, <1>5, WalksOn
  <2>2. \/ UNCHANGED call
        \/ /\ call'.tree = call.tree /\ call'.tree_again = call.tree_again
           /\ At("head_again") /\ call.kind = "dispatch" => call.tree = call.tree_again
           /\ At("worker_start") /\ call.kind = "resume" => call.tree = call.tree_again
        \/ At("tree") \/ At("tree_again")
    BY <1>5, <2>1 DEF OwnStep, Passes, SeesRoot, SeesDotGit, SeesCommondir, SeesMatch, SeesTree,
       ReadsSeal, Anchors, Marks, ReadOnlyRow, MakesTree, Stages, Publishes, Onward, RowStep,
       Step, At
  <2>3. CASE UNCHANGED call
    BY <2>3 DEF TreesAgree, Past, Walking
  <2>4. CASE ~ UNCHANGED call /\ call.kind = "dispatch"
    <3>1. DispatchPlaces(call) /\ DispatchPlaces(call')
      BY <1>2, <2>1, <2>4, DispatchIsSomewhere
    <3>2. Past("head_again")' => Past("head_again") \/ At("head_again")
      BY <2>1, <2>4, <3>1 DEF DispatchPlaces, Reaches, Past, PastIn, WalkingIn, Place, At
    <3>3. At("tree") \/ At("tree_again") => ~ Past("head_again")'
      BY <2>1, <2>4, <3>1 DEF DispatchPlaces, Reaches, Past, PastIn, WalkingIn, Place, At
    <3>4. At("head_again") => ~ At("tree") /\ ~ At("tree_again")
      BY DEF At
    <3> QED
      BY <2>1, <2>2, <2>4, <3>2, <3>3, <3>4 DEF TreesAgree
  <2>5. CASE ~ UNCHANGED call /\ call.kind = "resume"
    <3>1. ResumePlaces(call) /\ ResumePlaces(call')
      BY <1>2, <2>1, <2>5, ResumeIsSomewhere
    <3>2. Past("worker_start")' => Past("worker_start") \/ At("worker_start")
      BY <2>1, <2>5, <3>1 DEF ResumePlaces, Reaches, Past, PastIn, WalkingIn, Place, At
    <3>3. At("tree") \/ At("tree_again") => ~ Past("worker_start")'
      BY <2>1, <2>5, <3>1 DEF ResumePlaces, Reaches, Past, PastIn, WalkingIn, Place, At
    <3>4. At("worker_start") => ~ At("tree") /\ ~ At("tree_again")
      BY DEF At
    <3> QED
      BY <2>1, <2>2, <2>5, <3>2, <3>3, <3>4 DEF TreesAgree
  <2> QED
    BY <1>1, <2>3, <2>4, <2>5
<1> QED
  BY <1>3, <1>4, <1>5, StepCases

\* A sequence with one element more.
LEMMA OneMore ==
  ASSUME NEW s, s \in Seq(Range(s)), NEW e
  PROVE  LET t == Append(s, e) IN
         /\ t \in Seq(Range(t))
         /\ DOMAIN t = DOMAIN s \cup { Len(s) + 1 }
         /\ t[Len(s) + 1] = e
         /\ \A i \in DOMAIN s : t[i] = s[i]
         /\ DOMAIN s = 1 .. Len(s)
<1> DEFINE S == Range(s) \cup { e }
           t == Append(s, e)
<1>1. s \in Seq(S) /\ e \in S
  OBVIOUS
<1> HIDE DEF S
<1>2. /\ t \in Seq(S) /\ Len(t) = Len(s) + 1 /\ DOMAIN t = 1 .. Len(t)
      /\ DOMAIN s = 1 .. Len(s) /\ Len(s) \in Nat
      /\ t[Len(s) + 1] = e
      /\ \A i \in 1 .. Len(s) : t[i] = s[i]
  BY <1>1
<1>3. \A i \in 1 .. Len(t) : t[i] \in Range(t)
  BY <1>2 DEF Range
<1>4. t \in Seq(Range(t))
  BY <1>2, <1>3
<1> QED
  BY <1>2, <1>4

\* LaunchesFit.
LEMMA LaunchesFitNext ==
  ASSUME Types, Beginnings, SecondCapture, ReadFits, StagingFits, TreesAgree, LaunchesFit, Next
  PROVE  LaunchesFit'
<1>1. /\ call.kind \in { "dispatch", "resume" } /\ layouts \subseteq layouts'
  BY LayoutsNext DEF Types
<1>2. CASE Launches
  <2>1. /\ Walking /\ WalkingIn(call) /\ At("launch")
        /\ UNCHANGED sealed
        /\ launched' = Append(launched,
             [authority |-> call.authority, anchor |-> call.anchor,
              tree |-> call.tree, tree_again |-> call.tree_again])
    BY <1>2, AtWalks DEF Launches, At, Walking, WalkingIn
  <2>2. call.kind = "dispatch" =>
          Past("publish") /\ Past("matches_again") /\ Past("head_again")
    <3>1. call.kind = "dispatch" => DispatchPlaces(call)
      BY <2>1, DispatchIsSomewhere
    <3> QED
      BY <2>1, <3>1 DEF DispatchPlaces, Reaches, Past, PastIn, WalkingIn, Place, At
  <2>3. call.kind = "resume" => /\ Past("authenticate") /\ Past("matches_again")
                                /\ Past("worker_start") /\ Past("read")
    <3>1. call.kind = "resume" => ResumePlaces(call)
      BY <2>1, ResumeIsSomewhere
    <3> QED
      BY <2>1, <3>1 DEF ResumePlaces, Reaches, Past, PastIn, WalkingIn, Place, At
  <2>4. /\ call.authority \in layouts
        /\ call.authority = SealedAuthority /\ call.anchor = SealedAnchor
        /\ call.tree = call.tree_again
    BY <1>1, <2>1, <2>2, <2>3 DEF SecondCapture, StagingFits, ReadFits, TreesAgree
  <2>5. UNCHANGED << SealedAuthority, SealedAnchor >>
    BY <2>1 DEF SealedAuthority, SealedAnchor
  <2>6. /\ launched' \in Seq(Range(launched'))
        /\ DOMAIN launched' = DOMAIN launched \cup { Len(launched) + 1 }
        /\ \A i \in DOMAIN launched : launched'[i] = launched[i]
        /\ launched'[Len(launched) + 1] =
             [authority |-> call.authority, anchor |-> call.anchor,
              tree |-> call.tree, tree_again |-> call.tree_again]
    <3> DEFINE start == [authority |-> call.authority, anchor |-> call.anchor,
                         tree |-> call.tree, tree_again |-> call.tree_again]
    <3>1. launched \in Seq(Range(launched)) /\ launched' = Append(launched, start)
      BY <2>1 DEF LaunchesFit
    <3> HIDE DEF start
    <3>2. /\ launched' \in Seq(Range(launched'))
          /\ DOMAIN launched' = DOMAIN launched \cup { Len(launched) + 1 }
          /\ \A i \in DOMAIN launched : launched'[i] = launched[i]
          /\ launched'[Len(launched) + 1] = start
      <4> DEFINE more == Append(launched, start)
      <4>1. /\ more \in Seq(Range(more))
            /\ DOMAIN more = DOMAIN launched \cup { Len(launched) + 1 }
            /\ more[Len(launched) + 1] = start
            /\ \A i \in DOMAIN launched : more[i] = launched[i]
        BY <3>1, OneMore
      <4> QED
        BY <3>1, <4>1
    <3> QED
      BY <3>2 DEF start
  <2> HIDE DEF SealedAuthority, SealedAnchor
  <2> QED
    BY <1>1, <2>4, <2>5, <2>6 DEF LaunchesFit
<1>3. CASE OwnStep /\ ~ Launches
  <2>1. CASE launched = << >>
    <3>1. launched' = << >>
      BY <1>3, <2>1, SealedSteps
    <3> QED
      BY <3>1 DEF LaunchesFit
  <2>2. CASE launched # << >>
    <3>1. ~ Publishes
      <4>1. Publishes => Walking /\ call.kind = "dispatch"
        BY <1>1, AtWalks, KindOfStep DEF Publishes, At, Walking, WalkingIn
      <4> QED
        BY <2>2, <4>1 DEF Beginnings
    <3>2. UNCHANGED << launched, SealedAuthority, SealedAnchor >>
      BY <1>3, <3>1, SealedSteps DEF SealedAuthority, SealedAnchor
    <3> QED
      BY <1>1, <3>2 DEF LaunchesFit
  <2> QED
    BY <2>1, <2>2
<1>4. CASE BeginDispatch \/ BeginResume
  <2>1. UNCHANGED << launched, SealedAuthority, SealedAnchor >>
    BY <1>4, CallBegins DEF SealedAuthority, SealedAnchor
  <2> QED
    BY <1>1, <2>1 DEF LaunchesFit
<1>5. CASE Others
  <2>1. launched # << >> => UNCHANGED << SealedAuthority, SealedAnchor >>
    BY <1>5, OthersFacts
       DEF Beginnings, NewLayout, NewLink, NewSeal, SealedAuthority, SealedAnchor
  <2>2. UNCHANGED launched
    BY <1>5, OthersFacts
  <2> HIDE DEF SealedAuthority, SealedAnchor
  <2>3. CASE launched = << >>
    BY <2>2, <2>3 DEF LaunchesFit
  <2>4. CASE launched # << >>
    BY <1>1, <2>1, <2>2, <2>4 DEF LaunchesFit
  <2> QED
    BY <2>3, <2>4
<1> QED
  BY <1>2, <1>3, <1>4, <1>5, StepCases
-----------------------------------------------------------------------------
(* The journal *)

\* The rows of the last call are those after the last marker.
LEMMA RowsAfterMarker ==
  ASSUME NEW rows \in Seq(RowNames), NEW m \in 0 .. Len(rows), LastMarker(rows, m)
  PROVE  /\ RowsOfLastCall(rows) = SubSeq(rows, 1 + m, Len(rows))
         /\ RowsOfLastCall(rows) \in Seq(RowNames)
         /\ Len(RowsOfLastCall(rows)) = Len(rows) - m
         /\ \A i \in 1 .. Len(rows) - m : RowsOfLastCall(rows)[i] = rows[m + i]
<1>1. MarkersOf(rows) \subseteq Nat
  BY DEF MarkersOf
<1>2. \A x \in MarkersOf(rows) \cup { 0 } :
        (\A y \in MarkersOf(rows) \cup { 0 } : x >= y) => x = m
  BY <1>1 DEF LastMarker
<1>3. m \in MarkersOf(rows) \cup { 0 } /\ \A y \in MarkersOf(rows) \cup { 0 } : m >= y
  BY <1>1 DEF LastMarker
<1>4. Max(MarkersOf(rows) \cup { 0 }) = m
  <2> DEFINE S == MarkersOf(rows) \cup { 0 }
  <2> HIDE DEF S
  <2>1. m \in S /\ (\A y \in S : m >= y) /\ \A x \in S : (\A y \in S : x >= y) => x = m
    BY <1>2, <1>3 DEF S
  <2>2. Max(S) = m
    BY <2>1 DEF Max
  <2> QED
    BY <2>2 DEF S
<1>5. RowsOfLastCall(rows) = SubSeq(rows, 1 + m, Len(rows))
  BY <1>4 DEF RowsOfLastCall
<1>6. \A i \in 1 + m .. Len(rows) : rows[i] \in RowNames
  OBVIOUS
<1>7. /\ SubSeq(rows, 1 + m, Len(rows)) \in Seq(RowNames)
      /\ Len(SubSeq(rows, 1 + m, Len(rows)))
           = IF 1 + m <= Len(rows) THEN Len(rows) - (1 + m) + 1 ELSE 0
      /\ \A i \in 1 .. Len(rows) - (1 + m) + 1 :
           SubSeq(rows, 1 + m, Len(rows))[i] = rows[1 + m + i - 1]
  <2>1. 1 + m \in Int /\ Len(rows) \in Int
    OBVIOUS
  <2> QED
    BY <1>6, <2>1, SubSeqProperties
<1> QED
  BY <1>5, <1>7

\* A marker begins another call.
LEMMA MarkerBegins ==
  ASSUME NEW rows, JournalOpens(rows)
  PROVE  /\ JournalOpens(Append(rows, "marker"))
         /\ Append(rows, "marker") # << >>
         /\ RowsOfLastCall(Append(rows, "marker")) = << >>
<1> DEFINE t == Append(rows, "marker")
           n == Len(rows) + 1
<1>1. rows \in Seq(RowNames) /\ "marker" \in RowNames
  BY DEF JournalOpens, RowNames
<1>2. /\ t \in Seq(RowNames) /\ t # << >> /\ Len(t) = n /\ n \in Nat
      /\ t[n] = "marker" /\ \A i \in 1 .. Len(rows) : t[i] = rows[i]
      /\ DOMAIN t = 1 .. n /\ Len(rows) \in Nat
  BY <1>1, AppendProperties
<1> HIDE DEF t
<1>3. LastMarker(t, n)
  BY <1>2 DEF LastMarker, MarkersOf
<1>4. t[1] = "marker"
  <2>1. CASE rows = << >>
    BY <1>2, <2>1
  <2>2. CASE rows # << >>
    BY <1>1, <1>2, <2>2 DEF JournalOpens
  <2> QED
    BY <2>1, <2>2
<1>5. JournalOpens(t)
  BY <1>2, <1>3, <1>4 DEF JournalOpens
<1>6. RowsOfLastCall(t) \in Seq(RowNames) /\ Len(RowsOfLastCall(t)) = 0
  BY <1>2, <1>3, RowsAfterMarker
<1> QED
  BY <1>2, <1>5, <1>6 DEF t

\* Any other row is one more of the same call.
LEMMA RowAppends ==
  ASSUME NEW rows, JournalOpens(rows), rows # << >>, NEW row \in RowNames, row # "marker"
  PROVE  /\ JournalOpens(Append(rows, row))
         /\ Append(rows, row) # << >>
         /\ RowsOfLastCall(rows) \in Seq(RowNames)
         /\ RowsOfLastCall(Append(rows, row)) = Append(RowsOfLastCall(rows), row)
<1> DEFINE t == Append(rows, row)
           n == Len(rows) + 1
<1>1. rows \in Seq(RowNames)
  BY DEF JournalOpens
<1>2. /\ t \in Seq(RowNames) /\ t # << >> /\ Len(t) = n /\ n \in Nat
      /\ t[n] = row /\ \A i \in 1 .. Len(rows) : t[i] = rows[i]
      /\ DOMAIN t = 1 .. n /\ Len(rows) \in Nat /\ DOMAIN rows = 1 .. Len(rows)
  BY <1>1, AppendProperties
<1> HIDE DEF t
<1>3. PICK m \in 0 .. Len(rows) : LastMarker(rows, m)
  BY DEF JournalOpens
<1>4. MarkersOf(t) = MarkersOf(rows)
  BY <1>2 DEF MarkersOf
<1>5. LastMarker(t, m) /\ m \in 0 .. Len(t)
  BY <1>2, <1>3, <1>4 DEF LastMarker
<1>6. t[1] = "marker"
  BY <1>1, <1>2 DEF JournalOpens
<1>7. JournalOpens(t)
  BY <1>2, <1>5, <1>6 DEF JournalOpens
<1> DEFINE u == RowsOfLastCall(t)
           v == RowsOfLastCall(rows)
<1>8. /\ u \in Seq(RowNames) /\ Len(u) = n - m
      /\ \A i \in 1 .. n - m : u[i] = t[m + i]
  BY <1>2, <1>5, RowsAfterMarker
<1>9. /\ v \in Seq(RowNames) /\ Len(v) = Len(rows) - m
      /\ \A i \in 1 .. Len(rows) - m : v[i] = rows[m + i]
  BY <1>1, <1>3, RowsAfterMarker
<1> HIDE DEF u, v
<1>10. /\ Append(v, row) \in Seq(RowNames) /\ Len(Append(v, row)) = Len(v) + 1
       /\ \A i \in 1 .. Len(v) : Append(v, row)[i] = v[i]
       /\ Append(v, row)[Len(v) + 1] = row
  BY <1>9, AppendProperties
<1>11. Len(u) = Len(Append(v, row))
  BY <1>2, <1>3, <1>8, <1>9, <1>10
<1>12. ASSUME NEW i \in 1 .. Len(u)
       PROVE  u[i] = Append(v, row)[i]
  <2>1. i \in 1 .. n - m /\ m \in Nat /\ u[i] = t[m + i]
    BY <1>2, <1>3, <1>8
  <2>2. CASE i <= Len(v)
    <3>1. i \in 1 .. Len(v) /\ m + i \in 1 .. Len(rows)
      BY <1>2, <1>3, <1>9, <2>1, <2>2
    <3>2. t[m + i] = rows[m + i] /\ v[i] = rows[m + i]
      BY <1>2, <1>9, <3>1
    <3>3. Append(v, row)[i] = v[i]
      BY <1>10, <3>1
    <3> QED
      BY <2>1, <3>2, <3>3
  <2>3. CASE ~ (i <= Len(v))
    <3>1. i = Len(v) + 1 /\ m + i = n
      BY <1>2, <1>3, <1>9, <2>1, <2>3
    <3> QED
      BY <1>2, <1>10, <2>1, <3>1
  <2> QED
    BY <2>2, <2>3
<1>13. u = Append(v, row)
  BY <1>8, <1>10, <1>11, <1>12, SeqEqual
<1> QED
  BY <1>2, <1>7, <1>9, <1>13 DEF t, u, v

\* What a row that is recorded leaves of the journals.
LEMMA RecordedFits ==
  ASSUME JournalFits, NEW row \in RowNames, Recorded(row), call.index \in 0 .. MaxCalls,
         row = "marker" \/ journal[call.index] # << >>
  PROVE  /\ DOMAIN journal' = 0 .. MaxCalls
         /\ \A k \in 0 .. MaxCalls : JournalOpens(journal'[k])
         /\ journal'[call.index] # << >>
         /\ RowsOfLastCall(journal'[call.index]) =
              IF row = "marker" THEN << >>
              ELSE Append(RowsOfLastCall(journal[call.index]), row)
<1>1. /\ DOMAIN journal' = 0 .. MaxCalls
      /\ journal'[call.index] = Append(journal[call.index], row)
      /\ \A k \in 0 .. MaxCalls \ { call.index } : journal'[k] = journal[k]
      /\ \A k \in 0 .. MaxCalls : JournalOpens(journal[k])
  BY DEF Recorded, JournalFits
<1>2. CASE row = "marker"
  BY <1>1, <1>2, MarkerBegins
<1>3. CASE row # "marker"
  BY <1>1, <1>3, RowAppends
<1> QED
  BY <1>2, <1>3

\* Where a dispatch and a resume are, and how many rows they have behind them.
LEMMA RowsOfPlaces ==
  ASSUME WalkingIn(call), call.kind \in { "dispatch", "resume" }
  PROVE  /\ RowsRun \in 0 .. 6
         /\ call.step \in RowNames => /\ RowsRun + 1 \in 1 .. Len(Row(call.kind))
                                     /\ Row(call.kind)[RowsRun + 1] = call.step
                                     /\ Past("establish") /\ call.step # "marker"
         /\ At("establish") => RowsRun = 0
         /\ ~ Past("establish") => RowsRun = 0
         /\ RowsRun <= Len(Row(call.kind))
<1>1. CASE call.kind = "dispatch"
  <2>1. DispatchPlaces(call)
    BY <1>1, DispatchIsSomewhere
  <2>2. Row(call.kind) = << "G1", "G2", "G3", "G4", "G8", "G9" >>
    BY <1>1 DEF Row, DispatchRows
  <2>3. /\ Place(call) \in 1 .. 29
        /\ At("G1") <=> Place(call) = 10
        /\ At("G2") <=> Place(call) = 11
        /\ At("G3") <=> Place(call) = 12
        /\ At("G4") <=> Place(call) = 13
        /\ At("G8") <=> Place(call) = 16
        /\ At("G9") <=> Place(call) = 17
        /\ At("establish") <=> Place(call) = 9
        /\ Past("G1") <=> Place(call) > 10
        /\ Past("G2") <=> Place(call) > 11
        /\ Past("G3") <=> Place(call) > 12
        /\ Past("G4") <=> Place(call) > 13
        /\ Past("G8") <=> Place(call) > 16
        /\ Past("G9") <=> Place(call) > 17
        /\ Past("establish") <=> Place(call) > 9
    BY <2>1 DEF DispatchPlaces, Reaches, At, Past, PastIn, WalkingIn, Place
  <2>4. call.step \notin { "marker", "G1_PRIME" }
    <3>1. \A i \in 1 .. 29 : DispatchSteps[i] \notin { "marker", "G1_PRIME" }
      BY DEF DispatchSteps
    <3> HIDE DEF DispatchSteps
    <3> QED
      BY <1>1, <3>1, DispatchOrder DEF WalkingIn, Steps
  <2>5. RowsRun = IF Place(call) > 17 THEN 6 ELSE IF Place(call) > 16 THEN 5
                  ELSE IF Place(call) > 13 THEN 4 ELSE IF Place(call) > 12 THEN 3
                  ELSE IF Place(call) > 11 THEN 2 ELSE IF Place(call) > 10 THEN 1 ELSE 0
    BY <1>1, <2>3 DEF RowsRun
  <2> HIDE DEF Place
  <2> QED
    BY <2>2, <2>3, <2>4, <2>5 DEF At, RowNames
<1>2. CASE call.kind = "resume"
  <2>1. ResumePlaces(call)
    BY <1>2, ResumeIsSomewhere
  <2>2. Row(call.kind) = << "G1_PRIME" >>
    BY <1>2 DEF Row, ResumeRows
  <2>3. /\ Place(call) \in 1 .. 21
        /\ At("G1_PRIME") <=> Place(call) = 13
        /\ At("establish") <=> Place(call) = 12
        /\ Past("G1_PRIME") <=> Place(call) > 13
        /\ Past("establish") <=> Place(call) > 12
    BY <2>1 DEF ResumePlaces, Reaches, At, Past, PastIn, WalkingIn, Place
  <2>4. call.step \notin RowNames \ { "G1_PRIME" }
    <3>1. \A i \in 1 .. 21 : ResumeSteps[i] \notin RowNames \ { "G1_PRIME" }
      BY DEF ResumeSteps, RowNames
    <3> HIDE DEF ResumeSteps
    <3> QED
      BY <1>2, <3>1, ResumeOrder DEF WalkingIn, Steps
  <2>5. RowsRun = IF Place(call) > 13 THEN 1 ELSE 0
    BY <1>2, <2>3 DEF RowsRun
  <2> HIDE DEF Place
  <2> QED
    BY <2>2, <2>3, <2>4, <2>5 DEF At, RowNames
<1> QED
  BY <1>1, <1>2

\* A step has one more row behind it if it was at one.
LEMMA RowsRunNext ==
  ASSUME WalkingIn(call), call.kind \in { "dispatch", "resume" },
         WalkingIn(call'), call'.kind = call.kind, Place(call') = Place(call) + 1
  PROVE  /\ RowsRun' = IF call.step \in RowNames THEN RowsRun + 1 ELSE RowsRun
         /\ Past("establish")' <=> Past("establish") \/ At("establish")
<1>1. CASE call.kind = "dispatch"
  <2>1. DispatchPlaces(call) /\ DispatchPlaces(call')
    BY <1>1, DispatchIsSomewhere
  <2>2. /\ Place(call) \in 1 .. 29
        /\ At("G1") <=> Place(call) = 10
        /\ At("G2") <=> Place(call) = 11
        /\ At("G3") <=> Place(call) = 12
        /\ At("G4") <=> Place(call) = 13
        /\ At("G8") <=> Place(call) = 16
        /\ At("G9") <=> Place(call) = 17
        /\ At("establish") <=> Place(call) = 9
        /\ Past("G1") <=> Place(call) > 10
        /\ Past("G2") <=> Place(call) > 11
        /\ Past("G3") <=> Place(call) > 12
        /\ Past("G4") <=> Place(call) > 13
        /\ Past("G8") <=> Place(call) > 16
        /\ Past("G9") <=> Place(call) > 17
        /\ Past("establish") <=> Place(call) > 9
    BY <2>1 DEF DispatchPlaces, Reaches, At, Past, PastIn, WalkingIn, Place
  <2>3. /\ Place(call') \in 1 .. 29
        /\ Past("G1")' <=> Place(call') > 10
        /\ Past("G2")' <=> Place(call') > 11
        /\ Past("G3")' <=> Place(call') > 12
        /\ Past("G4")' <=> Place(call') > 13
        /\ Past("G8")' <=> Place(call') > 16
        /\ Past("G9")' <=> Place(call') > 17
        /\ Past("establish")' <=> Place(call') > 9
    BY <2>1 DEF DispatchPlaces, Reaches, At, Past, PastIn, WalkingIn, Place
  <2>4. call.step \notin { "marker", "G1_PRIME" }
    <3>1. \A i \in 1 .. 29 : DispatchSteps[i] \notin { "marker", "G1_PRIME" }
      BY DEF DispatchSteps
    <3> HIDE DEF DispatchSteps
    <3> QED
      BY <1>1, <3>1, DispatchOrder DEF WalkingIn, Steps
  <2>5. RowsRun = IF Place(call) > 17 THEN 6 ELSE IF Place(call) > 16 THEN 5
                  ELSE IF Place(call) > 13 THEN 4 ELSE IF Place(call) > 12 THEN 3
                  ELSE IF Place(call) > 11 THEN 2 ELSE IF Place(call) > 10 THEN 1 ELSE 0
    BY <1>1, <2>2 DEF RowsRun
  <2>6. RowsRun' = IF Place(call') > 17 THEN 6 ELSE IF Place(call') > 16 THEN 5
                   ELSE IF Place(call') > 13 THEN 4 ELSE IF Place(call') > 12 THEN 3
                   ELSE IF Place(call') > 11 THEN 2 ELSE IF Place(call') > 10 THEN 1 ELSE 0
    BY <1>1, <2>3 DEF RowsRun
  <2>7. call.step \in RowNames <=> Place(call) \in { 10, 11, 12, 13, 16, 17 }
    BY <2>2, <2>4 DEF At, RowNames
  <2>8. Past("establish")' <=> Past("establish") \/ At("establish")
    BY <2>2, <2>3
  <2> HIDE DEF Place
  <2> QED
    BY <2>2, <2>5, <2>6, <2>7, <2>8
<1>2. CASE call.kind = "resume"
  <2>1. ResumePlaces(call) /\ ResumePlaces(call')
    BY <1>2, ResumeIsSomewhere
  <2>2. /\ Place(call) \in 1 .. 21
        /\ At("G1_PRIME") <=> Place(call) = 13
        /\ At("establish") <=> Place(call) = 12
        /\ Past("G1_PRIME") <=> Place(call) > 13
        /\ Past("establish") <=> Place(call) > 12
    BY <2>1 DEF ResumePlaces, Reaches, At, Past, PastIn, WalkingIn, Place
  <2>3. /\ Place(call') \in 1 .. 21
        /\ Past("G1_PRIME")' <=> Place(call') > 13
        /\ Past("establish")' <=> Place(call') > 12
    BY <2>1 DEF ResumePlaces, Reaches, At, Past, PastIn, WalkingIn, Place
  <2>4. call.step \notin RowNames \ { "G1_PRIME" }
    <3>1. \A i \in 1 .. 21 : ResumeSteps[i] \notin RowNames \ { "G1_PRIME" }
      BY DEF ResumeSteps, RowNames
    <3> HIDE DEF ResumeSteps
    <3> QED
      BY <1>2, <3>1, ResumeOrder DEF WalkingIn, Steps
  <2>5. RowsRun = IF Place(call) > 13 THEN 1 ELSE 0
    BY <1>2, <2>2 DEF RowsRun
  <2>6. RowsRun' = IF Place(call') > 13 THEN 1 ELSE 0
    BY <1>2, <2>3 DEF RowsRun
  <2>7. call.step \in RowNames <=> Place(call) = 13
    BY <2>2, <2>4 DEF At, RowNames
  <2>8. Past("establish")' <=> Past("establish") \/ At("establish")
    BY <2>2, <2>3
  <2> HIDE DEF Place
  <2> QED
    BY <2>2, <2>5, <2>6, <2>7, <2>8
<1> QED
  BY <1>1, <1>2

\* The indices at which a call journals.
LEMMA IndexFits ==
  ASSUME Types, JournalFits, PreparationAssumption
  PROVE  call.index \in 0 .. MaxCalls /\ MaxCalls \in Nat /\ spent.calls \in Nat
BY DEF Types, JournalFits, PreparationAssumption

\* What becomes of the journals and of the rows run.
LEMMA JournalSteps ==
  ASSUME Types, OwnStep
  PROVE  \/ UNCHANGED journal /\ call'.ran = call.ran /\ ~ Returns /\ ~ Launches
            /\ (UNCHANGED call \/ call'.step = "over" \/ call.step \notin RowNames)
            /\ (UNCHANGED call \/ call'.step = "over" \/ ~ At("establish"))
         \/ Marks
         \/ \E row \in RowNames \ { "marker" } : RowStep(row)
         \/ Walking /\ call'.step = "over" /\ call.step \in RowNames \ { "marker" }
            /\ call'.ran = Append(call.ran, call.step)
            /\ (Recorded(call.step) \/ UNCHANGED journal)
         \/ Launches \/ Returns
<1>1. CASE Ends
  BY <1>1 DEF Ends, LastRows, Stop, RowNames, Returns, Launches, At, Types
<1>2. CASE ReadOnlyRow \/ MakesTree
  BY <1>2 DEF ReadOnlyRow, MakesTree, RowNames
<1>3. CASE Marks \/ Launches \/ Returns
  BY <1>3
<1>4. CASE ~ (Ends \/ ReadOnlyRow \/ MakesTree \/ Marks \/ Launches \/ Returns)
  BY <1>4 DEF OwnStep, Passes, PlainSteps, SeesRoot, SeesDotGit, SeesCommondir,
     SeesMatch, SeesTree, ReadsSeal, Anchors, Stages, Publishes, Steady, Onward, Step,
     RowNames, At
<1> QED
  BY <1>1, <1>2, <1>3, <1>4

\* The row a call is at, and its journal.
LEMMA AtARow ==
  ASSUME Types, Walking, RowsFit, call.step \in RowNames
  PROVE  journal[call.index] # << >>
<1>1. WalkingIn(call) /\ call.kind \in { "dispatch", "resume" }
  BY DEF Types, Walking, WalkingIn
<1>2. Past("establish")
  BY <1>1, RowsOfPlaces
<1> QED
  BY <1>2 DEF RowsFit

\* JournalFits.
LEMMA JournalFitsNext ==
  ASSUME Types, Beginnings, JournalFits, RowsFit, Next, PreparationAssumption
  PROVE  JournalFits'
<1>1. /\ call.index \in 0 .. MaxCalls /\ MaxCalls \in Nat
      /\ spent.calls \in Nat /\ spent'.calls \in Nat
      /\ runs \in Nat /\ runs <= spent.calls
      /\ call.kind \in { "dispatch", "resume" }
  BY IndexFits, ChangesGrow DEF JournalFits, Types
<1>2. CASE OwnStep
  <2>1. /\ DOMAIN journal' = 0 .. MaxCalls
        /\ \A k \in 0 .. MaxCalls : JournalOpens(journal'[k])
    <3>1. CASE UNCHANGED journal
      BY <3>1 DEF JournalFits
    <3>2. CASE Marks
      <4>1. Recorded("marker") /\ "marker" \in RowNames
        BY <3>2 DEF Marks, RowNames
      <4> QED
        BY <1>1, <4>1, RecordedFits
    <3>3. CASE \E row \in RowNames \ { "marker" } : RowStep(row)
      <4>1. PICK row \in RowNames \ { "marker" } : RowStep(row)
        BY <3>3
      <4>2. Recorded(row) /\ call.step = row /\ Walking
        BY <4>1 DEF RowStep, Step, At
      <4>3. journal[call.index] # << >>
        BY <4>1, <4>2, AtARow
      <4> QED
        BY <1>1, <4>1, <4>2, <4>3, RecordedFits
    <3>4. CASE /\ Walking /\ call.step \in RowNames \ { "marker" }
               /\ Recorded(call.step)
      <4>1. journal[call.index] # << >>
        BY <3>4, AtARow
      <4> QED
        BY <1>1, <3>4, <4>1, RecordedFits
    <3>5. UNCHANGED journal \/ ~ (Launches \/ Returns)
      BY DEF Launches, Returns
    <3> QED
      BY <1>2, <3>1, <3>2, <3>3, <3>4, <3>5, JournalSteps
  <2>2. /\ call'.kind = call.kind /\ call'.index = call.index /\ spent'.calls = spent.calls
    BY <1>2, CallMoves DEF OwnStep, Passes, SeesRoot, SeesDotGit, SeesCommondir,
       SeesMatch, SeesTree, ReadsSeal, Anchors, Marks, ReadOnlyRow, MakesTree, Stages,
       Publishes, Ends, Launches, Returns, Steady, Spends
  <2>3. runs' \in Nat /\ runs' <= spent'.calls
    <3>1. CASE UNCHANGED runs
      BY <1>1, <2>2, <3>1
    <3>2. CASE Returns
      <4>1. call.step = "running" /\ spent.calls # 0
        BY <3>2 DEF Returns, At, Beginnings
      <4>2. call.kind = "resume" => call.index <= spent.calls
        BY DEF JournalFits
      <4> QED
        BY <1>1, <2>2, <3>2, <4>1, <4>2 DEF Returns
    <3> QED
      BY <1>2, <3>1, <3>2 DEF OwnStep, Passes, SeesRoot, SeesDotGit, SeesCommondir,
         SeesMatch, SeesTree, ReadsSeal, Anchors, Marks, ReadOnlyRow, MakesTree, Stages,
         Publishes, Ends, Launches, Steady
  <2> QED
    BY <2>1, <2>2, <2>3 DEF JournalFits
<1>3. CASE BeginDispatch
  <2>1. /\ UNCHANGED << journal, runs >> /\ spent'.calls = 1 /\ spent.calls = 0
    BY <1>1, <1>3 DEF BeginDispatch, Types, disk
  <2>2. call'.index = 0 /\ call'.kind = "dispatch"
    BY <1>3 DEF BeginDispatch, NoCall
  <2> QED
    BY <1>1, <2>1, <2>2 DEF JournalFits
<1>4. CASE BeginResume
  <2>1. /\ UNCHANGED << journal, runs >> /\ spent'.calls = spent.calls + 1
        /\ spent.calls < MaxCalls
    BY <1>1, <1>4 DEF BeginResume, Types, disk
  <2>2. call'.index = runs + 1 /\ call'.kind = "resume"
    BY <1>4 DEF BeginResume, NoCall
  <2>3. runs + 1 \in Nat /\ runs + 1 <= spent'.calls /\ spent'.calls <= MaxCalls
        /\ runs <= spent'.calls
    BY <1>1, <2>1
  <2> QED
    BY <1>1, <2>1, <2>2, <2>3 DEF JournalFits
<1>5. CASE Others
  BY <1>5, OthersFacts DEF JournalFits
<1> QED
  BY <1>2, <1>3, <1>4, <1>5, StepCases

\* The rows that were run, and the one after them.
LEMMA OneRowMore ==
  ASSUME NEW kind, NEW ran \in Seq(RowNames), NEW n \in Nat, Len(ran) = n,
         \A i \in 1 .. Len(ran) : ran[i] = Row(kind)[i],
         n + 1 \in 1 .. Len(Row(kind)), NEW row \in RowNames, Row(kind)[n + 1] = row
  PROVE  /\ Append(ran, row) \in Seq(RowNames)
         /\ Len(Append(ran, row)) = n + 1
         /\ \A i \in 1 .. n + 1 : Append(ran, row)[i] = Row(kind)[i]
         /\ Append(ran, row) # << >>
         /\ Front(Append(ran, row)) = ran
<1>1. /\ Append(ran, row) \in Seq(RowNames) /\ Len(Append(ran, row)) = n + 1
      /\ \A i \in 1 .. n : Append(ran, row)[i] = ran[i]
      /\ Append(ran, row)[n + 1] = row /\ Append(ran, row) # << >>
  BY AppendProperties
<1>2. Front(Append(ran, row)) = ran
  <2> DEFINE more == Append(ran, row)
             front == SubSeq(more, 1, n)
  <2>1. Front(more) = front
    BY <1>1 DEF Front
  <2>2. /\ front \in Seq(RowNames) /\ Len(front) = n
        /\ \A i \in 1 .. n : front[i] = more[i]
    <3>1. \A i \in 1 .. n : more[i] \in RowNames
      BY <1>1
    <3> HIDE DEF more
    <3> QED
      BY <3>1, SubSeqProperties
  <2> HIDE DEF front
  <2>3. front = ran
    BY <1>1, <2>2, SeqEqual
  <2> QED
    BY <2>1, <2>3
<1>3. ASSUME NEW i \in 1 .. n + 1
      PROVE  Append(ran, row)[i] = Row(kind)[i]
  <2>1. CASE i = n + 1
    BY <1>1, <2>1
  <2>2. CASE i # n + 1
    <3>1. i \in 1 .. n
      BY <2>2
    <3> QED
      BY <1>1, <3>1
  <2> QED
    BY <2>1, <2>2
<1> QED
  BY <1>1, <1>2, <1>3

\* RowsFit, of a call and its journal.
Rows(c, rows, walking, past, run) ==
  /\ c.ran \in Seq(RowNames)
  /\ Len(c.ran) <= Len(Row(c.kind))
  /\ \A i \in 1 .. Len(c.ran) : c.ran[i] = Row(c.kind)[i]
  /\ walking => Len(c.ran) = run
  /\ c.step = "running" \/ (walking /\ past) => rows # << >> /\ RowsOfLastCall(rows) = c.ran
  /\ c.ran # << >> =>
       \/ RowsOfLastCall(rows) = c.ran
       \/ c.step = "over" /\ RowsOfLastCall(rows) = Front(c.ran)

\* RowsFit.
LEMMA RowsFitNext ==
  ASSUME Types, Beginnings, JournalFits, RowsFit, Next, PreparationAssumption
  PROVE  RowsFit'
<1>1. /\ call.index \in 0 .. MaxCalls /\ call.kind \in { "dispatch", "resume" }
      /\ JournalOpens(journal[call.index])
  BY IndexFits DEF Types, JournalFits
<1>2. Rows(call, journal[call.index], Walking, Past("establish"), RowsRun)
  BY DEF RowsFit, Rows, At
<1>3. SUFFICES Rows(call', journal'[call'.index], Walking', Past("establish")', RowsRun')
  <2> HIDE DEF RowsRun, Past, Walking
  <2> QED
    BY DEF RowsFit, Rows, At
<1>4. CASE BeginDispatch \/ BeginResume
  <2>1. /\ WalkingIn(call') /\ call'.ran = << >> /\ Place(call') = 1
        /\ call'.kind \in { "dispatch", "resume" } /\ call'.step \in { "root", "read" }
    BY <1>4, CallBegins
  <2>2. ~ Past("establish")' /\ RowsRun' = 0
    <3>1. CASE call'.kind = "dispatch"
      <4>1. DispatchPlaces(call')
        BY <2>1, <3>1, DispatchIsSomewhere
      <4>2. /\ ~ Past("establish")' /\ ~ Past("G9")' /\ ~ Past("G8")' /\ ~ Past("G4")'
            /\ ~ Past("G3")' /\ ~ Past("G2")' /\ ~ Past("G1")'
        BY <2>1, <4>1 DEF DispatchPlaces, Reaches, Past, PastIn, WalkingIn, Place
      <4> QED
        BY <3>1, <4>2 DEF RowsRun
    <3>2. CASE call'.kind = "resume"
      <4>1. ResumePlaces(call')
        BY <2>1, <3>2, ResumeIsSomewhere
      <4>2. ~ Past("establish")' /\ ~ Past("G1_PRIME")'
        BY <2>1, <4>1 DEF ResumePlaces, Reaches, Past, PastIn, WalkingIn, Place
      <4> QED
        BY <3>2, <4>2 DEF RowsRun
    <3> QED
      BY <2>1, <3>1, <3>2
  <2>3. Len(Row(call'.kind)) \in Nat
    BY DEF Row, DispatchRows, ResumeRows
  <2>4. << >> \in Seq(RowNames) /\ Len(<< >>) = 0
    BY EmptySeq
  <2> HIDE DEF RowsRun, Past, Walking, Row
  <2> QED
    BY <2>1, <2>2, <2>3, <2>4 DEF Rows
<1>5. CASE Others
  <2>1. UNCHANGED << call, journal >>
    BY <1>5, OthersFacts
  <2>2. UNCHANGED << Walking, Past("establish"), RowsRun >>
    BY <2>1 DEF Walking, Past, RowsRun
  <2> HIDE DEF RowsRun, Past, Walking
  <2> QED
    BY <1>2, <2>1, <2>2
<1>6. CASE OwnStep
  <2>1. /\ call'.kind = call.kind /\ call'.index = call.index
        /\ \/ Walking /\ WalkingIn(call') /\ Place(call') = Place(call) + 1
           \/ UNCHANGED call
           \/ call'.step = "over" /\ (Walking \/ At("running"))
           \/ At("launch") /\ call'.step = "running"
    BY <1>6, CallMoves
  <2>2. Walking' <=> WalkingIn(call')
    BY DEF Walking, WalkingIn
  <2>3. Walking <=> WalkingIn(call)
    BY DEF Walking, WalkingIn
  <2>4. Walking' => call'.step \notin { "idle", "over", "running" }
    BY <1>1, <2>1, <2>2, WalkersAreOn
  <2>5. Walking => call.step \notin { "idle", "over", "running" }
    BY <1>1, <2>3, WalkersAreOn
  <2>6. Walking => /\ RowsRun \in 0 .. 6
                   /\ call.step \in RowNames =>
                        /\ RowsRun + 1 \in 1 .. Len(Row(call.kind))
                        /\ Row(call.kind)[RowsRun + 1] = call.step
                        /\ Past("establish") /\ call.step # "marker"
                   /\ At("establish") => RowsRun = 0
                   /\ ~ Past("establish") => RowsRun = 0
    BY <1>1, <2>3, RowsOfPlaces
  <2>7. Walking /\ WalkingIn(call') /\ Place(call') = Place(call) + 1 =>
          /\ RowsRun' = IF call.step \in RowNames THEN RowsRun + 1 ELSE RowsRun
          /\ Past("establish")' <=> Past("establish") \/ At("establish")
    BY <1>1, <2>1, <2>3, RowsRunNext
  <2>8. Len(Row(call.kind)) \in Nat
    BY DEF Row, DispatchRows, ResumeRows
  <2>15. At("launch") /\ call'.step = "running" => Launches
    <3>1. SUFFICES ASSUME At("launch"), call'.step = "running"
                   PROVE  Launches
      OBVIOUS
    <3>2. ~ WalkingIn(call') /\ ~ UNCHANGED call
      BY <2>2, <2>4, <3>1 DEF At
    <3>3. ~ Ends /\ ~ Returns
      BY <3>1 DEF Ends, Returns, LastRows, Stop
    <3> QED
      BY <1>6, <3>1, <3>2, <3>3 DEF OwnStep, Passes, SeesRoot, SeesDotGit, SeesCommondir,
         SeesMatch, SeesTree, ReadsSeal, Anchors, Marks, ReadOnlyRow, MakesTree, Stages,
         Publishes, RowStep, Onward, Step
  <2> HIDE DEF RowsRun, Past, Walking, Place, WalkingIn, Row, RowNames
  <2>9. CASE /\ UNCHANGED journal /\ call'.ran = call.ran /\ ~ Returns /\ ~ Launches
             /\ (UNCHANGED call \/ call'.step = "over" \/ call.step \notin RowNames)
             /\ (UNCHANGED call \/ call'.step = "over" \/ ~ At("establish"))
    <3>1. CASE UNCHANGED call
      <4>1. UNCHANGED << Walking, Past("establish"), RowsRun >>
        BY <3>1 DEF Walking, Past, RowsRun
      <4> QED
        BY <1>2, <2>9, <3>1, <4>1
    <3>2. CASE ~ UNCHANGED call /\ call'.step = "over"
      <4>1. call.step = "running" \/ (Walking /\ Past("establish"))
              => RowsOfLastCall(journal[call.index]) = call.ran
        BY <1>2 DEF Rows
      <4>2. Walking /\ ~ Past("establish") => call.ran = << >>
        BY <1>2, <2>6 DEF Rows
      <4>3. Walking \/ call.step = "running"
        BY <2>1, <3>2 DEF At
      <4>4. ~ Walking'
        BY <2>4, <3>2
      <4> QED
        BY <1>2, <2>1, <2>9, <3>2, <4>1, <4>2, <4>3, <4>4 DEF Rows
    <3>3. CASE ~ UNCHANGED call /\ call'.step # "over"
      <4>1. Walking /\ WalkingIn(call') /\ Place(call') = Place(call) + 1
        BY <2>1, <2>9, <2>15, <3>3
      <4>2. RowsRun' = RowsRun /\ (Past("establish")' <=> Past("establish"))
        BY <2>7, <2>9, <3>3, <4>1
      <4>3. Walking' /\ call'.step # "running"
        BY <2>2, <2>4, <4>1
      <4> QED
        BY <1>2, <2>1, <2>9, <3>3, <4>1, <4>2, <4>3, <2>5 DEF Rows
    <3> QED
      BY <3>1, <3>2, <3>3
  <2>10. CASE Marks
    <3>1. /\ Walking /\ WalkingIn(call') /\ Place(call') = Place(call) + 1
          /\ At("establish") /\ call'.ran = call.ran /\ Recorded("marker")
      BY <2>10 DEF Marks, Onward, Step
    <3>2. "marker" \in RowNames /\ "establish" \notin RowNames
      BY DEF RowNames
    <3>3. /\ journal'[call.index] # << >>
          /\ RowsOfLastCall(journal'[call.index]) = << >>
      BY <1>1, <3>1, <3>2, RecordedFits
    <3>4. call.ran = << >>
      <4>1. Len(call.ran) = 0 /\ call.ran \in Seq(RowNames)
        BY <1>2, <2>6, <3>1 DEF Rows
      <4> QED
        BY <4>1
    <3>5. RowsRun' = 0
      BY <2>6, <2>7, <3>1, <3>2 DEF At
    <3>6. call'.step # "over" /\ Len(call'.ran) = 0
      BY <2>2, <2>4, <3>1, <3>4
    <3> QED
      BY <1>2, <2>1, <3>1, <3>3, <3>4, <3>5, <3>6 DEF Rows
  <2>11. CASE \E row \in RowNames \ { "marker" } : RowStep(row)
    <3>1. PICK row \in RowNames \ { "marker" } : RowStep(row)
      BY <2>11
    <3>2. /\ Walking /\ WalkingIn(call') /\ Place(call') = Place(call) + 1
          /\ call.step = row /\ call'.ran = Append(call.ran, row) /\ Recorded(row)
      BY <3>1 DEF RowStep, Step, At
    <3>3. journal[call.index] # << >>
      BY <3>1, <3>2, AtARow
    <3>4. /\ journal'[call.index] # << >>
          /\ RowsOfLastCall(journal'[call.index])
               = Append(RowsOfLastCall(journal[call.index]), row)
      BY <1>1, <3>1, <3>2, <3>3, RecordedFits
    <3>5. /\ RowsRun \in Nat /\ RowsRun + 1 \in 1 .. Len(Row(call.kind))
          /\ Row(call.kind)[RowsRun + 1] = row /\ Past("establish")
          /\ RowsRun' = RowsRun + 1
      BY <2>6, <2>7, <3>1, <3>2
    <3>6. /\ call.ran \in Seq(RowNames) /\ Len(call.ran) = RowsRun
          /\ \A i \in 1 .. Len(call.ran) : call.ran[i] = Row(call.kind)[i]
          /\ RowsOfLastCall(journal[call.index]) = call.ran
      BY <1>2, <3>2, <3>5 DEF Rows
    <3>7. /\ Append(call.ran, row) \in Seq(RowNames)
          /\ Len(Append(call.ran, row)) = RowsRun + 1
          /\ \A i \in 1 .. RowsRun + 1 : Append(call.ran, row)[i] = Row(call.kind)[i]
      BY <3>1, <3>5, <3>6, OneRowMore
    <3>8. RowsRun + 1 <= Len(Row(call.kind))
      BY <2>8, <3>5
    <3> QED
      BY <2>1, <3>2, <3>4, <3>5, <3>6, <3>7, <3>8 DEF Rows
  <2>12. CASE /\ Walking /\ call'.step = "over" /\ call.step \in RowNames \ { "marker" }
              /\ call'.ran = Append(call.ran, call.step)
              /\ (Recorded(call.step) \/ UNCHANGED journal)
    <3>1. PICK row \in RowNames \ { "marker" } : row = call.step
      BY <2>12
    <3>2. journal[call.index] # << >>
      BY <2>12, AtARow
    <3>3. Recorded(row) => RowsOfLastCall(journal'[call.index])
                             = Append(RowsOfLastCall(journal[call.index]), row)
      BY <1>1, <3>1, <3>2, RecordedFits
    <3>5. /\ RowsRun \in Nat /\ RowsRun + 1 \in 1 .. Len(Row(call.kind))
          /\ Row(call.kind)[RowsRun + 1] = row /\ Past("establish")
      BY <2>6, <2>12, <3>1
    <3>6. /\ call.ran \in Seq(RowNames) /\ Len(call.ran) = RowsRun
          /\ \A i \in 1 .. Len(call.ran) : call.ran[i] = Row(call.kind)[i]
          /\ RowsOfLastCall(journal[call.index]) = call.ran
      BY <1>2, <2>12, <3>5 DEF Rows
    <3>7. /\ Append(call.ran, row) \in Seq(RowNames)
          /\ Len(Append(call.ran, row)) = RowsRun + 1
          /\ \A i \in 1 .. RowsRun + 1 : Append(call.ran, row)[i] = Row(call.kind)[i]
          /\ Front(Append(call.ran, row)) = call.ran
      BY <3>1, <3>5, <3>6, OneRowMore
    <3>8. RowsRun + 1 <= Len(Row(call.kind))
      BY <2>8, <3>5
    <3>9. ~ Walking' /\ call'.step # "running"
      BY <2>4, <2>12
    <3> QED
      BY <2>1, <2>12, <3>1, <3>3, <3>6, <3>7, <3>8, <3>9 DEF Rows
  <2>13. CASE Launches
    <3>1. call'.step = "running" /\ call'.ran = call.ran /\ UNCHANGED journal /\ Walking
      <4>1. call'.step = "running" /\ call'.ran = call.ran /\ UNCHANGED journal
        BY <2>13 DEF Launches, Types, CallFields, NoCall
      <4>2. Walking
        BY <2>13, AtWalks DEF Launches, At
      <4> QED
        BY <4>1, <4>2
    <3>2. Past("establish")
      <4>1. At("launch") /\ WalkingIn(call)
        BY <2>3, <2>13, <3>1 DEF Launches
      <4>2. call.kind = "dispatch" => DispatchPlaces(call)
        BY <4>1, DispatchIsSomewhere
      <4>3. call.kind = "resume" => ResumePlaces(call)
        BY <4>1, ResumeIsSomewhere
      <4> QED
        BY <1>1, <4>1, <4>2, <4>3
           DEF DispatchPlaces, ResumePlaces, Reaches, Past, PastIn, WalkingIn, Place, At
    <3>3. ~ Walking'
      BY <2>4, <3>1
    <3> QED
      BY <1>2, <2>1, <3>1, <3>2, <3>3 DEF Rows
  <2>14. CASE Returns
    <3>1. call'.step = "over" /\ call'.ran = call.ran /\ UNCHANGED journal
          /\ call.step = "running"
      BY <2>14 DEF Returns, Stop, At
    <3>2. ~ Walking'
      BY <2>4, <3>1
    <3> QED
      BY <1>2, <2>1, <3>1, <3>2 DEF Rows
  <2> QED
    BY <1>6, <2>9, <2>10, <2>11, <2>12, <2>13, <2>14, JournalSteps
<1> QED
  BY <1>4, <1>5, <1>6, StepCases
-----------------------------------------------------------------------------
(* The invariant, and what it shows *)

\* It holds at first.
LEMMA InitFits ==
  ASSUME PreparationAssumption, Init
  PROVE  IInv
<1>1. /\ call = NoCall /\ call.step = "idle" /\ call.kind = "dispatch"
      /\ call.ran = << >> /\ call.index = 0
  BY DEF Init, NoCall
<1>2. ~ Walking
  BY <1>1, WalkersAreOn DEF Walking, WalkingIn
<1>3. Types
  <2>1. Old(FirstLayout)
    BY DEF Init, Old, OldAt, FirstLayout, Layout
  <2>2. /\ call.seen = FirstLayout /\ call.authority = None
        /\ live.layout = FirstLayout /\ layouts = { FirstLayout }
        /\ DOMAIN live = { "layout", "exact", "loose", "head", "tree" }
    BY DEF Init, NoCall
  <2>3. /\ worktree = NoWorktree /\ worktree.link = 0 /\ worktree.common = 0
        /\ spent = [changes |-> 0, faults |-> 0, calls |-> 0]
    BY DEF Init, NoWorktree
  <2> QED
    BY <1>1, <2>1, <2>2, <2>3 DEF Types, CallFields
<1>4. sealed = << >> /\ launched = << >> /\ staging = NoFiles /\ spent.calls = 0
  BY DEF Init, NoFiles
<1>5. ~ HasSeal
  BY <1>4 DEF HasSeal
<1>6. Beginnings /\ SealFits
  BY <1>1, <1>2, <1>4, <1>5 DEF Beginnings, SealFits
<1>7. FirstCapture /\ SecondCapture /\ ReadFits /\ StagingFits /\ TreesAgree
  BY <1>2 DEF FirstCapture, SecondCapture, ReadFits, StagingFits, TreesAgree
<1>8. LaunchesFit
  BY <1>4 DEF LaunchesFit
<1>9. JournalFits
  <2>1. << >> \in Seq(RowNames) /\ Len(<< >>) = 0
    BY EmptySeq
  <2>2. JournalOpens(<< >>)
    BY <2>1 DEF JournalOpens, LastMarker, MarkersOf
  <2>3. DOMAIN journal = 0 .. MaxCalls /\ \A k \in 0 .. MaxCalls : journal[k] = << >>
    BY DEF Init
  <2>4. runs = 0
    BY DEF Init
  <2> QED
    BY <1>1, <1>4, <2>2, <2>3, <2>4 DEF JournalFits
<1>10. RowsFit
  <2>1. << >> \in Seq(RowNames) /\ Len(<< >>) = 0
    BY EmptySeq
  <2>2. Len(Row(call.kind)) \in Nat
    BY DEF Row, DispatchRows, ResumeRows
  <2> HIDE DEF Row
  <2> QED
    BY <1>1, <1>2, <2>1, <2>2 DEF RowsFit
<1> QED
  BY <1>3, <1>6, <1>7, <1>8, <1>9, <1>10 DEF IInv

\* Every step keeps it.
LEMMA NextFits ==
  ASSUME PreparationAssumption, IInv, Next
  PROVE  IInv'
BY TypesNext, BeginningsNext, SealFitsNext, FirstCaptureNext, SecondCaptureNext, ReadFitsNext,
   StagingFitsNext, TreesAgreeNext, LaunchesFitNext, JournalFitsNext, RowsFitNext DEF IInv

\* So does a step of which it knows nothing.
LEMMA StutterFits ==
  ASSUME IInv, UNCHANGED vars
  PROVE  IInv'
<1>1. UNCHANGED << live, worktree, staging, sealed, runs, journal, call, spent, layouts,
                   launched >>
  BY DEF vars, disk
<1>2. Types' /\ Beginnings' /\ SealFits'
  BY <1>1 DEF IInv, Types, Beginnings, SealFits, Walking, Past, HasSeal, SealedAuthority,
     SealedAnchor, Old
<1>3. FirstCapture' /\ SecondCapture'
  BY <1>1 DEF IInv, FirstCapture, SecondCapture, Reference, HasSeal, SealedAuthority, Walking,
     Past, Old
<1>4. ReadFits' /\ StagingFits' /\ TreesAgree'
  BY <1>1 DEF IInv, ReadFits, StagingFits, TreesAgree, Doomed, HasSeal, SealedAuthority,
     SealedAnchor, Walking, Past, At, Old
<1>5. LaunchesFit' /\ JournalFits'
  BY <1>1 DEF IInv, LaunchesFit, JournalFits, SealedAuthority, SealedAnchor
<1>6. RowsFit'
  BY <1>1 DEF IInv, RowsFit, RowsRun, Walking, Past, At
<1> QED
  BY <1>2, <1>3, <1>4, <1>5, <1>6 DEF IInv

\* The inductive invariant of a call, of what it is measured against and of what it leaves:
\* its parts are named above.
THEOREM PreparationInvariant == Spec => []IInv
<1>1. Init => IInv
  BY InitFits, PreparationAssumption
<1>2. IInv /\ [Next]_vars => IInv'
  BY NextFits, StutterFits, PreparationAssumption
<1> QED
  BY <1>1, <1>2, PTL DEF Spec

\* capture_repository_authority: whatever else uses the repository, and however a first capture
\* was torn, no worker is started on an authority that the repository never had as a whole.
THEOREM AuthoritiesWereReal == Spec => []AuthorityWasReal
<1>1. IInv => AuthorityWasReal
  BY DEF IInv, LaunchesFit, AuthorityWasReal
<1> QED
  BY <1>1, PreparationInvariant, PTL

\* prepare_resume: whatever became of the seal and of the worktree between two calls, a worker
\* that is started at all is started on the repository and the worktree of the first one.
THEOREM AllRunsAgree == Spec => []RunsAgree
<1>1. IInv => RunsAgree
  BY DEF IInv, LaunchesFit, RunsAgree
<1> QED
  BY <1>1, PreparationInvariant, PTL

\* DispatcherSetupTouchedPrimaryTree: no worker starts after a setup that the primary tree
\* shows, so none is measured against a tree its dispatcher changed.
THEOREM SetupIsNeverCharged == Spec => []SetupIsNotCharged
<1>1. IInv => SetupIsNotCharged
  BY DEF IInv, LaunchesFit, SetupIsNotCharged
<1> QED
  BY <1>1, PreparationInvariant, PTL

\* The declared order names each row once, so that a row's rank is its place.
LEMMA RanksArePlaces ==
  ASSUME NEW kind, NEW i \in 1 .. Len(Row(kind))
  PROVE  Rank(kind, Row(kind)[i]) = i
<1>1. DOMAIN Row(kind) = 1 .. Len(Row(kind))
      /\ \A a, b \in 1 .. Len(Row(kind)) : Row(kind)[a] = Row(kind)[b] => a = b
  <2>1. CASE kind = "dispatch"
    <3>1. Row(kind) = DispatchRows
      BY <2>1 DEF Row
    <3>2. DOMAIN DispatchRows = 1 .. 6 /\ Len(DispatchRows) = 6
      BY DEF DispatchRows
    <3>3. /\ DispatchRows[1] = "G1" /\ DispatchRows[2] = "G2" /\ DispatchRows[3] = "G3"
          /\ DispatchRows[4] = "G4" /\ DispatchRows[5] = "G8" /\ DispatchRows[6] = "G9"
      BY DEF DispatchRows
    <3>4. \A a, b \in 1 .. 6 : DispatchRows[a] = DispatchRows[b] => a = b
      BY <3>3
    <3> QED
      BY <3>1, <3>2, <3>4
  <2>2. CASE kind # "dispatch"
    <3>1. Row(kind) = << "G1_PRIME" >>
      BY <2>2 DEF Row, ResumeRows
    <3>2. DOMAIN Row(kind) = 1 .. 1 /\ Len(Row(kind)) = 1
      BY <3>1
    <3> QED
      BY <3>2
  <2> QED
    BY <2>1, <2>2
<1> HIDE DEF Row
<1>2. Rank(kind, Row(kind)[i]) = CHOOSE j \in 1 .. Len(Row(kind)) : Row(kind)[j] = Row(kind)[i]
  BY <1>1 DEF Rank
<1> QED
  BY <1>1, <1>2

\* execute_declared_git: across calls, deaths and journals that several calls share, no command
\* runs but after its own call's marker, in declared order; and each leaves its row, save the
\* last one of a call that it ended.
THEOREM EveryCommandIsAccounted == Spec => []GitIsAccounted
<1>1. ASSUME IInv
      PROVE  GitIsAccounted
  <2>1. \A k \in DOMAIN journal : journal[k] # << >> => journal[k][1] = "marker"
    BY <1>1 DEF IInv, JournalFits, JournalOpens
  <2>2. /\ call.ran \in Seq(RowNames) /\ Len(call.ran) <= Len(Row(call.kind))
        /\ \A i \in 1 .. Len(call.ran) : call.ran[i] = Row(call.kind)[i]
        /\ call.ran # << >> =>
             \/ RowsOfLastCall(journal[call.index]) = call.ran
             \/ At("over") /\ RowsOfLastCall(journal[call.index]) = Front(call.ran)
    BY <1>1 DEF IInv, RowsFit
  <2>3. Len(Row(call.kind)) \in Nat
    BY DEF Row, DispatchRows, ResumeRows
  <2>4. ASSUME NEW i \in DOMAIN call.ran
        PROVE  i \in Nat /\ Rank(call.kind, call.ran[i]) = i
    <3>1. i \in 1 .. Len(call.ran) /\ i \in 1 .. Len(Row(call.kind)) /\ i \in Nat
      <4> HIDE DEF Row
      <4> QED
        BY <2>2, <2>3
    <3>2. Rank(call.kind, Row(call.kind)[i]) = i
      BY <3>1, RanksArePlaces
    <3> QED
      BY <2>2, <3>1, <3>2
  <2> QED
    BY <2>1, <2>2, <2>4 DEF GitIsAccounted
<1> QED
  BY <1>1, PreparationInvariant, PTL
=============================================================================
