--------------------------- MODULE AdminBaseline ---------------------------
(***************************************************************************)
(* The operator baseline of a repository's administration                  *)
(* (evidence/gitadmin.py, scripts/trust-repo-admin.py): one file, published *)
(* by operators' calls of write_baseline, loaded by every preparation, in  *)
(* a directory others may touch.  No lock guards it; each call is a series *)
(* of system calls that every other call interleaves with.                 *)
(*                                                                         *)
(* A file is an inode: its kind, its bytes in two parts, so that a read    *)
(* can be torn, and the two times a stat compares.  Sizes go with mtime.   *)
(***************************************************************************)
EXTENDS Naturals

CONSTANTS
  Writer,       \* calls of trust-repo-admin, each after its preview
  Reader,       \* calls of load_baseline
  Starts,       \* how the directory may lie at the start
  MaxMeddling,  \* bound: what anyone else does to the name
  None

ASSUME BaselineAssumption ==
  /\ Starts \subseteq { "nothing", "link", "baseline" }
  /\ MaxMeddling \in Nat
  /\ Writer \cap { "baseline", "first", "meddler", None } = {}
  /\ None \notin { "first", "meddler" }

VARIABLES
  keydir,   \* repos/<key>: what lies at its place
  entry,    \* the directory: the published name and one temporary a writer
  inode,    \* the files that were ever created
  writer, reader,
  meddling  \* what others did so far

vars == << keydir, entry, inode, writer, reader, meddling >>

Name == { "baseline" } \cup Writer

\* Inodes, named for whose they are: the first baseline's, two a writer (its
\* create may turn into a replace), one for each meddling.  None is used twice.
FirstFile == << "first", 0 >>

Ino == { FirstFile } \cup (Writer \X (1 .. 2)) \cup ({ "meddler" } \X (1 .. MaxMeddling))

\* What os.stat keeps of an entry.
Info == [ino : Ino, kind : { "regular", "other" }, mtime : Nat, ctime : Nat]

ASSUME NoneIsNothingElse == None \notin Ino /\ None \notin Info

Version == Writer \cup { "first", "meddler", None }

File == [kind : { "regular", "other" }, part : [1 .. 2 -> Version],
         mtime : Nat, ctime : Nat]

Whole(version) == [i \in 1 .. 2 |-> version]

Regular(version) ==
  [kind |-> "regular", part |-> Whole(version), mtime |-> 0, ctime |-> 0]

Unborn == [kind |-> "other", part |-> Whole(None), mtime |-> 0, ctime |-> 0]

\* os.stat, or ENOENT.
Stat(name) ==
  IF entry[name] = None THEN None
  ELSE LET i == entry[name] IN
       [ino |-> i, kind |-> inode[i].kind, mtime |-> inode[i].mtime, ctime |-> inode[i].ctime]

Missing(info) == info = None

IsRegular(info) == ~Missing(info) /\ info.kind = "regular"

SameEntry(before, after) == before.ino = after.ino /\ before.kind = after.kind

SameRegular_IdentityOnly(before, after, acrossRename) ==
  IsRegular(before) /\ IsRegular(after) /\ before.ino = after.ino

\* _same_regular_file: a rename moves ctime and leaves mtime alone.
SameRegular(before, after, acrossRename) ==
  /\ IsRegular(before) /\ IsRegular(after)
  /\ before.ino = after.ino
  /\ before.mtime = after.mtime
  /\ acrossRename \/ before.ctime = after.ctime

Touched(i) == [inode EXCEPT ![i].ctime = @ + 1]

-----------------------------------------------------------------------------
(* Init *)

NewWriter(replace) == [at |-> "open", replace |-> replace, saw |-> None, published |-> None, displaced |-> None,
                       restored |-> FALSE]

NewReader == [at |-> "open", saw |-> None, ino |-> None, got |-> Whole(None)]

Init ==
  /\ \E start \in Starts :
       /\ keydir = IF start = "nothing" THEN "absent" ELSE IF start = "link" THEN "link" ELSE "real"
       /\ entry = [n \in Name |-> IF start = "baseline" /\ n = "baseline" THEN FirstFile ELSE None]
       /\ inode = [i \in Ino |-> IF start = "baseline" /\ i = FirstFile THEN Regular("first") ELSE Unborn]
  /\ \E replace \in [Writer -> BOOLEAN] : writer = [w \in Writer |-> NewWriter(replace[w])]
  /\ reader = [r \in Reader |-> NewReader]
  /\ meddling = 0

-----------------------------------------------------------------------------
(* write_baseline *)

At(w, place) == writer[w].at = place

Go(w, place) == writer' = [writer EXCEPT ![w].at = place]

OpenDirectories(w) ==
  /\ At(w, "open")
  /\ IF keydir = "link"
     THEN Go(w, "failed") /\ UNCHANGED keydir
     ELSE Go(w, "classify") /\ keydir' = "real"
  /\ UNCHANGED << entry, inode, reader, meddling >>

\* A writer replaces a regular file if it was told to (--replace), and
\* refuses everything else.
Refuses(w, info) == ~IsRegular(info) \/ ~writer[w].replace

Judge(w, info, ifMissing) ==
  writer' = [writer EXCEPT ![w].at =
               IF Missing(info) THEN ifMissing
               ELSE IF Refuses(w, info) THEN "failed" ELSE "fill_replace",
             ![w].saw = info]

Classify(w) ==
  /\ At(w, "classify")
  /\ Judge(w, Stat("baseline"), "fill_create")
  /\ UNCHANGED << keydir, entry, inode, reader, meddling >>

\* A create that met an entry after all looks again.
ClassifyAgain(w) ==
  /\ At(w, "classify_again")
  /\ Judge(w, Stat("baseline"), "failed")
  /\ UNCHANGED << keydir, entry, inode, reader, meddling >>

Filled_Short(w) == [Regular(w) EXCEPT !.part[2] = None]

\* _write_temp writes until nothing is left.
Filled(w) == Regular(w)

Temporary(w) == << w, IF At(w, "fill_create") THEN 1 ELSE 2 >>

WriteTemp(w) ==
  /\ writer[w].at \in { "fill_create", "fill_replace" }
  /\ entry' = [entry EXCEPT ![w] = Temporary(w)]
  /\ inode' = [inode EXCEPT ![Temporary(w)] = Filled(w)]
  /\ Go(w, IF At(w, "fill_create") THEN "link" ELSE "recheck")
  /\ UNCHANGED << keydir, reader, meddling >>

\* An OSError while it writes: the temporary goes, nothing is published.
WriteTempFails(w) ==
  /\ writer[w].at \in { "fill_create", "fill_replace" }
  /\ Go(w, "failed")
  /\ UNCHANGED << keydir, entry, inode, reader, meddling >>

LinkTemp_Rename(w) ==
  /\ At(w, "link")
  /\ entry' = [entry EXCEPT !["baseline"] = entry[w]]
  /\ inode' = Touched(entry[w])
  /\ Go(w, "unlink")
  /\ UNCHANGED << keydir, reader, meddling >>

\* link() never replaces an entry.
LinkTemp(w) ==
  /\ At(w, "link")
  /\ IF entry["baseline"] = None
     THEN /\ entry' = [entry EXCEPT !["baseline"] = entry[w]]
          /\ inode' = Touched(entry[w])
          /\ Go(w, "unlink")
     ELSE /\ entry' = [entry EXCEPT ![w] = None]
          /\ Go(w, "classify_again")
          /\ UNCHANGED inode
  /\ UNCHANGED << keydir, reader, meddling >>

UnlinkTemp(w) ==
  /\ At(w, "unlink")
  /\ entry' = [entry EXCEPT ![w] = None]
  /\ inode' = Touched(entry[w])
  /\ Go(w, "ok")
  /\ UNCHANGED << keydir, reader, meddling >>

-----------------------------------------------------------------------------
(* _publish_replace *)

\* A failure that keeps the temporary, and one that unlinks it.
Fails(w, keeps, restored) ==
  /\ writer' = [writer EXCEPT ![w].at = "failed", ![w].restored = restored]
  /\ entry' = IF keeps THEN entry ELSE [entry EXCEPT ![w] = None]

Recheck(w) ==
  /\ At(w, "recheck")
  /\ IF SameRegular(writer[w].saw, Stat("baseline"), FALSE)
     THEN /\ writer' = [writer EXCEPT ![w].at = "exchange", ![w].published = Stat(w)]
          /\ UNCHANGED entry
     ELSE Fails(w, FALSE, FALSE)
  /\ UNCHANGED << keydir, inode, reader, meddling >>

\* renameat2(RENAME_EXCHANGE): both entries must be there.
CanSwap(w) == entry["baseline"] # None /\ entry[w] # None

Swap(w) ==
  /\ entry' = [entry EXCEPT !["baseline"] = entry[w], ![w] = entry["baseline"]]
  /\ inode' = [i \in Ino |->
                 IF i \in { entry["baseline"], entry[w] }
                 THEN [inode[i] EXCEPT !.ctime = @ + 1] ELSE inode[i]]

Exchange_Rename(w) ==
  /\ At(w, "exchange")
  /\ entry' = [entry EXCEPT !["baseline"] = entry[w], ![w] = None]
  /\ inode' = Touched(entry[w])
  /\ Go(w, "final")
  /\ UNCHANGED << keydir, reader, meddling >>

Exchange(w) ==
  /\ At(w, "exchange")
  /\ IF CanSwap(w)
     THEN Swap(w) /\ Go(w, "look")
     ELSE Fails(w, FALSE, FALSE) /\ UNCHANGED inode
  /\ UNCHANGED << keydir, reader, meddling >>

\* What the exchange displaced and what it installed.  Both as they should
\* be: the old file goes.  One of them: swap back.  Neither: touch nothing.
Look(w) ==
  LET displaced == Stat(w)
      installed == Stat("baseline")
      asExpected == SameRegular(writer[w].saw, displaced, TRUE)
      asPublished == SameRegular(writer[w].published, installed, TRUE)
  IN
  /\ At(w, "look")
  /\ \/ /\ Missing(installed)
        /\ Fails(w, TRUE, FALSE)
     \/ /\ ~Missing(installed) /\ asExpected /\ asPublished
        /\ entry' = [entry EXCEPT ![w] = None]
        /\ writer' = [writer EXCEPT ![w].at = "final", ![w].displaced = displaced]
     \/ /\ ~Missing(installed) /\ asExpected # asPublished
        /\ writer' = [writer EXCEPT ![w].at = "undo", ![w].displaced = displaced]
        /\ UNCHANGED entry
     \/ /\ ~Missing(installed) /\ ~asExpected /\ ~asPublished
        /\ Fails(w, TRUE, FALSE)
  /\ UNCHANGED << keydir, inode, reader, meddling >>

Final(w) ==
  /\ At(w, "final")
  /\ Go(w, IF SameRegular(writer[w].published, Stat("baseline"), TRUE) THEN "ok" ELSE "failed")
  /\ UNCHANGED << keydir, entry, inode, reader, meddling >>

Undo(w) ==
  /\ At(w, "undo")
  /\ IF CanSwap(w)
     THEN Swap(w) /\ Go(w, "undone")
     ELSE Fails(w, TRUE, FALSE) /\ UNCHANGED inode
  /\ UNCHANGED << keydir, reader, meddling >>

\* The undo keeps the temporary only if that is what the exchange displaced.
Undone(w) ==
  LET back == Stat("baseline") IN
  /\ At(w, "undone")
  /\ IF Missing(back)
     THEN Fails(w, TRUE, FALSE)
     ELSE Fails(w, SameRegular(writer[w].displaced, Stat(w), TRUE),
                SameEntry(writer[w].displaced, back))
  /\ UNCHANGED << keydir, inode, reader, meddling >>

\* The operator's process dies, or is interrupted where nothing catches it.
Dies(w) ==
  /\ writer[w].at \notin { "ok", "failed", "dead" }
  /\ Go(w, "dead")
  /\ UNCHANGED << keydir, entry, inode, reader, meddling >>

-----------------------------------------------------------------------------
(* load_baseline *)

Read(r, place) == reader[r].at = place

Reach(r, place) == reader' = [reader EXCEPT ![r].at = place]

ReaderOnly == UNCHANGED << keydir, entry, inode, writer, meddling >>

\* ENOENT is "not established"; everything else is a capture failure.
Absence(info) == IF Missing(info) THEN "unestablished" ELSE "unreadable"

OpenForReading(r) ==
  /\ Read(r, "open")
  /\ Reach(r, IF keydir = "real" THEN "stat"
              ELSE IF keydir = "absent" THEN "unestablished" ELSE "unreadable")
  /\ ReaderOnly

StatToRead(r) ==
  LET info == Stat("baseline") IN
  /\ Read(r, "stat")
  /\ IF IsRegular(info)
     THEN reader' = [reader EXCEPT ![r].at = "fopen", ![r].saw = info]
     ELSE Reach(r, Absence(info))
  /\ ReaderOnly

OpenFile(r) ==
  LET opened == Stat("baseline") IN
  /\ Read(r, "fopen")
  /\ IF SameRegular(reader[r].saw, opened, FALSE)
     THEN reader' = [reader EXCEPT ![r].at = "read", ![r].ino = opened.ino]
     ELSE Reach(r, Absence(opened))
  /\ ReaderOnly

ReadPart(r, place, i, next) ==
  /\ Read(r, place)
  /\ reader' = [reader EXCEPT ![r].at = next, ![r].got[i] = inode[reader[r].ino].part[i]]
  /\ ReaderOnly

\* fstat of the open descriptor: the inode, whatever its name is now.
Fstat(i) == [ino |-> i, kind |-> inode[i].kind, mtime |-> inode[i].mtime, ctime |-> inode[i].ctime]

CheckRead(r) ==
  /\ Read(r, "check")
  /\ Reach(r, IF SameRegular(reader[r].saw, Fstat(reader[r].ino), FALSE)
              THEN "last" ELSE "unreadable")
  /\ ReaderOnly

LastStat(r) ==
  LET final == Stat("baseline") IN
  /\ Read(r, "last")
  /\ Reach(r, IF SameRegular(reader[r].saw, final, FALSE) THEN "loaded" ELSE Absence(final))
  /\ ReaderOnly

-----------------------------------------------------------------------------
(* Others: whoever else can write the directory, and the operator's hand *)

Meddle ==
  /\ meddling < MaxMeddling /\ keydir = "real"
  /\ meddling' = meddling + 1
  /\ UNCHANGED << keydir, writer, reader >>

\* A link, or a directory, or a pipe, in place of the file.
Plant ==
  /\ Meddle
  /\ entry' = [entry EXCEPT !["baseline"] = << "meddler", meddling' >>]
  /\ inode' = [inode EXCEPT ![<< "meddler", meddling' >>] = [Unborn EXCEPT !.part = Whole("meddler")]]

\* The file's own bytes, a part at a time.
Edited(file, i) ==
  [kind |-> file.kind, part |-> [file.part EXCEPT ![i] = "meddler"],
   mtime |-> file.mtime + 1, ctime |-> file.ctime + 1]

Rewrite ==
  /\ Meddle
  /\ IsRegular(Stat("baseline"))
  /\ \E i \in 1 .. 2 :
       inode' = [inode EXCEPT ![entry["baseline"]] = Edited(inode[entry["baseline"]], i)]
  /\ UNCHANGED entry

Remove ==
  /\ Meddle
  /\ entry["baseline"] # None
  /\ entry' = [entry EXCEPT !["baseline"] = None]
  /\ UNCHANGED inode

-----------------------------------------------------------------------------
(* Specification *)

WriterStep(w) ==
  \/ OpenDirectories(w) \/ Classify(w) \/ ClassifyAgain(w)
  \/ WriteTemp(w) \/ WriteTempFails(w) \/ LinkTemp(w) \/ UnlinkTemp(w)
  \/ Recheck(w) \/ Exchange(w) \/ Look(w) \/ Final(w) \/ Undo(w) \/ Undone(w)

ReaderStep(r) ==
  \/ OpenForReading(r) \/ StatToRead(r) \/ OpenFile(r)
  \/ ReadPart(r, "read", 1, "more") \/ ReadPart(r, "more", 2, "check")
  \/ CheckRead(r) \/ LastStat(r)

Next ==
  \/ \E w \in Writer : WriterStep(w) \/ Dies(w)
  \/ \E r \in Reader : ReaderStep(r)
  \/ Plant \/ Rewrite \/ Remove

Spec == Init /\ [][Next]_vars

-----------------------------------------------------------------------------
(* Properties *)

StatOrNone == Info \cup { None }

WriterPlace ==
  { "open", "classify", "classify_again", "fill_create", "fill_replace", "link", "unlink",
    "recheck", "exchange", "look", "final", "undo", "undone", "ok", "failed", "dead" }

WriterRecord ==
  [at : WriterPlace, replace : BOOLEAN, saw : StatOrNone, published : StatOrNone,
   displaced : StatOrNone, restored : BOOLEAN]

ReaderRecord ==
  [at : { "open", "stat", "fopen", "read", "more", "check", "last",
          "loaded", "unestablished", "unreadable" },
   saw : StatOrNone, ino : Ino \cup { None }, got : [1 .. 2 -> Version]]

\* Every variable has its type.
TypeOK ==
  /\ keydir \in { "absent", "link", "real" }
  /\ entry \in [Name -> Ino \cup { None }]
  /\ inode \in [Ino -> File]
  /\ writer \in [Writer -> WriterRecord]
  /\ reader \in [Reader -> ReaderRecord]
  /\ meddling \in 0 .. MaxMeddling

\* The file a successful call took the place of, or None if it made the first.
Predecessor(w) == IF Missing(writer[w].displaced) THEN None ELSE writer[w].saw.ino

\* Two calls that both reported success never took the place of the same
\* baseline: none of them threw away, unseen, what the other had just
\* established (link in _publish_create, the displaced inode in
\* _publish_replace).
OneSuccessorEach ==
  \A w, v \in Writer :
    w # v /\ At(w, "ok") /\ At(v, "ok") /\ (meddling = 0 \/ Predecessor(w) # None)
      => Predecessor(w) # Predecessor(v)

\* Once a baseline is established, and as long as only these calls touch the
\* directory, its name always leads to a whole regular file, whatever calls
\* meet, fail, undo each other or die half way.
BaselineStands ==
  meddling = 0 /\ (inode[FirstFile].part = Whole("first") \/ \E w \in Writer : At(w, "ok"))
    => /\ IsRegular(Stat("baseline"))
       /\ \E version \in Version \ { None } : inode[entry["baseline"]].part = Whole(version)

\* The names of a file.
Names(i) == { n \in Name : entry[n] = i }

\* What is not a regular file was not written by the dispatcher: a call that
\* meets one never takes its place and reports success (--replace does not
\* clear an artefact).  Only a call that failed, undoing an exchange after
\* which the artefact was planted, may drop its name.
PlantedIsNeverReplaced ==
  [][\A i \in Ino :
       inode[i].kind = "other" /\ Names(i) # {} /\ Names(i)' = {} /\ meddling' = meddling
         => \E w \in Writer : At(w, "undone") /\ At(w, "failed")']_vars

\* A load that succeeds returns the bytes the file has at that moment under
\* its name, never a mixture of two rewrites, nor those of a file replaced
\* while it was read (_read_baseline_file's three comparisons).
LoadedAsItStands ==
  [][\A r \in Reader :
       Read(r, "loaded")' /\ ~Read(r, "loaded")
         => reader[r].got = inode[entry["baseline"]].part]_vars
=============================================================================
