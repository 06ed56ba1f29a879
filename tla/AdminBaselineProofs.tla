------------------------ MODULE AdminBaselineProofs ------------------------
(***************************************************************************)
(* Theorems about AdminBaseline, for any number of calls and loads and any *)
(* amount of meddling: no two successful calls took the place of the same  *)
(* file, an established baseline stands as long as only calls touch the    *)
(* directory, no call clears an artefact, no load is torn.                 *)
(*                                                                         *)
(* A file that was replaced is retired: it is never again under the        *)
(* published name, nor under that of a call that could still exchange it.  *)
(* That is inductive because an inode number is used once, and because two *)
(* names share a file only where one of them belongs to a call that is     *)
(* through with it.                                                        *)
(***************************************************************************)
EXTENDS AdminBaseline, TLAPS

Types ==
  /\ entry \in [Name -> Ino \cup { None }]
  /\ inode \in [Ino -> File]
  /\ writer \in [Writer -> WriterRecord]
  /\ meddling \in 0 .. MaxMeddling

Born(i) == inode[i] # Unborn

NamedAreBorn == \A n \in Name : entry[n] # None => Born(entry[n])

\* The temporaries and the artefacts to come.
NotYetBorn ==
  /\ \A w \in Writer :
       /\ writer[w].at \in { "open", "classify", "fill_create" } => ~Born(<< w, 1 >>)
       /\ writer[w].at \in { "open", "classify", "classify_again", "fill_create", "link",
                             "fill_replace" } => ~Born(<< w, 2 >>)
  /\ \A m \in 1 .. MaxMeddling : m > meddling => ~Born(<< "meddler", m >>)

\* Names no call will use again.
Idle(n) == n \in Writer /\ writer[n].at \in { "unlink", "ok", "failed", "dead" }

NamesApart ==
  \A n, m \in Name : n # m /\ entry[n] = entry[m] /\ entry[n] # None => Idle(n) \/ Idle(m)

Retired(i) == i \in Ino /\ Born(i) /\ \A n \in Name : entry[n] = i => Idle(n)

Replaced(w) == writer[w].at \in { "final", "ok" } /\ writer[w].displaced # None

ReplacedAreRetired == \A w \in Writer : Replaced(w) => Retired(writer[w].saw.ino)

ReplacedApart ==
  \A w, v \in Writer : w # v /\ Replaced(w) /\ Replaced(v)
    => writer[w].saw.ino # writer[v].saw.ino

\* Only a call that looked at what it displaced knows a displaced file.
Displacing ==
  \A w \in Writer :
    /\ writer[w].at = "final" => writer[w].displaced # None
    /\ writer[w].at \in { "open", "classify", "classify_again", "fill_create", "fill_replace",
                          "link", "unlink", "recheck", "exchange", "look" }
         => writer[w].displaced = None

TempIsThere == \A w \in Writer : writer[w].at = "link" => entry[w] # None

Made(w) == writer[w].at \in { "unlink", "ok" } /\ writer[w].displaced = None

\* As long as nobody meddles: the name is there, one call at most made the
\* first file, and every file is whole.
Undisturbed ==
  meddling = 0 =>
    /\ inode[FirstFile].part = Whole("first")
         \/ (\E w \in Writer : writer[w].at \in { "unlink", "ok" }) => entry["baseline"] # None
    /\ \A w, v \in Writer : w # v /\ Made(w) => ~Made(v)
    /\ \A i \in Ino : Born(i) =>
         inode[i].kind = "regular" /\ \E version \in Version \ { None } : inode[i].part = Whole(version)

IInv ==
  /\ Types /\ NamedAreBorn /\ NotYetBorn /\ NamesApart
  /\ ReplacedAreRetired /\ ReplacedApart /\ Displacing /\ TempIsThere /\ Undisturbed

-----------------------------------------------------------------------------
(* What a stat returns, and what the types of the records are. *)
LEMMA StatType ==
  ASSUME Types, NEW n \in Name
  PROVE  /\ Stat(n) \in StatOrNone
         /\ Missing(Stat(n)) <=> entry[n] = None
         /\ ~Missing(Stat(n)) => Stat(n).ino = entry[n] /\ Stat(n).kind = inode[entry[n]].kind
<1> USE NoneIsNothingElse DEF Types, Stat, StatOrNone, Missing, File, Info
<1>1. CASE entry[n] = None
  BY <1>1
<1>2. CASE entry[n] # None
  <2>1. entry[n] \in Ino /\ inode[entry[n]] \in File
    BY <1>2
  <2>2. Stat(n) \in Info
    BY <1>2, <2>1
  <2> QED BY <1>2, <2>1, <2>2
<1> QED BY <1>1, <1>2

LEMMA Kinds == Writer \subseteq Name /\ "baseline" \in Name /\ "baseline" \notin Writer
BY BaselineAssumption DEF Name

LEMMA Inodes ==
  /\ FirstFile \in Ino
  /\ \A w \in Writer : << w, 1 >> \in Ino /\ << w, 2 >> \in Ino
  /\ \A m \in 1 .. MaxMeddling : << "meddler", m >> \in Ino
  /\ \A w \in Writer, m \in Nat, k \in { 1, 2 } :
       << w, k >> # FirstFile /\ << "meddler", m >> # FirstFile /\ << w, k >> # << "meddler", m >>
<1>1. FirstFile \in Ino
  BY DEF Ino
<1>2. ASSUME NEW w \in Writer PROVE << w, 1 >> \in Ino /\ << w, 2 >> \in Ino
  <2>1. << w, 1 >> \in Writer \X (1 .. 2) /\ << w, 2 >> \in Writer \X (1 .. 2)
    OBVIOUS
  <2> QED BY <2>1 DEF Ino
<1>3. ASSUME NEW m \in 1 .. MaxMeddling PROVE << "meddler", m >> \in Ino
  <2>1. << "meddler", m >> \in { "meddler" } \X (1 .. MaxMeddling)
    OBVIOUS
  <2> QED BY <2>1 DEF Ino
<1>4. ASSUME NEW w \in Writer, NEW m \in Nat, NEW k \in { 1, 2 }
      PROVE  /\ << w, k >> # FirstFile /\ << "meddler", m >> # FirstFile
             /\ << w, k >> # << "meddler", m >>
  BY BaselineAssumption DEF FirstFile
<1> QED BY <1>1, <1>2, <1>3, <1>4

LEMMA InitHolds == Init => IInv
<1> SUFFICES ASSUME Init PROVE IInv
  OBVIOUS
<1> USE BaselineAssumption, NoneIsNothingElse DEF Init
<1>1. PICK replace \in [Writer -> BOOLEAN] : writer = [w \in Writer |-> NewWriter(replace[w])]
  OBVIOUS
<1>2. \A w \in Writer : NewWriter(replace[w]) \in WriterRecord
  BY DEF NewWriter, WriterRecord, WriterPlace, StatOrNone
<1>3. \A w \in Writer : writer[w].at = "open" /\ writer[w].displaced = None
  BY <1>1 DEF NewWriter
<1>4. FirstFile \in Ino /\ Regular("first") \in File /\ Unborn \in File
  BY DEF Ino, Regular, Unborn, File, Whole, Version
<1>5. PICK start \in Starts :
        /\ entry = [n \in Name |-> IF start = "baseline" /\ n = "baseline" THEN FirstFile ELSE None]
        /\ inode = [i \in Ino |-> IF start = "baseline" /\ i = FirstFile THEN Regular("first") ELSE Unborn]
  OBVIOUS
<1>6. Types
  BY <1>1, <1>2, <1>4, <1>5 DEF Types
<1>7. Regular("first") # Unborn /\ Unborn.part # Whole("first")
  BY DEF Regular, Unborn, Whole
<1>8. NamedAreBorn
  BY <1>4, <1>5, <1>7 DEF NamedAreBorn, Born
<1>9. NotYetBorn
  <2>1. \A i \in Ino : i # FirstFile => ~Born(i)
    BY <1>5 DEF Born
  <2>2. ASSUME NEW w \in Writer PROVE ~Born(<< w, 1 >>) /\ ~Born(<< w, 2 >>)
    BY <2>1, Inodes
  <2>3. ASSUME NEW m \in 1 .. MaxMeddling PROVE ~Born(<< "meddler", m >>)
    <3>1. << "meddler", m >> # FirstFile
      BY DEF FirstFile
    <3> QED BY <2>1, <3>1, Inodes
  <2> QED BY <2>2, <2>3 DEF NotYetBorn
<1>10. NamesApart
  BY <1>5, Kinds DEF NamesApart
<1>11. ReplacedAreRetired /\ ReplacedApart /\ Displacing
  BY <1>3 DEF ReplacedAreRetired, ReplacedApart, Displacing, Replaced
<1>13. TempIsThere
  BY <1>3 DEF TempIsThere
<1>12. Undisturbed
  BY <1>3, <1>4, <1>5, <1>7, Kinds DEF Undisturbed, Made, Born, Regular, Version
<1> QED BY <1>6, <1>8, <1>9, <1>10, <1>11, <1>12, <1>13 DEF IInv

-----------------------------------------------------------------------------
(* Steps that leave every file and name alone, but for dropping a name. *)

\* The same files, but for their ctime.
SameFiles ==
  /\ inode' \in [Ino -> File]
  /\ \A i \in Ino : /\ Born(i)' <=> Born(i)
                    /\ inode'[i].kind = inode[i].kind /\ inode'[i].part = inode[i].part

LEMMA Unchanged == ASSUME Types, inode' = inode PROVE SameFiles
BY DEF SameFiles, Types, Born

LEMMA TouchedFile ==
  ASSUME NEW file \in File
  PROVE  /\ [file EXCEPT !.ctime = @ + 1] \in File
         /\ [file EXCEPT !.ctime = @ + 1] # Unborn
         /\ [file EXCEPT !.ctime = @ + 1].kind = file.kind
         /\ [file EXCEPT !.ctime = @ + 1].part = file.part
BY DEF File, Unborn

LEMMA TouchingKeeps ==
  ASSUME Types, NEW some \in SUBSET Ino, \A i \in some : Born(i),
         inode' = [i \in Ino |-> IF i \in some THEN [inode[i] EXCEPT !.ctime = @ + 1] ELSE inode[i]]
  PROVE  SameFiles
<1>1. \A i \in Ino : inode[i] \in File
  BY DEF Types
<1> QED BY <1>1, TouchedFile DEF SameFiles, Born

LEMMA TouchKeeps ==
  ASSUME Types, NEW i, i \in Ino => Born(i), inode' = Touched(i)
  PROVE  SameFiles
<1>1. inode' = [j \in Ino |-> IF j \in { i } \cap Ino THEN [inode[j] EXCEPT !.ctime = @ + 1] ELSE inode[j]]
  BY DEF Touched, Types
<1> QED BY <1>1, TouchingKeeps

Early == { "open", "classify", "classify_again", "fill_create", "link", "fill_replace" }

Undisplaced == Early \cup { "unlink", "recheck", "exchange", "look" }

\* A call may write its record, and drop its own name, as long as it claims
\* to have replaced or made nothing it had not: only Final says "ok".
Harmless(w, record) ==
  /\ record \in WriterRecord
  /\ writer' = [writer EXCEPT ![w] = record]
  /\ SameFiles /\ meddling' = meddling
  /\ entry' = entry \/ entry' = [entry EXCEPT ![w] = None]
  /\ Idle(w) => record.at = "dead" \/ (record.at = "ok" /\ writer[w].at = "unlink")
  /\ record.at \notin { "link", "unlink" }
  /\ record.at \in { "open", "classify", "fill_create" }
       => writer[w].at \in { "open", "classify", "fill_create" }
  /\ record.at \in Early => writer[w].at \in Early
  /\ record.at \in { "final", "ok" }
       => /\ writer[w].at \in { "final", "unlink" }
          /\ record.saw = writer[w].saw /\ record.displaced = writer[w].displaced
  /\ record.at = "final" => writer[w].at = "final"
  /\ record.at = "ok" => writer[w].at = "unlink" \/ entry["baseline"] # None
  /\ record.at \in Undisplaced => record.displaced = None

LEMMA HarmlessKeeps ==
  ASSUME IInv, NEW w \in Writer, NEW record, Harmless(w, record)
  PROVE  IInv'
<1> USE Kinds DEF IInv, Harmless
<1>0. Types'
  BY DEF Types, SameFiles
<1>1. /\ writer'[w] = record
      /\ \A v \in Writer : v # w => writer'[v] = writer[v]
  BY DEF Types
<1>2. \A n \in Name : entry'[n] # None => entry'[n] = entry[n]
  BY DEF Types
<1>3. \A n \in Name : Idle(n) => Idle(n)'
  BY <1>1 DEF Idle
<1>4. \A i \in Ino : Born(i) <=> Born(i)'
  BY DEF SameFiles
<1>5. entry'["baseline"] = entry["baseline"]
  BY DEF Types
<1>6. NamedAreBorn'
  BY <1>0, <1>2, <1>4 DEF NamedAreBorn, Types
<1>7. NotYetBorn'
  BY <1>1, <1>4, Inodes DEF NotYetBorn, Early
<1>8. NamesApart'
  BY <1>2, <1>3 DEF NamesApart
<1>9. \A i \in Ino : Retired(i) => Retired(i)'
  BY <1>2, <1>3, <1>4, NoneIsNothingElse DEF Retired
<1>10. Displacing'
  BY <1>1 DEF Displacing, Undisplaced, Early
<1>11. \A v \in Writer : Replaced(v)' => Replaced(v) /\ writer'[v].saw = writer[v].saw
  BY <1>1 DEF Replaced, Displacing
<1>12. ReplacedAreRetired' /\ ReplacedApart'
  BY <1>9, <1>11 DEF ReplacedAreRetired, ReplacedApart, Retired
<1>13. \A v \in Writer : Made(v)' => Made(v)
  BY <1>1 DEF Made, Displacing
<1>14. Undisturbed'
  <2> SUFFICES ASSUME meddling = 0
               PROVE  /\ inode'[FirstFile].part = Whole("first")
                           \/ (\E v \in Writer : writer'[v].at \in { "unlink", "ok" })
                             => entry'["baseline"] # None
                      /\ \A w_1, v \in Writer : w_1 # v /\ Made(w_1)' => ~Made(v)'
                      /\ \A i \in Ino : Born(i)' =>
                           inode'[i].kind = "regular"
                           /\ \E version \in Version \ { None } : inode'[i].part = Whole(version)
    BY DEF Undisturbed
  <2>1. inode'[FirstFile].part = Whole("first")
          \/ (\E v \in Writer : writer'[v].at \in { "unlink", "ok" })
        => entry'["baseline"] # None
    BY <1>1, <1>5, Inodes DEF Undisturbed, SameFiles
  <2>2. \A v, u \in Writer : v # u /\ Made(v)' => ~Made(u)'
    BY <1>13 DEF Undisturbed
  <2>3. \A i \in Ino : Born(i)' =>
          inode'[i].kind = "regular"
          /\ \E version \in Version \ { None } : inode'[i].part = Whole(version)
    BY DEF Undisturbed, SameFiles
  <2> QED BY <2>1, <2>2, <2>3
<1>15. TempIsThere'
  BY <1>1 DEF TempIsThere, Types
<1> QED BY <1>0, <1>6, <1>7, <1>8, <1>10, <1>12, <1>14, <1>15

LEMMA RecordTypes ==
  ASSUME Types, NEW w \in Writer
  PROVE  /\ writer[w] \in WriterRecord
         /\ \A place \in WriterPlace : [writer[w] EXCEPT !.at = place] \in WriterRecord
BY DEF Types, WriterRecord

\* A record a call writes, field by field.
LEMMA Rewritten ==
  ASSUME NEW old \in WriterRecord, NEW place \in WriterPlace, NEW info \in StatOrNone
  PROVE  /\ [old EXCEPT !.at = place, !.saw = info] \in WriterRecord
         /\ [old EXCEPT !.at = place, !.saw = info].at = place
         /\ [old EXCEPT !.at = place, !.saw = info].displaced = old.displaced
         /\ [old EXCEPT !.at = place, !.published = info] \in WriterRecord
         /\ [old EXCEPT !.at = place, !.published = info].at = place
         /\ [old EXCEPT !.at = place, !.published = info].displaced = old.displaced
         /\ [old EXCEPT !.at = place, !.displaced = info] \in WriterRecord
         /\ [old EXCEPT !.at = place, !.displaced = info].at = place
         /\ [old EXCEPT !.at = place, !.displaced = info].saw = old.saw
         /\ [old EXCEPT !.at = place, !.displaced = info].displaced = info
BY DEF WriterRecord

LEMMA RewrittenFailed ==
  ASSUME NEW old \in WriterRecord, NEW restored \in BOOLEAN
  PROVE  /\ [old EXCEPT !.at = "failed", !.restored = restored] \in WriterRecord
         /\ [old EXCEPT !.at = "failed", !.restored = restored].at = "failed"
BY DEF WriterRecord, WriterPlace

\* Go, as one record.
LEMMA Gone ==
  ASSUME Types, NEW w \in Writer, NEW place, Go(w, place)
  PROVE  writer' = [writer EXCEPT ![w] = [writer[w] EXCEPT !.at = place]]
BY DEF Go

LEMMA LookingKeeps ==
  ASSUME IInv, NEW w \in Writer,
         \/ OpenDirectories(w) \/ WriteTempFails(w) \/ Final(w) \/ Dies(w)
  PROVE  IInv'
<1> USE DEF IInv
<1> DEFINE record(place) == [writer[w] EXCEPT !.at = place]
<1>1. /\ record("failed") \in WriterRecord /\ record("dead") \in WriterRecord
      /\ record("classify") \in WriterRecord /\ record("ok") \in WriterRecord
  BY RecordTypes DEF WriterPlace
<1>2. \A place : /\ record(place).at = place /\ record(place).saw = writer[w].saw
                 /\ record(place).displaced = writer[w].displaced
  BY RecordTypes DEF WriterRecord
<1> HIDE DEF record
<1>3. CASE OpenDirectories(w)
  <2>1. \E place \in { "failed", "classify" } : writer' = [writer EXCEPT ![w] = record(place)]
    BY <1>3, Gone DEF OpenDirectories, record
  <2>2. \E place \in { "failed", "classify" } : Harmless(w, record(place))
    BY Unchanged, <1>1, <1>2, <1>3, <2>1
       DEF OpenDirectories, Harmless, At, Idle, Early, Undisplaced, Displacing
  <2> QED BY <2>2, HarmlessKeeps
<1>4. CASE WriteTempFails(w)
  <2>1. writer' = [writer EXCEPT ![w] = record("failed")]
    BY <1>4, Gone DEF WriteTempFails, record
  <2>2. Harmless(w, record("failed"))
    BY Unchanged, <1>1, <1>2, <1>4, <2>1 DEF WriteTempFails, Harmless, At, Idle, Early, Undisplaced
  <2> QED BY <2>2, HarmlessKeeps
<1>6. CASE Dies(w)
  <2>1. writer' = [writer EXCEPT ![w] = record("dead")]
    BY <1>6, Gone DEF Dies, record
  <2>2. Harmless(w, record("dead"))
    BY Unchanged, <1>1, <1>2, <1>6, <2>1 DEF Dies, Harmless, At, Idle, Early, Undisplaced
  <2> QED BY <2>2, HarmlessKeeps
<1>5. CASE Final(w)
  <2>1. SameRegular(writer[w].published, Stat("baseline"), TRUE) => entry["baseline"] # None
    BY Kinds, StatType DEF SameRegular, IsRegular
  <2>2. \/ writer' = [writer EXCEPT ![w] = record("failed")]
        \/ writer' = [writer EXCEPT ![w] = record("ok")] /\ entry["baseline"] # None
    BY <1>5, <2>1, Gone DEF Final, record
  <2>3. Harmless(w, record("failed")) \/ Harmless(w, record("ok"))
    BY Unchanged, <1>1, <1>2, <1>5, <2>2 DEF Final, Harmless, At, Idle, Early, Undisplaced
  <2> QED BY <2>3, HarmlessKeeps
<1> QED BY <1>3, <1>4, <1>5, <1>6

LEMMA FailingKeeps ==
  ASSUME IInv, NEW w \in Writer, NEW keeps \in BOOLEAN, NEW restored \in BOOLEAN,
         Fails(w, keeps, restored), ~Idle(w), inode' = inode, meddling' = meddling
  PROVE  IInv'
<1> DEFINE record == [writer[w] EXCEPT !.at = "failed", !.restored = restored]
<1>1. record \in WriterRecord /\ record.at = "failed"
  BY RecordTypes, RewrittenFailed DEF IInv
<1>3. writer' = [writer EXCEPT ![w] = record]
  BY DEF Fails
<1>4. entry' = entry \/ entry' = [entry EXCEPT ![w] = None]
  BY DEF Fails
<1> HIDE DEF record
<1>5. Harmless(w, record)
  BY Unchanged, <1>1, <1>3, <1>4 DEF Harmless, Early, Undisplaced, IInv
<1> QED BY <1>5, HarmlessKeeps

LEMMA JudgingKeeps ==
  ASSUME IInv, NEW w \in Writer, Classify(w) \/ ClassifyAgain(w)
  PROVE  IInv'
<1> USE DEF IInv
<1> DEFINE record(place) == [writer[w] EXCEPT !.at = place, !.saw = Stat("baseline")]
<1>1. Stat("baseline") \in StatOrNone
  BY StatType, Kinds
<1>2. ASSUME NEW place \in WriterPlace
      PROVE  /\ record(place) \in WriterRecord
             /\ record(place).at = place /\ record(place).displaced = writer[w].displaced
  <2>1. PICK old \in WriterRecord : old = writer[w]
    BY RecordTypes
  <2>2. PICK info \in StatOrNone : info = Stat("baseline")
    BY <1>1
  <2> QED BY <2>1, <2>2 DEF WriterRecord
<1>3. \/ /\ writer[w].at = "classify"
         /\ \E place \in { "fill_create", "failed", "fill_replace" } :
              writer' = [writer EXCEPT ![w] = record(place)]
      \/ /\ writer[w].at = "classify_again"
         /\ \E place \in { "failed", "fill_replace" } :
              writer' = [writer EXCEPT ![w] = record(place)]
  BY DEF Classify, ClassifyAgain, Judge, At
<1>4. UNCHANGED << entry, inode, meddling >>
  BY DEF Classify, ClassifyAgain
<1> HIDE DEF record
<1>5. { "fill_create", "failed", "fill_replace" } \subseteq WriterPlace
  BY DEF WriterPlace
<1>6. \E place \in { "fill_create", "failed", "fill_replace" } : Harmless(w, record(place))
  BY Unchanged, <1>2, <1>3, <1>4, <1>5 DEF Harmless, Idle, Early, Undisplaced, Displacing
<1> QED BY <1>6, HarmlessKeeps

LEMMA CheckingKeeps ==
  ASSUME IInv, NEW w \in Writer, Recheck(w) \/ Undone(w)
  PROVE  IInv'
<1> USE DEF IInv
<1>1. CASE Recheck(w)
  <2>1. CASE Fails(w, FALSE, FALSE)
    BY <1>1, <2>1, FailingKeeps DEF Recheck, At, Idle
  <2>2. CASE ~Fails(w, FALSE, FALSE)
    <3> DEFINE record == [writer[w] EXCEPT !.at = "exchange", !.published = Stat(w)]
    <3>1. /\ record \in WriterRecord
          /\ record.at = "exchange" /\ record.displaced = writer[w].displaced
      <4>1. PICK old \in WriterRecord : old = writer[w]
        BY RecordTypes
      <4>2. PICK info \in StatOrNone : info = Stat(w)
        BY StatType, Kinds
      <4>3. "exchange" \in WriterPlace
        BY DEF WriterPlace
      <4> QED BY <4>1, <4>2, <4>3 DEF WriterRecord
    <3>2. writer' = [writer EXCEPT ![w] = record] /\ UNCHANGED << entry, inode, meddling >>
      BY <1>1, <2>2 DEF Recheck
    <3> HIDE DEF record
    <3>3. Harmless(w, record)
      BY Unchanged, <1>1, <3>1, <3>2 DEF Recheck, At, Harmless, Idle, Early, Undisplaced, Displacing
    <3> QED BY <3>3, HarmlessKeeps
  <2> QED BY <2>1, <2>2
<1>2. CASE Undone(w)
  <2>1. \E keeps, restored \in BOOLEAN : Fails(w, keeps, restored)
    <3>1. CASE Missing(Stat("baseline"))
      BY <1>2, <3>1 DEF Undone
    <3>2. CASE ~Missing(Stat("baseline"))
      <4>1. SameRegular(writer[w].displaced, Stat(w), TRUE) \in BOOLEAN
            /\ SameEntry(writer[w].displaced, Stat("baseline")) \in BOOLEAN
        BY DEF SameRegular, SameEntry
      <4> QED BY <1>2, <3>2, <4>1 DEF Undone
    <3> QED BY <3>1, <3>2
  <2> QED BY <1>2, <2>1, FailingKeeps DEF Undone, At, Idle
<1> QED BY <1>1, <1>2

-----------------------------------------------------------------------------
(* Steps that make, name and unname files. *)
LEMMA UnlinkKeeps == ASSUME IInv, NEW w \in Writer, UnlinkTemp(w) PROVE IInv'
<1> USE Kinds, NoneIsNothingElse DEF IInv
<1> DEFINE record == [writer[w] EXCEPT !.at = "ok"]
<1>1. /\ record \in WriterRecord /\ record.at = "ok"
      /\ record.saw = writer[w].saw /\ record.displaced = writer[w].displaced
  <2>1. PICK old \in WriterRecord : old = writer[w]
    BY RecordTypes
  <2> QED BY <2>1 DEF WriterRecord, WriterPlace
<1>2. SameFiles
  <2>1. entry[w] \in Ino => Born(entry[w])
    BY DEF NamedAreBorn
  <2>2. inode' = Touched(entry[w])
    BY DEF UnlinkTemp
  <2> QED BY <2>1, <2>2, TouchKeeps
<1>3. writer' = [writer EXCEPT ![w] = record]
  BY Gone DEF UnlinkTemp
<1> HIDE DEF record
<1>4. Harmless(w, record)
  BY <1>1, <1>2, <1>3 DEF UnlinkTemp, At, Harmless, Idle, Early, Undisplaced
<1> QED BY <1>4, HarmlessKeeps

LEMMA LookKeeps == ASSUME IInv, NEW w \in Writer, Look(w) PROVE IInv'
<1> USE Kinds, NoneIsNothingElse DEF IInv
<1> DEFINE record(place) == [writer[w] EXCEPT !.at = place, !.displaced = Stat(w)]
<1>1. ASSUME NEW place \in WriterPlace
      PROVE  /\ record(place) \in WriterRecord
             /\ record(place).at = place
             /\ record(place).saw = writer[w].saw /\ record(place).displaced = Stat(w)
  <2>1. PICK old \in WriterRecord : old = writer[w]
    BY RecordTypes
  <2>2. PICK info \in StatOrNone : info = Stat(w)
    BY StatType
  <2> QED BY <2>1, <2>2 DEF WriterRecord
<1>2. writer[w].at = "look" /\ UNCHANGED << inode, meddling >>
  BY DEF Look, At
<1>3. CASE \E keeps \in BOOLEAN : Fails(w, keeps, FALSE)
  BY <1>2, <1>3, FailingKeeps DEF Idle
<1>4. CASE writer' = [writer EXCEPT ![w] = record("undo")] /\ entry' = entry
  <2> HIDE DEF record
  <2>1. Harmless(w, record("undo"))
    BY <1>1, <1>2, <1>4, Unchanged DEF Harmless, Idle, Early, Undisplaced, WriterPlace
  <2> QED BY <2>1, HarmlessKeeps
<1>5. CASE /\ writer' = [writer EXCEPT ![w] = record("final")]
           /\ entry' = [entry EXCEPT ![w] = None]
           /\ SameRegular(writer[w].saw, Stat(w), TRUE)
  <2> HIDE DEF record
  <2>0. PICK i \in Ino : /\ i = writer[w].saw.ino /\ i = entry[w]
                         /\ entry[w] # None /\ Born(i) /\ Stat(w) # None
    BY <1>5, StatType DEF SameRegular, IsRegular, Missing, Types, NamedAreBorn
  <2>1. /\ i = writer[w].saw.ino /\ i = entry[w]
        /\ entry[w] # None /\ Born(i) /\ Stat(w) # None
    BY <2>0
  <2>2. /\ writer'[w].at = "final" /\ writer'[w].saw = writer[w].saw
        /\ writer'[w].displaced # None
        /\ \A v \in Writer : v # w => writer'[v] = writer[v]
        /\ \A v \in Writer : writer'[v].saw = writer[v].saw
    BY <1>1, <1>5, <2>1 DEF Types, WriterPlace
  <2>3. \A n \in Name : entry'[n] # None => n # w /\ entry'[n] = entry[n]
    BY <1>5 DEF Types
  <2>4. \A n \in Name : Idle(n) <=> Idle(n)'
    BY <1>2, <2>2 DEF Idle
  <2>5. \A j \in Ino : Born(j) <=> Born(j)'
    BY <1>2 DEF Born
  <2>6. \A j : Retired(j) => Retired(j)'
    BY <2>3, <2>4, <2>5 DEF Retired
  <2>7. Retired(i)'
    <3>1. ASSUME NEW n \in Name, entry'[n] = i PROVE Idle(n)'
      <4>1. n # w /\ entry[n] = entry[w] /\ entry[n] # None
        BY <2>1, <2>3, <3>1
      <4>2. \A m \in Name : n # m /\ entry[n] = entry[m] /\ entry[n] # None => Idle(n) \/ Idle(m)
        BY DEF NamesApart
      <4>3. Idle(n) \/ Idle(w)
        BY <4>1, <4>2
      <4> QED BY <1>2, <2>4, <4>3 DEF Idle
    <3> QED BY <2>1, <2>5, <3>1 DEF Retired
  <2>8. ~Retired(i)
    BY <1>2, <2>1 DEF Retired, Idle
  <2>9. \A v \in Writer : v # w => (Replaced(v)' <=> Replaced(v))
    BY <2>2 DEF Replaced
  <2>10. ReplacedAreRetired' /\ ReplacedApart'
    <3>1. ASSUME NEW v \in Writer, Replaced(v)', v # w
          PROVE  \E j \in Ino : Retired(j) /\ writer'[v].saw.ino = j /\ j # i
      <4>1. Retired(writer[v].saw.ino)
        BY <2>9, <3>1 DEF ReplacedAreRetired
      <4>2. writer[v].saw.ino \in Ino
        BY <4>1 DEF Retired
      <4>3. writer[v].saw.ino # i
        BY <2>8, <4>1
      <4> QED BY <2>2, <4>1, <4>2, <4>3
    <3>2. writer'[w].saw.ino = i
      BY <2>1, <2>2
    <3>3. ReplacedAreRetired'
      BY <2>6, <2>7, <3>1, <3>2 DEF ReplacedAreRetired
    <3>4. ReplacedApart'
      BY <2>2, <2>9, <3>1, <3>2 DEF ReplacedApart
    <3> QED BY <3>3, <3>4
  <2>11. Types'
    BY <1>1, <1>2, <1>5 DEF Types, WriterPlace
  <2>12. NamedAreBorn' /\ NamesApart'
    BY <1>2, <2>3, <2>4 DEF NamedAreBorn, NamesApart, Born
  <2>14. NotYetBorn'
    BY <1>2, <2>2 DEF NotYetBorn, Born
  <2>15. Displacing' /\ TempIsThere'
    BY <1>5, <2>2 DEF Displacing, TempIsThere, Types
  <2>13. Undisturbed'
    <3>1. entry'["baseline"] = entry["baseline"]
      BY <1>5 DEF Types
    <3>2. \A v \in Writer : (Made(v)' => Made(v)) /\ (writer'[v].at \in { "unlink", "ok" }
                                                       => writer[v].at \in { "unlink", "ok" })
      BY <2>2 DEF Made
    <3> QED BY <1>2, <2>5, <3>1, <3>2 DEF Undisturbed
  <2> QED BY <2>10, <2>11, <2>12, <2>13, <2>14, <2>15
<1>6. \/ \E keeps \in BOOLEAN : Fails(w, keeps, FALSE)
      \/ writer' = [writer EXCEPT ![w] = record("undo")] /\ entry' = entry
      \/ /\ writer' = [writer EXCEPT ![w] = record("final")]
         /\ entry' = [entry EXCEPT ![w] = None]
         /\ SameRegular(writer[w].saw, Stat(w), TRUE)
  BY DEF Look
<1> QED BY <1>3, <1>4, <1>5, <1>6

\* A step of a call that neither ends it nor claims anything, and that gives
\* no retired file a name in use.
Renaming(w, place) ==
  /\ writer[w].at \in Early \cup { "recheck", "exchange", "undo" }
  /\ writer' = [writer EXCEPT ![w] = [writer[w] EXCEPT !.at = place]]
  /\ place \in { "link", "unlink", "recheck", "look", "undone" }
  /\ place = "look" => writer[w].at = "exchange"
  /\ meddling' = meddling /\ Types'

LEMMA RenamingRecords ==
  ASSUME Types, NEW w \in Writer, NEW place, Renaming(w, place)
  PROVE  /\ writer'[w].at = place
         /\ \A v \in Writer : v # w => writer'[v].at = writer[v].at
         /\ \A v \in Writer : writer'[v].saw = writer[v].saw
                              /\ writer'[v].displaced = writer[v].displaced
         /\ \A n \in Name : Idle(n) => Idle(n)'
         /\ \A v \in Writer : (Replaced(v)' <=> Replaced(v))
         /\ ~Idle(w)
<1>1. PICK old \in WriterRecord : old = writer[w]
  BY RecordTypes
<1>2. /\ writer'[w] = [old EXCEPT !.at = place]
      /\ \A v \in Writer : v # w => writer'[v] = writer[v]
  BY <1>1 DEF Renaming, Types
<1>3. /\ writer'[w].at = place /\ writer'[w].saw = old.saw
      /\ writer'[w].displaced = old.displaced
  BY <1>2 DEF WriterRecord
<1>4. ~Idle(w) /\ ~Replaced(w)
  BY DEF Renaming, Idle, Replaced, Early
<1>5. ~Replaced(w)'
  BY <1>3 DEF Renaming, Replaced
<1> QED BY <1>1, <1>2, <1>3, <1>4, <1>5 DEF Idle, Replaced

\* What is retired stays so when a step gives its names to no other call.
LEMMA RetiredStays ==
  ASSUME IInv, NEW w \in Writer, NEW place, Renaming(w, place),
         \A i \in Ino : Born(i) => Born(i)',
         \A n \in Name : entry'[n] # None =>
           entry'[n] = entry[n] \/ ~Born(entry'[n])
           \/ entry'[n] = entry[w] \/ entry'[n] = entry["baseline"]
  PROVE  ReplacedAreRetired' /\ ReplacedApart'
<1> USE Kinds, NoneIsNothingElse DEF IInv
<1>1. ASSUME NEW i \in Ino, Retired(i) PROVE Retired(i)'
  <2>1. i # entry[w] /\ i # entry["baseline"]
    BY <1>1, RenamingRecords DEF Retired, Idle
  <2>2. \A n \in Name : entry'[n] = i => entry[n] = i
    BY <1>1, <2>1 DEF Retired
  <2> QED BY <1>1, <2>2, RenamingRecords DEF Retired
<1>2. ASSUME NEW v \in Writer, Replaced(v)'
      PROVE  \E j \in Ino : Retired(j) /\ j = writer[v].saw.ino /\ j = writer'[v].saw.ino
  BY <1>2, RenamingRecords DEF ReplacedAreRetired, Retired
<1>3. ReplacedAreRetired'
  BY <1>1, <1>2 DEF ReplacedAreRetired
<1>4. ReplacedApart'
  BY RenamingRecords DEF ReplacedApart
<1> QED BY <1>3, <1>4

LEMMA WriteTempKeeps == ASSUME IInv, NEW w \in Writer, WriteTemp(w) PROVE IInv'
<1> USE Kinds, NoneIsNothingElse DEF IInv
<1>1. PICK i \in Ino : i = Temporary(w)
  BY Inodes DEF Temporary
<1>2. PICK place \in { "link", "recheck" } :
        /\ Go(w, place)
        /\ place = "link" <=> At(w, "fill_create")
  BY DEF WriteTemp
<1>3. /\ entry' = [entry EXCEPT ![w] = i] /\ inode' = [inode EXCEPT ![i] = Regular(w)]
      /\ writer[w].at \in { "fill_create", "fill_replace" } /\ meddling' = meddling
  BY <1>1 DEF WriteTemp, Filled
<1>4. Regular(w) \in File /\ Regular(w) # Unborn
  BY DEF Regular, File, Unborn, Version, Whole
<1>5. writer' = [writer EXCEPT ![w] = [writer[w] EXCEPT !.at = place]]
  BY <1>2, Gone
<1>6. Types'
  BY <1>2, <1>3, <1>4, <1>5, RecordTypes DEF Types, WriterPlace
<1>7. Renaming(w, place)
  BY <1>3, <1>5, <1>6 DEF Renaming, Early
<1>8. ~Born(i)
  BY <1>1, <1>3 DEF Temporary, At, NotYetBorn
<1>9. \A j \in Ino : (j # i => (Born(j)' <=> Born(j))) /\ (Born(j) => Born(j)') /\ Born(i)'
  BY <1>3, <1>4 DEF Born, Types
<1>10. \A n \in Name : n # w => entry'[n] = entry[n]
  BY <1>3 DEF Types
<1>11. entry'[w] = i
  BY <1>3 DEF Types
<1>12. ReplacedAreRetired' /\ ReplacedApart'
  BY <1>7, <1>8, <1>9, <1>10, <1>11, RetiredStays
<1>13. /\ writer'[w].at = place
       /\ \A v \in Writer : v # w => writer'[v].at = writer[v].at
       /\ \A v \in Writer : writer'[v].displaced = writer[v].displaced
       /\ \A n \in Name : Idle(n) => Idle(n)'
  BY <1>7, RenamingRecords
<1>14. NamedAreBorn'
  BY <1>9, <1>10, <1>11 DEF NamedAreBorn, Types
<1>15. NotYetBorn'
  <2>1. ASSUME NEW v \in Writer
        PROVE  /\ writer'[v].at \in { "open", "classify", "fill_create" } => ~Born(<< v, 1 >>)'
               /\ writer'[v].at \in { "open", "classify", "classify_again", "fill_create", "link",
                                      "fill_replace" } => ~Born(<< v, 2 >>)'
    <3>1. CASE v = w
      <4>1. place = "link" => i = << w, 1 >> /\ ~Born(<< w, 2 >>)
        BY <1>1, <1>2, <1>3 DEF Temporary, At, NotYetBorn
      <4>2. << w, 2 >> # << w, 1 >>
        OBVIOUS
      <4> QED BY <1>2, <1>9, <1>13, <3>1, <4>1, <4>2, Inodes
    <3>2. CASE v # w
      <4>1. i # << v, 1 >> /\ i # << v, 2 >>
        BY <1>1, <3>2 DEF Temporary
      <4> QED BY <1>9, <1>13, <3>2, <4>1, Inodes DEF NotYetBorn
    <3> QED BY <3>1, <3>2
  <2>2. ASSUME NEW m \in 1 .. MaxMeddling, m > meddling PROVE ~Born(<< "meddler", m >>)'
    <3>1. i # << "meddler", m >>
      BY <1>1, BaselineAssumption DEF Temporary
    <3> QED BY <1>9, <2>2, <3>1, Inodes DEF NotYetBorn
  <2> QED BY <1>3, <2>1, <2>2 DEF NotYetBorn
<1>16. NamesApart'
  BY <1>8, <1>10, <1>11, <1>13 DEF NamesApart, NamedAreBorn
<1>17. Displacing' /\ TempIsThere'
  BY <1>2, <1>3, <1>10, <1>11, <1>13 DEF Displacing, TempIsThere
<1>18. Undisturbed'
  <2>1. entry'["baseline"] = entry["baseline"]
    BY <1>10
  <2>2. inode'[FirstFile] = inode[FirstFile]
    BY <1>1, <1>3, Inodes, BaselineAssumption DEF Temporary, FirstFile, Types
  <2>3. \A v \in Writer : /\ Made(v)' => Made(v)
                          /\ writer'[v].at \in { "unlink", "ok" } => writer[v].at \in { "unlink", "ok" }
    BY <1>2, <1>13 DEF Made
  <2>4. \A j \in Ino : j # i => inode'[j] = inode[j] /\ (Born(j)' <=> Born(j))
    BY <1>3, <1>9 DEF Types
  <2>5. inode'[i].kind = "regular" /\ inode'[i].part = Whole(w) /\ w \in Version \ { None }
    BY <1>3, BaselineAssumption DEF Types, Regular, Version
  <2>6. meddling = 0 => \A j \in Ino : Born(j)' =>
          inode'[j].kind = "regular" /\ \E version \in Version \ { None } : inode'[j].part = Whole(version)
    BY <2>4, <2>5 DEF Undisturbed
  <2> QED BY <1>3, <2>1, <2>2, <2>3, <2>6 DEF Undisturbed
<1> QED BY <1>6, <1>12, <1>14, <1>15, <1>16, <1>17, <1>18

\* What renaming leaves to prove where no file is made: who is born, who is
\* apart, and that the published name is there.
LEMMA MovingKeeps ==
  ASSUME IInv, NEW w \in Writer, NEW place, Renaming(w, place), SameFiles,
         \A n \in Name \ { w, "baseline" } : entry'[n] = entry[n],
         entry'["baseline"] = entry[w] /\ entry[w] # None,
         entry'[w] = entry["baseline"] \/ (entry'[w] = entry[w] /\ place = "unlink"),
         place \in { "unlink", "look", "undone" },
         place = "unlink" => entry["baseline"] = None /\ writer[w].at = "link"
  PROVE  IInv'
<1> USE Kinds, NoneIsNothingElse DEF IInv
<1>1. /\ writer'[w].at = place
      /\ \A v \in Writer : v # w => writer'[v].at = writer[v].at
      /\ \A v \in Writer : writer'[v].displaced = writer[v].displaced
      /\ \A n \in Name : Idle(n) => Idle(n)'
      /\ ~Idle(w)
  BY RenamingRecords
<1>2. Types' /\ meddling' = meddling
  BY DEF Renaming
<1>3. \A i \in Ino : Born(i)' <=> Born(i)
  BY DEF SameFiles
<1>4. NamedAreBorn'
  BY <1>2, <1>3 DEF NamedAreBorn, Types
<1>5. NotYetBorn'
  BY <1>1, <1>2, <1>3, Inodes DEF NotYetBorn, Renaming, Early
<1>6. NamesApart'
  <2>1. place = "unlink" => Idle(w)'
    BY <1>1 DEF Idle
  <2>2. \A n \in Name \ { w, "baseline" } :
          /\ entry'[n] = entry'["baseline"] => Idle(n)'
          /\ entry'[n] = entry'[w] /\ entry'[w] # None => Idle(n)' \/ Idle(w)'
    <3>1. ~Idle("baseline")
      BY DEF Idle
    <3> QED BY <1>1, <2>1, <3>1 DEF NamesApart
  <2>3. entry'[w] = entry'["baseline"] /\ entry'[w] # None => Idle(w)'
    <3>1. ~Idle("baseline")
      BY DEF Idle
    <3> QED BY <1>1, <2>1, <3>1 DEF NamesApart
  <2>4. ASSUME NEW n \in Name \ { w, "baseline" }, NEW m \in Name \ { w, "baseline" }, n # m,
               entry'[n] = entry'[m], entry'[n] # None
        PROVE  Idle(n)' \/ Idle(m)'
    BY <1>1, <2>4 DEF NamesApart
  <2> QED BY <2>2, <2>3, <2>4 DEF NamesApart
<1>7. ReplacedAreRetired' /\ ReplacedApart'
  <2>1. \A n \in Name : entry'[n] \in { entry[n], entry[w], entry["baseline"] }
    OBVIOUS
  <2> QED BY <1>3, <2>1, RetiredStays
<1>8. Displacing' /\ TempIsThere'
  BY <1>1 DEF Displacing, TempIsThere, Renaming, Early
<1>9. Undisturbed'
  <2>1. entry'["baseline"] # None
    OBVIOUS
  <2>2. ASSUME meddling = 0, NEW v \in Writer, NEW u \in Writer, v # u, Made(v)' PROVE ~Made(u)'
    <3>1. place = "unlink" => \A x \in Writer : ~Made(x)
      BY <2>2 DEF Undisturbed, Made
    <3>2. \A x \in Writer : x # w => (Made(x)' <=> Made(x))
      BY <1>1 DEF Made
    <3>3. place # "unlink" => ~Made(w)'
      BY <1>1 DEF Made
    <3> QED BY <2>2, <3>1, <3>2, <3>3 DEF Undisturbed
  <2>3. meddling = 0 => \A i \in Ino : Born(i)' =>
          inode'[i].kind = "regular" /\ \E version \in Version \ { None } : inode'[i].part = Whole(version)
    BY <1>3 DEF SameFiles, Undisturbed
  <2> QED BY <1>2, <2>1, <2>2, <2>3 DEF Undisturbed
<1> QED BY <1>2, <1>4, <1>5, <1>6, <1>7, <1>8, <1>9

LEMMA LinkKeeps == ASSUME IInv, NEW w \in Writer, LinkTemp(w) PROVE IInv'
<1> USE Kinds, NoneIsNothingElse DEF IInv
<1>1. writer[w].at = "link" /\ meddling' = meddling /\ entry[w] # None
  BY DEF LinkTemp, At, TempIsThere
<1>2. CASE entry["baseline"] = None
  <2>1. /\ entry' = [entry EXCEPT !["baseline"] = entry[w]]
        /\ inode' = Touched(entry[w])
        /\ writer' = [writer EXCEPT ![w] = [writer[w] EXCEPT !.at = "unlink"]]
    BY <1>2, Gone DEF LinkTemp
  <2>2. SameFiles
    BY <2>1, TouchKeeps DEF NamedAreBorn
  <2>3. Types'
    BY <1>1, <2>1, <2>2, RecordTypes DEF Types, SameFiles, WriterPlace
  <2>4. Renaming(w, "unlink")
    BY <1>1, <2>1, <2>3 DEF Renaming, Early
  <2>5. entry'["baseline"] = entry[w] /\ \A n \in Name \ { "baseline" } : entry'[n] = entry[n]
    BY <2>1 DEF Types
  <2> QED BY <1>1, <1>2, <2>2, <2>4, <2>5, MovingKeeps
<1>3. CASE entry["baseline"] # None
  <2> DEFINE record == [writer[w] EXCEPT !.at = "classify_again"]
  <2>1. /\ record \in WriterRecord /\ record.at = "classify_again"
        /\ record.displaced = writer[w].displaced
    <3>1. PICK old \in WriterRecord : old = writer[w]
      BY RecordTypes
    <3> QED BY <3>1 DEF WriterRecord, WriterPlace
  <2>2. /\ entry' = [entry EXCEPT ![w] = None] /\ inode' = inode
        /\ writer' = [writer EXCEPT ![w] = record]
    BY <1>3, Gone DEF LinkTemp
  <2> HIDE DEF record
  <2>3. Harmless(w, record)
    BY <1>1, <2>1, <2>2, Unchanged DEF Harmless, Idle, Early, Undisplaced, Displacing
  <2> QED BY <2>3, HarmlessKeeps
<1> QED BY <1>2, <1>3

LEMMA SwapKeeps ==
  ASSUME IInv, NEW w \in Writer, CanSwap(w), Swap(w), meddling' = meddling,
         \/ (writer[w].at = "exchange" /\ Go(w, "look"))
         \/ (writer[w].at = "undo" /\ Go(w, "undone"))
  PROVE  IInv'
<1> USE Kinds, NoneIsNothingElse DEF IInv
<1>1. PICK place \in { "look", "undone" } :
        /\ writer' = [writer EXCEPT ![w] = [writer[w] EXCEPT !.at = place]]
        /\ writer[w].at = IF place = "look" THEN "exchange" ELSE "undo"
  BY Gone
<1>2. entry[w] \in Ino /\ entry["baseline"] \in Ino /\ Born(entry[w]) /\ Born(entry["baseline"])
  BY DEF CanSwap, Types, NamedAreBorn
<1>3. SameFiles
  <2>1. { entry["baseline"], entry[w] } \in SUBSET Ino
        /\ \A i \in { entry["baseline"], entry[w] } : Born(i)
    BY <1>2
  <2>2. inode' = [i \in Ino |-> IF i \in { entry["baseline"], entry[w] }
                                THEN [inode[i] EXCEPT !.ctime = @ + 1] ELSE inode[i]]
    BY DEF Swap
  <2> QED BY <2>1, <2>2, TouchingKeeps
<1>4. /\ entry'["baseline"] = entry[w] /\ entry'[w] = entry["baseline"]
      /\ \A n \in Name \ { w, "baseline" } : entry'[n] = entry[n]
  BY DEF Swap, Types
<1>5. Types'
  BY <1>1, <1>2, <1>3, RecordTypes DEF Types, SameFiles, WriterPlace, Swap
<1>6. Renaming(w, place)
  BY <1>1, <1>5 DEF Renaming
<1>7. entry'["baseline"] = entry[w] /\ entry[w] # None
  BY <1>2, <1>4
<1>8. place \in { "unlink", "look", "undone" } /\ place # "unlink"
  BY <1>1
<1> HIDE DEF IInv
<1> QED BY <1>3, <1>4, <1>6, <1>7, <1>8, MovingKeeps

LEMMA ExchangingKeeps == ASSUME IInv, NEW w \in Writer, Exchange(w) \/ Undo(w) PROVE IInv'
<1>1. CASE Exchange(w)
  <2>1. CASE CanSwap(w)
    BY <1>1, <2>1, SwapKeeps DEF Exchange, At
  <2>2. CASE ~CanSwap(w)
    BY <1>1, <2>2, FailingKeeps DEF Exchange, At, Idle
  <2> QED BY <2>1, <2>2
<1>2. CASE Undo(w)
  <2>1. CASE CanSwap(w)
    BY <1>2, <2>1, SwapKeeps DEF Undo, At
  <2>2. CASE ~CanSwap(w)
    BY <1>2, <2>2, FailingKeeps DEF Undo, At, Idle
  <2> QED BY <2>1, <2>2
<1> QED BY <1>1, <1>2

LEMMA EditedFile ==
  ASSUME NEW file \in File, NEW i \in 1 .. 2
  PROVE  Edited(file, i) \in File /\ Edited(file, i) # Unborn
<1>1. PICK part \in [1 .. 2 -> Version] : part = [file.part EXCEPT ![i] = "meddler"]
  BY DEF File, Version
<1>2. Edited(file, i) = [kind |-> file.kind, part |-> part,
                        mtime |-> file.mtime + 1, ctime |-> file.ctime + 1]
  BY <1>1 DEF Edited
<1>3. /\ file.kind \in { "regular", "other" }
      /\ file.mtime + 1 \in Nat /\ file.ctime + 1 \in Nat /\ file.mtime + 1 # 0
  BY DEF File
<1>4. Edited(file, i) \in File
  BY <1>2, <1>3 DEF File
<1>5. Edited(file, i).mtime # Unborn.mtime
  BY <1>2, <1>3 DEF Unborn
<1> QED BY <1>4, <1>5

\* Meddling takes the published name from its file, or rewrites that file.
LEMMA MeddlingKeeps == ASSUME IInv, Plant \/ Rewrite \/ Remove PROVE IInv'
<1> USE Kinds, NoneIsNothingElse, BaselineAssumption DEF IInv
<1>1. /\ meddling' = meddling + 1 /\ meddling < MaxMeddling /\ writer' = writer
      /\ meddling \in Nat /\ meddling' \in 1 .. MaxMeddling /\ meddling' \in 0 .. MaxMeddling
  BY DEF Plant, Rewrite, Remove, Meddle, Types
<1> DEFINE artefact == << "meddler", meddling' >>
<1>2. artefact \in Ino /\ ~Born(artefact)
  BY <1>1, Inodes DEF NotYetBorn
<1>3. PICK planted \in Ino : planted = artefact
  BY <1>2
<1> HIDE DEF artefact
<1>4. \A i \in Ino : inode[i] \in File
  BY DEF Types
<1>5. /\ inode' \in [Ino -> File]
      /\ \A i \in Ino : i # planted => (Born(i)' <=> Born(i))
      /\ entry'["baseline"] \in { entry["baseline"], None, planted }
      /\ entry'["baseline"] = planted => Born(planted)'
      /\ Born(planted)' => entry'["baseline"] = planted
      /\ \A n \in Name \ { "baseline" } : entry'[n] = entry[n]
      /\ entry' \in [Name -> Ino \cup { None }]
  <2>1. CASE Plant
    <3> DEFINE thing == [Unborn EXCEPT !.part = Whole("meddler")]
    <3>1. thing \in File /\ thing # Unborn
      BY DEF Unborn, File, Whole, Version
    <3> HIDE DEF thing
    <3>2. /\ entry' = [entry EXCEPT !["baseline"] = planted]
          /\ inode' = [inode EXCEPT ![planted] = thing]
      BY <1>3, <2>1 DEF Plant, artefact, thing
    <3> QED BY <3>1, <3>2 DEF Types, Born
  <2>2. CASE Rewrite
    <3>1. PICK i \in 1 .. 2 :
            inode' = [inode EXCEPT ![entry["baseline"]] = Edited(inode[entry["baseline"]], i)]
      BY <2>2 DEF Rewrite
    <3>2. entry["baseline"] \in Ino /\ Born(entry["baseline"]) /\ entry' = entry
      BY <2>2, StatType DEF Rewrite, IsRegular, Types, NamedAreBorn
    <3>3. PICK old \in File : old = inode[entry["baseline"]]
      BY <1>4, <3>2
    <3> DEFINE new == Edited(old, i)
    <3>4. new \in File /\ new # Unborn
      BY EditedFile
    <3>6. inode' = [inode EXCEPT ![entry["baseline"]] = new]
      BY <3>1, <3>3
    <3> HIDE DEF new
    <3> QED BY <1>2, <1>3, <3>2, <3>4, <3>6 DEF Types, Born
  <2>3. CASE Remove
    <3>1. entry' = [entry EXCEPT !["baseline"] = None] /\ inode' = inode
      BY <2>3 DEF Remove
    <3> QED BY <1>2, <1>3, <3>1 DEF Types, Born
  <2> QED BY <2>1, <2>2, <2>3
<1>6. Types' /\ Undisturbed'
  BY <1>1, <1>5 DEF Types, Undisturbed
<1>7. \A n \in Name : Idle(n)' <=> Idle(n)
  BY <1>1 DEF Idle
<1>8. \A i \in Ino : Born(i) => Born(i)' /\ i # planted
  BY <1>2, <1>3, <1>5
<1>9. NamedAreBorn'
  BY <1>5, <1>8 DEF NamedAreBorn, Types
<1>10. NotYetBorn'
  <2>1. ASSUME NEW v \in Writer, NEW k \in { 1, 2 } PROVE << v, k >> # planted
    BY <1>1, <1>3, Inodes DEF artefact
  <2>2. ASSUME NEW m \in 1 .. MaxMeddling, m > meddling' PROVE << "meddler", m >> # planted
    BY <1>1, <1>3, <2>2 DEF artefact
  <2> QED BY <1>1, <1>5, <2>1, <2>2, Inodes DEF NotYetBorn
<1>11. NamesApart'
  BY <1>2, <1>3, <1>5, <1>7, <1>8 DEF NamesApart, NamedAreBorn
<1>12. \A i \in Ino : Retired(i) => Retired(i)'
  BY <1>5, <1>7, <1>8 DEF Retired
<1>13. ReplacedAreRetired' /\ ReplacedApart' /\ Displacing' /\ TempIsThere'
  BY <1>1, <1>5, <1>12
     DEF ReplacedAreRetired, ReplacedApart, Replaced, Displacing, TempIsThere, Retired
<1> QED BY <1>6, <1>9, <1>10, <1>11, <1>13

-----------------------------------------------------------------------------
(* The invariants of the specification. *)
LEMMA NextKeeps == IInv /\ [Next]_vars => IInv'
<1> SUFFICES ASSUME IInv, [Next]_vars PROVE IInv'
  OBVIOUS
<1>1. ASSUME NEW w \in Writer, WriterStep(w) \/ Dies(w) PROVE IInv'
  BY <1>1, LookingKeeps, JudgingKeeps, CheckingKeeps, UnlinkKeeps, LookKeeps, WriteTempKeeps,
     LinkKeeps, ExchangingKeeps DEF WriterStep
<1>2. CASE UNCHANGED << entry, inode, writer, meddling >>
  BY <1>2 DEF IInv, Types, NamedAreBorn, Born, NotYetBorn, NamesApart, Idle, ReplacedAreRetired,
              Retired, Replaced, ReplacedApart, Displacing, TempIsThere, Undisturbed, Made
<1>3. ASSUME NEW r \in Reader, ReaderStep(r) PROVE IInv'
  BY <1>2, <1>3
     DEF ReaderStep, OpenForReading, StatToRead, OpenFile, ReadPart, CheckRead, LastStat, ReaderOnly
<1>4. CASE Plant \/ Rewrite \/ Remove
  BY <1>4, MeddlingKeeps
<1>5. CASE UNCHANGED vars
  BY <1>2, <1>5 DEF vars
<1> QED BY <1>1, <1>3, <1>4, <1>5 DEF Next

\* The strengthening holds in every state of every interleaving of calls,
\* loads, deaths and meddling (write_baseline, load_baseline).
THEOREM Inductive == Spec => []IInv
<1> QED BY InitHolds, NextKeeps, PTL DEF Spec

\* However many calls of trust-repo-admin run, and whatever is done to the
\* directory meanwhile, no two that report success took the place of the
\* same file (_publish_create, _publish_replace).
THEOREM OneSuccessorEachHolds == Spec => []OneSuccessorEach
<1>1. IInv => OneSuccessorEach
  <2> SUFFICES ASSUME IInv, NEW w \in Writer, NEW v \in Writer, w # v, At(w, "ok"), At(v, "ok"),
                      meddling = 0 \/ Predecessor(w) # None, Predecessor(w) = Predecessor(v)
               PROVE  FALSE
    BY DEF OneSuccessorEach
  <2>1. CASE Replaced(w) /\ Replaced(v)
    BY <2>1 DEF IInv, ReplacedApart, Replaced, Predecessor, Missing
  <2>2. CASE ~Replaced(w) /\ ~Replaced(v)
    BY <2>2 DEF IInv, Undisturbed, Made, Replaced, At, Predecessor, Missing
  <2>3. CASE Replaced(w) # Replaced(v)
    BY <2>3, NoneIsNothingElse
       DEF IInv, ReplacedAreRetired, Retired, Replaced, At, Predecessor, Missing
  <2> QED BY <2>1, <2>2, <2>3 DEF Replaced
<1> QED BY <1>1, Inductive, PTL

\* As long as only calls touch the directory, an established baseline is a
\* whole regular file at every moment, however the calls meet or die.
THEOREM BaselineStandsHolds == Spec => []BaselineStands
<1>1. IInv => BaselineStands
  <2> SUFFICES ASSUME IInv, meddling = 0,
                      inode[FirstFile].part = Whole("first") \/ \E w \in Writer : At(w, "ok")
               PROVE  /\ IsRegular(Stat("baseline"))
                      /\ \E version \in Version \ { None } :
                           inode[entry["baseline"]].part = Whole(version)
    BY DEF BaselineStands
  <2>1. entry["baseline"] # None
    BY DEF IInv, Undisturbed, At
  <2>2. entry["baseline"] \in Ino /\ Born(entry["baseline"])
    BY <2>1, Kinds DEF IInv, Types, NamedAreBorn
  <2>3. inode[entry["baseline"]].kind = "regular"
        /\ \E version \in Version \ { None } : inode[entry["baseline"]].part = Whole(version)
    BY <2>2 DEF IInv, Undisturbed
  <2> QED BY <2>1, <2>3, Kinds, StatType DEF IInv, IsRegular
<1> QED BY <1>1, Inductive, PTL

\* A load reads from a file it has opened.
Opened == \A r \in Reader : reader[r].at \in { "read", "more" } => reader[r].ino \in Ino

LEMMA ReadingKeepsTypes ==
  ASSUME IInv, TypeOK, Opened, NEW r \in Reader, ReaderStep(r)
  PROVE  reader' \in [Reader -> ReaderRecord] /\ Opened'
<1> USE DEF IInv
<1>0. reader \in [Reader -> ReaderRecord]
  BY DEF TypeOK
<1>1. PICK old \in ReaderRecord : old = reader[r]
  BY <1>0
<1>2. PICK info \in StatOrNone : info = Stat("baseline")
  BY StatType, Kinds
<1>3. info # None => info.ino \in Ino
  BY DEF StatOrNone, Info
<1> DEFINE Places == { "open", "stat", "fopen", "read", "more", "check", "last",
                       "loaded", "unestablished", "unreadable" }
<1>4. ASSUME NEW new \in ReaderRecord, reader' = [reader EXCEPT ![r] = new],
             new.at \in { "read", "more" } => new.ino \in Ino
      PROVE  reader' \in [Reader -> ReaderRecord] /\ Opened'
  BY <1>0, <1>4 DEF Opened
<1>5. ASSUME NEW place \in Places \ { "read", "more" }, Reach(r, place)
      PROVE  reader' \in [Reader -> ReaderRecord] /\ Opened'
  <2>1. [old EXCEPT !.at = place] \in ReaderRecord /\ [old EXCEPT !.at = place].at = place
    BY DEF ReaderRecord
  <2>2. reader' = [reader EXCEPT ![r] = [old EXCEPT !.at = place]]
    BY <1>1, <1>5 DEF Reach
  <2> QED BY <1>4, <2>1, <2>2
<1>6. CASE OpenForReading(r) \/ CheckRead(r) \/ LastStat(r)
  BY <1>5, <1>6 DEF OpenForReading, CheckRead, LastStat, Absence
<1>7. CASE StatToRead(r)
  <2>1. CASE IsRegular(Stat("baseline"))
    <3>1. /\ [old EXCEPT !.at = "fopen", !.saw = info] \in ReaderRecord
          /\ [old EXCEPT !.at = "fopen", !.saw = info].at = "fopen"
      BY DEF ReaderRecord
    <3>2. reader' = [reader EXCEPT ![r] = [old EXCEPT !.at = "fopen", !.saw = info]]
      BY <1>1, <1>2, <1>7, <2>1 DEF StatToRead
    <3> QED BY <1>4, <3>1, <3>2
  <2>2. CASE ~IsRegular(Stat("baseline"))
    BY <1>5, <1>7, <2>2 DEF StatToRead, Absence
  <2> QED BY <2>1, <2>2
<1>8. CASE OpenFile(r)
  <2>1. CASE SameRegular(reader[r].saw, Stat("baseline"), FALSE)
    <3>1. info.ino \in Ino
      BY <1>2, <1>3, <2>1 DEF SameRegular, IsRegular, Missing
    <3>2. /\ [old EXCEPT !.at = "read", !.ino = info.ino] \in ReaderRecord
          /\ [old EXCEPT !.at = "read", !.ino = info.ino].ino = info.ino
      BY <3>1 DEF ReaderRecord
    <3>3. reader' = [reader EXCEPT ![r] = [old EXCEPT !.at = "read", !.ino = info.ino]]
      BY <1>1, <1>2, <1>8, <2>1 DEF OpenFile
    <3> QED BY <1>4, <3>1, <3>2, <3>3
  <2>2. CASE ~SameRegular(reader[r].saw, Stat("baseline"), FALSE)
    BY <1>5, <1>8, <2>2 DEF OpenFile, Absence
  <2> QED BY <2>1, <2>2
<1>9. ASSUME NEW place \in { "read", "more" }, NEW i \in 1 .. 2, NEW next \in { "more", "check" },
             ReadPart(r, place, i, next)
      PROVE  reader' \in [Reader -> ReaderRecord] /\ Opened'
  <2>1. old.ino \in Ino
    BY <1>1, <1>9 DEF ReadPart, Read, Opened
  <2>2. PICK bytes \in Version : bytes = inode[old.ino].part[i]
    BY <2>1 DEF Types, File
  <2>3. PICK got \in [1 .. 2 -> Version] : got = [old.got EXCEPT ![i] = bytes]
    BY DEF ReaderRecord
  <2> DEFINE new == [old EXCEPT !.at = next, !.got = got]
  <2>4. new \in ReaderRecord /\ new.ino = old.ino
    BY DEF ReaderRecord
  <2>5. reader' = [reader EXCEPT ![r] = new]
    BY <1>0, <1>1, <1>9, <2>2, <2>3 DEF ReadPart, ReaderRecord
  <2> HIDE DEF new
  <2> QED BY <1>4, <2>1, <2>4, <2>5
<1> QED BY <1>6, <1>7, <1>8, <1>9 DEF ReaderStep

\* Every variable keeps its type, the loads' included.
THEOREM TypeOKHolds == Spec => []TypeOK
<1>1. Init => TypeOK /\ Opened
  <2> SUFFICES ASSUME Init PROVE TypeOK /\ Opened
    OBVIOUS
  <2>1. Types
    BY InitHolds DEF IInv
  <2>2. NewReader \in ReaderRecord /\ NewReader.at = "open"
    BY DEF NewReader, ReaderRecord, StatOrNone, Version, Whole
  <2>3. reader = [r \in Reader |-> NewReader] /\ keydir \in { "absent", "link", "real" }
    BY DEF Init
  <2> QED BY <2>1, <2>2, <2>3 DEF Types, TypeOK, Opened
<1>2. IInv /\ TypeOK /\ Opened /\ [Next]_vars => (TypeOK /\ Opened)'
  <2> SUFFICES ASSUME IInv, TypeOK, Opened, [Next]_vars PROVE (TypeOK /\ Opened)'
    OBVIOUS
  <2>1. Types'
    BY NextKeeps DEF IInv
  <2>2. keydir' \in { "absent", "link", "real" }
    BY DEF TypeOK, Next, WriterStep, ReaderStep, OpenDirectories, Classify, ClassifyAgain,
           WriteTemp, WriteTempFails, LinkTemp, UnlinkTemp, Recheck, Exchange, Look, Final, Undo,
           Undone, Dies, OpenForReading, StatToRead, OpenFile, ReadPart, CheckRead, LastStat,
           ReaderOnly, Plant, Rewrite, Remove, Meddle, vars
  <2>3. CASE reader' = reader
    BY <2>1, <2>2, <2>3 DEF TypeOK, Types, Opened
  <2>4. CASE \E r \in Reader : ReaderStep(r)
    BY <2>1, <2>2, <2>4, ReadingKeepsTypes DEF TypeOK, Types
  <2>5. reader' = reader \/ \E r \in Reader : ReaderStep(r)
    BY DEF Next, WriterStep, OpenDirectories, Classify, ClassifyAgain,
           WriteTemp, WriteTempFails, LinkTemp, UnlinkTemp, Recheck, Exchange, Look, Final, Undo,
           Undone, Dies, Plant, Rewrite, Remove, Meddle, vars
  <2> QED BY <2>3, <2>4, <2>5
<1> QED BY <1>1, <1>2, Inductive, PTL DEF Spec

-----------------------------------------------------------------------------
(* What a file that exists can become.                                     *)

\* Its kind is for good, and its bytes are while its mtime is.
Ages(i) ==
  /\ Born(i)'
  /\ inode'[i].kind = inode[i].kind
  /\ inode'[i].mtime >= inode[i].mtime
  /\ inode'[i].mtime = inode[i].mtime => inode'[i].part = inode[i].part

LEMMA TouchedAges ==
  ASSUME Types, NEW some,
         inode' = [i \in Ino |-> IF i \in some THEN [inode[i] EXCEPT !.ctime = @ + 1] ELSE inode[i]],
         NEW i \in Ino, Born(i)
  PROVE  Ages(i)
<1>1. PICK file \in File : file = inode[i]
  BY DEF Types
<1>2. [file EXCEPT !.ctime = @ + 1].mtime = file.mtime /\ file.mtime \in Nat
  BY DEF File
<1> QED BY <1>1, <1>2, TouchedFile DEF Ages, Born

LEMMA OneTouchedAges ==
  ASSUME Types, NEW j, inode' = Touched(j), NEW i \in Ino, Born(i)
  PROVE  Ages(i)
<1>1. inode' = [k \in Ino |-> IF k \in { j } THEN [inode[k] EXCEPT !.ctime = @ + 1] ELSE inode[k]]
  BY DEF Touched, Types
<1> QED BY <1>1, TouchedAges

LEMMA FilesAge ==
  ASSUME IInv, [Next]_vars, NEW i \in Ino, Born(i)
  PROVE  Ages(i)
<1> USE DEF IInv
<1>1. inode[i] \in File /\ inode[i].mtime \in Nat
  BY DEF Types, File
<1>2. CASE inode' = inode
  BY <1>1, <1>2 DEF Ages, Born
<1>3. ASSUME NEW w \in Writer, WriterStep(w) \/ Dies(w)
      PROVE  Ages(i)
  <2>1. CASE LinkTemp(w) \/ UnlinkTemp(w)
    BY <1>2, <2>1, OneTouchedAges DEF LinkTemp, UnlinkTemp
  <2>2. CASE Exchange(w) \/ Undo(w)
    <3>1. inode' = inode \/ Swap(w)
      BY <2>2 DEF Exchange, Undo
    <3>2. CASE Swap(w)
      <4>1. inode' = [k \in Ino |-> IF k \in { entry["baseline"], entry[w] }
                                    THEN [inode[k] EXCEPT !.ctime = @ + 1] ELSE inode[k]]
        BY <3>2 DEF Swap
      <4> QED BY <4>1, TouchedAges
    <3> QED BY <1>2, <3>1, <3>2
  <2>3. CASE WriteTemp(w)
    <3>1. i # Temporary(w)
      BY <2>3 DEF WriteTemp, Temporary, At, NotYetBorn
    <3>2. inode'[i] = inode[i]
      BY <2>3, <3>1 DEF WriteTemp, Types
    <3> QED BY <1>1, <3>2 DEF Ages, Born
  <2>4. CASE ~(LinkTemp(w) \/ UnlinkTemp(w) \/ Exchange(w) \/ Undo(w) \/ WriteTemp(w))
    BY <1>2, <1>3, <2>4
       DEF WriterStep, OpenDirectories, Classify, ClassifyAgain, WriteTempFails, Recheck, Look,
           Final, Undone, Dies
  <2> QED BY <2>1, <2>2, <2>3, <2>4
<1>4. CASE Plant
  <2>1. meddling \in Nat /\ meddling' \in 1 .. MaxMeddling /\ meddling' > meddling
    BY <1>4, BaselineAssumption DEF Plant, Meddle, Types
  <2>2. i # << "meddler", meddling' >>
    BY <2>1 DEF NotYetBorn
  <2>3. inode'[i] = inode[i]
    BY <1>4, <2>2 DEF Plant, Types
  <2> QED BY <1>1, <2>3 DEF Ages, Born
<1>5. CASE Rewrite
  <2>1. PICK p \in 1 .. 2 :
          inode' = [inode EXCEPT ![entry["baseline"]] = Edited(inode[entry["baseline"]], p)]
    BY <1>5 DEF Rewrite
  <2>2. CASE i = entry["baseline"]
    <3>1. inode'[i] = Edited(inode[i], p)
      BY <2>1, <2>2 DEF Types
    <3>2. Edited(inode[i], p).kind = inode[i].kind /\ Edited(inode[i], p).mtime = inode[i].mtime + 1
      BY DEF Edited
    <3> QED BY <1>1, <3>1, <3>2, EditedFile DEF Ages, Born
  <2>3. CASE i # entry["baseline"]
    <3>1. inode'[i] = inode[i]
      BY <2>1, <2>3 DEF Types
    <3> QED BY <1>1, <3>1 DEF Ages, Born
  <2> QED BY <2>2, <2>3
<1>6. ASSUME NEW r \in Reader, ReaderStep(r)
      PROVE  Ages(i)
  BY <1>2, <1>6
     DEF ReaderStep, OpenForReading, StatToRead, OpenFile, ReadPart, CheckRead, LastStat, ReaderOnly
<1>7. CASE Remove \/ UNCHANGED vars
  BY <1>2, <1>7 DEF Remove, vars
<1> QED BY <1>3, <1>4, <1>5, <1>6, <1>7 DEF Next

-----------------------------------------------------------------------------
(* What a load holds of the file it opened. *)

\* While the file's mtime is the one it saw first, what it read of it is there.
HoldsOf(r) ==
  LET i == reader[r].ino IN
  reader[r].at \in { "read", "more", "check", "last" } =>
    /\ i \in Ino /\ Born(i)
    /\ reader[r].saw # None /\ reader[r].saw.ino = i
    /\ reader[r].saw.mtime \in Nat /\ reader[r].saw.mtime <= inode[i].mtime
    /\ reader[r].saw.mtime = inode[i].mtime =>
         /\ reader[r].at \in { "more", "check", "last" } => reader[r].got[1] = inode[i].part[1]
         /\ reader[r].at \in { "check", "last" } => reader[r].got[2] = inode[i].part[2]

LEMMA HeldStays ==
  ASSUME IInv, [Next]_vars, NEW r \in Reader, HoldsOf(r), reader'[r] = reader[r]
  PROVE  HoldsOf(r)'
<1> DEFINE i == reader[r].ino
<1> SUFFICES ASSUME reader[r].at \in { "read", "more", "check", "last" }
             PROVE  HoldsOf(r)'
  BY DEF HoldsOf
<1>1. /\ i \in Ino /\ Born(i)
      /\ reader[r].saw # None /\ reader[r].saw.ino = i
      /\ reader[r].saw.mtime \in Nat /\ reader[r].saw.mtime <= inode[i].mtime
  BY DEF HoldsOf
<1>2. Ages(i)
  BY <1>1, FilesAge
<1>3. inode[i].mtime \in Nat /\ inode'[i].mtime \in Nat
  BY <1>1, NextKeeps DEF IInv, Types, File
<1>4. reader[r].saw.mtime = inode'[i].mtime =>
        reader[r].saw.mtime = inode[i].mtime /\ inode'[i].part = inode[i].part
  BY <1>1, <1>2, <1>3 DEF Ages
<1> QED BY <1>1, <1>2, <1>3, <1>4 DEF HoldsOf, Ages

LEMMA Reaching ==
  ASSUME TypeOK, NEW r \in Reader, NEW place, Reach(r, place)
  PROVE  reader'[r].at = place
<1>1. PICK old \in ReaderRecord : old = reader[r]
  BY DEF TypeOK
<1>2. reader'[r] = [old EXCEPT !.at = place]
  BY <1>1 DEF Reach, TypeOK
<1> QED BY <1>2 DEF ReaderRecord

LEMMA LoadsHold ==
  ASSUME IInv, TypeOK, [Next]_vars, \A r \in Reader : HoldsOf(r), NEW q \in Reader
  PROVE  HoldsOf(q)'
<1>1. CASE reader'[q] = reader[q]
  BY <1>1, HeldStays
<1>2. ASSUME NEW r \in Reader, ReaderStep(r)
      PROVE  HoldsOf(q)'
  <2>0. reader \in [Reader -> ReaderRecord] /\ inode' = inode /\ entry' = entry
    BY <1>2 DEF TypeOK, ReaderStep, OpenForReading, StatToRead, OpenFile, ReadPart, CheckRead,
                LastStat, ReaderOnly
  <2>1. CASE q # r
    <3>1. reader'[q] = reader[q]
      BY <1>2, <2>0, <2>1 DEF ReaderStep, OpenForReading, StatToRead, OpenFile, ReadPart,
                              CheckRead, LastStat, Reach
    <3> QED BY <1>1, <3>1
  <2>2. CASE q = r
    <3>1. PICK old \in ReaderRecord : old = reader[q]
      BY <2>0
    <3>2. CASE OpenForReading(r) \/ StatToRead(r)
      <4>1. ASSUME NEW place \in { "stat", "unestablished", "unreadable" }, Reach(r, place)
            PROVE  HoldsOf(q)'
        BY <2>2, <4>1, Reaching DEF HoldsOf
      <4>2. ASSUME reader' = [reader EXCEPT ![r].at = "fopen", ![r].saw = Stat("baseline")]
            PROVE  HoldsOf(q)'
        <5>1. reader'[q] = [old EXCEPT !.at = "fopen", !.saw = Stat("baseline")]
          BY <2>0, <2>2, <3>1, <4>2
        <5>2. reader'[q].at = "fopen"
          BY <5>1 DEF ReaderRecord
        <5> QED BY <5>2 DEF HoldsOf
      <4> QED BY <3>2, <4>1, <4>2 DEF OpenForReading, StatToRead, Absence
    <3>3. CASE OpenFile(r)
      <4> DEFINE opened == Stat("baseline")
      <4>1. CASE SameRegular(reader[r].saw, opened, FALSE)
        <5>1. ~Missing(opened) /\ opened # None /\ entry["baseline"] # None
          BY <4>1, Kinds, StatType DEF SameRegular, IsRegular, Missing, IInv
        <5>2. /\ opened.ino = entry["baseline"] /\ opened.mtime = inode[entry["baseline"]].mtime
              /\ entry["baseline"] \in Ino
          BY <5>1, Kinds DEF Stat, IInv, Types
        <5>3. Born(entry["baseline"]) /\ inode[entry["baseline"]].mtime \in Nat
          BY <5>1, <5>2, Kinds DEF IInv, NamedAreBorn, Types, File
        <5>4. reader'[q] = [old EXCEPT !.at = "read", !.ino = opened.ino]
          BY <2>0, <2>2, <3>1, <3>3, <4>1 DEF OpenFile
        <5>5. /\ reader'[q].at = "read" /\ reader'[q].ino = opened.ino
              /\ reader'[q].saw = reader[q].saw
          BY <3>1, <5>4 DEF ReaderRecord
        <5>6. /\ reader[q].saw # None /\ reader[q].saw.ino = opened.ino
              /\ reader[q].saw.mtime = opened.mtime
          BY <2>2, <4>1 DEF SameRegular, IsRegular, Missing
        <5> HIDE DEF opened
        <5> QED BY <2>0, <5>2, <5>3, <5>5, <5>6 DEF HoldsOf, Born
      <4>2. CASE ~SameRegular(reader[r].saw, opened, FALSE)
        <5>1. PICK place \in { "unestablished", "unreadable" } : Reach(r, place)
          BY <3>3, <4>2 DEF OpenFile, Absence
        <5> QED BY <2>2, <5>1, Reaching DEF HoldsOf
      <4> QED BY <4>1, <4>2
    <3>4. CASE ReadPart(r, "read", 1, "more")
      <4>1. reader'[q] = [old EXCEPT !.at = "more", !.got[1] = inode[old.ino].part[1]]
        BY <2>0, <2>2, <3>1, <3>4 DEF ReadPart
      <4>2. /\ reader'[q].at = "more" /\ reader'[q].ino = old.ino /\ reader'[q].saw = old.saw
            /\ reader'[q].got[1] = inode[old.ino].part[1]
        BY <4>1 DEF ReaderRecord
      <4>3. HoldsOf(q) /\ reader[q].at = "read"
        BY <2>2, <3>4 DEF ReadPart, Read
      <4> QED BY <2>0, <3>1, <4>2, <4>3 DEF HoldsOf, Born
    <3>5. CASE ReadPart(r, "more", 2, "check")
      <4>1. reader'[q] = [old EXCEPT !.at = "check", !.got[2] = inode[old.ino].part[2]]
        BY <2>0, <2>2, <3>1, <3>5 DEF ReadPart
      <4>2. /\ reader'[q].at = "check" /\ reader'[q].ino = old.ino /\ reader'[q].saw = old.saw
            /\ reader'[q].got[2] = inode[old.ino].part[2]
            /\ reader'[q].got[1] = old.got[1]
        BY <4>1 DEF ReaderRecord
      <4>3. HoldsOf(q) /\ reader[q].at = "more"
        BY <2>2, <3>5 DEF ReadPart, Read
      <4> QED BY <2>0, <3>1, <4>2, <4>3 DEF HoldsOf, Born
    <3>6. CASE CheckRead(r) \/ LastStat(r)
      <4>1. PICK place \in { "last", "unreadable", "loaded", "unestablished" } : Reach(r, place)
        BY <3>6 DEF CheckRead, LastStat, Absence
      <4>2. place = "last" => reader[r].at = "check"
        <5>1. CASE CheckRead(r)
          BY <5>1 DEF CheckRead, Read
        <5>2. CASE LastStat(r)
          <6>1. PICK end \in { "loaded", "unestablished", "unreadable" } : Reach(r, end)
            BY <5>2 DEF LastStat, Absence
          <6>2. place = end
            BY <4>1, <6>1, Reaching
          <6> QED BY <6>2
        <5> QED BY <3>6, <5>1, <5>2
      <4>3. reader'[q] = [old EXCEPT !.at = place]
        BY <2>0, <2>2, <3>1, <4>1 DEF Reach
      <4>4. /\ reader'[q].at = place /\ reader'[q].ino = old.ino /\ reader'[q].saw = old.saw
            /\ reader'[q].got = old.got
        BY <4>3 DEF ReaderRecord
      <4>5. HoldsOf(q)
        OBVIOUS
      <4> QED BY <2>0, <2>2, <3>1, <4>2, <4>4, <4>5 DEF HoldsOf, Born
    <3> QED BY <1>2, <3>2, <3>3, <3>4, <3>5, <3>6 DEF ReaderStep
  <2> QED BY <2>1, <2>2
<1>3. reader' = reader \/ \E r \in Reader : ReaderStep(r)
  BY DEF Next, WriterStep, OpenDirectories, Classify, ClassifyAgain,
         WriteTemp, WriteTempFails, LinkTemp, UnlinkTemp, Recheck, Exchange, Look, Final, Undo,
         Undone, Dies, Plant, Rewrite, Remove, Meddle, vars
<1> QED BY <1>1, <1>2, <1>3

\* However a baseline is rewritten, replaced, removed or planted over while a
\* load reads it in parts, a load that succeeds returns the bytes the file
\* has at that moment under its name (_read_baseline_file).
THEOREM LoadsAreWhole == Spec => LoadedAsItStands
<1> DEFINE Held == \A r \in Reader : HoldsOf(r)
           Whole0 == \A r \in Reader :
                       Read(r, "loaded")' /\ ~Read(r, "loaded")
                         => reader[r].got = inode[entry["baseline"]].part
<1>1. Init => Held
  BY DEF Init, NewReader, HoldsOf
<1>2. IInv /\ TypeOK /\ Held /\ [Next]_vars => Held'
  BY LoadsHold
<1>3. IInv /\ TypeOK /\ Held /\ [Next]_vars => Whole0
  <2> SUFFICES ASSUME IInv, TypeOK, Held, [Next]_vars, NEW r \in Reader,
                      Read(r, "loaded")', ~Read(r, "loaded")
               PROVE  reader[r].got = inode[entry["baseline"]].part
    OBVIOUS
  <2>0. reader \in [Reader -> ReaderRecord]
    BY DEF TypeOK
  <2>1. reader'[r].at = "loaded" /\ reader[r].at # "loaded"
    BY DEF Read
  <2>2. PICK q \in Reader : ReaderStep(q)
    BY <2>1 DEF Next, WriterStep, OpenDirectories, Classify, ClassifyAgain,
         WriteTemp, WriteTempFails, LinkTemp, UnlinkTemp, Recheck, Exchange, Look, Final, Undo,
         Undone, Dies, Plant, Rewrite, Remove, Meddle, vars
  <2>3. q = r
    BY <2>0, <2>1, <2>2 DEF ReaderStep, OpenForReading, StatToRead, OpenFile, ReadPart,
                            CheckRead, LastStat, Reach
  <2>4. LastStat(r)
    <3>1. ASSUME NEW place, Reach(r, place)
          PROVE  place = "loaded"
      BY <2>1, <3>1, Reaching
    <3>2. PICK old \in ReaderRecord : old = reader[r]
      BY <2>0
    <3>3. ~OpenForReading(r) /\ ~CheckRead(r)
      BY <3>1 DEF OpenForReading, CheckRead
    <3>4. ASSUME NEW info, reader' = [reader EXCEPT ![r].at = "fopen", ![r].saw = info]
          PROVE  FALSE
      <4>1. reader'[r] = [old EXCEPT !.at = "fopen", !.saw = info]
        BY <2>0, <3>2, <3>4
      <4> QED BY <2>1, <4>1 DEF ReaderRecord
    <3>5. ASSUME NEW ino, reader' = [reader EXCEPT ![r].at = "read", ![r].ino = ino]
          PROVE  FALSE
      <4>1. reader'[r] = [old EXCEPT !.at = "read", !.ino = ino]
        BY <2>0, <3>2, <3>5
      <4> QED BY <2>1, <4>1 DEF ReaderRecord
    <3>6. ASSUME NEW place \in { "read", "more" }, NEW i \in { 1, 2 }, NEW next \in { "more", "check" },
                 ReadPart(r, place, i, next)
          PROVE  FALSE
      <4>1. reader'[r] = [old EXCEPT !.at = next, !.got[i] = inode[old.ino].part[i]]
        BY <2>0, <3>2, <3>6 DEF ReadPart
      <4> QED BY <2>1, <4>1 DEF ReaderRecord
    <3>7. ~StatToRead(r)
      BY <3>1, <3>4 DEF StatToRead, Absence
    <3>8. ~OpenFile(r)
      BY <3>1, <3>5 DEF OpenFile, Absence
    <3> QED BY <2>2, <2>3, <3>3, <3>6, <3>7, <3>8 DEF ReaderStep
  <2>5. reader[r].at = "last" /\ SameRegular(reader[r].saw, Stat("baseline"), FALSE)
    <3>1. CASE SameRegular(reader[r].saw, Stat("baseline"), FALSE)
      BY <2>4, <3>1 DEF LastStat, Read
    <3>2. CASE ~SameRegular(reader[r].saw, Stat("baseline"), FALSE)
      BY <2>0, <2>1, <2>4, <3>2 DEF LastStat, Reach, Absence, ReaderRecord
    <3> QED BY <3>1, <3>2
  <2>6. /\ entry["baseline"] # None
        /\ reader[r].saw.ino = entry["baseline"]
        /\ reader[r].saw.mtime = inode[entry["baseline"]].mtime
    <3>1. Stat("baseline") # None /\ entry["baseline"] # None
      BY <2>5, Kinds, StatType DEF SameRegular, IsRegular, Missing, IInv
    <3>2. /\ Stat("baseline").ino = entry["baseline"]
          /\ Stat("baseline").mtime = inode[entry["baseline"]].mtime
      BY <3>1 DEF Stat
    <3> QED BY <2>5, <3>1, <3>2 DEF SameRegular
  <2>7. /\ reader[r].got[1] = inode[entry["baseline"]].part[1]
        /\ reader[r].got[2] = inode[entry["baseline"]].part[2]
        /\ entry["baseline"] \in Ino
    BY <2>5, <2>6 DEF HoldsOf
  <2>8. /\ reader[r].got \in [1 .. 2 -> Version]
        /\ inode[entry["baseline"]].part \in [1 .. 2 -> Version]
    BY <2>0, <2>7 DEF IInv, Types, File, ReaderRecord
  <2>9. 1 .. 2 = { 1, 2 }
    OBVIOUS
  <2> QED BY <2>7, <2>8, <2>9
<1> HIDE DEF Held
<1> QED BY <1>1, <1>2, <1>3, Inductive, TypeOKHolds, PTL DEF Spec, LoadedAsItStands

-----------------------------------------------------------------------------
(* Whose names can go. *)

\* A call's own temporary is a regular file, until it may hold what the
\* exchange displaced.
TempIsOwn ==
  \A w \in Writer :
    /\ writer[w].at \in { "open", "classify", "classify_again", "fill_create", "fill_replace" }
         => entry[w] = None
    /\ writer[w].at \in { "link", "unlink", "recheck", "exchange" } /\ entry[w] # None
         => inode[entry[w]].kind = "regular"

LEMMA OthersLeaveTemps ==
  ASSUME IInv, TempIsOwn, [Next]_vars, NEW w \in Writer,
         writer'[w].at = writer[w].at, entry'[w] = entry[w]
  PROVE  /\ writer'[w].at \in { "open", "classify", "classify_again", "fill_create", "fill_replace" }
              => entry'[w] = None
         /\ writer'[w].at \in { "link", "unlink", "recheck", "exchange" } /\ entry'[w] # None
              => inode'[entry'[w]].kind = "regular"
<1>1. ASSUME entry[w] # None
      PROVE  entry[w] \in Ino /\ Born(entry[w])
  BY <1>1, Kinds DEF IInv, Types, NamedAreBorn
<1>2. entry[w] # None => inode'[entry[w]].kind = inode[entry[w]].kind
  BY <1>1, FilesAge DEF Ages
<1> QED BY <1>2 DEF TempIsOwn

LEMMA FailingPlace ==
  ASSUME Types, NEW w \in Writer, NEW keeps, NEW restored, Fails(w, keeps, restored)
  PROVE  writer'[w].at = "failed"
<1>1. PICK old \in WriterRecord : old = writer[w]
  BY DEF Types
<1>2. writer'[w] = [old EXCEPT !.at = "failed", !.restored = restored]
  BY <1>1 DEF Fails, Types
<1> QED BY <1>2 DEF WriterRecord

LEMMA TempsStayOwn == ASSUME IInv, TempIsOwn, [Next]_vars PROVE TempIsOwn'
<1> USE Kinds
<1> SUFFICES ASSUME NEW v \in Writer
             PROVE  /\ writer'[v].at \in { "open", "classify", "classify_again", "fill_create",
                                           "fill_replace" } => entry'[v] = None
                    /\ writer'[v].at \in { "link", "unlink", "recheck", "exchange" } /\ entry'[v] # None
                         => inode'[entry'[v]].kind = "regular"
  BY DEF TempIsOwn
<1>0. /\ writer \in [Writer -> WriterRecord] /\ entry \in [Name -> Ino \cup { None }]
      /\ inode \in [Ino -> File]
  BY DEF IInv, Types
<1>1. CASE writer'[v].at = writer[v].at /\ entry'[v] = entry[v]
  BY <1>1, OthersLeaveTemps
<1>2. ASSUME NEW w \in Writer, WriterStep(w) \/ Dies(w), w # v
      PROVE  writer'[v].at = writer[v].at /\ entry'[v] = entry[v]
  BY <1>0, <1>2 DEF WriterStep, OpenDirectories, Classify, ClassifyAgain, Judge,
         WriteTemp, WriteTempFails, LinkTemp, UnlinkTemp, Recheck, Exchange, Look, Final, Undo,
         Undone, Dies, Go, Fails, Swap
<1>3. CASE WriterStep(v) \/ Dies(v)
  <2>1. PICK old \in WriterRecord : old = writer[v]
    BY <1>0
  <2>2. ASSUME NEW place \in WriterPlace, Go(v, place)
        PROVE  writer'[v].at = place
    BY <1>0, <2>2 DEF Go, WriterRecord
  <2>3. entry[v] # None => entry[v] \in Ino /\ Born(entry[v])
    BY <1>0 DEF IInv, NamedAreBorn
  <2>4. entry[v] # None => inode'[entry[v]].kind = inode[entry[v]].kind
    BY <2>3, FilesAge DEF Ages
  <2>5. CASE OpenDirectories(v)
    BY <1>0, <2>2, <2>5 DEF OpenDirectories, At, TempIsOwn, WriterPlace
  <2>6. CASE Classify(v) \/ ClassifyAgain(v)
    <3>1. entry'[v] = entry[v] /\ entry[v] = None
      BY <2>6 DEF Classify, ClassifyAgain, At, TempIsOwn
    <3> QED BY <3>1
  <2>7. CASE WriteTemp(v)
    <3>1. entry'[v] = Temporary(v) /\ Temporary(v) \in Ino
      BY <1>0, <2>7, Inodes DEF WriteTemp, Temporary
    <3>2. inode'[Temporary(v)] = Filled(v)
      BY <1>0, <2>7, <3>1 DEF WriteTemp
    <3>3. writer'[v].at \in { "link", "recheck" }
      BY <2>2, <2>7 DEF WriteTemp, WriterPlace
    <3> QED BY <3>1, <3>2, <3>3 DEF Filled, Regular
  <2>8. CASE WriteTempFails(v) \/ Final(v) \/ Dies(v)
    <3>1. writer'[v].at \in { "ok", "failed", "dead" }
      BY <2>2, <2>8 DEF WriteTempFails, Final, Dies, WriterPlace
    <3> QED BY <3>1
  <2>9. CASE LinkTemp(v)
    <3>1. CASE entry["baseline"] = None
      <4>1. entry'[v] = entry[v] /\ writer'[v].at = "unlink"
        BY <1>0, <2>2, <2>9, <3>1 DEF LinkTemp, WriterPlace
      <4> QED BY <2>4, <2>9, <4>1 DEF LinkTemp, At, TempIsOwn
    <3>2. CASE entry["baseline"] # None
      <4>1. entry'[v] = None
        BY <1>0, <2>9, <3>2 DEF LinkTemp
      <4> QED BY <4>1
    <3> QED BY <3>1, <3>2
  <2>10. CASE UnlinkTemp(v)
    BY <1>0, <2>10 DEF UnlinkTemp
  <2>11. CASE Recheck(v)
    <3>1. CASE entry'[v] = entry[v]
      <4>1. writer'[v].at \in { "exchange", "failed" }
        <5>1. CASE Fails(v, FALSE, FALSE)
          BY <5>1, FailingPlace DEF IInv
        <5>2. CASE writer' = [writer EXCEPT ![v].at = "exchange", ![v].published = Stat(v)]
          <6>1. writer'[v] = [old EXCEPT !.at = "exchange", !.published = Stat(v)]
            BY <1>0, <2>1, <5>2
          <6> QED BY <6>1 DEF WriterRecord
        <5> QED BY <2>11, <5>1, <5>2 DEF Recheck
      <4> QED BY <2>4, <2>11, <3>1, <4>1 DEF Recheck, At, TempIsOwn
    <3>2. CASE entry'[v] = None
      BY <3>2
    <3> QED BY <1>0, <2>11, <3>1, <3>2 DEF Recheck, Fails
  <2>12. CASE Exchange(v) \/ Look(v) \/ Undo(v) \/ Undone(v)
    <3>1. writer'[v].at \in { "look", "failed", "final", "undo", "undone" }
      <4>1. CASE Exchange(v)
        BY <1>0, <2>1, <2>2, <4>1 DEF Exchange, Fails, WriterRecord, WriterPlace
      <4>2. CASE Look(v)
        BY <1>0, <2>1, <4>2 DEF Look, Fails, WriterRecord
      <4>3. CASE Undo(v)
        BY <1>0, <2>1, <2>2, <4>3 DEF Undo, Fails, WriterRecord, WriterPlace
      <4>4. CASE Undone(v)
        BY <4>4, FailingPlace DEF Undone, IInv
      <4> QED BY <2>12, <4>1, <4>2, <4>3, <4>4
    <3> QED BY <3>1
  <2> QED BY <1>3, <2>5, <2>6, <2>7, <2>8, <2>9, <2>10, <2>11, <2>12 DEF WriterStep
<1>4. ASSUME NEW r \in Reader, ReaderStep(r)
      PROVE  writer'[v].at = writer[v].at /\ entry'[v] = entry[v]
  BY <1>4
     DEF ReaderStep, OpenForReading, StatToRead, OpenFile, ReadPart, CheckRead, LastStat, ReaderOnly
<1>5. CASE Plant \/ Rewrite \/ Remove \/ UNCHANGED vars
  BY <1>0, <1>1, <1>5 DEF Plant, Rewrite, Remove, Meddle, vars
<1>6. ASSUME NEW w \in Writer, WriterStep(w) \/ Dies(w)
      PROVE  (writer'[v].at = writer[v].at /\ entry'[v] = entry[v]) \/ WriterStep(v) \/ Dies(v)
  BY <1>2, <1>6
<1> QED BY <1>1, <1>3, <1>4, <1>5, <1>6 DEF Next

\* A step that takes the last name of a file that is not regular undoes an exchange.
LEMMA OnlyAnUndoDrops ==
  ASSUME IInv, TempIsOwn, [Next]_vars, meddling' = meddling, NEW i \in Ino,
         inode[i].kind = "other", NEW n \in Name, entry[n] = i, \A m \in Name : entry'[m] # i
  PROVE  \E w \in Writer : At(w, "undone") /\ writer'[w].at = "failed"
<1> USE Kinds
<1>0. /\ writer \in [Writer -> WriterRecord] /\ entry \in [Name -> Ino \cup { None }]
      /\ meddling \in Nat
  BY DEF IInv, Types
<1>1. entry' # entry
  OBVIOUS
<1>2. PICK w \in Writer : WriterStep(w)
  <2>1. ~(Plant \/ Rewrite \/ Remove)
    BY <1>0 DEF Plant, Rewrite, Remove, Meddle
  <2>2. ASSUME NEW r \in Reader, ReaderStep(r) PROVE FALSE
    BY <1>1, <2>2
       DEF ReaderStep, OpenForReading, StatToRead, OpenFile, ReadPart, CheckRead, LastStat, ReaderOnly
  <2>3. ASSUME NEW w \in Writer, Dies(w) PROVE FALSE
    BY <1>1, <2>3 DEF Dies
  <2> QED BY <1>1, <2>1, <2>2, <2>3 DEF Next, vars
<1>3. i # None
  BY NoneIsNothingElse
<1>4. ASSUME NEW m, entry' = [entry EXCEPT ![w] = m]
      PROVE  n = w /\ entry[w] = i
  BY <1>0, <1>4
<1>5. entry[w] = i => writer[w].at \notin { "open", "classify", "classify_again", "fill_create",
                                          "fill_replace", "link", "unlink", "recheck", "exchange" }
  BY <1>3 DEF TempIsOwn
<1>6. ~(CanSwap(w) /\ Swap(w))
  BY <1>0 DEF Swap
<1>7. CASE Undone(w)
  <2>1. writer'[w].at = "failed"
    BY <1>7, FailingPlace DEF Undone, IInv
  <2> QED BY <1>7, <2>1 DEF Undone
<1>8. CASE WriteTemp(w) \/ UnlinkTemp(w)
  BY <1>4, <1>5, <1>8 DEF WriteTemp, UnlinkTemp, At
<1>9. CASE LinkTemp(w)
  <2>1. CASE entry["baseline"] = None
    BY <1>0, <1>3, <1>9, <2>1 DEF LinkTemp
  <2>2. CASE entry["baseline"] # None
    BY <1>4, <1>5, <1>9, <2>2 DEF LinkTemp, At
  <2> QED BY <2>1, <2>2
<1>10. CASE Recheck(w)
  BY <1>1, <1>4, <1>5, <1>10 DEF Recheck, Fails, At
<1>11. CASE Exchange(w)
  BY <1>1, <1>4, <1>5, <1>6, <1>11 DEF Exchange, Fails, At
<1>12. CASE Undo(w)
  BY <1>1, <1>6, <1>12 DEF Undo, Fails
<1>13. CASE Look(w)
  <2>1. SameRegular(writer[w].saw, Stat(w), TRUE) /\ entry' = [entry EXCEPT ![w] = None]
    BY <1>1, <1>13 DEF Look, Fails
  <2>2. entry[w] = i
    BY <1>4, <2>1
  <2>3. ~Missing(Stat(w)) /\ Stat(w).kind = "regular"
    BY <2>1 DEF SameRegular, IsRegular
  <2> QED BY <2>2, <2>3, StatType DEF IInv
<1>14. CASE OpenDirectories(w) \/ Classify(w) \/ ClassifyAgain(w) \/ WriteTempFails(w) \/ Final(w)
  BY <1>1, <1>14 DEF OpenDirectories, Classify, ClassifyAgain, WriteTempFails, Final
<1> QED BY <1>2, <1>7, <1>8, <1>9, <1>10, <1>11, <1>12, <1>13, <1>14 DEF WriterStep

\* However calls and meddling meet, nothing but a call that failed, undoing its
\* exchange, takes the last name of what is not a regular file: --replace
\* clears no artefact and reports success (_publish_replace).
THEOREM ArtefactsAreNeverCleared == Spec => PlantedIsNeverReplaced
<1> DEFINE Kept == \A i \in Ino :
                     inode[i].kind = "other" /\ Names(i) # {} /\ Names(i)' = {} /\ meddling' = meddling
                       => \E w \in Writer : At(w, "undone") /\ At(w, "failed")'
<1>1. Init => TempIsOwn
  <2> SUFFICES ASSUME Init, NEW w \in Writer PROVE writer[w].at = "open" /\ entry[w] = None
    BY DEF TempIsOwn
  <2>1. w \in Name /\ w # "baseline"
    BY Kinds
  <2> QED BY <2>1 DEF Init, NewWriter
<1>2. IInv /\ TempIsOwn /\ [Next]_vars => TempIsOwn'
  BY TempsStayOwn
<1>3. IInv /\ TempIsOwn /\ [Next]_vars => Kept
  <2> SUFFICES ASSUME IInv, TempIsOwn, [Next]_vars, NEW i \in Ino, inode[i].kind = "other",
                      Names(i) # {}, Names(i)' = {}, meddling' = meddling
               PROVE  \E w \in Writer : At(w, "undone") /\ At(w, "failed")'
    OBVIOUS
  <2>1. PICK n \in Name : entry[n] = i
    BY DEF Names
  <2>2. \A m \in Name : entry'[m] # i
    BY DEF Names
  <2>3. PICK w \in Writer : At(w, "undone") /\ writer'[w].at = "failed"
    BY <2>1, <2>2, OnlyAnUndoDrops
  <2> QED BY <2>3 DEF At
<1> QED BY <1>1, <1>2, <1>3, Inductive, PTL DEF Spec, PlantedIsNeverReplaced
=============================================================================
