--------------------------- MODULE MaildirSyncProofs ---------------------------
(***************************************************************************)
(* Proofs about the index of a Maildir, for any sets of names, rows and    *)
(* requests.  That a file is left is not inductive: a writer is about to   *)
(* remove the file it has replaced, and the worker one it takes for a      *)
(* duplicate.  The invariant adds that a file is left whose name no writer *)
(* is about to remove (Safe), and that a worker with a duplicate has seen  *)
(* another file, or no row with a file (DuplicateOK).  Names decide, for   *)
(* clients rename files to any flags and folder and keep the names.        *)
(***************************************************************************)
EXTENDS MaildirSync, TLAPS

\* Paths whose name was given out.
Given   == {p \in Path : p.name \in used}
GivenOr == Given \cup {NoPath}
Locals  == [kind : {"none", "save", "move", "flags", "delete", "compose", "copy"},
            at : {"idle", "state", "stat", "write", "remove", "record", "lookup", "rename", "touch",
                  "erase", "delete", "drop", "list", "exists", "same", "choose", "probe", "attach",
                  "dup", "unlink", "insert", "backfill", "verify", "clean"},
            row : Rows \cup {NoRow}, old : GivenOr, new : GivenOr, to : Folders \cup {NoFolder}]
Scanning == {"exists", "same", "choose", "probe", "attach", "dup", "unlink", "insert"}

DiskType  == used \subseteq Names /\ files \subseteq Given
IndexType == /\ rows \subseteq Rows /\ fresh \subseteq rows
             /\ folder \in [Rows -> Folders \cup {NoFolder}] /\ path \in [Rows -> GivenOr]
             /\ \A r \in rows : folder[r] \in Folders
ActType   == act \in [Actors -> Locals]
ScanType  == dir \in 0..Len(Dirs) /\ listing \subseteq Given /\ known \in BOOLEAN /\ batch \subseteq Rows
             /\ missing \subseteq Rows
CountType == ops \in 0..MaxOps /\ crashes \in 0..MaxCrashes
GhostType == asked \in BOOLEAN /\ stirred \in BOOLEAN /\ raced \in BOOLEAN
Types     == DiskType /\ IndexType /\ ActType /\ ScanType /\ CountType /\ GhostType

\* What an actor has at its step.
HasFolder(l) == \/ l.kind = "move" \/ l.at = "write"
                \/ l.at = "stat" /\ l.kind \in {"compose", "copy"}
                => l.to \in Folders
ActOK ==
    /\ \A a \in Actors : At(a, "rename") => act[a].new \in Path /\ act[a].old \in Path
                                           /\ act[a].new.name = act[a].old.name
    /\ \A a \in Actors : HasFolder(act[a])
    /\ W.at \in Scanning => W.new \in Path

\* A file whose name nobody is about to remove.
Kept(f) == \A a \in Actors : At(a, "remove") /\ act[a].old \in Path => act[a].old.name # f.name
Safe    == used # {} /\ ~asked /\ ~raced => \E f \in files : Kept(f)

\* No row has a file, or will have one that is there already.
HasFile(l) == l.at \in {"remove", "record", "rename"} \/ (l.at = "stat" /\ l.old # NoPath)
NothingFiled ==
    /\ \A r \in rows : path[r] = NoPath
    /\ \A a \in Requests : HasFile(act[a]) => act[a].row \notin rows
DuplicateOK ==
    /\ At(Worker, "probe") /\ ~stirred => files \ {W.new} # {} \/ rows \subseteq batch
    /\ At(Worker, "dup") /\ ~stirred => files \ {W.new} # {} \/ NothingFiled
    /\ At(Worker, "unlink") /\ ~stirred => files \ {W.new} # {}

IInv == Types /\ ActOK /\ Safe /\ DuplicateOK

------------------------------------------------------------------------------
LEMMA TypesAreTypeOK == Types => TypeOK
<1> SUFFICES ASSUME Types PROVE TypeOK
  OBVIOUS
<1>1. Given \subseteq Path /\ GivenOr \subseteq Path \cup {NoPath}
  BY DEF Given, GivenOr
<1>2. path \in [Rows -> Path \cup {NoPath}]
  BY <1>1 DEF Types, IndexType
<1> QED
  BY <1>1, <1>2 DEF Types, DiskType, IndexType, ScanType, CountType, GhostType, TypeOK

LEMMA FourDirs == Len(Dirs) = 4 /\ DOMAIN Dirs = 1..4
  BY DEF Dirs

LEMMA RestType == Rest \in Locals
  BY DEF Rest, Locals, GivenOr

LEMMA InitIInv == Init => IInv
<1> SUFFICES ASSUME Init PROVE IInv
  OBVIOUS
<1>1. DiskType /\ GhostType
  BY DEF Init, DiskType, GhostType
<1>2. IndexType
  BY DEF Init, IndexType, GivenOr
<1>3. ActType
  BY RestType DEF Init, ActType
<1>4. ScanType /\ CountType
  <2>1. 0 \in 0..Len(Dirs)
    BY FourDirs
  <2>2. ScanType
    BY <2>1 DEF Init, ScanType
  <2> QED
    BY <2>2, BoundsAssumption DEF Init, CountType
<1>5. \A a \in Actors : act[a] = Rest
  BY DEF Init
<1>6. \A a \in Actors : ~At(a, "rename") /\ ~At(a, "probe") /\ ~At(a, "dup") /\ ~At(a, "unlink")
                         /\ act[a].at \notin Scanning
  BY <1>5 DEF At, Rest, Scanning
<1>7. ActOK /\ DuplicateOK
  BY <1>5, <1>6 DEF ActOK, HasFolder, Rest, DuplicateOK, Actors, W
<1>8. Safe
  BY DEF Init, Safe
<1> QED
  BY <1>1, <1>2, <1>3, <1>4, <1>7, <1>8 DEF IInv, Types

------------------------------------------------------------------------------
(* Names given out stay so. *)

\* What is said of paths stays true when more names are given out.
LEMMA GivenGrows ==
  ASSUME used \subseteq used'
  PROVE  Given \subseteq Given' /\ GivenOr \subseteq GivenOr' /\ Locals \subseteq Locals'
<1>1. Given \subseteq Given' /\ GivenOr \subseteq GivenOr'
  BY DEF Given, GivenOr
<1>2. ASSUME NEW l \in Locals PROVE l \in Locals'
  BY <1>1, <1>2 DEF Locals
<1> QED
  BY <1>1, <1>2

LEMMA RestingTypes ==
  ASSUME Types, used \subseteq used'
  PROVE  /\ UNCHANGED disk => DiskType'
         /\ UNCHANGED index => IndexType'
         /\ UNCHANGED act => ActType'
         /\ UNCHANGED scan => ScanType'
         /\ UNCHANGED bounds => CountType'
         /\ UNCHANGED ghosts => GhostType'
<1> USE GivenGrows DEF Types
<1>1. UNCHANGED disk => DiskType'
  BY DEF disk, DiskType
<1>2. UNCHANGED index => IndexType'
  BY DEF index, IndexType
<1>3. UNCHANGED act => ActType'
  BY DEF ActType
<1>4. UNCHANGED scan => ScanType'
  BY DEF scan, ScanType
<1>5. (UNCHANGED bounds => CountType') /\ (UNCHANGED ghosts => GhostType')
  BY DEF bounds, CountType, ghosts, GhostType
<1> QED
  BY <1>1, <1>2, <1>3, <1>4, <1>5

\* A new file.
LEMMA CreateGives ==
  ASSUME Types, NEW f \in Folders, NEW s \in {"new", "cur"}, Create(NewPath(f, s))
  PROVE  /\ DiskType' /\ used \subseteq used' /\ used' # {}
         /\ NewPath(f, s) \in Given' /\ NewPath(f, s).name \notin used
         /\ files' = files \cup {NewPath(f, s)}
<1> DEFINE n == CHOOSE m \in Names \ used : TRUE
           p == NewPath(f, s)
<1>1. n \in Names \ used
  BY DEF Create, Types, DiskType
<1>2. p = [name |-> n, folder |-> f, sub |-> s]
  BY DEF NewPath
<1> HIDE DEF n, p
<1>3. p \in Path /\ p.name = n
  BY <1>1, <1>2 DEF Path
<1>4. files' = files \cup {p} /\ used' = used \cup {p.name}
  BY DEF Create, p
<1>5. p \in Given' /\ used \subseteq used'
  BY <1>3, <1>4 DEF Given
<1>6. DiskType'
  BY <1>1, <1>3, <1>4, <1>5, GivenGrows DEF Types, DiskType
<1> QED
  BY <1>1, <1>3, <1>4, <1>5, <1>6 DEF p

LEMMA OperationType == Types /\ Operation => CountType'
  BY BoundsAssumption DEF Types, CountType, Operation
LEMMA StirType == ASSUME Types, NEW a, Stir(a) PROVE stirred' \in BOOLEAN
  BY DEF Stir, Types, GhostType

\* The statements.
LEMMA UpdateType ==
  ASSUME Types, used \subseteq used', NEW r, NEW f \in Folders, NEW p \in GivenOr, Update(r, f, p)
  PROVE  IndexType'
<1>1. GivenOr \subseteq GivenOr'
  BY GivenGrows
<1> QED
  BY <1>1 DEF Types, IndexType, Update, index
LEMMA InsertType ==
  ASSUME Types, UNCHANGED used, NEW r \in Rows, NEW f \in Folders, NEW p \in GivenOr, Insert(r, f, p)
  PROVE  IndexType'
<1>1. GivenOr' = GivenOr
  BY DEF GivenOr, Given
<1> QED
  BY <1>1 DEF Types, IndexType, Insert
LEMMA ForgetType ==
  ASSUME Types, UNCHANGED used, NEW r, Forget(r)
  PROVE  IndexType'
<1>1. GivenOr' = GivenOr /\ NoPath \in GivenOr
  BY DEF GivenOr, Given
<1> QED
  BY <1>1 DEF Types, IndexType, Forget

\* The locals.
LEMMA BecomeOK ==
  ASSUME IInv, used \subseteq used', NEW a \in Actors, NEW l \in Locals', Become(a, l), HasFolder(l),
         l.at = "rename" => l.new \in Path /\ l.old \in Path /\ l.new.name = l.old.name,
         a = Worker /\ l.at \in Scanning => l.new \in Path
  PROVE  /\ ActType' /\ ActOK'
         /\ act'[a] = l /\ \A b \in Actors \ {a} : act'[b] = act[b]
<1>1. Locals \subseteq Locals' /\ act \in [Actors -> Locals] /\ Worker \in Actors
  BY GivenGrows DEF IInv, Types, ActType, Actors
<1>2. act' = [act EXCEPT ![a] = l]
  BY DEF Become
<1>3. act'[a] = l /\ \A b \in Actors \ {a} : act'[b] = act[b]
  BY <1>1, <1>2
<1>4. ActType'
  BY <1>1, <1>2 DEF ActType
<1>5. \A b \in Actors : act'[b].at = "rename" => /\ act'[b].new \in Path /\ act'[b].old \in Path
                                                /\ act'[b].new.name = act'[b].old.name
  <2> SUFFICES ASSUME NEW b \in Actors, act'[b].at = "rename"
               PROVE  act'[b].new \in Path /\ act'[b].old \in Path /\ act'[b].new.name = act'[b].old.name
    OBVIOUS
  <2>1. CASE b = a
    BY <1>3, <2>1
  <2>2. CASE b # a
    BY <1>3, <2>2 DEF IInv, ActOK, At
  <2> QED
    BY <2>1, <2>2
<1>6. act'[Worker].at \in Scanning => act'[Worker].new \in Path
  BY <1>1, <1>3 DEF IInv, ActOK, W
<1>7. \A b \in Actors : HasFolder(act'[b])
  BY <1>3 DEF IInv, ActOK
<1> QED
  BY <1>3, <1>4, <1>5, <1>6, <1>7 DEF ActOK, At, W, HasFolder

\* GoTo changes nothing but the step.
AtSteps == {"idle", "state", "stat", "write", "remove", "record", "lookup", "rename", "touch",
            "erase", "delete", "drop", "list", "exists", "same", "choose", "probe", "attach",
            "dup", "unlink", "insert", "backfill", "verify", "clean"}
LEMMA GoToIsBecome ==
  ASSUME IInv, NEW a \in Actors, NEW s \in AtSteps, GoTo(a, s)
  PROVE  \E l \in Locals : /\ Become(a, l) /\ l.at = s /\ l.kind = act[a].kind /\ l.row = act[a].row
                          /\ l.old = act[a].old /\ l.new = act[a].new /\ l.to = act[a].to
<1> DEFINE k == act[a]
           l == [k EXCEPT !.at = s]
<1>1. k \in Locals
  BY DEF IInv, Types, ActType
<1>2. act' = [act EXCEPT ![a] = l]
  BY <1>1 DEF GoTo, IInv, Types, ActType
<1> HIDE DEF k
<1>3. l \in Locals /\ l.at = s /\ l.kind = k.kind /\ l.row = k.row /\ l.old = k.old /\ l.new = k.new /\ l.to = k.to
  BY <1>1 DEF Locals, AtSteps
<1> HIDE DEF l
<1> QED
  BY <1>2, <1>3 DEF Become, k

\* Where files and names rest and no writer gets to the removal of a file, the file kept is kept.
LEMMA SafeRests ==
  ASSUME IInv, UNCHANGED <<files, used>>, asked => asked', raced => raced',
         \A a \in Actors : act'[a].at = "remove" => At(a, "remove") /\ act'[a].old = act[a].old
  PROVE  Safe'
  BY DEF IInv, Safe, Kept, At

\* A new file is kept: nobody has its name.
LEMMA NewFileIsKept ==
  ASSUME IInv, NEW p \in files', p.name \notin used,
         \A a \in Actors : act'[a].at = "remove" => act'[a].old \in GivenOr
  PROVE  Safe'
<1>1. \A a \in Actors : act'[a].at = "remove" /\ act'[a].old \in Path => act'[a].old.name # p.name
  BY PathAssumption DEF GivenOr, Given
<1> QED
  BY <1>1 DEF Safe, Kept, At

\* What the worker knows of a duplicate, while it is not at work on one,
LEMMA NoDuplicate ==
  ASSUME act'[Worker].at \notin {"probe", "dup", "unlink"}
  PROVE  DuplicateOK'
  BY DEF DuplicateOK, At
\* while files go away or are renamed,
LEMMA DuplicateStirred ==
  ASSUME UNCHANGED W, NEW a, a # Worker, Stir(a)
  PROVE  DuplicateOK'
  BY DEF DuplicateOK, Stir, At, W
\* and while others work.
LEMMA DuplicateRests ==
  ASSUME IInv, UNCHANGED <<W, stirred>>, files \subseteq files', NothingFiled => NothingFiled',
         At(Worker, "probe") => UNCHANGED <<rows, batch>>
  PROVE  DuplicateOK'
  BY DEF IInv, DuplicateOK, At, W

------------------------------------------------------------------------------
(* Dovecot. *)

LEMMA ClientKeepsIInv == IInv /\ Client => IInv'
<1> SUFFICES ASSUME IInv, Client PROVE IInv'
  OBVIOUS
<1>0. Types /\ NoRow # Worker
  BY RequestsAssumption DEF IInv
<1>1. CASE Deliver
  <2>1. PICK f \in Folders : Create(NewPath(f, "new"))
    BY <1>1 DEF Deliver
  <2> DEFINE p == NewPath(f, "new")
  <2>2. /\ DiskType' /\ used \subseteq used' /\ p.name \notin used /\ files' = files \cup {p}
    BY <1>0, <2>1, CreateGives
  <2>3. UNCHANGED <<index, act, scan, ghosts>> /\ Operation
    BY <1>1 DEF Deliver
  <2>4. Types'
    BY <1>0, <2>2, <2>3, RestingTypes, OperationType DEF Types
  <2>5. ActOK'
    BY <2>3 DEF IInv, ActOK, HasFolder, At, W
  <2>6. \A a \in Actors : act'[a].old \in GivenOr
    BY <1>0, <2>3 DEF Types, ActType, Locals
  <2> HIDE DEF p
  <2>7. Safe'
    BY <2>2, <2>6, NewFileIsKept
  <2>8. NothingFiled => NothingFiled'
    BY <2>3 DEF NothingFiled, index
  <2>9. DuplicateOK'
    BY <2>2, <2>3, <2>8, DuplicateRests DEF W, ghosts, index, scan
  <2> QED
    BY <2>4, <2>5, <2>7, <2>9 DEF IInv
<1>2. CASE ClientRenames
  <2>1. PICK p \in files, q \in Path : q.name = p.name /\ Rename(NoRow, p, q)
    BY <1>2 DEF ClientRenames
  <2>2. files' = (files \ {p}) \cup {q} /\ Stir(NoRow) /\ UNCHANGED <<used, asked, raced>>
    BY <2>1 DEF Rename
  <2>3. UNCHANGED <<index, act, scan>> /\ Operation
    BY <1>2 DEF ClientRenames
  <2>4. DiskType'
    BY <1>0, <2>1, <2>2 DEF Types, DiskType, Given
  <2>5. Types'
    BY <1>0, <2>2, <2>3, <2>4, RestingTypes, OperationType, StirType DEF Types, GhostType
  <2>6. ActOK'
    BY <2>3 DEF IInv, ActOK, HasFolder, At, W
  <2>7. Safe'
    <3> SUFFICES ASSUME used # {}, ~asked, ~raced PROVE \E f \in files' : Kept(f)'
      BY <2>2 DEF Safe
    <3>1. PICK f \in files : Kept(f)
      BY DEF IInv, Safe
    <3>2. PICK g \in files' : g.name = f.name
      BY <2>1, <2>2
    <3> QED
      BY <2>3, <3>1, <3>2 DEF Kept, At
  <2>8. DuplicateOK'
    BY <1>0, <2>2, <2>3, DuplicateStirred DEF W
  <2> QED
    BY <2>5, <2>6, <2>7, <2>8 DEF IInv
<1>3. CASE ClientExpunges
  <2>1. PICK p \in files : files' = files \ {p}
    BY <1>3 DEF ClientExpunges
  <2>2. asked' = TRUE /\ Stir(NoRow) /\ UNCHANGED <<used, index, act, scan, raced>> /\ Operation
    BY <1>3 DEF ClientExpunges
  <2>3. DiskType'
    BY <1>0, <2>1, <2>2 DEF Types, DiskType, Given
  <2>4. Types'
    BY <1>0, <2>2, <2>3, RestingTypes, OperationType, StirType DEF Types, GhostType
  <2>5. ActOK' /\ Safe'
    BY <2>2 DEF IInv, ActOK, HasFolder, At, W, Safe
  <2>6. DuplicateOK'
    BY <1>0, <2>2, DuplicateStirred DEF W
  <2> QED
    BY <2>4, <2>5, <2>6 DEF IInv
<1> QED
  BY <1>1, <1>2, <1>3 DEF Client

------------------------------------------------------------------------------
(* Writing a file, by a request or by the backfill. *)

\* A step that only changes the locals, of no writer about to remove a file.
LEMMA QuietStepKeepsIInv ==
  ASSUME IInv, UNCHANGED <<disk, index, scan, bounds, ghosts>>, NEW a \in Actors, NEW l \in Locals, Become(a, l),
         l.at \notin {"remove", "record", "rename", "probe", "dup", "unlink"}, HasFolder(l),
         l.at = "stat" => l.row \in rows /\ l.old = path[l.row],
         a = Worker /\ l.at \in Scanning => l.new \in Path
  PROVE  IInv'
<1>1. used' = used /\ files' = files /\ Locals' = Locals
  BY DEF disk, Locals, GivenOr, Given
<1>2. ActType' /\ ActOK' /\ act'[a] = l /\ \A b \in Actors \ {a} : act'[b] = act[b]
  BY <1>1, BecomeOK
<1>3. Types'
  BY <1>1, <1>2, RestingTypes DEF IInv, Types
<1>4. Safe'
  BY <1>1, <1>2, SafeRests DEF At, ghosts
<1>5. DuplicateOK'
  <2>1. CASE a = Worker
    BY <1>2, <2>1, NoDuplicate
  <2>2. CASE a # Worker
    <3>1. NothingFiled => NothingFiled'
      BY <1>1, <1>2 DEF NothingFiled, HasFile, index, Actors
    <3>2. act'[Worker] = act[Worker]
      BY <1>2, <2>2 DEF Actors
    <3> QED
      BY <1>1, <3>1, <3>2, DuplicateRests DEF W, ghosts, index, scan
  <2> QED
    BY <2>1, <2>2
<1> QED
  BY <1>2, <1>3, <1>4, <1>5 DEF IInv

LEMMA AnswerLocals ==
  ASSUME IInv, NEW a \in Actors, Answer(a) \/ Fail(a)
  PROVE  \E l \in Locals : Become(a, l) /\ l.at \in {"idle", "backfill", "erase"} /\ HasFolder(l)
<1> DEFINE back == [Rest EXCEPT !.at = "backfill"]
<1>1. back \in Locals /\ back.at = "backfill" /\ back.kind = "none" /\ Rest.at = "idle" /\ Rest.kind = "none"
  BY RestType DEF Rest, Locals
<1>2. CASE Answer(a)
  BY <1>1, <1>2, RestType DEF Answer, HasFolder
<1>3. CASE Fail(a)
  <2>1. CASE GoTo(a, "erase")
    <3>1. PICK l \in Locals : Become(a, l) /\ l.at = "erase" /\ l.kind = act[a].kind /\ l.to = act[a].to
      BY <2>1, GoToIsBecome DEF AtSteps
    <3>2. HasFolder(l)
      BY <3>1 DEF IInv, ActOK, HasFolder
    <3> QED
      BY <3>1, <3>2
  <2>2. CASE Become(a, Rest)
    BY <1>1, <2>2, RestType DEF HasFolder
  <2> QED
    BY <1>3, <2>1, <2>2 DEF Fail
<1> QED
  BY <1>2, <1>3

LEMMA WriteStateKeepsIInv == ASSUME IInv, NEW a \in Actors, WriteState(a) PROVE IInv'
<1> DEFINE r == act[a].row
           k == act[a]
           to == IF Is(a, {"move"}) THEN k.to ELSE folder[r]
           stage == IF Is(a, {"compose", "copy"}) THEN "stat" ELSE "write"
           l == [k EXCEPT !.old = path[r], !.to = to, !.at = stage]
<1>1. UNCHANGED <<disk, index, scan, bounds, ghosts>>
  BY DEF WriteState
<1>2. CASE Fail(a)
  <2>1. PICK m \in Locals : Become(a, m) /\ m.at \in {"idle", "backfill", "erase"} /\ HasFolder(m)
    BY <1>2, AnswerLocals
  <2> QED
    BY <1>1, <2>1, QuietStepKeepsIInv DEF Scanning
<1>3. CASE r \in rows /\ Become(a, [act[a] EXCEPT !.old = path[r],
                           !.to = IF Is(a, {"move"}) THEN @ ELSE folder[r],
                           !.at = IF Is(a, {"compose", "copy"}) THEN "stat" ELSE "write"])
  <2>1. k \in Locals /\ path[r] \in GivenOr /\ folder[r] \in Folders
    BY <1>3 DEF IInv, Types, ActType, IndexType
  <2>2. to \in Folders
    BY <2>1 DEF Is, IInv, ActOK, HasFolder
  <2>3. Become(a, l) /\ stage \in {"stat", "write"} /\ k.row = r
    BY <1>3
  <2> HIDE DEF k, to, stage
  <2>4. l \in Locals /\ l.at \in {"stat", "write"} /\ HasFolder(l) /\ l.row = k.row /\ l.old = path[r]
    BY <2>1, <2>2, <2>3 DEF Locals, HasFolder
  <2> QED
    BY <1>1, <1>3, <2>3, <2>4, QuietStepKeepsIInv DEF Scanning
<1> QED
  BY <1>2, <1>3 DEF WriteState

LEMMA StatForWriteKeepsIInv == ASSUME IInv, NEW a \in Actors, StatForWrite(a) PROVE IInv'
<1>1. UNCHANGED <<disk, index, scan, bounds, ghosts>> /\ At(a, "stat") /\ act[a].kind \in {"compose", "copy"}
  BY DEF StatForWrite, Is
<1>2. CASE Answer(a)
  <2>1. PICK m \in Locals : Become(a, m) /\ m.at \in {"idle", "backfill", "erase"} /\ HasFolder(m)
    BY <1>2, AnswerLocals
  <2> QED
    BY <1>1, <2>1, QuietStepKeepsIInv DEF Scanning
<1>3. CASE GoTo(a, "write")
  <2>1. PICK l \in Locals : Become(a, l) /\ l.at = "write" /\ l.kind = act[a].kind /\ l.to = act[a].to
    BY <1>3, GoToIsBecome DEF AtSteps
  <2>2. HasFolder(l)
    BY <1>1, <2>1 DEF IInv, ActOK, HasFolder, At
  <2> QED
    BY <1>1, <2>1, <2>2, QuietStepKeepsIInv DEF Scanning
<1> QED
  BY <1>2, <1>3 DEF StatForWrite

LEMMA DuplicateIsGiven == IInv /\ W.at \in Scanning => W.new \in Given
<1> SUFFICES ASSUME IInv, W.at \in Scanning PROVE W.new \in Given
  OBVIOUS
<1>1. W \in Locals
  BY DEF IInv, Types, ActType, Actors, W
<1>2. W.new \in GivenOr /\ W.new \in Path
  BY <1>1 DEF IInv, ActOK, Locals
<1> QED
  BY <1>2, PathAssumption DEF GivenOr

LEMMA WriteFileKeepsIInv == ASSUME IInv, NEW a \in Actors, WriteFile(a) PROVE IInv'
<1>1. UNCHANGED <<index, scan, bounds, ghosts>> /\ At(a, "write")
  BY DEF WriteFile
<1>2. CASE Fail(a) /\ UNCHANGED disk
  <2>1. PICK m \in Locals : Become(a, m) /\ m.at \in {"idle", "backfill", "erase"} /\ HasFolder(m)
    BY <1>2, AnswerLocals
  <2> QED
    BY <1>1, <1>2, <2>1, QuietStepKeepsIInv DEF Scanning
<1>3. ASSUME NEW s \in SubOf(act[a].to), Create(NewPath(act[a].to, s)),
             Become(a, [act[a] EXCEPT !.at = "remove", !.new = NewPath(act[a].to, s)])
      PROVE  IInv'
  <2> DEFINE k == act[a]
             p == NewPath(act[a].to, s)
             l == [k EXCEPT !.at = "remove", !.new = p]
  <2>1. k \in Locals /\ k.to \in Folders /\ s \in {"new", "cur"}
    BY <1>1, <1>3 DEF IInv, ActOK, HasFolder, At, Types, ActType, SubOf
  <2>2. /\ DiskType' /\ used \subseteq used' /\ p \in Given' /\ p.name \notin used /\ files' = files \cup {p}
    BY <1>3, <2>1, CreateGives DEF IInv
  <2>3. Locals \subseteq Locals' /\ p \in GivenOr'
    BY <2>2, GivenGrows DEF GivenOr
  <2>4. Become(a, l)
    BY <1>3
  <2> HIDE DEF k, p
  <2>5. l \in Locals' /\ l.at = "remove" /\ l.old = k.old /\ k.old \in GivenOr /\ HasFolder(l)
    BY <2>1, <2>3 DEF Locals, HasFolder
  <2> HIDE DEF l
  <2>6. ActType' /\ ActOK' /\ act'[a] = l /\ \A b \in Actors \ {a} : act'[b] = act[b]
    BY <2>2, <2>4, <2>5, BecomeOK DEF Scanning
  <2>7. Types'
    BY <1>1, <2>2, <2>6, RestingTypes DEF IInv, Types
  <2>8. \A b \in Actors : act'[b].old \in GivenOr
    BY <2>5, <2>6 DEF IInv, Types, ActType, Locals
  <2>9. Safe'
    BY <2>2, <2>8, NewFileIsKept
  <2>10. DuplicateOK'
    <3>1. CASE a = Worker
      BY <2>5, <2>6, <3>1, NoDuplicate
    <3>2. CASE a # Worker
      <4>1. act'[Worker] = act[Worker]
        BY <2>6, <3>2 DEF Actors
      <4>2. W.at \in {"probe", "dup", "unlink"} => p # W.new
        BY <2>2, DuplicateIsGiven DEF Scanning, Given
      <4> QED
        BY <1>1, <2>2, <4>1, <4>2 DEF IInv, DuplicateOK, At, W, index, scan, ghosts
    <3> QED
      BY <3>1, <3>2
  <2> QED
    BY <2>6, <2>7, <2>9, <2>10 DEF IInv
<1> QED
  BY <1>2, <1>3 DEF WriteFile

LEMMA RemoveOldKeepsIInv == ASSUME IInv, NEW a \in Actors, RemoveOld(a) PROVE IInv'
<1>1. /\ At(a, "remove") /\ files' = files \ {act[a].old} /\ Stir(a) /\ GoTo(a, "record")
      /\ UNCHANGED <<used, index, scan, bounds, asked, raced>>
  BY DEF RemoveOld
<1>2. PICK l \in Locals : Become(a, l) /\ l.at = "record" /\ l.kind = act[a].kind /\ l.to = act[a].to
  BY <1>1, GoToIsBecome DEF AtSteps
<1>3. Locals' = Locals /\ Given' = Given
  BY <1>1 DEF Locals, GivenOr, Given
<1>4. ActType' /\ ActOK' /\ act'[a] = l /\ \A b \in Actors \ {a} : act'[b] = act[b]
  <2>1. HasFolder(l)
    BY <1>2 DEF IInv, ActOK, HasFolder
  <2> QED
    BY <1>1, <1>2, <1>3, <2>1, BecomeOK DEF Scanning
<1>5. Types'
  <2>1. DiskType'
    BY <1>1, <1>3 DEF IInv, Types, DiskType
  <2>2. GhostType'
    BY <1>1, StirType DEF IInv, Types, GhostType
  <2> QED
    BY <1>1, <1>4, <2>1, <2>2, RestingTypes DEF IInv, Types
<1>6. Safe'
  <2> SUFFICES ASSUME used # {}, ~asked, ~raced PROVE \E f \in files' : Kept(f)'
    BY <1>1 DEF Safe
  <2>1. PICK f \in files : Kept(f)
    BY DEF IInv, Safe
  <2>2. f # act[a].old
    BY <1>1, <2>1 DEF Kept, IInv, Types, DiskType, Given
  <2>3. Kept(f)'
    BY <1>2, <1>4, <2>1 DEF Kept, At
  <2> QED
    BY <1>1, <2>2, <2>3
<1>7. DuplicateOK'
  <2>1. CASE a = Worker
    BY <1>2, <1>4, <2>1, NoDuplicate
  <2>2. CASE a # Worker
    <3>1. act'[Worker] = act[Worker]
      BY <1>4, <2>2 DEF Actors
    <3> QED
      BY <1>1, <2>2, <3>1, DuplicateStirred DEF W
  <2> QED
    BY <2>1, <2>2
<1> QED
  BY <1>4, <1>5, <1>6, <1>7 DEF IInv

LEMMA RecordKeepsIInv == ASSUME IInv, NEW a \in Actors, Record(a) PROVE IInv'
<1> DEFINE r == act[a].row
           f == IF Is(a, {"move"}) THEN act[a].to ELSE folder[r]
<1>1. UNCHANGED <<disk, scan, bounds, ghosts>> /\ At(a, "record")
  BY DEF Record
<1>2. PICK l \in Locals : Become(a, l) /\ l.at \in {"idle", "backfill", "erase"} /\ HasFolder(l)
  BY AnswerLocals DEF Record
<1>3. CASE UNCHANGED index
  BY <1>1, <1>2, <1>3, QuietStepKeepsIInv DEF Scanning
<1>4. CASE r \in rows /\ Update(r, f, act[a].new)
  <2>1. act[a] \in Locals /\ folder[r] \in Folders
    BY <1>4 DEF IInv, Types, ActType, IndexType
  <2>2. f \in Folders /\ act[a].new \in GivenOr
    BY <2>1 DEF Locals, Is, IInv, ActOK, HasFolder
  <2>3. used' = used /\ files' = files /\ Locals' = Locals
    BY <1>1 DEF disk, Locals, GivenOr, Given
  <2> HIDE DEF f, r
  <2>4. IndexType'
    BY <1>4, <2>2, <2>3, UpdateType DEF IInv
  <2>5. ActType' /\ ActOK' /\ act'[a] = l /\ \A b \in Actors \ {a} : act'[b] = act[b]
    BY <1>2, <2>3, BecomeOK DEF Scanning
  <2>6. Types'
    BY <1>1, <2>3, <2>4, <2>5, RestingTypes DEF IInv, Types
  <2>7. Safe'
    BY <1>1, <1>2, <2>3, <2>5, SafeRests DEF At, ghosts
  <2>8. DuplicateOK'
    <3>1. CASE a = Worker
      BY <1>2, <2>5, <3>1, NoDuplicate
    <3>2. CASE a # Worker
      <4>1. ~NothingFiled
        BY <1>1, <1>4, <3>2 DEF NothingFiled, HasFile, At, Actors, r
      <4>2. act'[Worker] = act[Worker]
        BY <2>5, <3>2 DEF Actors
      <4> QED
        BY <1>1, <1>4, <2>3, <4>1, <4>2, DuplicateRests DEF W, ghosts, scan, Update, index
    <3> QED
      BY <3>1, <3>2
  <2> QED
    BY <2>5, <2>6, <2>7, <2>8 DEF IInv
<1>5. UNCHANGED index \/ (r \in rows /\ Update(r, f, act[a].new))
  BY DEF Record, Update
<1> QED
  BY <1>3, <1>4, <1>5

LEMMA WriteStepKeepsIInv == ASSUME IInv, NEW a \in Actors, WriteStep(a) PROVE IInv'
  BY WriteStateKeepsIInv, StatForWriteKeepsIInv, WriteFileKeepsIInv, RemoveOldKeepsIInv, RecordKeepsIInv
  DEF WriteStep

------------------------------------------------------------------------------
(* Requests. *)

\* A request begins, and takes no step at a file yet.
LEMMA StartLocals ==
  ASSUME IInv, NEW a \in Requests, NEW r \in Rows, NEW f \in Folders \cup {NoFolder},
         NEW kind \in {"save", "move", "flags", "delete", "compose", "copy"}, kind = "move" => f \in Folders,
         NEW stage \in {"state", "lookup", "erase"}, Starts(a, kind, stage, r, f)
  PROVE  /\ \E l \in Locals : Become(a, l) /\ l.at = stage /\ HasFolder(l) /\ l.row = r
         /\ CountType'
<1> DEFINE l == [Rest EXCEPT !.kind = kind, !.at = stage, !.row = r, !.to = f]
<1>1. Become(a, l) /\ Operation
  BY DEF Starts
<1>2. l \in Locals /\ l.at = stage /\ l.row = r /\ HasFolder(l)
  BY RestType DEF Rest, Locals, HasFolder
<1> QED
  BY <1>1, <1>2, OperationType DEF IInv

\* A request's step that leaves the files alone.
LEMMA LocalStepKeepsIInv ==
  ASSUME IInv, NEW a \in Requests, NEW l \in Locals, Become(a, l), l.at # "remove", HasFolder(l),
         l.at = "rename" => l.new \in Path /\ l.old \in Path /\ l.new.name = l.old.name,
         UNCHANGED <<disk, scan, ghosts>>, IndexType', CountType', NothingFiled => NothingFiled',
         DbFree \/ UNCHANGED rows
  PROVE  IInv'
<1>1. used' = used /\ files' = files /\ Locals' = Locals /\ a \in Actors /\ a # Worker /\ Worker \in Actors
  BY RequestsAssumption DEF disk, Locals, GivenOr, Given, Actors
<1>2. ActType' /\ ActOK' /\ act'[a] = l /\ \A b \in Actors \ {a} : act'[b] = act[b]
  BY <1>1, BecomeOK DEF Scanning
<1>3. Types'
  BY <1>1, <1>2, RestingTypes DEF IInv, Types
<1>4. Safe'
  BY <1>1, <1>2, SafeRests DEF At, ghosts
<1>5. act'[Worker] = act[Worker]
  BY <1>1, <1>2
<1>6. DuplicateOK'
  BY <1>1, <1>5, DuplicateRests DEF W, ghosts, scan, DbFree
<1> QED
  BY <1>2, <1>3, <1>4, <1>6 DEF IInv

LEMMA ActAfter ==
  ASSUME IInv, NEW a \in Actors, NEW l, Become(a, l)
  PROVE  act'[a] = l /\ \A b \in Actors \ {a} : act'[b] = act[b]
  BY DEF Become, IInv, Types, ActType

LEMMA NewRowIsFree ==
  ASSUME FreeRows # {}
  PROVE  NewRow \in Rows /\ NewRow \notin rows /\ \A b \in Actors : act[b].row # NewRow
<1>1. NewRow \in FreeRows
  BY DEF NewRow
<1> QED
  BY <1>1 DEF FreeRows

LEMMA RequestKeepsIInv == ASSUME IInv, DbFree, NEW a \in Requests, Request(a) PROVE IInv'
<1>0. a \in Actors /\ rows \subseteq Rows
  BY DEF Actors, IInv, Types, IndexType
<1>1. CASE Compose(a)
  <2> DEFINE r == NewRow
  <2>1. r \in Rows /\ r \notin rows /\ \A b \in Actors : act[b].row # r
    BY <1>1, NewRowIsFree DEF Compose
  <2>2. PICK kind \in {"compose", "copy"} : Starts(a, kind, "state", r, NoFolder)
    BY <1>1 DEF Compose
  <2>3. Insert(r, "Inbox", NoPath) /\ UNCHANGED <<disk, scan, ghosts>>
    BY <1>1 DEF Compose
  <2> HIDE DEF r
  <2>4. (\E l \in Locals : Become(a, l) /\ l.at = "state" /\ HasFolder(l) /\ l.row = r) /\ CountType'
    BY <2>1, <2>2, StartLocals
  <2>5. PICK l \in Locals : Become(a, l) /\ l.at = "state" /\ HasFolder(l) /\ l.row = r
    BY <2>4
  <2>6. IndexType'
    BY <2>1, <2>3, InsertType DEF IInv, disk, Folders, GivenOr
  <2>7. NothingFiled => NothingFiled'
    <3> SUFFICES ASSUME NothingFiled PROVE NothingFiled'
      OBVIOUS
    <3>1. act'[a] = l /\ \A b \in Actors \ {a} : act'[b] = act[b]
      BY <1>0, <2>5, ActAfter
    <3>2. \A q \in rows' : path'[q] = NoPath
      BY <2>1, <2>3 DEF Insert, NothingFiled, IInv, Types, IndexType
    <3>3. \A b \in Requests : HasFile(act'[b]) => act'[b].row \notin rows'
      <4> SUFFICES ASSUME NEW b \in Requests, HasFile(act'[b])
                   PROVE  act'[b].row \notin rows'
        OBVIOUS
      <4>1. b # a
        BY <2>5, <3>1 DEF HasFile
      <4>2. act'[b] = act[b] /\ act[b].row # r
        BY <2>1, <3>1, <4>1 DEF Actors
      <4> QED
        BY <2>3, <4>2 DEF NothingFiled, Insert
    <3> QED
      BY <3>2, <3>3 DEF NothingFiled, HasFile
  <2> QED
    BY <2>3, <2>4, <2>5, <2>6, <2>7, LocalStepKeepsIInv
<1>2. ASSUME UNCHANGED <<disk, scan, ghosts>>, IndexType', CountType', UNCHANGED <<rows, path>>,
             NEW l \in Locals, Become(a, l), l.at \in {"state", "lookup", "erase"}, HasFolder(l)
      PROVE  IInv'
  <2>1. act'[a] = l /\ \A b \in Actors \ {a} : act'[b] = act[b]
    BY <1>0, <1>2, ActAfter
  <2>2. NothingFiled => NothingFiled'
    BY <1>2, <2>1 DEF NothingFiled, HasFile, Actors
  <2> QED
    BY <1>2, <2>2, LocalStepKeepsIInv
<1>3. CASE SaveDraft(a)
  <2>1. PICK r \in rows : Starts(a, "save", "state", r, NoFolder) /\ Update(r, folder[r], path[r])
    BY <1>3 DEF SaveDraft
  <2>2. UNCHANGED <<disk, scan, ghosts>>
    BY <1>3 DEF SaveDraft
  <2>3. CountType' /\ \E l \in Locals : Become(a, l) /\ l.at = "state" /\ HasFolder(l)
    BY <1>0, <2>1, StartLocals
  <2>4. folder[r] \in Folders /\ path[r] \in GivenOr
    BY <1>0 DEF IInv, Types, IndexType
  <2>5. IndexType'
    BY <2>1, <2>2, <2>4, UpdateType DEF IInv, disk
  <2>6. UNCHANGED <<rows, path>>
    BY <2>1 DEF Update, index, IInv, Types, IndexType
  <2> QED
    BY <1>2, <2>2, <2>3, <2>5, <2>6
<1>4. ASSUME UNCHANGED <<disk, index, scan, ghosts>>, CountType',
             NEW l \in Locals, Become(a, l), l.at \in {"state", "lookup", "erase"}, HasFolder(l)
      PROVE  IInv'
  <2>1. IndexType'
    BY <1>4, RestingTypes DEF IInv, disk
  <2> QED
    BY <1>2, <1>4, <2>1 DEF index
<1>5. CASE StartMove(a)
  <2>1. PICK r \in rows, f \in Folders : Starts(a, "move", "lookup", r, f)
    BY <1>5 DEF StartMove
  <2>2. CountType' /\ \E l \in Locals : Become(a, l) /\ l.at = "lookup" /\ HasFolder(l)
    BY <1>0, <2>1, StartLocals
  <2> QED
    BY <1>4, <1>5, <2>2 DEF StartMove
<1>6. CASE StartFlags(a)
  <2>1. PICK r \in rows : Starts(a, "flags", "lookup", r, NoFolder)
    BY <1>6 DEF StartFlags
  <2>2. CountType' /\ \E l \in Locals : Become(a, l) /\ l.at = "lookup" /\ HasFolder(l)
    BY <1>0, <2>1, StartLocals
  <2> QED
    BY <1>4, <1>6, <2>2 DEF StartFlags
<1>7. CASE StartDelete(a)
  <2>1. PICK r \in rows : Starts(a, "delete", "erase", r, NoFolder)
    BY <1>7 DEF StartDelete
  <2>2. CountType' /\ \E l \in Locals : Become(a, l) /\ l.at = "erase" /\ HasFolder(l)
    BY <1>0, <2>1, StartLocals
  <2> QED
    BY <1>4, <1>7, <2>2 DEF StartDelete
<1> QED
  BY <1>1, <1>3, <1>5, <1>6, <1>7 DEF Request

LEMMA RenameLocals ==
  ASSUME IInv, NEW a \in Actors, act[a].old \in files, NEW f \in Folders, NEW s \in {"new", "cur"},
         RenameTo(a, f, s)
  PROVE  \E l \in Locals : /\ Become(a, l) /\ l.at = "rename" /\ HasFolder(l) /\ l.row = act[a].row
                          /\ l.new \in Path /\ l.old \in Path /\ l.new.name = l.old.name
<1> DEFINE k == act[a]
           p == act[a].old
           q == [p EXCEPT !.folder = f, !.sub = s]
           l == [k EXCEPT !.at = "rename", !.new = q]
<1>1. k \in Locals /\ k.old = p /\ p \in Given /\ HasFolder(k)
  BY DEF IInv, Types, ActType, DiskType, ActOK
<1>2. Become(a, l)
  BY DEF RenameTo
<1> HIDE DEF p
<1>3. q \in Given /\ q.name = p.name
  BY <1>1 DEF Given, Path
<1> HIDE DEF q
<1>4. k.row = act[a].row
  OBVIOUS
<1> HIDE DEF k
<1>5. l \in Locals /\ l.at = "rename" /\ l.old = p /\ l.new = q /\ l.kind = k.kind /\ l.to = k.to /\ l.row = k.row
  BY <1>1, <1>3 DEF Locals, GivenOr
<1> HIDE DEF l
<1> QED
  BY <1>1, <1>2, <1>3, <1>4, <1>5 DEF HasFolder, Given

\* A request that turns to the path of its row.
LEMMA TurnLocals ==
  ASSUME IInv, NEW a \in Actors, act[a].row \in rows, NEW s \in {"stat", "delete"},
         s = "stat" => act[a].kind \in {"move", "flags"},
         Become(a, [act[a] EXCEPT !.at = s, !.old = path[act[a].row]])
  PROVE  \E l \in Locals : /\ Become(a, l) /\ l.at = s /\ HasFolder(l)
                          /\ l.row \in rows /\ l.old = path[l.row]
<1> DEFINE k == act[a]
           p == path[act[a].row]
           l == [k EXCEPT !.at = s, !.old = p]
<1>1. k \in Locals /\ HasFolder(k) /\ p \in GivenOr /\ Become(a, l)
  BY DEF IInv, Types, ActType, ActOK, IndexType
<1>2. (s = "stat" => k.kind \in {"move", "flags"}) /\ k.row \in rows /\ p = path[k.row]
  OBVIOUS
<1> HIDE DEF k, p
<1>3. l \in Locals /\ l.at = s /\ HasFolder(l) /\ l.row = k.row /\ l.old = p
  BY <1>1, <1>2 DEF Locals, HasFolder
<1> QED
  BY <1>1, <1>2, <1>3

LEMMA LookupKeepsIInv == ASSUME IInv, NEW a \in Requests, Lookup(a) \/ Erase(a) PROVE IInv'
<1>0. a \in Actors /\ UNCHANGED <<disk, index, scan, bounds, ghosts>>
  BY DEF Actors, Lookup, Erase
<1>1. CASE Fail(a)
  <2>1. PICK m \in Locals : Become(a, m) /\ m.at \in {"idle", "backfill", "erase"} /\ HasFolder(m)
    BY <1>0, <1>1, AnswerLocals
  <2> QED
    BY <1>0, <2>1, QuietStepKeepsIInv DEF Scanning
<1>2. ASSUME NEW l \in Locals, Become(a, l), l.at \in {"stat", "delete", "drop"}, HasFolder(l),
             l.at = "stat" => l.row \in rows /\ l.old = path[l.row]
      PROVE  IInv'
  BY <1>0, <1>2, QuietStepKeepsIInv DEF Scanning
<1>3. CASE GoTo(a, "drop")
  <2>1. PICK l \in Locals : Become(a, l) /\ l.at = "drop" /\ l.kind = act[a].kind /\ l.to = act[a].to
    BY <1>0, <1>3, GoToIsBecome DEF AtSteps
  <2>2. HasFolder(l)
    BY <1>0, <2>1 DEF IInv, ActOK, HasFolder
  <2> QED
    BY <1>2, <2>1, <2>2
<1>4. CASE Lookup(a) /\ ~Fail(a)
  <2>1. /\ act[a].row \in rows /\ act[a].kind \in {"move", "flags"}
        /\ Become(a, [act[a] EXCEPT !.at = "stat", !.old = path[act[a].row]])
    BY <1>4 DEF Lookup, Is
  <2> QED
    BY <1>0, <1>2, <2>1, TurnLocals
<1>5. CASE Erase(a) /\ ~GoTo(a, "drop")
  <2>1. act[a].row \in rows /\ Become(a, [act[a] EXCEPT !.at = "delete", !.old = path[act[a].row]])
    BY <1>5 DEF Erase
  <2> QED
    BY <1>0, <1>2, <2>1, TurnLocals
<1> QED
  BY <1>1, <1>3, <1>4, <1>5

LEMMA StatKeepsIInv == ASSUME IInv, NEW a \in Requests, StatForMove(a) \/ StatForFlags(a) PROVE IInv'
<1>0. a \in Actors /\ At(a, "stat") /\ UNCHANGED <<disk, index, scan, bounds, ghosts>>
  BY DEF Actors, StatForMove, StatForFlags
<1>1. act[a].old \in files => act[a].old \in Path
  BY DEF IInv, Types, DiskType, Given
<1>2. ASSUME act[a].old \in files, NEW f \in Folders, NEW s \in {"new", "cur"}, RenameTo(a, f, s)
      PROVE  IInv'
  <2>1. PICK l \in Locals : /\ Become(a, l) /\ l.at = "rename" /\ HasFolder(l) /\ l.row = act[a].row
                            /\ l.new \in Path /\ l.old \in Path /\ l.new.name = l.old.name
    BY <1>0, <1>2, RenameLocals
  <2>2. act'[a] = l /\ \A b \in Actors \ {a} : act'[b] = act[b]
    BY <1>0, <2>1, ActAfter
  <2>3. HasFile(act[a])
    BY <1>0, <1>1, <1>2, PathAssumption DEF HasFile, At
  <2>4. NothingFiled => NothingFiled'
    BY <1>0, <2>1, <2>2, <2>3 DEF NothingFiled, index, Actors
  <2>5. IndexType' /\ CountType'
    BY <1>0, RestingTypes DEF IInv, disk
  <2> QED
    BY <1>0, <2>1, <2>4, <2>5, LocalStepKeepsIInv DEF index
<1>3. ASSUME NEW s \in {"state", "touch"}, GoTo(a, s) PROVE IInv'
  <2>1. PICK l \in Locals : Become(a, l) /\ l.at = s /\ l.kind = act[a].kind /\ l.to = act[a].to
    BY <1>0, <1>3, GoToIsBecome DEF AtSteps
  <2>2. HasFolder(l)
    BY <1>0, <1>3, <2>1 DEF IInv, ActOK, HasFolder
  <2> QED
    BY <1>0, <1>3, <2>1, <2>2, QuietStepKeepsIInv DEF Scanning
<1>4. CASE StatForMove(a)
  <2>1. act[a].to \in Folders
    BY <1>0, <1>4 DEF StatForMove, Is, IInv, ActOK, HasFolder
  <2> QED
    BY <1>2, <1>3, <1>4, <2>1 DEF StatForMove, SubOf
<1>5. CASE StatForFlags(a)
  <2>1. act[a].old \in files => act[a].old.folder \in Folders
    BY <1>1 DEF Path
  <2> QED
    BY <1>2, <1>3, <1>5, <2>1 DEF StatForFlags
<1> QED
  BY <1>4, <1>5

LEMMA TouchKeepsIInv == ASSUME IInv, NEW a \in Requests, Touch(a) PROVE IInv'
<1> DEFINE r == act[a].row
<1>0. /\ a \in Actors /\ Become(a, Rest) /\ Update(r, folder[r], path[r])
      /\ UNCHANGED <<disk, scan, bounds, ghosts>> /\ IndexType
  BY DEF Actors, Touch, IInv, Types
<1>1. Rest \in Locals /\ Rest.at = "idle" /\ HasFolder(Rest)
  BY RestType DEF Rest, HasFolder
<1>2. IndexType' /\ UNCHANGED <<rows, path>>
  <2>1. CASE r \in rows
    <3>1. folder[r] \in Folders /\ path[r] \in GivenOr
      BY <1>0, <2>1 DEF IndexType
    <3>2. IndexType'
      BY <1>0, <3>1, UpdateType DEF IInv, disk
    <3>3. UNCHANGED <<rows, path>>
      BY <1>0, <2>1 DEF Update, IndexType
    <3> QED
      BY <3>2, <3>3
  <2>2. CASE r \notin rows
    BY <1>0, <2>2, RestingTypes DEF Update, index, IInv, disk
  <2> QED
    BY <2>1, <2>2
<1>3. act'[a] = Rest /\ \A b \in Actors \ {a} : act'[b] = act[b]
  BY <1>0, ActAfter
<1>4. NothingFiled => NothingFiled'
  BY <1>1, <1>2, <1>3 DEF NothingFiled, HasFile, Actors
<1>5. CountType'
  BY <1>0, RestingTypes DEF IInv, disk
<1> QED
  BY <1>0, <1>1, <1>2, <1>4, <1>5, LocalStepKeepsIInv

LEMMA RenameFileKeepsIInv == ASSUME IInv, NEW a \in Requests, RenameFile(a) PROVE IInv'
<1> DEFINE p == act[a].old
           q == act[a].new
<1>0. a \in Actors /\ a # Worker /\ Worker \in Actors /\ At(a, "rename") /\ UNCHANGED <<index, scan, bounds>>
  BY RequestsAssumption DEF Actors, RenameFile
<1>1. p \in Path /\ q \in Path /\ q.name = p.name
  BY <1>0 DEF IInv, ActOK
<1>2. CASE Fail(a) /\ UNCHANGED <<disk, ghosts>>
  <2>1. PICK m \in Locals : Become(a, m) /\ m.at \in {"idle", "backfill", "erase"} /\ HasFolder(m)
    BY <1>0, <1>2, AnswerLocals
  <2> QED
    BY <1>0, <1>2, <2>1, QuietStepKeepsIInv DEF Scanning
<1>3. ASSUME GoTo(a, "record")
      PROVE  \E l \in Locals : Become(a, l) /\ l.at = "record" /\ HasFolder(l) /\ l.row = act[a].row
  <2>1. PICK l \in Locals : Become(a, l) /\ l.at = "record" /\ l.kind = act[a].kind /\ l.to = act[a].to
                            /\ l.row = act[a].row
    BY <1>0, <1>3, GoToIsBecome DEF AtSteps
  <2>2. HasFolder(l)
    BY <1>0, <2>1 DEF IInv, ActOK, HasFolder
  <2> QED
    BY <2>1, <2>2
<1>4. CASE GoTo(a, "record") /\ UNCHANGED <<disk, ghosts>>
  <2>1. PICK l \in Locals : Become(a, l) /\ l.at = "record" /\ HasFolder(l) /\ l.row = act[a].row
    BY <1>3, <1>4
  <2>2. act'[a] = l /\ \A b \in Actors \ {a} : act'[b] = act[b]
    BY <1>0, <2>1, ActAfter
  <2>3. NothingFiled => NothingFiled'
    BY <1>0, <2>1, <2>2 DEF NothingFiled, HasFile, index, At, Actors
  <2>4. IndexType' /\ CountType'
    BY <1>0, <1>4, RestingTypes DEF IInv, disk
  <2> QED
    BY <1>0, <1>4, <2>1, <2>3, <2>4, LocalStepKeepsIInv DEF index
<1>5. CASE GoTo(a, "record") /\ p \in files /\ Rename(a, p, q)
  <2>1. PICK l \in Locals : Become(a, l) /\ l.at = "record" /\ HasFolder(l) /\ l.row = act[a].row
    BY <1>3, <1>5
  <2>2. files' = (files \ {p}) \cup {q} /\ Stir(a) /\ UNCHANGED <<used, asked, raced>>
    BY <1>5 DEF Rename
  <2>3. DiskType' /\ Locals' = Locals
    BY <1>1, <1>5, <2>2 DEF IInv, Types, DiskType, Given, Locals, GivenOr
  <2>4. ActType' /\ ActOK' /\ act'[a] = l /\ \A b \in Actors \ {a} : act'[b] = act[b]
    BY <1>0, <2>1, <2>2, <2>3, BecomeOK DEF Scanning
  <2>5. Types'
    BY <1>0, <2>2, <2>3, <2>4, RestingTypes, StirType DEF IInv, Types, GhostType
  <2>6. Safe'
    <3> SUFFICES ASSUME used # {}, ~asked, ~raced PROVE \E f \in files' : Kept(f)'
      BY <2>2 DEF Safe
    <3>1. PICK f \in files : Kept(f)
      BY DEF IInv, Safe
    <3>2. PICK g \in files' : g.name = f.name
      BY <1>1, <2>2
    <3>3. Kept(g)'
      BY <2>1, <2>4, <3>1, <3>2 DEF Kept, At
    <3> QED
      BY <3>3
  <2>7. DuplicateOK'
    BY <1>0, <2>2, <2>4, DuplicateStirred DEF W
  <2> QED
    BY <2>4, <2>5, <2>6, <2>7 DEF IInv
<1> QED
  BY <1>2, <1>4, <1>5 DEF RenameFile

LEMMA DeleteKeepsIInv == ASSUME IInv, NEW a \in Requests, Delete(a) PROVE IInv'
<1>1. /\ files' = files \ {act[a].old} /\ Stir(a) /\ asked' = TRUE /\ GoTo(a, "drop") /\ At(a, "delete")
      /\ UNCHANGED <<used, index, scan, bounds, raced>> /\ a \in Actors /\ a # Worker /\ Worker \in Actors
  BY RequestsAssumption DEF Actors, Delete
<1>2. PICK l \in Locals : Become(a, l) /\ l.at = "drop" /\ l.kind = act[a].kind /\ l.to = act[a].to
  BY <1>1, GoToIsBecome DEF AtSteps
<1>3. HasFolder(l)
  BY <1>1, <1>2 DEF IInv, ActOK, HasFolder
<1>4. DiskType' /\ Locals' = Locals
  BY <1>1 DEF IInv, Types, DiskType, Given, Locals, GivenOr
<1>5. ActType' /\ ActOK' /\ act'[a] = l /\ \A b \in Actors \ {a} : act'[b] = act[b]
  BY <1>1, <1>2, <1>3, <1>4, BecomeOK DEF Scanning
<1>6. Types'
  BY <1>1, <1>4, <1>5, RestingTypes, StirType DEF IInv, Types, GhostType
<1>7. Safe'
  BY <1>1 DEF Safe
<1>8. DuplicateOK'
  BY <1>1, <1>5, DuplicateStirred DEF W
<1> QED
  BY <1>5, <1>6, <1>7, <1>8 DEF IInv

LEMMA DropKeepsIInv == ASSUME IInv, DbFree, NEW a \in Requests, Drop(a) PROVE IInv'
<1>1. Forget(act[a].row) /\ Become(a, Rest) /\ UNCHANGED <<disk, scan, bounds, ghosts>> /\ a \in Actors
  BY DEF Actors, Drop
<1>2. Rest \in Locals /\ Rest.at = "idle" /\ HasFolder(Rest)
  BY RestType DEF Rest, HasFolder
<1>3. IndexType' /\ CountType'
  BY <1>1, ForgetType, RestingTypes DEF IInv, disk
<1>4. act'[a] = Rest /\ \A b \in Actors \ {a} : act'[b] = act[b]
  BY <1>1, ActAfter
<1>5. rows' \subseteq rows /\ \A q \in rows' : path'[q] = path[q]
  BY <1>1 DEF Forget, IInv, Types, IndexType
<1>6. NothingFiled => NothingFiled'
  BY <1>2, <1>4, <1>5 DEF NothingFiled, HasFile, Actors
<1> QED
  BY <1>1, <1>2, <1>3, <1>6, LocalStepKeepsIInv

LEMMA RequestStepKeepsIInv == ASSUME IInv, NEW a \in Requests, RequestStep(a) PROVE IInv'
  BY WriteStepKeepsIInv, LookupKeepsIInv, StatKeepsIInv, TouchKeepsIInv, RenameFileKeepsIInv, DeleteKeepsIInv,
     DropKeepsIInv
  DEF RequestStep, SystemCall, Statement, WriteStep, Actors

------------------------------------------------------------------------------
(* The worker. *)

\* A step of the worker that leaves the files alone and is not about a duplicate.
LEMMA ScanKeepsIInv ==
  ASSUME IInv, NEW l \in Locals, Become(Worker, l), l.at \notin {"remove", "rename", "probe", "dup", "unlink"},
         HasFolder(l), l.at \in Scanning => l.new \in Path,
         UNCHANGED <<disk, bounds, asked, raced>>, stirred' \in BOOLEAN, IndexType', ScanType'
  PROVE  IInv'
<1>1. used' = used /\ files' = files /\ Locals' = Locals /\ Worker \in Actors
  BY DEF disk, Locals, GivenOr, Given, Actors
<1>2. ActType' /\ ActOK' /\ act'[Worker] = l /\ \A b \in Actors \ {Worker} : act'[b] = act[b]
  BY <1>1, BecomeOK
<1>3. GhostType' /\ Types'
  BY <1>1, <1>2, RestingTypes DEF IInv, Types, GhostType
<1>4. Safe'
  BY <1>1, <1>2, SafeRests DEF At
<1>5. DuplicateOK'
  BY <1>2, NoDuplicate
<1> QED
  BY <1>2, <1>3, <1>4, <1>5 DEF IInv

\* Where the worker goes.
LEMMA WorkerGoes ==
  ASSUME IInv, NEW s \in AtSteps \ {"write", "stat"}, GoTo(Worker, s)
  PROVE  \E l \in Locals : Become(Worker, l) /\ l.at = s /\ HasFolder(l) /\ l.new = W.new
<1>1. PICK l \in Locals : Become(Worker, l) /\ l.at = s /\ l.kind = W.kind /\ l.new = W.new /\ l.to = W.to
  BY GoToIsBecome DEF Actors, W
<1>2. HasFolder(l)
  BY <1>1 DEF IInv, ActOK, HasFolder, Actors, W
<1> QED
  BY <1>1, <1>2

LEMMA WorkerLocals == IInv => W \in Locals /\ HasFolder(W) /\ (UNCHANGED act => Become(Worker, W))
  BY DEF IInv, Types, ActType, ActOK, Actors, W, Become

\* The worker takes up a file of the listing, or a row of the batch.
LEMMA ListLocals ==
  LET list == [Rest EXCEPT !.at = "list"] IN list \in Locals /\ list.at = "list" /\ HasFolder(list)
  BY RestType DEF Rest, Locals, HasFolder
LEMMA FileLocals ==
  ASSUME NEW p \in Given
  PROVE  LET l == [Rest EXCEPT !.at = "exists", !.new = p]
         IN  l \in Locals /\ l.at = "exists" /\ l.new = p /\ HasFolder(l)
  BY RestType DEF Rest, Locals, GivenOr, HasFolder
LEMMA BackfillLocals ==
  ASSUME NEW r \in Rows
  PROVE  LET l == [Rest EXCEPT !.kind = "save", !.at = "state", !.row = r]
         IN  l \in Locals /\ l.at = "state" /\ HasFolder(l)
  BY RestType DEF Rest, Locals, HasFolder

\* What a step that leaves the index or the scan alone keeps.
LEMMA ScanRests ==
  ASSUME IInv, UNCHANGED used
  PROVE  /\ Given' = Given
         /\ UNCHANGED index => IndexType'
         /\ listing' \subseteq listing /\ batch' \subseteq batch /\ known' \in BOOLEAN
            /\ missing' \subseteq missing /\ UNCHANGED dir => ScanType'
  BY RestingTypes DEF IInv, Types, ScanType, Given

LEMMA PassKeepsIInv == ASSUME IInv, StartPass \/ EndPass \/ ReadDir \/ ReadFile PROVE IInv'
<1>0. UNCHANGED <<disk, index, known, missing, bounds, ghosts>>
  BY DEF StartPass, EndPass, ReadDir, ReadFile, scan
<1>1. /\ UNCHANGED <<used, asked, raced>> /\ stirred' \in BOOLEAN /\ IndexType' /\ known' \in BOOLEAN
      /\ Given' = Given
  BY <1>0, ScanRests DEF disk, ghosts, IInv, Types, GhostType, ScanType
<1>2. ScanType /\ DiskType
  BY DEF IInv, Types
<1>3. CASE StartPass
  <2>1. PICK l \in Locals : Become(Worker, l) /\ l.at = "list" /\ HasFolder(l)
    BY <1>3, WorkerGoes DEF StartPass, WGoTo, AtSteps
  <2>2. ScanType'
    BY <1>1, <1>2, <1>3, FourDirs DEF StartPass, ScanType
  <2> QED
    BY <1>0, <1>1, <2>1, <2>2, ScanKeepsIInv DEF Scanning
<1>4. CASE EndPass
  <2>1. Become(Worker, Rest) /\ Rest \in Locals /\ Rest.at = "idle" /\ HasFolder(Rest)
    BY <1>4, RestType DEF EndPass, Rest, HasFolder
  <2>2. ScanType'
    BY <1>1, <1>2, <1>4 DEF EndPass, scan, ScanType
  <2> QED
    BY <1>0, <1>1, <2>1, <2>2, ScanKeepsIInv DEF Scanning
<1>5. CASE ReadDir /\ dir < Len(Dirs)
  <2>1. /\ dir' = dir + 1 /\ UNCHANGED <<act, batch>> /\ At(Worker, "list")
        /\ listing' \subseteq files
    BY <1>5 DEF ReadDir
  <2>2. ScanType'
    BY <1>0, <1>1, <1>2, <1>5, <2>1, FourDirs DEF ScanType, DiskType
  <2>3. Become(Worker, W) /\ W \in Locals /\ W.at = "list" /\ HasFolder(W)
    BY <2>1, WorkerLocals DEF At, W
  <2> QED
    BY <1>0, <1>1, <2>2, <2>3, ScanKeepsIInv DEF Scanning
<1>6. CASE ReadDir /\ ~(dir < Len(Dirs))
  <2>1. GoTo(Worker, "backfill") /\ dir' = 0 /\ UNCHANGED listing /\ batch' \subseteq rows
    BY <1>6 DEF ReadDir, WGoTo
  <2>2. ScanType'
    BY <1>0, <1>1, <1>2, <2>1, FourDirs DEF ScanType, IInv, Types, IndexType
  <2>3. PICK l \in Locals : Become(Worker, l) /\ l.at = "backfill" /\ HasFolder(l)
    BY <2>1, WorkerGoes DEF AtSteps
  <2> QED
    BY <1>0, <1>1, <2>2, <2>3, ScanKeepsIInv DEF Scanning
<1>7. CASE ReadFile
  <2>1. PICK p \in listing :
          /\ listing' = listing \ {p}
          /\ IF p \in files THEN Become(Worker, [Rest EXCEPT !.at = "exists", !.new = p]) ELSE UNCHANGED act
    BY <1>7 DEF ReadFile
  <2>2. ScanType'
    BY <1>1, <1>2, <1>7, <2>1 DEF ReadFile, ScanType
  <2>3. CASE p \in files
    <3>1. p \in Given /\ p \in Path
      BY <1>2, <2>3 DEF DiskType, Given
    <3> QED
      BY <1>0, <1>1, <2>1, <2>2, <2>3, <3>1, FileLocals, ScanKeepsIInv
  <2>4. CASE p \notin files
    <3>1. Become(Worker, W) /\ W \in Locals /\ W.at = "list" /\ HasFolder(W)
      BY <1>7, <2>1, <2>4, WorkerLocals DEF ReadFile, At, W
    <3> QED
      BY <1>0, <1>1, <2>2, <3>1, ScanKeepsIInv DEF Scanning
  <2> QED
    BY <2>3, <2>4
<1> QED
  BY <1>3, <1>4, <1>5, <1>6, <1>7

\* The worker turns to the row that gets the file.
LEMMA AttachLocals ==
  ASSUME IInv, NEW r \in Rows, NEW p \in GivenOr,
         Become(Worker, [W EXCEPT !.at = "attach", !.row = r, !.old = p])
  PROVE  \E l \in Locals : Become(Worker, l) /\ l.at = "attach" /\ l.new = W.new /\ HasFolder(l)
<1> DEFINE k == W
           l == [k EXCEPT !.at = "attach", !.row = r, !.old = p]
<1>1. k \in Locals /\ k.new = W.new /\ Become(Worker, l) /\ HasFolder(k)
  BY WorkerLocals
<1> HIDE DEF k
<1>2. l \in Locals /\ l.at = "attach" /\ l.new = k.new /\ l.kind = k.kind /\ l.to = k.to
  BY <1>1 DEF Locals
<1> HIDE DEF l
<1> QED
  BY <1>1, <1>2 DEF HasFolder

LEMMA AttachKeepsIInv == ASSUME IInv, Exists \/ SamePath \/ Attach \/ Import PROVE IInv'
<1>0. W.at \in Scanning /\ UNCHANGED <<disk, dir, listing, batch, missing, bounds, ghosts>>
  BY DEF Exists, SamePath, Attach, Import, At, W, Scanning, scan
<1>1. /\ UNCHANGED <<used, asked, raced>> /\ stirred' \in BOOLEAN /\ (UNCHANGED index => IndexType')
      /\ W.new \in Path /\ W.new \in Given /\ W.new.folder \in Folders /\ W \in Locals /\ HasFolder(W)
  BY <1>0, ScanRests, WorkerLocals, DuplicateIsGiven DEF disk, ghosts, IInv, Types, GhostType, ActOK, Path
<1>2. known' \in BOOLEAN => ScanType'
  BY <1>0, <1>1, ScanRests
<1>3. CASE Exists
  <2>1. PICK l \in Locals : Become(Worker, l) /\ l.at = "same" /\ HasFolder(l) /\ l.new = W.new
    BY <1>3, WorkerGoes DEF Exists, WGoTo, AtSteps
  <2>2. known' \in BOOLEAN /\ UNCHANGED index
    BY <1>3 DEF Exists
  <2> QED
    BY <1>0, <1>1, <1>2, <2>1, <2>2, ScanKeepsIInv
<1>4. CASE SamePath
  <2>1. UNCHANGED <<index, known>> /\ known' \in BOOLEAN
    BY <1>4 DEF SamePath, scan, IInv, Types, ScanType
  <2> DEFINE Old(r) == IF folder[r] = W.new.folder THEN W.new ELSE NoPath
  <2>2. CASE \E r \in rows : Become(Worker, [W EXCEPT !.at = "attach", !.row = r, !.old = Old(r)])
    <3>1. PICK r \in rows : Become(Worker, [W EXCEPT !.at = "attach", !.row = r, !.old = Old(r)])
      BY <2>2
    <3>2. r \in Rows /\ Old(r) \in GivenOr
      BY <1>1 DEF IInv, Types, IndexType, GivenOr
    <3> HIDE DEF Old
    <3>3. PICK l \in Locals : Become(Worker, l) /\ l.at = "attach" /\ l.new = W.new /\ HasFolder(l)
      BY <3>1, <3>2, AttachLocals
    <3> QED
      BY <1>0, <1>1, <1>2, <2>1, <3>3, ScanKeepsIInv
  <2>3. CASE WGoTo("choose")
    <3>1. PICK l \in Locals : Become(Worker, l) /\ l.at = "choose" /\ HasFolder(l) /\ l.new = W.new
      BY <2>3, WorkerGoes DEF WGoTo, AtSteps
    <3> QED
      BY <1>0, <1>1, <1>2, <2>1, <3>1, ScanKeepsIInv
  <2> QED
    BY <1>4, <2>2, <2>3 DEF SamePath
<1>5. ASSUME NextFile, IndexType' PROVE IInv'
  <2>1. Become(Worker, [Rest EXCEPT !.at = "list"]) /\ known' \in BOOLEAN
    BY <1>5 DEF NextFile
  <2> QED
    BY <1>0, <1>1, <1>2, <1>5, <2>1, ListLocals, ScanKeepsIInv DEF Scanning
<1>6. CASE Attach
  <2> DEFINE f == IF W.old = W.new THEN folder[W.row] ELSE W.new.folder
  <2>1. UNCHANGED index \/ (W.row \in rows /\ Update(W.row, f, W.new))
    BY <1>6 DEF Attach, Update
  <2>2. W.row \in rows => f \in Folders
    BY <1>1 DEF IInv, Types, IndexType
  <2> HIDE DEF f
  <2>3. IndexType'
    BY <1>1, <2>1, <2>2, UpdateType DEF IInv, GivenOr
  <2> QED
    BY <1>5, <1>6, <2>3 DEF Attach
<1>7. CASE Import
  <2>1. UNCHANGED index \/ (FreeRows # {} /\ Insert(NewRow, W.new.folder, W.new))
    BY <1>7 DEF Import
  <2>2. IndexType'
    BY <1>1, <2>1, InsertType, NewRowIsFree DEF IInv, GivenOr
  <2> QED
    BY <1>5, <1>7, <2>2 DEF Import
<1> QED
  BY <1>3, <1>4, <1>6, <1>7

LEMMA ChooseKeepsIInv == ASSUME IInv, Choose PROVE IInv'
<1>0. /\ stirred' = FALSE /\ batch' = rows /\ W.at = "choose"
      /\ UNCHANGED <<disk, index, dir, listing, known, missing, bounds, asked, raced>>
  BY DEF Choose, At, W
<1>1. W.new \in Path /\ rows \subseteq Rows
  BY <1>0 DEF IInv, ActOK, Scanning, Types, IndexType
<1>2. used' = used /\ files' = files /\ Locals' = Locals
  BY <1>0 DEF disk, Locals, GivenOr, Given
<1>3. IndexType'
  BY <1>0, <1>2, RestingTypes DEF IInv
<1>4. ScanType'
  BY <1>0, <1>1, <1>2 DEF IInv, Types, ScanType, Given
<1>5. PICK l \in Locals : Become(Worker, l) /\ l.at = "probe" /\ HasFolder(l) /\ l.new = W.new
  BY WorkerGoes DEF Choose, WGoTo, AtSteps
<1>6. ActType' /\ ActOK' /\ act'[Worker] = l /\ \A b \in Actors \ {Worker} : act'[b] = act[b]
  BY <1>1, <1>2, <1>5, BecomeOK DEF Actors
<1>7. Types'
  BY <1>0, <1>2, <1>3, <1>4, <1>6, RestingTypes DEF IInv, Types, GhostType
<1>8. Safe'
  BY <1>0, <1>2, <1>5, <1>6, SafeRests DEF At
<1>9. DuplicateOK'
  BY <1>0, <1>5, <1>6 DEF DuplicateOK, At, W, index
<1> QED
  BY <1>6, <1>7, <1>8, <1>9 DEF IInv

\* Where the worker turns to a duplicate, every row had a file that was there and was another one.
LEMMA ProbeKeepsIInv == ASSUME IInv, Probe PROVE IInv'
<1>0. /\ W.at = "probe" /\ W.at \in Scanning
      /\ UNCHANGED <<disk, index, dir, listing, known, missing, bounds, ghosts>>
  BY DEF Probe, At, W, Scanning
<1>1. W.new \in Path /\ W \in Locals /\ HasFolder(W) /\ FirstRows \subseteq batch /\ batch \subseteq Rows
  BY <1>0, WorkerLocals DEF IInv, ActOK, FirstRows, Types, ScanType
<1>2. used' = used /\ files' = files /\ Locals' = Locals /\ UNCHANGED <<asked, raced, stirred>>
  BY <1>0 DEF disk, Locals, GivenOr, Given, ghosts
<1>3. IndexType' /\ (batch' \subseteq batch => ScanType')
  BY <1>0, <1>2, RestingTypes DEF IInv, Types, ScanType, Given
<1>4. CASE \E r \in FirstRows : path[r] \in files \ {W.new} /\ batch' = batch \ {r} /\ UNCHANGED act
  <2>1. files \ {W.new} # {} /\ batch' \subseteq batch /\ UNCHANGED act
    BY <1>4
  <2>2. Types'
    BY <1>0, <1>2, <1>3, <2>1, RestingTypes DEF IInv, Types
  <2>3. ActOK' /\ Safe'
    BY <1>2, <2>1 DEF IInv, ActOK, HasFolder, Safe, Kept, At, W
  <2>4. DuplicateOK'
    BY <1>0, <1>2, <2>1 DEF DuplicateOK, At, W
  <2> QED
    BY <2>2, <2>3, <2>4 DEF IInv
<1>5. CASE \E r \in FirstRows : batch' = {} /\ Become(Worker, [W EXCEPT !.at = "attach", !.row = r])
  <2>1. PICK r \in FirstRows : batch' = {} /\ Become(Worker, [W EXCEPT !.at = "attach", !.row = r])
    BY <1>5
  <2> DEFINE l == [W EXCEPT !.at = "attach", !.row = r]
  <2>2. l \in Locals /\ l.at = "attach" /\ l.new = W.new /\ HasFolder(l)
    <3>1. r \in Rows
      BY <1>1
    <3> QED
      BY <1>1, <3>1 DEF Locals, HasFolder
  <2>3. Become(Worker, l)
    BY <2>1
  <2> HIDE DEF l
  <2> QED
    BY <1>0, <1>1, <1>2, <1>3, <2>1, <2>2, <2>3, ScanKeepsIInv DEF IInv, Types, GhostType
<1>6. CASE batch = {} /\ WGoTo("dup") /\ UNCHANGED batch
  <2>1. PICK l \in Locals : Become(Worker, l) /\ l.at = "dup" /\ HasFolder(l) /\ l.new = W.new
    BY <1>6, WorkerGoes DEF WGoTo, AtSteps
  <2>2. ActType' /\ ActOK' /\ act'[Worker] = l /\ \A b \in Actors \ {Worker} : act'[b] = act[b]
    BY <1>1, <1>2, <2>1, BecomeOK DEF Actors
  <2>3. Types'
    BY <1>0, <1>2, <1>3, <1>6, <2>2, RestingTypes DEF IInv, Types
  <2>4. Safe'
    BY <1>2, <2>1, <2>2, SafeRests DEF At
  <2>5. ~stirred => files \ {W.new} # {} \/ rows = {}
    BY <1>0, <1>6 DEF IInv, DuplicateOK, At, W
  <2>6. rows' = {} => NothingFiled'
    BY DEF NothingFiled
  <2>7. DuplicateOK'
    BY <1>0, <1>2, <2>1, <2>2, <2>5, <2>6 DEF DuplicateOK, At, W, index
  <2> QED
    BY <2>2, <2>3, <2>4, <2>7 DEF IInv
<1> QED
  BY <1>4, <1>5, <1>6 DEF Probe

\* After a duplicate.
LEMMA AfterLocals ==
  ASSUME IInv, AfterDuplicate
  PROVE  /\ known' \in BOOLEAN /\ stirred' = FALSE
         /\ \E l \in Locals : /\ Become(Worker, l) /\ l.at \in {"list", "insert"} /\ HasFolder(l)
                              /\ l.at = "insert" => l.new = W.new
<1>0. stirred' = FALSE
  BY DEF AfterDuplicate
<1>1. CASE NextFile
  BY <1>0, <1>1, ListLocals DEF NextFile
<1>2. CASE WGoTo("insert") /\ UNCHANGED known
  <2>1. PICK l \in Locals : Become(Worker, l) /\ l.at = "insert" /\ HasFolder(l) /\ l.new = W.new
    BY <1>2, WorkerGoes DEF WGoTo, AtSteps
  <2> QED
    BY <1>0, <1>2, <2>1 DEF IInv, Types, ScanType
<1> QED
  BY <1>1, <1>2 DEF AfterDuplicate

LEMMA DuplicateKeepsIInv == ASSUME IInv, Duplicate PROVE IInv'
<1>0. W.at = "dup" /\ W.at \in Scanning /\ UNCHANGED <<disk, index, dir, listing, batch, missing, bounds, asked, raced>>
  BY DEF Duplicate, At, W, Scanning
<1>1. W.new \in Path
  BY <1>0 DEF IInv, ActOK
<1>2. used' = used /\ files' = files /\ Locals' = Locals
  BY <1>0 DEF disk, Locals, GivenOr, Given
<1>3. IndexType' /\ stirred \in BOOLEAN /\ (known' \in BOOLEAN => ScanType')
  BY <1>0, <1>2, RestingTypes, ScanRests DEF IInv, Types, GhostType
<1>4. CASE AfterDuplicate
  <2>1. PICK l \in Locals : /\ Become(Worker, l) /\ l.at \in {"list", "insert"} /\ HasFolder(l)
                            /\ l.at = "insert" => l.new = W.new
    BY <1>4, AfterLocals
  <2>2. ScanType' /\ stirred' = FALSE
    BY <1>3, <1>4, AfterLocals
  <2> QED
    BY <1>0, <1>1, <1>2, <1>3, <2>1, <2>2, ScanKeepsIInv DEF Scanning
<1>5. CASE (\E r \in rows : path[r] # NoPath) /\ WGoTo("unlink") /\ UNCHANGED <<known, stirred>>
  <2>1. PICK l \in Locals : Become(Worker, l) /\ l.at = "unlink" /\ HasFolder(l) /\ l.new = W.new
    BY <1>5, WorkerGoes DEF WGoTo, AtSteps
  <2>2. ActType' /\ ActOK' /\ act'[Worker] = l /\ \A b \in Actors \ {Worker} : act'[b] = act[b]
    BY <1>1, <1>2, <2>1, BecomeOK DEF Actors
  <2>3. ScanType'
    BY <1>3, <1>5 DEF IInv, Types, ScanType
  <2>4. Types'
    BY <1>0, <1>2, <1>3, <1>5, <2>2, <2>3, RestingTypes DEF IInv, Types, GhostType
  <2>5. Safe'
    BY <1>0, <1>2, <2>1, <2>2, SafeRests DEF At
  <2>6. ~stirred => files \ {W.new} # {}
    BY <1>0, <1>5 DEF IInv, DuplicateOK, NothingFiled, At, W
  <2>7. DuplicateOK'
    BY <1>2, <1>5, <2>1, <2>2, <2>6 DEF DuplicateOK, At, W
  <2> QED
    BY <2>2, <2>4, <2>5, <2>7 DEF IInv
<1> QED
  BY <1>4, <1>5 DEF Duplicate

\* The file that is left when the worker removes a duplicate.
LEMMA RemoveDuplicateKeepsIInv == ASSUME IInv, RemoveDuplicate PROVE IInv'
<1>0. /\ W.at = "unlink" /\ W.at \in Scanning /\ UNCHANGED <<used, index, dir, listing, batch, missing, bounds, asked>>
      /\ files' = files \ {W.new} /\ AfterDuplicate
      /\ raced' = (raced \/ stirred \/ \E a \in Requests : At(a, "remove"))
  BY DEF RemoveDuplicate, At, W, Scanning
<1>1. W.new \in Path
  BY <1>0 DEF IInv, ActOK
<1>2. PICK l \in Locals : /\ Become(Worker, l) /\ l.at \in {"list", "insert"} /\ HasFolder(l)
                          /\ l.at = "insert" => l.new = W.new
  BY <1>0, AfterLocals
<1>3. Locals' = Locals /\ Given' = Given
  BY <1>0 DEF Locals, GivenOr, Given
<1>4. ActType' /\ ActOK' /\ act'[Worker] = l /\ \A b \in Actors \ {Worker} : act'[b] = act[b]
  BY <1>0, <1>1, <1>2, <1>3, BecomeOK DEF Actors, Scanning
<1>5. IndexType' /\ ScanType'
  BY <1>0, AfterLocals, ScanRests
<1>6. DiskType' /\ GhostType'
  BY <1>0, <1>3, AfterLocals DEF IInv, Types, DiskType, GhostType
<1>7. Types'
  BY <1>0, <1>4, <1>5, <1>6, RestingTypes DEF IInv, Types
<1>8. Safe'
  <2> SUFFICES ASSUME ~raced' PROVE \E f \in files' : Kept(f)'
    BY DEF Safe
  <2>1. files' # {}
    BY <1>0 DEF IInv, DuplicateOK, At, W
  <2>2. \A b \in Actors : act'[b].at # "remove"
    BY <1>0, <1>2, <1>4 DEF Actors, At
  <2> QED
    BY <2>1, <2>2 DEF Kept, At
<1>9. DuplicateOK'
  BY <1>2, <1>4, NoDuplicate
<1> QED
  BY <1>4, <1>7, <1>8, <1>9 DEF IInv

LEMMA BatchKeepsIInv == ASSUME IInv, Backfill \/ FindMissing \/ Verify \/ CleanRow PROVE IInv'
<1>0. UNCHANGED <<disk, dir, listing, known, bounds, ghosts>>
  BY DEF Backfill, FindMissing, Verify, CleanRow
<1>1. /\ UNCHANGED <<used, asked, raced>> /\ stirred' \in BOOLEAN /\ (UNCHANGED index => IndexType')
      /\ known' \in BOOLEAN /\ Given' = Given
  BY <1>0, ScanRests DEF disk, ghosts, IInv, Types, GhostType, ScanType
<1>2. batch' \subseteq Rows /\ missing' \subseteq Rows => ScanType'
  BY <1>0, <1>1 DEF IInv, Types, ScanType
<1>3. batch \subseteq Rows /\ missing \subseteq Rows /\ rows \subseteq Rows
  BY DEF IInv, Types, ScanType, IndexType
<1>4. CASE Backfill
  <2>1. PICK r \in batch : /\ batch' = batch \ {r}
                           /\ Become(Worker, [Rest EXCEPT !.kind = "save", !.at = "state", !.row = r])
    BY <1>4 DEF Backfill
  <2>2. UNCHANGED index
    BY <1>4 DEF Backfill
  <2>3. r \in Rows /\ ScanType'
    BY <1>2, <1>3, <1>4, <2>1 DEF Backfill
  <2> QED
    BY <1>0, <1>1, <2>1, <2>2, <2>3, BackfillLocals, ScanKeepsIInv DEF Scanning
<1>5. CASE FindMissing
  <2>1. PICK l \in Locals : Become(Worker, l) /\ l.at = "verify" /\ HasFolder(l)
    BY <1>5, WorkerGoes DEF FindMissing, WGoTo, AtSteps
  <2>2. ScanType' /\ UNCHANGED index
    BY <1>2, <1>3, <1>5 DEF FindMissing
  <2> QED
    BY <1>0, <1>1, <2>1, <2>2, ScanKeepsIInv DEF Scanning
<1>6. CASE CleanRow
  <2>1. PICK r \in batch : batch' = batch \ {r} /\ Forget(r)
    BY <1>6 DEF CleanRow
  <2>2. ScanType' /\ IndexType'
    BY <1>1, <1>2, <1>3, <1>6, <2>1, ForgetType DEF IInv, CleanRow
  <2>3. Become(Worker, W) /\ W \in Locals /\ W.at = "clean" /\ HasFolder(W)
    BY <1>6, WorkerLocals DEF CleanRow, At, W
  <2> QED
    BY <1>0, <1>1, <2>2, <2>3, ScanKeepsIInv DEF Scanning
<1>7. CASE Verify
  <2>1. UNCHANGED index /\ W.at = "verify"
    BY <1>7 DEF Verify, At, W
  <2>2. CASE \E r \in batch : /\ batch' = batch \ {r} /\ UNCHANGED act
                              /\ missing' = IF path[r] \in files THEN missing ELSE missing \cup {r}
    <3>1. ScanType'
      BY <1>2, <1>3, <2>2
    <3>2. Become(Worker, W) /\ W \in Locals /\ HasFolder(W)
      BY <2>2, WorkerLocals
    <3> QED
      BY <1>0, <1>1, <2>1, <3>1, <3>2, ScanKeepsIInv DEF Scanning
  <2>3. CASE batch' = missing /\ missing' = {} /\ WGoTo("clean")
    <3>1. PICK l \in Locals : Become(Worker, l) /\ l.at = "clean" /\ HasFolder(l)
      BY <2>3, WorkerGoes DEF WGoTo, AtSteps
    <3> QED
      BY <1>0, <1>1, <1>2, <1>3, <2>1, <2>3, <3>1, ScanKeepsIInv DEF Scanning
  <2> QED
    BY <1>7, <2>2, <2>3 DEF Verify
<1> QED
  BY <1>4, <1>5, <1>6, <1>7

LEMMA WorkerStepKeepsIInv == ASSUME IInv, WorkerStep PROVE IInv'
  BY PassKeepsIInv, AttachKeepsIInv, ChooseKeepsIInv, ProbeKeepsIInv, DuplicateKeepsIInv, RemoveDuplicateKeepsIInv,
     BatchKeepsIInv, WriteStepKeepsIInv DEF WorkerStep, ScanStep, Actors

------------------------------------------------------------------------------

LEMMA AgeKeepsIInv == ASSUME IInv, NEW r \in Rows, Age(r) PROVE IInv'
<1>1. /\ fresh' = fresh \ {r} /\ UNCHANGED <<disk, rows, folder, path, act, scan, bounds, ghosts>>
  BY DEF Age
<1>2. used' = used /\ files' = files /\ GivenOr' = GivenOr
  BY <1>1 DEF disk, GivenOr, Given
<1>3. IndexType'
  BY <1>1, <1>2 DEF IInv, Types, IndexType
<1>4. Types'
  BY <1>1, <1>2, <1>3, RestingTypes DEF IInv, Types
<1> QED
  BY <1>1, <1>2, <1>4 DEF IInv, ActOK, HasFolder, Safe, Kept, DuplicateOK, NothingFiled, HasFile, At, W, ghosts, scan

\* A restart forgets the locals.
LEMMA CrashKeepsIInv == ASSUME IInv, Crash PROVE IInv'
<1>1. /\ crashes < MaxCrashes /\ crashes' = crashes + 1 /\ act' = [a \in Actors |-> Rest]
      /\ listing' = {} /\ batch' = {} /\ missing' = {} /\ known' = FALSE /\ dir' = 0
      /\ stirred' = FALSE /\ UNCHANGED <<disk, index, ops, asked, raced>>
  BY DEF Crash
<1>2. used' = used /\ files' = files /\ Locals' = Locals
  BY <1>1 DEF disk, Locals, GivenOr, Given
<1>3. ActType' /\ \A a \in Actors : act'[a] = Rest
  BY <1>1, <1>2, RestType DEF ActType
<1>4. ScanType' /\ CountType'
  <2>1. ScanType'
    <3>1. 0 \in 0..Len(Dirs)
      BY FourDirs
    <3> QED
      BY <1>1, <3>1 DEF ScanType
  <2>2. crashes' \in 0..MaxCrashes
    BY <1>1, BoundsAssumption DEF CountType, IInv, Types
  <2> QED
    BY <1>1, <2>1, <2>2 DEF CountType, IInv, Types
<1>5. Types'
  BY <1>1, <1>2, <1>3, <1>4, RestingTypes DEF IInv, Types, GhostType
<1>6. \A a \in Actors : act'[a].at = "idle" /\ act'[a].kind = "none"
  BY <1>3 DEF Rest
<1>7. ActOK' /\ DuplicateOK'
  BY <1>6 DEF ActOK, HasFolder, DuplicateOK, At, W, Scanning, Actors
<1>8. Safe'
  BY <1>1, <1>2, <1>6, SafeRests
<1> QED
  BY <1>5, <1>7, <1>8 DEF IInv

LEMMA StepKeepsIInv == IInv /\ [Next]_vars => IInv'
<1> SUFFICES ASSUME IInv, [Next]_vars PROVE IInv'
  OBVIOUS
<1>1. CASE Next
  BY <1>1, ClientKeepsIInv, WorkerStepKeepsIInv, CrashKeepsIInv, RequestKeepsIInv, RequestStepKeepsIInv,
     AgeKeepsIInv DEF Next
<1>2. CASE UNCHANGED vars
  <2>1. Types'
    BY <1>2, RestingTypes DEF IInv, Types, vars, disk
  <2> QED
    BY <1>2, <2>1
    DEF vars, disk, index, scan, ghosts, IInv, ActOK, HasFolder, Safe, Kept, DuplicateOK, NothingFiled, HasFile, At, W
<1> QED
  BY <1>1, <1>2

LEMMA Invariance == Spec => []IInv
  BY InitIInv, StepKeepsIInv, PTL DEF Spec

\* The index, the locals of every handler and the listings of the scan are what the code takes them
\* for (maildir_sync.go, maildir_write.go).
THEOREM TypeCorrect == Spec => []TypeOK
<1>1. IInv => TypeOK
  BY TypesAreTypeOK DEF IInv
<1> QED
  BY <1>1, Invariance, PTL

\* A mail that was filed and that nobody deleted has a file at every moment, however requests, IMAP
\* clients, the scan and restarts interleave (writeRawMessageToMaildirFolder and
\* removeDuplicateMaildirMessage), unless a duplicate was removed just while the other copy was
\* being replaced.
THEOREM MailsSurvive == Spec => []MailSurvives
<1>1. IInv => MailSurvives
  BY DEF IInv, Safe, MailSurvives
<1> QED
  BY <1>1, Invariance, PTL
=============================================================================
