------------------------- MODULE ExternalImapProofs -------------------------
(***************************************************************************)
(* Theorems about ExternalImap for any mails, runs and bounds: a UID is    *)
(* filed once, the folder has a mail with a Message-ID once, and the       *)
(* cursor leaves none behind.                                              *)
(***************************************************************************)
EXTENDS ExternalImap, TLAPS

USE BoundsAssumption

\* Nothing has arrived and nobody runs.
LEMMA InitIInv == Init => IInv
<1> SUFFICES ASSUME Init PROVE IInv
  OBVIOUS
<1>1. TypeOK
  <2>1. Rest \in Local
    BY DEF Rest, Local, Stage, Uids
  <2>2. run \in [Actors -> Local]
    BY <2>1 DEF Init
  <2>3. remote \in [Uids -> Mails \cup {NoMail}]
    BY DEF Init
  <2>4. seen \subseteq Origins /\ imported \subseteq Origins /\ gaveUp \subseteq Uids
        /\ renumbered \in BOOLEAN /\ filed \subseteq [mail : Mails, from : Origins]
    BY Zenon DEF Init
  <2>5. QED
    BY <2>2, <2>3, <2>4 DEF Init, TypeOK, Validities, Accounts
<1>2. Present = {}
  BY DEF Init, Present
<1>3. RowsKnowFiled /\ OneCopy /\ UidsInOrder /\ NothingSkipped /\ lastUid < uidNext
  BY <1>2 DEF Init, RowsKnowFiled, OneCopy, UidsInOrder, NothingSkipped
<1>4. \A a \in Actors : LocalsFit(a) /\ ~Current(a)
  BY DEF Init, Rest, LocalsFit, Current
<1>5. QED
  BY <1>1, <1>3, <1>4 DEF IInv

\* What a run knows stays true while the server rests and rows are only added.
LEMMA OthersStayTrue ==
  ASSUME IInv, NEW b \in Actors, run'[b] = run[b],
         UNCHANGED <<server, account, renumbered>>, seen \subseteq seen', gaveUp \subseteq gaveUp'
  PROVE  LocalsFit(b)' /\ (Current(b) => RunIsTrue(b))'
  BY DEF IInv, LocalsFit, Current, RunIsTrue, BelowIsDone, Known, Present, server

\* A run that gives up or ends is of no concern.
LEMMA RestFits ==
  ASSUME IInv, NEW b \in Actors, account' \in Nat,
         run'[b] = Rest \/ run'[b] = [Rest EXCEPT !.at = "lookup"]
  PROVE  LocalsFit(b)' /\ (Current(b) => RunIsTrue(b))' /\ run'[b] \in Local
  BY DEF LocalsFit, Current, Rest, Local, Stage, Uids, Validities

\* The changes around the runs: server and user.
LEMMA OutsideKeepsIInv == ASSUME IInv, Outside PROVE IInv'
<1> USE DEF IInv, TypeOK, Actors, Uids, Validities, Accounts, Origins
<1>1. ASSUME NEW m \in Mails, Deliver(m) PROVE IInv'
  <2>1. TypeOK' /\ RowsKnowFiled' /\ OneCopy'
    BY <1>1 DEF Deliver, tables, ghosts, RowsKnowFiled, OneCopy
  <2>2. uidNext \in Uids /\ uidNext' = uidNext + 1 /\ Present' \subseteq Present \cup {uidNext}
         /\ Present \subseteq Uids
    BY <1>1 DEF Deliver, Present
  <2>3. UidsInOrder'
    BY <2>2 DEF UidsInOrder
  <2>4. (~renumbered => lastUid < uidNext /\ NothingSkipped)'
    BY <1>1, <2>2 DEF Deliver, tables, ghosts, NothingSkipped
  <2>5. ASSUME NEW b \in Actors PROVE LocalsFit(b)' /\ (Current(b) => RunIsTrue(b))'
    <3>1. LocalsFit(b)'
      BY <1>1 DEF Deliver, tables, LocalsFit
    <3>2. ASSUME Current(b)' PROVE RunIsTrue(b)'
      <4>1. Current(b) /\ RunIsTrue(b)
        BY <1>1, <3>2 DEF Deliver, tables, ghosts, Current
      <4>2. BelowIsDone(b)'
        BY <1>1, <4>1, <2>2 DEF Deliver, tables, ghosts, RunIsTrue, BelowIsDone, Known, Local
      <4>3. \A w \in run'[b].todo : w < uidNext'
        BY <1>1, <4>1, <2>2 DEF Deliver, tables, RunIsTrue, Local
      <4>4. QED
        BY <1>1, <4>1, <4>2, <4>3, <2>2 DEF Deliver, RunIsTrue, Local
    <3>3. QED
      BY <3>1, <3>2
  <2>6. QED
    BY <2>1, <2>3, <2>4, <2>5
<1>2. ASSUME NEW u \in Uids, Expunge(u) PROVE IInv'
  <2>1. Present' \subseteq Present
    BY <1>2 DEF Expunge, Present
  <2>2. TypeOK' /\ RowsKnowFiled' /\ OneCopy' /\ UidsInOrder'
    BY <1>2, <2>1 DEF Expunge, Event, tables, ghosts, RowsKnowFiled, OneCopy, UidsInOrder
  <2>3. (~renumbered => lastUid < uidNext /\ NothingSkipped)'
    BY <1>2, <2>1 DEF Expunge, tables, ghosts, NothingSkipped
  <2>4. ASSUME NEW b \in Actors PROVE LocalsFit(b)' /\ (Current(b) => RunIsTrue(b))'
    BY <1>2, <2>1 DEF Expunge, tables, ghosts, LocalsFit, Current, RunIsTrue, BelowIsDone, Known
  <2>5. QED
    BY <2>2, <2>3, <2>4
<1>3. ASSUME Renumber PROVE IInv'
  BY <1>3 DEF Renumber, Event, tables, RowsKnowFiled, OneCopy, UidsInOrder, Present, LocalsFit, Current
<1>4. ASSUME NEW r \in filed, UserRemoves(r) PROVE IInv'
  <2>1. TypeOK' /\ RowsKnowFiled' /\ OneCopy' /\ UidsInOrder'
    BY <1>4 DEF UserRemoves, Event, server, ghosts, RowsKnowFiled, OneCopy, UidsInOrder, Present
  <2>2. (~renumbered => lastUid < uidNext /\ NothingSkipped)'
    BY <1>4 DEF UserRemoves, server, ghosts, NothingSkipped, Present
  <2>3. QED
    BY <1>4, <2>1, <2>2, OthersStayTrue DEF UserRemoves, ghosts
<1>5. ASSUME SetUpAgain PROVE IInv'
  <2>1. TypeOK' /\ RowsKnowFiled' /\ OneCopy' /\ UidsInOrder'
    <3>1. TypeOK'
      <4>1. renumbered' \in BOOLEAN
        BY <1>5, Zenon DEF SetUpAgain
      <4>2. account' \in Accounts /\ lastUid' \in 0..MaxUid /\ events' \in 0..MaxEvents
        BY <1>5 DEF SetUpAgain, Event
      <4>3. seen' \subseteq Origins /\ gaveUp' \subseteq Uids
        BY <1>5, Zenon DEF SetUpAgain
      <4>4. QED
        BY <1>5, <4>1, <4>2, <4>3 DEF SetUpAgain, server
    <3>2. RowsKnowFiled'
      <4>1. ASSUME NEW o \in imported PROVE o[1] \in Nat /\ o[1] <= account
        <5>1. o \in (1..MaxAccounts) \X (1..MaxValidity) \X (1..MaxUid)
          OBVIOUS
        <5>2. QED
          BY <5>1 DEF RowsKnowFiled
      <4>2. QED
        BY <1>5, <4>1 DEF SetUpAgain, RowsKnowFiled
    <3>3. QED
      BY <1>5, <3>1, <3>2 DEF SetUpAgain, server, OneCopy, UidsInOrder, Present
  <2>2. (~renumbered => lastUid < uidNext /\ NothingSkipped)'
    BY <1>5 DEF SetUpAgain, server, NothingSkipped, Present
  <2>3. ASSUME NEW b \in Actors PROVE LocalsFit(b)' /\ ~Current(b)'
    BY <1>5 DEF SetUpAgain, LocalsFit, Current, Local
  <2>4. QED
    BY <2>1, <2>2, <2>3
<1>6. QED
  BY <1>1, <1>2, <1>3, <1>4, <1>5 DEF Outside
\* A step of one run that writes no table: it suffices to look at that run.
LEMMA QuietStep ==
  ASSUME IInv, NEW a \in Actors, NEW locals \in Local, run' = [run EXCEPT ![a] = locals],
         UNCHANGED <<server, tables, ghosts>>, conn' \in {Nobody, Worker}, events' \in 0..MaxEvents,
         LocalsFit(a)' /\ (Current(a) => RunIsTrue(a))'
  PROVE  IInv'
<1> USE DEF IInv
<1>1. TypeOK'
  BY DEF TypeOK, server, tables, ghosts
<1>2. RowsKnowFiled' /\ OneCopy' /\ UidsInOrder' /\ (~renumbered => lastUid < uidNext /\ NothingSkipped)'
  BY DEF server, tables, ghosts, RowsKnowFiled, OneCopy, UidsInOrder, Present, NothingSkipped
<1>3. ASSUME NEW b \in Actors PROVE LocalsFit(b)' /\ (Current(b) => RunIsTrue(b))'
  <2>1. CASE b = a
    BY <2>1
  <2>2. CASE b # a
    <3>1. run'[b] = run[b]
      BY <2>2 DEF TypeOK
    <3>2. QED
      BY <3>1, OthersStayTrue DEF tables, ghosts
  <2>3. QED
    BY <2>1, <2>2
<1>4. QED
  BY <1>1, <1>2, <1>3

\* So does a run that rests or is taken back to its row.
LEMMA RestingStep ==
  ASSUME IInv, NEW a \in Actors, UNCHANGED <<server, tables, ghosts>>,
         conn' \in {Nobody, Worker}, events' \in 0..MaxEvents,
         Become(a, Rest) \/ Become(a, [Rest EXCEPT !.at = "lookup"])
  PROVE  IInv'
<1> DEFINE new == run'[a]
<1>1. run' = [run EXCEPT ![a] = new] /\ (new = Rest \/ new = [Rest EXCEPT !.at = "lookup"])
  BY DEF IInv, TypeOK, Become
<1>2. account' \in Nat
  BY DEF IInv, TypeOK, tables, Accounts
<1>3. LocalsFit(a)' /\ (Current(a) => RunIsTrue(a))' /\ new \in Local
  BY <1>1, <1>2, RestFits
<1> HIDE DEF new
<1>4. QED
  BY <1>1, <1>3, QuietStep

\* Every failure but those of a mail ends the run.
LEMMA EndsKeepIInv ==
  ASSUME IInv, NEW a \in Actors,
         FetchNewFails(a) \/ SaveStateFails(a) \/ HangUp(a) \/ Tick \/ TimesOut
  PROVE  IInv'
<1> USE BoundsAssumption
<1>1. events \in 0..MaxEvents /\ conn \in {Nobody, Worker} /\ Worker \in Actors
  BY DEF IInv, TypeOK, Actors
<1>2. CASE FetchNewFails(a) \/ SaveStateFails(a)
  BY <1>1, <1>2, RestingStep DEF FetchNewFails, SaveStateFails, Event, Leave
<1>3. CASE HangUp(a)
  BY <1>1, <1>3, RestingStep DEF HangUp, Event
<1>4. CASE Tick
  BY <1>1, <1>4, RestingStep DEF Tick
<1>5. CASE TimesOut
  BY <1>1, <1>5, RestingStep DEF TimesOut, Leave
<1>6. QED
  BY <1>2, <1>3, <1>4, <1>5

\* A restart forgets all runs.
LEMMA CrashKeepsIInv == ASSUME IInv, Crash PROVE IInv'
<1> USE BoundsAssumption DEF IInv
<1>1. \A b \in Actors : run'[b] = Rest
  BY DEF Crash
<1>2. account' \in Nat
  BY DEF TypeOK, Crash, tables, Accounts
<1>3. \A b \in Actors : LocalsFit(b)' /\ (Current(b) => RunIsTrue(b))' /\ run'[b] \in Local
  BY <1>1, <1>2, RestFits
<1>4. run' \in [Actors -> Local]
  BY <1>3 DEF Crash
<1>5. TypeOK'
  BY <1>4 DEF TypeOK, Crash, Event, server, tables, ghosts
<1>6. QED
  BY <1>3, <1>5
     DEF Crash, server, tables, ghosts, RowsKnowFiled, OneCopy, UidsInOrder, Present, NothingSkipped
\* The account and the cursor are read.
LEMMA BeginKeepsIInv == ASSUME IInv, NEW a \in Actors, Begin(a) PROVE IInv'
<1> DEFINE new == [Rest EXCEPT !.at = "state", !.id = account]
<1>1. account \in Accounts /\ account \in 1..MaxAccounts
  BY DEF IInv, TypeOK, Accounts
<1>2. new \in Local
  <2>1. "state" \in Stage /\ account \in 0..MaxAccounts /\ 0 \in 0..MaxUid /\ 0 \in 0..MaxValidity
    BY <1>1, BoundsAssumption DEF Stage
  <2>2. QED
    BY <2>1 DEF Rest, Local
<1>3. run'[a] = new
  BY DEF IInv, TypeOK, Begin, Become
<1>4. LocalsFit(a)' /\ ~Current(a)'
  BY <1>1, <1>3, BoundsAssumption DEF Begin, tables, Rest, LocalsFit, Current
<1> HIDE DEF new
<1>5. QED
  BY <1>2, <1>4, QuietStep DEF Begin, Become, IInv, TypeOK, new

\* The cursor is read, or taken for zero, below which no mail lies.
LEMMA LoadStateKeepsIInv ==
  ASSUME IInv, NEW a \in Actors, LoadState(a) \/ LoadStateFails(a) PROVE IInv'
<1> DEFINE max == IF LoadState(a) /\ run[a].id = account THEN lastUid ELSE 0
<1> DEFINE new == [run[a] EXCEPT !.at = "fetch", !.max = max]
<1>1. run[a] \in Local /\ max \in 0..MaxUid /\ run[a].at = "state" /\ run[a].max = 0
      /\ events' \in 0..MaxEvents
  BY BoundsAssumption DEF IInv, TypeOK, LocalsFit, LoadState, LoadStateFails, At, Event
<1>2. new \in Local
  BY <1>1 DEF Local, Stage
<1>3. run' = [run EXCEPT ![a] = new]
  <2>1. CASE LoadState(a)
    BY <2>1 DEF LoadState, Become
  <2>2. CASE ~LoadState(a)
    <3>1. run' = [run EXCEPT ![a] = [run[a] EXCEPT !.at = "fetch"]]
      BY <2>2 DEF LoadStateFails, Become
    <3>2. new = [run[a] EXCEPT !.at = "fetch"]
      BY <1>1, <2>2 DEF Local
    <3>3. QED
      BY <3>1, <3>2
  <2>3. QED
    BY <2>1, <2>2
<1>4. run'[a] = new /\ UNCHANGED <<server, tables, ghosts>> /\ conn' = conn
  BY <1>3 DEF IInv, TypeOK, LoadState, LoadStateFails
<1>5. LocalsFit(a)'
  BY <1>1, <1>4 DEF IInv, LocalsFit, tables, Local
<1>6. ASSUME Current(a)' PROVE RunIsTrue(a)'
  <2>1. ~renumbered /\ lastUid < uidNext /\ NothingSkipped /\ uidNext \in 1..(MaxUid + 1)
    BY <1>4, <1>6 DEF IInv, TypeOK, Current, ghosts
  <2>2. new.max = max /\ new.todo = {} /\ new.at = "fetch"
    BY <1>1 DEF IInv, LocalsFit, Local
  <2>3. max < uidNext /\ \A u \in Present : u <= max => Known(u)
    <3>1. CASE max = lastUid
      BY <2>1, <3>1 DEF NothingSkipped, Known
    <3>2. CASE max = 0
      BY <2>1, <3>2, BoundsAssumption DEF Present, Uids
    <3>3. QED
      BY <3>1, <3>2
  <2> HIDE DEF new, max
  <2>4. QED
    BY <1>4, <2>2, <2>3 DEF RunIsTrue, BelowIsDone, Known, server, tables, ghosts, Present
<1> HIDE DEF new
<1>7. QED
  BY <1>1, <1>2, <1>3, <1>4, <1>5, <1>6, QuietStep DEF IInv, TypeOK

\* What a list leaves out below one of its mails is passed over.
LEMMA FetchNewKeepsIInv == ASSUME IInv, NEW a \in Actors, FetchNew(a) PROVE IInv'
<1> DEFINE above == {u \in Present : u > run[a].max}
<1>1. PICK list \in SUBSET above :
        Become(a, [run[a] EXCEPT !.at = "item", !.listed = validity, !.todo = list,
                       !.passed = {u \in above \ list : \E w \in list : u < w}])
  BY DEF FetchNew
<1> DEFINE out == {u \in above \ list : \E w \in list : u < w}
<1> DEFINE new == [run[a] EXCEPT !.at = "item", !.listed = validity, !.todo = list, !.passed = out]
<1>2. run[a] \in Local /\ list \subseteq Uids /\ out \subseteq Uids /\ validity \in Validities
      /\ Present \subseteq Uids /\ run[a].at = "fetch" /\ run[a].passed = {} /\ run[a].todo = {}
      /\ run[a].uid = 0
  BY DEF IInv, TypeOK, Present, LocalsFit, FetchNew, At
<1>3. new \in Local
  <2>1. "item" \in Stage /\ list \in SUBSET Uids /\ out \in SUBSET Uids /\ validity \in 0..MaxValidity
    BY <1>2, BoundsAssumption DEF Stage, Validities
  <2> HIDE DEF out
  <2>2. QED
    BY <1>2, <2>1 DEF Local
<1>4. run'[a] = new /\ run' = [run EXCEPT ![a] = new]
  BY <1>1 DEF IInv, TypeOK, Become
<1>5. LocalsFit(a)'
  <2>1. new.at = "item" /\ new.uid = 0 /\ new.id = run[a].id
    BY <1>2 DEF Local
  <2> HIDE DEF new
  <2>2. QED
    BY <1>2, <1>4, <2>1 DEF IInv, LocalsFit, FetchNew, tables
<1>6. ASSUME Current(a)' PROVE RunIsTrue(a)'
  <2>1. new.max = run[a].max /\ new.todo = list /\ new.at = "item" /\ new.listed = validity
        /\ new.passed = out /\ new.id = run[a].id
    BY <1>2 DEF Local
  <2> HIDE DEF new
  <2>2. Current(a) /\ RunIsTrue(a)
    BY <1>2, <1>4, <1>6, <2>1 DEF IInv, Current, FetchNew, tables, ghosts
  <2>3. \A w \in list : w < uidNext
    BY DEF IInv, UidsInOrder
  <2>4. ASSUME NEW u \in Present, u <= run[a].max \/ \E w \in list : u <= w
        PROVE  Known(u) \/ u \in out \/ u \in list
    <3>1. CASE u <= run[a].max
      BY <1>2, <2>2, <3>1, BoundsAssumption DEF RunIsTrue, BelowIsDone, Uids
    <3>2. CASE ~(u <= run[a].max) /\ u \notin list
      <4>1. PICK w \in list : u <= w
        BY <2>4, <3>2
      <4>2. u < w /\ u \in above
        BY <1>2, <3>2, <4>1, BoundsAssumption DEF Uids, Local
      <4>3. QED
        BY <3>2, <4>2
    <3>3. QED
      BY <3>1, <3>2
  <2> HIDE DEF out
  <2>5. BelowIsDone(a)'
    BY <1>4, <2>1, <2>4 DEF BelowIsDone, Known, FetchNew, server, tables, ghosts, Present
  <2>6. QED
    BY <1>4, <2>1, <2>2, <2>3, <2>5 DEF RunIsTrue, FetchNew, server
<1> HIDE DEF new
<1>7. QED
  BY <1>3, <1>4, <1>5, <1>6, QuietStep DEF FetchNew, IInv, TypeOK

\* A run turns to a mail of its list, which it may pass over only when the mail is known.
LEMMA TurnStep ==
  ASSUME IInv, NEW a \in Actors, NEW u \in run[a].todo, NEW place \in {"item", "raw"},
         TurnTo(a, u, place), run[a].at = "item",
         UNCHANGED <<server, tables, conn, ghosts>>, events' \in 0..MaxEvents,
         place = "item" => run[a].id = account /\ <<account, run[a].listed, u>> \in seen
  PROVE  IInv'
<1> DEFINE max == IF u > run[a].max THEN u ELSE run[a].max
<1> DEFINE hand == IF place = "raw" THEN u ELSE 0
<1> DEFINE new == [run[a] EXCEPT !.todo = run[a].todo \ {u}, !.max = max, !.at = place, !.uid = hand]
<1>1. run[a] \in Local /\ u \in Uids /\ run[a].max \in 0..MaxUid /\ run[a].todo \subseteq Uids
      /\ Present \subseteq Uids
  BY DEF IInv, TypeOK, Local, Present
<1>2. max \in 0..MaxUid /\ hand \in 0..MaxUid /\ place \in Stage /\ run[a].todo \ {u} \in SUBSET Uids
  BY <1>1, BoundsAssumption DEF Stage, Uids
<1>3. new \in Local /\ new.todo = run[a].todo \ {u} /\ new.max = max /\ new.at = place /\ new.uid = hand
      /\ new.id = run[a].id /\ new.listed = run[a].listed /\ new.passed = run[a].passed
  <2> HIDE DEF max, hand
  <2>1. QED
    BY <1>1, <1>2 DEF Local
<1>4. run'[a] = new /\ run' = [run EXCEPT ![a] = new]
  BY DEF IInv, TypeOK, TurnTo, Become
<1> HIDE DEF new
<1>5. LocalsFit(a)'
  BY <1>1, <1>3, <1>4, BoundsAssumption DEF IInv, LocalsFit, tables, Uids
<1>6. ASSUME Current(a)' PROVE RunIsTrue(a)'
  <2>1. Current(a) /\ RunIsTrue(a) /\ run[a].id = account /\ run[a].listed = validity /\ run[a].uid = 0
    BY <1>1, <1>3, <1>4, <1>6 DEF IInv, LocalsFit, Current, RunIsTrue, tables, ghosts
  <2>2. max < uidNext /\ \A w \in new.todo : w < uidNext
    BY <1>3, <2>1 DEF RunIsTrue
  <2>3. ASSUME NEW v \in Present, v <= max \/ \E w \in new.todo : v <= w
        PROVE  Known(v) \/ v \in new.passed \/ v \in new.todo \/ v = new.uid
    <3>1. v <= run[a].max \/ \E w \in run[a].todo : v <= w
      BY <1>3, <2>3
    <3>2. Known(v) \/ v \in run[a].passed \/ v \in run[a].todo
      BY <1>1, <2>1, <3>1, BoundsAssumption DEF RunIsTrue, BelowIsDone, Uids
    <3>3. CASE v = u
      BY <1>3, <2>1, <3>3 DEF Known
    <3>4. QED
      BY <1>3, <3>2, <3>3
  <2> HIDE DEF max, hand
  <2>4. BelowIsDone(a)'
    BY <1>3, <1>4, <2>3 DEF BelowIsDone, Known, server, tables, ghosts, Present
  <2>5. QED
    BY <1>3, <1>4, <2>1, <2>2, <2>4 DEF RunIsTrue, server
<1>7. QED
  BY <1>3, <1>4, <1>5, <1>6, QuietStep DEF IInv, TypeOK

LEMMA NextItemKeepsIInv ==
  ASSUME IInv, NEW a \in Actors, NextItem(a) \/ LookupFails(a) PROVE IInv'
<1>1. CASE NextItem(a)
  <2>1. PICK u \in run[a].todo :
          TurnTo(a, u, IF run[a].id = account /\ <<account, run[a].listed, u>> \in seen THEN "item" ELSE "raw")
    BY <1>1 DEF NextItem
  <2>2. events' \in 0..MaxEvents
    BY <1>1 DEF NextItem, IInv, TypeOK
  <2>3. QED
    BY <1>1, <2>1, <2>2, TurnStep DEF NextItem, At
<1>2. CASE LookupFails(a)
  <2>1. PICK u \in run[a].todo : TurnTo(a, u, "raw")
    BY <1>2 DEF LookupFails
  <2>2. events' \in 0..MaxEvents
    BY <1>2, BoundsAssumption DEF LookupFails, Event, IInv, TypeOK
  <2>3. QED
    BY <1>2, <2>1, <2>2, TurnStep DEF LookupFails, At
<1>3. QED
  BY <1>1, <1>2

\* A run that passes over the mail in its hands remembers it, unless the server has it no
\* longer or the run is not one of the account.
LEMMA SkipStep ==
  ASSUME IInv, NEW a \in Actors, NEW lost, Skip(a, lost), lost \subseteq {run[a].uid},
         run[a].at \in {"raw", "file"}, UNCHANGED <<server, tables, conn, ghosts>>, events' \in 0..MaxEvents,
         \/ run[a].uid \in lost \/ run[a].uid \notin Present \/ run[a].id # account
  PROVE  IInv'
<1> DEFINE new == [run[a] EXCEPT !.at = "item", !.uid = 0, !.raw = 0, !.mail = NoMail, !.passed = @ \cup lost]
<1>1. run[a] \in Local /\ run[a].uid \in Uids
  BY BoundsAssumption DEF IInv, TypeOK, LocalsFit, Local, Uids
<1>2. new \in Local
  <2>1. "item" \in Stage /\ 0 \in 0..MaxValidity /\ 0 \in 0..MaxUid /\ run[a].passed \cup lost \in SUBSET Uids
    BY <1>1, BoundsAssumption DEF Stage, Local
  <2>2. QED
    BY <1>1, <2>1 DEF Local
<1>3. run'[a] = new /\ run' = [run EXCEPT ![a] = new]
  BY DEF IInv, TypeOK, Skip, Become
<1>4. LocalsFit(a)'
  BY <1>1, <1>3 DEF IInv, LocalsFit, tables, Local
<1>5. ASSUME Current(a)' PROVE RunIsTrue(a)'
  <2>1. Current(a) /\ RunIsTrue(a) /\ run[a].id = account
    BY <1>1, <1>3, <1>5 DEF IInv, Current, tables, ghosts, Local
  <2>2. new.max = run[a].max /\ new.todo = run[a].todo /\ new.listed = run[a].listed
        /\ new.passed = run[a].passed \cup lost /\ new.at = "item" /\ new.uid = 0
    BY <1>1 DEF Local
  <2> HIDE DEF new
  <2>3. QED
    BY <1>3, <2>1, <2>2
       DEF RunIsTrue, BelowIsDone, Known, server, tables, ghosts, Present
<1> HIDE DEF new
<1>6. QED
  BY <1>2, <1>3, <1>4, <1>5, QuietStep DEF IInv, TypeOK

LEMMA FailuresOfAMailKeepIInv ==
  ASSUME IInv, NEW a \in Actors, FetchRawFails(a) \/ FileMailFails(a)
  PROVE  IInv'
<1>1. events' \in 0..MaxEvents
  BY BoundsAssumption DEF IInv, TypeOK, FetchRawFails, FileMailFails, Event
<1>2. QED
  BY <1>1, SkipStep DEF FetchRawFails, FileMailFails, At

\* The mail is fetched, or it is gone.
LEMMA FetchRawKeepsIInv == ASSUME IInv, NEW a \in Actors, FetchRaw(a) PROVE IInv'
<1> DEFINE m == remote[run[a].uid]
<1> DEFINE new == [run[a] EXCEPT !.at = "file", !.mail = m, !.raw = validity]
<1>1. run[a] \in Local /\ run[a].uid \in Uids /\ validity \in 1..MaxValidity /\ events \in 0..MaxEvents
  BY BoundsAssumption DEF IInv, TypeOK, LocalsFit, Local, Uids, Validities, FetchRaw, At
<1>2. CASE m = NoMail
  BY <1>1, <1>2, SkipStep DEF FetchRaw, At, Present
<1>3. CASE m # NoMail
  <2>1. m \in Mails /\ new \in Local
    <3>1. m \in Mails /\ "file" \in Stage /\ validity \in 0..MaxValidity
      BY <1>1, <1>3, BoundsAssumption DEF IInv, TypeOK, Stage
    <3> HIDE DEF m
    <3>2. QED
      BY <1>1, <3>1 DEF Local
  <2>2. run'[a] = new /\ run' = [run EXCEPT ![a] = new]
    BY <1>3 DEF IInv, TypeOK, FetchRaw, Become
  <2>3. LocalsFit(a)'
    BY <1>1, <1>3, <2>2, BoundsAssumption DEF IInv, LocalsFit, FetchRaw, At, tables, Local
  <2>4. ASSUME Current(a)' PROVE RunIsTrue(a)'
    <3>1. Current(a) /\ RunIsTrue(a)
      BY <1>1, <2>2, <2>4 DEF IInv, Current, FetchRaw, At, tables, ghosts, Local
    <3>2. new.max = run[a].max /\ new.todo = run[a].todo /\ new.listed = run[a].listed
          /\ new.passed = run[a].passed /\ new.at = "file" /\ new.uid = run[a].uid /\ new.raw = validity
      BY <1>1 DEF Local
    <3> HIDE DEF new
    <3>3. QED
      BY <2>2, <3>1, <3>2
         DEF RunIsTrue, BelowIsDone, Known, FetchRaw, At, server, tables, ghosts, Present
  <2> HIDE DEF new
  <2>5. QED
    BY <1>1, <2>1, <2>2, <2>3, <2>4, QuietStep DEF FetchRaw, IInv, TypeOK
<1>4. QED
  BY <1>2, <1>3
\* What a run that files a mail knows of it.
LEMMA OriginKnown ==
  ASSUME IInv, NEW a \in Actors, At(a, "file"), run[a].id = account
  PROVE  Origin(a) \in Origins /\ run[a].mail \in Mails /\ Origin(a)[1] = account
<1>1. run[a] \in Local /\ run[a].uid \in Uids /\ run[a].raw \in Validities /\ account \in Accounts
  BY BoundsAssumption DEF IInv, TypeOK, LocalsFit, Local, Uids, Validities, At
<1>2. QED
  BY <1>1 DEF IInv, LocalsFit, Local, Origin, Origins, At

\* The transaction of a mail: row and mail together, or neither.
LEMMA FileMailKeepsIInv == ASSUME IInv, NEW a \in Actors, FileMail(a) PROVE IInv'
<1> DEFINE new == [run[a] EXCEPT !.at = "item", !.uid = 0, !.raw = 0, !.mail = NoMail]
<1>1. CASE run[a].id # account
  <2>1. events \in 0..MaxEvents
    BY DEF IInv, TypeOK
  <2>2. QED
    BY <1>1, <2>1, SkipStep DEF FileMail, At, tables, ghosts
<1>2. CASE run[a].id = account
  <2>1. Origin(a) \in Origins /\ run[a].mail \in Mails /\ Origin(a)[1] = account
    BY <1>2, OriginKnown DEF FileMail
  <2>2. run[a] \in Local /\ new \in Local
    <3>1. run[a] \in Local /\ "item" \in Stage /\ 0 \in 0..MaxValidity /\ 0 \in 0..MaxUid
      BY BoundsAssumption DEF IInv, TypeOK, Stage
    <3>2. QED
      BY <3>1 DEF Local
  <2>3. run'[a] = new /\ run' = [run EXCEPT ![a] = new]
    BY <1>2 DEF IInv, TypeOK, FileMail, GoOn, Become
  <2>4. /\ seen' = seen \cup {Origin(a)}
        /\ \/ UNCHANGED <<filed, imported>>
           \/ /\ run[a].mail \in Unnamed \/ \A r \in filed : r.mail # run[a].mail
              /\ filed' = filed \cup {[mail |-> run[a].mail, from |-> Origin(a)]}
              /\ imported' = imported \cup {Origin(a)}
    BY <1>2 DEF FileMail, HasCopy
  <2>5. run' \in [Actors -> Local]
    BY <2>2, <2>3 DEF IInv, TypeOK
  <2>6. seen' \subseteq Origins /\ filed' \subseteq [mail : Mails, from : Origins] /\ imported' \subseteq Origins
    BY <2>1, <2>4 DEF IInv, TypeOK
  <2>7. TypeOK'
    BY <2>5, <2>6 DEF IInv, TypeOK, FileMail, server
  <2>8. RowsKnowFiled'
    BY <2>1, <2>4, BoundsAssumption DEF IInv, TypeOK, Accounts, RowsKnowFiled, FileMail
  <2>9. OneCopy'
    BY <2>4 DEF IInv, OneCopy
  <2>10. UidsInOrder' /\ (~renumbered => lastUid < uidNext /\ NothingSkipped)'
    BY <2>4 DEF IInv, FileMail, server, UidsInOrder, NothingSkipped, Present
  <2>11. LocalsFit(a)'
    BY <2>2, <2>3 DEF IInv, LocalsFit, FileMail, At, Local
  <2>12. ASSUME Current(a)' PROVE RunIsTrue(a)'
    <3>1. Current(a) /\ RunIsTrue(a)
      BY <1>2, <2>12 DEF IInv, Current, FileMail, At
    <3>2. new.max = run[a].max /\ new.todo = run[a].todo /\ new.listed = run[a].listed
          /\ new.passed = run[a].passed /\ new.at = "item" /\ new.uid = 0
      BY <2>2 DEF Local
    <3>3. Origin(a) = <<account, validity, run[a].uid>>
      BY <1>2, <3>1 DEF Origin, RunIsTrue, FileMail, At
    <3> HIDE DEF new
    <3>4. QED
      BY <2>3, <2>4, <3>1, <3>2, <3>3
         DEF RunIsTrue, BelowIsDone, Known, FileMail, At, server, Present
  <2>13. ASSUME NEW b \in Actors, b # a PROVE LocalsFit(b)' /\ (Current(b) => RunIsTrue(b))'
    <3>1. run'[b] = run[b]
      BY <2>3, <2>13 DEF IInv, TypeOK
    <3>2. QED
      BY <2>4, <3>1, OthersStayTrue DEF FileMail
  <2>14. QED
    BY <2>7, <2>8, <2>9, <2>10, <2>11, <2>12, <2>13 DEF IInv
<1>3. QED
  BY <1>1, <1>2

\* The end of a run: all below its place is known or has failed, and the cursor may move there.
LEMMA SaveStateKeepsIInv == ASSUME IInv, NEW a \in Actors, SaveState(a) PROVE IInv'
<1> DEFINE new == Rest
<1>1. run' = [run EXCEPT ![a] = new] /\ run'[a] = new /\ conn' \in {Nobody, Worker}
  BY DEF IInv, TypeOK, SaveState, Leave, Become
<1>2. account' \in Nat
  BY DEF IInv, TypeOK, SaveState, Accounts
<1>3. LocalsFit(a)' /\ (Current(a) => RunIsTrue(a))' /\ new \in Local
  BY <1>1, <1>2, RestFits
<1> HIDE DEF new
<1>4. run[a] \in Local /\ lastUid \in 0..MaxUid /\ lastUid' \in 0..MaxUid /\ gaveUp' \subseteq Uids
  BY BoundsAssumption DEF IInv, TypeOK, Local, SaveState
<1>5. run' \in [Actors -> Local]
  BY <1>1, <1>3 DEF IInv, TypeOK
<1>6. TypeOK'
  BY <1>1, <1>4, <1>5 DEF IInv, TypeOK, SaveState, server
<1>7. RowsKnowFiled' /\ OneCopy' /\ UidsInOrder'
  BY DEF IInv, SaveState, server, RowsKnowFiled, OneCopy, UidsInOrder, Present
<1>8. gaveUp \subseteq gaveUp'
  BY DEF SaveState
<1>9. ASSUME ~renumbered PROVE lastUid' < uidNext' /\ NothingSkipped'
  <2>1. CASE run[a].id # account
    BY <1>9, <2>1 DEF IInv, SaveState, server, NothingSkipped, Present
  <2>2. CASE run[a].id = account
    <3>1. RunIsTrue(a)
      BY <1>9, <2>2 DEF IInv, Current, SaveState, At
    <3>2. lastUid' = (IF run[a].max > lastUid THEN run[a].max ELSE lastUid) /\ gaveUp' = gaveUp \cup run[a].passed
      BY <2>2 DEF SaveState
    <3>3. lastUid' < uidNext'
      BY <1>9, <3>1, <3>2 DEF IInv, RunIsTrue, SaveState, server
    <3>4. ASSUME NEW u \in Present, u <= lastUid' PROVE <<account, validity, u>> \in seen \/ u \in gaveUp'
      <4>1. CASE u <= run[a].max
        <5>1. run[a].todo = {} /\ run[a].uid = 0
          BY DEF IInv, LocalsFit, SaveState, At
        <5>2. Known(u) \/ u \in run[a].passed
          BY <3>1, <4>1, <5>1, BoundsAssumption DEF RunIsTrue, BelowIsDone, Present, Uids
        <5>3. QED
          BY <3>2, <5>2 DEF Known, SaveState
      <4>2. CASE u <= lastUid
        BY <1>9, <3>2, <4>2 DEF IInv, NothingSkipped
      <4>3. QED
        BY <3>2, <3>4, <4>1, <4>2
    <3>5. QED
      BY <3>3, <3>4 DEF NothingSkipped, SaveState, server, Present
  <2>3. QED
    BY <2>1, <2>2
<1>10. ASSUME NEW b \in Actors, b # a PROVE LocalsFit(b)' /\ (Current(b) => RunIsTrue(b))'
  <2>1. run'[b] = run[b]
    BY <1>1, <1>10 DEF IInv, TypeOK
  <2>2. QED
    BY <1>8, <2>1, OthersStayTrue DEF SaveState
<1>11. renumbered' = renumbered
  BY DEF SaveState
<1>12. QED
  BY <1>3, <1>6, <1>7, <1>9, <1>10, <1>11 DEF IInv

\* Runs, worker, user, server and restarts together.
LEMMA StepKeepsIInv == IInv /\ [Next]_vars => IInv'
<1> SUFFICES ASSUME IInv, [Next]_vars PROVE IInv'
  OBVIOUS
<1>1. CASE Next
  BY <1>1, OutsideKeepsIInv, EndsKeepIInv, CrashKeepsIInv, BeginKeepsIInv, LoadStateKeepsIInv,
     FetchNewKeepsIInv, NextItemKeepsIInv, FetchRawKeepsIInv, FailuresOfAMailKeepIInv,
     FileMailKeepsIInv, SaveStateKeepsIInv
     DEF Next, WorkerStep, Proceed, Fails, Actors
<1>2. CASE UNCHANGED vars
  <2>1. TypeOK' /\ RowsKnowFiled' /\ OneCopy' /\ UidsInOrder'
        /\ (~renumbered => lastUid < uidNext /\ NothingSkipped)'
    BY <1>2 DEF IInv, vars, server, tables, ghosts, TypeOK, RowsKnowFiled, OneCopy, UidsInOrder,
                Present, NothingSkipped
  <2>2. ASSUME NEW b \in Actors PROVE LocalsFit(b)' /\ (Current(b) => RunIsTrue(b))'
    BY <1>2, OthersStayTrue DEF vars, tables, ghosts
  <2>3. QED
    BY <2>1, <2>2 DEF IInv
<1>3. QED
  BY <1>1, <1>2

\* In every state a run of the account lies on a place below which, and below the mails of
\* its list, every mail of the server is known, passed over by the run, still on its list or
\* in its hands (syncExternalIMAPFolder).
THEOREM InvariantHolds == Spec => []IInv
  BY InitIInv, StepKeepsIInv, PTL DEF Spec

\* Every variable keeps its type.
THEOREM TypeCorrect == Spec => []TypeOK
<1>1. IInv => TypeOK
  BY DEF IInv
<1>2. QED
  BY <1>1, InvariantHolds, PTL

\* The local folder never has a mail with a Message-ID twice (insertExternalIMAPMessageOnce,
\* which does not look for a copy of a mail without one).
THEOREM NoSecondCopy == Spec => []OneCopy
<1>1. IInv => OneCopy
  BY DEF IInv
<1>2. QED
  BY <1>1, InvariantHolds, PTL

\* The cursor leaves no mail behind but those that a run has counted as failed or that its
\* list, cut off and out of order, left out, until the server counts anew
\* (external_imap_folder_states).
THEOREM CursorSkipsNothing == Spec => []NothingSkipped
<1>1. IInv => NothingSkipped
  BY DEF IInv, NothingSkipped
<1>2. QED
  BY <1>1, InvariantHolds, PTL

\* Whatever runs overlap, are cut off and repeated, and whatever the user has done with a
\* mail since, a UID of the account is filed once, with or without a Message-ID.
THEOREM MailsImportedOnce == Spec => ImportedOnce
<1>1. ASSUME IInv, [Next]_vars PROVE [\A r \in filed' \ filed : r.from \notin imported]_vars
  <2>1. CASE \E a \in Actors : FileMail(a)
    <3>1. PICK a \in Actors : FileMail(a)
      BY <2>1
    <3>2. CASE run[a].id # account
      BY <3>1, <3>2 DEF FileMail
    <3>3. CASE run[a].id = account
      <4>1. Origin(a)[1] = account
        BY <1>1, <3>1, <3>3, OriginKnown DEF FileMail
      <4>2. filed' = filed \/ /\ Origin(a) \notin seen
                              /\ filed' = filed \cup {[mail |-> run[a].mail, from |-> Origin(a)]}
        BY <3>1, <3>3 DEF FileMail
      <4>3. Origin(a) \notin seen => Origin(a) \notin imported
        BY <1>1, <4>1 DEF IInv, RowsKnowFiled
      <4>4. QED
        BY <4>2, <4>3
    <3>4. QED
      BY <3>2, <3>3
  <2>2. CASE ~\E a \in Actors : FileMail(a)
    <3>1. filed' \subseteq filed \/ UNCHANGED vars
      BY <1>1, <2>2
         DEF Next, Outside, WorkerStep, Crash, Proceed, Fails, Deliver, Expunge, Renumber, UserRemoves,
             SetUpAgain, Begin, LoadState, FetchNew, FetchNewFails, NextItem, FetchRaw, FetchRawFails,
             FileMailFails, SaveState, SaveStateFails, HangUp, Tick, TimesOut, LoadStateFails, LookupFails, tables, vars
    <3>2. QED
      BY <3>1
  <2>3. QED
    BY <2>1, <2>2
<1>2. QED
  BY <1>1, InvariantHolds, PTL DEF Spec, ImportedOnce

\* Synchronising twice is as good as once: no UID is filed again, and a mail with a Message-ID
\* not under another UID either, while the folder has it.
THEOREM RunsFileOnce == Spec => FiledOnce
<1>1. /\ OneCopy'
      /\ [\A r \in filed' \ filed : r.from \notin imported]_vars
      => [OneCopy' /\ \A r \in filed' \ filed : r.from \notin imported]_vars
  OBVIOUS
<1>2. QED
  BY <1>1, NoSecondCopy, MailsImportedOnce, PTL DEF ImportedOnce, FiledOnce
=============================================================================
