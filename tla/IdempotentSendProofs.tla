------------------------- MODULE IdempotentSendProofs -------------------------
(* Theorems about IdempotentSend for all sets of keys, bodies and requests and all bounds. *)
EXTENDS IdempotentSend, TLAPS

\* Before the first request there is no row, no mail and no holder.
LEMMA InitIInv == Init => IInv
  BY BoundsAssumption
  DEF Init, IInv, TypeOK, Step, Holders, Mails, OldRowsWait, HolderOwnsRow, RowIsTrue,
      ReplayIsCurrent, OneMailPerKey, SameAnswer

\* Each action of a request keeps the invariant: only the request that inserted the row writes
\* to it, and no other can become its holder while the row is there.
LEMMA HandleKeepsIInv ==
  ASSUME IInv, NEW r \in Requests, Handle(r)
  PROVE  IInv'
<1> USE BoundsAssumption DEF IInv, TypeOK, Step, Mails, keyRows, input, ghosts, Go, Fault, TellIf
<1>1. CASE Purge(r)
  <2>1. TypeOK'
    BY <1>1 DEF Purge
  <2>2. OldRowsWait'
    BY <1>1 DEF Purge, OldRowsWait
  <2>3. HolderOwnsRow'
    <3>1. \A s \in Requests : step'[s] \in Holders => step[s] \in Holders /\ s # r
      BY <1>1 DEF Purge, Holders
    <3>2. CASE old = {}
      BY <1>1, <3>1, <3>2 DEF Purge, HolderOwnsRow
    <3>3. CASE old # {}
      BY <3>1, <3>3 DEF OldRowsWait, HolderOwnsRow, Holders
    <3> QED
      BY <3>2, <3>3
  <2>4. RowIsTrue'
    BY <1>1 DEF Purge, HolderOwnsRow, RowIsTrue
  <2>5. ReplayIsCurrent'
    BY <1>1 DEF Purge, OldRowsWait, RowIsTrue, ReplayIsCurrent
  <2>6. OneMailPerKey'
    BY <1>1 DEF Purge, OneMailPerKey
  <2>7. SameAnswer'
    BY <1>1 DEF Purge, SameAnswer
  <2> QED
    BY <2>1, <2>2, <2>3, <2>4, <2>5, <2>6, <2>7
<1>2. CASE Reserve(r)
  <2>1. TypeOK'
    <3>1. CASE key[r] \in present
      BY <1>2, <3>1 DEF Reserve
    <3>2. CASE key[r] \notin present
      <4>0. /\ step' = [step EXCEPT ![r] = "send"]
            /\ present' = present \cup {key[r]} /\ old' = old
            /\ hash' = [hash EXCEPT ![key[r]] = body[r]]
            /\ sentId' = [sentId EXCEPT ![key[r]] = 0]
        BY <1>2, <3>2 DEF Reserve
      <4>1. present' \subseteq Keys /\ old' \subseteq present' /\ hash' \in [Keys -> Bodies]
        BY <4>0
      <4>2. sentId' \in [Keys -> 0..MaxMails]
        BY <4>0
      <4>3. step' \in [Requests -> Step]
        BY <4>0
      <4> QED
        BY <1>2, <3>2, <4>1, <4>2, <4>3 DEF Reserve
    <3> QED
      BY <3>1, <3>2
  <2>2. OldRowsWait'
    BY <1>2 DEF Reserve, OldRowsWait
  <2>3. HolderOwnsRow'
    <3>1. CASE key[r] \in present
      BY <1>2, <3>1 DEF Reserve, HolderOwnsRow, Holders
    <3>2. CASE key[r] \notin present
      BY <1>2, <3>2 DEF Reserve, HolderOwnsRow, RowIsTrue, Holders
    <3> QED
      BY <3>1, <3>2
  <2>4. RowIsTrue'
    BY <1>2 DEF Reserve, RowIsTrue
  <2>5. ReplayIsCurrent'
    BY <1>2 DEF Reserve, RowIsTrue, ReplayIsCurrent
  <2>6. OneMailPerKey'
    BY <1>2 DEF Reserve, OneMailPerKey
  <2>7. SameAnswer'
    BY <1>2 DEF Reserve, SameAnswer
  <2> QED
    BY <2>1, <2>2, <2>3, <2>4, <2>5, <2>6, <2>7
<1>3. CASE Look(r)
  <2>1. TypeOK'
    <3>1. key[r] \in Keys /\ sentId[key[r]] \in 0..MaxMails
      OBVIOUS
    <3>2. /\ mail' \in {mail, [mail EXCEPT ![r] = sentId[key[r]]]}
          /\ step' \in {[step EXCEPT ![r] = "replay"], [step EXCEPT ![r] = "idle"]}
      BY <1>3 DEF Look
    <3>3. mail' \in [Requests -> 0..MaxMails]
      BY <3>1, <3>2
    <3>4. step' \in [Requests -> Step]
      BY <3>2
    <3> QED
      BY <1>3, <3>3, <3>4 DEF Look
  <2>2. OldRowsWait'
    BY <1>3 DEF Look, OldRowsWait
  <2>3. HolderOwnsRow'
    BY <1>3, SMTT(30) DEF Look, HolderOwnsRow, Holders
  <2>4. RowIsTrue'
    BY <1>3 DEF Look, HolderOwnsRow, RowIsTrue, Holders
  <2>5. ReplayIsCurrent'
    BY <1>3 DEF Look, RowIsTrue, ReplayIsCurrent
  <2>6. OneMailPerKey'
    BY <1>3 DEF Look, OneMailPerKey
  <2>7. SameAnswer'
    BY <1>3 DEF Look, SameAnswer
  <2> QED
    BY <2>1, <2>2, <2>3, <2>4, <2>5, <2>6, <2>7
<1>4. CASE Replay(r)
  <2>1. TypeOK'
    BY <1>4 DEF Replay
  <2>2. OldRowsWait'
    BY <1>4 DEF Replay, OldRowsWait
  <2>3. HolderOwnsRow'
    BY <1>4 DEF Replay, OldRowsWait, HolderOwnsRow, ReplayIsCurrent, Holders
  <2>4. RowIsTrue'
    BY <1>4 DEF Replay, HolderOwnsRow, RowIsTrue, ReplayIsCurrent, Holders
  <2>5. ReplayIsCurrent'
    BY <1>4 DEF Replay, RowIsTrue, ReplayIsCurrent
  <2>6. OneMailPerKey'
    BY <1>4 DEF Replay, OneMailPerKey
  <2>7. SameAnswer'
    BY <1>4 DEF Replay, RowIsTrue, ReplayIsCurrent, SameAnswer
  <2> QED
    BY <2>1, <2>2, <2>3, <2>4, <2>5, <2>6, <2>7
<1>5. CASE SendFails(r)
  <2>1. TypeOK'
    BY <1>5 DEF SendFails
  <2>2. OldRowsWait'
    BY <1>5 DEF SendFails, OldRowsWait
  <2>3. HolderOwnsRow'
    BY <1>5 DEF SendFails, OldRowsWait, HolderOwnsRow, Holders
  <2>4. RowIsTrue'
    BY <1>5 DEF SendFails, HolderOwnsRow, RowIsTrue, Holders
  <2>5. ReplayIsCurrent'
    BY <1>5 DEF SendFails, RowIsTrue, ReplayIsCurrent
  <2>6. OneMailPerKey'
    BY <1>5 DEF SendFails, OneMailPerKey
  <2>7. SameAnswer'
    BY <1>5 DEF SendFails, SameAnswer
  <2> QED
    BY <2>1, <2>2, <2>3, <2>4, <2>5, <2>6, <2>7
<1>6. CASE Enqueue(r)
  <2>1. TypeOK'
    BY <1>6 DEF Enqueue
  <2>2. OldRowsWait'
    BY <1>6 DEF Enqueue, OldRowsWait
  <2>3. HolderOwnsRow'
    BY <1>6, SMTT(30) DEF Enqueue, OldRowsWait, HolderOwnsRow, Holders
  <2>4. RowIsTrue'
    BY <1>6 DEF Enqueue, HolderOwnsRow, RowIsTrue, Holders
  <2>5. ReplayIsCurrent'
    BY <1>6 DEF Enqueue, HolderOwnsRow, RowIsTrue, ReplayIsCurrent, Holders
  <2>6. OneMailPerKey'
    BY <1>6 DEF Enqueue, HolderOwnsRow, OneMailPerKey, Holders
  <2>7. SameAnswer'
    BY <1>6 DEF Enqueue, HolderOwnsRow, SameAnswer, Holders
  <2> QED
    BY <2>1, <2>2, <2>3, <2>4, <2>5, <2>6, <2>7
<1>7. CASE SendReturns(r)
  <2>1. TypeOK'
    BY <1>7 DEF SendReturns
  <2>2. OldRowsWait'
    BY <1>7 DEF SendReturns, OldRowsWait
  <2>3. HolderOwnsRow'
    BY <1>7 DEF SendReturns, OldRowsWait, HolderOwnsRow, Holders
  <2>4. RowIsTrue'
    BY <1>7 DEF SendReturns, HolderOwnsRow, RowIsTrue, Holders
  <2>5. ReplayIsCurrent'
    BY <1>7 DEF SendReturns, RowIsTrue, ReplayIsCurrent
  <2>6. OneMailPerKey'
    BY <1>7 DEF SendReturns, OneMailPerKey
  <2>7. SameAnswer'
    BY <1>7 DEF SendReturns, SameAnswer
  <2> QED
    BY <2>1, <2>2, <2>3, <2>4, <2>5, <2>6, <2>7
<1>8. CASE SendMisreports(r)
  <2>1. TypeOK'
    BY <1>8 DEF SendMisreports
  <2>2. OldRowsWait'
    BY <1>8 DEF SendMisreports, OldRowsWait
  <2>3. HolderOwnsRow'
    BY <1>8 DEF SendMisreports, OldRowsWait, HolderOwnsRow, OneMailPerKey, Holders
  <2>4. RowIsTrue'
    BY <1>8 DEF SendMisreports, HolderOwnsRow, RowIsTrue
  <2>5. ReplayIsCurrent'
    BY <1>8 DEF SendMisreports, RowIsTrue, ReplayIsCurrent
  <2>6. OneMailPerKey'
    BY <1>8 DEF SendMisreports, OneMailPerKey
  <2>7. SameAnswer'
    BY <1>8 DEF SendMisreports, SameAnswer
  <2> QED
    BY <2>1, <2>2, <2>3, <2>4, <2>5, <2>6, <2>7
<1>9. CASE Release(r)
  <2>1. TypeOK'
    BY <1>9 DEF Release, OldRowsWait
  <2>2. OldRowsWait'
    BY <1>9 DEF Release, OldRowsWait
  <2>3. HolderOwnsRow'
    BY <1>9 DEF Release, OldRowsWait, HolderOwnsRow, Holders
  <2>4. RowIsTrue'
    BY <1>9 DEF Release, HolderOwnsRow, RowIsTrue, Holders
  <2>5. ReplayIsCurrent'
    BY <1>9 DEF Release, HolderOwnsRow, RowIsTrue, ReplayIsCurrent, Holders
  <2>6. OneMailPerKey'
    BY <1>9 DEF Release, OneMailPerKey
  <2>7. SameAnswer'
    BY <1>9 DEF Release, SameAnswer
  <2> QED
    BY <2>1, <2>2, <2>3, <2>4, <2>5, <2>6, <2>7
<1>10. CASE Record(r)
  <2>1. TypeOK'
    BY <1>10 DEF Record, HolderOwnsRow, Holders
  <2>2. OldRowsWait'
    BY <1>10 DEF Record, OldRowsWait
  <2>3. HolderOwnsRow'
    BY <1>10 DEF Record, OldRowsWait, HolderOwnsRow, Holders
  <2>4. RowIsTrue'
    BY <1>10 DEF Record, HolderOwnsRow, RowIsTrue, Holders
  <2>5. ReplayIsCurrent'
    BY <1>10 DEF Record, HolderOwnsRow, RowIsTrue, ReplayIsCurrent, Holders
  <2>6. OneMailPerKey'
    BY <1>10 DEF Record, HolderOwnsRow, OneMailPerKey, Holders
  <2>7. SameAnswer'
    BY <1>10 DEF Record, HolderOwnsRow, SameAnswer, Holders
  <2> QED
    BY <2>1, <2>2, <2>3, <2>4, <2>5, <2>6, <2>7
<1>11. CASE WriteFails(r)
  <2>1. TypeOK'
    BY <1>11 DEF WriteFails, HolderOwnsRow, Holders
  <2>2. OldRowsWait'
    BY <1>11 DEF WriteFails, OldRowsWait
  <2>3. HolderOwnsRow'
    BY <1>11 DEF WriteFails, OldRowsWait, HolderOwnsRow, Holders
  <2>4. RowIsTrue'
    BY <1>11 DEF WriteFails, HolderOwnsRow, RowIsTrue, Holders
  <2>5. ReplayIsCurrent'
    BY <1>11 DEF WriteFails, HolderOwnsRow, RowIsTrue, ReplayIsCurrent, Holders
  <2>6. OneMailPerKey'
    BY <1>11 DEF WriteFails, OneMailPerKey
  <2>7. SameAnswer'
    BY <1>11 DEF WriteFails, HolderOwnsRow, SameAnswer, Holders
  <2> QED
    BY <2>1, <2>2, <2>3, <2>4, <2>5, <2>6, <2>7
<1>12. CASE BreakOff(r)
  <2>1. TypeOK'
    BY <1>12 DEF BreakOff
  <2>2. OldRowsWait'
    BY <1>12 DEF BreakOff, OldRowsWait
  <2>3. HolderOwnsRow'
    BY <1>12 DEF BreakOff, OldRowsWait, HolderOwnsRow, Holders
  <2>4. RowIsTrue'
    BY <1>12 DEF BreakOff, HolderOwnsRow, RowIsTrue, Holders
  <2>5. ReplayIsCurrent'
    BY <1>12 DEF BreakOff, RowIsTrue, ReplayIsCurrent
  <2>6. OneMailPerKey'
    BY <1>12 DEF BreakOff, OneMailPerKey
  <2>7. SameAnswer'
    BY <1>12 DEF BreakOff, SameAnswer
  <2> QED
    BY <2>1, <2>2, <2>3, <2>4, <2>5, <2>6, <2>7
<1> QED
  BY <1>1, <1>2, <1>3, <1>4, <1>5, <1>6, <1>7, <1>8, <1>9, <1>10, <1>11, <1>12 DEF Handle

\* Deleted queue rows and the clock take nothing from the invariant.
LEMMA StepKeepsIInv == IInv /\ [Next]_vars => IInv'
<1> USE DEF IInv, TypeOK, Step, Holders, Mails, OldRowsWait, HolderOwnsRow, RowIsTrue,
        ReplayIsCurrent, OneMailPerKey, SameAnswer, keyRows, input, ghosts, Go
<1>1. ASSUME IInv, NEW r \in Requests, NEW k \in Keys, NEW b \in Bodies, Receive(r, k, b)
      PROVE  IInv'
  <2>1. (TypeOK /\ OldRowsWait)'
    BY <1>1, SMTT(30) DEF Receive
  <2>2. HolderOwnsRow'
    BY <1>1, SMTT(30) DEF Receive
  <2>3. (RowIsTrue /\ ReplayIsCurrent)'
    BY <1>1, SMTT(30) DEF Receive
  <2>4. (OneMailPerKey /\ SameAnswer)'
    BY <1>1 DEF Receive
  <2> QED
    BY <2>1, <2>2, <2>3, <2>4
<1>2. ASSUME IInv, NEW m \in Mails, QueueRowDeleted(m) PROVE IInv'
  BY <1>2 DEF QueueRowDeleted
<1>3. ASSUME IInv, NEW k \in Keys, GrowsOld(k) PROVE IInv'
  BY <1>3 DEF GrowsOld
<1>4. IInv /\ UNCHANGED vars => IInv'
  BY DEF vars
<1> QED
  BY <1>1, <1>2, <1>3, <1>4, HandleKeepsIInv DEF Next

\* In every state the row of a key belongs to the one request that inserted it, or tells
\* the truth about the mail made with it (handleOpenAPISendMail and its helpers).
THEOREM InvariantHolds == Spec => []IInv
  BY InitIInv, StepKeepsIInv, PTL DEF Spec

\* The types of the variables.
THEOREM TypeCorrect == Spec => []TypeOK
  BY InvariantHolds, PTL DEF IInv

\* However requests with one key are interleaved, cut off and repeated, they make one mail.
THEOREM SentOnce == Spec => []OneMailPerKey
  BY InvariantHolds, PTL DEF IInv

\* All clients that use one key are told of one mail.
THEOREM OneAnswer == Spec => []SameAnswer
  BY InvariantHolds, PTL DEF IInv

\* A replay never answers with a mail made of another body.
THEOREM RepliesMatch == Spec => []RepliesMatchBody
<1>1. IInv => RepliesMatchBody
  BY DEF IInv, TypeOK, ReplayIsCurrent, RowIsTrue, RepliesMatchBody
<1> QED
  BY <1>1, InvariantHolds, PTL

\* A key without a recorded mail has a holder, or one that broke off.
LEMMA StepKeepsProcessing ==
  ASSUME IInv, ProcessingIsHeld, [Next]_vars
  PROVE  ProcessingIsHeld'
<1> USE DEF ProcessingIsHeld, Held, Holders, IInv, TypeOK, Step, keyRows, input, ghosts, Go, Fault, TellIf
<1>1. ASSUME NEW r \in Requests, Handle(r) PROVE ProcessingIsHeld'
  <2>1. CASE Purge(r)
    BY <2>1 DEF Purge
  <2>2. CASE Reserve(r)
    <3>1. CASE key[r] \in present
      BY <2>2, <3>1 DEF Reserve
    <3>2. CASE key[r] \notin present
      BY <2>2, <3>2 DEF Reserve
    <3> QED
      BY <3>1, <3>2
  <2>3. CASE Look(r) \/ Replay(r)
    BY <2>3 DEF Look, Replay
  <2>4. CASE SendFails(r) \/ Enqueue(r) \/ SendReturns(r) \/ SendMisreports(r)
    BY <2>4 DEF SendFails, Enqueue, SendReturns, SendMisreports
  <2>5. CASE Release(r)
    <3>1. step[r] \in Holders /\ sentId[key[r]] = 0
      BY <2>5 DEF Release, HolderOwnsRow
    <3>2. present' = present \ {key[r]}
      BY <2>5, <3>1 DEF Release
    <3> QED
      BY <2>5, <3>2 DEF Release
  <2>6. CASE Record(r)
    <3>1. key[r] \in present /\ mail[r] # 0
      BY <2>6 DEF Record, HolderOwnsRow
    <3>2. sentId' = [sentId EXCEPT ![key[r]] = mail[r]]
      BY <2>6, <3>1 DEF Record
    <3> QED
      BY <2>6, <3>1, <3>2 DEF Record
  <2>7. CASE WriteFails(r) \/ BreakOff(r)
    BY <2>7 DEF WriteFails, BreakOff
  <2> QED
    BY <1>1, <2>1, <2>2, <2>3, <2>4, <2>5, <2>6, <2>7 DEF Handle
<1>2. ASSUME NEW r \in Requests, NEW k \in Keys, NEW b \in Bodies, Receive(r, k, b)
      PROVE  ProcessingIsHeld'
  BY <1>2 DEF Receive
<1>3. CASE (\E m \in Mails : QueueRowDeleted(m)) \/ (\E k \in Keys : GrowsOld(k)) \/ UNCHANGED vars
  BY <1>3 DEF QueueRowDeleted, GrowsOld, vars
<1> QED
  BY <1>1, <1>2, <1>3 DEF Next

\* "Still processing" is answered only while somebody works on the key or has broken off.
THEOREM ProcessingHasHolder == Spec => []ProcessingIsHeld
<1>1. Init => ProcessingIsHeld
  BY DEF Init, ProcessingIsHeld
<1> QED
  BY <1>1, InvariantHolds, StepKeepsProcessing, PTL DEF Spec

\* Whoever repeats a request is answered the same.
THEOREM AnswersStayTheSame == Spec => []AnswersAgree
<1>1. SameAnswer /\ RepliesMatchBody /\ ProcessingIsHeld => AnswersAgree
  BY DEF AnswersAgree
<1> QED
  BY <1>1, OneAnswer, RepliesMatch, ProcessingHasHolder, PTL
=============================================================================
