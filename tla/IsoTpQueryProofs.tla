-------------------------- MODULE IsoTpQueryProofs --------------------------
(* Theorems about IsoTpQuery, for any set of ECUs, list of requests and      *)
(* timeouts.                                                                 *)
EXTENDS IsoTpQuery, TLAPS, SequenceTheorems, WellFoundedInduction

-----------------------------------------------------------------------------
(* What recv returns.                                                       *)

Messages == [kind : Kinds \union {"answer"}, req : Nat, ecu : Ecus]

\* What is in an inbox was sent by the ECU it belongs to.
InboxInv ==
    /\ inbox \in [Ecus -> Seq(Messages)]
    /\ \A e \in Ecus : \A i \in DOMAIN inbox[e] : inbox[e][i].ecu = e
    /\ owed \in [Ecus -> SUBSET Nat]

\* The message ends at the first of the frames that end one.
LEMMA FirstEndIsEnd ==
    ASSUME NEW e \in Ecus, MessageEnds(e) # {}, inbox[e] \in Seq(Messages)
    PROVE  FirstEnd(e) \in MessageEnds(e)
<1> DEFINE S == MessageEnds(e)
<1>1. S \subseteq Nat
  BY LenProperties DEF MessageEnds
<1>2. PICK x \in S : \A y \in S : <<y, x>> \notin OpToRel(<, Nat)
  <2> HIDE DEF S
  <2> QED BY <1>1, NatLessThanWellFounded, WFMin, Zenon DEF S
<1>3. ASSUME NEW y \in S, y < x PROVE FALSE
  <2>1. y \in Nat /\ x \in Nat BY <1>1, <1>2
  <2>2. <<y, x>> \in OpToRel(<, Nat) BY <1>3, <2>1, Zenon DEF OpToRel
  <2> QED BY <1>2, <2>2
<1>4. \A y \in S : x <= y
  <2>1. x \in Nat /\ \A y \in S : y \in Nat BY <1>1, <1>2
  <2> HIDE DEF S
  <2> QED BY <1>3, <2>1
<1> HIDE DEF S
<1> QED BY <1>2, <1>4 DEF FirstEnd, S

LEMMA DataFromInbox ==
    ASSUME InboxInv, NEW e \in Ecus
    PROVE  \/ Data(e) = NoData
           \/ Data(e) \in Messages /\ Data(e).ecu = e
<1>1. CASE MessageEnds(e) = {}
  BY <1>1 DEF Data
<1>2. CASE MessageEnds(e) # {}
  <2>1. inbox[e] \in Seq(Messages) BY DEF InboxInv
  <2>2. FirstEnd(e) \in 1..Len(inbox[e])
    BY <1>2, <2>1, FirstEndIsEnd DEF MessageEnds
  <2>3. inbox[e][FirstEnd(e)] \in Messages
    BY <2>1, <2>2, ElementOfSeq
  <2>4. inbox[e][FirstEnd(e)].ecu = e
    BY <2>1, <2>2, LenProperties DEF InboxInv
  <2> QED BY <1>2, <2>3, <2>4 DEF Data
<1> QED BY <1>1, <1>2

LEMMA RestFromInbox ==
    ASSUME InboxInv, NEW e \in Ecus
    PROVE  /\ Rest(e) \in Seq(Messages)
           /\ \A i \in DOMAIN Rest(e) : Rest(e)[i].ecu = e
<1>1. inbox[e] \in Seq(Messages) BY DEF InboxInv
<1>2. CASE MessageEnds(e) = {}
  BY <1>2 DEF Rest
<1>3. CASE MessageEnds(e) # {}
  <2>1. PICK k \in 1..Len(inbox[e]) : k = FirstEnd(e)
    BY <1>1, <1>3, FirstEndIsEnd DEF MessageEnds
  <2>2. PICK l \in Nat : l = Len(inbox[e])
    BY <1>1, LenProperties
  <2>3. Rest(e) = SubSeq(inbox[e], k + 1, l)
    BY <1>3, <2>1, <2>2 DEF Rest
  <2>4. \A i \in (k + 1)..l : i \in 1..l
    BY <2>1, <2>2
  <2>5. \A i \in (k + 1)..l : inbox[e][i] \in Messages /\ inbox[e][i].ecu = e
    BY <1>1, <2>2, <2>4, ElementOfSeq, LenProperties DEF InboxInv
  <2>6. k + 1 \in Int /\ l \in Int
    BY <2>1, <2>2
  <2>7. Rest(e) \in Seq(Messages)
    BY <2>3, <2>5, <2>6, SubSeqProperties
  <2>8. ASSUME NEW i \in DOMAIN Rest(e) PROVE Rest(e)[i].ecu = e
    <3>1. i \in 1..Len(Rest(e)) /\ Len(Rest(e)) = (IF k + 1 <= l THEN l - (k + 1) + 1 ELSE 0)
      BY <2>3, <2>5, <2>6, <2>7, LenProperties, SubSeqProperties
    <3>2. k + i \in (k + 1)..l /\ i \in 1..(l - (k + 1) + 1)
      BY <2>1, <2>2, <3>1
    <3>3. Rest(e)[i] = inbox[e][k + 1 + i - 1]
      BY <2>3, <2>5, <2>6, <3>2, SubSeqProperties
    <3>4. k + 1 + i - 1 = k + i BY <2>1, <3>2
    <3> QED BY <2>5, <3>2, <3>3, <3>4
  <2> QED BY <2>7, <2>8
<1> QED BY <1>2, <1>3

LEMMA InboxInit == Init => InboxInv
<1> SUFFICES ASSUME Init PROVE InboxInv
  OBVIOUS
<1>1. inbox = [e \in Ecus |-> <<>>] BY DEF Init, Initially
<1>2. owed \in [Ecus -> SUBSET Nat]
  <2>1. 0 \in Nat /\ Requests - 1 \in Nat BY QueryAssumption
  <2> QED BY <2>1 DEF Init
<1> QED BY <1>1, <1>2 DEF InboxInv

-----------------------------------------------------------------------------
(* The type invariant.                                                      *)

TypeInv ==
    /\ TypeOK
    /\ pending \in [Ecus -> BOOLEAN] /\ heard \in [Ecus -> Nat] /\ deadline \in [Ecus -> Nat]
    /\ results \in [Ecus -> Messages \union {NoData}]
    /\ \A e \in Ecus \ Asked : done[e]

LEMMA TypeInit == Init => TypeInv
<1> SUFFICES ASSUME Init PROVE TypeInv
  OBVIOUS
<1> USE QueryAssumption DEF Init, Initially
<1>1. counter \in [Ecus -> 0 .. Requests - 1] /\ heard \in [Ecus -> Nat]
  <2>1. 0 \in 0 .. Requests - 1 OBVIOUS
  <2> QED BY <2>1
<1>2. attempt \in 1 .. Retry /\ now \in 0 .. TotalTimeout + 1 /\ frames \in 0 .. MaxFrames
  OBVIOUS
<1>3. done \in [Ecus -> BOOLEAN] /\ \A e \in Ecus \ Asked : done[e]
  OBVIOUS
<1>4. pending \in [Ecus -> BOOLEAN] /\ deadline \in [Ecus -> Nat]
  OBVIOUS
<1>5. results \in [Ecus -> Messages \union {NoData}]
  OBVIOUS
<1> QED BY <1>1, <1>2, <1>3, <1>4, <1>5 DEF TypeInv, TypeOK

\* What the loop leaves of the types, whichever step it is part of.
LEMMA LoopTyped ==
    ASSUME InboxInv, TypeInv, Loop
    PROVE  /\ counter' \in [Ecus -> 0 .. Requests - 1] /\ done' \in [Ecus -> BOOLEAN]
           /\ pending' \in [Ecus -> BOOLEAN] /\ heard' \in [Ecus -> Nat]
           /\ deadline' \in [Ecus -> Nat]
           /\ results' \in [Ecus -> Messages \union {NoData}]
           /\ \A e \in Ecus \ Asked : done'[e]
<1> USE QueryAssumption
<1>1. now \in Nat /\ Wait \in Nat /\ PendingTimeout \in Nat
  BY DEF TypeInv, TypeOK, Wait
<1>2. counter' \in [Ecus -> 0 .. Requests - 1]
  <2>1. ASSUME NEW e \in Ecus, Advances(e) PROVE counter[e] + 1 \in 0 .. Requests - 1
    <3>1. Last \in 0 .. Requests - 1 BY DEF Last
    <3>2. counter[e] \in 0 .. Requests - 1 BY DEF TypeInv, TypeOK
    <3> QED BY <2>1, <3>1, <3>2 DEF Advances
  <2>2. \A e \in Ecus : counter[e] \in 0 .. Requests - 1 BY DEF TypeInv, TypeOK
  <2>3. counter' = [e \in Ecus |-> IF e \in Asked /\ Advances(e) THEN counter[e] + 1 ELSE counter[e]]
    BY DEF Loop
  <2> QED BY <2>1, <2>2, <2>3
<1>3. deadline' \in [Ecus -> Nat]
  <2>1. \A e \in Ecus : deadline[e] \in Nat BY DEF TypeInv
  <2>2. \A e \in Ecus : NextDeadline(e) \in Nat BY <1>1, <2>1 DEF NextDeadline
  <2>3. deadline' = [e \in Ecus |-> IF e \in Asked THEN NextDeadline(e) ELSE deadline[e]]
    BY DEF Loop
  <2> QED BY <2>1, <2>2, <2>3
<1>4. done' \in [Ecus -> BOOLEAN] /\ \A e \in Ecus \ Asked : done'[e]
  <2>1. PICK B \in [Ecus -> BOOLEAN] :
          \A e \in Ecus : B[e] <=> (Answers(e) \/ Fails(e) \/ now > deadline'[e])
    <3> WITNESS [e \in Ecus |-> Answers(e) \/ Fails(e) \/ now > deadline'[e]] \in [Ecus -> BOOLEAN]
    <3> QED OBVIOUS
  <2>2. done \in [Ecus -> BOOLEAN] /\ \A e \in Ecus \ Asked : done[e]
    BY DEF TypeInv, TypeOK
  <2>3. done' = [e \in Ecus |-> done[e] \/ Answers(e) \/ Fails(e) \/ now > deadline'[e]]
    BY DEF Loop
  <2> QED BY <2>2, <2>3
<1>5. pending' \in [Ecus -> BOOLEAN] /\ heard' \in [Ecus -> Nat]
  <2>1. \A e \in Ecus : IsPending(e) \in BOOLEAN BY DEF IsPending, Valid
  <2> QED BY <1>1, <2>1 DEF Loop, TypeInv
<1>6. results' \in [Ecus -> Messages \union {NoData}]
  <2>1. \A e \in Ecus : Data(e) \in Messages \union {NoData} BY DataFromInbox
  <2> QED BY <2>1 DEF Loop, TypeInv
<1> QED BY <1>2, <1>3, <1>4, <1>5, <1>6

LEMMA TypeStep == InboxInv /\ TypeInv /\ [Next]_vars => TypeInv'
<1> SUFFICES ASSUME InboxInv, TypeInv, [Next]_vars PROVE TypeInv'
  OBVIOUS
<1> USE QueryAssumption
<1>1. ASSUME NEW e \in Ecus, EcuSends(e) PROVE TypeInv'
  <2>1. frames' \in 0 .. MaxFrames BY <1>1 DEF EcuSends, TypeInv, TypeOK
  <2>2. Asked' = Asked BY <1>1 DEF EcuSends, jobVars, Asked
  <2> QED BY <1>1, <2>1, <2>2 DEF EcuSends, jobVars, TypeInv, TypeOK
<1>2. CASE Tick
  <2>1. now' \in 0 .. TotalTimeout + 1 BY <1>2 DEF Tick, TypeInv, TypeOK
  <2>2. Asked' = Asked BY <1>2 DEF Tick, jobVars, Asked
  <2> QED BY <1>2, <2>1, <2>2 DEF Tick, jobVars, TypeInv, TypeOK
<1>3. CASE Iterate \/ QueryEnds
  <2>1. Loop /\ job' = job /\ Asked' = Asked
    BY <1>3 DEF Iterate, QueryEnds, jobVars, Asked
  <2>2. phase' \in {"query", "diag", "control", "end"} /\ attempt' = attempt
        /\ disabled' = disabled /\ now' = now /\ frames' = frames
    BY <1>3 DEF Iterate, QueryEnds, jobVars, TypeInv, TypeOK
  <2> QED BY <2>1, <2>2, LoopTyped DEF TypeInv, TypeOK
<1>4. ASSUME NEW p \in {"diag", "control"}, StartQuery(p), job' = job,
             attempt' \in 1 .. Retry, disabled' = disabled
      PROVE TypeInv'
  <2>1. Asked' = Asked BY <1>4 DEF Asked
  <2>2. counter' \in [Ecus -> 0 .. Requests - 1] /\ heard' \in [Ecus -> Nat]
    <3>1. 0 \in 0 .. Requests - 1 OBVIOUS
    <3> QED BY <1>4, <3>1 DEF StartQuery, Initially
  <2>3. now' \in 0 .. TotalTimeout + 1 /\ frames' \in 0 .. MaxFrames
    BY <1>4 DEF StartQuery
  <2>4. done' \in [Ecus -> BOOLEAN] /\ \A e \in Ecus \ Asked : done'[e]
    BY <1>4 DEF StartQuery
  <2>5. pending' \in [Ecus -> BOOLEAN] /\ deadline' \in [Ecus -> Nat]
        /\ results' \in [Ecus -> Messages \union {NoData}]
    BY <1>4 DEF StartQuery, Initially
  <2>6. phase' = p BY <1>4 DEF StartQuery
  <2> QED BY <1>4, <2>1, <2>2, <2>3, <2>4, <2>5, <2>6 DEF TypeInv, TypeOK
<1>5. CASE DiagAnswered
  BY <1>4, <1>5 DEF DiagAnswered, TypeInv, TypeOK
<1>6. CASE DiagRetry
  <2>1. attempt + 1 \in 1 .. Retry BY <1>6 DEF DiagRetry, TypeInv, TypeOK
  <2> QED BY <1>4, <1>6, <2>1 DEF DiagRetry
<1>7. CASE DiagFailed
  <2>1. Asked' = Asked BY <1>7 DEF DiagFailed, Asked
  <2> QED BY <1>7, <2>1 DEF DiagFailed, TypeInv, TypeOK
<1>8. CASE ControlSent
  <2>1. Asked' = Asked BY <1>8 DEF ControlSent, Asked
  <2> QED BY <1>8, <2>1 DEF ControlSent, TypeInv, TypeOK
<1>9. CASE UNCHANGED vars
  <2>1. Asked' = Asked BY <1>9 DEF vars, jobVars, Asked
  <2> QED BY <1>9, <2>1 DEF vars, jobVars, TypeInv, TypeOK
<1> QED BY <1>1, <1>2, <1>3, <1>5, <1>6, <1>7, <1>8, <1>9 DEF Next, Step

-----------------------------------------------------------------------------
(* What is in the inboxes.                                                  *)

\* An ECU is not confused with another that answers on the same address.
LEMMA OnlyItsOwn == ASSUME NEW e \in Ecus, NEW f \in Ecus, CanRx(e, f) PROVE e = f
BY QueryAssumption DEF CanRx

LEMMA InboxStep == InboxInv /\ TypeInv /\ [Next]_vars => InboxInv'
<1> SUFFICES ASSUME InboxInv, TypeInv, [Next]_vars PROVE InboxInv'
  OBVIOUS
<1> DEFINE Sent(e, s) == s \in Seq(Messages) /\ \A i \in DOMAIN s : s[i].ecu = e
<1>a. ASSUME inbox' \in [Ecus -> Seq(Messages)], \A e \in Ecus : Sent(e, inbox'[e]),
             owed' \in [Ecus -> SUBSET Nat]
      PROVE InboxInv'
  BY <1>a DEF InboxInv
<1>b. \A e \in Ecus : Sent(e, <<>>)
  OBVIOUS
<1>1. ASSUME NEW e \in Ecus, EcuSends(e) PROVE InboxInv'
  <2>1. ASSUME NEW m \in Messages, m.ecu = e, Deliver(m), owed' \in [Ecus -> SUBSET Nat]
        PROVE InboxInv'
    <3>1. ASSUME NEW f \in Ecus PROVE Sent(f, inbox'[f])
      <4>1. CASE f \in Asked /\ CanRx(f, e)
        <5>1. f = e BY <4>1, OnlyItsOwn
        <5>2. inbox'[f] = Append(inbox[f], m) BY <2>1, <4>1 DEF Deliver
        <5>3. inbox[f] \in Seq(Messages) /\ \A i \in DOMAIN inbox[f] : inbox[f][i].ecu = f
          BY DEF InboxInv
        <5>4. /\ Append(inbox[f], m) \in Seq(Messages)
              /\ \A i \in 1..Len(inbox[f]) : Append(inbox[f], m)[i] = inbox[f][i]
              /\ Append(inbox[f], m)[Len(inbox[f]) + 1] = m
              /\ Len(Append(inbox[f], m)) = Len(inbox[f]) + 1
          BY <5>3, AppendProperties
        <5>5. ASSUME NEW i \in DOMAIN Append(inbox[f], m) PROVE Append(inbox[f], m)[i].ecu = f
          <6>1. i \in 1..(Len(inbox[f]) + 1) /\ Len(inbox[f]) \in Nat
            BY <5>3, <5>4, LenProperties
          <6>2. CASE i \in 1..Len(inbox[f])
            BY <5>3, <5>4, <6>2, LenProperties
          <6>3. CASE i = Len(inbox[f]) + 1
            BY <2>1, <5>1, <5>4, <6>3
          <6> QED BY <6>1, <6>2, <6>3
        <5> QED BY <5>2, <5>4, <5>5
      <4>2. CASE ~(f \in Asked /\ CanRx(f, e))
        BY <2>1, <4>2 DEF Deliver, InboxInv
      <4> QED BY <4>1, <4>2
    <3>2. inbox' \in [Ecus -> Seq(Messages)]
      <4>1. DOMAIN inbox' = Ecus /\ inbox' = [f \in Ecus |-> inbox'[f]] BY <2>1 DEF Deliver
      <4> QED BY <3>1, <4>1
    <3> QED BY <2>1, <3>1, <3>2, <1>a
  <2>2. ASSUME NEW r \in owed[e], Deliver([kind |-> "answer", req |-> r, ecu |-> e]),
               owed' = [owed EXCEPT ![e] = @ \ {r}]
        PROVE InboxInv'
    <3>1. owed' \in [Ecus -> SUBSET Nat] /\ r \in Nat BY <2>2 DEF InboxInv
    <3>2. [kind |-> "answer", req |-> r, ecu |-> e] \in Messages
      BY <3>1 DEF Messages
    <3> QED BY <2>1, <2>2, <3>1, <3>2
  <2>3. ASSUME NEW k \in Kinds, Deliver([kind |-> k, req |-> 0, ecu |-> e]),
               owed' = IF k \in {"frame", "pending"} THEN owed ELSE [owed EXCEPT ![e] = {}]
        PROVE InboxInv'
    <3>1. owed' \in [Ecus -> SUBSET Nat] BY <2>3 DEF InboxInv
    <3>2. [kind |-> k, req |-> 0, ecu |-> e] \in Messages BY DEF Messages
    <3> QED BY <2>1, <2>3, <3>1, <3>2
  <2> QED BY <1>1, <2>2, <2>3 DEF EcuSends
<1>2. ASSUME Loop, owed' \in [Ecus -> SUBSET Nat] PROVE InboxInv'
  <2>1. inbox' = [e \in Ecus |-> IF e \in Asked THEN Rest(e) ELSE <<>>]
    BY <1>2 DEF Loop
  <2>2. \A e \in Ecus : Sent(e, Rest(e))
    BY RestFromInbox
  <2>3. ASSUME NEW e \in Ecus PROVE Sent(e, inbox'[e])
    <3>1. inbox'[e] = Rest(e) \/ inbox'[e] = <<>> BY <2>1
    <3> HIDE DEF Sent
    <3> QED BY <1>b, <2>2, <3>1
  <2>4. inbox' \in [Ecus -> Seq(Messages)]
    BY <2>1, <2>3
  <2> QED BY <1>2, <1>a, <2>3, <2>4
<1>3. CASE Iterate
  <2>1. ASSUME NEW e \in Ecus PROVE counter'[e] \in Nat
    <3>1. counter' \in [Ecus -> 0 .. Requests - 1] BY <1>3, LoopTyped DEF Iterate
    <3> QED BY <3>1, QueryAssumption
  <2>2. owed' \in [Ecus -> SUBSET Nat]
    BY <1>3, <2>1 DEF Iterate, InboxInv
  <2> QED BY <1>2, <1>3, <2>2 DEF Iterate
<1>4. CASE QueryEnds
  BY <1>2, <1>4 DEF QueryEnds, InboxInv
<1>5. ASSUME NEW p \in {"diag", "control"}, StartQuery(p) PROVE InboxInv'
  <2>1. inbox' = [e \in Ecus |-> <<>>] BY <1>5 DEF StartQuery, Initially
  <2>2. owed' \in [Ecus -> SUBSET Nat] BY <1>5 DEF StartQuery, InboxInv
  <2> QED BY <2>1, <2>2 DEF InboxInv
<1>6. CASE DiagFailed \/ ControlSent \/ Tick \/ UNCHANGED vars
  <2>1. inbox' = inbox /\ owed' = owed
    BY <1>6 DEF DiagFailed, ControlSent, Tick, vars
  <2> QED BY <2>1 DEF InboxInv
<1> QED
  BY <1>1, <1>3, <1>4, <1>5, <1>6 DEF Next, Step, DiagAnswered, DiagRetry

THEOREM QueryInv == Spec => [](InboxInv /\ TypeInv)
<1>1. InboxInv /\ TypeInv /\ [Next]_vars => (InboxInv /\ TypeInv)'
  BY InboxStep, TypeStep
<1> QED BY <1>1, InboxInit, TypeInit, PTL DEF Spec

\* Every variable keeps its type and every bound is kept (isotp_parallel_query.py:91-173).
THEOREM QueryTyped == Spec => []TypeOK
<1>1. TypeInv => TypeOK BY DEF TypeInv
<1> QED BY <1>1, QueryInv, PTL

-----------------------------------------------------------------------------
(* Answers.                                                                 *)

AnswerInv ==
    job = "firmware" =>
        /\ phase \in {"query", "end"}
        /\ AnswersRouted

LEMMA AnswerInit == Init => AnswerInv
BY DEF Init, AnswerInv, AnswersRouted, Initially

LEMMA AnswerStep == InboxInv /\ TypeInv /\ AnswerInv /\ [Next]_vars => AnswerInv'
<1> SUFFICES ASSUME InboxInv, TypeInv, AnswerInv, [Next]_vars, job' = "firmware" PROVE AnswerInv'
  BY DEF AnswerInv
<1>1. job = "firmware"
  <2>1. job' = job
    BY DEF Next, EcuSends, Tick, Step, Iterate, QueryEnds, DiagAnswered, DiagRetry,
       DiagFailed, ControlSent, vars, jobVars
  <2> QED BY <2>1
<1>2. Last' = Last /\ Last \in Nat BY <1>1, QueryAssumption DEF Last
<1>3. phase \in {"query", "end"} /\ AnswersRouted BY <1>1 DEF AnswerInv
<1>4. CASE Iterate \/ QueryEnds
  <2>1. Loop /\ phase = "query" /\ phase' \in {"query", "end"}
    BY <1>3, <1>4 DEF Iterate, QueryEnds, Running, jobVars
  <2>2. ASSUME NEW e \in Ecus, results'[e] # NoData
        PROVE results'[e].ecu = e /\ results'[e].req = Last /\ counter'[e] = Last
    <3>0. counter[e] \in Nat BY QueryAssumption DEF TypeInv, TypeOK
    <3>1. counter'[e] = IF e \in Asked /\ Advances(e) THEN counter[e] + 1 ELSE counter[e]
      BY <2>1 DEF Loop
    <3>2. CASE e \in Asked /\ Answers(e)
      <4>1. results'[e] = Data(e) BY <2>1, <3>2 DEF Loop
      <4>2. Data(e).kind = "answer" /\ Data(e).req = counter[e] /\ counter[e] = Last
        BY <2>1, <3>2 DEF Answers, Valid
      <4>3. Data(e).ecu = e
        <5>1. Data(e) # NoData BY <2>2, <4>1
        <5> QED BY <5>1, DataFromInbox
      <4>4. counter'[e] = counter[e] BY <1>2, <3>0, <3>1, <4>2 DEF Advances
      <4> QED BY <4>1, <4>2, <4>3, <4>4
    <3>3. CASE ~(e \in Asked /\ Answers(e))
      <4>1. results'[e] = results[e] BY <2>1, <3>3 DEF Loop
      <4>2. results[e].ecu = e /\ results[e].req = Last /\ counter[e] = Last
        BY <1>1, <1>3, <2>2, <4>1 DEF AnswersRouted
      <4>3. counter'[e] = counter[e] BY <1>2, <3>0, <3>1, <4>2 DEF Advances
      <4> QED BY <4>1, <4>2, <4>3
    <3> QED BY <3>2, <3>3
  <2> QED BY <1>2, <2>1, <2>2 DEF AnswerInv, AnswersRouted
<1>5. CASE ~(Iterate \/ QueryEnds)
  <2>1. UNCHANGED <<job, phase, results, counter>>
    BY <1>1, <1>5 DEF Next, EcuSends, Tick, Step, DiagAnswered, DiagRetry,
       DiagFailed, ControlSent, vars, jobVars
  <2> QED BY <1>2, <1>3, <2>1 DEF AnswerInv, AnswersRouted
<1> QED BY <1>4, <1>5

\* What a firmware query returns for an ECU is that ECU's answer to the last
\* request (isotp_parallel_query.py:46-63, 130-141), however many ECUs share an
\* address and whatever was still on its way when the query began.
THEOREM ResultsOfTheEcu == Spec => []AnswersRouted
<1>1. AnswerInv => AnswersRouted BY DEF AnswerInv, AnswersRouted
<1> QED BY <1>1, AnswerInit, AnswerStep, QueryInv, PTL DEF Spec

-----------------------------------------------------------------------------
(* Timeouts.                                                                *)

\* The deadline of an ECU that is asked is what its history allows it.
DeadlineInv ==
    Running => \A e \in Ecus : e \in Asked =>
        deadline[e] = heard[e] + (IF pending[e] THEN PendingTimeout ELSE Wait)

LEMMA DeadlineInit == Init => DeadlineInv
<1> SUFFICES ASSUME Init PROVE DeadlineInv
  OBVIOUS
<1>1. Wait = Timeout BY DEF Init, Wait
<1> QED BY <1>1, QueryAssumption DEF Init, DeadlineInv, Initially

LEMMA DeadlineStep == TypeInv /\ DeadlineInv /\ [Next]_vars => DeadlineInv'
<1> SUFFICES ASSUME TypeInv, DeadlineInv, [Next]_vars, Running' PROVE DeadlineInv'
  BY DEF DeadlineInv
<1> USE QueryAssumption
<1>1. CASE Iterate
  <2>1. Loop /\ Running /\ Asked' = Asked /\ Wait' = Wait
    BY <1>1 DEF Iterate, jobVars, Asked, Wait
  <2>2. ASSUME NEW e \in Ecus, e \in Asked
        PROVE deadline'[e] = heard'[e] + (IF pending'[e] THEN PendingTimeout ELSE Wait)
    <3>1. deadline'[e] = NextDeadline(e) BY <2>1, <2>2 DEF Loop
    <3>2. CASE inbox[e] # <<>> /\ Data(e).kind # "broken"
      <4>1. heard'[e] = now /\ pending'[e] = IsPending(e) BY <2>1, <3>2 DEF Loop
      <4> QED BY <3>1, <3>2, <4>1 DEF NextDeadline
    <3>3. CASE ~(inbox[e] # <<>> /\ Data(e).kind # "broken")
      <4>1. heard'[e] = heard[e] /\ pending'[e] = pending[e] BY <2>1, <3>3 DEF Loop
      <4>2. deadline'[e] = deadline[e] BY <3>1, <3>3 DEF NextDeadline
      <4> QED BY <2>1, <2>2, <4>1, <4>2 DEF DeadlineInv
    <3> QED BY <3>2, <3>3
  <2> QED BY <2>1, <2>2 DEF DeadlineInv
<1>2. ASSUME NEW p \in {"diag", "control"}, StartQuery(p), job' = job PROVE DeadlineInv'
  <2>1. Wait' = IF p = "control" THEN 0 ELSE Timeout BY <1>2 DEF StartQuery, Wait
  <2>2. \A e \in Ecus : heard'[e] = 0 /\ pending'[e] = FALSE /\ deadline'[e] = Wait'
    BY <1>2, <2>1 DEF StartQuery, Initially
  <2>3. Wait' \in Nat BY <2>1
  <2> QED BY <2>2, <2>3 DEF DeadlineInv
<1>3. CASE DiagAnswered \/ DiagRetry
  BY <1>2, <1>3 DEF DiagAnswered, DiagRetry
<1>4. CASE QueryEnds \/ DiagFailed \/ ControlSent
  BY <1>4 DEF QueryEnds, DiagFailed, ControlSent, Running
<1>5. CASE Tick \/ UNCHANGED vars \/ \E e \in Ecus : EcuSends(e)
  <2>1. UNCHANGED <<job, phase, deadline, heard, pending>>
    BY <1>5 DEF Tick, EcuSends, vars, jobVars
  <2>2. Asked' = Asked /\ Wait' = Wait BY <2>1 DEF Asked, Wait
  <2> QED BY <2>1, <2>2 DEF DeadlineInv, Running
<1> QED BY <1>1, <1>3, <1>4, <1>5 DEF Next, Step

LEMMA SilentIsNotOver ==
    ASSUME TypeInv, NEW e \in Ecus, inbox[e] = <<>>
    PROVE  /\ ~Answers(e) /\ ~Fails(e)
           /\ NextDeadline(e) = deadline[e]
<1>1. Data(e) = NoData
  <2>1. Len(inbox[e]) = 0 BY EmptySeq
  <2>2. MessageEnds(e) = {} BY <2>1 DEF MessageEnds
  <2> QED BY <2>2 DEF Data
<1>2. Data(e).kind = "none" BY <1>1 DEF NoData
<1>3. ~Valid(e) BY <1>2 DEF Valid
<1> QED BY <1>2, <1>3 DEF Answers, Fails, NextDeadline

\* An ECU that has said nothing since the last iteration is given up only when
\* its own timeout, extended with every frame it sent, has passed
\* (isotp_parallel_query.py:116-119, 145), whatever the other ECUs answer.
THEOREM GivenUpInTime == Spec => PatientEnough
<1> DEFINE InTime(e) ==
             ~done[e] /\ done'[e] /\ inbox[e] = <<>> =>
                 now > heard[e] + (IF pending[e] THEN PendingTimeout ELSE Wait)
<1>1. ASSUME TypeInv, DeadlineInv, [Next]_vars, NEW e \in Ecus PROVE InTime(e)
  <2> SUFFICES ASSUME ~done[e], done'[e], inbox[e] = <<>>
               PROVE now > heard[e] + (IF pending[e] THEN PendingTimeout ELSE Wait)
    OBVIOUS
  <2>1. e \in Asked BY <1>1 DEF TypeInv
  <2>2. ~(DiagAnswered \/ DiagRetry)
    BY <2>1 DEF DiagAnswered, DiagRetry, StartQuery
  <2>3. Iterate \/ QueryEnds
    BY <2>2, <1>1 DEF Next, Step, EcuSends, Tick, DiagFailed, ControlSent, vars
  <2>4. Loop /\ Running BY <2>3 DEF Iterate, QueryEnds
  <2>5. deadline'[e] = deadline[e] BY <1>1, <2>1, <2>4, SilentIsNotOver DEF Loop
  <2>6. now > deadline[e] BY <1>1, <2>4, <2>5, SilentIsNotOver DEF Loop
  <2> QED BY <1>1, <2>1, <2>4, <2>6 DEF DeadlineInv
<1>2. TypeInv /\ DeadlineInv /\ [Next]_vars => [\A e \in Ecus : InTime(e)]_vars
  BY <1>1
<1> QED
  BY <1>2, DeadlineInit, DeadlineStep, QueryInv, PTL DEF Spec, PatientEnough
=============================================================================
