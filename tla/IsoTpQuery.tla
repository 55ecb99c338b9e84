----------------------------- MODULE IsoTpQuery -----------------------------
(***************************************************************************)
(* selfdrive/car/isotp_parallel_query.py: one query of several ECUs at     *)
(* once, each answering a list of requests in its own time, and the job    *)
(* that runs it: a firmware query, or disable_ecu (disable_ecu.py), which  *)
(* retries a diagnostic query and then sends communication control.        *)
(*                                                                         *)
(* Time is counted in ticks and starts anew with each query.  ECUs, the    *)
(* bus and the ISO-TP reassembly (panda's IsoTpMessage) are external.      *)
(***************************************************************************)
EXTENDS Integers, Sequences, FiniteSets

CONSTANTS
    Ecus,            \* the (tx_addr, sub_addr) pairs asked by a firmware query
    Rx, Sub,         \* of an ECU: the address it answers on, its sub address or NoSub
    NoSub,
    Requests,        \* number of requests of a firmware query
    Timeout, PendingTimeout, TotalTimeout,
    Retry,           \* disable_ecu's retry
    MaxFrames        \* bound: frames the ECUs put on the bus during a query

ASSUME QueryAssumption ==
    /\ {Timeout, PendingTimeout, TotalTimeout, MaxFrames} \subseteq Nat
    /\ {Requests, Retry} \subseteq Nat \ {0}
    /\ \A e, f \in Ecus : e # f /\ Rx[e] = Rx[f] => Sub[e] # Sub[f] /\ NoSub \notin {Sub[e], Sub[f]}

VARIABLES
    job,        \* "firmware" or "disable"
    phase,      \* the query being run: "query", "diag", "control"; or "end"
    attempt,    \* disable_ecu's i
    disabled,   \* what disable_ecu returned
    now,        \* time since get_data began
    counter,    \* request_counter
    done,       \* request_done
    results,    \* results, NoData where there is none
    deadline,   \* response_timeouts
    inbox,      \* frames on the way to an ECU's IsoTpMessage, not yet looked at
    owed,       \* requests an ECU has received and not answered
    frames,     \* number of frames sent in this query
    heard,      \* history: when an ECU was last heard or asked
    pending     \* history: it last said that its response is pending

jobVars == <<job, phase, attempt, disabled>>
vars == <<jobVars, now, counter, done, results, deadline, inbox, owed, frames,
          heard, pending>>

NoData == [kind |-> "none"]
Running == phase # "end"

\* Length of the request list, and the timeout, of the query being run.
Last     == IF job = "firmware" THEN Requests - 1 ELSE 0
Wait     == IF phase = "control" THEN 0 ELSE Timeout
Asked    == IF job = "firmware" THEN Ecus ELSE {CHOOSE e \in Ecus : TRUE}

Initially(f) == [e \in Ecus |-> f]

Init ==
    /\ job \in {"firmware", "disable"}
    /\ phase = IF job = "firmware" THEN "query" ELSE "diag"
    /\ attempt = 1 /\ disabled = FALSE
    /\ now = 0
    /\ counter = Initially(0) /\ done = [e \in Ecus |-> e \notin Asked]
    /\ results = Initially(NoData) /\ deadline = Initially(Timeout)
    /\ inbox = Initially(<<>>)
    \* an answer to a query that gave up before may still be on its way
    /\ \E late \in {{}, {Requests - 1}} :
         owed = [e \in Ecus |-> IF e \in Asked THEN {0} \cup late ELSE {}]
    /\ frames = 0 /\ heard = Initially(0) /\ pending = Initially(FALSE)

-----------------------------------------------------------------------------
(* External: ECUs and time.                                                *)

Kinds == {"frame", "pending", "negative", "broken"}   \* negative: also an empty one

\* Mutant of CanRx: the sub address is not looked at.
CanRxAny(e, f) == Rx[f] = Rx[e]

\* rx and _can_rx: what f sends reaches the messages of e, by address and sub
\* address.  The loop drains the socket before it looks at any of them, so a
\* frame is in its inbox from the moment it is sent.
CanRx(e, f) == Rx[f] = Rx[e] /\ Sub[e] \in {NoSub, Sub[f]}

Deliver(m) == inbox' = [e \in Ecus |-> IF e \in Asked /\ CanRx(e, m.ecu)
                                       THEN Append(inbox[e], m) ELSE inbox[e]]

\* An ECU that owes an answer sends the last frame of it, a frame before the
\* last one, "response pending", an error, or something unreadable.
EcuSends(e) ==
    /\ Running /\ owed[e] # {} /\ frames < MaxFrames
    /\ frames' = frames + 1
    /\ \/ \E r \in owed[e] :
            /\ Deliver([kind |-> "answer", req |-> r, ecu |-> e])
            /\ owed' = [owed EXCEPT ![e] = @ \ {r}]
       \/ \E k \in Kinds :
            /\ Deliver([kind |-> k, req |-> 0, ecu |-> e])
            /\ owed' = IF k \in {"frame", "pending"} THEN owed ELSE [owed EXCEPT ![e] = {}]
    /\ UNCHANGED <<jobVars, now, counter, done, results, deadline, heard, pending>>

Tick ==
    /\ Running /\ now <= TotalTimeout
    /\ now' = now + 1
    /\ UNCHANGED <<jobVars, counter, done, results, deadline, inbox, owed, frames,
                   heard, pending>>

-----------------------------------------------------------------------------
(* One iteration of get_data's loop.                                       *)

\* recv looks at frames up to the end of a message.
MessageEnds(e) == {i \in 1 .. Len(inbox[e]) : inbox[e][i].kind # "frame"}
FirstEnd(e)    == CHOOSE i \in MessageEnds(e) : \A j \in MessageEnds(e) : i <= j
Data(e)        == IF MessageEnds(e) = {} THEN NoData ELSE inbox[e][FirstEnd(e)]
Rest(e)        == IF MessageEnds(e) = {} THEN <<>>
                  ELSE SubSeq(inbox[e], FirstEnd(e) + 1, Len(inbox[e]))

\* dat.startswith(expected_response); COM_CONT_RESPONSE is empty
Valid(e) ==
    IF phase = "control" THEN Data(e).kind \in {"answer", "pending", "negative"}
    ELSE Data(e).kind = "answer" /\ Data(e).req = counter[e]

Advances(e) == Valid(e) /\ counter[e] < Last
Answers(e)  == Valid(e) /\ counter[e] = Last
IsPending(e) == ~Valid(e) /\ Data(e).kind = "pending"
Fails(e)    == ~Valid(e) /\ Data(e).kind \in {"answer", "negative", "broken"}

\* Mutant of NextDeadline: a frame of a longer answer does not extend it.
DeadlineFixed(e) ==
    IF Advances(e) THEN now + Wait
    ELSE IF IsPending(e) THEN now + PendingTimeout
    ELSE deadline[e]

\* Extend timeout for each consecutive ISO-TP frame to avoid timing out on
\* long responses
NextDeadline(e) ==
    IF Data(e).kind = "broken" \/ inbox[e] = <<>> THEN deadline[e]
    ELSE IF IsPending(e) THEN now + PendingTimeout
    ELSE now + Wait

\* Mutant of TotalOver: only the ECUs' own timeouts end the query.
NeverOver == FALSE

TotalOver == now > TotalTimeout

\* The loop body, for an ECU after the other and then the timeouts.
Loop ==
    /\ deadline' = [e \in Ecus |-> IF e \in Asked THEN NextDeadline(e) ELSE deadline[e]]
    /\ counter' = [e \in Ecus |-> IF e \in Asked /\ Advances(e) THEN counter[e] + 1 ELSE counter[e]]
    /\ results' = [e \in Ecus |-> IF e \in Asked /\ Answers(e) THEN Data(e) ELSE results[e]]
    /\ done' = [e \in Ecus |-> \/ done[e]
                               \/ Answers(e) \/ Fails(e)
                               \/ now > deadline'[e]]
    /\ inbox' = [e \in Ecus |-> IF e \in Asked THEN Rest(e) ELSE <<>>]
    /\ heard' = [e \in Ecus |-> IF inbox[e] # <<>> /\ Data(e).kind # "broken" THEN now ELSE heard[e]]
    /\ pending' = [e \in Ecus |-> IF inbox[e] # <<>> /\ Data(e).kind # "broken"
                                  THEN IsPending(e) ELSE pending[e]]

AllDone == \A e \in Ecus : done'[e]

\* msg.send of the next request, to the ECUs that got on
Iterate ==
    /\ Running
    /\ Loop
    /\ ~AllDone /\ ~TotalOver
    /\ owed' = [e \in Ecus |-> IF counter'[e] # counter[e] THEN owed[e] \cup {counter'[e]}
                               ELSE owed[e]]
    /\ UNCHANGED <<jobVars, now, frames>>

\* The query is over, and the firmware job with it.
QueryEnds ==
    /\ job = "firmware" /\ Running
    /\ Loop
    /\ AllDone \/ TotalOver
    /\ phase' = "end"
    /\ UNCHANGED <<job, attempt, disabled, now, owed, frames>>

-----------------------------------------------------------------------------
(* disable_ecu: a query over, the next one begins with _drain_rx.          *)

StartQuery(p) ==
    /\ phase' = p
    /\ now' = 0
    /\ counter' = Initially(0) /\ done' = [e \in Ecus |-> e \notin Asked]
    /\ results' = Initially(NoData)
    /\ deadline' = Initially(IF p = "control" THEN 0 ELSE Timeout)
    /\ inbox' = Initially(<<>>)
    /\ owed' = [e \in Ecus |-> IF e \in Asked THEN owed[e] \cup {0} ELSE owed[e]]
    /\ frames' = 0 /\ heard' = Initially(0) /\ pending' = Initially(FALSE)

\* What the loop of a one request query of e comes to in this iteration.
OverFor(e) == done[e] \/ Answers(e) \/ Fails(e) \/ now > NextDeadline(e) \/ TotalOver
ResultFor(e) == Answers(e) \/ results[e] # NoData

\* for _, _ in query.get_data(timeout): the ECU is in its diagnostic session
DiagAnswered ==
    /\ job = "disable" /\ phase = "diag"
    /\ \E e \in Asked : OverFor(e) /\ ResultFor(e)
    /\ StartQuery("control")
    /\ UNCHANGED <<job, attempt, disabled>>

DiagRetry ==
    /\ job = "disable" /\ phase = "diag" /\ attempt < Retry
    /\ \A e \in Asked : OverFor(e) /\ ~ResultFor(e)
    /\ StartQuery("diag")
    /\ attempt' = attempt + 1
    /\ UNCHANGED <<job, disabled>>

DiagFailed ==
    /\ job = "disable" /\ phase = "diag" /\ attempt = Retry
    /\ \A e \in Asked : OverFor(e) /\ ~ResultFor(e)
    /\ phase' = "end"
    /\ UNCHANGED <<job, attempt, disabled, now, counter, done, results, deadline,
                   inbox, owed, frames, heard, pending>>

\* The answer to communication control is not looked at.
ControlSent ==
    /\ job = "disable" /\ phase = "control"
    /\ \A e \in Asked : OverFor(e)
    /\ phase' = "end" /\ disabled' = TRUE
    /\ UNCHANGED <<job, attempt, now, counter, done, results, deadline,
                   inbox, owed, frames, heard, pending>>

Step == Iterate \/ QueryEnds \/ DiagAnswered \/ DiagRetry \/ DiagFailed \/ ControlSent

Next ==
    \/ \E e \in Ecus : EcuSends(e)
    \/ Tick
    \/ Step

\* The loop never stops running, and time passes.
Spec == Init /\ [][Next]_vars /\ WF_vars(Step) /\ WF_vars(Tick)

-----------------------------------------------------------------------------
(* Properties.                                                             *)

TypeOK ==
    /\ job \in {"firmware", "disable"} /\ phase \in {"query", "diag", "control", "end"}
    /\ attempt \in 1 .. Retry /\ disabled \in BOOLEAN
    /\ now \in 0 .. TotalTimeout + 1
    /\ counter \in [Ecus -> 0 .. Requests - 1] /\ done \in [Ecus -> BOOLEAN]
    /\ frames \in 0 .. MaxFrames

\* What is returned for an ECU was sent by that ECU, as the answer to the last
\* request, after it had answered every request before
\* (isotp_parallel_query.py:46-63, 130-141): neither the answers of an ECU that
\* shares the address nor those of an earlier query are taken out of order.
AnswersRouted ==
    job = "firmware" =>
        \A e \in Ecus : results[e] # NoData =>
            results[e].ecu = e /\ results[e].req = Last /\ counter[e] = Last

\* An ECU is given up only after it has been silent for the timeout since it
\* was last asked or heard, or for the longer one since it asked for patience
\* (isotp_parallel_query.py:116-119, 145), whatever the others do.
PatientEnough ==
    [][\A e \in Ecus :
        ~done[e] /\ done'[e] /\ inbox[e] = <<>> =>
            now > heard[e] + (IF pending[e] THEN PendingTimeout ELSE Wait)]_vars

\* A job ends, also with an ECU that never stops saying that its response is
\* pending (isotp_parallel_query.py:169-171, disable_ecu.py:19).
JobEnds == <>(phase = "end")
=============================================================================
