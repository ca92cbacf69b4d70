----------------------- MODULE CustomerDeliveryProofs -----------------------
(***************************************************************************)
(* The safety properties of CustomerDelivery, proved for any requests,     *)
(* quantities and tolerance, any interleaving of the handlers, and any     *)
(* number of failed calls and crashes.                                     *)
(*                                                                         *)
(* None of them is inductive: what a submitted note or a submitted return  *)
(* looks like follows from how far the request that made it has come.      *)
(* IInv adds that, one named part per handler.                             *)
(*                                                                         *)
(* The last part is about responses that do not overlap, fail or crash     *)
(* (issue requests may): Replying says that a response finds its note as   *)
(* it read it and that two responses to one note take turns.  From it      *)
(* follow that a confirmed note keeps everything, that the deliveries      *)
(* implement their ledger, and that the two lists of deliveries agree.     *)
(***************************************************************************)
EXTENDS DeliveryRefinement, DeliveryLists, TLAPS

\* What is known of a note from the state of the request that issues it.
IssuePhase(i) ==
    /\ issue[i].pc \in {"idle", "checked", "duplicate"} => note[i].doc = "none"
    /\ issue[i].pc = "drafted" => note[i].doc = "draft"
    /\ issue[i].pc = "marked" => /\ note[i].doc = "draft"
                                 /\ note[i].flow = "submitted"
                                 /\ note[i].cstate # "none"
    /\ issue[i].pc \in {"checked", "drafted", "marked", "undoing"}
          => issue[i].qty > 0
    /\ note[i].doc # "none" => issue[i].qty > 0
    /\ note[i].doc = "submitted" => /\ note[i].flow = "submitted"
                                    /\ note[i].cstate # "none"
    /\ issue[i].pc = "failed" /\ i \notin spoiled => ~ InErp(i)

IssuePhases == \A i \in Issues : IssuePhase(i)

\* A decision that rejects takes something back, and one that takes something
\* back accounts for all that was sent.
SoundDecision(d, sent) ==
    /\ d \in Decision
    /\ d.cstate \in {"confirmed", "rejected", "partial"}
    /\ d.cstate \in {"rejected", "partial"} => d.returned > 0
    /\ d.returned > 0 => Near(d.accepted + d.returned, sent)

Decided(q) == resp[q].pc \notin {"idle", "refused"}

\* What should have gone back in all once the return note of q is submitted.
Goal(q) ==
    LET sent == issue[resp[q].note].qty
    IN  IF Near(resp[q].plan.returned, sent) THEN sent ELSE resp[q].plan.returned

\* What is known of a response, its note and its return note.
ResponsePhase(q) ==
    /\ Decided(q) => /\ resp[q].note \in Issues
                     /\ note[resp[q].note].doc = "submitted"
                     /\ SoundDecision(resp[q].plan, issue[resp[q].note].qty)
    /\ ~ Decided(q) => ret[q].doc = "none"
    /\ resp[q].pc = "decided" => ret[q].doc = "none"
    /\ ret[q].doc = "draft" =>
          ret[q].qty + returnedQty[resp[q].note] >= Goal(q)
    /\ ret[q].doc = "submitted" => returnedQty[resp[q].note] >= Goal(q)
    /\ resp[q].pc = "inserted" => ret[q].doc = "draft"
    /\ resp[q].pc \in {"settled", "noted", "answered"} /\ resp[q].plan.returned > 0
          => ret[q].doc = "submitted"

ResponsePhases == \A q \in Responses : ResponsePhase(q)

\* RecordedReturnIsReal for one note.
RecordedReturn(n) ==
    /\ \E q \in Responses : /\ resp[q].note = n
                            /\ resp[q].plan = note[n].remarks
                            /\ ret[q].doc = "submitted"
    /\ returnedQty[n] >= note[n].remarks.returned - Tol
    /\ Near(note[n].remarks.accepted + note[n].remarks.returned, issue[n].qty)

IInv ==
    /\ TypeOK
    /\ IssuePhases
    /\ ResponsePhases
    /\ ReturnedStateHasReturn
    /\ RecordedReturnIsReal

-----------------------------------------------------------------------------
(* Decisions *)

\* What normalizeCustomerDeliveryDecision may answer, and on which notes.
LEMMA DecisionsAreSound ==
    ASSUME TypeOK, IssuePhases, NEW n \in Issues, NEW r \in Request(n),
           NEW d \in Decisions(n, r)
    PROVE  note[n].doc = "submitted" /\ SoundDecision(d, issue[n].qty)
<1> DEFINE sent == issue[n].qty
<1>1. /\ d \in Decide(Status(n), sent, r)
      /\ InErp(n)
  BY DEF Decisions
<1>2. Status(n) \in {"pending", "accepted"}
  BY <1>1 DEF Decide, AcceptAll, RejectAll, AcceptPartial, Claim
<1>3. note[n].doc = "submitted"
  BY <1>2 DEF Status, AnswerLabel
<1>4. sent \in Nat /\ sent > 0
  BY <1>3 DEF TypeOK, IssueRequest, IssuePhases, IssuePhase
<1>5. r.accepted \in Nat /\ r.returned \in Nat /\ Tol \in Nat
  BY <1>4, ConstantsAssumption DEF Request
<1>6. SoundDecision(d, sent)
  <2>1. CASE d \in AcceptAll(Status(n), sent, r)
    BY <1>4, <2>1 DEF AcceptAll, SoundDecision, Decision, CustomerStates
  <2>2. CASE d \in RejectAll(Status(n), sent, r)
    BY <1>4, <1>5, <2>2
    DEF RejectAll, SoundDecision, Decision, CustomerStates, Near
  <2>3. CASE d \in AcceptPartial(Status(n), sent, r)
    <3>1. /\ SplitsDelivery(sent, r)
          /\ d = [cstate |-> "partial", accepted |-> AcceptedPart(sent, r),
                  returned |-> ReturnedPart(sent, r)]
      BY <2>3 DEF AcceptPartial
    <3>2. AcceptedPart(sent, r) \in Nat /\ ReturnedPart(sent, r) \in Nat
      BY <1>4, <1>5, <3>1 DEF SplitsDelivery, AcceptedPart, ReturnedPart
    <3> QED
      BY <3>1, <3>2 DEF SplitsDelivery, SoundDecision, Decision, CustomerStates
  <2>4. CASE d \in Claim(Status(n), sent, r)
    <3>1. /\ r.returned > 0 /\ r.returned <= sent + Tol
          /\ d = Claimed(sent, r)
      BY <2>4 DEF Claim
    <3>2. CASE Near(r.returned, sent)
      BY <1>4, <1>5, <3>1, <3>2
      DEF Claimed, SoundDecision, Decision, CustomerStates, Near
    <3>3. CASE ~ Near(r.returned, sent)
      <4>1. sent - r.returned \in Nat
        BY <1>4, <1>5, <3>1, <3>3 DEF Near
      <4>2. d = [cstate |-> "partial", accepted |-> sent - r.returned,
                 returned |-> r.returned]
        BY <3>1, <3>3 DEF Claimed
      <4> QED
        BY <1>4, <1>5, <3>1, <4>1, <4>2
        DEF SoundDecision, Decision, CustomerStates, Near
    <3> QED
      BY <3>2, <3>3
  <2> QED
    BY <1>1, <2>1, <2>2, <2>3, <2>4 DEF Decide
<1> QED
  BY <1>3, <1>6

\* The goal is the whole delivery when the decision is close to it, and the
\* decision otherwise: either way it is near the decision.
LEMMA GoalIsNear ==
    ASSUME NEW q, issue[resp[q].note].qty \in Nat, resp[q].plan.returned \in Nat
    PROVE  Goal(q) \in Nat /\ Near(Goal(q), resp[q].plan.returned)
BY ConstantsAssumption DEF Goal, Near

\* With what has gone back before, the return note reaches the goal.
LEMMA ReturnReachesGoal ==
    ASSUME NEW q, issue[resp[q].note].qty \in Nat, resp[q].plan.returned \in Nat,
           returnedQty[resp[q].note] \in Nat
    PROVE  /\ ReturnQty(q) \in Nat
           /\ ReturnQty(q) + returnedQty[resp[q].note] >= Goal(q)
           /\ returnedQty[resp[q].note] = 0 => ReturnQty(q) = Goal(q)
BY DEF ReturnQty, Left, Goal

LEMMA AnswersAreSound ==
    ASSUME TypeOK, IssuePhases, NEW n \in Issues, NEW d \in Answers(n)
    PROVE  note[n].doc = "submitted" /\ SoundDecision(d, issue[n].qty)
BY DecisionsAreSound DEF Answers

-----------------------------------------------------------------------------
(* Type correctness *)

LEMMA InitTypeOK == Init => TypeOK
BY ConstantsAssumption
DEF Init, TypeOK, IssueRequest, DeliveryNote, Response, ReturnNote, IssuePCs,
    RespPCs, Docs, CustomerStates, Decision, NoDecision

LEMMA GoIssueType ==
    ASSUME TypeOK, NEW i \in Issues, NEW pc \in IssuePCs, GoIssue(i, pc)
    PROVE  issue' \in [Issues -> IssueRequest]
<1>1. [issue[i] EXCEPT !.pc = pc] \in IssueRequest
  BY DEF TypeOK, IssueRequest
<1> QED
  BY <1>1 DEF TypeOK, GoIssue

LEMMA GoRespType ==
    ASSUME TypeOK, NEW q \in Responses, NEW pc \in RespPCs, GoResp(q, pc)
    PROVE  resp' \in [Responses -> Response]
<1>1. [resp[q] EXCEPT !.pc = pc] \in Response
  BY DEF TypeOK, Response
<1> QED
  BY <1>1 DEF TypeOK, GoResp

LEMMA FaultType ==
    ASSUME TypeOK, NEW kind \in {"issue", "reply"}, Fault(kind)
    PROVE  faults' \in [{"issue", "reply", "crash"} -> Nat]
BY DEF TypeOK, Fault

\* The three ways a note is written.
LEMMA NoteTypes ==
    ASSUME TypeOK, NEW n \in Issues
    PROVE  /\ \A x \in Docs : [note EXCEPT ![n].doc = x] \in [Issues -> DeliveryNote]
           /\ Marked(n) \in [Issues -> DeliveryNote]
<1>1. ASSUME NEW x \in Docs
      PROVE  [note[n] EXCEPT !.doc = x] \in DeliveryNote
  BY <1>1 DEF TypeOK, DeliveryNote
<1>2. [note[n] EXCEPT !.flow = "submitted", !.cstate = "pending"] \in DeliveryNote
  BY DEF TypeOK, DeliveryNote, CustomerStates
<1> QED
  BY <1>1, <1>2 DEF TypeOK, Marked

LEMMA AnswerTypes ==
    ASSUME TypeOK, NEW q \in Responses, resp[q].note \in Issues
    PROVE  /\ Noted(q) \in [Issues -> DeliveryNote]
           /\ Answered(q) \in [Issues -> DeliveryNote]
<1> DEFINE n == resp[q].note
<1>1. resp[q].plan \in Decision /\ resp[q].plan.cstate \in CustomerStates
  BY DEF TypeOK, Response, Decision
<1>2. [note[n] EXCEPT !.remarks = resp[q].plan] \in DeliveryNote
  BY <1>1 DEF TypeOK, DeliveryNote
<1>3. [note[n] EXCEPT !.flow = "submitted", !.cstate = resp[q].plan.cstate]
        \in DeliveryNote
  BY <1>1 DEF TypeOK, DeliveryNote
<1> QED
  BY <1>2, <1>3 DEF TypeOK, Noted, Answered

LEMMA IssueStepTypeOK ==
    ASSUME TypeOK, NEW i \in Issues,
           IssueCheck(i) \/ IssueAbort(i) \/ IssueStep(i)
    PROVE  TypeOK'
<1>1. CASE IssueCheck(i)
  <2>1. PICK c \in Customers, k \in Keys \cup {NoKey}, x \in Sent :
          issue' = [issue EXCEPT ![i] =
                      [pc |-> IF SourceTaken(c, k) THEN "duplicate" ELSE "checked",
                       cust |-> c, key |-> k, qty |-> x]]
    BY <1>1 DEF IssueCheck
  <2>2. x \in Nat
    BY ConstantsAssumption
  <2>3. issue' \in [Issues -> IssueRequest]
    BY <2>1, <2>2 DEF TypeOK, IssueRequest, IssuePCs
  <2> QED
    BY <1>1, <2>3 DEF IssueCheck, TypeOK
<1>2. CASE IssueAbort(i)
  BY <1>2, GoIssueType DEF IssueAbort, TypeOK, IssuePCs
<1>3. CASE IssueStep(i)
  <2>1. issue' \in [Issues -> IssueRequest]
    BY <1>3, GoIssueType
    DEF IssueStep, IssueCreate, IssueMark, IssueSubmit, IssueCleanup, IssuePCs
  <2>2. note' \in [Issues -> DeliveryNote]
    <3>1. note' \in {note, Marked(i)} \cup {[note EXCEPT ![i].doc = x] : x \in Docs}
      BY <1>3
      DEF IssueStep, IssueCreate, IssueMark, IssueSubmit, IssueCleanup, Docs
    <3> QED
      BY <3>1, NoteTypes DEF TypeOK
  <2>3. faults' \in [{"issue", "reply", "crash"} -> Nat]
    <3>1. Fault("issue") \/ UNCHANGED faults
      BY <1>3 DEF IssueStep, IssueCreate, IssueMark, IssueSubmit, IssueCleanup
    <3> QED
      BY <3>1, FaultType DEF TypeOK
  <2>4. spoiled' \subseteq Issues /\ UNCHANGED <<resp, ret, returnedQty>>
    BY <1>3
    DEF IssueStep, IssueCreate, IssueMark, IssueSubmit, IssueCleanup, TypeOK
  <2> QED
    BY <2>1, <2>2, <2>3, <2>4 DEF TypeOK
<1> QED
  BY <1>1, <1>2, <1>3

LEMMA ReadTypeOK ==
    ASSUME TypeOK, IssuePhases, NEW q \in Responses, NEW n \in Issues,
           RespondRead(q, n) \/ RespondRefuse(q, n)
    PROVE  TypeOK'
<1>1. CASE RespondRead(q, n)
  <2>1. PICK d \in Answers(n) :
          resp' = [resp EXCEPT ![q] =
                     [pc |-> IF d.returned > 0 THEN "decided" ELSE "settled",
                      note |-> n, plan |-> d, same |-> d = note[n].remarks]]
    BY <1>1 DEF RespondRead
  <2>2. d \in Decision
    BY AnswersAreSound DEF SoundDecision
  <2>3. resp' \in [Responses -> Response]
    BY <2>1, <2>2 DEF TypeOK, Response, RespPCs
  <2> QED
    BY <1>1, <2>3 DEF RespondRead, TypeOK
<1>2. CASE RespondRefuse(q, n)
  BY <1>2, GoRespType DEF RespondRefuse, TypeOK, RespPCs
<1> QED
  BY <1>1, <1>2

LEMMA RespondStepTypeOK ==
    ASSUME TypeOK, ResponsePhases, NEW q \in Responses, RespondStep(q)
    PROVE  TypeOK'
<1>1. /\ resp[q].note \in Issues
      /\ ReturnQty(q) \in Nat
  <2>1. Decided(q)
    BY DEF RespondStep, RespondInsertReturn, RespondSubmitReturn, RespondRemarks,
           RespondSkipRemarks, RespondState, Decided
  <2>2. resp[q].note \in Issues
    BY <2>1 DEF ResponsePhases, ResponsePhase
  <2>3. /\ issue[resp[q].note].qty \in Nat /\ resp[q].plan.returned \in Nat
        /\ returnedQty[resp[q].note] \in Nat
    BY <2>2 DEF TypeOK, IssueRequest, Response, Decision
  <2> QED
    BY <2>2, <2>3, ReturnReachesGoal
<1>2. resp' \in [Responses -> Response]
  BY GoRespType
  DEF RespondStep, RespondInsertReturn, RespondSubmitReturn, RespondRemarks,
      RespondSkipRemarks, RespondState, RespPCs
<1>3. note' \in [Issues -> DeliveryNote]
  <2>1. note' \in {note, Noted(q), Answered(q)}
    BY DEF RespondStep, RespondInsertReturn, RespondSubmitReturn, RespondRemarks,
           RespondSkipRemarks, RespondState
  <2> QED
    BY <1>1, <2>1, AnswerTypes DEF TypeOK
<1>4. ret' \in [Responses -> ReturnNote]
  <2>1. ret' \in {ret, [ret EXCEPT ![q] = [doc |-> "draft", qty |-> ReturnQty(q)]],
                  [ret EXCEPT ![q].doc = "submitted"]}
    BY DEF RespondStep, RespondInsertReturn, RespondSubmitReturn, ReturnBooked,
           RespondRemarks, RespondSkipRemarks, RespondState
  <2>2. /\ [doc |-> "draft", qty |-> ReturnQty(q)] \in ReturnNote
        /\ [ret[q] EXCEPT !.doc = "submitted"] \in ReturnNote
    BY <1>1 DEF TypeOK, ReturnNote
  <2> QED
    BY <2>1, <2>2 DEF TypeOK
<1>5. faults' \in [{"issue", "reply", "crash"} -> Nat]
  <2>1. Fault("reply") \/ UNCHANGED faults
    BY DEF RespondStep, RespondInsertReturn, RespondSubmitReturn, RespondRemarks,
           RespondSkipRemarks, RespondState
  <2> QED
    BY <2>1, FaultType DEF TypeOK
<1>6. UNCHANGED <<issue, spoiled>>
  BY DEF RespondStep, RespondInsertReturn, RespondSubmitReturn, RespondRemarks,
         RespondSkipRemarks, RespondState
<1>7. returnedQty' \in [Issues -> Nat]
  <2>1. \/ returnedQty' = returnedQty
        \/ returnedQty' = [returnedQty EXCEPT ![resp[q].note] = @ + ret[q].qty]
    BY DEF RespondStep, RespondInsertReturn, RespondSubmitReturn, ReturnBooked,
           RespondRemarks, RespondSkipRemarks, RespondState
  <2>2. returnedQty[resp[q].note] + ret[q].qty \in Nat
    BY <1>1 DEF TypeOK, ReturnNote
  <2> QED
    BY <1>1, <2>1, <2>2 DEF TypeOK
<1> QED
  BY <1>2, <1>3, <1>4, <1>5, <1>6, <1>7 DEF TypeOK

LEMMA CrashTypeOK == ASSUME TypeOK, Crash PROVE TypeOK'
<1>1. ASSUME NEW i \in Issues
      PROVE  [issue[i] EXCEPT !.pc = "failed"] \in IssueRequest
  BY <1>1 DEF TypeOK, IssueRequest, IssuePCs
<1>2. ASSUME NEW q \in Responses
      PROVE  [resp[q] EXCEPT !.pc = "failed"] \in Response
  BY <1>2 DEF TypeOK, Response, RespPCs
<1>3. /\ issue' \in [Issues -> IssueRequest]
      /\ resp' \in [Responses -> Response]
  BY <1>1, <1>2 DEF Crash, TypeOK
<1>4. /\ faults' \in [{"issue", "reply", "crash"} -> Nat]
      /\ spoiled' \subseteq Issues
      /\ UNCHANGED <<note, ret, returnedQty>>
  BY DEF TypeOK, Crash
<1> QED
  BY <1>3, <1>4 DEF TypeOK

-----------------------------------------------------------------------------
(* The issuing request *)

\* A step of an issuing request writes only its own note, and never one that
\* is submitted.
LEMMA IssueStepFrame ==
    ASSUME IInv, NEW i \in Issues,
           IssueCheck(i) \/ IssueAbort(i) \/ IssueStep(i)
    PROVE  /\ UNCHANGED <<resp, ret, returnedQty>>
           /\ \A j \in Issues \ {i} : note'[j] = note[j] /\ issue'[j] = issue[j]
           /\ note[i].doc = "submitted" => note'[i] = note[i]
           /\ note[i].doc # "none" => issue'[i].qty = issue[i].qty
           /\ note'[i].remarks = note[i].remarks
           /\ note'[i].cstate \in {note[i].cstate, "pending"}
           /\ spoiled \subseteq spoiled'
<1> USE DEF IInv, TypeOK, IssueRequest, DeliveryNote, GoIssue
<1>1. CASE IssueCheck(i)
  BY <1>1 DEF IssueCheck, IssuePhases, IssuePhase
<1>2. CASE IssueAbort(i)
  BY <1>2 DEF IssueAbort
<1>3. CASE IssueCreate(i)
  BY <1>3 DEF IssueCreate, IssuePhases, IssuePhase
<1>4. CASE IssueMark(i)
  BY <1>4 DEF IssueMark, Marked, IssuePhases, IssuePhase
<1>5. CASE IssueSubmit(i)
  BY <1>5 DEF IssueSubmit, IssuePhases, IssuePhase
<1>6. CASE IssueCleanup(i)
  BY <1>6 DEF IssueCleanup, IssuePhases, IssuePhase
<1> QED
  BY <1>1, <1>2, <1>3, <1>4, <1>5, <1>6 DEF IssueStep

LEMMA IssueStepPhase ==
    ASSUME IInv, NEW i \in Issues,
           IssueCheck(i) \/ IssueAbort(i) \/ IssueStep(i)
    PROVE  IssuePhase(i)'
<1>1. IssuePhase(i)
  BY DEF IInv, IssuePhases
<1>2. /\ issue \in [Issues -> IssueRequest] /\ issue[i] \in IssueRequest
      /\ note \in [Issues -> DeliveryNote] /\ note[i] \in DeliveryNote
  BY DEF IInv, TypeOK
<1>3. ASSUME NEW pc, GoIssue(i, pc)
      PROVE  issue'[i].pc = pc /\ issue'[i].qty = issue[i].qty
  BY <1>2, <1>3 DEF GoIssue, IssueRequest
<1>4. CASE IssueCheck(i)
  <2>1. /\ issue'[i].pc \in {"checked", "duplicate"}
        /\ issue'[i].qty > 0
        /\ note'[i] = note[i] /\ note[i].doc = "none"
    BY <1>1, <1>2, <1>4, ConstantsAssumption DEF IssueCheck, IssuePhase
  <2> QED
    BY <2>1 DEF IssuePhase, InErp
<1>5. CASE IssueAbort(i)
  BY <1>1, <1>3, <1>5 DEF IssueAbort, IssuePhase, InErp
<1>6. CASE IssueCreate(i)
  <2>1. \/ issue'[i].pc = "drafted" /\ note'[i].doc = "draft"
        \/ issue'[i].pc = "failed" /\ note'[i].doc # "submitted" /\ i \in spoiled'
    BY <1>1, <1>2, <1>3, <1>6 DEF IssueCreate, DeliveryNote, IssuePhase
  <2> QED
    BY <1>1, <1>3, <1>6, <2>1 DEF IssueCreate, IssuePhase, InErp
<1>7. CASE IssueMark(i)
  <2>1. \/ /\ issue'[i].pc = "marked"
           /\ note'[i].flow = "submitted" /\ note'[i].cstate = "pending"
        \/ issue'[i].pc = "undoing"
    BY <1>2, <1>3, <1>7 DEF IssueMark, Marked, DeliveryNote
  <2>2. note'[i].doc = "draft"
    BY <1>1, <1>2, <1>7 DEF IssueMark, Marked, DeliveryNote, IssuePhase
  <2>3. issue'[i].qty = issue[i].qty /\ issue[i].qty > 0
    BY <1>1, <1>3, <1>7 DEF IssueMark, IssuePhase
  <2> QED
    BY <2>1, <2>2, <2>3 DEF IssuePhase
<1>8. CASE IssueSubmit(i)
  <2>1. issue'[i].pc \in {"done", "undoing"}
    BY <1>3, <1>8 DEF IssueSubmit
  <2>2. note'[i].flow = "submitted" /\ note'[i].cstate # "none"
    BY <1>1, <1>2, <1>8 DEF IssueSubmit, DeliveryNote, IssuePhase
  <2>3. issue'[i].qty = issue[i].qty /\ issue[i].qty > 0
    BY <1>1, <1>3, <1>8 DEF IssueSubmit, IssuePhase
  <2> QED
    BY <2>1, <2>2, <2>3 DEF IssuePhase
<1>9. CASE IssueCleanup(i)
  <2>1. \/ note'[i].doc = "deleted"
        \/ note'[i] = note[i] /\ i \in spoiled'
    BY <1>2, <1>9 DEF IssueCleanup, DeliveryNote
  <2>2. issue'[i].pc = "failed" /\ issue'[i].qty > 0
    BY <1>1, <1>3, <1>9 DEF IssueCleanup, IssuePhase
  <2> QED
    BY <1>1, <2>1, <2>2 DEF IssuePhase, InErp
<1> QED
  BY <1>4, <1>5, <1>6, <1>7, <1>8, <1>9 DEF IssueStep

\* Responses and return notes depend on submitted notes only, which an issuing
\* request leaves alone.
LEMMA IssueStepInv ==
    ASSUME IInv, NEW i \in Issues,
           IssueCheck(i) \/ IssueAbort(i) \/ IssueStep(i)
    PROVE  IInv'
<1>1. TypeOK'
  BY IssueStepTypeOK DEF IInv
<1>2. IssuePhases'
  <2>1. ASSUME NEW j \in Issues, j # i PROVE IssuePhase(j)'
    BY <2>1, IssueStepFrame DEF IInv, IssuePhases, IssuePhase, InErp
  <2> QED
    BY <2>1, IssueStepPhase DEF IssuePhases
<1>3. \A n \in Issues : note[n].doc = "submitted" =>
          note'[n] = note[n] /\ issue'[n].qty = issue[n].qty
  BY IssueStepFrame
<1>4. ResponsePhases'
  <2>1. ASSUME NEW q \in Responses, Decided(q)
        PROVE  Goal(q)' = Goal(q)
    BY <1>3, <2>1, IssueStepFrame DEF IInv, ResponsePhases, ResponsePhase, Goal
  <2>2. ASSUME NEW q \in Responses, ret[q].doc # "none" PROVE Decided(q)
    BY <2>2 DEF IInv, ResponsePhases, ResponsePhase
  <2> QED
    BY <1>3, <2>1, <2>2, IssueStepFrame
    DEF IInv, ResponsePhases, ResponsePhase, Decided, SoundDecision
<1>5. ReturnedStateHasReturn'
  BY IssueStepFrame DEF IInv, ReturnedStateHasReturn
<1>6. RecordedReturnIsReal'
  <2>1. SUFFICES ASSUME NEW n \in Issues, note'[n].remarks.returned > 0
                 PROVE  RecordedReturn(n)'
    BY DEF RecordedReturnIsReal, RecordedReturn
  <2>2. note'[n].remarks = note[n].remarks
    BY IssueStepFrame
  <2>3. RecordedReturn(n)
    BY <2>1, <2>2 DEF IInv, RecordedReturnIsReal, RecordedReturn
  <2>4. note[n].doc = "submitted"
    BY <2>3 DEF IInv, ResponsePhases, ResponsePhase, RecordedReturn
  <2> QED
    BY <1>3, <2>2, <2>3, <2>4, IssueStepFrame DEF RecordedReturn
<1> QED
  BY <1>1, <1>2, <1>4, <1>5, <1>6 DEF IInv

-----------------------------------------------------------------------------
(* The response *)

\* A step of a response changes neither the requests nor which documents exist,
\* keeps what it has decided, and writes the note it decided on.
LEMMA RespondStepFrame ==
    ASSUME IInv, NEW q \in Responses, RespondStep(q)
    PROVE  /\ UNCHANGED <<issue, spoiled>>
           /\ Decided(q) /\ Decided(q)'
           /\ resp'[q].note = resp[q].note /\ resp'[q].plan = resp[q].plan
           /\ \A p \in Responses \ {q} : resp'[p] = resp[p] /\ ret'[p] = ret[p]
           /\ ret[q].doc = "submitted" => ret'[q] = ret[q]
           /\ note' \in {note, Noted(q), Answered(q)}
           /\ \A n \in Issues : /\ returnedQty[n] \in Nat /\ returnedQty'[n] \in Nat
                                /\ returnedQty'[n] >= returnedQty[n]
                                /\ n # resp[q].note => returnedQty'[n] = returnedQty[n]
<1>1. /\ resp \in [Responses -> Response] /\ resp[q] \in Response
      /\ ret \in [Responses -> ReturnNote] /\ ret[q] \in ReturnNote
      /\ ResponsePhase(q)
  BY DEF IInv, TypeOK, ResponsePhases
<1>2. ASSUME NEW pc \in RespPCs \ {"idle", "refused"}, GoResp(q, pc)
      PROVE  /\ Decided(q)'
             /\ resp'[q].note = resp[q].note /\ resp'[q].plan = resp[q].plan
             /\ \A p \in Responses \ {q} : resp'[p] = resp[p]
  BY <1>1, <1>2 DEF GoResp, Response, Decided
<1>3. Decided(q)
  BY DEF RespondStep, RespondInsertReturn, RespondSubmitReturn, RespondRemarks,
         RespondSkipRemarks, RespondState, Decided
<1>4. /\ Decided(q)'
      /\ resp'[q].note = resp[q].note /\ resp'[q].plan = resp[q].plan
      /\ \A p \in Responses \ {q} : resp'[p] = resp[p]
  BY <1>2
  DEF RespondStep, RespondInsertReturn, RespondSubmitReturn, RespondRemarks,
      RespondSkipRemarks, RespondState, RespPCs
<1>5. /\ \A p \in Responses \ {q} : ret'[p] = ret[p]
      /\ ret[q].doc = "submitted" => ret'[q] = ret[q]
  BY <1>1
  DEF RespondStep, RespondInsertReturn, RespondSubmitReturn, ReturnBooked,
      RespondRemarks, RespondSkipRemarks, RespondState, ResponsePhase, ReturnNote
<1>6. /\ UNCHANGED <<issue, spoiled>>
      /\ note' \in {note, Noted(q), Answered(q)}
  BY DEF RespondStep, RespondInsertReturn, RespondSubmitReturn, RespondRemarks,
         RespondSkipRemarks, RespondState
<1>7. ASSUME NEW n \in Issues
      PROVE  /\ returnedQty[n] \in Nat /\ returnedQty'[n] \in Nat
             /\ returnedQty'[n] >= returnedQty[n]
             /\ n # resp[q].note => returnedQty'[n] = returnedQty[n]
  <2>1. \/ returnedQty' = returnedQty
        \/ returnedQty' = [returnedQty EXCEPT ![resp[q].note] = @ + ret[q].qty]
    BY DEF RespondStep, RespondInsertReturn, RespondSubmitReturn, ReturnBooked,
           RespondRemarks, RespondSkipRemarks, RespondState
  <2>2. /\ returnedQty \in [Issues -> Nat] /\ ret[q].qty \in Nat
        /\ returnedQty[n] \in Nat
    BY <1>1 DEF IInv, TypeOK, ReturnNote
  <2> QED
    BY <2>1, <2>2
<1> QED
  BY <1>3, <1>4, <1>5, <1>6, <1>7

\* What such a write leaves of a note.
LEMMA AnswerFrame ==
    ASSUME IInv, NEW q \in Responses, Decided(q),
           note' \in {note, Noted(q), Answered(q)}, NEW n \in Issues
    PROVE  /\ note'[n].doc = note[n].doc
           /\ n # resp[q].note => note'[n] = note[n]
           /\ note'[n].flow \in {note[n].flow, "submitted"}
           /\ note'[n].cstate \in {note[n].cstate, resp[q].plan.cstate}
           /\ note'[n].remarks \in {note[n].remarks, resp[q].plan}
           /\ note' # Noted(q) => note'[n].remarks = note[n].remarks
           /\ note' # Answered(q) => note'[n].cstate = note[n].cstate
           /\ note[n].cstate # "none" => note'[n].cstate # "none"
<1>1. /\ note \in [Issues -> DeliveryNote] /\ note[n] \in DeliveryNote
      /\ resp[q].note \in Issues
      /\ resp[q].plan.cstate # "none"
  BY DEF IInv, TypeOK, ResponsePhases, ResponsePhase, SoundDecision
<1>2. /\ n # resp[q].note => Noted(q)[n] = note[n]
      /\ Noted(q)[n].doc = note[n].doc /\ Noted(q)[n].flow = note[n].flow
      /\ Noted(q)[n].cstate = note[n].cstate
      /\ Noted(q)[n].remarks \in {note[n].remarks, resp[q].plan}
  BY <1>1 DEF Noted, DeliveryNote
<1>3. /\ n # resp[q].note => Answered(q)[n] = note[n]
      /\ Answered(q)[n].doc = note[n].doc
      /\ Answered(q)[n].flow \in {note[n].flow, "submitted"}
      /\ Answered(q)[n].cstate \in {note[n].cstate, resp[q].plan.cstate}
      /\ Answered(q)[n].remarks = note[n].remarks
  BY <1>1 DEF Answered, DeliveryNote
<1> QED
  BY <1>1, <1>2, <1>3

LEMMA RespondStepPhase ==
    ASSUME IInv, NEW q \in Responses, RespondStep(q)
    PROVE  ResponsePhase(q)'
<1>1. /\ resp \in [Responses -> Response] /\ resp[q] \in Response
      /\ ret \in [Responses -> ReturnNote] /\ ret[q] \in ReturnNote
      /\ ResponsePhase(q) /\ Decided(q) /\ Decided(q)'
      /\ resp'[q].note = resp[q].note /\ resp'[q].plan = resp[q].plan
      /\ issue' = issue
  BY RespondStepFrame DEF IInv, TypeOK, ResponsePhases
<1>2. /\ resp'[q].note \in Issues
      /\ note'[resp'[q].note].doc = "submitted"
      /\ SoundDecision(resp'[q].plan, issue'[resp'[q].note].qty)
  BY <1>1, RespondStepFrame, AnswerFrame DEF ResponsePhase
<1>3. Goal(q)' = Goal(q)
  BY <1>1 DEF Goal
<1>4. /\ resp[q].note \in Issues /\ returnedQty \in [Issues -> Nat]
      /\ issue[resp[q].note].qty \in Nat /\ resp[q].plan.returned \in Nat
      /\ returnedQty[resp[q].note] \in Nat
      /\ ret[q].qty \in Nat /\ ReturnQty(q) \in Nat /\ Goal(q) \in Nat
      /\ ReturnQty(q) + returnedQty[resp[q].note] >= Goal(q)
  <2>1. resp[q].note \in Issues
    BY <1>1 DEF ResponsePhase
  <2>2. /\ returnedQty \in [Issues -> Nat] /\ returnedQty[resp[q].note] \in Nat
        /\ issue[resp[q].note].qty \in Nat /\ resp[q].plan.returned \in Nat
        /\ ret[q].qty \in Nat
    BY <2>1 DEF IInv, TypeOK, IssueRequest, Response, Decision, ReturnNote
  <2> QED
    BY <2>1, <2>2, ReturnReachesGoal, GoalIsNear
<1>5. ASSUME NEW pc, GoResp(q, pc) PROVE resp'[q].pc = pc
  BY <1>1, <1>5 DEF GoResp, Response
<1>6. /\ ret'[q].doc = "draft" =>
            ret'[q].qty + returnedQty'[resp[q].note] >= Goal(q)
      /\ ret'[q].doc = "submitted" => returnedQty'[resp[q].note] >= Goal(q)
      /\ resp'[q].pc = "decided" => ret'[q].doc = "none"
      /\ resp'[q].pc = "inserted" => ret'[q].doc = "draft"
      /\ resp'[q].pc \in {"settled", "noted", "answered"}
            /\ resp[q].plan.returned > 0 => ret'[q].doc = "submitted"
  <2>1. CASE RespondInsertReturn(q)
    <3>1. /\ resp'[q].pc \in {"inserted", "failed"}
          /\ returnedQty' = returnedQty
          /\ \/ ret'[q] = [doc |-> "draft", qty |-> ReturnQty(q)]
             \/ ret'[q] = ret[q] /\ resp'[q].pc = "failed"
          /\ ret[q].doc = "none"
      BY <1>1, <1>5, <2>1 DEF RespondInsertReturn, ResponsePhase
    <3> QED
      BY <1>4, <3>1
  <2>2. CASE RespondSubmitReturn(q)
    <3>1. /\ resp'[q].pc \in {"settled", "failed"}
          /\ ret[q].doc = "draft"
          /\ ret[q].qty + returnedQty[resp[q].note] >= Goal(q)
          /\ \/ ReturnBooked(q)
             \/ /\ resp'[q].pc = "failed"
                /\ ret' = ret /\ returnedQty' = returnedQty
      BY <1>1, <1>5, <2>2 DEF RespondSubmitReturn, ResponsePhase
    <3>2. CASE ReturnBooked(q)
      <4>1. ret'[q].doc = "submitted"
        BY <1>1, <3>2 DEF ReturnBooked, ReturnNote
      <4>2. returnedQty'[resp[q].note] = returnedQty[resp[q].note] + ret[q].qty
        BY <1>4, <3>2 DEF ReturnBooked
      <4> QED
        BY <1>4, <3>1, <4>1, <4>2
    <3> QED
      BY <3>1, <3>2
  <2>3. CASE RespondRemarks(q)
    BY <1>1, <1>5, <2>3 DEF RespondRemarks, ResponsePhase
  <2>4. CASE RespondSkipRemarks(q)
    BY <1>1, <1>5, <2>4 DEF RespondSkipRemarks, ResponsePhase
  <2>5. CASE RespondState(q)
    BY <1>1, <1>5, <2>5 DEF RespondState, ResponsePhase
  <2> QED
    BY <2>1, <2>2, <2>3, <2>4, <2>5 DEF RespondStep
<1> QED
  BY <1>1, <1>2, <1>3, <1>6 DEF ResponsePhase

LEMMA RespondStepInv ==
    ASSUME IInv, NEW q \in Responses, RespondStep(q)
    PROVE  IInv'
<1>1. TypeOK'
  BY RespondStepTypeOK DEF IInv
<1>2. /\ ResponsePhase(q) /\ ResponsePhase(q)'
      /\ issue' = issue /\ spoiled' = spoiled
      /\ Decided(q)
      /\ \A n \in Issues : note'[n].doc = note[n].doc
  BY RespondStepFrame, AnswerFrame, RespondStepPhase DEF IInv, ResponsePhases
<1>3. IssuePhases'
  <2>1. SUFFICES ASSUME NEW i \in Issues PROVE IssuePhase(i)'
    BY DEF IssuePhases
  <2>2. /\ IssuePhase(i)
        /\ note'[i].flow \in {note[i].flow, "submitted"}
        /\ note[i].cstate # "none" => note'[i].cstate # "none"
    BY <1>2, RespondStepFrame, AnswerFrame DEF IInv, IssuePhases
  <2> QED
    BY <1>2, <2>2 DEF IssuePhase, InErp
<1>4. ResponsePhases'
  <2>1. SUFFICES ASSUME NEW p \in Responses \ {q} PROVE ResponsePhase(p)'
    BY <1>2 DEF ResponsePhases
  <2>2. ResponsePhase(p) /\ resp'[p] = resp[p] /\ ret'[p] = ret[p]
    BY RespondStepFrame DEF IInv, ResponsePhases
  <2>3. Goal(p)' = Goal(p)
    BY <1>2, <2>2 DEF Goal
  <2>4. ASSUME ret[p].doc # "none" PROVE resp[p].note \in Issues
    BY <2>2, <2>4 DEF ResponsePhase
  <2>5. ASSUME ret[p].doc # "none"
        PROVE  /\ Goal(p) \in Nat /\ ret[p].qty \in Nat
               /\ returnedQty[resp[p].note] \in Nat
               /\ returnedQty'[resp[p].note] \in Nat
               /\ returnedQty'[resp[p].note] >= returnedQty[resp[p].note]
    <3>1. /\ issue[resp[p].note].qty \in Nat /\ resp[p].plan.returned \in Nat
          /\ ret[p].qty \in Nat
      BY <2>4, <2>5 DEF IInv, TypeOK, IssueRequest, Response, Decision, ReturnNote
    <3> QED
      BY <2>4, <2>5, <3>1, GoalIsNear, RespondStepFrame
  <2>6. /\ ret'[p].doc = "draft" =>
              ret'[p].qty + returnedQty'[resp'[p].note] >= Goal(p)'
        /\ ret'[p].doc = "submitted" => returnedQty'[resp'[p].note] >= Goal(p)'
    BY <2>2, <2>3, <2>5 DEF ResponsePhase
  <2> QED
    BY <1>2, <2>2, <2>6 DEF ResponsePhase, Decided
<1>5. ASSUME NEW p \in Responses, ret[p].doc = "submitted"
      PROVE  /\ resp'[p].note = resp[p].note /\ resp'[p].plan = resp[p].plan
             /\ ret'[p] = ret[p]
  BY <1>5, RespondStepFrame
<1>6. ReturnedStateHasReturn'
  <2>1. SUFFICES ASSUME NEW n \in Issues, note'[n].cstate \in {"rejected", "partial"}
                 PROVE  \E p \in Responses : /\ resp'[p].note = n
                                             /\ resp'[p].plan.cstate = note'[n].cstate
                                             /\ ret'[p].doc = "submitted"
    BY DEF ReturnedStateHasReturn
  <2>2. CASE note'[n].cstate = note[n].cstate
    BY <1>5, <2>1, <2>2 DEF IInv, ReturnedStateHasReturn
  <2>3. CASE note'[n].cstate # note[n].cstate
    <3>1. /\ note' = Answered(q) /\ n = resp[q].note
          /\ note'[n].cstate = resp[q].plan.cstate
      BY <1>2, <2>3, RespondStepFrame, AnswerFrame
    <3>2. resp[q].pc = "noted" \/ note' \in {note, Noted(q)}
      BY DEF RespondStep, RespondInsertReturn, RespondSubmitReturn, RespondRemarks,
             RespondSkipRemarks, RespondState
    <3>3. resp[q].pc = "noted"
      <4>1. ASSUME note' \in {note, Noted(q)} PROVE FALSE
        <5>1. Noted(q)[n].cstate = note[n].cstate
          BY DEF IInv, TypeOK, DeliveryNote, Noted
        <5> QED
          BY <2>3, <4>1, <5>1
      <4> QED
        BY <3>2, <4>1
    <3>4. ret[q].doc = "submitted"
      BY <1>2, <2>1, <3>1, <3>3 DEF ResponsePhase, SoundDecision
    <3> QED
      BY <1>5, <3>1, <3>4
  <2> QED
    BY <2>2, <2>3
<1>7. RecordedReturnIsReal'
  <2>1. SUFFICES ASSUME NEW n \in Issues, note'[n].remarks.returned > 0
                 PROVE  RecordedReturn(n)'
    BY DEF RecordedReturnIsReal, RecordedReturn
  <2>2. CASE note'[n].remarks = note[n].remarks
    <3>1. RecordedReturn(n)
      BY <2>1, <2>2 DEF IInv, RecordedReturnIsReal, RecordedReturn
    <3>2. PICK p \in Responses : /\ resp[p].note = n
                                 /\ resp[p].plan = note[n].remarks
                                 /\ ret[p].doc = "submitted"
      BY <3>1 DEF RecordedReturn
    <3>3. /\ resp'[p].note = n /\ resp'[p].plan = note'[n].remarks
          /\ ret'[p].doc = "submitted"
      BY <1>5, <2>2, <3>2
    <3>4. returnedQty'[n] >= note'[n].remarks.returned - Tol
      <4>1. /\ returnedQty[n] \in Nat /\ returnedQty'[n] \in Nat
            /\ returnedQty'[n] >= returnedQty[n]
        BY RespondStepFrame
      <4>2. note[n].remarks.returned \in Nat /\ Tol \in Nat
        BY ConstantsAssumption DEF IInv, TypeOK, DeliveryNote, Decision
      <4> QED
        BY <2>2, <3>1, <4>1, <4>2 DEF RecordedReturn
    <3> QED
      BY <1>2, <2>2, <3>1, <3>3, <3>4 DEF RecordedReturn
  <2>3. CASE note'[n].remarks # note[n].remarks
    <3>1. /\ n = resp[q].note
          /\ note'[n].remarks = resp[q].plan
      BY <1>2, <2>3, RespondStepFrame, AnswerFrame
    <3>2. resp[q].pc = "settled"
      <4>1. ASSUME note' \in {note, Answered(q)} PROVE FALSE
        <5>1. Answered(q)[n].remarks = note[n].remarks
          BY DEF IInv, TypeOK, DeliveryNote, Answered
        <5> QED
          BY <2>3, <4>1, <5>1
      <4>2. resp[q].pc = "settled" \/ note' \in {note, Answered(q)}
        BY DEF RespondStep, RespondInsertReturn, RespondSubmitReturn, RespondRemarks,
               RespondSkipRemarks, RespondState
      <4> QED
        BY <4>1, <4>2
    <3>3. /\ ret[q].doc = "submitted" /\ returnedQty[n] >= Goal(q)
          /\ Near(resp[q].plan.accepted + resp[q].plan.returned, issue[n].qty)
      BY <1>2, <2>1, <3>1, <3>2 DEF ResponsePhase, SoundDecision
    <3>4. returnedQty'[n] >= resp[q].plan.returned - Tol
      <4>1. issue[resp[q].note].qty \in Nat /\ resp[q].plan.returned \in Nat
        BY <3>1 DEF IInv, TypeOK, IssueRequest, Response, Decision
      <4>2. Goal(q) \in Nat /\ Near(Goal(q), resp[q].plan.returned)
        BY <4>1, GoalIsNear
      <4>3. /\ returnedQty[n] \in Nat /\ returnedQty'[n] \in Nat
            /\ returnedQty'[n] >= returnedQty[n]
        BY RespondStepFrame
      <4> QED
        BY <3>3, <4>1, <4>2, <4>3, ConstantsAssumption DEF Near
    <3>5. /\ resp'[q].note = n /\ resp'[q].plan = note'[n].remarks
          /\ ret'[q].doc = "submitted"
      BY <1>5, <3>1, <3>3
    <3>6. Near(note'[n].remarks.accepted + note'[n].remarks.returned, issue'[n].qty)
      BY <1>2, <3>1, <3>3
    <3> QED
      BY <3>1, <3>4, <3>5, <3>6 DEF RecordedReturn
  <2> QED
    BY <2>2, <2>3
<1> QED
  BY <1>1, <1>3, <1>4, <1>6, <1>7 DEF IInv

LEMMA ReadInv ==
    ASSUME IInv, NEW q \in Responses, NEW n \in Issues,
           RespondRead(q, n) \/ RespondRefuse(q, n)
    PROVE  IInv'
<1>1. TypeOK'
  BY ReadTypeOK DEF IInv
<1>2. /\ resp \in [Responses -> Response] /\ resp[q] \in Response
      /\ resp[q].pc = "idle"
      /\ ResponsePhase(q) /\ ret[q].doc = "none"
      /\ UNCHANGED <<issue, note, ret, returnedQty, faults, spoiled>>
  BY DEF RespondRead, RespondRefuse, IInv, TypeOK, ResponsePhases, ResponsePhase,
         Decided
<1>3. /\ \A p \in Responses \ {q} : resp'[p] = resp[p]
      /\ \/ resp'[q].pc = "refused"
         \/ /\ resp'[q].note = n
            /\ note[n].doc = "submitted"
            /\ SoundDecision(resp'[q].plan, issue[n].qty)
            /\ resp'[q].pc = IF resp'[q].plan.returned > 0 THEN "decided" ELSE "settled"
  <2>1. CASE RespondRead(q, n)
    <3>1. PICK d \in Answers(n) :
            resp' = [resp EXCEPT ![q] =
                       [pc |-> IF d.returned > 0 THEN "decided" ELSE "settled",
                        note |-> n, plan |-> d, same |-> d = note[n].remarks]]
      BY <2>1 DEF RespondRead
    <3>2. note[n].doc = "submitted" /\ SoundDecision(d, issue[n].qty)
      BY AnswersAreSound DEF IInv
    <3> QED
      BY <1>2, <3>1, <3>2
  <2>2. CASE RespondRefuse(q, n)
    BY <1>2, <2>2 DEF RespondRefuse, GoResp, Response
  <2> QED
    BY <2>1, <2>2
<1>4. IssuePhases'
  BY <1>2 DEF IInv, IssuePhases, IssuePhase, InErp
<1>5. ResponsePhases'
  <2>1. ResponsePhase(q)'
    BY <1>2, <1>3 DEF ResponsePhase, Decided
  <2>2. ASSUME NEW p \in Responses \ {q} PROVE ResponsePhase(p)'
    BY <1>2, <1>3 DEF IInv, ResponsePhases, ResponsePhase, Decided, Goal
  <2> QED
    BY <2>1, <2>2 DEF ResponsePhases
<1>6. (ReturnedStateHasReturn /\ RecordedReturnIsReal)'
  <2>1. \A p \in Responses : ret[p].doc = "submitted" =>
            resp'[p] = resp[p] /\ ret'[p] = ret[p]
    BY <1>2, <1>3
  <2> QED
    BY <1>2, <2>1 DEF IInv, ReturnedStateHasReturn, RecordedReturnIsReal
<1> QED
  BY <1>1, <1>4, <1>5, <1>6 DEF IInv

LEMMA CrashInv == ASSUME IInv, Crash PROVE IInv'
<1>1. TypeOK'
  BY CrashTypeOK DEF IInv
<1>2. UNCHANGED <<note, ret, returnedQty>>
  BY DEF Crash
<1>3. ASSUME NEW i \in Issues
      PROVE  /\ issue'[i].qty = issue[i].qty
             /\ \/ issue'[i].pc = issue[i].pc
                \/ issue'[i].pc = "failed" /\ i \in spoiled'
             /\ spoiled \subseteq spoiled'
  <2>1. issue[i] \in IssueRequest
    BY DEF IInv, TypeOK
  <2> QED
    BY <2>1 DEF Crash, IssueRequest
<1>4. ASSUME NEW q \in Responses
      PROVE  /\ resp'[q].note = resp[q].note /\ resp'[q].plan = resp[q].plan
             /\ \/ resp'[q].pc = resp[q].pc
                \/ Decided(q) /\ resp'[q].pc = "failed"
  <2>1. resp[q] \in Response
    BY DEF IInv, TypeOK
  <2> QED
    BY <2>1 DEF Crash, Response, Responding, RespEnded, Decided
<1>5. IssuePhases'
  BY <1>2, <1>3 DEF IInv, IssuePhases, IssuePhase, InErp
<1>6. ResponsePhases'
  <2>1. SUFFICES ASSUME NEW q \in Responses PROVE ResponsePhase(q)'
    BY DEF ResponsePhases
  <2>2. ResponsePhase(q) /\ (Decided(q)' <=> Decided(q))
    BY <1>4 DEF IInv, ResponsePhases, Decided
  <2>3. Decided(q) => Goal(q)' = Goal(q)
    BY <1>3, <1>4, <2>2 DEF ResponsePhase, Goal
  <2> QED
    BY <1>2, <1>3, <1>4, <2>2, <2>3 DEF ResponsePhase
<1>7. (ReturnedStateHasReturn /\ RecordedReturnIsReal)'
  BY <1>2, <1>3, <1>4 DEF IInv, ReturnedStateHasReturn, RecordedReturnIsReal
<1> QED
  BY <1>1, <1>5, <1>6, <1>7 DEF IInv

-----------------------------------------------------------------------------
(* The invariant and what follows from it *)

LEMMA InitInv == Init => IInv
BY InitTypeOK
DEF Init, IInv, IssuePhases, IssuePhase, ResponsePhases, ResponsePhase, Decided,
    InErp, NoDecision, ReturnedStateHasReturn, RecordedReturnIsReal

LEMMA NextInv == IInv /\ [Next]_vars => IInv'
<1>1. ASSUME IInv, Next PROVE IInv'
  BY <1>1, IssueStepInv, RespondStepInv, ReadInv, CrashInv DEF Next
<1>2. ASSUME IInv, UNCHANGED vars PROVE IInv'
  BY <1>2
  DEF vars, IInv, TypeOK, IssuePhases, IssuePhase, ResponsePhases, ResponsePhase,
      Decided, InErp, Goal, ReturnedStateHasReturn, RecordedReturnIsReal
<1> QED
  BY <1>1, <1>2

\* Every step of every handler, failure and crash keeps the invariant.
THEOREM Invariance == Spec => []IInv
BY InitInv, NextInv, PTL DEF Spec

\* Every variable always holds a value of its kind.
THEOREM TypeCorrectness == Spec => []TypeOK
BY Invariance, PTL DEF IInv

\* No delivery note reaches a customer without its mobile state.
THEOREM SubmittedNotesAreMarked == Spec => []SubmittedNoteIsMarked
<1>1. IInv => SubmittedNoteIsMarked
  BY DEF IInv, IssuePhases, IssuePhase, SubmittedNoteIsMarked
<1> QED
  BY <1>1, Invariance, PTL

\* No failure or race of responses shows goods as returned that were not.
THEOREM RejectionIsBacked == Spec => []ReturnedStateHasReturn
BY Invariance, PTL DEF IInv

\* A return that the remarks record was made by the response that recorded it,
\* and ERPNext has booked at least that much, over all the note's return notes.
THEOREM RemarksAreBacked == Spec => []RecordedReturnIsReal
BY Invariance, PTL DEF IInv

\* Nothing is returned against a note that is, or may become, a deleted draft.
THEOREM ReturnsAreAnchored == Spec => []ReturnsHaveTheirNote
<1>1. IInv => ReturnsHaveTheirNote
  BY DEF IInv, ResponsePhases, ResponsePhase, ReturnsHaveTheirNote
<1> QED
  BY <1>1, Invariance, PTL

\* State, remarks and return notes agree.
THEOREM ReturnsAlwaysAgree == Spec => []ReturnsAgree
BY RejectionIsBacked, RemarksAreBacked, ReturnsAreAnchored, PTL DEF ReturnsAgree

\* A failed issue leaves no note, unless the handler could not know or undo it.
THEOREM FailureIsClean == Spec => []FailedIssueLeavesNothing
<1>1. IInv => FailedIssueLeavesNothing
  BY DEF IInv, IssuePhases, IssuePhase, FailedIssueLeavesNothing
<1> QED
  BY <1>1, Invariance, PTL

-----------------------------------------------------------------------------
(* Answers are final *)

Final == {"accepted", "partial", "rejected"}

\* Only a submitted note has a final status; requests leave it alone, and a
\* response can only write another final answer on it.
LEMMA FinalIsKept ==
    ASSUME IInv, [Next]_vars, NEW n \in Issues, Status(n) \in Final
    PROVE  Status(n)' \in Final
<1>1. /\ note[n].doc = "submitted" /\ note[n].flow = "submitted"
      /\ note[n].cstate \in {"rejected", "confirmed", "partial"}
  BY DEF Status, AnswerLabel, Final
<1>2. ASSUME note'[n].doc = "submitted", note'[n].flow = "submitted",
             note'[n].cstate \in {"rejected", "confirmed", "partial"}
      PROVE  Status(n)' \in Final
  BY <1>2 DEF Status, AnswerLabel, Final
<1>3. ASSUME NEW i \in Issues, IssueCheck(i) \/ IssueAbort(i) \/ IssueStep(i)
      PROVE  note'[n] = note[n]
  BY <1>1, <1>3, IssueStepFrame
<1>4. ASSUME NEW q \in Responses, RespondStep(q)
      PROVE  /\ note'[n].doc = "submitted" /\ note'[n].flow = "submitted"
             /\ note'[n].cstate \in {"rejected", "confirmed", "partial"}
  <2>1. resp[q].plan.cstate \in {"rejected", "confirmed", "partial"}
    BY <1>4, RespondStepFrame
    DEF IInv, ResponsePhases, ResponsePhase, SoundDecision
  <2> QED
    BY <1>1, <1>4, <2>1, RespondStepFrame, AnswerFrame
<1>5. ASSUME \/ \E q \in Responses, m \in Issues :
                   RespondRead(q, m) \/ RespondRefuse(q, m)
             \/ Crash
             \/ UNCHANGED vars
      PROVE  note' = note
  BY <1>5 DEF RespondRead, RespondRefuse, Crash, vars
<1> QED
  BY <1>1, <1>2, <1>3, <1>4, <1>5 DEF Next

\* No step takes an answer back.
THEOREM AnswersAreFinal == Spec => AnswerNeverWithdrawn
<1>1. IInv /\ [Next]_vars =>
        [\A n \in Issues : Status(n) \in {"accepted", "partial", "rejected"} =>
              Status(n)' \in {"accepted", "partial", "rejected"}]_vars
  BY FinalIsKept DEF Final
<1> QED
  BY <1>1, Invariance, PTL DEF Spec, AnswerNeverWithdrawn

-----------------------------------------------------------------------------
(* Sources, when the issue requests do not overlap *)

OneIssuing == \A i, j \in Issues : Issuing(i) /\ Issuing(j) => i = j

\* The answer of the duplicate check is still true when the draft is inserted.
CheckIsFresh ==
    \A i \in Issues : issue[i].pc = "checked" /\ issue[i].key # NoKey =>
        \A j \in Issues : InErp(j) => issue[j].key # issue[i].key

SourceInv == IInv /\ OneIssuing /\ CheckIsFresh /\ OneNotePerSource

\* A step of an issuing request keeps the request's source and creates no note
\* but its own, at the insert.
LEMMA IssueStepSource ==
    ASSUME IInv, NEW i \in Issues, IssueStep(i)
    PROVE  /\ \A j \in Issues : issue'[j].key = issue[j].key
           /\ \A j \in Issues \ {i} : InErp(j)' <=> InErp(j)
           /\ Issuing(i)
           /\ InErp(i)' /\ ~ InErp(i) => issue[i].pc = "checked"
           /\ issue'[i].pc # "checked"
<1>1. /\ issue \in [Issues -> IssueRequest] /\ issue[i] \in IssueRequest
      /\ note \in [Issues -> DeliveryNote] /\ note[i] \in DeliveryNote
      /\ IssuePhase(i)
  BY DEF IInv, TypeOK, IssuePhases
<1>2. ASSUME NEW pc, GoIssue(i, pc)
      PROVE  /\ issue'[i].pc = pc /\ issue'[i].key = issue[i].key
             /\ \A j \in Issues \ {i} : issue'[j] = issue[j]
  BY <1>1, <1>2 DEF GoIssue, IssueRequest
<1>3. /\ \A j \in Issues : issue'[j].key = issue[j].key
      /\ issue'[i].pc # "checked" /\ Issuing(i)
  BY <1>2 DEF IssueStep, IssueCreate, IssueMark, IssueSubmit, IssueCleanup,
              Issuing, IssueEnded
<1>4. \A j \in Issues \ {i} : InErp(j)' <=> InErp(j)
  BY IssueStepFrame DEF InErp
<1>5. issue[i].pc # "checked" /\ InErp(i)' => InErp(i)
  BY <1>1 DEF IssueStep, IssueCreate, IssueMark, IssueSubmit, IssueCleanup,
              InErp, IssuePhase, Marked, DeliveryNote
<1> QED
  BY <1>3, <1>4, <1>5

LEMMA SourceInvStep ==
    ASSUME DirectRead, ~ IssueOverlap, SourceInv, [Next]_vars
    PROVE  SourceInv'
<1> DEFINE Sources == OneIssuing /\ CheckIsFresh /\ OneNotePerSource
<1>1. IInv /\ IInv' /\ issue \in [Issues -> IssueRequest]
  BY NextInv DEF SourceInv, IInv, TypeOK
<1>2. ASSUME NEW i \in Issues, IssueCheck(i) PROVE Sources'
  <2>1. PICK c \in Customers, k \in Keys \cup {NoKey}, x \in Sent :
          issue' = [issue EXCEPT ![i] =
                      [pc |-> IF SourceTaken(c, k) THEN "duplicate" ELSE "checked",
                       cust |-> c, key |-> k, qty |-> x]]
    BY <1>2 DEF IssueCheck
  <2>2. /\ note' = note
        /\ \A j \in Issues \ {i} : issue'[j] = issue[j]
        /\ \A j \in Issues : ~ Issuing(j)
        /\ ~ InErp(i)
    BY <1>1, <1>2, <2>1
    DEF IssueCheck, IInv, IssuePhases, IssuePhase, InErp
  <2>3. OneIssuing'
    BY <2>2 DEF OneIssuing, Issuing
  <2>4. CheckIsFresh'
    BY <1>1, <2>1, <2>2
    DEF CheckIsFresh, SourceTaken, InErp, Issuing, IssueEnded
  <2>5. OneNotePerSource'
    BY <2>2 DEF SourceInv, OneNotePerSource, InErp
  <2> QED
    BY <2>3, <2>4, <2>5
<1>3. ASSUME NEW i \in Issues, IssueAbort(i) PROVE Sources'
  BY <1>1, <1>3
  DEF IssueAbort, GoIssue, SourceInv, OneIssuing, CheckIsFresh, OneNotePerSource,
      Issuing, IssueEnded, InErp, IssueRequest
<1>4. ASSUME NEW i \in Issues, IssueStep(i) PROVE Sources'
  <2>1. /\ \A j \in Issues : issue'[j].key = issue[j].key
        /\ \A j \in Issues \ {i} : issue'[j] = issue[j]
        /\ \A j \in Issues \ {i} : InErp(j)' <=> InErp(j)
        /\ Issuing(i)
        /\ InErp(i)' /\ ~ InErp(i) => issue[i].pc = "checked"
        /\ issue'[i].pc # "checked"
    BY <1>1, <1>4, IssueStepSource, IssueStepFrame
  <2>2. \A j \in Issues : Issuing(j) => j = i
    BY <2>1 DEF SourceInv, OneIssuing
  <2>3. OneIssuing' /\ CheckIsFresh'
    BY <2>1, <2>2 DEF OneIssuing, CheckIsFresh, Issuing, IssueEnded
  <2>4. OneNotePerSource'
    BY <2>1 DEF SourceInv, CheckIsFresh, OneNotePerSource
  <2> QED
    BY <2>3, <2>4
<1>5. ASSUME UNCHANGED <<issue, note>> PROVE Sources'
  BY <1>5
  DEF SourceInv, OneIssuing, CheckIsFresh, OneNotePerSource, Issuing, InErp
<1>6. ASSUME NEW q \in Responses, RespondStep(q) PROVE Sources'
  <2>1. issue' = issue /\ \A n \in Issues : note'[n].doc = note[n].doc
    BY <1>1, <1>6, RespondStepFrame, AnswerFrame
  <2> QED
    BY <2>1
    DEF SourceInv, OneIssuing, CheckIsFresh, OneNotePerSource, Issuing, InErp
<1>7. ASSUME Crash PROVE Sources'
  <2>1. /\ note' = note
        /\ \A i \in Issues : /\ issue'[i].key = issue[i].key
                             /\ issue'[i].pc \in {issue[i].pc, "failed"}
    BY <1>1, <1>7 DEF Crash, IssueRequest
  <2> QED
    BY <2>1
    DEF SourceInv, OneIssuing, CheckIsFresh, OneNotePerSource, Issuing, IssueEnded,
        InErp
<1>8. \/ \E i \in Issues : IssueCheck(i) \/ IssueAbort(i) \/ IssueStep(i)
      \/ \E q \in Responses : RespondStep(q)
      \/ Crash
      \/ UNCHANGED <<issue, note>>
  BY DEF Next, vars, RespondRead, RespondRefuse
<1> QED
  BY <1>1, <1>2, <1>3, <1>4, <1>5, <1>6, <1>7, <1>8 DEF SourceInv

\* When issue requests come one at a time and the check sees every note, no
\* source is issued twice, whatever fails and whenever the server crashes.
THEOREM SourcesAreIssuedOnce ==
    ASSUME DirectRead, ~ IssueOverlap
    PROVE  Spec => []OneNotePerSource
<1>1. Init => SourceInv
  BY InitInv
  DEF Init, SourceInv, OneIssuing, CheckIsFresh, OneNotePerSource, Issuing,
      IssueEnded, InErp
<1>2. SourceInv /\ [Next]_vars => SourceInv'
  BY SourceInvStep
<1>3. SourceInv => OneNotePerSource
  BY DEF SourceInv
<1> QED
  BY <1>1, <1>2, <1>3, PTL DEF Spec

-----------------------------------------------------------------------------
(* Answers, when the responses to one note do not overlap and none fails *)

\* Issue requests may overlap and fail all the same.
Quietly == ~ ReplyOverlap /\ ReplyFaults = 0 /\ MaxCrashes = 0

\* Only a confirmation takes nothing back, and a rejection takes back all.
PlanFits(d, sent) ==
    /\ d.cstate = "confirmed" <=> d.returned = 0
    /\ d.cstate = "confirmed" => d.accepted = sent
    /\ d.cstate = "rejected" => d.returned = sent

\* A response finds its note as it read it until it writes its answer, and an
\* answer that took something back stays the answer.
ReplyPhase(q) ==
    /\ resp[q].pc # "failed"
    /\ ret[q].doc # "none" \/ resp[q].pc \in {"decided", "inserted"}
          => resp[q].plan.returned > 0
    /\ ret[q].doc # "none" => ret[q].qty = Goal(q)
    /\ Decided(q) => PlanFits(resp[q].plan, issue[resp[q].note].qty)
    /\ Responding(q) =>
          /\ note[resp[q].note].cstate \in {"pending", "confirmed"}
          /\ resp[q].plan.returned = 0 => note[resp[q].note].cstate = "pending"
    /\ resp[q].pc = "answered" =>
          /\ note[resp[q].note].cstate # "pending"
          /\ resp[q].plan.returned > 0 =>
                note[resp[q].note].cstate = resp[q].plan.cstate

\* Of two responses to one note one is over, and one took nothing back.
InTurn(p, q) ==
    p # q /\ Decided(p) /\ Decided(q) /\ resp[p].note = resp[q].note =>
        /\ ~ (Responding(p) /\ Responding(q))
        /\ resp[p].plan.returned = 0 \/ resp[q].plan.returned = 0

\* The remarks are still as the response read them when it skips writing them,
\* and those of a decision that took something back stay.
Remarked(q) ==
    /\ resp[q].pc \in {"decided", "inserted", "settled"} /\ resp[q].same
          => note[resp[q].note].remarks = resp[q].plan
    /\ resp[q].pc \in {"noted", "answered"} /\ resp[q].plan.returned > 0
          => note[resp[q].note].remarks = resp[q].plan

\* Remarks are those of a response that has come so far.
Quoted(n) ==
    \/ note[n].remarks = NoDecision
    \/ \E q \in Responses : /\ resp[q].note = n
                            /\ resp[q].pc \in {"noted", "answered"}
                            /\ resp[q].plan = note[n].remarks

ReturnsOf(n) == {q \in Responses : resp[q].note = n /\ ret[q].doc = "submitted"}

\* Nothing has gone back of a note, or all that one of its responses meant to.
Booked(n) ==
    \/ ReturnsOf(n) = {} /\ returnedQty[n] = 0
    \/ \E q \in ReturnsOf(n) : returnedQty[n] = Goal(q)

\* What a note delivers is what was asked for, and it is pending when it is
\* submitted.
Delivers(i) ==
    /\ issue[i].pc \in {"checked", "drafted", "marked", "undoing"}
         \/ note[i].doc # "none"
          => issue[i].qty \in Sent /\ issue[i].cust \in Customers
    /\ issue[i].pc = "marked" => note[i].cstate = "pending"

Replying ==
    /\ \A q \in Responses : ReplyPhase(q)
    /\ \A p, q \in Responses : InTurn(p, q)
    /\ \A q \in Responses : Remarked(q)
    /\ \A i \in Issues : Delivers(i) /\ Quoted(i) /\ Booked(i)

LEMMA AnswersFit ==
    ASSUME IInv, NEW n \in Issues, NEW d \in Answers(n)
    PROVE  /\ PlanFits(d, issue[n].qty)
           /\ note[n].cstate \in {"pending", "confirmed"}
           /\ d.returned = 0 => note[n].cstate = "pending"
<1> DEFINE sent == issue[n].qty
<1>1. PICK r \in Request(n) : d \in Decisions(n, r)
  BY DEF Answers
<1>2. /\ d \in Decide(Status(n), sent, r)
      /\ Status(n) \in {"pending", "accepted"}
  BY <1>1 DEF Decisions, Decide, AcceptAll, RejectAll, AcceptPartial, Claim
<1>3. /\ note[n].doc = "submitted"
      /\ note[n] \in DeliveryNote /\ note[n].cstate # "none"
      /\ sent \in Nat /\ sent > 0
  BY AnswersAreSound DEF IInv, TypeOK, IssueRequest, IssuePhases, IssuePhase
<1>4. /\ Status(n) = "pending" => note[n].cstate = "pending"
      /\ Status(n) = "accepted" => note[n].cstate = "confirmed"
  BY <1>3
  DEF Status, AnswerLabel, DeliveryNote, CustomerStates, IInv, IssuePhases,
      IssuePhase
<1>5. r.accepted \in Nat /\ r.returned \in Nat /\ Tol \in Nat
  BY <1>3, ConstantsAssumption DEF Request
<1>6. PlanFits(d, sent) /\ (d.returned = 0 => Status(n) = "pending")
  <2>1. CASE d \in AcceptAll(Status(n), sent, r)
    BY <2>1 DEF AcceptAll, PlanFits
  <2>2. CASE d \in RejectAll(Status(n), sent, r)
    BY <1>3, <2>2 DEF RejectAll, PlanFits
  <2>3. CASE d \in AcceptPartial(Status(n), sent, r)
    BY <1>3, <1>5, <2>3 DEF AcceptPartial, SplitsDelivery, ReturnedPart, PlanFits
  <2>4. CASE d \in Claim(Status(n), sent, r)
    BY <1>3, <1>5, <2>4 DEF Claim, Claimed, PlanFits
  <2> QED
    BY <1>2, <2>1, <2>2, <2>3, <2>4 DEF Decide
<1> QED
  BY <1>2, <1>4, <1>6

LEMMA IssueStepReply ==
    ASSUME IInv, Replying, NEW i \in Issues,
           IssueCheck(i) \/ IssueAbort(i) \/ IssueStep(i)
    PROVE  Replying'
<1>1. /\ UNCHANGED <<resp, ret, returnedQty>>
      /\ \A j \in Issues \ {i} : note'[j] = note[j] /\ issue'[j] = issue[j]
      /\ \A n \in Issues : note[n].doc = "submitted" =>
            note'[n] = note[n] /\ issue'[n].qty = issue[n].qty
  BY IssueStepFrame
<1>2. ASSUME NEW q \in Responses PROVE ReplyPhase(q)'
  <2>1. ReplyPhase(q) /\ ResponsePhase(q)
    BY DEF Replying, IInv, ResponsePhases
  <2>2. CASE Decided(q)
    <3>1. /\ note'[resp[q].note] = note[resp[q].note]
          /\ issue'[resp[q].note].qty = issue[resp[q].note].qty
      BY <1>1, <2>1, <2>2 DEF ResponsePhase
    <3>2. Goal(q)' = Goal(q)
      BY <1>1, <3>1 DEF Goal
    <3> QED
      BY <1>1, <2>1, <3>1, <3>2 DEF ReplyPhase, Decided, Responding
  <2>3. CASE ~ Decided(q)
    <3>1. ret[q].doc = "none"
      BY <2>1, <2>3 DEF ResponsePhase
    <3> QED
      BY <1>1, <2>1, <2>3, <3>1 DEF ReplyPhase, Decided, Responding, RespEnded
  <2> QED
    BY <2>2, <2>3
<1>3. \A p, q \in Responses : InTurn(p, q)'
  BY <1>1 DEF Replying, InTurn, Decided, Responding
<1>4. ASSUME NEW j \in Issues, j # i PROVE Delivers(j)'
  BY <1>1, <1>4 DEF Replying, Delivers
<1>6. ASSUME NEW q \in Responses PROVE Remarked(q)'
  <2>1. Decided(q) => note'[resp[q].note] = note[resp[q].note]
    BY <1>1 DEF IInv, ResponsePhases, ResponsePhase
  <2>2. Remarked(q)
    BY DEF Replying
  <2> QED
    BY <1>1, <2>1, <2>2 DEF Remarked, Decided
<1>7. ASSUME NEW j \in Issues PROVE Quoted(j)'
  <2>1. note'[j].remarks = note[j].remarks
    BY <1>1, IssueStepFrame
  <2> QED
    BY <1>1, <2>1 DEF Replying, Quoted
<1>5. Delivers(i)'
  <2>1. /\ issue \in [Issues -> IssueRequest] /\ issue[i] \in IssueRequest
        /\ note \in [Issues -> DeliveryNote] /\ note[i] \in DeliveryNote
        /\ IssuePhase(i) /\ Delivers(i)
    BY DEF IInv, TypeOK, IssuePhases, Replying
  <2>2. ASSUME NEW pc, GoIssue(i, pc)
        PROVE  /\ issue'[i].pc = pc /\ issue'[i].qty = issue[i].qty
               /\ issue'[i].cust = issue[i].cust
    BY <2>1, <2>2 DEF GoIssue, IssueRequest
  <2>3. CASE IssueCheck(i)
    BY <2>1, <2>3 DEF IssueCheck, Delivers
  <2>4. CASE IssueAbort(i)
    BY <2>1, <2>2, <2>4 DEF IssueAbort, Delivers
  <2>5. CASE IssueCreate(i)
    <3>1. /\ issue[i].qty \in Sent /\ issue[i].cust \in Customers
          /\ issue'[i].pc # "marked"
      BY <2>1, <2>2, <2>5 DEF IssueCreate, Delivers
    <3> QED
      BY <2>2, <2>5, <3>1 DEF IssueCreate, Delivers
  <2>6. CASE IssueMark(i)
    <3>1. issue[i].qty \in Sent /\ issue[i].cust \in Customers
      BY <2>1, <2>6 DEF IssueMark, Delivers
    <3>2. issue'[i].pc = "marked" => note'[i].cstate = "pending"
      BY <2>1, <2>2, <2>6 DEF IssueMark, Marked, DeliveryNote
    <3> QED
      BY <2>2, <2>6, <3>1, <3>2 DEF IssueMark, Delivers
  <2>7. CASE IssueSubmit(i)
    <3>1. /\ issue[i].qty \in Sent /\ issue[i].cust \in Customers
          /\ issue'[i].pc # "marked"
      BY <2>1, <2>2, <2>7 DEF IssueSubmit, Delivers
    <3> QED
      BY <2>2, <2>7, <3>1 DEF IssueSubmit, Delivers
  <2>8. CASE IssueCleanup(i)
    <3>1. /\ issue[i].qty \in Sent /\ issue[i].cust \in Customers
          /\ issue'[i].pc # "marked"
      BY <2>1, <2>2, <2>8 DEF IssueCleanup, Delivers
    <3> QED
      BY <2>2, <2>8, <3>1 DEF IssueCleanup, Delivers
  <2> QED
    BY <2>3, <2>4, <2>5, <2>6, <2>7, <2>8 DEF IssueStep
<1>8. ASSUME NEW j \in Issues PROVE Booked(j)'
  <2>1. ReturnsOf(j)' = ReturnsOf(j)
    BY <1>1 DEF ReturnsOf
  <2>2. ASSUME NEW q \in ReturnsOf(j) PROVE Goal(q)' = Goal(q)
    <3>1. q \in Responses /\ note[resp[q].note].doc = "submitted"
            /\ resp[q].note \in Issues
      BY <2>2 DEF ReturnsOf, IInv, ResponsePhases, ResponsePhase
    <3> QED
      BY <1>1, <3>1 DEF Goal
  <2>3. Booked(j)
    BY DEF Replying
  <2> QED
    BY <1>1, <2>1, <2>2, <2>3 DEF Booked
<1> QED
  BY <1>2, <1>3, <1>4, <1>5, <1>6, <1>7, <1>8 DEF Replying

\* The calls of a response when none of them fails, one after the other.
InsertsReturn(q) ==
    /\ resp[q].pc = "decided" /\ GoResp(q, "inserted")
    /\ ret' = [ret EXCEPT ![q] = [doc |-> "draft", qty |-> ReturnQty(q)]]
    /\ note' = note /\ returnedQty' = returnedQty

SubmitsReturn(q) ==
    /\ resp[q].pc = "inserted" /\ GoResp(q, "settled")
    /\ ReturnBooked(q)
    /\ note' = note

WritesRemarks(q) ==
    /\ resp[q].pc = "settled" /\ GoResp(q, "noted")
    /\ \/ note' = Noted(q)
       \/ resp[q].same /\ note' = note
    /\ ret' = ret /\ returnedQty' = returnedQty

WritesState(q) ==
    /\ resp[q].pc = "noted" /\ GoResp(q, "answered")
    /\ note' = Answered(q)
    /\ ret' = ret /\ returnedQty' = returnedQty

LEMMA NothingFails ==
    ASSUME Quietly, TypeOK PROVE ~ Fault("reply") /\ ~ Crash
BY DEF Quietly, TypeOK, Fault, Crash

LEMMA QuietResponse ==
    ASSUME Quietly, IInv, NEW q \in Responses, RespondStep(q)
    PROVE  /\ issue' = issue
           /\ InsertsReturn(q) \/ SubmitsReturn(q)
                \/ WritesRemarks(q) \/ WritesState(q)
<1>1. ~ Fault("reply")
  BY NothingFails DEF IInv
<1>2. issue' = issue
  BY RespondStepFrame
<1>3. CASE RespondInsertReturn(q)
  BY <1>1, <1>3 DEF RespondInsertReturn, InsertsReturn
<1>4. CASE RespondSubmitReturn(q)
  BY <1>1, <1>4 DEF RespondSubmitReturn, SubmitsReturn
<1>5. CASE RespondRemarks(q)
  BY <1>1, <1>5 DEF RespondRemarks, WritesRemarks
<1>6. CASE RespondSkipRemarks(q)
  <2>1. /\ resp[q].pc = "settled" /\ GoResp(q, "noted")
        /\ note' = note /\ ret' = ret /\ returnedQty' = returnedQty
    BY <1>6 DEF RespondSkipRemarks
  <2>2. resp[q].same
    BY <1>6, Zenon DEF RespondSkipRemarks
  <2>3. WritesRemarks(q)
    BY <2>1, <2>2, Zenon DEF WritesRemarks
  <2> QED
    BY <1>2, <2>3
<1>7. CASE RespondState(q)
  BY <1>1, <1>7 DEF RespondState, WritesState
<1> QED
  BY <1>2, <1>3, <1>4, <1>5, <1>6, <1>7 DEF RespondStep

\* What each of them does to the response, its return note and its note.
LEMMA QuietFrame ==
    ASSUME Quietly, IInv, NEW q \in Responses, RespondStep(q)
    PROVE  /\ \/ resp[q].pc = "decided" /\ resp'[q].pc = "inserted"
              \/ resp[q].pc = "inserted" /\ resp'[q].pc = "settled"
              \/ resp[q].pc = "settled" /\ resp'[q].pc = "noted"
              \/ resp[q].pc = "noted" /\ resp'[q].pc = "answered"
           /\ resp[q].pc = "noted" =>
                note'[resp[q].note].cstate = resp[q].plan.cstate
           /\ resp[q].pc # "noted" =>
                \A n \in Issues : /\ note'[n].cstate = note[n].cstate
                                  /\ note'[n].flow = note[n].flow
           /\ resp[q].pc \notin {"decided", "inserted"} => ret' = ret
           /\ resp'[q].same = resp[q].same
           /\ resp[q].pc # "settled" =>
                \A n \in Issues : note'[n].remarks = note[n].remarks
           /\ resp[q].pc = "settled" =>
                \/ note'[resp[q].note].remarks = resp[q].plan
                \/ resp[q].same /\ note' = note
<1>1. /\ resp \in [Responses -> Response] /\ resp[q] \in Response
      /\ note \in [Issues -> DeliveryNote]
      /\ resp[q].note \in Issues
  BY RespondStepFrame DEF IInv, TypeOK, ResponsePhases, ResponsePhase
<1>2. ASSUME NEW pc, GoResp(q, pc)
      PROVE  resp'[q].pc = pc /\ resp'[q].same = resp[q].same
  BY <1>1, <1>2 DEF GoResp, Response
<1>3. CASE InsertsReturn(q)
  BY <1>2, <1>3 DEF InsertsReturn
<1>4. CASE SubmitsReturn(q)
  BY <1>2, <1>4 DEF SubmitsReturn
<1>5. CASE WritesRemarks(q)
  <2>1. \A n \in Issues : /\ Noted(q)[n].cstate = note[n].cstate
                          /\ Noted(q)[n].flow = note[n].flow
    BY <1>1 DEF Noted, DeliveryNote
  <2>2. Noted(q)[resp[q].note].remarks = resp[q].plan
    BY <1>1 DEF Noted, DeliveryNote
  <2> QED
    BY <1>2, <1>5, <2>1, <2>2 DEF WritesRemarks
<1>6. CASE WritesState(q)
  <2>1. /\ Answered(q)[resp[q].note].cstate = resp[q].plan.cstate
        /\ \A n \in Issues : Answered(q)[n].remarks = note[n].remarks
    BY <1>1 DEF Answered, DeliveryNote
  <2> QED
    BY <1>2, <1>6, <2>1 DEF WritesState
<1> QED
  BY <1>3, <1>4, <1>5, <1>6, QuietResponse

\* And what they do to the return note and the booked quantity.
LEMMA QuietReturn ==
    ASSUME Quietly, IInv, NEW q \in Responses, RespondStep(q)
    PROVE  /\ resp[q].pc = "decided" =>
                /\ ret'[q].doc = "draft" /\ ret'[q].qty = ReturnQty(q)
                /\ returnedQty' = returnedQty
           /\ resp[q].pc = "inserted" =>
                /\ ret'[q].doc = "submitted" /\ ret'[q].qty = ret[q].qty
                /\ returnedQty'[resp[q].note]
                     = returnedQty[resp[q].note] + ret[q].qty
           /\ resp[q].pc \notin {"decided", "inserted"} =>
                ret' = ret /\ returnedQty' = returnedQty
<1>1. /\ ret \in [Responses -> ReturnNote] /\ ret[q] \in ReturnNote
      /\ returnedQty \in [Issues -> Nat] /\ resp[q].note \in Issues
  BY RespondStepFrame DEF IInv, TypeOK, ResponsePhases, ResponsePhase
<1>2. CASE InsertsReturn(q)
  <2>1. ret'[q] = [doc |-> "draft", qty |-> ReturnQty(q)]
    BY <1>1, <1>2 DEF InsertsReturn
  <2> QED
    BY <1>2, <2>1 DEF InsertsReturn
<1>3. CASE SubmitsReturn(q)
  <2>1. ret'[q] = [ret[q] EXCEPT !.doc = "submitted"]
    BY <1>1, <1>3 DEF SubmitsReturn, ReturnBooked
  <2>2. returnedQty'[resp[q].note] = returnedQty[resp[q].note] + ret[q].qty
    BY <1>1, <1>3 DEF SubmitsReturn, ReturnBooked
  <2>3. ret'[q].doc = "submitted" /\ ret'[q].qty = ret[q].qty
    BY <1>1, <2>1 DEF ReturnNote
  <2> QED
    BY <1>3, <2>2, <2>3 DEF SubmitsReturn
<1>4. CASE WritesRemarks(q)
  BY <1>4 DEF WritesRemarks
<1>5. CASE WritesState(q)
  BY <1>5 DEF WritesState
<1> QED
  BY <1>2, <1>3, <1>4, <1>5, QuietResponse

\* A submitted return was decided on, and took back what its response meant to.
LEMMA ReturnOf ==
    ASSUME IInv, Replying, NEW n \in Issues, NEW q \in ReturnsOf(n)
    PROVE  /\ q \in Responses /\ Decided(q) /\ resp[q].note = n
           /\ resp[q].plan.returned > 0
           /\ note[n].doc = "submitted"
BY DEF ReturnsOf, Replying, ReplyPhase, IInv, ResponsePhases, ResponsePhase

\* A response at work that takes something back is the first to do so.
LEMMA FirstReturn ==
    ASSUME IInv, Replying, NEW q \in Responses, resp[q].pc \in {"decided", "inserted"}
    PROVE  /\ ReturnsOf(resp[q].note) = {}
           /\ returnedQty[resp[q].note] = 0
           /\ ReturnQty(q) = Goal(q)
<1>1. /\ Decided(q) /\ resp[q].plan.returned > 0 /\ ret[q].doc # "submitted"
      /\ resp[q].note \in Issues
  BY DEF Replying, ReplyPhase, IInv, ResponsePhases, ResponsePhase, Decided
<1>2. ASSUME NEW p \in ReturnsOf(resp[q].note) PROVE FALSE
  <2>1. p # q
    BY <1>1, <1>2 DEF ReturnsOf
  <2>2. /\ p \in Responses /\ Decided(p) /\ resp[p].note = resp[q].note
        /\ resp[p].plan.returned > 0
    BY <1>1, <1>2, ReturnOf
  <2> QED
    BY <1>1, <2>1, <2>2 DEF Replying, InTurn
<1>3. returnedQty[resp[q].note] = 0
  BY <1>1, <1>2 DEF Replying, Booked
<1>4. ReturnQty(q) = Goal(q)
  <2>1. /\ issue[resp[q].note].qty \in Nat /\ resp[q].plan.returned \in Nat
        /\ returnedQty[resp[q].note] \in Nat
    BY <1>1 DEF IInv, TypeOK, IssueRequest, Response, Decision
  <2> QED
    BY <1>3, <2>1, ReturnReachesGoal
<1> QED
  BY <1>2, <1>3, <1>4

LEMMA RespondStepReply ==
    ASSUME Quietly, IInv, Replying, NEW q \in Responses, RespondStep(q)
    PROVE  Replying'
<1> DEFINE n == resp[q].note
<1>1. /\ issue' = issue
      /\ Decided(q) /\ Decided(q)' /\ Responding(q)
      /\ resp'[q].note = n /\ resp'[q].plan = resp[q].plan
      /\ \A p \in Responses \ {q} : resp'[p] = resp[p] /\ ret'[p] = ret[p]
      /\ n \in Issues /\ SoundDecision(resp[q].plan, issue[n].qty)
  BY RespondStepFrame, QuietFrame
  DEF IInv, ResponsePhases, ResponsePhase, Responding, RespEnded
<1>2. /\ \A m \in Issues : m # n => note'[m] = note[m]
      /\ \A m \in Issues : note'[m].doc = note[m].doc
  BY RespondStepFrame, AnswerFrame
<1>3. ReplyPhase(q) /\ ResponsePhase(q)
  BY DEF Replying, IInv, ResponsePhases
<1>4. resp'[q].pc # "answered" => note'[n].cstate = note[n].cstate
  BY <1>1, QuietFrame
<1>0. \A p \in Responses : Goal(p)' = Goal(p)
  <2>1. \A p \in Responses : resp'[p].note = resp[p].note /\ resp'[p].plan = resp[p].plan
    BY <1>1
  <2> QED
    BY <1>1, <2>1 DEF Goal
<1>5. ReplyPhase(q)'
  <2>1. resp'[q].pc \in {"inserted", "settled", "noted", "answered"}
    BY QuietFrame
  <2>2. ret'[q].doc # "none" \/ resp'[q].pc \in {"decided", "inserted"}
          => resp[q].plan.returned > 0
    BY <1>3, QuietFrame DEF ReplyPhase
  <2>3. PlanFits(resp[q].plan, issue[n].qty)
    BY <1>1, <1>3 DEF ReplyPhase
  <2>4. resp'[q].pc # "answered" =>
          /\ note'[n].cstate \in {"pending", "confirmed"}
          /\ resp[q].plan.returned = 0 => note'[n].cstate = "pending"
    BY <1>1, <1>3, <1>4 DEF ReplyPhase
  <2>5. resp'[q].pc = "answered" =>
          /\ note'[n].cstate # "pending"
          /\ note'[n].cstate = resp[q].plan.cstate
    BY <1>1, QuietFrame DEF SoundDecision
  <2>6. ret'[q].doc # "none" => ret'[q].qty = Goal(q)
    <3>1. CASE resp[q].pc = "decided"
      <4>1. ret'[q].qty = ReturnQty(q)
        BY <3>1, QuietReturn
      <4>2. ReturnQty(q) = Goal(q)
        BY <3>1, FirstReturn
      <4> QED
        BY <4>1, <4>2
    <3>2. CASE resp[q].pc = "inserted"
      <4>1. ret[q].doc = "draft" /\ ret[q].qty = Goal(q)
        BY <1>3, <3>2 DEF ReplyPhase, ResponsePhase
      <4>2. ret'[q].qty = ret[q].qty
        BY <3>2, QuietReturn
      <4> QED
        BY <4>1, <4>2
    <3>3. CASE resp[q].pc \notin {"decided", "inserted"}
      BY <1>3, <3>3, QuietReturn DEF ReplyPhase
    <3> QED
      BY <3>1, <3>2, <3>3
  <2> QED
    BY <1>0, <1>1, <2>1, <2>2, <2>3, <2>4, <2>5, <2>6
    DEF ReplyPhase, Responding, RespEnded
<1>6. ASSUME NEW p \in Responses, p # q PROVE ReplyPhase(p)'
  <2>1. ReplyPhase(p) /\ resp'[p] = resp[p] /\ ret'[p] = ret[p]
        /\ ResponsePhase(p)
    BY <1>1, <1>6 DEF Replying, IInv, ResponsePhases
  <2>2. CASE ~ Decided(p)
    BY <1>0, <2>1, <2>2 DEF ReplyPhase, Decided, Responding, RespEnded
  <2>3. CASE Decided(p) /\ resp[p].note # n
    BY <1>0, <1>1, <1>2, <2>1, <2>3 DEF ReplyPhase, ResponsePhase, Decided, Responding
  <2>4. CASE Decided(p) /\ resp[p].note = n
    <3>1. /\ ~ Responding(p)
          /\ resp[p].plan.returned = 0 \/ resp[q].plan.returned = 0
      BY <1>1, <1>6, <2>4 DEF Replying, InTurn
    <3>2. resp[p].pc = "answered"
      BY <2>1, <2>4, <3>1 DEF ReplyPhase, Decided, Responding, RespEnded
    <3>3. note[n].cstate # "pending" /\ resp[q].plan.returned # 0
      BY <1>1, <1>3, <2>1, <2>4, <3>2 DEF ReplyPhase
    <3>4. note'[n].cstate # "pending"
      BY <1>1, <3>3, QuietFrame DEF SoundDecision
    <3>5. PlanFits(resp[p].plan, issue[n].qty) /\ resp[p].plan.returned = 0
      BY <2>1, <2>4, <3>1, <3>3 DEF ReplyPhase
    <3> QED
      BY <1>0, <1>1, <2>1, <2>4, <3>1, <3>2, <3>4, <3>5 DEF ReplyPhase, Responding
  <2> QED
    BY <2>2, <2>3, <2>4
<1>7. \A p, r \in Responses : InTurn(p, r)'
  <2>1. \A p \in Responses : /\ resp'[p].note = resp[p].note
                             /\ resp'[p].plan = resp[p].plan
                             /\ Decided(p)' => Decided(p)
                             /\ Responding(p)' => Responding(p)
    BY <1>1 DEF Decided, Responding
  <2> QED
    BY <2>1 DEF Replying, InTurn
<1>8. \A i \in Issues : Delivers(i)'
  <2>1. \A i \in Issues : issue[i].pc = "marked" => i # n
    BY <1>1, <1>3 DEF IInv, IssuePhases, IssuePhase, ResponsePhase
  <2> QED
    BY <1>1, <1>2, <2>1 DEF Replying, Delivers
<1>9. \A m \in Issues : m # n => note'[m].remarks = note[m].remarks
  BY <1>2
<1>10. Remarked(q)'
  <2>1. Remarked(q)
    BY DEF Replying
  <2> QED
    BY <1>1, <2>1, QuietFrame DEF Remarked
<1>11. ASSUME NEW p \in Responses, p # q PROVE Remarked(p)'
  <2>1. ReplyPhase(p) /\ Remarked(p) /\ resp'[p] = resp[p]
    BY <1>1, <1>11 DEF Replying
  <2>2. CASE ~ Decided(p)
    BY <2>1, <2>2 DEF Remarked, Decided
  <2>3. CASE Decided(p) /\ resp[p].note # n
    BY <1>9, <2>1, <2>3 DEF IInv, ResponsePhases, ResponsePhase, Remarked
  <2>4. CASE Decided(p) /\ resp[p].note = n
    <3>1. /\ ~ Responding(p)
          /\ resp[p].plan.returned = 0 \/ resp[q].plan.returned = 0
      BY <1>1, <1>11, <2>4 DEF Replying, InTurn
    <3>2. resp[p].pc = "answered"
      BY <2>1, <2>4, <3>1 DEF ReplyPhase, Decided, Responding, RespEnded
    <3>3. resp[p].plan.returned = 0
      BY <1>1, <1>3, <2>1, <2>4, <3>1, <3>2 DEF ReplyPhase
    <3> QED
      BY <2>1, <3>2, <3>3 DEF Remarked
  <2> QED
    BY <2>2, <2>3, <2>4
<1>12. ASSUME NEW m \in Issues PROVE Quoted(m)'
  <2>1. Quoted(m)
    BY DEF Replying
  <2>2. \A p \in Responses : resp[p].pc \in {"noted", "answered"} =>
            /\ resp'[p].pc \in {"noted", "answered"}
            /\ resp'[p].note = resp[p].note /\ resp'[p].plan = resp[p].plan
    BY <1>1, QuietFrame
  <2>3. CASE note'[m].remarks = note[m].remarks
    BY <2>1, <2>2, <2>3 DEF Quoted
  <2>4. CASE note'[m].remarks # note[m].remarks
    <3>1. m = n /\ resp'[q].pc = "noted" /\ note'[n].remarks = resp[q].plan
      BY <1>9, <2>4, QuietFrame
    <3> QED
      BY <1>1, <3>1 DEF Quoted
  <2> QED
    BY <2>3, <2>4
<1>13. ASSUME NEW m \in Issues PROVE Booked(m)'
  <2>1. Booked(m)
    BY DEF Replying
  <2>2. CASE resp[q].pc # "inserted" \/ m # n
    <3>1. ReturnsOf(m)' = ReturnsOf(m)
      <4>1. \A p \in Responses : /\ resp'[p].note = resp[p].note
                                 /\ p # q => ret'[p] = ret[p]
        BY <1>1
      <4>2. m = n => (ret'[q].doc = "submitted" <=> ret[q].doc = "submitted")
        <5>1. CASE resp[q].pc = "decided"
          BY <1>3, <5>1, QuietReturn DEF ResponsePhase
        <5>2. CASE resp[q].pc \notin {"decided", "inserted"}
          BY <5>2, QuietReturn
        <5> QED
          BY <2>2, <5>1, <5>2
      <4> QED
        BY <4>1, <4>2 DEF ReturnsOf
    <3>2. returnedQty'[m] = returnedQty[m]
      <4>1. CASE m # n
        BY <4>1, RespondStepFrame
      <4>2. CASE resp[q].pc # "inserted"
        BY <4>2, QuietReturn
      <4> QED
        BY <2>2, <4>1, <4>2
    <3>3. \A p \in ReturnsOf(m) : Goal(p)' = Goal(p)
      BY <1>0 DEF ReturnsOf
    <3> QED
      BY <2>1, <3>1, <3>2, <3>3 DEF Booked
  <2>3. CASE resp[q].pc = "inserted" /\ m = n
    <3>1. ret[q].doc = "draft" /\ ret[q].qty = Goal(q)
      BY <1>3, <2>3 DEF ReplyPhase, ResponsePhase
    <3>2. Goal(q) \in Nat
      <4>1. issue[n].qty \in Nat /\ resp[q].plan.returned \in Nat
        BY <1>1 DEF IInv, TypeOK, IssueRequest, Response, Decision
      <4> QED
        BY <4>1, GoalIsNear
    <3>3. returnedQty'[n] = Goal(q)
      <4>1. returnedQty[n] = 0
        BY <2>3, FirstReturn
      <4>2. returnedQty'[n] = returnedQty[n] + ret[q].qty
        BY <2>3, QuietReturn
      <4> QED
        BY <3>1, <3>2, <4>1, <4>2
    <3>4. q \in ReturnsOf(m)'
      <4>1. ret'[q].doc = "submitted"
        BY <2>3, QuietReturn
      <4> QED
        BY <1>1, <2>3, <4>1 DEF ReturnsOf
    <3>5. returnedQty'[m] = Goal(q)'
      BY <1>0, <2>3, <3>3
    <3> QED
      BY <3>4, <3>5 DEF Booked
  <2> QED
    BY <2>2, <2>3
<1> QED
  BY <1>5, <1>6, <1>7, <1>8, <1>10, <1>11, <1>12, <1>13 DEF Replying

LEMMA ReadReply ==
    ASSUME Quietly, IInv, Replying, NEW q \in Responses, NEW n \in Issues,
           RespondRead(q, n) \/ RespondRefuse(q, n)
    PROVE  Replying'
<1>1. /\ UNCHANGED <<issue, note, ret, returnedQty>>
      /\ resp \in [Responses -> Response] /\ resp[q] \in Response
      /\ resp[q].pc = "idle" /\ ret[q].doc = "none"
  BY DEF RespondRead, RespondRefuse, IInv, TypeOK, ResponsePhases, ResponsePhase,
         Decided
<1>2. \A i \in Issues : Delivers(i)'
  BY <1>1 DEF Replying, Delivers
<1>3. /\ \A p \in Responses \ {q} : resp'[p] = resp[p]
      /\ \A p \in Responses : ret[p].doc # "none" => Goal(p)' = Goal(p)
  <2>1. \A p \in Responses \ {q} : resp'[p] = resp[p]
    BY <1>1 DEF RespondRead, RespondRefuse, GoResp
  <2> QED
    BY <1>1, <2>1 DEF Goal
<1>4. ASSUME NEW m \in Issues PROVE Booked(m)'
  <2>1. ReturnsOf(m)' = ReturnsOf(m)
    BY <1>1, <1>3 DEF ReturnsOf
  <2>2. \A p \in ReturnsOf(m) : Goal(p)' = Goal(p)
    BY <1>3 DEF ReturnsOf
  <2> QED
    BY <1>1, <2>1, <2>2 DEF Replying, Booked
<1>5. CASE RespondRefuse(q, n)
  <2>1. /\ resp'[q].pc = "refused"
        /\ \A p \in Responses \ {q} : resp'[p] = resp[p]
    BY <1>1, <1>5 DEF RespondRefuse, GoResp, Response
  <2>2. \A p \in Responses : ReplyPhase(p)'
    BY <1>1, <1>3, <2>1 DEF Replying, ReplyPhase, Decided, Responding, RespEnded
  <2>3. \A p, r \in Responses : InTurn(p, r)'
    BY <2>1 DEF Replying, InTurn, Decided, Responding
  <2>4. \A p \in Responses : Remarked(p)'
    BY <1>1, <2>1 DEF Replying, Remarked
  <2>5. \A m \in Issues : Quoted(m)'
    BY <1>1, <2>1 DEF Replying, Quoted
  <2> QED
    BY <1>2, <1>4, <2>2, <2>3, <2>4, <2>5 DEF Replying
<1>6. CASE RespondRead(q, n)
  <2>1. PICK d \in Answers(n) :
          resp' = [resp EXCEPT ![q] =
                     [pc |-> IF d.returned > 0 THEN "decided" ELSE "settled",
                      note |-> n, plan |-> d, same |-> d = note[n].remarks]]
    BY <1>6 DEF RespondRead
  <2>2. /\ PlanFits(d, issue[n].qty)
        /\ note[n].cstate \in {"pending", "confirmed"}
        /\ d.returned = 0 => note[n].cstate = "pending"
    BY AnswersFit
  <2>3. SoundDecision(d, issue[n].qty)
    BY AnswersAreSound DEF IInv
  <2>4. /\ resp'[q].pc = IF d.returned > 0 THEN "decided" ELSE "settled"
        /\ resp'[q].note = n /\ resp'[q].plan = d
        /\ resp'[q].same => note[n].remarks = d
        /\ \A p \in Responses \ {q} : resp'[p] = resp[p]
    BY <1>1, <2>1
  <2>5. ReplyPhase(q)'
    BY <1>1, <2>2, <2>4 DEF ReplyPhase, Decided, Responding, RespEnded
  <2>6. ASSUME NEW p \in Responses, p # q PROVE ReplyPhase(p)'
    BY <1>1, <1>3, <2>4, <2>6 DEF Replying, ReplyPhase, Decided, Responding
  <2>7. ASSUME NEW p \in Responses, p # q, Decided(p), resp[p].note = n
        PROVE  ~ Responding(p) /\ (resp[p].plan.returned = 0 \/ d.returned = 0)
    <3>1. ~ Responding(p)
      BY <1>6, <2>7 DEF RespondRead, Quietly
    <3>2. resp[p].pc = "answered" /\ ReplyPhase(p)
      BY <2>7, <3>1 DEF Replying, ReplyPhase, Decided, Responding, RespEnded
    <3>3. /\ note[n].cstate # "pending"
          /\ resp[p].plan.returned > 0 => note[n].cstate = resp[p].plan.cstate
      BY <2>7, <3>2 DEF ReplyPhase
    <3>4. /\ resp[p].plan.cstate = "confirmed" <=> resp[p].plan.returned = 0
          /\ resp[p].plan.returned \in Nat
      BY <2>7, <3>2 DEF ReplyPhase, PlanFits, IInv, TypeOK, Response, Decision
    <3> QED
      BY <2>2, <3>1, <3>3, <3>4
  <2>8. ASSUME NEW p \in Responses, NEW r \in Responses PROVE InTurn(p, r)'
    <3>1. CASE p # q /\ r # q
      BY <2>4, <3>1 DEF Replying, InTurn, Decided, Responding
    <3>2. CASE p = q
      BY <2>4, <2>7, <3>2 DEF InTurn, Decided, Responding
    <3>3. CASE r = q
      BY <2>4, <2>7, <3>3 DEF InTurn, Decided, Responding
    <3> QED
      BY <3>1, <3>2, <3>3
  <2>9. \A p \in Responses : Remarked(p)'
    BY <1>1, <2>4 DEF Replying, Remarked
  <2>10. \A m \in Issues : Quoted(m)'
    BY <1>1, <2>4 DEF Replying, Quoted
  <2> QED
    BY <1>2, <1>4, <2>5, <2>6, <2>8, <2>9, <2>10 DEF Replying
<1> QED
  BY <1>5, <1>6

LEMMA InitReply == Init => Replying
BY DEF Init, Replying, ReplyPhase, InTurn, Remarked, Quoted, Delivers, Decided,
       Responding, RespEnded, NoDecision, Booked, ReturnsOf

LEMMA NextReply ==
    ASSUME Quietly, IInv, Replying, [Next]_vars
    PROVE  Replying'
<1>1. ~ Crash
  BY NothingFails DEF IInv
<1>2. CASE UNCHANGED vars
  BY <1>2
  DEF vars, Replying, ReplyPhase, InTurn, Remarked, Quoted, Delivers, Decided,
      Responding, Goal, Booked, ReturnsOf
<1> QED
  BY <1>1, <1>2, IssueStepReply, RespondStepReply, ReadReply DEF Next

LEMMA ReplyInvariance ==
    ASSUME Quietly
    PROVE  Spec => [](IInv /\ Replying)
<1>1. Init => IInv /\ Replying
  BY InitInv, InitReply
<1>2. IInv /\ Replying /\ [Next]_vars => (IInv /\ Replying)'
  BY NextInv, NextReply
<1> QED
  BY <1>1, <1>2, PTL DEF Spec

\* When the responses to a note come one at a time and ERPNext answers every
\* call of theirs, a note that ends up confirmed has had nothing returned: a
\* claim that takes goods back also takes the confirmation away.
THEOREM ConfirmedKeepsEverything ==
    ASSUME ~ ReplyOverlap, ReplyFaults = 0, MaxCrashes = 0
    PROVE  Spec => []ConfirmedHasNoReturn
<1>1. Quietly
  BY DEF Quietly
<1>2. ASSUME IInv, Replying PROVE ConfirmedHasNoReturn
  <2>1. SUFFICES ASSUME NEW n \in Issues, Status(n) = "accepted",
                        NEW q \in Responses, resp[q].note = n, ~ Responding(q),
                        ret[q].doc # "none"
                 PROVE  FALSE
    BY DEF ConfirmedHasNoReturn
  <2>2. note[n].cstate = "confirmed"
    BY <2>1 DEF Status, AnswerLabel
  <2>3. ReplyPhase(q) /\ ResponsePhase(q)
    BY <1>2 DEF Replying, IInv, ResponsePhases
  <2>4. Decided(q) /\ resp[q].pc = "answered"
    BY <2>1, <2>3 DEF ReplyPhase, ResponsePhase, Decided, Responding, RespEnded
  <2>5. resp[q].plan.returned > 0 /\ PlanFits(resp[q].plan, issue[n].qty)
    BY <2>1, <2>3, <2>4 DEF ReplyPhase
  <2> QED
    BY <2>1, <2>2, <2>3, <2>4, <2>5 DEF ReplyPhase, PlanFits
<1> QED
  BY <1>1, <1>2, ReplyInvariance, PTL

-----------------------------------------------------------------------------
(* The ledger of deliveries *)

\* At most one return note is submitted for a delivery.
LEMMA OneReturn ==
    ASSUME IInv, Replying, NEW n \in Issues, NEW q \in ReturnsOf(n)
    PROVE  ReturnsOf(n) = {q}
<1>1. ASSUME NEW p \in ReturnsOf(n), p # q PROVE FALSE
  BY <1>1, ReturnOf DEF Replying, InTurn
<1> QED
  BY <1>1

\* What went back is a part of what was delivered, and a rejection takes it all.
LEMMA ReturnIsPart ==
    ASSUME IInv, Replying, NEW q \in Responses, Decided(q),
           resp[q].plan.returned > 0
    PROVE  /\ Goal(q) \in 1 .. issue[resp[q].note].qty
           /\ resp[q].plan.cstate = "rejected" =>
                Goal(q) = issue[resp[q].note].qty
<1> DEFINE n == resp[q].note
           d == resp[q].plan
<1>1. /\ n \in Issues /\ note[n].doc = "submitted"
      /\ SoundDecision(d, issue[n].qty) /\ PlanFits(d, issue[n].qty)
  BY DEF IInv, ResponsePhases, ResponsePhase, Replying, ReplyPhase
<1>2. /\ issue[n].qty \in Nat /\ issue[n].qty > 0
      /\ d.accepted \in Nat /\ d.returned \in Nat /\ Tol \in Nat
  BY <1>1, ConstantsAssumption
  DEF IInv, TypeOK, IssueRequest, IssuePhases, IssuePhase, SoundDecision, Decision
<1>3. (d.accepted + d.returned) - issue[n].qty \in -Tol .. Tol
  BY <1>1 DEF SoundDecision, Near
<1>4. CASE Near(d.returned, issue[n].qty)
  BY <1>2, <1>4 DEF Goal
<1>5. CASE ~ Near(d.returned, issue[n].qty)
  <2>1. Goal(q) = d.returned
    BY <1>5 DEF Goal
  <2>2. d.returned < issue[n].qty
    BY <1>2, <1>3, <1>5 DEF Near
  <2>3. d.cstate # "rejected"
    BY <1>1, <2>2, <1>2 DEF PlanFits
  <2> QED
    BY <1>2, <2>1, <2>2, <2>3
<1> QED
  BY <1>4, <1>5

\* What is booked once a return note is submitted.
LEMMA BookedReturn ==
    ASSUME IInv, Replying, NEW n \in Issues, NEW q \in ReturnsOf(n)
    PROVE  returnedQty[n] = Goal(q)
BY OneReturn DEF Replying, Booked

LEMMA EntryKept ==
    ASSUME NEW n \in Issues,
           Status(n)' = Status(n), issue'[n].qty = issue[n].qty,
           returnedQty'[n] = returnedQty[n]
    PROVE  LedgerEntry(n)' = LedgerEntry(n)
BY DEF LedgerEntry

\* The ledger's entry of a delivery that is not submitted is the empty one.
LEMMA DraftEntry ==
    /\ \A n \in Issues : note[n].doc # "submitted" =>
          LedgerEntry(n) = [status |-> "draft", delivered |-> 0, returned |-> 0]
    /\ \A n \in Issues : note'[n].doc # "submitted" =>
          LedgerEntry(n)' = [status |-> "draft", delivered |-> 0, returned |-> 0]
BY DEF LedgerEntry, Status

Entries == [n \in Issues |-> LedgerEntry(n)]

\* An issuing request delivers when it submits the note, and does nothing else.
LEMMA IssueLedger ==
    ASSUME IInv, Replying, NEW i \in Issues,
           IssueCheck(i) \/ IssueAbort(i) \/ IssueStep(i)
    PROVE  Ledger!Next \/ Entries' = Entries
<1>1. /\ UNCHANGED <<resp, ret, returnedQty>>
      /\ \A j \in Issues \ {i} : note'[j] = note[j] /\ issue'[j] = issue[j]
      /\ note[i].doc = "submitted" =>
            note'[i] = note[i] /\ issue'[i].qty = issue[i].qty
  BY IssueStepFrame
<1>2. ASSUME NEW n \in Issues, n # i \/ note[i].doc = "submitted"
      PROVE  LedgerEntry(n)' = LedgerEntry(n)
  <2>1. note'[n] = note[n] /\ issue'[n].qty = issue[n].qty
    BY <1>1, <1>2
  <2>2. Status(n)' = Status(n)
    BY <2>1 DEF Status, AnswerLabel
  <2> QED
    BY <1>1, <2>1, <2>2, EntryKept
<1>3. CASE note[i].doc = "submitted"
  BY <1>2, <1>3 DEF Entries
<1>4. CASE note[i].doc # "submitted" /\ note'[i].doc # "submitted"
  <2>1. LedgerEntry(i)' = LedgerEntry(i)
    BY <1>4, DraftEntry
  <2> QED
    BY <1>2, <2>1 DEF Entries
<1>5. CASE note[i].doc # "submitted" /\ note'[i].doc = "submitted"
  <2>1. /\ issue \in [Issues -> IssueRequest] /\ issue[i] \in IssueRequest
        /\ note \in [Issues -> DeliveryNote] /\ note[i] \in DeliveryNote
        /\ IssuePhase(i) /\ Delivers(i)
    BY DEF IInv, TypeOK, IssuePhases, Replying
  <2>2. IssueSubmit(i)
    BY <1>5, <2>1
    DEF IssueCheck, IssueAbort, IssueStep, IssueCreate, IssueMark, Marked,
        IssueCleanup, IssuePhase, DeliveryNote
  <2>3. /\ note'[i].flow = "submitted" /\ note'[i].cstate = "pending"
        /\ issue'[i].qty = issue[i].qty /\ issue[i].qty \in Sent
    <3>1. note'[i].flow = "submitted" /\ note'[i].cstate = "pending"
      BY <1>5, <2>1, <2>2
      DEF IssueSubmit, DeliveryNote, IssuePhase, Delivers
    <3>2. issue'[i].qty = issue[i].qty
      BY <2>1, <2>2 DEF IssueSubmit, GoIssue, IssueRequest
    <3>3. issue[i].qty \in Sent
      BY <2>1, <2>2 DEF IssueSubmit, Delivers
    <3> QED
      BY <3>1, <3>2, <3>3
  <2>4. returnedQty'[i] = 0
    <3>1. ReturnsOf(i) = {}
      BY <1>5, ReturnOf
    <3> QED
      BY <1>1, <3>1 DEF Replying, Booked
  <2>5. LedgerEntry(i)' = [status |-> "pending", delivered |-> issue[i].qty,
                           returned |-> 0]
    <3>1. Status(i)' = "pending"
      BY <1>5, <2>3 DEF Status, AnswerLabel
    <3> QED
      BY <2>3, <2>4, <3>1 DEF LedgerEntry
  <2>6. Entries[i].status = "draft"
    BY <1>5, DraftEntry DEF Entries
  <2>7. Entries' = [Entries EXCEPT ![i] = [status |-> "pending",
                                           delivered |-> issue[i].qty,
                                           returned |-> 0]]
    BY <1>2, <2>5 DEF Entries
  <2>8. Ledger!Deliver(i)
    BY <2>3, <2>6, <2>7 DEF Ledger!Deliver, Entries
  <2> QED
    BY <2>8 DEF Ledger!Next
<1> QED
  BY <1>3, <1>4, <1>5

\* A response takes goods back when it submits its return note, and settles the
\* delivery when it writes the state.
LEMMA ReplyLedger ==
    ASSUME Quietly, IInv, Replying, NEW q \in Responses, RespondStep(q),
           NEW n \in Issues, n = resp[q].note
    PROVE  Ledger!Next \/ Entries' = Entries
<1> DEFINE d == resp[q].plan
<1>1. /\ issue' = issue
      /\ Decided(q) /\ Responding(q)
      /\ \A p \in Responses : resp'[p].note = resp[p].note
      /\ \A p \in Responses \ {q} : ret'[p] = ret[p]
      /\ note[n].doc = "submitted"
      /\ note[n].flow = "submitted" /\ note[n].cstate \in {"pending", "confirmed"}
      /\ SoundDecision(d, issue[n].qty) /\ PlanFits(d, issue[n].qty)
      /\ d.returned = 0 => note[n].cstate = "pending"
  BY RespondStepFrame, QuietFrame
  DEF IInv, ResponsePhases, ResponsePhase, IssuePhases, IssuePhase, Replying,
      ReplyPhase, Responding, RespEnded
<1>2. /\ \A m \in Issues : m # n => note'[m] = note[m]
      /\ note'[n].doc = "submitted" /\ note'[n].flow = "submitted"
  BY <1>1, RespondStepFrame, AnswerFrame
<1>3. ReplyPhase(q) /\ ResponsePhase(q)
  BY DEF Replying, IInv, ResponsePhases
<1>4. ASSUME NEW m \in Issues, m # n PROVE LedgerEntry(m)' = LedgerEntry(m)
  <2>1. Status(m)' = Status(m)
    BY <1>2, <1>4 DEF Status, AnswerLabel
  <2>2. returnedQty'[m] = returnedQty[m]
    BY <1>4, RespondStepFrame
  <2> QED
    BY <1>1, <2>1, <2>2, EntryKept
<1>5. resp[q].pc # "noted" => Status(n)' = Status(n)
  BY <1>1, QuietFrame, RespondStepFrame, AnswerFrame DEF Status, AnswerLabel
<1>6. CASE resp[q].pc \in {"decided", "settled"}
  <2>1. returnedQty'[n] = returnedQty[n]
    BY <1>6, QuietReturn
  <2>2. LedgerEntry(n)' = LedgerEntry(n)
    BY <1>1, <1>5, <1>6, <2>1, EntryKept
  <2>3. \A m \in Issues : LedgerEntry(m)' = LedgerEntry(m)
    BY <1>4, <2>2
  <2> QED
    BY <2>3 DEF Entries
<1>7. CASE resp[q].pc = "inserted"
  <2>1. d.returned > 0 /\ ret[q].qty = Goal(q)
    BY <1>3, <1>7 DEF ReplyPhase, ResponsePhase
  <2>2. Goal(q) \in 1 .. issue[n].qty
    BY <1>1, <2>1, ReturnIsPart
  <2>3. returnedQty[n] = 0
    BY <1>1, <1>7, FirstReturn
  <2>4. returnedQty'[n] = returnedQty[n] + ret[q].qty
    BY <1>7, QuietReturn
  <2>5. Goal(q) \in Nat
    <3>1. issue[n].qty \in Nat
      BY DEF IInv, TypeOK, IssueRequest
    <3> QED
      BY <2>2, <3>1
  <2>6. returnedQty'[n] = Goal(q)
    BY <2>1, <2>3, <2>4, <2>5
  <2>7. Status(n) \in {"pending", "accepted"} /\ Status(n)' = Status(n)
    BY <1>1, <1>5, <1>7 DEF Status, AnswerLabel
  <2>8. /\ LedgerEntry(n) = [status |-> Status(n), delivered |-> issue[n].qty,
                             returned |-> 0]
        /\ LedgerEntry(n)' = [status |-> Status(n), delivered |-> issue[n].qty,
                              returned |-> Goal(q)]
    BY <1>1, <2>3, <2>6, <2>7 DEF LedgerEntry
  <2>9. Entries' = [Entries EXCEPT ![n].returned = Goal(q)]
    BY <1>1, <1>4, <2>8 DEF Entries
  <2>10. Ledger!TakeBack(n)
    BY <1>1, <2>2, <2>7, <2>8, <2>9 DEF Ledger!TakeBack, Entries
  <2> QED
    BY <1>1, <2>10 DEF Ledger!Next
<1>8. CASE resp[q].pc = "noted"
  <2>1. note'[n].cstate = d.cstate /\ ret' = ret
    BY <1>8, QuietFrame
  <2>2. returnedQty'[n] = returnedQty[n]
    BY <1>8, QuietReturn
  <2>3. Status(n) = AnswerLabel(n) /\ Status(n)' = AnswerLabel(n)'
    BY <1>1, <1>2 DEF Status
  <2>4. Status(n) \in {"pending", "accepted"}
    BY <1>1, <2>3 DEF AnswerLabel
  <2>5. /\ LedgerEntry(n) = [status |-> Status(n), delivered |-> issue[n].qty,
                             returned |-> returnedQty[n]]
        /\ LedgerEntry(n)' = [status |-> Status(n)', delivered |-> issue[n].qty,
                              returned |-> returnedQty[n]]
    <3>1. Status(n)' # "draft"
      BY <2>3 DEF AnswerLabel
    <3> QED
      BY <1>1, <2>2, <2>4, <3>1 DEF LedgerEntry
  <2>6. Entries' = [Entries EXCEPT ![n].status = Status(n)']
    BY <1>1, <1>4, <2>5 DEF Entries
  <2>7. Entries[n] = [status |-> Status(n), delivered |-> issue[n].qty,
                      returned |-> returnedQty[n]]
    BY <1>1, <2>5 DEF Entries
  <2>8. CASE d.cstate = "confirmed"
    <3>1. d.returned = 0 /\ note[n].cstate = "pending"
      BY <1>1, <2>8 DEF PlanFits
    <3>2. ASSUME NEW p \in ReturnsOf(n) PROVE FALSE
      <4>1. Decided(p) /\ resp[p].note = n /\ p # q /\ p \in Responses
        BY <1>1, <3>1, <3>2, ReturnOf
      <4>2. ~ Responding(p) /\ ReplyPhase(p)
        BY <1>1, <4>1 DEF Replying, InTurn
      <4> QED
        BY <3>1, <4>1, <4>2
        DEF ReplyPhase, Decided, Responding, RespEnded
    <3>3. returnedQty[n] = 0
      BY <3>2 DEF Replying, Booked
    <3>4. Status(n) = "pending" /\ Status(n)' = "accepted"
      <4>1. AnswerLabel(n) = "pending"
        BY <3>1 DEF AnswerLabel
      <4>2. AnswerLabel(n)' = "accepted"
        BY <2>1, <2>8 DEF AnswerLabel
      <4> QED
        BY <2>3, <4>1, <4>2
    <3>5. Ledger!Accept(n)
      BY <2>6, <2>7, <3>3, <3>4 DEF Ledger!Accept, Entries
    <3> QED
      BY <1>1, <3>5 DEF Ledger!Next
  <2>9. CASE d.cstate \in {"rejected", "partial"}
    <3>1. d.returned > 0 /\ Status(n)' = d.cstate
      BY <1>1, <2>1, <2>3, <2>9 DEF SoundDecision, AnswerLabel
    <3>2. q \in ReturnsOf(n)
      BY <1>3, <1>8, <3>1 DEF ResponsePhase, ReturnsOf
    <3>3. returnedQty[n] = Goal(q)
      BY <3>2, BookedReturn
    <3>4. /\ returnedQty[n] \in 1 .. issue[n].qty
          /\ d.cstate = "rejected" => returnedQty[n] = issue[n].qty
      BY <1>1, <3>1, <3>3, ReturnIsPart
    <3>5. d.cstate = "rejected" => Ledger!Reject(n)
      BY <2>4, <2>6, <2>7, <3>1, <3>4 DEF Ledger!Reject, Entries
    <3>6. d.cstate = "partial" => Ledger!KeepPart(n)
      BY <2>4, <2>6, <2>7, <3>1, <3>4 DEF Ledger!KeepPart, Entries
    <3> QED
      BY <1>1, <2>9, <3>5, <3>6 DEF Ledger!Next
  <2> QED
    BY <1>1, <2>8, <2>9 DEF SoundDecision
<1> QED
  BY <1>6, <1>7, <1>8, QuietFrame

LEMMA LedgerNext ==
    ASSUME Quietly, IInv, Replying, [Next]_vars
    PROVE  [Ledger!Next]_Entries
<1>1. ~ Crash
  BY NothingFails DEF IInv
<1>2. ASSUME NEW q \in Responses, RespondStep(q)
      PROVE  Ledger!Next \/ Entries' = Entries
  <2>1. resp[q].note \in Issues
    BY <1>2, RespondStepFrame DEF IInv, ResponsePhases, ResponsePhase
  <2> QED
    BY <1>2, <2>1, ReplyLedger
<1>3. ASSUME NEW q \in Responses, NEW n \in Issues,
             RespondRead(q, n) \/ RespondRefuse(q, n)
      PROVE  Entries' = Entries
  <2>1. UNCHANGED <<issue, note, returnedQty>>
    BY <1>3 DEF RespondRead, RespondRefuse
  <2>2. ASSUME NEW m \in Issues PROVE LedgerEntry(m)' = LedgerEntry(m)
    <3>1. Status(m)' = Status(m)
      BY <2>1 DEF Status, AnswerLabel
    <3> QED
      BY <2>1, <3>1, EntryKept
  <2> QED
    BY <2>2 DEF Entries
<1>4. ASSUME UNCHANGED vars PROVE Entries' = Entries
  BY <1>4
  DEF vars, Entries, LedgerEntry, Status, AnswerLabel
<1> QED
  BY <1>1, <1>2, <1>3, <1>4, IssueLedger DEF Next

\* The handlers keep the ledger of deliveries when the responses to a note come
\* one at a time and ERPNext answers every call of theirs: goods go back at most
\* once, as a part of what was delivered and before the status says so; a
\* confirmation stands for no return and a rejection for the return of all.  Issue
\* requests may overlap, fail, and leave drafts behind.
THEOREM DeliveriesImplementLedger ==
    ASSUME ~ ReplyOverlap, ReplyFaults = 0, MaxCrashes = 0
    PROVE  Spec => LedgerSpec
<1>1. Quietly
  BY DEF Quietly
<1>2. Init => Ledger!Init
  <2>1. Init => \A n \in Issues : note[n].doc # "submitted"
    BY DEF Init
  <2> QED
    BY <2>1, DraftEntry DEF Ledger!Init
<1>3. IInv /\ Replying /\ [Next]_vars =>
        [Ledger!Next]_([n \in Issues |-> LedgerEntry(n)])
  BY <1>1, LedgerNext DEF Entries
<1> QED
  BY <1>1, <1>2, <1>3, ReplyInvariance, PTL DEF Spec, LedgerSpec, Ledger!Spec

-----------------------------------------------------------------------------
(* The lists *)

\* A note and a return note in the lists.
LEMMA NoteShown ==
    ASSUME NEW n \in Issues
    PROVE  /\ Note(n).of = n
           /\ Submitted(Note(n)) <=> note[n].doc = "submitted"
           /\ Visible(Note(n)) <=>
                note[n].doc = "submitted" /\ note[n].flow = "submitted"
           /\ CustomerOf(Note(n)) = issue[n].cust
           /\ Qty(Note(n)) = issue[n].qty
           /\ StatusShown(Note(n)) = Status(n)
           /\ ReturnedQty(Note(n)) = returnedQty[n]
<1>1. Note(n).of = n /\ ~ Note(n).returns
  BY DEF Note
<1>2. ReturnedQty(Note(n)) = returnedQty[n]
  BY <1>1 DEF ReturnedQty
<1>3. Submitted(Note(n)) <=> note[n].doc = "submitted"
  BY <1>1 DEF Submitted
<1>4. StatusShown(Note(n)) = Status(n)
  BY <1>1, <1>3 DEF StatusShown, Status
<1> QED
  BY <1>1, <1>2, <1>3, <1>4 DEF Visible, Flow, CustomerOf, Qty

LEMMA ReturnShown ==
    ASSUME NEW q \in Responses
    PROVE  /\ ~ Visible(Return(q))
           /\ StatusShown(Return(q)) \in {"draft", "pending"}
<1>1. Return(q).returns
  BY DEF Return
<1> QED
  BY <1>1 DEF Visible, Flow, StatusShown

\* Only notes are visible, and only notes are answered.
LEMMA ShownIsNote ==
    ASSUME IInv, Replying, NEW x \in Documents,
           Visible(x) \/ StatusShown(x) \in {"accepted", "partial", "rejected"}
    PROVE  /\ Visible(x)
           /\ CustomerOf(x) \in Customers
           /\ StatusShown(x) \in {"pending", "accepted", "partial", "rejected"}
           /\ \E n \in Issues : x = Note(n) /\ InErp(n)
<1>1. PICK n \in Issues : x = Note(n) /\ InErp(n)
  BY ReturnShown DEF Documents
<1>2. issue[n].cust \in Customers
  BY <1>1 DEF Replying, Delivers, InErp
<1>3. note[n].doc = "submitted" /\ note[n].flow = "submitted"
  BY <1>1, NoteShown DEF Status
<1>4. Status(n) \in {"pending", "accepted", "partial", "rejected"}
  BY <1>3 DEF Status, AnswerLabel
<1> QED
  BY <1>1, <1>2, <1>3, <1>4, NoteShown

\* The customers' lists together have every visible document.
LEMMA EveryoneCollected ==
    ASSUME IInv, Replying
    PROVE  /\ WerkaRecords = {x \in Documents : Visible(x)}
           /\ WerkaEvents = DbWerkaEvents
           /\ WerkaEvents = {x \in WerkaRecords : AnswerOf(x) # "pending"}
           /\ DbWerkaPending = {x \in WerkaRecords : AnswerOf(x) = "pending"}
           /\ WerkaCounts = DbWerkaCounts
<1>1. WerkaRecords = {x \in Documents : Visible(x)}
  BY ShownIsNote DEF WerkaRecords, CustomerHistory, Collected
<1>2. WerkaEvents = DbWerkaEvents
  BY ShownIsNote DEF WerkaEvents, DbWerkaEvents, ResultEvents, Collected
<1>3. ASSUME NEW x \in Documents, Visible(x)
      PROVE  AnswerOf(x) = "pending" <=> StatusShown(x) = "pending"
  BY <1>3, ShownIsNote DEF AnswerOf
<1>4. DbWerkaEvents = {x \in WerkaRecords : AnswerOf(x) # "pending"}
  <2>1. ASSUME NEW x \in DbWerkaEvents
        PROVE  x \in WerkaRecords /\ AnswerOf(x) # "pending"
    BY <1>1, <1>3, <2>1, ShownIsNote DEF DbWerkaEvents, ResultEvents
  <2>2. ASSUME NEW x \in WerkaRecords, AnswerOf(x) # "pending"
        PROVE  x \in DbWerkaEvents
    BY <1>1, <1>3, <2>2, ShownIsNote DEF DbWerkaEvents, ResultEvents
  <2> QED
    BY <2>1, <2>2
<1>5. DbWerkaPending = {x \in WerkaRecords : AnswerOf(x) = "pending"}
  BY <1>1, <1>3 DEF DbWerkaPending
<1>6. WerkaCounts = DbWerkaCounts
  <2>1. \A a \in Answer : {x \in WerkaRecords : AnswerOf(x) = a}
                            = {x \in Documents : Visible(x) /\ AnswerOf(x) = a}
    BY <1>1
  <2> QED
    BY <2>1 DEF WerkaCounts, DbWerkaCounts
<1> QED
  BY <1>1, <1>2, <1>4, <1>5, <1>6

\* The lists and the counts of one customer.
LEMMA CustomerCounted ==
    ASSUME IInv, Replying, NEW c \in Customers
    PROVE  /\ \A a \in Answer :
                 CustomerSummary(c)[a] = Cardinality(CustomerStatusDetails(c, a))
           /\ CustomerSummary(c) = DbCustomerSummary(c)
           /\ \A x \in CustomerHistory(c) : Qty(x) > 0
<1>1. ASSUME NEW a \in Answer
      PROVE  {x \in Collected(c) : Visible(x) /\ AnswerOf(x) = a}
               = CustomerStatusDetails(c, a)
  <2>1. ASSUME NEW x \in Collected(c), Visible(x)
        PROVE  AnswerOf(x) = a <=>
                 StatusShown(x) \in (IF a = "returned" THEN {"partial", "rejected"}
                                     ELSE {a})
    <3>1. StatusShown(x) \in {"pending", "accepted", "partial", "rejected"}
      BY <2>1, ShownIsNote DEF Collected
    <3> QED
      BY <3>1 DEF AnswerOf, Answer
  <2> QED
    BY <2>1 DEF CustomerStatusDetails
<1>2. CustomerSummary(c) = DbCustomerSummary(c)
  BY DEF CustomerSummary, DbCustomerSummary, Collected
<1>3. ASSUME NEW x \in CustomerHistory(c) PROVE Qty(x) > 0
  <2>1. PICK n \in Issues : x = Note(n) /\ InErp(n)
    BY ShownIsNote DEF CustomerHistory, Collected
  <2> QED
    BY <2>1, NoteShown DEF IInv, IssuePhases, IssuePhase, InErp
<1> QED
  BY <1>1, <1>2, <1>3 DEF CustomerSummary

\* Every answer a page offers can be given.  The one that splits the delivery
\* needs the tolerance when a single unit was sent.
LEMMA OffersAreTaken ==
    ASSUME IInv, Replying, Tol > 0, NEW n \in Issues, note[n].doc = "submitted"
    PROVE  OffersTaken(n)
<1> DEFINE sent == issue[n].qty
           req(m, a, b) == [cust |-> issue[n].cust, mode |-> m, reasoned |-> TRUE,
                            accepted |-> a, returned |-> b]
<1>1. /\ sent \in Nat /\ sent > 0 /\ Tol \in Nat
      /\ issue[n].cust \in Customers /\ InErp(n)
  BY ConstantsAssumption
  DEF IInv, TypeOK, IssueRequest, IssuePhases, IssuePhase, Replying, Delivers, InErp
<1>2. ASSUME NEW r \in Request(n), Decisions(n, r) # {}
      PROVE  r.mode \in CustomerDeliveryDetail(n)
  BY <1>2
  DEF Decisions, Decide, AcceptAll, RejectAll, AcceptPartial, Claim,
      CustomerDeliveryDetail
<1>3. ASSUME NEW m \in Modes, NEW a \in 0 .. sent + Tol + 1,
             NEW b \in 0 .. sent + Tol + 1
      PROVE  /\ req(m, a, b) \in Request(n)
             /\ req(m, a, b).mode = m /\ req(m, a, b).reasoned
             /\ req(m, a, b).accepted = a /\ req(m, a, b).returned = b
             /\ Decisions(n, req(m, a, b)) = Decide(Status(n), sent, req(m, a, b))
  BY <1>1, <1>3 DEF Request, Decisions
<1> HIDE DEF req
<1>4. ASSUME NEW m \in CustomerDeliveryDetail(n)
      PROVE  \E r \in Request(n) : r.mode = m /\ Decisions(n, r) # {}
  <2>1. /\ m \in {"accept_all", "reject_all", "accept_partial"} => Status(n) = "pending"
        /\ m = "claim_after_accept" => Status(n) = "accepted"
        /\ m \in {"accept_all", "reject_all", "accept_partial", "claim_after_accept"}
    BY DEF CustomerDeliveryDetail
  <2>2. m \in Modes
    BY <2>1 DEF Modes
  <2>3. CASE m = "accept_all"
    <3>1. 0 \in 0 .. sent + Tol + 1
      BY <1>1
    <3>2. req(m, 0, 0).mode = m
      BY <1>3, <2>2, <3>1
    <3>3. AcceptAll(Status(n), sent, req(m, 0, 0)) # {}
      BY <2>1, <2>3, <3>2 DEF AcceptAll
    <3>4. Decide(Status(n), sent, req(m, 0, 0)) # {}
      BY <3>3 DEF Decide
    <3> QED
      BY <1>3, <2>2, <3>1, <3>4
  <2>4. CASE m = "reject_all"
    <3>1. 0 \in 0 .. sent + Tol + 1
      BY <1>1
    <3>2. req(m, 0, 0).mode = m /\ req(m, 0, 0).reasoned
      BY <1>3, <2>2, <3>1
    <3>3. RejectAll(Status(n), sent, req(m, 0, 0)) # {}
      BY <2>1, <2>4, <3>2 DEF RejectAll
    <3>4. Decide(Status(n), sent, req(m, 0, 0)) # {}
      BY <3>3 DEF Decide
    <3> QED
      BY <1>3, <2>2, <3>1, <3>4
  <2>5. CASE m = "accept_partial"
    <3> DEFINE b == IF sent > 1 THEN sent - 1 ELSE 1
    <3>1. 1 \in 0 .. sent + Tol + 1 /\ b \in 0 .. sent + Tol + 1
      BY <1>1
    <3>2. SplitsDelivery(sent, req(m, 1, b))
      <4>1. AcceptedPart(sent, req(m, 1, b)) = 1
        BY <1>3, <2>2, <3>1 DEF AcceptedPart
      <4>2. ReturnedPart(sent, req(m, 1, b)) = b
        BY <1>1, <1>3, <2>2, <3>1 DEF ReturnedPart
      <4>3. Near(1 + b, sent)
        BY <1>1 DEF Near
      <4> QED
        BY <1>1, <1>3, <2>2, <3>1, <4>1, <4>2, <4>3 DEF SplitsDelivery
    <3>3. Decide(Status(n), sent, req(m, 1, b)) # {}
      BY <1>3, <2>1, <2>2, <2>5, <3>1, <3>2 DEF Decide, AcceptPartial
    <3> QED
      BY <1>3, <2>2, <3>1, <3>3
  <2>6. CASE m = "claim_after_accept"
    <3>1. 0 \in 0 .. sent + Tol + 1 /\ 1 \in 0 .. sent + Tol + 1
      BY <1>1
    <3>2. /\ req(m, 0, 1).mode = m /\ req(m, 0, 1).reasoned
          /\ req(m, 0, 1).returned = 1
      BY <1>3, <2>2, <3>1
    <3>3. Claim(Status(n), sent, req(m, 0, 1)) # {}
      BY <1>1, <2>1, <2>6, <3>2 DEF Claim
    <3>4. Decide(Status(n), sent, req(m, 0, 1)) # {}
      BY <3>3 DEF Decide
    <3> QED
      BY <1>3, <2>2, <3>1, <3>4
  <2> QED
    BY <2>1, <2>3, <2>4, <2>5, <2>6
<1> QED
  BY <1>2, <1>4 DEF OffersTaken

\* Once nobody is at work on a note the remarks and the return note tell the
\* same about it.
LEMMA QuantitiesAgree ==
    ASSUME IInv, Replying, NEW n \in Issues,
           note[n].doc = "submitted", note[n].flow = "submitted",
           \A q \in Responses : resp[q].note = n => ~ Responding(q)
    PROVE  /\ HttpAccepted(Note(n)) - DbAccepted(Note(n)) \in -2 * Tol .. 2 * Tol
           /\ Note(n) \in DbArchive("returned") =>
                Near(ArchiveQty("returned", Note(n)), ReturnedQty(Note(n)))
<1> DEFINE sent == issue[n].qty
           said == note[n].remarks
<1>1. /\ sent \in Nat /\ sent > 0 /\ Tol \in Nat
      /\ note[n] \in DeliveryNote
      /\ said.accepted \in Nat /\ said.returned \in Nat
      /\ note[n].cstate # "none"
  BY ConstantsAssumption
  DEF IInv, TypeOK, IssueRequest, IssuePhases, IssuePhase, DeliveryNote, Decision
<1>2. /\ StatusShown(Note(n)) = Status(n)
      /\ Qty(Note(n)) = sent
      /\ ReturnedQty(Note(n)) = returnedQty[n]
      /\ Note(n).of = n /\ ~ Note(n).returns
  BY NoteShown DEF Note
<1>3. Status(n) = AnswerLabel(n)
  BY DEF Status
<1>4. ASSUME NEW q \in Responses, resp[q].note = n, Decided(q)
      PROVE  /\ resp[q].pc = "answered" /\ ReplyPhase(q) /\ Remarked(q)
             /\ note[n].cstate # "pending"
             /\ SoundDecision(resp[q].plan, sent) /\ PlanFits(resp[q].plan, sent)
  BY <1>4
  DEF Replying, ReplyPhase, Decided, Responding, RespEnded, IInv, ResponsePhases,
      ResponsePhase
<1>5. \/ said = NoDecision
      \/ \E q \in Responses : resp[q].note = n /\ Decided(q) /\ resp[q].plan = said
  BY DEF Replying, Quoted, Decided
<1>6. CASE note[n].cstate = "pending"
  <2>1. said = NoDecision
    BY <1>4, <1>5, <1>6
  <2>2. Status(n) = "pending"
    BY <1>3, <1>6 DEF AnswerLabel
  <2>3. HttpAccepted(Note(n)) = 0 /\ DbAccepted(Note(n)) = 0
    BY <1>2, <2>1, <2>2 DEF HttpAccepted, DbAccepted, NoDecision
  <2>4. Note(n) \notin DbArchive("returned")
    BY <1>2, <2>2 DEF DbArchive, AnswerOf
  <2> QED
    BY <1>1, <2>3, <2>4
<1>7. CASE note[n].cstate = "confirmed"
  <2>1. Status(n) = "accepted"
    BY <1>3, <1>7 DEF AnswerLabel
  <2>2. said.accepted \in {0, sent}
    <3>1. CASE said = NoDecision
      BY <3>1 DEF NoDecision
    <3>2. ASSUME NEW q \in Responses, resp[q].note = n, Decided(q),
                 resp[q].plan = said
          PROVE  said.accepted = sent
      <4>1. said.returned = 0 \/ note[n].cstate = said.cstate
        BY <1>1, <1>4, <3>2 DEF ReplyPhase
      <4> QED
        BY <1>4, <1>7, <3>2, <4>1 DEF PlanFits
    <3> QED
      BY <1>5, <3>1, <3>2
  <2>3. HttpAccepted(Note(n)) = sent /\ DbAccepted(Note(n)) = sent
    BY <1>1, <1>2, <2>1, <2>2 DEF HttpAccepted, DbAccepted
  <2>4. Note(n) \notin DbArchive("returned")
    BY <1>2, <2>1 DEF DbArchive, AnswerOf
  <2> QED
    BY <1>1, <2>3, <2>4
<1>8. CASE note[n].cstate \in {"rejected", "partial"}
  <2>1. PICK q \in ReturnsOf(n) : resp[q].plan.cstate = note[n].cstate
    BY <1>8 DEF IInv, ReturnedStateHasReturn, ReturnsOf
  <2>2. /\ q \in Responses /\ Decided(q) /\ resp[q].note = n
        /\ resp[q].plan.returned > 0
    BY ReturnOf
  <2>3. said = resp[q].plan
    BY <1>4, <2>2 DEF Remarked
  <2>4. returnedQty[n] = Goal(q)
    BY BookedReturn
  <2>5. /\ Goal(q) \in 1 .. sent
        /\ resp[q].plan.cstate = "rejected" => Goal(q) = sent
    BY <2>2, ReturnIsPart
  <2>6. CASE note[n].cstate = "rejected"
    <3>1. Status(n) = "rejected"
      BY <1>3, <2>6 DEF AnswerLabel
    <3>2. HttpAccepted(Note(n)) = 0 /\ DbAccepted(Note(n)) = 0
      BY <1>2, <3>1 DEF HttpAccepted, DbAccepted
    <3>3. ArchiveQty("returned", Note(n)) = sent
      BY <1>1, <1>2, <3>2 DEF ArchiveQty, AtLeast0
    <3>4. Near(sent, returnedQty[n])
      BY <1>1, <2>1, <2>4, <2>5, <2>6 DEF Near
    <3> QED
      BY <1>1, <1>2, <3>2, <3>3, <3>4
  <2>7. CASE note[n].cstate = "partial"
    <3> DEFINE back == Goal(q)
    <3>1. Status(n) = "partial"
      BY <1>3, <2>7 DEF AnswerLabel
    <3>2. back \in Nat /\ back > 0 /\ back <= sent
      BY <1>1, <2>5
    <3>3. DbAccepted(Note(n)) = sent - back
      BY <1>1, <1>2, <2>4, <3>1, <3>2 DEF DbAccepted, AtLeast0
    <3>4. Near(ArchiveQty("returned", Note(n)), returnedQty[n])
      <4>1. ArchiveQty("returned", Note(n)) = back
        BY <1>1, <1>2, <3>2, <3>3 DEF ArchiveQty, AtLeast0
      <4> QED
        BY <1>1, <2>4, <3>2, <4>1 DEF Near
    <3>5. /\ said.returned > 0
          /\ Near(said.accepted + said.returned, sent)
          /\ back = IF Near(said.returned, sent) THEN sent ELSE said.returned
      BY <1>4, <2>2, <2>3 DEF SoundDecision, Goal
    <3>6. HttpAccepted(Note(n)) = IF said.accepted > 0 THEN said.accepted
                                  ELSE AtLeast0(sent - said.returned)
      BY <1>1, <1>2, <3>1, <3>5 DEF HttpAccepted
    <3>7. HttpAccepted(Note(n)) - DbAccepted(Note(n)) \in -2 * Tol .. 2 * Tol
      BY <1>1, <3>2, <3>3, <3>5, <3>6 DEF Near, AtLeast0
    <3> QED
      BY <1>2, <3>4, <3>7
  <2> QED
    BY <1>8, <2>6, <2>7
<1> QED
  BY <1>1, <1>6, <1>7, <1>8 DEF DeliveryNote, CustomerStates

LEMMA QuietLists ==
    ASSUME Tol > 0, IInv, Replying
    PROVE  DeliveryListsAgree
<1>1. DbArchive("returned") \subseteq DbWerkaDetails("returned")
  BY DEF DbArchive, DbWerkaDetails
<1>2. ASSUME NEW x \in WerkaRecords
      PROVE  /\ OffersTaken(x.of)
             /\ (\A q \in Responses : resp[q].note = x.of => ~ Responding(q)) =>
                   /\ HttpAccepted(x) - DbAccepted(x) \in -2 * Tol .. 2 * Tol
                   /\ x \in DbArchive("returned") =>
                        Near(ArchiveQty("returned", x), ReturnedQty(x))
  <2>1. x \in Documents /\ Visible(x)
    BY EveryoneCollected
  <2>2. PICK n \in Issues : x = Note(n)
    BY <2>1, ShownIsNote
  <2>3. x.of = n /\ note[n].doc = "submitted" /\ note[n].flow = "submitted"
    BY <2>1, <2>2, NoteShown
  <2> QED
    BY <2>2, <2>3, OffersAreTaken, QuantitiesAgree
<1> QED
  BY <1>1, <1>2, CustomerCounted, EveryoneCollected DEF DeliveryListsAgree

\* What customers and Werka are shown agrees, over HTTP and by the database
\* reader, for any number of notes and responses: the counts and the lists, the
\* answers a page offers and those the server takes, and, once nobody is at work
\* on a note, the quantities that come from the remarks and those that come from
\* the return notes.  The tolerance is at least the unit of a quantity.
THEOREM ListsAlwaysAgree ==
    ASSUME ~ ReplyOverlap, ReplyFaults = 0, MaxCrashes = 0, Tol > 0
    PROVE  Spec => []DeliveryListsAgree
<1>1. Quietly
  BY DEF Quietly
<1>2. IInv /\ Replying => DeliveryListsAgree
  BY QuietLists
<1> QED
  BY <1>1, <1>2, ReplyInvariance, PTL
=============================================================================
