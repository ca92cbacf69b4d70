----------------------- MODULE PurchaseReceiptsProofs -----------------------
(***************************************************************************)
(* For any number of receipts, replies, failures and crashes, and any      *)
(* quantities: every variable keeps its type, no more is booked or         *)
(* returned than was sent, an acknowledgement line stands for a comment,   *)
(* and, when ERPNext checks time stamps, what is booked is what one        *)
(* request decided.                                                        *)
(*                                                                         *)
(* The first three hold of a document because they hold of everything that *)
(* is ever written over it: not only the documents, also the copies of     *)
(* them that requests hold are safe (SafeDoc), however old they are.  The  *)
(* last needs a second invariant, about the drafts that are on their way   *)
(* to be submitted.                                                        *)
(*                                                                         *)
(* The last section is about the lists: a receipt is of one kind to both   *)
(* readers, only finitely many are known at any time, and so the counts    *)
(* and the lists agree.                                                    *)
(***************************************************************************)
EXTENDS PurchaseReceipts, ReceiptLists, FiniteSetTheorems, TLAPS

\* A document of receipt r, or a copy of one, where h have been commented.
SafeDoc(h, r, d) ==
    /\ d \in Receipt
    /\ d.qty \in 0 .. d.sent
    /\ d.qty < d.sent => d.rejected \in 0 .. (d.sent - d.qty)
    /\ d.remarks.acked => r \in h

\* A reply, where h have been commented.
SafeReply(h, p) ==
    /\ p \in Reply
    /\ p.pc \notin Ended => p.on \in Receipts
    /\ SafeDoc(h, p.on, p.seen)
    /\ SafeDoc(h, p.on, p.latest)
    /\ p.pc \in {"returning", "deciding"} => Acceptable(ReadQty(p.seen), p.acc, p.ret)
    /\ p.pc \in {"said", "acking"} => p.on \in h

SafeMaking(h, r, m) == m \in Making /\ (m.read.acked => r \in h)

FaultTypes == [calls : Nat, crashes : Nat]

SInv ==
    /\ faults \in FaultTypes
    /\ heard \subseteq Receipts
    /\ doc \in [Receipts -> Receipt]
    /\ \A r \in Receipts : SafeDoc(heard, r, doc[r])
    /\ make \in [Receipts -> Making]
    /\ \A r \in Receipts : SafeMaking(heard, r, make[r])
    /\ req \in [Replies -> Reply]
    /\ \A q \in Replies : SafeReply(heard, req[q])

LEMMA SafeImplies == SInv => TypeOK /\ WithinSent /\ AckWasSaid
BY DEF SInv, TypeOK, FaultTypes, WithinSent, AckWasSaid, SafeDoc

-----------------------------------------------------------------------------
(* Values *)

LEMMA EmptyTypes ==
    /\ NoRemarks \in Remarks /\ NoReceipt \in Receipt /\ NoReply \in Reply
    /\ \A h, r : SafeDoc(h, r, NoReceipt)
    /\ \A h : SafeReply(h, NoReply)
<1>1. NoRemarks \in Remarks
  BY DEF NoRemarks, Remarks, NoNote, Split, Tags
<1>2. NoReceipt \in Receipt
  BY <1>1 DEF NoReceipt, Receipt, DocStates
<1>3. \A h, r : SafeDoc(h, r, NoReceipt)
  BY <1>2 DEF SafeDoc, NoReceipt, NoRemarks
<1>4. NoReply \in Reply
  BY <1>2 DEF NoReply, Reply, ReplyPCs
<1> QED BY <1>1, <1>2, <1>3, <1>4 DEF SafeReply, NoReply, Ended

LEMMA NewReceiptSafe ==
    ASSUME NEW x \in Sent, NEW h, NEW r
    PROVE  SafeDoc(h, r, NewReceipt(x))
<1>1. x \in Nat
  BY ReceiptConstants
<1>2. /\ NewReceipt(x) \in Receipt
      /\ NewReceipt(x).qty = x /\ NewReceipt(x).sent = x
      /\ NewReceipt(x).remarks.acked = FALSE
  <2>1. /\ NoReceipt \in Receipt /\ x \in Int /\ "draft" \in DocStates
        /\ NoReceipt.remarks = NoRemarks /\ NoRemarks.acked = FALSE
    BY <1>1, EmptyTypes DEF NoReceipt, NoRemarks, DocStates
  <2> QED BY <1>1, <2>1 DEF NewReceipt, Receipt
<1> QED BY <1>1, <1>2 DEF SafeDoc

\* The quantity a safe document is read with is the one that was sent.
LEMMA ReadIsSent ==
    ASSUME NEW h, NEW r, NEW d, SafeDoc(h, r, d)
    PROVE  ReadQty(d) = d.sent /\ d.sent \in Nat
BY DEF SafeDoc, Receipt, ReadQty, MaxOf

LEMMA NoteType ==
    ASSUME NEW sent \in Nat, NEW acc \in Int, NEW ret \in Int, Acceptable(sent, acc, ret)
    PROVE  DecisionNote(sent, acc, ret) \in Split
BY DEF Acceptable, DecisionNote, NoNote, Split

\* Everything that is written over a document's remarks keeps it safe.
LEMMA RemarksSafe ==
    ASSUME NEW h, NEW r, NEW d, SafeDoc(h, r, d),
           NEW rm \in Remarks, rm.acked => r \in h
    PROVE  SafeDoc(h, r, [d EXCEPT !.remarks = rm])
BY DEF SafeDoc, Receipt

LEMMA EditsType ==
    ASSUME NEW rm \in Remarks
    PROVE  /\ \A n \in Split : Decided(rm, n) \in Remarks /\ ~ Decided(rm, n).acked
           /\ Acknowledged(rm) \in Remarks
           /\ \A t \in Tags : Tagged(rm, t) \in Remarks /\ Tagged(rm, t).acked = rm.acked
BY DEF Remarks, Decided, Acknowledged, Tagged

LEMMA AfterSafe ==
    ASSUME NEW q \in Replies, SafeReply(heard, req[q]),
           req[q].pc \in {"returning", "deciding"}
    PROVE  RemarksAfter(q) \in Remarks /\ (RemarksAfter(q).acked => req[q].on \in heard)
<1> DEFINE p == req[q]
           n == DecisionNote(ReadQty(p.seen), p.acc, p.ret)
<1>1. SafeDoc(heard, p.on, p.seen) /\ p.acc \in Int /\ p.ret \in Int
  BY DEF SafeReply, Reply
<1>2. ReadQty(p.seen) \in Nat
  BY <1>1, ReadIsSent
<1>3. n \in Split
  BY <1>1, <1>2, NoteType DEF SafeReply
<1>4. p.seen.remarks \in Remarks /\ (p.seen.remarks.acked => p.on \in heard)
  BY <1>1 DEF SafeDoc, Receipt
<1>5. RemarksAfter(q) = IF n = NoNote THEN p.seen.remarks ELSE Decided(p.seen.remarks, n)
  BY DEF RemarksAfter
<1> HIDE DEF n, p
<1> QED BY <1>3, <1>4, <1>5, EditsType DEF p

\* A request that is over is safe.
LEMMA OverSafe ==
    ASSUME NEW q \in Replies, SafeReply(heard, req[q]),
           NEW pc \in {"done", "refused", "failed"}
    PROVE  SafeReply(heard, Over(q, pc))
<1>1. Over(q, pc) \in Reply
  <2>1. req[q] \in Reply /\ NoReceipt \in Receipt /\ 0 \in 0 .. 1 /\ pc \in ReplyPCs
    BY EmptyTypes DEF SafeReply, ReplyPCs
  <2> QED BY <2>1 DEF Over, Reply
<1>2. /\ Over(q, pc).pc = pc
      /\ Over(q, pc).seen = NoReceipt /\ Over(q, pc).latest = NoReceipt
  BY DEF SafeReply, Reply, Over
<1> QED BY <1>1, <1>2, EmptyTypes DEF SafeReply, Ended

-----------------------------------------------------------------------------
(* Shapes of a step *)

\* Nothing but one reply changes.
LEMMA ReplySafe ==
    ASSUME SInv, NEW q \in Replies, NEW x, SafeReply(heard, x),
           req' = [req EXCEPT ![q] = x],
           UNCHANGED <<doc, make, heard>>, faults' \in FaultTypes
    PROVE  SInv'
<1>1. req' \in [Replies -> Reply] /\ \A p \in Replies : SafeReply(heard, req'[p])
  BY DEF SInv, SafeReply
<1>2. \A p \in Replies : SafeReply(heard, req[p])' <=> SafeReply(heard, req'[p])
  BY DEF SafeReply, SafeDoc
<1> QED BY <1>1, <1>2 DEF SInv, SafeDoc, SafeMaking

LEMMA OutdatedSafe ==
    ASSUME SInv, NEW r \in Receipts
    PROVE  /\ Outdated(r) \in [Replies -> Reply]
           /\ \A q \in Replies : SafeReply(heard, Outdated(r)[q])
<1>1. ASSUME NEW q \in Replies
      PROVE  SafeReply(heard, [req[q] EXCEPT !.fresh = FALSE])
  <2>1. SafeReply(heard, req[q])
    BY DEF SInv
  <2>2. [req[q] EXCEPT !.fresh = FALSE] \in Reply
    BY <2>1 DEF SafeReply, Reply
  <2>3. \A f \in {"pc", "on", "seen", "latest", "acc", "ret"} :
            [req[q] EXCEPT !.fresh = FALSE][f] = req[q][f]
    BY <2>1 DEF SafeReply, Reply
  <2> QED BY <2>1, <2>2, <2>3 DEF SafeReply
<1> QED BY <1>1 DEF SInv, Outdated, SafeReply

\* One receipt changes, and a reply with it.
LEMMA DocSafe ==
    ASSUME SInv, NEW q \in Replies, NEW r \in Receipts, NEW d, NEW x,
           SafeDoc(heard, r, d), SafeReply(heard, x),
           doc' = [doc EXCEPT ![r] = d],
           req' = [Outdated(r) EXCEPT ![q] = x],
           UNCHANGED <<make, heard>>, faults' \in FaultTypes
    PROVE  SInv'
<1>1. req' \in [Replies -> Reply] /\ \A p \in Replies : SafeReply(heard, req'[p])
  BY OutdatedSafe DEF SafeReply
<1>2. \A p \in Replies : SafeReply(heard, req[p])' <=> SafeReply(heard, req'[p])
  BY DEF SafeReply, SafeDoc
<1>3. doc' \in [Receipts -> Receipt] /\ \A s \in Receipts : SafeDoc(heard, s, doc'[s])
  BY DEF SInv, SafeDoc
<1>4. \A s \in Receipts : SafeDoc(heard, s, doc[s])' <=> SafeDoc(heard, s, doc'[s])
  BY DEF SafeDoc
<1> QED BY <1>1, <1>2, <1>3, <1>4 DEF SInv, SafeMaking

\* The steps of WriteBy.
LEMMA WriteCases ==
    ASSUME SInv, NEW q \in Replies, NEW allowed \in BOOLEAN, NEW new, NEW next,
           NEW otherwise, WriteBy(q, allowed, new, next, otherwise)
    PROVE  /\ faults' \in FaultTypes
           /\ \/ allowed /\ Written(q, new, next)
              \/ allowed /\ Written(q, new, otherwise)
              \/ req' = [req EXCEPT ![q] = otherwise] /\ doc' = doc
BY DEF WriteBy, Fault, SInv, FaultTypes

\* A reply's write keeps everything safe if what it writes is.
LEMMA WriteSafe ==
    ASSUME SInv, NEW q \in Replies, req[q].on \in Receipts,
           NEW new, NEW next, NEW otherwise,
           SafeReply(heard, next), SafeReply(heard, otherwise),
           \/ SafeDoc(heard, req[q].on, new) /\ Written(q, new, next)
           \/ SafeDoc(heard, req[q].on, new) /\ Written(q, new, otherwise)
           \/ req' = [req EXCEPT ![q] = otherwise] /\ doc' = doc,
           UNCHANGED <<make, heard>>, faults' \in FaultTypes
    PROVE  SInv'
<1>1. CASE SafeDoc(heard, req[q].on, new) /\ Written(q, new, next)
  BY <1>1, DocSafe DEF Written
<1>2. CASE SafeDoc(heard, req[q].on, new) /\ Written(q, new, otherwise)
  BY <1>2, DocSafe DEF Written
<1>3. CASE req' = [req EXCEPT ![q] = otherwise] /\ doc' = doc
  BY <1>3, ReplySafe
<1> QED BY <1>1, <1>2, <1>3

LEMMA FaultStep == ASSUME SInv, Fault \/ UNCHANGED faults PROVE faults' \in FaultTypes
BY DEF SInv, Fault, FaultTypes

LEMMA ReplyNow ==
    ASSUME SInv, NEW q \in Replies
    PROVE  /\ SafeReply(heard, req[q])
           /\ req[q].pc \notin Ended => /\ req[q].on \in Receipts
                                        /\ SafeDoc(heard, req[q].on, doc[req[q].on])
BY DEF SInv, SafeReply

-----------------------------------------------------------------------------
(* Creating a receipt *)

LEMMA MakeTypes ==
    ASSUME SInv, NEW r \in Receipts, NEW m, SafeMaking(heard, r, m)
    PROVE  /\ [make EXCEPT ![r] = m] \in [Receipts -> Making]
           /\ \A s \in Receipts : SafeMaking(heard, s, [make EXCEPT ![r] = m][s])
BY DEF SInv, SafeMaking

\* A creating request moves; its receipt may change.
LEMMA MakeSafe ==
    ASSUME SInv, NEW r \in Receipts, NEW m, SafeMaking(heard, r, m),
           make' = [make EXCEPT ![r] = m], faults' \in FaultTypes, heard' = heard,
           NEW d, SafeDoc(heard, r, d),
           doc' = doc \/ doc' = [doc EXCEPT ![r] = d],
           req' = req \/ req' = Outdated(r)
    PROVE  SInv'
<1>1. req' \in [Replies -> Reply] /\ \A p \in Replies : SafeReply(heard, req'[p])
  BY OutdatedSafe DEF SInv
<1>2. doc' \in [Receipts -> Receipt] /\ \A s \in Receipts : SafeDoc(heard, s, doc'[s])
  BY DEF SInv, SafeDoc
<1>3. \A s \in Receipts : SafeDoc(heard, s, doc[s])' <=> SafeDoc(heard, s, doc'[s])
  BY DEF SafeDoc
<1>4. \A p \in Replies : SafeReply(heard, req[p])' <=> SafeReply(heard, req'[p])
  BY DEF SafeReply, SafeDoc
<1>5. \A s \in Receipts : SafeMaking(heard, s, make[s])' <=> SafeMaking(heard, s, make'[s])
  BY DEF SafeMaking
<1> QED BY <1>1, <1>2, <1>3, <1>4, <1>5, MakeTypes DEF SInv

LEMMA MakingSafe ==
    ASSUME SInv, NEW r \in Receipts, NEW pc \in MakePCs, NEW o \in BOOLEAN,
           NEW rm \in Remarks, rm.acked => r \in heard
    PROVE  /\ SafeMaking(heard, r, [make[r] EXCEPT !.pc = pc])
           /\ SafeMaking(heard, r, [make[r] EXCEPT !.pc = pc, !.offered = o])
           /\ SafeMaking(heard, r, [make[r] EXCEPT !.pc = pc, !.read = rm])
<1>1. make[r] \in Making /\ (make[r].read.acked => r \in heard)
  BY DEF SInv, SafeMaking
<1> QED BY <1>1 DEF SafeMaking, Making

LEMMA CreateSafe ==
    ASSUME SInv, NEW r \in Receipts,
           CreateRefuse(r) \/ CreateInsert(r) \/ CreateStep(r)
    PROVE  SInv'
<1> DEFINE new == [doc[r] EXCEPT !.remarks = Tagged(make[r].read, "pending")]
<1>1. make \in [Receipts -> Making] /\ doc \in [Receipts -> Receipt]
  BY DEF SInv
<1>2. /\ SafeDoc(heard, r, doc[r])
      /\ doc[r].remarks \in Remarks /\ (doc[r].remarks.acked => r \in heard)
  BY DEF SInv, SafeDoc, Receipt
<1>3. /\ make[r].read \in Remarks /\ (make[r].read.acked => r \in heard)
      /\ make[r].offered \in BOOLEAN
  BY DEF SInv, SafeMaking, Making
<1>4. CASE CreateRefuse(r)
  <2>1. SafeMaking(heard, r, [make[r] EXCEPT !.pc = "refused"])
    BY <1>2, MakingSafe DEF MakePCs
  <2>2. make' = [make EXCEPT ![r] = [make[r] EXCEPT !.pc = "refused"]]
    BY <1>1, <1>4 DEF CreateRefuse
  <2>3. faults' \in FaultTypes /\ heard' = heard /\ doc' = doc /\ req' = req
    BY <1>4 DEF CreateRefuse, SInv
  <2> QED BY <1>2, <2>1, <2>2, <2>3, MakeSafe
<1>5. CASE CreateInsert(r)
  <2>1. PICK x \in Sent, o \in BOOLEAN, pc \in {"inserted", "failed"} :
           /\ make' = [make EXCEPT ![r] = [make[r] EXCEPT !.pc = pc, !.offered = o]]
           /\ doc' = doc \/ doc' = [doc EXCEPT ![r] = NewReceipt(x)]
           /\ Fault \/ UNCHANGED faults
           /\ UNCHANGED <<req, heard>>
    BY <1>1, <1>5 DEF CreateInsert
  <2>2. SafeMaking(heard, r, [make[r] EXCEPT !.pc = pc, !.offered = o])
    BY <1>2, MakingSafe DEF MakePCs
  <2> QED BY <2>1, <2>2, NewReceiptSafe, FaultStep, MakeSafe
<1>6. CASE CreateReadBack(r)
  <2>1. /\ \/ \E pc \in {"read", "done"} :
                make' = [make EXCEPT ![r] = [make[r] EXCEPT !.pc = pc, !.read = doc[r].remarks]]
           \/ make' = [make EXCEPT ![r] = [make[r] EXCEPT !.pc = "failed"]]
        /\ Fault \/ UNCHANGED faults
        /\ UNCHANGED <<doc, req, heard>>
    BY <1>1, <1>6 DEF CreateReadBack
  <2>2. /\ \A pc \in {"read", "done"} :
              SafeMaking(heard, r, [make[r] EXCEPT !.pc = pc, !.read = doc[r].remarks])
        /\ SafeMaking(heard, r, [make[r] EXCEPT !.pc = "failed"])
    BY <1>2, MakingSafe DEF MakePCs
  <2> QED BY <1>2, <2>1, <2>2, FaultStep, MakeSafe
<1>7. CASE CreateTag(r)
  <2>1. PICK pc \in {"done", "failed"} :
           /\ make' = [make EXCEPT ![r] = [make[r] EXCEPT !.pc = pc]]
           /\ doc' = doc \/ doc' = [doc EXCEPT ![r] = new]
           /\ req' = req \/ req' = Outdated(r)
           /\ Fault \/ UNCHANGED faults
           /\ heard' = heard
    BY <1>1, <1>7 DEF CreateTag
  <2>2. SafeMaking(heard, r, [make[r] EXCEPT !.pc = pc])
    BY <1>2, MakingSafe DEF MakePCs
  <2>3. Tagged(make[r].read, "pending") \in Remarks
        /\ (Tagged(make[r].read, "pending").acked => r \in heard)
    BY <1>3, EditsType DEF Tags
  <2>4. SafeDoc(heard, r, new)
    BY <1>2, <2>3, RemarksSafe
  <2> QED BY <2>1, <2>2, <2>4, FaultStep, MakeSafe
<1> QED BY <1>4, <1>5, <1>6, <1>7 DEF CreateStep

-----------------------------------------------------------------------------
(* Replies *)

\* A reply that reads document r, safe as everything is.
LEMMA StartSafe ==
    ASSUME SInv, NEW r \in Receipts, NEW pc \in {"approving", "rejecting"}
    PROVE  SafeReply(heard, [NoReply EXCEPT !.pc = pc, !.on = r, !.seen = doc[r],
                                            !.fresh = TRUE])
<1> DEFINE p == [NoReply EXCEPT !.pc = pc, !.on = r, !.seen = doc[r], !.fresh = TRUE]
<1>1. SafeDoc(heard, r, doc[r]) /\ doc[r] \in Receipt
  BY DEF SInv
<1>2. /\ p.pc = pc /\ p.on = r /\ p.seen = doc[r] /\ p.latest = NoReceipt
  BY DEF NoReply
<1>3. p \in Reply
  BY <1>1, EmptyTypes DEF Reply, ReplyPCs
<1> HIDE DEF p
<1>4. SafeReply(heard, p)
  BY <1>1, <1>2, <1>3, EmptyTypes DEF SafeReply, Ended
<1> QED BY <1>4 DEF p

LEMMA DecidingSafe ==
    ASSUME SInv, NEW r \in Receipts, NEW acc \in Int, NEW ret \in Int,
           Acceptable(ReadQty(doc[r]), acc, ret)
    PROVE  SafeReply(heard, Deciding(r, acc, ret))
<1> DEFINE pc == IF FullReturn(ReadQty(doc[r]), acc, ret) THEN "returning" ELSE "deciding"
           p == [NoReply EXCEPT !.pc = pc, !.on = r, !.confirms = TRUE, !.acc = acc,
                                !.ret = ret, !.seen = doc[r], !.fresh = TRUE]
<1>1. SafeDoc(heard, r, doc[r]) /\ doc[r] \in Receipt
  BY DEF SInv
<1>2. pc \in {"returning", "deciding"}
  OBVIOUS
<1>3. Deciding(r, acc, ret) = p
  BY DEF Deciding
<1> HIDE DEF pc
<1>4. /\ p.pc = pc /\ p.on = r /\ p.seen = doc[r] /\ p.latest = NoReceipt
      /\ p.acc = acc /\ p.ret = ret
  BY DEF NoReply
<1>5. p \in Reply
  BY <1>1, <1>2, EmptyTypes DEF Reply, ReplyPCs
<1> HIDE DEF p
<1>6. SafeReply(heard, p)
  BY <1>1, <1>2, <1>4, <1>5, EmptyTypes DEF SafeReply
<1> QED BY <1>3, <1>6

\* A reply at work whose program counter moves, but not to where its quantities
\* or its comment are relied upon.
LEMMA PcSafe ==
    ASSUME SInv, NEW q \in Replies, req[q].pc \notin Ended,
           NEW pc \in {"written", "undoing", "approved"}, NEW f \in BOOLEAN,
           NEW n \in 0 .. 1
    PROVE  SafeReply(heard, [req[q] EXCEPT !.pc = pc, !.fresh = f, !.tries = n])
<1> DEFINE p == [req[q] EXCEPT !.pc = pc, !.fresh = f, !.tries = n]
<1>1. SafeReply(heard, req[q]) /\ req[q].on \in Receipts /\ req[q] \in Reply
  BY ReplyNow DEF SafeReply
<1>2. p \in Reply
  BY <1>1 DEF Reply, ReplyPCs
<1>3. p.pc = pc /\ p.on = req[q].on /\ p.seen = req[q].seen /\ p.latest = req[q].latest
  BY <1>1 DEF Reply
<1> HIDE DEF p
<1>4. SafeReply(heard, p)
  BY <1>1, <1>2, <1>3 DEF SafeReply
<1> QED BY <1>4 DEF p

LEMMA ConfirmStartSafe ==
    ASSUME SInv, NEW q \in Replies,
           (\E r \in Receipts : ConfirmRead(q, r)) \/ ConfirmRefuse(q)
    PROVE  SInv'
<1>1. faults' \in FaultTypes /\ UNCHANGED <<doc, make, heard>>
  BY DEF ConfirmRead, ConfirmRefuse, SInv
<1>2. CASE \E r \in Receipts : ConfirmRead(q, r)
  <2>1. PICK r \in Receipts, acc \in Amounts, ret \in Amounts :
           /\ Acceptable(ReadQty(doc[r]), acc, ret)
           /\ req' = [req EXCEPT ![q] = Deciding(r, acc, ret)]
    BY <1>2 DEF ConfirmRead
  <2>2. SafeReply(heard, Deciding(r, acc, ret))
    BY <2>1, DecidingSafe, ReceiptConstants
  <2> QED BY <1>1, <2>1, <2>2, ReplySafe
<1>3. CASE ConfirmRefuse(q)
  <2>1. req' = [req EXCEPT ![q] = [req[q] EXCEPT !.pc = "refused"]]
    BY <1>3 DEF ConfirmRefuse, SInv
  <2>2. SafeReply(heard, [req[q] EXCEPT !.pc = "refused"])
    <3>1. SafeReply(heard, req[q]) /\ req[q] \in Reply
      BY ReplyNow DEF SafeReply
    <3>2. /\ [req[q] EXCEPT !.pc = "refused"] \in Reply
          /\ [req[q] EXCEPT !.pc = "refused"].pc = "refused"
          /\ \A f \in {"on", "seen", "latest"} :
                [req[q] EXCEPT !.pc = "refused"][f] = req[q][f]
      BY <3>1 DEF Reply, ReplyPCs
    <3> QED BY <3>1, <3>2 DEF SafeReply, Ended
  <2> QED BY <1>1, <2>1, <2>2, ReplySafe
<1> QED BY <1>2, <1>3

LEMMA ReturnSafe ==
    ASSUME SInv, NEW q \in Replies, ConfirmReturn(q)
    PROVE  SInv'
<1> DEFINE d == doc[req[q].on]
           new == [d EXCEPT !.remarks = RemarksAfter(q)]
<1>1. req[q].pc = "returning" /\ UNCHANGED <<make, heard>>
  BY DEF ConfirmReturn
<1>2. req[q].on \in Receipts /\ SafeDoc(heard, req[q].on, d) /\ SafeReply(heard, req[q])
  BY <1>1, ReplyNow DEF Ended
<1>3. SafeDoc(heard, req[q].on, new)
  BY <1>1, <1>2, AfterSafe, RemarksSafe
<1>4. SafeReply(heard, Over(q, "done")) /\ SafeReply(heard, Over(q, "failed"))
  BY <1>2, OverSafe
<1>5. WriteBy(q, Writable(d), new, Over(q, "done"), Over(q, "failed"))
  BY DEF ConfirmReturn
<1>6. Writable(d) \in BOOLEAN
  BY DEF Writable
<1> HIDE DEF new
<1> QED BY <1>1, <1>2, <1>3, <1>4, <1>5, <1>6, WriteCases, WriteSafe

LEMMA ChangeSafe ==
    ASSUME SInv, NEW q \in Replies, ConfirmWrite(q)
    PROVE  SInv'
<1> DEFINE p == req[q]
           new == [p.seen EXCEPT !.qty = p.acc, !.rejected = p.ret,
                                 !.remarks = RemarksAfter(q)]
           next == [p EXCEPT !.pc = "written", !.fresh = FALSE]
           allowed == Accepts(doc[p.on], new, p.fresh)
<1>1. p.pc = "deciding" /\ UNCHANGED <<make, heard>>
  BY DEF ConfirmWrite
<1>2. p.on \in Receipts /\ SafeReply(heard, p) /\ p \in Reply /\ p.tries \in 0 .. 1
  BY <1>1, ReplyNow DEF Ended, SafeReply, Reply
<1>3. SafeDoc(heard, p.on, new)
  <2>1. SafeDoc(heard, p.on, p.seen) /\ p.acc \in Int /\ p.ret \in Int
    BY <1>2 DEF SafeReply, Reply
  <2>2. RemarksAfter(q) \in Remarks /\ (RemarksAfter(q).acked => p.on \in heard)
    BY <1>1, <1>2, AfterSafe
  <2>3. Acceptable(p.seen.sent, p.acc, p.ret) /\ p.seen.sent \in Nat
    BY <1>1, <1>2, <2>1, ReadIsSent DEF SafeReply
  <2>4. /\ new \in Receipt /\ new.sent = p.seen.sent /\ new.qty = p.acc
        /\ new.rejected = p.ret /\ new.remarks = RemarksAfter(q)
    BY <2>1, <2>2 DEF SafeDoc, Receipt
  <2> HIDE DEF new
  <2> QED BY <2>2, <2>3, <2>4 DEF SafeDoc, Acceptable
<1>4. SafeReply(heard, next)
  <2>1. next = [p EXCEPT !.pc = "written", !.fresh = FALSE, !.tries = p.tries]
    BY <1>2 DEF Reply
  <2> HIDE DEF next
  <2> QED BY <1>1, <1>2, <2>1, PcSafe DEF Ended
<1>5. SafeReply(heard, Over(q, "failed"))
  BY <1>2, OverSafe
<1>6. WriteBy(q, allowed, new, next, Over(q, "failed"))
  BY DEF ConfirmWrite
<1>7. allowed \in BOOLEAN
  BY DEF Accepts, Writable
<1> HIDE DEF new, next, allowed
<1> QED BY <1>1, <1>2, <1>3, <1>4, <1>5, <1>6, <1>7, WriteCases, WriteSafe

LEMMA LatestSafe ==
    ASSUME SInv, NEW q \in Replies, ConfirmLatest(q)
    PROVE  SInv'
<1> DEFINE p == req[q]
           next == [p EXCEPT !.pc = "latest", !.latest = doc[p.on], !.fresh = TRUE]
           undo == [p EXCEPT !.pc = "undoing"]
<1>1. p.pc = "written" /\ UNCHANGED <<doc, make, heard>>
  BY DEF ConfirmLatest
<1>2. /\ p.on \in Receipts /\ SafeReply(heard, p) /\ p \in Reply
      /\ SafeDoc(heard, p.on, doc[p.on])
  BY <1>1, ReplyNow DEF Ended, SafeReply
<1>3. /\ req' = [req EXCEPT ![q] = next] \/ req' = [req EXCEPT ![q] = undo]
      /\ Fault \/ UNCHANGED faults
  BY DEF ConfirmLatest, SInv
<1>4. SafeReply(heard, next)
  <2>1. next \in Reply
    BY <1>2 DEF Reply, ReplyPCs, SafeDoc
  <2>2. /\ next.pc = "latest" /\ next.on = p.on /\ next.seen = p.seen
        /\ next.latest = doc[p.on]
    BY <1>2 DEF Reply
  <2> HIDE DEF next
  <2> QED BY <1>2, <2>1, <2>2 DEF SafeReply
<1>5. SafeReply(heard, undo)
  <2>1. undo = [p EXCEPT !.pc = "undoing", !.fresh = p.fresh, !.tries = p.tries]
        /\ p.fresh \in BOOLEAN /\ p.tries \in 0 .. 1
    BY <1>2 DEF Reply
  <2> HIDE DEF undo
  <2> QED BY <1>1, <2>1, PcSafe DEF Ended
<1> HIDE DEF next, undo
<1> QED BY <1>1, <1>3, <1>4, <1>5, FaultStep, ReplySafe

LEMMA SubmitSafe ==
    ASSUME SInv, NEW q \in Replies, ConfirmSubmit(q)
    PROVE  SInv'
<1> DEFINE p == req[q]
           new == [p.latest EXCEPT !.state = "submitted"]
           undo == [p EXCEPT !.pc = "undoing"]
           allowed == Accepts(doc[p.on], p.latest, p.fresh)
<1>1. p.pc = "latest" /\ UNCHANGED <<make, heard>>
  BY DEF ConfirmSubmit
<1>2. p.on \in Receipts /\ SafeReply(heard, p) /\ p \in Reply
  BY <1>1, ReplyNow DEF Ended, SafeReply
<1>3. SafeDoc(heard, p.on, new)
  <2>1. SafeDoc(heard, p.on, p.latest)
    BY <1>2 DEF SafeReply
  <2> QED BY <2>1 DEF SafeDoc, Receipt, DocStates
<1>4. SafeReply(heard, undo)
  <2>1. undo = [p EXCEPT !.pc = "undoing", !.fresh = p.fresh, !.tries = p.tries]
        /\ p.fresh \in BOOLEAN /\ p.tries \in 0 .. 1
    BY <1>2 DEF Reply
  <2> HIDE DEF undo
  <2> QED BY <1>1, <2>1, PcSafe DEF Ended
<1>5. SafeReply(heard, Over(q, "done"))
  BY <1>2, OverSafe
<1>6. WriteBy(q, allowed, new, Over(q, "done"), undo)
  BY DEF ConfirmSubmit
<1>7. allowed \in BOOLEAN
  BY DEF Accepts, Writable
<1> HIDE DEF new, undo, allowed
<1> QED BY <1>1, <1>2, <1>3, <1>4, <1>5, <1>6, <1>7, WriteCases, WriteSafe

LEMMA RetrySafe ==
    ASSUME SInv, NEW q \in Replies, ConfirmRetry(q)
    PROVE  SInv'
<1> DEFINE next == [req[q] EXCEPT !.pc = "written", !.tries = 1]
<1>1. /\ req[q].pc = "latest" /\ UNCHANGED <<doc, make, heard, faults>>
      /\ req' = [req EXCEPT ![q] = next]
  BY DEF ConfirmRetry, SInv
<1>2. next = [req[q] EXCEPT !.pc = "written", !.fresh = req[q].fresh, !.tries = 1]
      /\ req[q].fresh \in BOOLEAN
  BY DEF SInv, Reply
<1> HIDE DEF next
<1>3. req[q].pc \notin Ended /\ 1 \in 0 .. 1
  BY <1>1 DEF Ended
<1>4. SafeReply(heard, next)
  BY <1>2, <1>3, PcSafe
<1> QED BY <1>1, <1>4, ReplySafe DEF SInv

LEMMA UndoSafe ==
    ASSUME SInv, NEW q \in Replies, ConfirmUndo(q)
    PROVE  SInv'
<1> DEFINE p == req[q]
           allowed == Accepts(doc[p.on], p.seen, FALSE)
<1>1. p.pc = "undoing" /\ UNCHANGED <<make, heard>>
  BY DEF ConfirmUndo
<1>2. p.on \in Receipts /\ SafeReply(heard, p) /\ SafeDoc(heard, p.on, p.seen)
  BY <1>1, ReplyNow DEF Ended, SafeReply
<1>3. SafeReply(heard, Over(q, "failed"))
  BY <1>2, OverSafe
<1>4. WriteBy(q, allowed, p.seen, Over(q, "failed"), Over(q, "failed"))
  BY DEF ConfirmUndo
<1>5. allowed \in BOOLEAN
  BY DEF Accepts, Writable
<1> HIDE DEF allowed
<1> QED BY <1>1, <1>2, <1>3, <1>4, <1>5, WriteCases, WriteSafe

LEMMA TagSafe ==
    ASSUME SInv, NEW q \in Replies, RespondReject(q) \/ RespondApprove(q)
    PROVE  SInv'
<1> DEFINE p == req[q]
           d == doc[p.on]
           new(t) == [d EXCEPT !.remarks = Tagged(p.seen.remarks, t)]
           told == [p EXCEPT !.pc = "approved"]
<1>1. p.pc \in {"approving", "rejecting"} /\ UNCHANGED <<make, heard>>
  BY DEF RespondReject, RespondApprove
<1>2. p.on \in Receipts /\ SafeReply(heard, p) /\ p \in Reply /\ SafeDoc(heard, p.on, d)
  BY <1>1, ReplyNow DEF Ended, SafeReply
<1>3. ASSUME NEW t \in Tags PROVE SafeDoc(heard, p.on, new(t))
  <2>1. p.seen.remarks \in Remarks /\ (p.seen.remarks.acked => p.on \in heard)
    BY <1>2 DEF SafeReply, SafeDoc, Receipt
  <2>2. /\ Tagged(p.seen.remarks, t) \in Remarks
        /\ Tagged(p.seen.remarks, t).acked => p.on \in heard
    BY <2>1, EditsType
  <2> QED BY <1>2, <2>2, RemarksSafe
<1>4. SafeReply(heard, told)
  <2>1. told = [p EXCEPT !.pc = "approved", !.fresh = p.fresh, !.tries = p.tries]
        /\ p.fresh \in BOOLEAN /\ p.tries \in 0 .. 1
    BY <1>2 DEF Reply
  <2> HIDE DEF told
  <2> QED BY <1>1, <2>1, PcSafe DEF Ended
<1>5. SafeReply(heard, Over(q, "done")) /\ SafeReply(heard, Over(q, "failed"))
  BY <1>2, OverSafe
<1>6. Writable(d) \in BOOLEAN
  BY DEF Writable
<1>7. CASE RespondReject(q)
  <2>1. WriteBy(q, Writable(d), new("rejected"), Over(q, "done"), Over(q, "failed"))
    BY <1>7 DEF RespondReject, TagWrite
  <2>2. SafeDoc(heard, p.on, new("rejected"))
    BY <1>3 DEF Tags
  <2> HIDE DEF new
  <2> QED BY <1>1, <1>2, <1>5, <1>6, <2>1, <2>2, WriteCases, WriteSafe
<1>8. CASE RespondApprove(q)
  <2>1. WriteBy(q, Writable(d), new("approved"), told, Over(q, "failed"))
    BY <1>8 DEF RespondApprove, TagWrite
  <2>2. SafeDoc(heard, p.on, new("approved"))
    BY <1>3 DEF Tags
  <2> HIDE DEF new, told
  <2> QED BY <1>1, <1>2, <1>4, <1>5, <1>6, <2>1, <2>2, WriteCases, WriteSafe
<1> QED BY <1>7, <1>8

LEMMA RespondSafe ==
    ASSUME SInv, NEW q \in Replies,
           (\E r \in Receipts : RespondRead(q, r)) \/ RespondConfirm(q)
    PROVE  SInv'
<1>1. /\ UNCHANGED <<doc, make, heard>>
      /\ Fault \/ UNCHANGED faults
  BY DEF RespondRead, RespondConfirm
<1>2. CASE \E r \in Receipts : RespondRead(q, r)
  <2>1. PICK r \in Receipts, pc \in {"approving", "rejecting"} :
           req' = [req EXCEPT ![q] = [NoReply EXCEPT !.pc = pc, !.on = r, !.seen = doc[r],
                                                     !.fresh = TRUE]]
    BY <1>2 DEF RespondRead, Reading
  <2> QED BY <1>1, <2>1, StartSafe, FaultStep, ReplySafe
<1>3. CASE RespondConfirm(q)
  <2> DEFINE sent == ReadQty(req[q].seen)
  <2>1. req[q].pc = "approved"
    BY <1>3 DEF RespondConfirm
  <2>2. req[q].on \in Receipts /\ SafeReply(heard, req[q])
    BY <2>1, ReplyNow DEF Ended
  <2>3. sent \in Int
    BY <2>2, ReadIsSent DEF SafeReply
  <2>4. \/ /\ Acceptable(ReadQty(doc[req[q].on]), sent, 0)
           /\ req' = [req EXCEPT ![q] = Deciding(req[q].on, sent, 0)]
        \/ req' = [req EXCEPT ![q] = Over(q, "failed")]
    BY <1>3 DEF RespondConfirm
  <2>5. SafeReply(heard, Over(q, "failed"))
    BY <2>2, OverSafe
  <2> HIDE DEF sent
  <2>6. Acceptable(ReadQty(doc[req[q].on]), sent, 0)
           => SafeReply(heard, Deciding(req[q].on, sent, 0))
    BY <2>2, <2>3, DecidingSafe
  <2> QED BY <1>1, <2>4, <2>5, <2>6, FaultStep, ReplySafe
<1> QED BY <1>2, <1>3

-----------------------------------------------------------------------------
(* Acknowledgements: the comment makes more things safe, never fewer *)

LEMMA HeardGrows ==
    ASSUME NEW h, NEW g, h \subseteq g, NEW r
    PROVE  /\ \A d : SafeDoc(h, r, d) => SafeDoc(g, r, d)
           /\ \A p : SafeReply(h, p) => SafeReply(g, p)
           /\ \A m : SafeMaking(h, r, m) => SafeMaking(g, r, m)
<1>1. \A s, d : SafeDoc(h, s, d) => SafeDoc(g, s, d)
  BY DEF SafeDoc
<1> QED BY <1>1 DEF SafeReply, SafeMaking

LEMMA SaySafe ==
    ASSUME SInv, NEW q \in Replies, NEW r \in Receipts, AckSay(q, r)
    PROVE  SInv'
<1> DEFINE p(pc) == [NoReply EXCEPT !.pc = pc, !.on = r]
<1>1. PICK pc \in {"said", "failed"} :
         /\ req' = [req EXCEPT ![q] = p(pc)]
         /\ heard' \in {heard, heard \cup {r}}
         /\ pc = "said" => r \in heard'
         /\ Fault \/ UNCHANGED faults
         /\ UNCHANGED <<doc, make>>
  BY DEF AckSay
<1>2. heard \subseteq heard' /\ heard' \subseteq Receipts
  BY <1>1 DEF SInv
<1>3. SafeReply(heard', p(pc))
  <2>1. p(pc) \in Reply
    BY EmptyTypes DEF Reply, ReplyPCs
  <2>2. /\ p(pc).pc = pc /\ p(pc).on = r
        /\ p(pc).seen = NoReceipt /\ p(pc).latest = NoReceipt
    BY DEF NoReply
  <2> HIDE DEF p
  <2> QED BY <1>1, <2>1, <2>2, EmptyTypes DEF SafeReply
<1> HIDE DEF p
<1>4. req' \in [Replies -> Reply] /\ \A x \in Replies : SafeReply(heard', req'[x])
  BY <1>1, <1>2, <1>3, HeardGrows DEF SInv, SafeReply
<1>5. \A s \in Receipts : SafeDoc(heard', s, doc[s]) /\ SafeMaking(heard', s, make[s])
  BY <1>2, HeardGrows DEF SInv
<1>6. /\ \A x \in Replies : SafeReply(heard, req[x])' <=> SafeReply(heard', req'[x])
      /\ \A s \in Receipts :
            /\ SafeDoc(heard, s, doc[s])' <=> SafeDoc(heard', s, doc'[s])
            /\ SafeMaking(heard, s, make[s])' <=> SafeMaking(heard', s, make'[s])
  BY DEF SafeReply, SafeDoc, SafeMaking
<1> QED BY <1>1, <1>2, <1>4, <1>5, <1>6, FaultStep DEF SInv

LEMMA AckSafe ==
    ASSUME SInv, NEW q \in Replies, AckRead(q) \/ AckWrite(q)
    PROVE  SInv'
<1> DEFINE p == req[q]
           d == doc[p.on]
           new == [d EXCEPT !.remarks = Acknowledged(p.seen.remarks)]
           next == [NoReply EXCEPT !.pc = "acking", !.on = p.on, !.seen = d, !.fresh = TRUE]
<1>1. p.pc \in {"said", "acking"} /\ UNCHANGED <<make, heard>>
  BY DEF AckRead, AckWrite
<1>2. /\ p.on \in Receipts /\ p.on \in heard
      /\ SafeReply(heard, p) /\ SafeDoc(heard, p.on, d) /\ d \in Receipt
  BY <1>1, ReplyNow DEF Ended, SafeReply, SafeDoc
<1>3. \A pc \in {"done", "failed"} : SafeReply(heard, Over(q, pc))
  BY <1>2, OverSafe
<1>4. CASE AckRead(q)
  <2>1. /\ \/ req' = [req EXCEPT ![q] = next]
           \/ req' = [req EXCEPT ![q] = Over(q, "failed")]
        /\ Fault \/ UNCHANGED faults
        /\ doc' = doc
    BY <1>4 DEF AckRead, Reading
  <2>2. SafeReply(heard, next)
    <3>1. next \in Reply
      BY <1>2, EmptyTypes DEF Reply, ReplyPCs
    <3>2. /\ next.pc = "acking" /\ next.on = p.on
          /\ next.seen = d /\ next.latest = NoReceipt
      BY DEF NoReply
    <3> HIDE DEF next
    <3> QED BY <1>2, <3>1, <3>2, EmptyTypes DEF SafeReply
  <2> HIDE DEF next
  <2> QED BY <1>1, <1>3, <2>1, <2>2, FaultStep, ReplySafe
<1>5. CASE AckWrite(q)
  <2>1. WriteBy(q, Writable(d), new, Over(q, "done"), Over(q, "done"))
    BY <1>5 DEF AckWrite
  <2>2. Acknowledged(p.seen.remarks) \in Remarks
    BY <1>2, EditsType DEF SafeReply, SafeDoc, Receipt
  <2>3. SafeDoc(heard, p.on, new)
    BY <1>2, <2>2, RemarksSafe
  <2>4. Writable(d) \in BOOLEAN
    BY DEF Writable
  <2> HIDE DEF new
  <2> QED BY <1>1, <1>2, <1>3, <2>1, <2>3, <2>4, WriteCases, WriteSafe
<1> QED BY <1>4, <1>5

-----------------------------------------------------------------------------
(* The office, and a crash *)

LEMMA CancelSafe ==
    ASSUME SInv, NEW r \in Receipts, OfficeCancel(r)
    PROVE  SInv'
<1> DEFINE d == [doc[r] EXCEPT !.state = "cancelled"]
<1>1. /\ doc' = [doc EXCEPT ![r] = d] /\ req' = Outdated(r)
      /\ UNCHANGED <<make, heard>> /\ faults' \in FaultTypes
  BY DEF OfficeCancel, SInv
<1>2. SafeDoc(heard, r, d)
  BY DEF SInv, SafeDoc, Receipt, DocStates
<1> HIDE DEF d
<1>3. make' = [make EXCEPT ![r] = make[r]] /\ SafeMaking(heard, r, make[r])
  BY <1>1 DEF SInv
<1> QED BY <1>1, <1>2, <1>3, MakeSafe

LEMMA CrashSafe ==
    ASSUME SInv, Crash
    PROVE  SInv'
<1>1. /\ UNCHANGED <<doc, heard>>
      /\ make' = [r \in Receipts |->
                    IF Creating(r) THEN [make[r] EXCEPT !.pc = "failed"] ELSE make[r]]
      /\ req' = [q \in Replies |-> IF Working(q) THEN Over(q, "failed") ELSE req[q]]
  BY DEF Crash
<1>2. faults' \in FaultTypes
  BY DEF Crash, SInv, FaultTypes
<1>3. ASSUME NEW q \in Replies PROVE SafeReply(heard, req'[q])
  BY <1>1, ReplyNow, OverSafe
<1>4. ASSUME NEW r \in Receipts PROVE SafeMaking(heard, r, make'[r])
  <2>1. SafeMaking(heard, r, make[r]) /\ NoRemarks \in Remarks /\ ~ NoRemarks.acked
    BY EmptyTypes DEF SInv, NoRemarks
  <2>2. SafeMaking(heard, r, [make[r] EXCEPT !.pc = "failed"])
    BY <2>1, MakingSafe DEF MakePCs
  <2> QED BY <1>1, <2>1, <2>2
<1>5. req' \in [Replies -> Reply] /\ make' \in [Receipts -> Making]
  BY <1>1, <1>3, <1>4 DEF SafeReply, SafeMaking
<1>6. /\ \A x \in Replies : SafeReply(heard, req[x])' <=> SafeReply(heard', req'[x])
      /\ \A s \in Receipts :
            /\ SafeDoc(heard, s, doc[s])' <=> SafeDoc(heard', s, doc'[s])
            /\ SafeMaking(heard, s, make[s])' <=> SafeMaking(heard', s, make'[s])
  BY DEF SafeReply, SafeDoc, SafeMaking
<1> QED BY <1>1, <1>2, <1>3, <1>4, <1>5, <1>6 DEF SInv

-----------------------------------------------------------------------------
LEMMA SafeInit == Init => SInv
<1>1. SUFFICES ASSUME Init PROVE SInv
  OBVIOUS
<1>2. \A r \in Receipts : make[r] = [pc |-> "idle", offered |-> FALSE, read |-> NoRemarks]
  BY <1>1 DEF Init
<1>3. \A r \in Receipts : SafeMaking(heard, r, make[r])
  <2>1. NoRemarks \in Remarks /\ ~ NoRemarks.acked
    BY EmptyTypes DEF NoRemarks
  <2>2. [pc |-> "idle", offered |-> FALSE, read |-> NoRemarks] \in Making
    BY <2>1 DEF Making, MakePCs
  <2>3. \A r \in Receipts : make[r].read = NoRemarks
    BY <1>2
  <2> QED BY <1>2, <2>1, <2>2, <2>3 DEF SafeMaking
<1>4. make \in [Receipts -> Making]
  BY <1>1, <1>3 DEF Init, SafeMaking
<1>5. faults \in FaultTypes
  BY <1>1 DEF Init, FaultTypes
<1> QED BY <1>1, <1>3, <1>4, <1>5, EmptyTypes DEF Init, SInv

LEMMA SafeNext == SInv /\ [Next]_vars => SInv'
<1> SUFFICES ASSUME SInv, [Next]_vars PROVE SInv'
  OBVIOUS
<1>1. CASE \E r \in Receipts :
               CreateRefuse(r) \/ CreateInsert(r) \/ CreateStep(r) \/ OfficeCancel(r)
  BY <1>1, CreateSafe, CancelSafe
<1>2. CASE \E q \in Replies, r \in Receipts :
               ConfirmRead(q, r) \/ RespondRead(q, r) \/ AckSay(q, r)
  BY <1>2, ConfirmStartSafe, RespondSafe, SaySafe
<1>3. CASE \E q \in Replies : ConfirmRefuse(q) \/ ReplyStep(q)
  BY <1>3, ConfirmStartSafe, ReturnSafe, ChangeSafe, LatestSafe, SubmitSafe, RetrySafe,
     UndoSafe, TagSafe, RespondSafe, AckSafe
     DEF ReplyStep, ConfirmStep, RespondStep
<1>4. CASE Crash
  BY <1>4, CrashSafe
<1>5. CASE UNCHANGED vars
  BY <1>5 DEF vars, SInv, SafeReply, SafeDoc, SafeMaking
<1> QED BY <1>1, <1>2, <1>3, <1>4, <1>5 DEF Next

LEMMA SafeAlways == Spec => []SInv
<1> QED BY SafeInit, SafeNext, PTL DEF Spec

\* Every variable of the receipts keeps its type.
THEOREM ReceiptTypes == Spec => []TypeOK
<1> QED BY SafeAlways, SafeImplies, PTL

\* However requests overlap and whatever fails, no more is accepted than the supplier
\* sent, and of a receipt accepted in part no more is rejected than the rest.  Of one
\* accepted as a whole nothing is said: its rejected quantity is not checked.
THEOREM ReceiptsWithinSent == Spec => []WithinSent
<1> QED BY SafeAlways, SafeImplies, PTL

\* An acknowledgement line in the remarks stands for a comment in ERPNext, even
\* if old remarks are written over newer ones.
THEOREM AcknowledgementsWereSaid == Spec => []AckWasSaid
<1> QED BY SafeAlways, SafeImplies, PTL

-----------------------------------------------------------------------------
(* What is booked was decided.  ERPNext is to check time stamps: then what   *)
(* ConfirmUndo writes, with the stamp of its first read, is refused.         *)

Settled == {"submitted", "cancelled"}

\* Some request in rq decided the quantities of d, a document of receipt r.
ByRequest(rq, r, d) ==
    \E q \in Replies : /\ rq[q].confirms /\ rq[q].on = r
                       /\ rq[q].acc = d.qty /\ rq[q].ret = d.rejected

\* A reply has taken a decision or has not, by where it is.
Chosen(p) ==
    /\ p.pc \in {"deciding", "written", "latest"} => p.confirms
    /\ p.pc \in {"idle", "approving", "approved", "rejecting", "said", "acking"}
          => ~ p.confirms

\* A reply that is about to submit finds, and holds, quantities that were decided.
Ready(rq, dc, p) ==
    /\ p.pc \in {"written", "latest"} => ByRequest(rq, p.on, dc[p.on])
    /\ p.pc = "latest" => ByRequest(rq, p.on, p.latest)

DInv ==
    /\ \A r \in Receipts : make[r].pc = "idle" =>
          doc[r].state = "none" /\ \A q \in Replies : req[q].on # r
    /\ \A q \in Replies : Chosen(req[q]) /\ Ready(req, doc, req[q])
    /\ \A r \in Receipts : doc[r].state \in Settled => ByRequest(req, r, doc[r])

LEMMA DecidedImplies == DInv => QuantityWasDecided
BY DEF DInv, QuantityWasDecided, ByRequest, Settled

\* A decision stays on record.
Decides(p, n) ==
    p.confirms => n.confirms /\ n.on = p.on /\ n.acc = p.acc /\ n.ret = p.ret

LEMMA OnRecord ==
    ASSUME \A q \in Replies : Decides(req[q], req'[q]), NEW r, NEW d, NEW e,
           e.qty = d.qty, e.rejected = d.rejected, ByRequest(req, r, d)
    PROVE  ByRequest(req', r, e)
BY DEF ByRequest, Decides

\* The same but for the freshness, and perhaps the copy that was read first.
Alike(p, n) ==
    /\ n.pc = p.pc /\ n.on = p.on /\ n.confirms = p.confirms
    /\ n.acc = p.acc /\ n.ret = p.ret /\ n.latest = p.latest

\* The same goods in the same or an earlier state.
SameGoods(d, e) ==
    /\ e.qty = d.qty /\ e.rejected = d.rejected
    /\ e.state \in Settled => d.state \in Settled
    /\ d.state = "none" => e.state = "none"

LEMMA AlikeReady ==
    ASSUME SInv, DInv, NEW p \in Replies, Alike(req[p], req'[p]),
           \A q \in Replies : Decides(req[q], req'[q]),
           \A r \in Receipts : \/ SameGoods(doc[r], doc'[r])
                               \/ ByRequest(req', r, doc'[r])
                               \/ make[r].pc = "idle"
    PROVE  Chosen(req'[p]) /\ Ready(req', doc', req'[p])
<1> DEFINE n == req'[p]
           r == req[p].on
<1>1. Chosen(n)
  BY DEF DInv, Alike, Chosen
<1>2. ASSUME n.pc \in {"written", "latest"}
      PROVE  ByRequest(req', n.on, doc'[n.on])
  <2>1. /\ req[p].pc \in {"written", "latest"} /\ n.on = r /\ r \in Receipts
        /\ ByRequest(req, r, doc[r]) /\ make[r].pc # "idle"
    BY <1>2, ReplyNow DEF Alike, Ended, DInv, Ready
  <2>2. CASE SameGoods(doc[r], doc'[r])
    BY <2>1, <2>2, OnRecord DEF SameGoods
  <2> QED BY <2>1, <2>2
<1>3. ASSUME n.pc = "latest"
      PROVE  ByRequest(req', n.on, n.latest)
  <2>1. n.on = req[p].on /\ n.latest = req[p].latest /\ ByRequest(req, n.on, n.latest)
    BY <1>3 DEF Alike, DInv, Ready
  <2> QED BY <2>1, OnRecord
<1> QED BY <1>1, <1>2, <1>3 DEF Ready

\* One reply moves: a document it does not leave as it was says what was decided.
LEMMA ReplyDecides ==
    ASSUME SInv, DInv, NEW q \in Replies, make' = make,
           \A p \in Replies : p # q => Alike(req[p], req'[p]),
           Decides(req[q], req'[q]), Chosen(req'[q]), Ready(req', doc', req'[q]),
           \A r \in Receipts : make[r].pc = "idle" => req'[q].on # r,
           \A r \in Receipts :
              \/ SameGoods(doc[r], doc'[r])
              \/ ByRequest(req', r, doc'[r]) /\ make[r].pc # "idle"
    PROVE  DInv'
<1>1. \A p \in Replies : Decides(req[p], req'[p])
  BY DEF Alike, Decides
<1>2. \A p \in Replies : Chosen(req'[p]) /\ Ready(req', doc', req'[p])
  BY <1>1, AlikeReady
<1>3. ASSUME NEW r \in Receipts, doc'[r].state \in Settled
      PROVE  ByRequest(req', r, doc'[r])
  <2>1. CASE SameGoods(doc[r], doc'[r])
    BY <1>1, <1>3, <2>1, OnRecord DEF SameGoods, DInv
  <2> QED BY <2>1
<1>4. ASSUME NEW r \in Receipts, make[r].pc = "idle"
      PROVE  doc'[r].state = "none" /\ \A p \in Replies : req'[p].on # r
  BY <1>4 DEF DInv, SameGoods, Alike
<1>5. /\ \A p \in Replies : (Chosen(req[p]) /\ Ready(req, doc, req[p]))'
                               <=> Chosen(req'[p]) /\ Ready(req', doc', req'[p])
      /\ \A r \in Receipts : ByRequest(req, r, doc[r])' <=> ByRequest(req', r, doc'[r])
  BY DEF Chosen, Ready, ByRequest
<1> QED BY <1>2, <1>3, <1>4, <1>5 DEF DInv, Settled

\* A creating request moves, or the office cancels what is booked.
LEMMA OfficeDecides ==
    ASSUME SInv, DInv, \A p \in Replies : Alike(req[p], req'[p]),
           \A r \in Receipts : make'[r].pc = "idle" =>
              make[r].pc = "idle" /\ SameGoods(doc[r], doc'[r]),
           \A r \in Receipts :
              \/ SameGoods(doc[r], doc'[r])
              \/ make[r].pc = "idle" /\ doc'[r].state \notin Settled
    PROVE  DInv'
<1>1. \A p \in Replies : Decides(req[p], req'[p])
  BY DEF Alike, Decides
<1>2. \A p \in Replies : Chosen(req'[p]) /\ Ready(req', doc', req'[p])
  BY <1>1, AlikeReady
<1>3. ASSUME NEW r \in Receipts, doc'[r].state \in Settled
      PROVE  ByRequest(req', r, doc'[r])
  BY <1>1, <1>3, OnRecord DEF SameGoods, DInv
<1>4. ASSUME NEW r \in Receipts, make'[r].pc = "idle"
      PROVE  doc'[r].state = "none" /\ \A p \in Replies : req'[p].on # r
  BY <1>4 DEF DInv, SameGoods, Alike
<1>5. /\ \A p \in Replies : (Chosen(req[p]) /\ Ready(req, doc, req[p]))'
                               <=> Chosen(req'[p]) /\ Ready(req', doc', req'[p])
      /\ \A r \in Receipts : ByRequest(req, r, doc[r])' <=> ByRequest(req', r, doc'[r])
  BY DEF Chosen, Ready, ByRequest
<1> QED BY <1>2, <1>3, <1>4, <1>5 DEF DInv, Settled

LEMMA OthersAlike ==
    ASSUME SInv, NEW q \in Replies, NEW x, NEW r \in Receipts,
           \/ req' = [req EXCEPT ![q] = x]
           \/ req' = [Outdated(r) EXCEPT ![q] = x]
    PROVE  req'[q] = x /\ \A p \in Replies : p # q => Alike(req[p], req'[p])
<1>1. req \in [Replies -> Reply]
  BY DEF SInv
<1>2. CASE req' = [req EXCEPT ![q] = x]
  BY <1>1, <1>2 DEF Alike
<1>3. CASE req' = [Outdated(r) EXCEPT ![q] = x]
  <2>1. \A p \in Replies :
           Outdated(r)[p] = IF req[p].on = r THEN [req[p] EXCEPT !.fresh = FALSE] ELSE req[p]
    BY DEF Outdated
  <2>2. \A p \in Replies : Alike(req[p], Outdated(r)[p])
    BY <1>1, <2>1 DEF Alike, Reply
  <2>3. req'[q] = x /\ \A p \in Replies : p # q => req'[p] = Outdated(r)[p]
    BY <1>3, OutdatedSafe
  <2> QED BY <2>2, <2>3
<1> QED BY <1>2, <1>3

LEMMA OutdatedAlike ==
    ASSUME SInv, NEW r \in Receipts, req' = req \/ req' = Outdated(r)
    PROVE  \A p \in Replies : Alike(req[p], req'[p])
<1>1. req \in [Replies -> Reply]
  BY DEF SInv
<1>2. \A p \in Replies :
         Outdated(r)[p] = IF req[p].on = r THEN [req[p] EXCEPT !.fresh = FALSE] ELSE req[p]
  BY DEF Outdated
<1> QED BY <1>1, <1>2 DEF Alike, Reply

\* A request that is over stands by its decision and is about to do nothing.
LEMMA OverFields ==
    ASSUME SInv, NEW q \in Replies, NEW pc
    PROVE  LET x == Over(q, pc)
           IN  x.pc = pc /\ x.on = req[q].on /\ Decides(req[q], x)
<1>1. req[q] \in Reply
  BY DEF SInv
<1> QED BY <1>1 DEF Over, Reply, Decides

\* A working request is about a receipt that has been created.
LEMMA Born ==
    ASSUME DInv, NEW q \in Replies
    PROVE  \A r \in Receipts : make[r].pc = "idle" => req[q].on # r
BY DEF DInv

\* A document is left alone, or its remarks are written.
LEMMA RemarksSame ==
    ASSUME SInv, NEW r \in Receipts, NEW rm,
           doc' = doc \/ doc' = [doc EXCEPT ![r] = [doc[r] EXCEPT !.remarks = rm]]
    PROVE  \A s \in Receipts : SameGoods(doc[s], doc'[s])
<1>1. doc \in [Receipts -> Receipt]
  BY DEF SInv
<1>2. SameGoods(doc[r], [doc[r] EXCEPT !.remarks = rm])
  BY <1>1 DEF SameGoods, Receipt
<1>3. CASE doc' = doc
  BY <1>3 DEF SameGoods
<1>4. CASE doc' = [doc EXCEPT ![r] = [doc[r] EXCEPT !.remarks = rm]]
  BY <1>1, <1>2, <1>4 DEF SameGoods
<1> QED BY <1>3, <1>4

\* A reply that writes remarks at most, and is not about to submit.
LEMMA QuietReply ==
    ASSUME SInv, DInv, NEW q \in Replies, NEW x, NEW r \in Receipts, NEW rm,
           make' = make,
           \/ req' = [req EXCEPT ![q] = x]
           \/ req' = [Outdated(r) EXCEPT ![q] = x],
           doc' = doc \/ doc' = [doc EXCEPT ![r] = [doc[r] EXCEPT !.remarks = rm]],
           Decides(req[q], x), Chosen(x), x.pc \notin {"written", "latest"},
           \A s \in Receipts : make[s].pc = "idle" => x.on # s
    PROVE  DInv'
<1>1. req'[q] = x /\ \A p \in Replies : p # q => Alike(req[p], req'[p])
  BY OthersAlike
<1>2. Ready(req', doc', req'[q])
  BY <1>1 DEF Ready
<1> QED BY <1>1, <1>2, RemarksSame, ReplyDecides

\* The start of a request: it has decided nothing before.
LEMMA StartDecides ==
    ASSUME SInv, DInv, NEW q \in Replies, NEW r \in Receipts, NEW x,
           doc[r].state # "none", x.on = r, ~ req[q].confirms,
           Chosen(x), x.pc \notin {"written", "latest"},
           req' = [req EXCEPT ![q] = x], UNCHANGED <<doc, make>>
    PROVE  DInv'
<1>1. \A s \in Receipts : make[s].pc = "idle" => x.on # s
  BY DEF DInv
<1>2. Decides(req[q], x)
  BY DEF Decides
<1> QED BY <1>1, <1>2, QuietReply

LEMMA NotYet ==
    ASSUME DInv, NEW q \in Replies,
           req[q].pc \in {"idle", "approving", "approved", "rejecting", "said", "acking"}
    PROVE  ~ req[q].confirms
BY DEF DInv, Chosen

LEMMA DecidingFields ==
    ASSUME NEW r, NEW acc, NEW ret
    PROVE  LET x == Deciding(r, acc, ret)
           IN  x.pc \in {"returning", "deciding"} /\ x.on = r /\ x.confirms
BY DEF Deciding, NoReply

LEMMA ReadingDecides ==
    ASSUME SInv, DInv, NEW q \in Replies, NEW r \in Receipts,
           ConfirmRead(q, r) \/ RespondRead(q, r) \/ AckSay(q, r)
    PROVE  DInv'
<1>1. /\ req[q].pc = "idle" /\ doc[r].state # "none" /\ UNCHANGED <<doc, make>>
  BY DEF ConfirmRead, RespondRead, AckSay
<1>2. CASE ConfirmRead(q, r)
  <2>1. PICK acc \in Amounts, ret \in Amounts : req' = [req EXCEPT ![q] = Deciding(r, acc, ret)]
    BY <1>2 DEF ConfirmRead
  <2> DEFINE x == Deciding(r, acc, ret)
  <2>2. x.pc \in {"returning", "deciding"} /\ x.on = r /\ x.confirms
    BY DecidingFields
  <2>3. Chosen(x)
    BY <2>2 DEF Chosen
  <2>4. req' = [req EXCEPT ![q] = x] /\ ~ req[q].confirms
    BY <1>1, <2>1, NotYet
  <2> HIDE DEF x
  <2> QED BY <1>1, <2>2, <2>3, <2>4, StartDecides
<1>3. CASE RespondRead(q, r)
  <2> DEFINE x(pc) == [NoReply EXCEPT !.pc = pc, !.on = r, !.seen = doc[r], !.fresh = TRUE]
  <2>1. PICK pc \in {"approving", "rejecting"} : req' = [req EXCEPT ![q] = x(pc)]
    BY <1>3 DEF RespondRead, Reading
  <2>2. x(pc).pc = pc /\ x(pc).on = r /\ ~ x(pc).confirms
    BY DEF NoReply
  <2> HIDE DEF x
  <2>3. Chosen(x(pc))
    BY <2>2 DEF Chosen
  <2> QED BY <1>1, <2>1, <2>2, <2>3, NotYet, StartDecides
<1>4. CASE AckSay(q, r)
  <2> DEFINE x(pc) == [NoReply EXCEPT !.pc = pc, !.on = r]
  <2>1. PICK pc \in {"said", "failed"} : req' = [req EXCEPT ![q] = x(pc)]
    BY <1>4 DEF AckSay
  <2>2. x(pc).pc = pc /\ x(pc).on = r /\ ~ x(pc).confirms
    BY DEF NoReply
  <2> HIDE DEF x
  <2>3. Chosen(x(pc))
    BY <2>2 DEF Chosen
  <2> QED BY <1>1, <2>1, <2>2, <2>3, NotYet, StartDecides
<1> QED BY <1>2, <1>3, <1>4

\* What a quiet step may leave of request q.
Resting(q, x) ==
    /\ Decides(req[q], x) /\ Chosen(x)
    /\ x.on = req[q].on /\ x.pc \notin {"written", "latest"}

LEMMA QuietWrite ==
    ASSUME SInv, DInv, NEW q \in Replies, req[q].on \in Receipts, NEW rm,
           NEW next, NEW otherwise, Resting(q, next), Resting(q, otherwise),
           NEW allowed \in BOOLEAN,
           WriteBy(q, allowed, [doc[req[q].on] EXCEPT !.remarks = rm], next, otherwise),
           make' = make
    PROVE  DInv'
<1> DEFINE r == req[q].on
           new == [doc[r] EXCEPT !.remarks = rm]
<1>1. PICK x \in {next, otherwise} :
         /\ \/ req' = [req EXCEPT ![q] = x]
            \/ req' = [Outdated(r) EXCEPT ![q] = x]
         /\ doc' = doc \/ doc' = [doc EXCEPT ![r] = new]
  BY WriteCases DEF Written
<1>2. Resting(q, x)
  OBVIOUS
<1>3. \A s \in Receipts : make[s].pc = "idle" => x.on # s
  BY <1>2, Born DEF Resting
<1> QED BY <1>1, <1>2, <1>3, QuietReply DEF Resting

LEMMA OverRests ==
    ASSUME SInv, NEW q \in Replies, NEW pc \in {"done", "failed"}
    PROVE  Resting(q, Over(q, pc))
BY OverFields DEF Resting, Chosen

\* Only the program counter moves.
LEMMA PcRests ==
    ASSUME SInv, DInv, NEW q \in Replies, NEW pc \in {"refused", "undoing", "approved"},
           pc = "approved" => req[q].pc = "approving"
    PROVE  Resting(q, [req[q] EXCEPT !.pc = pc])
<1> DEFINE x == [req[q] EXCEPT !.pc = pc]
<1>1. req[q] \in Reply
  BY DEF SInv
<1>2. /\ x.pc = pc /\ x.on = req[q].on /\ x.confirms = req[q].confirms
      /\ x.acc = req[q].acc /\ x.ret = req[q].ret
  BY <1>1 DEF Reply
<1>3. pc = "approved" => ~ req[q].confirms
  BY NotYet
<1> HIDE DEF x
<1>4. Resting(q, x)
  BY <1>2, <1>3 DEF Resting, Decides, Chosen
<1> QED BY <1>4 DEF x

\* A quiet step that writes nothing.
LEMMA QuietMove ==
    ASSUME SInv, DInv, NEW q \in Replies, req[q].on \in Receipts \/ req[q].pc = "idle",
           NEW x, Resting(q, x), req' = [req EXCEPT ![q] = x], UNCHANGED <<doc, make>>
    PROVE  DInv'
<1>1. req'[q] = x /\ \A p \in Replies : p # q => Alike(req[p], req'[p])
  BY DEF SInv, Alike
<1>2. /\ Decides(req[q], req'[q]) /\ Chosen(req'[q]) /\ Ready(req', doc', req'[q])
      /\ \A r \in Receipts : make[r].pc = "idle" => req'[q].on # r
  BY <1>1, Born DEF Resting, Ready
<1>3. \A r \in Receipts : SameGoods(doc[r], doc'[r])
  BY DEF SameGoods
<1> QED BY <1>1, <1>2, <1>3, ReplyDecides

LEMMA ConfirmQuietly ==
    ASSUME SInv, DInv, NEW q \in Replies, ConfirmRefuse(q) \/ ConfirmReturn(q)
    PROVE  DInv'
<1>1. CASE ConfirmRefuse(q)
  <2>1. /\ req[q].pc = "idle" /\ UNCHANGED <<doc, make>>
        /\ req' = [req EXCEPT ![q] = [req[q] EXCEPT !.pc = "refused"]]
    BY <1>1 DEF ConfirmRefuse, SInv
  <2>2. Resting(q, [req[q] EXCEPT !.pc = "refused"])
    BY PcRests
  <2> QED BY <2>1, <2>2, QuietMove
<1>2. CASE ConfirmReturn(q)
  <2>1. /\ req[q].pc = "returning" /\ make' = make
        /\ WriteBy(q, Writable(doc[req[q].on]),
                   [doc[req[q].on] EXCEPT !.remarks = RemarksAfter(q)],
                   Over(q, "done"), Over(q, "failed"))
    BY <1>2 DEF ConfirmReturn
  <2>2. req[q].on \in Receipts
    BY <2>1, ReplyNow DEF Ended
  <2>3. Writable(doc[req[q].on]) \in BOOLEAN
    BY DEF Writable
  <2>4. Resting(q, Over(q, "done")) /\ Resting(q, Over(q, "failed"))
    BY OverRests
  <2> QED BY <2>1, <2>2, <2>3, <2>4, QuietWrite
<1> QED BY <1>1, <1>2

LEMMA AnswerDecides ==
    ASSUME SInv, DInv, NEW q \in Replies, RespondReject(q) \/ RespondApprove(q) \/ AckWrite(q)
    PROVE  DInv'
<1> DEFINE d == doc[req[q].on]
<1>1. req[q].pc \in {"rejecting", "approving", "acking"} /\ make' = make
  BY DEF RespondReject, RespondApprove, AckWrite
<1>2. req[q].on \in Receipts
  BY <1>1, ReplyNow DEF Ended
<1>3. Writable(d) \in BOOLEAN
  BY DEF Writable
<1>4. Resting(q, Over(q, "done")) /\ Resting(q, Over(q, "failed"))
  BY OverRests
<1>5. CASE RespondReject(q)
  <2>1. WriteBy(q, Writable(d), [d EXCEPT !.remarks = Tagged(req[q].seen.remarks, "rejected")],
                Over(q, "done"), Over(q, "failed"))
    BY <1>5 DEF RespondReject, TagWrite
  <2> QED BY <1>1, <1>2, <1>3, <1>4, <2>1, QuietWrite
<1>6. CASE RespondApprove(q)
  <2>1. /\ req[q].pc = "approving"
        /\ WriteBy(q, Writable(d), [d EXCEPT !.remarks = Tagged(req[q].seen.remarks, "approved")],
                   [req[q] EXCEPT !.pc = "approved"], Over(q, "failed"))
    BY <1>6 DEF RespondApprove, TagWrite
  <2>2. Resting(q, [req[q] EXCEPT !.pc = "approved"])
    BY <2>1, PcRests
  <2> QED BY <1>1, <1>2, <1>3, <1>4, <2>1, <2>2, QuietWrite
<1>7. CASE AckWrite(q)
  <2>1. WriteBy(q, Writable(d), [d EXCEPT !.remarks = Acknowledged(req[q].seen.remarks)],
                Over(q, "done"), Over(q, "done"))
    BY <1>7 DEF AckWrite
  <2> QED BY <1>1, <1>2, <1>3, <1>4, <2>1, QuietWrite
<1> QED BY <1>5, <1>6, <1>7

LEMMA ReadAgainDecides ==
    ASSUME SInv, DInv, NEW q \in Replies, RespondConfirm(q) \/ AckRead(q)
    PROVE  DInv'
<1> DEFINE r == req[q].on
           acking == [NoReply EXCEPT !.pc = "acking", !.on = r, !.seen = doc[r], !.fresh = TRUE]
<1>1. /\ req[q].pc \in {"approved", "said"} /\ ~ req[q].confirms
      /\ UNCHANGED <<doc, make>>
  BY NotYet DEF RespondConfirm, AckRead
<1>2. r \in Receipts
  BY <1>1, ReplyNow DEF Ended
<1>3. Resting(q, Over(q, "failed"))
  BY OverRests
<1>4. CASE RespondConfirm(q)
  <2>1. \/ req' = [req EXCEPT ![q] = Deciding(r, ReadQty(req[q].seen), 0)]
        \/ req' = [req EXCEPT ![q] = Over(q, "failed")]
    BY <1>4 DEF RespondConfirm
  <2>2. Resting(q, Deciding(r, ReadQty(req[q].seen), 0))
    <3> DEFINE x == Deciding(r, ReadQty(req[q].seen), 0)
    <3>1. x.pc \in {"returning", "deciding"} /\ x.on = r /\ x.confirms
      BY DecidingFields
    <3> HIDE DEF x
    <3>2. Resting(q, x)
      BY <1>1, <3>1 DEF Resting, Decides, Chosen
    <3> QED BY <3>2 DEF x
  <2> QED BY <1>1, <1>2, <1>3, <2>1, <2>2, QuietMove
<1>5. CASE AckRead(q)
  <2>1. \/ req' = [req EXCEPT ![q] = acking]
        \/ req' = [req EXCEPT ![q] = Over(q, "failed")]
    BY <1>5 DEF AckRead, Reading
  <2>2. Resting(q, acking)
    <3>1. acking.pc = "acking" /\ acking.on = r /\ ~ acking.confirms
      BY DEF NoReply
    <3> HIDE DEF acking
    <3> QED BY <1>1, <3>1 DEF Resting, Decides, Chosen
  <2> HIDE DEF acking
  <2> QED BY <1>1, <1>2, <1>3, <2>1, <2>2, QuietMove
<1> QED BY <1>4, <1>5

-----------------------------------------------------------------------------
(* The steps that put quantities into a document *)

LEMMA ChangeDecides ==
    ASSUME SInv, DInv, NEW q \in Replies, ConfirmWrite(q)
    PROVE  DInv'
<1> DEFINE p == req[q]
           r == p.on
           new == [p.seen EXCEPT !.qty = p.acc, !.rejected = p.ret,
                                 !.remarks = RemarksAfter(q)]
           next == [p EXCEPT !.pc = "written", !.fresh = FALSE]
           allowed == Accepts(doc[r], new, p.fresh)
<1>1. p.pc = "deciding" /\ make' = make /\ p.confirms
  BY DEF ConfirmWrite, DInv, Chosen
<1>2. r \in Receipts /\ p \in Reply /\ p.seen \in Receipt /\ doc \in [Receipts -> Receipt]
  BY <1>1, ReplyNow DEF Ended, SafeReply, SafeDoc, SInv
<1>3. new.qty = p.acc /\ new.rejected = p.ret
  BY <1>2 DEF Receipt
<1>4. next.pc = "written" /\ next.on = r /\ Decides(p, next) /\ Chosen(next) /\ next.confirms
  BY <1>1, <1>2 DEF Reply, Decides, Chosen
<1>5. Resting(q, Over(q, "failed"))
  BY OverRests
<1>6. WriteBy(q, allowed, new, next, Over(q, "failed"))
  BY DEF ConfirmWrite
<1>7. allowed \in BOOLEAN
  BY DEF Accepts, Writable
<1> HIDE DEF new, next, allowed
<1>8. CASE req' = [req EXCEPT ![q] = Over(q, "failed")] /\ doc' = doc
  BY <1>1, <1>2, <1>5, <1>8, QuietMove
<1>9. ASSUME NEW x \in {next, Over(q, "failed")}, Written(q, new, x)
      PROVE  DInv'
  <2>1. req' = [Outdated(r) EXCEPT ![q] = x] /\ doc' = [doc EXCEPT ![r] = new]
    BY <1>9 DEF Written
  <2>2. req'[q] = x /\ \A s \in Replies : s # q => Alike(req[s], req'[s])
    BY <1>2, <2>1, OthersAlike
  <2>3. x.on = r /\ Decides(p, x) /\ Chosen(x) /\ x.pc # "latest"
    BY <1>4, <1>5 DEF Resting
  <2>4. doc'[r] = new /\ \A s \in Receipts : s # r => doc'[s] = doc[s]
    BY <1>2, <2>1
  <2>5. ByRequest(req', r, doc'[r])
    BY <1>1, <1>3, <2>2, <2>3, <2>4 DEF ByRequest, Decides
  <2>6. Ready(req', doc', req'[q])
    BY <2>2, <2>3, <2>5 DEF Ready
  <2>7. \A s \in Receipts : make[s].pc = "idle" => s # r
    BY Born
  <2>8. \A s \in Receipts : \/ SameGoods(doc[s], doc'[s])
                            \/ ByRequest(req', s, doc'[s]) /\ make[s].pc # "idle"
    BY <2>4, <2>5, <2>7 DEF SameGoods
  <2> QED BY <1>1, <2>2, <2>3, <2>6, <2>7, <2>8, ReplyDecides
<1> QED BY <1>6, <1>7, <1>8, <1>9, WriteCases

LEMMA LatestDecides ==
    ASSUME SInv, DInv, NEW q \in Replies, ConfirmLatest(q)
    PROVE  DInv'
<1> DEFINE p == req[q]
           r == p.on
           next == [p EXCEPT !.pc = "latest", !.latest = doc[r], !.fresh = TRUE]
<1>1. p.pc = "written" /\ UNCHANGED <<make, doc>> /\ p.confirms
  BY DEF ConfirmLatest, DInv, Chosen
<1>2. r \in Receipts /\ p \in Reply /\ ByRequest(req, r, doc[r])
  BY <1>1, ReplyNow DEF Ended, SafeReply, DInv, Ready
<1>3. \/ req' = [req EXCEPT ![q] = next]
      \/ req' = [req EXCEPT ![q] = [p EXCEPT !.pc = "undoing"]]
  BY DEF ConfirmLatest, SInv
<1>4. CASE req' = [req EXCEPT ![q] = [p EXCEPT !.pc = "undoing"]]
  BY <1>1, <1>2, <1>4, PcRests, QuietMove
<1>5. CASE req' = [req EXCEPT ![q] = next]
  <2>1. /\ next.pc = "latest" /\ next.on = r /\ Decides(p, next) /\ next.confirms
        /\ next.latest = doc[r]
    BY <1>1, <1>2 DEF Reply, Decides
  <2> HIDE DEF next
  <2>2. req'[q] = next /\ \A s \in Replies : s # q => Alike(req[s], req'[s])
    BY <1>2, <1>5, OthersAlike
  <2>3. \A s \in Replies : Decides(req[s], req'[s])
    BY <2>1, <2>2 DEF Alike, Decides
  <2>4. ByRequest(req', r, doc[r])
    BY <1>2, <2>3, OnRecord
  <2>5. Ready(req', doc', req'[q]) /\ Chosen(req'[q])
    BY <1>1, <2>1, <2>2, <2>4 DEF Ready, Chosen
  <2>6. /\ \A s \in Receipts : SameGoods(doc[s], doc'[s])
        /\ \A s \in Receipts : make[s].pc = "idle" => s # r
    BY <1>1, Born DEF SameGoods
  <2> QED BY <1>1, <2>1, <2>2, <2>3, <2>5, <2>6, ReplyDecides
<1> QED BY <1>3, <1>4, <1>5

LEMMA SubmitDecides ==
    ASSUME SInv, DInv, NEW q \in Replies, ConfirmSubmit(q)
    PROVE  DInv'
<1> DEFINE p == req[q]
           r == p.on
           new == [p.latest EXCEPT !.state = "submitted"]
           undo == [p EXCEPT !.pc = "undoing"]
           allowed == Accepts(doc[r], p.latest, p.fresh)
<1>1. p.pc = "latest" /\ make' = make
  BY DEF ConfirmSubmit
<1>2. /\ r \in Receipts /\ p.latest \in Receipt /\ doc \in [Receipts -> Receipt]
      /\ ByRequest(req, r, p.latest)
  BY <1>1, ReplyNow DEF Ended, SafeReply, SafeDoc, SInv, DInv, Ready
<1>3. new.qty = p.latest.qty /\ new.rejected = p.latest.rejected
  BY <1>2 DEF Receipt
<1>4. Resting(q, Over(q, "done")) /\ Resting(q, undo)
  BY OverRests, PcRests
<1>5. WriteBy(q, allowed, new, Over(q, "done"), undo)
  BY DEF ConfirmSubmit
<1>6. allowed \in BOOLEAN
  BY DEF Accepts, Writable
<1> HIDE DEF new, undo, allowed
<1>7. CASE req' = [req EXCEPT ![q] = undo] /\ doc' = doc
  BY <1>1, <1>2, <1>4, <1>7, QuietMove
<1>8. ASSUME NEW x \in {Over(q, "done"), undo}, Written(q, new, x)
      PROVE  DInv'
  <2>1. req' = [Outdated(r) EXCEPT ![q] = x] /\ doc' = [doc EXCEPT ![r] = new]
    BY <1>8 DEF Written
  <2>2. req'[q] = x /\ \A s \in Replies : s # q => Alike(req[s], req'[s])
    BY <1>2, <2>1, OthersAlike
  <2>3. x.on = r /\ Decides(p, x) /\ Chosen(x) /\ x.pc \notin {"written", "latest"}
    BY <1>4 DEF Resting
  <2>4. doc'[r] = new /\ \A s \in Receipts : s # r => doc'[s] = doc[s]
    BY <1>2, <2>1
  <2>5. \A s \in Replies : Decides(req[s], req'[s])
    BY <2>2, <2>3 DEF Alike, Decides
  <2>6. ByRequest(req', r, new)
    BY <1>2, <1>3, <2>5, OnRecord
  <2>7. Ready(req', doc', req'[q])
    BY <2>2, <2>3 DEF Ready
  <2>8. \A s \in Receipts : make[s].pc = "idle" => s # r
    BY Born
  <2>9. \A s \in Receipts : \/ SameGoods(doc[s], doc'[s])
                            \/ ByRequest(req', s, doc'[s]) /\ make[s].pc # "idle"
    BY <2>4, <2>6, <2>8 DEF SameGoods
  <2> QED BY <1>1, <2>2, <2>3, <2>7, <2>8, <2>9, ReplyDecides
<1> QED BY <1>5, <1>6, <1>7, <1>8, WriteCases

LEMMA RetryDecides ==
    ASSUME SInv, DInv, NEW q \in Replies, ConfirmRetry(q)
    PROVE  DInv'
<1> DEFINE p == req[q]
           r == p.on
           next == [p EXCEPT !.pc = "written", !.tries = 1]
<1>1. /\ p.pc = "latest" /\ UNCHANGED <<make, doc>> /\ p.confirms
      /\ req' = [req EXCEPT ![q] = next]
  BY DEF ConfirmRetry, DInv, Chosen, SInv
<1>2. r \in Receipts /\ p \in Reply /\ ByRequest(req, r, doc[r])
  BY <1>1, ReplyNow DEF Ended, SafeReply, DInv, Ready
<1>3. next.pc = "written" /\ next.on = r /\ Decides(p, next) /\ next.confirms
  BY <1>1, <1>2 DEF Reply, Decides
<1> HIDE DEF next
<1>4. req'[q] = next /\ \A s \in Replies : s # q => Alike(req[s], req'[s])
  BY <1>1, <1>2, OthersAlike
<1>5. \A s \in Replies : Decides(req[s], req'[s])
  BY <1>3, <1>4 DEF Alike, Decides
<1>6. ByRequest(req', r, doc[r])
  BY <1>2, <1>5, OnRecord
<1>7. Ready(req', doc', req'[q]) /\ Chosen(req'[q])
  BY <1>1, <1>3, <1>4, <1>6 DEF Ready, Chosen
<1>8. /\ \A s \in Receipts : SameGoods(doc[s], doc'[s])
      /\ \A s \in Receipts : make[s].pc = "idle" => s # r
  BY <1>1, Born DEF SameGoods
<1> QED BY <1>1, <1>3, <1>4, <1>5, <1>7, <1>8, ReplyDecides

\* Where time stamps are checked, the write of the first copy is refused.
LEMMA UndoDecides ==
    ASSUME SInv, DInv, Stamped, NEW q \in Replies, ConfirmUndo(q)
    PROVE  DInv'
<1>1. req[q].pc = "undoing" /\ make' = make
  BY DEF ConfirmUndo
<1>2. req[q].on \in Receipts
  BY <1>1, ReplyNow DEF Ended
<1>3. req' = [req EXCEPT ![q] = Over(q, "failed")] /\ doc' = doc
  BY DEF ConfirmUndo, WriteBy, Accepts
<1> QED BY <1>1, <1>2, <1>3, OverRests, QuietMove

-----------------------------------------------------------------------------
(* Creating, cancelling, crashing *)

LEMMA CreateDecides ==
    ASSUME SInv, DInv, NEW r \in Receipts,
           CreateRefuse(r) \/ CreateInsert(r) \/ CreateStep(r) \/ OfficeCancel(r)
    PROVE  DInv'
<1>1. doc \in [Receipts -> Receipt] /\ make \in [Receipts -> Making]
  BY DEF SInv
<1>2. CASE CreateInsert(r)
  <2>1. PICK x \in Sent : /\ make[r].pc = "idle" /\ req' = req
                          /\ doc' \in {doc, [doc EXCEPT ![r] = NewReceipt(x)]}
                          /\ make'[r].pc # "idle"
                          /\ \A s \in Receipts : s # r => make'[s] = make[s]
    BY <1>1, <1>2 DEF CreateInsert, Making
  <2>2. NewReceipt(x).state = "draft"
    BY DEF NewReceipt, NoReceipt
  <2>3. \A p \in Replies : Alike(req[p], req'[p])
    BY <2>1 DEF Alike
  <2>4. \A s \in Receipts : /\ s # r => SameGoods(doc[s], doc'[s])
                            /\ SameGoods(doc[r], doc'[r]) \/ doc'[r].state = "draft"
    BY <1>1, <2>1, <2>2 DEF SameGoods
  <2> QED BY <2>1, <2>3, <2>4, OfficeDecides DEF Settled
<1>3. ASSUME NEW rm, doc' = doc \/ doc' = [doc EXCEPT ![r] = [doc[r] EXCEPT !.remarks = rm]],
             req' = req \/ req' = Outdated(r),
             make'[r].pc # "idle", \A s \in Receipts : s # r => make'[s] = make[s]
      PROVE  DInv'
  <2>1. \A p \in Replies : Alike(req[p], req'[p])
    BY <1>3, OutdatedAlike
  <2>2. \A s \in Receipts : SameGoods(doc[s], doc'[s])
    BY <1>3, RemarksSame
  <2> QED BY <1>3, <2>1, <2>2, OfficeDecides
<1>4. CASE CreateRefuse(r)
  BY <1>1, <1>3, <1>4 DEF CreateRefuse, Making
<1>5. CASE CreateReadBack(r)
  BY <1>1, <1>3, <1>5 DEF CreateReadBack, Making
<1>6. CASE CreateTag(r)
  <2>1. /\ \/ doc' = doc
           \/ doc' = [doc EXCEPT ![r] = [doc[r] EXCEPT !.remarks = Tagged(make[r].read, "pending")]]
        /\ req' = req \/ req' = Outdated(r)
        /\ make'[r].pc # "idle" /\ \A s \in Receipts : s # r => make'[s] = make[s]
    BY <1>1, <1>6 DEF CreateTag, Making
  <2> QED BY <1>3, <2>1
<1>7. CASE OfficeCancel(r)
  <2>1. /\ doc' = [doc EXCEPT ![r] = [doc[r] EXCEPT !.state = "cancelled"]]
        /\ doc[r].state = "submitted" /\ req' = Outdated(r) /\ make' = make
    BY <1>7 DEF OfficeCancel
  <2>2. \A p \in Replies : Alike(req[p], req'[p])
    BY <2>1, OutdatedAlike
  <2>3. SameGoods(doc[r], [doc[r] EXCEPT !.state = "cancelled"])
    BY <1>1, <2>1 DEF SameGoods, Receipt, Settled
  <2>4. \A s \in Receipts : SameGoods(doc[s], doc'[s])
    BY <1>1, <2>1, <2>3 DEF SameGoods
  <2> QED BY <2>1, <2>2, <2>4, OfficeDecides
<1> QED BY <1>2, <1>4, <1>5, <1>6, <1>7 DEF CreateStep

LEMMA CrashDecides ==
    ASSUME SInv, DInv, Crash
    PROVE  DInv'
<1>1. /\ doc' = doc
      /\ make' = [r \in Receipts |->
                    IF Creating(r) THEN [make[r] EXCEPT !.pc = "failed"] ELSE make[r]]
      /\ \A q \in Replies : req'[q] = IF Working(q) THEN Over(q, "failed") ELSE req[q]
  BY DEF Crash
<1>2. \A q \in Replies : /\ Decides(req[q], req'[q]) /\ Chosen(req'[q])
                         /\ req'[q].on = req[q].on
                         /\ req'[q].pc \notin {"written", "latest"}
  BY <1>1, OverRests DEF Resting, Decides, DInv, Working, Ended
<1>3. \A r \in Receipts : doc[r].state \in Settled => ByRequest(req', r, doc'[r])
  BY <1>1, <1>2, OnRecord DEF DInv
<1>4. \A r \in Receipts : make'[r].pc = "idle" => make[r].pc = "idle"
  BY <1>1 DEF SInv, Making
<1>5. /\ \A p \in Replies : (Chosen(req[p]) /\ Ready(req, doc, req[p]))'
                               <=> Chosen(req'[p]) /\ Ready(req', doc', req'[p])
      /\ \A r \in Receipts : ByRequest(req, r, doc[r])' <=> ByRequest(req', r, doc'[r])
  BY DEF Chosen, Ready, ByRequest
<1> QED BY <1>1, <1>2, <1>3, <1>4, <1>5 DEF DInv, Ready

LEMMA DecidedInit == Init => DInv
<1> SUFFICES ASSUME Init PROVE DInv
  OBVIOUS
<1>1. \A q \in Replies : req[q].pc = "idle" /\ req[q].on = None /\ ~ req[q].confirms
  BY DEF Init, NoReply
<1>2. \A r \in Receipts : doc[r].state = "none" /\ r # None
  BY ReceiptConstants DEF Init, NoReceipt
<1> QED BY <1>1, <1>2 DEF DInv, Chosen, Ready, Settled

LEMMA DecidedNext == Stamped /\ SInv /\ DInv /\ [Next]_vars => DInv'
<1> SUFFICES ASSUME Stamped, SInv, DInv, [Next]_vars PROVE DInv'
  OBVIOUS
<1>1. CASE \E r \in Receipts :
               CreateRefuse(r) \/ CreateInsert(r) \/ CreateStep(r) \/ OfficeCancel(r)
  BY <1>1, CreateDecides
<1>2. CASE \E q \in Replies, r \in Receipts :
               ConfirmRead(q, r) \/ RespondRead(q, r) \/ AckSay(q, r)
  BY <1>2, ReadingDecides
<1>3. CASE \E q \in Replies : ConfirmRefuse(q) \/ ReplyStep(q)
  BY <1>3, ConfirmQuietly, ChangeDecides, LatestDecides, SubmitDecides, RetryDecides,
     UndoDecides, AnswerDecides, ReadAgainDecides
     DEF ReplyStep, ConfirmStep, RespondStep
<1>4. CASE Crash
  BY <1>4, CrashDecides
<1>5. CASE UNCHANGED vars
  BY <1>5 DEF vars, DInv, Ready, ByRequest
<1> QED BY <1>1, <1>2, <1>3, <1>4, <1>5 DEF Next

\* Where ERPNext checks time stamps, what is booked is what one request decided,
\* accepted and rejected quantity together, whatever overlaps, fails or crashes.
THEOREM BookedWasDecided == ASSUME Stamped PROVE Spec => []QuantityWasDecided
<1>1. SInv /\ DInv /\ [Next]_vars => DInv'
  BY DecidedNext
<1> QED BY <1>1, SafeAlways, DecidedInit, DecidedImplies, PTL DEF Spec

-----------------------------------------------------------------------------
(* The lists *)

\* A step writes no document but that of r.
OnlyWrites(r) == \A s \in Receipts \ {r} : doc'[s] = doc[s]

LEMMA WriteIsOne ==
    ASSUME SInv, NEW q \in Replies, NEW allowed, NEW new, NEW next, NEW otherwise,
           WriteBy(q, allowed, new, next, otherwise)
    PROVE  doc' = doc \/ OnlyWrites(req[q].on)
BY DEF WriteBy, Written, SInv, OnlyWrites

\* A step writes one document at most.
LEMMA OneWritten ==
    ASSUME SInv, [Next]_vars
    PROVE  doc' = doc \/ \E r : OnlyWrites(r)
<1>1. ASSUME NEW r \in Receipts,
             CreateRefuse(r) \/ CreateInsert(r) \/ CreateStep(r) \/ OfficeCancel(r)
      PROVE  doc' = doc \/ OnlyWrites(r)
  BY <1>1
  DEF CreateRefuse, CreateInsert, CreateStep, CreateReadBack, CreateTag, OfficeCancel,
      SInv, OnlyWrites
<1>2. ASSUME NEW q \in Replies, NEW r \in Receipts,
             ConfirmRead(q, r) \/ RespondRead(q, r) \/ AckSay(q, r)
      PROVE  doc' = doc
  BY <1>2 DEF ConfirmRead, RespondRead, AckSay
<1>3. ASSUME NEW q \in Replies, ConfirmRefuse(q) \/ ReplyStep(q)
      PROVE  doc' = doc \/ OnlyWrites(req[q].on)
  <2>1. CASE \/ ConfirmRefuse(q) \/ ConfirmLatest(q) \/ ConfirmRetry(q)
             \/ RespondConfirm(q) \/ AckRead(q)
    BY <2>1 DEF ConfirmRefuse, ConfirmLatest, ConfirmRetry, RespondConfirm, AckRead
  <2>2. CASE \/ ConfirmReturn(q) \/ ConfirmWrite(q) \/ ConfirmSubmit(q)
             \/ ConfirmUndo(q)
    BY <2>2, WriteIsOne DEF ConfirmReturn, ConfirmWrite, ConfirmSubmit, ConfirmUndo
  <2>3. CASE RespondReject(q) \/ RespondApprove(q) \/ AckWrite(q)
    BY <2>3, WriteIsOne DEF RespondReject, RespondApprove, AckWrite, TagWrite
  <2> QED
    BY <1>3, <2>1, <2>2, <2>3 DEF ReplyStep, ConfirmStep, RespondStep
<1>4. Crash => doc' = doc
  BY DEF Crash
<1>5. UNCHANGED vars => doc' = doc
  BY DEF vars
<1> QED BY <1>1, <1>2, <1>3, <1>4, <1>5 DEF Next

\* However many receipts there may ever be, those there are can be counted.
LEMMA KnownIsFinite == Spec => []IsFiniteSet(Known)
<1>1. Init => IsFiniteSet(Known)
  <2>1. Init => Known = {}
    BY DEF Init, Known, NoReceipt
  <2> QED BY <2>1, FS_EmptySet
<1>2. SInv /\ IsFiniteSet(Known) /\ [Next]_vars => IsFiniteSet(Known)'
  <2> SUFFICES ASSUME SInv, IsFiniteSet(Known), [Next]_vars
               PROVE  IsFiniteSet(Known)'
    OBVIOUS
  <2>1. CASE doc' = doc
    BY <2>1 DEF Known
  <2>2. ASSUME NEW r, OnlyWrites(r) PROVE IsFiniteSet(Known)'
    <3>1. IsFiniteSet(Known \cup {r})
      BY FS_AddElement
    <3>2. Known' \subseteq Known \cup {r}
      BY <2>2 DEF Known, OnlyWrites
    <3> QED BY <3>1, <3>2, FS_Subset
  <2> QED BY <2>1, <2>2, OneWritten
<1> QED BY <1>1, <1>2, SafeAlways, PTL DEF Spec

\* The sum over the kinds is recursive: the function that solves its recursion is
\* given here.
LEMMA KindsTotal ==
    ASSUME NEW f, \A k \in Kinds : f[k] \in Nat
    PROVE  Overall(f) = f["pending"] + f["confirmed"] + f["returned"]
<1> DEFINE Sums(g) == g = [s \in SUBSET Kinds |->
                             IF s = {} THEN 0
                             ELSE LET k == CHOOSE k \in s : TRUE
                                  IN  f[k] + g[s \ {k}]]
           part(s, k) == IF k \in s THEN f[k] ELSE 0
           h == [s \in SUBSET Kinds |->
                   part(s, "pending") + part(s, "confirmed") + part(s, "returned")]
<1>1. ASSUME NEW s \in SUBSET Kinds, s # {},
             NEW k \in s
      PROVE  h[s] = f[k] + h[s \ {k}]
  <2>1. s \ {k} \in SUBSET Kinds /\ k \in Kinds
    BY <1>1
  <2>2. \A c \in Kinds : part(s, c) \in Nat /\ part(s \ {k}, c) \in Nat
    OBVIOUS
  <2>3. \A c \in Kinds : part(s \ {k}, c) = IF c = k THEN 0 ELSE part(s, c)
    OBVIOUS
  <2>4. part(s, k) = f[k] /\ f[k] \in Nat
    BY <2>1
  <2>5. /\ h[s] = part(s, "pending") + part(s, "confirmed") + part(s, "returned")
        /\ h[s \ {k}] = part(s \ {k}, "pending") + part(s \ {k}, "confirmed")
                          + part(s \ {k}, "returned")
    BY <2>1
  <2> HIDE DEF part, h
  <2> QED BY <2>1, <2>2, <2>3, <2>4, <2>5 DEF Kinds
<1>2. h[{}] = 0
  OBVIOUS
<1>3. Sums(h)
  <2>1. ASSUME NEW s \in SUBSET Kinds
        PROVE  h[s] = IF s = {} THEN 0
                      ELSE LET k == CHOOSE k \in s : TRUE
                           IN  f[k] + h[s \ {k}]
    <3>1. s # {} => (CHOOSE k \in s : TRUE) \in s
      OBVIOUS
    <3> HIDE DEF h
    <3> QED BY <1>1, <1>2, <3>1
  <2>2. h = [s \in SUBSET Kinds |-> h[s]]
    OBVIOUS
  <2> HIDE DEF h
  <2> QED BY <2>1, <2>2
<1>4. Overall(f) = (CHOOSE g : Sums(g))[Kinds]
  BY DEF Overall, MapThenSumSet, MapThenFoldSet
<1>5. ASSUME NEW g, Sums(g)
      PROVE  g[Kinds] = f["pending"] + f["confirmed"] + f["returned"]
  <2>1. ASSUME NEW s \in SUBSET Kinds, s # {}
        PROVE  \E k \in s : g[s] = f[k] + g[s \ {k}]
    <3>1. (CHOOSE k \in s : TRUE) \in s
      BY <2>1
    <3>2. g[s] = LET k == CHOOSE k \in s : TRUE IN f[k] + g[s \ {k}]
      BY <1>5, <2>1
    <3> QED BY <3>1, <3>2
  <2>2. g[{}] = 0
    BY <1>5
  <2> HIDE DEF Sums
  <2>3. ASSUME NEW k \in Kinds PROVE g[{k}] = f[k]
    <3>1. {k} \ {k} = {} /\ {k} # {} /\ {k} \in SUBSET Kinds
      OBVIOUS
    <3> QED BY <2>1, <2>2, <3>1
  <2>4. ASSUME NEW a \in Kinds, NEW b \in Kinds, a # b
        PROVE  g[{a, b}] = f[a] + f[b]
    <3>1. PICK k \in {a, b} : g[{a, b}] = f[k] + g[{a, b} \ {k}]
      BY <2>1
    <3>2. CASE k = a
      <4>1. {a, b} \ {k} = {b}
        BY <2>4, <3>2
      <4> QED BY <2>3, <3>1, <3>2, <4>1
    <3>3. CASE k = b
      <4>1. {a, b} \ {k} = {a}
        BY <2>4, <3>3
      <4> QED BY <2>3, <3>1, <3>3, <4>1
    <3> QED BY <3>2, <3>3
  <2>5. PICK k \in Kinds : g[Kinds] = f[k] + g[Kinds \ {k}]
    BY <2>1 DEF Kinds
  <2>9. f["pending"] \in Nat /\ f["confirmed"] \in Nat /\ f["returned"] \in Nat
    BY DEF Kinds
  <2>6. CASE k = "pending"
    <3>1. Kinds \ {k} = {"confirmed", "returned"}
      BY <2>6 DEF Kinds
    <3>2. g[{"confirmed", "returned"}] = f["confirmed"] + f["returned"]
      BY <2>4 DEF Kinds
    <3>3. g[Kinds] = f["pending"] + (f["confirmed"] + f["returned"])
      BY <2>5, <2>6, <3>1, <3>2, Zenon
    <3> QED BY <2>9, <3>3
  <2>7. CASE k = "confirmed"
    <3>1. Kinds \ {k} = {"pending", "returned"}
      BY <2>7 DEF Kinds
    <3>2. g[{"pending", "returned"}] = f["pending"] + f["returned"]
      BY <2>4 DEF Kinds
    <3>3. g[Kinds] = f["confirmed"] + (f["pending"] + f["returned"])
      BY <2>5, <2>7, <3>1, <3>2, Zenon
    <3> QED BY <2>9, <3>3
  <2>8. CASE k = "returned"
    <3>1. Kinds \ {k} = {"pending", "confirmed"}
      BY <2>8 DEF Kinds
    <3>2. g[{"pending", "confirmed"}] = f["pending"] + f["confirmed"]
      BY <2>4 DEF Kinds
    <3>3. g[Kinds] = f["returned"] + (f["pending"] + f["confirmed"])
      BY <2>5, <2>8, <3>1, <3>2, Zenon
    <3> QED BY <2>9, <3>3
  <2> QED BY <2>5, <2>6, <2>7, <2>8 DEF Kinds
<1> HIDE DEF Sums, h
<1> QED BY <1>3, <1>4, <1>5

\* A record is of exactly one kind.
OneKind(record) == \E k \in Kinds : \A c \in Kinds : Matches(record, c) <=> c = k

LEMMA RecordsHaveOneKind ==
    ASSUME NEW d \in Receipt
    PROVE  OneKind(HttpRecord(d)) /\ OneKind(DbRecord(d))
<1> DEFINE Statuses == {"draft", "cancelled", "rejected", "partial", "accepted"}
<1>1. HttpRecord(d).status \in Statuses /\ DbRecord(d).status \in Statuses
  BY DEF HttpRecord, DbRecord, HttpStatus, DbStatus, StatusOf
<1>2. ASSUME NEW rec, rec.status \in Statuses PROVE OneKind(rec)
  <2>1. CASE rec.status = "draft"
    <3>1. \A c \in Kinds : Matches(rec, c) <=> c = "pending"
      BY <2>1 DEF Matches, Kinds
    <3> QED BY <3>1 DEF OneKind, Kinds
  <2>2. CASE rec.status = "accepted"
    <3>1. \A c \in Kinds : Matches(rec, c) <=> c = "confirmed"
      BY <2>2 DEF Matches, Kinds
    <3> QED BY <3>1 DEF OneKind, Kinds
  <2>3. CASE rec.status \in {"cancelled", "rejected", "partial"}
    <3>1. \A c \in Kinds : Matches(rec, c) <=> c = "returned"
      BY <2>3 DEF Matches, Kinds
    <3> QED BY <3>1 DEF OneKind, Kinds
  <2> QED BY <1>2, <2>1, <2>2, <2>3
<1> QED BY <1>1, <1>2

\* Two finite sets with nothing in common count as many as both together.
LEMMA DisjointSum ==
    ASSUME NEW A, NEW B, IsFiniteSet(A), IsFiniteSet(B), A \cap B = {}
    PROVE  /\ IsFiniteSet(A \cup B)
           /\ Cardinality(A \cup B) = Cardinality(A) + Cardinality(B)
<1>1. /\ IsFiniteSet(A \cup B)
      /\ Cardinality(A \cup B)
           = Cardinality(A) + Cardinality(B) - Cardinality(A \cap B)
  BY FS_Union
<1>2. Cardinality(A \cap B) = 0
  BY FS_EmptySet
<1>3. Cardinality(A) \in Nat /\ Cardinality(B) \in Nat
  BY FS_CardinalityType
<1> QED BY <1>1, <1>2, <1>3

\* A summary of records that are each of one kind counts every record once.
LEMMA CountedOnce ==
    ASSUME NEW S, IsFiniteSet(S), NEW records, DOMAIN records = S,
           \A r \in S : OneKind(records[r])
    PROVE  Overall(Count(records)) = Cardinality(S)
<1> DEFINE Of(k) == {r \in S : Matches(records[r], k)}
<1>1. \A k \in Kinds : IsFiniteSet(Of(k)) /\ Cardinality(Of(k)) \in Nat
  BY FS_Subset, FS_CardinalityType
<1>2. \A k \in Kinds : Count(records)[k] = Cardinality(Of(k))
  BY DEF Count
<1>3. /\ S = (Of("pending") \cup Of("confirmed")) \cup Of("returned")
      /\ Of("pending") \cap Of("confirmed") = {}
      /\ (Of("pending") \cup Of("confirmed")) \cap Of("returned") = {}
  BY DEF OneKind, Kinds
<1> HIDE DEF Of
<1>4. /\ IsFiniteSet(Of("pending") \cup Of("confirmed"))
      /\ Cardinality(Of("pending") \cup Of("confirmed"))
           = Cardinality(Of("pending")) + Cardinality(Of("confirmed"))
  <2>1. IsFiniteSet(Of("pending")) /\ IsFiniteSet(Of("confirmed"))
    BY <1>1 DEF Kinds
  <2> QED BY <2>1, <1>3, DisjointSum
<1>5. Cardinality(S) = Cardinality(Of("pending")) + Cardinality(Of("confirmed"))
                         + Cardinality(Of("returned"))
  <2>1. IsFiniteSet(Of("returned"))
    BY <1>1 DEF Kinds
  <2>2. Cardinality((Of("pending") \cup Of("confirmed")) \cup Of("returned"))
          = Cardinality(Of("pending") \cup Of("confirmed")) + Cardinality(Of("returned"))
    BY <2>1, <1>3, <1>4, DisjointSum
  <2>3. Cardinality(S)
          = Cardinality(Of("pending") \cup Of("confirmed")) + Cardinality(Of("returned"))
    BY <2>2, <1>3, Zenon
  <2> QED BY <2>3, <1>4
<1>6. Overall(Count(records)) = Count(records)["pending"] + Count(records)["confirmed"]
                                  + Count(records)["returned"]
  BY <1>1, <1>2, KindsTotal
<1> QED BY <1>2, <1>5, <1>6 DEF Kinds

\* Over HTTP a draft Werka may decide about is in the reader's pending list, and
\* what is missing from the details are the receipts the supplier is asked about.
LEMMA PendingAgree ==
    ASSUME \A r \in Receipts : doc[r] \in Receipt
    PROVE  /\ HttpWerkaPending \ HttpWerkaDetails("pending")
                = {r \in Known : /\ HttpEvent(doc[r]) = "unannounced_pending"
                                 /\ ~ Stale(doc[r])}
           /\ HttpWerkaDetails("pending") \subseteq DbWerkaPending
<1>1. ASSUME NEW r \in Known
      PROVE  /\ doc[r] \in Receipt
             /\ Matches(HttpRecord(doc[r]), "pending") =>
                    doc[r].state = "draft" /\ HttpStatus(doc[r]) = "draft"
             /\ ~ Stale(doc[r]) /\ doc[r].state = "draft" =>
                    Matches(HttpRecord(doc[r]), "pending")
             /\ doc[r].state = "draft" =>
                    /\ HttpEvent(doc[r]) \in {"none", "unannounced_pending"}
                    /\ doc[r].remarks.tag = "pending" =>
                           HttpEvent(doc[r]) = "unannounced_pending"
             /\ HttpEvent(doc[r]) = "unannounced_pending" => doc[r].state = "draft"
  <2> DEFINE d == doc[r]
  <2>1. d \in Receipt /\ d.state \in {"draft", "submitted", "cancelled"}
    BY DEF Known, Receipt, DocStates
  <2> HIDE DEF d
  <2>2. HttpRecord(d).status = HttpStatus(d)
    BY DEF HttpRecord
  <2>3. Matches(HttpRecord(d), "pending") <=> HttpStatus(d) \in {"pending", "draft"}
    BY <2>2 DEF Matches
  <2>4. /\ d.state # "draft" => HttpStatus(d) \notin {"pending", "draft"}
        /\ HttpStatus(d) # "pending"
    BY <2>1 DEF HttpStatus, StatusOf
  <2>5. ~ Stale(d) /\ d.state = "draft" => HttpStatus(d) = "draft"
    BY DEF Stale, HasNote, NoNote, HttpStatus, ReturnedWhole
  <2>6. d.state = "draft" =>
          /\ HttpEvent(d) \in {"none", "unannounced_pending"}
          /\ d.remarks.tag = "pending" => HttpEvent(d) = "unannounced_pending"
    BY DEF HttpEvent, HttpStatus
  <2>7. HttpEvent(d) = "unannounced_pending" => d.state = "draft"
    BY DEF HttpEvent
  <2> QED BY <2>1, <2>3, <2>4, <2>5, <2>6, <2>7 DEF d
<1>2. HttpWerkaPending \ HttpWerkaDetails("pending")
        = {r \in Known : HttpEvent(doc[r]) = "unannounced_pending" /\ ~ Stale(doc[r])}
  BY <1>1 DEF HttpWerkaPending, HttpWerkaDetails, ForWerka
<1>3. ASSUME NEW r \in HttpWerkaDetails("pending") PROVE r \in DbWerkaPending
  <2>1. /\ r \in Known /\ doc[r].state = "draft"
        /\ HttpEvent(doc[r]) = "none"
    BY <1>1 DEF HttpWerkaDetails, ForWerka
  <2>2. DbStatus(doc[r]) = "draft" /\ doc[r].remarks.tag # "pending"
    BY <1>1, <2>1 DEF DbStatus
  <2>3. DbIncluded(doc[r])
    BY <2>2 DEF DbIncluded
  <2>4. Matches(DbRecord(doc[r]), "pending")
    BY <2>2 DEF DbRecord, Matches
  <2> QED BY <2>1, <2>3, <2>4 DEF DbWerkaPending
<1> QED BY <1>2, <1>3

\* The counts of a summary are those of the list and of the totals behind it.
LEMMA ListsCounted ==
    ASSUME NEW k \in Kinds
    PROVE  /\ HttpSupplierSummary[k] = Cardinality(HttpSupplierDetails(k))
           /\ HttpSupplierSummary[k] = HttpSupplierBreakdown(k).receipts
           /\ HttpWerkaSummary[k] = Cardinality(HttpWerkaDetails(k))
           /\ HttpWerkaSummary[k] = HttpWerkaBreakdown(k).receipts
           /\ HttpWerkaDetails(k) \subseteq HttpSupplierDetails(k)
<1>1. ASSUME NEW S
      PROVE  /\ Count(HttpRecords(S))[k]
                  = Cardinality({r \in S : Matches(HttpRecord(doc[r]), k)})
             /\ Totals(HttpRecords(S)).receipts = Cardinality(S)
  <2>1. {r \in DOMAIN HttpRecords(S) : Matches(HttpRecords(S)[r], k)}
          = {r \in S : Matches(HttpRecord(doc[r]), k)}
    BY DEF HttpRecords
  <2>2. DOMAIN HttpRecords(S) = S
    BY DEF HttpRecords
  <2>3. Totals(HttpRecords(S)).receipts = Cardinality(DOMAIN HttpRecords(S))
    BY DEF Totals
  <2> QED BY <2>1, <2>2, <2>3 DEF Count
<1>2. /\ HttpSupplierSummary[k] = Cardinality(HttpSupplierDetails(k))
      /\ HttpSupplierSummary[k] = HttpSupplierBreakdown(k).receipts
  BY <1>1 DEF HttpSupplierSummary, HttpSupplierDetails, HttpSupplierBreakdown
<1>3. /\ HttpWerkaSummary[k] = Cardinality(HttpWerkaDetails(k))
      /\ HttpWerkaSummary[k] = HttpWerkaBreakdown(k).receipts
  BY <1>1 DEF HttpWerkaSummary, HttpWerkaDetails, HttpWerkaBreakdown
<1>4. HttpWerkaDetails(k) \subseteq HttpSupplierDetails(k)
  BY DEF HttpWerkaDetails, HttpSupplierDetails, ForWerka
<1> QED BY <1>2, <1>3, <1>4

\* Lists, breakdowns and summaries agree on both read paths, however requests
\* overlap and whatever fails; and each receipt is counted once.
THEOREM ReceiptListsAgree == Spec => []ListsAgree
<1>1. SInv /\ IsFiniteSet(Known) => ListsAgree
  <2> SUFFICES ASSUME SInv, IsFiniteSet(Known) PROVE ListsAgree
    OBVIOUS
  <2>1. \A r \in Receipts : doc[r] \in Receipt
    BY DEF SInv
  <2>2. Overall(HttpSupplierSummary) = Cardinality(Known)
    <3>1. /\ DOMAIN HttpRecords(Known) = Known
          /\ \A r \in Known : HttpRecords(Known)[r] = HttpRecord(doc[r])
      BY DEF HttpRecords
    <3>2. \A r \in Known : OneKind(HttpRecords(Known)[r])
      BY <2>1, <3>1, RecordsHaveOneKind DEF Known
    <3> QED BY <3>1, <3>2, CountedOnce DEF HttpSupplierSummary
  <2>3. Overall(DbSupplierSummary) = Cardinality(Known)
    <3>1. /\ DOMAIN DbRecords(Known) = Known
          /\ \A r \in Known : DbRecords(Known)[r] = DbRecord(doc[r])
      BY DEF DbRecords
    <3>2. \A r \in Known : OneKind(DbRecords(Known)[r])
      BY <2>1, <3>1, RecordsHaveOneKind DEF Known
    <3> QED BY <3>1, <3>2, CountedOnce DEF DbSupplierSummary
  <2>4. /\ DbWerkaHome.summary = DbWerkaSummary
        /\ DbWerkaHome.pending = DbWerkaPending
    <3>1. ASSUME NEW r \in Known, Matches(DbRecord(doc[r]), "pending")
          PROVE  doc[r].state = "draft"
      <4>1. doc[r] \in Receipt /\ doc[r].state # "none"
        BY <2>1 DEF Known
      <4>2. DbStatus(doc[r]) \in {"pending", "draft"}
        BY <3>1 DEF DbRecord, Matches
      <4> QED BY <4>1, <4>2 DEF DbStatus, StatusOf, Receipt, DocStates
    <3> QED BY <3>1 DEF DbWerkaHome, DbWerkaSummary, DbWerkaPending
  <2> QED BY <2>1, <2>2, <2>3, <2>4, PendingAgree, ListsCounted DEF ListsAgree
<1> QED BY <1>1, SafeAlways, KnownIsFinite, PTL
=============================================================================
