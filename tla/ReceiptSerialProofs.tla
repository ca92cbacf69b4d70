------------------------ MODULE ReceiptSerialProofs ------------------------
(***************************************************************************)
(* Requests about one receipt that do not overlap, of users who act on     *)
(* what the lists offer them, whatever calls fail: what PurchaseReceipts   *)
(* then promises beyond what holds in every run.                           *)
(*                                                                         *)
(* A request finds a document that is Tidy, and as long as it is at work   *)
(* what it has read is the document or tells how it was changed (Steady).  *)
(* Each step therefore moves one document at most, in one of a few ways    *)
(* (Turn), and it is these that are compared with the promises.            *)
(***************************************************************************)
EXTENDS PurchaseReceiptsProofs, ReceiptRefinement

Serial == ~ Overlap /\ FromList

\* The goods of the draft are as they were sent, and nothing is noted about them.
Untouched(d) ==
    /\ d.state = "draft" /\ d.qty = d.sent
    /\ d.remarks.note = NoNote /\ ~ d.remarks.acked

\* A draft somebody may decide about.
Open(d) == Untouched(d) /\ d.remarks.tag \notin {"pending", "rejected"}

\* What the return of the whole leaves: a note and nothing else.
WholeNote(d) == [acc |-> 0, ret |-> d.sent]

\* The document between requests and between the steps of one.
Tidy(d) ==
    /\ d.state # "none" => d.sent \in Sent
    /\ d.qty < d.sent => d.remarks.note = DecisionNote(d.sent, d.qty, d.rejected)
    /\ d.qty = d.sent => \/ d.remarks.note = NoNote
                         \/ d.state = "draft" /\ d.remarks.note = WholeNote(d)
    /\ d.remarks.acked => d.remarks.note # NoNote
    /\ d.remarks.tag \in {"pending", "rejected"} => Untouched(d)

\* The remarks and the document as a confirm request writes them.
After(p) ==
    LET n == DecisionNote(ReadQty(p.seen), p.acc, p.ret)
    IN  IF n = NoNote THEN p.seen.remarks ELSE Decided(p.seen.remarks, n)

Changed(p) == [p.seen EXCEPT !.qty = p.acc, !.rejected = p.ret, !.remarks = After(p)]

Booked(d) == [d EXCEPT !.state = "submitted"]

\* What request p at work knows of its document d.
Steady(p, d) ==
    /\ d.state # "none"
    /\ p.pc \in {"returning", "deciding", "approving", "rejecting", "acking"} => p.seen = d
    /\ p.pc \in {"returning", "deciding", "written", "latest", "undoing"} =>
          Open(p.seen) /\ Acceptable(p.seen.sent, p.acc, p.ret)
    /\ p.pc = "returning" => FullReturn(d.sent, p.acc, p.ret)
    /\ p.pc \in {"deciding", "latest"} => p.fresh = TRUE
    /\ p.pc \in {"written", "latest"} => d = Changed(p)
    /\ p.pc = "undoing" => d \in {Changed(p), Booked(Changed(p))}
    /\ p.pc = "latest" => p.latest = d
    /\ p.pc \in {"approving", "rejecting"} => d.remarks.tag = "pending"
    /\ p.pc = "approved" => Open(d)
    /\ p.pc \in {"said", "acking"} => d.remarks.note # NoNote

\* One request at most is at work on a receipt.
Alone ==
    \A q \in Replies : Working(q) =>
        /\ ~ Creating(req[q].on)
        /\ \A p \in Replies : Working(p) /\ req[p].on = req[q].on => p = q

\* What is there of a receipt while it is being created.
Made(m, d) ==
    /\ m.pc = "idle" => d = NoReceipt
    /\ m.pc \in {"inserted", "read"} => \E x \in Sent : d = NewReceipt(x)
    /\ m.pc = "read" => m.read = NoRemarks

Orderly ==
    /\ \A r \in Receipts : Tidy(doc[r]) /\ Made(make[r], doc[r])
    /\ \A q \in Replies : Working(q) => Steady(req[q], doc[req[q].on])
    /\ Alone

\* As long as no call has failed, a draft whose goods were changed is about to be
\* submitted.
Submitting ==
    faults.calls = 0 =>
        /\ \A q \in Replies : req[q].pc # "undoing"
        /\ \A r \in Receipts : doc[r].state = "draft" /\ doc[r].qty < doc[r].sent =>
              \E q \in Replies : req[q].on = r /\ req[q].pc \in {"written", "latest"}

\* What a step makes of a document d.  An untouched draft is tagged; a note is
\* acknowledged; an open draft is decided about, with its goods changed or not;
\* what was decided is booked; the office cancels.  Where ERPNext does not check
\* time stamps an undo may do anything to it.
Turn(d, e) ==
    \/ d = NoReceipt /\ \E x \in Sent : e = NewReceipt(x)
    \/ /\ Untouched(d)
       /\ \E t \in Tags : /\ e = [d EXCEPT !.remarks = Tagged(d.remarks, t)]
                          /\ \/ d.remarks.tag = "none" /\ t = "pending"
                             \/ d.remarks.tag = "pending" /\ t \in {"approved", "rejected"}
    \/ d.state # "none" /\ e = [d EXCEPT !.remarks = Acknowledged(d.remarks)]
    \/ /\ Open(d) /\ e.state = "draft" /\ e.sent = d.sent
       /\ e.remarks.tag = d.remarks.tag
    \/ /\ d.state = "draft" /\ e = Booked(d)
       /\ d.remarks.tag \notin {"pending", "rejected"}
       /\ d.qty = d.sent => d.remarks.note = NoNote
    \/ d.state = "submitted" /\ e = [d EXCEPT !.state = "cancelled"]
    \/ ~ Stamped

Turned ==
    \/ doc' = doc
    \/ \E r \in Receipts : \E e : doc' = [doc EXCEPT ![r] = e] /\ Turn(doc[r], e)

-----------------------------------------------------------------------------
(* Documents *)

LEMMA NoteIs ==
    ASSUME NEW sent \in Nat, NEW acc \in Int, NEW ret \in Int, Acceptable(sent, acc, ret)
    PROVE  DecisionNote(sent, acc, ret) = NoNote <=> acc = sent
BY DEF Acceptable, DecisionNote, NoNote

\* A receipt that has just been created is tidy, and an open draft.
LEMMA NewReceiptTidy ==
    ASSUME NEW x \in Sent
    PROVE  LET d == NewReceipt(x)
           IN  /\ d \in Receipt /\ Tidy(d) /\ Open(d) /\ d.remarks = NoRemarks
               /\ d.sent = x /\ d.qty = x
<1> DEFINE d == NewReceipt(x)
<1>1. /\ d.state = "draft" /\ d.sent = x /\ d.qty = x /\ d.remarks = NoRemarks
      /\ x \in Nat
  BY ReceiptConstants DEF NewReceipt, NoReceipt
<1>2. NoRemarks.note = NoNote /\ NoRemarks.acked = FALSE /\ NoRemarks.tag = "none"
  BY DEF NoRemarks
<1>3. d \in Receipt
  BY NewReceiptSafe DEF SafeDoc
<1> HIDE DEF d
<1>4. Tidy(d) /\ Open(d)
  BY <1>1, <1>2 DEF Tidy, Open, Untouched
<1> QED BY <1>1, <1>3, <1>4 DEF d

LEMMA NoReceiptTidy == Tidy(NoReceipt)
BY DEF Tidy, NoReceipt, NoRemarks

\* The tags of an untouched draft.
LEMMA TaggedTidy ==
    ASSUME NEW d \in Receipt, Tidy(d), Untouched(d), NEW t \in Tags,
           NEW e, e = [d EXCEPT !.remarks = Tagged(d.remarks, t)]
    PROVE  /\ Tidy(e) /\ Untouched(e) /\ e.remarks.tag = t
           /\ e.state = d.state /\ e.qty = d.qty /\ e.sent = d.sent
<1>1. /\ e.state = d.state /\ e.qty = d.qty /\ e.sent = d.sent /\ e.rejected = d.rejected
      /\ e.remarks = Tagged(d.remarks, t)
  BY DEF Receipt
<1>2. /\ Tagged(d.remarks, t).note = d.remarks.note /\ Tagged(d.remarks, t).tag = t
      /\ Tagged(d.remarks, t).acked = d.remarks.acked
  BY DEF Receipt, Remarks, Tagged
<1> QED BY <1>1, <1>2 DEF Tidy, Untouched

LEMMA AcknowledgedTidy ==
    ASSUME NEW d \in Receipt, Tidy(d), d.remarks.note # NoNote,
           NEW e, e = [d EXCEPT !.remarks = Acknowledged(d.remarks)]
    PROVE  Tidy(e) /\ e.state = d.state /\ e.qty = d.qty /\ e.sent = d.sent
<1>1. /\ e.state = d.state /\ e.qty = d.qty /\ e.sent = d.sent /\ e.rejected = d.rejected
      /\ e.remarks = Acknowledged(d.remarks)
  BY DEF Receipt
<1>2. /\ Acknowledged(d.remarks).note = d.remarks.note
      /\ Acknowledged(d.remarks).tag = d.remarks.tag
  BY DEF Receipt, Remarks, Acknowledged
<1> QED BY <1>1, <1>2 DEF Tidy, Untouched, WholeNote

\* The remarks after a decision about an open draft.
LEMMA AfterIs ==
    ASSUME NEW p, p.seen \in Receipt, p.seen.sent \in Nat, p.acc \in Int, p.ret \in Int,
           Open(p.seen), Acceptable(p.seen.sent, p.acc, p.ret)
    PROVE  /\ After(p).note = DecisionNote(p.seen.sent, p.acc, p.ret)
           /\ ~ After(p).acked /\ After(p).tag = p.seen.remarks.tag
<1> DEFINE n == DecisionNote(p.seen.sent, p.acc, p.ret)
           rm == p.seen.remarks
<1>1. ReadQty(p.seen) = p.seen.sent
  BY DEF Open, Untouched, ReadQty, MaxOf
<1>2. /\ rm \in Remarks /\ rm.note = NoNote /\ ~ rm.acked
      /\ After(p) = IF n = NoNote THEN rm ELSE Decided(rm, n)
  BY <1>1 DEF Receipt, Open, Untouched, After
<1>3. Decided(rm, n).note = n /\ ~ Decided(rm, n).acked /\ Decided(rm, n).tag = rm.tag
  BY <1>2 DEF Decided, Remarks
<1> QED BY <1>2, <1>3

\* The changed document, and that document booked.
LEMMA ChangedTidy ==
    ASSUME NEW p, p.seen \in Receipt, p.seen.sent \in Nat, p.acc \in Int, p.ret \in Int,
           Open(p.seen), Acceptable(p.seen.sent, p.acc, p.ret), Tidy(p.seen)
    PROVE  LET d == Changed(p)
           IN  /\ Tidy(d) /\ Tidy(Booked(d))
               /\ d.state = "draft" /\ d.sent = p.seen.sent /\ d.qty = p.acc
               /\ d.remarks.tag = p.seen.remarks.tag
               /\ d.qty = d.sent => d.remarks.note = NoNote
               /\ Booked(d).state = "submitted"
<1> DEFINE d == Changed(p)
           b == Booked(d)
<1>1. /\ d.state = "draft" /\ d.sent = p.seen.sent /\ d.qty = p.acc
      /\ d.rejected = p.ret /\ d.remarks = After(p)
      /\ b.state = "submitted" /\ b.sent = d.sent /\ b.qty = d.qty
      /\ b.rejected = d.rejected /\ b.remarks = d.remarks
  BY DEF Changed, Booked, Receipt, Open, Untouched
<1>2. /\ After(p).note = DecisionNote(p.seen.sent, p.acc, p.ret)
      /\ ~ After(p).acked /\ After(p).tag = p.seen.remarks.tag
      /\ p.seen.remarks.tag \notin {"pending", "rejected"}
  BY AfterIs DEF Open
<1>3. p.acc = p.seen.sent => After(p).note = NoNote
  BY <1>2, NoteIs
<1>4. p.seen.sent \in Sent
  BY DEF Tidy, Open, Untouched
<1> HIDE DEF d, b
<1>5. Tidy(d) /\ Tidy(b)
  BY <1>1, <1>2, <1>3, <1>4 DEF Tidy
<1> QED BY <1>1, <1>2, <1>3, <1>5 DEF d, b

\* The return of the whole.
LEMMA ReturnedTidy ==
    ASSUME NEW p, p.seen \in Receipt, p.seen.sent \in Nat, p.acc \in Int, p.ret \in Int,
           Open(p.seen), Acceptable(p.seen.sent, p.acc, p.ret), Tidy(p.seen),
           FullReturn(p.seen.sent, p.acc, p.ret)
    PROVE  LET e == [p.seen EXCEPT !.remarks = After(p)]
           IN  /\ Tidy(e) /\ e.state = "draft" /\ e.sent = p.seen.sent /\ e.qty = p.seen.qty
               /\ e.remarks.tag = p.seen.remarks.tag
<1> DEFINE e == [p.seen EXCEPT !.remarks = After(p)]
<1>1. /\ e.state = "draft" /\ e.sent = p.seen.sent /\ e.qty = p.seen.qty
      /\ e.rejected = p.seen.rejected /\ e.remarks = After(p)
  BY DEF Receipt, Open, Untouched
<1>2. /\ After(p).note = DecisionNote(p.seen.sent, p.acc, p.ret)
      /\ ~ After(p).acked /\ After(p).tag = p.seen.remarks.tag
      /\ p.seen.remarks.tag \notin {"pending", "rejected"}
  BY AfterIs DEF Open
<1>3. DecisionNote(p.seen.sent, p.acc, p.ret) = [acc |-> 0, ret |-> p.seen.sent]
  BY DEF FullReturn, Acceptable, DecisionNote
<1>4. p.seen.sent \in Sent /\ p.seen.qty = p.seen.sent
  BY DEF Tidy, Open, Untouched
<1> HIDE DEF e
<1>5. Tidy(e)
  BY <1>1, <1>2, <1>3, <1>4 DEF Tidy, WholeNote
<1> QED BY <1>1, <1>2, <1>5 DEF e

LEMMA CancelledTidy ==
    ASSUME NEW d \in Receipt, Tidy(d), d.state = "submitted",
           NEW e, e = [d EXCEPT !.state = "cancelled"]
    PROVE  Tidy(e) /\ e.state = "cancelled"
<1>1. /\ e.state = "cancelled" /\ e.sent = d.sent /\ e.qty = d.qty
      /\ e.rejected = d.rejected /\ e.remarks = d.remarks
  BY DEF Receipt
<1> QED BY <1>1 DEF Tidy, Untouched

\* What Werka's list offers is an open draft.
LEMMA ListedOpen ==
    ASSUME NEW d \in Receipt, Tidy(d), d.qty \in 0..d.sent, d.state # "none", Listed(d)
    PROVE  Open(d)
<1>1. d.sent \in Nat /\ d.remarks.note \in Split /\ d.state \in DocStates
  BY DEF Receipt, Remarks
<1>2. HttpStatus(d) \in {"pending", "draft"}
  BY DEF Listed, Matches, HttpRecord, Kinds
<1>3. d.state = "draft"
  <2>1. d.state # "cancelled"
    BY <1>2 DEF HttpStatus
  <2>2. d.state # "submitted"
    BY <1>2 DEF HttpStatus, StatusOf
  <2> QED BY <1>1, <2>1, <2>2 DEF DocStates
<1>4. d.remarks.note = NoNote /\ ~ d.remarks.acked /\ d.remarks.tag # "rejected"
  BY <1>3 DEF Listed, Stale, HasNote
<1>5. d.remarks.tag # "pending"
  BY <1>3 DEF Listed, HttpEvent
<1>6. d.qty = d.sent
  BY <1>1, <1>4 DEF Tidy, DecisionNote, NoNote
<1> QED BY <1>3, <1>4, <1>5, <1>6 DEF Open, Untouched

-----------------------------------------------------------------------------
(* Shapes of a step *)

LEMMA Primed ==
    /\ Orderly' <=>
          /\ \A r \in Receipts : Tidy(doc'[r]) /\ Made(make'[r], doc'[r])
          /\ \A q \in Replies : req'[q].pc \notin Ended => Steady(req'[q], doc'[req'[q].on])
          /\ \A q \in Replies : req'[q].pc \notin Ended =>
                /\ make'[req'[q].on].pc \in Ended
                /\ \A p \in Replies :
                      req'[p].pc \notin Ended /\ req'[p].on = req'[q].on => p = q
<1>1. \A r \in Receipts : (Tidy(doc[r]) /\ Made(make[r], doc[r]))'
                             <=> Tidy(doc'[r]) /\ Made(make'[r], doc'[r])
  BY DEF Tidy, Made, Untouched, WholeNote
<1>2. \A q \in Replies : (Steady(req[q], doc[req[q].on]))'
                             <=> Steady(req'[q], doc'[req'[q].on])
  BY DEF Steady, Open, Untouched, Changed, Booked, After
<1> QED BY <1>1, <1>2 DEF Orderly, Alone, Working, Creating

\* What a step of request q on r leaves of the others.
Others(q, r, now) ==
    \A s \in Replies : s # q =>
        /\ now[s].pc = req[s].pc /\ now[s].on = req[s].on
        /\ req[s].on # r => now[s] = req[s]

LEMMA OthersStay ==
    ASSUME SInv, NEW q \in Replies, NEW r \in Receipts, NEW x,
           \/ req' = [req EXCEPT ![q] = x]
           \/ req' = [Outdated(r) EXCEPT ![q] = x]
    PROVE  req'[q] = x /\ Others(q, r, req')
<1>1. CASE req' = [req EXCEPT ![q] = x]
  BY <1>1 DEF SInv, Others
<1>2. CASE req' = [Outdated(r) EXCEPT ![q] = x]
  <2>1. \A s \in Replies : s # q =>
            req'[s] = IF req[s].on = r THEN [req[s] EXCEPT !.fresh = FALSE] ELSE req[s]
    BY <1>2 DEF Outdated
  <2>2. \A s \in Replies : /\ [req[s] EXCEPT !.fresh = FALSE].pc = req[s].pc
                            /\ [req[s] EXCEPT !.fresh = FALSE].on = req[s].on
    BY DEF SInv, Reply
  <2>3. req'[q] = x
    BY <1>2 DEF Outdated
  <2> QED BY <2>1, <2>2, <2>3 DEF Others
<1> QED BY <1>1, <1>2

\* Request q moves, and r with it, which nobody else is at work on.
LEMMA ReplyOrder ==
    ASSUME SInv, Orderly, NEW q \in Replies, NEW r \in Receipts, NEW x, NEW e,
           req'[q] = x, Others(q, r, req'), make' = make,
           doc' = [doc EXCEPT ![r] = e],
           ~ Creating(r), doc[r].state # "none",
           \A s \in Replies : s # q /\ Working(s) => req[s].on # r,
           Tidy(e), e = doc[r] \/ Turn(doc[r], e),
           x.pc \notin Ended => x.on = r /\ Steady(x, e)
    PROVE  Orderly' /\ Turned
<1>1. doc \in [Receipts -> Receipt]
  BY DEF SInv
<1>2. doc'[r] = e /\ \A s \in Receipts : s # r => doc'[s] = doc[s]
  BY <1>1
<1>3. make[r].pc \notin {"idle", "inserted", "read"}
  <2>1. make[r].pc # "idle"
    BY DEF Orderly, Made, NoReceipt
  <2> QED BY <2>1 DEF Creating, Ended
<1>4. \A s \in Receipts : Tidy(doc'[s]) /\ Made(make'[s], doc'[s])
  BY <1>2, <1>3 DEF Orderly, Made
<1>5. \A s \in Replies : s # q /\ Working(s) => req'[s] = req[s] /\ req[s].on \in Receipts
  BY DEF Others, SInv, SafeReply, Working
<1>6. \A s \in Replies : req'[s].pc \notin Ended =>
          \/ s = q /\ req'[s].on = r
          \/ s # q /\ Working(s) /\ req'[s] = req[s] /\ req[s].on \in Receipts \ {r}
  BY <1>5 DEF Others, Working
<1>7. \A s \in Replies : req'[s].pc \notin Ended => Steady(req'[s], doc'[req'[s].on])
  BY <1>2, <1>6 DEF Orderly
<1>8. \A s \in Replies : req'[s].pc \notin Ended =>
                /\ make'[req'[s].on].pc \in Ended
                /\ \A p \in Replies :
                      req'[p].pc \notin Ended /\ req'[p].on = req'[s].on => p = s
  BY <1>6 DEF Orderly, Alone, Creating
<1>9. Orderly'
  BY <1>4, <1>7, <1>8, Primed
<1>10. Turned
  BY <1>1 DEF Turned
<1> QED BY <1>9, <1>10

\* Without failed calls that step leaves no changed draft behind.
Hurried(q, r, x, d, e) ==
    faults'.calls = 0 =>
        /\ faults.calls = 0 /\ x.pc # "undoing"
        /\ e.state = "draft" /\ e.qty < e.sent =>
              \/ x.on = r /\ x.pc \in {"written", "latest"}
              \/ /\ req[q].pc \notin {"written", "latest"}
                 /\ d.state = "draft" /\ d.qty < d.sent

LEMMA PrimedSubmitting ==
    Submitting' <=>
        (faults'.calls = 0 =>
            /\ \A q \in Replies : req'[q].pc # "undoing"
            /\ \A r \in Receipts : doc'[r].state = "draft" /\ doc'[r].qty < doc'[r].sent =>
                  \E q \in Replies : req'[q].on = r /\ req'[q].pc \in {"written", "latest"})
BY DEF Submitting

LEMMA ReplySubmits ==
    ASSUME SInv, Submitting, NEW q \in Replies, NEW r \in Receipts, NEW x, NEW e,
           req'[q] = x, Others(q, r, req'), doc' = [doc EXCEPT ![r] = e],
           req[q].pc \in {"written", "latest"} => req[q].on = r,
           Hurried(q, r, x, doc[r], e)
    PROVE  Submitting'
<1> SUFFICES ASSUME faults'.calls = 0
             PROVE  /\ \A s \in Replies : req'[s].pc # "undoing"
                    /\ \A s \in Receipts :
                          doc'[s].state = "draft" /\ doc'[s].qty < doc'[s].sent =>
                          \E p \in Replies : /\ req'[p].on = s
                                             /\ req'[p].pc \in {"written", "latest"}
  BY PrimedSubmitting
<1>1. doc \in [Receipts -> Receipt]
  BY DEF SInv
<1>2. doc'[r] = e /\ \A s \in Receipts : s # r => doc'[s] = doc[s]
  BY <1>1
<1>3. \A s \in Replies : req'[s].pc # "undoing"
  BY DEF Hurried, Submitting, Others
<1>4. ASSUME NEW s \in Receipts, doc[s].state = "draft", doc[s].qty < doc[s].sent,
             s = r => req[q].pc \notin {"written", "latest"}
      PROVE  \E p \in Replies : req'[p].on = s /\ req'[p].pc \in {"written", "latest"}
  <2>1. PICK p \in Replies : req[p].on = s /\ req[p].pc \in {"written", "latest"}
    BY <1>4 DEF Submitting, Hurried
  <2>2. p # q
    BY <1>4, <2>1
  <2> QED BY <2>1, <2>2 DEF Others
<1>5. ASSUME NEW s \in Receipts, doc'[s].state = "draft", doc'[s].qty < doc'[s].sent
      PROVE  \E p \in Replies : req'[p].on = s /\ req'[p].pc \in {"written", "latest"}
  <2>1. CASE s # r
    BY <1>2, <1>4, <1>5, <2>1
  <2>2. CASE s = r
    BY <1>2, <1>4, <1>5, <2>2 DEF Hurried
  <2> QED BY <2>1, <2>2
<1> QED BY <1>3, <1>5

\* Request q at work on r, as Orderly has it.
LEMMA AtWork ==
    ASSUME SInv, Orderly, NEW q \in Replies, Working(q)
    PROVE  LET r == req[q].on
               d == doc[r]
           IN  /\ r \in Receipts /\ ~ Creating(r)
               /\ \A s \in Replies : s # q /\ Working(s) => req[s].on # r
               /\ Steady(req[q], d) /\ d \in Receipt /\ Tidy(d) /\ d.state # "none"
               /\ d.qty \in 0 .. d.sent
               /\ req[q] \in Reply /\ req[q].seen \in Receipt /\ req[q].seen.sent \in Nat
               /\ req[q].acc \in Int /\ req[q].ret \in Int
<1>1. req[q] \in Reply /\ req[q].on \in Receipts
  BY DEF SInv, SafeReply, Working
<1>2. doc[req[q].on] \in Receipt /\ SafeDoc(heard, req[q].on, doc[req[q].on])
  BY <1>1 DEF SInv
<1>3. req[q].seen \in Receipt /\ req[q].seen.sent \in Nat /\ req[q].acc \in Int
      /\ req[q].ret \in Int
  BY <1>1 DEF Reply, Receipt
<1>4. Steady(req[q], doc[req[q].on])
  BY DEF Orderly
<1> QED BY <1>1, <1>2, <1>3, <1>4 DEF Orderly, Alone, Steady, SafeDoc

LEMMA OverEnds ==
    ASSUME SInv, NEW q \in Replies, NEW pc \in {"done", "refused", "failed"}
    PROVE  Over(q, pc).pc = pc /\ Over(q, pc).pc \in Ended
BY DEF SInv, Reply, Over, Ended

\* What a write may leave: the document e and the request as x.
Leaves(r, x, e) == x.pc \notin Ended => x.on = r /\ Steady(x, e)

\* A write by q, answered or not.
LEMMA WriteOrder ==
    ASSUME SInv, Orderly, NEW q \in Replies, Working(q),
           NEW allowed \in BOOLEAN, NEW new, NEW next, NEW otherwise,
           WriteBy(q, allowed, new, next, otherwise), make' = make,
           Leaves(req[q].on, otherwise, doc[req[q].on]),
           allowed => /\ Tidy(new) /\ Turn(doc[req[q].on], new)
                      /\ Leaves(req[q].on, next, new)
                      /\ Leaves(req[q].on, otherwise, new)
    PROVE  Orderly' /\ Turned
<1> DEFINE r == req[q].on
<1>1. /\ r \in Receipts /\ ~ Creating(r) /\ Tidy(doc[r]) /\ doc[r].state # "none"
      /\ \A s \in Replies : s # q /\ Working(s) => req[s].on # r
  BY AtWork
<1>2. \/ allowed /\ Written(q, new, next)
      \/ allowed /\ Written(q, new, otherwise)
      \/ req' = [req EXCEPT ![q] = otherwise] /\ doc' = doc
  BY WriteCases
<1>3. ASSUME NEW x \in {next, otherwise}, allowed, Written(q, new, x)
      PROVE  Orderly' /\ Turned
  <2>1. req' = [Outdated(r) EXCEPT ![q] = x] /\ doc' = [doc EXCEPT ![r] = new]
    BY <1>3 DEF Written
  <2>2. req'[q] = x /\ Others(q, r, req')
    BY <1>1, <2>1, OthersStay
  <2>3. /\ Tidy(new) /\ Turn(doc[r], new)
        /\ x.pc \notin Ended => x.on = r /\ Steady(x, new)
    BY <1>3 DEF Leaves
  <2> QED BY <1>1, <2>1, <2>2, <2>3, ReplyOrder
<1>4. CASE req' = [req EXCEPT ![q] = otherwise] /\ doc' = doc
  <2>1. req'[q] = otherwise /\ Others(q, r, req')
    BY <1>1, <1>4, OthersStay
  <2>2. doc' = [doc EXCEPT ![r] = doc[r]]
    BY <1>1, <1>4 DEF SInv
  <2>3. otherwise.pc \notin Ended => otherwise.on = r /\ Steady(otherwise, doc[r])
    BY DEF Leaves
  <2> QED BY <1>1, <2>1, <2>2, <2>3, ReplyOrder
<1> QED BY <1>2, <1>3, <1>4

\* As long as no call has failed the write leaves no changed draft behind.
LEMMA WriteSubmits ==
    ASSUME SInv, Submitting, NEW q \in Replies, Working(q),
           NEW allowed \in BOOLEAN, NEW new, NEW next, NEW otherwise,
           WriteBy(q, allowed, new, next, otherwise),
           faults.calls = 0 =>
              /\ ~ allowed => /\ req[q].pc \notin {"written", "latest"}
                             /\ otherwise.pc # "undoing"
              /\ allowed => next.pc # "undoing"
              /\ allowed /\ new.state = "draft" /\ new.qty < new.sent =>
                    \/ next.on = req[q].on /\ next.pc \in {"written", "latest"}
                    \/ /\ req[q].pc \notin {"written", "latest"}
                       /\ doc[req[q].on].state = "draft"
                       /\ doc[req[q].on].qty < doc[req[q].on].sent
    PROVE  Submitting'
<1> DEFINE r == req[q].on
<1>1. r \in Receipts
  BY DEF SInv, SafeReply, Working
<1>2. CASE faults'.calls # 0
  BY <1>2, PrimedSubmitting
<1>3. CASE faults'.calls = 0
  <2>1. /\ faults'.calls = faults.calls
        /\ \/ allowed /\ Written(q, new, next)
           \/ ~ allowed /\ req' = [req EXCEPT ![q] = otherwise] /\ doc' = doc
    BY <1>3 DEF WriteBy, Fault, SInv, FaultTypes
  <2>2. CASE allowed /\ Written(q, new, next)
    <3>1. req' = [Outdated(r) EXCEPT ![q] = next] /\ doc' = [doc EXCEPT ![r] = new]
      BY <2>2 DEF Written
    <3>2. req'[q] = next /\ Others(q, r, req')
      BY <1>1, <3>1, OthersStay
    <3>3. Hurried(q, r, next, doc[r], new)
      BY <2>1, <2>2 DEF Hurried
    <3> QED BY <1>1, <3>1, <3>2, <3>3, ReplySubmits
  <2>3. CASE ~ allowed /\ req' = [req EXCEPT ![q] = otherwise] /\ doc' = doc
    <3>1. req'[q] = otherwise /\ Others(q, r, req')
      BY <1>1, <2>3, OthersStay
    <3>2. Hurried(q, r, otherwise, doc[r], doc[r])
      BY <2>1, <2>3 DEF Hurried
    <3>3. doc' = [doc EXCEPT ![r] = doc[r]]
      BY <2>3 DEF SInv
    <3> QED BY <1>1, <3>1, <3>2, <3>3, ReplySubmits
  <2> QED BY <2>1, <2>2, <2>3
<1> QED BY <1>2, <1>3

\* q moves on, and nothing is written.
LEMMA MoveOrder ==
    ASSUME SInv, Orderly, NEW q \in Replies, NEW r \in Receipts, NEW x,
           req' = [req EXCEPT ![q] = x], UNCHANGED <<make, doc>>,
           ~ Creating(r), doc[r].state # "none",
           \A s \in Replies : s # q /\ Working(s) => req[s].on # r,
           Leaves(r, x, doc[r])
    PROVE  /\ Orderly' /\ Turned
           /\ /\ Submitting
              /\ req[q].pc \in {"written", "latest"} =>
                    req[q].on = r /\ (faults'.calls = 0 => x.pc \in {"written", "latest"} /\ x.on = r)
              /\ faults'.calls = 0 => faults.calls = 0 /\ x.pc # "undoing"
              => Submitting'
<1>1. req'[q] = x /\ Others(q, r, req')
  BY OthersStay
<1>2. doc' = [doc EXCEPT ![r] = doc[r]]
  BY DEF SInv
<1>3. Tidy(doc[r]) /\ (x.pc \notin Ended => x.on = r /\ Steady(x, doc[r]))
  BY DEF Orderly, Leaves
<1>4. Orderly' /\ Turned
  BY <1>1, <1>2, <1>3, ReplyOrder
<1>5. ASSUME Submitting,
             req[q].pc \in {"written", "latest"} =>
                    req[q].on = r /\ (faults'.calls = 0 => x.pc \in {"written", "latest"} /\ x.on = r),
             faults'.calls = 0 => faults.calls = 0 /\ x.pc # "undoing"
      PROVE  Submitting'
  <2>1. Hurried(q, r, x, doc[r], doc[r])
    BY <1>5 DEF Hurried
  <2> QED BY <1>1, <1>2, <1>5, <2>1, ReplySubmits
<1> QED BY <1>4, <1>5

-----------------------------------------------------------------------------
(* Confirming *)

LEMMA SameChange ==
    ASSUME NEW p, NEW x, x.seen = p.seen, x.acc = p.acc, x.ret = p.ret
    PROVE  Changed(x) = Changed(p)
BY DEF Changed, After

LEMMA ReturnOrder ==
    ASSUME SInv, Orderly, NEW q \in Replies, ConfirmReturn(q)
    PROVE  Orderly' /\ Turned /\ (Submitting => Submitting')
<1> DEFINE p == req[q]
           d == doc[p.on]
           new == [d EXCEPT !.remarks = RemarksAfter(q)]
           allowed == Writable(d)
<1>1. p.pc = "returning" /\ Working(q) /\ make' = make
  BY DEF ConfirmReturn, Working, Ended
<1>2. /\ p.seen = d /\ d \in Receipt /\ Tidy(d) /\ Open(d) /\ d.sent \in Nat
      /\ p.acc \in Int /\ p.ret \in Int
      /\ Acceptable(d.sent, p.acc, p.ret) /\ FullReturn(d.sent, p.acc, p.ret)
  BY <1>1, AtWork DEF Steady
<1>3. new = [p.seen EXCEPT !.remarks = After(p)]
  BY <1>2 DEF RemarksAfter, After
<1>4. /\ Tidy(new) /\ new.state = "draft" /\ new.sent = d.sent /\ new.qty = d.qty
      /\ new.remarks.tag = d.remarks.tag
  BY <1>2, <1>3, ReturnedTidy
<1>5. WriteBy(q, allowed, new, Over(q, "done"), Over(q, "failed"))
  BY DEF ConfirmReturn
<1>6. allowed \in BOOLEAN /\ allowed /\ d.qty = d.sent
  BY <1>2 DEF Writable, Open, Untouched
<1>7. Turn(d, new)
  BY <1>2, <1>4 DEF Turn
<1>8. /\ Leaves(p.on, Over(q, "failed"), d) /\ Leaves(p.on, Over(q, "failed"), new)
      /\ Leaves(p.on, Over(q, "done"), new) /\ Over(q, "done").pc # "undoing"
  BY OverEnds DEF Leaves
<1>9. ~ (new.qty < new.sent)
  BY <1>2, <1>4, <1>6 DEF Receipt
<1> HIDE DEF new, allowed
<1> QED BY <1>1, <1>4, <1>5, <1>6, <1>7, <1>8, <1>9, WriteOrder, WriteSubmits

LEMMA ChangeOrder ==
    ASSUME SInv, Orderly, NEW q \in Replies, ConfirmWrite(q)
    PROVE  Orderly' /\ Turned /\ (Submitting => Submitting')
<1> DEFINE p == req[q]
           d == doc[p.on]
           new == [p.seen EXCEPT !.qty = p.acc, !.rejected = p.ret,
                                 !.remarks = RemarksAfter(q)]
           next == [p EXCEPT !.pc = "written", !.fresh = FALSE]
           allowed == Accepts(d, new, p.fresh)
<1>1. p.pc = "deciding" /\ Working(q) /\ make' = make
  BY DEF ConfirmWrite, Working, Ended
<1>2. /\ p.seen = d /\ d \in Receipt /\ Tidy(d) /\ Open(d) /\ d.sent \in Nat
      /\ p \in Reply /\ p.acc \in Int /\ p.ret \in Int /\ p.fresh = TRUE
      /\ Acceptable(d.sent, p.acc, p.ret)
  BY <1>1, AtWork DEF Steady
<1>3. new = Changed(p)
  BY DEF RemarksAfter, After, Changed
<1>4. /\ Tidy(new) /\ new.state = "draft" /\ new.sent = d.sent
      /\ new.remarks.tag = d.remarks.tag
  <2>1. /\ p.seen \in Receipt /\ p.seen.sent \in Nat /\ Tidy(p.seen)
        /\ Open(p.seen) /\ Acceptable(p.seen.sent, p.acc, p.ret)
    BY <1>2
  <2> HIDE DEF new
  <2>2. LET c == Changed(p)
        IN  /\ Tidy(c) /\ c.state = "draft" /\ c.sent = p.seen.sent
            /\ c.remarks.tag = p.seen.remarks.tag
    BY <1>2, <2>1, ChangedTidy
  <2> QED BY <1>2, <1>3, <2>2
<1>5. WriteBy(q, allowed, new, next, Over(q, "failed"))
  BY DEF ConfirmWrite
<1>6. allowed \in BOOLEAN /\ allowed
  BY <1>2, <1>4 DEF Accepts, Writable, Open, Untouched
<1>7. Turn(d, new)
  BY <1>2, <1>4 DEF Turn
<1>8. /\ next.pc = "written" /\ next.on = p.on /\ next.seen = p.seen
      /\ next.acc = p.acc /\ next.ret = p.ret
  BY <1>2 DEF Reply
<1>9. Changed(next) = new
  BY <1>3, <1>8, SameChange
<1> HIDE DEF new, next, allowed
<1>10. Steady(next, new)
  BY <1>2, <1>4, <1>8, <1>9 DEF Steady
<1>11. /\ Leaves(p.on, Over(q, "failed"), d) /\ Leaves(p.on, Over(q, "failed"), new)
       /\ Leaves(p.on, next, new)
  BY <1>8, <1>10, OverEnds DEF Leaves
<1> QED BY <1>1, <1>4, <1>5, <1>6, <1>7, <1>8, <1>11, WriteOrder, WriteSubmits

LEMMA LatestOrder ==
    ASSUME SInv, Orderly, NEW q \in Replies, ConfirmLatest(q)
    PROVE  Orderly' /\ Turned /\ (Submitting => Submitting')
<1> DEFINE p == req[q]
           r == p.on
           d == doc[r]
           next == [p EXCEPT !.pc = "latest", !.latest = d, !.fresh = TRUE]
           undo == [p EXCEPT !.pc = "undoing"]
<1>1. p.pc = "written" /\ Working(q) /\ UNCHANGED <<make, doc>>
  BY DEF ConfirmLatest, Working, Ended
<1>2. /\ r \in Receipts /\ ~ Creating(r) /\ d.state # "none"
      /\ \A s \in Replies : s # q /\ Working(s) => req[s].on # r
      /\ p \in Reply /\ Open(p.seen) /\ Acceptable(p.seen.sent, p.acc, p.ret)
      /\ d = Changed(p)
  BY <1>1, AtWork DEF Steady
<1>3. \/ req' = [req EXCEPT ![q] = next] /\ faults' = faults
      \/ req' = [req EXCEPT ![q] = undo] /\ Fault
  BY <1>1 DEF ConfirmLatest, SInv
<1>4. /\ next.pc = "latest" /\ next.on = r /\ next.seen = p.seen
      /\ next.acc = p.acc /\ next.ret = p.ret /\ next.fresh = TRUE /\ next.latest = d
      /\ undo.pc = "undoing" /\ undo.on = r /\ undo.seen = p.seen
      /\ undo.acc = p.acc /\ undo.ret = p.ret
  BY <1>2 DEF Reply
<1> HIDE DEF next, undo
<1>5. Changed(next) = Changed(p) /\ Changed(undo) = Changed(p)
  <2>1. Changed(next) = Changed(p)
    BY <1>4, SameChange
  <2>2. Changed(undo) = Changed(p)
    BY <1>4, SameChange
  <2> QED BY <2>1, <2>2
<1>6. Leaves(r, next, d) /\ Leaves(r, undo, d)
  BY <1>2, <1>4, <1>5 DEF Leaves, Steady
<1>7. Fault => faults'.calls # 0
  BY DEF Fault, SInv, FaultTypes
<1> QED BY <1>1, <1>2, <1>3, <1>4, <1>6, <1>7, MoveOrder

\* The document is still as this request wrote it, so the submit is allowed.
LEMMA SubmitOrder ==
    ASSUME SInv, Orderly, NEW q \in Replies, ConfirmSubmit(q)
    PROVE  Orderly' /\ Turned /\ (Submitting => Submitting')
<1> DEFINE p == req[q]
           r == p.on
           d == doc[r]
           new == [p.latest EXCEPT !.state = "submitted"]
           undo == [p EXCEPT !.pc = "undoing"]
           allowed == Accepts(d, p.latest, p.fresh)
<1>1. p.pc = "latest" /\ Working(q) /\ make' = make
  BY DEF ConfirmSubmit, Working, Ended
<1>2. /\ d \in Receipt /\ d.state # "none" /\ Tidy(d)
      /\ p \in Reply /\ p.seen \in Receipt /\ p.seen.sent \in Nat
      /\ p.acc \in Int /\ p.ret \in Int
      /\ Open(p.seen) /\ Acceptable(p.seen.sent, p.acc, p.ret)
      /\ d = Changed(p) /\ p.latest = d /\ p.fresh = TRUE
  BY <1>1, AtWork DEF Steady
<1>3. new = Booked(d)
  BY <1>2 DEF Booked
<1>4. Tidy(p.seen) => /\ Tidy(new) /\ d.state = "draft"
                      /\ d.remarks.tag = p.seen.remarks.tag
                      /\ d.qty = d.sent => d.remarks.note = NoNote
                      /\ new.state = "submitted"
  BY <1>2, <1>3, ChangedTidy
<1>5. Tidy(p.seen)
  <2>1. d.sent = p.seen.sent /\ d.state = "draft"
    BY <1>2 DEF Changed, Receipt, Open, Untouched
  <2>2. p.seen.sent \in Sent
    BY <1>2, <2>1 DEF Tidy
  <2> QED BY <1>2, <2>2 DEF Open, Untouched, Tidy, Receipt
<1>6. WriteBy(q, allowed, new, Over(q, "done"), undo)
  BY DEF ConfirmSubmit
<1>7. allowed \in BOOLEAN /\ allowed
  BY <1>2, <1>4, <1>5 DEF Accepts, Writable
<1>8. Turn(d, new)
  BY <1>2, <1>3, <1>4, <1>5 DEF Turn, Open
<1>9. /\ undo.pc = "undoing" /\ undo.on = r /\ undo.seen = p.seen
      /\ undo.acc = p.acc /\ undo.ret = p.ret
  BY <1>2 DEF Reply
<1>10. Changed(undo) = d
  BY <1>2, <1>9, SameChange
<1> HIDE DEF new, undo, allowed
<1>11. Leaves(r, undo, d) /\ Leaves(r, undo, new)
  BY <1>2, <1>3, <1>4, <1>5, <1>9, <1>10 DEF Leaves, Steady
<1>12. Leaves(r, Over(q, "done"), new) /\ Over(q, "done").pc # "undoing"
  BY OverEnds DEF Leaves
<1> QED BY <1>1, <1>4, <1>5, <1>6, <1>7, <1>8, <1>11, <1>12, WriteOrder, WriteSubmits

LEMMA NoRetry ==
    ASSUME SInv, Orderly, NEW q \in Replies
    PROVE  ~ ConfirmRetry(q)
<1> SUFFICES ASSUME ConfirmRetry(q) PROVE FALSE
  OBVIOUS
<1>1. req[q].pc = "latest" /\ Working(q) /\ req[q].fresh # TRUE
  BY DEF ConfirmRetry, Mismatch, Working, Ended
<1> QED BY <1>1, AtWork DEF Steady

\* Without time stamps an undo brings back the open draft that was read first,
\* if it is allowed: what has been booked is never undone.
LEMMA UndoOrder ==
    ASSUME SInv, Orderly, NEW q \in Replies, ConfirmUndo(q)
    PROVE  Orderly' /\ Turned /\ (Submitting => Submitting')
<1> DEFINE p == req[q]
           d == doc[p.on]
           allowed == Accepts(d, p.seen, FALSE)
<1>1. p.pc = "undoing" /\ Working(q) /\ make' = make
  BY DEF ConfirmUndo, Working, Ended
<1>2. /\ Tidy(d) /\ d.state # "none" /\ p.seen \in Receipt /\ Open(p.seen)
      /\ d \in {Changed(p), Booked(Changed(p))}
  BY <1>1, AtWork DEF Steady
<1>3. d.sent = p.seen.sent
  BY <1>2 DEF Changed, Booked, Receipt
<1>4. Tidy(p.seen)
  <2>1. p.seen.sent \in Sent
    BY <1>2, <1>3 DEF Tidy
  <2> QED BY <1>2, <2>1 DEF Open, Untouched, Tidy, Receipt
<1>5. WriteBy(q, allowed, p.seen, Over(q, "failed"), Over(q, "failed"))
  BY DEF ConfirmUndo
<1>6. allowed \in BOOLEAN /\ (allowed => Turn(d, p.seen))
  BY DEF Accepts, Writable, Turn
<1>7. /\ Leaves(p.on, Over(q, "failed"), d)
      /\ Leaves(p.on, Over(q, "failed"), p.seen)
  BY OverEnds DEF Leaves
<1>8. Submitting => faults.calls # 0
  BY <1>1 DEF Submitting
<1> HIDE DEF allowed
<1>9. Orderly' /\ Turned
  BY <1>1, <1>4, <1>5, <1>6, <1>7, WriteOrder
<1>10. Submitting => Submitting'
  BY <1>1, <1>5, <1>6, <1>8, WriteSubmits
<1> QED BY <1>9, <1>10

-----------------------------------------------------------------------------
(* Reading, answering and acknowledging *)

LEMMA DecidingSteady ==
    ASSUME SInv, NEW r \in Receipts, Open(doc[r]), NEW acc \in Int, NEW ret \in Int,
           Acceptable(ReadQty(doc[r]), acc, ret)
    PROVE  Leaves(r, Deciding(r, acc, ret), doc[r]) /\ Deciding(r, acc, ret).pc # "undoing"
<1> DEFINE d == doc[r]
           x == Deciding(r, acc, ret)
<1>1. ReadQty(d) = d.sent /\ d.state = "draft"
  BY ReadIsSent DEF SInv, Open, Untouched
<1>2. /\ x.pc = IF FullReturn(d.sent, acc, ret) THEN "returning" ELSE "deciding"
      /\ x.on = r /\ x.acc = acc /\ x.ret = ret /\ x.seen = d /\ x.fresh = TRUE
  BY <1>1 DEF Deciding, NoReply
<1> QED BY <1>1, <1>2 DEF Leaves, Steady

\* A request that starts on r is the only one at work on it.
LEMMA StartsAlone ==
    ASSUME Serial, NEW r \in Receipts, NEW q \in Replies, req[q].pc = "idle", Free(r)
    PROVE  ~ Creating(r) /\ \A s \in Replies : s # q /\ Working(s) => req[s].on # r
BY DEF Serial, Free

LEMMA StartOrder ==
    ASSUME Serial, SInv, Orderly, NEW q \in Replies, NEW r \in Receipts,
           ConfirmRead(q, r) \/ RespondRead(q, r) \/ AckSay(q, r)
    PROVE  Orderly' /\ Turned /\ (Submitting => Submitting')
<1> DEFINE d == doc[r]
<1>1. /\ req[q].pc = "idle" /\ d.state # "none" /\ UNCHANGED <<doc, make>>
      /\ Free(r)
  BY DEF ConfirmRead, RespondRead, AckSay
<1>2. ~ Creating(r) /\ \A s \in Replies : s # q /\ Working(s) => req[s].on # r
  BY <1>1, StartsAlone
<1>3. d \in Receipt /\ Tidy(d) /\ d.qty \in 0 .. d.sent
  BY DEF SInv, SafeDoc, Orderly
<1>4. ASSUME NEW x, req' = [req EXCEPT ![q] = x], Leaves(r, x, d), x.pc # "undoing",
             faults' = faults \/ Fault
      PROVE  Orderly' /\ Turned /\ (Submitting => Submitting')
  <2>1. faults'.calls = 0 => faults.calls = 0
    BY <1>4 DEF Fault, SInv, FaultTypes
  <2> QED BY <1>1, <1>2, <1>4, <2>1, MoveOrder
<1>5. CASE ConfirmRead(q, r)
  <2>1. PICK acc \in Amounts, ret \in Amounts :
           /\ Acceptable(ReadQty(d), acc, ret)
           /\ req' = [req EXCEPT ![q] = Deciding(r, acc, ret)]
    BY <1>5 DEF ConfirmRead
  <2>2. acc \in Int /\ ret \in Int
    BY ReceiptConstants
  <2>3. Open(d)
    BY <1>1, <1>3, <1>5, ListedOpen DEF ConfirmRead, Serial
  <2>4. faults' = faults
    BY <1>5 DEF ConfirmRead
  <2> DEFINE x == Deciding(r, acc, ret)
  <2>5. Leaves(r, x, d) /\ x.pc # "undoing"
    BY <2>1, <2>2, <2>3, DecidingSteady
  <2>6. req' = [req EXCEPT ![q] = x]
    BY <2>1
  <2> HIDE DEF x
  <2> QED BY <1>4, <2>4, <2>5, <2>6
<1>6. CASE RespondRead(q, r)
  <2>1. PICK pc \in {"approving", "rejecting"} :
           req' = [req EXCEPT ![q] = [NoReply EXCEPT !.pc = pc, !.on = r, !.seen = d,
                                                     !.fresh = TRUE]]
    BY <1>6 DEF RespondRead, Reading
  <2> DEFINE x == [NoReply EXCEPT !.pc = pc, !.on = r, !.seen = d, !.fresh = TRUE]
  <2>2. x.pc = pc /\ x.on = r /\ x.seen = d
    BY DEF NoReply
  <2>3. d.remarks.tag = "pending" /\ faults' = faults
    BY <1>6 DEF RespondRead
  <2>4. req' = [req EXCEPT ![q] = x]
    BY <2>1
  <2> HIDE DEF x
  <2>5. Leaves(r, x, d) /\ x.pc # "undoing"
    BY <1>1, <2>2, <2>3 DEF Leaves, Steady
  <2> QED BY <1>4, <2>3, <2>4, <2>5
<1>7. CASE AckSay(q, r)
  <2>1. PICK pc \in {"said", "failed"} :
           /\ req' = [req EXCEPT ![q] = [NoReply EXCEPT !.pc = pc, !.on = r]]
           /\ faults' = faults \/ Fault
    BY <1>7 DEF AckSay
  <2> DEFINE x == [NoReply EXCEPT !.pc = pc, !.on = r]
  <2>2. x.pc = pc /\ x.on = r
    BY DEF NoReply
  <2>3. d.remarks.note # NoNote
    BY <1>7 DEF AckSay, Serial
  <2>4. req' = [req EXCEPT ![q] = x]
    BY <2>1
  <2> HIDE DEF x
  <2>5. Leaves(r, x, d) /\ x.pc # "undoing"
    BY <1>1, <2>2, <2>3 DEF Leaves, Steady, Ended
  <2> QED BY <1>4, <2>1, <2>4, <2>5
<1> QED BY <1>5, <1>6, <1>7

LEMMA RefuseOrder ==
    ASSUME SInv, Orderly, NEW q \in Replies, ConfirmRefuse(q)
    PROVE  Orderly' /\ Turned /\ (Submitting => Submitting')
<1>1. /\ req[q].pc = "idle" /\ UNCHANGED <<doc, make, faults>>
      /\ req' = [req EXCEPT ![q] = [req[q] EXCEPT !.pc = "refused"]]
  BY DEF ConfirmRefuse
<1>2. req'[q].pc = "refused" /\ \A s \in Replies : s # q => req'[s] = req[s]
  BY <1>1 DEF SInv, Reply
<1>3. Orderly'
  BY <1>1, <1>2, Primed DEF Orderly, Alone, Working, Creating, Ended
<1>4. Submitting => Submitting'
  <2> SUFFICES ASSUME Submitting, faults.calls = 0
               PROVE  /\ \A s \in Replies : req'[s].pc # "undoing"
                      /\ \A r \in Receipts :
                            doc[r].state = "draft" /\ doc[r].qty < doc[r].sent =>
                            \E s \in Replies : /\ req'[s].on = r
                                               /\ req'[s].pc \in {"written", "latest"}
    BY <1>1, PrimedSubmitting
  <2>1. \A s \in Replies : req[s].pc \in {"written", "latest"} => req'[s] = req[s]
    BY <1>1, <1>2
  <2> QED BY <1>2, <2>1 DEF Submitting
<1> QED BY <1>1, <1>3, <1>4 DEF Turned

\* The supplier's answer, written to an untouched draft.
LEMMA TagOrder ==
    ASSUME SInv, Orderly, NEW q \in Replies, RespondReject(q) \/ RespondApprove(q)
    PROVE  Orderly' /\ Turned /\ (Submitting => Submitting')
<1> DEFINE p == req[q]
           d == doc[p.on]
           allowed == Writable(d)
<1>1. p.pc \in {"approving", "rejecting"} /\ Working(q) /\ make' = make
  BY DEF RespondReject, RespondApprove, Working, Ended
<1>2. /\ p.seen = d /\ d \in Receipt /\ Tidy(d) /\ d.remarks.tag = "pending"
      /\ d.state # "none" /\ p \in Reply
  BY <1>1, AtWork DEF Steady
<1>3. Untouched(d) /\ d.state = "draft" /\ d.qty = d.sent
  BY <1>2 DEF Tidy, Untouched
<1>4. allowed \in BOOLEAN /\ allowed
  BY <1>3 DEF Writable
<1>5. ASSUME NEW t \in {"approved", "rejected"}, NEW next, next.pc # "undoing",
             WriteBy(q, allowed, [d EXCEPT !.remarks = Tagged(p.seen.remarks, t)],
                     next, Over(q, "failed")),
             next.pc \notin Ended => next.on = p.on /\ next.pc = "approved" /\ t = "approved"
      PROVE  Orderly' /\ Turned /\ (Submitting => Submitting')
  <2> DEFINE new == [d EXCEPT !.remarks = Tagged(d.remarks, t)]
  <2>1. WriteBy(q, allowed, new, next, Over(q, "failed"))
    BY <1>2, <1>5
  <2>2. /\ Tidy(new) /\ Untouched(new) /\ new.remarks.tag = t /\ new.state = "draft"
        /\ new.qty = d.qty /\ new.sent = d.sent
    <3>1. t \in Tags
      BY <1>5 DEF Tags
    <3>2. ASSUME NEW c \in Receipt, Tidy(c), Untouched(c),
                 NEW e, e = [c EXCEPT !.remarks = Tagged(c.remarks, t)]
          PROVE  /\ Tidy(e) /\ Untouched(e) /\ e.remarks.tag = t
                 /\ e.state = c.state /\ e.qty = c.qty /\ e.sent = c.sent
      BY <3>1, <3>2, TaggedTidy
    <3> QED BY <1>2, <1>3, <3>2
  <2>3. Turn(d, new)
    <3>1. t \in Tags
      BY <1>5 DEF Tags
    <3> QED BY <1>2, <1>3, <1>5, <3>1 DEF Turn
  <2> HIDE DEF new, allowed
  <2>4. Leaves(p.on, next, new)
    BY <1>5, <2>2 DEF Leaves, Steady, Open, Untouched
  <2>5. Leaves(p.on, Over(q, "failed"), d) /\ Leaves(p.on, Over(q, "failed"), new)
    BY OverEnds DEF Leaves
  <2>6. ~ (new.qty < new.sent)
    BY <1>2, <1>3, <2>2 DEF Receipt
  <2> QED BY <1>1, <1>4, <1>5, <2>1, <2>2, <2>3, <2>4, <2>5, <2>6, WriteOrder, WriteSubmits
<1>6. CASE RespondReject(q)
  <2>1. WriteBy(q, allowed, [d EXCEPT !.remarks = Tagged(p.seen.remarks, "rejected")],
                Over(q, "done"), Over(q, "failed"))
    BY <1>6 DEF RespondReject, TagWrite
  <2>2. Over(q, "done").pc # "undoing" /\ Over(q, "done").pc \in Ended
    BY OverEnds
  <2> QED BY <1>5, <2>1, <2>2
<1>7. CASE RespondApprove(q)
  <2> DEFINE next == [p EXCEPT !.pc = "approved"]
  <2>1. WriteBy(q, allowed, [d EXCEPT !.remarks = Tagged(p.seen.remarks, "approved")],
                next, Over(q, "failed"))
    BY <1>7 DEF RespondApprove, TagWrite
  <2>2. next.pc = "approved" /\ next.on = p.on
    BY <1>2 DEF Reply
  <2> HIDE DEF next
  <2> QED BY <1>5, <2>1, <2>2
<1> QED BY <1>6, <1>7

\* The reads in the middle of a request: what is read has not changed since.
LEMMA ReadAgainOrder ==
    ASSUME SInv, Orderly, NEW q \in Replies, RespondConfirm(q) \/ AckRead(q)
    PROVE  Orderly' /\ Turned /\ (Submitting => Submitting')
<1> DEFINE p == req[q]
           r == p.on
           d == doc[r]
<1>1. p.pc \in {"approved", "said"} /\ Working(q) /\ UNCHANGED <<make, doc>>
  BY DEF RespondConfirm, AckRead, Working, Ended
<1>2. /\ r \in Receipts /\ ~ Creating(r) /\ d.state # "none" /\ Steady(p, d)
      /\ \A s \in Replies : s # q /\ Working(s) => req[s].on # r
      /\ p.seen \in Receipt
  BY <1>1, AtWork
<1>3. ASSUME NEW x, req' = [req EXCEPT ![q] = x], Leaves(r, x, d), x.pc # "undoing",
             faults' = faults \/ Fault
      PROVE  Orderly' /\ Turned /\ (Submitting => Submitting')
  <2>1. faults'.calls = 0 => faults.calls = 0
    BY <1>3 DEF Fault, SInv, FaultTypes
  <2> HIDE DEF r
  <2> QED BY <1>1, <1>2, <1>3, <2>1, MoveOrder
<1>4. Leaves(r, Over(q, "failed"), d) /\ Over(q, "failed").pc # "undoing"
  BY OverEnds DEF Leaves
<1>5. CASE RespondConfirm(q)
  <2> DEFINE sent == ReadQty(p.seen)
  <2>1. \/ /\ Acceptable(ReadQty(d), sent, 0)
           /\ req' = [req EXCEPT ![q] = Deciding(r, sent, 0)] /\ faults' = faults
        \/ /\ req' = [req EXCEPT ![q] = Over(q, "failed")]
           /\ faults' = faults \/ Fault
    BY <1>5 DEF RespondConfirm
  <2>2. sent \in Int
    BY <1>2 DEF ReadQty, MaxOf, Receipt
  <2>3. Open(d)
    BY <1>2, <1>5 DEF RespondConfirm, Steady
  <2> DEFINE x == Deciding(r, sent, 0)
  <2> HIDE DEF sent
  <2>4. Acceptable(ReadQty(d), sent, 0) => Leaves(r, x, d) /\ x.pc # "undoing"
    BY <1>2, <2>2, <2>3, DecidingSteady
  <2>5. \/ /\ Acceptable(ReadQty(d), sent, 0)
           /\ req' = [req EXCEPT ![q] = x] /\ faults' = faults
        \/ /\ req' = [req EXCEPT ![q] = Over(q, "failed")]
           /\ faults' = faults \/ Fault
    BY <2>1
  <2> HIDE DEF x
  <2>6. CASE /\ Acceptable(ReadQty(d), sent, 0)
             /\ req' = [req EXCEPT ![q] = x] /\ faults' = faults
    BY <1>3, <2>4, <2>6
  <2>7. CASE /\ req' = [req EXCEPT ![q] = Over(q, "failed")]
             /\ faults' = faults \/ Fault
    BY <1>3, <1>4, <2>7
  <2> QED BY <2>5, <2>6, <2>7
<1>6. CASE AckRead(q)
  <2> DEFINE x == [NoReply EXCEPT !.pc = "acking", !.on = r, !.seen = d, !.fresh = TRUE]
  <2>1. \/ req' = [req EXCEPT ![q] = x] /\ faults' = faults
        \/ req' = [req EXCEPT ![q] = Over(q, "failed")] /\ Fault
    BY <1>6 DEF AckRead, Reading
  <2>2. x.pc = "acking" /\ x.on = r /\ x.seen = d
    BY DEF NoReply
  <2>3. d.remarks.note # NoNote
    BY <1>2, <1>6 DEF AckRead, Steady
  <2> HIDE DEF x
  <2>4. Leaves(r, x, d)
    BY <1>2, <2>2, <2>3 DEF Leaves, Steady
  <2> QED BY <1>3, <1>4, <2>1, <2>2, <2>4
<1> QED BY <1>5, <1>6

LEMMA AckOrder ==
    ASSUME SInv, Orderly, NEW q \in Replies, AckWrite(q)
    PROVE  Orderly' /\ Turned /\ (Submitting => Submitting')
<1> DEFINE p == req[q]
           d == doc[p.on]
           new == [d EXCEPT !.remarks = Acknowledged(d.remarks)]
           allowed == Writable(d)
<1>1. p.pc = "acking" /\ Working(q) /\ make' = make
  BY DEF AckWrite, Working, Ended
<1>2. /\ p.seen = d /\ d \in Receipt /\ Tidy(d) /\ d.state # "none"
      /\ d.remarks.note # NoNote
  BY <1>1, AtWork DEF Steady
<1>3. WriteBy(q, allowed, new, Over(q, "done"), Over(q, "done"))
  BY <1>2 DEF AckWrite
<1>4. Turn(d, new)
  BY <1>2 DEF Turn
<1>5. Tidy(new) /\ new.state = d.state /\ new.qty = d.qty /\ new.sent = d.sent
  <2> HIDE DEF d
  <2> QED BY <1>2, AcknowledgedTidy
<1>6. allowed \in BOOLEAN
  BY DEF Writable
<1>7. /\ Leaves(p.on, Over(q, "done"), d) /\ Leaves(p.on, Over(q, "done"), new)
      /\ Over(q, "done").pc # "undoing"
  BY OverEnds DEF Leaves
<1> HIDE DEF new, allowed
<1>8. Orderly' /\ Turned
  BY <1>1, <1>3, <1>4, <1>5, <1>6, <1>7, WriteOrder
<1>9. Submitting => Submitting'
  BY <1>1, <1>3, <1>5, <1>6, <1>7, WriteSubmits
<1> QED BY <1>8, <1>9

-----------------------------------------------------------------------------
(* Creating, cancelling, crashing *)

\* Receipt r moves, or the request that creates it, and no reply is at work on it.
LEMMA MakeOrder ==
    ASSUME SInv, Orderly, NEW r \in Receipts, NEW m, NEW e,
           make' = [make EXCEPT ![r] = m], doc' = [doc EXCEPT ![r] = e],
           req' = req \/ req' = Outdated(r),
           \A s \in Replies : Working(s) => req[s].on # r,
           Tidy(e), Made(m, e), e = doc[r] \/ Turn(doc[r], e)
    PROVE  /\ Orderly' /\ Turned
           /\ /\ Submitting
              /\ faults'.calls = 0 =>
                    faults.calls = 0 /\ ~ (e.state = "draft" /\ e.qty < e.sent)
              => Submitting'
<1>1. doc \in [Receipts -> Receipt] /\ make \in [Receipts -> Making]
  BY DEF SInv
<1>2. /\ doc'[r] = e /\ \A s \in Receipts : s # r => doc'[s] = doc[s]
      /\ make'[r] = m /\ \A s \in Receipts : s # r => make'[s] = make[s]
  BY <1>1
<1>3. \A s \in Replies : /\ req'[s].pc = req[s].pc /\ req'[s].on = req[s].on
                         /\ req[s].on # r => req'[s] = req[s]
  <2>1. \A s \in Replies : /\ [req[s] EXCEPT !.fresh = FALSE].pc = req[s].pc
                           /\ [req[s] EXCEPT !.fresh = FALSE].on = req[s].on
    BY DEF SInv, Reply
  <2> QED BY <2>1 DEF Outdated
<1>4. \A s \in Replies : req'[s].pc \notin Ended =>
          Working(s) /\ req'[s] = req[s] /\ req[s].on \in Receipts \ {r}
  BY <1>3 DEF Working, SInv, SafeReply
<1>5. \A s \in Receipts : Tidy(doc'[s]) /\ Made(make'[s], doc'[s])
  BY <1>2 DEF Orderly
<1>6. \A s \in Replies : req'[s].pc \notin Ended => Steady(req'[s], doc'[req'[s].on])
  BY <1>2, <1>4 DEF Orderly
<1>7. \A s \in Replies : req'[s].pc \notin Ended =>
                /\ make'[req'[s].on].pc \in Ended
                /\ \A p \in Replies :
                      req'[p].pc \notin Ended /\ req'[p].on = req'[s].on => p = s
  BY <1>2, <1>4 DEF Orderly, Alone, Creating
<1>8. Orderly' /\ Turned
  BY <1>1, <1>5, <1>6, <1>7, Primed DEF Turned
<1>9. ASSUME Submitting, faults'.calls = 0,
             faults.calls = 0 /\ ~ (e.state = "draft" /\ e.qty < e.sent)
      PROVE  Submitting'
  <2>1. \A s \in Replies : req'[s].pc # "undoing"
    BY <1>3, <1>9 DEF Submitting
  <2>2. ASSUME NEW s \in Receipts, doc'[s].state = "draft", doc'[s].qty < doc'[s].sent
        PROVE  \E p \in Replies : req'[p].on = s /\ req'[p].pc \in {"written", "latest"}
    <3>1. s # r /\ doc'[s] = doc[s]
      BY <1>2, <1>9, <2>2
    <3> QED BY <1>3, <1>9, <2>2, <3>1 DEF Submitting
  <2> QED BY <2>1, <2>2, PrimedSubmitting
<1>10. faults'.calls # 0 => Submitting'
  BY PrimedSubmitting
<1> QED BY <1>8, <1>9, <1>10

\* The request that creates r moves, and nothing is written.
LEMMA MakeMoves ==
    ASSUME SInv, Orderly, NEW r \in Receipts, NEW m,
           make' = [make EXCEPT ![r] = m], doc' = doc,
           req' = req \/ req' = Outdated(r),
           \A s \in Replies : Working(s) => req[s].on # r,
           Made(m, doc[r]),
           faults'.calls = 0 => faults.calls = 0,
           ~ (doc[r].state = "draft" /\ doc[r].qty < doc[r].sent)
    PROVE  Orderly' /\ Turned /\ (Submitting => Submitting')
<1>1. doc' = [doc EXCEPT ![r] = doc[r]]
  BY DEF SInv
<1>2. Tidy(doc[r])
  BY DEF Orderly
<1> QED BY <1>1, <1>2, MakeOrder

\* Before a receipt is there and while it is being created no reply is at work on it.
LEMMA NobodyYet ==
    ASSUME SInv, Orderly, NEW r \in Receipts, make[r].pc = "idle" \/ Creating(r)
    PROVE  \A s \in Replies : Working(s) => req[s].on # r
<1>1. make[r].pc = "idle" => doc[r].state = "none"
  BY DEF Orderly, Made, NoReceipt
<1> QED BY <1>1 DEF Orderly, Alone, Steady

LEMMA CreateOrder ==
    ASSUME SInv, Orderly, NEW r \in Receipts,
           CreateRefuse(r) \/ CreateInsert(r) \/ CreateStep(r)
    PROVE  Orderly' /\ Turned /\ (Submitting => Submitting')
<1>1. /\ make \in [Receipts -> Making] /\ doc \in [Receipts -> Receipt]
      /\ make[r] \in Making /\ doc[r] \in Receipt
      /\ Tidy(doc[r]) /\ Made(make[r], doc[r])
  BY DEF SInv, Orderly
<1>2. \A s \in Replies : Working(s) => req[s].on # r
  <2>1. make[r].pc = "idle" \/ Creating(r)
    BY DEF CreateRefuse, CreateInsert, CreateStep, CreateReadBack, CreateTag, Creating, Ended
  <2> QED BY <2>1, NobodyYet
<1>3. Fault \/ UNCHANGED faults => (faults'.calls = 0 => faults.calls = 0)
  BY DEF Fault, SInv, FaultTypes
<1>4. doc[r].state = "draft" => make[r].pc # "idle"
  BY <1>1 DEF Made, NoReceipt
<1>5. CASE CreateRefuse(r)
  <2> DEFINE m == [make[r] EXCEPT !.pc = "refused"]
  <2>1. /\ make' = [make EXCEPT ![r] = m] /\ make[r].pc = "idle"
        /\ UNCHANGED <<doc, req, faults>>
    BY <1>1, <1>5 DEF CreateRefuse
  <2>2. m.pc = "refused" /\ doc[r] = NoReceipt
    BY <1>1, <2>1 DEF Making, Made
  <2>3. Made(m, doc[r]) /\ doc[r].state # "draft"
    BY <2>2 DEF Made, NoReceipt
  <2> HIDE DEF m
  <2> QED BY <1>2, <1>3, <2>1, <2>3, MakeMoves
<1>6. CASE CreateInsert(r)
  <2>1. PICK x \in Sent, o \in BOOLEAN, pc \in {"inserted", "failed"} :
           /\ make[r].pc = "idle"
           /\ make' = [make EXCEPT ![r] = [make[r] EXCEPT !.pc = pc, !.offered = o]]
           /\ \/ doc' = [doc EXCEPT ![r] = NewReceipt(x)]
              \/ doc' = doc /\ pc = "failed"
           /\ Fault \/ UNCHANGED faults
           /\ UNCHANGED req
    BY <1>1, <1>6 DEF CreateInsert
  <2> DEFINE m == [make[r] EXCEPT !.pc = pc, !.offered = o]
  <2>2. m.pc = pc /\ doc[r] = NoReceipt /\ make' = [make EXCEPT ![r] = m]
    BY <1>1, <2>1 DEF Making, Made
  <2>3. /\ Tidy(NewReceipt(x)) /\ NewReceipt(x).qty = x /\ NewReceipt(x).sent = x
        /\ Turn(doc[r], NewReceipt(x))
    BY <2>2, NewReceiptTidy DEF Turn
  <2>4. Made(m, NewReceipt(x)) /\ (pc = "failed" => Made(m, doc[r]))
    BY <2>2 DEF Made
  <2>5. doc[r].state # "draft" /\ ~ (x < x)
    BY <2>2, ReceiptConstants DEF NoReceipt
  <2> HIDE DEF m
  <2>6. CASE doc' = [doc EXCEPT ![r] = NewReceipt(x)]
    <3> DEFINE e == NewReceipt(x)
    <3>1. doc' = [doc EXCEPT ![r] = e] /\ Tidy(e) /\ Made(m, e) /\ Turn(doc[r], e)
      BY <2>3, <2>4, <2>6
    <3>2. faults'.calls = 0 => faults.calls = 0 /\ ~ (e.state = "draft" /\ e.qty < e.sent)
      BY <1>3, <2>1, <2>3, <2>5
    <3> HIDE DEF e
    <3>3. Orderly' /\ Turned
      BY <1>2, <2>1, <2>2, <3>1, MakeOrder
    <3>4. Submitting => Submitting'
      BY <1>2, <2>1, <2>2, <3>1, <3>2, MakeOrder
    <3> QED BY <3>3, <3>4
  <2>7. CASE doc' = doc /\ pc = "failed"
    BY <1>2, <1>3, <2>1, <2>2, <2>4, <2>5, <2>7, MakeMoves
  <2> QED BY <2>1, <2>6, <2>7
<1>7. CASE CreateReadBack(r)
  <2>1. PICK m : /\ make' = [make EXCEPT ![r] = m]
                 /\ m.pc \in {"read", "done", "failed"}
                 /\ m.pc = "read" => m.read = doc[r].remarks
                 /\ Fault \/ UNCHANGED faults
                 /\ UNCHANGED <<doc, req>>
    <3>1. CASE UNCHANGED faults
      <4> DEFINE n == [make[r] EXCEPT !.pc = IF make[r].offered THEN "read" ELSE "done",
                                      !.read = doc[r].remarks]
      <4>1. n.pc \in {"read", "done"} /\ n.read = doc[r].remarks
        BY <1>1 DEF Making
      <4>2. make' = [make EXCEPT ![r] = n] \/ make' = [make EXCEPT ![r] = [make[r] EXCEPT !.pc = "failed"]]
        BY <1>1, <1>7 DEF CreateReadBack
      <4>3. [make[r] EXCEPT !.pc = "failed"].pc = "failed"
        BY <1>1 DEF Making
      <4> HIDE DEF n
      <4> QED BY <1>7, <3>1, <4>1, <4>2, <4>3 DEF CreateReadBack
    <3>2. CASE Fault
      <4>1. make' = [make EXCEPT ![r] = [make[r] EXCEPT !.pc = "failed"]]
        BY <1>1, <1>7, <3>2 DEF CreateReadBack, Fault, SInv, FaultTypes
      <4>2. [make[r] EXCEPT !.pc = "failed"].pc = "failed"
        BY <1>1 DEF Making
      <4> QED BY <1>7, <3>2, <4>1, <4>2 DEF CreateReadBack
    <3> QED BY <1>7, <3>1, <3>2 DEF CreateReadBack
  <2>2. PICK x \in Sent : doc[r] = NewReceipt(x)
    BY <1>1, <1>7 DEF CreateReadBack, Made
  <2>3. /\ doc[r].remarks = NoRemarks /\ doc[r].qty = x /\ doc[r].sent = x /\ ~ (x < x)
    BY <2>2, NewReceiptTidy, ReceiptConstants
  <2>4. Made(m, doc[r])
    BY <2>1, <2>2, <2>3 DEF Made
  <2> QED BY <1>2, <1>3, <2>1, <2>3, <2>4, MakeMoves
<1>8. CASE CreateTag(r)
  <2> DEFINE new == [doc[r] EXCEPT !.remarks = Tagged(doc[r].remarks, "pending")]
  <2>1. PICK x \in Sent : doc[r] = NewReceipt(x) /\ make[r].read = NoRemarks
    BY <1>1, <1>8 DEF CreateTag, Made
  <2>2. /\ doc[r].remarks = NoRemarks /\ doc[r].qty = x /\ doc[r].sent = x /\ ~ (x < x)
        /\ Untouched(doc[r])
    BY <2>1, NewReceiptTidy, ReceiptConstants DEF Open
  <2>3. PICK pc \in {"done", "failed"} :
           /\ make' = [make EXCEPT ![r] = [make[r] EXCEPT !.pc = pc]]
           /\ doc' = doc \/ doc' = [doc EXCEPT ![r] = new]
           /\ req' = req \/ req' = Outdated(r)
           /\ Fault \/ UNCHANGED faults
    BY <1>1, <1>8, <2>1, <2>2 DEF CreateTag
  <2>4. "pending" \in Tags /\ doc[r].remarks.tag = "none"
    BY <2>2 DEF Tags, NoRemarks
  <2>5. /\ Tidy(new) /\ new.qty = x /\ new.sent = x
    <3>1. ASSUME NEW e, e = [doc[r] EXCEPT !.remarks = Tagged(doc[r].remarks, "pending")]
          PROVE  Tidy(e) /\ e.qty = doc[r].qty /\ e.sent = doc[r].sent
      BY <1>1, <2>2, <2>4, <3>1, TaggedTidy
    <3> QED BY <2>2, <3>1
  <2>6. Turn(doc[r], new)
    BY <2>2, <2>4 DEF Turn
  <2> DEFINE m == [make[r] EXCEPT !.pc = pc]
  <2>7. m.pc = pc /\ make' = [make EXCEPT ![r] = m]
    BY <1>1, <2>3 DEF Making
  <2> HIDE DEF m, new
  <2>8. Made(m, new) /\ Made(m, doc[r])
    BY <2>7 DEF Made
  <2>9. CASE doc' = doc
    BY <1>2, <1>3, <2>2, <2>3, <2>7, <2>8, <2>9, MakeMoves
  <2>10. CASE doc' = [doc EXCEPT ![r] = new]
    <3>1. faults'.calls = 0 => faults.calls = 0 /\ ~ (new.state = "draft" /\ new.qty < new.sent)
      BY <1>3, <2>2, <2>3, <2>5
    <3>2. Orderly' /\ Turned
      BY <1>2, <2>3, <2>5, <2>6, <2>7, <2>8, <2>10, MakeOrder
    <3>3. Submitting => Submitting'
      BY <1>2, <2>3, <2>5, <2>6, <2>7, <2>8, <2>10, <3>1, MakeOrder
    <3> QED BY <3>2, <3>3
  <2> QED BY <2>3, <2>9, <2>10
<1> QED BY <1>5, <1>6, <1>7, <1>8 DEF CreateStep

LEMMA CancelOrder ==
    ASSUME Serial, SInv, Orderly, NEW r \in Receipts, OfficeCancel(r)
    PROVE  Orderly' /\ Turned /\ (Submitting => Submitting')
<1> DEFINE d == doc[r]
           e == [d EXCEPT !.state = "cancelled"]
<1>1. /\ d.state = "submitted" /\ req' = Outdated(r) /\ UNCHANGED <<make, faults>>
      /\ doc' = [doc EXCEPT ![r] = e]
      /\ ~ Creating(r) /\ \A s \in Replies : Working(s) => req[s].on # r
  BY DEF OfficeCancel, Free, Serial
<1>2. d \in Receipt /\ Tidy(d) /\ Made(make[r], d) /\ make = [make EXCEPT ![r] = make[r]]
  BY DEF SInv, Orderly
<1>3. Tidy(e) /\ e.state = "cancelled"
  BY <1>1, <1>2, CancelledTidy
<1>4. Turn(d, e)
  BY <1>1 DEF Turn
<1>5. make[r].pc \notin {"idle", "inserted", "read"}
  <2>1. make[r].pc # "idle"
    BY <1>1, <1>2 DEF Made, NoReceipt
  <2> QED BY <1>1, <2>1 DEF Creating, Ended
<1> HIDE DEF e
<1>6. Made(make[r], e)
  BY <1>5 DEF Made
<1> QED BY <1>1, <1>2, <1>3, <1>4, <1>6, MakeOrder

\* A crash leaves the documents as they are and ends every request.
LEMMA CrashOrder ==
    ASSUME SInv, Orderly, Crash
    PROVE  Orderly' /\ Turned /\ MaxCrashes # 0
<1>1. /\ doc' = doc
      /\ make' = [r \in Receipts |->
                    IF Creating(r) THEN [make[r] EXCEPT !.pc = "failed"] ELSE make[r]]
      /\ \A q \in Replies : req'[q] = IF Working(q) THEN Over(q, "failed") ELSE req[q]
      /\ faults.crashes < MaxCrashes
  BY DEF Crash
<1>2. \A q \in Replies : req'[q].pc \in Ended
  BY <1>1, OverEnds DEF Working
<1>3. \A r \in Receipts : make'[r].pc \notin {"inserted", "read"} /\
                          (make'[r].pc = "idle" => make[r].pc = "idle")
  BY <1>1 DEF SInv, Making, Creating, Ended
<1>4. \A r \in Receipts : Tidy(doc'[r]) /\ Made(make'[r], doc'[r])
  BY <1>1, <1>3 DEF Orderly, Made
<1>5. MaxCrashes # 0
  BY <1>1 DEF SInv, FaultTypes
<1> QED BY <1>1, <1>2, <1>4, <1>5, Primed DEF Turned

LEMMA OrderInit == Init => Orderly /\ Submitting
<1> SUFFICES ASSUME Init PROVE Orderly /\ Submitting
  OBVIOUS
<1>1. \A q \in Replies : req[q].pc = "idle"
  BY DEF Init, NoReply
<1>2. \A r \in Receipts : doc[r] = NoReceipt /\ make[r].pc = "idle"
  BY DEF Init
<1>3. NoReceipt.state = "none"
  BY DEF NoReceipt
<1> QED BY <1>1, <1>2, <1>3, NoReceiptTidy
        DEF Orderly, Submitting, Alone, Working, Ended, Made

LEMMA OrderNext ==
    ASSUME Serial, SInv, Orderly, [Next]_vars
    PROVE  Orderly' /\ Turned /\ (Submitting /\ MaxCrashes = 0 => Submitting')
<1>1. CASE \E r \in Receipts :
               CreateRefuse(r) \/ CreateInsert(r) \/ CreateStep(r) \/ OfficeCancel(r)
  BY <1>1, CreateOrder, CancelOrder
<1>2. CASE \E q \in Replies, r \in Receipts :
               ConfirmRead(q, r) \/ RespondRead(q, r) \/ AckSay(q, r)
  BY <1>2, StartOrder
<1>3. CASE \E q \in Replies : ConfirmRefuse(q) \/ ReplyStep(q)
  BY <1>3, RefuseOrder, ReturnOrder, ChangeOrder, LatestOrder, SubmitOrder, NoRetry,
     UndoOrder, TagOrder, ReadAgainOrder, AckOrder
     DEF ReplyStep, ConfirmStep, RespondStep
<1>4. CASE Crash
  BY <1>4, CrashOrder
<1>5. CASE UNCHANGED vars
  <2>1. Orderly' /\ (Submitting => Submitting')
    BY <1>5, Primed, PrimedSubmitting DEF vars, Orderly, Submitting, Alone, Working, Creating
  <2> QED BY <1>5, <2>1 DEF vars, Turned
<1> QED BY <1>1, <1>2, <1>3, <1>4, <1>5 DEF Next

LEMMA OrderAlways == ASSUME Serial PROVE Spec => []Orderly
<1>1. SInv /\ Orderly /\ [Next]_vars => Orderly'
  BY OrderNext
<1> QED BY <1>1, OrderInit, SafeAlways, PTL DEF Spec

-----------------------------------------------------------------------------
\* Between requests that do not overlap, a receipt the supplier has rejected is
\* never booked, whatever calls fail.
THEOREM RejectedNeverBooked == ASSUME Serial PROVE Spec => []RejectedStaysOut
<1>1. Orderly => RejectedStaysOut
  BY DEF Orderly, Tidy, Untouched, RejectedStaysOut
<1> QED BY <1>1, OrderAlways, PTL

\* The decision note beside a booked receipt is about what was booked, whatever
\* calls failed between the write of the note and the submit.
THEOREM NotesTellBooked == ASSUME Serial PROVE Spec => []NoteTellsBooked
<1>1. SInv /\ Orderly => NoteTellsBooked
  <2> SUFFICES ASSUME SInv, Orderly, NEW r \in Receipts,
                      doc[r].state \in {"submitted", "cancelled"}
               PROVE  IF doc[r].qty < doc[r].sent
                        THEN doc[r].remarks.note =
                                DecisionNote(doc[r].sent, doc[r].qty, doc[r].rejected)
                        ELSE doc[r].remarks.note = NoNote
    BY DEF NoteTellsBooked
  <2>1. Tidy(doc[r]) /\ doc[r].qty \in 0 .. doc[r].sent /\ doc[r].sent \in Nat
    BY DEF Orderly, SInv, SafeDoc, Receipt
  <2>2. ~ (doc[r].qty < doc[r].sent) => doc[r].qty = doc[r].sent
    BY <2>1
  <2> QED BY <2>1, <2>2 DEF Tidy
<1> QED BY <1>1, OrderAlways, SafeAlways, PTL

\* What Werka, or the supplier, is shown of a draft nobody is at work on.
LEMMA DraftShown ==
    ASSUME NEW d \in Receipt, d.state = "draft", Tidy(d), d.qty = d.sent
    PROVE  \/ Listed(d) \/ HttpEvent(d) = "unannounced_pending"
           \/ HttpStatus(d) = "cancelled"
<1>1. d.sent \in Nat /\ d.sent > 0
  BY ReceiptConstants DEF Tidy, Receipt
<1>2. CASE d.remarks.note # NoNote
  <2>1. d.remarks.note = [acc |-> 0, ret |-> d.sent]
    BY <1>2 DEF Tidy, WholeNote
  <2>2. ReturnedWhole(d)
    BY <1>1, <2>1 DEF ReturnedWhole, ReadQty, MaxOf
  <2> QED BY <2>2 DEF HttpStatus
<1>3. CASE d.remarks.note = NoNote
  <2>1. ~ ReturnedWhole(d) /\ ~ d.remarks.acked
    BY <1>1, <1>3 DEF Tidy, ReturnedWhole, NoNote
  <2>2. CASE d.remarks.tag = "pending"
    BY <2>2 DEF HttpEvent
  <2>3. CASE d.remarks.tag = "rejected"
    BY <2>3 DEF HttpStatus
  <2>4. CASE d.remarks.tag \notin {"pending", "rejected"}
    <3>1. HttpStatus(d) = "draft"
      BY <2>1, <2>4 DEF HttpStatus
    <3>2. HttpEvent(d) = "none"
      BY <2>4, <3>1 DEF HttpEvent
    <3>3. ~ Stale(d)
      BY <1>3, <2>1, <2>4 DEF Stale, HasNote
    <3> QED BY <3>1, <3>2, <3>3 DEF Listed, Matches, HttpRecord
  <2> QED BY <2>2, <2>3, <2>4
<1> QED BY <1>2, <1>3

\* While no call has failed and the server has not crashed, no receipt gets lost
\* between the lists: one nobody has decided on is shown to somebody.
THEOREM NobodyForgotten ==
    ASSUME Serial, MaxCrashes = 0 PROVE Spec => []NoneForgotten
<1>1. SInv /\ Orderly /\ Submitting /\ [Next]_vars => Submitting'
  BY OrderNext
<1>2. SInv /\ Orderly /\ Submitting => NoneForgotten
  <2> SUFFICES ASSUME SInv, Orderly, Submitting, NEW r \in Receipts,
                      doc[r].state = "draft", faults.calls = 0,
                      \A q \in Replies : req[q].on = r => ~ Working(q)
               PROVE  \/ Listed(doc[r]) \/ HttpEvent(doc[r]) = "unannounced_pending"
                      \/ HttpStatus(doc[r]) = "cancelled"
    BY DEF NoneForgotten
  <2>1. /\ doc[r] \in Receipt /\ Tidy(doc[r])
        /\ doc[r].qty \in 0 .. doc[r].sent /\ doc[r].sent \in Nat
    BY DEF Orderly, SInv, SafeDoc, Receipt
  <2>2. ~ (doc[r].qty < doc[r].sent)
    BY DEF Submitting, Working, Ended
  <2>3. doc[r].qty = doc[r].sent
    BY <2>1, <2>2
  <2> QED BY <2>1, <2>3, DraftShown
<1> QED BY <1>1, <1>2, OrderInit, OrderAlways, SafeAlways, PTL DEF Spec

-----------------------------------------------------------------------------
(* The ledger *)

Entry(d) ==
    [status |-> EntryStatus(d),
     sent   |-> d.sent,
     got    |-> IF d.state \in {"submitted", "cancelled"} THEN d.qty ELSE 0]

\* The steps of the ledger, as what they make of one entry a.
Entered(a, b) ==
    \/ b = a
    \/ a = Ledger!Absent /\ \E x \in Sent : b = [status |-> "sent", sent |-> x, got |-> 0]
    \/ a.status = "sent" /\ b = [a EXCEPT !.status = "offered"]
    \/ a.status = "offered" /\ b = [a EXCEPT !.status = "declined"]
    \/ /\ a.status \in {"sent", "offered"}
       /\ \E x \in 0 .. a.sent :
             b = [status |-> "settled", sent |-> a.sent, got |-> x]

\* What was noted about a draft that is not booked yet is not that it was returned,
\* unless nothing is left to be booked.
LEMMA NothingLeft ==
    ASSUME NEW d \in Receipt, Tidy(d), d.qty \in 0 .. d.sent, d.state = "draft",
           d.qty = d.sent => d.remarks.note = NoNote, ReturnedWhole(d)
    PROVE  d.qty = 0
<1>1. d.remarks.note # NoNote
  BY DEF ReturnedWhole, NoNote
<1>2. d.qty < d.sent /\ d.sent \in Nat
  BY <1>1 DEF Receipt
<1>3. d.remarks.note = DecisionNote(d.sent, d.qty, d.rejected)
  BY <1>2 DEF Tidy
<1>4. DecisionNote(d.sent, d.qty, d.rejected).acc = d.qty
  BY <1>2 DEF DecisionNote
<1> QED BY <1>3, <1>4 DEF ReturnedWhole

LEMMA EntryForms ==
    ASSUME NEW d, NEW e, e.sent = d.sent, NEW st, NEW x,
           Entry(e).status = st, Entry(e).got = x
    PROVE  /\ Entry(e) = [status |-> st, sent |-> Entry(d).sent, got |-> x]
           /\ Entry(d).got = x => Entry(e) = [Entry(d) EXCEPT !.status = st]
           /\ Entry(d).got = x /\ Entry(d).status = st => Entry(e) = Entry(d)
<1>1. PICK s1, g1 : Entry(d) = [status |-> s1, sent |-> d.sent, got |-> g1]
  BY DEF Entry
<1>2. PICK s2, g2 : Entry(e) = [status |-> s2, sent |-> d.sent, got |-> g2]
  BY DEF Entry
<1> DEFINE a == [status |-> s1, sent |-> d.sent, got |-> g1]
           b == [status |-> s2, sent |-> d.sent, got |-> g2]
<1>3. s2 = st /\ g2 = x /\ Entry(d).got = g1 /\ Entry(d).status = s1
  BY <1>1, <1>2
<1>4. /\ b = [status |-> s2, sent |-> a.sent, got |-> g2]
      /\ g1 = g2 => b = [a EXCEPT !.status = s2]
      /\ g1 = g2 /\ s1 = s2 => b = a
  OBVIOUS
<1> HIDE DEF a, b
<1>5. Entry(d) = a /\ Entry(e) = b
  BY <1>1, <1>2 DEF a, b
<1> QED BY <1>3, <1>4, <1>5

LEMMA TurnEntered ==
    ASSUME Stamped, NEW d \in Receipt, Tidy(d), d.qty \in 0 .. d.sent,
           NEW e, Turn(d, e)
    PROVE  Entered(Entry(d), Entry(e))
<1> DEFINE a == Entry(d)
           b == Entry(e)
<1>1. /\ a.status = EntryStatus(d) /\ a.sent = d.sent
      /\ a.got = IF d.state \in {"submitted", "cancelled"} THEN d.qty ELSE 0
      /\ b.status = EntryStatus(e) /\ b.sent = e.sent
      /\ b.got = IF e.state \in {"submitted", "cancelled"} THEN e.qty ELSE 0
      /\ d.sent \in Nat
  BY DEF Entry, Receipt
<1>2. ASSUME e.sent = d.sent
      PROVE  /\ b.status = a.status /\ b.got = a.got => b = a
             /\ b.got = a.got => b = [a EXCEPT !.status = b.status]
             /\ b = [status |-> b.status, sent |-> a.sent, got |-> b.got]
  BY <1>2, EntryForms
<1>3. CASE d = NoReceipt /\ \E x \in Sent : e = NewReceipt(x)
  <2>1. PICK x \in Sent : e = NewReceipt(x)
    BY <1>3
  <2>2. a = Ledger!Absent
    <3>1. d.state = "none" /\ d.sent = 0
      BY <1>3 DEF NoReceipt
    <3>2. EntryStatus(d) = "absent"
      BY <3>1 DEF EntryStatus, DraftStatus
    <3> QED BY <3>1, <3>2 DEF Entry, Ledger!Absent
  <2>3. e.state = "draft" /\ e.sent = x /\ e.remarks = NoRemarks
    BY <2>1, NewReceiptTidy DEF Open, Untouched
  <2>4. e.remarks.tag = "none" /\ ~ ReturnedWhole(e)
    BY <2>3 DEF NoRemarks, NoNote, ReturnedWhole
  <2>5. EntryStatus(e) = "sent"
    BY <2>3, <2>4 DEF EntryStatus, DraftStatus
  <2>6. b = [status |-> "sent", sent |-> x, got |-> 0]
    BY <2>3, <2>5 DEF Entry
  <2> QED BY <2>2, <2>6 DEF Entered
<1>4. ASSUME NEW t \in Tags, e = [d EXCEPT !.remarks = Tagged(d.remarks, t)],
             Untouched(d),
             \/ d.remarks.tag = "none" /\ t = "pending"
             \/ d.remarks.tag = "pending" /\ t \in {"approved", "rejected"}
      PROVE  Entered(a, b)
  <2>1. /\ Untouched(e) /\ e.remarks.tag = t /\ e.sent = d.sent
        /\ e.state = "draft" /\ d.state = "draft"
    <3>1. e = [d EXCEPT !.remarks = Tagged(d.remarks, t)] /\ Untouched(d)
      BY <1>4
    <3>2. /\ Untouched(e) /\ e.remarks.tag = t /\ e.sent = d.sent
      BY Tidy(d), d \in Receipt, t \in Tags, <3>1, TaggedTidy, Zenon
    <3> QED BY <3>1, <3>2 DEF Untouched
  <2>2. ~ ReturnedWhole(d) /\ ~ ReturnedWhole(e)
    BY <1>4, <2>1 DEF Untouched, ReturnedWhole, NoNote
  <2>3. a.got = 0 /\ b.got = 0
    BY <1>1, <2>1
  <2>4. CASE d.remarks.tag = "none" /\ t = "pending"
    <3>1. a.status = "sent" /\ b.status = "offered"
      BY <1>1, <2>1, <2>2, <2>4 DEF EntryStatus, DraftStatus
    <3> QED BY <1>2, <2>1, <2>3, <3>1 DEF Entered
  <2>5. CASE d.remarks.tag = "pending" /\ t = "approved"
    <3>1. a.status = "offered" /\ b.status = "offered"
      BY <1>1, <2>1, <2>2, <2>5 DEF EntryStatus, DraftStatus
    <3> QED BY <1>2, <2>1, <2>3, <3>1 DEF Entered
  <2>6. CASE d.remarks.tag = "pending" /\ t = "rejected"
    <3>1. a.status = "offered" /\ b.status = "declined"
      BY <1>1, <2>1, <2>2, <2>6 DEF EntryStatus, DraftStatus
    <3> QED BY <1>2, <2>1, <2>3, <3>1 DEF Entered
  <2> QED BY <1>4, <2>4, <2>5, <2>6
<1>5. CASE d.state # "none" /\ e = [d EXCEPT !.remarks = Acknowledged(d.remarks)]
  <2>1. /\ e.state = d.state /\ e.sent = d.sent /\ e.qty = d.qty
        /\ e.remarks = Acknowledged(d.remarks)
    BY <1>5 DEF Receipt
  <2>2. /\ Acknowledged(d.remarks).note = d.remarks.note
        /\ Acknowledged(d.remarks).tag = d.remarks.tag
    BY DEF Acknowledged, Receipt, Remarks
  <2>3. ReturnedWhole(e) <=> ReturnedWhole(d)
    BY <2>1, <2>2 DEF ReturnedWhole, ReadQty
  <2>4. EntryStatus(e) = EntryStatus(d)
    BY <2>1, <2>2, <2>3 DEF EntryStatus, DraftStatus
  <2>5. b = a
    BY <1>1, <1>2, <2>1, <2>4
  <2> QED BY <2>5 DEF Entered
<1>6. CASE /\ Open(d) /\ e.state = "draft" /\ e.sent = d.sent
           /\ e.remarks.tag = d.remarks.tag
  <2>1. /\ d.state = "draft" /\ d.remarks.tag \in {"none", "approved"}
        /\ ~ ReturnedWhole(d)
    BY <1>6 DEF Open, Untouched, ReturnedWhole, NoNote, Receipt, Remarks, Tags
  <2>2. a.status \in {"sent", "offered"} /\ a.got = 0 /\ b.got = 0
    BY <1>1, <1>6, <2>1 DEF EntryStatus, DraftStatus
  <2>3. CASE ReturnedWhole(e)
    <3>1. b.status = "settled" /\ 0 \in 0 .. a.sent
      <4>1. EntryStatus(e) = "settled"
        BY <1>6, <2>1, <2>3 DEF EntryStatus, DraftStatus
      <4> QED BY <1>1, <4>1
    <3>2. b = [status |-> "settled", sent |-> a.sent, got |-> 0]
      BY <1>2, <1>6, <2>2, <3>1
    <3> QED BY <2>2, <3>1, <3>2 DEF Entered
  <2>4. CASE ~ ReturnedWhole(e)
    <3>1. b.status = a.status
      BY <1>1, <1>6, <2>1, <2>4 DEF EntryStatus, DraftStatus
    <3> QED BY <1>2, <1>6, <2>2, <3>1 DEF Entered
  <2> QED BY <2>3, <2>4
<1>7. CASE /\ d.state = "draft" /\ e = Booked(d)
           /\ d.remarks.tag \notin {"pending", "rejected"}
           /\ d.qty = d.sent => d.remarks.note = NoNote
  <2>1. e.state = "submitted" /\ e.sent = d.sent /\ e.qty = d.qty
    BY <1>7 DEF Booked, Receipt
  <2>2. b.status = "settled" /\ b.got = d.qty /\ a.got = 0 /\ d.qty \in 0 .. a.sent
    <3>1. EntryStatus(e) = "settled"
      BY <2>1 DEF EntryStatus, DraftStatus
    <3> QED BY <1>1, <1>7, <2>1, <3>1
  <2>3. CASE ReturnedWhole(d)
    <3>1. a.status = "settled" /\ d.qty = 0
      <4>1. EntryStatus(d) = "settled"
        BY <1>7, <2>3 DEF EntryStatus, DraftStatus
      <4> QED BY <1>1, <1>7, <2>3, <4>1, NothingLeft
    <3> QED BY <1>2, <2>1, <2>2, <3>1 DEF Entered
  <2>4. CASE ~ ReturnedWhole(d)
    <3>1. a.status \in {"sent", "offered"}
      BY <1>1, <1>7, <2>4 DEF EntryStatus, DraftStatus
    <3>2. b = [status |-> "settled", sent |-> a.sent, got |-> d.qty]
      BY <1>2, <2>1, <2>2
    <3> QED BY <2>2, <3>1, <3>2 DEF Entered
  <2> QED BY <2>3, <2>4
<1>8. CASE d.state = "submitted" /\ e = [d EXCEPT !.state = "cancelled"]
  <2>1. e.state = "cancelled" /\ e.sent = d.sent /\ e.qty = d.qty
    BY <1>8 DEF Receipt
  <2>2. b.status = a.status /\ b.got = a.got
    <3>1. EntryStatus(d) = "settled" /\ EntryStatus(e) = "settled"
      BY <1>8, <2>1 DEF EntryStatus, DraftStatus
    <3> QED BY <1>1, <1>8, <2>1, <3>1
  <2> QED BY <1>2, <2>1, <2>2 DEF Entered
<1> HIDE DEF a, b
<1> QED BY <1>3, <1>4, <1>5, <1>6, <1>7, <1>8 DEF Turn, a, b

\* What the ledger has for the receipts as they are in docs.
Entries(docs) == [r \in Receipts |-> Entry(docs[r])]

LEMMA LedgerNext ==
    ASSUME Stamped, SInv, Orderly, Turned
    PROVE  [Ledger!Next]_(Entries(doc))
<1> DEFINE old == Entries(doc)
           now == Entries(doc')
<1>1. CASE doc' = doc
  BY <1>1 DEF Entries, Entry, EntryStatus, DraftStatus, ReturnedWhole, ReadQty
<1>2. CASE \E r \in Receipts : \E e : doc' = [doc EXCEPT ![r] = e] /\ Turn(doc[r], e)
  <2>1. PICK r \in Receipts : \E e : doc' = [doc EXCEPT ![r] = e] /\ Turn(doc[r], e)
    BY <1>2
  <2> PICK e : doc' = [doc EXCEPT ![r] = e] /\ Turn(doc[r], e)
    BY <2>1
  <2>2. doc[r] \in Receipt /\ Tidy(doc[r]) /\ doc[r].qty \in 0 .. doc[r].sent
    BY DEF SInv, SafeDoc, Orderly
  <2>3. Entered(Entry(doc[r]), Entry(e))
    BY <2>2, TurnEntered
  <2>4. now = [old EXCEPT ![r] = Entry(e)] /\ old[r] = Entry(doc[r])
    BY DEF SInv, Entries
  <2>5. Entries(doc)' = now
    BY DEF Entries, Entry, EntryStatus, DraftStatus, ReturnedWhole, ReadQty
  <2>6. Ledger!Next \/ now = old
    <3>1. CASE Entry(e) = Entry(doc[r])
      BY <2>4, <3>1 DEF Entries
    <3>2. CASE /\ Entry(doc[r]) = Ledger!Absent
               /\ \E x \in Sent : Entry(e) = [status |-> "sent", sent |-> x, got |-> 0]
      <4>1. PICK x \in Sent : Entry(e) = [status |-> "sent", sent |-> x, got |-> 0]
        BY <3>2
      <4>2. Ledger!Announce(r, x)
        BY <2>4, <2>5, <3>2, <4>1 DEF Ledger!Announce, Entries, Entry
      <4> QED BY <4>2 DEF Ledger!Next
    <3>3. CASE /\ Entry(doc[r]).status = "sent"
               /\ Entry(e) = [Entry(doc[r]) EXCEPT !.status = "offered"]
      <4>1. Ledger!Offer(r)
        BY <2>4, <2>5, <3>3 DEF Ledger!Offer, Entries, Entry
      <4> QED BY <4>1 DEF Ledger!Next
    <3>4. CASE /\ Entry(doc[r]).status = "offered"
               /\ Entry(e) = [Entry(doc[r]) EXCEPT !.status = "declined"]
      <4>1. Ledger!Decline(r)
        BY <2>4, <2>5, <3>4 DEF Ledger!Decline, Entries, Entry
      <4> QED BY <4>1 DEF Ledger!Next
    <3>5. ASSUME NEW x \in 0 .. Entry(doc[r]).sent,
                 Entry(doc[r]).status \in {"sent", "offered"},
                 Entry(e) = [status |-> "settled", sent |-> Entry(doc[r]).sent, got |-> x]
          PROVE  Ledger!Next
      <4>1. Ledger!Settle(r, x)
        BY <2>4, <2>5, <3>5 DEF Ledger!Settle, Entries, Entry
      <4> QED BY <2>4, <4>1 DEF Ledger!Next, Entries, Entry
    <3> QED BY <2>3, <3>1, <3>2, <3>3, <3>4, <3>5 DEF Entered
  <2> QED BY <2>5, <2>6
<1> QED BY <1>1, <1>2 DEF Turned

\* Where ERPNext checks time stamps, requests that do not overlap treat a receipt as
\* the supplier and the warehouse expect it, over however many calls and failures:
\* it is announced, perhaps offered, and settled or declined once and for good.
THEOREM ReceiptsImplementLedger ==
    ASSUME Serial, Stamped PROVE Spec => LedgerSpec
<1>1. Init => Ledger!Init
  <2>1. Entry(NoReceipt) = Ledger!Absent
    <3>1. NoReceipt.state = "none" /\ NoReceipt.sent = 0
      BY DEF NoReceipt
    <3> QED BY <3>1 DEF Entry, EntryStatus, Ledger!Absent
  <2> QED BY <2>1 DEF Init, Ledger!Init, Entry
<1>2. SInv /\ Orderly /\ [Next]_vars => [Ledger!Next]_(Entries(doc))
  BY OrderNext, LedgerNext
<1>3. SInv /\ Orderly /\ [Next]_vars =>
        [Ledger!Next]_([r \in Receipts |->
            [status |-> EntryStatus(doc[r]),
             sent   |-> doc[r].sent,
             got    |-> IF doc[r].state \in {"submitted", "cancelled"}
                          THEN doc[r].qty ELSE 0]])
  BY <1>2 DEF Entries, Entry
<1> QED BY <1>1, <1>3, OrderAlways, SafeAlways, PTL DEF Spec, LedgerSpec, Ledger!Spec
=============================================================================
