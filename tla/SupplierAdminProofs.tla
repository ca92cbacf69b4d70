------------------------ MODULE SupplierAdminProofs ------------------------
(***************************************************************************)
(* For any number of parties, items, requests and codes, whatever requests *)
(* and goroutines overlap, whatever calls and writes fail and however      *)
(* often the server is restarted: a removed party is blocked, and no code  *)
(* is in ERPNext before it has stood for a window of time.                 *)
(*                                                                         *)
(* The second part is about one admin who waits for each answer, and       *)
(* goroutines that find no request at work.  Calls may fail all the same,  *)
(* unless a theorem says that they do not, and the server may restart      *)
(* unless writes fail as well.  All of it rests on one fact, Fresh: the    *)
(* record a request or a goroutine writes back, however many calls after   *)
(* it was read, is still the one in the store.  So every step does to the  *)
(* records one of four things (RecordSteps), and each promise is checked   *)
(* against these.                                                          *)
(***************************************************************************)
EXTENDS SupplierAdmin, FiniteSetTheorems, SequenceTheorems, TLAPS

\* A record that may be written: the counter's last regeneration locks the code
\* until the window is over, so that the counter never exceeds its limit.
Sound ==
    {rec \in Record : /\ rec.removed => rec.blocked
                      /\ rec.count = MaxRegens => rec.until = rec.start + Window}

\* Code c was drawn for s.
DrawnFor(s, c, iss) == c \in DOMAIN iss /\ iss[c].to = s

\* What may stand in the details of s in ERPNext at time t.
Stood(s, c, iss, t) ==
    c # NoCode => /\ DrawnFor(s, c, iss)
                  /\ s \in Suppliers => t >= iss[c].at + Window

ItemOps == {"assign", "unassign", "items"}

\* An order that is saved with the record it read.  An order to block or unblock is
\* for a party that was not removed when it was read.
Saveable(o, rec) ==
    /\ o.op \in {"block", "unblock", "remove", "restore"} \cup ItemOps
    /\ o.op \in {"block", "unblock"} => ~ rec.removed

\* A request carries a sound record and a code line that may be written back.
ReqOK(q, iss, t) ==
    /\ q \in Request
    /\ q.rec \in Sound
    /\ Stood(q.order.on, q.line, iss, t)
    /\ q.order.on \in Customers => q.order.op \in CustomerOps
    /\ q.pc \in {"list", "items"} => q.order.op \in ItemOps
    /\ q.pc = "save" => Saveable(q.order, q.rec)
    /\ q.pc = "push" => q.order.on \in Customers /\ DrawnFor(q.order.on, q.rec.code, iss)

\* A goroutine has a code drawn for its supplier, and does not begin its calls
\* before the code has stood.
RoutineOK(g, iss, t) ==
    /\ g \in Routine
    /\ g.rec \in Sound
    /\ DrawnFor(g.on, g.code, iss)
    /\ g.due >= iss[g.code].at + Window
    /\ g.pc # "sleep" => t >= g.due

IssuedOK(iss) == iss \in Seq([to : Parties, at : Nat]) /\ Len(iss) <= MaxCodes

Lines == /\ line \in [Parties -> Code]
         /\ \A s \in Parties : Stood(s, line[s], issued, clock)
Records == state \in [Parties -> Sound] /\ file \in [Parties -> Sound]
Reqs == /\ req \in [Requests -> Request \cup {Idle}]
        /\ \A r \in Requests : req[r] # Idle => ReqOK(req[r], issued, clock)
Routines == \A g \in routines : RoutineOK(g, issued, clock)
Others == /\ rows \in [Items -> SUBSET Parties]
          /\ clock \in 0..MaxClock /\ restarts \in 0..MaxRestarts
          /\ IssuedOK(issued)
          /\ persisted \subseteq Code /\ barred \subseteq Parties

IInv == Lines /\ Records /\ Reqs /\ Routines /\ Others

-----------------------------------------------------------------------------
(* Records *)

LEMMA NoCodeIsCode == NoCode \in Code
BY AdminAssumption DEF NoCode, Code

LEMMA NewPartySound == NewParty \in Sound
BY AdminAssumption DEF NewParty, Sound, Record, Code, NoCode

LEMMA SoundIsRecord == ASSUME NEW rec \in Sound PROVE rec \in Record
BY DEF Sound

\* What an order does to a record it read.
LEMMA OrderedSound ==
    ASSUME NEW o \in Order, NEW rec \in Sound, Saveable(o, rec)
    PROVE  Ordered(o, rec) \in Sound
<1>1. CASE o.op \in {"assign", "unassign", "items"}
  <2>1. Listed(o, rec.items) \in SUBSET Items
    BY DEF Listed, Order, Sound, Record
  <2> QED BY <1>1, <2>1 DEF Ordered, Sound, Record
<1>2. CASE o.op \notin {"assign", "unassign", "items"}
  <2> DEFINE blocks == o.op \in {"block", "remove"}
             removes == IF o.op \in {"remove", "restore"} THEN o.op = "remove" ELSE rec.removed
             new == [rec EXCEPT !.blocked = blocks, !.removed = removes]
  <2>1. Ordered(o, rec) = new
    BY <1>2 DEF Ordered, Status, Sound, Record
  <2>2. blocks \in BOOLEAN /\ removes \in BOOLEAN
    <3>1. rec.removed \in BOOLEAN
      BY DEF Sound, Record
    <3>2. CASE o.op \in {"remove", "restore"}
      BY <3>2
    <3>3. CASE o.op \notin {"remove", "restore"}
      BY <3>1, <3>3
    <3> QED BY <3>2, <3>3
  <2>3. removes => blocks
    <3>1. CASE o.op = "remove"
      BY <3>1
    <3>2. CASE o.op # "remove"
      BY <1>2, <3>2 DEF Saveable, ItemOps
    <3> QED BY <3>1, <3>2
  <2> HIDE DEF blocks, removes
  <2>4. new \in Record
    BY <2>2 DEF Sound, Record
  <2>5. /\ new.removed = removes /\ new.blocked = blocks
        /\ new.count = rec.count /\ new.until = rec.until /\ new.start = rec.start
    BY DEF Sound, Record
  <2> HIDE DEF new
  <2> QED BY <2>1, <2>3, <2>4, <2>5 DEF Sound
<1> QED BY <1>1, <1>2

\* A code is drawn only while the counter allows it.
LEMMA CountedSound ==
    ASSUME NEW rec \in Sound, clock \in Nat, ~ Locked(rec)
    PROVE  Counted(rec) \in Sound
<1> DEFINE r == IF rec.count = 0 \/ clock - rec.start >= Window
                THEN [rec EXCEPT !.start = clock, !.count = 1, !.until = 0]
                ELSE [rec EXCEPT !.count = @ + 1]
<1>1. rec \in Record /\ (rec.count < MaxRegens \/ clock - rec.start >= Window)
  BY AdminAssumption DEF Sound, Record, Locked
<1>2. r \in Record /\ (r.removed => r.blocked)
  <2>1. CASE rec.count = 0 \/ clock - rec.start >= Window
    <3>1. 1 \in 0..MaxRegens
      BY AdminAssumption
    <3> QED BY <2>1, <3>1 DEF Sound, Record
  <2>2. CASE ~ (rec.count = 0 \/ clock - rec.start >= Window)
    <3>1. rec.count + 1 \in 0..MaxRegens
      BY <1>1, <2>2, AdminAssumption DEF Record
    <3> QED BY <2>2, <3>1 DEF Sound, Record
  <2> QED BY <2>1, <2>2
<1>3. Counted(rec) = IF r.count >= MaxRegens THEN [r EXCEPT !.until = r.start + Window] ELSE r
  BY DEF Counted
<1> HIDE DEF r
<1>4. CASE r.count >= MaxRegens
  BY <1>2, <1>3, <1>4, AdminAssumption DEF Sound, Record
<1>5. CASE ~ (r.count >= MaxRegens)
  BY <1>2, <1>3, <1>5, AdminAssumption DEF Sound, Record
<1> QED BY <1>4, <1>5

LEMMA CodedSound ==
    ASSUME NEW rec \in Sound, NEW s \in Parties, NEW c \in Code, clock \in Nat,
           ~ Locked(rec)
    PROVE  /\ Coded(s, c, rec) \in Sound
           /\ Coded(s, c, rec).code = c
           /\ s \in Suppliers => Coded(s, c, rec).due = clock + Window
<1>1. Counted(rec) \in Sound
  BY CountedSound
<1> DEFINE r == [Counted(rec) EXCEPT !.code = c]
           d == clock + Window
           p == [r EXCEPT !.pending = c, !.due = d]
<1>2. r \in Sound /\ r.code = c
  <2>1. r \in Record
    BY <1>1 DEF Sound, Record
  <2> QED BY <1>1, <2>1 DEF Sound, Record
<1>3. d \in Nat
  BY AdminAssumption
<1> HIDE DEF r, d
<1>4. p \in Record
  BY <1>2, <1>3 DEF Sound, Record
<1>5. p \in Sound /\ p.code = c /\ p.due = d
  BY <1>2, <1>4 DEF Sound, Record
<1>6. Coded(s, c, rec) = IF s \in Customers THEN r ELSE p
  BY DEF Coded, r, d
<1> QED BY <1>2, <1>5, <1>6, AdminAssumption DEF d

LEMMA ClearedSound ==
    ASSUME NEW rec \in Sound
    PROVE  [rec EXCEPT !.pending = NoCode, !.due = 0] \in Sound
<1>1. [rec EXCEPT !.pending = NoCode, !.due = 0] \in Record
  BY NoCodeIsCode DEF Sound, Record
<1> QED BY <1>1 DEF Sound, Record

LEMMA PutSound ==
    ASSUME Records, NEW s \in Parties, NEW rec \in Sound, NEW ok, Put(s, rec, ok)
    PROVE  Records'
BY DEF Records, Put

-----------------------------------------------------------------------------
(* What stays true while codes are drawn and time passes *)

\* From codes i at time t to codes j at time u.
Later(i, t, j, u) ==
    /\ IssuedOK(i) /\ IssuedOK(j) /\ t \in Nat /\ u \in Nat /\ t <= u
    /\ \A c \in DOMAIN i : c \in DOMAIN j /\ j[c] = i[c]

LEMMA IssuedAt ==
    ASSUME NEW i, IssuedOK(i), NEW c \in DOMAIN i
    PROVE  i[c].at \in Nat /\ i[c].to \in Parties /\ c \in Code
<1>1. c \in 1..Len(i) /\ Len(i) \in Nat /\ i[c] \in [to : Parties, at : Nat]
  BY LenProperties DEF IssuedOK
<1>2. c \in Code
  BY <1>1, AdminAssumption DEF IssuedOK, Code
<1> QED BY <1>1, <1>2

LEMMA StoodLater ==
    ASSUME NEW i, NEW t, NEW j, NEW u, Later(i, t, j, u), NEW s, NEW c, Stood(s, c, i, t)
    PROVE  Stood(s, c, j, u)
BY IssuedAt, AdminAssumption DEF Later, Stood, DrawnFor

LEMMA ReqLater ==
    ASSUME NEW i, NEW t, NEW j, NEW u, Later(i, t, j, u), NEW q, ReqOK(q, i, t)
    PROVE  ReqOK(q, j, u)
<1>1. Stood(q.order.on, q.line, j, u)
  BY StoodLater DEF ReqOK
<1> QED BY <1>1 DEF ReqOK, Later, DrawnFor

LEMMA RoutineLater ==
    ASSUME NEW i, NEW t, NEW j, NEW u, Later(i, t, j, u), NEW g, RoutineOK(g, i, t)
    PROVE  RoutineOK(g, j, u)
<1>1. g.due \in Nat
  BY DEF RoutineOK, Routine
<1> QED BY <1>1 DEF RoutineOK, Later, DrawnFor

\* The same for the parts of the invariant.
Goes == Later(issued, clock, issued', clock')

LEMMA Stays ==
    ASSUME Others, UNCHANGED <<issued, clock>>
    PROVE  Goes
BY DEF Others, Goes, Later

LEMMA LinesKept ==
    ASSUME Lines, Goes, UNCHANGED line
    PROVE  Lines'
BY StoodLater DEF Lines, Goes

LEMMA LineSet ==
    ASSUME Lines, Goes, NEW s \in Parties, NEW c \in Code, Stood(s, c, issued', clock'),
           line' = [line EXCEPT ![s] = c]
    PROVE  Lines'
BY StoodLater DEF Lines, Goes

LEMMA ReqsKept ==
    ASSUME Reqs, Goes, UNCHANGED req
    PROVE  Reqs'
BY ReqLater DEF Reqs, Goes

LEMMA ReqSet ==
    ASSUME Reqs, Goes, NEW r \in Requests, NEW q, q = Idle \/ ReqOK(q, issued', clock'),
           req' = [req EXCEPT ![r] = q]
    PROVE  Reqs'
<1>1. q \in Request \cup {Idle}
  BY DEF ReqOK
<1> QED BY <1>1, ReqLater DEF Reqs, Goes

LEMMA ReqEnds ==
    ASSUME Reqs, Goes, NEW r \in Requests, End(r)
    PROVE  Reqs'
BY ReqSet DEF End

LEMMA RoutinesKept ==
    ASSUME Routines, Goes, routines' \subseteq routines
    PROVE  Routines'
BY RoutineLater DEF Routines, Goes

LEMMA RoutineAdded ==
    ASSUME Routines, Goes, NEW g, RoutineOK(g, issued', clock'),
           routines' \subseteq routines \cup {g}
    PROVE  Routines'
BY RoutineLater DEF Routines, Goes

LEMMA RecordsKept ==
    ASSUME Records, UNCHANGED store
    PROVE  Records'
BY DEF Records, store

\* A step that only moves a request on.
LEMMA ReqOnly ==
    ASSUME IInv, NEW r \in Requests, NEW q, q = Idle \/ ReqOK(q, issued, clock),
           req' = [req EXCEPT ![r] = q],
           UNCHANGED <<store, line, rows, routines, time, history>>
    PROVE  IInv'
<1>1. Goes /\ UNCHANGED <<issued, clock>>
  BY Stays DEF IInv, time, history
<1>2. Lines' /\ Records' /\ Routines'
  BY <1>1, LinesKept, RecordsKept, RoutinesKept DEF IInv
<1>3. Reqs'
  BY <1>1, ReqSet DEF IInv
<1>4. Others'
  BY DEF IInv, Others, time, history
<1> QED BY <1>2, <1>3, <1>4 DEF IInv

\* The request of a step.
LEMMA Working ==
    ASSUME IInv, NEW r \in Requests, req[r] # Idle
    PROVE  /\ ReqOK(req[r], issued, clock) /\ req[r] \in Request
           /\ req[r].order \in Order /\ On(r) \in Parties
           /\ req[r].rec \in Sound
BY DEF IInv, Reqs, ReqOK, Request, Order, On

-----------------------------------------------------------------------------
(* The steps of a request *)

LEMMA FindStep ==
    ASSUME IInv, NEW r \in Requests, NEW o \in Orders, Find(r, o)
    PROVE  IInv'
<1> DEFINE pc == IF o.on \in Customers /\ o.op = "phone" THEN "contact" ELSE "look"
           c == IF DirectReader \/ o.op # "phone" THEN NoCode ELSE line[o.on]
           q == [order |-> o, pc |-> pc, rec |-> NewParty, line |-> c,
                 row |-> {}, add |-> {}, drop |-> {}]
<1>1. o \in Order /\ o.on \in Parties /\ (o.on \in Customers => o.op \in CustomerOps)
  BY DEF Orders, Order
<1>2. c \in Code /\ Stood(o.on, c, issued, clock)
  BY <1>1, NoCodeIsCode DEF IInv, Lines, Stood
<1>3. pc \in {"contact", "look"}
  OBVIOUS
<1>4. req' = [req EXCEPT ![r] = q]
  BY DEF Find, Continue
<1> HIDE DEF pc, c
<1>5. q \in Request
  BY <1>1, <1>2, <1>3, NewPartySound, SoundIsRecord DEF Request
<1>6. ReqOK(q, issued, clock)
  BY <1>1, <1>2, <1>3, <1>5, NewPartySound DEF ReqOK
<1> HIDE DEF q
<1> QED BY <1>4, <1>6, ReqOnly DEF Find

LEMMA LookStep ==
    ASSUME IInv, NEW r \in Requests, Look(r)
    PROVE  IInv'
<1> DEFINE o == req[r].order
           pc == AfterLook(o)
           rec == state[o.on]
           add == IF o.op = "assign" THEN o.items ELSE {}
           drop == IF o.op = "unassign" THEN o.items ELSE {}
           q == [req[r] EXCEPT !.pc = pc, !.rec = rec, !.add = add, !.drop = drop]
<1>1. req[r] # Idle /\ UNCHANGED <<store, line, rows, routines, time, history>>
  BY DEF Look, At
<1>2. CASE Refused(o)
  BY <1>1, <1>2, ReqOnly DEF Look, End
<1>3. CASE ~ Refused(o)
  <2>1. req' = [req EXCEPT ![r] = q]
    BY <1>3 DEF Look, Continue
  <2>2. ReqOK(req[r], issued, clock) /\ req[r] \in Request /\ o \in Order /\ o.on \in Parties
    BY <1>1, Working DEF On
  <2>3. rec \in Sound
    BY <2>2 DEF IInv, Records
  <2>4. pc \in {"draw", "contact", "list", "items", "save"}
    BY DEF AfterLook
  <2>5. pc \in {"list", "items"} => o.op \in ItemOps
    BY DEF AfterLook, ItemOps
  <2>6. pc = "save" => Saveable(o, rec)
    <3>1. pc = "save" => o.op \in {"block", "unblock", "remove", "restore"}
      BY <2>2 DEF AfterLook, Order, Parties
    <3>2. o.op \in {"block", "unblock"} => ~ rec.removed
      BY <1>3, <2>2 DEF Refused, ReqOK, CustomerOps, Parties
    <3> QED BY <3>1, <3>2 DEF Saveable
  <2>7. add \in SUBSET Items /\ drop \in SUBSET Items
    BY <2>2 DEF Order
  <2> HIDE DEF pc, rec, add, drop
  <2>8. q \in Request /\ q.pc = pc /\ q.rec = rec /\ q.order = o /\ q.line = req[r].line
    BY <2>2, <2>3, <2>4, <2>7, SoundIsRecord DEF Request
  <2> HIDE DEF q
  <2>9. ReqOK(q, issued, clock)
    BY <2>2, <2>3, <2>4, <2>5, <2>6, <2>8 DEF ReqOK
  <2> QED BY <1>1, <2>1, <2>9, ReqOnly
<1> QED BY <1>2, <1>3

LEMMA SaveStep ==
    ASSUME IInv, NEW r \in Requests, Save(r)
    PROVE  IInv'
<1>1. req[r] # Idle /\ req[r].pc = "save" /\ Goes
  BY Stays DEF Save, At, IInv, time
<1>2. ReqOK(req[r], issued, clock) /\ req[r].order \in Order /\ On(r) \in Parties
  BY <1>1, Working
<1>3. Ordered(req[r].order, req[r].rec) \in Sound
  BY <1>1, <1>2, OrderedSound DEF ReqOK
<1>4. Records'
  BY <1>2, <1>3, PutSound DEF Save, IInv
<1>5. Lines' /\ Routines' /\ Reqs'
  BY <1>1, LinesKept, RoutinesKept, ReqEnds DEF Save, IInv
<1>6. barred' \subseteq Parties
  BY <1>2 DEF Save, IInv, Others
<1>7. Others'
  BY <1>6 DEF Save, IInv, Others, time
<1> QED BY <1>4, <1>5, <1>7 DEF IInv

LEMMA ContactStep ==
    ASSUME IInv, NEW r \in Requests, Contact(r)
    PROVE  IInv'
<1>1. req[r] # Idle /\ Goes /\ issued' = issued /\ clock' = clock
  BY Stays DEF Contact, At, IInv, time, history
<1>2. ReqOK(req[r], issued, clock) /\ req[r] \in Request /\ On(r) \in Parties
  BY <1>1, Working
<1>3. Records' /\ Routines' /\ Reqs'
  BY <1>1, RecordsKept, RoutinesKept, ReqEnds DEF Contact, IInv
<1>4. \/ line' = line
      \/ line' = [line EXCEPT ![On(r)] = req[r].line]
  BY DEF Contact
<1>5. req[r].line \in Code /\ Stood(On(r), req[r].line, issued', clock')
  BY <1>1, <1>2 DEF ReqOK, Request, On
<1>6. Lines'
  BY <1>1, <1>2, <1>4, <1>5, LinesKept, LineSet DEF IInv
<1>7. Others'
  BY DEF Contact, IInv, Others, time, history
<1> QED BY <1>3, <1>6, <1>7 DEF IInv

LEMMA ListStep ==
    ASSUME IInv, NEW r \in Requests, List(r)
    PROVE  IInv'
<1>1. /\ req[r] # Idle /\ req[r].pc = "list"
      /\ UNCHANGED <<store, line, rows, routines, time, history>>
  BY DEF List, At
<1>2. /\ ReqOK(req[r], issued, clock) /\ req[r] \in Request /\ req[r].order \in Order
      /\ req[r].order.op \in ItemOps
  BY <1>1, Working DEF ReqOK
<1>3. ASSUME NEW q, req' = [req EXCEPT ![r] = q], q \in Request,
             q.order = req[r].order, q.rec = req[r].rec, q.line = req[r].line,
             q.pc \in {"save", "items", "put"},
             q.pc = "save" => req[r].order.op \in ItemOps
      PROVE  IInv'
  <2>1. q.pc = "save" => Saveable(q.order, q.rec)
    BY <1>3 DEF Saveable, ItemOps
  <2>2. ReqOK(q, issued, clock)
    BY <1>2, <1>3, <2>1 DEF ReqOK
  <2> QED BY <1>1, <1>3, <2>2, ReqOnly
<1>4. CASE End(r)
  BY <1>1, <1>4, ReqOnly DEF End
<1>5. ASSUME NEW add \in SUBSET Items, NEW drop \in SUBSET Items,
             NEW pc \in {"save", "items"},
             Continue(r, [req[r] EXCEPT !.add = add, !.drop = drop, !.pc = pc])
      PROVE  IInv'
  <2> DEFINE q == [req[r] EXCEPT !.add = add, !.drop = drop, !.pc = pc]
  <2>1. q \in Request /\ q.pc = pc /\ q.order = req[r].order /\ q.rec = req[r].rec
        /\ q.line = req[r].line
    BY <1>2 DEF Request
  <2>2. req' = [req EXCEPT ![r] = q]
    BY <1>5 DEF Continue
  <2> HIDE DEF q
  <2> QED BY <1>2, <1>3, <2>1, <2>2
<1>6. ASSUME NEW i \in req[r].order.items,
             Continue(r, [req[r] EXCEPT !.row = rows[i], !.pc = "put"])
      PROVE  IInv'
  <2> DEFINE q == [req[r] EXCEPT !.row = rows[i], !.pc = "put"]
  <2>1. rows[i] \in SUBSET Parties
    BY <1>2 DEF IInv, Others, Order
  <2>2. q \in Request /\ q.pc = "put" /\ q.order = req[r].order /\ q.rec = req[r].rec
        /\ q.line = req[r].line
    BY <1>2, <2>1 DEF Request
  <2>3. req' = [req EXCEPT ![r] = q]
    BY <1>6 DEF Continue
  <2> HIDE DEF q
  <2> QED BY <1>3, <2>2, <2>3
<1>7. \/ End(r)
      \/ \E add \in SUBSET Items, drop \in SUBSET Items, pc \in {"save", "items"} :
            Continue(r, [req[r] EXCEPT !.add = add, !.drop = drop, !.pc = pc])
      \/ \E i \in req[r].order.items :
            Continue(r, [req[r] EXCEPT !.row = rows[i], !.pc = "put"])
  <2> DEFINE o == req[r].order
             current == {i \in Items : On(r) \in rows[i]}
             pc == IF o.items = current THEN "save" ELSE "items"
  <2>1. o.items \ current \in SUBSET Items /\ current \ o.items \in SUBSET Items
        /\ pc \in {"save", "items"}
    BY <1>2 DEF Order
  <2>2. \/ End(r)
        \/ Continue(r, [req[r] EXCEPT !.add = o.items \ current, !.drop = current \ o.items,
                                      !.pc = pc])
        \/ \E i \in o.items : Continue(r, [req[r] EXCEPT !.row = rows[i], !.pc = "put"])
    BY DEF List
  <2> HIDE DEF o, current, pc
  <2> QED BY <2>1, <2>2 DEF o
<1> QED BY <1>4, <1>5, <1>6, <1>7

\* A step that changes a request and the items' rows.
LEMMA RowsStep ==
    ASSUME IInv, NEW r \in Requests, NEW q, q = Idle \/ ReqOK(q, issued, clock),
           req' = [req EXCEPT ![r] = q],
           rows' \in [Items -> SUBSET Parties],
           UNCHANGED <<store, line, routines, time, history>>
    PROVE  IInv'
<1>1. Goes /\ UNCHANGED <<issued, clock>>
  BY Stays DEF IInv, time, history
<1>2. Lines' /\ Records' /\ Routines'
  BY <1>1, LinesKept, RecordsKept, RoutinesKept DEF IInv
<1>3. Reqs'
  BY <1>1, ReqSet DEF IInv
<1>4. Others'
  BY DEF IInv, Others, time, history
<1> QED BY <1>2, <1>3, <1>4 DEF IInv

LEMMA ItemCallStep ==
    ASSUME IInv, NEW r \in Requests, ItemCall(r)
    PROVE  IInv'
<1>1. /\ req[r] # Idle /\ req[r].pc = "items"
      /\ UNCHANGED <<store, line, routines, time, history>>
  BY DEF ItemCall, At
<1>2. /\ ReqOK(req[r], issued, clock) /\ req[r] \in Request
      /\ req[r].order.op \in ItemOps /\ On(r) \in Parties
  BY <1>1, Working DEF ReqOK
<1>3. PICK i \in IF req[r].add # {} THEN req[r].add ELSE req[r].drop, call \in Calls :
        LET q == [req[r] EXCEPT !.add = @ \ {i}, !.drop = @ \ {i}]
            adds == i \in req[r].add
        IN /\ rows' = IF ~ call.done THEN rows
                      ELSE [rows EXCEPT ![i] = IF adds THEN @ \cup {On(r)} ELSE @ \ {On(r)}]
           /\ IF ~ call.ok THEN End(r)
              ELSE IF q.add \cup q.drop # {} THEN Continue(r, q)
              ELSE IF IsSupplier(r) THEN Continue(r, [q EXCEPT !.pc = "save"])
              ELSE End(r)
  BY DEF ItemCall
<1> DEFINE q == [req[r] EXCEPT !.add = @ \ {i}, !.drop = @ \ {i}]
           p == [q EXCEPT !.pc = "save"]
<1>4. rows' \in [Items -> SUBSET Parties]
  <2>1. rows \in [Items -> SUBSET Parties]
    BY DEF IInv, Others
  <2>2. CASE ~ call.done
    BY <1>3, <2>1, <2>2
  <2>3. CASE call.done /\ i \in req[r].add
    BY <1>2, <1>3, <2>1, <2>3
  <2>4. CASE call.done /\ i \notin req[r].add
    BY <1>2, <1>3, <2>1, <2>4
  <2> QED BY <2>2, <2>3, <2>4
<1>5. End(r) \/ Continue(r, q) \/ Continue(r, p)
  BY <1>3
<1>6. /\ q \in Request /\ q.pc = "items" /\ q.order = req[r].order
      /\ q.rec = req[r].rec /\ q.line = req[r].line
  BY <1>1, <1>2 DEF Request
<1>7. /\ p \in Request /\ p.pc = "save" /\ p.order = req[r].order
      /\ p.rec = req[r].rec /\ p.line = req[r].line
  BY <1>6 DEF Request
<1> HIDE DEF q, p
<1>8. ReqOK(q, issued, clock)
  BY <1>2, <1>6 DEF ReqOK
<1>9. ReqOK(p, issued, clock)
  BY <1>2, <1>7 DEF ReqOK, Saveable, ItemOps
<1>10. CASE End(r)
  BY <1>1, <1>4, <1>10, RowsStep DEF End
<1>11. CASE Continue(r, q)
  BY <1>1, <1>4, <1>8, <1>11, RowsStep DEF Continue
<1>12. CASE Continue(r, p)
  BY <1>1, <1>4, <1>9, <1>12, RowsStep DEF Continue
<1> QED BY <1>5, <1>10, <1>11, <1>12

LEMMA PutRowStep ==
    ASSUME IInv, NEW r \in Requests, PutRow(r)
    PROVE  IInv'
<1>1. req[r] # Idle /\ End(r) /\ UNCHANGED <<store, line, routines, time, history>>
  BY DEF PutRow, At
<1>2. req[r] \in Request
  BY <1>1, Working
<1>3. rows' \in [Items -> SUBSET Parties]
  <2>1. rows \in [Items -> SUBSET Parties]
    BY DEF IInv, Others
  <2> QED BY <1>2, <2>1 DEF PutRow, Parties, Request
<1> QED BY <1>1, <1>3, RowsStep DEF End

-----------------------------------------------------------------------------
(* Access codes *)

LEMMA DrawIssues ==
    ASSUME IInv, NEW s \in Parties, Len(issued) + 1 <= MaxCodes,
           issued' = Append(issued, [to |-> s, at |-> clock]), UNCHANGED clock
    PROVE  /\ Goes
           /\ IssuedOK(issued')
           /\ Len(issued) + 1 \in Code
           /\ DrawnFor(s, Len(issued) + 1, issued')
           /\ issued'[Len(issued) + 1].at = clock
<1>1. IssuedOK(issued) /\ clock \in Nat
  BY AdminAssumption DEF IInv, Others
<1>2. [to |-> s, at |-> clock] \in [to : Parties, at : Nat]
  BY <1>1
<1>3. /\ issued' \in Seq([to : Parties, at : Nat])
      /\ Len(issued') = Len(issued) + 1
      /\ \A c \in 1..Len(issued) : issued'[c] = issued[c]
      /\ issued'[Len(issued) + 1] = [to |-> s, at |-> clock]
  BY <1>1, <1>2, AppendProperties DEF IssuedOK
<1>4. DOMAIN issued = 1..Len(issued) /\ DOMAIN issued' = 1..Len(issued') /\ Len(issued) \in Nat
  BY <1>1, <1>3, LenProperties DEF IssuedOK
<1>5. IssuedOK(issued')
  BY <1>3 DEF IssuedOK
<1>6. Goes
  BY <1>1, <1>3, <1>4, <1>5 DEF Goes, Later
<1> QED BY <1>3, <1>4, <1>5, <1>6, AdminAssumption DEF Code, DrawnFor

LEMMA DrawStep ==
    ASSUME IInv, NEW r \in Requests, Draw(r)
    PROVE  IInv'
<1> DEFINE s == On(r)
           c == Len(issued) + 1
           rec == Coded(s, c, req[r].rec)
           q == [req[r] EXCEPT !.pc = "push", !.rec = rec]
<1>1. /\ req[r] # Idle
      /\ UNCHANGED <<line, rows, time, persisted, barred>>
  BY DEF Draw, At
<1>2. /\ ReqOK(req[r], issued, clock) /\ req[r] \in Request
      /\ s \in Parties /\ req[r].rec \in Sound
  BY <1>1, Working
<1>3. CASE End(r) /\ UNCHANGED <<store, routines, issued>>
  <2>1. UNCHANGED <<store, line, rows, routines, time, history>>
    BY <1>1, <1>3 DEF store, time, history
  <2> QED BY <1>3, <2>1, ReqOnly DEF End
<1>4. CASE ~ Locked(req[r].rec) /\ c <= MaxCodes
           /\ issued' = Append(issued, [to |-> s, at |-> clock])
  <2>1. PICK ok \in Saves :
          /\ Put(s, rec, ok)
          /\ routines' = IF ok /\ IsSupplier(r) THEN routines \cup Scheduled(s, c, rec)
                         ELSE routines
          /\ IF ok /\ ~ IsSupplier(r)
             THEN Continue(r, [req[r] EXCEPT !.pc = "push", !.rec = rec])
             ELSE End(r)
    BY <1>4 DEF Draw
  <2>2. /\ Goes /\ IssuedOK(issued') /\ c \in Code
        /\ DrawnFor(s, c, issued') /\ issued'[c].at = clock
    BY <1>1, <1>2, <1>4, DrawIssues DEF time
  <2>3. clock \in Nat /\ clock' = clock
    BY <1>1 DEF IInv, Others, time
  <2>4. /\ rec \in Sound /\ rec.code = c
        /\ s \in Suppliers => rec.due = clock + Window
    BY <1>2, <1>4, <2>2, <2>3, CodedSound
  <2> HIDE DEF s, c, rec
  <2>5. Records'
    BY <1>2, <2>1, <2>4, PutSound DEF IInv
  <2>6. Lines'
    BY <1>1, <2>2, LinesKept DEF IInv
  <2>7. Routines'
    <3> DEFINE g == [code |-> c, on |-> s, due |-> rec.due, pc |-> "sleep", rec |-> NewParty]
    <3>1. CASE s \in Suppliers
      <4>1. rec.due \in Nat
        BY <2>4, SoundIsRecord DEF Record
      <4>2. g \in Routine
        BY <2>2, <3>1, <4>1, NewPartySound, SoundIsRecord DEF Routine
      <4>3. RoutineOK(g, issued', clock')
        BY <2>2, <2>3, <2>4, <3>1, <4>2, NewPartySound, AdminAssumption DEF RoutineOK
      <4> QED BY <2>1, <2>2, <4>3, RoutineAdded DEF IInv, Scheduled
    <3>2. CASE s \notin Suppliers
      BY <2>1, <2>2, <3>2, RoutinesKept DEF IInv, IsSupplier, s
    <3> QED BY <3>1, <3>2
  <2>8. Reqs'
    <3>1. CASE End(r)
      BY <2>2, <3>1, ReqEnds DEF IInv
    <3>2. CASE ~ IsSupplier(r) /\ Continue(r, q)
      <4>1. s \in Customers
        BY <1>2, <3>2 DEF IsSupplier, s, Parties
      <4>2. /\ q \in Request /\ q.pc = "push" /\ q.order = req[r].order
            /\ q.rec = rec /\ q.line = req[r].line
        BY <1>2, <2>4, SoundIsRecord DEF Request
      <4>3. ReqOK(req[r], issued', clock')
        BY <1>2, <2>2, ReqLater DEF Goes
      <4> HIDE DEF q
      <4>4. ReqOK(q, issued', clock')
        BY <2>2, <2>4, <4>1, <4>2, <4>3 DEF ReqOK, s, On
      <4> QED BY <2>2, <3>2, <4>4, ReqSet DEF IInv, Continue
    <3> QED BY <2>1, <3>1, <3>2
  <2>9. Others'
    BY <1>1, <2>2 DEF IInv, Others, time
  <2> QED BY <2>5, <2>6, <2>7, <2>8, <2>9 DEF IInv
<1> QED BY <1>3, <1>4 DEF Draw

LEMMA PushStep ==
    ASSUME IInv, NEW r \in Requests, Push(r)
    PROVE  IInv'
<1>1. /\ req[r] # Idle /\ req[r].pc = "push" /\ Goes
      /\ issued' = issued /\ clock' = clock
  BY Stays DEF Push, At, IInv, time
<1>2. /\ ReqOK(req[r], issued, clock) /\ On(r) \in Parties
      /\ On(r) \in Customers /\ DrawnFor(On(r), req[r].rec.code, issued)
  BY <1>1, Working DEF ReqOK, On
<1>3. Records' /\ Routines' /\ Reqs'
  BY <1>1, RecordsKept, RoutinesKept, ReqEnds DEF Push, IInv
<1>4. /\ \/ line' = line
         \/ line' = [line EXCEPT ![On(r)] = req[r].rec.code]
      /\ persisted' \subseteq persisted \cup {req[r].rec.code}
  BY DEF Push
<1>5. req[r].rec.code \in Code /\ Stood(On(r), req[r].rec.code, issued', clock')
  BY <1>1, <1>2, AdminAssumption, SoundIsRecord DEF ReqOK, Record, Stood
<1>6. Lines'
  BY <1>1, <1>2, <1>4, <1>5, LinesKept, LineSet DEF IInv
<1>7. Others'
  BY <1>4, <1>5 DEF Push, IInv, Others, time
<1> QED BY <1>3, <1>6, <1>7 DEF IInv

-----------------------------------------------------------------------------
(* The goroutine *)

\* A goroutine that goes on, or ends.
LEMMA RoutineMoves ==
    ASSUME IInv, Goes, NEW g \in routines, UNCHANGED <<issued, clock>>,
           NEW pc \in {"put", "clear"}, NEW rec \in Sound, clock >= g.due,
           Move(g, pc, rec)
    PROVE  Routines'
<1> DEFINE h == [g EXCEPT !.pc = pc, !.rec = rec]
<1>1. RoutineOK(g, issued, clock)
  BY DEF IInv, Routines
<1>2. h \in Routine
  BY <1>1, SoundIsRecord DEF RoutineOK, Routine
<1>3. RoutineOK(h, issued, clock)
  BY <1>1, <1>2 DEF RoutineOK, Routine
<1>4. routines' \subseteq routines \cup {h}
  BY DEF Move
<1> HIDE DEF h
<1> QED BY <1>3, <1>4, RoutineAdded DEF IInv

LEMMA RoutineEnds ==
    ASSUME IInv, Goes, NEW g \in routines, Finish(g)
    PROVE  Routines'
BY RoutinesKept DEF IInv, Finish

LEMMA WakeStep ==
    ASSUME IInv, NEW g \in routines, Wake(g)
    PROVE  IInv'
<1>1. Goes /\ UNCHANGED <<issued, clock>> /\ clock >= g.due
  BY Stays DEF Wake, IInv, time, history
<1>2. Lines' /\ Records' /\ Reqs' /\ Others'
  BY <1>1, LinesKept, RecordsKept, ReqsKept DEF Wake, IInv, Others, time, history
<1>3. state[g.on] \in Sound
  BY DEF IInv, Routines, RoutineOK, Routine, Records, Parties
<1>4. Move(g, "put", state[g.on]) \/ Finish(g)
  BY DEF Wake
<1>5. Routines'
  BY <1>1, <1>3, <1>4, RoutineMoves, RoutineEnds
<1> QED BY <1>2, <1>5 DEF IInv

LEMMA PersistStep ==
    ASSUME IInv, NEW g \in routines, Persist(g)
    PROVE  IInv'
<1>1. Goes /\ issued' = issued /\ clock' = clock /\ g.pc = "put"
  BY Stays DEF Persist, IInv, time
<1>2. RoutineOK(g, issued, clock) /\ g.code \in Code /\ g.on \in Suppliers
  BY DEF IInv, Routines, RoutineOK, Routine
<1>3. Records' /\ Reqs'
  BY <1>1, RecordsKept, ReqsKept DEF Persist, IInv
<1>4. /\ \/ line' = line
         \/ line' = [line EXCEPT ![g.on] = g.code]
      /\ persisted' \subseteq persisted \cup {g.code}
      /\ Move(g, "clear", g.rec) \/ Finish(g)
  BY DEF Persist
<1>5. Stood(g.on, g.code, issued', clock') /\ clock >= g.due
  <2>1. issued[g.code].at \in Nat /\ g.due \in Nat /\ clock \in Nat
    BY <1>2, IssuedAt, AdminAssumption DEF RoutineOK, Routine, DrawnFor, IInv, Others
  <2> QED BY <1>1, <1>2, <2>1, AdminAssumption DEF RoutineOK, Stood
<1>6. Lines'
  BY <1>1, <1>2, <1>4, <1>5, LinesKept, LineSet DEF IInv, Parties
<1>7. Routines'
  BY <1>1, <1>2, <1>4, <1>5, RoutineMoves, RoutineEnds DEF RoutineOK
<1>8. Others'
  BY <1>2, <1>4 DEF Persist, IInv, Others, time
<1> QED BY <1>3, <1>6, <1>7, <1>8 DEF IInv

LEMMA ClearStep ==
    ASSUME IInv, NEW g \in routines, Clear(g)
    PROVE  IInv'
<1>1. Goes
  BY Stays DEF Clear, IInv, time, history
<1>2. g.on \in Parties /\ g.rec \in Sound
  BY DEF IInv, Routines, RoutineOK, Routine, Parties
<1>3. [g.rec EXCEPT !.pending = NoCode, !.due = 0] \in Sound
  BY <1>2, ClearedSound
<1>4. Records'
  BY <1>2, <1>3, PutSound DEF Clear, IInv
<1>5. Lines' /\ Reqs' /\ Routines'
  BY <1>1, LinesKept, ReqsKept, RoutineEnds DEF Clear, IInv
<1>6. Others'
  BY DEF Clear, IInv, Others, time, history
<1> QED BY <1>4, <1>5, <1>6 DEF IInv

-----------------------------------------------------------------------------
LEMMA TickStep == ASSUME IInv, Tick PROVE IInv'
<1>1. /\ clock \in Nat /\ clock' = clock + 1 /\ clock' \in 0..MaxClock
      /\ issued' = issued /\ IssuedOK(issued)
  BY AdminAssumption DEF Tick, IInv, Others, history
<1>2. Goes
  BY <1>1 DEF Goes, Later
<1>3. Lines' /\ Records' /\ Reqs' /\ Routines'
  BY <1>2, LinesKept, RecordsKept, ReqsKept, RoutinesKept DEF Tick, IInv
<1>4. Others'
  BY <1>1 DEF Tick, IInv, Others, history
<1> QED BY <1>3, <1>4 DEF IInv

LEMMA RestartStep == ASSUME IInv, Restart PROVE IInv'
<1>1. Goes
  BY Stays DEF Restart, IInv, history
<1>2. Lines' /\ Routines'
  BY <1>1, LinesKept DEF Restart, IInv, Routines
<1>3. Records' /\ Reqs'
  BY DEF Restart, IInv, Records, Reqs
<1>4. restarts' \in 0..MaxRestarts
  BY AdminAssumption DEF Restart, IInv, Others
<1>5. Others'
  BY <1>4 DEF Restart, IInv, Others, history
<1> QED BY <1>2, <1>3, <1>5 DEF IInv

LEMMA StutterStep == ASSUME IInv, UNCHANGED vars PROVE IInv'
<1>1. Goes
  BY Stays DEF IInv, vars
<1>2. Lines' /\ Records' /\ Reqs' /\ Routines'
  BY <1>1, LinesKept, RecordsKept, ReqsKept, RoutinesKept DEF vars, store, IInv
<1> QED BY <1>2 DEF IInv, vars, Others

LEMMA InitInvariant == Init => IInv
<1> SUFFICES ASSUME Init PROVE IInv
  OBVIOUS
<1>1. Records
  BY NewPartySound DEF Init, Records
<1>2. Lines
  BY NoCodeIsCode DEF Init, Lines, Stood
<1>3. issued \in Seq([to : Parties, at : Nat]) /\ Len(issued) = 0
  BY EmptySeq DEF Init
<1>4. Others
  BY <1>3, AdminAssumption DEF Init, Others, IssuedOK
<1> QED BY <1>1, <1>2, <1>4 DEF Init, IInv, Reqs, Routines

LEMMA StepInvariant == IInv /\ [Next]_vars => IInv'
<1> SUFFICES ASSUME IInv, [Next]_vars PROVE IInv'
  OBVIOUS
<1>1. ASSUME NEW r \in Requests, Step(r) PROVE IInv'
  BY <1>1, LookStep, SaveStep, ContactStep, ListStep, ItemCallStep, PutRowStep,
     DrawStep, PushStep DEF Step
<1>2. ASSUME NEW r \in Requests, NEW o \in Orders, Find(r, o) PROVE IInv'
  BY <1>2, FindStep
<1>3. ASSUME NEW g \in routines, Work(g) PROVE IInv'
  BY <1>3, WakeStep, PersistStep, ClearStep DEF Work
<1> QED BY <1>1, <1>2, <1>3, TickStep, RestartStep, StutterStep DEF Next

\* IInv is inductive.
THEOREM AdminInvariance == Spec => []IInv
BY InitInvariant, StepInvariant, PTL DEF Spec

LEMMA InvariantTypes == IInv => TypeOK
<1> SUFFICES ASSUME IInv PROVE TypeOK
  OBVIOUS
<1>1. routines \subseteq Routine
  BY DEF IInv, Routines, RoutineOK
<1>2. state \in [Parties -> Record] /\ file \in [Parties -> Record]
  BY SoundIsRecord DEF IInv, Records
<1> QED BY <1>1, <1>2 DEF IInv, Lines, Reqs, Others, IssuedOK, TypeOK

\* Every variable keeps its type; in particular the counter of regenerations never
\* exceeds its limit, in any record that anybody holds (bumpCodeRegenState).
THEOREM AdminTypes == Spec => []TypeOK
BY AdminInvariance, InvariantTypes, PTL

\* A removed party is blocked, in memory and in the file, although orders to unblock
\* and to remove write back records they read earlier (AdminSetSupplierBlocked,
\* AdminRemoveSupplier).
THEOREM RemovedPartiesAreBlocked == Spec => []RemovedIsBlocked
<1>1. IInv => RemovedIsBlocked
  BY DEF IInv, Records, Sound, RemovedIsBlocked
<1> QED BY <1>1, AdminInvariance, PTL

\* ERPNext has a supplier's code only after it has stood for a window, and only the
\* supplier's own, whatever overlaps (scheduleSupplierCodePersist).
THEOREM CodesInErpHaveStood == Spec => []ErpCodeHasStood
<1>1. IInv => ErpCodeHasStood
  BY DEF IInv, Lines, Stood, DrawnFor, ErpCodeHasStood
<1> QED BY <1>1, AdminInvariance, PTL

-----------------------------------------------------------------------------
(* One admin, one request at a time *)

\* An admin's requests and the goroutines that save take turns.
Serial ==
    /\ ~ PersistOverlaps
    /\ \A q, r \in Requests : q = r
    /\ SavesFail => MaxRestarts = 0

Resting == \A r \in Requests : req[r] = Idle

Awake(g) == g.pc # "sleep"

\* A request after its look holds the record of the store, and one that draws a code
\* for a supplier was not refused.
ReadsNow(q, st) ==
    /\ q.pc \notin {"look", "contact"} => q.rec = st[q.order.on]
    /\ q.pc = "draw" /\ q.order.on \in Suppliers => ~ q.rec.removed

\* A goroutine at its calls holds it too, with its code pending.
WakesNow(g, st) == Awake(g) => g.rec = st[g.on] /\ g.rec.pending = g.code

Fresh ==
    /\ \A r \in Requests : req[r] # Idle => ReadsNow(req[r], state)
    /\ \A g \in routines : WakesNow(g, state)
    /\ Resting \/ \A g \in routines : ~ Awake(g)
    /\ \A g, h \in routines : g.code = h.code => g = h
    /\ ~ SavesFail => file = state

-----------------------------------------------------------------------------
(* The record that is written back is the one in the store                 *)

\* A request moves on or ends; records and goroutines stay.
LEMMA FreshMove ==
    ASSUME Serial, Fresh, req \in [Requests -> Request \cup {Idle}], NEW r \in Requests, NEW q,
           \A g \in routines : ~ Awake(g),
           q = Idle \/ ReadsNow(q, state),
           req' = [req EXCEPT ![r] = q], UNCHANGED <<store, routines>>
    PROVE  Fresh'
BY DEF Serial, Fresh, Resting, store, ReadsNow, WakesNow

\* The same, with its record saved, and perhaps a goroutine started for a new code.
LEMMA FreshSave ==
    ASSUME Serial, Fresh, req \in [Requests -> Request \cup {Idle}],
           state \in [Parties -> Sound], NEW r \in Requests, NEW q,
           \A g \in routines : ~ Awake(g),
           NEW s \in Parties, NEW rec, NEW ok \in Saves, Put(s, rec, ok),
           q = Idle \/ ReadsNow(q, state'),
           req' = [req EXCEPT ![r] = q],
           NEW new, ~ Awake(new), \A g \in routines : g.code # new.code,
           routines' \in {routines, routines \cup {new}}
    PROVE  Fresh'
<1>1. ~ SavesFail => file' = state'
  BY DEF Put, Saves
<1>2. \A g \in routines' : ~ Awake(g)
  OBVIOUS
<1>3. \A g, h \in routines' : g.code = h.code => g = h
  BY DEF Fresh
<1>4. \A p \in Requests : req'[p] # Idle => ReadsNow(req'[p], state')
  BY DEF Serial
<1> QED BY <1>1, <1>2, <1>3, <1>4 DEF Fresh, WakesNow, ReadsNow, Awake

\* A request at work: no goroutine is at its calls.
LEMMA NoneAwake ==
    ASSUME Fresh, NEW r \in Requests, req[r] # Idle
    PROVE  (\A g \in routines : ~ Awake(g)) /\ ReadsNow(req[r], state)
BY DEF Fresh, Resting

\* The codes of the goroutines have been drawn.
LEMMA RoutineCodes ==
    ASSUME IInv, NEW g \in routines
    PROVE  g.code \in 1..Len(issued) /\ g.code # NoCode /\ g.on \in Suppliers
<1>1. g.code \in DOMAIN issued /\ g \in Routine
  BY DEF IInv, Routines, RoutineOK, DrawnFor
<1>2. DOMAIN issued = 1..Len(issued)
  BY LenProperties DEF IInv, Others, IssuedOK
<1> QED BY <1>1, <1>2 DEF NoCode, Routine

LEMMA FreshFind ==
    ASSUME Serial, IInv, Fresh, NEW r \in Requests, NEW o \in Orders, Find(r, o)
    PROVE  Fresh'
<1> DEFINE q == [order |-> o,
                 pc |-> IF o.on \in Customers /\ o.op = "phone" THEN "contact" ELSE "look",
                 rec |-> NewParty,
                 line |-> IF DirectReader \/ o.op # "phone" THEN NoCode ELSE line[o.on],
                 row |-> {}, add |-> {}, drop |-> {}]
<1>1. \A g \in routines : ~ Awake(g)
  BY DEF Serial, Find, Busy, Awake
<1>2. ReadsNow(q, state)
  BY DEF ReadsNow
<1>3. req' = [req EXCEPT ![r] = q] /\ UNCHANGED <<store, routines>>
  BY DEF Find, Continue
<1> HIDE DEF q
<1> QED BY <1>1, <1>2, <1>3, FreshMove DEF IInv, Reqs

LEMMA FreshLook ==
    ASSUME Serial, IInv, Fresh, NEW r \in Requests, Look(r)
    PROVE  Fresh'
<1> DEFINE o == req[r].order
           q == [req[r] EXCEPT !.pc = AfterLook(o), !.rec = state[o.on],
                               !.add = IF o.op = "assign" THEN o.items ELSE {},
                               !.drop = IF o.op = "unassign" THEN o.items ELSE {}]
<1>1. req[r] # Idle /\ UNCHANGED <<store, routines>>
  BY DEF Look, At
<1>2. req[r] \in Request /\ \A g \in routines : ~ Awake(g)
  BY <1>1, Working, NoneAwake
<1>3. CASE End(r)
  BY <1>1, <1>2, <1>3, FreshMove DEF End, IInv, Reqs
<1>4. CASE ~ Refused(o) /\ Continue(r, q)
  <2>1. q.pc = AfterLook(o) /\ q.rec = state[o.on] /\ q.order = o
    BY <1>2 DEF Request
  <2>2. q.pc = "draw" /\ o.on \in Suppliers => ~ q.rec.removed
    BY <1>4, <2>1 DEF Refused, AfterLook
  <2>3. ReadsNow(q, state)
    BY <2>1, <2>2 DEF ReadsNow
  <2> QED BY <1>1, <1>2, <1>4, <2>3, FreshMove DEF Continue, IInv, Reqs
<1> QED BY <1>3, <1>4 DEF Look

LEMMA FreshStays ==
    ASSUME Serial, IInv, Fresh, NEW r \in Requests, req[r] # Idle, NEW q,
           q = Idle \/ /\ q.rec = req[r].rec /\ q.order = req[r].order
                       /\ q.pc # "draw" /\ req[r].pc \notin {"look", "contact"},
           req' = [req EXCEPT ![r] = q], UNCHANGED <<store, routines>>
    PROVE  Fresh'
<1>1. (\A g \in routines : ~ Awake(g)) /\ ReadsNow(req[r], state)
  BY NoneAwake
<1>2. q = Idle \/ ReadsNow(q, state)
  BY <1>1 DEF ReadsNow
<1> QED BY <1>1, <1>2, FreshMove DEF IInv, Reqs

LEMMA FreshList ==
    ASSUME Serial, IInv, Fresh, NEW r \in Requests, List(r)
    PROVE  Fresh'
<1>1. req[r] # Idle /\ req[r].pc = "list" /\ UNCHANGED <<store, routines>>
  BY DEF List, At
<1>2. req[r] \in Request
  BY <1>1, Working
<1>3. CASE End(r)
  BY <1>1, <1>3, FreshStays DEF End
<1>4. ASSUME NEW a, NEW d, NEW pc \in {"save", "items"},
             Continue(r, [req[r] EXCEPT !.add = a, !.drop = d, !.pc = pc])
      PROVE  Fresh'
  <2> DEFINE q == [req[r] EXCEPT !.add = a, !.drop = d, !.pc = pc]
  <2>1. q.rec = req[r].rec /\ q.order = req[r].order /\ q.pc = pc
    BY <1>2 DEF Request
  <2> HIDE DEF q
  <2> QED BY <1>1, <1>4, <2>1, FreshStays DEF Continue, q
<1>5. ASSUME NEW w, Continue(r, [req[r] EXCEPT !.row = w, !.pc = "put"])
      PROVE  Fresh'
  <2> DEFINE q == [req[r] EXCEPT !.row = w, !.pc = "put"]
  <2>1. q.rec = req[r].rec /\ q.order = req[r].order /\ q.pc = "put"
    BY <1>2 DEF Request
  <2> HIDE DEF q
  <2> QED BY <1>1, <1>5, <2>1, FreshStays DEF Continue, q
<1> QED BY <1>3, <1>4, <1>5 DEF List

LEMMA FreshItemCall ==
    ASSUME Serial, IInv, Fresh, NEW r \in Requests, ItemCall(r)
    PROVE  Fresh'
<1>1. req[r] # Idle /\ req[r].pc = "items" /\ UNCHANGED <<store, routines>>
  BY DEF ItemCall, At
<1>2. req[r] \in Request
  BY <1>1, Working
<1>3. PICK i \in (IF req[r].add # {} THEN req[r].add ELSE req[r].drop) :
          LET q == [req[r] EXCEPT !.add = @ \ {i}, !.drop = @ \ {i}]
          IN  End(r) \/ Continue(r, q) \/ Continue(r, [q EXCEPT !.pc = "save"])
  BY DEF ItemCall
<1> DEFINE q == [req[r] EXCEPT !.add = @ \ {i}, !.drop = @ \ {i}]
<1>4. /\ q.rec = req[r].rec /\ q.order = req[r].order /\ q.pc = "items"
      /\ [q EXCEPT !.pc = "save"].rec = req[r].rec
      /\ [q EXCEPT !.pc = "save"].order = req[r].order
      /\ [q EXCEPT !.pc = "save"].pc = "save"
  BY <1>1, <1>2 DEF Request
<1> HIDE DEF q
<1> QED BY <1>1, <1>3, <1>4, FreshStays DEF Continue, End, q

LEMMA FreshSaves ==
    ASSUME Serial, IInv, Fresh, NEW r \in Requests, Save(r)
    PROVE  Fresh'
<1>1. req[r] # Idle /\ End(r) /\ routines' = routines
  BY DEF Save, At
<1>2. PICK ok \in Saves : Put(On(r), Ordered(req[r].order, req[r].rec), ok)
  BY DEF Save
<1>3. On(r) \in Parties /\ \A g \in routines : ~ Awake(g)
  BY <1>1, Working, NoneAwake
<1>4. \A g \in routines : g.code # NoCode
  BY RoutineCodes
<1> DEFINE new == [code |-> NoCode, pc |-> "sleep"]
<1>5. ~ Awake(new) /\ new.code = NoCode
  BY DEF Awake
<1> HIDE DEF new
<1> QED BY <1>1, <1>2, <1>3, <1>4, <1>5, FreshSave DEF End, IInv, Reqs, Records

LEMMA FreshDraw ==
    ASSUME Serial, IInv, Fresh, NEW r \in Requests, Draw(r)
    PROVE  Fresh'
<1> DEFINE s == On(r)
           c == Len(issued) + 1
           rec == Coded(s, c, req[r].rec)
           q == [req[r] EXCEPT !.pc = "push", !.rec = rec]
           new == [code |-> c, on |-> s, due |-> rec.due, pc |-> "sleep", rec |-> NewParty]
<1>1. req[r] # Idle /\ On(r) \in Parties /\ req[r] \in Request
  BY Working DEF Draw, At
<1>2. \A g \in routines : ~ Awake(g)
  BY <1>1, NoneAwake
<1>3. CASE End(r) /\ UNCHANGED <<store, routines>>
  BY <1>1, <1>3, FreshStays DEF End
<1>4. ASSUME NEW ok \in Saves, Put(s, rec, ok),
             routines' = IF ok /\ IsSupplier(r) THEN routines \cup Scheduled(s, c, rec)
                         ELSE routines,
             IF ok /\ ~ IsSupplier(r) THEN Continue(r, q) ELSE End(r)
      PROVE  Fresh'
  <2>1. ~ Awake(new) /\ new.code = c
    BY DEF Awake
  <2>2. \A g \in routines : g.code # new.code
    <3>1. Len(issued) \in Nat
      BY LenProperties DEF IInv, Others, IssuedOK
    <3> QED BY <2>1, <3>1, RoutineCodes
  <2>3. routines' \in {routines, routines \cup {new}}
    BY <1>4 DEF Scheduled
  <2>4. q.rec = rec /\ q.pc = "push" /\ q.order = req[r].order
    BY <1>1 DEF Request
  <2>5. state'[s] = rec
    BY <1>1, <1>4 DEF Put, IInv, Records
  <2>6. ReadsNow(q, state')
    BY <2>4, <2>5 DEF ReadsNow, On
  <2> HIDE DEF q, new, rec, s, c
  <2>7. \E x : (x = Idle \/ ReadsNow(x, state')) /\ req' = [req EXCEPT ![r] = x]
    BY <1>4, <2>6 DEF Continue, End
  <2> QED BY <1>1, <1>2, <1>4, <2>1, <2>2, <2>3, <2>7, FreshSave DEF IInv, Reqs, Records, s
<1> HIDE DEF q, rec, c, new
<1> QED BY <1>3, <1>4 DEF Draw, q, rec, c

\* The steps that only end a request.
LEMMA FreshEnd ==
    ASSUME Serial, IInv, Fresh, NEW r \in Requests, Contact(r) \/ PutRow(r) \/ Push(r)
    PROVE  Fresh'
<1>1. req[r] # Idle /\ End(r) /\ UNCHANGED <<store, routines>>
  BY DEF Contact, PutRow, Push, At
<1> QED BY <1>1, FreshStays DEF End

\* A goroutine moves on, with its code; the record in the store is as it is.
LEMMA FreshRoutine ==
    ASSUME Fresh, Resting, NEW g \in routines, NEW h, h.code = g.code, WakesNow(h, state),
           routines' = (routines \ {g}) \cup {h} \/ routines' = routines \ {g},
           UNCHANGED <<store, req>>
    PROVE  Fresh'
<1>1. \A a, b \in routines' : a.code = b.code => a = b
  BY DEF Fresh
<1>2. \A a \in routines' : WakesNow(a, state')
  BY DEF Fresh, store
<1> QED BY <1>1, <1>2 DEF Fresh, Resting, store, ReadsNow

LEMMA FreshWake ==
    ASSUME Serial, IInv, Fresh, NEW g \in routines, Wake(g)
    PROVE  Fresh'
<1> DEFINE h == [g EXCEPT !.pc = "put", !.rec = state[g.on]]
<1>1. g \in Routine
  BY DEF IInv, Routines, RoutineOK
<1>2. /\ Resting /\ UNCHANGED <<store, req>>
      /\ (Current(g) /\ routines' = (routines \ {g}) \cup {h}) \/ routines' = routines \ {g}
  BY DEF Wake, Serial, Resting, Move, Finish
<1>3. h.code = g.code /\ h.rec = state[g.on] /\ h.on = g.on
  BY <1>1 DEF Routine
<1>4. CASE Current(g) /\ routines' = (routines \ {g}) \cup {h}
  <2>1. WakesNow(h, state)
    BY <1>3, <1>4 DEF WakesNow, Current
  <2> QED BY <1>2, <1>3, <1>4, <2>1, FreshRoutine
<1>5. CASE routines' = routines \ {g}
  <2>1. WakesNow(g, state)
    BY DEF Fresh
  <2> QED BY <1>2, <1>5, <2>1, FreshRoutine
<1> QED BY <1>2, <1>4, <1>5

\* A goroutine at its calls finds nobody at work.
LEMMA AwakeAlone ==
    ASSUME Fresh, NEW g \in routines, Awake(g)
    PROVE  Resting /\ WakesNow(g, state)
BY DEF Fresh

LEMMA FreshPersist ==
    ASSUME IInv, Fresh, NEW g \in routines, Persist(g)
    PROVE  Fresh'
<1> DEFINE h == [g EXCEPT !.pc = "clear", !.rec = g.rec]
<1>1. g \in Routine /\ Awake(g) /\ UNCHANGED <<store, req>>
  BY DEF IInv, Routines, RoutineOK, Persist, Awake
<1>2. routines' = (routines \ {g}) \cup {h} \/ routines' = routines \ {g}
  BY DEF Persist, Move, Finish
<1>3. h.code = g.code /\ h.rec = g.rec /\ h.on = g.on
  BY <1>1 DEF Routine
<1>4. Resting /\ WakesNow(g, state)
  BY <1>1, AwakeAlone
<1>5. WakesNow(h, state)
  BY <1>1, <1>3, <1>4 DEF WakesNow
<1> HIDE DEF h
<1> QED BY <1>1, <1>2, <1>3, <1>4, <1>5, FreshRoutine

LEMMA FreshClear ==
    ASSUME IInv, Fresh, NEW g \in routines, Clear(g)
    PROVE  Fresh'
<1>1. g.on \in Parties /\ state \in [Parties -> Sound] /\ Awake(g)
  BY RoutineCodes DEF IInv, Records, Parties, Clear, Awake
<1>2. Resting /\ WakesNow(g, state)
  BY <1>1, AwakeAlone
<1>3. /\ routines' = routines \ {g} /\ req' = req
      /\ \A s \in Parties : s # g.on => state'[s] = state[s]
      /\ ~ SavesFail => file' = state'
  BY <1>1 DEF Clear, Finish, Put, Saves
<1>4. ASSUME NEW a \in routines, a # g, Awake(a)
      PROVE  WakesNow(a, state')
  <2>1. WakesNow(a, state) /\ a.code # g.code
    BY <1>4 DEF Fresh
  <2>2. a.on # g.on
    BY <1>1, <1>2, <1>4, <2>1 DEF WakesNow
  <2>3. a.on \in Parties
    BY RoutineCodes DEF Parties
  <2> QED BY <1>3, <2>1, <2>2, <2>3 DEF WakesNow
<1>5. \A a \in routines' : WakesNow(a, state')
  BY <1>3, <1>4 DEF WakesNow
<1>6. \A a, b \in routines' : a.code = b.code => a = b
  BY <1>3 DEF Fresh
<1> QED BY <1>2, <1>3, <1>5, <1>6 DEF Fresh, Resting

LEMMA FreshRestart ==
    ASSUME Serial, IInv, Fresh, Restart
    PROVE  Fresh' /\ state' = state
<1>1. restarts \in Nat /\ MaxRestarts # 0
  BY AdminAssumption DEF IInv, Others, Restart
<1>2. state' = file /\ file' = file /\ file = state
  BY <1>1 DEF Serial, Fresh, Restart
<1>3. routines' = {} /\ \A r \in Requests : req'[r] = Idle
  BY DEF Restart
<1> QED BY <1>2, <1>3 DEF Fresh, Resting

LEMMA FreshIdle ==
    ASSUME Fresh, UNCHANGED <<store, req, routines>>
    PROVE  Fresh'
BY DEF Fresh, Resting, store, ReadsNow, WakesNow

LEMMA FreshInit == Init => Fresh
BY DEF Init, Fresh, Resting

LEMMA FreshNext == Serial /\ IInv /\ Fresh /\ [Next]_vars => Fresh'
<1> SUFFICES ASSUME Serial, IInv, Fresh, [Next]_vars PROVE Fresh'
  OBVIOUS
<1>1. ASSUME NEW r \in Requests, Step(r) PROVE Fresh'
  BY <1>1, FreshLook, FreshSaves, FreshEnd, FreshList, FreshItemCall, FreshDraw DEF Step
<1>2. ASSUME NEW r \in Requests, NEW o \in Orders, Find(r, o) PROVE Fresh'
  BY <1>2, FreshFind
<1>3. ASSUME NEW g \in routines, Work(g) PROVE Fresh'
  BY <1>3, FreshWake, FreshPersist, FreshClear DEF Work
<1>4. CASE Tick \/ UNCHANGED vars
  BY <1>4, FreshIdle DEF Tick, vars, store
<1> QED BY <1>1, <1>2, <1>3, <1>4, FreshRestart DEF Next

LEMMA SerialInvariance == ASSUME Serial PROVE Spec => [](IInv /\ Fresh)
<1>1. IInv /\ Fresh /\ [Next]_vars => Fresh'
  BY FreshNext
<1> QED BY <1>1, FreshInit, AdminInvariance, PTL DEF Spec

-----------------------------------------------------------------------------
(* What a step does to the records *)

\* An order is carried out on the record of s as it is.
Carried(s, o) ==
    /\ o \in Order /\ Saveable(o, state[s])
    /\ state' = [state EXCEPT ![s] = Ordered(o, state[s])]
    /\ UNCHANGED <<issued, clock>>

\* A code is given to s by the counter as it is.
Given(s) ==
    LET c == Len(issued) + 1 IN
    /\ c <= MaxCodes /\ ~ Locked(state[s])
    /\ s \in Suppliers => ~ state[s].removed
    /\ state' = [state EXCEPT ![s] = Coded(s, c, state[s])]
    /\ issued' = Append(issued, [to |-> s, at |-> clock])
    /\ UNCHANGED clock

\* Nothing is pending any more for s.
Cleared(s) ==
    /\ state' = [state EXCEPT ![s] = [state[s] EXCEPT !.pending = NoCode, !.due = 0]]
    /\ UNCHANGED <<issued, clock>>

Untouched == UNCHANGED <<state, issued>> /\ clock' \in {clock, clock + 1}

RecordStep ==
    \/ Untouched
    \/ \E s \in Parties : Given(s) \/ Cleared(s) \/ \E o \in Order : Carried(s, o)

LEMMA RecordSteps == Serial /\ IInv /\ Fresh /\ [Next]_vars => RecordStep
<1> SUFFICES ASSUME Serial, IInv, Fresh, [Next]_vars PROVE RecordStep
  OBVIOUS
<1>1. ASSUME NEW r \in Requests, Save(r)
      PROVE  RecordStep
  <2>1. req[r] # Idle /\ req[r].pc = "save" /\ UNCHANGED <<issued, clock>>
    BY <1>1 DEF Save, At, time
  <2>2. /\ req[r].order \in Order /\ On(r) \in Parties /\ req[r].rec = state[On(r)]
        /\ Saveable(req[r].order, req[r].rec)
    BY <2>1, Working, NoneAwake DEF ReadsNow, On, ReqOK
  <2>3. state' = [state EXCEPT ![On(r)] = Ordered(req[r].order, req[r].rec)]
    BY <1>1 DEF Save, Put
  <2> QED BY <2>1, <2>2, <2>3 DEF RecordStep, Carried
<1>2. ASSUME NEW r \in Requests, Draw(r)
      PROVE  RecordStep
  <2>1. req[r] # Idle /\ req[r].pc = "draw" /\ clock' = clock
    BY <1>2 DEF Draw, At, time
  <2>2. /\ On(r) \in Parties /\ req[r].rec = state[On(r)]
        /\ On(r) \in Suppliers => ~ state[On(r)].removed
    BY <2>1, Working, NoneAwake DEF ReadsNow, On
  <2>3. CASE UNCHANGED <<store, issued>>
    BY <2>1, <2>3 DEF RecordStep, Untouched, store
  <2>4. CASE ~ UNCHANGED <<store, issued>>
    BY <1>2, <2>1, <2>2, <2>4 DEF Draw, RecordStep, Given, Put
  <2> QED BY <2>3, <2>4
<1>3. ASSUME NEW g \in routines, Clear(g)
      PROVE  RecordStep
  <2>1. g.on \in Parties /\ g.rec = state[g.on]
    BY <1>3, AwakeAlone, RoutineCodes DEF Clear, Awake, WakesNow, Parties
  <2>2. UNCHANGED <<issued, clock>>
    BY <1>3 DEF Clear, history, time
  <2> QED BY <1>3, <2>1, <2>2 DEF Clear, Put, RecordStep, Cleared
<1>4. CASE Restart
  BY <1>4, FreshRestart DEF Restart, RecordStep, Untouched, history
<1>5. CASE Tick \/ UNCHANGED vars
  BY <1>5 DEF Tick, vars, store, history, RecordStep, Untouched
<1>6. ASSUME NEW r \in Requests,
             \/ Look(r) \/ Contact(r) \/ List(r) \/ ItemCall(r) \/ PutRow(r) \/ Push(r)
             \/ \E o \in Orders : Find(r, o)
      PROVE  RecordStep
  BY <1>6 DEF Look, Contact, List, ItemCall, PutRow, Push, Find, store, history, time,
              RecordStep, Untouched
<1>7. ASSUME NEW g \in routines, Wake(g) \/ Persist(g)
      PROVE  RecordStep
  BY <1>7 DEF Wake, Persist, store, history, time, RecordStep, Untouched
<1> QED BY <1>1, <1>2, <1>3, <1>4, <1>5, <1>6, <1>7 DEF Next, Step, Work

-----------------------------------------------------------------------------
(* The ledger *)

LEMMA LedgerNext ==
    ASSUME IInv, RecordStep
    PROVE  [Ledger!Next]_Ledger!ledgerVars
<1> DEFINE entry == [s \in Parties |-> [code |-> state[s].code, blocked |-> state[s].blocked,
                                        removed |-> state[s].removed]]
<1>1. state \in [Parties -> Sound] /\ state \in [Parties -> Record]
  BY SoundIsRecord DEF IInv, Records
<1>2. ASSUME NEW s \in Parties, NEW rec, state' = [state EXCEPT ![s] = rec]
      PROVE  entry' = [entry EXCEPT ![s] = [code |-> rec.code, blocked |-> rec.blocked,
                                            removed |-> rec.removed]]
  BY <1>1, <1>2
<1>8. ASSUME NEW s \in Parties
      PROVE  /\ entry[s].code = state[s].code /\ entry[s].blocked = state[s].blocked
             /\ entry[s].removed = state[s].removed
  OBVIOUS
<1>9. ASSUME NEW s \in Parties, NEW rec, state' = [state EXCEPT ![s] = rec],
             NEW c, NEW b, NEW d, rec.code = c, rec.blocked = b, rec.removed = d
      PROVE  Ledger!Stands(s, c, b, d)
  <2>1. entry' = [entry EXCEPT ![s] = [code |-> rec.code, blocked |-> rec.blocked,
                                       removed |-> rec.removed]]
    BY <1>2, <1>9
  <2> HIDE DEF entry
  <2>2. entry' = [entry EXCEPT ![s] = [code |-> c, blocked |-> b, removed |-> d]]
    BY <1>9, <2>1, Zenon
  <2> QED BY <2>2 DEF Ledger!Stands, entry
<1>3. CASE Untouched
  BY <1>3 DEF Untouched, Ledger!ledgerVars
<1>4. ASSUME NEW s \in Parties, Cleared(s)
      PROVE  entry' = entry /\ issued' = issued
  <2> DEFINE rec == [state[s] EXCEPT !.pending = NoCode, !.due = 0]
  <2>1. /\ rec.code = state[s].code /\ rec.blocked = state[s].blocked
        /\ rec.removed = state[s].removed
    BY <1>1 DEF Record
  <2>2. state' = [state EXCEPT ![s] = rec] /\ issued' = issued
    BY <1>4 DEF Cleared
  <2> HIDE DEF rec
  <2> QED BY <1>2, <2>1, <2>2
<1>5. ASSUME NEW s \in Parties, NEW o \in Order, Carried(s, o)
      PROVE  \/ entry' = entry /\ issued' = issued
             \/ Ledger!Remove(s) \/ Ledger!Restore(s)
             \/ \E b \in BOOLEAN : Ledger!Block(s, b)
  <2> DEFINE rec == Ordered(o, state[s])
  <2>1. state' = [state EXCEPT ![s] = rec] /\ issued' = issued /\ Saveable(o, state[s])
    BY <1>5 DEF Carried
  <2>2. state[s] \in Record
    BY <1>1
  <2>3. CASE o.op \in ItemOps
    <3>1. /\ rec.code = state[s].code /\ rec.blocked = state[s].blocked
          /\ rec.removed = state[s].removed
      BY <2>2, <2>3 DEF Ordered, Record, ItemOps
    <3> HIDE DEF rec
    <3> QED BY <1>2, <2>1, <3>1
  <2>4. CASE o.op \notin ItemOps
    <3>1. rec.code = state[s].code
      BY <2>2, <2>4 DEF Ordered, Status, Record, ItemOps
    <3>2. /\ rec.blocked = (o.op \in {"block", "remove"})
          /\ rec.removed = (IF o.op \in {"remove", "restore"} THEN o.op = "remove"
                            ELSE state[s].removed)
      BY <2>2, <2>4 DEF Ordered, Status, Record, ItemOps
    <3>3. ASSUME NEW x, NEW y, rec.blocked = x, rec.removed = y
          PROVE  Ledger!Stands(s, entry[s].code, x, y) /\ issued' = issued
      BY <1>8, <1>9, <2>1, <3>1, <3>3
    <3>4. CASE o.op = "remove"
      <4>1. rec.blocked = TRUE /\ rec.removed = TRUE
        BY <3>2, <3>4
      <4> QED BY <3>3, <4>1 DEF Ledger!Remove
    <3>5. CASE o.op = "restore"
      <4>1. rec.blocked = FALSE /\ rec.removed = FALSE
        <5>1. o.op \notin {"block", "remove"} /\ o.op # "remove"
          BY <3>5
        <5>2. (o.op \in {"block", "remove"}) = FALSE
          BY <5>1
        <5>4. rec.blocked = FALSE
          BY <3>2, <5>2
        <5>3. rec.removed = FALSE
          BY <3>2, <3>5, <5>1, Zenon
        <5> QED BY <5>3, <5>4
      <4> QED BY <3>3, <4>1 DEF Ledger!Restore
    <3>6. CASE o.op \in {"block", "unblock"}
      <4>1. state[s].removed = FALSE
        BY <2>1, <2>2, <3>6 DEF Saveable, Record
      <4>2. rec.removed = FALSE /\ rec.blocked \in BOOLEAN
        BY <3>2, <3>6, <4>1
      <4>3. Ledger!Block(s, rec.blocked)
        BY <1>8, <3>3, <4>1, <4>2 DEF Ledger!Block
      <4> QED BY <4>2, <4>3
    <3> QED BY <2>1, <2>4, <3>4, <3>5, <3>6 DEF Saveable
  <2> QED BY <2>3, <2>4
<1>6. ASSUME NEW s \in Parties, Given(s)
      PROVE  \E c \in 1..MaxCodes : Ledger!Issue(s, c)
  <2> DEFINE c == Len(issued) + 1
             rec == Coded(s, c, state[s])
  <2>1. /\ c <= MaxCodes /\ ~ Locked(state[s]) /\ state' = [state EXCEPT ![s] = rec]
        /\ issued' = Append(issued, [to |-> s, at |-> clock])
        /\ s \in Suppliers => ~ state[s].removed
    BY <1>6 DEF Given
  <2>2. /\ Len(issued) \in Nat /\ DOMAIN issued = 1..Len(issued)
        /\ DOMAIN issued' = 1..(Len(issued) + 1)
    <3>1. issued \in Seq([to : Parties, at : Nat]) /\ clock \in Nat
      BY AdminAssumption DEF IInv, Others, IssuedOK
    <3>2. [to |-> s, at |-> clock] \in [to : Parties, at : Nat]
      BY <3>1
    <3> QED BY <2>1, <3>1, <3>2, AppendProperties, LenProperties
  <2>3. c \in 1..MaxCodes /\ c \notin DOMAIN issued /\ DOMAIN issued' = DOMAIN issued \cup {c}
    BY <2>1, <2>2, AdminAssumption
  <2>4. rec.code = c /\ rec.blocked = state[s].blocked /\ rec.removed = state[s].removed
    BY <1>1 DEF Coded, Counted, Record
  <2> HIDE DEF c, rec
  <2>5. PICK k \in 1..MaxCodes : k = c
    BY <2>3
  <2>6. PICK x, y : x = entry[s].blocked /\ y = entry[s].removed
    OBVIOUS
  <2>7. Ledger!Stands(s, k, x, y)
    BY <1>8, <1>9, <2>1, <2>4, <2>5, <2>6
  <2>8. entry' = [entry EXCEPT ![s] = [code |-> k, blocked |-> entry[s].blocked,
                                       removed |-> entry[s].removed]]
    BY <2>6, <2>7 DEF Ledger!Stands
  <2>9. k \notin DOMAIN issued /\ DOMAIN issued' = DOMAIN issued \cup {k}
    BY <2>3, <2>5
  <2>10. s \in Suppliers => ~ entry[s].removed
    BY <1>8, <2>1
  <2> HIDE DEF entry
  <2>11. Ledger!Issue(s, k)
    BY <2>8, <2>9, <2>10 DEF Ledger!Issue, Ledger!Stands, entry
  <2> QED BY <2>5, <2>11
<1> QED BY <1>3, <1>4, <1>5, <1>6
        DEF RecordStep, Ledger!Next, Ledger!ledgerVars, Ledger!Parties, Parties

\* The records of one admin's requests are AdminLedger: each step issues a code to a
\* party that is not removed, changes its standing by one order, or changes nothing
\* there, though calls fail and goroutines write whole records back.
THEOREM RecordsImplementLedger == ASSUME Serial PROVE Spec => LedgerSpec
<1>1. Init => Ledger!Init
  <2>1. DOMAIN << >> = {}
    OBVIOUS
  <2>2. /\ NewParty.code = NoCode /\ NewParty.blocked = FALSE
        /\ NewParty.removed = FALSE
    BY DEF NewParty
  <2> QED BY <2>1, <2>2 DEF Init, Ledger!Init, Ledger!Parties, Parties
<1>2. IInv /\ Fresh /\ [Next]_vars => [Ledger!Next]_Ledger!ledgerVars
  BY RecordSteps, LedgerNext
<1> QED BY <1>1, <1>2, SerialInvariance, PTL DEF Spec, LedgerSpec, Ledger!Spec

-----------------------------------------------------------------------------
(* The counter of regenerations                                            *)

\* The codes drawn for s from a on, and from a to b.
Since(s, a, iss) == {c \in DOMAIN iss : iss[c].to = s /\ iss[c].at >= a}
Between(s, a, b, iss) == {c \in DOMAIN iss : iss[c].to = s /\ iss[c].at \in a..b}

Past(iss, t) == \A c \in DOMAIN iss : iss[c].at <= t

\* What the counter in the record of s says of the codes drawn for s.  Its window was
\* started by a code and has all later ones, and less than a window of time before
\* it fewer codes were drawn than it allows.
Counts(s, rec, iss) ==
    IF rec.count = 0
    THEN Since(s, 0, iss) = {}
    ELSE /\ Cardinality(Since(s, rec.start, iss)) <= rec.count
         /\ \E c \in Since(s, 0, iss) : iss[c].at = rec.start
         /\ \A c \in Since(s, 0, iss) : iss[c].at < rec.start + Window
         /\ \A u \in Nat : u > rec.start - Window =>
                Cardinality(Between(s, u, rec.start - 1, iss)) < MaxRegens

Limited(s, iss) ==
    \A u \in Nat : Cardinality(Between(s, u, u + Window - 1, iss)) < 2 * MaxRegens

Counters ==
    /\ Past(issued, clock)
    /\ \A s \in Parties : Counts(s, state[s], issued) /\ Limited(s, issued)

\* Codes are finitely many, however they are chosen.
LEMMA FewCodes ==
    ASSUME NEW iss, IssuedOK(iss), NEW P, P \subseteq DOMAIN iss
    PROVE  IsFiniteSet(P) /\ Cardinality(P) \in Nat
<1>1. DOMAIN iss = 1..Len(iss) /\ Len(iss) \in Nat
  BY LenProperties DEF IssuedOK
<1>2. IsFiniteSet(DOMAIN iss)
  BY <1>1, FS_Interval
<1> QED BY <1>2, FS_Subset, FS_CardinalityType

LEMMA OneMore ==
    ASSUME NEW Q, IsFiniteSet(Q), NEW x, NEW P, P \subseteq Q \cup {x}
    PROVE  Cardinality(P) <= Cardinality(Q) + 1
<1>1. IsFiniteSet(Q \cup {x}) /\ Cardinality(Q \cup {x}) <= Cardinality(Q) + 1
  <2>1. Cardinality(Q) \in Nat
    BY FS_CardinalityType
  <2> QED BY <2>1, FS_AddElement
<1>2. Cardinality(P) <= Cardinality(Q \cup {x}) /\ IsFiniteSet(P)
  BY <1>1, FS_Subset
<1> QED BY <1>1, <1>2, FS_CardinalityType

LEMMA OneLess ==
    ASSUME NEW Q, IsFiniteSet(Q), NEW x \in Q, NEW P, P \subseteq Q \ {x}
    PROVE  Cardinality(P) < Cardinality(Q)
<1>1. IsFiniteSet(P) /\ Cardinality(P) <= Cardinality(Q) /\ Cardinality(P) # Cardinality(Q)
  BY FS_Subset
<1> QED BY <1>1, FS_CardinalityType

LEMMA Together ==
    ASSUME NEW Q, IsFiniteSet(Q), NEW R, IsFiniteSet(R), NEW P, P \subseteq Q \cup R
    PROVE  Cardinality(P) <= Cardinality(Q) + Cardinality(R)
<1>1. /\ IsFiniteSet(Q \cup R) /\ IsFiniteSet(Q \cap R)
      /\ Cardinality(Q \cup R) = Cardinality(Q) + Cardinality(R) - Cardinality(Q \cap R)
  BY FS_Union, FS_Subset
<1>2. Cardinality(P) <= Cardinality(Q \cup R) /\ IsFiniteSet(P)
  BY <1>1, FS_Subset
<1>3. /\ Cardinality(P) \in Nat /\ Cardinality(Q) \in Nat /\ Cardinality(R) \in Nat
      /\ Cardinality(Q \cap R) \in Nat
  BY <1>1, <1>2, FS_CardinalityType
<1> QED BY <1>1, <1>2, <1>3

\* One more code is drawn, for s at time t.
Grows(iss, new, s, t) ==
    /\ \A c \in DOMAIN iss : iss[c].to \in Parties /\ iss[c].at \in Nat
    /\ DOMAIN new = DOMAIN iss \cup {Len(iss) + 1} /\ Len(iss) + 1 \notin DOMAIN iss
    /\ \A c \in DOMAIN iss : new[c] = iss[c]
    /\ new[Len(iss) + 1].to = s /\ new[Len(iss) + 1].at = t

LEMMA OneDrawn ==
    ASSUME NEW iss, IssuedOK(iss), NEW s \in Parties, NEW t \in Nat
    PROVE  Grows(iss, Append(iss, [to |-> s, at |-> t]), s, t)
<1> DEFINE d == [to |-> s, at |-> t]
           D == [to : Parties, at : Nat]
           new == Append(iss, d)
<1>1. iss \in Seq(D) /\ d \in D /\ d.to = s /\ d.at = t
  BY DEF IssuedOK
<1>2. \A x \in D : x.to \in Parties /\ x.at \in Nat
  OBVIOUS
<1> HIDE DEF d, D
<1>3. /\ Len(iss) \in Nat /\ iss \in [1..Len(iss) -> D] /\ DOMAIN iss = 1..Len(iss)
  BY <1>1, LenProperties
<1>4. /\ new \in Seq(D) /\ Len(new) = Len(iss) + 1
      /\ \A c \in 1..Len(iss) : new[c] = iss[c]
      /\ new[Len(iss) + 1] = d
  BY <1>1, AppendProperties
<1>5. DOMAIN new = 1..(Len(iss) + 1)
  BY <1>4, LenProperties
<1> HIDE DEF new
<1>6. Grows(iss, new, s, t)
  BY <1>1, <1>2, <1>3, <1>4, <1>5 DEF Grows
<1> QED BY <1>6 DEF new, d

\* What one more code changes of the codes from a on; for another party, nothing.
LEMMA CodesGrow ==
    ASSUME NEW iss, NEW new, NEW s \in Parties, NEW t \in Nat, Grows(iss, new, s, t)
    PROVE  /\ \A a \in Int : Since(s, a, new) \subseteq Since(s, a, iss) \cup {Len(iss) + 1}
           /\ \A p \in Parties : p # s =>
                /\ \A a : Since(p, a, new) = Since(p, a, iss)
                /\ \A a, b : Between(p, a, b, new) = Between(p, a, b, iss)
<1> DEFINE k == Len(iss) + 1
<1>1. /\ \A c \in DOMAIN iss : iss[c].to \in Parties /\ iss[c].at \in Nat
      /\ DOMAIN new = DOMAIN iss \cup {k} /\ k \notin DOMAIN iss
      /\ \A c \in DOMAIN iss : new[c] = iss[c]
      /\ new[k].to = s /\ new[k].at = t
  BY DEF Grows
<1> HIDE DEF k
<1>2. \A a \in Int : Since(s, a, new) \subseteq Since(s, a, iss) \cup {k}
  BY <1>1 DEF Since
<1>3. ASSUME NEW p \in Parties, p # s
      PROVE  /\ \A a : Since(p, a, new) = Since(p, a, iss)
             /\ \A a, b : Between(p, a, b, new) = Between(p, a, b, iss)
  <2>1. new[k].to # p
    BY <1>1, <1>3
  <2> QED BY <1>1, <2>1 DEF Since, Between
<1> QED BY <1>2, <1>3 DEF k

\* The counter's record after one more code, in a new window or in the same.
LEMMA CountedIs ==
    ASSUME NEW rec \in Sound, clock \in Nat, ~ Locked(rec)
    PROVE  IF rec.count = 0 \/ clock - rec.start >= Window
           THEN Counted(rec).start = clock /\ Counted(rec).count = 1
           ELSE /\ Counted(rec).start = rec.start /\ Counted(rec).count = rec.count + 1
                /\ rec.count < MaxRegens
<1> DEFINE r == IF rec.count = 0 \/ clock - rec.start >= Window
                THEN [rec EXCEPT !.start = clock, !.count = 1, !.until = 0]
                ELSE [rec EXCEPT !.count = @ + 1]
<1>1. rec \in Record /\ (rec.count < MaxRegens \/ clock - rec.start >= Window)
  BY AdminAssumption DEF Sound, Record, Locked
<1>2. IF rec.count = 0 \/ clock - rec.start >= Window
      THEN r.start = clock /\ r.count = 1
      ELSE r.start = rec.start /\ r.count = rec.count + 1
  BY <1>1 DEF Record
<1>3. DOMAIN r = DOMAIN rec
  BY <1>1 DEF Record
<1>4. Counted(rec) = IF r.count >= MaxRegens THEN [r EXCEPT !.until = r.start + Window] ELSE r
  BY DEF Counted
<1> HIDE DEF r
<1>5. Counted(rec).start = r.start /\ Counted(rec).count = r.count
  BY <1>1, <1>3, <1>4 DEF Record
<1> QED BY <1>1, <1>2, <1>5, AdminAssumption DEF Record

\* A code is drawn in a new window of the counter: less than a window of time before
\* now there are fewer than a full window's codes, for the one that started it is not
\* among them.
LEMMA FirstOfWindow ==
    ASSUME NEW iss, IssuedOK(iss), NEW new, IssuedOK(new), NEW s \in Parties,
           NEW t \in Nat, Grows(iss, new, s, t), Past(iss, t),
           NEW rec \in Record, Counts(s, rec, iss), Limited(s, iss),
           rec.count = 0 \/ t - rec.start >= Window,
           NEW r, r.start = t, r.count = 1
    PROVE  Counts(s, r, new) /\ Limited(s, new)
<1> DEFINE k == Len(iss) + 1
<1>1. /\ \A c \in DOMAIN iss : iss[c].to \in Parties /\ iss[c].at \in Nat /\ iss[c].at <= t
      /\ DOMAIN new = DOMAIN iss \cup {k} /\ k \notin DOMAIN iss
      /\ \A c \in DOMAIN iss : new[c] = iss[c]
      /\ new[k].to = s /\ new[k].at = t
  BY DEF Grows, Past
<1>2. /\ \A a \in Int : Since(s, a, new) \subseteq Since(s, a, iss) \cup {k}
      /\ \A a, b \in Int : t > b \/ t < a => Between(s, a, b, new) = Between(s, a, b, iss)
  <2>1. \A a \in Int : Since(s, a, new) \subseteq Since(s, a, iss) \cup {k}
    BY CodesGrow
  <2>2. ASSUME NEW a \in Int, NEW b \in Int, t > b \/ t < a
        PROVE  Between(s, a, b, new) = Between(s, a, b, iss)
    <3>1. new[k].at \notin a..b
      BY <1>1, <2>2
    <3> QED BY <1>1, <3>1 DEF Between
  <2> QED BY <2>1, <2>2
<1> HIDE DEF k
<1>3. Window \in Nat \ {0} /\ MaxRegens \in Nat \ {0} /\ rec.count \in 0..MaxRegens /\ rec.start \in Nat
  BY AdminAssumption DEF Record
<1>4. Since(s, t, iss) = {}
  BY <1>1, <1>3 DEF Counts, Since
<1>5. Cardinality(Since(s, t, new)) <= 1
  <2>1. IsFiniteSet({}) /\ Cardinality({}) = 0
    BY FS_EmptySet
  <2>2. Since(s, t, new) \subseteq {} \cup {k}
    BY <1>2, <1>4
  <2>3. Cardinality(Since(s, t, new)) <= 0 + 1
    BY <2>1, <2>2, OneMore
  <2> QED BY <2>3
<1>6. k \in Since(s, 0, new) /\ \A c \in Since(s, 0, new) : new[c].at < t + Window
  BY <1>1, <1>3 DEF Since
<1>7. ASSUME NEW u \in Nat, u > t - Window
      PROVE  Cardinality(Between(s, u, t - 1, new)) < MaxRegens
  <2> DEFINE B == Between(s, u, t - 1, new)
  <2>1. B = Between(s, u, t - 1, iss)
    BY <1>2
  <2>2. CASE rec.count = 0
    <3>1. B = {}
      BY <1>1, <2>1, <2>2 DEF Counts, Since, Between
    <3> QED BY <1>3, <3>1, FS_EmptySet
  <2>3. CASE rec.count # 0
    <3> DEFINE S == Since(s, rec.start, iss)
    <3>1. PICK c \in Since(s, 0, iss) : iss[c].at = rec.start
      BY <2>3 DEF Counts
    <3>2. c \in S /\ B \subseteq S \ {c}
      BY <1>1, <1>3, <1>7, <2>1, <2>3, <3>1 DEF Since, Between
    <3>3. IsFiniteSet(S) /\ Cardinality(S) \in Nat /\ S \subseteq DOMAIN iss
      BY FewCodes DEF Since
    <3>4. Cardinality(S) <= rec.count
      BY <2>3 DEF Counts
    <3>5. B \subseteq DOMAIN iss
      BY <2>1 DEF Between
    <3>6. Cardinality(B) \in Nat
      BY <3>5, FewCodes
    <3> HIDE DEF B, S
    <3>7. Cardinality(B) < Cardinality(S)
      BY <3>2, <3>3, OneLess
    <3> QED BY <1>3, <3>3, <3>4, <3>6, <3>7 DEF B
  <2> QED BY <2>2, <2>3
<1>8. ASSUME NEW u \in Nat
      PROVE  Cardinality(Between(s, u, u + Window - 1, new)) < 2 * MaxRegens
  <2> DEFINE B == Between(s, u, u + Window - 1, new)
             A == Between(s, u, t - 1, new)
  <2>1. CASE t < u \/ t > u + Window - 1
    <3>1. B = Between(s, u, u + Window - 1, iss)
      BY <1>2, <1>3, <2>1
    <3> QED BY <3>1 DEF Limited
  <2>2. CASE ~ (t < u \/ t > u + Window - 1)
    <3>1. Cardinality(A) < MaxRegens
      BY <1>3, <1>7, <2>2
    <3>2. B \subseteq A \cup {k}
      <4> SUFFICES ASSUME NEW c \in B, c # k PROVE c \in A
        OBVIOUS
      <4>1. c \in DOMAIN iss /\ new[c] = iss[c] /\ iss[c].to = s /\ iss[c].at >= u
        BY <1>1, <1>3 DEF Between
      <4>2. iss[c].at <= t - 1
        BY <1>1, <1>4, <4>1 DEF Since
      <4> QED BY <1>1, <4>1, <4>2 DEF Between
    <3>3. A \subseteq DOMAIN new /\ B \subseteq DOMAIN new
      BY DEF Between
    <3>4. IsFiniteSet(A) /\ Cardinality(A) \in Nat /\ Cardinality(B) \in Nat
      BY <3>3, FewCodes
    <3> HIDE DEF A, B
    <3>5. Cardinality(B) <= Cardinality(A) + 1
      BY <3>2, <3>4, OneMore
    <3> QED BY <1>3, <3>1, <3>4, <3>5 DEF B
  <2> QED BY <2>1, <2>2
<1>9. Counts(s, r, new)
  <2>1. Cardinality(Since(s, r.start, new)) <= r.count /\ r.count # 0
    BY <1>5
  <2>2. \E c \in Since(s, 0, new) : new[c].at = r.start
    BY <1>1, <1>6
  <2>3. \A c \in Since(s, 0, new) : new[c].at < r.start + Window
    BY <1>6
  <2> QED BY <1>7, <2>1, <2>2, <2>3 DEF Counts
<1> QED BY <1>8, <1>9 DEF Limited

\* Another code is drawn in the same window: it has them all from its start on, and
\* before that there were fewer than a full window's.
LEMMA NextOfWindow ==
    ASSUME NEW iss, IssuedOK(iss), NEW new, IssuedOK(new), NEW s \in Parties,
           NEW t \in Nat, Grows(iss, new, s, t), Past(iss, t),
           NEW rec \in Record, Counts(s, rec, iss), Limited(s, iss),
           rec.count # 0, t - rec.start < Window, rec.count < MaxRegens,
           NEW r, r.start = rec.start, r.count = rec.count + 1
    PROVE  Counts(s, r, new) /\ Limited(s, new)
<1> DEFINE k == Len(iss) + 1
           S == Since(s, rec.start, new)
<1>1. /\ \A c \in DOMAIN iss : iss[c].to \in Parties /\ iss[c].at \in Nat /\ iss[c].at <= t
      /\ DOMAIN new = DOMAIN iss \cup {k} /\ k \notin DOMAIN iss
      /\ \A c \in DOMAIN iss : new[c] = iss[c]
      /\ new[k].to = s /\ new[k].at = t
  BY DEF Grows, Past
<1>2. /\ \A a \in Int : Since(s, a, new) \subseteq Since(s, a, iss) \cup {k}
      /\ \A a, b \in Int : t > b \/ t < a => Between(s, a, b, new) = Between(s, a, b, iss)
  <2>1. \A a \in Int : Since(s, a, new) \subseteq Since(s, a, iss) \cup {k}
    BY CodesGrow
  <2>2. ASSUME NEW a \in Int, NEW b \in Int, t > b \/ t < a
        PROVE  Between(s, a, b, new) = Between(s, a, b, iss)
    <3>1. new[k].at \notin a..b
      BY <1>1, <2>2
    <3> QED BY <1>1, <3>1 DEF Between
  <2> QED BY <2>1, <2>2
<1> HIDE DEF k
<1>3. Window \in Nat \ {0} /\ MaxRegens \in Nat \ {0} /\ rec.count \in 0..MaxRegens /\ rec.start \in Nat
  BY AdminAssumption DEF Record
<1>4. PICK o \in Since(s, 0, iss) : iss[o].at = rec.start
  BY DEF Counts
<1>5. o \in Since(s, 0, new) /\ new[o].at = rec.start /\ rec.start <= t
  BY <1>1, <1>4 DEF Since
<1>6. Cardinality(S) <= rec.count + 1 /\ IsFiniteSet(S) /\ Cardinality(S) \in Nat
  <2> DEFINE Q == Since(s, rec.start, iss)
  <2>1. Q \subseteq DOMAIN iss /\ S \subseteq DOMAIN new
    BY DEF Since
  <2>2. /\ IsFiniteSet(Q) /\ Cardinality(Q) \in Nat
        /\ IsFiniteSet(S) /\ Cardinality(S) \in Nat
    BY <2>1, FewCodes
  <2>3. Cardinality(Q) <= rec.count
    BY DEF Counts
  <2>4. S \subseteq Q \cup {k}
    BY <1>2, <1>3
  <2> HIDE DEF Q, S
  <2>5. Cardinality(S) <= Cardinality(Q) + 1
    BY <2>2, <2>4, OneMore
  <2> QED BY <1>3, <2>2, <2>3, <2>5
<1>7. \A c \in Since(s, 0, new) : new[c].at < rec.start + Window
  <2>1. \A c \in Since(s, 0, iss) : iss[c].at < rec.start + Window
    BY DEF Counts
  <2> QED BY <1>1, <1>3, <2>1 DEF Since
<1>8. ASSUME NEW u \in Nat, u > rec.start - Window
      PROVE  Cardinality(Between(s, u, rec.start - 1, new)) < MaxRegens
  <2>1. Between(s, u, rec.start - 1, new) = Between(s, u, rec.start - 1, iss)
    BY <1>2, <1>3, <1>5
  <2> QED BY <1>8, <2>1 DEF Counts
<1>9. ASSUME NEW u \in Nat
      PROVE  Cardinality(Between(s, u, u + Window - 1, new)) < 2 * MaxRegens
  <2> DEFINE B == Between(s, u, u + Window - 1, new)
             A == Between(s, u, rec.start - 1, new)
  <2>1. CASE t < u \/ t > u + Window - 1
    <3>1. B = Between(s, u, u + Window - 1, iss)
      BY <1>2, <1>3, <2>1
    <3> QED BY <3>1 DEF Limited
  <2>2. CASE ~ (t < u \/ t > u + Window - 1)
    <3>1. Cardinality(A) < MaxRegens
      BY <1>3, <1>5, <1>8, <2>2
    <3>2. B \subseteq A \cup S
      BY <1>1, <1>3 DEF Between, Since
    <3>3. A \subseteq DOMAIN new /\ B \subseteq DOMAIN new
      BY DEF Between
    <3>4. IsFiniteSet(A) /\ Cardinality(A) \in Nat /\ Cardinality(B) \in Nat
      BY <3>3, FewCodes
    <3> HIDE DEF A, B, S
    <3>5. Cardinality(B) <= Cardinality(A) + Cardinality(S)
      BY <1>6, <3>2, <3>4, Together
    <3> QED BY <1>3, <1>6, <3>1, <3>4, <3>5 DEF B
  <2> QED BY <2>1, <2>2
<1>10. Counts(s, r, new)
  <2>1. Cardinality(Since(s, r.start, new)) <= r.count /\ r.count # 0
    BY <1>3, <1>6
  <2>2. \E c \in Since(s, 0, new) : new[c].at = r.start
    BY <1>5
  <2> QED BY <1>7, <1>8, <2>1, <2>2 DEF Counts
<1> QED BY <1>9, <1>10 DEF Limited

\* The counter is read off three fields only.
LEMMA SameCounter ==
    ASSUME NEW s, NEW iss, NEW rec, NEW r, r.count = rec.count, r.start = rec.start,
           Counts(s, rec, iss)
    PROVE  Counts(s, r, iss)
BY DEF Counts

LEMMA CountersKept ==
    ASSUME IInv, IInv', Counters, NEW s \in Parties, NEW rec,
           state' = [state EXCEPT ![s] = rec], rec.count = state[s].count,
           rec.start = state[s].start, UNCHANGED <<issued, clock>>
    PROVE  Counters'
<1>1. state \in [Parties -> Sound]
  BY DEF IInv, Records
<1>2. ASSUME NEW p \in Parties PROVE Counts(p, state'[p], issued) /\ Limited(p, issued)
  <2>1. Counts(p, state[p], issued) /\ Limited(p, issued)
    BY DEF Counters
  <2>2. CASE p = s
    BY <1>1, <2>1, <2>2, SameCounter
  <2>3. CASE p # s
    BY <1>1, <2>1, <2>3
  <2> QED BY <2>2, <2>3
<1> QED BY <1>2 DEF Counters

LEMMA CountersGiven ==
    ASSUME IInv, IInv', Counters, NEW s \in Parties, Given(s)
    PROVE  Counters'
<1> DEFINE c == Len(issued) + 1
           rec == Coded(s, c, state[s])
<1>1. /\ state \in [Parties -> Sound] /\ clock \in Nat
      /\ IssuedOK(issued) /\ IssuedOK(issued')
  BY AdminAssumption DEF IInv, Records, Others
<1>2. /\ ~ Locked(state[s]) /\ state' = [state EXCEPT ![s] = rec]
      /\ issued' = Append(issued, [to |-> s, at |-> clock]) /\ clock' = clock
  BY DEF Given
<1>3. Grows(issued, issued', s, clock)
  <2>1. Grows(issued, Append(issued, [to |-> s, at |-> clock]), s, clock)
    BY <1>1, OneDrawn
  <2> QED BY <1>2, <2>1
<1>4. state[s] \in Sound /\ state[s] \in Record
  BY <1>1, SoundIsRecord
<1>5. rec.start = Counted(state[s]).start /\ rec.count = Counted(state[s]).count
  <2>1. Counted(state[s]) \in Record
    BY <1>1, <1>2, <1>4, CountedSound, SoundIsRecord
  <2> QED BY <2>1 DEF Coded, Record
<1> HIDE DEF c, rec
<1>6. Counts(s, state[s], issued) /\ Limited(s, issued) /\ Past(issued, clock)
  BY DEF Counters
<1>7. Counts(s, rec, issued') /\ Limited(s, issued')
  <2>1. CASE state[s].count = 0 \/ clock - state[s].start >= Window
    <3>1. rec.start = clock /\ rec.count = 1
      BY <1>1, <1>2, <1>4, <1>5, <2>1, CountedIs
    <3> QED BY <1>1, <1>3, <1>4, <1>6, <2>1, <3>1, FirstOfWindow
  <2>2. CASE ~ (state[s].count = 0 \/ clock - state[s].start >= Window)
    <3>1. rec.start = state[s].start /\ rec.count = state[s].count + 1
          /\ state[s].count < MaxRegens
      BY <1>1, <1>2, <1>4, <1>5, <2>2, CountedIs
    <3>2. clock - state[s].start < Window /\ state[s].count # 0
      BY <1>1, <1>4, <2>2, AdminAssumption DEF Record
    <3> QED BY <1>1, <1>3, <1>4, <1>6, <3>1, <3>2, NextOfWindow
  <2> QED BY <2>1, <2>2
<1>8. ASSUME NEW p \in Parties, p # s
      PROVE  Counts(p, state'[p], issued') /\ Limited(p, issued')
  <2>1. /\ \A a : Since(p, a, issued') = Since(p, a, issued)
        /\ \A a, b : Between(p, a, b, issued') = Between(p, a, b, issued)
    BY <1>1, <1>3, <1>8, CodesGrow
  <2>2. state'[p] = state[p]
    BY <1>1, <1>2, <1>8
  <2>3. Counts(p, state[p], issued) /\ Limited(p, issued)
    BY DEF Counters
  <2>4. \A x \in Since(p, 0, issued) : issued'[x] = issued[x]
    BY <1>3 DEF Grows, Since
  <2>5. Limited(p, issued')
    BY <2>1, <2>3 DEF Limited
  <2>6. Counts(p, state[p], issued')
    BY <2>1, <2>3, <2>4 DEF Counts
  <2> QED BY <2>2, <2>5, <2>6
<1>9. Past(issued', clock)
  BY <1>1, <1>3, <1>6 DEF Past, Grows
<1>10. state'[s] = rec
  BY <1>1, <1>2
<1> QED BY <1>2, <1>7, <1>8, <1>9, <1>10 DEF Counters

LEMMA CountersNext == IInv /\ IInv' /\ Counters /\ RecordStep => Counters'
<1> SUFFICES ASSUME IInv, IInv', Counters, RecordStep PROVE Counters'
  OBVIOUS
<1>1. state \in [Parties -> Record]
  BY SoundIsRecord DEF IInv, Records
<1>2. CASE Untouched
  <2>1. clock \in Nat /\ clock' \in Nat /\ clock' >= clock /\ issued' = issued /\ state' = state
    BY <1>2, AdminAssumption DEF IInv, Others, Untouched
  <2>2. issued \in [1..Len(issued) -> [to : Parties, at : Nat]]
    BY LenProperties DEF IInv, Others, IssuedOK
  <2>3. Past(issued, clock')
    BY <2>1, <2>2 DEF Counters, Past
  <2> QED BY <2>1, <2>3 DEF Counters
<1>3. ASSUME NEW s \in Parties, Cleared(s) PROVE Counters'
  <2> DEFINE rec == [state[s] EXCEPT !.pending = NoCode, !.due = 0]
  <2>1. rec.count = state[s].count /\ rec.start = state[s].start
    BY <1>1 DEF Record
  <2>2. state' = [state EXCEPT ![s] = rec] /\ UNCHANGED <<issued, clock>>
    BY <1>3 DEF Cleared
  <2> HIDE DEF rec
  <2> QED BY <2>1, <2>2, CountersKept
<1>4. ASSUME NEW s \in Parties, NEW o \in Order, Carried(s, o) PROVE Counters'
  <2> DEFINE rec == Ordered(o, state[s])
  <2>1. rec.count = state[s].count /\ rec.start = state[s].start
    BY <1>1 DEF Record, Ordered, Status
  <2>2. state' = [state EXCEPT ![s] = rec] /\ UNCHANGED <<issued, clock>>
    BY <1>4 DEF Carried
  <2> HIDE DEF rec
  <2> QED BY <2>1, <2>2, CountersKept
<1> QED BY <1>2, <1>3, <1>4, CountersGiven DEF RecordStep

\* Whenever the window of time is laid, a party is given fewer than twice the codes
\* that one window of the counter allows (bumpCodeRegenState).
THEOREM RegensAreLimited == ASSUME Serial PROVE Spec => []RegensLimited
<1>1. Init => Counters
  <2> SUFFICES ASSUME Init PROVE Counters
    OBVIOUS
  <2>1. issued = << >> /\ DOMAIN issued = {}
    BY DEF Init
  <2>2. \A s, a : Since(s, a, issued) = {}
    BY <2>1 DEF Since
  <2>3. \A s \in Parties : Limited(s, issued)
    <3> SUFFICES ASSUME NEW s \in Parties, NEW u \in Nat
                 PROVE  Cardinality(Between(s, u, u + Window - 1, issued)) < 2 * MaxRegens
      BY DEF Limited
    <3>1. Between(s, u, u + Window - 1, issued) = {}
      BY <2>1 DEF Between
    <3>2. Cardinality(Between(s, u, u + Window - 1, issued)) = 0
      BY <3>1, FS_EmptySet
    <3>3. MaxRegens \in Nat \ {0}
      BY AdminAssumption
    <3> QED BY <3>2, <3>3
  <2>4. \A s \in Parties : Counts(s, state[s], issued)
    BY <2>2 DEF Counts, Init, NewParty
  <2> QED BY <2>1, <2>3, <2>4 DEF Counters, Past
<1>2. IInv /\ Fresh /\ Counters /\ [Next]_vars => Counters'
  BY StepInvariant, RecordSteps, CountersNext
<1>3. Counters => RegensLimited
  BY AdminAssumption DEF Counters, Limited, Between, RegensLimited
<1> QED BY <1>1, <1>2, <1>3, SerialInvariance, PTL DEF Spec

-----------------------------------------------------------------------------
(* The line of the access code                                             *)

\* A party's code is the last one drawn for it, and only a supplier's code is ever
\* pending, if any that one.
LatestOf(s, rec, iss) ==
    /\ \A c \in DOMAIN iss : iss[c].to = s => c <= rec.code
    /\ rec.pending # NoCode => s \in Suppliers /\ rec.pending = rec.code

Latest == \A s \in Parties : LatestOf(s, state[s], issued)

\* ERPNext has the latest of the codes written for a party, and a request that will
\* write the details of a party back has read this line.
Written ==
    /\ persisted \subseteq DOMAIN issued
    /\ \A s \in Parties : \A c \in persisted : issued[c].to = s => c <= line[s]

ReadsLine(q) ==
    /\ q.order.op = "phone" => q.line = line[q.order.on]
    /\ q.pc = "contact" => q.order.op = "phone"

Phones == \A r \in Requests : req[r] # Idle => ReadsLine(req[r])

LEMMA LatestKept ==
    ASSUME IInv, Latest, NEW s \in Parties, NEW rec, state' = [state EXCEPT ![s] = rec],
           rec.code = state[s].code, rec.pending \in {NoCode, state[s].pending},
           UNCHANGED issued
    PROVE  Latest'
<1>1. state \in [Parties -> Sound]
  BY DEF IInv, Records
<1>2. LatestOf(s, rec, issued)
  BY DEF Latest, LatestOf
<1> QED BY <1>1, <1>2 DEF Latest

LEMMA LatestGiven ==
    ASSUME IInv, Latest, NEW s \in Parties, Given(s)
    PROVE  Latest'
<1> DEFINE c == Len(issued) + 1
           rec == Coded(s, c, state[s])
<1>1. /\ state \in [Parties -> Sound] /\ clock \in Nat /\ IssuedOK(issued)
      /\ Len(issued) \in Nat /\ DOMAIN issued = 1..Len(issued)
  BY AdminAssumption, LenProperties DEF IInv, Records, Others, IssuedOK
<1>2. /\ ~ Locked(state[s]) /\ state' = [state EXCEPT ![s] = rec]
      /\ issued' = Append(issued, [to |-> s, at |-> clock]) /\ clock' = clock
  BY DEF Given
<1>3. Grows(issued, issued', s, clock)
  <2>1. Grows(issued, Append(issued, [to |-> s, at |-> clock]), s, clock)
    BY <1>1, OneDrawn
  <2> QED BY <1>2, <2>1
<1>4. state[s] \in Sound /\ state[s] \in Record
  BY <1>1, SoundIsRecord
<1>5. /\ rec.code = c
      /\ rec.pending = IF s \in Customers THEN state[s].pending ELSE c
  <2>1. Counted(state[s]) \in Record
    BY <1>1, <1>2, <1>4, CountedSound, SoundIsRecord
  <2>2. Counted(state[s]).pending = state[s].pending
    BY <1>4 DEF Counted, Record
  <2> QED BY <2>1, <2>2 DEF Coded, Record
<1> HIDE DEF rec
<1>6. LatestOf(s, rec, issued')
  <2>1. \A d \in DOMAIN issued' : d <= c
    BY <1>1, <1>3 DEF Grows
  <2>2. s \in Customers => state[s].pending = NoCode
    BY AdminAssumption DEF Latest, LatestOf
  <2> QED BY <1>5, <2>1, <2>2, <1>3 DEF LatestOf, Parties
<1>7. ASSUME NEW p \in Parties, p # s
      PROVE  LatestOf(p, state'[p], issued')
  <2>1. state'[p] = state[p] /\ LatestOf(p, state[p], issued)
    BY <1>1, <1>2, <1>7 DEF Latest
  <2> QED BY <1>3, <1>7, <2>1 DEF LatestOf, Grows
<1>8. state'[s] = rec
  BY <1>1, <1>2
<1> QED BY <1>6, <1>7, <1>8 DEF Latest

LEMMA LatestNext == IInv /\ Latest /\ RecordStep => Latest'
<1> SUFFICES ASSUME IInv, Latest, RecordStep PROVE Latest'
  OBVIOUS
<1>1. state \in [Parties -> Record]
  BY SoundIsRecord DEF IInv, Records
<1>2. CASE Untouched
  BY <1>2 DEF Untouched, Latest
<1>3. ASSUME NEW s \in Parties, Cleared(s) PROVE Latest'
  <2> DEFINE rec == [state[s] EXCEPT !.pending = NoCode, !.due = 0]
  <2>1. rec.code = state[s].code /\ rec.pending = NoCode
    BY <1>1 DEF Record
  <2>2. state' = [state EXCEPT ![s] = rec] /\ UNCHANGED issued
    BY <1>3 DEF Cleared
  <2> HIDE DEF rec
  <2> QED BY <2>1, <2>2, LatestKept
<1>4. ASSUME NEW s \in Parties, NEW o \in Order, Carried(s, o) PROVE Latest'
  <2> DEFINE rec == Ordered(o, state[s])
  <2>1. rec.code = state[s].code /\ rec.pending = state[s].pending
    BY <1>1 DEF Record, Ordered, Status
  <2>2. state' = [state EXCEPT ![s] = rec] /\ UNCHANGED issued
    BY <1>4 DEF Carried
  <2> HIDE DEF rec
  <2> QED BY <2>1, <2>2, LatestKept
<1> QED BY <1>2, <1>3, <1>4, LatestGiven DEF RecordStep

\* The line of s becomes code k, the latest of s, if the call was done.
LEMMA LineWritten ==
    ASSUME IInv, Latest, Written, NEW s \in Parties, NEW k, DrawnFor(s, k, issued),
           k = state[s].code, NEW done,
           line' = IF done THEN [line EXCEPT ![s] = k] ELSE line,
           persisted' = IF done THEN persisted \cup {k} ELSE persisted,
           UNCHANGED issued
    PROVE  Written'
<1>1. line \in [Parties -> Code]
  BY DEF IInv, Lines
<1>2. CASE ~ done
  BY <1>2 DEF Written
<1>3. CASE done
  <2>1. persisted' = persisted \cup {k} /\ k \in DOMAIN issued /\ issued[k].to = s
    BY <1>3 DEF DrawnFor
  <2>2. \A c \in persisted' : issued[c].to = s => c <= k
    BY <2>1 DEF Written, Latest, LatestOf
  <2>3. line'[s] = k /\ \A p \in Parties : p # s => line'[p] = line[p]
    BY <1>1, <1>3
  <2> QED BY <2>1, <2>2, <2>3 DEF Written
<1> QED BY <1>2, <1>3

LEMMA WrittenNext ==
    ASSUME Serial, IInv, Fresh, Latest, Written, Phones, [Next]_vars
    PROVE  Written'
<1>1. ASSUME UNCHANGED <<line, persisted, issued>>
      PROVE  Written'
  BY <1>1 DEF Written
<1>2. ASSUME NEW r \in Requests, Contact(r)
      PROVE  Written'
  <2>1. /\ req[r] # Idle /\ req[r].pc = "contact" /\ UNCHANGED <<persisted, issued>>
        /\ line' \in {[line EXCEPT ![On(r)] = req[r].line], line}
    BY <1>2 DEF Contact, At, history
  <2>2. req[r].line = line[On(r)] /\ line \in [Parties -> Code]
    BY <2>1 DEF Phones, ReadsLine, On, IInv, Lines
  <2>3. line' = line
    BY <2>1, <2>2
  <2> QED BY <1>1, <2>1, <2>3
<1>3. ASSUME NEW r \in Requests, Push(r)
      PROVE  Written'
  <2>1. req[r] # Idle /\ req[r].pc = "push" /\ UNCHANGED issued
    BY <1>3 DEF Push, At
  <2>2. /\ On(r) \in Parties /\ DrawnFor(On(r), req[r].rec.code, issued)
        /\ req[r].rec = state[On(r)]
    BY <2>1, Working, NoneAwake DEF ReqOK, ReadsNow, On
  <2>3. PICK done :
          /\ line' = IF done THEN [line EXCEPT ![On(r)] = req[r].rec.code] ELSE line
          /\ persisted' = IF done THEN persisted \cup {req[r].rec.code} ELSE persisted
    BY <1>3 DEF Push
  <2> QED BY <2>1, <2>2, <2>3, LineWritten
<1>4. ASSUME NEW g \in routines, Persist(g)
      PROVE  Written'
  <2>1. Awake(g) /\ UNCHANGED issued
    BY <1>4 DEF Persist, Awake
  <2>2. /\ g.on \in Parties /\ DrawnFor(g.on, g.code, issued)
        /\ g.code # NoCode /\ state[g.on].pending = g.code
    BY <2>1, AwakeAlone, RoutineCodes DEF IInv, Routines, RoutineOK, WakesNow, Parties
  <2>3. g.code = state[g.on].code
    BY <2>2 DEF Latest, LatestOf
  <2>4. PICK done :
          /\ line' = IF done THEN [line EXCEPT ![g.on] = g.code] ELSE line
          /\ persisted' = IF done THEN persisted \cup {g.code} ELSE persisted
    BY <1>4 DEF Persist
  <2> QED BY <2>1, <2>2, <2>3, <2>4, LineWritten
<1>5. ASSUME NEW r \in Requests, Draw(r)
      PROVE  Written'
  <2>1. UNCHANGED <<line, persisted>> /\ On(r) \in Parties /\ clock \in Nat /\ IssuedOK(issued)
    BY <1>5, Working, AdminAssumption DEF Draw, At, IInv, Others
  <2>2. issued' = issued \/ issued' = Append(issued, [to |-> On(r), at |-> clock])
    BY <1>5 DEF Draw
  <2>3. CASE issued' = Append(issued, [to |-> On(r), at |-> clock])
    <3>1. Grows(issued, Append(issued, [to |-> On(r), at |-> clock]), On(r), clock)
      BY <2>1, OneDrawn
    <3>2. Grows(issued, issued', On(r), clock)
      BY <2>3, <3>1
    <3> QED BY <2>1, <3>2 DEF Written, Grows
  <2> QED BY <1>1, <2>1, <2>2, <2>3
<1>6. CASE \/ \E r \in Requests : Look(r) \/ Save(r) \/ List(r) \/ ItemCall(r) \/ PutRow(r)
           \/ \E r \in Requests, o \in Orders : Find(r, o)
           \/ \E g \in routines : Wake(g) \/ Clear(g)
           \/ Tick \/ Restart \/ UNCHANGED vars
  BY <1>1, <1>6 DEF Look, Save, List, ItemCall, PutRow, Find, Wake, Clear, Tick, Restart,
                    vars, history
<1> QED BY <1>2, <1>3, <1>4, <1>5, <1>6 DEF Next, Step, Work

LEMMA PhonesNext ==
    ASSUME Serial, ~ DirectReader, IInv, Fresh, Phones, [Next]_vars
    PROVE  Phones'
<1>1. req \in [Requests -> Request \cup {Idle}] /\ line \in [Parties -> Code]
  BY DEF IInv, Reqs, Lines
<1>2. ASSUME NEW r \in Requests, req[r] # Idle, line' = line, NEW q, req' = [req EXCEPT ![r] = q],
             q = Idle \/ /\ q.order = req[r].order /\ q.line = req[r].line
                         /\ q.pc = "contact" => q.order.op = "phone"
      PROVE  Phones'
  BY <1>1, <1>2 DEF Phones, ReadsLine
<1>3. ASSUME NEW r \in Requests, req[r] # Idle, End(r)
      PROVE  Phones'
  BY <1>1, <1>3 DEF Serial, Phones, End
<1>4. ASSUME NEW r \in Requests, NEW o \in Orders, Find(r, o)
      PROVE  Phones'
  <2> DEFINE q == [order |-> o,
                   pc |-> IF o.on \in Customers /\ o.op = "phone" THEN "contact" ELSE "look",
                   rec |-> NewParty,
                   line |-> IF DirectReader \/ o.op # "phone" THEN NoCode ELSE line[o.on],
                   row |-> {}, add |-> {}, drop |-> {}]
  <2>1. ReadsLine(q)
    BY DEF ReadsLine
  <2>2. req' = [req EXCEPT ![r] = q] /\ line' = line
    BY <1>4 DEF Find, Continue
  <2> HIDE DEF q
  <2> QED BY <1>1, <2>1, <2>2 DEF Phones, ReadsLine
<1>5. ASSUME NEW r \in Requests, Look(r)
      PROVE  Phones'
  <2> DEFINE o == req[r].order
             q == [req[r] EXCEPT !.pc = AfterLook(o), !.rec = state[o.on],
                                 !.add = IF o.op = "assign" THEN o.items ELSE {},
                                 !.drop = IF o.op = "unassign" THEN o.items ELSE {}]
  <2>1. req[r] # Idle /\ line' = line /\ req[r] \in Request
    BY <1>5, Working DEF Look, At
  <2>2. /\ q.order = req[r].order /\ q.line = req[r].line
        /\ q.pc = "contact" => q.order.op = "phone"
    BY <2>1 DEF Request, AfterLook
  <2>3. End(r) \/ Continue(r, q)
    BY <1>5 DEF Look
  <2> HIDE DEF q
  <2> QED BY <1>2, <1>3, <2>1, <2>2, <2>3 DEF Continue
<1>6. ASSUME NEW r \in Requests, List(r)
      PROVE  Phones'
  <2>1. req[r] # Idle /\ line' = line /\ req[r] \in Request
    BY <1>6, Working DEF List, At
  <2>2. \/ End(r)
        \/ \E a, d : \E pc \in {"save", "items"} :
                Continue(r, [req[r] EXCEPT !.add = a, !.drop = d, !.pc = pc])
        \/ \E w : Continue(r, [req[r] EXCEPT !.row = w, !.pc = "put"])
    BY <1>6 DEF List
  <2>3. ASSUME NEW a, NEW d, NEW pc \in {"save", "items"},
               Continue(r, [req[r] EXCEPT !.add = a, !.drop = d, !.pc = pc])
        PROVE  Phones'
    <3> DEFINE q == [req[r] EXCEPT !.add = a, !.drop = d, !.pc = pc]
    <3>1. q.order = req[r].order /\ q.line = req[r].line /\ q.pc # "contact"
      BY <2>1 DEF Request
    <3> HIDE DEF q
    <3> QED BY <1>2, <2>1, <2>3, <3>1 DEF Continue, q
  <2>4. ASSUME NEW w, Continue(r, [req[r] EXCEPT !.row = w, !.pc = "put"])
        PROVE  Phones'
    <3> DEFINE q == [req[r] EXCEPT !.row = w, !.pc = "put"]
    <3>1. q.order = req[r].order /\ q.line = req[r].line /\ q.pc # "contact"
      BY <2>1 DEF Request
    <3> HIDE DEF q
    <3> QED BY <1>2, <2>1, <2>4, <3>1 DEF Continue, q
  <2> QED BY <1>3, <2>1, <2>2, <2>3, <2>4
<1>7. ASSUME NEW r \in Requests, ItemCall(r)
      PROVE  Phones'
  <2>1. req[r] # Idle /\ line' = line /\ req[r] \in Request /\ req[r].pc = "items"
    BY <1>7, Working DEF ItemCall, At
  <2>2. PICK i \in (IF req[r].add # {} THEN req[r].add ELSE req[r].drop) :
          LET q == [req[r] EXCEPT !.add = @ \ {i}, !.drop = @ \ {i}]
          IN  End(r) \/ Continue(r, q) \/ Continue(r, [q EXCEPT !.pc = "save"])
    BY <1>7 DEF ItemCall
  <2> DEFINE q == [req[r] EXCEPT !.add = @ \ {i}, !.drop = @ \ {i}]
             p == [q EXCEPT !.pc = "save"]
  <2>3. /\ q.order = req[r].order /\ q.line = req[r].line /\ q.pc = "items"
        /\ p.order = req[r].order /\ p.line = req[r].line /\ p.pc = "save"
    BY <2>1 DEF Request
  <2>4. End(r) \/ Continue(r, q) \/ Continue(r, p)
    BY <2>2
  <2> HIDE DEF q, p
  <2> QED BY <1>2, <1>3, <2>1, <2>3, <2>4 DEF Continue
<1>8. ASSUME NEW r \in Requests, Draw(r)
      PROVE  Phones'
  <2>1. req[r] # Idle /\ line' = line /\ req[r] \in Request
    BY <1>8, Working DEF Draw, At
  <2>2. PICK rec : End(r) \/ Continue(r, [req[r] EXCEPT !.pc = "push", !.rec = rec])
    BY <1>8 DEF Draw
  <2> DEFINE q == [req[r] EXCEPT !.pc = "push", !.rec = rec]
  <2>3. q.order = req[r].order /\ q.line = req[r].line /\ q.pc = "push"
    BY <2>1 DEF Request
  <2> HIDE DEF q
  <2> QED BY <1>2, <1>3, <2>1, <2>2, <2>3 DEF Continue, q
<1>9. ASSUME NEW r \in Requests, Save(r) \/ Contact(r) \/ PutRow(r) \/ Push(r)
      PROVE  Phones'
  BY <1>3, <1>9 DEF Save, Contact, PutRow, Push, At
<1>10. ASSUME NEW g \in routines, Persist(g)
       PROVE  Phones'
  <2>1. Resting /\ req' = req
    BY <1>10, AwakeAlone DEF Persist, Awake
  <2> QED BY <2>1 DEF Phones, Resting
<1>11. CASE Restart
  BY <1>11 DEF Restart, Phones
<1>12. CASE \/ \E g \in routines : Wake(g) \/ Clear(g)
            \/ Tick \/ UNCHANGED vars
  BY <1>12 DEF Wake, Clear, Tick, vars, Phones, ReadsLine
<1> QED BY <1>4, <1>5, <1>6, <1>7, <1>8, <1>9, <1>10, <1>11, <1>12 DEF Next, Step, Work

LEMMA LinesInvariance ==
    ASSUME Serial, ~ DirectReader
    PROVE  Spec => [](IInv /\ Fresh /\ Latest /\ Written /\ Phones)
<1>1. Init => Latest /\ Written /\ Phones
  BY DEF Init, Latest, LatestOf, NewParty, Written, Phones
<1>2. /\ IInv /\ Fresh /\ Latest /\ Written /\ Phones /\ [Next]_vars
      => Latest' /\ Written' /\ Phones'
  BY RecordSteps, LatestNext, WrittenNext, PhonesNext
<1> QED BY <1>1, <1>2, SerialInvariance, PTL DEF Spec

\* While parties are found with their details, no change of a phone number erases or
\* brings back an access code, though calls fail with or without effect
\* (upsertSupplierPhoneInDetails).
THEOREM CodeLinesAreKept ==
    ASSUME Serial, ~ DirectReader PROVE Spec => []CodeLineKept
<1>1. IInv /\ Written => CodeLineKept
  <2> SUFFICES ASSUME IInv, Written, NEW s \in Parties
               PROVE  /\ line[s] = NoCode => {c \in persisted : issued[c].to = s} = {}
                      /\ \A c \in {c \in persisted : issued[c].to = s} : c <= line[s]
    BY DEF CodeLineKept
  <2>1. \A c \in persisted : c \in Nat /\ c > 0
    BY LenProperties DEF Written, IInv, Others, IssuedOK
  <2>2. \A c \in {c \in persisted : issued[c].to = s} : c \in persisted /\ c <= line[s]
    BY DEF Written
  <2>3. line[s] = NoCode => \A c \in {c \in persisted : issued[c].to = s} : FALSE
    BY <2>1, <2>2 DEF NoCode
  <2> QED BY <2>2, <2>3
<1> QED BY <1>1, LinesInvariance, PTL

-----------------------------------------------------------------------------
(* When nothing fails                                                      *)

Quiet == Serial /\ ~ CallsFail /\ ~ SavesFail /\ MaxRestarts = 0

\* A pending code has its goroutine, which becomes due when the record says.
Persisting ==
    \A s \in Parties : state[s].pending # NoCode =>
        \E g \in routines : g.code = state[s].pending /\ g.on = s /\ g.due = state[s].due

LEMMA QuietSteps ==
    ASSUME Quiet, IInv
    PROVE  Saves = {TRUE} /\ Calls = {[done |-> TRUE, ok |-> TRUE]} /\ ~ Restart
<1>1. restarts \in Nat /\ ~ (restarts < 0)
  BY AdminAssumption DEF IInv, Others
<1> QED BY <1>1 DEF Quiet, Saves, Calls, Restart

\* A record is written with the pending code and due time it had, or with none.
LEMMA PersistingKept ==
    ASSUME IInv, Persisting, NEW s \in Parties, NEW rec, state' = [state EXCEPT ![s] = rec],
           rec.pending = state[s].pending /\ rec.due = state[s].due, UNCHANGED routines
    PROVE  Persisting'
BY DEF Persisting, IInv, Records

LEMMA PersistingNext ==
    ASSUME Quiet, IInv, Fresh, Latest, Persisting, [Next]_vars
    PROVE  Persisting'
<1>1. /\ state \in [Parties -> Record] /\ state \in [Parties -> Sound] /\ clock \in Nat
      /\ \A g \in routines : g \in Routine
  BY SoundIsRecord, AdminAssumption DEF IInv, Records, Others, Routines, RoutineOK
<1>2. ASSUME NEW g \in routines, NEW h, h.code = g.code, h.on = g.on, h.due = g.due,
             routines' = (routines \ {g}) \cup {h}, UNCHANGED store
      PROVE  Persisting'
  BY <1>2 DEF Persisting, store
<1>3. ASSUME NEW r \in Requests, Save(r)
      PROVE  Persisting'
  <2>1. req[r] # Idle /\ req[r].pc = "save" /\ UNCHANGED routines
    BY <1>3 DEF Save, At
  <2>2. On(r) \in Parties /\ req[r].rec = state[On(r)]
    BY <2>1, Working, NoneAwake DEF ReadsNow, On
  <2> DEFINE rec == Ordered(req[r].order, req[r].rec)
  <2>3. rec.pending = state[On(r)].pending /\ rec.due = state[On(r)].due
    BY <1>1, <2>2 DEF Ordered, Status, Record
  <2>4. state' = [state EXCEPT ![On(r)] = rec]
    BY <1>3 DEF Save, Put
  <2> HIDE DEF rec
  <2> QED BY <2>1, <2>2, <2>3, <2>4, PersistingKept
<1>4. ASSUME NEW r \in Requests, Draw(r)
      PROVE  Persisting'
  <2> DEFINE s == On(r)
             c == Len(issued) + 1
             rec == Coded(s, c, state[s])
             g == [code |-> c, on |-> s, due |-> rec.due, pc |-> "sleep", rec |-> NewParty]
  <2>1. req[r] # Idle /\ req[r].pc = "draw"
    BY <1>4 DEF Draw, At
  <2>2. s \in Parties /\ req[r].rec = state[s]
    BY <2>1, Working, NoneAwake DEF ReadsNow, On
  <2>3. CASE UNCHANGED <<store, routines>>
    BY <2>3 DEF Persisting, store
  <2>4. CASE ~ UNCHANGED <<store, routines>>
    <3>1. /\ ~ Locked(state[s]) /\ state' = [state EXCEPT ![s] = rec]
          /\ routines' = IF IsSupplier(r) THEN routines \cup {g} ELSE routines
      <4>1. PICK ok \in Saves :
              /\ ~ Locked(state[s]) /\ Put(s, rec, ok)
              /\ routines' = IF ok /\ IsSupplier(r) THEN routines \cup Scheduled(s, c, rec)
                             ELSE routines
        BY <1>4, <2>2, <2>4 DEF Draw
      <4>2. ok = TRUE /\ Scheduled(s, c, rec) = {g}
        BY QuietSteps DEF Scheduled
      <4> QED BY <4>1, <4>2 DEF Put
    <3>2. Counted(state[s]) \in Record /\ Counted(state[s]).pending = state[s].pending
      <4>1. Counted(state[s]).pending = state[s].pending
        BY <1>1, <2>2 DEF Counted, Record
      <4> QED BY <1>1, <2>2, <3>1, <4>1, CountedSound, SoundIsRecord
    <3>3. CASE IsSupplier(r)
      <4>1. rec.pending = c
        BY <3>2, <3>3, AdminAssumption DEF Coded, Record, IsSupplier
      <4>2. g.code = c /\ g.on = s /\ g.due = rec.due /\ g \in routines'
        BY <3>1, <3>3
      <4> HIDE DEF g, rec
      <4> QED BY <1>1, <2>2, <3>1, <3>3, <4>1, <4>2 DEF Persisting
    <3>4. CASE ~ IsSupplier(r)
      <4>1. s \in Customers /\ state[s].pending = NoCode
        BY <2>2, <3>4 DEF IsSupplier, Parties, Latest, LatestOf
      <4>2. rec.pending = NoCode
        BY <3>2, <4>1 DEF Coded, Record
      <4> HIDE DEF g, rec
      <4> QED BY <1>1, <2>2, <3>1, <3>4, <4>2 DEF Persisting
    <3> QED BY <3>3, <3>4
  <2> QED BY <2>3, <2>4
<1>5. ASSUME NEW g \in routines, Wake(g)
      PROVE  Persisting'
  <2>1. UNCHANGED store /\ clock >= g.due
    BY <1>5 DEF Wake
  <2>2. CASE Move(g, "put", state[g.on])
    <3> DEFINE h == [g EXCEPT !.pc = "put", !.rec = state[g.on]]
    <3>1. h.code = g.code /\ h.on = g.on /\ h.due = g.due
      BY <1>1 DEF Routine
    <3>2. routines' = (routines \ {g}) \cup {h}
      BY <2>2 DEF Move
    <3> HIDE DEF h
    <3> QED BY <1>2, <2>1, <3>1, <3>2
  <2>3. CASE ~ Current(g) /\ Finish(g)
    <3> SUFFICES ASSUME NEW s \in Parties, state[s].pending # NoCode
                 PROVE  \E h \in routines' : /\ h.code = state[s].pending /\ h.on = s
                                             /\ h.due = state[s].due
      BY <2>1 DEF Persisting, store
    <3>1. PICK h \in routines : /\ h.code = state[s].pending /\ h.on = s
                                /\ h.due = state[s].due
      BY DEF Persisting
    <3>2. h # g
      BY <2>1, <2>3, <3>1 DEF Current
    <3> QED BY <2>3, <3>1, <3>2 DEF Finish
  <2> QED BY <1>5, <2>2, <2>3 DEF Wake
<1>6. ASSUME NEW g \in routines, Persist(g)
      PROVE  Persisting'
  <2> DEFINE h == [g EXCEPT !.pc = "clear", !.rec = g.rec]
  <2>1. h.code = g.code /\ h.on = g.on /\ h.due = g.due
    BY <1>1 DEF Routine
  <2>2. routines' = (routines \ {g}) \cup {h} /\ UNCHANGED store
    BY <1>6, QuietSteps DEF Persist, Move
  <2> HIDE DEF h
  <2> QED BY <1>2, <2>1, <2>2
<1>7. ASSUME NEW g \in routines, Clear(g)
      PROVE  Persisting'
  <2> DEFINE rec == [g.rec EXCEPT !.pending = NoCode, !.due = 0]
  <2>1. g.on \in Parties /\ g.rec \in Record
    BY RoutineCodes, SoundIsRecord DEF IInv, Routines, RoutineOK, Parties
  <2>2. rec.pending = NoCode
    BY <2>1 DEF Record
  <2>3. state' = [state EXCEPT ![g.on] = rec] /\ routines' = routines \ {g}
    BY <1>7 DEF Clear, Put, Finish
  <2> HIDE DEF rec
  <2> QED BY <1>1, <2>1, <2>2, <2>3 DEF Persisting
<1>8. CASE \/ \E r \in Requests : \/ Look(r) \/ Contact(r) \/ List(r) \/ ItemCall(r)
                                  \/ PutRow(r) \/ Push(r)
                                  \/ \E o \in Orders : Find(r, o)
           \/ Tick \/ UNCHANGED vars
  BY <1>8 DEF Look, Contact, List, ItemCall, PutRow, Push, Find, Tick, vars, store, Persisting
<1> QED BY <1>3, <1>4, <1>5, <1>6, <1>7, <1>8, QuietSteps DEF Next, Step, Work

\* A new code is on its way to ERPNext until it is there, and there until the next
\* one: its goroutine is there until it has done its work (scheduleSupplierCodePersist),
\* and no later write of the details erases it.
THEOREM CodesStayKept == ASSUME Quiet, ~ DirectReader PROVE Spec => []CodesKept
<1>1. Serial
  BY DEF Quiet
<1>2. Init => Persisting
  BY DEF Init, Persisting, NewParty
<1>3. IInv /\ Fresh /\ Latest /\ Persisting /\ [Next]_vars => Persisting'
  BY PersistingNext
<1>4. Latest /\ Persisting => PendingHasRoutine
  BY DEF Latest, LatestOf, Persisting, PendingHasRoutine, Parties
<1>5. Spec => [](IInv /\ Fresh /\ Latest /\ Written /\ Phones)
  BY <1>1, LinesInvariance
<1>6. Spec => []CodeLineKept
  BY <1>1, CodeLinesAreKept
<1>7. PendingHasRoutine /\ CodeLineKept => CodesKept
  BY DEF CodesKept
<1> QED BY <1>2, <1>3, <1>4, <1>5, <1>6, <1>7, PTL DEF Spec

\* The items ERPNext has for a supplier.
Has(s, rw) == {i \in Items : s \in rw[i]}

\* A request that changes the items of a supplier: what it has still to assign and to
\* remove takes what ERPNext has to what the record will list.
Changes(q) ==
    /\ q # Idle /\ q.order.on \in Suppliers /\ q.order.op \in ItemOps
    /\ q.pc \in {"items", "save"}

Owes(q, has, items) ==
    /\ (has \cup q.add) \ q.drop = Listed(q.order, items)
    /\ q.add \cap q.drop = {}
    /\ q.pc = "save" => q.add \cup q.drop = {}

\* Only the order of a whole list reads what a supplier has.
Lists(q) == q # Idle /\ q.order.on \in Suppliers /\ q.pc = "list" => q.order.op = "items"

Itemized ==
    /\ \A s \in Suppliers :
          \/ Has(s, rows) = state[s].items
          \/ \E r \in Requests : Changes(req[r]) /\ On(r) = s
    /\ \A r \in Requests :
          /\ Changes(req[r]) => Owes(req[r], Has(On(r), rows), state[On(r)].items)
          /\ Lists(req[r])

\* The one request changes no items: all suppliers' records agree.
LEMMA AllAgree ==
    ASSUME Serial, Itemized, NEW r \in Requests, NEW s \in Suppliers,
           ~ Changes(req[r]) \/ On(r) # s
    PROVE  Has(s, rows) = state[s].items
BY DEF Serial, Itemized

LEMMA ItemsMove ==
    ASSUME Serial, IInv, NEW r \in Requests, NEW q, req' = [req EXCEPT ![r] = q], Lists(q),
           \A s \in Suppliers : \/ Has(s, rows') = state'[s].items
                                \/ Changes(q) /\ q.order.on = s,
           Changes(q) => Owes(q, Has(q.order.on, rows'), state'[q.order.on].items)
    PROVE  Itemized'
<1>1. req' \in [Requests -> {q}]
  BY DEF Serial, IInv, Reqs
<1> QED BY <1>1 DEF Itemized, On

LEMMA IdleNeither == ~ Changes(Idle) /\ Lists(Idle)
BY DEF Changes, Lists

\* A request that changes no items goes on to a step in which it changes none.
LEMMA ItemsPass ==
    ASSUME Serial, IInv, Itemized, NEW r \in Requests, ~ Changes(req[r]), NEW q,
           req' = [req EXCEPT ![r] = q], ~ Changes(q), Lists(q),
           \A s \in Suppliers : Has(s, rows') = Has(s, rows) /\ state'[s].items = state[s].items
    PROVE  Itemized'
<1>1. \A s \in Suppliers : Has(s, rows') = state'[s].items
  BY AllAgree
<1> QED BY <1>1, ItemsMove

LEMMA ItemsEnd ==
    ASSUME Serial, IInv, Itemized, NEW r \in Requests, ~ Changes(req[r]), End(r),
           \A s \in Suppliers : Has(s, rows') = Has(s, rows) /\ state'[s].items = state[s].items
    PROVE  Itemized'
BY ItemsPass, IdleNeither DEF End

LEMMA ItemsFind ==
    ASSUME Serial, IInv, Itemized, NEW r \in Requests, NEW o \in Orders, Find(r, o)
    PROVE  Itemized'
<1> DEFINE q == [order |-> o,
                 pc |-> IF o.on \in Customers /\ o.op = "phone" THEN "contact" ELSE "look",
                 rec |-> NewParty,
                 line |-> IF DirectReader \/ o.op # "phone" THEN NoCode ELSE line[o.on],
                 row |-> {}, add |-> {}, drop |-> {}]
<1>1. ~ Changes(q) /\ Lists(q)
  BY DEF Changes, Lists
<1>2. req[r] = Idle /\ req' = [req EXCEPT ![r] = q] /\ UNCHANGED <<state, rows>>
  BY DEF Find, Continue, store
<1> HIDE DEF q
<1> QED BY <1>1, <1>2, ItemsPass, IdleNeither DEF Has

LEMMA ItemsLook ==
    ASSUME Serial, IInv, Itemized, NEW r \in Requests, Look(r)
    PROVE  Itemized'
<1> DEFINE o == req[r].order
           q == [req[r] EXCEPT !.pc = AfterLook(o), !.rec = state[o.on],
                               !.add = IF o.op = "assign" THEN o.items ELSE {},
                               !.drop = IF o.op = "unassign" THEN o.items ELSE {}]
<1>1. /\ req[r] # Idle /\ req[r].pc = "look" /\ req[r] \in Request
      /\ UNCHANGED <<state, rows>> /\ ~ Changes(req[r])
  BY Working DEF Look, At, Changes, store
<1>2. \A s \in Suppliers : Has(s, rows') = Has(s, rows) /\ Has(s, rows) = state[s].items
  BY <1>1, AllAgree DEF Has
<1>3. CASE End(r)
  BY <1>1, <1>2, <1>3, ItemsEnd
<1>4. CASE Continue(r, q)
  <2>1. /\ q.order = o /\ q.pc = AfterLook(o)
        /\ q.add = (IF o.op = "assign" THEN o.items ELSE {})
        /\ q.drop = (IF o.op = "unassign" THEN o.items ELSE {})
    BY <1>1 DEF Request
  <2>2. Lists(q)
    BY <2>1, AdminAssumption DEF Lists, AfterLook
  <2>3. Changes(q) => o.op \in {"assign", "unassign"} /\ o.on \in Suppliers /\ q.pc = "items"
    BY <2>1 DEF Changes, AfterLook, ItemOps
  <2> HIDE DEF q
  <2>4. Changes(q) => Owes(q, Has(o.on, rows), state[o.on].items)
    <3>1. CASE Changes(q) /\ o.op = "assign"
      BY <1>2, <2>1, <2>3, <3>1 DEF Owes, Listed
    <3>2. CASE Changes(q) /\ o.op = "unassign"
      BY <1>2, <2>1, <2>3, <3>2 DEF Owes, Listed
    <3> QED BY <2>3, <3>1, <3>2
  <2>5. Changes(q) => Owes(q, Has(q.order.on, rows'), state'[q.order.on].items)
    BY <1>1, <1>2, <2>1, <2>3, <2>4
  <2> QED BY <1>1, <1>2, <1>4, <2>2, <2>5, ItemsMove DEF Continue
<1> QED BY <1>3, <1>4 DEF Look

LEMMA ItemsSave ==
    ASSUME Quiet, IInv, Fresh, Itemized, NEW r \in Requests, Save(r)
    PROVE  Itemized'
<1> DEFINE s == On(r)
           o == req[r].order
           rec == Ordered(o, state[s])
<1>1. /\ req[r] # Idle /\ req[r].pc = "save" /\ End(r) /\ rows' = rows
      /\ s \in Parties /\ req[r].rec = state[s] /\ state' = [state EXCEPT ![s] = rec]
      /\ state \in [Parties -> Record] /\ Serial
  BY Working, NoneAwake, SoundIsRecord
     DEF Save, At, Put, ReadsNow, On, IInv, Records, Quiet
<1>2. rec.items = IF o.op \in ItemOps THEN Listed(o, state[s].items) ELSE state[s].items
  BY <1>1 DEF Ordered, Status, ItemOps, Record
<1> HIDE DEF rec
<1>3. ASSUME NEW p \in Suppliers PROVE Has(p, rows') = state'[p].items
  <2>1. CASE p # s
    <3>1. Has(p, rows) = state[p].items
      BY <1>1, <2>1, AllAgree
    <3> QED BY <1>1, <2>1, <3>1 DEF Has, Parties
  <2>2. CASE p = s /\ o.op \in ItemOps
    <3>1. Owes(req[r], Has(s, rows), state[s].items)
      BY <1>1, <2>2 DEF Itemized, Changes, On
    <3>2. Has(s, rows) = Listed(o, state[s].items)
      BY <1>1, <3>1 DEF Owes
    <3> QED BY <1>1, <1>2, <2>2, <3>2 DEF Has
  <2>3. CASE p = s /\ o.op \notin ItemOps
    <3>1. Has(p, rows) = state[p].items
      BY <1>1, <2>3, AllAgree DEF Changes
    <3> QED BY <1>1, <1>2, <2>3, <3>1 DEF Has
  <2> QED BY <2>1, <2>2, <2>3
<1> QED BY <1>1, <1>3, ItemsMove, IdleNeither DEF End

LEMMA ItemsList ==
    ASSUME Quiet, IInv, Itemized, NEW r \in Requests, List(r)
    PROVE  Itemized'
<1> DEFINE o == req[r].order
           current == {i \in Items : On(r) \in rows[i]}
<1>1. /\ req[r] # Idle /\ req[r].pc = "list" /\ req[r] \in Request /\ Serial
      /\ UNCHANGED <<state, rows>> /\ ~ Changes(req[r])
  BY Working DEF List, At, Changes, store, Quiet
<1>2. \A p \in Suppliers : Has(p, rows') = Has(p, rows) /\ Has(p, rows) = state[p].items
  BY <1>1, AllAgree DEF Has
<1>3. CASE IsSupplier(r)
  <2> DEFINE q == [req[r] EXCEPT !.add = o.items \ current, !.drop = current \ o.items,
                                 !.pc = IF o.items = current THEN "save" ELSE "items"]
  <2>1. Continue(r, q)
    BY <1>3 DEF List, Quiet
  <2>2. /\ q.order = o /\ q.add = o.items \ current /\ q.drop = current \ o.items
        /\ q.pc = (IF o.items = current THEN "save" ELSE "items")
        /\ o.on = On(r) /\ o.on \in Suppliers /\ o.items \subseteq Items
    BY <1>1, <1>3 DEF Request, Order, On, IsSupplier
  <2>3. o.op = "items" /\ current = Has(o.on, rows)
    BY <1>1, <2>2 DEF Itemized, Lists, Has
  <2> HIDE DEF q, current
  <2>4. Lists(q)
    BY <2>2 DEF Lists
  <2>5. Owes(q, Has(o.on, rows), state[o.on].items)
    <3>1. Listed(o, state[o.on].items) = o.items
      BY <2>3 DEF Listed
    <3>2. q.pc = "save" => o.items = current
      BY <2>2
    <3> QED BY <2>2, <2>3, <3>1, <3>2 DEF Owes
  <2>6. Changes(q) => Owes(q, Has(q.order.on, rows'), state'[q.order.on].items)
    BY <1>1, <1>2, <2>2, <2>5
  <2> QED BY <1>1, <1>2, <2>1, <2>4, <2>6, ItemsMove DEF Continue
<1>4. CASE ~ IsSupplier(r)
  <2>1. PICK w : Continue(r, [req[r] EXCEPT !.row = w, !.pc = "put"])
    BY <1>4 DEF List, Quiet
  <2> DEFINE q == [req[r] EXCEPT !.row = w, !.pc = "put"]
  <2>2. ~ Changes(q) /\ Lists(q)
    BY <1>1 DEF Request, Changes, Lists
  <2> HIDE DEF q
  <2> QED BY <1>1, <1>2, <2>1, <2>2, ItemsPass DEF Continue, q
<1> QED BY <1>3, <1>4

LEMMA ItemsCall ==
    ASSUME Quiet, IInv, Itemized, NEW r \in Requests, ItemCall(r)
    PROVE  Itemized'
<1> DEFINE s == On(r)
<1>1. /\ req[r] # Idle /\ req[r].pc = "items" /\ req[r] \in Request /\ s \in Parties
      /\ state' = state /\ Serial /\ req[r].order.op \in ItemOps
      /\ rows \in [Items -> SUBSET Parties]
  BY Working DEF ItemCall, At, store, Quiet, ReqOK, IInv, Others
<1>2. PICK i \in (IF req[r].add # {} THEN req[r].add ELSE req[r].drop) :
        LET q == [req[r] EXCEPT !.add = @ \ {i}, !.drop = @ \ {i}]
        IN /\ rows' = [rows EXCEPT ![i] = IF i \in req[r].add THEN @ \cup {s} ELSE @ \ {s}]
           /\ IF q.add \cup q.drop # {} THEN Continue(r, q)
              ELSE IF IsSupplier(r) THEN Continue(r, [q EXCEPT !.pc = "save"])
              ELSE End(r)
  <2>1. PICK i \in (IF req[r].add # {} THEN req[r].add ELSE req[r].drop), call \in Calls :
          LET q == [req[r] EXCEPT !.add = @ \ {i}, !.drop = @ \ {i}]
          IN /\ rows' = IF ~ call.done THEN rows
                        ELSE [rows EXCEPT ![i] = IF i \in req[r].add THEN @ \cup {s} ELSE @ \ {s}]
             /\ IF ~ call.ok THEN End(r)
                ELSE IF q.add \cup q.drop # {} THEN Continue(r, q)
                ELSE IF IsSupplier(r) THEN Continue(r, [q EXCEPT !.pc = "save"])
                ELSE End(r)
    BY DEF ItemCall
  <2>2. call.done = TRUE /\ call.ok = TRUE
    BY QuietSteps
  <2> QED BY <2>1, <2>2
<1> DEFINE q == [req[r] EXCEPT !.add = @ \ {i}, !.drop = @ \ {i}]
           p == [q EXCEPT !.pc = "save"]
<1>3. /\ q.order = req[r].order /\ q.pc = "items"
      /\ q.add = req[r].add \ {i} /\ q.drop = req[r].drop \ {i}
      /\ p.order = req[r].order /\ p.pc = "save" /\ p.add = q.add /\ p.drop = q.drop
  BY <1>1 DEF Request
<1>4. /\ i \in Items /\ req[r].add \subseteq Items /\ req[r].drop \subseteq Items
      /\ i \notin req[r].add => i \in req[r].drop
  BY <1>1 DEF Request
<1>5. /\ rows' = [rows EXCEPT ![i] = IF i \in req[r].add THEN @ \cup {s} ELSE @ \ {s}]
      /\ \/ q.add \cup q.drop # {} /\ Continue(r, q)
         \/ q.add \cup q.drop = {} /\ IsSupplier(r) /\ Continue(r, p)
         \/ ~ IsSupplier(r) /\ End(r)
  BY <1>2
<1> HIDE DEF q, p
<1>6. \A u \in Parties : u # s => Has(u, rows') = Has(u, rows)
  BY <1>1, <1>4, <1>5 DEF Has
<1>7. CASE IsSupplier(r)
  <2>1. Changes(req[r]) /\ s \in Suppliers
    BY <1>1, <1>7 DEF Changes, IsSupplier, On
  <2>2. Owes(req[r], Has(s, rows), state[s].items)
    BY <2>1 DEF Itemized
  <2>3. Has(s, rows') = IF i \in req[r].add THEN Has(s, rows) \cup {i} ELSE Has(s, rows) \ {i}
    BY <1>1, <1>4, <1>5 DEF Has
  <2>4. (Has(s, rows') \cup q.add) \ q.drop = (Has(s, rows) \cup req[r].add) \ req[r].drop
    <3>1. CASE i \in req[r].add
      BY <1>3, <2>2, <2>3, <3>1 DEF Owes
    <3>2. CASE i \notin req[r].add
      BY <1>3, <1>4, <2>2, <2>3, <3>2 DEF Owes
    <3> QED BY <3>1, <3>2
  <2>5. ASSUME NEW n \in {q, p}, req' = [req EXCEPT ![r] = n], n = p => q.add \cup q.drop = {}
        PROVE  Itemized'
    <3>1. /\ n.order = req[r].order /\ n.add = q.add /\ n.drop = q.drop
          /\ n.pc \in {"items", "save"} /\ (n.pc = "save" => n = p)
      BY <1>3, <2>5
    <3>2. Owes(n, Has(s, rows'), state[s].items)
      BY <1>3, <2>2, <2>4, <2>5, <3>1 DEF Owes
    <3>3. Lists(n) /\ n.order.on = s
      BY <3>1 DEF Lists, On
    <3>4. \A u \in Suppliers : u # s => Has(u, rows') = state'[u].items
      BY <1>1, <1>6, AllAgree DEF Parties
    <3>5. Changes(n) /\ Owes(n, Has(n.order.on, rows'), state'[n.order.on].items)
      <4>1. q \in Request /\ p \in Request
        BY <1>1 DEF Request, q, p
      <4>2. n # Idle
        BY <2>5, <4>1, IdleAssumption
      <4> QED BY <1>1, <2>1, <3>1, <3>2, <3>3, <4>2 DEF Changes
    <3>6. \A u \in Suppliers : \/ Has(u, rows') = state'[u].items
                               \/ Changes(n) /\ n.order.on = u
      BY <3>3, <3>4, <3>5
    <3> HIDE DEF s
    <3> QED BY <1>1, <2>5, <3>3, <3>5, <3>6, ItemsMove
  <2>6. PICK n \in {q, p} : req' = [req EXCEPT ![r] = n] /\ (n = p => q.add \cup q.drop = {})
    <3>1. q # p
      BY <1>3
    <3>2. CASE q.add \cup q.drop # {} /\ Continue(r, q)
      BY <3>1, <3>2 DEF Continue
    <3>3. CASE q.add \cup q.drop = {} /\ Continue(r, p)
      BY <3>3 DEF Continue
    <3> QED BY <1>5, <1>7, <3>2, <3>3
  <2> QED BY <2>5, <2>6
<1>8. CASE ~ IsSupplier(r)
  <2>1. ~ Changes(req[r]) /\ ~ Changes(q) /\ Lists(q) /\ \A u \in Suppliers : u # s
    BY <1>3, <1>8 DEF Changes, Lists, IsSupplier, On
  <2>2. \A u \in Suppliers : Has(u, rows') = Has(u, rows) /\ state'[u].items = state[u].items
    BY <1>1, <1>6, <2>1 DEF Parties
  <2> QED BY <1>1, <1>5, <1>8, <2>1, <2>2, ItemsPass, ItemsEnd DEF Continue
<1> QED BY <1>7, <1>8

LEMMA ItemsPutRow ==
    ASSUME Quiet, IInv, Itemized, NEW r \in Requests, PutRow(r)
    PROVE  Itemized'
<1>1. /\ req[r] # Idle /\ ~ Changes(req[r]) /\ End(r) /\ state' = state /\ Serial
      /\ rows \in [Items -> SUBSET Parties]
  BY DEF PutRow, At, Changes, store, Quiet, IInv, Others
<1>2. PICK done, i : rows' = IF ~ done THEN rows
                             ELSE [rows EXCEPT ![i] = (@ \cap Suppliers) \cup
                                                      ((req[r].row \cap Customers) \ {On(r)})]
  BY DEF PutRow
<1>3. \A u \in Suppliers : Has(u, rows') = Has(u, rows)
  BY <1>1, <1>2, AdminAssumption DEF Has
<1> QED BY <1>1, <1>3, ItemsEnd

LEMMA ItemsDraw ==
    ASSUME Quiet, IInv, Fresh, Itemized, NEW r \in Requests, Draw(r)
    PROVE  Itemized'
<1> DEFINE s == On(r)
           rec == Coded(s, Len(issued) + 1, state[s])
           q == [req[r] EXCEPT !.pc = "push", !.rec = rec]
<1>1. /\ req[r] # Idle /\ req[r].pc = "draw" /\ req[r] \in Request /\ s \in Parties
      /\ rows' = rows /\ Serial /\ ~ Changes(req[r]) /\ req[r].rec = state[s]
      /\ state \in [Parties -> Record] /\ state \in [Parties -> Sound] /\ clock \in Nat
  BY Working, NoneAwake, SoundIsRecord, AdminAssumption
     DEF Draw, At, Changes, Quiet, ReadsNow, On, IInv, Records, Others
<1>2. \/ End(r) /\ state' = state
      \/ ~ Locked(state[s]) /\ state' = [state EXCEPT ![s] = rec] /\ (Continue(r, q) \/ End(r))
  BY <1>1 DEF Draw, Put, store
<1>3. ~ Locked(state[s]) => rec.items = state[s].items
  <2> SUFFICES ASSUME ~ Locked(state[s]) PROVE rec.items = state[s].items
    OBVIOUS
  <2>1. Counted(state[s]).items = state[s].items
    BY <1>1 DEF Counted, Record
  <2>2. Counted(state[s]) \in Record
    BY <1>1, CountedSound, SoundIsRecord
  <2> QED BY <2>1, <2>2 DEF Coded, Record
<1>4. ~ Changes(q) /\ Lists(q)
  BY <1>1 DEF Changes, Lists, Request
<1> HIDE DEF rec, q
<1>5. \A u \in Suppliers : Has(u, rows') = Has(u, rows) /\ state'[u].items = state[u].items
  BY <1>1, <1>2, <1>3 DEF Has, Parties
<1> QED BY <1>1, <1>2, <1>4, <1>5, ItemsPass, ItemsEnd DEF Continue

LEMMA ItemsStay ==
    ASSUME Itemized, UNCHANGED <<req, rows>>,
           \A s \in Suppliers : state'[s].items = state[s].items
    PROVE  Itemized'
<1>1. \A s \in Suppliers : Has(s, rows') = Has(s, rows)
  BY DEF Has
<1> QED BY <1>1 DEF Itemized, Changes, On

LEMMA ItemsNext ==
    ASSUME Quiet, IInv, Fresh, Itemized, [Next]_vars
    PROVE  Itemized'
<1>1. Serial
  BY DEF Quiet
<1>2. ASSUME NEW r \in Requests, Contact(r) \/ Push(r) PROVE Itemized'
  <2>1. End(r) /\ UNCHANGED <<state, rows>> /\ ~ Changes(req[r])
    BY <1>2 DEF Contact, Push, At, Changes, store
  <2> QED BY <1>1, <2>1, ItemsEnd DEF Has
<1>3. ASSUME NEW g \in routines, Clear(g) PROVE Itemized'
  <2> DEFINE rec == [state[g.on] EXCEPT !.pending = NoCode, !.due = 0]
  <2>1. /\ g.on \in Parties /\ g.rec = state[g.on] /\ UNCHANGED <<req, rows>>
        /\ state \in [Parties -> Record]
    BY <1>3, AwakeAlone, RoutineCodes, SoundIsRecord
       DEF Clear, Awake, WakesNow, Parties, IInv, Records
  <2>2. rec.items = state[g.on].items
    BY <2>1 DEF Record
  <2>3. state' = [state EXCEPT ![g.on] = rec]
    BY <1>3, <2>1 DEF Clear, Put
  <2> HIDE DEF rec
  <2> QED BY <2>1, <2>2, <2>3, ItemsStay DEF Parties
<1>4. CASE (\E g \in routines : Wake(g) \/ Persist(g)) \/ Tick \/ UNCHANGED vars
  BY <1>4, ItemsStay DEF Wake, Persist, Tick, vars, store
<1> QED BY <1>1, <1>2, <1>3, <1>4, ItemsFind, ItemsLook, ItemsSave, ItemsList, ItemsCall,
           ItemsPutRow, ItemsDraw, QuietSteps DEF Next, Step, Work

\* When no request is at work the record of a supplier lists the items ERPNext has for
\* it, however many calls the orders took (AdminUpdateSupplierItems, assignItem,
\* removeItem).
THEOREM ItemsAlwaysAgree == ASSUME Quiet PROVE Spec => []ItemsAgree
<1>1. Serial
  BY DEF Quiet
<1>2. Init => Itemized
  BY DEF Init, Itemized, Has, NewParty, Changes, Lists, Parties
<1>3. IInv /\ Fresh /\ Itemized /\ [Next]_vars => Itemized'
  BY ItemsNext
<1>4. Itemized => ItemsAgree
  BY DEF Itemized, ItemsAgree, Changes, Has
<1> QED BY <1>1, <1>2, <1>3, <1>4, SerialInvariance, PTL DEF Spec

=============================================================================
