--------------------------- MODULE SupplierAdmin ---------------------------
(***************************************************************************)
(* The administration of suppliers and customers.  What the server knows   *)
(* of a party is one record of AdminSupplierStore; ERPNext has its         *)
(* details, with a line for the access code, and the rows of each item     *)
(* that name the parties it is assigned to.  An admin's request finds the  *)
(* party, reads the record, makes its calls to ERPNext and writes back the *)
(* record it read, changed.  A new supplier code is written to ERPNext by  *)
(* a goroutine that sleeps for a window of time and then does the same.    *)
(* The store's lock is held for each read and for each write, not from one *)
(* to the other.                                                           *)
(*                                                                         *)
(* A definition Name_Variant before Name is not part of the specification: *)
(* it is a plausible mistake in that code, which a property must notice.   *)
(***************************************************************************)
EXTENDS Integers, FiniteSets, Sequences

CONSTANTS
    Suppliers, Customers,
    Items,
    Requests,        \* the slots for the admin's requests
    Idle,            \* a slot with no request
    Ops,             \* the operations the admin uses
    Window,          \* codeRegenWindow
    MaxRegens,       \* maxCodeRegensPerWindow
    DirectReader,    \* are parties found in the database, without their details?
    PersistOverlaps, \* do requests overlap the calls of a goroutine?
    CallsFail,       \* may calls to ERPNext fail, with or without effect?
    SavesFail,       \* may writes of the store fail?
    MaxCodes,        \* bound on the codes drawn
    MaxRestarts,     \* bound on restarts
    MaxClock         \* bound on the clock

Parties == Suppliers \cup Customers

ASSUME AdminAssumption ==
    /\ Suppliers \cap Customers = {}
    /\ {Window, MaxRegens} \subseteq Nat \ {0}
    /\ {MaxCodes, MaxRestarts, MaxClock} \subseteq Nat
    /\ {DirectReader, PersistOverlaps, CallsFail, SavesFail} \subseteq BOOLEAN

VARIABLES
    state,      \* the records in memory
    file,       \* the records in the file
    line,       \* line[s]: the code in the party's details in ERPNext
    rows,       \* rows[i]: the parties item i is assigned to in ERPNext
    req,        \* the requests at work
    routines,   \* the goroutines that persist codes
    clock,
    restarts,
    issued,     \* history: code c was the c-th drawn, issued[c].to whom and .at what time
    persisted,  \* history: the codes that have been written to ERPNext
    barred      \* history: suppliers last ordered to be blocked or removed

vars == <<state, file, line, rows, req, routines, clock, restarts, issued,
          persisted, barred>>

store == <<state, file>>
history == <<issued, persisted, barred>>
time == <<clock, restarts>>

\* The codes are random and long; they are numbered in the order they are drawn.
Code == 0..MaxCodes
NoCode == 0

\* AdminSupplierState.  count = 0: no window of regenerations was ever started.
Record == [code : Code, blocked : BOOLEAN, removed : BOOLEAN, items : SUBSET Items,
           pending : Code, due : Nat, start : Nat, count : 0..MaxRegens, until : Nat]

NewParty == [code |-> NoCode, blocked |-> FALSE, removed |-> FALSE, items |-> {},
             pending |-> NoCode, due |-> 0, start |-> 0, count |-> 0, until |-> 0]

CustomerOps == {"remove", "regenerate", "phone", "assign", "unassign"}

\* An order of the admin; items only where the operation has some.
Order == [op : {"block", "unblock", "remove", "restore", "regenerate", "phone",
                "assign", "unassign", "items"},
          on : Parties, items : SUBSET Items]

Orders ==
    {o \in Order :
        /\ o.op \in Ops
        /\ o.on \in Customers => o.op \in CustomerOps
        /\ o.op \in {"assign", "unassign"} => Cardinality(o.items) = 1
        /\ o.op \notin {"assign", "unassign", "items"} => o.items = {}}

\* A request at work: its order, the record, code line and item row it read, and
\* the items it has still to assign and to remove.
Request == [order : Order,
            pc : {"look", "save", "draw", "contact", "list", "items", "put", "push"},
            rec : Record, line : Code, row : SUBSET Parties,
            add : SUBSET Items, drop : SUBSET Items]

ASSUME IdleAssumption == Idle \notin Request

Routine == [code : Code, on : Suppliers, due : Nat,
            pc : {"sleep", "put", "clear"}, rec : Record]

Init ==
    /\ state = [s \in Parties |-> NewParty] /\ file = state
    /\ line = [s \in Parties |-> NoCode]
    /\ rows = [i \in Items |-> {}]
    /\ req = [r \in Requests |-> Idle]
    /\ routines = {}
    /\ clock = 0 /\ restarts = 0
    /\ issued = <<>> /\ persisted = {} /\ barred = {}

-----------------------------------------------------------------------------
(* The store, the calls to ERPNext and the steps of a request              *)

\* Put: the record is changed in memory even if the file cannot be written; the
\* file always gets all of the memory.
Put(s, rec, ok) ==
    /\ state' = [state EXCEPT ![s] = rec]
    /\ file' = IF ok THEN state' ELSE file

Saves == IF SavesFail THEN BOOLEAN ELSE {TRUE}

\* What a call to ERPNext did, and whether its caller was told so.
Calls == {[done |-> TRUE, ok |-> TRUE]} \cup
         IF CallsFail THEN [done : BOOLEAN, ok : {FALSE}] ELSE {}

At(r, pc) == req[r] # Idle /\ req[r].pc = pc
On(r) == req[r].order.on
Op(r) == req[r].order.op
IsSupplier(r) == On(r) \in Suppliers

Continue(r, q) == req' = [req EXCEPT ![r] = q]
End(r) == req' = [req EXCEPT ![r] = Idle]

\* A goroutine that is due or has begun its calls.
Busy(g) == g.pc # "sleep" \/ clock >= g.due

-----------------------------------------------------------------------------
(* An admin's request                                                      *)

\* The party is found in ERPNext or in the database; only ERPNext's answer has its
\* details.  A new phone for a customer does not look at its record.
Find(r, o) ==
    /\ req[r] = Idle
    /\ PersistOverlaps \/ \A g \in routines : ~ Busy(g)
    /\ Continue(r, [order |-> o,
                    pc |-> IF o.on \in Customers /\ o.op = "phone" THEN "contact" ELSE "look",
                    rec |-> NewParty,
                    line |-> IF DirectReader \/ o.op # "phone" THEN NoCode ELSE line[o.on],
                    row |-> {}, add |-> {}, drop |-> {}])
    /\ UNCHANGED <<store, line, rows, routines, time, history>>

\* Of a removed supplier only the restoring order is accepted; of a removed
\* customer only the orders about its items are refused.
Refused(o) ==
    /\ state[o.on].removed
    /\ IF o.on \in Suppliers THEN o.op # "restore" ELSE o.op \in {"assign", "unassign"}

AfterLook(o) ==
    CASE o.op = "regenerate" -> "draw"
      [] o.op = "phone" -> "contact"
      [] o.op = "items" -> "list"
      [] o.op = "unassign" /\ o.on \in Customers -> "list"
      [] o.op = "assign" \/ (o.op = "unassign" /\ o.on \in Suppliers) -> "items"
      [] OTHER -> "save"

Look(r) ==
    /\ At(r, "look")
    /\ LET o == req[r].order IN
       IF Refused(o)
       THEN End(r)
       ELSE Continue(r, [req[r] EXCEPT
                !.pc = AfterLook(o),
                !.rec = state[o.on],
                !.add = IF o.op = "assign" THEN o.items ELSE {},
                !.drop = IF o.op = "unassign" THEN o.items ELSE {}])
    /\ UNCHANGED <<store, line, rows, routines, time, history>>

\* The record read, with the order carried out.
Status_RestoreKeepsBlock(op, rec) ==
    [rec EXCEPT !.blocked = IF op = "restore" THEN @ ELSE op \in {"block", "remove"},
                !.removed = IF op \in {"remove", "restore"} THEN op = "remove" ELSE @]

Status_RemoveOnly(op, rec) ==
    [rec EXCEPT !.blocked = IF op = "remove" THEN @ ELSE op = "block",
                !.removed = IF op \in {"remove", "restore"} THEN op = "remove" ELSE @]

Status(op, rec) ==
    [rec EXCEPT !.blocked = op \in {"block", "remove"},
                !.removed = IF op \in {"remove", "restore"} THEN op = "remove" ELSE @]

Listed_Appended(o, items) ==
    IF o.op = "unassign" THEN items \ o.items ELSE items \cup o.items

Listed(o, items) ==
    CASE o.op = "assign" -> items \cup o.items
      [] o.op = "unassign" -> items \ o.items
      [] OTHER -> o.items

Ordered(o, rec) ==
    IF o.op \in {"assign", "unassign", "items"}
    THEN [rec EXCEPT !.items = Listed(o, @)]
    ELSE Status(o.op, rec)

Save(r) ==
    /\ At(r, "save")
    /\ \E ok \in Saves : Put(On(r), Ordered(req[r].order, req[r].rec), ok)
    /\ barred' = CASE Op(r) \in {"block", "remove"} -> barred \cup {On(r)}
                   [] Op(r) \in {"unblock", "restore"} -> barred \ {On(r)}
                   [] OTHER -> barred
    /\ End(r)
    /\ UNCHANGED <<line, rows, routines, time, issued, persisted>>

\* AdminUpdateSupplierPhone and its customer twin write the details they read back
\* with another phone.
Contact(r) ==
    /\ At(r, "contact")
    /\ \E call \in Calls :
        line' = IF call.done THEN [line EXCEPT ![On(r)] = req[r].line] ELSE line
    /\ End(r)
    /\ UNCHANGED <<store, rows, routines, time, history>>

\* AdminUpdateSupplierItems reads the items assigned now and works off the
\* difference; RemoveCustomerFromItem reads the whole row of the item.
List(r) ==
    /\ At(r, "list")
    /\ LET o == req[r].order
           current == {i \in Items : On(r) \in rows[i]}
       IN \/ CallsFail /\ End(r)
          \/ /\ IsSupplier(r)
             /\ Continue(r, [req[r] EXCEPT !.add = o.items \ current, !.drop = current \ o.items,
                                           !.pc = IF o.items = current THEN "save" ELSE "items"])
          \/ /\ ~ IsSupplier(r)
             /\ \E i \in o.items : Continue(r, [req[r] EXCEPT !.row = rows[i], !.pc = "put"])
    /\ UNCHANGED <<store, line, rows, routines, time, history>>

\* The next item is assigned, or if none is left to assign, the next removed.  After
\* the last one a supplier's record is saved; a customer's has no items.  The calls
\* for one item are one step: rows has the rows alone, which one call each changes,
\* and a removal that stops before the item's default supplier is cleared is
\* answered with an error, like a call that fails after its effect.
ItemCall(r) ==
    /\ At(r, "items")
    /\ \E i \in IF req[r].add # {} THEN req[r].add ELSE req[r].drop, call \in Calls :
        LET q == [req[r] EXCEPT !.add = @ \ {i}, !.drop = @ \ {i}]
            adds == i \in req[r].add
        IN /\ rows' = IF ~ call.done THEN rows
                      ELSE [rows EXCEPT ![i] = IF adds THEN @ \cup {On(r)} ELSE @ \ {On(r)}]
           /\ IF ~ call.ok THEN End(r)
              ELSE IF q.add \cup q.drop # {} THEN Continue(r, q)
              ELSE IF IsSupplier(r) THEN Continue(r, [q EXCEPT !.pc = "save"])
              ELSE End(r)
    /\ UNCHANGED <<store, line, routines, time, history>>

\* RemoveCustomerFromItem writes back the row it read, without the customer.
PutRow(r) ==
    /\ At(r, "put")
    /\ \E call \in Calls, i \in req[r].order.items :
        rows' = IF ~ call.done THEN rows
                ELSE [rows EXCEPT ![i] = (@ \cap Suppliers) \cup
                                         ((req[r].row \cap Customers) \ {On(r)})]
    /\ End(r)
    /\ UNCHANGED <<store, line, routines, time, history>>

-----------------------------------------------------------------------------
(* Access codes                                                            *)

Locked_EndsEarly(rec) == clock + 1 < rec.until

Locked(rec) == clock < rec.until

\* bumpCodeRegenState: a window starts with the first code drawn in it; the last one
\* it allows locks the code until the window is over.
Counted_OneMore(rec) ==
    LET r == IF rec.count = 0 \/ clock - rec.start >= Window
             THEN [rec EXCEPT !.start = clock, !.count = 1, !.until = 0]
             ELSE [rec EXCEPT !.count = @ + 1]
    IN IF r.count > MaxRegens THEN [r EXCEPT !.until = r.start + Window] ELSE r

Counted(rec) ==
    LET r == IF rec.count = 0 \/ clock - rec.start >= Window
             THEN [rec EXCEPT !.start = clock, !.count = 1, !.until = 0]
             ELSE [rec EXCEPT !.count = @ + 1]
    IN IF r.count >= MaxRegens THEN [r EXCEPT !.until = r.start + Window] ELSE r

\* The record with a new code.  A customer's code is written to ERPNext at once.
Coded_OldPending(s, c, rec) ==
    LET r == [Counted(rec) EXCEPT !.code = c]
    IN IF s \in Customers \/ r.pending # NoCode THEN r
       ELSE [r EXCEPT !.pending = c, !.due = clock + Window]

Coded_DueNow(s, c, rec) ==
    LET r == [Counted(rec) EXCEPT !.code = c]
    IN IF s \in Customers THEN r
       ELSE [r EXCEPT !.pending = c, !.due = clock]

Coded(s, c, rec) ==
    LET r == [Counted(rec) EXCEPT !.code = c]
    IN IF s \in Customers THEN r
       ELSE [r EXCEPT !.pending = c, !.due = clock + Window]

\* The goroutine that is started when the code was saved.
Scheduled(s, c, rec) ==
    {[code |-> c, on |-> s, due |-> rec.due, pc |-> "sleep", rec |-> NewParty]}

Draw(r) ==
    /\ At(r, "draw")
    /\ LET s == On(r)
           c == Len(issued) + 1
           rec == Coded(s, c, req[r].rec)
       IN \/ /\ Locked(req[r].rec) \/ c > MaxCodes
             /\ End(r)
             /\ UNCHANGED <<store, routines, issued>>
          \/ /\ ~ Locked(req[r].rec) /\ c <= MaxCodes
             /\ issued' = Append(issued, [to |-> s, at |-> clock])
             /\ \E ok \in Saves :
                /\ Put(s, rec, ok)
                /\ routines' = IF ok /\ IsSupplier(r) THEN routines \cup Scheduled(s, c, rec)
                               ELSE routines
                /\ IF ok /\ ~ IsSupplier(r)
                   THEN Continue(r, [req[r] EXCEPT !.pc = "push", !.rec = rec])
                   ELSE End(r)
    /\ UNCHANGED <<line, rows, time, persisted, barred>>

\* AdminRegenerateCustomerCode writes the new code to ERPNext itself.
Push(r) ==
    /\ At(r, "push")
    /\ \E call \in Calls :
        LET c == req[r].rec.code IN
        /\ line' = IF call.done THEN [line EXCEPT ![On(r)] = c] ELSE line
        /\ persisted' = IF call.done THEN persisted \cup {c} ELSE persisted
    /\ End(r)
    /\ UNCHANGED <<store, rows, routines, time, issued, barred>>

-----------------------------------------------------------------------------
(* The goroutine of scheduleSupplierCodePersist                            *)

Move(g, pc, rec) == routines' = (routines \ {g}) \cup {[g EXCEPT !.pc = pc, !.rec = rec]}
Finish(g) == routines' = routines \ {g}

\* It gives up unless its code is the one to be persisted, now.
Current_AnyCode(g) == state[g.on].pending # NoCode

Current(g) == state[g.on].pending = g.code /\ state[g.on].due <= clock

Wake(g) ==
    /\ g.pc = "sleep" /\ clock >= g.due
    /\ PersistOverlaps \/ \A r \in Requests : req[r] = Idle
    /\ IF Current(g) THEN Move(g, "put", state[g.on]) ELSE Finish(g)
    /\ UNCHANGED <<store, line, rows, req, time, history>>

\* GetSupplier, then UpdateSupplierDetails with the code's line replaced.
Persist(g) ==
    /\ g.pc = "put"
    /\ \E call \in Calls :
        /\ line' = IF call.done THEN [line EXCEPT ![g.on] = g.code] ELSE line
        /\ persisted' = IF call.done THEN persisted \cup {g.code} ELSE persisted
        /\ IF call.ok THEN Move(g, "clear", g.rec) ELSE Finish(g)
    /\ UNCHANGED <<store, rows, req, time, issued, barred>>

\* The record it read before its calls is saved, with nothing pending.
Clear(g) ==
    /\ g.pc = "clear"
    /\ \E ok \in Saves : Put(g.on, [g.rec EXCEPT !.pending = NoCode, !.due = 0], ok)
    /\ Finish(g)
    /\ UNCHANGED <<line, rows, req, time, history>>

-----------------------------------------------------------------------------
Tick ==
    /\ clock < MaxClock
    /\ clock' = clock + 1
    /\ UNCHANGED <<store, line, rows, req, routines, restarts, history>>

\* Requests and goroutines are lost; a pending code is not taken up again.
Restart ==
    /\ restarts < MaxRestarts
    /\ restarts' = restarts + 1
    /\ state' = file
    /\ req' = [r \in Requests |-> Idle]
    /\ routines' = {}
    /\ UNCHANGED <<file, line, rows, clock, history>>

Step(r) ==
    \/ Look(r) \/ Save(r) \/ Contact(r) \/ List(r) \/ ItemCall(r) \/ PutRow(r)
    \/ Draw(r) \/ Push(r)

Work(g) == Wake(g) \/ Persist(g) \/ Clear(g)

Next ==
    \/ \E r \in Requests : Step(r) \/ \E o \in Orders : Find(r, o)
    \/ \E g \in routines : Work(g)
    \/ Tick
    \/ Restart

Spec == Init /\ [][Next]_vars

\* Time passes, every request and every goroutine goes on: the calls to ERPNext
\* have timeouts.
Fairness ==
    /\ WF_vars(Tick)
    /\ \A r \in Requests : WF_vars(Step(r))
    /\ \A c \in Code : WF_vars(\E g \in routines : g.code = c /\ Work(g))

FairSpec == Spec /\ Fairness

-----------------------------------------------------------------------------
TypeOK ==
    /\ state \in [Parties -> Record] /\ file \in [Parties -> Record]
    /\ line \in [Parties -> Code]
    /\ rows \in [Items -> SUBSET Parties]
    /\ req \in [Requests -> Request \cup {Idle}]
    /\ routines \subseteq Routine
    /\ clock \in 0..MaxClock /\ restarts \in 0..MaxRestarts
    /\ issued \in Seq([to : Parties, at : Nat]) /\ Len(issued) <= MaxCodes
    /\ persisted \subseteq Code /\ barred \subseteq Parties

\* A removed party is blocked as well, in memory and in the file: the code checks one
\* flag or the other (AdminRemoveSupplier sets both, and every write is of a whole
\* record).
RemovedIsBlocked ==
    \A s \in Parties : /\ state[s].removed => state[s].blocked
                       /\ file[s].removed => file[s].blocked

\* A code in ERPNext was drawn for that party, and a supplier's at least a window of
\* time ago (PendingPersistAt), whatever requests, goroutines and failures overlap.
ErpCodeHasStood ==
    \A s \in Parties : line[s] # NoCode =>
        /\ issued[line[s]].to = s
        /\ s \in Suppliers => clock >= issued[line[s]].at + Window

\* Within any window of time, wherever it begins, a party is given fewer than twice
\* the codes one window of the counter allows (bumpCodeRegenState).
RegensLimited ==
    \A s \in Parties, t \in 0..MaxClock :
        Cardinality({c \in DOMAIN issued : /\ issued[c].to = s
                                           /\ issued[c].at \in t..(t + Window - 1)})
            < 2 * MaxRegens

\* A supplier's pending code is its code, and a goroutine is there to persist it
\* (AdminRegenerateSupplierCode, scheduleSupplierCodePersist).
PendingHasRoutine ==
    \A s \in Suppliers : state[s].pending # NoCode =>
        /\ state[s].pending = state[s].code
        /\ \E g \in routines : g.code = state[s].pending /\ g.on = s

\* ERPNext has the latest code that was written to it: no update of a phone brings an
\* earlier one back or erases it (upsertSupplierPhoneInDetails keeps the other lines).
CodeLineKept ==
    \A s \in Parties :
        LET written == {c \in persisted : issued[c].to = s}
        IN /\ line[s] = NoCode => written = {}
           /\ \A c \in written : c <= line[s]

\* A code is on its way to ERPNext until it is there, and there until the next one.
CodesKept == PendingHasRoutine /\ CodeLineKept

\* When no request is at work the record lists the items ERPNext has for the supplier
\* (the record is the fallback of adminAssignedItems).
ItemsAgree ==
    (\A r \in Requests : req[r] = Idle) =>
        \A s \in Suppliers : state[s].items = {i \in Items : s \in rows[i]}

\* Who was last ordered to be blocked or removed is blocked (validateSupplierItemAllowed
\* relies on it).
BlockHolds == \A s \in barred : state[s].blocked

\* A code that stays a party's code reaches ERPNext (bound: codes whose window ends
\* before the clock stops).
CodeReachesErp ==
    \A c \in 1..MaxCodes :
        (c \in DOMAIN issued /\ issued[c].at + Window <= MaxClock)
            ~> (c \in persisted \/ \A s \in Parties : state[s].code # c)

\* The records do what AdminLedger promises.
Ledger == INSTANCE AdminLedger WITH
    Codes <- 1..MaxCodes,
    entry <- [s \in Parties |-> [code |-> state[s].code, blocked |-> state[s].blocked,
                                 removed |-> state[s].removed]],
    used <- DOMAIN issued

LedgerSpec == Ledger!Spec
=============================================================================
