---------------------------- MODULE PushesProofs ----------------------------
(***************************************************************************)
(* For any number of tokens, users, requests, workers and failures: every  *)
(* variable keeps its type, registrations hold, and nobody is left out.    *)
(* They rest on one fact about the requests: the token a request is about  *)
(* to drop is one FCM does not know any more, so that the drop, however    *)
(* late, takes nothing from a phone that still has its token.              *)
(***************************************************************************)
EXTENDS Pushes, FiniteSetTheorems, TLAPS

\* A request drops only tokens that are gone for good.
StaleIsDead == \A h \in Requests : req[h].stale \cap live = {}

\* A request that is telling somebody has a key to tell.
Telling ==
    \A h \in Requests : req[h].pc \in {"sending", "dropping"} => req[h].queue # <<>>

IInv ==
    /\ TypeOK
    /\ Telling
    /\ RegistrationsHold
    /\ StaleIsDead

Map == [Keys -> SUBSET Tokens]

-----------------------------------------------------------------------------
(* The store *)

LEMMA KeyTypes ==
    /\ Werka \in Keys /\ Admin \in Keys /\ Key("supplier", "") \in Keys
    /\ Registrants \subseteq Keys
    /\ \A s \in Suppliers : Key("supplier", s) \in Keys
    /\ \A c \in Customers : Key("customer", c) \in Keys
BY DEF Keys, Registrants

LEMMA AllType ==
    ASSUME TypeOK
    PROVE  All \in Map
BY DEF TypeOK, All, Map

LEMMA ChangeTypes ==
    ASSUME TypeOK, NEW t \in Tokens, NEW k \in Keys
    PROVE  /\ Moved(t, k) \in Map
           /\ Deleted(t, k) \in Map
<1>1. All \in Map
  BY AllType
<1> QED BY <1>1 DEF Moved, Deleted, Map

\* An operation of the store changes nothing, loads the file, or leaves a new map
\* in memory that may have reached the file.
Kept == UNCHANGED <<mem, loaded, file>>
Loaded == mem' = All /\ loaded' = TRUE /\ file' = file
Changed(map) == mem' = map /\ loaded' = TRUE /\ file' \in {file, map}

LEMMA KeptFrame ==
    ASSUME TypeOK, Kept \/ Loaded
    PROVE  /\ mem' \in Map /\ file' \in Map /\ loaded' \in BOOLEAN
           /\ All' = All /\ file' = file
<1>1. All \in Map
  BY AllType
<1>2. CASE Kept
  BY <1>2 DEF Kept, TypeOK, All, Map
<1>3. CASE Loaded
  BY <1>1, <1>3 DEF Loaded, TypeOK, All, Map
<1> QED BY <1>2, <1>3

LEMMA ChangedFrame ==
    ASSUME TypeOK, NEW map \in Map, Changed(map)
    PROVE  /\ mem' \in Map /\ file' \in Map /\ loaded' \in BOOLEAN
           /\ All' = map /\ file' \in {file, map}
BY DEF Changed, TypeOK, All, Map

LEMMA FaultType ==
    ASSUME TypeOK, Fault
    PROVE  faults' \in Nat
BY DEF TypeOK, Fault

LEMMA StoreCases ==
    ASSUME TypeOK
    PROVE  /\ LoadFails => Kept /\ faults' \in Nat
           /\ Load => Loaded /\ faults' \in Nat
           /\ \A map \in Map : Saved(map) \/ NotSaved(map) =>
                                   Changed(map) /\ faults' \in Nat
BY FaultType DEF LoadFails, Load, Saved, NotSaved, Put, Kept, Loaded, Changed, TypeOK

-----------------------------------------------------------------------------
(* Registrations *)

\* What RegistrationsHold says of one map.
Right(map, t) ==
    /\ \A j, k \in Owners(map, t) : j = k
    /\ t \in live /\ last[t] # Unknown => Owners(map, t) = {last[t]} \ {None}

LEMMA RegistrationsByMap ==
    RegistrationsHold <=> \A t \in Tokens : Right(All, t) /\ Right(file, t)
BY DEF RegistrationsHold, Right

LEMMA OwnersAfter ==
    ASSUME TypeOK, NEW t \in Tokens, NEW s \in Tokens, NEW k \in Keys
    PROVE  /\ Owners(Moved(t, k), s) = IF s = t THEN {k} ELSE Owners(All, s)
           /\ Owners(Deleted(t, k), s)
                = IF s = t THEN Owners(All, s) \ {k} ELSE Owners(All, s)
<1>1. All \in Map
  BY AllType
<1> QED BY <1>1 DEF Moved, Deleted, Owners, Map

\* A step that leaves maps and history alone, or forgets tokens of FCM, keeps
\* what is registered.
LEMMA RegistrationsFrame ==
    ASSUME RegistrationsHold, All' = All, file' = file, last' = last, live' \subseteq live
    PROVE  RegistrationsHold'
<1>1. ASSUME NEW t \in Tokens, NEW map, Right(map, t)
      PROVE  /\ \A j, k \in Owners(map, t) : j = k
             /\ t \in live' /\ last'[t] # Unknown => Owners(map, t) = {last'[t]} \ {None}
  BY <1>1 DEF Right
<1> QED BY <1>1, RegistrationsByMap DEF RegistrationsHold, Owners

-----------------------------------------------------------------------------
(* The requests *)

\* What a request may become.
Sound(x) ==
    /\ x \in Request
    /\ x.pc \in {"sending", "dropping"} => x.queue # <<>>
    /\ x.stale \cap live = {}

LEMMA SoundNow ==
    ASSUME TypeOK, Telling, StaleIsDead, NEW h \in Requests
    PROVE  Sound(req[h])
BY DEF TypeOK, Telling, StaleIsDead, Sound

LEMMA RequestStep ==
    ASSUME TypeOK, Telling, StaleIsDead, NEW h \in Requests, NEW x, Sound(x),
           req' = [req EXCEPT ![h] = x], live' = live
    PROVE  req' \in [Requests -> Request] /\ Telling' /\ StaleIsDead'
<1>1. req' \in [Requests -> Request]
  BY DEF TypeOK, Sound
<1>2. \A g \in Requests : req'[g] = IF g = h THEN x ELSE req[g]
  BY DEF TypeOK
<1> QED BY <1>1, <1>2 DEF Telling, StaleIsDead, Sound

\* A step of a request that leaves the store alone.
LEMMA RequestInv ==
    ASSUME IInv, UNCHANGED Store,
           NEW h \in Requests, NEW x, Sound(x), req' = [req EXCEPT ![h] = x]
    PROVE  IInv'
<1>1. req' \in [Requests -> Request] /\ Telling' /\ StaleIsDead'
  BY RequestStep DEF IInv, Store
<1>2. TypeOK'
  BY <1>1 DEF IInv, TypeOK, Store
<1>3. All' = All
  BY DEF All, Store
<1>4. RegistrationsHold'
  BY <1>3, RegistrationsFrame DEF IInv, Store
<1> QED BY <1>1, <1>2, <1>4 DEF IInv

\* The lines of a batch that have come to the same are finitely many.
LEMMA LinesFinite ==
    ASSUME NEW S \in SUBSET Lines
    PROVE  Cardinality(S) \in Nat
BY PushesAssumption, FS_Subset, FS_CardinalityType

\* The queues there are.
LEMMA QueueTypes ==
    ASSUME NEW a \in Keys, NEW b \in Keys
    PROVE  /\ <<>> \in Seq(Keys) /\ <<a>> \in Seq(Keys) /\ <<a, b>> \in Seq(Keys)
           /\ \A n \in Nat : [i \in 1 .. n |-> a] \in Seq(Keys)
OBVIOUS

LEMMA IdleSound == Idle \in Request /\ Sound(Idle)
BY DEF Idle, Request, Sound, Ops

LEMMA BegunSound ==
    ASSUME NEW op \in Ops, NEW pc \in {"answered", "creating", "listing"},
           NEW queue \in Seq(Keys), NEW due \in SUBSET Tokens
    PROVE  Sound([Idle EXCEPT !.pc = pc, !.op = op, !.queue = queue, !.due = due])
BY DEF Idle, Request, Sound

LEMMA TellInv ==
    ASSUME IInv, NEW h \in Requests, NEW op \in Ops, NEW queue \in Seq(Keys),
           NEW party \in SUBSET Keys, Tell(h, op, queue, party)
    PROVE  IInv'
<1> DEFINE failed == [Idle EXCEPT !.pc = "answered", !.op = op]
           begun  == [Idle EXCEPT !.pc = "listing", !.op = op, !.queue = queue,
                                  !.due = live \cap UNION {All[k] : k \in party}]
<1>1. Sound(failed)
  BY IdleSound DEF Request, Sound
<1>2. live \cap UNION {All[k] : k \in party} \in SUBSET Tokens
  BY DEF IInv, TypeOK
<1>3. Sound(begun)
  BY <1>2, BegunSound
<1>4. UNCHANGED Store /\ (req' = [req EXCEPT ![h] = failed] \/ req' = [req EXCEPT ![h] = begun])
  BY DEF Tell
<1> QED BY <1>1, <1>3, <1>4, RequestInv

LEMMA BeginInv ==
    ASSUME IInv, NEW h \in Requests, Begin(h)
    PROVE  IInv'
<1>1. /\ <<Werka>> \in Seq(Keys) /\ <<Werka, Admin>> \in Seq(Keys)
      /\ <<>> \in Seq(Keys) /\ <<Key("supplier", "")>> \in Seq(Keys)
      /\ {Werka} \in SUBSET Keys /\ {} \in SUBSET Keys
  <2>1. Werka \in Keys /\ Admin \in Keys /\ Key("supplier", "") \in Keys
    BY KeyTypes
  <2> QED BY <2>1, QueueTypes
<1>2. ASSUME NEW s \in Suppliers
      PROVE  <<Key("supplier", s)>> \in Seq(Keys) /\ {Key("supplier", s)} \in SUBSET Keys
  <2>1. Key("supplier", s) \in Keys
    BY KeyTypes
  <2> QED BY <2>1, QueueTypes
<1>3. ASSUME NEW c \in Customers
      PROVE  <<Key("customer", c)>> \in Seq(Keys) /\ {Key("customer", c)} \in SUBSET Keys
  <2>1. Key("customer", c) \in Keys
    BY KeyTypes
  <2> QED BY <2>1, QueueTypes
<1>4. CASE CreateDispatch(h)
  BY <1>1, <1>4, TellInv DEF CreateDispatch, Ops
<1>5. CASE SupplierUnannouncedRespond(h)
  BY <1>1, <1>5, TellInv DEF SupplierUnannouncedRespond, Ops
<1>6. CASE NotificationComment(h)
  BY <1>1, <1>6, TellInv DEF NotificationComment, Ops
<1>7. CASE CustomerRespond(h)
  BY <1>1, <1>7, TellInv DEF CustomerRespond, Ops
<1>8. ASSUME NEW s \in Suppliers, WerkaConfirm(h, s)
      PROVE  IInv'
  BY <1>1, <1>2, <1>8, TellInv DEF WerkaConfirm, Ops
<1>9. ASSUME NEW s \in Suppliers, WerkaUnannouncedCreate(h, s)
      PROVE  IInv'
  BY <1>2, <1>9, TellInv DEF WerkaUnannouncedCreate, Ops
<1>10. ASSUME NEW c \in Customers, WerkaCustomerIssueCreate(h, c)
       PROVE  IInv'
  BY <1>3, <1>10, TellInv DEF WerkaCustomerIssueCreate, Ops
<1>11. CASE BatchCreate(h)
  <2> DEFINE begun == [Idle EXCEPT !.pc = "creating", !.op = "batch"]
  <2>1. Sound(begun)
    BY IdleSound DEF Request, Sound, Ops
  <2>2. UNCHANGED Store /\ req' = [req EXCEPT ![h] = begun]
    BY <1>11 DEF BatchCreate
  <2> QED BY <2>1, <2>2, RequestInv
<1> QED
  BY <1>4, <1>5, <1>6, <1>7, <1>8, <1>9, <1>10, <1>11 DEF Begin

LEMMA NextKeySound ==
    ASSUME IInv, NEW h \in Requests, req[h].queue # <<>>
    PROVE  Sound(NextKey(h)) /\ NextKey(h).pc = "listing"
<1>1. Sound(req[h]) /\ req[h] \in Request
  BY SoundNow DEF IInv, TypeOK
<1>2. Tail(req[h].queue) \in Seq(Keys)
  BY <1>1 DEF Request
<1> QED BY <1>1, <1>2 DEF NextKey, Sound, Request

LEMMA BatchInv ==
    ASSUME IInv, NEW h \in Requests,
           \/ BatchTake(h) \/ BatchLine(h) \/ (\E c \in Customers : BatchTell(h, c))
           \/ Answer(h) \/ SendEnd(h)
    PROVE  IInv'
<1>1. Sound(req[h]) /\ req[h] \in Request /\ TypeOK
  BY SoundNow DEF IInv, TypeOK
<1>2. ASSUME NEW i \in Lines, NEW v \in {"todo", "doing", "created", "failed"},
             req' = [req EXCEPT ![h].line[i] = v], UNCHANGED Store
      PROVE  IInv'
  <2> DEFINE x == [req[h] EXCEPT !.line = [@ EXCEPT ![i] = v]]
  <2>1. Sound(x)
    BY <1>1 DEF Sound, Request
  <2>2. req' = [req EXCEPT ![h] = x]
    BY <1>1, <1>2 DEF TypeOK, Request
  <2> QED BY <1>2, <2>1, <2>2, RequestInv
<1>3. CASE BatchTake(h)
  BY <1>2, <1>3 DEF BatchTake, In
<1>4. CASE BatchLine(h)
  BY <1>2, <1>4 DEF BatchLine, In
<1>5. ASSUME NEW c \in Customers, BatchTell(h, c)
      PROVE  IInv'
  <2> DEFINE n == Cardinality(In(h, {"created"}))
             x == [req[h] EXCEPT !.pc = "listing",
                                 !.queue = [i \in 1 .. n |-> Key("customer", c)]]
  <2>1. n \in Nat
    BY <1>1, LinesFinite DEF In
  <2>2. [i \in 1 .. n |-> Key("customer", c)] \in Seq(Keys)
    BY <2>1, KeyTypes, QueueTypes
  <2>3. Sound(x)
    BY <1>1, <2>2 DEF Sound, Request
  <2>4. req' = [req EXCEPT ![h] = x] /\ UNCHANGED Store
    BY <1>1, <1>5 DEF BatchTell, TypeOK, Request
  <2> QED BY <2>3, <2>4, RequestInv
<1>6. CASE Answer(h)
  <2> DEFINE x == [req[h] EXCEPT !.pc = "answered"]
  <2>1. Sound(x)
    BY <1>1 DEF Sound, Request
  <2>2. req' = [req EXCEPT ![h] = x] /\ UNCHANGED Store
    BY <1>1, <1>6 DEF Answer, TypeOK, Request
  <2> QED BY <2>1, <2>2, RequestInv
<1>7. CASE SendEnd(h)
  <2>1. req[h].queue # <<>>
    BY <1>7 DEF SendEnd, IInv, Telling
  <2> QED BY <1>7, <2>1, NextKeySound, RequestInv DEF SendEnd
<1> QED BY <1>3, <1>4, <1>5, <1>6, <1>7

\* A step of a request that reads the store at most.
LEMMA ReadingInv ==
    ASSUME IInv, Kept \/ Loaded, faults' \in Nat, UNCHANGED <<live, last>>,
           NEW h \in Requests, NEW x, Sound(x), req' = [req EXCEPT ![h] = x]
    PROVE  IInv'
<1>1. req' \in [Requests -> Request] /\ Telling' /\ StaleIsDead'
  BY RequestStep DEF IInv
<1>2. /\ mem' \in Map /\ file' \in Map /\ loaded' \in BOOLEAN
      /\ All' = All /\ file' = file
  BY KeptFrame DEF IInv
<1>3. TypeOK'
  BY <1>1, <1>2 DEF IInv, TypeOK, Map
<1>4. RegistrationsHold'
  BY <1>2, RegistrationsFrame DEF IInv
<1> QED BY <1>1, <1>3, <1>4 DEF IInv

LEMMA SendListInv ==
    ASSUME IInv, NEW h \in Requests, SendList(h)
    PROVE  IInv'
<1> DEFINE tokens == All[Head(req[h].queue)]
           next   == [req[h] EXCEPT !.pc = "sending", !.left = tokens]
           missed == [NextKey(h) EXCEPT !.due = @ \ tokens]
<1>1. Sound(req[h]) /\ req[h] \in Request /\ TypeOK
  BY SoundNow DEF IInv, TypeOK
<1>2. req[h].queue # <<>> /\ req[h].queue \in Seq(Keys)
  BY <1>1 DEF SendList, Request
<1>3. tokens \in SUBSET Tokens
  <2>1. Head(req[h].queue) \in Keys
    BY <1>2
  <2> QED BY <1>1, <2>1, AllType DEF Map
<1>4. Sound(NextKey(h)) /\ NextKey(h) \in Request /\ NextKey(h).pc = "listing"
  BY <1>2, NextKeySound DEF Sound
<1>5. Sound(next)
  BY <1>1, <1>2, <1>3 DEF Sound, Request
<1>6. Sound(missed)
  BY <1>3, <1>4 DEF Sound, Request
<1>7. CASE Load /\ (req' = [req EXCEPT ![h] = NextKey(h)] \/ req' = [req EXCEPT ![h] = next])
  <2>1. Loaded /\ faults' \in Nat
    BY <1>1, <1>7, StoreCases
  <2> QED BY <1>4, <1>5, <1>7, <2>1, ReadingInv DEF SendList
<1>8. CASE (LoadFails \/ (Fault /\ Put(All) /\ UNCHANGED file))
             /\ req' = [req EXCEPT ![h] = missed]
  <2>1. (Kept \/ Loaded) /\ faults' \in Nat
    BY <1>1, <1>8, StoreCases, FaultType DEF Put, Loaded
  <2> QED BY <1>6, <1>8, <2>1, ReadingInv DEF SendList
<1>9. \/ Load /\ (req' = [req EXCEPT ![h] = NextKey(h)] \/ req' = [req EXCEPT ![h] = next])
      \/ (LoadFails \/ (Fault /\ Put(All) /\ UNCHANGED file))
             /\ req' = [req EXCEPT ![h] = missed]
  BY DEF SendList
<1> QED
  BY <1>7, <1>8, <1>9

LEMMA SendPostInv ==
    ASSUME IInv, NEW h \in Requests, NEW t \in Tokens, SendPost(h, t)
    PROVE  IInv'
<1> DEFINE told    == [req[h] EXCEPT !.left = @ \ {t}, !.due = @ \ {t}]
           refused == [AfterFailure(h, t) EXCEPT !.pc = "dropping", !.stale = {t}]
           failed  == [AfterFailure(h, t) EXCEPT !.due = @ \ {t}]
<1>1. Sound(req[h]) /\ req[h] \in Request /\ TypeOK /\ req[h].queue # <<>>
  BY SoundNow DEF IInv, TypeOK, Telling, SendPost
<1>2. Kept /\ UNCHANGED <<live, last>>
  BY DEF SendPost, Kept
<1>3. CASE req' = [req EXCEPT ![h] = told] /\ UNCHANGED faults
  <2>1. Sound(told)
    BY <1>1 DEF Sound, Request
  <2> QED BY <1>1, <1>2, <1>3, <2>1, ReadingInv DEF TypeOK
<1>4. CASE Refused(h, t) /\ req' = [req EXCEPT ![h] = refused] /\ UNCHANGED faults
  <2>1. Sound(refused)
    BY <1>1, <1>4 DEF Sound, Request, AfterFailure, Refused
  <2> QED BY <1>1, <1>2, <1>4, <2>1, ReadingInv DEF TypeOK
<1>5. CASE Fault /\ req' = [req EXCEPT ![h] = failed]
  <2>1. Sound(failed)
    BY <1>1 DEF Sound, Request, AfterFailure
  <2> QED BY <1>1, <1>2, <1>5, <2>1, FaultType, ReadingInv
<1>6. \/ req' = [req EXCEPT ![h] = told] /\ UNCHANGED faults
      \/ Refused(h, t) /\ req' = [req EXCEPT ![h] = refused] /\ UNCHANGED faults
      \/ Fault /\ req' = [req EXCEPT ![h] = failed]
  BY DEF SendPost
<1> QED
  BY <1>3, <1>4, <1>5, <1>6

-----------------------------------------------------------------------------
(* The steps that change the store *)

\* A changed map, which reached the file or did not, that is right by the
\* history after the step.
LEMMA ChangedInv ==
    ASSUME IInv, NEW map \in Map, Changed(map), faults' \in Nat,
           req' \in [Requests -> Request], Telling', StaleIsDead', live' = live,
           last' \in [Tokens -> Keys \cup {None, Unknown}],
           \A t \in Tokens : \A m \in {map, file'} :
               /\ \A j, k \in Owners(m, t) : j = k
               /\ t \in live /\ last'[t] # Unknown => Owners(m, t) = {last'[t]} \ {None}
    PROVE  IInv'
<1>1. /\ mem' \in Map /\ file' \in Map /\ loaded' \in BOOLEAN
      /\ All' = map
  BY ChangedFrame DEF IInv
<1>2. TypeOK'
  BY <1>1 DEF IInv, TypeOK, Map
<1>3. RegistrationsHold'
  BY <1>1 DEF RegistrationsHold, Owners
<1> QED BY <1>2, <1>3 DEF IInv

LEMMA SendDropInv ==
    ASSUME IInv, NEW h \in Requests, SendDrop(h)
    PROVE  IInv'
<1> DEFINE x == [req[h] EXCEPT !.pc = "sending", !.stale = {}]
           key == Head(req[h].queue)
<1>1. Sound(req[h]) /\ req[h] \in Request /\ TypeOK /\ req[h].queue # <<>>
  BY SoundNow DEF IInv, TypeOK, Telling, SendDrop
<1>2. Sound(x)
  BY <1>1 DEF Sound, Request
<1>3. req' = [req EXCEPT ![h] = x] /\ UNCHANGED <<live, last>>
  BY <1>1 DEF SendDrop, TypeOK, Request
<1>4. req' \in [Requests -> Request] /\ Telling' /\ StaleIsDead'
  BY <1>2, <1>3, RequestStep DEF IInv
<1>5. key \in Keys
  BY <1>1 DEF Request
<1>6. PICK t \in req[h].stale : LoadFails \/ Saved(Deleted(t, key)) \/ NotSaved(Deleted(t, key))
  BY DEF SendDrop
<1>7. t \in Tokens /\ t \notin live
  BY <1>1, <1>6 DEF Sound, Request
<1>8. CASE LoadFails
  BY <1>1, <1>2, <1>3, <1>8, StoreCases, ReadingInv
<1>9. CASE Saved(Deleted(t, key)) \/ NotSaved(Deleted(t, key))
  <2> DEFINE map == Deleted(t, key)
  <2>1. map \in Map
    BY <1>1, <1>5, <1>7, ChangeTypes
  <2>2. Changed(map) /\ faults' \in Nat
    BY <1>1, <1>9, <2>1, StoreCases
  <2>3. ASSUME NEW s \in Tokens
        PROVE  /\ \A j, k \in Owners(map, s) : j = k
               /\ s \in live /\ last[s] # Unknown => Owners(map, s) = {last[s]} \ {None}
    <3>1. Owners(map, s) = IF s = t THEN Owners(All, s) \ {key} ELSE Owners(All, s)
      BY <1>1, <1>5, <1>7, OwnersAfter
    <3>2. Right(All, s)
      BY RegistrationsByMap DEF IInv
    <3> QED BY <1>7, <3>1, <3>2 DEF Right
  <2>4. \A s \in Tokens : Right(file, s)
    BY RegistrationsByMap DEF IInv
  <2>5. file' \in {file, map}
    BY <2>2 DEF Changed
  <2>6. last' \in [Tokens -> Keys \cup {None, Unknown}] /\ last' = last
    BY <1>1, <1>3 DEF TypeOK
  <2>7. \A s \in Tokens : \A m \in {map, file'} :
             /\ \A j, k \in Owners(m, s) : j = k
             /\ s \in live /\ last'[s] # Unknown => Owners(m, s) = {last'[s]} \ {None}
    BY <2>3, <2>4, <2>5, <2>6 DEF Right
  <2> QED BY <1>3, <1>4, <2>1, <2>2, <2>6, <2>7, ChangedInv
<1> QED BY <1>6, <1>8, <1>9

LEMMA ExcusedSteps ==
    ASSUME IInv, NEW t \in Tokens, req' = Excused({t}), live' \subseteq live
    PROVE  req' \in [Requests -> Request] /\ Telling' /\ StaleIsDead'
<1>1. ASSUME NEW h \in Requests
      PROVE  /\ [req[h] EXCEPT !.due = @ \ {t}] \in Request
             /\ [req[h] EXCEPT !.due = @ \ {t}].pc = req[h].pc
             /\ [req[h] EXCEPT !.due = @ \ {t}].queue = req[h].queue
             /\ [req[h] EXCEPT !.due = @ \ {t}].stale = req[h].stale
  <2>1. req[h] \in Request
    BY DEF IInv, TypeOK
  <2> QED BY <2>1 DEF Request
<1>2. req' = [h \in Requests |-> [req[h] EXCEPT !.due = @ \ {t}]]
  BY DEF Excused
<1> QED BY <1>1, <1>2 DEF IInv, Telling, StaleIsDead

\* A request about t that has changed the map, and what it notes as the place of t.
LEMMA PhoneInv ==
    ASSUME IInv, NEW t \in Tokens, NEW k \in Keys, NEW map \in Map,
           Changed(map), faults' \in Nat, live' = live, req' = Excused({t}),
           NEW at \in Keys \cup {None, Unknown},
           last' = [last EXCEPT ![t] = at],
           \A s \in Tokens \ {t} : Owners(map, s) = Owners(All, s),
           \A i, j \in Owners(map, t) : i = j,
           at # Unknown => Owners(map, t) = {at} \ {None} /\ file' = map
    PROVE  IInv'
<1>1. req' \in [Requests -> Request] /\ Telling' /\ StaleIsDead'
  BY ExcusedSteps
<1>2. last' \in [Tokens -> Keys \cup {None, Unknown}]
  BY DEF IInv, TypeOK
<1>3. \A s \in Tokens : last'[s] = IF s = t THEN at ELSE last[s]
  BY DEF IInv, TypeOK
<1>4. \A s \in Tokens : Right(All, s) /\ Right(file, s)
  BY RegistrationsByMap DEF IInv
<1>5. file' \in {file, map}
  BY DEF Changed
<1>6. ASSUME NEW s \in Tokens \ {t}, NEW m \in {map, file'}
      PROVE  /\ \A i, j \in Owners(m, s) : i = j
             /\ s \in live /\ last'[s] # Unknown => Owners(m, s) = {last'[s]} \ {None}
  <2>1. Owners(m, s) = Owners(All, s) \/ Owners(m, s) = Owners(file, s)
    BY <1>5, <1>6
  <2> QED BY <1>3, <1>4, <1>6, <2>1 DEF Right
<1>7. ASSUME NEW m \in {map, file'}
      PROVE  /\ \A i, j \in Owners(m, t) : i = j
             /\ t \in live /\ last'[t] # Unknown => Owners(m, t) = {last'[t]} \ {None}
  BY <1>3, <1>4, <1>5, <1>7 DEF Right
<1>8. \A s \in Tokens : \A m \in {map, file'} :
          /\ \A j, i \in Owners(m, s) : j = i
          /\ s \in live /\ last'[s] # Unknown => Owners(m, s) = {last'[s]} \ {None}
  BY <1>6, <1>7
<1> QED BY <1>1, <1>2, <1>8, ChangedInv

\* An operation on a token that could not load the map.
LEMMA PhoneRefused ==
    ASSUME IInv, Kept, faults' \in Nat, UNCHANGED <<live, last, req>>
    PROVE  IInv'
<1>1. /\ mem' \in Map /\ file' \in Map /\ loaded' \in BOOLEAN
      /\ All' = All /\ file' = file
  BY KeptFrame DEF IInv
<1>2. TypeOK'
  BY <1>1 DEF IInv, TypeOK, Map
<1>3. RegistrationsHold'
  BY <1>1, RegistrationsFrame DEF IInv
<1>4. Telling' /\ StaleIsDead'
  BY DEF IInv, Telling, StaleIsDead
<1> QED BY <1>2, <1>3, <1>4 DEF IInv

\* No key, and the mark of a failed request, are no keys.
LEMMA NoKeys == None \notin Keys /\ Unknown \notin Keys /\ None # Unknown
BY DEF None, Unknown, Keys, Registrants, Key, Werka, Admin

LEMMA RegisterInv ==
    ASSUME IInv, NEW t \in Tokens, NEW k \in Registrants, Register(t, k)
    PROVE  IInv'
<1> DEFINE map == Moved(t, k)
<1>1. TypeOK /\ k \in Keys
  BY KeyTypes DEF IInv
<1>2. map \in Map
  BY <1>1, ChangeTypes
<1>3. \A s \in Tokens : Owners(map, s) = IF s = t THEN {k} ELSE Owners(All, s)
  BY <1>1, OwnersAfter
<1>4. CASE LoadFails /\ UNCHANGED <<last, req>>
  BY <1>1, <1>4, StoreCases, PhoneRefused DEF Register
<1>5. ASSUME NEW at \in {k, Unknown}, last' = [last EXCEPT ![t] = at],
             Saved(map) \/ NotSaved(map), at = k => Saved(map), req' = Excused({t})
      PROVE  IInv'
  <2>1. Changed(map) /\ faults' \in Nat
    BY <1>1, <1>2, <1>5, StoreCases
  <2>2. at # Unknown => Owners(map, t) = {at} \ {None} /\ file' = map
    BY <1>1, <1>3, <1>5, NoKeys DEF Saved
  <2>3. live' = live
    BY DEF Register
  <2>4. \A s \in Tokens \ {t} : Owners(map, s) = Owners(All, s)
    BY <1>3
  <2>5. \A i, j \in Owners(map, t) : i = j
    BY <1>3
  <2>6. at \in Keys \cup {None, Unknown}
    BY <1>1, <1>5
  <2> QED BY <1>1, <1>2, <1>5, <2>1, <2>2, <2>3, <2>4, <2>5, <2>6, PhoneInv
<1>6. \/ LoadFails /\ UNCHANGED <<last, req>>
      \/ Saved(map) /\ last' = [last EXCEPT ![t] = k] /\ req' = Excused({t})
      \/ NotSaved(map) /\ last' = [last EXCEPT ![t] = Unknown] /\ req' = Excused({t})
  BY DEF Register
<1>7. k # Unknown
  BY <1>1, NoKeys
<1> HIDE DEF map
<1> QED BY <1>4, <1>5, <1>6, <1>7

LEMMA UnregisterInv ==
    ASSUME IInv, NEW t \in Tokens, NEW k \in Registrants, Unregister(t, k)
    PROVE  IInv'
<1> DEFINE map == Deleted(t, k)
<1>1. TypeOK /\ k \in Keys
  BY KeyTypes DEF IInv
<1>2. map \in Map
  BY <1>1, ChangeTypes
<1>3. \A s \in Tokens :
          Owners(map, s) = IF s = t THEN Owners(All, s) \ {k} ELSE Owners(All, s)
  BY <1>1, OwnersAfter
<1>4. \A s \in Tokens : Right(All, s) /\ Right(file, s)
  BY RegistrationsByMap DEF IInv
<1>5. CASE LoadFails /\ UNCHANGED <<last, req>>
  BY <1>1, <1>5, StoreCases, PhoneRefused DEF Unregister
<1>6. ASSUME NEW at \in {None, Unknown}, Saved(map) \/ NotSaved(map),
             last' = IF last[t] = k THEN [last EXCEPT ![t] = at] ELSE last,
             at = None => Saved(map), req' = Excused({t})
      PROVE  IInv'
  <2>1. Changed(map) /\ faults' \in Nat
    BY <1>1, <1>2, <1>6, StoreCases
  <2>2. live' = live
    BY DEF Unregister
  <2>3. req' \in [Requests -> Request] /\ Telling' /\ StaleIsDead'
    BY <1>6, <2>2, ExcusedSteps
  <2>4. last' \in [Tokens -> Keys \cup {None, Unknown}]
    BY <1>1, <1>6 DEF TypeOK
  <2>5. \A s \in Tokens : last'[s] = IF s = t /\ last[t] = k THEN at ELSE last[s]
    BY <1>1, <1>6 DEF TypeOK
  <2>6. file' \in {file, map} /\ (at = None => file' = map)
    BY <1>6, <2>1 DEF Changed, Saved
  <2>7. ASSUME NEW s \in Tokens, NEW m \in {map, file'}
        PROVE  /\ \A i, j \in Owners(m, s) : i = j
               /\ s \in live /\ last'[s] # Unknown => Owners(m, s) = {last'[s]} \ {None}
    <3>1. CASE s # t
      BY <1>3, <1>4, <2>5, <2>6, <2>7, <3>1 DEF Right
    <3>2. CASE s = t /\ last[t] = k
      <4>1. k # Unknown /\ k # None
        BY <1>1, NoKeys
      <4> QED BY <1>3, <1>4, <2>5, <2>6, <2>7, <3>2, <4>1 DEF Right
    <3>3. CASE s = t /\ last[t] # k
      BY <1>3, <1>4, <2>5, <2>6, <2>7, <3>3 DEF Right
    <3> QED BY <3>1, <3>2, <3>3
  <2>8. map \in Map /\ Changed(map)
    BY <1>2, <2>1
  <2> HIDE DEF map
  <2> QED BY <2>1, <2>2, <2>3, <2>4, <2>7, <2>8, ChangedInv
<1>7. \/ LoadFails /\ UNCHANGED <<last, req>>
      \/ /\ Saved(map) /\ req' = Excused({t})
         /\ last' = IF last[t] = k THEN [last EXCEPT ![t] = None] ELSE last
      \/ /\ NotSaved(map) /\ req' = Excused({t})
         /\ last' = IF last[t] = k THEN [last EXCEPT ![t] = Unknown] ELSE last
  BY DEF Unregister
<1>8. None # Unknown
  BY NoKeys
<1> HIDE DEF map
<1> QED BY <1>5, <1>6, <1>7, <1>8

LEMMA UninstallInv ==
    ASSUME IInv, NEW t \in Tokens, Uninstall(t)
    PROVE  IInv'
<1>1. live' \subseteq live /\ UNCHANGED <<mem, loaded, file, faults, last>>
  BY DEF Uninstall
<1>2. req' \in [Requests -> Request] /\ Telling' /\ StaleIsDead'
  BY <1>1, ExcusedSteps DEF Uninstall
<1>3. TypeOK'
  BY <1>1, <1>2 DEF IInv, TypeOK
<1>4. All' = All
  BY <1>1 DEF All
<1>5. RegistrationsHold'
  BY <1>1, <1>4, RegistrationsFrame DEF IInv
<1> QED BY <1>2, <1>3, <1>5 DEF IInv

LEMMA RestartInv ==
    ASSUME IInv, Restart
    PROVE  IInv'
<1>1. TypeOK'
  BY IdleSound DEF IInv, TypeOK, Restart
<1>2. Telling' /\ StaleIsDead'
  BY DEF Restart, Telling, StaleIsDead, Idle
<1>3. All' = file /\ UNCHANGED <<file, live, last>>
  BY DEF Restart, All
<1>4. RegistrationsHold'
  BY <1>3 DEF IInv, RegistrationsHold, Owners
<1> QED BY <1>1, <1>2, <1>4 DEF IInv

LEMMA InitInv == Init => IInv
<1> SUFFICES ASSUME Init PROVE IInv
  OBVIOUS
<1>1. TypeOK
  <2>1. \A t \in Tokens : last[t] \in Keys \cup {None, Unknown}
    BY DEF Init, Owners
  <2> QED BY <2>1, IdleSound DEF Init, TypeOK
<1>2. Telling /\ StaleIsDead
  BY DEF Init, Telling, StaleIsDead, Idle
<1>3. All = file
  BY DEF Init, All
<1>4. ASSUME NEW t \in Tokens
      PROVE  Right(file, t)
  <2>1. \A j, k \in Owners(file, t) : j = k
    BY DEF Init
  <2>2. CASE Owners(file, t) = {}
    BY <2>1, <2>2 DEF Init, Right
  <2>3. CASE Owners(file, t) # {}
    <3>1. last[t] \in Keys /\ t \in file[last[t]]
      BY <2>3 DEF Init, Owners
    <3>2. last[t] # None
      BY <3>1, NoKeys
    <3> QED BY <2>1, <3>1, <3>2 DEF Right, Owners
  <2> QED BY <2>2, <2>3
<1> QED BY <1>1, <1>2, <1>3, <1>4, RegistrationsByMap DEF IInv

LEMMA NextInv == IInv /\ [Next]_vars => IInv'
<1> SUFFICES ASSUME IInv, [Next]_vars PROVE IInv'
  OBVIOUS
<1>1. CASE UNCHANGED vars
  BY <1>1 DEF vars, IInv, TypeOK, Telling, StaleIsDead, RegistrationsHold, Owners, All
<1>2. ASSUME NEW h \in Requests, Work(h)
      PROVE  IInv'
  BY <1>2, BatchInv, SendListInv, SendPostInv, SendDropInv DEF Work
<1>3. live \subseteq Tokens
  BY DEF IInv, TypeOK
<1>4. ASSUME NEW h \in Requests, Begin(h)
      PROVE  IInv'
  BY <1>4, BeginInv
<1>5. ASSUME NEW t \in Tokens, NEW k \in Registrants, Register(t, k) \/ Unregister(t, k)
      PROVE  IInv'
  BY <1>5, RegisterInv, UnregisterInv
<1>6. ASSUME NEW t \in Tokens, Uninstall(t)
      PROVE  IInv'
  BY <1>6, UninstallInv
<1>7. CASE Restart
  BY <1>7, RestartInv
<1>8. CASE Next
  BY <1>2, <1>3, <1>4, <1>5, <1>6, <1>7, <1>8 DEF Next
<1> QED BY <1>1, <1>8

-----------------------------------------------------------------------------
(* Nobody is left out *)

\* The phones under the keys of a queue.
Reach(queue, map) == {t \in Tokens : \E i \in DOMAIN queue : t \in map[queue[i]]}

\* Whom a request owes a message it will still call, if it tells the right keys.
Owed(x, map, lv) ==
    /\ x.due \subseteq lv
    /\ x.op # "confirm" =>
          /\ x.pc \in {"idle", "creating", "answered"} => x.due = {}
          /\ x.pc = "listing" => x.due \subseteq Reach(x.queue, map)
          /\ x.pc \in {"sending", "dropping"} =>
                x.due \subseteq x.left \cup Reach(Tail(x.queue), map)

AllOwed == \A h \in Requests : Owed(req[h], All, live)

LEMMA OwedImplies == AllOwed => NobodyLeftOut
BY DEF AllOwed, Owed, NobodyLeftOut

\* What is under the first key and under the others.
LEMMA ReachParts ==
    ASSUME NEW queue \in Seq(Keys), queue # <<>>, NEW map \in Map
    PROVE  Reach(queue, map) \subseteq map[Head(queue)] \cup Reach(Tail(queue), map)
<1> SUFFICES ASSUME NEW t \in Tokens, NEW i \in DOMAIN queue, t \in map[queue[i]],
                    t \notin map[Head(queue)]
             PROVE  t \in Reach(Tail(queue), map)
  BY DEF Reach
<1>1. i # 1 /\ i \in 1 .. Len(queue) /\ Head(queue) = queue[1]
  OBVIOUS
<1>2. i - 1 \in DOMAIN Tail(queue) /\ Tail(queue)[i - 1] = queue[i]
  BY <1>1
<1> QED BY <1>2 DEF Reach

\* A step of one request that leaves what the store shows alone.
LEMMA OwedStep ==
    ASSUME TypeOK, AllOwed, All' = All, live' = live, NEW h \in Requests, NEW x,
           req' = [req EXCEPT ![h] = x], Owed(x, All, live)
    PROVE  AllOwed'
<1>1. \A g \in Requests : req'[g] = IF g = h THEN x ELSE req[g]
  BY DEF TypeOK
<1>2. \A g \in Requests : Owed(req'[g], All', live')
  BY <1>1 DEF AllOwed
<1> QED BY <1>2 DEF AllOwed, Owed, Reach

\* Token t is not owed any more, and the store changes for t alone.
Less(x, y, t) ==
    /\ y.due \subseteq x.due \ {t} /\ y.op = x.op /\ y.queue = x.queue /\ y.left = x.left
    /\ y.pc = x.pc \/ (x.pc = "dropping" /\ y.pc = "sending")

LEMMA OwedLess ==
    ASSUME TypeOK, Telling, AllOwed, NEW t \in Tokens,
           \A g \in Requests : Less(req[g], req'[g], t),
           \A s \in Tokens \ {t}, j \in Keys : s \in All'[j] <=> s \in All[j],
           live \ {t} \subseteq live'
    PROVE  AllOwed'
<1>1. \A q \in Seq(Keys) : Reach(q, All) \ {t} \subseteq Reach(q, All')
  BY DEF Reach
<1>2. ASSUME NEW g \in Requests
      PROVE  Owed(req'[g], All', live')
  <2>1. /\ req[g] \in Request /\ Owed(req[g], All, live) /\ Less(req[g], req'[g], t)
        /\ req[g].pc \in {"sending", "dropping"} => req[g].queue # <<>>
    BY DEF TypeOK, AllOwed, Telling
  <2>2. req[g].queue \in Seq(Keys) /\ req[g].due \subseteq Tokens
    BY <2>1 DEF Request
  <2>3. req'[g].due \subseteq live'
    BY <2>1 DEF Owed, Less
  <2>4. ASSUME req[g].op # "confirm"
        PROVE  /\ req'[g].pc \in {"idle", "creating", "answered"} => req'[g].due = {}
               /\ req'[g].pc = "listing" => req'[g].due \subseteq Reach(req'[g].queue, All')
               /\ req'[g].pc \in {"sending", "dropping"} =>
                     req'[g].due \subseteq req'[g].left \cup Reach(Tail(req'[g].queue), All')
    <3>1. CASE req[g].pc \in {"idle", "creating", "answered"}
      BY <2>1, <2>4, <3>1 DEF Owed, Less
    <3>2. CASE req[g].pc = "listing"
      <4>1. req'[g].due \subseteq Reach(req[g].queue, All) \ {t}
        BY <2>1, <2>4, <3>2 DEF Owed, Less
      <4>2. req'[g].pc = "listing" /\ req'[g].queue = req[g].queue
        BY <2>1, <3>2 DEF Less
      <4> QED BY <1>1, <2>2, <4>1, <4>2
    <3>3. CASE req[g].pc \in {"sending", "dropping"}
      <4>1. req'[g].due \subseteq (req[g].left \cup Reach(Tail(req[g].queue), All)) \ {t}
        BY <2>1, <2>4, <3>3 DEF Owed, Less
      <4>2. /\ req'[g].pc \in {"sending", "dropping"}
            /\ req'[g].queue = req[g].queue /\ req'[g].left = req[g].left
        BY <2>1, <3>3 DEF Less
      <4>3. Tail(req[g].queue) \in Seq(Keys)
        BY <2>1, <2>2, <3>3
      <4>4. req'[g].due \subseteq req'[g].left \cup Reach(Tail(req'[g].queue), All')
        BY <1>1, <4>1, <4>2, <4>3
      <4> QED BY <4>2, <4>4
    <3> QED BY <2>1, <3>1, <3>2, <3>3 DEF Request
  <2>5. req'[g].op = req[g].op
    BY <2>1 DEF Less
  <2> QED BY <2>3, <2>4, <2>5 DEF Owed
<1> QED BY <1>2 DEF AllOwed, Owed, Reach

LEMMA IdleOwed ==
    ASSUME NEW map, NEW lv
    PROVE  Owed(Idle, map, lv)
BY DEF Owed, Idle

LEMMA TellOwed ==
    ASSUME TypeOK, AllOwed, NEW h \in Requests, NEW op \in Ops,
           NEW queue \in Seq(Keys), NEW party \in SUBSET Keys, Tell(h, op, queue, party),
           op # "confirm" => \A k \in party : \E i \in DOMAIN queue : queue[i] = k
    PROVE  AllOwed'
<1> DEFINE due == live \cap UNION {All[k] : k \in party}
           failed == [Idle EXCEPT !.pc = "answered", !.op = op]
           begun == [Idle EXCEPT !.pc = "listing", !.op = op, !.queue = queue, !.due = due]
<1>1. All' = All /\ live' = live
  BY DEF Tell, Store, All
<1>2. Owed(failed, All, live)
  BY DEF Idle, Owed
<1>3. op # "confirm" => due \subseteq Reach(queue, All)
  BY DEF Reach, TypeOK
<1>4. /\ begun.due = due /\ begun.op = op /\ begun.pc = "listing" /\ begun.queue = queue
      /\ due \subseteq live
  BY DEF Idle
<1>5. Owed(begun, All, live)
  BY <1>3, <1>4 DEF Owed
<1>6. req' = [req EXCEPT ![h] = failed] \/ req' = [req EXCEPT ![h] = begun]
  BY DEF Tell
<1> HIDE DEF failed, begun
<1> QED BY <1>1, <1>2, <1>5, <1>6, OwedStep

LEMMA BeginOwed ==
    ASSUME TypeOK, AllOwed, NEW h \in Requests, Begin(h)
    PROVE  AllOwed'
<1>1. /\ Werka \in Keys /\ Admin \in Keys /\ Key("supplier", "") \in Keys
      /\ \A s \in Suppliers : Key("supplier", s) \in Keys
      /\ \A c \in Customers : Key("customer", c) \in Keys
  BY KeyTypes
<1>2. ASSUME NEW k \in Keys, NEW op \in Ops, Tell(h, op, <<k>>, {k})
      PROVE  AllOwed'
  <2>1. <<k>> \in Seq(Keys) /\ 1 \in DOMAIN <<k>> /\ <<k>>[1] = k
    OBVIOUS
  <2> QED BY <1>2, <2>1, TellOwed
<1>3. CASE CreateDispatch(h)
  BY <1>1, <1>2, <1>3 DEF CreateDispatch, Ops
<1>4. CASE SupplierUnannouncedRespond(h)
  BY <1>1, <1>2, <1>4 DEF SupplierUnannouncedRespond, Ops
<1>5. CASE NotificationComment(h)
  <2>1. CASE Tell(h, "comment", <<>>, {})
    <3>1. <<>> \in Seq(Keys) /\ {} \in SUBSET Keys
      BY <1>1, QueueTypes
    <3> QED BY <2>1, <3>1, TellOwed DEF Ops
  <2> QED BY <1>1, <1>2, <1>5, <2>1 DEF NotificationComment, Ops
<1>6. CASE CustomerRespond(h)
  <2>1. ASSUME NEW a \in Keys, NEW b \in Keys
        PROVE  <<a, b>> \in Seq(Keys) /\ 1 \in DOMAIN <<a, b>> /\ <<a, b>>[1] = a
    OBVIOUS
  <2>2. ASSUME NEW a \in Keys, NEW b \in Keys, Tell(h, "respond", <<a, b>>, {a})
        PROVE  AllOwed'
    <3>1. "respond" \in Ops /\ {a} \in SUBSET Keys
      BY <2>2 DEF Ops
    <3> QED BY <2>1, <2>2, <3>1, TellOwed
  <2> QED BY <1>1, <1>6, <2>2 DEF CustomerRespond
<1>7. ASSUME NEW s \in Suppliers, WerkaConfirm(h, s)
      PROVE  AllOwed'
  <2>1. /\ <<Key("supplier", "")>> \in Seq(Keys)
        /\ {Key("supplier", s)} \in SUBSET Keys
    BY <1>1, QueueTypes
  <2> QED BY <1>7, <2>1, TellOwed DEF WerkaConfirm, Ops
<1>8. ASSUME NEW s \in Suppliers, WerkaUnannouncedCreate(h, s)
      PROVE  AllOwed'
  BY <1>1, <1>2, <1>8 DEF WerkaUnannouncedCreate, Ops
<1>9. ASSUME NEW c \in Customers, WerkaCustomerIssueCreate(h, c)
      PROVE  AllOwed'
  BY <1>1, <1>2, <1>9 DEF WerkaCustomerIssueCreate, Ops
<1>10. CASE BatchCreate(h)
  <2>1. All' = All /\ live' = live
    BY <1>10 DEF BatchCreate, Store, All
  <2>2. Owed([Idle EXCEPT !.pc = "creating", !.op = "batch"], All, live)
    BY DEF Idle, Owed
  <2> QED BY <1>10, <2>1, <2>2, OwedStep DEF BatchCreate
<1> QED BY <1>3, <1>4, <1>5, <1>6, <1>7, <1>8, <1>9, <1>10 DEF Begin

LEMMA BatchOwed ==
    ASSUME TypeOK, Telling, AllOwed, NEW h \in Requests,
           \/ BatchTake(h) \/ BatchLine(h) \/ (\E c \in Customers : BatchTell(h, c))
           \/ Answer(h) \/ SendEnd(h)
    PROVE  AllOwed'
<1>1. All' = All /\ live' = live
  BY DEF BatchTake, BatchLine, BatchTell, Answer, SendEnd, Store, All
<1>2. req[h] \in Request /\ Owed(req[h], All, live)
  BY DEF TypeOK, AllOwed
<1>3. ASSUME NEW i, NEW v, req' = [req EXCEPT ![h].line[i] = v]
      PROVE  AllOwed'
  <2> DEFINE x == [req[h] EXCEPT !.line[i] = v]
  <2>1. /\ x.pc = req[h].pc /\ x.op = req[h].op /\ x.queue = req[h].queue
        /\ x.left = req[h].left /\ x.due = req[h].due
    BY <1>2 DEF Request
  <2>2. req' = [req EXCEPT ![h] = x]
    BY <1>3 DEF TypeOK
  <2>3. Owed(x, All, live)
    BY <1>2, <2>1 DEF Owed
  <2> QED BY <1>1, <2>2, <2>3, OwedStep
<1>4. ASSUME NEW c \in Customers, BatchTell(h, c)
      PROVE  AllOwed'
  <2> DEFINE queue == [i \in 1 .. Cardinality(In(h, {"created"})) |-> Key("customer", c)]
             x == [req[h] EXCEPT !.pc = "listing", !.queue = queue]
  <2>1. x.pc = "listing" /\ x.op = req[h].op /\ x.due = req[h].due
    BY <1>2 DEF Request
  <2>2. req[h].op # "confirm" => x.due = {}
    BY <1>2, <1>4, <2>1 DEF BatchTell, Owed
  <2>3. Owed(x, All, live)
    BY <1>2, <2>1, <2>2 DEF Owed
  <2>4. req' = [req EXCEPT ![h] = x]
    BY <1>4 DEF BatchTell, TypeOK
  <2> QED BY <1>1, <2>3, <2>4, OwedStep
<1>5. CASE Answer(h)
  <2> DEFINE x == [req[h] EXCEPT !.pc = "answered"]
  <2>1. x.pc = "answered" /\ x.op = req[h].op /\ x.due = req[h].due
    BY <1>2 DEF Request
  <2>2. Reach(<<>>, All) = {}
    BY DEF Reach
  <2>3. Owed(x, All, live)
    BY <1>2, <1>5, <2>1, <2>2 DEF Owed, Answer
  <2> QED BY <1>1, <1>5, <2>3, OwedStep DEF Answer
<1>6. CASE SendEnd(h)
  <2>1. /\ NextKey(h).pc = "listing" /\ NextKey(h).op = req[h].op
        /\ NextKey(h).due = req[h].due /\ NextKey(h).queue = Tail(req[h].queue)
    BY <1>2 DEF NextKey, Request
  <2>2. Owed(NextKey(h), All, live)
    BY <1>2, <1>6, <2>1 DEF Owed, SendEnd
  <2> QED BY <1>1, <1>6, <2>2, OwedStep DEF SendEnd
<1> QED BY <1>3, <1>4, <1>5, <1>6 DEF BatchTake, BatchLine

LEMMA SendListOwed ==
    ASSUME TypeOK, AllOwed, NEW h \in Requests, SendList(h)
    PROVE  AllOwed'
<1> DEFINE tokens == All[Head(req[h].queue)]
           next   == [req[h] EXCEPT !.pc = "sending", !.left = tokens]
           missed == [NextKey(h) EXCEPT !.due = @ \ tokens]
<1>1. req[h] \in Request /\ Owed(req[h], All, live) /\ All \in Map
  BY AllType DEF TypeOK, AllOwed
<1>2. /\ req[h].pc = "listing" /\ req[h].queue # <<>> /\ req[h].queue \in Seq(Keys)
      /\ live' = live
  BY <1>1 DEF SendList, Request
<1>3. All' = All
  BY DEF SendList, Load, LoadFails, Put, All
<1>4. req[h].op # "confirm" => req[h].due \subseteq tokens \cup Reach(Tail(req[h].queue), All)
  BY <1>1, <1>2, ReachParts DEF Owed
<1>5. /\ NextKey(h).pc = "listing" /\ NextKey(h).op = req[h].op
      /\ NextKey(h).due = req[h].due /\ NextKey(h).queue = Tail(req[h].queue)
      /\ missed.pc = "listing" /\ missed.op = req[h].op
      /\ missed.due = req[h].due \ tokens /\ missed.queue = Tail(req[h].queue)
      /\ next.pc = "sending" /\ next.op = req[h].op /\ next.due = req[h].due
      /\ next.queue = req[h].queue /\ next.left = tokens
  BY <1>1 DEF NextKey, Request
<1>6. tokens = {} => Owed(NextKey(h), All, live)
  BY <1>1, <1>4, <1>5 DEF Owed
<1>7. Owed(next, All, live) /\ Owed(missed, All, live)
  BY <1>1, <1>4, <1>5 DEF Owed
<1>8. \/ tokens = {} /\ req' = [req EXCEPT ![h] = NextKey(h)]
      \/ req' = [req EXCEPT ![h] = next]
      \/ req' = [req EXCEPT ![h] = missed]
  BY DEF SendList
<1> HIDE DEF next, missed, tokens
<1> QED BY <1>2, <1>3, <1>6, <1>7, <1>8, OwedStep

LEMMA SendPostOwed ==
    ASSUME TypeOK, AllOwed, NEW h \in Requests, NEW t \in Tokens, SendPost(h, t)
    PROVE  AllOwed'
<1> DEFINE told    == [req[h] EXCEPT !.left = @ \ {t}, !.due = @ \ {t}]
           refused == [AfterFailure(h, t) EXCEPT !.pc = "dropping", !.stale = {t}]
           failed  == [AfterFailure(h, t) EXCEPT !.due = @ \ {t}]
<1>1. req[h] \in Request /\ Owed(req[h], All, live) /\ req[h].pc = "sending"
  BY DEF TypeOK, AllOwed, SendPost
<1>2. All' = All /\ live' = live
  BY DEF SendPost, All
<1>3. /\ told.pc = "sending" /\ told.op = req[h].op /\ told.queue = req[h].queue
      /\ told.left = req[h].left \ {t} /\ told.due = req[h].due \ {t}
      /\ failed.pc = "sending" /\ failed.op = req[h].op /\ failed.queue = req[h].queue
      /\ failed.left = req[h].left \ {t} /\ failed.due = req[h].due \ {t}
      /\ refused.pc = "dropping" /\ refused.op = req[h].op /\ refused.queue = req[h].queue
      /\ refused.left = req[h].left \ {t} /\ refused.due = req[h].due
  BY <1>1 DEF AfterFailure, Request
<1>4. Owed(told, All, live) /\ Owed(failed, All, live)
  BY <1>1, <1>3 DEF Owed
<1>5. t \notin live => Owed(refused, All, live)
  BY <1>1, <1>3 DEF Owed
<1>6. \/ req' = [req EXCEPT ![h] = told]
      \/ t \notin live /\ req' = [req EXCEPT ![h] = refused]
      \/ req' = [req EXCEPT ![h] = failed]
  BY DEF SendPost, Refused
<1> HIDE DEF told, refused, failed
<1> QED BY <1>2, <1>4, <1>5, <1>6, OwedStep

\* An operation of the store about t changes what it shows of t alone.
LEMMA AboutOneToken ==
    ASSUME TypeOK, NEW t \in Tokens, NEW k \in Keys,
           \/ LoadFails
           \/ Saved(Moved(t, k)) \/ NotSaved(Moved(t, k))
           \/ Saved(Deleted(t, k)) \/ NotSaved(Deleted(t, k))
    PROVE  \A s \in Tokens \ {t}, j \in Keys : s \in All'[j] <=> s \in All[j]
<1>1. All \in Map
  BY AllType
<1>2. CASE LoadFails
  BY <1>2 DEF LoadFails, All
<1>3. ASSUME NEW map, map = Moved(t, k) \/ map = Deleted(t, k),
             Saved(map) \/ NotSaved(map)
      PROVE  \A s \in Tokens \ {t}, j \in Keys : s \in All'[j] <=> s \in All[j]
  <2>1. All' = map
    BY <1>3 DEF Saved, NotSaved, Put, All
  <2>2. \A s \in Tokens \ {t}, j \in Keys : s \in map[j] <=> s \in All[j]
    BY <1>1, <1>3 DEF Moved, Deleted, Map
  <2> QED BY <2>1, <2>2
<1> QED BY <1>2, <1>3

LEMMA SendDropOwed ==
    ASSUME IInv, AllOwed, NEW h \in Requests, SendDrop(h)
    PROVE  AllOwed'
<1> DEFINE x == [req[h] EXCEPT !.pc = "sending", !.stale = {}]
           key == Head(req[h].queue)
<1>1. /\ req[h] \in Request /\ Owed(req[h], All, live) /\ req[h].pc = "dropping"
      /\ req[h].queue # <<>> /\ TypeOK
  BY DEF IInv, TypeOK, Telling, AllOwed, SendDrop
<1>2. key \in Keys /\ req[h].queue \in Seq(Keys) /\ req[h].due \subseteq Tokens
  BY <1>1 DEF Request
<1>3. PICK t \in req[h].stale :
          LoadFails \/ Saved(Deleted(t, key)) \/ NotSaved(Deleted(t, key))
  BY DEF SendDrop
<1>4. t \in Tokens /\ t \notin live
  BY <1>1, <1>3 DEF Request, IInv, StaleIsDead
<1>5. \A s \in Tokens \ {t}, j \in Keys : s \in All'[j] <=> s \in All[j]
  BY <1>1, <1>2, <1>3, <1>4, AboutOneToken
<1>6. live' = live /\ req' = [req EXCEPT ![h] = x]
  BY <1>1 DEF SendDrop, TypeOK
<1>7. /\ x.pc = "sending" /\ x.op = req[h].op /\ x.queue = req[h].queue
      /\ x.left = req[h].left /\ x.due = req[h].due
  BY <1>1 DEF Request
<1>8. \A g \in Requests : req'[g] = IF g = h THEN x ELSE req[g]
  BY <1>1, <1>6 DEF TypeOK
<1>9. ASSUME NEW g \in Requests
      PROVE  Less(req[g], req'[g], t)
  <2>1. req[g] \in Request /\ Owed(req[g], All, live)
    BY <1>1 DEF TypeOK, AllOwed
  <2>2. t \notin req[g].due
    BY <1>4, <2>1 DEF Owed
  <2> HIDE DEF x
  <2> QED BY <1>1, <1>7, <1>8, <2>2 DEF Less
<1> HIDE DEF x, key
<1> QED BY <1>1, <1>4, <1>5, <1>6, <1>9, OwedLess DEF IInv

\* A phone registers, unregisters or is gone: nothing is owed to it any more.
LEMMA PhoneOwed ==
    ASSUME IInv, AllOwed, NEW t \in Tokens, req' = Excused({t}),
           \A s \in Tokens \ {t}, j \in Keys : s \in All'[j] <=> s \in All[j],
           live \ {t} \subseteq live'
    PROVE  AllOwed'
<1>1. ASSUME NEW g \in Requests
      PROVE  Less(req[g], req'[g], t)
  <2>1. req[g] \in Request
    BY DEF TypeOK, IInv
  <2> QED BY <2>1 DEF Excused, Request, Less
<1> QED BY <1>1, OwedLess DEF IInv

LEMMA NextOwed == IInv /\ AllOwed /\ [Next]_vars => AllOwed'
<1> SUFFICES ASSUME IInv, AllOwed, [Next]_vars PROVE AllOwed'
  OBVIOUS
<1>0. TypeOK /\ Telling /\ live \subseteq Tokens /\ Registrants \subseteq Keys
  BY KeyTypes DEF IInv, TypeOK
<1>1. CASE UNCHANGED vars
  BY <1>1 DEF vars, AllOwed, Owed, Reach, All
<1>2. ASSUME NEW h \in Requests, Work(h)
      PROVE  AllOwed'
  BY <1>0, <1>2, BatchOwed, SendListOwed, SendPostOwed, SendDropOwed DEF Work
<1>3. ASSUME NEW h \in Requests, Begin(h)
      PROVE  AllOwed'
  BY <1>0, <1>3, BeginOwed
<1>4. ASSUME NEW t \in Tokens, NEW k \in Registrants, Register(t, k) \/ Unregister(t, k)
      PROVE  AllOwed'
  <2>1. live' = live
    BY <1>4 DEF Register, Unregister
  <2>2. CASE LoadFails /\ UNCHANGED req
    BY <2>1, <2>2 DEF LoadFails, AllOwed, Owed, Reach, All
  <2>3. CASE req' = Excused({t}) /\
             \/ Saved(Moved(t, k)) \/ NotSaved(Moved(t, k))
             \/ Saved(Deleted(t, k)) \/ NotSaved(Deleted(t, k))
    <3>1. \A s \in Tokens \ {t}, j \in Keys : s \in All'[j] <=> s \in All[j]
      BY <1>0, <2>3, AboutOneToken
    <3> QED BY <2>1, <2>3, <3>1, PhoneOwed
  <2> QED BY <1>4, <2>2, <2>3 DEF Register, Unregister
<1>5. ASSUME NEW t \in Tokens, Uninstall(t)
      PROVE  AllOwed'
  <2>1. All' = All /\ live' = live \ {t} /\ req' = Excused({t})
    BY <1>5 DEF Uninstall, All
  <2> QED BY <2>1, PhoneOwed
<1>6. CASE Restart
  <2>1. \A h \in Requests : Owed(req'[h], All', live')
    BY <1>6, IdleOwed DEF Restart
  <2> QED BY <2>1 DEF AllOwed, Owed, Reach
<1> QED BY <1>0, <1>1, <1>2, <1>3, <1>4, <1>5, <1>6 DEF Next


-----------------------------------------------------------------------------
(* Theorems *)

\* IInv is inductive.
THEOREM PushInvariance == Spec => []IInv
BY InitInv, NextInv, PTL DEF Spec

\* Every variable always holds a value of its kind.
THEOREM PushTypes == Spec => []TypeOK
BY PushInvariance, PTL DEF IInv

\* An acknowledged registration holds: no drop of a token that comes late, no
\* failed write of something else and no restart takes it away.
THEOREM RegistrationsAreKept == Spec => []RegistrationsHold
BY PushInvariance, PTL DEF IInv

\* Who should be told and is not has itself failed to be called, or registered
\* anew or left: no failed call to another phone costs anybody a message.
THEOREM NobodyIsLeftOut == Spec => []NobodyLeftOut
<1>1. Init => AllOwed
  BY IdleOwed DEF Init, AllOwed
<1>2. Spec => []AllOwed
  BY <1>1, NextOwed, PushInvariance, PTL DEF Spec
<1> QED BY <1>2, OwedImplies, PTL
=============================================================================
