--------------------------- MODULE SessionsProofs ---------------------------
(***************************************************************************)
(* For any number of tokens, users, requests, failed reads and failed      *)
(* writes, and any lifetimes: sessions belong to their users, none is      *)
(* lost, logouts are final, and until a write fails the sessions           *)
(* implement the book.  All is the map the next operation will see; apart  *)
(* from the first lemmas no proof looks into it.                           *)
(***************************************************************************)
EXTENDS Sessions, TLAPS

\* A token that was not drawn has left no trace.
Undrawn ==
    \A t \in Tokens \ drawn :
        All[t] = NoSession /\ file[t] = NoSession /\ owner[t] = NoUser

\* A session that was handed out was written, and is removed from the file only
\* together with the one in memory.
Stored == \A t \in Held : All[t] # NoSession => file[t] # NoSession

\* Requests work with tokens that were handed out, and only such are logged out.
Handed ==
    /\ \A r \in Requests : req[r].token # NoToken => req[r].token \in Held
    /\ logouts \subseteq Held

\* What is in the file and not in memory is noted in unsaved, or has expired.
Kept ==
    \A t \in Tokens : All[t] = NoSession /\ t \notin unsaved =>
                          (file[t] # NoSession => Expired(file[t]))

IInv ==
    /\ TypeOK
    /\ Undrawn
    /\ Handed
    /\ RightUser
    /\ Stored
    /\ Kept
    /\ \A t \in logouts : All[t] = NoSession

-----------------------------------------------------------------------------
(* The map. *)

LEMMA AllType ==
    ASSUME TypeOK
    PROVE  All \in SessionMap
BY DEF TypeOK, All, SessionMap

\* What the next operation sees is in memory or in the file.
LEMMA AllFrom ==
    ASSUME TypeOK, NEW t \in Tokens, ~ loaded, All[t] # NoSession
    PROVE  All[t] = file[t]
BY DEF TypeOK, All, SessionMap

\* A record that is written is typed and has time left.
LEMMA NewRecordType ==
    ASSUME TypeOK, NEW u \in Users
    PROVE  /\ NewRecord(u) \in Record /\ NewRecord(u) # NoSession
           /\ NewRecord(u).user = u
           /\ ~ Expired(NewRecord(u))
BY SessionsAssumption DEF TypeOK, NewRecord, Record, Expired

\* Reading the file, or failing to, changes nothing that is seen.
LEMMA LoadStep ==
    ASSUME TypeOK, Load \/ LoadFails, clock' = clock, ttl' = ttl
    PROVE  /\ All' = All /\ file' = file /\ unsaved' = unsaved
           /\ sessions' \in SessionMap /\ loaded' \in BOOLEAN
           /\ faults' \in [{"read", "write"} -> Nat]
<1>1. All \in SessionMap
  BY AllType
<1>2. CASE Load
  BY <1>1, <1>2 DEF Load, All, TypeOK
<1>3. CASE LoadFails
  <2>1. UNCHANGED <<sessions, loaded, file, unsaved>>
    BY <1>3 DEF LoadFails
  <2>2. faults' \in [{"read", "write"} -> Nat]
    BY <1>3 DEF LoadFails, Fault, TypeOK
  <2>3. All' = All
    BY <2>1 DEF All, Expired
  <2> QED BY <2>1, <2>2, <2>3 DEF TypeOK
<1> QED BY <1>2, <1>3

\* After a write, saved or not, the map is what was to be written.
LEMMA SaveStep ==
    ASSUME TypeOK, NEW map \in SessionMap, Save(map), clock' = clock
    PROVE  /\ All' = map
           /\ sessions' \in SessionMap /\ loaded' \in BOOLEAN
           /\ faults' \in [{"read", "write"} -> Nat]
           /\ \/ file' = map /\ unsaved' = {}
              \/ /\ file' = file
                 /\ unsaved' = unsaved \cup
                       {t \in Tokens : All[t] # NoSession /\ map[t] = NoSession}
<1>1. Put(map)
  BY DEF Save, Saved, NotSaved
<1>2. All' = map /\ sessions' \in SessionMap /\ loaded' \in BOOLEAN
  BY <1>1 DEF Put, All
<1>3. faults' \in [{"read", "write"} -> Nat]
  BY DEF Save, Saved, NotSaved, Fault, TypeOK
<1> QED BY <1>2, <1>3 DEF Save, Saved, NotSaved

LEMMA SaveKeeps ==
    ASSUME IInv, NEW map \in SessionMap, Save(map), clock' = clock
    PROVE  Kept'
<1>1. TypeOK /\ Kept
  BY DEF IInv
<1>2. All' = map
  BY <1>1, SaveStep
<1> SUFFICES ASSUME NEW t \in Tokens, map[t] = NoSession, t \notin unsaved',
                    file'[t] # NoSession
             PROVE  Expired(file[t])'
  BY <1>2 DEF Kept, Expired
<1>3. file' = file /\ All[t] = NoSession /\ t \notin unsaved
  BY <1>1, SaveStep
<1> QED BY <1>1, <1>3 DEF Kept, Expired

-----------------------------------------------------------------------------
(* The shapes of a step. *)

\* After the step every request works with a token of its user.
RequestsStayRight ==
    \A r \in Requests : req'[r].token # NoToken =>
        /\ req'[r].token \in Held
        /\ req'[r].user = owner[req'[r].token]

LEMMA HeldIsDrawn ==
    ASSUME IInv
    PROVE  Held \subseteq drawn
BY DEF IInv, Undrawn, Held, TypeOK

\* A step that leaves the sessions as they were.
LEMMA UnchangedSessions ==
    ASSUME IInv, TypeOK', RequestsStayRight,
           All' = All, file' = file, unsaved' = unsaved, clock' = clock,
           owner' = owner, drawn' = drawn,
           logouts' \subseteq logouts \cup {t \in Held : All[t] = NoSession}
    PROVE  IInv'
<1>1. Held' = Held
  BY DEF Held
<1>2. Undrawn' /\ Stored' /\ Kept'
  BY <1>1 DEF IInv, Undrawn, Stored, Kept, Expired
<1>3. Handed' /\ RightUser'
  BY <1>1 DEF IInv, Handed, RightUser, RequestsStayRight
<1>4. \A t \in logouts' : All'[t] = NoSession
  BY DEF IInv
<1> QED BY <1>2, <1>3, <1>4 DEF IInv

\* A step that renews or removes one session that was handed out.
LEMMA ChangedSession ==
    ASSUME IInv, TypeOK', RequestsStayRight,
           NEW t \in Held, NEW x \in Record \cup {NoSession},
           All[t] # NoSession, x # NoSession => x.user = All[t].user,
           Save([All EXCEPT ![t] = x]), clock' = clock,
           owner' = owner, drawn' = drawn,
           logouts' = logouts \/ (logouts' = logouts \cup {t} /\ x = NoSession)
    PROVE  IInv'
<1> DEFINE map == [All EXCEPT ![t] = x]
<1>1. TypeOK /\ t \in Tokens /\ Held' = Held
  BY DEF IInv, Held
<1>2. All \in SessionMap
  BY <1>1, AllType
<1>3. map \in SessionMap /\ map[t] = x /\ \A s \in Tokens \ {t} : map[s] = All[s]
  BY <1>1, <1>2 DEF SessionMap
<1>4. All' = map /\ (file' = map \/ file' = file)
  BY <1>1, <1>3, SaveStep
<1> HIDE DEF map
<1>5. Kept'
  BY <1>3, SaveKeeps DEF map
<1>6. Undrawn'
  <2>1. t \in drawn
    BY HeldIsDrawn
  <2> QED BY <1>3, <1>4, <2>1 DEF IInv, Undrawn
<1>7. Stored'
  BY <1>1, <1>3, <1>4 DEF IInv, Stored, Held
<1>8. Handed'
  BY <1>1 DEF IInv, Handed, RequestsStayRight
<1>9. RightUser'
  <2>1. \A s \in Held : map[s] # NoSession => map[s].user = owner[s]
    BY <1>1, <1>3 DEF IInv, RightUser, Held
  <2> QED BY <1>1, <1>4, <2>1 DEF IInv, RightUser, RequestsStayRight
<1>10. \A s \in logouts' : All'[s] = NoSession
  BY <1>1, <1>3, <1>4 DEF IInv, Handed, Held
<1> QED BY <1>5, <1>6, <1>7, <1>8, <1>9, <1>10 DEF IInv

-----------------------------------------------------------------------------
(* The actions. *)

\* A handler that goes on, or ends, or a step of no handler.
LEMMA SameRequests ==
    ASSUME IInv, req' = req
    PROVE  RequestsStayRight
BY DEF IInv, Handed, RightUser, RequestsStayRight

LEMMA IdleRequest ==
    ASSUME IInv, NEW r \in Requests, Idle(r)
    PROVE  RequestsStayRight
           /\ req' \in [Requests -> [token : Tokens \cup {NoToken},
                                    user : Users \cup {NoUser}]]
BY DEF IInv, TypeOK, Idle, Handed, RightUser, RequestsStayRight

LEMMA InitInvariant == Init => IInv
<1> SUFFICES ASSUME Init PROVE IInv
  OBVIOUS
<1>1. TypeOK
  <2>1. faults \in [{"read", "write"} -> Nat]
    BY DEF Init
  <2>2. Empty \in SessionMap
    BY DEF Empty, SessionMap
  <2> QED BY <2>1, <2>2 DEF Init, TypeOK
<1>2. \A t \in Tokens : All[t] = NoSession /\ file[t] = NoSession /\ owner[t] = NoUser
  BY DEF Init, All, Empty
<1> QED BY <1>1, <1>2 DEF Init, IInv, Undrawn, Handed, RightUser, Stored, Kept, Held

LEMMA LoginInvariant ==
    ASSUME IInv, NEW t \in Tokens, NEW u \in Users, Login(t, u)
    PROVE  IInv'
<1> DEFINE map == [All EXCEPT ![t] = NewRecord(u)]
<1>1. TypeOK /\ t \notin drawn /\ UNCHANGED <<ttl, clock, req, logouts>>
  BY DEF IInv, Login
<1>2. CASE LoadFails /\ UNCHANGED <<owner, drawn>>
  <2>1. TypeOK'
    BY <1>1, <1>2, LoadStep DEF TypeOK
  <2> QED BY <1>1, <1>2, <2>1, LoadStep, SameRequests, UnchangedSessions
<1>3. CASE /\ Save(map) /\ drawn' = drawn \cup {t}
           /\ \/ Saved(map) /\ owner' = [owner EXCEPT ![t] = u]
              \/ NotSaved(map) /\ owner' = owner
  <2>1. NewRecord(u) \in Record /\ NewRecord(u) # NoSession /\ NewRecord(u).user = u
    BY <1>1, NewRecordType
  <2>2. map \in SessionMap /\ map[t] = NewRecord(u)
        /\ \A s \in Tokens \ {t} : map[s] = All[s]
    BY <1>1, <2>1, AllType DEF SessionMap
  <2>3. All' = map /\ Kept' /\ sessions' \in SessionMap /\ loaded' \in BOOLEAN
        /\ faults' \in [{"read", "write"} -> Nat]
    BY <1>1, <1>3, <2>2, SaveStep, SaveKeeps
  <2>4. \/ file' = map /\ unsaved' = {} /\ owner' = [owner EXCEPT ![t] = u]
        \/ /\ file' = file /\ owner' = owner
           /\ unsaved' = unsaved \cup
                    {s \in Tokens : All[s] # NoSession /\ map[s] = NoSession}
    BY <1>3 DEF Saved, NotSaved
  <2> HIDE DEF map
  <2>5. t \notin Held /\ t \notin logouts /\ Held' \subseteq Held \cup {t}
        /\ Held \subseteq Held'
    BY <1>1, <2>4, SessionsAssumption DEF IInv, Undrawn, Handed, Held, TypeOK
  <2>6. TypeOK'
    BY <1>1, <1>3, <2>2, <2>3, <2>4 DEF TypeOK
  <2>7. Undrawn'
    BY <1>1, <1>3, <2>2, <2>3, <2>4 DEF IInv, Undrawn, TypeOK
  <2>8. Handed'
    BY <1>1, <2>5 DEF IInv, Handed
  <2>9. RightUser'
    <3>1. \A s \in Held : owner'[s] = owner[s] /\ All'[s] = All[s]
      BY <1>1, <2>2, <2>3, <2>4, <2>5 DEF Held, TypeOK
    <3>2. \A s \in Held' : /\ All'[s] # NoSession => All'[s].user = owner'[s]
                           /\ file'[s] # NoSession => file'[s].user = owner'[s]
      <4> SUFFICES ASSUME NEW s \in Held'
                   PROVE  /\ All'[s] # NoSession => All'[s].user = owner'[s]
                          /\ file'[s] # NoSession => file'[s].user = owner'[s]
        OBVIOUS
      <4>1. CASE s \in Held
        BY <2>2, <2>3, <2>4, <3>1, <4>1 DEF IInv, RightUser, Held
      <4>2. CASE s = t
        BY <1>1, <2>1, <2>2, <2>3, <2>4, <2>5, <4>2 DEF Held, TypeOK
      <4> QED BY <2>5, <4>1, <4>2
    <3>3. \A r \in Requests : req[r].token # NoToken =>
                               req[r].user = owner'[req[r].token]
      BY <3>1 DEF IInv, RightUser, Handed
    <3> QED BY <1>1, <3>2, <3>3 DEF RightUser
  <2>10. Stored'
    BY <2>2, <2>3, <2>4, <2>5 DEF IInv, Stored, Held, TypeOK
  <2>11. \A s \in logouts' : All'[s] = NoSession
    BY <1>1, <2>2, <2>3, <2>5 DEF IInv, TypeOK
  <2> QED BY <2>3, <2>6, <2>7, <2>8, <2>9, <2>10, <2>11 DEF IInv
<1> QED BY <1>2, <1>3 DEF Login, Save

LEMMA LogoutInvariant ==
    ASSUME IInv, NEW t \in Held, Logout(t)
    PROVE  IInv'
<1>1. TypeOK /\ t \in Tokens /\ UNCHANGED <<ttl, clock, req, owner, drawn>>
  BY DEF IInv, Logout, Held
<1>2. RequestsStayRight
  BY <1>1, SameRequests
<1>3. CASE LoadFails /\ UNCHANGED logouts
  <2>1. TypeOK'
    BY <1>1, <1>3, LoadStep DEF TypeOK
  <2> QED BY <1>1, <1>2, <1>3, <2>1, LoadStep, UnchangedSessions
<1>4. CASE All[t] = NoSession /\ Load /\ logouts' = logouts \cup {t}
  <2>1. TypeOK'
    BY <1>1, <1>4, LoadStep DEF TypeOK
  <2> QED BY <1>1, <1>2, <1>4, <2>1, LoadStep, UnchangedSessions
<1>5. CASE /\ All[t] # NoSession /\ Save([All EXCEPT ![t] = NoSession])
           /\ logouts' = logouts \cup {t}
  <2>1. [All EXCEPT ![t] = NoSession] \in SessionMap
    BY <1>1, AllType DEF SessionMap
  <2>2. TypeOK'
    BY <1>1, <1>5, <2>1, SaveStep DEF TypeOK
  <2> QED BY <1>1, <1>2, <1>5, <2>2, ChangedSession
<1> QED BY <1>3, <1>4, <1>5 DEF Logout

LEMMA AuthorizeInvariant ==
    ASSUME IInv, NEW t \in Held, NEW r \in Requests, Authorize(r, t)
    PROVE  IInv'
<1>1. /\ TypeOK /\ t \in Tokens /\ Load /\ All[t] # NoSession
      /\ UNCHANGED <<ttl, clock, owner, drawn, logouts>>
      /\ req' = [req EXCEPT ![r] = [token |-> t, user |-> All[t].user]]
  BY DEF IInv, Authorize, Held
<1>2. All[t].user = owner[t] /\ All[t].user \in Users
  BY <1>1, AllType DEF IInv, RightUser, SessionMap, Record
<1>3. RequestsStayRight
  BY <1>1, <1>2 DEF IInv, TypeOK, Handed, RightUser, RequestsStayRight
<1>4. TypeOK'
  BY <1>1, <1>2, LoadStep DEF TypeOK
<1> QED BY <1>1, <1>3, <1>4, LoadStep, UnchangedSessions

LEMMA RefuseInvariant ==
    ASSUME IInv, NEW t \in Held, Refuse(t)
    PROVE  IInv'
<1>1. TypeOK /\ t \in Tokens /\ UNCHANGED <<ttl, clock, req, owner, drawn, logouts>>
  BY DEF IInv, Refuse, Held
<1>2. RequestsStayRight
  BY <1>1, SameRequests
<1>3. CASE LoadFails \/ Load
  <2>1. TypeOK'
    BY <1>1, <1>3, LoadStep DEF TypeOK
  <2> QED BY <1>1, <1>2, <1>3, <2>1, LoadStep, UnchangedSessions
<1>4. CASE All[t] # NoSession /\ Save([All EXCEPT ![t] = NoSession])
  <2>1. [All EXCEPT ![t] = NoSession] \in SessionMap
    BY <1>1, AllType DEF SessionMap
  <2>2. TypeOK'
    BY <1>1, <1>4, <2>1, SaveStep DEF TypeOK
  <2> QED BY <1>1, <1>2, <1>4, <2>2, ChangedSession
<1> QED BY <1>3, <1>4 DEF Refuse

LEMMA UpdateInvariant ==
    ASSUME IInv, NEW r \in Requests, Update(r)
    PROVE  IInv'
<1> DEFINE t == req[r].token
<1>1. /\ TypeOK /\ t # NoToken /\ Idle(r)
      /\ UNCHANGED <<ttl, clock, owner, drawn, logouts>>
  BY DEF IInv, Update
<1>2. t \in Held /\ t \in Tokens /\ req[r].user = owner[t] /\ req[r].user \in Users
  BY <1>1 DEF IInv, Handed, RightUser, Held, TypeOK
<1>3. RequestsStayRight
      /\ req' \in [Requests -> [token : Tokens \cup {NoToken}, user : Users \cup {NoUser}]]
  BY <1>1, IdleRequest
<1>4. CASE LoadFails \/ Load
  <2>1. TypeOK'
    BY <1>1, <1>3, <1>4, LoadStep DEF TypeOK
  <2> QED BY <1>1, <1>3, <1>4, <2>1, LoadStep, UnchangedSessions
<1>5. CASE All[t] # NoSession /\ Save([All EXCEPT ![t] = NewRecord(req[r].user)])
  <2>1. NewRecord(req[r].user) \in Record
        /\ NewRecord(req[r].user).user = All[t].user
    BY <1>1, <1>2, <1>5, NewRecordType DEF IInv, RightUser
  <2>2. [All EXCEPT ![t] = NewRecord(req[r].user)] \in SessionMap
    BY <1>1, <1>2, <2>1, AllType DEF SessionMap
  <2>3. TypeOK'
    BY <1>1, <1>3, <1>5, <2>2, SaveStep DEF TypeOK
  <2> HIDE DEF t
  <2> QED BY <1>1, <1>2, <1>3, <1>5, <2>1, <2>3, ChangedSession
<1> QED BY <1>4, <1>5 DEF Update

LEMMA EndInvariant ==
    ASSUME IInv, NEW r \in Requests, End(r)
    PROVE  IInv'
<1>1. UNCHANGED <<sessions, loaded, file, ttl, clock, faults, owner, drawn,
                  logouts, unsaved>>
  BY DEF End
<1>2. RequestsStayRight
      /\ req' \in [Requests -> [token : Tokens \cup {NoToken}, user : Users \cup {NoUser}]]
  BY IdleRequest DEF End
<1>3. TypeOK'
  BY <1>1, <1>2 DEF IInv, TypeOK
<1>4. All' = All
  BY <1>1 DEF All, Expired
<1> QED BY <1>1, <1>2, <1>3, <1>4, UnchangedSessions

\* Time only takes from what is seen, and what has expired stays so.
LEMMA TickInvariant ==
    ASSUME IInv, Tick
    PROVE  IInv'
<1>1. /\ TypeOK /\ clock' = clock + 1
      /\ UNCHANGED <<sessions, loaded, file, ttl, req, faults, owner, drawn,
                     logouts, unsaved>>
  BY DEF IInv, Tick
<1>2. TypeOK'
  BY <1>1 DEF TypeOK
<1>3. \A t \in Tokens : file[t] # NoSession /\ Expired(file[t]) => Expired(file[t])'
  BY <1>1 DEF TypeOK, SessionMap, Record, Expired
<1>4. \A t \in Tokens :
        \/ All'[t] = All[t]
        \/ ~ loaded /\ All'[t] = NoSession /\ Expired(file[t])'
  BY <1>1, <1>3 DEF All, TypeOK
<1>5. Kept'
  BY <1>1, <1>3, <1>4 DEF IInv, Kept, Expired
<1>6. Undrawn' /\ Stored'
  BY <1>1, <1>4 DEF IInv, Undrawn, Stored, Held
<1>7. Handed' /\ RightUser'
  BY <1>1, <1>4 DEF IInv, Handed, RightUser, Held
<1>8. \A t \in logouts' : All'[t] = NoSession
  BY <1>1, <1>4 DEF IInv, Handed, Held
<1> QED BY <1>2, <1>5, <1>6, <1>7, <1>8 DEF IInv

\* What is seen after a restart is what the file has.
LEMMA RestartInvariant ==
    ASSUME IInv, Restart
    PROVE  IInv'
<1>1. /\ TypeOK /\ ~ loaded' /\ sessions' = Empty /\ ttl' \in TTLs
      /\ req' = [r \in Requests |-> [token |-> NoToken, user |-> NoUser]]
      /\ logouts' = logouts \ unsaved /\ unsaved' = {}
      /\ UNCHANGED <<file, clock, faults, owner, drawn>>
  BY DEF IInv, Restart
<1>2. TypeOK'
  <2>1. sessions' \in SessionMap
    BY <1>1 DEF Empty, SessionMap
  <2>2. req' \in [Requests -> [token : Tokens \cup {NoToken}, user : Users \cup {NoUser}]]
    BY <1>1
  <2>3. loaded' = FALSE
    BY DEF Restart
  <2> QED BY <1>1, <2>1, <2>2, <2>3 DEF TypeOK
<1>3. \A t \in Tokens :
        \/ All'[t] = file[t] /\ (file[t] # NoSession => ~ Expired(file[t]))
        \/ All'[t] = NoSession /\ file[t] # NoSession /\ Expired(file[t])
  BY <1>1 DEF All, Expired
<1>4. Kept' /\ Undrawn' /\ Stored'
  BY <1>1, <1>3 DEF IInv, Kept, Undrawn, Stored, Held, Expired
<1>5. Handed' /\ RightUser'
  BY <1>1, <1>3 DEF IInv, Handed, RightUser, Held
<1>6. \A t \in logouts' : All'[t] = NoSession
  BY <1>1, <1>3 DEF IInv, Kept, Handed, Held
<1> QED BY <1>2, <1>4, <1>5, <1>6 DEF IInv

LEMMA StutterInvariant ==
    ASSUME IInv, UNCHANGED vars
    PROVE  IInv'
<1>1. All' = All /\ Held' = Held
  BY DEF vars, All, Held, Expired
<1> QED BY <1>1 DEF vars, IInv, TypeOK, Undrawn, Handed, RightUser, Stored, Kept, Expired

LEMMA StepInvariant == IInv /\ [Next]_vars => IInv'
<1> SUFFICES ASSUME IInv, [Next]_vars PROVE IInv'
  OBVIOUS
<1>1. ASSUME NEW t \in Tokens, NEW u \in Users, Login(t, u) PROVE IInv'
  BY <1>1, LoginInvariant
<1>2. ASSUME NEW t \in Held, Logout(t) \/ Refuse(t) PROVE IInv'
  BY <1>2, LogoutInvariant, RefuseInvariant
<1>3. ASSUME NEW t \in Held, NEW r \in Requests, Authorize(r, t) PROVE IInv'
  BY <1>3, AuthorizeInvariant
<1>4. ASSUME NEW r \in Requests, Update(r) \/ End(r) PROVE IInv'
  BY <1>4, UpdateInvariant, EndInvariant
<1>5. CASE Tick
  BY <1>5, TickInvariant
<1>6. CASE Restart
  BY <1>6, RestartInvariant
<1>7. CASE UNCHANGED vars
  BY <1>7, StutterInvariant
<1> QED BY <1>1, <1>2, <1>3, <1>4, <1>5, <1>6, <1>7 DEF Next

\* The strengthening holds in every reachable state.
THEOREM SessionInvariance == Spec => []IInv
<1> QED BY InitInvariant, StepInvariant, PTL DEF Spec

\* The variables keep their types: every record has a user and a lifetime.
THEOREM SessionTypes == Spec => []TypeOK
<1>1. IInv => TypeOK
  BY DEF IInv
<1> QED BY <1>1, SessionInvariance, PTL

\* A session, in memory, in the file or in a handler, is its user's.
THEOREM SessionsHaveTheirUser == Spec => []RightUser
<1>1. IInv => RightUser
  BY DEF IInv
<1> QED BY <1>1, SessionInvariance, PTL

\* Nothing brings a session back that was logged out and whose removal was
\* written, or is only in memory as long as the server runs.
THEOREM LogoutsAreFinal == Spec => []LogoutIsFinal
<1>1. IInv => LogoutIsFinal
  BY DEF IInv, LogoutIsFinal, Kept, Handed, Held
<1> QED BY <1>1, SessionInvariance, PTL

-----------------------------------------------------------------------------
(* Nothing is lost. *)

\* What one write takes away is the session it removes.
LEMMA SaveLoses ==
    ASSUME TypeOK, NEW t \in Tokens, NEW x \in Record \cup {NoSession},
           Save([All EXCEPT ![t] = x]), clock' = clock
    PROVE  All' = [All EXCEPT ![t] = x] /\ All'[t] = x
           /\ \A s \in Tokens \ {t} : All'[s] = All[s]
<1>1. All \in SessionMap
  BY AllType
<1>2. [All EXCEPT ![t] = x] \in SessionMap
  BY <1>1 DEF SessionMap
<1>3. All' = [All EXCEPT ![t] = x]
  BY <1>2, SaveStep
<1> QED BY <1>1, <1>3 DEF SessionMap

\* Each step of the requests keeps what is seen, or changes one session.
Unseen == All' = All /\ file' = file /\ unsaved' = unsaved

LEMMA StepsOnSessions ==
    ASSUME IInv, Next
    PROVE  \/ Unseen /\ drawn' = drawn /\ clock' = clock
           \/ \E t \in Tokens, u \in Users :
                 /\ t \notin drawn /\ drawn' = drawn \cup {t} /\ clock' = clock
                 /\ Save([All EXCEPT ![t] = NewRecord(u)])
           \/ \E t \in Held :
                 /\ All[t] # NoSession /\ drawn' = drawn /\ clock' = clock
                 /\ t \in logouts' \/ Expired(All[t])
                 /\ Save([All EXCEPT ![t] = NoSession])
           \/ \E t \in Held :
                 /\ All[t] # NoSession /\ drawn' = drawn /\ clock' = clock
                 /\ Save([All EXCEPT ![t] = NewRecord(All[t].user)])
           \/ Tick \/ Restart
<1>1. TypeOK
  BY DEF IInv
<1>2. ASSUME LoadFails \/ Load, clock' = clock, ttl' = ttl PROVE Unseen
  BY <1>1, <1>2, LoadStep DEF Unseen
<1>3. ASSUME NEW t \in Tokens, NEW u \in Users, Login(t, u)
      PROVE  \/ Unseen /\ drawn' = drawn /\ clock' = clock
             \/ /\ t \notin drawn /\ drawn' = drawn \cup {t} /\ clock' = clock
                /\ Save([All EXCEPT ![t] = NewRecord(u)])
  BY <1>2, <1>3 DEF Login, Save
<1>4. ASSUME NEW t \in Held, Logout(t) \/ Refuse(t)
      PROVE  \/ Unseen /\ drawn' = drawn /\ clock' = clock
             \/ /\ All[t] # NoSession /\ drawn' = drawn /\ clock' = clock
                /\ t \in logouts' \/ Expired(All[t])
                /\ Save([All EXCEPT ![t] = NoSession])
  BY <1>2, <1>4 DEF Logout, Refuse
<1>5. ASSUME NEW t \in Held, NEW r \in Requests, Authorize(r, t)
      PROVE  Unseen /\ drawn' = drawn /\ clock' = clock
  BY <1>2, <1>5 DEF Authorize
<1>6. ASSUME NEW r \in Requests, Update(r)
      PROVE  \/ Unseen /\ drawn' = drawn /\ clock' = clock
             \/ \E t \in Held :
                  /\ All[t] # NoSession /\ drawn' = drawn /\ clock' = clock
                  /\ Save([All EXCEPT ![t] = NewRecord(All[t].user)])
  <2>1. req[r].token \in Held
        /\ (All[req[r].token] # NoSession => req[r].user = All[req[r].token].user)
    BY <1>6 DEF IInv, Handed, RightUser, Update
  <2> QED BY <1>2, <1>6, <2>1 DEF Update
<1>7. ASSUME NEW r \in Requests, End(r)
      PROVE  Unseen /\ drawn' = drawn /\ clock' = clock
  BY <1>7 DEF End, All, Expired, Unseen
<1> QED BY <1>3, <1>4, <1>5, <1>6, <1>7 DEF Next, Held

LEMMA StepLosesNothing ==
    ASSUME IInv, [Next]_vars
    PROVE  \A t \in Held : All[t] # NoSession /\ (All[t])' = NoSession =>
               t \in logouts' \/ OutOfTime(t)
<1> SUFFICES ASSUME NEW t \in Held, All[t] # NoSession, All'[t] = NoSession
             PROVE  t \in logouts' \/ OutOfTime(t)
  OBVIOUS
<1>1. TypeOK /\ t \in Tokens /\ t \in drawn
  BY HeldIsDrawn DEF IInv, Held
<1>2. All[t] \in Record
  BY <1>1, AllType DEF SessionMap
<1>3. CASE UNCHANGED vars
  BY <1>3 DEF vars, All, Expired
<1>4. CASE Tick
  <2>1. clock' = clock + 1 /\ UNCHANGED <<sessions, loaded, file>>
    BY <1>4 DEF Tick
  <2>2. ~ loaded
    BY <2>1 DEF All
  <2>3. All[t] = file[t] /\ Expired(file[t])'
    BY <1>1, <2>1, <2>2, AllFrom DEF All
  <2> QED BY <2>1, <2>3 DEF OutOfTime, Expired
<1>5. CASE Restart
  <2>1. ~ loaded' /\ file' = file /\ clock' = clock
    BY <1>5 DEF Restart
  <2>2. file[t] # NoSession
    BY DEF IInv, Stored
  <2>3. Expired(file[t])
    BY <1>1, <2>1, <2>2 DEF All, Expired
  <2> QED BY <2>1, <2>2, <2>3 DEF OutOfTime, Expired
<1>6. ASSUME NEW s \in Held, All[s] # NoSession, clock' = clock,
             s \in logouts' \/ Expired(All[s]), Save([All EXCEPT ![s] = NoSession])
      PROVE  t \in logouts' \/ OutOfTime(t)
  <2>1. s = t
    BY <1>1, <1>6, SaveLoses DEF Held
  <2> QED BY <1>6, <2>1 DEF OutOfTime, Expired
<1>7. ASSUME NEW s \in Tokens, NEW u \in Users, clock' = clock,
             Save([All EXCEPT ![s] = NewRecord(u)])
      PROVE  FALSE
  <2>1. NewRecord(u) \in Record /\ NewRecord(u) # NoSession
    BY <1>1, NewRecordType
  <2> QED BY <1>1, <1>7, <2>1, SaveLoses
<1>8. CASE Next
  <2>1. \A s \in Held : s \in Tokens /\ (All[s] # NoSession => All[s].user \in Users)
    BY <1>1, AllType DEF Held, SessionMap, Record
  <2> QED BY <1>4, <1>5, <1>6, <1>7, <1>8, <2>1, StepsOnSessions DEF Unseen
<1> QED BY <1>3, <1>8

\* No failed read, failed write or restart takes a session away that has time left.
THEOREM NoSessionIsLost == Spec => NothingLost
<1> QED BY SessionInvariance, StepLosesNothing, PTL DEF Spec, NothingLost

-----------------------------------------------------------------------------
(* The book. *)

\* Until a write fails, what is seen is what is in the file.
Clean ==
    faults["write"] = 0 =>
        /\ unsaved = {}
        /\ \A t \in Tokens : All[t] # NoSession => All[t] = file[t]

LEMMA FaultsGrow ==
    ASSUME TypeOK, [Next]_vars, faults'["write"] = 0
    PROVE  faults["write"] = 0
<1>1. ASSUME NEW kind \in {"read", "write"}, Fault(kind)
      PROVE  faults["write"] = 0
  BY <1>1 DEF Fault, TypeOK
<1>2. CASE UNCHANGED faults
  BY <1>2
<1>3. CASE Next
  BY <1>1, <1>2, <1>3 DEF Next, Login, Logout, Authorize, Refuse, Update, End, Tick,
       Restart, LoadFails, Load, Save, Saved, NotSaved
<1> QED BY <1>2, <1>3 DEF vars

LEMMA CleanWrite ==
    ASSUME TypeOK, NEW map \in SessionMap, Save(map), clock' = clock
    PROVE  Clean'
<1> SUFFICES ASSUME faults'["write"] = 0 PROVE Clean'
  BY DEF Clean
<1>1. ~ NotSaved(map)
  BY DEF TypeOK, NotSaved, Fault
<1>2. file' = map /\ unsaved' = {}
  BY <1>1 DEF Save, Saved
<1>3. All' = map
  BY SaveStep
<1> QED BY <1>2, <1>3 DEF Clean

LEMMA CleanStep ==
    ASSUME IInv, Clean, [Next]_vars
    PROVE  Clean'
<1> SUFFICES ASSUME faults'["write"] = 0 PROVE Clean'
  BY DEF Clean
<1>1. TypeOK /\ All \in SessionMap /\ faults["write"] = 0
  BY AllType, FaultsGrow DEF IInv
<1>2. CASE UNCHANGED vars
  BY <1>2 DEF vars, Clean, All, Expired
<1>3. CASE Tick
  BY <1>1, <1>3 DEF Tick, Clean, All
<1>4. CASE Restart
  BY <1>1, <1>4 DEF Restart, Clean, All
<1>5. ASSUME NEW t \in Tokens, NEW x \in Record \cup {NoSession},
             Save([All EXCEPT ![t] = x]), clock' = clock
      PROVE  Clean'
  <2>1. [All EXCEPT ![t] = x] \in SessionMap
    BY <1>1 DEF SessionMap
  <2> QED BY <1>1, <1>5, <2>1, CleanWrite
<1>6. CASE Unseen
  BY <1>1, <1>6 DEF Unseen, Clean
<1>7. CASE Next
  <2>1. \A t \in Held : t \in Tokens /\ (All[t] # NoSession => All[t].user \in Users)
    BY <1>1 DEF Held, SessionMap, Record
  <2>2. \A u \in Users : NewRecord(u) \in Record
    BY <1>1, NewRecordType
  <2> QED BY <1>3, <1>4, <1>5, <1>6, <1>7, <2>1, <2>2, StepsOnSessions
<1> QED BY <1>2, <1>7

\* A step that writes one entry is one of the book's.
LEMMA WriteIsEntry ==
    ASSUME IInv, NEW t \in Tokens, NEW x \in Record \cup {NoSession},
           Save([All EXCEPT ![t] = x]), clock' = clock
    PROVE  Book!Entry(t) /\ All'[t] = x
<1>1. TypeOK
  BY DEF IInv
<1> QED BY <1>1, SaveLoses DEF Book!Entry

LEMMA NewRecordIsCurrent ==
    ASSUME IInv, NEW u \in Users
    PROVE  /\ NewRecord(u) \in Record /\ NewRecord(u) # NoSession
           /\ NewRecord(u).user = u
           /\ ~ Book!Past(NewRecord(u), clock)
BY NewRecordType DEF IInv, Expired, Book!Past

LEMMA StepImplementsBook ==
    ASSUME IInv, Clean, [Next]_vars, faults'["write"] = 0
    PROVE  Book!Next \/ UNCHANGED Book!bookVars
<1>1. TypeOK /\ All \in SessionMap /\ faults["write"] = 0
  BY AllType, FaultsGrow DEF IInv
<1>2. CASE UNCHANGED vars
  BY <1>2 DEF vars, All, Expired, Book!bookVars
<1>3. CASE Unseen /\ drawn' = drawn /\ clock' = clock
  BY <1>3 DEF Unseen, Book!bookVars
<1>4. ASSUME NEW t \in Tokens, NEW u \in Users, t \notin drawn,
             drawn' = drawn \cup {t}, clock' = clock,
             Save([All EXCEPT ![t] = NewRecord(u)])
      PROVE  Book!Grant(t)
  BY <1>4, WriteIsEntry, NewRecordIsCurrent DEF Book!Grant
<1>5. ASSUME NEW t \in Held, All[t] # NoSession, drawn' = drawn, clock' = clock,
             Save([All EXCEPT ![t] = NoSession])
      PROVE  Book!Revoke(t)
  BY <1>5, WriteIsEntry DEF Book!Revoke, Held
<1>6. ASSUME NEW t \in Held, All[t] # NoSession, drawn' = drawn, clock' = clock,
             Save([All EXCEPT ![t] = NewRecord(All[t].user)])
      PROVE  Book!Renew(t)
  <2>1. t \in Tokens /\ All[t].user \in Users
    BY <1>1, <1>6 DEF Held, SessionMap, Record
  <2> QED BY <1>6, <2>1, WriteIsEntry, NewRecordIsCurrent DEF Book!Renew
<1>7. CASE Tick
  <2>1. clock' = clock + 1 /\ drawn' = drawn /\ UNCHANGED <<sessions, loaded, file>>
    BY <1>7 DEF Tick
  <2>2. Book!Lapses(clock')
    BY <1>1, <2>1 DEF All, Book!Lapses, Book!Past, Expired, TypeOK, SessionMap, Record
  <2> QED BY <2>1, <2>2 DEF Book!Tick, Book!Next
<1>8. CASE Restart
  <2>1. ~ loaded' /\ UNCHANGED <<file, clock, drawn>>
    BY <1>8 DEF Restart
  <2>2. \A t \in Tokens : All'[t] = IF file[t] # NoSession /\ ~ Expired(file[t])
                                    THEN file[t] ELSE NoSession
    BY <2>1 DEF All, Expired
  <2>3. \A t \in Tokens : All[t] = NoSession => All'[t] = NoSession
    BY <1>1, <2>2 DEF IInv, Kept, Clean
  <2>4. Book!Lapses(clock)
    BY <1>1, <2>2, <2>3 DEF Clean, Book!Lapses, Book!Past, Expired
  <2> QED BY <2>1, <2>4 DEF Book!Lapse, Book!Next
<1>9. CASE Next
  <2>1. \A t \in Held : t \in Tokens
    BY DEF Held
  <2>2. \/ Unseen /\ drawn' = drawn /\ clock' = clock
        \/ \E t \in Tokens : Book!Grant(t) \/ Book!Revoke(t) \/ Book!Renew(t)
        \/ Tick \/ Restart
    BY <1>4, <1>5, <1>6, <1>9, <2>1, StepsOnSessions
  <2> QED BY <1>3, <1>7, <1>8, <2>2 DEF Book!Next
<1> QED BY <1>2, <1>9

LEMMA InitImplementsBook == Init => Clean /\ Book!Init
<1> SUFFICES ASSUME Init PROVE Clean /\ Book!Init
  OBVIOUS
<1>1. All = [t \in Tokens |-> NoSession]
  BY DEF Init, All, Empty
<1> QED BY <1>1 DEF Init, Clean, Book!Init

\* Until a write fails, the sessions are the book: failed reads, restarts and
\* requests in flight leave no trace in them.
THEOREM SessionsImplementBook == Spec => ImplementsBook
<1>1. IInv /\ Clean /\ [Next]_vars => Clean'
  BY CleanStep
<1>2. IInv /\ Clean /\ [Next]_vars =>
        [faults'["write"] = 0 => Book!Next \/ UNCHANGED Book!bookVars]_vars
  BY StepImplementsBook
<1> QED BY <1>1, <1>2, InitImplementsBook, SessionInvariance, PTL
        DEF Spec, ImplementsBook
=============================================================================
