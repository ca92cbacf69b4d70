------------------------------ MODULE Sessions ------------------------------
(***************************************************************************)
(* SessionManager and the handlers around it.  Sessions live in a map that *)
(* is read from a JSON file at the first use after a start and written to  *)
(* it, as a whole, after every change.  Reads and writes of the file may   *)
(* fail, and the callers ignore most failures.  One mutex guards each      *)
(* operation, none guards a request: a handler gets the session, talks to  *)
(* ERPNext, and then updates a session that others have changed since.     *)
(*                                                                         *)
(* A definition Name_Variant before Name is not part of the specification: *)
(* it is a plausible mistake in that code, which a property must notice.   *)
(***************************************************************************)
EXTENDS Integers, FiniteSets

CONSTANTS
    Tokens,       \* the tokens that may be drawn
    Users,
    Requests,     \* the requests the server works on at the same time
    NoSession,    \* no entry in the map
    NoUser,       \* the owner of a token that was never handed out
    NoToken,      \* the token of an idle request
    TTLs,         \* the values of MOBILE_API_SESSION_TTL_HOURS at a start
    MaxClock,     \* bound on the clock
    ReadFaults,   \* bound on failed reads of the file
    WriteFaults   \* bound on failed writes of the file

ASSUME SessionsAssumption ==
    /\ NoUser \notin Users
    /\ NoToken \notin Tokens
    /\ TTLs \subseteq Nat
    /\ {MaxClock, ReadFaults, WriteFaults} \subseteq Nat
    /\ NoSession \notin [user : Users, expires : Nat]

VARIABLES
    sessions,  \* the map in memory
    loaded,    \* has it been read since the start?
    file,      \* the map in the file
    ttl,       \* session lifetime; 0: sessions do not expire
    clock,
    req,       \* req[r]: the token and principal a handler works with
    faults,    \* failed reads and writes so far
    owner,     \* history: the user a token was handed to
    drawn,     \* history: the tokens ever put in the map
    logouts,   \* history: tokens that were logged out
    unsaved    \* history: tokens removed since the last write that succeeded

vars == <<sessions, loaded, file, ttl, clock, req, faults, owner, drawn,
          logouts, unsaved>>

Record == [user : Users, expires : Nat]

SessionMap == [Tokens -> Record \cup {NoSession}]

Empty == [t \in Tokens |-> NoSession]

NewRecord_Sign(u) ==
    [user |-> u, expires |-> IF ttl > 0 THEN clock - ttl ELSE 0]

\* newSessionRecord: the lifetime starts again with every write of a record.
NewRecord(u) == [user |-> u, expires |-> IF ttl > 0 THEN clock + ttl ELSE 0]

Expired(r) == r.expires # 0 /\ clock > r.expires

\* The sessions as the next operation will see them.
All ==
    IF loaded THEN sessions
    ELSE [t \in Tokens |-> IF file[t] # NoSession /\ ~ Expired(file[t])
                             THEN file[t] ELSE NoSession]

Fault(kind) ==
    /\ faults[kind] < (IF kind = "read" THEN ReadFaults ELSE WriteFaults)
    /\ faults' = [faults EXCEPT ![kind] = @ + 1]

\* loadAllLocked returns an error: nothing is loaded.
LoadFails ==
    ~ loaded /\ Fault("read") /\ UNCHANGED <<sessions, loaded, file, unsaved>>

\* loadAllLocked and nothing else.
Load ==
    sessions' = All /\ loaded' = TRUE /\ UNCHANGED <<file, faults, unsaved>>

\* writeAllLocked: memory is replaced first.  The file is written aside and
\* renamed, so it has all of the map or stays as it was.
Put(map) == sessions' = map /\ loaded' = TRUE
Saved(map) == Put(map) /\ file' = map /\ unsaved' = {} /\ UNCHANGED faults
NotSaved(map) ==
    /\ Put(map) /\ UNCHANGED file /\ Fault("write")
    /\ unsaved' = unsaved \cup
                     {t \in Tokens : All[t] # NoSession /\ map[t] = NoSession}
Save(map) == Saved(map) \/ NotSaved(map)

Init ==
    /\ sessions = Empty /\ loaded = FALSE /\ file = Empty
    /\ ttl \in TTLs
    /\ clock = 0
    /\ req = [r \in Requests |-> [token |-> NoToken, user |-> NoUser]]
    /\ faults = [read |-> 0, write |-> 0]
    /\ owner = [t \in Tokens |-> NoUser]
    /\ drawn = {} /\ logouts = {} /\ unsaved = {}

-----------------------------------------------------------------------------
\* A failed read is taken for an empty store.
Login_EmptyOnError(t, u) ==
    /\ t \notin drawn
    /\ drawn' = drawn \cup {t}
    /\ \/ /\ Saved([All EXCEPT ![t] = NewRecord(u)])
          /\ owner' = [owner EXCEPT ![t] = u]
       \/ /\ ~ loaded /\ Fault("read")
          /\ Put([Empty EXCEPT ![t] = NewRecord(u)])
          /\ file' = sessions' /\ unsaved' = {}
          /\ owner' = [owner EXCEPT ![t] = u]
    /\ UNCHANGED <<ttl, clock, req, logouts>>

\* handleLogin after the code was checked: Create.  The token reaches the user
\* only when it was written; after a failed write it stays in memory.
Login(t, u) ==
    /\ t \notin drawn
    /\ \/ /\ Saved([All EXCEPT ![t] = NewRecord(u)])
          /\ owner' = [owner EXCEPT ![t] = u]
          /\ drawn' = drawn \cup {t}
       \/ /\ NotSaved([All EXCEPT ![t] = NewRecord(u)])
          /\ drawn' = drawn \cup {t}
          /\ UNCHANGED owner
       \/ LoadFails /\ UNCHANGED <<owner, drawn>>
    /\ UNCHANGED <<ttl, clock, req, logouts>>

\* The change is not written.
Logout_MemoryOnly(t) ==
    /\ \/ LoadFails /\ UNCHANGED logouts
       \/ /\ Put([All EXCEPT ![t] = NoSession])
          /\ logouts' = logouts \cup {t}
          /\ UNCHANGED <<file, faults, unsaved>>
    /\ UNCHANGED <<ttl, clock, req, owner, drawn>>

\* handleLogout: Delete.  It answers ok whatever happens, also when the sessions
\* could not be read and the session therefore goes on.
Logout(t) ==
    /\ \/ LoadFails /\ UNCHANGED logouts
       \/ /\ \/ All[t] = NoSession /\ Load
             \/ All[t] # NoSession /\ Save([All EXCEPT ![t] = NoSession])
          /\ logouts' = logouts \cup {t}
    /\ UNCHANGED <<ttl, clock, req, owner, drawn>>

\* The principal is kept in the server, for all requests.
Authorize_SharedPrincipal(r, t) ==
    /\ req[r].token = NoToken
    /\ All[t] # NoSession /\ ~ Expired(All[t])
    /\ Load
    /\ req' = [q \in Requests |->
                 IF q = r THEN [token |-> t, user |-> All[t].user]
                 ELSE IF req[q].token = NoToken THEN req[q]
                 ELSE [req[q] EXCEPT !.user = All[t].user]]
    /\ UNCHANGED <<ttl, clock, owner, drawn, logouts>>

\* authorizeWithToken: Get.  The handler goes on with a copy of the principal.
Authorize(r, t) ==
    /\ req[r].token = NoToken
    /\ All[t] # NoSession /\ ~ Expired(All[t])
    /\ Load
    /\ req' = [req EXCEPT ![r] = [token |-> t, user |-> All[t].user]]
    /\ UNCHANGED <<ttl, clock, owner, drawn, logouts>>

\* Get of a token that is not there, cannot be looked up, or has expired.
Refuse(t) ==
    /\ \/ LoadFails
       \/ All[t] = NoSession /\ Load
       \/ /\ All[t] # NoSession /\ Expired(All[t])
          /\ Save([All EXCEPT ![t] = NoSession])
    /\ UNCHANGED <<ttl, clock, req, owner, drawn, logouts>>

Idle(r) == req' = [req EXCEPT ![r] = [token |-> NoToken, user |-> NoUser]]

\* The session is written whether or not it is still there.
Update_Reinserts(r) ==
    /\ req[r].token # NoToken
    /\ Idle(r)
    /\ \/ LoadFails
       \/ Save([All EXCEPT ![req[r].token] = NewRecord(req[r].user)])
    /\ UNCHANGED <<ttl, clock, owner, drawn, logouts>>

\* handleMe, handleProfile and handleProfileAvatar: Update with the principal
\* the handler has, if the token is still there.
Update(r) ==
    /\ req[r].token # NoToken
    /\ Idle(r)
    /\ LET t == req[r].token
       IN  \/ LoadFails
           \/ All[t] = NoSession /\ Load
           \/ /\ All[t] # NoSession
              /\ Save([All EXCEPT ![t] = NewRecord(req[r].user)])
    /\ UNCHANGED <<ttl, clock, owner, drawn, logouts>>

\* A handler that ends without an Update: an error, or a handler that only
\* needed the principal.
End(r) ==
    /\ req[r].token # NoToken
    /\ Idle(r)
    /\ UNCHANGED <<sessions, loaded, file, ttl, clock, faults, owner, drawn,
                   logouts, unsaved>>

Tick ==
    /\ clock < MaxClock
    /\ clock' = clock + 1
    /\ UNCHANGED <<sessions, loaded, file, ttl, req, faults, owner, drawn,
                   logouts, unsaved>>

\* The server stops, with all it has in memory, and starts with the lifetime
\* that is configured then.  It undoes the logouts that were not written.
Restart ==
    /\ sessions' = Empty /\ loaded' = FALSE
    /\ ttl' \in TTLs
    /\ req' = [r \in Requests |-> [token |-> NoToken, user |-> NoUser]]
    /\ logouts' = logouts \ unsaved /\ unsaved' = {}
    /\ UNCHANGED <<file, clock, faults, owner, drawn>>

\* Only users have tokens: nobody guesses one.
Held == {t \in Tokens : owner[t] # NoUser}

Next ==
    \/ \E t \in Tokens, u \in Users : Login(t, u)
    \/ \E t \in Held : Logout(t) \/ Refuse(t)
    \/ \E t \in Held, r \in Requests : Authorize(r, t)
    \/ \E r \in Requests : Update(r) \/ End(r)
    \/ Tick
    \/ Restart

Spec == Init /\ [][Next]_vars
-----------------------------------------------------------------------------
(* Properties *)

TypeOK ==
    /\ sessions \in SessionMap /\ file \in SessionMap
    /\ loaded \in BOOLEAN
    /\ ttl \in TTLs /\ clock \in Nat
    /\ req \in [Requests -> [token : Tokens \cup {NoToken}, user : Users \cup {NoUser}]]
    /\ faults \in [{"read", "write"} -> Nat]
    /\ owner \in [Tokens -> Users \cup {NoUser}]
    /\ drawn \subseteq Tokens /\ logouts \subseteq Tokens /\ unsaved \subseteq Tokens

\* A session in the map the server uses, or would read after a restart, belongs
\* to the user the token was handed to, and so does the copy a handler holds.
RightUser ==
    /\ \A t \in Held : /\ All[t] # NoSession => All[t].user = owner[t]
                       /\ file[t] # NoSession => file[t].user = owner[t]
    /\ \A r \in Requests : req[r].token # NoToken =>
                              req[r].user = owner[req[r].token]

\* A session that was handed out is lost to a logout, or because what was last
\* kept or last written of it has expired: no failed read, failed write or restart
\* takes away a session that has time left.
OutOfTime(t) ==
    \E r \in {All[t], file[t]} :
        r # NoSession /\ r.expires # 0 /\ clock' > r.expires

NothingLost ==
    [][\A t \in Held : All[t] # NoSession /\ (All[t])' = NoSession =>
           t \in logouts' \/ OutOfTime(t)]_vars

\* A logout is final in memory, whatever the requests in flight do afterwards, and
\* once the next write succeeds, whoever makes it, also after every restart.  (A
\* logout of an expired session leaves it in the file, where no start takes it up.)
LogoutIsFinal ==
    \A t \in logouts :
        /\ All[t] = NoSession
        /\ t \notin unsaved => (file[t] # NoSession => Expired(file[t]))

\* Until a write fails the sessions are a book that restarts, failed reads
\* and requests in flight leave no trace in: nobody's session comes back, changes
\* hands, or ends before its time.
Book == INSTANCE SessionBook WITH book <- All

ImplementsBook ==
    /\ Book!Init
    /\ [][faults'["write"] = 0 => Book!Next \/ UNCHANGED Book!bookVars]_vars
=============================================================================
