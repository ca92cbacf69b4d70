------------------------------- MODULE Pushes -------------------------------
(***************************************************************************)
(* Notifications to phones.  A phone registers its token under the key of  *)
(* the user who is signed in there; a request that has changed something   *)
(* tells the other party through FCM, token by token, before it answers.   *)
(* The tokens are a map in memory and a JSON file, like the sessions, but  *)
(* here the map in memory is changed in place, so that it keeps a change   *)
(* whose write failed.                                                     *)
(*                                                                         *)
(* What the requests do to documents is in the other modules; here they    *)
(* succeed or fail, and a batch does so line by line.                      *)
(*                                                                         *)
(* A definition Name_Variant before Name is not part of the specification: *)
(* it is a plausible mistake in that code, which a property must notice.   *)
(***************************************************************************)
EXTENDS Integers, Sequences, FiniteSets

CONSTANTS
    Tokens,     \* the tokens FCM has given to phones
    Suppliers,
    Customers,
    Requests,   \* the requests the server works on at the same time
    Lines,      \* the lines of a batch: 1 .. n
    Workers,    \* the workers of a batch
    MaxFaults   \* bound on failed reads, writes and calls

ASSUME PushesAssumption ==
    /\ IsFiniteSet(Lines) /\ Lines = 1 .. Cardinality(Lines)
    /\ Workers \in Nat \ {0}
    /\ MaxFaults \in Nat

VARIABLES
    mem,     \* mem[k]: the tokens under key k in memory
    loaded,  \* has the file been read since the start?
    file,    \* the map in the file
    live,    \* the tokens FCM still knows
    req,     \* req[h]: what a request does
    faults,  \* failures so far
    last     \* history: where the last request about a token has left it

vars == <<mem, loaded, file, live, req, faults, last>>

\* pushTokenKey
Key(role, ref) == <<role, ref>>
Werka == Key("werka", "werka")
Admin == Key("admin", "admin")

\* Only suppliers and Werka may register.
Registrants == {Key("supplier", s) : s \in Suppliers} \cup {Werka}

Keys == Registrants \cup {Key("customer", c) : c \in Customers}
            \cup {Key("supplier", ""), Admin}

None == <<>>     \* no key
Unknown == <<"?">>  \* the last request about the token has failed

Ops == {"dispatch", "answer", "comment", "respond", "confirm", "unannounced",
        "issue", "batch"}

\* queue: the keys still to be told.  left: the tokens of the first of them that
\* are still to be called.  line: what became of the lines of a batch.  due:
\* history, the phones of the other party that nothing has kept from being told.
Request ==
    [pc    : {"idle", "creating", "listing", "sending", "dropping", "answered"},
     op    : Ops,
     queue : Seq(Keys),
     left  : SUBSET Tokens,
     stale : SUBSET Tokens,
     line  : [Lines -> {"todo", "doing", "created", "failed"}],
     due   : SUBSET Tokens]

Idle == [pc |-> "idle", op |-> "batch", queue |-> <<>>, left |-> {}, stale |-> {},
         line |-> [i \in Lines |-> "todo"], due |-> {}]

\* The map as the next operation of the store will see it.
All == IF loaded THEN mem ELSE file

Owners(map, t) == {k \in Keys : t \in map[k]}

Fault == faults < MaxFaults /\ faults' = faults + 1

\* loadAllLocked returns an error; nothing is loaded.
LoadFails == ~ loaded /\ Fault /\ UNCHANGED <<mem, loaded, file>>

Load == mem' = All /\ loaded' = TRUE /\ UNCHANGED <<file, faults>>

\* writeAllLocked after the map in memory was changed.  The file is written
\* aside and renamed.
Put(map) == mem' = map /\ loaded' = TRUE
Saved(map) == Put(map) /\ file' = map /\ UNCHANGED faults
NotSaved(map) == Put(map) /\ Fault /\ UNCHANGED file

\* The requests no longer owe these phones anything.
Excused(tokens) == [h \in Requests |-> [req[h] EXCEPT !.due = @ \ tokens]]

Init ==
    /\ file \in {m \in [Keys -> SUBSET Tokens] :
                    /\ \A t \in Tokens : \A j, k \in Owners(m, t) : j = k
                    /\ \A k \in Keys \ Registrants : m[k] = {}}
    /\ mem = [k \in Keys |-> {}] /\ loaded = FALSE
    /\ live = Tokens
    /\ req = [h \in Requests |-> Idle]
    /\ faults = 0
    /\ last = [t \in Tokens |->
                 IF Owners(file, t) = {} THEN None
                 ELSE CHOOSE k \in Keys : t \in file[k]]

-----------------------------------------------------------------------------
(* The token store *)

\* The token stays under the keys it is under.
Moved_Copied(t, key) == [All EXCEPT ![key] = @ \cup {t}]

\* MoveTokenToKey: the token leaves every key and is put under one.
Moved(t, key) == [k \in Keys |-> IF k = key THEN All[k] \cup {t} ELSE All[k] \ {t}]

Deleted(t, key) == [All EXCEPT ![key] = @ \ {t}]

\* handlePushToken with POST.  It reads the list first, for the log, and so
\* loads the map; a write that fails leaves the token under the key in memory.
Register(t, key) ==
    /\ \/ LoadFails /\ UNCHANGED <<last, req>>
       \/ /\ Saved(Moved(t, key))
          /\ last' = [last EXCEPT ![t] = key]
          /\ req' = Excused({t})
       \/ /\ NotSaved(Moved(t, key))
          /\ last' = [last EXCEPT ![t] = Unknown]
          /\ req' = Excused({t})
    /\ UNCHANGED live

\* handlePushToken with DELETE: the token leaves the caller's own key.
Unregister(t, key) ==
    LET Left(at) == IF last[t] = key THEN [last EXCEPT ![t] = at] ELSE last
    IN  /\ \/ LoadFails /\ UNCHANGED <<last, req>>
           \/ Saved(Deleted(t, key)) /\ last' = Left(None) /\ req' = Excused({t})
           \/ NotSaved(Deleted(t, key)) /\ last' = Left(Unknown) /\ req' = Excused({t})
        /\ UNCHANGED live

\* The application is removed from the phone: FCM will refuse its token from now
\* on, and a new installation gets another one.
Uninstall(t) ==
    /\ live' = live \ {t}
    /\ req' = Excused({t})
    /\ UNCHANGED <<mem, loaded, file, faults, last>>

-----------------------------------------------------------------------------
(* The requests that tell somebody *)

Free(h) == req[h].pc \in {"idle", "answered"}

Store == <<mem, loaded, file, live, faults, last>>

\* The operation fails, and the request is answered with an error, or it
\* succeeds: keys are told, and the phones of party are owed a message.
Tell(h, op, queue, party) ==
    /\ Free(h)
    /\ \/ req' = [req EXCEPT ![h] = [Idle EXCEPT !.pc = "answered", !.op = op]]
       \/ req' = [req EXCEPT ![h] =
                    [Idle EXCEPT !.pc = "listing", !.op = op, !.queue = queue,
                                 !.due = live \cap UNION {All[k] : k \in party}]]
    /\ UNCHANGED Store

CreateDispatch(h) == Tell(h, "dispatch", <<Werka>>, {Werka})

SupplierUnannouncedRespond(h) == Tell(h, "answer", <<Werka>>, {Werka})

\* A comment of a supplier that begins like an acknowledgement; nobody is told
\* of any other comment.
NotificationComment(h) ==
    \/ Tell(h, "comment", <<Werka>>, {Werka})
    \/ Tell(h, "comment", <<>>, {})

CustomerRespond(h) == Tell(h, "respond", <<Werka, Admin>>, {Werka})

\* The key is made of the supplier's name.
WerkaConfirm_ByName(h, s) ==
    Tell(h, "confirm", <<Key("supplier", "name")>>, {Key("supplier", s)})

\* ConfirmReceipt answers with the supplier's name and without the reference the
\* key is made of.
WerkaConfirm(h, s) ==
    Tell(h, "confirm", <<Key("supplier", "")>>, {Key("supplier", s)})

WerkaUnannouncedCreate(h, s) ==
    Tell(h, "unannounced", <<Key("supplier", s)>>, {Key("supplier", s)})

WerkaCustomerIssueCreate(h, c) ==
    Tell(h, "issue", <<Key("customer", c)>>, {Key("customer", c)})

\* A batch begins with its workers waiting for lines.
BatchCreate(h) ==
    /\ Free(h)
    /\ req' = [req EXCEPT ![h] = [Idle EXCEPT !.pc = "creating", !.op = "batch"]]
    /\ UNCHANGED Store

In(h, states) == {i \in Lines : req[h].line[i] \in states}

\* A worker leaves its loop when a line fails.
WorkerFree_UntilFailed(h) == Cardinality(In(h, {"doing", "failed"})) < Workers

\* As many lines are worked on as there are workers; a worker whose line has
\* failed takes the next one.
WorkerFree(h) == Cardinality(In(h, {"doing"})) < Workers

\* The lines are handed out in their order.
BatchTake(h) ==
    /\ req[h].pc = "creating" /\ WorkerFree(h)
    /\ \E i \in In(h, {"todo"}) :
          /\ \A j \in In(h, {"todo"}) : i <= j
          /\ req' = [req EXCEPT ![h].line[i] = "doing"]
    /\ UNCHANGED Store

BatchLine(h) ==
    /\ req[h].pc = "creating"
    /\ \E i \in In(h, {"doing"}), result \in {"created", "failed"} :
          req' = [req EXCEPT ![h].line[i] = result]
    /\ UNCHANGED Store

\* All workers have ended.  The customers of the created lines are told, one
\* after the other; that they are the customers of those lines is left out.
BatchTell(h, c) ==
    /\ req[h].pc = "creating" /\ In(h, {"todo", "doing"}) = {}
    /\ req' = [req EXCEPT ![h].pc = "listing",
                          ![h].queue = [i \in 1 .. Cardinality(In(h, {"created"})) |->
                                           Key("customer", c)]]
    /\ UNCHANGED Store

-----------------------------------------------------------------------------
(* SendToKey.  An error is logged and the request goes on. *)

NextKey(h) == [req[h] EXCEPT !.pc = "listing", !.queue = Tail(@), !.left = {}]

\* The tokens are copied from the store, and an access token is fetched.  If
\* either fails nobody under this key is called.
SendList(h) ==
    /\ req[h].pc = "listing" /\ req[h].queue # <<>>
    /\ LET tokens == All[Head(req[h].queue)]
       IN  \/ /\ Load
              /\ req' = [req EXCEPT ![h] =
                           IF tokens = {} THEN NextKey(h)
                           ELSE [req[h] EXCEPT !.pc = "sending", !.left = tokens]]
           \/ /\ \/ LoadFails
                 \/ tokens # {} /\ Fault /\ Put(All) /\ UNCHANGED file
              /\ req' = [req EXCEPT ![h] = [NextKey(h) EXCEPT !.due = @ \ tokens]]
    /\ UNCHANGED <<live, last>>

\* The first failure ends the loop.
AfterFailure_Stop(h, t) == [req[h] EXCEPT !.left = {}]

\* After a failed call the next token is called.
AfterFailure(h, t) == [req[h] EXCEPT !.left = @ \ {t}]

\* shouldDropPushToken: FCM does not know the token.
Refused(h, t) == t \notin live

\* A call of FCM.  It may fail, or its answer be lost.
SendPost(h, t) ==
    /\ req[h].pc = "sending" /\ t \in req[h].left
    /\ \/ /\ t \in live
          /\ req' = [req EXCEPT ![h] =
                       [req[h] EXCEPT !.left = @ \ {t}, !.due = @ \ {t}]]
          /\ UNCHANGED faults
       \/ /\ Refused(h, t)
          /\ req' = [req EXCEPT ![h] = [AfterFailure(h, t) EXCEPT
                                          !.pc = "dropping", !.stale = {t}]]
          /\ UNCHANGED faults
       \/ /\ Fault
          /\ req' = [req EXCEPT ![h] = [AfterFailure(h, t) EXCEPT !.due = @ \ {t}]]
    /\ UNCHANGED <<mem, loaded, file, live, last>>

\* The token is deleted from the key it was listed under.
SendDrop(h) ==
    /\ req[h].pc = "dropping"
    /\ \E t \in req[h].stale :
          \/ LoadFails
          \/ Saved(Deleted(t, Head(req[h].queue)))
          \/ NotSaved(Deleted(t, Head(req[h].queue)))
    /\ req' = [req EXCEPT ![h].pc = "sending", ![h].stale = {}]
    /\ UNCHANGED <<live, last>>

SendEnd(h) ==
    /\ req[h].pc = "sending" /\ req[h].left = {}
    /\ req' = [req EXCEPT ![h] = NextKey(h)]
    /\ UNCHANGED Store

Answer(h) ==
    /\ req[h].pc = "listing" /\ req[h].queue = <<>>
    /\ req' = [req EXCEPT ![h].pc = "answered"]
    /\ UNCHANGED Store

\* The server stops and starts again.
Restart ==
    /\ loaded' = FALSE /\ mem' = [k \in Keys |-> {}]
    /\ req' = [h \in Requests |-> Idle]
    /\ UNCHANGED <<file, live, faults, last>>

-----------------------------------------------------------------------------
Begin(h) ==
    \/ CreateDispatch(h) \/ SupplierUnannouncedRespond(h)
    \/ NotificationComment(h) \/ CustomerRespond(h)
    \/ \E s \in Suppliers : WerkaConfirm(h, s) \/ WerkaUnannouncedCreate(h, s)
    \/ \E c \in Customers : WerkaCustomerIssueCreate(h, c)
    \/ BatchCreate(h)

Work(h) ==
    \/ BatchTake(h) \/ BatchLine(h) \/ \E c \in Customers : BatchTell(h, c)
    \/ SendList(h) \/ (\E t \in Tokens : SendPost(h, t)) \/ SendDrop(h)
    \/ SendEnd(h) \/ Answer(h)

Next ==
    \/ \E t \in Tokens, k \in Registrants : Register(t, k) \/ Unregister(t, k)
    \/ \E t \in live : Uninstall(t)
    \/ \E h \in Requests : Begin(h) \/ Work(h)
    \/ Restart

Spec == Init /\ [][Next]_vars

\* A request's goroutines run on, and every call of FCM ends: its client has a
\* time limit.
FairSpec == Spec /\ \A h \in Requests : WF_vars(Work(h))

-----------------------------------------------------------------------------
(* Properties *)

TypeOK ==
    /\ mem \in [Keys -> SUBSET Tokens] /\ file \in [Keys -> SUBSET Tokens]
    /\ loaded \in BOOLEAN /\ live \subseteq Tokens
    /\ req \in [Requests -> Request]
    /\ faults \in Nat
    /\ last \in [Tokens -> Keys \cup {None, Unknown}]

\* A token is under one key at most, so that a phone is told what concerns the
\* user who registered there last.  An acknowledged registration, or its end,
\* holds in memory and in the file until the next request about that token: no
\* failed read, failed write of something else, restart or refusal of another
\* token undoes it while FCM knows the token.
RegistrationsHold ==
    \A t \in Tokens, map \in {All, file} :
        /\ \A j, k \in Owners(map, t) : j = k
        /\ t \in live /\ last[t] # Unknown =>
              Owners(map, t) = {last[t]} \ {None}

\* When a request that succeeded is answered, every phone of the other party has
\* been told, but for those whose own call failed, whose key could not be listed,
\* or that were registered anew or removed meanwhile: nobody misses a message
\* because the call to somebody else failed.
NobodyLeftOut ==
    \A h \in Requests :
        req[h].pc = "answered" /\ req[h].op # "confirm" => req[h].due = {}

\* The same for the supplier whose receipt Werka has confirmed.
SupplierIsTold ==
    \A h \in Requests :
        req[h].pc = "answered" /\ req[h].op = "confirm" => req[h].due = {}

\* Every request is answered, whatever the calls it makes end with, and whatever
\* the lines of a batch end with, unless the server stops first.
RequestsEnd ==
    \A h \in Requests : req[h].pc # "idle" ~> req[h].pc \in {"idle", "answered"}
=============================================================================
