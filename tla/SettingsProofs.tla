--------------------------- MODULE SettingsProofs ---------------------------
(***************************************************************************)
(* For any values, users, requests and failures, with or without a direct  *)
(* reader: settings and profiles that were acknowledged hold.  The         *)
(* settings and the profiles meet only in the requests, so each has an     *)
(* invariant of its own, which the steps of the other leave alone.         *)
(***************************************************************************)
EXTENDS Settings, TLAPS

(* Settings *)

\* The fields whose acknowledgement a request will settle when it ends.
Touched(x) ==
    CASE x.pc \in {"form", "kept"}   -> InEnv
      [] x.pc = "keys"              -> Field
      [] x.pc \in {"regen", "saved"} -> {"code"}
      [] OTHER                      -> {}

Pending(f) == \E r \in Requests : f \in Touched(req[r])

\* A field is as it was acknowledged, unless a request about it is under way.
FieldsHold ==
    \A f \in Field : last[f] # Unknown /\ ~ Pending(f) =>
        /\ cfg[f] = last[f]
        /\ f \in InEnv => env[f] = last[f]

\* A request that changes settings and has met no other has set its fields.
AloneHasSet ==
    \A r \in Requests : Setting(r) /\ req[r].clean =>
        /\ \A q \in Requests \ {r} : ~ Setting(q)
        /\ \A f \in Touched(req[r]) : cfg[f] = req[r].value

CacheHolds == cache.site \notin {Blank, cfg.site} => cache.late

SInv == FieldsHold /\ AloneHasSet /\ CacheHolds

-----------------------------------------------------------------------------
(* Profiles *)

\* A request that edits a profile and has met no other still has it as it is.
AloneHasRead ==
    \A r \in Requests, u \in Users : Editing(r, u) /\ req[r].clean =>
        /\ \A q \in Requests \ {r} : ~ Editing(q, u)
        /\ req[r].pc # "uploaded" => req[r].read = All[u]

\* A request that edits a profile edits that of a user.
HasUser ==
    \A r \in Requests : req[r].pc \in {"nick", "uploaded", "avatar"} => req[r].user \in Users

PInv == HasUser /\ ProfileHolds /\ AloneHasRead

IInv == TypeOK /\ SInv /\ PInv

-----------------------------------------------------------------------------
(* Types *)

\* The step of PutKey that keeps a key.
KeyKept(r, key) ==
    /\ cfg' = [cfg EXCEPT !.key = key]
    /\ req' = [req EXCEPT ![r].pc = "kept"]
    /\ last' = [last EXCEPT !.key = IF key = cfg.key THEN @ ELSE Unknown]
    /\ UNCHANGED faults

LEMMA ValueIsKnown == Unknown \notin Value
BY SettingsAssumption DEF Value

LEMMA IdleType ==
    /\ Idle \in Request /\ Idle.pc = "idle" /\ Idle.clean = TRUE
    /\ Idle.user = Blank /\ Idle.value = Blank
BY DEF Idle, Request, Value

LEMMA AllType ==
    ASSUME TypeOK
    PROVE  All \in [Users -> [Part -> Value]]
BY DEF TypeOK, All

LEMMA BegunType ==
    ASSUME TypeOK, NEW r \in Requests, NEW v \in Values,
           NEW pc \in {"form", "regen"}
    PROVE  /\ Begun(r, pc, v) \in [Requests -> Request]
           /\ Begun(r, pc, v)[r].pc = pc /\ Begun(r, pc, v)[r].value = v
           /\ Begun(r, pc, v)[r].clean <=> \A o \in Requests : ~ Setting(o)
           /\ \A q \in Requests \ {r} :
                 /\ Begun(r, pc, v)[q].pc = req[q].pc
                 /\ Begun(r, pc, v)[q].user = req[q].user
                 /\ Begun(r, pc, v)[q].value = req[q].value
                 /\ Begun(r, pc, v)[q].read = req[q].read
                 /\ Begun(r, pc, v)[q].clean <=> (req[q].clean /\ ~ Setting(q))
<1> DEFINE mine == [Idle EXCEPT !.pc = pc, !.value = v,
                                !.clean = \A o \in Requests : ~ Setting(o)]
<1> DEFINE other(q) == [req[q] EXCEPT !.clean = @ /\ ~ Setting(q)]
<1>1. /\ mine \in Request /\ mine.pc = pc /\ mine.value = v
      /\ mine.clean <=> \A o \in Requests : ~ Setting(o)
  BY IdleType DEF Request, Value
<1>2. \A q \in Requests : /\ other(q) \in Request
                          /\ other(q).pc = req[q].pc /\ other(q).user = req[q].user
                          /\ other(q).value = req[q].value /\ other(q).read = req[q].read
                          /\ other(q).clean <=> (req[q].clean /\ ~ Setting(q))
  BY DEF TypeOK, Request
<1>3. Begun(r, pc, v) = [q \in Requests |-> IF q = r THEN mine ELSE other(q)]
  BY DEF Begun
<1> HIDE DEF mine, other
<1> QED BY <1>1, <1>2, <1>3

LEMMA OpenedType ==
    ASSUME TypeOK, NEW r \in Requests, NEW u \in Users, NEW v \in Values,
           NEW pc \in {"nick", "uploaded"}
    PROVE  /\ Opened(r, u, pc, v) \in [Requests -> Request]
           /\ Opened(r, u, pc, v)[r].pc = pc /\ Opened(r, u, pc, v)[r].user = u
           /\ Opened(r, u, pc, v)[r].read = All[u]
           /\ Opened(r, u, pc, v)[r].clean <=> \A o \in Requests : ~ Editing(o, u)
           /\ \A q \in Requests \ {r} :
                 /\ Opened(r, u, pc, v)[q].pc = req[q].pc
                 /\ Opened(r, u, pc, v)[q].user = req[q].user
                 /\ Opened(r, u, pc, v)[q].value = req[q].value
                 /\ Opened(r, u, pc, v)[q].read = req[q].read
                 /\ Opened(r, u, pc, v)[q].clean <=> (req[q].clean /\ ~ Editing(q, u))
<1> DEFINE mine == [Idle EXCEPT !.pc = pc, !.value = v, !.user = u, !.read = All[u],
                                !.clean = \A o \in Requests : ~ Editing(o, u)]
<1> DEFINE other(q) == [req[q] EXCEPT !.clean = @ /\ ~ Editing(q, u)]
<1>1. /\ mine \in Request /\ mine.pc = pc /\ mine.user = u /\ mine.read = All[u]
      /\ mine.clean <=> \A o \in Requests : ~ Editing(o, u)
  <2>1. All[u] \in [Part -> Value]
    BY AllType
  <2> QED BY <2>1, IdleType DEF Request, Value
<1>2. \A q \in Requests : /\ other(q) \in Request
                          /\ other(q).pc = req[q].pc /\ other(q).user = req[q].user
                          /\ other(q).value = req[q].value /\ other(q).read = req[q].read
                          /\ other(q).clean <=> (req[q].clean /\ ~ Editing(q, u))
  BY DEF TypeOK, Request
<1>3. Opened(r, u, pc, v) = [q \in Requests |-> IF q = r THEN mine ELSE other(q)]
  BY DEF Opened
<1> HIDE DEF mine, other
<1> QED BY <1>1, <1>2, <1>3

LEMMA TornType ==
    ASSUME TypeOK, NEW e \in Torn
    PROVE  e \in [InEnv -> Value]
BY DEF TypeOK, Torn, Value

LEMMA SettledType ==
    ASSUME TypeOK, NEW r \in Requests, NEW fields, NEW acked \in BOOLEAN,
           Settled(r, fields, acked)
    PROVE  req' \in [Requests -> Request] /\ last' \in [Field -> Value \cup {Unknown}]
<1>1. req[r].value \in Value
  BY DEF TypeOK, Request
<1> QED BY <1>1, IdleType DEF TypeOK, Settled

LEMMA EditedType ==
    ASSUME TypeOK, NEW r \in Requests, NEW part \in Part
    PROVE  Edited(r, part) \in [Part -> Value]
<1>1. req[r].read \in [Part -> Value] /\ req[r].value \in Value
  BY DEF TypeOK, Request
<1> QED BY <1>1 DEF Edited

LEMMA FaultType ==
    ASSUME TypeOK, Fault
    PROVE  faults' \in Nat
BY DEF TypeOK, Fault

\* A request goes on.
LEMMA RequestSteps ==
    ASSUME NEW x \in Request,
           NEW pc \in {"keys", "kept", "saved", "avatar"}, NEW p \in [Part -> Value]
    PROVE  /\ [x EXCEPT !.pc = pc] \in Request
           /\ [x EXCEPT !.pc = pc, !.read = p] \in Request
BY DEF Request

LEMMA MovedType ==
    ASSUME TypeOK, NEW r \in Requests, NEW pc \in {"keys", "kept", "saved"}
    PROVE  [req EXCEPT ![r].pc = pc] \in [Requests -> Request]
<1>1. req[r] \in Request /\ [p \in Part |-> Blank] \in [Part -> Value]
  BY DEF TypeOK, Value
<1>2. [req[r] EXCEPT !.pc = pc] \in Request
  BY <1>1, RequestSteps
<1> QED BY <1>2 DEF TypeOK

\* Every step keeps the types.
LEMMA TypeStep ==
    ASSUME TypeOK, HasUser, [Next]_vars
    PROVE  TypeOK'
<1> USE DEF Field, InEnv, profiles, settings
<1>1. ASSUME NEW r \in Requests, NEW v \in Values, PutForm(r, v)
      PROVE  TypeOK'
  <2>1. v \in Value /\ Blank \in Value
    BY DEF Value
  <2> QED BY <1>1, <2>1, BegunType DEF PutForm, TypeOK
<1>2. ASSUME NEW r \in Requests, NEW v \in Values, RegenDraw(r, v)
      PROVE  TypeOK'
  <2>1. v \in Value
    BY DEF Value
  <2> QED BY <1>2, <2>1, BegunType DEF RegenDraw, TypeOK
<1>3. ASSUME NEW r \in Requests, PutKey(r)
      PROVE  TypeOK'
  <2>1. /\ req[r].value \in Value
        /\ [req EXCEPT ![r].pc = "keys"] \in [Requests -> Request]
        /\ [req EXCEPT ![r].pc = "kept"] \in [Requests -> Request]
    BY MovedType DEF TypeOK, Request
  <2>2. CASE KeyRefused /\ Settled(r, InEnv, FALSE) /\ UNCHANGED cfg
    BY <1>3, <2>2, SettledType, FaultType DEF PutKey, TypeOK, KeyRefused
  <2>3. CASE /\ cfg' = [cfg EXCEPT !.key = req[r].value]
             /\ req' = [req EXCEPT ![r].pc = "keys"]
             /\ UNCHANGED <<faults, last>>
    BY <1>3, <2>1, <2>3 DEF PutKey, TypeOK
  <2>4. ASSUME NEW key \in CurrentKeys, KeyKept(r, key)
        PROVE  TypeOK'
    <3>1. key \in Value
      BY DEF CurrentKeys, TypeOK
    <3> QED BY <1>3, <2>1, <2>4, <3>1 DEF PutKey, KeyKept, TypeOK
  <2> QED BY <1>3, <2>2, <2>3, <2>4 DEF PutKey, KeyKept
<1>4. ASSUME NEW r \in Requests, PutEnv(r)
      PROVE  TypeOK'
  <2>1. env' \in [InEnv -> Value]
    BY <1>4, TornType DEF PutEnv, TypeOK
  <2>2. req' \in [Requests -> Request] /\ last' \in [Field -> Value \cup {Unknown}]
    BY <1>4, SettledType DEF PutEnv
  <2> QED BY <1>4, <2>1, <2>2, FaultType DEF PutEnv, TypeOK
<1>5. ASSUME NEW r \in Requests, RegenSave(r)
      PROVE  TypeOK'
  <2>2. req' \in [Requests -> Request] /\ last' \in [Field -> Value \cup {Unknown}]
    BY <1>5, MovedType, SettledType DEF RegenSave, TypeOK
  <2> QED BY <1>5, <2>2, FaultType DEF RegenSave, TypeOK
<1>6. ASSUME NEW r \in Requests, RegenEnv(r)
      PROVE  TypeOK'
  <2>1. env' \in [InEnv -> Value]
    BY <1>6, TornType DEF RegenEnv, TypeOK
  <2>2. req' \in [Requests -> Request] /\ last' \in [Field -> Value \cup {Unknown}]
    BY <1>6, SettledType DEF RegenEnv
  <2> QED BY <1>6, <2>1, <2>2, FaultType DEF RegenEnv, TypeOK
<1>7. ASSUME NEW r \in Requests, LookupAsk(r)
      PROVE  TypeOK'
  <2>1. [Idle EXCEPT !.pc = "lookup", !.site = cfg.site] \in Request
    BY IdleType DEF TypeOK, Request
  <2> QED BY <1>7, <2>1 DEF LookupAsk, TypeOK
<1>8. ASSUME NEW r \in Requests, LookupKeep(r)
      PROVE  TypeOK'
  <2>1. [site |-> req[r].site, late |-> req[r].site # cfg.site]
           \in [site : Value, late : BOOLEAN]
    <3>1. req[r].site \in Value /\ (req[r].site # cfg.site) \in BOOLEAN
      BY DEF TypeOK, Request
    <3> QED BY <3>1
  <2>2. cache' \in [site : Value, late : BOOLEAN] /\ faults' \in Nat
    BY <1>8, <2>1, FaultType DEF LookupKeep, TypeOK
  <2>3. req' \in [Requests -> Request]
    BY <1>8, IdleType DEF LookupKeep, TypeOK
  <2> QED BY <1>8, <2>2, <2>3 DEF LookupKeep, TypeOK
<1>9. ASSUME NEW r \in Requests, NEW u \in Users, NEW v \in Values, NickRead(r, u, v)
      PROVE  TypeOK'
  <2>1. CASE Load /\ req' = Opened(r, u, "nick", v) /\ UNCHANGED faults
    <3>1. req' \in [Requests -> Request]
      BY <2>1, OpenedType
    <3>2. mem' \in [Users -> [Part -> Value]] /\ loaded' \in BOOLEAN
          /\ UNCHANGED <<file, kept>>
      BY <2>1, AllType DEF Load
    <3> QED BY <1>9, <2>1, <3>1, <3>2 DEF NickRead, TypeOK
  <2>2. CASE ~ loaded /\ Fault /\ UNCHANGED <<profiles, req>>
    BY <1>9, <2>2, FaultType DEF NickRead, TypeOK
  <2> QED BY <1>9, <2>1, <2>2 DEF NickRead
<1>10. ASSUME NEW r \in Requests, NEW u \in Users, NEW v \in Values, AvatarUpload(r, u, v)
       PROVE  TypeOK'
  BY <1>10, OpenedType DEF AvatarUpload, TypeOK
<1>11. ASSUME NEW r \in Requests, AvatarRead(r)
       PROVE  TypeOK'
  <2>1. CASE Load /\ req' = [req EXCEPT ![r].pc = "avatar", ![r].read = All[req[r].user]]
    <3>1. All[req[r].user] \in [Part -> Value]
      BY <1>11, AllType DEF AvatarRead, HasUser
    <3>2. [req[r] EXCEPT !.pc = "avatar", !.read = All[req[r].user]] \in Request
      BY <3>1, RequestSteps DEF TypeOK
    <3>3. req' = [req EXCEPT ![r] = [req[r] EXCEPT !.pc = "avatar",
                                                   !.read = All[req[r].user]]]
      BY <2>1 DEF TypeOK
    <3>4. req' \in [Requests -> Request]
      BY <3>2, <3>3 DEF TypeOK
    <3> QED BY <1>11, <2>1, <3>4, AllType, FaultType DEF AvatarRead, TypeOK, Load
  <2>2. CASE req' = [req EXCEPT ![r] = Idle] /\ UNCHANGED profiles
    BY <1>11, <2>2, IdleType, AllType, FaultType DEF AvatarRead, TypeOK, Load
  <2> QED BY <1>11, <2>1, <2>2 DEF AvatarRead
<1>12. ASSUME NEW r \in Requests, NEW part \in Part, ProfilePut(r, part)
       PROVE  TypeOK'
  <2> DEFINE now == [All EXCEPT ![req[r].user] = Edited(r, part)]
  <2>1. now \in [Users -> [Part -> Value]]
    BY AllType, EditedType
  <2>2. mem' = now /\ (file' = now \/ file' = file)
    BY <1>12 DEF ProfilePut
  <2>3. kept' \in [Users -> [Part -> Value \cup {Unknown}]]
    <3>1. req[r].value \in Value
      BY DEF TypeOK, Request
    <3> DEFINE Acked(v) == [p \in Part |->
                  IF p = part THEN v
                  ELSE IF req[r].clean THEN kept[req[r].user][p] ELSE Unknown]
    <3>2. PICK v \in Value \cup {Unknown} : kept' = [kept EXCEPT ![req[r].user] = Acked(v)]
      BY <1>12, <3>1 DEF ProfilePut
    <3>3. req[r].user \in Users
      BY <1>12 DEF ProfilePut, Part, HasUser
    <3>4. Acked(v) \in [Part -> Value \cup {Unknown}]
      BY <3>3 DEF TypeOK
    <3> QED BY <3>2, <3>4 DEF TypeOK
  <2>4. faults' \in Nat /\ loaded' \in BOOLEAN /\ req' \in [Requests -> Request]
    BY <1>12, FaultType, IdleType DEF ProfilePut, TypeOK
  <2>5. UNCHANGED <<cfg, env, cache, last>>
    BY <1>12 DEF ProfilePut
  <2> QED BY <2>1, <2>2, <2>3, <2>4, <2>5 DEF TypeOK
<1>13. ASSUME Restart
       PROVE  TypeOK'
  <2>1. env' \in [InEnv -> Value]
    BY <1>13, TornType DEF Restart, TypeOK
  <2>2. FromEnv(env') \in [Field -> Value]
    BY <2>1 DEF FromEnv, Value
  <2>3. last' \in [Field -> Value \cup {Unknown}]
    BY <1>13 DEF Restart, TypeOK
  <2> QED BY <1>13, <2>1, <2>2, <2>3, IdleType DEF Restart, TypeOK, Value
<1>14. ASSUME UNCHANGED vars
       PROVE  TypeOK'
  BY <1>14 DEF vars, TypeOK
<1> QED BY <1>1, <1>2, <1>3, <1>4, <1>5, <1>6, <1>7, <1>8, <1>9, <1>10, <1>11,
           <1>12, <1>13, <1>14 DEF Next, SettingSteps, ProfileSteps

-----------------------------------------------------------------------------
(* The settings hold *)

SettingPC == {"form", "keys", "kept", "regen", "saved"}

LEMMA TouchedIs ==
    ASSUME NEW x
    PROVE  /\ x.pc = "form" => Touched(x) = InEnv
           /\ x.pc = "kept" => Touched(x) = InEnv
           /\ x.pc = "keys" => Touched(x) = Field
           /\ x.pc \in {"regen", "saved"} => Touched(x) = {"code"}
           /\ x.pc \notin SettingPC => Touched(x) = {}
           /\ Touched(x) \subseteq Field
BY DEF Touched, InEnv, Field, SettingPC

\* The request is to the settings what it was.
Alike(x, y) ==
    /\ Touched(x) = Touched(y)
    /\ x.pc \in SettingPC <=> y.pc \in SettingPC
    /\ x.pc \in SettingPC => x.value = y.value /\ (x.clean <=> y.clean)

\* A step that is not about settings, or goes on with a request about them.
LEMMA SettingsFrame ==
    ASSUME FieldsHold, AloneHasSet, UNCHANGED <<cfg, env, last>>,
           \A q \in Requests : Alike(req[q], req'[q])
    PROVE  FieldsHold' /\ AloneHasSet'
<1>1. \A f : Pending(f)' <=> Pending(f)
  BY DEF Pending, Alike, Touched
<1>2. FieldsHold'
  BY <1>1 DEF FieldsHold
<1>3. \A q \in Requests : /\ Setting(q)' <=> Setting(q)
                          /\ Touched(req[q])' = Touched(req[q])
                          /\ Setting(q) => req'[q].value = req[q].value
                                           /\ (req'[q].clean <=> req[q].clean)
  BY DEF Setting, Alike, SettingPC, Touched
<1>4. AloneHasSet'
  BY <1>3 DEF AloneHasSet
<1> QED BY <1>2, <1>4

\* A request begins that changes the fields it touches to its value.
LEMMA SettingsBegin ==
    ASSUME TypeOK, FieldsHold, AloneHasSet, UNCHANGED <<env, last>>,
           NEW r \in Requests, NEW v \in Values, NEW pc \in {"form", "regen"},
           req[r].pc = "idle", req' = Begun(r, pc, v),
           \A f \in Field : cfg'[f] = IF f \in Touched(req'[r]) THEN v ELSE cfg[f]
    PROVE  FieldsHold' /\ AloneHasSet'
<1>1. /\ req'[r].pc = pc /\ req'[r].value = v
      /\ req'[r].clean => \A o \in Requests : ~ Setting(o)
      /\ \A q \in Requests \ {r} :
            /\ req'[q].pc = req[q].pc
            /\ Setting(q) => ~ req'[q].clean
  BY BegunType
<1>2. \A q \in Requests \ {r} : /\ Setting(q)' <=> Setting(q)
                                /\ Touched(req[q])' = Touched(req[q])
  BY <1>1 DEF Setting, Touched
<1>3. Touched(req[r]) = {} /\ ~ Setting(r) /\ Touched(req[r])' = Touched(req'[r])
  BY TouchedIs DEF SettingPC, Setting, Touched
<1>4. ASSUME NEW f \in Field, last'[f] # Unknown, ~ Pending(f)'
      PROVE  cfg'[f] = last'[f] /\ (f \in InEnv => env'[f] = last'[f])
  <2>1. ~ Pending(f) /\ f \notin Touched(req'[r])
    BY <1>2, <1>3, <1>4 DEF Pending
  <2> QED BY <1>4, <2>1 DEF FieldsHold
<1>5. ASSUME NEW q \in Requests, Setting(q)', req'[q].clean
      PROVE  /\ \A o \in Requests \ {q} : ~ Setting(o)'
             /\ \A f \in Touched(req[q])' : cfg'[f] = req'[q].value
  <2>1. q = r
    BY <1>1, <1>2, <1>5
  <2>2. \A f \in Touched(req[q])' : cfg'[f] = req'[q].value
    BY <2>1, <1>1, <1>3, TouchedIs
  <2> QED BY <2>1, <2>2, <1>1, <1>2, <1>5
<1>6. FieldsHold'
  BY <1>4 DEF FieldsHold
<1>7. AloneHasSet'
  BY <1>5 DEF AloneHasSet
<1> QED BY <1>6, <1>7

\* A request ends that settles at least the fields it touches.
LEMMA SettingsEnd ==
    ASSUME TypeOK, FieldsHold, AloneHasSet, UNCHANGED cfg,
           NEW r \in Requests, Setting(r),
           NEW fields \in SUBSET Field, NEW acked \in BOOLEAN, Settled(r, fields, acked),
           Touched(req[r]) \subseteq fields,
           acked => fields \subseteq Touched(req[r]),
           \A f \in InEnv \ fields : env'[f] = env[f],
           acked => \A f \in InEnv \cap fields : env'[f] = cfg[f]
    PROVE  FieldsHold' /\ AloneHasSet'
<1>1. /\ req'[r].pc = "idle" /\ Touched(req'[r]) = {}
      /\ \A q \in Requests \ {r} : req'[q] = req[q]
  BY IdleType, TouchedIs DEF Settled, TypeOK, SettingPC
<1>2. \A q \in Requests : Touched(req[q])' = Touched(req'[q])
  BY DEF Touched
<1>3. ASSUME NEW f \in Field, last'[f] # Unknown, ~ Pending(f)'
      PROVE  cfg'[f] = last'[f] /\ (f \in InEnv => env'[f] = last'[f])
  <2>1. last'[f] = IF f \notin fields THEN last[f]
                   ELSE IF acked /\ req[r].clean THEN req[r].value ELSE Unknown
    BY DEF Settled
  <2>2. CASE f \in fields
    <3>1. acked /\ req[r].clean /\ last'[f] = req[r].value
      BY <1>3, <2>1, <2>2
    <3>2. f \in Touched(req[r])
      BY <2>2, <3>1
    <3>3. cfg[f] = req[r].value
      BY <3>1, <3>2 DEF AloneHasSet
    <3> QED BY <2>2, <3>1, <3>3
  <2>3. CASE f \notin fields
    <3>1. ~ Pending(f)
      BY <1>1, <1>2, <1>3, <2>3 DEF Pending
    <3> QED BY <1>3, <2>1, <2>3, <3>1 DEF FieldsHold
  <2> QED BY <2>2, <2>3
<1>4. ASSUME NEW q \in Requests, Setting(q)', req'[q].clean
      PROVE  /\ \A o \in Requests \ {q} : ~ Setting(o)'
             /\ \A f \in Touched(req[q])' : cfg'[f] = req'[q].value
  <2>1. q # r /\ req'[q] = req[q] /\ Setting(q)
    BY <1>1, <1>4 DEF Setting
  <2> QED BY <1>1, <1>2, <1>4, <2>1 DEF AloneHasSet, Setting
<1>5. FieldsHold'
  BY <1>3 DEF FieldsHold
<1>6. AloneHasSet'
  BY <1>4 DEF AloneHasSet
<1> QED BY <1>5, <1>6

\* The cached warehouse is of the configured site, or came too late.
LEMMA CacheStep ==
    ASSUME TypeOK, CacheHolds, [Next]_vars
    PROVE  CacheHolds'
<1> USE DEF CacheHolds, profiles, settings, Field
<1>1. ASSUME NEW r \in Requests, NEW v \in Values, PutForm(r, v) \/ RegenDraw(r, v)
      PROVE  CacheHolds'
  BY <1>1 DEF PutForm, RegenDraw, TypeOK
<1>2. ASSUME NEW r \in Requests, PutKey(r)
      PROVE  CacheHolds'
  BY <1>2 DEF PutKey, TypeOK
<1>3. ASSUME NEW r \in Requests, PutEnv(r) \/ RegenSave(r) \/ RegenEnv(r)
      PROVE  CacheHolds'
  BY <1>3 DEF PutEnv, RegenSave, RegenEnv
<1>4. ASSUME NEW r \in Requests, LookupKeep(r)
      PROVE  CacheHolds'
  <2>1. CASE cache' = [site |-> req[r].site, late |-> req[r].site # cfg.site]
    BY <1>4, <2>1 DEF LookupKeep
  <2>2. CASE UNCHANGED cache
    BY <1>4, <2>2 DEF LookupKeep
  <2> QED BY <1>4, <2>1, <2>2 DEF LookupKeep
<1>5. ASSUME NEW r \in Requests, LookupAsk(r) \/ AvatarRead(r)
      PROVE  CacheHolds'
  BY <1>5 DEF LookupAsk, AvatarRead
<1>6. ASSUME NEW r \in Requests, NEW u \in Users, NEW v \in Values,
             NickRead(r, u, v) \/ AvatarUpload(r, u, v)
      PROVE  CacheHolds'
  BY <1>6 DEF NickRead, AvatarUpload
<1>7. ASSUME NEW r \in Requests, NEW part \in Part, ProfilePut(r, part)
      PROVE  CacheHolds'
  BY <1>7 DEF ProfilePut
<1>8. ASSUME Restart
      PROVE  CacheHolds'
  BY <1>8 DEF Restart
<1>9. ASSUME UNCHANGED vars
      PROVE  CacheHolds'
  BY <1>9 DEF vars
<1> QED BY <1>1, <1>2, <1>3, <1>4, <1>5, <1>6, <1>7, <1>8, <1>9 DEF Next, SettingSteps, ProfileSteps

\* What a request edits of a profile is nothing to the settings.
LEMMA ProfileStepsAlike ==
    ASSUME NEW x, NEW y, x.pc \notin SettingPC, y.pc \notin SettingPC
    PROVE  Alike(x, y)
BY TouchedIs DEF Alike

LEMMA SettingsStep ==
    ASSUME TypeOK, SInv, [Next]_vars
    PROVE  SInv'
<1> USE DEF profiles, settings
<1>0. FieldsHold /\ AloneHasSet /\ CacheHolds'
  BY CacheStep DEF SInv
<1>1. ASSUME NEW r \in Requests, NEW v \in Values, PutForm(r, v)
      PROVE  FieldsHold' /\ AloneHasSet'
  <2>1. req' = Begun(r, "form", v) /\ req'[r].pc = "form" /\ req[r].pc = "idle"
    BY <1>1, BegunType DEF PutForm
  <2>2. Touched(req'[r]) = InEnv
    BY <2>1, TouchedIs
  <2>3. \A f \in Field : cfg'[f] = IF f \in Touched(req'[r]) THEN v ELSE cfg[f]
    BY <1>1, <2>2 DEF PutForm, Field, InEnv, TypeOK
  <2>4. UNCHANGED <<env, last>>
    BY <1>1 DEF PutForm
  <2> QED BY <1>0, <2>1, <2>3, <2>4, SettingsBegin
<1>2. ASSUME NEW r \in Requests, NEW v \in Values, RegenDraw(r, v)
      PROVE  FieldsHold' /\ AloneHasSet'
  <2>1. req' = Begun(r, "regen", v) /\ req'[r].pc = "regen" /\ req[r].pc = "idle"
    BY <1>2, BegunType DEF RegenDraw
  <2>2. Touched(req'[r]) = {"code"}
    BY <2>1, TouchedIs
  <2>3. \A f \in Field : cfg'[f] = IF f \in Touched(req'[r]) THEN v ELSE cfg[f]
    BY <1>2, <2>2 DEF RegenDraw, Field, TypeOK
  <2>4. UNCHANGED <<env, last>>
    BY <1>2 DEF RegenDraw
  <2> QED BY <1>0, <2>1, <2>3, <2>4, SettingsBegin
<1>3. ASSUME NEW r \in Requests, PutKey(r)
      PROVE  FieldsHold' /\ AloneHasSet'
  <2>1. req[r].pc = "form" /\ Touched(req[r]) = InEnv /\ Setting(r)
    BY <1>3, TouchedIs DEF PutKey, Setting
  <2>2. CASE KeyRefused /\ Settled(r, InEnv, FALSE) /\ UNCHANGED cfg
    <3>1. UNCHANGED env /\ InEnv \subseteq Field
      BY <1>3 DEF PutKey, InEnv, Field
    <3> QED BY <1>0, <2>1, <2>2, <3>1, SettingsEnd
  <2>3. CASE /\ cfg' = [cfg EXCEPT !.key = req[r].value]
             /\ req' = [req EXCEPT ![r].pc = "keys"]
             /\ UNCHANGED <<faults, last>>
    <3>1. /\ req'[r].pc = "keys" /\ req'[r].value = req[r].value
          /\ req'[r].clean = req[r].clean
          /\ \A q \in Requests \ {r} : req'[q] = req[q]
      BY <2>3 DEF TypeOK, Request
    <3>2. Touched(req[r])' = Field
      BY <3>1 DEF Touched
    <3>3. \A q \in Requests : Setting(q)' <=> Setting(q)
      BY <2>1, <3>1 DEF Setting
    <3>4. FieldsHold'
      BY <3>2 DEF FieldsHold, Pending
    <3>5. ASSUME NEW q \in Requests, Setting(q)', req'[q].clean
          PROVE  /\ \A o \in Requests \ {q} : ~ Setting(o)'
                 /\ \A f \in Touched(req[q])' : cfg'[f] = req'[q].value
      <4>1. q = r
        BY <1>0, <2>1, <3>1, <3>3, <3>5 DEF AloneHasSet
      <4>2. \A f \in InEnv : cfg[f] = req[r].value
        BY <1>0, <2>1, <3>1, <3>5, <4>1 DEF AloneHasSet
      <4>3. \A f \in Field : cfg'[f] = req[r].value
        BY <2>3, <4>2 DEF TypeOK, Field, InEnv
      <4> QED BY <1>0, <2>1, <3>1, <3>2, <3>3, <3>5, <4>1, <4>3 DEF AloneHasSet
    <3>6. AloneHasSet'
      BY <3>5 DEF AloneHasSet
    <3> QED BY <3>4, <3>6
  <2>4. ASSUME NEW key \in CurrentKeys, KeyKept(r, key)
        PROVE  FieldsHold' /\ AloneHasSet'
    <3>1. /\ req'[r].pc = "kept" /\ req'[r].value = req[r].value
          /\ req'[r].clean = req[r].clean
          /\ \A q \in Requests \ {r} : req'[q] = req[q]
      BY <2>4 DEF KeyKept, TypeOK, Request
    <3>2. \A q \in Requests : Alike(req[q], req'[q])
      BY <2>1, <3>1, TouchedIs DEF Alike, SettingPC
    <3>3. \A f \in Field \ {"key"} : cfg'[f] = cfg[f] /\ last'[f] = last[f]
      BY <2>4 DEF KeyKept, TypeOK
    <3>4. last'["key"] # Unknown => cfg'["key"] = cfg["key"] /\ last'["key"] = last["key"]
      BY <2>4 DEF KeyKept, TypeOK, Field
    <3>5. \A f : Pending(f)' <=> Pending(f)
      BY <3>2 DEF Pending, Alike, Touched
    <3>6. UNCHANGED env /\ "key" \notin InEnv /\ \A q \in Requests : Setting(q)' <=> Setting(q)
      BY <1>3, <2>1, <3>1 DEF PutKey, Setting, InEnv
    <3>7. FieldsHold'
      BY <1>0, <3>3, <3>4, <3>5, <3>6 DEF FieldsHold
    <3>8. ASSUME NEW q \in Requests, Setting(q)', req'[q].clean
          PROVE  /\ \A o \in Requests \ {q} : ~ Setting(o)'
                 /\ \A f \in Touched(req[q])' : cfg'[f] = req'[q].value
      <4>1. q = r
        BY <1>0, <2>1, <3>1, <3>6, <3>8 DEF AloneHasSet
      <4>2. Touched(req[q])' = InEnv /\ InEnv \subseteq Field \ {"key"}
        BY <3>1, <4>1 DEF Touched, InEnv, Field
      <4>3. \A f \in InEnv : cfg[f] = req[r].value
        BY <1>0, <2>1, <3>1, <3>8, <4>1 DEF AloneHasSet
      <4> QED BY <1>0, <2>1, <3>1, <3>3, <3>6, <3>8, <4>1, <4>2, <4>3 DEF AloneHasSet
    <3>9. AloneHasSet'
      BY <3>8 DEF AloneHasSet
    <3> QED BY <3>7, <3>9
  <2> QED BY <1>3, <2>2, <2>3, <2>4 DEF PutKey, KeyKept
<1>4. ASSUME NEW r \in Requests, PutEnv(r)
      PROVE  FieldsHold' /\ AloneHasSet'
  <2> DEFINE sent == IF req[r].pc = "keys" THEN Field ELSE InEnv
  <2>1. Touched(req[r]) = sent /\ Setting(r) /\ UNCHANGED cfg
    BY <1>4, TouchedIs DEF PutEnv, Setting
  <2>2. InEnv \subseteq sent /\ sent \subseteq Field
    BY DEF InEnv, Field
  <2>3. \/ env' = [f \in InEnv |-> cfg[f]] /\ Settled(r, sent, TRUE)
        \/ Settled(r, sent, FALSE)
    BY <1>4 DEF PutEnv
  <2> HIDE DEF sent
  <2>4. CASE env' = [f \in InEnv |-> cfg[f]] /\ Settled(r, sent, TRUE)
    BY <1>0, <2>1, <2>2, <2>4, SettingsEnd
  <2>5. CASE Settled(r, sent, FALSE)
    BY <1>0, <2>1, <2>2, <2>5, SettingsEnd
  <2> QED BY <2>3, <2>4, <2>5
<1>5. ASSUME NEW r \in Requests, RegenSave(r)
      PROVE  FieldsHold' /\ AloneHasSet'
  <2>1. req[r].pc = "regen" /\ Touched(req[r]) = {"code"} /\ Setting(r)
        /\ UNCHANGED <<cfg, env>>
    BY <1>5, TouchedIs DEF RegenSave, Setting
  <2>2. CASE Settled(r, {"code"}, FALSE)
    <3>1. {"code"} \subseteq Field
      BY DEF Field
    <3> QED BY <1>0, <2>1, <2>2, <3>1, SettingsEnd
  <2>3. CASE req' = [req EXCEPT ![r].pc = "saved"] /\ UNCHANGED <<faults, last>>
    <3>1. /\ req'[r].pc = "saved" /\ req'[r].value = req[r].value
          /\ req'[r].clean = req[r].clean
          /\ \A q \in Requests \ {r} : req'[q] = req[q]
      BY <2>3 DEF TypeOK, Request
    <3>2. \A q \in Requests : Alike(req[q], req'[q])
      BY <2>1, <3>1, TouchedIs DEF Alike, SettingPC
    <3> QED BY <1>0, <2>1, <2>3, <3>2, SettingsFrame
  <2> QED BY <1>5, <2>2, <2>3 DEF RegenSave
<1>6. ASSUME NEW r \in Requests, RegenEnv(r)
      PROVE  FieldsHold' /\ AloneHasSet'
  <2>1. Touched(req[r]) = {"code"} /\ Setting(r) /\ UNCHANGED cfg
    BY <1>6, TouchedIs DEF RegenEnv, Setting
  <2>2. {"code"} \subseteq InEnv /\ InEnv \subseteq Field
    BY DEF InEnv, Field
  <2>3. CASE env' = [env EXCEPT !.code = cfg.code] /\ Settled(r, {"code"}, TRUE)
    <3>1. /\ \A f \in InEnv \ {"code"} : env'[f] = env[f]
          /\ \A f \in InEnv \cap {"code"} : env'[f] = cfg[f]
      BY <2>2, <2>3 DEF TypeOK
    <3> QED BY <1>0, <2>1, <2>2, <2>3, <3>1, SettingsEnd
  <2>4. CASE Settled(r, InEnv, FALSE)
    BY <1>0, <2>1, <2>2, <2>4, SettingsEnd
  <2> QED BY <1>6, <2>3, <2>4 DEF RegenEnv
<1>7. ASSUME NEW r \in Requests, LookupAsk(r) \/ LookupKeep(r)
      PROVE  FieldsHold' /\ AloneHasSet'
  <2>1. /\ req[r].pc \notin SettingPC /\ req'[r].pc \notin SettingPC
        /\ \A q \in Requests \ {r} : req'[q] = req[q]
        /\ UNCHANGED <<cfg, env, last>>
    <3>1. CASE LookupAsk(r)
      <4>1. [Idle EXCEPT !.pc = "lookup", !.site = cfg.site].pc = "lookup"
        BY DEF Idle
      <4> QED BY <3>1, <4>1 DEF LookupAsk, SettingPC, TypeOK
    <3>2. CASE LookupKeep(r)
      BY <3>2, IdleType DEF LookupKeep, SettingPC, TypeOK
    <3> QED BY <1>7, <3>1, <3>2
  <2>2. \A q \in Requests : Alike(req[q], req'[q])
    BY <2>1, ProfileStepsAlike DEF Alike
  <2> QED BY <1>0, <2>1, <2>2, SettingsFrame
<1>8. ASSUME NEW r \in Requests, NEW u \in Users, NEW v \in Values,
             NickRead(r, u, v) \/ AvatarUpload(r, u, v)
      PROVE  FieldsHold' /\ AloneHasSet'
  <2>1. UNCHANGED <<cfg, env, last>> /\ req[r].pc = "idle"
    BY <1>8 DEF NickRead, AvatarUpload
  <2>2. CASE UNCHANGED req
    BY <1>0, <2>1, <2>2, SettingsFrame DEF Alike
  <2>3. ASSUME NEW pc \in {"nick", "uploaded"}, req' = Opened(r, u, pc, v)
        PROVE  FieldsHold' /\ AloneHasSet'
    <3>1. /\ req'[r].pc = pc
          /\ \A q \in Requests \ {r} :
                /\ req'[q].pc = req[q].pc /\ req'[q].value = req[q].value
                /\ req'[q].clean <=> (req[q].clean /\ ~ Editing(q, u))
      BY <2>3, OpenedType
    <3>2. \A q \in Requests : req[q].pc \in SettingPC => ~ Editing(q, u)
      BY DEF SettingPC, Editing
    <3>3. ASSUME NEW q \in Requests
          PROVE  Alike(req[q], req'[q])
      <4>1. CASE q = r
        BY <2>1, <3>1, <4>1, ProfileStepsAlike DEF SettingPC
      <4>2. CASE q # r
        BY <3>1, <3>2, <4>2 DEF Alike, Touched
      <4> QED BY <4>1, <4>2
    <3> QED BY <1>0, <2>1, <3>3, SettingsFrame
  <2> QED BY <1>8, <2>2, <2>3 DEF NickRead, AvatarUpload
<1>9. ASSUME NEW r \in Requests,
             AvatarRead(r) \/ \E part \in Part : ProfilePut(r, part)
      PROVE  FieldsHold' /\ AloneHasSet'
  <2>1. /\ req[r].pc \in {"uploaded", "nick", "avatar"}
        /\ UNCHANGED <<cfg, env, last>>
        /\ \/ req' = [req EXCEPT ![r] = Idle]
           \/ req' = [req EXCEPT ![r].pc = "avatar", ![r].read = All[req[r].user]]
    BY <1>9 DEF AvatarRead, ProfilePut, Part
  <2>2. /\ req'[r].pc \in {"idle", "avatar"}
        /\ \A q \in Requests \ {r} : req'[q] = req[q]
    BY <2>1, IdleType DEF TypeOK, Request
  <2>3. \A q \in Requests : Alike(req[q], req'[q])
    BY <2>1, <2>2, ProfileStepsAlike DEF Alike, SettingPC
  <2> QED BY <1>0, <2>1, <2>3, SettingsFrame
<1>10. ASSUME Restart
       PROVE  FieldsHold' /\ AloneHasSet'
  <2>1. \A r \in Requests : Touched(req[r])' = {} /\ ~ Setting(r)'
    BY <1>10, IdleType DEF Restart, Setting, Touched
  <2>2. ASSUME NEW f \in Field, last'[f] # Unknown
        PROVE  cfg'[f] = last'[f] /\ (f \in InEnv => env'[f] = last'[f])
    <3>1. f \in {"site", "code"} /\ last'[f] = last[f] /\ \A r \in Requests : ~ Setting(r)
      BY <1>10, <2>2 DEF Restart, Field
    <3>2. UNCHANGED env /\ ~ Pending(f)
      BY <1>10, <3>1, TouchedIs DEF Restart, Setting, Pending, SettingPC
    <3>3. cfg'[f] = env[f] /\ f \in InEnv
      BY <1>10, <3>1, <3>2 DEF Restart, FromEnv, Field, InEnv
    <3> QED BY <1>0, <2>2, <3>1, <3>2, <3>3 DEF FieldsHold
  <2> QED BY <2>1, <2>2 DEF FieldsHold, AloneHasSet
<1>11. ASSUME UNCHANGED vars
       PROVE  FieldsHold' /\ AloneHasSet'
  BY <1>0, <1>11, SettingsFrame DEF vars, Alike
<1>12. FieldsHold' /\ AloneHasSet'
  BY <1>1, <1>2, <1>3, <1>4, <1>5, <1>6, <1>7, <1>8, <1>9, <1>10, <1>11 DEF Next, SettingSteps, ProfileSteps
<1> QED BY <1>0, <1>12 DEF SInv

-----------------------------------------------------------------------------
(* The profiles hold *)

EditPC == {"nick", "uploaded", "avatar"}

\* The request is to the profiles what it was.
SameEdit(x, y) ==
    /\ x.pc \in EditPC <=> y.pc \in EditPC
    /\ x.pc \in EditPC =>
          x.pc = y.pc /\ x.user = y.user /\ x.read = y.read /\ (x.clean <=> y.clean)

LEMMA ProfileFrame ==
    ASSUME PInv, All' = All, UNCHANGED <<file, kept>>,
           \A q \in Requests : SameEdit(req[q], req'[q])
    PROVE  PInv'
<1>1. HasUser'
  BY DEF PInv, HasUser, SameEdit, EditPC
<1>2. ProfileHolds'
  BY DEF PInv, ProfileHolds
<1>3. \A q \in Requests, u \in Users : Editing(q, u)' <=> Editing(q, u)
  BY DEF Editing, SameEdit, EditPC
<1>4. \A q \in Requests, u \in Users : Editing(q, u) =>
          /\ req'[q].pc = req[q].pc
          /\ req'[q].read = req[q].read
          /\ (req'[q].clean <=> req[q].clean)
  BY DEF Editing, SameEdit, EditPC
<1>5. AloneHasRead'
  BY <1>3, <1>4 DEF PInv, AloneHasRead
<1> QED BY <1>1, <1>2, <1>5 DEF PInv

\* A request begins to edit the profile of u.
LEMMA ProfileOpen ==
    ASSUME TypeOK, PInv, All' = All, UNCHANGED <<file, kept>>,
           NEW r \in Requests, NEW u \in Users, NEW v \in Values,
           NEW pc \in {"nick", "uploaded"},
           req[r].pc = "idle", req' = Opened(r, u, pc, v)
    PROVE  PInv'
<1>1. /\ req'[r].pc = pc /\ req'[r].user = u /\ req'[r].read = All[u]
      /\ req'[r].clean => \A o \in Requests : ~ Editing(o, u)
      /\ \A q \in Requests \ {r} :
            /\ req'[q].pc = req[q].pc /\ req'[q].user = req[q].user
            /\ req'[q].read = req[q].read
            /\ req'[q].clean <=> (req[q].clean /\ ~ Editing(q, u))
  BY OpenedType
<1>2. HasUser'
  BY <1>1 DEF PInv, HasUser
<1>3. ProfileHolds'
  BY DEF PInv, ProfileHolds
<1>4. /\ \A q \in Requests \ {r}, w \in Users : Editing(q, w)' <=> Editing(q, w)
      /\ \A w : Editing(r, w)' <=> w = u
      /\ \A w : ~ Editing(r, w)
  BY <1>1 DEF Editing
<1>5. ASSUME NEW q \in Requests, NEW w \in Users, Editing(q, w)', req'[q].clean
      PROVE  /\ \A o \in Requests \ {q} : ~ Editing(o, w)'
             /\ req'[q].pc # "uploaded" => req'[q].read = All[w]
  <2>1. CASE q = r
    BY <1>1, <1>4, <1>5, <2>1
  <2>2. CASE q # r
    BY <1>1, <1>4, <1>5, <2>2 DEF PInv, AloneHasRead
  <2> QED BY <2>1, <2>2
<1>6. AloneHasRead'
  BY <1>5 DEF AloneHasRead
<1> QED BY <1>2, <1>3, <1>6 DEF PInv

LEMMA SettingStepsSame ==
    ASSUME NEW x, NEW y, x.pc \notin EditPC, y.pc \notin EditPC
    PROVE  SameEdit(x, y)
BY DEF SameEdit

\* The request of r ends with its part of the profile put or not.
LEMMA ProfileEnd ==
    ASSUME TypeOK, PInv, NEW r \in Requests, NEW part \in Part, ProfilePut(r, part)
    PROVE  PInv'
<1> DEFINE u == req[r].user
<1> DEFINE now == [All EXCEPT ![u] = Edited(r, part)]
<1>1. req[r].pc = part /\ part \in {"nick", "avatar"} /\ u \in Users /\ Editing(r, u)
  BY DEF ProfilePut, Part, PInv, HasUser, Editing
<1>2. /\ req'[r].pc = "idle"
      /\ \A q \in Requests \ {r} : req'[q] = req[q]
  BY IdleType DEF ProfilePut, TypeOK
<1>3. All' = now /\ (file' = now \/ file' = file)
  BY DEF ProfilePut, All
<1>4. \A w \in Users : now[w] = IF w = u THEN Edited(r, part) ELSE All[w]
  BY AllType
<1>5. HasUser'
  BY <1>2 DEF PInv, HasUser
<1>6. \A q \in Requests, w \in Users : Editing(q, w)' => q # r /\ Editing(q, w) /\ req'[q] = req[q]
  BY <1>2 DEF Editing
<1>7. ASSUME NEW q \in Requests, NEW w \in Users, Editing(q, w)', req'[q].clean
      PROVE  /\ \A o \in Requests \ {q} : ~ Editing(o, w)'
             /\ req'[q].pc # "uploaded" => req'[q].read = All'[w]
  <2>1. q # r /\ Editing(q, w) /\ req'[q] = req[q]
    BY <1>6, <1>7
  <2>2. /\ \A o \in Requests \ {q} : ~ Editing(o, w)
        /\ req[q].pc # "uploaded" => req[q].read = All[w]
    BY <1>7, <2>1 DEF PInv, AloneHasRead
  <2>3. w # u
    BY <1>1, <2>1, <2>2
  <2>4. All'[w] = All[w]
    BY <1>3, <1>4, <2>3
  <2> QED BY <1>6, <2>1, <2>2, <2>4
<1>8. AloneHasRead'
  BY <1>7 DEF AloneHasRead
<1>9. ASSUME NEW w \in Users, NEW p \in Part, kept'[w][p] # Unknown
      PROVE  All'[w][p] = kept'[w][p] /\ file'[w][p] = kept'[w][p]
  <2>1. CASE w # u
    <3>1. kept'[w] = kept[w]
      BY <2>1, <1>1 DEF ProfilePut, TypeOK
    <3>2. All'[w] = All[w] /\ (file'[w] = All[w] \/ file'[w] = file[w])
      BY <1>3, <1>4, <2>1
    <3> QED BY <1>9, <3>1, <3>2 DEF PInv, ProfileHolds
  <2>2. CASE w = u
    <3>1. /\ p \in Part /\ All[u] \in [Part -> Value] /\ req[r].read \in [Part -> Value]
      BY <1>1, AllType DEF TypeOK, Request
    <3>2. All'[u][p] = IF p = part THEN req[r].value ELSE req[r].read[p]
      BY <1>1, <1>3, <1>4, <3>1 DEF Edited
    <3>3. p # part => req[r].clean /\ kept'[u][p] = kept[u][p]
      <4>1. PICK v : kept' = [kept EXCEPT ![u] = [x \in Part |->
                        IF x = part THEN v
                        ELSE IF req[r].clean THEN kept[u][x] ELSE Unknown]]
        BY DEF ProfilePut
      <4>2. p # part => kept'[u][p] = IF req[r].clean THEN kept[u][p] ELSE Unknown
        BY <1>1, <4>1 DEF TypeOK
      <4> QED BY <1>9, <2>2, <4>2
    <3>4. p # part => All'[u][p] = All[u][p] /\ (file'[u][p] = All'[u][p] \/ file'[u] = file[u])
      <4>1. req[r].clean => req[r].read = All[u]
        BY <1>1 DEF PInv, AloneHasRead
      <4> QED BY <1>3, <3>2, <3>3, <4>1
    <3>5. p = part => kept'[u][p] = req[r].value /\ file'[u][p] = All'[u][p]
      <4>1. CASE /\ file' = now
                 /\ kept' = [kept EXCEPT ![u] = [x \in Part |->
                        IF x = part THEN req[r].value
                        ELSE IF req[r].clean THEN kept[u][x] ELSE Unknown]]
        BY <1>1, <1>3, <4>1 DEF TypeOK
      <4>2. CASE kept' = [kept EXCEPT ![u] = [x \in Part |->
                        IF x = part THEN Unknown
                        ELSE IF req[r].clean THEN kept[u][x] ELSE Unknown]]
        BY <1>1, <1>9, <2>2, <4>2 DEF TypeOK
      <4> QED BY <4>1, <4>2 DEF ProfilePut
    <3> QED BY <1>1, <1>9, <2>2, <3>2, <3>3, <3>4, <3>5 DEF PInv, ProfileHolds
  <2> QED BY <2>1, <2>2
<1>10. ProfileHolds'
  BY <1>9 DEF ProfileHolds
<1> QED BY <1>5, <1>8, <1>10 DEF PInv

LEMMA ProfileStep ==
    ASSUME TypeOK, PInv, [Next]_vars
    PROVE  PInv'
<1> USE DEF profiles, settings
<1>1. ASSUME NEW r \in Requests, NEW u \in Users, NEW v \in Values, NickRead(r, u, v)
      PROVE  PInv'
  <2>1. req[r].pc = "idle" /\ All' = All /\ UNCHANGED <<file, kept>>
    BY <1>1 DEF NickRead, Load, All
  <2>2. CASE req' = Opened(r, u, "nick", v)
    BY <2>1, <2>2, ProfileOpen
  <2>3. CASE UNCHANGED req
    BY <2>1, <2>3, ProfileFrame DEF SameEdit
  <2> QED BY <1>1, <2>2, <2>3 DEF NickRead
<1>2. ASSUME NEW r \in Requests, NEW u \in Users, NEW v \in Values,
             AvatarUpload(r, u, v)
      PROVE  PInv'
  BY <1>2, ProfileOpen DEF AvatarUpload, All
<1>3. ASSUME NEW r \in Requests, AvatarRead(r)
      PROVE  PInv'
  <2>1. req[r].pc = "uploaded" /\ All' = All /\ UNCHANGED <<file, kept>>
    BY <1>3 DEF AvatarRead, Load, All
  <2>2. \A q \in Requests \ {r} : req'[q] = req[q]
    BY <1>3 DEF AvatarRead, TypeOK
  <2>3. CASE req' = [req EXCEPT ![r].pc = "avatar", ![r].read = All[req[r].user]]
    <3>1. /\ req'[r].pc = "avatar" /\ req'[r].read = All[req[r].user]
          /\ req'[r].user = req[r].user /\ req'[r].clean = req[r].clean
      BY <2>3 DEF TypeOK, Request
    <3>2. HasUser'
      BY <2>1, <2>2, <3>1 DEF PInv, HasUser
    <3>3. \A q \in Requests, w \in Users : Editing(q, w)' <=> Editing(q, w)
      BY <2>1, <2>2, <3>1 DEF Editing
    <3>4. AloneHasRead'
      <4>1. ASSUME NEW q \in Requests, NEW w \in Users, Editing(q, w)', req'[q].clean
            PROVE  /\ \A o \in Requests \ {q} : ~ Editing(o, w)'
                   /\ req'[q].pc # "uploaded" => req'[q].read = All'[w]
        <5>1. Editing(q, w) /\ req[q].clean
          BY <2>2, <3>1, <3>3, <4>1
        <5>2. /\ \A o \in Requests \ {q} : ~ Editing(o, w)
              /\ req[q].pc # "uploaded" => req[q].read = All[w]
          BY <5>1 DEF PInv, AloneHasRead
        <5>3. req[r].user = w \/ q # r
          BY <5>1 DEF Editing
        <5> QED BY <2>1, <2>2, <3>1, <3>3, <5>2, <5>3
      <4> QED BY <4>1 DEF AloneHasRead
    <3> QED BY <2>1, <3>2, <3>4 DEF PInv, ProfileHolds
  <2>4. CASE req' = [req EXCEPT ![r] = Idle]
    <3>1. req'[r].pc = "idle"
      BY <2>4, IdleType DEF TypeOK
    <3>2. HasUser'
      BY <2>2, <3>1 DEF PInv, HasUser
    <3>3. \A q \in Requests, w \in Users : Editing(q, w)' <=> q # r /\ Editing(q, w)
      BY <2>2, <3>1 DEF Editing
    <3>4. AloneHasRead'
      BY <2>1, <2>2, <3>3 DEF PInv, AloneHasRead
    <3> QED BY <2>1, <3>2, <3>4 DEF PInv, ProfileHolds
  <2>5. CASE UNCHANGED req
    BY <2>1, <2>5, ProfileFrame DEF SameEdit
  <2> QED BY <1>3, <2>3, <2>4, <2>5 DEF AvatarRead
<1>4. ASSUME NEW r \in Requests, NEW part \in Part, ProfilePut(r, part)
      PROVE  PInv'
  BY <1>4, ProfileEnd
<1>5. ASSUME NEW r \in Requests, NEW v \in Values, PutForm(r, v) \/ RegenDraw(r, v)
      PROVE  PInv'
  <2>1. PICK pc \in {"form", "regen"} : req' = Begun(r, pc, v)
    BY <1>5 DEF PutForm, RegenDraw
  <2>2. /\ req[r].pc = "idle" /\ req'[r].pc = pc
        /\ \A q \in Requests \ {r} :
              /\ req'[q].pc = req[q].pc /\ req'[q].user = req[q].user
              /\ req'[q].read = req[q].read
              /\ req'[q].clean <=> (req[q].clean /\ ~ Setting(q))
    BY <1>5, <2>1, BegunType DEF PutForm, RegenDraw
  <2>3. \A q \in Requests : SameEdit(req[q], req'[q])
    BY <2>2 DEF SameEdit, EditPC, Setting
  <2>4. All' = All /\ UNCHANGED <<file, kept>>
    BY <1>5 DEF PutForm, RegenDraw, All
  <2> QED BY <2>3, <2>4, ProfileFrame
<1>6. ASSUME NEW r \in Requests,
             \/ PutKey(r) \/ PutEnv(r) \/ RegenSave(r) \/ RegenEnv(r)
             \/ LookupAsk(r) \/ LookupKeep(r)
      PROVE  PInv'
  <2>1. All' = All /\ UNCHANGED <<file, kept>>
    <3>1. UNCHANGED <<mem, loaded, file, kept>>
      BY <1>6 DEF PutKey, PutEnv, RegenSave, RegenEnv, LookupAsk, LookupKeep
    <3> QED BY <3>1 DEF All
  <2>2. /\ req[r].pc \notin EditPC
        /\ \/ req' = [req EXCEPT ![r] = Idle]
           \/ \E pc \in {"keys", "kept", "saved"} : req' = [req EXCEPT ![r].pc = pc]
           \/ req' = [req EXCEPT ![r] = [Idle EXCEPT !.pc = "lookup", !.site = cfg.site]]
    BY <1>6 DEF PutKey, PutEnv, RegenSave, RegenEnv, LookupAsk, LookupKeep, Settled, EditPC
  <2>3. [Idle EXCEPT !.pc = "lookup", !.site = cfg.site].pc = "lookup"
    BY DEF Idle
  <2>4. /\ req'[r].pc \in {"idle", "keys", "kept", "saved", "lookup"}
        /\ \A q \in Requests \ {r} : req'[q] = req[q]
    <3>1. CASE req' = [req EXCEPT ![r] = Idle]
      BY <3>1, IdleType DEF TypeOK
    <3>2. CASE \E pc \in {"keys", "kept", "saved"} : req' = [req EXCEPT ![r].pc = pc]
      BY <3>2 DEF TypeOK, Request
    <3>3. CASE req' = [req EXCEPT ![r] = [Idle EXCEPT !.pc = "lookup", !.site = cfg.site]]
      BY <2>3, <3>3 DEF TypeOK
    <3> QED BY <2>2, <3>1, <3>2, <3>3
  <2>5. \A q \in Requests : SameEdit(req[q], req'[q])
    BY <2>2, <2>4 DEF SameEdit, EditPC
  <2> QED BY <2>1, <2>5, ProfileFrame
<1>7. ASSUME Restart
      PROVE  PInv'
  <2>1. \A r \in Requests : req'[r].pc = "idle"
    BY <1>7, IdleType DEF Restart
  <2>2. All' = file /\ UNCHANGED <<file, kept>>
    BY <1>7 DEF Restart, All
  <2> QED BY <2>1, <2>2 DEF PInv, HasUser, ProfileHolds, AloneHasRead, Editing
<1>8. ASSUME UNCHANGED vars
      PROVE  PInv'
  BY <1>8, ProfileFrame DEF vars, SameEdit, All
<1> QED BY <1>1, <1>2, <1>3, <1>4, <1>5, <1>6, <1>7, <1>8 DEF Next, SettingSteps, ProfileSteps

-----------------------------------------------------------------------------
(* Theorems *)

LEMMA InitInv == Init => IInv
<1> SUFFICES ASSUME Init PROVE IInv
  OBVIOUS
<1>1. /\ \A r \in Requests : req[r].pc = "idle" /\ Touched(req[r]) = {}
      /\ \A r \in Requests : ~ Setting(r) /\ \A u : ~ Editing(r, u)
  BY IdleType, TouchedIs DEF Init, SettingPC, Setting, Editing
<1>2. TypeOK
  BY IdleType DEF Init, TypeOK, Field, InEnv, Value
<1>3. SInv
  BY <1>1 DEF Init, SInv, FieldsHold, AloneHasSet, CacheHolds, Field, InEnv
<1>4. PInv
  BY <1>1 DEF Init, PInv, HasUser, ProfileHolds, AloneHasRead, All
<1> QED BY <1>2, <1>3, <1>4 DEF IInv

LEMMA StepInv == IInv /\ [Next]_vars => IInv'
BY TypeStep, SettingsStep, ProfileStep DEF IInv, PInv

LEMMA InvImplies == IInv => TypeOK /\ SettingsHold /\ ProfileHolds
<1> SUFFICES ASSUME IInv PROVE TypeOK /\ SettingsHold /\ ProfileHolds
  OBVIOUS
<1>1. ASSUME \A r \in Requests : ~ Setting(r), NEW f \in Field
      PROVE  ~ Pending(f)
  BY <1>1, TouchedIs DEF Pending, Setting, SettingPC
<1> QED BY <1>1 DEF IInv, SInv, PInv, FieldsHold, CacheHolds, SettingsHold

\* Every variable holds a value of its kind.
THEOREM SettingsTypes == Spec => []TypeOK
<1>1. Spec => []IInv
  BY InitInv, StepInv, PTL DEF Spec
<1> QED BY <1>1, InvImplies, PTL

\* A setting that was acknowledged, and was not changed by overlapping requests or
\* a failed one, is in memory and in .env; the cached warehouse is the site's.
THEOREM SettingsAreKept == Spec => []SettingsHold
<1>1. Spec => []IInv
  BY InitInv, StepInv, PTL DEF Spec
<1> QED BY <1>1, InvImplies, PTL

\* A nickname or avatar that was acknowledged is in memory and in the file, until
\* a request about it fails or an overlapping one about the other part ends.
THEOREM ProfilesAreKept == Spec => []ProfileHolds
<1>1. Spec => []IInv
  BY InitInv, StepInv, PTL DEF Spec
<1> QED BY <1>1, InvImplies, PTL
=============================================================================
