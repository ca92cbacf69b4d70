------------------------------ MODULE Settings ------------------------------
(***************************************************************************)
(* What the server keeps about itself and its users: the settings an admin *)
(* edits, which are fields in memory and lines of .env, and the nicknames  *)
(* and avatars, a map in memory and a JSON file.  No lock is held across a *)
(* request: the settings are changed in several steps around calls that    *)
(* may fail, and a profile is read, changed and written back.              *)
(*                                                                         *)
(* A definition Name_Variant before Name is not part of the specification: *)
(* it is a plausible mistake in that code, which a property must notice.   *)
(***************************************************************************)
EXTENDS Integers, FiniteSets

CONSTANTS
    Values,     \* the values a setting or a part of a profile may have
    Users,
    Requests,   \* the requests the server works on at the same time
    Reader,     \* BOOLEAN: is direct reading of ERPNext's database configured?
    Blank,      \* the value of what was never set
    Unknown,    \* history: what a failed or overlapping request left behind
    MaxFaults   \* bound on failed calls, reads and writes

ASSUME SettingsAssumption ==
    /\ Reader \in BOOLEAN
    /\ Blank \notin Values /\ Unknown \notin Values \cup {Blank}
    /\ MaxFaults \in Nat

VARIABLES
    cfg,     \* the settings in memory
    env,     \* the settings in .env
    cache,   \* the warehouse found in ERPNext, as the site it was found at
    mem,     \* mem[u]: the profile of u in memory
    loaded,  \* has the file been read since the start?
    file,    \* the profiles in the file
    req,     \* req[r]: what a request does
    faults,  \* failures so far
    last,    \* history: the settings that were last acknowledged
    kept     \* history: the profiles that were last acknowledged

vars == <<cfg, env, cache, mem, loaded, file, req, faults, last, kept>>
profiles == <<mem, loaded, file, kept>>
settings == <<cfg, env, cache, last>>

\* site: the address of ERPNext, its warehouse and unit, and Werka's phone.  name:
\* the names of Werka and the admin, and the admin's phone.  code: Werka's code.
\* key: the API key.  Blank stands for what the program starts with.
Field == {"site", "name", "code", "key"}

\* The fields that are lines of .env.
InEnv == {"site", "name", "code"}

Part == {"nick", "avatar"}

Value == Values \cup {Blank}

\* clean: has no other request about the same thing been under way meanwhile?
Request ==
    [pc    : {"idle", "form", "keys", "kept", "regen", "saved", "lookup",
              "nick", "uploaded", "avatar"},
     value : Value,
     site  : Value,           \* the site a lookup asks
     user  : Users \cup {Blank},
     read  : [Part -> Value], \* the profile that was read
     clean : BOOLEAN]

Idle == [pc |-> "idle", value |-> Blank, site |-> Blank, user |-> Blank,
         read |-> [p \in Part |-> Blank], clean |-> TRUE]

Setting(r) == req[r].pc \in {"form", "keys", "kept", "regen", "saved"}

Editing(r, u) == req[r].pc \in {"nick", "uploaded", "avatar"} /\ req[r].user = u

Fault == faults < MaxFaults /\ faults' = faults + 1

\* Upsert rewrites .env in place: when that fails, or the server stops meanwhile,
\* the file is as it was or has lost its lines.
Torn == {env, [f \in InEnv |-> Blank]}

Init ==
    /\ cfg = [f \in Field |-> Blank] /\ env = [f \in InEnv |-> Blank]
    /\ cache = [site |-> Blank, late |-> FALSE]
    /\ file = [u \in Users |-> [p \in Part |-> Blank]]
    /\ mem = file /\ loaded = FALSE
    /\ req = [r \in Requests |-> Idle]
    /\ faults = 0
    /\ last = cfg /\ kept = file

\* What a request that ends leaves acknowledged of the fields it was about: the
\* value it was sent, unless it failed or another was under way meanwhile.
Settled(r, fields, acked) ==
    /\ req' = [req EXCEPT ![r] = Idle]
    /\ last' = [f \in Field |->
                  IF f \notin fields THEN last[f]
                  ELSE IF acked /\ req[r].clean THEN req[r].value ELSE Unknown]

-----------------------------------------------------------------------------
(* The settings *)

\* A request begins that changes settings: those under way are no longer alone.
Begun(r, pc, v) ==
    [q \in Requests |->
        IF q = r THEN [Idle EXCEPT !.pc = pc, !.value = v,
                                   !.clean = \A o \in Requests : ~ Setting(o)]
        ELSE [req[q] EXCEPT !.clean = @ /\ ~ Setting(q)]]

\* The warehouse that was found stays.
PutForm_KeepsCache(r, v) ==
    /\ req[r].pc = "idle"
    /\ cfg' = [cfg EXCEPT !.site = v, !.name = v, !.code = v]
    /\ req' = Begun(r, "form", v)
    /\ UNCHANGED <<env, cache, faults, last, profiles>>

\* UpdateAdminSettings assigns the fields of the form.  (One value stands for all
\* of them.  The assignments are not atomic: see req[r].clean.)
PutForm(r, v) ==
    /\ req[r].pc = "idle"
    /\ cfg' = [cfg EXCEPT !.site = v, !.name = v, !.code = v]
    /\ cache' = [site |-> Blank, late |-> FALSE]
    /\ req' = Begun(r, "form", v)
    /\ UNCHANGED <<env, faults, last, profiles>>

\* A missing half of the key cannot be read from the database, or the pair cannot
\* be written to it; nothing is written then.
KeyRefused == Reader /\ Fault

\* The key that stands for one that was left blank: the one in memory or, where
\* ERPNext's database is read, the one there, which may be any (memory forgets the
\* key at a restart, and the database may be changed in ERPNext).
CurrentKeys == IF Reader THEN Value ELSE {cfg.key}

\* The API key, in ERPNext's database first where that is read.  If that fails
\* the fields stay changed, and .env as it was.
PutKey(r) ==
    /\ req[r].pc = "form"
    /\ \/ /\ cfg' = [cfg EXCEPT !.key = req[r].value]
          /\ req' = [req EXCEPT ![r].pc = "keys"]
          /\ UNCHANGED <<faults, last>>
       \/ \E key \in CurrentKeys :
             /\ cfg' = [cfg EXCEPT !.key = key]
             /\ req' = [req EXCEPT ![r].pc = "kept"]
             /\ last' = [last EXCEPT !.key = IF key = cfg.key THEN @ ELSE Unknown]
             /\ UNCHANGED faults
       \/ /\ KeyRefused
          /\ Settled(r, InEnv, FALSE)
          /\ UNCHANGED cfg
    /\ UNCHANGED <<env, cache, profiles>>

\* Upsert of the fields as they are now, whoever set them.
PutEnv(r) ==
    /\ req[r].pc \in {"keys", "kept"}
    /\ UNCHANGED cfg
    /\ LET sent == IF req[r].pc = "keys" THEN Field ELSE InEnv
       IN  \/ /\ env' = [f \in InEnv |-> cfg[f]]
              /\ UNCHANGED faults
              /\ Settled(r, sent, TRUE)
           \/ Fault /\ env' \in Torn /\ Settled(r, sent, FALSE)
    /\ UNCHANGED <<cache, profiles>>

\* AdminRegenerateWerkaCode: a code is drawn and used at once.  (That it is
\* refused too many times in an hour is in SupplierAdmin.)
RegenDraw(r, v) ==
    /\ req[r].pc = "idle"
    /\ cfg' = [cfg EXCEPT !.code = v]
    /\ req' = Begun(r, "regen", v)
    /\ UNCHANGED <<env, cache, faults, last, profiles>>

\* Its state is saved.  A failure is answered with an error, and nobody has been
\* told the code that now counts.
RegenSave(r) ==
    /\ req[r].pc = "regen"
    /\ UNCHANGED cfg
    /\ \/ req' = [req EXCEPT ![r].pc = "saved"] /\ UNCHANGED <<faults, last>>
       \/ Fault /\ Settled(r, {"code"}, FALSE)
    /\ UNCHANGED <<env, cache, profiles>>

RegenEnv(r) ==
    /\ req[r].pc = "saved"
    /\ UNCHANGED cfg
    /\ \/ /\ env' = [env EXCEPT !.code = cfg.code]
          /\ UNCHANGED faults
          /\ Settled(r, {"code"}, TRUE)
       \/ Fault /\ env' \in Torn /\ Settled(r, InEnv, FALSE)
    /\ UNCHANGED <<cache, profiles>>

\* resolveWarehouse with no default and nothing found yet: ERPNext is asked.
LookupAsk(r) ==
    /\ req[r].pc = "idle" /\ cache.site = Blank
    /\ req' = [req EXCEPT ![r] = [Idle EXCEPT !.pc = "lookup", !.site = cfg.site]]
    /\ UNCHANGED <<settings, profiles, faults>>

\* The answer is kept, though another site may have been configured meanwhile.
LookupKeep(r) ==
    /\ req[r].pc = "lookup"
    /\ req' = [req EXCEPT ![r] = Idle]
    /\ \/ /\ cache' = [site |-> req[r].site, late |-> req[r].site # cfg.site]
          /\ UNCHANGED faults
       \/ Fault /\ UNCHANGED cache
    /\ UNCHANGED <<cfg, env, last, profiles>>

-----------------------------------------------------------------------------
(* The profiles *)

All == IF loaded THEN mem ELSE file

\* A request begins that edits the profile of u.
Opened(r, u, pc, v) ==
    [q \in Requests |->
        IF q = r THEN [Idle EXCEPT !.pc = pc, !.value = v, !.user = u,
                                   !.read = All[u],
                                   !.clean = \A o \in Requests : ~ Editing(o, u)]
        ELSE [req[q] EXCEPT !.clean = @ /\ ~ Editing(q, u)]]

\* ProfileStore.Get: an error if the file must be read and cannot be.
Load == mem' = All /\ loaded' = TRUE /\ UNCHANGED <<file, kept>>

\* UpdateNickname
NickRead(r, u, v) ==
    /\ req[r].pc = "idle"
    /\ \/ Load /\ req' = Opened(r, u, "nick", v) /\ UNCHANGED faults
       \/ ~ loaded /\ Fault /\ UNCHANGED <<profiles, req>>
    /\ UNCHANGED settings

\* UploadAvatar: the picture is in ERPNext before the profile is read.
AvatarUpload(r, u, v) ==
    /\ req[r].pc = "idle"
    /\ req' = Opened(r, u, "uploaded", v)
    /\ UNCHANGED <<settings, profiles, faults>>

AvatarRead(r) ==
    /\ req[r].pc = "uploaded"
    /\ \/ /\ Load
          /\ req' = [req EXCEPT ![r].pc = "avatar", ![r].read = All[req[r].user]]
          /\ UNCHANGED faults
       \/ ~ loaded /\ Fault /\ req' = [req EXCEPT ![r] = Idle] /\ UNCHANGED profiles
    /\ UNCHANGED settings

\* A profile with the changed part only.
Edited_Fresh(r, part) ==
    [p \in Part |-> IF p = part THEN req[r].value ELSE Blank]

\* The profile that was read, with one part changed.
Edited(r, part) == [req[r].read EXCEPT ![part] = req[r].value]

\* ProfileStore.Put.  The map in memory is changed in place and keeps the change
\* when it cannot be written.  The part this request is about is the one it was
\* sent; the other is as it was read, which an overlapping request may have changed.
ProfilePut(r, part) ==
    /\ req[r].pc = part
    /\ LET u   == req[r].user
           now == [All EXCEPT ![u] = Edited(r, part)]
           Acked(v) == [kept EXCEPT ![u] = [p \in Part |->
                           IF p = part THEN v
                           ELSE IF req[r].clean THEN kept[u][p] ELSE Unknown]]
       IN  \/ /\ loaded /\ mem' = now /\ file' = now
              /\ kept' = Acked(req[r].value)
              /\ UNCHANGED <<loaded, faults>>
           \/ /\ loaded /\ mem' = now /\ Fault
              /\ kept' = Acked(Unknown)
              /\ UNCHANGED <<loaded, file>>
    /\ req' = [req EXCEPT ![r] = Idle]
    /\ UNCHANGED settings

-----------------------------------------------------------------------------
\* What main takes from .env: the names are read from another line than they are
\* written to, and the key was never written.
FromEnv(lines) ==
    [f \in Field |-> IF f \in {"site", "code"} THEN lines[f] ELSE Blank]

\* The server stops and starts again.
Restart ==
    /\ \/ UNCHANGED env
       \/ (\E r \in Requests : req[r].pc \in {"keys", "kept", "saved"}) /\ env' \in Torn
    /\ cfg' = FromEnv(env')
    /\ cache' = [site |-> Blank, late |-> FALSE]
    /\ mem' = file /\ loaded' = FALSE
    /\ req' = [r \in Requests |-> Idle]
    /\ last' = [f \in Field |->
                  IF f \in {"name", "key"} \/ \E r \in Requests : Setting(r)
                  THEN Unknown ELSE last[f]]
    /\ UNCHANGED <<file, faults, kept>>

SettingSteps ==
    \/ \E r \in Requests, v \in Values : PutForm(r, v) \/ RegenDraw(r, v)
    \/ \E r \in Requests : PutKey(r) \/ PutEnv(r) \/ RegenSave(r) \/ RegenEnv(r)
    \/ \E r \in Requests : LookupAsk(r) \/ LookupKeep(r)

ProfileSteps ==
    \/ \E r \in Requests, u \in Users, v \in Values :
          NickRead(r, u, v) \/ AvatarUpload(r, u, v)
    \/ \E r \in Requests : AvatarRead(r) \/ \E part \in Part : ProfilePut(r, part)

Next == SettingSteps \/ ProfileSteps \/ Restart

Spec == Init /\ [][Next]_vars

-----------------------------------------------------------------------------
(* Properties *)

TypeOK ==
    /\ cfg \in [Field -> Value] /\ env \in [InEnv -> Value]
    /\ cache \in [site : Value, late : BOOLEAN]
    /\ mem \in [Users -> [Part -> Value]] /\ file \in [Users -> [Part -> Value]]
    /\ loaded \in BOOLEAN
    /\ req \in [Requests -> Request]
    /\ faults \in Nat
    /\ last \in [Field -> Value \cup {Unknown}]
    /\ kept \in [Users -> [Part -> Value \cup {Unknown}]]

\* When nobody is changing settings, a setting whose last change was acknowledged
\* and not overlapped by another is the one in memory and in .env, so that it also
\* outlasts a restart; and a warehouse that was looked up is one of the site that
\* is configured, unless the site was changed during that very lookup.
SettingsHold ==
    /\ (\A r \in Requests : ~ Setting(r)) =>
          \A f \in Field : last[f] # Unknown =>
              /\ cfg[f] = last[f]
              /\ f \in InEnv => env[f] = last[f]
    /\ cache.site \notin {Blank, cfg.site} => cache.late

\* A nickname or an avatar that was acknowledged holds, in memory and in the file,
\* until the next request about it, or until a request about the other part of the
\* same profile ends that overlapped another: no restart, no failed read, no request
\* about another profile, failed or not, and no change of the other part on its own
\* undoes it.  Of overlapping requests the last to end has its own part.
ProfileHolds ==
    \A u \in Users, p \in Part : kept[u][p] # Unknown =>
        All[u][p] = kept[u][p] /\ file[u][p] = kept[u][p]
=============================================================================
