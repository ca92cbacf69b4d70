----------------------------- MODULE MCSettings -----------------------------
(* Settings with model values for TLC.  Each behaviour is about one half, the  *)
(* settings or the profiles, while the other stays as it started.  That the    *)
(* halves leave each other alone is proved in SettingsProofs.                  *)
EXTENDS Settings, TLC

CONSTANTS v1, v2, u1, u2, r1, r2, r3

MCValues == {v1, v2}
MCUsers == {u1, u2}
MCRequests == {r1, r2, r3}

MCSymmetry ==
    Permutations(MCValues) \cup Permutations(MCUsers) \cup Permutations(MCRequests)

\* Nobody has changed a setting.  A restart forgets what was acknowledged of
\* those that .env does not give back, here as anywhere.
SettingsFresh ==
    /\ cfg = [f \in Field |-> Blank] /\ env = [f \in InEnv |-> Blank]
    /\ last.site = Blank /\ last.code = Blank
    /\ \A r \in Requests : ~ Setting(r) /\ req[r].pc # "lookup"

ProfilesFresh ==
    /\ \A u \in Users, p \in Part : {All[u][p], file[u][p], kept[u][p]} = {Blank}
    /\ \A r \in Requests, u \in Users : ~ Editing(r, u)

\* Two requests are enough for the profiles: see the README.
TwoAtMost == Cardinality({r \in Requests : req'[r].pc # "idle"}) <= 2

HalvesNext ==
    \/ ProfilesFresh /\ SettingSteps
    \/ SettingsFresh /\ ProfileSteps /\ TwoAtMost
    \/ Restart

HalvesSpec == Init /\ [][HalvesNext]_vars
=============================================================================
