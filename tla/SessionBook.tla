---------------------------- MODULE SessionBook ----------------------------
(***************************************************************************)
(* What the session manager promises: a book of sessions by token.  A      *)
(* token is entered once, for one user, and stays until that user logs out *)
(* or its time has passed.  There is no memory, no file and no restart.    *)
(***************************************************************************)
EXTENDS Integers

CONSTANTS Tokens, NoSession

VARIABLES book,   \* book[t]: user and expiry (0: none) of a session
          drawn,  \* the tokens ever entered
          clock

bookVars == <<book, drawn, clock>>

Init ==
    /\ book = [t \in Tokens |-> NoSession]
    /\ drawn = {}
    /\ clock = 0

\* A step that changes the entry of t and nothing else in the book.
Entry(t) ==
    /\ book' = [book EXCEPT ![t] = book'[t]]
    /\ clock' = clock

Past(r, now) == r.expires # 0 /\ now > r.expires

Grant(t) ==
    /\ t \notin drawn
    /\ drawn' = drawn \cup {t}
    /\ Entry(t)
    /\ book'[t] # NoSession /\ ~ Past(book'[t], clock)

\* Renewed by a request that was served, possibly after the time has passed.
Renew(t) ==
    /\ book[t] # NoSession
    /\ Entry(t)
    /\ book'[t] # NoSession /\ ~ Past(book'[t], clock)
    /\ book'[t].user = book[t].user
    /\ UNCHANGED drawn

Revoke(t) ==
    /\ book[t] # NoSession
    /\ Entry(t)
    /\ book'[t] = NoSession
    /\ UNCHANGED drawn

\* Any number of entries whose time has passed are removed.
Lapses(now) ==
    \A t \in Tokens : \/ book'[t] = book[t]
                      \/ /\ book[t] # NoSession /\ Past(book[t], now)
                         /\ book'[t] = NoSession

Lapse == Lapses(clock) /\ UNCHANGED <<drawn, clock>>

Tick == clock' = clock + 1 /\ Lapses(clock') /\ UNCHANGED drawn

Next ==
    \/ \E t \in Tokens : Grant(t) \/ Renew(t) \/ Revoke(t)
    \/ Lapse
    \/ Tick

Spec == Init /\ [][Next]_bookVars
=============================================================================
