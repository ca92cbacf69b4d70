----------------------------- MODULE ListScans -----------------------------
(***************************************************************************)
(* How the server collects all documents of a kind from ERPNext: page by   *)
(* page, the one modified last first, while others create, modify and      *)
(* delete documents.  A modified document moves to the front and pushes    *)
(* others to the next page.  A row of a page is used as it was listed, or  *)
(* its document is read on its own.                                        *)
(*                                                                         *)
(* A definition Name_Variant before Name is not part of the specification: *)
(* it is a plausible mistake in that code, which a property must notice.   *)
(***************************************************************************)
EXTENDS Integers, FiniteSets, SequencesExt

CONSTANTS
    Docs,          \* the documents there may be
    Scans,         \* the scans under way at the same time
    PageSize,      \* the rows asked for; 200
    MaxLimit,      \* the rows that may be asked for; 500
    DefaultLimit,  \* the rows that are sent to who asks for more; 100
    MaxChanges,    \* bound on modified documents
    MaxDeletes     \* bound on deleted documents

ASSUME ScansAssumption ==
    /\ {PageSize, MaxLimit, DefaultLimit} \subseteq Nat \ {0}
    /\ PageSize <= MaxLimit
    /\ {MaxChanges, MaxDeletes} \subseteq Nat

VARIABLES
    order,    \* the documents as ERPNext sorts them
    version,  \* version[d]: how often d was modified
    scan,     \* scan[s]: where a scan is
    deletes   \* the number of deleted documents

vars == <<order, version, scan, deletes>>

Existing == ToSet(order)

\* rows: the rows of the page still to be read.  size: how many there were.
\* listed: the versions at the time of the page.  found: what was collected.  Histories: stable, the documents that existed at
\* the start and have not been modified since; deleted, was any deleted since?
Scan ==
    [pc      : {"idle", "asking", "reading", "done", "failed"},
     offset  : Nat,
     rows    : Seq(Docs),
     size    : Nat,
     listed  : [Docs -> Nat],
     found   : Seq([doc : Docs, version : Nat]),
     stable  : SUBSET Docs,
     deleted : BOOLEAN]

Idle == [pc |-> "idle", offset |-> 0, rows |-> <<>>, size |-> 0,
         listed |-> [d \in Docs |-> 0], found |-> <<>>, stable |-> {}, deleted |-> FALSE]

Init ==
    /\ \E S \in SUBSET Docs : IsFiniteSet(S) /\ order \in SetToSeqs(S)
    /\ version = [d \in Docs |-> 0]
    /\ scan = [s \in Scans |-> Idle]
    /\ deletes = 0

-----------------------------------------------------------------------------
(* ERPNext, for other requests *)

Touched(d) == scan' = [s \in Scans |-> [scan[s] EXCEPT !.stable = @ \ {d}]]

Create(d) ==
    /\ d \notin Existing /\ version[d] = 0
    /\ order' = <<d>> \o order
    /\ UNCHANGED <<version, scan, deletes>>

Modify(d) ==
    /\ version[d] < MaxChanges
    /\ \E i \in DOMAIN order : order[i] = d /\ order' = <<d>> \o RemoveAt(order, i)
    /\ version' = [version EXCEPT ![d] = @ + 1]
    /\ Touched(d)
    /\ UNCHANGED deletes

\* A draft is deleted, such as one whose issue has failed.
Delete(d) ==
    /\ deletes < MaxDeletes
    /\ \E i \in DOMAIN order : order[i] = d /\ order' = RemoveAt(order, i)
    /\ version' = [version EXCEPT ![d] = MaxChanges + 1]
    /\ deletes' = deletes + 1
    /\ scan' = [s \in Scans |-> [scan[s] EXCEPT !.stable = @ \ {d}, !.deleted = TRUE]]

-----------------------------------------------------------------------------
(* The scan *)

Start(s) ==
    /\ scan[s].pc \in {"idle", "done", "failed"}
    /\ scan' = [scan EXCEPT ![s] = [Idle EXCEPT !.pc = "asking", !.stable = Existing]]
    /\ UNCHANGED <<order, version, deletes>>

\* Everything is asked for at once.
Asked_TooMany == MaxLimit + 1

Asked == PageSize

\* A limit beyond the largest is replaced by the default one.
Sent(limit) == IF limit > MaxLimit THEN DefaultLimit ELSE limit

\* The rows behind the first ones that are sent.
Page(from) ==
    SubSeq(order, from + 1,
           IF from + Sent(Asked) < Len(order) THEN from + Sent(Asked) ELSE Len(order))

\* The list call.  It fails with its call.
AskPage(s) ==
    /\ scan[s].pc = "asking"
    /\ LET page == Page(scan[s].offset)
       IN  \/ scan' = [scan EXCEPT ![s] = [@ EXCEPT !.pc = "reading", !.rows = page,
                                                    !.size = Len(page),
                                                    !.listed = version]]
           \/ scan' = [scan EXCEPT ![s] = [@ EXCEPT !.pc = "failed"]]
    /\ UNCHANGED <<order, version, deletes>>

Names(found) == {found[i].doc : i \in DOMAIN found}

\* A document that was collected on an earlier page is left out.
Collected(s, d, n) ==
    IF d \in Names(scan[s].found) THEN scan[s].found
    ELSE Append(scan[s].found, [doc |-> d, version |-> n])

Take(s, d, n) ==
    scan' = [scan EXCEPT ![s] = [@ EXCEPT !.rows = Tail(scan[s].rows),
                                          !.found = Collected(s, d, n)]]

\* The next row is used as it was listed, or its document is read; if that is gone
\* by then the scan fails.  (Which rows need reading depends on what ERPNext lists.)
ReadRow(s) ==
    /\ scan[s].pc = "reading" /\ scan[s].rows # <<>>
    /\ LET d == Head(scan[s].rows)
       IN  \/ Take(s, d, scan[s].listed[d])
           \/ d \in Existing /\ Take(s, d, version[d])
           \/ /\ d \notin Existing
              /\ scan' = [scan EXCEPT ![s] = [@ EXCEPT !.pc = "failed"]]
    /\ UNCHANGED <<order, version, deletes>>

\* A page shorter than what was asked for is the last one.
EndPage(s) ==
    /\ scan[s].pc = "reading" /\ scan[s].rows = <<>>
    /\ \/ /\ scan[s].size < Asked
          /\ scan' = [scan EXCEPT ![s] = [@ EXCEPT !.pc = "done"]]
       \/ /\ scan[s].size >= Asked
          /\ scan' = [scan EXCEPT ![s] = [@ EXCEPT !.pc = "asking",
                                                !.offset = scan[s].offset + Asked]]
    /\ UNCHANGED <<order, version, deletes>>

Next ==
    \/ \E d \in Docs : Create(d) \/ Modify(d) \/ Delete(d)
    \/ \E s \in Scans : Start(s) \/ AskPage(s) \/ ReadRow(s) \/ EndPage(s)

Spec == Init /\ [][Next]_vars

-----------------------------------------------------------------------------
(* Properties *)

TypeOK ==
    /\ order \in Seq(Docs) /\ IsInjective(order)
    /\ version \in [Docs -> Nat]
    /\ scan \in [Scans -> Scan]
    /\ deletes \in Nat

\* What a finished scan has collected has every document once, however documents
\* moved between its pages, and every document that was there when it started and
\* was left alone, in the version it still has.  Only a deletion under way may make
\* it miss one.  (One that is modified meanwhile may be missing too.)
ScanIsComplete ==
    \A s \in Scans : scan[s].pc = "done" =>
        /\ Cardinality(Names(scan[s].found)) = Len(scan[s].found)
        /\ ~ scan[s].deleted => scan[s].stable \subseteq Names(scan[s].found)
        /\ \A i \in DOMAIN scan[s].found :
              scan[s].found[i].doc \in scan[s].stable =>
                  scan[s].found[i].version = version[scan[s].found[i].doc]
=============================================================================
