-------------------------- MODULE ListScansProofs --------------------------
(***************************************************************************)
(* For any number of documents, scans, changes and deletions, and any      *)
(* limits that allow a page: every variable keeps its type, and a finished *)
(* scan is complete.                                                       *)
(*                                                                         *)
(* ScanIsComplete speaks of scans that are done.  What makes it inductive  *)
(* is where the documents still missing are while a scan is under way      *)
(* (Ahead): among the rows of the page, or further down than the page.     *)
(* They only move down, for whoever is modified is put in front, unless a  *)
(* document before them is deleted.                                        *)
(***************************************************************************)
EXTENDS ListScans, FiniteSetTheorems, SequenceTheorems, TLAPS

\* Document d is in row k of the list or further down.
Below(list, d, k) == \E i \in DOMAIN list : i >= k /\ list[i] = d

\* Where a document is that the scan has not collected yet.
Ahead(sc, list, d) ==
    /\ sc.pc = "asking" => Below(list, d, sc.offset + 1)
    /\ sc.pc = "reading" =>
          \/ d \in ToSet(sc.rows)
          \/ sc.size = Asked /\ Below(list, d, sc.offset + Asked + 1)
    /\ sc.pc # "done"

\* What was collected and left alone has the version it was collected in.
Current(sc, ver) ==
    \A i \in DOMAIN sc.found : sc.found[i].doc \in sc.stable =>
        sc.found[i].version = ver[sc.found[i].doc]

\* What was left alone since the page was listed has the version it had then.
Recent(sc, ver) == sc.pc = "reading" => \A d \in sc.stable : sc.listed[d] = ver[d]

Sound(sc, list, ver) ==
    /\ sc.stable \subseteq ToSet(list)
    /\ Cardinality(Names(sc.found)) = Len(sc.found)
    /\ Current(sc, ver) /\ Recent(sc, ver)
    /\ ~ sc.deleted => \A d \in sc.stable \ Names(sc.found) : Ahead(sc, list, d)

IInv == TypeOK /\ \A s \in Scans : Sound(scan[s], order, version)

-----------------------------------------------------------------------------
(* ERPNext's list *)

LEMMA PageFits == Asked \in Nat \ {0} /\ Sent(Asked) = Asked
BY ScansAssumption DEF Asked, Sent

\* What is left of a list without its row k: the rows before stay, those behind
\* move up by one.
LEMMA RowRemoved ==
    ASSUME NEW S, NEW o \in Seq(S), NEW k \in DOMAIN o
    PROVE  /\ RemoveAt(o, k) \in Seq(S)
           /\ Len(RemoveAt(o, k)) = Len(o) - 1
           /\ \A i \in 1 .. Len(o) - 1 :
                 RemoveAt(o, k)[i] = IF i < k THEN o[i] ELSE o[i + 1]
<1> DEFINE before == SubSeq(o, 1, k - 1)
           behind == SubSeq(o, k + 1, Len(o))
<1>1. k \in 1 .. Len(o) /\ Len(o) \in Nat /\ \A i \in 1 .. Len(o) : o[i] \in S
  BY LenProperties, ElementOfSeq
<1>2. /\ before \in Seq(S) /\ Len(before) = k - 1
      /\ \A i \in 1 .. k - 1 : before[i] = o[i]
  <2>1. \A i \in 1 .. k - 1 : o[i] \in S
    BY <1>1
  <2>2. /\ before \in Seq(S)
        /\ Len(before) = IF 1 <= k - 1 THEN (k - 1) - 1 + 1 ELSE 0
        /\ \A i \in 1 .. (k - 1) - 1 + 1 : before[i] = o[1 + i - 1]
    BY <1>1, <2>1, SubSeqProperties
  <2> HIDE DEF before
  <2> QED BY <1>1, <2>2
<1>3. /\ behind \in Seq(S) /\ Len(behind) = Len(o) - k
      /\ \A i \in 1 .. Len(o) - k : behind[i] = o[k + i]
  <2>1. \A i \in k + 1 .. Len(o) : o[i] \in S
    BY <1>1
  <2>2. /\ behind \in Seq(S)
        /\ Len(behind) = IF k + 1 <= Len(o) THEN Len(o) - (k + 1) + 1 ELSE 0
        /\ \A i \in 1 .. Len(o) - (k + 1) + 1 : behind[i] = o[(k + 1) + i - 1]
    BY <1>1, <2>1, SubSeqProperties
  <2> HIDE DEF behind
  <2> QED BY <1>1, <2>2
<1>4. RemoveAt(o, k) = before \o behind
  BY DEF RemoveAt
<1> HIDE DEF before, behind
<1>5. Len(before) + Len(behind) = Len(o) - 1
  BY <1>1, <1>2, <1>3
<1>6. /\ before \o behind \in Seq(S)
      /\ Len(before \o behind) = Len(o) - 1
      /\ \A i \in 1 .. Len(o) - 1 :
            (before \o behind)[i]
              = IF i <= Len(before) THEN before[i] ELSE behind[i - Len(before)]
  <2>1. /\ before \o behind \in Seq(S)
        /\ Len(before \o behind) = Len(before) + Len(behind)
        /\ \A i \in 1 .. Len(before) + Len(behind) :
              (before \o behind)[i]
                = IF i <= Len(before) THEN before[i] ELSE behind[i - Len(before)]
    BY <1>2, <1>3, ConcatProperties
  <2> QED BY <2>1, <1>5
<1>7. ASSUME NEW i \in 1 .. Len(o) - 1
      PROVE  RemoveAt(o, k)[i] = IF i < k THEN o[i] ELSE o[i + 1]
  <2>1. CASE i < k
    <3>1. i <= Len(before) /\ i \in 1 .. k - 1
      BY <2>1, <1>1, <1>2
    <3>2. (before \o behind)[i] = before[i]
      BY <3>1, <1>6
    <3> QED BY <3>1, <3>2, <2>1, <1>2, <1>4
  <2>2. CASE ~ (i < k)
    <3>1. ~ (i <= Len(before)) /\ i - Len(before) \in 1 .. Len(o) - k
          /\ k + (i - Len(before)) = i + 1
      BY <2>2, <1>1, <1>2
    <3>2. (before \o behind)[i] = behind[i - Len(before)]
      BY <3>1, <1>6
    <3>3. behind[i - Len(before)] = o[i + 1]
      BY <3>1, <1>3
    <3> QED BY <3>2, <3>3, <2>2, <1>4
  <2> QED BY <2>1, <2>2
<1> QED BY <1>4, <1>6, <1>7

\* A list with a document put in front: all rows move down by one.
LEMMA RowPutInFront ==
    ASSUME NEW S, NEW o \in Seq(S), NEW d \in S
    PROVE  /\ <<d>> \o o \in Seq(S)
           /\ Len(<<d>> \o o) = Len(o) + 1
           /\ \A i \in 1 .. Len(o) + 1 :
                 (<<d>> \o o)[i] = IF i = 1 THEN d ELSE o[i - 1]
<1>1. <<d>> \in Seq(S) /\ Len(<<d>>) = 1 /\ <<d>>[1] = d
  OBVIOUS
<1>2. Len(o) \in Nat
  BY LenProperties
<1> QED BY <1>1, <1>2, ConcatProperties

-----------------------------------------------------------------------------
(* Types *)

LEMMA IdleIsScan == Idle \in Scan
BY EmptySeq DEF Idle, Scan

LEMMA ScanTypesInit == Init => TypeOK
<1> SUFFICES ASSUME Init PROVE TypeOK
  OBVIOUS
<1>1. order \in Seq(Docs) /\ IsInjective(order)
  <2>1. PICK S \in SUBSET Docs : IsFiniteSet(S) /\ order \in SetToSeqs(S)
    BY DEF Init
  <2>2. Cardinality(S) \in Nat
    BY <2>1, FS_CardinalityType
  <2>3. order \in [1 .. Cardinality(S) -> Docs]
    BY <2>1 DEF SetToSeqs
  <2>4. \A i, j \in DOMAIN order : order[i] = order[j] => i = j
    BY <2>1 DEF SetToSeqs
  <2> QED BY <2>2, <2>3, <2>4 DEF IsInjective
<1> QED BY <1>1, IdleIsScan DEF Init, TypeOK

\* A document of the list that is not the one put in front is not moved up.
LEMMA NewInFront ==
    ASSUME TypeOK, NEW d \in Docs, Create(d)
    PROVE  /\ order' \in Seq(Docs) /\ IsInjective(order')
           /\ \A e \in Docs, k \in Nat : Below(order, e, k) => Below(order', e, k)
<1>1. /\ order' \in Seq(Docs) /\ Len(order') = Len(order) + 1
      /\ \A i \in 1 .. Len(order) + 1 :
            order'[i] = IF i = 1 THEN d ELSE order[i - 1]
  BY RowPutInFront DEF Create, TypeOK
<1>2. /\ Len(order) \in Nat /\ DOMAIN order = 1 .. Len(order)
      /\ DOMAIN order' = 1 .. Len(order) + 1
  BY <1>1, LenProperties DEF TypeOK
<1>3. \A i \in DOMAIN order : order[i] # d
  BY DEF Create, Existing, ToSet
<1>4. ASSUME NEW i \in DOMAIN order', NEW j \in DOMAIN order', order'[i] = order'[j]
      PROVE  i = j
  <2>1. i # 1 => i - 1 \in DOMAIN order /\ order'[i] = order[i - 1] /\ order'[i] # d
    BY <1>1, <1>2, <1>3
  <2>2. j # 1 => j - 1 \in DOMAIN order /\ order'[j] = order[j - 1] /\ order'[j] # d
    BY <1>1, <1>2, <1>3
  <2>3. order'[1] = d
    BY <1>1, <1>2
  <2>4. i # 1 /\ j # 1 => i - 1 = j - 1
    BY <2>1, <2>2, <1>4 DEF TypeOK, IsInjective
  <2> QED BY <2>1, <2>2, <2>3, <2>4, <1>2, <1>4
<1>5. ASSUME NEW e \in Docs, NEW k \in Nat, Below(order, e, k)
      PROVE  Below(order', e, k)
  <2>1. PICK i \in DOMAIN order : i >= k /\ order[i] = e
    BY <1>5 DEF Below
  <2>2. i + 1 \in DOMAIN order' /\ i + 1 >= k /\ order'[i + 1] = e
    BY <1>1, <1>2, <2>1
  <2> QED BY <2>2 DEF Below
<1> QED BY <1>1, <1>4, <1>5 DEF IsInjective

\* A deleted document leaves the others where they are or one row further up.
LEMMA RowsLeft ==
    ASSUME TypeOK, NEW k \in DOMAIN order, NEW list, list = RemoveAt(order, k)
    PROVE  /\ list \in Seq(Docs) /\ IsInjective(list)
           /\ \A i \in DOMAIN list : list[i] # order[k]
           /\ \A i \in DOMAIN order : i < k => i \in DOMAIN list /\ list[i] = order[i]
           /\ \A i \in DOMAIN order : i > k =>
                 i - 1 \in DOMAIN list /\ list[i - 1] = order[i]
<1>1. /\ list \in Seq(Docs) /\ Len(list) = Len(order) - 1
      /\ \A i \in 1 .. Len(order) - 1 :
            list[i] = IF i < k THEN order[i] ELSE order[i + 1]
  BY RowRemoved DEF TypeOK
<1>2. /\ Len(order) \in Nat /\ DOMAIN order = 1 .. Len(order)
      /\ DOMAIN list = 1 .. Len(order) - 1
  BY <1>1, LenProperties DEF TypeOK
<1>3. \A i, j \in DOMAIN order : order[i] = order[j] => i = j
  BY DEF TypeOK, IsInjective
<1>4. \A i \in DOMAIN list : list[i] # order[k]
  <2> SUFFICES ASSUME NEW i \in DOMAIN list PROVE list[i] # order[k]
    OBVIOUS
  <2>1. CASE i < k
    BY <2>1, <1>1, <1>2, <1>3
  <2>2. CASE ~ (i < k)
    <3>1. list[i] = order[i + 1] /\ i + 1 \in DOMAIN order /\ i + 1 # k
      BY <2>2, <1>1, <1>2
    <3> QED BY <3>1, <1>3
  <2> QED BY <2>1, <2>2
<1>5. ASSUME NEW i \in DOMAIN list, NEW j \in DOMAIN list, list[i] = list[j]
      PROVE  i = j
  <2> DEFINE At(n) == IF n < k THEN n ELSE n + 1
  <2>1. At(i) \in DOMAIN order /\ order[At(i)] = list[i]
    BY <1>1, <1>2
  <2>2. At(j) \in DOMAIN order /\ order[At(j)] = list[j]
    BY <1>1, <1>2
  <2>3. At(i) = At(j)
    BY <2>1, <2>2, <1>3, <1>5
  <2> QED BY <2>3, <1>2
<1>6. \A i \in DOMAIN order : i < k => i \in DOMAIN list /\ list[i] = order[i]
  BY <1>1, <1>2
<1>7. ASSUME NEW i \in DOMAIN order, i > k
      PROVE  i - 1 \in DOMAIN list /\ list[i - 1] = order[i]
  <2>1. i - 1 \in 1 .. Len(order) - 1 /\ ~ (i - 1 < k) /\ (i - 1) + 1 = i
    BY <1>2, <1>7
  <2> QED BY <2>1, <1>1, <1>2
<1> QED BY <1>1, <1>4, <1>5, <1>6, <1>7 DEF IsInjective

\* A document that is not the one modified is not moved up.
LEMMA ModifiedInFront ==
    ASSUME TypeOK, NEW d \in Docs, Modify(d)
    PROVE  /\ order' \in Seq(Docs) /\ IsInjective(order')
           /\ \A e \in Docs, n \in Nat :
                 e # d /\ Below(order, e, n) => Below(order', e, n)
<1>1. PICK k \in DOMAIN order : order[k] = d /\ order' = <<d>> \o RemoveAt(order, k)
  BY DEF Modify
<1> DEFINE list == RemoveAt(order, k)
<1>2. /\ list \in Seq(Docs) /\ IsInjective(list)
      /\ \A i \in DOMAIN list : list[i] # d
      /\ \A i \in DOMAIN order : i < k => i \in DOMAIN list /\ list[i] = order[i]
      /\ \A i \in DOMAIN order : i > k =>
            i - 1 \in DOMAIN list /\ list[i - 1] = order[i]
  BY <1>1, RowsLeft
<1> HIDE DEF list
<1>3. order' = <<d>> \o list
  BY <1>1 DEF list
<1>4. /\ order' \in Seq(Docs) /\ Len(order') = Len(list) + 1
      /\ \A i \in 1 .. Len(list) + 1 :
            order'[i] = IF i = 1 THEN d ELSE list[i - 1]
  BY <1>2, <1>3, RowPutInFront
<1>5. /\ Len(list) \in Nat /\ DOMAIN list = 1 .. Len(list)
      /\ DOMAIN order' = 1 .. Len(list) + 1
      /\ Len(order) \in Nat /\ DOMAIN order = 1 .. Len(order)
  BY <1>2, <1>4, LenProperties DEF TypeOK
<1>6. ASSUME NEW i \in DOMAIN order', NEW j \in DOMAIN order', order'[i] = order'[j]
      PROVE  i = j
  <2>1. i # 1 => i - 1 \in DOMAIN list /\ order'[i] = list[i - 1] /\ order'[i] # d
    BY <1>2, <1>4, <1>5
  <2>2. j # 1 => j - 1 \in DOMAIN list /\ order'[j] = list[j - 1] /\ order'[j] # d
    BY <1>2, <1>4, <1>5
  <2>3. order'[1] = d
    BY <1>4, <1>5
  <2>4. i # 1 /\ j # 1 => i - 1 = j - 1
    BY <2>1, <2>2, <1>2, <1>6 DEF IsInjective
  <2> QED BY <2>1, <2>2, <2>3, <2>4, <1>5, <1>6
<1>7. ASSUME NEW e \in Docs, NEW n \in Nat, e # d, Below(order, e, n)
      PROVE  Below(order', e, n)
  <2>1. PICK i \in DOMAIN order : i >= n /\ order[i] = e
    BY <1>7 DEF Below
  <2>2. CASE i < k
    <3>1. i \in DOMAIN list /\ list[i] = e
      BY <2>1, <2>2, <1>2
    <3>2. i + 1 \in DOMAIN order' /\ i + 1 >= n /\ order'[i + 1] = e
      BY <3>1, <2>1, <1>4, <1>5
    <3> QED BY <3>2 DEF Below
  <2>3. CASE i > k
    <3>1. i - 1 \in DOMAIN list /\ list[i - 1] = e
      BY <2>1, <2>3, <1>2
    <3>2. i \in DOMAIN order' /\ i # 1 /\ order'[i] = e
      BY <3>1, <1>4, <1>5
    <3> QED BY <3>2, <2>1 DEF Below
  <2>4. i # k
    BY <2>1, <1>1, <1>7
  <2> QED BY <2>2, <2>3, <2>4, <1>5
<1> QED BY <1>4, <1>6, <1>7 DEF IsInjective

\* A deleted document is no longer listed, the others are.
LEMMA DeletedIsGone ==
    ASSUME TypeOK, NEW d \in Docs, Delete(d)
    PROVE  /\ order' \in Seq(Docs) /\ IsInjective(order')
           /\ \A e \in Docs : e # d /\ e \in ToSet(order) => e \in ToSet(order')
<1>1. PICK k \in DOMAIN order : order[k] = d /\ order' = RemoveAt(order, k)
  BY DEF Delete
<1>2. /\ order' \in Seq(Docs) /\ IsInjective(order')
      /\ \A i \in DOMAIN order : i < k => i \in DOMAIN order' /\ order'[i] = order[i]
      /\ \A i \in DOMAIN order : i > k =>
            i - 1 \in DOMAIN order' /\ order'[i - 1] = order[i]
  BY <1>1, RowsLeft
<1>3. Len(order) \in Nat /\ DOMAIN order = 1 .. Len(order)
  BY LenProperties DEF TypeOK
<1>4. ASSUME NEW e \in Docs, e # d, e \in ToSet(order)
      PROVE  e \in ToSet(order')
  <2>1. PICK i \in DOMAIN order : order[i] = e
    BY <1>4 DEF ToSet
  <2>2. i < k \/ i > k
    BY <2>1, <1>1, <1>3, <1>4
  <2> QED BY <2>1, <2>2, <1>2 DEF ToSet
<1> QED BY <1>2, <1>4

\* A page has the rows behind the first ones, at most as many as are asked for.
LEMMA PageTypes ==
    ASSUME TypeOK, NEW from \in Nat
    PROVE  /\ Page(from) \in Seq(Docs) /\ Len(Page(from)) \in Nat
           /\ Len(Page(from)) <= Asked
           /\ \A i \in DOMAIN order : from < i /\ i <= from + Asked =>
                 \E j \in DOMAIN Page(from) : Page(from)[j] = order[i]
           /\ from + Asked < Len(order) => Len(Page(from)) = Asked
<1>0. Asked \in Nat /\ Sent(Asked) = Asked /\ order \in Seq(Docs)
  BY PageFits DEF TypeOK
<1>1. Len(order) \in Nat
  BY <1>0, LenProperties
<1>2. DOMAIN order = 1 .. Len(order) /\ \A i \in 1 .. Len(order) : order[i] \in Docs
  BY <1>0, LenProperties, ElementOfSeq
<1>3. PICK last \in Nat : last = IF from + Asked < Len(order) THEN from + Asked ELSE Len(order)
  BY <1>0, <1>1
<1>4. /\ last <= Len(order)
      /\ last <= from + Asked
      /\ from + Asked < Len(order) => last = from + Asked
      /\ \A i \in Nat : i <= Len(order) /\ i <= from + Asked => i <= last
  BY <1>0, <1>1, <1>3
<1>5. Page(from) = SubSeq(order, from + 1, last)
  BY <1>0, <1>3 DEF Page
<1>6. /\ Page(from) \in Seq(Docs)
      /\ Len(Page(from)) = IF from + 1 <= last THEN last - (from + 1) + 1 ELSE 0
      /\ \A i \in 1 .. last - (from + 1) + 1 : Page(from)[i] = order[(from + 1) + i - 1]
  <2>1. \A i \in from + 1 .. last : order[i] \in Docs
    BY <1>1, <1>2, <1>4
  <2> QED BY <2>1, <1>5, SubSeqProperties
<1>7. DOMAIN Page(from) = 1 .. Len(Page(from))
  BY <1>6, LenProperties
<1>8. ASSUME NEW i \in DOMAIN order, from < i, i <= from + Asked
      PROVE  \E j \in DOMAIN Page(from) : Page(from)[j] = order[i]
  <2>1. i \in Nat /\ i <= last
    BY <1>1, <1>2, <1>4, <1>8
  <2>2. i - from \in 1 .. last - (from + 1) + 1 /\ i - from \in 1 .. Len(Page(from))
    BY <1>6, <2>1, <1>8
  <2>3. Page(from)[i - from] = order[(from + 1) + (i - from) - 1]
    BY <1>6, <2>2
  <2>4. (from + 1) + (i - from) - 1 = i
    BY <2>1
  <2>5. i - from \in DOMAIN Page(from) /\ Page(from)[i - from] = order[i]
    BY <2>2, <2>3, <2>4, <1>7
  <2> QED BY <2>5
<1>9. Len(Page(from)) <= Asked
  BY <1>0, <1>4, <1>6
<1>10. from + Asked < Len(order) => Len(Page(from)) = Asked
  BY <1>0, <1>4, <1>6
<1> QED BY <1>6, <1>8, <1>9, <1>10, LenProperties

\* What the steps make of a scan is one.
LEMMA ScanUpdates ==
    ASSUME NEW sc \in Scan
    PROVE  /\ \A D : [sc EXCEPT !.stable = @ \ D] \in Scan
           /\ \A D : [sc EXCEPT !.stable = @ \ D, !.deleted = TRUE] \in Scan
           /\ \A S \in SUBSET Docs : [Idle EXCEPT !.pc = "asking", !.stable = S] \in Scan
           /\ \A p \in Seq(Docs), n \in Nat, v \in [Docs -> Nat] :
                 [sc EXCEPT !.pc = "reading", !.rows = p, !.size = n, !.listed = v] \in Scan
           /\ \A p \in Seq(Docs), f \in Seq([doc : Docs, version : Nat]) :
                 [sc EXCEPT !.rows = p, !.found = f] \in Scan
           /\ \A c \in {"failed", "done"} : [sc EXCEPT !.pc = c] \in Scan
           /\ \A n \in Nat : [sc EXCEPT !.pc = "asking", !.offset = n] \in Scan
<1>1. \A D : [sc EXCEPT !.stable = @ \ D] \in Scan
  BY DEF Scan
<1>2. \A D : [sc EXCEPT !.stable = @ \ D, !.deleted = TRUE] \in Scan
  BY DEF Scan
<1>3. \A S \in SUBSET Docs : [Idle EXCEPT !.pc = "asking", !.stable = S] \in Scan
  BY IdleIsScan DEF Scan
<1>4. \A p \in Seq(Docs), n \in Nat, v \in [Docs -> Nat] :
         [sc EXCEPT !.pc = "reading", !.rows = p, !.size = n, !.listed = v] \in Scan
  BY DEF Scan
<1>5. \A p \in Seq(Docs), f \in Seq([doc : Docs, version : Nat]) :
         [sc EXCEPT !.rows = p, !.found = f] \in Scan
  BY DEF Scan
<1>6. \A c \in {"failed", "done"} : [sc EXCEPT !.pc = c] \in Scan
  BY DEF Scan
<1>7. \A n \in Nat : [sc EXCEPT !.pc = "asking", !.offset = n] \in Scan
  BY DEF Scan
<1> QED BY <1>1, <1>2, <1>3, <1>4, <1>5, <1>6, <1>7

LEMMA ScanTypesNext == TypeOK /\ [Next]_vars => TypeOK'
<1> SUFFICES ASSUME TypeOK, [Next]_vars PROVE TypeOK'
  OBVIOUS
<1>0. /\ order \in Seq(Docs) /\ IsInjective(order) /\ version \in [Docs -> Nat]
      /\ scan \in [Scans -> Scan] /\ deletes \in Nat /\ MaxChanges \in Nat
  BY ScansAssumption DEF TypeOK
<1>1. ASSUME NEW d \in Docs, Create(d) PROVE TypeOK'
  BY <1>0, <1>1, NewInFront DEF Create, TypeOK
<1>2. ASSUME NEW d \in Docs, Modify(d) PROVE TypeOK'
  <2>1. scan' \in [Scans -> Scan]
    BY <1>0, <1>2, ScanUpdates DEF Modify, Touched
  <2>2. version' \in [Docs -> Nat] /\ deletes' \in Nat
    BY <1>0, <1>2 DEF Modify
  <2> QED BY <1>2, <2>1, <2>2, ModifiedInFront DEF TypeOK
<1>3. ASSUME NEW d \in Docs, Delete(d) PROVE TypeOK'
  <2>1. scan' \in [Scans -> Scan]
    BY <1>0, <1>3, ScanUpdates DEF Delete
  <2>2. deletes' \in Nat /\ MaxChanges + 1 \in Nat
    <3>1. deletes' = deletes + 1
      BY <1>3, Zenon DEF Delete
    <3> QED BY <1>0, <3>1
  <2>3. version' \in [Docs -> Nat]
    BY <1>0, <1>3, <2>2 DEF Delete
  <2> QED BY <1>3, <2>1, <2>2, <2>3, DeletedIsGone DEF TypeOK
<1>4. ASSUME NEW s \in Scans, Start(s) PROVE TypeOK'
  <2>1. Existing \in SUBSET Docs
    BY <1>0 DEF Existing, ToSet
  <2>2. [Idle EXCEPT !.pc = "asking", !.stable = Existing] \in Scan
    BY <1>0, <2>1, ScanUpdates
  <2> QED BY <1>0, <1>4, <2>2 DEF Start, TypeOK
<1>5. ASSUME NEW s \in Scans, AskPage(s) PROVE TypeOK'
  <2>1. scan' \in [Scans -> Scan]
    <3> DEFINE page == Page(scan[s].offset)
    <3>0. scan[s].offset \in Nat
      BY <1>0 DEF Scan
    <3>1. page \in Seq(Docs) /\ Len(page) \in Nat
      BY <3>0, PageTypes
    <3>2. \/ scan' = [scan EXCEPT ![s] = [@ EXCEPT !.pc = "reading", !.rows = page,
                                                   !.size = Len(page),
                                                   !.listed = version]]
          \/ scan' = [scan EXCEPT ![s] = [@ EXCEPT !.pc = "failed"]]
      BY <1>5 DEF AskPage
    <3> HIDE DEF page
    <3>3. ASSUME NEW rec \in Scan, scan' = [scan EXCEPT ![s] = rec]
          PROVE  scan' \in [Scans -> Scan]
      BY <1>0, <3>3
    <3>4. /\ [scan[s] EXCEPT !.pc = "reading", !.rows = page, !.size = Len(page),
                              !.listed = version] \in Scan
          /\ [scan[s] EXCEPT !.pc = "failed"] \in Scan
      BY <1>0, <3>1, ScanUpdates
    <3> QED BY <3>2, <3>3, <3>4
  <2> QED BY <1>0, <1>5, <2>1 DEF AskPage, TypeOK
<1>6. ASSUME NEW s \in Scans, ReadRow(s) PROVE TypeOK'
  <2> DEFINE d == Head(scan[s].rows)
  <2>1. d \in Docs /\ Tail(scan[s].rows) \in Seq(Docs)
    BY <1>0, <1>6, HeadTailProperties DEF ReadRow, Scan
  <2> DEFINE read(n) == [scan[s] EXCEPT !.rows = Tail(scan[s].rows),
                                        !.found = Collected(s, d, n)]
             lost == [scan[s] EXCEPT !.pc = "failed"]
  <2>3. \/ \E n \in {scan[s].listed[d], version[d]} : scan' = [scan EXCEPT ![s] = read(n)]
        \/ scan' = [scan EXCEPT ![s] = lost]
    BY <1>6 DEF ReadRow, Take
  <2>2. scan[s].listed[d] \in Nat /\ version[d] \in Nat
    BY <1>0, <2>1 DEF Scan
  <2> HIDE DEF d
  <2>4. scan' \in [Scans -> Scan]
    <3>1. ASSUME NEW n \in Nat PROVE read(n) \in Scan
      <4>1. Collected(s, d, n) \in Seq([doc : Docs, version : Nat])
        BY <1>0, <2>1, AppendProperties DEF Collected, Scan
      <4> QED BY <1>0, <2>1, <4>1, ScanUpdates
    <3>2. lost \in Scan
      BY <1>0, ScanUpdates
    <3> HIDE DEF read, lost
    <3> QED BY <1>0, <2>2, <2>3, <3>1, <3>2
  <2> QED BY <1>0, <1>6, <2>4 DEF ReadRow, TypeOK
<1>7. ASSUME NEW s \in Scans, EndPage(s) PROVE TypeOK'
  <2> DEFINE sc == scan[s]
             last == [sc EXCEPT !.pc = "done"]
             more == [sc EXCEPT !.pc = "asking", !.offset = sc.offset + Asked]
  <2>1. sc \in Scan /\ sc.offset + Asked \in Nat
    <3>1. sc \in Scan
      BY <1>0
    <3>2. sc.offset \in Nat
      BY <3>1 DEF Scan
    <3> QED BY <3>1, <3>2, PageFits
  <2>3. last \in Scan /\ more \in Scan
    <3> HIDE DEF sc
    <3>1. last \in Scan
      BY <2>1, ScanUpdates
    <3>2. more \in Scan
      BY <2>1, ScanUpdates
    <3> QED BY <3>1, <3>2
  <2>4. scan' = [scan EXCEPT ![s] = last] \/ scan' = [scan EXCEPT ![s] = more]
    BY <1>7 DEF EndPage
  <2> HIDE DEF last, more
  <2>2. scan' \in [Scans -> Scan]
    BY <1>0, <2>3, <2>4
  <2> QED BY <1>0, <1>7, <2>2 DEF EndPage, TypeOK
<1>8. CASE UNCHANGED vars
  BY <1>8 DEF vars, TypeOK
<1> QED BY <1>1, <1>2, <1>3, <1>4, <1>5, <1>6, <1>7, <1>8 DEF Next

-----------------------------------------------------------------------------
(* Completeness *)

LEMMA NamesFinite ==
    ASSUME NEW found \in Seq([doc : Docs, version : Nat])
    PROVE  IsFiniteSet(Names(found)) /\ Names(found) \subseteq Docs
<1>1. Len(found) \in Nat /\ DOMAIN found = 1 .. Len(found)
      /\ \A i \in DOMAIN found : found[i] \in [doc : Docs, version : Nat]
  BY LenProperties, ElementOfSeq
<1>2. IsFiniteSet(1 .. Len(found))
  BY <1>1, FS_Interval
<1>3. IsFiniteSet({found[i].doc : i \in 1 .. Len(found)})
  <2> DEFINE f == [i \in 1 .. Len(found) |-> found[i].doc]
  <2>1. f \in Surjection(1 .. Len(found), {found[i].doc : i \in 1 .. Len(found)})
    BY DEF Surjection
  <2> QED BY <1>2, <2>1, FS_Surjection
<1> QED BY <1>1, <1>3 DEF Names

\* Between two lists, and the versions with them, only the documents in T changed ...
Changed(T, list, ver, list2, ver2) ==
    \A e \in Docs \ T : /\ ver2[e] = ver[e]
                        /\ e \in ToSet(list) => e \in ToSet(list2)

\* ... and no other was moved up.
Lowered(T, list, list2) ==
    \A e \in Docs \ T, k \in Nat : Below(list, e, k) => Below(list2, e, k)

\* A scan no longer relies on the documents in T.
Touches(T, sc, sc2) ==
    /\ sc2.pc = sc.pc /\ sc2.offset = sc.offset /\ sc2.rows = sc.rows
    /\ sc2.size = sc.size /\ sc2.found = sc.found /\ sc2.stable = sc.stable \ T
    /\ sc2.listed = sc.listed
    /\ sc.deleted => sc2.deleted

\* Other requests change documents: a scan stays sound.
LEMMA SoundElsewhere ==
    ASSUME NEW sc \in Scan, NEW sc2 \in Scan, NEW list, NEW list2, NEW ver, NEW ver2,
           NEW T, Sound(sc, list, ver), Touches(T, sc, sc2),
           Changed(T, list, ver, list2, ver2), sc2.deleted \/ Lowered(T, list, list2)
    PROVE  Sound(sc2, list2, ver2)
<1>1. /\ sc.found \in Seq([doc : Docs, version : Nat])
      /\ sc.offset \in Nat /\ sc.stable \subseteq Docs
  BY DEF Scan
<1>2. sc2.stable \subseteq ToSet(list2)
  BY <1>1 DEF Sound, Touches, Changed
<1>3. Cardinality(Names(sc2.found)) = Len(sc2.found)
  BY DEF Sound, Touches
<1>4. Current(sc2, ver2)
  <2>1. \A i \in DOMAIN sc.found : sc.found[i].doc \in sc.stable \ T =>
            sc.found[i].version = ver2[sc.found[i].doc]
    BY <1>1 DEF Sound, Current, Changed
  <2> QED BY <2>1 DEF Current, Touches
<1>5. ASSUME ~ sc2.deleted, NEW d \in sc2.stable \ Names(sc2.found)
      PROVE  Ahead(sc2, list2, d)
  <2>1. Ahead(sc, list, d) /\ d \in Docs \ T
    BY <1>1, <1>5 DEF Sound, Touches
  <2>2. \A k \in Nat : Below(list, d, k) => Below(list2, d, k)
    BY <1>5, <2>1 DEF Lowered
  <2>3. sc.offset + 1 \in Nat /\ sc.offset + Asked + 1 \in Nat
    BY <1>1, PageFits
  <2> QED BY <2>1, <2>2, <2>3 DEF Ahead, Touches
<1>6. Recent(sc2, ver2)
  BY <1>1 DEF Sound, Recent, Touches, Changed
<1> QED BY <1>2, <1>3, <1>4, <1>5, <1>6 DEF Sound

Added(found, d, n) == Append(found, [doc |-> d, version |-> n])

\* Reading a document that was collected before changes nothing; reading another one
\* adds it, in the version it has.
LEMMA CollectedOnce ==
    ASSUME NEW found \in Seq([doc : Docs, version : Nat]), NEW d \in Docs,
           NEW n \in Nat, d \notin Names(found),
           Cardinality(Names(found)) = Len(found)
    PROVE  /\ Names(Added(found, d, n)) = Names(found) \cup {d}
           /\ Cardinality(Names(Added(found, d, n))) = Len(Added(found, d, n))
           /\ \A i \in DOMAIN Added(found, d, n) :
                 \/ i \in DOMAIN found /\ Added(found, d, n)[i] = found[i]
                 \/ Added(found, d, n)[i] = [doc |-> d, version |-> n]
<1> DEFINE more == Added(found, d, n)
           new == [doc |-> d, version |-> n]
<1>1. new \in [doc : Docs, version : Nat] /\ new.doc = d
  OBVIOUS
<1>2. /\ Len(more) = Len(found) + 1 /\ DOMAIN more = 1 .. Len(found) + 1
      /\ \A i \in 1 .. Len(found) : more[i] = found[i]
      /\ more[Len(found) + 1] = new
      /\ Len(found) \in Nat /\ DOMAIN found = 1 .. Len(found)
  BY <1>1, AppendProperties, LenProperties DEF Added
<1> HIDE DEF new, more
<1>3. \A i \in DOMAIN more :
         \/ i \in DOMAIN found /\ more[i] = found[i]
         \/ more[i] = new
  <2> SUFFICES ASSUME NEW i \in DOMAIN more
               PROVE  \/ i \in DOMAIN found /\ more[i] = found[i]
                      \/ more[i] = new
    OBVIOUS
  <2>1. i \in 1 .. Len(found) \/ i = Len(found) + 1
    BY <1>2
  <2> QED BY <2>1, <1>2
<1>4. Names(more) = Names(found) \cup {d}
  <2>1. \A i \in DOMAIN found : i \in DOMAIN more /\ more[i] = found[i]
    BY <1>2
  <2>2. Len(found) + 1 \in DOMAIN more
    BY <1>2
  <2>3. Names(more) \subseteq Names(found) \cup {d}
    BY <1>1, <1>3 DEF Names
  <2>4. Names(found) \subseteq Names(more)
    BY <2>1 DEF Names
  <2>5. d \in Names(more)
    BY <1>1, <1>2, <2>2 DEF Names
  <2> QED BY <2>3, <2>4, <2>5
<1>5. Cardinality(Names(more)) = Len(more)
  <2>1. Cardinality(Names(found) \cup {d}) = Cardinality(Names(found)) + 1
    BY NamesFinite, FS_AddElement
  <2> QED BY <1>2, <1>4, <2>1
<1> QED BY <1>3, <1>4, <1>5 DEF new, more

LEMMA SoundInit == Init => IInv
<1> SUFFICES ASSUME Init PROVE IInv
  OBVIOUS
<1>1. Names(<<>>) = {} /\ Cardinality(Names(<<>>)) = Len(<<>>)
  BY FS_EmptySet, EmptySeq DEF Names
<1>2. \A s \in Scans : Sound(scan[s], order, version)
  BY <1>1 DEF Init, Idle, Sound, Current, Recent
<1> QED BY <1>2, ScanTypesInit DEF IInv

LEMMA SoundStart ==
    ASSUME IInv, NEW s \in Scans, Start(s)
    PROVE  Sound(scan'[s], order, version)
<1> DEFINE new == [Idle EXCEPT !.pc = "asking", !.stable = Existing]
<1>1. scan'[s] = new
  BY DEF Start, IInv, TypeOK
<1>2. /\ new.pc = "asking" /\ new.offset = 0 /\ new.found = <<>>
      /\ new.stable = ToSet(order)
  BY DEF Idle, Existing
<1> HIDE DEF new
<1>3. Names(<<>>) = {} /\ Cardinality(Names(<<>>)) = Len(<<>>) /\ DOMAIN <<>> = {}
  BY FS_EmptySet, EmptySeq DEF Names
<1>4. ASSUME NEW d \in ToSet(order) PROVE Ahead(new, order, d)
  <2>1. PICK i \in DOMAIN order : order[i] = d
    BY <1>4 DEF ToSet
  <2>2. i >= 0 + 1
    BY <2>1, LenProperties DEF IInv, TypeOK
  <2> QED BY <1>2, <2>1, <2>2 DEF Ahead, Below
<1> QED BY <1>1, <1>2, <1>3, <1>4 DEF Sound, Current, Recent

LEMMA SoundFailed ==
    ASSUME NEW sc \in Scan, NEW list, NEW ver, Sound(sc, list, ver)
    PROVE  Sound([sc EXCEPT !.pc = "failed"], list, ver)
<1> DEFINE lost == [sc EXCEPT !.pc = "failed"]
<1>1. /\ lost.pc = "failed" /\ lost.stable = sc.stable /\ lost.found = sc.found
      /\ lost.deleted = sc.deleted
  BY DEF Scan
<1> HIDE DEF lost
<1> QED BY <1>1 DEF Sound, Current, Recent, Ahead, lost

LEMMA SoundAsk ==
    ASSUME IInv, NEW s \in Scans, AskPage(s)
    PROVE  Sound(scan'[s], order, version)
<1>0. TypeOK
  BY DEF IInv
<1> DEFINE sc == scan[s]
           page == Page(sc.offset)
           new == [sc EXCEPT !.pc = "reading", !.rows = page, !.size = Len(page),
                             !.listed = version]
           lost == [sc EXCEPT !.pc = "failed"]
<1>1. sc \in Scan /\ Sound(sc, order, version) /\ sc.pc = "asking"
  BY DEF IInv, TypeOK, AskPage
<1>2. scan'[s] = new \/ scan'[s] = lost
  BY DEF AskPage, IInv, TypeOK
<1>3. Sound(lost, order, version)
  BY <1>1, SoundFailed
<1>8. /\ Len(page) \in Nat /\ Len(page) <= Asked
      /\ \A i \in DOMAIN order : sc.offset < i /\ i <= sc.offset + Asked =>
            \E j \in DOMAIN page : page[j] = order[i]
      /\ sc.offset + Asked < Len(order) => Len(page) = Asked
  <2>1. sc.offset \in Nat
    BY <1>1 DEF Scan
  <2> HIDE DEF sc
  <2> QED BY <1>0, <2>1, PageTypes
<1> HIDE DEF page
<1>5. /\ new.pc = "reading" /\ new.rows = page /\ new.size = Len(page)
      /\ new.offset = sc.offset /\ new.found = sc.found
      /\ new.stable = sc.stable /\ new.deleted = sc.deleted
      /\ new.listed = version /\ sc.offset \in Nat
  BY <1>1 DEF Scan
<1> HIDE DEF new, sc, lost
<1>6. ASSUME NEW d, Ahead(sc, order, d) PROVE Ahead(new, order, d)
  <2>1. PICK i \in DOMAIN order : i >= sc.offset + 1 /\ order[i] = d
    BY <1>1, <1>6 DEF Ahead, Below
  <2>2. DOMAIN order = 1 .. Len(order) /\ Len(order) \in Nat /\ Asked \in Nat
    BY LenProperties, PageFits DEF IInv, TypeOK
  <2>3. CASE i <= sc.offset + Asked
    <3>1. d \in ToSet(page)
      BY <1>8, <1>5, <2>1, <2>2, <2>3 DEF ToSet
    <3> QED BY <3>1, <1>5 DEF Ahead
  <2>4. CASE i > sc.offset + Asked
    <3>1. i >= sc.offset + Asked + 1 /\ sc.offset + Asked < Len(order)
      BY <1>5, <2>1, <2>2, <2>4
    <3>2. Len(page) = Asked
      BY <3>1, <1>8
    <3> QED BY <3>1, <3>2, <2>1, <1>5 DEF Ahead, Below
  <2> QED BY <2>1, <2>2, <2>3, <2>4, <1>5
<1>7. Sound(new, order, version)
  BY <1>1, <1>5, <1>6 DEF Sound, Current, Recent
<1> QED BY <1>2, <1>3, <1>7

LEMMA SoundRead ==
    ASSUME IInv, NEW s \in Scans, ReadRow(s)
    PROVE  Sound(scan'[s], order, version)
<1> DEFINE sc == scan[s]
           d == Head(sc.rows)
           lost == [sc EXCEPT !.pc = "failed"]
<1>1. sc \in Scan /\ Sound(sc, order, version) /\ sc.pc = "reading" /\ sc.rows # <<>>
  BY DEF IInv, TypeOK, ReadRow
<1>2. \/ \E m \in {sc.listed[d], version[d]} :
            scan'[s] = [sc EXCEPT !.rows = Tail(sc.rows), !.found = Collected(s, d, m)]
      \/ scan'[s] = lost
  BY DEF ReadRow, Take, IInv, TypeOK
<1>3. Sound(lost, order, version)
  BY <1>1, SoundFailed
<1> SUFFICES ASSUME NEW m \in {sc.listed[d], version[d]},
                    scan'[s] = [sc EXCEPT !.rows = Tail(sc.rows),
                                          !.found = Collected(s, d, m)]
             PROVE  Sound(scan'[s], order, version)
  BY <1>2, <1>3
<1> DEFINE new == [sc EXCEPT !.rows = Tail(sc.rows), !.found = Collected(s, d, m)]
<1>4. /\ new.pc = sc.pc /\ new.rows = Tail(sc.rows) /\ new.size = sc.size
      /\ new.offset = sc.offset /\ new.found = Collected(s, d, m)
      /\ new.stable = sc.stable /\ new.deleted = sc.deleted /\ new.listed = sc.listed
      /\ sc.rows \in Seq(Docs) /\ sc.found \in Seq([doc : Docs, version : Nat])
  BY <1>1 DEF Scan
<1>5. d \in Docs /\ m \in Nat /\ (d \in sc.stable => m = version[d])
  <2>1. d \in Docs
    BY <1>1, <1>4, HeadTailProperties
  <2>2. version[d] \in Nat /\ sc.listed[d] \in Nat
    BY <1>1, <2>1 DEF IInv, TypeOK, Scan
  <2>3. d \in sc.stable => sc.listed[d] = version[d]
    BY <1>1 DEF Sound, Recent
  <2> QED BY <2>1, <2>2, <2>3
<1>6. \A e \in ToSet(sc.rows) : e = d \/ e \in ToSet(Tail(sc.rows))
  <2> SUFFICES ASSUME NEW e \in ToSet(sc.rows), e # d PROVE e \in ToSet(Tail(sc.rows))
    OBVIOUS
  <2>1. PICK i \in DOMAIN sc.rows : sc.rows[i] = e
    BY DEF ToSet
  <2>2. /\ DOMAIN sc.rows = 1 .. Len(sc.rows) /\ Len(sc.rows) \in Nat
        /\ Tail(sc.rows) \in Seq(Docs) /\ Len(Tail(sc.rows)) = Len(sc.rows) - 1
        /\ \A j \in 1 .. Len(Tail(sc.rows)) : Tail(sc.rows)[j] = sc.rows[j + 1]
        /\ d = sc.rows[1]
    BY <1>1, <1>4, HeadTailProperties, LenProperties
  <2>3. DOMAIN Tail(sc.rows) = 1 .. Len(sc.rows) - 1
    BY <2>2, LenProperties
  <2>4. i # 1 /\ i - 1 \in 1 .. Len(Tail(sc.rows)) /\ (i - 1) + 1 = i
    BY <2>1, <2>2
  <2>5. i - 1 \in DOMAIN Tail(sc.rows) /\ Tail(sc.rows)[i - 1] = e
    BY <2>1, <2>2, <2>3, <2>4
  <2> QED BY <2>5 DEF ToSet
<1>7. /\ Names(new.found) = Names(sc.found) \cup {d}
      /\ Cardinality(Names(new.found)) = Len(new.found)
      /\ Current(new, version)
  <2>1. CASE d \in Names(sc.found)
    <3>1. new.found = sc.found
      BY <2>1, <1>4 DEF Collected
    <3> QED BY <3>1, <2>1, <1>1, <1>4 DEF Sound, Current
  <2>2. CASE d \notin Names(sc.found)
    <3>1. new.found = Added(sc.found, d, m)
      BY <2>2, <1>4 DEF Collected, Added
    <3>2. Cardinality(Names(sc.found)) = Len(sc.found)
      BY <1>1 DEF Sound
    <3> HIDE DEF sc, d, new
    <3>3. /\ Names(new.found) = Names(sc.found) \cup {d}
          /\ Cardinality(Names(new.found)) = Len(new.found)
          /\ \A i \in DOMAIN new.found :
                \/ i \in DOMAIN sc.found /\ new.found[i] = sc.found[i]
                \/ new.found[i] = [doc |-> d, version |-> m]
      <4>1. sc.found \in Seq([doc : Docs, version : Nat])
        BY <1>4
      <4>2. ASSUME NEW n \in Nat, NEW e \in Docs, e \notin Names(sc.found)
            PROVE  /\ Names(Added(sc.found, e, n)) = Names(sc.found) \cup {e}
                   /\ Cardinality(Names(Added(sc.found, e, n)))
                        = Len(Added(sc.found, e, n))
                   /\ \A i \in DOMAIN Added(sc.found, e, n) :
                         \/ /\ i \in DOMAIN sc.found
                            /\ Added(sc.found, e, n)[i] = sc.found[i]
                         \/ Added(sc.found, e, n)[i] = [doc |-> e, version |-> n]
        BY <4>1, <4>2, <3>2, CollectedOnce
      <4> QED BY <3>1, <2>2, <1>5, <4>2
    <3>4. Current(new, version)
      <4> SUFFICES ASSUME NEW i \in DOMAIN new.found, new.found[i].doc \in sc.stable
                   PROVE  new.found[i].version = version[new.found[i].doc]
        BY <1>4 DEF Current
      <4>1. CASE i \in DOMAIN sc.found /\ new.found[i] = sc.found[i]
        BY <4>1, <1>1 DEF Sound, Current
      <4>2. CASE new.found[i] = [doc |-> d, version |-> m]
        BY <4>2, <1>5
      <4> QED BY <4>1, <4>2, <3>3
    <3> QED BY <3>3, <3>4
  <2> QED BY <2>1, <2>2
<1> HIDE DEF new, sc, d, lost
<1>8. ASSUME NEW e, e \notin Names(new.found), Ahead(sc, order, e)
      PROVE  Ahead(new, order, e)
  BY <1>1, <1>4, <1>6, <1>7, <1>8 DEF Ahead
<1>9. Sound(new, order, version)
  BY <1>1, <1>4, <1>7, <1>8 DEF Sound, Recent
<1> QED BY <1>9 DEF new, sc, d

LEMMA SoundEnd ==
    ASSUME IInv, NEW s \in Scans, EndPage(s)
    PROVE  Sound(scan'[s], order, version)
<1> DEFINE sc == scan[s]
           last == [sc EXCEPT !.pc = "done"]
           more == [sc EXCEPT !.pc = "asking", !.offset = sc.offset + Asked]
<1>1. /\ sc \in Scan /\ Sound(sc, order, version)
      /\ sc.pc = "reading" /\ sc.rows = <<>>
  BY DEF IInv, TypeOK, EndPage
<1>2. \/ sc.size < Asked /\ scan'[s] = last
      \/ scan'[s] = more
  BY DEF EndPage, IInv, TypeOK
<1>3. /\ last.pc = "done" /\ last.found = sc.found /\ last.stable = sc.stable
      /\ last.deleted = sc.deleted
      /\ more.pc = "asking" /\ more.found = sc.found /\ more.stable = sc.stable
      /\ more.deleted = sc.deleted /\ more.offset = sc.offset + Asked
  BY <1>1 DEF Scan
<1> HIDE DEF sc, last, more
<1>4. ToSet(sc.rows) = {}
  BY <1>1 DEF ToSet
<1>5. ASSUME NEW d, Ahead(sc, order, d)
      PROVE  sc.size = Asked /\ Ahead(more, order, d)
  BY <1>1, <1>3, <1>4, <1>5 DEF Ahead
<1>6. ASSUME sc.size < Asked PROVE Sound(last, order, version)
  <2>1. sc.size # Asked
    BY <1>6, PageFits
  <2>2. ~ sc.deleted => sc.stable \ Names(sc.found) = {}
    BY <2>1, <1>1, <1>5 DEF Sound
  <2> QED BY <2>2, <1>1, <1>3 DEF Sound, Current, Recent
<1>7. Sound(more, order, version)
  BY <1>1, <1>3, <1>5 DEF Sound, Current, Recent
<1> QED BY <1>2, <1>6, <1>7

LEMMA SoundNext == IInv /\ [Next]_vars => IInv'
<1> SUFFICES ASSUME IInv, [Next]_vars PROVE IInv'
  OBVIOUS
<1>1. TypeOK /\ TypeOK'
  BY ScanTypesNext DEF IInv
<1>2. /\ order \in Seq(Docs) /\ order' \in Seq(Docs)
      /\ \A s \in Scans : /\ scan[s] \in Scan /\ scan'[s] \in Scan
                           /\ Sound(scan[s], order, version)
  BY <1>1 DEF IInv, TypeOK
<1>3. \A e \in Docs, list \in Seq(Docs) : e \in ToSet(list) <=> Below(list, e, 0)
  <2> SUFFICES ASSUME NEW e \in Docs, NEW list \in Seq(Docs)
               PROVE  e \in ToSet(list) <=> Below(list, e, 0)
    OBVIOUS
  <2>1. \A i \in DOMAIN list : i >= 0
    BY LenProperties
  <2> QED BY <2>1 DEF ToSet, Below
\* One scan steps and the rest of the state stays.
<1>4. ASSUME NEW s \in Scans, Sound(scan'[s], order, version),
             \A r \in Scans \ {s} : scan'[r] = scan[r],
             UNCHANGED <<order, version>>
      PROVE  IInv'
  <2>1. \A r \in Scans : Sound(scan'[r], order, version)
    BY <1>2, <1>4
  <2> QED BY <1>1, <1>4, <2>1 DEF IInv
<1>5. ASSUME NEW d \in Docs, Create(d) PROVE IInv'
  <2>1. Lowered({}, order, order')
    BY <1>1, <1>5, NewInFront DEF Lowered
  <2>2. scan' = scan /\ version' = version
    BY <1>5 DEF Create
  <2>3. Changed({}, order, version, order', version')
    BY <1>2, <1>3, <2>1, <2>2 DEF Changed, Lowered
  <2>4. \A s \in Scans : Touches({}, scan[s], scan'[s])
    BY <2>2 DEF Touches
  <2> QED BY <1>1, <1>2, <2>1, <2>3, <2>4, SoundElsewhere DEF IInv
<1>6. ASSUME NEW d \in Docs, Modify(d) PROVE IInv'
  <2>1. Lowered({d}, order, order')
    BY <1>1, <1>6, ModifiedInFront DEF Lowered
  <2>2. \A e \in Docs \ {d} : version'[e] = version[e]
    BY <1>1, <1>6 DEF Modify, TypeOK
  <2>3. Changed({d}, order, version, order', version')
    BY <1>2, <1>3, <2>1, <2>2 DEF Changed, Lowered
  <2>4. ASSUME NEW s \in Scans PROVE Touches({d}, scan[s], scan'[s])
    <3>1. scan'[s] = [scan[s] EXCEPT !.stable = @ \ {d}]
      BY <1>6 DEF Modify, Touched
    <3> QED BY <1>2, <3>1 DEF Scan, Touches
  <2> QED BY <1>1, <1>2, <2>1, <2>3, <2>4, SoundElsewhere DEF IInv
<1>7. ASSUME NEW d \in Docs, Delete(d) PROVE IInv'
  <2>1. \A e \in Docs \ {d} : version'[e] = version[e]
    BY <1>1, <1>7 DEF Delete, TypeOK
  <2>2. Changed({d}, order, version, order', version')
    BY <1>1, <1>7, <2>1, DeletedIsGone DEF Changed
  <2>3. ASSUME NEW s \in Scans
        PROVE  Touches({d}, scan[s], scan'[s]) /\ scan'[s].deleted
    <3>1. scan'[s] = [scan[s] EXCEPT !.stable = @ \ {d}, !.deleted = TRUE]
      BY <1>7 DEF Delete
    <3> QED BY <1>2, <3>1 DEF Scan, Touches
  <2> QED BY <1>1, <1>2, <2>2, <2>3, SoundElsewhere DEF IInv
<1>8. ASSUME NEW s \in Scans, Start(s) PROVE IInv'
  <2>1. (\A r \in Scans \ {s} : scan'[r] = scan[r]) /\ UNCHANGED <<order, version>>
    BY <1>1, <1>8 DEF Start, TypeOK
  <2> QED BY <1>4, <1>8, <2>1, SoundStart
<1>9. ASSUME NEW s \in Scans, AskPage(s) PROVE IInv'
  <2>1. (\A r \in Scans \ {s} : scan'[r] = scan[r]) /\ UNCHANGED <<order, version>>
    BY <1>1, <1>9 DEF AskPage, TypeOK
  <2> QED BY <1>4, <1>9, <2>1, SoundAsk
<1>10. ASSUME NEW s \in Scans, ReadRow(s) PROVE IInv'
  <2>1. (\A r \in Scans \ {s} : scan'[r] = scan[r]) /\ UNCHANGED <<order, version>>
    BY <1>1, <1>10 DEF ReadRow, Take, TypeOK
  <2> QED BY <1>4, <1>10, <2>1, SoundRead
<1>11. ASSUME NEW s \in Scans, EndPage(s) PROVE IInv'
  <2>1. (\A r \in Scans \ {s} : scan'[r] = scan[r]) /\ UNCHANGED <<order, version>>
    BY <1>1, <1>11 DEF EndPage, TypeOK
  <2> QED BY <1>4, <1>11, <2>1, SoundEnd
<1>12. CASE UNCHANGED vars
  BY <1>12, <1>1, <1>2 DEF vars, IInv
<1> QED BY <1>5, <1>6, <1>7, <1>8, <1>9, <1>10, <1>11, <1>12 DEF Next

LEMMA ScanInvariance == Spec => []IInv
BY SoundInit, SoundNext, PTL DEF Spec

-----------------------------------------------------------------------------
\* The list, the versions and the scans keep their types: no document is listed
\* twice, however it was moved.
THEOREM ScanTypes == Spec => []TypeOK
<1>1. IInv => TypeOK
  BY DEF IInv
<1> QED BY <1>1, ScanInvariance, PTL

\* A finished scan has every document once, every one that was left alone, unless
\* documents were deleted meanwhile, and in the version it has
\* (collectCustomerDeliveryNotes, collectSupplierPurchaseReceipts).
THEOREM ScansAreComplete == Spec => []ScanIsComplete
<1>1. IInv => ScanIsComplete
  <2> SUFFICES ASSUME IInv, NEW s \in Scans, scan[s].pc = "done"
               PROVE  /\ Cardinality(Names(scan[s].found)) = Len(scan[s].found)
                      /\ ~ scan[s].deleted => scan[s].stable \subseteq Names(scan[s].found)
                      /\ Current(scan[s], version)
    BY DEF ScanIsComplete, Current
  <2>1. Sound(scan[s], order, version)
    BY DEF IInv
  <2>2. \A d : ~ Ahead(scan[s], order, d)
    BY DEF Ahead
  <2> QED BY <2>1, <2>2 DEF Sound
<1> QED BY <1>1, ScanInvariance, PTL
=============================================================================
