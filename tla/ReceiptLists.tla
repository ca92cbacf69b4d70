---------------------------- MODULE ReceiptLists ----------------------------
(***************************************************************************)
(* The receipts in the lists, summaries and histories a user is shown.     *)
(* Each is computed from the documents when it is asked for, either over   *)
(* HTTP (Http...) or by the direct database reader (Db...), and each has   *)
(* filters of its own.  A list is the set of its receipts, a summary the   *)
(* number of receipts of each kind.  Sorting and paging are left out.      *)
(***************************************************************************)
EXTENDS PurchaseReceipts, FiniteSetsExt

Known == {r \in Receipts : doc[r].state # "none"}

\* What a set of receipts is shown as, on either path.
HttpRecords(set) == [r \in set |-> HttpRecord(doc[r])]
DbRecords(set) == [r \in set |-> DbRecord(doc[r])]

Count(records) ==
    [k \in Kinds |-> Cardinality({r \in DOMAIN records : Matches(records[r], k)})]

\* How many receipts a summary counts.
Overall(summary) == MapThenSumSet(LAMBDA k : summary[k], Kinds)

\* A breakdown's totals.  It groups by item or by supplier; this is one group.
Totals(records) ==
    LET Total(F(_)) == MapThenSumSet(LAMBDA r : F(records[r]), DOMAIN records)
    IN  [receipts |-> Cardinality(DOMAIN records),
         sent     |-> Total(LAMBDA rec : rec.sent),
         accepted |-> Total(LAMBDA rec : rec.accepted),
         returned |-> Total(LAMBDA rec : MaxOf(rec.sent - rec.accepted, 0))]

-----------------------------------------------------------------------------
(* Over HTTP: the supplier *)

HttpSupplierDetails(kind) == {r \in Known : Matches(HttpRecord(doc[r]), kind)}

HttpSupplierBreakdown(kind) ==
    Totals(HttpRecords({r \in Known : Matches(HttpRecord(doc[r]), kind)}))

HttpSupplierSummary == Count(HttpRecords(Known))

\* A record needs the scan of its comments when it is returned or has a note.
NeedsScan(d) == Matches(HttpRecord(d), "returned") \/ HasNote(d)
                \/ HttpEvent(d) # "none" \/ d.remarks.tag = "rejected"

\* Every receipt, and whether its note says that the supplier acknowledged it.
HttpSupplierHistory ==
    {<<r, doc[r].remarks.acked \/ (r \in heard /\ NeedsScan(doc[r]))>> : r \in Known}

-----------------------------------------------------------------------------
(* Over HTTP: Werka *)

ForWerka == {r \in Known : ~ Stale(doc[r]) /\ HttpEvent(doc[r]) = "none"}

HttpWerkaDetails_HidesNothing(kind) ==
    {r \in Known : HttpEvent(doc[r]) = "none" /\ Matches(HttpRecord(doc[r]), kind)}

HttpWerkaDetails(kind) == {r \in ForWerka : Matches(HttpRecord(doc[r]), kind)}

HttpWerkaBreakdown(kind) ==
    Totals(HttpRecords({r \in ForWerka : Matches(HttpRecord(doc[r]), kind)}))

HttpWerkaSummary == Count(HttpRecords(ForWerka))

\* The home page's list also has the receipts the supplier is asked about.
HttpWerkaPending ==
    {r \in Known : /\ doc[r].state = "draft" /\ ~ Stale(doc[r])
                   /\ Matches(HttpRecord(doc[r]), "pending")}

\* Records, and events for the suppliers' acknowledgements.
HttpWerkaHistory ==
    LET shown == {r \in Known : HttpEvent(doc[r]) # "unannounced_pending"}
    IN  {<<r, "record">> : r \in shown}
        \cup {<<r, "ack">> : r \in {x \in shown \cap heard : NeedsScan(doc[x])}}

-----------------------------------------------------------------------------
(* By the database reader *)

DbWerkaSummary == Count(DbRecords({r \in Known : DbIncluded(doc[r])}))

DbWerkaHome ==
    [summary |-> Count(DbRecords({r \in Known : DbIncluded(doc[r])})),
     pending |-> {r \in Known : DbIncluded(doc[r]) /\ Matches(DbRecord(doc[r]), "pending")}]

DbWerkaPending ==
    {r \in Known : /\ doc[r].state = "draft" /\ DbIncluded(doc[r])
                   /\ Matches(DbRecord(doc[r]), "pending")}

\* Unlike the summary these two do not ask whether a receipt is included.
DbWerkaDetails(kind) == {r \in Known : Matches(DbRecord(doc[r]), kind)}

DbWerkaBreakdown(kind) == Totals(DbRecords(DbWerkaDetails(kind)))

\* The supplier's counts are over all receipts, the history over the included.
DbSupplierSummary == Count(DbRecords(Known))

DbSupplierHistory == {r \in Known : DbIncluded(doc[r])}

\* An event for every acknowledgement, whatever became of the receipt.
DbWerkaHistory ==
    {<<r, "record">> : r \in Known} \cup {<<r, "ack">> : r \in heard \cap Known}

\* The archive of received and of returned receipts.
DbWerkaArchive(kind) ==
    {r \in Known :
        /\ DbIncluded(doc[r])
        /\ DbStatus(doc[r]) \in (IF kind = "received" THEN {"accepted", "partial"}
                                 ELSE {"partial", "rejected", "cancelled"})}

-----------------------------------------------------------------------------
(* Properties *)

\* Lists, breakdowns and summaries are computed apart and agree.  On both paths
\* a supplier's counts cover every receipt once.  Over HTTP Werka's counts are
\* those of the lists behind them and of their totals; the home page shows those
\* and what the supplier is asked about.  The reader's home page agrees with its
\* summary and its pending list, and no receipt Werka could decide on over HTTP
\* is missing from that list.
ListsAgree ==
    /\ \A summary \in {HttpSupplierSummary, DbSupplierSummary} :
          Overall(summary) = Cardinality(Known)
    /\ \A k \in Kinds :
          /\ HttpSupplierSummary[k] = Cardinality(HttpSupplierDetails(k))
          /\ HttpSupplierSummary[k] = HttpSupplierBreakdown(k).receipts
          /\ HttpWerkaSummary[k] = Cardinality(HttpWerkaDetails(k))
          /\ HttpWerkaSummary[k] = HttpWerkaBreakdown(k).receipts
          /\ HttpWerkaDetails(k) \subseteq HttpSupplierDetails(k)
    /\ HttpWerkaPending \ HttpWerkaDetails("pending")
          = {r \in Known : HttpEvent(doc[r]) = "unannounced_pending" /\ ~ Stale(doc[r])}
    /\ DbWerkaHome.summary = DbWerkaSummary
    /\ DbWerkaHome.pending = DbWerkaPending
    /\ HttpWerkaDetails("pending") \subseteq DbWerkaPending
=============================================================================
