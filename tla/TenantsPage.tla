---------------------------- MODULE TenantsPage ----------------------------
(***************************************************************************)
(* The tenants by their contracts: everything the page shows, counts and   *)
(* exports is computed from what it loaded once.                           *)
(***************************************************************************)
EXTENDS WebPage

\* A contract by its last day, its latest payment, None when there is none, and
\* whether the documents are there.
Contracts ==
    {[days |-> days, payment |-> payment, docs |-> docs] :
        days \in {"past", "month", "later"}, payment \in {None, "unpaid", "pending", "paid"}, docs \in BOOLEAN}

Tabs == {"all", "active", "expiring", "unpaid", "missingDocs"}

InitialUi ==
    [list |-> <<>>, wait |-> {"load"}, error |-> FALSE, open |-> {}, tab |-> "all", search |-> Rows,
     sort |-> "newest", view |-> "list", size |-> 1, page |-> 1, exported |-> {}, went |-> None]

Init ==
    /\ ui = InitialUi
    /\ calls = Ask({}, <<"contracts">>, "load")
    /\ db \in {[r \in Rows |-> IF r = 1 THEN c ELSE [days |-> "month", payment |-> None, docs |-> TRUE]] :
                c \in Contracts}
    /\ clicks = 0 /\ clean = TRUE

\* A failure is not shown: the page looks as if there were no tenants.
TenantsLoaded ==
    \E c \in Answered({"contracts"}) :
        Uses(c, IF c.ans = Failed THEN ui ELSE [ui EXCEPT !.list = c.ans.db])

\* The status of the contract plays no part, only its last day; without a
\* payment a tenant counts as paid.
InTab(tenant, tab) ==
    CASE tab = "active" -> tenant.days # "past"
      [] tab = "expiring" -> tenant.days = "month"
      [] tab = "unpaid" -> tenant.payment = "unpaid"
      [] tab = "missingDocs" -> ~tenant.docs
      [] OTHER -> TRUE

Filtered == {r \in DOMAIN ui.list \intersect ui.search : InTab(ui.list[r], ui.tab)}

\* The contract that ends first, or else the latest, comes first.
Rank(r) == [past |-> 1, month |-> 2, later |-> 3][ui.list[r].days]

Before(a, b) ==
    IF ui.sort = "closest" /\ Rank(a) # Rank(b) THEN Rank(a) < Rank(b) ELSE a >= b

TotalPages == (Cardinality(Filtered) + ui.size - 1) \div ui.size

OnPage ==
    {r \in Filtered : LET place == Cardinality({q \in Filtered : Before(q, r)})
                      IN  place > (ui.page - 1) * ui.size /\ place <= ui.page * ui.size}

\* Variant: the page of the table stays what it was.
ChooseOnPage(u) == Show(u)

\* Whatever is chosen, it starts at the first page.
Choose(u) == Show([u EXCEPT !.page = 1])

SetTab(tab) == ui.tab # tab /\ Choose([ui EXCEPT !.tab = tab])

SetSearch(found) == ui.search # found /\ Choose([ui EXCEPT !.search = found])

SetSort(sort) == ui.sort # sort /\ Choose([ui EXCEPT !.sort = sort])

SetItemsPerPage(size) == ui.size # size /\ Choose([ui EXCEPT !.size = size])

SetView(view) == ui.view # view /\ Show([ui EXCEPT !.view = view])

SetPage(page) ==
    /\ \/ page = ui.page - 1 /\ page >= 1 /\ Filtered # {}
       \/ page \in 1 .. (IF TotalPages = 0 THEN 1 ELSE TotalPages)
    /\ Show([ui EXCEPT !.page = page])

ExportTenants == Filtered # {} /\ Show([ui EXCEPT !.exported = Filtered])

OpenTenant(r) == ~Loading /\ r \in OnPage /\ Show([ui EXCEPT !.went = r])

Serve == ServeAny(LAMBDA c : {db})

Remount ==
    /\ MayCall
    /\ ui' = InitialUi
    /\ calls' = Ask(Unmounted(calls), <<"contracts">>, "load")
    /\ UNCHANGED db

User ==
    \/ \E t \in Tabs : SetTab(t)
    \/ \E s \in {{1}, Rows} : SetSearch(s)
    \/ \E s \in {"newest", "closest"} : SetSort(s)
    \/ \E v \in {"list", "grid"} : SetView(v)
    \/ \E n \in 1 .. 2 : SetItemsPerPage(n)
    \/ \E p \in 1 .. 2 : SetPage(p)
    \/ ExportTenants
    \/ \E r \in Rows : OpenTenant(r)
    \/ Remount

Deliver == TenantsLoaded

Next == Step(User, Serve, Deliver, {}, {})
Spec == Init /\ [][Next]_pageVars

\* There is somebody on the page on show whenever the filters find anybody.
Current == Filtered # {} => OnPage # {}
=============================================================================
