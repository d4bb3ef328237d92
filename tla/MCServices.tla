------------------------------ MODULE MCServices ------------------------------
(* Small instances of the services for TLC: what rows there are at first.  *)
EXTENDS Services

Symmetry == Permutations(Callers)

Rws(rows) == [i \in Ids |-> IF i \in DOMAIN rows THEN rows[i] ELSE NoRow]

\* Nothing; a quotation that was sent; one that became a fulfilled order.
Item(quantity, unitPrice, discount, taxRate) ==
    [quantity |-> quantity, unitPrice |-> unitPrice, discount |-> discount, taxRate |-> taxRate,
     key |-> 0]
MCItems == {Item(2, 7, 10, 20)}
MCForms ==
    {[lines |-> <<Item(2, 7, 10, 20)>>, discountType |-> "null", discountValue |-> 0, shipping |-> 3],
     [lines |-> <<Item(1, 5, 0, 0)>>, discountType |-> "FIXED_AMOUNT",
      discountValue |-> 9, shipping |-> 0]}
Quotation(form, status) == [Document("quotation", form, 0) EXCEPT !.status = status, !.number = 1]
Order(form, status) ==
    [Document("order", Undiscounted(form), 1) EXCEPT !.status = status, !.number = 1]
MCStarts ==
    {Rws(<<>>)} \cup {Rws(<<Quotation(f, "SENT")>>) : f \in MCForms}
    \cup {Rws(<<Quotation(f, "ACCEPTED"), Order(f, "PROCESSING")>>) : f \in MCForms}

Deal1 ==
    [kind |-> "deal", deleted |-> FALSE, archived |-> FALSE, status |-> "OPEN", pipeline |-> 1,
     stage |-> 2, chance |-> 0, owner |-> 1, value |-> 0]
MCCrmStarts ==
    {Rws(<<Lead(1), Company>>),
     Rws(<<Contact(1, TRUE), Contact(1, FALSE), Company>>),
     Rws(<<Pipeline, Stage(1, 0), Stage(1, 1), Deal1>>),
     Rws(<<Activity(1)>>)}

L(account, d, k) == [account |-> account, debit |-> d, credit |-> k]
MCVouchers == {<<L(1, 5, 0), L(2, 0, 5)>>, <<L(2, 3, 0), L(1, 0, 2), L(1, 0, 1)>>, <<L(1, 4, 0)>>}
MCBookStarts ==
    {Rws(<<Account("ASSET", 0, TRUE), Account("EXPENSE", 1, FALSE)>>),
     Rws(<<Account("ASSET", 0, FALSE), Account("EQUITY", 0, FALSE), Year(1, 1),
           [Entry(<<L(1, 5, 0), L(2, 0, 5)>>, 1) EXCEPT !.number = 1, !.status = "POSTED"]>>)}

MCRegisterStarts ==
    {Rws(<<Product(1, 2), Category(1, 0), Unit(1), Vendor(1)>>),
     Rws(<<Warehouse(1, TRUE)>>), Rws(<<Employee(1, 0), Department(1)>>)}

MCActions == {<<>>, <<"AUDIT", "none">>, <<"EMAIL", "AUDIT">>}
MCWorkflowStarts ==
    {Rws(<<Definition(1, 1, <<"EMAIL", "AUDIT">>, TRUE), Definition(2, 1, <<"AUDIT">>, FALSE)>>)}

MCPermissions == {<<"lead", "read">>, <<"lead", "*">>}
Registered == <<Organization(1), Role(1, "owner", TRUE, TRUE, {}),
                Role(1, "manager", TRUE, FALSE, {<<"lead", "*">>}), User(1, 1), UserRole(4, 2)>>
MCAccessStarts ==
    {Rws(<<>>),
     Rws(Registered \o <<User(1, 2), Role(1, "x", FALSE, FALSE, Asked(Reading)), UserRole(6, 7)>>),
     Rws(Registered \o <<Session(4), Token(6)>>)}

MCSubscriptionStarts ==
    {Rws(<<Tenant(1, "PRO"), Plan("starter"), Plan("pro"),
           [Subscription(1, 3) EXCEPT !.status = "ACTIVE"]>>),
     Rws(<<Tenant(1, "FREE"), Plan("starter"),
           [Subscription(1, 2) EXCEPT !.status = "GRACE_PERIOD"], Feature(1), PlanFeature(2, 4, 2)>>),
     Rws(<<Tenant(1, "FREE"), Plan("starter")>>)}

MCBillingStarts ==
    {Rws(<<>>), Rws(<<Bill(1), Bill(2)>>), Rws(<<Coupon(1, 1), Payment(2, "SUCCEEDED")>>)}
===============================================================================
