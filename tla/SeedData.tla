------------------------------ MODULE SeedData ------------------------------
(***************************************************************************)
(* The business rows that every start of the system seeds (seed.ts and     *)
(* seed-data.ts; the policy's rows are RbacCatalog's).  A table is a       *)
(* function from the key its upsert conflicts on to a row; a row is a      *)
(* function from columns.  An upsert overwrites the columns it gives and   *)
(* keeps the others; an insert with orIgnore keeps rows that are there.    *)
(* Texts, dates and the parts of a name are left out.                      *)
(***************************************************************************)
EXTENDS Integers

R == INSTANCE Receipt

Keys(rows) == DOMAIN rows

\* One row over another: what is given wins.
Overwrite(new, old) ==
    [c \in DOMAIN new \cup DOMAIN old |-> IF c \in DOMAIN new THEN new[c] ELSE old[c]]

Upsert(rows, table) ==
    [k \in Keys(rows) \cup Keys(table) |->
        IF k \notin Keys(rows) THEN table[k]
        ELSE IF k \notin Keys(table) THEN rows[k] ELSE Overwrite(rows[k], table[k])]

InsertOrIgnore(rows, table) == Overwrite(table, rows)

-----------------------------------------------------------------------------
(* The rows *)

UsersSeed == [u \in {"admin", "salesman", "opsman", "compliance", "crm"} |-> [email |-> u]]

CustomersSeed == [c \in {"agostino", "mario", "philip"} |-> [active |-> TRUE]]

\* Prices in cents.
ProductsSeed ==
    [p \in {"alpha", "beta", "gamma", "delta"} |->
       CASE p = "alpha" -> [price |-> 20000]
         [] p = "beta"  -> [price |-> 15000]
         [] p = "gamma" -> [price |-> 5000]
         [] p = "delta" -> [price |-> 1500]]

SopsSeed == [s \in {"replacement", "refund", "repair"} |-> [active |-> TRUE]]

DetailsSeed == [d \in Keys(SopsSeed) \X {1} |-> [sop |-> d[1], author |-> "compliance"]]

\* Discounts in hundredths of a percent, totals in cents.
SaleRow(customer, discount, paid, total) ==
    [customer |-> customer, discount |-> discount, paid |-> paid, total |-> total]

SalesSeed ==
    [s \in {"sale-1", "sale-2", "sale-3", "sale-4"} |->
       CASE s = "sale-1" -> SaleRow("agostino", 1000, TRUE, 20700)
         [] s = "sale-2" -> SaleRow("mario", 0, TRUE, 20000)
         [] s = "sale-3" -> SaleRow("philip", 500, FALSE, 13775)
         [] s = "sale-4" -> SaleRow("agostino", 0, TRUE, 15000)]

SoldSeed ==
    [i \in {<<"sale-1", "alpha">>, <<"sale-1", "delta">>, <<"sale-2", "beta">>,
          <<"sale-2", "gamma">>, <<"sale-3", "gamma">>, <<"sale-3", "delta">>,
          <<"sale-4", "beta">>} |->
       CASE i = <<"sale-1", "alpha">> -> [quantity |-> 1]
         [] i = <<"sale-1", "delta">> -> [quantity |-> 2]
         [] i = <<"sale-2", "beta">>  -> [quantity |-> 1]
         [] i = <<"sale-2", "gamma">> -> [quantity |-> 1]
         [] i = <<"sale-3", "gamma">> -> [quantity |-> 2]
         [] i = <<"sale-3", "delta">> -> [quantity |-> 3]
         [] i = <<"sale-4", "beta">>  -> [quantity |-> 1]]

IssueRow(sale, status) == [sale |-> sale, status |-> status]

IssuesSeed ==
    [i \in {"cracked", "suction", "late-refund"} |->
       CASE i = "cracked"     -> IssueRow("sale-2", "completed")
         [] i = "suction"     -> IssueRow("sale-3", "in_assistance")
         [] i = "late-refund" -> IssueRow("sale-1", "rejected")]

ActionRow(issue, owner, status) == [issue |-> issue, owner |-> owner, status |-> status]

ActionsSeed ==
    [a \in {"validate", "ship", "notify", "collect", "assess", "arrange",
          "review", "communicate"} |->
       CASE a = "validate"    -> ActionRow("cracked", "crm", "completed")
         [] a = "ship"        -> ActionRow("cracked", "opsman", "completed")
         [] a = "notify"      -> ActionRow("cracked", "crm", "completed")
         [] a = "collect"     -> ActionRow("suction", "crm", "completed")
         [] a = "assess"      -> ActionRow("suction", "opsman", "in_progress")
         [] a = "arrange"     -> ActionRow("suction", "opsman", "pending")
         [] a = "review"      -> ActionRow("late-refund", "crm", "completed")
         [] a = "communicate" -> ActionRow("late-refund", "crm", "rejected")]

DependsSeed ==
    [d \in {<<"ship", "validate">>, <<"notify", "ship">>, <<"assess", "collect">>,
            <<"arrange", "assess">>, <<"communicate", "review">>} |->
        [action |-> d[1], on |-> d[2]]]

\* Every action but the last to come is commented by its owner.
CommentsSeed ==
    [a \in Keys(ActionsSeed) \ {"arrange"} |-> [action |-> a, user |-> ActionsSeed[a].owner]]

ConversationsSeed == [u \in {"crm", "salesman", "admin"} |-> [user |-> u]]

MessagesSeed ==
    [m \in Keys(ConversationsSeed) \X (0..2) |->
        [conversation |-> m[1], role |-> <<"system", "user", "assistant">>[m[2] + 1]]]

-----------------------------------------------------------------------------
(* The seeding, one operator per function of seed.ts *)

SeedUsers(t)     == [t EXCEPT !.users = Upsert(UsersSeed, @)]
SeedCustomers(t) == [t EXCEPT !.customers = Upsert(CustomersSeed, @)]
SeedProducts(t)  == [t EXCEPT !.products = Upsert(ProductsSeed, @)]

SeedSops(t) == [t EXCEPT !.sops = Upsert(SopsSeed, @), !.details = Upsert(DetailsSeed, @)]

\* assertSaleTotal, at the prices the table holds now.
SaleTotal(sale, price) ==
    LET subtotal == R!Subtotal([p \in {p \in Keys(price) : <<sale, p>> \in Keys(SoldSeed)} |->
                                  SoldSeed[<<sale, p>>].quantity], price)
    IN  subtotal - (subtotal * SalesSeed[sale].discount + R!Whole \div 2) \div R!Whole

TotalsAgree(t) ==
    \A s \in Keys(SalesSeed) :
        SaleTotal(s, [p \in Keys(t.products) |-> t.products[p].price]) = SalesSeed[s].total

SeedSales(t) ==
    [t EXCEPT !.sales = Upsert(SalesSeed, @), !.sold = InsertOrIgnore(SoldSeed, @)]

SeedCustomerIssues(t) == [t EXCEPT !.issues = Upsert(IssuesSeed, @)]

SeedIssueActions(t) ==
    [t EXCEPT !.actions = Upsert(ActionsSeed, @), !.depends = InsertOrIgnore(DependsSeed, @)]

SeedActionComments(t) == [t EXCEPT !.comments = Upsert(CommentsSeed, @)]

SeedConversations(t) ==
    [t EXCEPT !.conversations = Upsert(ConversationsSeed, @), !.messages = Upsert(MessagesSeed, @)]

\* The whole transaction, in its order.
SeedBusiness(t) ==
    SeedConversations(SeedActionComments(SeedIssueActions(SeedCustomerIssues(SeedSales(
        SeedSops(SeedProducts(SeedCustomers(SeedUsers(t)))))))))

Tables == {"users", "customers", "products", "sops", "details", "sales", "sold", "issues",
           "actions", "depends", "comments", "conversations", "messages"}

Empty == [x \in Tables |-> <<>>]

-----------------------------------------------------------------------------
(* What a seed must leave behind *)

\* Foreign keys between the business tables.
Points(t, from, column, to) == \A k \in Keys(t[from]) : t[from][k][column] \in Keys(t[to])

References(t) ==
    /\ Points(t, "details", "sop", "sops") /\ Points(t, "details", "author", "users")
    /\ Points(t, "sales", "customer", "customers")
    /\ \A k \in Keys(t.sold) : k[1] \in Keys(t.sales) /\ k[2] \in Keys(t.products)
    /\ Points(t, "issues", "sale", "sales")
    /\ Points(t, "actions", "issue", "issues") /\ Points(t, "actions", "owner", "users")
    /\ Points(t, "depends", "action", "actions") /\ Points(t, "depends", "on", "actions")
    /\ Points(t, "comments", "action", "actions") /\ Points(t, "comments", "user", "users")
    /\ Points(t, "conversations", "user", "users")
    /\ Points(t, "messages", "conversation", "conversations")

\* A dependency is within one issue and none is of itself.
DependenciesAreLocal(t) ==
    \A d \in Keys(t.depends) :
        t.depends[d].action # t.depends[d].on /\
        t.actions[t.depends[d].action].issue = t.actions[t.depends[d].on].issue

=============================================================================
