---------------------------- MODULE ShoppingCart ----------------------------
(***************************************************************************)
(* The orders of one user, from the cart to the refund, with the           *)
(* enrolments they pay for.                                                *)
(*                                                                         *)
(* Every view runs in a transaction (TransactionMiddleware): it reads a    *)
(* snapshot of the database when it begins and its writes become visible   *)
(* when it commits.  A row is saved as a whole, from the copy in memory.   *)
(* purchase_item commits on its own, and with it everything the request    *)
(* has written before.  Orders of different users share nothing.           *)
(*                                                                         *)
(* Source: lms/djangoapps/shoppingcart/models.py, views.py,                *)
(* processors/CyberSource.py; common/djangoapps/student/models.py;         *)
(* lms/djangoapps/verify_student/views.py (create_order).                  *)
(***************************************************************************)
EXTENDS Integers, FiniteSets, FiniteSetsExt

CONSTANTS
  Courses,
  VerifiedCourses,  \* courses that offer a verified certificate
  MaxOrders,        \* bound: order ids, in the order in which they are given out
  MaxItems,         \* bound: item ids
  Handlers,         \* web workers that serve requests of this user
  RegistrationPrice, CertificatePrice,  \* unit_cost of the two kinds of items, by course
  MaxRequests,      \* bound: requests of the user
  MaxCharges,       \* bound: payments the processor accepts
  MaxPosts,         \* bound: posts of the processor, repeated ones included
  MaxFailures       \* bound: callbacks that fail

ASSUME CourseAssumption ==
  VerifiedCourses \subseteq Courses /\ IsFiniteSet(Courses) /\ Courses # {}
ASSUME PriceAssumption ==
  /\ RegistrationPrice \in [Courses -> Nat \ {0}]
  /\ CertificatePrice \in [Courses -> Nat \ {0}]
ASSUME BoundAssumption ==
  /\ MaxOrders \in Nat /\ MaxItems \in Nat
  /\ MaxRequests \in Nat /\ MaxCharges \in Nat /\ MaxPosts \in Nat /\ MaxFailures \in Nat

VARIABLES
  orders,      \* status of each order, "none" before it exists
  items,       \* the items: order, course, kind and status ("none", "deleted" without a row)
  enrollment,  \* the CourseEnrollment of each course: active, mode
  offered,     \* courses whose verified mode has not expired
  forms,       \* signed forms that were shown: order, amount
  charges,     \* what the processor has charged: id, order, amount
  req,         \* the request each handler is serving, with what it has read
  raced,       \* history: a post and a request of the user were served at the same time
  fulfilled,   \* history: how often purchase_item was committed for an item
  left,        \* history: courses unenrolled from since an item for them was fulfilled
  used         \* how much of each bound is used up

vars == <<orders, items, enrollment, offered, forms, charges, req, raced, fulfilled, left, used>>
dbVars == <<orders, items, enrollment>>

OrderIds == 1..MaxOrders
ItemIds  == 1..MaxItems
Kinds    == {"registration", "certificate"}
Idle     == [op |-> "idle"]

-----------------------------------------------------------------------------
Price(i) == IF items[i].kind = "certificate" THEN CertificatePrice[items[i].course]
                                             ELSE RegistrationPrice[items[i].course]

SumOfPrices(S) == MapThenSumSet(Price, S)

\* orderitem_set
ItemsOf(o) == {i \in ItemIds : items[i].order = o /\ items[i].status \notin {"none", "deleted"}}

\* total_cost: the items that have the status of the order.
TotalCost(o) == SumOfPrices({i \in ItemsOf(o) : items[i].status = orders[o]})

Carts == {o \in OrderIds : orders[o] = "cart"}

\* get_cart_for_user: the newest cart; 0 stands for one to be created.
CartForUser == IF Carts = {} THEN 0 ELSE Max(Carts)

FreeOrders == {o \in OrderIds : orders[o] = "none"}
FreeItems  == {i \in ItemIds : items[i].status = "none"}

\* The order a request writes to, once a cart to be created has got its id.
WrittenOrder(o) == IF o = 0 THEN Min(FreeOrders) ELSE o

Init ==
  /\ orders = [o \in OrderIds |-> "none"]
  /\ items \in [ItemIds -> {[order |-> 0, course |-> c, kind |-> "registration", status |-> "none"]
                              : c \in {CHOOSE c \in Courses : TRUE}}]
  /\ enrollment = [c \in Courses |-> [active |-> FALSE, mode |-> "honor"]]
  /\ offered = VerifiedCourses
  /\ forms = {} /\ charges = {}
  /\ req = [h \in Handlers |-> Idle]
  /\ raced = FALSE
  /\ fulfilled = [i \in ItemIds |-> 0]
  /\ left = {}
  /\ used = [requests |-> 0, posts |-> 0, failures |-> 0]

-----------------------------------------------------------------------------
(* Beginning and ending a request.                                         *)

Purchasing(r) == r.op \in {"purchase", "between"}

\* A post of the processor and a request of the user are served at the same time.
Overlapping(h, r) == \E g \in Handlers \ {h} : req[g] # Idle /\ Purchasing(req[g]) # Purchasing(r)

Begin(h, r) ==
  /\ req[h] = Idle
  /\ req' = [req EXCEPT ![h] = r]
  /\ raced' = (raced \/ Overlapping(h, r))
  /\ UNCHANGED <<orders, items, enrollment, offered, forms, charges, fulfilled, left>>

BeginRequest(h, r) ==
  /\ used.requests < MaxRequests
  /\ used' = [used EXCEPT !.requests = @ + 1]
  /\ Begin(h, r)

End(h) ==
  /\ req' = [req EXCEPT ![h] = Idle]
  /\ UNCHANGED <<offered, charges, raced, used>>

-----------------------------------------------------------------------------
(* The cart.                                                               *)

\* add_course_to_cart: contained_in_order fails on a cart with a certificate, and
\* refuses a course that is in the cart already.
BeginAddCourse(h, c) ==
  /\ CartForUser # 0 =>
       \A i \in ItemsOf(CartForUser) : items[i].kind = "registration" /\ items[i].course # c
  /\ ~ enrollment[c].active
  /\ BeginRequest(h, [op |-> "add", order |-> CartForUser, course |-> c])

\* The order is saved as it was read: as a cart.
AddCourse(h) ==
  LET r == req[h]  o == WrittenOrder(r.order) IN
  /\ r.op = "add"
  /\ FreeItems # {} /\ (r.order = 0 => FreeOrders # {})
  /\ orders' = [orders EXCEPT ![o] = "cart"]
  /\ items' = [items EXCEPT ![Min(FreeItems)] =
                 [order |-> o, course |-> r.course, kind |-> "registration", status |-> "cart"]]
  /\ UNCHANGED <<enrollment, forms, fulfilled, left>>
  /\ End(h)

\* create_order of verify_student: clears the cart, then adds the certificate.
BeginCreateOrder(h, c) ==
  /\ c \in offered
  /\ BeginRequest(h, [op |-> "create", order |-> CartForUser, course |-> c,
                      cleared |-> IF CartForUser = 0 THEN {} ELSE ItemsOf(CartForUser)])

CreateOrder(h) ==
  LET r == req[h]
      o == WrittenOrder(r.order)
      new == Min(FreeItems)
  IN
  /\ r.op = "create"
  /\ FreeItems # {} /\ (r.order = 0 => FreeOrders # {})
  /\ orders' = [orders EXCEPT ![o] = "cart"]
  /\ items' = [i \in ItemIds |->
                 IF i = new THEN [order |-> o, course |-> r.course,
                                  kind |-> "certificate", status |-> "cart"]
                 ELSE IF i \in r.cleared THEN [items[i] EXCEPT !.status = "deleted"]
                 ELSE items[i]]
  /\ forms' = forms \cup {[order |-> o, amount |-> CertificatePrice[r.course]
        + SumOfPrices({i \in ItemsOf(o) \ r.cleared : items[i].status = "cart"})]}
  /\ UNCHANGED <<enrollment, fulfilled, left>>
  /\ End(h)

\* clear_cart
BeginClearCart(h) ==
  /\ BeginRequest(h, [op |-> "clear", order |-> CartForUser,
                      cleared |-> IF CartForUser = 0 THEN {} ELSE ItemsOf(CartForUser)])

ClearCart(h) ==
  LET r == req[h]  o == WrittenOrder(r.order) IN
  /\ r.op = "clear"
  /\ r.order = 0 => FreeOrders # {}
  /\ orders' = IF r.order = 0 THEN [orders EXCEPT ![o] = "cart"] ELSE orders
  /\ items' = [i \in ItemIds |-> IF i \in r.cleared
                                   THEN [items[i] EXCEPT !.status = "deleted"] ELSE items[i]]
  /\ UNCHANGED <<enrollment, forms, fulfilled, left>>
  /\ End(h)

\* show_cart signs a form for the total of the cart.
BeginShowCart(h) ==
  BeginRequest(h, [op |-> "show", order |-> CartForUser,
                   amount |-> IF CartForUser = 0 THEN 0 ELSE TotalCost(CartForUser)])

ShowCart(h) ==
  LET r == req[h]  o == WrittenOrder(r.order) IN
  /\ r.op = "show"
  /\ r.order = 0 => FreeOrders # {}
  /\ orders' = IF r.order = 0 THEN [orders EXCEPT ![o] = "cart"] ELSE orders
  /\ forms' = forms \cup {[order |-> o, amount |-> r.amount]}
  /\ UNCHANGED <<items, enrollment, fulfilled, left>>
  /\ End(h)

\* remove_item
BeginRemoveItem(h, i) ==
  /\ items[i].status = "cart"
  /\ BeginRequest(h, [op |-> "remove", item |-> i])

RemoveItem(h) ==
  /\ req[h].op = "remove"
  /\ items' = [items EXCEPT ![req[h].item].status = "deleted"]
  /\ UNCHANGED <<orders, enrollment, forms, fulfilled, left>>
  /\ End(h)

-----------------------------------------------------------------------------
(* Payment.                                                                *)

\* The processor charges the amount of a signed form.
Charge(f) ==
  /\ Cardinality(charges) < MaxCharges
  /\ f.amount > 0
  /\ charges' = charges \cup {[id |-> Cardinality(charges) + 1, order |-> f.order, amount |-> f.amount]}
  /\ UNCHANGED <<orders, items, enrollment, offered, forms, req, raced, fulfilled, left, used>>

\* postpay_callback, up to the status check of purchase: accepted when the amount
\* is the total cost of the order, ignored when the order is purchased.
AcceptedWhateverAmount(p) == orders[p.order] # "purchased"  \* mutant
Accepted(p) == p.amount = TotalCost(p.order) /\ orders[p.order] # "purchased"

BeginPurchase(h, p) ==
  /\ used.posts < MaxPosts
  /\ used' = [used EXCEPT !.posts = @ + 1]
  /\ Accepted(p)
  /\ Begin(h, [op |-> "purchase", order |-> p.order, rest |-> ItemsOf(p.order), first |-> TRUE,
               row |-> enrollment, kept |-> ItemsOf(p.order)])

\* Between two items a new transaction begins, and reads anew.
NextItem(h) ==
  /\ req[h].op = "between"
  /\ req' = [req EXCEPT ![h] = [@ EXCEPT !.op = "purchase", !.row = enrollment,
                                         !.kept = ItemsOf(req[h].order)]]
  /\ UNCHANGED <<orders, items, enrollment, offered, forms, charges, raced, fulfilled, left, used>>

\* Mutants: only the mode is changed; the mode is the kind of the item.
EnrolledIfActive(i) ==
  [active |-> enrollment[items[i].course].active,
   mode |-> IF items[i].kind = "certificate" THEN "verified" ELSE "honor"]
EnrolledAsKind(i) == [active |-> TRUE, mode |-> items[i].kind]

\* The enrolment as change_mode, activate or enroll leave it.
Enrolled(i) ==
  [active |-> TRUE, mode |-> IF items[i].kind = "certificate" THEN "verified" ELSE "honor"]

\* Mutant: the order is saved when all its items are purchased.
PurchaseItemFirst(h, i) ==
  LET r == req[h]
      c == items[i].course
  IN
  /\ r.op = "purchase"
  /\ i \in r.rest
  /\ orders' = IF r.rest = {i} THEN [orders EXCEPT ![r.order] = "purchased"] ELSE orders
  /\ enrollment' = [enrollment EXCEPT ![c] = Enrolled(i)]
  /\ items' = [items EXCEPT ![i].status = "purchased"]
  /\ fulfilled' = [fulfilled EXCEPT ![i] = @ + 1]
  /\ left' = left \ {c}
  /\ req' = [req EXCEPT ![h] = IF r.rest = {i} THEN Idle
                               ELSE [@ EXCEPT !.op = "between", !.rest = @ \ {i}, !.first = FALSE]]
  /\ UNCHANGED <<offered, forms, charges, raced, used>>

\* What is left of a post once an item is purchased: the order ends with its last one,
\* and nothing that was read is used again.
NothingRead == [x \in Courses |-> [active |-> FALSE, mode |-> "honor"]]
AfterItem(r, i) ==
  IF r.rest = {i} THEN Idle
  ELSE [r EXCEPT !.op = "between", !.rest = @ \ {i}, !.first = FALSE,
                 !.row = NothingRead, !.kept = {}]

\* The first item commits the status of the order as well.  The callback saves
\* the enrolment it has read if that differs from what was bought; save() of the
\* item inserts a row it does not find, but an update of a row deleted since
\* then does nothing.
PurchaseItem(h, i) ==
  LET r == req[h]
      c == items[i].course
  IN
  /\ r.op = "purchase"
  /\ i \in r.rest
  /\ orders' = IF r.first THEN [orders EXCEPT ![r.order] = "purchased"] ELSE orders
  /\ enrollment' = IF r.row[c] = Enrolled(i) THEN enrollment
                                             ELSE [enrollment EXCEPT ![c] = Enrolled(i)]
  /\ items' = IF items[i].status = "deleted" /\ i \in r.kept
                THEN items
                ELSE [items EXCEPT ![i].status = "purchased"]
  /\ fulfilled' = [fulfilled EXCEPT ![i] = @ + 1]
  /\ left' = left \ {c}
  /\ req' = [req EXCEPT ![h] = AfterItem(r, i)]
  /\ UNCHANGED <<offered, forms, charges, raced, used>>

\* Mutant: the order was saved in a transaction of its own.
CallbackFailsAfterSave(h) ==
  /\ req[h].op = "purchase"
  /\ \E i \in req[h].rest : items[i].kind = "registration"
  /\ used.failures < MaxFailures
  /\ used' = [used EXCEPT !.failures = @ + 1]
  /\ orders' = [orders EXCEPT ![req[h].order] = "purchased"]
  /\ req' = [req EXCEPT ![h] = Idle]
  /\ UNCHANGED <<items, enrollment, offered, forms, charges, raced, fulfilled, left>>

\* purchased_callback raises: what was not committed is rolled back, and the
\* items that follow are not purchased.
CallbackFails(h) ==
  /\ req[h].op = "purchase"
  /\ \E i \in req[h].rest : items[i].kind = "registration"
  /\ used.failures < MaxFailures
  /\ used' = [used EXCEPT !.failures = @ + 1]
  /\ req' = [req EXCEPT ![h] = Idle]
  /\ UNCHANGED <<orders, items, enrollment, offered, forms, charges, raced, fulfilled, left>>

-----------------------------------------------------------------------------
(* Enrolment.                                                              *)

\* CourseEnrollment.enroll in honor mode.
BeginEnroll(h, c) == BeginRequest(h, [op |-> "enroll", course |-> c, row |-> enrollment[c]])

Enroll(h) ==
  LET r == req[h]  honor == [active |-> TRUE, mode |-> "honor"] IN
  /\ r.op = "enroll"
  /\ enrollment' = IF r.row = honor THEN enrollment ELSE [enrollment EXCEPT ![r.course] = honor]
  /\ UNCHANGED <<orders, items, forms, fulfilled, left>>
  /\ End(h)

\* What refund_cert_callback may choose from.
Refundable(c) == IF c \in offered
                   THEN {i \in ItemIds : items[i].course = c /\ items[i].kind = "certificate"
                                           /\ items[i].status = "purchased"}
                   ELSE {}

BeginUnenroll(h, c) ==
  /\ enrollment[c].active
  /\ BeginRequest(h, [op |-> "unenroll", course |-> c, row |-> enrollment[c],
                      refund |-> IF Refundable(c) = {} THEN 0 ELSE Min(Refundable(c))])

\* update_enrollment saves the row as it was read, only inactive; the receiver of
\* unenroll_done refunds the item and sets its whole order to refunded.
Unenroll(h) ==
  LET r == req[h] IN
  /\ r.op = "unenroll"
  /\ enrollment' = [enrollment EXCEPT ![r.course] = [r.row EXCEPT !.active = FALSE]]
  /\ IF r.refund = 0
       THEN UNCHANGED <<orders, items>>
       ELSE /\ orders' = [orders EXCEPT ![items[r.refund].order] = "refunded"]
            /\ items' = [items EXCEPT ![r.refund].status =
                                         IF @ = "deleted" THEN @ ELSE "refunded"]
  /\ left' = left \cup {r.course}
  /\ UNCHANGED <<forms, fulfilled>>
  /\ End(h)

\* The verified mode of a course expires.
ExpireMode(c) ==
  /\ c \in offered
  /\ offered' = offered \ {c}
  /\ UNCHANGED <<orders, items, enrollment, forms, charges, req, raced, fulfilled, left, used>>

Next ==
  \/ \E h \in Handlers :
       \/ AddCourse(h) \/ CreateOrder(h) \/ ClearCart(h) \/ ShowCart(h) \/ RemoveItem(h)
       \/ Enroll(h) \/ Unenroll(h)
       \/ NextItem(h) \/ CallbackFails(h)
       \/ BeginClearCart(h) \/ BeginShowCart(h)
       \/ \E c \in Courses : \/ BeginAddCourse(h, c) \/ BeginCreateOrder(h, c)
                             \/ BeginEnroll(h, c) \/ BeginUnenroll(h, c)
       \/ \E i \in ItemIds : BeginRemoveItem(h, i) \/ PurchaseItem(h, i)
       \/ \E p \in charges : BeginPurchase(h, p)
  \/ \E f \in forms : Charge(f)
  \/ \E c \in Courses : ExpireMode(c)

Spec == Init /\ [][Next]_vars

-----------------------------------------------------------------------------
Statuses == {"cart", "purchased", "refunded"}

\* The tables, the offers and the histories are well-formed.
TypeOK ==
  /\ orders \in [OrderIds -> Statuses \cup {"none"}]
  /\ items \in [ItemIds -> [order : 0..MaxOrders, course : Courses, kind : Kinds,
                            status : Statuses \cup {"none", "deleted"}]]
  /\ enrollment \in [Courses -> [active : BOOLEAN, mode : {"honor", "verified"}]]
  /\ offered \subseteq VerifiedCourses
  /\ raced \in BOOLEAN /\ left \subseteq Courses

Charged(o) == MapThenSumSet(LAMBDA p : p.amount, {p \in charges : p.order = o})

FulfilledItems(o) == {i \in ItemIds : items[i].order = o /\ fulfilled[i] > 0}

\* What is fulfilled of an order costs no more than was charged for it, whichever
\* of its forms was paid, with carts that change after the form was shown and
\* posts that are repeated or overlap (payment_accepted, purchase).
FulfilmentPaid == ~raced => \A o \in OrderIds : SumOfPrices(FulfilledItems(o)) <= Charged(o)

BeingPurchased(o) == \E h \in Handlers : Purchasing(req[h]) /\ req[h].order = o

\* A purchased order that no request is working on has an item that was
\* purchased, and has only such items unless a callback has failed: its status
\* is committed together with the first item, never alone (purchase, purchase_item).
PurchasedComplete ==
  ~raced => \A o \in OrderIds :
    orders[o] = "purchased" /\ ~BeingPurchased(o) =>
      /\ \E i \in ItemsOf(o) : items[i].status = "purchased"
      /\ used.failures = 0 => \A i \in ItemsOf(o) : items[i].status = "purchased"

\* A cart holds nothing that was purchased or refunded, so that clearing it or
\* paying for it again touches no item that was paid (get_cart_for_user, clear).
CartsUnpaid == ~raced => \A o \in Carts : \A i \in ItemsOf(o) : items[i].status = "cart"

\* Who has paid for a course is enrolled in it until leaving it, however often
\* the row was read and saved by other requests (update_enrollment).
FulfilledEnrolled ==
  ~raced => \A i \in ItemIds :
    fulfilled[i] > 0 /\ items[i].course \notin left => enrollment[items[i].course].active

\* "If the order has been purchased, returns total of all purchased and not
\* refunded items" (total_cost): a post repeated after the refund then has the
\* wrong amount, and the order stays refunded.
RefundStands ==
  [][\A o \in OrderIds : orders[o] = "refunded" => orders'[o] = "refunded"]_vars
=============================================================================
