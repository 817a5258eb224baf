# A verification project for efurniture-api

efurniture-api is the server of a furniture shop: NestJS handlers over MongoDB
(mongoose), two payment providers (MoMo, PayOS), mail, and two services that
generate images and 3D models. This directory holds TLA+ modules of the parts
that change shared state, the TLC configurations that check small instances of
them, and theorems about them checked by TLAPS.

## 1. The system

### Components, their state and operations

| component | state | operations that change state | works with |
|---|---|---|---|
| order | `orders`: orderStatus, transactionStatus, items, orderHistory, isDeliveryAssigned, embedded payment | createOrder, confirmOrder, assignDeliveryToOrder, deliveryOrder, completeOrder, cancelOrder | cart, payment, product, task, mail |
| payment | `payments`: transactionStatus, transaction, transactionHistory; `PaymentService.strategy` in memory | createTransaction (external), processWebhook of MoMo and of PayOS | order, cart, product, customer |
| cart | `carts`: items, totalAmount, one document per customer | addToCart, getCart (creates), updateCart, deleteItemInCart | product |
| task | `tasks`: status, assignee, orderId | createShippingTask, progressShippingTask, completeShippingTask | order, staff, mail |
| staff | `staffs`: email, staffCode, password, status, role | create, update, deactivateStaff | auth, mail |
| ai-generation | `ai-generations`; `customers.credits` | createPayment, generateTextToImage, generateTextToDraftModel | payment, customer, external services |
| review | `reviews`; `products.rate`, `ratingCount`; `orders.items[].review` | createReview | order, product |
| product, category | `products` with variants and stock; `categories` | create, update, delete | cart, order (stock) |
| auth | `otps`, `customers`; what insert of a code is under way | register, login, loginOtp, verifyOtp, googleLogin, refresh | customer, staff, mail, Google |
| consultant-booking, visit-showroom-booking | a collection each | createBooking | staff, customer, category, mail |
| analytic | none | read-only sums | payment, order |
| customer, setting, provider, transaction, common, app | documents read by others; no handler of interest | onModuleInit of customer | |

Handlers call each other's services within one request. They meet in the
database: no lock, queue or version field orders them. The one piece of shared
memory is `PaymentService.strategy`.

### Where it is hard

- **Interleaving.** Node runs one handler up to its next `await`; then any other
  may run. The deployment is a rolling update with a surge of one, so that two
  processes overlap as well. Each `await` is therefore a point where everything
  that was read may become stale.
- **Transactions that are not quite.** Six handlers open a session. A repository
  call takes part only if it is given the session. The `bulkWrite` of the stock
  has it inside the operations, where it is not an option; the reads of the cart,
  the aggregate behind a rating and the credits are not given it at all.
- **Notifications.** The payment provider calls back late, more than once or in
  the wrong order, and repeats a call that failed.
- **Failure.** Mails are sent before the commit; every failure aborts and
  rethrows, and what was written outside the session stays. A promise nobody
  awaits that fails ends the process.
- **Keys that are almost unique.** Customers' emails and categories' names are
  looked up before an insert and have no unique index; the sku index leaves out
  deleted products, while stock writes match them.

PROJECT.json lists each hazard at its line, with the properties that cover it.

## 2. The modules

| module | models | with |
|---|---|---|
| `Handlers` | the requests that one process interleaves, and what each is doing | extended by all but `OrderLifecycle`, directly or through others |
| `MongoSession` | what services rely on from a session (external): WriteConflict at the write, no wait, direct writes | used by all that open sessions |
| `OrderLifecycle` | abstract: what the API promises about the two status fields of an order | implemented by `Checkout` and `Fulfilment` |
| `Checkout` | createOrder, the notifications for orders, confirmOrder, cancelOrder over stock, cart, payment, order | `MCCheckout`, `Checkout_proofs` |
| `Fulfilment` | confirmOrder, cancelOrder, shipping tasks, deactivateStaff and notifications over order and task | `MCFulfilment`, `Fulfilment_proofs` |
| `Shop` | skus, and requests that may overlap | extended by `Cart` and `Catalog` |
| `Cart` | the cart handlers of one customer | `MCCart`, `Shop_proofs` |
| `AiCredits` | buying and spending AI credits | `MCAiCredits`, `Payments_proofs` |
| `Review` | createReview | `MCReview`, `Review_proofs` |
| `PaymentRouting` | `PaymentService.strategy`, createTransaction and getTransaction of createOrder and createPayment, and which document a notification finds | `MCPaymentRouting`, `Payments_proofs` |
| `Catalog` | create, update and delete of products, create and update of categories, and the stock writes by sku that meet them | `MCCatalog`, `Shop_proofs` |
| `Auth` | register, login, loginOtp, verifyOtp, googleLogin | `MCAuth`, `Auth_proofs` |
| `Staffing` | create, deactivate and login of staff; the bookings of showroom visits and consultants | `MCStaffing`, `Staffing_proofs` |

`SharedLemmas` holds what several proofs cite: what each operation of a session
preserves, and facts about sums.

`Checkout` uses `MongoSession` for the full picture of a notification;
`PaymentRouting` and `Catalog` look at one side of it each (how it gets to its
payment, which product its stock write hits) and abstract from the rest.

### How state and actions correspond to the code

A request in flight is a record in `request[r]`; its field `at` names the await
it is suspended at, the other fields are the local variables that are used after
it. One action is what the handler does from one await to the next. A request
that is refused before it has written or remembered anything is no step at all.

The writes of a session are not visible before the commit. `MongoSession` keeps
only which documents a session has written (`held`) and which of them others
have committed since its snapshot (`stale`); the values are in `request[r]` and
take effect in the Commit action. A session that writes a document held by
another or changed since its snapshot gets a WriteConflict *at the write*; the
services abort and rethrow. The snapshot is taken by the session's first call,
not by `startTransaction`. A call without the session acts at once, and waits
for a session that holds the document (`DirectWrite`).

Things worth knowing before reading the modules beside the code:

- `Checkout`: `ReadCart` and `ReadStock` are the two queries of `getCart` (the
  cart, then `populate`); the items are checked in the same step as the second.
  `SetStock` is one operation of the `bulkWrite`; it stores
  `avail - items`, both read earlier. `payment[o].located` says that
  `transaction.orderCode` is in the document, which is how PayOS finds it: the
  notification that is stored there has its orderCode one level down.
  `used` counts the bounds, `sold` and `restocked` are history: nothing reads them.
- `Fulfilment`: a task is written first and judged by what it was before. The
  branch in which the judgement fails writes and then aborts; it has no lasting
  effect, and the conflicts it could cause others are covered by `Fail`.
- `Cart`: the order of `items` is not kept; of several carts of a customer every
  query finds the oldest (the documents are not moved by these updates).
- `AiCredits`: of the AI plans one is bought; the customer's balance is one number. The
  AIGeneration documents are counted by type: the `cost` they store is what the provider
  takes (20, or what it reports), in another unit than `AIGenerationPricing`, and nothing
  reads it. The properties therefore value a document at the price of its type. `lost`
  (calls that failed alone) and `together` (the most generations waiting to be charged at
  once) are history.
- `Review`: `review.product` is stored as the string the aggregate matches. The order's
  status is not looked at (that check is commented out), so orders have none here.
- `PaymentRouting`: setting the field and calling through it happen in one turn
  (`CreateTransaction`, `FirstWebhook`), except for the query of a PayOS payment,
  which uses the field as it is after the first call has been awaited
  (`GetTransaction`, order.service.ts:178, pricing.service.ts:55). `crossed` records
  that it was switched away from PayOS in that gap. ZaloPay is a method of the
  form, but takes the default branch.
- `Catalog`: a product is its status and quantities by sku. `OpenForm` is what an
  admin's browser loads, `SubmitForm` the first half of updateProduct (the look at the
  status), `UpdateProduct` its second (a write by `_id` alone). `owed` adds up
  what every edit, sale and restock meant to change, relative to what it had read;
  `strays` records why a write by sku hit another product than the one that was
  sold. Sessions are left out: the bulkWrite is in none, and
  what happens to order and cart is in `Checkout`.
- `Auth`: accounts are a sequence, and a query without an index finds the oldest
  match. `otps[i].insert` is the state of the insert that is not awaited.
  refreshAccessToken has no action: the controller passes `req.user.id`, the
  strategy sets `_id`, so it finds nobody.
- `Staffing`: `letter` is the password last mailed to an email. The session of create
  makes one write, so a key inserted by an open session and a committed one refuse
  alike. `unconfirmed` counts the bookings whose mail failed. `Submit` is an assumption
  on the web client, external to this repository: a visitor has one form in flight, and
  sends none after a confirmation. Nothing here enforces it; `BookingLedger` rests on it.
- Left out everywhere: formatting, mails' content, logging, pagination, what is in a token.

## 3. What is checked

Each run takes at most two minutes with two workers. Bounds are CONSTANTS named
`Max...`. Two handlers suffice for every race described here, because a race needs one
handler suspended and another one running; three are used where that is affordable.

| run | instance | shows |
|---|---|---|
| checkout_races | 2 requests, 2 orders of one customer (MoMo, PayOS), 1 sku, stock 2, quantities 0..2, 3 notifications, 1 failure, 1 cart edit | types; payment and order agree; the life cycle; until requests overlap, no stock write is lost and PayOS captures once |
| checkout_wide | 2 requests, 2 customers with an order each, 2 skus, stock 1, quantities 0..1, 2 notifications, 1 failure, 1 cart edit | stock never negative although no cart conflict orders the handlers; captured only after the stock of every item was written; canceled only after it was returned, once per attempt |
| checkout_liveness | 2 requests, 2 orders, 1 sku, fair | a started request ends |
| fulfilment_races | 3 requests, 1 order, 2 staff | checks hold until commit; task and order in step; only the first task moves; life cycle; no deadlock |
| cart_races | 2 requests, 2 skus, 1 product edit | total agrees with items and no item exceeds the stock until a product is edited; until requests overlap, a change touches its items only; no deadlock |
| credits_races | 3 requests, 1 payment, 3 notifications, 1 failure | captured implies credited; failed is final; what was bought and not spent is what was generated, up to the failed calls; the balance is overdrawn by at most all but one of the generations charged at once |
| review_races | 2 requests, 2 orders x 2 products, 3 reviews | rating counts committed reviews; links lead to the item's review; until requests overlap, one review per item, and none loses its link |
| routing_races | 2 requests, 3 payments of any method and type | calls reach the provider of their method; a first notification finds its payment unless the field was switched in the gap |
| catalog_races | 2 requests, 2 products of 1 variant, 2 skus, 2 categories, quantities 1..2, 1 order sold and canceled | no sku on sale twice; what is sold stays sold until an edit crosses it or a deleted product is hit; names unique until requests overlap |
| auth_races | 2 requests, 2 emails, 2 passwords, 1 Google user, 2 accounts, 2 codes drawn | mailed codes are accepted, only after the password was typed; until requests overlap every account can be logged in to |
| staffing_races | 2 requests, 2 emails, 2 staff codes, 2 roles, 1 customer, 1 guest, 2 staff, 3 passwords, 2 bookings | staff can log in with the last invitation; who was told is booked, and is booked twice only by a failing mail; until requests overlap nobody deactivated logs in or is booked |

The notifications allow for a duplicate and a late failure of the same order (3),
or one for each of two orders (2); the cart edit falls anywhere, in particular
between an order and its notification; the failure hits any await of any handler.
Three payments are one whose query is pending and two to cross it, or one of each
method. Two products are a deleted one and its successor; one variant each is
enough, because a write by sku hits one variant. Two drawn codes of the same four digits
for two accounts are what a mix-up needs; with a single code value every guess
is right, which is the worst case. Three passwords are two invitations that race for an email and
one that succeeds elsewhere.

**Until requests overlap.** Some promises of the code hold only while a customer's
requests, or the notifications, come one at a time. The history variable
`overlapped` records that two requests have been in flight at once; these
properties say `~overlapped => ...`. That they fail without it is the point: the
code has no lock, version or unique index where they would need one. Such a property does
not catch the race; it shows that the race is the only way to go wrong, and the hazards in
PROJECT.json that name it say so. The balance of credits needs no such condition:
`OverdraftIsBounded` says how far overlapping generations overdraw it, and the bound is
reached: of 30 credits one generation takes 15, three more pass the check on the other 15
and are all charged, which leaves -30.

Deadlock is checked in the runs whose system never stops (fulfilment_races,
cart_races). Elsewhere the bounds, or a customer without credits, end it.

One run shows that a comment of the code does not hold: `checkout_webhook_abort`.
payos.strategy.ts:86 says `// Execute in transaction`; an aborted notification has
taken the items all the same (so do MoMo's; an aborted cancellation has returned
them, which is why `RestockedOnce` counts failures).

**What fails without the conditions.** Drop `~overlapped` or `crossed` from a property
(`crossed` from `Accountable`, with `owed` kept up) and TLC finds, with these
instances, the behaviours below; so it does for the first row, where the condition
is one a reader might want to add. They are no runs of the project, but a reader who
changes the code should know them.

| property | comment or declaration | what happens |
|---|---|---|
| one task per order, as a conjunct of `AssignedHasTask` | task.service.ts:54 Check shipping task is already created | two requests find no task, one after the other commits: two tasks for one order |
| `StockLedger` | payos.strategy.ts:155 Check remain quantity | two notifications read the same quantity and both store their difference: two sales, one subtraction |
| `OverdraftIsBounded`, with `credits >= 0` for the bound | customer.schema.ts:81 min: 0 | generations pass the check on the same balance and overdraw it |
| `LinksMatchReviews` | review.service.ts:146 Save reviewId to orderItem | the items as read store away the link of a review committed in between |
| `FirstNotificationFinds` | | a MoMo checkout or notification between the two calls of a PayOS checkout makes the query go to MoMo: the payment is stored without an orderCode, and no notification ever finds it |
| `SoldStaysSold` | | a form opened before a sale and submitted after it brings the sold units back |
| `CategoryNamesUnique`, `EveryAccountIsReachable` | CATEGORY_ALREADY_EXIST, EMAIL_ALREADY_EXIST | two requests find the name or the email free and both insert |
| `DeactivatedIsLeftAlone` | | the deactivation commits while the password is compared, or the categories are read |

The two tasks need both requests to read the tasks before either has
inserted, and the second to insert after the first has committed: with both
sessions open at once, the order they both write would be a WriteConflict.
What limits the damage is `OnlyFirstTaskMoves`: whatever the assignee of the
other task tries, it is never worked on.

`EveryAccountIsReachable` says what "reachable" is for each kind of account, because
googleLogin does not look at the email: a Google account may have the email of
an older password account and the other way round. `register` refuses an email that
a Google account has, so a password account is always the oldest with its email.

**Fairness.** Only `checkout_liveness` assumes any: weak fairness of `Resume(r)`,
each request's next step. The event loop resumes every handler whose promise is
settled, and drivers settle each promise (an answer, an error or a timeout, the
latter being `Fail`). That a customer pays, a provider notifies, or staff confirm
is not assumed.

**Mutants.** Each property has a mutant in PROJECT.json, a plausible slip in the
code (a guard dropped, a write without the session, `$set` for `$inc`) that
breaks it; the mutated definitions stand before the original, marked `Mutant`.

## 4. What is proved

Proved for every value of the constants, from the named assumptions of the modules:
a placeholder is not one of the values it stands in for, bounds are natural
numbers, guests are not customers; `Orders` of `Checkout`, `Requests`, `Payments` and `Kinds` of
`AiCredits` and `Skus` of `Cart`, over which a property sums, are finite; `Orders` is not empty,
because an idle request record of `Checkout` names some order, and neither is `Kinds`, of which
`AiCredits` takes the dearest.

| theorem | property |
|---|---|
| `CheckoutTypeCorrect` | `Checkout`'s `TypeOK` |
| `StockStaysNonNegative` | `StockNonNegative` |
| `PaymentsAgree` | `PaymentAgrees` |
| `PaidOrdersWereDeducted` | `PaidWasDeducted` |
| `CanceledOrdersRestockOnce` | `RestockedOnce` |
| `PayOSCapturedOnce` | `CapturedOnce` |
| `StockAddsUp` | `StockLedger` |
| `CheckoutImplementsLifecycle` | `ImplementsLifecycle` (refinement of `OrderLifecycle`) |
| `FulfilmentTypeCorrect` | `FulfilmentTypeOK` |
| `ChecksHoldUntilCommit` | `ChecksStillHold` |
| `TasksMirrorOrders` | `TaskMirrorsOrder` |
| `AssignedOrdersHaveTasks` | `AssignedHasTask` |
| `LaterTasksNeverMove` | `OnlyFirstTaskMoves` |
| `FulfilmentImplementsLifecycle` | `ImplementsLifecycle` (refinement of `OrderLifecycle`) |
| `RoutingTypeCorrect` | `RoutingTypeOK` |
| `CallsReachTheirProvider` | `CallsFollowTheirChoice` |
| `NotificationsFindTheirPayment` | `FirstNotificationFinds` |
| `StaffingTypeCorrect` | `StaffingTypeOK` |
| `StaffLogInWithLastInvitation` | `StaffCanLogIn` |
| `DeactivatedStaffLeftAlone` | `DeactivatedIsLeftAlone` |
| `BookingsAddUp` | `BookingLedger` |
| `CreditsTypeCorrect` | `AiCredits`' `TypeOK` |
| `CapturedPaymentsAreCredited` | `CapturedIsCredited` |
| `FailedPaymentsStayFailed` | `FailedIsFinal` |
| `CreditsAreAccounted` | `BalanceIsAccounted` |
| `OverdraftsAreBounded` | `OverdraftIsBounded` |
| `ReviewTypeCorrect` | `Review`'s `TypeOK` |
| `RatingsCountCommitted` | `RatingCountsReviews` |
| `ItemsReviewedOnce` | `OneReviewPerItem` |
| `LinksLeadToTheirReviews` | `LinksMatchReviews` |
| `AuthTypeCorrect` | `AuthTypeOK` |
| `AccountsReachable` | `EveryAccountIsReachable` |
| `OtpTokensNeedPassword` | `OtpTokensFollowPassword` |
| `MailedCodesAccepted` | `MailedCodeIsAccepted` |
| `CartTypeCorrect` | `CartTypeOK` |
| `CartsAlwaysAddUp` | `CartsAddUp` |
| `WritesKeepTheOtherItems` | `WritesOnlyItsItems` |
| `CatalogTypeCorrect` | `CatalogTypeOK` |
| `NoTwoOnSaleShareASku` | `NoSharedSku` |
| `QuantitiesAreOwed` | `SoldStaysSold` |
| `CategoryNamesStayUnique` | `CategoryNamesUnique` |

Each inductive invariant below was checked by TLC on the instance of its run before
it was proved.

**Checkout** (`Checkout_proofs`; every set of requests, customers, orders and skus, every bound).
`CheckoutInv` says of each request (`RequestOK`) what it has done by the await it
is suspended at. `HoldsOrder`: who is about to write an order holds it in its session, so by
`SessionsIsolated` no other commit moves it. `Deducts`: a paid notification has
written the stock of each item that is no longer on its list, and what is left
on it is no more than the quantity it has read; so `StockNonNegative` and
`PaidWasDeducted` need no assumption on who else writes the stock. `Returns`: a cancellation
works on an order that stays as it was matched. `RestockBounded` is what makes
`RestockedOnce` inductive: unless a cancellation that is under way, or the one that
succeeded, has returned a sku, only failed ones have. `CreatesAlone`
says that an order id is drawn by one request. Under `~overlapped`, `OneAtATime` adds that
a captured PayOS order is no longer located, hence found by no notification.
`StockLedger` has an invariant of its own, `LedgerInv`, on top of that one: `FreshStock`
says that what a notification on its own has read of the items it has still to
write is what the stock is. The refinement is proved action by action from `CheckoutInv`;
a step that stores an order's status is one step of `OrderLifecycle`, all else stutters.

**Fulfilment** (`Fulfilment_proofs`, with the lemmas on sessions in
`SharedLemmas`; every set of orders, delivery staff and requests). The inductive invariant `FulfilmentInv` is the conjunction of `FulfilmentTypeOK`,
`ChecksStillHold`, `TaskMirrorsOrder`, `AssignedHasTask` and `SessionsIsolated`, that no document is held by two sessions. None of them is
inductive alone. That a task mirrors its order is kept by a commit only if
what the handler judged is still true (`ChecksStillHold`); that is kept by the
commit of another handler only if that one cannot hold the same order or task
(`SessionsIsolated`); and that a confirmation disturbs no task needs
`AssignedHasTask`, since it writes PENDING orders, which have none. The proof
has a lemma per kind of step: begin, suspend, throw, one for each commit, and
the two handlers without a session. `CommitFacts` is the common part: the order
a commit writes is held by it alone, so that all other requests' checks are
about other documents. The refinement needs nothing further: at a commit,
`ChecksStillHold` is the guard of the abstract action. `OnlyFirstTaskMoves`
is inductive next to `FulfilmentInv`: a commit of createShippingTask appends, any
other write is to the first task.

**PaymentRouting** (`Payments_proofs`; every set of requests and any number
of payments). `RoutingInv` says of each request under way (`RequestOK`) that its code
is nobody else's, neither another request's nor a payment's nor a link's, and what it
has learnt by its await: unless `crossed`, the field is still PayOS while it waits to query,
PayOS was asked, and the answer has an orderCode. Of each payment (`RoutingPaymentOK`)
that it has an orderCode if it will be looked up by one, and of each link (`LinkOK`) that
it leads to a payment, and to the provider of its method. `CallsFollowTheirChoice` alone is not
inductive: a notification calls through the provider of the link, and that this is the one
of the payment's method needs `LinkOK`, which needs codes not to be shared.

**Staffing** (`Staffing_proofs`; every set of requests, emails, codes, roles and
visitors). `StaffingInv` adds two facts to `StaffCanLogIn`. `Reserved`: no two members, committed or
inserted by an open session, share an email or a staff code. `Invited`: who is about to
commit has mailed the password that is the last one at that email. A mail keeps
both because, by `Reserved`, nobody else is invited or employed under that email;
a commit turns `Invited` into `StaffCanLogIn`. `Elsewhere` is the common part of the steps that
touch neither: login, deactivation, bookings and failures. `DeactivatedIsLeftAlone`
rests on `LeftAlone`: the only request in flight has seen its member or consultant active,
and nobody else is there to deactivate them. `BookingLedger` rests on `OneForm`: a
visitor has one form in flight, and none once told; the mails under way of
a visitor are then none or one, whatever the set of requests.

**AiCredits** (`Payments_proofs`; every set of requests, payments and kinds, any prices and
plans). `CreditsInv` says of a notification (`HoldsItsPayment`) that its session holds at most its own
payment, that a held payment is still located, and that one about to commit a success has
added the credits. Of a payment (`PaymentOK`): ERROR means no orderCode. So a commit
writes only a payment that has not failed, and captures only one that was credited; that
the commit of another notification does not take the orderCode away from a held payment
is `SessionsIsolated`. `BalanceInv` is about the balance, with any number of requests in flight.
`BalanceIsAccounted` is inductive by itself, once it is known that a request at the provider has
both calls to do: a call that succeeds moves its price from what is pending to what is stored on
one side, a generation that starts or gives up adds or removes the same price on both, and a
call that fails moves the two sides apart by one price, which `lost` counts (`AccountedStep`).
`OverdraftIsBounded` is not inductive, because a charge does not look at the balance. What is:
what is pending exceeds the balance by at most the price of all but one of the
generations that were to be charged at once. A generation that starts keeps this, since the
balance covers its own price and `PendingBounded` bounds the others' (`OverdraftStep`); a charge
lowers both sides.

**Review** (`Review_proofs`; every set of requests, orders, products and rates). What a request
has read of the committed reviews (`ReadsCommitted`) stays true of them, because
none is ever taken back: each link it will store leads to a committed review of that item
(`Backed`), and each count is at most what there is now. The commit of another
request only adds to the reviews, so neither is disturbed; what a request has *not*
seen is, which is why `OneReviewPerItem` and the second half of `LinksMatchReviews` need `OneAtATime`.

**Auth** (`Auth_proofs`; every set of requests, emails, passwords, Google users and codes, any number of
accounts). Accounts are only appended, and a query finds the oldest match:
so what an email finds does not change once it finds anything (`Keeps`). By `RequestOK` a
request that is comparing or verifying has the account its email finds, and by
`OtpOK` so has every code, whose account has a password. Hence a code that is valid
for the email is valid for the account verifyOtp has found (`MailedCodeIsAccepted`),
and tokens for it go to where the password was typed (`OtpTokensFollowPassword`).
`EveryAccountIsReachable` needs in addition, under `~overlapped`, that a
registration or Google login that found nobody would still find nobody (`OneAtATime`).

**Cart** (`Shop_proofs`; every set of requests, finite set of skus and offers). That
the stored carts add up is not inductive: what is stored is what a request has read and
computed, one or more awaits earlier. `CartInv` therefore says the same of every request
(`RequestAddsUp`): the cart it holds adds up, and what addToCart has looked up is the offer
times the quantity asked for. Each is about that request's copy alone, so a cart that another request
stores in between does not disturb it; an edit of a product does, which is why all of it is under
`edits = 0`. The two ways the code gets to a total, adding the price of what is added
(`PriceOfMore`) and subtracting that of what is replaced or removed
(`PriceOfParts`), are facts about sums over the skus. `CartOneAtATime` gives `WritesOnlyItsItems`: the only
request in flight holds the customer's cart, but for its own items.

**Catalog** (`Shop_proofs`; every set of requests and skus, all forms, any number of products and
orders). `ProductsOK` says that products are created under consecutive ids, so that an insert is
never on top of one, and that no two on sale share a sku: an insert or an edit of one that would
is refused by the index, and an edit of a product that was deleted in the meantime
does not put it back on sale. `RequestsOK` says that until a product was written past a reader
(`crossed`) what each form and each sale has read is what the product is (`ReadIsCurrent`). A write
is then by the difference that is owed, which is `SoldStaysSold`; that alone is not inductive.
`StockWriteKeeps` is the common part of the two stock writes: of the products with the sku, the one hit
is the one that was sold, or a stray is recorded. `CategoryNamesUnique` rests on `OneAtATime`: the
name a request on its own has looked up is still free when it is stored.

**Two specifications in one module.** `Payments_proofs` extends `AiCredits` and `PaymentRouting`,
`Shop_proofs` extends `Catalog` and `Cart`. Each pair declares its handlers in `Handlers` and
its common constants in `Shop`, but has a specification for each (`Spec` and `RoutingSpec`,
`Spec` and `CartSpec`): every theorem is about one of them, and no proof uses the
assumption of the other.

**Sums.** The library's induction theorems take the property as an operator,
which the provers cannot instantiate. `SharedLemmas` goes around them: `LeastNatural`
is the least-element principle for a set of naturals (from `WFMin`), and with it
`AddUpStep` shows that the recursion in `SumFunction` has a solution on a finite domain,
and `SubsetInduction` that a set of subsets closed under adding the next
element contains them all. `SumInt`, `SumNat`, `SumZero`, `SumChange` (changing one value
changes the sum by the difference), `SumPlus` (the sum of two functions is the
sum of their sums) and `SumAtMost` (a sum is at most the number of its terms that are not 0
times the largest), with `HasLargest` for that, are what the components cite.

**Only model-checked.** `RequestEnds`: it is liveness under fairness, which the prover does
not do (nor ENABLED). Every other property that a run is expected to pass is a theorem. What a recursive definition computes beyond finite sums, and modules that
declare RECURSIVE operators, would be out of its reach as well; there are none here.

## 5. What is not modelled

The components PROJECT.json marks `not_modelled` or `partly`, each with its
reason: analytic reads only; setting, provider and transaction have no operation
in use; common, the configuration and main are wiring and formatting; of staff, the update of
names, phone and avatar; of customer, the start-up update for documents of an older schema.
Within the modelled ones:

- refunds (commented out in cancelOrder, called nowhere);
- orders with the same item twice, and prices in `Checkout` (they are in `Cart`);
- quantities of sales in `Catalog` are read from one product of an order;
- the expiry of access tokens: who is deactivated keeps those already given
  (jwt-access.strategy.ts looks at no document);
- a commit of MongoDB that succeeds but reports an error;
- two payments with the same random code (one of 8 * 10^15).

## 6. Plan

Done: `MongoSession`, `OrderLifecycle`, `Checkout`, `Fulfilment`, `Cart`,
`AiCredits`, `Review`, `PaymentRouting`, `Catalog`, `Auth`, `Staffing`; proofs of all
safety properties of `Checkout`, `Fulfilment`, `PaymentRouting`, `Staffing`, `AiCredits`,
`Review`, `Auth`, `Cart` and `Catalog`, the two refinements included. Next: in `Checkout`, that a paid
order is eventually captured, under the assumption that the customer leaves the cart
alone; orders with an item twice.
