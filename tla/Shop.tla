-------------------------------- MODULE Shop --------------------------------
(* One student in one tab buys a product: the catalog, the checkout page     *)
(* with the payment widget, the page the payment returns to, and the list of *)
(* purchases. The rows change under them as the billing handlers settle them;*)
(* how they do is the subject of Billing.                                    *)
EXTENDS Naturals, FiniteSets

CONSTANTS
  OfferedCourses,  \* the courses on sale
  BundleOffer,     \* the one product that holds them all
  MaxOrders,       \* bound on the purchases
  MaxShopCalls     \* bound on the requests under way

ASSUME ShopAssumption ==
  /\ BundleOffer \notin OfferedCourses
  /\ MaxOrders \in Nat \ {0}
  /\ MaxShopCalls \in Nat \ {0}

VARIABLES
  orders,     \* number -> its purchase row
  everPaid,   \* orders whose row has been paid at some time
  saved,      \* the pending purchase the session storage of the tab keeps
  shopCalls,  \* slot -> a request under way
  shopper     \* what the page holds

shopVars == <<orders, everPaid, saved, shopCalls, shopper>>

Offers == OfferedCourses \cup {BundleOffer}
Orders == 1 .. MaxOrders
OrderStatus == {"none", "pending", "paid", "failed", "revoked"}
NoOrder == [status |-> "none", product |-> BundleOffer]
Saved == [order : 0 .. MaxOrders, product : Offers]
NothingSaved == [order |-> 0, product |-> BundleOffer]

ShopCall ==
  [kind : {"none", "offers", "course", "owned", "session", "status", "list"},
   step : {"asked", "answered"}, product : Offers, order : 0 .. MaxOrders,
   status : OrderStatus, rows : SUBSET Orders, heard : BOOLEAN]
NoShopCall == [kind |-> "none", step |-> "asked", product |-> BundleOffer,
               order |-> 0, status |-> "none", rows |-> {}, heard |-> FALSE]

(* rows: the paid purchases the page has read; tracked: the pending purchase *)
(* the result page took up.                                                  *)
Shopper ==
  [at : {"away", "catalog", "checkout", "result", "purchases"},
   view : {"loading", "ready", "error"}, product : Offers,
   signedIn : {"unknown", "yes", "no"}, rows : SUBSET Orders,
   filled : BOOLEAN, submitting : BOOLEAN, widget : 0 .. MaxOrders,
   tracked : Saved, phase : {"confirming", "enrolled", "failed"}]
NoShopper ==
  [at |-> "away", view |-> "loading", product |-> BundleOffer,
   signedIn |-> "unknown", rows |-> {}, filled |-> FALSE, submitting |-> FALSE,
   widget |-> 0, tracked |-> NothingSaved, phase |-> "confirming"]

ShopInit ==
  /\ orders = [n \in Orders |-> NoOrder]
  /\ everPaid = {}
  /\ saved = NothingSaved
  /\ shopCalls = [i \in 1 .. MaxShopCalls |-> NoShopCall]
  /\ shopper = NoShopper

With(status) == {n \in Orders : orders[n].status = status}

PaidRows == With("paid")

Owned(rows) == {orders[n].product : n \in rows}
AlreadyOwned == {BundleOffer, shopper.product} \cap Owned(shopper.rows) # {}

-----------------------------------------------------------------------------
(* Requests and navigation. A page that is left no longer hears its requests,*)
(* but what they do outside the page still happens.                          *)

FreeShopSlots == {i \in DOMAIN shopCalls :
  /\ shopCalls[i].kind = "none"
  /\ \A j \in 1 .. (i - 1) : shopCalls[j].kind # "none"}

UnheardOf(kinds) == [i \in DOMAIN shopCalls |->
  IF shopCalls[i].kind \in kinds THEN [shopCalls[i] EXCEPT !.heard = FALSE]
  ELSE shopCalls[i]]
PageLeft == UnheardOf({"offers", "course", "owned", "session", "status", "list"})

AskShop(rest, kind, product, order) ==
  \E i \in FreeShopSlots : shopCalls' = [rest EXCEPT ![i] =
    [NoShopCall EXCEPT !.kind = kind, !.product = product, !.order = order,
                       !.heard = TRUE]]

ShopDataUnchanged == UNCHANGED <<orders, everPaid, saved>>

BrowsesCatalog ==
  /\ shopper.at # "catalog"
  /\ shopper' = [NoShopper EXCEPT !.at = "catalog"]
  /\ AskShop(PageLeft, "offers", BundleOffer, 0)
  /\ ShopDataUnchanged

OpensPurchases ==
  /\ shopper.at # "purchases"
  /\ shopper' = [NoShopper EXCEPT !.at = "purchases"]
  /\ AskShop(PageLeft, "list", BundleOffer, 0)
  /\ ShopDataUnchanged

LeavesShop ==
  /\ shopper.at # "away"
  /\ shopper' = NoShopper
  /\ shopCalls' = PageLeft
  /\ ShopDataUnchanged

RetriesCatalog ==
  /\ shopper.at = "catalog" /\ shopper.view = "error"
  /\ shopper' = [shopper EXCEPT !.view = "loading"]
  /\ AskShop(UnheardOf({"offers"}), "offers", BundleOffer, 0)
  /\ ShopDataUnchanged

(* From the bundle card of the catalog, or the band of a course page.        *)
OpensCheckout(p) ==
  /\ shopper.at \in {"away", "catalog"}
  /\ shopper.at = "catalog" => p = BundleOffer
  /\ shopper' = [NoShopper EXCEPT !.at = "checkout", !.product = p]
  /\ IF p = BundleOffer THEN shopCalls' = PageLeft
     ELSE AskShop(PageLeft, "course", p, 0)
  /\ ShopDataUnchanged

(* Another product in the mounted checkout page; the form, a request under   *)
(* way and the widget stay.                                                  *)
SelectsProduct(p) ==
  /\ shopper.at = "checkout" /\ p # shopper.product
  /\ shopper' = [shopper EXCEPT !.product = p, !.view = "loading"]
  /\ IF p = BundleOffer THEN shopCalls' = UnheardOf({"course"})
     ELSE AskShop(UnheardOf({"course"}), "course", p, 0)
  /\ ShopDataUnchanged

LearnsSignIn ==
  /\ shopper.at = "checkout" /\ shopper.signedIn = "unknown"
  /\ \/ /\ shopper' = [shopper EXCEPT !.signedIn = "yes"]
        /\ AskShop(shopCalls, "owned", BundleOffer, 0)
     \/ /\ shopper' = [shopper EXCEPT !.signedIn = "no"]
        /\ UNCHANGED shopCalls
  /\ ShopDataUnchanged

-----------------------------------------------------------------------------
(* Buying.                                                                   *)

FillsForm ==
  /\ shopper.at = "checkout" /\ shopper.signedIn = "yes"
  /\ shopper.widget = 0 /\ ~shopper.filled
  /\ shopper' = [shopper EXCEPT !.filled = TRUE]
  /\ UNCHANGED shopCalls /\ ShopDataUnchanged

SubmitsCheckout ==
  /\ shopper.at = "checkout" /\ shopper.signedIn = "yes"
  /\ shopper.view # "error" /\ ~AlreadyOwned
  /\ ~shopper.submitting /\ shopper.widget = 0
  /\ shopper.filled
  /\ shopper' = [shopper EXCEPT !.submitting = TRUE]
  /\ AskShop(shopCalls, "session", shopper.product, 0)
  /\ ShopDataUnchanged

(* The checkout handlers refuse a product that is paid or, for the bundle's  *)
(* courses, held through the bundle; and one whose pending row is young.     *)
CreatesOrder(i) ==
  /\ shopCalls[i].kind = "session" /\ shopCalls[i].step = "asked"
  /\ {BundleOffer, shopCalls[i].product} \cap Owned(PaidRows) = {}
  /\ shopCalls[i].product \notin Owned(With("pending"))
  /\ \E n \in With("none") :
       /\ \A m \in 1 .. (n - 1) : m \notin With("none")
       /\ orders' = [orders EXCEPT ![n] =
            [status |-> "pending", product |-> shopCalls[i].product]]
       /\ shopCalls' = [shopCalls EXCEPT ![i].step = "answered", ![i].order = n]
  /\ UNCHANGED <<everPaid, saved, shopper>>

(* FAULT: the page's product is remembered, not the one that was asked for.  *)
ShownProduct(call) == shopper.product

BoughtProduct(call) == call.product

(* The answer is remembered for the result page even when the student has    *)
(* gone on to another product or page.                                       *)
ShowsWidget(i) ==
  /\ shopCalls[i].kind = "session" /\ shopCalls[i].step = "answered"
  /\ saved' = [order |-> shopCalls[i].order,
               product |-> BoughtProduct(shopCalls[i])]
  /\ shopper' = IF shopCalls[i].heard
                THEN [shopper EXCEPT !.submitting = FALSE,
                                     !.widget = shopCalls[i].order]
                ELSE shopper
  /\ shopCalls' = [shopCalls EXCEPT ![i] = NoShopCall]
  /\ UNCHANGED <<orders, everPaid>>

SessionFails(i) ==
  /\ shopCalls[i].kind = "session"
  /\ shopper' = IF shopCalls[i].heard
                THEN [shopper EXCEPT !.submitting = FALSE] ELSE shopper
  /\ shopCalls' = [shopCalls EXCEPT ![i] = NoShopCall]
  /\ ShopDataUnchanged

(* The worker settles a pending row, a manager revokes a paid one.           *)
SettlesOrder(n) ==
  /\ n \in With("pending") \cup With("paid")
  /\ \E status \in IF n \in With("paid") THEN {"revoked"} ELSE {"paid", "failed"} :
       /\ orders' = [orders EXCEPT ![n].status = status]
       /\ everPaid' = IF status = "paid" THEN everPaid \cup {n} ELSE everPaid
  /\ UNCHANGED <<saved, shopCalls, shopper>>

(* The widget loads the result page anew, as a reload of that page does.     *)
OpensResult ==
  /\ shopper.widget # 0 \/ shopper.at = "result"
  /\ shopper' = [NoShopper EXCEPT !.at = "result", !.tracked = saved]
  /\ shopCalls' = [i \in DOMAIN shopCalls |->
       IF i = 1 /\ saved.order # 0
       THEN [NoShopCall EXCEPT !.kind = "status", !.order = saved.order,
                               !.heard = TRUE]
       ELSE NoShopCall]
  /\ ShopDataUnchanged

Confirms(status) == status = "paid"

(* A pending, an unknown or no answer is asked for again, up to 80 times; a  *)
(* page that was left asks no more, but takes the answer it waits for.       *)
ShowsStatus(i) ==
  /\ shopCalls[i].kind = "status" /\ shopCalls[i].step = "answered"
  /\ LET status == shopCalls[i].status
         settled == Confirms(status) \/ status = "failed"
     IN
     /\ saved' = IF settled THEN NothingSaved ELSE saved
     /\ shopper' = IF settled /\ shopCalls[i].heard
                   THEN [shopper EXCEPT !.phase =
                           IF Confirms(status) THEN "enrolled" ELSE "failed"]
                   ELSE shopper
     /\ \/ shopCalls' = [shopCalls EXCEPT ![i] = NoShopCall]
        \/ /\ shopCalls[i].heard /\ ~settled
           /\ shopCalls' = [shopCalls EXCEPT ![i].step = "asked"]
  /\ UNCHANGED <<orders, everPaid>>

-----------------------------------------------------------------------------
(* What the pages read.                                                      *)

ReadsOrders(i) ==
  /\ shopCalls[i].kind \in {"owned", "list", "status"}
  /\ shopCalls[i].step = "asked"
  /\ LET n == shopCalls[i].order IN
     shopCalls' = [shopCalls EXCEPT ![i] =
       IF n # 0 THEN [@ EXCEPT !.step = "answered", !.status = orders[n].status]
       ELSE [@ EXCEPT !.step = "answered", !.rows = PaidRows]]
  /\ UNCHANGED shopper /\ ShopDataUnchanged

ShowsOrders(i) ==
  /\ shopCalls[i].kind \in {"owned", "list"} /\ shopCalls[i].step = "answered"
  /\ shopper' =
       IF ~shopCalls[i].heard THEN shopper
       ELSE IF shopCalls[i].kind = "list"
            THEN [shopper EXCEPT !.rows = shopCalls[i].rows, !.view = "ready"]
            ELSE [shopper EXCEPT !.rows = shopCalls[i].rows]
  /\ shopCalls' = [shopCalls EXCEPT ![i] = NoShopCall]
  /\ ShopDataUnchanged

(* The catalog or a course; without prices a page still offers its products. *)
ShowsOffer(i) ==
  /\ shopCalls[i].kind \in {"offers", "course"}
  /\ shopper' = IF shopCalls[i].heard THEN [shopper EXCEPT !.view = "ready"]
                ELSE shopper
  /\ shopCalls' = [shopCalls EXCEPT ![i] = NoShopCall]
  /\ ShopDataUnchanged

(* A failed read of the purchases leaves the checkout page as it is.         *)
ReadFails(i) ==
  /\ shopCalls[i].kind \in {"offers", "course", "owned", "list"}
  /\ shopper' = IF shopCalls[i].heard /\ shopCalls[i].kind # "owned"
                THEN [shopper EXCEPT !.view = "error"] ELSE shopper
  /\ shopCalls' = [shopCalls EXCEPT ![i] = NoShopCall]
  /\ ShopDataUnchanged

ShopNext ==
  \/ BrowsesCatalog \/ OpensPurchases \/ LeavesShop \/ RetriesCatalog
  \/ LearnsSignIn \/ FillsForm \/ SubmitsCheckout \/ OpensResult
  \/ \E p \in Offers : OpensCheckout(p) \/ SelectsProduct(p)
  \/ \E n \in Orders : SettlesOrder(n)
  \/ \E i \in DOMAIN shopCalls :
       \/ CreatesOrder(i) \/ ShowsWidget(i) \/ SessionFails(i)
       \/ ShowsStatus(i) \/ ReadsOrders(i) \/ ShowsOrders(i)
       \/ ShowsOffer(i) \/ ReadFails(i)

ShopSpec == ShopInit /\ [][ShopNext]_shopVars

-----------------------------------------------------------------------------
(* The values of the rows, the storage, the requests and the page.           *)
ShopTypeOK ==
  /\ orders \in [Orders -> [status : OrderStatus, product : Offers]]
  /\ everPaid \in SUBSET Orders
  /\ saved \in Saved
  /\ shopCalls \in [1 .. MaxShopCalls -> ShopCall]
  /\ shopper \in Shopper

(* The result page congratulates only on a purchase that was paid, and leads *)
(* to the product of that purchase, whatever was selected while the checkout *)
(* session was made; and what the checkout and purchases pages call bought   *)
(* was paid.                                                                 *)
PaidAsShown ==
  /\ shopper.phase = "enrolled" =>
       /\ shopper.tracked.order \in everPaid
       /\ orders[shopper.tracked.order].product = shopper.tracked.product
  /\ shopper.rows \subseteq everPaid

=============================================================================
