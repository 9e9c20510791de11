------------------------------ MODULE Storefront ------------------------------
(***************************************************************************)
(* A seller's shop: the catalog site (catalog.service.ts) and the flow     *)
(* catalog-share that sells from it on WhatsApp, with the nodes            *)
(* list_catalog_categories, list_catalog_products, create_catalog_order    *)
(* and collect_payment_screenshot, and the order link of the website       *)
(* (catalog-website-order.handler.ts).                                     *)
(*                                                                         *)
(* One customer browses by tapping while the owner edits.  Names, texts,   *)
(* prices and pictures of products are left out; so is sort_order, which   *)
(* stays at its default, so that lists go by id.  What becomes of an order *)
(* is CatalogOrders' subject.                                              *)
(***************************************************************************)
EXTENDS Integers, Sequences, FiniteSets, FiniteSetsExt, SequencesExt

CONSTANTS
  Categories,    \* ids of categories, positive numbers
  Products,      \* ids of products, positive numbers
  Media,         \* ids of files
  Slugs,
  Catalogs,      \* catalogs to start from: [category, product]
  CategoryPage,  \* page_size of list_catalog_categories, at most 8
  ProductPage,   \* page_size of list_catalog_products, at most 5
  MaxEdits,      \* bound on what the owner does
  MaxMessages,   \* bound on what the customer writes
  MaxTroubles,   \* bound on messages that WhatsApp does not take
  None

VARIABLES
  site,          \* the catalog_sites row, None before it is created
  category,      \* [Categories -> "none", "open" (is_active) or "closed"]
  product,       \* [Products -> None or the row]
  media,         \* files that exist
  access,        \* the website add-on is paid for
  page,          \* what the customer's browser shows of the site, or None
  status,        \* of the execution: "none", "running", "waiting" or "ended"
  at,            \* the node it is at
  context,       \* what its context says
  buttons,       \* the buttons that count: the template of the user state
  order,         \* the orders made, by number
  wanted,        \* how often the customer asked to order
  edits, written, troubles

shop == <<site, category, product, media, access>>
customer == <<page, status, at, context, buttons>>
vars == <<shop, customer, order, wanted, edits, written, troubles>>

-----------------------------------------------------------------------------
(* The rows of the schema.                                                   *)
NewSite(slug) == [slug |-> slug, published |-> FALSE, payments |-> FALSE, qr |-> None]

Uncategorised == 0        \* categoryId null, OTHER_CATEGORY_ID on WhatsApp

Row(c, stocked) == [category |-> c, active |-> TRUE, stocked |-> stocked]

IsActive(p) == product[p] # None /\ product[p].active

CategoryStates == {"open", "closed"}

(* Orders are refused unless payments are on and a QR is named; whether its  *)
(* file still exists is not looked at.                                       *)
PaymentsReady == site # None /\ site.payments /\ site.qr # None

(* What an execution knows: the trigger's link to the site, where browsing   *)
(* is, the product and the order, and how it was resumed.                    *)
NewContext ==
  [link |-> None, category |-> None, offset |-> 0, page |-> 0, product |-> None, order |-> 0,
   resuming |-> FALSE, tapped |-> FALSE, resumeAt |-> None, image |-> FALSE]

With(c, d) == [f \in DOMAIN c |-> IF f \in DOMAIN d THEN d[f] ELSE c[f]]

Init ==
  /\ \/ /\ site = None
        /\ category = [c \in Categories |-> "none"]
        /\ product = [p \in Products |-> None]
     \/ \E slug \in Slugs, catalog \in Catalogs, m \in Media :
          /\ site = [NewSite(slug) EXCEPT !.published = TRUE, !.payments = TRUE, !.qr = m]
          /\ category = catalog.category
          /\ product = catalog.product
  /\ media = Media
  /\ access = TRUE
  /\ page = None
  /\ status = "none" /\ at = None /\ context = NewContext /\ buttons = {}
  /\ order = <<>>
  /\ wanted = 0
  /\ edits = 0 /\ written = 0 /\ troubles = 0

-----------------------------------------------------------------------------
(* The owner.  Every handler but createSite needs a site.                    *)
Edit ==
  /\ edits < MaxEdits
  /\ edits' = edits + 1
  /\ UNCHANGED <<customer, order, wanted, written, troubles>>

CreateSite(slug) ==
  /\ Edit
  /\ site = None
  /\ site' = NewSite(slug)
  /\ UNCHANGED <<category, product, media, access>>

UpdateSlug(slug) ==
  /\ Edit
  /\ site # None
  /\ site' = [site EXCEPT !.slug = slug]
  /\ UNCHANGED <<category, product, media, access>>

(* Only publishing asks for the add-on: a published site stays published     *)
(* when the add-on ends.                                                     *)
Publish ==
  /\ Edit
  /\ access /\ site # None
  /\ site' = [site EXCEPT !.published = TRUE]
  /\ UNCHANGED <<category, product, media, access>>

Unpublish ==
  /\ Edit
  /\ site # None
  /\ site' = [site EXCEPT !.published = FALSE]
  /\ UNCHANGED <<category, product, media, access>>

AddOnChanges ==
  /\ Edit
  /\ access' = ~access
  /\ UNCHANGED <<site, category, product, media>>

(* createCategory and updateCategory.                                        *)
SaveCategory(c, state) ==
  /\ Edit
  /\ site # None
  /\ category' = [category EXCEPT ![c] = state]
  /\ UNCHANGED <<site, product, media, access>>

(* deleteCategory: the schema sets its products' category to null.           *)
DeleteCategory(c) ==
  /\ Edit
  /\ category[c] # "none"
  /\ category' = [category EXCEPT ![c] = "none"]
  /\ product' = [p \in Products |->
                   IF product[p] # None /\ product[p].category = c
                   THEN [product[p] EXCEPT !.category = Uncategorised] ELSE product[p]]
  /\ UNCHANGED <<site, media, access>>

(* createProduct and updateProduct: the category must be the site's.         *)
SaveProduct(p, c, active, stocked) ==
  /\ Edit
  /\ site # None
  /\ c # Uncategorised => category[c] # "none"
  /\ product' = [product EXCEPT ![p] = [Row(c, stocked) EXCEPT !.active = active]]
  /\ UNCHANGED <<site, category, media, access>>

DeleteProduct(p) ==
  /\ Edit
  /\ product[p] # None
  /\ product' = [product EXCEPT ![p] = None]
  /\ UNCHANGED <<site, category, media, access>>

(* updatePaymentSettings: payments cannot be switched on without a QR, but   *)
(* the QR can be taken away while they are on.                               *)
UpdatePaymentSettings(on, qr) ==
  /\ Edit
  /\ site # None
  /\ qr # None => qr \in media
  /\ on /\ ~site.payments => qr # None
  /\ site' = [site EXCEPT !.payments = on, !.qr = qr]
  /\ UNCHANGED <<category, product, media, access>>

UploadMedia(m) ==
  /\ Edit
  /\ site # None /\ m \notin media
  /\ media' = media \cup {m}
  /\ UNCHANGED <<site, category, product, access>>

(* deleteMedia: pictures of products forget the file, the payment QR does    *)
(* not.                                                                      *)
DeleteMedia(m) ==
  /\ Edit
  /\ site # None /\ m \in media
  /\ media' = media \ {m}
  /\ UNCHANGED <<site, category, product, access>>

-----------------------------------------------------------------------------
(* What the shop lists, and its pages.                                       *)
InOrder(ids) == SetToSortSeq(ids, <)

OfCategory(c) == InOrder({p \in Products : IsActive(p) /\ product[p].category = c})

(* Categories that have something to show, and Other.                        *)
Offered ==
  InOrder({c \in Categories : category[c] = "open" /\ OfCategory(c) # <<>>})
  \o (IF OfCategory(Uncategorised) # <<>> THEN <<Uncategorised>> ELSE <<>>)

(* Mutant of HasMore: the last entry of a page counts twice.                 *)
HasMoreThanNext(list, from, size) == from + size + 1 < Len(list)

HasMore(list, from, size) == from + size < Len(list)

(* An offset behind the end, because entries have gone, starts again.        *)
From(list, offset) == IF offset < Len(list) THEN offset ELSE 0

Page(list, from, size) == Range(SubSeq(list, from + 1, Min({Len(list), from + size})))

-----------------------------------------------------------------------------
(* The buttons: the node a button leads to, and what it sets.                *)
Button(next, sets) == [next |-> next, sets |-> sets]

MainMenu == Button("pick-menu", [page |-> 0, offset |-> 0])

ToCategories == Button("list-catalog-categories", [page |-> 0, offset |-> 0, category |-> None])

WelcomeMenu == {Button("send-website", <<>>), Button("list-catalog-categories", <<>>)}

CategoryMenu(c) ==
  LET from == From(Offered, c.page)
  IN {Button("list-catalog-products", [category |-> x, offset |-> 0]) :
        x \in Page(Offered, from, CategoryPage)}
     \cup (IF HasMore(Offered, from, CategoryPage)
           THEN {Button("list-catalog-categories", [page |-> from + CategoryPage])} ELSE {})
     \cup {MainMenu}

CategoriesSeen(c) ==
  IF Offered = <<>> THEN [c EXCEPT !.page = 0, !.offset = 0, !.category = None]
  ELSE [c EXCEPT !.page = From(Offered, @), !.offset = 0, !.category = None]

(* Without a category there is nothing to list: choose one first.            *)
ChooseCategory ==
  {Button("list-catalog-categories", [page |-> 0, offset |-> 0]), Button("pick-menu", <<>>)}

NothingHere ==
  {Button("list-catalog-categories", [page |-> 0, offset |-> 0]),
   Button("pick-menu", [offset |-> 0])}

(* Only what is in stock gets a button.                                      *)
Shelves(c) ==
  LET list == OfCategory(c.category)
      from == From(list, c.offset)
  IN {Button("create-catalog-order", [product |-> p, category |-> c.category]) :
        p \in {q \in Page(list, from, ProductPage) : product[q].stocked}}
     \cup (IF HasMore(list, from, ProductPage)
           THEN {Button("list-catalog-products",
                        [offset |-> from + ProductPage, category |-> c.category])} ELSE {})
     \cup {MainMenu, ToCategories}

ProductMenu(c) ==
  CASE c.category = None -> ChooseCategory
    [] c.category # None /\ OfCategory(c.category) = <<>> -> NothingHere
    [] OTHER -> Shelves(c)

ProductsSeen(c) ==
  IF c.category = None THEN [c EXCEPT !.offset = 0]
  ELSE [c EXCEPT !.offset = From(OfCategory(c.category), @)]

(* The menu a node shows, and the context it leaves.                         *)
Menu(node, c) ==
  CASE node = "pick-menu"               -> WelcomeMenu
    [] node = "list-catalog-categories" -> CategoryMenu(c)
    [] node = "list-catalog-products"   -> ProductMenu(c)
    [] OTHER                            -> {}

Seen(node, c) ==
  CASE node = "list-catalog-categories" -> CategoriesSeen(c)
    [] node = "list-catalog-products"   -> ProductsSeen(c)
    [] OTHER                            -> c

Tapped(c, b) ==
  [With(c, b.sets) EXCEPT !.resuming = TRUE, !.tapped = TRUE, !.resumeAt = b.next]

-----------------------------------------------------------------------------
(* The customer.                                                             *)
AtButtons == at \in {"pick-menu", "list-catalog-categories", "list-catalog-products"}

(* A message that starts the flow.  One that waits at buttons is given up    *)
(* only for the words of a booking; other messages are told to tap.  The     *)
(* trigger writes down the link of the site, if it is published by then.     *)
SaysHi ==
  /\ written < MaxMessages
  /\ status # "running"
  /\ status = "waiting" => AtButtons
  /\ status' = "running" /\ at' = "pick-menu" /\ buttons' = {}
  /\ context' = [NewContext EXCEPT
                   !.link = IF site # None /\ site.published THEN site.slug ELSE None]
  /\ written' = written + 1
  /\ UNCHANGED <<shop, page, order, wanted, edits, troubles>>

Tap(b) ==
  /\ status = "waiting" /\ b \in buttons
  /\ status' = "running" /\ at' = b.next /\ buttons' = {}
  /\ context' = Tapped(context, b)
  /\ wanted' = IF b.next = "create-catalog-order" THEN wanted + 1 ELSE wanted
  /\ UNCHANGED <<shop, page, order, edits, written, troubles>>

(* A text or a picture for a node that waits for the screenshot.  The marks  *)
(* of the last tap are still in the context, and come first.                 *)
Writes(isImage) ==
  /\ written < MaxMessages
  /\ status = "waiting" /\ at = "collect-payment-screenshot"
  /\ status' = "running"
  /\ context' = [context EXCEPT !.resuming = TRUE, !.image = isImage]
  /\ at' = IF context.tapped THEN context.resumeAt ELSE at
  /\ written' = written + 1
  /\ UNCHANGED <<shop, page, buttons, order, wanted, edits, troubles>>

(* What the public page shows: products of closed categories too.            *)
Shown == {p \in Products : IsActive(p)}

Visit ==
  /\ status # "running"
  /\ site # None /\ site.published
  /\ page' = Shown
  /\ UNCHANGED <<shop, status, at, context, buttons, order, wanted, edits, written, troubles>>

(* The order button of a page, be it an old one.  What is gone or sold out   *)
(* gets a text.                                                              *)
WebsiteOrder(p) ==
  /\ written < MaxMessages
  /\ status # "running"
  /\ page # None /\ p \in page
  /\ IsActive(p) /\ product[p].stocked
  /\ status' = "running" /\ at' = "create-catalog-order" /\ buttons' = {}
  /\ context' = [NewContext EXCEPT !.product = p, !.resuming = TRUE, !.resumeAt = at']
  /\ page' = None
  /\ wanted' = wanted + 1
  /\ written' = written + 1
  /\ UNCHANGED <<shop, order, edits, troubles>>

-----------------------------------------------------------------------------
(* The engine.                                                               *)
Walk(node) ==
  /\ status = "running" /\ at = node
  /\ UNCHANGED <<shop, page, wanted, edits, written>>

(* Where there is no site, the lists say so and wait, without a button.      *)
NoSite(node) ==
  /\ Walk(node)
  /\ node \in {"list-catalog-categories", "list-catalog-products"}
  /\ site = None
  /\ status' = "waiting"
  /\ UNCHANGED <<at, context, buttons, order, troubles>>

Show(node) ==
  /\ Walk(node)
  /\ AtButtons
  /\ node # "pick-menu" => site # None
  /\ status' = "waiting"
  /\ buttons' = Menu(node, context)
  /\ context' = [Seen(node, context) EXCEPT !.resuming = FALSE]
  /\ UNCHANGED <<at, order, troubles>>

(* The welcome menu goes out as a text instead, a list fails the execution.  *)
ShowFails(node) ==
  /\ Walk(node)
  /\ AtButtons
  /\ node # "pick-menu" => site # None
  /\ troubles < MaxTroubles
  /\ troubles' = troubles + 1
  /\ status' = IF node = "pick-menu" THEN "waiting" ELSE "ended"
  /\ context' = [context EXCEPT !.resuming = FALSE]
  /\ UNCHANGED <<at, buttons, order>>

SendWebsite ==
  /\ Walk("send-website")
  /\ status' = "ended"
  /\ UNCHANGED <<at, context, buttons, order, troubles>>

(* create_catalog_order up to the order; what is missing ends the walk with  *)
(* a text.                                                                   *)
CreateOrder ==
  /\ Walk("create-catalog-order")
  /\ IF IsActive(context.product) /\ product[context.product].stocked /\ PaymentsReady
     THEN /\ order' = Append(order, [product |-> context.product, screenshot |-> FALSE])
          /\ context' = [context EXCEPT !.order = Len(order) + 1]
          /\ at' = "send-payment-qr"
          /\ UNCHANGED status
     ELSE status' = "ended" /\ UNCHANGED <<order, context, at>>
  /\ UNCHANGED <<buttons, troubles>>

(* resolvePaymentQrUrl reads the settings again: an order may be left        *)
(* without a way to pay.                                                     *)
SendPaymentQr ==
  /\ Walk("send-payment-qr")
  /\ IF PaymentsReady
     THEN at' = "collect-payment-screenshot" /\ UNCHANGED status
     ELSE status' = "ended" /\ UNCHANGED at
  /\ UNCHANGED <<context, buttons, order, troubles>>

(* After a tap, and after the order button of the website, the flag says     *)
(* that the customer has answered: the node never asks its question, it      *)
(* sends the reminder that a photo is wanted, not a text.                    *)
AskForScreenshot ==
  /\ Walk("collect-payment-screenshot")
  /\ ~(context.resuming /\ context.image)
  /\ status' = "waiting"
  /\ context' = [context EXCEPT !.resuming = FALSE]
  /\ UNCHANGED <<at, buttons, order, troubles>>

AttachScreenshot(saved) ==
  /\ Walk("collect-payment-screenshot")
  /\ context.resuming /\ context.image
  /\ IF saved
     THEN /\ order' = [order EXCEPT ![context.order].screenshot = TRUE]
          /\ status' = "ended"
          /\ UNCHANGED <<context, troubles>>
     ELSE /\ troubles < MaxTroubles
          /\ troubles' = troubles + 1
          /\ status' = "waiting"
          /\ context' = [context EXCEPT !.resuming = FALSE, !.image = FALSE]
          /\ UNCHANGED order
  /\ UNCHANGED <<at, buttons>>

-----------------------------------------------------------------------------
Next ==
  \/ \E slug \in Slugs : CreateSite(slug) \/ UpdateSlug(slug)
  \/ Publish \/ Unpublish \/ AddOnChanges
  \/ \E c \in Categories : DeleteCategory(c) \/ \E state \in CategoryStates : SaveCategory(c, state)
  \/ \E p \in Products : \E c \in Categories \cup {Uncategorised}, active, stocked \in BOOLEAN :
       SaveProduct(p, c, active, stocked)
  \/ \E p \in Products : DeleteProduct(p)
  \/ \E on \in BOOLEAN, qr \in Media \cup {None} : UpdatePaymentSettings(on, qr)
  \/ \E m \in Media : UploadMedia(m) \/ DeleteMedia(m)
  \/ SaysHi \/ \E b \in buttons : Tap(b)
  \/ \E isImage \in BOOLEAN : Writes(isImage)
  \/ Visit
  \/ \E p \in Products : WebsiteOrder(p)
  \/ \E node \in {"pick-menu", "list-catalog-categories", "list-catalog-products"} :
       NoSite(node) \/ Show(node) \/ ShowFails(node)
  \/ SendWebsite \/ CreateOrder \/ SendPaymentQr \/ AskForScreenshot
  \/ \E saved \in BOOLEAN : AttachScreenshot(saved)

Spec == Init /\ [][Next]_vars

-----------------------------------------------------------------------------
(* Where taps can lead while the owner does nothing: the positions found in  *)
(* so many taps, those of them found last apart.                             *)
Browsing(c) == [category |-> c.category, offset |-> c.offset, page |-> c.page,
                product |-> c.product]

Positions ==
  LET after(menu, c) == {[at |-> b.next, context |-> With(c, b.sets)] : b \in menu}
      found[n \in 0..10] ==
        IF n = 0 THEN [all |-> {}, last |-> after(buttons, Browsing(context))]
        ELSE LET before == found[n - 1]
                 all == before.all \cup before.last
             IN [all |-> all,
                 last |-> UNION {after(Menu(q.at, q.context), Seen(q.at, q.context)) :
                                   q \in before.last} \ all]
  IN found[10].all

(* What a customer can be sold: active, in stock, and in no category or in   *)
(* one that is active (the products of an inactive one are hidden).          *)
ForSale ==
  {p \in Products :
     /\ IsActive(p) /\ product[p].stocked
     /\ product[p].category = Uncategorised \/ category[product[p].category] = "open"}

(* "Browse products & order": whatever menu of the shop is in front of the   *)
(* customer, old as it may be, tapping alone leads to the order button of    *)
(* everything that is for sale, past every page and every emptied category.  *)
EverythingOnOffer ==
  status = "waiting" /\ buttons # {} =>
    \A p \in ForSale :
      \E q \in Positions : q.at = "create-catalog-order" /\ q.context.product = p

(* "After QR is sent: ask for UPI payment screenshot, pause, then attach on  *)
(* inbound image": a customer who asked to order once gets one order, not    *)
(* another one for every message they send while the screenshot is awaited.  *)
OneOrderEach == Len(order) <= wanted
=============================================================================
